--------------------------- MODULE SensitiveCleanup ---------------------------
(***************************************************************************)
(* How one search gives up what must not outlive it (service.py): the      *)
(* enrolled embeddings and per-track evidence, the per-track stores, and   *)
(* the reader with its decoded frames.                                     *)
(*                                                                         *)
(* clear_sensitive_state is one pass over all of it, run by whichever      *)
(* thread gets there: the worker at its end, a stop that timed out, the    *)
(* service's shutdown, the janitor that forgets the search, and a watcher  *)
(* thread that waits for a worker nobody could wait for.  Any part of a    *)
(* pass may fail, and passes of different threads overlap, because the     *)
(* reader is stopped and drained outside _lock.                            *)
(*                                                                         *)
(* Two locks: _lock is an RLock that is held over more than one step only  *)
(* when a pass finds the worker alive and defers itself; _reader_stop_lock *)
(* is held while a reader is joined.                                       *)
(***************************************************************************)
EXTENDS Naturals, Sequences, FiniteSets

CONSTANTS
  Worker,        \* the search's own thread
  Stoppers,      \* requests that stop the search
  Closers,       \* the service's shutdown
  Janitors,      \* the pruning that forgets the search
  Watchers,      \* threads defer_sensitive_cleanup may create, numbered
  None,
  Tries,         \* Len(SENSITIVE_CLEANUP_RETRY_DELAYS)
  MaxRefusals    \* bound: how often a watcher thread cannot be started

ASSUME TriesAssumption == Tries \in Nat \ {0} /\ MaxRefusals \in Nat

Callers == Stoppers \cup Closers \cup Janitors
Threads == {Worker} \cup Callers \cup Watchers

ASSUME ThreadsAssumption ==
  /\ Watchers \subseteq Nat
  /\ Worker \notin Callers \cup Watchers /\ Callers \cap Watchers = {}
  /\ None \notin Threads

VARIABLES
  at,         \* where each thread is
  calls,      \* what each thread goes on with when the call it is in returns
  pass,       \* the locals of each thread's clear_sensitive_state
  starting,   \* the watcher each thread is about to start
  stop,       \* _stop
  finished,   \* _finished
  held,       \* what is in memory, the reader aside
  slot,       \* the field that holds the reader: _reader or _reader_cleanup_pending
  attached,   \* the reader was published and its thread started
  detached,   \* _reader_detached
  stopped,    \* _reader_stop_succeeded
  drained,    \* the stopped reader's frames were dropped
  cleared,    \* _sensitive_cleared
  failed,     \* _sensitive_cleanup_failed
  watcher,    \* _sensitive_cleanup_watcher
  lock,       \* who holds _lock over several steps
  stopLock,   \* who holds _reader_stop_lock
  gone,       \* the janitor took the search off the list
  refusals    \* how often a watcher could not be started

readerVars == <<slot, attached, detached, stopped, drained>>
flagVars == <<stop, finished, cleared, failed, gone>>
lockVars == <<lock, stopLock>>
restVars == <<pass, starting, readerVars, flagVars, lockVars, held, watcher, refusals>>
vars == <<at, calls, restVars>>

Buffers == {"gallery", "stores"}

NoPass == [hand |-> FALSE, kept |-> FALSE, complete |-> TRUE]

(* What a thread goes on with.  "retry" counts the passes left.            *)
Go(step) == [step |-> step, left |-> 0]
Retry(n) == [step |-> "retry", left |-> n]

Init ==
  /\ at = [a \in Threads |->
             IF a = Worker \/ a \in Watchers THEN "unborn" ELSE "idle"]
  /\ calls = [a \in Threads |-> <<>>]
  /\ pass = [a \in Threads |-> NoPass]
  /\ starting = [a \in Threads |-> None]
  /\ stop = FALSE /\ finished = FALSE /\ gone = FALSE
  /\ held = Buffers
  /\ slot = "empty" /\ attached = FALSE /\ detached = FALSE
  /\ stopped = FALSE /\ drained = FALSE
  /\ cleared = FALSE /\ failed = FALSE
  /\ watcher = None /\ lock = None /\ stopLock = None
  /\ refusals = 0

Free(a) == lock \in {None, a}

(* thread.is_alive() of the worker and of a watcher; a thread whose first  *)
(* call is back has ended, and a caller's has answered.                    *)
Alive == at[Worker] \notin {"unborn", "dead"}
Back(a) == at[a] = "return" /\ calls[a] = <<>>
Running(w) == at[w] \notin {"unborn", "published"} /\ ~Back(w)

(* The reader has nothing left to hold: it was never started, or it was    *)
(* stopped and then drained.                                               *)
Released == ~attached \/ (stopped /\ drained)

(* Thread a goes to a place, perhaps noting what to go on with afterwards. *)
GoTo(a, place) == at' = [at EXCEPT ![a] = place]
Note(a, frames) == calls' = [calls EXCEPT ![a] = frames \o @]
Forget(a) == calls' = [calls EXCEPT ![a] = Tail(@)]

-----------------------------------------------------------------------------
(* SearchManager starts the worker, or cannot and cleans up itself.        *)
Start ==
  /\ at[Worker] = "unborn"
  /\ GoTo(Worker, "setup")
  /\ UNCHANGED <<calls, restVars>>

StartFails(c) ==
  /\ at[Worker] = "unborn"
  /\ at' = [at EXCEPT ![Worker] = "dead", ![c] = "defer"]
  /\ UNCHANGED <<calls, restVars>>

(* The reader cannot be built: the search ends, and clears up, at once.    *)
SetupFails ==
  /\ at[Worker] = "setup"
  /\ GoTo(Worker, "claim")
  /\ Note(Worker, <<Go("finish")>>)
  /\ UNCHANGED restVars

(* The worker publishes its reader unless a stop or a pass came first; it  *)
(* then stops the reader it never started.                                 *)
Attach ==
  /\ at[Worker] = "setup" /\ Free(Worker)
  /\ IF detached \/ stop
     THEN /\ GoTo(Worker, "stop")
          /\ Note(Worker, <<Go("cleanup")>>)
          /\ stop' = TRUE
          /\ UNCHANGED <<slot, attached>>
     ELSE /\ GoTo(Worker, "busy")
          /\ slot' = "reader" /\ attached' = TRUE
          /\ UNCHANGED <<calls, stop>>
  /\ UNCHANGED <<pass, starting, detached, stopped, drained, finished, cleared, failed, gone,
                 lockVars, held, watcher, refusals>>

(* The loop is left, whatever ended it; the finally block stops the reader *)
(* and then cleans up.                                                     *)
Wind ==
  /\ at[Worker] = "busy"
  /\ GoTo(Worker, "stop")
  /\ Note(Worker, <<Go("cleanup")>>)
  /\ UNCHANGED restVars

Die ==
  /\ at[Worker] = "exit"
  /\ GoTo(Worker, "dead")
  /\ UNCHANGED <<calls, restVars>>

-----------------------------------------------------------------------------
(* SearchSession.stop: the reader is stopped if it is published; then the  *)
(* worker is waited for.                                                   *)
Interrupt(c, frames) ==
  /\ Free(c)
  /\ stop' = TRUE
  /\ GoTo(c, IF slot = "reader" THEN "stop" ELSE "wait")
  /\ Note(c, (IF slot = "reader" THEN <<Go("wait")>> ELSE <<>>) \o frames)

(* The search is on the manager's list.  _lifecycle_lock lets one request  *)
(* stop it at a time, and shutdown begins between requests.                *)
Listed == ~gone /\ (Alive \/ finished)
Unlocked == \A c \in Stoppers : at[c] = "idle" \/ Back(c)

StopRequest(c) ==
  /\ at[c] = "idle" /\ Listed /\ Unlocked
  /\ ~finished
  /\ Interrupt(c, <<>>)
  /\ UNCHANGED <<pass, starting, readerVars, finished, cleared, failed, gone,
                 lockVars, held, watcher, refusals>>

(* Shutdown stops a search that is still running, then defers its cleanup  *)
(* if the search is still on the list.                                     *)
Shutdown(c) ==
  /\ at[c] = "idle" /\ Listed /\ Unlocked
  /\ IF finished
     THEN GoTo(c, "return") /\ Note(c, <<Go("sweep")>>) /\ UNCHANGED stop
     ELSE Interrupt(c, <<Go("sweep")>>)
  /\ UNCHANGED <<pass, starting, readerVars, finished, cleared, failed, gone,
                 lockVars, held, watcher, refusals>>

(* _prune_sessions takes a finished search off the list, wipes it, and     *)
(* asks again if that was not enough.                                      *)
Prune(c) ==
  /\ at[c] = "idle" /\ Listed /\ finished
  /\ gone' = TRUE
  /\ GoTo(c, "claim") /\ Note(c, <<Go("recheck")>>)
  /\ UNCHANGED <<pass, starting, readerVars, stop, finished, cleared, failed,
                 lockVars, held, watcher, refusals>>

(* finished.wait(timeout) of stop().                                       *)
WaitEnds(c) ==
  /\ at[c] = "wait"
  /\ GoTo(c, IF finished THEN "return" ELSE "defer")
  /\ UNCHANGED <<calls, restVars>>

-----------------------------------------------------------------------------
(* _stop_reader_once.  A pass goes on to drain the reader it claimed, the  *)
(* others return; a failed stop is kept for a later retry.  With both      *)
(* locks at hand it does not linger; otherwise it waits for _lock with     *)
(* _reader_stop_lock held.                                                 *)
AfterStop(a) == IF pass[a].hand THEN "drain" ELSE "return"

LookStopped(a) ==
  IF stopped
  THEN GoTo(a, AfterStop(a)) /\ stopLock' = None
  ELSE GoTo(a, "join") /\ stopLock' = a

MarkStopped(a) ==
  stopped' = TRUE /\ stopLock' = None /\ GoTo(a, AfterStop(a))

StopOnce(a) ==
  /\ \/ /\ at[a] = "stop" /\ stopLock = None
        /\ IF Free(a) THEN LookStopped(a) ELSE GoTo(a, "look") /\ stopLock' = a
     \/ at[a] = "look" /\ Free(a) /\ LookStopped(a)
  /\ UNCHANGED <<calls, pass, starting, readerVars, flagVars, lock, held, watcher, refusals>>

JoinSucceeds(a) ==
  /\ \/ /\ at[a] = "join"
        /\ IF Free(a) THEN MarkStopped(a) ELSE GoTo(a, "mark") /\ UNCHANGED <<stopped, stopLock>>
     \/ at[a] = "mark" /\ Free(a) /\ MarkStopped(a)
  /\ UNCHANGED <<calls, pass, starting, slot, attached, detached, drained, flagVars,
                 lock, held, watcher, refusals>>

(* The capture thread did not exit within the join's timeout; one that was *)
(* never started is not joined.                                            *)
JoinFails(a) ==
  /\ at[a] = "join" /\ attached
  /\ stopLock' = None
  /\ pass' = IF pass[a].hand
             THEN [pass EXCEPT ![a] = [hand |-> TRUE, kept |-> TRUE, complete |-> FALSE]]
             ELSE pass
  /\ GoTo(a, AfterStop(a))
  /\ UNCHANGED <<calls, starting, readerVars, flagVars, lock, held, watcher, refusals>>

-----------------------------------------------------------------------------
(* clear_sensitive_state, up to the end of its first locked section.       *)
PassNeeded(a) == at[a] = "claim" /\ Free(a) /\ ~cleared

(* Slip: whoever got this far takes the worker for gone.                   *)
InUseUnasked(a) == FALSE

(* Another thread may be inside a provider call with the gallery.          *)
InUse(a) == Alive /\ a # Worker /\ ~finished

AlreadyCleared(a) ==
  /\ at[a] = "claim" /\ Free(a) /\ cleared
  /\ GoTo(a, "return")
  /\ UNCHANGED <<calls, restVars>>

(* The pass calls defer_sensitive_cleanup without letting go of _lock.     *)
Postpone(a) ==
  /\ PassNeeded(a) /\ InUse(a)
  /\ GoTo(a, "defer")
  /\ lock' = a
  /\ Note(a, IF lock = a THEN <<>> ELSE <<Go("unlock")>>)
  /\ UNCHANGED <<pass, starting, readerVars, flagVars, stopLock, held, watcher, refusals>>

(* What a pass leaves behind of the buffers it wipes under the lock: the   *)
(* embeddings of targets and tracks, and the per-track stores, trackers    *)
(* and source; each part is attempted whatever happened to the others.     *)
WipeGallery(before) == {before, before \ {"gallery"}}
WipeStores(before) == {before, before \ {"stores"}}

Claim(a) ==
  /\ PassNeeded(a) /\ ~InUse(a)
  /\ \E left \in UNION {WipeStores(h) : h \in WipeGallery(held)} :
       /\ held' = left
       /\ pass' = [pass EXCEPT ![a] =
                     [hand |-> slot # "empty", kept |-> FALSE,
                      complete |-> left = {}]]
  /\ slot' = "empty" /\ detached' = TRUE
  /\ GoTo(a, IF slot # "empty" THEN "stop" ELSE "conclude")
  /\ UNCHANGED <<calls, starting, attached, stopped, drained, flagVars, lockVars,
                 watcher, refusals>>

(* Slip: a reader that could not be stopped or drained is dropped.         *)
DrainAndDrop(a) ==
  /\ at[a] = "drain"
  /\ \E dropped \in BOOLEAN :
       /\ drained' = (drained \/ (dropped /\ stopped))
       /\ pass' = [pass EXCEPT ![a] =
                     [hand |-> FALSE, kept |-> FALSE,
                      complete |-> dropped /\ ~pass[a].kept /\ pass[a].complete]]
  /\ GoTo(a, "conclude")
  /\ UNCHANGED <<calls, starting, slot, attached, detached, stopped, flagVars, lockVars,
                 held, watcher, refusals>>

(* reader.clear(), best effort; draining a reader that still captures is   *)
(* no release.  A reader that could not be stopped or drained is kept.     *)
Drain(a) ==
  /\ at[a] = "drain"
  /\ \E dropped \in BOOLEAN :
       /\ drained' = (drained \/ (dropped /\ stopped))
       /\ pass' = [pass EXCEPT ![a] =
                     [hand |-> FALSE, kept |-> FALSE,
                      complete |-> dropped /\ ~pass[a].kept /\ pass[a].complete]]
       /\ IF dropped /\ ~pass[a].kept
          THEN UNCHANGED slot
          ELSE Free(a) /\ slot' = "pending"
  /\ GoTo(a, "conclude")
  /\ UNCHANGED <<calls, starting, attached, detached, stopped, flagVars, lockVars,
                 held, watcher, refusals>>

(* Slip: a pass trusts its own success and overlooks a reader kept by      *)
(* another.                                                                *)
ConcludeAlone(a) ==
  /\ at[a] = "conclude" /\ Free(a)
  /\ \E dark \in BOOLEAN : cleared' = (dark /\ pass[a].complete)
  /\ GoTo(a, IF ~cleared' /\ Alive THEN "defer" ELSE "return")
  /\ pass' = [pass EXCEPT ![a] = NoPass]
  /\ UNCHANGED <<calls, starting, readerVars, stop, finished, failed, gone, lockVars,
                 held, watcher, refusals>>

(* The preview is cleared last, best effort.  A pass that left anything    *)
(* undone is not complete, and while the worker lives somebody has to      *)
(* retry it.                                                               *)
Conclude(a) ==
  /\ at[a] = "conclude" /\ Free(a)
  /\ \E dark \in BOOLEAN : cleared' = (dark /\ pass[a].complete /\ slot # "pending")
  /\ GoTo(a, IF ~cleared' /\ Alive THEN "defer" ELSE "return")
  /\ pass' = [pass EXCEPT ![a] = NoPass]
  /\ UNCHANGED <<calls, starting, readerVars, stop, finished, failed, gone, lockVars,
                 held, watcher, refusals>>

-----------------------------------------------------------------------------
(* defer_sensitive_cleanup.                                                *)

(* Slip: a watcher that is published and not yet started does not count.   *)
StartedServes == \E w \in Watchers : w = watcher /\ Running(w)

(* A watcher that runs, or is published and not yet started, will do.      *)
WatcherServes == \E w \in Watchers : w = watcher /\ (Running(w) \/ at[w] = "published")

DeferNothing(a) ==
  /\ at[a] = "defer" /\ Free(a)
  /\ cleared \/ (Alive /\ WatcherServes)
  /\ GoTo(a, "return")
  /\ UNCHANGED <<calls, restVars>>

(* With no worker left the retries run in the caller's own thread.         *)
DeferHere(a) ==
  /\ at[a] = "defer" /\ Free(a) /\ ~cleared /\ ~Alive
  /\ GoTo(a, "claim") /\ Note(a, <<Retry(Tries)>>)
  /\ UNCHANGED restVars

Unused == {w \in Watchers : at[w] = "unborn" \/ Back(w)}

(* The thread object is published before it is started; an id whose thread *)
(* has ended stands for a new one.                                         *)
DeferToWatcher(a) ==
  /\ at[a] = "defer" /\ Free(a) /\ ~cleared /\ Alive
  /\ ~WatcherServes
  /\ \E w \in Unused :
       /\ \A v \in Unused : w <= v
       /\ watcher' = w
       /\ starting' = [starting EXCEPT ![a] = w]
       /\ at' = [at EXCEPT ![a] = "start", ![w] = "published"]
  /\ UNCHANGED <<calls, pass, readerVars, flagVars, lockVars, held, refusals>>

StartWatcher(a) ==
  /\ at[a] = "start"
  /\ at' = [at EXCEPT ![a] = "return", ![starting[a]] = "watch"]
  /\ starting' = [starting EXCEPT ![a] = None]
  /\ UNCHANGED <<calls, pass, readerVars, flagVars, lockVars, held, watcher, refusals>>

(* No thread can be started: one pass in the caller's own, unchecked.      *)
RefuseWatcher(a) ==
  /\ at[a] = "start" /\ Free(a)
  /\ refusals < MaxRefusals /\ refusals' = refusals + 1
  /\ at' = [at EXCEPT ![a] = "claim", ![starting[a]] = "unborn"]
  /\ watcher' = IF watcher = starting[a] THEN None ELSE watcher
  /\ starting' = [starting EXCEPT ![a] = None]
  /\ UNCHANGED <<calls, pass, readerVars, flagVars, lockVars, held>>

(* Slip: the wait is made once and not in a loop.                          *)
WatchOnce(w) ==
  /\ at[w] = "watch"
  /\ GoTo(w, "claim") /\ Note(w, <<Retry(Tries)>>)
  /\ UNCHANGED restVars

(* _wait_and_clear_sensitive: until the worker says it has finished, or is *)
(* seen dead without having said so.                                       *)
Watch(w) ==
  /\ at[w] = "watch"
  /\ finished \/ (Free(w) /\ ~Alive)
  /\ GoTo(w, "claim") /\ Note(w, <<Retry(Tries)>>)
  /\ UNCHANGED restVars

-----------------------------------------------------------------------------
(* A call returns to the one it was made from.                             *)
Returning(a, step) ==
  at[a] = "return" /\ calls[a] # <<>> /\ Head(calls[a]).step = step

(* _retry_sensitive_cleanup after a pass.                                  *)
RetryEnds(a) ==
  /\ Returning(a, "retry") /\ Free(a)
  /\ cleared \/ Head(calls[a]).left = 1
  /\ failed' = ~cleared
  /\ Forget(a)
  /\ UNCHANGED <<at, pass, starting, readerVars, stop, finished, cleared, gone, lockVars,
                 held, watcher, refusals>>

RetryAgain(a) ==
  /\ Returning(a, "retry") /\ Free(a)
  /\ ~cleared /\ Head(calls[a]).left > 1
  /\ calls' = [calls EXCEPT ![a] = <<Retry(Head(@).left - 1)>> \o Tail(@)]
  /\ GoTo(a, "claim")
  /\ UNCHANGED restVars

(* Slip: the janitor trusts its one pass.                                  *)
RecheckNothing(a) ==
  /\ \/ Returning(a, "recheck") /\ UNCHANGED at
     \/ Returning(a, "sweep") /\ GoTo(a, IF gone THEN "return" ELSE "defer")
  /\ Forget(a)
  /\ UNCHANGED restVars

(* The janitor looks whether its pass sufficed; shutdown, whether the      *)
(* search is still on the list.                                            *)
Recheck(a) ==
  /\ \/ Returning(a, "recheck") /\ GoTo(a, IF cleared THEN "return" ELSE "defer")
     \/ Returning(a, "sweep") /\ GoTo(a, IF gone THEN "return" ELSE "defer")
  /\ Forget(a)
  /\ UNCHANGED restVars

(* stop() waits for the worker; the worker's finally block cleans up.      *)
Proceed(a) ==
  /\ \/ Returning(a, "wait") /\ GoTo(a, "wait") /\ Forget(a)
     \/ /\ Returning(a, "cleanup") /\ GoTo(a, "claim")
        /\ calls' = [calls EXCEPT ![a] = <<Go("finish")>>]
  /\ UNCHANGED restVars

Unlock(a) ==
  /\ Returning(a, "unlock")
  /\ lock' = None
  /\ Forget(a)
  /\ UNCHANGED <<at, pass, starting, readerVars, flagVars, stopLock, held, watcher, refusals>>

Finish ==
  /\ Returning(Worker, "finish")
  /\ finished' = TRUE
  /\ Forget(Worker) /\ GoTo(Worker, "exit")
  /\ UNCHANGED <<pass, starting, readerVars, stop, cleared, failed, gone, lockVars,
                 held, watcher, refusals>>

-----------------------------------------------------------------------------
StopReader(a) == StopOnce(a) \/ JoinSucceeds(a) \/ JoinFails(a)
Clear(a) ==
  AlreadyCleared(a) \/ Postpone(a) \/ Claim(a) \/ Drain(a) \/ Conclude(a)
Defer(a) ==
  DeferNothing(a) \/ DeferHere(a) \/ DeferToWatcher(a) \/ StartWatcher(a) \/ RefuseWatcher(a)
Resume(a) ==
  RetryEnds(a) \/ RetryAgain(a) \/ Recheck(a) \/ Proceed(a) \/ Unlock(a)

Step(a) == StopReader(a) \/ Clear(a) \/ Defer(a) \/ Resume(a)

Next ==
  \/ Start \/ SetupFails \/ Attach \/ Wind \/ Finish \/ Die
  \/ \E c \in Stoppers \cup Closers : StartFails(c)
  \/ \E c \in Stoppers : StopRequest(c)
  \/ \E c \in Closers : Shutdown(c)
  \/ \E c \in Janitors : Prune(c)
  \/ \E c \in Callers : WaitEnds(c)
  \/ \E w \in Watchers : Watch(w)
  \/ \E a \in Threads : Step(a)

Spec == Init /\ [][Next]_vars
=============================================================================
