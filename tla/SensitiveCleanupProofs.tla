------------------------- MODULE SensitiveCleanupProofs -------------------------
(***************************************************************************)
(* Proofs about SensitiveCleanup, for any sets of threads, any number of   *)
(* tries and any number of refused watchers.                               *)
(***************************************************************************)
EXTENDS SensitiveCleanupProps, SequenceTheorems, TLAPS

-----------------------------------------------------------------------------
(* What a thread goes on with stays a sequence of frames.                  *)
LEMMA FramesTyped ==
  /\ \A s \in {"wait", "sweep", "recheck", "unlock", "cleanup", "finish"} :
       <<Go(s)>> \in Seq(Frames)
  /\ \A n \in 1..Tries : <<Retry(n)>> \in Seq(Frames)
  /\ <<Retry(Tries)>> \in Seq(Frames)
  /\ <<>> \in Seq(Frames)
<1>1. \A s \in {"wait", "sweep", "recheck", "unlock", "cleanup", "finish"} : Go(s) \in Frames
  BY DEF Frames
<1>2. \A n \in 1..Tries : Retry(n) \in Frames
  BY DEF Frames
<1>3. \A f \in Frames : <<f>> \in Seq(Frames)
  OBVIOUS
<1>4. Tries \in 1..Tries
  BY TriesAssumption
<1> QED
  BY <1>1, <1>2, <1>3, <1>4

(* One try less is still a number of tries.                                *)
LEMMA RetryFrames ==
  ASSUME NEW f \in Frames, f.step = "retry", f.left > 1
  PROVE  <<Retry(f.left - 1)>> \in Seq(Frames)
<1>1. f \in {Retry(n) : n \in 1..Tries}
  BY DEF Frames, Go
<1>2. PICK n \in 1..Tries : f = Retry(n)
  BY <1>1
<1>3. f.left = n
  BY <1>2 DEF Retry
<1> QED
  BY <1>3, FramesTyped, TriesAssumption

(* A pass removes from what is held and adds nothing.                      *)
LEMMA WipesShrink ==
  ASSUME NEW left, left \in UNION {WipeStores(h) : h \in WipeGallery(held)}
  PROVE  left \subseteq held
  BY DEF WipeStores, WipeGallery

(* What a thread notes, and what a call returns to, keep the stack typed.  *)
LEMMA NoteTyped ==
  ASSUME TypeOK, NEW a \in Threads, NEW frames \in Seq(Frames), Note(a, frames)
  PROVE  calls' \in [Threads -> Seq(Frames)]
<1>1. frames \o calls[a] \in Seq(Frames)
  BY ConcatProperties DEF TypeOK
<1> QED
  BY <1>1 DEF TypeOK, Note

LEMMA ForgetTyped ==
  ASSUME TypeOK, NEW a \in Threads, calls[a] # <<>>, Forget(a)
  PROVE  calls' \in [Threads -> Seq(Frames)]
<1>1. Tail(calls[a]) \in Seq(Frames)
  BY HeadTailProperties DEF TypeOK
<1> QED
  BY <1>1 DEF TypeOK, Forget

LEMMA InterruptTyped ==
  ASSUME TypeOK, NEW c \in Threads, NEW frames \in Seq(Frames), Interrupt(c, frames)
  PROVE  calls' \in [Threads -> Seq(Frames)]
<1>1. (IF slot = "reader" THEN <<Go("wait")>> ELSE <<>>) \o frames \in Seq(Frames)
  BY FramesTyped, ConcatProperties
<1> QED
  BY <1>1, NoteTyped DEF Interrupt

(* Every step keeps the types.                                             *)
LEMMA TypeStep ==
  ASSUME TypeOK, [Next]_vars
  PROVE  TypeOK'
<1> USE TriesAssumption, ThreadsAssumption
<1> USE DEF TypeOK, Places, GoTo, Threads, Callers, NoPass, Buffers,
      vars, restVars, readerVars, flagVars, lockVars
<1>1. ASSUME Start PROVE TypeOK'
  BY <1>1 DEF Start
<1>2. ASSUME SetupFails PROVE TypeOK'
  <2>1. calls' \in [Threads -> Seq(Frames)]
    BY <1>2, NoteTyped, FramesTyped DEF SetupFails
  <2> QED  BY <1>2, <2>1 DEF SetupFails
<1>3. ASSUME Attach PROVE TypeOK'
  <2>1. calls' \in [Threads -> Seq(Frames)]
    BY <1>3, NoteTyped, FramesTyped DEF Attach, Free
  <2> QED  BY <1>3, <2>1 DEF Attach, Free
<1>4. ASSUME Wind PROVE TypeOK'
  <2>1. calls' \in [Threads -> Seq(Frames)]
    BY <1>4, NoteTyped, FramesTyped DEF Wind
  <2> QED  BY <1>4, <2>1 DEF Wind
<1>5. ASSUME Finish PROVE TypeOK'
  <2>1. calls' \in [Threads -> Seq(Frames)]
    BY <1>5, ForgetTyped DEF Finish, Returning
  <2> QED  BY <1>5, <2>1 DEF Finish, Returning
<1>6. ASSUME Die PROVE TypeOK'
  BY <1>6 DEF Die
<1>7. ASSUME NEW c \in Stoppers \cup Closers, StartFails(c) PROVE TypeOK'
  BY <1>7 DEF StartFails
<1>8. ASSUME NEW c \in Stoppers, StopRequest(c) PROVE TypeOK'
  <2>1. calls' \in [Threads -> Seq(Frames)]
    BY <1>8, InterruptTyped, FramesTyped DEF StopRequest
  <2> QED  BY <1>8, <2>1 DEF StopRequest, Interrupt
<1>9. ASSUME NEW c \in Closers, Shutdown(c) PROVE TypeOK'
  <2>1. calls' \in [Threads -> Seq(Frames)]
    BY <1>9, InterruptTyped, NoteTyped, FramesTyped DEF Shutdown
  <2> QED  BY <1>9, <2>1 DEF Shutdown, Interrupt
<1>10. ASSUME NEW c \in Janitors, Prune(c) PROVE TypeOK'
  <2>1. calls' \in [Threads -> Seq(Frames)]
    BY <1>10, NoteTyped, FramesTyped DEF Prune
  <2> QED  BY <1>10, <2>1 DEF Prune
<1>11. ASSUME NEW c \in Callers, WaitEnds(c) PROVE TypeOK'
  BY <1>11 DEF WaitEnds
<1>12. ASSUME NEW w \in Watchers, Watch(w) PROVE TypeOK'
  <2>1. calls' \in [Threads -> Seq(Frames)]
    BY <1>12, NoteTyped, FramesTyped DEF Watch
  <2> QED  BY <1>12, <2>1 DEF Watch
<1>13. ASSUME NEW a \in Threads, StopOnce(a) PROVE TypeOK'
  BY <1>13 DEF StopOnce, LookStopped, AfterStop
<1>14. ASSUME NEW a \in Threads, JoinSucceeds(a) PROVE TypeOK'
  BY <1>14 DEF JoinSucceeds, MarkStopped, AfterStop
<1>15. ASSUME NEW a \in Threads, JoinFails(a) PROVE TypeOK'
  BY <1>15 DEF JoinFails, AfterStop
<1>16. ASSUME NEW a \in Threads, AlreadyCleared(a) PROVE TypeOK'
  BY <1>16 DEF AlreadyCleared
<1>17. ASSUME NEW a \in Threads, Postpone(a) PROVE TypeOK'
  <2>1. calls' \in [Threads -> Seq(Frames)]
    BY <1>17, NoteTyped, FramesTyped DEF Postpone, PassNeeded, Free
  <2> QED  BY <1>17, <2>1 DEF Postpone, PassNeeded, Free
<1>18. ASSUME NEW a \in Threads, Claim(a) PROVE TypeOK'
  <2>1. held' \subseteq held
    BY <1>18, WipesShrink DEF Claim
  <2>2. pass' \in [Threads -> [hand : BOOLEAN, kept : BOOLEAN, complete : BOOLEAN]]
    BY <1>18 DEF Claim
  <2> QED  BY <1>18, <2>1, <2>2 DEF Claim
<1>19. ASSUME NEW a \in Threads, Drain(a) PROVE TypeOK'
  <2>1. drained' \in BOOLEAN
    <3>1. PICK dropped \in BOOLEAN : drained' = (drained \/ (dropped /\ stopped))
      BY <1>19 DEF Drain
    <3>2. (drained \/ (dropped /\ stopped)) \in BOOLEAN
      BY Zenon
    <3> QED  BY <3>1, <3>2, Zenon
  <2>2. pass' \in [Threads -> [hand : BOOLEAN, kept : BOOLEAN, complete : BOOLEAN]]
    <3>1. PICK dropped \in BOOLEAN : pass' = [pass EXCEPT ![a] =
            [hand |-> FALSE, kept |-> FALSE,
             complete |-> dropped /\ ~pass[a].kept /\ pass[a].complete]]
      BY <1>19 DEF Drain
    <3>2. (dropped /\ ~pass[a].kept /\ pass[a].complete) \in BOOLEAN
      BY Zenon
    <3> QED  BY <3>1, <3>2
  <2>3. slot' \in {"empty", "reader", "pending"}
    BY <1>19 DEF Drain
  <2>4. at' \in [Threads -> Places]
    BY <1>19 DEF Drain
  <2> QED  BY <1>19, <2>1, <2>2, <2>3, <2>4 DEF Drain
<1>20. ASSUME NEW a \in Threads, Conclude(a) PROVE TypeOK'
  BY <1>20 DEF Conclude
<1>21. ASSUME NEW a \in Threads, DeferNothing(a) PROVE TypeOK'
  BY <1>21 DEF DeferNothing
<1>22. ASSUME NEW a \in Threads, DeferHere(a) PROVE TypeOK'
  <2>1. calls' \in [Threads -> Seq(Frames)]
    BY <1>22, NoteTyped, FramesTyped DEF DeferHere
  <2> QED  BY <1>22, <2>1 DEF DeferHere
<1>23. ASSUME NEW a \in Threads, DeferToWatcher(a) PROVE TypeOK'
  BY <1>23 DEF DeferToWatcher, Unused
<1>24. ASSUME NEW a \in Threads, StartWatcher(a) PROVE TypeOK'
  BY <1>24 DEF StartWatcher
<1>25. ASSUME NEW a \in Threads, RefuseWatcher(a) PROVE TypeOK'
  <2>1. refusals' \in 0..MaxRefusals
    BY <1>25 DEF RefuseWatcher
  <2>2. at' \in [Threads -> Places]
    BY <1>25 DEF RefuseWatcher
  <2>3. watcher' \in Watchers \cup {None} /\ starting' \in [Threads -> Watchers \cup {None}]
    BY <1>25 DEF RefuseWatcher
  <2> QED  BY <1>25, <2>1, <2>2, <2>3 DEF RefuseWatcher
<1>26. ASSUME NEW a \in Threads, RetryEnds(a) PROVE TypeOK'
  <2>1. calls' \in [Threads -> Seq(Frames)]
    BY <1>26, ForgetTyped DEF RetryEnds, Returning
  <2> QED  BY <1>26, <2>1 DEF RetryEnds, Returning
<1>27. ASSUME NEW a \in Threads, RetryAgain(a) PROVE TypeOK'
  <2>1. calls[a] \in Seq(Frames) /\ calls[a] # <<>>
    BY <1>27 DEF RetryAgain, Returning
  <2>2. Head(calls[a]) \in Frames /\ Tail(calls[a]) \in Seq(Frames)
    BY <2>1, HeadTailProperties
  <2>3. <<Retry(Head(calls[a]).left - 1)>> \in Seq(Frames)
    BY <1>27, <2>2, RetryFrames DEF RetryAgain, Returning
  <2>4. <<Retry(Head(calls[a]).left - 1)>> \o Tail(calls[a]) \in Seq(Frames)
    BY <2>2, <2>3, ConcatProperties
  <2>5. calls' \in [Threads -> Seq(Frames)]
    BY <1>27, <2>4 DEF RetryAgain
  <2> QED  BY <1>27, <2>5 DEF RetryAgain
<1>28. ASSUME NEW a \in Threads, Recheck(a) PROVE TypeOK'
  <2>1. calls' \in [Threads -> Seq(Frames)]
    BY <1>28, ForgetTyped DEF Recheck, Returning
  <2> QED  BY <1>28, <2>1 DEF Recheck, Returning
<1>29. ASSUME NEW a \in Threads, Proceed(a) PROVE TypeOK'
  <2>1. CASE Returning(a, "wait") /\ GoTo(a, "wait") /\ Forget(a)
    <3>1. calls' \in [Threads -> Seq(Frames)]
      BY <2>1, ForgetTyped DEF Returning
    <3> QED  BY <1>29, <2>1, <3>1 DEF Proceed
  <2>2. CASE GoTo(a, "claim") /\ calls' = [calls EXCEPT ![a] = <<Go("finish")>>]
    BY <1>29, <2>2, FramesTyped DEF Proceed
  <2> QED  BY <1>29, <2>1, <2>2 DEF Proceed
<1>30. ASSUME NEW a \in Threads, Unlock(a) PROVE TypeOK'
  <2>1. calls' \in [Threads -> Seq(Frames)]
    BY <1>30, ForgetTyped DEF Unlock, Returning
  <2> QED  BY <1>30, <2>1 DEF Unlock, Returning
<1>31. CASE UNCHANGED vars
  BY <1>31 DEF vars
<1> QED
  BY <1>1, <1>2, <1>3, <1>4, <1>5, <1>6, <1>7, <1>8, <1>9, <1>10, <1>11,
     <1>12, <1>13, <1>14, <1>15, <1>16, <1>17, <1>18, <1>19, <1>20, <1>21,
     <1>22, <1>23, <1>24, <1>25, <1>26, <1>27, <1>28, <1>29, <1>30, <1>31
  DEF Next, Step, StopReader, Clear, Defer, Resume

-----------------------------------------------------------------------------
(* No thread has begun before the worker; until the worker winds up its    *)
(* search nobody has wiped anything; and only an ended one has finished.   *)
Lifecycle ==
  /\ at[Worker] = "unborn" =>
       \A a \in Threads \ {Worker} : at[a] \in {"idle", "unborn"}
  /\ at[Worker] \in {"unborn", "setup", "busy"} =>
       held = Buffers /\ ~detached /\ ~finished
  /\ finished => at[Worker] \in {"exit", "dead"}

(* Whoever starts a watcher starts the published one, alone, and none but  *)
(* the published one runs.                                                 *)
Watching ==
  /\ \A a \in Threads : at[a] = "start" =>
       starting[a] \in Watchers /\ at[starting[a]] = "published" /\ watcher = starting[a]
  /\ \A a, b \in Threads : at[a] = "start" /\ at[b] = "start" => a = b
  /\ \A w \in Watchers : Running(w) => watcher = w

(* The reader is in one hand at most, which took it out of its field when  *)
(* it detached it; and a hand that could stop the reader did.              *)
HandPlaces == {"stop", "look", "join", "mark", "drain"}

InHand ==
  /\ \A a \in Threads : pass[a].hand =>
       at[a] \in HandPlaces /\ slot = "empty" /\ detached /\ attached
  /\ \A a, b \in Threads : pass[a].hand /\ pass[b].hand => a = b
  /\ \A a \in Threads : at[a] = "drain" =>
       pass[a].hand /\ (stopped \/ pass[a].kept)
  /\ slot # "empty" => attached
  /\ slot = "pending" => detached
  /\ at[Worker] \in {"unborn", "setup"} => ~attached
  /\ ~Released => slot # "empty" \/ \E a \in Threads : pass[a].hand

(* A pass that calls itself complete has wiped everything.                 *)
Told ==
  /\ \A a \in Threads : pass[a].complete /\ (pass[a].hand \/ at[a] = "conclude") => held = {}
  /\ \A a \in Threads : at[a] # "conclude" /\ ~pass[a].hand => pass[a].complete
  /\ \A a \in Threads : at[a] = "conclude" => detached
  /\ detached => slot # "reader"
  /\ cleared => held = {} /\ detached
  /\ cleared /\ ~Released => \E a \in Threads : Unsettled(a)

(* The worker has gone, as far as a pass can tell.                         *)
Over == finished \/ at[Worker] = "dead"

(* The thread will run a pass.                                             *)
Has(frames, steps) == \E i \in DOMAIN frames : frames[i].step \in steps
Passes(frames) == Has(frames, {"retry", "cleanup"})
WillPass(a) == at[a] = "claim" \/ Passes(calls[a])

(* While every watcher could be started, only the worker runs a pass       *)
(* before its own end, so that no pass has to be postponed under _lock.    *)
Orderly ==
  refusals = 0 =>
    /\ lock = None
    /\ \A a \in Threads \ {Worker} : WillPass(a) => Over

(* The thread still has somebody to answer to for its passes.              *)
Pledged(a) == Has(calls[a], {"retry", "recheck"})
OtherSteps == {"wait", "sweep", "recheck", "unlock", "cleanup", "finish"}

(* Which frames are on whose stack: none on one that is not in a call, at  *)
(* most one on the worker's, only retries on a watcher's; and nobody but   *)
(* the worker runs a pass without a frame that asks how it went.           *)
Quiet == {"idle", "unborn", "published", "watch", "setup", "busy", "exit", "dead"}

StackFits(a, place, frames, hand) ==
  /\ place \in Quiet => frames = <<>>
  /\ a = Worker => frames \in {<<>>, <<Go("cleanup")>>, <<Go("finish")>>}
  /\ a # Worker =>
       /\ ~Has(frames, {"cleanup"})
       /\ place \in {"claim", "drain", "conclude"} \/ hand => Has(frames, {"retry", "recheck"})
  /\ a \in Watchers =>
       /\ ~Has(frames, OtherSteps)
       /\ frames = <<>> => place \in {"unborn", "published", "watch", "return"}

Stacked == \A a \in Threads : StackFits(a, at[a], calls[a], pass[a].hand)

(* The worker has its own pass before it, or is in it.                     *)
WorkerWill ==
  \/ at[Worker] \in {"unborn", "setup", "busy", "claim", "drain", "conclude"}
  \/ pass[Worker].hand \/ calls[Worker] = <<Go("cleanup")>>

(* The thread will see to it that the cleanup is done or its failure told. *)
SeesToIt(a) ==
  at[a] \in {"defer", "start", "watch"} \/ (a # Worker /\ Pledged(a))

Handled == cleared \/ failed \/ WorkerWill \/ \E a \in Threads : SeesToIt(a)

Announced ==
  \A w \in Watchers : at[w] = "published" =>
    \E a \in Threads : at[a] = "start" /\ starting[a] = w

(* While every watcher could be started, a published one is about to be,   *)
(* and unless the cleanup is done or its failure told somebody sees to it. *)
Attended == refusals = 0 => Stacked /\ Announced /\ Handled

(* A published watcher is started by the one that published it, and by no  *)
(* one else; the next is published when nobody waits for it any more.      *)
LEMMA WatchingStep ==
  ASSUME TypeOK, Watching, Lifecycle, [Next]_vars
  PROVE  Watching'
<1>0. /\ at \in [Threads -> Places]
      /\ calls \in [Threads -> Seq(Frames)]
      /\ starting \in [Threads -> Watchers \cup {None}]
  BY DEF TypeOK
<1> USE <1>0, ThreadsAssumption
<1> USE DEF Watching, Running, Back, Note, Forget, GoTo, Threads, Callers, restVars,
      readerVars, flagVars, lockVars
<1>1. ASSUME Start PROVE Watching'
  BY <1>1 DEF Start
<1>2. ASSUME SetupFails PROVE Watching'
  BY <1>2 DEF SetupFails
<1>3. ASSUME Attach PROVE Watching'
  BY <1>3 DEF Attach, Free
<1>4. ASSUME Wind PROVE Watching'
  BY <1>4 DEF Wind
<1>5. ASSUME Finish PROVE Watching'
  BY <1>5 DEF Finish, Returning
<1>6. ASSUME Die PROVE Watching'
  BY <1>6 DEF Die
<1>7. ASSUME NEW c \in Stoppers \cup Closers, StartFails(c) PROVE Watching'
  BY <1>7 DEF StartFails
<1>8. ASSUME NEW c \in Stoppers, StopRequest(c) PROVE Watching'
  BY <1>8 DEF StopRequest, Interrupt, Listed, Alive, Free
<1>9. ASSUME NEW c \in Closers, Shutdown(c) PROVE Watching'
  BY <1>9 DEF Shutdown, Interrupt, Listed, Alive, Free
<1>10. ASSUME NEW c \in Janitors, Prune(c) PROVE Watching'
  BY <1>10 DEF Prune, Listed, Alive
<1>11. ASSUME NEW c \in Callers, WaitEnds(c) PROVE Watching'
  BY <1>11 DEF WaitEnds
<1>12. ASSUME NEW w \in Watchers, Watch(w) PROVE Watching'
  BY <1>12 DEF Watch, Alive, Free
<1>13. ASSUME NEW a \in Threads, StopOnce(a) PROVE Watching'
  BY <1>13 DEF StopOnce, LookStopped, AfterStop, Free
<1>14. ASSUME NEW a \in Threads, JoinSucceeds(a) PROVE Watching'
  <2>1. UNCHANGED <<calls, starting, watcher>>
    BY <1>14 DEF JoinSucceeds
  <2>2. at[a] \in {"join", "mark"}
    BY <1>14 DEF JoinSucceeds
  <2>3. PICK p \in {"mark", "drain", "return"} : GoTo(a, p)
    BY <1>14 DEF JoinSucceeds, MarkStopped, AfterStop
  <2> QED  BY <2>1, <2>2, <2>3
<1>15. ASSUME NEW a \in Threads, JoinFails(a) PROVE Watching'
  BY <1>15 DEF JoinFails, AfterStop
<1>16. ASSUME NEW a \in Threads, AlreadyCleared(a) PROVE Watching'
  BY <1>16 DEF AlreadyCleared, Free
<1>17. ASSUME NEW a \in Threads, Postpone(a) PROVE Watching'
  BY <1>17 DEF Postpone, PassNeeded, InUse, Alive, Free
<1>18. ASSUME NEW a \in Threads, Claim(a) PROVE Watching'
  BY <1>18 DEF Claim, PassNeeded, InUse, Alive, Free
<1>19. ASSUME NEW a \in Threads, Drain(a) PROVE Watching'
  BY <1>19 DEF Drain, Free
<1>20. ASSUME NEW a \in Threads, Conclude(a) PROVE Watching'
  BY <1>20 DEF Conclude, Alive, Free
<1>21. ASSUME NEW a \in Threads, DeferNothing(a) PROVE Watching'
  BY <1>21 DEF DeferNothing, Alive, Free
<1>22. ASSUME NEW a \in Threads, DeferHere(a) PROVE Watching'
  BY <1>22 DEF DeferHere, Alive, Free
<1>23. ASSUME NEW a \in Threads, DeferToWatcher(a) PROVE Watching'
  <2>1. PICK w \in Unused :
          /\ watcher' = w
          /\ starting' = [starting EXCEPT ![a] = w]
          /\ at' = [at EXCEPT ![a] = "start", ![w] = "published"]
    BY <1>23 DEF DeferToWatcher
  <2>2. w \in Watchers /\ at[w] # "published" /\ ~Running(w) /\ at[a] = "defer" /\ w # a
    BY <1>23, <2>1 DEF DeferToWatcher, Unused
  <2>3. \A v \in Watchers : ~Running(v)
    BY <1>23 DEF DeferToWatcher, WatcherServes
  <2>4. \A b \in Threads : at[b] # "start"
    BY <1>23 DEF DeferToWatcher, WatcherServes
  <2>5. \A b \in Threads : at'[b] = IF b = w THEN "published" ELSE IF b = a THEN "start" ELSE at[b]
    BY <2>1, <2>2
  <2>6. a \notin Watchers
    BY <2>2, <2>3
  <2>7. \A b \in Threads : at'[b] = "start" => b = a
    BY <2>4, <2>5
  <2>8. \A v \in Watchers : ~Running(v)'
    BY <1>23, <2>3, <2>5, <2>6 DEF DeferToWatcher
  <2>9. starting'[a] = w
    BY <2>1
  <2> QED  BY <2>1, <2>2, <2>5, <2>7, <2>8, <2>9
<1>24. ASSUME NEW a \in Threads, StartWatcher(a) PROVE Watching'
  BY <1>24 DEF StartWatcher
<1>25. ASSUME NEW a \in Threads, RefuseWatcher(a) PROVE Watching'
  BY <1>25 DEF RefuseWatcher, Free
<1>26. ASSUME NEW a \in Threads, RetryEnds(a) PROVE Watching'
  BY <1>26 DEF RetryEnds, Returning
<1>27. ASSUME NEW a \in Threads, RetryAgain(a) PROVE Watching'
  BY <1>27 DEF RetryAgain, Returning
<1>28. ASSUME NEW a \in Threads, Recheck(a) PROVE Watching'
  <2>1. PICK p \in {"return", "defer"} : GoTo(a, p)
    BY <1>28 DEF Recheck
  <2>2. at[a] = "return" /\ calls[a] # <<>> /\ Forget(a) /\ UNCHANGED <<starting, watcher>>
    BY <1>28 DEF Recheck, Returning
  <2> QED  BY <2>1, <2>2
<1>29. ASSUME NEW a \in Threads, Proceed(a) PROVE Watching'
  <2>1. PICK p \in {"wait", "claim"} : GoTo(a, p)
    BY <1>29 DEF Proceed
  <2>2. at[a] = "return" /\ calls[a] # <<>> /\ UNCHANGED <<starting, watcher>>
    BY <1>29 DEF Proceed, Returning
  <2>3. \A b \in Threads \ {a} : calls'[b] = calls[b]
    BY <1>29 DEF Proceed
  <2> QED  BY <2>1, <2>2, <2>3
<1>30. ASSUME NEW a \in Threads, Unlock(a) PROVE Watching'
  BY <1>30 DEF Unlock, Returning
<1>31. CASE UNCHANGED vars
  BY <1>31 DEF vars
<1> QED
  BY <1>1, <1>2, <1>3, <1>4, <1>5, <1>6, <1>7, <1>8, <1>9, <1>10, <1>11,
     <1>12, <1>13, <1>14, <1>15, <1>16, <1>17, <1>18, <1>19, <1>20, <1>21,
     <1>22, <1>23, <1>24, <1>25, <1>26, <1>27, <1>28, <1>29, <1>30, <1>31
  DEF Next, Step, StopReader, Clear, Defer, Resume

(* Only the worker, or one that saw it end, wipes.                         *)
LEMMA LifecycleStep ==
  ASSUME TypeOK, Watching, Lifecycle, [Next]_vars
  PROVE  Lifecycle'
<1>0. /\ at \in [Threads -> Places]
      /\ calls \in [Threads -> Seq(Frames)]
      /\ starting \in [Threads -> Watchers \cup {None}]
  BY DEF TypeOK
<1> USE <1>0, ThreadsAssumption
<1> USE DEF Watching, Lifecycle, Alive, GoTo, Threads, Callers, restVars, readerVars,
      flagVars, lockVars
<1>1. ASSUME Start PROVE Lifecycle'
  BY <1>1 DEF Start
<1>2. ASSUME SetupFails PROVE Lifecycle'
  BY <1>2 DEF SetupFails
<1>3. ASSUME Attach PROVE Lifecycle'
  BY <1>3 DEF Attach, Free
<1>4. ASSUME Wind PROVE Lifecycle'
  BY <1>4 DEF Wind
<1>5. ASSUME Finish PROVE Lifecycle'
  BY <1>5 DEF Finish, Returning
<1>6. ASSUME Die PROVE Lifecycle'
  BY <1>6 DEF Die
<1>7. ASSUME NEW c \in Stoppers \cup Closers, StartFails(c) PROVE Lifecycle'
  BY <1>7 DEF StartFails
<1>8. ASSUME NEW c \in Stoppers, StopRequest(c) PROVE Lifecycle'
  BY <1>8 DEF StopRequest, Interrupt, Listed, Alive, Free
<1>9. ASSUME NEW c \in Closers, Shutdown(c) PROVE Lifecycle'
  BY <1>9 DEF Shutdown, Interrupt, Listed, Alive, Free
<1>10. ASSUME NEW c \in Janitors, Prune(c) PROVE Lifecycle'
  BY <1>10 DEF Prune, Listed, Alive
<1>11. ASSUME NEW c \in Callers, WaitEnds(c) PROVE Lifecycle'
  BY <1>11 DEF WaitEnds
<1>12. ASSUME NEW w \in Watchers, Watch(w) PROVE Lifecycle'
  BY <1>12 DEF Watch, Alive, Free
<1>13. ASSUME NEW a \in Threads, StopOnce(a) PROVE Lifecycle'
  BY <1>13 DEF StopOnce, LookStopped, AfterStop, Free
<1>14. ASSUME NEW a \in Threads, JoinSucceeds(a) PROVE Lifecycle'
  BY <1>14 DEF JoinSucceeds, MarkStopped, AfterStop, Free
<1>15. ASSUME NEW a \in Threads, JoinFails(a) PROVE Lifecycle'
  BY <1>15 DEF JoinFails, AfterStop
<1>16. ASSUME NEW a \in Threads, AlreadyCleared(a) PROVE Lifecycle'
  BY <1>16 DEF AlreadyCleared, Free
<1>17. ASSUME NEW a \in Threads, Postpone(a) PROVE Lifecycle'
  BY <1>17 DEF Postpone, PassNeeded, InUse, Alive, Free
<1>18. ASSUME NEW a \in Threads, Claim(a) PROVE Lifecycle'
  BY <1>18 DEF Claim, PassNeeded, InUse, Alive, Free
<1>19. ASSUME NEW a \in Threads, Drain(a) PROVE Lifecycle'
  BY <1>19 DEF Drain, Free
<1>20. ASSUME NEW a \in Threads, Conclude(a) PROVE Lifecycle'
  BY <1>20 DEF Conclude, Alive, Free
<1>21. ASSUME NEW a \in Threads, DeferNothing(a) PROVE Lifecycle'
  BY <1>21 DEF DeferNothing, Alive, Free
<1>22. ASSUME NEW a \in Threads, DeferHere(a) PROVE Lifecycle'
  BY <1>22 DEF DeferHere, Alive, Free
<1>23. ASSUME NEW a \in Threads, DeferToWatcher(a) PROVE Lifecycle'
  BY <1>23 DEF DeferToWatcher, Alive, Free, Unused, WatcherServes, Running, Back
<1>24. ASSUME NEW a \in Threads, StartWatcher(a) PROVE Lifecycle'
  BY <1>24 DEF StartWatcher
<1>25. ASSUME NEW a \in Threads, RefuseWatcher(a) PROVE Lifecycle'
  BY <1>25 DEF RefuseWatcher, Free
<1>26. ASSUME NEW a \in Threads, RetryEnds(a) PROVE Lifecycle'
  BY <1>26 DEF RetryEnds, Returning
<1>27. ASSUME NEW a \in Threads, RetryAgain(a) PROVE Lifecycle'
  BY <1>27 DEF RetryAgain, Returning
<1>28. ASSUME NEW a \in Threads, Recheck(a) PROVE Lifecycle'
  BY <1>28 DEF Recheck, Returning
<1>29. ASSUME NEW a \in Threads, Proceed(a) PROVE Lifecycle'
  BY <1>29 DEF Proceed, Returning
<1>30. ASSUME NEW a \in Threads, Unlock(a) PROVE Lifecycle'
  BY <1>30 DEF Unlock, Returning
<1>31. CASE UNCHANGED vars
  BY <1>31 DEF vars
<1> QED
  BY <1>1, <1>2, <1>3, <1>4, <1>5, <1>6, <1>7, <1>8, <1>9, <1>10, <1>11,
     <1>12, <1>13, <1>14, <1>15, <1>16, <1>17, <1>18, <1>19, <1>20, <1>21,
     <1>22, <1>23, <1>24, <1>25, <1>26, <1>27, <1>28, <1>29, <1>30, <1>31
  DEF Next, Step, StopReader, Clear, Defer, Resume

(* A pass takes the reader out of its field and puts it back unless it was *)
(* stopped and drained.                                                    *)
LEMMA InHandStep ==
  ASSUME TypeOK, Watching, Lifecycle, InHand, [Next]_vars
  PROVE  InHand'
<1>0. /\ pass \in [Threads -> [hand : BOOLEAN, kept : BOOLEAN, complete : BOOLEAN]]
      /\ at \in [Threads -> Places]
      /\ calls \in [Threads -> Seq(Frames)]
      /\ starting \in [Threads -> Watchers \cup {None}]
  BY DEF TypeOK
<1> USE <1>0, ThreadsAssumption
<1> USE DEF Watching, Lifecycle, InHand, HandPlaces, Released, Running, NoPass, GoTo,
      Threads, Callers, restVars, readerVars, flagVars, lockVars
<1>1. ASSUME Start PROVE InHand'
  BY <1>1 DEF Start
<1>2. ASSUME SetupFails PROVE InHand'
  BY <1>2 DEF SetupFails
<1>3. ASSUME Attach PROVE InHand'
  BY <1>3 DEF Attach, Free
<1>4. ASSUME Wind PROVE InHand'
  BY <1>4 DEF Wind
<1>5. ASSUME Finish PROVE InHand'
  BY <1>5 DEF Finish, Returning
<1>6. ASSUME Die PROVE InHand'
  BY <1>6 DEF Die
<1>7. ASSUME NEW c \in Stoppers \cup Closers, StartFails(c) PROVE InHand'
  BY <1>7 DEF StartFails
<1>8. ASSUME NEW c \in Stoppers, StopRequest(c) PROVE InHand'
  BY <1>8 DEF StopRequest, Interrupt, Listed, Alive, Free
<1>9. ASSUME NEW c \in Closers, Shutdown(c) PROVE InHand'
  BY <1>9 DEF Shutdown, Interrupt, Listed, Alive, Free
<1>10. ASSUME NEW c \in Janitors, Prune(c) PROVE InHand'
  BY <1>10 DEF Prune, Listed, Alive
<1>11. ASSUME NEW c \in Callers, WaitEnds(c) PROVE InHand'
  BY <1>11 DEF WaitEnds
<1>12. ASSUME NEW w \in Watchers, Watch(w) PROVE InHand'
  BY <1>12 DEF Watch, Alive, Free
<1>13. ASSUME NEW a \in Threads, StopOnce(a) PROVE InHand'
  <2>1. at[a] \in {"stop", "look"} /\ UNCHANGED <<pass, starting, readerVars, flagVars>>
    BY <1>13 DEF StopOnce
  <2>2. PICK p \in HandPlaces \cup {"return"} : GoTo(a, p)
    BY <1>13 DEF StopOnce, LookStopped, AfterStop
  <2>3. p = "drain" => stopped /\ pass[a].hand
    BY <1>13, <2>2 DEF StopOnce, LookStopped, AfterStop
  <2>4. pass[a].hand => p # "return"
    BY <1>13, <2>2 DEF StopOnce, LookStopped, AfterStop
  <2> QED  BY <2>1, <2>2, <2>3, <2>4
<1>14. ASSUME NEW a \in Threads, JoinSucceeds(a) PROVE InHand'
  BY <1>14 DEF JoinSucceeds, MarkStopped, AfterStop, Free
<1>15. ASSUME NEW a \in Threads, JoinFails(a) PROVE InHand'
  BY <1>15 DEF JoinFails, AfterStop
<1>16. ASSUME NEW a \in Threads, AlreadyCleared(a) PROVE InHand'
  BY <1>16 DEF AlreadyCleared, Free
<1>17. ASSUME NEW a \in Threads, Postpone(a) PROVE InHand'
  BY <1>17 DEF Postpone, PassNeeded, InUse, Alive, Free
<1>18. ASSUME NEW a \in Threads, Claim(a) PROVE InHand'
  <2>1. at[a] = "claim" /\ ~pass[a].hand
    BY <1>18 DEF Claim, PassNeeded
  <2>2. PICK done \in BOOLEAN : pass' = [pass EXCEPT ![a] =
          [hand |-> slot # "empty", kept |-> FALSE, complete |-> done]]
    BY <1>18 DEF Claim
  <2>3. \A b \in Threads \ {a} : pass'[b] = pass[b] /\ at'[b] = at[b]
    BY <1>18, <2>2 DEF Claim
  <2>4. pass'[a].hand = (slot # "empty")
    BY <2>2
  <2>5. at'[a] = IF slot # "empty" THEN "stop" ELSE "conclude"
    BY <1>18 DEF Claim
  <2>6. slot' = "empty" /\ detached' /\ UNCHANGED <<attached, stopped, drained>>
    BY <1>18 DEF Claim
  <2>7. slot # "empty" => \A b \in Threads : ~pass[b].hand
    OBVIOUS
  <2>8. ~Released' => \E b \in Threads : pass'[b].hand
    BY <2>1, <2>3, <2>4, <2>6
  <2>9. \A b \in Threads : pass'[b].hand =>
          at'[b] \in HandPlaces /\ slot' = "empty" /\ detached' /\ attached'
    BY <2>1, <2>3, <2>4, <2>5, <2>6
  <2>10. \A b, d \in Threads : pass'[b].hand /\ pass'[d].hand => b = d
    BY <2>1, <2>3, <2>4, <2>7
  <2>11. \A b \in Threads : at'[b] = "drain" =>
          pass'[b].hand /\ (stopped' \/ pass'[b].kept)
    BY <2>1, <2>3, <2>5, <2>6
  <2>12. at'[Worker] \in {"unborn", "setup"} => ~attached'
    BY <2>3, <2>5, <2>6
  <2> QED  BY <2>6, <2>8, <2>9, <2>10, <2>11, <2>12
<1>19. ASSUME NEW a \in Threads, Drain(a) PROVE InHand'
  BY <1>19 DEF Drain, Free
<1>20. ASSUME NEW a \in Threads, Conclude(a) PROVE InHand'
  BY <1>20 DEF Conclude, Alive, Free
<1>21. ASSUME NEW a \in Threads, DeferNothing(a) PROVE InHand'
  BY <1>21 DEF DeferNothing, Alive, Free
<1>22. ASSUME NEW a \in Threads, DeferHere(a) PROVE InHand'
  BY <1>22 DEF DeferHere, Alive, Free
<1>23. ASSUME NEW a \in Threads, DeferToWatcher(a) PROVE InHand'
  BY <1>23 DEF DeferToWatcher, Alive, Free, Unused, WatcherServes, Running, Back
<1>24. ASSUME NEW a \in Threads, StartWatcher(a) PROVE InHand'
  BY <1>24 DEF StartWatcher
<1>25. ASSUME NEW a \in Threads, RefuseWatcher(a) PROVE InHand'
  BY <1>25 DEF RefuseWatcher, Free
<1>26. ASSUME NEW a \in Threads, RetryEnds(a) PROVE InHand'
  BY <1>26 DEF RetryEnds, Returning
<1>27. ASSUME NEW a \in Threads, RetryAgain(a) PROVE InHand'
  BY <1>27 DEF RetryAgain, Returning
<1>28. ASSUME NEW a \in Threads, Recheck(a) PROVE InHand'
  BY <1>28 DEF Recheck, Returning
<1>29. ASSUME NEW a \in Threads, Proceed(a) PROVE InHand'
  BY <1>29 DEF Proceed, Returning
<1>30. ASSUME NEW a \in Threads, Unlock(a) PROVE InHand'
  BY <1>30 DEF Unlock, Returning
<1>31. CASE UNCHANGED vars
  BY <1>31 DEF vars
<1> QED
  BY <1>1, <1>2, <1>3, <1>4, <1>5, <1>6, <1>7, <1>8, <1>9, <1>10, <1>11,
     <1>12, <1>13, <1>14, <1>15, <1>16, <1>17, <1>18, <1>19, <1>20, <1>21,
     <1>22, <1>23, <1>24, <1>25, <1>26, <1>27, <1>28, <1>29, <1>30, <1>31
  DEF Next, Step, StopReader, Clear, Defer, Resume

(* A pass that met a failure corrects what another one concluded.          *)
LEMMA ToldStep ==
  ASSUME TypeOK, Watching, Lifecycle, InHand, Told, [Next]_vars
  PROVE  Told'
<1>0. /\ pass \in [Threads -> [hand : BOOLEAN, kept : BOOLEAN, complete : BOOLEAN]]
      /\ at \in [Threads -> Places]
      /\ calls \in [Threads -> Seq(Frames)]
      /\ starting \in [Threads -> Watchers \cup {None}]
  BY DEF TypeOK
<1> USE <1>0, ThreadsAssumption
<1> USE DEF Watching, Lifecycle, InHand, Told, HandPlaces, Released, Unsettled, Running,
      NoPass, GoTo, Threads, Callers, restVars, readerVars, flagVars, lockVars
<1>1. ASSUME Start PROVE Told'
  BY <1>1 DEF Start
<1>2. ASSUME SetupFails PROVE Told'
  BY <1>2 DEF SetupFails
<1>3. ASSUME Attach PROVE Told'
  BY <1>3 DEF Attach, Free
<1>4. ASSUME Wind PROVE Told'
  BY <1>4 DEF Wind
<1>5. ASSUME Finish PROVE Told'
  BY <1>5 DEF Finish, Returning
<1>6. ASSUME Die PROVE Told'
  BY <1>6 DEF Die
<1>7. ASSUME NEW c \in Stoppers \cup Closers, StartFails(c) PROVE Told'
  BY <1>7 DEF StartFails
<1>8. ASSUME NEW c \in Stoppers, StopRequest(c) PROVE Told'
  BY <1>8 DEF StopRequest, Interrupt, Listed, Alive, Free
<1>9. ASSUME NEW c \in Closers, Shutdown(c) PROVE Told'
  BY <1>9 DEF Shutdown, Interrupt, Listed, Alive, Free
<1>10. ASSUME NEW c \in Janitors, Prune(c) PROVE Told'
  BY <1>10 DEF Prune, Listed, Alive
<1>11. ASSUME NEW c \in Callers, WaitEnds(c) PROVE Told'
  BY <1>11 DEF WaitEnds
<1>12. ASSUME NEW w \in Watchers, Watch(w) PROVE Told'
  BY <1>12 DEF Watch, Alive, Free
<1>13. ASSUME NEW a \in Threads, StopOnce(a) PROVE Told'
  BY <1>13 DEF StopOnce, LookStopped, AfterStop, Free
<1>14. ASSUME NEW a \in Threads, JoinSucceeds(a) PROVE Told'
  BY <1>14 DEF JoinSucceeds, MarkStopped, AfterStop, Free
<1>15. ASSUME NEW a \in Threads, JoinFails(a) PROVE Told'
  BY <1>15 DEF JoinFails, AfterStop
<1>16. ASSUME NEW a \in Threads, AlreadyCleared(a) PROVE Told'
  BY <1>16 DEF AlreadyCleared, Free
<1>17. ASSUME NEW a \in Threads, Postpone(a) PROVE Told'
  BY <1>17 DEF Postpone, PassNeeded, InUse, Alive, Free
<1>18. ASSUME NEW a \in Threads, Claim(a) PROVE Told'
  <2>1. PICK left \in UNION {WipeStores(h) : h \in WipeGallery(held)} :
          /\ held' = left
          /\ pass' = [pass EXCEPT ![a] =
                        [hand |-> slot # "empty", kept |-> FALSE, complete |-> left = {}]]
    BY <1>18 DEF Claim
  <2>2. held' \subseteq held
    BY <2>1, WipesShrink
  <2>3. \A b \in Threads \ {a} : pass'[b] = pass[b] /\ at'[b] = at[b]
    BY <1>18, <2>1 DEF Claim
  <2>4. pass'[a].hand = (slot # "empty") /\ pass'[a].complete = (held' = {})
    BY <2>1
  <2>5. at'[a] = IF slot # "empty" THEN "stop" ELSE "conclude"
    BY <1>18 DEF Claim
  <2>6. slot' = "empty" /\ detached' /\ ~cleared'
    BY <1>18 DEF Claim, PassNeeded
  <2>7. \A b \in Threads : pass'[b].complete /\ (pass'[b].hand \/ at'[b] = "conclude") => held' = {}
    BY <2>2, <2>3, <2>4
  <2>8. \A b \in Threads : at'[b] # "conclude" /\ ~pass'[b].hand => pass'[b].complete
    BY <2>3, <2>4, <2>5
  <2> QED  BY <2>6, <2>7, <2>8
<1>19. ASSUME NEW a \in Threads, Drain(a) PROVE Told'
  <2>1. PICK dropped \in BOOLEAN :
          /\ drained' = (drained \/ (dropped /\ stopped))
          /\ pass' = [pass EXCEPT ![a] =
                        [hand |-> FALSE, kept |-> FALSE,
                         complete |-> dropped /\ ~pass[a].kept /\ pass[a].complete]]
          /\ slot' \in {slot, "pending"}
    BY <1>19 DEF Drain
  <2>2. \A b \in Threads \ {a} : pass'[b] = pass[b] /\ at'[b] = at[b]
    BY <1>19, <2>1 DEF Drain
  <2>3. /\ at[a] = "drain" /\ at'[a] = "conclude" /\ pass[a].hand
       /\ UNCHANGED <<held, detached, attached, stopped, cleared>>
    BY <1>19 DEF Drain
  <2>4. /\ ~pass'[a].hand
        /\ pass'[a].complete => dropped /\ ~pass[a].kept /\ pass[a].complete
    BY <2>1
  <2>5. \A b \in Threads : pass'[b].complete /\ (pass'[b].hand \/ at'[b] = "conclude") => held' = {}
    BY <2>2, <2>3, <2>4
  <2>6. \A b \in Threads : at'[b] # "conclude" /\ ~pass'[b].hand => pass'[b].complete
    BY <2>2, <2>3
  <2>7. \A b \in Threads : at'[b] = "conclude" => detached'
    BY <2>2, <2>3
  <2>8. pass'[a].complete => Released'
    <3>1. pass'[a].complete => stopped /\ dropped
      BY <2>3, <2>4
    <3> QED  BY <2>1, <2>3, <3>1
  <2>9. cleared' /\ ~Released' => Unsettled(a)'
    BY <2>3, <2>8
  <2> QED  BY <2>1, <2>3, <2>5, <2>6, <2>7, <2>9
<1>20. ASSUME NEW a \in Threads, Conclude(a) PROVE Told'
  <2>1. at[a] = "conclude" /\ UNCHANGED <<slot, held, detached, attached, stopped, drained>>
    BY <1>20 DEF Conclude
  <2>2. cleared' => pass[a].complete /\ slot # "pending"
    BY <1>20 DEF Conclude
  <2>3. PICK p \in {"defer", "return"} : GoTo(a, p)
    BY <1>20 DEF Conclude
  <2>4. pass' = [pass EXCEPT ![a] = NoPass]
    BY <1>20 DEF Conclude
  <2>5. \A b \in Threads \ {a} : pass'[b] = pass[b] /\ at'[b] = at[b]
    BY <2>3, <2>4
  <2>6. ~pass'[a].hand /\ pass'[a].complete /\ at'[a] # "conclude"
    BY <2>3, <2>4
  <2>7. \A b \in Threads : pass'[b].complete /\ (pass'[b].hand \/ at'[b] = "conclude") => held' = {}
    BY <2>1, <2>5, <2>6
  <2>8. \A b \in Threads : at'[b] # "conclude" /\ ~pass'[b].hand => pass'[b].complete
    BY <2>5, <2>6
  <2>9. \A b \in Threads : at'[b] = "conclude" => detached'
    BY <2>1, <2>5, <2>6
  <2>10. cleared' => held' = {} /\ detached'
    BY <2>1, <2>2
  <2>11. ASSUME cleared', ~Released'  PROVE \E b \in Threads : Unsettled(b)'
    <3>1. slot = "empty"
      BY <2>1, <2>2, <2>11 DEF TypeOK
    <3>2. PICK b \in Threads : pass[b].hand
      BY <2>1, <2>11, <3>1
    <3>3. b # a /\ at[b] \in HandPlaces
      BY <2>1, <3>2
    <3> QED  BY <2>5, <3>2, <3>3
  <2> QED  BY <2>1, <2>7, <2>8, <2>9, <2>10, <2>11
<1>21. ASSUME NEW a \in Threads, DeferNothing(a) PROVE Told'
  BY <1>21 DEF DeferNothing, Alive, Free
<1>22. ASSUME NEW a \in Threads, DeferHere(a) PROVE Told'
  BY <1>22 DEF DeferHere, Alive, Free
<1>23. ASSUME NEW a \in Threads, DeferToWatcher(a) PROVE Told'
  BY <1>23 DEF DeferToWatcher, Alive, Free, Unused, WatcherServes, Running, Back
<1>24. ASSUME NEW a \in Threads, StartWatcher(a) PROVE Told'
  BY <1>24 DEF StartWatcher
<1>25. ASSUME NEW a \in Threads, RefuseWatcher(a) PROVE Told'
  BY <1>25 DEF RefuseWatcher, Free
<1>26. ASSUME NEW a \in Threads, RetryEnds(a) PROVE Told'
  BY <1>26 DEF RetryEnds, Returning
<1>27. ASSUME NEW a \in Threads, RetryAgain(a) PROVE Told'
  BY <1>27 DEF RetryAgain, Returning
<1>28. ASSUME NEW a \in Threads, Recheck(a) PROVE Told'
  BY <1>28 DEF Recheck, Returning
<1>29. ASSUME NEW a \in Threads, Proceed(a) PROVE Told'
  BY <1>29 DEF Proceed, Returning
<1>30. ASSUME NEW a \in Threads, Unlock(a) PROVE Told'
  BY <1>30 DEF Unlock, Returning
<1>31. CASE UNCHANGED vars
  BY <1>31 DEF vars
<1> QED
  BY <1>1, <1>2, <1>3, <1>4, <1>5, <1>6, <1>7, <1>8, <1>9, <1>10, <1>11,
     <1>12, <1>13, <1>14, <1>15, <1>16, <1>17, <1>18, <1>19, <1>20, <1>21,
     <1>22, <1>23, <1>24, <1>25, <1>26, <1>27, <1>28, <1>29, <1>30, <1>31
  DEF Next, Step, StopReader, Clear, Defer, Resume

(* What is on a stack that was joined, noted on or returned from.          *)
LEMMA HasOfSequences ==
  ASSUME NEW steps
  PROVE  /\ ~Has(<<>>, steps)
         /\ \A f \in Frames : Has(<<f>>, steps) <=> f.step \in steps
         /\ \A s, t \in Seq(Frames) : Has(s \o t, steps) <=> Has(s, steps) \/ Has(t, steps)
         /\ \A s \in Seq(Frames) : s # <<>> =>
              (Has(s, steps) <=> Has(Tail(s), steps) \/ Head(s).step \in steps)
<1>1. ~Has(<<>>, steps) /\ \A f \in Frames : Has(<<f>>, steps) <=> f.step \in steps
  BY DEF Has
<1>2. ASSUME NEW s \in Seq(Frames), NEW t \in Seq(Frames)
      PROVE  Has(s \o t, steps) <=> Has(s, steps) \/ Has(t, steps)
  <2>1. /\ Len(s) \in Nat /\ Len(t) \in Nat /\ DOMAIN s = 1..Len(s) /\ DOMAIN t = 1..Len(t)
        /\ DOMAIN (s \o t) = 1..(Len(s) + Len(t))
        /\ \A i \in 1..(Len(s) + Len(t)) :
             (s \o t)[i] = IF i <= Len(s) THEN s[i] ELSE t[i - Len(s)]
    BY ConcatProperties, LenProperties
  <2>2. ASSUME Has(s \o t, steps)
        PROVE  Has(s, steps) \/ Has(t, steps)
    <3>1. PICK i \in 1..(Len(s) + Len(t)) : (s \o t)[i].step \in steps
      BY <2>1, <2>2 DEF Has
    <3>2. CASE i <= Len(s)
      BY <2>1, <3>1, <3>2 DEF Has
    <3>3. CASE i > Len(s)
      <4>1. i - Len(s) \in DOMAIN t /\ t[i - Len(s)].step \in steps
        BY <2>1, <3>1, <3>3
      <4> QED  BY <4>1 DEF Has
    <3> QED  BY <2>1, <3>2, <3>3
  <2>3. ASSUME Has(s, steps)
        PROVE  Has(s \o t, steps)
    <3>1. PICK i \in 1..Len(s) : s[i].step \in steps
      BY <2>1, <2>3 DEF Has
    <3>2. i \in 1..(Len(s) + Len(t)) /\ (s \o t)[i] = s[i]
      BY <2>1, <3>1
    <3> QED  BY <2>1, <3>1, <3>2 DEF Has
  <2>4. ASSUME Has(t, steps)
        PROVE  Has(s \o t, steps)
    <3>1. PICK i \in 1..Len(t) : t[i].step \in steps
      BY <2>1, <2>4 DEF Has
    <3>2. i + Len(s) \in 1..(Len(s) + Len(t)) /\ (s \o t)[i + Len(s)] = t[i]
      BY <2>1, <3>1
    <3> QED  BY <2>1, <3>1, <3>2 DEF Has
  <2> QED  BY <2>2, <2>3, <2>4
<1>3. ASSUME NEW s \in Seq(Frames), s # <<>>
      PROVE  Has(s, steps) <=> Has(Tail(s), steps) \/ Head(s).step \in steps
  <2>1. /\ Head(s) \in Frames /\ Tail(s) \in Seq(Frames) /\ <<Head(s)>> \in Seq(Frames)
        /\ s = <<Head(s)>> \o Tail(s)
    BY <1>3, HeadTailProperties
  <2>2. Has(<<Head(s)>>, steps) <=> Head(s).step \in steps
    BY <1>1, <2>1
  <2>3. Has(<<Head(s)>> \o Tail(s), steps) <=> Has(<<Head(s)>>, steps) \/ Has(Tail(s), steps)
    BY <1>2, <2>1
  <2> QED  BY <2>1, <2>2, <2>3
<1> QED
  BY <1>1, <1>2, <1>3

LEMMA NoteHas ==
  ASSUME TypeOK, NEW a \in Threads, NEW frames \in Seq(Frames), Note(a, frames), NEW steps
  PROVE  \A b \in Threads :
           Has(calls'[b], steps) <=> Has(calls[b], steps) \/ (b = a /\ Has(frames, steps))
<1>1. calls \in [Threads -> Seq(Frames)]
  BY DEF TypeOK
<1>2. calls'[a] = frames \o calls[a] /\ \A b \in Threads \ {a} : calls'[b] = calls[b]
  BY <1>1 DEF Note
<1>3. Has(frames \o calls[a], steps) <=> Has(frames, steps) \/ Has(calls[a], steps)
  BY <1>1, HasOfSequences
<1> QED
  BY <1>2, <1>3

LEMMA ForgetHas ==
  ASSUME TypeOK, NEW a \in Threads, calls[a] # <<>>, Forget(a), NEW steps
  PROVE  \A b \in Threads :
           Has(calls[b], steps) <=> Has(calls'[b], steps) \/ (b = a /\ Head(calls[a]).step \in steps)
<1>1. calls \in [Threads -> Seq(Frames)]
  BY DEF TypeOK
<1>2. calls'[a] = Tail(calls[a]) /\ \A b \in Threads \ {a} : calls'[b] = calls[b]
  BY <1>1 DEF Forget
<1> QED
  BY <1>1, <1>2, HasOfSequences

(* A stack asks for a pass exactly when one of its frames does.            *)
LEMMA PassesOfSequences ==
  /\ ~Passes(<<>>)
  /\ \A f \in Frames : Passes(<<f>>) => f.step \in {"retry", "cleanup"}
  /\ \A s, t \in Seq(Frames) : Passes(s \o t) => Passes(s) \/ Passes(t)
  /\ \A s \in Seq(Frames) : s # <<>> =>
       /\ Passes(Tail(s)) => Passes(s)
       /\ Head(s).step \in {"retry", "cleanup"} => Passes(s)
  BY HasOfSequences DEF Passes

(* Which steps can make a thread owe a pass.                               *)
LEMMA NotePasses ==
  ASSUME TypeOK, NEW a \in Threads, NEW frames \in Seq(Frames), Note(a, frames),
         NEW b \in Threads, Passes(calls'[b])
  PROVE  Passes(calls[b]) \/ (b = a /\ Passes(frames))
  BY NoteHas DEF Passes

LEMMA ForgetPasses ==
  ASSUME TypeOK, NEW a \in Threads, calls[a] # <<>>, Forget(a),
         NEW b \in Threads, Passes(calls'[b])
  PROVE  Passes(calls[b])
  BY ForgetHas DEF Passes

LEMMA SilentFrames ==
  /\ \A s \in {"wait", "sweep", "recheck", "unlock", "finish"} : ~Passes(<<Go(s)>>)
  /\ ~Passes(<<>>)
<1>1. \A s \in {"wait", "sweep", "recheck", "unlock", "finish"} :
        Go(s) \in Frames /\ Go(s).step = s
  BY DEF Frames, Go
<1> QED
  BY <1>1, PassesOfSequences

LEMMA InterruptPasses ==
  ASSUME TypeOK, NEW c \in Threads, NEW frames \in Seq(Frames), ~Passes(frames),
         Interrupt(c, frames), NEW b \in Threads, Passes(calls'[b])
  PROVE  Passes(calls[b])
<1> DEFINE more == IF slot = "reader" THEN <<Go("wait")>> ELSE <<>>
<1>1. more \in Seq(Frames) /\ ~Passes(more)
  BY FramesTyped, SilentFrames
<1>2. more \o frames \in Seq(Frames) /\ ~Passes(more \o frames)
  <2> HIDE DEF more
  <2> QED  BY <1>1, PassesOfSequences, ConcatProperties
<1>3. Note(c, more \o frames)
  BY DEF Interrupt
<1> QED
  <2> HIDE DEF more
  <2> QED  BY <1>2, <1>3, NotePasses

(* Retries begin after the worker's end.                                   *)
LEMMA OrderlyStep ==
  ASSUME TypeOK, Watching, Lifecycle, Orderly, [Next]_vars
  PROVE  Orderly'
<1>0. /\ at \in [Threads -> Places]
      /\ calls \in [Threads -> Seq(Frames)]
      /\ starting \in [Threads -> Watchers \cup {None}]
  BY DEF TypeOK
<1> USE <1>0, ThreadsAssumption
<1> USE DEF Watching, Lifecycle, Orderly, WillPass, Over, Alive, GoTo, Threads, Callers,
      restVars, readerVars, flagVars, lockVars
<1>1. ASSUME Start PROVE Orderly'
  BY <1>1 DEF Start
<1>2. ASSUME SetupFails PROVE Orderly'
  <2>1. \A b \in Threads \ {Worker} : calls'[b] = calls[b] /\ at'[b] = at[b]
    BY <1>2 DEF SetupFails, Note
  <2>2. Over' = Over /\ UNCHANGED <<lock, refusals>>
    BY <1>2 DEF SetupFails
  <2> QED  BY <2>1, <2>2
<1>3. ASSUME Attach PROVE Orderly'
  <2>1. \A b \in Threads \ {Worker} : calls'[b] = calls[b] /\ at'[b] = at[b]
    BY <1>3 DEF Attach, Note
  <2>2. Over' = Over /\ UNCHANGED <<lock, refusals>>
    BY <1>3 DEF Attach
  <2> QED  BY <2>1, <2>2
<1>4. ASSUME Wind PROVE Orderly'
  <2>1. \A b \in Threads \ {Worker} : calls'[b] = calls[b] /\ at'[b] = at[b]
    BY <1>4 DEF Wind, Note
  <2>2. Over' = Over /\ UNCHANGED <<lock, refusals>>
    BY <1>4 DEF Wind
  <2> QED  BY <2>1, <2>2
<1>5. ASSUME Finish PROVE Orderly'
  BY <1>5 DEF Finish, Returning
<1>6. ASSUME Die PROVE Orderly'
  BY <1>6 DEF Die
<1>7. ASSUME NEW c \in Stoppers \cup Closers, StartFails(c) PROVE Orderly'
  BY <1>7 DEF StartFails
<1>8. ASSUME NEW c \in Stoppers, StopRequest(c) PROVE Orderly'
  <2>1. \A b \in Threads : Passes(calls'[b]) => Passes(calls[b])
    BY <1>8, InterruptPasses, FramesTyped, SilentFrames DEF StopRequest
  <2>2. \A b \in Threads : at'[b] = "claim" => at[b] = "claim"
    BY <1>8 DEF StopRequest, Interrupt
  <2>3. Over' = Over /\ UNCHANGED <<lock, refusals>>
    BY <1>8 DEF StopRequest, Interrupt
  <2> QED  BY <2>1, <2>2, <2>3
<1>9. ASSUME NEW c \in Closers, Shutdown(c) PROVE Orderly'
  <2>1. \A b \in Threads : Passes(calls'[b]) => Passes(calls[b])
    <3>1. CASE Note(c, <<Go("sweep")>>)
      BY <3>1, NotePasses, FramesTyped, SilentFrames
    <3>2. CASE Interrupt(c, <<Go("sweep")>>)
      BY <3>2, InterruptPasses, FramesTyped, SilentFrames
    <3> QED  BY <1>9, <3>1, <3>2 DEF Shutdown
  <2>2. \A b \in Threads : at'[b] = "claim" => at[b] = "claim"
    BY <1>9 DEF Shutdown, Interrupt
  <2>3. Over' = Over /\ UNCHANGED <<lock, refusals>>
    BY <1>9 DEF Shutdown, Interrupt
  <2> QED  BY <2>1, <2>2, <2>3
<1>10. ASSUME NEW c \in Janitors, Prune(c) PROVE Orderly'
  BY <1>10 DEF Prune, Listed, Alive
<1>11. ASSUME NEW c \in Callers, WaitEnds(c) PROVE Orderly'
  BY <1>11 DEF WaitEnds
<1>12. ASSUME NEW w \in Watchers, Watch(w) PROVE Orderly'
  BY <1>12 DEF Watch, Alive, Free
<1>13. ASSUME NEW a \in Threads, StopOnce(a) PROVE Orderly'
  BY <1>13 DEF StopOnce, LookStopped, AfterStop, Free
<1>14. ASSUME NEW a \in Threads, JoinSucceeds(a) PROVE Orderly'
  BY <1>14 DEF JoinSucceeds, MarkStopped, AfterStop, Free
<1>15. ASSUME NEW a \in Threads, JoinFails(a) PROVE Orderly'
  BY <1>15 DEF JoinFails, AfterStop
<1>16. ASSUME NEW a \in Threads, AlreadyCleared(a) PROVE Orderly'
  BY <1>16 DEF AlreadyCleared, Free
<1>17. ASSUME NEW a \in Threads, Postpone(a) PROVE Orderly'
  BY <1>17 DEF Postpone, PassNeeded, InUse, Alive, Free
<1>18. ASSUME NEW a \in Threads, Claim(a) PROVE Orderly'
  BY <1>18 DEF Claim, PassNeeded, InUse, Alive, Free
<1>19. ASSUME NEW a \in Threads, Drain(a) PROVE Orderly'
  BY <1>19 DEF Drain, Free
<1>20. ASSUME NEW a \in Threads, Conclude(a) PROVE Orderly'
  BY <1>20 DEF Conclude, Alive, Free
<1>21. ASSUME NEW a \in Threads, DeferNothing(a) PROVE Orderly'
  BY <1>21 DEF DeferNothing, Alive, Free
<1>22. ASSUME NEW a \in Threads, DeferHere(a) PROVE Orderly'
  BY <1>22 DEF DeferHere, Alive, Free
<1>23. ASSUME NEW a \in Threads, DeferToWatcher(a) PROVE Orderly'
  BY <1>23 DEF DeferToWatcher, Alive, Free, Unused, WatcherServes, Running, Back
<1>24. ASSUME NEW a \in Threads, StartWatcher(a) PROVE Orderly'
  BY <1>24 DEF StartWatcher
<1>25. ASSUME NEW a \in Threads, RefuseWatcher(a) PROVE Orderly'
  <2>1. refusals' # 0
    BY <1>25, TriesAssumption DEF RefuseWatcher, TypeOK
  <2> QED  BY <2>1
<1>26. ASSUME NEW a \in Threads, RetryEnds(a) PROVE Orderly'
  <2>1. \A b \in Threads : Passes(calls'[b]) => Passes(calls[b])
    BY <1>26, ForgetPasses DEF RetryEnds, Returning
  <2>2. \A b \in Threads : at'[b] = "claim" => at[b] = "claim"
    BY <1>26 DEF RetryEnds, Returning
  <2>3. Over' = Over /\ UNCHANGED <<lock, refusals>>
    BY <1>26 DEF RetryEnds, Returning
  <2> QED  BY <2>1, <2>2, <2>3
<1>27. ASSUME NEW a \in Threads, RetryAgain(a) PROVE Orderly'
  <2>1. \A b \in Threads \ {a} : calls'[b] = calls[b] /\ at'[b] = at[b]
    BY <1>27 DEF RetryAgain
  <2>2. calls[a] # <<>> /\ Head(calls[a]).step = "retry"
    BY <1>27 DEF RetryAgain, Returning
  <2>3. WillPass(a)
    BY <2>2, PassesOfSequences
  <2>4. Over' = Over /\ UNCHANGED <<lock, refusals>>
    BY <1>27 DEF RetryAgain, Returning
  <2> QED  BY <2>1, <2>3, <2>4
<1>28. ASSUME NEW a \in Threads, Recheck(a) PROVE Orderly'
  <2>1. \A b \in Threads : Passes(calls'[b]) => Passes(calls[b])
    BY <1>28, ForgetPasses DEF Recheck, Returning
  <2>2. \A b \in Threads : at'[b] = "claim" => at[b] = "claim"
    BY <1>28 DEF Recheck, Returning
  <2>3. Over' = Over /\ UNCHANGED <<lock, refusals>>
    BY <1>28 DEF Recheck, Returning
  <2> QED  BY <2>1, <2>2, <2>3
<1>29. ASSUME NEW a \in Threads, Proceed(a) PROVE Orderly'
  <2>1. Over' = Over /\ UNCHANGED <<lock, refusals>>
    BY <1>29 DEF Proceed, Returning
  <2>2. CASE Returning(a, "wait") /\ GoTo(a, "wait") /\ Forget(a)
    <3>1. \A b \in Threads : Passes(calls'[b]) => Passes(calls[b])
      BY <2>2, ForgetPasses DEF Returning
    <3>2. \A b \in Threads : at'[b] = "claim" => at[b] = "claim"
      BY <2>2
    <3> QED  BY <2>1, <3>1, <3>2
  <2>3. CASE Returning(a, "cleanup") /\ GoTo(a, "claim") /\ calls' = [calls EXCEPT ![a] = <<Go("finish")>>]
    <3>1. \A b \in Threads \ {a} : calls'[b] = calls[b] /\ at'[b] = at[b]
      BY <2>3
    <3>2. calls[a] # <<>> /\ Head(calls[a]).step = "cleanup"
      BY <2>3 DEF Returning
    <3>3. WillPass(a)
      BY <3>2, PassesOfSequences
    <3> QED  BY <2>1, <3>1, <3>3
  <2> QED  BY <1>29, <2>2, <2>3 DEF Proceed
<1>30. ASSUME NEW a \in Threads, Unlock(a) PROVE Orderly'
  <2>1. \A b \in Threads : Passes(calls'[b]) => Passes(calls[b])
    BY <1>30, ForgetPasses DEF Unlock, Returning
  <2>2. UNCHANGED <<at, refusals, finished>> /\ lock' = None
    BY <1>30 DEF Unlock
  <2> QED  BY <2>1, <2>2
<1>31. CASE UNCHANGED vars
  BY <1>31 DEF vars
<1> QED
  BY <1>1, <1>2, <1>3, <1>4, <1>5, <1>6, <1>7, <1>8, <1>9, <1>10, <1>11,
     <1>12, <1>13, <1>14, <1>15, <1>16, <1>17, <1>18, <1>19, <1>20, <1>21,
     <1>22, <1>23, <1>24, <1>25, <1>26, <1>27, <1>28, <1>29, <1>30, <1>31
  DEF Next, Step, StopReader, Clear, Defer, Resume

(* What one frame more, or one less, changes of a stack.                   *)
LEMMA StepsOfFrames ==
  ASSUME NEW steps
  PROVE  /\ \A s \in {"wait", "sweep", "recheck", "unlock", "cleanup", "finish"} :
              Go(s) \in Frames /\ (Has(<<Go(s)>>, steps) <=> s \in steps)
         /\ \A n \in 1..Tries : Retry(n) \in Frames /\ (Has(<<Retry(n)>>, steps) <=> "retry" \in steps)
<1>1. \A s \in {"wait", "sweep", "recheck", "unlock", "cleanup", "finish"} :
        Go(s) \in Frames /\ Go(s).step = s
  BY DEF Frames, Go
<1>2. \A n \in 1..Tries : Retry(n) \in Frames /\ Retry(n).step = "retry"
  BY DEF Frames, Retry
<1>3. ASSUME NEW f \in Frames
      PROVE  Has(<<f>>, steps) <=> f.step \in steps
  BY HasOfSequences
<1> QED
  BY <1>1, <1>2, <1>3

LEMMA InterruptHas ==
  ASSUME TypeOK, NEW c \in Threads, NEW frames \in Seq(Frames), Interrupt(c, frames), NEW steps,
         "wait" \notin steps
  PROVE  \A b \in Threads :
           Has(calls'[b], steps) <=> Has(calls[b], steps) \/ (b = c /\ Has(frames, steps))
<1> DEFINE more == IF slot = "reader" THEN <<Go("wait")>> ELSE <<>>
<1>1. more \in Seq(Frames) /\ ~Has(more, steps)
  BY FramesTyped, StepsOfFrames, HasOfSequences
<1>2. Note(c, more \o frames)
  BY DEF Interrupt
<1> HIDE DEF more
<1>3. more \o frames \in Seq(Frames) /\ (Has(more \o frames, steps) <=> Has(frames, steps))
  BY <1>1, HasOfSequences, ConcatProperties
<1> QED
  BY <1>2, <1>3, NoteHas

LEMMA RetryAgainHas ==
  ASSUME TypeOK, NEW a \in Threads, RetryAgain(a), NEW steps
  PROVE  \A b \in Threads : Has(calls'[b], steps) <=> Has(calls[b], steps)
<1>1. calls \in [Threads -> Seq(Frames)]
  BY DEF TypeOK
<1>2. calls[a] # <<>> /\ Head(calls[a]).step = "retry" /\ Head(calls[a]).left > 1
  BY DEF RetryAgain, Returning
<1> DEFINE again == Retry(Head(calls[a]).left - 1)
<1>3. Head(calls[a]) \in Frames /\ Tail(calls[a]) \in Seq(Frames)
  BY <1>1, <1>2, HeadTailProperties
<1>4. <<again>> \in Seq(Frames) /\ again.step = "retry"
  BY <1>2, <1>3, RetryFrames DEF Retry
<1>5. calls'[a] = <<again>> \o Tail(calls[a]) /\ \A b \in Threads \ {a} : calls'[b] = calls[b]
  BY <1>1 DEF RetryAgain
<1> HIDE DEF again
<1>6. again \in Frames
  <2>1. <<again>>[1] \in Frames
    BY <1>4, ElementOfSeq
  <2> QED  BY <2>1
<1>7. Has(<<again>> \o Tail(calls[a]), steps) <=> "retry" \in steps \/ Has(Tail(calls[a]), steps)
  <2>1. Has(<<again>>, steps) <=> "retry" \in steps
    <3>1. Has(<<again>>, steps) <=> again.step \in steps
      BY <1>6, HasOfSequences
    <3> QED  BY <1>4, <3>1
  <2>2. \A s, t \in Seq(Frames) : Has(s \o t, steps) <=> Has(s, steps) \/ Has(t, steps)
    BY HasOfSequences
  <2> QED  BY <1>3, <1>4, <2>1, <2>2
<1>8. Has(calls[a], steps) <=> "retry" \in steps \/ Has(Tail(calls[a]), steps)
  <2>1. \A s \in Seq(Frames) : s # <<>> =>
          (Has(s, steps) <=> Has(Tail(s), steps) \/ Head(s).step \in steps)
    BY HasOfSequences
  <2> QED  BY <1>1, <1>2, <2>1
<1> QED
  BY <1>5, <1>7, <1>8

(* A frame that is returned to is on the stack, and the worker is never    *)
(* asked about a pass.                                                     *)
LEMMA ReturningHas ==
  ASSUME TypeOK, Stacked, NEW a \in Threads, NEW step, Returning(a, step)
  PROVE  /\ Has(calls[a], {step})
         /\ a = Worker => step \in {"cleanup", "finish"} /\ calls[a] = <<Go(step)>>
         /\ a \in Watchers => step \notin OtherSteps
         /\ a # Worker => step # "cleanup"
         /\ step \in {"retry", "recheck"} => Pledged(a)
<1>1. calls[a] \in Seq(Frames) /\ calls[a] # <<>> /\ Head(calls[a]).step = step
  BY DEF TypeOK, Returning
<1>2. \A steps : step \in steps => Has(calls[a], steps)
  BY <1>1, HasOfSequences
<1>3. StackFits(a, at[a], calls[a], pass[a].hand)
  BY DEF Stacked
<1>4. a = Worker => step \in {"cleanup", "finish"} /\ calls[a] = <<Go(step)>>
  BY <1>1, <1>3 DEF StackFits, Go
<1> QED
  BY <1>2, <1>3, <1>4 DEF StackFits, Pledged

LEMMA NoteFirst ==
  ASSUME TypeOK, NEW a \in Threads, NEW f \in Frames, calls[a] = <<>>, Note(a, <<f>>)
  PROVE  calls'[a] = <<f>> /\ \A b \in Threads \ {a} : calls'[b] = calls[b]
<1>1. <<f>> \o <<>> = <<f>>
  <2>1. <<f>> \in Seq(Frames)
    OBVIOUS
  <2> QED  BY <2>1, ConcatEmptySeq
<1> QED
  BY <1>1 DEF TypeOK, Note

LEMMA WorkerFits ==
  ASSUME NEW place, place \notin Quiet, NEW s \in {"cleanup", "finish"}, NEW hand
  PROVE  StackFits(Worker, place, <<Go(s)>>, hand)
  BY ThreadsAssumption DEF StackFits

(* A thread that goes on in the call it is in.                             *)
LEMMA FitsOn ==
  ASSUME NEW a, NEW frames, NEW from, NEW hand, StackFits(a, from, frames, hand),
         NEW to, to \notin Quiet, NEW hand2,
         from \notin {"unborn", "published", "watch", "return"},
         a # Worker /\ (to \in {"claim", "drain", "conclude"} \/ hand2) =>
           from \in {"claim", "drain", "conclude"} \/ hand
  PROVE  StackFits(a, to, frames, hand2)
  BY DEF StackFits

(* One that calls, and one that a call has returned to.                    *)
LEMMA NotedFits ==
  ASSUME TypeOK, NEW a \in Threads, a # Worker, NEW f \in Frames, Note(a, <<f>>),
         f.step # "cleanup", a \in Watchers => f.step = "retry",
         NEW from, NEW hand, StackFits(a, from, calls[a], hand),
         NEW to, to \notin Quiet, NEW hand2,
         to \in {"claim", "drain", "conclude"} \/ hand2 => f.step \in {"retry", "recheck"}
  PROVE  StackFits(a, to, calls'[a], hand2)
<1>1. <<f>> \in Seq(Frames)
  OBVIOUS
<1>2. ASSUME NEW steps
      PROVE  Has(calls'[a], steps) <=> Has(calls[a], steps) \/ f.step \in steps
  <2>1. Has(<<f>>, steps) <=> f.step \in steps
    BY HasOfSequences
  <2> QED  BY <1>1, <2>1, NoteHas
<1>3. a \in Watchers => calls'[a] # <<>>
  <2>1. f.step = "retry" => Has(calls'[a], {"retry"})
    BY <1>2
  <2>2. ~Has(<<>>, {"retry"})
    BY HasOfSequences
  <2> QED  BY <2>1, <2>2
<1>4. Has(calls'[a], {"cleanup"}) <=> Has(calls[a], {"cleanup"})
  BY <1>2
<1>5. Has(calls'[a], {"retry", "recheck"}) <=>
        Has(calls[a], {"retry", "recheck"}) \/ f.step \in {"retry", "recheck"}
  BY <1>2
<1>6. Has(calls'[a], OtherSteps) <=> Has(calls[a], OtherSteps) \/ f.step \in OtherSteps
  BY <1>2
<1>7. "retry" \notin OtherSteps
  BY DEF OtherSteps
<1> QED
  BY <1>3, <1>4, <1>5, <1>6, <1>7 DEF StackFits

LEMMA ForgotFits ==
  ASSUME TypeOK, NEW a \in Threads, a # Worker, calls[a] # <<>>, Forget(a),
         NEW from, NEW hand, StackFits(a, from, calls[a], hand),
         NEW to, to \notin Quiet \cup {"claim", "drain", "conclude"}, a \in Watchers => to = "return"
  PROVE  StackFits(a, to, calls'[a], FALSE)
<1>1. \A steps : Has(calls'[a], steps) => Has(calls[a], steps)
  BY ForgetHas
<1> QED
  BY <1>1 DEF StackFits

LEMMA InterruptFits ==
  ASSUME TypeOK, NEW c \in Callers, NEW frames \in Seq(Frames), Interrupt(c, frames),
         ~Has(frames, {"cleanup"}), NEW from, NEW hand, StackFits(c, from, calls[c], hand)
  PROVE  StackFits(c, at'[c], calls'[c], FALSE)
<1>1. c \in Threads /\ c # Worker /\ c \notin Watchers
  BY ThreadsAssumption DEF Threads
<1>2. "wait" \notin {"cleanup"}
  OBVIOUS
<1>3. Has(calls'[c], {"cleanup"}) => Has(calls[c], {"cleanup"})
  BY <1>1, <1>2, InterruptHas
<1>4. at'[c] \in {"stop", "wait"}
  BY <1>1 DEF Interrupt, GoTo, TypeOK
<1> QED
  BY <1>1, <1>3, <1>4 DEF StackFits, Quiet

LEMMA OthersStayStacked ==
  ASSUME Stacked, NEW a \in Threads, StackFits(a, at'[a], calls'[a], pass'[a].hand),
         \A b \in Threads \ {a} : at'[b] = at[b] /\ calls'[b] = calls[b] /\ pass'[b] = pass[b]
  PROVE  Stacked'
  BY DEF Stacked

LEMMA MovesOn ==
  ASSUME TypeOK, Stacked, NEW a \in Threads, NEW to \in Places \ Quiet, GoTo(a, to), UNCHANGED calls,
         \A b \in Threads \ {a} : pass'[b] = pass[b],
         at[a] \notin {"unborn", "published", "watch", "return"},
         a # Worker /\ (to \in {"claim", "drain", "conclude"} \/ pass'[a].hand) =>
           at[a] \in {"claim", "drain", "conclude"} \/ pass[a].hand
  PROVE  Stacked'
<1>1. at'[a] = to /\ \A b \in Threads \ {a} : at'[b] = at[b]
  BY DEF GoTo, TypeOK
<1>2. StackFits(a, at[a], calls[a], pass[a].hand)
  BY DEF Stacked
<1>3. StackFits(a, to, calls[a], pass'[a].hand)
  BY <1>2, FitsOn
<1> QED
  BY <1>1, <1>3, OthersStayStacked

(* A thread other than the worker runs a pass for somebody who asks.       *)
LEMMA StackedStep ==
  ASSUME TypeOK, Watching, Lifecycle, InHand, Orderly, Stacked, refusals = 0, refusals' = 0, Next
  PROVE  Stacked'
<1>0. /\ at \in [Threads -> Places]
      /\ calls \in [Threads -> Seq(Frames)]
      /\ starting \in [Threads -> Watchers \cup {None}]
      /\ pass \in [Threads -> [hand : BOOLEAN, kept : BOOLEAN, complete : BOOLEAN]]
      /\ lock = None
  BY DEF TypeOK, Orderly
<1>a. /\ Worker \in Threads /\ Worker \notin Watchers /\ Worker \notin Callers
      /\ Callers \subseteq Threads /\ Watchers \subseteq Threads /\ Callers \cap Watchers = {}
      /\ Stoppers \subseteq Callers /\ Closers \subseteq Callers /\ Janitors \subseteq Callers
  BY ThreadsAssumption DEF Threads, Callers
<1>b. \A a \in Threads : StackFits(a, at[a], calls[a], pass[a].hand)
  BY DEF Stacked
<1>c. \A a \in Threads : at[a] \notin HandPlaces => ~pass[a].hand
  BY DEF InHand
<1>d. \A a \in Threads : at[a] \in Quiet => calls[a] = <<>>
  BY <1>b DEF StackFits
<1>e. \A s \in {"wait", "sweep", "recheck", "unlock", "cleanup", "finish"} :
        Go(s) \in Frames /\ Go(s).step = s
  BY StepsOfFrames DEF Go
<1>f. Retry(Tries) \in Frames /\ Retry(Tries).step = "retry"
  <2>1. Retry(Tries).step = "retry" /\ Tries \in 1..Tries
    BY TriesAssumption DEF Retry
  <2> QED  BY <2>1, StepsOfFrames
<1> USE <1>0, <1>a
<1> USE DEF GoTo, restVars, readerVars, flagVars, lockVars
<1>1. ASSUME Start PROVE Stacked'
  <2>1. StackFits(Worker, "setup", <<>>, pass[Worker].hand)
    BY <1>a DEF StackFits
  <2> QED  BY <1>1, <1>d, <2>1, OthersStayStacked DEF Start, Quiet
<1>2. ASSUME SetupFails PROVE Stacked'
  <2>1. calls'[Worker] = <<Go("finish")>> /\ \A b \in Threads \ {Worker} : calls'[b] = calls[b]
    BY <1>2, <1>d, <1>e, NoteFirst DEF SetupFails, Quiet
  <2>2. at'[Worker] = "claim" /\ pass' = pass /\ \A b \in Threads \ {Worker} : at'[b] = at[b]
    BY <1>2 DEF SetupFails
  <2>3. StackFits(Worker, "claim", <<Go("finish")>>, pass[Worker].hand)
    BY WorkerFits DEF Quiet
  <2> QED  BY <2>1, <2>2, <2>3, OthersStayStacked
<1>3. ASSUME Attach PROVE Stacked'
  <2>1. CASE detached \/ stop
    <3>1. calls'[Worker] = <<Go("cleanup")>> /\ \A b \in Threads \ {Worker} : calls'[b] = calls[b]
      BY <1>3, <1>d, <1>e, <2>1, NoteFirst DEF Attach, Quiet
    <3>2. at'[Worker] = "stop" /\ pass' = pass /\ \A b \in Threads \ {Worker} : at'[b] = at[b]
      BY <1>3, <2>1 DEF Attach
    <3>3. StackFits(Worker, "stop", <<Go("cleanup")>>, pass[Worker].hand)
      BY WorkerFits DEF Quiet
    <3> QED  BY <3>1, <3>2, <3>3, OthersStayStacked
  <2>2. CASE ~(detached \/ stop)
    <3>1. StackFits(Worker, "busy", <<>>, pass[Worker].hand)
      BY <1>a DEF StackFits
    <3> QED  BY <1>3, <1>d, <2>2, <3>1, OthersStayStacked DEF Attach, Quiet
  <2> QED  BY <2>1, <2>2
<1>4. ASSUME Wind PROVE Stacked'
  <2>1. calls'[Worker] = <<Go("cleanup")>> /\ \A b \in Threads \ {Worker} : calls'[b] = calls[b]
    BY <1>4, <1>d, <1>e, NoteFirst DEF Wind, Quiet
  <2>2. at'[Worker] = "stop" /\ pass' = pass /\ \A b \in Threads \ {Worker} : at'[b] = at[b]
    BY <1>4 DEF Wind
  <2>3. StackFits(Worker, "stop", <<Go("cleanup")>>, pass[Worker].hand)
    BY WorkerFits DEF Quiet
  <2> QED  BY <2>1, <2>2, <2>3, OthersStayStacked
<1>5. ASSUME Finish PROVE Stacked'
  <2>1. calls[Worker] = <<Go("finish")>>
    BY <1>5, ReturningHas DEF Finish
  <2>2. Tail(<<Go("finish")>>) = <<>>
    OBVIOUS
  <2>3. /\ calls'[Worker] = <<>> /\ at'[Worker] = "exit" /\ pass' = pass
        /\ \A b \in Threads \ {Worker} : at'[b] = at[b] /\ calls'[b] = calls[b]
    BY <1>5, <2>1, <2>2 DEF Finish, Forget
  <2>4. StackFits(Worker, "exit", <<>>, pass[Worker].hand)
    BY <1>a DEF StackFits
  <2> QED  BY <2>3, <2>4, OthersStayStacked
<1>6. ASSUME Die PROVE Stacked'
  <2>1. StackFits(Worker, "dead", <<>>, pass[Worker].hand)
    BY <1>a DEF StackFits
  <2> QED  BY <1>6, <1>d, <2>1, OthersStayStacked DEF Die, Quiet
<1>7. ASSUME NEW c \in Stoppers \cup Closers, StartFails(c) PROVE Stacked'
  <2>1. c \in Callers /\ c # Worker /\ c \notin Watchers /\ at[c] \in {"idle", "unborn"}
    BY <1>7 DEF StartFails, Lifecycle
  <2>2. calls[c] = <<>> /\ calls[Worker] = <<>> /\ ~pass[c].hand /\ at[Worker] = "unborn"
    BY <1>7, <1>c, <1>d, <2>1 DEF StartFails, Quiet, HandPlaces
  <2>3. ~Has(<<>>, {"cleanup"})
    BY HasOfSequences
  <2>4. StackFits(Worker, "dead", <<>>, pass[Worker].hand) /\ StackFits(c, "defer", <<>>, FALSE)
    BY <2>1, <2>3 DEF StackFits, Quiet
  <2>5. /\ at'[Worker] = "dead" /\ at'[c] = "defer" /\ \A b \in Threads \ {Worker, c} : at'[b] = at[b]
        /\ calls' = calls /\ pass' = pass /\ pass[c].hand = FALSE
    BY <1>7, <2>1, <2>2 DEF StartFails
  <2> QED  BY <1>b, <2>2, <2>4, <2>5 DEF Stacked
<1>8. ASSUME NEW c \in Stoppers, StopRequest(c) PROVE Stacked'
  <2>1. pass' = pass /\ pass[c].hand = FALSE /\ Interrupt(c, <<>>)
    BY <1>8, <1>c DEF StopRequest, HandPlaces
  <2>2. StackFits(c, at'[c], calls'[c], FALSE)
    BY <1>b, <2>1, InterruptFits, FramesTyped, HasOfSequences
  <2>3. \A b \in Threads \ {c} : at'[b] = at[b] /\ calls'[b] = calls[b]
    BY <2>1 DEF Interrupt, Note
  <2> QED  BY <2>1, <2>2, <2>3, OthersStayStacked
<1>9. ASSUME NEW c \in Closers, Shutdown(c) PROVE Stacked'
  <2>1. pass' = pass /\ pass[c].hand = FALSE /\ c # Worker /\ c \notin Watchers
    BY <1>9, <1>c DEF Shutdown, HandPlaces
  <2>2. CASE Interrupt(c, <<Go("sweep")>>)
    <3>1. ~Has(<<Go("sweep")>>, {"cleanup"}) /\ <<Go("sweep")>> \in Seq(Frames)
      BY StepsOfFrames, FramesTyped
    <3>2. StackFits(c, at'[c], calls'[c], FALSE)
      BY <1>b, <2>2, <3>1, InterruptFits
    <3>3. \A b \in Threads \ {c} : at'[b] = at[b] /\ calls'[b] = calls[b]
      BY <2>2 DEF Interrupt, Note
    <3> QED  BY <2>1, <3>2, <3>3, OthersStayStacked
  <2>3. CASE GoTo(c, "return") /\ Note(c, <<Go("sweep")>>)
    <3>1. StackFits(c, "return", calls'[c], FALSE)
      BY <1>b, <1>e, <2>1, <2>3, NotedFits DEF Quiet
    <3>2. at'[c] = "return" /\ \A b \in Threads \ {c} : at'[b] = at[b] /\ calls'[b] = calls[b]
      BY <2>3 DEF Note
    <3> QED  BY <2>1, <3>1, <3>2, OthersStayStacked
  <2> QED  BY <1>9, <2>2, <2>3 DEF Shutdown
<1>10. ASSUME NEW c \in Janitors, Prune(c) PROVE Stacked'
  <2>1. /\ pass' = pass /\ pass[c].hand = FALSE /\ c # Worker /\ c \notin Watchers
        /\ GoTo(c, "claim") /\ Note(c, <<Go("recheck")>>)
    BY <1>10, <1>c DEF Prune, HandPlaces
  <2>2. StackFits(c, "claim", calls'[c], FALSE)
    BY <1>b, <1>e, <2>1, NotedFits DEF Quiet
  <2>3. at'[c] = "claim" /\ \A b \in Threads \ {c} : at'[b] = at[b] /\ calls'[b] = calls[b]
    BY <2>1 DEF Note
  <2> QED  BY <2>1, <2>2, <2>3, OthersStayStacked
<1>11. ASSUME NEW c \in Callers, WaitEnds(c) PROVE Stacked'
  <2>1. UNCHANGED <<calls, pass>> /\ at[c] = "wait"
    BY <1>11 DEF WaitEnds
  <2>2. PICK to \in {"return", "defer"} : GoTo(c, to)
    BY <1>11 DEF WaitEnds
  <2>3. to \in Places \ Quiet /\ ~pass'[c].hand
    BY <1>c, <2>1 DEF Places, Quiet, HandPlaces
  <2> QED  BY <2>1, <2>2, <2>3, MovesOn
<1>12. ASSUME NEW w \in Watchers, Watch(w) PROVE Stacked'
  <2>1. /\ pass' = pass /\ pass[w].hand = FALSE /\ w # Worker
        /\ GoTo(w, "claim") /\ Note(w, <<Retry(Tries)>>)
    BY <1>12, <1>c DEF Watch, HandPlaces
  <2>2. StackFits(w, "claim", calls'[w], FALSE)
    BY <1>b, <1>f, <2>1, NotedFits DEF Quiet
  <2>3. at'[w] = "claim" /\ \A b \in Threads \ {w} : at'[b] = at[b] /\ calls'[b] = calls[b]
    BY <2>1 DEF Note
  <2> QED  BY <2>1, <2>2, <2>3, OthersStayStacked
<1>13. ASSUME NEW a \in Threads, StopOnce(a) PROVE Stacked'
  <2>1. UNCHANGED <<calls, pass>> /\ at[a] \in {"stop", "look"}
    BY <1>13 DEF StopOnce
  <2>2. PICK to \in {"look", "join", "drain", "return"} : GoTo(a, to) /\ (to = "drain" => pass[a].hand)
    BY <1>13 DEF StopOnce, LookStopped, AfterStop
  <2>3. to \in Places \ Quiet
    BY DEF Places, Quiet
  <2> QED  BY <2>1, <2>2, <2>3, MovesOn
<1>14. ASSUME NEW a \in Threads, JoinSucceeds(a) PROVE Stacked'
  <2>1. UNCHANGED <<calls, pass>> /\ at[a] \in {"join", "mark"}
    BY <1>14 DEF JoinSucceeds
  <2>2. PICK to \in {"mark", "drain", "return"} : GoTo(a, to) /\ (to = "drain" => pass[a].hand)
    BY <1>14 DEF JoinSucceeds, MarkStopped, AfterStop
  <2>3. to \in Places \ Quiet
    BY DEF Places, Quiet
  <2> QED  BY <2>1, <2>2, <2>3, MovesOn
<1>15. ASSUME NEW a \in Threads, JoinFails(a) PROVE Stacked'
  <2>1. calls' = calls /\ at[a] = "join" /\ \A b \in Threads \ {a} : pass'[b] = pass[b]
    BY <1>15 DEF JoinFails
  <2>2. PICK to \in {"drain", "return"} : GoTo(a, to) /\ (to = "drain" => pass[a].hand)
    BY <1>15 DEF JoinFails, AfterStop
  <2>3. pass'[a].hand => pass[a].hand
    BY <1>15 DEF JoinFails
  <2>4. to \in Places \ Quiet
    BY DEF Places, Quiet
  <2> QED  BY <2>1, <2>2, <2>3, <2>4, MovesOn
<1>16. ASSUME NEW a \in Threads, AlreadyCleared(a) PROVE Stacked'
  <2>1. UNCHANGED <<calls, pass>> /\ at[a] = "claim" /\ GoTo(a, "return")
    BY <1>16 DEF AlreadyCleared
  <2>2. "return" \in Places \ Quiet
    BY DEF Places, Quiet
  <2> QED  BY <2>1, <2>2, MovesOn
<1>17. ASSUME NEW a \in Threads, Postpone(a) PROVE Stacked'
  <2>1. a # Worker /\ at[a] = "claim" /\ ~Over
    BY <1>17 DEF Postpone, PassNeeded, InUse, Alive, Over
  <2> QED  BY <2>1 DEF Orderly, WillPass
<1>18. ASSUME NEW a \in Threads, Claim(a) PROVE Stacked'
  <2>1. calls' = calls /\ at[a] = "claim" /\ \A b \in Threads \ {a} : pass'[b] = pass[b]
    BY <1>18 DEF Claim, PassNeeded
  <2>2. PICK to \in {"stop", "conclude"} : GoTo(a, to)
    BY <1>18 DEF Claim
  <2>3. to \in Places \ Quiet
    BY DEF Places, Quiet
  <2> QED  BY <2>1, <2>2, <2>3, MovesOn
<1>19. ASSUME NEW a \in Threads, Drain(a) PROVE Stacked'
  <2>1. calls' = calls /\ at[a] = "drain" /\ \A b \in Threads \ {a} : pass'[b] = pass[b]
    BY <1>19 DEF Drain
  <2>2. GoTo(a, "conclude")
    BY <1>19 DEF Drain
  <2>3. "conclude" \in Places \ Quiet
    BY DEF Places, Quiet
  <2> QED  BY <2>1, <2>2, <2>3, MovesOn
<1>20. ASSUME NEW a \in Threads, Conclude(a) PROVE Stacked'
  <2>1. calls' = calls /\ at[a] = "conclude" /\ pass' = [pass EXCEPT ![a] = NoPass]
    BY <1>20 DEF Conclude
  <2>2. PICK to \in {"defer", "return"} : GoTo(a, to)
    BY <1>20 DEF Conclude
  <2>3. ~pass'[a].hand /\ \A b \in Threads \ {a} : pass'[b] = pass[b]
    BY <2>1 DEF NoPass
  <2>4. to \in Places \ Quiet
    BY DEF Places, Quiet
  <2> QED  BY <2>1, <2>2, <2>3, <2>4, MovesOn
<1>21. ASSUME NEW a \in Threads, DeferNothing(a) PROVE Stacked'
  <2>1. UNCHANGED <<calls, pass>> /\ at[a] = "defer" /\ GoTo(a, "return")
    BY <1>21 DEF DeferNothing
  <2>2. "return" \in Places \ Quiet /\ ~pass'[a].hand
    BY <1>c, <2>1 DEF Places, Quiet, HandPlaces
  <2> QED  BY <2>1, <2>2, MovesOn
<1>22. ASSUME NEW a \in Threads, DeferHere(a) PROVE Stacked'
  <2>1. /\ pass' = pass /\ pass[a].hand = FALSE /\ a # Worker
        /\ GoTo(a, "claim") /\ Note(a, <<Retry(Tries)>>)
    BY <1>22, <1>c DEF DeferHere, HandPlaces, Alive
  <2>2. StackFits(a, "claim", calls'[a], FALSE)
    BY <1>b, <1>f, <2>1, NotedFits DEF Quiet
  <2>3. at'[a] = "claim" /\ \A b \in Threads \ {a} : at'[b] = at[b] /\ calls'[b] = calls[b]
    BY <2>1 DEF Note
  <2> QED  BY <2>1, <2>2, <2>3, OthersStayStacked
<1>23. ASSUME NEW a \in Threads, DeferToWatcher(a) PROVE Stacked'
  <2>1. PICK w \in Unused : at' = [at EXCEPT ![a] = "start", ![w] = "published"]
    BY <1>23 DEF DeferToWatcher
  <2>2. /\ w \in Watchers /\ at[w] \in {"unborn", "return"} /\ at[a] = "defer" /\ w # a
        /\ calls[w] = <<>> /\ ~pass[w].hand /\ ~pass[a].hand
    BY <1>23, <1>c, <1>d, <2>1 DEF DeferToWatcher, Unused, Back, Quiet, HandPlaces
  <2>3. /\ at'[a] = "start" /\ at'[w] = "published" /\ \A b \in Threads \ {a, w} : at'[b] = at[b]
        /\ calls' = calls /\ pass' = pass
    BY <1>23, <2>1, <2>2 DEF DeferToWatcher
  <2>4. StackFits(w, at[w], calls[w], pass[w].hand)
    BY <1>b, <2>2
  <2>5. StackFits(w, "published", calls[w], pass[w].hand)
    BY <2>2, <2>4 DEF StackFits
  <2>6. StackFits(a, "start", calls[a], pass[a].hand)
    BY <1>b, <2>2, FitsOn DEF Quiet
  <2> QED  BY <1>b, <2>2, <2>3, <2>5, <2>6 DEF Stacked
<1>24. ASSUME NEW a \in Threads, StartWatcher(a) PROVE Stacked'
  <2> DEFINE w == starting[a]
  <2>1. w \in Watchers /\ at[w] = "published" /\ at[a] = "start" /\ w # a
    BY <1>24 DEF StartWatcher, Watching
  <2>2. at' = [at EXCEPT ![a] = "return", ![w] = "watch"] /\ calls' = calls /\ pass' = pass
    BY <1>24 DEF StartWatcher
  <2> HIDE DEF w
  <2>3. at'[a] = "return" /\ at'[w] = "watch" /\ \A b \in Threads \ {a, w} : at'[b] = at[b]
    BY <2>1, <2>2
  <2>4. StackFits(w, "published", calls[w], pass[w].hand) /\ calls[w] = <<>> /\ ~pass[w].hand /\ ~pass[a].hand
    BY <1>b, <1>c, <1>d, <2>1 DEF Quiet, HandPlaces
  <2>5. StackFits(w, "watch", calls[w], pass[w].hand)
    BY <2>4 DEF StackFits
  <2>6. StackFits(a, "return", calls[a], pass[a].hand)
    BY <1>b, <2>1, <2>4, FitsOn DEF Quiet
  <2> QED  BY <1>b, <2>1, <2>2, <2>3, <2>5, <2>6 DEF Stacked
<1>25. ASSUME NEW a \in Threads, RefuseWatcher(a) PROVE Stacked'
  BY <1>25 DEF RefuseWatcher
<1>26. ASSUME NEW a \in Threads, RetryEnds(a) PROVE Stacked'
  <2>1. Returning(a, "retry") /\ Forget(a) /\ UNCHANGED <<at, pass>>
    BY <1>26 DEF RetryEnds
  <2>2. a # Worker /\ at[a] = "return" /\ calls[a] # <<>> /\ pass[a].hand = FALSE
    BY <1>c, <2>1, ReturningHas DEF Returning, HandPlaces
  <2>3. StackFits(a, "return", calls'[a], FALSE)
    BY <1>b, <2>1, <2>2, ForgotFits DEF Quiet
  <2>4. \A b \in Threads \ {a} : calls'[b] = calls[b]
    BY <2>1 DEF Forget
  <2> QED  BY <2>1, <2>2, <2>3, <2>4, OthersStayStacked
<1>27. ASSUME NEW a \in Threads, RetryAgain(a) PROVE Stacked'
  <2>1. Returning(a, "retry") /\ GoTo(a, "claim") /\ pass' = pass
    BY <1>27 DEF RetryAgain
  <2>2. a # Worker /\ pass[a].hand = FALSE /\ Has(calls[a], {"retry"}) /\ Pledged(a)
    BY <1>c, <2>1, ReturningHas DEF Returning, HandPlaces
  <2>3. /\ Has(calls'[a], {"retry"})
        /\ Has(calls'[a], {"retry", "recheck"})
        /\ Has(calls'[a], {"cleanup"}) <=> Has(calls[a], {"cleanup"})
        /\ Has(calls'[a], OtherSteps) <=> Has(calls[a], OtherSteps)
    BY <1>27, <2>2, RetryAgainHas DEF Pledged
  <2>4. calls'[a] # <<>>
    BY <2>3, HasOfSequences
  <2>5. StackFits(a, "claim", calls'[a], FALSE)
    BY <1>b, <2>2, <2>3, <2>4 DEF StackFits, Quiet
  <2>6. at'[a] = "claim" /\ \A b \in Threads \ {a} : at'[b] = at[b] /\ calls'[b] = calls[b]
    BY <1>27 DEF RetryAgain
  <2> QED  BY <2>1, <2>2, <2>5, <2>6, OthersStayStacked
<1>28. ASSUME NEW a \in Threads, Recheck(a) PROVE Stacked'
  <2>1. PICK s \in {"recheck", "sweep"}, to \in {"return", "defer"} :
          Returning(a, s) /\ GoTo(a, to) /\ Forget(a) /\ pass' = pass
    BY <1>28 DEF Recheck
  <2>2. a # Worker /\ a \notin Watchers /\ calls[a] # <<>> /\ pass[a].hand = FALSE
    BY <1>c, <2>1, ReturningHas DEF Returning, HandPlaces, OtherSteps
  <2>3. StackFits(a, to, calls'[a], FALSE)
    BY <1>b, <2>1, <2>2, ForgotFits DEF Quiet
  <2>4. at'[a] = to /\ \A b \in Threads \ {a} : at'[b] = at[b] /\ calls'[b] = calls[b]
    BY <2>1 DEF Forget
  <2> QED  BY <2>1, <2>2, <2>3, <2>4, OthersStayStacked
<1>29. ASSUME NEW a \in Threads, Proceed(a) PROVE Stacked'
  <2>1. CASE Returning(a, "wait") /\ GoTo(a, "wait") /\ Forget(a)
    <3>1. a # Worker /\ a \notin Watchers /\ calls[a] # <<>> /\ pass[a].hand = FALSE
      BY <1>c, <2>1, ReturningHas DEF Returning, HandPlaces, OtherSteps
    <3>2. StackFits(a, "wait", calls'[a], FALSE)
      BY <1>b, <2>1, <3>1, ForgotFits DEF Quiet
    <3>3. at'[a] = "wait" /\ \A b \in Threads \ {a} : at'[b] = at[b] /\ calls'[b] = calls[b]
      BY <2>1 DEF Forget
    <3>4. pass' = pass
      BY <1>29 DEF Proceed
    <3> QED  BY <3>1, <3>2, <3>3, <3>4, OthersStayStacked
  <2>2. CASE Returning(a, "cleanup") /\ GoTo(a, "claim") /\ calls' = [calls EXCEPT ![a] = <<Go("finish")>>]
    <3>1. a = Worker
      BY <2>2, ReturningHas
    <3>2. StackFits(a, "claim", <<Go("finish")>>, pass[a].hand)
      BY <3>1, WorkerFits DEF Quiet
    <3>3. pass' = pass
      BY <1>29 DEF Proceed
    <3>4. at'[a] = "claim" /\ calls'[a] = <<Go("finish")>>
          /\ \A b \in Threads \ {a} : at'[b] = at[b] /\ calls'[b] = calls[b]
      BY <2>2
    <3> QED  BY <3>2, <3>3, <3>4, OthersStayStacked
  <2> QED  BY <1>29, <2>1, <2>2 DEF Proceed
<1>30. ASSUME NEW a \in Threads, Unlock(a) PROVE Stacked'
  <2>1. Returning(a, "unlock") /\ Forget(a) /\ UNCHANGED <<at, pass>>
    BY <1>30 DEF Unlock
  <2>2. a # Worker /\ at[a] = "return" /\ calls[a] # <<>> /\ pass[a].hand = FALSE
    BY <1>c, <2>1, ReturningHas DEF Returning, HandPlaces
  <2>3. StackFits(a, "return", calls'[a], FALSE)
    BY <1>b, <2>1, <2>2, ForgotFits DEF Quiet
  <2>4. \A b \in Threads \ {a} : calls'[b] = calls[b]
    BY <2>1 DEF Forget
  <2> QED  BY <2>1, <2>2, <2>3, <2>4, OthersStayStacked
<1> QED
  BY <1>1, <1>2, <1>3, <1>4, <1>5, <1>6, <1>7, <1>8, <1>9, <1>10, <1>11,
     <1>12, <1>13, <1>14, <1>15, <1>16, <1>17, <1>18, <1>19, <1>20, <1>21,
     <1>22, <1>23, <1>24, <1>25, <1>26, <1>27, <1>28, <1>29, <1>30
  DEF Next, Step, StopReader, Clear, Defer, Resume

LEMMA AnnouncedStays ==
  ASSUME TypeOK, Announced, NEW a \in Threads, NEW to \in Places, to # "published", GoTo(a, to),
         at[a] # "start", UNCHANGED starting
  PROVE  Announced'
  BY DEF TypeOK, Announced, GoTo

LEMMA AnnouncedStep ==
  ASSUME TypeOK, Watching, Lifecycle, Announced, refusals = 0, refusals' = 0, Next
  PROVE  Announced'
<1>0. /\ at \in [Threads -> Places]
      /\ starting \in [Threads -> Watchers \cup {None}]
  BY DEF TypeOK
<1>1. CASE \E a \in Threads : DeferToWatcher(a)
  <2>1. PICK a \in Threads, w \in Unused :
          /\ starting' = [starting EXCEPT ![a] = w]
          /\ at' = [at EXCEPT ![a] = "start", ![w] = "published"]
    BY <1>1 DEF DeferToWatcher
  <2>2. \A v \in Watchers : v # watcher \/ at[v] # "published"
    BY <1>1 DEF DeferToWatcher, WatcherServes
  <2>3. \A v \in Watchers : at[v] # "published"
    BY <2>2 DEF Announced, Watching
  <2>4. w \in Watchers /\ w # a /\ w \in Threads
    BY <1>0, <2>1, <2>3 DEF Unused, Threads, Back, DeferToWatcher
  <2>5. /\ at'[a] = "start" /\ starting'[a] = w
        /\ \A v \in Watchers : at'[v] = "published" => v = w
    BY <1>0, <2>1, <2>3, <2>4 DEF Threads
  <2> QED  BY <2>5 DEF Announced
<1>2. CASE \E a \in Threads : StartWatcher(a)
  <2>1. PICK a \in Threads : StartWatcher(a)
    BY <1>2
  <2> DEFINE s == starting[a]
  <2>2. /\ s \in Watchers /\ s # a /\ at[a] = "start"
        /\ at' = [at EXCEPT ![a] = "return", ![s] = "watch"]
        /\ starting' = [starting EXCEPT ![a] = None]
    BY <2>1 DEF StartWatcher, Watching
  <2>3. ASSUME NEW w \in Watchers, at'[w] = "published"
        PROVE  \E b \in Threads : at'[b] = "start" /\ starting'[b] = w
    <3> HIDE DEF s
    <3>1. w # s /\ w # a /\ at[w] = "published"
      BY <1>0, <2>2, <2>3 DEF Threads
    <3>2. PICK b \in Threads : at[b] = "start" /\ starting[b] = w
      BY <3>1 DEF Announced
    <3>3. b # a
      BY <3>1, <3>2 DEF s
    <3>4. b # s
      BY <2>1, <2>2, <3>2 DEF StartWatcher, Watching, s
    <3> QED  BY <1>0, <2>2, <3>2, <3>3, <3>4
  <2> QED  BY <2>3 DEF Announced
<1>3. ASSUME NEW a \in Threads, RefuseWatcher(a)
      PROVE  Announced'
  BY <1>3 DEF RefuseWatcher
<1>4. CASE \E c \in Stoppers \cup Closers : StartFails(c)
  <2>1. PICK c \in Stoppers \cup Closers : StartFails(c)
    BY <1>4
  <2>2. \A w \in Watchers : at[w] # "published"
    BY <2>1, ThreadsAssumption DEF StartFails, Lifecycle, Threads
  <2>3. c \in Threads /\ c \notin Watchers /\ Worker \in Threads /\ Worker \notin Watchers
    BY ThreadsAssumption DEF Threads, Callers
  <2>4. \A w \in Watchers : at'[w] # "published"
    BY <1>0, <2>1, <2>2, <2>3 DEF StartFails, Threads
  <2> QED  BY <2>4 DEF Announced
<1>5. CASE Start \/ SetupFails \/ Attach \/ Wind \/ Finish \/ Die
  <2>1. PICK to \in Places : to # "published" /\ GoTo(Worker, to) /\ at[Worker] # "start"
    BY <1>5 DEF Start, SetupFails, Attach, Wind, Finish, Die, Returning, Places
  <2>2. starting' = starting
    BY <1>5 DEF Start, SetupFails, Attach, Wind, Finish, Die, restVars
  <2> QED  BY <2>1, <2>2, AnnouncedStays DEF Threads
<1>6. ASSUME NEW c \in Callers, StopRequest(c) \/ Shutdown(c) \/ Prune(c) \/ WaitEnds(c)
      PROVE  Announced'
  <2>1. PICK to \in Places : to # "published" /\ GoTo(c, to) /\ at[c] # "start"
    BY <1>6 DEF StopRequest, Shutdown, Prune, WaitEnds, Interrupt, Places
  <2>2. starting' = starting
    BY <1>6 DEF StopRequest, Shutdown, Prune, WaitEnds, restVars
  <2> QED  BY <2>1, <2>2, AnnouncedStays DEF Threads
<1>7. ASSUME NEW w \in Watchers, Watch(w)
      PROVE  Announced'
  <2>1. "claim" \in Places /\ w \in Threads
    BY DEF Places, Threads
  <2> QED  BY <1>7, <2>1, AnnouncedStays DEF Watch, restVars
<1>8. ASSUME NEW a \in Threads, StopReader(a)
      PROVE  Announced'
  <2>1. PICK to \in Places : to # "published" /\ GoTo(a, to) /\ at[a] # "start"
    BY <1>8 DEF StopReader, StopOnce, JoinSucceeds, JoinFails, LookStopped, MarkStopped, AfterStop, Places
  <2>2. starting' = starting
    BY <1>8 DEF StopReader, StopOnce, JoinSucceeds, JoinFails
  <2> QED  BY <2>1, <2>2, AnnouncedStays
<1>9. ASSUME NEW a \in Threads, Clear(a)
      PROVE  Announced'
  <2>1. PICK to \in Places : to # "published" /\ GoTo(a, to) /\ at[a] # "start"
    BY <1>9 DEF Clear, AlreadyCleared, Postpone, PassNeeded, Claim, Drain, Conclude, Places
  <2>2. starting' = starting
    BY <1>9 DEF Clear, AlreadyCleared, Postpone, Claim, Drain, Conclude, restVars
  <2> QED  BY <2>1, <2>2, AnnouncedStays
<1>10. ASSUME NEW a \in Threads, DeferNothing(a) \/ DeferHere(a)
       PROVE  Announced'
  <2>1. PICK to \in Places : to # "published" /\ GoTo(a, to) /\ at[a] # "start"
    BY <1>10 DEF DeferNothing, DeferHere, Places
  <2>2. starting' = starting
    BY <1>10 DEF DeferNothing, DeferHere, restVars
  <2> QED  BY <2>1, <2>2, AnnouncedStays
<1>11. ASSUME NEW a \in Threads, RetryEnds(a) \/ Unlock(a)
       PROVE  Announced'
  BY <1>11 DEF RetryEnds, Unlock, Announced
<1>12. ASSUME NEW a \in Threads, RetryAgain(a) \/ Recheck(a) \/ Proceed(a)
       PROVE  Announced'
  <2>1. PICK to \in Places : to # "published" /\ GoTo(a, to) /\ at[a] # "start"
    BY <1>12 DEF RetryAgain, Recheck, Proceed, Returning, Places
  <2>2. starting' = starting
    BY <1>12 DEF RetryAgain, Recheck, Proceed, restVars
  <2> QED  BY <2>1, <2>2, AnnouncedStays
<1> QED
  BY <1>1, <1>2, <1>3, <1>4, <1>5, <1>6, <1>7, <1>8, <1>9, <1>10, <1>11, <1>12
  DEF Next, Step, Defer, Resume, Callers

(* Whoever sees to it goes on to do so until it is done or told, or hands  *)
(* it to another.                                                          *)
LEMMA HandledStays ==
  ASSUME Handled, NEW a \in Threads,
         \A b \in Threads \ {a} : at'[b] = at[b] /\ calls'[b] = calls[b] /\ pass'[b] = pass[b],
         cleared => cleared', failed => failed' \/ cleared',
         a = Worker /\ WorkerWill => Handled',
         SeesToIt(a) => Handled'
  PROVE  Handled'
<1>1. CASE cleared \/ failed
  BY <1>1 DEF Handled
<1>2. CASE WorkerWill
  <2>1. CASE a # Worker
    <3>1. WorkerWill'
      BY <1>2, <2>1 DEF WorkerWill, Threads
    <3> QED  BY <3>1 DEF Handled
  <2> QED  BY <1>2, <2>1
<1>3. ASSUME NEW b \in Threads, SeesToIt(b)
      PROVE  Handled'
  <2>1. CASE b # a
    <3>1. at'[b] = at[b] /\ calls'[b] = calls[b]
      BY <2>1
    <3>2. at'[b] \in {"defer", "start", "watch"} \/ (b # Worker /\ Has(calls'[b], {"retry", "recheck"}))
      BY <1>3, <3>1 DEF SeesToIt, Pledged
    <3> QED  BY <3>2 DEF Handled, SeesToIt, Pledged
  <2> QED  BY <1>3, <2>1
<1> QED
  BY <1>1, <1>2, <1>3 DEF Handled

(* It is enough that the thread that steps has a place or a frame left.    *)
LEMMA HandledBy ==
  ASSUME NEW a \in Threads,
         \/ at'[a] \in {"defer", "start", "watch"}
         \/ a # Worker /\ Has(calls'[a], {"retry", "recheck"})
         \/ a = Worker /\ (at'[a] \in {"unborn", "setup", "busy", "claim", "drain", "conclude"}
                            \/ pass'[a].hand \/ calls'[a] = <<Go("cleanup")>>)
  PROVE  Handled'
  BY DEF Handled, SeesToIt, Pledged, WorkerWill

LEMMA HandledGoesOn ==
  ASSUME Handled, NEW a \in Threads, UNCHANGED <<calls, cleared, failed>>,
         \A b \in Threads \ {a} : at'[b] = at[b] /\ pass'[b] = pass[b],
         at[a] \notin {"defer", "start", "watch"},
         a = Worker /\ WorkerWill => Handled'
  PROVE  Handled'
<1>1. SeesToIt(a) => Handled'
  <2>1. SeesToIt(a) => a # Worker /\ Has(calls'[a], {"retry", "recheck"})
    BY DEF SeesToIt, Pledged
  <2> QED  BY <2>1, HandledBy
<1> QED
  BY <1>1, HandledStays

LEMMA HandledStep ==
  ASSUME TypeOK, Watching, Lifecycle, InHand, Orderly, Stacked, Announced, Handled,
         refusals = 0, refusals' = 0, Next
  PROVE  Handled'
<1>0. /\ at \in [Threads -> Places]
      /\ calls \in [Threads -> Seq(Frames)]
      /\ pass \in [Threads -> [hand : BOOLEAN, kept : BOOLEAN, complete : BOOLEAN]]
      /\ {cleared, failed} \subseteq BOOLEAN
      /\ lock = None
  BY DEF TypeOK, Orderly
<1>a. /\ Worker \in Threads /\ Worker \notin Watchers /\ Worker \notin Callers
      /\ Callers \subseteq Threads /\ Watchers \subseteq Threads
      /\ Stoppers \subseteq Callers /\ Closers \subseteq Callers /\ Janitors \subseteq Callers
  BY ThreadsAssumption DEF Threads, Callers
<1>b. \A a \in Threads : StackFits(a, at[a], calls[a], pass[a].hand)
  BY DEF Stacked
<1>c. \A a \in Threads : at[a] \notin HandPlaces => ~pass[a].hand
  BY DEF InHand
<1>d. \A a \in Threads : at[a] \in Quiet => calls[a] = <<>>
  BY <1>b DEF StackFits
<1>e. \A s \in {"wait", "sweep", "recheck", "unlock", "cleanup", "finish"} :
        /\ Go(s) \in Frames /\ <<Go(s)>> \in Seq(Frames)
        /\ Has(<<Go(s)>>, {"retry", "recheck"}) <=> s = "recheck"
  BY StepsOfFrames, FramesTyped
<1>f. <<Retry(Tries)>> \in Seq(Frames) /\ Has(<<Retry(Tries)>>, {"retry", "recheck"})
  <2>1. Tries \in 1..Tries
    BY TriesAssumption
  <2> QED  BY <2>1, StepsOfFrames, FramesTyped
<1>g. \A a \in Threads : at[a] \in Quiet \ {"watch"} => ~SeesToIt(a)
  <2>1. ~Has(<<>>, {"retry", "recheck"})
    BY HasOfSequences
  <2> QED  BY <1>d, <2>1 DEF SeesToIt, Pledged, Quiet
<1> USE <1>0, <1>a
<1> USE DEF GoTo, restVars, readerVars, flagVars, lockVars
<1>1. ASSUME Start PROVE Handled'
  BY <1>1, HandledBy DEF Start
<1>2. ASSUME SetupFails PROVE Handled'
  BY <1>2, HandledBy DEF SetupFails
<1>3. ASSUME Attach PROVE Handled'
  <2>1. CASE detached \/ stop
    <3>1. calls'[Worker] = <<Go("cleanup")>>
      BY <1>3, <1>d, <1>e, <2>1, NoteFirst DEF Attach, Quiet
    <3> QED  BY <3>1, HandledBy
  <2>2. CASE ~(detached \/ stop)
    BY <1>3, <2>2, HandledBy DEF Attach
  <2> QED  BY <2>1, <2>2
<1>4. ASSUME Wind PROVE Handled'
  <2>1. calls'[Worker] = <<Go("cleanup")>>
    BY <1>4, <1>d, <1>e, NoteFirst DEF Wind, Quiet
  <2> QED  BY <2>1, HandledBy
<1>5. ASSUME Finish PROVE Handled'
  <2>1. calls[Worker] = <<Go("finish")>> /\ at[Worker] = "return"
    BY <1>5, ReturningHas DEF Finish, Returning
  <2>2. ~WorkerWill /\ ~SeesToIt(Worker)
    BY <1>c, <2>1 DEF WorkerWill, SeesToIt, HandPlaces, Go
  <2> QED  BY <1>5, <2>2, HandledStays DEF Finish, Forget
<1>6. ASSUME Die PROVE Handled'
  <2>1. at[Worker] = "exit" /\ calls[Worker] = <<>> /\ ~pass[Worker].hand
    BY <1>6, <1>c, <1>d DEF Die, Quiet, HandPlaces
  <2>2. <<>> # <<Go("cleanup")>>
    OBVIOUS
  <2>3. ~WorkerWill /\ ~SeesToIt(Worker)
    BY <2>1, <2>2 DEF WorkerWill, SeesToIt
  <2> QED  BY <1>6, <2>3, HandledStays DEF Die
<1>7. ASSUME NEW c \in Stoppers \cup Closers, StartFails(c) PROVE Handled'
  BY <1>7, HandledBy DEF StartFails
<1>8. ASSUME NEW c \in Callers, StopRequest(c) \/ Shutdown(c) PROVE Handled'
  <2>1. at[c] = "idle" /\ UNCHANGED <<pass, cleared, failed>>
    BY <1>8 DEF StopRequest, Shutdown
  <2>2. ~SeesToIt(c) /\ c # Worker
    BY <1>g, <2>1 DEF Quiet
  <2>3. \A b \in Threads \ {c} : at'[b] = at[b] /\ calls'[b] = calls[b]
    BY <1>8 DEF StopRequest, Shutdown, Interrupt, Note
  <2> QED  BY <2>1, <2>2, <2>3, HandledStays
<1>9. ASSUME NEW c \in Janitors, Prune(c) PROVE Handled'
  <2>1. Has(calls'[c], {"retry", "recheck"})
    BY <1>9, <1>e, NoteHas DEF Prune
  <2> QED  BY <2>1, HandledBy
<1>10. ASSUME NEW c \in Callers, WaitEnds(c) PROVE Handled'
  BY <1>10, HandledGoesOn DEF WaitEnds
<1>11. ASSUME NEW w \in Watchers, Watch(w) PROVE Handled'
  <2>1. Has(calls'[w], {"retry", "recheck"})
    BY <1>11, <1>f, NoteHas DEF Watch
  <2> QED  BY <2>1, HandledBy
<1>12. ASSUME NEW a \in Threads, StopReader(a) PROVE Handled'
  <2>1. /\ at[a] \in {"stop", "look", "join", "mark"} /\ UNCHANGED <<calls, cleared, failed>>
        /\ \A b \in Threads \ {a} : at'[b] = at[b] /\ pass'[b] = pass[b]
        /\ pass[a].hand => pass'[a].hand
    BY <1>12 DEF StopReader, StopOnce, JoinSucceeds, JoinFails, LookStopped, MarkStopped, AfterStop
  <2>2. a = Worker /\ WorkerWill => Handled'
    BY <2>1, HandledBy DEF WorkerWill
  <2> QED  BY <2>1, <2>2, HandledGoesOn
<1>13. ASSUME NEW a \in Threads, AlreadyCleared(a) PROVE Handled'
  BY <1>13 DEF AlreadyCleared, Handled
<1>14. ASSUME NEW a \in Threads, Postpone(a) PROVE Handled'
  BY <1>14, HandledBy DEF Postpone
<1>15. ASSUME NEW a \in Threads, Claim(a) PROVE Handled'
  <2>1. /\ at[a] = "claim" /\ UNCHANGED <<calls, cleared, failed>>
        /\ \A b \in Threads \ {a} : at'[b] = at[b] /\ pass'[b] = pass[b]
    BY <1>15 DEF Claim, PassNeeded
  <2>2. at'[a] = "conclude" \/ pass'[a].hand
    <3>1. CASE slot = "empty"
      BY <1>15, <3>1 DEF Claim
    <3>2. CASE slot # "empty"
      <4>1. PICK complete : pass' = [pass EXCEPT ![a] = [hand |-> slot # "empty", kept |-> FALSE,
                                                         complete |-> complete]]
        BY <1>15 DEF Claim
      <4>2. pass'[a].hand = (slot # "empty")
        BY <4>1
      <4> QED  BY <3>2, <4>2
    <3> QED  BY <3>1, <3>2
  <2>3. a = Worker => Handled'
    BY <2>2, HandledBy
  <2> QED  BY <2>1, <2>3, HandledGoesOn
<1>16. ASSUME NEW a \in Threads, Drain(a) PROVE Handled'
  <2>1. /\ at[a] = "drain" /\ at'[a] = "conclude" /\ UNCHANGED <<calls, cleared, failed>>
        /\ \A b \in Threads \ {a} : at'[b] = at[b] /\ pass'[b] = pass[b]
    BY <1>16 DEF Drain
  <2>2. a = Worker => Handled'
    BY <2>1, HandledBy
  <2> QED  BY <2>1, <2>2, HandledGoesOn
<1>17. ASSUME NEW a \in Threads, Conclude(a) PROVE Handled'
  <2>1. CASE a = Worker
    <3>1. cleared' \/ at'[a] = "defer"
      BY <1>17, <2>1 DEF Conclude, Alive
    <3> QED  BY <3>1, HandledBy DEF Handled
  <2>2. CASE a # Worker
    <3>1. Has(calls[a], {"retry", "recheck"}) /\ calls' = calls
      BY <1>17, <1>b, <2>2 DEF Conclude, StackFits
    <3> QED  BY <2>2, <3>1, HandledBy
  <2> QED  BY <2>1, <2>2
<1>18. ASSUME NEW a \in Threads, DeferNothing(a) PROVE Handled'
  <2>1. CASE cleared
    BY <1>18, <2>1 DEF DeferNothing, Handled
  <2>2. CASE WatcherServes
    <3>1. PICK w \in Watchers : Running(w) \/ at[w] = "published"
      BY <2>2 DEF WatcherServes
    <3>2. at[a] = "defer" /\ UNCHANGED <<calls, pass, starting>> /\ at' = [at EXCEPT ![a] = "return"]
      BY <1>18 DEF DeferNothing
    <3>3. CASE at[w] = "published"
      <4>1. PICK b \in Threads : at[b] = "start"
        BY <3>3 DEF Announced
      <4>2. at'[b] = "start"
        BY <3>2, <4>1
      <4> QED  BY <4>2, HandledBy
    <3>4. CASE Running(w) /\ calls[w] = <<>>
      <4>1. at[w] = "watch"
        BY <1>b, <3>4 DEF StackFits, Running, Back
      <4>2. at'[w] = "watch"
        BY <3>2, <4>1
      <4> QED  BY <4>2, HandledBy
    <3>5. CASE calls[w] # <<>>
      <4>1. Head(calls[w]) \in Frames /\ calls[w] \in Seq(Frames)
        BY <3>5, HeadTailProperties
      <4>2. ~Has(calls[w], OtherSteps)
        BY <1>b DEF StackFits
      <4>3. Head(calls[w]).step \notin OtherSteps
        BY <3>5, <4>1, <4>2, HasOfSequences
      <4>4. Head(calls[w]).step = "retry"
        BY <4>1, <4>3 DEF Frames, Go, Retry, OtherSteps
      <4>5. \A steps : Head(calls[w]).step \in steps => Has(calls[w], steps)
        BY <3>5, <4>1, HasOfSequences
      <4>6. Has(calls[w], {"retry", "recheck"})
        BY <4>4, <4>5
      <4> QED  BY <3>2, <4>6, HandledBy
    <3> QED  BY <3>1, <3>3, <3>4, <3>5
  <2> QED  BY <1>18, <2>1, <2>2 DEF DeferNothing
<1>19. ASSUME NEW a \in Threads, DeferHere(a) PROVE Handled'
  <2>1. a # Worker
    BY <1>19 DEF DeferHere, Alive
  <2>2. Has(calls'[a], {"retry", "recheck"})
    BY <1>19, <1>f, NoteHas DEF DeferHere
  <2> QED  BY <2>1, <2>2, HandledBy
<1>20. ASSUME NEW a \in Threads, DeferToWatcher(a) PROVE Handled'
  <2>1. PICK w \in Unused : at' = [at EXCEPT ![a] = "start", ![w] = "published"]
    BY <1>20 DEF DeferToWatcher
  <2>2. w # a
    BY <1>20, <2>1 DEF DeferToWatcher, Unused, Back
  <2>3. at'[a] = "start"
    BY <2>1, <2>2
  <2> QED  BY <2>3, HandledBy
<1>21. ASSUME NEW a \in Threads, StartWatcher(a) PROVE Handled'
  <2>1. starting[a] \in Threads /\ at'[starting[a]] = "watch"
    BY <1>21 DEF StartWatcher, Watching
  <2> QED  BY <2>1, HandledBy
<1>22. ASSUME NEW a \in Threads, RefuseWatcher(a) PROVE Handled'
  BY <1>22 DEF RefuseWatcher
<1>23. ASSUME NEW a \in Threads, RetryEnds(a) PROVE Handled'
  BY <1>23 DEF RetryEnds, Handled
<1>24. ASSUME NEW a \in Threads, RetryAgain(a) PROVE Handled'
  <2>1. a # Worker /\ Has(calls[a], {"retry", "recheck"})
    BY <1>24, ReturningHas DEF RetryAgain, Pledged
  <2>2. Has(calls'[a], {"retry", "recheck"})
    BY <1>24, <2>1, RetryAgainHas
  <2> QED  BY <2>1, <2>2, HandledBy
<1>25. ASSUME NEW a \in Threads, NEW s \in {"sweep", "wait", "unlock"},
              Returning(a, s), Forget(a), UNCHANGED <<pass, cleared, failed>>,
              \A b \in Threads \ {a} : at'[b] = at[b]
       PROVE  Handled'
  <2>1. a # Worker /\ calls[a] # <<>> /\ Head(calls[a]).step = s /\ at[a] = "return"
    BY <1>25, ReturningHas DEF Returning
  <2>2. Has(calls[a], {"retry", "recheck"}) => Has(calls'[a], {"retry", "recheck"})
    BY <1>25, <2>1, ForgetHas
  <2>3. SeesToIt(a) => Handled'
    BY <2>1, <2>2, HandledBy DEF SeesToIt, Pledged
  <2>4. \A b \in Threads \ {a} : calls'[b] = calls[b]
    BY <1>25 DEF Forget
  <2> QED  BY <1>25, <2>1, <2>3, <2>4, HandledStays
<1>26. ASSUME NEW a \in Threads, Recheck(a) PROVE Handled'
  <2>1. UNCHANGED <<pass, cleared, failed>> /\ Forget(a)
    BY <1>26 DEF Recheck
  <2>2. CASE Returning(a, "recheck") /\ GoTo(a, IF cleared THEN "return" ELSE "defer")
    <3>1. cleared' \/ at'[a] = "defer"
      BY <2>1, <2>2
    <3> QED  BY <3>1, HandledBy DEF Handled
  <2>3. CASE Returning(a, "sweep") /\ GoTo(a, IF gone THEN "return" ELSE "defer")
    BY <1>25, <2>1, <2>3
  <2> QED  BY <1>26, <2>2, <2>3 DEF Recheck
<1>27. ASSUME NEW a \in Threads, Proceed(a) PROVE Handled'
  <2>1. CASE Returning(a, "wait") /\ GoTo(a, "wait") /\ Forget(a)
    BY <1>25, <1>27, <2>1 DEF Proceed
  <2>2. CASE Returning(a, "cleanup") /\ GoTo(a, "claim")
    <3>1. a = Worker /\ at'[a] = "claim"
      BY <2>2, ReturningHas
    <3> QED  BY <3>1, HandledBy
  <2> QED  BY <1>27, <2>1, <2>2 DEF Proceed
<1>28. ASSUME NEW a \in Threads, Unlock(a) PROVE Handled'
  BY <1>25, <1>28 DEF Unlock
<1> QED
  BY <1>1, <1>2, <1>3, <1>4, <1>5, <1>6, <1>7, <1>8, <1>9, <1>10, <1>11,
     <1>12, <1>13, <1>14, <1>15, <1>16, <1>17, <1>18, <1>19, <1>20, <1>21,
     <1>22, <1>23, <1>24, <1>26, <1>27, <1>28
  DEF Next, Step, Clear, Defer, Resume

(* Refusals only grow, and with none so far the three parts hold on.       *)
LEMMA AttendedStep ==
  ASSUME TypeOK, Watching, Lifecycle, InHand, Orderly, Attended, [Next]_vars
  PROVE  Attended'
<1>1. CASE UNCHANGED vars
  BY <1>1 DEF vars, restVars, readerVars, flagVars, lockVars, Attended, Stacked, Announced,
              Handled, WorkerWill, SeesToIt, Pledged
<1>2. ASSUME Next, refusals' = 0
      PROVE  Attended'
  <2>1. refusals = 0
    <3>1. refusals' = refusals \/ refusals' = refusals + 1
      BY <1>2 DEF Next, Start, SetupFails, Attach, Wind, Finish, Die, StartFails, StopRequest,
           Shutdown, Prune, WaitEnds, Watch, Step, StopReader, StopOnce, JoinSucceeds, JoinFails,
           Clear, AlreadyCleared, Postpone, Claim, Drain, Conclude, Defer, DeferNothing, DeferHere,
           DeferToWatcher, StartWatcher, RefuseWatcher, Resume, RetryEnds, RetryAgain, Recheck,
           Proceed, Unlock, restVars
    <3> QED  BY <1>2, <3>1, TriesAssumption DEF TypeOK
  <2> QED  BY <1>2, <2>1, StackedStep, AnnouncedStep, HandledStep DEF Attended
<1> QED
  BY <1>1, <1>2 DEF Attended

-----------------------------------------------------------------------------
(* The strengthened invariant, of which each property is a part.           *)
IInv == TypeOK /\ Lifecycle /\ Watching /\ InHand /\ Told /\ Orderly /\ Attended

LEMMA Initially == Init => IInv
<1> SUFFICES ASSUME Init PROVE IInv
  OBVIOUS
<1> USE TriesAssumption, ThreadsAssumption
<1> USE DEF Init, Threads, Callers, NoPass, Buffers
<1>1. TypeOK
  <2>1. calls \in [Threads -> Seq(Frames)]
    BY FramesTyped
  <2>2. at \in [Threads -> Places]
    BY DEF Places
  <2>3. pass \in [Threads -> [hand : BOOLEAN, kept : BOOLEAN, complete : BOOLEAN]]
    OBVIOUS
  <2>4. starting \in [Threads -> Watchers \cup {None}] /\ watcher \in Watchers \cup {None}
    OBVIOUS
  <2>5. refusals \in 0..MaxRefusals
    OBVIOUS
  <2> QED  BY <2>1, <2>2, <2>3, <2>4, <2>5 DEF TypeOK
<1>2. \A a \in Threads : at[a] \in {"unborn", "idle"} /\ calls[a] = <<>> /\ pass[a] = NoPass
  OBVIOUS
<1>3. at[Worker] = "unborn"
  OBVIOUS
<1>4. Lifecycle
  BY <1>2, <1>3 DEF Lifecycle
<1>5. Watching
  <2>1. \A w \in Watchers : at[w] = "unborn"
    OBVIOUS
  <2> QED  BY <1>2, <2>1 DEF Watching, Running
<1>6. InHand
  BY <1>2 DEF InHand, Released
<1>7. Told
  BY <1>2 DEF Told
<1>8. Orderly
  BY <1>2, SilentFrames DEF Orderly, WillPass
<1>9. Attended
  <2>1. ~Has(<<>>, {"cleanup"}) /\ ~Has(<<>>, OtherSteps)
    BY HasOfSequences
  <2>2. ASSUME NEW a \in Threads
        PROVE  StackFits(a, at[a], calls[a], pass[a].hand)
    <3>1. a \in Watchers => at[a] = "unborn"
      OBVIOUS
    <3> QED  BY <1>2, <2>1, <3>1 DEF StackFits
  <2>3. Announced
    BY <1>2 DEF Announced
  <2>4. Handled
    BY <1>3 DEF Handled, WorkerWill
  <2> QED  BY <2>2, <2>3, <2>4 DEF Attended, Stacked
<1> QED
  BY <1>1, <1>4, <1>5, <1>6, <1>7, <1>8, <1>9 DEF IInv

LEMMA Inductive == IInv /\ [Next]_vars => IInv'
  BY TypeStep, LifecycleStep, WatchingStep, InHandStep, ToldStep, OrderlyStep, AttendedStep DEF IInv

(* The inductive invariant: who may wipe, who holds the reader, what the   *)
(* flag says, who keeps a lock and who still sees to what is left.         *)
THEOREM Invariance == Spec => []IInv
  BY Initially, Inductive, PTL DEF Spec

(* Whatever fails, every thread is at a place of the code and every field  *)
(* has one of its values.                                                  *)
THEOREM TypeCorrect == Spec => []TypeOK
<1>1. IInv => TypeOK
  BY DEF IInv
<1> QED
  BY <1>1, Invariance, PTL

(* No pass of another thread takes the gallery or a store from a worker    *)
(* that still looks at frames.                                             *)
THEOREM WorkerKeepsItsState == Spec => []WipedIsNeverUsed
<1>1. IInv => WipedIsNeverUsed
  BY DEF IInv, Lifecycle, WipedIsNeverUsed, Buffers
<1> QED
  BY <1>1, Invariance, PTL

(* However passes overlap and fail, a reader that still captures or holds  *)
(* frames can be found by a later pass, or is in the hands of just one.    *)
THEOREM ReaderIsKept == Spec => []ReaderIsNeverForgotten
<1>1. IInv => ReaderIsNeverForgotten
  BY DEF IInv, InHand, ReaderIsNeverForgotten
<1> QED
  BY <1>1, Invariance, PTL

(* _sensitive_cleared is set only when nothing is left, or while a pass is *)
(* under way that will take it back.                                       *)
THEOREM ClearedTellsTheTruth == Spec => []ClearedIsTrue
<1>1. IInv => ClearedIsTrue
  BY DEF IInv, Told, ClearedIsTrue
<1> QED
  BY <1>1, Invariance, PTL

(* defer_sensitive_cleanup never starts a second watcher beside a first.   *)
THEOREM WatcherIsAlone == Spec => []OneWatcher
<1>1. IInv => OneWatcher
  BY DEF IInv, Watching, OneWatcher
<1> QED
  BY <1>1, Invariance, PTL

(* _lock and _reader_stop_lock are never wanted crosswise while watchers   *)
(* can be started.                                                         *)
THEOREM LocksDoNotCross == Spec => []LocksAreOrdered
<1>1. IInv => LocksAreOrdered
  <2> SUFFICES ASSUME IInv, NEW a \in Threads, lock = a  PROVE refusals > 0
    BY DEF LocksAreOrdered
  <2>1. refusals # 0
    BY ThreadsAssumption DEF IInv, Orderly
  <2> QED  BY <2>1, TriesAssumption DEF IInv, TypeOK
<1> QED
  BY <1>1, Invariance, PTL

(* When the worker has gone and nobody is busy any more, everything is     *)
(* released or the failure is on record, unless a watcher could not be     *)
(* started.                                                                *)
THEOREM CleanupIsSettled == Spec => []SettledOrRecorded
<1>1. ASSUME IInv, Resting, refusals = 0, ~failed
      PROVE  cleared /\ held = {} /\ Released
  <2>1. /\ at[Worker] = "dead"
        /\ \A a \in Callers : at[a] = "idle" \/ Back(a)
        /\ \A w \in Watchers : at[w] \in {"unborn", "published"} \/ Back(w)
    BY <1>1 DEF Resting, Running
  <2>2. Stacked /\ Announced /\ Handled
    BY <1>1 DEF IInv, Attended
  <2>3. \A a \in Threads : at[a] \in {"dead", "idle", "unborn", "published", "return"} /\ calls[a] = <<>>
    BY <2>1, <2>2 DEF Threads, Back, Stacked, StackFits, Quiet
  <2>4. ~Has(<<>>, {"retry", "recheck"}) /\ <<>> # <<Go("cleanup")>>
    BY HasOfSequences
  <2>5. ~pass[Worker].hand
    BY <1>1, <2>1 DEF IInv, InHand, HandPlaces, Threads
  <2>6. cleared
    BY <1>1, <2>1, <2>2, <2>3, <2>4, <2>5 DEF Handled, WorkerWill, SeesToIt, Pledged, Threads
  <2>7. \A a \in Threads : ~Unsettled(a)
    BY <2>3 DEF Unsettled
  <2> QED  BY <1>1, <2>6, <2>7 DEF IInv, Told
<1>2. IInv => SettledOrRecorded
  <2> SUFFICES ASSUME IInv, Resting, ~failed, ~(cleared /\ held = {} /\ Released)
               PROVE  refusals > 0
    BY DEF SettledOrRecorded
  <2>1. refusals # 0
    BY <1>1
  <2> QED  BY <2>1, TriesAssumption DEF IInv, TypeOK
<1> QED
  BY <1>2, Invariance, PTL
=============================================================================
