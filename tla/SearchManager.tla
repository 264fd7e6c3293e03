----------------------------- MODULE SearchManager -----------------------------
(***************************************************************************)
(* SearchManager (service.py): who may be searched for, the one slot for a *)
(* running search, the searches kept for later questions, the request ids  *)
(* a retry is recognised by, and the janitor that forgets old searches.    *)
(*                                                                         *)
(* Two locks order its callers.  _lifecycle_lock is held by one start,     *)
(* stop, delete, enrolment or shutdown at a time, over model warm-up and   *)
(* over the wait for a worker; _lock is held for moments only, also by the *)
(* workers' completion callbacks, the janitor and the status readers.  An  *)
(* action is one holding of _lock.  What a search does between its start   *)
(* and its end is module SearchSession; here it ends when it likes.        *)
(***************************************************************************)
EXTENDS Naturals, FiniteSets

CONSTANTS
  Searches,     \* search ids
  Targets,      \* target ids; an id is enrolled once
  Keys,         \* request ids
  Threads,      \* status requests and janitor callbacks running at once
  NoSearch, NoKey,
  MaxEnrolled,  \* settings.max_enrolled_targets
  MaxRetained,  \* settings.max_retained_sessions
  Ttl,          \* settings.terminal_session_ttl_seconds
  MaxDelay,     \* the longest the prune timer sleeps: 60 s
  MaxTime       \* bound: the clock stops here

ASSUME IdsAssumption == NoSearch \notin Searches /\ NoKey \notin Keys
ASSUME SettingsAssumption ==
  /\ {MaxEnrolled, MaxRetained, Ttl, MaxDelay} \subseteq Nat \ {0}
  /\ MaxTime \in Nat

VARIABLES
  target,    \* where each target id is; _targets holds the enrolled ones
  phase,     \* where each search is
  batch,     \* session.targets
  key,       \* session.request_id
  endedAt,   \* session._finished_at, meaningful once phase is past "ended"
  retained,  \* the searches in _sessions
  index,     \* _request_index
  slot,      \* _active_search_id
  closing,   \* how far shutdown() is; _shutdown is set once past "open"
  stopped,   \* the search shutdown() is stopping
  call,      \* the start or stop in progress
  pc,        \* what each status request or janitor callback is doing
  timer,     \* _prune_timer: its state and its deadline
  now

callerVars == <<closing, stopped, call, pc>>
searchVars == <<phase, batch, key, endedAt>>
vars == <<target, searchVars, retained, index, slot, callerVars, timer, now>>

(* "live" is any status that is not terminal, "ended" a terminal status    *)
(* before _finished_at is set; the phases after it are the steps of        *)
(* _on_finished, and "finished" is session.finished.is_set().              *)
Phases == {"unborn", "published", "void", "live", "ended", "marked", "released",
           "pruned", "rearmed", "told", "finished"}

Enrolled == {t \in Targets : target[t] = "enrolled"}
Closed == closing # "open"

Started == {s \in Searches : phase[s] \notin {"unborn", "published", "void"}}
Live == {s \in Searches : phase[s] = "live"}
Finished == {s \in Searches : phase[s] = "finished"}
(* The searches whose _finished_at is set.                                 *)
Marked == {s \in Searches :
             phase[s] \in {"marked", "released", "pruned", "rearmed", "told", "finished"}}

(* A call's arguments are chosen where the code first looks at them.       *)
Steps == {"idle", "rearm", "enter", "check", "replace", "warm", "launch",
          "stop_rearm", "stop_look", "stop_wait"}
Call(step, s, k, b) == [step |-> step, search |-> s, key |-> k, batch |-> b]
NoCall == Call("idle", NoSearch, NoKey, {})
NoTimer == [state |-> "none", due |-> 0]

TypeOK ==
  /\ target \in [Targets -> {"unknown", "analysing", "enrolled", "gone"}]
  /\ phase \in [Searches -> Phases]
  /\ batch \in [Searches -> SUBSET Targets]
  /\ key \in [Searches -> Keys \cup {NoKey}]
  /\ endedAt \in [Searches -> Nat]
  /\ retained \subseteq Searches
  /\ index \in [Keys -> Searches \cup {NoSearch}]
  /\ slot \in Searches \cup {NoSearch}
  /\ closing \in {"open", "stopping", "wiping", "down"}
  /\ stopped \in Searches \cup {NoSearch}
  /\ call \in [step : Steps, search : Searches \cup {NoSearch}, key : Keys \cup {NoKey},
               batch : SUBSET Targets]
  /\ pc \in [Threads -> {"idle", "prune", "rearm", "look"}]
  /\ timer \in [state : {"none", "armed", "fired"}, due : Nat]
  /\ now \in Nat
  /\ {slot} \cup {index[k] : k \in Keys} \subseteq retained \cup {NoSearch}

Init ==
  /\ target = [t \in Targets |-> "unknown"]
  /\ phase = [s \in Searches |-> "unborn"]
  /\ batch = [s \in Searches |-> {}]
  /\ key = [s \in Searches |-> NoKey]
  /\ endedAt = [s \in Searches |-> 0]
  /\ retained = {} /\ index = [k \in Keys |-> NoSearch] /\ slot = NoSearch
  /\ closing = "open" /\ stopped = NoSearch
  /\ call = NoCall
  /\ pc = [h \in Threads |-> "idle"]
  /\ timer = NoTimer
  /\ now = 0

LifecycleFree ==
  call.step \in {"idle", "rearm", "enter"}

-----------------------------------------------------------------------------
(* Building blocks.                                                        *)

(* _active_session_locked: a search that is gone or whose status is        *)
(* terminal no longer holds the slot, even before its callback ran.        *)
Stale(s) == s \notin retained \/ phase[s] \notin {"published", "live"}
Active == IF slot = NoSearch \/ Stale(slot) THEN NoSearch ELSE slot

IndexWithout(s) == [k \in Keys |-> IF index[k] = s THEN NoSearch ELSE index[k]]

(* Its second half: request ids that lead to a search that is gone.        *)
IndexWithoutDangling ==
  IF slot # NoSearch /\ slot \notin retained THEN IndexWithout(slot) ELSE index

FoundByKey(k) ==
  IF k # NoKey /\ index[k] \in retained THEN index[k] ELSE NoSearch

(* The searches one pass of _prune_sessions may forget: those whose time   *)
(* is up, and the oldest of the others beyond MaxRetained.                 *)
Prunable == Finished
Expired == {s \in retained \cap Prunable : now - endedAt[s] >= Ttl}
SurplusOfAll(kept) ==  \* slip: those whose time is up are counted too
  LET all == Cardinality(retained \cap Prunable)
  IN IF all > MaxRetained THEN all - MaxRetained ELSE 0
Surplus(kept) == IF Cardinality(kept) > MaxRetained THEN Cardinality(kept) - MaxRetained ELSE 0
Oldest(kept) ==
  {old \in SUBSET kept : /\ Cardinality(old) = Surplus(kept)
                         /\ \A s \in old, u \in kept \ old : endedAt[s] <= endedAt[u]}

(* The first half of _prune_sessions: one holding of _lock.                *)
Prune ==
  \E old \in Oldest((retained \cap Prunable) \ Expired) :
    LET gone == Expired \cup old IN
    /\ retained' = retained \ gone
    /\ slot' = IF slot \in gone THEN NoSearch ELSE slot
    /\ index' = [k \in Keys |-> IF index[k] \in gone THEN NoSearch ELSE index[k]]

(* _schedule_prune_timer.  0.01 s and 0.05 s are one unit of time.         *)
Deadlines == {endedAt[s] + Ttl : s \in retained \cap Finished}
AtMost(d) == IF d > now + MaxDelay THEN now + MaxDelay ELSE d
Wake ==
  IF Deadlines = {} \/ Cardinality(retained \cap Finished) > MaxRetained
  THEN now + 1
  ELSE LET first == CHOOSE d \in Deadlines : \A e \in Deadlines : d <= e
       IN  IF first <= now THEN now + 1 ELSE AtMost(first)

SleepsOnFinishedOnly ==  \* slip: nothing finished yet, nothing to wake for
  IF Closed \/ retained \cap Finished = {} THEN NoTimer
  ELSE IF timer.state # "none" /\ timer.due <= Wake THEN timer
  ELSE [state |-> "armed", due |-> Wake]
Rearmed ==
  IF Closed \/ retained \cap Marked = {} THEN NoTimer
  ELSE IF timer.state # "none" /\ timer.due <= Wake THEN timer
  ELSE [state |-> "armed", due |-> Wake]

-----------------------------------------------------------------------------
(* Enrolment and deletion of targets.                                      *)

HasRoom == Cardinality(Enrolled) < MaxEnrolled

(* enroll: the early checks, before the model looks at the photo.          *)
Analyse(t) ==
  /\ target[t] = "unknown"
  /\ ~Closed /\ HasRoom
  /\ target' = [target EXCEPT ![t] = "analysing"]
  /\ UNCHANGED <<searchVars, retained, index, slot, callerVars, timer, now>>

(* enroll: a face that qualifies is published under both locks, after the  *)
(* checks were repeated.                                                   *)
MayEnrolEarly == TRUE  \* slip: the checks are not repeated
MayEnrol == ~Closed /\ HasRoom
Enrol(t) ==
  /\ target[t] = "analysing"
  /\ LifecycleFree
  /\ MayEnrol
  /\ target' = [target EXCEPT ![t] = "enrolled"]
  /\ UNCHANGED <<searchVars, retained, index, slot, callerVars, timer, now>>

(* No face, several, a poor one, or the repeated checks fail.              *)
RefuseTarget(t) ==
  /\ target[t] = "analysing"
  /\ target' = [target EXCEPT ![t] = "gone"]
  /\ UNCHANGED <<searchVars, retained, index, slot, callerVars, timer, now>>

DeleteTarget(t) ==
  /\ LifecycleFree
  /\ slot' = Active
  /\ index' = IndexWithoutDangling
  /\ target' = IF target[t] = "enrolled" /\ (Active = NoSearch \/ t \notin batch[Active])
               THEN [target EXCEPT ![t] = "gone"] ELSE target
  /\ UNCHANGED <<searchVars, retained, callerVars, timer, now>>

-----------------------------------------------------------------------------
(* start_batch_search.                                                     *)

At(step) == call.step = step
Goto(step) == call' = [call EXCEPT !.step = step]
Answer == call' = NoCall

(* Before it takes the lifecycle lock it checks that the manager is open   *)
(* and prunes.                                                             *)
StartCall ==
  /\ At("idle")
  /\ ~Closed
  /\ Goto("rearm")
  /\ Prune
  /\ UNCHANGED <<target, searchVars, closing, stopped, pc, timer, now>>

CallRearms ==
  /\ \/ At("rearm") /\ Goto("enter")
     \/ At("stop_rearm") /\ Goto("stop_look")
  /\ timer' = Rearmed
  /\ UNCHANGED <<target, searchVars, retained, index, slot, closing, stopped, pc, now>>

(* Inside the lifecycle lock: the manager may have closed meanwhile; a     *)
(* request id that leads to a search is answered with it; a target may be  *)
(* missing; otherwise the targets are copied.                              *)
FoundByKeyUnfinished(k) ==  \* slip: a retry does not find a finished search
  IF k # NoKey /\ index[k] \in retained \ Finished THEN index[k] ELSE NoSearch
AnsweredBy(k) == FoundByKey(k)
EnterStart(k, b) ==
  /\ At("enter")
  /\ IF Closed
     THEN Answer /\ UNCHANGED <<slot, index>>
     ELSE /\ slot' = Active
          /\ IF AnsweredBy(k) # NoSearch
             THEN Answer /\ index' = IndexWithoutDangling
             ELSE /\ index' = IF k = NoKey THEN IndexWithoutDangling
                              ELSE [IndexWithoutDangling EXCEPT ![k] = NoSearch]
                  /\ IF \/ Active # NoSearch /\ k # NoKey /\ key[Active] = k
                        \/ ~ (b \subseteq Enrolled)
                     THEN Answer
                     ELSE call' = Call("check", NoSearch, k, b)
  /\ UNCHANGED <<target, searchVars, retained, closing, stopped, pc, timer, now>>

(* The slot is looked at again: the worker's callback does not wait for    *)
(* the lifecycle lock.  A live search in it is a refusal, unless the call  *)
(* says replace_active.                                                    *)
CheckSlot ==
  /\ At("check")
  /\ slot' = Active
  /\ index' = IndexWithoutDangling
  /\ \/ Active = NoSearch /\ Goto("warm")
     \/ Active # NoSearch /\ Answer
     \/ /\ Active # NoSearch
        /\ call' = [call EXCEPT !.step = "replace", !.search = Active]
  /\ UNCHANGED <<target, searchVars, retained, closing, stopped, pc, timer, now>>

(* The replaced search's stop() returns, or raises when the worker does    *)
(* not finish in time.                                                     *)
ReplacedAnyway == TRUE  \* slip: the search is taken for stopped
Replaced == call.search \in Finished
StopReplaced ==
  /\ At("replace")
  /\ \/ Replaced /\ Goto("warm")
     \/ call.search \notin Finished /\ Answer
  /\ UNCHANGED <<target, searchVars, retained, index, slot, closing, stopped, pc, timer, now>>

(* ensure_ready may fail; then the new search is constructed and published *)
(* in the three tables.                                                    *)
Warm(s) ==
  /\ At("warm")
  /\ phase[s] = "unborn"
  /\ \/ /\ ~Closed
        /\ phase' = [phase EXCEPT ![s] = "published"]
        /\ batch' = [batch EXCEPT ![s] = call.batch]
        /\ key' = [key EXCEPT ![s] = call.key]
        /\ retained' = retained \cup {s}
        /\ index' = IF call.key = NoKey THEN index ELSE [index EXCEPT ![call.key] = s]
        /\ slot' = s
        /\ call' = [call EXCEPT !.step = "launch", !.search = s]
     \/ Answer /\ UNCHANGED <<phase, batch, key, retained, index, slot>>
  /\ UNCHANGED <<target, endedAt, closing, stopped, pc, timer, now>>

(* session.start() creates the worker thread, or fails and is rolled back. *)
Launch ==
  LET s == call.search IN
  /\ At("launch")
  /\ Answer
  /\ \/ phase' = [phase EXCEPT ![s] = "live"] /\ UNCHANGED <<retained, index, slot>>
     \/ /\ phase' = [phase EXCEPT ![s] = "void"]
        /\ retained' = retained \ {s}
        /\ index' = IndexWithout(s)
        /\ slot' = IF slot = s THEN NoSearch ELSE slot
  /\ UNCHANGED <<target, batch, key, endedAt, closing, stopped, pc, timer, now>>

-----------------------------------------------------------------------------
(* stop_search holds the lifecycle lock throughout; its look-up prunes.    *)

StopCall ==
  /\ At("idle")
  /\ Goto("stop_rearm")
  /\ Prune
  /\ UNCHANGED <<target, searchVars, closing, stopped, pc, timer, now>>

(* An unknown search and a finished one are answered at once.              *)
StopLook(s) ==
  /\ At("stop_look")
  /\ IF s \in retained \ Finished
     THEN call' = Call("stop_wait", s, NoKey, {}) ELSE Answer
  /\ UNCHANGED <<target, searchVars, retained, index, slot, closing, stopped, pc, timer, now>>

(* session.stop() returns when the worker is finished, or gives up.        *)
StopReturns ==
  /\ At("stop_wait")
  /\ Answer
  /\ UNCHANGED <<target, searchVars, retained, index, slot, closing, stopped, pc, timer, now>>

-----------------------------------------------------------------------------
(* shutdown.                                                               *)

Close ==
  /\ closing = "open"
  /\ LifecycleFree
  /\ IF slot \in retained \ Finished
     THEN closing' = "stopping" /\ stopped' = slot
     ELSE closing' = "wiping" /\ stopped' = stopped
  /\ slot' = NoSearch
  /\ timer' = NoTimer
  /\ index' = [k \in Keys |-> NoSearch]
  /\ UNCHANGED <<target, searchVars, retained, call, pc, now>>

(* The running search's stop() returns, or its timeout is only logged.     *)
ShutdownStopReturns ==
  /\ closing = "stopping"
  /\ closing' = "wiping"
  /\ UNCHANGED <<target, searchVars, retained, index, slot, stopped, call, pc, timer, now>>

ShutdownWipes ==
  /\ closing = "wiping"
  /\ closing' = "down"
  /\ target' = [t \in Targets |-> IF target[t] = "enrolled" THEN "gone" ELSE target[t]]
  /\ UNCHANGED <<searchVars, retained, index, slot, stopped, call, pc, timer, now>>

-----------------------------------------------------------------------------
(* The worker of a search, from its terminal status on.                    *)

Advance(s, to) == phase' = [phase EXCEPT ![s] = to]

Ends(s) ==
  /\ phase[s] = "live"
  /\ Advance(s, "ended")
  /\ UNCHANGED <<target, batch, key, endedAt, retained, index, slot, callerVars, timer, now>>

(* _finished_at is written outside any lock, before the callback.  Where   *)
(* there is a clock, its bound leaves every finished search its whole Ttl. *)
Marks(s) ==
  /\ phase[s] = "ended"
  /\ MaxTime > 0 => now + Ttl <= MaxTime
  /\ Advance(s, "marked")
  /\ endedAt' = [endedAt EXCEPT ![s] = now]
  /\ UNCHANGED <<target, batch, key, retained, index, slot, callerVars, timer, now>>

(* _on_finished: the slot, if it is still this search's, and the targets,  *)
(* which are enrolled for one search only.                                 *)
SlotAfter(s) == IF slot = s THEN NoSearch ELSE slot
SpentIfInSlot(s) == IF slot = s THEN batch[s] ELSE {}  \* slip: only from the slot
Spent(s) == batch[s]
Releases(s) ==
  /\ phase[s] = "marked"
  /\ Advance(s, "released")
  /\ slot' = SlotAfter(s)
  /\ target' = [t \in Targets |-> IF t \in Spent(s) /\ target[t] = "enrolled"
                                   THEN "gone" ELSE target[t]]
  /\ UNCHANGED <<batch, key, endedAt, retained, index, callerVars, timer, now>>

WorkerPrunes(s) ==
  /\ phase[s] = "released"
  /\ Advance(s, "pruned")
  /\ Prune
  /\ UNCHANGED <<target, batch, key, endedAt, callerVars, timer, now>>

(* Once at the end of _prune_sessions, once more in _on_finished.          *)
WorkerRearms(s) ==
  /\ \/ phase[s] = "pruned" /\ Advance(s, "rearmed")
     \/ phase[s] = "rearmed" /\ Advance(s, "told")
  /\ timer' = Rearmed
  /\ UNCHANGED <<target, batch, key, endedAt, retained, index, slot, callerVars, now>>

(* The terminal event and the scrubbing of its state are behind it.        *)
Finishes(s) ==
  /\ phase[s] = "told"
  /\ Advance(s, "finished")
  /\ UNCHANGED <<target, batch, key, endedAt, retained, index, slot, callerVars, timer, now>>

-----------------------------------------------------------------------------
(* Status requests (active_search, search_by_request_id, get_search) and   *)
(* the janitor: each prunes, rearms the timer, and requests look up.       *)

GotoStep(h, step) == pc' = [pc EXCEPT ![h] = step]
othersUnchanged == <<target, searchVars, closing, stopped, call, now>>

Asks(h) ==
  /\ pc[h] = "idle"
  /\ GotoStep(h, "prune")
  /\ UNCHANGED <<retained, index, slot, timer, othersUnchanged>>

ThreadPrunes(h) ==
  /\ pc[h] = "prune"
  /\ Prune
  /\ GotoStep(h, "rearm")
  /\ UNCHANGED <<timer, othersUnchanged>>

ThreadRearms(h) ==
  /\ pc[h] = "rearm"
  /\ timer' = Rearmed
  /\ GotoStep(h, "look")
  /\ UNCHANGED <<retained, index, slot, othersUnchanged>>

(* active_search drops a stale slot, search_by_request_id a request id     *)
(* whose search is gone; the rest only reads.                              *)
Looks(h) ==
  /\ pc[h] = "look"
  /\ GotoStep(h, "idle")
  /\ \/ slot' = Active /\ index' = IndexWithoutDangling
     \/ /\ \E k \in Keys : index' = [index EXCEPT ![k] = FoundByKey(k)]
        /\ UNCHANGED slot
     \/ UNCHANGED <<index, slot>>
  /\ UNCHANGED <<retained, timer, othersUnchanged>>

(* The timer thread wakes; until it has _lock it may be superseded, and    *)
(* then its generation no longer counts and it does nothing.  Where a      *)
(* clock stops, every timer is due.                                        *)
TimerFires ==
  /\ timer.state = "armed"
  /\ timer.due <= now \/ (now = MaxTime /\ MaxTime > 0)
  /\ timer' = [timer EXCEPT !.state = "fired"]
  /\ UNCHANGED <<retained, index, slot, pc, othersUnchanged>>

RunPruneTimer(h) ==
  /\ timer.state = "fired"
  /\ pc[h] = "idle"
  /\ timer' = NoTimer
  /\ GotoStep(h, "prune")
  /\ UNCHANGED <<retained, index, slot, othersUnchanged>>

Tick ==
  /\ now < MaxTime
  /\ now' = now + 1
  /\ UNCHANGED <<target, searchVars, retained, index, slot, callerVars, timer>>

-----------------------------------------------------------------------------
TargetStep == \E t \in Targets : Analyse(t) \/ Enrol(t) \/ RefuseTarget(t) \/ DeleteTarget(t)

StartStep ==
  \/ StartCall
  \/ \E k \in Keys \cup {NoKey}, b \in SUBSET Targets \ {{}} : EnterStart(k, b)
  \/ CheckSlot \/ StopReplaced \/ Launch
  \/ \E s \in Searches : Warm(s)

StopStep == StopCall \/ (\E s \in Searches : StopLook(s)) \/ StopReturns

ShutdownStep == Close \/ ShutdownStopReturns \/ ShutdownWipes

Winds(s) == Marks(s) \/ Releases(s) \/ WorkerPrunes(s) \/ WorkerRearms(s) \/ Finishes(s)
WorkerStep == \E s \in Searches : Ends(s) \/ Winds(s)

ThreadWorks(h) == ThreadPrunes(h) \/ ThreadRearms(h) \/ Looks(h)
ThreadStep == \E h \in Threads : Asks(h) \/ ThreadWorks(h) \/ RunPruneTimer(h)

Next ==
  \/ TargetStep \/ StartStep \/ StopStep \/ CallRearms
  \/ ShutdownStep \/ WorkerStep \/ ThreadStep \/ TimerFires \/ Tick

Spec == Init /\ [][Next]_vars

(* Time passes, a due timer fires, and a runnable thread runs; callers may *)
(* stay away, and nothing makes a live search end.                         *)
Fairness ==
  /\ WF_vars(Tick) /\ WF_vars(TimerFires)
  /\ \A s \in Searches : WF_vars(Winds(s))
  /\ \A h \in Threads : WF_vars(ThreadWorks(h)) /\ SF_vars(RunPruneTimer(h))

FairSpec == Spec /\ Fairness
=============================================================================
