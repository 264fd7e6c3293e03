-------------------------- MODULE SearchManagerProofs --------------------------
(***************************************************************************)
(* Proofs about SearchManager, for every set of searches, targets, request *)
(* ids and threads and for all limits.  One invariant per table: the slot, *)
(* the request ids, the targets and the janitor's timer, each of them      *)
(* inductive together with the type invariant and the one before it.  With *)
(* them, every step is one of the abstract registry or a stutter.          *)
(***************************************************************************)
EXTENDS SearchManagerProps, FiniteSetTheorems, WellFoundedInduction, TLAPS

(* The slot and who is live; and what a start knows of it, step by step.   *)
SlotCore ==
  /\ OneLiveSearch
  /\ LiveSearchIsReachable
  /\ Closed => slot = NoSearch

Starting == {"check", "replace", "warm", "launch"}
StartKnows ==
  /\ call.step \in Starting => ~Closed
  /\ At("replace") => Live \subseteq {call.search}
  /\ call.step \in {"warm", "launch"} => Live = {}
  /\ At("launch") => /\ call.search \in retained /\ slot = call.search
                     /\ phase[call.search] = "published"

SlotInv == SlotCore /\ StartKnows

-----------------------------------------------------------------------------
(* A pass of the pruning forgets finished searches only, and everything    *)
(* that leads to them.                                                     *)
LEMMA PruneForgetsFinished ==
  ASSUME TypeOK, Prune
  PROVE  \E gone \in SUBSET (retained \cap Finished) :
           /\ retained' = retained \ gone
           /\ slot' = IF slot \in gone THEN NoSearch ELSE slot
           /\ index' = [k \in Keys |-> IF index[k] \in gone THEN NoSearch ELSE index[k]]
<1>1. PICK old \in Oldest((retained \cap Prunable) \ Expired) :
        LET gone == Expired \cup old IN
        /\ retained' = retained \ gone
        /\ slot' = IF slot \in gone THEN NoSearch ELSE slot
        /\ index' = [k \in Keys |-> IF index[k] \in gone THEN NoSearch ELSE index[k]]
  BY DEF Prune
<1>2. Expired \cup old \in SUBSET (retained \cap Finished)
  BY DEF Oldest, Expired, Prunable
<1> QED BY <1>1, <1>2

(* Under the type invariant a look-up clears nothing but a stale slot: no  *)
(* request id dangles.                                                     *)
LEMMA LookUps ==
  ASSUME TypeOK
  PROVE  /\ Active \in {slot, NoSearch}
         /\ slot \in retained /\ phase[slot] \in {"published", "live"} => Active = slot
         /\ Active # NoSearch => Active \in retained
         /\ IndexWithoutDangling = index
         /\ \A k \in Keys : FoundByKey(k) = NoSearch \/ FoundByKey(k) = index[k]
         /\ \A k \in Keys : [index EXCEPT ![k] = FoundByKey(k)] = index
         /\ \A k \in Keys : FoundByKey(k) = NoSearch => index[k] = NoSearch
  <1>1. slot \in retained \cup {NoSearch} /\ \A k \in Keys : index[k] \in retained \cup {NoSearch}
    BY DEF TypeOK
  <1>2. NoKey \notin Keys /\ NoSearch \notin retained
    BY IdsAssumption DEF TypeOK
  <1>3. \A k \in Keys : FoundByKey(k) = index[k]
    BY <1>1, <1>2 DEF FoundByKey
  <1>4. index = [k \in Keys |-> index[k]]
    BY DEF TypeOK
  <1> QED BY <1>1, <1>2, <1>3, <1>4 DEF Active, Stale, IndexWithoutDangling

(* The timer's next deadline is never more than its longest sleep away.    *)
LEMMA WakeIsNear ==
  ASSUME TypeOK
  PROVE  Wake \in Nat /\ Wake <= now + MaxDelay
  <1>1. now \in Nat /\ MaxDelay \in Nat /\ MaxDelay >= 1 /\ Ttl \in Nat
    BY SettingsAssumption DEF TypeOK
  <1>2. Deadlines \subseteq Nat
    BY <1>1 DEF Deadlines, TypeOK, Finished
  <1>3. Deadlines # {} => \E d \in Deadlines : \A e \in Deadlines : d <= e
    <2> SUFFICES ASSUME Deadlines # {}
                 PROVE  \E d \in Deadlines : \A e \in Deadlines : d <= e
      OBVIOUS
    <2>1. PICK d \in Deadlines : \A e \in Deadlines : ~(<<e, d>> \in OpToRel(<, Nat))
      BY <1>2, WFMin, NatLessThanWellFounded
    <2>2. \A e \in Deadlines : ~(e < d)
      BY <1>2, <2>1 DEF OpToRel
    <2> QED BY <1>2, <2>2
  <1>4. CASE Deadlines = {} \/ Cardinality(retained \cap Finished) > MaxRetained
    BY <1>1, <1>4 DEF Wake
  <1>5. CASE ~(Deadlines = {} \/ Cardinality(retained \cap Finished) > MaxRetained)
    <2> DEFINE first == CHOOSE d \in Deadlines : \A e \in Deadlines : d <= e
    <2>1. first \in Nat
      BY <1>2, <1>3, <1>5
    <2>2. Wake = IF first <= now THEN now + 1 ELSE AtMost(first)
      BY <1>5 DEF Wake
    <2> QED BY <1>1, <2>1, <2>2 DEF AtMost
  <1> QED BY <1>4, <1>5

LEMMA RearmedIsNear ==
  ASSUME TypeOK
  PROVE  /\ Rearmed \in [state : {"none", "armed", "fired"}, due : Nat]
         /\ ~Closed /\ retained \cap Marked # {} =>
              Rearmed.state # "none" /\ Rearmed.due <= now + MaxDelay
  <1>1. /\ timer \in [state : {"none", "armed", "fired"}, due : Nat] /\ now + MaxDelay \in Nat
        /\ NoTimer \in [state : {"none", "armed", "fired"}, due : Nat]
    BY SettingsAssumption DEF TypeOK, NoTimer
  <1> QED BY <1>1, WakeIsNear DEF Rearmed

-----------------------------------------------------------------------------
(* The type invariant.                                                     *)

LEMMA InitTyped == Init => TypeOK
<1> SUFFICES ASSUME Init
             PROVE  TypeOK
  OBVIOUS
<1>1. call \in [step : Steps, search : Searches \cup {NoSearch}, key : Keys \cup {NoKey},
                batch : SUBSET Targets]
  BY DEF Init, NoCall, Call, Steps
<1>2. timer \in [state : {"none", "armed", "fired"}, due : Nat]
  BY DEF Init, NoTimer
<1>3. {slot} \cup {index[k] : k \in Keys} \subseteq retained \cup {NoSearch}
  BY DEF Init
<1> QED BY <1>1, <1>2, <1>3 DEF Init, TypeOK, Phases

CallType == [step : Steps, search : Searches \cup {NoSearch}, key : Keys \cup {NoKey},
             batch : SUBSET Targets]

LEMMA PruneTyped ==
  ASSUME TypeOK, Prune
  PROVE  /\ retained' \subseteq Searches
         /\ index' \in [Keys -> Searches \cup {NoSearch}]
         /\ slot' \in Searches \cup {NoSearch}
         /\ {slot'} \cup {index'[k] : k \in Keys} \subseteq retained' \cup {NoSearch}
  BY PruneForgetsFinished DEF TypeOK

LEMMA NextTyped == TypeOK /\ [Next]_vars => TypeOK'
<1> SUFFICES ASSUME TypeOK, [Next]_vars
             PROVE  TypeOK'
  OBVIOUS
<1> USE DEF callerVars, searchVars, othersUnchanged
<1>0. NoCall \in CallType
  BY DEF NoCall, Call, Steps, CallType
<1>1. ASSUME NEW t \in Targets, Analyse(t) \/ Enrol(t) \/ RefuseTarget(t)
      PROVE  TypeOK'
  BY <1>1 DEF Analyse, Enrol, RefuseTarget, TypeOK
<1>2. ASSUME NEW t \in Targets, DeleteTarget(t)
      PROVE  TypeOK'
  BY <1>2, LookUps DEF DeleteTarget, TypeOK
<1>3. CASE StartCall \/ StopCall
  <2>1. call' \in CallType
    BY <1>3 DEF StartCall, StopCall, Goto, TypeOK, Steps, CallType
  <2> QED BY <1>3, <2>1, PruneTyped DEF StartCall, StopCall, TypeOK, CallType
<1>4. ASSUME NEW k \in Keys \cup {NoKey}, NEW b \in SUBSET Targets, EnterStart(k, b)
      PROVE  TypeOK'
  <2>1. call' \in CallType
    BY <1>0, <1>4 DEF EnterStart, Answer, Call, CallType, Steps, TypeOK
  <2>2. /\ slot' \in retained \cup {NoSearch}
        /\ index' \in [Keys -> Searches \cup {NoSearch}]
        /\ \A j \in Keys : index'[j] \in {index[j], NoSearch}
    BY <1>4, LookUps DEF EnterStart, TypeOK
  <2>3. {slot'} \cup {index'[j] : j \in Keys} \subseteq retained \cup {NoSearch}
    BY <2>2 DEF TypeOK
  <2> QED BY <1>4, <2>1, <2>2, <2>3 DEF EnterStart, TypeOK, CallType
<1>5. CASE CheckSlot
  <2>1. call' \in CallType
    BY <1>0, <1>5, LookUps DEF CheckSlot, Answer, Goto, CallType, Steps, TypeOK
  <2> QED BY <1>5, <2>1, LookUps DEF CheckSlot, TypeOK, CallType
<1>6. CASE StopReplaced \/ StopReturns
  <2>1. call' \in CallType
    BY <1>0, <1>6 DEF StopReplaced, StopReturns, Answer, Goto, CallType, Steps, TypeOK
  <2> QED BY <1>6, <2>1 DEF StopReplaced, StopReturns, TypeOK, CallType
<1>7. ASSUME NEW s \in Searches, Warm(s)
      PROVE  TypeOK'
  <2>1. call' \in CallType
    BY <1>0, <1>7 DEF Warm, Answer, CallType, Steps, TypeOK
  <2>2. /\ phase' \in [Searches -> Phases] /\ batch' \in [Searches -> SUBSET Targets]
        /\ key' \in [Searches -> Keys \cup {NoKey}]
    BY <1>7 DEF Warm, TypeOK, Phases
  <2>3. /\ retained' \subseteq Searches
        /\ index' \in [Keys -> Searches \cup {NoSearch}]
        /\ slot' \in retained' \cup {NoSearch}
        /\ \A k \in Keys : index'[k] \in retained' \cup {NoSearch}
    BY <1>7 DEF Warm, TypeOK
  <2> QED BY <1>7, <2>1, <2>2, <2>3 DEF Warm, TypeOK, CallType
<1>8. CASE Launch
  <2>1. call' \in CallType
    BY <1>0, <1>8 DEF Launch, Answer
  <2>2. phase' \in [Searches -> Phases]
    BY <1>8 DEF Launch, TypeOK, Phases
  <2>3. /\ retained' \subseteq Searches
        /\ index' \in [Keys -> Searches \cup {NoSearch}]
        /\ slot' \in retained' \cup {NoSearch}
        /\ \A k \in Keys : index'[k] \in retained' \cup {NoSearch}
    BY <1>8 DEF Launch, TypeOK, IndexWithout
  <2> QED BY <1>8, <2>1, <2>2, <2>3 DEF Launch, TypeOK, CallType
<1>9. ASSUME NEW s \in Searches, StopLook(s)
      PROVE  TypeOK'
  <2>1. call' \in CallType
    BY <1>0, <1>9 DEF StopLook, Answer, Call, CallType, Steps
  <2> QED BY <1>9, <2>1 DEF StopLook, TypeOK, CallType
<1>10. CASE CallRearms
  <2>1. call' \in CallType
    BY <1>10 DEF CallRearms, Goto, CallType, Steps, TypeOK
  <2> QED BY <1>10, <2>1, RearmedIsNear DEF CallRearms, TypeOK, CallType
<1>11. CASE Close
  <2>1. timer' \in [state : {"none", "armed", "fired"}, due : Nat]
    BY <1>11 DEF Close, NoTimer
  <2> QED BY <1>11, <2>1 DEF Close, TypeOK
<1>12. CASE ShutdownStopReturns \/ ShutdownWipes
  BY <1>12 DEF ShutdownStopReturns, ShutdownWipes, TypeOK
<1>13. ASSUME NEW s \in Searches, Ends(s) \/ Marks(s) \/ Finishes(s)
       PROVE  TypeOK'
  <2>1. phase' \in [Searches -> Phases]
    BY <1>13 DEF Ends, Marks, Finishes, Advance, TypeOK, Phases
  <2> QED BY <1>13, <2>1 DEF Ends, Marks, Finishes, TypeOK
<1>14. ASSUME NEW s \in Searches, Releases(s)
       PROVE  TypeOK'
  <2>1. phase' \in [Searches -> Phases]
    BY <1>14 DEF Releases, Advance, TypeOK, Phases
  <2> QED BY <1>14, <2>1 DEF Releases, SlotAfter, TypeOK
<1>15. ASSUME NEW s \in Searches, WorkerPrunes(s)
       PROVE  TypeOK'
  <2>1. phase' \in [Searches -> Phases]
    BY <1>15 DEF WorkerPrunes, Advance, TypeOK, Phases
  <2> QED BY <1>15, <2>1, PruneTyped DEF WorkerPrunes, TypeOK
<1>16. ASSUME NEW s \in Searches, WorkerRearms(s)
       PROVE  TypeOK'
  <2>1. phase' \in [Searches -> Phases]
    BY <1>16 DEF WorkerRearms, Advance, TypeOK, Phases
  <2> QED BY <1>16, <2>1, RearmedIsNear DEF WorkerRearms, TypeOK
<1>17. ASSUME NEW h \in Threads, Asks(h)
       PROVE  TypeOK'
  BY <1>17 DEF Asks, GotoStep, TypeOK
<1>18. ASSUME NEW h \in Threads, ThreadPrunes(h)
       PROVE  TypeOK'
  BY <1>18, PruneTyped DEF ThreadPrunes, GotoStep, TypeOK
<1>19. ASSUME NEW h \in Threads, ThreadRearms(h)
       PROVE  TypeOK'
  BY <1>19, RearmedIsNear DEF ThreadRearms, GotoStep, TypeOK
<1>20. ASSUME NEW h \in Threads, Looks(h)
       PROVE  TypeOK'
  <2>1. slot' \in {slot, NoSearch} /\ index' = index
    BY <1>20, LookUps DEF Looks
  <2> QED BY <1>20, <2>1 DEF Looks, GotoStep, TypeOK
<1>21. ASSUME NEW h \in Threads, RunPruneTimer(h)
       PROVE  TypeOK'
  BY <1>21 DEF RunPruneTimer, GotoStep, NoTimer, TypeOK
<1>22. CASE TimerFires \/ Tick
  BY <1>22 DEF TimerFires, Tick, TypeOK
<1>23. CASE UNCHANGED vars
  BY <1>23 DEF vars, TypeOK
<1> QED
  BY <1>1, <1>2, <1>3, <1>4, <1>5, <1>6, <1>7, <1>8, <1>9, <1>10, <1>11, <1>12, <1>13,
     <1>14, <1>15, <1>16, <1>17, <1>18, <1>19, <1>20, <1>21, <1>22, <1>23
     DEF Next, TargetStep, StartStep, StopStep, ShutdownStep, WorkerStep, Winds, ThreadStep,
         ThreadWorks
-----------------------------------------------------------------------------
(* The slot.  What decides is that a search enters it only while the       *)
(* lifecycle lock is held since the slot was seen free, and that pruning,  *)
(* callbacks and look-ups only ever take out what is no longer live.       *)

(* Who cleans up leaves a published or live search where it is.            *)
Tidied ==
  /\ slot' \in {slot, NoSearch}
  /\ slot \in retained /\ phase[slot] \in {"published", "live"} => slot' = slot
  /\ \A s \in retained \ retained' : phase[s] = "finished"

LEMMA TidyingKeepsTheSlot ==
  ASSUME TypeOK, SlotInv, Tidied, retained' \subseteq retained, UNCHANGED <<phase, closing>>
  PROVE  /\ SlotCore'
         /\ call'.step \notin Starting \/ UNCHANGED call => StartKnows'
<1>1. Live' = Live /\ Finished' = Finished /\ Started' = Started /\ (Closed' <=> Closed)
  BY DEF Live, Finished, Started, Closed
<1>2. Live \subseteq retained
  BY DEF SlotInv, SlotCore, LiveSearchIsReachable, Live, Started, Finished
<1>3. OneLiveSearch'
  BY <1>1 DEF SlotInv, SlotCore, OneLiveSearch
<1>4. (Started \ Finished)' \subseteq retained'
  BY <1>1 DEF Tidied, SlotInv, SlotCore, LiveSearchIsReachable, Started, Finished
<1>5. ASSUME ~Closed'
      PROVE  Live' \subseteq {slot'}
  <2>1. Live \subseteq {slot}
    BY <1>1, <1>5 DEF SlotInv, SlotCore, LiveSearchIsReachable
  <2> QED BY <1>1, <1>2, <2>1 DEF Tidied, Live
<1>6. Closed' => slot' = NoSearch
  BY <1>1 DEF Tidied, SlotInv, SlotCore
<1>7. SlotCore'
  BY <1>3, <1>4, <1>5, <1>6 DEF SlotCore, LiveSearchIsReachable
<1>8. call'.step \notin Starting => StartKnows'
  BY DEF StartKnows, Starting, At
<1>9. UNCHANGED call => StartKnows'
  <2>1. At("launch") => /\ call.search \in retained' /\ slot' = call.search
                        /\ phase[call.search] = "published"
    BY DEF Tidied, SlotInv, StartKnows
  <2> QED BY <1>1, <2>1 DEF SlotInv, StartKnows, At
<1> QED BY <1>7, <1>8, <1>9

(* Under the type and slot invariants a free slot means no live search.    *)
LEMMA FreeSlot ==
  ASSUME TypeOK, SlotInv, ~Closed
  PROVE  Live \subseteq {Active}
<1>1. Live \subseteq {slot} /\ Live \subseteq retained
  BY DEF SlotInv, SlotCore, LiveSearchIsReachable, Live, Started, Finished
<1> QED BY <1>1, LookUps DEF Live

LEMMA PruneTidies ==
  ASSUME TypeOK, Prune
  PROVE  Tidied /\ retained' \subseteq retained
BY PruneForgetsFinished DEF Tidied, Finished

LEMMA LookUpTidies ==
  ASSUME TypeOK, slot' = Active \/ slot' = slot, retained' = retained
  PROVE  Tidied
BY LookUps DEF Tidied

LEMMA InitSlot == Init => SlotInv
BY DEF Init, SlotInv, SlotCore, StartKnows, OneLiveSearch, LiveSearchIsReachable, Live, Started,
       Finished, Closed, NoCall, Call, Starting, At

LEMMA NextSlot == TypeOK /\ SlotInv /\ [Next]_vars => SlotInv'
<1> SUFFICES ASSUME TypeOK, SlotInv, [Next]_vars
             PROVE  SlotInv'
  OBVIOUS
<1> USE DEF callerVars, searchVars, othersUnchanged
<1>a. ASSUME UNCHANGED <<phase, retained, slot, closing>>,
             call'.step \notin Starting \/ UNCHANGED call
      PROVE  SlotInv'
  BY <1>a, TidyingKeepsTheSlot DEF Tidied, SlotInv
<1>b. /\ NoCall.step = "idle"
      /\ \A s, k, b : /\ Call("check", s, k, b).step = "check"
                      /\ Call("stop_wait", s, k, b).step = "stop_wait"
  BY DEF NoCall, Call
<1>1. ASSUME NEW t \in Targets, Analyse(t) \/ Enrol(t) \/ RefuseTarget(t)
      PROVE  SlotInv'
  BY <1>1, <1>a DEF Analyse, Enrol, RefuseTarget
<1>2. ASSUME NEW t \in Targets, DeleteTarget(t)
      PROVE  SlotInv'
  BY <1>2, LookUpTidies, TidyingKeepsTheSlot DEF DeleteTarget, SlotInv
<1>3. CASE StartCall \/ StopCall
  <2>1. call'.step \notin Starting
    BY <1>3 DEF StartCall, StopCall, Goto, TypeOK, Starting
  <2> QED BY <1>3, <2>1, PruneTidies, TidyingKeepsTheSlot DEF StartCall, StopCall, SlotInv
<1>4. ASSUME NEW k \in Keys \cup {NoKey}, NEW b \in SUBSET Targets, EnterStart(k, b)
      PROVE  SlotInv'
  <2>1. SlotCore' /\ (call'.step \notin Starting => StartKnows')
    BY <1>4, LookUpTidies, TidyingKeepsTheSlot DEF EnterStart
  <2>2. CASE call'.step \in Starting
    <3>1. ~Closed' /\ call'.step = "check"
      BY <1>4, <1>b, <2>2 DEF EnterStart, Answer, Closed, Starting
    <3> QED BY <2>1, <3>1 DEF SlotInv, StartKnows, At
  <2> QED BY <2>1, <2>2 DEF SlotInv
<1>5. CASE CheckSlot
  <2>1. SlotCore' /\ (call'.step \notin Starting => StartKnows')
    BY <1>5, LookUpTidies, TidyingKeepsTheSlot DEF CheckSlot
  <2>2. ~Closed /\ ~Closed' /\ Live' = Live /\ Live \subseteq {Active}
    BY <1>5, FreeSlot DEF CheckSlot, SlotInv, StartKnows, Starting, At, Closed, Live
  <2>3. CASE call' = [call EXCEPT !.step = "replace", !.search = Active]
    <3>1. call'.step = "replace" /\ call'.search = Active
      BY <2>3 DEF TypeOK
    <3> QED BY <2>1, <2>2, <3>1 DEF SlotInv, StartKnows, At
  <2>4. CASE Active = NoSearch /\ Goto("warm")
    <3>1. Live' = {} /\ call'.step = "warm"
      BY <2>2, <2>4, IdsAssumption DEF Goto, TypeOK, Live
    <3> QED BY <2>1, <2>2, <3>1 DEF SlotInv, StartKnows, At
  <2>5. CASE Answer
    BY <1>b, <2>1, <2>5 DEF Answer, Starting, SlotInv
  <2> QED BY <1>5, <2>3, <2>4, <2>5 DEF CheckSlot
<1>6. CASE StopReplaced
  <2>1. SlotCore' /\ (call'.step \notin Starting => StartKnows')
    BY <1>6, TidyingKeepsTheSlot DEF StopReplaced, Tidied
  <2>2. CASE Replaced /\ Goto("warm")
    <3>1. Live' = {} /\ ~Closed' /\ call'.step = "warm"
      BY <1>6, <2>2 DEF StopReplaced, Replaced, SlotInv, StartKnows, Starting, At, Goto, TypeOK,
                        Live, Finished, Closed
    <3> QED BY <2>1, <3>1 DEF SlotInv, StartKnows, At
  <2>3. CASE Answer
    BY <1>b, <2>1, <2>3 DEF Answer, Starting, SlotInv
  <2> QED BY <1>6, <2>2, <2>3 DEF StopReplaced
<1>7. ASSUME NEW s \in Searches, Warm(s)
      PROVE  SlotInv'
  <2>1. CASE Answer /\ UNCHANGED <<phase, batch, key, retained, index, slot>>
    BY <1>7, <1>a, <1>b, <2>1 DEF Warm, Answer, Starting
  <2>2. CASE phase' = [phase EXCEPT ![s] = "published"] /\ ~Closed
    <3>1. /\ phase[s] = "unborn" /\ retained' = retained \cup {s} /\ slot' = s
          /\ call'.step = "launch" /\ call'.search = s /\ phase'[s] = "published"
      BY <1>7, <2>2 DEF Warm, TypeOK
    <3>2. Live = {}
      BY <1>7 DEF Warm, SlotInv, StartKnows, At
    <3>3. Live' = {} /\ ~Closed'
      BY <1>7, <2>2, <3>2 DEF Warm, Live, Closed, TypeOK
    <3>4. (Started \ Finished)' \subseteq retained'
      BY <2>2, <3>1 DEF SlotInv, SlotCore, LiveSearchIsReachable, Started, Finished, TypeOK
    <3> QED BY <3>1, <3>3, <3>4 DEF SlotInv, SlotCore, StartKnows, OneLiveSearch,
                                    LiveSearchIsReachable, At
  <2> QED BY <1>7, <2>1, <2>2 DEF Warm
<1>8. CASE Launch
  <2> DEFINE s == call.search
  <2>1. /\ s \in retained /\ s \in Searches /\ slot = s /\ phase[s] = "published"
        /\ Live = {} /\ ~Closed /\ ~Closed'
    BY <1>8 DEF Launch, SlotInv, StartKnows, Starting, At, TypeOK, Closed
  <2>2. StartKnows'
    BY <1>8, <1>b DEF Launch, Answer, StartKnows, Starting, At
  <2>3. CASE phase' = [phase EXCEPT ![s] = "live"] /\ UNCHANGED <<retained, index, slot>>
    <3>1. Live' = {s}
      BY <2>1, <2>3 DEF Live, TypeOK
    <3>2. (Started \ Finished)' \subseteq retained'
      BY <2>1, <2>3 DEF SlotInv, SlotCore, LiveSearchIsReachable, Started, Finished, TypeOK
    <3> QED BY <2>1, <2>2, <2>3, <3>1, <3>2 DEF SlotInv, SlotCore, OneLiveSearch,
                                                LiveSearchIsReachable
  <2>4. CASE phase' = [phase EXCEPT ![s] = "void"] /\ retained' = retained \ {s}
    <3>1. Live' = {}
      BY <2>1, <2>4 DEF Live, TypeOK
    <3>2. (Started \ Finished)' \subseteq retained'
      BY <2>1, <2>4 DEF SlotInv, SlotCore, LiveSearchIsReachable, Started, Finished, TypeOK
    <3> QED BY <2>1, <2>2, <3>1, <3>2 DEF SlotInv, SlotCore, OneLiveSearch,
                                          LiveSearchIsReachable
  <2> QED BY <1>8, <2>3, <2>4 DEF Launch
<1>9. ASSUME NEW s \in Searches, StopLook(s)
      PROVE  SlotInv'
  BY <1>9, <1>a, <1>b DEF StopLook, Answer, Starting
<1>10. CASE StopReturns
  BY <1>10, <1>a, <1>b DEF StopReturns, Answer, Starting
<1>11. CASE CallRearms
  <2>1. call'.step \notin Starting
    BY <1>11 DEF CallRearms, Goto, TypeOK, Starting
  <2> QED BY <1>11, <1>a, <2>1 DEF CallRearms
<1>12. CASE Close
  <2>1. slot' = NoSearch /\ Closed' /\ UNCHANGED <<phase, retained, call>>
    BY <1>12 DEF Close, Closed
  <2>2. call'.step \notin Starting
    BY <1>12 DEF Close, LifecycleFree, Starting
  <2> QED BY <2>1, <2>2 DEF SlotInv, SlotCore, StartKnows, OneLiveSearch, LiveSearchIsReachable,
                            Live, Started, Finished, Starting, At
<1>13. CASE ShutdownStopReturns \/ ShutdownWipes
  <2>1. (Closed' <=> Closed) /\ UNCHANGED <<phase, retained, slot, call>>
    BY <1>13 DEF ShutdownStopReturns, ShutdownWipes, Closed
  <2> QED BY <2>1 DEF SlotInv, SlotCore, StartKnows, OneLiveSearch, LiveSearchIsReachable,
                      Live, Started, Finished, At
<1>14. ASSUME NEW s \in Searches, Ends(s) \/ Winds(s)
       PROVE  SlotInv'
  <2>1. /\ phase[s] \in Phases \ {"unborn", "published", "void", "finished"}
        /\ phase' = [phase EXCEPT ![s] = phase'[s]]
        /\ phase'[s] \in Phases \ {"unborn", "published", "void", "live"}
        /\ UNCHANGED <<closing, call>>
    BY <1>14 DEF Ends, Winds, Marks, Releases, WorkerPrunes, WorkerRearms, Finishes, Advance,
                 TypeOK, Phases
  <2>2. /\ retained' \subseteq retained
        /\ \A u \in retained \ retained' : phase[u] = "finished"
        /\ slot' \in {slot, NoSearch}
        /\ slot \in retained /\ phase'[slot] \in {"published", "live"} => slot' = slot
    <3>1. CASE WorkerPrunes(s)
      BY <2>1, <3>1, PruneTidies DEF WorkerPrunes, Tidied, TypeOK
    <3>2. CASE Releases(s)
      BY <2>1, <3>2 DEF Releases, SlotAfter
    <3>3. CASE Ends(s) \/ Marks(s) \/ WorkerRearms(s) \/ Finishes(s)
      BY <3>3 DEF Ends, Marks, WorkerRearms, Finishes
    <3> QED BY <1>14, <3>1, <3>2, <3>3 DEF Winds
  <2>3. Live' \subseteq Live /\ (Closed' <=> Closed) /\ Live \subseteq retained
    BY <2>1 DEF Live, Closed, SlotInv, SlotCore, LiveSearchIsReachable, Started, Finished, TypeOK
  <2>4. (Started \ Finished)' \subseteq retained'
    BY <2>1, <2>2 DEF SlotInv, SlotCore, LiveSearchIsReachable, Started, Finished, TypeOK
  <2>5. ~Closed' => Live' \subseteq {slot'}
    BY <2>2, <2>3 DEF SlotInv, SlotCore, LiveSearchIsReachable, Live
  <2>6. SlotCore'
    BY <2>2, <2>3, <2>4, <2>5 DEF SlotInv, SlotCore, LiveSearchIsReachable, OneLiveSearch
  <2>7. At("launch") => /\ call.search \in retained' /\ slot' = call.search
                        /\ phase'[call.search] = "published"
    BY <2>1, <2>2 DEF SlotInv, StartKnows, TypeOK
  <2> QED BY <2>1, <2>3, <2>6, <2>7 DEF SlotInv, StartKnows, At
<1>15. ASSUME NEW h \in Threads, Asks(h) \/ ThreadRearms(h) \/ RunPruneTimer(h)
       PROVE  SlotInv'
  BY <1>15, <1>a DEF Asks, ThreadRearms, RunPruneTimer
<1>16. ASSUME NEW h \in Threads, ThreadPrunes(h)
       PROVE  SlotInv'
  BY <1>16, PruneTidies, TidyingKeepsTheSlot DEF ThreadPrunes, SlotInv
<1>17. ASSUME NEW h \in Threads, Looks(h)
       PROVE  SlotInv'
  BY <1>17, LookUpTidies, TidyingKeepsTheSlot DEF Looks, SlotInv
<1>18. CASE TimerFires \/ Tick
  BY <1>18, <1>a DEF TimerFires, Tick
<1>19. CASE UNCHANGED vars
  BY <1>19, <1>a DEF vars
<1> QED
  BY <1>1, <1>2, <1>3, <1>4, <1>5, <1>6, <1>7, <1>8, <1>9, <1>10, <1>11, <1>12, <1>13,
     <1>14, <1>15, <1>16, <1>17, <1>18, <1>19
     DEF Next, TargetStep, StartStep, StopStep, ShutdownStep, WorkerStep, ThreadStep, ThreadWorks
-----------------------------------------------------------------------------
(* The request ids.  A start has found its id unused, and the lifecycle    *)
(* lock keeps it so until the new search is published.                     *)
KeyInv ==
  /\ RetriesFindTheirSearch
  /\ call.step \in {"check", "replace", "warm"} /\ call.key # NoKey
       => index[call.key] = NoSearch

LEMMA PruneKeepsKeys ==
  ASSUME TypeOK, KeyInv, Prune, UNCHANGED <<key, closing>>
  PROVE  RetriesFindTheirSearch'
<1>1. PICK gone \in SUBSET (retained \cap Finished) :
        /\ retained' = retained \ gone
        /\ index' = [k \in Keys |-> IF index[k] \in gone THEN NoSearch ELSE index[k]]
  BY PruneForgetsFinished
<1>2. ASSUME ~Closed', NEW s \in retained', key'[s] # NoKey
      PROVE  index'[key'[s]] = s
  BY <1>1, <1>2 DEF KeyInv, RetriesFindTheirSearch, TypeOK, Closed
<1> QED BY <1>1, <1>2 DEF KeyInv, RetriesFindTheirSearch

LEMMA InitKeys == Init => KeyInv
BY DEF Init, KeyInv, RetriesFindTheirSearch, NoCall, Call

LEMMA NextKeys == TypeOK /\ SlotInv /\ KeyInv /\ [Next]_vars => KeyInv'
<1> SUFFICES ASSUME TypeOK, SlotInv, KeyInv, [Next]_vars
             PROVE  KeyInv'
  OBVIOUS
<1> USE DEF callerVars, searchVars, othersUnchanged
<1>a. ASSUME UNCHANGED <<key, retained, index>>, Closed => Closed',
             call'.step \notin {"check", "replace", "warm"} \/ UNCHANGED call
      PROVE  KeyInv'
  BY <1>a DEF KeyInv, RetriesFindTheirSearch
<1>b. /\ NoCall.step = "idle"
      /\ \A s, k, b : /\ Call("stop_wait", s, k, b).step = "stop_wait"
                      /\ Call("check", s, k, b).key = k
  BY DEF NoCall, Call
<1>1. ASSUME NEW t \in Targets, Analyse(t) \/ Enrol(t) \/ RefuseTarget(t) \/ DeleteTarget(t)
      PROVE  KeyInv'
  BY <1>1, <1>a, LookUps DEF Analyse, Enrol, RefuseTarget, DeleteTarget, Closed
<1>2. CASE StartCall \/ StopCall
  <2>1. call'.step \in {"rearm", "stop_rearm"}
    BY <1>2 DEF StartCall, StopCall, Goto, TypeOK
  <2> QED BY <1>2, <2>1, PruneKeepsKeys DEF StartCall, StopCall, KeyInv
<1>3. ASSUME NEW k \in Keys \cup {NoKey}, NEW b \in SUBSET Targets, EnterStart(k, b)
      PROVE  KeyInv'
  <2>1. CASE Answer /\ index' = index
    BY <1>3, <1>a, <1>b, <2>1 DEF EnterStart, Answer, Closed
  <2>2. CASE ~(Answer /\ index' = index)
    <3>1. AnsweredBy(k) = NoSearch
      BY <1>3, <2>2, LookUps DEF EnterStart
    <3>2. index' = index /\ (k # NoKey => index[k] = NoSearch)
      BY <1>3, <2>2, <3>1, LookUps DEF EnterStart, AnsweredBy, TypeOK
    <3>3. Answer \/ call' = Call("check", NoSearch, k, b)
      BY <1>3, <2>2, <3>1 DEF EnterStart
    <3>4. call'.step \in {"check", "replace", "warm"} /\ call'.key # NoKey
            => index'[call'.key] = NoSearch
      BY <1>b, <3>2, <3>3 DEF Answer
    <3> QED BY <1>3, <3>2, <3>4 DEF EnterStart, KeyInv, RetriesFindTheirSearch, Closed
  <2> QED BY <2>1, <2>2
<1>4. CASE CheckSlot \/ StopReplaced
  <2>1. index' = index /\ UNCHANGED <<key, retained, closing>>
    BY <1>4, LookUps DEF CheckSlot, StopReplaced
  <2>2. call'.step = "idle" \/ (call'.key = call.key /\ call.step \in {"check", "replace"})
    BY <1>4, <1>b DEF CheckSlot, StopReplaced, Answer, Goto, At, TypeOK
  <2> QED BY <2>1, <2>2 DEF KeyInv, RetriesFindTheirSearch, Closed
<1>5. ASSUME NEW s \in Searches, Warm(s)
      PROVE  KeyInv'
  <2>1. CASE Answer /\ UNCHANGED <<phase, batch, key, retained, index, slot>>
    BY <1>5, <1>a, <1>b, <2>1 DEF Warm, Answer, Closed
  <2>2. CASE /\ key' = [key EXCEPT ![s] = call.key] /\ retained' = retained \cup {s}
             /\ index' = IF call.key = NoKey THEN index ELSE [index EXCEPT ![call.key] = s]
             /\ call' = [call EXCEPT !.step = "launch", !.search = s]
    <3> DEFINE k == call.key
    <3>1. call'.step = "launch" /\ k \in Keys \cup {NoKey} /\ s \in Searches
      BY <2>2 DEF TypeOK
    <3>2. ~Closed /\ (k # NoKey => index[k] = NoSearch)
      BY <1>5 DEF Warm, SlotInv, StartKnows, Starting, At, KeyInv
    <3>3. \A u \in retained : key[u] # NoKey => index[key[u]] = u /\ key[u] \in Keys
      BY <3>2 DEF KeyInv, RetriesFindTheirSearch, TypeOK
    <3>4. \A u \in retained : key[u] # NoKey => key[u] # k
      BY <3>2, <3>3, IdsAssumption DEF TypeOK
    <3>5. /\ key'[s] = k /\ \A u \in retained \ {s} : key'[u] = key[u]
          /\ k # NoKey => index'[k] = s
          /\ \A j \in Keys \ {k} : index'[j] = index[j]
      BY <2>2, <3>1 DEF TypeOK
    <3>6. \A u \in retained' : key'[u] # NoKey => index'[key'[u]] = u
      BY <2>2, <3>3, <3>4, <3>5
    <3> QED BY <3>1, <3>6 DEF KeyInv, RetriesFindTheirSearch
  <2> QED BY <1>5, <2>1, <2>2 DEF Warm
<1>6. CASE Launch
  <2>1. /\ call'.step = "idle" /\ UNCHANGED <<key, closing>>
        /\ \/ UNCHANGED <<retained, index>>
           \/ retained' = retained \ {call.search} /\ index' = IndexWithout(call.search)
    BY <1>6, <1>b DEF Launch, Answer
  <2> QED BY <2>1 DEF KeyInv, RetriesFindTheirSearch, IndexWithout, TypeOK, Closed
<1>7. ASSUME NEW s \in Searches, StopLook(s)
      PROVE  KeyInv'
  BY <1>7, <1>a, <1>b DEF StopLook, Answer, Closed
<1>8. CASE StopReturns
  BY <1>8, <1>a, <1>b DEF StopReturns, Answer, Closed
<1>9. CASE CallRearms
  <2>1. call'.step \in {"enter", "stop_look"}
    BY <1>9 DEF CallRearms, Goto, TypeOK
  <2> QED BY <1>9, <1>a, <2>1 DEF CallRearms, Closed
<1>10. CASE Close
  <2>1. Closed' /\ index' = [k \in Keys |-> NoSearch] /\ UNCHANGED <<key, retained, call>>
    BY <1>10 DEF Close, Closed
  <2>2. call.step \notin {"check", "replace", "warm"}
    BY <1>10 DEF Close, LifecycleFree
  <2> QED BY <2>1, <2>2 DEF KeyInv, RetriesFindTheirSearch
<1>11. CASE ShutdownStopReturns \/ ShutdownWipes
  BY <1>11, <1>a DEF ShutdownStopReturns, ShutdownWipes, Closed
<1>12. ASSUME NEW s \in Searches,
              Ends(s) \/ Marks(s) \/ Releases(s) \/ WorkerRearms(s) \/ Finishes(s)
       PROVE  KeyInv'
  BY <1>12, <1>a DEF Ends, Marks, Releases, WorkerRearms, Finishes, Closed
<1>13. ASSUME NEW s \in Searches, WorkerPrunes(s)
       PROVE  KeyInv'
  <2>1. RetriesFindTheirSearch' /\ UNCHANGED call
    BY <1>13, PruneKeepsKeys DEF WorkerPrunes
  <2>2. \A k \in Keys : index[k] = NoSearch => index'[k] = NoSearch
    BY <1>13, PruneForgetsFinished DEF WorkerPrunes
  <2> QED BY <2>1, <2>2 DEF KeyInv, TypeOK
<1>14. ASSUME NEW h \in Threads, Asks(h) \/ ThreadRearms(h) \/ RunPruneTimer(h)
       PROVE  KeyInv'
  BY <1>14, <1>a DEF Asks, ThreadRearms, RunPruneTimer, Closed
<1>15. ASSUME NEW h \in Threads, ThreadPrunes(h)
       PROVE  KeyInv'
  <2>1. RetriesFindTheirSearch' /\ UNCHANGED call
    BY <1>15, PruneKeepsKeys DEF ThreadPrunes
  <2>2. \A k \in Keys : index[k] = NoSearch => index'[k] = NoSearch
    BY <1>15, PruneForgetsFinished DEF ThreadPrunes
  <2> QED BY <2>1, <2>2 DEF KeyInv, TypeOK
<1>16. ASSUME NEW h \in Threads, Looks(h)
       PROVE  KeyInv'
  <2>1. index' = index
    BY <1>16, LookUps DEF Looks
  <2> QED BY <1>16, <1>a, <2>1 DEF Looks, Closed
<1>17. CASE TimerFires \/ Tick
  BY <1>17, <1>a DEF TimerFires, Tick, Closed
<1>18. CASE UNCHANGED vars
  BY <1>18, <1>a DEF vars, Closed
<1> QED
  BY <1>1, <1>2, <1>3, <1>4, <1>5, <1>6, <1>7, <1>8, <1>9, <1>10, <1>11, <1>12, <1>13,
     <1>14, <1>15, <1>16, <1>17, <1>18
     DEF Next, TargetStep, StartStep, StopStep, ShutdownStep, WorkerStep, Winds, ThreadStep,
         ThreadWorks
-----------------------------------------------------------------------------
(* The targets.  What a search or a start holds was enrolled once, can     *)
(* only leave, and has left when the search's callback released it.        *)
Past == {"released", "pruned", "rearmed", "told", "finished"}
TargetInv ==
  /\ \A s \in Searches : \A t \in batch[s] :
       /\ target[t] \in {"enrolled", "gone"}
       /\ phase[s] \in Past => target[t] = "gone"
  /\ \A t \in call.batch : target[t] \in {"enrolled", "gone"}
  /\ closing = "down" => Enrolled = {}

(* The only ways of a target that a search may hold.                       *)
OnlyLeave ==
  /\ \A t \in Targets : /\ target[t] = "gone" => target'[t] = "gone"
                        /\ target[t] = "enrolled" => target'[t] \in {"enrolled", "gone"}
  /\ closing' = "down" => \A t \in Targets : target'[t] # "enrolled"

LEMMA LeavingKeepsTargetInv ==
  ASSUME TypeOK, TargetInv, OnlyLeave, UNCHANGED batch, call'.batch \in {call.batch, {}},
         \A s \in Searches : phase'[s] \in Past /\ phase[s] \notin Past =>
           \A t \in batch[s] : target'[t] = "gone"
  PROVE  TargetInv'
<1>1. ASSUME NEW s \in Searches, NEW t \in batch[s]
      PROVE  /\ target'[t] \in {"enrolled", "gone"}
             /\ phase'[s] \in Past => target'[t] = "gone"
  <2>1. t \in Targets
    BY <1>1 DEF TypeOK
  <2> QED BY <1>1, <2>1 DEF TargetInv, OnlyLeave
<1>2. ASSUME NEW t \in call'.batch
      PROVE  target'[t] \in {"enrolled", "gone"}
  <2>1. t \in Targets
    BY <1>2 DEF TypeOK
  <2> QED BY <1>2, <2>1 DEF TargetInv, OnlyLeave
<1>3. closing' = "down" => Enrolled' = {}
  BY DEF OnlyLeave, Enrolled
<1> QED BY <1>1, <1>2, <1>3 DEF TargetInv

LEMMA InitTargets == Init => TargetInv
BY DEF Init, TargetInv, NoCall, Call

LEMMA NextTargets == TypeOK /\ SlotInv /\ TargetInv /\ [Next]_vars => TargetInv'
<1> SUFFICES ASSUME TypeOK, SlotInv, TargetInv, [Next]_vars
             PROVE  TargetInv'
  OBVIOUS
<1> USE DEF callerVars, searchVars, othersUnchanged
<1>a. ASSUME UNCHANGED <<target, batch>>, closing' = closing \/ closing' # "down",
             call'.batch \in {call.batch, {}},
             \A s \in Searches : phase'[s] \in Past => phase[s] \in Past
      PROVE  TargetInv'
  <2>1. OnlyLeave
    BY <1>a DEF OnlyLeave, TargetInv, Enrolled
  <2> QED BY <1>a, <2>1, LeavingKeepsTargetInv
<1>b. /\ NoCall.batch = {}
      /\ \A s, k, b : /\ Call("stop_wait", s, k, b).batch = b
                      /\ Call("check", s, k, b).batch = b
  BY DEF NoCall, Call
<1>1. ASSUME NEW t \in Targets, Analyse(t) \/ RefuseTarget(t) \/ DeleteTarget(t)
      PROVE  TargetInv'
  <2>1. /\ \A u \in Targets : target[u] = "gone" => target'[u] = "gone"
        /\ \A u \in Targets : target[u] = "enrolled" => target'[u] \in {"enrolled", "gone"}
        /\ \A u \in Targets : target'[u] = "enrolled" => target[u] = "enrolled"
    BY <1>1 DEF Analyse, RefuseTarget, DeleteTarget, TypeOK
  <2>2. OnlyLeave
    BY <1>1, <2>1 DEF Analyse, RefuseTarget, DeleteTarget, OnlyLeave, TargetInv, Enrolled
  <2> QED BY <1>1, <2>2, LeavingKeepsTargetInv DEF Analyse, RefuseTarget, DeleteTarget
<1>2. ASSUME NEW t \in Targets, Enrol(t)
      PROVE  TargetInv'
  <2>1. OnlyLeave
    BY <1>2 DEF Enrol, MayEnrol, Closed, OnlyLeave, TypeOK
  <2> QED BY <1>2, <2>1, LeavingKeepsTargetInv DEF Enrol
<1>3. CASE StartCall \/ StopCall \/ CallRearms
  <2>1. call'.batch = call.batch
    BY <1>3 DEF StartCall, StopCall, CallRearms, Goto, TypeOK
  <2> QED BY <1>3, <1>a, <2>1 DEF StartCall, StopCall, CallRearms
<1>4. ASSUME NEW k \in Keys \cup {NoKey}, NEW b \in SUBSET Targets, EnterStart(k, b)
      PROVE  TargetInv'
  <2>1. CASE Answer
    BY <1>4, <1>a, <1>b, <2>1 DEF EnterStart, Answer
  <2>2. CASE ~Answer
    <3>1. b \subseteq Enrolled /\ call' = Call("check", NoSearch, k, b)
      BY <1>4, <2>2 DEF EnterStart
    <3>2. \A t \in call'.batch : target'[t] \in {"enrolled", "gone"}
      BY <1>4, <1>b, <3>1 DEF EnterStart, Enrolled
    <3> QED BY <1>4, <3>2 DEF EnterStart, TargetInv, Enrolled
  <2> QED BY <2>1, <2>2
<1>5. CASE CheckSlot \/ StopReplaced \/ StopReturns
  <2>1. call'.batch \in {call.batch, {}}
    BY <1>5, <1>b DEF CheckSlot, StopReplaced, StopReturns, Answer, Goto, TypeOK
  <2> QED BY <1>5, <1>a, <2>1 DEF CheckSlot, StopReplaced, StopReturns
<1>6. ASSUME NEW s \in Searches, Warm(s)
      PROVE  TargetInv'
  <2>1. CASE Answer /\ UNCHANGED <<phase, batch, key, retained, index, slot>>
    BY <1>6, <1>a, <1>b, <2>1 DEF Warm, Answer
  <2>2. CASE /\ batch' = [batch EXCEPT ![s] = call.batch]
             /\ phase' = [phase EXCEPT ![s] = "published"]
             /\ call' = [call EXCEPT !.step = "launch", !.search = s]
    <3>1. /\ batch'[s] = call.batch /\ phase'[s] = "published" /\ call'.batch = call.batch
          /\ \A u \in Searches \ {s} : batch'[u] = batch[u] /\ phase'[u] = phase[u]
      BY <2>2 DEF TypeOK
    <3>2. phase'[s] \notin Past
      BY <3>1 DEF Past
    <3>3. target' = target /\ closing' = closing
      BY <1>6 DEF Warm
    <3> QED BY <3>1, <3>2, <3>3 DEF TargetInv, Enrolled
  <2> QED BY <1>6, <2>1, <2>2 DEF Warm
<1>7. CASE Launch
  <2>1. \A s \in Searches : phase'[s] \in Past => phase[s] \in Past
    BY <1>7 DEF Launch, TypeOK, Past
  <2> QED BY <1>7, <1>a, <1>b, <2>1 DEF Launch, Answer
<1>8. ASSUME NEW s \in Searches, StopLook(s)
      PROVE  TargetInv'
  BY <1>8, <1>a, <1>b DEF StopLook, Answer
<1>9. CASE Close \/ ShutdownStopReturns
  <2>1. closing' # "down"
    BY <1>9 DEF Close, ShutdownStopReturns
  <2> QED BY <1>9, <1>a, <2>1 DEF Close, ShutdownStopReturns
<1>10. CASE ShutdownWipes
  <2>1. OnlyLeave
    BY <1>10 DEF ShutdownWipes, OnlyLeave, TypeOK
  <2> QED BY <1>10, <2>1, LeavingKeepsTargetInv DEF ShutdownWipes
<1>11. ASSUME NEW s \in Searches, Releases(s)
       PROVE  TargetInv'
  <2>1. \A t \in Targets : target'[t] = IF t \in batch[s] /\ target[t] = "enrolled"
                                        THEN "gone" ELSE target[t]
    BY <1>11 DEF Releases, Spent
  <2>2. OnlyLeave
    BY <1>11, <2>1 DEF Releases, OnlyLeave, TargetInv, Enrolled
  <2>3. \A t \in batch[s] : target'[t] = "gone"
    BY <1>11, <2>1 DEF TargetInv, TypeOK
  <2>4. \A u \in Searches \ {s} : phase'[u] = phase[u]
    BY <1>11 DEF Releases, Advance, TypeOK
  <2> QED BY <1>11, <2>2, <2>3, <2>4, LeavingKeepsTargetInv DEF Releases
<1>12. ASSUME NEW s \in Searches,
              Ends(s) \/ Marks(s) \/ WorkerPrunes(s) \/ WorkerRearms(s) \/ Finishes(s)
       PROVE  TargetInv'
  <2>1. \A u \in Searches : phase'[u] \in Past => phase[u] \in Past
    BY <1>12 DEF Ends, Marks, WorkerPrunes, WorkerRearms, Finishes, Advance, TypeOK, Past
  <2> QED BY <1>12, <1>a, <2>1 DEF Ends, Marks, WorkerPrunes, WorkerRearms, Finishes
<1>13. ASSUME NEW h \in Threads, Asks(h) \/ ThreadWorks(h) \/ RunPruneTimer(h)
       PROVE  TargetInv'
  BY <1>13, <1>a DEF Asks, ThreadWorks, ThreadPrunes, ThreadRearms, Looks, RunPruneTimer
<1>14. CASE TimerFires \/ Tick
  BY <1>14, <1>a DEF TimerFires, Tick
<1>15. CASE UNCHANGED vars
  BY <1>15, <1>a DEF vars
<1> QED
  BY <1>1, <1>2, <1>3, <1>4, <1>5, <1>6, <1>7, <1>8, <1>9, <1>10, <1>11, <1>12, <1>13,
     <1>14, <1>15
     DEF Next, TargetStep, StartStep, StopStep, ShutdownStep, WorkerStep, Winds, ThreadStep

-----------------------------------------------------------------------------
(* The janitor.  Whoever has pruned rearms the timer next, and a rearmed   *)
(* timer is near as long as a search that has run its callback is kept.    *)

LEMMA InitJanitor == Init => JanitorWillCome
BY DEF Init, JanitorWillCome

LEMMA NextJanitor == TypeOK /\ SlotInv /\ JanitorWillCome /\ [Next]_vars => JanitorWillCome'
<1> SUFFICES ASSUME TypeOK, SlotInv, JanitorWillCome, [Next]_vars
             PROVE  JanitorWillCome'
  OBVIOUS
<1> USE DEF callerVars, searchVars, othersUnchanged
<1> DEFINE due == \E s \in retained : phase[s] \in {"told", "finished"}
           near == timer.state # "none" /\ timer.due <= now + MaxDelay
<1>a. ASSUME Pruning'
      PROVE  JanitorWillCome'
  BY <1>a DEF JanitorWillCome
<1>b. ASSUME due' => due, ~Closed' => ~Closed, Pruning => Pruning', near => near'
      PROVE  JanitorWillCome'
  BY <1>b DEF JanitorWillCome
<1>c. ASSUME timer' = Rearmed, UNCHANGED <<now, retained, closing>>,
             \A s \in retained : phase'[s] \in {"told", "finished"} => s \in Marked
      PROVE  JanitorWillCome'
  BY <1>c, RearmedIsNear DEF JanitorWillCome, Closed
<1>1. CASE TargetStep
  BY <1>1, <1>b DEF TargetStep, Analyse, Enrol, RefuseTarget, DeleteTarget, Closed, Pruning
<1>2. CASE StartCall \/ StopCall
  <2>1. call'.step \in {"rearm", "stop_rearm"}
    BY <1>2 DEF StartCall, StopCall, Goto, TypeOK
  <2> QED BY <1>a, <2>1 DEF Pruning
<1>3. CASE CallRearms
  BY <1>3, <1>c DEF CallRearms, Marked, TypeOK
<1>4. ASSUME call.step \notin {"rearm", "stop_rearm"},
             UNCHANGED <<phase, retained, closing, pc, timer, now>>
      PROVE  JanitorWillCome'
  BY <1>4, <1>b DEF Pruning, Closed
<1>5. CASE (\E k \in Keys \cup {NoKey}, b \in SUBSET Targets \ {{}} : EnterStart(k, b))
           \/ CheckSlot \/ StopReplaced \/ StopReturns \/ (\E s \in Searches : StopLook(s))
  BY <1>5, <1>4 DEF EnterStart, CheckSlot, StopReplaced, StopReturns, StopLook, At
<1>6. ASSUME NEW s \in Searches, Warm(s)
      PROVE  JanitorWillCome'
  <2>1. CASE UNCHANGED <<phase, retained>>
    BY <1>6, <1>4, <2>1 DEF Warm, At
  <2>2. CASE phase' = [phase EXCEPT ![s] = "published"] /\ retained' = retained \cup {s}
    <3>1. phase'[s] = "published" /\ \A u \in Searches \ {s} : phase'[u] = phase[u]
      BY <2>2 DEF TypeOK
    <3>2. due' => due
      BY <2>2, <3>1 DEF TypeOK
    <3>3. Pruning => Pruning'
      BY <1>6, <3>1 DEF Warm, At, Pruning
    <3> QED BY <1>6, <1>b, <3>2, <3>3 DEF Warm, Closed
  <2> QED BY <1>6, <2>1, <2>2 DEF Warm
<1>7. CASE Launch
  <2>1. \A u \in Searches : phase'[u] = phase[u] \/ phase'[u] \in {"live", "void"}
    BY <1>7 DEF Launch, TypeOK
  <2>2. due' => due
    BY <1>7, <2>1 DEF Launch, TypeOK
  <2>3. phase[call.search] = "published"
    BY <1>7 DEF Launch, SlotInv, StartKnows
  <2>4. Pruning => Pruning'
    BY <1>7, <2>3 DEF Launch, At, Pruning, TypeOK
  <2> QED BY <1>7, <1>b, <2>2, <2>4 DEF Launch, Closed
<1>8. CASE Close
  BY <1>8 DEF Close, Closed, JanitorWillCome
<1>9. CASE ShutdownStopReturns \/ ShutdownWipes
  BY <1>9, <1>b DEF ShutdownStopReturns, ShutdownWipes, Closed, Pruning
<1>10. ASSUME NEW s \in Searches, Ends(s) \/ Marks(s) \/ Releases(s)
       PROVE  JanitorWillCome'
  <2>1. /\ phase[s] \in {"live", "ended", "marked"} /\ phase'[s] \in {"ended", "marked", "released"}
        /\ \A u \in Searches \ {s} : phase'[u] = phase[u]
    BY <1>10 DEF Ends, Marks, Releases, Advance, TypeOK
  <2>2. (due' => due) /\ (Pruning => Pruning')
    BY <1>10, <2>1 DEF Ends, Marks, Releases, Pruning, TypeOK
  <2> QED BY <1>10, <1>b, <2>2 DEF Ends, Marks, Releases, Closed
<1>11. ASSUME NEW s \in Searches, WorkerPrunes(s)
       PROVE  JanitorWillCome'
  <2>1. phase'[s] = "pruned"
    BY <1>11 DEF WorkerPrunes, Advance, TypeOK
  <2> QED BY <1>a, <2>1 DEF Pruning
<1>12. ASSUME NEW s \in Searches, WorkerRearms(s)
       PROVE  JanitorWillCome'
  <2>1. phase[s] \in {"pruned", "rearmed"} /\ \A u \in Searches \ {s} : phase'[u] = phase[u]
    BY <1>12 DEF WorkerRearms, Advance, TypeOK
  <2>2. CASE phase[s] = "pruned"
    <3>1. phase'[s] = "rearmed"
      BY <1>12, <2>2 DEF WorkerRearms, Advance, TypeOK
    <3> QED BY <1>a, <3>1 DEF Pruning
  <2>3. CASE phase[s] = "rearmed"
    <3>1. \A u \in retained : phase'[u] \in {"told", "finished"} => u \in Marked
      BY <2>1, <2>3 DEF Marked, TypeOK
    <3> QED BY <1>12, <1>c, <3>1 DEF WorkerRearms
  <2> QED BY <2>1, <2>2, <2>3
<1>13. ASSUME NEW s \in Searches, Finishes(s)
       PROVE  JanitorWillCome'
  <2>1. /\ phase[s] = "told" /\ phase'[s] = "finished"
        /\ \A u \in Searches \ {s} : phase'[u] = phase[u]
    BY <1>13 DEF Finishes, Advance, TypeOK
  <2>2. (due' => due) /\ (Pruning => Pruning')
    BY <1>13, <2>1 DEF Finishes, Pruning, TypeOK
  <2> QED BY <1>13, <1>b, <2>2 DEF Finishes, Closed
<1>14. ASSUME NEW h \in Threads, Asks(h) \/ ThreadPrunes(h) \/ RunPruneTimer(h)
       PROVE  JanitorWillCome'
  <2>1. pc'[h] \in {"prune", "rearm"}
    BY <1>14 DEF Asks, ThreadPrunes, RunPruneTimer, GotoStep, TypeOK
  <2> QED BY <1>a, <2>1 DEF Pruning
<1>15. ASSUME NEW h \in Threads, ThreadRearms(h)
       PROVE  JanitorWillCome'
  BY <1>15, <1>c DEF ThreadRearms, Marked, TypeOK
<1>16. ASSUME NEW h \in Threads, Looks(h)
       PROVE  JanitorWillCome'
  <2>1. pc[h] = "look" /\ \A g \in Threads \ {h} : pc'[g] = pc[g]
    BY <1>16 DEF Looks, GotoStep, TypeOK
  <2>2. Pruning => Pruning'
    BY <1>16, <2>1 DEF Looks, Pruning
  <2> QED BY <1>16, <1>b, <2>2 DEF Looks, Closed
<1>17. CASE TimerFires
  <2>1. timer'.state = "fired" /\ timer'.due = timer.due
    BY <1>17 DEF TimerFires, TypeOK
  <2> QED BY <1>17, <1>b, <2>1 DEF TimerFires, Closed, Pruning
<1>18. CASE Tick
  <2>1. near => near'
    BY <1>18, SettingsAssumption DEF Tick, TypeOK
  <2> QED BY <1>18, <1>b, <2>1 DEF Tick, Closed, Pruning
<1>19. CASE UNCHANGED vars
  BY <1>19, <1>b DEF vars, Closed, Pruning
<1> QED
  BY <1>1, <1>2, <1>3, <1>5, <1>6, <1>7, <1>8, <1>9, <1>10, <1>11, <1>12, <1>13, <1>14,
     <1>15, <1>16, <1>17, <1>18, <1>19
     DEF Next, StartStep, StopStep, ShutdownStep, WorkerStep, Winds, ThreadStep, ThreadWorks
-----------------------------------------------------------------------------
(* The theorems.                                                           *)
IInv == TypeOK /\ SlotInv /\ KeyInv /\ TargetInv /\ JanitorWillCome

LEMMA Inductive == Spec => []IInv
<1>1. Init => IInv
  BY InitTyped, InitSlot, InitKeys, InitTargets, InitJanitor DEF IInv
<1>2. IInv /\ [Next]_vars => IInv'
  BY NextTyped, NextSlot, NextKeys, NextTargets, NextJanitor DEF IInv
<1> QED BY <1>1, <1>2, PTL DEF Spec

(* The tables keep their shape: in particular the active slot and every    *)
(* request id lead to a search that is kept, or nowhere.                   *)
THEOREM TypeCorrect == Spec => []TypeOK
<1>1. IInv => TypeOK
  BY DEF IInv
<1> QED BY <1>1, Inductive, PTL

(* One search is live at a time, whatever stops time out, starts fail and  *)
(* callbacks come late.                                                    *)
THEOREM OneSearchAtATime == Spec => []OneLiveSearch
<1>1. IInv => OneLiveSearch
  BY DEF IInv, SlotInv, SlotCore
<1> QED BY <1>1, Inductive, PTL

(* A search whose worker runs is never forgotten, and is the active one    *)
(* until the manager closes.                                               *)
THEOREM LiveSearchStaysReachable == Spec => []LiveSearchIsReachable
<1>1. IInv => LiveSearchIsReachable
  BY DEF IInv, SlotInv, SlotCore
<1> QED BY <1>1, Inductive, PTL

(* A retry under a request id is answered with the search it began.        *)
THEOREM RetriesAreRecognised == Spec => []RetriesFindTheirSearch
<1>1. IInv => RetriesFindTheirSearch
  BY DEF IInv, KeyInv
<1> QED BY <1>1, Inductive, PTL

(* When a search has finished, none of the people it looked for is still   *)
(* enrolled.                                                               *)
THEOREM TargetsServeOnce == Spec => []SpentTargetsAreGone
<1>1. IInv => SpentTargetsAreGone
  BY DEF IInv, TargetInv, SpentTargetsAreGone, Finished, Past, Enrolled
<1> QED BY <1>1, Inductive, PTL

(* While a search that has run its callback is kept, a pruning pass is on  *)
(* its way: no kept search depends on somebody asking.                     *)
THEOREM JanitorAlwaysComes == Spec => []JanitorWillCome
<1>1. IInv => JanitorWillCome
  BY DEF IInv
<1> QED BY <1>1, Inductive, PTL

(* What a step of a closed manager may do to its tables.                   *)
Shrinks ==
  /\ Closed' /\ (closing = "down" => closing' = "down")
  /\ retained' \subseteq retained
  /\ \A t \in Targets : target'[t] = "enrolled" => target[t] = "enrolled"

LEMMA ClosedOnlyShrinks == TypeOK /\ SlotInv /\ Closed /\ [Next]_vars => Shrinks
<1> SUFFICES ASSUME TypeOK, SlotInv, Closed, [Next]_vars
             PROVE  Shrinks
  OBVIOUS
<1> USE DEF callerVars, searchVars, othersUnchanged
<1>a. ASSUME UNCHANGED <<target, closing>>, Prune \/ retained' = retained
      PROVE  Shrinks
  BY <1>a, PruneForgetsFinished DEF Shrinks, Closed
<1>1. ASSUME NEW t \in Targets, Analyse(t) \/ Enrol(t) \/ RefuseTarget(t) \/ DeleteTarget(t)
      PROVE  Shrinks
  BY <1>1 DEF Analyse, Enrol, MayEnrol, RefuseTarget, DeleteTarget, Shrinks, Closed, TypeOK
<1>2. CASE StartStep
  <2>1. call.step \notin Starting
    BY DEF SlotInv, StartKnows
  <2>2. StartCall \/ \E k \in Keys \cup {NoKey}, b \in SUBSET Targets \ {{}} : EnterStart(k, b)
    BY <1>2, <2>1 DEF StartStep, CheckSlot, StopReplaced, Warm, Launch, At, Starting
  <2> QED BY <2>2, <1>a DEF StartCall, EnterStart
<1>3. CASE StopStep \/ CallRearms
  BY <1>3, <1>a DEF StopStep, StopCall, StopLook, StopReturns, CallRearms
<1>4. CASE ShutdownStep
  BY <1>4 DEF ShutdownStep, Close, ShutdownStopReturns, ShutdownWipes, Shrinks, Closed
<1>5. ASSUME NEW s \in Searches, Releases(s)
      PROVE  Shrinks
  BY <1>5 DEF Releases, Shrinks, Closed
<1>6. ASSUME NEW s \in Searches,
             Ends(s) \/ Marks(s) \/ WorkerPrunes(s) \/ WorkerRearms(s) \/ Finishes(s)
      PROVE  Shrinks
  BY <1>6, <1>a DEF Ends, Marks, WorkerPrunes, WorkerRearms, Finishes
<1>7. ASSUME NEW h \in Threads, Asks(h) \/ ThreadWorks(h) \/ RunPruneTimer(h)
      PROVE  Shrinks
  BY <1>7, <1>a DEF Asks, ThreadWorks, ThreadPrunes, ThreadRearms, Looks, RunPruneTimer
<1>8. CASE TimerFires \/ Tick \/ UNCHANGED vars
  BY <1>8, <1>a DEF TimerFires, Tick, vars
<1> QED
  BY <1>1, <1>2, <1>3, <1>4, <1>5, <1>6, <1>7, <1>8
     DEF Next, TargetStep, WorkerStep, Winds, ThreadStep

(* After shutdown has closed the manager no step of a start, an enrolment  *)
(* or a callback that was under way adds anything.                         *)
THEOREM ClosedManagerStaysClosed == Spec => ClosedForGood
<1> DEFINE Shut == Closed => /\ Closed'
                             /\ retained' \subseteq retained /\ Enrolled' \subseteq Enrolled
                             /\ slot' = NoSearch
                             /\ closing = "down" => Enrolled' = {}
<1>1. ASSUME IInv, IInv', [Next]_vars, Closed
      PROVE  Shut
  <2>1. Shrinks
    BY <1>1, ClosedOnlyShrinks DEF IInv
  <2>2. slot' = NoSearch
    BY <1>1, <2>1 DEF IInv, SlotInv, SlotCore, Shrinks
  <2>3. closing = "down" => Enrolled' = {}
    BY <1>1, <2>1 DEF IInv, TargetInv, Shrinks
  <2> QED BY <2>1, <2>2, <2>3 DEF Shrinks, Enrolled
<1>2. IInv /\ IInv' /\ [Next]_vars => [Shut]_vars
  BY <1>1
<1> QED BY <1>2, Inductive, PTL DEF Spec, ClosedForGood
-----------------------------------------------------------------------------
(* The order of forgetting.  Only finitely many searches are ever kept, so *)
(* what a pass leaves of the finished ones can be counted.                 *)
Forgotten(s) ==
  \/ now - endedAt[s] >= Ttl
  \/ Cardinality({u \in retained' \cap Finished : endedAt[u] >= endedAt[s]}) >= MaxRetained

LEMMA PruneForgetsInOrder ==
  ASSUME TypeOK, IsFiniteSet(retained), Prune
  PROVE  /\ IsFiniteSet(retained')
         /\ \A s \in (retained \cap Finished) \ retained' : Forgotten(s)
<1> DEFINE kept == (retained \cap Finished) \ Expired
<1>1. PICK old \in Oldest(kept) : retained' = retained \ (Expired \cup old)
  BY DEF Prune, Prunable
<1>2. /\ old \subseteq kept /\ Cardinality(old) = Surplus(kept)
      /\ \A s \in old, u \in kept \ old : endedAt[s] <= endedAt[u]
  BY <1>1 DEF Oldest
<1>3. IsFiniteSet(retained') /\ IsFiniteSet(kept) /\ IsFiniteSet(old)
  BY <1>1, <1>2, FS_Subset
<1>4. MaxRetained \in Nat /\ Cardinality(kept) \in Nat
  BY <1>3, SettingsAssumption, FS_CardinalityType
<1>5. ASSUME NEW s \in old
      PROVE  Cardinality({u \in retained' \cap Finished : endedAt[u] >= endedAt[s]}) >= MaxRetained
  <2> DEFINE later == {u \in retained' \cap Finished : endedAt[u] >= endedAt[s]}
  <2>1. Cardinality(old) # 0
    BY <1>3, FS_EmptySet
  <2>2. Cardinality(old) = Cardinality(kept) - MaxRetained
    BY <1>2, <1>4, <2>1 DEF Surplus
  <2>3. Cardinality(kept \ old) = MaxRetained
    <3>1. kept \cap old = old
      BY <1>2
    <3>2. Cardinality(kept \ old) = Cardinality(kept) - Cardinality(kept \cap old)
      BY <1>3, FS_Difference
    <3> QED BY <1>4, <2>2, <3>1, <3>2
  <2>4. kept \ old \subseteq later
    <3>1. ASSUME NEW u \in kept \ old
          PROVE  u \in later
      <4>1. endedAt[s] \in Nat /\ endedAt[u] \in Nat /\ endedAt[s] <= endedAt[u]
        BY <1>2 DEF TypeOK
      <4>2. u \in retained' \cap Finished
        BY <1>1
      <4> QED BY <4>1, <4>2
    <3> QED BY <3>1
  <2>5. IsFiniteSet(later)
    BY <1>3, FS_Subset
  <2>6. Cardinality(kept \ old) <= Cardinality(later)
    BY <2>4, <2>5, FS_Subset
  <2>7. Cardinality(later) \in Nat
    BY <2>5, FS_CardinalityType
  <2> QED BY <1>4, <2>3, <2>6, <2>7
<1>6. ASSUME NEW s \in (retained \cap Finished) \ retained'
      PROVE  Forgotten(s)
  <2>1. s \in Expired \/ s \in old
    BY <1>1
  <2> QED BY <1>5, <2>1 DEF Forgotten, Expired
<1> QED BY <1>3, <1>6

LEMMA StepForgetsInOrder ==
  ASSUME TypeOK, SlotInv, IsFiniteSet(retained), [Next]_vars
  PROVE  /\ IsFiniteSet(retained')
         /\ \A s \in (retained \cap Finished) \ retained' : Forgotten(s)
<1> USE DEF callerVars, searchVars, othersUnchanged
<1> DEFINE InOrder == /\ IsFiniteSet(retained')
                      /\ \A s \in (retained \cap Finished) \ retained' : Forgotten(s)
<1>a. ASSUME retained' = retained \/ Prune
      PROVE  InOrder
  BY <1>a, PruneForgetsInOrder
<1>1. ASSUME NEW s \in Searches, Warm(s)
      PROVE  InOrder
  <2>1. retained' = retained \/ retained' = retained \cup {s}
    BY <1>1 DEF Warm
  <2> QED BY <2>1, FS_AddElement
<1>2. CASE Launch
  <2>1. retained' = retained \/ retained' = retained \ {call.search}
    BY <1>2 DEF Launch
  <2>2. call.search \notin Finished
    BY <1>2 DEF Launch, SlotInv, StartKnows, Finished
  <2> QED BY <2>1, <2>2, FS_RemoveElement
<1>3. CASE TargetStep
  BY <1>3, <1>a DEF TargetStep, Analyse, Enrol, RefuseTarget, DeleteTarget
<1>4. ASSUME NEW k \in Keys \cup {NoKey}, NEW b \in SUBSET Targets, EnterStart(k, b)
      PROVE  InOrder
  BY <1>4, <1>a DEF EnterStart
<1>5. CASE StartCall \/ CheckSlot \/ StopReplaced
  BY <1>5, <1>a DEF StartCall, CheckSlot, StopReplaced
<1>6. CASE StopStep \/ CallRearms \/ ShutdownStep
  BY <1>6, <1>a DEF StopStep, StopCall, StopLook, StopReturns, CallRearms, ShutdownStep, Close,
                    ShutdownStopReturns, ShutdownWipes
<1>7. ASSUME NEW s \in Searches, Ends(s) \/ Winds(s)
      PROVE  InOrder
  BY <1>7, <1>a DEF Ends, Winds, Marks, Releases, WorkerPrunes, WorkerRearms, Finishes
<1>8. ASSUME NEW h \in Threads, Asks(h) \/ ThreadWorks(h) \/ RunPruneTimer(h)
      PROVE  InOrder
  BY <1>8, <1>a DEF Asks, ThreadWorks, ThreadPrunes, ThreadRearms, Looks, RunPruneTimer
<1>9. CASE TimerFires \/ Tick \/ UNCHANGED vars
  BY <1>9, <1>a DEF TimerFires, Tick, vars
<1> QED
  BY <1>1, <1>2, <1>3, <1>4, <1>5, <1>6, <1>7, <1>8, <1>9
     DEF Next, StartStep, WorkerStep, ThreadStep

(* A finished search is forgotten only when its time is up, or when        *)
(* MaxRetained others that finished no earlier are kept.                   *)
THEOREM OldestAreForgottenFirst == Spec => ForgottenInOrder
<1>1. Init => IsFiniteSet(retained)
  BY FS_EmptySet DEF Init
<1>2. IInv /\ IsFiniteSet(retained) /\ [Next]_vars => IsFiniteSet(retained)'
  BY StepForgetsInOrder DEF IInv
<1>3. IInv /\ IsFiniteSet(retained) /\ [Next]_vars
        => [\A s \in (retained \cap Finished) \ retained' :
              \/ now - endedAt[s] >= Ttl
              \/ Cardinality({u \in retained' \cap Finished : endedAt[u] >= endedAt[s]})
                   >= MaxRetained]_vars
  BY StepForgetsInOrder DEF IInv, Forgotten
<1> QED BY <1>1, <1>2, <1>3, Inductive, PTL DEF Spec, ForgottenInOrder
-----------------------------------------------------------------------------
(* The registry its callers see.  The concrete state is read through       *)
(* abbreviations of the mapping; what a step may do to it is one of five.  *)
Life == [s \in Searches |-> LifeOf(s)]
Request == [s \in Searches |-> IF s \in Started THEN key[s] ELSE NoKey]
AnswerTo == [k \in Keys |-> IF index[k] \in Started THEN index[k] ELSE NoSearch]

(* A request id leads to a search that was published under it.             *)
IndexMeans ==
  \A k \in Keys : index[k] # NoSearch => key[index[k]] = k /\ phase[index[k]] # "unborn"

LEMMA InitIndex == Init => IndexMeans
BY DEF Init, IndexMeans

(* Request ids are given up, never given to another search; a search once  *)
(* published is not unborn again.                                          *)
LEMMA DroppingKeepsIndex ==
  ASSUME TypeOK, IndexMeans, UNCHANGED key,
         \A k \in Keys : index'[k] \in {index[k], NoSearch},
         \A s \in Searches : phase'[s] = "unborn" => phase[s] = "unborn"
  PROVE  IndexMeans'
BY IdsAssumption DEF IndexMeans, TypeOK

LEMMA PruneDrops ==
  ASSUME TypeOK, Prune
  PROVE  \A k \in Keys : index'[k] \in {index[k], NoSearch}
BY PruneForgetsFinished

LEMMA NextIndex == TypeOK /\ IndexMeans /\ [Next]_vars => IndexMeans'
<1> SUFFICES ASSUME TypeOK, IndexMeans, [Next]_vars
             PROVE  IndexMeans'
  OBVIOUS
<1> USE DEF callerVars, searchVars, othersUnchanged
<1>a. ASSUME UNCHANGED <<phase, key>>, Prune \/ UNCHANGED index
      PROVE  IndexMeans'
  BY <1>a, PruneDrops, DroppingKeepsIndex
<1>1. ASSUME NEW t \in Targets, Analyse(t) \/ Enrol(t) \/ RefuseTarget(t) \/ DeleteTarget(t)
      PROVE  IndexMeans'
  BY <1>1, <1>a, LookUps DEF Analyse, Enrol, RefuseTarget, DeleteTarget
<1>2. ASSUME NEW k \in Keys \cup {NoKey}, NEW b \in SUBSET Targets, EnterStart(k, b)
      PROVE  IndexMeans'
  <2>1. \A j \in Keys : index'[j] \in {index[j], NoSearch}
    BY <1>2, LookUps DEF EnterStart, TypeOK
  <2> QED BY <1>2, <2>1, DroppingKeepsIndex DEF EnterStart
<1>3. CASE StartCall \/ CheckSlot \/ StopReplaced
  BY <1>3, <1>a, LookUps DEF StartCall, CheckSlot, StopReplaced
<1>4. ASSUME NEW s \in Searches, Warm(s)
      PROVE  IndexMeans'
  <2>1. CASE UNCHANGED <<phase, key, index>>
    BY <2>1, <1>a
  <2>2. CASE /\ phase' = [phase EXCEPT ![s] = "published"]
             /\ key' = [key EXCEPT ![s] = call.key]
             /\ index' = IF call.key = NoKey THEN index ELSE [index EXCEPT ![call.key] = s]
    BY <1>4, <2>2, IdsAssumption DEF Warm, IndexMeans, TypeOK
  <2> QED BY <1>4, <2>1, <2>2 DEF Warm
<1>5. CASE Launch
  <2>1. \A k \in Keys : index'[k] \in {index[k], NoSearch}
    BY <1>5 DEF Launch, IndexWithout, TypeOK
  <2>2. \A u \in Searches : phase'[u] = "unborn" => phase[u] = "unborn"
    BY <1>5 DEF Launch, TypeOK
  <2> QED BY <1>5, <2>1, <2>2, DroppingKeepsIndex DEF Launch
<1>6. CASE StopStep \/ CallRearms
  BY <1>6, <1>a DEF StopStep, StopCall, StopLook, StopReturns, CallRearms
<1>7. CASE ShutdownStep
  BY <1>7, <1>a, DroppingKeepsIndex DEF ShutdownStep, Close, ShutdownStopReturns, ShutdownWipes
<1>8. ASSUME NEW s \in Searches,
             Ends(s) \/ Marks(s) \/ Releases(s) \/ WorkerPrunes(s) \/ WorkerRearms(s) \/ Finishes(s)
      PROVE  IndexMeans'
  <2>1. UNCHANGED key /\ \A u \in Searches : phase'[u] = "unborn" => phase[u] = "unborn"
    BY <1>8 DEF Ends, Marks, Releases, WorkerPrunes, WorkerRearms, Finishes, Advance, TypeOK
  <2>2. \A k \in Keys : index'[k] \in {index[k], NoSearch}
    BY <1>8, PruneDrops DEF Ends, Marks, Releases, WorkerPrunes, WorkerRearms, Finishes
  <2> QED BY <2>1, <2>2, DroppingKeepsIndex
<1>9. ASSUME NEW h \in Threads, Asks(h) \/ ThreadWorks(h) \/ RunPruneTimer(h)
      PROVE  IndexMeans'
  BY <1>9, <1>a, LookUps DEF Asks, ThreadWorks, ThreadPrunes, ThreadRearms, Looks, RunPruneTimer
<1>10. CASE TimerFires \/ Tick \/ UNCHANGED vars
  BY <1>10, <1>a DEF TimerFires, Tick, vars
<1> QED
  BY <1>1, <1>2, <1>3, <1>4, <1>5, <1>6, <1>7, <1>8, <1>9, <1>10
     DEF Next, TargetStep, StartStep, WorkerStep, Winds, ThreadStep

(* What is seen stays as it is: no step of the registry.                   *)
LEMMA RegistryIdles ==
  ASSUME UNCHANGED <<Life, Request, AnswerTo, Closed>>
  PROVE  UNCHANGED Registry!vars
BY DEF Registry!vars, Life, Request, AnswerTo

(* A step that moves no search over a boundary and leaves the tables alone *)
(* is none of the registry's.                                              *)
LEMMA NothingSeen ==
  ASSUME UNCHANGED <<Started, Live, Finished, key, retained, index, Closed>>
  PROVE  UNCHANGED Registry!vars
<1>1. UNCHANGED <<Life, Request, AnswerTo>>
  BY DEF Life, LifeOf, Request, AnswerTo
<1> QED BY <1>1, RegistryIdles

(* A pass of the pruning is a step of forgetting.                          *)
LEMMA PruneIsForgetting ==
  ASSUME TypeOK, Prune, UNCHANGED <<Started, Live, Finished, key, Closed>>
  PROVE  Registry!Next
<1>1. PICK gone \in SUBSET (retained \cap Finished) :
        /\ retained' = retained \ gone
        /\ index' = [k \in Keys |-> IF index[k] \in gone THEN NoSearch ELSE index[k]]
  BY PruneForgetsFinished
<1>2. /\ gone \in SUBSET Searches /\ gone \subseteq Started /\ gone \cap Live = {}
      /\ NoSearch \notin Started
  BY <1>1, IdsAssumption DEF Finished, Started, Live
<1>3. \A s \in gone : Life[s] = "settled"
  BY <1>1, <1>2 DEF Life, LifeOf
<1>4. Life' = [s \in Searches |-> IF s \in gone THEN "forgotten" ELSE Life[s]]
  <2>1. \A s \in Searches : LifeOf(s)' = IF s \in gone THEN "forgotten" ELSE LifeOf(s)
    BY <1>1, <1>2 DEF LifeOf
  <2> QED BY <2>1 DEF Life
<1>5. AnswerTo' = [k \in Keys |-> IF AnswerTo[k] \in gone THEN NoSearch ELSE AnswerTo[k]]
  BY <1>1, <1>2 DEF AnswerTo
<1>6. UNCHANGED Request
  BY DEF Request
<1>7. Registry!Forget(gone)
  BY <1>3, <1>4, <1>5, <1>6 DEF Registry!Forget, Life, Request, AnswerTo
<1> QED BY <1>2, <1>7 DEF Registry!Next

(* The worker of a search that was published is started: the registry's    *)
(* Begin, under the request id of the tables.                              *)
LEMMA LaunchBegins ==
  ASSUME IInv, IndexMeans, Launch
  PROVE  [Registry!Next]_Registry!vars
<1> USE DEF searchVars
<1>a. call.search \in Searches /\ key[call.search] \in Keys \cup {NoKey}
  BY DEF IInv, SlotInv, StartKnows, Launch, TypeOK
<1>b. PICK s \in Searches : s = call.search
  BY <1>a
<1>c. PICK k \in Keys \cup {NoKey} : k = key[s]
  BY <1>a, <1>b
<1>1. /\ At("launch") /\ s \in retained /\ slot = s /\ phase[s] = "published"
      /\ Live = {} /\ ~Closed /\ TypeOK /\ s # NoSearch
  BY <1>b, IdsAssumption DEF IInv, SlotInv, StartKnows, Launch, At, Starting
<1>2. UNCHANGED <<key, closing, Closed>>
  BY <1>1 DEF Launch, Closed
<1>3. s \notin Started /\ NoSearch \notin Started /\ Started \subseteq Searches
  BY <1>1, IdsAssumption DEF Started
<1>4. CASE phase' = [phase EXCEPT ![s] = "live"] /\ UNCHANGED <<retained, index, slot>>
  <2>1. Started' = Started \cup {s} /\ Live' = {s} /\ Finished' = Finished /\ s \notin Finished
    BY <1>1, <1>4 DEF Started, Live, Finished, TypeOK
  <2>2. Life[s] = "unborn" /\ \A u \in Searches : Life[u] # "running"
    BY <1>1, <1>3 DEF Life, LifeOf
  <2>3. Life' = [Life EXCEPT ![s] = "running"]
    <3>1. \A u \in Searches : LifeOf(u)' = IF u = s THEN "running" ELSE LifeOf(u)
      BY <1>1, <1>4, <2>1 DEF LifeOf
    <3> QED BY <3>1 DEF Life
  <2>4. Request' = [Request EXCEPT ![s] = k]
    BY <1>c, <1>1, <1>2, <2>1 DEF Request
  <2>5. \A j \in Keys : index[j] = s <=> j = k
    <3>1. \A j \in Keys : index[j] = s => j = k
      BY <1>c, <1>1 DEF IndexMeans
    <3>2. k # NoKey => index[k] = s
      BY <1>c, <1>1 DEF IInv, KeyInv, RetriesFindTheirSearch
    <3> QED BY <3>1, <3>2, IdsAssumption
  <2>6. AnswerTo' = [j \in Keys |-> IF j = k THEN s ELSE AnswerTo[j]]
    BY <1>4, <2>1, <2>5 DEF AnswerTo
  <2>7. ASSUME k # NoKey
        PROVE  AnswerTo[k] = NoSearch /\ \A u \in Registry!Kept : Request[u] # k
    <3>1. AnswerTo[k] = NoSearch
      BY <1>2, <1>3, <2>5, <2>7 DEF AnswerTo
    <3>2. ASSUME NEW u \in Searches, u \in Started, u \in retained
          PROVE  key[u] # k
      BY <1>c, <1>1, <1>3, <2>7, <3>2 DEF IInv, KeyInv, RetriesFindTheirSearch
    <3>3. \A u \in Registry!Kept : u \in Searches /\ u \in Started /\ u \in retained
      BY <1>1 DEF Registry!Kept, LifeOf
    <3> QED BY <3>1, <3>2, <3>3 DEF Request
  <2>8. Registry!Begin(s, k)
    BY <1>1, <1>2, <2>2, <2>3, <2>4, <2>6, <2>7
       DEF Registry!Begin, Registry!Kept, Life, Request, AnswerTo
  <2> QED BY <2>8 DEF Registry!Next
<1>5. CASE /\ phase' = [phase EXCEPT ![s] = "void"]
           /\ retained' = retained \ {s}
           /\ index' = IndexWithout(s)
  <2>1. UNCHANGED <<Started, Live, Finished>>
    BY <1>1, <1>5 DEF Started, Live, Finished, TypeOK
  <2>2. UNCHANGED Life
    BY <1>3, <1>5, <2>1 DEF Life, LifeOf
  <2>3. UNCHANGED <<Request, AnswerTo>>
    BY <1>2, <1>3, <1>5, <2>1 DEF Request, AnswerTo, IndexWithout
  <2> QED BY <1>2, <2>2, <2>3, RegistryIdles
<1> QED BY <1>b, <1>4, <1>5 DEF Launch

(* A search that is only in the tables is not there yet for the registry.  *)
LEMMA WarmIsUnseen ==
  ASSUME IInv, NEW s \in Searches, Warm(s)
  PROVE  UNCHANGED Registry!vars
<1> USE DEF searchVars
<1>1. s \notin Started /\ NoSearch \notin Started /\ UNCHANGED <<endedAt, closing, Closed>> /\ TypeOK
  BY IdsAssumption DEF Warm, Started, Closed, IInv
<1>2. CASE UNCHANGED <<phase, batch, key, retained, index, slot>>
  BY <1>1, <1>2, NothingSeen DEF Started, Live, Finished
<1>3. CASE /\ phase' = [phase EXCEPT ![s] = "published"]
           /\ key' = [key EXCEPT ![s] = call.key]
           /\ retained' = retained \cup {s}
           /\ index' = IF call.key = NoKey THEN index ELSE [index EXCEPT ![call.key] = s]
  <2>1. UNCHANGED <<Started, Live, Finished>>
    BY <1>1, <1>3 DEF Warm, Started, Live, Finished, TypeOK
  <2>2. UNCHANGED Life
    BY <1>1, <1>3, <2>1 DEF Life, LifeOf
  <2>3. UNCHANGED Request
    BY <1>1, <1>3, <2>1 DEF Request, TypeOK
  <2>4. call.key # NoKey => call.key \in Keys /\ index[call.key] = NoSearch
    BY <1>1 DEF Warm, At, IInv, KeyInv, TypeOK
  <2>5. UNCHANGED AnswerTo
    BY <1>1, <1>3, <2>1, <2>4 DEF AnswerTo, TypeOK
  <2> QED BY <1>1, <2>2, <2>3, <2>5, RegistryIdles
<1> QED BY <1>2, <1>3 DEF Warm

(* Initially nothing has begun.                                            *)
LEMMA RegistryStarts == Init => Registry!Init
<1> SUFFICES ASSUME Init PROVE Registry!Init
  OBVIOUS
<1>1. Started = {} /\ ~Closed
  BY DEF Init, Started, Closed
<1>2. /\ Life = [s \in Searches |-> "unborn"]
      /\ Request = [s \in Searches |-> NoKey]
      /\ AnswerTo = [k \in Keys |-> NoSearch]
  BY <1>1 DEF Life, LifeOf, Request, AnswerTo
<1> QED BY <1>1, <1>2 DEF Registry!Init, Life, Request, AnswerTo

(* Every step of the manager is a step of the registry or none.            *)
LEMMA RegistrySteps ==
  ASSUME IInv, IndexMeans, [Next]_vars
  PROVE  [Registry!Next]_Registry!vars
<1> USE DEF callerVars, searchVars, othersUnchanged
<1>0. TypeOK /\ SlotInv
  BY DEF IInv
<1>a. ASSUME UNCHANGED <<phase, key, closing>>, Prune \/ UNCHANGED <<retained, index>>
      PROVE  [Registry!Next]_Registry!vars
  <2>1. UNCHANGED <<Started, Live, Finished, Closed>>
    BY <1>a DEF Started, Live, Finished, Closed
  <2> QED BY <1>0, <1>a, <2>1, NothingSeen, PruneIsForgetting
<1>1. ASSUME NEW t \in Targets, Analyse(t) \/ Enrol(t) \/ RefuseTarget(t) \/ DeleteTarget(t)
      PROVE  [Registry!Next]_Registry!vars
  BY <1>0, <1>1, <1>a, LookUps DEF Analyse, Enrol, RefuseTarget, DeleteTarget
<1>2. ASSUME NEW k \in Keys \cup {NoKey}, NEW b \in SUBSET Targets, EnterStart(k, b)
      PROVE  [Registry!Next]_Registry!vars
  <2>1. CASE UNCHANGED index \/ index' = IndexWithoutDangling
    BY <1>0, <1>2, <1>a, <2>1, LookUps DEF EnterStart
  <2>2. CASE /\ AnsweredBy(k) = NoSearch /\ k \in Keys
             /\ index' = [IndexWithoutDangling EXCEPT ![k] = NoSearch]
    <3>1. index' = index
      BY <1>0, <2>2, LookUps DEF AnsweredBy, TypeOK
    <3> QED BY <1>2, <1>a, <3>1 DEF EnterStart
  <2> QED BY <1>2, <2>1, <2>2 DEF EnterStart
<1>3. CASE StartCall \/ CheckSlot \/ StopReplaced
  BY <1>0, <1>3, <1>a, LookUps DEF StartCall, CheckSlot, StopReplaced
<1>4. CASE StopStep \/ CallRearms
  BY <1>4, <1>a DEF StopStep, StopCall, StopLook, StopReturns, CallRearms
<1>5. CASE Close
  <2>1. UNCHANGED <<Started, Live, Finished>> /\ Closed' /\ NoSearch \notin Started
    BY <1>5, IdsAssumption DEF Close, Started, Live, Finished, Closed
  <2>2. UNCHANGED <<Life, Request>> /\ AnswerTo' = [k \in Keys |-> NoSearch]
    BY <1>5, <2>1 DEF Close, Life, LifeOf, Request, AnswerTo
  <2>3. Registry!Close
    BY <2>1, <2>2 DEF Registry!Close, Life, Request, AnswerTo
  <2> QED BY <2>3 DEF Registry!Next
<1>6. CASE ShutdownStopReturns \/ ShutdownWipes
  <2>1. UNCHANGED <<Started, Live, Finished, Closed>>
    BY <1>6 DEF ShutdownStopReturns, ShutdownWipes, Started, Live, Finished, Closed
  <2> QED BY <1>6, <2>1, NothingSeen DEF ShutdownStopReturns, ShutdownWipes
<1>7. ASSUME NEW s \in Searches, Ends(s)
      PROVE  [Registry!Next]_Registry!vars
  <2>1. /\ s \in Live /\ Started' = Started /\ Live' = Live \ {s} /\ Finished' = Finished
        /\ s \in Started /\ s \in retained /\ s \notin Finished
    BY <1>0, <1>7 DEF Ends, Advance, Started, Live, Finished, TypeOK, SlotInv, SlotCore,
                      LiveSearchIsReachable
  <2>2. Life[s] = "running"
    BY <2>1 DEF Life, LifeOf
  <2>3. Life' = [Life EXCEPT ![s] = "over"]
    <3>1. \A u \in Searches : LifeOf(u)' = IF u = s THEN "over" ELSE LifeOf(u)
      BY <1>7, <2>1 DEF Ends, LifeOf
    <3> QED BY <3>1 DEF Life
  <2>4. UNCHANGED <<Request, AnswerTo, Closed>>
    BY <1>7, <2>1 DEF Ends, Request, AnswerTo, Closed
  <2>5. Registry!End(s)
    BY <2>2, <2>3, <2>4 DEF Registry!End, Life, Request, AnswerTo
  <2> QED BY <2>5 DEF Registry!Next
<1>8. ASSUME NEW s \in Searches, Finishes(s)
      PROVE  [Registry!Next]_Registry!vars
  <2>1. /\ s \notin Live /\ Started' = Started /\ Live' = Live /\ Finished' = Finished \cup {s}
        /\ s \in Started /\ s \in retained /\ s \notin Finished
    BY <1>0, <1>8 DEF Finishes, Advance, Started, Live, Finished, TypeOK, SlotInv, SlotCore,
                      LiveSearchIsReachable
  <2>2. Life[s] = "over"
    BY <2>1 DEF Life, LifeOf
  <2>3. Life' = [Life EXCEPT ![s] = "settled"]
    <3>1. \A u \in Searches : LifeOf(u)' = IF u = s THEN "settled" ELSE LifeOf(u)
      BY <1>8, <2>1 DEF Finishes, LifeOf
    <3> QED BY <3>1 DEF Life
  <2>4. UNCHANGED <<Request, AnswerTo, Closed>>
    BY <1>8, <2>1 DEF Finishes, Request, AnswerTo, Closed
  <2>5. Registry!Settle(s)
    BY <2>2, <2>3, <2>4 DEF Registry!Settle, Life, Request, AnswerTo
  <2> QED BY <2>5 DEF Registry!Next
<1>9. ASSUME NEW s \in Searches, Marks(s) \/ Releases(s) \/ WorkerPrunes(s) \/ WorkerRearms(s)
      PROVE  [Registry!Next]_Registry!vars
  <2>1. UNCHANGED <<Started, Live, Finished, Closed, key>>
    BY <1>0, <1>9 DEF Marks, Releases, WorkerPrunes, WorkerRearms, Advance, Started, Live, Finished,
                      Closed, TypeOK
  <2>2. Prune \/ UNCHANGED <<retained, index>>
    BY <1>9 DEF Marks, Releases, WorkerPrunes, WorkerRearms
  <2> QED BY <1>0, <2>1, <2>2, NothingSeen, PruneIsForgetting
<1>10. ASSUME NEW h \in Threads, Asks(h) \/ ThreadWorks(h) \/ RunPruneTimer(h)
       PROVE  [Registry!Next]_Registry!vars
  <2>1. UNCHANGED <<phase, key, closing>>
    BY <1>10 DEF Asks, ThreadWorks, ThreadPrunes, ThreadRearms, Looks, RunPruneTimer
  <2>2. Prune \/ UNCHANGED <<retained, index>>
    BY <1>0, <1>10, LookUps DEF Asks, ThreadWorks, ThreadPrunes, ThreadRearms, Looks, RunPruneTimer
  <2> QED BY <2>1, <2>2, <1>a
<1>11. CASE TimerFires \/ Tick \/ UNCHANGED vars
  BY <1>11, <1>a DEF TimerFires, Tick, vars
<1>12. CASE Launch
  BY <1>12, LaunchBegins
<1>13. ASSUME NEW s \in Searches, Warm(s)
       PROVE  [Registry!Next]_Registry!vars
  BY <1>13, WarmIsUnseen
<1> QED
  BY <1>1, <1>2, <1>3, <1>4, <1>5, <1>6, <1>7, <1>8, <1>9, <1>10, <1>11, <1>12, <1>13
     DEF Next, TargetStep, StartStep, ShutdownStep, WorkerStep, Winds, ThreadStep

(* What callers see of the manager is the abstract registry: one running   *)
(* search, request ids that lead to what they began, nothing forgotten     *)
(* before it has wound down, nothing begun after the close.                *)
THEOREM ManagerImplementsRegistry == Spec => ImplementsRegistry
<1>1. Init => IndexMeans
  BY InitIndex
<1>2. IInv /\ IndexMeans /\ [Next]_vars => IndexMeans'
  BY NextIndex DEF IInv
<1>3. Init => Registry!Init
  BY RegistryStarts
<1>4. IInv /\ IndexMeans /\ [Next]_vars => [Registry!Next]_Registry!vars
  BY RegistrySteps
<1> QED BY <1>1, <1>2, <1>3, <1>4, Inductive, PTL DEF Spec, ImplementsRegistry, Registry!Spec
=============================================================================
