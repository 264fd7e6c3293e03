------------------------- MODULE EvidenceStoreProofs -------------------------
(***************************************************************************)
(* Proofs about EvidenceStore, for every set of evidence ids, every TTL    *)
(* and every bound.  The inductive invariant ties the containers of the    *)
(* store to the history `fate`; the properties of the store are read off   *)
(* it.                                                                     *)
(***************************************************************************)
EXTENDS EvidenceStoreProps, TLAPS

(* What became of an id says where it is, and the other way round.         *)
FateInv ==
  \A e \in Evidence :
    /\ (e \in held) <=> (fate[e] = "held")
    /\ (e \in discarded) <=> (fate[e] = "wiped")
    /\ e \in released => fate[e] = "claimed"
    /\ fate[e] = "claimed" => e \in results
    /\ e \in results => fate[e] # "new"
    /\ fate[e] = "expired" => expiresAt[e] <= now

(* A timer reference is always of the current generation.                  *)
TimerInv == timer # 0 => timer = generation

IInv == TypeOK /\ FateInv /\ TimerInv /\ TimerCoversDeadlines

-----------------------------------------------------------------------------
(* Scheduling over any set of ids yields a timer that covers them.         *)
LEMMA ScheduleCovers ==
  ASSUME NEW ids \in SUBSET Evidence, NEW expires \in [Evidence -> Nat],
         generation \in Nat, deadline \in Nat, Schedule(ids, expires)
  PROVE  /\ generation' = generation + 1
         /\ timer' \in {0, generation + 1}
         /\ deadline' \in Nat
         /\ ids # {} => /\ timer' = generation + 1
                        /\ \A e \in ids : deadline' <= expires[e]
  BY DEF Schedule

(* Dropping what has expired keeps the containers and their history in     *)
(* step.                                                                   *)
LEMMA DropExpiredFates ==
  ASSUME TypeOK, FateInv, DropExpired, UNCHANGED <<now, expiresAt, discarded, results>>
  PROVE  FateInv' /\ held' \subseteq held /\ released' \subseteq released
         /\ fate' \in [Evidence -> Fates]
  BY DEF TypeOK, FateInv, DropExpired, Settle, Due, Fates

LEMMA InitInv == Init => IInv
<1> SUFFICES ASSUME Init
             PROVE  IInv
  OBVIOUS
<1>1. TypeOK
  <2>1. /\ expiresAt \in [Evidence -> Nat]
        /\ fate \in [Evidence -> Fates]
    BY DEF Init, Fates
  <2>2. timer \in 0 .. generation /\ callbacks \subseteq 1 .. generation
    BY DEF Init
  <2> QED BY <2>1, <2>2 DEF Init, TypeOK
<1>2. FateInv
  BY DEF Init, FateInv
<1>3. TimerInv /\ TimerCoversDeadlines
  BY DEF Init, TimerInv, TimerCoversDeadlines
<1> QED BY <1>1, <1>2, <1>3 DEF IInv

LEMMA NextInv == IInv /\ [Next]_vars => IInv'
<1> SUFFICES ASSUME IInv, [Next]_vars
             PROVE  IInv'
  OBVIOUS
<1> USE TtlAssumption, BoundAssumption DEF IInv
<1>1. ASSUME NEW e \in Evidence, StoreEvidence(e)
      PROVE  IInv'
  <2>1. /\ held' = held \cup {e}
        /\ expiresAt' \in [Evidence -> Nat]
        /\ \A f \in Evidence \ {e} : expiresAt'[f] = expiresAt[f]
        /\ fate' = [f \in Evidence |-> IF f \in {e} THEN "held" ELSE fate[f]]
        /\ e \notin released
    BY <1>1 DEF StoreEvidence, Settle, TypeOK, FateInv
  <2>2. /\ generation' = generation + 1
        /\ timer' = generation + 1
        /\ deadline' \in Nat
        /\ \A f \in held' \cup released : deadline' <= expiresAt'[f]
    <3>1. held' \cup released \in SUBSET Evidence /\ held' \cup released # {}
      BY <2>1 DEF TypeOK
    <3>2. Schedule(held' \cup released, expiresAt')
      BY <1>1 DEF StoreEvidence
    <3>3. generation \in Nat /\ deadline \in Nat
      BY DEF TypeOK
    <3> QED BY <2>1, <3>1, <3>2, <3>3, ScheduleCovers
  <2>3. TypeOK'
    <3>1. UNCHANGED <<now, stop, released, discarded, results, callbacks>>
      BY <1>1 DEF StoreEvidence
    <3>2. held' \subseteq Evidence /\ held' \cap released' = {}
          /\ fate' \in [Evidence -> Fates]
      BY <2>1, <3>1 DEF TypeOK, Fates
    <3>3. timer' \in 0 .. generation' /\ callbacks' \subseteq 1 .. generation'
          /\ generation' \in Nat
      BY <2>2, <3>1 DEF TypeOK
    <3> QED BY <2>1, <2>2, <3>1, <3>2, <3>3 DEF TypeOK
  <2>4. FateInv'
    BY <1>1, <2>1 DEF StoreEvidence, TypeOK, FateInv
  <2>5. TimerInv' /\ TimerCoversDeadlines'
    BY <1>1, <2>1, <2>2 DEF StoreEvidence, TypeOK, TimerInv, TimerCoversDeadlines
  <2> QED BY <2>3, <2>4, <2>5
<1>2. ASSUME NEW e \in Evidence, RecordResult(e)
      PROVE  IInv'
  BY <1>2 DEF RecordResult, TypeOK, FateInv, TimerInv, TimerCoversDeadlines, timerVars
<1>3. ASSUME NEW e \in Evidence, GetEvidence(e)
      PROVE  IInv'
  <2>1. CASE ~stop
    <3>1. DropExpired /\ UNCHANGED <<now, expiresAt, discarded, results>>
      BY <1>3, <2>1 DEF GetEvidence
    <3>2. /\ FateInv' /\ held' \subseteq held /\ released' \subseteq released
          /\ fate' \in [Evidence -> Fates]
      BY <3>1, DropExpiredFates
    <3> QED BY <1>3, <3>2 DEF GetEvidence, TypeOK, TimerInv, TimerCoversDeadlines, timerVars
  <2>2. CASE stop
    <3>1. /\ held' = (held \ Due(held)) \ {e}
          /\ released' = released \ Due(released)
          /\ fate' = [f \in Evidence |-> IF f = e /\ e \in held \ Due(held)
                                         THEN "refused"
                                         ELSE IF f \in Due(held) THEN "expired" ELSE fate[f]]
      BY <1>3, <2>2 DEF GetEvidence, Settle
    <3>2. TypeOK'
      BY <1>3, <3>1 DEF GetEvidence, TypeOK, timerVars, Fates, Due
    <3>3. FateInv'
      BY <1>3, <3>1 DEF GetEvidence, TypeOK, FateInv, Due
    <3>4. TimerInv' /\ TimerCoversDeadlines'
      BY <1>3, <3>1 DEF GetEvidence, TimerInv, TimerCoversDeadlines, timerVars
    <3> QED BY <3>2, <3>3, <3>4
  <2> QED BY <2>1, <2>2 DEF TypeOK
<1>4. ASSUME NEW e \in Evidence, ReleaseEvidence(e)
      PROVE  IInv'
  <2> DEFINE kept == (held \ Due(held)) \ {e}
             ids == (held \ Due(held)) \cup (released \ Due(released)) \cup {e}
  <2>1. CASE Acknowledge(e, kept, ids)
    <3>1. /\ e \in held \ Due(held)
          /\ held' = (held \ Due(held)) \ {e}
          /\ released' = (released \ Due(released)) \cup {e}
          /\ fate' = [f \in Evidence |-> IF f = e THEN "claimed"
                                         ELSE IF f \in Due(held) THEN "expired" ELSE fate[f]]
      BY <2>1 DEF Acknowledge, Settle
    <3>2. /\ generation' = generation + 1
          /\ timer' = generation + 1
          /\ deadline' \in Nat
          /\ \A f \in ids : deadline' <= expiresAt[f]
      <4>1. ids \in SUBSET Evidence /\ ids # {}
        BY DEF TypeOK, Due
      <4>2. Schedule(ids, expiresAt)
        BY <2>1 DEF Acknowledge
      <4>3. generation \in Nat /\ deadline \in Nat /\ expiresAt \in [Evidence -> Nat]
        BY DEF TypeOK
      <4> HIDE DEF ids
      <4> QED BY <4>1, <4>2, <4>3, ScheduleCovers
    <3>3. held' \cup released' \subseteq ids
      BY <3>1
    <3>4. UNCHANGED <<now, stop, expiresAt, discarded, results, callbacks>> /\ e \in results
      BY <1>4 DEF ReleaseEvidence, Release
    <3>5. TypeOK'
      BY <3>1, <3>2, <3>4 DEF TypeOK, Fates, Due
    <3>6. FateInv'
      BY <3>1, <3>4 DEF TypeOK, FateInv, Due
    <3>7. TimerInv' /\ TimerCoversDeadlines'
      BY <3>2, <3>3, <3>4 DEF TypeOK, TimerInv, TimerCoversDeadlines
    <3> QED BY <3>5, <3>6, <3>7
  <2>2. CASE AcknowledgeAgain(e)
    <3>1. /\ DropExpired
          /\ UNCHANGED <<now, stop, expiresAt, discarded, results, callbacks, timerVars>>
      BY <1>4, <2>2 DEF ReleaseEvidence, Release, AcknowledgeAgain
    <3>2. /\ FateInv' /\ held' \subseteq held /\ released' \subseteq released
          /\ fate' \in [Evidence -> Fates]
      BY <3>1, DropExpiredFates
    <3> QED BY <3>1, <3>2 DEF TypeOK, TimerInv, TimerCoversDeadlines, timerVars
  <2> QED BY <1>4, <2>1, <2>2 DEF ReleaseEvidence, Release
<1>5. CASE View
  <2>1. /\ FateInv' /\ held' \subseteq held /\ released' \subseteq released
        /\ fate' \in [Evidence -> Fates]
    BY <1>5, DropExpiredFates DEF View
  <2> QED BY <1>5, <2>1 DEF View, TypeOK, TimerInv, TimerCoversDeadlines, timerVars
<1>6. CASE CleanupExpiredEvidence
  <2>1. /\ FateInv' /\ held' \subseteq held /\ released' \subseteq released
        /\ fate' \in [Evidence -> Fates]
    BY <1>6, DropExpiredFates DEF CleanupExpiredEvidence
  <2>2. CASE timer = 0 /\ held' \cup released' # {}
    <3>1. FALSE
      BY <2>1, <2>2 DEF TimerCoversDeadlines
    <3> QED BY <3>1
  <2>3. CASE ~(timer = 0 /\ held' \cup released' # {})
    <3>1. UNCHANGED timerVars
      BY <1>6, <2>3 DEF CleanupExpiredEvidence
    <3> QED BY <1>6, <2>1, <3>1 DEF CleanupExpiredEvidence, TypeOK, TimerInv,
                                    TimerCoversDeadlines, timerVars
  <2> QED BY <2>2, <2>3
<1>7. CASE SetStop
  BY <1>7 DEF SetStop, TypeOK, FateInv, TimerInv, TimerCoversDeadlines, timerVars
<1>8. CASE ClearEvidence
  <2>1. /\ held' = {} /\ released' = {} /\ timer' = 0 /\ generation' = generation + 1
        /\ discarded' = discarded \cup held
        /\ fate' = [f \in Evidence |-> IF f \in held THEN "wiped" ELSE fate[f]]
        /\ UNCHANGED <<now, stop, expiresAt, results, deadline, callbacks>>
    BY <1>8 DEF ClearEvidence, Wipe, Settle
  <2>2. TypeOK'
    BY <2>1 DEF TypeOK, Fates
  <2>3. FateInv'
    BY <2>1 DEF TypeOK, FateInv
  <2>4. TimerInv' /\ TimerCoversDeadlines'
    BY <2>1 DEF TimerInv, TimerCoversDeadlines
  <2> QED BY <2>2, <2>3, <2>4
<1>9. CASE Tick
  BY <1>9 DEF Tick, TypeOK, FateInv, TimerInv, TimerCoversDeadlines, timerVars
<1>10. CASE TimerFires
  BY <1>10 DEF TimerFires, TypeOK, FateInv, TimerInv, TimerCoversDeadlines, timerVars
<1>11. ASSUME NEW g \in callbacks, RunEvidenceCleanup(g)
       PROVE  IInv'
  <2>1. CASE g # generation
    <3>1. UNCHANGED <<now, stop, held, expiresAt, released, discarded, results,
                      generation, timer, deadline, fate>>
          /\ callbacks' = callbacks \ {g}
      BY <1>11, <2>1 DEF RunEvidenceCleanup, RunCallback
    <3> QED BY <3>1, <2>1 DEF TypeOK, FateInv, TimerInv, TimerCoversDeadlines
  <2>2. CASE g = generation
    <3>1. /\ DropExpired /\ Schedule(held' \cup released', expiresAt)
          /\ callbacks' = callbacks \ {g}
          /\ UNCHANGED <<now, stop, expiresAt, discarded, results>>
      BY <1>11, <2>2 DEF RunEvidenceCleanup, RunCallback
    <3>2. /\ FateInv' /\ held' \subseteq held /\ released' \subseteq released
          /\ fate' \in [Evidence -> Fates]
      BY <3>1, DropExpiredFates
    <3>3. /\ generation' = generation + 1
          /\ timer' \in {0, generation + 1}
          /\ deadline' \in Nat
          /\ held' \cup released' # {} =>
               /\ timer' = generation + 1
               /\ \A f \in held' \cup released' : deadline' <= expiresAt[f]
      <4>1. held' \cup released' \in SUBSET Evidence /\ expiresAt \in [Evidence -> Nat]
            /\ generation \in Nat /\ deadline \in Nat
        BY <3>2 DEF TypeOK
      <4> QED BY <3>1, <4>1, ScheduleCovers
    <3> QED BY <3>1, <3>2, <3>3 DEF TypeOK, TimerInv, TimerCoversDeadlines
  <2> QED BY <2>1, <2>2
<1>12. CASE UNCHANGED vars
  BY <1>12 DEF vars, TypeOK, FateInv, TimerInv, TimerCoversDeadlines, timerVars
<1> QED
  BY <1>1, <1>2, <1>3, <1>4, <1>5, <1>6, <1>7, <1>8, <1>9, <1>10, <1>11, <1>12 DEF Next

LEMMA Invariance == Spec => []IInv
  BY InitInv, NextInv, PTL DEF Spec

-----------------------------------------------------------------------------
(* The store is well-formed, and no id is both held and acknowledged.      *)
THEOREM TypeCorrect == Spec => []TypeOK
<1>1. IInv => TypeOK
  BY DEF IInv
<1> QED BY Invariance, <1>1, PTL

(* Retained bytes and tombstones always have a timer that will free them.  *)
THEOREM TimerAlwaysCovers == Spec => []TimerCoversDeadlines
<1>1. IInv => TimerCoversDeadlines
  BY DEF IInv
<1> QED BY Invariance, <1>1, PTL

(* A wipe is answered as a wipe, and "released" for what a DELETE took or  *)
(* a GET under the stop flag, for any set of ids and any TTL.              *)
THEOREM AnswersTellTheFate == Spec => []AnswersSayWhatHappened
<1>1. IInv => AnswersSayWhatHappened
  <2> SUFFICES ASSUME IInv, NEW e \in results \ held
               PROVE  /\ fate[e] = "wiped" => GetAnswer(e) = "evidence_discarded"
                      /\ GetAnswer(e) = "evidence_discarded" => fate[e] \in {"wiped", "refused"}
                      /\ GetAnswer(e) = "evidence_released" => fate[e] \in {"claimed", "refused"}
    BY DEF AnswersSayWhatHappened
  <2>1. e \in Evidence /\ fate[e] \in Fates
    BY DEF IInv, TypeOK
  <2>2. /\ (e \in discarded) <=> (fate[e] = "wiped")
        /\ fate[e] \notin {"new", "held"}
        /\ fate[e] = "expired" => Due({e}) # {}
    BY <2>1 DEF IInv, FateInv, Due
  <2>3. GetAnswer(e) = MissingAnswer(e)
    BY DEF GetAnswer
  <2> QED BY <2>1, <2>2, <2>3 DEF MissingAnswer, Fates
<1> QED BY Invariance, <1>1, PTL

(* A repeated acknowledgement is answered as a success until the TTL.      *)
THEOREM AcknowledgementHolds == Spec => []AcknowledgementIsRepeatable
<1>1. IInv => AcknowledgementIsRepeatable
  <2> SUFFICES ASSUME IInv, NEW e \in Evidence, fate[e] = "claimed", now < expiresAt[e]
               PROVE  DeleteAnswer(e) \in {"no_content", "evidence_released"}
    BY DEF AcknowledgementIsRepeatable
  <2>1. e \notin discarded /\ e \in results
    BY DEF IInv, FateInv
  <2>2. Due({e}) = {}
    BY DEF Due, IInv, TypeOK
  <2>3. MissingAnswer(e) = "evidence_released"
    BY <2>1, <2>2 DEF MissingAnswer
  <2> QED BY <2>3 DEF DeleteAnswer
<1> QED BY Invariance, <1>1, PTL

-----------------------------------------------------------------------------
(* Nothing that decides the answer for an announced id ever moves back:    *)
(* the clock, the stop flag, the results, the discarded ids, the item's    *)
(* deadline, and the departure of its bytes.                               *)
LEMMA StepsAreMonotone ==
  ASSUME IInv, [Next]_vars
  PROVE  /\ now \in Nat /\ now' \in Nat /\ now <= now'
         /\ stop => stop'
         /\ results \subseteq results'
         /\ discarded \subseteq discarded'
         /\ \A e \in results : /\ expiresAt'[e] = expiresAt[e]
                               /\ expiresAt[e] \in Nat
                               /\ e \in held' => e \in held
<1> USE DEF IInv
<1>0. now \in Nat /\ expiresAt \in [Evidence -> Nat] /\ results \subseteq Evidence
  BY DEF TypeOK
<1>1. ASSUME NEW e \in Evidence, StoreEvidence(e)
      PROVE  /\ UNCHANGED <<now, stop, results, discarded>>
             /\ e \notin results
             /\ \A f \in results : expiresAt'[f] = expiresAt[f] /\ (f \in held' => f \in held)
  BY <1>0, <1>1 DEF StoreEvidence, FateInv
<1>2. ASSUME NEW e \in Evidence, RecordResult(e)
      PROVE  UNCHANGED <<now, stop, discarded, held, expiresAt>> /\ results \subseteq results'
  BY <1>2 DEF RecordResult
<1>3. ASSUME NEW e \in Evidence, GetEvidence(e)
      PROVE  UNCHANGED <<now, stop, discarded, results, expiresAt>> /\ held' \subseteq held
  BY <1>3 DEF GetEvidence, DropExpired
<1>4. ASSUME NEW e \in Evidence, ReleaseEvidence(e)
      PROVE  UNCHANGED <<now, stop, discarded, results, expiresAt>> /\ held' \subseteq held
  BY <1>4 DEF ReleaseEvidence, Release, Acknowledge, AcknowledgeAgain, DropExpired
<1>5. ASSUME View \/ CleanupExpiredEvidence \/ \E g \in callbacks : RunEvidenceCleanup(g)
      PROVE  UNCHANGED <<now, stop, discarded, results, expiresAt>> /\ held' \subseteq held
  BY <1>5 DEF View, CleanupExpiredEvidence, RunEvidenceCleanup, RunCallback, DropExpired
<1>6. ASSUME SetStop \/ ClearEvidence
      PROVE  /\ UNCHANGED <<now, results, expiresAt>> /\ held' \subseteq held
             /\ stop => stop'
             /\ discarded \subseteq discarded'
  BY <1>6 DEF SetStop, ClearEvidence, Wipe
<1>7. ASSUME Tick \/ TimerFires \/ UNCHANGED vars
      PROVE  /\ UNCHANGED <<stop, discarded, results, expiresAt, held>>
             /\ now' = now \/ now' = now + 1
  BY <1>7 DEF Tick, TimerFires, vars
<1> QED
  BY <1>0, <1>1, <1>2, <1>3, <1>4, <1>5, <1>6, <1>7 DEF Next

(* The answer class of an announced id, in terms of those facts alone.     *)
Served(e) == e \in held /\ now < expiresAt[e] /\ ~stop
Final(e) == ~Served(e) /\ (e \in discarded \/ expiresAt[e] <= now)

AnswerLaw ==
  \A e \in results :
    now \in Nat /\ expiresAt[e] \in Nat =>
      /\ AnswerClass(e) \in {"ok", "settled", "gone"}
      /\ AnswerClass(e) = "ok" <=> Served(e)
      /\ AnswerClass(e) = "gone" <=> Final(e)

LEMMA AnswerLawHolds == AnswerLaw
<1> SUFFICES ASSUME NEW e \in results, now \in Nat, expiresAt[e] \in Nat
             PROVE  /\ AnswerClass(e) \in {"ok", "settled", "gone"}
                    /\ AnswerClass(e) = "ok" <=> Served(e)
                    /\ AnswerClass(e) = "gone" <=> Final(e)
  BY DEF AnswerLaw
<1>1. Due({e}) # {} <=> expiresAt[e] <= now
  BY DEF Due
<1>2. e \in held \ Due(held) /\ ~stop <=> Served(e)
  BY DEF Due, Served
<1>3. /\ MissingAnswer(e) # "ok"
      /\ MissingAnswer(e) = "evidence_released" <=>
           ~(e \in discarded \/ expiresAt[e] <= now)
  BY <1>1 DEF MissingAnswer
<1> QED BY <1>2, <1>3 DEF AnswerClass, GetAnswer, Final

(* Every behaviour of the store answers its consumers as the abstract      *)
(* hand-off allows.                                                        *)
THEOREM StoreImplementsHandoff == Spec => ImplementsHandoff
<1>1. Init => Handoff!Init
  BY DEF Init, Handoff!Init, AnswerClass
<1>2. IInv /\ IInv' /\ [Next]_vars => [Handoff!Move]_([e \in Evidence |-> AnswerClass(e)])
  <2> SUFFICES ASSUME IInv, IInv', [Next]_vars
               PROVE  Handoff!Move
    OBVIOUS
  <2> DEFINE a == [e \in Evidence |-> AnswerClass(e)]
             b == [e \in Evidence |-> AnswerClass(e)']
  <2>1. ASSUME NEW e \in Evidence
        PROVE  /\ AnswerClass(e) \in Handoff!Answers
               /\ AnswerClass(e)' \in Handoff!Answers
    BY DEF AnswerClass, Handoff!Answers
  <2>2. ASSUME NEW e \in Evidence, AnswerClass(e)' # AnswerClass(e)
        PROVE  AnswerClass(e)' \in Handoff!Later[AnswerClass(e)]
    <3>1. CASE e \notin results
      <4>1. AnswerClass(e) = "unknown"
        BY <3>1 DEF AnswerClass
      <4> QED BY <4>1, <2>1, <2>2 DEF Handoff!Later, Handoff!Answers
    <3>2. CASE e \in results
      <4>0. /\ now \in Nat /\ now' \in Nat /\ now <= now'
            /\ results \subseteq results'
            /\ discarded \subseteq discarded'
            /\ \A f \in results : /\ expiresAt'[f] = expiresAt[f]
                                  /\ expiresAt[f] \in Nat
                                  /\ f \in held' => f \in held
        BY StepsAreMonotone
      <4>1. /\ e \in results' /\ now \in Nat /\ now' \in Nat /\ now <= now'
            /\ expiresAt[e] \in Nat /\ expiresAt'[e] = expiresAt[e]
            /\ e \in held' => e \in held
            /\ e \in discarded => e \in discarded'
        BY <3>2, <4>0
      <4>7. stop => stop'
        BY StepsAreMonotone
      <4>2. /\ AnswerClass(e) \in {"ok", "settled", "gone"}
            /\ AnswerClass(e) = "ok" <=> Served(e)
            /\ AnswerClass(e) = "gone" <=> Final(e)
        BY <3>2, <4>1, AnswerLawHolds DEF AnswerLaw
      <4>3. AnswerLaw'
        BY AnswerLawHolds, PTL
      <4>4. /\ AnswerClass(e)' \in {"ok", "settled", "gone"}
            /\ AnswerClass(e)' = "ok" <=> Served(e)'
            /\ AnswerClass(e)' = "gone" <=> Final(e)'
        BY <4>1, <4>3 DEF AnswerLaw
      <4>5. (Served(e)' => Served(e)) /\ (Final(e) => Final(e)')
        BY <4>1, <4>7 DEF Served, Final
      <4> QED BY <2>2, <4>2, <4>4, <4>5 DEF Handoff!Later, Handoff!Answers
    <3> QED BY <3>1, <3>2
  <2>3. a' = b
    OBVIOUS
  <2> HIDE DEF a, b
  <2> QED BY <2>1, <2>2, <2>3 DEF a, b, Handoff!Move
<1> QED BY <1>1, <1>2, Invariance, PTL DEF Spec, ImplementsHandoff, Handoff!Spec
=============================================================================
