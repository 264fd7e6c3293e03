-------------------------- MODULE EvidenceStoreProps --------------------------
(***************************************************************************)
(* What EvidenceStore is checked for.                                      *)
(***************************************************************************)
EXTENDS EvidenceStore

-----------------------------------------------------------------------------
(* As long as anything is retained, bytes or tombstones, the session's     *)
(* current timer is due no later than the first deadline, or its thread is *)
(* already waiting for the lock: no wipe, release, view or stale callback  *)
(* may leave the store without a timer that will free it.                  *)
TimerCoversDeadlines ==
  held \cup released # {} =>
    /\ timer # 0 /\ timer = generation
    /\ timer \in callbacks
       \/ \A e \in held \cup released : deadline <= expiresAt[e]

(* Whoever asks for bytes that are gone learns why, in whatever order      *)
(* wipes, deadlines, acknowledgements and timers took them: a wipe is      *)
(* answered as one for ever, nothing else is, and "released" is left for   *)
(* what a DELETE took, or a GET that came after stop() had set its flag    *)
(* and before it wiped.                                                    *)
AnswersSayWhatHappened ==
  \A e \in results \ held :
    /\ fate[e] = "wiped" => GetAnswer(e) = "evidence_discarded"
    /\ GetAnswer(e) = "evidence_discarded" => fate[e] \in {"wiped", "refused"}
    /\ GetAnswer(e) = "evidence_released" => fate[e] \in {"claimed", "refused"}

(* A consumer that acknowledged an item may repeat its DELETE until the    *)
(* TTL: the answer is success or evidence_released (idempotent success for *)
(* the client), whatever wipes, cleanups and timers ran in between.        *)
AcknowledgementIsRepeatable ==
  \A e \in Evidence :
    fate[e] = "claimed" /\ now < expiresAt[e] =>
      DeleteAnswer(e) \in {"no_content", "evidence_released"}

(* The GET answers of every id follow EvidenceHandoff: bytes once refused  *)
(* are never served again, a 410 is final, an announced id is never        *)
(* unknown.                                                                *)
AnswerClass(e) ==
  IF e \notin results THEN "unknown"
  ELSE IF GetAnswer(e) = "ok" THEN "ok"
  ELSE IF GetAnswer(e) = "evidence_released" THEN "settled" ELSE "gone"

Handoff == INSTANCE EvidenceHandoff
             WITH answer <- [e \in Evidence |-> AnswerClass(e)]

ImplementsHandoff == Handoff!Spec

(* No JPEG and no tombstone stays in memory for ever, even if no consumer  *)
(* ever asks again and the lifecycle never wipes the store.                *)
MemoryIsFreed ==
  \A e \in Evidence : (e \in held \cup released) ~> (e \notin held \cup released)

-----------------------------------------------------------------------------
(* README.md and __post_init__ (service.py): evidence_released says that   *)
(* the client's own DELETE took the item, and what a stop destroys is      *)
(* never reported as handed over.  The GET that finds the stop flag set    *)
(* destroys the bytes itself and leaves no trace of it.                    *)
ReleasedMeansDeleted ==
  \A e \in results \ held : GetAnswer(e) = "evidence_released" => fate[e] = "claimed"
=============================================================================
