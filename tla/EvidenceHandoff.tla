--------------------------- MODULE EvidenceHandoff ---------------------------
(***************************************************************************)
(* What the evidence endpoints of one search promise to a consumer, as the *)
(* status class a GET of each evidence id would be answered with.          *)
(*                                                                         *)
(*   unknown  404 evidence_not_found : no result names the id yet          *)
(*   ok       200                    : the JPEGs are served                *)
(*   settled  404 evidence_released  : nothing left to fetch, no error     *)
(*   gone     410 evidence_expired / evidence_discarded : stop retrying    *)
(*                                                                         *)
(* The consumer's retry rule depends on three facts: bytes are never       *)
(* served again once they were refused, a 410 is final, and an id that was *)
(* announced never becomes unknown.                                        *)
(***************************************************************************)
CONSTANT Evidence

VARIABLE answer

Answers == {"unknown", "ok", "settled", "gone"}

(* The answers that may follow each answer.                                *)
Later == [a \in Answers |->
            IF a = "unknown" THEN {"ok", "settled", "gone"}
            ELSE IF a = "ok" THEN {"settled", "gone"}
            ELSE IF a = "settled" THEN {"gone"} ELSE {}]

Init == answer = [e \in Evidence |-> "unknown"]

(* Time and the search's lifecycle may change several answers at once.     *)
Move == /\ answer' \in [Evidence -> Answers]
        /\ \A e \in Evidence :
             answer'[e] # answer[e] => answer'[e] \in Later[answer[e]]

Spec == Init /\ [][Move]_answer
=============================================================================
