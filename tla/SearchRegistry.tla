---------------------------- MODULE SearchRegistry ----------------------------
(***************************************************************************)
(* What the manager promises to those who start searches and ask for them: *)
(* one camera, so one running search; a request id that may be sent again, *)
(* because it leads to the search it began for as long as that is kept and *)
(* begins another only after it was forgotten; no search forgotten before  *)
(* it has wound down; and nothing begun once the manager has closed.       *)
(* Slots, locks, tables, stops that time out and starts that fail are the  *)
(* manager's own affair (SearchManager).                                   *)
(***************************************************************************)
CONSTANTS Searches, Keys, NoKey, NoSearch

VARIABLES
  life,      \* how far each search is
  request,   \* the request id each search began under
  answer,    \* the search a request id leads to
  open

vars == <<life, request, answer, open>>

Init ==
  /\ life = [s \in Searches |-> "unborn"]
  /\ request = [s \in Searches |-> NoKey]
  /\ answer = [k \in Keys |-> NoSearch]
  /\ open = TRUE

Kept == {s \in Searches : life[s] \in {"running", "over", "settled"}}

Begin(s, k) ==
  /\ open
  /\ life[s] = "unborn"
  /\ \A u \in Searches : life[u] # "running"
  /\ k # NoKey => answer[k] = NoSearch /\ \A u \in Kept : request[u] # k
  /\ life' = [life EXCEPT ![s] = "running"]
  /\ request' = [request EXCEPT ![s] = k]
  /\ answer' = [j \in Keys |-> IF j = k THEN s ELSE answer[j]]
  /\ UNCHANGED open

(* Its terminal status is out; its worker still winds down.                *)
End(s) ==
  /\ life[s] = "running"
  /\ life' = [life EXCEPT ![s] = "over"]
  /\ UNCHANGED <<request, answer, open>>

Settle(s) ==
  /\ life[s] = "over"
  /\ life' = [life EXCEPT ![s] = "settled"]
  /\ UNCHANGED <<request, answer, open>>

Forget(gone) ==
  /\ \A s \in gone : life[s] = "settled"
  /\ life' = [s \in Searches |-> IF s \in gone THEN "forgotten" ELSE life[s]]
  /\ answer' = [k \in Keys |-> IF answer[k] \in gone THEN NoSearch ELSE answer[k]]
  /\ UNCHANGED <<request, open>>

Close ==
  /\ open' = FALSE
  /\ answer' = [k \in Keys |-> NoSearch]
  /\ UNCHANGED <<life, request>>

Next ==
  \/ \E gone \in SUBSET Searches : Forget(gone)
  \/ \E s \in Searches : End(s) \/ Settle(s)
  \/ \E s \in Searches, k \in Keys \cup {NoKey} : Begin(s, k)
  \/ Close

Spec == Init /\ [][Next]_vars
=============================================================================
