--------------------------- MODULE SearchSessionProps ---------------------------
(***************************************************************************)
(* What SearchSession is checked for.                                      *)
(***************************************************************************)
EXTENDS SearchSession

(* The worker has left its finally block's transitions behind.             *)
Concluding ==
  pc["worker"] \in {"conclude", "announce", "flush", "offer", "withhold",
                    "scrub", "retire", "rejoining", "finish", "done"}

Published(type) == {i \in DOMAIN log : log[i].type = type}

TerminalEvents == {i \in Published("search_status") : log[i].status \in Terminal}

FoundEvents(h) == {i \in Published("target_found") : log[i].hit = h}

-----------------------------------------------------------------------------
(* No JPEG outlives a search that was stopped, failed or timed out: a hit  *)
(* stored between the stop's own wipe and the worker's terminal transition *)
(* is wiped by that transition.                                            *)
AbortLeavesNothing == Concluding /\ status \in Aborted => Held = {}

(* target_found is published at the end of the search: it offers a crop    *)
(* only if the crop survived that end, and later fetches can fail only     *)
(* because the consumer took it, its TTL passed, or somebody stopped the   *)
(* search; it never turns a consumer away from a crop it could fetch.      *)
OffersAreHonest ==
  \A i \in Published("target_found") :
    LET e == evidence[log[i].hit] IN
    IF log[i].available
    THEN /\ status = "completed"
         /\ e \in {"held", "left"} \/ (e = "wiped" /\ \E a \in Stoppers : pc[a] # "idle")
    ELSE e = "held" => stop

(* A finished search has told its whole story: one terminal status, true   *)
(* and before every deferred event; for each recorded hit one confirmed    *)
(* and, later, one target_found; and the outcome, last, says all_found     *)
(* with every target hit, or search_timeout with exactly the others.       *)
FinishedStoryIsComplete ==
  finished =>
    LET outcomes == Published("all_found") \cup Published("search_timeout") IN
    /\ \E i \in TerminalEvents :
         /\ TerminalEvents = {i}
         /\ log[i].status = status
         /\ \A j \in outcomes \cup Published("target_found") : i < j
    /\ \A h \in Hits :
         Cardinality(FoundEvents(h)) = IF h \in results THEN 1 ELSE 0
    /\ \A i \in Published("target_found") :
         \E j \in Published("confirmed") : j < i /\ log[j].hit = log[i].hit
    /\ \A i \in Published("target_found"), j \in outcomes : i < j
    /\ status = "completed" <=> Published("all_found") # {}
    /\ status = "timed_out" <=> Published("search_timeout") # {}
    /\ status = "completed" => \A t \in Targets : \E h \in results : h[1] = t
    /\ \A i \in Published("search_timeout") :
         log[i].unfound = {t \in Targets : \A h \in results : h[1] # t}

(* A consumer that sees a terminal event may start the next search at      *)
(* once: the slot is free before the first one is published.               *)
SlotFreeBeforeTheNews == TerminalEvents # {} => slotFree

(* Once the reader was stopped successfully the capture thread announces   *)
(* nothing more, even if a stop() that came first found it not started.    *)
ReaderIsSilenced == joined => readerStop /\ reader \in {"off", "top", "ended"}

(* A stopped search finishes: whatever the camera, the reader thread and   *)
(* the other threads that stop it do.                                      *)
StopEndsTheSearch == stop ~> finished

(* Every call to stop() comes back, however many are under way at once.    *)
EveryStopReturns ==
  LET Away(a) == pc[a] \in {"idle", "done", "gave_up"} IN
  (\E a \in Stoppers : ~Away(a)) ~> (\A a \in Stoppers : Away(a))
=============================================================================
