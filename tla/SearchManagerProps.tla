--------------------------- MODULE SearchManagerProps ---------------------------
(***************************************************************************)
(* What SearchManager is checked for.                                      *)
(***************************************************************************)
EXTENDS SearchManager

(* There is one camera and one slot: a second search is never started      *)
(* while one is live, whatever callbacks of earlier searches, timed-out    *)
(* stops and failed starts come in between.                                *)
OneLiveSearch == \A s, u \in Live : s = u

(* A worker that still runs can be asked about and stopped: only finished  *)
(* searches are forgotten, and until the manager closes a live one is the  *)
(* active one.                                                             *)
LiveSearchIsReachable ==
  /\ Started \ Finished \subseteq retained
  /\ ~Closed => Live \subseteq {slot}

(* A start repeated under the same request id finds the search it began    *)
(* for as long as that search is kept, however it ended; so one id never   *)
(* begins two kept searches.                                               *)
RetriesFindTheirSearch ==
  /\ ~Closed => \A s \in retained : key[s] # NoKey => index[key[s]] = s
  /\ \A s, u \in retained : key[s] # NoKey /\ key[s] = key[u] => s = u

(* An enrolment serves one search: nothing of a search that has finished   *)
(* is left enrolled, even if the slot had long been given to another.      *)
SpentTargetsAreGone == \A s \in Finished : batch[s] \cap Enrolled = {}

(* A shut-down manager takes up nothing new, whatever was under way when   *)
(* it closed, and once shutdown has wiped the targets it holds none.       *)
ClosedForGood ==
  [][Closed => /\ Closed'
               /\ retained' \subseteq retained /\ Enrolled' \subseteq Enrolled
               /\ slot' = NoSearch
               /\ closing = "down" => Enrolled' = {}]_vars

(* The manager as its callers see it.  A search begins when its worker is  *)
(* started: one that is only in the tables may still be rolled back.       *)
LifeOf(s) ==
  IF s \notin Started THEN "unborn"
  ELSE IF s \in Live THEN "running"
  ELSE IF s \notin retained THEN "forgotten"
  ELSE IF s \in Finished THEN "settled" ELSE "over"

Registry == INSTANCE SearchRegistry
              WITH life <- [s \in Searches |-> LifeOf(s)],
                   request <- [s \in Searches |-> IF s \in Started THEN key[s] ELSE NoKey],
                   answer <- [k \in Keys |-> IF index[k] \in Started THEN index[k] ELSE NoSearch],
                   open <- ~Closed

(* Every step of a start, a stop, a worker's callback, the janitor or a    *)
(* shutdown is one step of the abstract registry or none: _sessions,       *)
(* _request_index and _active_search_id together keep its promises.        *)
ImplementsRegistry == Registry!Spec

-----------------------------------------------------------------------------
Pruning ==
  \/ \E h \in Threads : pc[h] = "prune" \/ pc[h] = "rearm"
  \/ call.step \in {"rearm", "stop_rearm"}
  \/ \E s \in Searches : phase[s] \in {"pruned", "rearmed"}

(* As long as a search is kept that has run its callback, the janitor is   *)
(* on its way or will wake within its longest sleep.                       *)
JanitorWillCome ==
  ~Closed /\ (\E s \in retained : phase[s] \in {"told", "finished"}) =>
    Pruning \/ (timer.state # "none" /\ timer.due <= now + MaxDelay)

(* A finished search is forgotten only when its time is up, or when        *)
(* MaxRetained others that finished no earlier are kept.                   *)
ForgottenInOrder ==
  [][\A s \in (retained \cap Finished) \ retained' :
       \/ now - endedAt[s] >= Ttl
       \/ Cardinality({u \in retained' \cap Finished : endedAt[u] >= endedAt[s]})
            >= MaxRetained]_vars

(* Every finished search is forgotten without anybody asking.              *)
FinishedAreForgotten ==
  \A s \in Searches : (s \in retained \cap Finished) ~> (s \notin retained \/ Closed)
=============================================================================
