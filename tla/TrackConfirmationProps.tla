------------------------- MODULE TrackConfirmationProps -------------------------
(***************************************************************************)
(* What TrackConfirmation promises, and the instance TLC checks it on: one *)
(* track, judged by an ordinary, a small-face and a far-face policy.       *)
(***************************************************************************)
EXTENDS TrackConfirmation

\* Times in units of the far tier's sampling interval, similarities as ranks: 2 passes the
\* ordinary and the small-face bar, 3 also the far-face one.
Normal == [tier |-> "normal", threshold |-> 2, required |-> 2, window |-> 3, interval |-> 2, votes |-> 0,
           aggregate |-> FALSE, suppress |-> FALSE, collectAll |-> FALSE,
           shadowEligible |-> FALSE, clearFaces |-> FALSE]
Small == [Normal EXCEPT !.tier = "small", !.required = 3, !.window = 4, !.suppress = TRUE]
Tiny == [tier |-> "tiny", threshold |-> 3, required |-> 3, window |-> 4, interval |-> 1, votes |-> 2,
         aggregate |-> TRUE, suppress |-> TRUE, collectAll |-> TRUE,
         shadowEligible |-> TRUE, clearFaces |-> TRUE]
ThreeTiers == {Normal, Small, Tiny}
TwoGaps == {1, 3}

\* The evidence of a track not formally confirmed was all taken under the policy that
\* judges it ("one window never mixes samples taken under different thresholds"),
\* at instants at least an interval apart and within one window, and a collect-all
\* window never holds more than its quorum.
WindowsArePure ==
  \A id \in Tracks : states[id] # None /\ states[id].policy # None /\ ~states[id].confirmed =>
    LET s == states[id]
    IN /\ \A i \in DOMAIN s.evidence : s.evidence[i].under = s.policy
       /\ \A i, j \in DOMAIN s.evidence : i < j =>
            s.evidence[j].at - s.evidence[i].at \in s.policy.interval .. s.policy.window
       /\ s.policy.collectAll => Len(s.evidence) <= s.policy.required

Earned(outcome) == outcome.confirmed /\ outcome.gate = Passed

\* A confirmation that passed the gates was earned over time: from the first sample
\* banked on the track, its whole quorum lay at least an interval apart.  One earned
\* by departing was short of samples and is only ever a shadow lead.
HitsTakeTime ==
  [][\A id \in Tracks : \A i \in DOMAIN outcomes'[id] :
       LET o == outcomes'[id][i]
       IN o.confirmed =>
            \/ o.gate = Passed /\ o.took >= (o.policy.required - 1) * o.policy.interval
            \/ o.gate = GateOrder[1] /\ o.shadow /\ o.took >= (DepartureMinSamples - 1)]_vars

\* Someone who only heard the decisions holds exactly the tracks open that are
\* confirmed now, and for what they are: a lead that grows into a hit, expires or is
\* adjudicated on departure is always closed before anything else is said.
HeardMatchesState ==
  \A id \in Tracks :
    live[id] = IF states[id] = None THEN "none"
               ELSE IF states[id].confirmed THEN "formal"
                    ELSE IF states[id].shadowConfirmed THEN "shadow" ELSE "none"

\* A track that banked evidence and leaves gives one post-mortem, unless it was
\* confirmed before or passes its gates in the very frame it is forgotten; one that
\* never banked anything, or was confirmed, leaves without another word.
DepartureSaysWhyOnce ==
  [][\A id \in Tracks :
       /\ states[id] # None /\ states'[id] = None /\ now' # now
       => LET hadOutcome == states[id].outcomeEmitted \/ \E o \in Range(outcomes'[id]) : Earned(o)
              banked == states[id].firstEvidenceAt # NoTime
              postMortems == {i \in DOMAIN outcomes'[id] : ~Earned(outcomes'[id][i])}
          IN Cardinality(postMortems) = IF banked /\ ~hadOutcome THEN 1 ELSE 0]_vars

\* The attempt a post-mortem reports only ever improves, whatever tier the track moves
\* through, and a track that once had its quorum is never excused as short of samples.
ClosestAttemptStands ==
  [][\A id \in Tracks : states[id] # None /\ states'[id] # None =>
       LET s == states[id] u == states'[id]
       IN /\ s.bestAttempt # None =>
               u.bestAttempt # None /\ ~RanksAbove(s.bestAttempt, u.bestAttempt)
          /\ u.policy # None /\ ~Settled(u) =>
               (Len(u.evidence) >= u.policy.required => Ordinal(u.bestAttempt) > 1)]_vars

\* No record outlives its track by more than the longest window or the grace period,
\* and the closing frame of a clip leaves none at all.
NothingLingers ==
  /\ \A id \in Tracks : states[id] # None =>
       now - states[id].lastTrackSeen <= FlushDelay
  /\ flushed => \A id \in Tracks : states[id] = None
=============================================================================
