---------------------------- MODULE ConfirmationRules ----------------------------
(***************************************************************************)
(* How person_search/confirmation.py turns the faces matched on one person *)
(* track into candidate, confirmed and lost decisions, as functions of the *)
(* record the code keeps per track (_TrackState).  No variables: the       *)
(* modules that keep these records extend this one.                        *)
(*                                                                         *)
(* Times and similarities are integers.  A policy (FaceMatchPolicy) is a   *)
(* record of the numbers the verdict reads; the operator is_stricter_policy*)
(* is not needed, because both branches it separates do the same thing.    *)
(***************************************************************************)
EXTENDS Integers, FiniteSets, Sequences, SequencesExt

CONSTANTS
  None,                 \* no record, no policy, no attempt, no face
  Policies,             \* the FaceMatchPolicy values the settings give rise to
  Scores,               \* similarities an observation may have
  Statistic,            \* evidence_statistic: "median" or "top_k_mean"
  TopK,                 \* evidence_top_k
  Grace,                \* confirmed_track_grace_seconds
  CandidateInterval,    \* candidate_emit_interval_seconds
  ShadowMode,           \* tiny_face_shadow_mode
  Adjudicating,         \* departure_adjudication_enabled
  DepartureMinSamples,  \* departure_min_samples
  DepartureMargin       \* departure_similarity_margin

\* validate_runtime_bounds refuses a quorum that cannot fit in its window.
PolicyOK(p) ==
  /\ p.threshold \in Nat /\ p.required \in Nat \ {0} /\ p.window \in Nat
  /\ p.interval \in Nat /\ p.votes \in 0 .. p.required
  /\ {p.aggregate, p.suppress, p.collectAll, p.shadowEligible, p.clearFaces} \subseteq BOOLEAN
  /\ (p.required - 1) * p.interval <= p.window

ASSUME SettingsAssumption ==
  /\ Policies # {} /\ IsFiniteSet(Policies) /\ \A p \in Policies : PolicyOK(p)
  /\ Scores \subseteq Nat \ {0}
  /\ Statistic \in {"median", "top_k_mean"} /\ TopK \in 1 .. 3
  /\ Grace \in Nat /\ CandidateInterval \in Nat \ {0}
  /\ ShadowMode \in BOOLEAN /\ Adjudicating \in BOOLEAN
  /\ DepartureMinSamples \in Nat \ {0} /\ DepartureMargin \in Nat

Faces == {f \in [policy : Policies, score : Scores, clear : BOOLEAN] : f.clear \/ f.policy.clearFaces}

Never == -CandidateInterval     \* last_candidate_emit's -1e9: due at any time
NoTime == -1                    \* a None timestamp

GateOrder == <<"insufficient_samples", "window_statistic_low", "votes_low", "aggregate_low">>
Passed == "passed"              \* _Attempt.gate is None

(***************************************************************************)
(* The record of one track.  `under` on a sample is the policy it was      *)
(* collected under; the code does not keep it and no guard here reads it.  *)
(***************************************************************************)
FreshState ==
  [evidence |-> <<>>, confirmed |-> FALSE, shadowConfirmed |-> FALSE,
   lastTrackSeen |-> 0, lastFaceSeen |-> 0, lastCandidateEmit |-> Never,
   policy |-> None, firstEvidenceAt |-> NoTime, lastEvidenceAt |-> 0,
   bestAttempt |-> None, outcomeEmitted |-> FALSE]

\* What the fields of a record, an attempt and the results of a frame range over.
Gates == Range(GateOrder) \cup {Passed}
Samples == [at : Nat, score : Scores, under : Policies]
Attempts == [gate : Gates, banked : Nat, qualifying : Nat, similarity : Int, threshold : Nat]
Records ==
  [evidence : Seq(Samples), confirmed : BOOLEAN, shadowConfirmed : BOOLEAN,
   lastTrackSeen : Nat, lastFaceSeen : Nat, lastCandidateEmit : Int,
   policy : Policies \cup {None}, firstEvidenceAt : Nat \cup {NoTime}, lastEvidenceAt : Nat,
   bestAttempt : Attempts \cup {None}, outcomeEmitted : BOOLEAN]
Decisions == [state : {"candidate", "confirmed", "lost"}, shadow : BOOLEAN]
Outcomes == [confirmed : BOOLEAN, shadow : BOOLEAN, gate : Gates, policy : Policies, took : Int]

ASSUME NoneAssumption == None \notin Policies \cup Attempts \cup Records \cup Faces

Settled(s) == s.confirmed \/ s.shadowConfirmed

IsShadow(p) == IF p = None THEN FALSE ELSE ShadowMode /\ p.shadowEligible

Decision(what, s) == [state |-> what, shadow |-> IsShadow(s.policy)]

-----------------------------------------------------------------------------
(***************************************************************************)
(* The gates.                                                              *)
(***************************************************************************)

ScoresOf(evidence) == [i \in DOMAIN evidence |-> evidence[i].score]

\* The k-th of the similarities in falling order: the greatest that k of them reach.
Descending(scores) ==
  [k \in DOMAIN scores |->
     Max({v \in Range(scores) : Cardinality({i \in DOMAIN scores : scores[i] >= v}) >= k})]

\* Similarities are compared in sixths, so that the mean of two or of three is exact.
Sixth == 6
NoSimilarity == -Sixth

MedianOf(best) ==
  LET half == (Len(best) + 1) \div 2
  IN (Sixth \div 2) * (best[half] + best[Len(best) + 1 - half])

TopMeanOf(best, count) ==
  (Sixth \div count)
    * (best[1] + (IF count > 1 THEN best[2] ELSE 0) + (IF count > 2 THEN best[3] ELSE 0))

StatisticOf(best) ==
  IF best = <<>> THEN NoSimilarity
  ELSE IF Statistic = "median" THEN MedianOf(best)
       ELSE TopMeanOf(best, IF Len(best) < TopK THEN Len(best) ELSE TopK)

WindowStatistic(evidence) == StatisticOf(Descending(ScoresOf(evidence)))

Qualifying(evidence, p) == Cardinality({i \in DOMAIN evidence : evidence[i].score >= p.threshold})

FirstFailing(fails) ==
  IF \E i \in DOMAIN fails : fails[i]
  THEN GateOrder[CHOOSE i \in DOMAIN fails : fails[i] /\ \A j \in 1 .. i - 1 : ~fails[j]]
  ELSE Passed

\* The first gate that fails.  Whether the quality-weighted mean embedding reaches
\* its threshold does not follow from the similarities: `blends` is the outcome.
GateOf(evidence, p, blends) ==
  FirstFailing(<<Len(evidence) < p.required,
                 WindowStatistic(evidence) < Sixth * p.threshold,
                 Qualifying(evidence, p) < p.votes,
                 p.aggregate /\ ~blends>>)

Evaluate(s, blends) ==
  [gate |-> GateOf(s.evidence, s.policy, blends), banked |-> Len(s.evidence),
   qualifying |-> Qualifying(s.evidence, s.policy),
   similarity |-> WindowStatistic(s.evidence), threshold |-> s.policy.threshold]

Ordinal(attempt) ==
  IF attempt.gate = Passed THEN Len(GateOrder) + 1
  ELSE CHOOSE i \in DOMAIN GateOrder : GateOrder[i] = attempt.gate

\* rank(): the gate reached, then the qualifying samples, then the window's similarity.
RanksAbove(a, b) ==
  \/ Ordinal(a) > Ordinal(b)
  \/ /\ Ordinal(a) = Ordinal(b)
     /\ \/ a.qualifying > b.qualifying
        \/ a.qualifying = b.qualifying /\ a.similarity > b.similarity

\* Slips: the ordering forgets the gate an attempt reached.
BestBySamples(s, attempt) ==
  IF s.bestAttempt = None THEN attempt
  ELSE IF attempt.qualifying > s.bestAttempt.qualifying THEN attempt ELSE s.bestAttempt

Best(s, attempt) ==
  IF s.bestAttempt = None THEN attempt
  ELSE IF RanksAbove(attempt, s.bestAttempt) THEN attempt ELSE s.bestAttempt

-----------------------------------------------------------------------------
(***************************************************************************)
(* One frame of one track.  Each stage returns the record it leaves, the   *)
(* decisions it makes and the outcomes it records.                         *)
(***************************************************************************)

Stage(s, decisions, outcomes) == [state |-> s, decisions |-> decisions, outcomes |-> outcomes]
Quiet(s) == Stage(s, <<>>, <<>>)

\* What two stages say together, the record being the later one's.
Then(first, second) ==
  Stage(second.state, first.decisions \o second.decisions, first.outcomes \o second.outcomes)

Wiped(s, p) == [s EXCEPT !.evidence = <<>>, !.lastCandidateEmit = Never, !.policy = p]

\* A shadow lead observed under an ordinary policy is closed and starts over.
Demotes(s, p) == s.policy # None /\ s.shadowConfirmed /\ ~IsShadow(p)

\* Slips: only a stricter threshold clears the window.
SwitchKeepingLooser(s, p) ==
  IF Demotes(s, p) THEN [Wiped(s, p) EXCEPT !.shadowConfirmed = FALSE]
  ELSE IF s.policy = None \/ s.confirmed THEN [s EXCEPT !.policy = p]
       ELSE IF p.threshold > s.policy.threshold THEN Wiped(s, p) ELSE [s EXCEPT !.policy = p]

\* A window never mixes samples taken under different policies; a track already
\* confirmed is past caring.
SwitchPolicy(s, p) ==
  IF Demotes(s, p) THEN [Wiped(s, p) EXCEPT !.shadowConfirmed = FALSE]
  ELSE IF s.policy \in {None, p} \/ s.confirmed THEN [s EXCEPT !.policy = p]
       ELSE Wiped(s, p)

Accepts(p, face) ==
  /\ p.clearFaces => face.clear
  /\ face.score >= p.threshold \/ p.collectAll

\* The oldest samples leave, up to the first that still lies in the window.
InWindow(s, t) ==
  LET inside == {i \in DOMAIN s.evidence : t - s.evidence[i].at <= s.policy.window}
  IN IF inside = {} THEN <<>> ELSE SubSeq(s.evidence, Min(inside), Len(s.evidence))

Expire(s, t) == IF s.policy = None THEN s ELSE [s EXCEPT !.evidence = InWindow(s, t)]

Separated(evidence, p, t) == evidence = <<>> \/ t - evidence[Len(evidence)].at >= p.interval

\* Slips: the spacing between samples is not looked at.
BankEverything(s, face, t) ==
  [s EXCEPT !.evidence = Append(InWindow(s, t), [at |-> t, score |-> face.score, under |-> s.policy]),
            !.lastFaceSeen = IF face.score >= s.policy.threshold THEN t ELSE @,
            !.firstEvidenceAt = IF @ = NoTime THEN t ELSE @,
            !.lastEvidenceAt = t]

\* A collect-all window keeps its newest quorum.
Trimmed(evidence, p) ==
  IF p.collectAll /\ Len(evidence) > p.required
  THEN SubSeq(evidence, Len(evidence) - p.required + 1, Len(evidence)) ELSE evidence

BankInto(s, kept, face, t) ==
  IF Separated(kept, s.policy, t)
  THEN [s EXCEPT !.evidence =
                   Trimmed(Append(kept, [at |-> t, score |-> face.score, under |-> s.policy]),
                           s.policy),
                 !.firstEvidenceAt = IF @ = NoTime THEN t ELSE @,
                 !.lastEvidenceAt = t]
  ELSE [s EXCEPT !.evidence = kept]

\* A sample below the threshold is evidence for a collect-all policy, never a sighting.
Bank(s, face, t) ==
  BankInto([s EXCEPT !.lastFaceSeen = IF face.score >= s.policy.threshold THEN t ELSE @],
           InWindow(s, t), face, t)

Outcome(s, attempt, confirmed, shadow, took) ==
  [confirmed |-> confirmed, shadow |-> shadow, gate |-> attempt.gate, policy |-> s.policy,
   took |-> took]

Verdict(s, attempt, t) ==
  LET passed == attempt.gate = Passed
      shadow == IsShadow(s.policy)
      took == IF s.firstEvidenceAt = NoTime THEN 0 ELSE t - s.firstEvidenceAt
  IN Stage([s EXCEPT !.bestAttempt = Best(s, attempt),
                     !.confirmed = passed /\ ~shadow,
                     !.shadowConfirmed = passed /\ shadow,
                     !.outcomeEmitted = @ \/ passed],
           IF passed THEN <<Decision("confirmed", s)>> ELSE <<>>,
           IF passed THEN <<Outcome(s, attempt, TRUE, shadow, took)>> ELSE <<>>)

Candidate(s, t) ==
  IF ~s.policy.suppress /\ t - s.lastCandidateEmit >= CandidateInterval
  THEN Stage([s EXCEPT !.lastCandidateEmit = t], <<Decision("candidate", s)>>, <<>>)
  ELSE Quiet(s)

Judged(candidate, blends, t) ==
  Then(candidate, Verdict(candidate.state, Evaluate(candidate.state, blends), t))

\* Candidate news, then the verdict; only for a track not settled yet.
Judge(s, t, blends) ==
  IF Settled(s) THEN Quiet(s) ELSE Judged(Candidate(s, t), blends, t)

ObserveUnder(s, face, t, blends) ==
  IF Accepts(face.policy, face) THEN Judge(Bank(s, face, t), t, blends) ELSE Quiet(s)

Observe(s, face, t, blends) ==
  Then(Stage(s, IF Demotes(s, face.policy) THEN <<Decision("lost", s)>> ELSE <<>>, <<>>),
       ObserveUnder(SwitchPolicy(s, face.policy), face, t, blends))

\* Only a track short of samples is judged again, and at a higher bar.
Adjudicated(attempt) ==
  /\ Adjudicating
  /\ attempt.gate = GateOrder[1]
  /\ attempt.banked >= DepartureMinSamples
  /\ attempt.similarity >= Sixth * (attempt.threshold + DepartureMargin)

HasPostMortem(s) == ~s.outcomeEmitted /\ s.firstEvidenceAt # NoTime /\ s.bestAttempt # None

ShadowNews(what) == [state |-> what, shadow |-> TRUE]

\* Slips: an adjudicated lead is announced and left open.
DepartureLeftOpen(s) ==
  IF ~HasPostMortem(s) THEN Quiet(None)
  ELSE IF Adjudicated(s.bestAttempt)
       THEN Stage(None, <<ShadowNews("confirmed")>>,
                  <<Outcome(s, s.bestAttempt, TRUE, TRUE, NoTime)>>)
       ELSE Stage(None, <<>>, <<Outcome(s, s.bestAttempt, FALSE, FALSE, NoTime)>>)

\* Slips: the outcome of a track that was a lead before is recorded again.
DepartureAgain(s) ==
  IF s.bestAttempt = None THEN Quiet(None)
  ELSE Stage(None, <<>>, <<Outcome(s, s.bestAttempt, FALSE, FALSE, NoTime)>>)

\* A track that banked evidence and leaves unconfirmed says why; an adjudicated one
\* opens and closes a shadow lead in the same frame.
Departure(s) ==
  IF ~HasPostMortem(s) THEN Quiet(None)
  ELSE IF Adjudicated(s.bestAttempt)
       THEN Stage(None, <<ShadowNews("confirmed"), ShadowNews("lost")>>,
                  <<Outcome(s, s.bestAttempt, TRUE, TRUE, s.lastEvidenceAt - s.firstEvidenceAt)>>)
       ELSE Stage(None, <<>>, <<Outcome(s, s.bestAttempt, FALSE, FALSE, NoTime)>>)

Unseen(s, t) == t - s.lastFaceSeen >= Grace
Missing(s, present, t) == ~present /\ t - s.lastTrackSeen >= Grace

\* Slips: an unsettled track is only forgotten while it is still in the frame.
SweepKeepingMissing(s, present, t) ==
  IF Settled(s) /\ Unseen(s, t) THEN Stage(None, <<Decision("lost", s)>>, <<>>)
  ELSE Quiet(s)

\* Who is forgotten at the end of a frame; s has dropped its expired samples.
Sweep(s, present, t) ==
  IF Settled(s)
  THEN IF Missing(s, present, t) \/ Unseen(s, t)
       THEN Stage(None, <<Decision("lost", s)>>, <<>>) ELSE Quiet(s)
  ELSE IF s.evidence = <<>> /\ Missing(s, present, t) THEN Departure(s) ELSE Quiet(s)

ThenSweep(seen, present, t) == Then(seen, Sweep(Expire(seen.state, t), present, t))

\* process_with_stats for one track: `face` is the best face associated with it.
TrackFrame(s, present, face, t, blends) ==
  LET here == [(IF s = None THEN FreshState ELSE s) EXCEPT !.lastTrackSeen = t]
  IN IF s = None /\ ~present THEN Quiet(None)
     ELSE IF present /\ face # None THEN ThenSweep(Observe(here, face, t, blends), present, t)
          ELSE ThenSweep(Quiet(IF present THEN here ELSE s), present, t)

=============================================================================
