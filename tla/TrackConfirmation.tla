---------------------------- MODULE TrackConfirmation ----------------------------
(***************************************************************************)
(* TrackConfirmation of person_search/confirmation.py for one target: the  *)
(* records kept per track, stepped by one call per frame.  The offline     *)
(* evaluator of cli.py drives it exactly so, and ends a clip with one      *)
(* synthetic frame; the search session also resets it when its camera      *)
(* reconnects.                                                             *)
(*                                                                         *)
(* `live` is the receiving end: what the decisions heard so far say about  *)
(* each track.  `outcomes` is what the last frame recorded.                *)
(***************************************************************************)
EXTENDS ConfirmationRules

CONSTANTS
  Tracks,      \* track ids of the tracker
  Gaps,        \* time between two frames
  MaxTime      \* bound: the clock of the last real frame

ASSUME FramesAssumption == Gaps \subseteq Nat \ {0} /\ MaxTime \in Nat

VARIABLES
  now,         \* timestamp of the last frame
  states,      \* _states: per track its record, or None
  decisions,   \* per track, the decisions of the last frame, in order
  outcomes,    \* per track, the outcomes of the last frame
  live,        \* per track, the open lead or hit: "none", "shadow" or "formal"
  flushed      \* the clip is over and the closing frame was processed

vars == <<now, states, decisions, outcomes, live, flushed>>

TypeOK ==
  /\ now \in Nat
  /\ states \in [Tracks -> Records \cup {None}]
  /\ decisions \in [Tracks -> Seq(Decisions)]
  /\ outcomes \in [Tracks -> Seq(Outcomes)]
  /\ live \in [Tracks -> {"none", "shadow", "formal"}]
  /\ flushed \in BOOLEAN

Init ==
  /\ now = 0
  /\ states = [id \in Tracks |-> None]
  /\ decisions = [id \in Tracks |-> <<>>]
  /\ outcomes = [id \in Tracks |-> <<>>]
  /\ live = [id \in Tracks |-> "none"]
  /\ flushed = FALSE

\* What a receiver of the decisions holds to be open: candidate news change nothing,
\* of the others the last one tells.
Heard(decision) ==
  IF decision.state = "lost" THEN "none" ELSE IF decision.shadow THEN "shadow" ELSE "formal"

HeardAll(open, news) ==
  LET telling == {i \in DOMAIN news : news[i].state # "candidate"}
  IN IF telling = {} THEN open ELSE Heard(news[Max(telling)])

Frame(t, present, faces, blends) ==
  \E result \in {[id \in Tracks |-> TrackFrame(states[id], id \in present, faces[id], t, blends)]} :
    /\ now' = t
    /\ states' = [id \in Tracks |-> result[id].state]
    /\ decisions' = [id \in Tracks |-> result[id].decisions]
    /\ outcomes' = [id \in Tracks |-> result[id].outcomes]
    /\ live' = [id \in Tracks |-> HeardAll(live[id], result[id].decisions)]

\* process_with_stats on a frame of the video.
Process ==
  /\ ~flushed
  /\ \E gap \in Gaps, present \in SUBSET Tracks, blends \in BOOLEAN,
        faces \in [Tracks -> Faces \cup {None}] :
       /\ now + gap <= MaxTime
       /\ \A id \in Tracks \ present : faces[id] = None
       /\ Frame(now + gap, present, faces, blends)
  /\ UNCHANGED flushed

\* clear_sensitive at a source epoch change; the session forgets the tracks it shows.
Reset ==
  /\ ~flushed
  /\ states' = [id \in Tracks |-> None]
  /\ decisions' = [id \in Tracks |-> <<>>]
  /\ outcomes' = [id \in Tracks |-> <<>>]
  /\ live' = [id \in Tracks |-> "none"]
  /\ UNCHANGED <<now, flushed>>

\* The closing frame lies past every window and the grace period.
FlushDelay == Max({Grace} \cup {p.window : p \in Policies})

Flush ==
  /\ ~flushed
  /\ Frame(now + FlushDelay + 1, {}, [id \in Tracks |-> None], FALSE)
  /\ flushed' = TRUE

Next == Process \/ Reset \/ Flush

Spec == Init /\ [][Next]_vars
=============================================================================
