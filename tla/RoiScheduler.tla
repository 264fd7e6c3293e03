------------------------------ MODULE RoiScheduler ------------------------------
(***************************************************************************)
(* Which persons get a second look (service.py, the ROI stage of a frame): *)
(* a person whose face is not found large enough in the full frame may     *)
(* have the head and shoulders searched again, a few persons per pass, as  *)
(* long as a budget of loop time allows it.                                *)
(*                                                                         *)
(* Time is counted in periods of the target loop rate, 1/target_loop_hz:   *)
(* each frame earns one and pays what it took.  A frame without a face     *)
(* pass is taken to cost nothing.  Scores order the persons who were never *)
(* looked at; any order is allowed for them here.                          *)
(***************************************************************************)
EXTENDS Integers, Sequences, SequencesExt

CONSTANTS
  MaxId,        \* bound: persons numbered in one connection
  MaxPerPass,   \* settings.roi_max_tracks_per_pass
  BackoffMax,   \* settings.roi_backoff_max_skips
  FaceEvery,    \* frames from one full-frame face pass to the next
  RoiEvery,     \* frames that have to lie between two ROI passes
  FaceCosts,    \* what a full-frame face pass may take
  RoiCosts,     \* what an ROI pass may take
  Cap,          \* settings.budget_credit_max_frames
  Floor         \* target_loop_hz / min_processed_fps

ASSUME SettingsAssumption ==
  /\ MaxId \in Nat \ {0} /\ MaxPerPass \in Nat \ {0}
  /\ BackoffMax \in Nat
  /\ FaceEvery \in Nat \ {0} /\ RoiEvery \in Nat \ {0}
  /\ FaceCosts \subseteq Nat /\ RoiCosts \subseteq Nat \ {0}
  /\ Cap \in Nat \ {0} /\ Floor \in Nat \ {0}

VARIABLES
  nextId,    \* the tracker's _next_id
  tracks,    \* the persons in the frame
  faceAge,   \* frames since the last face pass, at most FaceEvery
  roiAge,    \* frames since the last ROI pass, at most RoiEvery
  misses,    \* _roi_misses, 0 for no entry
  skips,     \* _roi_skips, 0 for no entry
  turns,     \* persons by _roi_last_pass, the earliest first
  stated,    \* persons that _track_states has as confirmed or shadow
  costs,     \* what ROI passes of this search have taken
  credit,    \* _budget_credit
  passed,    \* the persons the last frame's ROI pass looked at
  waiting    \* the persons who could have used a look in the last frame

clocks == <<faceAge, roiAge>>
backoff == <<misses, skips, turns>>
vars == <<nextId, tracks, clocks, backoff, stated, costs, credit, passed, waiting>>

Ids == 1 .. MaxId

(* Misses beyond the one at which the back-off reaches its limit make no   *)
(* difference: the count stops there.                                      *)
MissCap == CHOOSE m \in 0 .. BackoffMax :
             2 ^ m >= BackoffMax /\ \A k \in 0 .. m - 1 : 2 ^ k < BackoffMax

TypeOK ==
  /\ nextId \in 1 .. MaxId + 1
  /\ tracks \subseteq Ids /\ stated \subseteq Ids
  /\ passed \subseteq Ids /\ waiting \subseteq Ids
  /\ faceAge \in 1 .. FaceEvery /\ roiAge \in 1 .. RoiEvery
  /\ misses \in [Ids -> 0 .. MissCap]
  /\ skips \in [Ids -> 0 .. BackoffMax]
  /\ IsInjective(turns) /\ ToSet(turns) \subseteq Ids
  /\ costs \subseteq RoiCosts
  /\ credit \in -Cap .. Cap

NoEntries == [i \in Ids |-> 0]

Init ==
  /\ nextId = 1 /\ tracks = {} /\ stated = {}
  /\ faceAge = FaceEvery /\ roiAge = RoiEvery
  /\ misses = NoEntries /\ skips = NoEntries /\ turns = <<>>
  /\ costs = {} /\ credit = 0
  /\ passed = {} /\ waiting = {}

-----------------------------------------------------------------------------
(* The budget.                                                             *)

(* The 95th percentile of what passes took so far: somewhere between the   *)
(* fastest and the slowest, and 0 as long as there was none.               *)
Estimates == IF costs = {} THEN {0} ELSE Min(costs) .. Max(costs)

Fits(spent, estimate) == spent + estimate < Floor /\ estimate <= credit

Clipped(c) == IF c > Cap THEN Cap ELSE IF c < -Cap THEN -Cap ELSE c

Settled(cost) == Clipped(credit + 1 - cost)

-----------------------------------------------------------------------------
(* Who is looked at.                                                       *)
Aged(age, every) == IF age < every THEN age + 1 ELSE every

(* A person never looked at comes first, then whoever's turn was earliest. *)
Rank(order, i) == IF i \in ToSet(order) THEN CHOOSE n \in DOMAIN order : order[n] = i ELSE 0

(* Slip: the order of the scores alone, here that of the numbers.          *)
RankByScore(order, i) == i

Place(order, i) == Rank(order, i)

(* The ways in which a pass may go through the persons it can search.      *)
Rounds(persons, order) ==
  {s \in SetToSeqs(persons) :
     \A a, b \in DOMAIN s : a < b => Place(order, s[a]) <= Place(order, s[b])}

(* As many as a pass may take of those tall enough; a small person uses up *)
(* no place.                                                               *)
LookedAt(round, tall) ==
  LET r == SelectSeq(round, LAMBDA i : i \in tall)
  IN  SubSeq(r, 1, Min({MaxPerPass, Len(r)}))

(* Longer and longer breaks for persons whose crops come up empty.         *)
Missed(n) == Min({n + 1, MissCap})
Break(n) == Min({2 ^ Missed(n), BackoffMax})

(* What the candidate search leaves of the back-off: nothing for persons   *)
(* who are served (a large face, or confirmed) or gone, one skip less for  *)
(* the others.                                                             *)
MissesOf(served, live) == [i \in Ids |-> IF i \in live \ served THEN misses[i] ELSE 0]
SkipsOf(served, live) ==
  [i \in Ids |-> IF i \in live \ served /\ skips[i] > 0 THEN skips[i] - 1 ELSE 0]
TurnsOf(live) == SelectSeq(turns, LAMBDA i : i \in live)

Candidates(served, live) == {i \in live \ served : skips[i] = 0}

-----------------------------------------------------------------------------
(* One frame.                                                              *)
NewTracks(kept, n) == kept \cup (nextId .. nextId + n - 1)

(* The detector sees some of the persons again and some for the first time. *)
TracksMove ==
  \E kept \in SUBSET tracks, n \in 0 .. MaxId + 1 - nextId :
    /\ tracks' = NewTracks(kept, n)
    /\ nextId' = nextId + n

(* No face pass is due.                                                    *)
QuietFrame ==
  /\ faceAge < FaceEvery
  /\ TracksMove
  /\ faceAge' = Aged(faceAge, FaceEvery) /\ roiAge' = Aged(roiAge, RoiEvery)
  /\ stated' \in SUBSET (stated \cap tracks')
  /\ credit' = Settled(0)
  /\ passed' = {} /\ waiting' = waiting \cap tracks'
  /\ UNCHANGED <<backoff, costs>>

(* A face pass finds large faces for some; who is left and tall enough     *)
(* could use a look.                                                       *)
Seen(full, tall) ==
  /\ faceAge = FaceEvery
  /\ TracksMove
  /\ full \subseteq tracks' /\ tall \subseteq tracks' \ full
  /\ faceAge' = 1
  /\ waiting' = tall \ stated
  /\ stated' \in SUBSET tracks'

(* Without anybody in the frame the bookkeeping is not even tidied.        *)
FaceFrame(full, tall, cost) ==
  LET served == full \cup stated IN
  /\ Seen(full, tall)
  /\ \/ roiAge < RoiEvery
     \/ Candidates(served, tracks') = {}
     \/ \E e \in Estimates : ~Fits(cost, e)
  /\ IF tracks' = {}
     THEN UNCHANGED backoff
     ELSE /\ misses' = MissesOf(served, tracks')
          /\ skips' = SkipsOf(served, tracks')
          /\ turns' = TurnsOf(tracks')
  /\ roiAge' = Aged(roiAge, RoiEvery)
  /\ credit' = Settled(cost)
  /\ passed' = {}
  /\ UNCHANGED costs

RoiFrame(full, tall, cost, roiCost) ==
  LET served == full \cup stated
      open == Candidates(served, tracks') IN
  /\ Seen(full, tall)
  /\ roiAge = RoiEvery
  /\ open # {}
  /\ \E e \in Estimates : Fits(cost, e)
  /\ \E round \in Rounds(open, TurnsOf(tracks')) :
       LET looked == LookedAt(round, tall) IN
       \E hits \in SUBSET ToSet(looked) :
         /\ passed' = ToSet(looked)
         /\ turns' = SelectSeq(TurnsOf(tracks'), LAMBDA i : i \notin ToSet(looked)) \o looked
         /\ misses' = [i \in Ids |->
              IF i \in hits THEN 0
              ELSE IF i \in ToSet(looked) THEN Missed(misses[i])
              ELSE MissesOf(served, tracks')[i]]
         /\ skips' = [i \in Ids |->
              IF i \in hits THEN 0
              ELSE IF i \in ToSet(looked) THEN Break(misses[i])
              ELSE SkipsOf(served, tracks')[i]]
  /\ roiAge' = 1
  /\ costs' = costs \cup {roiCost}
  /\ credit' = Settled(cost + roiCost)

Forgets ==
  /\ nextId' = 1 /\ tracks' = {} /\ stated' = {}
  /\ misses' = NoEntries /\ skips' = NoEntries /\ turns' = <<>>
  /\ credit' = 0

(* The first frame of a new connection is about to be searched: the        *)
(* persons and the budget are forgotten and every stage is due, but what   *)
(* passes took is remembered, also a last one whose frame was abandoned.   *)
Reconnects ==
  /\ Forgets
  /\ faceAge' = FaceEvery /\ roiAge' = RoiEvery
  /\ passed' = {} /\ waiting' = {}
  /\ \/ UNCHANGED costs
     \/ /\ \E e \in Estimates, cost \in FaceCosts : Fits(cost, e)
        /\ \E c \in RoiCosts : costs' = costs \cup {c}

Frame ==
  \/ QuietFrame
  \/ \E full, tall \in SUBSET Ids, cost \in FaceCosts :
       \/ FaceFrame(full, tall, cost)
       \/ \E roiCost \in RoiCosts : RoiFrame(full, tall, cost, roiCost)

Next == Frame \/ Reconnects

Spec == Init /\ [][Next]_vars

(* Frames keep coming; module SourceEpochs says when they are searched.    *)
FairSpec == Spec /\ WF_vars(Frame)
=============================================================================
