--------------------------- MODULE RoiSchedulerProps ---------------------------
(***************************************************************************)
(* What RoiScheduler is checked for.                                       *)
(***************************************************************************)
EXTENDS RoiScheduler

(* Whoever could use a look in every frame from some time on gets one      *)
(* again and again, whatever scores, back-offs and costs the others have,  *)
(* where the loop has some time to spare, a pass costs no more than the    *)
(* credit that may be saved up, and newcomers, who go first, do not keep   *)
(* coming within one connection (MaxId).                                   *)
EveryTrackGetsItsTurn ==
  \A i \in Ids : []<>(i \in passed \/ i \notin waiting)

(* The docstring of _settle_budget_credit: "one catastrophic pass must not *)
(* starve the optional stage for an unbounded stretch afterwards".  A pass *)
(* that took longer than any credit may grow to does not end the stage: as *)
(* long as somebody could use a look, another pass comes.                  *)
SlowPassIsForgiven ==
  (\E c \in costs : c > Cap) ~> (passed # {} \/ waiting = {})
=============================================================================
