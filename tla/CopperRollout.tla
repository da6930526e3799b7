---------------------------- MODULE CopperRollout ----------------------------
(***************************************************************************)
(* The Copper loop implements the staged rollout.                          *)
(***************************************************************************)
EXTENDS CopperLoop

\* A loaded controller that is in no slot is out for good
SeatOf(c) ==
    CASE c = active    -> "active"
      [] c = rollback  -> "standby"
      [] c = candidate -> IF candidate_state = "Canary" THEN "canary" ELSE "trial"
      [] OTHER         -> IF c \in loaded THEN "out" ELSE "unseen"

Seat == [c \in Controllers |-> SeatOf(c)]

Mover == IF frame.kind = "command" THEN frame.by ELSE None

Rollout == INSTANCE StagedRollout
    WITH seat <- Seat, mover <- Mover

\* Every iteration of the loop, with its ticks, fail-overs, rejections and
\* canary budget, is a sequence of steps of the staged rollout
ImplementsStagedRollout == Rollout!Spec
=============================================================================
