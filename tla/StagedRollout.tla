---------------------------- MODULE StagedRollout ----------------------------
(***************************************************************************)
(* What the Copper loop promises about who holds which seat and who moves  *)
(* the hardware, with no loop, commands, ticks, evidence or book keeping.  *)
(*                                                                         *)
(* A controller is on trial when it is loaded, may become the canary, then *)
(* the active controller, then the standby kept for a fail-over; once out  *)
(* it never comes back.  Each seat has at most one holder.                 *)
(***************************************************************************)
CONSTANTS Controllers, None

VARIABLES
    seat,   \* the seat of every controller
    mover   \* the controller whose command is on the hardware, or None

vars == <<seat, mover>>

Seats == {"unseen", "trial", "canary", "active", "standby", "out"}

Onlooker == {"trial", "canary"}     \* the seats of the candidate slot

Holders(seats) == {c \in Controllers : seat[c] \in seats}

Init == seat = [c \in Controllers |-> "unseen"] /\ mover = None

\* Everyone in one of the seats from moves to the seat to
Reseat(from, to) ==
    seat' = [c \in Controllers |-> IF seat[c] \in from THEN to ELSE seat[c]]

\* A new controller takes the trial seat from whoever is on trial or canary
Load(c) ==
    /\ seat[c] = "unseen"
    /\ seat' = [d \in Controllers |->
                  IF d = c THEN "trial"
                  ELSE IF seat[d] \in Onlooker THEN "out" ELSE seat[d]]
    /\ UNCHANGED mover

\* The canary seat is given and taken back
BecomeCanary == Reseat({"trial"}, "canary") /\ UNCHANGED mover
BackToTrial  == Reseat({"canary"}, "trial") /\ UNCHANGED mover

\* The candidate becomes active, the active one the standby
Graduate ==
    /\ Holders(Onlooker) # {}
    /\ IF Holders({"active"}) = {} THEN Reseat(Onlooker, "active")
       ELSE seat' = [c \in Controllers |->
                       CASE seat[c] \in Onlooker -> "active"
                         [] seat[c] = "active"   -> "standby"
                         [] seat[c] = "standby"  -> "out"
                         [] OTHER                -> seat[c]]
    /\ UNCHANGED mover

\* The candidate leaves, and the hardware may be stopped
Retire == Reseat(Onlooker, "out") /\ mover' \in {mover, None}

\* The active controller failed and the hardware is stopped: the standby takes
\* over and a canary goes back on trial, or nobody is left to take over
FailOver ==
    /\ Holders({"active"}) # {} /\ Holders({"standby"}) # {}
    /\ seat' = [c \in Controllers |->
                  CASE seat[c] = "active"  -> "out"
                    [] seat[c] = "standby" -> "active"
                    [] seat[c] = "canary"  -> "trial"
                    [] OTHER               -> seat[c]]
    /\ mover' = None

FailStop ==
    /\ Holders({"active"}) # {}
    /\ Reseat({"active", "standby"}, "out")
    /\ mover' = None

\* A frame on the hardware: the command of the active controller or of the
\* canary, or the zero frame
Move == mover' \in Holders({"canary", "active"}) \union {None} /\ UNCHANGED seat

\* The loop ends
Stop == Reseat(Seats \ {"unseen"}, "out") /\ UNCHANGED mover

Next ==
    \/ \E c \in Controllers : Load(c)
    \/ BecomeCanary \/ BackToTrial \/ Graduate \/ Retire
    \/ FailOver \/ FailStop \/ Move \/ Stop

Spec == Init /\ [][Next]_vars
=============================================================================
