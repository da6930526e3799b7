-------------------------- MODULE CopperRolloutProofs --------------------------
(***************************************************************************)
(* The proof that the Copper loop implements the staged rollout, for any   *)
(* set of controllers and any policy.                                      *)
(***************************************************************************)
EXTENDS CopperRollout, CopperLoopProofs

USE NoneAssumption, PolicyAssumption

\* A controller's seat tells its slot, since no controller is in two slots
LEMMA SeatFacts ==
    ASSUME SlotsDistinct, NEW c \in Controllers
    PROVE  /\ Seat[c] = SeatOf(c)
           /\ Seat[c] = "active" <=> c = active
           /\ Seat[c] = "standby" <=> c = rollback
           /\ Seat[c] = "canary" <=> c = candidate /\ candidate_state = "Canary"
           /\ Seat[c] = "trial" <=> c = candidate /\ candidate_state # "Canary"
           /\ Seat[c] = "out" <=> c \notin {active, rollback, candidate} /\ c \in loaded
           /\ Seat[c] = "unseen" <=>
                c \notin {active, rollback, candidate} /\ c \notin loaded
  BY DEF Seat, SeatOf, SlotsDistinct

\* The loop starts as the staged rollout does
LEMMA RolloutInit == Init => Rollout!Init
  BY DEF Init, Rollout!Init, Seat, SeatOf, Mover

\* Steps that touch neither the slots, the stage nor the frame
LEMMA RolloutStutters ==
    ASSUME UNCHANGED <<active, candidate, rollback, candidate_state, loaded, frame>>
    PROVE  UNCHANGED Rollout!vars
  BY DEF Rollout!vars, Seat, SeatOf, Mover

\* Steps that only send a frame
LEMMA RolloutMoves ==
    ASSUME SlotsDistinct,
           UNCHANGED <<active, candidate, rollback, candidate_state, loaded>>,
           Mover' = None \/ (Mover' = active /\ active \in Controllers)
             \/ (Mover' = candidate /\ candidate \in Controllers
                 /\ candidate_state = "Canary")
    PROVE  Rollout!Move
  <1>1. UNCHANGED Seat
    BY DEF Seat, SeatOf
  <1>2. Mover' \in {c \in Controllers : Seat[c] \in {"canary", "active"}} \union {None}
    BY SeatFacts
  <1> QED BY <1>1, <1>2 DEF Rollout!Move, Rollout!Holders

\* The candidate leaves its slot
LEMMA RolloutRetires ==
    ASSUME SlotsDistinct, SlotsLoaded, Retires, UNCHANGED loaded,
           Mover' \in {Mover, None}
    PROVE  Rollout!Retire
  <1>1. \A c \in Controllers :
          SeatOf(c)' = IF Seat[c] \in {"trial", "canary"} THEN "out" ELSE Seat[c]
    BY SeatFacts DEF SeatOf, Retires, SlotsDistinct, SlotsLoaded
  <1> QED BY <1>1 DEF Rollout!Retire, Rollout!Reseat, Rollout!Onlooker, Seat

\* The candidate enters a stage, or its stage is put back to VerifiedOnly
LEMMA RolloutRestages ==
    ASSUME SlotsDistinct,
           UNCHANGED <<active, candidate, rollback, loaded, frame>>
    PROVE  Rollout!BecomeCanary \/ Rollout!BackToTrial \/ UNCHANGED Rollout!vars
  <1>1. UNCHANGED Mover
    BY DEF Mover
  <1>2. CASE candidate_state' = "Canary"
    <2>1. \A c \in Controllers :
            SeatOf(c)' = IF Seat[c] \in {"trial"} THEN "canary" ELSE Seat[c]
      BY <1>2, SeatFacts DEF SeatOf
    <2> QED BY <1>1, <2>1 DEF Rollout!BecomeCanary, Rollout!Reseat, Seat
  <1>3. CASE candidate_state' # "Canary"
    <2>1. \A c \in Controllers :
            SeatOf(c)' = IF Seat[c] \in {"canary"} THEN "trial" ELSE Seat[c]
      BY <1>3, SeatFacts DEF SeatOf
    <2> QED BY <1>1, <2>1 DEF Rollout!BackToTrial, Rollout!Reseat, Seat
  <1> QED BY <1>2, <1>3

\* promote_candidate_to_active is Graduate
LEMMA RolloutGraduates ==
    ASSUME SlotsDistinct, SlotsLoaded, TypeOK, Graduates, candidate # None,
           UNCHANGED <<loaded, frame>>
    PROVE  Rollout!Graduate
  <1>1. UNCHANGED Mover
    BY DEF Mover
  <1>2. candidate \in Controllers
    BY DEF TypeOK, DataOK, MaybeController
  <1>3. {c \in Controllers : Seat[c] \in {"trial", "canary"}} # {}
    BY <1>2, SeatFacts
  <1>4. CASE active = None
    <2>1. {c \in Controllers : Seat[c] \in {"active"}} = {}
      BY <1>4, SeatFacts
    <2>2. \A c \in Controllers :
            SeatOf(c)' = IF Seat[c] \in {"trial", "canary"} THEN "active" ELSE Seat[c]
      BY <1>4, SeatFacts DEF SeatOf, Graduates, Stash, SlotsDistinct
    <2> QED BY <1>1, <1>3, <2>1, <2>2 DEF Rollout!Graduate, Rollout!Reseat,
               Rollout!Holders, Rollout!Onlooker, Seat
  <1>5. CASE active # None
    <2>1. {c \in Controllers : Seat[c] \in {"active"}} # {}
      <3>1. active \in Controllers
        BY <1>5 DEF TypeOK, DataOK, MaybeController
      <3> QED BY <3>1, SeatFacts
    <2>2. \A c \in Controllers :
            SeatOf(c)' = CASE Seat[c] \in {"trial", "canary"} -> "active"
                           [] Seat[c] = "active"   -> "standby"
                           [] Seat[c] = "standby"  -> "out"
                           [] OTHER                -> Seat[c]
      BY <1>5, SeatFacts DEF SeatOf, Graduates, Stash, SlotsDistinct, SlotsLoaded
    <2> QED BY <1>1, <1>3, <2>1, <2>2, Zenon DEF Rollout!Graduate, Rollout!Holders,
               Rollout!Onlooker, Seat
  <1> QED BY <1>4, <1>5

\* A PreparedArtifact command is Load
LEMMA RolloutLoads ==
    ASSUME SlotsDistinct, SlotsLoaded, NEW c \in Controllers, ProcessLoad(c)
    PROVE  Rollout!Load(c)
  <1>1. UNCHANGED Mover
    BY DEF Mover, ProcessLoad, outputs
  <1>2. Seat[c] = "unseen"
    BY SeatFacts DEF SlotsLoaded, ProcessLoad
  <1>3. candidate_state' = "VerifiedOnly"
    BY DEF ProcessLoad, LoadArtifact
  <1>4. \A d \in Controllers :
          SeatOf(d)' = IF d = c THEN "trial"
                       ELSE IF Seat[d] \in {"trial", "canary"} THEN "out" ELSE Seat[d]
    BY <1>3, SeatFacts DEF SeatOf, ProcessLoad, SlotsLoaded, SlotsDistinct
  <1> QED BY <1>1, <1>2, <1>4 DEF Rollout!Load, Rollout!Onlooker, Seat

\* restore_last_known_good_controller is FailOver
LEMMA RolloutFailsOver ==
    ASSUME SlotsDistinct, SlotsLoaded, ResultsFit, TypeOK, FailOver
    PROVE  Rollout!FailOver
  <1>1. Mover' = None
    BY DEF Mover, FailOver, ZeroFrame
  <1>2. active \in Controllers /\ rollback \in Controllers
    BY DEF FailOver, CanFailOver, ResultsFit, TypeOK, DataOK, MaybeController
  <1>3. /\ {c \in Controllers : Seat[c] \in {"active"}} # {}
        /\ {c \in Controllers : Seat[c] \in {"standby"}} # {}
    BY <1>2, SeatFacts
  <1>4. \A c \in Controllers :
          SeatOf(c)' = CASE Seat[c] = "active"  -> "out"
                         [] Seat[c] = "standby" -> "active"
                         [] Seat[c] = "canary"  -> "trial"
                         [] OTHER               -> Seat[c]
    BY <1>2, SeatFacts DEF SeatOf, FailOver, SlotsLoaded, SlotsDistinct, outside,
       NoState
  <1> QED BY <1>1, <1>3, <1>4 DEF Rollout!FailOver, Rollout!Holders, Seat

\* A failure with nothing to restore is FailStop
LEMMA RolloutFailStops ==
    ASSUME SlotsDistinct, SlotsLoaded, ResultsFit, TypeOK, FailStop
    PROVE  Rollout!FailStop
  <1>1. Mover' = None
    BY DEF Mover, FailStop, ZeroFrame
  <1>2. active \in Controllers
    BY DEF FailStop, ResultsFit, TypeOK, DataOK, MaybeController
  <1>3. {c \in Controllers : Seat[c] \in {"active"}} # {}
    BY <1>2, SeatFacts
  <1>4. \A c \in Controllers :
          SeatOf(c)' = IF Seat[c] \in {"active", "standby"} THEN "out" ELSE Seat[c]
    BY SeatFacts DEF SeatOf, FailStop, SlotsLoaded, SlotsDistinct, rollout
  <1> QED BY <1>1, <1>3, <1>4 DEF Rollout!FailStop, Rollout!Holders, Rollout!Reseat,
             Seat

\* The epilogue is Stop
LEMMA RolloutStops ==
    ASSUME SlotsDistinct, SlotsLoaded, Finalize
    PROVE  Rollout!Stop
  <1>1. UNCHANGED Mover
    BY DEF Mover, Finalize
  <1>2. \A c \in Controllers :
          SeatOf(c)' = IF Seat[c] \in {"trial", "canary", "active", "standby", "out"}
                       THEN "out" ELSE Seat[c]
    BY SeatFacts DEF SeatOf, Finalize, SlotsLoaded, outside
  <1>3. Rollout!Seats \ {"unseen"} = {"trial", "canary", "active", "standby", "out"}
    BY SMTT(30) DEF Rollout!Seats
  <1> QED BY <1>1, <1>2, <1>3 DEF Rollout!Stop, Rollout!Reseat, Seat

\* Every step of the loop is a step of the staged rollout or a stutter
LEMMA RolloutStep ==
    TypeOK /\ Consistent /\ [Next]_vars => [Rollout!Next]_(Rollout!vars)
  <1> SUFFICES ASSUME TypeOK, Consistent, [Next]_vars
               PROVE  Rollout!Next \/ UNCHANGED Rollout!vars
    OBVIOUS
  <1> USE DEF Consistent, Rollout!Next
  <1>1. CASE Head \/ DrainEmergencyHalt \/ EmergencyDrained \/ CommandsDrained
                  \/ WatchdogQuiet \/ TickActive \/ SkipCandidate \/ TickCandidate
                  \/ CanaryWithin \/ AdvanceReturns \/ Publish \/ ProcessHalt \/
                  ProcessResume \/ ProcessUpdateParams \/ AgentFallsSilent \/
                  DropSendsHalt \/ RaiseShutdown \/ TakeEstop \/ UNCHANGED vars
    <2>1. UNCHANGED <<active, candidate, rollback, candidate_state, loaded, frame>>
      BY <1>1, Zenon DEF Head, DrainEmergencyHalt, EmergencyDrained, CommandsDrained,
         WatchdogQuiet, TickActive, SkipCandidate, TickCandidate, CanaryWithin,
         AdvanceReturns, Publish, ProcessHalt, ProcessResume, ProcessUpdateParams,
         AgentFallsSilent, DropSendsHalt, RaiseShutdown, TakeEstop, HaltAll, vars,
         slots, rollout, books, locals, outside, outputs
    <2> QED BY <2>1, RolloutStutters, SMTT(30)
  <1>2. CASE WatchdogFires
    <2>1. Mover' = None
      BY <1>2 DEF WatchdogFires, Mover, ZeroFrame
    <2> QED BY <1>2, <2>1, RolloutMoves DEF WatchdogFires, rollout
  <1>3. CASE FailOver
    BY <1>3, RolloutFailsOver
  <1>4. CASE FailStop
    BY <1>4, RolloutFailStops
  <1>5. CASE RejectFailed
    <2>1. Retires /\ (frame' = ZeroFrame \/ frame' = frame)
      BY <1>5, RejectingOutcomes DEF RejectFailed, Rejecting
    <2>2. Mover' \in {Mover, None}
      BY <2>1 DEF Mover, ZeroFrame
    <2> QED BY <1>5, <2>1, <2>2, RolloutRetires DEF RejectFailed
  <1>6. CASE CanaryClips
    <2>1. CASE OverBudget(bounded_canary_ticks')
      <3>1. Retires /\ (frame' = ZeroFrame \/ frame' = frame)
        BY <1>6, <2>1, RejectingOutcomes DEF CanaryClips, Rejecting
      <3>2. Mover' \in {Mover, None}
        BY <3>1 DEF Mover, ZeroFrame
      <3> QED BY <1>6, <3>1, <3>2, RolloutRetires DEF CanaryClips
    <2>2. CASE ~OverBudget(bounded_canary_ticks')
      BY <1>6, <2>2, RolloutStutters DEF CanaryClips
    <2> QED BY <2>1, <2>2
  <1>7. CASE Actuate
    <2>1. UNCHANGED <<active, candidate, rollback, candidate_state, loaded>>
      BY <1>7 DEF Actuate, slots, rollout, outside
    <2>2. CASE CandidateIsCanary /\ candidate_result = "command"
      <3>1. Mover' = candidate /\ candidate \in Controllers
        BY <1>7, <2>2 DEF Actuate, Mover, Command, CandidateIsCanary,
           CandidateRunning, TypeOK, DataOK, MaybeController
      <3> QED BY <2>1, <2>2, <3>1, RolloutMoves DEF CandidateIsCanary
    <2>3. CASE ~(CandidateIsCanary /\ candidate_result = "command")
               /\ active_result = "command"
      <3>1. Mover' = active /\ active \in Controllers
        BY <1>7, <2>3 DEF Actuate, Mover, Command, ResultsFit, ActiveRunning,
           TypeOK, DataOK, MaybeController
      <3> QED BY <2>1, <3>1, RolloutMoves
    <2>4. CASE ~(CandidateIsCanary /\ candidate_result = "command")
               /\ active_result # "command"
      BY <1>7, <2>1, <2>4, RolloutStutters DEF Actuate
    <2> QED BY <2>2, <2>3, <2>4
  <1>8. CASE Advances
    <2>1. /\ UNCHANGED <<loaded, frame>> /\ candidate # None
          /\ Graduates \/ Enters \/ Retires \/ Stays
      BY <1>8, AdvanceOutcomes DEF Advancing, outside, outputs
    <2>2. UNCHANGED Mover
      BY <2>1 DEF Mover
    <2>3. CASE Graduates
      BY <2>1, <2>3, RolloutGraduates
    <2>4. CASE Enters
      BY <2>1, <2>4, RolloutRestages DEF Enters
    <2>5. CASE Retires
      BY <2>1, <2>2, <2>5, RolloutRetires
    <2>6. CASE Stays
      BY <2>1, <2>6, RolloutStutters DEF Stays, slots
    <2> QED BY <2>1, <2>3, <2>4, <2>5, <2>6
  <1>9. CASE Finalize
    BY <1>9, RolloutStops
  <1>10. CASE ProcessPromoteActive
    BY <1>10, RolloutRestages DEF ProcessPromoteActive, slots, outside, outputs
  <1>11. CASE \E c \in Controllers : ProcessLoad(c)
    BY <1>11, RolloutLoads
  <1> QED
    BY <1>1, <1>2, <1>3, <1>4, <1>5, <1>6, <1>7, <1>8, <1>9, <1>10, <1>11, Zenon
       DEF Next, LoopStep, ProcessCommand, Environment, Advances

\* The loop implements the staged rollout: a controller moves the hardware only
\* as canary or active, never comes back once it is out, and takes over from
\* a failed one only from the standby seat and with the hardware stopped
THEOREM LoopImplementsStagedRollout == Spec => ImplementsStagedRollout
  BY RolloutInit, RolloutStep, TypeCorrect, LoopConsistent, PTL
     DEF Spec, ImplementsStagedRollout, Rollout!Spec

-----------------------------------------------------------------------------
\* A rollout has a bounded number of ticks

\* An armed candidate has a stage, which is left as soon as its window is full or
\* its budget spent
WindowOpen ==
    /\ Armed => candidate_state \in {"VerifiedOnly", "Shadow", "Canary"}
    /\ candidate_state = "Shadow" => shadow_ticks < ShadowTicksRequired
    /\ candidate_state = "Canary" =>
         /\ canary_ticks < CanaryTicksRequired
         /\ bounded_canary_ticks <= MaxBoundedCanaryTicks

LEMMA RequiredTicks ==
    /\ ShadowTicksRequired \in Nat /\ ShadowTicksRequired > 0
    /\ CanaryTicksRequired \in Nat /\ CanaryTicksRequired > 0
  BY DEF ShadowTicksRequired, CanaryTicksRequired

LEMMA Windows ==
    ASSUME NEW k \in Nat, NEW n \in Nat
    PROVE  k * n \in Nat /\ (k + 1) * n = k * n + n
  OBVIOUS

\* A candidate that keeps its slot when it leaves a stage is one the loop and
\* the lifecycle agree about: evidence of another stage, or about another
\* artifact, is refused
LEMMA LeaveAgrees ==
    ASSUME TypeOK, Advancing, NEW shadow, NEW canary, candidate' # None,
           LeaveStage(EvidenceModeFor(candidate_state), shadow, canary)
    PROVE  /\ LifecycleAgrees
           /\ NextTarget(candidate_state) \in {"Shadow", "Canary"}
           /\ EnterStage(NextTarget(candidate_state), shadow)
           /\ lifecycle'.artifact = candidate
           /\ lifecycle'.state = NextTarget(candidate_state)
  <1> DEFINE target == NextTarget(candidate_state)
             mode == EvidenceModeFor(candidate_state)
             ev == [controller |-> candidate, mode |-> mode, pass |-> collector]
             lc == SubmitEvidence(lifecycle, ev)
  <1>1. /\ target \in {"Shadow", "Canary", "Active"}
        /\ candidate_state \in {"VerifiedOnly", "Shadow", "Canary"}
    BY DEF Advancing, NextTarget, NoState
  <1>2. CanSubmit(lifecycle, ev) /\ CanPromoteTo(lc, target)
    <2>1. SUFFICES ASSUME ~(CanSubmit(lifecycle, ev) /\ CanPromoteTo(lc, target))
                   PROVE  FALSE
      OBVIOUS
    <2>2. RejectCandidate(lc, active # None)
      BY <2>1 DEF LeaveStage
    <2> QED BY <2>2, RejectRetires
  <1>3. lifecycle' = PromoteTo(lc, target)
    BY <1>2 DEF LeaveStage
  <1>4. target # "Active"
    BY <1>2 DEF LeaveStage, PromoteCandidateToActive
  <1>5. EnterStage(target, shadow)
    BY <1>2, <1>4 DEF LeaveStage
  <1>6. lc = [lifecycle EXCEPT !.evidence = ev] /\ ev.controller = lifecycle.artifact
    BY <1>2 DEF SubmitEvidence, CanSubmit
  <1>7. lifecycle.artifact = candidate
    BY <1>6
  <1>8. lc.evidence = ev /\ lc.state = lifecycle.state /\ lc.artifact = candidate
    BY <1>6, <1>7, ZenonT(30) DEF TypeOK, DataOK, Lifecycles
  <1>9. ev.mode = EvidenceModeFor(lifecycle.state)
    BY <1>2, <1>8 DEF CanPromoteTo
  <1>10. lifecycle.state = candidate_state
    BY <1>1, <1>9 DEF EvidenceModeFor
  <1>11. lifecycle'.artifact = candidate /\ lifecycle'.state = target
    BY <1>3, <1>6, <1>7 DEF PromoteTo, TypeOK, DataOK, Lifecycles
  <1> QED BY <1>1, <1>4, <1>5, <1>7, <1>10, <1>11 DEF LifecycleAgrees

\* A call of advance_candidate_stage that keeps the candidate in its slot counts
\* the tick or opens the next stage
CountsTick ==
    /\ UNCHANGED <<lifecycle, candidate_state, bounded_canary_ticks>>
    /\ \/ /\ candidate_state = "Shadow"
          /\ shadow_ticks + 1 < ShadowTicksRequired
          /\ shadow_ticks' = shadow_ticks + 1
       \/ /\ candidate_state = "Canary"
          /\ bounded \/ canary_ticks + 1 < CanaryTicksRequired
          /\ canary_ticks' = IF bounded THEN 0 ELSE canary_ticks + 1

OpensStage ==
    /\ LifecycleAgrees /\ LifecycleAgrees'
    /\ candidate_state' = NextTarget(candidate_state)
    /\ candidate_state' = "Shadow" => shadow_ticks' = 0
    /\ candidate_state' = "Canary" => canary_ticks' = 0 /\ bounded_canary_ticks' = 0
    /\ candidate_state' \in {"Shadow", "Canary"}

LEMMA AdvanceKeeping ==
    ASSUME TypeOK, Advances, candidate' # None
    PROVE  CountsTick \/ OpensStage
  <1>1. Advancing
    BY DEF Advances, AdvanceVerifiedOnly, AdvanceShadow, AdvanceCanary
  <1>2. ASSUME NEW shadow, NEW canary,
               LeaveStage(EvidenceModeFor(candidate_state), shadow, canary)
        PROVE  OpensStage
    <2>1. /\ LifecycleAgrees
          /\ NextTarget(candidate_state) \in {"Shadow", "Canary"}
          /\ EnterStage(NextTarget(candidate_state), shadow)
          /\ lifecycle'.artifact = candidate
          /\ lifecycle'.state = NextTarget(candidate_state)
      BY <1>1, <1>2, LeaveAgrees
    <2>2. candidate' = candidate /\ candidate_state' = NextTarget(candidate_state)
      BY <2>1 DEF EnterStage
    <2>3. LifecycleAgrees'
      BY <2>1, <2>2 DEF LifecycleAgrees
    <2> QED BY <2>1, <2>2, <2>3 DEF OpensStage, EnterStage
  <1>3. /\ EvidenceModeFor("VerifiedOnly") = "Verify"
        /\ EvidenceModeFor("Shadow") = "Shadow"
        /\ EvidenceModeFor("Canary") = "Canary"
    BY DEF EvidenceModeFor
  <1>4. CASE AdvanceVerifiedOnly
    BY <1>2, <1>3, <1>4 DEF AdvanceVerifiedOnly
  <1>5. CASE AdvanceShadow
    <2>1. CASE shadow_ticks + 1 >= ShadowTicksRequired
      BY <1>2, <1>3, <1>5, <2>1 DEF AdvanceShadow
    <2>2. CASE ~(shadow_ticks + 1 >= ShadowTicksRequired)
      BY <1>5, <2>2, RequiredTicks DEF AdvanceShadow, CountsTick, books, TypeOK, DataOK
    <2> QED BY <2>1, <2>2
  <1>6. CASE AdvanceCanary
    <2>1. CASE ~bounded /\ canary_ticks + 1 >= CanaryTicksRequired
      BY <1>2, <1>3, <1>6, <2>1 DEF AdvanceCanary
    <2>2. CASE ~(~bounded /\ canary_ticks + 1 >= CanaryTicksRequired)
      BY <1>6, <2>2, RequiredTicks, SMTT(30) DEF AdvanceCanary, CountsTick, books, TypeOK, DataOK
    <2> QED BY <2>1, <2>2
  <1> QED BY <1>4, <1>5, <1>6 DEF Advances

\* The steps that leave the rollout and the lifecycle alone, and no clipped tick
\* uncounted
Idles ==
    /\ UNCHANGED <<lifecycle, candidate_state, shadow_ticks, canary_ticks,
                   bounded_canary_ticks>>
    /\ candidate' \in {candidate, None}
    /\ promotion_requested' => promotion_requested
    /\ ~(pc = "advance" /\ Advancing)
    /\ bounded' /\ pc' \in {"actuate", "advance"} =>
         bounded /\ pc \in {"actuate", "advance"}

LEMMA ProgressKinds ==
    ASSUME TypeOK, Next
    PROVE  \/ Idles
           \/ CanaryClips
           \/ Advances
           \/ candidate_state' \in {NoState, "VerifiedOnly"} /\ ~promotion_requested'
           \/ /\ candidate_state' = "VerifiedOnly" /\ pc = "drain"
              /\ UNCHANGED <<pc, lifecycle, candidate>>
  <1> USE DEF Idles, slots, rollout, books, locals
  <1>1. CASE Head \/ DrainEmergencyHalt \/ EmergencyDrained \/ CommandsDrained
             \/ WatchdogQuiet \/ WatchdogFires \/ TickActive \/ SkipCandidate
             \/ TickCandidate \/ Publish \/ FailStop
    <2>1. /\ UNCHANGED <<candidate, rollout, lifecycle>>
          /\ pc' \notin {"actuate", "advance"} /\ pc # "advance"
      BY <1>1, Zenon DEF Head, DrainEmergencyHalt, EmergencyDrained, CommandsDrained,
         WatchdogQuiet, WatchdogFires, TickActive, SkipCandidate, TickCandidate,
         Publish, FailStop
    <2> QED BY <2>1, SMTT(30)
  <1>2. CASE ProcessHalt \/ ProcessResume \/ ProcessUpdateParams \/ Environment
    <2>1. UNCHANGED <<candidate, rollout, lifecycle, pc, bounded>> /\ pc # "advance"
      BY <1>2 DEF ProcessHalt, ProcessResume, ProcessUpdateParams, Environment,
         AgentFallsSilent, DropSendsHalt, RaiseShutdown, TakeEstop
    <2> QED BY <2>1, SMTT(30)
  <1>3. CASE CanaryWithin
    <2>1. UNCHANGED <<candidate, rollout, lifecycle>> /\ ~bounded' /\ pc # "advance"
      BY <1>3, Zenon DEF CanaryWithin
    <2> QED BY <2>1
  <1>4. CASE Actuate
    BY <1>4 DEF Actuate
  <1>5. CASE AdvanceReturns
    BY <1>5, Zenon DEF AdvanceReturns
  <1>6. CASE FailOver
    <2>1. ~promotion_requested'
      BY <1>6, Zenon DEF FailOver
    <2> QED BY <1>6, <2>1 DEF FailOver
  <1>7. CASE RejectFailed
    BY <1>7, RejectingOutcomes DEF RejectFailed, Rejecting, Retires
  <1>8. CASE Finalize
    <2>1. UNCHANGED <<rollout, lifecycle>> /\ candidate' = None /\ pc' = "stopped" /\ pc = "finalize"
      BY <1>8 DEF Finalize
    <2> QED BY <2>1
  <1>9. CASE ProcessPromoteActive
    <2>1. CASE MayPromote
      BY <1>9, <2>1 DEF ProcessPromoteActive
    <2>2. CASE ~MayPromote
      BY <1>9, <2>2 DEF ProcessPromoteActive
    <2> QED BY <2>1, <2>2
  <1>10. CASE \E c \in Controllers : ProcessLoad(c)
    <2>1. PICK c \in Controllers : ProcessLoad(c)
      BY <1>10
    <2>2. ~promotion_requested'
      BY <2>1, Zenon DEF ProcessLoad
    <2>3. candidate_state' = "VerifiedOnly"
      BY <2>1 DEF ProcessLoad, LoadArtifact
    <2> QED BY <2>2, <2>3
  <1> QED BY <1>1, <1>2, <1>3, <1>4, <1>5, <1>6, <1>7, <1>8, <1>9, <1>10, Zenon
          DEF Next, LoopStep, ProcessCommand, Advances

\* The windows stay open and the budget is kept
LEMMA WindowOpenStep ==
    ASSUME TypeOK, Consistent, WindowOpen, [Next]_vars
    PROVE  WindowOpen'
  <1> USE RequiredTicks DEF WindowOpen, Armed, NoState
  <1>1. CASE Idles
    BY <1>1 DEF Idles
  <1>2. CASE CanaryClips
    <2>1. CASE OverBudget(bounded_canary_ticks')
      BY <1>2, <2>1, RejectRetires, Zenon DEF CanaryClips, RejectKeepingActive, RejectAndStop
    <2>2. CASE ~OverBudget(bounded_canary_ticks')
      <3>1. /\ bounded_canary_ticks' = bounded_canary_ticks + 1
            /\ UNCHANGED <<candidate, promotion_requested, candidate_state,
                           shadow_ticks, canary_ticks>>
        BY <1>2, <2>2 DEF CanaryClips
      <3> QED BY <2>2, <3>1 DEF OverBudget, TypeOK, DataOK
    <2> QED BY <2>1, <2>2
  <1>3. CASE Advances
    <2>1. CASE candidate' = None
      BY <1>3, <2>1, AdvanceOutcomes, Zenon DEF Graduates, Retires, Enters, Stays, Advancing,
         slots
    <2>2. CASE candidate' # None
      BY <1>3, <2>2, AdvanceKeeping DEF CountsTick, OpensStage, TypeOK, DataOK
    <2> QED BY <2>1, <2>2
  <1>4. CASE UNCHANGED vars
    BY <1>4 DEF vars, slots, rollout
  <1> QED BY <1>1, <1>2, <1>3, <1>4, ProgressKinds

\* What is left of a rollout is at least the tick that decides it
TicksFit ==
    /\ TicksLeft \in Nat /\ TicksLeft > 0
    /\ WholeCanary \in Nat
    /\ candidate_state = "Canary" => ClipsLeft \in Nat

LEMMA TicksLeftPositive == TypeOK /\ WindowOpen => TicksFit
  <1> SUFFICES ASSUME TypeOK, WindowOpen PROVE TicksFit
    OBVIOUS
  <1>1. WholeCanary \in Nat
    BY RequiredTicks, Windows DEF WholeCanary
  <1>2. candidate_state = "Canary" => ClipsLeft \in Nat
    BY DEF ClipsLeft, WindowOpen, TypeOK, DataOK
  <1>3. candidate_state = "Canary" => CanaryTicksLeft \in Nat /\ CanaryTicksLeft > 0
    <2>1. SUFFICES ASSUME candidate_state = "Canary"
                   PROVE  CanaryTicksLeft \in Nat /\ CanaryTicksLeft > 0
      OBVIOUS
    <2>2. ClipsLeft * CanaryTicksRequired \in Nat
      BY <1>2, <2>1, RequiredTicks, Windows
    <2>3. canary_ticks \in Nat /\ canary_ticks < CanaryTicksRequired
      BY <2>1 DEF WindowOpen, TypeOK, DataOK
    <2> QED BY <2>2, <2>3, RequiredTicks DEF CanaryTicksLeft
  <1>4. candidate_state = "Shadow" => shadow_ticks \in Nat /\ shadow_ticks < ShadowTicksRequired
    BY DEF WindowOpen, TypeOK, DataOK
  <1> QED BY <1>1, <1>2, <1>3, <1>4, RequiredTicks DEF TicksFit, TicksLeft

LEMMA TicksStayPositive == TypeOK' /\ WindowOpen' => TicksFit'
  BY TicksLeftPositive, PTL

\* A clipped tick that has been counted has cost its window
LEMMA ClipCosts ==
    ASSUME NEW k \in Nat, NEW l \in Nat, NEW n \in Nat, l < k
    PROVE  l * n + n <= k * n
  <1>1. PICK d \in Nat : k = l + 1 + d
    <2>1. k - l - 1 \in Nat /\ k = l + 1 + (k - l - 1)
      OBVIOUS
    <2> QED BY <2>1
  <1>2. (l + 1 + d) * n = (l + 1) * n + d * n
    OBVIOUS
  <1>3. d * n \in Nat /\ (l + 1) * n = l * n + n
    BY Windows
  <1>4. l * n \in Nat
    BY Windows
  <1> QED BY <1>1, <1>2, <1>3, <1>4

\* While a candidate stays armed its rollout only gets shorter, and with each
\* tick that is counted it does
LEMMA ProgressStep ==
    ASSUME TypeOK, Consistent, WindowOpen, Next, Armed, Armed', candidate' = candidate
    PROVE  /\ TicksLeft' \in 1 .. TicksLeft
           /\ pc = "advance" /\ Advancing => TicksLeft' < TicksLeft
  <1> USE DEF Armed
  <1>1. TypeOK' /\ WindowOpen'
    BY TypeStep, WindowOpenStep
  <1>2. /\ TicksLeft \in Nat /\ TicksLeft > 0 /\ WholeCanary \in Nat
        /\ candidate_state = "Canary" => ClipsLeft \in Nat
    BY TicksLeftPositive DEF TicksFit
  <1>3. /\ TicksLeft' \in Nat /\ TicksLeft' > 0
        /\ candidate_state' = "Canary" => ClipsLeft' \in Nat
    BY <1>1, TicksStayPositive DEF TicksFit
  <1> DEFINE clipping == bounded /\ pc \in {"actuate", "advance"}
  <1>4. /\ clipping => ClipsLeft = MaxBoundedCanaryTicks - bounded_canary_ticks + 1
        /\ ~clipping => ClipsLeft = MaxBoundedCanaryTicks - bounded_canary_ticks
    BY DEF ClipsLeft, TypeOK, DataOK
  <1>5. /\ clipping' => ClipsLeft' = MaxBoundedCanaryTicks - bounded_canary_ticks' + 1
        /\ ~clipping' => ClipsLeft' = MaxBoundedCanaryTicks - bounded_canary_ticks'
    BY <1>1 DEF ClipsLeft, TypeOK, DataOK
  <1>6. CASE Idles
    <2>1. LifecycleAgrees' <=> LifecycleAgrees
      BY <1>6 DEF Idles, LifecycleAgrees
    <2>2. CASE candidate_state # "Canary"
      BY <1>2, <1>3, <1>6, <2>1, <2>2 DEF Idles, TicksLeft
    <2>3. CASE candidate_state = "Canary"
      <3>1. ClipsLeft' = ClipsLeft \/ ClipsLeft' < ClipsLeft
        BY <1>4, <1>5, <1>6 DEF Idles, TypeOK, DataOK
      <3>2. /\ ClipsLeft' * CanaryTicksRequired <= ClipsLeft * CanaryTicksRequired
            /\ ClipsLeft' * CanaryTicksRequired \in Nat
            /\ ClipsLeft * CanaryTicksRequired \in Nat
        <4>1. ClipsLeft \in Nat /\ ClipsLeft' \in Nat
          BY <1>2, <1>3, <1>6, <2>3 DEF Idles
        <4>2. /\ ClipsLeft' * CanaryTicksRequired \in Nat
              /\ ClipsLeft * CanaryTicksRequired \in Nat
          BY <4>1, RequiredTicks, Windows, Zenon
        <4>3. ClipsLeft' < ClipsLeft =>
                ClipsLeft' * CanaryTicksRequired + CanaryTicksRequired
                  <= ClipsLeft * CanaryTicksRequired
          BY <4>1, RequiredTicks, ClipCosts, Zenon
        <4> QED BY <3>1, <4>2, <4>3, RequiredTicks
      <3>3. CanaryTicksLeft' <= CanaryTicksLeft
        BY <1>6, <3>2, RequiredTicks DEF CanaryTicksLeft, Idles, TypeOK, DataOK
      <3> QED BY <1>2, <1>3, <1>6, <2>1, <2>3, <3>3 DEF Idles, TicksLeft
    <2> QED BY <2>2, <2>3
  <1>7. CASE CanaryClips
    <2>1. ~OverBudget(bounded_canary_ticks')
      BY <1>7, RejectRetires, Zenon DEF CanaryClips, RejectKeepingActive, RejectAndStop
    <2>2. /\ UNCHANGED <<lifecycle, candidate_state, canary_ticks>>
          /\ bounded_canary_ticks' = bounded_canary_ticks + 1
          /\ candidate_state = "Canary"
          /\ pc = "canary" /\ pc' = "actuate"
      BY <1>7, <2>1 DEF CanaryClips, CandidateIsCanary, books
    <2>3. clipping' /\ ~clipping
      BY <1>7, <2>2, Zenon DEF CanaryClips
    <2>4. ClipsLeft' = ClipsLeft
      BY <1>4, <1>5, <2>2, <2>3 DEF TypeOK, DataOK
    <2>5. CanaryTicksLeft' = CanaryTicksLeft
      BY <2>2, <2>4 DEF CanaryTicksLeft
    <2>6. LifecycleAgrees' <=> LifecycleAgrees
      BY <2>2 DEF LifecycleAgrees
    <2> QED BY <1>2, <1>3, <2>2, <2>5, <2>6 DEF TicksLeft
  <1>8. CASE Advances
    <2>1. pc = "advance" /\ pc' = "publish" /\ UNCHANGED bounded
      BY <1>8, AdvanceOutcomes DEF locals
    <2>2. ClipsLeft' = MaxBoundedCanaryTicks - bounded_canary_ticks'
      BY <1>5, <2>1
    <2>3. CASE CountsTick /\ candidate_state = "Shadow"
      <3>1. LifecycleAgrees /\ LifecycleAgrees'
        BY <2>1, <2>3 DEF CountsTick, Consistent, StageAgreement, Staged, LifecycleAgrees
      <3>2. TicksLeft = (ShadowTicksRequired - shadow_ticks) + WholeCanary
        BY <2>3, <3>1 DEF TicksLeft
      <3>3. TicksLeft' = (ShadowTicksRequired - (shadow_ticks + 1)) + WholeCanary
        BY <2>3, <3>1 DEF TicksLeft, CountsTick
      <3> QED BY <1>2, <1>3, <3>2, <3>3, RequiredTicks DEF TypeOK, DataOK
    <2>4. CASE CountsTick /\ candidate_state = "Canary"
      <3>1. LifecycleAgrees /\ LifecycleAgrees'
        BY <2>1, <2>4 DEF CountsTick, Consistent, StageAgreement, Staged, LifecycleAgrees
      <3>2. TicksLeft = CanaryTicksLeft /\ TicksLeft' = CanaryTicksLeft'
        BY <2>4, <3>1 DEF TicksLeft, CountsTick
      <3>3. /\ ClipsLeft \in Nat /\ ClipsLeft' \in Nat
            /\ ClipsLeft = IF bounded THEN ClipsLeft' + 1 ELSE ClipsLeft'
        BY <1>2, <1>3, <1>4, <2>1, <2>2, <2>4 DEF CountsTick, TypeOK, DataOK
      <3>4. /\ ClipsLeft' * CanaryTicksRequired \in Nat
            /\ bounded => ClipsLeft * CanaryTicksRequired
                            = ClipsLeft' * CanaryTicksRequired + CanaryTicksRequired
        BY <3>3, RequiredTicks, Windows, Zenon
      <3>5. canary_ticks \in Nat /\ canary_ticks < CanaryTicksRequired
        BY <2>4 DEF WindowOpen, TypeOK, DataOK
      <3>6. CASE bounded
        <4>1. canary_ticks' = 0
          BY <2>4, <3>6 DEF CountsTick
        <4> QED BY <1>2, <1>3, <3>2, <3>4, <3>5, <3>6, <4>1, RequiredTicks
                DEF CanaryTicksLeft
      <3>7. CASE ~bounded
        <4>1. canary_ticks' = canary_ticks + 1 /\ ClipsLeft = ClipsLeft'
          BY <2>4, <3>3, <3>7 DEF CountsTick
        <4> QED BY <1>2, <1>3, <3>2, <3>4, <3>5, <4>1, RequiredTicks
                DEF CanaryTicksLeft
      <3> QED BY <3>6, <3>7
    <2>5. CASE OpensStage
      <3>1. /\ LifecycleAgrees /\ LifecycleAgrees'
            /\ candidate_state \in {"VerifiedOnly", "Shadow"}
        BY <2>5 DEF OpensStage, NextTarget, NoState
      <3>2. \/ /\ candidate_state = "VerifiedOnly"
               /\ TicksLeft = 1 + ShadowTicksRequired + WholeCanary
            \/ /\ candidate_state = "Shadow" /\ TicksLeft > WholeCanary
               /\ candidate_state' = "Canary"
        <4>1. CASE candidate_state = "Shadow"
          <5>1. TicksLeft = (ShadowTicksRequired - shadow_ticks) + WholeCanary
            BY <3>1, <4>1 DEF TicksLeft
          <5>2. candidate_state' = "Canary"
            BY <2>5, <4>1 DEF OpensStage, NextTarget, NoState
          <5> QED BY <1>2, <4>1, <5>1, <5>2, RequiredTicks DEF WindowOpen, TypeOK, DataOK
        <4>2. CASE candidate_state = "VerifiedOnly"
          BY <3>1, <4>2 DEF TicksLeft
        <4> QED BY <3>1, <4>1, <4>2
      <3>3. CASE candidate_state' = "Shadow"
        <4>1. TicksLeft' = (ShadowTicksRequired - 0) + WholeCanary
          BY <2>5, <3>1, <3>3 DEF OpensStage, TicksLeft
        <4> QED BY <1>2, <1>3, <3>2, <3>3, <4>1, RequiredTicks
      <3>4. CASE candidate_state' = "Canary"
        <4>1. canary_ticks' = 0 /\ bounded_canary_ticks' = 0
          BY <2>5, <3>4 DEF OpensStage
        <4>2. ClipsLeft' = MaxBoundedCanaryTicks
          BY <2>2, <4>1
        <4>3. TicksLeft' = CanaryTicksLeft'
          BY <3>1, <3>4 DEF TicksLeft
        <4>4. CanaryTicksLeft' = WholeCanary
          BY <4>1, <4>2, RequiredTicks, Windows DEF CanaryTicksLeft, WholeCanary
        <4> QED BY <1>2, <1>3, <3>2, <4>3, <4>4, RequiredTicks
      <3> QED BY <2>5, <3>3, <3>4 DEF OpensStage
    <2>6. CountsTick => candidate_state \in {"Shadow", "Canary"}
      BY DEF CountsTick
    <2> QED BY <1>8, <2>3, <2>4, <2>5, <2>6, AdvanceKeeping
  <1>9. CASE /\ candidate_state' = "VerifiedOnly" /\ pc = "drain"
             /\ UNCHANGED <<pc, lifecycle, candidate>>
    <2>1. CASE candidate_state = "VerifiedOnly"
      <3>1. LifecycleAgrees' <=> LifecycleAgrees
        BY <1>9, <2>1 DEF LifecycleAgrees
      <3> QED BY <1>2, <1>3, <1>9, <2>1, <3>1 DEF TicksLeft
    <2>2. CASE candidate_state \in {"Shadow", "Canary"}
      <3>1. ~LifecycleAgrees'
        BY <1>9, <2>2 DEF Consistent, StageAgreement, Staged, LifecycleAgrees
      <3> QED BY <1>2, <1>3, <1>9, <3>1 DEF TicksLeft
    <2> QED BY <2>1, <2>2 DEF WindowOpen
  <1> QED BY <1>6, <1>7, <1>8, <1>9, ProgressKinds

\* Windows and budget are never over full
LEMMA WindowsOpen == Spec => []WindowOpen
  <1>1. Init => WindowOpen
    BY DEF Init, WindowOpen, Armed, NoState
  <1>2. TypeOK /\ Consistent /\ WindowOpen /\ [Next]_vars => WindowOpen'
    BY WindowOpenStep
  <1> QED BY <1>1, <1>2, TypeCorrect, LoopConsistent, PTL DEF Spec

\* However a rollout goes, at most one window of shadow ticks and one canary
\* window per clipped tick of the budget lie between arming a candidate and its
\* promotion or rejection
THEOREM RolloutIsBounded == Spec => RolloutProgress
  <1>1. TypeOK /\ Consistent /\ WindowOpen /\ [Next]_vars =>
          [Armed /\ Armed' /\ candidate' = candidate =>
             /\ TicksLeft' \in 1 .. TicksLeft
             /\ pc = "advance" /\ Advancing => TicksLeft' < TicksLeft]_vars
    BY ProgressStep
  <1> QED BY <1>1, TypeCorrect, LoopConsistent, WindowsOpen, PTL DEF Spec, RolloutProgress
=============================================================================
