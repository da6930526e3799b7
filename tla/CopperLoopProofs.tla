--------------------------- MODULE CopperLoopProofs ---------------------------
(***************************************************************************)
(* Proofs about the Copper loop, for any set of controllers and any policy.*)
(***************************************************************************)
EXTENDS CopperLoop, TLAPS

USE NoneAssumption, PolicyAssumption

-----------------------------------------------------------------------------
\* Types

\* The methods of the lifecycle return lifecycles
LEMMA LifecycleTypes ==
    ASSUME NEW lc \in Lifecycles
    PROVE  /\ NewLifecycle \in Lifecycles
           /\ \A c \in Controllers : LoadArtifact(lc, c) \in Lifecycles
           /\ \A ev \in Evidence : SubmitEvidence(lc, ev) \in Lifecycles
           /\ \A t \in DeploymentStates : PromoteTo(lc, t) \in Lifecycles
           /\ RetireCurrent(lc) \in Lifecycles
           /\ RestoreLastKnownGoodActive(lc) \in Lifecycles
           /\ lc.lkg \in MaybeController
  <1> USE DEF Lifecycles, MaybeController, OptionalStates, DeploymentStates, NoState
  <1>1. NewLifecycle \in Lifecycles
    BY DEF NewLifecycle
  <1>2. \A c \in Controllers : LoadArtifact(lc, c) \in Lifecycles
    BY DEF LoadArtifact
  <1>3. \A ev \in Evidence : SubmitEvidence(lc, ev) \in Lifecycles
    BY DEF SubmitEvidence, CanSubmit
  <1>4. \A t \in DeploymentStates : PromoteTo(lc, t) \in Lifecycles
    BY Zenon DEF PromoteTo
  <1>5. RetireCurrent(lc) \in Lifecycles
    BY Zenon DEF RetireCurrent, RetirementStateFor, IsActuating
  <1>6. RestoreLastKnownGoodActive(lc) \in Lifecycles
    BY Zenon DEF RestoreLastKnownGoodActive
  <1> QED BY <1>1, <1>2, <1>3, <1>4, <1>5, <1>6

\* The initial state of the loop has the types
LEMMA TypeInit == Init => TypeOK
  <1> SUFFICES ASSUME Init PROVE TypeOK
    OBVIOUS
  <1>1. FlagsOK
    BY Zenon DEF Init, FlagsOK
  <1>2. DataOK
    BY DEF Init, DataOK, Phases, TickResults, MaybeController, OptionalStates,
           NewLifecycle, Lifecycles
  <1>3. shared \in ControllerStates
    BY Zenon DEF Init, ControllerStates, MaybeController, OptionalStates
  <1> QED BY <1>1, <1>2, <1>3 DEF TypeOK

\* What RejectCandidate and LeaveStage write has its type
LEMMA RejectTypes ==
    ASSUME DataOK, NEW lc \in Lifecycles, NEW restore \in BOOLEAN,
           RejectCandidate(lc, restore)
    PROVE  /\ candidate' \in MaybeController
           /\ running' \subseteq Controllers
           /\ candidate_state' \in OptionalStates
           /\ lifecycle' \in Lifecycles
           /\ last_known_good_id' \in MaybeController
           /\ rejection' \in OptionalStates
  BY LifecycleTypes DEF DataOK, RejectCandidate, MaybeController, OptionalStates,
     DeploymentStates, NoState, RetirementStateFor, IsActuating

\* A rejection in mid-tick keeps the types, with or without the e-stop
LEMMA RejectingTypes ==
    ASSUME DataOK, RejectKeepingActive \/ RejectAndStop
    PROVE  /\ candidate' \in MaybeController
           /\ running' \subseteq Controllers
           /\ candidate_state' \in OptionalStates
           /\ lifecycle' \in Lifecycles
           /\ last_known_good_id' \in MaybeController
           /\ rejection' \in OptionalStates
           /\ estops' \in 0 .. EstopCapacity
           /\ frame' \in [kind : {"none", "zero", "command"}, by : MaybeController]
  <1>1. CASE RejectKeepingActive
    BY <1>1, RejectTypes, Zenon DEF RejectKeepingActive, DataOK
  <1>2. CASE RejectAndStop
    <2>1. RejectCandidate(lifecycle, FALSE) /\ NotifyEstop /\ frame' = ZeroFrame
      BY <1>2, Zenon DEF RejectAndStop
    <2>2. estops' \in 0 .. EstopCapacity
      BY <2>1 DEF NotifyEstop, DataOK
    <2>3. frame' \in [kind : {"none", "zero", "command"}, by : MaybeController]
      BY <2>1 DEF ZeroFrame, MaybeController
    <2> QED BY <2>1, <2>2, <2>3, RejectTypes, Zenon DEF DataOK
  <1> QED BY <1>1, <1>2

\* Leaving a stage keeps the types, whether the candidate graduates, enters the
\* next stage or is retired
LEMMA LeaveTypes ==
    ASSUME DataOK, collector \in BOOLEAN, Advancing, NEW mode \in ExecutionModes,
           NEW shadow \in Nat, NEW canary \in Nat,
           LeaveStage(mode, shadow, canary)
    PROVE  /\ active' \in MaybeController /\ candidate' \in MaybeController
           /\ rollback' \in MaybeController
           /\ running' \subseteq Controllers
           /\ candidate_state' \in OptionalStates
           /\ shadow_ticks' \in Nat /\ canary_ticks' \in Nat
           /\ bounded_canary_ticks' \in Nat
           /\ lifecycle' \in Lifecycles
           /\ last_known_good_id' \in MaybeController
           /\ rejection' \in OptionalStates
  <1> DEFINE target == NextTarget(candidate_state)
             ev == [controller |-> candidate, mode |-> mode, pass |-> collector]
             lc == SubmitEvidence(lifecycle, ev)
  <1>1. target \in {"Shadow", "Canary", "Active"}
    BY DEF Advancing, NextTarget, NoState
  <1>2. ev \in Evidence
    <2>1. candidate \in Controllers
      BY DEF DataOK, Advancing, MaybeController
    <2> QED BY <2>1, Zenon DEF Evidence
  <1>3. lc \in Lifecycles
    BY <1>2, LifecycleTypes DEF DataOK
  <1>4. CASE CanSubmit(lifecycle, ev) /\ CanPromoteTo(lc, target)
    <2>1. lifecycle' = PromoteTo(lc, target)
      BY <1>4 DEF LeaveStage
    <2>2. lifecycle' \in Lifecycles
      BY <2>1, <1>1, <1>3, LifecycleTypes DEF DeploymentStates
    <2>3. CASE target = "Active"
      <3>1. PromoteCandidateToActive
        BY <1>4, <2>3 DEF LeaveStage
      <3>2. lifecycle'.lkg \in MaybeController
        BY <2>2, LifecycleTypes
      <3> QED BY <2>2, <3>1, <3>2 DEF PromoteCandidateToActive, Stash, DataOK,
                 MaybeController, OptionalStates
    <2>4. CASE target # "Active"
      <3>1. EnterStage(target, shadow)
        BY <1>4, <2>4 DEF LeaveStage
      <3> QED BY <2>2, <3>1, <1>1 DEF EnterStage, DataOK, OptionalStates,
                 DeploymentStates
    <2> QED BY <2>3, <2>4
  <1>5. CASE ~(CanSubmit(lifecycle, ev) /\ CanPromoteTo(lc, target))
    <2>1. /\ RejectCandidate(lc, active # None)
          /\ shadow_ticks' = shadow /\ canary_ticks' = canary
          /\ UNCHANGED <<active, rollback, bounded_canary_ticks>>
      BY <1>5 DEF LeaveStage
    <2> QED BY <2>1, <1>3, RejectTypes, Zenon DEF DataOK
  <1> QED BY <1>4, <1>5

\* Every step keeps the Boolean variables Boolean
LEMMA FlagsStep == FlagsOK /\ [Next]_vars => FlagsOK'
  <1> SUFFICES ASSUME FlagsOK, [Next]_vars PROVE FlagsOK'
    OBVIOUS
  <1> USE DEF FlagsOK, vars, slots, rollout, books, locals, outside, outputs
  <1>1. CASE Head
    BY <1>1, Zenon DEF Head
  <1>2. CASE DrainEmergencyHalt
    BY <1>2, Zenon DEF DrainEmergencyHalt
  <1>3. CASE EmergencyDrained
    BY <1>3, Zenon DEF EmergencyDrained
  <1>4. CASE CommandsDrained
    BY <1>4, Zenon DEF CommandsDrained
  <1>5. CASE WatchdogQuiet
    BY <1>5, Zenon DEF WatchdogQuiet
  <1>6. CASE WatchdogFires
    BY <1>6, Zenon DEF WatchdogFires
  <1>7. CASE TickActive
    BY <1>7, Zenon DEF TickActive
  <1>8. CASE FailOver
    BY <1>8, Zenon DEF FailOver
  <1>9. CASE FailStop
    BY <1>9, Zenon DEF FailStop
  <1>10. CASE SkipCandidate
    BY <1>10, Zenon DEF SkipCandidate
  <1>11. CASE TickCandidate
    BY <1>11, Zenon DEF TickCandidate
  <1>12. CASE RejectFailed
    BY <1>12, Zenon DEF RejectFailed, RejectCandidate, RejectKeepingActive,
       RejectAndStop
  <1>13. CASE CanaryWithin
    BY <1>13, Zenon DEF CanaryWithin
  <1>14. CASE CanaryClips
    BY <1>14, Zenon DEF CanaryClips, RejectCandidate, RejectKeepingActive,
       RejectAndStop
  <1>15. CASE Actuate
    BY <1>15, Zenon DEF Actuate
  <1>16. CASE AdvanceReturns
    BY <1>16, Zenon DEF AdvanceReturns
  <1>17. CASE AdvanceVerifiedOnly
    BY <1>17, Zenon DEF AdvanceVerifiedOnly, AdvanceFrame, LeaveStage,
       RejectCandidate, PromoteCandidateToActive, EnterStage
  <1>18. CASE AdvanceShadow
    BY <1>18, Zenon DEF AdvanceShadow, AdvanceFrame, LeaveStage,
       RejectCandidate, PromoteCandidateToActive, EnterStage
  <1>19. CASE AdvanceCanary
    BY <1>19, Zenon DEF AdvanceCanary, AdvanceFrame, LeaveStage,
       RejectCandidate, PromoteCandidateToActive, EnterStage
  <1>20. CASE Publish
    BY <1>20, Zenon DEF Publish
  <1>21. CASE Finalize
    BY <1>21, Zenon DEF Finalize
  <1>22. CASE ProcessPromoteActive
    BY <1>22, Zenon DEF ProcessPromoteActive
  <1>23. CASE ProcessHalt
    BY <1>23, Zenon DEF ProcessHalt
  <1>24. CASE ProcessResume
    BY <1>24, Zenon DEF ProcessResume
  <1>25. CASE ProcessUpdateParams
    BY <1>25, Zenon DEF ProcessUpdateParams
  <1>26. CASE AgentFallsSilent
    BY <1>26, Zenon DEF AgentFallsSilent
  <1>27. CASE DropSendsHalt
    BY <1>27, Zenon DEF DropSendsHalt
  <1>28. CASE RaiseShutdown
    BY <1>28, Zenon DEF RaiseShutdown
  <1>29. CASE TakeEstop
    BY <1>29, Zenon DEF TakeEstop
  <1>30. CASE \E c \in Controllers : ProcessLoad(c)
    BY <1>30, Zenon DEF ProcessLoad
  <1>31. CASE UNCHANGED vars
    BY <1>31, Zenon
  <1> QED
    BY <1>1, <1>2, <1>3, <1>4, <1>5, <1>6, <1>7, <1>8, <1>9, <1>10, <1>11,
         <1>12, <1>13, <1>14, <1>15, <1>16, <1>17, <1>18, <1>19, <1>20, <1>21,
         <1>22, <1>23, <1>24, <1>25, <1>26, <1>27, <1>28, <1>29, <1>30, <1>31, Zenon DEF
         Next, LoopStep, ProcessCommand, Environment

\* Every step keeps the types of the slots, counters, lifecycle and channels
LEMMA DataStep == FlagsOK /\ DataOK /\ [Next]_vars => DataOK'
  <1> SUFFICES ASSUME FlagsOK, DataOK, [Next]_vars PROVE DataOK'
    OBVIOUS
  <1> USE DEF DataOK, Phases, vars, slots, rollout, books, locals, outside, outputs
  <1>1. CASE Head
    BY <1>1 DEF Head
  <1>2. CASE DrainEmergencyHalt
    BY <1>2 DEF DrainEmergencyHalt, HaltAll
  <1>3. CASE EmergencyDrained
    BY <1>3 DEF EmergencyDrained
  <1>4. CASE CommandsDrained
    BY <1>4 DEF CommandsDrained
  <1>5. CASE WatchdogQuiet
    BY <1>5 DEF WatchdogQuiet
  <1>6. CASE WatchdogFires
    BY <1>6 DEF WatchdogFires, NotifyEstop, ZeroFrame, MaybeController
  <1>7. CASE TickActive
    BY <1>7 DEF TickActive, TickResults
  <1>8. CASE FailOver
    BY <1>8, LifecycleTypes DEF FailOver, CanFailOver, ZeroFrame,
       OptionalStates, MaybeController
  <1>9. CASE FailStop
    BY <1>9 DEF FailStop, ZeroFrame, NotifyEstop, MaybeController
  <1>10. CASE SkipCandidate
    BY <1>10 DEF SkipCandidate
  <1>11. CASE TickCandidate
    BY <1>11 DEF TickCandidate, TickResults
  <1>12. CASE RejectFailed
    BY <1>12, RejectingTypes DEF RejectFailed
  <1>13. CASE CanaryWithin
    BY <1>13 DEF CanaryWithin
  <1>14. CASE CanaryClips
    BY <1>14, RejectingTypes DEF CanaryClips
  <1>15. CASE Actuate
    BY <1>15 DEF Actuate, Command
  <1>16. CASE AdvanceReturns
    BY <1>16 DEF AdvanceReturns
  <1>17. CASE AdvanceVerifiedOnly
    BY <1>17, LeaveTypes DEF AdvanceVerifiedOnly, AdvanceFrame, FlagsOK,
       ExecutionModes
  <1>18. CASE AdvanceShadow
    BY <1>18, LeaveTypes DEF AdvanceShadow, AdvanceFrame, FlagsOK,
       ExecutionModes
  <1>19. CASE AdvanceCanary
    BY <1>19, LeaveTypes DEF AdvanceCanary, AdvanceFrame, FlagsOK,
       ExecutionModes
  <1>20. CASE Publish
    BY <1>20 DEF Publish, TickResults
  <1>21. CASE Finalize
    BY <1>21 DEF Finalize, MaybeController
  <1>22. CASE ProcessPromoteActive
    BY <1>22 DEF ProcessPromoteActive, OptionalStates, DeploymentStates
  <1>23. CASE ProcessHalt
    BY <1>23 DEF ProcessHalt, HaltAll
  <1>24. CASE ProcessResume
    BY <1>24 DEF ProcessResume, MaybeController
  <1>25. CASE ProcessUpdateParams
    BY <1>25 DEF ProcessUpdateParams
  <1>26. CASE AgentFallsSilent
    BY <1>26 DEF AgentFallsSilent
  <1>27. CASE DropSendsHalt
    BY <1>27 DEF DropSendsHalt
  <1>28. CASE RaiseShutdown
    BY <1>28 DEF RaiseShutdown
  <1>29. CASE TakeEstop
    BY <1>29 DEF TakeEstop
  <1>30. CASE \E c \in Controllers : ProcessLoad(c)
    BY <1>30, LifecycleTypes DEF ProcessLoad, LoadArtifact, OptionalStates,
       DeploymentStates, MaybeController
  <1>31. CASE UNCHANGED vars
    BY <1>31
  <1> QED
    BY <1>1, <1>2, <1>3, <1>4, <1>5, <1>6, <1>7, <1>8, <1>9, <1>10, <1>11,
         <1>12, <1>13, <1>14, <1>15, <1>16, <1>17, <1>18, <1>19, <1>20, <1>21,
         <1>22, <1>23, <1>24, <1>25, <1>26, <1>27, <1>28, <1>29, <1>30, <1>31, Zenon DEF
         Next, LoopStep, ProcessCommand, Environment

\* What publish_state publishes is a ControllerState
LEMMA SnapshotType == TypeOK => Snapshot \in ControllerStates
  <1> SUFFICES ASSUME TypeOK PROVE Snapshot \in ControllerStates
    OBVIOUS
  <1>1. AnyRunning \in BOOLEAN
    BY Zenon DEF AnyRunning, ActiveRunning, CandidateRunning
  <1>2. PublishedState \in OptionalStates
    BY DEF PublishedState, OptionalStates, DeploymentStates, TypeOK, DataOK
  <1> QED
    BY <1>1, <1>2, Zenon DEF TypeOK, DataOK, FlagsOK, Snapshot, ControllerStates

\* Only the watchdog, the publishing step and the epilogue store a state
LEMMA SharedStep == TypeOK /\ [Next]_vars => shared' \in ControllerStates
  <1> SUFFICES ASSUME TypeOK, [Next]_vars PROVE shared' \in ControllerStates
    OBVIOUS
  <1>1. CASE WatchdogFires
    <2> DEFINE s == Snapshot
    <2>1. s \in ControllerStates
      BY SnapshotType
    <2> HIDE DEF s
    <2>2. [s EXCEPT !.running = FALSE, !.estop = TRUE] \in ControllerStates
      BY <2>1, Zenon DEF ControllerStates
    <2> QED BY <1>1, <2>2 DEF WatchdogFires, s
  <1>2. CASE Publish
    BY <1>2, SnapshotType DEF Publish
  <1>3. CASE Finalize
    BY <1>3, Zenon DEF Finalize, TypeOK, FlagsOK, DataOK, ControllerStates,
       MaybeController
  <1>4. CASE ~WatchdogFires /\ ~Publish /\ ~Finalize
    <2>1. shared' = shared
      BY <1>4, Zenon DEF Next, LoopStep, ProcessCommand, Environment, Head,
         DrainEmergencyHalt, EmergencyDrained, CommandsDrained, WatchdogQuiet,
         TickActive, FailOver, FailStop, SkipCandidate, TickCandidate,
         RejectFailed, CanaryWithin, CanaryClips, Actuate, AdvanceReturns,
         AdvanceVerifiedOnly, AdvanceShadow, AdvanceCanary, ProcessPromoteActive,
         ProcessHalt, ProcessResume, ProcessUpdateParams, AgentFallsSilent,
         DropSendsHalt, RaiseShutdown, TakeEstop, AdvanceFrame, ProcessLoad, vars,
         outputs
    <2> QED BY <2>1 DEF TypeOK
  <1> QED BY <1>1, <1>2, <1>3, <1>4

\* Types are preserved by every step
LEMMA TypeStep == TypeOK /\ [Next]_vars => TypeOK'
  BY FlagsStep, DataStep, SharedStep DEF TypeOK

\* Whatever the agent, the handle's owner and the controllers do, the loop's
\* variables keep their types and the e-stop channel its capacity
THEOREM TypeCorrect == Spec => []TypeOK
  BY TypeInit, TypeStep, PTL DEF Spec

-----------------------------------------------------------------------------
\* What the steps that move a candidate do to the slots and the rollout

Graduates ==
    /\ active' = candidate /\ candidate' = None
    /\ Stash
    /\ candidate_state' = NoState /\ ~promotion_requested'

Enters ==
    /\ UNCHANGED <<active, candidate, rollback, running, promotion_requested>>
    /\ candidate_state' \in {"Shadow", "Canary"}
    /\ lifecycle'.artifact = candidate
    /\ lifecycle'.state = candidate_state'

Retires ==
    /\ UNCHANGED <<active, rollback>>
    /\ candidate' = None /\ running' = running \ {candidate}
    /\ candidate_state' = NoState /\ ~promotion_requested'

Stays == UNCHANGED <<slots, candidate_state, promotion_requested, lifecycle>>

\* reject_candidate empties the candidate slot and disarms the rollout
LEMMA RejectRetires ==
    ASSUME NEW lc, NEW restore, RejectCandidate(lc, restore)
    PROVE  /\ candidate' = None /\ running' = running \ {candidate}
           /\ candidate_state' = NoState /\ ~promotion_requested'
  <1>1. ~promotion_requested'
    BY Zenon DEF RejectCandidate
  <1> QED BY <1>1 DEF RejectCandidate

\* submit_stage_evidence_and_promote and what follows it has three outcomes
LEMMA LeaveOutcomes ==
    ASSUME TypeOK, Advancing, NEW mode \in ExecutionModes, NEW shadow, NEW canary,
           LeaveStage(mode, shadow, canary)
    PROVE  Graduates \/ Enters \/ Retires
  <1> DEFINE target == NextTarget(candidate_state)
             ev == [controller |-> candidate, mode |-> mode, pass |-> collector]
             lc == SubmitEvidence(lifecycle, ev)
  <1>1. target \in {"Shadow", "Canary", "Active"}
    BY DEF Advancing, NextTarget, NoState
  <1>2. CASE CanSubmit(lifecycle, ev) /\ CanPromoteTo(lc, target)
    <2>1. lifecycle' = PromoteTo(lc, target)
      BY <1>2 DEF LeaveStage
    <2>2. CASE target = "Active"
      <3>1. PromoteCandidateToActive
        BY <1>2, <2>2 DEF LeaveStage
      <3>2. ~promotion_requested'
        BY <3>1, Zenon DEF PromoteCandidateToActive
      <3> QED BY <3>1, <3>2 DEF PromoteCandidateToActive, Graduates
    <2>3. CASE target # "Active"
      <3>1. EnterStage(target, shadow)
        BY <1>2, <2>3 DEF LeaveStage
      <3>2. lc = [lifecycle EXCEPT !.evidence = ev] /\ ev.controller = lifecycle.artifact
        BY <1>2 DEF SubmitEvidence, CanSubmit
      <3>3. lifecycle'.artifact = candidate /\ lifecycle'.state = target
        BY <2>1, <3>2 DEF PromoteTo, TypeOK, DataOK, Lifecycles
      <3> QED BY <3>1, <3>3, <1>1, <2>3 DEF EnterStage, Enters
    <2> QED BY <2>2, <2>3
  <1>3. CASE ~(CanSubmit(lifecycle, ev) /\ CanPromoteTo(lc, target))
    <2>1. RejectCandidate(lc, active # None) /\ UNCHANGED <<active, rollback>>
      BY <1>3 DEF LeaveStage
    <2> QED BY <2>1, RejectRetires DEF Retires
  <1> QED BY <1>2, <1>3

Advances == AdvanceVerifiedOnly \/ AdvanceShadow \/ AdvanceCanary

\* advance_candidate_stage past its early returns: one of those three, or one
\* more tick in the stage
LEMMA AdvanceOutcomes ==
    ASSUME TypeOK, Advances
    PROVE  /\ pc = "advance" /\ pc' = "publish" /\ Advancing
           /\ UNCHANGED <<stopping, received, locals, outside, outputs>>
           /\ Graduates \/ Enters \/ Retires \/ Stays
  <1>1. /\ pc = "advance" /\ pc' = "publish" /\ Advancing
        /\ UNCHANGED <<stopping, received, locals, outside, outputs>>
    BY DEF Advances, AdvanceVerifiedOnly, AdvanceShadow, AdvanceCanary, AdvanceFrame
  <1>2. CASE AdvanceVerifiedOnly
    BY <1>1, <1>2, LeaveOutcomes DEF AdvanceVerifiedOnly, ExecutionModes
  <1>3. CASE AdvanceShadow
    BY <1>1, <1>3, LeaveOutcomes DEF AdvanceShadow, ExecutionModes, Stays, books
  <1>4. CASE AdvanceCanary
    BY <1>1, <1>4, LeaveOutcomes DEF AdvanceCanary, ExecutionModes, Stays, books
  <1> QED BY <1>1, <1>2, <1>3, <1>4 DEF Advances

\* A rejection in mid-tick
Rejecting ==
    \/ RejectKeepingActive /\ ActiveRunning
    \/ RejectAndStop /\ ~ActiveRunning

\* It leaves the zero frame unless an active controller carries on
LEMMA RejectingOutcomes ==
    ASSUME Rejecting, UNCHANGED <<active, rollback>>
    PROVE  /\ Retires
           /\ frame' = ZeroFrame \/ (frame' = frame /\ ActiveRunning)
  BY RejectRetires, Zenon DEF Rejecting, RejectKeepingActive, RejectAndStop, Retires

-----------------------------------------------------------------------------
\* The invariant

\* A promotion, a fail-over or a load never duplicates an instance
LEMMA SlotsDistinctStep == TypeOK /\ Consistent /\ [Next]_vars => SlotsDistinct'
  <1> SUFFICES ASSUME TypeOK, Consistent, [Next]_vars PROVE SlotsDistinct'
    BY SMTT(30)
  <1> USE DEF TypeOK, DataOK, MaybeController, SlotsDistinct, SlotsLoaded,
             Consistent, vars, slots, rollout, books, locals, outside, outputs
  <1>1. CASE Head \/ EmergencyDrained \/ CommandsDrained \/ WatchdogQuiet \/
                  SkipCandidate \/ CanaryWithin \/ Actuate \/ AdvanceReturns \/
                  Publish \/ ProcessPromoteActive \/ ProcessUpdateParams \/
                  AgentFallsSilent \/ DropSendsHalt \/ RaiseShutdown \/ TakeEstop
                  \/ UNCHANGED vars
    BY <1>1, Zenon DEF Head, EmergencyDrained, CommandsDrained, WatchdogQuiet,
       SkipCandidate, CanaryWithin, Actuate, AdvanceReturns, Publish,
       ProcessPromoteActive, ProcessUpdateParams, AgentFallsSilent, DropSendsHalt,
       RaiseShutdown, TakeEstop
  <1>2. CASE DrainEmergencyHalt
    BY <1>2 DEF DrainEmergencyHalt, HaltAll
  <1>3. CASE WatchdogFires
    BY <1>3 DEF WatchdogFires
  <1>4. CASE TickActive
    BY <1>4, Zenon DEF TickActive
  <1>5. CASE FailOver
    BY <1>5 DEF FailOver, CanFailOver, ResultsFit
  <1>6. CASE FailStop
    BY <1>6 DEF FailStop, ResultsFit
  <1>7. CASE TickCandidate
    BY <1>7 DEF TickCandidate
  <1>8. CASE RejectFailed
    BY <1>8, RejectingOutcomes DEF RejectFailed, Rejecting, Retires
  <1>9. CASE CanaryClips
    BY <1>9, RejectingOutcomes, SMTT(30) DEF CanaryClips, Rejecting, Retires
  <1>10. CASE Finalize
    BY <1>10 DEF Finalize
  <1>11. CASE ProcessHalt
    BY <1>11 DEF ProcessHalt, HaltAll
  <1>12. CASE ProcessResume
    BY <1>12, Zenon DEF ProcessResume
  <1>13. CASE Advances
    BY <1>13, AdvanceOutcomes, Zenon DEF Graduates, Enters, Retires, Stays, Stash
  <1>14. CASE \E c \in Controllers : ProcessLoad(c)
    BY <1>14, Zenon DEF ProcessLoad
  <1> QED
    BY <1>1, <1>2, <1>3, <1>4, <1>5, <1>6, <1>7, <1>8, <1>9, <1>10, <1>11,
       <1>12, <1>13, <1>14, Zenon DEF Next, LoopStep, ProcessCommand, Environment,
       Advances

\* Only a load brings a controller into a slot from outside
LEMMA SlotsLoadedStep == TypeOK /\ Consistent /\ [Next]_vars => SlotsLoaded'
  <1> SUFFICES ASSUME TypeOK, Consistent, [Next]_vars PROVE SlotsLoaded'
    OBVIOUS
  <1> USE DEF SlotsLoaded, Consistent, vars, slots, rollout, books, locals, outside,
             outputs
  <1>1. CASE Head \/ EmergencyDrained \/ CommandsDrained \/ WatchdogQuiet \/
                  SkipCandidate \/ CanaryWithin \/ Actuate \/ AdvanceReturns \/
                  Publish \/ ProcessPromoteActive \/ ProcessUpdateParams \/
                  AgentFallsSilent \/ DropSendsHalt \/ RaiseShutdown \/ TakeEstop
                  \/ DrainEmergencyHalt \/ ProcessHalt \/ ProcessResume \/
                  WatchdogFires \/ TickActive \/ TickCandidate \/ UNCHANGED vars
    BY <1>1, Zenon DEF Head, EmergencyDrained, CommandsDrained, WatchdogQuiet,
       SkipCandidate, CanaryWithin, Actuate, AdvanceReturns, Publish,
       ProcessPromoteActive, ProcessUpdateParams, AgentFallsSilent, DropSendsHalt,
       RaiseShutdown, TakeEstop, DrainEmergencyHalt, ProcessHalt, ProcessResume,
       WatchdogFires, TickActive, TickCandidate
  <1>2. CASE FailOver
    BY <1>2 DEF FailOver
  <1>3. CASE FailStop
    BY <1>3 DEF FailStop
  <1>4. CASE RejectFailed
    BY <1>4, RejectingOutcomes DEF RejectFailed, Rejecting, Retires
  <1>5. CASE CanaryClips
    BY <1>5, RejectingOutcomes DEF CanaryClips, Rejecting, Retires
  <1>6. CASE Finalize
    BY <1>6 DEF Finalize
  <1>7. CASE Advances
    BY <1>7, AdvanceOutcomes, Zenon DEF Graduates, Enters, Retires, Stays, Stash
  <1>8. CASE \E c \in Controllers : ProcessLoad(c)
    BY <1>8, ZenonT(30) DEF ProcessLoad
  <1> QED
    BY <1>1, <1>2, <1>3, <1>4, <1>5, <1>6, <1>7, <1>8, SMTT(30) DEF Next, LoopStep,
       ProcessCommand, Environment, Advances

\* The loop's stage and the lifecycle's move together.  PromoteActive puts the
\* loop's copy back to VerifiedOnly, where nothing is claimed; an early return
\* of advance_candidate_stage would disarm a staged candidate only under a
\* policy that cannot have armed it
LEMMA StageAgreementStep == TypeOK /\ Consistent /\ [Next]_vars => StageAgreement'
  <1> SUFFICES ASSUME TypeOK, Consistent, [Next]_vars PROVE StageAgreement'
    OBVIOUS
  <1> USE DEF StageAgreement, Staged, NoState, Consistent, vars, slots, rollout,
             books, locals, outside, outputs
  <1>1. CASE Head \/ EmergencyDrained \/ CommandsDrained \/ WatchdogQuiet \/
                  SkipCandidate \/ CanaryWithin \/ Actuate \/ Publish \/
                  ProcessUpdateParams \/ AgentFallsSilent \/ DropSendsHalt \/
                  RaiseShutdown \/ TakeEstop \/ DrainEmergencyHalt \/ ProcessHalt
                  \/ ProcessResume \/ WatchdogFires \/ TickActive \/ TickCandidate
                  \/ FailStop \/ UNCHANGED vars
    BY <1>1, Zenon DEF Head, EmergencyDrained, CommandsDrained, WatchdogQuiet,
       SkipCandidate, CanaryWithin, Actuate, Publish, ProcessUpdateParams,
       AgentFallsSilent, DropSendsHalt, RaiseShutdown, TakeEstop,
       DrainEmergencyHalt, ProcessHalt, ProcessResume, WatchdogFires, TickActive,
       TickCandidate, FailStop
  <1>2. CASE FailOver
    BY <1>2 DEF FailOver
  <1>3. CASE RejectFailed
    BY <1>3, RejectingOutcomes DEF RejectFailed, Rejecting, Retires
  <1>4. CASE CanaryClips
    BY <1>4, RejectingOutcomes DEF CanaryClips, Rejecting, Retires
  <1>5. CASE AdvanceReturns
    BY <1>5 DEF AdvanceReturns, Advancing, NextTarget, ArmedIsVerified
  <1>6. CASE Finalize
    BY <1>6 DEF Finalize
  <1>7. CASE ProcessPromoteActive
    BY <1>7 DEF ProcessPromoteActive
  <1>8. CASE Advances
    BY <1>8, AdvanceOutcomes, Zenon DEF Graduates, Enters, Retires, Stays, Stash,
       Advancing
  <1>9. CASE \E c \in Controllers : ProcessLoad(c)
    BY <1>9 DEF ProcessLoad, LoadArtifact
  <1> QED
    BY <1>1, <1>2, <1>3, <1>4, <1>5, <1>6, <1>7, <1>8, <1>9, Zenon DEF Next, LoopStep,
       ProcessCommand, Environment, Advances

\* PromoteActive arms promotable candidates only, and promotion and fail-over
\* carry that on to the other slots
LEMMA ArmedIsVerifiedStep == TypeOK /\ Consistent /\ [Next]_vars => ArmedIsVerified'
  <1> SUFFICES ASSUME TypeOK, Consistent, [Next]_vars PROVE ArmedIsVerified'
    OBVIOUS
  <1> USE DEF ArmedIsVerified, NoState, Consistent, vars, slots, rollout, books,
             locals, outside, outputs
  <1>1. CASE Head \/ EmergencyDrained \/ CommandsDrained \/ WatchdogQuiet \/
                  SkipCandidate \/ CanaryWithin \/ Actuate \/ Publish \/
                  ProcessUpdateParams \/ AgentFallsSilent \/ DropSendsHalt \/
                  RaiseShutdown \/ TakeEstop \/ DrainEmergencyHalt \/ ProcessHalt
                  \/ ProcessResume \/ WatchdogFires \/ TickActive \/ TickCandidate
                  \/ UNCHANGED vars
    <2>1. UNCHANGED <<active, candidate, rollback, promotion_requested>>
      BY <1>1, Zenon DEF Head, EmergencyDrained, CommandsDrained, WatchdogQuiet,
         SkipCandidate, CanaryWithin, Actuate, Publish, ProcessUpdateParams,
         AgentFallsSilent, DropSendsHalt, RaiseShutdown, TakeEstop,
         DrainEmergencyHalt, ProcessHalt, ProcessResume, WatchdogFires, TickActive,
         TickCandidate
    <2> QED BY <2>1, SMTT(30)
  <1>2. CASE FailOver
    BY <1>2 DEF FailOver
  <1>3. CASE FailStop
    BY <1>3 DEF FailStop
  <1>4. CASE RejectFailed
    BY <1>4, RejectingOutcomes DEF RejectFailed, Rejecting, Retires
  <1>5. CASE CanaryClips
    BY <1>5, RejectingOutcomes DEF CanaryClips, Rejecting, Retires
  <1>6. CASE AdvanceReturns
    BY <1>6, Zenon DEF AdvanceReturns
  <1>7. CASE Finalize
    BY <1>7 DEF Finalize
  <1>8. CASE ProcessPromoteActive
    BY <1>8 DEF ProcessPromoteActive, MayPromote
  <1>9. CASE Advances
    BY <1>9, AdvanceOutcomes, Zenon DEF Graduates, Enters, Retires, Stays, Stash,
       Advancing
  <1>10. CASE \E c \in Controllers : ProcessLoad(c)
    BY <1>10, SMTT(30) DEF ProcessLoad
  <1> QED
    BY <1>1, <1>2, <1>3, <1>4, <1>5, <1>6, <1>7, <1>8, <1>9, <1>10, Zenon DEF Next,
       LoopStep, ProcessCommand, Environment, Advances

\* A frame comes from a canary, which is armed, or from the active slot
LEMMA OnlyVerifiedMovesStep == TypeOK /\ Consistent /\ [Next]_vars => OnlyVerifiedMoves'
  <1> SUFFICES ASSUME TypeOK, Consistent, [Next]_vars PROVE OnlyVerifiedMoves'
    OBVIOUS
  <1> USE DEF OnlyVerifiedMoves, Consistent, vars, slots, rollout, books, locals,
             outside, outputs
  <1>1. CASE Head \/ EmergencyDrained \/ CommandsDrained \/ WatchdogQuiet \/
                  SkipCandidate \/ CanaryWithin \/ AdvanceReturns \/ Publish \/
                  ProcessPromoteActive \/ ProcessUpdateParams \/ AgentFallsSilent
                  \/ DropSendsHalt \/ RaiseShutdown \/ TakeEstop \/
                  DrainEmergencyHalt \/ ProcessHalt \/ ProcessResume \/ TickActive
                  \/ TickCandidate \/ Finalize \/ UNCHANGED vars
    <2>1. UNCHANGED <<frame>>
      BY <1>1, Zenon DEF Head, EmergencyDrained, CommandsDrained, WatchdogQuiet,
         SkipCandidate, CanaryWithin, AdvanceReturns, Publish,
         ProcessPromoteActive, ProcessUpdateParams, AgentFallsSilent,
         DropSendsHalt, RaiseShutdown, TakeEstop, DrainEmergencyHalt, ProcessHalt,
         ProcessResume, TickActive, TickCandidate, Finalize
    <2> QED BY <2>1, SMTT(30)
  <1>2. CASE WatchdogFires
    BY <1>2, ZenonT(30) DEF WatchdogFires, ZeroFrame
  <1>3. CASE FailOver
    BY <1>3 DEF FailOver, ZeroFrame
  <1>4. CASE FailStop
    BY <1>4 DEF FailStop, ZeroFrame
  <1>5. CASE RejectFailed
    BY <1>5, RejectingOutcomes DEF RejectFailed, ZeroFrame, Rejecting
  <1>6. CASE CanaryClips
    BY <1>6, RejectingOutcomes, SMTT(30) DEF CanaryClips, ZeroFrame, Rejecting
  <1>7. CASE Actuate
    BY <1>7, SMTT(30) DEF Actuate, Command, CandidateIsCanary, ActiveRunning,
       StageAgreement, Staged, ArmedIsVerified, ResultsFit
  <1>8. CASE Advances
    BY <1>8, AdvanceOutcomes, SMTT(30) DEF Graduates, Enters, Retires, Stays, Stash
  <1>9. CASE \E c \in Controllers : ProcessLoad(c)
    BY <1>9, ZenonT(30) DEF ProcessLoad
  <1> QED
    BY <1>1, <1>2, <1>3, <1>4, <1>5, <1>6, <1>7, <1>8, <1>9 DEF Next, LoopStep,
       ProcessCommand, Environment, Advances

\* compare_stage_commands rejects a command without an active one beside it
LEMMA EnvelopeHoldsStep == TypeOK /\ Consistent /\ [Next]_vars => EnvelopeHolds'
  <1> SUFFICES ASSUME TypeOK, Consistent, [Next]_vars PROVE EnvelopeHolds'
    OBVIOUS
  <1> USE DEF EnvelopeHolds, CandidateIsCanary, CandidateRunning, ActiveRunning,
             Consistent, vars, slots, rollout, books, locals, outside, outputs
  <1>1. CASE Head
    BY <1>1 DEF Head
  <1>2. CASE DrainEmergencyHalt
    BY <1>2 DEF DrainEmergencyHalt
  <1>3. CASE EmergencyDrained
    BY <1>3 DEF EmergencyDrained
  <1>4. CASE CommandsDrained
    BY <1>4 DEF CommandsDrained
  <1>5. CASE WatchdogQuiet
    BY <1>5 DEF WatchdogQuiet
  <1>6. CASE WatchdogFires
    BY <1>6 DEF WatchdogFires
  <1>7. CASE TickActive
    BY <1>7 DEF TickActive
  <1>8. CASE FailOver
    BY <1>8 DEF FailOver
  <1>9. CASE FailStop
    BY <1>9 DEF FailStop
  <1>10. CASE SkipCandidate
    BY <1>10 DEF SkipCandidate
  <1>11. CASE TickCandidate
    BY <1>11, Zenon DEF TickCandidate, StageVerdicts, Staged, TickResults
  <1>12. CASE RejectFailed
    BY <1>12, RejectingOutcomes DEF RejectFailed, Rejecting, Retires, NoState
  <1>13. CASE CanaryWithin
    BY <1>13 DEF CanaryWithin
  <1>14. CASE CanaryClips
    BY <1>14, RejectingOutcomes DEF CanaryClips, Rejecting, Retires, NoState
  <1>15. CASE Actuate
    BY <1>15 DEF Actuate
  <1>16. CASE AdvanceReturns
    BY <1>16 DEF AdvanceReturns
  <1>17. CASE Publish
    BY <1>17, SMTT(30) DEF Publish
  <1>18. CASE Finalize
    BY <1>18 DEF Finalize
  <1>19. CASE ProcessPromoteActive
    BY <1>19 DEF ProcessPromoteActive
  <1>20. CASE ProcessHalt
    BY <1>20 DEF ProcessHalt
  <1>21. CASE ProcessResume
    BY <1>21 DEF ProcessResume
  <1>22. CASE ProcessUpdateParams
    BY <1>22 DEF ProcessUpdateParams
  <1>23. CASE AgentFallsSilent
    BY <1>23 DEF AgentFallsSilent
  <1>24. CASE DropSendsHalt
    BY <1>24 DEF DropSendsHalt
  <1>25. CASE RaiseShutdown
    BY <1>25 DEF RaiseShutdown
  <1>26. CASE TakeEstop
    BY <1>26, SMTT(30) DEF TakeEstop
  <1>27. CASE Advances
    BY <1>27, AdvanceOutcomes, SMTT(30) DEF Graduates, Enters, Retires, Stays, Stash
  <1>28. CASE \E c \in Controllers : ProcessLoad(c)
    BY <1>28 DEF ProcessLoad
  <1>29. CASE UNCHANGED vars
    BY <1>29
  <1> QED
    BY <1>1, <1>2, <1>3, <1>4, <1>5, <1>6, <1>7, <1>8, <1>9, <1>10, <1>11,
       <1>12, <1>13, <1>14, <1>15, <1>16, <1>17, <1>18, <1>19, <1>20, <1>21, <1>22,
       <1>23, <1>24, <1>25, <1>26, <1>27, <1>28, <1>29, Zenon DEF Next, LoopStep,
       ProcessCommand, Environment, Advances

\* candidate_ticked_successfully is not set by a tick that failed
LEMMA TickedFitsStep == TypeOK /\ Consistent /\ [Next]_vars => TickedFits'
  <1> SUFFICES ASSUME TypeOK, Consistent, [Next]_vars PROVE TickedFits'
    OBVIOUS
  <1>1. CASE TickCandidate
    BY <1>1, Zenon DEF TickCandidate, TickedFits
  <1>2. CASE Publish
    BY <1>2, Zenon DEF Publish, TickedFits
  <1>3. CASE ~TickCandidate /\ ~Publish
    <2>1. UNCHANGED <<ticked, candidate_result>>
      BY <1>3, ZenonT(30) DEF Next, LoopStep, ProcessCommand, Environment, vars, locals,
         Head, DrainEmergencyHalt, EmergencyDrained, CommandsDrained,
         WatchdogQuiet, WatchdogFires, TickActive, FailOver, FailStop,
         SkipCandidate, RejectFailed, CanaryWithin, CanaryClips, Actuate,
         AdvanceReturns, AdvanceVerifiedOnly, AdvanceShadow, AdvanceCanary,
         Finalize, ProcessPromoteActive, ProcessHalt, ProcessResume,
         ProcessUpdateParams, AgentFallsSilent, DropSendsHalt, RaiseShutdown,
         TakeEstop, AdvanceFrame, ProcessLoad
    <2> QED BY <2>1, Zenon DEF Consistent, TickedFits
  <1> QED BY <1>1, <1>2, <1>3

\* A tick's results keep fitting the slots until they go out of scope
LEMMA ResultsFitStep == TypeOK /\ Consistent /\ [Next]_vars => ResultsFit'
  <1> SUFFICES ASSUME TypeOK, Consistent, [Next]_vars PROVE ResultsFit'
    OBVIOUS
  <1> USE DEF ResultsFit, BetweenTicks, CandidateIsCanary, CandidateRunning,
             ActiveRunning, Consistent, vars, slots, rollout, books, locals,
             outside, outputs
  <1>1. CASE Head
    BY <1>1 DEF Head
  <1>2. CASE DrainEmergencyHalt
    BY <1>2, Zenon DEF DrainEmergencyHalt, HaltAll
  <1>3. CASE EmergencyDrained
    BY <1>3, SMTT(30) DEF EmergencyDrained
  <1>4. CASE CommandsDrained
    BY <1>4 DEF CommandsDrained
  <1>5. CASE WatchdogQuiet
    BY <1>5 DEF WatchdogQuiet
  <1>6. CASE WatchdogFires
    BY <1>6, ZenonT(30) DEF WatchdogFires
  <1>7. CASE TickActive
    BY <1>7 DEF TickActive, TickResults
  <1>8. CASE FailOver
    BY <1>8, SMTT(30) DEF FailOver, NoState
  <1>9. CASE FailStop
    BY <1>9, SMTT(30) DEF FailStop
  <1>10. CASE SkipCandidate
    BY <1>10, SMTT(30) DEF SkipCandidate
  <1>11. CASE TickCandidate
    BY <1>11 DEF TickCandidate, TickResults, SlotsDistinct
  <1>12. CASE RejectFailed
    BY <1>12, RejectingOutcomes DEF RejectFailed, Rejecting, Retires, NoState,
       SlotsDistinct
  <1>13. CASE CanaryWithin
    BY <1>13 DEF CanaryWithin
  <1>14. CASE CanaryClips
    BY <1>14, RejectingOutcomes DEF CanaryClips, Rejecting, Retires, NoState,
       SlotsDistinct
  <1>15. CASE Actuate
    BY <1>15 DEF Actuate
  <1>16. CASE AdvanceReturns
    BY <1>16 DEF AdvanceReturns
  <1>17. CASE Publish
    BY <1>17 DEF Publish
  <1>18. CASE Finalize
    BY <1>18 DEF Finalize
  <1>19. CASE ProcessPromoteActive
    BY <1>19 DEF ProcessPromoteActive
  <1>20. CASE ProcessHalt
    BY <1>20 DEF ProcessHalt, HaltAll
  <1>21. CASE ProcessResume
    BY <1>21 DEF ProcessResume
  <1>22. CASE ProcessUpdateParams
    BY <1>22 DEF ProcessUpdateParams
  <1>23. CASE AgentFallsSilent
    BY <1>23 DEF AgentFallsSilent
  <1>24. CASE DropSendsHalt
    BY <1>24 DEF DropSendsHalt
  <1>25. CASE RaiseShutdown
    BY <1>25 DEF RaiseShutdown
  <1>26. CASE TakeEstop
    BY <1>26, SMTT(30) DEF TakeEstop
  <1>27. CASE Advances
    BY <1>27, AdvanceOutcomes, Zenon DEF Graduates, Enters, Retires, Stays, Stash
  <1>28. CASE \E c \in Controllers : ProcessLoad(c)
    BY <1>28, ZenonT(30) DEF ProcessLoad
  <1>29. CASE UNCHANGED vars
    BY <1>29, SMTT(30)
  <1> QED
    BY <1>1, <1>2, <1>3, <1>4, <1>5, <1>6, <1>7, <1>8, <1>9, <1>10, <1>11,
       <1>12, <1>13, <1>14, <1>15, <1>16, <1>17, <1>18, <1>19, <1>20, <1>21, <1>22,
       <1>23, <1>24, <1>25, <1>26, <1>27, <1>28, <1>29, Zenon DEF Next, LoopStep,
       ProcessCommand, Environment, Advances

\* After a failure nothing in the rest of the tick sends a command: a canary
\* has lost its stage or its flag, and there is no active result
LEMMA FailureLeavesZeroFrameStep == TypeOK /\ Consistent /\ [Next]_vars => FailureLeavesZeroFrame'
  <1> SUFFICES ASSUME TypeOK, Consistent, [Next]_vars PROVE FailureLeavesZeroFrame'
    OBVIOUS
  <1> USE DEF FailureLeavesZeroFrame, TickAfterFailure, ActiveRunning, Consistent,
             vars, slots, rollout, books, locals, outside, outputs
  <1>1. CASE Head
    BY <1>1 DEF Head
  <1>2. CASE DrainEmergencyHalt
    BY <1>2 DEF DrainEmergencyHalt
  <1>3. CASE EmergencyDrained
    BY <1>3 DEF EmergencyDrained
  <1>4. CASE CommandsDrained
    BY <1>4, Zenon DEF CommandsDrained
  <1>5. CASE WatchdogQuiet
    BY <1>5 DEF WatchdogQuiet
  <1>6. CASE WatchdogFires
    BY <1>6, Zenon DEF WatchdogFires
  <1>7. CASE TickActive
    BY <1>7, Zenon DEF TickActive, ResultsFit, BetweenTicks
  <1>8. CASE FailOver
    BY <1>8, Zenon DEF FailOver, ResultsFit
  <1>9. CASE FailStop
    BY <1>9 DEF FailStop, ResultsFit
  <1>10. CASE SkipCandidate
    BY <1>10 DEF SkipCandidate
  <1>11. CASE TickCandidate
    BY <1>11, Zenon DEF TickCandidate, TickResults, ResultsFit, SlotsDistinct
  <1>12. CASE RejectFailed
    BY <1>12, RejectingOutcomes DEF RejectFailed, Rejecting, Retires,
       SlotsDistinct
  <1>13. CASE CanaryWithin
    BY <1>13, Zenon DEF CanaryWithin
  <1>14. CASE CanaryClips
    BY <1>14, RejectingOutcomes, SMTT(30) DEF CanaryClips, Rejecting, Retires,
       SlotsDistinct
  <1>15. CASE Actuate
    BY <1>15, Zenon DEF Actuate, ResultsFit
  <1>16. CASE AdvanceReturns
    BY <1>16, SMTT(30) DEF AdvanceReturns
  <1>17. CASE Publish
    BY <1>17, Zenon DEF Publish
  <1>18. CASE Finalize
    BY <1>18 DEF Finalize
  <1>19. CASE ProcessPromoteActive
    BY <1>19 DEF ProcessPromoteActive
  <1>20. CASE ProcessHalt
    BY <1>20 DEF ProcessHalt
  <1>21. CASE ProcessResume
    BY <1>21 DEF ProcessResume
  <1>22. CASE ProcessUpdateParams
    BY <1>22 DEF ProcessUpdateParams
  <1>23. CASE AgentFallsSilent
    BY <1>23 DEF AgentFallsSilent
  <1>24. CASE DropSendsHalt
    BY <1>24 DEF DropSendsHalt
  <1>25. CASE RaiseShutdown
    BY <1>25 DEF RaiseShutdown
  <1>26. CASE TakeEstop
    BY <1>26, ZenonT(30) DEF TakeEstop
  <1>27. CASE Advances
    BY <1>27, AdvanceOutcomes, SMTT(30) DEF Graduates, Enters, Retires, Stays, Stash,
       Advancing, TickedFits
  <1>28. CASE \E c \in Controllers : ProcessLoad(c)
    BY <1>28, Zenon DEF ProcessLoad
  <1>29. CASE UNCHANGED vars
    BY <1>29
  <1> QED
    BY <1>1, <1>2, <1>3, <1>4, <1>5, <1>6, <1>7, <1>8, <1>9, <1>10, <1>11,
       <1>12, <1>13, <1>14, <1>15, <1>16, <1>17, <1>18, <1>19, <1>20, <1>21, <1>22,
       <1>23, <1>24, <1>25, <1>26, <1>27, <1>28, <1>29, Zenon DEF Next, LoopStep,
       ProcessCommand, Environment, Advances

\* The initial state is consistent
LEMMA ConsistentInit == Init => Consistent
  <1> SUFFICES ASSUME Init PROVE Consistent
    OBVIOUS
  <1>1. TickedFits /\ ArmedIsVerified
    BY Zenon DEF Init, TickedFits, ArmedIsVerified
  <1>2. SlotsDistinct /\ SlotsLoaded
    BY SMTT(30) DEF Init, SlotsDistinct, SlotsLoaded
  <1>3. StageAgreement
    BY SMTT(30) DEF Init, StageAgreement, Staged, NoState
  <1>4. ResultsFit /\ EnvelopeHolds /\ FailureLeavesZeroFrame /\ OnlyVerifiedMoves
    BY DEF Init, ResultsFit, EnvelopeHolds, FailureLeavesZeroFrame,
           OnlyVerifiedMoves, TickAfterFailure
  <1> QED BY <1>1, <1>2, <1>3, <1>4 DEF Consistent

\* Consistency is inductive, given the types
LEMMA ConsistentStep == TypeOK /\ Consistent /\ [Next]_vars => Consistent'
  BY SlotsDistinctStep, SlotsLoadedStep, StageAgreementStep, ArmedIsVerifiedStep,
     ResultsFitStep, TickedFitsStep, EnvelopeHoldsStep, FailureLeavesZeroFrameStep,
     OnlyVerifiedMovesStep DEF Consistent

\* The inductive invariant: slots, stages, results of the tick, the frame on
\* the hardware and the lifecycle stay consistent with one another
THEOREM LoopConsistent == Spec => []Consistent
  BY TypeInit, TypeStep, ConsistentInit, ConsistentStep, PTL DEF Spec

\* A staged candidate is the one the lifecycle is about, in the stage the
\* lifecycle has it in, after any sequence of loads, promotions, fail-overs
\* and rejections
THEOREM StageAgrees == Spec => []StageAgreement
  <1>1. Consistent => StageAgreement
    BY DEF Consistent
  <1> QED BY <1>1, LoopConsistent, PTL

\* No controller instance is ever in two slots of the loop
THEOREM SlotsStayDistinct == Spec => []SlotsDistinct
  <1>1. Consistent => SlotsDistinct
    BY DEF Consistent
  <1> QED BY <1>1, LoopConsistent, PTL

\* A canary beside a running active controller only moves the hardware in a
\* tick in which the active one gave a command to hold it to
THEOREM EnvelopeAlwaysHolds == Spec => []EnvelopeHolds
  <1>1. Consistent => EnvelopeHolds
    BY DEF Consistent
  <1> QED BY <1>1, LoopConsistent, PTL

\* A hard failure leaves the zero frame on the hardware for the rest of the
\* tick, unless a running active controller is there to carry on
THEOREM FailureStopsHardware == Spec => []FailureLeavesZeroFrame
  <1>1. Consistent => FailureLeavesZeroFrame
    BY DEF Consistent
  <1> QED BY <1>1, LoopConsistent, PTL

\* No controller without a passing verifier result ever moves the hardware
THEOREM OnlyVerifiedEverMoves == Spec => []OnlyVerifiedMoves
  <1>1. Consistent => OnlyVerifiedMoves
    BY SMTT(30) DEF Consistent
  <1> QED BY <1>1, LoopConsistent, PTL

-----------------------------------------------------------------------------
\* The action property

StartsOrMoves ==
    /\ Moving' => ProcessResume \/ \E c \in Controllers : ProcessLoad(c)
    /\ frame' = frame \/ frame' = ZeroFrame

\* What a step may do once nothing runs
LEMMA StoppedStep ==
    ASSUME TypeOK, Consistent, [Next]_vars, ~Moving
    PROVE  StartsOrMoves
  <1> USE DEF StartsOrMoves, Moving, SlotsDistinct, CandidateRunning, ActiveRunning,
             Consistent, vars, slots, rollout, books, locals, outside, outputs
  <1>1. CASE Head
    BY <1>1, SMTT(30) DEF Head
  <1>2. CASE DrainEmergencyHalt
    BY <1>2, SMTT(30) DEF DrainEmergencyHalt, HaltAll
  <1>3. CASE EmergencyDrained
    BY <1>3, SMTT(30) DEF EmergencyDrained
  <1>4. CASE CommandsDrained
    BY <1>4, SMTT(30) DEF CommandsDrained
  <1>5. CASE WatchdogQuiet
    BY <1>5 DEF WatchdogQuiet
  <1>6. CASE WatchdogFires
    BY <1>6, SMTT(30) DEF WatchdogFires
  <1>7. CASE TickActive
    BY <1>7, SMTT(30) DEF TickActive
  <1>8. CASE FailOver
    BY <1>8 DEF FailOver
  <1>9. CASE FailStop
    BY <1>9 DEF FailStop
  <1>10. CASE SkipCandidate
    BY <1>10, SMTT(30) DEF SkipCandidate
  <1>11. CASE TickCandidate
    BY <1>11, Zenon DEF TickCandidate
  <1>12. CASE RejectFailed
    BY <1>12, RejectingOutcomes, SMTT(30) DEF RejectFailed, Rejecting, Retires, TypeOK,
       DataOK
  <1>13. CASE CanaryWithin
    BY <1>13, SMTT(30) DEF CanaryWithin
  <1>14. CASE CanaryClips
    BY <1>14, SMTT(30) DEF CanaryClips, CandidateIsCanary
  <1>15. CASE Actuate
    BY <1>15, SMTT(30) DEF Actuate, CandidateIsCanary, ResultsFit
  <1>16. CASE AdvanceReturns
    BY <1>16 DEF AdvanceReturns
  <1>17. CASE Publish
    BY <1>17, Zenon DEF Publish
  <1>18. CASE Finalize
    BY <1>18, SMTT(30) DEF Finalize
  <1>19. CASE ProcessPromoteActive
    BY <1>19, Zenon DEF ProcessPromoteActive
  <1>20. CASE ProcessHalt
    BY <1>20, Zenon DEF ProcessHalt, HaltAll
  <1>21. CASE ProcessResume
    BY <1>21 DEF ProcessResume
  <1>22. CASE ProcessUpdateParams
    BY <1>22 DEF ProcessUpdateParams
  <1>23. CASE AgentFallsSilent
    BY <1>23 DEF AgentFallsSilent
  <1>24. CASE DropSendsHalt
    BY <1>24, Zenon DEF DropSendsHalt
  <1>25. CASE RaiseShutdown
    BY <1>25 DEF RaiseShutdown
  <1>26. CASE TakeEstop
    BY <1>26, SMTT(30) DEF TakeEstop
  <1>27. CASE Advances
    BY <1>27, AdvanceOutcomes, ZenonT(30) DEF Graduates, Enters, Retires, Stays, Stash,
       TypeOK, DataOK
  <1>28. CASE \E c \in Controllers : ProcessLoad(c)
    BY <1>28, Zenon DEF ProcessLoad
  <1>29. CASE UNCHANGED vars
    BY <1>29
  <1> QED
    BY <1>1, <1>2, <1>3, <1>4, <1>5, <1>6, <1>7, <1>8, <1>9, <1>10, <1>11,
       <1>12, <1>13, <1>14, <1>15, <1>16, <1>17, <1>18, <1>19, <1>20, <1>21, <1>22,
       <1>23, <1>24, <1>25, <1>26, <1>27, <1>28, <1>29, Zenon DEF Next, LoopStep,
       ProcessCommand, Environment, Advances

\* Once nothing runs, only a Resume or a load sets a controller going, and no
\* command reaches the hardware before that
THEOREM StoppedStays == Spec => StoppedStaysStopped
  <1>1. TypeOK /\ Consistent /\ [Next]_vars =>
          [~Moving => /\ Moving' => ProcessResume \/ \E c \in Controllers : ProcessLoad(c)
                      /\ frame' = frame \/ frame' = ZeroFrame]_vars
    BY StoppedStep DEF StartsOrMoves
  <1> QED BY <1>1, TypeCorrect, LoopConsistent, PTL DEF Spec, StoppedStaysStopped
=============================================================================
