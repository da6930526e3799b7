-------------------------- MODULE CopperAuditProofs --------------------------
(***************************************************************************)
(* Proofs about what the Copper loop's controllers have done, for any set  *)
(* of controllers and any policy: the properties of CopperAudit, from an   *)
(* invariant over the loop and its history.                                *)
(***************************************************************************)
EXTENDS CopperAudit, CopperLoopProofs

\* A failed controller is in a slot only until its failure has been handled
FailedOut ==
    \A c \in failed :
        /\ c \in loaded
        /\ c # rollback
        /\ c = active => pc = "restore"
        /\ c = candidate => pc = "reject"

\* A tick that was clipped belongs to a canary, or to one the budget ended
BoundedFits ==
    bounded /\ pc \in {"actuate", "advance"} =>
        candidate_state = "Canary" \/ candidate = None

\* The loop's count of clipped ticks is ahead of the frames actually sent, by
\* the one that is about to be
Due == IF pc = "actuate" /\ bounded THEN 1 ELSE 0

ClippedFits ==
    /\ clipped <= MaxBoundedCanaryTicks
    /\ candidate_state = "Canary" =>
         /\ bounded_canary_ticks <= MaxBoundedCanaryTicks
         /\ clipped + Due <= bounded_canary_ticks

\* A shadow candidate left VerifiedOnly with evidence, as the policy has it
ShadowIsEarned ==
    candidate_state = "Shadow" /\ pc # "stopped" =>
        RequireShadow /\ "VerifiedOnly" \in earned[candidate]

History == AuditTypeOK /\ Consistent

AuditInv ==
    /\ History
    /\ FailedOut /\ BoundedFits /\ WindowExact /\ ClippedFits
    /\ ShadowIsEarned /\ AuthorityIsEarned

-----------------------------------------------------------------------------
\* The kinds of steps

\* The step leaves slots, stage and counters alone and sends no command
Rests ==
    /\ UNCHANGED <<active, candidate, rollback, loaded, candidate_state,
                   shadow_ticks, canary_ticks, bounded_canary_ticks>>
    /\ frame' = frame \/ frame' = ZeroFrame
    /\ pc \notin {"actuate", "advance", "stopped"}
    /\ pc' \notin {"actuate", "advance", "stopped"}

\* Most steps do
LEMMA StepKinds ==
    ASSUME TypeOK, Next
    PROVE  \/ Rests
           \/ FailOver \/ FailStop \/ RejectFailed
           \/ CanaryWithin \/ CanaryClips \/ Actuate
           \/ AdvanceReturns \/ Advances \/ Finalize
           \/ ProcessPromoteActive \/ \E c \in Controllers : ProcessLoad(c)
  <1> USE DEF Rests, slots, rollout, locals, outside, outputs
  <1>1. CASE Head \/ DrainEmergencyHalt \/ EmergencyDrained \/ CommandsDrained
             \/ WatchdogQuiet \/ WatchdogFires \/ TickActive \/ SkipCandidate
             \/ TickCandidate \/ Publish
    BY <1>1, Zenon DEF Head, DrainEmergencyHalt, EmergencyDrained, CommandsDrained,
       WatchdogQuiet, WatchdogFires, TickActive, SkipCandidate, TickCandidate, Publish
  <1>2. CASE ProcessHalt \/ ProcessResume \/ ProcessUpdateParams \/ Environment
    BY <1>2 DEF ProcessHalt, ProcessResume, ProcessUpdateParams, Environment,
       AgentFallsSilent, DropSendsHalt, RaiseShutdown, TakeEstop
  <1> QED BY <1>1, <1>2, SMTT(30) DEF Next, LoopStep, ProcessCommand, Advances

\* Leaving a stage with passing evidence, for the stage next_target names
Passes(shadow) ==
    /\ collector
    /\ \/ NextTarget(candidate_state) = "Active" /\ Graduates
       \/ /\ NextTarget(candidate_state) \in {"Shadow", "Canary"}
          /\ EnterStage(NextTarget(candidate_state), shadow)

\* submit_stage_evidence_and_promote promotes on evidence that passed only
LEMMA LeavePasses ==
    ASSUME TypeOK, Advancing, NEW mode \in ExecutionModes, NEW shadow, NEW canary,
           LeaveStage(mode, shadow, canary)
    PROVE  Passes(shadow) \/ Retires
  <1> DEFINE target == NextTarget(candidate_state)
             ev == [controller |-> candidate, mode |-> mode, pass |-> collector]
             lc == SubmitEvidence(lifecycle, ev)
  <1>1. target \in {"Shadow", "Canary", "Active"}
    BY DEF Advancing, NextTarget, NoState
  <1>2. CASE CanSubmit(lifecycle, ev) /\ CanPromoteTo(lc, target)
    <2>1. lc = [lifecycle EXCEPT !.evidence = ev]
      BY <1>2 DEF SubmitEvidence
    <2>2. lc.evidence = ev
      BY <2>1 DEF TypeOK, DataOK, Lifecycles
    <2>3. ev.pass
      BY <1>2, <2>2, Zenon DEF CanPromoteTo
    <2>4. collector
      BY <2>3
    <2>5. CASE target = "Active"
      <3>1. PromoteCandidateToActive
        BY <1>2, <2>5 DEF LeaveStage
      <3>2. ~promotion_requested'
        BY <3>1, Zenon DEF PromoteCandidateToActive
      <3> QED BY <2>4, <2>5, <3>1, <3>2 DEF PromoteCandidateToActive, Graduates, Passes
    <2>6. CASE target # "Active"
      <3>1. EnterStage(target, shadow)
        BY <1>2, <2>6 DEF LeaveStage
      <3> QED BY <1>1, <2>4, <2>6, <3>1 DEF Passes
    <2> QED BY <2>5, <2>6
  <1>3. CASE ~(CanSubmit(lifecycle, ev) /\ CanPromoteTo(lc, target))
    <2>1. RejectCandidate(lc, active # None) /\ UNCHANGED <<active, rollback>>
      BY <1>3, SMTT(30) DEF LeaveStage
    <2> QED BY <2>1, RejectRetires DEF Retires
  <1> QED BY <1>2, <1>3
-----------------------------------------------------------------------------
\* What the observer records

\* A hard failure is seen where the controller was ticked
LEMMA FailureSeen ==
    ASSUME TypeOK, Consistent, Next
    PROVE  /\ pc = "active" /\ active_result' = "halted" =>
                TickActive /\ active # None /\ pc' = "restore"
           /\ pc = "candidate" /\ candidate_result' = "halted" =>
                TickCandidate /\ candidate # None /\ pc' = "reject"
  <1> USE DEF Next, LoopStep, ProcessCommand, Environment, Head,
       DrainEmergencyHalt, EmergencyDrained, CommandsDrained, WatchdogQuiet,
       WatchdogFires, FailOver, FailStop, RejectFailed, CanaryWithin, CanaryClips,
       Actuate, AdvanceReturns, AdvanceVerifiedOnly, AdvanceShadow, AdvanceCanary,
       Publish, Finalize, ProcessLoad, ProcessPromoteActive, ProcessHalt,
       ProcessResume, ProcessUpdateParams, AgentFallsSilent, DropSendsHalt,
       RaiseShutdown, TakeEstop
  <1>1. ASSUME pc = "active", active_result' = "halted"
        PROVE  TickActive /\ active # None /\ pc' = "restore"
    <2>1. TickActive
      BY <1>1, ZenonT(30) DEF SkipCandidate, TickCandidate
    <2> QED BY <1>1, <2>1, ZenonT(30) DEF TickActive, ActiveRunning
  <1>2. ASSUME pc = "candidate", candidate_result' = "halted"
        PROVE  TickCandidate /\ candidate # None /\ pc' = "reject"
    <2>1. SkipCandidate \/ TickCandidate
      BY <1>2, ZenonT(30) DEF TickActive
    <2>2. ~SkipCandidate
      BY <1>2, ZenonT(30) DEF SkipCandidate, locals, Consistent, ResultsFit, BetweenTicks
    <2>3. ticked' = FALSE /\ candidate # None
      BY <1>2, <2>1, <2>2, Zenon DEF TickCandidate, CandidateRunning
    <2> QED BY <2>1, <2>2, <2>3, ZenonT(30) DEF TickCandidate
  <1> QED BY <1>1, <1>2, ZenonT(30)

\* The observer's counters after a step that does not touch the rollout
LEMMA RestsUnseen ==
    ASSUME Rests, Observe
    PROVE  UNCHANGED <<window, clipped, earned>>
  BY DEF Rests, Observe, NewStage, Observed, EndsTick

\* What a controller has earned it keeps
LEMMA EarnedGrows ==
    ASSUME AuditTypeOK, Observe
    PROVE  \A c \in Controllers : earned[c] \subseteq earned'[c]
  BY DEF Observe, AuditTypeOK

\* The observer's variables keep their types
LEMMA AuditTypeStep ==
    ASSUME History, AuditNext
    PROVE  AuditTypeOK'
  <1> USE DEF History, AuditNext, AuditTypeOK
  <1>1. TypeOK'
    BY TypeStep
  <1>2. failed' \subseteq Controllers
    <2>1. /\ active_result' = "halted" /\ pc = "active" => active \in Controllers
          /\ candidate_result' = "halted" /\ pc = "candidate" => candidate \in Controllers
      BY FailureSeen DEF TypeOK, DataOK, MaybeController
    <2> QED BY <2>1 DEF Observe
  <1>3. canaried' \subseteq Controllers
    BY <1>1 DEF Observe, TypeOK, DataOK, MaybeController
  <1>4. window' \in Nat /\ clipped' \in Nat
    BY DEF Observe, Observed
  <1>5. earned' \in [Controllers -> SUBSET DeploymentStates]
    <2>1. EndsTick => candidate_state \in DeploymentStates
      BY DEF EndsTick, TypeOK, DataOK, OptionalStates
    <2> QED BY <2>1, Zenon DEF Observe
  <1> QED BY <1>1, <1>2, <1>3, <1>4, <1>5

-----------------------------------------------------------------------------
\* The invariant, conjunct by conjunct

\* A load uses a fresh id, and a promotion or a fail-over moves only what has
\* not failed
LEMMA FailedOutStep ==
    ASSUME History, FailedOut, AuditNext
    PROVE  FailedOut'
  <1> USE DEF History, AuditNext, FailedOut, AuditTypeOK
  <1>1. (failed' = failed /\ None \notin failed) \/ TickActive \/ TickCandidate
    <2>1. None \notin failed
      BY NoneAssumption
    <2>2. ASSUME ~TickActive, ~TickCandidate
          PROVE  failed' = failed
      <3>1. /\ ~(active_result' = "halted" /\ pc = "active")
            /\ ~(candidate_result' = "halted" /\ pc = "candidate")
        BY <2>2, FailureSeen
      <3> QED BY <3>1 DEF Observe
    <2> QED BY <2>1, <2>2
  <1>2. CASE TickActive
    <2>1. \/ failed' = failed
          \/ failed' = failed \union {active} /\ active # None /\ pc' = "restore"
      BY <1>2, FailureSeen DEF Observe, TickActive
    <2> QED BY <1>2, <2>1 DEF TickActive, outside, Consistent, SlotsDistinct, SlotsLoaded
  <1>3. CASE TickCandidate
    <2>1. \/ failed' = failed
          \/ failed' = failed \union {candidate} /\ candidate # None /\ pc' = "reject"
      BY <1>3, FailureSeen, Zenon DEF Observe, TickCandidate
    <2> QED BY <1>3, <2>1 DEF TickCandidate, outside, Consistent, SlotsDistinct, SlotsLoaded
  <1>4. ASSUME failed' = failed, None \notin failed, ~TickActive, ~TickCandidate
        PROVE  FailedOut'
    <2> USE <1>4 DEF slots, rollout, outside
    <2>1. CASE Head \/ DrainEmergencyHalt \/ EmergencyDrained \/ CommandsDrained
               \/ WatchdogQuiet \/ WatchdogFires \/ SkipCandidate \/ Publish
      BY <2>1, ZenonT(30) DEF Head, DrainEmergencyHalt, EmergencyDrained, CommandsDrained,
         WatchdogQuiet, WatchdogFires, SkipCandidate, Publish
    <2>2. CASE ProcessHalt \/ ProcessResume \/ ProcessUpdateParams \/ Environment
               \/ ProcessPromoteActive
      BY <2>2, Zenon DEF ProcessHalt, ProcessResume, ProcessUpdateParams, Environment,
         AgentFallsSilent, DropSendsHalt, RaiseShutdown, TakeEstop,
         ProcessPromoteActive
    <2>3. CASE CanaryWithin \/ Actuate \/ AdvanceReturns \/ Finalize
      BY <2>3 DEF CanaryWithin, Actuate, AdvanceReturns, Finalize
    <2>4. CASE FailOver
      BY <2>4 DEF FailOver
    <2>5. CASE FailStop
      BY <2>5 DEF FailStop
    <2>6. CASE RejectFailed
      BY <2>6, RejectingOutcomes DEF RejectFailed, Rejecting, Retires
    <2>7. CASE CanaryClips
      BY <2>7, RejectingOutcomes DEF CanaryClips, Rejecting, Retires
    <2>8. CASE Advances
      BY <2>8, AdvanceOutcomes DEF Graduates, Enters, Retires, Stays, Stash
    <2>9. CASE \E c \in Controllers : ProcessLoad(c)
      BY <2>9 DEF ProcessLoad
    <2> QED BY <2>1, <2>2, <2>3, <2>4, <2>5, <2>6, <2>7, <2>8, <2>9, Zenon DEF Next,
            LoopStep, ProcessCommand, Advances
  <1> QED BY <1>1, <1>2, <1>3, <1>4
\* CanaryClips alone sets canary_command_was_bounded, and whatever takes the
\* canary its stage in that tick takes it its slot
LEMMA BoundedFitsStep ==
    ASSUME History, BoundedFits, AuditNext
    PROVE  BoundedFits'
  <1> USE DEF History, AuditNext, AuditTypeOK, BoundedFits, slots, rollout, locals
  <1>1. CASE Rests
    BY <1>1 DEF Rests
  <1>2. CASE FailOver \/ FailStop
    BY <1>2, Zenon DEF FailOver, FailStop
  <1>3. CASE RejectFailed
    BY <1>3 DEF RejectFailed
  <1>4. CASE CanaryWithin
    BY <1>4, Zenon DEF CanaryWithin
  <1>5. CASE CanaryClips
    <2>1. \/ UNCHANGED <<candidate, candidate_state>>
          \/ candidate' = None
      BY <1>5, RejectRetires, Zenon DEF CanaryClips, RejectKeepingActive, RejectAndStop
    <2> QED BY <1>5, <2>1 DEF CanaryClips, CandidateIsCanary
  <1>6. CASE Actuate
    BY <1>6 DEF Actuate
  <1>7. CASE AdvanceReturns
    BY <1>7 DEF AdvanceReturns
  <1>8. CASE Advances
    BY <1>8, AdvanceOutcomes
  <1>9. CASE Finalize
    BY <1>9 DEF Finalize
  <1>10. CASE ProcessPromoteActive
    BY <1>10 DEF ProcessPromoteActive
  <1>11. CASE \E c \in Controllers : ProcessLoad(c)
    BY <1>11 DEF ProcessLoad
  <1> QED BY <1>1, <1>2, <1>3, <1>4, <1>5, <1>6, <1>7, <1>8, <1>9, <1>10, <1>11,
          StepKinds

\* A tick of a staged candidate is counted: it is armed, under a policy with a
\* next stage for it
LEMMA StagedTickAdvances ==
    ASSUME History, Staged, pc = "advance", ticked
    PROVE  Advancing
  BY DEF History, Consistent, StageAgreement, ArmedIsVerified, Staged, Advancing,
     NextTarget, NoState

\* What one call of advance_candidate_stage does to stage and counters
Counts ==
    /\ UNCHANGED <<active, candidate, rollback, candidate_state, bounded_canary_ticks>>
    /\ candidate_state = "Shadow" =>
         shadow_ticks' = shadow_ticks + 1 /\ canary_ticks' = canary_ticks
    /\ candidate_state = "Canary" =>
         /\ shadow_ticks' = shadow_ticks
         /\ canary_ticks' = IF bounded THEN 0 ELSE canary_ticks + 1

\* The window of the stage is complete with this tick
Complete ==
    /\ candidate_state = "Shadow" => shadow_ticks + 1 >= ShadowTicksRequired
    /\ candidate_state = "Canary" =>
         ~bounded /\ canary_ticks + 1 >= CanaryTicksRequired

LEMMA AdvanceCounts ==
    ASSUME TypeOK, Advances
    PROVE  /\ pc = "advance" /\ pc' = "publish" /\ Advancing /\ frame' = frame
           /\ candidate_state \in {"VerifiedOnly", "Shadow", "Canary"}
           /\ \/ Counts /\ candidate_state \in {"Shadow", "Canary"}
              \/ Complete /\ \E n \in Nat : Passes(n)
              \/ Retires
  <1>1. /\ pc = "advance" /\ pc' = "publish" /\ Advancing /\ frame' = frame
        /\ candidate_state \in {"VerifiedOnly", "Shadow", "Canary"}
    BY DEF Advances, AdvanceVerifiedOnly, AdvanceShadow, AdvanceCanary,
       AdvanceFrame, outputs
  <1>2. shadow_ticks \in Nat /\ shadow_ticks + 1 \in Nat
    BY DEF TypeOK, DataOK
  <1>3. CASE AdvanceVerifiedOnly
    BY <1>1, <1>2, <1>3, LeavePasses DEF AdvanceVerifiedOnly, ExecutionModes, Complete
  <1>4. CASE AdvanceShadow
    <2>1. CASE shadow_ticks + 1 >= ShadowTicksRequired
      BY <1>1, <1>2, <1>4, <2>1, LeavePasses DEF AdvanceShadow, ExecutionModes, Complete
    <2>2. CASE ~(shadow_ticks + 1 >= ShadowTicksRequired)
      BY <1>1, <1>4, <2>2 DEF AdvanceShadow, Counts, slots
    <2> QED BY <2>1, <2>2
  <1>5. CASE AdvanceCanary
    <2>1. CASE ~bounded /\ canary_ticks + 1 >= CanaryTicksRequired
      BY <1>1, <1>2, <1>5, <2>1, LeavePasses DEF AdvanceCanary, ExecutionModes, Complete
    <2>2. CASE ~(~bounded /\ canary_ticks + 1 >= CanaryTicksRequired)
      BY <1>1, <1>5, <2>2 DEF AdvanceCanary, Counts, slots
    <2> QED BY <2>1, <2>2
  <1> QED BY <1>1, <1>3, <1>4, <1>5 DEF Advances

\* The counter of a stage starts with the stage and moves with the window
LEMMA WindowExactStep ==
    ASSUME History, BoundedFits, WindowExact, AuditNext
    PROVE  WindowExact'
  <1> USE DEF History, AuditNext, AuditTypeOK, WindowExact, NoState
  <1>1. CASE Rests
    BY <1>1, RestsUnseen DEF Rests
  <1>2. CASE FailOver
    BY <1>2, SMTT(30) DEF FailOver
  <1>3. CASE FailStop \/ CanaryWithin \/ Actuate
    BY <1>3 DEF FailStop, CanaryWithin, Actuate, rollout, slots, Observe, NewStage,
       Observed, EndsTick
  <1>4. CASE RejectFailed
    BY <1>4, RejectingOutcomes DEF RejectFailed, Rejecting, Retires
  <1>5. CASE CanaryClips
    <2>1. CASE candidate_state' = NoState
      BY <2>1
    <2>2. CASE candidate_state' # NoState
      <3>1. UNCHANGED <<candidate, candidate_state, shadow_ticks, canary_ticks>>
        BY <1>5, <2>2, RejectRetires, Zenon DEF CanaryClips, RejectKeepingActive, RejectAndStop
      <3> QED BY <1>5, <3>1 DEF CanaryClips, Observe, NewStage, Observed, EndsTick
    <2> QED BY <2>1, <2>2
  <1>6. CASE AdvanceReturns
    <2>1. ~(Staged /\ EndsTick)
      BY <1>6, StagedTickAdvances DEF AdvanceReturns, EndsTick
    <2>2. UNCHANGED <<candidate, candidate_state, shadow_ticks, canary_ticks>>
      BY <1>6 DEF AdvanceReturns, slots
    <2> QED BY <1>6, <2>1, <2>2 DEF AdvanceReturns, Observe, NewStage, Observed, Staged
  <1>7. CASE Advances
    <2>1. CASE Counts /\ candidate_state \in {"Shadow", "Canary"}
      <3>1. EndsTick /\ ~NewStage
        BY <1>7, <2>1, AdvanceCounts DEF EndsTick, NewStage, Counts, Advancing
      <3>2. candidate_state = "Shadow" => ~bounded
        BY <3>1 DEF BoundedFits, EndsTick
      <3>3. window' = IF ~bounded THEN window + 1 ELSE 0
        BY <2>1, <3>1 DEF Observe, Observed, GoodTick
      <3> QED BY <1>7, <2>1, <3>2, <3>3, AdvanceCounts DEF Counts
    <2>2. CASE Retires
      BY <2>2 DEF Retires
    <2>3. ASSUME NEW n \in Nat, Passes(n)
          PROVE  WindowExact'
      <3>1. CASE Graduates
        BY <3>1 DEF Graduates
      <3>2. CASE EnterStage(NextTarget(candidate_state), n)
        <4>1. candidate_state' # candidate_state
          BY <1>7, <3>2, AdvanceCounts DEF EnterStage, NextTarget
        <4>2. window' = 0
          BY <4>1 DEF Observe, NewStage
        <4> QED BY <3>2, <4>2 DEF EnterStage
      <3> QED BY <2>3, <3>1, <3>2 DEF Passes
    <2> QED BY <1>7, <2>1, <2>2, <2>3, AdvanceCounts
  <1>8. CASE Finalize
    BY <1>8 DEF Finalize
  <1>9. CASE ProcessPromoteActive
    BY <1>9, SMTT(30) DEF ProcessPromoteActive, slots, Observe, NewStage, Observed, EndsTick
  <1>10. CASE \E c \in Controllers : ProcessLoad(c)
    BY <1>10, SMTT(30) DEF ProcessLoad, LoadArtifact
  <1> QED BY <1>1, <1>2, <1>3, <1>4, <1>5, <1>6, <1>7, <1>8, <1>9, <1>10, StepKinds
\* Every clipped frame was counted before it was sent, and a count over the
\* budget ends the stage
LEMMA ClippedFitsStep ==
    ASSUME History, BoundedFits, ClippedFits, AuditNext
    PROVE  ClippedFits'
  <1> USE DEF History, AuditNext, AuditTypeOK, ClippedFits, Due, NoState
  <1>0. /\ clipped \in Nat /\ bounded_canary_ticks \in Nat
        /\ MaxBoundedCanaryTicks \in Nat
    BY PolicyAssumption DEF TypeOK, DataOK
  <1>1. CASE Rests
    BY <1>0, <1>1, RestsUnseen DEF Rests
  <1>2. ASSUME pc # "actuate" \/ pc' # "advance"
        PROVE  clipped' = clipped \/ clipped' = 0
    BY <1>2 DEF Observe
  <1>3. CASE FailOver
    BY <1>0, <1>2, <1>3 DEF FailOver
  <1>4. CASE FailStop \/ CanaryWithin
    <2>1. UNCHANGED rollout /\ ~(pc' = "actuate" /\ bounded') /\ pc # "actuate"
      BY <1>4, Zenon DEF FailStop, CanaryWithin
    <2> QED BY <1>0, <1>2, <2>1 DEF rollout
  <1>5. CASE RejectFailed
    BY <1>0, <1>2, <1>5, RejectingOutcomes DEF RejectFailed, Rejecting, Retires
  <1>6. CASE CanaryClips
    <2>1. CASE OverBudget(bounded_canary_ticks')
      <3>1. candidate_state' = NoState
        BY <1>6, <2>1, RejectRetires, Zenon DEF CanaryClips, RejectKeepingActive, RejectAndStop
      <3> QED BY <1>0, <1>2, <1>6, <3>1 DEF CanaryClips
    <2>2. CASE ~OverBudget(bounded_canary_ticks')
      <3>1. bounded_canary_ticks' = bounded_canary_ticks + 1
        BY <1>6 DEF CanaryClips
      <3>2. bounded_canary_ticks' <= MaxBoundedCanaryTicks
        BY <1>0, <2>2, <3>1 DEF OverBudget
      <3> QED BY <1>0, <1>2, <1>6, <3>1, <3>2 DEF CanaryClips, CandidateIsCanary
    <2> QED BY <2>1, <2>2
  <1>7. CASE Actuate
    <2>1. UNCHANGED <<candidate, rollout, bounded>> /\ pc = "actuate" /\ pc' = "advance"
      BY <1>7 DEF Actuate, slots, locals
    <2>2. CASE bounded /\ frame' = Command(candidate)
      <3>1. candidate_state = "Canary"
        <4>1. frame'.by # None
          <5>1. Consistent'
            BY ConsistentStep
          <5>2. frame'.by \in Promotable
            BY <2>2, <5>1 DEF Consistent, OnlyVerifiedMoves, Command
          <5> QED BY <5>2, NoneAssumption, PolicyAssumption
        <4> QED BY <2>1, <2>2, <4>1 DEF BoundedFits, Command
      <3>2. clipped' = clipped + 1
        BY <2>1, <2>2 DEF Observe, NewStage, rollout
      <3> QED BY <1>0, <2>1, <2>2, <3>1, <3>2 DEF rollout
    <2>3. CASE ~(bounded /\ frame' = Command(candidate))
      <3>1. clipped' = clipped
        BY <2>1, <2>3 DEF Observe, NewStage, rollout
      <3> QED BY <1>0, <2>1, <3>1 DEF rollout
    <2> QED BY <2>2, <2>3
  <1>8. CASE AdvanceReturns
    BY <1>0, <1>2, <1>8 DEF AdvanceReturns
  <1>9. CASE Advances
    <2>1. pc = "advance" /\ pc' = "publish"
      BY <1>9, AdvanceCounts
    <2>2. \/ UNCHANGED <<candidate_state, bounded_canary_ticks>>
          \/ candidate_state' # "Canary"
          \/ candidate_state' # candidate_state /\ bounded_canary_ticks' = 0
      BY <1>9, AdvanceCounts, Zenon DEF Counts, Passes, Graduates, EnterStage, Retires,
         NextTarget
    <2>3. candidate_state' # candidate_state => clipped' = 0
      BY DEF Observe, NewStage
    <2> QED BY <1>0, <1>2, <2>1, <2>2, <2>3
  <1>10. CASE Finalize
    BY <1>0, <1>2, <1>10 DEF Finalize, rollout
  <1>11. CASE ProcessPromoteActive
    BY <1>0, <1>2, <1>11 DEF ProcessPromoteActive
  <1>12. CASE \E c \in Controllers : ProcessLoad(c)
    BY <1>0, <1>2, <1>12 DEF ProcessLoad, LoadArtifact
  <1> QED BY <1>1, <1>3, <1>4, <1>5, <1>6, <1>7, <1>8, <1>9, <1>10, <1>11, <1>12,
          StepKinds

-----------------------------------------------------------------------------
\* Authority

\* A candidate that leaves its stage with a complete window has earned it
LEMMA StageIsEarned ==
    ASSUME History, BoundedFits, WindowExact, Observe, collector, Complete, Advancing,
           candidate_state \in {"VerifiedOnly", "Shadow", "Canary"},
           pc = "advance", pc' = "publish"
    PROVE  candidate_state \in earned'[candidate]
  <1>1. EndsTick
    BY DEF EndsTick, Advancing
  <1>2. candidate \in Controllers
    BY DEF Advancing, History, AuditTypeOK, TypeOK, DataOK, MaybeController
  <1>3. window \in Nat /\ earned \in [Controllers -> SUBSET DeploymentStates]
    BY DEF History, AuditTypeOK
  <1>4. Observed >= Required(candidate_state)
    <2>1. CASE candidate_state = "VerifiedOnly"
      BY <1>3, <2>1 DEF Observed, Required
    <2>2. CASE candidate_state = "Shadow"
      <3>1. ~bounded
        BY <2>2 DEF BoundedFits, Advancing
      <3> QED BY <1>1, <2>2, <3>1 DEF Observed, GoodTick, Required, Complete, WindowExact
    <2>3. CASE candidate_state = "Canary"
      BY <1>1, <2>3 DEF Observed, GoodTick, Required, Complete, WindowExact
    <2> QED BY <2>1, <2>2, <2>3
  <1>5. earned' = [earned EXCEPT ![candidate] = @ \union {candidate_state}]
    BY <1>1, <1>4 DEF Observe
  <1> QED BY <1>2, <1>3, <1>5

\* Completed, by what has been earned after the step
BeforeCanaryNow(c) ==
    /\ "VerifiedOnly" \in earned'[c]
    /\ RequireShadow => "Shadow" \in earned'[c]

RolloutNow(c) ==
    /\ BeforeCanaryNow(c)
    /\ RequireCanary \/ ~RequireShadow => "Canary" \in earned'[c]

\* Who has completed the stages stays so
LEMMA CompletedStays ==
    ASSUME AuditTypeOK, Observe, NEW c \in Controllers
    PROVE  /\ CompletedBeforeCanary(c) => BeforeCanaryNow(c)
           /\ CompletedRollout(c) => RolloutNow(c)
  BY EarnedGrows, SMTT(30) DEF CompletedBeforeCanary, CompletedRollout, BeforeCanaryNow, RolloutNow

\* Nobody new gets hold of the hardware: slots are emptied or filled from the
\* rollback slot, a stage is kept or lost, and a frame comes from the active
\* controller or the canary
KeepsAuthority ==
    /\ pc # "stopped"
    /\ active' \in {active, rollback, None} /\ rollback' \in {rollback, None}
    /\ \/ UNCHANGED <<candidate, candidate_state>>
       \/ candidate_state' \notin {"Shadow", "Canary"}
       \/ pc' = "stopped"
    /\ \/ frame' = frame \/ frame' = ZeroFrame
       \/ active # None /\ frame' = Command(active)
       \/ candidate_state = "Canary" /\ frame' = Command(candidate)

LEMMA AuthorityKept ==
    ASSUME History, ShadowIsEarned, AuthorityIsEarned, Observe, KeepsAuthority
    PROVE  ShadowIsEarned' /\ AuthorityIsEarned'
  <1> USE DEF History, AuditTypeOK, KeepsAuthority
  <1>1. /\ active \in Controllers \union {None} /\ rollback \in Controllers \union {None}
        /\ Staged => candidate \in Controllers
        /\ frame.kind = "command" => frame.by \in Controllers
    BY PolicyAssumption DEF TypeOK, DataOK, MaybeController, Consistent,
       StageAgreement, OnlyVerifiedMoves
  <1>2. ShadowIsEarned'
    BY <1>1, EarnedGrows DEF ShadowIsEarned, Staged
  <1>3. candidate_state' = "Canary" /\ pc' # "stopped" => BeforeCanaryNow(candidate')
    BY <1>1, CompletedStays DEF AuthorityIsEarned, Staged
  <1>4. active' # None => RolloutNow(active')
    BY <1>1, CompletedStays DEF AuthorityIsEarned
  <1>5. rollback' # None => RolloutNow(rollback')
    BY <1>1, CompletedStays DEF AuthorityIsEarned
  <1>6. frame'.kind = "command" => BeforeCanaryNow(frame'.by)
    <2>1. active # None => BeforeCanaryNow(active)
      BY <1>1, CompletedStays DEF AuthorityIsEarned, RolloutNow
    <2> QED BY <1>1, <2>1, CompletedStays, SMTT(30) DEF AuthorityIsEarned, ZeroFrame, Command,
            Staged
  <1> QED BY <1>2, <1>3, <1>4, <1>5, <1>6 DEF AuthorityIsEarned, BeforeCanaryNow,
          RolloutNow, CompletedBeforeCanary, CompletedRollout
\* A stage is entered, and the active slot filled, by whoever has earned it
LEMMA PassingIsEarned ==
    ASSUME History, BoundedFits, WindowExact, ShadowIsEarned, AuthorityIsEarned,
           Observe, Advances, Complete, NEW n \in Nat, Passes(n)
    PROVE  ShadowIsEarned' /\ AuthorityIsEarned'
  <1>1. /\ pc = "advance" /\ pc' = "publish" /\ Advancing /\ frame' = frame /\ collector
        /\ candidate_state \in {"VerifiedOnly", "Shadow", "Canary"}
        /\ AllowsRollout
    BY AdvanceCounts DEF History, AuditTypeOK, Passes, Advancing, NextTarget
  <1>2. candidate_state \in earned'[candidate]
    BY <1>1, StageIsEarned
  <1>3. /\ candidate \in Controllers
        /\ active \in Controllers \union {None} /\ rollback \in Controllers \union {None}
        /\ frame.kind = "command" => frame.by \in Controllers
    BY <1>1, PolicyAssumption, ZenonT(30) DEF History, AuditTypeOK, TypeOK, DataOK, Advancing,
       MaybeController, Consistent, OnlyVerifiedMoves
  <1>4. \A c \in Controllers : /\ earned[c] \subseteq earned'[c]
                               /\ CompletedBeforeCanary(c) => BeforeCanaryNow(c)
                               /\ CompletedRollout(c) => RolloutNow(c)
    BY EarnedGrows, CompletedStays DEF History
  <1>5. frame'.kind = "command" => BeforeCanaryNow(frame'.by)
    BY <1>1, <1>3, <1>4 DEF AuthorityIsEarned
  <1>6. CASE NextTarget(candidate_state) = "Active" /\ Graduates
    <2>1. RolloutNow(candidate)
      <3>1. CASE candidate_state = "Shadow"
        BY <1>1, <1>2, <1>3, <1>4, <1>6, <3>1, PolicyAssumption, SMTT(30) DEF ShadowIsEarned,
           NextTarget, RolloutNow, BeforeCanaryNow
      <3>2. CASE candidate_state = "Canary"
        BY <1>1, <1>2, <1>3, <1>4, <3>2, Zenon DEF AuthorityIsEarned, RolloutNow
      <3>3. candidate_state # "VerifiedOnly"
        BY <1>1, <1>6 DEF NextTarget
      <3> QED BY <1>1, <3>1, <3>2, <3>3
    <2>2. /\ candidate_state' = NoState /\ active' = candidate
          /\ rollback' \in {active, rollback}
          /\ active = None => rollback' = rollback
      BY <1>6, SMTT(30) DEF Graduates, Stash
    <2>3. rollback' # None => RolloutNow(rollback')
      BY <1>3, <1>4, <2>2, Zenon DEF AuthorityIsEarned
    <2> QED BY <1>5, <2>1, <2>2, <2>3 DEF ShadowIsEarned, AuthorityIsEarned, NoState,
            BeforeCanaryNow, RolloutNow, CompletedBeforeCanary, CompletedRollout
  <1>7. CASE EnterStage(NextTarget(candidate_state), n)
    <2>1. /\ candidate_state' = NextTarget(candidate_state)
          /\ UNCHANGED <<active, candidate, rollback>>
      BY <1>7 DEF EnterStage
    <2>2. candidate_state' = "Shadow" => RequireShadow /\ "VerifiedOnly" \in earned'[candidate]
      BY <1>1, <1>2, <2>1 DEF NextTarget
    <2>3. candidate_state' = "Canary" => BeforeCanaryNow(candidate)
      <3>1. CASE candidate_state = "VerifiedOnly"
        BY <1>1, <1>2, <2>1, <3>1 DEF NextTarget, BeforeCanaryNow
      <3>2. CASE candidate_state = "Shadow"
        BY <1>1, <1>2, <1>3, <1>4, <3>2 DEF ShadowIsEarned, BeforeCanaryNow
      <3>3. CASE candidate_state = "Canary"
        BY <1>1, <2>1, <3>3, SMTT(30) DEF NextTarget
      <3> QED BY <1>1, <3>1, <3>2, <3>3
    <2>4. /\ active' # None => RolloutNow(active')
          /\ rollback' # None => RolloutNow(rollback')
      BY <1>3, <1>4, <2>1 DEF AuthorityIsEarned
    <2> QED BY <1>5, <2>1, <2>2, <2>3, <2>4 DEF ShadowIsEarned, AuthorityIsEarned,
            BeforeCanaryNow, RolloutNow, CompletedBeforeCanary, CompletedRollout
  <1> QED BY <1>6, <1>7 DEF Passes

\* Authority over the hardware stays earned
LEMMA AuthorityStep ==
    ASSUME History, BoundedFits, WindowExact, ShadowIsEarned, AuthorityIsEarned,
           AuditNext
    PROVE  ShadowIsEarned' /\ AuthorityIsEarned'
  <1> USE DEF History, AuditNext, AuditTypeOK
  <1>1. CASE ~Advances
    <2> USE DEF KeepsAuthority, NoState, slots, rollout, outputs
    <2>1. CASE Rests
      BY <2>1, AuthorityKept DEF Rests
    <2>2. CASE FailOver \/ FailStop \/ CanaryWithin \/ AdvanceReturns \/ Finalize
      <3>1. KeepsAuthority
        BY <2>2, Zenon DEF FailOver, FailStop, CanaryWithin, AdvanceReturns, Finalize
      <3> QED BY <3>1, AuthorityKept, SMTT(30)
    <2>3. CASE RejectFailed
      <3>1. KeepsAuthority
        BY <2>3, RejectingOutcomes DEF RejectFailed, Rejecting, Retires
      <3> QED BY <3>1, AuthorityKept
    <2>4. CASE CanaryClips
      <3>1. KeepsAuthority
        BY <2>4, RejectingOutcomes DEF CanaryClips, Rejecting, Retires
      <3> QED BY <3>1, AuthorityKept
    <2>5. CASE Actuate
      <3>1. KeepsAuthority
        BY <2>5 DEF Actuate, CandidateIsCanary, Consistent, ResultsFit, ActiveRunning
      <3> QED BY <3>1, AuthorityKept
    <2>6. CASE ProcessPromoteActive \/ \E c \in Controllers : ProcessLoad(c)
      <3>1. /\ pc = "drain" /\ pc' = "drain" /\ UNCHANGED <<active, rollback, frame>>
            /\ \/ UNCHANGED <<candidate, candidate_state>>
               \/ candidate_state' = "VerifiedOnly"
        <4>1. CASE ProcessPromoteActive
          BY <4>1, SMTT(30) DEF ProcessPromoteActive
        <4>2. ASSUME NEW c \in Controllers, ProcessLoad(c)
              PROVE  /\ pc = "drain" /\ pc' = "drain" /\ UNCHANGED <<active, rollback, frame>>
                     /\ candidate_state' = "VerifiedOnly"
          BY <4>2 DEF ProcessLoad, LoadArtifact
        <4> QED BY <2>6, <4>1, <4>2
      <3>2. KeepsAuthority
        BY <3>1
      <3> QED BY <3>2, AuthorityKept
    <2> QED BY <1>1, <2>1, <2>2, <2>3, <2>4, <2>5, <2>6, StepKinds
  <1>2. CASE Advances
    <2>1. CASE Counts
      <3>1. KeepsAuthority
        BY <1>2, <2>1, AdvanceCounts DEF KeepsAuthority, Counts
      <3> QED BY <3>1, AuthorityKept
    <2>2. CASE Retires
      <3>1. KeepsAuthority
        BY <1>2, <2>2, AdvanceCounts DEF KeepsAuthority, Retires, NoState
      <3> QED BY <3>1, AuthorityKept
    <2>3. CASE Complete /\ \E n \in Nat : Passes(n)
      BY <1>2, <2>3, PassingIsEarned
    <2> QED BY <1>2, <2>1, <2>2, <2>3, AdvanceCounts
  <1> QED BY <1>1, <1>2

-----------------------------------------------------------------------------
\* The theorems

\* The invariant holds before the first tick
LEMMA AuditInvInit == AuditInit => AuditInv
  <1> SUFFICES ASSUME AuditInit PROVE AuditInv
    OBVIOUS
  <1>1. TypeOK /\ Consistent
    BY TypeInit, ConsistentInit DEF AuditInit
  <1>2. AuditTypeOK
    BY <1>1, SMTT(30) DEF AuditInit, AuditTypeOK
  <1>3. FailedOut /\ WindowExact /\ ClippedFits /\ ShadowIsEarned /\ AuthorityIsEarned
    BY PolicyAssumption, SMTT(30) DEF AuditInit, Init, FailedOut, WindowExact, ClippedFits,
       ShadowIsEarned, AuthorityIsEarned, NoState
  <1>4. BoundedFits
    BY DEF AuditInit, Init, BoundedFits
  <1> QED BY <1>1, <1>2, <1>3, <1>4 DEF AuditInv, History

\* Every step keeps it
LEMMA AuditInvStep == AuditInv /\ [AuditNext]_<<vars, audit>> => AuditInv'
  <1> SUFFICES ASSUME AuditInv, [AuditNext]_<<vars, audit>> PROVE AuditInv'
    OBVIOUS
  <1>1. CASE AuditNext
    <2>1. Consistent'
      BY <1>1, ConsistentStep DEF AuditInv, History, AuditTypeOK, AuditNext
    <2> QED BY <1>1, <2>1, AuditTypeStep, FailedOutStep, BoundedFitsStep,
            WindowExactStep, ClippedFitsStep, AuthorityStep DEF AuditInv, History
  <1>2. CASE UNCHANGED <<vars, audit>>
    <2>1. TypeOK' /\ Consistent'
      BY <1>2, TypeStep, ConsistentStep DEF AuditInv, History, AuditTypeOK
    <2>2. AuditTypeOK'
      BY <1>2, <2>1, SMTT(30) DEF AuditInv, History, AuditTypeOK, audit
    <2>3. FailedOut' /\ BoundedFits' /\ WindowExact' /\ ClippedFits'
      BY <1>2, Zenon DEF AuditInv, vars, audit, slots, rollout, locals, outside, FailedOut,
         BoundedFits, WindowExact, ClippedFits, Due
    <2>4. ShadowIsEarned' /\ AuthorityIsEarned'
      BY <1>2 DEF AuditInv, vars, audit, slots, rollout, outputs, ShadowIsEarned,
         AuthorityIsEarned, CompletedBeforeCanary, CompletedRollout
    <2> QED BY <2>1, <2>2, <2>3, <2>4 DEF AuditInv, History
  <1> QED BY <1>1, <1>2

\* The inductive invariant of the loop and its history
THEOREM AuditInvariant == AuditSpec => []AuditInv
  BY AuditInvInit, AuditInvStep, PTL DEF AuditSpec

\* The loop and its observer keep their types, for every set of controllers and
\* every policy
THEOREM AuditTyped == AuditSpec => []AuditTypeOK
  <1>1. AuditInv => AuditTypeOK
    BY DEF AuditInv, History
  <1> QED BY <1>1, AuditInvariant, PTL

\* A controller that failed hard never comes back to a slot: not by a
\* fail-over, a promotion or a Resume
THEOREM FailedStayOut == AuditSpec => []FailedNeverReturns
  <1>1. AuditInv => FailedNeverReturns
    BY DEF AuditInv, FailedOut, FailedNeverReturns
  <1> QED BY <1>1, AuditInvariant, PTL

\* The stage counters are the consecutive good ticks of the present candidate
\* in its present stage, for any length of the windows
THEOREM WindowsAreExact == AuditSpec => []WindowExact
  <1>1. AuditInv => WindowExact
    BY DEF AuditInv
  <1> QED BY <1>1, AuditInvariant, PTL

\* Whoever moves the hardware has completed the stages the policy requires,
\* for every policy, windows of zero and policies without stages included
THEOREM AuthorityAlwaysEarned == AuditSpec => []AuthorityIsEarned
  <1>1. AuditInv => AuthorityIsEarned
    BY DEF AuditInv
  <1> QED BY <1>1, AuditInvariant, PTL

\* A canary stage never sends more clipped frames than its budget
THEOREM ClippingBounded == AuditSpec => []ClippedWithinBudget
  <1>1. AuditInv => ClippedWithinBudget
    BY DEF AuditInv, ClippedFits, ClippedWithinBudget
  <1> QED BY <1>1, AuditInvariant, PTL
=============================================================================
