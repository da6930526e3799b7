---------------------------- MODULE CopperAudit ----------------------------
(***************************************************************************)
(* The Copper loop under observation.  The variables below record, from    *)
(* what the loop is seen to do and never from its own counters, what each  *)
(* controller has done so far; the properties compare the loop's decisions *)
(* with that record.                                                       *)
(***************************************************************************)
EXTENDS CopperLoop

VARIABLES
    failed,     \* controllers that trapped or tripped the safety filter
    canaried,   \* controllers that have been in the canary stage
    window,     \* consecutive good ticks of the candidate in its stage
    clipped,    \* clipped frames its canary stage has put on the hardware
    earned      \* per controller, the stages it has completed

audit == <<failed, canaried, window, clipped, earned>>

AuditInit ==
    /\ Init
    /\ failed = {} /\ canaried = {}
    /\ window = 0 /\ clipped = 0
    /\ earned = [c \in Controllers |-> {}]

\* A stage begins when the candidate or its stage changes
NewStage == candidate' # candidate \/ candidate_state' # candidate_state

\* The step that ends a tick: its verdict on the candidate is known
EndsTick ==
    /\ pc = "advance" /\ pc' = "publish"
    /\ candidate # None /\ candidate_state # NoState /\ ticked

GoodTick == candidate_state \in {"Shadow", "Canary"} /\ ~bounded

Required(state) ==
    CASE state = "Shadow" -> ShadowTicksRequired
      [] state = "Canary" -> CanaryTicksRequired
      [] OTHER            -> 0

Observed == IF ~EndsTick THEN window ELSE IF GoodTick THEN window + 1 ELSE 0

Observe ==
    /\ failed' = failed
         \union (IF active_result' = "halted" /\ pc = "active" THEN {active} ELSE {})
         \union (IF candidate_result' = "halted" /\ pc = "candidate"
                 THEN {candidate} ELSE {})
    /\ canaried' = IF candidate_state' = "Canary"
                   THEN canaried \union ({candidate'} \ {None}) ELSE canaried
    /\ window' = IF NewStage THEN 0 ELSE Observed
    /\ clipped' = IF NewStage THEN 0
                  ELSE IF /\ pc = "actuate" /\ pc' = "advance"
                          /\ bounded /\ frame' = Command(candidate)
                       THEN clipped + 1 ELSE clipped
    /\ earned' = IF EndsTick /\ collector /\ Observed >= Required(candidate_state)
                 THEN [earned EXCEPT ![candidate] = @ \union {candidate_state}]
                 ELSE earned

AuditNext == Next /\ Observe

AuditSpec == AuditInit /\ [][AuditNext]_<<vars, audit>>

-----------------------------------------------------------------------------
AuditTypeOK ==
    /\ TypeOK
    /\ failed \subseteq Controllers /\ canaried \subseteq Controllers
    /\ window \in Nat /\ clipped \in Nat
    /\ earned \in [Controllers -> SUBSET DeploymentStates]

\* A controller that failed hard is out of every slot by the time its failure
\* has been handled, so no fail-over, promotion or Resume runs it again
\* (finalize_controller_slot in restore_last_known_good_controller and
\* reject_candidate)
FailedNeverReturns ==
    pc \notin {"restore", "reject"} =>
        failed \intersect {active, candidate, rollback} = {}

\* The stage counters measure this candidate's ticks in this stage: what an
\* earlier candidate left in them, a clipped canary tick or a repeated
\* PromoteActive never counts towards a promotion (shadow_ticks and
\* canary_ticks in advance_candidate_stage)
WindowExact ==
    pc # "stopped" =>
        /\ candidate_state = "Shadow" => shadow_ticks = window
        /\ candidate_state = "Canary" => canary_ticks = window

\* Whoever may move the hardware has earned it: a canary completed the stages
\* before it, the active and the stashed controller all that the policy
\* requires, each with a full window and passing evidence of its own
CompletedBeforeCanary(c) ==
    /\ "VerifiedOnly" \in earned[c]
    /\ RequireShadow => "Shadow" \in earned[c]

CompletedRollout(c) ==
    /\ CompletedBeforeCanary(c)
    /\ RequireCanary \/ ~RequireShadow => "Canary" \in earned[c]

AuthorityIsEarned ==
    /\ candidate_state = "Canary" /\ pc # "stopped" => CompletedBeforeCanary(candidate)
    /\ active # None => CompletedRollout(active)
    /\ rollback # None => CompletedRollout(rollback)
    /\ frame.kind = "command" => CompletedBeforeCanary(frame.by)

\* One canary stage puts at most max_bounded_canary_ticks clipped commands on
\* the hardware; the tick that exceeds the budget sends none
ClippedWithinBudget == clipped <= MaxBoundedCanaryTicks
=============================================================================
