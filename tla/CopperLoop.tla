----------------------------- MODULE CopperLoop -----------------------------
(***************************************************************************)
(* The Copper controller loop, run_controller_loop_with_policy of          *)
(* roz-copper/src/controller.rs: the thread that ticks WASM controllers,   *)
(* sends their commands to the hardware, and moves a candidate controller  *)
(* through the stages of its rollout.                                      *)
(*                                                                         *)
(* pc is the thread's place in an iteration:                               *)
(*                                                                         *)
(*   head -> emergency -> drain -> watchdog -> active -> restore ->        *)
(*     candidate -> reject -> canary -> actuate -> advance -> publish ->   *)
(*     head                                                                *)
(*                                                                         *)
(* and, once the shutdown flag is seen at the head, emergency -> drain ->  *)
(* finalize -> stopped.  Around the thread stand the agent, which may have *)
(* queued any command when the thread drains its channel, the clock of the *)
(* agent watchdog, the owner of the handle, and the reader of the e-stop   *)
(* channel.                                                                *)
(*                                                                         *)
(* What a controller computes in a tick is outside the model: a tick ends  *)
(* with no command, a command, or a hard failure, and a command is within  *)
(* the limits of the comparison and of the canary envelope or not.         *)
(***************************************************************************)
EXTENDS ControllerLifecycle, Naturals

CONSTANTS
    Promotable,            \* ids whose verifier_result allows promotion
    AllowsRollout,         \* the policy's source may authorize a rollout
    RequireShadow, RequireCanary,
    ShadowTicks, CanaryTicks,  \* as configured, before 0 is read as 1
    MaxBoundedCanaryTicks,
    EstopCapacity          \* of the e-stop channel

ASSUME PolicyAssumption ==
    /\ Promotable \subseteq Controllers
    /\ AllowsRollout \in BOOLEAN
    /\ RequireShadow \in BOOLEAN
    /\ RequireCanary \in BOOLEAN
    /\ ShadowTicks \in Nat
    /\ CanaryTicks \in Nat
    /\ MaxBoundedCanaryTicks \in Nat
    /\ EstopCapacity \in Nat

VARIABLES
    pc,                   \* the phase of the iteration
    stopping,             \* the loop was left, its epilogue runs
    active, candidate, rollback,    \* the three controller slots
    running,              \* the loaded controllers whose running flag is set
    candidate_state, promotion_requested,
    shadow_ticks, canary_ticks, bounded_canary_ticks,
    lifecycle,            \* the ControllerLifecycle
    last_known_good_id,   \* last_known_good_controller_id
    rejection,            \* label of candidate_last_rejection_reason
    estop_reason,         \* estop_reason is Some
    received,             \* a command came in this drain
    active_result, candidate_result,  \* ControllerTickResult of this tick
    ticked,               \* candidate_ticked_successfully
    bounded,              \* canary_command_was_bounded
    collector             \* the candidate's collected evidence would pass now

VARIABLES
    loaded,               \* ids the agent has used
    silent,               \* the agent's silence exceeds the watchdog timeout
    emergency,            \* the Halt of the handle's Drop, in a channel of its own
    shutdown,             \* the shutdown flag
    estops,               \* messages in the e-stop channel
    frame,                \* the last frame handed to the actuator
    shared                \* the published ControllerState

slots   == <<active, candidate, rollback, running>>
rollout == <<candidate_state, promotion_requested,
             shadow_ticks, canary_ticks, bounded_canary_ticks>>
books   == <<lifecycle, last_known_good_id, rejection, collector>>
locals  == <<active_result, candidate_result, ticked, bounded>>
outside == <<loaded, silent, emergency, shutdown, estops>>
outputs == <<frame, shared, estop_reason>>
vars    == <<pc, stopping, received, slots, rollout, books, locals, outside,
             outputs>>

-----------------------------------------------------------------------------
\* The deployment policy (deployment_manager.rs)

ShadowTicksRequired == IF ShadowTicks = 0 THEN 1 ELSE ShadowTicks
CanaryTicksRequired == IF CanaryTicks = 0 THEN 1 ELSE CanaryTicks

\* next_target; VerifiedOnly cannot be followed by Active, so a policy that
\* requires neither stage still goes through Canary
NextTarget(state) ==
    IF ~AllowsRollout THEN NoState
    ELSE CASE state = "VerifiedOnly" -> IF RequireShadow THEN "Shadow" ELSE "Canary"
           [] state = "Shadow"       -> IF RequireCanary THEN "Canary" ELSE "Active"
           [] state = "Canary"       -> "Active"
           [] OTHER                  -> NoState

-----------------------------------------------------------------------------
\* What the loop sees of its slots

\* Mutant: the active controller's flag is not looked at
ActiveLoaded == active # None

ActiveRunning    == active # None /\ active \in running
CandidateRunning == candidate # None /\ candidate \in running
AnyRunning       == ActiveRunning \/ CandidateRunning

\* Mutant: a shadow candidate counts as a canary
CandidateIsStaged == candidate_state \in {"Shadow", "Canary"} /\ CandidateRunning

CandidateIsCanary == candidate_state = "Canary" /\ CandidateRunning

\* deployment_state_for_publish
PublishedState ==
    IF candidate_state # NoState THEN candidate_state
    ELSE IF active # None THEN "Active" ELSE NoState

Snapshot ==
    [running |-> AnyRunning, estop |-> estop_reason, state |-> PublishedState,
     active |-> active, candidate |-> candidate, lkg |-> last_known_good_id]

ZeroFrame  == [kind |-> "zero", by |-> None]
Command(c) == [kind |-> "command", by |-> c]

\* Mutant: the send does not look at the capacity
NotifyEstopAlways == estops' = estops + 1

\* estop_tx.try_send: dropped when the channel is full
NotifyEstop == estops' = IF estops < EstopCapacity THEN estops + 1 ELSE estops

Init ==
    /\ pc = "head" /\ stopping = FALSE /\ received = FALSE
    /\ active = None /\ candidate = None /\ rollback = None /\ running = {}
    /\ candidate_state = NoState /\ promotion_requested = FALSE
    /\ shadow_ticks = 0 /\ canary_ticks = 0 /\ bounded_canary_ticks = 0
    /\ lifecycle = NewLifecycle /\ last_known_good_id = None /\ rejection = NoState
    /\ active_result = "default" /\ candidate_result = "default"
    /\ ticked = FALSE /\ bounded = FALSE /\ collector = FALSE
    /\ loaded = {} /\ silent = FALSE /\ emergency = "unsent" /\ shutdown = FALSE
    /\ estops = 0 /\ estop_reason = FALSE
    /\ frame = [kind |-> "none", by |-> None]
    /\ shared = [running |-> FALSE, estop |-> FALSE, state |-> NoState,
                 active |-> None, candidate |-> None, lkg |-> None]

-----------------------------------------------------------------------------
\* while !shutdown

\* Mutant: the flag is heeded only once nothing runs
HeadWhenIdle ==
    /\ pc = "head"
    /\ pc' = "emergency"
    /\ stopping' = (shutdown /\ ~AnyRunning)
    /\ received' = FALSE
    /\ UNCHANGED <<slots, rollout, books, locals, outside, outputs>>

Head ==
    /\ pc = "head"
    /\ pc' = "emergency"
    /\ stopping' = shutdown
    /\ received' = FALSE
    /\ UNCHANGED <<slots, rollout, books, locals, outside, outputs>>

-----------------------------------------------------------------------------
\* drain_commands: the emergency channel, then the command channel

HaltAll == running' = {}

DrainEmergencyHalt ==
    /\ pc = "emergency" /\ emergency = "queued"
    /\ emergency' = "taken"
    /\ HaltAll
    /\ UNCHANGED <<pc, stopping, received, active, candidate, rollback, rollout,
                   books, locals, loaded, silent, shutdown, estops, outputs>>

EmergencyDrained ==
    /\ pc = "emergency" /\ emergency # "queued"
    /\ pc' = "drain"
    /\ UNCHANGED <<stopping, received, slots, rollout, books, locals, outside,
                   outputs>>

\* PreparedArtifact: the candidate slot is finalized and refilled; the stage
\* counters keep the values its previous occupant left
ProcessLoad(c) ==
    /\ pc = "drain"
    /\ c \notin loaded
    /\ loaded' = loaded \union {c}
    /\ received' = TRUE
    /\ candidate' = c
    /\ running' = (running \ {candidate}) \union {c}
    /\ lifecycle' = LoadArtifact(lifecycle, c)
    /\ candidate_state' = lifecycle'.state
    /\ last_known_good_id' = lifecycle'.lkg
    /\ rejection' = NoState
    /\ promotion_requested' = FALSE
    /\ collector' = FALSE
    /\ UNCHANGED <<pc, stopping, active, rollback, shadow_ticks, canary_ticks,
                   bounded_canary_ticks, locals, silent, emergency, shutdown,
                   estops, outputs>>

\* Mutant: the candidate's verifier result is not looked at
MayPromoteAny == AllowsRollout /\ candidate # None

MayPromote == AllowsRollout /\ candidate \in Promotable

\* PromoteActive: arms the rollout of a promotable candidate and puts the
\* loop's copy of its stage at VerifiedOnly, whatever it was
ProcessPromoteActive ==
    /\ pc = "drain"
    /\ received' = TRUE
    /\ IF MayPromote
       THEN promotion_requested' = TRUE /\ candidate_state' = "VerifiedOnly"
       ELSE UNCHANGED <<promotion_requested, candidate_state>>
    /\ UNCHANGED <<pc, stopping, slots, shadow_ticks, canary_ticks,
                   bounded_canary_ticks, books, locals, outside, outputs>>

ProcessHalt ==
    /\ pc = "drain"
    /\ received' = TRUE
    /\ HaltAll
    /\ UNCHANGED <<pc, stopping, active, candidate, rollback, rollout, books,
                   locals, outside, outputs>>

\* Resume sets the running flag of every occupied slot, rollback included
ProcessResume ==
    /\ pc = "drain"
    /\ received' = TRUE
    /\ running' = {active, candidate, rollback} \ {None}
    /\ UNCHANGED <<pc, stopping, active, candidate, rollback, rollout, books,
                   locals, outside, outputs>>

\* UpdateParams changes only what controllers read; it counts as a contact
ProcessUpdateParams ==
    /\ pc = "drain"
    /\ received' = TRUE
    /\ UNCHANGED <<pc, stopping, slots, rollout, books, locals, outside, outputs>>

\* The command channel is empty; a received command restarts the watchdog
CommandsDrained ==
    /\ pc = "drain"
    /\ pc' = IF stopping THEN "finalize" ELSE "watchdog"
    /\ silent' = (silent /\ (stopping \/ ~received))
    /\ received' = FALSE
    /\ UNCHANGED <<stopping, slots, rollout, books, locals, loaded, emergency,
                   shutdown, estops, outputs>>

-----------------------------------------------------------------------------
\* check_watchdog

WatchdogQuiet ==
    /\ pc = "watchdog"
    /\ ~(silent /\ AnyRunning)
    /\ pc' = "active"
    /\ UNCHANGED <<stopping, received, slots, rollout, books, locals, outside,
                   outputs>>

\* The active and the candidate stop, the rest of the iteration is skipped
WatchdogFires ==
    /\ pc = "watchdog"
    /\ silent /\ AnyRunning
    /\ running' = running \ {active, candidate}
    /\ frame' = ZeroFrame
    /\ NotifyEstop
    /\ estop_reason' = TRUE
    /\ shared' = [Snapshot EXCEPT !.running = FALSE, !.estop = TRUE]
    /\ pc' = "head"
    /\ UNCHANGED <<stopping, received, active, candidate, rollback, rollout,
                   books, locals, loaded, silent, emergency, shutdown>>

-----------------------------------------------------------------------------
\* The active controller's tick, and the fail-over when it fails hard

TickResults == {"default", "command", "halted"}

TickActive ==
    /\ pc = "active"
    /\ active_result' \in IF ActiveRunning THEN TickResults ELSE {"default"}
    /\ running' = IF active_result' = "halted" THEN running \ {active} ELSE running
    /\ pc' = IF active_result' = "halted" THEN "restore" ELSE "candidate"
    /\ UNCHANGED <<stopping, received, active, candidate, rollback, rollout,
                   books, candidate_result, ticked, bounded, outside,
                   outputs>>

\* restore_last_known_good_controller succeeds when the rollback slot is
\* occupied and the lifecycle has a last known good to return to
CanFailOver == rollback # None /\ CanRestore(lifecycle)

\* The candidate's slot is left as it is, with no stage
FailOver ==
    /\ pc = "restore"
    /\ CanFailOver
    /\ active' = rollback
    /\ rollback' = None
    /\ running' = running \union {rollback}
    /\ lifecycle' = RestoreLastKnownGoodActive(lifecycle)
    /\ last_known_good_id' = lifecycle.lkg
    /\ promotion_requested' = FALSE
    /\ candidate_state' = NoState
    /\ shadow_ticks' = 0 /\ canary_ticks' = 0 /\ bounded_canary_ticks' = 0
    /\ estop_reason' = FALSE
    /\ frame' = ZeroFrame
    /\ pc' = "candidate"
    /\ UNCHANGED <<stopping, received, candidate, rejection, collector, locals,
                   outside, shared>>

\* With nothing to return to the active slot stays empty, and an instance
\* taken from the rollback slot is dropped
FailStop ==
    /\ pc = "restore"
    /\ ~CanFailOver
    /\ active' = None
    /\ rollback' = None
    /\ running' = running \ {candidate, rollback}
    /\ NotifyEstop
    /\ estop_reason' = TRUE
    /\ frame' = ZeroFrame
    /\ pc' = "candidate"
    /\ UNCHANGED <<stopping, received, candidate, rollout, books, locals, loaded,
                   silent, emergency, shutdown, shared>>

-----------------------------------------------------------------------------
\* The candidate's tick.  active_fallback_available is ActiveRunning: neither
\* the active slot nor its flag changes between here and the end of the
\* canary budget.

Staged == candidate_state \in {"Shadow", "Canary"}

\* Mutant: a candidate's command without an active one beside it is accepted
StageVerdictsAlone(result) ==
    IF ~Staged THEN {FALSE}
    ELSE IF result = "default" THEN {TRUE}
    ELSE IF ~ActiveRunning THEN {FALSE}
    ELSE IF active_result = "command" THEN BOOLEAN ELSE {FALSE}

\* Whether a tick that did not halt disqualifies the candidate: a staged
\* candidate must produce a command, and compare_stage_commands rejects one
\* that comes alone or strays too far from the active controller's
StageVerdicts(result) ==
    IF ~Staged THEN {FALSE}
    ELSE IF result = "default" THEN {TRUE}
    ELSE IF ~ActiveRunning THEN {FALSE}
    ELSE IF active_result = "command" THEN BOOLEAN ELSE {TRUE}

SkipCandidate ==
    /\ pc = "candidate"
    /\ ~CandidateRunning
    /\ pc' = "canary"
    /\ UNCHANGED <<stopping, received, slots, rollout, books, locals, outside,
                   outputs>>

TickCandidate ==
    /\ pc = "candidate"
    /\ CandidateRunning
    /\ candidate_result' \in TickResults
    /\ ticked' = (candidate_result' # "halted")
    /\ running' = IF ticked' THEN running ELSE running \ {candidate}
    /\ collector' \in IF ticked' THEN BOOLEAN ELSE {FALSE}
    /\ \E fails \in IF ticked' THEN StageVerdicts(candidate_result') ELSE {TRUE} :
         pc' = IF fails THEN "reject" ELSE "canary"
    /\ UNCHANGED <<stopping, received, active, candidate, rollback, rollout,
                   lifecycle, last_known_good_id, rejection, active_result,
                   bounded, outside, outputs>>

\* Mutant: the candidate keeps its slot and its flag
RejectOnlyLogs(lc, restore) ==
    /\ lifecycle' = lc
    /\ rejection' = RetirementStateFor(lc.state)
    /\ UNCHANGED <<candidate, running, candidate_state, promotion_requested,
                   last_known_good_id, collector>>

\* reject_candidate, on the lifecycle lc: the slot is finalized, the lifecycle
\* retires its current artifact and, when restore is set, returns to the last
\* known good; the stage counters keep their values
RejectCandidate(lc, restore) ==
    LET retired  == IF restore THEN CanRestore(lc) ELSE CanRetire(lc)
        terminal == IF retired THEN RetirementStateFor(lc.state)
                    ELSE RetirementStateFor(candidate_state)
    IN  /\ candidate' = None
        /\ running' = running \ {candidate}
        /\ candidate_state' = NoState
        /\ promotion_requested' = FALSE
        /\ lifecycle' = IF ~retired THEN lc
                        ELSE IF restore THEN RestoreLastKnownGoodActive(lc)
                        ELSE RetireCurrent(lc)
        /\ last_known_good_id' = IF retired /\ restore THEN lc.lkg
                                 ELSE last_known_good_id
        /\ rejection' = terminal
        /\ collector' = FALSE

\* A failed candidate leaves; with no running active controller to keep, the
\* hardware is stopped and an e-stop is raised
RejectKeepingActive ==
    /\ RejectCandidate(lifecycle, TRUE)
    /\ UNCHANGED <<estops, estop_reason, frame>>

\* Mutant: no zero frame
RejectAndNotify ==
    /\ RejectCandidate(lifecycle, FALSE)
    /\ NotifyEstop
    /\ estop_reason' = TRUE
    /\ UNCHANGED frame

RejectAndStop ==
    /\ RejectCandidate(lifecycle, FALSE)
    /\ NotifyEstop
    /\ estop_reason' = TRUE
    /\ frame' = ZeroFrame

RejectFailed ==
    /\ pc = "reject"
    /\ IF ActiveRunning THEN RejectKeepingActive ELSE RejectAndStop
    /\ pc' = "canary"
    /\ UNCHANGED <<stopping, received, active, rollback, shadow_ticks,
                   canary_ticks, bounded_canary_ticks, active_result,
                   candidate_result, ticked, bounded, loaded, silent,
                   emergency, shutdown, shared>>

-----------------------------------------------------------------------------
\* The canary envelope and its budget.  bound_canary_command clips the
\* candidate's command to a band around the active one; with no active command
\* it passes the candidate's through.

\* Mutant: a tick within the envelope restores the budget
CanaryForgives ==
    /\ pc = "canary"
    /\ bounded' = FALSE
    /\ bounded_canary_ticks' = 0
    /\ pc' = "actuate"
    /\ UNCHANGED <<stopping, received, slots, candidate_state, promotion_requested,
                   shadow_ticks, canary_ticks, books, active_result,
                   candidate_result, ticked, outside, outputs>>

CanaryWithin ==
    /\ pc = "canary"
    /\ bounded' = FALSE
    /\ pc' = "actuate"
    /\ UNCHANGED <<stopping, received, slots, rollout, books, active_result,
                   candidate_result, ticked, outside, outputs>>

\* Mutant: one clipped tick too many
OverBudgetByTwo(ticks) == ticks > MaxBoundedCanaryTicks + 1

OverBudget(ticks) == ticks > MaxBoundedCanaryTicks

CanaryClips ==
    /\ pc = "canary"
    /\ CandidateIsCanary
    /\ candidate_result = "command" /\ active_result = "command"
    /\ bounded' = TRUE
    /\ bounded_canary_ticks' = bounded_canary_ticks + 1
    /\ pc' = "actuate"
    /\ IF OverBudget(bounded_canary_ticks')
       THEN IF ActiveRunning THEN RejectKeepingActive ELSE RejectAndStop
       ELSE UNCHANGED <<candidate, running, candidate_state, promotion_requested,
                        books, estops, estop_reason, frame>>
    /\ UNCHANGED <<stopping, received, active, rollback, shadow_ticks,
                   canary_ticks, active_result, candidate_result, ticked,
                   loaded, silent, emergency, shutdown, shared>>

\* The command that reaches the hardware: the canary's if there is one, else
\* the active controller's; a tick without a command leaves the last frame
Actuate ==
    /\ pc = "actuate"
    /\ frame' = IF CandidateIsCanary /\ candidate_result = "command"
                THEN Command(candidate)
                ELSE IF active_result = "command" THEN Command(active)
                ELSE frame
    /\ pc' = "advance"
    /\ UNCHANGED <<stopping, received, slots, rollout, books, locals, outside,
                   shared, estop_reason>>

-----------------------------------------------------------------------------
\* advance_candidate_stage

Advancing ==
    /\ promotion_requested /\ ticked
    /\ candidate_state # NoState
    /\ candidate # None
    /\ NextTarget(candidate_state) # NoState

\* The early returns: the ones behind an armed promotion disarm it
AdvanceReturns ==
    /\ pc = "advance"
    /\ ~Advancing
    /\ promotion_requested' =
         (promotion_requested /\ ~(ticked /\ candidate_state # NoState))
    /\ pc' = "publish"
    /\ UNCHANGED <<stopping, received, slots, candidate_state, shadow_ticks,
                   canary_ticks, bounded_canary_ticks, books, locals, outside,
                   outputs>>

\* Mutant: the flag of what was stashed before survives it
StashOver ==
    /\ rollback' = IF active = None THEN rollback ELSE active
    /\ running' = IF active = None THEN running ELSE running \ {active}

\* stash_rollback_controller: the old active controller is kept for a
\* fail-over, what was stashed before is dropped
Stash ==
    /\ rollback' = IF active = None THEN rollback ELSE active
    /\ running' = IF active = None THEN running ELSE running \ {active, rollback}

\* promote_candidate_to_active
PromoteCandidateToActive ==
    /\ active' = candidate
    /\ candidate' = None
    /\ Stash
    /\ candidate_state' = NoState
    /\ promotion_requested' = FALSE
    /\ shadow_ticks' = 0 /\ canary_ticks' = 0 /\ bounded_canary_ticks' = 0
    /\ rejection' = NoState
    /\ last_known_good_id' = lifecycle'.lkg
    /\ collector' = FALSE

\* Mutant: the counters go on from where the last candidate left them
EnterStageCounting(target, shadow) ==
    /\ candidate_state' = target
    /\ shadow_ticks' = shadow
    /\ collector' = FALSE
    /\ UNCHANGED <<canary_ticks, bounded_canary_ticks, active, candidate, rollback,
                   running, promotion_requested, rejection, last_known_good_id>>

\* A window of ticks opens with its counters at zero; shadow is the value the
\* stage being left gives the shadow counter
EnterStage(target, shadow) ==
    /\ candidate_state' = target
    /\ shadow_ticks' = IF target = "Shadow" THEN 0 ELSE shadow
    /\ canary_ticks' = IF target = "Canary" THEN 0 ELSE canary_ticks
    /\ bounded_canary_ticks' = IF target = "Canary" THEN 0 ELSE bounded_canary_ticks
    /\ collector' = FALSE
    /\ UNCHANGED <<active, candidate, rollback, running, promotion_requested,
                   rejection, last_known_good_id>>

\* submit_stage_evidence_and_promote and what follows it: the candidate's
\* evidence, finalized under mode, opens the next stage or retires it
LeaveStage(mode, shadow, canary) ==
    LET target == NextTarget(candidate_state)
        ev     == [controller |-> candidate, mode |-> mode, pass |-> collector]
        lc     == SubmitEvidence(lifecycle, ev)
    IN  IF CanSubmit(lifecycle, ev) /\ CanPromoteTo(lc, target)
        THEN /\ lifecycle' = PromoteTo(lc, target)
             /\ IF target = "Active" THEN PromoteCandidateToActive
                ELSE EnterStage(target, shadow)
        ELSE /\ RejectCandidate(lc, active # None)
             /\ shadow_ticks' = shadow
             /\ canary_ticks' = canary
             /\ UNCHANGED <<active, rollback, bounded_canary_ticks>>

AdvanceFrame ==
    /\ pc' = "publish"
    /\ UNCHANGED <<stopping, received, locals, outside, outputs>>

AdvanceVerifiedOnly ==
    /\ pc = "advance" /\ Advancing
    /\ candidate_state = "VerifiedOnly"
    /\ LeaveStage("Verify", shadow_ticks, canary_ticks)
    /\ AdvanceFrame

AdvanceShadow ==
    /\ pc = "advance" /\ Advancing
    /\ candidate_state = "Shadow"
    /\ IF shadow_ticks + 1 >= ShadowTicksRequired
       THEN LeaveStage("Shadow", shadow_ticks + 1, canary_ticks)
       ELSE /\ shadow_ticks' = shadow_ticks + 1
            /\ UNCHANGED <<slots, books, candidate_state, promotion_requested,
                           canary_ticks, bounded_canary_ticks>>
    /\ AdvanceFrame

\* A clipped tick does not count and restarts the window
AdvanceCanary ==
    /\ pc = "advance" /\ Advancing
    /\ candidate_state = "Canary"
    /\ IF ~bounded /\ canary_ticks + 1 >= CanaryTicksRequired
       THEN LeaveStage("Canary", shadow_ticks, canary_ticks + 1)
       ELSE /\ canary_ticks' = IF bounded THEN 0 ELSE canary_ticks + 1
            /\ UNCHANGED <<slots, books, candidate_state, promotion_requested,
                           shadow_ticks, bounded_canary_ticks>>
    /\ AdvanceFrame

-----------------------------------------------------------------------------
\* publish_state; the results of the tick go out of scope

Publish ==
    /\ pc = "publish"
    /\ shared' = Snapshot
    /\ active_result' = "default" /\ candidate_result' = "default"
    /\ ticked' = FALSE /\ bounded' = FALSE
    /\ pc' = "head"
    /\ UNCHANGED <<stopping, received, slots, rollout, books, outside, frame,
                   estop_reason>>

\* The epilogue: every slot is finalized and a last state is published
Finalize ==
    /\ pc = "finalize"
    /\ active' = None /\ candidate' = None /\ rollback' = None /\ running' = {}
    /\ shared' = [running |-> FALSE, estop |-> estop_reason,
                  state |-> candidate_state, active |-> None,
                  candidate |-> None, lkg |-> last_known_good_id]
    /\ pc' = "stopped"
    /\ UNCHANGED <<stopping, received, rollout, books, locals, outside, frame,
                   estop_reason>>

-----------------------------------------------------------------------------
\* Around the loop.  Each of these may happen at any time; it is enough to let
\* it happen where the loop next looks, since nothing reads what it changes
\* before then.

\* More than watchdog_timeout has passed since the last contact
AgentFallsSilent ==
    /\ pc = "watchdog" /\ ~silent
    /\ silent' = TRUE
    /\ UNCHANGED <<pc, stopping, received, slots, rollout, books, locals, loaded,
                   emergency, shutdown, estops, outputs>>

\* Drop of the handle sends a Halt and then raises the flag; shutdown() only
\* raises the flag
DropSendsHalt ==
    /\ pc = "head" /\ ~shutdown /\ emergency = "unsent"
    /\ emergency' = "queued"
    /\ UNCHANGED <<pc, stopping, received, slots, rollout, books, locals, loaded,
                   silent, shutdown, estops, outputs>>

RaiseShutdown ==
    /\ pc = "head" /\ ~shutdown
    /\ shutdown' = TRUE
    /\ UNCHANGED <<pc, stopping, received, slots, rollout, books, locals, loaded,
                   silent, emergency, estops, outputs>>

\* The supervisor reads the e-stop channel, to which an iteration adds at most
\* one message
TakeEstop ==
    /\ pc = "head" /\ estops > 0
    /\ estops' = estops - 1
    /\ UNCHANGED <<pc, stopping, received, slots, rollout, books, locals, loaded,
                   silent, emergency, shutdown, outputs>>

\* The thread's own steps.  Receiving a command is not one of them: that the
\* channel holds another command is the agent's doing.
LoopStep ==
    \/ Head \/ DrainEmergencyHalt \/ EmergencyDrained \/ CommandsDrained
    \/ WatchdogQuiet \/ WatchdogFires
    \/ TickActive \/ FailOver \/ FailStop
    \/ SkipCandidate \/ TickCandidate \/ RejectFailed
    \/ CanaryWithin \/ CanaryClips \/ Actuate
    \/ AdvanceReturns \/ AdvanceVerifiedOnly \/ AdvanceShadow \/ AdvanceCanary
    \/ Publish \/ Finalize

ProcessCommand ==
    \/ \E c \in Controllers : ProcessLoad(c)
    \/ ProcessPromoteActive \/ ProcessHalt \/ ProcessResume \/ ProcessUpdateParams

Environment == AgentFallsSilent \/ DropSendsHalt \/ RaiseShutdown \/ TakeEstop

Next == LoopStep \/ ProcessCommand \/ Environment

Spec == Init /\ [][Next]_vars

\* The thread never blocks: it polls its channels and sleeps for less than a
\* tick period
FairSpec == Spec /\ WF_vars(LoopStep)

-----------------------------------------------------------------------------
Phases ==
    {"head", "emergency", "drain", "watchdog", "active", "restore", "candidate",
     "reject", "canary", "actuate", "advance", "publish", "finalize", "stopped"}

FlagsOK ==
    /\ stopping \in BOOLEAN /\ received \in BOOLEAN
    /\ promotion_requested \in BOOLEAN
    /\ ticked \in BOOLEAN /\ bounded \in BOOLEAN /\ collector \in BOOLEAN
    /\ silent \in BOOLEAN /\ shutdown \in BOOLEAN /\ estop_reason \in BOOLEAN

DataOK ==
    /\ pc \in Phases
    /\ active \in MaybeController /\ candidate \in MaybeController
    /\ rollback \in MaybeController
    /\ running \subseteq Controllers
    /\ candidate_state \in OptionalStates
    /\ shadow_ticks \in Nat /\ canary_ticks \in Nat
    /\ bounded_canary_ticks \in Nat
    /\ lifecycle \in Lifecycles
    /\ last_known_good_id \in MaybeController
    /\ rejection \in OptionalStates
    /\ active_result \in TickResults /\ candidate_result \in TickResults
    /\ loaded \subseteq Controllers
    /\ emergency \in {"unsent", "queued", "taken"}
    /\ estops \in 0 .. EstopCapacity
    /\ frame \in [kind : {"none", "zero", "command"}, by : MaybeController]

\* The fields of ControllerState that the loop decides
ControllerStates ==
    [running : BOOLEAN, estop : BOOLEAN, state : OptionalStates,
     active : MaybeController, candidate : MaybeController, lkg : MaybeController]

\* The variables hold what their Rust types allow, and the e-stop channel stays
\* within its capacity
TypeOK == FlagsOK /\ DataOK /\ shared \in ControllerStates

-----------------------------------------------------------------------------
\* Safety

\* The loop's copy of the candidate's stage and the lifecycle's agree while
\* the candidate is staged: the lifecycle is about this very candidate and in
\* this very stage, through loads, fail-overs and rejections, until the
\* epilogue empties the slots
StageAgreement ==
    Staged /\ pc # "stopped" =>
        /\ candidate # None
        /\ promotion_requested
        /\ lifecycle.artifact = candidate
        /\ lifecycle.state = candidate_state

\* No controller is in two slots, and only a loaded one has its flag set
SlotsDistinct ==
    /\ active # None => active # candidate /\ active # rollback
    /\ candidate # None => candidate # rollback
    /\ running \subseteq {active, candidate, rollback}

\* A canary that moves the hardware beside a running active controller does so
\* within the envelope: there is an active command of this tick to clip it to
EnvelopeHolds ==
    pc \in {"canary", "actuate"} /\ CandidateIsCanary /\ ActiveRunning =>
        active_result = "command"

\* After a hard failure with nothing left running in its place the frame on
\* the hardware is the zero frame, and no later step of that tick sends
\* another one: after a failure of the active controller, restored or not, and
\* of a candidate without an active controller beside it
TickAfterFailure == {"candidate", "reject", "canary", "actuate", "advance", "publish"}

FailureLeavesZeroFrame ==
    /\ active_result = "halted" /\ pc \in TickAfterFailure => frame = ZeroFrame
    /\ candidate_result = "halted" /\ pc \in TickAfterFailure \ {"reject"}
         => frame = ZeroFrame \/ ActiveRunning

\* Only a controller whose verifier passed, under a policy that may authorize a
\* rollout, ever gets a command to the hardware, whatever is armed, replaced,
\* rejected or restored before
OnlyVerifiedMoves ==
    frame.kind = "command" => AllowsRollout /\ frame.by \in Promotable

\* What the other invariants need to be preserved by every step: the slots hold
\* controllers the agent has sent, ...
SlotsLoaded == {active, candidate, rollback} \subseteq loaded \union {None}

\* ... who is armed, active or stashed was promotable, ...
ArmedIsVerified ==
    /\ promotion_requested => AllowsRollout
    /\ promotion_requested /\ candidate # None => candidate \in Promotable
    /\ active # None => AllowsRollout /\ active \in Promotable
    /\ rollback # None => AllowsRollout /\ rollback \in Promotable

\* ... and the results of a tick fit the slots for as long as they are used
BetweenTicks ==
    {"head", "emergency", "drain", "watchdog", "active", "finalize", "stopped"}

ResultsFit ==
    /\ pc \in BetweenTicks => active_result = "default"
    /\ pc \in BetweenTicks \union {"restore", "candidate"} =>
         candidate_result = "default"
    /\ pc = "restore" =>
         active # None /\ active \notin running /\ active_result = "halted"
    /\ pc = "reject" => candidate # None
    /\ active_result = "command" /\ pc # "publish" => ActiveRunning
    /\ active_result = "halted" /\ pc \in {"candidate", "reject", "canary", "actuate"}
         => ~CandidateIsCanary

TickedFits == ticked => candidate_result # "halted"

Consistent ==
    /\ SlotsDistinct /\ SlotsLoaded /\ StageAgreement /\ ArmedIsVerified
    /\ ResultsFit /\ TickedFits /\ EnvelopeHolds /\ FailureLeavesZeroFrame /\ OnlyVerifiedMoves

\* A fail-over is under way: the active controller's flag is down and the
\* stashed one's not yet up
Moving == {active, candidate} \intersect running # {} \/ pc = "restore"

\* Once nothing runs, after a Halt, the watchdog or a failure, it takes a
\* Resume or a load to set a controller going, and nothing but the zero frame
\* reaches the hardware in between
StoppedStaysStopped ==
    [][~Moving =>
         /\ Moving' => ProcessResume \/ \E c \in Controllers : ProcessLoad(c)
         /\ frame' = frame \/ frame' = ZeroFrame]_vars

\* The ticks an armed candidate may still take.  Each clipped tick costs it at
\* most one canary window, and takes one off the budget; one that has been
\* clipped but not yet counted is still due.  A candidate that the lifecycle
\* does not have in the stage the loop has it in is rejected by its next tick.
Armed == candidate # None /\ promotion_requested

ClipsLeft ==
    MaxBoundedCanaryTicks - bounded_canary_ticks
        + IF bounded /\ pc \in {"actuate", "advance"} THEN 1 ELSE 0

CanaryTicksLeft == ClipsLeft * CanaryTicksRequired + (CanaryTicksRequired - canary_ticks)

WholeCanary == (MaxBoundedCanaryTicks + 1) * CanaryTicksRequired

LifecycleAgrees ==
    lifecycle.artifact = candidate /\ lifecycle.state = candidate_state

TicksLeft ==
    IF ~LifecycleAgrees THEN 1
    ELSE CASE candidate_state = "VerifiedOnly" -> 1 + ShadowTicksRequired + WholeCanary
           [] candidate_state = "Shadow" ->
                (ShadowTicksRequired - shadow_ticks) + WholeCanary
           [] candidate_state = "Canary" -> CanaryTicksLeft
           [] OTHER -> 1

\* A rollout has a bounded number of ticks, whatever is clipped, halted, resumed
\* or repeated on the way: while a candidate stays armed, every tick that
\* advance_candidate_stage counts brings its promotion or rejection closer, and
\* nothing in between moves it away again
RolloutProgress ==
    [][Armed /\ Armed' /\ candidate' = candidate =>
         /\ TicksLeft' \in 1 .. TicksLeft
         /\ pc = "advance" /\ Advancing => TicksLeft' < TicksLeft]_vars

-----------------------------------------------------------------------------
\* Liveness

\* An armed candidate does not stay armed and running for ever: it is promoted
\* or rejected, unless it is replaced, halted or disarmed first.  Clipped
\* canary ticks, which restart the window, are cut off by their budget, and a
\* repeated PromoteActive ends the rollout rather than restart it.
RolloutResolves ==
    \A c \in Controllers :
        (candidate = c /\ promotion_requested)
            ~> ~(candidate = c /\ promotion_requested /\ c \in running)

\* The loop notices a raised shutdown flag whatever it is doing
ShutdownStops == shutdown ~> pc = "stopped"
=============================================================================
