------------------------- MODULE ControllerLifecycle -------------------------
(***************************************************************************)
(* ControllerLifecycle of roz-copper/src/controller_lifecycle.rs: the book *)
(* keeping of one artifact through its deployment states, its evidence and *)
(* the last known good artifact to return to.  The methods are operators   *)
(* on the record of the struct's four fields: a method that can fail is a  *)
(* guard CanX and a result X.                                              *)
(*                                                                         *)
(* An artifact is its controller id.  Every load carries a fresh id (the   *)
(* promote_controller tool draws a UUID), so the digests of gates 6 and 7, *)
(* which the loop copies from the artifact itself, agree exactly when the  *)
(* ids do.                                                                 *)
(***************************************************************************)
EXTENDS DeploymentState

CONSTANTS
    Controllers,    \* the controller ids that may be loaded
    None            \* no controller

ASSUME NoneAssumption == None \notin Controllers

MaybeController == Controllers \union {None}

\* The part of a ControllerEvidenceBundle the gates look at: whose it is, the
\* mode it was collected under, and whether its verdict is "pass" with no
\* safety issue and no untouched channel.
Evidence == [controller : Controllers, mode : ExecutionModes, pass : BOOLEAN]
NoEvidence == [controller |-> None, mode |-> "Verify", pass |-> FALSE]

Lifecycles ==
    [artifact : MaybeController,
     state    : OptionalStates,
     evidence : Evidence \union {NoEvidence},
     lkg      : MaybeController]

NewLifecycle ==
    [artifact |-> None, state |-> NoState,
     evidence |-> NoEvidence, lkg |-> None]

\* Mutant: the state of the replaced artifact is kept
LoadKeepingState(lc, c) ==
    [artifact |-> c, evidence |-> NoEvidence,
     state |-> IF lc.state = NoState THEN "VerifiedOnly" ELSE lc.state,
     lkg |-> IF lc.state = "Active" THEN lc.artifact ELSE lc.lkg]

\* load_artifact: a replaced Active artifact becomes the last known good
LoadArtifact(lc, c) ==
    [artifact |-> c, state |-> "VerifiedOnly", evidence |-> NoEvidence,
     lkg |-> IF lc.state = "Active" THEN lc.artifact ELSE lc.lkg]

\* submit_evidence: refused unless it is about the current artifact
CanSubmit(lc, ev) == lc.artifact # None /\ ev.controller = lc.artifact

SubmitEvidence(lc, ev) ==
    IF CanSubmit(lc, ev) THEN [lc EXCEPT !.evidence = ev] ELSE lc

\* Mutant: the evidence's verdict is not looked at
CanPromoteAnyway(lc, target) ==
    /\ lc.artifact # None
    /\ lc.evidence # NoEvidence
    /\ lc.evidence.mode = EvidenceModeFor(lc.state)
    /\ CanTransition(lc.state, target)

\* promote_to: gates 1 to 5 and 8 (gates 6 and 7 follow from the ids)
CanPromoteTo(lc, target) ==
    /\ lc.artifact # None
    /\ lc.evidence # NoEvidence
    /\ lc.evidence.pass
    /\ lc.evidence.mode = EvidenceModeFor(lc.state)
    /\ CanTransition(lc.state, target)

PromoteTo(lc, target) ==
    [lc EXCEPT !.state = target, !.evidence = NoEvidence]

\* retire_current
CanRetire(lc) == lc.artifact # None /\ ~IsTerminal(lc.state)

RetireCurrent(lc) ==
    [lc EXCEPT !.state = RetirementStateFor(lc.state), !.evidence = NoEvidence]

\* restore_last_known_good_active: the current artifact is retired and the
\* last known good takes its place as Active; it also stays the last known good
CanRestore(lc) == lc.lkg # None /\ CanRetire(lc)

RestoreLastKnownGoodActive(lc) ==
    [lc EXCEPT !.artifact = lc.lkg, !.state = "Active", !.evidence = NoEvidence]
=============================================================================
