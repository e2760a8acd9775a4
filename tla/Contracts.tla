------------------------------ MODULE Contracts ------------------------------
(***************************************************************************)
(* The vocabulary of shared/contracts that every other module speaks:      *)
(* claim states, verdicts, dispatch outcomes and audit phases.             *)
(***************************************************************************)

(* "NONE" is the absence of a row in execution_claims. *)
ClaimStates ==
    {"CLAIMED", "EXECUTING", "RECONCILIATION_REQUIRED", "COMPLETED", "FAILED", "RELEASED"}

(* States in which the adapter call may have started. *)
FencedStates == {"EXECUTING", "RECONCILIATION_REQUIRED", "COMPLETED", "FAILED"}

Verdicts == {"ALLOW", "DENY", "REQUIRE_APPROVAL"}

OutcomeStatuses == {"SUCCESS", "FAILURE", "UNKNOWN"}

(* DispatchOutcome without its free-text detail. *)
Outcomes == [status : OutcomeStatuses, partial : BOOLEAN]

UnknownOutcome == [status |-> "UNKNOWN", partial |-> FALSE]

(* An unrecognised status is UNKNOWN; PartiallyApplied survives only with FAILURE. *)
Checked(o) ==
    IF o.status \notin OutcomeStatuses THEN UnknownOutcome
    ELSE [o EXCEPT !.partial = o.partial /\ o.status = "FAILURE"]

AuditPhases ==
    {"WORKFLOW_REVALIDATION", "EXECUTION_FENCE", "DISPATCH_CONFIG", "DISPATCH_RECONCILIATION",
     "COMPENSATION_ROLLBACK", "WORKFLOW_COMPLETE", "WORKFLOW_FAILED"}

AuditVerdicts == {"PASS", "FAIL", "UNKNOWN"}
=============================================================================
