------------------------------ MODULE ClaimStore ------------------------------
(***************************************************************************)
(* The execution_claims table (internal/audit/claims.go) and the claim     *)
(* transition table (internal/decision/claim.go). Each operation is one    *)
(* SQL statement and SQLite serializes writers, so each is one step here.  *)
(*                                                                         *)
(* StoreSpec lets any owner call any operation at any time. The workflow   *)
(* implements it: a run's calls are a subset of these. Decisions are the   *)
(* recorded ones; the foreign key refuses a claim on any other.            *)
(***************************************************************************)
EXTENDS Contracts

CONSTANTS Decisions,   \* decision IDs
          Workflows,   \* Temporal workflow IDs
          Runs         \* Temporal run IDs

(* No part of an owner may be empty: ClaimOwner.Valid. *)
ASSUME IdsAssumption == "" \notin Workflows \cup Runs

VARIABLE claims        \* decision -> [state, owner]

(* A token is named after the run that drew it in workflow.SideEffect. *)
Owners == [workflow : Workflows, run : Runs, token : Runs]

NoOwner == [workflow |-> "", run |-> "", token |-> ""]

NoClaim == [state |-> "NONE", owner |-> NoOwner]

Claims == [state : ClaimStates, owner : Owners] \cup {NoClaim}

(* Wrong variants of the transition table: EXECUTING can be released; a     *)
(* confirmed outcome can be overwritten by the other one.                   *)
ReleasesExecuting(to) ==
    CASE to = "EXECUTING" -> {"CLAIMED"}
      [] to = "RELEASED"  -> {"CLAIMED", "EXECUTING", "RELEASED"}
      [] OTHER            -> {"EXECUTING", "RECONCILIATION_REQUIRED"}

OverwritesConfirmed(to) ==
    CASE to = "EXECUTING"             -> {"CLAIMED"}
      [] to = "RELEASED"              -> {"CLAIMED", "RELEASED"}
      [] to \in {"COMPLETED", "FAILED"} -> FencedStates
      [] OTHER                        -> {}

(* The states from which an owner may move a claim to state "to". *)
ClaimSources(to) ==
    CASE to = "EXECUTING"               -> {"CLAIMED"}
      [] to = "RECONCILIATION_REQUIRED" -> {"EXECUTING", "RECONCILIATION_REQUIRED"}
      [] to = "COMPLETED"               -> {"EXECUTING", "RECONCILIATION_REQUIRED", "COMPLETED"}
      [] to = "FAILED"                  -> {"EXECUTING", "RECONCILIATION_REQUIRED", "FAILED"}
      [] to = "RELEASED"                -> {"CLAIMED", "RELEASED"}
      [] OTHER                          -> {}

(* Wrong variants: the WHERE also lets a held claim be taken, or is missing. *)
TakesHeldClaims(d) == claims[d].state \in {"NONE", "CLAIMED", "RELEASED"}

TakesAnyClaim(d) == claims[d].state \in ClaimStates \cup {"NONE"}

(* INSERT ... ON CONFLICT DO UPDATE ... WHERE state = 'RELEASED' changes a row. *)
CanClaim(d) == claims[d].state \in {"NONE", "RELEASED"}

(* The table after the INSERT, whether or not it changed a row. *)
ClaimWrite(d, o) ==
    IF CanClaim(d) THEN [claims EXCEPT ![d] = [state |-> "CLAIMED", owner |-> o]] ELSE claims

(* The follow-up read reports a repeat by the owner as success. *)
HeldBy(d, o) == claims[d] = [state |-> "CLAIMED", owner |-> o]

(* UPDATE ... WHERE owner AND state IN (sources) changes a row. *)
CanAdvance(d, o, to) == claims[d].owner = o /\ claims[d].state \in ClaimSources(to)

(* Wrong variant: the UPDATE has no WHERE and creates the row. *)
AdvancesAnything(d, o, to) == [claims EXCEPT ![d].state = to]

AdvanceWrite(d, o, to) ==
    IF CanAdvance(d, o, to) THEN [claims EXCEPT ![d].state = to] ELSE claims

-----------------------------------------------------------------------------
StoreInit == claims = [d \in Decisions |-> NoClaim]

ClaimExecution(d, o) == claims' = ClaimWrite(d, o)

AdvanceClaim(d, o, to) == claims' = AdvanceWrite(d, o, to)

StoreNext ==
    \E d \in Decisions, o \in Owners :
        \/ ClaimExecution(d, o)
        \/ \E to \in ClaimStates : AdvanceClaim(d, o, to)

StoreSpec == StoreInit /\ [][StoreNext]_claims

-----------------------------------------------------------------------------
(* Every row is absent or a claim state with a complete owner, so no        *)
(* transition creates a row or leaves one without its owner.                *)
ClaimsTypeOK == claims \in [Decisions -> Claims]

(* From EXECUTING on a decision is used for good: whatever calls arrive, in *)
(* whatever order and from whichever run, it is never released, never       *)
(* claimed again and never changes owner (shared/contracts/claim.go: "the   *)
(* decision can never be claimed again or released").                       *)
FencedForGood ==
    [][\A d \in Decisions :
          claims[d].state \in FencedStates =>
             claims'[d].state \in FencedStates /\ claims'[d].owner = claims[d].owner]_claims

(* A confirmed outcome is final: no late or repeated transition turns       *)
(* COMPLETED or FAILED into anything else, the other one included.          *)
ConfirmedIsFinal ==
    [][\A d \in Decisions :
          claims[d].state \in {"COMPLETED", "FAILED"} => claims'[d] = claims[d]]_claims

(* A held claim changes hands only by way of RELEASED: no run takes over a  *)
(* claim that another run still holds.                                      *)
NeverStolen ==
    [][\A d \in Decisions :
          claims'[d].owner # claims[d].owner => claims[d].state \in {"NONE", "RELEASED"}]_claims
=============================================================================
