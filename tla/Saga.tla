--------------------------------- MODULE Saga ---------------------------------
(***************************************************************************)
(* workflows/saga.go and the activities it schedules, over the claim store *)
(* and the simulated adapter, driven by Temporal.                          *)
(*                                                                         *)
(* A run is at a "pc": the activity (or timer) it is waiting for. Between  *)
(* two activities a workflow is deterministic and touches nothing shared,  *)
(* so the code from one activity's result to the next activity is one      *)
(* step. An attempt of an activity can finish, fail without effect, commit *)
(* and lose its response, or be given up on (timeout, cancellation,        *)
(* termination, reset) while it is still on its way: then it stays in      *)
(* "late" and may take effect at any later moment. DispatchConfig is split *)
(* into its own steps: fence, read, adapter call, return.                  *)
(***************************************************************************)
EXTENDS ClaimStore, Evaluation, SimulatedAdapter, Naturals, FiniteSets

CONSTANTS
    Requests,         \* execution requests [agent, proposal, decision, hash] Temporal may be given
    IngressRecord,    \* decision -> the recorded decision of that ID, or NoRecord
    NoRecord,
    Policies,         \* snapshots the worker's policy loader may publish
    MaximumAttempts,  \* of a bookkeeping activity; 3 in the code
    reconcileFirstWait, reconcileMaxWait, reconcileWindow,   \* 10 s, 30 min and 24 h in the code
    MaxElapsed,       \* bound: how long a reconciliation is followed through delays
    MaxLate,          \* bound: abandoned attempts on their way at one time
    Events            \* which of the disturbances below happen in this model

ASSUME BoundsAssumption ==
    MaximumAttempts \in Nat \ {0} /\ MaxLate \in Nat /\ MaxElapsed \in Nat

ASSUME ScheduleAssumption ==
    /\ reconcileFirstWait \in Nat \ {0} /\ reconcileMaxWait \in Nat /\ reconcileWindow \in Nat
    /\ reconcileFirstWait <= reconcileMaxWait

ASSUME RequestsAssumption == \A q \in Requests : q.decision \in Decisions

(* The ingress records are a function on the decisions. *)
ASSUME RecordsAssumption == DOMAIN IngressRecord = Decisions

ASSUME EventsAssumption ==
    Events \subseteq {"fault", "timeout", "delay", "restart", "cancel", "terminate", "reset", "reload"}

VARIABLES
    loc,            \* run -> where its workflow code stands, and its local variables
    past,           \* run -> the points of its history it can be reset to
    work,           \* run -> its workflow ID, "" before it starts
    request,        \* run -> its input, NoRequest before it starts
    disp,           \* run -> its DispatchConfig activity: where it is and what it reported
    late,           \* attempts given up on that have not taken effect yet
    policy,         \* the worker's current snapshot
    revals,         \* run -> verdict of its WORKFLOW_REVALIDATION record, "NONE" if none
    audit,          \* audit rows, as [run, phase, verdict]
    effects,        \* decision -> what the adapter remembers of its idempotency key
    calls,          \* decision -> how often Adapter.Dispatch was called (history)
    mutations,      \* decision -> how often the target changed (history)
    compensations   \* decision -> how often it was compensated (history)

workflowVars == <<loc, past, work, request>>
storeVars == <<claims, revals, audit>>
adapterVars == <<effects, calls, mutations, compensations>>
vars == <<workflowVars, disp, late, policy, storeVars, adapterVars>>

-----------------------------------------------------------------------------
(* Local state of a run. *)

AdvancePcs == {"release", "release_rejected", "release_unknown",
               "mark_recon", "mark_failed", "mark_completed"}
AuditPcs == {"rej_audit", "audit_denied", "audit_pass", "audit_fence_fail", "audit_fence_unknown",
             "audit_dispatch", "audit_recon", "audit_comp_pass", "audit_comp_fail",
             "audit_failed", "audit_complete"}
DecisionPcs == {"rej_decision", "record_decision"}

(* Activities started from the workflow's own context; the others use a     *)
(* disconnected one and are not touched by a cancellation.                  *)
CancellablePcs == {"verify", "rej_decision", "rej_audit", "claim", "claim_read", "evaluate",
                   "record_decision", "audit_denied", "audit_pass", "dispatch",
                   "reconcile", "wait"}

(* Activities with a retry policy of one or more attempts. *)
ActivityPcs == {"verify", "claim", "claim_read", "evaluate", "reconcile", "compensate"}
                  \cup AdvancePcs \cup AuditPcs \cup DecisionPcs

Pcs == ActivityPcs \cup {"new", "dispatch", "wait", "closed"}

Exits == {"", "INGRESS_DECISION_INVALID", "EXECUTION_CLAIM_REJECTED", "REVALIDATION_DENIED",
          "AUDIT_PERSIST", "DISPATCH_OUTCOME_UNKNOWN", "DISPATCH_FAILED", "OK", "TERMINATED"}

Locs == [pc : Pcs, tries : Nat, cancelled : BOOLEAN, token : Runs \cup {""},
         verdict : Verdicts \cup {"NONE"}, outcome : Outcomes, auditErr : BOOLEAN,
         round : Nat, wait : Nat, elapsed : Nat, exit : Exits]

NewLoc == [pc |-> "new", tries |-> 0, cancelled |-> FALSE, token |-> "", verdict |-> "NONE",
           outcome |-> UnknownOutcome, auditErr |-> FALSE,
           round |-> 0, wait |-> 0, elapsed |-> 0, exit |-> ""]

NoRequest == [decision |-> ""]

Goto(l, pc) == [l EXCEPT !.pc = pc, !.tries = 0]

(* The function returns: of its locals only the token outlives it, in the   *)
(* history and in the inputs of the activities it started.                  *)
Exit(l, e) == [NewLoc EXCEPT !.pc = "closed", !.token = l.token, !.exit = e]

(* An exit that the deferred function turns into a release of the claim. *)
Releasing(l, e) == [Goto(l, "release") EXCEPT !.exit = e]

Rejecting(l, e) == [Goto(l, "rej_decision") EXCEPT !.exit = e]

Open(r) == loc[r].pc \notin {"new", "closed"}
Dec(r) == request[r].decision
Target(r) == request[r].proposal.target
Owner(r) == [workflow |-> work[r], run |-> r, token |-> loc[r].token]
CheckIngress(q, w) ==
    IF IngressRecord[q.decision] = NoRecord THEN "INGRESS_DECISION_NOT_FOUND"
    ELSE VerifyIngress(IngressRecord[q.decision], q, w)

-----------------------------------------------------------------------------
(* The workflow's control flow: where a run goes from l when the activity   *)
(* it waits for ends without (ok) or with an error. Activities whose result *)
(* matters have an operator of their own.                                   *)

(* Wrong variant: no token is drawn. *)
DrawsNoToken(r, valid) ==
    IF valid THEN Goto(loc[r], "claim") ELSE Rejecting(loc[r], "INGRESS_DECISION_INVALID")

AfterVerify(r, valid) ==
    IF valid THEN [Goto(loc[r], "claim") EXCEPT !.token = r]
    ELSE Rejecting(loc[r], "INGRESS_DECISION_INVALID")

AfterClaim(l, claimed) ==
    IF claimed THEN Goto(l, "evaluate") ELSE Rejecting(l, "EXECUTION_CLAIM_REJECTED")

AfterRejection(l) == IF l.pc = "rej_decision" THEN Goto(l, "rej_audit") ELSE Exit(l, l.exit)

AfterEvaluation(l, verdict) == [Goto(l, "record_decision") EXCEPT !.verdict = verdict]

(* Wrong variant: the run goes on when its PASS row could not be written. *)
IgnoresAuditError(l, ok) ==
    CASE l.pc = "record_decision" /\ l.verdict # "ALLOW"     -> Goto(l, "audit_denied")
      [] l.pc = "record_decision" /\ l.verdict = "ALLOW" /\ ok -> Goto(l, "audit_pass")
      [] l.pc = "audit_denied"                               -> Releasing(l, "REVALIDATION_DENIED")
      [] l.pc = "audit_pass"                                 -> Goto(l, "dispatch")
      [] OTHER                                               -> Releasing(l, "AUDIT_PERSIST")

AfterRevalidation(l, ok) ==
    CASE l.pc = "record_decision" /\ l.verdict # "ALLOW"     -> Goto(l, "audit_denied")
      [] l.pc = "record_decision" /\ l.verdict = "ALLOW" /\ ok -> Goto(l, "audit_pass")
      [] l.pc = "audit_denied"                               -> Releasing(l, "REVALIDATION_DENIED")
      [] l.pc = "audit_pass" /\ ok                           -> Goto(l, "dispatch")
      [] OTHER                                               -> Releasing(l, "AUDIT_PERSIST")

(* Wrong variant: what is not a failure is a success. *)
UnknownIsSuccess(l) == Goto(l, IF l.outcome.status = "FAILURE" THEN "mark_failed" ELSE "mark_completed")

Resolve(l) ==
    Goto(l, CASE l.outcome.status = "SUCCESS" -> "mark_completed"
              [] l.outcome.status = "FAILURE" -> "mark_failed"
              [] OTHER                        -> "mark_recon")

(* Wrong variants: a dispatch without a result counts as a failure of the   *)
(* change, as a refused fence, or as a fence of unknown state.              *)
TimeoutIsFailure(l, res) ==
    CASE res.kind = "REJECTED"      -> Goto(l, "release_rejected")
      [] res.kind = "FENCE_UNKNOWN" -> Goto(l, "release_unknown")
      [] res.kind = "OUTCOME"       -> [Goto(l, "audit_dispatch") EXCEPT !.outcome = Checked(res.outcome)]
      [] OTHER                      -> [Goto(l, "audit_dispatch") EXCEPT !.outcome = KeyFenced]

TimeoutIsRejection(l, res) ==
    CASE res.kind = "OUTCOME"       -> [Goto(l, "audit_dispatch") EXCEPT !.outcome = Checked(res.outcome)]
      [] res.kind = "FENCE_UNKNOWN" -> Goto(l, "release_unknown")
      [] OTHER                      -> Goto(l, "release_rejected")

TimeoutIsFenceFailure(l, res) ==
    CASE res.kind = "OUTCOME"  -> [Goto(l, "audit_dispatch") EXCEPT !.outcome = Checked(res.outcome)]
      [] res.kind = "REJECTED" -> Goto(l, "release_rejected")
      [] OTHER                 -> Goto(l, "release_unknown")

(* res.kind: OUTCOME, REJECTED and FENCE_UNKNOWN (the two fence errors), or  *)
(* NONE for a timeout, a cancelled wait or a lost worker.                    *)
AfterDispatch(l, res) ==
    CASE res.kind = "REJECTED"      -> Goto(l, "release_rejected")
      [] res.kind = "FENCE_UNKNOWN" -> Goto(l, "release_unknown")
      [] res.kind = "OUTCOME"       -> [Goto(l, "audit_dispatch") EXCEPT !.outcome = Checked(res.outcome)]
      [] OTHER                      -> [Goto(l, "audit_dispatch") EXCEPT !.outcome = UnknownOutcome]

AfterFenceFailure(l, ok) ==
    CASE l.pc = "release_rejected" \/ (l.pc = "release_unknown" /\ ok) -> Goto(l, "audit_fence_fail")
      [] l.pc = "release_unknown" /\ ~ok -> [Goto(l, "audit_fence_unknown") EXCEPT !.outcome = UnknownOutcome]
      [] OTHER                           -> Exit(l, "EXECUTION_CLAIM_REJECTED")

AfterOutcomeAudit(l, ok) ==
    IF l.pc = "audit_recon" /\ l.outcome.status = "UNKNOWN"
    THEN Exit(l, "DISPATCH_OUTCOME_UNKNOWN")
    ELSE Resolve([l EXCEPT !.auditErr = ~ok])

BeginReconcile(l) ==
    [Goto(l, "reconcile") EXCEPT !.round = 1, !.wait = reconcileFirstWait, !.elapsed = 0]

(* Wrong variant: a wait that ends with the window does not fit any more. *)
LeavesWindowUnused(l, o) ==
    LET m == [l EXCEPT !.outcome = Checked(o)] IN
    IF m.outcome.status # "UNKNOWN" \/ l.elapsed + l.wait >= reconcileWindow THEN Goto(m, "audit_recon")
    ELSE Goto(m, "wait")

(* l.elapsed is workflow.Now less the time the reconciliation began. *)
AfterReconcile(l, o) ==
    LET m == [l EXCEPT !.outcome = Checked(o)] IN
    IF m.outcome.status # "UNKNOWN" \/ l.elapsed + l.wait > reconcileWindow THEN Goto(m, "audit_recon")
    ELSE Goto(m, "wait")

(* Wrong variant: every failure is compensated. *)
CompensatesAlways(l, ok) ==
    CASE l.pc = "mark_failed"       -> Goto(l, "compensate")
      [] l.pc = "compensate" /\ ok  -> Goto(l, "audit_comp_pass")
      [] l.pc = "compensate" /\ ~ok -> Goto(l, "audit_comp_fail")
      [] l.pc = "audit_failed"      -> Exit(l, "DISPATCH_FAILED")
      [] OTHER                      -> Goto(l, "audit_failed")

AfterFailure(l, ok) ==
    CASE l.pc = "mark_failed" /\ l.outcome.partial -> Goto(l, "compensate")
      [] l.pc = "compensate" /\ ok                 -> Goto(l, "audit_comp_pass")
      [] l.pc = "compensate" /\ ~ok                -> Goto(l, "audit_comp_fail")
      [] l.pc = "audit_failed"                     -> Exit(l, "DISPATCH_FAILED")
      [] OTHER                                     -> Goto(l, "audit_failed")

(* Wrong variant: the run completes although COMPLETED was not recorded. *)
IgnoresMarkError(l, ok) ==
    CASE l.pc = "mark_completed" /\ ~l.auditErr -> Goto(l, "audit_complete")
      [] l.pc = "audit_complete" /\ ok          -> Exit(l, "OK")
      [] OTHER                                  -> Exit(l, "AUDIT_PERSIST")

AfterSuccess(l, ok) ==
    CASE l.pc = "mark_completed" /\ ok /\ ~l.auditErr -> Goto(l, "audit_complete")
      [] l.pc = "audit_complete" /\ ok                -> Exit(l, "OK")
      [] OTHER                                        -> Exit(l, "AUDIT_PERSIST")

After(l, ok) ==
    CASE l.pc = "verify"                  -> Exit(l, "INGRESS_DECISION_INVALID")
      [] l.pc \in {"claim", "claim_read"} -> Releasing(l, "EXECUTION_CLAIM_REJECTED")
      [] l.pc \in {"rej_decision", "rej_audit"} -> AfterRejection(l)
      [] l.pc = "evaluate"                -> Releasing(l, "REVALIDATION_DENIED")
      [] l.pc = "release"                 -> Exit(l, l.exit)
      [] l.pc \in {"record_decision", "audit_denied", "audit_pass"} -> AfterRevalidation(l, ok)
      [] l.pc = "dispatch"                -> AfterDispatch(l, [kind |-> "NONE"])
      [] l.pc \in {"release_rejected", "release_unknown", "audit_fence_fail"} -> AfterFenceFailure(l, ok)
      [] l.pc \in {"audit_dispatch", "audit_fence_unknown", "audit_recon"} -> AfterOutcomeAudit(l, ok)
      [] l.pc = "mark_recon"              -> BeginReconcile(l)
      [] l.pc = "reconcile"               -> AfterReconcile(l, UnknownOutcome)
      [] l.pc = "wait"                    -> Goto(l, "audit_recon")
      [] l.pc \in {"mark_failed", "compensate", "audit_comp_pass", "audit_comp_fail", "audit_failed"}
            -> AfterFailure(l, ok)
      [] OTHER                            -> AfterSuccess(l, ok)

-----------------------------------------------------------------------------
(* What an activity attempt does to the stores and the target. *)

AdvanceTo(pc) ==
    CASE pc = "mark_recon"     -> "RECONCILIATION_REQUIRED"
      [] pc = "mark_failed"    -> "FAILED"
      [] pc = "mark_completed" -> "COMPLETED"
      [] OTHER                 -> "RELEASED"

(* Wrong variant: the status is recorded as it is. *)
unmappedStatus(o) == o.status

auditVerdict(o) ==
    CASE o.status = "SUCCESS" -> "PASS" [] o.status = "FAILURE" -> "FAIL" [] OTHER -> "UNKNOWN"

Row(phase, verdict) == [phase |-> phase, verdict |-> verdict]

AuditRow(l) ==
    CASE l.pc \in {"rej_audit", "audit_denied"} -> Row("WORKFLOW_REVALIDATION", "FAIL")
      [] l.pc = "audit_pass"          -> Row("WORKFLOW_REVALIDATION", "PASS")
      [] l.pc = "audit_fence_fail"    -> Row("EXECUTION_FENCE", "FAIL")
      [] l.pc = "audit_fence_unknown" -> Row("EXECUTION_FENCE", "UNKNOWN")
      [] l.pc = "audit_dispatch"      -> Row("DISPATCH_CONFIG", auditVerdict(l.outcome))
      [] l.pc = "audit_recon"         -> Row("DISPATCH_RECONCILIATION", auditVerdict(l.outcome))
      [] l.pc = "audit_comp_pass"     -> Row("COMPENSATION_ROLLBACK", "PASS")
      [] l.pc = "audit_comp_fail"     -> Row("COMPENSATION_ROLLBACK", "FAIL")
      [] l.pc = "audit_failed"        -> Row("WORKFLOW_FAILED", "FAIL")
      [] OTHER                        -> Row("WORKFLOW_COMPLETE", "PASS")

(* An attempt of run r: what it does, its input, and which attempt it is. *)
Op(kind, r, input, verdict) ==
    [kind |-> kind, run |-> r, input |-> input, verdict |-> verdict, attempt |-> loc[r].tries]

(* The attempt a run is waiting for. Verification and evaluation only read. *)
Attempt(r) ==
    LET l == loc[r] IN
    CASE l.pc = "claim"           -> Op("claim", r, "", "")
      [] l.pc \in AdvancePcs      -> Op("advance", r, AdvanceTo(l.pc), "")
      [] l.pc = "rej_decision"    -> Op("decision", r, "", "DENY")
      [] l.pc = "record_decision" -> Op("decision", r, "", l.verdict)
      [] l.pc \in AuditPcs        -> Op("audit", r, AuditRow(l).phase, AuditRow(l).verdict)
      [] l.pc = "reconcile"       -> Op("reconcile", r, "", "")
      [] l.pc = "compensate"      -> Op("compensate", r, "", "")
      [] OTHER                    -> Op("read", r, "", "")

(* AppendDecision and Append accept an identical record again. A run writes *)
(* one re-validation record and each audit row has its own sequence number, *)
(* so a record of the same ID with other content does not arise.            *)
TakesEffect(op) ==
    LET d == Dec(op.run) IN
    /\ claims' = CASE op.kind = "claim"   -> ClaimWrite(d, Owner(op.run))
                   [] op.kind = "advance" -> AdvanceWrite(d, Owner(op.run), op.input)
                   [] OTHER               -> claims
    /\ revals' = IF op.kind = "decision" /\ revals[op.run] = "NONE"
                 THEN [revals EXCEPT ![op.run] = op.verdict] ELSE revals
    /\ audit' = IF op.kind = "audit"
                THEN audit \cup {[run |-> op.run, phase |-> op.input, verdict |-> op.verdict]}
                ELSE audit
    /\ effects' = IF op.kind = "reconcile"
                  THEN [effects EXCEPT ![d] = ReconcileEffect(@, Target(op.run))] ELSE effects
    /\ compensations' = IF op.kind = "compensate"
                        THEN [compensations EXCEPT ![d] = @ + 1] ELSE compensations
    /\ UNCHANGED <<calls, mutations>>

(* The run goes on at l; a run can later be reset to where it waits now. *)
GoesTo(r, l) ==
    /\ loc' = [loc EXCEPT ![r] = l]
    /\ past' = IF "reset" \in Events /\ l.pc \notin {"claim_read", "closed"} /\ l.tries = 0
               THEN [past EXCEPT ![r] = @ \cup {l}] ELSE past
    /\ UNCHANGED <<work, request>>

(* A cancelled run no longer gets results of what its context started. *)
Awaits(r, pcs) ==
    loc[r].pc \in pcs /\ ~(loc[r].cancelled /\ loc[r].pc \in CancellablePcs)

Completes(r, l) ==
    /\ TakesEffect(Attempt(r))
    /\ GoesTo(r, l)
    /\ UNCHANGED <<disp, late, policy>>

-----------------------------------------------------------------------------
(* Activities that succeed. *)

VerifyIngressDecision(r) ==
    /\ Awaits(r, {"verify"})
    /\ Completes(r, AfterVerify(r, CheckIngress(request[r], work[r]) = "VALID"))

(* The INSERT decides; only when it changed no row is the claim read. *)
ClaimDecision(r) ==
    /\ Awaits(r, {"claim"})
    /\ Completes(r, IF CanClaim(Dec(r)) THEN AfterClaim(loc[r], TRUE)
                    ELSE [loc[r] EXCEPT !.pc = "claim_read"])

(* Wrong variant: a claim that is held is refused, whoever holds it. *)
ForgetsOwnClaim(r) ==
    /\ Awaits(r, {"claim_read"})
    /\ Completes(r, AfterClaim(loc[r], FALSE))

ReadHeldClaim(r) ==
    /\ Awaits(r, {"claim_read"})
    /\ Completes(r, AfterClaim(loc[r], HeldBy(Dec(r), Owner(r))))

EvaluateExecution(r) ==
    /\ Awaits(r, {"evaluate"})
    /\ Completes(r, AfterEvaluation(loc[r], Revalidate(policy, request[r]).verdict))

RecordDecision(r) ==
    /\ Awaits(r, DecisionPcs)
    /\ Completes(r, After(loc[r], TRUE))

RecordAuditTrail(r) ==
    /\ Awaits(r, AuditPcs)
    /\ Completes(r, After(loc[r], TRUE))

(* ErrClaimNotHeld is not retried. *)
AdvanceExecutionClaim(r) ==
    /\ Awaits(r, AdvancePcs)
    /\ Completes(r, After(loc[r], CanAdvance(Dec(r), Owner(r), AdvanceTo(loc[r].pc))))

(* With its context ended the adapter answers UNKNOWN and does nothing. *)
ReconcileDispatch(r) ==
    /\ Awaits(r, {"reconcile"})
    /\ \/ Completes(r, AfterReconcile(loc[r], ReconcileReply(effects[Dec(r)], Target(r))))
       \/ /\ "timeout" \in Events
          /\ GoesTo(r, AfterReconcile(loc[r], UnknownOutcome))
          /\ UNCHANGED <<disp, late, policy, storeVars, adapterVars>>

RevertStateCompensation(r) ==
    /\ Awaits(r, {"compensate"})
    /\ Completes(r, After(loc[r], TRUE))

(* The next round, after the durable timer. *)
NextRound(l) ==
    [Goto(l, "reconcile") EXCEPT
        !.round = @ + 1,
        !.elapsed = @ + l.wait,
        !.wait = IF 2 * l.wait <= reconcileMaxWait THEN 2 * l.wait ELSE reconcileMaxWait]

WaitEnds(r) ==
    /\ Awaits(r, {"wait"})
    /\ GoesTo(r, NextRound(loc[r]))
    /\ UNCHANGED <<disp, late, policy, storeVars, adapterVars>>

(* The cancelled context ends the wait for whatever it started, and starts  *)
(* nothing any more.                                                        *)
CancelledWait(r) ==
    /\ loc[r].cancelled /\ loc[r].pc \in CancellablePcs
    /\ GoesTo(r, After(loc[r], FALSE))
    /\ UNCHANGED <<disp, late, policy, storeVars, adapterVars>>

(* A round takes its time: its activity waits for a worker, is retried.     *)
RoundLasts(r) ==
    /\ "delay" \in Events
    /\ loc[r].pc = "reconcile" /\ loc[r].elapsed < MaxElapsed
    /\ GoesTo(r, [loc[r] EXCEPT !.elapsed = @ + 1])
    /\ UNCHANGED <<disp, late, policy, storeVars, adapterVars>>

-----------------------------------------------------------------------------
(* Attempts that do not succeed. *)

(* Wrong variant: compensation has the retry policy of the other activities. *)
RetriesCompensation(pc) == MaximumAttempts

AttemptsAt(pc) == IF pc = "compensate" THEN 1 ELSE MaximumAttempts

RetryOrFail(r) ==
    IF loc[r].tries + 1 < AttemptsAt(loc[r].pc)
    THEN [loc[r] EXCEPT !.tries = @ + 1, !.pc = IF @ = "claim_read" THEN "claim" ELSE @]
    ELSE After(loc[r], FALSE)

(* An error without effect, or an effect whose response was lost. *)
AttemptFails(r) ==
    /\ "fault" \in Events
    /\ Awaits(r, ActivityPcs)
    /\ GoesTo(r, RetryOrFail(r))
    /\ \/ UNCHANGED <<storeVars, adapterVars>>
       \/ TakesEffect(Attempt(r))
    /\ UNCHANGED <<disp, late, policy>>

MayBeLate(r) == loc[r].pc \in ActivityPcs /\ Attempt(r).kind # "read" /\ Cardinality(late) < MaxLate

(* Start-to-close timeout of an attempt that is still running. *)
AttemptTimesOut(r) ==
    /\ "timeout" \in Events
    /\ Awaits(r, ActivityPcs) /\ MayBeLate(r)
    /\ late' = late \cup {Attempt(r)}
    /\ GoesTo(r, RetryOrFail(r))
    /\ UNCHANGED <<disp, policy, storeVars, adapterVars>>

LateAttempt(op) ==
    /\ late' = late \ {op}
    /\ TakesEffect(op)
    /\ UNCHANGED <<workflowVars, disp, policy>>

-----------------------------------------------------------------------------
(* The DispatchConfig activity. It is scheduled once per run and outlives   *)
(* the run's interest in it: a timeout, a cancellation, a termination or a  *)
(* reset does not stop it.                                                  *)

DispatchStages == {"none", "started", "not_held", "fenced", "done", "lost"}
ResultKinds == {"NONE", "REJECTED", "FENCE_UNKNOWN", "OUTCOME"}

NoDispatch == [at |-> "none", kind |-> "NONE", outcome |-> UnknownOutcome]

DispatchGoes(r, stage) == disp' = [disp EXCEPT ![r].at = stage]

DispatchEnds(r, kind, outcome) ==
    disp' = [disp EXCEPT ![r] = [at |-> "done", kind |-> kind, outcome |-> outcome]]

(* Wrong variants: the adapter is called without a fence; whatever the      *)
(* fence answered; after a fence that overwrites any state.                 *)
SkipsFence(r) ==
    /\ Awaits(r, {"dispatch"})
    /\ disp[r].at = "none"
    /\ DispatchGoes(r, "fenced")
    /\ UNCHANGED <<workflowVars, late, policy, storeVars, adapterVars>>

IgnoresFence(r) ==
    /\ disp[r].at = "started"
    /\ claims' = AdvanceWrite(Dec(r), Owner(r), "EXECUTING")
    /\ DispatchGoes(r, "fenced")
    /\ UNCHANGED <<workflowVars, late, policy, revals, audit, adapterVars>>

ForcesFence(r) ==
    /\ disp[r].at = "started"
    /\ claims' = [claims EXCEPT ![Dec(r)].state = "EXECUTING"]
    /\ DispatchGoes(r, "fenced")
    /\ UNCHANGED <<workflowVars, late, policy, revals, audit, adapterVars>>

StartDispatch(r) ==
    /\ Awaits(r, {"dispatch"})
    /\ disp[r].at = "none"
    /\ DispatchGoes(r, "started")
    /\ UNCHANGED <<workflowVars, late, policy, storeVars, adapterVars>>

(* The fence: CLAIMED to EXECUTING as the owner in the activity's own info. *)
AcquireFence(r) ==
    /\ disp[r].at = "started"
    /\ claims' = AdvanceWrite(Dec(r), Owner(r), "EXECUTING")
    /\ DispatchGoes(r, IF CanAdvance(Dec(r), Owner(r), "EXECUTING") THEN "fenced" ELSE "not_held")
    /\ UNCHANGED <<workflowVars, late, policy, revals, audit, adapterVars>>

FenceWriteFails(r) ==
    /\ "fault" \in Events
    /\ disp[r].at = "started"
    /\ claims' \in {claims, AdvanceWrite(Dec(r), Owner(r), "EXECUTING")}
    /\ DispatchEnds(r, "FENCE_UNKNOWN", UnknownOutcome)
    /\ UNCHANGED <<workflowVars, late, policy, revals, audit, adapterVars>>

(* GetClaim after a refused fence: is the claim this run's own, in a later  *)
(* state?                                                                   *)
ReadFencedClaim(r) ==
    /\ disp[r].at = "not_held"
    /\ \/ DispatchEnds(r, IF claims[Dec(r)].owner = Owner(r) /\ claims[Dec(r)].state # "RELEASED"
                          THEN "FENCE_UNKNOWN" ELSE "REJECTED", UnknownOutcome)
       \/ "fault" \in Events /\ DispatchEnds(r, "FENCE_UNKNOWN", UnknownOutcome)
    /\ UNCHANGED <<workflowVars, late, policy, storeVars, adapterVars>>

(* The activity's context ends by itself only at its start-to-close timeout. *)
CallAdapter(r) ==
    LET d == Dec(r) IN
    \E ended \in IF "timeout" \in Events THEN BOOLEAN ELSE {FALSE} :
        /\ disp[r].at = "fenced"
        /\ effects' = [effects EXCEPT ![d] = DispatchEffect(@, Target(r), ended)]
        /\ mutations' = [mutations EXCEPT ![d] =
                             @ + IF Applies(effects[d], Target(r), ended) THEN 1 ELSE 0]
        /\ calls' = [calls EXCEPT ![d] = @ + 1]
        /\ DispatchEnds(r, "OUTCOME", Checked(DispatchReply(effects[d], Target(r), ended)))
        /\ UNCHANGED <<workflowVars, late, policy, storeVars, compensations>>

DispatchReturns(r) ==
    /\ Awaits(r, {"dispatch"})
    /\ disp[r].at = "done"
    /\ GoesTo(r, AfterDispatch(loc[r], disp[r]))
    /\ UNCHANGED <<disp, late, policy, storeVars, adapterVars>>

(* Wrong variant: an activity lost with its worker has no timeout. *)
WaitsForever(r) ==
    /\ Awaits(r, {"dispatch"})
    /\ "timeout" \in Events /\ disp[r].at \notin {"none", "lost"}
    /\ GoesTo(r, After(loc[r], FALSE))
    /\ UNCHANGED <<disp, late, policy, storeVars, adapterVars>>

(* Temporal gives up on a started activity; after a worker's death it must. *)
DispatchTimesOut(r) ==
    /\ Awaits(r, {"dispatch"})
    /\ disp[r].at = "lost" \/ ("timeout" \in Events /\ disp[r].at # "none")
    /\ GoesTo(r, After(loc[r], FALSE))
    /\ UNCHANGED <<disp, late, policy, storeVars, adapterVars>>

-----------------------------------------------------------------------------
(* Temporal and its operators, the worker process and its policy. *)

(* At most one open run per workflow ID. *)
StartWorkflow(r, w, q) ==
    /\ loc[r].pc = "new"
    /\ \A s \in Runs : work[s] = w => ~Open(s)
    /\ loc' = [loc EXCEPT ![r].pc = "verify"]
    /\ past' = IF "reset" \in Events THEN [past EXCEPT ![r] = {loc'[r]}] ELSE past
    /\ work' = [work EXCEPT ![r] = w]
    /\ request' = [request EXCEPT ![r] = q]
    /\ UNCHANGED <<disp, late, policy, storeVars, adapterVars>>

(* The attempt under way may still take effect. *)
Abandons(r) == late' \in {late} \cup IF MayBeLate(r) THEN {late \cup {Attempt(r)}} ELSE {}

Cancel(r) ==
    /\ "cancel" \in Events
    /\ Open(r) /\ ~loc[r].cancelled
    /\ IF loc[r].pc \in CancellablePcs THEN Abandons(r) ELSE UNCHANGED late
    /\ loc' = [loc EXCEPT ![r].cancelled = TRUE]
    /\ UNCHANGED <<past, work, request, disp, policy, storeVars, adapterVars>>

Terminate(r) ==
    /\ "terminate" \in Events
    /\ Open(r)
    /\ Abandons(r)
    /\ loc' = [loc EXCEPT ![r] = Exit(@, "TERMINATED")]
    /\ UNCHANGED <<past, work, request, disp, policy, storeVars, adapterVars>>

(* s replays the history of r up to l and goes on under its own run ID. The *)
(* token is part of the history from the task that schedules the claim on;  *)
(* a reset to that very task draws a new one.                               *)
Reset(r, s, l) ==
    /\ "reset" \in Events
    /\ loc[r].pc # "new" /\ loc[s].pc = "new"
    /\ \A t \in Runs \ {r} : work[t] = work[r] => ~Open(t)
    /\ IF Open(r) THEN Abandons(r) ELSE UNCHANGED late
    /\ loc' = [loc EXCEPT ![r] = IF Open(r) THEN Exit(@, "TERMINATED") ELSE @,
                          ![s] = IF l.pc = "claim" THEN [l EXCEPT !.token = s] ELSE l]
    /\ past' = [past EXCEPT ![s] = {loc'[s]}]
    /\ work' = [work EXCEPT ![s] = work[r]]
    /\ request' = [request EXCEPT ![s] = request[r]]
    /\ UNCHANGED <<disp, policy, storeVars, adapterVars>>

(* The worker dies and starts again: what ran in it is gone, and so is the  *)
(* adapter's memory. What runs wait for is attempted again (AttemptFails).  *)
WorkerRestart ==
    /\ "restart" \in Events
    /\ effects' = [d \in Decisions |-> NoEffect]
    /\ late' = {}
    /\ disp' = [r \in Runs |-> IF disp[r].at = "none" THEN disp[r] ELSE [disp[r] EXCEPT !.at = "lost"]]
    /\ UNCHANGED <<workflowVars, policy, storeVars, calls, mutations, compensations>>

ReloadPolicy ==
    /\ "reload" \in Events
    /\ policy' \in Policies
    /\ UNCHANGED <<workflowVars, disp, late, storeVars, adapterVars>>

-----------------------------------------------------------------------------
Init ==
    /\ StoreInit
    /\ loc = [r \in Runs |-> NewLoc]
    /\ past = [r \in Runs |-> {}]
    /\ work = [r \in Runs |-> ""]
    /\ request = [r \in Runs |-> NoRequest]
    /\ disp = [r \in Runs |-> NoDispatch]
    /\ late = {}
    /\ policy \in Policies
    /\ revals = [r \in Runs |-> "NONE"]
    /\ audit = {}
    /\ effects = [d \in Decisions |-> NoEffect]
    /\ calls = [d \in Decisions |-> 0]
    /\ mutations = [d \in Decisions |-> 0]
    /\ compensations = [d \in Decisions |-> 0]

WorkflowStep(r) ==
    \/ VerifyIngressDecision(r) \/ ClaimDecision(r) \/ ReadHeldClaim(r) \/ EvaluateExecution(r)
    \/ RecordDecision(r) \/ RecordAuditTrail(r) \/ AdvanceExecutionClaim(r)
    \/ ReconcileDispatch(r) \/ RevertStateCompensation(r) \/ WaitEnds(r) \/ CancelledWait(r)
    \/ DispatchReturns(r) \/ DispatchTimesOut(r)

DispatchStep(r) ==
    StartDispatch(r) \/ AcquireFence(r) \/ ReadFencedClaim(r) \/ CallAdapter(r)

Disturbance(r) ==
    \/ AttemptFails(r) \/ AttemptTimesOut(r) \/ FenceWriteFails(r) \/ RoundLasts(r)
    \/ Cancel(r) \/ Terminate(r)
    \/ \E s \in Runs : \E l \in past[r] : Reset(r, s, l)

Next ==
    \/ \E r \in Runs : WorkflowStep(r) \/ DispatchStep(r) \/ Disturbance(r)
    \/ \E r \in Runs, w \in Workflows, q \in Requests : StartWorkflow(r, w, q)
    \/ \E op \in late : LateAttempt(op)
    \/ WorkerRestart
    \/ ReloadPolicy

Spec == Init /\ [][Next]_vars

(* Temporal keeps scheduling what a run waits for, and a live worker keeps  *)
(* working; nothing is promised about starts, disturbances or late attempts.*)
FairSpec == Spec /\ \A r \in Runs : WF_vars(WorkflowStep(r)) /\ WF_vars(DispatchStep(r))

-----------------------------------------------------------------------------
Rows == [run : Runs, phase : AuditPhases, verdict : AuditVerdicts]

LateAttempts ==
    {op \in [kind : {"claim", "advance", "decision", "audit", "reconcile", "compensate"},
             run : Runs,
             input : ClaimStates \cup AuditPhases \cup {""},
             verdict : Verdicts \cup AuditVerdicts \cup {"", "NONE"},
             attempt : Nat] :
        /\ op.kind = "advance" => op.input \in ClaimStates \ {"CLAIMED", "EXECUTING"}
        /\ op.kind = "decision" => op.verdict \in Verdicts \cup {"NONE"}
        /\ op.kind = "audit" => op.input \in AuditPhases /\ op.verdict \in AuditVerdicts}

(* Every variable has its type: what each run, activity and table can hold. *)
TypeOK ==
    /\ ClaimsTypeOK
    /\ loc \in [Runs -> Locs]
    /\ past \in [Runs -> SUBSET Locs]
    /\ work \in [Runs -> Workflows \cup {""}]
    /\ request \in [Runs -> Requests \cup {NoRequest}]
    /\ disp \in [Runs -> [at : DispatchStages, kind : ResultKinds, outcome : Outcomes]]
    /\ late \subseteq LateAttempts
    /\ policy \in Policies
    /\ revals \in [Runs -> Verdicts \cup {"NONE"}]
    /\ audit \subseteq Rows
    /\ effects \in [Decisions -> Outcomes \cup {NoEffect}]
    /\ calls \in [Decisions -> Nat]
    /\ mutations \in [Decisions -> Nat]
    /\ compensations \in [Decisions -> Nat]
    /\ \A r \in Runs : loc[r].pc # "new" => work[r] \in Workflows /\ request[r] \in Requests

(* One ingress decision authorizes at most one call of the adapter, over    *)
(* all runs, resets, retries and late attempts (SECURITY.md: "One execution *)
(* per ingress decision").                                                  *)
AtMostOneDispatch == \A d \in Decisions : calls[d] <= 1

(* A decision whose claim is absent, CLAIMED or RELEASED has never reached  *)
(* the adapter, so giving it up is safe (shared/contracts/claim.go:         *)
(* "CLAIMED and RELEASED therefore guarantee that the adapter has not been  *)
(* called for the decision").                                               *)
UnfencedNotCalled ==
    \A d \in Decisions : claims[d].state \notin FencedStates => calls[d] = 0

(* Why: a dispatch activity past the fence holds the claim in a fenced      *)
(* state and is the only one that ever will, until it has called.           *)
FenceHeld ==
    \A r \in Runs :
        disp[r].at = "fenced" =>
            /\ claims[Dec(r)].state \in FencedStates
            /\ claims[Dec(r)].owner.run = r
            /\ calls[Dec(r)] = 0

(* The one call was made by the claim's owner, whose activity is over. *)
CallsAreFenced ==
    \A d \in Decisions :
        calls[d] > 0 =>
            /\ calls[d] = 1
            /\ claims[d].state \in FencedStates
            /\ disp[claims[d].owner.run].at \in {"done", "lost"}

(* Nothing runs for a run that has not started. *)
NewIsIdle ==
    \A r \in Runs : loc[r].pc = "new" => disp[r].at = "none" /\ \A op \in late : op.run # r

(* A run that claims, or whose claim is still on its way, has its token. *)
TokenDrawn ==
    /\ \A r \in Runs : loc[r].pc \in {"claim", "claim_read"} => loc[r].token \in Runs
    /\ \A op \in late : op.kind = "claim" => loc[op.run].token \in Runs
    /\ \A r \in Runs : \A l \in past[r] : l.pc # "claim_read"

(* The inductive invariant behind the two properties above: the fence is    *)
(* held by one activity and the adapter is called only past it.             *)
FenceInv == TypeOK /\ FenceHeld /\ CallsAreFenced /\ NewIsIdle /\ TokenDrawn

(* The run that reached the adapter named a recorded ingress ALLOW for this *)
(* very request and workflow, and before that had its own re-validation     *)
(* ALLOW and its PASS audit row on disk (INTEGRATION.md: the worker writes  *)
(* a WORKFLOW_REVALIDATION record "before it can dispatch anything").       *)
DispatchBacked ==
    \A d \in Decisions :
        calls[d] > 0 =>
            LET r == claims[d].owner.run IN
            /\ Dec(r) = d
            /\ CheckIngress(request[r], work[r]) = "VALID"
            /\ revals[r] = "ALLOW"
            /\ [run |-> r, phase |-> "WORKFLOW_REVALIDATION", verdict |-> "PASS"] \in audit

(* The target took the whole change of d, as dispatched by the claim's run. *)
AppliedInFull(d) == mutations[d] > 0 /\ EffectAt(Target(claims[d].owner.run)) = Applied

(* COMPLETED is written only for a change the target took in full (the      *)
(* Adapter contract: SUCCESS must be confirmed by the target).              *)
CompletedIsTrue ==
    \A d \in Decisions : claims[d].state = "COMPLETED" => AppliedInFull(d) /\ compensations[d] = 0

(* FAILED is written only for a change the target did not take in full (the *)
(* Adapter contract: reconciliation "may report FAILURE only if that        *)
(* mutation has not taken effect and can no longer take effect").           *)
FailedIsTrue == \A d \in Decisions : claims[d].state = "FAILED" => ~AppliedInFull(d)

(* After a confirmed outcome the target does not change any more, even if   *)
(* the dispatch activity is still on its way: "otherwise a request still in *)
(* flight could apply it after FAILED was recorded" (activities.go).        *)
ConfirmedIsSettled ==
    [][\A d \in Decisions :
          claims[d].state \in {"COMPLETED", "FAILED"} => mutations'[d] = mutations[d]]_vars

(* Only a change the target took in part is compensated, never an unknown   *)
(* or a complete one (SECURITY.md: "Compensation runs only when the adapter *)
(* confirms that the change partly took effect").                           *)
CompensatesPartialOnly ==
    \A d \in Decisions :
        compensations[d] > 0 => mutations[d] = 1 /\ EffectAt(Target(claims[d].owner.run)) = PartlyApplied

(* A change is compensated at most once (ARCHITECTURE.md, step 6:           *)
(* "RevertStateCompensation runs once").                                    *)
CompensatedOnce == \A d \in Decisions : compensations[d] <= 1

HasRow(r, phase, verdicts) ==
    \E v \in verdicts : [run |-> r, phase |-> phase, verdict |-> v] \in audit

(* A run with an EXECUTION_FENCE row never reaches the adapter itself, not  *)
(* later either (ARCHITECTURE.md: such a row "never claims that the adapter *)
(* ran").                                                                   *)
FenceRowMeansNotCalled ==
    \A r \in Runs :
        HasRow(r, "EXECUTION_FENCE", AuditVerdicts) =>
            disp[r].at # "fenced" /\ ~(calls[Dec(r)] > 0 /\ claims[Dec(r)].owner.run = r)

(* When a run concludes, for its EXECUTION_FENCE FAIL row, that the change  *)
(* was not dispatched, it was not, by any run (INTEGRATION.md: such a row   *)
(* "means the change was not dispatched").                                  *)
FenceFailMeansNotDispatched ==
    [][\A r \in Runs :
          loc'[r].pc = "audit_fence_fail" /\ loc[r].pc # "audit_fence_fail" => calls[Dec(r)] = 0]_vars

(* A WORKFLOW_COMPLETE row, a reset run's too, stands for a COMPLETED claim *)
(* of its workflow: the change was made and nothing was rolled back.        *)
CompleteRowIsTrue ==
    \A r \in Runs :
        HasRow(r, "WORKFLOW_COMPLETE", AuditVerdicts) =>
            claims[Dec(r)].state = "COMPLETED" /\ claims[Dec(r)].owner.workflow = work[r]

(* A run that ends before its dispatch was scheduled does not keep the      *)
(* decision (saga.go: "every exit returns the claim").                      *)
EveryExitReturnsTheClaim ==
    \A r \in Runs :
        loc[r].exit \in {"EXECUTION_CLAIM_REJECTED", "REVALIDATION_DENIED"} /\ loc[r].pc = "closed" =>
            ~HeldBy(Dec(r), Owner(r))

(* A run whose claim was refused does not hold the decision: a retried      *)
(* attempt recognises the claim its predecessor committed                   *)
(* (internal/decision/claim.go: "A repeat call by the same owner while the  *)
(* claim is CLAIMED succeeds").                                             *)
RefusedDoesNotHold ==
    \A r \in Runs :
        loc[r].pc \in {"rej_decision", "rej_audit"} /\ loc[r].exit = "EXECUTION_CLAIM_REJECTED" =>
            ~HeldBy(Dec(r), Owner(r))

(* The wait after round n, and the sum of the first n waits, in closed form. *)
DocumentedWait(n) ==
    LET doubled == reconcileFirstWait * 2 ^ (n - 1)
    IN IF doubled <= reconcileMaxWait THEN doubled ELSE reconcileMaxWait

DocumentedWaits[n \in Nat] == IF n = 0 THEN 0 ELSE DocumentedWaits[n - 1] + DocumentedWait(n)

(* Reconciliation keeps to its schedule however long its rounds take: the   *)
(* waits double up to the longest, together they never exceed the window,   *)
(* and an uncancelled run gives up on an unknown outcome only when the next *)
(* wait would (saga.go: "after waits that double from reconcileFirstWait up *)
(* to reconcileMaxWait, until reconcileWindow has passed").                 *)
ReconcilesOnSchedule ==
    \A r \in Runs :
        LET l == loc[r] IN
        /\ l.pc \in {"reconcile", "wait"} =>
              /\ l.wait = DocumentedWait(l.round)
              /\ DocumentedWaits[l.round - 1] <= l.elapsed
              /\ DocumentedWaits[l.round - 1] <= reconcileWindow
        /\ l.pc = "audit_recon" /\ l.outcome.status = "UNKNOWN" /\ ~l.cancelled =>
              l.elapsed + DocumentedWait(l.round) > reconcileWindow

(* The saga implements ExecutionOnce: the executor of a decision is the run *)
(* that fenced it.                                                          *)
Once ==
    INSTANCE ExecutionOnce
        WITH Executors <- Runs, None <- "",
             executor <- [d \in Decisions |-> IF claims[d].state \in FencedStates
                                              THEN claims[d].owner.run ELSE ""],
             called <- calls

(* Over all runs, resets, retries and late attempts a decision is taken by  *)
(* one run, for good, and reaches the adapter once (SECURITY.md: "One       *)
(* execution per ingress decision").                                        *)
ExecutesOnce == Once!Spec

(* The saga touches the execution_claims table only through the store's two *)
(* conditional writes, as a complete owner, so whatever holds of the store  *)
(* for arbitrary callers holds for the runs.                                *)
UsesStore == StoreSpec

(* Every run comes to an end, whatever fails, restarts or is cancelled.     *)
RunsClose == \A r \in Runs : loc[r].pc = "verify" ~> loc[r].pc = "closed"
=============================================================================
