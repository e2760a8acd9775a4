---------------------------- MODULE SagaClaimProofs ----------------------------
(***************************************************************************)
(* Proofs about the claim a run holds, or does not: a run that was refused *)
(* the decision does not hold it, as long as no attempt of it times out    *)
(* while it runs; and as long as no run is reset, a run that reports a     *)
(* failed fence speaks for every run, and an effect is compensated at most *)
(* once.                                                                   *)
(***************************************************************************)
EXTENDS SagaOutcomeProofs

-----------------------------------------------------------------------------
(* The inductive invariants. *)

(* A claim that was given up on belongs to a run that ends. *)
LateClaimsEnd ==
    \A op \in late :
        op.kind = "claim" =>
            \/ loc[op.run].pc \in {"release", "closed"}
            \/ loc[op.run].pc \in {"claim", "claim_read"} /\ loc[op.run].cancelled = TRUE

RefusalInv == RunsInv /\ LateClaimsEnd /\ RefusedDoesNotHold

(* Without a dispatch of its own, and at or before it with the claim. *)
TowardsPcs == (EarlyPcs \ {"dispatch"}) \cup {"new", "release"}
HolderPcs == {"evaluate", "record_decision", "audit_pass", "dispatch"}

Holds(r) == claims[Dec(r)].owner = Owner(r) /\ claims[Dec(r)].state # "RELEASED"

(* A run holds its claim from the claim on, so its fence is never refused.  *)
HolderParts ==
    /\ \A r \in Runs : loc[r].pc \in HolderPcs => Holds(r)
    /\ \A r \in Runs : loc[r].pc \in EarlyPcs \cup {"new"} => LateOf(r, "advance") = {}
    /\ \A r \in Runs : loc[r].pc \in TowardsPcs => disp[r].at = "none"
    /\ \A r \in Runs : loc[r].pc \in TowardsPcs \cup {"dispatch"} => disp[r].kind # "REJECTED"
    /\ \A r \in Runs : loc[r].pc # "release_rejected"

HolderInv == RunsInv /\ HolderParts

-----------------------------------------------------------------------------
(* Who writes the claims, and who moves. *)

(* An attempt of a run, under way or late, or the fence of a dispatch.      *)
WritesClaims ==
    \/ claims' = claims
    \/ \E op \in late : Writes(op)
    \/ \E r \in Runs : loc[r].pc \in ActivityPcs /\ Writes(Attempt(r))
    \/ \E r \in Runs : /\ disp[r].at = "started" /\ disp'[r].at \notin {"none", "started"}
                      /\ claims' = AdvanceWrite(Dec(r), Owner(r), "EXECUTING")

(* Nobody. *)
Rests == UNCHANGED workflowVars /\ late' \subseteq late

(* An attempt takes effect or is given up on, and a compensation is         *)
(* attempted once: who is still at it did not attempt it.                   *)
AttemptsOnce(r, m) ==
    /\ late' = late \/ compensations' = compensations
    /\ loc[r].pc = "compensate" /\ m.pc = "compensate" => late' = late /\ compensations' = compensations

(* The first open run of its workflow, at its start. *)
Alone(s, k) ==
    /\ k.pc = "verify" /\ late' = late
    /\ \A t \in Runs \ {s} : loc'[t] = loc[t] /\ (Open(t) => work[t] # work'[s])

LEMMA RunStepWrites ==
    ASSUME FenceInv, NEW r \in Runs, NEW m, RunStep(r, m)
    PROVE  WritesClaims
<1>1. CASE UNCHANGED <<storeVars, adapterVars>>
  BY <1>1 DEF storeVars, WritesClaims
<1>2. CASE loc[r].pc \in ActivityPcs /\ TakesEffect(Attempt(r))
  BY <1>2, WritesLemma DEF WritesClaims
<1> QED BY <1>1, <1>2 DEF RunStep

LEMMA RestingSteps ==
    ASSUME FenceInv,
           \/ \E r \in Runs : DispatchStep(r) \/ FenceWriteFails(r)
           \/ \E op \in late : LateAttempt(op)
           \/ WorkerRestart \/ ReloadPolicy \/ UNCHANGED vars
    PROVE  Rests /\ WritesClaims
<1>1. ASSUME NEW r \in Runs, AcquireFence(r) \/ FenceWriteFails(r) PROVE Rests /\ WritesClaims
  <2>1. /\ disp[r].at = "started" /\ UNCHANGED <<workflowVars, late>>
        /\ claims' = claims \/ claims' = AdvanceWrite(Dec(r), Owner(r), "EXECUTING")
    BY <1>1 DEF AcquireFence, FenceWriteFails
  <2>2. disp \in [Runs -> [at : DispatchStages, kind : ResultKinds, outcome : Outcomes]]
    BY DEF FenceInv, TypeOK
  <2>3. disp'[r].at \notin {"none", "started"}
    BY <1>1, <2>2 DEF AcquireFence, FenceWriteFails, DispatchGoes, DispatchEnds
  <2> QED BY <2>1, <2>3 DEF Rests, WritesClaims
<1>2. ASSUME NEW r \in Runs, StartDispatch(r) \/ ReadFencedClaim(r) \/ CallAdapter(r) PROVE Rests /\ WritesClaims
  BY <1>2 DEF StartDispatch, ReadFencedClaim, CallAdapter, storeVars, Rests, WritesClaims
<1>3. ASSUME NEW op \in late, LateAttempt(op) PROVE Rests /\ WritesClaims
  <2>1. TakesEffect(op) /\ UNCHANGED workflowVars /\ late' \subseteq late
    BY <1>3 DEF LateAttempt
  <2> QED BY <2>1, WritesLemma DEF Rests, WritesClaims
<1>4. WorkerRestart \/ ReloadPolicy \/ UNCHANGED vars => Rests /\ WritesClaims
  BY DEF WorkerRestart, ReloadPolicy, vars, storeVars, Rests, WritesClaims
<1> QED BY <1>1, <1>2, <1>3, <1>4 DEF DispatchStep

LEMMA CompensationAttempt ==
    ASSUME FenceInv, NEW r \in Runs, NEW m, loc' = [loc EXCEPT ![r] = m],
           \/ WorkflowStep(r) \/ AttemptFails(r) \/ AttemptTimesOut(r)
           \/ RoundLasts(r) \/ Cancel(r) \/ Terminate(r)
    PROVE  AttemptsOnce(r, m)
<1>10. late' = late \/ compensations' = compensations
  <2>1. CASE WorkflowStep(r)
    BY <2>1 DEF WorkflowStep, VerifyIngressDecision, ClaimDecision, ReadHeldClaim, EvaluateExecution,
                RecordDecision, RecordAuditTrail, AdvanceExecutionClaim, ReconcileDispatch, WaitEnds,
                RevertStateCompensation, CancelledWait, DispatchReturns, DispatchTimesOut, Completes
  <2>2. CASE AttemptFails(r)
    BY <2>2 DEF AttemptFails
  <2>3. CASE AttemptTimesOut(r) \/ RoundLasts(r) \/ Cancel(r) \/ Terminate(r)
    BY <2>3 DEF AttemptTimesOut, RoundLasts, Cancel, Terminate, adapterVars
  <2> QED BY <2>1, <2>2, <2>3
<1> SUFFICES ASSUME loc[r].pc = "compensate", m.pc = "compensate"
             PROVE  late' = late /\ compensations' = compensations
  BY <1>10 DEF AttemptsOnce
<1>0. loc \in [Runs -> Locs] /\ loc[r] \in Locs
  BY DEF FenceInv, TypeOK
<1>1. ASSUME NEW x, loc' = [loc EXCEPT ![r] = x] PROVE x.pc = "compensate"
  <2>1. loc'[r] = x /\ loc'[r] = m
    BY <1>0, <1>1
  <2> QED BY <2>1
<1>2. ASSUME NEW ok \in BOOLEAN PROVE After(loc[r], ok).pc # "compensate"
  <2>1. Follows(loc[r], After(loc[r], ok), ok)
    BY <1>0, AfterFlow
  <2> QED BY <2>1 DEF Follows, CompensatedPcs
<1>3. ~RevertStateCompensation(r)
  BY <1>2, <1>1 DEF RevertStateCompensation, Completes, GoesTo
<1>4. ~WorkflowStep(r)
  BY <1>3 DEF WorkflowStep, VerifyIngressDecision, ClaimDecision, ReadHeldClaim, EvaluateExecution,
              RecordDecision, RecordAuditTrail, AdvanceExecutionClaim, ReconcileDispatch, WaitEnds,
              CancelledWait, DispatchReturns, DispatchTimesOut, Awaits, CancellablePcs,
              DecisionPcs, AuditPcs, AdvancePcs
<1>5. RetryOrFail(r) = After(loc[r], FALSE)
  <2>1. loc[r].tries \in Nat
    BY <1>0 DEF Locs
  <2>2. ~(loc[r].tries + 1 < AttemptsAt(loc[r].pc))
    BY <2>1 DEF AttemptsAt
  <2> QED BY <2>2 DEF RetryOrFail
<1>6. ~AttemptFails(r) /\ ~AttemptTimesOut(r)
  BY <1>2, <1>5, <1>1 DEF AttemptFails, AttemptTimesOut, GoesTo
<1>7. ~RoundLasts(r)
  BY DEF RoundLasts
<1>8. ~Terminate(r)
  BY <1>1, ExitFlow DEF Terminate
<1>9. Cancel(r) => late' = late /\ compensations' = compensations
  BY DEF Cancel, CancellablePcs, adapterVars
<1> QED BY <1>4, <1>6, <1>7, <1>8, <1>9

(* Every step is of one of three shapes. *)
LEMMA StepShapes ==
    ASSUME RunsInv, [Next]_vars
    PROVE  \/ \E r \in Runs : \E m : Leads(r, m) /\ RunStep(r, m) /\ WritesClaims /\ AttemptsOnce(r, m)
           \/ /\ Rests /\ WritesClaims
              /\ \/ \E r \in Runs : DispatchStep(r) \/ FenceWriteFails(r)
                 \/ \E op \in late : LateAttempt(op)
                 \/ disp' = disp /\ compensations' = compensations /\ late' = late
                 \/ WorkerRestart
           \/ \E s \in Runs : \E k : Begins(s, k) /\ compensations' = compensations
                                  /\ ("reset" \in Events \/ Alone(s, k))
<1>0. FenceInv
  BY DEF RunsInv
<1>1. ASSUME NEW r \in Runs, \/ WorkflowStep(r) \/ AttemptFails(r) \/ AttemptTimesOut(r)
                             \/ RoundLasts(r) \/ Cancel(r) \/ Terminate(r)
      PROVE  \E m : Leads(r, m) /\ RunStep(r, m) /\ WritesClaims /\ AttemptsOnce(r, m)
  <2>1. PICK m : Leads(r, m) /\ RunStep(r, m)
    BY <1>0, <1>1, WorkflowRunStep, DisturbanceRunStep
  <2>2. loc' = [loc EXCEPT ![r] = m]
    BY <2>1 DEF RunStep
  <2>3. AttemptsOnce(r, m)
    BY <1>0, <1>1, <2>2, CompensationAttempt
  <2> QED BY <1>0, <2>1, <2>3, RunStepWrites
<1>2. ASSUME NEW r \in Runs, NEW s \in Runs, NEW l \in past[r], Reset(r, s, l)
      PROVE  \E k : Begins(s, k) /\ compensations' = compensations /\ "reset" \in Events
  <2>1. compensations' = compensations /\ "reset" \in Events
    BY <1>2 DEF Reset, adapterVars
  <2> QED BY <1>2, <2>1, ResetBegins
<1>3. ASSUME NEW r \in Runs, NEW w \in Workflows, NEW q \in Requests, StartWorkflow(r, w, q)
      PROVE  \E k : Begins(r, k) /\ compensations' = compensations /\ Alone(r, k)
  <2>1. loc \in [Runs -> Locs] /\ loc' = [loc EXCEPT ![r].pc = "verify"] /\ work \in [Runs -> Workflows \cup {""}]
    BY <1>0, <1>3 DEF FenceInv, TypeOK, StartWorkflow
  <2>2. PICK k : k = loc'[r]
    OBVIOUS
  <2>3. k.pc = "verify" /\ work'[r] = w /\ compensations' = compensations
    BY <1>3, <2>1, <2>2 DEF Locs, StartWorkflow, adapterVars
  <2>4. Alone(r, k)
    BY <1>3, <2>1, <2>3 DEF StartWorkflow, Alone
  <2> QED BY <1>3, <2>2, <2>3, <2>4, StartBegins
<1>4. ASSUME NEW r \in Runs, DispatchStep(r) \/ FenceWriteFails(r) PROVE Rests /\ WritesClaims
  BY <1>0, <1>4, RestingSteps
<1>5. ASSUME NEW op \in late, LateAttempt(op) PROVE Rests /\ WritesClaims
  BY <1>0, <1>5, RestingSteps
<1>6. ASSUME WorkerRestart \/ ReloadPolicy \/ UNCHANGED vars
      PROVE  /\ Rests /\ WritesClaims
             /\ (disp' = disp /\ compensations' = compensations /\ late' = late) \/ WorkerRestart
  <2>1. Rests /\ WritesClaims
    BY <1>0, <1>6, RestingSteps
  <2> QED BY <1>6, <2>1 DEF ReloadPolicy, vars, adapterVars
<1> QED BY <1>1, <1>2, <1>3, <1>4, <1>5, <1>6 DEF Next, Disturbance

(* A claim becomes a run's own only by its own attempt. *)
LEMMA HeldStep ==
    ASSUME FenceInv, WritesClaims, NEW r \in Runs, loc[r].pc # "new", NEW d \in Decisions,
           claims'[d] = [state |-> "CLAIMED", owner |-> Owner(r)]
    PROVE  HeldBy(d, Owner(r)) \/ loc[r].pc = "claim" \/ LateOf(r, "claim") # {}
<1>0. ClaimsTypeOK /\ claims[d] \in Claims
  BY DEF FenceInv, TypeOK, ClaimsTypeOK
<1>1. ASSUME NEW op, Writes(op), op.run \in Runs, op.kind = "claim" => op.run # r,
             op.kind = "advance" => op.input # "CLAIMED"
      PROVE  HeldBy(d, Owner(r))
  <2>1. CASE claims'[d] = claims[d]
    BY <2>1 DEF HeldBy
  <2>2. CASE op.kind = "claim" /\ claims'[d] = [state |-> "CLAIMED", owner |-> Owner(op.run)]
    <3>1. Owner(op.run).run = op.run /\ Owner(r).run = r
      BY DEF Owner
    <3> QED BY <1>1, <2>2, <3>1
  <2>3. CASE op.kind = "advance" /\ claims'[d] = [claims[d] EXCEPT !.state = op.input]
    <3>1. claims'[d].state = op.input
      BY <1>0, <2>3 DEF Claims, NoClaim
    <3> QED BY <1>1, <2>3, <3>1
  <2> QED BY <1>1, <2>1, <2>2, <2>3 DEF Writes
<1>2. ASSUME NEW op \in late, Writes(op) PROVE HeldBy(d, Owner(r)) \/ LateOf(r, "claim") # {}
  <2>1. op.run \in Runs /\ (op.kind = "advance" => op.input # "CLAIMED")
    BY DEF FenceInv, TypeOK, LateAttempts
  <2> QED BY <1>1, <1>2, <2>1 DEF LateOf
<1>3. ASSUME NEW t \in Runs, loc[t].pc \in ActivityPcs, Writes(Attempt(t))
      PROVE  HeldBy(d, Owner(r)) \/ loc[r].pc = "claim"
  <2>1. Attempt(t).run = t /\ (Attempt(t).kind = "claim" => loc[t].pc = "claim")
    BY <1>3, AttemptIs
  <2>2. Attempt(t).kind = "advance" => Attempt(t).input # "CLAIMED"
    BY <1>3, AttemptIs DEF AdvanceTo
  <2> QED BY <1>1, <1>3, <2>1, <2>2
<1>4. ASSUME NEW t \in Runs, disp[t].at = "started", claims' = AdvanceWrite(Dec(t), Owner(t), "EXECUTING")
      PROVE  HeldBy(d, Owner(r))
  <2>1. Dec(t) \in Decisions /\ "EXECUTING" \in ClaimStates
    BY <1>4, StartedLemma DEF ClaimStates
  <2>2. claims'[d] = claims[d] \/ claims'[d] = [claims[d] EXCEPT !.state = "EXECUTING"]
    BY <1>0, <1>4, <2>1, AdvanceWriteLemma
  <2>3. claims'[d] = claims[d]
    BY <1>0, <2>2 DEF Claims, NoClaim
  <2> QED BY <2>3 DEF HeldBy
<1> QED BY <1>2, <1>3, <1>4 DEF WritesClaims, HeldBy

-----------------------------------------------------------------------------
(* A refused run does not hold the claim. *)

LEMMA LateClaimsStep ==
    ASSUME RefusalInv, "timeout" \notin Events, NEW r \in Runs, NEW m, Leads(r, m), RunStep(r, m)
    PROVE  LateClaimsEnd'
<1> SUFFICES ASSUME NEW op \in late', op.kind = "claim"
             PROVE  \/ loc'[op.run].pc \in {"release", "closed"}
                    \/ loc'[op.run].pc \in {"claim", "claim_read"} /\ loc'[op.run].cancelled = TRUE
  BY DEF LateClaimsEnd
<1>0. FenceInv /\ LateClaimsEnd
  BY DEF RefusalInv, RunsInv
<1>1. Stepped(r, m)
  BY <1>0, SteppedLemma
<1>2. loc'[r] = m /\ m \in Locs /\ loc[r].pc # "closed" /\ \A s \in Runs \ {r} : loc'[s] = loc[s]
  BY <1>1 DEF Stepped, Leads
<1>3. CASE op \in late
  <2>1. /\ op.run \in Runs
        /\ \/ loc[op.run].pc \in {"release", "closed"}
           \/ loc[op.run].pc \in {"claim", "claim_read"} /\ loc[op.run].cancelled = TRUE
    BY <1>0, <1>3 DEF LateClaimsEnd, FenceInv, TypeOK, LateAttempts
  <2>2. CASE op.run # r
    BY <1>2, <2>1, <2>2
  <2>3. CASE op.run = r
    <3>1. loc[r].pc = "release" => m.pc \in {"release", "closed"}
      BY DEF Leads, LeadsLate
    <3>2. loc[r].pc \in {"claim", "claim_read"} /\ loc[r].cancelled => m.pc \in {"release", "closed"}
      BY DEF Leads, LeadsEarly
    <3> QED BY <1>2, <2>1, <2>3, <3>1, <3>2
  <2> QED BY <2>2, <2>3
<1>4. CASE op \notin late
  <2>1. /\ op = Attempt(r) /\ loc[r].pc \in ActivityPcs
        /\ m.pc = "closed" \/ (m.cancelled /\ m.pc = loc[r].pc)
    BY <1>4 DEF RunStep
  <2>2. op.run = r /\ loc[r].pc = "claim"
    BY <2>1, AttemptIs
  <2>3. m.cancelled \in BOOLEAN
    BY <1>2 DEF Locs
  <2> QED BY <1>2, <2>1, <2>2, <2>3
<1> QED BY <1>3, <1>4

(* A run does not come to hold what it was refused. *)
LEMMA NotHeldStep ==
    ASSUME RefusalInv, WritesClaims, NEW u \in Runs, loc[u].pc \in {"rej_decision", "rej_audit", "claim_read"},
           loc[u].cancelled = FALSE \/ loc[u].pc # "claim_read", ~HeldBy(Dec(u), Owner(u))
    PROVE  claims'[Dec(u)] # [state |-> "CLAIMED", owner |-> Owner(u)]
<1>1. FenceInv /\ LateClaimsEnd
  BY DEF RefusalInv, RunsInv
<1>2. Dec(u) \in Decisions
  BY <1>1, StartedLemma
<1>3. LateOf(u, "claim") = {}
  BY <1>1 DEF LateOf, LateClaimsEnd
<1> QED BY <1>1, <1>2, <1>3, HeldStep

LEMMA RefusedStep ==
    ASSUME RefusalInv, NEW r \in Runs, NEW m, Leads(r, m), RunStep(r, m), WritesClaims
    PROVE  RefusedDoesNotHold'
<1> SUFFICES ASSUME NEW u \in Runs, loc'[u].pc \in {"rej_decision", "rej_audit"},
                    loc'[u].exit = "EXECUTION_CLAIM_REJECTED"
             PROVE  ~HeldBy(Dec(u), Owner(u))'
  BY DEF RefusedDoesNotHold
<1>0. FenceInv /\ RefusedDoesNotHold /\ loc[r] \in Locs
  BY DEF RefusalInv, RunsInv, FenceInv, TypeOK
<1>1. Stepped(r, m)
  BY <1>0, SteppedLemma
<1>2. /\ loc'[r] = m /\ work' = work /\ request' = request
      /\ \A s \in Runs \ {r} : loc'[s] = loc[s]
  BY <1>1 DEF Stepped
<1>3. CASE u # r
  <2>1. loc'[u] = loc[u] /\ Dec(u)' = Dec(u) /\ Owner(u)' = Owner(u)
    BY <1>2, <1>3 DEF Dec, Owner
  <2>2. ~HeldBy(Dec(u), Owner(u))
    BY <1>0, <2>1 DEF RefusedDoesNotHold
  <2>3. claims'[Dec(u)] # [state |-> "CLAIMED", owner |-> Owner(u)]
    BY <2>1, <2>2, NotHeldStep
  <2> QED BY <2>1, <2>3 DEF HeldBy
<1>4. CASE u = r
  <2>1. m.token = loc[r].token
    BY <1>2, <1>4 DEF Leads
  <2>2. Dec(u)' = Dec(u) /\ Owner(u)' = Owner(u)
    BY <1>2, <1>4, <2>1 DEF Dec, Owner
  <2>3. \/ loc[r].pc \in {"rej_decision", "rej_audit"} /\ loc[r].exit = "EXECUTION_CLAIM_REJECTED"
        \/ loc[r].pc = "claim_read" /\ ~HeldBy(Dec(r), Owner(r))
    BY <1>2, <1>4 DEF Leads, LeadsEarly
  <2>4. ~(loc[r].pc = "claim_read" /\ loc[r].cancelled)
    BY <1>2, <1>4 DEF Leads, LeadsEarly
  <2>5. loc[r].cancelled \in BOOLEAN
    BY <1>0 DEF Locs
  <2>6. ~HeldBy(Dec(u), Owner(u))
    BY <1>0, <1>4, <2>3 DEF RefusedDoesNotHold
  <2>7. claims'[Dec(u)] # [state |-> "CLAIMED", owner |-> Owner(u)]
    BY <1>4, <2>3, <2>4, <2>5, <2>6, NotHeldStep
  <2> QED BY <2>2, <2>7 DEF HeldBy
<1> QED BY <1>3, <1>4

LEMMA RefusalRests ==
    ASSUME RefusalInv, Rests, WritesClaims
    PROVE  LateClaimsEnd' /\ RefusedDoesNotHold'
<1>0. LateClaimsEnd /\ RefusedDoesNotHold
  BY DEF RefusalInv
<1>1. loc' = loc /\ work' = work /\ request' = request /\ late' \subseteq late
  BY DEF Rests, workflowVars
<1>2. LateClaimsEnd'
  BY <1>0, <1>1 DEF LateClaimsEnd
<1>3. ASSUME NEW u \in Runs, loc'[u].pc \in {"rej_decision", "rej_audit"},
             loc'[u].exit = "EXECUTION_CLAIM_REJECTED"
      PROVE  ~HeldBy(Dec(u), Owner(u))'
  <2>1. loc'[u] = loc[u] /\ Dec(u)' = Dec(u) /\ Owner(u)' = Owner(u)
    BY <1>1 DEF Dec, Owner
  <2>2. ~HeldBy(Dec(u), Owner(u))
    BY <1>0, <1>3, <2>1 DEF RefusedDoesNotHold
  <2>3. claims'[Dec(u)] # [state |-> "CLAIMED", owner |-> Owner(u)]
    BY <1>3, <2>1, <2>2, NotHeldStep
  <2> QED BY <2>1, <2>3 DEF HeldBy
<1> QED BY <1>2, <1>3 DEF RefusedDoesNotHold

(* No claim names a run that has not started. *)
LEMMA NewOwnsNothing ==
    ASSUME RunsInv, NEW s \in Runs, loc[s].pc = "new", NEW d \in Decisions, claims[d].state # "NONE"
    PROVE  claims[d].owner.run # s
<1>1. PICK t \in Runs : claims[d].owner = Owner(t) /\ Own(t)
  BY DEF RunsInv, OwnersAreRuns
<1>2. t # s
  BY <1>1, NewHasNoToken DEF RunsInv
<1> QED BY <1>1, <1>2 DEF Owner

LEMMA RefusalBegins ==
    ASSUME RefusalInv, NEW s \in Runs, NEW k, Begins(s, k), RunsInv'
    PROVE  LateClaimsEnd' /\ RefusedDoesNotHold'
<1>0. FenceInv /\ LateClaimsEnd /\ RefusedDoesNotHold /\ RunsInv
  BY DEF RefusalInv, RunsInv
<1>1. /\ loc[s].pc = "new" /\ claims' = claims
      /\ \A u \in Runs \ {s} :
            work'[u] = work[u] /\ request'[u] = request[u] /\ (loc'[u] = loc[u] \/ Closes(u))
  BY DEF Begins
<1>2. ASSUME NEW op \in late', op.kind = "claim"
      PROVE  \/ loc'[op.run].pc \in {"release", "closed"}
             \/ loc'[op.run].pc \in {"claim", "claim_read"} /\ loc'[op.run].cancelled = TRUE
  <2>1. CASE op \in late /\ op.run # s
    <3>1. op.run \in Runs
      BY <1>0, <2>1 DEF FenceInv, TypeOK, LateAttempts
    <3>2. CASE loc'[op.run] = loc[op.run]
      BY <1>0, <1>2, <2>1, <3>2 DEF LateClaimsEnd
    <3>3. CASE Closes(op.run)
      BY <3>3 DEF Closes
    <3> QED BY <1>1, <2>1, <3>1, <3>2, <3>3
  <2>2. CASE \E u \in Runs \ {s} : op.run = u /\ Closes(u)
    BY <2>2 DEF Closes
  <2> QED BY <1>0, <2>1, <2>2, BeginsLate
<1>3. ASSUME NEW u \in Runs, loc'[u].pc \in {"rej_decision", "rej_audit"},
             loc'[u].exit = "EXECUTION_CLAIM_REJECTED"
      PROVE  ~HeldBy(Dec(u), Owner(u))'
  <2>1. CASE u # s
    <3>1. loc'[u] = loc[u] /\ work'[u] = work[u] /\ request'[u] = request[u]
      BY <1>1, <1>3, <2>1 DEF Closes
    <3>2. ~HeldBy(Dec(u), Owner(u))
      BY <1>0, <1>3, <3>1 DEF RefusedDoesNotHold
    <3> QED BY <1>1, <3>1, <3>2 DEF HeldBy, Dec, Owner
  <2>2. CASE u = s
    <3>1. PICK d \in Decisions : d = Dec(s)'
      <4>1. Dec(s)' \in Decisions
        BY <1>3, <2>2, RequestsAssumption DEF RunsInv, FenceInv, TypeOK, Dec
      <4> QED BY <4>1
    <3>2. HeldBy(Dec(s), Owner(s))' => claims[d].state = "CLAIMED" /\ claims[d].owner.run = s
      BY <1>1, <3>1 DEF HeldBy, Owner
    <3>3. claims[d].state # "NONE" => claims[d].owner.run # s
      BY <1>0, <1>1, NewOwnsNothing
    <3> QED BY <2>2, <3>2, <3>3
  <2> QED BY <2>1, <2>2
<1> QED BY <1>2, <1>3 DEF LateClaimsEnd, RefusedDoesNotHold

LEMMA RefusalInit == Init => RefusalInv
<1> SUFFICES ASSUME Init PROVE RefusalInv
  OBVIOUS
<1>1. late = {} /\ \A r \in Runs : loc[r].pc = "new"
  BY DEF Init, NewLoc
<1>2. LateClaimsEnd /\ RefusedDoesNotHold
  BY <1>1 DEF LateClaimsEnd, RefusedDoesNotHold
<1> QED BY <1>2, RunsInit DEF RefusalInv

LEMMA RefusalStep ==
    ASSUME RefusalInv, [Next]_vars, "timeout" \notin Events
    PROVE  RefusalInv'
<1>0. RunsInv /\ RunsInv'
  BY RunsStep DEF RefusalInv
<1>1. ASSUME NEW r \in Runs, NEW m, Leads(r, m), RunStep(r, m), WritesClaims
      PROVE  LateClaimsEnd' /\ RefusedDoesNotHold'
  BY <1>1, LateClaimsStep, RefusedStep
<1>2. Rests /\ WritesClaims => LateClaimsEnd' /\ RefusedDoesNotHold'
  BY RefusalRests
<1>3. ASSUME NEW s \in Runs, NEW k, Begins(s, k) PROVE LateClaimsEnd' /\ RefusedDoesNotHold'
  BY <1>0, <1>3, RefusalBegins
<1>4. LateClaimsEnd' /\ RefusedDoesNotHold'
  <2>1. CASE \E r \in Runs : \E m : Leads(r, m) /\ RunStep(r, m) /\ WritesClaims /\ AttemptsOnce(r, m)
    BY <1>1, <2>1
  <2>2. CASE \E s \in Runs : \E k : Begins(s, k)
    BY <1>3, <2>2
  <2> QED BY <1>0, <1>2, <2>1, <2>2, StepShapes
<1> QED BY <1>0, <1>4 DEF RefusalInv

(* A run whose claim was refused does not hold the decision, whatever is    *)
(* lost, cancelled, terminated, reset or restarted, as long as no attempt   *)
(* outlives its timeout: then a claim given up on belongs to a run that     *)
(* only releases, and a repeated claim finds what its predecessor wrote.    *)
(* With such timeouts the claim of an earlier attempt may arrive after the  *)
(* refusal.                                                                 *)
THEOREM RefusedStaysOut ==
    ASSUME "timeout" \notin Events
    PROVE  Spec => []RefusedDoesNotHold
<1>1. RefusalInv /\ [Next]_vars => RefusalInv'
  BY RefusalStep
<1>2. RefusalInv => RefusedDoesNotHold
  BY DEF RefusalInv
<1> QED BY <1>1, <1>2, RefusalInit, PTL DEF Spec

-----------------------------------------------------------------------------
(* A run that is not reset keeps its claim until it gives it up. *)

LEMMA HoldingStep ==
    ASSUME FenceInv, WritesClaims, NEW r \in Runs, loc[r].pc # "new", loc[r].pc \notin AdvancePcs,
           LateOf(r, "advance") = {}, Holds(r)
    PROVE  claims'[Dec(r)].owner = Owner(r) /\ claims'[Dec(r)].state # "RELEASED"
<1>0. PICK d \in Decisions : d = Dec(r)
  BY StartedLemma
<1>1. ClaimsTypeOK /\ claims[d] \in Claims /\ claims[d].owner = Owner(r) /\ claims[d].state # "RELEASED"
  BY <1>0 DEF FenceInv, TypeOK, ClaimsTypeOK, Holds
<1>2. claims[d] # NoClaim
  <2>1. NoOwner.run = "" /\ Owner(r).run = r /\ NoClaim.owner = NoOwner
    BY DEF NoOwner, Owner, NoClaim
  <2> QED BY <1>1, <2>1, IdsAssumption
<1>3. claims[d] \in [state : ClaimStates, owner : Owners]
  BY <1>1, <1>2 DEF Claims
<1>4. ~CanClaim(d)
  BY <1>1, <1>3 DEF CanClaim, ClaimStates, FencedStates
<1>5. ASSUME NEW op, Writes(op), op.kind = "advance" => op.run # r PROVE claims'[d] = claims[d]
  <2>1. Owner(op.run).run = op.run /\ Owner(r).run = r
    BY DEF Owner
  <2>2. op.kind = "advance" => ~CanAdvance(d, Owner(op.run), op.input)
    BY <1>1, <1>5, <2>1 DEF CanAdvance
  <2> QED BY <1>4, <1>5, <2>2 DEF Writes
<1>6. ASSUME NEW op \in late, Writes(op) PROVE claims'[d] = claims[d]
  BY <1>5, <1>6 DEF LateOf
<1>7. ASSUME NEW t \in Runs, loc[t].pc \in ActivityPcs, Writes(Attempt(t)) PROVE claims'[d] = claims[d]
  <2>1. Attempt(t).run = t /\ (Attempt(t).kind = "advance" => loc[t].pc \in AdvancePcs)
    BY <1>7, AttemptIs
  <2> QED BY <1>5, <1>7, <2>1
<1>8. ASSUME NEW t \in Runs, disp[t].at = "started", claims' = AdvanceWrite(Dec(t), Owner(t), "EXECUTING")
      PROVE  claims'[d].owner = Owner(r) /\ claims'[d].state # "RELEASED"
  <2>1. Dec(t) \in Decisions /\ "EXECUTING" \in ClaimStates
    BY <1>8, StartedLemma DEF ClaimStates, FencedStates
  <2>2. claims'[d] = claims[d] \/ claims'[d] = [claims[d] EXCEPT !.state = "EXECUTING"]
    BY <1>1, <1>8, <2>1, AdvanceWriteLemma
  <2> QED BY <1>1, <1>3, <2>2
<1>9. claims'[d] = claims[d] \/ (claims'[d].owner = Owner(r) /\ claims'[d].state # "RELEASED")
  BY <1>6, <1>7, <1>8 DEF WritesClaims
<1> QED BY <1>0, <1>1, <1>9

(* The other places a run keeps its claim at. *)
LEMMA HolderKeeps ==
    ASSUME HolderInv, WritesClaims, NEW u \in Runs,
           loc[u].pc \in HolderPcs \/ (loc[u].pc = "claim_read" /\ HeldBy(Dec(u), Owner(u)))
    PROVE  claims'[Dec(u)].owner = Owner(u) /\ claims'[Dec(u)].state # "RELEASED"
<1>1. FenceInv /\ loc[u].pc \in EarlyPcs /\ loc[u].pc # "new" /\ loc[u].pc \notin AdvancePcs
  BY DEF HolderInv, HolderParts, RunsInv, HolderPcs, EarlyPcs, AdvancePcs
<1>2. LateOf(u, "advance") = {}
  BY <1>1 DEF HolderInv, HolderParts
<1>3. HeldBy(Dec(u), Owner(u)) => Holds(u)
  BY DEF HeldBy, Holds
<1>4. Holds(u)
  BY <1>3 DEF HolderInv, HolderParts
<1> QED BY <1>1, <1>2, <1>4, HoldingStep

LEMMA HolderRuns ==
    ASSUME HolderInv, NEW r \in Runs, NEW m, Leads(r, m), RunStep(r, m), WritesClaims
    PROVE  HolderParts'
<1>0. FenceInv
  BY DEF HolderInv, RunsInv
<1>1. Stepped(r, m)
  BY <1>0, SteppedLemma
<1>2. /\ loc'[r] = m /\ work' = work /\ request' = request /\ disp' = disp
      /\ \A s \in Runs \ {r} : loc'[s] = loc[s]
  BY <1>1 DEF Stepped
<1>3. /\ m.pc \in HolderPcs =>
            \/ loc[r].pc \in HolderPcs \/ (loc[r].pc = "claim_read" /\ HeldBy(Dec(r), Owner(r)))
            \/ loc[r].pc = "claim" /\ TakesEffect(Attempt(r)) /\ CanClaim(Dec(r))
      /\ m.pc \in TowardsPcs => loc[r].pc \in TowardsPcs
      /\ m.pc \in TowardsPcs \cup {"dispatch"} => loc[r].pc \in TowardsPcs \cup {"dispatch"}
      /\ m.pc \in EarlyPcs => loc[r].pc \in EarlyPcs
      /\ m.pc # "new"
  BY DEF Leads, LeadsEarly, LeadsLate, EarlyPcs, HolderPcs, TowardsPcs
<1>4. ASSUME NEW u \in Runs, loc'[u].pc \in HolderPcs PROVE Holds(u)'
  <2>1. Dec(u)' = Dec(u) /\ Owner(u)' = Owner(u)
    <3>1. CASE u # r
      BY <1>2, <3>1 DEF Dec, Owner
    <3>2. CASE u = r
      <4>1. m.token = loc[r].token
        BY <1>2, <1>4, <3>2 DEF Leads, HolderPcs
      <4> QED BY <1>2, <3>2, <4>1 DEF Dec, Owner
    <3> QED BY <3>1, <3>2
  <2>2. CASE loc[u].pc \in HolderPcs \/ (loc[u].pc = "claim_read" /\ HeldBy(Dec(u), Owner(u)))
    <3>1. claims'[Dec(u)].owner = Owner(u) /\ claims'[Dec(u)].state # "RELEASED"
      BY <2>2, HolderKeeps
    <3> QED BY <2>1, <3>1 DEF Holds
  <2>3. CASE u = r /\ loc[r].pc = "claim" /\ TakesEffect(Attempt(r)) /\ CanClaim(Dec(r))
    <3>1. loc[r].pc \in ActivityPcs /\ Dec(r) \in Decisions
      BY <1>0, <2>3, StartedLemma DEF ActivityPcs
    <3>2. Writes(Attempt(r)) /\ Attempt(r).kind = "claim" /\ Attempt(r).run = r
      BY <1>0, <2>3, <3>1, WritesLemma, AttemptIs
    <3>3. claims'[Dec(r)] = [state |-> "CLAIMED", owner |-> Owner(r)]
      BY <2>3, <3>1, <3>2 DEF Writes
    <3> QED BY <2>1, <2>3, <3>3 DEF Holds
  <2>4. loc[u].pc \in HolderPcs \/ u = r
    BY <1>2, <1>4
  <2> QED BY <1>2, <1>3, <1>4, <2>2, <2>3, <2>4
<1>5. ASSUME NEW u \in Runs, loc'[u].pc \in EarlyPcs \cup {"new"} PROVE LateOf(u, "advance")' = {}
  <2>1. loc[u].pc \in EarlyPcs \cup {"new"}
    BY <1>2, <1>3, <1>5
  <2>2. LateOf(u, "advance") = {}
    BY <2>1 DEF HolderInv, HolderParts
  <2>3. ASSUME NEW op \in late', op.run = u, op.kind = "advance" PROVE op \in late
    <3>1. CASE op = Attempt(r) /\ loc[r].pc \in ActivityPcs
      <4>1. u = r /\ loc[r].pc \in AdvancePcs
        BY <2>3, <3>1, AttemptIs
      <4> QED BY <2>1, <4>1 DEF AdvancePcs, EarlyPcs
    <3> QED BY <1>1, <3>1 DEF Stepped
  <2> QED BY <2>2, <2>3 DEF LateOf
<1>6. ASSUME NEW u \in Runs
      PROVE  /\ loc'[u].pc \in TowardsPcs => disp'[u].at = "none"
             /\ loc'[u].pc \in TowardsPcs \cup {"dispatch"} => disp'[u].kind # "REJECTED"
  <2>1. /\ loc'[u].pc \in TowardsPcs => loc[u].pc \in TowardsPcs
        /\ loc'[u].pc \in TowardsPcs \cup {"dispatch"} => loc[u].pc \in TowardsPcs \cup {"dispatch"}
    BY <1>2, <1>3
  <2> QED BY <1>2, <2>1 DEF HolderInv, HolderParts
<1>7. ASSUME NEW u \in Runs PROVE loc'[u].pc # "release_rejected"
  <2>1. loc[u].pc # "release_rejected" /\ (loc[u].pc = "dispatch" => disp[u].kind # "REJECTED")
    BY DEF HolderInv, HolderParts
  <2>2. m.pc = "release_rejected" =>
           loc[r].pc = "release_rejected" \/ (loc[r].pc = "dispatch" /\ disp[r].kind = "REJECTED")
    BY DEF Leads, LeadsLate
  <2> QED BY <1>2, <2>1, <2>2
<1> QED BY <1>4, <1>5, <1>6, <1>7 DEF HolderParts

(* The dispatch activity of a run that holds its claim is not refused. *)
LEMMA HolderDispatches ==
    ASSUME HolderInv, NEW t \in Runs, DispatchStep(t) \/ FenceWriteFails(t)
    PROVE  /\ disp[t].at # "none" \/ loc[t].pc = "dispatch"
           /\ \A u \in Runs \ {t} : disp'[u] = disp[u]
           /\ loc[t].pc = "dispatch" => disp'[t].kind # "REJECTED"
<1>0. /\ disp \in [Runs -> [at : DispatchStages, kind : ResultKinds, outcome : Outcomes]]
      /\ loc[t].pc = "dispatch" => Holds(t) /\ disp[t].kind # "REJECTED"
  BY DEF HolderInv, HolderParts, RunsInv, FenceInv, TypeOK, HolderPcs
<1>1. CASE StartDispatch(t)
  BY <1>0, <1>1 DEF StartDispatch, DispatchGoes, Awaits
<1>2. CASE AcquireFence(t)
  BY <1>0, <1>2 DEF AcquireFence, DispatchGoes
<1>3. CASE ReadFencedClaim(t)
  BY <1>0, <1>3 DEF ReadFencedClaim, DispatchEnds, Holds
<1>4. CASE CallAdapter(t)
  BY <1>0, <1>4 DEF CallAdapter, DispatchEnds
<1>5. CASE FenceWriteFails(t)
  BY <1>0, <1>5 DEF FenceWriteFails, DispatchEnds
<1> QED BY <1>1, <1>2, <1>3, <1>4, <1>5 DEF DispatchStep

LEMMA HolderRests ==
    ASSUME HolderInv, Rests, WritesClaims,
           \/ \E r \in Runs : DispatchStep(r) \/ FenceWriteFails(r)
           \/ \E op \in late : LateAttempt(op)
           \/ disp' = disp \/ WorkerRestart
    PROVE  HolderParts'
<1>1. loc' = loc /\ work' = work /\ request' = request /\ late' \subseteq late
  BY DEF Rests, workflowVars
<1>2. ASSUME NEW u \in Runs, loc'[u].pc \in HolderPcs PROVE Holds(u)'
  <2>1. Dec(u)' = Dec(u) /\ Owner(u)' = Owner(u)
    BY <1>1 DEF Dec, Owner
  <2>2. claims'[Dec(u)].owner = Owner(u) /\ claims'[Dec(u)].state # "RELEASED"
    BY <1>1, <1>2, HolderKeeps
  <2> QED BY <2>1, <2>2 DEF Holds
<1>3. ASSUME NEW u \in Runs, loc'[u].pc \in EarlyPcs \cup {"new"} PROVE LateOf(u, "advance")' = {}
  <2>1. LateOf(u, "advance") = {}
    BY <1>1, <1>3 DEF HolderInv, HolderParts
  <2> QED BY <1>1, <2>1 DEF LateOf
<1>4. ASSUME NEW u \in Runs
      PROVE  /\ loc'[u].pc \in TowardsPcs => disp'[u].at = "none"
             /\ loc'[u].pc \in TowardsPcs \cup {"dispatch"} => disp'[u].kind # "REJECTED"
  <2>1. /\ loc'[u].pc = loc[u].pc
        /\ loc[u].pc \in TowardsPcs => disp[u].at = "none"
        /\ loc[u].pc \in TowardsPcs \cup {"dispatch"} => disp[u].kind # "REJECTED"
    BY <1>1 DEF HolderInv, HolderParts
  <2>2. ASSUME NEW t \in Runs, DispatchStep(t) \/ FenceWriteFails(t)
        PROVE  /\ loc[u].pc \in TowardsPcs => disp'[u].at = "none"
               /\ loc[u].pc \in TowardsPcs \cup {"dispatch"} => disp'[u].kind # "REJECTED"
    <3>1. /\ disp[t].at # "none" \/ loc[t].pc = "dispatch"
          /\ \A v \in Runs \ {t} : disp'[v] = disp[v]
          /\ loc[t].pc = "dispatch" => disp'[t].kind # "REJECTED"
      BY <2>2, HolderDispatches
    <3> QED BY <2>1, <3>1 DEF TowardsPcs, EarlyPcs
  <2>3. CASE disp' = disp \/ \E op \in late : LateAttempt(op)
    BY <2>1, <2>3 DEF LateAttempt
  <2>4. CASE WorkerRestart
    <3>1. disp[u] \in [at : DispatchStages, kind : ResultKinds, outcome : Outcomes]
      BY DEF HolderInv, RunsInv, FenceInv, TypeOK
    <3>2. disp'[u] = IF disp[u].at = "none" THEN disp[u] ELSE [disp[u] EXCEPT !.at = "lost"]
      BY <2>4 DEF WorkerRestart
    <3> QED BY <2>1, <3>1, <3>2
  <2> QED BY <2>1, <2>2, <2>3, <2>4
<1>5. \A u \in Runs : loc'[u].pc # "release_rejected"
  BY <1>1 DEF HolderInv, HolderParts
<1> QED BY <1>2, <1>3, <1>4, <1>5 DEF HolderParts

LEMMA HolderBegins ==
    ASSUME HolderInv, NEW s \in Runs, NEW k, Begins(s, k), k.pc = "verify"
    PROVE  HolderParts'
<1>0. FenceInv
  BY DEF HolderInv, RunsInv
<1>1. /\ loc[s].pc = "new" /\ loc'[s].pc = "verify" /\ claims' = claims /\ disp' = disp
      /\ \A u \in Runs \ {s} :
            work'[u] = work[u] /\ request'[u] = request[u] /\ (loc'[u] = loc[u] \/ loc'[u].pc = "closed")
  BY DEF Begins, Closes
<1>2. ASSUME NEW u \in Runs, loc'[u].pc \in HolderPcs PROVE Holds(u)'
  <2>1. u # s /\ loc'[u] = loc[u] /\ work'[u] = work[u] /\ request'[u] = request[u]
    BY <1>1, <1>2 DEF HolderPcs
  <2>2. Holds(u)
    BY <1>2, <2>1 DEF HolderInv, HolderParts
  <2> QED BY <1>1, <2>1, <2>2 DEF Holds, Dec, Owner
<1>3. ASSUME NEW u \in Runs, loc'[u].pc \in EarlyPcs \cup {"new"} PROVE LateOf(u, "advance")' = {}
  <2>1. u = s \/ loc'[u] = loc[u]
    BY <1>1, <1>3 DEF EarlyPcs
  <2>2. LateOf(u, "advance") = {}
    BY <1>1, <1>3, <2>1 DEF HolderInv, HolderParts
  <2>3. ASSUME NEW op \in late', op.run = u PROVE op \in late
    <3>1. CASE \E v \in Runs \ {s} : op.run = v /\ Closes(v)
      BY <1>3, <2>3, <3>1 DEF Closes, EarlyPcs
    <3> QED BY <1>0, <3>1, BeginsLate
  <2> QED BY <2>2, <2>3 DEF LateOf
<1>4. ASSUME NEW u \in Runs
      PROVE  /\ loc'[u].pc \in TowardsPcs => disp'[u].at = "none"
             /\ loc'[u].pc \in TowardsPcs \cup {"dispatch"} => disp'[u].kind # "REJECTED"
  BY <1>1 DEF HolderInv, HolderParts, TowardsPcs, EarlyPcs
<1>5. \A u \in Runs : loc'[u].pc # "release_rejected"
  BY <1>1 DEF HolderInv, HolderParts
<1> QED BY <1>2, <1>3, <1>4, <1>5 DEF HolderParts

LEMMA HolderInit == Init => HolderInv
<1> SUFFICES ASSUME Init PROVE HolderInv
  OBVIOUS
<1>1. late = {} /\ \A r \in Runs : loc[r].pc = "new" /\ disp[r].at = "none" /\ disp[r].kind = "NONE"
  BY DEF Init, NewLoc, NoDispatch
<1> QED BY <1>1, RunsInit DEF HolderInv, HolderParts, HolderPcs, LateOf

LEMMA HolderStep ==
    ASSUME HolderInv, [Next]_vars, "reset" \notin Events
    PROVE  HolderInv'
<1>0. RunsInv /\ RunsInv'
  BY RunsStep DEF HolderInv
<1>1. HolderParts'
  <2>1. CASE \E r \in Runs : \E m : Leads(r, m) /\ RunStep(r, m) /\ WritesClaims /\ AttemptsOnce(r, m)
    BY <2>1, HolderRuns
  <2>2. CASE /\ Rests /\ WritesClaims
             /\ \/ \E r \in Runs : DispatchStep(r) \/ FenceWriteFails(r)
                \/ \E op \in late : LateAttempt(op)
                \/ disp' = disp /\ compensations' = compensations /\ late' = late
                \/ WorkerRestart
    BY <2>2, HolderRests
  <2>3. CASE \E s \in Runs : \E k : Begins(s, k) /\ Alone(s, k)
    BY <2>3, HolderBegins DEF Alone
  <2> QED BY <1>0, <2>1, <2>2, <2>3, StepShapes
<1> QED BY <1>0, <1>1 DEF HolderInv

(* A run comes to say that the fence failed only by releasing its claim. *)
LEMMA FenceFailStep ==
    ASSUME HolderInv, [Next]_vars, "reset" \notin Events, NEW u \in Runs,
           loc'[u].pc = "audit_fence_fail", loc[u].pc # "audit_fence_fail"
    PROVE  calls[Dec(u)] = 0
<1>0. RunsInv /\ FenceInv
  BY DEF HolderInv, RunsInv
<1>1. ASSUME NEW r \in Runs, NEW m, Leads(r, m), RunStep(r, m) PROVE calls[Dec(u)] = 0
  <2>1. loc'[r] = m /\ loc[r].pc # "new" /\ \A s \in Runs \ {r} : loc'[s] = loc[s]
    BY <1>0, <1>1, SteppedLemma DEF Stepped
  <2>2. u = r /\ m.pc = "audit_fence_fail" /\ loc[r].pc # "release_rejected"
    BY <2>1 DEF HolderInv, HolderParts
  <2>3. CanAdvance(Dec(r), Owner(r), "RELEASED")
    BY <1>1, <2>2 DEF Leads, LeadsLate
  <2>4. claims[Dec(r)].state \notin FencedStates
    BY <2>3 DEF CanAdvance, ClaimSources, FencedStates
  <2>5. Dec(r) \in Decisions
    BY <1>0, <2>1, StartedLemma
  <2>6. calls[Dec(r)] \in Nat /\ ~(calls[Dec(r)] > 0)
    BY <1>0, <2>4, <2>5 DEF FenceInv, CallsAreFenced, TypeOK
  <2> QED BY <2>2, <2>6
<1>2. Rests => loc' = loc
  BY DEF Rests, workflowVars
<1>3. ASSUME NEW s \in Runs, NEW k, Begins(s, k), k.pc = "verify" PROVE FALSE
  BY <1>3 DEF Begins, Closes
<1>4. CASE \E r \in Runs : \E m : Leads(r, m) /\ RunStep(r, m) /\ WritesClaims /\ AttemptsOnce(r, m)
  BY <1>1, <1>4
<1>5. CASE \E s \in Runs : \E k : Begins(s, k) /\ Alone(s, k)
  BY <1>3, <1>5 DEF Alone
<1>6. CASE Rests
  BY <1>2, <1>6
<1> QED BY <1>0, <1>4, <1>5, <1>6, StepShapes

(* When a run reports that its fence failed, the change was not dispatched  *)
(* by any run, whatever fails, times out, restarts or is cancelled, as long *)
(* as no run is reset: a run holds its claim from the claim on, so its      *)
(* fence is not refused, and it reports only after it released the claim.   *)
(* A run reset past its claim has no claim, and is refused while the run it *)
(* was reset from may have dispatched.                                      *)
THEOREM FenceFailureIsTrue ==
    ASSUME "reset" \notin Events
    PROVE  Spec => FenceFailMeansNotDispatched
<1>1. HolderInv /\ [Next]_vars => HolderInv'
  BY HolderStep
<1>2. HolderInv /\ [Next]_vars =>
         \A r \in Runs :
            loc'[r].pc = "audit_fence_fail" /\ loc[r].pc # "audit_fence_fail" => calls[Dec(r)] = 0
  BY FenceFailStep
<1> QED BY <1>1, <1>2, HolderInit, PTL DEF Spec, FenceFailMeansNotDispatched

-----------------------------------------------------------------------------
(* Without resets, who fences a decision is the run that is about it. *)

(* A run that has had its claim and has not given it up unused. *)
PastPcs == Pcs \ (UnclaimedPcs \cup {"new", "release", "closed"})

FencedBy(d, r) == claims[d].state \in FencedStates /\ claims[d].owner.run = r

OneOpen == \A r, t \in Runs : Open(r) /\ Open(t) /\ work[r] = work[t] => r = t

(* A run keeps its claim until its dispatch activity fences it. *)
FencesItsClaim ==
    /\ \A r \in Runs :
          (loc[r].pc \in HolderPcs /\ disp[r].at = "none") \/ disp[r].at = "started"
             => HeldBy(Dec(r), Owner(r))
    /\ \A r \in Runs : \A op \in LateOf(r, "advance") : op.input = "RELEASED" => disp[r].at # "started"

(* No other run fences the decision of a run that is past its claim. *)
NobodyElseFences ==
    /\ \A r \in Runs : loc[r].pc \in PastPcs => Own(r)
    /\ \A r, t \in Runs :
          loc[r].pc \in PastPcs /\ disp[t].at = "started" /\ Dec(t) = Dec(r) => t = r
    /\ \A r \in Runs :
          loc[r].pc \in PastPcs /\ claims[Dec(r)].state \in FencedStates => FencedBy(Dec(r), r)

FencingInv == RunsInv /\ HolderParts /\ OneOpen /\ FencesItsClaim /\ NobodyElseFences

(* Decisions name their workflow. *)
LEMMA ValidWorkflow ==
    ASSUME NEW r \in Runs, NEW t \in Runs, Valid(r), Valid(t), Dec(r) = Dec(t)
    PROVE  work[r] = work[t]
<1>1. ASSUME NEW q, NEW w, CheckIngress(q, w) = "VALID" PROVE IngressRecord[q.decision].workflow = w
  <2>1. VerifyIngress(IngressRecord[q.decision], q, w) = "VALID"
    BY <1>1 DEF CheckIngress
  <2> QED BY <2>1 DEF VerifyIngress
<1> QED BY <1>1 DEF Valid, Dec

LEMMA ReleasingIsNotStarted ==
    ASSUME FencingInv, NEW r \in Runs, loc[r].pc \in {"release", "release_rejected", "release_unknown"}
    PROVE  disp[r].at # "started"
<1>1. CASE loc[r].pc = "release"
  BY <1>1 DEF FencingInv, HolderParts, TowardsPcs
<1>2. CASE loc[r].pc \in FencePcs
  BY <1>2 DEF FencingInv, RunsInv, FenceRowsAreTrue, Refused
<1> QED BY <1>1, <1>2 DEF FencePcs

(* The claim of a run that is to fence it. *)
LEMMA HeldKeeps ==
    ASSUME FencingInv, WritesClaims, NEW r \in Runs, HeldBy(Dec(r), Owner(r)),
           \/ disp[r].at = "started"
           \/ loc[r].pc \in HolderPcs \cup {"claim_read"}
    PROVE  claims'[Dec(r)] = claims[Dec(r)] \/ disp'[r].at \notin {"none", "started"}
<1>0. FenceInv /\ loc[r].pc # "new"
  BY StartedLemma DEF FencingInv, RunsInv, HolderPcs
<1>1. PICK d \in Decisions : d = Dec(r)
  BY <1>0, StartedLemma
<1>2. claims[d].state = "CLAIMED" /\ claims[d].owner = Owner(r) /\ ~CanClaim(d)
  BY <1>1 DEF HeldBy, CanClaim
<1>3. /\ loc[r].pc \notin {"release", "release_rejected", "release_unknown"}
      /\ \A op \in LateOf(r, "advance") : op.input # "RELEASED"
  <2>1. CASE disp[r].at = "started"
    BY <2>1, ReleasingIsNotStarted DEF FencingInv, FencesItsClaim
  <2>2. CASE loc[r].pc \in HolderPcs \cup {"claim_read"}
    BY <2>2 DEF FencingInv, HolderParts, HolderPcs, EarlyPcs
  <2> QED BY <2>1, <2>2
<1>4. ASSUME NEW op, Writes(op), op.kind = "advance" => op.run # r \/ op.input \notin {"EXECUTING", "RELEASED"}
      PROVE  claims'[d] = claims[d]
  <2>1. Owner(op.run).run = op.run /\ Owner(r).run = r
    BY DEF Owner
  <2>2. "CLAIMED" \in ClaimSources(op.input) => op.input \in {"EXECUTING", "RELEASED"}
    BY DEF ClaimSources
  <2>3. op.kind = "advance" => ~CanAdvance(d, Owner(op.run), op.input)
    BY <1>2, <1>4, <2>1, <2>2 DEF CanAdvance
  <2> QED BY <1>2, <1>4, <2>3 DEF Writes
<1>5. ASSUME NEW op \in late, Writes(op) PROVE claims'[d] = claims[d]
  <2>1. op.kind = "advance" => op.input # "EXECUTING"
    BY <1>0 DEF FenceInv, TypeOK, LateAttempts
  <2> QED BY <1>3, <1>4, <1>5, <2>1 DEF LateOf
<1>6. ASSUME NEW t \in Runs, loc[t].pc \in ActivityPcs, Writes(Attempt(t)) PROVE claims'[d] = claims[d]
  <2>1. /\ Attempt(t).run = t /\ (Attempt(t).kind = "advance" => loc[t].pc \in AdvancePcs)
        /\ loc[t].pc \in AdvancePcs => Attempt(t).input = AdvanceTo(loc[t].pc)
    BY <1>6, AttemptIs
  <2>2. loc[r].pc \in AdvancePcs => AdvanceTo(loc[r].pc) \notin {"EXECUTING", "RELEASED"}
    BY <1>3 DEF AdvanceTo, AdvancePcs
  <2> QED BY <1>4, <1>6, <2>1, <2>2
<1>7. ASSUME NEW t \in Runs, disp[t].at = "started", t # r,
             claims' = AdvanceWrite(Dec(t), Owner(t), "EXECUTING")
      PROVE  claims'[d] = claims[d]
  <2>1. Owner(t).run = t /\ Owner(r).run = r
    BY DEF Owner
  <2>2. ~CanAdvance(d, Owner(t), "EXECUTING")
    BY <1>2, <1>7, <2>1 DEF CanAdvance
  <2>3. ClaimsTypeOK
    BY <1>0 DEF FenceInv, TypeOK
  <2> QED BY <1>7, <2>2, <2>3 DEF AdvanceWrite, ClaimsTypeOK
<1>8. claims'[d] = claims[d] \/ disp'[r].at \notin {"none", "started"}
  BY <1>5, <1>6, <1>7 DEF WritesClaims
<1> QED BY <1>1, <1>8

(* A decision is fenced by who started to. *)
LEMMA FencedGrows ==
    ASSUME FenceInv, WritesClaims, NEW d \in Decisions, claims'[d].state \in FencedStates
    PROVE  \/ claims[d].state \in FencedStates /\ claims'[d].owner = claims[d].owner
           \/ \E t \in Runs : disp[t].at = "started" /\ Dec(t) = d /\ claims'[d].owner.run = t
<1>0. ClaimsTypeOK /\ claims[d] \in Claims
  BY DEF FenceInv, TypeOK, ClaimsTypeOK
<1>1. claims[d] \in [state : ClaimStates, owner : Owners] \/ claims[d] = NoClaim
  BY <1>0 DEF Claims
<1>2. ASSUME NEW op, Writes(op), op.kind = "advance" => op.input # "EXECUTING"
      PROVE  claims[d].state \in FencedStates /\ claims'[d].owner = claims[d].owner
  <2>1. CASE claims'[d] = claims[d]
    BY <2>1
  <2>2. CASE claims'[d] = [state |-> "CLAIMED", owner |-> Owner(op.run)]
    BY <2>2 DEF FencedStates
  <2>3. CASE /\ op.kind = "advance" /\ claims[d].state \in ClaimSources(op.input)
             /\ claims'[d] = [claims[d] EXCEPT !.state = op.input]
    <3>1. claims'[d].state = op.input /\ claims'[d].owner = claims[d].owner
      BY <1>1, <2>3 DEF NoClaim
    <3>2. claims[d].state \in FencedStates
      BY <1>2, <2>3, <3>1 DEF FencedStates, ClaimSources
    <3> QED BY <3>1, <3>2
  <2> QED BY <1>2, <2>1, <2>2, <2>3 DEF Writes, CanAdvance
<1>3. ASSUME NEW op \in late, Writes(op)
      PROVE  claims[d].state \in FencedStates /\ claims'[d].owner = claims[d].owner
  <2>1. op.kind = "advance" => op.input # "EXECUTING"
    BY DEF FenceInv, TypeOK, LateAttempts
  <2> QED BY <1>2, <1>3, <2>1
<1>4. ASSUME NEW t \in Runs, loc[t].pc \in ActivityPcs, Writes(Attempt(t))
      PROVE  claims[d].state \in FencedStates /\ claims'[d].owner = claims[d].owner
  <2>1. Attempt(t).kind = "advance" => Attempt(t).input # "EXECUTING"
    BY <1>4, AttemptIs DEF AdvanceTo
  <2> QED BY <1>2, <1>4, <2>1
<1>5. ASSUME NEW t \in Runs, disp[t].at = "started", claims' = AdvanceWrite(Dec(t), Owner(t), "EXECUTING")
      PROVE  \/ claims'[d] = claims[d]
             \/ Dec(t) = d /\ claims'[d].owner.run = t
  <2>1. CASE Dec(t) = d /\ CanAdvance(d, Owner(t), "EXECUTING")
    <3>1. claims'[d] = [claims[d] EXCEPT !.state = "EXECUTING"] /\ claims[d].owner = Owner(t)
      BY <1>0, <1>5, <2>1 DEF AdvanceWrite, CanAdvance, ClaimsTypeOK
    <3>2. claims'[d].owner = Owner(t)
      BY <1>1, <3>1 DEF NoClaim
    <3> QED BY <2>1, <3>2 DEF Owner
  <2>2. CASE ~(Dec(t) = d /\ CanAdvance(d, Owner(t), "EXECUTING"))
    BY <1>0, <1>5, <2>2 DEF AdvanceWrite, ClaimsTypeOK
  <2> QED BY <2>1, <2>2
<1> QED BY <1>3, <1>4, <1>5 DEF WritesClaims

(* A run goes past its claim with the claim, and then nobody else is to     *)
(* fence it.                                                                *)
LEMMA EntersHeld ==
    ASSUME FencingInv, NEW r \in Runs, NEW m, Leads(r, m), RunStep(r, m), WritesClaims,
           m.pc \in PastPcs, loc[r].pc \notin PastPcs
    PROVE  /\ Own(r) /\ m.token = loc[r].token
           /\ claims'[Dec(r)] = [state |-> "CLAIMED", owner |-> Owner(r)]
           /\ \A t \in Runs : disp[t].at = "started" /\ Dec(t) = Dec(r) => t = r
<1>0. FenceInv /\ TokensAreDrawn /\ loc[r].pc \in Pcs
  BY DEF FencingInv, RunsInv, FenceInv, TypeOK, Locs
<1>1. loc[r].pc \in UnclaimedPcs \cup {"release"}
  BY <1>0 DEF Leads, PastPcs
<1>2. m.pc \in EarlyPcs \ UnclaimedPcs
  <2>1. loc[r].pc \in UnclaimedPcs => m.pc \in EarlyPcs \cup {"release", "closed"}
    BY DEF Leads, LeadsLate
  <2>2. loc[r].pc = "release" => m.pc \in {"release", "closed"}
    BY DEF Leads, LeadsLate
  <2> QED BY <1>1, <2>1, <2>2 DEF PastPcs
<1>3. /\ m.token = loc[r].token
      /\ \/ loc[r].pc = "claim" /\ TakesEffect(Attempt(r)) /\ CanClaim(Dec(r))
         \/ loc[r].pc = "claim_read" /\ HeldBy(Dec(r), Owner(r))
  BY <1>1, <1>2 DEF Leads, LeadsEarly, EarlyPcs, UnclaimedPcs
<1>4. Own(r) /\ Dec(r) \in Decisions /\ disp' = disp /\ disp[r].at = "none"
  BY <1>0, <1>3, StartedLemma DEF TokensAreDrawn, RunStep, FencingInv, HolderParts, TowardsPcs, EarlyPcs
<1>5. \A t \in Runs : disp[t].at = "started" => HeldBy(Dec(t), Owner(t))
  BY DEF FencingInv, FencesItsClaim
<1>8. ASSUME NEW d, NEW o, HeldBy(d, o) PROVE claims[d].state = "CLAIMED" /\ claims[d].owner = o
  BY <1>8 DEF HeldBy
<1>6. CASE loc[r].pc = "claim" /\ TakesEffect(Attempt(r)) /\ CanClaim(Dec(r))
  <2>1. Writes(Attempt(r)) /\ Attempt(r).kind = "claim" /\ Attempt(r).run = r
    BY <1>0, <1>6, WritesLemma, AttemptIs DEF ActivityPcs
  <2>2. claims'[Dec(r)] = [state |-> "CLAIMED", owner |-> Owner(r)]
    BY <1>4, <1>6, <2>1 DEF Writes
  <2>3. \A t \in Runs : disp[t].at = "started" => ~CanClaim(Dec(t))
    BY <1>5, <1>8 DEF CanClaim
  <2> QED BY <1>3, <1>4, <1>6, <2>2, <2>3
<1>7. CASE loc[r].pc = "claim_read" /\ HeldBy(Dec(r), Owner(r))
  <2>1. claims'[Dec(r)] = [state |-> "CLAIMED", owner |-> Owner(r)]
    BY <1>4, <1>7, HeldKeeps DEF HeldBy
  <2>2. ASSUME NEW t \in Runs, disp[t].at = "started", Dec(t) = Dec(r) PROVE t = r
    <3>1. Owner(t) = Owner(r)
      <4>1. claims[Dec(r)].owner = Owner(r)
        BY <1>7, <1>8
      <4>2. claims[Dec(t)].owner = Owner(t)
        BY <1>5, <1>8, <2>2
      <4> QED BY <2>2, <4>1, <4>2
    <3> QED BY <3>1 DEF Owner
  <2> QED BY <1>3, <1>4, <2>1, <2>2
<1> QED BY <1>3, <1>6, <1>7

LEMMA FencingRuns ==
    ASSUME FencingInv, NEW r \in Runs, NEW m, Leads(r, m), RunStep(r, m), WritesClaims
    PROVE  OneOpen' /\ FencesItsClaim' /\ NobodyElseFences'
<1>0. FenceInv
  BY DEF FencingInv, RunsInv
<1>1. Stepped(r, m)
  BY <1>0, SteppedLemma
<1>2. /\ loc'[r] = m /\ work' = work /\ request' = request /\ disp' = disp
      /\ \A s \in Runs \ {r} : loc'[s] = loc[s]
  BY <1>1 DEF Stepped
<1>3. ASSUME NEW u \in Runs, loc[u].pc # "verify"
      PROVE  Dec(u)' = Dec(u) /\ Owner(u)' = Owner(u) /\ (Own(u)' <=> Own(u))
  <2>1. loc'[u].token = loc[u].token
    BY <1>2, <1>3 DEF Leads
  <2> QED BY <1>2, <2>1 DEF Dec, Owner, Own
<1>4. OneOpen'
  <2>1. \A u \in Runs : Open(u)' => Open(u)
    BY <1>2 DEF Open, Leads
  <2> QED BY <1>2, <2>1 DEF OneOpen, FencingInv
<1>5. ASSUME NEW u \in Runs, loc'[u].pc \in PastPcs, loc[u].pc \in PastPcs \/ u # r
      PROVE  loc[u].pc \in PastPcs /\ loc[u].pc # "verify"
  BY <1>2, <1>5 DEF PastPcs, UnclaimedPcs
<1>6. ASSUME NEW u \in Runs, (loc'[u].pc \in HolderPcs /\ disp'[u].at = "none") \/ disp'[u].at = "started"
      PROVE  HeldBy(Dec(u), Owner(u))'
  <2>1. CASE (loc[u].pc \in HolderPcs /\ disp[u].at = "none") \/ disp[u].at = "started"
    <3>1. HeldBy(Dec(u), Owner(u)) /\ loc[u].pc # "verify"
      BY <2>1 DEF FencingInv, FencesItsClaim, HolderParts, HolderPcs, TowardsPcs, EarlyPcs
    <3>2. claims'[Dec(u)] = claims[Dec(u)]
      BY <1>2, <2>1, <3>1, HeldKeeps
    <3> QED BY <1>3, <3>1, <3>2 DEF HeldBy
  <2>2. CASE u = r /\ m.pc \in HolderPcs /\ loc[r].pc \notin HolderPcs
    <3>1. m.pc \in PastPcs /\ loc[r].pc \notin PastPcs /\ loc[r].pc # "verify"
      <4>1. m.pc \in PastPcs
        BY <2>2 DEF HolderPcs, PastPcs, Pcs, ActivityPcs, AuditPcs, DecisionPcs, UnclaimedPcs
      <4>2. loc[r].pc \in {"claim", "claim_read"}
        BY <2>2 DEF Leads, LeadsEarly, HolderPcs
      <4> QED BY <4>1, <4>2 DEF PastPcs, UnclaimedPcs
    <3>2. claims'[Dec(r)] = [state |-> "CLAIMED", owner |-> Owner(r)]
      BY <3>1, EntersHeld
    <3> QED BY <1>3, <2>2, <3>1, <3>2 DEF HeldBy
  <2> QED BY <1>2, <1>6, <2>1, <2>2
<1>7. ASSUME NEW u \in Runs, NEW op \in LateOf(u, "advance")', op.input = "RELEASED"
      PROVE  disp'[u].at # "started"
  <2>1. CASE op \in late
    BY <1>2, <1>7, <2>1 DEF LateOf, FencingInv, FencesItsClaim
  <2>2. CASE op = Attempt(r) /\ loc[r].pc \in ActivityPcs
    <3>1. op.kind = "advance" /\ op.run = u
      BY <1>7 DEF LateOf
    <3>2. u = r /\ loc[r].pc \in AdvancePcs /\ AdvanceTo(loc[r].pc) = "RELEASED"
      BY <1>7, <2>2, <3>1, AttemptIs
    <3>3. loc[r].pc \in {"release", "release_rejected", "release_unknown"}
      BY <3>2 DEF AdvanceTo, AdvancePcs
    <3> QED BY <1>2, <3>2, <3>3, ReleasingIsNotStarted
  <2> QED BY <1>1, <1>7, <2>1, <2>2 DEF Stepped, LateOf
<1>8. ASSUME NEW u \in Runs, loc'[u].pc \in PastPcs
      PROVE  /\ Own(u)'
             /\ \A t \in Runs : disp'[t].at = "started" /\ Dec(t)' = Dec(u)' => t = u
             /\ claims'[Dec(u)'].state \in FencedStates => FencedBy(Dec(u), u)'
  <2>0. Dec(u)' = Dec(u) /\ \A t \in Runs : Dec(t)' = Dec(t)
    BY <1>2 DEF Dec
  <2>1. CASE loc[u].pc \in PastPcs \/ u # r
    <3>1. loc[u].pc \in PastPcs /\ loc[u].pc # "verify" /\ loc[u].pc # "new"
      BY <1>5, <1>8, <2>1 DEF PastPcs
    <3>2. Own(u)'
      BY <1>3, <3>1 DEF FencingInv, NobodyElseFences
    <3>3. \A t \in Runs : disp'[t].at = "started" /\ Dec(t)' = Dec(u)' => t = u
      BY <1>2, <2>0, <3>1 DEF FencingInv, NobodyElseFences
    <3>4. PICK d \in Decisions : d = Dec(u)
      BY <1>0, <3>1, StartedLemma
    <3>5. claims'[d].state \in FencedStates => claims'[d].owner.run = u
      <4>1. claims[d].state \in FencedStates => claims[d].owner.run = u
        BY <3>1, <3>4 DEF FencingInv, NobodyElseFences, FencedBy
      <4>2. ASSUME NEW t \in Runs, disp[t].at = "started", Dec(t) = d PROVE t = u
        BY <1>2, <2>0, <3>3, <3>4, <4>2
      <4> QED BY <1>0, <4>1, <4>2, FencedGrows
    <3> QED BY <2>0, <3>2, <3>3, <3>4, <3>5 DEF FencedBy
  <2>2. CASE u = r /\ loc[r].pc \notin PastPcs
    <3>1. /\ Own(r) /\ m.token = loc[r].token
          /\ claims'[Dec(r)] = [state |-> "CLAIMED", owner |-> Owner(r)]
          /\ \A t \in Runs : disp[t].at = "started" /\ Dec(t) = Dec(r) => t = r
      BY <1>2, <1>8, <2>2, EntersHeld
    <3>2. Own(u)'
      BY <1>2, <2>2, <3>1 DEF Own
    <3>3. claims'[Dec(u)'].state \notin FencedStates
      BY <2>0, <2>2, <3>1 DEF FencedStates
    <3> QED BY <1>2, <2>0, <2>2, <3>1, <3>2, <3>3
  <2> QED BY <2>1, <2>2
<1>9. FencesItsClaim'
  BY <1>6, <1>7 DEF FencesItsClaim
<1>10. NobodyElseFences'
  BY <1>8 DEF NobodyElseFences
<1> QED BY <1>4, <1>9, <1>10

(* A dispatch activity is started by a run that waits for it. *)
LEMMA DispatchMoves ==
    ASSUME FenceInv, NEW u \in Runs, disp'[u].at \in {"none", "started"},
           \/ \E r \in Runs : DispatchStep(r) \/ FenceWriteFails(r)
           \/ \E op \in late : LateAttempt(op)
           \/ disp' = disp \/ WorkerRestart
    PROVE  \/ disp[u].at = disp'[u].at
           \/ disp[u].at = "none" /\ disp'[u].at = "started" /\ loc[u].pc = "dispatch"
<1>0. disp \in [Runs -> [at : DispatchStages, kind : ResultKinds, outcome : Outcomes]]
  BY DEF FenceInv, TypeOK
<1>1. ASSUME NEW t \in Runs, StartDispatch(t)
      PROVE  \/ disp[u].at = disp'[u].at
             \/ disp[u].at = "none" /\ disp'[u].at = "started" /\ loc[u].pc = "dispatch"
  <2>1. disp[t].at = "none" /\ loc[t].pc = "dispatch" /\ disp' = [disp EXCEPT ![t].at = "started"]
    BY <1>1 DEF StartDispatch, Awaits, DispatchGoes
  <2> QED BY <1>0, <2>1
<1>2. ASSUME NEW t \in Runs, \/ AcquireFence(t) \/ ReadFencedClaim(t) \/ CallAdapter(t) \/ FenceWriteFails(t)
      PROVE  disp[u].at = disp'[u].at
  <2>1. disp'[t].at \notin {"none", "started"}
    <3>1. CASE AcquireFence(t)
      BY <1>0, <3>1 DEF AcquireFence, DispatchGoes
    <3>2. CASE ReadFencedClaim(t) \/ CallAdapter(t) \/ FenceWriteFails(t)
      <4>1. \E kind, outcome : DispatchEnds(t, kind, outcome)
        BY <3>2 DEF ReadFencedClaim, CallAdapter, FenceWriteFails
      <4> QED BY <1>0, <4>1 DEF DispatchEnds
    <3> QED BY <1>2, <3>1, <3>2
  <2>2. \A v \in Runs \ {t} : disp'[v] = disp[v]
    BY <1>0, <1>2 DEF AcquireFence, ReadFencedClaim, CallAdapter, FenceWriteFails, DispatchGoes, DispatchEnds
  <2> QED BY <2>1, <2>2
<1>3. CASE disp' = disp \/ \E op \in late : LateAttempt(op)
  BY <1>3 DEF LateAttempt
<1>4. CASE WorkerRestart
  <2>1. disp'[u] = IF disp[u].at = "none" THEN disp[u] ELSE [disp[u] EXCEPT !.at = "lost"]
    BY <1>4 DEF WorkerRestart
  <2>2. disp[u] \in [at : DispatchStages, kind : ResultKinds, outcome : Outcomes]
    BY <1>0
  <2> QED BY <2>1, <2>2
<1> QED BY <1>1, <1>2, <1>3, <1>4 DEF DispatchStep

(* Two open runs past their claims are not about the same decision. *)
LEMMA PastAlone ==
    ASSUME FencingInv, NEW r \in Runs, NEW t \in Runs,
           loc[r].pc \in PastPcs, loc[t].pc \in PastPcs, Dec(r) = Dec(t)
    PROVE  r = t
<1>1. ASSUME NEW u \in Runs, loc[u].pc \in PastPcs PROVE Valid(u) /\ Open(u)
  <2>1. loc[u].token = u /\ u # ""
    BY <1>1, IdsAssumption DEF FencingInv, NobodyElseFences, Own
  <2>2. Valid(u)
    BY <2>1 DEF FencingInv, RunsInv, TokensAreDrawn
  <2> QED BY <1>1, <2>2 DEF PastPcs, Open
<1>2. Valid(r) /\ Open(r) /\ Valid(t) /\ Open(t)
  BY <1>1
<1>3. work[r] = work[t]
  BY <1>2, ValidWorkflow
<1> QED BY <1>2, <1>3 DEF FencingInv, OneOpen

LEMMA FencingRests ==
    ASSUME FencingInv, Rests, WritesClaims,
           \/ \E r \in Runs : DispatchStep(r) \/ FenceWriteFails(r)
           \/ \E op \in late : LateAttempt(op)
           \/ disp' = disp \/ WorkerRestart
    PROVE  OneOpen' /\ FencesItsClaim' /\ NobodyElseFences'
<1>0. FenceInv
  BY DEF FencingInv, RunsInv
<1>1. loc' = loc /\ work' = work /\ request' = request /\ late' \subseteq late
  BY DEF Rests, workflowVars
<1>2. \A u \in Runs : Dec(u)' = Dec(u) /\ Owner(u)' = Owner(u) /\ (Own(u)' <=> Own(u)) /\ (Open(u)' <=> Open(u))
  BY <1>1 DEF Dec, Owner, Own, Open
<1>3. OneOpen'
  BY <1>1, <1>2 DEF OneOpen, FencingInv
<1>4. ASSUME NEW u \in Runs, disp'[u].at \in {"none", "started"}
      PROVE  \/ disp[u].at = disp'[u].at
             \/ disp[u].at = "none" /\ disp'[u].at = "started" /\ loc[u].pc = "dispatch"
  BY <1>0, <1>4, DispatchMoves
<1>5. ASSUME NEW u \in Runs, (loc'[u].pc \in HolderPcs /\ disp'[u].at = "none") \/ disp'[u].at = "started"
      PROVE  HeldBy(Dec(u), Owner(u))'
  <2>1. disp'[u].at \in {"none", "started"}
    BY <1>5
  <2>2. (loc[u].pc \in HolderPcs /\ disp[u].at = "none") \/ disp[u].at = "started"
    BY <1>1, <1>4, <1>5, <2>1 DEF HolderPcs
  <2>3. HeldBy(Dec(u), Owner(u))
    BY <2>2 DEF FencingInv, FencesItsClaim
  <2>4. claims'[Dec(u)] = claims[Dec(u)]
    BY <2>1, <2>2, <2>3, HeldKeeps
  <2> QED BY <1>2, <2>3, <2>4 DEF HeldBy
<1>6. ASSUME NEW u \in Runs, NEW op \in LateOf(u, "advance")', op.input = "RELEASED", disp'[u].at = "started"
      PROVE  FALSE
  <2>1. op \in LateOf(u, "advance")
    BY <1>1, <1>6 DEF LateOf
  <2>2. disp[u].at # "started" /\ loc[u].pc # "dispatch"
    BY <1>6, <2>1 DEF FencingInv, FencesItsClaim, HolderParts, EarlyPcs
  <2> QED BY <1>4, <1>6, <2>2
<1>7. ASSUME NEW u \in Runs, loc'[u].pc \in PastPcs
      PROVE  /\ Own(u)'
             /\ \A t \in Runs : disp'[t].at = "started" /\ Dec(t)' = Dec(u)' => t = u
             /\ claims'[Dec(u)'].state \in FencedStates => FencedBy(Dec(u), u)'
  <2>1. Own(u) /\ loc[u].pc \in PastPcs /\ loc[u].pc # "new"
    BY <1>1, <1>7 DEF FencingInv, NobodyElseFences, PastPcs
  <2>2. \A t \in Runs : disp[t].at = "started" /\ Dec(t) = Dec(u) => t = u
    BY <2>1 DEF FencingInv, NobodyElseFences
  <2>3. ASSUME NEW t \in Runs, disp'[t].at = "started", Dec(t)' = Dec(u)' PROVE t = u
    <3>1. CASE disp[t].at = "started"
      BY <1>2, <2>2, <2>3, <3>1
    <3>2. CASE loc[t].pc = "dispatch"
      <4>1. loc[t].pc \in PastPcs
        BY <3>2 DEF PastPcs, Pcs, UnclaimedPcs
      <4> QED BY <1>2, <2>1, <2>3, <4>1, PastAlone
    <3> QED BY <1>4, <2>3, <3>1, <3>2
  <2>4. PICK d \in Decisions : d = Dec(u)
    BY <1>0, <2>1, StartedLemma
  <2>5. claims'[d].state \in FencedStates => claims'[d].owner.run = u
    <3>1. claims[d].state \in FencedStates => claims[d].owner.run = u
      BY <2>1, <2>4 DEF FencingInv, NobodyElseFences, FencedBy
    <3> QED BY <1>0, <2>2, <2>4, <3>1, FencedGrows
  <2> QED BY <1>2, <2>1, <2>3, <2>4, <2>5 DEF FencedBy
<1>8. FencesItsClaim'
  BY <1>5, <1>6 DEF FencesItsClaim
<1>9. NobodyElseFences'
  BY <1>7 DEF NobodyElseFences
<1> QED BY <1>3, <1>8, <1>9

LEMMA FencingBegins ==
    ASSUME FencingInv, NEW s \in Runs, NEW k, Begins(s, k), Alone(s, k)
    PROVE  OneOpen' /\ FencesItsClaim' /\ NobodyElseFences'
<1>1. /\ loc[s].pc = "new" /\ loc'[s].pc = "verify" /\ claims' = claims /\ disp' = disp /\ late' = late
      /\ \A u \in Runs \ {s} :
            work'[u] = work[u] /\ request'[u] = request[u] /\ loc'[u] = loc[u]
  BY DEF Begins, Alone
<1>2. disp[s].at = "none"
  BY <1>1 DEF FencingInv, RunsInv, FenceInv, NewIsIdle
<1>3. ASSUME NEW u \in Runs \ {s}
      PROVE  Dec(u)' = Dec(u) /\ Owner(u)' = Owner(u) /\ (Own(u)' <=> Own(u)) /\ (Open(u)' <=> Open(u))
  BY <1>1, <1>3 DEF Dec, Owner, Own, Open
<1>4. ASSUME NEW r \in Runs, NEW t \in Runs, Open(r)', Open(t)', work'[r] = work'[t] PROVE r = t
  <2>1. CASE r # s /\ t # s
    BY <1>1, <1>3, <1>4, <2>1 DEF FencingInv, OneOpen
  <2>2. ASSUME NEW u \in Runs \ {s}, Open(u)' PROVE work'[u] # work'[s]
    BY <1>1, <1>3, <2>2 DEF Alone
  <2> QED BY <1>4, <2>1, <2>2
<1>5. ASSUME NEW u \in Runs, (loc'[u].pc \in HolderPcs /\ disp'[u].at = "none") \/ disp'[u].at = "started"
      PROVE  HeldBy(Dec(u), Owner(u))'
  <2>1. u # s
    BY <1>1, <1>2, <1>5 DEF HolderPcs
  <2>2. HeldBy(Dec(u), Owner(u))
    BY <1>1, <1>5, <2>1 DEF FencingInv, FencesItsClaim
  <2> QED BY <1>1, <1>3, <2>1, <2>2 DEF HeldBy
<1>6. ASSUME NEW u \in Runs, NEW op \in LateOf(u, "advance")', op.input = "RELEASED" PROVE disp'[u].at # "started"
  BY <1>1, <1>6 DEF LateOf, FencingInv, FencesItsClaim
<1>7. ASSUME NEW u \in Runs, loc'[u].pc \in PastPcs
      PROVE  /\ Own(u)'
             /\ \A t \in Runs : disp'[t].at = "started" /\ Dec(t)' = Dec(u)' => t = u
             /\ claims'[Dec(u)'].state \in FencedStates => FencedBy(Dec(u), u)'
  <2>1. u # s /\ loc[u].pc \in PastPcs
    BY <1>1, <1>7 DEF PastPcs, UnclaimedPcs
  <2>2. Own(u) /\ \A t \in Runs : disp[t].at = "started" /\ Dec(t) = Dec(u) => t = u
    BY <2>1 DEF FencingInv, NobodyElseFences
  <2>3. claims[Dec(u)].state \in FencedStates => FencedBy(Dec(u), u)
    BY <2>1 DEF FencingInv, NobodyElseFences
  <2>4. \A t \in Runs : disp'[t].at = "started" => t # s
    BY <1>1, <1>2
  <2> QED BY <1>1, <1>3, <2>1, <2>2, <2>3, <2>4 DEF FencedBy
<1>8. OneOpen'
  BY <1>4 DEF OneOpen
<1>9. FencesItsClaim'
  BY <1>5, <1>6 DEF FencesItsClaim
<1>10. NobodyElseFences'
  BY <1>7 DEF NobodyElseFences
<1> QED BY <1>8, <1>9, <1>10

LEMMA FencingInit == Init => FencingInv
<1> SUFFICES ASSUME Init PROVE FencingInv
  OBVIOUS
<1>1. late = {} /\ \A r \in Runs : loc[r].pc = "new" /\ disp[r].at = "none"
  BY DEF Init, NewLoc, NoDispatch
<1>2. OneOpen
  BY <1>1 DEF OneOpen, Open
<1>3. FencesItsClaim
  BY <1>1 DEF FencesItsClaim, HolderPcs, LateOf
<1>4. NobodyElseFences
  BY <1>1 DEF NobodyElseFences, PastPcs
<1> QED BY <1>2, <1>3, <1>4, HolderInit DEF FencingInv, HolderInv

LEMMA FencingStep ==
    ASSUME FencingInv, [Next]_vars, "reset" \notin Events
    PROVE  FencingInv'
<1>0. RunsInv /\ HolderInv /\ HolderInv'
  BY HolderStep DEF FencingInv, HolderInv
<1>1. OneOpen' /\ FencesItsClaim' /\ NobodyElseFences'
  <2>1. CASE \E r \in Runs : \E m : Leads(r, m) /\ RunStep(r, m) /\ WritesClaims /\ AttemptsOnce(r, m)
    BY <2>1, FencingRuns
  <2>2. CASE /\ Rests /\ WritesClaims
             /\ \/ \E r \in Runs : DispatchStep(r) \/ FenceWriteFails(r)
                \/ \E op \in late : LateAttempt(op)
                \/ disp' = disp /\ compensations' = compensations /\ late' = late
                \/ WorkerRestart
    BY <2>2, FencingRests
  <2>3. CASE \E s \in Runs : \E k : Begins(s, k) /\ Alone(s, k)
    BY <2>3, FencingBegins
  <2> QED BY <1>0, <2>1, <2>2, <2>3, StepShapes
<1> QED BY <1>0, <1>1 DEF FencingInv, HolderInv

-----------------------------------------------------------------------------
(* So only the run that fenced a decision compensates it, once. *)

(* A compensation given up on has not taken effect, and is the only one. *)
LateCompensations ==
    \A r \in Runs : \A op \in LateOf(r, "compensate") :
        /\ loc[r].pc \in CompensatedPcs /\ FencedBy(Dec(r), r) /\ compensations[Dec(r)] = 0
        /\ LateOf(r, "compensate") = {op}

CompensatedEnds ==
    \A d \in Decisions :
        compensations[d] > 0 => \E r \in Runs : FencedBy(d, r) /\ loc[r].pc \in CompensatedPcs

CompensationParts == LateCompensations /\ CompensatedEnds /\ CompensatedOnce

CompensationInv == OutcomeInv /\ FencingInv /\ CompensationParts

(* What no step undoes. *)
Carries ==
    /\ ClaimsStep
    /\ \A u \in Runs :
          loc[u].pc # "new" =>
             /\ request'[u] = request[u]
             /\ loc[u].pc \in CompensatedPcs => loc'[u].pc \in CompensatedPcs

LEMMA FencedStays ==
    ASSUME FenceInv, ClaimsStep, NEW d \in Decisions, NEW r, FencedBy(d, r)
    PROVE  FencedBy(d, r)'
<1>1. claims[d].state \in FencedStates /\ claims[d].owner.run = r
  BY DEF FencedBy
<1>2. ~CanClaim(d)
  BY <1>1 DEF CanClaim, FencedStates
<1>3. \A to \in ClaimStates : claims[d].state \in ClaimSources(to) => to \in FencedStates
  BY <1>1 DEF ClaimSources, FencedStates, ClaimStates
<1>4. claims'[d].state \in FencedStates /\ claims'[d].owner.run = r
  BY <1>1, <1>2, <1>3, ClaimBecomes
<1> QED BY <1>4 DEF FencedBy

(* A run about to compensate has fenced its decision, which nobody          *)
(* compensated yet.                                                         *)
LEMMA Compensating ==
    ASSUME CompensationInv, NEW r \in Runs, loc[r].pc = "compensate"
    PROVE  FencedBy(Dec(r), r) /\ compensations[Dec(r)] = 0 /\ LateOf(r, "compensate") = {}
<1>1. FenceInv /\ RunsInv /\ EffectsAreTrue /\ RunsAreToldTrue
  BY DEF CompensationInv, OutcomeInv, RunsInv
<1>2. PICK d \in Decisions : d = Dec(r)
  BY <1>1, StartedLemma
<1>3. mutations[d] > 0
  <2>1. Tells(d, loc[r].outcome) /\ loc[r].outcome.partial
    BY <1>1, <1>2 DEF RunsAreToldTrue, ToldTrue, MarksAgree
  <2> QED BY <2>1 DEF Tells, Says
<1>4. calls[d] > 0
  <2>1. mutations[d] <= calls[d]
    BY <1>1 DEF EffectsAreTrue
  <2>2. mutations[d] \in Nat /\ calls[d] \in Nat
    BY <1>1 DEF FenceInv, TypeOK
  <2> QED BY <1>3, <2>1, <2>2
<1>5. claims[d].state \in FencedStates
  BY <1>1, <1>4 DEF FenceInv, CallsAreFenced
<1>6. loc[r].pc \in PastPcs /\ loc[r].pc \notin CompensatedPcs
  BY DEF PastPcs, Pcs, ActivityPcs, UnclaimedPcs, CompensatedPcs
<1>7. FencedBy(d, r)
  BY <1>2, <1>5, <1>6 DEF CompensationInv, FencingInv, NobodyElseFences
<1>8. ~(compensations[d] > 0)
  <2>1. ASSUME NEW t, FencedBy(d, t) PROVE t = r
    BY <1>7, <2>1 DEF FencedBy
  <2> QED BY <1>6, <2>1 DEF CompensationInv, CompensationParts, CompensatedEnds
<1>9. compensations[d] = 0
  <2>1. compensations[d] \in Nat
    BY <1>1 DEF FenceInv, TypeOK
  <2> QED BY <1>8, <2>1
<1>10. LateOf(r, "compensate") = {}
  BY <1>6 DEF CompensationInv, CompensationParts, LateCompensations
<1> QED BY <1>2, <1>7, <1>9, <1>10

(* Steps without a compensation, *)
LEMMA CompensationKeeps ==
    ASSUME CompensationInv, Carries, compensations' = compensations,
           \A u \in Runs : LateOf(u, "compensate")' = LateOf(u, "compensate") \/ LateOf(u, "compensate")' = {}
    PROVE  CompensationParts'
<1>0. FenceInv /\ ClaimsStep
  BY DEF CompensationInv, FencingInv, RunsInv, Carries
<1>1. ASSUME NEW u \in Runs, NEW op \in LateOf(u, "compensate")'
      PROVE  /\ loc'[u].pc \in CompensatedPcs /\ FencedBy(Dec(u), u)' /\ compensations'[Dec(u)'] = 0
             /\ LateOf(u, "compensate")' = {op}
  <2>1. LateOf(u, "compensate")' = LateOf(u, "compensate") /\ op \in LateOf(u, "compensate")
    BY <1>1
  <2>2. /\ loc[u].pc \in CompensatedPcs /\ FencedBy(Dec(u), u) /\ compensations[Dec(u)] = 0
        /\ LateOf(u, "compensate") = {op}
    BY <2>1 DEF CompensationInv, CompensationParts, LateCompensations
  <2>3. loc[u].pc # "new"
    BY <2>2 DEF CompensatedPcs
  <2>4. Dec(u) \in Decisions /\ Dec(u)' = Dec(u) /\ loc'[u].pc \in CompensatedPcs
    BY <1>0, <2>2, <2>3, StartedLemma DEF Carries, Dec
  <2>5. PICK d \in Decisions : d = Dec(u)
    BY <2>4
  <2>6. FencedBy(d, u)'
    BY <1>0, <2>2, <2>5, FencedStays
  <2> QED BY <2>1, <2>2, <2>4, <2>5, <2>6 DEF FencedBy
<1>2. ASSUME NEW d \in Decisions, compensations'[d] > 0
      PROVE  \E r \in Runs : FencedBy(d, r)' /\ loc'[r].pc \in CompensatedPcs
  <2>1. PICK r \in Runs : FencedBy(d, r) /\ loc[r].pc \in CompensatedPcs
    BY <1>2 DEF CompensationInv, CompensationParts, CompensatedEnds
  <2>2. loc[r].pc # "new"
    BY <2>1 DEF CompensatedPcs
  <2> QED BY <1>0, <2>1, <2>2, FencedStays DEF Carries
<1>3. LateCompensations'
  BY <1>1 DEF LateCompensations
<1>4. CompensatedEnds'
  BY <1>2 DEF CompensatedEnds
<1>5. CompensatedOnce'
  BY DEF CompensationInv, CompensationParts, CompensatedOnce
<1> QED BY <1>3, <1>4, <1>5 DEF CompensationParts

(* with one, *)
LEMMA CompensationDone ==
    ASSUME CompensationInv, Carries, NEW r \in Runs, loc[r].pc # "new", loc'[r].pc \in CompensatedPcs,
           FencedBy(Dec(r), r), compensations[Dec(r)] = 0, LateOf(r, "compensate")' = {},
           compensations' = [compensations EXCEPT ![Dec(r)] = @ + 1],
           \A u \in Runs \ {r} : LateOf(u, "compensate")' = LateOf(u, "compensate")
    PROVE  CompensationParts'
<1>0. FenceInv /\ ClaimsStep /\ compensations \in [Decisions -> Nat]
  BY DEF CompensationInv, FencingInv, RunsInv, FenceInv, TypeOK, Carries
<1>1. PICK e \in Decisions : e = Dec(r)
  BY <1>0, StartedLemma
<1>2. compensations'[e] = 1 /\ \A d \in Decisions \ {e} : compensations'[d] = compensations[d]
  BY <1>0, <1>1
<1>3. FencedBy(e, r)'
  BY <1>0, <1>1, FencedStays
<1>4. ASSUME NEW u \in Runs, NEW op \in LateOf(u, "compensate")'
      PROVE  /\ loc'[u].pc \in CompensatedPcs /\ FencedBy(Dec(u), u)' /\ compensations'[Dec(u)'] = 0
             /\ LateOf(u, "compensate")' = {op}
  <2>1. u # r /\ LateOf(u, "compensate")' = LateOf(u, "compensate") /\ op \in LateOf(u, "compensate")
    BY <1>4
  <2>2. /\ loc[u].pc \in CompensatedPcs /\ FencedBy(Dec(u), u) /\ compensations[Dec(u)] = 0
        /\ LateOf(u, "compensate") = {op}
    BY <2>1 DEF CompensationInv, CompensationParts, LateCompensations
  <2>3. loc[u].pc # "new"
    BY <2>2 DEF CompensatedPcs
  <2>4. Dec(u) \in Decisions /\ Dec(u)' = Dec(u) /\ loc'[u].pc \in CompensatedPcs
    BY <1>0, <2>2, <2>3, StartedLemma DEF Carries, Dec
  <2>5. PICK d \in Decisions : d = Dec(u)
    BY <2>4
  <2>6. FencedBy(d, u)'
    BY <1>0, <2>2, <2>5, FencedStays
  <2>7. d # e
    BY <1>1, <2>1, <2>2, <2>5 DEF FencedBy
  <2> QED BY <1>2, <2>1, <2>2, <2>4, <2>5, <2>6, <2>7 DEF FencedBy
<1>5. ASSUME NEW d \in Decisions, compensations'[d] > 0
      PROVE  \E s \in Runs : FencedBy(d, s)' /\ loc'[s].pc \in CompensatedPcs
  <2>1. CASE d = e
    BY <1>3, <2>1
  <2>2. CASE d # e
    <3>1. PICK s \in Runs : FencedBy(d, s) /\ loc[s].pc \in CompensatedPcs
      BY <1>2, <1>5, <2>2 DEF CompensationInv, CompensationParts, CompensatedEnds
    <3>2. loc[s].pc # "new"
      BY <3>1 DEF CompensatedPcs
    <3> QED BY <1>0, <3>1, <3>2, FencedStays DEF Carries
  <2> QED BY <2>1, <2>2
<1>6. LateCompensations'
  BY <1>4 DEF LateCompensations
<1>7. CompensatedEnds'
  BY <1>5 DEF CompensatedEnds
<1>8. CompensatedOnce'
  BY <1>2 DEF CompensationInv, CompensationParts, CompensatedOnce
<1> QED BY <1>6, <1>7, <1>8 DEF CompensationParts

(* and with one that is given up on. *)
LEMMA CompensationLeft ==
    ASSUME CompensationInv, Carries, NEW r \in Runs, loc[r].pc = "compensate", loc'[r].pc \in CompensatedPcs,
           compensations' = compensations, NEW a, LateOf(r, "compensate")' = {a},
           \A u \in Runs \ {r} : LateOf(u, "compensate")' = LateOf(u, "compensate")
    PROVE  CompensationParts'
<1>0. FenceInv /\ ClaimsStep
  BY DEF CompensationInv, FencingInv, RunsInv, Carries
<1>1. FencedBy(Dec(r), r) /\ compensations[Dec(r)] = 0
  BY Compensating
<1>2. ASSUME NEW u \in Runs, loc[u].pc # "new", FencedBy(Dec(u), u)
      PROVE  FencedBy(Dec(u), u)' /\ Dec(u)' = Dec(u)
  <2>1. PICK d \in Decisions : d = Dec(u)
    BY <1>0, <1>2, StartedLemma
  <2>2. Dec(u)' = Dec(u)
    BY <1>2 DEF Carries, Dec
  <2>3. FencedBy(d, u)'
    BY <1>0, <1>2, <2>1, FencedStays
  <2> QED BY <2>1, <2>2, <2>3 DEF FencedBy
<1>3. ASSUME NEW u \in Runs, NEW op \in LateOf(u, "compensate")'
      PROVE  /\ loc'[u].pc \in CompensatedPcs /\ FencedBy(Dec(u), u)' /\ compensations'[Dec(u)'] = 0
             /\ LateOf(u, "compensate")' = {op}
  <2>1. CASE u = r
    BY <1>1, <1>2, <1>3, <2>1
  <2>2. CASE u # r
    <3>1. LateOf(u, "compensate")' = LateOf(u, "compensate") /\ op \in LateOf(u, "compensate")
      BY <1>3, <2>2
    <3>2. /\ loc[u].pc \in CompensatedPcs /\ FencedBy(Dec(u), u) /\ compensations[Dec(u)] = 0
          /\ LateOf(u, "compensate") = {op}
      BY <3>1 DEF CompensationInv, CompensationParts, LateCompensations
    <3>3. loc[u].pc # "new"
      BY <3>2 DEF CompensatedPcs
    <3>4. loc'[u].pc \in CompensatedPcs
      BY <3>2, <3>3 DEF Carries
    <3> QED BY <1>2, <3>1, <3>2, <3>3, <3>4
  <2> QED BY <2>1, <2>2
<1>4. ASSUME NEW d \in Decisions, compensations'[d] > 0
      PROVE  \E s \in Runs : FencedBy(d, s)' /\ loc'[s].pc \in CompensatedPcs
  <2>1. PICK s \in Runs : FencedBy(d, s) /\ loc[s].pc \in CompensatedPcs
    BY <1>4 DEF CompensationInv, CompensationParts, CompensatedEnds
  <2>2. loc[s].pc # "new"
    BY <2>1 DEF CompensatedPcs
  <2> QED BY <1>0, <2>1, <2>2, FencedStays DEF Carries
<1>5. LateCompensations'
  BY <1>3 DEF LateCompensations
<1>6. CompensatedEnds'
  BY <1>4 DEF CompensatedEnds
<1>7. CompensatedOnce'
  BY DEF CompensationInv, CompensationParts, CompensatedOnce
<1> QED BY <1>5, <1>6, <1>7 DEF CompensationParts

LEMMA CompensationRuns ==
    ASSUME CompensationInv, NEW r \in Runs, NEW m, Leads(r, m), RunStep(r, m), AttemptsOnce(r, m)
    PROVE  CompensationParts'
<1>0. FenceInv /\ TokensAreDrawn
  BY DEF CompensationInv, FencingInv, RunsInv
<1>1. Stepped(r, m)
  BY <1>0, SteppedLemma
<1>2. /\ loc'[r] = m /\ request' = request /\ \A u \in Runs \ {r} : loc'[u] = loc[u]
      /\ \/ late' = late
         \/ late' = late \cup {Attempt(r)} /\ loc[r].pc \in ActivityPcs
  BY <1>1 DEF Stepped
<1>3. loc[r].pc \in CompensatedPcs => m.pc \in CompensatedPcs
  BY DEF Leads, LeadsLate
<1>4. Carries
  BY <1>0, <1>2, <1>3, RunStepClaims DEF Carries
<1>5. \/ compensations' = compensations
      \/ loc[r].pc = "compensate" /\ compensations' = [compensations EXCEPT ![Dec(r)] = @ + 1]
  <2>1. CASE UNCHANGED <<storeVars, adapterVars>>
    BY <2>1 DEF adapterVars
  <2>2. CASE loc[r].pc \in ActivityPcs /\ TakesEffect(Attempt(r))
    <3>1. Attempt(r).run = r /\ (Attempt(r).kind = "compensate" <=> loc[r].pc = "compensate")
      BY <2>2, AttemptIs
    <3>2. compensations' = IF Attempt(r).kind = "compensate"
                           THEN [compensations EXCEPT ![Dec(r)] = @ + 1] ELSE compensations
      BY <2>2, <3>1 DEF TakesEffect
    <3> QED BY <3>1, <3>2
  <2> QED BY <2>1, <2>2 DEF RunStep
<1>6. \A u \in Runs : late' = late => LateOf(u, "compensate")' = LateOf(u, "compensate")
  BY DEF LateOf
<1>7. CASE loc[r].pc # "compensate"
  <2>1. ASSUME NEW u \in Runs PROVE LateOf(u, "compensate")' = LateOf(u, "compensate")
    <3>1. CASE late' = late \cup {Attempt(r)} /\ loc[r].pc \in ActivityPcs
      <4>1. Attempt(r).kind # "compensate"
        BY <1>7, <3>1, AttemptIs
      <4> QED BY <3>1, <4>1 DEF LateOf
    <3> QED BY <1>2, <1>6, <3>1
  <2> QED BY <1>4, <1>5, <1>7, <2>1, CompensationKeeps
<1>8. CASE loc[r].pc = "compensate" /\ late' = late /\ compensations' = compensations
  BY <1>4, <1>6, <1>8, CompensationKeeps
<1>9. CASE loc[r].pc = "compensate" /\ late' # late
  <2>1. compensations' = compensations /\ m.pc \in CompensatedPcs
    BY <1>9 DEF AttemptsOnce, Leads, LeadsLate
  <2>2. /\ late' = late \cup {Attempt(r)} /\ Attempt(r).run = r /\ Attempt(r).kind = "compensate"
        /\ LateOf(r, "compensate") = {}
    BY <1>2, <1>9, AttemptIs, Compensating
  <2>3. LateOf(r, "compensate")' = {Attempt(r)}
    BY <2>2 DEF LateOf
  <2>4. \A u \in Runs \ {r} : LateOf(u, "compensate")' = LateOf(u, "compensate")
    BY <2>2 DEF LateOf
  <2>5. PICK a : a = Attempt(r)
    OBVIOUS
  <2> QED BY <1>2, <1>4, <1>9, <2>1, <2>3, <2>4, <2>5, CompensationLeft
<1>10. CASE loc[r].pc = "compensate" /\ compensations' # compensations
  <2>1. late' = late /\ m.pc \in CompensatedPcs
    BY <1>10 DEF AttemptsOnce, Leads, LeadsLate
  <2>2. FencedBy(Dec(r), r) /\ compensations[Dec(r)] = 0 /\ LateOf(r, "compensate") = {}
    BY <1>10, Compensating
  <2>3. \A u \in Runs : LateOf(u, "compensate")' = LateOf(u, "compensate")
    BY <1>6, <2>1
  <2>4. LateOf(r, "compensate")' = {} /\ loc'[r].pc \in CompensatedPcs /\ loc[r].pc # "new"
    BY <1>2, <1>10, <2>1, <2>2, <2>3
  <2>5. compensations' = [compensations EXCEPT ![Dec(r)] = @ + 1]
    BY <1>5, <1>10
  <2> QED BY <1>4, <2>2, <2>3, <2>4, <2>5, CompensationDone
<1> QED BY <1>7, <1>8, <1>9, <1>10

LEMMA CompensationRests ==
    ASSUME CompensationInv, ClaimsStep, Rests,
           \/ \E r \in Runs : DispatchStep(r) \/ FenceWriteFails(r)
           \/ \E op \in late : LateAttempt(op)
           \/ compensations' = compensations /\ late' = late
           \/ WorkerRestart
    PROVE  CompensationParts'
<1>0. FenceInv /\ LateCompensations
  BY DEF CompensationInv, FencingInv, RunsInv, CompensationParts
<1>1. loc' = loc /\ request' = request
  BY DEF Rests, workflowVars
<1>2. Carries
  BY <1>1 DEF Carries
<1>3. ASSUME compensations' = compensations, late' = late PROVE CompensationParts'
  <2>1. \A u \in Runs : LateOf(u, "compensate")' = LateOf(u, "compensate")
    BY <1>3 DEF LateOf
  <2> QED BY <1>2, <1>3, <2>1, CompensationKeeps
<1>4. CASE \E r \in Runs : DispatchStep(r) \/ FenceWriteFails(r)
  <2>1. compensations' = compensations /\ late' = late
    BY <1>4 DEF DispatchStep, StartDispatch, AcquireFence, ReadFencedClaim, CallAdapter, FenceWriteFails,
                adapterVars
  <2> QED BY <1>3, <2>1
<1>5. CASE WorkerRestart
  <2>1. compensations' = compensations /\ late' = {}
    BY <1>5 DEF WorkerRestart
  <2>2. \A u \in Runs : LateOf(u, "compensate")' = {}
    BY <2>1 DEF LateOf
  <2> QED BY <1>2, <2>1, <2>2, CompensationKeeps
<1>6. ASSUME NEW op \in late, LateAttempt(op) PROVE CompensationParts'
  <2>1. /\ late' = late \ {op} /\ op.run \in Runs
        /\ compensations' = IF op.kind = "compensate"
                            THEN [compensations EXCEPT ![Dec(op.run)] = @ + 1] ELSE compensations
    BY <1>0, <1>6 DEF LateAttempt, TakesEffect, FenceInv, TypeOK, LateAttempts
  <2>2. CASE op.kind # "compensate"
    <3>1. \A u \in Runs : LateOf(u, "compensate")' = LateOf(u, "compensate")
      BY <2>1, <2>2 DEF LateOf
    <3> QED BY <1>2, <2>1, <2>2, <3>1, CompensationKeeps
  <2>3. CASE op.kind = "compensate"
    <3>1. PICK r \in Runs : r = op.run
      BY <2>1
    <3>2. op \in LateOf(r, "compensate")
      BY <2>3, <3>1 DEF LateOf
    <3>3. /\ loc[r].pc \in CompensatedPcs /\ FencedBy(Dec(r), r) /\ compensations[Dec(r)] = 0
          /\ LateOf(r, "compensate") = {op}
      BY <1>0, <3>2 DEF LateCompensations
    <3>4. LateOf(r, "compensate")' = {}
      BY <2>1, <3>3 DEF LateOf
    <3>5. \A u \in Runs \ {r} : LateOf(u, "compensate")' = LateOf(u, "compensate")
      BY <2>1, <3>1 DEF LateOf
    <3>6. loc[r].pc # "new" /\ loc'[r].pc \in CompensatedPcs
      BY <1>1, <3>3 DEF CompensatedPcs
    <3> QED BY <1>2, <2>1, <2>3, <3>1, <3>3, <3>4, <3>5, <3>6, CompensationDone
  <2> QED BY <2>2, <2>3
<1> QED BY <1>3, <1>4, <1>5, <1>6

LEMMA CompensationBegins ==
    ASSUME CompensationInv, NEW s \in Runs, NEW k, Begins(s, k), Alone(s, k), compensations' = compensations
    PROVE  CompensationParts'
<1>1. /\ loc[s].pc = "new" /\ claims' = claims /\ late' = late
      /\ \A u \in Runs \ {s} : request'[u] = request[u] /\ loc'[u] = loc[u]
  BY DEF Begins, Alone
<1>2. Carries
  BY <1>1 DEF Carries, ClaimsStep
<1>3. \A u \in Runs : LateOf(u, "compensate")' = LateOf(u, "compensate")
  BY <1>1 DEF LateOf
<1> QED BY <1>2, <1>3, CompensationKeeps

LEMMA CompensationInit == Init => CompensationInv
<1> SUFFICES ASSUME Init PROVE CompensationInv
  OBVIOUS
<1>1. late = {} /\ \A d \in Decisions : compensations[d] = 0
  BY DEF Init
<1>2. LateCompensations
  BY <1>1 DEF LateCompensations, LateOf
<1>3. CompensatedEnds /\ CompensatedOnce
  BY <1>1 DEF CompensatedEnds, CompensatedOnce
<1> QED BY <1>2, <1>3, OutcomeInit, FencingInit DEF CompensationInv, CompensationParts

LEMMA CompensationStep ==
    ASSUME CompensationInv, [Next]_vars, "reset" \notin Events
    PROVE  CompensationInv'
<1>0. RunsInv /\ ClaimsStep /\ OutcomeInv' /\ FencingInv'
  BY RunsStep, OutcomeStep, FencingStep DEF CompensationInv, FencingInv
<1>1. CompensationParts'
  <2>1. CASE \E r \in Runs : \E m : Leads(r, m) /\ RunStep(r, m) /\ WritesClaims /\ AttemptsOnce(r, m)
    BY <2>1, CompensationRuns
  <2>2. CASE /\ Rests /\ WritesClaims
             /\ \/ \E r \in Runs : DispatchStep(r) \/ FenceWriteFails(r)
                \/ \E op \in late : LateAttempt(op)
                \/ disp' = disp /\ compensations' = compensations /\ late' = late
                \/ WorkerRestart
    BY <1>0, <2>2, CompensationRests
  <2>3. CASE \E s \in Runs : \E k : Begins(s, k) /\ compensations' = compensations /\ Alone(s, k)
    BY <2>3, CompensationBegins
  <2> QED BY <1>0, <2>1, <2>2, <2>3, StepShapes
<1> QED BY <1>0, <1>1 DEF CompensationInv

(* A change is compensated at most once, over all runs, retries, timeouts   *)
(* and late attempts, as long as no run is reset: one run fences a          *)
(* decision, no other run past its claim is about it, and a compensation    *)
(* is attempted once. A run that is reset after its compensation repeats    *)
(* it.                                                                      *)
THEOREM CompensationIsOnce ==
    ASSUME "reset" \notin Events
    PROVE  Spec => []CompensatedOnce
<1>1. CompensationInv /\ [Next]_vars => CompensationInv'
  BY CompensationStep
<1>2. CompensationInv => CompensatedOnce
  BY DEF CompensationInv, CompensationParts
<1> QED BY <1>1, <1>2, CompensationInit, PTL DEF Spec
=============================================================================
