------------------------------ MODULE SagaProofs ------------------------------
(***************************************************************************)
(* Proofs about the saga, for any number of decisions, workflows, runs,    *)
(* requests, policies, attempts, rounds and late attempts, and for any     *)
(* combination of disturbances.                                            *)
(***************************************************************************)
EXTENDS Saga, ClaimStoreProofs

-----------------------------------------------------------------------------
(* The control flow: where a run can go from a place it can be. *)

(* What every step of a run respects: m is a proper place, not "new"; the   *)
(* token stays, and only a run that already claims goes on claiming.        *)
Onward(l, m) ==
    /\ m \in Locs /\ m.token = l.token
    /\ m.pc \notin {"new", "claim_read"}
    /\ m.pc = "claim" => l.pc \in {"claim", "claim_read"}

(* Going to an activity other than the claim keeps everything but pc and tries. *)
LEMMA GotoLemma ==
    ASSUME NEW l \in Locs, NEW pc \in Pcs
    PROVE  /\ Goto(l, pc) \in Locs
           /\ Goto(l, pc).pc = pc /\ Goto(l, pc).token = l.token
BY DEF Goto, Locs

(* A return keeps the token only. *)
LEMMA ExitLemma ==
    ASSUME NEW l \in Locs, NEW e \in Exits
    PROVE  Onward(l, Exit(l, e))
<1>1. UnknownOutcome \in Outcomes
  BY DEF UnknownOutcome, Outcomes, OutcomeStatuses
<1>2. NewLoc \in Locs
  BY <1>1 DEF NewLoc, Locs, Pcs, Exits
<1>3. Exit(l, e) \in Locs /\ Exit(l, e).pc = "closed" /\ Exit(l, e).token = l.token
  BY <1>2 DEF Exit, Locs, Pcs
<1> QED BY <1>3 DEF Onward

LEMMA ReleasingLemma ==
    ASSUME NEW l \in Locs, NEW e \in Exits
    PROVE  Onward(l, Releasing(l, e)) /\ Onward(l, Rejecting(l, e))
BY DEF Releasing, Rejecting, Goto, Locs, Onward, Pcs, ActivityPcs, AdvancePcs, DecisionPcs

(* The outcome an activity reports is made well formed before it is used. *)
LEMMA CheckedLemma ==
    ASSUME NEW o \in Outcomes \cup {NoEffect}
    PROVE  Checked(o) \in Outcomes /\ UnknownOutcome \in Outcomes
BY DEF Checked, Outcomes, OutcomeStatuses, UnknownOutcome, NoEffect

LEMMA ResolveLemma ==
    ASSUME NEW l \in Locs, NEW b \in BOOLEAN
    PROVE  Onward(l, Resolve(l)) /\ Onward(l, Resolve([l EXCEPT !.auditErr = b]))
BY DEF Resolve, Goto, Locs, Onward, Pcs, ActivityPcs, AdvancePcs

LEMMA AfterDispatchLemma ==
    ASSUME NEW l \in Locs, NEW res, res.kind = "OUTCOME" => res.outcome \in Outcomes
    PROVE  Onward(l, AfterDispatch(l, res))
<1>1. res.kind = "OUTCOME" => Checked(res.outcome) \in Outcomes
  BY CheckedLemma
<1>2. UnknownOutcome \in Outcomes
  BY CheckedLemma
<1> QED BY <1>1, <1>2 DEF AfterDispatch, Goto, Locs, Onward, Pcs, ActivityPcs, AdvancePcs, AuditPcs

LEMMA AfterReconcileLemma ==
    ASSUME NEW l \in Locs, NEW o \in Outcomes \cup {NoEffect}
    PROVE  Onward(l, AfterReconcile(l, o))
BY CheckedLemma DEF AfterReconcile, Goto, Locs, Onward, Pcs, ActivityPcs, AuditPcs

(* Whatever an activity returns, the run goes on at a proper place. *)
LEMMA AfterLemma ==
    ASSUME NEW l \in Locs, NEW ok \in BOOLEAN
    PROVE  Onward(l, After(l, ok))
<1> DEFINE Rest == {"new", "claim", "claim_read"}
<1>0. \A pc \in Pcs \ Rest : Onward(l, Goto(l, pc))
  BY GotoLemma DEF Onward
<1>1. \A e \in Exits : Onward(l, Exit(l, e)) /\ Onward(l, Releasing(l, e))
  BY ExitLemma, ReleasingLemma
<1>2. l.exit \in Exits
  BY DEF Locs
<1>3. Onward(l, AfterRejection(l))
  BY <1>0, <1>1, <1>2 DEF AfterRejection, Pcs, ActivityPcs, AuditPcs
<1>4. Onward(l, AfterRevalidation(l, ok))
  BY <1>0, <1>1 DEF AfterRevalidation, Pcs, ActivityPcs, AuditPcs, Exits
<1>5. Onward(l, AfterFenceFailure(l, ok))
  <2>1. Onward(l, [Goto(l, "audit_fence_unknown") EXCEPT !.outcome = UnknownOutcome])
    BY CheckedLemma DEF Goto, Locs, Onward, Pcs, ActivityPcs, AuditPcs
  <2> QED BY <1>0, <1>1, <2>1 DEF AfterFenceFailure, Pcs, ActivityPcs, AuditPcs, Exits
<1>6. Onward(l, AfterOutcomeAudit(l, ok))
  BY <1>1, ResolveLemma DEF AfterOutcomeAudit, Exits
<1>7. Onward(l, AfterFailure(l, ok))
  BY <1>0, <1>1 DEF AfterFailure, Pcs, ActivityPcs, AuditPcs, Exits
<1>8. Onward(l, AfterSuccess(l, ok))
  BY <1>0, <1>1 DEF AfterSuccess, Pcs, ActivityPcs, AuditPcs, Exits
<1>9. Onward(l, AfterDispatch(l, [kind |-> "NONE"]))
  BY AfterDispatchLemma
<1>10. Onward(l, AfterReconcile(l, UnknownOutcome))
  BY AfterReconcileLemma, CheckedLemma
<1>11. Onward(l, BeginReconcile(l))
  BY ScheduleAssumption DEF BeginReconcile, Goto, Locs, Onward, Pcs, ActivityPcs
<1>12. Onward(l, Goto(l, "audit_recon"))
  BY <1>0 DEF Pcs, ActivityPcs, AuditPcs
<1> HIDE DEF Rest
<1> QED BY <1>1, <1>2, <1>3, <1>4, <1>5, <1>6, <1>7, <1>8, <1>9, <1>10, <1>11, <1>12 DEF After, Exits

-----------------------------------------------------------------------------
(* What a step keeps, in three parts that most actions share. *)

RunTypes ==
    /\ loc \in [Runs -> Locs]
    /\ past \in [Runs -> SUBSET Locs]
    /\ work \in [Runs -> Workflows \cup {""}]
    /\ request \in [Runs -> Requests \cup {NoRequest}]
    /\ \A r \in Runs : loc[r].pc # "new" => work[r] \in Workflows /\ request[r] \in Requests

StoreTypes ==
    /\ claims \in [Decisions -> Claims]
    /\ revals \in [Runs -> Verdicts \cup {"NONE"}]
    /\ audit \subseteq Rows
    /\ effects \in [Decisions -> Outcomes \cup {NoEffect}]
    /\ calls \in [Decisions -> Nat]
    /\ mutations \in [Decisions -> Nat]
    /\ compensations \in [Decisions -> Nat]

DispatchTypes == disp \in [Runs -> [at : DispatchStages, kind : ResultKinds, outcome : Outcomes]]

LEMMA TypeParts ==
    TypeOK <=> RunTypes /\ StoreTypes /\ DispatchTypes /\ late \subseteq LateAttempts /\ policy \in Policies
BY DEF TypeOK, RunTypes, StoreTypes, DispatchTypes, ClaimsTypeOK

(* The runs: nobody becomes new again, loses a token or changes its input. *)
RunsKept ==
    /\ RunTypes'
    /\ \A r \in Runs :
          /\ loc'[r].pc = "new" => loc[r].pc = "new"
          /\ loc[r].pc # "new" => request'[r] = request[r]
          /\ loc[r].pc # "new" /\ loc[r].token \in Runs => loc'[r].token \in Runs
          /\ loc'[r].pc \in {"claim", "claim_read"} => loc'[r].token \in Runs
          /\ \A l \in past'[r] : l.pc # "claim_read"

(* The claims: none passes the fence, and none that has passed it moves.    *)
KeepsFence ==
    \A d \in Decisions :
        /\ claims'[d].state \in FencedStates <=> claims[d].state \in FencedStates
        /\ claims[d].state \in FencedStates => claims'[d].owner = claims[d].owner

StoresKept == StoreTypes' /\ KeepsFence /\ calls' = calls

(* What comes to be late is an attempt of a run that has started. *)
Startable(op) ==
    /\ loc[op.run].pc # "new"
    /\ op.kind = "claim" => loc[op.run].token \in Runs

LateKept ==
    late' \subseteq LateAttempts /\ \A op \in late' : op \in late \/ Startable(op)

(* A step that keeps the three parts and the dispatch activities keeps the  *)
(* invariant.                                                               *)
LEMMA Kept ==
    ASSUME FenceInv, RunsKept, StoresKept, LateKept, disp' = disp, policy' \in Policies
    PROVE  FenceInv'
<1>1. TypeOK'
  <2>1. DispatchTypes'
    BY TypeParts DEF FenceInv, DispatchTypes
  <2> QED BY <2>1, TypeParts
             DEF RunsKept, StoresKept, LateKept, TypeOK, RunTypes, StoreTypes, DispatchTypes,
                 ClaimsTypeOK
<1>2. \A r \in Runs : loc[r].pc # "new" => request[r] \in Requests /\ Dec(r) \in Decisions
  BY RequestsAssumption DEF FenceInv, TypeOK, Dec
<1>3. FenceHeld'
  <2> SUFFICES ASSUME NEW r \in Runs, disp[r].at = "fenced"
               PROVE  /\ claims'[Dec(r)'].state \in FencedStates
                      /\ claims'[Dec(r)'].owner.run = r
                      /\ calls'[Dec(r)'] = 0
    BY DEF FenceHeld
  <2>1. loc[r].pc # "new"
    BY DEF FenceInv, NewIsIdle
  <2>2. Dec(r)' = Dec(r) /\ Dec(r) \in Decisions
    BY <1>2, <2>1 DEF RunsKept, Dec
  <2> QED BY <2>2 DEF FenceInv, FenceHeld, StoresKept, KeepsFence
<1>4. CallsAreFenced'
  BY DEF FenceInv, CallsAreFenced, StoresKept, KeepsFence
<1>5. NewIsIdle'
  BY DEF FenceInv, NewIsIdle, RunsKept, LateKept, Startable
<1>6. TokenDrawn'
  <2>1. \A op \in late' : op.run \in Runs
    BY DEF LateKept, LateAttempts
  <2>2. ASSUME NEW op \in late', op.kind = "claim"
        PROVE  loc'[op.run].token \in Runs
    <3>1. loc[op.run].token \in Runs /\ loc[op.run].pc # "new"
      BY <2>1, <2>2 DEF LateKept, Startable, FenceInv, TokenDrawn, NewIsIdle
    <3> QED BY <2>1, <3>1 DEF RunsKept
  <2> QED BY <2>2 DEF TokenDrawn, RunsKept
<1> QED BY <1>1, <1>3, <1>4, <1>5, <1>6 DEF FenceInv

-----------------------------------------------------------------------------
(* Activity attempts. *)

Attempted(op, r) == (op \in LateAttempts \/ op.kind = "read") /\ op.run = r /\ Startable(op)

(* The inputs that make an attempt of a run that has started well formed.   *)
LEMMA OpLemma ==
    ASSUME NEW r \in Runs, loc[r].tries \in Nat, loc[r].pc # "new",
           NEW kind \in {"claim", "advance", "decision", "audit", "reconcile", "compensate", "read"},
           NEW input \in ClaimStates \cup AuditPhases \cup {""},
           NEW verdict \in Verdicts \cup AuditVerdicts \cup {"", "NONE"},
           kind = "claim" => loc[r].token \in Runs,
           kind = "advance" => input \in ClaimStates \ {"CLAIMED", "EXECUTING"},
           kind = "decision" => verdict \in Verdicts \cup {"NONE"},
           kind = "audit" => input \in AuditPhases /\ verdict \in AuditVerdicts
    PROVE  Attempted(Op(kind, r, input, verdict), r)
<1>1. CASE kind = "read"
  BY <1>1 DEF Op, Attempted, Startable
<1>2. CASE kind # "read"
  <2>1. Op(kind, r, input, verdict) \in LateAttempts
    BY <1>2 DEF Op, LateAttempts
  <2> QED BY <2>1 DEF Op, Attempted, Startable
<1> QED BY <1>1, <1>2

(* An attempt is well formed, belongs to its run, and a claim has a token.  *)
LEMMA AttemptLemma ==
    ASSUME FenceInv, NEW r \in Runs, loc[r].pc \in ActivityPcs
    PROVE  Attempted(Attempt(r), r)
<1>0. /\ loc[r].pc # "new" /\ loc[r].tries \in Nat
      /\ loc[r].verdict \in Verdicts \cup {"NONE"}
  BY DEF FenceInv, TypeOK, Locs, ActivityPcs, AdvancePcs, AuditPcs, DecisionPcs
<1>1. CASE loc[r].pc = "claim"
  <2>1. Attempt(r) = Op("claim", r, "", "")
    BY <1>1 DEF Attempt, AdvancePcs, AuditPcs
  <2>2. loc[r].token \in Runs
    BY <1>1 DEF FenceInv, TokenDrawn
  <2>9. Attempted(Op("claim", r, "", ""), r)
    BY <1>0, <2>2, OpLemma
  <2> QED BY <2>1, <2>9
<1>2. CASE loc[r].pc \in AdvancePcs
  <2>1. Attempt(r) = Op("advance", r, AdvanceTo(loc[r].pc), "")
    BY <1>2 DEF Attempt, AdvancePcs, AuditPcs
  <2>2. AdvanceTo(loc[r].pc) \in ClaimStates \ {"CLAIMED", "EXECUTING"}
    BY DEF AdvanceTo, ClaimStates
  <2>9. Attempted(Op("advance", r, AdvanceTo(loc[r].pc), ""), r)
    BY <1>0, <2>2, OpLemma
  <2> QED BY <2>1, <2>9
<1>3. CASE loc[r].pc = "rej_decision"
  <2>1. Attempt(r) = Op("decision", r, "", "DENY")
    BY <1>3 DEF Attempt, AdvancePcs, AuditPcs
  <2>9. Attempted(Op("decision", r, "", "DENY"), r)
    BY <1>0, OpLemma DEF Verdicts
  <2> QED BY <2>1, <2>9
<1>4. CASE loc[r].pc = "record_decision"
  <2>1. Attempt(r) = Op("decision", r, "", loc[r].verdict)
    BY <1>4 DEF Attempt, AdvancePcs, AuditPcs
  <2>9. Attempted(Op("decision", r, "", loc[r].verdict), r)
    BY <1>0, OpLemma
  <2> QED BY <2>1, <2>9
<1>5. CASE loc[r].pc \in AuditPcs
  <2>1. Attempt(r) = Op("audit", r, AuditRow(loc[r]).phase, AuditRow(loc[r]).verdict)
    BY <1>5 DEF Attempt, AuditPcs, AdvancePcs
  <2>2. AuditRow(loc[r]).phase \in AuditPhases /\ AuditRow(loc[r]).verdict \in AuditVerdicts
    BY DEF AuditRow, Row, auditVerdict, AuditPhases, AuditVerdicts
  <2>9. Attempted(Op("audit", r, AuditRow(loc[r]).phase, AuditRow(loc[r]).verdict), r)
    BY <1>0, <2>2, OpLemma
  <2> QED BY <2>1, <2>9
<1>6. CASE loc[r].pc \in {"reconcile", "compensate"}
  <2>1. Attempt(r) = Op(loc[r].pc, r, "", "")
    BY <1>6 DEF Attempt, AuditPcs, AdvancePcs
  <2>9. Attempted(Op(loc[r].pc, r, "", ""), r)
    BY <1>0, <1>6, OpLemma
  <2> QED BY <2>1, <2>9
<1>7. CASE loc[r].pc \in {"verify", "claim_read", "evaluate"}
  <2>1. Attempt(r) = Op("read", r, "", "")
    BY <1>7 DEF Attempt, AuditPcs, AdvancePcs
  <2>9. Attempted(Op("read", r, "", ""), r)
    BY <1>0, OpLemma
  <2> QED BY <2>1, <2>9
<1> QED BY <1>1, <1>2, <1>3, <1>4, <1>5, <1>6, <1>7 DEF ActivityPcs, DecisionPcs

(* Taking effect, on time or late, keeps the stores well formed and passes  *)
(* no claim through the fence.                                              *)
LEMMA EffectLemma ==
    ASSUME FenceInv, NEW r \in Runs, NEW op, Attempted(op, r), TakesEffect(op)
    PROVE  StoresKept
<1> USE DEF Attempted
<1> DEFINE d == Dec(op.run)
<1>0. /\ d \in Decisions /\ work[op.run] \in Workflows
      /\ op.kind = "claim" => Owner(op.run) \in Owners
  BY RequestsAssumption DEF FenceInv, TypeOK, Startable, Dec, Owner, Owners
<1>1. StoreTypes /\ ClaimsTypeOK
  BY TypeParts DEF FenceInv, StoreTypes, ClaimsTypeOK
<1>2. claims' \in [Decisions -> Claims] /\ KeepsFence
  <2>1. CASE op.kind = "claim"
    <3>1. claims' = ClaimWrite(d, Owner(op.run))
      BY <2>1 DEF TakesEffect
    <3> QED BY <1>0, <1>1, <2>1, <3>1, ClaimWriteLemma DEF KeepsFence, FencedStates
  <2>2. CASE op.kind = "advance"
    <3>1. claims' = AdvanceWrite(d, Owner(op.run), op.input)
      BY <2>2 DEF TakesEffect
    <3>2. op.input \in ClaimStates \ {"CLAIMED", "EXECUTING"}
      BY <2>2 DEF LateAttempts
    <3>3. ASSUME NEW e \in Decisions, claims[e].state \in ClaimSources(op.input),
                 claims'[e] = [claims[e] EXCEPT !.state = op.input]
          PROVE  /\ claims'[e].state \in FencedStates <=> claims[e].state \in FencedStates
                 /\ claims'[e].owner = claims[e].owner
      <4>1. claims[e].state \in FencedStates <=> op.input \in FencedStates
        BY <3>2, <3>3 DEF ClaimSources, FencedStates, ClaimStates
      <4>2. claims[e] \in Claims
        BY <1>1 DEF StoreTypes
      <4>3. claims'[e].state = op.input /\ claims'[e].owner = claims[e].owner
        BY <3>3, <4>2 DEF Claims, NoClaim
      <4> QED BY <4>1, <4>3
    <3>4. claims' \in [Decisions -> Claims]
      BY <1>0, <1>1, <3>1, AdvanceWriteLemma
    <3>5. \A e \in Decisions :
            \/ claims'[e] = claims[e]
            \/ /\ claims[e].state \in ClaimSources(op.input)
               /\ claims'[e] = [claims[e] EXCEPT !.state = op.input]
      BY <1>0, <1>1, <3>1, AdvanceWriteLemma
    <3> QED BY <3>3, <3>4, <3>5 DEF KeepsFence
  <2>3. CASE op.kind \notin {"claim", "advance"}
    BY <1>1, <2>3 DEF TakesEffect, StoreTypes, KeepsFence
  <2> QED BY <2>1, <2>2, <2>3
<1>3. revals' \in [Runs -> Verdicts \cup {"NONE"}]
  <2>1. op.kind = "decision" => op.verdict \in Verdicts \cup {"NONE"}
    BY DEF LateAttempts
  <2> QED BY <1>1, <2>1 DEF TakesEffect, StoreTypes
<1>4. audit' \subseteq Rows
  <2>1. op.kind = "audit" => op.input \in AuditPhases /\ op.verdict \in AuditVerdicts
    BY DEF LateAttempts
  <2> QED BY <1>1, <2>1 DEF TakesEffect, StoreTypes, Rows
<1>5. effects' \in [Decisions -> Outcomes \cup {NoEffect}]
  BY <1>0, <1>1 DEF TakesEffect, StoreTypes, ReconcileEffect, KeyFenced, Outcomes, OutcomeStatuses
<1>6. /\ compensations' \in [Decisions -> Nat]
      /\ calls' = calls /\ mutations' = mutations
  BY <1>0, <1>1 DEF TakesEffect, StoreTypes
<1> QED BY <1>1, <1>2, <1>3, <1>4, <1>5, <1>6 DEF StoresKept, StoreTypes

-----------------------------------------------------------------------------
(* Moves of one run. *)

Moves(r, m) ==
    /\ m \in Locs /\ m.pc # "new"
    /\ m.token = loc[r].token \/ m.token \in Runs
    /\ m.pc \in {"claim", "claim_read"} => m.token \in Runs

LEMMA OnwardMoves ==
    ASSUME FenceInv, NEW r \in Runs, NEW m, Onward(loc[r], m)
    PROVE  Moves(r, m)
BY DEF FenceInv, TokenDrawn, Onward, Moves

LEMMA GoesToLemma ==
    ASSUME FenceInv, NEW r \in Runs, loc[r].pc # "new", NEW m, Moves(r, m), GoesTo(r, m)
    PROVE  RunsKept
<1>1. RunTypes
  BY TypeParts DEF FenceInv
<1>2. /\ loc' = [loc EXCEPT ![r] = m]
      /\ past' = past \/ (past' = [past EXCEPT ![r] = past[r] \cup {m}] /\ m.pc # "claim_read")
      /\ work' = work /\ request' = request
  BY DEF GoesTo
<1>3. RunTypes'
  BY <1>1, <1>2 DEF RunTypes, Moves
<1>4. \A s \in Runs : \A l \in past'[s] : l.pc # "claim_read"
  <2>1. \A s \in Runs : past'[s] \subseteq past[s] \cup {m}
    BY <1>1, <1>2 DEF RunTypes
  <2>2. past' = past \/ m.pc # "claim_read"
    BY <1>2
  <2>3. \A s \in Runs : \A l \in past[s] : l.pc # "claim_read"
    BY DEF FenceInv, TokenDrawn
  <2> QED BY <2>1, <2>2, <2>3
<1>5. \A s \in Runs :
        /\ loc'[s].pc = "new" => loc[s].pc = "new"
        /\ loc[s].token \in Runs => loc'[s].token \in Runs
        /\ loc'[s].pc \in {"claim", "claim_read"} => loc'[s].token \in Runs
  BY <1>1, <1>2 DEF RunTypes, Moves, FenceInv, TokenDrawn
<1> QED BY <1>2, <1>3, <1>4, <1>5 DEF RunsKept

(* Nothing happens to the runs, to the stores or to what is late. *)
LEMMA UnchangedKept ==
    ASSUME FenceInv
    PROVE  /\ UNCHANGED workflowVars => RunsKept
           /\ UNCHANGED <<storeVars, adapterVars>> => StoresKept
           /\ UNCHANGED late => LateKept
<1>1. RunTypes /\ StoreTypes /\ late \subseteq LateAttempts
  BY TypeParts DEF FenceInv
<1>2. ASSUME UNCHANGED workflowVars PROVE RunsKept
  <2>1. loc' = loc /\ past' = past /\ work' = work /\ request' = request
    BY <1>2 DEF workflowVars
  <2>2. RunTypes'
    BY <1>1, <2>1 DEF RunTypes
  <2> QED BY <2>1, <2>2 DEF RunsKept, FenceInv, TokenDrawn
<1>3. ASSUME UNCHANGED <<storeVars, adapterVars>> PROVE StoresKept
  BY <1>1, <1>3 DEF storeVars, adapterVars, StoreTypes, StoresKept, KeepsFence
<1>4. ASSUME UNCHANGED late PROVE LateKept
  BY <1>1, <1>4 DEF LateKept
<1> QED BY <1>2, <1>3, <1>4

(* An activity that ends, and where it sends its run. *)
LEMMA CompletesLemma ==
    ASSUME FenceInv, NEW r \in Runs, loc[r].pc \in ActivityPcs, NEW m, Moves(r, m), Completes(r, m)
    PROVE  RunsKept /\ StoresKept /\ FenceInv'
<1>1. /\ TakesEffect(Attempt(r)) /\ GoesTo(r, m)
      /\ disp' = disp /\ late' = late /\ policy' = policy
  BY DEF Completes
<1>2. loc[r].pc # "new"
  BY DEF ActivityPcs, AdvancePcs, AuditPcs, DecisionPcs
<1>3. RunsKept
  BY <1>1, <1>2, GoesToLemma
<1>4. StoresKept
  BY <1>1, AttemptLemma, EffectLemma
<1>5. LateKept
  BY <1>1, UnchangedKept
<1> QED BY <1>1, <1>3, <1>4, <1>5, Kept DEF FenceInv, TypeOK

(* A run that goes on while the stores and the target stay as they are. *)
LEMMA MoveLemma ==
    ASSUME FenceInv, NEW r \in Runs, loc[r].pc # "new", NEW m, Moves(r, m), GoesTo(r, m),
           UNCHANGED <<disp, late, policy, storeVars, adapterVars>>
    PROVE  StoresKept /\ FenceInv'
<1>1. RunsKept
  BY GoesToLemma
<1>2. StoresKept /\ LateKept /\ disp' = disp /\ policy' = policy
  BY UnchangedKept
<1> QED BY <1>1, <1>2, Kept DEF FenceInv, TypeOK

(* The verdict of re-validation is one of the three. *)
LEMMA VerdictLemma ==
    ASSUME NEW s, NEW q
    PROVE  Revalidate(s, q).verdict \in Verdicts
<1>1. \A a, p : Evaluate(s, a, p).verdict \in Verdicts
  BY DEF Evaluate, Decided, Verdicts
<1>2. \A a, p : DOMAIN Evaluate(s, a, p) = {"verdict", "reasons", "digest"}
  BY DEF Evaluate, Decided
<1> QED BY <1>1, <1>2 DEF Revalidate, Verdicts

-----------------------------------------------------------------------------
(* The actions. Only the fence and the adapter call change what the         *)
(* invariant says of a decision; every other step keeps the stores.         *)

LEMMA ActivityLemma ==
    ASSUME FenceInv, NEW r \in Runs,
           \/ VerifyIngressDecision(r) \/ ClaimDecision(r) \/ ReadHeldClaim(r)
           \/ EvaluateExecution(r) \/ RecordDecision(r) \/ RecordAuditTrail(r)
           \/ AdvanceExecutionClaim(r) \/ RevertStateCompensation(r)
    PROVE  StoresKept /\ FenceInv'
<1>0. loc[r] \in Locs
  BY DEF FenceInv, TypeOK
<1>1. CASE VerifyIngressDecision(r)
  <2>1. ASSUME NEW v \in BOOLEAN PROVE Moves(r, AfterVerify(r, v))
    <3>1. Moves(r, Rejecting(loc[r], "INGRESS_DECISION_INVALID"))
      BY <1>0, ReleasingLemma, OnwardMoves DEF Exits
    <3>2. Moves(r, [Goto(loc[r], "claim") EXCEPT !.token = r])
      BY <1>0 DEF Goto, Locs, Moves, Pcs, ActivityPcs
    <3> QED BY <3>1, <3>2 DEF AfterVerify
  <2> QED BY <1>1, <2>1, CompletesLemma DEF VerifyIngressDecision, Awaits, ActivityPcs
<1>2. CASE ClaimDecision(r)
  <2>1. loc[r].pc = "claim" /\ loc[r].token \in Runs
    BY <1>2 DEF ClaimDecision, Awaits, FenceInv, TokenDrawn
  <2>2. Moves(r, Goto(loc[r], "evaluate"))
    BY <1>0 DEF Goto, Locs, Moves, Pcs, ActivityPcs
  <2>3. Moves(r, [loc[r] EXCEPT !.pc = "claim_read"])
    BY <1>0, <2>1 DEF Locs, Moves, Pcs, ActivityPcs
  <2>4. Moves(r, IF CanClaim(Dec(r)) THEN AfterClaim(loc[r], TRUE)
                 ELSE [loc[r] EXCEPT !.pc = "claim_read"])
    BY <2>2, <2>3 DEF AfterClaim
  <2> QED BY <1>2, <2>1, <2>4, CompletesLemma DEF ClaimDecision, ActivityPcs
<1>3. CASE ReadHeldClaim(r)
  <2>1. Moves(r, Goto(loc[r], "evaluate"))
    BY <1>0 DEF Goto, Locs, Moves, Pcs, ActivityPcs
  <2>2. Moves(r, Rejecting(loc[r], "EXECUTION_CLAIM_REJECTED"))
    BY <1>0, ReleasingLemma, OnwardMoves DEF Exits
  <2>3. Moves(r, AfterClaim(loc[r], HeldBy(Dec(r), Owner(r))))
    BY <2>1, <2>2 DEF AfterClaim
  <2> QED BY <1>3, <2>3, CompletesLemma DEF ReadHeldClaim, Awaits, ActivityPcs
<1>4. CASE EvaluateExecution(r)
  <2>1. ASSUME NEW v \in Verdicts PROVE Moves(r, AfterEvaluation(loc[r], v))
    BY <1>0 DEF AfterEvaluation, Goto, Locs, Moves, Pcs, ActivityPcs, DecisionPcs
  <2> QED BY <1>4, <2>1, VerdictLemma, CompletesLemma DEF EvaluateExecution, Awaits, ActivityPcs
<1>5. ASSUME NEW ok \in BOOLEAN PROVE Moves(r, After(loc[r], ok))
  BY <1>0, AfterLemma, OnwardMoves
<1>6. CASE RecordDecision(r) \/ RecordAuditTrail(r) \/ RevertStateCompensation(r)
  <2>1. loc[r].pc \in ActivityPcs /\ Completes(r, After(loc[r], TRUE))
    BY <1>6 DEF RecordDecision, RecordAuditTrail, RevertStateCompensation, Awaits, ActivityPcs
  <2> QED BY <1>5, <2>1, CompletesLemma
<1>7. CASE AdvanceExecutionClaim(r)
  <2>1. CanAdvance(Dec(r), Owner(r), AdvanceTo(loc[r].pc)) \in BOOLEAN
    BY DEF CanAdvance
  <2>2. loc[r].pc \in ActivityPcs
    BY <1>7 DEF AdvanceExecutionClaim, Awaits, ActivityPcs
  <2> QED BY <1>5, <1>7, <2>1, <2>2, CompletesLemma DEF AdvanceExecutionClaim
<1> QED BY <1>1, <1>2, <1>3, <1>4, <1>6, <1>7

LEMMA ReplyLemma ==
    ASSUME NEW e \in Outcomes \cup {NoEffect}, NEW t, NEW ended \in BOOLEAN
    PROVE  /\ ReconcileReply(e, t) \in Outcomes \cup {NoEffect}
           /\ DispatchReply(e, t, ended) \in Outcomes \cup {NoEffect}
           /\ DispatchEffect(e, t, ended) \in Outcomes \cup {NoEffect}
BY DEF ReconcileReply, ReconcileEffect, DispatchReply, DispatchEffect, EffectAt, Applied,
       PartlyApplied, KeyFenced, UnknownOutcome, Outcomes, OutcomeStatuses

LEMMA WorkflowStepLemma ==
    ASSUME FenceInv, NEW r \in Runs, WorkflowStep(r)
    PROVE  StoresKept /\ FenceInv'
<1>0. loc[r] \in Locs
  BY DEF FenceInv, TypeOK
<1>1. ASSUME NEW ok \in BOOLEAN PROVE Moves(r, After(loc[r], ok))
  BY <1>0, AfterLemma, OnwardMoves
<1>2. ASSUME NEW o \in Outcomes \cup {NoEffect} PROVE Moves(r, AfterReconcile(loc[r], o))
  BY <1>0, AfterReconcileLemma, OnwardMoves
<1>3. CASE ReconcileDispatch(r)
  <2>1. loc[r].pc = "reconcile"
    BY <1>3 DEF ReconcileDispatch, Awaits
  <2>2. effects[Dec(r)] \in Outcomes \cup {NoEffect}
    BY <2>1, RequestsAssumption DEF FenceInv, TypeOK, Dec
  <2>3. CASE Completes(r, AfterReconcile(loc[r], ReconcileReply(effects[Dec(r)], Target(r))))
    BY <1>2, <2>1, <2>2, <2>3, ReplyLemma, CompletesLemma DEF ActivityPcs
  <2>4. CASE /\ GoesTo(r, AfterReconcile(loc[r], UnknownOutcome))
             /\ UNCHANGED <<disp, late, policy, storeVars, adapterVars>>
    BY <1>2, <2>1, <2>4, CheckedLemma, MoveLemma
  <2> QED BY <1>3, <2>3, <2>4 DEF ReconcileDispatch
<1>4. CASE WaitEnds(r)
  <2>1. loc[r].pc = "wait"
    BY <1>4 DEF WaitEnds, Awaits
  <2>2. Moves(r, NextRound(loc[r]))
    <3> DEFINE m == Goto(loc[r], "reconcile")
               doubled == IF 2 * loc[r].wait <= reconcileMaxWait THEN 2 * loc[r].wait ELSE reconcileMaxWait
    <3>1. m \in Locs /\ m.pc = "reconcile" /\ m.token = loc[r].token
      BY <1>0, GotoLemma DEF Pcs, ActivityPcs
    <3>2. m.round \in Nat /\ m.elapsed \in Nat /\ loc[r].wait \in Nat
      BY <1>0, <3>1 DEF Locs
    <3>3. m.round + 1 \in Nat /\ m.elapsed + loc[r].wait \in Nat /\ doubled \in Nat
      BY <3>2, ScheduleAssumption
    <3>4. ASSUME NEW i \in Nat, NEW j \in Nat, NEW k \in Nat
          PROVE  Moves(r, [m EXCEPT !.round = i, !.elapsed = j, !.wait = k])
      BY <3>1 DEF Locs, Moves
    <3>5. NextRound(loc[r]) =
             [m EXCEPT !.round = m.round + 1, !.elapsed = m.elapsed + loc[r].wait, !.wait = doubled]
      BY DEF NextRound
    <3>6. Moves(r, [m EXCEPT !.round = m.round + 1, !.elapsed = m.elapsed + loc[r].wait, !.wait = doubled])
      <4> HIDE DEF m, doubled
      <4> QED BY <3>3, <3>4, Zenon
    <3> QED BY <3>5, <3>6
  <2> QED BY <1>4, <2>1, <2>2, MoveLemma DEF WaitEnds
<1>5. CASE CancelledWait(r) \/ DispatchTimesOut(r)
  <2>1. /\ loc[r].pc # "new" /\ GoesTo(r, After(loc[r], FALSE))
        /\ UNCHANGED <<disp, late, policy, storeVars, adapterVars>>
    BY <1>5 DEF CancelledWait, DispatchTimesOut, Awaits, CancellablePcs
  <2> QED BY <1>1, <2>1, MoveLemma
<1>6. CASE DispatchReturns(r)
  <2>1. disp[r].outcome \in Outcomes
    BY DEF FenceInv, TypeOK
  <2>2. Moves(r, AfterDispatch(loc[r], disp[r]))
    BY <1>0, <2>1, AfterDispatchLemma, OnwardMoves
  <2>3. loc[r].pc # "new"
    BY <1>6 DEF DispatchReturns, Awaits
  <2> QED BY <1>6, <2>2, <2>3, MoveLemma DEF DispatchReturns
<1> QED BY <1>3, <1>4, <1>5, <1>6, ActivityLemma DEF WorkflowStep

(* Giving up on a run leaves at most its own attempt behind. *)
LEMMA AbandonsLemma ==
    ASSUME FenceInv, NEW r \in Runs, Abandons(r)
    PROVE  LateKept
<1>1. late \subseteq LateAttempts
  BY DEF FenceInv, TypeOK
<1>2. CASE late' = late
  BY <1>1, <1>2 DEF LateKept
<1>3. CASE MayBeLate(r) /\ late' = late \cup {Attempt(r)}
  <2>1. Attempted(Attempt(r), r) /\ Attempt(r).kind # "read"
    BY <1>3, AttemptLemma DEF MayBeLate
  <2>2. Attempt(r) \in LateAttempts /\ Startable(Attempt(r))
    BY <2>1 DEF Attempted
  <2> QED BY <1>1, <1>3, <2>2 DEF LateKept
<1> QED BY <1>2, <1>3 DEF Abandons

LEMMA RetryLemma ==
    ASSUME FenceInv, NEW r \in Runs, loc[r].pc \in ActivityPcs
    PROVE  Moves(r, RetryOrFail(r))
<1>0. loc[r] \in Locs /\ loc[r].pc # "new"
  BY DEF FenceInv, TypeOK, ActivityPcs, AdvancePcs, AuditPcs, DecisionPcs
<1>1. Moves(r, After(loc[r], FALSE))
  BY <1>0, AfterLemma, OnwardMoves
<1>2. loc[r].tries + 1 \in Nat
  <2>1. loc[r].tries \in Nat
    BY <1>0 DEF Locs
  <2> QED BY <2>1
<1>3. loc[r].pc \in {"claim", "claim_read"} => loc[r].token \in Runs
  BY DEF FenceInv, TokenDrawn
<1>4. ASSUME NEW n \in Nat
      PROVE  Moves(r, [loc[r] EXCEPT !.tries = n, !.pc = IF @ = "claim_read" THEN "claim" ELSE @])
  BY <1>0, <1>3 DEF Locs, Moves, Pcs, ActivityPcs
<1> QED BY <1>1, <1>2, <1>4 DEF RetryOrFail

LEMMA DisturbanceLemma ==
    ASSUME FenceInv, NEW r \in Runs, Disturbance(r), ~FenceWriteFails(r)
    PROVE  StoresKept /\ FenceInv'
<1>0. RunTypes /\ policy \in Policies
  BY TypeParts DEF FenceInv
<1>1. CASE AttemptFails(r)
  <2>1. loc[r].pc \in ActivityPcs /\ loc[r].pc # "new"
    BY <1>1 DEF AttemptFails, Awaits, ActivityPcs, AdvancePcs, AuditPcs, DecisionPcs
  <2>2. RunsKept
    BY <1>1, <2>1, RetryLemma, GoesToLemma DEF AttemptFails
  <2>3. StoresKept
    BY <1>1, <2>1, AttemptLemma, EffectLemma, UnchangedKept DEF AttemptFails
  <2>4. LateKept /\ disp' = disp /\ policy' = policy
    BY <1>1, UnchangedKept DEF AttemptFails
  <2> QED BY <1>0, <2>2, <2>3, <2>4, Kept
<1>2. CASE AttemptTimesOut(r)
  <2>1. loc[r].pc \in ActivityPcs /\ loc[r].pc # "new"
    BY <1>2 DEF AttemptTimesOut, Awaits, ActivityPcs, AdvancePcs, AuditPcs, DecisionPcs
  <2>2. RunsKept
    BY <1>2, <2>1, RetryLemma, GoesToLemma DEF AttemptTimesOut
  <2>3. LateKept
    BY <1>2, AbandonsLemma DEF AttemptTimesOut, Abandons
  <2>4. StoresKept /\ disp' = disp /\ policy' = policy
    BY <1>2, UnchangedKept DEF AttemptTimesOut
  <2> QED BY <1>0, <2>2, <2>3, <2>4, Kept
<1>3. CASE Cancel(r) \/ Terminate(r)
  <2>1. Open(r) /\ loc[r] \in Locs /\ loc[r].pc # "new"
    BY <1>0, <1>3 DEF Cancel, Terminate, Open, RunTypes
  <2>2. Moves(r, [loc[r] EXCEPT !.cancelled = TRUE])
    BY <2>1 DEF Locs, Moves, FenceInv, TokenDrawn
  <2>3. Moves(r, Exit(loc[r], "TERMINATED"))
    BY <2>1, ExitLemma, OnwardMoves DEF Exits
  <2>4. PICK m : /\ Moves(r, m) /\ loc' = [loc EXCEPT ![r] = m]
                 /\ past' = past /\ work' = work /\ request' = request
    BY <1>3, <2>2, <2>3 DEF Cancel, Terminate
  <2>5. RunsKept
    <3>1. RunTypes'
      <4>1. m \in Locs /\ m.pc # "new"
        BY <2>4 DEF Moves
      <4>2. loc' \in [Runs -> Locs]
        BY <1>0, <2>4, <4>1 DEF RunTypes
      <4>3. \A s \in Runs : loc'[s].pc # "new" => work[s] \in Workflows /\ request[s] \in Requests
        BY <1>0, <2>1, <2>4 DEF RunTypes
      <4> QED BY <1>0, <2>4, <4>2, <4>3 DEF RunTypes
    <3>2. \A s \in Runs :
            /\ loc'[s].pc = "new" => loc[s].pc = "new"
            /\ loc[s].token \in Runs => loc'[s].token \in Runs
            /\ loc'[s].pc \in {"claim", "claim_read"} => loc'[s].token \in Runs
      BY <1>0, <2>4 DEF RunTypes, Moves, FenceInv, TokenDrawn
    <3> QED BY <2>4, <3>1, <3>2 DEF RunsKept, FenceInv, TokenDrawn
  <2>6. LateKept
    BY <1>3, AbandonsLemma, UnchangedKept DEF Cancel, Terminate
  <2>7. StoresKept /\ disp' = disp /\ policy' = policy
    BY <1>3, UnchangedKept DEF Cancel, Terminate
  <2> QED BY <1>0, <2>5, <2>6, <2>7, Kept
<1>4. ASSUME NEW s \in Runs, NEW l \in past[r], Reset(r, s, l)
      PROVE  StoresKept /\ FenceInv'
  <2>1. /\ loc[r].pc # "new" /\ loc[s].pc = "new" /\ r # s
        /\ loc[r] \in Locs /\ l \in Locs /\ l.pc # "claim_read"
    BY <1>0, <1>4 DEF Reset, RunTypes, FenceInv, TokenDrawn
  <2>2. Moves(r, Exit(loc[r], "TERMINATED")) /\ Moves(r, loc[r])
    BY <2>1, ExitLemma, OnwardMoves DEF Exits, Moves, FenceInv, TokenDrawn
  <2>3. PICK m : /\ Moves(r, m)
                 /\ loc' = [loc EXCEPT ![r] = m, ![s] = IF l.pc = "claim" THEN [l EXCEPT !.token = s] ELSE l]
    BY <1>4, <2>2 DEF Reset
  <2> DEFINE k == IF l.pc = "claim" THEN [l EXCEPT !.token = s] ELSE l
  <2>4. k \in Locs /\ k.pc = l.pc /\ (k.pc = "claim" => k.token \in Runs)
    BY <2>1 DEF Locs
  <2>5. /\ loc' = [loc EXCEPT ![r] = m, ![s] = k]
        /\ loc'[s] = k
    BY <1>0, <2>1, <2>3 DEF RunTypes
  <2> HIDE DEF k
  <2>6. /\ past' = [past EXCEPT ![s] = {k}]
        /\ work' = [work EXCEPT ![s] = work[r]]
        /\ request' = [request EXCEPT ![s] = request[r]]
    BY <1>4, <2>5 DEF Reset
  <2>7. RunsKept
    <3>1. RunTypes'
      BY <1>0, <2>1, <2>3, <2>4, <2>5, <2>6 DEF RunTypes, Moves
    <3>2. \A t \in Runs :
            /\ loc'[t].pc = "new" => loc[t].pc = "new"
            /\ loc[t].pc # "new" => request'[t] = request[t]
            /\ loc[t].pc # "new" /\ loc[t].token \in Runs => loc'[t].token \in Runs
            /\ loc'[t].pc \in {"claim", "claim_read"} => loc'[t].token \in Runs
      BY <1>0, <2>1, <2>3, <2>4, <2>5, <2>6 DEF RunTypes, Moves, FenceInv, TokenDrawn
    <3>3. \A t \in Runs : \A h \in past'[t] : h.pc # "claim_read"
      <4>1. \A t \in Runs : past'[t] \subseteq past[t] \cup {k}
        BY <1>0, <2>6 DEF RunTypes
      <4> QED BY <2>1, <2>4, <4>1 DEF FenceInv, TokenDrawn
    <3> QED BY <3>1, <3>2, <3>3 DEF RunsKept
  <2>8. LateKept
    BY <1>4, AbandonsLemma, UnchangedKept DEF Reset
  <2>9. StoresKept /\ disp' = disp /\ policy' = policy
    BY <1>4, UnchangedKept DEF Reset
  <2> QED BY <1>0, <2>7, <2>8, <2>9, Kept
<1>5. CASE RoundLasts(r)
  <2>1. loc[r] \in Locs /\ loc[r].pc = "reconcile" /\ loc[r].elapsed \in Nat
    BY <1>0, <1>5 DEF RoundLasts, RunTypes, Locs
  <2>2. loc[r].elapsed + 1 \in Nat
    BY <2>1
  <2>3. ASSUME NEW n \in Nat PROVE Moves(r, [loc[r] EXCEPT !.elapsed = n])
    BY <2>1 DEF Locs, Moves
  <2> QED BY <1>5, <2>1, <2>2, <2>3, MoveLemma DEF RoundLasts
<1> QED BY <1>1, <1>2, <1>3, <1>4, <1>5 DEF Disturbance

-----------------------------------------------------------------------------
(* The dispatch activity. *)

(* A step of one dispatch activity that changes nothing but its own stage   *)
(* and, for some decision d, the claim, the effect and the calls.           *)
DispatchOnly(r) ==
    /\ UNCHANGED <<workflowVars, late, policy>>
    /\ DispatchTypes' /\ StoreTypes'
    /\ \A s \in Runs \ {r} : disp'[s] = disp[s]
    /\ disp[r].at # "none"  \/ loc[r].pc # "new"

(* Such a step keeps the invariant if it keeps its two central parts. *)
LEMMA DispatchOnlyLemma ==
    ASSUME FenceInv, NEW r \in Runs, DispatchOnly(r), FenceHeld', CallsAreFenced'
    PROVE  FenceInv'
<1>1. loc' = loc /\ past' = past /\ work' = work /\ request' = request /\ late' = late /\ policy' = policy
  BY DEF DispatchOnly, workflowVars
<1>2. TypeOK'
  BY <1>1 DEF FenceInv, TypeOK, DispatchOnly, DispatchTypes, StoreTypes, ClaimsTypeOK
<1>3. NewIsIdle'
  <2>1. loc[r].pc # "new"
    BY DEF DispatchOnly, FenceInv, NewIsIdle
  <2> QED BY <1>1, <2>1 DEF DispatchOnly, FenceInv, NewIsIdle
<1>4. TokenDrawn'
  BY <1>1 DEF FenceInv, TokenDrawn
<1> QED BY <1>2, <1>3, <1>4 DEF FenceInv

(* The owner of a claim past the fence is a run. *)
LEMMA FencedOwner ==
    ASSUME FenceInv, NEW d \in Decisions, claims[d].state \in FencedStates
    PROVE  claims[d] \in [state : ClaimStates, owner : Owners] /\ claims[d].owner.run \in Runs
<1>0. claims[d] \in Claims
  BY DEF FenceInv, TypeOK, ClaimsTypeOK
<1>1. claims[d] # NoClaim
  BY DEF NoClaim, FencedStates
<1>2. claims[d] \in [state : ClaimStates, owner : Owners]
  BY <1>0, <1>1 DEF Claims
<1>3. claims[d].owner \in Owners
  BY <1>2
<1> QED BY <1>2, <1>3 DEF Owners

(* Stages in which an activity neither holds the fence nor is over. *)
LEMMA IdleStageLemma ==
    ASSUME FenceInv, NEW r \in Runs, DispatchOnly(r), claims' = claims, calls' = calls,
           disp[r].at \in {"none", "started", "not_held"}, disp'[r].at # "fenced"
    PROVE  FenceInv' /\ KeepsFence
<1>1. request' = request
  BY DEF DispatchOnly, workflowVars
<1>2. FenceHeld'
  BY <1>1 DEF FenceInv, FenceHeld, DispatchOnly, Dec
<1>3. CallsAreFenced'
  <2> SUFFICES ASSUME NEW d \in Decisions, calls[d] > 0
               PROVE  disp'[claims[d].owner.run].at \in {"done", "lost"}
    BY DEF FenceInv, CallsAreFenced
  <2>1. disp[claims[d].owner.run].at \in {"done", "lost"} /\ claims[d].state \in FencedStates
    BY DEF FenceInv, CallsAreFenced
  <2>2. claims[d].owner.run \in Runs
    BY <2>1, FencedOwner
  <2> QED BY <2>1, <2>2 DEF DispatchOnly
<1> QED BY <1>2, <1>3, DispatchOnlyLemma DEF KeepsFence

(* A run that has an activity has started and names a decision. *)
LEMMA StartedLemma ==
    ASSUME FenceInv, NEW r \in Runs, disp[r].at # "none" \/ loc[r].pc # "new"
    PROVE  /\ loc[r].pc # "new" /\ Dec(r) \in Decisions
           /\ StoreTypes /\ DispatchTypes /\ ClaimsTypeOK
<1>1. loc[r].pc # "new"
  BY DEF FenceInv, NewIsIdle
<1>2. Dec(r) \in Decisions
  BY <1>1, RequestsAssumption DEF FenceInv, TypeOK, Dec
<1> QED BY <1>1, <1>2, TypeParts DEF FenceInv, TypeOK

(* What the fence's UPDATE does when it changes the row: no other decision  *)
(* is touched, and this one was CLAIMED, so it had not been called.         *)
LEMMA FenceWrite ==
    ASSUME FenceInv, NEW r \in Runs, disp[r].at = "started",
           claims' = AdvanceWrite(Dec(r), Owner(r), "EXECUTING"),
           CanAdvance(Dec(r), Owner(r), "EXECUTING")
    PROVE  /\ claims[Dec(r)].state = "CLAIMED" /\ calls[Dec(r)] = 0
           /\ claims'[Dec(r)].state = "EXECUTING"
           /\ claims'[Dec(r)].owner = claims[Dec(r)].owner
           /\ claims'[Dec(r)].owner.run = r
           /\ \A e \in Decisions \ {Dec(r)} : claims'[e] = claims[e]
           /\ claims' \in [Decisions -> Claims]
<1>0. Dec(r) \in Decisions /\ ClaimsTypeOK /\ StoreTypes
  BY StartedLemma
<1>1. claims[Dec(r)].state = "CLAIMED" /\ claims[Dec(r)].owner = Owner(r)
  BY DEF CanAdvance, ClaimSources
<1>2. calls[Dec(r)] = 0
  <2>1. calls[Dec(r)] \in Nat
    BY <1>0 DEF StoreTypes
  <2>2. ~(calls[Dec(r)] > 0)
    BY <1>0, <1>1 DEF FenceInv, CallsAreFenced, FencedStates
  <2> QED BY <2>1, <2>2
<1>3. claims' = [claims EXCEPT ![Dec(r)].state = "EXECUTING"]
  BY DEF AdvanceWrite
<1>4. claims[Dec(r)] \in [state : ClaimStates, owner : Owners]
  <2>1. claims[Dec(r)] \in Claims /\ claims[Dec(r)] # NoClaim
    BY <1>0, <1>1 DEF ClaimsTypeOK, NoClaim
  <2> QED BY <2>1 DEF Claims
<1>5. claims'[Dec(r)] = [claims[Dec(r)] EXCEPT !.state = "EXECUTING"]
  BY <1>0, <1>3 DEF ClaimsTypeOK
<1>6. claims'[Dec(r)].state = "EXECUTING" /\ claims'[Dec(r)].owner = claims[Dec(r)].owner
  BY <1>4, <1>5
<1>7. Owner(r).run = r
  BY DEF Owner
<1>8. claims' \in [Decisions -> Claims]
  BY <1>0, AdvanceWriteLemma
<1>9. \A e \in Decisions \ {Dec(r)} : claims'[e] = claims[e]
  BY <1>0, <1>3 DEF ClaimsTypeOK
<1> QED BY <1>1, <1>2, <1>6, <1>7, <1>8, <1>9

(* After that write the fence is held, if the activity is past it, and by   *)
(* nobody else.                                                             *)
LEMMA FenceWriteKeeps ==
    ASSUME FenceInv, NEW r \in Runs, disp[r].at = "started", DispatchOnly(r),
           claims' = AdvanceWrite(Dec(r), Owner(r), "EXECUTING"), calls' = calls,
           CanAdvance(Dec(r), Owner(r), "EXECUTING")
    PROVE  FenceInv'
<1>0. Dec(r) \in Decisions
  BY StartedLemma
<1>1. request' = request
  BY DEF DispatchOnly, workflowVars
<1>2. FenceHeld'
  <2> SUFFICES ASSUME NEW s \in Runs, disp'[s].at = "fenced"
               PROVE  /\ claims'[Dec(s)].state \in FencedStates
                      /\ claims'[Dec(s)].owner.run = s
                      /\ calls[Dec(s)] = 0
    BY <1>1 DEF FenceHeld, Dec
  <2>1. CASE s = r
    BY <2>1, FenceWrite DEF FencedStates
  <2>2. CASE s # r
    <3>1. disp[s].at = "fenced"
      BY <2>2 DEF DispatchOnly
    <3>2. /\ claims[Dec(s)].state \in FencedStates
          /\ claims[Dec(s)].owner.run = s
          /\ calls[Dec(s)] = 0
      BY <3>1 DEF FenceInv, FenceHeld
    <3>3. Dec(s) \in Decisions
      BY <3>1, StartedLemma
    <3>4. Dec(s) # Dec(r)
      BY <3>2, FenceWrite DEF FencedStates
    <3> QED BY <3>2, <3>3, <3>4, FenceWrite
  <2> QED BY <2>1, <2>2
<1>3. CallsAreFenced'
  <2> SUFFICES ASSUME NEW d \in Decisions, calls[d] > 0
               PROVE  /\ calls[d] = 1
                      /\ claims'[d].state \in FencedStates
                      /\ disp'[claims'[d].owner.run].at \in {"done", "lost"}
    BY DEF CallsAreFenced
  <2>1. /\ calls[d] = 1
        /\ claims[d].state \in FencedStates
        /\ disp[claims[d].owner.run].at \in {"done", "lost"}
    BY DEF FenceInv, CallsAreFenced
  <2>2. d # Dec(r)
    BY FenceWrite
  <2>3. claims'[d] = claims[d]
    BY <2>2, FenceWrite
  <2>4. claims[d].owner.run \in Runs /\ claims[d].owner.run # r
    BY <2>1, FencedOwner
  <2> QED BY <2>1, <2>3, <2>4 DEF DispatchOnly
<1> QED BY <1>2, <1>3, DispatchOnlyLemma

(* The stages of the dispatch activity, and the two ways its fence can fail *)
(* to be seen. Either no claim passes the fence and no call is made, or one *)
(* claim passes it, or the one call is made past it.                        *)
FencesOne(r) ==
    /\ claims[Dec(r)].state = "CLAIMED"
    /\ claims'[Dec(r)].state = "EXECUTING" /\ claims'[Dec(r)].owner.run = r
    /\ \A e \in Decisions \ {Dec(r)} : claims'[e] = claims[e]
    /\ calls' = calls

CallsOne(r) ==
    /\ claims' = claims /\ claims[Dec(r)].state \in FencedStates /\ claims[Dec(r)].owner.run \in Runs
    /\ calls[Dec(r)] = 0 /\ calls' = [calls EXCEPT ![Dec(r)] = 1]

OneAtATime(r) == (KeepsFence /\ calls' = calls) \/ FencesOne(r) \/ CallsOne(r)

(* A fence attempt, whatever its activity then does but call. *)
LEMMA FenceLemma ==
    ASSUME FenceInv, NEW r \in Runs, AcquireFence(r) \/ FenceWriteFails(r)
    PROVE  FenceInv' /\ OneAtATime(r)
<1>0. /\ disp[r].at = "started" /\ UNCHANGED <<workflowVars, late, policy, revals, audit, adapterVars>>
      /\ claims' \in {claims, AdvanceWrite(Dec(r), Owner(r), "EXECUTING")}
  BY DEF AcquireFence, FenceWriteFails
<1>1. Dec(r) \in Decisions /\ StoreTypes /\ DispatchTypes /\ ClaimsTypeOK
  BY <1>0, StartedLemma
<1>2. /\ \A s \in Runs \ {r} : disp'[s] = disp[s]
      /\ DispatchTypes'
  <2>1. CASE AcquireFence(r)
    <3>1. PICK stage \in {"fenced", "not_held"} : disp' = [disp EXCEPT ![r].at = stage]
      BY <2>1 DEF AcquireFence, DispatchGoes
    <3> QED BY <1>1, <3>1 DEF DispatchTypes, DispatchStages
  <2>2. CASE FenceWriteFails(r)
    <3>1. disp' = [disp EXCEPT ![r] = [at |-> "done", kind |-> "FENCE_UNKNOWN", outcome |-> UnknownOutcome]]
      BY <2>2 DEF FenceWriteFails, DispatchEnds
    <3>2. UnknownOutcome \in Outcomes
      BY CheckedLemma
    <3> QED BY <1>1, <3>1, <3>2 DEF DispatchTypes, DispatchStages, ResultKinds
  <2> QED BY <1>0, <2>1, <2>2
<1>3. StoreTypes' /\ calls' = calls
  <2>1. claims' \in [Decisions -> Claims]
    BY <1>0, <1>1, AdvanceWriteLemma DEF ClaimsTypeOK
  <2> QED BY <1>0, <1>1, <2>1 DEF StoreTypes, adapterVars
<1>4. DispatchOnly(r)
  BY <1>0, <1>2, <1>3 DEF DispatchOnly
<1>5. CASE CanAdvance(Dec(r), Owner(r), "EXECUTING") /\ claims' # claims
  <2>1. claims' = AdvanceWrite(Dec(r), Owner(r), "EXECUTING")
    BY <1>0, <1>5
  <2>2. FencesOne(r)
    BY <1>0, <1>3, <1>5, <2>1, FenceWrite DEF FencesOne
  <2> QED BY <1>0, <1>3, <1>4, <1>5, <2>1, <2>2, FenceWriteKeeps DEF OneAtATime
<1>6. CASE claims' = claims /\ ~CanAdvance(Dec(r), Owner(r), "EXECUTING")
  <2>1. disp'[r].at # "fenced"
    BY <1>1, <1>6 DEF AcquireFence, FenceWriteFails, DispatchGoes, DispatchEnds, DispatchTypes
  <2> QED BY <1>0, <1>3, <1>4, <1>6, <2>1, IdleStageLemma DEF OneAtATime
<1>7. CASE claims' = claims /\ CanAdvance(Dec(r), Owner(r), "EXECUTING")
  <2>1. claims' # AdvanceWrite(Dec(r), Owner(r), "EXECUTING")
    <3>1. claims[Dec(r)].state = "CLAIMED"
      BY <1>7 DEF CanAdvance, ClaimSources
    <3>2. ASSUME claims' = AdvanceWrite(Dec(r), Owner(r), "EXECUTING") PROVE FALSE
      BY <1>0, <1>7, <3>1, <3>2, FenceWrite
    <3> QED BY <3>2
  <2>2. FenceWriteFails(r)
    BY <2>1 DEF AcquireFence
  <2>3. disp'[r].at # "fenced"
    BY <1>1, <2>2 DEF FenceWriteFails, DispatchEnds, DispatchTypes
  <2> QED BY <1>0, <1>3, <1>4, <1>7, <2>3, IdleStageLemma DEF OneAtATime
<1>8. claims' = claims \/ CanAdvance(Dec(r), Owner(r), "EXECUTING")
  BY <1>0 DEF AdvanceWrite
<1> QED BY <1>5, <1>6, <1>7, <1>8

LEMMA CallLemma ==
    ASSUME FenceInv, NEW r \in Runs, CallAdapter(r)
    PROVE  FenceInv' /\ CallsOne(r)
<1> DEFINE d == Dec(r)
<1>0. PICK ended \in BOOLEAN :
        /\ disp[r].at = "fenced"
        /\ effects' = [effects EXCEPT ![d] = DispatchEffect(@, Target(r), ended)]
        /\ mutations' = [mutations EXCEPT ![d] =
                             @ + IF Applies(effects[d], Target(r), ended) THEN 1 ELSE 0]
        /\ calls' = [calls EXCEPT ![d] = @ + 1]
        /\ DispatchEnds(r, "OUTCOME", Checked(DispatchReply(effects[d], Target(r), ended)))
        /\ UNCHANGED <<workflowVars, late, policy, storeVars, compensations>>
  BY DEF CallAdapter
<1>1. d \in Decisions /\ StoreTypes /\ DispatchTypes /\ ClaimsTypeOK
  BY <1>0, StartedLemma
<1>2. claims[d].state \in FencedStates /\ claims[d].owner.run = r /\ calls[d] = 0
  BY <1>0 DEF FenceInv, FenceHeld
<1>3. claims' = claims /\ revals' = revals /\ audit' = audit /\ compensations' = compensations
  BY <1>0 DEF storeVars
<1>4. calls' = [calls EXCEPT ![d] = 1]
  BY <1>0, <1>1, <1>2 DEF StoreTypes
<1>5. effects[d] \in Outcomes \cup {NoEffect}
  BY <1>1 DEF StoreTypes
<1>6. StoreTypes'
  <2>1. DispatchEffect(effects[d], Target(r), ended) \in Outcomes \cup {NoEffect}
    BY <1>5, ReplyLemma
  <2>2. effects' \in [Decisions -> Outcomes \cup {NoEffect}]
    BY <1>0, <1>1, <2>1 DEF StoreTypes
  <2>3. mutations' \in [Decisions -> Nat]
    <3>1. mutations[d] \in Nat
      BY <1>1 DEF StoreTypes
    <3>2. mutations[d] + (IF Applies(effects[d], Target(r), ended) THEN 1 ELSE 0) \in Nat
      BY <3>1
    <3> QED BY <1>0, <1>1, <3>2 DEF StoreTypes
  <2>4. calls' \in [Decisions -> Nat]
    BY <1>1, <1>4 DEF StoreTypes
  <2> QED BY <1>1, <1>3, <2>2, <2>3, <2>4 DEF StoreTypes
<1>7. DispatchTypes' /\ disp'[r].at = "done" /\ \A s \in Runs \ {r} : disp'[s] = disp[s]
  <2>1. Checked(DispatchReply(effects[d], Target(r), ended)) \in Outcomes
    BY <1>5, ReplyLemma, CheckedLemma
  <2>2. PICK o \in Outcomes : disp' = [disp EXCEPT ![r] = [at |-> "done", kind |-> "OUTCOME", outcome |-> o]]
    BY <1>0, <2>1 DEF DispatchEnds
  <2> QED BY <1>1, <2>2 DEF DispatchTypes, DispatchStages, ResultKinds
<1>8. DispatchOnly(r)
  BY <1>0, <1>6, <1>7 DEF DispatchOnly
<1>9. request' = request
  BY <1>8 DEF DispatchOnly, workflowVars
<1>10. FenceHeld'
  <2> SUFFICES ASSUME NEW s \in Runs, disp'[s].at = "fenced"
               PROVE  /\ claims[Dec(s)].state \in FencedStates
                      /\ claims[Dec(s)].owner.run = s
                      /\ calls'[Dec(s)] = 0
    BY <1>3, <1>9 DEF FenceHeld, Dec
  <2>1. s # r /\ disp[s].at = "fenced"
    BY <1>7
  <2>2. /\ claims[Dec(s)].state \in FencedStates
        /\ claims[Dec(s)].owner.run = s
        /\ calls[Dec(s)] = 0
    BY <2>1 DEF FenceInv, FenceHeld
  <2>3. Dec(s) # d
    BY <1>2, <2>1, <2>2
  <2>4. Dec(s) \in Decisions
    BY <2>1, StartedLemma
  <2> QED BY <1>1, <1>4, <2>2, <2>3, <2>4 DEF StoreTypes
<1>11. CallsAreFenced'
  <2> SUFFICES ASSUME NEW e \in Decisions, calls'[e] > 0
               PROVE  /\ calls'[e] = 1
                      /\ claims[e].state \in FencedStates
                      /\ disp'[claims[e].owner.run].at \in {"done", "lost"}
    BY <1>3 DEF CallsAreFenced
  <2>1. CASE e = d
    BY <1>1, <1>2, <1>4, <1>7, <2>1 DEF StoreTypes
  <2>2. CASE e # d
    <3>1. calls'[e] = calls[e]
      BY <1>1, <1>4, <2>2 DEF StoreTypes
    <3>2. /\ calls[e] = 1
          /\ claims[e].state \in FencedStates
          /\ disp[claims[e].owner.run].at \in {"done", "lost"}
      BY <3>1 DEF FenceInv, CallsAreFenced
    <3>3. claims[e].owner.run \in Runs /\ claims[e].owner.run # r
      BY <1>0, <3>2, FencedOwner
    <3> QED BY <1>7, <3>1, <3>2, <3>3
  <2> QED BY <2>1, <2>2
<1> QED BY <1>2, <1>3, <1>4, <1>8, <1>10, <1>11, DispatchOnlyLemma DEF CallsOne

LEMMA DispatchStepLemma ==
    ASSUME FenceInv, NEW r \in Runs, DispatchStep(r)
    PROVE  FenceInv' /\ OneAtATime(r)
<1>1. CASE StartDispatch(r) \/ ReadFencedClaim(r)
  <2>0. /\ disp[r].at \in {"none", "not_held"} /\ (disp[r].at # "none" \/ loc[r].pc # "new")
        /\ UNCHANGED <<workflowVars, late, policy, storeVars, adapterVars>>
    BY <1>1 DEF StartDispatch, ReadFencedClaim, Awaits
  <2>1. StoreTypes /\ DispatchTypes
    BY <2>0, StartedLemma
  <2>2. /\ DispatchTypes' /\ disp'[r].at \in {"started", "done"}
        /\ \A s \in Runs \ {r} : disp'[s] = disp[s]
    <3>1. CASE StartDispatch(r)
      <4>1. disp' = [disp EXCEPT ![r].at = "started"]
        BY <3>1 DEF StartDispatch, DispatchGoes
      <4> QED BY <2>1, <4>1 DEF DispatchTypes, DispatchStages
    <3>2. CASE ReadFencedClaim(r)
      <4>1. PICK k \in ResultKinds :
              disp' = [disp EXCEPT ![r] = [at |-> "done", kind |-> k, outcome |-> UnknownOutcome]]
        BY <3>2 DEF ReadFencedClaim, DispatchEnds, ResultKinds
      <4>2. UnknownOutcome \in Outcomes
        BY CheckedLemma
      <4> QED BY <2>1, <4>1, <4>2 DEF DispatchTypes, DispatchStages
    <3> QED BY <1>1, <3>1, <3>2
  <2>3. StoreTypes' /\ claims' = claims /\ calls' = calls
    BY <2>0, <2>1 DEF storeVars, adapterVars, StoreTypes
  <2>4. DispatchOnly(r)
    BY <2>0, <2>2, <2>3 DEF DispatchOnly
  <2> QED BY <2>0, <2>2, <2>3, <2>4, IdleStageLemma DEF OneAtATime
<1> QED BY <1>1, FenceLemma, CallLemma DEF DispatchStep, OneAtATime

-----------------------------------------------------------------------------
(* Starts, late attempts, restarts and reloads. *)

LEMMA StartLemma ==
    ASSUME FenceInv, NEW r \in Runs, NEW w \in Workflows, NEW q \in Requests, StartWorkflow(r, w, q)
    PROVE  StoresKept /\ FenceInv'
<1>0. RunTypes /\ policy \in Policies /\ loc[r].pc = "new" /\ loc[r] \in Locs
  BY TypeParts DEF FenceInv, RunTypes, StartWorkflow
<1> DEFINE m == [loc[r] EXCEPT !.pc = "verify"]
<1>1. m \in Locs /\ m.pc = "verify"
  BY <1>0 DEF Locs, Pcs, ActivityPcs
<1>2. loc' = [loc EXCEPT ![r] = m] /\ loc'[r] = m
  BY <1>0 DEF StartWorkflow, RunTypes
<1> HIDE DEF m
<1>3. /\ past' = past \/ past' = [past EXCEPT ![r] = {m}]
      /\ work' = [work EXCEPT ![r] = w] /\ request' = [request EXCEPT ![r] = q]
  BY <1>2 DEF StartWorkflow
<1>4. RunsKept
  <2>1. RunTypes'
    BY <1>0, <1>1, <1>2, <1>3 DEF RunTypes
  <2>2. \A t \in Runs :
          /\ loc'[t].pc = "new" => loc[t].pc = "new"
          /\ loc[t].pc # "new" => request'[t] = request[t]
          /\ loc[t].pc # "new" /\ loc[t].token \in Runs => loc'[t].token \in Runs
          /\ loc'[t].pc \in {"claim", "claim_read"} => loc'[t].token \in Runs
    BY <1>0, <1>1, <1>2, <1>3 DEF RunTypes, FenceInv, TokenDrawn
  <2>3. \A t \in Runs : \A h \in past'[t] : h.pc # "claim_read"
    <3>1. \A t \in Runs : past'[t] \subseteq past[t] \cup {m}
      BY <1>0, <1>3 DEF RunTypes
    <3> QED BY <1>1, <3>1 DEF FenceInv, TokenDrawn
  <2> QED BY <2>1, <2>2, <2>3 DEF RunsKept
<1>5. StoresKept /\ LateKept /\ disp' = disp /\ policy' = policy
  BY UnchangedKept DEF StartWorkflow
<1> QED BY <1>0, <1>4, <1>5, Kept

LEMMA LateLemma ==
    ASSUME FenceInv, NEW op \in late, LateAttempt(op)
    PROVE  StoresKept /\ FenceInv'
<1>1. op \in LateAttempts /\ op.run \in Runs /\ policy \in Policies
  BY DEF FenceInv, TypeOK, LateAttempts
<1>2. Attempted(op, op.run)
  BY <1>1 DEF FenceInv, NewIsIdle, TokenDrawn, Attempted, Startable
<1>3. StoresKept
  BY <1>1, <1>2, EffectLemma DEF LateAttempt
<1>4. RunsKept /\ disp' = disp /\ policy' = policy
  BY UnchangedKept DEF LateAttempt
<1>5. LateKept
  BY DEF LateAttempt, LateKept, FenceInv, TypeOK
<1> QED BY <1>1, <1>3, <1>4, <1>5, Kept

(* A dead worker's activities hold no fence any more, and a called decision *)
(* keeps an owner whose activity is over.                                   *)
LEMMA RestartLemma ==
    ASSUME FenceInv, WorkerRestart
    PROVE  KeepsFence /\ calls' = calls /\ FenceInv'
<1>1. /\ UNCHANGED <<workflowVars, policy, storeVars, calls, mutations, compensations>>
      /\ late' = {} /\ effects' = [d \in Decisions |-> NoEffect]
  BY DEF WorkerRestart
<1>2. /\ loc' = loc /\ past' = past /\ work' = work /\ request' = request /\ policy' = policy
      /\ claims' = claims /\ revals' = revals /\ audit' = audit /\ calls' = calls
      /\ mutations' = mutations /\ compensations' = compensations
  BY <1>1 DEF workflowVars, storeVars
<1>3. DispatchTypes
  BY TypeParts DEF FenceInv
<1>4. \A r \in Runs :
        /\ disp'[r] \in [at : DispatchStages, kind : ResultKinds, outcome : Outcomes]
        /\ disp'[r].at = IF disp[r].at = "none" THEN "none" ELSE "lost"
  <2> SUFFICES ASSUME NEW r \in Runs
               PROVE  /\ disp'[r] \in [at : DispatchStages, kind : ResultKinds, outcome : Outcomes]
                      /\ disp'[r].at = IF disp[r].at = "none" THEN "none" ELSE "lost"
    OBVIOUS
  <2>1. disp'[r] = IF disp[r].at = "none" THEN disp[r] ELSE [disp[r] EXCEPT !.at = "lost"]
    BY DEF WorkerRestart
  <2>2. disp[r] \in [at : DispatchStages, kind : ResultKinds, outcome : Outcomes]
    BY <1>3 DEF DispatchTypes
  <2> QED BY <2>1, <2>2 DEF DispatchStages
<1>5. DispatchTypes'
  <2>1. disp' = [r \in Runs |-> disp'[r]]
    BY DEF WorkerRestart
  <2> QED BY <1>4, <2>1 DEF DispatchTypes
<1>6. TypeOK'
  <2>1. StoreTypes'
    BY <1>1, <1>2, TypeParts DEF FenceInv, StoreTypes
  <2>2. late' \subseteq LateAttempts
    BY <1>1
  <2> QED BY <1>2, <1>5, <2>1, <2>2 DEF FenceInv, TypeOK, StoreTypes, DispatchTypes, ClaimsTypeOK
<1>7. FenceHeld'
  BY <1>4 DEF FenceHeld
<1>8. CallsAreFenced'
  <2> SUFFICES ASSUME NEW d \in Decisions, calls[d] > 0
               PROVE  /\ calls[d] = 1 /\ claims[d].state \in FencedStates
                      /\ disp'[claims[d].owner.run].at \in {"done", "lost"}
    BY <1>2 DEF CallsAreFenced
  <2>1. /\ calls[d] = 1 /\ claims[d].state \in FencedStates
        /\ disp[claims[d].owner.run].at \in {"done", "lost"}
    BY DEF FenceInv, CallsAreFenced
  <2>2. claims[d].owner.run \in Runs
    BY <2>1, FencedOwner
  <2> QED BY <1>4, <2>1, <2>2
<1>9. NewIsIdle' /\ TokenDrawn'
  BY <1>1, <1>2, <1>4 DEF FenceInv, NewIsIdle, TokenDrawn
<1> QED BY <1>2, <1>6, <1>7, <1>8, <1>9 DEF FenceInv, KeepsFence

-----------------------------------------------------------------------------
(* Every step: either no claim passes the fence and nobody calls, or one    *)
(* run fences its decision, or calls for it.                                *)
LEMMA StepLemma ==
    ASSUME FenceInv, Next
    PROVE  FenceInv' /\ ((KeepsFence /\ calls' = calls) \/
              \E r \in Runs : Dec(r) \in Decisions /\ (FencesOne(r) \/ CallsOne(r)))
<1>1. ASSUME NEW r \in Runs, WorkflowStep(r)
      PROVE  FenceInv' /\ KeepsFence /\ calls' = calls
  BY <1>1, WorkflowStepLemma DEF StoresKept
<1>2. ASSUME NEW r \in Runs, Disturbance(r), ~FenceWriteFails(r)
      PROVE  FenceInv' /\ KeepsFence /\ calls' = calls
  BY <1>2, DisturbanceLemma DEF StoresKept
<1>3. ASSUME NEW r \in Runs, FenceWriteFails(r) \/ DispatchStep(r)
      PROVE  FenceInv' /\ OneAtATime(r) /\ Dec(r) \in Decisions
  <2>1. disp[r].at # "none" \/ loc[r].pc # "new"
    BY <1>3
       DEF FenceWriteFails, DispatchStep, StartDispatch, AcquireFence, ReadFencedClaim, CallAdapter,
           Awaits
  <2> QED BY <1>3, <2>1, StartedLemma, FenceLemma, DispatchStepLemma
<1>4. ASSUME NEW r \in Runs, NEW w \in Workflows, NEW q \in Requests, StartWorkflow(r, w, q)
      PROVE  FenceInv' /\ KeepsFence /\ calls' = calls
  BY <1>4, StartLemma DEF StoresKept
<1>5. ASSUME NEW op \in late, LateAttempt(op)
      PROVE  FenceInv' /\ KeepsFence /\ calls' = calls
  BY <1>5, LateLemma DEF StoresKept
<1>6. CASE WorkerRestart
  BY <1>6, RestartLemma
<1>7. CASE ReloadPolicy
  <2>1. RunsKept /\ StoresKept /\ LateKept /\ disp' = disp /\ policy' \in Policies
    BY <1>7, UnchangedKept DEF ReloadPolicy
  <2> QED BY <2>1, Kept DEF StoresKept
<1> QED BY <1>1, <1>2, <1>3, <1>4, <1>5, <1>6, <1>7 DEF Next, OneAtATime

LEMMA InitLemma == Init => FenceInv
<1> SUFFICES ASSUME Init PROVE FenceInv
  OBVIOUS
<1>1. UnknownOutcome \in Outcomes
  BY CheckedLemma
<1>2. NewLoc \in Locs /\ NewLoc.pc = "new" /\ NewLoc.token = ""
  BY <1>1 DEF NewLoc, Locs, Pcs, Exits
<1>3. NoDispatch \in [at : DispatchStages, kind : ResultKinds, outcome : Outcomes] /\ NoDispatch.at = "none"
  BY <1>1 DEF NoDispatch, DispatchStages, ResultKinds
<1>4. TypeOK
  <2>1. StoreTypes
    BY DEF Init, StoreInit, StoreTypes, Claims
  <2>2. RunTypes
    BY <1>2 DEF Init, RunTypes
  <2>3. DispatchTypes
    BY <1>3 DEF Init, DispatchTypes
  <2> QED BY <2>1, <2>2, <2>3, TypeParts DEF Init
<1>5. FenceHeld /\ NewIsIdle
  BY <1>3 DEF Init, FenceHeld, NewIsIdle
<1>6. CallsAreFenced
  <2>1. \A d \in Decisions : calls[d] = 0
    BY DEF Init
  <2>2. ~(0 > 0)
    OBVIOUS
  <2> QED BY <2>1, <2>2 DEF CallsAreFenced
<1>7. TokenDrawn
  BY <1>2 DEF Init, TokenDrawn
<1> QED BY <1>4, <1>5, <1>6, <1>7 DEF FenceInv

LEMMA FenceStep ==
    ASSUME FenceInv, [Next]_vars
    PROVE  FenceInv'
<1>1. CASE UNCHANGED vars
  <2>1. UNCHANGED <<workflowVars, disp, late, policy, storeVars, adapterVars>>
    BY <1>1 DEF vars
  <2>2. RunsKept /\ StoresKept /\ LateKept /\ disp' = disp /\ policy' = policy
    BY <2>1, UnchangedKept
  <2> QED BY <2>2, Kept DEF FenceInv, TypeOK
<1> QED BY <1>1, StepLemma

(* The fence invariant holds throughout: a dispatch activity past the fence *)
(* holds its decision's claim alone, until it has called the adapter.       *)
THEOREM FenceCorrect == Spec => []FenceInv
<1>1. FenceInv /\ [Next]_vars => FenceInv'
  BY FenceStep
<1> QED BY <1>1, InitLemma, PTL DEF Spec

(* Every variable of the saga keeps its type.                               *)
THEOREM TypeCorrect == Spec => []TypeOK
<1>1. FenceInv => TypeOK
  BY DEF FenceInv
<1> QED BY <1>1, FenceCorrect, PTL

(* One ingress decision authorizes at most one call of the adapter, for any *)
(* number of runs, resets, retries, restarts and late attempts.             *)
THEOREM OneDispatch == Spec => []AtMostOneDispatch
<1>1. FenceInv => AtMostOneDispatch
  <2> SUFFICES ASSUME FenceInv, NEW d \in Decisions PROVE calls[d] <= 1
    BY DEF AtMostOneDispatch
  <2>1. calls[d] \in Nat
    BY DEF FenceInv, TypeOK
  <2>2. calls[d] > 0 => calls[d] = 1
    BY DEF FenceInv, CallsAreFenced
  <2> QED BY <2>1, <2>2
<1> QED BY <1>1, FenceCorrect, PTL

(* A decision that is unclaimed, CLAIMED or RELEASED has never reached the  *)
(* adapter, so releasing it is always safe.                                 *)
THEOREM UnfencedIsSafe == Spec => []UnfencedNotCalled
<1>1. FenceInv => UnfencedNotCalled
  <2> SUFFICES ASSUME FenceInv, NEW d \in Decisions, claims[d].state \notin FencedStates
               PROVE  calls[d] = 0
    BY DEF UnfencedNotCalled
  <2>1. calls[d] \in Nat
    BY DEF FenceInv, TypeOK
  <2>2. ~(calls[d] > 0)
    BY DEF FenceInv, CallsAreFenced
  <2> QED BY <2>1, <2>2
<1> QED BY <1>1, FenceCorrect, PTL

-----------------------------------------------------------------------------
(* The refinement. *)

Executor == [d \in Decisions |-> IF claims[d].state \in FencedStates
                                 THEN claims[d].owner.run ELSE ""]

LEMMA RefinementStep ==
    ASSUME FenceInv, [Next]_vars
    PROVE  [Once!Next]_<<Executor, calls>>
<1>1. CASE KeepsFence /\ calls' = calls
  BY <1>1 DEF KeepsFence, Executor
<1>2. ASSUME NEW r \in Runs, FencesOne(r), Dec(r) \in Decisions
      PROVE  Once!Next
  <2>1. Executor' = [Executor EXCEPT ![Dec(r)] = r]
    BY <1>2 DEF FencesOne, Executor, FencedStates
  <2>2. Executor[Dec(r)] = ""
    BY <1>2 DEF FencesOne, Executor, FencedStates
  <2>3. Once!Fence(Dec(r), r)
    BY <1>2, <2>1, <2>2 DEF Once!Fence, Executor, FencesOne
  <2> QED BY <1>2, <2>3 DEF Once!Next
<1>3. ASSUME NEW r \in Runs, CallsOne(r), Dec(r) \in Decisions
      PROVE  Once!Next
  <2>1. Executor' = Executor
    BY <1>3 DEF CallsOne, Executor
  <2>2. Executor[Dec(r)] # ""
    BY <1>3, IdsAssumption DEF CallsOne, Executor
  <2>3. Once!Call(Dec(r))
    BY <1>3, <2>1, <2>2 DEF Once!Call, Executor, CallsOne
  <2> QED BY <1>3, <2>3 DEF Once!Next
<1>4. CASE UNCHANGED vars
  BY <1>4 DEF vars, storeVars, adapterVars, Executor
<1> QED BY <1>1, <1>2, <1>3, <1>4, StepLemma

(* The saga implements ExecutionOnce: every step fences one decision, calls *)
(* for one fenced decision, or changes neither.                             *)
THEOREM SagaExecutesOnce == Spec => ExecutesOnce
<1>1. Init => Once!Init
  <2> SUFFICES ASSUME Init PROVE Once!Init
    OBVIOUS
  <2>1. \A d \in Decisions : claims[d].state \notin FencedStates
    BY DEF Init, StoreInit, NoClaim, FencedStates
  <2> QED BY <2>1 DEF Init, Once!Init
<1>2. FenceInv /\ [Next]_vars => [Once!Next]_<<Executor, calls>>
  BY RefinementStep
<1> QED BY <1>1, <1>2, FenceCorrect, PTL DEF Spec, ExecutesOnce, Once!Spec, Executor
=============================================================================
