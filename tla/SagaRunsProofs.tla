---------------------------- MODULE SagaRunsProofs ----------------------------
(***************************************************************************)
(* Proofs about what the runs of the saga leave in the stores: the saga    *)
(* uses the claim store as its specification allows, whoever reached the   *)
(* adapter had its authority on record, and the audit rows about the fence *)
(* and about completion are true, for any number of runs and all           *)
(* disturbances at once.                                                   *)
(***************************************************************************)
EXTENDS SagaFlowProofs

-----------------------------------------------------------------------------
(* The inductive invariant. *)

PassRow(r) == [run |-> r, phase |-> "WORKFLOW_REVALIDATION", verdict |-> "PASS"]

Backed(r) == revals[r] = "ALLOW" /\ PassRow(r) \in audit

(* The late attempts of a run and the audit rows of one phase of it. *)
LateOf(r, kind) == {op \in late : op.run = r /\ op.kind = kind}

Reports(r, phase) ==
    \/ \E op \in LateOf(r, "audit") : op.input = phase
    \/ \E row \in audit : row.run = r /\ row.phase = phase

(* What a run has not done before it starts, and before it is verified. *)
StartsFresh ==
    \A r \in Runs :
        /\ loc[r].pc \in {"new", "verify"} =>
              disp[r].at = "none" /\ revals[r] = "NONE" /\ \A op \in late : op.run # r
        /\ loc[r].pc = "new" =>
              loc[r].token = "" /\ past[r] = {} /\ \A row \in audit : row.run # r

(* Tokens are drawn by runs that have started, after their verification.    *)
TokensAreDrawn ==
    /\ \A r \in Runs : \A l \in past[r] \cup {loc[r]} :
          l.token # "" => Valid(r) /\ loc[l.token].pc # "new"
    /\ \A r \in Runs : loc[r].pc \in {"claim", "claim_read"} => Own(r)
    /\ \A r \in Runs : \A l \in past[r] : l.pc # "new" /\ (l.pc = "claim" => l.token # "")
    /\ \A op \in late : op.kind = "claim" => Own(op.run)

(* A claim was written by the run it names, for its own decision. *)
OwnersAreRuns ==
    \A d \in Decisions :
        claims[d].state # "NONE" =>
            \E r \in Runs : claims[d].owner = Owner(r) /\ Own(r) /\ Dec(r) = d

(* A run that drew its own token goes through its re-validation itself. *)
Revalidates(r) ==
    /\ loc[r].pc \in {"claim", "claim_read", "evaluate"} =>
          revals[r] = "NONE" /\ LateOf(r, "decision") = {}
    /\ loc[r].pc = "record_decision" =>
          /\ revals[r] \in {"NONE", loc[r].verdict}
          /\ \A op \in LateOf(r, "decision") : op.verdict = loc[r].verdict
    /\ loc[r].pc = "audit_pass" => revals[r] = "ALLOW"
    /\ loc[r].pc = "dispatch" \/ disp[r].at # "none" => Backed(r)

OwnIsBacked == \A r \in Runs : Own(r) => Revalidates(r)

(* The activity of a run that reports a failed fence is over and did not    *)
(* call, or never was and never will be.                                    *)
Refused(r) ==
    \/ disp[r].at = "none" /\ loc[r].pc \notin EarlyPcs \cup {"new"}
    \/ disp[r].at \in {"done", "lost"} /\ disp[r].kind \in {"REJECTED", "FENCE_UNKNOWN"}

FenceRowsAreTrue ==
    /\ \A r \in Runs : loc[r].pc \in FencePcs \/ Reports(r, "EXECUTION_FENCE") => Refused(r)
    /\ \A d \in Decisions : calls[d] > 0 => disp[claims[d].owner.run].kind = "OUTCOME"

CompletedFor(r) == claims[Dec(r)].state = "COMPLETED" /\ claims[Dec(r)].owner.workflow = work[r]

CompleteRowsAreTrue ==
    \A r \in Runs :
        \/ \E l \in past[r] \cup {loc[r]} : l.pc = "audit_complete"
        \/ Reports(r, "WORKFLOW_COMPLETE")
        => CompletedFor(r)

RunsInv ==
    /\ FenceInv /\ StartsFresh /\ TokensAreDrawn /\ OwnersAreRuns
    /\ OwnIsBacked /\ FenceRowsAreTrue /\ CompleteRowsAreTrue

-----------------------------------------------------------------------------
(* A step of one run keeps the invariant, part by part. *)

(* Who a run is does not change once it has started. *)
IdsKept ==
    \A r \in Runs :
        loc[r].pc # "new" =>
            /\ loc'[r].pc # "new" /\ work'[r] = work[r] /\ request'[r] = request[r]
            /\ Own(r) => Own(r)'

(* The step in the form the lemmas use it. *)
Stepped(r, m) ==
    /\ loc[r].pc \notin {"new", "closed"} /\ loc'[r] = m /\ past'[r] \subseteq past[r] \cup {m}
    /\ \A s \in Runs \ {r} : loc'[s] = loc[s] /\ past'[s] = past[s]
    /\ work' = work /\ request' = request /\ disp' = disp /\ calls' = calls
    /\ \/ late' = late
       \/ late' = late \cup {Attempt(r)} /\ loc[r].pc \in ActivityPcs /\ Attempt(r).kind # "read"
    /\ \/ claims' = claims /\ revals' = revals /\ audit' = audit
       \/ loc[r].pc \in ActivityPcs /\ Writes(Attempt(r))
    /\ TakesEffect(Attempt(r)) => Writes(Attempt(r))

LEMMA SteppedLemma ==
    ASSUME FenceInv, NEW r \in Runs, NEW m, Leads(r, m), RunStep(r, m)
    PROVE  Stepped(r, m) /\ IdsKept
<1>1. loc \in [Runs -> Locs] /\ past \in [Runs -> SUBSET Locs]
  BY DEF FenceInv, TypeOK
<1>2. loc[r].pc \notin {"new", "closed"} /\ m.pc # "new" /\ (m.token = loc[r].token \/ m.token = r)
  BY DEF Leads
<1>3. TakesEffect(Attempt(r)) => Writes(Attempt(r)) /\ calls' = calls
  BY WritesLemma DEF TakesEffect
<1>4. /\ loc'[r] = m /\ past'[r] \subseteq past[r] \cup {m}
      /\ \A s \in Runs \ {r} : loc'[s] = loc[s] /\ past'[s] = past[s]
      /\ work' = work /\ request' = request /\ disp' = disp
  BY <1>1 DEF RunStep
<1>5. /\ \/ late' = late
         \/ late' = late \cup {Attempt(r)} /\ loc[r].pc \in ActivityPcs /\ Attempt(r).kind # "read"
      /\ \/ UNCHANGED <<storeVars, adapterVars>>
         \/ loc[r].pc \in ActivityPcs /\ TakesEffect(Attempt(r))
  BY DEF RunStep
<1>6. UNCHANGED <<storeVars, adapterVars>> =>
          claims' = claims /\ revals' = revals /\ audit' = audit /\ calls' = calls
  BY DEF storeVars, adapterVars
<1>7. Stepped(r, m)
  BY <1>2, <1>3, <1>4, <1>5, <1>6 DEF Stepped
<1>8. IdsKept
  BY <1>2, <1>4 DEF IdsKept, Own
<1> QED BY <1>7, <1>8

LEMMA FreshStep ==
    ASSUME FenceInv, StartsFresh, NEW r \in Runs, NEW m, Leads(r, m), Stepped(r, m)
    PROVE  StartsFresh'
<1>1. \A op \in late' : op \in late \/ (op.run = r /\ loc[r].pc \notin {"new", "verify"})
  BY AttemptIs DEF Stepped
<1>2. ASSUME NEW s \in Runs, loc[s].pc \in {"new", "verify"}
      PROVE  revals'[s] = revals[s] /\ \A row \in audit' : row \in audit \/ row.run # s
  <2>1. CASE claims' = claims /\ revals' = revals /\ audit' = audit
    BY <2>1
  <2>2. CASE loc[r].pc \in ActivityPcs /\ Writes(Attempt(r))
    <3>1. s = r => Attempt(r).kind = "read"
      BY <1>2, <2>2, AttemptIs DEF Stepped
    <3>2. Attempt(r).run = r
      BY <2>2, AttemptIs
    <3> QED BY <2>2, <3>1, <3>2 DEF Writes
  <2> QED BY <2>1, <2>2 DEF Stepped
<1>3. ASSUME NEW s \in Runs, loc'[s].pc \in {"new", "verify"}
      PROVE  loc[s].pc = loc'[s].pc /\ disp'[s] = disp[s] /\ \A op \in late' : op \in late \/ op.run # s
  <2>1. CASE s = r
    <3>1. loc[s].pc = "verify" /\ loc'[s].pc = "verify"
      BY <1>3, <2>1 DEF Leads, LeadsEarly, Stepped
    <3> QED BY <1>1, <2>1, <3>1 DEF Stepped
  <2>2. CASE s # r
    BY <1>1, <2>2 DEF Stepped
  <2> QED BY <2>1, <2>2
<1>4. ASSUME NEW s \in Runs, loc'[s].pc = "new" PROVE loc'[s] = loc[s] /\ past'[s] = past[s]
  BY <1>4 DEF Stepped, Leads
<1>5. ASSUME NEW s \in Runs, loc'[s].pc \in {"new", "verify"}
      PROVE  disp'[s].at = "none" /\ revals'[s] = "NONE" /\ \A op \in late' : op.run # s
  <2>1. loc[s].pc \in {"new", "verify"} /\ disp'[s] = disp[s] /\ \A op \in late' : op \in late \/ op.run # s
    BY <1>3, <1>5
  <2>2. disp[s].at = "none" /\ revals[s] = "NONE" /\ \A op \in late : op.run # s
    BY <2>1 DEF StartsFresh
  <2>3. revals'[s] = revals[s]
    BY <1>2, <2>1
  <2> QED BY <2>1, <2>2, <2>3
<1>6. ASSUME NEW s \in Runs, loc'[s].pc = "new"
      PROVE  loc'[s].token = "" /\ past'[s] = {} /\ \A row \in audit' : row.run # s
  <2>1. loc'[s] = loc[s] /\ past'[s] = past[s] /\ loc[s].pc = "new"
    BY <1>4, <1>6
  <2>2. loc[s].token = "" /\ past[s] = {} /\ \A row \in audit : row.run # s
    BY <2>1 DEF StartsFresh
  <2>3. \A row \in audit' : row \in audit \/ row.run # s
    BY <1>2, <2>1
  <2> QED BY <2>1, <2>2, <2>3
<1> QED BY <1>5, <1>6 DEF StartsFresh

LEMMA PastLemma ==
    ASSUME FenceInv, NEW s \in Runs, NEW l \in past[s] \cup {loc[s]}
    PROVE  l \in Locs /\ (l.token \in Runs \/ l.token = "")
<1>1. past[s] \subseteq Locs /\ loc[s] \in Locs
  BY DEF FenceInv, TypeOK
<1>2. l \in Locs
  BY <1>1
<1> QED BY <1>2 DEF Locs

LEMMA TokensStep ==
    ASSUME FenceInv, TokensAreDrawn, NEW r \in Runs, NEW m, Leads(r, m), Stepped(r, m), IdsKept
    PROVE  TokensAreDrawn'
<1>1. \A s \in Runs : Valid(s)' = Valid(s)
  BY DEF Stepped, Valid, CheckIngress
<1>2. m.pc # "new" /\ (m.token = loc[r].token \/ (m.token = r /\ Valid(r)))
  BY DEF Leads
<1>3. m.pc \in {"claim", "claim_read"} => m.token = r
  <2>1. m.pc \in {"claim", "claim_read"} => loc[r].pc \in {"claim", "claim_read"} \/ m.token = r
    BY DEF Leads, LeadsEarly
  <2>2. loc[r].pc \in {"claim", "claim_read"} => loc[r].token = r
    BY DEF TokensAreDrawn, Own
  <2> QED BY <1>2, <2>1, <2>2
<1>4. ASSUME NEW s \in Runs, NEW l \in past'[s] \cup {loc'[s]}, l.token # ""
      PROVE  Valid(s)' /\ loc'[l.token].pc # "new"
  <2>0. \A t \in Runs : loc[t].pc # "new" => loc'[t].pc # "new"
    BY DEF IdsKept
  <2>1. l \in past[s] \cup {loc[s]} \/ (s = r /\ l = m)
    BY DEF Stepped
  <2>2. CASE l \in past[s] \cup {loc[s]}
    <3>1. Valid(s) /\ loc[l.token].pc # "new"
      BY <1>4, <2>2 DEF TokensAreDrawn
    <3>2. l.token \in Runs
      BY <1>4, <2>2, PastLemma
    <3> QED BY <1>1, <2>0, <3>1, <3>2
  <2>3. CASE s = r /\ l = m /\ m.token = loc[r].token
    <3>1. Valid(r) /\ loc[loc[r].token].pc # "new"
      BY <1>4, <2>3 DEF TokensAreDrawn
    <3>2. loc[r].token \in Runs
      BY <1>4, <2>3 DEF FenceInv, TypeOK, Locs
    <3> QED BY <1>1, <2>0, <2>3, <3>1, <3>2
  <2>4. CASE s = r /\ l = m /\ m.token = r /\ Valid(r)
    BY <1>1, <1>2, <2>4 DEF Stepped
  <2> QED BY <1>2, <2>1, <2>2, <2>3, <2>4
<1>5. ASSUME NEW s \in Runs, loc'[s].pc \in {"claim", "claim_read"} PROVE Own(s)'
  BY <1>3, <1>5 DEF Stepped, TokensAreDrawn, Own
<1>6. ASSUME NEW s \in Runs, NEW l \in past'[s] PROVE l.pc # "new" /\ (l.pc = "claim" => l.token # "")
  <2>1. l \in past[s] \/ l = m
    BY DEF Stepped
  <2> QED BY <1>2, <1>3, <2>1, IdsAssumption DEF TokensAreDrawn
<1>7. ASSUME NEW op \in late', op.kind = "claim" PROVE Own(op.run)'
  <2>1. CASE op \in late
    <3>1. op.run \in Runs /\ Own(op.run) /\ loc[op.run].pc # "new"
      BY <1>7, <2>1 DEF FenceInv, TypeOK, LateAttempts, NewIsIdle, TokensAreDrawn
    <3> QED BY <3>1 DEF IdsKept
  <2>2. CASE op = Attempt(r) /\ loc[r].pc \in ActivityPcs
    <3>1. loc[r].pc = "claim" /\ op.run = r
      BY <1>7, <2>2, AttemptIs
    <3>2. Own(r) /\ loc[r].pc # "new"
      BY <3>1 DEF TokensAreDrawn
    <3> QED BY <3>1, <3>2 DEF IdsKept
  <2> QED BY <2>1, <2>2 DEF Stepped
<1> QED BY <1>4, <1>5, <1>6, <1>7 DEF TokensAreDrawn

-----------------------------------------------------------------------------
(* The claims, whatever step writes them. *)

(* A run that has started claims with the token it drew, or moves a claim.  *)
ClaimsStep ==
    \/ claims' = claims
    \/ \E t \in Runs : loc[t].pc # "new" /\ Own(t) /\ claims' = ClaimWrite(Dec(t), Owner(t))
    \/ \E t \in Runs, to \in ClaimStates : loc[t].pc # "new" /\ claims' = AdvanceWrite(Dec(t), Owner(t), to)

LEMMA OwnerLemma ==
    ASSUME FenceInv, NEW t \in Runs, loc[t].pc # "new"
    PROVE  /\ Dec(t) \in Decisions
           /\ Owner(t) \in Owners \/ \A d \in Decisions : claims[d].owner # Owner(t)
           /\ Own(t) => Owner(t) \in Owners
<1>1. loc[t] \in Locs /\ work[t] \in Workflows /\ ClaimsTypeOK
  BY DEF FenceInv, TypeOK
<1>2. loc[t].token \in Runs \/ loc[t].token = ""
  BY <1>1 DEF Locs
<1>3. loc[t].token \in Runs => Owner(t) \in Owners
  BY <1>1 DEF Owner, Owners
<1>4. ASSUME NEW d \in Decisions, loc[t].token = "" PROVE claims[d].owner # Owner(t)
  <2>1. claims[d] \in [state : ClaimStates, owner : Owners] \/ claims[d] = NoClaim
    BY <1>1 DEF ClaimsTypeOK, Claims
  <2>2. CASE claims[d] \in [state : ClaimStates, owner : Owners]
    <3>1. claims[d].owner \in Owners
      BY <2>2
    <3>2. claims[d].owner.token \in Runs
      BY <3>1 DEF Owners
    <3>3. Owner(t).token = ""
      BY <1>4 DEF Owner
    <3> QED BY <3>2, <3>3, IdsAssumption
  <2>3. CASE claims[d] = NoClaim
    <3>1. claims[d].owner = NoOwner
      BY <2>3 DEF NoClaim
    <3>2. NoOwner.run = "" /\ Owner(t).run = t
      BY DEF NoOwner, Owner
    <3> QED BY <3>1, <3>2, IdsAssumption
  <2> QED BY <2>1, <2>2, <2>3
<1>5. Dec(t) \in Decisions
  BY StartedLemma
<1> QED BY <1>2, <1>3, <1>4, <1>5 DEF Own

(* That is a step of the store. *)
LEMMA ClaimsStepIsStoreStep ==
    ASSUME FenceInv, ClaimsStep
    PROVE  [StoreNext]_claims
<1>1. ASSUME NEW t \in Runs, loc[t].pc # "new", Own(t), claims' = ClaimWrite(Dec(t), Owner(t))
      PROVE  StoreNext
  BY <1>1, OwnerLemma DEF StoreNext, ClaimExecution
<1>2. ASSUME NEW t \in Runs, NEW to \in ClaimStates, loc[t].pc # "new",
             claims' = AdvanceWrite(Dec(t), Owner(t), to)
      PROVE  StoreNext \/ claims' = claims
  <2>1. CASE Owner(t) \in Owners
    BY <1>2, <2>1, OwnerLemma DEF StoreNext, AdvanceClaim
  <2>2. CASE \A d \in Decisions : claims[d].owner # Owner(t)
    BY <1>2, <2>2, OwnerLemma DEF AdvanceWrite, CanAdvance
  <2> QED BY <1>2, <2>1, <2>2, OwnerLemma
<1> QED BY <1>1, <1>2 DEF ClaimsStep

(* What becomes of one claim. *)
LEMMA ClaimBecomes ==
    ASSUME FenceInv, ClaimsStep, NEW d \in Decisions
    PROVE  \/ claims'[d] = claims[d]
           \/ \E t \in Runs : /\ loc[t].pc # "new" /\ Own(t) /\ Dec(t) = d /\ CanClaim(d)
                             /\ claims'[d] = [state |-> "CLAIMED", owner |-> Owner(t)]
           \/ \E to \in ClaimStates : /\ claims[d].state # "NONE" /\ claims[d].state \in ClaimSources(to)
                                     /\ claims'[d].owner = claims[d].owner /\ claims'[d].state = to
<1>0. ClaimsTypeOK
  BY DEF FenceInv, TypeOK
<1>1. ASSUME NEW t \in Runs, loc[t].pc # "new", Own(t), claims' = ClaimWrite(Dec(t), Owner(t))
      PROVE  \/ claims'[d] = claims[d]
             \/ Dec(t) = d /\ CanClaim(d) /\ claims'[d] = [state |-> "CLAIMED", owner |-> Owner(t)]
  BY <1>0, <1>1 DEF ClaimWrite, ClaimsTypeOK
<1>2. ASSUME NEW t \in Runs, NEW to \in ClaimStates, loc[t].pc # "new",
             claims' = AdvanceWrite(Dec(t), Owner(t), to)
      PROVE  \/ claims'[d] = claims[d]
             \/ /\ claims[d].state # "NONE" /\ claims[d].state \in ClaimSources(to)
                /\ claims'[d].owner = claims[d].owner /\ claims'[d].state = to
  <2>1. Dec(t) \in Decisions
    BY <1>2, OwnerLemma
  <2>2. \/ claims'[d] = claims[d]
        \/ claims[d].state \in ClaimSources(to) /\ claims'[d] = [claims[d] EXCEPT !.state = to]
    BY <1>0, <1>2, <2>1, AdvanceWriteLemma
  <2>3. claims[d] \in [state : ClaimStates, owner : Owners] \/ claims[d] = NoClaim
    BY <1>0 DEF ClaimsTypeOK, Claims
  <2>4. claims[d].state \in ClaimSources(to) => claims[d].state # "NONE"
    BY DEF ClaimSources
  <2>5. CASE claims[d] \in [state : ClaimStates, owner : Owners]
    BY <2>2, <2>4, <2>5
  <2>6. CASE claims[d] = NoClaim
    BY <2>2, <2>4, <2>6 DEF NoClaim
  <2> QED BY <2>3, <2>5, <2>6
<1> QED BY <1>1, <1>2 DEF ClaimsStep

LEMMA OwnersStep ==
    ASSUME FenceInv, OwnersAreRuns, ClaimsStep, IdsKept, \A s \in Runs : loc[s].pc # "new" \/ ~Own(s)
    PROVE  OwnersAreRuns'
<1> SUFFICES ASSUME NEW d \in Decisions, claims'[d].state # "NONE"
             PROVE  \E r \in Runs : claims'[d].owner = Owner(r)' /\ Own(r)' /\ Dec(r)' = d
  BY DEF OwnersAreRuns
<1>1. \A r \in Runs : Own(r) => Own(r)' /\ Dec(r)' = Dec(r) /\ Owner(r)' = Owner(r)
  BY DEF IdsKept, Own, Dec, Owner
<1>2. CASE claims'[d].owner = claims[d].owner /\ claims[d].state # "NONE"
  <2>1. PICK r \in Runs : claims[d].owner = Owner(r) /\ Own(r) /\ Dec(r) = d
    BY <1>2 DEF OwnersAreRuns
  <2> QED BY <1>1, <1>2, <2>1
<1>3. ASSUME NEW t \in Runs, Own(t), Dec(t) = d,
             claims'[d] = [state |-> "CLAIMED", owner |-> Owner(t)]
      PROVE  \E r \in Runs : claims'[d].owner = Owner(r)' /\ Own(r)' /\ Dec(r)' = d
  BY <1>1, <1>3
<1> QED BY <1>2, <1>3, ClaimBecomes

(* COMPLETED is final. *)
LEMMA CompletedForGood ==
    ASSUME FenceInv, ClaimsStep, NEW d \in Decisions, claims[d].state = "COMPLETED"
    PROVE  claims'[d].state = "COMPLETED" /\ claims'[d].owner = claims[d].owner
<1>1. ~CanClaim(d)
  BY DEF CanClaim
<1>2. \A to \in ClaimStates : claims[d].state \in ClaimSources(to) => to = "COMPLETED"
  BY DEF ClaimSources, ClaimStates
<1> QED BY <1>1, <1>2, ClaimBecomes

(* An attempt that takes effect writes the claims as its own run. *)
LEMMA EffectOnClaims ==
    ASSUME FenceInv, NEW t \in Runs, NEW op, Attempted(op, t), TakesEffect(op),
           op.kind = "claim" => Own(t)
    PROVE  ClaimsStep
<1>1. op.run = t /\ loc[t].pc # "new"
  BY DEF Attempted, Startable
<1>2. op.kind = "advance" => op.input \in ClaimStates
  BY DEF Attempted, LateAttempts
<1>3. claims' = CASE op.kind = "claim"   -> ClaimWrite(Dec(t), Owner(t))
                  [] op.kind = "advance" -> AdvanceWrite(Dec(t), Owner(t), op.input)
                  [] OTHER               -> claims
  BY <1>1 DEF TakesEffect
<1> QED BY <1>1, <1>2, <1>3 DEF ClaimsStep

LEMMA RunStepClaims ==
    ASSUME FenceInv, TokensAreDrawn, NEW r \in Runs, NEW m, RunStep(r, m)
    PROVE  ClaimsStep
<1>1. CASE UNCHANGED <<storeVars, adapterVars>>
  BY <1>1 DEF storeVars, ClaimsStep
<1>2. CASE loc[r].pc \in ActivityPcs /\ TakesEffect(Attempt(r))
  <2>1. Attempted(Attempt(r), r)
    BY <1>2, AttemptLemma
  <2>2. Attempt(r).kind = "claim" => Own(r)
    BY <1>2, AttemptIs DEF TokensAreDrawn
  <2> QED BY <1>2, <2>1, <2>2, EffectOnClaims
<1> QED BY <1>1, <1>2 DEF RunStep

-----------------------------------------------------------------------------
(* The rest of the invariant in a step of one run. *)

(* What is on record stays on record. *)
LEMMA RecordsStay ==
    ASSUME NEW r \in Runs, NEW m, Stepped(r, m)
    PROVE  /\ audit \subseteq audit'
           /\ \A s \in Runs : revals[s] # "NONE" \/ s # r => revals'[s] = revals[s]
           /\ \A s \in Runs \ {r} : \A op \in late' : op.run = s => op \in late
           /\ \A s \in Runs \ {r} : \A row \in audit' : row.run = s => row \in audit
<1>1. CASE claims' = claims /\ revals' = revals /\ audit' = audit
  BY <1>1, AttemptIs DEF Stepped
<1>2. CASE loc[r].pc \in ActivityPcs /\ Writes(Attempt(r))
  <2>1. Attempt(r).run = r
    BY <1>2, AttemptIs
  <2> QED BY <1>2, <2>1 DEF Stepped, Writes
<1> QED BY <1>1, <1>2 DEF Stepped

LEMMA BackedOther ==
    ASSUME NEW r \in Runs, NEW m, Stepped(r, m), NEW s \in Runs \ {r}, Revalidates(s)
    PROVE  Revalidates(s)'
<1>1. loc'[s] = loc[s] /\ disp'[s] = disp[s]
  BY DEF Stepped
<1>2. revals'[s] = revals[s] /\ audit \subseteq audit' /\ \A op \in late' : op.run = s => op \in late
  BY RecordsStay
<1>3. LateOf(s, "decision")' \subseteq LateOf(s, "decision")
  BY <1>2 DEF LateOf
<1>4. Backed(s) => Backed(s)'
  BY <1>2 DEF Backed, PassRow
<1> QED BY <1>1, <1>2, <1>3, <1>4 DEF Revalidates

LEMMA BackedSelf ==
    ASSUME FenceInv, StartsFresh, NEW r \in Runs, NEW m, Leads(r, m), Stepped(r, m),
           Own(r) => Revalidates(r), m.token = r
    PROVE  Revalidates(r)'
<1>0. loc'[r] = m /\ disp' = disp /\ audit \subseteq audit' /\ (revals[r] # "NONE" => revals'[r] = revals[r])
  BY RecordsStay DEF Stepped
<1>1. Own(r) \/ (loc[r].pc = "verify" /\ m.pc = "claim")
  BY DEF Leads, Own
<1>2. loc[r].pc = "verify" => revals[r] = "NONE" /\ LateOf(r, "decision") = {} /\ disp[r].at = "none"
  BY DEF StartsFresh, LateOf
<1>3. loc[r].pc \in {"verify", "claim", "claim_read", "evaluate"} =>
          revals[r] = "NONE" /\ LateOf(r, "decision") = {}
  BY <1>1, <1>2 DEF Revalidates
<1>4. loc[r].pc \in {"verify", "claim", "claim_read", "evaluate"} =>
          revals'[r] = "NONE" /\ LateOf(r, "decision")' = {}
  <2> SUFFICES ASSUME loc[r].pc \in {"verify", "claim", "claim_read", "evaluate"}
               PROVE  revals'[r] = "NONE" /\ LateOf(r, "decision")' = {}
    OBVIOUS
  <2>1. loc[r].pc \in ActivityPcs
    BY DEF ActivityPcs
  <2>2. Attempt(r).kind # "decision"
    BY <2>1, AttemptIs DEF DecisionPcs
  <2>3. revals'[r] = "NONE"
    BY <1>3, <2>2 DEF Stepped, Writes
  <2>4. LateOf(r, "decision")' = {}
    BY <1>3, <2>2 DEF Stepped, LateOf
  <2> QED BY <2>3, <2>4
<1>5. m.pc \in {"claim", "claim_read", "evaluate"} => revals'[r] = "NONE" /\ LateOf(r, "decision")' = {}
  <2>1. m.pc \in {"claim", "claim_read", "evaluate"} => loc[r].pc \in {"verify", "claim", "claim_read", "evaluate"}
    BY DEF Leads, LeadsEarly
  <2> QED BY <1>4, <2>1
<1>6. ASSUME loc[r].pc = "record_decision"
      PROVE  /\ revals'[r] \in {"NONE", loc[r].verdict}
             /\ \A op \in LateOf(r, "decision")' : op.verdict = loc[r].verdict
             /\ TakesEffect(Attempt(r)) => revals'[r] = loc[r].verdict \/ loc[r].verdict = "NONE"
  <2>1. /\ revals[r] \in {"NONE", loc[r].verdict}
        /\ \A op \in LateOf(r, "decision") : op.verdict = loc[r].verdict
    BY <1>1, <1>6 DEF Revalidates
  <2>2. loc[r].pc \in ActivityPcs /\ loc[r].pc \in DecisionPcs
    BY <1>6 DEF ActivityPcs, DecisionPcs
  <2>3. Attempt(r).kind = "decision" /\ Attempt(r).verdict = loc[r].verdict /\ Attempt(r).run = r
    BY <1>6, <2>2, AttemptIs
  <2>4. Writes(Attempt(r)) =>
            revals'[r] = IF revals[r] = "NONE" THEN loc[r].verdict ELSE revals[r]
    BY <2>3 DEF Writes
  <2>5. revals' = revals \/ Writes(Attempt(r))
    BY DEF Stepped
  <2>6. revals'[r] \in {"NONE", loc[r].verdict}
    BY <2>1, <2>4, <2>5
  <2>7. TakesEffect(Attempt(r)) => revals'[r] = loc[r].verdict \/ loc[r].verdict = "NONE"
    BY <2>1, <2>4 DEF Stepped
  <2>8. \A op \in LateOf(r, "decision")' : op.verdict = loc[r].verdict
    BY <2>1, <2>3 DEF Stepped, LateOf
  <2> QED BY <2>6, <2>7, <2>8
<1>7. m.pc = "record_decision" =>
          /\ revals'[r] \in {"NONE", m.verdict}
          /\ \A op \in LateOf(r, "decision")' : op.verdict = m.verdict
  <2>1. m.pc = "record_decision" =>
          loc[r].pc = "evaluate" \/ (loc[r].pc = "record_decision" /\ m.verdict = loc[r].verdict)
    BY DEF Leads, LeadsEarly
  <2> QED BY <1>4, <1>6, <2>1
<1>8. m.pc = "audit_pass" => revals'[r] = "ALLOW"
  <2>1. m.pc = "audit_pass" =>
          \/ loc[r].pc = "audit_pass"
          \/ loc[r].pc = "record_decision" /\ loc[r].verdict = "ALLOW" /\ TakesEffect(Attempt(r))
    BY DEF Leads, LeadsEarly
  <2>2. loc[r].pc = "audit_pass" => revals'[r] = "ALLOW"
    BY <1>0, <1>1 DEF Revalidates
  <2> QED BY <1>6, <2>1, <2>2
<1>9. Backed(r) => Backed(r)'
  BY <1>0 DEF Backed, PassRow
<1>10. m.pc = "dispatch" => Backed(r)'
  <2>1. m.pc = "dispatch" => loc[r].pc = "dispatch" \/ (loc[r].pc = "audit_pass" /\ TakesEffect(Attempt(r)))
    BY DEF Leads, LeadsEarly
  <2>2. loc[r].pc = "dispatch" => Backed(r)
    BY <1>1 DEF Revalidates
  <2>3. ASSUME loc[r].pc = "audit_pass", TakesEffect(Attempt(r)) PROVE Backed(r)'
    <3>1. revals'[r] = "ALLOW"
      BY <1>0, <1>1, <2>3 DEF Revalidates
    <3>2. loc[r].pc \in ActivityPcs /\ loc[r].pc \in AuditPcs
      BY <2>3 DEF ActivityPcs, AuditPcs
    <3>3. /\ Attempt(r).kind = "audit" /\ Attempt(r).run = r
          /\ Attempt(r).input = "WORKFLOW_REVALIDATION" /\ Attempt(r).verdict = "PASS"
      BY <2>3, <3>2, AttemptIs, AuditRowIs
    <3>4. PassRow(r) \in audit'
      BY <2>3, <3>3 DEF Stepped, Writes, PassRow
    <3> QED BY <3>1, <3>4 DEF Backed, PassRow
  <2> QED BY <1>9, <2>1, <2>2, <2>3
<1>11. disp'[r].at # "none" => Backed(r)'
  <2>1. disp[r].at # "none" => Backed(r)
    BY <1>1, <1>2 DEF Revalidates
  <2> QED BY <1>0, <1>9, <2>1
<1> QED BY <1>0, <1>5, <1>7, <1>8, <1>10, <1>11 DEF Revalidates

LEMMA BackedStep ==
    ASSUME FenceInv, StartsFresh, OwnIsBacked, NEW r \in Runs, NEW m, Leads(r, m), Stepped(r, m)
    PROVE  OwnIsBacked'
<1> SUFFICES ASSUME NEW s \in Runs, loc'[s].token = s
             PROVE  Revalidates(s)'
  BY DEF OwnIsBacked, Own
<1>1. CASE s = r
  <2>1. m.token = r /\ (Own(r) => Revalidates(r))
    BY <1>1 DEF Stepped, OwnIsBacked
  <2> QED BY <1>1, <2>1, BackedSelf
<1>2. CASE s # r
  <2>1. Revalidates(s)
    BY <1>2 DEF Stepped, OwnIsBacked, Own
  <2> QED BY <1>2, <2>1, BackedOther
<1> QED BY <1>1, <1>2

(* A run reports what it stands to report, and nobody else does for it. *)
LEMMA ReportsStep ==
    ASSUME NEW r \in Runs, NEW m, Stepped(r, m), NEW s \in Runs, NEW phase, Reports(s, phase)'
    PROVE  \/ Reports(s, phase)
           \/ s = r /\ loc[r].pc \in AuditPcs /\ AuditRow(loc[r]).phase = phase
<1>1. ASSUME NEW op \in late', op.run = s, op.kind = "audit", op.input = phase
      PROVE  \/ Reports(s, phase)
             \/ s = r /\ loc[r].pc \in AuditPcs /\ AuditRow(loc[r]).phase = phase
  <2>1. CASE op \in late
    BY <1>1, <2>1 DEF Reports, LateOf
  <2>2. CASE op = Attempt(r) /\ loc[r].pc \in ActivityPcs
    BY <1>1, <2>2, AttemptIs
  <2> QED BY <2>1, <2>2 DEF Stepped
<1>2. ASSUME NEW row \in audit', row.run = s, row.phase = phase
      PROVE  \/ Reports(s, phase)
             \/ s = r /\ loc[r].pc \in AuditPcs /\ AuditRow(loc[r]).phase = phase
  <2>1. CASE row \in audit
    BY <1>2, <2>1 DEF Reports
  <2>2. CASE /\ loc[r].pc \in ActivityPcs /\ Attempt(r).kind = "audit"
             /\ row = [run |-> Attempt(r).run, phase |-> Attempt(r).input, verdict |-> Attempt(r).verdict]
    <3>1. Attempt(r).run = s /\ Attempt(r).input = phase
      BY <1>2, <2>2
    <3> QED BY <2>2, <3>1, AttemptIs
  <2>3. CASE audit' = audit
    BY <2>1, <2>3
  <2>4. CASE loc[r].pc \in ActivityPcs /\ Writes(Attempt(r))
    BY <2>1, <2>2, <2>4 DEF Writes
  <2> QED BY <2>3, <2>4 DEF Stepped
<1> QED BY <1>1, <1>2 DEF Reports, LateOf

(* Whoever has called keeps the claim. *)
LEMMA CallerStays ==
    ASSUME FenceInv, ClaimsStep, NEW d \in Decisions, calls[d] > 0
    PROVE  claims'[d].owner = claims[d].owner /\ claims[d].owner.run \in Runs
<1>1. claims[d].state \in FencedStates
  BY DEF FenceInv, CallsAreFenced
<1>2. ~CanClaim(d)
  BY <1>1 DEF CanClaim, FencedStates
<1> QED BY <1>1, <1>2, ClaimBecomes, FencedOwner

LEMMA FenceRowsStep ==
    ASSUME FenceInv, FenceRowsAreTrue, ClaimsStep, NEW r \in Runs, NEW m, Leads(r, m), Stepped(r, m)
    PROVE  FenceRowsAreTrue'
<1>1. ASSUME NEW s \in Runs, loc'[s].pc \in FencePcs \/ Reports(s, "EXECUTION_FENCE")'
      PROVE  Refused(s)'
  <2>1. \/ loc[s].pc \in FencePcs \/ Reports(s, "EXECUTION_FENCE")
        \/ disp[s].at = "done" /\ disp[s].kind \in {"REJECTED", "FENCE_UNKNOWN"}
    <3>1. CASE loc'[s].pc \in FencePcs
      BY <3>1 DEF Stepped, Leads, LeadsLate
    <3>2. CASE Reports(s, "EXECUTION_FENCE")'
      <4>1. CASE s = r /\ loc[r].pc \in AuditPcs /\ AuditRow(loc[r]).phase = "EXECUTION_FENCE"
        BY <4>1, AuditRowIs DEF FencePcs
      <4> QED BY <3>2, <4>1, ReportsStep
    <3> QED BY <1>1, <3>1, <3>2
  <2>2. Refused(s)
    BY <2>1 DEF FenceRowsAreTrue, Refused
  <2>3. loc[s].pc \notin EarlyPcs \cup {"new"} => loc'[s].pc \notin EarlyPcs \cup {"new"}
    BY DEF Stepped, Leads, LeadsEarly
  <2> QED BY <2>2, <2>3 DEF Refused, Stepped
<1>2. ASSUME NEW d \in Decisions, calls'[d] > 0 PROVE disp'[claims'[d].owner.run].kind = "OUTCOME"
  <2>1. calls[d] > 0
    BY <1>2 DEF Stepped
  <2> QED BY <2>1, CallerStays DEF FenceRowsAreTrue, Stepped
<1> QED BY <1>1, <1>2 DEF FenceRowsAreTrue

LEMMA CompletedStays ==
    ASSUME FenceInv, ClaimsStep, IdsKept, NEW s \in Runs, loc[s].pc # "new", CompletedFor(s)
    PROVE  CompletedFor(s)'
<1>1. Dec(s) \in Decisions /\ Dec(s)' = Dec(s) /\ work'[s] = work[s]
  BY OwnerLemma DEF IdsKept, Dec
<1>2. claims'[Dec(s)].state = "COMPLETED" /\ claims'[Dec(s)].owner = claims[Dec(s)].owner
  BY <1>1, CompletedForGood DEF CompletedFor
<1> QED BY <1>1, <1>2 DEF CompletedFor

LEMMA CompleteRowsStep ==
    ASSUME FenceInv, StartsFresh, CompleteRowsAreTrue, ClaimsStep, IdsKept,
           NEW r \in Runs, NEW m, Leads(r, m), Stepped(r, m)
    PROVE  CompleteRowsAreTrue'
<1> DEFINE Claims1(s) == \E l \in past[s] \cup {loc[s]} : l.pc = "audit_complete"
<1> SUFFICES ASSUME NEW s \in Runs, Claims1(s)' \/ Reports(s, "WORKFLOW_COMPLETE")'
             PROVE  CompletedFor(s)'
  BY DEF CompleteRowsAreTrue
<1>1. ASSUME Claims1(s) \/ Reports(s, "WORKFLOW_COMPLETE") PROVE CompletedFor(s)'
  <2>1. CompletedFor(s)
    BY <1>1 DEF CompleteRowsAreTrue
  <2>2. loc[s].pc # "new"
    BY <1>1 DEF StartsFresh, Reports, LateOf
  <2> QED BY <2>1, <2>2, CompletedStays
<1>2. ASSUME s = r, loc[r].pc \in AuditPcs, AuditRow(loc[r]).phase = "WORKFLOW_COMPLETE"
      PROVE  CompletedFor(s)'
  BY <1>1, <1>2, AuditRowIs
<1>3. ASSUME m.pc = "audit_complete", s = r PROVE CompletedFor(s)'
  <2>1. CASE loc[r].pc = "audit_complete"
    BY <1>1, <1>3, <2>1
  <2>2. CASE /\ loc[r].pc = "mark_completed" /\ TakesEffect(Attempt(r))
             /\ CanAdvance(Dec(r), Owner(r), "COMPLETED")
    <3>1. loc[r].pc \in ActivityPcs /\ loc[r].pc \in AdvancePcs /\ loc[r].pc # "new"
      BY <2>2 DEF ActivityPcs, AdvancePcs
    <3>2. Attempt(r).kind = "advance" /\ Attempt(r).run = r /\ Attempt(r).input = "COMPLETED"
      BY <2>2, <3>1, AttemptIs DEF AdvanceTo
    <3>3. Dec(r) \in Decisions
      BY <3>1, OwnerLemma
    <3>4. claims'[Dec(r)] = [claims[Dec(r)] EXCEPT !.state = "COMPLETED"]
      BY <2>2, <3>2, <3>3 DEF Stepped, Writes
    <3>5. claims[Dec(r)].owner = Owner(r) /\ claims[Dec(r)].state \in FencedStates
      BY <2>2 DEF CanAdvance, ClaimSources, FencedStates
    <3>6. claims[Dec(r)] \in [state : ClaimStates, owner : Owners]
      BY <3>3, <3>5, FencedOwner
    <3>7. claims'[Dec(r)].state = "COMPLETED" /\ claims'[Dec(r)].owner.workflow = work[r]
      BY <3>4, <3>5, <3>6 DEF Owner
    <3> QED BY <1>3, <3>7 DEF CompletedFor, Stepped, Dec
  <2> QED BY <1>3, <2>1, <2>2 DEF Leads, LeadsLate
<1>4. Claims1(s)' => Claims1(s) \/ (m.pc = "audit_complete" /\ s = r)
  BY DEF Stepped
<1>5. Reports(s, "WORKFLOW_COMPLETE")' =>
          \/ Reports(s, "WORKFLOW_COMPLETE")
          \/ s = r /\ loc[r].pc \in AuditPcs /\ AuditRow(loc[r]).phase = "WORKFLOW_COMPLETE"
  BY ReportsStep
<1> QED BY <1>1, <1>2, <1>3, <1>4, <1>5

LEMMA NewHasNoToken ==
    ASSUME StartsFresh
    PROVE  \A s \in Runs : loc[s].pc # "new" \/ ~Own(s)
<1> SUFFICES ASSUME NEW s \in Runs, loc[s].pc = "new" PROVE loc[s].token # s
  BY DEF Own
<1>1. loc[s].token = ""
  BY DEF StartsFresh
<1>2. s # ""
  BY IdsAssumption
<1> QED BY <1>1, <1>2

LEMMA RunStepKeeps ==
    ASSUME RunsInv, NEW r \in Runs, NEW m, Leads(r, m), RunStep(r, m), FenceInv'
    PROVE  RunsInv' /\ ClaimsStep
<1> USE DEF RunsInv
<1>1. Stepped(r, m) /\ IdsKept
  BY SteppedLemma
<1>2. ClaimsStep
  BY RunStepClaims
<1>3. \A s \in Runs : loc[s].pc # "new" \/ ~Own(s)
  BY NewHasNoToken
<1>4. StartsFresh'
  BY <1>1, FreshStep
<1>5. TokensAreDrawn'
  BY <1>1, TokensStep
<1>6. OwnersAreRuns'
  BY <1>1, <1>2, <1>3, OwnersStep
<1>7. OwnIsBacked'
  BY <1>1, BackedStep
<1>8. FenceRowsAreTrue'
  BY <1>1, <1>2, FenceRowsStep
<1>9. CompleteRowsAreTrue'
  BY <1>1, <1>2, CompleteRowsStep
<1> QED BY <1>2, <1>4, <1>5, <1>6, <1>7, <1>8, <1>9

-----------------------------------------------------------------------------
(* The steps beside the runs: a late attempt takes effect, a dispatch       *)
(* activity moves on, the worker restarts, the policy changes.              *)
Aside ==
    /\ UNCHANGED workflowVars /\ late' \subseteq late /\ ClaimsStep
    /\ (revals' = revals /\ audit' = audit) \/ \E op \in late : Writes(op)
    /\ \A s \in Runs :
          /\ disp[s].at = "none" => disp'[s].at = "none" \/ loc[s].pc = "dispatch"
          /\ disp[s].at \in {"done", "lost"} => disp'[s].at \in {"done", "lost"} /\ disp'[s].kind = disp[s].kind
    /\ \A d \in Decisions : calls'[d] > 0 => calls[d] > 0 \/ disp'[claims'[d].owner.run].kind = "OUTCOME"

(* It writes only what was on its way. *)
LEMMA AsideWrites ==
    ASSUME Aside, NEW s \in Runs
    PROVE  /\ loc' = loc /\ past' = past /\ work' = work /\ request' = request
           /\ audit \subseteq audit' /\ (revals[s] # "NONE" => revals'[s] = revals[s])
           /\ \/ revals'[s] = revals[s]
              \/ \E op \in LateOf(s, "decision") : revals'[s] = op.verdict
           /\ \A row \in audit' : row \in audit \/ \E op \in late : op.kind = "audit" /\ row.run = op.run /\ row.phase = op.input
<1>1. loc' = loc /\ past' = past /\ work' = work /\ request' = request
  BY DEF Aside, workflowVars
<1>2. CASE revals' = revals /\ audit' = audit
  BY <1>1, <1>2
<1>3. ASSUME NEW op \in late, Writes(op)
      PROVE  /\ audit \subseteq audit' /\ (revals[s] # "NONE" => revals'[s] = revals[s])
             /\ \/ revals'[s] = revals[s]
                \/ op.run = s /\ op.kind = "decision" /\ revals'[s] = op.verdict
             /\ \A row \in audit' : row \in audit \/ (op.kind = "audit" /\ row.run = op.run /\ row.phase = op.input)
  BY <1>3 DEF Writes
<1>4. ASSUME NEW op \in late, Writes(op)
      PROVE  \/ revals'[s] = revals[s]
             \/ \E o \in LateOf(s, "decision") : revals'[s] = o.verdict
  BY <1>3, <1>4 DEF LateOf
<1> QED BY <1>1, <1>2, <1>3, <1>4 DEF Aside

LEMMA AsideReports ==
    ASSUME Aside, NEW s \in Runs, NEW phase, Reports(s, phase)'
    PROVE  Reports(s, phase)
<1>1. ASSUME NEW op \in late', op.run = s, op.kind = "audit", op.input = phase PROVE Reports(s, phase)
  BY <1>1 DEF Aside, Reports, LateOf
<1>2. ASSUME NEW row \in audit', row.run = s, row.phase = phase PROVE Reports(s, phase)
  <2>1. row \in audit \/ \E op \in late : op.kind = "audit" /\ row.run = op.run /\ row.phase = op.input
    BY AsideWrites
  <2> QED BY <1>2, <2>1 DEF Reports, LateOf
<1> QED BY <1>1, <1>2 DEF Reports, LateOf

LEMMA AsideFresh ==
    ASSUME FenceInv, StartsFresh, Aside
    PROVE  StartsFresh'
<1>1. ASSUME NEW s \in Runs, loc'[s].pc \in {"new", "verify"}
      PROVE  disp'[s].at = "none" /\ revals'[s] = "NONE" /\ \A op \in late' : op.run # s
  <2>1. loc[s].pc \in {"new", "verify"}
    BY <1>1, AsideWrites
  <2>2. disp[s].at = "none" /\ revals[s] = "NONE" /\ \A op \in late : op.run # s
    BY <2>1 DEF StartsFresh
  <2>3. disp'[s].at = "none"
    BY <2>1, <2>2 DEF Aside
  <2>4. revals'[s] = revals[s]
    BY <2>2, AsideWrites DEF LateOf
  <2> QED BY <2>2, <2>3, <2>4 DEF Aside
<1>2. ASSUME NEW s \in Runs, loc'[s].pc = "new"
      PROVE  loc'[s].token = "" /\ past'[s] = {} /\ \A row \in audit' : row.run # s
  <2>1. loc' = loc /\ past' = past
    BY AsideWrites
  <2>2. loc[s].token = "" /\ past[s] = {} /\ (\A row \in audit : row.run # s) /\ \A op \in late : op.run # s
    BY <1>2, <2>1 DEF StartsFresh
  <2>3. \A row \in audit' : row \in audit \/ \E op \in late : row.run = op.run
    BY AsideWrites
  <2> QED BY <2>1, <2>2, <2>3
<1> QED BY <1>1, <1>2 DEF StartsFresh

LEMMA AsideRevalidates ==
    ASSUME Aside, NEW s \in Runs, Revalidates(s)
    PROVE  Revalidates(s)'
<1>1. /\ loc' = loc /\ audit \subseteq audit' /\ (revals[s] # "NONE" => revals'[s] = revals[s])
      /\ revals'[s] = revals[s] \/ \E op \in LateOf(s, "decision") : revals'[s] = op.verdict
  BY AsideWrites
<1>2. LateOf(s, "decision")' \subseteq LateOf(s, "decision")
  BY DEF Aside, LateOf
<1>3. loc[s].pc \in {"claim", "claim_read", "evaluate"} => revals'[s] = "NONE" /\ LateOf(s, "decision")' = {}
  BY <1>1, <1>2 DEF Revalidates
<1>4. loc[s].pc = "record_decision" =>
          /\ revals'[s] \in {"NONE", loc[s].verdict}
          /\ \A op \in LateOf(s, "decision")' : op.verdict = loc[s].verdict
  BY <1>1, <1>2 DEF Revalidates
<1>5. loc[s].pc = "audit_pass" => revals'[s] = "ALLOW"
  BY <1>1 DEF Revalidates
<1>6. Backed(s) => Backed(s)'
  BY <1>1 DEF Backed, PassRow
<1>7. disp'[s].at # "none" => disp[s].at # "none" \/ loc[s].pc = "dispatch"
  BY DEF Aside
<1> QED BY <1>1, <1>3, <1>4, <1>5, <1>6, <1>7 DEF Revalidates

LEMMA AsideFenceRows ==
    ASSUME FenceInv, FenceRowsAreTrue, Aside
    PROVE  FenceRowsAreTrue'
<1>0. loc' = loc
  BY DEF Aside, workflowVars
<1>1. ASSUME NEW s \in Runs, loc'[s].pc \in FencePcs \/ Reports(s, "EXECUTION_FENCE")'
      PROVE  Refused(s)'
  <2>1. Refused(s)
    BY <1>0, <1>1, AsideReports DEF FenceRowsAreTrue
  <2>2. disp[s].at = "none" => disp'[s].at = "none" \/ loc[s].pc = "dispatch"
    BY DEF Aside
  <2>3. disp[s].at \in {"done", "lost"} => disp'[s].at \in {"done", "lost"} /\ disp'[s].kind = disp[s].kind
    BY DEF Aside
  <2>4. "dispatch" \in EarlyPcs
    BY DEF EarlyPcs
  <2> QED BY <1>0, <2>1, <2>2, <2>3, <2>4 DEF Refused
<1>2. ASSUME NEW d \in Decisions, calls'[d] > 0 PROVE disp'[claims'[d].owner.run].kind = "OUTCOME"
  <2>1. CASE calls[d] > 0
    <3>1. claims'[d].owner = claims[d].owner /\ claims[d].owner.run \in Runs
      BY <2>1, CallerStays DEF Aside
    <3>2. disp[claims[d].owner.run].at \in {"done", "lost"} /\ disp[claims[d].owner.run].kind = "OUTCOME"
      BY <2>1 DEF FenceInv, CallsAreFenced, FenceRowsAreTrue
    <3> QED BY <3>1, <3>2 DEF Aside
  <2> QED BY <1>2, <2>1 DEF Aside
<1> QED BY <1>1, <1>2 DEF FenceRowsAreTrue

LEMMA AsideKeeps ==
    ASSUME RunsInv, Aside, FenceInv'
    PROVE  RunsInv'
<1> USE DEF RunsInv
<1>1. loc' = loc /\ past' = past /\ work' = work /\ request' = request
  BY DEF Aside, workflowVars
<1>2. IdsKept
  BY <1>1 DEF IdsKept, Own
<1>3. StartsFresh'
  BY AsideFresh
<1>4. TokensAreDrawn'
  <2>1. \A s \in Runs : (Valid(s)' <=> Valid(s)) /\ (Own(s)' <=> Own(s))
    BY <1>1 DEF Valid, CheckIngress, Own
  <2>2. \A op \in late : op.run \in Runs
    BY DEF FenceInv, TypeOK, LateAttempts
  <2>3. late' \subseteq late
    BY DEF Aside
  <2>4. \A op \in late' : op.kind = "claim" => Own(op.run)'
    BY <2>1, <2>2, <2>3 DEF TokensAreDrawn
  <2> QED BY <1>1, <2>1, <2>4 DEF TokensAreDrawn
<1>5. OwnersAreRuns'
  BY <1>2, NewHasNoToken, OwnersStep DEF Aside
<1>6. OwnIsBacked'
  <2>1. \A s \in Runs : Own(s)' <=> Own(s)
    BY <1>1 DEF Own
  <2> QED BY <2>1, AsideRevalidates DEF OwnIsBacked
<1>7. FenceRowsAreTrue'
  BY AsideFenceRows
<1>8. CompleteRowsAreTrue'
  <2> SUFFICES ASSUME NEW s \in Runs,
                      \/ \E l \in past[s] \cup {loc[s]} : l.pc = "audit_complete"
                      \/ Reports(s, "WORKFLOW_COMPLETE")
               PROVE  CompletedFor(s)'
    BY <1>1, AsideReports DEF CompleteRowsAreTrue
  <2>1. CompletedFor(s)
    BY DEF CompleteRowsAreTrue
  <2>2. loc[s].pc # "new"
    BY DEF StartsFresh, Reports, LateOf
  <2> QED BY <1>2, <2>1, <2>2, CompletedStays DEF Aside
<1> QED BY <1>3, <1>4, <1>5, <1>6, <1>7, <1>8

LEMMA LateIsAside ==
    ASSUME RunsInv, NEW op \in late, LateAttempt(op)
    PROVE  Aside
<1> USE DEF RunsInv
<1>1. op \in LateAttempts /\ op.run \in Runs
  BY DEF FenceInv, TypeOK, LateAttempts
<1>2. Attempted(op, op.run)
  BY <1>1 DEF FenceInv, NewIsIdle, TokenDrawn, Attempted, Startable
<1>3. TakesEffect(op) /\ UNCHANGED <<workflowVars, disp, policy>> /\ late' = late \ {op}
  BY DEF LateAttempt
<1>4. Writes(op) /\ calls' = calls
  BY <1>3, WritesLemma DEF TakesEffect
<1>5. op.kind = "claim" => Own(op.run)
  BY DEF TokensAreDrawn
<1>6. ClaimsStep
  BY <1>1, <1>2, <1>3, <1>5, EffectOnClaims
<1> QED BY <1>3, <1>4, <1>6 DEF Aside

(* The dispatch activity of one run. *)
LEMMA DispatchIsAside ==
    ASSUME FenceInv, NEW r \in Runs, DispatchStep(r) \/ FenceWriteFails(r)
    PROVE  Aside
<1>0. DispatchTypes /\ StoreTypes
  BY TypeParts DEF FenceInv
<1>1. ASSUME UNCHANGED <<workflowVars, late, revals, audit>>, ClaimsStep,
             \A s \in Runs \ {r} : disp'[s] = disp[s],
             disp[r].at \notin {"done", "lost"}, disp[r].at # "none" \/ loc[r].pc = "dispatch",
             \A d \in Decisions : calls'[d] > 0 => calls[d] > 0 \/ disp'[claims'[d].owner.run].kind = "OUTCOME"
      PROVE  Aside
  BY <1>1 DEF Aside
<1>2. CASE StartDispatch(r)
  <2>1. /\ disp' = [disp EXCEPT ![r].at = "started"] /\ loc[r].pc = "dispatch" /\ disp[r].at = "none"
        /\ UNCHANGED <<workflowVars, late, policy, storeVars, adapterVars>>
    BY <1>2 DEF StartDispatch, DispatchGoes, Awaits
  <2> QED BY <1>0, <1>1, <2>1 DEF DispatchTypes, storeVars, adapterVars, ClaimsStep
<1>3. CASE AcquireFence(r) \/ FenceWriteFails(r)
  <2>1. /\ disp[r].at = "started" /\ UNCHANGED <<workflowVars, late, policy, revals, audit, adapterVars>>
        /\ claims' = claims \/ claims' = AdvanceWrite(Dec(r), Owner(r), "EXECUTING")
    BY <1>3 DEF AcquireFence, FenceWriteFails
  <2>2. \A s \in Runs \ {r} : disp'[s] = disp[s]
    BY <1>0, <1>3 DEF AcquireFence, FenceWriteFails, DispatchGoes, DispatchEnds, DispatchTypes
  <2>3. loc[r].pc # "new"
    BY <2>1, StartedLemma
  <2>4. "EXECUTING" \in ClaimStates
    BY DEF ClaimStates
  <2>5. ClaimsStep
    BY <2>1, <2>3, <2>4 DEF ClaimsStep
  <2> QED BY <1>1, <2>1, <2>2, <2>5 DEF adapterVars
<1>4. CASE ReadFencedClaim(r)
  <2>1. disp[r].at = "not_held" /\ UNCHANGED <<workflowVars, late, policy, storeVars, adapterVars>>
    BY <1>4 DEF ReadFencedClaim
  <2>2. \A s \in Runs \ {r} : disp'[s] = disp[s]
    BY <1>0, <1>4 DEF ReadFencedClaim, DispatchEnds, DispatchTypes
  <2> QED BY <1>1, <2>1, <2>2 DEF storeVars, adapterVars, ClaimsStep
<1>5. CASE CallAdapter(r)
  <2>1. PICK o : disp' = [disp EXCEPT ![r] = [at |-> "done", kind |-> "OUTCOME", outcome |-> o]]
    BY <1>5 DEF CallAdapter, DispatchEnds
  <2>2. /\ disp[r].at = "fenced" /\ calls' = [calls EXCEPT ![Dec(r)] = calls[Dec(r)] + 1]
        /\ UNCHANGED <<workflowVars, late, policy, storeVars, compensations>>
    BY <1>5 DEF CallAdapter
  <2>3. claims[Dec(r)].owner.run = r
    BY <2>2 DEF FenceInv, FenceHeld
  <2>4. (\A s \in Runs \ {r} : disp'[s] = disp[s]) /\ disp'[r].kind = "OUTCOME"
    BY <1>0, <2>1 DEF DispatchTypes
  <2>5. ASSUME NEW d \in Decisions, calls'[d] > 0
        PROVE  calls[d] > 0 \/ disp'[claims'[d].owner.run].kind = "OUTCOME"
    <3>1. CASE d = Dec(r)
      BY <2>2, <2>3, <2>4, <3>1 DEF storeVars
    <3>2. CASE d # Dec(r)
      BY <1>0, <2>2, <2>5, <3>2 DEF StoreTypes
    <3> QED BY <3>1, <3>2
  <2> QED BY <1>1, <2>2, <2>4, <2>5 DEF storeVars, ClaimsStep
<1> QED BY <1>2, <1>3, <1>4, <1>5 DEF DispatchStep

LEMMA WorkerIsAside ==
    ASSUME FenceInv, WorkerRestart \/ ReloadPolicy \/ UNCHANGED vars
    PROVE  Aside
<1>0. DispatchTypes
  BY TypeParts DEF FenceInv
<1>1. CASE WorkerRestart
  <2>1. /\ UNCHANGED <<workflowVars, policy, storeVars, calls, mutations, compensations>> /\ late' = {}
        /\ disp' = [r \in Runs |-> IF disp[r].at = "none" THEN disp[r] ELSE [disp[r] EXCEPT !.at = "lost"]]
    BY <1>1 DEF WorkerRestart
  <2>2. ASSUME NEW s \in Runs
        PROVE  /\ disp[s].at = "none" => disp'[s].at = "none"
               /\ disp[s].at \in {"done", "lost"} => disp'[s].at \in {"done", "lost"} /\ disp'[s].kind = disp[s].kind
    <3>1. disp[s] \in [at : DispatchStages, kind : ResultKinds, outcome : Outcomes]
      BY <1>0 DEF DispatchTypes
    <3> QED BY <2>1, <3>1
  <2> QED BY <2>1, <2>2 DEF Aside, storeVars, ClaimsStep
<1>2. CASE ReloadPolicy \/ UNCHANGED vars
  <2>1. UNCHANGED <<workflowVars, disp, late, storeVars, adapterVars>>
    BY <1>2 DEF ReloadPolicy, vars
  <2> QED BY <2>1 DEF Aside, storeVars, adapterVars, ClaimsStep
<1> QED BY <1>1, <1>2

-----------------------------------------------------------------------------
(* A run begins at k: started, or reset from a run that is closed for it.   *)
Closes(u) == loc[u].pc # "new" /\ loc'[u].pc = "closed" /\ loc'[u].token = loc[u].token

Begins(s, k) ==
    /\ loc[s].pc = "new" /\ k.pc # "new" /\ loc'[s] = k /\ past'[s] \subseteq {k}
    /\ \A u \in Runs \ {s} :
          /\ past'[u] = past[u] /\ work'[u] = work[u] /\ request'[u] = request[u]
          /\ loc'[u] = loc[u] \/ Closes(u)
    /\ disp' = disp /\ claims' = claims /\ revals' = revals /\ audit' = audit /\ calls' = calls
    /\ \/ late' = late
       \/ \E u \in Runs \ {s} :
             /\ late' = late \cup {Attempt(u)} /\ Closes(u)
             /\ loc[u].pc \in ActivityPcs /\ Attempt(u).kind # "read"
    /\ k.token # "" => Valid(s)' /\ loc'[k.token].pc # "new"
    /\ k.pc \in {"claim", "claim_read"} => k.token = s
    /\ k.token = s => k.pc = "claim"
    /\ k.pc = "audit_complete" => CompletedFor(s)'

LEMMA BeginsLate ==
    ASSUME FenceInv, NEW s \in Runs, NEW k, Begins(s, k), NEW op \in late'
    PROVE  \/ op \in late /\ op.run # s
           \/ \E u \in Runs \ {s} : /\ op = Attempt(u) /\ op.run = u /\ Closes(u)
                                  /\ loc[u].pc \in ActivityPcs /\ op.kind # "read"
<1>1. CASE op \in late
  BY <1>1 DEF Begins, FenceInv, NewIsIdle
<1>2. CASE op \notin late
  <2>1. PICK u \in Runs \ {s} : /\ late' = late \cup {Attempt(u)} /\ Closes(u)
                                /\ loc[u].pc \in ActivityPcs /\ Attempt(u).kind # "read"
    BY <1>2 DEF Begins
  <2>2. op = Attempt(u) /\ op.run = u
    BY <1>2, <2>1, AttemptIs
  <2> QED BY <2>1, <2>2
<1> QED BY <1>1, <1>2

LEMMA BeginsFresh ==
    ASSUME FenceInv, StartsFresh, NEW s \in Runs, NEW k, Begins(s, k)
    PROVE  StartsFresh'
<1>1. ASSUME NEW u \in Runs, loc'[u].pc \in {"new", "verify"}
      PROVE  disp'[u].at = "none" /\ revals'[u] = "NONE" /\ \A op \in late' : op.run # u
  <2>1. loc[u].pc \in {"new", "verify"} /\ ~Closes(u)
    BY <1>1 DEF Begins, Closes
  <2>2. disp[u].at = "none" /\ revals[u] = "NONE" /\ \A op \in late : op.run # u
    BY <2>1 DEF StartsFresh
  <2>3. \A op \in late' : op.run # u
    BY <2>1, <2>2, BeginsLate
  <2> QED BY <2>2, <2>3 DEF Begins
<1>2. ASSUME NEW u \in Runs, loc'[u].pc = "new"
      PROVE  loc'[u].token = "" /\ past'[u] = {} /\ \A row \in audit' : row.run # u
  <2>1. u # s /\ loc'[u] = loc[u] /\ past'[u] = past[u] /\ loc[u].pc = "new"
    BY <1>2 DEF Begins, Closes
  <2>2. loc[u].token = "" /\ past[u] = {} /\ \A row \in audit : row.run # u
    BY <2>1 DEF StartsFresh
  <2>3. audit' = audit
    BY DEF Begins
  <2> QED BY <2>1, <2>2, <2>3
<1> QED BY <1>1, <1>2 DEF StartsFresh

LEMMA BeginsTokens ==
    ASSUME FenceInv, StartsFresh, TokensAreDrawn, NEW s \in Runs, NEW k, Begins(s, k), IdsKept
    PROVE  TokensAreDrawn'
<1>1. ASSUME NEW u \in Runs, NEW l \in past'[u] \cup {loc'[u]}, l.token # ""
      PROVE  Valid(u)' /\ loc'[l.token].pc # "new"
  <2>1. CASE u = s
    BY <1>1, <2>1 DEF Begins
  <2>2. CASE u # s
    <3>0. past'[u] = past[u] /\ (loc'[u] = loc[u] \/ loc'[u].token = loc[u].token)
      BY <2>2 DEF Begins, Closes
    <3>1. PICK h \in past[u] \cup {loc[u]} : h.token = l.token
      BY <3>0
    <3>2. Valid(u) /\ loc[l.token].pc # "new"
      BY <1>1, <3>1 DEF TokensAreDrawn
    <3>3. l.token \in Runs
      BY <1>1, <3>1, PastLemma
    <3>4. loc'[l.token].pc # "new"
      BY <3>2, <3>3 DEF IdsKept
    <3>5. Valid(u)'
      BY <2>2, <3>2 DEF Begins, Valid, CheckIngress
    <3> QED BY <3>4, <3>5
  <2> QED BY <2>1, <2>2
<1>2. ASSUME NEW u \in Runs, loc'[u].pc \in {"claim", "claim_read"} PROVE Own(u)'
  <2>1. CASE u = s
    BY <1>2, <2>1 DEF Begins, Own
  <2>2. CASE u # s
    <3>1. loc'[u] = loc[u]
      BY <1>2, <2>2 DEF Begins, Closes
    <3> QED BY <1>2, <3>1 DEF TokensAreDrawn, Own
  <2> QED BY <2>1, <2>2
<1>3. ASSUME NEW u \in Runs, NEW l \in past'[u] PROVE l.pc # "new" /\ (l.pc = "claim" => l.token # "")
  <2>1. CASE u = s
    <3>1. l = k /\ k.pc # "new" /\ (k.pc = "claim" => k.token = s)
      BY <2>1 DEF Begins
    <3> QED BY <3>1, IdsAssumption
  <2>2. CASE u # s
    BY <2>2 DEF Begins, TokensAreDrawn
  <2> QED BY <2>1, <2>2
<1>4. ASSUME NEW op \in late', op.kind = "claim" PROVE Own(op.run)'
  <2>1. CASE op \in late
    <3>1. op.run \in Runs /\ Own(op.run) /\ loc[op.run].pc # "new"
      BY <1>4, <2>1 DEF FenceInv, TypeOK, LateAttempts, NewIsIdle, TokensAreDrawn
    <3> QED BY <3>1 DEF IdsKept
  <2>2. ASSUME NEW u \in Runs, op = Attempt(u), op.run = u, loc[u].pc \in ActivityPcs PROVE Own(op.run)'
    <3>1. loc[u].pc = "claim"
      BY <1>4, <2>2, AttemptIs
    <3>2. Own(u) /\ loc[u].pc # "new"
      BY <3>1 DEF TokensAreDrawn
    <3> QED BY <2>2, <3>2 DEF IdsKept
  <2> QED BY <2>1, <2>2, BeginsLate
<1> QED BY <1>1, <1>2, <1>3, <1>4 DEF TokensAreDrawn

LEMMA BeginsBacked ==
    ASSUME FenceInv, StartsFresh, OwnIsBacked, NEW s \in Runs, NEW k, Begins(s, k)
    PROVE  OwnIsBacked'
<1> SUFFICES ASSUME NEW u \in Runs, loc'[u].token = u PROVE Revalidates(u)'
  BY DEF OwnIsBacked, Own
<1>0. disp' = disp /\ revals' = revals /\ audit' = audit
  BY DEF Begins
<1>1. CASE u = s
  <2>1. loc'[u] = k /\ k.pc = "claim" /\ loc[u].pc = "new"
    BY <1>1 DEF Begins
  <2>2. disp[u].at = "none" /\ revals[u] = "NONE"
    BY <2>1 DEF StartsFresh
  <2>3. LateOf(u, "decision")' = {}
    BY <1>1, BeginsLate DEF LateOf
  <2> QED BY <1>0, <2>1, <2>2, <2>3 DEF Revalidates
<1>2. CASE u # s
  <2>1. Revalidates(u)
    BY <1>2 DEF OwnIsBacked, Begins, Closes, Own
  <2>2. Backed(u)' <=> Backed(u)
    BY <1>0 DEF Backed, PassRow
  <2>3. CASE loc'[u].pc = "closed"
    BY <1>0, <2>1, <2>2, <2>3 DEF Revalidates
  <2>4. CASE loc'[u] = loc[u] /\ ~Closes(u)
    <3>1. LateOf(u, "decision")' \subseteq LateOf(u, "decision")
      BY <2>4, BeginsLate DEF LateOf
    <3> QED BY <1>0, <2>1, <2>2, <2>4, <3>1 DEF Revalidates
  <2> QED BY <1>2, <2>3, <2>4 DEF Begins, Closes
<1> QED BY <1>1, <1>2

LEMMA BeginsReports ==
    ASSUME FenceInv, StartsFresh, NEW s \in Runs, NEW k, Begins(s, k), NEW u \in Runs, NEW phase, Reports(u, phase)'
    PROVE  /\ u # s
           /\ Reports(u, phase) \/ (loc[u].pc \in AuditPcs /\ AuditRow(loc[u]).phase = phase)
<1>1. ASSUME NEW op \in late', op.run = u, op.kind = "audit", op.input = phase
      PROVE  /\ u # s
             /\ Reports(u, phase) \/ (loc[u].pc \in AuditPcs /\ AuditRow(loc[u]).phase = phase)
  <2>1. CASE op \in late /\ op.run # s
    BY <1>1, <2>1 DEF Reports, LateOf
  <2>2. CASE \E t \in Runs \ {s} : op = Attempt(t) /\ op.run = t /\ loc[t].pc \in ActivityPcs
    BY <1>1, <2>2, AttemptIs
  <2> QED BY <2>1, <2>2, BeginsLate
<1>2. ASSUME NEW row \in audit', row.run = u, row.phase = phase
      PROVE  u # s /\ Reports(u, phase)
  BY <1>2 DEF Begins, StartsFresh, Reports
<1> QED BY <1>1, <1>2 DEF Reports, LateOf

LEMMA BeginsKeeps ==
    ASSUME RunsInv, NEW s \in Runs, NEW k, Begins(s, k), FenceInv'
    PROVE  RunsInv' /\ ClaimsStep
<1> USE DEF RunsInv
<1>1. IdsKept
  BY DEF IdsKept, Begins, Closes, Own
<1>2. ClaimsStep
  BY DEF Begins, ClaimsStep
<1>3. FenceRowsAreTrue'
  <2>1. ASSUME NEW u \in Runs, loc'[u].pc \in FencePcs \/ Reports(u, "EXECUTION_FENCE")'
        PROVE  Refused(u)'
    <3>1. CASE u = s
      <4>1. k.pc \in FencePcs /\ loc'[u] = k /\ loc[u].pc = "new"
        BY <2>1, <3>1, BeginsReports DEF Begins
      <4>2. disp'[u].at = "none"
        BY <4>1 DEF Begins, StartsFresh
      <4>3. k.pc \notin EarlyPcs \cup {"new"}
        BY <4>1 DEF EarlyPcs, FencePcs
      <4> QED BY <4>1, <4>2, <4>3 DEF Refused
    <3>2. CASE u # s
      <4>1. loc'[u] = loc[u] \/ loc'[u].pc = "closed"
        BY <3>2 DEF Begins, Closes
      <4>2. loc[u].pc \in FencePcs \/ Reports(u, "EXECUTION_FENCE")
        <5>1. CASE loc'[u].pc \in FencePcs
          BY <4>1, <5>1 DEF FencePcs
        <5>2. CASE Reports(u, "EXECUTION_FENCE")'
          BY <5>2, BeginsReports, AuditRowIs DEF FencePcs
        <5> QED BY <2>1, <5>1, <5>2
      <4>3. Refused(u)
        BY <4>2 DEF FenceRowsAreTrue
      <4>4. "closed" \notin EarlyPcs \cup {"new"} /\ disp' = disp
        BY DEF EarlyPcs, Begins
      <4> QED BY <4>1, <4>3, <4>4 DEF Refused
    <3> QED BY <3>1, <3>2
  <2>2. ASSUME NEW d \in Decisions, calls'[d] > 0 PROVE disp'[claims'[d].owner.run].kind = "OUTCOME"
    BY <2>2 DEF Begins, FenceRowsAreTrue
  <2> QED BY <2>1, <2>2 DEF FenceRowsAreTrue
<1>4. CompleteRowsAreTrue'
  <2> SUFFICES ASSUME NEW u \in Runs,
                      \/ \E l \in past'[u] \cup {loc'[u]} : l.pc = "audit_complete"
                      \/ Reports(u, "WORKFLOW_COMPLETE")'
               PROVE  CompletedFor(u)'
    BY DEF CompleteRowsAreTrue
  <2>1. CASE u = s
    <3>1. past'[u] \cup {loc'[u]} \subseteq {k} /\ (k.pc = "audit_complete" => CompletedFor(u)')
      BY <2>1 DEF Begins
    <3> QED BY <2>1, <3>1, BeginsReports
  <2>2. CASE u # s
    <3>1. past'[u] = past[u] /\ (loc'[u] = loc[u] \/ loc'[u].pc = "closed")
      BY <2>2 DEF Begins, Closes
    <3>2. \/ \E l \in past[u] \cup {loc[u]} : l.pc = "audit_complete"
          \/ Reports(u, "WORKFLOW_COMPLETE")
      BY <3>1, BeginsReports, AuditRowIs
    <3>3. CompletedFor(u) /\ loc[u].pc # "new"
      BY <3>2 DEF CompleteRowsAreTrue, StartsFresh, Reports, LateOf
    <3> QED BY <1>1, <1>2, <3>3, CompletedStays
  <2> QED BY <2>1, <2>2
<1>5. StartsFresh' /\ TokensAreDrawn' /\ OwnIsBacked'
  BY <1>1, BeginsFresh, BeginsTokens, BeginsBacked
<1>6. OwnersAreRuns'
  BY <1>1, <1>2, NewHasNoToken, OwnersStep
<1> QED BY <1>2, <1>3, <1>4, <1>5, <1>6

LEMMA StartBegins ==
    ASSUME RunsInv, NEW r \in Runs, NEW w, NEW q, StartWorkflow(r, w, q)
    PROVE  Begins(r, loc'[r])
<1> USE DEF RunsInv
<1>0. /\ loc \in [Runs -> Locs] /\ past \in [Runs -> SUBSET Locs]
      /\ DOMAIN work = Runs /\ DOMAIN request = Runs
  BY DEF FenceInv, TypeOK
<1>1. /\ loc[r].pc = "new" /\ loc' = [loc EXCEPT ![r].pc = "verify"]
      /\ past' = [past EXCEPT ![r] = {loc'[r]}] \/ past' = past
      /\ work' = [work EXCEPT ![r] = w] /\ request' = [request EXCEPT ![r] = q]
      /\ UNCHANGED <<disp, late, policy, storeVars, adapterVars>>
  BY DEF StartWorkflow
<1>2. loc[r].token = "" /\ past[r] = {}
  BY <1>1 DEF StartsFresh
<1>3. PICK k : k = loc'[r]
  OBVIOUS
<1>4. k.pc = "verify" /\ k.token = ""
  BY <1>0, <1>1, <1>2, <1>3 DEF Locs
<1>5. past'[r] \subseteq {k} /\ \A u \in Runs \ {r} : past'[u] = past[u]
  BY <1>0, <1>1, <1>2, <1>3
<1>6. \A u \in Runs \ {r} : work'[u] = work[u] /\ request'[u] = request[u] /\ loc'[u] = loc[u]
  BY <1>0, <1>1
<1>7. r # ""
  BY IdsAssumption
<1>8. disp' = disp /\ claims' = claims /\ revals' = revals /\ audit' = audit /\ calls' = calls /\ late' = late
  BY <1>1 DEF storeVars, adapterVars
<1>9. Begins(r, k)
  BY <1>1, <1>3, <1>4, <1>5, <1>6, <1>7, <1>8 DEF Begins
<1> QED BY <1>3, <1>9

LEMMA ResetBegins ==
    ASSUME RunsInv, NEW r \in Runs, NEW s \in Runs, NEW l \in past[r], Reset(r, s, l)
    PROVE  Begins(s, loc'[s])
<1> USE DEF RunsInv
<1>0. /\ loc \in [Runs -> Locs] /\ past \in [Runs -> SUBSET Locs]
      /\ DOMAIN work = Runs /\ DOMAIN request = Runs
  BY DEF FenceInv, TypeOK
<1>1. PICK k : k = IF l.pc = "claim" THEN [l EXCEPT !.token = s] ELSE l
  OBVIOUS
<1>2. /\ loc[r].pc # "new" /\ loc[s].pc = "new" /\ r # s
      /\ (Open(r) /\ Abandons(r)) \/ late' = late
      /\ loc' = [loc EXCEPT ![r] = IF Open(r) THEN Exit(loc[r], "TERMINATED") ELSE loc[r], ![s] = k]
      /\ past' = [past EXCEPT ![s] = {loc'[s]}]
      /\ work' = [work EXCEPT ![s] = work[r]] /\ request' = [request EXCEPT ![s] = request[r]]
      /\ UNCHANGED <<disp, policy, storeVars, adapterVars>>
  BY <1>0, <1>1 DEF Reset
<1>3. /\ loc'[s] = k /\ past'[s] = {k} /\ work'[s] = work[r] /\ request'[s] = request[r]
      /\ \A u \in Runs \ {s} : past'[u] = past[u] /\ work'[u] = work[u] /\ request'[u] = request[u]
      /\ \A u \in Runs \ {s, r} : loc'[u] = loc[u]
      /\ loc'[r] = IF Open(r) THEN Exit(loc[r], "TERMINATED") ELSE loc[r]
  BY <1>0, <1>2
<1>4. Open(r) => Closes(r)
  <2>1. ASSUME NEW m, NEW e PROVE Exit(m, e).pc = "closed" /\ Exit(m, e).token = m.token
    BY DEF Exit, NewLoc
  <2>2. Open(r) => loc'[r] = Exit(loc[r], "TERMINATED")
    BY <1>3
  <2> QED BY <1>2, <2>1, <2>2 DEF Closes
<1>5. /\ l \in Locs /\ (l.token \in Runs \/ l.token = "")
      /\ l.pc # "new" /\ l.pc # "claim_read" /\ (l.pc = "claim" => l.token # "")
      /\ l.token # "" => Valid(r) /\ loc[l.token].pc # "new"
  BY PastLemma DEF FenceInv, TokenDrawn, TokensAreDrawn
<1>6. /\ k.pc = l.pc /\ (l.pc = "claim" => k.token = s) /\ (l.pc # "claim" => k.token = l.token)
  BY <1>1, <1>5 DEF Locs
<1>7. l.token # s
  BY <1>2, <1>5, IdsAssumption
<1>8. ASSUME k.token # "" PROVE Valid(s)' /\ loc'[k.token].pc # "new"
  <2>1. l.token # ""
    BY <1>5, <1>6, <1>8
  <2>2. Valid(r)
    BY <1>5, <2>1
  <2>3. Valid(s)'
    BY <1>3, <2>2 DEF Valid, CheckIngress
  <2>4. CASE l.pc = "claim"
    BY <1>3, <1>5, <1>6, <2>3, <2>4
  <2>5. CASE l.pc # "claim"
    <3>1. k.token = l.token /\ l.token \in Runs \ {s} /\ loc[l.token].pc # "new"
      BY <1>5, <1>6, <1>7, <2>1, <2>5
    <3> QED BY <1>3, <1>4, <2>3, <3>1 DEF Closes
  <2> QED BY <2>3, <2>4, <2>5
<1>9. k.pc = "audit_complete" => CompletedFor(s)'
  <2>1. k.pc = "audit_complete" => CompletedFor(r)
    BY <1>6 DEF CompleteRowsAreTrue
  <2>2. claims' = claims
    BY <1>2 DEF storeVars
  <2> QED BY <1>3, <2>1, <2>2 DEF CompletedFor, Dec
<1>10. \/ late' = late
       \/ \E u \in Runs \ {s} :
             /\ late' = late \cup {Attempt(u)} /\ Closes(u)
             /\ loc[u].pc \in ActivityPcs /\ Attempt(u).kind # "read"
  BY <1>2, <1>4 DEF Abandons, MayBeLate
<1>11. \A u \in Runs \ {s} : loc'[u] = loc[u] \/ Closes(u)
  BY <1>3, <1>4
<1>12. disp' = disp /\ claims' = claims /\ revals' = revals /\ audit' = audit /\ calls' = calls
  BY <1>2 DEF storeVars, adapterVars
<1>13. /\ k.pc \in {"claim", "claim_read"} => k.token = s
       /\ k.token = s => k.pc = "claim"
       /\ k.pc # "new"
  BY <1>5, <1>6, <1>7
<1>14. Begins(s, k)
  BY <1>2, <1>3, <1>8, <1>9, <1>10, <1>11, <1>12, <1>13 DEF Begins
<1> QED BY <1>3, <1>14

-----------------------------------------------------------------------------
LEMMA RunsInit == Init => RunsInv
<1> SUFFICES ASSUME Init PROVE RunsInv
  OBVIOUS
<1>1. FenceInv
  BY InitLemma
<1>2. /\ \A r \in Runs : loc[r] = NewLoc /\ past[r] = {} /\ disp[r] = NoDispatch /\ revals[r] = "NONE"
      /\ late = {} /\ audit = {}
      /\ \A d \in Decisions : claims[d] = NoClaim /\ calls[d] = 0
  BY DEF Init, StoreInit
<1>3. NewLoc.pc = "new" /\ NewLoc.token = "" /\ NoDispatch.at = "none" /\ NoClaim.state = "NONE"
  BY DEF NewLoc, NoDispatch, NoClaim
<1>4. StartsFresh
  BY <1>2, <1>3 DEF StartsFresh
<1>5. TokensAreDrawn
  BY <1>2, <1>3 DEF TokensAreDrawn
<1>6. OwnersAreRuns
  BY <1>2, <1>3 DEF OwnersAreRuns
<1>7. OwnIsBacked
  BY <1>2, <1>3 DEF OwnIsBacked, Revalidates
<1>8. FenceRowsAreTrue
  <2>1. \A r \in Runs : loc[r].pc \notin FencePcs /\ ~Reports(r, "EXECUTION_FENCE")
    BY <1>2, <1>3 DEF Reports, LateOf, FencePcs
  <2>2. \A d \in Decisions : ~(calls[d] > 0)
    BY <1>2
  <2> QED BY <2>1, <2>2 DEF FenceRowsAreTrue
<1>9. CompleteRowsAreTrue
  BY <1>2, <1>3 DEF CompleteRowsAreTrue, Reports, LateOf
<1> QED BY <1>1, <1>4, <1>5, <1>6, <1>7, <1>8, <1>9 DEF RunsInv

(* Every step keeps the invariant, and does to the claims what a run may.   *)
LEMMA RunsStep ==
    ASSUME RunsInv, [Next]_vars
    PROVE  RunsInv' /\ ClaimsStep
<1>0. FenceInv
  BY DEF RunsInv
<1>1. FenceInv'
  BY <1>0, FenceStep
<1>2. ASSUME NEW r \in Runs, WorkflowStep(r) PROVE RunsInv' /\ ClaimsStep
  <2>1. PICK m : Leads(r, m) /\ RunStep(r, m)
    BY <1>0, <1>2, WorkflowRunStep
  <2> QED BY <1>1, <2>1, RunStepKeeps
<1>3. ASSUME NEW r \in Runs, AttemptFails(r) \/ AttemptTimesOut(r) \/ RoundLasts(r) \/ Cancel(r) \/ Terminate(r)
      PROVE  RunsInv' /\ ClaimsStep
  <2>1. PICK m : Leads(r, m) /\ RunStep(r, m)
    BY <1>0, <1>3, DisturbanceRunStep
  <2> QED BY <1>1, <2>1, RunStepKeeps
<1>4. ASSUME NEW r \in Runs, NEW s \in Runs, NEW l \in past[r], Reset(r, s, l) PROVE RunsInv' /\ ClaimsStep
  BY <1>1, <1>4, ResetBegins, BeginsKeeps
<1>5. ASSUME NEW r \in Runs, NEW w \in Workflows, NEW q \in Requests, StartWorkflow(r, w, q)
      PROVE  RunsInv' /\ ClaimsStep
  BY <1>1, <1>5, StartBegins, BeginsKeeps
<1>6. ASSUME Aside PROVE RunsInv' /\ ClaimsStep
  BY <1>1, <1>6, AsideKeeps DEF Aside
<1>7. ASSUME NEW r \in Runs, DispatchStep(r) \/ FenceWriteFails(r) PROVE Aside
  BY <1>0, <1>7, DispatchIsAside
<1>8. ASSUME NEW op \in late, LateAttempt(op) PROVE Aside
  BY <1>8, LateIsAside
<1>9. WorkerRestart \/ ReloadPolicy \/ UNCHANGED vars => Aside
  BY <1>0, WorkerIsAside
<1>10. ASSUME NEW r \in Runs, Disturbance(r) PROVE RunsInv' /\ ClaimsStep
  BY <1>3, <1>4, <1>6, <1>7, <1>10 DEF Disturbance
<1> QED BY <1>2, <1>5, <1>6, <1>7, <1>8, <1>9, <1>10 DEF Next

(* The invariant of the runs holds throughout: whoever is to report or to   *)
(* call is on record for it.                                                *)
THEOREM RunsCorrect == Spec => []RunsInv
<1>1. RunsInv /\ [Next]_vars => RunsInv'
  BY RunsStep
<1> QED BY <1>1, RunsInit, PTL DEF Spec

(* The workflows and activities use the claim store only as it is meant to  *)
(* be used: every write is one of its two conditional writes, for a         *)
(* recorded decision and as a complete owner.                               *)
THEOREM SagaUsesStore == Spec => UsesStore
<1>1. Init => StoreInit
  BY DEF Init
<1>2. RunsInv /\ [Next]_vars => [StoreNext]_claims
  <2> SUFFICES ASSUME RunsInv, [Next]_vars PROVE [StoreNext]_claims
    OBVIOUS
  <2>1. FenceInv /\ ClaimsStep
    BY RunsStep DEF RunsInv
  <2> QED BY <2>1, ClaimsStepIsStoreStep
<1> QED BY <1>1, <1>2, RunsCorrect, PTL DEF Spec, UsesStore, StoreSpec

(* So in the saga too a claim past the fence is never released, claimed     *)
(* again or moved to another owner,                                         *)
THEOREM SagaFencesForGood == Spec => FencedForGood
BY SagaUsesStore, StoreFencesForGood, PTL DEF UsesStore

(* a confirmed outcome is final,                                            *)
THEOREM SagaConfirmsForGood == Spec => ConfirmedIsFinal
BY SagaUsesStore, StoreConfirmsForGood, PTL DEF UsesStore

(* and no run takes over a claim that another run still holds.              *)
THEOREM SagaNeverSteals == Spec => NeverStolen
BY SagaUsesStore, StoreNeverSteals, PTL DEF UsesStore

(* The run that reached the adapter named a recorded ingress ALLOW for this *)
(* request and workflow, and had its own ALLOW and its PASS row on record.  *)
THEOREM DispatchIsBacked == Spec => []DispatchBacked
<1>1. RunsInv => DispatchBacked
  <2> SUFFICES ASSUME RunsInv, NEW d \in Decisions, calls[d] > 0, NEW r, r = claims[d].owner.run
               PROVE  Dec(r) = d /\ Valid(r) /\ Backed(r)
    BY DEF DispatchBacked, Valid, Backed, PassRow
  <2>1. claims[d].state \in FencedStates /\ disp[r].at \in {"done", "lost"}
    BY DEF RunsInv, FenceInv, CallsAreFenced
  <2>2. PICK s \in Runs : claims[d].owner = Owner(s) /\ Own(s) /\ Dec(s) = d
    BY <2>1 DEF RunsInv, OwnersAreRuns, FencedStates
  <2>3. s = r
    BY <2>2 DEF Owner
  <2>4. s # ""
    BY IdsAssumption
  <2>5. Valid(r)
    BY <2>2, <2>3, <2>4 DEF RunsInv, TokensAreDrawn, Own
  <2>6. Backed(r)
    BY <2>1, <2>2, <2>3 DEF RunsInv, OwnIsBacked, Revalidates
  <2> QED BY <2>2, <2>3, <2>5, <2>6
<1> QED BY <1>1, RunsCorrect, PTL

(* A run with an EXECUTION_FENCE row has not reached the adapter and its    *)
(* activity never will.                                                     *)
THEOREM FenceRowIsTrue == Spec => []FenceRowMeansNotCalled
<1>1. RunsInv => FenceRowMeansNotCalled
  <2> SUFFICES ASSUME RunsInv, NEW r \in Runs, HasRow(r, "EXECUTION_FENCE", AuditVerdicts)
               PROVE  disp[r].at # "fenced" /\ ~(calls[Dec(r)] > 0 /\ claims[Dec(r)].owner.run = r)
    BY DEF FenceRowMeansNotCalled
  <2>1. Reports(r, "EXECUTION_FENCE")
    BY DEF HasRow, Reports
  <2>2. Refused(r)
    BY <2>1 DEF RunsInv, FenceRowsAreTrue
  <2>3. loc[r].pc # "new"
    BY <2>1 DEF RunsInv, StartsFresh, Reports, LateOf
  <2>4. Dec(r) \in Decisions
    BY <2>3, OwnerLemma DEF RunsInv
  <2>5. ASSUME calls[Dec(r)] > 0, claims[Dec(r)].owner.run = r PROVE FALSE
    <3>1. disp[r].at \in {"done", "lost"} /\ disp[r].kind = "OUTCOME"
      BY <2>4, <2>5 DEF RunsInv, FenceInv, CallsAreFenced, FenceRowsAreTrue
    <3> QED BY <2>2, <3>1 DEF Refused
  <2>6. disp[r].at # "fenced"
    BY <2>2 DEF Refused
  <2> QED BY <2>5, <2>6
<1> QED BY <1>1, RunsCorrect, PTL

(* A WORKFLOW_COMPLETE row, a reset run's too, stands for a COMPLETED claim *)
(* of its workflow.                                                         *)
THEOREM CompletionIsTrue == Spec => []CompleteRowIsTrue
<1>1. RunsInv => CompleteRowIsTrue
  <2> SUFFICES ASSUME RunsInv, NEW r \in Runs, HasRow(r, "WORKFLOW_COMPLETE", AuditVerdicts)
               PROVE  CompletedFor(r)
    BY DEF CompleteRowIsTrue, CompletedFor
  <2>1. Reports(r, "WORKFLOW_COMPLETE")
    BY DEF HasRow, Reports
  <2> QED BY <2>1 DEF RunsInv, CompleteRowsAreTrue
<1> QED BY <1>1, RunsCorrect, PTL
=============================================================================
