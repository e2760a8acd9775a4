---------------------------- MODULE SagaFlowProofs ----------------------------
(***************************************************************************)
(* Proofs about the control flow of the saga: from where a run can come to *)
(* a place, what must have happened for that, and what such a step writes; *)
(* and, from these, about the schedule of the reconciliation.              *)
(***************************************************************************)
EXTENDS SagaProofs

-----------------------------------------------------------------------------
(* A reset run carries the token of another run, so it can be told from the *)
(* run that drew it.                                                        *)
Own(r) == loc[r].token = r

Valid(r) == CheckIngress(request[r], work[r]) = "VALID"

(* Up to the dispatch; no run comes back here. *)
EarlyPcs == {"verify", "rej_decision", "rej_audit", "claim", "claim_read", "evaluate",
             "record_decision", "audit_denied", "audit_pass", "dispatch"}

(* Before a run has its claim, and after its compensation. *)
UnclaimedPcs == {"verify", "rej_decision", "rej_audit", "claim", "claim_read"}
CompensatedPcs == {"audit_comp_pass", "audit_comp_fail", "audit_failed", "closed"}

FencePcs == {"release_rejected", "release_unknown", "audit_fence_fail", "audit_fence_unknown"}

-----------------------------------------------------------------------------
(* The control flow: from where a run can come to a place. *)

(* What holds of an outcome where the workflow acts on it. *)
MarksAgree(m) ==
    /\ m.pc = "mark_completed" => m.outcome.status = "SUCCESS"
    /\ m.pc = "mark_failed" => m.outcome.status = "FAILURE"
    /\ m.pc = "compensate" => m.outcome.partial

(* From l to m when an activity ended, and ok if it ended without an error. *)
Follows(l, m, ok) ==
    /\ m.pc \notin {"new", "verify", "rej_decision", "claim", "claim_read", "evaluate",
                     "record_decision", "release_rejected", "release_unknown"}
    /\ m.pc \in EarlyPcs \cup {"release"} => l.pc \in EarlyPcs
    /\ l.pc \in {"claim", "claim_read"} => m.pc = "release"
    /\ l.pc = "release" => m.pc = "closed"
    /\ l.pc \in UnclaimedPcs => m.pc \in {"rej_audit", "release", "closed"}
    /\ l.pc = "dispatch" => m.pc \notin EarlyPcs \cup {"release"}
    /\ l.pc \in CompensatedPcs \cup {"compensate"} => m.pc \in CompensatedPcs
    /\ m.pc = "rej_audit" => l.pc = "rej_decision" /\ m.exit = l.exit
    /\ m.pc = "audit_denied" => l.pc = "record_decision"
    /\ m.pc = "audit_pass" => l.pc = "record_decision" /\ l.verdict = "ALLOW" /\ ok
    /\ m.pc = "dispatch" => l.pc = "audit_pass" /\ ok
    /\ m.pc \in FencePcs => l.pc \in {"release_rejected", "release_unknown"}
    /\ m.pc = "audit_fence_fail" /\ l.pc = "release_unknown" => ok
    /\ m.pc = "audit_complete" => l.pc = "mark_completed" /\ ok
    /\ m.outcome = l.outcome \/ m.outcome = UnknownOutcome
    /\ m.pc \notin {"mark_completed", "mark_failed"} \/ m.outcome = l.outcome
    /\ MarksAgree(m)

LEMMA GotoFlow ==
    ASSUME NEW l \in Locs, NEW pc \in Pcs
    PROVE  /\ Goto(l, pc).pc = pc /\ Goto(l, pc).outcome = l.outcome
           /\ Goto(l, pc).exit = l.exit /\ Goto(l, pc).verdict = l.verdict
BY DEF Goto, Locs

LEMMA ExitFlow ==
    ASSUME NEW l, NEW e
    PROVE  Exit(l, e).pc = "closed" /\ Exit(l, e).outcome = UnknownOutcome
BY DEF Exit, NewLoc

LEMMA ReleasingFlow ==
    ASSUME NEW l \in Locs, NEW e
    PROVE  /\ Releasing(l, e).pc = "release" /\ Releasing(l, e).outcome = l.outcome
           /\ Rejecting(l, e).pc = "rej_decision" /\ Rejecting(l, e).outcome = l.outcome
           /\ Rejecting(l, e).exit = e
BY DEF Releasing, Rejecting, Goto, Locs

LEMMA AfterFlow ==
    ASSUME NEW l \in Locs, NEW ok \in BOOLEAN
    PROVE  Follows(l, After(l, ok), ok)
<1> USE DEF Follows, MarksAgree, FencePcs, EarlyPcs, UnclaimedPcs, CompensatedPcs
<1>1. l.pc \notin {"claim", "claim_read"} => \A e : Follows(l, Exit(l, e), ok)
  BY ExitFlow
<1>2. l.pc \in EarlyPcs \ {"dispatch"} => \A e : Follows(l, Releasing(l, e), ok)
  BY ReleasingFlow
<1>3. CASE l.pc \in {"rej_decision", "rej_audit"}
  <2>1. Follows(l, AfterRejection(l), ok)
    BY <1>1, <1>3, GotoFlow DEF AfterRejection, Pcs, ActivityPcs, AuditPcs
  <2>2. After(l, ok) = AfterRejection(l)
    BY <1>3 DEF After
  <2> QED BY <2>1, <2>2
<1>4. CASE l.pc \in {"record_decision", "audit_denied", "audit_pass"}
  <2>1. Follows(l, AfterRevalidation(l, ok), ok)
    BY <1>2, <1>4, GotoFlow DEF AfterRevalidation, Pcs, ActivityPcs, AuditPcs
  <2>2. After(l, ok) = AfterRevalidation(l, ok)
    BY <1>4 DEF After
  <2> QED BY <2>1, <2>2
<1>5. CASE l.pc = "dispatch"
  <2>1. Follows(l, AfterDispatch(l, [kind |-> "NONE"]), ok)
    BY <1>5 DEF AfterDispatch, Goto, Locs
  <2>2. After(l, ok) = AfterDispatch(l, [kind |-> "NONE"])
    BY <1>5 DEF After
  <2> QED BY <2>1, <2>2
<1>6. CASE l.pc \in {"release_rejected", "release_unknown", "audit_fence_fail"}
  <2>1. Follows(l, [Goto(l, "audit_fence_unknown") EXCEPT !.outcome = UnknownOutcome], ok)
           \/ l.pc # "release_unknown" \/ ok
    BY <1>6 DEF Goto, Locs
  <2>2. Follows(l, AfterFenceFailure(l, ok), ok)
    BY <1>1, <1>6, <2>1, GotoFlow DEF AfterFenceFailure, Pcs, ActivityPcs, AuditPcs
  <2>3. After(l, ok) = AfterFenceFailure(l, ok)
    BY <1>6 DEF After
  <2> QED BY <2>2, <2>3
<1>7. CASE l.pc \in {"audit_dispatch", "audit_fence_unknown", "audit_recon"}
  <2>1. Follows(l, Resolve([l EXCEPT !.auditErr = ~ok]), ok)
    BY <1>7 DEF Resolve, Goto, Locs
  <2>2. Follows(l, AfterOutcomeAudit(l, ok), ok)
    BY <1>1, <1>7, <2>1 DEF AfterOutcomeAudit
  <2>3. After(l, ok) = AfterOutcomeAudit(l, ok)
    BY <1>7 DEF After
  <2> QED BY <2>2, <2>3
<1>8. CASE l.pc = "mark_recon"
  <2>1. Follows(l, BeginReconcile(l), ok)
    BY <1>8 DEF BeginReconcile, Goto, Locs
  <2>2. After(l, ok) = BeginReconcile(l)
    BY <1>8 DEF After
  <2> QED BY <2>1, <2>2
<1>9. CASE l.pc = "reconcile"
  <2>1. Follows(l, AfterReconcile(l, UnknownOutcome), ok)
    BY <1>9 DEF AfterReconcile, Goto, Locs, Checked, UnknownOutcome, OutcomeStatuses
  <2>2. After(l, ok) = AfterReconcile(l, UnknownOutcome)
    BY <1>9 DEF After
  <2> QED BY <2>1, <2>2
<1>10. CASE l.pc = "wait"
  <2>1. Follows(l, Goto(l, "audit_recon"), ok)
    BY <1>10, GotoFlow DEF Pcs, ActivityPcs, AuditPcs
  <2>2. After(l, ok) = Goto(l, "audit_recon")
    BY <1>10 DEF After
  <2> QED BY <2>1, <2>2
<1>11. CASE l.pc \in {"mark_failed", "compensate", "audit_comp_pass", "audit_comp_fail", "audit_failed"}
  <2>1. Follows(l, AfterFailure(l, ok), ok)
    BY <1>1, <1>11, GotoFlow DEF AfterFailure, Pcs, ActivityPcs, AuditPcs
  <2>2. After(l, ok) = AfterFailure(l, ok)
    BY <1>11 DEF After
  <2> QED BY <2>1, <2>2
<1>12. CASE l.pc \in {"mark_completed", "audit_complete", "new", "closed"}
  <2>1. Follows(l, AfterSuccess(l, ok), ok)
    BY <1>1, <1>12, GotoFlow DEF AfterSuccess, Pcs, ActivityPcs, AuditPcs
  <2>2. After(l, ok) = AfterSuccess(l, ok)
    BY <1>12 DEF After
  <2> QED BY <2>1, <2>2
<1>13. CASE l.pc \in {"verify", "claim", "claim_read", "evaluate", "release"}
  BY <1>1, <1>2, <1>13 DEF After
<1>14. l.pc \in Pcs
  BY DEF Locs
<1> HIDE DEF Follows
<1> QED BY <1>3, <1>4, <1>5, <1>6, <1>7, <1>8, <1>9, <1>10, <1>11, <1>12, <1>13, <1>14
        DEF Pcs, ActivityPcs, AdvancePcs, AuditPcs, DecisionPcs

-----------------------------------------------------------------------------
(* One step of one run: where it goes, what it needs for that, and what it  *)
(* does to the stores. Starts, resets and the dispatch activity are apart.  *)

(* Up to the dispatch. *)
LeadsEarly(r, l, m) ==
    /\ m.pc \in EarlyPcs => l.pc \in EarlyPcs
    /\ m.pc = "verify" => l.pc = "verify"
    /\ m.pc \in {"claim", "claim_read"} => l.pc \in {"claim", "claim_read"} \/ (l.pc = "verify" /\ m.token = r)
    /\ m.pc = "evaluate" =>
          \/ l.pc = "evaluate"
          \/ l.pc = "claim" /\ TakesEffect(Attempt(r)) /\ CanClaim(Dec(r))
          \/ l.pc = "claim_read" /\ HeldBy(Dec(r), Owner(r))
    /\ m.pc = "record_decision" => l.pc = "evaluate" \/ (l.pc = "record_decision" /\ m.verdict = l.verdict)
    /\ m.pc = "audit_denied" => l.pc \in {"record_decision", "audit_denied"}
    /\ m.pc = "audit_pass" =>
          l.pc = "audit_pass" \/ (l.pc = "record_decision" /\ l.verdict = "ALLOW" /\ TakesEffect(Attempt(r)))
    /\ m.pc = "dispatch" => l.pc = "dispatch" \/ (l.pc = "audit_pass" /\ TakesEffect(Attempt(r)))
    /\ m.pc \in {"rej_decision", "rej_audit"} /\ m.exit = "EXECUTION_CLAIM_REJECTED" =>
          \/ l.pc \in {"rej_decision", "rej_audit"} /\ l.exit = m.exit
          \/ l.pc = "claim_read" /\ ~HeldBy(Dec(r), Owner(r))
    /\ l.pc \in {"claim", "claim_read"} /\ l.cancelled => m.pc \in {"release", "closed"}

(* From the dispatch on, and the releases. *)
LeadsLate(r, l, m) ==
    /\ m.pc \in FencePcs =>
          \/ l.pc \in FencePcs
          \/ disp[r].at = "done" /\ disp[r].kind \in {"REJECTED", "FENCE_UNKNOWN"}
    /\ m.pc = "release_rejected" =>
          l.pc = "release_rejected" \/ (l.pc = "dispatch" /\ disp[r].at = "done" /\ disp[r].kind = "REJECTED")
    /\ m.pc = "audit_fence_fail" =>
          \/ l.pc \in {"audit_fence_fail", "release_rejected"}
          \/ l.pc = "release_unknown" /\ TakesEffect(Attempt(r)) /\ CanAdvance(Dec(r), Owner(r), "RELEASED")
    /\ m.pc = "audit_complete" =>
          \/ l.pc = "audit_complete"
          \/ l.pc = "mark_completed" /\ TakesEffect(Attempt(r)) /\ CanAdvance(Dec(r), Owner(r), "COMPLETED")
    /\ m.pc = "release" => l.pc \in EarlyPcs \cup {"release"}
    /\ l.pc = "release" => m.pc \in {"release", "closed"}
    /\ l.pc \in UnclaimedPcs => m.pc \in EarlyPcs \cup {"release", "closed"}
    /\ l.pc = "dispatch" => m.pc = "dispatch" \/ m.pc \notin EarlyPcs \cup {"release"}
    /\ l.pc = "compensate" => m.pc \in CompensatedPcs \cup {"compensate"}
    /\ l.pc \in CompensatedPcs => m.pc \in CompensatedPcs

(* What the run knows of the outcome. *)
LeadsOutcome(r, l, m) ==
    /\ MarksAgree(l) => MarksAgree(m)
    /\ \/ m.outcome = l.outcome \/ m.outcome = UnknownOutcome
       \/ /\ disp[r].at = "done" /\ disp[r].kind = "OUTCOME" /\ m.outcome = Checked(disp[r].outcome)
          /\ m.pc \notin EarlyPcs
       \/ /\ l.pc = "reconcile" /\ TakesEffect(Attempt(r))
          /\ m.outcome = Checked(ReconcileReply(effects[Dec(r)], Target(r)))

Leads(r, m) ==
    /\ m \in Locs /\ m.pc # "new" /\ loc[r].pc \notin {"new", "closed"}
    /\ m.token = loc[r].token \/ (loc[r].pc = "verify" /\ m.pc = "claim" /\ m.token = r /\ Valid(r))
    /\ LeadsEarly(r, loc[r], m) /\ LeadsLate(r, loc[r], m) /\ LeadsOutcome(r, loc[r], m)

(* What else happens in that step. *)
RunStep(r, m) ==
    /\ loc' = [loc EXCEPT ![r] = m]
    /\ past' = past \/ (past' = [past EXCEPT ![r] = past[r] \cup {m}] /\ "reset" \in Events)
    /\ work' = work /\ request' = request /\ disp' = disp
    /\ UNCHANGED <<storeVars, adapterVars>> \/ (loc[r].pc \in ActivityPcs /\ TakesEffect(Attempt(r)))
    /\ \/ late' = late
       \/ /\ late' = late \cup {Attempt(r)}
          /\ loc[r].pc \in ActivityPcs /\ Attempt(r).kind # "read"
          /\ "timeout" \in Events \/ m.pc = "closed" \/ (m.cancelled /\ m.pc = loc[r].pc)

(* After an activity with no result but ok or an error. *)
LEMMA LeadsAfter ==
    ASSUME NEW r \in Runs, loc[r] \in Locs, loc[r].pc \notin {"new", "closed"}, NEW ok \in BOOLEAN,
           ok /\ loc[r].pc \in {"record_decision", "audit_pass", "mark_completed", "release_unknown"}
              => TakesEffect(Attempt(r)),
           ok /\ loc[r].pc \in AdvancePcs => CanAdvance(Dec(r), Owner(r), AdvanceTo(loc[r].pc))
    PROVE  Leads(r, After(loc[r], ok))
<1> DEFINE m == After(loc[r], ok)
<1>1. Onward(loc[r], m)
  BY AfterLemma
<1>2. Follows(loc[r], m, ok)
  BY AfterFlow
<1>3. AdvanceTo("mark_completed") = "COMPLETED" /\ AdvanceTo("release_unknown") = "RELEASED"
  BY DEF AdvanceTo
<1> HIDE DEF m
<1>4. /\ m \in Locs /\ m.token = loc[r].token
      /\ m.pc \notin {"new", "verify", "rej_decision", "claim", "claim_read", "evaluate",
                      "record_decision", "release_rejected", "release_unknown"}
      /\ MarksAgree(m)
      /\ m.outcome = loc[r].outcome \/ m.outcome = UnknownOutcome
  BY <1>1, <1>2 DEF Onward, Follows
<1>5. /\ m.pc \in EarlyPcs \cup {"release"} => loc[r].pc \in EarlyPcs
      /\ loc[r].pc \in {"claim", "claim_read"} => m.pc = "release"
      /\ loc[r].pc = "release" => m.pc = "closed"
      /\ loc[r].pc \in UnclaimedPcs => m.pc \in {"rej_audit", "release", "closed"}
      /\ loc[r].pc = "dispatch" => m.pc \notin EarlyPcs \cup {"release"}
      /\ loc[r].pc \in CompensatedPcs \cup {"compensate"} => m.pc \in CompensatedPcs
      /\ m.pc = "rej_audit" => loc[r].pc = "rej_decision" /\ m.exit = loc[r].exit
      /\ m.pc = "audit_denied" => loc[r].pc = "record_decision"
  BY <1>2 DEF Follows
<1>6. /\ m.pc = "audit_pass" => loc[r].pc = "record_decision" /\ loc[r].verdict = "ALLOW" /\ TakesEffect(Attempt(r))
      /\ m.pc = "dispatch" => loc[r].pc = "audit_pass" /\ TakesEffect(Attempt(r))
      /\ m.pc \in FencePcs => loc[r].pc \in {"release_rejected", "release_unknown"}
  BY <1>2 DEF Follows
<1>7. m.pc = "audit_fence_fail" /\ loc[r].pc = "release_unknown"
         => TakesEffect(Attempt(r)) /\ CanAdvance(Dec(r), Owner(r), "RELEASED")
  BY <1>2, <1>3 DEF Follows, AdvancePcs
<1>8. m.pc = "audit_complete"
         => loc[r].pc = "mark_completed" /\ TakesEffect(Attempt(r)) /\ CanAdvance(Dec(r), Owner(r), "COMPLETED")
  BY <1>2, <1>3 DEF Follows, AdvancePcs
<1>9. LeadsEarly(r, loc[r], m)
  BY <1>4, <1>5, <1>6 DEF LeadsEarly
<1>10. LeadsLate(r, loc[r], m)
  BY <1>4, <1>5, <1>6, <1>7, <1>8 DEF LeadsLate, FencePcs, EarlyPcs, UnclaimedPcs, CompensatedPcs
<1>11. LeadsOutcome(r, loc[r], m)
  BY <1>4 DEF LeadsOutcome
<1>12. Leads(r, m)
  BY <1>4, <1>9, <1>10, <1>11 DEF Leads
<1> QED BY <1>12 DEF m

(* A run that stays where it is or retries. *)
Stays(l, m) ==
    /\ m \in Locs /\ m.token = l.token /\ m.outcome = l.outcome
    /\ m.exit = l.exit /\ m.verdict = l.verdict
    /\ m.pc = l.pc \/ (l.pc = "claim_read" /\ m.pc = "claim")

LEMMA LeadsStay ==
    ASSUME NEW r \in Runs, loc[r].pc \notin {"new", "closed"},
           loc[r].pc \in {"claim", "claim_read"} => loc[r].cancelled = FALSE,
           NEW m, Stays(loc[r], m)
    PROVE  Leads(r, m)
<1>1. MarksAgree(loc[r]) => MarksAgree(m)
  BY DEF MarksAgree, Stays
<1>2. LeadsEarly(r, loc[r], m)
  BY DEF LeadsEarly, EarlyPcs, Stays
<1>3. LeadsLate(r, loc[r], m)
  BY DEF LeadsLate, FencePcs, EarlyPcs, UnclaimedPcs, CompensatedPcs, Stays
<1>4. LeadsOutcome(r, loc[r], m)
  BY <1>1 DEF LeadsOutcome, Stays
<1> QED BY <1>2, <1>3, <1>4 DEF Leads, Stays

LEMMA LeadsExit ==
    ASSUME NEW r \in Runs, loc[r] \in Locs, loc[r].pc \notin {"new", "closed"}, NEW e \in Exits
    PROVE  Leads(r, Exit(loc[r], e))
<1> DEFINE m == Exit(loc[r], e)
<1>1. Onward(loc[r], m) /\ m.pc = "closed" /\ m.outcome = UnknownOutcome
  BY ExitLemma, ExitFlow
<1> HIDE DEF m
<1>2. LeadsEarly(r, loc[r], m)
  BY <1>1 DEF LeadsEarly, EarlyPcs
<1>3. LeadsLate(r, loc[r], m)
  BY <1>1 DEF LeadsLate, FencePcs, EarlyPcs, UnclaimedPcs, CompensatedPcs
<1>4. LeadsOutcome(r, loc[r], m)
  BY <1>1 DEF LeadsOutcome, MarksAgree
<1>5. Leads(r, m)
  BY <1>1, <1>2, <1>3, <1>4 DEF Leads, Onward
<1> QED BY <1>5 DEF m

(* The activities whose result decides. *)
LEMMA LeadsVerify ==
    ASSUME NEW r \in Runs, loc[r] \in Locs, loc[r].pc = "verify"
    PROVE  Leads(r, AfterVerify(r, Valid(r)))
<1>1. CASE Valid(r)
  <2> DEFINE m == [Goto(loc[r], "claim") EXCEPT !.token = r]
  <2>1. m \in Locs /\ m.pc = "claim" /\ m.token = r /\ m.outcome = loc[r].outcome
    BY DEF Goto, Locs, Pcs, ActivityPcs
  <2>2. AfterVerify(r, Valid(r)) = m
    BY <1>1 DEF AfterVerify
  <2> HIDE DEF m
  <2>3. LeadsEarly(r, loc[r], m)
    BY <2>1 DEF LeadsEarly, EarlyPcs
  <2>4. LeadsLate(r, loc[r], m)
    BY <2>1 DEF LeadsLate, FencePcs, EarlyPcs, UnclaimedPcs, CompensatedPcs
  <2>5. LeadsOutcome(r, loc[r], m)
    BY <2>1 DEF LeadsOutcome, MarksAgree
  <2>6. Leads(r, m)
    BY <1>1, <2>1, <2>3, <2>4, <2>5 DEF Leads
  <2> QED BY <2>2, <2>6
<1>2. CASE ~Valid(r)
  <2> DEFINE m == Rejecting(loc[r], "INGRESS_DECISION_INVALID")
  <2>0. "INGRESS_DECISION_INVALID" \in Exits
    BY DEF Exits
  <2>1. /\ Onward(loc[r], m) /\ m.pc = "rej_decision" /\ m.outcome = loc[r].outcome
        /\ m.exit = "INGRESS_DECISION_INVALID"
    BY <2>0, ReleasingLemma, ReleasingFlow
  <2>2. AfterVerify(r, Valid(r)) = m
    BY <1>2 DEF AfterVerify
  <2> HIDE DEF m
  <2>3. LeadsEarly(r, loc[r], m)
    BY <2>1 DEF LeadsEarly, EarlyPcs
  <2>4. LeadsLate(r, loc[r], m)
    BY <2>1 DEF LeadsLate, FencePcs, EarlyPcs, UnclaimedPcs, CompensatedPcs
  <2>5. LeadsOutcome(r, loc[r], m)
    BY <2>1 DEF LeadsOutcome, MarksAgree
  <2>6. Leads(r, m)
    BY <2>1, <2>3, <2>4, <2>5 DEF Leads, Onward
  <2> QED BY <2>2, <2>6
<1> QED BY <1>1, <1>2

LEMMA LeadsClaim ==
    ASSUME NEW r \in Runs, loc[r] \in Locs, loc[r].pc = "claim", loc[r].cancelled = FALSE,
           TakesEffect(Attempt(r))
    PROVE  Leads(r, IF CanClaim(Dec(r)) THEN AfterClaim(loc[r], TRUE)
                    ELSE [loc[r] EXCEPT !.pc = "claim_read"])
<1>1. CASE CanClaim(Dec(r))
  <2>1. PICK m : m = Goto(loc[r], "evaluate")
    OBVIOUS
  <2>2. m \in Locs /\ m.pc = "evaluate" /\ m.token = loc[r].token /\ m.outcome = loc[r].outcome
    BY <2>1, GotoLemma, GotoFlow DEF Pcs, ActivityPcs
  <2>3. Leads(r, m)
    BY <1>1, <2>2
       DEF Leads, LeadsEarly, LeadsLate, LeadsOutcome, MarksAgree, EarlyPcs, FencePcs, UnclaimedPcs,
           CompensatedPcs
  <2> QED BY <1>1, <2>1, <2>3 DEF AfterClaim
<1>2. CASE ~CanClaim(Dec(r))
  <2>1. PICK m : m = [loc[r] EXCEPT !.pc = "claim_read"]
    OBVIOUS
  <2>2. m \in Locs /\ m.pc = "claim_read" /\ m.token = loc[r].token /\ m.outcome = loc[r].outcome
    BY <2>1 DEF Locs, Pcs, ActivityPcs
  <2>3. Leads(r, m)
    BY <2>2
       DEF Leads, LeadsEarly, LeadsLate, LeadsOutcome, MarksAgree, EarlyPcs, FencePcs, UnclaimedPcs,
           CompensatedPcs
  <2> QED BY <1>2, <2>1, <2>3
<1> QED BY <1>1, <1>2

LEMMA LeadsRead ==
    ASSUME NEW r \in Runs, loc[r] \in Locs, loc[r].pc = "claim_read", loc[r].cancelled = FALSE
    PROVE  Leads(r, AfterClaim(loc[r], HeldBy(Dec(r), Owner(r))))
<1>1. CASE HeldBy(Dec(r), Owner(r))
  <2>1. PICK m : m = Goto(loc[r], "evaluate")
    OBVIOUS
  <2>2. m \in Locs /\ m.pc = "evaluate" /\ m.token = loc[r].token /\ m.outcome = loc[r].outcome
    BY <2>1, GotoLemma, GotoFlow DEF Pcs, ActivityPcs
  <2>3. Leads(r, m)
    BY <1>1, <2>2
       DEF Leads, LeadsEarly, LeadsLate, LeadsOutcome, MarksAgree, EarlyPcs, FencePcs, UnclaimedPcs,
           CompensatedPcs
  <2> QED BY <1>1, <2>1, <2>3 DEF AfterClaim
<1>2. CASE ~HeldBy(Dec(r), Owner(r))
  <2>1. PICK m : m = Rejecting(loc[r], "EXECUTION_CLAIM_REJECTED")
    OBVIOUS
  <2>2. "EXECUTION_CLAIM_REJECTED" \in Exits
    BY DEF Exits
  <2>3. Onward(loc[r], m) /\ m.pc = "rej_decision" /\ m.outcome = loc[r].outcome
    BY <2>1, <2>2, ReleasingLemma, ReleasingFlow
  <2>4. Leads(r, m)
    BY <1>2, <2>3
       DEF Onward, Leads, LeadsEarly, LeadsLate, LeadsOutcome, MarksAgree, EarlyPcs, FencePcs,
           UnclaimedPcs, CompensatedPcs
  <2> QED BY <1>2, <2>1, <2>4 DEF AfterClaim
<1> QED BY <1>1, <1>2

LEMMA LeadsEvaluation ==
    ASSUME NEW r \in Runs, loc[r] \in Locs, loc[r].pc = "evaluate", NEW v \in Verdicts
    PROVE  Leads(r, AfterEvaluation(loc[r], v))
<1>1. PICK m : m = AfterEvaluation(loc[r], v)
  OBVIOUS
<1>2. m \in Locs /\ m.pc = "record_decision" /\ m.token = loc[r].token /\ m.outcome = loc[r].outcome
  BY <1>1 DEF AfterEvaluation, Goto, Locs, Pcs, ActivityPcs, DecisionPcs
<1>3. Leads(r, m)
  BY <1>2
     DEF Leads, LeadsEarly, LeadsLate, LeadsOutcome, MarksAgree, EarlyPcs, FencePcs, UnclaimedPcs,
         CompensatedPcs
<1> QED BY <1>1, <1>3

LEMMA LeadsReconcile ==
    ASSUME NEW r \in Runs, loc[r] \in Locs, loc[r].pc = "reconcile", NEW o \in Outcomes \cup {NoEffect},
           \/ TakesEffect(Attempt(r)) /\ o = ReconcileReply(effects[Dec(r)], Target(r))
           \/ o = UnknownOutcome
    PROVE  Leads(r, AfterReconcile(loc[r], o))
<1>1. PICK m : m = AfterReconcile(loc[r], o)
  OBVIOUS
<1>2. Checked(o) \in Outcomes /\ Checked(UnknownOutcome) = UnknownOutcome
  BY CheckedLemma DEF Checked, UnknownOutcome, OutcomeStatuses
<1>3. Onward(loc[r], m)
  BY <1>1, AfterReconcileLemma
<1>4. m.pc \in {"audit_recon", "wait"} /\ m.outcome = Checked(o)
  BY <1>1, <1>2 DEF AfterReconcile, Goto, Locs
<1>5. LeadsOutcome(r, loc[r], m)
  BY <1>2, <1>4 DEF LeadsOutcome, MarksAgree
<1>6. Leads(r, m)
  BY <1>3, <1>4, <1>5
     DEF Onward, Leads, LeadsEarly, LeadsLate, EarlyPcs, FencePcs, UnclaimedPcs, CompensatedPcs
<1> QED BY <1>1, <1>6

LEMMA LeadsDispatch ==
    ASSUME NEW r \in Runs, loc[r] \in Locs, loc[r].pc = "dispatch", disp[r].at = "done",
           disp[r].outcome \in Outcomes
    PROVE  Leads(r, AfterDispatch(loc[r], disp[r]))
<1>1. PICK m : m = AfterDispatch(loc[r], disp[r])
  OBVIOUS
<1>2. Checked(disp[r].outcome) \in Outcomes /\ UnknownOutcome \in Outcomes
  BY CheckedLemma
<1>3. Onward(loc[r], m)
  BY <1>1, AfterDispatchLemma
<1>4. /\ disp[r].kind = "REJECTED" => m.pc = "release_rejected" /\ m.outcome = loc[r].outcome
      /\ disp[r].kind = "FENCE_UNKNOWN" => m.pc = "release_unknown" /\ m.outcome = loc[r].outcome
      /\ disp[r].kind = "OUTCOME" => m.pc = "audit_dispatch" /\ m.outcome = Checked(disp[r].outcome)
      /\ disp[r].kind \notin {"REJECTED", "FENCE_UNKNOWN", "OUTCOME"}
           => m.pc = "audit_dispatch" /\ m.outcome = UnknownOutcome
  BY <1>1, <1>2 DEF AfterDispatch, Goto, Locs
<1>5. LeadsOutcome(r, loc[r], m)
  BY <1>4 DEF LeadsOutcome, MarksAgree, EarlyPcs
<1>6. Leads(r, m)
  BY <1>3, <1>4, <1>5
     DEF Onward, Leads, LeadsEarly, LeadsLate, EarlyPcs, FencePcs, UnclaimedPcs, CompensatedPcs
<1> QED BY <1>1, <1>6

(* The rounds of the reconciliation: the wait ends, a round lasts. *)
LEMMA LeadsRound ==
    ASSUME NEW r \in Runs, loc[r].pc \in {"wait", "reconcile"}, NEW m \in Locs,
           m.pc = "reconcile", m.token = loc[r].token, m.outcome = loc[r].outcome
    PROVE  Leads(r, m)
BY DEF Leads, LeadsEarly, LeadsLate, LeadsOutcome, MarksAgree, EarlyPcs, FencePcs, UnclaimedPcs,
       CompensatedPcs

(* Moving on, with the effect of the attempt or without any. *)
LEMMA GoesToStep ==
    ASSUME NEW r \in Runs, NEW m, GoesTo(r, m), disp' = disp, late' = late,
           \/ UNCHANGED <<storeVars, adapterVars>>
           \/ loc[r].pc \in ActivityPcs /\ TakesEffect(Attempt(r))
    PROVE  RunStep(r, m)
BY DEF GoesTo, RunStep

LEMMA AwaitsLemma ==
    ASSUME FenceInv, NEW r \in Runs, NEW pcs, Awaits(r, pcs)
    PROVE  /\ loc[r].pc \in pcs /\ loc[r] \in Locs
           /\ loc[r].pc \in {"claim", "claim_read"} => loc[r].cancelled = FALSE
<1>1. loc[r].cancelled \in BOOLEAN /\ loc[r] \in Locs
  BY DEF FenceInv, TypeOK, Locs
<1> QED BY <1>1 DEF Awaits, CancellablePcs

LEMMA ActivityStep ==
    ASSUME FenceInv, NEW r \in Runs,
           \/ VerifyIngressDecision(r) \/ ClaimDecision(r) \/ ReadHeldClaim(r)
           \/ EvaluateExecution(r) \/ RecordDecision(r) \/ RecordAuditTrail(r)
           \/ AdvanceExecutionClaim(r) \/ RevertStateCompensation(r)
    PROVE  \E m : Leads(r, m) /\ RunStep(r, m)
<1>0. ASSUME NEW m, Completes(r, m), loc[r].pc \in ActivityPcs PROVE RunStep(r, m) /\ TakesEffect(Attempt(r))
  BY <1>0, GoesToStep DEF Completes
<1>1. CASE VerifyIngressDecision(r)
  <2>1. loc[r].pc = "verify" /\ loc[r] \in Locs /\ loc[r].pc \in ActivityPcs
    BY <1>1, AwaitsLemma DEF VerifyIngressDecision, ActivityPcs
  <2>2. Completes(r, AfterVerify(r, Valid(r)))
    BY <1>1 DEF VerifyIngressDecision, Valid
  <2> QED BY <1>0, <2>1, <2>2, LeadsVerify
<1>2. CASE ClaimDecision(r)
  <2>1. loc[r].pc = "claim" /\ loc[r] \in Locs /\ loc[r].pc \in ActivityPcs /\ loc[r].cancelled = FALSE
    BY <1>2, AwaitsLemma DEF ClaimDecision, ActivityPcs
  <2>2. PICK m : /\ m = IF CanClaim(Dec(r)) THEN AfterClaim(loc[r], TRUE)
                         ELSE [loc[r] EXCEPT !.pc = "claim_read"]
                 /\ Completes(r, m)
    BY <1>2 DEF ClaimDecision
  <2>3. RunStep(r, m) /\ TakesEffect(Attempt(r))
    BY <1>0, <2>1, <2>2
  <2>4. Leads(r, m)
    BY <2>1, <2>2, <2>3, LeadsClaim
  <2> QED BY <2>3, <2>4
<1>3. CASE ReadHeldClaim(r)
  <2>1. loc[r].pc = "claim_read" /\ loc[r] \in Locs /\ loc[r].pc \in ActivityPcs /\ loc[r].cancelled = FALSE
    BY <1>3, AwaitsLemma DEF ReadHeldClaim, ActivityPcs
  <2>2. Completes(r, AfterClaim(loc[r], HeldBy(Dec(r), Owner(r))))
    BY <1>3 DEF ReadHeldClaim
  <2> QED BY <1>0, <2>1, <2>2, LeadsRead
<1>4. CASE EvaluateExecution(r)
  <2>1. loc[r].pc = "evaluate" /\ loc[r] \in Locs /\ loc[r].pc \in ActivityPcs
    BY <1>4, AwaitsLemma DEF EvaluateExecution, ActivityPcs
  <2>2. PICK v \in Verdicts : Completes(r, AfterEvaluation(loc[r], v))
    BY <1>4, VerdictLemma DEF EvaluateExecution
  <2> QED BY <1>0, <2>1, <2>2, LeadsEvaluation
<1>5. CASE RecordDecision(r) \/ RecordAuditTrail(r) \/ RevertStateCompensation(r)
  <2>1. /\ loc[r].pc \in DecisionPcs \cup AuditPcs \cup {"compensate"} /\ loc[r] \in Locs
        /\ Completes(r, After(loc[r], TRUE))
    BY <1>5, AwaitsLemma DEF RecordDecision, RecordAuditTrail, RevertStateCompensation
  <2>2. loc[r].pc \in ActivityPcs /\ loc[r].pc \notin AdvancePcs /\ loc[r].pc \notin {"new", "closed"}
    BY <2>1 DEF ActivityPcs, DecisionPcs, AuditPcs, AdvancePcs
  <2>3. RunStep(r, After(loc[r], TRUE)) /\ TakesEffect(Attempt(r))
    BY <1>0, <2>1, <2>2
  <2>4. Leads(r, After(loc[r], TRUE))
    BY <2>1, <2>2, <2>3, LeadsAfter
  <2> QED BY <2>3, <2>4
<1>6. CASE AdvanceExecutionClaim(r)
  <2>1. PICK ok \in BOOLEAN :
          /\ ok <=> CanAdvance(Dec(r), Owner(r), AdvanceTo(loc[r].pc))
          /\ Completes(r, After(loc[r], ok))
    BY <1>6 DEF AdvanceExecutionClaim, CanAdvance
  <2>2. loc[r].pc \in AdvancePcs /\ loc[r] \in Locs
    BY <1>6, AwaitsLemma DEF AdvanceExecutionClaim
  <2>3. loc[r].pc \in ActivityPcs /\ loc[r].pc \notin {"new", "closed"}
    BY <2>2 DEF ActivityPcs, AdvancePcs
  <2>4. RunStep(r, After(loc[r], ok)) /\ TakesEffect(Attempt(r))
    BY <1>0, <2>1, <2>3
  <2>5. Leads(r, After(loc[r], ok))
    BY <2>1, <2>2, <2>3, <2>4, LeadsAfter
  <2> QED BY <2>4, <2>5
<1> QED BY <1>1, <1>2, <1>3, <1>4, <1>5, <1>6

LEMMA WorkflowRunStep ==
    ASSUME FenceInv, NEW r \in Runs, WorkflowStep(r)
    PROVE  \E m : Leads(r, m) /\ RunStep(r, m)
<1>0. loc[r] \in Locs /\ disp[r].outcome \in Outcomes
  BY DEF FenceInv, TypeOK
<1>1. CASE ReconcileDispatch(r)
  <2>1. loc[r].pc = "reconcile" /\ loc[r].pc \in ActivityPcs
    BY <1>1, AwaitsLemma DEF ReconcileDispatch, ActivityPcs
  <2>2. effects[Dec(r)] \in Outcomes \cup {NoEffect}
    BY <2>1, RequestsAssumption DEF FenceInv, TypeOK, Dec
  <2>3. CASE Completes(r, AfterReconcile(loc[r], ReconcileReply(effects[Dec(r)], Target(r))))
    <3>1. PICK o : o = ReconcileReply(effects[Dec(r)], Target(r))
      OBVIOUS
    <3>2. o \in Outcomes \cup {NoEffect}
      BY <2>2, <3>1, ReplyLemma
    <3>3. RunStep(r, AfterReconcile(loc[r], o)) /\ TakesEffect(Attempt(r))
      BY <2>1, <2>3, <3>1, GoesToStep DEF Completes
    <3>4. Leads(r, AfterReconcile(loc[r], o))
      BY <1>0, <2>1, <3>1, <3>2, <3>3, LeadsReconcile
    <3> QED BY <3>3, <3>4
  <2>4. CASE /\ GoesTo(r, AfterReconcile(loc[r], UnknownOutcome))
             /\ UNCHANGED <<disp, late, policy, storeVars, adapterVars>>
    <3>1. UnknownOutcome \in Outcomes
      BY CheckedLemma
    <3>2. Leads(r, AfterReconcile(loc[r], UnknownOutcome))
      BY <1>0, <2>1, <3>1, LeadsReconcile
    <3> QED BY <2>4, <3>2, GoesToStep
  <2> QED BY <1>1, <2>3, <2>4 DEF ReconcileDispatch
<1>2. CASE WaitEnds(r)
  <2>1. loc[r].pc = "wait"
    BY <1>2 DEF WaitEnds, Awaits
  <2>2. PICK m : m = NextRound(loc[r])
    OBVIOUS
  <2>3. m \in Locs
    <3>1. loc[r].round + 1 \in Nat /\ loc[r].elapsed + loc[r].wait \in Nat
          /\ (IF 2 * loc[r].wait <= reconcileMaxWait THEN 2 * loc[r].wait ELSE reconcileMaxWait) \in Nat
      <4>1. loc[r].round \in Nat /\ loc[r].elapsed \in Nat /\ loc[r].wait \in Nat
        BY <1>0 DEF Locs
      <4> QED BY <4>1, ScheduleAssumption
    <3>2. ASSUME NEW i \in Nat, NEW j \in Nat, NEW k \in Nat
          PROVE  [Goto(loc[r], "reconcile") EXCEPT !.round = i, !.elapsed = j, !.wait = k] \in Locs
      BY <1>0 DEF Goto, Locs, Pcs, ActivityPcs
    <3>3. m = [Goto(loc[r], "reconcile") EXCEPT !.round = loc[r].round + 1,
                 !.elapsed = loc[r].elapsed + loc[r].wait,
                 !.wait = IF 2 * loc[r].wait <= reconcileMaxWait THEN 2 * loc[r].wait ELSE reconcileMaxWait]
      BY <1>0, <2>2 DEF NextRound, Goto, Locs
    <3> QED BY <3>1, <3>2, <3>3, Zenon
  <2>4. m.pc = "reconcile" /\ m.token = loc[r].token /\ m.outcome = loc[r].outcome
    BY <1>0, <2>2 DEF NextRound, Goto, Locs
  <2>5. Leads(r, m)
    BY <2>1, <2>3, <2>4, LeadsRound
  <2> QED BY <1>2, <2>2, <2>5, GoesToStep DEF WaitEnds
<1>3. CASE CancelledWait(r) \/ DispatchTimesOut(r)
  <2>1. /\ loc[r].pc \notin {"new", "closed"} /\ GoesTo(r, After(loc[r], FALSE))
        /\ UNCHANGED <<disp, late, policy, storeVars, adapterVars>>
    BY <1>3 DEF CancelledWait, DispatchTimesOut, Awaits, CancellablePcs
  <2>2. Leads(r, After(loc[r], FALSE))
    BY <1>0, <2>1, LeadsAfter
  <2> QED BY <2>1, <2>2, GoesToStep
<1>4. CASE DispatchReturns(r)
  <2>1. /\ loc[r].pc = "dispatch" /\ disp[r].at = "done" /\ GoesTo(r, AfterDispatch(loc[r], disp[r]))
        /\ UNCHANGED <<disp, late, policy, storeVars, adapterVars>>
    BY <1>4 DEF DispatchReturns, Awaits
  <2>2. Leads(r, AfterDispatch(loc[r], disp[r]))
    BY <1>0, <2>1, LeadsDispatch
  <2> QED BY <2>1, <2>2, GoesToStep
<1> QED BY <1>1, <1>2, <1>3, <1>4, ActivityStep DEF WorkflowStep

(* A failed or abandoned attempt is repeated or given up on. *)
LEMMA LeadsRetry ==
    ASSUME FenceInv, NEW r \in Runs, Awaits(r, ActivityPcs)
    PROVE  Leads(r, RetryOrFail(r))
<1>0. /\ loc[r] \in Locs /\ loc[r].pc \in ActivityPcs
      /\ loc[r].pc \in {"claim", "claim_read"} => loc[r].cancelled = FALSE
  BY AwaitsLemma
<1>1. loc[r].pc \notin {"new", "closed"}
  BY <1>0 DEF ActivityPcs, AdvancePcs, AuditPcs, DecisionPcs
<1>2. Leads(r, After(loc[r], FALSE))
  BY <1>0, <1>1, LeadsAfter
<1>3. loc[r].tries + 1 \in Nat
  <2>1. loc[r].tries \in Nat
    BY <1>0 DEF Locs
  <2> QED BY <2>1
<1>4. ASSUME NEW n \in Nat
      PROVE  Stays(loc[r], [loc[r] EXCEPT !.tries = n, !.pc = IF @ = "claim_read" THEN "claim" ELSE @])
  BY <1>0 DEF Stays, Locs, Pcs, ActivityPcs
<1>5. ASSUME NEW n \in Nat
      PROVE  Leads(r, [loc[r] EXCEPT !.tries = n, !.pc = IF @ = "claim_read" THEN "claim" ELSE @])
  BY <1>0, <1>1, <1>4, LeadsStay
<1> QED BY <1>2, <1>3, <1>5 DEF RetryOrFail

LEMMA DisturbanceRunStep ==
    ASSUME FenceInv, NEW r \in Runs,
           \/ AttemptFails(r) \/ AttemptTimesOut(r) \/ RoundLasts(r) \/ Cancel(r) \/ Terminate(r)
    PROVE  \E m : Leads(r, m) /\ RunStep(r, m)
<1>0. loc[r] \in Locs
  BY DEF FenceInv, TypeOK
<1>1. CASE AttemptFails(r)
  <2>1. Leads(r, RetryOrFail(r)) /\ loc[r].pc \in ActivityPcs
    BY <1>1, LeadsRetry, AwaitsLemma DEF AttemptFails
  <2> QED BY <1>1, <2>1, GoesToStep DEF AttemptFails
<1>2. CASE AttemptTimesOut(r)
  <2>1. Leads(r, RetryOrFail(r))
    BY <1>2, LeadsRetry DEF AttemptTimesOut
  <2>2. RunStep(r, RetryOrFail(r))
    BY <1>2 DEF AttemptTimesOut, MayBeLate, GoesTo, RunStep
  <2> QED BY <2>1, <2>2
<1>3. CASE RoundLasts(r)
  <2>1. PICK m : m = [loc[r] EXCEPT !.elapsed = loc[r].elapsed + 1]
    OBVIOUS
  <2>2. m \in Locs
    <3>1. loc[r].elapsed + 1 \in Nat
      <4>1. loc[r].elapsed \in Nat
        BY <1>0 DEF Locs
      <4> QED BY <4>1
    <3>2. \A n \in Nat : [loc[r] EXCEPT !.elapsed = n] \in Locs
      BY <1>0 DEF Locs
    <3> QED BY <2>1, <3>1, <3>2
  <2>3. m.pc = loc[r].pc /\ m.token = loc[r].token /\ m.outcome = loc[r].outcome
    BY <1>0, <2>1 DEF Locs
  <2>4. loc[r].pc = "reconcile" /\ GoesTo(r, m) /\ UNCHANGED <<disp, late, policy, storeVars, adapterVars>>
    BY <1>3, <2>1 DEF RoundLasts
  <2>5. Leads(r, m)
    BY <2>2, <2>3, <2>4, LeadsRound
  <2> QED BY <2>4, <2>5, GoesToStep
<1>4. CASE Cancel(r)
  <2>1. PICK m : m = [loc[r] EXCEPT !.cancelled = TRUE]
    OBVIOUS
  <2>2. m.cancelled = TRUE /\ m.pc = loc[r].pc
    BY <1>0, <2>1 DEF Locs
  <2>3. Stays(loc[r], m)
    BY <1>0, <2>1 DEF Stays, Locs
  <2>4. /\ loc[r].pc \notin {"new", "closed"} /\ ~loc[r].cancelled
        /\ loc' = [loc EXCEPT ![r] = m]
        /\ UNCHANGED late \/ Abandons(r)
        /\ UNCHANGED <<past, work, request, disp, policy, storeVars, adapterVars>>
    BY <1>4, <2>1 DEF Cancel, Open
  <2>5. loc[r].cancelled = FALSE
    BY <1>0, <2>4 DEF Locs
  <2>6. Leads(r, m)
    BY <2>3, <2>4, <2>5, LeadsStay
  <2>7. RunStep(r, m)
    BY <2>2, <2>4 DEF RunStep, Abandons, MayBeLate
  <2> QED BY <2>6, <2>7
<1>5. CASE Terminate(r)
  <2>1. /\ loc[r].pc \notin {"new", "closed"} /\ Abandons(r)
        /\ loc' = [loc EXCEPT ![r] = Exit(loc[r], "TERMINATED")]
        /\ UNCHANGED <<past, work, request, disp, policy, storeVars, adapterVars>>
    BY <1>5 DEF Terminate, Open
  <2>2. Leads(r, Exit(loc[r], "TERMINATED"))
    BY <1>0, <2>1, LeadsExit DEF Exits
  <2>3. RunStep(r, Exit(loc[r], "TERMINATED"))
    BY <2>1, ExitFlow DEF RunStep, Abandons, MayBeLate
  <2> QED BY <2>2, <2>3
<1> QED BY <1>1, <1>2, <1>3, <1>4, <1>5

-----------------------------------------------------------------------------
(* What an attempt is and what it writes. *)

LEMMA AttemptIs ==
    ASSUME NEW r \in Runs, loc[r].pc \in ActivityPcs
    PROVE  /\ Attempt(r).run = r
           /\ Attempt(r).kind = "claim" <=> loc[r].pc = "claim"
           /\ Attempt(r).kind = "advance" <=> loc[r].pc \in AdvancePcs
           /\ Attempt(r).kind = "decision" <=> loc[r].pc \in DecisionPcs
           /\ Attempt(r).kind = "audit" <=> loc[r].pc \in AuditPcs
           /\ Attempt(r).kind = "reconcile" <=> loc[r].pc = "reconcile"
           /\ Attempt(r).kind = "compensate" <=> loc[r].pc = "compensate"
           /\ Attempt(r).kind = "read" <=> loc[r].pc \in {"verify", "claim_read", "evaluate"}
           /\ loc[r].pc \in AdvancePcs => Attempt(r).input = AdvanceTo(loc[r].pc)
           /\ loc[r].pc = "record_decision" => Attempt(r).verdict = loc[r].verdict
           /\ loc[r].pc \in AuditPcs =>
                 Attempt(r).input = AuditRow(loc[r]).phase /\ Attempt(r).verdict = AuditRow(loc[r]).verdict
<1>1. CASE loc[r].pc = "claim"
  BY <1>1 DEF Attempt, Op, AdvancePcs, AuditPcs, DecisionPcs
<1>2. CASE loc[r].pc \in AdvancePcs
  BY <1>2 DEF Attempt, Op, AdvancePcs, AuditPcs, DecisionPcs
<1>3. CASE loc[r].pc \in DecisionPcs
  BY <1>3 DEF Attempt, Op, AdvancePcs, AuditPcs, DecisionPcs
<1>4. CASE loc[r].pc \in AuditPcs
  <2>1. Attempt(r) = Op("audit", r, AuditRow(loc[r]).phase, AuditRow(loc[r]).verdict)
    BY <1>4 DEF Attempt, AdvancePcs, AuditPcs
  <2> QED BY <1>4, <2>1 DEF Op, AdvancePcs, AuditPcs, DecisionPcs
<1>5. CASE loc[r].pc \in {"verify", "claim_read", "evaluate", "reconcile", "compensate"}
  BY <1>5 DEF Attempt, Op, AdvancePcs, AuditPcs, DecisionPcs
<1> QED BY <1>1, <1>2, <1>3, <1>4, <1>5 DEF ActivityPcs

LEMMA AuditRowIs ==
    ASSUME NEW l, l.pc \in AuditPcs
    PROVE  /\ AuditRow(l).phase = "EXECUTION_FENCE" <=> l.pc \in {"audit_fence_fail", "audit_fence_unknown"}
           /\ AuditRow(l).phase = "WORKFLOW_COMPLETE" <=> l.pc = "audit_complete"
           /\ l.pc = "audit_pass" =>
                 AuditRow(l).phase = "WORKFLOW_REVALIDATION" /\ AuditRow(l).verdict = "PASS"
BY DEF AuditRow, Row, AuditPcs

(* The tables after an attempt, row by row. *)
Writes(op) ==
    /\ \A d \in Decisions :
          claims'[d] = IF op.kind = "claim" /\ d = Dec(op.run) /\ CanClaim(d)
                       THEN [state |-> "CLAIMED", owner |-> Owner(op.run)]
                       ELSE IF op.kind = "advance" /\ d = Dec(op.run) /\ CanAdvance(d, Owner(op.run), op.input)
                       THEN [claims[d] EXCEPT !.state = op.input]
                       ELSE claims[d]
    /\ \A r \in Runs :
          revals'[r] = IF r = op.run /\ op.kind = "decision" /\ revals[r] = "NONE" THEN op.verdict ELSE revals[r]
    /\ audit' = audit \cup {row \in {[run |-> op.run, phase |-> op.input, verdict |-> op.verdict]} :
                                op.kind = "audit"}

LEMMA WritesLemma ==
    ASSUME FenceInv, NEW op, TakesEffect(op)
    PROVE  Writes(op)
<1>1. /\ claims \in [Decisions -> Claims] /\ revals \in [Runs -> Verdicts \cup {"NONE"}]
  BY DEF FenceInv, TypeOK, ClaimsTypeOK
<1>2. /\ claims' = CASE op.kind = "claim"   -> ClaimWrite(Dec(op.run), Owner(op.run))
                      [] op.kind = "advance" -> AdvanceWrite(Dec(op.run), Owner(op.run), op.input)
                      [] OTHER               -> claims
      /\ revals' = IF op.kind = "decision" /\ revals[op.run] = "NONE"
                   THEN [revals EXCEPT ![op.run] = op.verdict] ELSE revals
      /\ audit' = IF op.kind = "audit"
                  THEN audit \cup {[run |-> op.run, phase |-> op.input, verdict |-> op.verdict]}
                  ELSE audit
  BY DEF TakesEffect
<1>3. \A d \in Decisions :
          claims'[d] = IF op.kind = "claim" /\ d = Dec(op.run) /\ CanClaim(d)
                       THEN [state |-> "CLAIMED", owner |-> Owner(op.run)]
                       ELSE IF op.kind = "advance" /\ d = Dec(op.run) /\ CanAdvance(d, Owner(op.run), op.input)
                       THEN [claims[d] EXCEPT !.state = op.input]
                       ELSE claims[d]
  <2>1. CASE op.kind = "claim"
    BY <1>1, <1>2, <2>1 DEF ClaimWrite
  <2>2. CASE op.kind = "advance"
    BY <1>1, <1>2, <2>2 DEF AdvanceWrite
  <2>3. CASE op.kind \notin {"claim", "advance"}
    BY <1>2, <2>3
  <2> QED BY <2>1, <2>2, <2>3
<1>4. \A r \in Runs :
          revals'[r] = IF r = op.run /\ op.kind = "decision" /\ revals[r] = "NONE" THEN op.verdict ELSE revals[r]
  BY <1>1, <1>2
<1>5. audit' = audit \cup {row \in {[run |-> op.run, phase |-> op.input, verdict |-> op.verdict]} :
                                op.kind = "audit"}
  <2>1. CASE op.kind = "audit"
    BY <1>2, <2>1
  <2>2. CASE op.kind # "audit"
    BY <1>2, <2>2
  <2> QED BY <2>1, <2>2
<1> QED BY <1>3, <1>4, <1>5 DEF Writes

-----------------------------------------------------------------------------
(* The rounds of the reconciliation. *)

RoundPcs == {"reconcile", "wait", "audit_recon"}

(* How the round, its wait and the time since the reconciliation began      *)
(* develop in a step from l to m.                                           *)
SameRound(l, m) == m.round = l.round /\ m.wait = l.wait

Waits(l, m) ==
    \/ m.pc \notin RoundPcs
    \/ m.pc = "reconcile" /\ m.round = 1 /\ m.wait = reconcileFirstWait /\ m.elapsed = 0
    \/ /\ m.pc = l.pc /\ SameRound(l, m) /\ m.outcome = l.outcome
       /\ m.elapsed = l.elapsed \/ (l.pc = "reconcile" /\ m.elapsed = l.elapsed + 1)
       /\ l.cancelled = TRUE => m.cancelled = TRUE
    \/ /\ l.pc = "reconcile" /\ SameRound(l, m) /\ m.elapsed = l.elapsed
       /\ \/ m.pc = "wait" /\ l.elapsed + l.wait <= reconcileWindow
          \/ m.pc = "audit_recon" /\ (m.outcome.status # "UNKNOWN" \/ l.elapsed + l.wait > reconcileWindow)
    \/ l.pc = "wait" /\ m.pc = "audit_recon" /\ SameRound(l, m) /\ m.cancelled = TRUE
    \/ /\ l.pc = "wait" /\ m.pc = "reconcile" /\ m.round = l.round + 1 /\ m.elapsed = l.elapsed + l.wait
       /\ m.wait = IF 2 * l.wait <= reconcileMaxWait THEN 2 * l.wait ELSE reconcileMaxWait

LEMMA WaitsReconcile ==
    ASSUME NEW l \in Locs, l.pc = "reconcile", NEW o \in Outcomes \cup {NoEffect}
    PROVE  Waits(l, AfterReconcile(l, o))
<1>1. PICK m : m = AfterReconcile(l, o)
  OBVIOUS
<1>2. Checked(o) \in Outcomes /\ l.elapsed \in Nat /\ l.wait \in Nat
  BY CheckedLemma DEF Locs
<1>3. PICK k : k = [l EXCEPT !.outcome = Checked(o)]
  OBVIOUS
<1>4. k \in Locs /\ k.outcome = Checked(o) /\ SameRound(l, k) /\ k.elapsed = l.elapsed
  BY <1>2, <1>3 DEF Locs, SameRound
<1>5. m = IF k.outcome.status # "UNKNOWN" \/ l.elapsed + l.wait > reconcileWindow
          THEN Goto(k, "audit_recon") ELSE Goto(k, "wait")
  BY <1>1, <1>3 DEF AfterReconcile
<1>6. \A pc \in Pcs : /\ Goto(k, pc).pc = pc /\ Goto(k, pc).outcome = k.outcome
                      /\ SameRound(l, Goto(k, pc)) /\ Goto(k, pc).elapsed = l.elapsed
  BY <1>4 DEF Goto, Locs, SameRound
<1>7. "audit_recon" \in Pcs /\ "wait" \in Pcs
  BY DEF Pcs, ActivityPcs, AuditPcs
<1>8. Waits(l, m)
  BY <1>2, <1>5, <1>6, <1>7, ScheduleAssumption DEF Waits
<1> QED BY <1>1, <1>8

(* A run that is not at a round does not come to one except to begin. *)
LEMMA WaitsAfter ==
    ASSUME NEW l \in Locs, NEW ok \in BOOLEAN, l.pc = "wait" => l.cancelled = TRUE
    PROVE  Waits(l, After(l, ok))
<1>1. PICK m : m = After(l, ok)
  OBVIOUS
<1>2. CASE l.pc = "mark_recon"
  <2>1. m = BeginReconcile(l)
    BY <1>1, <1>2 DEF After
  <2>2. m.pc = "reconcile" /\ m.round = 1 /\ m.wait = reconcileFirstWait /\ m.elapsed = 0
    BY <2>1 DEF BeginReconcile, Goto, Locs
  <2> QED BY <1>1, <2>2 DEF Waits
<1>3. CASE l.pc = "reconcile"
  <2>1. m = AfterReconcile(l, UnknownOutcome) /\ UnknownOutcome \in Outcomes
    BY <1>1, <1>3, CheckedLemma DEF After
  <2> QED BY <1>1, <1>3, <2>1, WaitsReconcile
<1>4. CASE l.pc = "wait"
  <2>1. m = Goto(l, "audit_recon")
    BY <1>1, <1>4 DEF After
  <2>2. m.pc = "audit_recon" /\ SameRound(l, m) /\ m.cancelled = TRUE
    BY <1>4, <2>1 DEF Goto, Locs, SameRound
  <2> QED BY <1>1, <1>4, <2>2 DEF Waits
<1>5. CASE l.pc \notin {"mark_recon", "reconcile", "wait"}
  <2> USE DEF Pcs, ActivityPcs, AuditPcs, AdvancePcs
  <2>1. /\ \A pc \in Pcs : Goto(l, pc).pc = pc
        /\ \A e : Exit(l, e).pc = "closed" /\ Releasing(l, e).pc = "release"
    BY GotoFlow, ExitFlow, ReleasingFlow
  <2>2. CASE l.pc \in {"rej_decision", "rej_audit"}
    <3>1. m = AfterRejection(l)
      BY <1>1, <2>2 DEF After
    <3> QED BY <1>1, <2>1, <3>1 DEF AfterRejection, Waits, RoundPcs
  <2>3. CASE l.pc \in {"record_decision", "audit_denied", "audit_pass"}
    <3>1. m = AfterRevalidation(l, ok)
      BY <1>1, <2>3 DEF After
    <3> QED BY <1>1, <2>1, <3>1 DEF AfterRevalidation, Waits, RoundPcs
  <2>4. CASE l.pc = "dispatch"
    <3>1. m = [Goto(l, "audit_dispatch") EXCEPT !.outcome = UnknownOutcome]
      BY <1>1, <2>4 DEF After, AfterDispatch
    <3>2. m.pc = "audit_dispatch"
      BY <3>1 DEF Goto, Locs
    <3> QED BY <1>1, <3>2 DEF Waits, RoundPcs
  <2>5. CASE l.pc \in {"release_rejected", "release_unknown", "audit_fence_fail"}
    <3>1. m = AfterFenceFailure(l, ok)
      BY <1>1, <2>5 DEF After
    <3>2. [Goto(l, "audit_fence_unknown") EXCEPT !.outcome = UnknownOutcome].pc = "audit_fence_unknown"
      BY DEF Goto, Locs
    <3> QED BY <1>1, <2>1, <3>1, <3>2 DEF AfterFenceFailure, Waits, RoundPcs
  <2>6. CASE l.pc \in {"audit_dispatch", "audit_fence_unknown", "audit_recon"}
    <3>1. m = AfterOutcomeAudit(l, ok)
      BY <1>1, <2>6 DEF After
    <3>2. Resolve([l EXCEPT !.auditErr = ~ok]).pc \in AdvancePcs
      BY DEF Resolve, Goto, Locs
    <3> QED BY <1>1, <2>1, <3>1, <3>2 DEF AfterOutcomeAudit, Waits, RoundPcs
  <2>7. CASE l.pc \in {"mark_failed", "compensate", "audit_comp_pass", "audit_comp_fail", "audit_failed"}
    <3>1. m = AfterFailure(l, ok)
      BY <1>1, <2>7 DEF After
    <3> QED BY <1>1, <2>1, <3>1 DEF AfterFailure, Waits, RoundPcs
  <2>8. CASE l.pc \in {"mark_completed", "audit_complete", "new", "closed"}
    <3>1. m = AfterSuccess(l, ok)
      BY <1>1, <2>8 DEF After
    <3> QED BY <1>1, <2>1, <3>1 DEF AfterSuccess, Waits, RoundPcs
  <2>9. CASE l.pc \in {"verify", "claim", "claim_read", "evaluate", "release"}
    <3>1. \/ m = Exit(l, "INGRESS_DECISION_INVALID") \/ m = Exit(l, l.exit)
          \/ m = Releasing(l, "EXECUTION_CLAIM_REJECTED") \/ m = Releasing(l, "REVALIDATION_DENIED")
      BY <1>1, <2>9 DEF After
    <3>2. m.pc \notin RoundPcs
      BY <2>1, <3>1 DEF RoundPcs
    <3> QED BY <1>1, <3>2 DEF Waits
  <2>10. l.pc \in Pcs
    BY DEF Locs
  <2> QED BY <1>5, <2>2, <2>3, <2>4, <2>5, <2>6, <2>7, <2>8, <2>9, <2>10 DEF DecisionPcs
<1> QED BY <1>2, <1>3, <1>4, <1>5

(* A step of a run: it goes on, and is remembered there or not. *)
GoesOn(r, m) ==
    /\ loc' = [loc EXCEPT ![r] = m]
    /\ past' = past \/ past' = [past EXCEPT ![r] = past[r] \cup {m}]

LEMMA WaitsStep ==
    ASSUME FenceInv, NEW r \in Runs,
           \/ WorkflowStep(r) \/ AttemptFails(r) \/ AttemptTimesOut(r)
           \/ RoundLasts(r) \/ Cancel(r) \/ Terminate(r)
    PROVE  \E m : Waits(loc[r], m) /\ GoesOn(r, m)
<1>0. loc \in [Runs -> Locs] /\ loc[r] \in Locs /\ loc[r].cancelled \in BOOLEAN
  BY DEF FenceInv, TypeOK, Locs
<1>1. ASSUME NEW m, GoesTo(r, m) PROVE GoesOn(r, m)
  BY <1>1 DEF GoesTo, GoesOn
<1>2. ASSUME NEW ok \in BOOLEAN, GoesTo(r, After(loc[r], ok)), loc[r].pc = "wait" => loc[r].cancelled = TRUE
      PROVE  \E k : Waits(loc[r], k) /\ GoesOn(r, k)
  BY <1>0, <1>1, <1>2, WaitsAfter
<1>3. CASE \/ VerifyIngressDecision(r) \/ ClaimDecision(r) \/ ReadHeldClaim(r) \/ EvaluateExecution(r)
           \/ DispatchReturns(r)
  <2>1. \A e : Rejecting(loc[r], e).pc = "rej_decision" /\ Goto(loc[r], "evaluate").pc = "evaluate"
    BY <1>0, ReleasingFlow, GotoFlow DEF Pcs, ActivityPcs
  <2>2. \A v : AfterVerify(r, v).pc \notin RoundPcs
    BY <1>0, <2>1 DEF AfterVerify, Goto, Locs, RoundPcs
  <2>3. \A c : AfterClaim(loc[r], c).pc \notin RoundPcs
    BY <2>1 DEF AfterClaim, RoundPcs
  <2>4. \A v : AfterEvaluation(loc[r], v).pc \notin RoundPcs
    BY <1>0 DEF AfterEvaluation, Goto, Locs, RoundPcs
  <2>5. \A res : AfterDispatch(loc[r], res).pc \notin RoundPcs
    BY <1>0 DEF AfterDispatch, Goto, Locs, RoundPcs
  <2>6. [loc[r] EXCEPT !.pc = "claim_read"].pc \notin RoundPcs
    BY <1>0 DEF Locs, RoundPcs
  <2>7. \E m : GoesTo(r, m) /\ m.pc \notin RoundPcs
    BY <1>3, <2>2, <2>3, <2>4, <2>5, <2>6
       DEF VerifyIngressDecision, ClaimDecision, ReadHeldClaim, EvaluateExecution, DispatchReturns, Completes
  <2> QED BY <1>1, <2>7 DEF Waits
<1>4. CASE RecordDecision(r) \/ RecordAuditTrail(r) \/ RevertStateCompensation(r)
  <2>1. loc[r].pc # "wait" /\ GoesTo(r, After(loc[r], TRUE))
    BY <1>4 DEF RecordDecision, RecordAuditTrail, RevertStateCompensation, Awaits, Completes,
                DecisionPcs, AuditPcs
  <2> QED BY <1>2, <2>1
<1>5. CASE AdvanceExecutionClaim(r)
  <2>1. PICK ok \in BOOLEAN : GoesTo(r, After(loc[r], ok))
    BY <1>5 DEF AdvanceExecutionClaim, CanAdvance, Completes
  <2>2. loc[r].pc # "wait"
    BY <1>5 DEF AdvanceExecutionClaim, Awaits, AdvancePcs
  <2> QED BY <1>2, <2>1, <2>2
<1>6. CASE CancelledWait(r) \/ DispatchTimesOut(r)
  <2>1. GoesTo(r, After(loc[r], FALSE)) /\ (loc[r].pc = "wait" => loc[r].cancelled = TRUE)
    BY <1>0, <1>6 DEF CancelledWait, DispatchTimesOut, Awaits
  <2> QED BY <1>2, <2>1
<1>7. CASE ReconcileDispatch(r)
  <2>1. loc[r].pc = "reconcile"
    BY <1>7 DEF ReconcileDispatch, Awaits
  <2>2. effects[Dec(r)] \in Outcomes \cup {NoEffect}
    BY <2>1, RequestsAssumption DEF FenceInv, TypeOK, Dec
  <2>3. PICK o : GoesTo(r, AfterReconcile(loc[r], o)) /\ o \in {ReconcileReply(effects[Dec(r)], Target(r)), UnknownOutcome}
    BY <1>7 DEF ReconcileDispatch, Completes
  <2>4. o \in Outcomes \cup {NoEffect}
    BY <2>2, <2>3, ReplyLemma, CheckedLemma
  <2> QED BY <1>0, <1>1, <2>1, <2>3, <2>4, WaitsReconcile
<1>8. CASE WaitEnds(r)
  <2>1. PICK m : m = NextRound(loc[r]) /\ GoesTo(r, m) /\ loc[r].pc = "wait"
    BY <1>8 DEF WaitEnds, Awaits
  <2>2. /\ m.pc = "reconcile" /\ m.round = loc[r].round + 1 /\ m.elapsed = loc[r].elapsed + loc[r].wait
        /\ m.wait = IF 2 * loc[r].wait <= reconcileMaxWait THEN 2 * loc[r].wait ELSE reconcileMaxWait
    BY <1>0, <2>1 DEF NextRound, Goto, Locs
  <2> QED BY <1>1, <2>1, <2>2 DEF Waits
<1>9. CASE AttemptFails(r) \/ AttemptTimesOut(r)
  <2>1. loc[r].pc \in ActivityPcs /\ GoesTo(r, RetryOrFail(r))
    BY <1>9 DEF AttemptFails, AttemptTimesOut, Awaits
  <2>2. CASE RetryOrFail(r) = After(loc[r], FALSE)
    <3>1. loc[r].pc # "wait"
      BY <2>1 DEF ActivityPcs, AdvancePcs, AuditPcs, DecisionPcs
    <3> QED BY <1>2, <2>1, <2>2, <3>1
  <2>3. CASE RetryOrFail(r) # After(loc[r], FALSE)
    <3>1. PICK m : m = RetryOrFail(r)
      OBVIOUS
    <3>2. m = [loc[r] EXCEPT !.tries = @ + 1, !.pc = IF @ = "claim_read" THEN "claim" ELSE @]
      BY <2>3, <3>1 DEF RetryOrFail
    <3>3. /\ m.pc = loc[r].pc \/ m.pc = "claim"
          /\ SameRound(loc[r], m) /\ m.outcome = loc[r].outcome /\ m.elapsed = loc[r].elapsed
          /\ m.cancelled = loc[r].cancelled
      BY <1>0, <3>2 DEF Locs, SameRound
    <3>4. Waits(loc[r], m)
      BY <3>3 DEF Waits, RoundPcs
    <3> QED BY <1>1, <2>1, <3>1, <3>4
  <2> QED BY <2>2, <2>3
<1>10. CASE RoundLasts(r)
  <2>1. PICK m : m = [loc[r] EXCEPT !.elapsed = @ + 1] /\ GoesTo(r, m) /\ loc[r].pc = "reconcile"
    BY <1>10 DEF RoundLasts
  <2>2. /\ m.pc = loc[r].pc /\ SameRound(loc[r], m) /\ m.outcome = loc[r].outcome
        /\ m.elapsed = loc[r].elapsed + 1 /\ m.cancelled = loc[r].cancelled
    BY <1>0, <2>1 DEF Locs, SameRound
  <2> QED BY <1>1, <2>1, <2>2 DEF Waits
<1>11. CASE Cancel(r)
  <2>1. PICK m : m = [loc[r] EXCEPT !.cancelled = TRUE] /\ loc' = [loc EXCEPT ![r] = m] /\ past' = past
    BY <1>0, <1>11 DEF Cancel
  <2>2. /\ m.pc = loc[r].pc /\ SameRound(loc[r], m) /\ m.outcome = loc[r].outcome
        /\ m.elapsed = loc[r].elapsed /\ m.cancelled = TRUE
    BY <1>0, <2>1 DEF Locs, SameRound
  <2> QED BY <2>1, <2>2 DEF Waits, GoesOn
<1>12. CASE Terminate(r)
  <2>1. PICK m : m = Exit(loc[r], "TERMINATED") /\ loc' = [loc EXCEPT ![r] = m] /\ past' = past
    BY <1>12 DEF Terminate
  <2> QED BY <2>1, ExitFlow DEF Waits, GoesOn, RoundPcs
<1> QED BY <1>3, <1>4, <1>5, <1>6, <1>7, <1>8, <1>9, <1>10, <1>11, <1>12 DEF WorkflowStep

(* Where a run is and where resets may take it back to: every such place is *)
(* an earlier one or comes from an earlier one.                             *)
Places(r) == past[r] \cup {loc[r]}

ComesFrom(m) == \E s \in Runs : \E l \in Places(s) : m = l \/ Waits(l, m)

LEMMA PlacesStep ==
    ASSUME FenceInv, [Next]_vars, NEW u \in Runs, NEW m \in past'[u] \cup {loc'[u]}
    PROVE  ComesFrom(m)
<1>0. loc \in [Runs -> Locs] /\ past \in [Runs -> SUBSET Locs]
  BY DEF FenceInv, TypeOK
<1>1. ASSUME NEW k, m = k \/ m \in Places(u), NEW s \in Runs, NEW l \in Places(s), k = l \/ Waits(l, k)
      PROVE  ComesFrom(m)
  BY <1>1 DEF ComesFrom
<1>2. ASSUME UNCHANGED workflowVars PROVE ComesFrom(m)
  <2>1. m \in Places(u)
    BY <1>2 DEF Places, workflowVars
  <2> QED BY <2>1 DEF ComesFrom
<1>3. ASSUME NEW r \in Runs,
             \/ WorkflowStep(r) \/ AttemptFails(r) \/ AttemptTimesOut(r)
             \/ RoundLasts(r) \/ Cancel(r) \/ Terminate(r)
      PROVE  ComesFrom(m)
  <2>1. PICK k : Waits(loc[r], k) /\ GoesOn(r, k)
    BY <1>3, WaitsStep
  <2>2. m = k \/ m \in Places(u)
    BY <1>0, <2>1 DEF GoesOn, Places
  <2>3. loc[r] \in Places(r)
    BY DEF Places
  <2> QED BY <1>1, <2>1, <2>2, <2>3
<1>4. ASSUME NEW r \in Runs, NEW w, NEW q, StartWorkflow(r, w, q) PROVE ComesFrom(m)
  <2>1. PICK k : k = [loc[r] EXCEPT !.pc = "verify"]
    OBVIOUS
  <2>2. /\ loc' = [loc EXCEPT ![r] = k]
        /\ past' = past \/ past' = [past EXCEPT ![r] = {loc'[r]}]
    BY <1>4, <2>1 DEF StartWorkflow
  <2>3. Waits(loc[r], k)
    BY <1>0, <2>1 DEF Waits, RoundPcs, Locs
  <2>4. m = k \/ m \in Places(u)
    BY <1>0, <2>2 DEF Places
  <2>5. loc[r] \in Places(r)
    BY DEF Places
  <2> QED BY <1>1, <2>3, <2>4, <2>5
<1>5. ASSUME NEW r \in Runs, NEW s \in Runs, NEW l \in past[r], Reset(r, s, l) PROVE ComesFrom(m)
  <2>1. PICK k : k = IF l.pc = "claim" THEN [l EXCEPT !.token = s] ELSE l
    OBVIOUS
  <2>2. PICK x : x = IF Open(r) THEN Exit(loc[r], "TERMINATED") ELSE loc[r]
    OBVIOUS
  <2>3. /\ loc' = [loc EXCEPT ![r] = x, ![s] = k]
        /\ past' = [past EXCEPT ![s] = {loc'[s]}]
    BY <1>0, <1>5, <2>1, <2>2 DEF Reset
  <2>4. k = l \/ Waits(l, k)
    <3>1. l \in Locs
      BY <1>0
    <3>2. [l EXCEPT !.token = s].pc = l.pc
      BY <3>1 DEF Locs
    <3> QED BY <2>1, <3>2 DEF Waits, RoundPcs
  <2>5. x = loc[r] \/ Waits(loc[r], x)
    BY <2>2, ExitFlow DEF Waits, RoundPcs
  <2>6. m = k \/ m = x \/ m \in Places(u)
    BY <1>0, <2>3 DEF Places
  <2>7. l \in Places(r) /\ loc[r] \in Places(r)
    BY DEF Places
  <2> QED BY <1>1, <2>4, <2>5, <2>6, <2>7
<1>6. ASSUME NEW r \in Runs, DispatchStep(r) \/ FenceWriteFails(r) PROVE UNCHANGED workflowVars
  BY <1>6 DEF DispatchStep, StartDispatch, AcquireFence, ReadFencedClaim, CallAdapter, FenceWriteFails
<1>7. ASSUME NEW op, LateAttempt(op) PROVE UNCHANGED workflowVars
  BY <1>7 DEF LateAttempt
<1>8. WorkerRestart \/ ReloadPolicy \/ UNCHANGED vars => UNCHANGED workflowVars
  BY DEF WorkerRestart, ReloadPolicy, vars
<1>9. ASSUME NEW r \in Runs, Disturbance(r) PROVE ComesFrom(m)
  BY <1>2, <1>3, <1>5, <1>6, <1>9 DEF Disturbance
<1> QED BY <1>2, <1>3, <1>4, <1>6, <1>7, <1>8, <1>9 DEF Next

(* The reconciliation stays in its window: it never begins a wait that      *)
(* would end after reconcileWindow, and without a cancellation it gives up  *)
(* on an unknown outcome only when the next wait would.                     *)
InWindow(l) ==
    /\ l.pc \in RoundPcs => reconcileFirstWait <= l.wait /\ l.wait <= reconcileMaxWait
    /\ l.pc = "wait" => l.elapsed + l.wait <= reconcileWindow
    /\ l.pc = "audit_recon" /\ l.outcome.status = "UNKNOWN" /\ ~l.cancelled =>
          l.elapsed + l.wait > reconcileWindow

StaysInWindow == \A r \in Runs : InWindow(loc[r])

(* It keeps to a schedule w of waits that double up to the longest, s being *)
(* their sums.                                                              *)
Doubling(w, s) ==
    /\ w[1] = reconcileFirstWait
    /\ \A n \in Nat \ {0} :
          w[n + 1] = IF 2 * w[n] <= reconcileMaxWait THEN 2 * w[n] ELSE reconcileMaxWait
    /\ s[0] = 0
    /\ \A n \in Nat \ {0} : s[n] = s[n - 1] + w[n]

OnSchedule(w, s, l) ==
    /\ l.pc \in RoundPcs => l.round \in Nat \ {0} /\ l.wait = w[l.round]
    /\ l.pc \in {"reconcile", "wait"} =>
          s[l.round - 1] \in Nat /\ s[l.round - 1] <= l.elapsed /\ s[l.round - 1] <= reconcileWindow

LEMMA WindowStep ==
    ASSUME NEW l \in Locs, NEW m \in Locs, Waits(l, m), InWindow(l)
    PROVE  InWindow(m)
<1>1. l.wait \in Nat /\ l.elapsed \in Nat /\ m.cancelled \in BOOLEAN /\ l.cancelled \in BOOLEAN
  BY DEF Locs
<1>2. CASE m.pc \notin RoundPcs
  BY <1>2 DEF InWindow, RoundPcs
<1>3. CASE m.pc = "reconcile" /\ m.wait = reconcileFirstWait
  BY <1>3, ScheduleAssumption DEF InWindow
<1>4. CASE /\ m.pc = l.pc /\ SameRound(l, m) /\ m.outcome = l.outcome
           /\ m.elapsed = l.elapsed \/ (l.pc = "reconcile" /\ m.elapsed = l.elapsed + 1)
           /\ l.cancelled = TRUE => m.cancelled = TRUE
  BY <1>1, <1>4 DEF InWindow, SameRound
<1>5. CASE /\ l.pc = "reconcile" /\ SameRound(l, m) /\ m.elapsed = l.elapsed
           /\ \/ m.pc = "wait" /\ l.elapsed + l.wait <= reconcileWindow
              \/ m.pc = "audit_recon" /\ (m.outcome.status # "UNKNOWN" \/ l.elapsed + l.wait > reconcileWindow)
  BY <1>5 DEF InWindow, SameRound, RoundPcs
<1>6. CASE l.pc = "wait" /\ m.pc = "audit_recon" /\ SameRound(l, m) /\ m.cancelled = TRUE
  BY <1>6 DEF InWindow, SameRound, RoundPcs
<1>7. CASE /\ l.pc = "wait" /\ m.pc = "reconcile"
           /\ m.wait = IF 2 * l.wait <= reconcileMaxWait THEN 2 * l.wait ELSE reconcileMaxWait
  BY <1>1, <1>7, ScheduleAssumption DEF InWindow, RoundPcs
<1> QED BY <1>2, <1>3, <1>4, <1>5, <1>6, <1>7 DEF Waits

LEMMA ScheduleStep ==
    ASSUME NEW w, NEW s, Doubling(w, s), NEW l \in Locs, NEW m \in Locs, Waits(l, m),
           InWindow(l), OnSchedule(w, s, l)
    PROVE  OnSchedule(w, s, m)
<1>1. l.wait \in Nat /\ l.elapsed \in Nat /\ m.elapsed \in Nat
  BY DEF Locs
<1>2. CASE m.pc \notin RoundPcs
  BY <1>2 DEF OnSchedule, RoundPcs
<1>3. CASE m.pc = "reconcile" /\ m.round = 1 /\ m.wait = reconcileFirstWait /\ m.elapsed = 0
  BY <1>3, ScheduleAssumption DEF OnSchedule, Doubling
<1>4. CASE /\ m.pc = l.pc /\ SameRound(l, m)
           /\ m.elapsed = l.elapsed \/ m.elapsed = l.elapsed + 1
  BY <1>1, <1>4 DEF OnSchedule, SameRound
<1>5. CASE l.pc \in {"reconcile", "wait"} /\ SameRound(l, m) /\ m.pc = "audit_recon"
  BY <1>5 DEF OnSchedule, SameRound, RoundPcs
<1>6. CASE l.pc = "reconcile" /\ SameRound(l, m) /\ m.elapsed = l.elapsed /\ m.pc = "wait"
  BY <1>6 DEF OnSchedule, SameRound, RoundPcs
<1>7. CASE /\ l.pc = "wait" /\ m.pc = "reconcile" /\ m.round = l.round + 1 /\ m.elapsed = l.elapsed + l.wait
           /\ m.wait = IF 2 * l.wait <= reconcileMaxWait THEN 2 * l.wait ELSE reconcileMaxWait
  <2>1. PICK n : n = l.round
    OBVIOUS
  <2>2. n \in Nat \ {0} /\ l.wait = w[n] /\ s[n - 1] \in Nat /\ s[n - 1] <= l.elapsed
    BY <1>7, <2>1 DEF OnSchedule, RoundPcs
  <2>3. m.round \in Nat \ {0} /\ m.round - 1 = n
    BY <1>7, <2>1, <2>2
  <2>4. m.wait = w[m.round]
    BY <1>7, <2>1, <2>2 DEF Doubling
  <2>5. s[n] = s[n - 1] + w[n]
    BY <2>2 DEF Doubling
  <2>6. s[n] \in Nat /\ s[n] <= m.elapsed
    BY <1>1, <1>7, <2>2, <2>5
  <2>7. l.elapsed + l.wait <= reconcileWindow
    BY <1>7 DEF InWindow
  <2>8. s[n] <= reconcileWindow
    BY <1>1, <2>2, <2>5, <2>7, ScheduleAssumption
  <2> QED BY <2>3, <2>4, <2>6, <2>8 DEF OnSchedule
<1> QED BY <1>2, <1>3, <1>4, <1>5, <1>6, <1>7 DEF Waits

WindowInv == FenceInv /\ \A r \in Runs : \A l \in Places(r) : InWindow(l)

LEMMA PlacesInitial == ASSUME Init, NEW r \in Runs PROVE \A l \in Places(r) : l.pc = "new"
<1>1. loc[r] = NewLoc /\ past[r] = {}
  BY DEF Init
<1>2. NewLoc.pc = "new"
  BY DEF NewLoc
<1> QED BY <1>1, <1>2 DEF Places

LEMMA WindowInvStep == ASSUME WindowInv, [Next]_vars PROVE WindowInv'
<1>1. FenceInv /\ FenceInv'
  BY FenceStep DEF WindowInv
<1>2. ASSUME NEW u \in Runs, NEW m \in past'[u] \cup {loc'[u]} PROVE InWindow(m)
  <2>1. PICK v \in Runs : \E l \in Places(v) : m = l \/ Waits(l, m)
    BY <1>1, <1>2, PlacesStep DEF ComesFrom
  <2>2. PICK l \in Places(v) : m = l \/ Waits(l, m)
    BY <2>1
  <2>3. InWindow(l)
    BY <2>2 DEF WindowInv
  <2>4. l \in Locs /\ m \in Locs
    <3>1. /\ loc[v] \in Locs /\ past[v] \subseteq Locs
          /\ loc'[u] \in Locs /\ past'[u] \subseteq Locs
      BY <1>1, <1>2 DEF FenceInv, TypeOK
    <3> QED BY <1>2, <2>2, <3>1 DEF Places
  <2> QED BY <2>2, <2>3, <2>4, WindowStep
<1> QED BY <1>1, <1>2 DEF WindowInv, Places

(* The reconciliation of every run stays in its window, however long its    *)
(* rounds take and wherever a reset takes it back to (saga.go: "until       *)
(* reconcileWindow has passed").                                            *)
THEOREM ReconciliationStaysInWindow == Spec => []StaysInWindow
<1>1. Init => WindowInv
  <2>1. \A l : l.pc = "new" => InWindow(l)
    BY DEF InWindow, RoundPcs
  <2> QED BY <2>1, InitLemma, PlacesInitial DEF WindowInv
<1>2. WindowInv /\ [Next]_vars => WindowInv'
  BY WindowInvStep
<1>3. WindowInv => StaysInWindow
  BY DEF WindowInv, StaysInWindow, Places
<1> QED BY <1>1, <1>2, <1>3, PTL DEF Spec

ScheduleInv(w, s) == WindowInv /\ \A r \in Runs : \A l \in Places(r) : OnSchedule(w, s, l)

LEMMA ScheduleInitial == ASSUME Init, NEW CONSTANT w, NEW CONSTANT s PROVE ScheduleInv(w, s)
<1>1. \A l : l.pc = "new" => InWindow(l) /\ OnSchedule(w, s, l)
  BY DEF InWindow, OnSchedule, RoundPcs
<1> QED BY <1>1, InitLemma, PlacesInitial DEF ScheduleInv, WindowInv

LEMMA ScheduleInvStep ==
    ASSUME NEW CONSTANT w, NEW CONSTANT s, Doubling(w, s), ScheduleInv(w, s), [Next]_vars
    PROVE  ScheduleInv(w, s)'
<1>1. WindowInv /\ WindowInv' /\ FenceInv /\ FenceInv'
  BY WindowInvStep DEF ScheduleInv, WindowInv
<1>2. ASSUME NEW u \in Runs, NEW m \in past'[u] \cup {loc'[u]} PROVE OnSchedule(w, s, m)
  <2>1. PICK v \in Runs : \E l \in Places(v) : m = l \/ Waits(l, m)
    BY <1>1, <1>2, PlacesStep DEF ComesFrom
  <2>2. PICK l \in Places(v) : m = l \/ Waits(l, m)
    BY <2>1
  <2>3. InWindow(l) /\ OnSchedule(w, s, l)
    BY <2>2 DEF ScheduleInv, WindowInv
  <2>4. l \in Locs /\ m \in Locs
    <3>1. /\ loc[v] \in Locs /\ past[v] \subseteq Locs
          /\ loc'[u] \in Locs /\ past'[u] \subseteq Locs
      BY <1>1, <1>2 DEF FenceInv, TypeOK
    <3> QED BY <1>2, <2>2, <3>1 DEF Places
  <2> QED BY <2>2, <2>3, <2>4, ScheduleStep
<1> QED BY <1>1, <1>2 DEF ScheduleInv, Places

(* The reconciliation of every run keeps to its schedule: whatever sequence *)
(* w starts with the first wait and doubles up to the longest, and s being  *)
(* its sums, a round n waits w[n], and the waits before it have both passed *)
(* and stayed within the window (saga.go: "after waits that double from     *)
(* reconcileFirstWait up to reconcileMaxWait").                             *)
THEOREM ReconciliationKeepsSchedule ==
    ASSUME NEW CONSTANT w, NEW CONSTANT s, Doubling(w, s)
    PROVE  Spec => [](\A r \in Runs : OnSchedule(w, s, loc[r]))
<1>1. Init => ScheduleInv(w, s)
  BY ScheduleInitial
<1>2. ScheduleInv(w, s) /\ [Next]_vars => ScheduleInv(w, s)'
  BY ScheduleInvStep
<1>3. ScheduleInv(w, s) => \A r \in Runs : OnSchedule(w, s, loc[r])
  BY DEF ScheduleInv, Places
<1> QED BY <1>1, <1>2, <1>3, PTL DEF Spec

(* The documented waits are such a schedule. *)
LEMMA DocumentedDoubling ==
    ASSUME \A n \in Nat : 2 ^ n \in Nat /\ 2 ^ (n + 1) = 2 * 2 ^ n,
           DocumentedWaits[0] = 0,
           \A n \in Nat \ {0} : DocumentedWaits[n] = DocumentedWaits[n - 1] + DocumentedWait(n)
    PROVE  Doubling([n \in Nat \ {0} |-> DocumentedWait(n)], DocumentedWaits)
<1> DEFINE w == [n \in Nat \ {0} |-> DocumentedWait(n)]
<1>1. w[1] = reconcileFirstWait
  <2>1. 2 ^ 0 = 1
    OBVIOUS
  <2>2. w[1] = DocumentedWait(1)
    OBVIOUS
  <2>3. reconcileFirstWait * 1 = reconcileFirstWait
    BY ScheduleAssumption
  <2> QED BY <2>1, <2>2, <2>3, ScheduleAssumption DEF DocumentedWait
<1>2. ASSUME NEW n \in Nat \ {0}
      PROVE  w[n + 1] = IF 2 * w[n] <= reconcileMaxWait THEN 2 * w[n] ELSE reconcileMaxWait
  <2>1. PICK p \in Nat : p = 2 ^ (n - 1)
    OBVIOUS
  <2>2. PICK q \in Nat : q = 2 ^ ((n + 1) - 1)
    OBVIOUS
  <2>3. n - 1 \in Nat /\ (n - 1) + 1 = (n + 1) - 1
    OBVIOUS
  <2>4. q = 2 * p
    BY <2>1, <2>2, <2>3
  <2>5. PICK x \in Nat : x = reconcileFirstWait * p
    BY <2>1, ScheduleAssumption
  <2>6. reconcileFirstWait * q = 2 * x
    BY <2>4, <2>5, ScheduleAssumption
  <2>7. w[n] = IF x <= reconcileMaxWait THEN x ELSE reconcileMaxWait
    BY <2>1, <2>5 DEF DocumentedWait
  <2>8. w[n + 1] = IF 2 * x <= reconcileMaxWait THEN 2 * x ELSE reconcileMaxWait
    <3>1. n + 1 \in Nat \ {0}
      OBVIOUS
    <3>2. w[n + 1] = DocumentedWait(n + 1)
      BY <3>1
    <3> QED BY <2>2, <2>6, <3>2 DEF DocumentedWait
  <2> HIDE DEF w
  <2> QED BY <2>5, <2>7, <2>8, ScheduleAssumption
<1>3. ASSUME NEW n \in Nat \ {0} PROVE DocumentedWaits[n] = DocumentedWaits[n - 1] + w[n]
  OBVIOUS
<1> QED BY <1>1, <1>2, <1>3 DEF Doubling

(* Reconciliation keeps to the documented schedule. The provers cannot      *)
(* unfold a recursion, so the equations that define the powers of two and   *)
(* DocumentedWaits are written out as hypotheses.                           *)
THEOREM ReconcilesAsDocumented ==
    ASSUME \A n \in Nat : 2 ^ n \in Nat /\ 2 ^ (n + 1) = 2 * 2 ^ n,
           DocumentedWaits[0] = 0,
           \A n \in Nat \ {0} : DocumentedWaits[n] = DocumentedWaits[n - 1] + DocumentedWait(n)
    PROVE  Spec => []ReconcilesOnSchedule
<1> DEFINE w == [n \in Nat \ {0} |-> DocumentedWait(n)]
<1>1. Doubling(w, DocumentedWaits)
  BY DocumentedDoubling
<1> HIDE DEF w
<1>2. Init => ScheduleInv(w, DocumentedWaits)
  BY ScheduleInitial
<1>3. ScheduleInv(w, DocumentedWaits) /\ [Next]_vars => ScheduleInv(w, DocumentedWaits)'
  BY <1>1, ScheduleInvStep
<1>4. ScheduleInv(w, DocumentedWaits) => ReconcilesOnSchedule
  <2> SUFFICES ASSUME ScheduleInv(w, DocumentedWaits), NEW r \in Runs, NEW l, l = loc[r]
               PROVE  /\ l.pc \in {"reconcile", "wait"} =>
                            /\ l.wait = DocumentedWait(l.round)
                            /\ DocumentedWaits[l.round - 1] <= l.elapsed
                            /\ DocumentedWaits[l.round - 1] <= reconcileWindow
                      /\ l.pc = "audit_recon" /\ l.outcome.status = "UNKNOWN" /\ ~l.cancelled =>
                            l.elapsed + DocumentedWait(l.round) > reconcileWindow
    BY DEF ReconcilesOnSchedule
  <2>1. OnSchedule(w, DocumentedWaits, l) /\ InWindow(l)
    BY DEF ScheduleInv, WindowInv, Places
  <2>2. l.pc \in RoundPcs => l.wait = DocumentedWait(l.round)
    BY <2>1 DEF OnSchedule, w
  <2> QED BY <2>1, <2>2 DEF OnSchedule, InWindow, RoundPcs
<1> QED BY <1>2, <1>3, <1>4, PTL DEF Spec
=============================================================================
