-------------------------- MODULE SagaOutcomeProofs --------------------------
(***************************************************************************)
(* Proofs that what the saga concludes about a change is true of the       *)
(* target: COMPLETED and FAILED stand for what the adapter did, nothing    *)
(* changes after either, and only a partial change is compensated.         *)
(***************************************************************************)
EXTENDS SagaRunsProofs

-----------------------------------------------------------------------------
(* The inductive invariant. *)

(* What an outcome says of a target t that was changed n times and of what  *)
(* the adapter remembers: a change was made, in full or in part, or, while  *)
(* the adapter's process lives, the key failed for good.                    *)
Says(o, n, t, effect) ==
    /\ o.status = "SUCCESS" => n > 0 /\ EffectAt(t) = Applied
    /\ o.partial => n > 0 /\ EffectAt(t) = PartlyApplied
    /\ o.status = "FAILURE" /\ "restart" \notin Events => effect.status = "FAILURE"

OwnerTarget(d) == Target(claims[d].owner.run)

Tells(d, o) == Says(o, mutations[d], OwnerTarget(d), effects[d])

(* The dispatch activity of r can no longer change the target. *)
Settled(r) ==
    /\ disp[r].at = "none" => loc[r].pc \notin EarlyPcs \cup {"new"}
    /\ disp[r].at \in {"started", "not_held", "fenced"} => effects[Dec(r)] # NoEffect

(* The adapter remembers nothing that it did not do in its one call, and    *)
(* while its process lives it remembers what it did.                        *)
EffectsAreTrue ==
    \A d \in Decisions :
        /\ mutations[d] <= calls[d]
        /\ effects[d] \in {NoEffect, KeyFenced, Applied, PartlyApplied}
        /\ Tells(d, effects[d])
        /\ mutations[d] > 0 /\ "restart" \notin Events => effects[d] \in {Applied, PartlyApplied}

(* So what a run was told at some point of its history is true, *)
ToldTrue(r, l) ==
    /\ Tells(Dec(r), l.outcome) /\ MarksAgree(l)
    /\ l.pc \in EarlyPcs \cup {"new"} => l.outcome = UnknownOutcome

RunsAreToldTrue ==
    \A r \in Runs :
        /\ \A l \in past[r] \cup {loc[r]} : ToldTrue(r, l)
        /\ loc[r].outcome.status = "FAILURE" => Settled(r)
        /\ Tells(Dec(r), disp[r].outcome)
        /\ disp[r].at = "none" => disp[r].outcome = UnknownOutcome

(* what an attempt of it, abandoned or not, still may write is true, *)
WritesTrue(op) ==
    /\ op.kind = "advance" /\ op.input = "COMPLETED" => Tells(Dec(op.run), Applied)
    /\ op.kind = "advance" /\ op.input = "FAILED" => Tells(Dec(op.run), KeyFenced) /\ Settled(op.run)
    /\ op.kind = "compensate" => Tells(Dec(op.run), PartlyApplied)

LateIsTrue == \A op \in late : WritesTrue(op)

(* and what was written is. *)
MarksAreTrue ==
    \A d \in Decisions :
        /\ claims[d].state = "COMPLETED" => Tells(d, Applied)
        /\ claims[d].state = "FAILED" => Tells(d, KeyFenced) /\ Settled(claims[d].owner.run)
        /\ compensations[d] > 0 => Tells(d, PartlyApplied)

OutcomeInv == RunsInv /\ EffectsAreTrue /\ RunsAreToldTrue /\ LateIsTrue /\ MarksAreTrue

-----------------------------------------------------------------------------
(* What no step takes back. *)

TellsNext(d, o) ==
    Says(o, mutations'[d], request'[claims'[d].owner.run].proposal.target, effects'[d])

Active == {"started", "not_held", "fenced"}

(* What every step does to the runs and to the adapter: the target does not *)
(* forget a change, nor a living adapter a key, and a dispatch activity is  *)
(* started at most once, by a run that waits for it.                        *)
Steady ==
    /\ ClaimsStep /\ IdsKept
    /\ \A d \in Decisions :
          /\ mutations'[d] \in Nat /\ mutations'[d] >= mutations[d]
          /\ effects[d] # NoEffect /\ "restart" \notin Events => effects'[d] = effects[d]
    /\ \A s \in Runs :
          loc[s].pc # "new" =>
             /\ disp'[s].at = "none" =>
                   disp[s].at = "none" /\ (loc'[s].pc \in EarlyPcs => loc[s].pc \in EarlyPcs)
             /\ disp'[s].at \in Active =>
                   /\ disp[s].at \in Active \/ (disp[s].at = "none" /\ loc[s].pc \in EarlyPcs)
                   /\ effects[Dec(s)] # NoEffect => effects'[Dec(s)] = effects[Dec(s)]

LEMMA OutcomesDiffer ==
    /\ NoEffect.status = "" /\ NoEffect.partial = FALSE
    /\ Applied.status = "SUCCESS" /\ Applied.partial = FALSE
    /\ PartlyApplied.status = "FAILURE" /\ PartlyApplied.partial = TRUE
    /\ KeyFenced.status = "FAILURE" /\ KeyFenced.partial = FALSE
    /\ UnknownOutcome.status = "UNKNOWN" /\ UnknownOutcome.partial = FALSE
BY DEF NoEffect, Applied, PartlyApplied, KeyFenced, UnknownOutcome

LEMMA OutcomesAre == {KeyFenced, Applied, PartlyApplied, UnknownOutcome} \subseteq Outcomes
<1>1. KeyFenced \in Outcomes /\ Applied \in Outcomes
  BY DEF Outcomes, OutcomeStatuses, KeyFenced, Applied
<1>2. PartlyApplied \in Outcomes /\ UnknownOutcome \in Outcomes
  BY DEF Outcomes, OutcomeStatuses, PartlyApplied, UnknownOutcome
<1> QED BY <1>1, <1>2

(* What says nothing is true. *)
LEMMA SaysNothing ==
    ASSUME NEW n, NEW t, NEW e
    PROVE  Says(UnknownOutcome, n, t, e) /\ Says(NoEffect, n, t, e)
BY OutcomesDiffer DEF Says

LEMMA SaysWhat ==
    ASSUME NEW n, NEW t, NEW e
    PROVE  /\ Says(Applied, n, t, e) <=> n > 0 /\ EffectAt(t) = Applied
           /\ Says(PartlyApplied, n, t, e) <=>
                 /\ n > 0 /\ EffectAt(t) = PartlyApplied
                 /\ "restart" \notin Events => e.status = "FAILURE"
           /\ Says(KeyFenced, n, t, e) <=> ("restart" \notin Events => e.status = "FAILURE")
<1>1. Says(Applied, n, t, e) <=> n > 0 /\ EffectAt(t) = Applied
  BY DEF Says, Applied
<1>2. Says(PartlyApplied, n, t, e) <=>
          n > 0 /\ EffectAt(t) = PartlyApplied /\ ("restart" \notin Events => e.status = "FAILURE")
  BY DEF Says, PartlyApplied
<1>3. Says(KeyFenced, n, t, e) <=> ("restart" \notin Events => e.status = "FAILURE")
  BY DEF Says, KeyFenced
<1> QED BY <1>1, <1>2, <1>3

(* The run that owns a called claim keeps it, and its request. *)
LEMMA OwnerKeepsTarget ==
    ASSUME RunsInv, ClaimsStep, IdsKept, NEW d \in Decisions, calls[d] > 0
    PROVE  OwnerTarget(d) = request'[claims'[d].owner.run].proposal.target
<1> USE DEF RunsInv
<1>1. claims'[d].owner = claims[d].owner /\ claims[d].owner.run \in Runs
  BY CallerStays
<1>2. claims[d].state # "NONE"
  BY DEF FenceInv, CallsAreFenced, FencedStates
<1>3. PICK r \in Runs : claims[d].owner = Owner(r) /\ Own(r)
  BY <1>2 DEF OwnersAreRuns
<1>4. claims[d].owner.run = r
  BY <1>3 DEF Owner
<1>5. loc[r].pc # "new"
  BY <1>3, NewHasNoToken
<1>6. request'[r] = request[r]
  BY <1>5 DEF IdsKept
<1> QED BY <1>1, <1>4, <1>6 DEF OwnerTarget, Target

LEMMA TellsStays ==
    ASSUME RunsInv, EffectsAreTrue, Steady, NEW d \in Decisions, NEW o, Tells(d, o)
    PROVE  TellsNext(d, o)
<1>0. /\ mutations[d] \in Nat /\ calls[d] \in Nat /\ mutations[d] <= calls[d]
      /\ mutations'[d] \in Nat /\ mutations'[d] >= mutations[d] /\ ClaimsStep /\ IdsKept
  BY DEF RunsInv, FenceInv, TypeOK, EffectsAreTrue, Steady
<1>1. mutations[d] > 0 => OwnerTarget(d) = request'[claims'[d].owner.run].proposal.target
  BY <1>0, OwnerKeepsTarget
<1>2. mutations[d] > 0 => mutations'[d] > 0
  BY <1>0
<1>3. effects[d].status = "FAILURE" /\ "restart" \notin Events => effects'[d].status = "FAILURE"
  BY OutcomesDiffer DEF Steady
<1> QED BY <1>1, <1>2, <1>3 DEF Tells, TellsNext, Says

LEMMA SettledStays ==
    ASSUME Steady, NEW s \in Runs, loc[s].pc # "new", Settled(s)
    PROVE  Settled(s)'
<1>1. Dec(s)' = Dec(s) /\ loc'[s].pc # "new"
  BY DEF Steady, IdsKept, Dec
<1>2. disp'[s].at = "none" => disp[s].at = "none" /\ (loc'[s].pc \in EarlyPcs => loc[s].pc \in EarlyPcs)
  BY DEF Steady
<1>3. disp'[s].at \in Active =>
          /\ disp[s].at \in Active \/ (disp[s].at = "none" /\ loc[s].pc \in EarlyPcs)
          /\ effects[Dec(s)] # NoEffect => effects'[Dec(s)] = effects[Dec(s)]
  BY DEF Steady
<1> QED BY <1>1, <1>2, <1>3 DEF Settled, Active

(* So what an attempt on its way may write stays true, *)
LEMMA WritesStay ==
    ASSUME RunsInv, EffectsAreTrue, Steady, NEW op, op.run \in Runs, loc[op.run].pc # "new", WritesTrue(op)
    PROVE  WritesTrue(op)'
<1>1. Dec(op.run) \in Decisions /\ Dec(op.run)' = Dec(op.run)
  BY StartedLemma DEF RunsInv, Steady, IdsKept, Dec
<1>2. \A o : Tells(Dec(op.run), o) => TellsNext(Dec(op.run), o)
  BY <1>1, TellsStays
<1>3. Settled(op.run) => Settled(op.run)'
  BY SettledStays
<1>4. \A o : TellsNext(Dec(op.run), o) =>
          Says(o, mutations'[Dec(op.run)'], OwnerTarget(Dec(op.run))', effects'[Dec(op.run)'])
  BY <1>1 DEF TellsNext, OwnerTarget, Target
<1> QED BY <1>2, <1>3, <1>4 DEF WritesTrue, Tells

(* and so does what was written, *)
LEMMA MarkStays ==
    ASSUME RunsInv, EffectsAreTrue, MarksAreTrue, Steady, NEW d \in Decisions
    PROVE  /\ claims[d].state = "COMPLETED" => TellsNext(d, Applied)
           /\ claims[d].state = "FAILED" =>
                 TellsNext(d, KeyFenced) /\ \E r \in Runs : claims[d].owner.run = r /\ Settled(r)'
           /\ compensations[d] > 0 => TellsNext(d, PartlyApplied)
<1>1. \A o : Tells(d, o) => TellsNext(d, o)
  BY TellsStays
<1>2. ASSUME claims[d].state = "FAILED" PROVE \E r \in Runs : claims[d].owner.run = r /\ Settled(r)'
  <2>1. PICK r \in Runs : claims[d].owner = Owner(r) /\ Own(r)
    BY <1>2 DEF RunsInv, OwnersAreRuns
  <2>2. claims[d].owner.run = r /\ loc[r].pc # "new"
    BY <2>1, NewHasNoToken DEF Owner, RunsInv
  <2>3. Settled(r)
    BY <1>2, <2>2 DEF MarksAreTrue
  <2>4. Settled(r)'
    BY <2>2, <2>3, SettledStays
  <2> QED BY <2>2, <2>4
<1> QED BY <1>1, <1>2 DEF MarksAreTrue

(* What a run is about to write is what it was told. *)
LEMMA AttemptIsTrue ==
    ASSUME RunsInv, EffectsAreTrue, RunsAreToldTrue, NEW r \in Runs, loc[r].pc \in ActivityPcs
    PROVE  WritesTrue(Attempt(r))
<1>0. /\ Tells(Dec(r), loc[r].outcome) /\ MarksAgree(loc[r])
      /\ loc[r].outcome.status = "FAILURE" => Settled(r)
  BY DEF RunsAreToldTrue, ToldTrue
<1>1. Attempt(r).run = r
  BY AttemptIs
<1>2. ASSUME Attempt(r).kind = "advance", Attempt(r).input = "COMPLETED" PROVE Tells(Dec(r), Applied)
  <2>1. loc[r].pc = "mark_completed"
    BY <1>2, AttemptIs DEF AdvanceTo
  <2> QED BY <1>0, <2>1, OutcomesDiffer DEF MarksAgree, Tells, Says
<1>3. ASSUME Attempt(r).kind = "advance", Attempt(r).input = "FAILED"
      PROVE  Tells(Dec(r), KeyFenced) /\ Settled(r)
  <2>1. loc[r].pc = "mark_failed"
    BY <1>3, AttemptIs DEF AdvanceTo
  <2> QED BY <1>0, <2>1, OutcomesDiffer DEF MarksAgree, Tells, Says
<1>4. ASSUME Attempt(r).kind = "compensate" PROVE Tells(Dec(r), PartlyApplied)
  <2>1. loc[r].pc = "compensate"
    BY <1>4, AttemptIs
  <2>2. loc[r].pc # "new"
    BY <2>1
  <2>3. Dec(r) \in Decisions
    BY <2>2, StartedLemma DEF RunsInv
  <2>4. mutations[Dec(r)] > 0 /\ EffectAt(OwnerTarget(Dec(r))) = PartlyApplied
    BY <1>0, <2>1 DEF MarksAgree, Tells, Says
  <2>5. "restart" \notin Events => effects[Dec(r)] \in {Applied, PartlyApplied} /\ Tells(Dec(r), effects[Dec(r)])
    BY <2>3, <2>4 DEF EffectsAreTrue
  <2>6. "restart" \notin Events => effects[Dec(r)] = PartlyApplied
    BY <2>4, <2>5, OutcomesDiffer DEF Tells, Says
  <2> QED BY <2>4, <2>6, OutcomesDiffer DEF Tells, Says
<1> QED BY <1>1, <1>2, <1>3, <1>4 DEF WritesTrue

-----------------------------------------------------------------------------
(* An attempt that takes effect, of a run or late. *)

(* The adapter learns at most that a key it does not know is fenced. *)
Remembers(d) == effects'[d] = effects[d] \/ (effects[d] = NoEffect /\ effects'[d] = KeyFenced)

LEMMA EffectsStep ==
    ASSUME RunsInv, EffectsAreTrue, Steady, mutations' = mutations, calls' = calls,
           \A d \in Decisions : Remembers(d)
    PROVE  EffectsAreTrue'
<1> SUFFICES ASSUME NEW d \in Decisions
             PROVE  /\ mutations'[d] <= calls'[d]
                    /\ effects'[d] \in {NoEffect, KeyFenced, Applied, PartlyApplied}
                    /\ TellsNext(d, effects'[d])
                    /\ mutations'[d] > 0 /\ "restart" \notin Events => effects'[d] \in {Applied, PartlyApplied}
  BY DEF EffectsAreTrue, Tells, TellsNext, OwnerTarget, Target
<1>1. /\ mutations[d] <= calls[d]
      /\ effects[d] \in {NoEffect, KeyFenced, Applied, PartlyApplied}
      /\ Tells(d, effects[d])
      /\ mutations[d] > 0 /\ "restart" \notin Events => effects[d] \in {Applied, PartlyApplied}
  BY DEF EffectsAreTrue
<1>2. CASE effects'[d] = effects[d]
  <2>1. TellsNext(d, effects[d])
    BY <1>1, TellsStays
  <2> QED BY <1>1, <1>2, <2>1
<1>3. CASE effects[d] = NoEffect /\ effects'[d] = KeyFenced
  <2>1. TellsNext(d, KeyFenced)
    BY <1>3, OutcomesDiffer DEF TellsNext, Says
  <2> QED BY <1>1, <1>3, <2>1, OutcomesDiffer
<1> QED BY <1>2, <1>3 DEF Remembers

LEMMA EffectRemembers ==
    ASSUME FenceInv, NEW op, TakesEffect(op)
    PROVE  /\ mutations' = mutations /\ calls' = calls /\ \A d \in Decisions : Remembers(d)
           /\ \A d \in Decisions : compensations'[d] > 0 =>
                 compensations[d] > 0 \/ (op.kind = "compensate" /\ d = Dec(op.run))
           /\ op.kind = "reconcile" /\ Dec(op.run) \in Decisions =>
                 effects'[Dec(op.run)] = ReconcileEffect(effects[Dec(op.run)], Target(op.run))
<1>1. effects \in [Decisions -> Outcomes \cup {NoEffect}] /\ compensations \in [Decisions -> Nat]
  BY DEF FenceInv, TypeOK
<1>2. /\ effects' = IF op.kind = "reconcile"
                     THEN [effects EXCEPT ![Dec(op.run)] = ReconcileEffect(effects[Dec(op.run)], Target(op.run))]
                     ELSE effects
      /\ compensations' = IF op.kind = "compensate"
                          THEN [compensations EXCEPT ![Dec(op.run)] = compensations[Dec(op.run)] + 1]
                          ELSE compensations
      /\ UNCHANGED <<calls, mutations>>
  BY DEF TakesEffect
<1>3. ASSUME NEW d \in Decisions PROVE Remembers(d)
  BY <1>1, <1>2 DEF Remembers, ReconcileEffect
<1>4. ASSUME NEW d \in Decisions, compensations'[d] > 0
      PROVE  compensations[d] > 0 \/ (op.kind = "compensate" /\ d = Dec(op.run))
  BY <1>1, <1>2, <1>4
<1> QED BY <1>1, <1>2, <1>3, <1>4

LEMMA MarksStep ==
    ASSUME RunsInv, EffectsAreTrue, MarksAreTrue, Steady, NEW t \in Runs, NEW op,
           Attempted(op, t), TakesEffect(op), WritesTrue(op)
    PROVE  MarksAreTrue'
<1> SUFFICES ASSUME NEW d \in Decisions
             PROVE  /\ claims'[d].state = "COMPLETED" => TellsNext(d, Applied)
                    /\ claims'[d].state = "FAILED" =>
                          TellsNext(d, KeyFenced) /\ \E r \in Runs : claims'[d].owner.run = r /\ Settled(r)'
                    /\ compensations'[d] > 0 => TellsNext(d, PartlyApplied)
  BY DEF MarksAreTrue, Tells, TellsNext, OwnerTarget, Target, Settled, Dec
<1>0. op.run = t /\ loc[t].pc # "new" /\ FenceInv
  BY DEF Attempted, Startable, RunsInv
<1>1. \A o : Tells(d, o) => TellsNext(d, o)
  BY TellsStays
<1>2. /\ op.kind = "advance" /\ op.input = "COMPLETED" => Tells(Dec(t), Applied)
      /\ op.kind = "advance" /\ op.input = "FAILED" => Tells(Dec(t), KeyFenced) /\ Settled(t)
      /\ op.kind = "compensate" => Tells(Dec(t), PartlyApplied)
  BY <1>0 DEF WritesTrue
<1>3. claims'[d] = IF op.kind = "claim" /\ d = Dec(t) /\ CanClaim(d)
                    THEN [state |-> "CLAIMED", owner |-> Owner(t)]
                    ELSE IF op.kind = "advance" /\ d = Dec(t) /\ CanAdvance(d, Owner(t), op.input)
                    THEN [claims[d] EXCEPT !.state = op.input]
                    ELSE claims[d]
  BY <1>0, WritesLemma DEF Writes
<1>4. compensations'[d] > 0 => TellsNext(d, PartlyApplied)
  BY <1>0, <1>1, <1>2, EffectRemembers, MarkStays
<1>5. CASE claims'[d] = claims[d]
  BY <1>4, <1>5, MarkStays
<1>6. CASE claims'[d] = [state |-> "CLAIMED", owner |-> Owner(t)]
  BY <1>4, <1>6
<1>7. CASE op.kind = "advance" /\ d = Dec(t) /\ CanAdvance(d, Owner(t), op.input)
  <2>1. claims[d].owner = Owner(t) /\ claims'[d] = [claims[d] EXCEPT !.state = op.input]
    BY <1>3, <1>7 DEF CanAdvance
  <2>2. claims[d] \in Claims
    BY <1>0 DEF FenceInv, TypeOK, ClaimsTypeOK
  <2>3. claims'[d].state = op.input /\ claims'[d].owner.run = t
    BY <2>1, <2>2 DEF Claims, NoClaim, Owner
  <2>4. Settled(t) => Settled(t)'
    BY <1>0, SettledStays
  <2> QED BY <1>1, <1>2, <1>4, <1>7, <2>3, <2>4
<1> QED BY <1>3, <1>5, <1>6, <1>7

LEMMA MarksKept ==
    ASSUME RunsInv, EffectsAreTrue, MarksAreTrue, Steady, compensations' = compensations,
           \A d \in Decisions : claims'[d] = claims[d] \/ claims'[d].state \notin {"COMPLETED", "FAILED"}
    PROVE  MarksAreTrue'
<1> SUFFICES ASSUME NEW d \in Decisions
             PROVE  /\ claims'[d].state = "COMPLETED" => TellsNext(d, Applied)
                    /\ claims'[d].state = "FAILED" =>
                          TellsNext(d, KeyFenced) /\ \E r \in Runs : claims'[d].owner.run = r /\ Settled(r)'
                    /\ compensations'[d] > 0 => TellsNext(d, PartlyApplied)
  BY DEF MarksAreTrue, Tells, TellsNext, OwnerTarget, Target, Settled, Dec
<1> QED BY MarkStays

-----------------------------------------------------------------------------
(* What the runs were told. *)

PointTrue(s, l) ==
    /\ TellsNext(request'[s].decision, l.outcome) /\ MarksAgree(l)
    /\ l.pc \in EarlyPcs \cup {"new"} => l.outcome = UnknownOutcome

LEMMA ToldStays ==
    ASSUME RunsInv, EffectsAreTrue, RunsAreToldTrue, Steady, NEW s \in Runs
    PROVE  /\ \A l \in past[s] \cup {loc[s]} : PointTrue(s, l)
           /\ loc[s].outcome.status = "FAILURE" => Settled(s)'
           /\ TellsNext(request'[s].decision, disp[s].outcome)
<1>0. /\ \A l \in past[s] \cup {loc[s]} : ToldTrue(s, l)
      /\ loc[s].outcome.status = "FAILURE" => Settled(s)
      /\ Tells(Dec(s), disp[s].outcome)
      /\ disp[s].at = "none" => disp[s].outcome = UnknownOutcome
  BY DEF RunsAreToldTrue
<1>1. CASE loc[s].pc = "new"
  <2>1. disp[s].at = "none" /\ past[s] = {}
    BY <1>1 DEF RunsInv, StartsFresh
  <2>2. loc[s].outcome = UnknownOutcome /\ MarksAgree(loc[s])
    BY <1>0, <1>1 DEF ToldTrue
  <2>3. \A d : TellsNext(d, UnknownOutcome)
    BY SaysNothing DEF TellsNext
  <2>4. loc[s].outcome.status # "FAILURE"
    BY <2>2, OutcomesDiffer
  <2> QED BY <1>0, <2>1, <2>2, <2>3, <2>4 DEF PointTrue
<1>2. CASE loc[s].pc # "new"
  <2>1. Dec(s) \in Decisions /\ request'[s].decision = Dec(s)
    BY <1>2, StartedLemma DEF RunsInv, Steady, IdsKept, Dec
  <2>2. \A o : Tells(Dec(s), o) => TellsNext(request'[s].decision, o)
    BY <2>1, TellsStays
  <2>3. Settled(s) => Settled(s)'
    BY <1>2, SettledStays
  <2> QED BY <1>0, <2>2, <2>3 DEF PointTrue, ToldTrue
<1> QED BY <1>1, <1>2

(* What has to be shown of a step, besides what stays as it is. *)
LEMMA ToldNext ==
    ASSUME RunsInv, EffectsAreTrue, RunsAreToldTrue, Steady,
           \A s \in Runs : \A l \in past'[s] \cup {loc'[s]} : l \in past[s] \cup {loc[s]} \/ PointTrue(s, l),
           \A s \in Runs : loc'[s].outcome.status = "FAILURE" => loc'[s].outcome = loc[s].outcome \/ Settled(s)',
           \A s \in Runs : /\ disp'[s].outcome = disp[s].outcome \/ TellsNext(request'[s].decision, disp'[s].outcome)
                           /\ disp'[s].at = "none" => disp[s].at = "none" /\ disp'[s].outcome = disp[s].outcome
    PROVE  RunsAreToldTrue'
<1>1. ASSUME NEW s \in Runs, NEW l \in past'[s] \cup {loc'[s]} PROVE ToldTrue(s, l)'
  <2>1. PointTrue(s, l)
    BY ToldStays
  <2> QED BY <2>1 DEF PointTrue, ToldTrue, Tells, TellsNext, OwnerTarget, Target, Dec
<1>2. ASSUME NEW s \in Runs, loc'[s].outcome.status = "FAILURE" PROVE Settled(s)'
  BY <1>2, ToldStays
<1>3. ASSUME NEW s \in Runs
      PROVE  Tells(Dec(s), disp[s].outcome)' /\ (disp'[s].at = "none" => disp'[s].outcome = UnknownOutcome)
  <2>1. TellsNext(request'[s].decision, disp'[s].outcome)
    BY ToldStays
  <2>2. disp[s].at = "none" => disp[s].outcome = UnknownOutcome
    BY DEF RunsAreToldTrue
  <2> QED BY <2>1, <2>2 DEF Tells, TellsNext, OwnerTarget, Target, Dec
<1> QED BY <1>1, <1>2, <1>3 DEF RunsAreToldTrue

LEMMA CheckedSays ==
    ASSUME NEW o \in Outcomes \cup {NoEffect}, NEW n, NEW t, NEW e, Says(o, n, t, e)
    PROVE  /\ Says(Checked(o), n, t, e)
           /\ Checked(o).status = "FAILURE" => o.status = "FAILURE"
<1>1. CASE o.status \notin OutcomeStatuses
  <2>1. Checked(o) = UnknownOutcome
    BY <1>1 DEF Checked
  <2> QED BY <2>1, SaysNothing, OutcomesDiffer
<1>2. CASE o.status \in OutcomeStatuses
  <2>1. o \in Outcomes
    BY <1>2, OutcomesDiffer DEF OutcomeStatuses
  <2>2. Checked(o).status = o.status /\ (Checked(o).partial => o.partial)
    BY <1>2, <2>1 DEF Checked, Outcomes
  <2> QED BY <2>2 DEF Says
<1> QED BY <1>1, <1>2

-----------------------------------------------------------------------------
(* A step of one run. *)

LEMMA RunStepSteady ==
    ASSUME RunsInv, NEW r \in Runs, NEW m, Leads(r, m), RunStep(r, m), ClaimsStep
    PROVE  /\ Steady /\ mutations' = mutations /\ calls' = calls
           /\ \A d \in Decisions : Remembers(d)
<1>0. FenceInv
  BY DEF RunsInv
<1>1. Stepped(r, m) /\ IdsKept
  BY <1>0, SteppedLemma
<1>2. mutations' = mutations /\ calls' = calls /\ \A d \in Decisions : Remembers(d)
  <2>1. CASE UNCHANGED <<storeVars, adapterVars>>
    BY <2>1 DEF adapterVars, Remembers
  <2>2. CASE TakesEffect(Attempt(r))
    BY <1>0, <2>2, EffectRemembers
  <2> QED BY <2>1, <2>2 DEF RunStep
<1>3. ASSUME NEW d \in Decisions
      PROVE  /\ mutations'[d] \in Nat /\ mutations'[d] >= mutations[d]
             /\ effects[d] # NoEffect => effects'[d] = effects[d]
  <2>1. mutations[d] \in Nat
    BY <1>0 DEF FenceInv, TypeOK
  <2> QED BY <1>2, <2>1 DEF Remembers
<1>4. ASSUME NEW s \in Runs, loc[s].pc # "new"
      PROVE  /\ loc'[s].pc \in EarlyPcs => loc[s].pc \in EarlyPcs
             /\ effects[Dec(s)] # NoEffect => effects'[Dec(s)] = effects[Dec(s)]
  <2>1. m.pc \in EarlyPcs => loc[r].pc \in EarlyPcs
    BY DEF Leads, LeadsEarly
  <2>2. Dec(s) \in Decisions
    BY <1>0, <1>4, StartedLemma
  <2> QED BY <1>1, <1>3, <2>1, <2>2 DEF Stepped
<1>5. disp' = disp
  BY DEF RunStep
<1>6. Steady
  BY <1>1, <1>3, <1>4, <1>5 DEF Steady
<1> QED BY <1>2, <1>6

(* A new outcome comes from the dispatch activity or from the adapter.      *)
LEMMA RunStepOutcome ==
    ASSUME OutcomeInv, NEW r \in Runs, NEW m, Leads(r, m), RunStep(r, m), Steady, EffectsAreTrue'
    PROVE  /\ PointTrue(r, m)
           /\ m.outcome.status = "FAILURE" => m.outcome = loc[r].outcome \/ Settled(r)'
<1> USE DEF OutcomeInv
<1>0. FenceInv
  BY DEF RunsInv
<1>1. Stepped(r, m) /\ loc[r].pc # "new" /\ m.pc # "new"
  BY <1>0, SteppedLemma DEF Leads
<1>2. Dec(r) \in Decisions /\ request'[r].decision = Dec(r) /\ loc'[r] = m /\ disp' = disp /\ Dec(r)' = Dec(r)
  BY <1>0, <1>1, StartedLemma DEF Stepped, Dec
<1>3. MarksAgree(m)
  BY DEF Leads, LeadsOutcome, RunsAreToldTrue, ToldTrue
<1>4. m.pc \in EarlyPcs => loc[r].pc \in EarlyPcs
  BY DEF Leads, LeadsEarly
<1>5. CASE m.outcome = loc[r].outcome
  <2>1. PointTrue(r, loc[r])
    BY ToldStays
  <2> QED BY <1>1, <1>3, <1>4, <1>5, <2>1 DEF PointTrue
<1>6. CASE m.outcome = UnknownOutcome
  <2>1. TellsNext(request'[r].decision, UnknownOutcome)
    BY SaysNothing DEF TellsNext
  <2> QED BY <1>3, <1>6, <2>1, OutcomesDiffer DEF PointTrue
<1>7. CASE disp[r].at = "done" /\ m.outcome = Checked(disp[r].outcome) /\ m.pc \notin EarlyPcs
  <2>1. disp[r].outcome \in Outcomes
    BY <1>0 DEF FenceInv, TypeOK
  <2>2. TellsNext(request'[r].decision, disp[r].outcome)
    BY ToldStays
  <2>3. TellsNext(request'[r].decision, m.outcome)
    BY <1>7, <2>1, <2>2, CheckedSays DEF TellsNext
  <2>4. Settled(r)'
    BY <1>2, <1>7 DEF Settled
  <2> QED BY <1>1, <1>3, <1>7, <2>3, <2>4 DEF PointTrue
<1>8. CASE /\ loc[r].pc = "reconcile" /\ TakesEffect(Attempt(r))
           /\ m.outcome = Checked(ReconcileReply(effects[Dec(r)], Target(r)))
  <2>1. loc[r].pc \in ActivityPcs
    BY <1>8 DEF ActivityPcs
  <2>2. Attempt(r).kind = "reconcile" /\ Attempt(r).run = r
    BY <1>8, <2>1, AttemptIs
  <2>3. effects'[Dec(r)] = ReconcileEffect(effects[Dec(r)], Target(r))
    BY <1>0, <1>2, <1>8, <2>2, EffectRemembers
  <2>4. PICK e : e = effects'[Dec(r)]
    OBVIOUS
  <2>5. e \in {NoEffect, KeyFenced, Applied, PartlyApplied} /\ TellsNext(Dec(r), e)
    BY <1>2, <2>4 DEF EffectsAreTrue, Tells, TellsNext, OwnerTarget, Target
  <2>6. e \in Outcomes \cup {NoEffect}
    BY <2>5, OutcomesAre
  <2>7. m.outcome = Checked(UnknownOutcome) \/ m.outcome = Checked(e)
    BY <1>8, <2>3, <2>4 DEF ReconcileReply
  <2>8. UnknownOutcome \in Outcomes \cup {NoEffect} /\ TellsNext(Dec(r), UnknownOutcome)
    BY SaysNothing, OutcomesAre DEF TellsNext
  <2>9. TellsNext(Dec(r), m.outcome) /\ (m.outcome.status = "FAILURE" => e.status = "FAILURE")
    BY <2>5, <2>6, <2>7, <2>8, CheckedSays, OutcomesDiffer DEF TellsNext
  <2>10. m.pc \notin EarlyPcs
    BY <1>4, <1>8 DEF EarlyPcs
  <2>11. e.status = "FAILURE" => Settled(r)'
    BY <1>1, <1>2, <2>4, <2>10, OutcomesDiffer DEF Settled
  <2> QED BY <1>1, <1>2, <1>3, <2>9, <2>10, <2>11 DEF PointTrue
<1> QED BY <1>5, <1>6, <1>7, <1>8 DEF Leads, LeadsOutcome

LEMMA RunStepTells ==
    ASSUME OutcomeInv, NEW r \in Runs, NEW m, Leads(r, m), RunStep(r, m), RunsInv', ClaimsStep
    PROVE  OutcomeInv'
<1> USE DEF OutcomeInv
<1>0. FenceInv
  BY DEF RunsInv
<1>1. Stepped(r, m) /\ loc[r].pc # "new"
  BY <1>0, SteppedLemma DEF Leads
<1>2. Steady /\ mutations' = mutations /\ calls' = calls /\ \A d \in Decisions : Remembers(d)
  BY RunStepSteady
<1>3. EffectsAreTrue'
  BY <1>2, EffectsStep
<1>4. RunsAreToldTrue'
  <2>1. PointTrue(r, m) /\ (m.outcome.status = "FAILURE" => m.outcome = loc[r].outcome \/ Settled(r)')
    BY <1>2, <1>3, RunStepOutcome
  <2>2. \A s \in Runs : \A l \in past'[s] \cup {loc'[s]} : l \in past[s] \cup {loc[s]} \/ PointTrue(s, l)
    BY <1>1, <2>1 DEF Stepped
  <2>3. \A s \in Runs : loc'[s].outcome.status = "FAILURE" => loc'[s].outcome = loc[s].outcome \/ Settled(s)'
    BY <1>1, <2>1 DEF Stepped
  <2>4. disp' = disp
    BY DEF RunStep
  <2> QED BY <1>2, <2>2, <2>3, <2>4, ToldNext
<1>5. LateIsTrue'
  <2> SUFFICES ASSUME NEW op \in late' PROVE WritesTrue(op)'
    BY DEF LateIsTrue
  <2>1. CASE op \in late
    <3>1. op.run \in Runs /\ loc[op.run].pc # "new" /\ WritesTrue(op)
      BY <1>0, <2>1 DEF FenceInv, TypeOK, LateAttempts, NewIsIdle, LateIsTrue
    <3> QED BY <1>2, <3>1, WritesStay
  <2>2. CASE op = Attempt(r) /\ loc[r].pc \in ActivityPcs
    <3>1. op.run = r /\ WritesTrue(op)
      BY <2>2, AttemptIs, AttemptIsTrue
    <3> QED BY <1>1, <1>2, <3>1, WritesStay
  <2> QED BY <2>1, <2>2 DEF RunStep
<1>6. MarksAreTrue'
  <2>1. CASE UNCHANGED <<storeVars, adapterVars>>
    BY <1>2, <2>1, MarksKept DEF storeVars, adapterVars
  <2>2. CASE loc[r].pc \in ActivityPcs /\ TakesEffect(Attempt(r))
    <3>1. Attempted(Attempt(r), r) /\ WritesTrue(Attempt(r))
      BY <1>0, <2>2, AttemptLemma, AttemptIsTrue
    <3> QED BY <1>2, <2>2, <3>1, MarksStep
  <2> QED BY <2>1, <2>2 DEF RunStep
<1> QED BY <1>3, <1>4, <1>5, <1>6

-----------------------------------------------------------------------------
(* Steps beside the workflows. *)

(* What they leave alone, and how far a dispatch activity goes. *)
LEMMA AsideSteady ==
    ASSUME RunsInv, UNCHANGED workflowVars, ClaimsStep,
           \A d \in Decisions : /\ mutations'[d] \in Nat /\ mutations'[d] >= mutations[d]
                                /\ effects[d] # NoEffect /\ "restart" \notin Events => effects'[d] = effects[d],
           \A s \in Runs : /\ disp'[s].at = "none" => disp[s].at = "none"
                           /\ disp'[s].at \in Active =>
                                 /\ disp[s].at \in Active \/ (disp[s].at = "none" /\ loc[s].pc = "dispatch")
                                 /\ \A d \in Decisions : effects[d] # NoEffect => effects'[d] = effects[d]
    PROVE  Steady
<1>1. IdsKept /\ loc' = loc
  BY DEF IdsKept, Own, workflowVars
<1>2. "dispatch" \in EarlyPcs
  BY DEF EarlyPcs
<1>3. \A s \in Runs : loc[s].pc # "new" => Dec(s) \in Decisions
  BY StartedLemma DEF RunsInv
<1> QED BY <1>1, <1>2, <1>3 DEF Steady

(* Together with the parts that differ. *)
LEMMA AsideTells ==
    ASSUME OutcomeInv, UNCHANGED workflowVars, Steady, RunsInv', late' \subseteq late, EffectsAreTrue', MarksAreTrue',
           \A s \in Runs : /\ \/ disp'[s].outcome = disp[s].outcome
                              \/ TellsNext(request'[s].decision, disp'[s].outcome)
                           /\ disp'[s].at = "none" => disp[s].at = "none" /\ disp'[s].outcome = disp[s].outcome
    PROVE  OutcomeInv'
<1> USE DEF OutcomeInv
<1>1. loc' = loc /\ past' = past
  BY DEF workflowVars
<1>2. RunsAreToldTrue'
  BY <1>1, ToldNext
<1>3. LateIsTrue'
  <2> SUFFICES ASSUME NEW op \in late PROVE WritesTrue(op)'
    BY DEF LateIsTrue
  <2>1. op.run \in Runs /\ loc[op.run].pc # "new" /\ WritesTrue(op)
    BY DEF RunsInv, FenceInv, TypeOK, LateAttempts, NewIsIdle, LateIsTrue
  <2> QED BY <2>1, WritesStay
<1> QED BY <1>2, <1>3

LEMMA LateTells ==
    ASSUME OutcomeInv, NEW op \in late, LateAttempt(op), RunsInv', ClaimsStep
    PROVE  OutcomeInv'
<1> USE DEF OutcomeInv
<1>0. FenceInv
  BY DEF RunsInv
<1>1. op \in LateAttempts /\ op.run \in Runs
  BY <1>0 DEF FenceInv, TypeOK, LateAttempts
<1>2. Attempted(op, op.run)
  BY <1>0, <1>1 DEF FenceInv, NewIsIdle, TokenDrawn, Attempted, Startable
<1>3. TakesEffect(op) /\ UNCHANGED <<workflowVars, disp, policy>> /\ late' = late \ {op}
  BY DEF LateAttempt
<1>4. mutations' = mutations /\ calls' = calls /\ \A d \in Decisions : Remembers(d)
  BY <1>0, <1>3, EffectRemembers
<1>5. \A d \in Decisions : /\ mutations[d] \in Nat
                           /\ effects[d] # NoEffect => effects'[d] = effects[d]
  BY <1>0, <1>4 DEF FenceInv, TypeOK, Remembers
<1>6. Steady
  <2>1. \A d \in Decisions : mutations'[d] \in Nat /\ mutations'[d] >= mutations[d]
    BY <1>4, <1>5
  <2> QED BY <1>3, <1>5, <2>1, AsideSteady
<1>7. EffectsAreTrue'
  BY <1>4, <1>6, EffectsStep
<1>8. WritesTrue(op)
  BY DEF LateIsTrue
<1>9. MarksAreTrue'
  BY <1>1, <1>2, <1>3, <1>6, <1>8, MarksStep
<1> QED BY <1>3, <1>6, <1>7, <1>9, AsideTells

(* The dispatch activity up to its call. *)
LEMMA UncalledTells ==
    ASSUME OutcomeInv, NEW r \in Runs,
           StartDispatch(r) \/ AcquireFence(r) \/ FenceWriteFails(r) \/ ReadFencedClaim(r),
           RunsInv', ClaimsStep
    PROVE  OutcomeInv' /\ mutations' = mutations
<1> USE DEF OutcomeInv
<1>0. FenceInv /\ DispatchTypes
  BY TypeParts DEF RunsInv, FenceInv
<1>1. /\ UNCHANGED <<workflowVars, late, adapterVars>>
      /\ claims' = claims \/ claims' = AdvanceWrite(Dec(r), Owner(r), "EXECUTING")
      /\ disp[r].at \in {"started", "not_held"} \/ (disp[r].at = "none" /\ loc[r].pc = "dispatch")
  BY DEF StartDispatch, AcquireFence, FenceWriteFails, ReadFencedClaim, storeVars, Awaits
<1>2. /\ \A s \in Runs \ {r} : disp'[s] = disp[s]
      /\ disp'[r].at # "none"
      /\ disp'[r].outcome = disp[r].outcome \/ disp'[r].outcome = UnknownOutcome
  <2>1. CASE StartDispatch(r) \/ AcquireFence(r)
    <3>1. PICK stage \in {"started", "fenced", "not_held"} : disp' = [disp EXCEPT ![r].at = stage]
      BY <2>1 DEF StartDispatch, AcquireFence, DispatchGoes
    <3> QED BY <1>0, <3>1 DEF DispatchTypes
  <2>2. CASE FenceWriteFails(r) \/ ReadFencedClaim(r)
    <3>1. PICK kind : disp' = [disp EXCEPT ![r] = [at |-> "done", kind |-> kind, outcome |-> UnknownOutcome]]
      BY <2>2 DEF FenceWriteFails, ReadFencedClaim, DispatchEnds
    <3> QED BY <1>0, <3>1 DEF DispatchTypes
  <2> QED BY <2>1, <2>2
<1>3. mutations' = mutations /\ effects' = effects /\ calls' = calls /\ compensations' = compensations
  BY <1>1 DEF adapterVars
<1>4. Steady
  <2>1. \A d \in Decisions : mutations'[d] \in Nat /\ mutations'[d] >= mutations[d]
    <3>1. \A d \in Decisions : mutations[d] \in Nat
      BY <1>0 DEF FenceInv, TypeOK
    <3> QED BY <1>3, <3>1
  <2>2. disp[r].at \in Active \/ (disp[r].at = "none" /\ loc[r].pc = "dispatch")
    BY <1>1 DEF Active
  <2> QED BY <1>1, <1>2, <1>3, <2>1, <2>2, AsideSteady
<1>5. EffectsAreTrue'
  BY <1>3, <1>4, EffectsStep DEF Remembers
<1>6. MarksAreTrue'
  <2>1. ASSUME NEW d \in Decisions
        PROVE  claims'[d] = claims[d] \/ claims'[d].state \notin {"COMPLETED", "FAILED"}
    <3>1. Dec(r) \in Decisions /\ ClaimsTypeOK
      BY <1>0, <1>1, StartedLemma
    <3>2. "EXECUTING" \in ClaimStates
      BY DEF ClaimStates
    <3>3. CASE claims' = AdvanceWrite(Dec(r), Owner(r), "EXECUTING")
      <4>1. claims'[d] = claims[d] \/ claims'[d] = [claims[d] EXCEPT !.state = "EXECUTING"]
        BY <3>1, <3>2, <3>3, AdvanceWriteLemma
      <4>2. claims[d] \in Claims
        BY <3>1 DEF ClaimsTypeOK
      <4> QED BY <4>1, <4>2 DEF Claims, NoClaim
    <3> QED BY <1>1, <3>3
  <2> QED BY <1>3, <1>4, <2>1, MarksKept
<1>7. \A d : TellsNext(d, UnknownOutcome)
  BY SaysNothing DEF TellsNext
<1>8. OutcomeInv'
  BY <1>1, <1>2, <1>4, <1>5, <1>6, <1>7, AsideTells
<1> QED BY <1>3, <1>8

(* The call: the first one of the decision, by the owner of its claim. *)
LEMMA CallIs ==
    ASSUME RunsInv, EffectsAreTrue, NEW r \in Runs, CallAdapter(r)
    PROVE  \E ended \in BOOLEAN, d \in Decisions :
              /\ d = Dec(r) /\ disp[r].at = "fenced" /\ claims[d].owner.run = r
              /\ calls[d] = 0 /\ mutations[d] = 0 /\ effects[d] \in {NoEffect, KeyFenced}
              /\ effects' = [effects EXCEPT ![d] = DispatchEffect(effects[d], Target(r), ended)]
              /\ mutations' = [mutations EXCEPT ![d] =
                                  mutations[d] + IF Applies(effects[d], Target(r), ended) THEN 1 ELSE 0]
              /\ calls' = [calls EXCEPT ![d] = calls[d] + 1]
              /\ disp' = [disp EXCEPT ![r] = [at |-> "done", kind |-> "OUTCOME",
                              outcome |-> Checked(DispatchReply(effects[d], Target(r), ended))]]
              /\ UNCHANGED <<workflowVars, late, policy, storeVars, compensations>>
<1>0. FenceInv
  BY DEF RunsInv
<1>1. PICK ended \in BOOLEAN :
          /\ disp[r].at = "fenced"
          /\ effects' = [effects EXCEPT ![Dec(r)] = DispatchEffect(effects[Dec(r)], Target(r), ended)]
          /\ mutations' = [mutations EXCEPT ![Dec(r)] =
                              mutations[Dec(r)] + IF Applies(effects[Dec(r)], Target(r), ended) THEN 1 ELSE 0]
          /\ calls' = [calls EXCEPT ![Dec(r)] = calls[Dec(r)] + 1]
          /\ disp' = [disp EXCEPT ![r] = [at |-> "done", kind |-> "OUTCOME",
                          outcome |-> Checked(DispatchReply(effects[Dec(r)], Target(r), ended))]]
          /\ UNCHANGED <<workflowVars, late, policy, storeVars, compensations>>
  BY DEF CallAdapter, DispatchEnds
<1>2. PICK d \in Decisions : d = Dec(r)
  BY <1>0, <1>1, StartedLemma
<1>3. claims[d].owner.run = r /\ calls[d] = 0
  BY <1>0, <1>1, <1>2 DEF FenceInv, FenceHeld
<1>4. mutations[d] = 0
  <2>1. mutations[d] \in Nat /\ mutations[d] <= calls[d]
    BY <1>0 DEF FenceInv, TypeOK, EffectsAreTrue
  <2> QED BY <1>3, <2>1
<1>5. effects[d] \in {NoEffect, KeyFenced}
  <2>1. effects[d] \in {NoEffect, KeyFenced, Applied, PartlyApplied} /\ Tells(d, effects[d])
    BY DEF EffectsAreTrue
  <2>2. ~(mutations[d] > 0)
    BY <1>4
  <2> QED BY <2>1, <2>2, SaysWhat DEF Tells
<1> QED BY <1>1, <1>2, <1>3, <1>4, <1>5

(* What the adapter then remembers and answers is what it did. *)
LEMMA CallSays ==
    ASSUME NEW e \in {NoEffect, KeyFenced}, NEW t, NEW ended \in BOOLEAN, NEW n, NEW f, NEW o,
           n = IF Applies(e, t, ended) THEN 1 ELSE 0,
           f = DispatchEffect(e, t, ended), o = DispatchReply(e, t, ended)
    PROVE  /\ f \in {NoEffect, KeyFenced, Applied, PartlyApplied}
           /\ Says(f, n, t, f) /\ Says(o, n, t, f) /\ o \in Outcomes \cup {NoEffect}
           /\ n > 0 => f \in {Applied, PartlyApplied}
           /\ e # NoEffect => f = e /\ n = 0
<1>1. EffectAt(t) \in {NoEffect, Applied, PartlyApplied}
  BY DEF EffectAt
<1>2. o = UnknownOutcome \/ o = f
  BY DEF DispatchReply
<1>3. CASE e # NoEffect
  <2>1. f = KeyFenced /\ n = 0
    BY <1>3 DEF DispatchEffect, Applies
  <2>2. Says(f, n, t, f) /\ Says(o, n, t, f)
    BY <1>2, <2>1, OutcomesDiffer, SaysWhat, SaysNothing
  <2> QED BY <1>2, <1>3, <2>1, <2>2, OutcomesAre
<1>4. CASE e = NoEffect /\ ended
  <2>1. f = KeyFenced /\ n = 0
    BY <1>4 DEF DispatchEffect, Applies
  <2>2. Says(f, n, t, f) /\ Says(o, n, t, f)
    BY <1>2, <2>1, OutcomesDiffer, SaysWhat, SaysNothing
  <2>3. o \in Outcomes /\ ~(n > 0)
    BY <1>2, <2>1, OutcomesAre
  <2> QED BY <1>4, <2>1, <2>2, <2>3
<1>5. CASE e = NoEffect /\ ~ended
  <2>1. f = EffectAt(t) /\ n = IF EffectAt(t) # NoEffect THEN 1 ELSE 0
    BY <1>5 DEF DispatchEffect, Applies
  <2>2. Says(f, n, t, f)
    <3>1. CASE EffectAt(t) = NoEffect
      BY <2>1, <3>1, SaysNothing
    <3>2. CASE EffectAt(t) # NoEffect
      <4>1. n > 0 /\ f \in {Applied, PartlyApplied} /\ EffectAt(t) = f
        BY <1>1, <2>1, <3>2
      <4>2. CASE f = Applied
        BY <4>1, <4>2, SaysWhat
      <4>3. CASE f = PartlyApplied
        <5>1. Says(PartlyApplied, n, t, f)
          BY <4>1, <4>3, OutcomesDiffer, SaysWhat
        <5> QED BY <4>3, <5>1
      <4> QED BY <4>1, <4>2, <4>3
    <3> QED BY <3>1, <3>2
  <2>3. Says(o, n, t, f)
    BY <1>2, <2>2, SaysNothing
  <2> QED BY <1>1, <1>2, <1>5, <2>1, <2>2, <2>3, OutcomesAre
<1> QED BY <1>3, <1>4, <1>5

LEMMA CallTells ==
    ASSUME OutcomeInv, NEW r \in Runs, CallAdapter(r), RunsInv', ClaimsStep
    PROVE  OutcomeInv'
<1> USE DEF OutcomeInv
<1>0. FenceInv /\ StoreTypes /\ DispatchTypes
  BY TypeParts DEF RunsInv, FenceInv
<1>1. PICK ended \in BOOLEAN, d \in Decisions :
          /\ d = Dec(r) /\ disp[r].at = "fenced" /\ claims[d].owner.run = r
          /\ calls[d] = 0 /\ mutations[d] = 0 /\ effects[d] \in {NoEffect, KeyFenced}
          /\ effects' = [effects EXCEPT ![d] = DispatchEffect(effects[d], Target(r), ended)]
          /\ mutations' = [mutations EXCEPT ![d] =
                              mutations[d] + IF Applies(effects[d], Target(r), ended) THEN 1 ELSE 0]
          /\ calls' = [calls EXCEPT ![d] = calls[d] + 1]
          /\ disp' = [disp EXCEPT ![r] = [at |-> "done", kind |-> "OUTCOME",
                          outcome |-> Checked(DispatchReply(effects[d], Target(r), ended))]]
          /\ UNCHANGED <<workflowVars, late, policy, storeVars, compensations>>
  BY CallIs
<1>2. PICK n, f, o : /\ n = IF Applies(effects[d], Target(r), ended) THEN 1 ELSE 0
                     /\ f = DispatchEffect(effects[d], Target(r), ended)
                     /\ o = DispatchReply(effects[d], Target(r), ended)
  OBVIOUS
<1>3. /\ f \in {NoEffect, KeyFenced, Applied, PartlyApplied}
      /\ Says(f, n, Target(r), f) /\ Says(o, n, Target(r), f) /\ o \in Outcomes \cup {NoEffect}
      /\ n > 0 => f \in {Applied, PartlyApplied}
      /\ effects[d] # NoEffect => f = effects[d] /\ n = 0
  BY <1>1, <1>2, CallSays
<1>4. /\ effects'[d] = f /\ mutations'[d] = n /\ calls'[d] = 1
      /\ \A c \in Decisions \ {d} : effects'[c] = effects[c] /\ mutations'[c] = mutations[c] /\ calls'[c] = calls[c]
      /\ n \in {0, 1}
  BY <1>0, <1>1, <1>2 DEF StoreTypes
<1>5. /\ \A s \in Runs \ {r} : disp'[s] = disp[s]
      /\ disp'[r].at = "done" /\ disp'[r].outcome = Checked(o)
  BY <1>0, <1>1, <1>2 DEF DispatchTypes
<1>6. claims' = claims /\ compensations' = compensations /\ request' = request
  BY <1>1 DEF storeVars, workflowVars
<1>7. \A c \in Decisions : effects[c] # NoEffect => effects'[c] = effects[c]
  BY <1>3, <1>4
<1>8. Steady
  <2>1. ASSUME NEW c \in Decisions PROVE mutations'[c] \in Nat /\ mutations'[c] >= mutations[c]
    <3>1. mutations[c] \in Nat
      BY <1>0 DEF StoreTypes
    <3> QED BY <1>1, <1>4, <3>1
  <2>2. "done" \notin Active /\ \A s \in Runs \ {r} : disp'[s] = disp[s]
    BY <1>5 DEF Active
  <2> QED BY <1>1, <1>5, <1>7, <2>1, <2>2, AsideSteady
<1>9. \A e : Says(e, n, Target(r), f) => TellsNext(d, e)
  BY <1>1, <1>4, <1>6 DEF TellsNext, Target
<1>10. EffectsAreTrue'
  <2> SUFFICES ASSUME NEW c \in Decisions
               PROVE  /\ mutations'[c] <= calls'[c]
                      /\ effects'[c] \in {NoEffect, KeyFenced, Applied, PartlyApplied}
                      /\ TellsNext(c, effects'[c])
                      /\ mutations'[c] > 0 /\ "restart" \notin Events => effects'[c] \in {Applied, PartlyApplied}
    BY DEF EffectsAreTrue, Tells, TellsNext, OwnerTarget, Target
  <2>1. CASE c = d
    BY <1>3, <1>4, <1>9, <2>1
  <2>2. CASE c # d
    <3>1. /\ mutations[c] <= calls[c]
          /\ effects[c] \in {NoEffect, KeyFenced, Applied, PartlyApplied}
          /\ Tells(c, effects[c])
          /\ mutations[c] > 0 /\ "restart" \notin Events => effects[c] \in {Applied, PartlyApplied}
      BY DEF EffectsAreTrue
    <3>2. TellsNext(c, effects[c])
      BY <1>8, <3>1, TellsStays
    <3> QED BY <1>4, <2>2, <3>1, <3>2
  <2> QED BY <2>1, <2>2
<1>11. MarksAreTrue'
  BY <1>6, <1>8, MarksKept
<1>12. TellsNext(request'[r].decision, disp'[r].outcome)
  <2>1. Says(Checked(o), n, Target(r), f)
    BY <1>3, CheckedSays
  <2>2. request'[r].decision = d
    BY <1>1, <1>6 DEF Dec
  <2> QED BY <1>5, <1>9, <2>1, <2>2
<1>13. late' \subseteq late /\ UNCHANGED workflowVars
  BY <1>1
<1> QED BY <1>5, <1>8, <1>10, <1>11, <1>12, <1>13, AsideTells

(* The worker's death, and what touches neither runs nor adapter. *)
LEMMA WorkerTells ==
    ASSUME OutcomeInv, WorkerRestart \/ ReloadPolicy \/ UNCHANGED vars, RunsInv', ClaimsStep
    PROVE  OutcomeInv' /\ mutations' = mutations
<1> USE DEF OutcomeInv
<1>0. FenceInv /\ DispatchTypes
  BY TypeParts DEF RunsInv, FenceInv
<1>1. \A d \in Decisions : mutations[d] \in Nat
  BY <1>0 DEF FenceInv, TypeOK
<1>2. CASE WorkerRestart
  <2>1. /\ UNCHANGED <<workflowVars, policy, storeVars, calls, mutations, compensations>> /\ late' = {}
        /\ disp' = [r \in Runs |-> IF disp[r].at = "none" THEN disp[r] ELSE [disp[r] EXCEPT !.at = "lost"]]
        /\ effects' = [d \in Decisions |-> NoEffect] /\ "restart" \in Events
    BY <1>2 DEF WorkerRestart
  <2>2. ASSUME NEW s \in Runs
        PROVE  /\ disp'[s].outcome = disp[s].outcome /\ disp'[s].at \notin Active
               /\ disp'[s].at = "none" => disp[s].at = "none"
    <3>1. disp[s] \in [at : DispatchStages, kind : ResultKinds, outcome : Outcomes]
      BY <1>0 DEF DispatchTypes
    <3> QED BY <2>1, <3>1 DEF Active
  <2>3. Steady
    <3>1. \A d \in Decisions : mutations'[d] \in Nat /\ mutations'[d] >= mutations[d]
      BY <1>1, <2>1
    <3> QED BY <2>1, <2>2, <3>1, AsideSteady
  <2>4. EffectsAreTrue'
    <3> SUFFICES ASSUME NEW d \in Decisions
                 PROVE  mutations'[d] <= calls'[d] /\ effects'[d] = NoEffect /\ TellsNext(d, NoEffect)
      BY <2>1 DEF EffectsAreTrue, Tells, TellsNext, OwnerTarget, Target
    <3>1. mutations[d] <= calls[d]
      BY DEF EffectsAreTrue
    <3> QED BY <2>1, <3>1, SaysNothing DEF TellsNext
  <2>5. MarksAreTrue'
    BY <2>1, <2>3, MarksKept DEF storeVars
  <2> QED BY <2>1, <2>2, <2>3, <2>4, <2>5, AsideTells
<1>3. CASE ReloadPolicy \/ UNCHANGED vars
  <2>1. UNCHANGED <<workflowVars, disp, late, storeVars, adapterVars>>
    BY <1>3 DEF ReloadPolicy, vars
  <2>2. mutations' = mutations /\ effects' = effects /\ calls' = calls /\ compensations' = compensations /\ claims' = claims
    BY <2>1 DEF adapterVars, storeVars
  <2>3. Steady
    <3>1. \A d \in Decisions : mutations'[d] \in Nat /\ mutations'[d] >= mutations[d]
      BY <1>1, <2>2
    <3> QED BY <2>1, <2>2, <3>1, AsideSteady
  <2>4. EffectsAreTrue'
    BY <2>2, <2>3, EffectsStep DEF Remembers
  <2>5. MarksAreTrue'
    BY <2>2, <2>3, MarksKept
  <2> QED BY <2>1, <2>2, <2>3, <2>4, <2>5, AsideTells
<1> QED BY <1>2, <1>3

-----------------------------------------------------------------------------
(* A run that begins, fresh or with what another run was told. *)

Inherits(s, k) ==
    \/ k.pc = "verify" /\ k.outcome = UnknownOutcome
    \/ \E r \in Runs : \E l \in past[r] :
          k.outcome = l.outcome /\ k.pc = l.pc /\ request'[s].decision = request'[r].decision

LEMMA BeginsTells ==
    ASSUME OutcomeInv, NEW s \in Runs, NEW k, Begins(s, k), Inherits(s, k), UNCHANGED adapterVars,
           \A u \in Runs \ {s} : loc'[u] = loc[u] \/ (loc'[u].pc = "closed" /\ loc'[u].outcome = UnknownOutcome),
           RunsInv', ClaimsStep
    PROVE  OutcomeInv'
<1> USE DEF OutcomeInv
<1>0. FenceInv
  BY DEF RunsInv
<1>1. IdsKept
  BY DEF IdsKept, Begins, Closes, Own
<1>2. mutations' = mutations /\ effects' = effects /\ calls' = calls /\ compensations' = compensations
  BY DEF adapterVars
<1>3. loc[s].pc = "new" /\ k.pc # "new" /\ loc'[s] = k /\ disp' = disp /\ claims' = claims
  BY DEF Begins
<1>4. Steady
  <2>1. \A d \in Decisions : mutations'[d] \in Nat /\ mutations'[d] >= mutations[d]
    <3>1. \A d \in Decisions : mutations[d] \in Nat
      BY <1>0 DEF FenceInv, TypeOK
    <3> QED BY <1>2, <3>1
  <2>2. "closed" \notin EarlyPcs
    BY DEF EarlyPcs
  <2>3. \A u \in Runs : loc[u].pc # "new" => (loc'[u].pc \in EarlyPcs => loc[u].pc \in EarlyPcs)
    BY <1>3, <2>2
  <2> QED BY <1>1, <1>2, <1>3, <2>1, <2>3 DEF Steady
<1>5. EffectsAreTrue'
  BY <1>2, <1>4, EffectsStep DEF Remembers
<1>6. MarksAreTrue'
  BY <1>2, <1>3, <1>4, MarksKept
<1>7. \A d : TellsNext(d, UnknownOutcome)
  BY SaysNothing DEF TellsNext
<1>8. PointTrue(s, k)
  <2>1. CASE k.pc = "verify" /\ k.outcome = UnknownOutcome
    BY <1>7, <2>1 DEF PointTrue, MarksAgree
  <2>2. ASSUME NEW r \in Runs, NEW l \in past[r], k.outcome = l.outcome, k.pc = l.pc,
               request'[s].decision = request'[r].decision
        PROVE  PointTrue(s, k)
    <3>1. PointTrue(r, l)
      BY <1>4, ToldStays
    <3> QED BY <2>2, <3>1 DEF PointTrue, MarksAgree
  <2> QED BY <2>1, <2>2 DEF Inherits
<1>9. k.outcome.status = "FAILURE" => Settled(s)'
  <2>1. disp'[s].at = "none"
    BY <1>3 DEF RunsInv, StartsFresh
  <2>2. k.outcome.status = "FAILURE" => k.pc \notin EarlyPcs \cup {"new"}
    BY <1>8, OutcomesDiffer DEF PointTrue
  <2> QED BY <1>3, <2>1, <2>2 DEF Settled
<1>10. RunsAreToldTrue'
  <2>1. ASSUME NEW u \in Runs, NEW l \in past'[u] \cup {loc'[u]}
        PROVE  l \in past[u] \cup {loc[u]} \/ PointTrue(u, l)
    <3>1. CASE u = s
      BY <1>8, <3>1 DEF Begins
    <3>2. CASE u # s /\ l \notin past[u] \cup {loc[u]}
      <4>1. l.pc = "closed" /\ l.outcome = UnknownOutcome
        BY <3>2 DEF Begins
      <4> QED BY <1>7, <4>1 DEF PointTrue, MarksAgree
    <3> QED BY <3>1, <3>2
  <2>2. ASSUME NEW u \in Runs, loc'[u].outcome.status = "FAILURE"
        PROVE  loc'[u].outcome = loc[u].outcome \/ Settled(u)'
    BY <1>3, <1>9, <2>2, OutcomesDiffer
  <2> QED BY <1>3, <1>4, <2>1, <2>2, ToldNext
<1>11. LateIsTrue'
  <2> SUFFICES ASSUME NEW op \in late' PROVE WritesTrue(op)'
    BY DEF LateIsTrue
  <2>1. CASE op \in late
    <3>1. op.run \in Runs /\ loc[op.run].pc # "new" /\ WritesTrue(op)
      BY <1>0, <2>1 DEF FenceInv, TypeOK, LateAttempts, NewIsIdle, LateIsTrue
    <3> QED BY <1>4, <3>1, WritesStay
  <2>2. ASSUME NEW u \in Runs, op = Attempt(u), op.run = u, Closes(u), loc[u].pc \in ActivityPcs
        PROVE  WritesTrue(op)'
    <3>1. loc[u].pc # "new" /\ WritesTrue(op)
      BY <2>2, AttemptIsTrue DEF Closes
    <3> QED BY <1>4, <2>2, <3>1, WritesStay
  <2> QED BY <1>0, <2>1, <2>2, BeginsLate
<1> QED BY <1>5, <1>6, <1>10, <1>11

LEMMA StartTells ==
    ASSUME OutcomeInv, NEW r \in Runs, NEW w, NEW q, StartWorkflow(r, w, q), RunsInv', ClaimsStep
    PROVE  OutcomeInv' /\ mutations' = mutations
<1>0. loc \in [Runs -> Locs]
  BY DEF OutcomeInv, RunsInv, FenceInv, TypeOK
<1>1. /\ loc[r].pc = "new" /\ loc' = [loc EXCEPT ![r].pc = "verify"] /\ UNCHANGED adapterVars
  BY DEF StartWorkflow
<1>2. loc[r].outcome = UnknownOutcome
  BY <1>1 DEF OutcomeInv, RunsAreToldTrue, ToldTrue
<1>3. PICK k : k = loc'[r]
  OBVIOUS
<1>4. k.pc = "verify" /\ k.outcome = UnknownOutcome
  BY <1>0, <1>1, <1>2, <1>3 DEF Locs
<1>5. \A u \in Runs \ {r} : loc'[u] = loc[u]
  BY <1>0, <1>1
<1>6. Begins(r, k)
  BY <1>3, StartBegins DEF OutcomeInv
<1>7. Inherits(r, k)
  BY <1>4 DEF Inherits
<1>8. OutcomeInv'
  BY <1>1, <1>5, <1>6, <1>7, BeginsTells
<1> QED BY <1>1, <1>8 DEF adapterVars

LEMMA ResetTells ==
    ASSUME OutcomeInv, NEW r \in Runs, NEW s \in Runs, NEW l \in past[r], Reset(r, s, l), RunsInv', ClaimsStep
    PROVE  OutcomeInv' /\ mutations' = mutations
<1>0. /\ loc \in [Runs -> Locs] /\ past \in [Runs -> SUBSET Locs] /\ DOMAIN request = Runs /\ l \in Locs
  BY DEF OutcomeInv, RunsInv, FenceInv, TypeOK
<1>1. PICK k : k = IF l.pc = "claim" THEN [l EXCEPT !.token = s] ELSE l
  OBVIOUS
<1>2. /\ loc[r].pc # "new" /\ loc[s].pc = "new" /\ r # s
      /\ loc' = [loc EXCEPT ![r] = IF Open(r) THEN Exit(loc[r], "TERMINATED") ELSE loc[r], ![s] = k]
      /\ request' = [request EXCEPT ![s] = request[r]]
      /\ UNCHANGED adapterVars
  BY <1>0, <1>1 DEF Reset
<1>3. /\ loc'[s] = k /\ request'[s] = request[r] /\ request'[r] = request[r]
      /\ \A u \in Runs \ {s} : loc'[u] = loc[u] \/ loc'[u] = Exit(loc[u], "TERMINATED")
  BY <1>0, <1>2
<1>4. k.pc = l.pc /\ k.outcome = l.outcome
  BY <1>0, <1>1 DEF Locs
<1>5. Inherits(s, k)
  BY <1>3, <1>4 DEF Inherits
<1>6. \A u \in Runs \ {s} : loc'[u] = loc[u] \/ (loc'[u].pc = "closed" /\ loc'[u].outcome = UnknownOutcome)
  BY <1>3, ExitFlow
<1>7. Begins(s, k)
  BY <1>3, ResetBegins DEF OutcomeInv
<1>8. OutcomeInv'
  BY <1>2, <1>5, <1>6, <1>7, BeginsTells
<1> QED BY <1>2, <1>8 DEF adapterVars

-----------------------------------------------------------------------------
LEMMA OutcomeInit == Init => OutcomeInv
<1> SUFFICES ASSUME Init PROVE OutcomeInv
  OBVIOUS
<1>1. /\ \A r \in Runs : loc[r] = NewLoc /\ past[r] = {} /\ disp[r] = NoDispatch
      /\ late = {}
      /\ \A d \in Decisions : /\ claims[d] = NoClaim /\ calls[d] = 0 /\ mutations[d] = 0
                              /\ compensations[d] = 0 /\ effects[d] = NoEffect
  BY DEF Init, StoreInit
<1>2. /\ NewLoc.pc = "new" /\ NewLoc.outcome = UnknownOutcome
      /\ NoDispatch.at = "none" /\ NoDispatch.outcome = UnknownOutcome /\ NoClaim.state = "NONE"
  BY DEF NewLoc, NoDispatch, NoClaim
<1>3. \A d : Tells(d, UnknownOutcome) /\ Tells(d, NoEffect)
  BY SaysNothing DEF Tells
<1>4. EffectsAreTrue
  BY <1>1, <1>3 DEF EffectsAreTrue
<1>5. RunsAreToldTrue
  BY <1>1, <1>2, <1>3, OutcomesDiffer DEF RunsAreToldTrue, ToldTrue, MarksAgree
<1>6. LateIsTrue
  BY <1>1 DEF LateIsTrue
<1>7. MarksAreTrue
  BY <1>1, <1>2 DEF MarksAreTrue
<1> QED BY <1>4, <1>5, <1>6, <1>7, RunsInit DEF OutcomeInv

(* Every step keeps the invariant, and only a call changes a target.        *)
LEMMA OutcomeStep ==
    ASSUME OutcomeInv, [Next]_vars
    PROVE  OutcomeInv' /\ (mutations' = mutations \/ \E r \in Runs : CallAdapter(r))
<1>0. RunsInv /\ FenceInv /\ RunsInv' /\ ClaimsStep
  BY RunsStep DEF OutcomeInv, RunsInv
<1>1. ASSUME NEW r \in Runs, NEW m, Leads(r, m), RunStep(r, m) PROVE OutcomeInv' /\ mutations' = mutations
  BY <1>0, <1>1, RunStepTells, RunStepSteady
<1>2. ASSUME NEW r \in Runs, WorkflowStep(r) PROVE OutcomeInv' /\ mutations' = mutations
  BY <1>0, <1>1, <1>2, WorkflowRunStep
<1>3. ASSUME NEW r \in Runs, AttemptFails(r) \/ AttemptTimesOut(r) \/ RoundLasts(r) \/ Cancel(r) \/ Terminate(r)
      PROVE  OutcomeInv' /\ mutations' = mutations
  BY <1>0, <1>1, <1>3, DisturbanceRunStep
<1>4. ASSUME NEW r \in Runs, DispatchStep(r)
      PROVE  OutcomeInv' /\ (mutations' = mutations \/ CallAdapter(r))
  BY <1>0, <1>4, UncalledTells, CallTells DEF DispatchStep
<1>5. ASSUME NEW r \in Runs, Disturbance(r) PROVE OutcomeInv' /\ mutations' = mutations
  <2>1. CASE FenceWriteFails(r)
    BY <1>0, <2>1, UncalledTells
  <2>2. ASSUME NEW s \in Runs, NEW l \in past[r], Reset(r, s, l) PROVE OutcomeInv' /\ mutations' = mutations
    BY <1>0, <2>2, ResetTells
  <2> QED BY <1>3, <1>5, <2>1, <2>2 DEF Disturbance
<1>6. ASSUME NEW r \in Runs, NEW w \in Workflows, NEW q \in Requests, StartWorkflow(r, w, q)
      PROVE  OutcomeInv' /\ mutations' = mutations
  BY <1>0, <1>6, StartTells
<1>7. ASSUME NEW op \in late, LateAttempt(op) PROVE OutcomeInv' /\ mutations' = mutations
  <2>1. mutations' = mutations
    BY <1>7 DEF LateAttempt, TakesEffect
  <2> QED BY <1>0, <1>7, <2>1, LateTells
<1>8. WorkerRestart \/ ReloadPolicy \/ UNCHANGED vars => OutcomeInv' /\ mutations' = mutations
  BY <1>0, WorkerTells
<1> QED BY <1>2, <1>4, <1>5, <1>6, <1>7, <1>8 DEF Next

(* The invariant of the outcomes holds throughout: what the saga was told   *)
(* about a change, may still write about it or wrote about it is true.      *)
THEOREM OutcomesAreTrue == Spec => []OutcomeInv
<1>1. OutcomeInv /\ [Next]_vars => OutcomeInv'
  BY OutcomeStep
<1> QED BY <1>1, OutcomeInit, PTL DEF Spec

(* COMPLETED stands for a change the target took in full and that nobody    *)
(* compensated, whatever fails, restarts or is reset.                       *)
THEOREM CompletedIsReal == Spec => []CompletedIsTrue
<1>1. OutcomeInv => CompletedIsTrue
  <2> SUFFICES ASSUME OutcomeInv, NEW d \in Decisions, claims[d].state = "COMPLETED"
               PROVE  AppliedInFull(d) /\ compensations[d] = 0
    BY DEF CompletedIsTrue
  <2>1. mutations[d] > 0 /\ EffectAt(OwnerTarget(d)) = Applied
    BY SaysWhat DEF OutcomeInv, MarksAreTrue, Tells
  <2>2. compensations[d] > 0 => EffectAt(OwnerTarget(d)) = PartlyApplied
    BY SaysWhat DEF OutcomeInv, MarksAreTrue, Tells
  <2>3. Applied # PartlyApplied
    BY OutcomesDiffer
  <2>4. compensations[d] \in Nat
    BY DEF OutcomeInv, RunsInv, FenceInv, TypeOK
  <2>5. compensations[d] = 0
    BY <2>1, <2>2, <2>3, <2>4
  <2> QED BY <2>1, <2>5 DEF AppliedInFull, OwnerTarget
<1> QED BY <1>1, OutcomesAreTrue, PTL

(* Only a change that the target took once and in part is compensated.      *)
THEOREM OnlyPartialIsCompensated == Spec => []CompensatesPartialOnly
<1>1. OutcomeInv => CompensatesPartialOnly
  <2> SUFFICES ASSUME OutcomeInv, NEW d \in Decisions, compensations[d] > 0
               PROVE  mutations[d] = 1 /\ EffectAt(OwnerTarget(d)) = PartlyApplied
    BY DEF CompensatesPartialOnly, OwnerTarget
  <2>1. mutations[d] > 0 /\ EffectAt(OwnerTarget(d)) = PartlyApplied
    BY SaysWhat DEF OutcomeInv, MarksAreTrue, Tells
  <2>2. mutations[d] \in Nat /\ calls[d] \in Nat /\ mutations[d] <= calls[d] /\ (calls[d] > 0 => calls[d] = 1)
    BY DEF OutcomeInv, EffectsAreTrue, RunsInv, FenceInv, TypeOK, CallsAreFenced
  <2> QED BY <2>1, <2>2
<1> QED BY <1>1, OutcomesAreTrue, PTL

(* As long as the adapter's process lives, FAILED stands for a change the   *)
(* target did not take in full. A restarted adapter has forgotten the key,  *)
(* so the statement is about the behaviours without one.                    *)
THEOREM FailedIsReal ==
    ASSUME "restart" \notin Events
    PROVE  Spec => []FailedIsTrue
<1>1. OutcomeInv => FailedIsTrue
  <2> SUFFICES ASSUME OutcomeInv, NEW d \in Decisions, claims[d].state = "FAILED", AppliedInFull(d)
               PROVE  FALSE
    BY DEF FailedIsTrue
  <2>1. effects[d].status = "FAILURE"
    BY SaysWhat DEF OutcomeInv, MarksAreTrue, Tells
  <2>2. mutations[d] > 0 /\ EffectAt(OwnerTarget(d)) = Applied
    BY DEF AppliedInFull, OwnerTarget
  <2>3. effects[d] \in {Applied, PartlyApplied} /\ Tells(d, effects[d])
    BY <2>2 DEF OutcomeInv, EffectsAreTrue
  <2>4. effects[d] = PartlyApplied
    BY <2>1, <2>3, OutcomesDiffer
  <2>5. EffectAt(OwnerTarget(d)) = PartlyApplied
    BY <2>3, <2>4, SaysWhat DEF Tells
  <2> QED BY <2>2, <2>5, OutcomesDiffer
<1> QED BY <1>1, OutcomesAreTrue, PTL

(* After COMPLETED or FAILED the target does not change any more, not even  *)
(* by a dispatch activity that is still on its way.                         *)
THEOREM ConfirmedSettles == Spec => ConfirmedIsSettled
<1>1. ASSUME OutcomeInv, [Next]_vars, NEW d \in Decisions, claims[d].state \in {"COMPLETED", "FAILED"}
      PROVE  mutations'[d] = mutations[d]
  <2>1. CASE mutations' = mutations
    BY <2>1
  <2>2. ASSUME NEW r \in Runs, CallAdapter(r) PROVE mutations'[d] = mutations[d]
    <3>1. PICK ended \in BOOLEAN, c \in Decisions :
              /\ c = Dec(r) /\ disp[r].at = "fenced" /\ claims[c].owner.run = r
              /\ mutations[c] = 0
              /\ mutations' = [mutations EXCEPT ![c] =
                                  mutations[c] + IF Applies(effects[c], Target(r), ended) THEN 1 ELSE 0]
      BY <1>1, <2>2, CallIs DEF OutcomeInv
    <3>2. mutations \in [Decisions -> Nat]
      BY <1>1 DEF OutcomeInv, RunsInv, FenceInv, TypeOK
    <3>3. CASE c # d
      BY <3>1, <3>2, <3>3
    <3>4. CASE c = d
      <4>1. claims[d].state # "COMPLETED"
        <5>1. claims[d].state = "COMPLETED" => mutations[d] > 0
          BY <1>1, SaysWhat DEF OutcomeInv, MarksAreTrue, Tells
        <5> QED BY <3>1, <3>4, <5>1
      <4>2. Settled(r)
        BY <1>1, <3>1, <3>4, <4>1 DEF OutcomeInv, MarksAreTrue
      <4>3. effects[d] # NoEffect
        BY <3>1, <3>4, <4>2 DEF Settled
      <4>4. ~Applies(effects[c], Target(r), ended)
        BY <3>4, <4>3 DEF Applies
      <4> QED BY <3>1, <3>2, <3>4, <4>4
    <3> QED BY <3>3, <3>4
  <2> QED BY <1>1, <2>1, <2>2, OutcomeStep
<1>2. OutcomeInv /\ [Next]_vars =>
          [\A d \in Decisions : claims[d].state \in {"COMPLETED", "FAILED"} => mutations'[d] = mutations[d]]_vars
  BY <1>1
<1> QED BY <1>2, OutcomesAreTrue, PTL DEF Spec, ConfirmedIsSettled
=============================================================================
