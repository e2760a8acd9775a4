--------------------------- MODULE SimulatedAdapter ---------------------------
(***************************************************************************)
(* workflows/simulated.go: the only Adapter. Each operation holds the      *)
(* mutex from its first look at the key to its last write, so each is one  *)
(* step: a function from what the adapter remembers of the key and the     *)
(* target to what it then remembers and what it answers.                   *)
(***************************************************************************)
EXTENDS Contracts

(* The key is absent from the effects map. *)
NoEffect == [status |-> "", partial |-> FALSE]

Applied == [status |-> "SUCCESS", partial |-> FALSE]
PartlyApplied == [status |-> "FAILURE", partial |-> TRUE]
KeyFenced == [status |-> "FAILURE", partial |-> FALSE]

(* What a dispatch that reaches the target with a fresh key leaves behind. *)
EffectAt(target) ==
    CASE target = "FAILING_NODE"                             -> PartlyApplied
      [] target \in {"UNREACHABLE_NODE", "PARTITIONED_NODE"} -> NoEffect
      [] OTHER                                               -> Applied

(* Wrong variant: the key is not looked up before applying. *)
AppliesAgain(effect, target, ended) == ~ended /\ EffectAt(target) # NoEffect

(* ended: ctx.Err() # nil when the adapter looks. *)
Applies(effect, target, ended) ==
    effect = NoEffect /\ ~ended /\ EffectAt(target) # NoEffect

DispatchEffect(effect, target, ended) ==
    IF effect # NoEffect THEN effect ELSE IF ended THEN KeyFenced ELSE EffectAt(target)

DispatchReply(effect, target, ended) ==
    IF effect = NoEffect /\ ~ended
       /\ target \in {"LOST_RESPONSE_NODE", "UNREACHABLE_NODE", "PARTITIONED_NODE"}
    THEN UnknownOutcome
    ELSE DispatchEffect(effect, target, ended)

(* An unseen key is fenced, unless the target cannot be asked. *)
ReconcileEffect(effect, target) ==
    IF effect = NoEffect /\ target # "PARTITIONED_NODE" THEN KeyFenced ELSE effect

ReconcileReply(effect, target) ==
    IF effect = NoEffect /\ target = "PARTITIONED_NODE" THEN UnknownOutcome
    ELSE ReconcileEffect(effect, target)
=============================================================================
