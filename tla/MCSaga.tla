-------------------------------- MODULE MCSaga --------------------------------
(***************************************************************************)
(* Saga on small instances: one decision per simulated target, of which    *)
(* one is in play at a time, and up to two runs.                           *)
(***************************************************************************)
EXTENDS Saga, TLC

CONSTANTS Targets, ForgedRequests

Proposal(t) == [id |-> "p1", type |-> "c1", target |-> t, payload |-> "x"]

(* A decision is named after its target. *)
Request(t) == [agent |-> "a1", proposal |-> Proposal(t), decision |-> t,
               hash |-> RequestHash(Proposal(t))]

(* A direct start with another payload under a recorded decision. *)
Altered(t) == [Request(t) EXCEPT !.proposal.payload = "y",
                                 !.hash = RequestHash([Proposal(t) EXCEPT !.payload = "y"])]

MCRequests ==
    {Request(t) : t \in Targets} \cup IF ForgedRequests THEN {Altered(t) : t \in Targets} ELSE {}

MCIngressRecord ==
    [t \in Targets |-> [stage |-> "INGRESS", verdict |-> "ALLOW", agent |-> "a1",
                        hash |-> RequestHash(Proposal(t)), proposal |-> "p1", workflow |-> "w1"]]

Snapshot(digest, mode) ==
    [digest |-> digest, commands |-> {"c1"}, agents |-> [a \in {"a1"} |-> {"c1"}],
     targets |-> [t \in Targets |-> [environment |-> "e1", protected |-> FALSE]],
     environments |-> [e \in {"e1"} |-> mode]]

MCPolicies == {Snapshot("s1", "allow")} \cup
              IF "reload" \in Events THEN {Snapshot("s2", "deny")} ELSE {}

(* All runs in a behaviour are about one decision. *)
OneDecision == \A r, s \in Runs : request[r] # NoRequest /\ request[s] # NoRequest => Dec(r) = Dec(s)

RunSymmetry == Permutations(Runs)
=============================================================================
