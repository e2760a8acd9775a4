------------------------------ MODULE MCIngress ------------------------------
(***************************************************************************)
(* Ingress on a small instance.                                            *)
(***************************************************************************)
EXTENDS Ingress

Entry(id, key) == [id |-> id, key |-> key]

(* One good configuration, and some that must be refused. *)
MCKeySpecs ==
    {<<Entry("a1", "k1"), Entry("a2", "k2")>>, <<Entry("a1", "k1"), Entry("a2", "k1")>>,
     <<Entry("a1", "k1"), Entry("a1", "k2")>>, <<Entry("a1", "short")>>, << >>}

Proposal(id, payload) == [id |-> id, type |-> "c1", target |-> "t1", payload |-> payload]

(* Two proposals under one ID, and bodies that are refused. *)
MCBodies ==
    {Proposal("p1", "x"), Proposal("p1", "y"), Proposal("p 1", "x"), Garbage, Oversized}

SameBody == {Proposal("p1", "x")}

(* a2 has a key but is not declared. *)
Allowing(mode, parallel) ==
    [digest |-> mode, maxParallel |-> parallel, commands |-> {"c1"},
     agents |-> [a \in {"a1"} |-> {"c1"}],
     targets |-> [t \in {"t1"} |-> [environment |-> "e1", protected |-> FALSE]],
     environments |-> [e \in {"e1"} |-> mode]]

MCPolicies == {Allowing("allow", 1), Allowing("require_approval", 2)}
=============================================================================
