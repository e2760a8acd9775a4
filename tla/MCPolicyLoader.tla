---------------------------- MODULE MCPolicyLoader ----------------------------
(***************************************************************************)
(* PolicyLoader on small sets of documents.                                *)
(***************************************************************************)
EXTENDS PolicyLoader

Doc(environments, commands, agents, targets) ==
    [version |-> "v1", maxParallel |-> 1, environments |-> environments,
     commands |-> commands, agents |-> agents, targets |-> targets]

Grant(a, commands) == [id |-> a, commands |-> commands]

Registered(t, e, protected) == [id |-> t, environment |-> e, protected |-> protected]

(* Two good documents, and one with an agent listed twice. *)
FewDocuments ==
    LET envs == [e \in {"dev"} |-> "allow"]
        doc(agents) == Doc(envs, <<"c1">>, agents, <<Registered("t1", "dev", "no")>>)
        one == <<Grant("a1", <<"c1">>)>>
    IN {doc(one), doc(one \o <<Grant("a2", <<"c1">>)>>), doc(one \o one), Malformed}

(* Every combination of grants, protection and modes for two commands, two  *)
(* agents, a target and two environments, and of what build must refuse.    *)
ManyDocuments ==
    {Doc(envs, commands, agents, targets) :
        envs \in {[e \in {"dev", "prod"} |-> IF e = "dev" THEN m ELSE "deny"] :
                     m \in {"allow", "require_approval", "deny", "maybe"}},
        commands \in {<<"c1">>, <<"c1", "c2">>, <<"c1", "c1">>},
        agents \in {<<Grant("a1", <<"c1">>)>>, <<Grant("a1", <<"c1", "c2">>)>>,
                    <<Grant("a1", <<"c1">>), Grant("a2", <<"c2">>)>>, <<Grant("a1", << >>)>>},
        targets \in {<<Registered("t1", "dev", "no")>>, <<Registered("t1", "dev", "yes")>>,
                     <<Registered("t1", "prod", "no"), Registered("t2", "dev", "no")>>,
                     <<Registered("t1", "dev", "unset")>>, <<Registered("t1", "stage", "no")>>}}

MCAgents == {"a1", "a2"}

MCProposals ==
    {[id |-> "p1", type |-> c, target |-> t, payload |-> "x"] : c \in {"c1", "c2"}, t \in {"t1", "t2"}}
=============================================================================
