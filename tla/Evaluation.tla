------------------------------ MODULE Evaluation ------------------------------
(***************************************************************************)
(* internal/decision: the pure functions that decide a proposal.           *)
(*                                                                         *)
(* A snapshot is a record                                                  *)
(*   digest        identity of the policy bytes                            *)
(*   commands      the catalogue                                           *)
(*   agents        declared agent -> commands it may issue                 *)
(*   targets       registered target -> [environment, protected]           *)
(*   environments  declared environment -> mode                            *)
(* and NilSnapshot stands for the nil pointer.                             *)
(***************************************************************************)
EXTENDS Contracts, Sequences

CONSTANT NilSnapshot

HasAgent(s, a) == a \in DOMAIN s.agents
HasCommand(s, c) == c \in s.commands
AgentMayUse(s, a, c) == HasAgent(s, a) /\ c \in s.agents[a]
HasTarget(s, t) == t \in DOMAIN s.targets

(* The zero value of an undeclared environment's mode is the empty string. *)
EnvironmentMode(s, e) == IF e \in DOMAIN s.environments THEN s.environments[e] ELSE ""

TargetMode(s, t) == EnvironmentMode(s, s.targets[t].environment)

When(condition, reason) == IF condition THEN <<reason>> ELSE << >>

(* Wrong variants: an agent's grants are not looked at; an undeclared agent *)
(* is not restricted.                                                       *)
ForgetsGrants(s, a, p) ==
    LET known == HasTarget(s, p.target) IN
       When(~HasAgent(s, a), "AGENT_UNKNOWN")
    \o When(~HasCommand(s, p.type), "COMMAND_UNKNOWN")
    \o When(~known, "TARGET_UNREGISTERED")
    \o When(known /\ s.targets[p.target].protected, "TARGET_PROTECTED")
    \o When(known /\ TargetMode(s, p.target) = "deny", "ENVIRONMENT_DENIED")

TrustsUndeclaredAgents(s, a, p) ==
    LET known == HasTarget(s, p.target) IN
       When(~HasCommand(s, p.type), "COMMAND_UNKNOWN")
    \o When(HasAgent(s, a) /\ ~AgentMayUse(s, a, p.type), "COMMAND_NOT_PERMITTED_FOR_AGENT")
    \o When(~known, "TARGET_UNREGISTERED")
    \o When(known /\ s.targets[p.target].protected, "TARGET_PROTECTED")
    \o When(known /\ TargetMode(s, p.target) = "deny", "ENVIRONMENT_DENIED")

(* Every applicable deny reason, in the order of the checks. *)
DenyReasons(s, a, p) ==
    LET known == HasTarget(s, p.target) IN
       When(~HasAgent(s, a), "AGENT_UNKNOWN")
    \o When(~HasCommand(s, p.type), "COMMAND_UNKNOWN")
    \o When(HasAgent(s, a) /\ HasCommand(s, p.type) /\ ~AgentMayUse(s, a, p.type),
            "COMMAND_NOT_PERMITTED_FOR_AGENT")
    \o When(~known, "TARGET_UNREGISTERED")
    \o When(known /\ s.targets[p.target].protected, "TARGET_PROTECTED")
    \o When(known /\ TargetMode(s, p.target) = "deny", "ENVIRONMENT_DENIED")

Decided(verdict, reasons, digest) ==
    [verdict |-> verdict, reasons |-> reasons, digest |-> digest]

Evaluate(s, a, p) ==
    IF s = NilSnapshot THEN Decided("DENY", <<"POLICY_UNAVAILABLE">>, "")
    ELSE LET deny == DenyReasons(s, a, p) IN
         CASE deny # << >>
                -> Decided("DENY", deny, s.digest)
           [] deny = << >> /\ TargetMode(s, p.target) = "require_approval"
                -> Decided("REQUIRE_APPROVAL", <<"APPROVAL_REQUIRED">>, s.digest)
           [] deny = << >> /\ TargetMode(s, p.target) = "allow"
                -> Decided("ALLOW", <<"ENVIRONMENT_ALLOWED">>, s.digest)
           [] OTHER
                -> Decided("DENY", <<"POLICY_UNAVAILABLE">>, s.digest)

(* SHA-256 over the domain and the four length-prefixed fields: the length  *)
(* prefixes make the encoding injective, and collisions are ignored.        *)
RequestHash(p) == <<"sentrygate.request.v1", p.id, p.type, p.target, p.payload>>

(* A request is [agent, proposal, decision, hash]. *)
Revalidate(s, req) ==
    LET d == Evaluate(s, req.agent, req.proposal) IN
    IF RequestHash(req.proposal) = req.hash THEN d
    ELSE [d EXCEPT !.verdict = "DENY",
                   !.reasons = IF d.verdict = "DENY"
                               THEN Append(d.reasons, "REQUEST_HASH_MISMATCH")
                               ELSE <<"REQUEST_HASH_MISMATCH">>]

(* The ingress record r must be a recorded ALLOW for exactly this request,  *)
(* executed by workflow w; otherwise the first failing check is the reason. *)
VerifyIngress(r, req, w) ==
    CASE r.stage # "INGRESS"                     -> "INGRESS_DECISION_WRONG_STAGE"
      [] r.stage = "INGRESS" /\ r.verdict # "ALLOW" -> "INGRESS_DECISION_NOT_ALLOW"
      [] r.stage = "INGRESS" /\ r.verdict = "ALLOW" /\ r.agent # req.agent
            -> "INGRESS_DECISION_AGENT_MISMATCH"
      [] r.stage = "INGRESS" /\ r.verdict = "ALLOW" /\ r.agent = req.agent
         /\ r.hash # RequestHash(req.proposal)
            -> "INGRESS_DECISION_HASH_MISMATCH"
      [] r.stage = "INGRESS" /\ r.verdict = "ALLOW" /\ r.agent = req.agent
         /\ r.hash = RequestHash(req.proposal)
         /\ (r.proposal # req.proposal.id \/ r.workflow # w)
            -> "INGRESS_DECISION_IDENTITY_MISMATCH"
      [] OTHER -> "VALID"
=============================================================================
