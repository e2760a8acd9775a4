------------------------------- MODULE Ingress -------------------------------
(***************************************************************************)
(* POST /v1/intercept: cmd/sentrygate/handler.go over the evaluation slots *)
(* and pooled envelopes of proxy/proxy.go, the agent keys, the decision    *)
(* records and the start of a workflow, for concurrent requests. The       *)
(* workflows appear as far as the proxy and its clients see them: a run is *)
(* open, writes its re-validation record, closes.                          *)
(*                                                                         *)
(* A step reaches from one blocking call of the handler to the next. A     *)
(* request's context may end at any moment (its client leaves, ReadTimeout *)
(* passes), the stores and Temporal may fail, and the process may die.     *)
(***************************************************************************)
EXTENDS Keyring, Evaluation, DecisionRecords, FiniteSets

CONSTANTS
    Calls,        \* requests; a call also names its decision ID and its run
    KeySpecs,     \* configurations the proxy may be started with
    Presented,    \* values of the X-API-Key header
    Bodies,       \* proposals and the two below
    Garbage,      \* a body that is not exactly one JSON object of the four fields
    Oversized,    \* a body over maxBodyBytes
    ProposalIds,  \* IDs that match proposalIDPattern
    Envelopes,    \* AgentProposal objects
    Zero,         \* the content of a zeroed envelope
    Policies      \* snapshots the policy loaders may publish

ASSUME EnvelopesAssumption == Cardinality(Envelopes) >= Cardinality(Calls)

ASSUME CallsAssumption == IsFiniteSet(Calls)

(* A configuration is a sequence of entries; the empty ID is no agent's. *)
ASSUME KeysAssumption ==
    NoAgent \notin AgentNames /\ \A spec \in KeySpecs : spec \in Seq(Range(spec))

(* A loader publishes no nil pointer, and a digest stands for its bytes. *)
ASSUME PoliciesAssumption ==
    /\ NilSnapshot \notin Policies
    /\ \A s \in Policies : s.maxParallel \in Int
    /\ \A s, t \in Policies : s.digest = t.digest => s = t

VARIABLES
    keyring,    \* the parsed configuration
    policy,     \* the proxy's active snapshot
    capacity,   \* slots of the worker pool
    slots,      \* slots that are taken
    pool,       \* envelopes in the pool, or not created yet
    content,    \* envelope -> what it holds
    call,       \* call -> where its handler stands, and its local variables
    answer,     \* call -> the response
    decisions,  \* the decision_records table
    runs        \* call -> the run ExecuteWorkflow started for it

proxyVars == <<slots, pool, content>>
vars == <<keyring, policy, capacity, proxyVars, call, answer, decisions, runs>>

Active == {c \in Calls : call[c].at \notin {"new", "done", "dead"}}

NewCall == [at |-> "new", key |-> "", body |-> Zero, agent |-> NoAgent, envelope |-> "",
            gone |-> FALSE, rec |-> Zero]

NoAnswer == [code |-> 0, status |-> "", decision |-> << >>]

NoRun == [state |-> "none", workflow |-> << >>, request |-> Zero]

(* Random, and never drawn twice. *)
NewDecisionID(c) == <<"dec", c>>

workflowID(p) == <<"saga", p.id>>

-----------------------------------------------------------------------------
(* NewSentryProxy. *)
SlotsFor(s) == IF s.maxParallel < 1 THEN 1 ELSE s.maxParallel

(* main ends before it serves when the keys or the policy are not accepted. *)
Init ==
    /\ keyring \in {spec \in KeySpecs : ParseAgentKeys(spec)}
    /\ policy \in Policies
    /\ capacity = SlotsFor(policy) /\ slots = 0
    /\ pool = Envelopes
    /\ content = [e \in Envelopes |-> Zero]
    /\ call = [c \in Calls |-> NewCall]
    /\ answer = [c \in Calls |-> NoAnswer]
    /\ decisions = << >>
    /\ runs = [c \in Calls |-> NoRun]

(* The handler goes on at another place, keeping its envelope. *)
Goes(c, changes) == call' = [call EXCEPT ![c] = changes] /\ UNCHANGED <<answer, pool, content>>

(* A handler that is over has no locals any more. *)
Ended(k, at) == [NewCall EXCEPT !.at = at, !.key = k.key, !.body = k.body]

(* The handler writes its response; the deferred ReleaseProposal zeroes the  *)
(* envelope and puts it back.                                                *)
Responds(c, code, status, decision) ==
    /\ answer' = [answer EXCEPT ![c] = [code |-> code, status |-> status, decision |-> decision]]
    /\ call' = [call EXCEPT ![c] = Ended(@, "done")]
    /\ content' = [content EXCEPT ![call[c].envelope] = Zero]
    /\ pool' = pool \cup {call[c].envelope}

-----------------------------------------------------------------------------
(* auth.Middleware. *)
Unauthorized(c, key, body) ==
    /\ call[c].at = "new"
    /\ Resolve(keyring, key) = NoAgent
    /\ call' = [call EXCEPT ![c] = [@ EXCEPT !.at = "done", !.key = key, !.body = body]]
    /\ answer' = [answer EXCEPT ![c] = [code |-> 401, status |-> "unauthorized", decision |-> << >>]]
    /\ UNCHANGED <<keyring, policy, capacity, proxyVars, decisions, runs>>

(* AcquireProposal: any pooled object, or a new one, zeroed. *)
Acquire(c, key, body, e) ==
    /\ call[c].at = "new"
    /\ Resolve(keyring, key) # NoAgent
    /\ e \in pool
    /\ pool' = pool \ {e}
    /\ content' = [content EXCEPT ![e] = Zero]
    /\ call' = [call EXCEPT ![c] = [@ EXCEPT !.at = "decoding", !.key = key, !.body = body,
                                             !.agent = Resolve(keyring, key), !.envelope = e]]
    /\ UNCHANGED <<keyring, policy, capacity, slots, answer, decisions, runs>>

decodeProposal(body) ==
    CASE body = Oversized                                                -> 413
      [] body = Garbage                                                  -> 400
      [] body \notin {Oversized, Garbage} /\ body.id \notin ProposalIds  -> 400
      [] OTHER                                                           -> 0

(* Wrong variant: the envelope goes back to the pool once it is decoded. *)
ReleasesEarly(c) ==
    /\ call[c].at = "decoding" /\ decodeProposal(call[c].body) = 0
    /\ content' = [content EXCEPT ![call[c].envelope] = call[c].body]
    /\ pool' = pool \cup {call[c].envelope}
    /\ call' = [call EXCEPT ![c].at = "waiting"]
    /\ UNCHANGED <<keyring, policy, capacity, slots, answer, decisions, runs>>

(* Decoding fills the envelope, unless its client has left and the rest of  *)
(* the body cannot be read; EvaluateThrottled first looks at the context.   *)
Decode(c) ==
    /\ call[c].at = "decoding"
    /\ \E status \in {decodeProposal(call[c].body)} \cup (IF call[c].gone THEN {400} ELSE {}) :
          CASE status # 0                   -> Responds(c, status, "invalid", << >>)
            [] status = 0 /\ call[c].gone   -> Responds(c, 503, "unavailable", << >>)
            [] status = 0 /\ ~call[c].gone  ->
                 /\ content' = [content EXCEPT ![call[c].envelope] = call[c].body]
                 /\ call' = [call EXCEPT ![c].at = "waiting"]
                 /\ UNCHANGED <<answer, pool>>
    /\ UNCHANGED <<keyring, policy, capacity, slots, decisions, runs>>

(* A free slot is taken even when the context has ended: select chooses at   *)
(* random.                                                                   *)
TakeSlot(c) ==
    /\ call[c].at = "waiting"
    /\ slots < capacity
    /\ slots' = slots + 1
    /\ Goes(c, [call[c] EXCEPT !.at = "evaluating"])
    /\ UNCHANGED <<keyring, policy, capacity, decisions, runs>>

(* Wrong variant: who gives up gives back a slot. *)
GivesBackUntaken(c) ==
    /\ call[c].at = "waiting" /\ call[c].gone
    /\ slots' = slots - 1
    /\ Responds(c, 503, "unavailable", << >>)
    /\ UNCHANGED <<keyring, policy, capacity, decisions, runs>>

GiveUp(c) ==
    /\ call[c].at = "waiting" /\ call[c].gone
    /\ Responds(c, 503, "unavailable", << >>)
    /\ UNCHANGED <<keyring, policy, capacity, slots, decisions, runs>>

Record(c, d, p) ==
    [id |-> NewDecisionID(c), stage |-> "INGRESS", proposal |-> p.id, agent |-> call[c].agent,
     hash |-> RequestHash(p), verdict |-> d.verdict, digest |-> d.digest,
     workflow |-> IF d.verdict = "ALLOW" THEN workflowID(p) ELSE << >>]

(* Wrong variant: an ALLOW goes on without its record. *)
StartsUnrecorded(c, rec, recorded) ==
    CASE rec.verdict = "DENY"             -> Responds(c, 403, "rejected", IF recorded THEN rec.id ELSE << >>)
      [] rec.verdict = "REQUIRE_APPROVAL" -> Responds(c, 403, "not_executed", IF recorded THEN rec.id ELSE << >>)
      [] OTHER                            -> Goes(c, [call[c] EXCEPT !.at = "starting", !.rec = rec])

(* What follows AppendDecision. *)
AfterRecord(c, rec, recorded) ==
    CASE rec.verdict = "DENY"             -> Responds(c, 403, "rejected", IF recorded THEN rec.id ELSE << >>)
      [] rec.verdict = "REQUIRE_APPROVAL" -> Responds(c, 403, "not_executed", IF recorded THEN rec.id ELSE << >>)
      [] rec.verdict = "ALLOW" /\ ~recorded -> Responds(c, 503, "unavailable", << >>)
      [] OTHER                            -> Goes(c, [call[c] EXCEPT !.at = "starting", !.rec = rec])

(* Wrong variant: with its context ended, the evaluation keeps its slot. *)
KeepsSlot(c) ==
    LET p == content[call[c].envelope]
        rec == Record(c, Evaluate(policy, call[c].agent, p), p)
    IN /\ call[c].at = "evaluating"
       /\ slots' = IF call[c].gone THEN slots ELSE slots - 1
       /\ IF call[c].gone THEN AfterRecord(c, rec, FALSE)
          ELSE Goes(c, [call[c] EXCEPT !.at = "recording", !.rec = rec])
       /\ UNCHANGED <<keyring, policy, capacity, decisions, runs>>

(* The verdict of the policy that is active now, the slot given back, the    *)
(* record built. With an ended context AppendDecision fails at once.         *)
EvaluateThrottled(c) ==
    LET p == content[call[c].envelope]
        rec == Record(c, Evaluate(policy, call[c].agent, p), p)
    IN /\ call[c].at = "evaluating"
       /\ slots' = slots - 1
       /\ IF call[c].gone THEN AfterRecord(c, rec, FALSE)
          ELSE Goes(c, [call[c] EXCEPT !.at = "recording", !.rec = rec])
       /\ UNCHANGED <<keyring, policy, capacity, decisions, runs>>

(* Wrong variant: the record names the policy that is active when it is      *)
(* written.                                                                  *)
NamesLaterPolicy(c) ==
    LET rec == [call[c].rec EXCEPT !.digest = policy.digest] IN
    /\ call[c].at = "recording" /\ ~call[c].gone
    /\ decisions' = AppendDecision(decisions, rec)
    /\ AfterRecord(c, rec, Accepted(decisions, rec))
    /\ UNCHANGED <<keyring, policy, capacity, slots, runs>>

RecordDecision(c) ==
    /\ call[c].at = "recording" /\ ~call[c].gone
    /\ decisions' = AppendDecision(decisions, call[c].rec)
    /\ AfterRecord(c, call[c].rec, Accepted(decisions, call[c].rec))
    /\ UNCHANGED <<keyring, policy, capacity, slots, runs>>

(* The write fails, or the context ends during it, before or after it has    *)
(* committed.                                                                *)
RecordFails(c) ==
    /\ call[c].at = "recording"
    /\ \/ UNCHANGED decisions
       \/ call[c].gone /\ decisions' = AppendDecision(decisions, call[c].rec)
    /\ AfterRecord(c, call[c].rec, FALSE)
    /\ UNCHANGED <<keyring, policy, capacity, slots, runs>>

-----------------------------------------------------------------------------
(* ExecuteWorkflow with WorkflowExecutionErrorWhenAlreadyStarted. *)

Open(w) == \E c \in Calls : runs[c].workflow = w /\ runs[c].state \in {"open", "decided"}

Started(c) ==
    LET p == content[call[c].envelope] IN
    [runs EXCEPT ![c] =
        [state |-> "open", workflow |-> call[c].rec.workflow,
         request |-> [agent |-> call[c].agent, proposal |-> p, decision |-> call[c].rec.id,
                      hash |-> call[c].rec.hash]]]

(* Wrong variant: the SDK's default, which returns the open run. *)
AdoptsOpenRun(c) ==
    /\ call[c].at = "starting" /\ ~call[c].gone
    /\ runs' = IF Open(call[c].rec.workflow) THEN runs ELSE Started(c)
    /\ Responds(c, 200, "accepted", call[c].rec.id)
    /\ UNCHANGED <<keyring, policy, capacity, slots, decisions>>

StartWorkflow(c) ==
    /\ call[c].at = "starting" /\ ~call[c].gone
    /\ IF Open(call[c].rec.workflow)
       THEN Responds(c, 409, "not_executed", call[c].rec.id) /\ UNCHANGED runs
       ELSE Responds(c, 200, "accepted", call[c].rec.id) /\ runs' = Started(c)
    /\ UNCHANGED <<keyring, policy, capacity, slots, decisions>>

(* Temporal cannot be reached, or its response is lost. *)
StartFails(c) ==
    /\ call[c].at = "starting"
    /\ \/ UNCHANGED runs
       \/ ~Open(call[c].rec.workflow) /\ runs' = Started(c)
    /\ Responds(c, 502, "error", << >>)
    /\ UNCHANGED <<keyring, policy, capacity, slots, decisions>>

-----------------------------------------------------------------------------
(* The client, the process and the worker. *)

ContextEnds(c) ==
    /\ c \in Active /\ ~call[c].gone
    /\ Goes(c, [call[c] EXCEPT !.gone = TRUE])
    /\ UNCHANGED <<keyring, policy, capacity, slots, decisions, runs>>

ReloadPolicy ==
    /\ policy' \in Policies \ {policy}
    /\ UNCHANGED <<keyring, capacity, proxyVars, call, answer, decisions, runs>>

(* The process dies and is started again with the policy of that moment. A   *)
(* start that reached Temporal just before is a StartFails just before.      *)
Restart ==
    /\ Active # {}
    /\ policy' \in Policies
    /\ capacity' = SlotsFor(policy') /\ slots' = 0
    /\ pool' = Envelopes
    /\ content' = [e \in Envelopes |-> Zero]
    /\ call' = [c \in Calls |-> IF c \in Active THEN Ended(call[c], "dead") ELSE call[c]]
    /\ UNCHANGED <<keyring, answer, decisions, runs>>

(* A run verifies its ingress decision, evaluates its proposal against the   *)
(* worker's policy and records the verdict.                                  *)
RunDecides(c) ==
    LET q == runs[c].request IN
    /\ runs[c].state = "open"
    /\ \E s \in Policies :
          decisions' = AppendDecision(decisions,
              [id |-> <<"wf", c>>, stage |-> "WORKFLOW_REVALIDATION", proposal |-> q.proposal.id,
               agent |-> q.agent, hash |-> RequestHash(q.proposal), digest |-> s.digest,
               verdict |-> IF /\ HasRecord(decisions, q.decision)
                              /\ VerifyIngress(GetDecision(decisions, q.decision), q, runs[c].workflow) = "VALID"
                           THEN Revalidate(s, q).verdict ELSE "DENY",
               workflow |-> runs[c].workflow])
    /\ runs' = [runs EXCEPT ![c].state = "decided"]
    /\ UNCHANGED <<keyring, policy, capacity, proxyVars, call, answer>>

(* A run ends, be it before it has recorded anything. *)
RunCloses(c) ==
    /\ runs[c].state \in {"open", "decided"}
    /\ runs' = [runs EXCEPT ![c].state = "closed"]
    /\ UNCHANGED <<keyring, policy, capacity, proxyVars, call, answer, decisions>>

HandlerStep(c) ==
    \/ Decode(c) \/ TakeSlot(c) \/ GiveUp(c) \/ EvaluateThrottled(c)
    \/ RecordDecision(c) \/ RecordFails(c) \/ StartWorkflow(c) \/ StartFails(c)

Next ==
    \/ \E c \in Calls, key \in Presented, body \in Bodies :
          Unauthorized(c, key, body) \/ \E e \in Envelopes : Acquire(c, key, body, e)
    \/ \E c \in Calls : HandlerStep(c) \/ ContextEnds(c) \/ RunDecides(c) \/ RunCloses(c)
    \/ ReloadPolicy
    \/ Restart

Spec == Init /\ [][Next]_vars

(* A handler's goroutine is scheduled, and every call it blocks in returns. *)
FairSpec == Spec /\ \A c \in Calls : WF_vars(HandlerStep(c))

-----------------------------------------------------------------------------
(* What GET /v1/decisions/{proposal_id} shows; an ID that could not have been *)
(* submitted is refused.                                                      *)
decisionsByProposal(id) ==
    IF id \in ProposalIds THEN ListDecisionsByProposal(decisions, id) ELSE << >>

Places == {"new", "decoding", "waiting", "evaluating", "recording", "starting", "done", "dead"}

Decodable == {body \in Bodies : decodeProposal(body) = 0}

IngressRecords ==
    [id : {NewDecisionID(c) : c \in Calls}, stage : {"INGRESS"},
     proposal : {b.id : b \in Decodable}, agent : AgentNames,
     hash : {RequestHash(b) : b \in Decodable}, verdict : Verdicts,
     digest : {s.digest : s \in Policies}, workflow : {workflowID(b) : b \in Decodable} \cup {<< >>}]

Requests ==
    [agent : AgentNames, proposal : Decodable, decision : {NewDecisionID(c) : c \in Calls},
     hash : {RequestHash(b) : b \in Decodable}]

CallRecords ==
    [at : Places, key : Presented \cup {""}, body : Bodies \cup {Zero},
     agent : AgentNames \cup {NoAgent}, envelope : Envelopes \cup {""}, gone : BOOLEAN,
     rec : IngressRecords \cup {Zero}]

Answers ==
    [code : {0, 200, 400, 401, 403, 409, 413, 502, 503},
     status : {"", "unauthorized", "invalid", "unavailable", "rejected", "not_executed",
               "accepted", "error"},
     decision : {NewDecisionID(c) : c \in Calls} \cup {<< >>}]

RunRecords ==
    [state : {"none", "open", "decided", "closed"},
     workflow : {workflowID(b) : b \in Decodable} \cup {<< >>}, request : Requests \cup {Zero}]

(* Every variable has its type. *)
TypeOK ==
    /\ keyring \in KeySpecs /\ policy \in Policies
    /\ capacity \in Nat \ {0} /\ slots \in 0..capacity
    /\ pool \subseteq Envelopes
    /\ content \in [Envelopes -> Decodable \cup {Zero}]
    /\ call \in [Calls -> CallRecords]
    /\ \A c \in Active : call[c].envelope \in Envelopes /\ call[c].agent \in AgentNames /\ call[c].body \in Bodies
    /\ answer \in [Calls -> Answers]
    /\ runs \in [Calls -> RunRecords]

(* Whatever was started can be executed: its ingress ALLOW is recorded, for  *)
(* the proposal its client sent, and the saga's verification accepts the     *)
(* request, for whatever other requests, reloads, cancellations and restarts *)
(* came between (handler.go: "without a durable decision record no workflow  *)
(* may start").                                                              *)
StartsAreBacked ==
    \A c \in Calls :
        runs[c].state # "none" =>
            /\ runs[c].request.proposal = call[c].body
            /\ HasRecord(decisions, runs[c].request.decision)
            /\ VerifyIngress(GetDecision(decisions, runs[c].request.decision), runs[c].request,
                             runs[c].workflow) = "VALID"

AnswerIsTrue(c) ==
    LET a == answer[c] IN
    /\ a.code = 200 => runs[c].state # "none" /\ runs[c].request.decision = a.decision
    /\ a.code \in {400, 401, 403, 409, 413, 503} => runs[c].state = "none"
    /\ a.code \in {400, 401, 413} => ~HasRecord(decisions, NewDecisionID(c))
    /\ a.decision # << >> =>
          /\ HasRecord(decisions, a.decision)
          /\ GetDecision(decisions, a.decision).verdict =
                CASE a.status = "rejected" -> "DENY"
                  [] a.status = "not_executed" /\ a.code = 403 -> "REQUIRE_APPROVAL"
                  [] OTHER -> "ALLOW"

(* A response tells the truth, also later: accepted means that a run was     *)
(* started for this very decision; every other response but 502 means that   *)
(* nothing was; a response that names a decision has it on record with the   *)
(* verdict it shows (README.md, responses of POST /v1/intercept).            *)
AnswersAreTrue == \A c \in Calls : AnswerIsTrue(c)

(* A record says what the policy it names decides about the proposal its     *)
(* client sent, although policies are replaced, and envelopes reused, while  *)
(* the request is under way (SECURITY.md: "a decision record with identity,  *)
(* request hash, verdict, reasons and the policy version and digest").       *)
RecordsAreOfTheRequest ==
    \A c \in Calls :
        HasRecord(decisions, NewDecisionID(c)) =>
            LET rec == GetDecision(decisions, NewDecisionID(c))
                s == CHOOSE x \in Policies : x.digest = rec.digest
            IN /\ rec.hash = RequestHash(call[c].body) /\ rec.proposal = call[c].body.id
               /\ rec.verdict = Evaluate(s, rec.agent, call[c].body).verdict

(* Who is recorded is the only agent that the configuration gives the        *)
(* presented key to (SECURITY.md: "The configuration is rejected at startup  *)
(* if ... IDs or keys are duplicated").                                      *)
IdentityIsTheKeys ==
    \A c \in Calls :
        HasRecord(decisions, NewDecisionID(c)) =>
            {keyring[i].id : i \in {j \in DOMAIN keyring : keyring[j].key = call[c].key}}
                = {GetDecision(decisions, NewDecisionID(c)).agent}

(* The slots that are taken are those of the evaluations under way: none is  *)
(* lost on any path out of EvaluateThrottled (proxy.go: "acquires an         *)
(* evaluation slot, evaluates, then releases the slot").                     *)
SlotsAreAccounted == slots = Cardinality({c \in Calls : call[c].at = "evaluating"})

(* An envelope serves one request at a time, and one in the pool holds       *)
(* nothing of an earlier request (proxy.go: "borrows a zeroed AgentProposal  *)
(* from the object pool").                                                   *)
EnvelopesAreExclusive ==
    /\ \A c, d \in Active : call[c].envelope = call[d].envelope => c = d
    /\ \A e \in pool : content[e] = Zero /\ \A c \in Active : call[c].envelope # e

(* What makes the invariants above inductive. A handler keeps its request    *)
(* to itself: the agent is the key's, the envelope holds the body, and the   *)
(* record it is about to write, or has written, is true of both.             *)
Truthful(c, rec) ==
    /\ rec.id = NewDecisionID(c) /\ rec.stage = "INGRESS"
    /\ rec.proposal = call[c].body.id /\ rec.hash = RequestHash(call[c].body)
    /\ rec.agent = Resolve(keyring, call[c].key) /\ rec.agent # NoAgent
    /\ \E s \in Policies : /\ s.digest = rec.digest
                           /\ rec.verdict = Evaluate(s, rec.agent, call[c].body).verdict
    /\ rec.workflow = IF rec.verdict = "ALLOW" THEN workflowID(call[c].body) ELSE << >>

HandlerInv(c) ==
    LET at == call[c].at IN
    /\ c \in Active => call[c].agent = Resolve(keyring, call[c].key)
    /\ at \in {"waiting", "evaluating", "recording", "starting"} =>
          content[call[c].envelope] = call[c].body /\ call[c].body \in Decodable
    /\ at \in {"recording", "starting"} => Truthful(c, call[c].rec)
    /\ at = "starting" =>
          /\ call[c].rec.verdict = "ALLOW"
          /\ HasRecord(decisions, NewDecisionID(c))
          /\ GetDecision(decisions, NewDecisionID(c)) = call[c].rec

(* A handler writes once, starts at most one run, and answers last. *)
OutcomeInv(c) ==
    LET row == GetDecision(decisions, NewDecisionID(c)) IN
    /\ HasRecord(decisions, NewDecisionID(c)) =>
          call[c].at \in {"starting", "done", "dead"} /\ Truthful(c, row)
    /\ runs[c].state # "none" =>
          /\ call[c].at = "done"
          /\ HasRecord(decisions, NewDecisionID(c)) /\ row.verdict = "ALLOW"
          /\ runs[c].workflow = workflowID(call[c].body)
          /\ runs[c].request = [agent |-> row.agent, proposal |-> call[c].body,
                                decision |-> NewDecisionID(c), hash |-> RequestHash(call[c].body)]
    /\ answer[c].code # 0 => call[c].at = "done"
    /\ answer[c].decision # << >> => answer[c].code # 0 /\ answer[c].decision = NewDecisionID(c)

IngressInv ==
    /\ TypeOK /\ ParseAgentKeys(keyring)
    /\ IsTable(decisions)
    /\ EnvelopesAreExclusive /\ SlotsAreAccounted
    /\ \A c \in Calls : HandlerInv(c) /\ OutcomeInv(c)
    /\ AnswersAreTrue

(* Every request is answered, unless the process dies: no wait for a slot    *)
(* lasts.                                                                    *)
EveryCallIsAnswered == \A c \in Calls : c \in Active ~> c \notin Active

(* A re-validation ALLOW with a request's hash means that this request ran   *)
(* (ARCHITECTURE.md: "Whether this request actually ran is shown by a        *)
(* WORKFLOW_REVALIDATION record with the same request hash").                *)
RevalidationShowsItRan ==
    \A c \in Calls :
        /\ answer[c].code \in {409, 502}
        /\ LET shown == decisionsByProposal(call[c].body.id) IN
           \E i \in DOMAIN shown : /\ shown[i].stage = "WORKFLOW_REVALIDATION"
                                   /\ shown[i].verdict = "ALLOW"
                                   /\ shown[i].hash = RequestHash(call[c].body)
        => runs[c].state # "none"
=============================================================================
