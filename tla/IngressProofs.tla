---------------------------- MODULE IngressProofs ----------------------------
(***************************************************************************)
(* What is proved of Ingress for every set of calls, keys, bodies,         *)
(* envelopes and policies: the invariants of the request path.             *)
(***************************************************************************)
EXTENDS Ingress, FiniteSetTheorems, TLAPS

-----------------------------------------------------------------------------
(* The table of decision records. *)

LEMMA RowLemma ==
  ASSUME NEW table, IsTable(table), NEW i \in DOMAIN table
  PROVE  GetDecision(table, table[i].id) = table[i]
  BY DEF IsTable, GetDecision

(* An append changes no row, and adds the record unless its ID is taken.    *)
LEMMA AppendLemma ==
  ASSUME NEW table, IsTable(table), NEW rec
  PROVE  LET t == AppendDecision(table, rec)
         IN /\ IsTable(t)
            /\ \A id : HasRecord(t, id) <=> HasRecord(table, id) \/ id = rec.id
            /\ \A id : HasRecord(table, id) => GetDecision(t, id) = GetDecision(table, id)
            /\ ~HasRecord(table, rec.id) => GetDecision(t, rec.id) = rec
  <1>1. CASE HasRecord(table, rec.id)
    BY <1>1 DEF AppendDecision
  <1>2. CASE ~HasRecord(table, rec.id)
    <2> DEFINE S == Range(table) \cup {rec}
               t == Append(table, rec)
    <2>1. AppendDecision(table, rec) = t
      BY <1>2 DEF AppendDecision
    <2>2. table \in Seq(S) /\ Len(table) \in Nat /\ DOMAIN table = 1..Len(table)
      BY DEF IsTable
    <2>3. /\ t \in Seq(S) /\ DOMAIN t = 1..(Len(table) + 1) /\ t[Len(table) + 1] = rec
          /\ \A i \in 1..Len(table) : t[i] = table[i]
      BY <2>2
    <2> HIDE DEF t
    <2>4. t \in Seq(Range(t))
      <3>1. \A i \in 1..(Len(table) + 1) : t[i] \in Range(t)
        BY <2>3 DEF Range
      <3>2. t \in [1..(Len(table) + 1) -> Range(t)]
        BY <2>2, <2>3, <3>1
      <3> QED
        BY <2>2, <3>2
    <2>5. \A i \in 1..Len(table) : table[i].id # rec.id
      BY <1>2, <2>2 DEF HasRecord
    <2>6. \A i, j \in DOMAIN t : t[i].id = t[j].id => i = j
      BY <2>2, <2>3, <2>5 DEF IsTable
    <2>7. IsTable(t)
      BY <2>4, <2>6 DEF IsTable
    <2>8. \A id : HasRecord(t, id) <=> HasRecord(table, id) \/ id = rec.id
      BY <2>2, <2>3 DEF HasRecord
    <2>9. ASSUME NEW id, HasRecord(table, id)
          PROVE  GetDecision(t, id) = GetDecision(table, id)
      <3>1. PICK i \in 1..Len(table) : table[i].id = id
        BY <2>2, <2>9 DEF HasRecord
      <3>2. GetDecision(table, id) = table[i]
        BY <2>2, <3>1, RowLemma
      <3>3. i \in DOMAIN t /\ t[i] = table[i]
        BY <2>2, <2>3
      <3>4. GetDecision(t, id) = t[i]
        BY <2>7, <3>1, <3>3, RowLemma
      <3> QED
        BY <3>2, <3>3, <3>4
    <2>10. GetDecision(t, rec.id) = rec
      <3>1. Len(table) + 1 \in DOMAIN t
        BY <2>2, <2>3
      <3> QED
        BY <2>3, <2>7, <3>1, RowLemma
    <2> QED
      BY <2>1, <2>7, <2>8, <2>9, <2>10
  <1> QED
    BY <1>1, <1>2

-----------------------------------------------------------------------------
(* Keys and verdicts. *)

(* An accepted configuration gives a key to one agent at most. *)
LEMMA ResolveLemma ==
  ASSUME NEW entries, entries \in Seq(Range(entries)), ParseAgentKeys(entries), NEW key,
         Resolve(entries, key) # NoAgent
  PROVE  /\ Resolve(entries, key) \in AgentNames
         /\ {entries[i].id : i \in {j \in DOMAIN entries : entries[j].key = key}}
               = {Resolve(entries, key)}
  <1> DEFINE matches == {i \in DOMAIN entries : entries[i].key = key}
  <1>1. PICK i \in DOMAIN entries : entries[i].key = key
    BY DEF Resolve
  <1>2. matches = {i}
    BY <1>1 DEF ParseAgentKeys
  <1>3. i \in Nat
    BY <1>1
  <1>4. Max({i}) = i
    BY <1>3 DEF Max
  <1>5. Resolve(entries, key) = entries[i].id
    BY <1>2, <1>4 DEF Resolve
  <1>6. entries[i].id \in AgentNames
    BY <1>1 DEF ParseAgentKeys
  <1> QED
    BY <1>2, <1>5, <1>6

LEMMA EvaluateLemma ==
  ASSUME NEW s, NEW a, NEW p
  PROVE  /\ Evaluate(s, a, p).verdict \in Verdicts
         /\ s # NilSnapshot => Evaluate(s, a, p).digest = s.digest
  BY DEF Evaluate, Decided, Verdicts

-----------------------------------------------------------------------------
(* Handlers and envelopes. *)

EnvelopeInv ==
    /\ pool \subseteq Envelopes
    /\ content \in [Envelopes -> Decodable \cup {Zero}]
    /\ call \in [Calls -> CallRecords]
    /\ \A c \in Active : call[c].envelope \in Envelopes /\ call[c].agent \in AgentNames /\ call[c].body \in Bodies
    /\ answer \in [Calls -> Answers]
    /\ EnvelopesAreExclusive

(* A step of c's handler changes nothing that the other handlers see. *)
OthersKept(c) ==
    \A d \in Calls \ {c} :
        /\ call'[d] = call[d] /\ answer'[d] = answer[d]
        /\ d \in Active => content'[call[d].envelope] = content[call[d].envelope]

LEMMA RespondsLemma ==
  ASSUME EnvelopeInv, NEW c \in Active, NEW code, NEW status, NEW decision,
         [code |-> code, status |-> status, decision |-> decision] \in Answers,
         Responds(c, code, status, decision)
  PROVE  /\ EnvelopeInv' /\ OthersKept(c)
         /\ call'[c].at = "done" /\ call'[c].key = call[c].key /\ call'[c].body = call[c].body
         /\ answer'[c] = [code |-> code, status |-> status, decision |-> decision]
  <1> DEFINE e == call[c].envelope
             k == Ended(call[c], "done")
  <1>1. c \in Calls /\ e \in Envelopes /\ call[c] \in CallRecords
    BY DEF EnvelopeInv, Active
  <1>2. k \in CallRecords /\ k.at = "done" /\ k.key = call[c].key /\ k.body = call[c].body
    BY <1>1 DEF Ended, NewCall, CallRecords, Places
  <1>3. /\ call' = [call EXCEPT ![c] = k]
        /\ content' = [content EXCEPT ![e] = Zero]
        /\ pool' = pool \cup {e}
        /\ answer' = [answer EXCEPT ![c] = [code |-> code, status |-> status, decision |-> decision]]
    BY DEF Responds
  <1> HIDE DEF k
  <1>4. /\ call'[c] = k /\ \A d \in Calls \ {c} : call'[d] = call[d]
        /\ call' \in [Calls -> CallRecords]
    BY <1>1, <1>2, <1>3 DEF EnvelopeInv
  <1>5. Active' = Active \ {c}
    BY <1>1, <1>2, <1>4 DEF Active
  <1>6. \A d \in Active \ {c} : call[d].envelope # e /\ content'[call[d].envelope] = content[call[d].envelope]
    BY <1>1, <1>3 DEF EnvelopeInv, EnvelopesAreExclusive
  <1>7. EnvelopesAreExclusive'
    <2>1. \A x, y \in Active' : call'[x].envelope = call'[y].envelope => x = y
      BY <1>4, <1>5 DEF EnvelopeInv, EnvelopesAreExclusive, Active
    <2>2. \A f \in pool' : content'[f] = Zero
      BY <1>1, <1>3 DEF EnvelopeInv, EnvelopesAreExclusive
    <2>3. \A f \in pool' : \A x \in Active' : call'[x].envelope # f
      BY <1>1, <1>3, <1>4, <1>5, <1>6 DEF EnvelopeInv, EnvelopesAreExclusive, Active
    <2> QED
      BY <2>1, <2>2, <2>3 DEF EnvelopesAreExclusive
  <1>8. /\ pool' \subseteq Envelopes /\ content' \in [Envelopes -> Decodable \cup {Zero}]
        /\ answer' \in [Calls -> Answers]
        /\ answer'[c] = [code |-> code, status |-> status, decision |-> decision]
        /\ \A d \in Calls \ {c} : answer'[d] = answer[d]
    BY <1>1, <1>3 DEF EnvelopeInv
  <1>9. \A x \in Active' : call'[x].envelope \in Envelopes /\ call'[x].agent \in AgentNames /\ call'[x].body \in Bodies
    BY <1>4, <1>5 DEF EnvelopeInv, Active
  <1> QED
    BY <1>2, <1>4, <1>6, <1>7, <1>8, <1>9 DEF EnvelopeInv, OthersKept, Active

(* The handler goes on with the envelope, key, body and agent it has. *)
LEMMA GoesLemma ==
  ASSUME EnvelopeInv, NEW c \in Active, NEW k \in CallRecords, Goes(c, k),
         k.at \notin {"new", "done", "dead"}, k.envelope = call[c].envelope, k.key = call[c].key,
         k.body = call[c].body, k.agent = call[c].agent
  PROVE  EnvelopeInv' /\ OthersKept(c) /\ call'[c] = k /\ answer'[c] = answer[c] /\ content' = content
  <1>1. c \in Calls
    BY DEF Active
  <1>2. call' = [call EXCEPT ![c] = k] /\ UNCHANGED <<answer, pool, content>>
    BY DEF Goes
  <1>3. /\ call'[c] = k /\ \A d \in Calls \ {c} : call'[d] = call[d]
        /\ call' \in [Calls -> CallRecords]
    BY <1>1, <1>2 DEF EnvelopeInv
  <1>4. Active' = Active
    BY <1>3 DEF Active
  <1>5. \A d \in Active : call'[d].envelope = call[d].envelope
    BY <1>3 DEF Active
  <1>6. EnvelopesAreExclusive'
    BY <1>2, <1>4, <1>5 DEF EnvelopeInv, EnvelopesAreExclusive
  <1>7. \A x \in Active' : call'[x].envelope \in Envelopes /\ call'[x].agent \in AgentNames /\ call'[x].body \in Bodies
    BY <1>3, <1>4 DEF EnvelopeInv, Active
  <1> QED
    BY <1>2, <1>3, <1>6, <1>7 DEF EnvelopeInv, OthersKept

-----------------------------------------------------------------------------
(* What one handler's step leaves true of every call. *)

CallInv(c) == HandlerInv(c) /\ OutcomeInv(c) /\ AnswerIsTrue(c)

(* The row of d's ingress decision is as it was. *)
RowKept(d) ==
    /\ HasRecord(decisions', NewDecisionID(d)) <=> HasRecord(decisions, NewDecisionID(d))
    /\ HasRecord(decisions, NewDecisionID(d)) =>
          GetDecision(decisions', NewDecisionID(d)) = GetDecision(decisions, NewDecisionID(d))

(* d's run is as it was, but for how far it has come. *)
RunKept(d) ==
    /\ runs'[d].state = "none" <=> runs[d].state = "none"
    /\ runs'[d].workflow = runs[d].workflow /\ runs'[d].request = runs[d].request

LEMMA InvParts == IngressInv =>
    /\ EnvelopeInv /\ IsTable(decisions) /\ \A c \in Calls : CallInv(c)
    /\ keyring \in Seq(Range(keyring)) /\ ParseAgentKeys(keyring)
    /\ runs \in [Calls -> RunRecords] /\ policy \in Policies
    /\ capacity \in Nat /\ slots \in 0..capacity /\ SlotsAreAccounted
  BY KeysAssumption DEF IngressInv, TypeOK, EnvelopeInv, CallInv, AnswersAreTrue

LEMMA KeptLemma ==
  ASSUME NEW d \in Calls, CallInv(d), keyring' = keyring, call'[d] = call[d], answer'[d] = answer[d],
         RunKept(d), RowKept(d),
         d \in Active => content'[call[d].envelope] = content[call[d].envelope]
  PROVE  CallInv(d)'
  <1>1. d \in Active' <=> d \in Active
    BY DEF Active
  <1>2. HandlerInv(d)'
    <2>1. call[d].at \in {"waiting", "evaluating", "recording", "starting"} => d \in Active
      BY DEF Active
    <2>2. Truthful(d, call[d].rec)' <=> Truthful(d, call[d].rec)
      BY DEF Truthful
    <2> QED
      BY <1>1, <2>1, <2>2 DEF CallInv, HandlerInv, RowKept
  <1>3. OutcomeInv(d)'
    <2>1. ASSUME HasRecord(decisions, NewDecisionID(d))
          PROVE  Truthful(d, GetDecision(decisions, NewDecisionID(d)))'
                    <=> Truthful(d, GetDecision(decisions, NewDecisionID(d)))
      BY <2>1 DEF Truthful, RowKept, NewDecisionID
    <2> QED
      BY <2>1 DEF CallInv, OutcomeInv, RowKept, RunKept, NewDecisionID
  <1>4. AnswerIsTrue(d)'
    BY DEF CallInv, OutcomeInv, AnswerIsTrue, RowKept, RunKept, NewDecisionID
  <1> QED
    BY <1>2, <1>3, <1>4 DEF CallInv

LEMMA SlotsKept ==
  ASSUME SlotsAreAccounted, slots' = slots,
         \A d \in Calls : call'[d].at = "evaluating" <=> call[d].at = "evaluating"
  PROVE  SlotsAreAccounted'
  <1>1. {d \in Calls : call'[d].at = "evaluating"} = {d \in Calls : call[d].at = "evaluating"}
    OBVIOUS
  <1> QED
    BY <1>1 DEF SlotsAreAccounted

(* What has to be shown of a step of c's handler. *)
LEMMA HandlerLemma ==
  ASSUME IngressInv, NEW c \in Calls, EnvelopeInv', OthersKept(c), CallInv(c)',
         UNCHANGED <<keyring, policy, capacity>>,
         slots' \in 0..capacity, SlotsAreAccounted',
         IsTable(decisions'), \A d \in Calls \ {c} : RowKept(d),
         runs' \in [Calls -> RunRecords], \A d \in Calls \ {c} : RunKept(d)
  PROVE  IngressInv'
  <1>1. \A d \in Calls \ {c} : CallInv(d)'
    BY InvParts, KeptLemma DEF OthersKept
  <1>2. \A d \in Calls : CallInv(d)'
    BY <1>1
  <1>3. TypeOK'
    BY DEF IngressInv, TypeOK, EnvelopeInv
  <1> QED
    BY <1>2, <1>3 DEF IngressInv, CallInv, EnvelopeInv, AnswersAreTrue

LEMMA UnchangedKept ==
  /\ UNCHANGED decisions => \A d \in Calls : RowKept(d)
  /\ UNCHANGED runs => \A d \in Calls : RunKept(d)
  BY DEF RowKept, RunKept

(* The handler of c writes its record. *)
LEMMA RecordedLemma ==
  ASSUME IsTable(decisions), NEW c \in Calls, NEW rec, rec.id = NewDecisionID(c),
         ~HasRecord(decisions, NewDecisionID(c)), decisions' = AppendDecision(decisions, rec)
  PROVE  /\ IsTable(decisions') /\ \A d \in Calls \ {c} : RowKept(d)
         /\ HasRecord(decisions', NewDecisionID(c)) /\ GetDecision(decisions', NewDecisionID(c)) = rec
  <1>1. /\ IsTable(decisions')
        /\ \A id : HasRecord(decisions', id) <=> HasRecord(decisions, id) \/ id = NewDecisionID(c)
        /\ \A id : HasRecord(decisions, id) => GetDecision(decisions', id) = GetDecision(decisions, id)
        /\ GetDecision(decisions', NewDecisionID(c)) = rec
    BY AppendLemma
  <1>2. \A d \in Calls \ {c} : NewDecisionID(d) # NewDecisionID(c)
    BY DEF NewDecisionID
  <1> QED
    BY <1>1, <1>2 DEF RowKept

(* What is known before a handler has written its record. *)
LEMMA EarlyLemma ==
  ASSUME NEW c \in Calls, CallInv(c), call[c].at \notin {"starting", "done", "dead"}
  PROVE  ~HasRecord(decisions, NewDecisionID(c)) /\ runs[c].state = "none"
  BY DEF CallInv, OutcomeInv

(* A response that promises nothing: no decision named, no run started. *)
LEMMA RefusalLemma ==
  ASSUME NEW c \in Calls, call'[c].at = "done", NEW code, NEW status,
         answer'[c] = [code |-> code, status |-> status, decision |-> << >>],
         code # 200, runs'[c].state = "none",
         code \in {400, 401, 413} => ~HasRecord(decisions', NewDecisionID(c)),
         HasRecord(decisions', NewDecisionID(c)) => Truthful(c, GetDecision(decisions, NewDecisionID(c)))'
  PROVE  CallInv(c)'
  <1>1. answer'[c].code = code /\ answer'[c].decision = << >>
    OBVIOUS
  <1>2. HandlerInv(c)'
    BY DEF HandlerInv, Active
  <1>3. OutcomeInv(c)'
    BY <1>1 DEF OutcomeInv, NewDecisionID
  <1>4. AnswerIsTrue(c)'
    BY <1>1 DEF AnswerIsTrue, NewDecisionID
  <1> QED
    BY <1>2, <1>3, <1>4 DEF CallInv

LEMMA UnauthorizedLemma ==
  ASSUME IngressInv, NEW c \in Calls, NEW key \in Presented, NEW body \in Bodies, Unauthorized(c, key, body)
  PROVE  IngressInv'
  <1> USE InvParts
  <1>1. /\ call[c].at = "new" /\ call[c] \in CallRecords
        /\ call' = [call EXCEPT ![c] = [call[c] EXCEPT !.at = "done", !.key = key, !.body = body]]
        /\ answer' = [answer EXCEPT ![c] = [code |-> 401, status |-> "unauthorized", decision |-> << >>]]
        /\ UNCHANGED <<keyring, policy, capacity, slots, pool, content, decisions, runs>>
    BY DEF Unauthorized, proxyVars, EnvelopeInv
  <1>2. /\ call'[c] \in CallRecords /\ call'[c].at = "done"
        /\ \A d \in Calls \ {c} : call'[d] = call[d]
        /\ call' \in [Calls -> CallRecords]
    <2>1. [call[c] EXCEPT !.at = "done", !.key = key, !.body = body] \in CallRecords
      BY <1>1 DEF CallRecords, Places
    <2>2. [call[c] EXCEPT !.at = "done", !.key = key, !.body = body].at = "done"
      BY <1>1 DEF CallRecords
    <2> QED
      BY <1>1, <2>1, <2>2 DEF EnvelopeInv
  <1>3. Active' = Active
    BY <1>1, <1>2 DEF Active
  <1>4. /\ answer' \in [Calls -> Answers] /\ \A d \in Calls \ {c} : answer'[d] = answer[d]
        /\ answer'[c] = [code |-> 401, status |-> "unauthorized", decision |-> << >>]
    <2>1. [code |-> 401, status |-> "unauthorized", decision |-> << >>] \in Answers
      BY DEF Answers
    <2> QED
      BY <1>1, <2>1 DEF EnvelopeInv
  <1>5. EnvelopeInv' /\ OthersKept(c)
    BY <1>1, <1>2, <1>3, <1>4 DEF EnvelopeInv, OthersKept, EnvelopesAreExclusive, Active
  <1>6. CallInv(c)'
    <2>1. ~HasRecord(decisions, NewDecisionID(c)) /\ runs[c].state = "none"
      BY <1>1, EarlyLemma
    <2> QED
      BY <1>1, <1>2, <1>4, <2>1, RefusalLemma
  <1>7. SlotsAreAccounted'
    BY <1>1, <1>2, SlotsKept
  <1> QED
    BY <1>1, <1>5, <1>6, <1>7, UnchangedKept, HandlerLemma

LEMMA AcquireLemma ==
  ASSUME IngressInv, NEW c \in Calls, NEW key \in Presented, NEW body \in Bodies, NEW e \in Envelopes,
         Acquire(c, key, body, e)
  PROVE  IngressInv'
  <1> USE InvParts
  <1> DEFINE k == [call[c] EXCEPT !.at = "decoding", !.key = key, !.body = body,
                                  !.agent = Resolve(keyring, key), !.envelope = e]
  <1>1. /\ call[c].at = "new" /\ call[c] \in CallRecords /\ e \in pool
        /\ Resolve(keyring, key) # NoAgent
        /\ call' = [call EXCEPT ![c] = k]
        /\ content' = [content EXCEPT ![e] = Zero] /\ pool' = pool \ {e}
        /\ UNCHANGED <<keyring, policy, capacity, slots, answer, decisions, runs>>
    BY DEF Acquire, EnvelopeInv
  <1>2. Resolve(keyring, key) \in AgentNames
    BY <1>1, ResolveLemma
  <1>3. /\ k \in CallRecords /\ k.at = "decoding" /\ k.envelope = e /\ k.body = body
        /\ k.key = key /\ k.agent = Resolve(keyring, key)
    BY <1>1, <1>2 DEF CallRecords, Places
  <1> HIDE DEF k
  <1>4. /\ call'[c] = k /\ \A d \in Calls \ {c} : call'[d] = call[d]
        /\ call' \in [Calls -> CallRecords]
    BY <1>1, <1>3 DEF EnvelopeInv
  <1>5. Active' = Active \cup {c} /\ c \notin Active
    BY <1>1, <1>3, <1>4 DEF Active
  <1>6. \A d \in Active : call[d].envelope # e /\ content'[call[d].envelope] = content[call[d].envelope]
    BY <1>1 DEF EnvelopeInv, EnvelopesAreExclusive
  <1>7. EnvelopesAreExclusive'
    <2>1. \A x, y \in Active' : call'[x].envelope = call'[y].envelope => x = y
      BY <1>3, <1>4, <1>5, <1>6 DEF EnvelopeInv, EnvelopesAreExclusive, Active
    <2>2. \A f \in pool' : content'[f] = Zero
      BY <1>1 DEF EnvelopeInv, EnvelopesAreExclusive
    <2>3. \A f \in pool' : \A x \in Active' : call'[x].envelope # f
      BY <1>1, <1>3, <1>4, <1>5 DEF EnvelopeInv, EnvelopesAreExclusive, Active
    <2> QED
      BY <2>1, <2>2, <2>3 DEF EnvelopesAreExclusive
  <1>8. \A x \in Active' : call'[x].envelope \in Envelopes /\ call'[x].agent \in AgentNames /\ call'[x].body \in Bodies
    BY <1>2, <1>3, <1>4, <1>5 DEF EnvelopeInv, Active
  <1>9. pool' \subseteq Envelopes /\ content' \in [Envelopes -> Decodable \cup {Zero}]
    BY <1>1 DEF EnvelopeInv
  <1>10. EnvelopeInv' /\ OthersKept(c)
    BY <1>1, <1>4, <1>6, <1>7, <1>8, <1>9 DEF EnvelopeInv, OthersKept
  <1>11. CallInv(c)'
    <2>1. ~HasRecord(decisions, NewDecisionID(c)) /\ runs[c].state = "none"
      BY <1>1, EarlyLemma
    <2>2. HandlerInv(c)'
      BY <1>1, <1>3, <1>4 DEF HandlerInv
    <2>3. answer[c].code = 0 /\ answer[c].decision = << >>
      BY <1>1 DEF CallInv, OutcomeInv
    <2>4. OutcomeInv(c)'
      BY <1>1, <2>1, <2>3 DEF OutcomeInv, NewDecisionID
    <2>5. AnswerIsTrue(c)'
      BY <1>1, <2>1, <2>3 DEF AnswerIsTrue, NewDecisionID
    <2> QED
      BY <2>2, <2>4, <2>5 DEF CallInv
  <1>12. SlotsAreAccounted'
    BY <1>1, <1>3, <1>4, SlotsKept
  <1> QED
    BY <1>1, <1>10, <1>11, <1>12, UnchangedKept, HandlerLemma

(* A row that is true of its request stays so. *)
LEMMA RowStaysTrue ==
  ASSUME NEW c \in Calls, CallInv(c), keyring' = keyring, RowKept(c),
         call'[c].key = call[c].key, call'[c].body = call[c].body
  PROVE  HasRecord(decisions', NewDecisionID(c)) => Truthful(c, GetDecision(decisions, NewDecisionID(c)))'
  BY DEF CallInv, OutcomeInv, RowKept, Truthful, NewDecisionID

(* The handler ends with a refusal, outside the evaluation, leaving no trace. *)
LEMMA QuietRefusal ==
  ASSUME IngressInv, NEW c \in Active, NEW code, NEW status,
         [code |-> code, status |-> status, decision |-> << >>] \in Answers, code # 200,
         Responds(c, code, status, << >>), call[c].at # "evaluating",
         code \in {400, 401, 413} => ~HasRecord(decisions, NewDecisionID(c)),
         runs[c].state = "none",
         UNCHANGED <<keyring, policy, capacity, slots, decisions, runs>>
  PROVE  IngressInv'
  <1> USE InvParts
  <1>1. c \in Calls
    BY DEF Active
  <1>2. /\ EnvelopeInv' /\ OthersKept(c)
        /\ call'[c].at = "done" /\ call'[c].key = call[c].key /\ call'[c].body = call[c].body
        /\ answer'[c] = [code |-> code, status |-> status, decision |-> << >>]
    BY RespondsLemma
  <1>3. CallInv(c)'
    <2>1. HasRecord(decisions', NewDecisionID(c)) => Truthful(c, GetDecision(decisions, NewDecisionID(c)))'
      BY <1>1, <1>2, UnchangedKept, RowStaysTrue
    <2>2. code \in {400, 401, 413} => ~HasRecord(decisions', NewDecisionID(c))
      OBVIOUS
    <2>3. runs'[c].state = "none"
      OBVIOUS
    <2> QED
      BY <1>1, <1>2, <2>1, <2>2, <2>3, RefusalLemma
  <1>4. SlotsAreAccounted'
    BY <1>1, <1>2, SlotsKept DEF OthersKept
  <1> QED
    BY <1>1, <1>2, <1>3, <1>4, UnchangedKept, HandlerLemma

LEMMA DecodeLemma ==
  ASSUME IngressInv, NEW c \in Calls, Decode(c)
  PROVE  IngressInv'
  <1> USE InvParts
  <1>1. call[c].at = "decoding" /\ c \in Active /\ call[c] \in CallRecords /\ call[c].gone \in BOOLEAN
    BY DEF Decode, Active, EnvelopeInv, CallRecords
  <1>2. ~HasRecord(decisions, NewDecisionID(c)) /\ runs[c].state = "none"
    BY <1>1, EarlyLemma
  <1>3. UNCHANGED <<keyring, policy, capacity, slots, decisions, runs>>
    BY DEF Decode
  <1>4. PICK status \in {decodeProposal(call[c].body)} \cup (IF call[c].gone THEN {400} ELSE {}) :
          CASE status # 0                   -> Responds(c, status, "invalid", << >>)
            [] status = 0 /\ call[c].gone   -> Responds(c, 503, "unavailable", << >>)
            [] status = 0 /\ ~call[c].gone  ->
                 /\ content' = [content EXCEPT ![call[c].envelope] = call[c].body]
                 /\ call' = [call EXCEPT ![c].at = "waiting"]
                 /\ UNCHANGED <<answer, pool>>
    BY DEF Decode
  <1>5. status \in {0, 400, 413} /\ (status = 0 => decodeProposal(call[c].body) = 0)
    BY DEF decodeProposal
  <1>6. CASE status # 0
    <2>1. Responds(c, status, "invalid", << >>)
      BY <1>4, <1>6
    <2>2. [code |-> status, status |-> "invalid", decision |-> << >>] \in Answers /\ status # 200
      BY <1>5 DEF Answers
    <2> QED
      BY <1>1, <1>2, <1>3, <2>1, <2>2, QuietRefusal
  <1>7. CASE status = 0 /\ call[c].gone
    <2>1. Responds(c, 503, "unavailable", << >>)
      BY <1>4, <1>7
    <2>2. [code |-> 503, status |-> "unavailable", decision |-> << >>] \in Answers
      BY DEF Answers
    <2> QED
      BY <1>1, <1>2, <1>3, <2>1, <2>2, QuietRefusal
  <1>8. CASE status = 0 /\ ~call[c].gone
    <2> DEFINE e == call[c].envelope
               k == [call[c] EXCEPT !.at = "waiting"]
    <2>1. /\ content' = [content EXCEPT ![e] = call[c].body]
          /\ call' = [call EXCEPT ![c] = k]
          /\ UNCHANGED <<answer, pool>>
      BY <1>4, <1>8
    <2>2. /\ k \in CallRecords /\ k.at = "waiting" /\ k.envelope = e /\ k.body = call[c].body
          /\ k.key = call[c].key /\ k.agent = call[c].agent
      BY <1>1 DEF CallRecords, Places
    <2> HIDE DEF k
    <2>3. /\ call'[c] = k /\ \A d \in Calls \ {c} : call'[d] = call[d]
          /\ call' \in [Calls -> CallRecords]
      BY <2>1, <2>2 DEF EnvelopeInv
    <2>4. Active' = Active
      BY <1>1, <2>2, <2>3 DEF Active
    <2>5. e \in Envelopes /\ e \notin pool /\ call[c].body \in Decodable
      BY <1>1, <1>5, <1>8 DEF EnvelopeInv, EnvelopesAreExclusive, Decodable
    <2>6. \A d \in Active \ {c} : call[d].envelope # e
      BY <1>1 DEF EnvelopeInv, EnvelopesAreExclusive
    <2>7. /\ content' \in [Envelopes -> Decodable \cup {Zero}] /\ content'[e] = call[c].body
          /\ \A f \in Envelopes \ {e} : content'[f] = content[f]
      BY <2>1, <2>5 DEF EnvelopeInv
    <2>8. EnvelopesAreExclusive'
      <3>1. \A x \in Active : call'[x].envelope = call[x].envelope
        BY <2>2, <2>3 DEF Active
      <3>2. \A f \in pool : content'[f] = Zero
        BY <2>5, <2>7 DEF EnvelopeInv, EnvelopesAreExclusive
      <3> QED
        BY <2>1, <2>4, <3>1, <3>2 DEF EnvelopeInv, EnvelopesAreExclusive
    <2>9. \A x \in Active' : call'[x].envelope \in Envelopes /\ call'[x].agent \in AgentNames /\ call'[x].body \in Bodies
      BY <2>2, <2>3, <2>4 DEF EnvelopeInv, Active
    <2>10. EnvelopeInv'
      BY <2>1, <2>3, <2>7, <2>8, <2>9 DEF EnvelopeInv
    <2>11. OthersKept(c)
      BY <2>1, <2>3, <2>6, <2>7 DEF OthersKept, EnvelopeInv, Active
    <2>12. CallInv(c)'
      <3>1. HandlerInv(c)'
        BY <1>1, <1>3, <2>2, <2>3, <2>5, <2>7 DEF HandlerInv, CallInv
      <3>2. answer[c].code = 0 /\ answer[c].decision = << >>
        BY <1>1 DEF CallInv, OutcomeInv
      <3>3. OutcomeInv(c)'
        BY <1>2, <1>3, <2>1, <3>2 DEF OutcomeInv, NewDecisionID
      <3>4. AnswerIsTrue(c)'
        BY <1>2, <1>3, <2>1, <3>2 DEF AnswerIsTrue, NewDecisionID
      <3> QED
        BY <3>1, <3>3, <3>4 DEF CallInv
    <2>13. SlotsAreAccounted'
      BY <1>1, <1>3, <2>2, <2>3, SlotsKept
    <2> QED
      BY <1>3, <2>10, <2>11, <2>12, <2>13, UnchangedKept, HandlerLemma
  <1> QED
    BY <1>5, <1>6, <1>7, <1>8

(* A handler that goes on and has not written anything yet. *)
LEMMA EarlyOutcome ==
  ASSUME NEW c \in Calls, CallInv(c), call[c].at \notin {"starting", "done", "dead"},
         answer'[c] = answer[c], UNCHANGED <<decisions, runs>>
  PROVE  OutcomeInv(c)' /\ AnswerIsTrue(c)'
  <1>1. ~HasRecord(decisions, NewDecisionID(c)) /\ runs[c].state = "none"
    BY EarlyLemma
  <1>2. answer[c].code = 0 /\ answer[c].decision = << >>
    BY DEF CallInv, OutcomeInv
  <1>3. OutcomeInv(c)'
    BY <1>1, <1>2 DEF OutcomeInv, NewDecisionID
  <1>4. AnswerIsTrue(c)'
    BY <1>1, <1>2 DEF AnswerIsTrue, NewDecisionID
  <1> QED
    BY <1>3, <1>4

Evaluating == {c \in Calls : call[c].at = "evaluating"}

LEMMA EvaluatingLemma == IsFiniteSet(Evaluating) /\ Cardinality(Evaluating) \in Nat
  <1>1. Evaluating \in SUBSET Calls
    BY DEF Evaluating
  <1>2. IsFiniteSet(Evaluating)
    BY <1>1, CallsAssumption, FS_Subset
  <1> QED
    BY <1>2, FS_CardinalityType

LEMMA TakeSlotLemma ==
  ASSUME IngressInv, NEW c \in Calls, TakeSlot(c)
  PROVE  IngressInv'
  <1> USE InvParts
  <1> DEFINE k == [call[c] EXCEPT !.at = "evaluating"]
  <1>1. /\ call[c].at = "waiting" /\ c \in Active /\ call[c] \in CallRecords
        /\ slots < capacity /\ slots' = slots + 1 /\ Goes(c, k)
        /\ UNCHANGED <<keyring, policy, capacity, decisions, runs>>
    BY DEF TakeSlot, Active, EnvelopeInv
  <1>2. /\ k \in CallRecords /\ k.at = "evaluating" /\ k.envelope = call[c].envelope /\ k.body = call[c].body
        /\ k.key = call[c].key /\ k.agent = call[c].agent
    BY <1>1 DEF CallRecords, Places
  <1> HIDE DEF k
  <1>3. EnvelopeInv' /\ OthersKept(c) /\ call'[c] = k /\ answer'[c] = answer[c] /\ content' = content
    BY <1>1, <1>2, GoesLemma
  <1>4. CallInv(c)'
    <2>1. HandlerInv(c)'
      BY <1>1, <1>2, <1>3 DEF HandlerInv, CallInv
    <2> QED
      BY <1>1, <1>3, <2>1, EarlyOutcome DEF CallInv
  <1>5. SlotsAreAccounted'
    <2>1. Evaluating' = Evaluating \cup {c} /\ c \notin Evaluating
      BY <1>1, <1>2, <1>3 DEF Evaluating, OthersKept
    <2>2. Cardinality(Evaluating') = Cardinality(Evaluating) + 1
      BY <2>1, EvaluatingLemma, FS_AddElement
    <2> QED
      BY <1>1, <2>2 DEF SlotsAreAccounted, Evaluating
  <1>6. slots' \in 0..capacity
    BY <1>1
  <1> QED
    BY <1>1, <1>3, <1>4, <1>5, <1>6, UnchangedKept, HandlerLemma

LEMMA GiveUpLemma ==
  ASSUME IngressInv, NEW c \in Calls, GiveUp(c)
  PROVE  IngressInv'
  <1> USE InvParts
  <1>1. /\ call[c].at = "waiting" /\ c \in Active /\ Responds(c, 503, "unavailable", << >>)
        /\ UNCHANGED <<keyring, policy, capacity, slots, decisions, runs>>
    BY DEF GiveUp, Active
  <1>2. runs[c].state = "none"
    BY <1>1, EarlyLemma
  <1>3. [code |-> 503, status |-> "unavailable", decision |-> << >>] \in Answers
    BY DEF Answers
  <1> QED
    BY <1>1, <1>2, <1>3, QuietRefusal

(* Without its record a decision is a refusal that names none. *)
LEMMA UnrecordedLemma ==
  ASSUME NEW c, NEW rec, rec.verdict \in Verdicts, AfterRecord(c, rec, FALSE)
  PROVE  \E code, status :
            /\ code \in {403, 503} /\ Responds(c, code, status, << >>)
            /\ [code |-> code, status |-> status, decision |-> << >>] \in Answers
  <1>1. CASE rec.verdict = "DENY"
    <2>1. Responds(c, 403, "rejected", << >>)
      BY <1>1 DEF AfterRecord
    <2>2. [code |-> 403, status |-> "rejected", decision |-> << >>] \in Answers
      BY DEF Answers
    <2> QED
      BY <2>1, <2>2
  <1>2. CASE rec.verdict = "REQUIRE_APPROVAL"
    <2>1. Responds(c, 403, "not_executed", << >>)
      BY <1>2 DEF AfterRecord
    <2>2. [code |-> 403, status |-> "not_executed", decision |-> << >>] \in Answers
      BY DEF Answers
    <2> QED
      BY <2>1, <2>2
  <1>3. CASE rec.verdict = "ALLOW"
    <2>1. Responds(c, 503, "unavailable", << >>)
      BY <1>3 DEF AfterRecord
    <2>2. [code |-> 503, status |-> "unavailable", decision |-> << >>] \in Answers
      BY DEF Answers
    <2> QED
      BY <2>1, <2>2
  <1> QED
    BY <1>1, <1>2, <1>3 DEF Verdicts

(* The record the evaluation builds is true of the request. *)
LEMMA RecordLemma ==
  ASSUME IngressInv, NEW c \in Calls, call[c].at = "evaluating"
  PROVE  LET p == content[call[c].envelope]
             rec == Record(c, Evaluate(policy, call[c].agent, p), p)
         IN /\ rec \in IngressRecords /\ rec.id = NewDecisionID(c)
            /\ rec.verdict \in Verdicts /\ Truthful(c, rec)
  <1> DEFINE p == content[call[c].envelope]
             d == Evaluate(policy, call[c].agent, p)
             rec == Record(c, d, p)
  <1>1. c \in Active
    BY DEF Active
  <1>2. p = call[c].body /\ p \in Decodable
    BY InvParts DEF CallInv, HandlerInv
  <1>3. /\ call[c].agent = Resolve(keyring, call[c].key) /\ call[c].agent \in AgentNames
        /\ call[c].agent # NoAgent
    BY <1>1, InvParts, KeysAssumption DEF CallInv, HandlerInv, EnvelopeInv
  <1>4. d.verdict \in Verdicts /\ d.digest = policy.digest /\ policy \in Policies
    BY InvParts, EvaluateLemma, PoliciesAssumption
  <1> HIDE DEF d, p
  <1>5. /\ rec.id = NewDecisionID(c) /\ rec.stage = "INGRESS" /\ rec.proposal = p.id
        /\ rec.agent = call[c].agent /\ rec.hash = RequestHash(p) /\ rec.verdict = d.verdict
        /\ rec.digest = d.digest
        /\ rec.workflow = IF d.verdict = "ALLOW" THEN workflowID(p) ELSE << >>
    BY DEF Record
  <1>6. rec \in IngressRecords
    BY <1>2, <1>3, <1>4 DEF Record, IngressRecords
  <1> HIDE DEF rec
  <1>7. Truthful(c, rec)
    BY <1>2, <1>3, <1>4, <1>5 DEF Truthful, d
  <1> QED
    BY <1>4, <1>5, <1>6, <1>7 DEF rec, d, p

LEMMA EvaluateThrottledLemma ==
  ASSUME IngressInv, NEW c \in Calls, EvaluateThrottled(c)
  PROVE  IngressInv'
  <1> USE InvParts
  <1> DEFINE p == content[call[c].envelope]
             rec == Record(c, Evaluate(policy, call[c].agent, p), p)
             k == [call[c] EXCEPT !.at = "recording", !.rec = rec]
  <1>1. /\ call[c].at = "evaluating" /\ c \in Active /\ call[c] \in CallRecords
        /\ slots' = slots - 1
        /\ UNCHANGED <<keyring, policy, capacity, decisions, runs>>
    BY DEF EvaluateThrottled, Active, EnvelopeInv
  <1>2. IF call[c].gone THEN AfterRecord(c, rec, FALSE) ELSE Goes(c, k)
    BY DEF EvaluateThrottled
  <1>3. /\ rec \in IngressRecords /\ rec.id = NewDecisionID(c) /\ rec.verdict \in Verdicts
        /\ Truthful(c, rec)
    BY <1>1, RecordLemma
  <1> HIDE DEF rec
  <1>4. ASSUME OthersKept(c), call'[c].at # "evaluating"
        PROVE  SlotsAreAccounted' /\ slots' \in 0..capacity
    <2>1. Evaluating' = Evaluating \ {c} /\ c \in Evaluating
      BY <1>1, <1>4 DEF Evaluating, OthersKept
    <2>2. Cardinality(Evaluating') = Cardinality(Evaluating) - 1 /\ Cardinality(Evaluating') \in Nat
      BY <2>1, EvaluatingLemma, FS_RemoveElement, FS_CardinalityType
    <2> QED
      BY <1>1, <2>2 DEF SlotsAreAccounted, Evaluating
  <1>5. CASE call[c].gone
    <2>1. PICK code, status :
            /\ code \in {403, 503} /\ Responds(c, code, status, << >>)
            /\ [code |-> code, status |-> status, decision |-> << >>] \in Answers
      BY <1>2, <1>3, <1>5, UnrecordedLemma
    <2>2. /\ EnvelopeInv' /\ OthersKept(c) /\ call'[c].at = "done"
          /\ answer'[c] = [code |-> code, status |-> status, decision |-> << >>]
      BY <1>1, <2>1, RespondsLemma
    <2>3. ~HasRecord(decisions, NewDecisionID(c)) /\ runs[c].state = "none"
      BY <1>1, EarlyLemma
    <2>4. CallInv(c)'
      BY <1>1, <2>1, <2>2, <2>3, RefusalLemma
    <2>5. SlotsAreAccounted' /\ slots' \in 0..capacity
      BY <1>4, <2>2
    <2> QED
      BY <1>1, <2>2, <2>4, <2>5, UnchangedKept, HandlerLemma
  <1>6. CASE ~call[c].gone
    <2>1. Goes(c, k)
      BY <1>2, <1>6
    <2>2. /\ k \in CallRecords /\ k.at = "recording" /\ k.envelope = call[c].envelope /\ k.body = call[c].body
          /\ k.key = call[c].key /\ k.agent = call[c].agent /\ k.rec = rec
      BY <1>1, <1>3 DEF CallRecords, Places
    <2> HIDE DEF k
    <2>3. EnvelopeInv' /\ OthersKept(c) /\ call'[c] = k /\ answer'[c] = answer[c] /\ content' = content
      BY <1>1, <2>1, <2>2, GoesLemma
    <2>4. Truthful(c, call[c].rec)'
      BY <1>1, <1>3, <2>2, <2>3 DEF Truthful
    <2>5. HandlerInv(c)'
      BY <1>1, <2>2, <2>3, <2>4 DEF HandlerInv, CallInv
    <2>6. CallInv(c)'
      BY <1>1, <2>3, <2>5, EarlyOutcome DEF CallInv
    <2>7. SlotsAreAccounted' /\ slots' \in 0..capacity
      BY <1>4, <2>2, <2>3
    <2> QED
      BY <1>1, <2>3, <2>6, <2>7, UnchangedKept, HandlerLemma
  <1> QED
    BY <1>5, <1>6

(* A response that names the decision, which is on record. *)
LEMMA NamedLemma ==
  ASSUME NEW c \in Calls, call'[c].at = "done", NEW code \in {403, 409}, NEW status,
         answer'[c] = [code |-> code, status |-> status, decision |-> NewDecisionID(c)],
         HasRecord(decisions', NewDecisionID(c)),
         Truthful(c, GetDecision(decisions, NewDecisionID(c)))',
         GetDecision(decisions', NewDecisionID(c)).verdict =
            CASE status = "rejected" -> "DENY"
              [] status = "not_executed" /\ code = 403 -> "REQUIRE_APPROVAL"
              [] OTHER -> "ALLOW",
         runs'[c].state = "none"
  PROVE  CallInv(c)'
  <1>1. answer'[c].code = code /\ answer'[c].status = status /\ answer'[c].decision = NewDecisionID(c)
    OBVIOUS
  <1>2. HandlerInv(c)'
    BY DEF HandlerInv, Active
  <1>3. OutcomeInv(c)'
    BY <1>1 DEF OutcomeInv, NewDecisionID
  <1>4. AnswerIsTrue(c)'
    BY <1>1 DEF AnswerIsTrue, NewDecisionID
  <1> QED
    BY <1>2, <1>3, <1>4 DEF CallInv

LEMMA RecordDecisionLemma ==
  ASSUME IngressInv, NEW c \in Calls, RecordDecision(c)
  PROVE  IngressInv'
  <1> USE InvParts
  <1> DEFINE rec == call[c].rec
             k == [call[c] EXCEPT !.at = "starting", !.rec = rec]
  <1>1. /\ call[c].at = "recording" /\ c \in Active /\ call[c] \in CallRecords
        /\ decisions' = AppendDecision(decisions, rec)
        /\ AfterRecord(c, rec, Accepted(decisions, rec))
        /\ UNCHANGED <<keyring, policy, capacity, slots, runs>>
    BY DEF RecordDecision, Active, EnvelopeInv
  <1>2. Truthful(c, rec) /\ rec.id = NewDecisionID(c)
    BY <1>1 DEF CallInv, HandlerInv, Truthful
  <1>3. ~HasRecord(decisions, NewDecisionID(c)) /\ runs[c].state = "none"
    BY <1>1, EarlyLemma
  <1>4. /\ IsTable(decisions') /\ \A d \in Calls \ {c} : RowKept(d)
        /\ HasRecord(decisions', NewDecisionID(c)) /\ GetDecision(decisions', NewDecisionID(c)) = rec
    BY <1>1, <1>2, <1>3, RecordedLemma
  <1>5. Accepted(decisions, rec)
    BY <1>2, <1>3 DEF Accepted
  <1>6. rec.verdict \in Verdicts
    BY <1>2, EvaluateLemma DEF Truthful
  <1>7. ASSUME call'[c].key = call[c].key, call'[c].body = call[c].body
        PROVE  Truthful(c, GetDecision(decisions, NewDecisionID(c)))'
    BY <1>1, <1>2, <1>4, <1>7 DEF Truthful, NewDecisionID
  <1>8. ASSUME NEW status \in {"rejected", "not_executed"}, Responds(c, 403, status, NewDecisionID(c)),
               rec.verdict = IF status = "rejected" THEN "DENY" ELSE "REQUIRE_APPROVAL",
               [code |-> 403, status |-> status, decision |-> NewDecisionID(c)] \in Answers
        PROVE  IngressInv'
    <2>2. /\ EnvelopeInv' /\ OthersKept(c)
          /\ call'[c].at = "done" /\ call'[c].key = call[c].key /\ call'[c].body = call[c].body
          /\ answer'[c] = [code |-> 403, status |-> status, decision |-> NewDecisionID(c)]
      BY <1>1, <1>8, RespondsLemma
    <2>3. CallInv(c)'
      <3>1. Truthful(c, GetDecision(decisions, NewDecisionID(c)))'
        BY <1>7, <2>2
      <3>2. GetDecision(decisions', NewDecisionID(c)).verdict =
              CASE status = "rejected" -> "DENY"
                [] status = "not_executed" /\ 403 = 403 -> "REQUIRE_APPROVAL"
                [] OTHER -> "ALLOW"
        BY <1>4, <1>8
      <3>3. runs'[c].state = "none"
        BY <1>1, <1>3
      <3> QED
        BY <1>4, <2>2, <3>1, <3>2, <3>3, NamedLemma
    <2>4. SlotsAreAccounted'
      BY <1>1, <2>2, SlotsKept DEF OthersKept
    <2> QED
      BY <1>1, <1>4, <2>2, <2>3, <2>4, UnchangedKept, HandlerLemma
  <1>9. CASE rec.verdict = "DENY"
    <2>1. Responds(c, 403, "rejected", NewDecisionID(c))
      BY <1>1, <1>2, <1>5, <1>9 DEF AfterRecord
    <2>2. [code |-> 403, status |-> "rejected", decision |-> NewDecisionID(c)] \in Answers
      BY DEF Answers
    <2> QED
      BY <1>8, <1>9, <2>1, <2>2
  <1>10. CASE rec.verdict = "REQUIRE_APPROVAL"
    <2>1. Responds(c, 403, "not_executed", NewDecisionID(c))
      BY <1>1, <1>2, <1>5, <1>10 DEF AfterRecord
    <2>2. [code |-> 403, status |-> "not_executed", decision |-> NewDecisionID(c)] \in Answers
      BY DEF Answers
    <2> QED
      BY <1>8, <1>10, <2>1, <2>2
  <1>11. CASE rec.verdict = "ALLOW"
    <2>1. Goes(c, k)
      BY <1>1, <1>5, <1>11 DEF AfterRecord
    <2>2. /\ k \in CallRecords /\ k.at = "starting" /\ k.envelope = call[c].envelope /\ k.body = call[c].body
          /\ k.key = call[c].key /\ k.agent = call[c].agent /\ k.rec = rec
      BY <1>1 DEF CallRecords, Places
    <2> HIDE DEF k
    <2>3. EnvelopeInv' /\ OthersKept(c) /\ call'[c] = k /\ answer'[c] = answer[c] /\ content' = content
      BY <1>1, <2>1, <2>2, GoesLemma
    <2>4. Truthful(c, GetDecision(decisions, NewDecisionID(c)))'
      BY <1>7, <2>2, <2>3
    <2>5. Truthful(c, call[c].rec)'
      BY <1>1, <1>2, <2>2, <2>3 DEF Truthful
    <2>6. HandlerInv(c)'
      BY <1>1, <1>4, <1>11, <2>2, <2>3, <2>5 DEF HandlerInv, CallInv, NewDecisionID
    <2>7. answer[c].code = 0 /\ answer[c].decision = << >>
      BY <1>1 DEF CallInv, OutcomeInv
    <2>8. OutcomeInv(c)'
      BY <1>1, <1>3, <2>2, <2>3, <2>4, <2>7 DEF OutcomeInv, NewDecisionID
    <2>9. AnswerIsTrue(c)'
      BY <1>1, <1>3, <2>3, <2>7 DEF AnswerIsTrue, NewDecisionID
    <2>10. SlotsAreAccounted'
      BY <1>1, <2>2, <2>3, SlotsKept DEF OthersKept
    <2> QED
      BY <1>1, <1>4, <2>3, <2>6, <2>8, <2>9, <2>10, UnchangedKept, HandlerLemma DEF CallInv
  <1> QED
    BY <1>6, <1>9, <1>10, <1>11 DEF Verdicts

LEMMA RecordFailsLemma ==
  ASSUME IngressInv, NEW c \in Calls, RecordFails(c)
  PROVE  IngressInv'
  <1> USE InvParts
  <1> DEFINE rec == call[c].rec
  <1>1. /\ call[c].at = "recording" /\ c \in Active
        /\ UNCHANGED decisions \/ decisions' = AppendDecision(decisions, rec)
        /\ AfterRecord(c, rec, FALSE)
        /\ UNCHANGED <<keyring, policy, capacity, slots, runs>>
    BY DEF RecordFails, Active
  <1>2. Truthful(c, rec) /\ rec.id = NewDecisionID(c)
    BY <1>1 DEF CallInv, HandlerInv, Truthful
  <1>3. ~HasRecord(decisions, NewDecisionID(c)) /\ runs[c].state = "none"
    BY <1>1, EarlyLemma
  <1>4. rec.verdict \in Verdicts
    BY <1>2, EvaluateLemma DEF Truthful
  <1>a. AfterRecord(c, rec, FALSE)
    BY <1>1
  <1> HIDE DEF rec
  <1>5. PICK code, status :
          /\ code \in {403, 503} /\ Responds(c, code, status, << >>)
          /\ [code |-> code, status |-> status, decision |-> << >>] \in Answers
    BY <1>a, <1>4, UnrecordedLemma
  <1>6. /\ EnvelopeInv' /\ OthersKept(c)
        /\ call'[c].at = "done" /\ call'[c].key = call[c].key /\ call'[c].body = call[c].body
        /\ answer'[c] = [code |-> code, status |-> status, decision |-> << >>]
    BY <1>1, <1>5, RespondsLemma
  <1>7. SlotsAreAccounted'
    BY <1>1, <1>6, SlotsKept DEF OthersKept
  <1>8. CASE UNCHANGED decisions
    <2>1. CallInv(c)'
      BY <1>1, <1>3, <1>5, <1>6, <1>8, RefusalLemma
    <2> QED
      BY <1>1, <1>6, <1>7, <1>8, <2>1, UnchangedKept, HandlerLemma
  <1>9. CASE decisions' = AppendDecision(decisions, rec)
    <2>1. /\ IsTable(decisions') /\ \A d \in Calls \ {c} : RowKept(d)
          /\ HasRecord(decisions', NewDecisionID(c)) /\ GetDecision(decisions', NewDecisionID(c)) = rec
      BY <1>2, <1>3, <1>9, RecordedLemma
    <2>2. Truthful(c, GetDecision(decisions, NewDecisionID(c)))'
      BY <1>1, <1>2, <1>6, <2>1 DEF Truthful, NewDecisionID
    <2>3. CallInv(c)'
      BY <1>1, <1>3, <1>5, <1>6, <2>2, RefusalLemma
    <2> QED
      BY <1>1, <1>6, <1>7, <2>1, <2>3, UnchangedKept, HandlerLemma
  <1> QED
    BY <1>1, <1>8, <1>9

(* The run that ExecuteWorkflow starts carries the recorded decision. *)
LEMMA StartedLemma ==
  ASSUME IngressInv, NEW c \in Calls, call[c].at = "starting", runs' = Started(c)
  PROVE  /\ runs' \in [Calls -> RunRecords] /\ \A d \in Calls \ {c} : RunKept(d)
         /\ runs'[c].state = "open"
         /\ runs'[c].workflow = workflowID(call[c].body)
         /\ runs'[c].request = [agent |-> call[c].rec.agent, proposal |-> call[c].body,
                                decision |-> NewDecisionID(c), hash |-> RequestHash(call[c].body)]
  <1> DEFINE rec == call[c].rec
             q == [agent |-> call[c].agent, proposal |-> content[call[c].envelope],
                   decision |-> rec.id, hash |-> rec.hash]
             run == [state |-> "open", workflow |-> rec.workflow, request |-> q]
  <1>1. c \in Active /\ call[c].agent \in AgentNames
    BY InvParts DEF Active, EnvelopeInv
  <1>2. /\ content[call[c].envelope] = call[c].body /\ call[c].body \in Decodable
        /\ Truthful(c, rec) /\ rec.verdict = "ALLOW"
        /\ call[c].agent = Resolve(keyring, call[c].key)
    BY <1>1, InvParts DEF CallInv, HandlerInv
  <1>3. /\ rec.id = NewDecisionID(c) /\ rec.hash = RequestHash(call[c].body)
        /\ rec.workflow = workflowID(call[c].body) /\ rec.agent = call[c].agent
    BY <1>2 DEF Truthful
  <1>4. runs' = [runs EXCEPT ![c] = run]
    BY DEF Started
  <1>5. q \in Requests
    BY <1>1, <1>2, <1>3 DEF Requests
  <1>6. q = [agent |-> rec.agent, proposal |-> call[c].body,
             decision |-> NewDecisionID(c), hash |-> RequestHash(call[c].body)]
    BY <1>2, <1>3
  <1> HIDE DEF q
  <1>7. run \in RunRecords /\ run.state = "open" /\ run.workflow = workflowID(call[c].body) /\ run.request = q
    BY <1>2, <1>3, <1>5 DEF RunRecords
  <1> HIDE DEF run
  <1>8. runs'[c] = run /\ runs' \in [Calls -> RunRecords] /\ \A d \in Calls \ {c} : runs'[d] = runs[d]
    BY <1>4, <1>7, InvParts
  <1> QED
    BY <1>6, <1>7, <1>8 DEF RunKept

LEMMA StartWorkflowLemma ==
  ASSUME IngressInv, NEW c \in Calls, StartWorkflow(c)
  PROVE  IngressInv'
  <1> USE InvParts
  <1> DEFINE rec == call[c].rec
  <1>1. /\ call[c].at = "starting" /\ c \in Active
        /\ UNCHANGED <<keyring, policy, capacity, slots, decisions>>
    BY DEF StartWorkflow, Active
  <1>2. /\ Truthful(c, rec) /\ rec.id = NewDecisionID(c) /\ rec.verdict = "ALLOW"
        /\ HasRecord(decisions, NewDecisionID(c)) /\ GetDecision(decisions, NewDecisionID(c)) = rec
    BY <1>1 DEF CallInv, HandlerInv, Truthful
  <1>3. runs[c].state = "none"
    BY <1>1 DEF CallInv, OutcomeInv
  <1>4. HasRecord(decisions', NewDecisionID(c)) /\ GetDecision(decisions', NewDecisionID(c)) = rec
    BY <1>1, <1>2
  <1>5. CASE Open(rec.workflow)
    <2>1. Responds(c, 409, "not_executed", NewDecisionID(c)) /\ UNCHANGED runs
      BY <1>2, <1>5 DEF StartWorkflow
    <2>2. [code |-> 409, status |-> "not_executed", decision |-> NewDecisionID(c)] \in Answers
      BY DEF Answers
    <2>3. /\ EnvelopeInv' /\ OthersKept(c)
          /\ call'[c].at = "done" /\ call'[c].key = call[c].key /\ call'[c].body = call[c].body
          /\ answer'[c] = [code |-> 409, status |-> "not_executed", decision |-> NewDecisionID(c)]
      BY <1>1, <2>1, <2>2, RespondsLemma
    <2>4. CallInv(c)'
      <3>1. Truthful(c, GetDecision(decisions, NewDecisionID(c)))'
        BY <1>1, <1>4, <2>3, UnchangedKept, RowStaysTrue
      <3>2. GetDecision(decisions', NewDecisionID(c)).verdict =
              CASE "not_executed" = "rejected" -> "DENY"
                [] "not_executed" = "not_executed" /\ 409 = 403 -> "REQUIRE_APPROVAL"
                [] OTHER -> "ALLOW"
        BY <1>2, <1>4
      <3> QED
        BY <1>3, <1>4, <2>1, <2>3, <3>1, <3>2, NamedLemma
    <2>5. SlotsAreAccounted'
      BY <1>1, <2>3, SlotsKept DEF OthersKept
    <2> QED
      BY <1>1, <2>1, <2>3, <2>4, <2>5, UnchangedKept, HandlerLemma
  <1>6. CASE ~Open(rec.workflow)
    <2>1. Responds(c, 200, "accepted", NewDecisionID(c)) /\ runs' = Started(c)
      BY <1>2, <1>6 DEF StartWorkflow
    <2>2. [code |-> 200, status |-> "accepted", decision |-> NewDecisionID(c)] \in Answers
      BY DEF Answers
    <2>3. /\ EnvelopeInv' /\ OthersKept(c)
          /\ call'[c].at = "done" /\ call'[c].key = call[c].key /\ call'[c].body = call[c].body
          /\ answer'[c] = [code |-> 200, status |-> "accepted", decision |-> NewDecisionID(c)]
      BY <1>1, <2>1, <2>2, RespondsLemma
    <2>4. /\ runs' \in [Calls -> RunRecords] /\ \A d \in Calls \ {c} : RunKept(d)
          /\ runs'[c].state = "open" /\ runs'[c].workflow = workflowID(call[c].body)
          /\ runs'[c].request = [agent |-> rec.agent, proposal |-> call[c].body,
                                 decision |-> NewDecisionID(c), hash |-> RequestHash(call[c].body)]
      BY <1>1, <2>1, StartedLemma
    <2>5. CallInv(c)'
      <3>1. HandlerInv(c)'
        BY <2>3 DEF HandlerInv, Active
      <3>2. Truthful(c, GetDecision(decisions, NewDecisionID(c)))'
        BY <1>1, <1>4, <2>3, UnchangedKept, RowStaysTrue
      <3>3. OutcomeInv(c)'
        BY <1>2, <1>4, <2>3, <2>4, <3>2 DEF OutcomeInv, NewDecisionID
      <3>4. AnswerIsTrue(c)'
        BY <1>2, <1>4, <2>3, <2>4 DEF AnswerIsTrue, NewDecisionID
      <3> QED
        BY <3>1, <3>3, <3>4 DEF CallInv
    <2>6. SlotsAreAccounted'
      BY <1>1, <2>3, SlotsKept DEF OthersKept
    <2> QED
      BY <1>1, <2>3, <2>4, <2>5, <2>6, UnchangedKept, HandlerLemma
  <1> QED
    BY <1>5, <1>6

LEMMA StartFailsLemma ==
  ASSUME IngressInv, NEW c \in Calls, StartFails(c)
  PROVE  IngressInv'
  <1> USE InvParts
  <1> DEFINE rec == call[c].rec
  <1>1. /\ call[c].at = "starting" /\ c \in Active
        /\ UNCHANGED runs \/ runs' = Started(c)
        /\ Responds(c, 502, "error", << >>)
        /\ UNCHANGED <<keyring, policy, capacity, slots, decisions>>
    BY DEF StartFails, Active
  <1>2. [code |-> 502, status |-> "error", decision |-> << >>] \in Answers
    BY DEF Answers
  <1>3. runs[c].state = "none"
    BY <1>1 DEF CallInv, OutcomeInv
  <1>4. CASE UNCHANGED runs
    BY <1>1, <1>2, <1>3, <1>4, QuietRefusal
  <1>5. CASE runs' = Started(c)
    <2>1. /\ EnvelopeInv' /\ OthersKept(c)
          /\ call'[c].at = "done" /\ call'[c].key = call[c].key /\ call'[c].body = call[c].body
          /\ answer'[c] = [code |-> 502, status |-> "error", decision |-> << >>]
      BY <1>1, <1>2, RespondsLemma
    <2>2. /\ runs' \in [Calls -> RunRecords] /\ \A d \in Calls \ {c} : RunKept(d)
          /\ runs'[c].state = "open" /\ runs'[c].workflow = workflowID(call[c].body)
          /\ runs'[c].request = [agent |-> rec.agent, proposal |-> call[c].body,
                                 decision |-> NewDecisionID(c), hash |-> RequestHash(call[c].body)]
      BY <1>1, <1>5, StartedLemma
    <2>3. /\ rec.verdict = "ALLOW" /\ HasRecord(decisions', NewDecisionID(c))
          /\ GetDecision(decisions', NewDecisionID(c)) = rec
      BY <1>1 DEF CallInv, HandlerInv
    <2>4. CallInv(c)'
      <3>1. HandlerInv(c)'
        BY <2>1 DEF HandlerInv, Active
      <3>2. Truthful(c, GetDecision(decisions, NewDecisionID(c)))'
        BY <1>1, <2>1, <2>3, UnchangedKept, RowStaysTrue
      <3>3. OutcomeInv(c)'
        BY <2>1, <2>2, <2>3, <3>2 DEF OutcomeInv, NewDecisionID
      <3>4. AnswerIsTrue(c)'
        BY <2>1 DEF AnswerIsTrue, NewDecisionID
      <3> QED
        BY <3>1, <3>3, <3>4 DEF CallInv
    <2>5. SlotsAreAccounted'
      BY <1>1, <2>1, SlotsKept DEF OthersKept
    <2> QED
      BY <1>1, <2>1, <2>2, <2>4, <2>5, UnchangedKept, HandlerLemma
  <1> QED
    BY <1>1, <1>4, <1>5

LEMMA ContextEndsLemma ==
  ASSUME IngressInv, NEW c \in Calls, ContextEnds(c)
  PROVE  IngressInv'
  <1> USE InvParts
  <1> DEFINE k == [call[c] EXCEPT !.gone = TRUE]
  <1>1. /\ c \in Active /\ call[c] \in CallRecords /\ Goes(c, k)
        /\ UNCHANGED <<keyring, policy, capacity, slots, decisions, runs>>
    BY DEF ContextEnds, EnvelopeInv
  <1>2. /\ k \in CallRecords /\ k.at = call[c].at /\ k.envelope = call[c].envelope /\ k.body = call[c].body
        /\ k.key = call[c].key /\ k.agent = call[c].agent /\ k.rec = call[c].rec
    BY <1>1 DEF CallRecords
  <1>3. call[c].at \notin {"new", "done", "dead"}
    BY <1>1 DEF Active
  <1> HIDE DEF k
  <1>4. EnvelopeInv' /\ OthersKept(c) /\ call'[c] = k /\ answer'[c] = answer[c] /\ content' = content
    BY <1>1, <1>2, <1>3, GoesLemma
  <1>5. CallInv(c)'
    <2>1. call[c].at \in {"recording", "starting"} => Truthful(c, call[c].rec)'
      BY <1>1, <1>2, <1>4 DEF CallInv, HandlerInv, Truthful
    <2>2. HandlerInv(c)'
      BY <1>1, <1>2, <1>4, <2>1 DEF CallInv, HandlerInv, Active, NewDecisionID
    <2>3. HasRecord(decisions', NewDecisionID(c)) => Truthful(c, GetDecision(decisions, NewDecisionID(c)))'
      BY <1>1, <1>2, <1>4, UnchangedKept, RowStaysTrue
    <2>4. OutcomeInv(c)'
      BY <1>1, <1>2, <1>4, <2>3 DEF CallInv, OutcomeInv, NewDecisionID
    <2>5. AnswerIsTrue(c)'
      BY <1>1, <1>4 DEF CallInv, AnswerIsTrue, NewDecisionID
    <2> QED
      BY <2>2, <2>4, <2>5 DEF CallInv
  <1>6. SlotsAreAccounted'
    BY <1>1, <1>2, <1>4, SlotsKept DEF OthersKept
  <1> QED
    BY <1>1, <1>4, <1>5, <1>6, UnchangedKept, HandlerLemma

(* A step that no handler sees. *)
LEMMA AsideLemma ==
  ASSUME IngressInv, UNCHANGED <<keyring, capacity, proxyVars, call, answer>>, policy' \in Policies,
         IsTable(decisions'), \A d \in Calls : RowKept(d),
         runs' \in [Calls -> RunRecords], \A d \in Calls : RunKept(d)
  PROVE  IngressInv'
  <1> USE InvParts
  <1>1. UNCHANGED <<slots, pool, content>>
    BY DEF proxyVars
  <1>2. EnvelopeInv'
    BY <1>1 DEF EnvelopeInv, EnvelopesAreExclusive, Active
  <1>3. \A d \in Calls : CallInv(d)'
    BY <1>1, KeptLemma
  <1>4. SlotsAreAccounted'
    BY <1>1 DEF SlotsAreAccounted
  <1>5. TypeOK'
    BY <1>1, <1>2 DEF IngressInv, TypeOK, EnvelopeInv
  <1> QED
    BY <1>2, <1>3, <1>4, <1>5 DEF IngressInv, CallInv, EnvelopeInv, AnswersAreTrue

(* A run that moves on. *)
LEMMA RunMovesLemma ==
  ASSUME runs \in [Calls -> RunRecords], NEW c \in Calls, runs[c].state # "none",
         NEW state \in {"decided", "closed"}, runs' = [runs EXCEPT ![c].state = state]
  PROVE  runs' \in [Calls -> RunRecords] /\ \A d \in Calls : RunKept(d)
  <1> DEFINE r == [runs[c] EXCEPT !.state = state]
  <1>1. /\ runs[c] \in RunRecords /\ r \in RunRecords /\ r.state = state /\ state # "none"
        /\ r.workflow = runs[c].workflow /\ r.request = runs[c].request
    BY DEF RunRecords
  <1>2. runs' = [runs EXCEPT ![c] = r]
    OBVIOUS
  <1> HIDE DEF r
  <1>3. runs'[c] = r /\ \A d \in Calls \ {c} : runs'[d] = runs[d]
    BY <1>2
  <1>4. runs' \in [Calls -> RunRecords]
    BY <1>1, <1>2
  <1> QED
    BY <1>1, <1>3, <1>4 DEF RunKept

LEMMA RunDecidesLemma ==
  ASSUME IngressInv, NEW c \in Calls, RunDecides(c)
  PROVE  IngressInv'
  <1> USE InvParts
  <1>1. PICK rec : rec.id = <<"wf", c>> /\ decisions' = AppendDecision(decisions, rec)
    BY DEF RunDecides
  <1>2. /\ runs[c].state = "open" /\ runs' = [runs EXCEPT ![c].state = "decided"]
        /\ UNCHANGED <<keyring, policy, capacity, proxyVars, call, answer>>
    BY DEF RunDecides
  <1>3. /\ IsTable(decisions')
        /\ \A id : HasRecord(decisions', id) <=> HasRecord(decisions, id) \/ id = <<"wf", c>>
        /\ \A id : HasRecord(decisions, id) => GetDecision(decisions', id) = GetDecision(decisions, id)
    BY <1>1, AppendLemma
  <1>4. \A d \in Calls : RowKept(d)
    BY <1>3 DEF RowKept, NewDecisionID
  <1>5. runs' \in [Calls -> RunRecords] /\ \A d \in Calls : RunKept(d)
    BY <1>2, RunMovesLemma
  <1> QED
    BY <1>2, <1>3, <1>4, <1>5, AsideLemma

LEMMA RunClosesLemma ==
  ASSUME IngressInv, NEW c \in Calls, RunCloses(c)
  PROVE  IngressInv'
  <1> USE InvParts
  <1>1. /\ runs[c].state # "none" /\ runs' = [runs EXCEPT ![c].state = "closed"]
        /\ UNCHANGED <<keyring, policy, capacity, proxyVars, call, answer, decisions>>
    BY DEF RunCloses
  <1>2. runs' \in [Calls -> RunRecords] /\ \A d \in Calls : RunKept(d)
    BY <1>1, RunMovesLemma
  <1> QED
    BY <1>1, <1>2, UnchangedKept, AsideLemma

LEMMA ReloadPolicyLemma ==
  ASSUME IngressInv, ReloadPolicy
  PROVE  IngressInv'
  BY InvParts, UnchangedKept, AsideLemma DEF ReloadPolicy

LEMMA SlotsForLemma == \A s \in Policies : SlotsFor(s) \in Nat \ {0}
  BY PoliciesAssumption DEF SlotsFor

LEMMA RestartLemma ==
  ASSUME IngressInv, Restart
  PROVE  IngressInv'
  <1> USE InvParts
  <1>1. /\ policy' \in Policies /\ capacity' = SlotsFor(policy') /\ slots' = 0
        /\ pool' = Envelopes /\ content' = [e \in Envelopes |-> Zero]
        /\ call' = [c \in Calls |-> IF c \in Active THEN Ended(call[c], "dead") ELSE call[c]]
        /\ UNCHANGED <<keyring, answer, decisions, runs>>
    BY DEF Restart
  <1>2. \A c \in Calls : call[c] \in CallRecords
    BY DEF EnvelopeInv
  <1>3. \A c \in Active : /\ call'[c] \in CallRecords /\ call'[c].at = "dead"
                          /\ call'[c].key = call[c].key /\ call'[c].body = call[c].body
    <2> SUFFICES ASSUME NEW c \in Active
                 PROVE  /\ call'[c] \in CallRecords /\ call'[c].at = "dead"
                        /\ call'[c].key = call[c].key /\ call'[c].body = call[c].body
      OBVIOUS
    <2>1. c \in Calls /\ call'[c] = Ended(call[c], "dead")
      BY <1>1 DEF Active
    <2> QED
      BY <1>2, <2>1 DEF Ended, NewCall, CallRecords, Places
  <1>4. \A c \in Calls \ Active : call'[c] = call[c]
    BY <1>1
  <1>5. Active' = {}
    BY <1>3, <1>4 DEF Active
  <1>6. EnvelopeInv'
    <2>1. call' \in [Calls -> CallRecords]
      BY <1>1, <1>2, <1>3, <1>4
    <2> QED
      BY <1>1, <1>5, <2>1 DEF EnvelopeInv, EnvelopesAreExclusive
  <1>7. \A c \in Calls : CallInv(c)'
    <2>1. ASSUME NEW c \in Calls \ Active
          PROVE  CallInv(c)'
      BY <1>1, <1>4, UnchangedKept, KeptLemma
    <2>2. ASSUME NEW c \in Active
          PROVE  CallInv(c)'
      <3>1. c \in Calls /\ call[c].at # "done"
        BY DEF Active
      <3>2. HandlerInv(c)'
        BY <1>3, <1>5 DEF HandlerInv
      <3>3. HasRecord(decisions', NewDecisionID(c)) => Truthful(c, GetDecision(decisions, NewDecisionID(c)))'
        BY <1>1, <1>3, <3>1, UnchangedKept, RowStaysTrue
      <3>4. OutcomeInv(c)'
        BY <1>1, <1>3, <3>1, <3>3 DEF CallInv, OutcomeInv, NewDecisionID
      <3>5. AnswerIsTrue(c)'
        BY <1>1, <3>1 DEF CallInv, AnswerIsTrue, NewDecisionID
      <3> QED
        BY <3>2, <3>4, <3>5 DEF CallInv
    <2> QED
      BY <2>1, <2>2
  <1>8. SlotsAreAccounted'
    <2>1. \A c \in Calls : call'[c].at # "evaluating"
      BY <1>5 DEF Active
    <2>2. {c \in Calls : call'[c].at = "evaluating"} = {}
      BY <2>1
    <2> QED
      BY <1>1, <2>2, FS_EmptySet DEF SlotsAreAccounted
  <1>9. TypeOK'
    <2>1. capacity' \in Nat \ {0} /\ slots' \in 0..capacity'
      BY <1>1, SlotsForLemma
    <2> QED
      BY <1>1, <1>6, <2>1 DEF IngressInv, TypeOK, EnvelopeInv
  <1> QED
    BY <1>1, <1>6, <1>7, <1>8, <1>9 DEF IngressInv, CallInv, EnvelopeInv, AnswersAreTrue

-----------------------------------------------------------------------------
(* The theorems. *)

LEMMA IngressInit == Init => IngressInv
  <1> SUFFICES ASSUME Init
               PROVE  IngressInv
    OBVIOUS
  <1>1. \A c \in Calls : call[c] = NewCall /\ answer[c] = NoAnswer /\ runs[c] = NoRun
    BY DEF Init
  <1>2. \A c \in Calls : call[c].at = "new" /\ runs[c].state = "none"
                         /\ answer[c].code = 0 /\ answer[c].decision = << >>
    <2>1. NewCall.at = "new"
      BY DEF NewCall
    <2>2. NoRun.state = "none"
      BY DEF NoRun
    <2>3. NoAnswer.code = 0 /\ NoAnswer.decision = << >>
      BY DEF NoAnswer
    <2> QED
      BY <1>1, <2>1, <2>2, <2>3
  <1>3. Active = {}
    BY <1>2 DEF Active
  <1>4. TypeOK
    <2>1. NewCall \in CallRecords /\ NoRun \in RunRecords
      BY DEF NewCall, CallRecords, Places, NoRun, RunRecords
    <2>2. NoAnswer \in Answers
      BY DEF NoAnswer, Answers
    <2>3. capacity \in Nat \ {0} /\ slots \in 0..capacity
      BY SlotsForLemma DEF Init
    <2> QED
      BY <1>3, <2>1, <2>2, <2>3 DEF Init, TypeOK
  <1>5. IsTable(decisions) /\ \A id : ~HasRecord(decisions, id)
    BY DEF Init, IsTable, HasRecord
  <1>6. EnvelopesAreExclusive
    BY <1>3 DEF Init, EnvelopesAreExclusive
  <1>7. SlotsAreAccounted
    <2>1. {c \in Calls : call[c].at = "evaluating"} = {}
      BY <1>2
    <2> QED
      BY <2>1, FS_EmptySet DEF Init, SlotsAreAccounted
  <1>8. \A c \in Calls : HandlerInv(c) /\ OutcomeInv(c)
    BY <1>2, <1>3, <1>5 DEF HandlerInv, OutcomeInv
  <1>9. AnswersAreTrue
    BY <1>2 DEF AnswersAreTrue, AnswerIsTrue
  <1>10. ParseAgentKeys(keyring)
    BY DEF Init
  <1> QED
    BY <1>4, <1>5, <1>6, <1>7, <1>8, <1>9, <1>10 DEF IngressInv

LEMMA IngressStep ==
  ASSUME IngressInv, [Next]_vars
  PROVE  IngressInv'
  <1>1. CASE \E c \in Calls, key \in Presented, body \in Bodies :
                Unauthorized(c, key, body) \/ \E e \in Envelopes : Acquire(c, key, body, e)
    BY <1>1, UnauthorizedLemma, AcquireLemma
  <1>2. ASSUME NEW c \in Calls, HandlerStep(c)
        PROVE  IngressInv'
    BY <1>2, DecodeLemma, TakeSlotLemma, GiveUpLemma, EvaluateThrottledLemma, RecordDecisionLemma,
       RecordFailsLemma, StartWorkflowLemma, StartFailsLemma DEF HandlerStep
  <1>3. ASSUME NEW c \in Calls, ContextEnds(c) \/ RunDecides(c) \/ RunCloses(c)
        PROVE  IngressInv'
    BY <1>3, ContextEndsLemma, RunDecidesLemma, RunClosesLemma
  <1>4. CASE ReloadPolicy
    BY <1>4, ReloadPolicyLemma
  <1>5. CASE Restart
    BY <1>5, RestartLemma
  <1>6. CASE UNCHANGED vars
    <2>1. UNCHANGED <<keyring, policy, capacity, proxyVars, call, answer, decisions, runs>>
      BY <1>6 DEF vars
    <2> QED
      BY <2>1, InvParts, UnchangedKept, AsideLemma
  <1> QED
    BY <1>1, <1>2, <1>3, <1>4, <1>5, <1>6 DEF Next

(* The inductive invariant of the request path: envelopes, slots, the       *)
(* handlers' locals, the table, the runs and the answers together.          *)
THEOREM IngressCorrect == Spec => []IngressInv
  <1>1. IngressInv /\ [Next]_vars => IngressInv'
    BY IngressStep
  <1> QED
    BY IngressInit, <1>1, PTL DEF Spec

(* Every variable of the request path keeps its type. *)
THEOREM IngressTypeCorrect == Spec => []TypeOK
  <1>1. IngressInv => TypeOK
    BY DEF IngressInv
  <1> QED
    BY IngressCorrect, <1>1, PTL

(* No path out of EvaluateThrottled, a cancelled request's or a restart's   *)
(* included, loses or invents an evaluation slot.                           *)
THEOREM SlotsNeverLeak == Spec => []SlotsAreAccounted
  <1>1. IngressInv => SlotsAreAccounted
    BY DEF IngressInv
  <1> QED
    BY IngressCorrect, <1>1, PTL

(* However many requests share the object pool, an envelope serves one at   *)
(* a time and returns to the pool empty.                                    *)
THEOREM EnvelopesServeOne == Spec => []EnvelopesAreExclusive
  <1>1. IngressInv => EnvelopesAreExclusive
    BY DEF IngressInv
  <1> QED
    BY IngressCorrect, <1>1, PTL

(* Every run that ExecuteWorkflow starts passes the saga's verification of  *)
(* its ingress decision, for the proposal its client sent.                  *)
THEOREM RunsAreBacked == Spec => []StartsAreBacked
  <1>1. IngressInv => StartsAreBacked
    <2> SUFFICES ASSUME IngressInv, NEW c \in Calls, runs[c].state # "none"
                 PROVE  /\ runs[c].request.proposal = call[c].body
                        /\ HasRecord(decisions, runs[c].request.decision)
                        /\ VerifyIngress(GetDecision(decisions, runs[c].request.decision),
                                         runs[c].request, runs[c].workflow) = "VALID"
      BY DEF StartsAreBacked
    <2> DEFINE row == GetDecision(decisions, NewDecisionID(c))
               q == runs[c].request
    <2>1. /\ HasRecord(decisions, NewDecisionID(c)) /\ Truthful(c, row) /\ row.verdict = "ALLOW"
          /\ runs[c].workflow = workflowID(call[c].body)
          /\ q = [agent |-> row.agent, proposal |-> call[c].body,
                  decision |-> NewDecisionID(c), hash |-> RequestHash(call[c].body)]
      BY InvParts DEF CallInv, OutcomeInv
    <2>2. /\ q.agent = row.agent /\ q.proposal = call[c].body /\ q.decision = NewDecisionID(c)
      BY <2>1
    <2>3. /\ row.stage = "INGRESS" /\ row.hash = RequestHash(call[c].body)
          /\ row.proposal = call[c].body.id /\ row.workflow = workflowID(call[c].body)
      BY <2>1 DEF Truthful
    <2> HIDE DEF row, q
    <2>4. VerifyIngress(row, q, runs[c].workflow) = "VALID"
      BY <2>1, <2>2, <2>3 DEF VerifyIngress
    <2> QED
      BY <2>1, <2>2, <2>4 DEF row, q
  <1> QED
    BY IngressCorrect, <1>1, PTL

(* A response stays true: accepted requests have a run of their own         *)
(* decision, refused ones have none, and a named decision is on record with *)
(* the verdict shown.                                                       *)
THEOREM ResponsesAreTrue == Spec => []AnswersAreTrue
  <1>1. IngressInv => AnswersAreTrue
    BY DEF IngressInv
  <1> QED
    BY IngressCorrect, <1>1, PTL

(* A decision record is of the proposal its client sent and carries the     *)
(* verdict of the very policy it names, whatever was reloaded meanwhile.    *)
THEOREM RecordsAreTrue == Spec => []RecordsAreOfTheRequest
  <1>1. IngressInv => RecordsAreOfTheRequest
    <2> SUFFICES ASSUME IngressInv, NEW c \in Calls, HasRecord(decisions, NewDecisionID(c))
                 PROVE  LET rec == GetDecision(decisions, NewDecisionID(c))
                            s == CHOOSE x \in Policies : x.digest = rec.digest
                        IN /\ rec.hash = RequestHash(call[c].body) /\ rec.proposal = call[c].body.id
                           /\ rec.verdict = Evaluate(s, rec.agent, call[c].body).verdict
      BY DEF RecordsAreOfTheRequest
    <2> DEFINE rec == GetDecision(decisions, NewDecisionID(c))
    <2>1. Truthful(c, rec)
      BY InvParts DEF CallInv, OutcomeInv
    <2> HIDE DEF rec
    <2>2. PICK s \in Policies : /\ s.digest = rec.digest
                                /\ rec.verdict = Evaluate(s, rec.agent, call[c].body).verdict
      BY <2>1 DEF Truthful
    <2>3. (CHOOSE x \in Policies : x.digest = rec.digest) = s
      BY <2>2, PoliciesAssumption
    <2> QED
      BY <2>1, <2>2, <2>3 DEF Truthful, rec
  <1> QED
    BY IngressCorrect, <1>1, PTL

(* The agent on record is the one agent the configuration gives the key to. *)
THEOREM RecordedAgentHoldsKey == Spec => []IdentityIsTheKeys
  <1>1. IngressInv => IdentityIsTheKeys
    <2> SUFFICES ASSUME IngressInv, NEW c \in Calls, HasRecord(decisions, NewDecisionID(c))
                 PROVE  {keyring[i].id : i \in {j \in DOMAIN keyring : keyring[j].key = call[c].key}}
                           = {GetDecision(decisions, NewDecisionID(c)).agent}
      BY DEF IdentityIsTheKeys
    <2>1. /\ GetDecision(decisions, NewDecisionID(c)).agent = Resolve(keyring, call[c].key)
          /\ Resolve(keyring, call[c].key) # NoAgent
      BY InvParts DEF CallInv, OutcomeInv, Truthful
    <2> QED
      BY <2>1, InvParts, ResolveLemma
  <1> QED
    BY IngressCorrect, <1>1, PTL
=============================================================================
