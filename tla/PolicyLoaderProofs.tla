-------------------------- MODULE PolicyLoaderProofs --------------------------
(***************************************************************************)
(* What is proved of PolicyLoader for every set of documents, agents,      *)
(* proposals and clients and every number of edits: only accepted policies *)
(* are active, nothing is published after Close, a verdict says what the   *)
(* document says, and tightening a policy allows nothing new.              *)
(***************************************************************************)
EXTENDS PolicyLoader, TLAPS

-----------------------------------------------------------------------------
(* The loader. *)

LEMMA DigestLemma == \A doc : Snapshot(doc).digest = doc
  BY DEF Snapshot

(* What Reload does with the bytes it has read leaves a good policy active. *)
LEMMA AppliedLemma ==
  ASSUME OnlyGoodPolicies, active.digest \in Documents,
         raw \in Documents \cup {Unreadable}, Applied
  PROVE  OnlyGoodPolicies' /\ active'.digest \in Documents
  <1>1. CASE raw = Unreadable
    <2>1. recordError
      BY <1>1 DEF Applied
    <2> QED
      BY <1>1, <2>1 DEF recordError, OnlyGoodPolicies
  <1>2. CASE raw # Unreadable /\ raw = active.digest
    <2>1. clearError
      BY <1>2 DEF Applied
    <2> QED
      BY <2>1 DEF clearError, OnlyGoodPolicies
  <1>3. CASE raw # Unreadable /\ raw # active.digest /\ ~Parses(raw)
    <2>1. recordError
      BY <1>3 DEF Applied
    <2> QED
      BY <1>3, <2>1 DEF recordError, OnlyGoodPolicies
  <1>4. CASE raw # Unreadable /\ raw # active.digest /\ Parses(raw)
    <2>1. Publish
      BY <1>4 DEF Applied
    <2> QED
      BY <1>4, <2>1, DigestLemma DEF Publish, OnlyGoodPolicies
  <1> QED
    BY <1>1, <1>2, <1>3, <1>4

LEMMA LoaderInit == Init => LoaderInv
  BY DigestLemma DEF Init, LoaderInv, OnlyGoodPolicies

LEMMA LoaderStep ==
  ASSUME LoaderInv, [Next]_vars
  PROVE  LoaderInv'
  <1> USE DEF LoaderInv
  <1>1. CASE Edit
    BY <1>1 DEF Edit, OnlyGoodPolicies
  <1>2. CASE ReadFile
    BY <1>2 DEF ReadFile, OnlyGoodPolicies
  <1>3. CASE Reload
    <2>1. OnlyGoodPolicies' /\ active'.digest \in Documents
      BY <1>3, AppliedLemma DEF Reload
    <2> QED
      BY <1>3, <2>1 DEF Reload
  <1>4. CASE Close
    BY <1>4 DEF Close, OnlyGoodPolicies
  <1>5. CASE LoopStops
    BY <1>5 DEF LoopStops, OnlyGoodPolicies
  <1>6. CASE CloseReturns
    BY <1>6 DEF CloseReturns, OnlyGoodPolicies
  <1>7. CASE \E c \in Clients : StatusLoads(c) \/ StatusReports(c)
    BY <1>7 DEF StatusLoads, StatusReports, OnlyGoodPolicies
  <1>8. CASE UNCHANGED vars
    BY <1>8 DEF vars, OnlyGoodPolicies
  <1> QED
    BY <1>1, <1>2, <1>3, <1>4, <1>5, <1>6, <1>7, <1>8 DEF Next

LEMMA LoaderAlways == Spec => []LoaderInv
  <1>1. LoaderInv /\ [Next]_vars => LoaderInv'
    BY LoaderStep
  <1> QED
    BY LoaderInit, <1>1, PTL DEF Spec

(* Whatever is saved, deleted or half written while the loop reloads, the   *)
(* active policy is one that Parse accepted, with the digest and load time  *)
(* of its own document, and an error shown is that of a refused file.       *)
THEOREM PoliciesAreGood == Spec => []OnlyGoodPolicies
  <1>1. LoaderInv => OnlyGoodPolicies
    BY DEF LoaderInv
  <1> QED
    BY LoaderAlways, <1>1, PTL

(* Close waits for the loop: after it has returned nothing stores to the    *)
(* pointer, the load time or the error.                                     *)
THEOREM LoaderStaysClosed == Spec => ClosedForGood
  <1>1. LoaderInv /\ [Next]_vars
          => [closing = "returned" => UNCHANGED <<active, loadedAt, lastErr>>]_vars
    BY DEF LoaderInv, Next, vars, Edit, ReadFile, Reload, Close, LoopStops, CloseReturns,
           StatusLoads, StatusReports
  <1> QED
    BY LoaderAlways, <1>1, PTL DEF Spec, ClosedForGood

-----------------------------------------------------------------------------
(* Sequences of reasons. *)

DenyCodes ==
    {"AGENT_UNKNOWN", "COMMAND_UNKNOWN", "COMMAND_NOT_PERMITTED_FOR_AGENT",
     "TARGET_UNREGISTERED", "TARGET_PROTECTED", "ENVIRONMENT_DENIED"}

LEMMA OneLemma ==
  ASSUME NEW S, NEW x \in S
  PROVE  <<x>> \in Seq(S) /\ DOMAIN <<x>> = {1} /\ <<x>>[1] = x /\ <<x>> # << >>
  OBVIOUS

LEMMA AtMostOneLemma ==
  ASSUME NEW reason \in DenyCodes, NEW w, w = << >> \/ w = <<reason>>
  PROVE  /\ w \in Seq(DenyCodes) /\ IsInjective(w)
         /\ \A x : x \in ToSet(w) <=> w # << >> /\ x = reason
  <1>1. CASE w = << >>
    BY <1>1 DEF ToSet, IsInjective
  <1>2. CASE w = <<reason>>
    <2>1. w \in Seq(DenyCodes) /\ DOMAIN w = {1} /\ w[1] = reason /\ w # << >>
      BY <1>2, OneLemma
    <2> QED
      BY <2>1 DEF ToSet, IsInjective
  <1> QED
    BY <1>1, <1>2

LEMMA ConcatLemma ==
  ASSUME NEW s \in Seq(DenyCodes), NEW t \in Seq(DenyCodes)
  PROVE  /\ s \o t \in Seq(DenyCodes)
         /\ s \o t = << >> <=> s = << >> /\ t = << >>
         /\ ToSet(s \o t) = ToSet(s) \cup ToSet(t)
         /\ IsInjective(s) /\ IsInjective(t) /\ ToSet(s) \cap ToSet(t) = {}
              => IsInjective(s \o t)
  <1>1. s \o t \in Seq(DenyCodes) /\ Len(s \o t) = Len(s) + Len(t)
    OBVIOUS
  <1>2. \A i \in 1..Len(s) : (s \o t)[i] = s[i]
    OBVIOUS
  <1>3. \A i \in 1..Len(t) : (s \o t)[Len(s) + i] = t[i]
    OBVIOUS
  <1>4. \A i \in 1..Len(s \o t) : i \in 1..Len(s) \/ i - Len(s) \in 1..Len(t)
    BY <1>1
  <1>5. \A i \in 1..Len(s \o t) : i \notin 1..Len(s) => (s \o t)[i] = t[i - Len(s)]
    BY <1>1
  <1>6. s \o t = << >> <=> s = << >> /\ t = << >>
    BY <1>1
  <1>7. ToSet(s \o t) = ToSet(s) \cup ToSet(t)
    <2>1. ToSet(s \o t) \subseteq ToSet(s) \cup ToSet(t)
      BY <1>1, <1>2, <1>4, <1>5 DEF ToSet
    <2>2. ToSet(s) \subseteq ToSet(s \o t)
      BY <1>1, <1>2 DEF ToSet
    <2>3. ToSet(t) \subseteq ToSet(s \o t)
      <3> SUFFICES ASSUME NEW i \in 1..Len(t)
                   PROVE  t[i] \in ToSet(s \o t)
        BY DEF ToSet
      <3>1. Len(s) + i \in DOMAIN (s \o t)
        BY <1>1
      <3> QED
        BY <1>3, <3>1 DEF ToSet
    <2> QED
      BY <2>1, <2>2, <2>3
  <1>8. IsInjective(s) /\ IsInjective(t) /\ ToSet(s) \cap ToSet(t) = {} => IsInjective(s \o t)
    <2> SUFFICES ASSUME IsInjective(s), IsInjective(t), ToSet(s) \cap ToSet(t) = {},
                        NEW i \in 1..Len(s \o t), NEW j \in 1..Len(s \o t),
                        (s \o t)[i] = (s \o t)[j]
                 PROVE  i = j
      BY <1>1 DEF IsInjective
    <2>1. CASE i \in 1..Len(s) /\ j \in 1..Len(s)
      BY <2>1, <1>2 DEF IsInjective
    <2>2. CASE i \notin 1..Len(s) /\ j \notin 1..Len(s)
      <3>1. t[i - Len(s)] = t[j - Len(s)]
        BY <2>2, <1>5
      <3>2. i - Len(s) \in DOMAIN t /\ j - Len(s) \in DOMAIN t
        BY <2>2, <1>4
      <3>3. i - Len(s) = j - Len(s)
        BY <3>1, <3>2 DEF IsInjective
      <3> QED
        BY <3>3
    <2>3. CASE i \in 1..Len(s) /\ j \notin 1..Len(s)
      <3>1. s[i] \in ToSet(s) /\ t[j - Len(s)] \in ToSet(t)
        BY <2>3, <1>4 DEF ToSet
      <3> QED
        BY <2>3, <3>1, <1>2, <1>5
    <2>4. CASE i \notin 1..Len(s) /\ j \in 1..Len(s)
      <3>1. s[j] \in ToSet(s) /\ t[i - Len(s)] \in ToSet(t)
        BY <2>4, <1>4 DEF ToSet
      <3> QED
        BY <2>4, <3>1, <1>2, <1>5
    <2> QED
      BY <2>1, <2>2, <2>3, <2>4
  <1> QED
    BY <1>1, <1>6, <1>7, <1>8

(* A further check of DenyReasons. *)
LEMMA AddReasonLemma ==
  ASSUME NEW s \in Seq(DenyCodes), IsInjective(s),
         NEW reason \in DenyCodes, reason \notin ToSet(s), NEW w, w = << >> \/ w = <<reason>>
  PROVE  /\ s \o w \in Seq(DenyCodes)
         /\ IsInjective(s \o w)
         /\ \A x : x \in ToSet(s \o w) <=> x \in ToSet(s) \/ (w # << >> /\ x = reason)
         /\ s \o w = << >> <=> s = << >> /\ w = << >>
  <1>1. /\ w \in Seq(DenyCodes) /\ IsInjective(w)
        /\ \A x : x \in ToSet(w) <=> w # << >> /\ x = reason
    BY AtMostOneLemma
  <1>2. /\ s \o w \in Seq(DenyCodes) /\ (s \o w = << >> <=> s = << >> /\ w = << >>)
        /\ ToSet(s \o w) = ToSet(s) \cup ToSet(w)
        /\ ToSet(s) \cap ToSet(w) = {} => IsInjective(s \o w)
    BY <1>1, ConcatLemma
  <1>3. ToSet(s) \cap ToSet(w) = {}
    BY <1>1
  <1> QED
    BY <1>1, <1>2, <1>3

-----------------------------------------------------------------------------
(* Verdicts. *)

(* Each condition of DenyReasons on its own. *)
Applies(s, a, p, reason) ==
    \/ reason = "AGENT_UNKNOWN" /\ ~HasAgent(s, a)
    \/ reason = "COMMAND_UNKNOWN" /\ ~HasCommand(s, p.type)
    \/ /\ reason = "COMMAND_NOT_PERMITTED_FOR_AGENT"
       /\ HasAgent(s, a) /\ HasCommand(s, p.type) /\ ~AgentMayUse(s, a, p.type)
    \/ reason = "TARGET_UNREGISTERED" /\ ~HasTarget(s, p.target)
    \/ /\ reason = "TARGET_PROTECTED"
       /\ HasTarget(s, p.target) /\ s.targets[p.target].protected
    \/ /\ reason = "ENVIRONMENT_DENIED"
       /\ HasTarget(s, p.target) /\ TargetMode(s, p.target) = "deny"

(* DenyReasons lists every reason that applies, once. *)
LEMMA DenyReasonsLemma ==
  ASSUME NEW s, NEW a, NEW p
  PROVE  /\ \A reason : reason \in ToSet(DenyReasons(s, a, p)) <=> Applies(s, a, p, reason)
         /\ IsInjective(DenyReasons(s, a, p))
         /\ DenyReasons(s, a, p) = << >> <=> \A reason : ~Applies(s, a, p, reason)
  <1> DEFINE c1 == ~HasAgent(s, a)
             c2 == ~HasCommand(s, p.type)
             c3 == HasAgent(s, a) /\ HasCommand(s, p.type) /\ ~AgentMayUse(s, a, p.type)
             c4 == ~HasTarget(s, p.target)
             c5 == HasTarget(s, p.target) /\ s.targets[p.target].protected
             c6 == HasTarget(s, p.target) /\ TargetMode(s, p.target) = "deny"
             w1 == When(c1, "AGENT_UNKNOWN")
             w2 == When(c2, "COMMAND_UNKNOWN")
             w3 == When(c3, "COMMAND_NOT_PERMITTED_FOR_AGENT")
             w4 == When(c4, "TARGET_UNREGISTERED")
             w5 == When(c5, "TARGET_PROTECTED")
             w6 == When(c6, "ENVIRONMENT_DENIED")
             s2 == w1 \o w2
             s3 == s2 \o w3
             s4 == s3 \o w4
             s5 == s4 \o w5
             s6 == s5 \o w6
  <1>1. DenyReasons(s, a, p) = s6
    BY DEF DenyReasons
  <1>w. /\ w1 = IF c1 THEN <<"AGENT_UNKNOWN">> ELSE << >>
        /\ w2 = IF c2 THEN <<"COMMAND_UNKNOWN">> ELSE << >>
        /\ w3 = IF c3 THEN <<"COMMAND_NOT_PERMITTED_FOR_AGENT">> ELSE << >>
        /\ w4 = IF c4 THEN <<"TARGET_UNREGISTERED">> ELSE << >>
        /\ w5 = IF c5 THEN <<"TARGET_PROTECTED">> ELSE << >>
        /\ w6 = IF c6 THEN <<"ENVIRONMENT_DENIED">> ELSE << >>
    BY DEF When
  <1> HIDE DEF w1, w2, w3, w4, w5, w6
  <1>2. \A reason : Applies(s, a, p, reason) <=>
           \/ w1 # << >> /\ reason = "AGENT_UNKNOWN"
           \/ w2 # << >> /\ reason = "COMMAND_UNKNOWN"
           \/ w3 # << >> /\ reason = "COMMAND_NOT_PERMITTED_FOR_AGENT"
           \/ w4 # << >> /\ reason = "TARGET_UNREGISTERED"
           \/ w5 # << >> /\ reason = "TARGET_PROTECTED"
           \/ w6 # << >> /\ reason = "ENVIRONMENT_DENIED"
    BY <1>w, Zenon DEF Applies
  <1>3. /\ (w1 = << >> \/ w1 = <<"AGENT_UNKNOWN">>)
        /\ (w2 = << >> \/ w2 = <<"COMMAND_UNKNOWN">>)
        /\ (w3 = << >> \/ w3 = <<"COMMAND_NOT_PERMITTED_FOR_AGENT">>)
        /\ (w4 = << >> \/ w4 = <<"TARGET_UNREGISTERED">>)
        /\ (w5 = << >> \/ w5 = <<"TARGET_PROTECTED">>)
        /\ (w6 = << >> \/ w6 = <<"ENVIRONMENT_DENIED">>)
    BY <1>w
  <1>c. /\ "AGENT_UNKNOWN" \in DenyCodes /\ "COMMAND_UNKNOWN" \in DenyCodes
        /\ "COMMAND_NOT_PERMITTED_FOR_AGENT" \in DenyCodes
        /\ "TARGET_UNREGISTERED" \in DenyCodes
        /\ "TARGET_PROTECTED" \in DenyCodes /\ "ENVIRONMENT_DENIED" \in DenyCodes
    BY DEF DenyCodes
  <1> HIDE DEF c1, c2, c3, c4, c5, c6
  <1>s1. /\ w1 \in Seq(DenyCodes) /\ IsInjective(w1)
         /\ \A x : x \in ToSet(w1) <=> w1 # << >> /\ x = "AGENT_UNKNOWN"
    BY <1>3, <1>c, AtMostOneLemma
  <1>t1. ToSet(w1) \subseteq {"AGENT_UNKNOWN"}
    BY <1>s1
  <1>s2. /\ s2 \in Seq(DenyCodes) /\ IsInjective(s2) /\ (s2 = << >> <=> w1 = << >> /\ w2 = << >>)
         /\ \A x : x \in ToSet(s2) <=> x \in ToSet(w1) \/ (w2 # << >> /\ x = "COMMAND_UNKNOWN")
    <2>1. "COMMAND_UNKNOWN" \notin ToSet(w1)
      BY <1>t1
    <2> QED BY <1>3, <1>c, <1>s1, <2>1, AddReasonLemma
  <1> HIDE DEF s2
  <1>t2. ToSet(s2) \subseteq {"AGENT_UNKNOWN", "COMMAND_UNKNOWN"}
    BY <1>s2, <1>t1
  <1>s3. /\ s3 \in Seq(DenyCodes) /\ IsInjective(s3) /\ (s3 = << >> <=> s2 = << >> /\ w3 = << >>)
         /\ \A x : x \in ToSet(s3) <=>
               x \in ToSet(s2) \/ (w3 # << >> /\ x = "COMMAND_NOT_PERMITTED_FOR_AGENT")
    <2>1. "COMMAND_NOT_PERMITTED_FOR_AGENT" \notin ToSet(s2)
      BY <1>t2
    <2> QED BY <1>3, <1>c, <1>s2, <2>1, AddReasonLemma
  <1> HIDE DEF s3
  <1>t3. ToSet(s3) \subseteq {"AGENT_UNKNOWN", "COMMAND_UNKNOWN", "COMMAND_NOT_PERMITTED_FOR_AGENT"}
    BY <1>s3, <1>t2
  <1>s4. /\ s4 \in Seq(DenyCodes) /\ IsInjective(s4) /\ (s4 = << >> <=> s3 = << >> /\ w4 = << >>)
         /\ \A x : x \in ToSet(s4) <=> x \in ToSet(s3) \/ (w4 # << >> /\ x = "TARGET_UNREGISTERED")
    <2>1. "TARGET_UNREGISTERED" \notin ToSet(s3)
      BY <1>t3
    <2> QED BY <1>3, <1>c, <1>s3, <2>1, AddReasonLemma
  <1> HIDE DEF s4
  <1>t4. ToSet(s4) \subseteq {"AGENT_UNKNOWN", "COMMAND_UNKNOWN", "COMMAND_NOT_PERMITTED_FOR_AGENT",
                              "TARGET_UNREGISTERED"}
    BY <1>s4, <1>t3
  <1>s5. /\ s5 \in Seq(DenyCodes) /\ IsInjective(s5) /\ (s5 = << >> <=> s4 = << >> /\ w5 = << >>)
         /\ \A x : x \in ToSet(s5) <=> x \in ToSet(s4) \/ (w5 # << >> /\ x = "TARGET_PROTECTED")
    <2>1. "TARGET_PROTECTED" \notin ToSet(s4)
      BY <1>t4
    <2> QED BY <1>3, <1>c, <1>s4, <2>1, AddReasonLemma
  <1> HIDE DEF s5
  <1>t5. ToSet(s5) \subseteq {"AGENT_UNKNOWN", "COMMAND_UNKNOWN", "COMMAND_NOT_PERMITTED_FOR_AGENT",
                              "TARGET_UNREGISTERED", "TARGET_PROTECTED"}
    BY <1>s5, <1>t4
  <1>s6. /\ IsInjective(s6) /\ (s6 = << >> <=> s5 = << >> /\ w6 = << >>)
         /\ \A x : x \in ToSet(s6) <=> x \in ToSet(s5) \/ (w6 # << >> /\ x = "ENVIRONMENT_DENIED")
    <2>1. "ENVIRONMENT_DENIED" \notin ToSet(s5)
      BY <1>t5
    <2> QED BY <1>3, <1>c, <1>s5, <2>1, AddReasonLemma
  <1> HIDE DEF s6
  <1>4. \A reason : reason \in ToSet(s6) <=> Applies(s, a, p, reason)
    BY <1>2, <1>s6, <1>s5, <1>s4, <1>s3, <1>s2, <1>s1
  <1>5. s6 = << >> <=> \A reason : ~Applies(s, a, p, reason)
    BY <1>2, <1>s6, <1>s5, <1>s4, <1>s3, <1>s2, <1>s1
  <1> QED
    BY <1>1, <1>4, <1>5, <1>s6

(* When Evaluate allows. *)
LEMMA AllowsLemma ==
  ASSUME NEW s, NEW a, NEW p, s # NilSnapshot
  PROVE  Evaluate(s, a, p).verdict = "ALLOW" <=>
            /\ HasAgent(s, a) /\ HasCommand(s, p.type) /\ AgentMayUse(s, a, p.type)
            /\ HasTarget(s, p.target) /\ ~s.targets[p.target].protected
            /\ TargetMode(s, p.target) = "allow"
  <1>1. DenyReasons(s, a, p) = << >> <=> \A reason : ~Applies(s, a, p, reason)
    BY DenyReasonsLemma
  <1>2. (\A reason : ~Applies(s, a, p, reason)) <=>
            /\ HasAgent(s, a) /\ HasCommand(s, p.type) /\ AgentMayUse(s, a, p.type)
            /\ HasTarget(s, p.target) /\ ~s.targets[p.target].protected
            /\ TargetMode(s, p.target) # "deny"
    BY Zenon DEF Applies
  <1> QED
    BY <1>1, <1>2 DEF Evaluate, Decided

(* Ids are distinct, so that a list has one entry for each. *)
LEMMA EntryLemma ==
  ASSUME NEW seq, DistinctIds(seq), NEW id
  PROVE  /\ id \in Ids(seq) <=> \E x \in ToSet(seq) : x.id = id
         /\ id \in Ids(seq) =>
               /\ Entry(seq, id) \in ToSet(seq) /\ Entry(seq, id).id = id
               /\ \A x \in ToSet(seq) : x.id = id => x = Entry(seq, id)
  <1>1. id \in Ids(seq) <=> \E x \in ToSet(seq) : x.id = id
    BY DEF Ids, ToSet
  <1>2. ASSUME NEW x \in ToSet(seq), NEW y \in ToSet(seq), x.id = y.id
        PROVE  x = y
    BY <1>2 DEF ToSet, DistinctIds
  <1>3. ASSUME id \in Ids(seq)
        PROVE  Entry(seq, id) \in ToSet(seq) /\ Entry(seq, id).id = id
    BY <1>1, <1>3 DEF Entry
  <1> QED
    BY <1>1, <1>2, <1>3

(* The conditions of DenyReasons on a snapshot are the objections of the    *)
(* document it was built from.                                              *)
LEMMA ObjectionsLemma ==
  ASSUME NEW doc, Parses(doc), NEW a, NEW p
  PROVE  \A reason : reason \in Objections(doc, a, p) <=> Applies(Snapshot(doc), a, p, reason)
  <1> DEFINE s == Snapshot(doc)
             grants == {g \in ToSet(doc.agents) : g.id = a}
             hits == {t \in ToSet(doc.targets) : t.id = p.target}
  <1>1. DistinctIds(doc.agents) /\ DistinctIds(doc.targets)
    BY DEF Parses, WellFormed
  <1>2. /\ s.commands = ToSet(doc.commands)
        /\ DOMAIN s.agents = Ids(doc.agents)
        /\ \A x \in Ids(doc.agents) : s.agents[x] = ToSet(Entry(doc.agents, x).commands)
        /\ DOMAIN s.targets = Ids(doc.targets)
        /\ s.environments = doc.environments
    BY DEF Snapshot
  <1>t. \A x \in Ids(doc.targets) :
           /\ s.targets[x].environment = Entry(doc.targets, x).environment
           /\ s.targets[x].protected <=> Entry(doc.targets, x).protected = "yes"
    BY DEF Snapshot
  <1> HIDE DEF s
  <1>3. HasAgent(s, a) <=> grants # {}
    BY <1>1, <1>2, EntryLemma DEF HasAgent
  <1>4. HasAgent(s, a) => grants = {Entry(doc.agents, a)}
    BY <1>1, <1>2, EntryLemma DEF HasAgent
  <1>5. HasCommand(s, p.type) <=> p.type \in ToSet(doc.commands)
    BY <1>2 DEF HasCommand
  <1>6. HasAgent(s, a) => (AgentMayUse(s, a, p.type) <=> p.type \in ToSet(Entry(doc.agents, a).commands))
    BY <1>2 DEF HasAgent, AgentMayUse
  <1>7. HasTarget(s, p.target) <=> hits # {}
    BY <1>1, <1>2, EntryLemma DEF HasTarget
  <1>8. HasTarget(s, p.target) => hits = {Entry(doc.targets, p.target)}
    BY <1>1, <1>2, EntryLemma DEF HasTarget
  <1>9. HasTarget(s, p.target) =>
          (s.targets[p.target].protected <=> Entry(doc.targets, p.target).protected = "yes")
    BY <1>2, <1>t DEF HasTarget
  <1>10. HasTarget(s, p.target) =>
          TargetMode(s, p.target) = doc.environments[Entry(doc.targets, p.target).environment]
    <2> SUFFICES ASSUME HasTarget(s, p.target)
                 PROVE  TargetMode(s, p.target) = doc.environments[Entry(doc.targets, p.target).environment]
      OBVIOUS
    <2>1. s.targets[p.target].environment = Entry(doc.targets, p.target).environment
      BY <1>2, <1>t DEF HasTarget
    <2>2. Entry(doc.targets, p.target) \in ToSet(doc.targets)
      BY <1>8
    <2>3. Entry(doc.targets, p.target).environment \in DOMAIN doc.environments
      BY <2>2 DEF Parses, WellFormed
    <2> QED
      BY <1>2, <2>1, <2>3 DEF TargetMode, EnvironmentMode
  <1>11. \A reason : reason \in Objections(doc, a, p) <=>
           \/ reason = "AGENT_UNKNOWN" /\ grants = {}
           \/ reason = "COMMAND_UNKNOWN" /\ p.type \notin ToSet(doc.commands)
           \/ /\ reason = "COMMAND_NOT_PERMITTED_FOR_AGENT"
              /\ p.type \in ToSet(doc.commands)
              /\ \E g \in grants : p.type \notin ToSet(g.commands)
           \/ reason = "TARGET_UNREGISTERED" /\ hits = {}
           \/ reason = "TARGET_PROTECTED" /\ \E t \in hits : t.protected = "yes"
           \/ reason = "ENVIRONMENT_DENIED" /\ \E t \in hits : doc.environments[t.environment] = "deny"
    BY DEF Objections
  <1> HIDE DEF grants, hits
  <1> QED
    BY <1>3, <1>4, <1>5, <1>6, <1>7, <1>8, <1>9, <1>10, <1>11 DEF Applies, s

(* An accepted document puts every target in a declared mode. *)
LEMMA ModeLemma ==
  ASSUME NEW doc, Parses(doc), NEW t, HasTarget(Snapshot(doc), t)
  PROVE  TargetMode(Snapshot(doc), t) \in Modes
  <1>1. t \in Ids(doc.targets) /\ DistinctIds(doc.targets)
    BY DEF HasTarget, Snapshot, Parses, WellFormed
  <1>2. Snapshot(doc).targets[t].environment = Entry(doc.targets, t).environment
    BY <1>1 DEF Snapshot
  <1>3. Entry(doc.targets, t) \in ToSet(doc.targets)
    BY <1>1, EntryLemma
  <1>4. Entry(doc.targets, t).environment \in DOMAIN doc.environments
    BY <1>3 DEF Parses, WellFormed
  <1>5. doc.environments[Entry(doc.targets, t).environment] \in Modes
    BY <1>4 DEF Parses, WellFormed
  <1>6. Snapshot(doc).environments = doc.environments
    BY DEF Snapshot
  <1> QED
    BY <1>2, <1>4, <1>5, <1>6 DEF TargetMode, EnvironmentMode

LEMMA VerdictLemma ==
  ASSUME NEW doc, Parses(doc), Snapshot(doc) # NilSnapshot, NEW a, NEW p
  PROVE  LET s == Snapshot(doc)
             d == Evaluate(s, a, p)
             objections == Objections(doc, a, p)
         IN IF objections # {}
            THEN d.verdict = "DENY" /\ ToSet(d.reasons) = objections /\ IsInjective(d.reasons)
            ELSE d.verdict = IF TargetMode(s, p.target) = "allow" THEN "ALLOW" ELSE "REQUIRE_APPROVAL"
  <1> DEFINE s == Snapshot(doc)
             deny == DenyReasons(s, a, p)
  <1>1. ToSet(deny) = Objections(doc, a, p) /\ IsInjective(deny)
    BY DenyReasonsLemma, ObjectionsLemma
  <1>2. deny = << >> <=> Objections(doc, a, p) = {}
    <2>1. deny = << >> <=> \A reason : ~Applies(s, a, p, reason)
      BY DenyReasonsLemma
    <2>2. \A reason : reason \in Objections(doc, a, p) <=> Applies(s, a, p, reason)
      BY ObjectionsLemma
    <2> QED
      BY <2>1, <2>2
  <1>3. CASE deny # << >>
    <2>1. Evaluate(s, a, p).verdict = "DENY" /\ Evaluate(s, a, p).reasons = deny
      BY <1>3 DEF Evaluate, Decided
    <2> QED
      BY <1>1, <1>2, <1>3, <2>1
  <1>4. CASE deny = << >>
    <2>1. HasTarget(s, p.target) /\ TargetMode(s, p.target) # "deny"
      <3>1. ~Applies(s, a, p, "TARGET_UNREGISTERED") /\ ~Applies(s, a, p, "ENVIRONMENT_DENIED")
        BY <1>4, DenyReasonsLemma
      <3> QED
        BY <3>1 DEF Applies
    <2>2. TargetMode(s, p.target) \in {"allow", "require_approval"}
      BY <2>1, ModeLemma DEF Modes
    <2>3. Evaluate(s, a, p).verdict = IF TargetMode(s, p.target) = "allow" THEN "ALLOW" ELSE "REQUIRE_APPROVAL"
      BY <1>4, <2>2 DEF Evaluate, Decided
    <2> QED
      BY <1>2, <1>4, <2>3
  <1> QED
    BY <1>3, <1>4

(* Evaluate on the compiled snapshot decides what the document says, for    *)
(* every document that Parse accepts and every request: it denies for all   *)
(* the objections, each named once, and for nothing else.                   *)
THEOREM VerdictsMatch == Spec => []VerdictMatchesDocument
  <1>1. LoaderInv => VerdictMatchesDocument
    <2> SUFFICES ASSUME LoaderInv, NEW a \in Agents, NEW p \in Proposals
                 PROVE  LET d == Evaluate(active, a, p)
                            objections == Objections(active.digest, a, p)
                        IN IF objections # {}
                           THEN d.verdict = "DENY" /\ ToSet(d.reasons) = objections /\ IsInjective(d.reasons)
                           ELSE d.verdict = IF TargetMode(active, p.target) = "allow"
                                            THEN "ALLOW" ELSE "REQUIRE_APPROVAL"
      BY DEF VerdictMatchesDocument
    <2> DEFINE doc == active.digest
    <2>1. Parses(doc) /\ active = Snapshot(doc) /\ doc \in Documents
      BY DEF LoaderInv, OnlyGoodPolicies
    <2>2. Snapshot(doc) # NilSnapshot
      BY <2>1, NilAssumption
    <2> HIDE DEF doc
    <2> QED
      BY <2>1, <2>2, VerdictLemma DEF doc
  <1> QED
    BY LoaderAlways, <1>1, PTL

(* A tighter policy allows no request that the other does not. *)
LEMMA TighterLemma ==
  ASSUME NEW s, NEW t, s # NilSnapshot, t # NilSnapshot, Tighter(s, t), NEW a, NEW p,
         Evaluate(s, a, p).verdict = "ALLOW"
  PROVE  Evaluate(t, a, p).verdict = "ALLOW"
  <1>1. /\ HasAgent(s, a) /\ HasCommand(s, p.type) /\ AgentMayUse(s, a, p.type)
        /\ HasTarget(s, p.target) /\ ~s.targets[p.target].protected
        /\ TargetMode(s, p.target) = "allow"
    BY AllowsLemma
  <1>2. HasAgent(t, a) /\ HasCommand(t, p.type) /\ AgentMayUse(t, a, p.type)
    BY <1>1 DEF Tighter, HasAgent, HasCommand, AgentMayUse
  <1>3. HasTarget(t, p.target) /\ ~t.targets[p.target].protected
    BY <1>1 DEF Tighter, HasTarget
  <1>4. TargetMode(t, p.target) = "allow"
    BY <1>1 DEF Tighter, HasTarget
  <1> QED
    BY <1>2, <1>3, <1>4, AllowsLemma

(* A reload that tightens the policy takes permissions away and adds none:  *)
(* what re-validation then allows, ingress had allowed.                     *)
THEOREM TighteningIsSafe == Spec => TighteningOnlyDenies
  <1>1. LoaderInv => active # NilSnapshot
    BY NilAssumption DEF LoaderInv, OnlyGoodPolicies
  <1>2. LoaderInv /\ LoaderInv' /\ [Next]_vars
          => [Tighter(active', active) =>
                \A a \in Agents, p \in Proposals :
                   Evaluate(active', a, p).verdict = "ALLOW" => Evaluate(active, a, p).verdict = "ALLOW"]_vars
    <2>1. LoaderInv' => active' # NilSnapshot
      BY NilAssumption DEF LoaderInv, OnlyGoodPolicies
    <2> QED
      BY <1>1, <2>1, TighterLemma
  <1> QED
    BY LoaderAlways, <1>2, PTL DEF Spec, TighteningOnlyDenies
=============================================================================
