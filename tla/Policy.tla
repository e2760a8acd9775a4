-------------------------------- MODULE Policy --------------------------------
(***************************************************************************)
(* internal/policy/schema.go: which policy documents are accepted, and the *)
(* snapshot an accepted one becomes.                                       *)
(*                                                                         *)
(* A document is a record                                                  *)
(*   version, maxParallel                                                  *)
(*   environments  name -> mode                                            *)
(*   commands      sequence of names                                       *)
(*   agents        sequence of [id, commands], commands a sequence         *)
(*   targets       sequence of [id, environment, protected]                *)
(* where a target's protected is "yes", "no" or "unset". Malformed is any  *)
(* content that the strict YAML decoding refuses.                          *)
(***************************************************************************)
EXTENDS Naturals, Sequences, SequencesExt

CONSTANTS ValidNames,         \* names that match the pattern of their kind
          MaxParallelLimit,   \* maxParallelTasksLimit
          Malformed

Modes == {"allow", "require_approval", "deny"}

Ids(seq) == {seq[i].id : i \in DOMAIN seq}

DistinctIds(seq) == \A i, j \in DOMAIN seq : seq[i].id = seq[j].id => i = j

(* build returns no error. *)
WellFormed(doc) ==
    /\ doc.version \in ValidNames
    /\ doc.maxParallel \in 1..MaxParallelLimit
    /\ DOMAIN doc.environments # {} /\ DOMAIN doc.environments \subseteq ValidNames
    /\ \A e \in DOMAIN doc.environments : doc.environments[e] \in Modes
    /\ doc.commands # << >> /\ ToSet(doc.commands) \subseteq ValidNames
    /\ IsInjective(doc.commands)
    /\ doc.agents # << >> /\ Ids(doc.agents) \subseteq ValidNames /\ DistinctIds(doc.agents)
    /\ \A a \in ToSet(doc.agents) :
          /\ a.commands # << >> /\ IsInjective(a.commands)
          /\ ToSet(a.commands) \subseteq ToSet(doc.commands)
    /\ doc.targets # << >> /\ Ids(doc.targets) \subseteq ValidNames /\ DistinctIds(doc.targets)
    /\ \A t \in ToSet(doc.targets) :
          t.environment \in DOMAIN doc.environments /\ t.protected # "unset"

(* Parse returns no error. *)
Parses(doc) == doc # Malformed /\ WellFormed(doc)

Entry(seq, id) == CHOOSE x \in ToSet(seq) : x.id = id

(* The digest is the SHA-256 of the raw bytes: the document itself. *)
Snapshot(doc) ==
    [digest |-> doc, maxParallel |-> doc.maxParallel,
     commands |-> ToSet(doc.commands),
     agents |-> [a \in Ids(doc.agents) |-> ToSet(Entry(doc.agents, a).commands)],
     targets |-> [t \in Ids(doc.targets) |->
                     [environment |-> Entry(doc.targets, t).environment,
                      protected |-> Entry(doc.targets, t).protected = "yes"]],
     environments |-> doc.environments]
=============================================================================
