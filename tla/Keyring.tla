------------------------------- MODULE Keyring -------------------------------
(***************************************************************************)
(* internal/auth/agentkeys.go: the configured agent keys and the agent a   *)
(* presented key stands for. A configuration is a sequence of entries      *)
(* [id, key]. Keys are kept and compared as SHA-256 digests; collisions    *)
(* are ignored, so a key stands for its digest.                            *)
(***************************************************************************)
EXTENDS Naturals, Sequences, FiniteSetsExt

CONSTANTS AgentNames,   \* agent IDs that match agentIDPattern
          GoodKeys,     \* keys of 16 to 256 bytes without white space
          NoAgent

(* Wrong variant: a key may be given to two agents. *)
AcceptsSharedKeys(spec) ==
    /\ spec # << >>
    /\ \A i \in DOMAIN spec : spec[i].id \in AgentNames /\ spec[i].key \in GoodKeys
    /\ \A i, j \in DOMAIN spec : spec[i].id = spec[j].id => i = j

(* ParseAgentKeys returns no error. *)
ParseAgentKeys(spec) ==
    /\ spec # << >>
    /\ \A i \in DOMAIN spec : spec[i].id \in AgentNames /\ spec[i].key \in GoodKeys
    /\ \A i, j \in DOMAIN spec : spec[i].id = spec[j].id \/ spec[i].key = spec[j].key => i = j

(* The loop looks at every entry, so the last match is the one that counts. *)
Resolve(entries, presented) ==
    LET matches == {i \in DOMAIN entries : entries[i].key = presented}
    IN IF matches = {} THEN NoAgent ELSE entries[Max(matches)].id
=============================================================================
