--------------------------- MODULE DecisionRecords ---------------------------
(***************************************************************************)
(* The decision_records table of internal/audit/sqlite.go, as the sequence *)
(* of its rows in rowid order, and its operations as functions of it.      *)
(***************************************************************************)
EXTENDS Sequences, Naturals, Functions

(* A sequence of rows whose IDs, the primary key, are distinct. *)
IsTable(table) ==
    /\ table \in Seq(Range(table))
    /\ \A i, j \in DOMAIN table : table[i].id = table[j].id => i = j

HasRecord(table, id) == \E i \in DOMAIN table : table[i].id = id

GetDecision(table, id) == table[CHOOSE i \in DOMAIN table : table[i].id = id]

(* INSERT ... ON CONFLICT(decision_id) DO NOTHING. *)
AppendDecision(table, rec) == IF HasRecord(table, rec.id) THEN table ELSE Append(table, rec)

(* Whether AppendDecision reports success: the row is new or identical. *)
Accepted(table, rec) == HasRecord(table, rec.id) => GetDecision(table, rec.id) = rec

ListDecisionsByProposal(table, proposal) == SelectSeq(table, LAMBDA rec : rec.proposal = proposal)
=============================================================================
