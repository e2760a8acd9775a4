------------------------------ MODULE AuditLog ------------------------------
(***************************************************************************)
(* The audit_records table of internal/audit/sqlite.go: the rows that the  *)
(* runs of a proposal write, one run at a time, and their listing for GET  *)
(* /v1/audit/{proposal_id}. A row is cut down to what the listing looks    *)
(* at. Attempts may fail before or after the insertion and are retried     *)
(* with the same row; attempts that outlive their run are left out.        *)
(*                                                                         *)
(* Times are natural numbers with two fraction digits to base Base. Texts  *)
(* are sequences of numbers in the order SQLite compares characters.       *)
(***************************************************************************)
EXTENDS DecisionRecords, TLC

CONSTANTS Base,        \* the digits are 0 .. Base - 1
          Proposals,   \* proposal IDs, numbered
          MaxRuns,     \* bound: runs, one after the other
          MaxNow       \* bound: the clock

VARIABLES now,       \* workflow.Now
          run,       \* number of the current run, its proposal and last phase
          auditSeq,  \* rows the run has asked for
          writing,   \* the row RecordAuditTrail is writing, if any
          rows       \* the table, in rowid order

vars == <<now, run, auditSeq, writing, rows>>

NoRow == [id |-> << >>, proposal |-> 0, recordedAt |-> << >>]

-----------------------------------------------------------------------------
Dot == 0
Digit(d) == d + 1
Zulu == Base + 1

(* time.RFC3339Nano drops the trailing zeros of the fraction, and the dot    *)
(* when nothing is left of it. Date and time of day have a fixed width and   *)
(* stand for one character.                                                  *)
formatTime(t) ==
    LET tenths == (t \div Base) % Base
        hundredths == t % Base
    IN <<t \div (Base * Base)>>
       \o (CASE hundredths # 0                -> <<Dot, Digit(tenths), Digit(hundredths)>>
             [] hundredths = 0 /\ tenths # 0  -> <<Dot, Digit(tenths)>>
             [] OTHER                         -> << >>)
       \o <<Zulu>>

Precedes(a, b) ==
    \E i \in 1..Len(b) :
        /\ i > Len(a) \/ a[i] < b[i]
        /\ \A j \in 1..(i - 1) : j <= Len(a) /\ a[j] = b[j]

(* The names of the phases in the order of their texts. *)
PhaseRank ==
    [COMPENSATION_ROLLBACK |-> 1, DISPATCH_CONFIG |-> 2, DISPATCH_RECONCILIATION |-> 3,
     EXECUTION_FENCE |-> 4, WORKFLOW_COMPLETE |-> 5, WORKFLOW_FAILED |-> 6,
     WORKFLOW_REVALIDATION |-> 7]

newAuditRecord(phase, t) ==
    [id |-> <<run.proposal, run.number, PhaseRank[phase], auditSeq + 1>>,
     proposal |-> run.proposal, recordedAt |-> formatTime(t)]

(* ORDER BY recorded_at ASC, record_id ASC. *)
ListByProposal(p) ==
    SortSeq(SelectSeq(rows, LAMBDA r : r.proposal = p),
            LAMBDA r, s : \/ Precedes(r.recordedAt, s.recordedAt)
                          \/ r.recordedAt = s.recordedAt /\ Precedes(r.id, s.id))

-----------------------------------------------------------------------------
(* The phases that the workflow may record after one. *)
Successors ==
    LET settled == {"COMPENSATION_ROLLBACK", "WORKFLOW_FAILED", "WORKFLOW_COMPLETE"} IN
    [NONE |-> {"WORKFLOW_REVALIDATION"},
     WORKFLOW_REVALIDATION |-> {"EXECUTION_FENCE", "DISPATCH_CONFIG"},
     EXECUTION_FENCE |-> {"DISPATCH_RECONCILIATION"},
     DISPATCH_CONFIG |-> settled \cup {"DISPATCH_RECONCILIATION"},
     DISPATCH_RECONCILIATION |-> settled,
     COMPENSATION_ROLLBACK |-> {"WORKFLOW_FAILED"},
     WORKFLOW_FAILED |-> {}, WORKFLOW_COMPLETE |-> {}]

Init ==
    /\ now = 0
    /\ \E p \in Proposals : run = [number |-> 1, proposal |-> p, phase |-> "NONE"]
    /\ auditSeq = 0 /\ writing = NoRow /\ rows = << >>

(* The closure "record" of the workflow schedules RecordAuditTrail. Time has *)
(* passed since the event that let it go on.                                 *)
Schedule(phase) ==
    /\ writing = NoRow
    /\ phase \in Successors[run.phase]
    /\ \E t \in (now + 1)..MaxNow : now' = t
    /\ writing' = newAuditRecord(phase, now')
    /\ auditSeq' = auditSeq + 1
    /\ run' = [run EXCEPT !.phase = phase]
    /\ UNCHANGED rows

(* An attempt inserts the row, or fails before; it is over, or is repeated. *)
AppendRow ==
    /\ writing # NoRow
    /\ rows' \in {rows, AppendDecision(rows, writing)}
    /\ writing' \in {writing, NoRow}
    /\ UNCHANGED <<now, run, auditSeq>>

(* The run closes, at whatever point, and another is started. *)
NextRun ==
    /\ writing = NoRow /\ run.number < MaxRuns
    /\ \E p \in Proposals : run' = [number |-> run.number + 1, proposal |-> p, phase |-> "NONE"]
    /\ auditSeq' = 0
    /\ UNCHANGED <<now, writing, rows>>

Next == (\E phase \in DOMAIN PhaseRank : Schedule(phase)) \/ AppendRow \/ NextRun

Spec == Init /\ [][Next]_vars

-----------------------------------------------------------------------------
(* A proposal's audit trail is listed in the order in which its rows were    *)
(* written (sqlite.go: "returns audit rows for a proposal in insertion       *)
(* order").                                                                  *)
ListedInInsertionOrder ==
    \A p \in Proposals : ListByProposal(p) = SelectSeq(rows, LAMBDA r : r.proposal = p)
=============================================================================
