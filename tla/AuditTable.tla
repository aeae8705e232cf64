----------------------------- MODULE AuditTable -----------------------------
(***************************************************************************)
(* The audit events of SQLiteGovernanceStore (governance/storage.py): an     *)
(* append-only table that workers with clocks of their own append to, that   *)
(* is purged by age, backed up and restored elsewhere, while a consumer      *)
(* follows it with the sequence of the last event it has got.                *)
(*                                                                           *)
(* Every method is one transaction of the database, so it is one action, and *)
(* a method that raises, or whose process crashes, leaves the table as it    *)
(* was or as if it had returned.                                             *)
(*                                                                           *)
(* A definition whose comment starts with `Mutated' is a likely bug in the   *)
(* one that follows it, for the properties to catch; no action uses it.      *)
(***************************************************************************)
EXTENDS Integers, FiniteSets

CONSTANTS
    Ids,          \* event ids
    Payloads,     \* what an event may say besides
    MaxTime,      \* bound on the times callers give as created_at
    MaxSequence,  \* bound on the sequence numbers
    MaxLimit      \* bound on the page a consumer asks for

ASSUME AuditTableAssumption ==
    /\ MaxTime \in Nat
    /\ MaxSequence \in Nat
    /\ MaxLimit \in Nat

DecisionEvents == [id : Ids, payload : Payloads]
Times == 1..MaxTime

VARIABLES
    table,     \* its rows and the highest sequence that was ever given
    backup,    \* the table of the last backup
    cursor,    \* the sequence of the last event the consumer has got
    seen       \* the events it has got, with their sequences

auditVars == <<table, backup, cursor, seen>>

Row(sequence, event, at) == [sequence |-> sequence, event |-> event, at |-> at]
Table(rows, last) == [rows |-> rows, last |-> last]
NoRows == Table({}, 0)

AuditInit ==
    /\ table = NoRows
    /\ backup = NoRows
    /\ cursor = 0
    /\ seen = {}

\* Mutated: without AUTOINCREMENT, the number after the highest in the table.
NextOfRows(t) ==
    CHOOSE n \in 1..(MaxSequence + 1) :
        /\ \A r \in t.rows : r.sequence < n
        /\ n = 1 \/ \E r \in t.rows : r.sequence = n - 1

\* AUTOINCREMENT: a number is never given again.
NextOf(t) == t.last + 1

Known(event) == \E r \in table.rows : r.event.id = event.id

\* append_audit: an event that is there already is not inserted again, and one
\* of the same id that says something else is refused.
AppendAudit(event, at) ==
    /\ ~Known(event)
    /\ table.last < MaxSequence
    /\ LET n == NextOf(table)
       IN  table' = Table(table.rows \cup {Row(n, event, at)},
                          IF n > table.last THEN n ELSE table.last)
    /\ UNCHANGED <<backup, cursor, seen>>

\* purge_audit.
PurgeAudit(cutoff) ==
    /\ table' = [table EXCEPT !.rows = {r \in @ : r.at >= cutoff}]
    /\ UNCHANGED <<backup, cursor, seen>>

\* load_audit: the first rows after the cursor, up to the limit.
Page(limit) ==
    {r \in table.rows :
        /\ r.sequence > cursor
        /\ Cardinality({q \in table.rows :
                          cursor < q.sequence /\ q.sequence <= r.sequence}) <= limit}

\* The consumer goes on after the last row of its page.
LoadAudit(limit) ==
    /\ \E r \in Page(limit) :
          /\ \A q \in Page(limit) : q.sequence <= r.sequence
          /\ cursor' = r.sequence
    /\ seen' = seen \cup {<<q.sequence, q.event>> : q \in Page(limit)}
    /\ UNCHANGED <<table, backup>>

Backup ==
    /\ backup' = table
    /\ UNCHANGED <<table, cursor, seen>>

\* restore() copies the backup to a new path, which a consumer reads anew.
Restore ==
    /\ table' = backup
    /\ cursor' = 0
    /\ seen' = {}
    /\ UNCHANGED backup

AuditNext ==
    \/ \E event \in DecisionEvents, at \in Times : AppendAudit(event, at)
    \/ \E cutoff \in Times : PurgeAudit(cutoff)
    \/ \E limit \in 1..MaxLimit : LoadAudit(limit)
    \/ Backup
    \/ Restore

AuditSpec == AuditInit /\ [][AuditNext]_auditVars

-----------------------------------------------------------------------------
(* Properties.                                                              *)

RowsOK(t) ==
    /\ t.rows \subseteq [sequence : 1..MaxSequence, event : DecisionEvents, at : Times]
    /\ t.last \in 0..MaxSequence

\* Every variable has its type.
AuditTypeOK ==
    /\ RowsOK(table)
    /\ RowsOK(backup)
    /\ cursor \in 0..MaxSequence
    /\ seen \subseteq (1..MaxSequence) \X DecisionEvents

\* docs/storage.md: "globally monotonic database audit sequences".  A consumer
\* that keeps only the last sequence it has got misses nothing: what the table
\* holds up to there it has got, whatever was appended, purged by another
\* clock's age, backed up and restored meanwhile, and however it was paged;
\* and neither a sequence nor an event id is there twice.
ReaderMissesNothing ==
    /\ \A r \in table.rows : r.sequence <= cursor => <<r.sequence, r.event>> \in seen
    /\ \A r, q \in table.rows :
           r.sequence = q.sequence \/ r.event.id = q.event.id => r = q
=============================================================================
