------------------------------ MODULE Repository ------------------------------
(***************************************************************************)
(* The records of SQLiteGovernanceStore (governance/storage.py) the durable  *)
(* service lives on, and what one transaction does to a record.  BEGIN       *)
(* IMMEDIATE serialises the transactions and one that fails is rolled back,  *)
(* so each of these is a single step of its caller.                          *)
(*                                                                           *)
(* A request stands for its own fingerprint.  The text of an outcome is left *)
(* out: a claim is settled with a status.                                    *)
(*                                                                           *)
(* A definition whose comment starts with `Mutated' is a likely bug in the   *)
(* one that follows it, for the properties to catch; no action uses it.      *)
(***************************************************************************)
EXTENDS Naturals

CONSTANT NoRecord   \* no such row

\* Mutated: a reservation that is in progress is taken over.
AcquiresAbandoned(row) == row # NoRecord => row.status = "in_progress"

\* begin_idempotency inserts where there is no row for the key, ...
Acquires(row) == row = NoRecord
Reserved(request) ==
    [request |-> request, status |-> "in_progress", response |-> NoRecord]

\* ... and refuses the key of another request.
KeyConflict(row, request) == row # NoRecord /\ row.request # request

\* _json_payload refuses what json.dumps takes only without sort_keys and
\* allow_nan=False: a result with a NaN, or with keys of several types.
Encodable(response) == response # "unstorable"

\* complete_idempotency: a completed row accepts only its own response again.
CanComplete(row, request, response) ==
    /\ Encodable(response)
    /\ row # NoRecord
    /\ row.request = request
    /\ row.status = "complete" => row.response = response

Completed(request, response) ==
    [request |-> request, status |-> "complete", response |-> response]

\* claim_execution inserts where there is no claim.
Claimed(owner) == [owner |-> owner, status |-> "claimed"]

\* Mutated: a late owner overwrites what was settled.
CanSettleLate(claim, owner, status) ==
    /\ claim # NoRecord
    /\ claim.owner = owner

\* complete_execution: a settled claim accepts only its own status again.
CanSettle(claim, owner, status) ==
    /\ claim # NoRecord
    /\ claim.owner = owner
    /\ claim.status # "claimed" => claim.status = status

\* Mutated: the status of an idempotency row.
SettledAsRow(owner, status) == [owner |-> owner, status |-> "complete"]

Settled(owner, status) == [owner |-> owner, status |-> status]

\* Mutated: the last writer wins.
CanSaveBlindly(record, expected) == TRUE

\* save_state: optimistic revisions.  Revision 0 is the absent record, and
\* expecting 0 is `expected_revision=None'.
CanSave(record, expected) == record.revision = expected

Saved(record, payload) ==
    [revision |-> record.revision + 1, payload |-> payload]
=============================================================================
