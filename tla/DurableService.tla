---------------------------- MODULE DurableService ----------------------------
(***************************************************************************)
(* DurableGovernanceService (governance/service.py): workers that share one  *)
(* SQLite repository, crash and restart, and see transactions fail.          *)
(*                                                                           *)
(* A worker serves one request at a time (handle() holds its lock), so it    *)
(* carries one job.  A step of a job ends at the next repository transaction *)
(* or at the operation's handler: what happens in between is local to the    *)
(* worker.  Requests are the values clients send and resend, whole: equal    *)
(* requests have equal fingerprints.                                         *)
(*                                                                           *)
(* "refused" stands for every answer that says nothing was done (Block, 401, *)
(* 404 handler_not_found; for a vote approval_conflict).  "executed" is also *)
(* the 500 sent for a handler value that is no JSON: claim and row are       *)
(* treated alike.  What the policy makes of a request depends on state that  *)
(* is not modelled here, so a decision's outcome is any of Outcomes.         *)
(*                                                                           *)
(* A definition whose comment starts with `Mutated' is a likely bug in the   *)
(* one that follows it, for the properties to catch; no action uses it.      *)
(***************************************************************************)
EXTENDS Repository, ApprovalRequest, Sequences

CONSTANTS
    Workers,
    Keys,          \* idempotency keys
    Params,        \* what decision requests ask for
    Requests,      \* the POST bodies clients send
    Governance,    \* the policy-and-delegation states fingerprints tell apart
    Outcomes,      \* what the policy may make of a decision request
    Quorum,        \* what the policy demands of an escalated one
    RolesOf,       \* RolesOf[p]: the roles p's credential carries
    Ttl,           \* ApprovalManager.ttl
    Deployments,   \* the sets of handlers a process may be started with, each
                   \* given by the Params it serves
    FailingSteps,  \* bound: the steps whose transaction may fail
    MaxTime,       \* bound on the clock
    MaxRevision    \* bound on the revisions GET may add

Scopes == {"decisions", "votes", "resumes"}
Callers == People \cup {NoIdentity}

\* The POST bodies.  A caller that is NoIdentity sends a bad credential.
DecisionRequest == [scope : {"decisions"}, key : Keys, params : Params]
VoteRequest == [scope : {"votes"}, key : Keys, approval : Nat \ {0},
                approve : BOOLEAN, role : Roles, who : Callers]
ResumeRequest == [scope : {"resumes"}, key : Keys, approval : Nat \ {0},
                  who : Callers]

\* GET /v1/approvals/i.
Get(i) == [scope |-> "get", approval |-> i]

Decisions == {r \in Requests : r.scope = "decisions"}
ApprovalIds == {r.approval : r \in Requests \ Decisions}

\* What rows and remembered responses may carry, ...
Answers == {"executed", "refused", "escalated", "uncertain", "voted", "forbidden"}
Entry == [request : Requests, response : Answers]

\* ... and what a worker may try to store or hold: with the result of a handler
\* it may be "executed" or, for a result the service can send (json.dumps) and
\* the repository cannot encode, "unstorable".
Results == {"executed", "unstorable"}
Drafts == Answers \cup Results
Draft == [request : Requests, response : Drafts]

RowRecord == [request : Requests, status : {"in_progress", "complete"},
              response : Answers \cup {NoRecord}]
ClaimRecord == [owner : Decisions, status : {"claimed", "succeeded", "unknown"}]

ASSUME NoRecordAssumption ==
    NoRecord \notin Requests \cup Draft \cup RowRecord \cup ClaimRecord

ASSUME DurableServiceAssumption ==
    /\ Requests \subseteq DecisionRequest \cup VoteRequest \cup ResumeRequest
    /\ Outcomes \subseteq {"allow", "block", "escalate"}
    /\ Quorum \in Quorums
    /\ RolesOf \in [People -> SUBSET Roles]
    /\ Ttl \in Nat \ {0}
    /\ Deployments \subseteq SUBSET Params
    /\ FailingSteps \subseteq {"peek", "claim", "settle", "persist", "store"}
    /\ MaxTime \in Nat
    /\ MaxRevision \in Nat

VARIABLES
    now,          \* the clock all workers read
    rows,         \* idempotency_records, by scope and key
    claims,       \* execution_claims, by execution kind and key
    approvals,    \* the state_records row of the approval state
    cache,        \* _idempotency, by worker and key
    uncommitted,  \* _durable_uncommitted, by worker, scope and key
    handlers,     \* handlers, by worker
    manager,      \* approval_manager, in the order of its ids
    pending,      \* _pending: the ids whose votes and resumes are served
    revision,     \* _durable_state_revision, 0 for None
    noticed,      \* _expired_approvals
    job,          \* the request a worker is serving, and how far it is
    effects,      \* history: how often a decision's operation was performed
    reply         \* output: the response sent in the last step, if any

repository == <<rows, claims, approvals>>
memory == <<cache, uncommitted, handlers, manager, pending, revision, noticed>>
vars == <<now, repository, memory, job, effects, reply>>

RowIds == Scopes \X Keys
ClaimIds == ({"decision"} \X Keys) \cup ({"approval"} \X ApprovalIds)

RowOf(r) == <<r.scope, r.key>>
ClaimOf(r) == IF r.scope = "decisions" THEN <<"decision", r.key>>
                                       ELSE <<"approval", r.approval>>

\* The decision request whose operation a job performs.
Subject(w) == LET r == job[w].req
              IN  IF r.scope = "decisions" THEN r
                                           ELSE manager[w][r.approval].subject

IdleJob == [step |-> "idle", req |-> NoRecord, row |-> NoRecord,
            response |-> NoRecord]
DownJob == [IdleJob EXCEPT !.step = "down"]

\* _durable_state_payload.
SavedState(requests, served) == [requests |-> requests, pending |-> served]
NothingSaved == SavedState(<<>>, {})

EmptyCache == [k \in Keys |-> NoRecord]
NothingUncommitted == [id \in RowIds |-> NoRecord]

Init ==
    /\ now = 0
    /\ rows = [id \in RowIds |-> NoRecord]
    /\ claims = [id \in ClaimIds |-> NoRecord]
    /\ approvals = [revision |-> 0, payload |-> NothingSaved]
    /\ cache = [w \in Workers |-> EmptyCache]
    /\ uncommitted = [w \in Workers |-> NothingUncommitted]
    /\ handlers \in [Workers -> Deployments]
    /\ manager = [w \in Workers |-> <<>>]
    /\ pending = [w \in Workers |-> {}]
    /\ revision = [w \in Workers |-> 0]
    /\ noticed = [w \in Workers |-> {}]
    /\ job = [w \in Workers |-> IdleJob]
    /\ effects = [d \in Decisions |-> 0]
    /\ reply = NoRecord

-----------------------------------------------------------------------------
(* How a step of a job ends.                                                *)

\* The worker goes on with the job.
Continue(w, step, response) ==
    /\ job' = [job EXCEPT ![w].step = step, ![w].response = response]
    /\ reply' = NoRecord

\* The worker responds and is free for the next request.
Respond(w, r, response) ==
    /\ job' = [job EXCEPT ![w] = IdleJob]
    /\ reply' = [req |-> r, response |-> response]

\* The operation is over: _resume persists the approval state before it
\* stores its response, _decision does not.
AfterOperation(w) ==
    IF job[w].req.scope = "decisions" THEN "store" ELSE "persist"

-----------------------------------------------------------------------------
(* _idempotent and _reserve_durable.                                        *)

\* The worker remembers the key.
AnswerFromCache(w, r) ==
    /\ job[w].step = "idle"
    /\ cache[w][r.key] # NoRecord
    /\ Respond(w, r, IF cache[w][r.key].request = r
                     THEN cache[w][r.key].response
                     ELSE "key_conflict")
    /\ UNCHANGED <<now, repository, memory, effects>>

\* _complete_durable that fails: StoreError before ConcurrencyError.
Refusal(id, response) ==
    IF ~Encodable(response) \/ rows[id] = NoRecord THEN "unavailable"
                                                   ELSE "state_conflict"

\* Mutated: the retry of a held response is turned away.
LateIsTurnedAway(w, r) ==
    /\ job[w].step = "idle"
    /\ cache[w][r.key] = NoRecord
    /\ uncommitted[w][RowOf(r)] # NoRecord
    /\ Respond(w, r, "in_progress")
    /\ UNCHANGED <<now, repository, memory, effects>>

\* The worker holds a response it could not commit: it tries again.
CommitLate(w, r) ==
    LET id == RowOf(r)
        held == uncommitted[w][id]
    IN  /\ job[w].step = "idle"
        /\ cache[w][r.key] = NoRecord
        /\ held # NoRecord
        /\ IF held.request = r /\ CanComplete(rows[id], r, held.response)
           THEN /\ rows' = [rows EXCEPT ![id] = Completed(r, held.response)]
                /\ cache' = [cache EXCEPT ![w][r.key] = held]
                /\ uncommitted' = [uncommitted EXCEPT ![w][id] = NoRecord]
                /\ Respond(w, r, held.response)
           ELSE /\ Respond(w, r, IF held.request = r
                                 THEN Refusal(id, held.response)
                                 ELSE "key_conflict")
                /\ UNCHANGED <<rows, cache, uncommitted>>
        /\ UNCHANGED <<now, claims, approvals, handlers, manager, pending, revision,
                       noticed, effects>>

\* begin_idempotency.
Reserve(w, r) ==
    LET id == RowOf(r)
        row == rows[id]
    IN  /\ job[w].step = "idle"
        /\ cache[w][r.key] = NoRecord
        /\ uncommitted[w][id] = NoRecord
        /\ \/ /\ Acquires(row)
              /\ rows' = [rows EXCEPT ![id] = Reserved(r)]
              /\ job' = [job EXCEPT ![w] = [step |-> "serve", req |-> r,
                                            row |-> id, response |-> NoRecord]]
              /\ reply' = NoRecord
              /\ UNCHANGED cache
           \/ /\ KeyConflict(row, r)
              /\ Respond(w, r, "key_conflict")
              /\ UNCHANGED <<rows, cache>>
           \/ /\ row # NoRecord /\ row.request = r /\ row.status = "complete"
              /\ cache' = [cache EXCEPT ![w][r.key] =
                              [request |-> r, response |-> row.response]]
              /\ Respond(w, r, row.response)
              /\ UNCHANGED rows
           \/ /\ row # NoRecord /\ row.request = r /\ row.status = "in_progress"
              /\ IF r.scope = "decisions"
                 THEN /\ job' = [job EXCEPT ![w] = [step |-> "peek", req |-> r,
                                               row |-> id, response |-> NoRecord]]
                      /\ reply' = NoRecord
                 ELSE Respond(w, r, "in_progress")
              /\ UNCHANGED <<rows, cache>>
        /\ UNCHANGED <<now, claims, approvals, uncommitted, handlers, manager,
                       pending, revision, noticed, effects>>

\* load_execution, to tell a request that is being worked on from an operation
\* whose response was not committed.
Peek(w) ==
    LET claim == claims[ClaimOf(job[w].req)]
    IN  /\ job[w].step = "peek"
        /\ Respond(w, job[w].req,
                   IF claim = NoRecord \/ claim.status = "claimed"
                   THEN "in_progress" ELSE "uncertain")
        /\ UNCHANGED <<now, repository, memory, effects>>

-----------------------------------------------------------------------------
(* The three endpoints, up to their first transaction.                      *)

\* _decision.
ServeDecision(w, outcome, governance) ==
    LET d == job[w].req
    IN  /\ job[w].step = "serve"
        /\ d.scope = "decisions"
        /\ \/ /\ outcome = "block" \/ d.params \notin handlers[w]
              /\ Continue(w, "store", "refused")
              /\ UNCHANGED <<manager, pending>>
           \/ /\ outcome = "allow" /\ d.params \in handlers[w]
              /\ Continue(w, "claim", NoRecord)
              /\ UNCHANGED <<manager, pending>>
           \/ /\ outcome = "escalate" /\ d.params \in handlers[w]
              /\ manager' = [manager EXCEPT ![w] = Append(@,
                               NewRequest(d, governance, Quorum, now, Ttl))]
              /\ pending' = [pending EXCEPT ![w] = @ \cup {Len(manager'[w])}]
              /\ Continue(w, "persist", "escalated")
        /\ UNCHANGED <<now, repository, cache, uncommitted, handlers, revision,
                       noticed, effects>>

\* Votes and resumes of a request that is not pending here, or by someone the
\* worker cannot authenticate, end here; their reservation stays.
Turned(w) ==
    /\ job[w].step = "serve"
    /\ job[w].req.scope \in {"votes", "resumes"}
    /\ \/ /\ job[w].req.approval \notin pending[w]
          /\ Respond(w, job[w].req, "not_found")
       \/ /\ job[w].req.approval \in pending[w]
          /\ job[w].req.who = NoIdentity
          /\ Respond(w, job[w].req, "unauthenticated")
    /\ UNCHANGED <<now, repository, memory, effects>>

Admitted(w, scope) ==
    /\ job[w].step = "serve"
    /\ job[w].req.scope = scope
    /\ job[w].req.approval \in pending[w]
    /\ job[w].req.who # NoIdentity

\* _vote: a vote the manager refuses is answered, persisted and stored too.
ServeVote(w, governance) ==
    LET v == job[w].req
        req == Expire(manager[w][v.approval], now)
        vouched == v.role \in RolesOf[v.who]
        Result(can, after) ==
            /\ manager' = [manager EXCEPT ![w][v.approval] =
                              IF can THEN after ELSE req]
            /\ Continue(w, "persist", IF can THEN "voted" ELSE "refused")
    IN  /\ Admitted(w, "votes")
        /\ IF v.approve
           THEN Result(CanApprove(req, v.role, vouched, req.subject, governance),
                       Approve(req, v.role, v.who))
           ELSE Result(CanDeny(req, v.role, vouched), Deny(req))
        /\ UNCHANGED <<now, repository, cache, uncommitted, handlers, pending,
                       revision, noticed, effects>>

\* _resume.  Evaluating again, or prepare_resume, may find that the approval no
\* longer fits; a caller without one of the roles has the response stored
\* under "decisions", the default scope of _store_idempotent.
ServeResume(w, governance) ==
    LET r == job[w].req
        req == Expire(manager[w][r.approval], now)
    IN  /\ Admitted(w, "resumes")
        /\ \/ /\ RolesOf[r.who] \cap req.roles = {}
              /\ manager' = [manager EXCEPT ![w][r.approval] = req]
              /\ job' = [job EXCEPT ![w].step = "store",
                                    ![w].row = <<"decisions", r.key>>,
                                    ![w].response = "forbidden"]
              /\ reply' = NoRecord
           \/ /\ RolesOf[r.who] \cap req.roles # {}
              /\ ~CanConsume(req, req.subject, governance)
              /\ manager' = [manager EXCEPT ![w][r.approval] = req]
              /\ Continue(w, "persist", "refused")
           \/ /\ RolesOf[r.who] \cap req.roles # {}
              /\ CanConsume(req, req.subject, governance)
              /\ manager' = [manager EXCEPT ![w][r.approval] = Consume(req)]
              /\ Continue(w, "claim", NoRecord)
        /\ UNCHANGED <<now, repository, cache, uncommitted, handlers, pending,
                       revision, noticed, effects>>

\* _approval, when it finds a request expired that it has not reported yet.
ServeGet(w, i) ==
    /\ job[w].step = "idle"
    /\ i \in DOMAIN manager[w]
    /\ i \notin noticed[w]
    /\ Expire(manager[w][i], now).state = "expired"
    /\ approvals.revision < MaxRevision
    /\ manager' = [manager EXCEPT ![w][i] = Expire(@, now)]
    /\ noticed' = [noticed EXCEPT ![w] = @ \cup {i}]
    /\ job' = [job EXCEPT ![w].step = "persist", ![w].req = Get(i),
                          ![w].response = "shown"]
    /\ reply' = NoRecord
    /\ UNCHANGED <<now, repository, cache, uncommitted, handlers, pending,
                   revision, effects>>

-----------------------------------------------------------------------------
(* _durable_operation: claim, perform, settle.                              *)

\* Mutated: whoever may own the claim goes on, whether or not it is new.
ClaimLoosely(w) ==
    LET id == ClaimOf(job[w].req)
    IN  /\ job[w].step = "claim"
        /\ claims' = [claims EXCEPT ![id] = Claimed(Subject(w))]
        /\ Continue(w, "operate", NoRecord)
        /\ UNCHANGED <<now, rows, approvals, memory, effects>>

Claim(w) ==
    LET id == ClaimOf(job[w].req)
    IN  /\ job[w].step = "claim"
        /\ IF claims[id] = NoRecord
           THEN /\ claims' = [claims EXCEPT ![id] = Claimed(Subject(w))]
                /\ Continue(w, "operate", NoRecord)
           ELSE /\ Continue(w, AfterOperation(w), "uncertain")
                /\ UNCHANGED claims
        /\ UNCHANGED <<now, rows, approvals, memory, effects>>

\* The handler returns, or raises after or before it did what it is for.
Operate(w) ==
    /\ job[w].step = "operate"
    /\ \/ /\ effects' = [effects EXCEPT ![Subject(w)] = @ + 1]
          /\ \E response \in Results \cup {"uncertain"} :
                Continue(w, "settle", response)
       \/ /\ Continue(w, "settle", "uncertain")
          /\ UNCHANGED effects
    /\ UNCHANGED <<now, repository, memory>>

\* complete_execution; a result the repository does not take is uncertain.
Settle(w) ==
    LET id == ClaimOf(job[w].req)
        status == IF job[w].response \in Results THEN "succeeded" ELSE "unknown"
    IN  /\ job[w].step = "settle"
        /\ IF CanSettle(claims[id], Subject(w), status)
           THEN /\ claims' = [claims EXCEPT ![id] = Settled(Subject(w), status)]
                /\ Continue(w, AfterOperation(w), job[w].response)
           ELSE /\ Continue(w, AfterOperation(w), "uncertain")
                /\ UNCHANGED claims
        /\ UNCHANGED <<now, rows, approvals, memory, effects>>

-----------------------------------------------------------------------------
(* _persist_durable_state and _store_idempotent.                            *)

Persist(w) ==
    /\ job[w].step = "persist"
    /\ IF CanSave(approvals, revision[w])
       THEN /\ approvals' = Saved(approvals, SavedState(manager[w], pending[w]))
            /\ revision' = [revision EXCEPT ![w] = approvals'.revision]
            /\ IF job[w].req.scope = "get"
               THEN Respond(w, job[w].req, job[w].response)
               ELSE Continue(w, "store", job[w].response)
       ELSE /\ Respond(w, job[w].req, "state_conflict")
            /\ UNCHANGED <<approvals, revision>>
    /\ UNCHANGED <<now, rows, claims, cache, uncommitted, handlers, manager,
                   pending, noticed, effects>>

\* Mutated: the response is remembered although it is not committed.
HoldAndCache(w, response) ==
    LET held == [request |-> job[w].req, response |-> job[w].response]
    IN  /\ uncommitted' = [uncommitted EXCEPT ![w][job[w].row] = held]
        /\ cache' = [cache EXCEPT ![w][job[w].req.key] = held]
        /\ Respond(w, job[w].req, response)
        /\ UNCHANGED rows

\* The response is remembered only once it is committed; one that is not is
\* held, and committed when the client sends the request again.
Hold(w, response) ==
    /\ uncommitted' = [uncommitted EXCEPT ![w][job[w].row] =
                          [request |-> job[w].req, response |-> job[w].response]]
    /\ Respond(w, job[w].req, response)
    /\ UNCHANGED <<rows, cache>>

\* Mutated: a stored response clears all that are held.
StoreAndClear(w) ==
    LET id == job[w].row
        r == job[w].req
    IN  /\ job[w].step = "store"
        /\ IF CanComplete(rows[id], r, job[w].response)
           THEN /\ rows' = [rows EXCEPT ![id] = Completed(r, job[w].response)]
                /\ cache' = [cache EXCEPT ![w][r.key] =
                                [request |-> r, response |-> job[w].response]]
                /\ uncommitted' = [uncommitted EXCEPT ![w] = NothingUncommitted]
                /\ Respond(w, r, job[w].response)
           ELSE Hold(w, "unavailable")
        /\ UNCHANGED <<now, claims, approvals, handlers, manager, pending,
                       revision, noticed, effects>>

Store(w) ==
    LET id == job[w].row
        r == job[w].req
    IN  /\ job[w].step = "store"
        /\ IF CanComplete(rows[id], r, job[w].response)
           THEN /\ rows' = [rows EXCEPT ![id] = Completed(r, job[w].response)]
                /\ cache' = [cache EXCEPT ![w][r.key] =
                                [request |-> r, response |-> job[w].response]]
                /\ uncommitted' = [uncommitted EXCEPT ![w][id] = NoRecord]
                /\ Respond(w, r, job[w].response)
           ELSE Hold(w, Refusal(id, job[w].response))
        /\ UNCHANGED <<now, claims, approvals, handlers, manager, pending,
                       revision, noticed, effects>>

-----------------------------------------------------------------------------
(* The environment.                                                         *)

\* A transaction raises StoreError and is rolled back.
StoreFails(w) ==
    /\ job[w].step \in FailingSteps
    /\ \/ /\ job[w].step = "peek"
          /\ Respond(w, job[w].req, "in_progress")
          /\ UNCHANGED <<rows, cache, uncommitted>>
       \/ /\ job[w].step \in {"claim", "settle"}
          /\ Continue(w, AfterOperation(w), "uncertain")
          /\ UNCHANGED <<rows, cache, uncommitted>>
       \/ /\ job[w].step = "persist"
          /\ Respond(w, job[w].req, "unavailable")
          /\ UNCHANGED <<rows, cache, uncommitted>>
       \/ /\ job[w].step = "store"
          /\ Hold(w, "unavailable")
    /\ UNCHANGED <<now, claims, approvals, handlers, manager, pending, revision,
                   noticed, effects>>

Crash(w) ==
    /\ job[w].step # "down"
    /\ cache' = [cache EXCEPT ![w] = EmptyCache]
    /\ uncommitted' = [uncommitted EXCEPT ![w] = NothingUncommitted]
    /\ handlers' = [handlers EXCEPT ![w] = {}]
    /\ manager' = [manager EXCEPT ![w] = <<>>]
    /\ pending' = [pending EXCEPT ![w] = {}]
    /\ revision' = [revision EXCEPT ![w] = 0]
    /\ noticed' = [noticed EXCEPT ![w] = {}]
    /\ job' = [job EXCEPT ![w] = DownJob]
    /\ reply' = NoRecord
    /\ UNCHANGED <<now, repository, effects>>

\* The requests of a payload that a process with these handlers goes on with.
Resumable(payload, served) ==
    {i \in payload.pending : payload.requests[i].subject.params \in served}

\* Mutated: the requests are restored, not which of them are being served.
RestartUnserved(w) ==
    /\ job[w].step = "down"
    /\ \E served \in Deployments : handlers' = [handlers EXCEPT ![w] = served]
    /\ manager' = [manager EXCEPT ![w] = approvals.payload.requests]
    /\ revision' = [revision EXCEPT ![w] = approvals.revision]
    /\ job' = [job EXCEPT ![w] = IdleJob]
    /\ reply' = NoRecord
    /\ UNCHANGED <<now, repository, cache, uncommitted, pending, noticed, effects>>

\* __init__ and _restore_durable_state.  What the new process has no handler
\* for is not restored as pending.
Restart(w) ==
    /\ job[w].step = "down"
    /\ \E served \in Deployments :
          /\ handlers' = [handlers EXCEPT ![w] = served]
          /\ pending' = [pending EXCEPT ![w] = Resumable(approvals.payload, served)]
    /\ manager' = [manager EXCEPT ![w] = approvals.payload.requests]
    /\ revision' = [revision EXCEPT ![w] = approvals.revision]
    /\ job' = [job EXCEPT ![w] = IdleJob]
    /\ reply' = NoRecord
    /\ UNCHANGED <<now, repository, cache, uncommitted, noticed, effects>>

\* reconcile_execution, by an operator.
Reconcile(id) ==
    /\ claims[id] # NoRecord
    /\ claims[id].status = "claimed"
    /\ claims' = [claims EXCEPT ![id] = Settled(claims[id].owner, "unknown")]
    /\ reply' = NoRecord
    /\ UNCHANGED <<now, rows, approvals, memory, job, effects>>

Tick ==
    /\ now < MaxTime
    /\ now' = now + 1
    /\ reply' = NoRecord
    /\ UNCHANGED <<repository, memory, job, effects>>

-----------------------------------------------------------------------------

\* The steps by which a worker gets on with its job when the store works.
Work(w) ==
    \/ Peek(w)
    \/ \E outcome \in Outcomes, g \in Governance : ServeDecision(w, outcome, g)
    \/ Turned(w)
    \/ \E g \in Governance : ServeVote(w, g) \/ ServeResume(w, g)
    \/ Claim(w)
    \/ Operate(w)
    \/ Settle(w)
    \/ Persist(w)
    \/ Store(w)

Next ==
    \/ \E w \in Workers :
          \/ \E r \in Requests :
                AnswerFromCache(w, r) \/ CommitLate(w, r) \/ Reserve(w, r)
          \/ \E i \in ApprovalIds : ServeGet(w, i)
          \/ Work(w)
          \/ StoreFails(w)
          \/ Crash(w)
          \/ Restart(w)
    \/ \E id \in ClaimIds : Reconcile(id)
    \/ Tick

Spec == Init /\ [][Next]_vars

\* A worker gets on with its job unless it waits for a handler: that a handler
\* returns is not assumed.
GetsOn(w) == job[w].step # "operate" /\ Work(w)

\* A client whose response is being held sends its request again, and not all of
\* these retries meet a store that is unavailable; that the store can take what
\* it is given is not assumed.  The fairness is strong because other requests
\* are served in between.
Fairness ==
    /\ \A w \in Workers : WF_vars(GetsOn(w))
    /\ \A w \in Workers, r \in Requests : SF_vars(CommitLate(w, r))

FairSpec == Spec /\ Fairness

-----------------------------------------------------------------------------
(* Properties.                                                              *)

Steps == {"down", "idle", "peek", "serve", "claim", "operate", "settle",
          "persist", "store"}

Responses == {"executed", "refused", "escalated", "uncertain", "voted", "shown",
              "forbidden", "not_found", "unauthenticated", "in_progress",
              "key_conflict", "state_conflict", "unavailable"}

ApprovalRecord ==
    [subject : Decisions, governance : Governance, roles : SUBSET Roles,
     threshold : Nat \ {0}, created : Nat, expires : Nat,
     votes : [Roles -> People \cup {NoVote}], state : RequestStates,
     consumed : BOOLEAN]

\* Every variable has its type.
TypeOK ==
    /\ now \in Nat
    /\ rows \in [RowIds -> RowRecord \cup {NoRecord}]
    /\ claims \in [ClaimIds -> ClaimRecord \cup {NoRecord}]
    /\ approvals \in [revision : Nat, payload : [requests : Seq(ApprovalRecord),
                                                pending : SUBSET (Nat \ {0})]]
    /\ approvals.payload.pending \subseteq DOMAIN approvals.payload.requests
    /\ cache \in [Workers -> [Keys -> Entry \cup {NoRecord}]]
    /\ uncommitted \in [Workers -> [RowIds -> Draft \cup {NoRecord}]]
    /\ handlers \in [Workers -> SUBSET Params]
    /\ manager \in [Workers -> Seq(ApprovalRecord)]
    /\ pending \in [Workers -> SUBSET (Nat \ {0})]
    /\ \A w \in Workers : pending[w] \subseteq DOMAIN manager[w]
    /\ revision \in [Workers -> Nat]
    /\ noticed \in [Workers -> SUBSET ApprovalIds]
    /\ job \in [Workers -> [step : Steps,
                  req : Requests \cup {Get(i) : i \in ApprovalIds} \cup {NoRecord},
                  row : RowIds \cup {NoRecord},
                  response : Responses \cup {"unstorable", NoRecord}]]
    /\ effects \in [Decisions -> Nat]
    /\ reply \in [req : Requests \cup {Get(i) : i \in ApprovalIds},
                  response : Responses] \cup {NoRecord}

Answered(r) ==
    /\ rows[RowOf(r)] # NoRecord
    /\ rows[RowOf(r)].request = r
    /\ rows[RowOf(r)].status = "complete"

Answer(r) == rows[RowOf(r)].response

\* The service implements AtMostOnce: a decision's operation is performed at
\* most once, directly or after an approval, by whichever worker, across
\* crashes, retries and failed transactions; its final answer never changes,
\* "executed" is never said of one that was not performed nor "refused" of one
\* that was or will be.
Once == INSTANCE AtMostOnce WITH
            Operations <- Decisions,
            Undecided <- NoRecord,
            runs <- effects,
            verdict <- [d \in Decisions |-> IF Answered(d) THEN Answer(d)
                                                           ELSE NoRecord]
ImplementsAtMostOnce == Once!AtMostOnceSpec

\* storage.md: the durable record can be reconciled with the world.  No
\* operation is performed without a claim an operator can find, not even by a
\* worker that crashed at once; a claim that says "succeeded" is of one that
\* was performed; and a decision is claimed directly or by an approval, never
\* both.
EffectsAreClaimed ==
    /\ \A d \in Decisions :
          LET own == {id \in ClaimIds : claims[id] # NoRecord /\ claims[id].owner = d}
          IN  /\ Cardinality(own) <= 1
              /\ effects[d] <= Cardinality(own)
    /\ \A id \in ClaimIds :
          claims[id] # NoRecord /\ claims[id].status = "succeeded" =>
              effects[claims[id].owner] = 1

\* What a worker answers from memory is what the repository holds, although the
\* cache is keyed without a scope and the endpoints share it: a retry at
\* another worker, or after a restart, gets the same answer.
CacheIsCommitted ==
    \A w \in Workers, k \in Keys : cache[w][k] # NoRecord =>
        /\ cache[w][k].request.key = k
        /\ Answered(cache[w][k].request)
        /\ Answer(cache[w][k].request) = cache[w][k].response

Committed == approvals.payload.requests

\* What clients were told about approvals survives every crash, because a stale
\* worker can never overwrite it: an answered escalation, vote or resume is in
\* the committed approval state for good.
AnswersAreDurable ==
    \A r \in Requests : Answered(r) =>
        CASE Answer(r) = "escalated" ->
                \E i \in DOMAIN Committed : Committed[i].subject = r
          [] Answer(r) = "voted" ->
                /\ r.approval \in DOMAIN Committed
                /\ IF r.approve
                   THEN Committed[r.approval].votes[r.role] = r.who
                   ELSE Committed[r.approval].state = "denied"
          [] Answer(r) = "executed" /\ r.scope = "resumes" ->
                /\ r.approval \in DOMAIN Committed
                /\ Committed[r.approval].consumed
                /\ Cardinality(Voted(Committed[r.approval])) >= Quorum.threshold
          [] OTHER -> TRUE

\* implementation-spec.md (M15): "denied ... approvals never execute".  No
\* operation is performed for an approval whose denial has been committed.
DeniedNeverExecutes ==
    [][\A d \in Decisions : effects'[d] > effects[d] =>
          \A i \in DOMAIN Committed :
              Committed[i].subject = d =>
                  Committed[i].state # "denied"]_vars

\* What one approval request may have become at a later time: what it is bound
\* to, demands and expires at stays, a vote stays, and so does what closes it.
Advances(before, after) ==
    /\ BoundTo(after, before.subject, before.governance)
    /\ after.roles = before.roles /\ after.threshold = before.threshold
    /\ after.expires = before.expires
    /\ \A role \in Roles :
          before.votes[role] # NoVote => after.votes[role] = before.votes[role]
    /\ before.state # "pending" => after.state # "pending"
    /\ before.state \in {"denied", "expired"} \/ before.consumed => after = before

\* docs/storage.md: "optimistic revision checks that reject stale writes".  The
\* workers vote, deny and resume on copies of the approval state, and save copies
\* whole; yet the committed requests only go on, as those of one manager would:
\* no save drops a request or gives its number to another, takes back a vote, or
\* opens again what was denied, expired or used.
CommittedOnlyAdvances ==
    [][\A i \in DOMAIN Committed :
          /\ i \in DOMAIN Committed'
          /\ Advances(Committed[i], Committed'[i])]_vars

\* How far the promise that denied approvals never execute is kept with several
\* workers: what is performed in spite of a committed denial is performed by a
\* worker that has not seen the last committed approval state.
DenialsEscapeOnlyStale ==
    [][\A d \in Decisions : effects'[d] > effects[d] =>
          \A i \in DOMAIN Committed :
              Committed[i].subject = d /\ Committed[i].state = "denied" =>
                  \E w \in Workers : /\ job[w].step = "operate" /\ Subject(w) = d
                                    /\ revision[w] < approvals.revision]_vars

\* A pending approval leaves the committed state only by the save of a worker
\* that was started without its handler: no stale worker, failed save or restart
\* with all handlers makes votes and resumes of it unanswerable.
PendingLossHasCause ==
    [][\A i \in approvals.payload.pending \ approvals'.payload.pending :
          \E w \in Workers : /\ Committed[i].subject.params \notin handlers[w]
                            /\ revision'[w] = approvals'.revision]_vars

\* w is serving r (it owns the reservation), or has a response to r that it
\* could not commit.
HeldBy(w, r) ==
    \/ job[w].req = r /\ job[w].step # "peek"
    \/ /\ uncommitted[w][RowOf(r)] # NoRecord
       /\ uncommitted[w][RowOf(r)].request = r

Held(r) == ~Answered(r) /\ \E w \in Workers : HeldBy(w, r)

\* A reservation that nobody holds.
Abandoned(r) ==
    /\ rows[RowOf(r)] # NoRecord /\ rows[RowOf(r)].request = r
    /\ ~Answered(r) /\ ~Held(r)

\* service-api.md: "Terminal execution results are immutable."  Settled claims
\* and completed rows never change, not by a late owner, a retry or an operator;
\* reservations and claims are never lost or handed to another.  And storage.md:
\* "Concurrent non-owners receive request_in_progress and never invoke a
\* handler."  Nobody takes over a reservation whose owner is gone, not after a
\* restart, a retry or a reconciliation: how far its operation got is not known,
\* so it is neither served again nor ever answered.
FinalStaysFinal ==
    [][/\ \A id \in RowIds : rows[id] # NoRecord =>
             /\ rows'[id].request = rows[id].request
             /\ rows[id].status = "complete" => rows'[id] = rows[id]
       /\ \A r \in Requests : Abandoned(r) => Abandoned(r)'
       /\ \A id \in ClaimIds : claims[id] # NoRecord =>
             /\ claims'[id].owner = claims[id].owner
             /\ claims[id].status # "claimed" => claims'[id] = claims[id]]_vars

\* The answers that tell a client that the worker gave its request up.
GivingUp == {"not_found", "unauthenticated", "unavailable", "state_conflict"}

\* Whoever waits for an answer is not forgotten: a request is abandoned only by a
\* worker that crashes, or that tells the client so, or that holds its response
\* and overwrites it with the one to a caller without an approval role, who used
\* the same key (service.py:1029).
GivenUpIsTold ==
    [][\A r \in Requests : Held(r) /\ Abandoned(r)' =>
          \E w \in Workers :
              /\ HeldBy(w, r)
              /\ \/ job'[w].step = "down"
                 \/ \E x \in GivingUp : reply' = [req |-> r, response |-> x]
                 \/ job[w].response = "forbidden" /\ job[w].row = RowOf(r)]_vars

\* A client is told that its operation was performed, refused or escalated, or
\* its vote counted, only when that is committed, whether the answer comes from
\* the job, a held response, the memory of a worker or the row: so no retry, at
\* any worker and after any crash, is told otherwise.
ToldIsCommitted ==
    (reply # NoRecord /\ reply.response \in {"executed", "refused", "escalated", "voted"})
        => Answered(reply.req) /\ Answer(reply.req) = reply.response

\* w has r, and retries of r cannot help it: the handler that w waits for, of this
\* request or of another, does not return; or w remembers the answer to another
\* request with the same key, because its memory has no scopes (service.py:364);
\* or the repository cannot encode the response that w accepted (service.py:300).
OutOfReach(w, r) ==
    /\ HeldBy(w, r)
    /\ \/ job[w].step = "operate"
       \/ /\ uncommitted[w][RowOf(r)] # NoRecord
          /\ uncommitted[w][RowOf(r)].request = r
          /\ \/ cache[w][r.key] # NoRecord
             \/ uncommitted[w][RowOf(r)].response = "unstorable"

\* A request does not get lost between a worker and the store: it is answered, or
\* given up as GivenUpIsTold says, also when its response could not be committed
\* at first, unless it is out of reach in one of the three ways above.  The first
\* passes when the handler returns, and the promise then holds again.
HeldIsAnswered ==
    \A r \in Requests :
        Held(r) ~> ~Held(r) \/ \E w \in Workers : OutOfReach(w, r)

-----------------------------------------------------------------------------
(* What the documentation says and the code does not do.                    *)

\* _persist_durable_state: "approval state changed concurrently; retry with the
\* same request key".  The request can still be answered.
ConflictCanBeRetried ==
    reply # NoRecord /\ reply.response = "state_conflict" =>
        Answered(reply.req) \/ Held(reply.req)
=============================================================================
