# Governance verification

TLA+ specifications of Computational-Governance-AI: what its approvals,
delegations, policies, stores and durable service do, translated from the code,
checked with TLC on small instances, and proved with TLAPS for every instance:
each safety property that a passing run checks is also a theorem.  Paths below
are relative to `src/governance/` unless they say otherwise.

## 1. The system

The library decides whether an action of an actor is allowed, blocked or needs
people's approval, and lets it run only then.  A policy is a set of laws; an
interceptor evaluates them before it calls the operation's handler; escalated
actions wait for votes; actors obtain capabilities from each other through a
delegation graph; a service exposes decisions, votes and resumes over HTTP,
with any number of worker processes on one SQLite repository.

| Component | State | Operations |
|---|---|---|
| ApprovalManager (`approval.py`) | requests by id, each with its binding (four digests), votes, deadline, state, `consumed` | request, get, approve, deny, prepare_resume, snapshot, from_snapshot |
| DelegationGraph (`delegation.py`) | intrinsic capabilities, grants with depth and expiry, the revoked ones | register_intrinsic, grant, revoke, expire, authority_proof, snapshot, from_snapshot |
| Durable service (`service.py`) | the handlers it was started with, response cache by key, responses held uncommitted, approval manager, the approvals it serves (`_pending`), revision of the approval state, expired approvals already reported | POST decisions, votes, resumes; GET approval; restore at start; reconcile_execution |
| SQLiteGovernanceStore (`storage.py`) | state records with revisions, idempotency rows, execution claims, audit events | load/save_state, begin/complete_idempotency, claim/load/complete_execution, append/replay/purge audit, backup, restore, migrate |
| AtomicJsonStore, JsonlAuditStore (`storage.py`) | one file each | save, load; append, load |
| Interceptor, RuntimeAdapter (`interceptor.py`, `runtime.py`) | number of the next event; ids of completed calls | execute, check, resume_approved, record_governance_error; invoke |
| Policy lifecycle (`lifecycle.py`) and versions (`versioning.py`) | versions with a state per environment, votes, simulation and canary reports, the active version per environment; registered bundles and the active one | draft, validate, simulate, canary, approve, deploy, promote, rollback, monitor, evaluate; register, activate, rollback |
| Rules, composition, compiler (`model.py`, `rule.py`, `composition.py`, `compiler.py`) | none | evaluation order, inheritance that only restricts, canonical form |
| Audit, identity, telemetry, parser, SDK, CLI | an audit log; otherwise none of their own | record and replay; verify; export; parse; transport |

How they interact.  A worker serves one POST at a time.  It looks the key up in
its cache and among the responses it holds, reserves it in the repository, lets
the interceptor evaluate, asks its approval manager for a request, a vote or a
resume, claims the execution, calls the handler, settles the claim, saves the
approval state and commits the response: up to six transactions, between which
other workers run, and after each of which the worker may crash or the store
may fail.  Approval requests are bound to a digest of the policy and the
delegation graph, so whatever changes these invalidates pending votes.

What is hard, and not reached by the repository's unit tests, which call one
method after another on one object: the interleaving of workers at their
transactions; approval state read at start or in an earlier request and used
after another worker committed a newer one; crashes between claim, handler and
response, and between write, fsync and rename; a response that could not be
committed; a restart with other handlers; deadlines met exactly; long sequences of
votes, denials, changes of policy and revocations.  `PROJECT.json`
lists these hazards at their lines, with the property that would notice each.

What makes each component correct:

- *Approvals.*  An escalated operation runs once, for the exact subject and
  governance state its quorum voted for, before the deadline; a denial or an
  expiry is final; votes are never lost or changed.
- *Delegation.*  Authority that is not intrinsic has a live chain of grants back
  to an actor who has it; capabilities and depth only shrink along it; what is
  revoked stays revoked, with everything below it; grants form no cycle.
- *Durable service.*  Every operation is performed at most once and behind a
  claim; its answer is final, true, and the same at every worker; what clients
  were told about approvals survives.
- *Policy lifecycle.*  What is active in an environment was validated, simulated
  and approved for that environment; what expired is never used again; the
  evidence for every change of production stays on record.
- *Rules and composition.*  A composed scope is nowhere more permissive than the
  scope it inherits from; a linked child is stricter than its parent.
- *Interceptor and runtime.*  What runs in enforce mode is governed by the laws, by
  live grants and by the votes or the handler a violated law asks for, as they
  are when it runs; the log says what ran and nothing else, in both modes.
- *Policy versions.*  The events tell which version of a policy was in force when,
  and with what content; who activates is given the record in force.
- *File stores.*  After a crash, a failed step or a power failure the file is whole,
  and what was saved or appended is still there; a recovered process reuses no
  number.
- *Audit table.*  A consumer that keeps a cursor misses no event that is still kept.

## 2. Modules

| Module | What it is | Code |
|---|---|---|
| `ApprovalRequest` | one approval request and the transitions the manager makes on it; no state | `approval.py` |
| `Approval` | one manager under any sequence of calls, with clock and governance state | `approval.py`, `interceptor.py:204` |
| `ApprovalProofs` | theorems about `Approval` | |
| `Delegation` | the delegation graph under any sequence of calls | `delegation.py` |
| `DelegationProofs` | theorems about `Delegation` | |
| `Repository` | what one transaction does to a row, a claim or the approval record; no state | `storage.py` |
| `DurableService` | workers, repository, crashes, restarts with other handlers, store failures, operator | `service.py`, over `Repository` and `ApprovalRequest` |
| `AtMostOnce` | the abstract promise of the durable service | |
| `DurableServiceProofs` | theorems about types, rows, claims and caches of `DurableService`, and who owns a reservation | |
| `DurablePromiseProofs` | theorems about what the service promises: the refinement of `AtMostOnce`, claims, answers, approvals | |
| `Policy` | rules, inheritance, evaluation, as operators; no state | `rule.py`, `composition.py`, `compiler.py`, `parser.py` |
| `Interceptor` | interceptors and adapters over a policy, the delegation graph, the manager and the log | `interceptor.py`, `runtime.py`, `audit.py`, over `Policy`, `Delegation` and `ApprovalRequest` |
| `InterceptorProofs` | theorems about `Interceptor` and `Policy` | |
| `PolicyLifecycle` | the versions of one policy and the environments | `lifecycle.py` |
| `PolicyLifecycleProofs` | theorems about `PolicyLifecycle` | |
| `PolicyVersions` | the store of released bundles and the active version of each policy | `versioning.py` |
| `PolicyVersionsProofs` | theorems about `PolicyVersions` | |
| `JsonStore` | one file that is replaced as a whole | `storage.py:23` |
| `JsonlStore` | one file that is appended to, and the numbering of its events | `storage.py:73`, `audit.py` |
| `AuditTable` | the audit events of the repository and a consumer that follows them | `storage.py` |
| `Stores` | the files, the table and the policy versions side by side, each behaviour with one of them at work | |
| `StoresProofs` | theorems about the files, the table and `Stores` | |
| `MC...` | instances for TLC | |

### Approval and ApprovalRequest

A request is a record with the code's fields.  The four digests of the code are
two: `subject` (action and context) and `governance` (policy and state digest,
the latter covering the delegation graph); a digest is modelled by the thing
digested.  `Expire` is `_get`, which every operation calls first, so an
operation that raises has the effect of `Get`: the disjunct for refused calls.
`Vouched` is the identity check: the claimed role is one the identity's provider
vouches for and the identity has not expired.  `CanApprove`, `CanDeny` and
`CanConsume` are the checks of `approve`, `deny` and `prepare_resume` in the
code's terms, `Approve`, `Deny` and `Consume` what they assign.  `Resume` is
`resume_approved`: the same digests are compared, `prepare_resume` consumes and
the operation runs.  `ballots` and `runs` are history that no action reads.

One clock drives all calls, as in the service, which passes its own clock
everywhere.

### Delegation

Grants are numbered as in the code.  `ValidAt` is `_valid_grant`, which looks at
every grant of the `Lineage`, the path of parents: the least set of grants that
holds the grant and the parent of each of its members.  `SourcesAt` are the grants
authority_proof accepts; the oldest of those that may be passed on is the
`SourceGrant`, whose depth limits the new grant and whose revocation takes it down.
A refused grant still registers the grantor's capabilities, because `grant` calls
`register_intrinsic` before its checks: `Register` stands for that, too.  Time is
one monotone clock here: `now` is a parameter of the code, and a caller that passes
an earlier time than before sees grants as they were then.  resume_approved is such
a caller; `Interceptor` is where that is modelled.

### DurableService and Repository

A worker is a `job`: the request it serves and the step it is at.  A step ends at
the next transaction or at the handler, because what is between them is local to
the worker and `handle` holds the worker's lock.

| Step | Action | Code |
|---|---|---|
| idle | `AnswerFromCache`, `CommitLate`, `Reserve`, `ServeGet` | `_idempotent`, `_reserve_durable`, `_approval` |
| peek | `Peek` | `load_execution` in `_reserve_durable` |
| serve | `ServeDecision`, `Turned`, `ServeVote`, `ServeResume` | `_decision`, `_vote`, `_resume` up to their first transaction |
| claim, operate, settle | `Claim`, `Operate`, `Settle` | `_durable_operation` |
| persist | `Persist` | `_persist_durable_state` |
| store | `Store`, `Hold` | `_store_idempotent` |
| down | `Restart` | `_restore_durable_state` |

`StoreFails` is a transaction that raises and is rolled back, `Crash` forgets all
memory of a worker at any step, `Reconcile` is the operator's call.  A process is
started with one of `Deployments`, its set of handlers, each time it starts.
`Restart` restores all requests, and as `pending` those it has a handler for; votes
and resumes of the others are answered 404, and the next save commits the shorter
list.  `Operate`
performs the operation or not and returns or raises, in every combination: the
service cannot know.  What the policy makes of a request is any of `Outcomes`.
Approval ids are positions in the manager's list, so two workers that escalate
at once number their requests alike, as in the code.

A handler's result is "executed", or "unstorable" where the service can send it and
the repository cannot encode it (`Encodable`): `json.dumps` accepts a NaN and keys of
several types, `_json_payload` does not.  A worker that holds such a response offers it
at each retry, and `Refusal` is the error it sends.  `OutOfReach` names the three
conditions under which a held request cannot be answered, however often it is retried:
its handler does not return, the cache has another request's answer under its key
(`service.py:364`: the cache has no scopes), or its response is unstorable.

### PolicyLifecycle

One action per method of the manager, for one policy: all its state is keyed by
the policy.  The aggregate `state` and the environments' states `env` are apart,
as in the code, where the checks look at one or the other; `Aggregate` is
`_recompute_state`.  `Evaluate` is evaluate through current() and monitor(), which
comes first in each; `Promote` runs monitor() and deploy() in one step.  A report
of a simulation is only known to exist and a production canary is known by the
version it passed against, which is all that later checks read.  Reasons are
checked by the event that an operation ends with, so a blank one makes an
operation raise after it has taken effect; in rollback() the first of two events
raises, and the second half of the change is missing: the disjunct "blank" of
`RollBack`.

### PolicyVersions

A bundle is the content its hash covers and a source; versions are numbers, because
stable semantic versions are totally ordered and equal only if they are the same
text.  `activate` is four actions: `Change` records an event, with the kind
`rollback` if the version is lower; `Confirm` finds the version active and returns
the last event that activated it; `RefuseDowngrade` raises behind the call of
`register`, which stays; and a call that raises before is no step.  `RollBack` is
`rollback`, which activates whatever is registered under the version with
`allow_rollback`.  `returned` is the event given to the caller.

### JsonStore, JsonlStore and AuditTable

Both files are modelled twice: as what a process would read now, and as what may be
left when the power fails.  Of the JSON file these are `document` and `survivors`: a
replacement that the directory was not synchronised for may be undone, and a
file that was not synchronised may be torn.  Of the JSONL file it is how many lines
are `synced`; the others may go, and a piece of the first that went may stay.  A
step of save() or append() is one of its calls to the system, and each may fail,
crash or lose power.  `Loads` is AuditLog.from_jsonl and `NumberAfter` next_sequence,
with which a process that has loaded the log goes on.  An append() that raised is tried
again at once or not at all.  One state of the file is left out: a line that was run
together from a whole event and a later one, not synchronised, may be cut back by a power
failure to just the whole event; in the model it is cut back to a piece that does not
parse, or goes.

Every method of the audit table is one transaction and so one action.  The consumer
is code outside the repository that does what `docs/storage.md` says it can: it asks
for the page after the last sequence it has got.  `AppendAudit` gives the row the
time the caller gives, and `PurgeAudit` deletes by that time, so rows need not go in
the order they came.

### Policy and Interceptor

`Policy` has the pure part: `Satisfied` is Rule.evaluate, `Tightens`, `Composed`,
`LinksTighten` and `RulesValid` are what inheritance and compilation check, `Evaluate` and
`Decide` how a compiled policy decides.  Predicates are the comparisons of numbers
that the parser builds.  `RulesValid` and the others are relations over sets of
rules: the canonical order the compiler establishes is the order of the ids.

In `Interceptor` a policy is any of `Scopes` that compiles, chosen at the start; the
graph is `Delegation` itself (`Graph`), whose steps are the steps `Govern`.  `Gates` are
adapters in enforce mode, `Probes` in shadow mode.  invoke() at a gate is one of
`Pass` (the operation runs), `Stop` (blocked, or a handler declines), `Hold` (an
approval request is opened) and `Fail` (the event is refused and nothing runs); at a
probe it is `Observe` or `ObserveFails`.  Duplicates return before anything changes and
are stutters.  `Note` stands for check() and for calls whose identity is not
verified: an event and nothing else.  `Resume` and `ResumeStops` are
resume_approved with any action and with the context of now or of the request, and
with `now` passed or left to the context.  `Rebuild` is a new adapter over the old
log.  Events are known by their ids, since a refused id is what can go wrong with
them: adapters whose `TraceOf` is the same count for themselves and collide, which
is how an approval can be spent and nothing run (`SpentIsExplained`).  `ran` and `recorded` are the operation and the event of the last step.

### Mutated forms

Operators whose comment starts with "Mutated" are plausible bugs in the
definition that follows: a dropped guard, a missing reset, a swapped order.  No
specification uses them.  Put in the place of the definition they precede, they
make the property that guards against the bug fail in the run that
`PROJECT.json` names under `mutants`; this is how the properties themselves were
tested.

## 3. What is checked

Passing runs.

| Run | Instance | Shows |
|---|---|---|
| `approval_manager` | two roles, two people, identities that expire, two governance states, deadlines within the clock's bound | types; runs are backed by quorums; single use; a request only goes on, never back, in votes, state and use; snapshots are restorable |
| `delegation_graph` | three actors, two capabilities, expiry, revocation | types; authority grounded, attenuating, acyclic; revocation final; authority is lost only for a cause; snapshots are restorable |
| `service_decisions` | two workers; a decision, a vote with the same key, a decision nobody has a handler for; results that cannot be stored, handlers that may not return, all outcomes, all failures, crashes; fair | at most once (refinement of `AtMostOnce`); finality, and nobody takes over an abandoned reservation; a response held back is committed in the end unless it is out of reach |
| `service_approvals` | two workers; an escalated decision, a vote, a denial, two resumes, on two keys that the endpoints share; conflicting saves, crashes | effects are claimed, and claimed once, where an approval is raced for; durable answers; the committed approval state only goes on; only a worker with a stale copy performs what was denied |
| `service_lifecycle` | one worker, started with or without the handler; vote, denial, resume, a caller without credential, one without a role, keys that collide; results that cannot be stored; deadline, failures | types; clients are told only what is committed; a pending approval is lost only for a cause; what the worker gives up, it tells |
| `interceptor` | a gate and a probe on one trace; two actors, three capabilities; nine scopes, of which six must not compile; a manager, a handler or nobody to ask | types; what the gate runs is governed by laws, grants and votes; composed scopes are no looser; linked children are stricter; a spent approval that ran nothing met another adapter's event |
| `policy_lifecycle` | two versions that compile, of which one expires, and one that does not; production and staging; a quorum of two with two people, one of whom has two roles; blank reasons | types; what is active was approved there; what expired is not served and stays out; aggregate and environments agree; what superseded a version has evidence |
| `stores` | one store in each behaviour: the JSON file, the JSONL log or the audit table, with a crash, a failure or a power failure at every step; two policies, two versions, two contents, three sources of which two mean the same, four version events | types; saved state survives; recovery is honest; a reader misses nothing; the history of versions is whole and true; callers get the record in force |

The bounds are the numbers of people, keys and requests, the clock (`MaxTime`),
how often GET may add a revision (`MaxRevision`), the steps whose transaction may
fail (`FailingSteps`), and the votes people try to cast (`Ballots`).  They are
enough for the hazards to occur: two workers are what a race needs, and since every
client request is either the first with its key, a repetition, or a reuse of the key at
the same or at another endpoint, two keys and five requests show every relation between
two requests; two resumes are what a double spend needs; deadlines fall inside the clock's range,
so that votes and resumes happen before, at and after them.  `service_approvals`
leaves transactions that fail to the two other runs of the service: there, what can
go wrong is between workers, and a failed save is like the conflict it does have.
A stale worker takes two workers and a denial, which `service_approvals` has; with one
worker nothing may escape, which is proved (`OneWorkerHeedsDenials`).  No passing run
has two decisions that are escalated at once: that the same number of two approvals confuses
neither claims nor saves is proved only (`OperationsAreClaimed`, `AnswersSurvive`).
Which bugs the instances are large enough to catch is shown by the mutated forms.

`stores` has four saves, so that one can be torn over two that are there; four events
and five lines, so that an event can be tried again, run together with the next, and
recovered from; three event ids over two payloads with four sequences, so that a page
can end before, at and after a purged row; and two versions for a downgrade, two
policies for events of another one in between, and four version events for a version
to be left, returned to and activated again.
Deadlock is not checked in `stores` and `stores_reload`: their bounds stop the
files, and a log that does not load stops the process, as in the code.

Workers are symmetric and `service_approvals` uses that; `service_decisions` checks
liveness, and `service_lifecycle` has one worker, so they do not.  The view of
`service_approvals` is the whole state but `reply`, which no action reads and no property
of that run.

Fairness.  `FairSpec` has weak fairness on a worker's own steps other than the
handler's (a worker that has a job goes on with it: `handle` has no wait other than the
store's transactions, which fail after a timeout; that a handler returns is not assumed)
and strong fairness on `CommitLate` (a client whose response is held sends the
request again, as the error message asks, and the store is not unavailable at each of
these retries).  What the store makes of the response is not assumed: `CommitLate`
is enabled, and happens, also for a response that `complete_idempotency` rejects every
time.  Nothing is assumed of crashes, failures or the operator.  `HeldIsAnswered` is
therefore conditional on `OutOfReach`, and TLC refutes it without any one of the three
conditions: in `service_decisions` a handler may not return, the vote may be cached under
the key of a held decision or the other way round, and a result may be unstorable.

`interceptor` has one request, one grant, a clock of two values and three events for
each adapter: a grant and an approval can each be live, be gone at the moment of
use, or go between a call and its resume, and a gate and a probe can collide on
either of the two ids an error takes.  Of its scopes, one has
for each of the six comparisons a parent and a linked child that tightens it; a refund of
3 meets them all, so that each child is applicable and met in reachable calls, and a
payment of 5 violates some.  Six scopes have one parent and a child that is looser in one
comparison, met by the refund where its parent is not, and must not compile.  The others
are a blocking law between two escalating ones in the order of ids, and a quorum under
default deny.

Violated statements.  These are runs in which the code does not do what its
documentation or an error message says.  Each is a finding in `PROJECT.json`.

- `service_conflict`: a worker with a stale revision tells the client to retry
  with the same key, behind a reservation that nothing completes.  The same
  holds for a worker that crashes behind its reservation or answers 404 or 401:
  retries are then answered `request_in_progress` for good
  (`FinalStaysFinal`).
- `service_denied`: a worker restored before a denial performs the operation
  after another worker committed the denial.  Only a worker that has not seen the
  last committed approval state does (`DenialsEscapeOnlyStale`, in
  `service_approvals`), and with one worker it cannot happen (`OneWorkerHeedsDenials`).
- `interceptor_expired`: resume_approved without `now` takes it from the context
  (`interceptor.py:220`), which has to be the request's, so that for such a caller an
  approval never expires.  The service passes its clock.
- `stores_reload`: after a crash that leaves an event without its newline the log
  loads, and the next append() returns and makes it unloadable, with the events
  that were synchronised before.

Other observations have no run.

- *Approvals.*  One identity with two roles fills a quorum of two, which
  `rule.py:44` calls a distinct-reviewer quorum: votes are counted by role.
- *Service.*  The 403 to a resume by somebody without an approval role is stored
  under the scope of decisions and not the one the key was reserved in
  (`service.py:1029`, the default at `service.py:382`).  The caller gets a store error,
  the resume's reservation stays in progress for good, and what the worker holds for a
  decision with the same key is overwritten: of the ways to be abandoned that
  `GivenUpIsTold` lists, the only one in which no worker crashes and nobody is told.
- A response that is held uncommitted is out of the client's reach once the worker caches
  another request with the same key, of any endpoint: `_idempotent` looks the key up
  without its scope (`service.py:364`) and answers `idempotency_key_conflict`, although
  the repository would take the response.  A restart does not help: it loses the response.
- A result that `json.dumps` takes and `_json_payload` does not (`service.py:300`,
  `storage.py:569`) is answered `durable_state_unavailable` at every retry, although the
  operation was performed, its claim is settled and the store works.
- Between the settled claim and the committed response, a retry of a decision is
  answered `operation_uncertain` although its owner is about to commit success.
- An approval that a process has no handler for is dropped by its next save, and then
  answers 404 everywhere, behind a reservation that stays.  A decision that reaches
  such a process is finally answered 404, for the workers that have the handler too.
- *Interceptor.*  Also with `now`, resume_approved asks the delegation graph with the time
  of the context (`interceptor.py:219`), so that a grant that has expired since the request
  counts, although `spec/foundations.md:94` treats it as absent.  Revocation has no
  such gap: it changes the state digest.
- The approval is consumed before the event is recorded, and a refused event raises:
  with another adapter on the same trace the approval is spent and nothing has run.
  `SpentIsExplained` says that there is no other reason.  Calls of adapters that share
  a trace fail closed for the same reason, until their numbers part.
- *Rules.*  Only the law with the lowest id among the violated ones says whom to ask.  A
  child with a lower id than its parent, that names another role, or a larger set of
  roles with the same threshold, takes the parent's approvers out of the decision.
  `validate_inheritance` accepts both.  `ScopeKeepsParents` compares severity only.
- Under default deny, a child law about what no inherited law speaks of makes it allowed
  where the inherited scope alone would block: `ScopeKeepsParents` asks nothing there.
- *Delegation.*  `grant` refuses a grantor who holds a deep enough grant as long as an
  older, shallower one for the same capability is valid, because `_source_grant` takes
  the oldest.  A refused grant leaves the grantor's capabilities registered
  (`delegation.py:164`).  They are intrinsic to it anyway, so the graph stays one that
  `register_intrinsic` could have made, and no property speaks of it.
- *Lifecycle.*  A rollback with a blank reason is refused after it has replaced the
  active version (`lifecycle.py:791`), without an event.  The target is then active in an
  environment where its state is not `deployed`.  `StatesAgree` does not notice this: it
  says that what is deployed is active, not the converse.  `rollback` accepts a target
  that has the quorum and was never deployed, so a version whose canary failed can reach
  production by it.
- *Versions.*  `register` does not compile the source, and so can replace that of the
  active version, of the same hash, by one that does not compile.  A refused downgrade
  leaves the version registered.  `rollback` may go to a higher version than the active
  one, and is then recorded as an activation.
- *Stores.*  append() raises behind the write if the fsync fails.  The event may be in the
  file, and when it is appended again, as a caller would after an error, the log has its
  id twice and does not load.  `RecoveryIsHonest` allows this: it says that a log
  loads if no append() failed or was cut off (`mishap`), and is true whenever it loads.
  save() raises behind the replacement if the directory cannot be
  synchronised, so the caller is told of a failure and the new document is there; where
  directories cannot be opened it returns without, and a power failure may bring the old
  document back.  Two processes saving to one path share the name of the temporary file.
  An event that is appended again after it was purged gets a new sequence.  Of two
  processes that create a repository at once the second raises, at its insert of the
  schema version.

## 4. What is proved

The proofs assume the named `ASSUME`s of the modules and nothing else: finite
sets of roles and people, quorums that can be reached, natural numbers for
times and bounds, and null values that are neither a request nor a record.  The safety properties of the passing runs are all proved, for
any number of workers, requests, grants, versions and events.

*ApprovalProofs.*  `TypeCorrect`, `ApprovalIsSingleUse`,
`ResumedOperationsAreBacked`, `SnapshotsAreRestorable`, `RequestsNeverGoBack`.
None of the safety properties is inductive.  What a run
is backed by is decided when it happens, but the votes it rests on were cast
earlier, under a governance state that has changed since and may have changed
back.  The invariant therefore ties every recorded vote of a request to a ballot
that was cast for the governance state the request is bound to, before its
deadline (a vote passed the binding check and was not expired), ties the state
`approved` to the number of votes, and `consumed` to the runs: a run's request is
consumed, and no two runs share one.  The validators of from_snapshot then accept
every request: the only place where they are stricter than a single transition is
the number of votes of a pending request, which the vote that reaches the threshold
keeps below it.

*DelegationProofs.*  `TypeCorrect`, `GrantsStayAcyclic`, `RevocationDominates`,
`DelegationAttenuates`, `AuthorityHasRoots`, `GraphIsRestorable`,
`LossesAreExplained`.  The invariant
says that parents precede children, that a child has a capability of its parent,
less depth, no later expiry and starts where the parent ends, and that a grant
whose parent is closed is closed for good.  What holds for
a grant and passes from a grant to its parent describes a set closed under parents,
in which the lineage of the grant therefore lies: that is how the proofs speak of
whole chains without induction.  Acyclicity follows from the reachability check of
`grant` over the active grants, which the new grant is then added to.

*PolicyLifecycleProofs.*  All properties that `policy_lifecycle` checks:
`TypeCorrect`, `OnlyApprovedIsActive`, `OnlyLiveIsServed`, `ExpiredIsNeverBack`,
`AggregateHidesNothing`, `SupersessionIsEvidenced`, all from `Invariance`.  The
checks of deploy and rollback look at an aggregate, at the votes or at a report,
the properties speak of environments.  The invariant `IInv` closes the gap in three
parts.  `Places`: a version that has been in any environment has an aggregate that
says so, one that expired anywhere has the aggregate `expired` and is active
nowhere, and `deployed` is said by the aggregate and an environment together; this
needs that monitor() takes a version out of all its environments at once.
`Quorums`: votes are of different people and roles, there are none for what was not
simulated, and what is active has a quorum, which stays because votes are only
added.  `SupersededForEvidence` is inductive next to `Places`: a successor in an
environment can no longer be canaried.  The change that deploy() makes is treated
as a relation between any two placements (`Moved`), so that promote(), which runs
monitor() first, needs no proof of its own.

*InterceptorProofs.*  All properties that `interceptor` checks, and that the log
tells the truth: `TypeCorrect`, `GatesGovern`, `AuditTellsTheTruth`, `InheritanceTightens`, `CompositionIsMonotone`,
`SpentApprovalsAreExplained`; and `GraphKeepsItsPromises`: the graph that the interceptors
consult behaves as `Delegation` does, so grounded authority, attenuation, acyclicity and
final revocation hold under every call and resume.
For a call that runs at once, `GatesGovern` is a fact about one decision (`DecideFacts`)
and about chains, which `ChainsNarrow` of DelegationProofs gives: that module is
instantiated, and a step of the graph is a step of its specification.  For a resumed
call the votes were cast in earlier steps.  The invariant says that every request
`Stands`: it asks for what the first law violated by its subject demands, and is
approved by enough of the roles it asks for.  Which laws an action violates does not
depend on the graph, so this survives all that happens between request and resume;
that the law still escalates, and that there still is authority, is looked at again
by the resume itself.  `Books` bounds the ids in the log, so that a new adapter has a
number to start with; `IdsHaveWriters` says that an id in the log was left there by an
adapter on its trace, so that the id that a resume finds taken is another's.
`InheritanceTightens` and `CompositionIsMonotone` need only that
the scope compiled: the former is `TightensMeets`, a law's conditions against those
of a law it tightens, one by one; the latter `MoreLawsMoreSevere`.

*DurableServiceProofs* and *DurablePromiseProofs.*  `TypeCorrect`, `FinalIsFinal`,
`MemoryIsCommitted`, `NobodyIsForgotten`, `ToldIsKept`; `OperationsAreClaimed`,
`OperationsRunOnce` (the refinement of `AtMostOnce`), `AnswersSurvive`, `PendingIsKept`,
`CommittedGoesOn`, `OnlyStaleMissDenials`, `OneWorkerHeedsDenials`.  They hold for any
number of workers (the last for one), keys and requests, and any crashes and failures.

The invariant is built in layers.  `TypeInv` adds to the types what a job carries at
each of its steps.  `RecordsInv`: a row is under the scope and key of its request,
and a cache has only what a completed row says.  `OwnersInv`: a request is owned by
one job, whose row is in progress, and a held response has a row and no owner.
A response that cannot be encoded is in a job or held, and in no row or cache, since only
`CanComplete` lets a response there.
`ServingInv` adds that a worker without a job has no request; then a request that is
served is owned, and so whoever completes a row or leaves a request has it.  In a
step only one worker acts, and what happens to a request can be told from how that
worker's job moves (`JobMoves`): it is left where the job ends, by a crash, an answer
or a response held (`NobodyIsForgotten`); it is answered by the transaction that completes
its row or from a row that is complete (`ToldIsKept`); and, once nobody has it, it is
taken up by nobody, because a reservation is made only where there is no row (the part
of `FinalIsFinal` about abandoned reservations).  The argument of at-most-once is
`PlacesInv`.  A decision may be claimed under its key, by a job that was allowed to perform it, or under the number of an approval opened
for it, in the memory of some worker or in the committed state; a *place* is a claim
of the decision or one of these ways to one.  A decision has at most one place, and
none before it is served.  Serving it gives it one, its reservation lets it be
served once, and saves and restarts only copy approvals at the number they have.  So
claims, which exclude each other by place, exclude each other by decision, although
two workers number their first approvals alike and nothing looks for an approval by
its decision.  `EffectsInv` counts: what has been performed was claimed, what is at
`operate` has not been, and is so in one job.  `AnswersInv` says what an answer rests
on, from the step that decides it over the job and the held response to the row:
`executed` on an operation performed, `refused` on a decision without a place.

`ApprovalsInv` is about the optimistic concurrency of the approval state.  A
worker whose revision is the committed one has, in its memory, what goes on from the
committed requests (`Extends`): votes, denials and uses are kept.  A worker whose
revision is older cannot save.  What a job is about to answer shows in the memory it
is about to save, and behind the save in the committed state, where it stays, since
every later save extends it.  `CommittedGoesOn` says this of the committed state itself,
with the binding, the roles and the deadline of each request.  What a worker is about to
perform it has as approved; if the committed request is denied, its revision cannot be the
committed one (`OnlyStaleMissDenials`).  A worker that is alone has the committed revision
whenever it is up, so the committed request cannot be denied; with two workers
`service_denied` is the counterexample.

*PolicyVersionsProofs.*  `VersionsTypeCorrect`, `EventsTellAll`, `CallersGetTheRecord`.  Types and
`HistoryTellsAll` are inductive together: a new event starts at what is active, which the
last event of the policy says, and a bundle is replaced by one of the same content only.
Events of other policies may come in between, so the last event of a policy is
spoken of by its place.

*StoresProofs.*  `SavesSurvive`, `RecoversHonestly`, `NothingIsMissed`, the types of each
store, and that each behaves in `Stores` as it does alone (`StoresAreIndependent`), whence
`TypeCorrect` there.  For the JSON file the invariant says what is on the disk by each step of
save().  For the log it has four parts: the events in the file were given to append() in
this order, the one that failed perhaps twice, and are below the next number; what is being
appended or may be tried again is the number before; what was stored is among the
synchronised lines, unless its line was run together with an earlier piece, and then the
log does not load; and as long as no append failed or was interrupted there is neither a
tail nor garbage.  The proof
first shows that what a cut-off write and a power failure leave is the old file grown by
the event at hand or cut back to its synchronised lines.  For the table, sequences are
below the highest that was given, which a purge does not lower, and a page leaves out no
row before its last.

Proved and not the property of a passing run: that what a worker answers from memory is
committed (`MemoryIsCommitted`; `ToldIsCommitted` says it of what clients get), that the
log tells the truth (`AuditTellsTheTruth`), and `OneWorkerHeedsDenials`.

Only model-checked: `HeldIsAnswered`, which is liveness under fairness and outside the
prover's reach, and that the four violated statements are violated.

## 5. Plan

Done, in this order: approval requests and manager, and the delegation graph; the durable
service over the repository and its abstract promise; the policy lifecycle; rules,
composition, interceptor and runtime; the policy version store; the file stores and the
audit table; restarts with other handlers; the theorems of each.

What would come next:

1. Migration of the repository's schema, two processes of different releases at once.
2. Audit replay: that a log replayed against the policy it was recorded under gives
   the decisions it holds.
3. The durable service with the interceptor of each worker in place of `Outcomes`, so that
   policies and delegation graphs that differ between workers show in the answers.

## 6. Not modelled

The text of policies that parser and compiler read and write (what a parsed
comparison means is in `Policy`), predicates that are opaque callables or compare
strings, cryptography of identity tokens (what a
verified identity may do is a constant), telemetry (no decision reads it), the
SDK, the CLI and the HTTP runner (transport), and the conformance, evaluation and
benchmark harnesses, which measure the library and are not part of it.  Of the
modelled parts: the text of requests and responses; the service without
repository, which is the same code with every transaction succeeding; its health and
audit endpoints; migration and retention settings of the repository; the comparison and
the portable form of policy bundles and the replay of an audit log, which change no
state.
