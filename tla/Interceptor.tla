------------------------------ MODULE Interceptor ------------------------------
(***************************************************************************)
(* Interceptors and the runtime adapters in front of them (interceptor.py,   *)
(* runtime.py), with everything they consult: the compiled policy, the       *)
(* delegation graph, the approval manager and the audit log (audit.py).      *)
(*                                                                           *)
(* There are adapters in enforce mode (Gates) and in shadow mode (Probes).   *)
(* They share the policy, the graph, the manager and the audit log, as the   *)
(* handles given to their constructors may.  A call is one step: nothing in  *)
(* it waits.  Its context carries the clock of the moment it is made, and a  *)
(* resumed call the context it was first made with, because the approval is  *)
(* bound to a digest of the context.                                         *)
(*                                                                           *)
(* `ran' and `recorded' are what the last step did: the operation it called  *)
(* and the event it appended.  No action reads them.                         *)
(***************************************************************************)
EXTENDS Policy, Sequences, FiniteSetsExt

CONSTANTS
    Holds, Depths, Expiries, Never, Root, MaxTime, MaxGrants,  \* of Delegation
    Gates,         \* adapters in enforce mode
    Probes,        \* adapters in shadow mode
    TraceOf,       \* TraceOf[a]: the trace_id of a's events
    Scopes,        \* [parents, children, default]: policies to compile
    KnownRoles,    \* the roles compile_policy is given
    Approvers,     \* who may be configured: "manager", "handler", "none"
    Actions,       \* the actions tried
    Budgets,       \* the budgets used contexts speak of
    Priors,        \* the prior approvals contexts speak of
    CallIds,       \* request ids of tool calls
    NoId,          \* a call without one
    NoRun,         \* the last step called no operation
    Ttl,           \* ApprovalManager.ttl
    MaxRequests,   \* bound on the approval requests made
    MaxEvents      \* bound on the events of one interceptor

ASSUME InterceptorAssumption ==
    /\ Holds \in [Actors -> SUBSET Capabilities]
    /\ Depths \subseteq Nat
    /\ Never \notin Nat
    /\ Expiries \subseteq Nat \cup {Never}
    /\ Root \notin Nat
    /\ MaxTime \in Nat
    /\ MaxGrants \in Nat
    /\ Gates \cap Probes = {}
    /\ Approvers \subseteq {"manager", "handler", "none"}
    /\ \A s \in Scopes : /\ s.parents \subseteq Rules
                         /\ s.children \subseteq Rules
                         /\ s.default \in {"Allow", "Block"}
    /\ KnownRoles \subseteq Roles
    /\ \A x \in Actions : /\ x.actor \in Actors
                          /\ x.capability \in Capabilities
                          /\ \A field \in DOMAIN x.params : x.params[field] \in Int
    /\ Budgets \subseteq Int
    /\ Priors \subseteq SUBSET Roles
    /\ NoId \notin CallIds
    /\ Ttl \in Nat \ {0}
    /\ MaxRequests \in Nat
    /\ MaxEvents \in Nat

VARIABLES
    now, intrinsic, grants, revoked,  \* the delegation graph and the clock
    scope,      \* the policy in force
    approver,   \* approval_manager or approval_handler
    requests,   \* ApprovalManager._requests
    completed,  \* completed[g]: _completed_request_ids
    log,        \* the ids in AuditLog
    next,       \* next[a]: _next_event_id
    ran,        \* the operation the last step called
    recorded    \* the event it appended: "nothing", "kept" or "executed"

graph == <<intrinsic, grants, revoked>>
setup == <<scope, approver>>
vars == <<now, graph, setup, requests, completed, log, next, ran, recorded>>

Graph == INSTANCE Delegation

Adapters == Gates \cup Probes

-----------------------------------------------------------------------------
(* Decisions.                                                               *)

LawsOf(s) == Composed(s.parents, s.children)

\* authority_proof for an Actor, who also carries capabilities.
Authorised(action, t) ==
    \/ \E d \in Holds[action.actor] : <<action.capability, d>> \in Covered
    \/ Graph!HasAuthorityAt(action.actor, action.capability, t)

\* Interceptor._evaluate.
Decided(action, context) ==
    Decide(LawsOf(scope), scope.default, action, context,
           Authorised(action, context.now))

Contexts(t) ==
    [budget_used : Budgets, prior_approvals : Priors, now : {t}]

-----------------------------------------------------------------------------
(* The audit log.  Ids are per trace; an interceptor counts for itself, so   *)
(* two that share a trace try the same ids, and append refuses the second.   *)

EventId(a, n) == <<TraceOf[a], n>>
Fresh(a, n) == EventId(a, n) \notin log

\* _record that succeeds.
Record(a, what) ==
    /\ next[a] <= MaxEvents
    /\ Fresh(a, next[a])
    /\ log' = log \cup {EventId(a, next[a])}
    /\ next' = [next EXCEPT ![a] = @ + 1]
    /\ recorded' = what

\* _record that fails, and record_governance_error after it.
RecordError(a, what) ==
    /\ next[a] <= MaxEvents
    /\ ~Fresh(a, next[a]) /\ Fresh(a, next[a] + 1)
    /\ log' = log \cup {EventId(a, next[a] + 1)}
    /\ next' = [next EXCEPT ![a] = @ + 2]
    /\ recorded' = what

\* Every attempt fails, and the call raises.
Unrecorded(a, attempts) ==
    /\ next[a] <= MaxEvents
    /\ \A n \in next[a]..(next[a] + attempts - 1) : ~Fresh(a, n)
    /\ next' = [next EXCEPT ![a] = @ + attempts]
    /\ recorded' = "nothing"
    /\ UNCHANGED log

\* Mutated: a new adapter counts from one.
NextSequenceOfOne(trace) == 1

\* AuditLog.next_sequence.
NextSequence(trace) ==
    1 + Max({0} \cup {e[2] : e \in {x \in log : x[1] = trace}})

-----------------------------------------------------------------------------
(* Calls at a gate.                                                         *)

Run(a, action, context, request, handled) ==
    [by |-> a, action |-> action, context |-> context, request |-> request,
     handled |-> handled]

\* The handler is asked for what is escalated when no manager is configured.
HandlerAsked(action, context) ==
    approver = "handler" /\ Decided(action, context).kind = "Escalate"

\* What a gate makes binding: the handler's yes turns an escalation into Allow.
Allowed(action, context, yes) ==
    \/ Decided(action, context).kind = "Allow"
    \/ HandlerAsked(action, context) /\ yes

\* An escalation that waits for the manager's quorum.
Held(action, context) ==
    approver = "manager" /\ Decided(action, context).kind = "Escalate"

\* Mutated: calls without an id complete one another.
CompletedUnnamed(g, id, returns) ==
    IF returns THEN [completed EXCEPT ![g] = @ \cup {id}] ELSE completed

Completed(g, id, returns) ==
    IF returns THEN [completed EXCEPT ![g] = @ \cup ({id} \ {NoId})]
    ELSE completed

\* invoke() whose operation runs, and returns or raises.
Pass(g, action, context, id, yes, returns) ==
    /\ id \notin completed[g]
    /\ Allowed(action, context, yes)
    /\ Record(g, "executed")
    /\ ran' = Run(g, action, context, 0, HandlerAsked(action, context))
    /\ completed' = Completed(g, id, returns)
    /\ UNCHANGED <<now, graph, setup, requests>>

\* invoke() that blocks, or escalates to a handler who refuses or to nobody.
Stop(g, action, context, id, yes) ==
    /\ id \notin completed[g]
    /\ ~Allowed(action, context, yes)
    /\ ~Held(action, context)
    /\ Record(g, "kept")
    /\ ran' = NoRun
    /\ UNCHANGED <<now, graph, setup, requests, completed>>

\* What the digests of action and context tell apart.
Subject(action, context) == [action |-> action, context |-> context]

\* The request is made before the event is recorded.
Requested(action, context) ==
    Append(requests,
           NewRequest(Subject(action, context), graph,
                      Decided(action, context).demand, context.now, Ttl))

\* invoke() that opens an approval request; also when the event then fails.
Hold(g, action, context, id) ==
    /\ id \notin completed[g]
    /\ Held(action, context)
    /\ Len(requests) < MaxRequests
    /\ requests' = Requested(action, context)
    /\ Record(g, "kept") \/ RecordError(g, "kept") \/ Unrecorded(g, 2)
    /\ ran' = NoRun
    /\ UNCHANGED <<now, graph, setup, completed>>

\* invoke() whose event is refused: enforce mode fails closed.
Fail(g, action, context, id) ==
    /\ id \notin completed[g]
    /\ ~Held(action, context)
    /\ RecordError(g, "kept") \/ Unrecorded(g, 2)
    /\ ran' = NoRun
    /\ UNCHANGED <<now, graph, setup, requests, completed>>

\* Events without an operation: check(), and a call whose identity is not
\* verified, which fails closed in both modes.
Note(a) ==
    /\ Record(a, "kept") \/ Unrecorded(a, 1)
    /\ ran' = NoRun
    /\ UNCHANGED <<now, graph, setup, requests, completed>>

-----------------------------------------------------------------------------
(* Calls at a probe.                                                        *)

\* invoke() in shadow mode runs whatever is decided, and after an error, too;
\* resume_approved() is execute() there.  With shadow_error_mode "raise" the
\* error surfaces instead, which is Note's failing event.
Observe(p, action, context) ==
    /\ Record(p, "executed") \/ RecordError(p, "executed")
    /\ ran' = Run(p, action, context, 0, FALSE)
    /\ UNCHANGED <<now, graph, setup, requests, completed>>

\* The error of the error surfaces, before the operation has started.
ObserveFails(p) ==
    /\ Unrecorded(p, 2)
    /\ ran' = NoRun
    /\ UNCHANGED <<now, graph, setup, requests, completed>>

-----------------------------------------------------------------------------
(* Approvals.  Reviewers call the manager; the times they and the caller of  *)
(* resume_approved() pass are the clock's, or the context's when the latter  *)
(* passes none.                                                             *)

Vote(i, role) ==
    LET req == Expire(requests[i], now)
    IN  /\ CanApprove(req, role, TRUE, req.subject, graph)
        /\ requests' = [requests EXCEPT ![i] = Approve(req, role, NoIdentity)]

Refuse(i, role) ==
    LET req == Expire(requests[i], now)
    IN  /\ CanDeny(req, role, TRUE)
        /\ requests' = [requests EXCEPT ![i] = Deny(req)]

\* A reviewer's call; one that is refused still expires what it looked up.
Review(i) ==
    /\ \/ \E role \in Roles : Vote(i, role) \/ Refuse(i, role)
       \/ requests' = [requests EXCEPT ![i] = Expire(requests[i], now)]
    /\ ran' = NoRun
    /\ recorded' = "nothing"
    /\ UNCHANGED <<now, graph, setup, completed, log, next>>

\* Mutated: resume_approved() trusts the decision of the first call.
ResumableAsRequested(req, action, context) ==
    /\ req.state = "approved" /\ ~req.consumed
    /\ req.subject = Subject(action, context)

\* resume_approved() looks at the policy and the graph again, with the context
\* it is given, and then at the approval and what that is bound to.  The role
\* it compares, too, is decided by the things the approval is bound to.
Resumable(req, action, context) ==
    /\ Decided(action, context).kind = "Escalate"
    /\ CanConsume(req, Subject(action, context), graph)

\* resume_approved() that consumes the approval: the operation runs, unless the
\* event is refused and the call raises with the approval spent.
Resume(g, i, action, context, t) ==
    LET req == Expire(requests[i], t)
    IN  /\ Resumable(req, action, context)
        /\ requests' = [requests EXCEPT ![i] = Consume(req)]
        /\ \/ /\ Record(g, "executed")
              /\ ran' = Run(g, action, context, i, FALSE)
           \/ /\ Unrecorded(g, 1)
              /\ ran' = NoRun
        /\ UNCHANGED <<now, graph, setup, completed>>

\* resume_approved() that blocks: what it is asked to resume is not, or no
\* longer, what was approved.
ResumeStops(g, i, action, context, t) ==
    LET req == Expire(requests[i], t)
    IN  /\ ~Resumable(req, action, context)
        /\ requests' = [requests EXCEPT ![i] = req]
        /\ Record(g, "kept") \/ Unrecorded(g, 1)
        /\ ran' = NoRun
        /\ UNCHANGED <<now, graph, setup, completed>>

-----------------------------------------------------------------------------

\* The graph and the clock move on.
Govern ==
    /\ Graph!DelegationNext
    /\ ran' = NoRun
    /\ recorded' = "nothing"
    /\ UNCHANGED <<setup, requests, completed, log, next>>

\* A new adapter on the same log takes up the trace.
Rebuild(a) ==
    /\ next' = [next EXCEPT ![a] = NextSequence(TraceOf[a])]
    /\ completed' = [g \in Gates |-> IF g = a THEN {} ELSE completed[g]]
    /\ ran' = NoRun
    /\ recorded' = "nothing"
    /\ UNCHANGED <<now, graph, setup, requests, log>>

Init ==
    /\ Graph!DelegationInit
    /\ scope \in {s \in Scopes : Compiles(s.parents, s.children, KnownRoles)}
    /\ approver \in Approvers
    /\ requests = <<>>
    /\ completed = [g \in Gates |-> {}]
    /\ log = {}
    /\ next = [a \in Adapters |-> 1]
    /\ ran = NoRun
    /\ recorded = "nothing"

Invoke(g, action, context, id) ==
    \/ \E yes, returns \in BOOLEAN : Pass(g, action, context, id, yes, returns)
    \/ \E yes \in BOOLEAN : Stop(g, action, context, id, yes)
    \/ Hold(g, action, context, id)
    \/ Fail(g, action, context, id)

Next ==
    \/ Govern
    \/ \E a \in Adapters : Note(a) \/ Rebuild(a)
    \/ \E g \in Gates, action \in Actions, context \in Contexts(now),
          id \in CallIds \cup {NoId} : Invoke(g, action, context, id)
    \/ \E p \in Probes, action \in Actions, context \in Contexts(now) :
          Observe(p, action, context)
    \/ \E p \in Probes : ObserveFails(p)
    \/ \E i \in 1..Len(requests) : Review(i)
    \/ \E g \in Gates, i \in 1..Len(requests), action \in Actions :
          \E context \in Contexts(now) \cup Contexts(requests[i].created) :
             \E t \in {now, context.now} :
                \/ Resume(g, i, action, context, t)
                \/ ResumeStops(g, i, action, context, t)

Spec == Init /\ [][Next]_vars

-----------------------------------------------------------------------------
(* Properties.                                                              *)

ContextType ==
    [budget_used : Budgets, prior_approvals : Priors, now : Nat]

GraphType ==
    [Actors -> SUBSET Capabilities] \X Seq(Graph!GrantType) \X SUBSET Nat

RequestType ==
    [subject : [action : Actions, context : ContextType],
     governance : GraphType,
     roles : SUBSET Roles, threshold : Nat \ {0}, created : Nat, expires : Nat,
     votes : [Roles -> {NoIdentity, NoVote}], state : RequestStates,
     consumed : BOOLEAN]

RunType ==
    [by : Adapters, action : Actions, context : ContextType, request : Nat,
     handled : BOOLEAN]

ASSUME NoRunAssumption == NoRun \notin RunType

\* Every variable has its type.
TypeOK ==
    /\ Graph!TypeOK
    /\ scope \in Scopes
    /\ approver \in Approvers
    /\ requests \in Seq(RequestType)
    /\ completed \in [Gates -> SUBSET CallIds]
    /\ log \subseteq {TraceOf[a] : a \in Adapters} \X (Nat \ {0})
    /\ next \in [Adapters -> Nat \ {0}]
    /\ ran \in RunType \cup {NoRun}
    /\ recorded \in {"nothing", "kept", "executed"}

\* Chains of grants that were live at t and none of which is revoked by now.
HasLiveChain(a, c, t) ==
    \E g \in Graph!Ids :
        /\ grants[g].to = a
        /\ \A h \in Graph!Lineage(g) :
              /\ h \notin revoked /\ ~Graph!Expired(h, t)
              /\ <<c, grants[h].capability>> \in Covered
              /\ grants[h].parent = Root => Graph!IntrinsicHas(grants[h].from, c)

\* The request has the votes that r demands, for this very action and context.
BackedFor(req, r, run) ==
    /\ req.subject = Subject(run.action, run.context)
    /\ req.state = "approved"
    /\ Voted(req) \subseteq Demand(r).roles
    /\ Cardinality(Voted(req)) >= Demand(r).threshold

\* The promise of enforce mode over everything it consults: what a gate lets run
\* violates no blocking law, is about something a law speaks of if the policy is
\* default-deny, rests on authority no grant of which is revoked, and if a law
\* escalates it, the handler agreed or a quorum that a violated law demands voted
\* for it, although policy, graph, votes and the log's refusals interleave.
RunsAreGoverned ==
    (ran # NoRun /\ ran.by \in Gates) =>
        LET rules == LawsOf(scope)
            action == ran.action
            violated == Violated(rules, action, ran.context)
        IN  /\ \A r \in violated : r.disposition = "escalate"
            /\ Applicable(rules, action) = {} => scope.default = "Allow"
            /\ \/ \E d \in Holds[action.actor] : <<action.capability, d>> \in Covered
               \/ Graph!IntrinsicHas(action.actor, action.capability)
               \/ HasLiveChain(action.actor, action.capability, ran.context.now)
            /\ violated # {} =>
                  \/ ran.handled
                  \/ /\ ran.request # 0
                     /\ \E r \in violated : BackedFor(requests[ran.request], r, ran)

\* implementation-spec.md (M15): "expired ... approvals never execute".  What is
\* resumed runs before its approval's deadline.
ExpiredNeverExecutes ==
    [][(ran' # NoRun /\ ran'.request # 0) => now < requests[ran'.request].expires]_vars

\* The log tells the truth in both modes, whatever ids it refuses: an operation
\* runs if and only if an event that says it is executed has been appended.
AuditIsTrue == recorded = "executed" <=> ran # NoRun

Judged == Actions \X UNION {Contexts(t) : t \in 0..MaxTime}

\* What validate_inheritance is for: whatever meets the conditions of a linked
\* child is subject to its parent and meets the parent's, approvals aside.
ChildrenTighten ==
    \A p, c \in LawsOf(scope) : c.parent_id = p.id =>
        \A j \in Judged :
            (Applies(c, j[1]) /\ Meets(c, j[1], j[2])) =>
                Applies(p, j[1]) /\ Meets(p, j[1], j[2])

\* T3: where the inherited scope has a say, the composed policy is at least as
\* severe, whatever the children are and however they are linked.
ScopeKeepsParents ==
    \A j \in Judged, authorised \in BOOLEAN :
        (Applicable(scope.parents, j[1]) # {} \/ scope.default = "Allow") =>
            Severity(Decide(LawsOf(scope), scope.default, j[1], j[2], authorised))
                >= Severity(Decide(scope.parents, scope.default, j[1], j[2], authorised))

\* An approval is spent once, on what it was given for.  If it is spent and
\* nothing runs (_record raises behind prepare_resume()), then another adapter
\* on the gate's trace has run ahead of the gate: the ids that an adapter gives
\* never collide with those it gave before, or before it was built anew.
SpentIsExplained ==
    [][\A i \in 1..Len(requests) :
          (requests'[i].consumed /\ ~requests[i].consumed) =>
              IF ran' # NoRun
              THEN ran'.request = i
              ELSE \E g \in Gates, b \in Adapters :
                      /\ b # g
                      /\ next'[g] # next[g]
                      /\ TraceOf[b] = TraceOf[g]
                      /\ next[b] > next[g]]_vars
=============================================================================
