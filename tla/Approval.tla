------------------------------- MODULE Approval -------------------------------
(***************************************************************************)
(* ApprovalManager (governance/approval.py) under the callers the service   *)
(* gives it: reviewers vote and the escalated action is resumed, in any      *)
(* order, while the clock runs and the governance state the requests are     *)
(* bound to changes and changes back.                                        *)
(*                                                                           *)
(* Every call passes the service clock as `now' (service.py), so one         *)
(* variable is the clock of all of them.  A call the manager refuses still   *)
(* expires the request it looked up: that is Get, for whatever reason it was *)
(* refused.                                                                  *)
(*                                                                           *)
(* `ballots' and `runs' are history: each records the state of the world at  *)
(* the moment a vote was accepted, or the moment prepare_resume let the      *)
(* operation run.  No action reads them.                                     *)
(***************************************************************************)
EXTENDS ApprovalRequest, Sequences

CONSTANTS
    Subjects,         \* the action/context pairs requests are made for
    Governance,       \* the policy-and-delegation states fingerprints tell apart
    PolicyQuorums,    \* the quorums the policies in force demand
    RolesOf,          \* RolesOf[p]: the roles p's provider vouches for
    ValidUntil,       \* ValidUntil[p]: when p's verified identity expires
    RequireIdentity,  \* ApprovalManager.require_identity
    Ttl,              \* ApprovalManager.ttl
    MaxTime,          \* bound on the clock
    MaxRequests       \* bound on the requests made

ASSUME ApprovalAssumption ==
    /\ PolicyQuorums \subseteq Quorums
    /\ RolesOf \in [People -> SUBSET Roles]
    /\ ValidUntil \in [People -> Nat]
    /\ RequireIdentity \in BOOLEAN
    /\ Ttl \in Nat \ {0}
    /\ MaxTime \in Nat
    /\ MaxRequests \in Nat

VARIABLES
    now,         \* the service clock
    governance,  \* the policy and delegation state in force
    requests,    \* ApprovalManager._requests, in the order of their ids
    ballots,     \* history: the accepted votes
    runs         \* history: the resumed operations

vars == <<now, governance, requests, ballots, runs>>

Ids == 1..Len(requests)
Callers == People \cup {NoIdentity}

ApprovalInit ==
    /\ now = 0
    /\ governance \in Governance
    /\ requests = <<>>
    /\ ballots = {}
    /\ runs = <<>>

-----------------------------------------------------------------------------
(* The environment: time passes, policies and delegations change.           *)

Tick ==
    /\ now < MaxTime
    /\ now' = now + 1
    /\ UNCHANGED <<governance, requests, ballots, runs>>

ChangeGovernance(g) ==
    /\ g # governance
    /\ governance' = g
    /\ UNCHANGED <<now, requests, ballots, runs>>

-----------------------------------------------------------------------------
(* The manager's operations.                                                *)

\* What _validate_identity and require_identity make of a caller claiming role.
Vouched(who, role) ==
    IF who = NoIdentity
    THEN ~RequireIdentity
    ELSE role \in RolesOf[who] /\ now < ValidUntil[who]

\* request(): bound to the governance state that escalated the action.
Request(subject, quorum) ==
    /\ Len(requests) < MaxRequests
    /\ requests' = Append(requests,
                          NewRequest(subject, governance, quorum, now, Ttl))
    /\ UNCHANGED <<now, governance, ballots, runs>>

\* get(), and every other call the manager refuses after looking the request up.
Get(i) ==
    /\ requests' = [requests EXCEPT ![i] = Expire(requests[i], now)]
    /\ UNCHANGED <<now, governance, ballots, runs>>

\* approve() that succeeds.
Vote(i, role, who, subject) ==
    LET req == Expire(requests[i], now)
    IN  /\ CanApprove(req, role, Vouched(who, role), subject, governance)
        /\ requests' = [requests EXCEPT ![i] = Approve(req, role, who)]
        /\ ballots' = ballots \cup {[req |-> i, role |-> role, who |-> who,
                                     at |-> now, governance |-> governance]}
        /\ UNCHANGED <<now, governance, runs>>

\* deny() that succeeds.
Refuse(i, role, who) ==
    LET req == Expire(requests[i], now)
    IN  /\ CanDeny(req, role, Vouched(who, role))
        /\ requests' = [requests EXCEPT ![i] = Deny(req)]
        /\ UNCHANGED <<now, governance, ballots, runs>>

\* prepare_resume() that succeeds, and the operation it lets run.
Resume(i, subject) ==
    LET req == Expire(requests[i], now)
    IN  /\ CanConsume(req, subject, governance)
        /\ requests' = [requests EXCEPT ![i] = Consume(req)]
        /\ runs' = Append(runs, [req |-> i, subject |-> subject,
                                 at |-> now, governance |-> governance])
        /\ UNCHANGED <<now, governance, ballots>>

ApprovalNext ==
    \/ Tick
    \/ \E g \in Governance : ChangeGovernance(g)
    \/ \E subject \in Subjects, quorum \in PolicyQuorums : Request(subject, quorum)
    \/ \E i \in Ids : Get(i)
    \/ \E i \in Ids, role \in Roles, who \in Callers, subject \in Subjects :
          Vote(i, role, who, subject)
    \/ \E i \in Ids, role \in Roles, who \in Callers : Refuse(i, role, who)
    \/ \E i \in Ids, subject \in Subjects : Resume(i, subject)

ApprovalSpec == ApprovalInit /\ [][ApprovalNext]_vars

-----------------------------------------------------------------------------
(* Properties.                                                              *)

RequestType ==
    [subject : Subjects, governance : Governance, roles : SUBSET Roles,
     threshold : Nat \ {0}, created : Nat, expires : Nat,
     votes : [Roles -> Callers \cup {NoVote}], state : RequestStates,
     consumed : BOOLEAN]

\* Every variable has its type.
TypeOK ==
    /\ now \in Nat
    /\ governance \in Governance
    /\ requests \in Seq(RequestType)
    /\ ballots \subseteq [req : Nat, role : Roles, who : Callers, at : Nat,
                          governance : Governance]
    /\ runs \in Seq([req : Nat, subject : Subjects, at : Nat,
                     governance : Governance])

\* The roles whose accepted votes on request i back the operation of run:
\* roles the policy named, cast before the deadline, and cast while the
\* governance state was the very one the operation then ran under.
BackingRoles(run) ==
    {b.role : b \in {v \in ballots :
        /\ v.req = run.req
        /\ v.role \in requests[run.req].roles
        /\ v.governance = run.governance
        /\ v.at < requests[run.req].expires}}

\* The promise of enforce mode: an escalated operation runs only for the exact
\* subject it was requested for, within the deadline, and with a full quorum
\* of required roles that voted under the same governance state it runs under,
\* although votes, clock and governance changes interleave in any order.
RunsAreBacked ==
    \A k \in 1..Len(runs) :
        LET run == runs[k]
        IN  /\ run.req \in Ids
            /\ run.subject = requests[run.req].subject
            /\ run.at < requests[run.req].expires
            /\ Cardinality(BackingRoles(run)) >= requests[run.req].threshold

\* An approval is spent by the first operation it lets run: no two runs are of
\* one request (prepare_resume's `consumed').
SingleUse ==
    \A j, k \in 1..Len(runs) : runs[j].req = runs[k].req => j = k

\* What reviewers saw is what is resumed, and what they said stands: a denial or
\* the deadline closes a request for good, so that it never changes again and
\* nothing runs for it, whatever was voted before and whoever resumes later; an
\* accepted vote is never retracted or reattributed; and what the request is
\* bound to, and its deadline, never move.
RequestsOnlyAdvance ==
    [][\A i \in Ids :
          /\ requests[i].state \in {"denied", "expired"} =>
                /\ requests'[i] = requests[i]
                /\ \A k \in 1..Len(runs') : runs'[k].req # i
          /\ BoundTo(requests'[i], requests[i].subject, requests[i].governance)
          /\ requests'[i].expires = requests[i].expires
          /\ \A role \in Voted(requests[i]) :
                requests'[i].votes[role] = requests[i].votes[role]]_vars

\* Whatever sequence of calls a manager has served, the snapshot it writes is
\* one from_snapshot accepts: a restart never finds its own state corrupt.
SnapshotRestorable == \A i \in Ids : Restorable(requests[i])
=============================================================================
