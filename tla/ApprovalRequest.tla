--------------------------- MODULE ApprovalRequest ---------------------------
(***************************************************************************)
(* One exact-state approval request (governance/approval.py) as a record,   *)
(* and the transitions ApprovalManager makes on it.  The module has no       *)
(* state: Approval.tla drives one manager with it and DurableService.tla     *)
(* drives one manager per worker.                                            *)
(*                                                                           *)
(* A definition whose comment starts with `Mutated' is a likely bug in the   *)
(* one that follows it.  No action uses it: put in the place of the other, it *)
(* shows which property would catch the bug.                                 *)
(*                                                                           *)
(* A fingerprint is modelled by the thing it is a digest of: `subject'       *)
(* stands for the action and context fingerprints, `governance' for the      *)
(* policy and state fingerprints (the state digest covers the policy and the *)
(* delegation graph).  Equal digests mean equal things.                      *)
(***************************************************************************)
EXTENDS Naturals, FiniteSets

CONSTANTS
    Roles,       \* the approver roles a policy may name
    People,      \* the subjects identity providers vouch for
    NoIdentity,  \* `identity=None'
    NoVote       \* the role has not voted

ASSUME ApprovalRequestAssumption ==
    /\ IsFiniteSet(Roles)
    /\ NoIdentity \notin People
    /\ NoVote \notin People \cup {NoIdentity}

\* ApprovalState.
RequestStates == {"pending", "approved", "denied", "expired"}

\* What a request demands: the roles that may vote and how many must.  A plain
\* `requires_approval' law is the quorum of one role with threshold one.
Quorums == {q \in [roles : SUBSET Roles, threshold : Nat \ {0}] :
               q.threshold <= Cardinality(q.roles)}

NewRequest(subject, governance, quorum, now, ttl) ==
    [subject    |-> subject,
     governance |-> governance,
     roles      |-> quorum.roles,
     threshold  |-> quorum.threshold,
     created    |-> now,
     expires    |-> now + ttl,
     votes      |-> [role \in Roles |-> NoVote],
     state      |-> "pending",
     consumed   |-> FALSE]

\* The roles whose vote the request carries.
Voted(req) == {role \in Roles : req.votes[role] # NoVote}

\* Mutated: a request that was consumed expires, too.
ExpireConsumed(req, now) ==
    IF req.state \in {"pending", "approved"} /\ now >= req.expires
    THEN [req EXCEPT !.state = "expired"]
    ELSE req

\* ApprovalManager._get: every access first expires what is past its deadline.
Expire(req, now) ==
    IF /\ ~req.consumed
       /\ req.state \in {"pending", "approved"}
       /\ now >= req.expires
    THEN [req EXCEPT !.state = "expired"]
    ELSE req

\* _check_binding: action, context, policy and state digests are unchanged.
BoundTo(req, subject, governance) ==
    /\ req.subject = subject
    /\ req.governance = governance

\* Mutated: a role may vote again.
CanApproveAgain(req, role, vouched, subject, governance) ==
    /\ req.state = "pending"
    /\ role \in req.roles
    /\ vouched
    /\ BoundTo(req, subject, governance)

\* Mutated: a vote does not look at the binding.
CanApproveUnbound(req, role, vouched, subject, governance) ==
    /\ req.state = "pending"
    /\ role \in req.roles
    /\ req.votes[role] = NoVote
    /\ vouched

\* The checks of approve(), in the state _get left the request in; `vouched'
\* is what the identity checks made of the caller's identity.
CanApprove(req, role, vouched, subject, governance) ==
    /\ req.state = "pending"
    /\ role \in req.roles
    /\ req.votes[role] = NoVote
    /\ vouched
    /\ BoundTo(req, subject, governance)

\* One vote; the vote that reaches the threshold approves the request.
Approve(req, role, who) ==
    LET voted == [req EXCEPT !.votes[role] = who]
    IN  IF Cardinality(Voted(voted)) >= req.threshold
        THEN [voted EXCEPT !.state = "approved"]
        ELSE voted

\* deny() asks for neither a fresh role nor an unchanged binding.
CanDeny(req, role, vouched) ==
    /\ req.state = "pending"
    /\ role \in req.roles
    /\ vouched

\* Mutated: a state the snapshot does not know.
DenyAsRefused(req) == [req EXCEPT !.state = "refused"]

Deny(req) == [req EXCEPT !.state = "denied"]

\* Mutated: any request that is no longer pending is resumed.
CanConsumeClosed(req, subject, governance) ==
    /\ req.state # "pending"
    /\ ~req.consumed
    /\ BoundTo(req, subject, governance)

\* prepare_resume().
CanConsume(req, subject, governance) ==
    /\ req.state = "approved"
    /\ ~req.consumed
    /\ BoundTo(req, subject, governance)

\* Mutated: the approval is not spent.
ConsumeNothing(req) == req

Consume(req) == [req EXCEPT !.consumed = TRUE]

\* The validators from_snapshot applies to one restored request.
Restorable(req) ==
    /\ req.expires >= req.created
    /\ req.threshold >= 1
    /\ req.threshold <= Cardinality(req.roles)
    /\ Voted(req) \subseteq req.roles
    /\ req.state = "approved" => Cardinality(Voted(req)) >= req.threshold
    /\ req.state = "pending" => Cardinality(Voted(req)) < req.threshold
    /\ req.consumed => req.state = "approved"
=============================================================================
