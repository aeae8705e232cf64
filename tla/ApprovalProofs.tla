---------------------------- MODULE ApprovalProofs ----------------------------
(***************************************************************************)
(* Proofs about Approval for every set of roles, reviewers, subjects and    *)
(* governance states, every quorum and every deadline.  The bounds MaxTime   *)
(* and MaxRequests stay arbitrary.                                           *)
(*                                                                           *)
(* RunsAreBacked is not inductive: it speaks of a run's request at the end   *)
(* of the story.  The invariant below follows a request through its life:    *)
(* each vote it carries has its ballot, it is approved only with a quorum of *)
(* votes, and whatever ran has spent its request.                            *)
(***************************************************************************)
EXTENDS Approval, FiniteSetTheorems, TLAPS

\* Every vote a request carries is a required role's ballot, cast in time and
\* under the governance state the request is bound to.
VotesHaveBallots ==
    \A i \in Ids : \A role \in Voted(requests[i]) :
        /\ role \in requests[i].roles
        /\ \E b \in ballots : /\ b.req = i
                              /\ b.role = role
                              /\ b.governance = requests[i].governance
                              /\ b.at < requests[i].expires

\* A request is approved only with a quorum, and spent only when approved.
QuorateOrOpen(req) ==
    /\ req.state = "approved" => Cardinality(Voted(req)) >= req.threshold
    /\ req.consumed => req.state = "approved"

ApprovedByQuorum == \A i \in Ids : QuorateOrOpen(requests[i])

\* Every run spent its request, in time and for what it is bound to.
RunsSpendRequests ==
    \A k \in 1..Len(runs) :
        /\ runs[k].req \in Ids
        /\ requests[runs[k].req].consumed
        /\ requests[runs[k].req].state = "approved"
        /\ BoundTo(requests[runs[k].req], runs[k].subject, runs[k].governance)
        /\ runs[k].at < requests[runs[k].req].expires

IInv ==
    /\ TypeOK
    /\ VotesHaveBallots
    /\ ApprovedByQuorum
    /\ RunsSpendRequests
    /\ SingleUse

-----------------------------------------------------------------------------
(* Lemmas about the sequences and the request operators.                    *)

\* Replacing one element of a sequence keeps its type, its length and the
\* other elements (the in-place updates of ApprovalManager._requests).
LEMMA ReplaceElement ==
    ASSUME NEW S, NEW s \in Seq(S), NEW i \in 1..Len(s), NEW e \in S
    PROVE  LET r == [s EXCEPT ![i] = e]
           IN  /\ r \in Seq(S)
               /\ Len(r) = Len(s)
               /\ r[i] = e
               /\ \A j \in 1..Len(s) : j # i => r[j] = s[j]
  OBVIOUS

\* Appending keeps the elements there are and adds the new one at the end.
LEMMA AppendElement ==
    ASSUME NEW S, NEW s \in Seq(S), NEW e \in S
    PROVE  LET r == Append(s, e)
           IN  /\ r \in Seq(S)
               /\ Len(r) = Len(s) + 1
               /\ r[Len(s) + 1] = e
               /\ \A j \in 1..Len(s) : r[j] = s[j]
  OBVIOUS

\* What one request record may become without breaking the invariant: its
\* binding, quorum and deadline stay, and its votes only accumulate.
KeepsTerms(old, new) ==
    /\ new \in RequestType
    /\ new.subject = old.subject
    /\ new.governance = old.governance
    /\ new.roles = old.roles
    /\ new.threshold = old.threshold
    /\ new.expires = old.expires

\* _get changes nothing but the state, never touches a consumed request, and
\* leaves a request pending or approved only before its deadline.
LEMMA ExpireFacts ==
    ASSUME NEW req \in RequestType, NEW t \in Nat
    PROVE  LET e == Expire(req, t)
           IN  /\ KeepsTerms(req, e)
               /\ e.votes = req.votes
               /\ e.consumed = req.consumed
               /\ req.consumed => e = req
               /\ e.state = "approved" => req.state = "approved"
               /\ (e.state \in {"pending", "approved"} /\ ~e.consumed) =>
                     t < e.expires
  BY DEF Expire, KeepsTerms, RequestType, RequestStates

\* An accepted vote adds one role, keeps the terms, and approves the request
\* only when the votes it then carries reach the threshold.
LEMMA ApproveFacts ==
    ASSUME NEW req \in RequestType, NEW role \in Roles, NEW who \in Callers
    PROVE  LET a == Approve(req, role, who)
           IN  /\ KeepsTerms(req, a)
               /\ a.consumed = req.consumed
               /\ Voted(a) = Voted(req) \cup {role}
               /\ a.state \in {req.state, "approved"}
               /\ (a.state = "approved" /\ req.state # "approved") =>
                     Cardinality(Voted(a)) >= a.threshold
<1> DEFINE v == [req EXCEPT !.votes[role] = who]
<1>1. /\ v \in RequestType
      /\ v.votes = [req.votes EXCEPT ![role] = who]
      /\ KeepsTerms(req, v)
      /\ v.consumed = req.consumed
      /\ v.state = req.state
  BY DEF RequestType, KeepsTerms
<1>2. who # NoVote
  BY ApprovalRequestAssumption DEF Callers
<1>3. Voted(v) = Voted(req) \cup {role}
  BY <1>1, <1>2 DEF Voted, RequestType
<1> DEFINE w == [v EXCEPT !.state = "approved"]
<1>4. /\ w.votes = v.votes
      /\ KeepsTerms(req, w)
      /\ w.consumed = req.consumed
      /\ w.state = "approved"
      /\ w.threshold = req.threshold
  BY <1>1 DEF RequestType, KeepsTerms, RequestStates
<1>5. Voted(w) = Voted(v)
  BY <1>4 DEF Voted
<1>6. Approve(req, role, who) = IF Cardinality(Voted(v)) >= req.threshold
                               THEN w ELSE v
  BY DEF Approve
<1> HIDE DEF v, w
<1>7. QED
  BY <1>1, <1>3, <1>4, <1>5, <1>6

-----------------------------------------------------------------------------
(* Initial states and steps.                                                *)

LEMMA InitIInv == ApprovalInit => IInv
  BY DEF ApprovalInit, IInv, TypeOK, VotesHaveBallots, ApprovedByQuorum,
         RunsSpendRequests, SingleUse, Ids

\* A step that rewrites one request within its terms, and neither un-spends it
\* nor approves it without a quorum, keeps what concerns requests and runs.
LEMMA RewriteRequest ==
    ASSUME IInv, NEW i \in Ids, NEW new,
           KeepsTerms(requests[i], new),
           requests' = [requests EXCEPT ![i] = new],
           QuorateOrOpen(new),
           requests[i].consumed => new.consumed
    PROVE  /\ requests' \in Seq(RequestType)
           /\ Ids' = Ids
           /\ requests'[i] = new
           /\ \A j \in Ids : j # i => requests'[j] = requests[j]
           /\ ApprovedByQuorum'
           /\ runs' = runs => RunsSpendRequests'
<1>1. /\ requests \in Seq(RequestType)
      /\ new \in RequestType
      /\ i \in 1..Len(requests)
  BY DEF IInv, TypeOK, KeepsTerms, Ids
<1>2. /\ requests' \in Seq(RequestType)
      /\ Len(requests') = Len(requests)
      /\ requests'[i] = new
      /\ \A j \in Ids : j # i => requests'[j] = requests[j]
  BY <1>1, ReplaceElement DEF Ids
<1>3. Ids' = Ids
  BY <1>2 DEF Ids
<1>4. ApprovedByQuorum'
  <2> SUFFICES ASSUME NEW j \in Ids PROVE QuorateOrOpen(requests'[j])
    BY <1>3 DEF ApprovedByQuorum
  <2>1. CASE j = i
    BY <2>1, <1>2
  <2>2. CASE j # i
    BY <2>2, <1>2 DEF IInv, ApprovedByQuorum
  <2>3. QED
    BY <2>1, <2>2
<1>5. ASSUME runs' = runs PROVE RunsSpendRequests'
  <2> SUFFICES ASSUME NEW k \in 1..Len(runs)
               PROVE  /\ runs[k].req \in Ids
                      /\ requests'[runs[k].req].consumed
                      /\ requests'[runs[k].req].state = "approved"
                      /\ BoundTo(requests'[runs[k].req], runs[k].subject,
                                 runs[k].governance)
                      /\ runs[k].at < requests'[runs[k].req].expires
    BY <1>3, <1>5 DEF RunsSpendRequests
  <2>1. /\ runs[k].req \in Ids
        /\ requests[runs[k].req].consumed
        /\ requests[runs[k].req].state = "approved"
        /\ BoundTo(requests[runs[k].req], runs[k].subject, runs[k].governance)
        /\ runs[k].at < requests[runs[k].req].expires
    BY DEF IInv, RunsSpendRequests
  <2>2. CASE runs[k].req = i
    BY <2>1, <2>2, <1>2 DEF KeepsTerms, BoundTo, QuorateOrOpen
  <2>3. CASE runs[k].req # i
    BY <2>1, <2>3, <1>2
  <2>4. QED
    BY <2>2, <2>3
<1>6. QED
  BY <1>2, <1>3, <1>4, <1>5

LEMMA RequestStep ==
    ASSUME IInv, NEW subject \in Subjects, NEW quorum \in PolicyQuorums,
           Request(subject, quorum)
    PROVE  IInv'
<1> DEFINE new == NewRequest(subject, governance, quorum, now, Ttl)
<1>1. /\ new \in RequestType
      /\ QuorateOrOpen(new)
      /\ Voted(new) = {}
  <2>1. quorum \in [roles : SUBSET Roles, threshold : Nat \ {0}]
    BY ApprovalAssumption DEF Quorums
  <2>2. now + Ttl \in Nat /\ now \in Nat /\ governance \in Governance
    BY ApprovalAssumption DEF IInv, TypeOK
  <2>3. QED
    BY <2>1, <2>2 DEF NewRequest, RequestType, Voted, RequestStates, QuorateOrOpen
<1>2. /\ requests' \in Seq(RequestType)
      /\ Len(requests') = Len(requests) + 1
      /\ requests'[Len(requests) + 1] = new
      /\ \A j \in Ids : requests'[j] = requests[j]
  <2> HIDE DEF new
  <2>1. requests \in Seq(RequestType) /\ new \in RequestType
    BY <1>1 DEF IInv, TypeOK
  <2>2. requests' = Append(requests, new)
    BY DEF Request, new
  <2>3. QED
    BY <2>1, <2>2, AppendElement DEF Ids
<1> HIDE DEF new
<1>3. /\ Ids' = Ids \cup {Len(requests) + 1}
      /\ Len(requests) + 1 \notin Ids
  BY <1>2 DEF Ids, IInv, TypeOK
<1>4. /\ UNCHANGED <<now, governance, ballots, runs>>
  BY DEF Request
<1>5. TypeOK'
  BY <1>2, <1>4 DEF IInv, TypeOK
<1>6. VotesHaveBallots'
  <2> SUFFICES ASSUME NEW j \in Ids', NEW role \in Voted(requests'[j])
               PROVE  /\ role \in requests'[j].roles
                      /\ \E b \in ballots :
                            /\ b.req = j
                            /\ b.role = role
                            /\ b.governance = requests'[j].governance
                            /\ b.at < requests'[j].expires
    BY <1>4 DEF VotesHaveBallots
  <2>1. j \in Ids /\ requests'[j] = requests[j]
    BY <1>1, <1>2, <1>3
  <2>2. QED
    BY <2>1 DEF IInv, VotesHaveBallots
<1>7. ApprovedByQuorum'
  BY <1>1, <1>2, <1>3 DEF IInv, ApprovedByQuorum
<1>8. RunsSpendRequests'
  BY <1>2, <1>3, <1>4 DEF IInv, RunsSpendRequests, BoundTo
<1>9. SingleUse'
  BY <1>4 DEF IInv, SingleUse
<1>10. QED
  BY <1>5, <1>6, <1>7, <1>8, <1>9 DEF IInv

\* A step that only rewrites request i, leaving its votes as they were.
LEMMA SameVotesStep ==
    ASSUME IInv, NEW i \in Ids, NEW new,
           KeepsTerms(requests[i], new),
           requests' = [requests EXCEPT ![i] = new],
           new.votes = requests[i].votes,
           QuorateOrOpen(new),
           requests[i].consumed => new.consumed,
           UNCHANGED <<now, governance, ballots>>
    PROVE  /\ VotesHaveBallots'
           /\ ApprovedByQuorum'
           /\ runs' = runs => IInv'
<1>1. Voted(new) = Voted(requests[i])
  BY DEF Voted
<1>2. /\ requests' \in Seq(RequestType)
      /\ Ids' = Ids
      /\ requests'[i] = new
      /\ \A j \in Ids : j # i => requests'[j] = requests[j]
      /\ ApprovedByQuorum'
      /\ runs' = runs => RunsSpendRequests'
  BY RewriteRequest
<1>3. VotesHaveBallots'
  <2> SUFFICES ASSUME NEW j \in Ids, NEW role \in Voted(requests'[j])
               PROVE  /\ role \in requests'[j].roles
                      /\ \E b \in ballots :
                            /\ b.req = j
                            /\ b.role = role
                            /\ b.governance = requests'[j].governance
                            /\ b.at < requests'[j].expires
    BY <1>2 DEF VotesHaveBallots
  <2>1. CASE j = i
    BY <2>1, <1>1, <1>2 DEF IInv, VotesHaveBallots, KeepsTerms
  <2>2. CASE j # i
    BY <2>2, <1>2 DEF IInv, VotesHaveBallots
  <2>3. QED
    BY <2>1, <2>2
<1>4. runs' = runs => TypeOK' /\ SingleUse'
  BY <1>2 DEF IInv, TypeOK, SingleUse
<1>5. QED
  BY <1>2, <1>3, <1>4 DEF IInv

LEMMA GetStep ==
    ASSUME IInv, NEW i \in Ids, Get(i)
    PROVE  IInv'
<1> DEFINE new == Expire(requests[i], now)
<1>1. requests[i] \in RequestType /\ now \in Nat
  BY DEF IInv, TypeOK, Ids
<1>2. /\ KeepsTerms(requests[i], new)
      /\ new.votes = requests[i].votes
      /\ new.consumed = requests[i].consumed
      /\ new.state = "approved" => requests[i].state = "approved"
      /\ requests[i].consumed => new = requests[i]
  BY <1>1, ExpireFacts
<1>3. /\ requests' = [requests EXCEPT ![i] = new]
      /\ UNCHANGED <<now, governance, ballots, runs>>
  BY DEF Get
<1> HIDE DEF new
<1>4. QuorateOrOpen(new)
  BY <1>2 DEF IInv, ApprovedByQuorum, QuorateOrOpen, KeepsTerms, Voted
<1>5. QED
  BY <1>2, <1>3, <1>4, SameVotesStep

LEMMA RefuseStep ==
    ASSUME IInv, NEW i \in Ids, NEW role \in Roles, NEW who \in Callers,
           Refuse(i, role, who)
    PROVE  IInv'
<1> DEFINE e == Expire(requests[i], now)
           new == Deny(e)
<1>1. requests[i] \in RequestType /\ now \in Nat
  BY DEF IInv, TypeOK, Ids
<1>2. /\ KeepsTerms(requests[i], e)
      /\ e.votes = requests[i].votes
      /\ e.consumed = requests[i].consumed
      /\ requests[i].consumed => e = requests[i]
      /\ e.state = "pending"
  BY <1>1, ExpireFacts DEF Refuse, CanDeny
<1>3. /\ requests' = [requests EXCEPT ![i] = new]
      /\ UNCHANGED <<now, governance, ballots, runs>>
  BY DEF Refuse
<1> HIDE DEF e
<1>4. ~requests[i].consumed
  BY <1>2 DEF IInv, ApprovedByQuorum, QuorateOrOpen
<1>5. /\ KeepsTerms(requests[i], new)
      /\ new.votes = requests[i].votes
      /\ new.consumed = FALSE
      /\ new.state = "denied"
  BY <1>2, <1>4 DEF Deny, KeepsTerms, RequestType, RequestStates
<1> HIDE DEF new
<1>6. QuorateOrOpen(new)
  BY <1>5 DEF QuorateOrOpen
<1>7. QED
  BY <1>3, <1>4, <1>5, <1>6, SameVotesStep

LEMMA VoteStep ==
    ASSUME IInv, NEW i \in Ids, NEW role \in Roles, NEW who \in Callers,
           NEW subject \in Subjects, Vote(i, role, who, subject)
    PROVE  IInv'
<1> DEFINE e == Expire(requests[i], now)
           new == Approve(e, role, who)
           ballot == [req |-> i, role |-> role, who |-> who,
                      at |-> now, governance |-> governance]
<1>1. requests[i] \in RequestType /\ now \in Nat
  BY DEF IInv, TypeOK, Ids
<1>2. /\ KeepsTerms(requests[i], e)
      /\ e.votes = requests[i].votes
      /\ e.consumed = requests[i].consumed
      /\ requests[i].consumed => e = requests[i]
      /\ (e.state \in {"pending", "approved"} /\ ~e.consumed) => now < e.expires
  BY <1>1, ExpireFacts
<1>3. /\ e.state = "pending"
      /\ role \in e.roles
      /\ BoundTo(e, subject, governance)
      /\ requests' = [requests EXCEPT ![i] = new]
      /\ ballots' = ballots \cup {ballot}
      /\ UNCHANGED <<now, governance, runs>>
  BY DEF Vote, CanApprove
<1> HIDE DEF e
<1>4. ~requests[i].consumed
  BY <1>2, <1>3 DEF IInv, ApprovedByQuorum, QuorateOrOpen
<1>5. /\ KeepsTerms(e, new)
      /\ new.consumed = FALSE
      /\ Voted(new) = Voted(requests[i]) \cup {role}
      /\ new.state = "approved" => Cardinality(Voted(new)) >= new.threshold
  <2>1. e \in RequestType
    BY <1>2 DEF KeepsTerms
  <2>2. Voted(e) = Voted(requests[i])
    BY <1>2 DEF Voted
  <2>3. QED
    BY <2>1, <2>2, <1>2, <1>3, <1>4, ApproveFacts DEF RequestType
<1> HIDE DEF new
<1>6. KeepsTerms(requests[i], new) /\ QuorateOrOpen(new)
  BY <1>2, <1>5 DEF KeepsTerms, QuorateOrOpen
<1>7. /\ requests' \in Seq(RequestType)
      /\ Ids' = Ids
      /\ requests'[i] = new
      /\ \A j \in Ids : j # i => requests'[j] = requests[j]
      /\ ApprovedByQuorum'
      /\ RunsSpendRequests'
  BY <1>3, <1>4, <1>6, RewriteRequest
<1>8. TypeOK'
  BY <1>1, <1>3, <1>7 DEF IInv, TypeOK, Ids
<1>9. VotesHaveBallots'
  <2> SUFFICES ASSUME NEW j \in Ids, NEW r \in Voted(requests'[j])
               PROVE  /\ r \in requests'[j].roles
                      /\ \E b \in ballots' :
                            /\ b.req = j
                            /\ b.role = r
                            /\ b.governance = requests'[j].governance
                            /\ b.at < requests'[j].expires
    BY <1>7 DEF VotesHaveBallots
  <2>1. CASE j # i \/ r \in Voted(requests[i])
    <3>1. r \in Voted(requests[j])
      BY <2>1, <1>7
    <3>2. PICK b \in ballots : /\ b.req = j
                               /\ b.role = r
                               /\ b.governance = requests[j].governance
                               /\ b.at < requests[j].expires
      BY <3>1 DEF IInv, VotesHaveBallots
    <3>3. r \in requests[j].roles
      BY <3>1 DEF IInv, VotesHaveBallots
    <3>4. /\ requests'[j].roles = requests[j].roles
          /\ requests'[j].governance = requests[j].governance
          /\ requests'[j].expires = requests[j].expires
      BY <1>6, <1>7 DEF KeepsTerms
    <3>5. QED
      BY <3>2, <3>3, <3>4, <1>3
  <2>2. CASE j = i /\ r \notin Voted(requests[i])
    <3>1. r = role
      BY <2>2, <1>5, <1>7
    <3>2. /\ role \in new.roles
          /\ governance = new.governance
          /\ now < new.expires
      BY <1>2, <1>3, <1>4, <1>5 DEF KeepsTerms, BoundTo
    <3>3. ballot \in ballots' /\ requests'[j] = new
      BY <2>2, <1>3, <1>7
    <3>4. QED
      BY <3>1, <3>2, <3>3, <2>2
  <2>3. QED
    BY <2>1, <2>2
<1>10. SingleUse'
  BY <1>3 DEF IInv, SingleUse
<1>11. QED
  BY <1>7, <1>8, <1>9, <1>10 DEF IInv

LEMMA ResumeStep ==
    ASSUME IInv, NEW i \in Ids, NEW subject \in Subjects, Resume(i, subject)
    PROVE  IInv'
<1> DEFINE e == Expire(requests[i], now)
           new == Consume(e)
           run == [req |-> i, subject |-> subject,
                   at |-> now, governance |-> governance]
<1>1. /\ requests[i] \in RequestType
      /\ now \in Nat
      /\ runs \in Seq([req : Nat, subject : Subjects, at : Nat,
                        governance : Governance])
  BY DEF IInv, TypeOK, Ids
<1>2. /\ KeepsTerms(requests[i], e)
      /\ e.votes = requests[i].votes
      /\ e.consumed = requests[i].consumed
      /\ e.state = "approved" => requests[i].state = "approved"
      /\ (e.state \in {"pending", "approved"} /\ ~e.consumed) => now < e.expires
  BY <1>1, ExpireFacts
<1>3. /\ e.state = "approved"
      /\ ~e.consumed
      /\ BoundTo(e, subject, governance)
      /\ requests' = [requests EXCEPT ![i] = new]
      /\ runs' = Append(runs, run)
      /\ UNCHANGED <<now, governance, ballots>>
  BY DEF Resume, CanConsume
<1> HIDE DEF e
<1>4. /\ KeepsTerms(requests[i], new)
      /\ new.votes = requests[i].votes
      /\ new.consumed
      /\ new.state = "approved"
  BY <1>2, <1>3 DEF Consume, KeepsTerms, RequestType
<1> HIDE DEF new
<1>5. QuorateOrOpen(new)
  BY <1>2, <1>3, <1>4
     DEF IInv, ApprovedByQuorum, QuorateOrOpen, KeepsTerms, Voted
<1>6. /\ requests' \in Seq(RequestType)
      /\ Ids' = Ids
      /\ requests'[i] = new
      /\ \A j \in Ids : j # i => requests'[j] = requests[j]
  BY <1>3, <1>4, <1>5, RewriteRequest
<1>7. VotesHaveBallots' /\ ApprovedByQuorum'
  BY <1>3, <1>4, <1>5, SameVotesStep
<1>8. /\ run \in [req : Nat, subject : Subjects, at : Nat, governance : Governance]
      /\ runs' \in Seq([req : Nat, subject : Subjects, at : Nat,
                         governance : Governance])
      /\ Len(runs') = Len(runs) + 1
      /\ runs'[Len(runs) + 1] = run
      /\ \A k \in 1..Len(runs) : runs'[k] = runs[k]
  <2>1. run \in [req : Nat, subject : Subjects, at : Nat, governance : Governance]
    BY <1>1 DEF Ids, IInv, TypeOK
  <2> HIDE DEF run
  <2>2. QED
    BY <2>1, <1>1, <1>3, AppendElement
<1>9. \A k \in 1..Len(runs) : runs[k].req # i
  BY <1>2, <1>3 DEF IInv, RunsSpendRequests
<1>10. TypeOK'
  BY <1>3, <1>6, <1>8 DEF IInv, TypeOK
<1>11. RunsSpendRequests'
  <2> SUFFICES ASSUME NEW k \in 1..Len(runs')
               PROVE  /\ runs'[k].req \in Ids
                      /\ requests'[runs'[k].req].consumed
                      /\ requests'[runs'[k].req].state = "approved"
                      /\ BoundTo(requests'[runs'[k].req], runs'[k].subject,
                                 runs'[k].governance)
                      /\ runs'[k].at < requests'[runs'[k].req].expires
    BY <1>6 DEF RunsSpendRequests
  <2>1. CASE k \in 1..Len(runs)
    <3>1. /\ runs'[k] = runs[k]
          /\ runs[k].req \in Ids
          /\ runs[k].req # i
      BY <2>1, <1>8, <1>9 DEF IInv, RunsSpendRequests
    <3>2. requests'[runs[k].req] = requests[runs[k].req]
      BY <3>1, <1>6
    <3>3. QED
      BY <2>1, <3>1, <3>2 DEF IInv, RunsSpendRequests
  <2>2. CASE k = Len(runs) + 1
    <3>1. runs'[k] = run
      BY <2>2, <1>8
    <3>2. BoundTo(new, subject, governance) /\ now < new.expires
      BY <1>2, <1>3, <1>4 DEF KeepsTerms, BoundTo
    <3>3. QED
      BY <3>1, <3>2, <1>4, <1>6
  <2>3. QED
    BY <2>1, <2>2, <1>1, <1>8
<1>12. SingleUse'
  <2> SUFFICES ASSUME NEW j \in 1..Len(runs'), NEW k \in 1..Len(runs'),
                      runs'[j].req = runs'[k].req
               PROVE  j = k
    BY DEF SingleUse
  <2>1. CASE j \in 1..Len(runs) /\ k \in 1..Len(runs)
    BY <2>1, <1>8 DEF IInv, SingleUse
  <2>2. Len(runs) \in Nat /\ Len(runs') = Len(runs) + 1
    BY <1>1, <1>8
  <2>3. run.req = i /\ runs'[Len(runs) + 1] = run
    BY <1>8
  <2>4. CASE j = Len(runs) + 1 /\ k \in 1..Len(runs)
    BY <2>3, <2>4, <1>8, <1>9
  <2>5. CASE k = Len(runs) + 1 /\ j \in 1..Len(runs)
    BY <2>3, <2>5, <1>8, <1>9
  <2>6. QED
    BY <2>1, <2>2, <2>4, <2>5
<1>13. QED
  BY <1>7, <1>10, <1>11, <1>12 DEF IInv

LEMMA EnvironmentStep ==
    ASSUME IInv, Tick \/ (\E g \in Governance : ChangeGovernance(g))
    PROVE  IInv'
<1>1. /\ now' \in Nat
      /\ governance' \in Governance
      /\ UNCHANGED <<requests, ballots, runs>>
  BY DEF Tick, ChangeGovernance, IInv, TypeOK
<1>2. TypeOK'
  BY <1>1 DEF IInv, TypeOK
<1>3. VotesHaveBallots' /\ ApprovedByQuorum' /\ RunsSpendRequests' /\ SingleUse'
  BY <1>1 DEF IInv, VotesHaveBallots, ApprovedByQuorum, RunsSpendRequests,
              SingleUse, Ids
<1>4. QED
  BY <1>2, <1>3 DEF IInv

LEMMA StutterStep == ASSUME IInv, UNCHANGED vars PROVE IInv'
  BY DEF vars, IInv, TypeOK, VotesHaveBallots, ApprovedByQuorum,
         RunsSpendRequests, SingleUse, Ids

\* Every step of the manager keeps the invariant.
LEMMA NextIInv == ASSUME IInv, [ApprovalNext]_vars PROVE IInv'
<1>1. CASE Tick \/ (\E g \in Governance : ChangeGovernance(g))
  BY <1>1, EnvironmentStep
<1>2. CASE \E subject \in Subjects, quorum \in PolicyQuorums :
              Request(subject, quorum)
  BY <1>2, RequestStep
<1>3. CASE \E i \in Ids : Get(i)
  BY <1>3, GetStep
<1>4. CASE \E i \in Ids, role \in Roles, who \in Callers, subject \in Subjects :
              Vote(i, role, who, subject)
  BY <1>4, VoteStep
<1>5. CASE \E i \in Ids, role \in Roles, who \in Callers : Refuse(i, role, who)
  BY <1>5, RefuseStep
<1>6. CASE \E i \in Ids, subject \in Subjects : Resume(i, subject)
  BY <1>6, ResumeStep
<1>7. CASE UNCHANGED vars
  BY <1>7, StutterStep
<1>8. QED
  BY <1>1, <1>2, <1>3, <1>4, <1>5, <1>6, <1>7 DEF ApprovalNext

-----------------------------------------------------------------------------
(* The theorems.                                                            *)

THEOREM ApprovalInvariant == ApprovalSpec => []IInv
<1>1. ApprovalInit => IInv
  BY InitIInv
<1>2. IInv /\ [ApprovalNext]_vars => IInv'
  BY NextIInv
<1>3. QED
  BY <1>1, <1>2, PTL DEF ApprovalSpec

\* Every variable of the manager keeps its type.
THEOREM TypeCorrect == ApprovalSpec => []TypeOK
  BY ApprovalInvariant, PTL DEF IInv

\* An approval never lets two operations run (prepare_resume).
THEOREM ApprovalIsSingleUse == ApprovalSpec => []SingleUse
  BY ApprovalInvariant, PTL DEF IInv

\* Every operation resumed in enforce mode has behind it a full quorum of
\* required roles, who voted in time and under the governance state it runs in.
THEOREM ResumedOperationsAreBacked == ApprovalSpec => []RunsAreBacked
<1>1. IInv => RunsAreBacked
  <2> SUFFICES ASSUME IInv, NEW k \in 1..Len(runs)
               PROVE  /\ runs[k].req \in Ids
                      /\ runs[k].subject = requests[runs[k].req].subject
                      /\ runs[k].at < requests[runs[k].req].expires
                      /\ Cardinality(BackingRoles(runs[k])) >=
                            requests[runs[k].req].threshold
    BY DEF RunsAreBacked
  <2> DEFINE run == runs[k]
             req == requests[run.req]
  <2>1. /\ run.req \in Ids
        /\ req.state = "approved"
        /\ BoundTo(req, run.subject, run.governance)
        /\ run.at < req.expires
    BY DEF IInv, RunsSpendRequests
  <2>2. Cardinality(Voted(req)) >= req.threshold
    BY <2>1 DEF IInv, ApprovedByQuorum, QuorateOrOpen
  <2>3. Voted(req) \subseteq BackingRoles(run)
    BY <2>1 DEF IInv, VotesHaveBallots, BackingRoles, BoundTo
  <2>4. BackingRoles(run) \subseteq Roles /\ IsFiniteSet(Roles)
    BY ApprovalRequestAssumption DEF BackingRoles, IInv, TypeOK
  <2>5. /\ IsFiniteSet(BackingRoles(run))
        /\ Cardinality(Voted(req)) \in Nat
        /\ Cardinality(BackingRoles(run)) \in Nat
        /\ Cardinality(Voted(req)) =< Cardinality(BackingRoles(run))
    BY <2>3, <2>4, FS_Subset, FS_CardinalityType
  <2>6. req.threshold \in Nat
    <3>1. req \in RequestType
      BY <2>1 DEF IInv, TypeOK, Ids
    <3>2. QED
      BY <3>1 DEF RequestType
  <2>7. QED
    BY <2>1, <2>2, <2>5, <2>6 DEF BoundTo
<1>2. QED
  BY <1>1, ApprovalInvariant, PTL
-----------------------------------------------------------------------------
(* What a restart finds: requests stay within what from_snapshot accepts.   *)

\* A new request is restorable: its quorum can be reached.
LEMMA NewIsRestorable ==
    ASSUME IInv, NEW subject \in Subjects, NEW quorum \in PolicyQuorums
    PROVE  Restorable(NewRequest(subject, governance, quorum, now, Ttl))
<1>1. /\ quorum.roles \subseteq Roles
      /\ quorum.threshold \in Nat \ {0}
      /\ quorum.threshold <= Cardinality(quorum.roles)
  BY ApprovalAssumption DEF Quorums
<1>2. now \in Nat /\ Ttl \in Nat
  BY ApprovalAssumption DEF IInv, TypeOK
<1> DEFINE new == NewRequest(subject, governance, quorum, now, Ttl)
<1>3. /\ new.roles = quorum.roles /\ new.threshold = quorum.threshold
      /\ new.created = now /\ new.expires = now + Ttl
      /\ new.votes = [role \in Roles |-> NoVote]
      /\ new.state = "pending" /\ ~new.consumed
  BY DEF NewRequest
<1> HIDE DEF new
<1>4. Voted(new) = {}
  BY <1>3 DEF Voted
<1>5. Cardinality(Voted(new)) = 0
  BY <1>4, FS_EmptySet
<1>6. Restorable(new)
  BY <1>1, <1>2, <1>3, <1>4, <1>5 DEF Restorable
<1> QED
  BY <1>6 DEF new

\* _get leaves a restorable request restorable.
LEMMA ExpireIsRestorable ==
    ASSUME NEW req \in RequestType, Restorable(req), NEW t \in Nat
    PROVE  Restorable(Expire(req, t))
<1>1. CASE Expire(req, t) = req
  BY <1>1
<1>2. CASE Expire(req, t) # req
  <2> DEFINE e == Expire(req, t)
  <2>1. /\ e.state = "expired" /\ ~e.consumed /\ e.votes = req.votes
        /\ e.roles = req.roles /\ e.threshold = req.threshold
        /\ e.created = req.created /\ e.expires = req.expires
    BY <1>2 DEF Expire, RequestType
  <2> HIDE DEF e
  <2>2. Voted(e) = Voted(req)
    BY <2>1 DEF Voted
  <2>3. Restorable(e)
    BY <2>1, <2>2 DEF Restorable
  <2> QED
    BY <2>3 DEF e
<1> QED
  BY <1>1, <1>2

\* A denial and a resume change only what they may.
LEMMA CloseIsRestorable ==
    ASSUME NEW req \in RequestType, Restorable(req)
    PROVE  /\ req.state = "pending" => Restorable(Deny(req))
           /\ req.state = "approved" => Restorable(Consume(req))
<1>1. ASSUME req.state = "pending" PROVE Restorable(Deny(req))
  <2> DEFINE d == Deny(req)
  <2>1. /\ d.state = "denied" /\ d.consumed = req.consumed /\ d.votes = req.votes
        /\ d.roles = req.roles /\ d.threshold = req.threshold
        /\ d.created = req.created /\ d.expires = req.expires
    BY DEF Deny, RequestType
  <2> HIDE DEF d
  <2>2. Voted(d) = Voted(req)
    BY <2>1 DEF Voted
  <2>3. Restorable(d)
    BY <1>1, <2>1, <2>2 DEF Restorable, RequestType
  <2> QED
    BY <2>3 DEF d
<1>2. ASSUME req.state = "approved" PROVE Restorable(Consume(req))
  <2> DEFINE c == Consume(req)
  <2>1. /\ c.state = "approved" /\ c.votes = req.votes
        /\ c.roles = req.roles /\ c.threshold = req.threshold
        /\ c.created = req.created /\ c.expires = req.expires
    BY <1>2 DEF Consume, RequestType
  <2> HIDE DEF c
  <2>2. Voted(c) = Voted(req)
    BY <2>1 DEF Voted
  <2>3. Restorable(c)
    BY <1>2, <2>1, <2>2 DEF Restorable
  <2> QED
    BY <2>3 DEF c
<1> QED
  BY <1>1, <1>2

\* An accepted vote leaves the request pending only below its threshold.
LEMMA ApproveIsRestorable ==
    ASSUME NEW req \in RequestType, Restorable(req), req.state = "pending",
           NEW role \in req.roles, NEW who \in Callers
    PROVE  Restorable(Approve(req, role, who))
<1> DEFINE v == [req EXCEPT !.votes[role] = who]
           w == [v EXCEPT !.state = "approved"]
           a == Approve(req, role, who)
<1>1. role \in Roles
  BY DEF RequestType
<1>2. /\ v.votes = [req.votes EXCEPT ![role] = who]
      /\ v.state = "pending" /\ v.consumed = req.consumed
      /\ v.roles = req.roles /\ v.threshold = req.threshold
      /\ v.created = req.created /\ v.expires = req.expires
  BY DEF RequestType
<1>3. /\ w.votes = v.votes
      /\ w.state = "approved" /\ w.consumed = req.consumed
      /\ w.roles = req.roles /\ w.threshold = req.threshold
      /\ w.created = req.created /\ w.expires = req.expires
  BY DEF RequestType
<1>4. Voted(a) = Voted(req) \cup {role}
  BY <1>1, ApproveFacts
<1>5. a = IF Cardinality(Voted(v)) >= req.threshold THEN w ELSE v
  BY DEF Approve
<1> HIDE DEF v, w, a
<1>6. Voted(w) = Voted(v)
  BY <1>3 DEF Voted
<1>7. ~req.consumed
  BY DEF Restorable
<1>8. Cardinality(Voted(v)) \in Nat
  <2>1. Voted(v) \subseteq Roles
    BY DEF Voted
  <2> QED
    BY <2>1, ApprovalRequestAssumption, FS_Subset, FS_CardinalityType
<1>9. req.threshold \in Nat
  BY DEF RequestType
<1>10. Voted(a) \subseteq req.roles
  BY <1>4 DEF Restorable
<1>11. CASE Cardinality(Voted(v)) >= req.threshold
  <2>1. a = w
    BY <1>5, <1>11
  <2>2. Restorable(w)
    BY <1>3, <1>6, <1>7, <1>10, <1>11, <2>1 DEF Restorable
  <2> QED
    BY <2>1, <2>2 DEF a
<1>12. CASE ~(Cardinality(Voted(v)) >= req.threshold)
  <2>1. a = v
    BY <1>5, <1>12
  <2>2. Restorable(v)
    BY <1>2, <1>7, <1>8, <1>9, <1>10, <1>12, <2>1 DEF Restorable
  <2> QED
    BY <2>1, <2>2 DEF a
<1> QED
  BY <1>11, <1>12

\* A step that rewrites one request with a restorable one.
LEMMA RewriteRestorable ==
    ASSUME IInv, SnapshotRestorable, NEW i \in Ids, NEW new, Restorable(new),
           requests' = [requests EXCEPT ![i] = new]
    PROVE  SnapshotRestorable'
<1>1. requests \in Seq(RequestType) /\ i \in 1..Len(requests)
  BY DEF IInv, TypeOK, Ids
<1>2. /\ Len(requests') = Len(requests)
      /\ requests'[i] = new
      /\ \A j \in Ids : j # i => requests'[j] = requests[j]
  BY <1>1 DEF Ids
<1>3. Ids' = Ids
  BY <1>2 DEF Ids
<1>4. ASSUME NEW j \in Ids PROVE Restorable(requests'[j])
  BY <1>2 DEF SnapshotRestorable
<1> QED
  BY <1>3, <1>4 DEF SnapshotRestorable

\* Every step of the manager keeps its requests restorable.
LEMMA NextRestorable ==
    ASSUME IInv, SnapshotRestorable, [ApprovalNext]_vars
    PROVE  SnapshotRestorable'
<1>1. now \in Nat
  BY DEF IInv, TypeOK
<1>2. ASSUME NEW i \in Ids
      PROVE  /\ requests[i] \in RequestType
             /\ Expire(requests[i], now) \in RequestType
             /\ Restorable(Expire(requests[i], now))
  <2>1. requests[i] \in RequestType /\ Restorable(requests[i])
    BY DEF IInv, TypeOK, Ids, SnapshotRestorable
  <2> QED
    BY <1>1, <2>1, ExpireIsRestorable, ExpireFacts DEF KeepsTerms
<1>3. ASSUME requests' = requests PROVE SnapshotRestorable'
  BY <1>3 DEF SnapshotRestorable, Ids
<1>4. CASE Tick \/ (\E g \in Governance : ChangeGovernance(g)) \/ UNCHANGED vars
  BY <1>3, <1>4 DEF Tick, ChangeGovernance, vars
<1>5. ASSUME NEW subject \in Subjects, NEW quorum \in PolicyQuorums,
             Request(subject, quorum)
      PROVE  SnapshotRestorable'
  <2> DEFINE new == NewRequest(subject, governance, quorum, now, Ttl)
  <2>1. Restorable(new)
    BY NewIsRestorable
  <2>2. requests' = Append(requests, new)
    BY <1>5 DEF Request
  <2> HIDE DEF new
  <2>3. /\ Len(requests') = Len(requests) + 1
        /\ requests'[Len(requests) + 1] = new
        /\ \A j \in Ids : requests'[j] = requests[j]
        /\ Len(requests) \in Nat
    BY <2>2 DEF Ids, IInv, TypeOK
  <2>4. Ids' = Ids \cup {Len(requests) + 1}
    BY <2>3 DEF Ids
  <2> QED
    BY <2>1, <2>3, <2>4 DEF SnapshotRestorable
<1>6. ASSUME NEW i \in Ids, Get(i) PROVE SnapshotRestorable'
  BY <1>2, <1>6, RewriteRestorable DEF Get
<1>7. ASSUME NEW i \in Ids, NEW role \in Roles, NEW who \in Callers,
             NEW subject \in Subjects, Vote(i, role, who, subject)
      PROVE  SnapshotRestorable'
  <2> DEFINE e == Expire(requests[i], now)
  <2>1. /\ e.state = "pending" /\ role \in e.roles
        /\ requests' = [requests EXCEPT ![i] = Approve(e, role, who)]
    BY <1>7 DEF Vote, CanApprove
  <2>2. e \in RequestType /\ Restorable(e)
    BY <1>2
  <2> HIDE DEF e
  <2>3. Restorable(Approve(e, role, who))
    BY <2>1, <2>2, ApproveIsRestorable
  <2> QED
    BY <2>1, <2>3, RewriteRestorable
<1>8. ASSUME NEW i \in Ids, NEW role \in Roles, NEW who \in Callers,
             Refuse(i, role, who)
      PROVE  SnapshotRestorable'
  <2> DEFINE e == Expire(requests[i], now)
  <2>1. e.state = "pending" /\ requests' = [requests EXCEPT ![i] = Deny(e)]
    BY <1>8 DEF Refuse, CanDeny
  <2>2. e \in RequestType /\ Restorable(e)
    BY <1>2
  <2> HIDE DEF e
  <2> QED
    BY <2>1, <2>2, CloseIsRestorable, RewriteRestorable
<1>9. ASSUME NEW i \in Ids, NEW subject \in Subjects, Resume(i, subject)
      PROVE  SnapshotRestorable'
  <2> DEFINE e == Expire(requests[i], now)
  <2>1. e.state = "approved" /\ requests' = [requests EXCEPT ![i] = Consume(e)]
    BY <1>9 DEF Resume, CanConsume
  <2>2. e \in RequestType /\ Restorable(e)
    BY <1>2
  <2> HIDE DEF e
  <2> QED
    BY <2>1, <2>2, CloseIsRestorable, RewriteRestorable
<1> QED
  BY <1>4, <1>5, <1>6, <1>7, <1>8, <1>9 DEF ApprovalNext

\* Whatever a manager has served, from_snapshot accepts its snapshot.
THEOREM SnapshotsAreRestorable == ApprovalSpec => []SnapshotRestorable
<1>1. ApprovalInit => SnapshotRestorable
  BY DEF ApprovalInit, SnapshotRestorable, Ids
<1>2. IInv /\ SnapshotRestorable /\ [ApprovalNext]_vars => SnapshotRestorable'
  BY NextRestorable
<1> QED
  BY <1>1, <1>2, ApprovalInvariant, PTL DEF ApprovalSpec
-----------------------------------------------------------------------------
(* What a step may make of one request.                                     *)

Advances(old, new) ==
    /\ old.state \in {"denied", "expired"} => new = old
    /\ BoundTo(new, old.subject, old.governance)
    /\ new.expires = old.expires
    /\ \A role \in Voted(old) : new.votes[role] = old.votes[role]

\* _get closes what is open and past its deadline, and nothing else.
LEMMA ExpireAdvances ==
    ASSUME NEW req \in RequestType, NEW t \in Nat
    PROVE  Advances(req, Expire(req, t))
  BY DEF Advances, Expire, BoundTo, RequestType

\* What is done to a request that is open goes on from what _get made of it.
LEMMA OpenAdvances ==
    ASSUME NEW req \in RequestType, NEW t \in Nat, NEW new,
           Expire(req, t).state \in {"pending", "approved"},
           KeepsTerms(Expire(req, t), new),
           \A role \in Voted(Expire(req, t)) :
               new.votes[role] = Expire(req, t).votes[role]
    PROVE  Advances(req, new)
<1>1. Expire(req, t) = req
  BY DEF Expire, RequestType
<1>2. req.state \notin {"denied", "expired"}
  BY <1>1
<1> QED
  BY <1>1, <1>2 DEF Advances, KeepsTerms, BoundTo

\* Every step lets every request advance.
LEMMA StepAdvances ==
    ASSUME IInv, [ApprovalNext]_vars, NEW i \in Ids
    PROVE  Advances(requests[i], requests'[i])
<1>1. now \in Nat /\ requests[i] \in RequestType
  BY DEF IInv, TypeOK, Ids
<1> DEFINE e == Expire(requests[i], now)
<1>2. e \in RequestType
  BY <1>1, ExpireFacts DEF KeepsTerms
<1>3. Advances(requests[i], requests[i])
  BY DEF Advances, BoundTo
<1>4. ASSUME NEW j \in Ids, NEW new,
             requests' = [requests EXCEPT ![j] = new],
             j = i => Advances(requests[i], new)
      PROVE  Advances(requests[i], requests'[i])
  <2>1. requests'[i] = IF j = i THEN new ELSE requests[i]
    BY <1>4 DEF IInv, TypeOK, Ids
  <2> QED
    BY <2>1, <1>3, <1>4
<1>5. CASE Tick \/ (\E g \in Governance : ChangeGovernance(g)) \/ UNCHANGED vars
  BY <1>3, <1>5 DEF Tick, ChangeGovernance, vars
<1>6. CASE \E subject \in Subjects, quorum \in PolicyQuorums :
              Request(subject, quorum)
  <2>1. requests'[i] = requests[i]
    BY <1>6 DEF Request, IInv, TypeOK, Ids
  <2> QED
    BY <2>1, <1>3
<1>7. ASSUME NEW j \in Ids, Get(j) PROVE Advances(requests[i], requests'[i])
  BY <1>1, <1>4, <1>7, ExpireAdvances DEF Get
<1>8. ASSUME NEW j \in Ids, NEW role \in Roles, NEW who \in Callers,
             NEW subject \in Subjects, Vote(j, role, who, subject)
      PROVE  Advances(requests[i], requests'[i])
  <2> SUFFICES ASSUME j = i PROVE Advances(requests[i], Approve(e, role, who))
    BY <1>4, <1>8 DEF Vote
  <2>1. e.state = "pending" /\ e.votes[role] = NoVote
    BY <1>8 DEF Vote, CanApprove
  <2>2. KeepsTerms(e, Approve(e, role, who))
    BY <1>2, ApproveFacts
  <2>3. Approve(e, role, who).votes = [e.votes EXCEPT ![role] = who]
    BY <1>2 DEF Approve, RequestType
  <2>4. \A r \in Voted(e) : Approve(e, role, who).votes[r] = e.votes[r]
    BY <1>2, <2>1, <2>3 DEF Voted, RequestType
  <2> QED
    BY <1>1, <2>1, <2>2, <2>4, OpenAdvances
<1>9. ASSUME NEW j \in Ids, NEW role \in Roles, NEW who \in Callers,
             Refuse(j, role, who)
      PROVE  Advances(requests[i], requests'[i])
  <2> SUFFICES ASSUME j = i PROVE Advances(requests[i], Deny(e))
    BY <1>4, <1>9 DEF Refuse
  <2>1. e.state = "pending"
    BY <1>9 DEF Refuse, CanDeny
  <2>2. KeepsTerms(e, Deny(e)) /\ Deny(e).votes = e.votes
    BY <1>2 DEF Deny, KeepsTerms, RequestType, RequestStates
  <2> QED
    BY <1>1, <2>1, <2>2, OpenAdvances
<1>10. ASSUME NEW j \in Ids, NEW subject \in Subjects, Resume(j, subject)
       PROVE  Advances(requests[i], requests'[i])
  <2> SUFFICES ASSUME j = i PROVE Advances(requests[i], Consume(e))
    BY <1>4, <1>10 DEF Resume
  <2>1. e.state = "approved"
    BY <1>10 DEF Resume, CanConsume
  <2>2. KeepsTerms(e, Consume(e)) /\ Consume(e).votes = e.votes
    BY <1>2 DEF Consume, KeepsTerms, RequestType
  <2> QED
    BY <1>1, <2>1, <2>2, OpenAdvances
<1> QED
  BY <1>5, <1>6, <1>7, <1>8, <1>9, <1>10 DEF ApprovalNext

\* A denial and an expiry are final, what was closed runs nothing, and what was
\* voted, for what and until when, stands.
THEOREM RequestsNeverGoBack == ApprovalSpec => RequestsOnlyAdvance
<1>1. ASSUME IInv, IInv', [ApprovalNext]_vars, NEW i \in Ids
      PROVE  /\ requests[i].state \in {"denied", "expired"} =>
                   /\ requests'[i] = requests[i]
                   /\ \A k \in 1..Len(runs') : runs'[k].req # i
             /\ BoundTo(requests'[i], requests[i].subject, requests[i].governance)
             /\ requests'[i].expires = requests[i].expires
             /\ \A role \in Voted(requests[i]) :
                   requests'[i].votes[role] = requests[i].votes[role]
  <2>1. Advances(requests[i], requests'[i])
    BY <1>1, StepAdvances
  <2>2. ASSUME requests[i].state \in {"denied", "expired"}, NEW k \in 1..Len(runs')
        PROVE  runs'[k].req # i
    <3>1. requests'[i].state # "approved"
      BY <2>1, <2>2 DEF Advances
    <3>2. requests'[runs'[k].req].state = "approved"
      BY <1>1 DEF IInv, RunsSpendRequests
    <3> QED
      BY <3>1, <3>2
  <2> QED
    BY <2>1, <2>2 DEF Advances
<1>2. IInv /\ IInv' /\ [ApprovalNext]_vars =>
        [\A i \in Ids :
            /\ requests[i].state \in {"denied", "expired"} =>
                  /\ requests'[i] = requests[i]
                  /\ \A k \in 1..Len(runs') : runs'[k].req # i
            /\ BoundTo(requests'[i], requests[i].subject, requests[i].governance)
            /\ requests'[i].expires = requests[i].expires
            /\ \A role \in Voted(requests[i]) :
                  requests'[i].votes[role] = requests[i].votes[role]]_vars
  BY <1>1
<1> QED
  BY <1>2, ApprovalInvariant, PTL DEF ApprovalSpec, RequestsOnlyAdvance
=============================================================================
