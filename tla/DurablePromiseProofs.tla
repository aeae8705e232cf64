------------------------ MODULE DurablePromiseProofs ------------------------
(***************************************************************************)
(* What the durable service promises its clients, for any number of workers, *)
(* keys, requests, crashes and failed transactions: an operation is          *)
(* performed at most once and claimed before it is, its final answer is true *)
(* of it, and what was answered about an approval stays in the approval      *)
(* state the workers share.                                                  *)
(***************************************************************************)
EXTENDS DurableServiceProofs

-----------------------------------------------------------------------------
(* Places: where the operation of a decision may be claimed.                *)

\* Some process, or the repository, has approval i for d.
At(i, d) ==
    \/ \E w \in Workers : i \in DOMAIN manager[w] /\ manager[w][i].subject = d
    \/ i \in DOMAIN Committed /\ Committed[i].subject = d

PlaceIds == ({"decision"} \X Keys) \cup ({"approval"} \X Nat)

\* The operation of d was claimed there, or may yet be.
Place(d, id) ==
    \/ id \in ClaimIds /\ claims[id] # NoRecord /\ claims[id].owner = d
    \/ \E w \in Workers : /\ job[w].step \in ClaimSteps
                           /\ job[w].req = d
                           /\ id = <<"decision", d.key>>
    \/ \E i \in Nat : At(i, d) /\ id = <<"approval", i>>

\* A decision has one place, and none before it is served.
PlacesInv ==
    /\ \A d \in Decisions, a, b \in PlaceIds : Place(d, a) /\ Place(d, b) => a = b
    /\ \A d \in Decisions, a \in PlaceIds : Place(d, a) =>
          rows[RowOf(d)] # NoRecord /\ rows[RowOf(d)].request = d
    /\ \A w \in Workers, a \in PlaceIds :
          job[w].step = "serve" /\ job[w].req \in Decisions => ~Place(job[w].req, a)

\* The place that serving a decision gives it.
Opens(w, d, id) ==
    /\ job[w].step = "serve" /\ job[w].req = d
    /\ \/ job'[w].step = "claim" /\ id = <<"decision", d.key>>
       \/ job'[w].step = "persist" /\ id = <<"approval", Len(manager[w]) + 1>>

\* A decision gets an approval only when it is served.
LEMMA AtStep ==
    ASSUME TypeInv, [Next]_vars, NEW i, NEW d, At(i, d)'
    PROVE  At(i, d) \/ \E w \in Workers : Opens(w, d, <<"approval", i>>)
<1> DEFINE Goal == At(i, d) \/ \E w \in Workers : Opens(w, d, <<"approval", i>>)
<1>t. /\ manager \in [Workers -> Seq(ApprovalRecord)]
      /\ approvals \in [revision : Nat, payload : [requests : Seq(ApprovalRecord),
                                                   pending : SUBSET (Nat \ {0})]]
      /\ job \in [Workers -> JobType]
  BY DEF TypeInv, TypeOK, JobType
<1>0. ASSUME UNCHANGED <<manager, approvals>> PROVE Goal
  BY <1>0 DEF At, Committed
<1>1. ASSUME NEW w \in Workers, SubjectsKept(w), UNCHANGED approvals PROVE Goal
  BY <1>1 DEF At, Committed, SubjectsKept
<1>2. ASSUME NEW w \in Workers, NEW o \in Outcomes, NEW g \in Governance,
             ServeDecision(w, o, g)
      PROVE  Goal
  <2>1. CASE /\ manager' = [manager EXCEPT ![w] = Append(@,
                               NewRequest(job[w].req, g, Quorum, now, Ttl))]
             /\ Continue(w, "persist", "escalated")
    <3> DEFINE new == NewRequest(job[w].req, g, Quorum, now, Ttl)
    <3>1. /\ DOMAIN manager'[w] = 1..(Len(manager[w]) + 1)
          /\ DOMAIN manager[w] = 1..Len(manager[w]) /\ Len(manager[w]) \in Nat
          /\ manager'[w][Len(manager[w]) + 1] = new
          /\ \A j \in 1..Len(manager[w]) : manager'[w][j] = manager[w][j]
          /\ \A v \in Workers \ {w} : manager'[v] = manager[v]
      <4>1. new \in ApprovalRecord
        <5>1. job[w].req \in Decisions
          BY <1>2, OwnedJob DEF ServeDecision, Decisions
        <5>2. now \in Nat
          BY DEF TypeInv, TypeOK
        <5> QED
          BY <5>1, <5>2, NewRequestType
      <4>2. manager' = [manager EXCEPT ![w] = Append(manager[w], new)]
        BY <2>1, <1>t
      <4> HIDE DEF new
      <4> QED
        BY <1>t, <4>1, <4>2
    <3>2. new.subject = job[w].req
      BY DEF NewRequest
    <3>3. job[w].step = "serve" /\ job'[w].step = "persist"
      BY <1>2, <2>1, <1>t DEF ServeDecision, Continue, JobType
    <3>4. UNCHANGED approvals
      BY <1>2 DEF ServeDecision, repository
    <3>5. ASSUME NEW v \in Workers, i \in DOMAIN manager'[v], manager'[v][i].subject = d
          PROVE  Goal
      <4>1. CASE v = w /\ i = Len(manager[w]) + 1
        BY <3>1, <3>2, <3>3, <3>5, <4>1 DEF Opens
      <4>2. CASE ~(v = w /\ i = Len(manager[w]) + 1)
        <5>1. i \in DOMAIN manager[v] /\ manager'[v][i] = manager[v][i]
          <6>1. CASE v # w
            BY <3>1, <3>5, <6>1
          <6>2. CASE v = w
            BY <3>1, <3>5, <4>2, <6>2
          <6> QED
            BY <6>1, <6>2
        <5> QED
          BY <3>5, <5>1 DEF At
      <4> QED
        BY <4>1, <4>2
    <3>6. ASSUME i \in DOMAIN Committed', Committed'[i].subject = d PROVE Goal
      BY <3>4, <3>6 DEF At, Committed
    <3> QED
      BY <3>5, <3>6 DEF At
  <2> QED
    BY <1>0, <1>2, <2>1 DEF ServeDecision, repository
<1>3. ASSUME NEW w \in Workers, Persist(w) PROVE Goal
  <2>1. CASE approvals' = Saved(approvals, SavedState(manager[w], pending[w]))
    <3>1. Committed' = manager[w] /\ UNCHANGED manager
      BY <1>3, <2>1 DEF Persist, Saved, SavedState, Committed
    <3> QED
      BY <3>1 DEF At
  <2> QED
    BY <1>0, <1>3, <2>1 DEF Persist
<1>4. ASSUME NEW w \in Workers, NEW m \in {<<>>, Committed},
             manager' = [manager EXCEPT ![w] = m], UNCHANGED approvals
      PROVE  Goal
  <2>1. /\ manager'[w] = m /\ Committed' = Committed
        /\ \A v \in Workers \ {w} : manager'[v] = manager[v]
    BY <1>4, <1>t DEF Committed
  <2> QED
    BY <2>1 DEF At
<1>5. ASSUME NEW w \in Workers, Work(w) PROVE Goal
  <2>1. ASSUME NEW g \in Governance, ServeVote(w, g) \/ ServeResume(w, g) PROVE Goal
    <3>1. SubjectsKept(w) /\ UNCHANGED approvals
      BY <2>1, ServeVoteKeeps, ServeResumeKeeps DEF ServeVote, ServeResume, repository
    <3> QED
      BY <1>1, <3>1
  <2>2. ASSUME Peek(w) \/ Turned(w) \/ Claim(w) \/ Operate(w) \/ Settle(w) \/ Store(w)
        PROVE  UNCHANGED <<manager, approvals>>
    BY <2>2 DEF Peek, Turned, Claim, Operate, Settle, Store, Hold, repository, memory
  <2>3. CASE \E o \in Outcomes, g \in Governance : ServeDecision(w, o, g)
    <3>1. PICK o \in Outcomes, g \in Governance : ServeDecision(w, o, g)
      BY <2>3
    <3> HIDE DEF Goal
    <3> QED
      BY <1>2, <3>1
  <2>4. CASE \E g \in Governance : ServeVote(w, g) \/ ServeResume(w, g)
    <3>1. PICK g \in Governance : ServeVote(w, g) \/ ServeResume(w, g)
      BY <2>4
    <3> HIDE DEF Goal
    <3> QED
      BY <2>1, <3>1
  <2> HIDE DEF Goal
  <2>5. CASE Peek(w) \/ Turned(w) \/ Claim(w) \/ Operate(w) \/ Settle(w) \/ Store(w)
    BY <1>0, <2>2, <2>5
  <2> QED
    BY <1>3, <1>5, <2>3, <2>4, <2>5 DEF Work
<1>6. ASSUME NEW w \in Workers, Crash(w) \/ Restart(w) PROVE Goal
  BY <1>4, <1>6 DEF Crash, Restart, Committed, repository
<1>7. ASSUME NEW w \in Workers, NEW j \in ApprovalIds, ServeGet(w, j) PROVE Goal
  <2>1. SubjectsKept(w) /\ UNCHANGED approvals
    BY <1>7, ServeGetKeeps DEF ServeGet, repository
  <2> QED
    BY <1>1, <2>1
<1>8. ASSUME Next PROVE Goal
  <2>1. ASSUME NEW w \in Workers, NEW r \in Requests,
               AnswerFromCache(w, r) \/ CommitLate(w, r) \/ Reserve(w, r)
        PROVE  UNCHANGED <<manager, approvals>>
    BY <2>1 DEF AnswerFromCache, CommitLate, Reserve, repository, memory
  <2>2. ASSUME NEW w \in Workers, StoreFails(w) PROVE UNCHANGED <<manager, approvals>>
    BY <2>2 DEF StoreFails
  <2>3. ASSUME Tick \/ \E id \in ClaimIds : Reconcile(id)
        PROVE  UNCHANGED <<manager, approvals>>
    BY <2>3 DEF Tick, Reconcile, memory, repository
  <2> HIDE DEF Goal
  <2>4. CASE \E w \in Workers, r \in Requests :
               AnswerFromCache(w, r) \/ CommitLate(w, r) \/ Reserve(w, r)
    BY <1>0, <2>1, <2>4
  <2>5. CASE \E w \in Workers : StoreFails(w)
    BY <1>0, <2>2, <2>5
  <2>6. CASE Tick \/ \E id \in ClaimIds : Reconcile(id)
    BY <1>0, <2>3, <2>6
  <2>7. CASE \E w \in Workers : Work(w) \/ Crash(w) \/ Restart(w)
    BY <1>5, <1>6, <2>7
  <2>8. CASE \E w \in Workers, j \in ApprovalIds : ServeGet(w, j)
    BY <1>7, <2>8
  <2> QED
    BY <1>8, <2>4, <2>5, <2>6, <2>7, <2>8 DEF Next
<1> QED
  BY <1>0, <1>8 DEF vars, memory, repository

\* The place at which a job claims is one of its decision.
LEMMA ClaimsAtPlace ==
    ASSUME TypeInv, NEW w \in Workers, job[w].step \in ClaimSteps
    PROVE  /\ Place(Subject(w), ClaimOf(job[w].req))
           /\ ClaimOf(job[w].req) \in PlaceIds
<1>1. /\ job[w].req \in Requests
      /\ \/ job[w].req.scope = "decisions"
         \/ job[w].req.scope = "resumes" /\ job[w].req.approval \in DOMAIN manager[w]
  BY OwnedJob DEF ClaimSteps
<1>2. CASE job[w].req.scope = "decisions"
  BY <1>1, <1>2, RequestTypes DEF Subject, ClaimOf, Place, PlaceIds
<1>3. CASE job[w].req.scope = "resumes" /\ job[w].req.approval \in DOMAIN manager[w]
  <2>1. /\ Subject(w) = manager[w][job[w].req.approval].subject
        /\ ClaimOf(job[w].req) = <<"approval", job[w].req.approval>>
        /\ job[w].req.approval \in Nat
    BY <1>1, <1>3, RequestTypes DEF Subject, ClaimOf
  <2>2. At(job[w].req.approval, Subject(w))
    BY <1>3, <2>1 DEF At
  <2> QED
    BY <2>1, <2>2 DEF Place, PlaceIds
<1> QED
  BY <1>1, <1>2, <1>3

\* A claim is one that was there, of the same decision, or is of a job's.
ClaimsNow(w, id) ==
    /\ job[w].step = "claim" /\ id = ClaimOf(job[w].req)
    /\ claims[id] = NoRecord
    /\ claims'[id] = Claimed(Subject(w))
    /\ job'[w].step = "operate"

\* A step adds the claim of a job, or none.
LEMMA ClaimsGrow ==
    ASSUME TypeInv, [Next]_vars, NEW id \in ClaimIds, claims'[id] # NoRecord
    PROVE  \/ claims[id] # NoRecord /\ claims'[id].owner = claims[id].owner
           \/ \E w \in Workers : ClaimsNow(w, id)
<1>1. CASE claims[id] # NoRecord
  <2>1. ClaimMoves(id)
    BY ClaimsStep
  <2> QED
    BY <1>1, <2>1, SettledStays
<1>2. CASE claims[id] = NoRecord
  <2>t. claims \in [ClaimIds -> ClaimRecord \cup {NoRecord}] /\ job \in [Workers -> JobType]
    BY DEF TypeInv, TypeOK, JobType
  <2>1. ASSUME NEW w \in Workers, Claim(w) PROVE ClaimsNow(w, id)
    <3>1. /\ claims' = [claims EXCEPT ![ClaimOf(job[w].req)] = Claimed(Subject(w))]
          /\ Continue(w, "operate", NoRecord)
      BY <1>2, <2>1 DEF Claim
    <3>2. id = ClaimOf(job[w].req) /\ claims'[id] = Claimed(Subject(w))
      BY <1>2, <2>t, <3>1
    <3>3. job'[w].step = "operate"
      BY <2>t, <3>1 DEF Continue, JobType
    <3> QED
      BY <1>2, <2>1, <3>2, <3>3 DEF ClaimsNow, Claim
  <2>2. ASSUME NEW w \in Workers, Settle(w) PROVE FALSE
    BY <1>2, <2>t, <2>2 DEF Settle, CanSettle
  <2>3. ASSUME NEW i \in ClaimIds, Reconcile(i) PROVE FALSE
    BY <1>2, <2>t, <2>3 DEF Reconcile
  <2> QED
    BY <1>2, <2>1, <2>2, <2>3, ClaimsChange
<1> QED
  BY <1>1, <1>2

\* A reservation stays one of its request.
LEMMA RowKept ==
    ASSUME TypeInv, [Next]_vars, NEW id \in RowIds, rows[id] # NoRecord
    PROVE  rows'[id] # NoRecord /\ rows'[id].request = rows[id].request
<1>1. RowMoves(id) /\ rows'[id].request = rows[id].request
  BY RowsStep, CompleteStays
<1>2. \A r \in Requests, x \in Answers : Completed(r, x) # NoRecord
  <2>1. \A r \in Requests, x \in Answers : Completed(r, x) \in RowRecord
    BY DEF Completed, RowRecord
  <2> QED
    BY <2>1, NoRecordAssumption
<1> QED
  BY <1>1, <1>2 DEF RowMoves

\* A decision gets a place only when it is served.
LEMMA PlaceStep ==
    ASSUME TypeInv, [Next]_vars, NEW d \in Decisions, NEW id \in PlaceIds, Place(d, id)'
    PROVE  Place(d, id) \/ \E w \in Workers : Opens(w, d, id)
<1> DEFINE Goal == Place(d, id) \/ \E w \in Workers : Opens(w, d, id)
<1>1. CASE id \in ClaimIds /\ claims'[id] # NoRecord /\ claims'[id].owner = d
  <2>1. CASE claims[id] # NoRecord /\ claims'[id].owner = claims[id].owner
    BY <1>1, <2>1 DEF Place
  <2>2. ASSUME NEW w \in Workers, ClaimsNow(w, id) PROVE Place(d, id)
    <3>1. /\ job[w].step \in ClaimSteps /\ id = ClaimOf(job[w].req)
          /\ claims'[id] = Claimed(Subject(w))
      BY <2>2 DEF ClaimsNow, ClaimSteps
    <3>2. Subject(w) = d
      BY <1>1, <3>1 DEF Claimed
    <3> QED
      BY <3>1, <3>2, ClaimsAtPlace
  <2> QED
    BY <1>1, <2>1, <2>2, ClaimsGrow
<1>2. ASSUME NEW w \in Workers, job'[w].step \in ClaimSteps, job'[w].req = d,
             id = <<"decision", d.key>>
      PROVE  Goal
  <2>1. JobMoves(w) /\ d \notin Gets /\ d \in Requests
    BY JobsStep, RequestTypes DEF Gets, Get, Decisions
  <2>2. CASE job'[w] = job[w]
    BY <1>2, <2>2 DEF Place
  <2>3. CASE /\ job[w].step \in OwningSteps
             /\ job'[w].step \in OwningSteps \ {"serve"}
             /\ job'[w].req = job[w].req
             /\ ClaimsInTurn(job[w].step, job'[w].step)
    <3>1. CASE job[w].step \in ClaimSteps
      BY <1>2, <2>3, <3>1 DEF Place
    <3>2. CASE job[w].step = "serve" /\ job'[w].step = "claim"
      BY <1>2, <2>3, <3>2 DEF Opens
    <3> HIDE DEF Goal
    <3> QED
      BY <1>2, <2>3, <3>1, <3>2 DEF ClaimsInTurn
  <2> HIDE DEF Goal
  <2>4. \A r \in Requests : ~Reserves(w, r)
    BY <1>2 DEF Reserves, ClaimSteps
  <2> QED
    BY <1>2, <2>1, <2>2, <2>3, <2>4 DEF JobMoves, ClaimSteps, IdleJob, DownJob
<1>3. ASSUME NEW i \in Nat, At(i, d)', id = <<"approval", i>> PROVE Goal
  BY <1>3, AtStep DEF Place
<1> QED
  BY <1>1, <1>2, <1>3 DEF Place

\* Places stay unique.
LEMMA PlacesStep ==
    ASSUME TypeInv, TypeInv', OwnersInv, PlacesInv, [Next]_vars
    PROVE  PlacesInv'
<1>o. ASSUME NEW w \in Workers, NEW d \in Decisions, NEW id, Opens(w, d, id)
      PROVE  /\ Owns(w, d) /\ d \in Requests /\ RowOf(d) \in RowIds
             /\ rows[RowOf(d)] # NoRecord /\ rows[RowOf(d)].request = d
  <2>1. Owns(w, d) /\ d \in Requests /\ RowOf(d) \in RowIds
    BY <1>o, RequestTypes DEF Opens, Owns, OwningSteps, Decisions
  <2> QED
    BY <2>1 DEF OwnersInv
<1>1. ASSUME NEW d \in Decisions, NEW a \in PlaceIds, NEW b \in PlaceIds,
             Place(d, a)', Place(d, b)'
      PROVE  a = b
  <2>1. ASSUME NEW id \in PlaceIds, NEW w \in Workers, NEW other \in PlaceIds,
               Opens(w, d, id), Place(d, other)
        PROVE  FALSE
    BY <2>1 DEF PlacesInv, Opens
  <2>2. ASSUME NEW w \in Workers, NEW v \in Workers, Opens(w, d, a), Opens(v, d, b)
        PROVE  a = b
    <3>1. w = v
      BY <1>o, <2>2 DEF OwnersInv
    <3> QED
      BY <2>2, <3>1 DEF Opens
  <2> QED
    BY <1>1, <2>1, <2>2, PlaceStep DEF PlacesInv
<1>2. ASSUME NEW d \in Decisions, NEW a \in PlaceIds, Place(d, a)'
      PROVE  rows'[RowOf(d)] # NoRecord /\ rows'[RowOf(d)].request = d
  <2>1. /\ RowOf(d) \in RowIds
        /\ rows[RowOf(d)] # NoRecord /\ rows[RowOf(d)].request = d
    BY <1>2, <1>o, PlaceStep, RequestTypes DEF PlacesInv, Decisions
  <2> QED
    BY <2>1, RowKept
<1>3. ASSUME NEW w \in Workers, NEW a \in PlaceIds, job'[w].step = "serve",
             job'[w].req \in Decisions, Place(job[w].req, a)'
      PROVE  FALSE
  <2>1. PICK d \in Decisions : d = job'[w].req
    BY <1>3
  <2>2. Place(d, a) \/ \E v \in Workers : Opens(v, d, a)
    BY <1>3, <2>1, PlaceStep
  <2>3. CASE job'[w] = job[w]
    <3>1. Owns(w, d) /\ d \in Requests
      BY <1>3, <2>1, <2>3 DEF Owns, OwningSteps, Decisions
    <3>2. ~Place(d, a)
      BY <1>3, <2>1, <2>3 DEF PlacesInv
    <3>3. ASSUME NEW v \in Workers, Opens(v, d, a) PROVE FALSE
      <4>1. v = w
        BY <1>o, <3>1, <3>3 DEF OwnersInv
      <4> QED
        BY <1>3, <3>3, <4>1 DEF Opens
    <3> QED
      BY <2>2, <3>2, <3>3
  <2>4. ASSUME NEW r \in Requests, Reserves(w, r) PROVE FALSE
    <3>1. r = d /\ rows[RowOf(d)] = NoRecord
      BY <2>1, <2>4 DEF Reserves
    <3> QED
      BY <1>o, <2>2, <3>1 DEF PlacesInv
  <2>5. job'[w].req \notin Gets
    BY <1>3, RequestTypes DEF Gets, Get, Decisions
  <2>6. JobMoves(w)
    BY JobsStep
  <2> QED
    BY <1>3, <2>3, <2>4, <2>5, <2>6 DEF JobMoves, OwningSteps, IdleJob, DownJob
<1> QED
  BY <1>1, <1>2, <1>3 DEF PlacesInv, RowOf

-----------------------------------------------------------------------------
(* Effects: operations are claimed, and performed once.                     *)

Operating == {"operate", "settle"}

\* No operation without a claim, and none twice; what is about to be performed
\* has not been, and by one process at a time.
EffectsInv ==
    /\ \A d \in Decisions : effects[d] # 0 =>
          /\ effects[d] = 1
          /\ \E id \in ClaimIds : claims[id] # NoRecord /\ claims[id].owner = d
    /\ \A w \in Workers : job[w].step \in Operating =>
          /\ claims[ClaimOf(job[w].req)] # NoRecord
          /\ claims[ClaimOf(job[w].req)].owner = Subject(w)
    /\ \A w \in Workers : job[w].step = "operate" => effects[Subject(w)] = 0
    /\ \A w, v \in Workers :
          /\ job[w].step \in Operating
          /\ job[v].step \in Operating
          /\ Subject(w) = Subject(v)
          => w = v
    /\ \A w \in Workers : job[w].step = "settle" /\ job[w].response \in Results =>
          effects[Subject(w)] = 1
    /\ \A id \in ClaimIds : claims[id] # NoRecord /\ claims[id].status = "succeeded" =>
          effects[claims[id].owner] = 1

\* A step of u that neither claims nor operates leaves the others alone.
Passive(u) ==
    /\ job'[u].step \notin Operating
    /\ \A v \in Workers \ {u} : job'[v] = job[v] /\ manager'[v] = manager[v]

\* The steps that are passive.
LEMMA PassiveSteps ==
    ASSUME TypeInv, NEW u \in Workers,
           \/ \E r \in Requests : AnswerFromCache(u, r) \/ CommitLate(u, r) \/ Reserve(u, r)
           \/ \E i \in ApprovalIds : ServeGet(u, i)
           \/ Peek(u) \/ Turned(u) \/ Settle(u) \/ Persist(u) \/ Store(u)
           \/ \E o \in Outcomes, g \in Governance : ServeDecision(u, o, g)
           \/ \E g \in Governance : ServeVote(u, g) \/ ServeResume(u, g)
           \/ StoreFails(u) \/ Crash(u) \/ Restart(u)
           \/ Claim(u) /\ claims[ClaimOf(job[u].req)] # NoRecord
    PROVE  Passive(u)
<1>t. job \in [Workers -> JobType] /\ manager \in [Workers -> Seq(ApprovalRecord)]
  BY DEF TypeInv, TypeOK, JobType
<1>1. ASSUME NEW r, NEW x, Respond(u, r, x), UNCHANGED manager PROVE Passive(u)
  BY <1>1, <1>t DEF Respond, IdleJob, Passive, Operating
<1>2. ASSUME NEW step \in Steps \ Operating, NEW x, Continue(u, step, x),
             \A v \in Workers \ {u} : manager'[v] = manager[v]
      PROVE  Passive(u)
  BY <1>2, <1>t DEF Continue, JobType, Passive
<1>a. AfterOperation(u) \in Steps \ Operating
  BY DEF AfterOperation, Steps, Operating
<1>3. ASSUME NEW r \in Requests, AnswerFromCache(u, r) \/ CommitLate(u, r) PROVE Passive(u)
  BY <1>1, <1>3 DEF AnswerFromCache, CommitLate, memory
<1>4. ASSUME NEW r \in Requests, Reserve(u, r) PROVE Passive(u)
  <2>1. UNCHANGED manager
    BY <1>4 DEF Reserve
  <2>2. ASSUME NEW step \in {"serve", "peek"},
               job' = [job EXCEPT ![u] = [step |-> step, req |-> r,
                                          row |-> RowOf(r), response |-> NoRecord]]
        PROVE  Passive(u)
    BY <1>t, <2>1, <2>2 DEF Passive, Operating
  <2>3. ASSUME NEW x, Respond(u, r, x) PROVE Passive(u)
    BY <1>1, <2>1, <2>3
  <2> QED
    BY <1>4, <2>2, <2>3 DEF Reserve
<1>5. ASSUME NEW i \in ApprovalIds, ServeGet(u, i) PROVE Passive(u)
  BY <1>5, <1>t DEF ServeGet, Passive, JobType, Operating
<1>6. ASSUME Peek(u) \/ Turned(u) PROVE Passive(u)
  BY <1>1, <1>6 DEF Peek, Turned, memory
<1>7. ASSUME Settle(u) PROVE Passive(u)
  BY <1>2, <1>7, <1>a DEF Settle, memory
<1>8. ASSUME Persist(u) PROVE Passive(u)
  <2>1. "store" \in Steps \ Operating /\ UNCHANGED manager
    BY <1>8 DEF Persist, Steps, Operating
  <2> QED
    BY <1>1, <1>2, <1>8, <2>1 DEF Persist
<1>9. ASSUME Store(u) PROVE Passive(u)
  BY <1>1, <1>9 DEF Store, Hold
<1>10. ASSUME NEW o \in Outcomes, NEW g \in Governance, ServeDecision(u, o, g)
       PROVE  Passive(u)
  <2>1. {"store", "claim", "persist"} \subseteq Steps \ Operating
    BY DEF Steps, Operating
  <2>2. \A v \in Workers \ {u} : manager'[v] = manager[v]
    BY <1>10, <1>t DEF ServeDecision
  <2> QED
    BY <1>2, <1>10, <2>1, <2>2 DEF ServeDecision
<1>11. ASSUME NEW g \in Governance, ServeVote(u, g) PROVE Passive(u)
  <2>1. "persist" \in Steps \ Operating
    BY DEF Steps, Operating
  <2>2. \A v \in Workers \ {u} : manager'[v] = manager[v]
    BY <1>11, <1>t DEF ServeVote
  <2>3. \E x : Continue(u, "persist", x)
    BY <1>11 DEF ServeVote
  <2> QED
    BY <1>2, <2>1, <2>2, <2>3
<1>12. ASSUME NEW g \in Governance, ServeResume(u, g) PROVE Passive(u)
  <2>1. {"persist", "claim"} \subseteq Steps \ Operating
    BY DEF Steps, Operating
  <2>2. \A v \in Workers \ {u} : manager'[v] = manager[v]
    BY <1>12, <1>t DEF ServeResume
  <2>3. CASE job' = [job EXCEPT ![u].step = "store",
                                ![u].row = <<"decisions", job[u].req.key>>,
                                ![u].response = "forbidden"]
    BY <1>t, <2>2, <2>3 DEF Passive, JobType, Operating
  <2> QED
    BY <1>2, <1>12, <2>1, <2>2, <2>3 DEF ServeResume
<1>13. ASSUME StoreFails(u) PROVE Passive(u)
  BY <1>1, <1>2, <1>13, <1>a DEF StoreFails, Hold
<1>14. ASSUME Crash(u) \/ Restart(u) PROVE Passive(u)
  BY <1>14, <1>t DEF Crash, Restart, Passive, DownJob, IdleJob, Operating
<1>15. ASSUME Claim(u), claims[ClaimOf(job[u].req)] # NoRecord PROVE Passive(u)
  BY <1>2, <1>15, <1>a DEF Claim, memory
<1> QED
  BY <1>3, <1>4, <1>5, <1>6, <1>7, <1>8, <1>9, <1>10, <1>11, <1>12, <1>13, <1>14, <1>15

\* A job comes to operate by its claim, and to settle by operating.
LEMMA OperatingStep ==
    ASSUME TypeInv, [Next]_vars, NEW w \in Workers, job'[w].step \in Operating
    PROVE  \/ job'[w] = job[w] /\ job[w].step \in Operating /\ Subject(w)' = Subject(w)
           \/ Claim(w) /\ claims[ClaimOf(job[w].req)] = NoRecord
           \/ Operate(w)
<1>t. job \in [Workers -> JobType]
  BY DEF TypeInv, TypeOK, JobType
<1> DEFINE Same == job'[w] = job[w] /\ job[w].step \in Operating /\ Subject(w)' = Subject(w)
<1>1. ASSUME job'[w] = job[w], manager'[w] = manager[w] PROVE Same
  BY <1>1 DEF Subject
<1> HIDE DEF Same
<1>2. ASSUME NEW u \in Workers, Passive(u) PROVE Same
  BY <1>1, <1>2 DEF Passive
<1>3. ASSUME NEW u \in Workers, u # w, Claim(u) \/ Operate(u) PROVE Same
  BY <1>t, <1>1, <1>3 DEF Claim, Operate, Continue, memory
<1>4. ASSUME Next
      PROVE  \/ UNCHANGED <<job, manager>>
             \/ \E u \in Workers : Passive(u)
             \/ \E u \in Workers : Operate(u)
             \/ \E u \in Workers : Claim(u) /\ claims[ClaimOf(job[u].req)] = NoRecord
  <2>1. CASE Tick \/ \E id \in ClaimIds : Reconcile(id)
    BY <2>1 DEF Tick, Reconcile, memory
  <2>2. ASSUME NEW u \in Workers,
               \/ \E r \in Requests :
                     AnswerFromCache(u, r) \/ CommitLate(u, r) \/ Reserve(u, r)
               \/ \E i \in ApprovalIds : ServeGet(u, i)
               \/ StoreFails(u) \/ Crash(u) \/ Restart(u)
        PROVE  Passive(u)
    BY <2>2, PassiveSteps
  <2>3. ASSUME NEW u \in Workers, Work(u)
        PROVE  \/ Passive(u)
               \/ Operate(u)
               \/ Claim(u) /\ claims[ClaimOf(job[u].req)] = NoRecord
    BY <2>3, PassiveSteps DEF Work
  <2> QED
    BY <1>4, <2>1, <2>2, <2>3 DEF Next
<1>5. CASE UNCHANGED <<job, manager>>
  BY <1>1, <1>5 DEF Same
<1> QED
  BY <1>2, <1>3, <1>4, <1>5 DEF Same, vars, memory

\* Only operating has effects.
LEMMA EffectsChange ==
    ASSUME [Next]_vars
    PROVE  UNCHANGED effects \/ \E w \in Workers : Operate(w)
<1>1. ASSUME NEW w \in Workers, Work(w) PROVE UNCHANGED effects \/ Operate(w)
  BY <1>1 DEF Work, Peek, ServeDecision, Turned, ServeVote, ServeResume, Claim, Settle,
              Persist, Store
<1>2. ASSUME NEW w \in Workers,
             \/ \E r \in Requests : AnswerFromCache(w, r) \/ CommitLate(w, r) \/ Reserve(w, r)
             \/ \E i \in ApprovalIds : ServeGet(w, i)
             \/ StoreFails(w)
      PROVE  UNCHANGED effects
  BY <1>2 DEF AnswerFromCache, CommitLate, Reserve, ServeGet, StoreFails
<1>3. ASSUME NEW w \in Workers, Crash(w) \/ Restart(w) PROVE UNCHANGED effects
  BY <1>3 DEF Crash, Restart
<1>4. ASSUME Tick \/ \E id \in ClaimIds : Reconcile(id) PROVE UNCHANGED effects
  BY <1>4 DEF Tick, Reconcile
<1>5. ASSUME Next PROVE UNCHANGED effects \/ \E w \in Workers : Operate(w)
  BY <1>1, <1>2, <1>3, <1>4, <1>5 DEF Next
<1> QED
  BY <1>5 DEF vars

\* A claim stays one of its decision.
LEMMA ClaimKept ==
    ASSUME TypeInv, [Next]_vars, NEW id \in ClaimIds, claims[id] # NoRecord
    PROVE  claims'[id] # NoRecord /\ claims'[id].owner = claims[id].owner
<1>1. ClaimMoves(id) /\ claims'[id].owner = claims[id].owner
  BY ClaimsStep, SettledStays
<1>2. \A o \in Decisions, status \in {"succeeded", "unknown"} : Settled(o, status) # NoRecord
  <2>1. \A o \in Decisions, status \in {"succeeded", "unknown"} :
           Settled(o, status) \in ClaimRecord
    BY DEF Settled, ClaimRecord
  <2> QED
    BY <2>1, NoRecordAssumption
<1> QED
  BY <1>1, <1>2 DEF ClaimMoves

\* The job that operates: its claim, its decision, and what it does.
LEMMA OperatingJob ==
    ASSUME TypeInv, NEW w \in Workers, job[w].step \in ClaimSteps
    PROVE  /\ Subject(w) \in Decisions /\ ClaimOf(job[w].req) \in ClaimIds
           /\ ClaimOf(job[w].req) \in PlaceIds
           /\ Place(Subject(w), ClaimOf(job[w].req))
<1>1. job[w].req \in Requests /\ job[w].req.scope \in {"decisions", "resumes"}
  BY OwnedJob DEF ClaimSteps
<1> QED
  BY <1>1, SubjectType, RequestTypes, ClaimsAtPlace

\* What the handler changes.
LEMMA OperateDoes ==
    ASSUME TypeInv, NEW w \in Workers, Operate(w)
    PROVE  /\ job[w].step = "operate" /\ job'[w].step = "settle"
           /\ job'[w].req = job[w].req /\ Subject(w)' = Subject(w)
           /\ UNCHANGED <<claims, manager>>
           /\ \/ effects' = [effects EXCEPT ![Subject(w)] = effects[Subject(w)] + 1]
              \/ effects' = effects /\ job'[w].response = "uncertain"
<1>t. job \in [Workers -> JobType]
  BY DEF TypeInv, TypeOK, JobType
<1>1. \E x \in Results \cup {"uncertain"} : Continue(w, "settle", x)
  BY <1>t DEF Operate
<1>2. job'[w].step = "settle" /\ job'[w].req = job[w].req
  BY <1>t, <1>1 DEF Continue, JobType
<1>3. job[w].step = "operate" /\ UNCHANGED <<claims, manager>>
  BY DEF Operate, repository, memory
<1>4. Subject(w)' = Subject(w)
  BY <1>2, <1>3 DEF Subject
<1>5. \/ effects' = [effects EXCEPT ![Subject(w)] = effects[Subject(w)] + 1]
      \/ effects' = effects /\ job'[w].response = "uncertain"
  BY <1>t DEF Operate, Continue, JobType
<1> QED
  BY <1>2, <1>3, <1>4, <1>5

\* What a new claim changes.
LEMMA ClaimDoes ==
    ASSUME TypeInv, NEW w \in Workers, Claim(w), claims[ClaimOf(job[w].req)] = NoRecord
    PROVE  /\ job[w].step = "claim" /\ job'[w].step = "operate"
           /\ job'[w].req = job[w].req /\ Subject(w)' = Subject(w)
           /\ UNCHANGED <<effects, manager>>
           /\ claims' = [claims EXCEPT ![ClaimOf(job[w].req)] = Claimed(Subject(w))]
<1>t. job \in [Workers -> JobType]
  BY DEF TypeInv, TypeOK, JobType
<1>1. /\ Continue(w, "operate", NoRecord) /\ job[w].step = "claim"
      /\ UNCHANGED <<effects, manager>>
      /\ claims' = [claims EXCEPT ![ClaimOf(job[w].req)] = Claimed(Subject(w))]
  BY DEF Claim, memory
<1>2. job'[w].step = "operate" /\ job'[w].req = job[w].req
  BY <1>t, <1>1 DEF Continue, JobType
<1>3. Subject(w)' = Subject(w)
  BY <1>1, <1>2 DEF Subject
<1> QED
  BY <1>1, <1>2, <1>3

\* What is about to be claimed has no claim and has not been performed.
LEMMA Fresh ==
    ASSUME TypeInv, PlacesInv, EffectsInv, NEW w \in Workers, job[w].step = "claim",
           claims[ClaimOf(job[w].req)] = NoRecord
    PROVE  /\ \A id \in ClaimIds : claims[id] # NoRecord => claims[id].owner # Subject(w)
           /\ effects[Subject(w)] = 0
<1>1. ASSUME NEW id \in ClaimIds, claims[id] # NoRecord, claims[id].owner = Subject(w)
      PROVE  FALSE
  <2>1. /\ Subject(w) \in Decisions /\ ClaimOf(job[w].req) \in PlaceIds
        /\ Place(Subject(w), ClaimOf(job[w].req))
    BY OperatingJob DEF ClaimSteps
  <2>2. id \in PlaceIds
    BY RequestTypes DEF ClaimIds, PlaceIds, ApprovalIds
  <2>3. Place(Subject(w), id)
    BY <1>1 DEF Place
  <2>4. id = ClaimOf(job[w].req)
    BY <2>1, <2>2, <2>3 DEF PlacesInv
  <2> QED
    BY <1>1, <2>4
<1>2. Subject(w) \in Decisions
  BY OperatingJob DEF ClaimSteps
<1> QED
  BY <1>1, <1>2 DEF EffectsInv

\* An effect is one there was, or that of the job that operates.
LEMMA EffectMoves ==
    ASSUME TypeInv, EffectsInv, [Next]_vars, NEW d \in Decisions
    PROVE  \/ effects'[d] = effects[d]
           \/ /\ effects[d] = 0 /\ effects'[d] = 1
              /\ \E u \in Workers : Operate(u) /\ Subject(u) = d
<1>t. effects \in [Decisions -> Nat]
  BY DEF TypeInv, TypeOK
<1>1. CASE UNCHANGED effects
  BY <1>1
<1>2. ASSUME NEW u \in Workers, Operate(u)
      PROVE  \/ effects'[d] = effects[d]
             \/ effects[d] = 0 /\ effects'[d] = 1 /\ Subject(u) = d
  <2>1. job[u].step = "operate" /\ Subject(u) \in Decisions
    BY <1>2, OperateDoes, OperatingJob DEF ClaimSteps
  <2>2. effects[Subject(u)] = 0
    BY <2>1 DEF EffectsInv
  <2>3. effects' \in {effects, [effects EXCEPT ![Subject(u)] = 0 + 1]}
    BY <1>2, <2>2, OperateDoes
  <2> QED
    BY <1>t, <2>1, <2>2, <2>3
<1> QED
  BY <1>1, <1>2, EffectsChange

\* A claim comes to say "succeeded" by the result of a job that operated.
LEMMA SucceededStep ==
    ASSUME TypeInv, [Next]_vars, NEW id \in ClaimIds, claims'[id] # NoRecord,
           claims'[id].status = "succeeded"
    PROVE  \/ claims'[id] = claims[id]
           \/ \E w \in Workers : /\ job[w].step = "settle" /\ job[w].response \in Results
                                 /\ claims'[id].owner = Subject(w)
<1>t. claims \in [ClaimIds -> ClaimRecord \cup {NoRecord}]
  BY DEF TypeInv, TypeOK
<1>1. CASE UNCHANGED claims
  BY <1>1
<1>2. ASSUME NEW w \in Workers, Claim(w) PROVE claims'[id] = claims[id]
  <2>1. claims' \in {claims, [claims EXCEPT ![ClaimOf(job[w].req)] = Claimed(Subject(w))]}
    BY <1>2 DEF Claim
  <2>2. Claimed(Subject(w)).status # "succeeded"
    BY DEF Claimed
  <2> QED
    BY <1>t, <2>1, <2>2
<1>3. ASSUME NEW i \in ClaimIds, Reconcile(i) PROVE claims'[id] = claims[id]
  <2>1. claims' = [claims EXCEPT ![i] = Settled(claims[i].owner, "unknown")]
    BY <1>3 DEF Reconcile
  <2>2. Settled(claims[i].owner, "unknown").status # "succeeded"
    BY DEF Settled
  <2> QED
    BY <1>t, <2>1, <2>2
<1>4. ASSUME NEW w \in Workers, Settle(w)
      PROVE  \/ claims'[id] = claims[id]
             \/ /\ job[w].step = "settle" /\ job[w].response \in Results
                /\ claims'[id].owner = Subject(w)
  <2>1. \/ UNCHANGED claims
        \/ \E status \in {"succeeded", "unknown"} :
              /\ status = "succeeded" => job[w].response \in Results
              /\ claims' = [claims EXCEPT ![ClaimOf(job[w].req)] = Settled(Subject(w), status)]
    BY <1>4 DEF Settle
  <2>2. job[w].step = "settle"
    BY <1>4 DEF Settle
  <2>3. ASSUME NEW status \in {"succeeded", "unknown"},
               status = "succeeded" => job[w].response \in Results,
               claims' = [claims EXCEPT ![ClaimOf(job[w].req)] = Settled(Subject(w), status)],
               claims'[id] # claims[id]
        PROVE  job[w].response \in Results /\ claims'[id].owner = Subject(w)
    <3>1. claims'[id] = Settled(Subject(w), status)
      BY <1>t, <2>3
    <3> QED
      BY <2>3, <3>1 DEF Settled
  <2> QED
    BY <2>1, <2>2, <2>3
<1> QED
  BY <1>1, <1>2, <1>3, <1>4, ClaimsChange

\* Effects stay claimed and single.
LEMMA EffectsStep ==
    ASSUME TypeInv, PlacesInv, EffectsInv, [Next]_vars
    PROVE  EffectsInv'
<1>t. /\ claims \in [ClaimIds -> ClaimRecord \cup {NoRecord}]
      /\ effects \in [Decisions -> Nat] /\ job \in [Workers -> JobType]
  BY DEF TypeInv, TypeOK, JobType
<1>m. \A d \in Decisions : effects[d] = 1 => effects'[d] = 1
  BY EffectMoves
<1>w. ASSUME NEW w \in Workers, job[w].step \in Operating
      PROVE  /\ Subject(w) \in Decisions /\ ClaimOf(job[w].req) \in ClaimIds
             /\ claims[ClaimOf(job[w].req)] # NoRecord
             /\ claims[ClaimOf(job[w].req)].owner = Subject(w)
  BY <1>w, OperatingJob DEF EffectsInv, Operating, ClaimSteps
<1>c. ASSUME NEW w \in Workers, Claim(w), claims[ClaimOf(job[w].req)] = NoRecord
      PROVE  /\ Subject(w) \in Decisions /\ effects[Subject(w)] = 0
             /\ ClaimOf(job[w].req) \in ClaimIds
             /\ \A id \in ClaimIds : claims[id] # NoRecord => claims[id].owner # Subject(w)
  BY <1>c, ClaimDoes, OperatingJob, Fresh DEF ClaimSteps
<1>1. ASSUME NEW d \in Decisions, effects'[d] # 0
      PROVE  /\ effects'[d] = 1
             /\ \E id \in ClaimIds : claims'[id] # NoRecord /\ claims'[id].owner = d
  <2>1. CASE effects'[d] = effects[d]
    <3>1. /\ effects[d] = 1
          /\ \E id \in ClaimIds : claims[id] # NoRecord /\ claims[id].owner = d
      BY <1>1, <2>1 DEF EffectsInv
    <3> QED
      BY <2>1, <3>1, ClaimKept
  <2>2. ASSUME NEW u \in Workers, Operate(u), Subject(u) = d
        PROVE  \E id \in ClaimIds : claims'[id] # NoRecord /\ claims'[id].owner = d
    BY <1>w, <2>2, OperateDoes, ClaimKept DEF Operating
  <2> QED
    BY <2>1, <2>2, EffectMoves
<1>2. ASSUME NEW w \in Workers, job'[w].step \in Operating
      PROVE  /\ claims'[ClaimOf(job[w].req)'] # NoRecord
             /\ claims'[ClaimOf(job[w].req)'].owner = Subject(w)'
  <2>1. CASE job'[w].req = job[w].req /\ job[w].step \in Operating /\ Subject(w)' = Subject(w)
    <3>1. ClaimOf(job[w].req)' = ClaimOf(job[w].req)
      BY <2>1 DEF ClaimOf
    <3> QED
      BY <1>w, <2>1, <3>1, ClaimKept
  <2>2. CASE Claim(w) /\ claims[ClaimOf(job[w].req)] = NoRecord
    <3>1. ClaimOf(job[w].req)' = ClaimOf(job[w].req) /\ Subject(w)' = Subject(w)
      BY <2>2, ClaimDoes DEF ClaimOf
    <3>2. claims'[ClaimOf(job[w].req)] = Claimed(Subject(w))
      BY <1>t, <1>c, <2>2, ClaimDoes
    <3>3. Claimed(Subject(w)) \in ClaimRecord
      BY <1>c, <2>2 DEF Claimed, ClaimRecord
    <3> QED
      BY <3>1, <3>2, <3>3, NoRecordAssumption DEF Claimed
  <2>3. CASE Operate(w)
    BY <2>1, <2>3, OperateDoes DEF Operating
  <2> QED
    BY <1>2, <2>1, <2>2, <2>3, OperatingStep
<1>3. ASSUME NEW w \in Workers, job'[w].step = "operate"
      PROVE  effects'[Subject(w)'] = 0
  <2>1. CASE job'[w] = job[w] /\ job[w].step \in Operating /\ Subject(w)' = Subject(w)
    <3>1. Subject(w) \in Decisions /\ effects[Subject(w)] = 0
      BY <1>3, <1>w, <2>1 DEF EffectsInv
    <3>2. ASSUME NEW u \in Workers, Operate(u), Subject(u) = Subject(w) PROVE FALSE
      <4>1. job[u].step \in Operating /\ job'[u].step = "settle"
        BY <3>2, OperateDoes DEF Operating
      <4>2. u = w
        BY <2>1, <3>2, <4>1 DEF EffectsInv
      <4> QED
        BY <1>3, <4>1, <4>2
    <3> QED
      BY <2>1, <3>1, <3>2, EffectMoves
  <2>2. CASE Claim(w) /\ claims[ClaimOf(job[w].req)] = NoRecord
    BY <1>c, <2>2, ClaimDoes
  <2>3. CASE Operate(w)
    BY <1>3, <2>3, OperateDoes
  <2> QED
    BY <1>3, <2>1, <2>2, <2>3, OperatingStep DEF Operating
<1>4. ASSUME NEW w \in Workers, NEW v \in Workers, job'[w].step \in Operating,
             job'[v].step \in Operating, Subject(w)' = Subject(v)'
      PROVE  w = v
  <2> DEFINE Was(x) == job[x].step \in Operating /\ Subject(x)' = Subject(x)
             New(x) == Claim(x) /\ claims[ClaimOf(job[x].req)] = NoRecord
  <2>1. \A x \in Workers : job'[x].step \in Operating => Was(x) \/ New(x)
    BY OperatingStep, OperateDoes DEF Operating
  <2>2. \A x \in Workers : New(x) => Subject(x)' = Subject(x) /\ job[x].step = "claim"
    BY ClaimDoes
  <2>3. ASSUME NEW x \in Workers, NEW y \in Workers, New(x), Was(y) PROVE Subject(x) # Subject(y)
    BY <1>w, <1>c, <2>3
  <2>4. ASSUME New(w), New(v), w # v PROVE FALSE
    <3>1. job'[v] = job[v]
      BY <1>t, <2>4 DEF Claim, Continue
    <3> QED
      BY <1>4, <2>2, <2>4, <3>1 DEF Operating
  <2>5. CASE Was(w) /\ Was(v)
    BY <1>4, <2>5 DEF EffectsInv
  <2> QED
    BY <1>4, <2>1, <2>2, <2>3, <2>4, <2>5
<1>5. ASSUME NEW w \in Workers, job'[w].step = "settle", job'[w].response \in Results
      PROVE  effects'[Subject(w)'] = 1
  <2>1. CASE job'[w] = job[w] /\ job[w].step \in Operating /\ Subject(w)' = Subject(w)
    BY <1>5, <1>m, <1>w, <2>1 DEF EffectsInv
  <2>2. CASE Claim(w) /\ claims[ClaimOf(job[w].req)] = NoRecord
    BY <1>5, <2>2, ClaimDoes
  <2>3. CASE Operate(w)
    <3>1. /\ job[w].step = "operate" /\ Subject(w)' = Subject(w)
          /\ effects' = [effects EXCEPT ![Subject(w)] = effects[Subject(w)] + 1]
      BY <1>5, <2>3, OperateDoes DEF Results
    <3>2. Subject(w) \in Decisions /\ effects[Subject(w)] = 0
      BY <1>w, <3>1 DEF EffectsInv, Operating
    <3> QED
      BY <1>t, <3>1, <3>2
  <2> QED
    BY <1>5, <2>1, <2>2, <2>3, OperatingStep DEF Operating
<1>6. ASSUME NEW id \in ClaimIds, claims'[id] # NoRecord, claims'[id].status = "succeeded"
      PROVE  effects'[claims'[id].owner] = 1
  <2>1. CASE claims'[id] = claims[id]
    <3>1. claims[id].owner \in Decisions /\ effects[claims[id].owner] = 1
      BY <1>6, <1>t, <2>1 DEF EffectsInv, ClaimRecord
    <3> QED
      BY <1>m, <2>1, <3>1
  <2>2. ASSUME NEW w \in Workers, job[w].step = "settle", job[w].response \in Results,
               claims'[id].owner = Subject(w)
        PROVE  effects'[Subject(w)] = 1
    BY <1>m, <1>w, <2>2 DEF EffectsInv, Operating
  <2> QED
    BY <1>6, <2>1, <2>2, SucceededStep
<1> QED
  BY <1>1, <1>2, <1>3, <1>4, <1>5, <1>6 DEF EffectsInv

\* What makes operations claimed and single, for any number of workers.
OperationsInv == TypeInv /\ OwnersInv /\ PlacesInv /\ EffectsInv

\* Every step keeps it.
LEMMA OperationsInductive == OperationsInv /\ [Next]_vars => OperationsInv'
  BY TypeInductive, OwnersStep, PlacesStep, EffectsStep DEF OperationsInv

\* Nothing is served, claimed or performed at the start.
LEMMA OperationsInitially == Init => OperationsInv
<1> SUFFICES ASSUME Init PROVE OperationsInv
  OBVIOUS
<1>1. TypeInv
  BY TypeInitially
<1>2. /\ \A w \in Workers : job[w].step = "idle"
      /\ \A w \in Workers, id \in RowIds : uncommitted[w][id] = NoRecord
      /\ \A id \in ClaimIds : claims[id] = NoRecord
      /\ \A d \in Decisions : effects[d] = 0
      /\ \A w \in Workers : DOMAIN manager[w] = {}
      /\ DOMAIN Committed = {}
  BY DEF Init, IdleJob, NothingUncommitted, Committed, NothingSaved, SavedState
<1>3. OwnersInv
  BY <1>2 DEF OwnersInv, Owns, OwningSteps
<1>4. PlacesInv
  <2>1. \A d, id : ~Place(d, id)
    BY <1>2 DEF Place, At, ClaimSteps
  <2> QED
    BY <2>1 DEF PlacesInv
<1>5. EffectsInv
  BY <1>2 DEF EffectsInv, Operating
<1> QED
  BY <1>1, <1>3, <1>4, <1>5 DEF OperationsInv

\* No operation is performed without a claim an operator can find, none is
\* claimed twice, and a claim that says "succeeded" is of one that was performed,
\* whatever crashes, retries and failed transactions come in between.
THEOREM OperationsAreClaimed == Spec => []EffectsAreClaimed
<1>1. OperationsInv => EffectsAreClaimed
  <2> SUFFICES ASSUME OperationsInv PROVE EffectsAreClaimed
    OBVIOUS
  <2> USE DEF OperationsInv
  <2>1. ASSUME NEW d \in Decisions
        PROVE  LET own == {id \in ClaimIds : claims[id] # NoRecord /\ claims[id].owner = d}
               IN  Cardinality(own) <= 1 /\ effects[d] <= Cardinality(own)
    <3> DEFINE own == {id \in ClaimIds : claims[id] # NoRecord /\ claims[id].owner = d}
    <3> SUFFICES Cardinality(own) <= 1 /\ effects[d] <= Cardinality(own)
      OBVIOUS
    <3>1. \A a, b \in own : a = b
      <4>1. ClaimIds \subseteq PlaceIds
        BY RequestTypes DEF ClaimIds, PlaceIds, ApprovalIds
      <4>2. \A a \in own : a \in PlaceIds /\ Place(d, a)
        BY <4>1 DEF Place
      <4> QED
        BY <4>2 DEF PlacesInv
    <3>2. effects[d] \in {0, 1} /\ (effects[d] = 1 => own # {})
      BY DEF EffectsInv
    <3> HIDE DEF own
    <3>3. CASE own = {}
      BY <3>2, <3>3, FS_EmptySet
    <3>4. CASE own # {}
      <4>1. PICK a : own = {a}
        BY <3>1, <3>4
      <4>2. Cardinality(own) = 1
        BY <4>1, FS_Singleton
      <4> QED
        BY <3>2, <4>2
    <3> QED
      BY <3>3, <3>4
  <2>2. \A id \in ClaimIds : claims[id] # NoRecord /\ claims[id].status = "succeeded" =>
           effects[claims[id].owner] = 1
    BY DEF EffectsInv
  <2> QED
    BY <2>1, <2>2 DEF EffectsAreClaimed
<1> QED
  BY <1>1, OperationsInitially, OperationsInductive, PTL DEF Spec

-----------------------------------------------------------------------------
(* Answers: what is said of a decision is true of it.                       *)

\* The job of w is about to answer d with x.
Says(w, d, x) ==
    job[w].step \in {"persist", "store"} /\ job[w].req = d /\ job[w].response = x

\* w finds its answer to d.
Concludes(w, d, x) ==
    /\ job[w].req = d
    /\ \/ job[w].step = "serve" /\ job'[w].step = "store" /\ x = "refused"
       \/ job[w].step = "serve" /\ x = "escalated"
       \/ job[w].step \in ClaimSteps /\ x = "uncertain"
       \/ job[w].step = "settle" /\ job[w].response \in Results /\ x = job[w].response

\* A job has the answer it had, or has just found it.
LEMMA SaysStep ==
    ASSUME TypeInv, [Next]_vars, NEW w \in Workers, NEW d \in Decisions, NEW x,
           Says(w, d, x)'
    PROVE  Says(w, d, x) \/ Concludes(w, d, x)
<1> DEFINE Goal == Says(w, d, x) \/ Concludes(w, d, x)
<1>t. job \in [Workers -> JobType]
  BY DEF TypeInv, TypeOK, JobType
<1>d. d \in Requests /\ d.scope = "decisions" /\ d \notin Gets
  BY RequestTypes DEF Decisions, Gets, Get
<1>0. ASSUME job'[w] = job[w] PROVE Goal
  BY <1>0 DEF Says
<1>1. ASSUME NEW r, NEW y, Respond(w, r, y) PROVE FALSE
  <2>1. job'[w].step = "idle"
    BY <1>t, <1>1 DEF Respond, IdleJob
  <2> QED
    BY <2>1 DEF Says
<1>2. ASSUME NEW step, NEW y, Continue(w, step, y)
      PROVE  /\ job'[w].step = step /\ step \in {"persist", "store"}
             /\ job[w].req = d /\ y = x
  <2>1. job'[w].step = step /\ job'[w].response = y /\ job'[w].req = job[w].req
    BY <1>t, <1>2 DEF Continue, JobType
  <2> QED
    BY <2>1 DEF Says
<1>3. ASSUME NEW r \in Requests, Reserve(w, r) PROVE FALSE
  <2>1. ASSUME NEW step \in {"serve", "peek"},
               job' = [job EXCEPT ![w] = [step |-> step, req |-> r,
                                          row |-> RowOf(r), response |-> NoRecord]]
        PROVE  FALSE
    BY <1>t, <2>1 DEF Says
  <2> QED
    BY <1>1, <1>3, <2>1 DEF Reserve
<1>4. ASSUME NEW i \in ApprovalIds, ServeGet(w, i) PROVE FALSE
  <2>1. job'[w].req = Get(i)
    BY <1>t, <1>4 DEF ServeGet, JobType
  <2> QED
    BY <1>d, <2>1 DEF Says, Gets
<1>5. ASSUME Crash(w) \/ Restart(w) PROVE FALSE
  BY <1>t, <1>5 DEF Crash, Restart, DownJob, IdleJob, Says
<1>6. ASSUME NEW o \in Outcomes, NEW g \in Governance, ServeDecision(w, o, g) PROVE Goal
  <2>1. job[w].step = "serve"
    BY <1>6 DEF ServeDecision
  <2>2. \/ Continue(w, "store", "refused")
        \/ Continue(w, "claim", NoRecord)
        \/ Continue(w, "persist", "escalated")
    BY <1>6 DEF ServeDecision
  <2> QED
    BY <1>2, <2>1, <2>2 DEF Concludes
<1>7. ASSUME NEW g \in Governance, ServeVote(w, g) \/ ServeResume(w, g) PROVE FALSE
  <2>1. job[w].req.scope # "decisions"
    BY <1>7 DEF ServeVote, ServeResume, Admitted
  <2>2. job'[w].req = job[w].req
    <3>1. \/ \E y : Continue(w, "persist", y) \/ Continue(w, "claim", y)
          \/ job' = [job EXCEPT ![w].step = "store",
                                ![w].row = <<"decisions", job[w].req.key>>,
                                ![w].response = "forbidden"]
      BY <1>7 DEF ServeVote, ServeResume
    <3> QED
      BY <1>t, <3>1 DEF Continue, JobType
  <2> QED
    BY <1>d, <2>1, <2>2 DEF Says
<1>8. ASSUME Claim(w) PROVE Goal
  <2>1. job[w].step = "claim"
    BY <1>8 DEF Claim
  <2>2. Continue(w, "operate", NoRecord) \/ Continue(w, AfterOperation(w), "uncertain")
    BY <1>8 DEF Claim
  <2> QED
    BY <1>2, <2>1, <2>2 DEF Concludes, ClaimSteps
<1>9. ASSUME Operate(w) PROVE FALSE
  BY <1>2, <1>9 DEF Operate
<1>10. ASSUME Settle(w) PROVE Goal
  <2>1. job[w].step = "settle" /\ job[w].response \in Results \cup {"uncertain"}
    BY <1>10, OwnedJob DEF Settle
  <2>2. \/ Continue(w, AfterOperation(w), job[w].response)
        \/ Continue(w, AfterOperation(w), "uncertain")
    BY <1>10 DEF Settle
  <2>3. job[w].req = d /\ (x = job[w].response \/ x = "uncertain")
    BY <1>2, <2>2
  <2> QED
    BY <2>1, <2>3 DEF Concludes, ClaimSteps
<1>11. ASSUME Persist(w) PROVE Goal
  <2>1. job[w].step = "persist"
    BY <1>11 DEF Persist
  <2>2. \/ Respond(w, job[w].req, job[w].response)
        \/ Respond(w, job[w].req, "state_conflict")
        \/ Continue(w, "store", job[w].response)
    BY <1>11 DEF Persist
  <2>3. job[w].req = d /\ x = job[w].response
    BY <1>1, <1>2, <2>2
  <2> QED
    BY <2>1, <2>3 DEF Says
<1>12. ASSUME Store(w) PROVE FALSE
  BY <1>1, <1>12 DEF Store, Hold
<1>13. ASSUME StoreFails(w) PROVE Goal
  <2>1. \/ job[w].step \in {"claim", "settle"} /\ Continue(w, AfterOperation(w), "uncertain")
        \/ \E r, y : Respond(w, r, y)
    BY <1>13 DEF StoreFails, Hold
  <2> QED
    BY <1>1, <1>2, <2>1 DEF Concludes, ClaimSteps
<1>14. ASSUME NEW r \in Requests, AnswerFromCache(w, r) \/ CommitLate(w, r) PROVE FALSE
  BY <1>1, <1>14 DEF AnswerFromCache, CommitLate
<1>15. ASSUME Peek(w) \/ Turned(w) PROVE FALSE
  BY <1>1, <1>15 DEF Peek, Turned
<1> HIDE DEF Goal
<1>16. ASSUME NEW u \in Workers, u # w, Passive(u) PROVE Goal
  BY <1>0, <1>16 DEF Passive
<1>17. ASSUME NEW u \in Workers, u # w, Claim(u) \/ Operate(u) PROVE Goal
  BY <1>t, <1>0, <1>17 DEF Claim, Operate, Continue
<1>18. ASSUME NEW u \in Workers, Work(u) PROVE Goal
  <2>1. CASE u # w
    BY <1>16, <1>17, <1>18, <2>1, PassiveSteps DEF Work
  <2>2. CASE u = w
    BY <1>6, <1>7, <1>8, <1>9, <1>10, <1>11, <1>12, <1>15, <1>18, <2>2 DEF Work
  <2> QED
    BY <2>1, <2>2
<1>19. ASSUME NEW u \in Workers,
              \/ \E r \in Requests : AnswerFromCache(u, r) \/ CommitLate(u, r) \/ Reserve(u, r)
              \/ \E i \in ApprovalIds : ServeGet(u, i)
              \/ StoreFails(u) \/ Crash(u) \/ Restart(u)
       PROVE  Goal
  <2>1. CASE u # w
    BY <1>16, <1>19, <2>1, PassiveSteps
  <2>2. CASE u = w
    BY <1>3, <1>4, <1>5, <1>13, <1>14, <1>19, <2>2
  <2> QED
    BY <2>1, <2>2
<1>20. ASSUME Tick \/ (\E id \in ClaimIds : Reconcile(id)) \/ UNCHANGED job PROVE Goal
  BY <1>0, <1>20 DEF Tick, Reconcile
<1> QED
  BY <1>18, <1>19, <1>20 DEF Next, vars, Goal

\* An answer x to d, final or on its way to be.
Source(d, x) ==
    \/ Answered(d) /\ Answer(d) = x
    \/ \E w \in Workers, id \in RowIds : /\ uncommitted[w][id] # NoRecord
                                          /\ uncommitted[w][id].request = d
                                          /\ uncommitted[w][id].response = x
    \/ \E w \in Workers : Says(w, d, x)

\* Answers do not lie: of an operation that was refused there is no place to be
\* performed, and of one that is uncertain none where it may still be.
AnswersInv ==
    \A d \in Decisions : \A x : Source(d, x) =>
        /\ x \in Results \cup {"refused", "escalated", "uncertain"}
        /\ x \in Results => effects[d] = 1
        /\ x = "refused" => \A a \in PlaceIds : ~Place(d, a)
        /\ x = "uncertain" => \A i \in Nat : ~Place(d, <<"approval", i>>)

\* The answers of one step come from those of the last.
LEMMA SourceStep ==
    ASSUME TypeInv, RowsKeyed, [Next]_vars, NEW d \in Decisions, NEW x, Source(d, x)'
    PROVE  Source(d, x) \/ \E w \in Workers : Concludes(w, d, x)
<1> DEFINE Goal == Source(d, x) \/ \E w \in Workers : Concludes(w, d, x)
<1>t. /\ rows \in [RowIds -> RowRecord \cup {NoRecord}]
      /\ uncommitted \in [Workers -> [RowIds -> Draft \cup {NoRecord}]]
  BY DEF TypeInv, TypeOK
<1>d. d \in Requests /\ RowOf(d) \in RowIds
  BY RequestTypes DEF Decisions
<1>1. ASSUME Answered(d)', Answer(d)' = x PROVE Source(d, x)
  <2>0. /\ rows'[RowOf(d)] # NoRecord /\ rows'[RowOf(d)].request = d
        /\ rows'[RowOf(d)].status = "complete" /\ rows'[RowOf(d)].response = x
    BY <1>1 DEF Answered, Answer, RowOf
  <2>1. CASE rows'[RowOf(d)] = rows[RowOf(d)]
    BY <2>0, <2>1 DEF Source, Answered, Answer
  <2>2. ASSUME NEW w \in Workers, NEW r \in Requests, CommitLate(w, r),
               rows'[RowOf(d)] # rows[RowOf(d)]
        PROVE  Source(d, x)
    <3>1. /\ uncommitted[w][RowOf(r)].request = r /\ uncommitted[w][RowOf(r)] # NoRecord
          /\ rows' = [rows EXCEPT ![RowOf(r)] =
                         Completed(r, uncommitted[w][RowOf(r)].response)]
      BY <2>2 DEF CommitLate
    <3>2. rows'[RowOf(d)] = Completed(r, uncommitted[w][RowOf(r)].response)
      BY <1>d, <1>t, <2>2, <3>1
    <3>3. r = d /\ uncommitted[w][RowOf(r)].response = x
      BY <2>0, <3>2 DEF Completed
    <3> QED
      BY <1>d, <3>1, <3>3 DEF Source
  <2>3. ASSUME NEW w \in Workers, NEW r \in Requests, Reserve(w, r),
               rows'[RowOf(d)] # rows[RowOf(d)]
        PROVE  FALSE
    <3>1. rows' = [rows EXCEPT ![RowOf(r)] = Reserved(r)]
      BY <2>3 DEF Reserve
    <3>2. rows'[RowOf(d)] = Reserved(r)
      BY <1>d, <1>t, <2>3, <3>1
    <3> QED
      BY <2>0, <3>2 DEF Reserved
  <2>4. ASSUME NEW w \in Workers, Store(w), rows'[RowOf(d)] # rows[RowOf(d)]
        PROVE  Source(d, x)
    <3>1. /\ job[w].step = "store"
          /\ rows' = [rows EXCEPT ![job[w].row] = Completed(job[w].req, job[w].response)]
      BY <2>4 DEF Store, Hold
    <3>2. rows'[RowOf(d)] = Completed(job[w].req, job[w].response)
      BY <1>d, <1>t, <2>4, <3>1
    <3>3. job[w].req = d /\ job[w].response = x
      BY <2>0, <3>2 DEF Completed
    <3> QED
      BY <3>1, <3>3 DEF Source, Says
  <2> QED
    BY <2>1, <2>2, <2>3, <2>4, RowsChange
<1>2. ASSUME NEW w \in Workers, NEW id \in RowIds,
             uncommitted'[w][id] # NoRecord, uncommitted'[w][id].request = d,
             uncommitted'[w][id].response = x
      PROVE  Source(d, x)
  <2>1. CASE uncommitted'[w][id] = uncommitted[w][id]
    BY <1>2, <2>1 DEF Source
  <2>2. CASE Holds(w, id)
    BY <1>2, <2>2 DEF Holds, Source, Says
  <2> QED
    BY <1>2, <2>1, <2>2, HeldStep
<1>3. ASSUME NEW w \in Workers, Says(w, d, x)' PROVE Goal
  BY <1>3, SaysStep DEF Source
<1> QED
  BY <1>1, <1>2, <1>3 DEF Source

\* A decision that has an answer is at none of the steps before it.
LEMMA AnsweredJob ==
    ASSUME TypeInv, RowsKeyed, OwnersInv, NEW d \in Decisions, NEW x, Source(d, x),
           NEW w \in Workers, job[w].req = d
    PROVE  job[w].step \notin {"serve", "claim", "operate", "settle"}
<1> SUFFICES ASSUME job[w].step \in {"serve", "claim", "operate", "settle"} PROVE FALSE
  OBVIOUS
<1>1. Owns(w, d) /\ d \in Requests
  BY DEF Owns, OwningSteps, Decisions
<1>2. CASE Answered(d)
  BY <1>1, <1>2 DEF OwnersInv, Answered
<1>3. ASSUME NEW v \in Workers, NEW id \in RowIds, uncommitted[v][id] # NoRecord,
             uncommitted[v][id].request = d
      PROVE  FALSE
  BY <1>1, <1>3 DEF OwnersInv
<1>4. ASSUME NEW v \in Workers, Says(v, d, x) PROVE FALSE
  <2>1. Owns(v, d)
    BY <1>4 DEF Says, Owns, OwningSteps
  <2>2. v = w
    BY <1>1, <2>1 DEF OwnersInv
  <2> QED
    BY <1>4, <2>2 DEF Says
<1> QED
  BY <1>2, <1>3, <1>4 DEF Source

\* Answers stay true.
LEMMA AnswersStep ==
    ASSUME TypeInv, RowsKeyed, OwnersInv, PlacesInv, EffectsInv, AnswersInv, [Next]_vars
    PROVE  AnswersInv'
<1>m. \A d \in Decisions : effects[d] = 1 => effects'[d] = 1
  BY EffectMoves
<1>p. \A i \in Nat : <<"approval", i>> \in PlaceIds
  BY DEF PlaceIds
<1>1. ASSUME NEW d \in Decisions, NEW x, Source(d, x)
      PROVE  /\ x \in Results \cup {"refused", "escalated", "uncertain"}
             /\ x \in Results => effects'[d] = 1
             /\ x = "refused" => \A a \in PlaceIds : ~Place(d, a)'
             /\ x = "uncertain" => \A i \in Nat : ~Place(d, <<"approval", i>>)'
  <2>1. \A v \in Workers : \A a : ~Opens(v, d, a)
    BY <1>1, AnsweredJob DEF Opens
  <2>2. \A a \in PlaceIds : Place(d, a)' => Place(d, a)
    BY <2>1, PlaceStep
  <2> QED
    BY <1>1, <1>m, <1>p, <2>2 DEF AnswersInv
<1>2. ASSUME NEW d \in Decisions, NEW x, NEW w \in Workers, Concludes(w, d, x)
      PROVE  /\ x \in Results \cup {"refused", "escalated", "uncertain"}
             /\ x \in Results => effects'[d] = 1
  <2>1. x \in Results \cup {"refused", "escalated", "uncertain"}
    BY <1>2 DEF Concludes
  <2>2. CASE x \in Results
    <3>1. job[w].step = "settle" /\ job[w].response \in Results /\ job[w].req = d
      BY <1>2, <2>2 DEF Concludes, Results
    <3>2. Subject(w) = d
      BY <3>1 DEF Subject, Decisions
    <3> QED
      BY <1>m, <2>1, <3>1, <3>2 DEF EffectsInv
  <2> QED
    BY <2>1, <2>2
<1>3. ASSUME NEW d \in Decisions, NEW w \in Workers, Concludes(w, d, "refused"),
             NEW a \in PlaceIds, Place(d, a)'
      PROVE  FALSE
  <2>1. job[w].step = "serve" /\ job'[w].step = "store" /\ job[w].req = d
    BY <1>3 DEF Concludes, ClaimSteps, Results
  <2>2. ~Place(d, a)
    BY <2>1 DEF PlacesInv
  <2>3. PICK v \in Workers : Opens(v, d, a)
    BY <1>3, <2>2, PlaceStep
  <2>4. v = w
    BY <2>1, <2>3 DEF Opens, OwnersInv, Owns, OwningSteps, Decisions
  <2> QED
    BY <2>1, <2>3, <2>4 DEF Opens
<1>4. ASSUME NEW d \in Decisions, NEW w \in Workers, Concludes(w, d, "uncertain"),
             NEW i \in Nat, Place(d, <<"approval", i>>)'
      PROVE  FALSE
  <2>1. job[w].step \in ClaimSteps /\ job[w].req = d
    BY <1>4 DEF Concludes, ClaimSteps, Results
  <2>2. <<"decision", d.key>> \in PlaceIds /\ Place(d, <<"decision", d.key>>)
    BY <2>1, RequestTypes DEF Place, PlaceIds, Decisions
  <2>3. ~Place(d, <<"approval", i>>)
    BY <1>p, <2>2 DEF PlacesInv
  <2>4. PICK v \in Workers : Opens(v, d, <<"approval", i>>)
    BY <1>4, <1>p, <2>3, PlaceStep
  <2>5. v = w
    BY <2>1, <2>4 DEF Opens, OwnersInv, Owns, OwningSteps, ClaimSteps, Decisions
  <2> QED
    BY <2>1, <2>4, <2>5 DEF Opens, ClaimSteps
<1>5. ASSUME NEW d \in Decisions, NEW x, Source(d, x)'
      PROVE  /\ x \in Results \cup {"refused", "escalated", "uncertain"}
             /\ x \in Results => effects'[d] = 1
             /\ x = "refused" => \A a \in PlaceIds : ~Place(d, a)'
             /\ x = "uncertain" => \A i \in Nat : ~Place(d, <<"approval", i>>)'
  <2>1. CASE Source(d, x)
    BY <1>1, <2>1
  <2>2. ASSUME NEW w \in Workers, Concludes(w, d, x)
        PROVE  /\ x \in Results \cup {"refused", "escalated", "uncertain"}
               /\ x \in Results => effects'[d] = 1
               /\ x = "refused" => \A a \in PlaceIds : ~Place(d, a)'
               /\ x = "uncertain" => \A i \in Nat : ~Place(d, <<"approval", i>>)'
    BY <1>2, <1>3, <1>4, <2>2
  <2> QED
    BY <1>5, <2>1, <2>2, SourceStep
<1> QED
  BY <1>5 DEF AnswersInv

\* A step changes one row at most.
LEMMA OneRow ==
    ASSUME TypeInv, [Next]_vars, NEW a \in RowIds, NEW b \in RowIds,
           rows'[a] # rows[a], rows'[b] # rows[b]
    PROVE  a = b
<1>t. rows \in [RowIds -> RowRecord \cup {NoRecord}]
  BY DEF TypeInv, TypeOK
<1>1. ASSUME NEW id, NEW row, rows' = [rows EXCEPT ![id] = row] PROVE a = b
  BY <1>t, <1>1
<1>2. ASSUME NEW w \in Workers, NEW r \in Requests, CommitLate(w, r) \/ Reserve(w, r)
      PROVE  \/ UNCHANGED rows
             \/ \E id, row : rows' = [rows EXCEPT ![id] = row]
  BY <1>2 DEF CommitLate, Reserve
<1>3. ASSUME NEW w \in Workers, Store(w)
      PROVE  \/ UNCHANGED rows
             \/ \E id, row : rows' = [rows EXCEPT ![id] = row]
  BY <1>3 DEF Store, Hold
<1> QED
  BY <1>1, <1>2, <1>3, RowsChange

\* The final answers.
Verdict == [d \in Decisions |-> IF Answered(d) THEN Answer(d) ELSE NoRecord]

\* What is performed is undecided, or escalated.
LEMMA OperateRuns ==
    ASSUME TypeInv, RowsKeyed, OwnersInv, PlacesInv, EffectsInv, AnswersInv,
           NEW w \in Workers, job[w].step = "operate", Answered(Subject(w))
    PROVE  Answer(Subject(w)) = "escalated"
<1> DEFINE d == Subject(w)
           x == Answer(Subject(w))
<1>1. /\ d \in Decisions /\ job[w].req \in Requests
      /\ ClaimOf(job[w].req) \in PlaceIds /\ Place(d, ClaimOf(job[w].req))
  BY OperatingJob, SubjectType DEF ClaimSteps
<1>2. Source(d, x)
  BY DEF Source
<1>3. effects[d] = 0
  BY DEF EffectsInv
<1>4. x # "uncertain"
  <2>1. CASE job[w].req.scope = "decisions"
    <3>1. job[w].req = d
      BY <2>1 DEF Subject
    <3> QED
      BY <1>1, <1>2, <3>1, AnsweredJob
  <2>2. CASE job[w].req.scope = "resumes"
    <3>1. ClaimOf(job[w].req) = <<"approval", job[w].req.approval>>
      BY <2>2 DEF ClaimOf
    <3>2. job[w].req.approval \in Nat
      BY <1>1, <2>2, RequestTypes
    <3> QED
      BY <1>1, <1>2, <3>1, <3>2 DEF AnswersInv
  <2> QED
    BY <2>1, <2>2, OwnedJob DEF ClaimSteps
<1> HIDE DEF d, x
<1>5. x # "refused" /\ x \in {"escalated", "uncertain"}
  BY <1>1, <1>2, <1>3 DEF AnswersInv
<1> QED
  BY <1>4, <1>5 DEF x

\* A step runs an operation, decides one, or neither.
LEMMA ImplementsStep ==
    ASSUME TypeInv, RowsKeyed, OwnersInv, PlacesInv, EffectsInv, AnswersInv, [Next]_vars,
           TypeInv', EffectsInv', AnswersInv'
    PROVE  \/ \E d \in Decisions :
                 /\ effects[d] = 0
                 /\ Verdict[d] \in {NoRecord, "escalated"}
                 /\ effects' = [effects EXCEPT ![d] = 1]
                 /\ Verdict' = Verdict
           \/ \E d \in Decisions, x \in {"executed", "refused", "escalated", "uncertain"} :
                 /\ Verdict[d] = NoRecord
                 /\ x = "executed" => effects[d] = 1
                 /\ x = "refused" => effects[d] = 0
                 /\ Verdict' = [Verdict EXCEPT ![d] = x]
                 /\ effects' = effects
           \/ effects' = effects /\ Verdict' = Verdict
<1>t. effects \in [Decisions -> Nat]
  BY DEF TypeInv, TypeOK
<1>1. ASSUME NEW w \in Workers, Operate(w)
      PROVE  \/ /\ effects[Subject(w)] = 0
                /\ Verdict[Subject(w)] \in {NoRecord, "escalated"}
                /\ effects' = [effects EXCEPT ![Subject(w)] = 1]
                /\ Verdict' = Verdict
             \/ effects' = effects /\ Verdict' = Verdict
  <2>1. Verdict' = Verdict
    BY <1>1 DEF Operate, repository, Verdict, Answered, Answer, RowOf
  <2>2. job[w].step = "operate" /\ Subject(w) \in Decisions
    BY <1>1, OperateDoes, OperatingJob DEF ClaimSteps
  <2>3. effects[Subject(w)] = 0
    BY <2>2 DEF EffectsInv
  <2>4. Verdict[Subject(w)] \in {NoRecord, "escalated"}
    BY <2>2, OperateRuns DEF Verdict
  <2>5. effects' \in {effects, [effects EXCEPT ![Subject(w)] = 0 + 1]}
    BY <1>1, <2>3, OperateDoes
  <2> QED
    BY <2>1, <2>3, <2>4, <2>5
<1>2. CASE UNCHANGED effects
  <2>1. CASE \A d \in Decisions : Verdict'[d] = Verdict[d]
    BY <1>2, <2>1 DEF Verdict
  <2>2. ASSUME NEW d \in Decisions, Verdict'[d] # Verdict[d]
        PROVE  \E x \in {"executed", "refused", "escalated", "uncertain"} :
                  /\ Verdict[d] = NoRecord
                  /\ x = "executed" => effects[d] = 1
                  /\ x = "refused" => effects[d] = 0
                  /\ Verdict' = [Verdict EXCEPT ![d] = x]
    <3>x. PICK x : x = Answer(d)'
      OBVIOUS
    <3>d. \A e \in Decisions : e \in Requests /\ RowOf(e) \in RowIds /\ RowOf(e)' = RowOf(e)
      BY RequestTypes DEF Decisions, RowOf
    <3>v. \A e \in Decisions :
             /\ Verdict[e] = IF Answered(e) THEN Answer(e) ELSE NoRecord
             /\ Verdict'[e] = IF Answered(e)' THEN Answer(e)' ELSE NoRecord
      BY DEF Verdict
    <3>1. ~Answered(d) /\ Answered(d)' /\ rows'[RowOf(d)] # rows[RowOf(d)]
      <4>1. ~Answered(d)
        BY <2>2, <3>d, <3>v, AnswersStay
      <4>2. Answered(d)'
        BY <2>2, <3>v, <4>1
      <4> QED
        BY <3>d, <4>1, <4>2 DEF Answered
    <3>2. Source(d, x)'
      BY <3>x, <3>1 DEF Source
    <3>a. x \in Answers
      <4>1. RowOK(rows'[RowOf(d)])
        BY <3>d DEF TypeInv
      <4> QED
        BY <3>x, <3>1, <3>d, <4>1 DEF Answered, Answer, RowOK
    <3>3. /\ x \in {"executed", "refused", "escalated", "uncertain"}
          /\ x = "executed" => effects[d] = 1
          /\ x = "refused" => \A a \in PlaceIds : ~Place(d, a)'
      BY <1>2, <3>2, <3>a DEF AnswersInv, Answers, Results
    <3>4. x = "refused" => effects[d] = 0
      <4>1. ASSUME NEW id \in ClaimIds, claims'[id] # NoRecord, claims'[id].owner = d
            PROVE  id \in PlaceIds /\ Place(d, id)'
        BY <4>1, RequestTypes DEF Place, ClaimIds, PlaceIds, ApprovalIds
      <4>2. ASSUME effects'[d] # 0
            PROVE  \E id \in ClaimIds : claims'[id] # NoRecord /\ claims'[id].owner = d
        BY <4>2 DEF EffectsInv
      <4> QED
        BY <1>2, <3>3, <4>1, <4>2
    <3>5. ASSUME NEW e \in Decisions, e # d PROVE Verdict'[e] = Verdict[e]
      <4>1. CASE RowOf(e) = RowOf(d)
        <5>1. ~Answered(e)'
          BY <3>1, <3>5, <3>d, <4>1 DEF Answered
        <5>2. ~Answered(e)
          BY <3>d, <5>1, AnswersStay
        <5> QED
          BY <3>v, <5>1, <5>2
      <4>2. CASE RowOf(e) # RowOf(d)
        <5>1. rows'[RowOf(e)] = rows[RowOf(e)]
          BY <3>1, <3>d, <4>2, OneRow
        <5>2. (Answered(e)' <=> Answered(e)) /\ Answer(e)' = Answer(e)
          BY <3>d, <5>1 DEF Answered, Answer
        <5> QED
          BY <3>v, <5>2
      <4> QED
        BY <4>1, <4>2
    <3>6. Verdict' = [Verdict EXCEPT ![d] = x]
      <4>1. Verdict'[d] = x
        BY <3>x, <3>1, <3>v
      <4> QED
        BY <3>5, <4>1 DEF Verdict
    <3>7. Verdict[d] = NoRecord
      BY <3>1, <3>v
    <3> QED
      BY <3>3, <3>4, <3>6, <3>7
  <2> QED
    BY <1>2, <2>1, <2>2
<1>3. CASE \E w \in Workers : Operate(w)
  <2>1. PICK w \in Workers : Operate(w)
    BY <1>3
  <2>2. Subject(w) \in Decisions
    BY <2>1, OperateDoes, OperatingJob DEF ClaimSteps
  <2> QED
    BY <1>1, <2>1, <2>2
<1> QED
  BY <1>2, <1>3, EffectsChange

\* What makes the answers true.
PromiseInv == RowsKeyed /\ OperationsInv /\ AnswersInv

\* Every step keeps it.
LEMMA PromiseInductive == PromiseInv /\ [Next]_vars => PromiseInv'
<1> SUFFICES ASSUME PromiseInv, [Next]_vars PROVE PromiseInv'
  OBVIOUS
<1>1. OperationsInv'
  BY OperationsInductive DEF PromiseInv
<1>2. RowsKeyed'
  BY RowsKeyedStep DEF PromiseInv, OperationsInv
<1>3. AnswersInv'
  BY AnswersStep DEF PromiseInv, OperationsInv
<1> QED
  BY <1>1, <1>2, <1>3 DEF PromiseInv

\* At the start nothing is answered.
LEMMA PromiseInitially == Init => PromiseInv
<1> SUFFICES ASSUME Init PROVE PromiseInv
  OBVIOUS
<1>1. OperationsInv
  BY OperationsInitially
<1>2. RowsKeyed
  BY DEF Init, RowsKeyed
<1>3. \A d \in Decisions : \A x : ~Source(d, x)
  BY RequestTypes DEF Init, Source, Answered, Says, IdleJob, NothingUncommitted, Decisions
<1> QED
  BY <1>1, <1>2, <1>3 DEF PromiseInv, AnswersInv

\* The service implements AtMostOnce: whatever the number of workers, crashes,
\* retries and failed transactions, an operation is performed at most once, its
\* decision is answered for good at most once, "executed" is said only of one
\* that was performed and "refused" only of one that never was nor will be.
THEOREM OperationsRunOnce == Spec => ImplementsAtMostOnce
<1>1. Init => Once!AtMostOnceInit
  <2> SUFFICES ASSUME Init PROVE Once!AtMostOnceInit
    OBVIOUS
  <2>1. \A d \in Decisions : ~Answered(d)
    BY RequestTypes DEF Init, Answered, Decisions
  <2> QED
    BY <2>1 DEF Init, Once!AtMostOnceInit
<1>2. PromiseInv /\ PromiseInv' /\ [Next]_vars => [Once!AtMostOnceNext]_(Once!vars)
  <2> SUFFICES ASSUME PromiseInv, PromiseInv', [Next]_vars
               PROVE  [Once!AtMostOnceNext]_(Once!vars)
    OBVIOUS
  <2>1. \/ \E d \in Decisions :
              /\ effects[d] = 0
              /\ Verdict[d] \in {NoRecord, "escalated"}
              /\ effects' = [effects EXCEPT ![d] = 1]
              /\ Verdict' = Verdict
        \/ \E d \in Decisions, x \in {"executed", "refused", "escalated", "uncertain"} :
              /\ Verdict[d] = NoRecord
              /\ x = "executed" => effects[d] = 1
              /\ x = "refused" => effects[d] = 0
              /\ Verdict' = [Verdict EXCEPT ![d] = x]
              /\ effects' = effects
        \/ effects' = effects /\ Verdict' = Verdict
    BY ImplementsStep DEF PromiseInv, OperationsInv
  <2> QED
    BY <2>1 DEF Verdict, Once!AtMostOnceNext, Once!Run, Once!Decide, Once!Verdicts, Once!vars
<1> QED
  BY <1>1, <1>2, PromiseInitially, PromiseInductive, PTL
     DEF Spec, ImplementsAtMostOnce, Once!AtMostOnceSpec

-----------------------------------------------------------------------------
(* Approvals: what the workers save goes on from what is committed.         *)

\* A request is approved by its quorum, and consumed only when it is approved.
Sound(req) ==
    /\ req.threshold = Quorum.threshold
    /\ req.state = "approved" => Cardinality(Voted(req)) >= Quorum.threshold
    /\ req.consumed => req.state = "approved"

Backed(m) == \A i \in DOMAIN m : Sound(m[i])

\* The requests m go on from the requests c.
Extends(m, c) == \A i \in DOMAIN c : i \in DOMAIN m /\ Advances(c[i], m[i])

\* The requests m show what the answer x to r says of them.
Reflects(m, r, x) ==
    /\ x = "escalated" => \E i \in DOMAIN m : m[i].subject = r
    /\ x = "voted" => /\ r.scope = "votes" /\ r.approval \in DOMAIN m
                      /\ IF r.approve THEN m[r.approval].votes[r.role] = r.who
                                      ELSE m[r.approval].state = "denied"
    /\ x = "executed" /\ r.scope = "resumes" => /\ r.approval \in DOMAIN m
                                                /\ m[r.approval].consumed

\* A worker that may save goes on from what is committed, and leaves out only
\* what it has no handler for.
Current(w) ==
    /\ revision[w] <= approvals.revision
    /\ revision[w] = approvals.revision =>
          /\ Extends(manager[w], Committed)
          /\ \A i \in approvals.payload.pending :
                i \in pending[w] \/ Committed[i].subject.params \notin handlers[w]

\* What a job is about to answer is so in its memory before the save, and
\* committed after it.
JobReflected(w) ==
    /\ job[w].step = "persist" /\ job[w].req \in Requests =>
          Reflects(manager[w], job[w].req, job[w].response)
    /\ job[w].step \in ClaimSteps /\ job[w].req.scope = "resumes" =>
          manager[w][job[w].req.approval].consumed
    /\ job[w].step = "store" => Reflects(Committed, job[w].req, job[w].response)

HeldReflected(w) ==
    \A id \in RowIds : uncommitted[w][id] # NoRecord =>
        Reflects(Committed, uncommitted[w][id].request, uncommitted[w][id].response)

WorkerInv(w) == Current(w) /\ Backed(manager[w]) /\ JobReflected(w) /\ HeldReflected(w)

RowReflected(id) ==
    rows[id] # NoRecord /\ rows[id].status = "complete" =>
        Reflects(Committed, rows[id].request, rows[id].response)

ApprovalsInv ==
    /\ Backed(Committed)
    /\ approvals.revision = 0 => approvals.payload = NothingSaved
    /\ \A w \in Workers : WorkerInv(w)
    /\ \A id \in RowIds : RowReflected(id)

-----------------------------------------------------------------------------
(* Requests only advance.                                                   *)

\* The transitions of a request.
LEMMA RequestAdvances ==
    ASSUME NEW req \in ApprovalRecord, Sound(req)
    PROVE  /\ Advances(req, req)
           /\ \A t \in Nat : Advances(req, Expire(req, t)) /\ Sound(Expire(req, t))
           /\ \A role \in Roles, who \in People :
                 req.state = "pending" /\ req.votes[role] = NoVote =>
                    /\ Advances(req, Approve(req, role, who))
                    /\ Sound(Approve(req, role, who))
                    /\ Approve(req, role, who).votes[role] = who
           /\ req.state = "pending" => /\ Advances(req, Deny(req)) /\ Sound(Deny(req))
                                       /\ Deny(req).state = "denied"
           /\ req.state = "approved" => /\ Advances(req, Consume(req)) /\ Sound(Consume(req))
                                        /\ Consume(req).consumed
<1>0. Advances(req, req)
  BY DEF Advances, BoundTo
<1>1. ASSUME NEW t \in Nat PROVE Advances(req, Expire(req, t)) /\ Sound(Expire(req, t))
  <2>1. CASE Expire(req, t) = req
    BY <1>0, <2>1
  <2>2. CASE ~req.consumed /\ Expire(req, t) = [req EXCEPT !.state = "expired"]
    <3> DEFINE new == [req EXCEPT !.state = "expired"]
    <3>1. /\ new.state = "expired" /\ ~new.consumed /\ new.threshold = req.threshold
          /\ new.subject = req.subject /\ new.governance = req.governance
          /\ new.roles = req.roles /\ new.expires = req.expires /\ new.votes = req.votes
      BY <2>2 DEF ApprovalRecord
    <3>0. req.state \in {"pending", "approved"} \/ new = req
      BY <2>2 DEF Expire
    <3> HIDE DEF new
    <3>2. Advances(req, new) /\ Sound(new)
      BY <1>0, <2>2, <3>0, <3>1 DEF Advances, BoundTo, Sound
    <3> QED
      BY <2>2, <3>2 DEF new
  <2> QED
    BY <2>1, <2>2 DEF Expire
<1>2. ASSUME NEW role \in Roles, NEW who \in People, req.state = "pending",
             req.votes[role] = NoVote
      PROVE  /\ Advances(req, Approve(req, role, who))
             /\ Sound(Approve(req, role, who))
             /\ Approve(req, role, who).votes[role] = who
  <2> DEFINE voted == [req EXCEPT !.votes[role] = who]
             new == Approve(req, role, who)
  <2>1. /\ voted \in ApprovalRecord /\ voted.subject = req.subject
        /\ voted.governance = req.governance /\ voted.roles = req.roles
        /\ voted.expires = req.expires
        /\ voted.threshold = req.threshold /\ voted.state = "pending"
        /\ voted.consumed = req.consumed
        /\ voted.votes[role] = who
        /\ \A other \in Roles \ {role} : voted.votes[other] = req.votes[other]
    BY <1>2 DEF ApprovalRecord
  <2>2. \/ new = voted
        \/ /\ new = [voted EXCEPT !.state = "approved"]
           /\ Cardinality(Voted(voted)) >= req.threshold
    BY DEF Approve
  <2> HIDE DEF voted
  <2>3. /\ new.subject = voted.subject /\ new.threshold = voted.threshold
        /\ new.governance = voted.governance /\ new.roles = voted.roles
        /\ new.expires = voted.expires
        /\ new.votes = voted.votes /\ new.consumed = voted.consumed
        /\ new.state = "pending" \/ Cardinality(Voted(voted)) >= req.threshold
    BY <2>1, <2>2 DEF ApprovalRecord
  <2> HIDE DEF new
  <2>4. Voted(new) = Voted(voted)
    BY <2>3 DEF Voted
  <2>5. ~req.consumed
    BY <1>2 DEF Sound
  <2>6. Advances(req, new) /\ Sound(new) /\ new.votes[role] = who
    BY <1>2, <2>1, <2>3, <2>4, <2>5 DEF Advances, BoundTo, Sound
  <2> QED
    BY <2>6 DEF new
<1>3. ASSUME req.state = "pending"
      PROVE  Advances(req, Deny(req)) /\ Sound(Deny(req)) /\ Deny(req).state = "denied"
  <2>1. /\ Deny(req).state = "denied" /\ Deny(req).consumed = req.consumed
        /\ Deny(req).votes = req.votes /\ Deny(req).subject = req.subject
        /\ Deny(req).governance = req.governance /\ Deny(req).roles = req.roles
        /\ Deny(req).threshold = req.threshold /\ Deny(req).expires = req.expires
    BY DEF Deny, ApprovalRecord
  <2> QED
    BY <1>3, <2>1 DEF Advances, BoundTo, Sound
<1>4. ASSUME req.state = "approved"
      PROVE  Advances(req, Consume(req)) /\ Sound(Consume(req)) /\ Consume(req).consumed
  <2>0. req.consumed => Consume(req) = req
    BY DEF Consume, ApprovalRecord
  <2>1. /\ Consume(req).state = req.state /\ Consume(req).consumed
        /\ Consume(req).votes = req.votes /\ Consume(req).subject = req.subject
        /\ Consume(req).governance = req.governance /\ Consume(req).roles = req.roles
        /\ Consume(req).threshold = req.threshold /\ Consume(req).expires = req.expires
    BY DEF Consume, ApprovalRecord
  <2>2. Voted(Consume(req)) = Voted(req)
    BY <2>1 DEF Voted
  <2> QED
    BY <1>4, <2>0, <2>1, <2>2 DEF Advances, BoundTo, Sound
<1> QED
  BY <1>0, <1>1, <1>2, <1>3, <1>4

\* Advancing is transitive.
LEMMA AdvancesFurther ==
    ASSUME NEW a, NEW b, NEW c, Advances(a, b), Advances(b, c)
    PROVE  Advances(a, c)
  BY DEF Advances, BoundTo

\* Going on from requests is transitive, ...
LEMMA ExtendsFurther ==
    ASSUME NEW a, NEW b, NEW c, Extends(b, a), Extends(c, b)
    PROVE  Extends(c, a)
  BY AdvancesFurther DEF Extends

\* ... and reflexive.
LEMMA ExtendsItself == ASSUME NEW m PROVE Extends(m, m)
  BY DEF Extends, Advances, BoundTo

\* What holds of requests holds of those that go on from them.
LEMMA ReflectsFurther ==
    ASSUME NEW c, NEW m, NEW r \in Requests, NEW x, Extends(m, c), Reflects(c, r, x)
    PROVE  Reflects(m, r, x)
<1>1. x = "escalated" => \E i \in DOMAIN m : m[i].subject = r
  BY DEF Extends, Reflects, Advances, BoundTo
<1>2. CASE x = "voted"
  <2>1. /\ r.scope = "votes" /\ r.role \in Roles /\ r.who # NoVote
    BY <1>2, RequestTypes, ApprovalRequestAssumption DEF Reflects, Callers
  <2> QED
    BY <1>2, <2>1 DEF Extends, Reflects, Advances, BoundTo
<1>3. CASE x = "executed" /\ r.scope = "resumes"
  BY <1>3 DEF Extends, Reflects, Advances, BoundTo
<1> QED
  BY <1>1, <1>2, <1>3 DEF Reflects

\* One request is rewritten, or a new one is appended.
LEMMA RewriteExtends ==
    ASSUME NEW m \in Seq(ApprovalRecord), NEW i \in DOMAIN m, NEW new,
           Backed(m), Advances(m[i], new), Sound(new)
    PROVE  /\ Extends([m EXCEPT ![i] = new], m)
           /\ Backed([m EXCEPT ![i] = new])
           /\ [m EXCEPT ![i] = new][i] = new
<1> DEFINE n == [m EXCEPT ![i] = new]
<1>1. /\ DOMAIN n = DOMAIN m /\ n[i] = new
      /\ \A j \in DOMAIN m \ {i} : n[j] = m[j]
  OBVIOUS
<1> HIDE DEF n
<1>2. Extends(n, m) /\ Backed(n)
  BY <1>1 DEF Extends, Backed, Advances, BoundTo
<1> QED
  BY <1>1, <1>2 DEF n

\* A new request is appended.
LEMMA AppendExtends ==
    ASSUME NEW m \in Seq(ApprovalRecord), NEW new \in ApprovalRecord, Backed(m), Sound(new)
    PROVE  /\ Extends(Append(m, new), m)
           /\ Backed(Append(m, new))
           /\ \E i \in DOMAIN Append(m, new) : Append(m, new)[i] = new
<1> DEFINE n == Append(m, new)
<1>1. /\ DOMAIN n = 1..(Len(m) + 1) /\ DOMAIN m = 1..Len(m) /\ Len(m) \in Nat
      /\ n[Len(m) + 1] = new
      /\ \A j \in 1..Len(m) : n[j] = m[j]
  OBVIOUS
<1> HIDE DEF n
<1>2. Extends(n, m)
  BY <1>1 DEF Extends, Advances, BoundTo
<1>3. Backed(n)
  <2> SUFFICES ASSUME NEW j \in DOMAIN n PROVE Sound(n[j])
    BY DEF Backed
  <2>1. CASE j = Len(m) + 1
    BY <1>1, <2>1
  <2>2. CASE j \in 1..Len(m)
    BY <1>1, <2>2 DEF Backed
  <2> QED
    BY <1>1, <2>1, <2>2
<1> QED
  BY <1>1, <1>2, <1>3 DEF n

-----------------------------------------------------------------------------
(* Frames: the other workers, and what a step leaves alone at its own.      *)

\* A step of u is no step of another worker.
Alone(u) ==
    \A w \in Workers \ {u} :
        /\ job'[w] = job[w] /\ manager'[w] = manager[w] /\ revision'[w] = revision[w]
        /\ handlers'[w] = handlers[w] /\ pending'[w] = pending[w]
        /\ uncommitted'[w] = uncommitted[w]

\* All variables of memory are tables by worker.
LEMMA Tables ==
    ASSUME TypeInv
    PROVE  /\ job \in [Workers -> JobType]
           /\ manager \in [Workers -> Seq(ApprovalRecord)]
           /\ revision \in [Workers -> Nat]
           /\ handlers \in [Workers -> SUBSET Params]
           /\ pending \in [Workers -> SUBSET (Nat \ {0})]
           /\ uncommitted \in [Workers -> [RowIds -> Draft \cup {NoRecord}]]
           /\ rows \in [RowIds -> RowRecord \cup {NoRecord}]
           /\ approvals \in [revision : Nat, payload : [requests : Seq(ApprovalRecord),
                                                       pending : SUBSET (Nat \ {0})]]
           /\ Committed \in Seq(ApprovalRecord)
           /\ now \in Nat
  BY DEF TypeInv, TypeOK, JobType, Committed

\* The steps of a worker are its own.
LEMMA AloneRequests ==
    ASSUME TypeInv, NEW u \in Workers, NEW r \in Requests,
           AnswerFromCache(u, r) \/ CommitLate(u, r) \/ Reserve(u, r)
    PROVE  Alone(u)
<1>1. CASE AnswerFromCache(u, r)
  BY <1>1, Tables DEF AnswerFromCache, Respond, memory, Alone
<1>2. CASE CommitLate(u, r)
  BY <1>2, Tables DEF CommitLate, Respond, Alone
<1>3. CASE Reserve(u, r)
  BY <1>3, Tables DEF Reserve, Respond, Alone
<1> QED
  BY <1>1, <1>2, <1>3

\* The endpoints are steps of the worker that serves them, ...
LEMMA AloneServes ==
    ASSUME TypeInv, NEW u \in Workers,
           \/ \E i \in ApprovalIds : ServeGet(u, i)
           \/ \E o \in Outcomes, g \in Governance : ServeDecision(u, o, g)
           \/ \E g \in Governance : ServeVote(u, g) \/ ServeResume(u, g)
           \/ Peek(u) \/ Turned(u)
    PROVE  Alone(u)
<1>1. ASSUME NEW i \in ApprovalIds, ServeGet(u, i) PROVE Alone(u)
  BY <1>1, Tables DEF ServeGet, Alone
<1>2. ASSUME NEW o \in Outcomes, NEW g \in Governance, ServeDecision(u, o, g)
      PROVE  Alone(u)
  BY <1>2, Tables DEF ServeDecision, Continue, Alone
<1>3. ASSUME NEW g \in Governance, ServeVote(u, g) PROVE Alone(u)
  BY <1>3, Tables DEF ServeVote, Continue, Alone
<1>4. ASSUME NEW g \in Governance, ServeResume(u, g) PROVE Alone(u)
  BY <1>4, Tables DEF ServeResume, Continue, Alone
<1>5. ASSUME Peek(u) \/ Turned(u) PROVE Alone(u)
  BY <1>5, Tables DEF Peek, Turned, Respond, memory, Alone
<1> QED
  BY <1>1, <1>2, <1>3, <1>4, <1>5

\* ... and so are its transactions, its crash and its restart.
LEMMA AloneWorks ==
    ASSUME TypeInv, NEW u \in Workers,
           \/ Claim(u) \/ Operate(u) \/ Settle(u) \/ Persist(u) \/ Store(u)
           \/ StoreFails(u) \/ Crash(u) \/ Restart(u)
    PROVE  Alone(u)
<1>1. CASE Claim(u) \/ Operate(u) \/ Settle(u)
  BY <1>1, Tables DEF Claim, Operate, Settle, Continue, memory, Alone
<1>2. CASE Persist(u)
  BY <1>2, Tables DEF Persist, Continue, Respond, Alone
<1>3. CASE Store(u)
  BY <1>3, Tables DEF Store, Hold, Respond, Alone
<1>4. CASE StoreFails(u)
  BY <1>4, Tables DEF StoreFails, Hold, Continue, Respond, Alone
<1>5. CASE Crash(u)
  BY <1>5, Tables DEF Crash, Alone
<1>6. CASE Restart(u)
  BY <1>6, Tables DEF Restart, Alone
<1> QED
  BY <1>1, <1>2, <1>3, <1>4, <1>5, <1>6

\* The steps that save.
LEMMA SavesChange ==
    ASSUME [Next]_vars
    PROVE  \/ UNCHANGED approvals
           \/ \E u \in Workers :
                 /\ Persist(u) /\ revision[u] = approvals.revision
                 /\ approvals' = Saved(approvals, SavedState(manager[u], pending[u]))
<1>1. ASSUME NEW u \in Workers, Work(u) PROVE UNCHANGED approvals \/ Persist(u)
  BY <1>1 DEF Work, Peek, ServeDecision, Turned, ServeVote, ServeResume, Claim, Operate,
              Settle, Store, Hold, repository
<1>2. ASSUME NEW u \in Workers,
             \/ \E r \in Requests : AnswerFromCache(u, r) \/ CommitLate(u, r) \/ Reserve(u, r)
             \/ \E i \in ApprovalIds : ServeGet(u, i)
             \/ StoreFails(u)
      PROVE  UNCHANGED approvals
  BY <1>2 DEF AnswerFromCache, CommitLate, Reserve, ServeGet, StoreFails, repository
<1>3. ASSUME NEW u \in Workers, Crash(u) \/ Restart(u) PROVE UNCHANGED approvals
  BY <1>3 DEF Crash, Restart, repository
<1>4. ASSUME Tick \/ \E id \in ClaimIds : Reconcile(id) PROVE UNCHANGED approvals
  BY <1>4 DEF Tick, Reconcile, repository
<1>5. UNCHANGED approvals \/ \E u \in Workers : Persist(u)
  BY <1>1, <1>2, <1>3, <1>4 DEF Next, vars, repository
<1>6. ASSUME NEW u \in Workers, Persist(u)
      PROVE  \/ UNCHANGED approvals
             \/ /\ revision[u] = approvals.revision
                /\ approvals' = Saved(approvals, SavedState(manager[u], pending[u]))
  BY <1>6 DEF Persist, CanSave
<1> QED
  BY <1>5, <1>6

\* What is committed is kept, or saved over by a worker that goes on from it.
LEMMA CommittedStep ==
    ASSUME TypeInv, ApprovalsInv, [Next]_vars
    PROVE  /\ \/ UNCHANGED approvals
              \/ approvals'.revision = approvals.revision + 1
           /\ Extends(Committed', Committed)
           /\ Backed(Committed')
<1>1. CASE UNCHANGED approvals
  BY <1>1, ExtendsItself DEF Committed, ApprovalsInv
<1>2. ASSUME NEW u \in Workers, revision[u] = approvals.revision,
             approvals' = Saved(approvals, SavedState(manager[u], pending[u]))
      PROVE  /\ approvals'.revision = approvals.revision + 1
             /\ Extends(Committed', Committed)
             /\ Backed(Committed')
  <2>1. Committed' = manager[u] /\ approvals'.revision = approvals.revision + 1
    BY <1>2 DEF Saved, SavedState, Committed
  <2> QED
    BY <1>2, <2>1 DEF ApprovalsInv, WorkerInv, Current
<1> QED
  BY <1>1, <1>2, SavesChange

\* What a worker left alone keeps.
LEMMA OtherKept ==
    ASSUME TypeInv, NEW w \in Workers, WorkerInv(w),
           job'[w] = job[w], manager'[w] = manager[w], revision'[w] = revision[w],
           handlers'[w] = handlers[w], pending'[w] = pending[w],
           uncommitted'[w] = uncommitted[w],
           UNCHANGED approvals \/ approvals'.revision = approvals.revision + 1,
           Extends(Committed', Committed)
    PROVE  WorkerInv(w)'
<1>1. Current(w)'
  <2>1. CASE UNCHANGED approvals
    BY <2>1 DEF WorkerInv, Current, Committed
  <2>2. CASE approvals'.revision = approvals.revision + 1
    <3>1. /\ revision[w] \in Nat /\ approvals.revision \in Nat
          /\ revision[w] <= approvals.revision
      BY Tables DEF WorkerInv, Current
    <3>2. revision'[w] < approvals'.revision
      BY <2>2, <3>1
    <3>3. revision'[w] <= approvals'.revision /\ revision'[w] # approvals'.revision
      BY <2>2, <3>1
    <3> QED
      BY <3>3 DEF Current
  <2> QED
    BY <2>1, <2>2
<1>2. JobReflected(w)'
  <2>1. job[w].step = "store" => Reflects(Committed', job[w].req, job[w].response)
    BY StoringJob, ReflectsFurther DEF WorkerInv, JobReflected
  <2> QED
    BY <2>1 DEF WorkerInv, JobReflected, Reflects
<1>3. HeldReflected(w)'
  <2> SUFFICES ASSUME NEW id \in RowIds, uncommitted[w][id] # NoRecord
               PROVE  Reflects(Committed', uncommitted[w][id].request,
                               uncommitted[w][id].response)
    BY DEF HeldReflected, Reflects
  <2>1. uncommitted[w][id] \in Draft
    BY Tables
  <2>2. uncommitted[w][id].request \in Requests
    BY <2>1 DEF Draft
  <2> QED
    BY <2>2, ReflectsFurther DEF WorkerInv, HeldReflected
<1> QED
  BY <1>1, <1>2, <1>3 DEF WorkerInv, Backed, Sound

-----------------------------------------------------------------------------
(* What the steps of a worker keep.                                         *)

\* A step that may rewrite the worker's requests and adds what it serves.
LEMMA OwnKept ==
    ASSUME TypeInv, NEW u \in Workers, WorkerInv(u), UNCHANGED approvals,
           revision'[u] = revision[u], handlers'[u] = handlers[u],
           pending[u] \subseteq pending'[u],
           Extends(manager'[u], manager[u]), Backed(manager'[u])
    PROVE  Current(u)' /\ Backed(manager[u])' /\ Committed' = Committed
<1>1. Committed' = Committed
  BY DEF Committed
<1>2. Current(u)'
  BY <1>1, ExtendsFurther DEF WorkerInv, Current
<1> QED
  BY <1>1, <1>2 DEF Backed, Sound

\* A step that leaves the worker's approvals and held responses alone.
LEMMA PlainKept ==
    ASSUME TypeInv, NEW u \in Workers, WorkerInv(u), UNCHANGED approvals,
           manager'[u] = manager[u], revision'[u] = revision[u],
           handlers'[u] = handlers[u], pending'[u] = pending[u],
           uncommitted'[u] = uncommitted[u],
           JobReflected(u)'
    PROVE  WorkerInv(u)'
<1>1. Current(u)' /\ Backed(manager[u])' /\ Committed' = Committed
  BY OwnKept, ExtendsItself DEF WorkerInv
<1>2. HeldReflected(u)'
  BY <1>1 DEF WorkerInv, HeldReflected, Reflects
<1> QED
  BY <1>1, <1>2 DEF WorkerInv

\* A job that is over, or has just begun, reflects nothing.
LEMMA FreeReflects ==
    ASSUME NEW u \in Workers, job'[u].step \in {"idle", "down", "peek", "serve"}
    PROVE  JobReflected(u)'
  BY DEF JobReflected, ClaimSteps

\* A job that responds reflects nothing.
LEMMA RespondReflects ==
    ASSUME TypeInv, NEW u \in Workers, NEW r, NEW x, Respond(u, r, x)
    PROVE  JobReflected(u)'
<1>1. job'[u].step = "idle"
  BY Tables DEF Respond, IdleJob
<1> QED
  BY <1>1, FreeReflects

\* A job that goes on.
LEMMA ContinueDoes ==
    ASSUME TypeInv, NEW u \in Workers, NEW step, NEW x, Continue(u, step, x)
    PROVE  /\ job'[u].step = step /\ job'[u].req = job[u].req
           /\ job'[u].response = x
  BY Tables DEF Continue, JobType

\* _idempotent and _reserve_durable leave the approvals alone.
LEMMA RequestKeeps ==
    ASSUME TypeInv, NEW u \in Workers, WorkerInv(u), NEW r \in Requests,
           AnswerFromCache(u, r) \/ CommitLate(u, r) \/ Reserve(u, r)
    PROVE  WorkerInv(u)'
<1>1. CASE AnswerFromCache(u, r)
  BY <1>1, PlainKept, RespondReflects DEF AnswerFromCache, memory, repository
<1>2. CASE CommitLate(u, r)
  <2>1. JobReflected(u)'
    BY <1>2, RespondReflects DEF CommitLate
  <2>2. UNCHANGED <<approvals, manager, revision, handlers, pending>>
    BY <1>2 DEF CommitLate
  <2>3. Current(u)' /\ Backed(manager[u])' /\ Committed' = Committed
    BY <2>2, OwnKept, ExtendsItself DEF WorkerInv
  <2>4. \A id \in RowIds : uncommitted'[u][id] \in {uncommitted[u][id], NoRecord}
    BY <1>2, Tables DEF CommitLate
  <2>5. HeldReflected(u)'
    BY <2>3, <2>4 DEF WorkerInv, HeldReflected, Reflects
  <2> QED
    BY <2>1, <2>3, <2>5 DEF WorkerInv
<1>3. CASE Reserve(u, r)
  <2>1. ASSUME NEW step \in {"serve", "peek"},
               job' = [job EXCEPT ![u] = [step |-> step, req |-> r,
                                          row |-> RowOf(r), response |-> NoRecord]]
        PROVE  JobReflected(u)'
    <3>1. job'[u].step = step
      BY <2>1, Tables
    <3> QED
      BY <3>1, FreeReflects
  <2>2. JobReflected(u)'
    BY <1>3, <2>1, RespondReflects DEF Reserve
  <2> QED
    BY <1>3, <2>2, PlainKept DEF Reserve
<1> QED
  BY <1>1, <1>2, <1>3

\* _decision: an escalation is in the worker's memory before it is saved.
LEMMA DecisionKeeps ==
    ASSUME TypeInv, NEW u \in Workers, WorkerInv(u), NEW o \in Outcomes,
           NEW g \in Governance, ServeDecision(u, o, g)
    PROVE  WorkerInv(u)'
<1>1. /\ UNCHANGED <<approvals, revision, handlers, uncommitted>>
      /\ job[u].step = "serve" /\ job[u].req.scope = "decisions"
      /\ job[u].req \in Decisions
  BY OwnedJob DEF ServeDecision, repository, Decisions
<1>2. CASE /\ Continue(u, "store", "refused") \/ Continue(u, "claim", NoRecord)
           /\ UNCHANGED <<manager, pending>>
  <2>1. JobReflected(u)'
    BY <1>1, <1>2, ContinueDoes DEF JobReflected, Reflects, ClaimSteps
  <2> QED
    BY <1>1, <1>2, <2>1, PlainKept
<1>3. CASE /\ manager' = [manager EXCEPT ![u] = Append(@,
                             NewRequest(job[u].req, g, Quorum, now, Ttl))]
           /\ pending' = [pending EXCEPT ![u] = @ \cup {Len(manager'[u])}]
           /\ Continue(u, "persist", "escalated")
  <2> DEFINE new == NewRequest(job[u].req, g, Quorum, now, Ttl)
  <2>1. new \in ApprovalRecord
    BY <1>1, NewRequestType, Tables
  <2>2. Sound(new) /\ new.subject = job[u].req
    BY DEF NewRequest, Sound
  <2>3. manager'[u] = Append(manager[u], new) /\ pending[u] \subseteq pending'[u]
    BY <1>3, Tables
  <2> HIDE DEF new
  <2>4. /\ Extends(manager'[u], manager[u]) /\ Backed(manager'[u])
        /\ \E i \in DOMAIN manager'[u] : manager'[u][i] = new
    BY <2>1, <2>2, <2>3, AppendExtends, Tables DEF WorkerInv
  <2>5. Current(u)' /\ Backed(manager[u])' /\ Committed' = Committed
    BY <1>1, <2>3, <2>4, OwnKept
  <2>6. JobReflected(u)'
    <3>1. /\ job'[u].step = "persist" /\ job'[u].req = job[u].req
          /\ job'[u].response = "escalated"
      BY <1>3, ContinueDoes
    <3> QED
      BY <2>2, <2>4, <3>1 DEF JobReflected, Reflects, ClaimSteps
  <2>7. HeldReflected(u)'
    BY <1>1, <2>5 DEF WorkerInv, HeldReflected, Reflects
  <2> QED
    BY <2>5, <2>6, <2>7 DEF WorkerInv
<1> QED
  BY <1>2, <1>3 DEF ServeDecision

\* A step on one request, which goes on from what it was.
LEMMA RewriteKeeps ==
    ASSUME TypeInv, NEW u \in Workers, WorkerInv(u), NEW i \in DOMAIN manager[u], NEW new,
           Advances(manager[u][i], new), Sound(new),
           manager' = [manager EXCEPT ![u][i] = new],
           UNCHANGED <<approvals, revision, handlers, pending, uncommitted>>
    PROVE  /\ Current(u)' /\ Backed(manager[u])' /\ HeldReflected(u)'
           /\ Committed' = Committed
           /\ i \in DOMAIN manager'[u] /\ manager'[u][i] = new
<1>1. manager[u] \in Seq(ApprovalRecord) /\ manager'[u] = [manager[u] EXCEPT ![i] = new]
  BY Tables
<1>2. /\ Extends(manager'[u], manager[u]) /\ Backed(manager'[u])
      /\ manager'[u][i] = new /\ i \in DOMAIN manager'[u]
  BY <1>1, RewriteExtends DEF WorkerInv
<1>3. Current(u)' /\ Backed(manager[u])' /\ Committed' = Committed
  BY <1>2, OwnKept
<1>4. HeldReflected(u)'
  BY <1>3 DEF WorkerInv, HeldReflected, Reflects
<1> QED
  BY <1>2, <1>3, <1>4

\* _vote: a vote the manager takes is in the request before it is saved.
LEMMA VoteKeeps ==
    ASSUME TypeInv, NEW u \in Workers, WorkerInv(u), NEW g \in Governance, ServeVote(u, g)
    PROVE  WorkerInv(u)'
<1> DEFINE v == job[u].req
           old == manager[u][v.approval]
           req == Expire(old, now)
<1>1. /\ v \in Requests /\ v.scope = "votes" /\ v.approval \in DOMAIN manager[u]
      /\ v.who \in People /\ old \in ApprovalRecord /\ now \in Nat
  BY AdmittedFacts DEF ServeVote
<1>2. v.role \in Roles
  BY <1>1, RequestTypes
<1>3. Sound(old) /\ req \in ApprovalRecord /\ Advances(old, req) /\ Sound(req)
  <2>1. Sound(old)
    BY <1>1 DEF WorkerInv, Backed
  <2> QED
    BY <1>1, <2>1, TransitionTypes, RequestAdvances
<1>4. UNCHANGED <<approvals, revision, handlers, pending, uncommitted>>
  BY DEF ServeVote, repository
<1>5. PICK after, x :
         /\ manager' = [manager EXCEPT ![u][v.approval] = after]
         /\ Continue(u, "persist", x)
         /\ \/ after = req /\ x = "refused"
            \/ /\ req.state = "pending" /\ req.votes[v.role] = NoVote
               /\ v.approve /\ after = Approve(req, v.role, v.who) /\ x = "voted"
            \/ req.state = "pending" /\ ~v.approve /\ after = Deny(req) /\ x = "voted"
  BY DEF ServeVote, CanApprove, CanDeny
<1>6. /\ Advances(old, after) /\ Sound(after)
      /\ x = "voted" => IF v.approve THEN after.votes[v.role] = v.who
                                     ELSE after.state = "denied"
      /\ x \in {"voted", "refused"}
  <2> HIDE DEF req
  <2>1. CASE after = req /\ x = "refused"
    BY <1>3, <2>1
  <2>2. CASE /\ req.state = "pending" /\ req.votes[v.role] = NoVote
             /\ v.approve /\ after = Approve(req, v.role, v.who) /\ x = "voted"
    <3>1. Advances(req, after) /\ Sound(after) /\ after.votes[v.role] = v.who
      BY <1>1, <1>2, <1>3, <2>2, RequestAdvances
    <3> QED
      BY <1>3, <2>2, <3>1, AdvancesFurther
  <2>3. CASE req.state = "pending" /\ ~v.approve /\ after = Deny(req) /\ x = "voted"
    <3>1. Advances(req, after) /\ Sound(after) /\ after.state = "denied"
      BY <1>3, <2>3, RequestAdvances
    <3> QED
      BY <1>3, <2>3, <3>1, AdvancesFurther
  <2> QED
    BY <1>5, <2>1, <2>2, <2>3
<1> HIDE DEF req
<1>7. /\ Current(u)' /\ Backed(manager[u])' /\ HeldReflected(u)'
      /\ v.approval \in DOMAIN manager'[u] /\ manager'[u][v.approval] = after
  <2>0. PICK i \in DOMAIN manager[u] : i = v.approval
    BY <1>1
  <2>1. manager' = [manager EXCEPT ![u][i] = after]
    BY <1>5, <2>0
  <2>2. Advances(manager[u][i], after) /\ Sound(after)
    BY <1>6, <2>0
  <2>3. /\ Current(u)' /\ Backed(manager[u])' /\ HeldReflected(u)'
        /\ i \in DOMAIN manager'[u] /\ manager'[u][i] = after
    BY <1>4, <2>1, <2>2, RewriteKeeps
  <2> QED
    BY <2>0, <2>3
<1>8. job'[u].step = "persist" /\ job'[u].req = v /\ job'[u].response = x
  BY <1>5, ContinueDoes
<1>9. JobReflected(u)'
  BY <1>1, <1>6, <1>7, <1>8 DEF JobReflected, Reflects, ClaimSteps
<1> QED
  BY <1>7, <1>9 DEF WorkerInv

\* _resume: an approval is spent before the operation is claimed.
LEMMA ResumeKeeps ==
    ASSUME TypeInv, NEW u \in Workers, WorkerInv(u), NEW g \in Governance, ServeResume(u, g)
    PROVE  WorkerInv(u)'
<1> DEFINE r == job[u].req
           old == manager[u][r.approval]
           req == Expire(old, now)
<1>1. /\ r \in Requests /\ r.scope = "resumes" /\ r.approval \in DOMAIN manager[u]
      /\ old \in ApprovalRecord /\ now \in Nat
  BY AdmittedFacts DEF ServeResume
<1>3. Sound(old) /\ req \in ApprovalRecord /\ Advances(old, req) /\ Sound(req)
  <2>1. Sound(old)
    BY <1>1 DEF WorkerInv, Backed
  <2> QED
    BY <1>1, <2>1, TransitionTypes, RequestAdvances
<1>4. UNCHANGED <<approvals, revision, handlers, pending, uncommitted>>
  BY DEF ServeResume, repository
<1>5. PICK after :
         /\ manager' = [manager EXCEPT ![u][r.approval] = after]
         /\ \/ /\ after = req
               /\ job' = [job EXCEPT ![u].step = "store",
                                     ![u].row = <<"decisions", r.key>>,
                                     ![u].response = "forbidden"]
            \/ after = req /\ Continue(u, "persist", "refused")
            \/ /\ req.state = "approved" /\ after = Consume(req)
               /\ Continue(u, "claim", NoRecord)
  BY DEF ServeResume, CanConsume
<1>6. /\ Advances(old, after) /\ Sound(after)
      /\ after = req \/ after.consumed
  <2> HIDE DEF req
  <2>1. CASE after = req
    BY <1>3, <2>1
  <2>2. CASE req.state = "approved" /\ after = Consume(req)
    BY <1>3, <2>2, RequestAdvances, AdvancesFurther
  <2> QED
    BY <1>5, <2>1, <2>2
<1>7. /\ Current(u)' /\ Backed(manager[u])' /\ HeldReflected(u)'
      /\ r.approval \in DOMAIN manager'[u] /\ manager'[u][r.approval] = after
  <2> HIDE DEF req
  <2> QED
    BY <1>1, <1>4, <1>5, <1>6, RewriteKeeps
<1>8. JobReflected(u)'
  <2>1. CASE job' = [job EXCEPT ![u].step = "store",
                                ![u].row = <<"decisions", r.key>>,
                                ![u].response = "forbidden"]
    <3>1. job'[u].step = "store" /\ job'[u].response = "forbidden"
      BY <2>1, Tables DEF JobType
    <3> QED
      BY <3>1 DEF JobReflected, Reflects, ClaimSteps
  <2>2. CASE Continue(u, "persist", "refused")
    BY <2>2, ContinueDoes DEF JobReflected, Reflects, ClaimSteps
  <2>3. CASE /\ req.state = "approved" /\ after = Consume(req)
             /\ Continue(u, "claim", NoRecord)
    <3>1. job'[u].step = "claim" /\ job'[u].req = r
      BY <2>3, ContinueDoes
    <3>2. after.consumed
      BY <1>3, <2>3, RequestAdvances
    <3> QED
      BY <1>7, <3>1, <3>2 DEF JobReflected
  <2> QED
    BY <1>5, <2>1, <2>2, <2>3
<1> QED
  BY <1>7, <1>8 DEF WorkerInv

\* _approval: an expiry that is found is saved, and answers nothing yet.
LEMMA GetKeeps ==
    ASSUME TypeInv, NEW u \in Workers, WorkerInv(u), NEW i \in ApprovalIds, ServeGet(u, i)
    PROVE  WorkerInv(u)'
<1>1. /\ i \in DOMAIN manager[u] /\ manager[u][i] \in ApprovalRecord /\ now \in Nat
      /\ manager' = [manager EXCEPT ![u][i] = Expire(manager[u][i], now)]
      /\ UNCHANGED <<approvals, revision, handlers, pending, uncommitted>>
  BY Tables DEF ServeGet, repository
<1>2. /\ Advances(manager[u][i], Expire(manager[u][i], now))
      /\ Sound(Expire(manager[u][i], now))
  BY <1>1, RequestAdvances DEF WorkerInv, Backed
<1>3. Current(u)' /\ Backed(manager[u])' /\ HeldReflected(u)'
  BY <1>1, <1>2, RewriteKeeps
<1>4. JobReflected(u)'
  <2>1. job'[u].step = "persist" /\ job'[u].req = Get(i)
    BY Tables DEF ServeGet, JobType
  <2>2. job'[u].req \notin Requests
    BY <2>1, RequestTypes DEF Get
  <2> QED
    BY <2>1, <2>2 DEF JobReflected, ClaimSteps
<1> QED
  BY <1>3, <1>4 DEF WorkerInv

\* The operation is over: the job goes on to its save or to its response.
LEMMA OverReflects ==
    ASSUME TypeInv, NEW u \in Workers, WorkerInv(u), job[u].step \in ClaimSteps,
           NEW x \in Results \cup {"uncertain"}, Continue(u, AfterOperation(u), x),
           UNCHANGED <<approvals, manager>>
    PROVE  JobReflected(u)'
<1>1. /\ job'[u].step = AfterOperation(u) /\ job'[u].req = job[u].req
      /\ job'[u].response = x
  BY ContinueDoes
<1>2. CASE job[u].req.scope = "decisions"
  BY <1>1, <1>2 DEF AfterOperation, JobReflected, Reflects, ClaimSteps, Results
<1>3. CASE job[u].req.scope = "resumes" /\ job[u].req.approval \in DOMAIN manager[u]
  <2>1. manager[u][job[u].req.approval].consumed
    BY <1>3 DEF WorkerInv, JobReflected
  <2> QED
    BY <1>1, <1>3, <2>1 DEF AfterOperation, JobReflected, Reflects, ClaimSteps, Results
<1> QED
  BY <1>2, <1>3, OwnedJob DEF ClaimSteps

\* The claim, the operation and its result leave the approvals alone.
LEMMA OperationKeeps ==
    ASSUME TypeInv, NEW u \in Workers, WorkerInv(u), Claim(u) \/ Operate(u) \/ Settle(u)
    PROVE  WorkerInv(u)'
<1>1. /\ UNCHANGED <<approvals, manager, revision, handlers, pending, uncommitted>>
      /\ job[u].step \in ClaimSteps
  BY DEF Claim, Operate, Settle, memory, repository, ClaimSteps
<1>2. ASSUME NEW step \in {"operate", "settle"}, NEW x, Continue(u, step, x)
      PROVE  JobReflected(u)'
  BY <1>1, <1>2, ContinueDoes DEF WorkerInv, JobReflected, ClaimSteps
<1>3. \/ \E step \in {"operate", "settle"} : \E x : Continue(u, step, x)
      \/ \E x \in Results \cup {"uncertain"} : Continue(u, AfterOperation(u), x)
  BY OwnedJob DEF Claim, Operate, Settle
<1>4. JobReflected(u)'
  BY <1>1, <1>2, <1>3, OverReflects
<1> QED
  BY <1>1, <1>4, PlainKept

\* A save commits what the job is to answer.
LEMMA PersistKeeps ==
    ASSUME TypeInv, NEW u \in Workers, WorkerInv(u), Persist(u),
           Extends(Committed', Committed)
    PROVE  WorkerInv(u)'
<1>t. UNCHANGED <<manager, handlers, pending, uncommitted>> /\ job[u].step = "persist"
  BY DEF Persist
<1>1. CASE Respond(u, job[u].req, "state_conflict") /\ UNCHANGED <<approvals, revision>>
  BY <1>t, <1>1, PlainKept, RespondReflects
<1>2. CASE /\ approvals' = Saved(approvals, SavedState(manager[u], pending[u]))
           /\ revision' = [revision EXCEPT ![u] = approvals'.revision]
           /\ IF job[u].req.scope = "get"
              THEN Respond(u, job[u].req, job[u].response)
              ELSE Continue(u, "store", job[u].response)
  <2>1. /\ Committed' = manager[u] /\ approvals'.payload.pending = pending[u]
        /\ approvals'.revision = approvals.revision + 1
    BY <1>2 DEF Saved, SavedState, Committed
  <2>2. revision'[u] = approvals'.revision /\ approvals'.revision \in Nat
    BY <1>2, <2>1, Tables
  <2>3. Current(u)'
    BY <1>t, <2>1, <2>2, ExtendsItself DEF Current
  <2>4. JobReflected(u)'
    <3>1. CASE Respond(u, job[u].req, job[u].response)
      BY <3>1, RespondReflects
    <3>2. CASE job[u].req.scope # "get" /\ Continue(u, "store", job[u].response)
      <4>1. job[u].req \in Requests
        BY <1>t, <3>2 DEF TypeInv, JobOK, Gets, Get
      <4>2. Reflects(manager[u], job[u].req, job[u].response)
        BY <1>t, <4>1 DEF WorkerInv, JobReflected
      <4>3. /\ job'[u].step = "store" /\ job'[u].req = job[u].req
            /\ job'[u].response = job[u].response
        BY <3>2, ContinueDoes
      <4> QED
        BY <2>1, <4>2, <4>3 DEF JobReflected, Reflects, ClaimSteps
    <3> QED
      BY <1>2, <3>1, <3>2
  <2>5. HeldReflected(u)'
    <3> SUFFICES ASSUME NEW id \in RowIds, uncommitted[u][id] # NoRecord
                 PROVE  Reflects(Committed', uncommitted[u][id].request,
                                 uncommitted[u][id].response)
      BY <1>t DEF HeldReflected, Reflects
    <3>1. uncommitted[u][id].request \in Requests
      BY Tables DEF Draft
    <3> QED
      BY <3>1, ReflectsFurther DEF WorkerInv, HeldReflected
  <2> QED
    BY <1>t, <2>3, <2>4, <2>5 DEF WorkerInv, Backed, Sound
<1> QED
  BY <1>1, <1>2 DEF Persist

\* A response that is stored or held is one the committed state shows.
LEMMA HoldKeeps ==
    ASSUME TypeInv, NEW u \in Workers, WorkerInv(u), job[u].step = "store",
           UNCHANGED <<approvals, manager, revision, handlers, pending>>,
           \E x : Respond(u, job[u].req, x),
           \/ uncommitted' = [uncommitted EXCEPT ![u][job[u].row] =
                                 [request |-> job[u].req, response |-> job[u].response]]
           \/ uncommitted' = [uncommitted EXCEPT ![u][job[u].row] = NoRecord]
    PROVE  WorkerInv(u)'
<1>1. Current(u)' /\ Backed(manager[u])' /\ Committed' = Committed
  BY OwnKept, ExtendsItself DEF WorkerInv
<1>2. JobReflected(u)'
  BY RespondReflects
<1>3. HeldReflected(u)'
  <2> DEFINE held == [request |-> job[u].req, response |-> job[u].response]
  <2>1. \A id \in RowIds : uncommitted'[u][id] \in {uncommitted[u][id], held, NoRecord}
    BY Tables
  <2>2. Reflects(Committed, held.request, held.response)
    BY DEF WorkerInv, JobReflected
  <2> HIDE DEF held
  <2>3. ASSUME NEW id \in RowIds, uncommitted'[u][id] # NoRecord
        PROVE  Reflects(Committed, uncommitted'[u][id].request,
                                   uncommitted'[u][id].response)
    BY <2>1, <2>2, <2>3 DEF WorkerInv, HeldReflected
  <2> QED
    BY <1>1, <2>3 DEF HeldReflected, Reflects
<1> QED
  BY <1>1, <1>2, <1>3 DEF WorkerInv

\* _store_idempotent stores or holds what the committed state shows.
LEMMA StoreKeeps ==
    ASSUME TypeInv, NEW u \in Workers, WorkerInv(u), Store(u)
    PROVE  WorkerInv(u)'
<1>1. /\ job[u].step = "store"
      /\ UNCHANGED <<approvals, manager, revision, handlers, pending>>
      /\ \E x : Respond(u, job[u].req, x)
      /\ \/ uncommitted' = [uncommitted EXCEPT ![u][job[u].row] =
                               [request |-> job[u].req, response |-> job[u].response]]
         \/ uncommitted' = [uncommitted EXCEPT ![u][job[u].row] = NoRecord]
  BY DEF Store, Hold
<1> QED
  BY <1>1, HoldKeeps

\* A failed transaction leaves the committed state as it was.
LEMMA FailureKeeps ==
    ASSUME TypeInv, NEW u \in Workers, WorkerInv(u), StoreFails(u)
    PROVE  WorkerInv(u)'
<1>1. UNCHANGED <<approvals, manager, revision, handlers, pending>>
  BY DEF StoreFails
<1>2. CASE job[u].step = "store" /\ Hold(u, "unavailable")
  BY <1>1, <1>2, HoldKeeps DEF Hold
<1>3. CASE /\ \E r, x : Respond(u, r, x)
           /\ UNCHANGED uncommitted
  BY <1>1, <1>3, PlainKept, RespondReflects
<1>4. CASE /\ job[u].step \in {"claim", "settle"}
           /\ Continue(u, AfterOperation(u), "uncertain")
           /\ UNCHANGED uncommitted
  <2>1. JobReflected(u)'
    BY <1>1, <1>4, OverReflects DEF ClaimSteps
  <2> QED
    BY <1>1, <1>4, <2>1, PlainKept
<1> QED
  BY <1>2, <1>3, <1>4 DEF StoreFails

\* A process that crashes knows nothing, and one that starts what is committed.
LEMMA CrashKeeps ==
    ASSUME TypeInv, ApprovalsInv, NEW u \in Workers, Crash(u)
    PROVE  WorkerInv(u)'
<1>1. /\ manager'[u] = <<>> /\ revision'[u] = 0 /\ uncommitted'[u] = NothingUncommitted
      /\ job'[u].step = "down" /\ UNCHANGED approvals
  BY Tables DEF Crash, repository, DownJob
<1>2. approvals.revision \in Nat
  BY Tables
<1>3. Current(u)'
  <2>1. CASE approvals.revision = 0
    <3>1. DOMAIN Committed = {} /\ approvals.payload.pending = {}
      BY <2>1 DEF ApprovalsInv, NothingSaved, SavedState, Committed
    <3> QED
      BY <1>1, <2>1, <3>1 DEF Current, Extends, Committed
  <2>2. CASE approvals.revision # 0
    <3>1. 0 <= approvals.revision /\ approvals'.revision = approvals.revision
      BY <1>1, <1>2
    <3> QED
      BY <1>1, <2>2, <3>1 DEF Current
  <2> QED
    BY <2>1, <2>2
<1>4. JobReflected(u)'
  BY <1>1, FreeReflects
<1> QED
  BY <1>1, <1>3, <1>4 DEF WorkerInv, Backed, HeldReflected, NothingUncommitted

\* _restore_durable_state leaves out only what has no handler.
LEMMA RestartKeeps ==
    ASSUME TypeInv, ApprovalsInv, NEW u \in Workers, Restart(u)
    PROVE  WorkerInv(u)'
<1>1. PICK served \in Deployments :
         /\ handlers' = [handlers EXCEPT ![u] = served]
         /\ pending' = [pending EXCEPT ![u] = Resumable(approvals.payload, served)]
  BY DEF Restart
<1>2. /\ manager'[u] = Committed /\ revision'[u] = approvals.revision
      /\ uncommitted'[u] = uncommitted[u] /\ job'[u].step = "idle" /\ UNCHANGED approvals
      /\ handlers'[u] = served /\ pending'[u] = Resumable(approvals.payload, served)
  BY <1>1, Tables DEF Restart, repository, IdleJob, Committed
<1>3. Committed' = Committed /\ approvals.revision \in Nat
  BY <1>2, Tables DEF Committed
<1>4. Current(u)'
  <2>1. \A i \in approvals.payload.pending :
           i \in pending'[u] \/ Committed[i].subject.params \notin handlers'[u]
    BY <1>2 DEF Resumable, Committed
  <2>2. approvals'.revision <= approvals'.revision
    BY <1>2, <1>3
  <2> QED
    BY <1>2, <1>3, <2>1, <2>2, ExtendsItself DEF Current
<1>5. JobReflected(u)'
  BY <1>2, FreeReflects
<1>6. HeldReflected(u)'
  BY <1>2, <1>3 DEF ApprovalsInv, WorkerInv, HeldReflected, Reflects
<1> QED
  BY <1>2, <1>4, <1>5, <1>6 DEF ApprovalsInv, WorkerInv, Backed, Sound

-----------------------------------------------------------------------------
(* The invariant, and what follows from it.                                 *)

\* Every worker keeps what it promised, whoever takes the step.
LEMMA WorkersStep ==
    ASSUME TypeInv, ApprovalsInv, [Next]_vars, NEW w \in Workers
    PROVE  WorkerInv(w)'
<1>i. \A u \in Workers : WorkerInv(u)
  BY DEF ApprovalsInv
<1>c. /\ UNCHANGED approvals \/ approvals'.revision = approvals.revision + 1
      /\ Extends(Committed', Committed)
  BY CommittedStep
<1>1. ASSUME NEW u \in Workers, Alone(u), WorkerInv(u)' PROVE WorkerInv(w)'
  <2>1. CASE w = u
    BY <1>1, <2>1
  <2>2. CASE w # u
    BY <1>1, <1>c, <1>i, <2>2, OtherKept DEF Alone
  <2> QED
    BY <2>1, <2>2
<1>2. ASSUME UNCHANGED <<job, memory>> PROVE WorkerInv(w)'
  BY <1>2, <1>c, <1>i, OtherKept DEF memory
<1>3. ASSUME NEW u \in Workers, NEW r \in Requests,
             AnswerFromCache(u, r) \/ CommitLate(u, r) \/ Reserve(u, r)
      PROVE  WorkerInv(w)'
  BY <1>1, <1>3, <1>i, AloneRequests, RequestKeeps
<1>4. ASSUME NEW u \in Workers, NEW i \in ApprovalIds, ServeGet(u, i) PROVE WorkerInv(w)'
  BY <1>1, <1>4, <1>i, AloneServes, GetKeeps
<1>5. ASSUME NEW u \in Workers, Work(u) PROVE WorkerInv(w)'
  <2>1. ASSUME NEW o \in Outcomes, NEW g \in Governance, ServeDecision(u, o, g)
        PROVE  WorkerInv(w)'
    BY <1>1, <2>1, <1>i, AloneServes, DecisionKeeps
  <2>2. ASSUME NEW g \in Governance, ServeVote(u, g) PROVE WorkerInv(w)'
    BY <1>1, <2>2, <1>i, AloneServes, VoteKeeps
  <2>3. ASSUME NEW g \in Governance, ServeResume(u, g) PROVE WorkerInv(w)'
    BY <1>1, <2>3, <1>i, AloneServes, ResumeKeeps
  <2>4. ASSUME Peek(u) \/ Turned(u) PROVE WorkerInv(w)'
    <3>1. WorkerInv(u)'
      BY <2>4, <1>i, PlainKept, RespondReflects DEF Peek, Turned, memory, repository
    <3> QED
      BY <1>1, <2>4, <3>1, AloneServes
  <2>5. ASSUME Claim(u) \/ Operate(u) \/ Settle(u) PROVE WorkerInv(w)'
    BY <1>1, <2>5, <1>i, AloneWorks, OperationKeeps
  <2>6. ASSUME Persist(u) PROVE WorkerInv(w)'
    BY <1>1, <2>6, <1>c, <1>i, AloneWorks, PersistKeeps
  <2>7. ASSUME Store(u) PROVE WorkerInv(w)'
    BY <1>1, <2>7, <1>i, AloneWorks, StoreKeeps
  <2> QED
    BY <1>5, <2>1, <2>2, <2>3, <2>4, <2>5, <2>6, <2>7 DEF Work
<1>6. ASSUME NEW u \in Workers, StoreFails(u) PROVE WorkerInv(w)'
  BY <1>1, <1>6, <1>i, AloneWorks, FailureKeeps
<1>7. ASSUME NEW u \in Workers, Crash(u) \/ Restart(u) PROVE WorkerInv(w)'
  BY <1>1, <1>7, AloneWorks, CrashKeeps, RestartKeeps
<1>8. ASSUME Tick \/ \E id \in ClaimIds : Reconcile(id) PROVE WorkerInv(w)'
  BY <1>2, <1>8 DEF Tick, Reconcile
<1> QED
  BY <1>2, <1>3, <1>4, <1>5, <1>6, <1>7, <1>8 DEF Next, vars

\* An answer that becomes final is one the committed state shows.
LEMMA RowsReflected ==
    ASSUME TypeInv, ApprovalsInv, [Next]_vars, NEW id \in RowIds
    PROVE  RowReflected(id)'
<1>c. Extends(Committed', Committed)
  BY CommittedStep
<1> SUFFICES ASSUME rows'[id] # NoRecord, rows'[id].status = "complete"
             PROVE  Reflects(Committed', rows'[id].request, rows'[id].response)
  BY DEF RowReflected, Reflects
<1>1. CASE rows'[id] = rows[id]
  <2>1. rows[id].request \in Requests
    BY <1>1, Tables DEF RowRecord
  <2> QED
    BY <1>1, <1>c, <2>1, ReflectsFurther DEF ApprovalsInv, RowReflected
<1>2. ASSUME NEW w \in Workers, NEW r \in Requests, CommitLate(w, r), rows'[id] # rows[id]
      PROVE  Reflects(Committed', rows'[id].request, rows'[id].response)
  <2>1. /\ uncommitted[w][RowOf(r)].request = r /\ uncommitted[w][RowOf(r)] # NoRecord
        /\ rows' = [rows EXCEPT ![RowOf(r)] =
                       Completed(r, uncommitted[w][RowOf(r)].response)]
    BY <1>2 DEF CommitLate
  <2>2. rows'[id] = Completed(r, uncommitted[w][RowOf(r)].response)
    BY <1>2, <2>1, Tables
  <2>3. Reflects(Committed, r, uncommitted[w][RowOf(r)].response)
    BY <2>1, RequestTypes DEF ApprovalsInv, WorkerInv, HeldReflected
  <2>4. Reflects(Committed', r, uncommitted[w][RowOf(r)].response)
    BY <1>c, <2>3, ReflectsFurther
  <2> QED
    BY <2>2, <2>4 DEF Completed
<1>3. ASSUME NEW w \in Workers, NEW r \in Requests, Reserve(w, r), rows'[id] # rows[id]
      PROVE  FALSE
  <2>1. rows' = [rows EXCEPT ![RowOf(r)] = Reserved(r)]
    BY <1>3 DEF Reserve
  <2>2. rows'[id] = Reserved(r)
    BY <1>3, <2>1, Tables
  <2> QED
    BY <2>2 DEF Reserved
<1>4. ASSUME NEW w \in Workers, Store(w), rows'[id] # rows[id]
      PROVE  Reflects(Committed', rows'[id].request, rows'[id].response)
  <2>1. /\ job[w].step = "store"
        /\ rows' = [rows EXCEPT ![job[w].row] = Completed(job[w].req, job[w].response)]
    BY <1>4 DEF Store, Hold
  <2>2. rows'[id] = Completed(job[w].req, job[w].response)
    BY <1>4, <2>1, Tables
  <2>3. Reflects(Committed, job[w].req, job[w].response) /\ job[w].req \in Requests
    BY <2>1, StoringJob DEF ApprovalsInv, WorkerInv, JobReflected
  <2>4. Reflects(Committed', job[w].req, job[w].response)
    BY <1>c, <2>3, ReflectsFurther
  <2> QED
    BY <2>2, <2>4 DEF Completed
<1> QED
  BY <1>1, <1>2, <1>3, <1>4, RowsChange

\* Every step keeps the invariant of the approval state.
LEMMA ApprovalsInductive == TypeInv /\ ApprovalsInv /\ [Next]_vars => ApprovalsInv'
<1> SUFFICES ASSUME TypeInv, ApprovalsInv, [Next]_vars PROVE ApprovalsInv'
  OBVIOUS
<1>1. Backed(Committed)'
  BY CommittedStep DEF Backed, Sound
<1>2. approvals'.revision = 0 => approvals'.payload = NothingSaved
  <2>1. approvals.revision \in Nat
    BY Tables
  <2>2. CASE UNCHANGED approvals
    BY <2>2 DEF ApprovalsInv
  <2>3. CASE approvals'.revision = approvals.revision + 1
    BY <2>1, <2>3
  <2> QED
    BY <2>2, <2>3, CommittedStep
<1> QED
  BY <1>1, <1>2, WorkersStep, RowsReflected DEF ApprovalsInv, NothingSaved, SavedState

\* At the start nothing is saved and nothing promised.
LEMMA ApprovalsInitially == Init => ApprovalsInv
<1> SUFFICES ASSUME Init PROVE ApprovalsInv
  OBVIOUS
<1>1. /\ approvals.revision = 0 /\ approvals.payload = NothingSaved
      /\ DOMAIN Committed = {} /\ approvals.payload.pending = {}
      /\ \A w \in Workers : /\ DOMAIN manager[w] = {} /\ revision[w] = 0
                            /\ job[w].step = "idle"
                            /\ \A id \in RowIds : uncommitted[w][id] = NoRecord
      /\ \A id \in RowIds : rows[id] = NoRecord
  BY DEF Init, IdleJob, NothingUncommitted, Committed, NothingSaved, SavedState
<1>2. ASSUME NEW w \in Workers PROVE WorkerInv(w)
  <2>1. Current(w)
    BY <1>1 DEF Current, Extends
  <2>2. Backed(manager[w])
    BY <1>1 DEF Backed
  <2>3. JobReflected(w) /\ HeldReflected(w)
    BY <1>1 DEF JobReflected, HeldReflected, ClaimSteps
  <2> QED
    BY <2>1, <2>2, <2>3 DEF WorkerInv
<1> QED
  BY <1>1, <1>2 DEF ApprovalsInv, Backed, RowReflected

\* What clients were told about an approval is in the committed approval state
\* for good: no stale worker, failed save or crash loses it, and an operation
\* that was resumed had its quorum.
THEOREM AnswersSurvive == Spec => []AnswersAreDurable
<1>1. TypeInv /\ ApprovalsInv => AnswersAreDurable
  <2> SUFFICES ASSUME TypeInv, ApprovalsInv, NEW r \in Requests, Answered(r)
               PROVE  CASE Answer(r) = "escalated" ->
                             \E i \in DOMAIN Committed : Committed[i].subject = r
                        [] Answer(r) = "voted" ->
                             /\ r.approval \in DOMAIN Committed
                             /\ IF r.approve
                                THEN Committed[r.approval].votes[r.role] = r.who
                                ELSE Committed[r.approval].state = "denied"
                        [] Answer(r) = "executed" /\ r.scope = "resumes" ->
                             /\ r.approval \in DOMAIN Committed
                             /\ Committed[r.approval].consumed
                             /\ Cardinality(Voted(Committed[r.approval])) >= Quorum.threshold
                        [] OTHER -> TRUE
    BY DEF AnswersAreDurable
  <2>1. Reflects(Committed, r, Answer(r))
    BY RequestTypes DEF ApprovalsInv, RowReflected, Answered, Answer
  <2>2. Answer(r) = "executed" /\ r.scope = "resumes" =>
           Cardinality(Voted(Committed[r.approval])) >= Quorum.threshold
    BY <2>1 DEF Reflects, ApprovalsInv, Backed, Sound
  <2> QED
    BY <2>1, <2>2 DEF Reflects
<1> QED
  BY <1>1, TypeInitially, TypeInductive, ApprovalsInitially, ApprovalsInductive, PTL DEF Spec

\* A pending approval is dropped only by the save of a worker that was started
\* without its handler.
THEOREM PendingIsKept == Spec => PendingLossHasCause
<1>1. TypeInv /\ ApprovalsInv /\ [Next]_vars =>
         \A i \in approvals.payload.pending \ approvals'.payload.pending :
             \E w \in Workers : /\ Committed[i].subject.params \notin handlers[w]
                               /\ revision'[w] = approvals'.revision
  <2> SUFFICES ASSUME TypeInv, ApprovalsInv, [Next]_vars,
                      NEW i \in approvals.payload.pending \ approvals'.payload.pending
               PROVE  \E w \in Workers : /\ Committed[i].subject.params \notin handlers[w]
                                         /\ revision'[w] = approvals'.revision
    OBVIOUS
  <2>1. PICK w \in Workers :
           Persist(w) /\ approvals' = Saved(approvals, SavedState(manager[w], pending[w]))
    BY SavesChange
  <2>2. /\ revision[w] = approvals.revision
        /\ revision' = [revision EXCEPT ![w] = approvals'.revision]
    BY <2>1 DEF Persist, CanSave
  <2>3. i \notin pending[w]
    BY <2>1 DEF Saved, SavedState
  <2> QED
    BY <2>2, <2>3, Tables DEF ApprovalsInv, WorkerInv, Current
<1> QED
  BY <1>1, TypeInitially, TypeInductive, ApprovalsInitially, ApprovalsInductive, PTL
     DEF Spec, PendingLossHasCause

-----------------------------------------------------------------------------
(* Denials: who knows what is committed does not perform what was denied.   *)

\* The committed requests only go on: no save of any worker, however stale its
\* copy, drops a request, takes back a vote or opens again what is closed.
THEOREM CommittedGoesOn == Spec => CommittedOnlyAdvances
<1>1. TypeInv /\ ApprovalsInv /\ [Next]_vars
      => \A i \in DOMAIN Committed :
            /\ i \in DOMAIN Committed'
            /\ Advances(Committed[i], Committed'[i])
  BY CommittedStep DEF Extends
<1> QED
  BY <1>1, TypeInitially, TypeInductive, ApprovalsInitially, ApprovalsInductive, PTL
     DEF Spec, CommittedOnlyAdvances

\* No denied approval is committed for what is being performed by a worker
\* whose approval state is the committed one.
LEMMA CurrentHeedsDenials ==
    ASSUME OperationsInv, ApprovalsInv, NEW w \in Workers, Operate(w),
           revision[w] = approvals.revision,
           NEW i \in DOMAIN Committed, Committed[i].subject = Subject(w)
    PROVE  Committed[i].state # "denied"
<1> USE DEF OperationsInv
<1>1. job[w].step = "operate" /\ job[w].req \in Requests
  BY OwnedJob DEF Operate
<1>2. /\ Subject(w) \in Decisions
      /\ ClaimOf(job[w].req) \in PlaceIds
      /\ Place(Subject(w), ClaimOf(job[w].req))
  BY <1>1, OperatingJob DEF ClaimSteps
<1>3. i \in Nat /\ <<"approval", i>> \in PlaceIds
  BY Tables DEF Committed, PlaceIds, TypeInv, TypeOK
<1>4. Place(Subject(w), <<"approval", i>>)
  BY <1>3 DEF Place, At
<1>5. ClaimOf(job[w].req) = <<"approval", i>>
  BY <1>2, <1>3, <1>4 DEF PlacesInv
<1>6. job[w].req.scope = "resumes" /\ job[w].req.approval = i
  BY <1>1, <1>5 DEF ClaimOf, TypeInv, JobOK, ClaimSteps
<1>7. WorkerInv(w)
  BY DEF ApprovalsInv
<1>8. manager[w][i].consumed
  BY <1>1, <1>6, <1>7 DEF WorkerInv, JobReflected, ClaimSteps
<1>9. i \in DOMAIN manager[w] /\ Advances(Committed[i], manager[w][i])
  BY <1>7 DEF WorkerInv, Current, Extends
<1>10. manager[w][i].state = "approved"
  BY <1>7, <1>8, <1>9 DEF WorkerInv, Backed, Sound
<1> QED
  BY <1>9, <1>10 DEF Advances, BoundTo

\* What is performed in spite of a committed denial is performed by a worker that
\* has not seen the last committed approval state.
THEOREM OnlyStaleMissDenials == Spec => DenialsEscapeOnlyStale
<1>1. /\ OperationsInv /\ ApprovalsInv /\ [Next]_vars
      => \A d \in Decisions : effects'[d] > effects[d] =>
            \A i \in DOMAIN Committed :
                Committed[i].subject = d /\ Committed[i].state = "denied" =>
                    \E w \in Workers : /\ job[w].step = "operate" /\ Subject(w) = d
                                      /\ revision[w] < approvals.revision
  <2> SUFFICES ASSUME OperationsInv, ApprovalsInv, [Next]_vars,
                      NEW d \in Decisions, effects'[d] > effects[d],
                      NEW i \in DOMAIN Committed,
                      Committed[i].subject = d, Committed[i].state = "denied"
               PROVE  \E w \in Workers : /\ job[w].step = "operate" /\ Subject(w) = d
                                         /\ revision[w] < approvals.revision
    OBVIOUS
  <2>1. /\ effects \in [Decisions -> Nat] /\ TypeInv
        /\ revision \in [Workers -> Nat] /\ approvals.revision \in Nat
    BY DEF OperationsInv, TypeInv, TypeOK
  <2>2. PICK w \in Workers : Operate(w)
    BY <2>1, EffectsChange
  <2>3. job[w].step = "operate" /\ d = Subject(w)
    BY <2>1, <2>2, OperateDoes
  <2>4. revision[w] # approvals.revision
    BY <2>2, <2>3, CurrentHeedsDenials
  <2>5. revision[w] <= approvals.revision
    BY DEF ApprovalsInv, WorkerInv, Current
  <2>6. revision[w] < approvals.revision
    BY <2>1, <2>4, <2>5
  <2> QED
    BY <2>3, <2>6
<1>2. /\ OperationsInv /\ ApprovalsInv /\ [Next]_vars
      => (OperationsInv /\ ApprovalsInv)'
  BY OperationsInductive, ApprovalsInductive DEF OperationsInv
<1> QED
  BY <1>1, <1>2, OperationsInitially, ApprovalsInitially, PTL
     DEF Spec, DenialsEscapeOnlyStale

\* A worker that is alone and up has saved or restored what is committed.
OnlyWorkerInv(w) == job[w].step # "down" => revision[w] = approvals.revision

\* Every step keeps that.
LEMMA OnlyWorkerStep ==
    ASSUME NEW w, Workers = {w}, TypeInv, OnlyWorkerInv(w), [Next]_vars
    PROVE  OnlyWorkerInv(w)'
<1>t. job \in [Workers -> JobType] /\ revision \in [Workers -> Nat]
  BY DEF TypeInv, TypeOK, JobType
<1>1. ASSUME UNCHANGED <<revision, approvals>>, job[w].step # "down"
      PROVE  OnlyWorkerInv(w)'
  BY <1>1 DEF OnlyWorkerInv
<1>2. ASSUME UNCHANGED <<revision, approvals, job>> PROVE OnlyWorkerInv(w)'
  BY <1>2 DEF OnlyWorkerInv
<1>3. CASE Work(w) /\ ~Persist(w)
  <2>1. UNCHANGED <<revision, approvals>> /\ job[w].step # "down"
    BY <1>3 DEF Work, Peek, ServeDecision, Turned, ServeVote, ServeResume, Admitted, Claim,
                Operate, Settle, Store, Hold, repository, memory
  <2> QED
    BY <1>1, <2>1
<1>4. CASE Persist(w)
  <2>1. CASE CanSave(approvals, revision[w])
    BY <1>t, <1>4, <2>1 DEF Persist, OnlyWorkerInv
  <2>2. CASE ~CanSave(approvals, revision[w])
    BY <1>1, <1>4, <2>2 DEF Persist
  <2> QED
    BY <2>1, <2>2
<1>5. CASE \/ \E r \in Requests :
                 AnswerFromCache(w, r) \/ CommitLate(w, r) \/ Reserve(w, r)
           \/ \E i \in ApprovalIds : ServeGet(w, i)
           \/ StoreFails(w)
  <2>1. UNCHANGED <<revision, approvals>> /\ job[w].step # "down"
    BY <1>5 DEF AnswerFromCache, CommitLate, Reserve, ServeGet, StoreFails, repository, memory
  <2> QED
    BY <1>1, <2>1
<1>6. CASE Crash(w)
  BY <1>t, <1>6 DEF Crash, OnlyWorkerInv, DownJob, IdleJob
<1>7. CASE Restart(w)
  BY <1>t, <1>7 DEF Restart, OnlyWorkerInv, repository
<1>8. CASE Tick \/ \E id \in ClaimIds : Reconcile(id)
  BY <1>2, <1>8 DEF Tick, Reconcile, repository, memory
<1>9. CASE UNCHANGED vars
  BY <1>2, <1>9 DEF vars, repository, memory
<1> QED
  BY <1>3, <1>4, <1>5, <1>6, <1>7, <1>8, <1>9 DEF Next

\* A service with one worker performs nothing whose denial is committed.
THEOREM OneWorkerHeedsDenials ==
    ASSUME NEW w, Workers = {w}
    PROVE  Spec => DeniedNeverExecutes
<1>1. Init => OnlyWorkerInv(w)
  BY DEF Init, OnlyWorkerInv
<1>2. /\ OperationsInv /\ ApprovalsInv /\ OnlyWorkerInv(w) /\ [Next]_vars
      => \A d \in Decisions : effects'[d] > effects[d] =>
            \A i \in DOMAIN Committed :
                Committed[i].subject = d => Committed[i].state # "denied"
  <2> SUFFICES ASSUME OperationsInv, ApprovalsInv, OnlyWorkerInv(w), [Next]_vars,
                      NEW d \in Decisions, effects'[d] > effects[d],
                      NEW i \in DOMAIN Committed, Committed[i].subject = d
               PROVE  Committed[i].state # "denied"
    OBVIOUS
  <2>1. effects \in [Decisions -> Nat] /\ TypeInv
    BY DEF OperationsInv, TypeInv, TypeOK
  <2>2. Operate(w)
    BY <2>1, EffectsChange
  <2>3. d = Subject(w)
    BY <2>1, <2>2, OperateDoes
  <2>4. revision[w] = approvals.revision
    BY <2>2 DEF Operate, OnlyWorkerInv
  <2> QED
    BY <2>2, <2>3, <2>4, CurrentHeedsDenials
<1>3. /\ OperationsInv /\ ApprovalsInv /\ OnlyWorkerInv(w) /\ [Next]_vars
      => (OperationsInv /\ ApprovalsInv /\ OnlyWorkerInv(w))'
  BY OperationsInductive, ApprovalsInductive, OnlyWorkerStep DEF OperationsInv
<1> QED
  BY <1>1, <1>2, <1>3, OperationsInitially, ApprovalsInitially, PTL
     DEF Spec, DeniedNeverExecutes
=============================================================================
