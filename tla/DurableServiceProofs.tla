------------------------- MODULE DurableServiceProofs -------------------------
(***************************************************************************)
(* What is proved of the durable service, for any number of workers, keys,   *)
(* requests, crashes and failed transactions.                                *)
(***************************************************************************)
EXTENDS DurableService, FiniteSetTheorems, TLAPS

Gets == {Get(i) : i \in ApprovalIds}

\* The steps of a job that owns the reservation of its request, ...
OwningSteps == {"serve", "claim", "operate", "settle", "persist", "store"}

\* ... and those between the claim on its operation and its result.
ClaimSteps == {"claim", "operate", "settle"}

\* What a job carries at each of its steps.
JobOK(w) ==
    LET j == job[w]
    IN  /\ j.step \in {"peek", "serve", "claim", "operate", "settle", "store"} =>
               j.req \in Requests
        /\ j.step = "persist" => j.req \in Requests \cup Gets
        /\ j.step \in OwningSteps /\ j.req \in Requests =>
               \/ j.row = RowOf(j.req)
               \/ /\ j.row = <<"decisions", j.req.key>>
                  /\ j.req.scope = "resumes"
                  /\ j.response = "forbidden"
                  /\ j.step = "store"
        /\ j.step \in ClaimSteps => \/ j.req.scope = "decisions"
                                    \/ /\ j.req.scope = "resumes"
                                       /\ j.req.approval \in DOMAIN manager[w]
        /\ j.step = "settle" => j.response \in Results \cup {"uncertain"}
        /\ j.step = "store" \/ (j.step = "persist" /\ j.req \in Requests) =>
               j.response \in Drafts
        /\ j.step = "persist" /\ j.req \in Gets => j.response \in Responses

\* A row that is complete carries an answer.
RowOK(row) == row # NoRecord /\ row.status = "complete" => row.response \in Answers

TypeInv ==
    /\ TypeOK
    /\ \A w \in Workers : JobOK(w)
    /\ \A id \in RowIds : RowOK(rows[id])

\* What a job may carry as its response, sent or not.
Carried == Responses \cup {"unstorable"}

\* What the repository can encode of it, rows and clients may be given.
LEMMA EncodableDraft ==
    /\ \A x \in Drafts : Encodable(x) => x \in Answers
    /\ Drafts \subseteq Carried /\ Answers \subseteq Responses /\ Answers \subseteq Drafts
    /\ Results \cup {"uncertain"} \subseteq Drafts
  BY DEF Drafts, Results, Encodable, Answers, Responses, Carried

\* Setting a value of a table of tables.
LEMMA PutType ==
    ASSUME NEW A, NEW B, NEW T, NEW f \in [A -> [B -> T]], NEW a \in A, NEW b \in B,
           NEW t \in T
    PROVE  /\ [f EXCEPT ![a][b] = t] \in [A -> [B -> T]]
           /\ \A x \in A, y \in B : [f EXCEPT ![a][b] = t][x][y] =
                 IF x = a /\ y = b THEN t ELSE f[x][y]
  OBVIOUS

-----------------------------------------------------------------------------
(* Requests, records and transitions have their types.                      *)

\* A request has what its scope says, and ids of the tables.
LEMMA RequestTypes ==
    ASSUME NEW r \in Requests
    PROVE  /\ r.scope \in Scopes /\ r.key \in Keys /\ RowOf(r) \in RowIds
           /\ r.scope = "decisions" => r \in Decisions /\ r.params \in Params
           /\ r.scope # "decisions" => r.approval \in ApprovalIds /\ r.approval \in Nat \ {0}
           /\ r.scope \in {"decisions", "resumes"} => ClaimOf(r) \in ClaimIds
           /\ r.scope = "votes" => r.approve \in BOOLEAN /\ r.role \in Roles
           /\ r.scope # "decisions" => r.who \in Callers
           /\ r.scope # "get"
<1>1. r \in DecisionRequest \cup VoteRequest \cup ResumeRequest
  BY DurableServiceAssumption
<1>2. CASE r \in DecisionRequest
  BY <1>2 DEF DecisionRequest, Scopes, RowOf, RowIds, Decisions, ClaimOf, ClaimIds
<1>3. CASE r \in VoteRequest
  BY <1>3 DEF VoteRequest, Scopes, RowOf, RowIds, Decisions, ApprovalIds
<1>4. CASE r \in ResumeRequest
  BY <1>4 DEF ResumeRequest, Scopes, RowOf, RowIds, Decisions, ApprovalIds, ClaimOf, ClaimIds
<1> QED
  BY <1>1, <1>2, <1>3, <1>4

\* A new request is a record of its type.
LEMMA NewRequestType ==
    ASSUME NEW d \in Decisions, NEW g \in Governance, NEW t \in Nat
    PROVE  NewRequest(d, g, Quorum, t, Ttl) \in ApprovalRecord
<1>1. Quorum.roles \in SUBSET Roles /\ Quorum.threshold \in Nat \ {0}
  BY DurableServiceAssumption DEF Quorums
<1>2. t + Ttl \in Nat
  BY DurableServiceAssumption
<1> QED
  BY <1>1, <1>2 DEF NewRequest, ApprovalRecord, RequestStates

\* What happens to a request leaves it one, of the same subject.
LEMMA TransitionTypes ==
    ASSUME NEW req \in ApprovalRecord
    PROVE  /\ \A t \in Nat : /\ Expire(req, t) \in ApprovalRecord
                             /\ Expire(req, t).subject = req.subject
           /\ \A role \in Roles, who \in People :
                 /\ Approve(req, role, who) \in ApprovalRecord
                 /\ Approve(req, role, who).subject = req.subject
           /\ Deny(req) \in ApprovalRecord /\ Deny(req).subject = req.subject
           /\ Consume(req) \in ApprovalRecord /\ Consume(req).subject = req.subject
<1>1. \A t \in Nat : /\ Expire(req, t) \in ApprovalRecord
                     /\ Expire(req, t).subject = req.subject
  BY DEF Expire, ApprovalRecord, RequestStates
<1>2. ASSUME NEW role \in Roles, NEW who \in People
      PROVE  /\ Approve(req, role, who) \in ApprovalRecord
             /\ Approve(req, role, who).subject = req.subject
  <2> DEFINE voted == [req EXCEPT !.votes[role] = who]
  <2>1. voted \in ApprovalRecord /\ voted.subject = req.subject
    BY DEF ApprovalRecord
  <2>2. Approve(req, role, who) \in {voted, [voted EXCEPT !.state = "approved"]}
    BY DEF Approve
  <2> HIDE DEF voted
  <2>3. /\ [voted EXCEPT !.state = "approved"] \in ApprovalRecord
        /\ [voted EXCEPT !.state = "approved"].subject = voted.subject
    BY <2>1 DEF ApprovalRecord, RequestStates
  <2> QED
    BY <2>1, <2>2, <2>3
<1>3. Deny(req) \in ApprovalRecord /\ Deny(req).subject = req.subject
  BY DEF Deny, ApprovalRecord, RequestStates
<1>4. Consume(req) \in ApprovalRecord /\ Consume(req).subject = req.subject
  BY DEF Consume, ApprovalRecord
<1> QED
  BY <1>1, <1>2, <1>3, <1>4

-----------------------------------------------------------------------------
(* Every step keeps the types.                                              *)

JobType ==
    [step : Steps,
     req : Requests \cup {Get(i) : i \in ApprovalIds} \cup {NoRecord},
     row : RowIds \cup {NoRecord},
     response : Responses \cup {"unstorable", NoRecord}]

\* What a step of w does not touch of the other workers stays right.
LEMMA OthersOK ==
    ASSUME TypeInv, NEW w \in Workers, JobOK(w)',
           \A v \in Workers \ {w} : job'[v] = job[v] /\ manager'[v] = manager[v]
    PROVE  \A v \in Workers : JobOK(v)'
  BY DEF TypeInv, JobOK

\* A worker that responds is free.
LEMMA RespondOK ==
    ASSUME TypeInv, NEW w \in Workers, NEW r \in Requests \cup Gets, NEW x \in Responses,
           Respond(w, r, x)
    PROVE  /\ job' \in [Workers -> JobType]
           /\ reply' \in [req : Requests \cup {Get(i) : i \in ApprovalIds},
                         response : Responses]
           /\ JobOK(w)'
           /\ job'[w] = IdleJob
           /\ \A v \in Workers \ {w} : job'[v] = job[v]
<1>1. job \in [Workers -> JobType]
  BY DEF TypeInv, TypeOK, JobType
<1>2. IdleJob \in JobType
  BY DEF IdleJob, JobType, Steps
<1>3. /\ job' \in [Workers -> JobType]
      /\ job'[w] = IdleJob
      /\ \A v \in Workers \ {w} : job'[v] = job[v]
  BY <1>1, <1>2 DEF Respond
<1>4. JobOK(w)'
  BY <1>3 DEF JobOK, IdleJob, OwningSteps, ClaimSteps
<1>5. reply' = [req |-> r, response |-> x]
  BY DEF Respond
<1> QED
  BY <1>3, <1>4, <1>5 DEF Gets

\* A worker that goes on has the same request and row.
LEMMA ContinueOK ==
    ASSUME TypeInv, NEW w \in Workers, NEW step \in Steps,
           NEW x \in Carried \cup {NoRecord}, Continue(w, step, x)
    PROVE  /\ job' \in [Workers -> JobType]
           /\ reply' = NoRecord
           /\ job'[w].step = step /\ job'[w].response = x
           /\ job'[w].req = job[w].req /\ job'[w].row = job[w].row
           /\ \A v \in Workers \ {w} : job'[v] = job[v]
<1>1. job \in [Workers -> JobType]
  BY DEF TypeInv, TypeOK, JobType
<1> QED
  BY <1>1 DEF Continue, JobType, Carried

\* Steps that only respond, ...
LEMMA RespondOnlyTypes ==
    ASSUME TypeInv, NEW w \in Workers, NEW r \in Requests \cup Gets, NEW x \in Responses,
           Respond(w, r, x), UNCHANGED <<now, repository, memory, effects>>
    PROVE  TypeInv'
<1>1. TypeOK'
  BY RespondOK DEF TypeInv, TypeOK, JobType, repository, memory
<1>2. \A v \in Workers : JobOK(v)'
  BY RespondOK, OthersOK DEF memory
<1> QED
  BY <1>1, <1>2 DEF TypeInv, repository, RowOK

\* _idempotent from memory keeps the types.
LEMMA AnswerFromCacheTypes ==
    ASSUME TypeInv, NEW w \in Workers, NEW r \in Requests, AnswerFromCache(w, r)
    PROVE  TypeInv'
<1>1. cache[w][r.key] \in Entry
  BY RequestTypes DEF AnswerFromCache, TypeInv, TypeOK
<1>2. PICK x \in Responses : Respond(w, r, x)
  BY <1>1 DEF AnswerFromCache, Entry, Answers, Responses
<1> QED
  BY <1>2, RespondOnlyTypes DEF AnswerFromCache

\* load_execution keeps the types.
LEMMA PeekTypes ==
    ASSUME TypeInv, NEW w \in Workers, Peek(w)
    PROVE  TypeInv'
<1>1. job[w].req \in Requests
  BY DEF Peek, TypeInv, JobOK
<1>2. PICK x \in Responses : Respond(w, job[w].req, x)
  BY DEF Peek, Responses
<1> QED
  BY <1>1, <1>2, RespondOnlyTypes DEF Peek

\* A vote or resume that is turned away keeps the types.
LEMMA TurnedTypes ==
    ASSUME TypeInv, NEW w \in Workers, Turned(w)
    PROVE  TypeInv'
<1>1. job[w].req \in Requests
  BY DEF Turned, TypeInv, JobOK
<1>2. PICK x \in Responses : Respond(w, job[w].req, x)
  BY DEF Turned, Responses
<1> QED
  BY <1>1, <1>2, RespondOnlyTypes DEF Turned

\* ... that commit a held response, ...
LEMMA CommitLateTypes ==
    ASSUME TypeInv, NEW w \in Workers, NEW r \in Requests, CommitLate(w, r)
    PROVE  TypeInv'
<1> DEFINE id == RowOf(r)
           held == uncommitted[w][id]
<1>1. id \in RowIds /\ r.key \in Keys
  BY RequestTypes
<1>2. held \in Draft
  BY <1>1 DEF CommitLate, TypeInv, TypeOK
<1>3. CanComplete(rows[id], r, held.response) =>
         held.response \in Responses /\ held.response \in Answers
  BY <1>2, EncodableDraft DEF CanComplete, Draft
<1>4. PICK x \in Responses : Respond(w, r, x)
  BY <1>3 DEF CommitLate, Refusal, Responses
<1>5. CanComplete(rows[id], r, held.response) =>
         /\ Completed(r, held.response) \in RowRecord
         /\ RowOK(Completed(r, held.response))
         /\ held \in Entry
  BY <1>2, <1>3 DEF Completed, RowRecord, RowOK, Draft, Entry
<1>6. /\ rows' \in [RowIds -> RowRecord \cup {NoRecord}]
      /\ \A i \in RowIds : RowOK(rows'[i])
  <2>1. \/ /\ CanComplete(rows[id], r, held.response)
           /\ rows' = [rows EXCEPT ![id] = Completed(r, held.response)]
        \/ rows' = rows
    BY DEF CommitLate
  <2>2. CanComplete(rows[id], r, held.response) => RowOK(Completed(r, held.response))
    BY <1>5
  <2>3. rows \in [RowIds -> RowRecord \cup {NoRecord}] /\ \A i \in RowIds : RowOK(rows[i])
    BY DEF TypeInv, TypeOK
  <2>4. rows' \in [RowIds -> RowRecord \cup {NoRecord}]
    BY <1>1, <1>5, <2>1, <2>3
  <2>5. ASSUME NEW i \in RowIds PROVE RowOK(rows'[i])
    <3>1. \/ rows'[i] = rows[i]
          \/ /\ CanComplete(rows[id], r, held.response)
             /\ rows'[i] = Completed(r, held.response)
      BY <1>1, <2>1, <2>3
    <3> QED
      BY <2>2, <2>3, <3>1
  <2> QED
    BY <2>4, <2>5
<1>c. /\ cache \in [Workers -> [Keys -> Entry \cup {NoRecord}]]
      /\ uncommitted \in [Workers -> [RowIds -> Draft \cup {NoRecord}]]
  BY DEF TypeInv, TypeOK
<1>7. cache' \in [Workers -> [Keys -> Entry \cup {NoRecord}]]
  <2>1. held \in Entry =>
           [cache EXCEPT ![w][r.key] = held] \in [Workers -> [Keys -> Entry \cup {NoRecord}]]
    BY <1>1, <1>c, PutType
  <2> QED
    BY <1>5, <1>c, <2>1 DEF CommitLate
<1>8. uncommitted' \in [Workers -> [RowIds -> Draft \cup {NoRecord}]]
  <2>1. [uncommitted EXCEPT ![w][id] = NoRecord]
          \in [Workers -> [RowIds -> Draft \cup {NoRecord}]]
    BY <1>1, <1>c, PutType
  <2> QED
    BY <1>c, <2>1 DEF CommitLate
<1>9. TypeOK'
  BY <1>4, <1>6, <1>7, <1>8, RespondOK DEF CommitLate, TypeInv, TypeOK, JobType
<1>10. \A v \in Workers : JobOK(v)'
  BY <1>4, RespondOK, OthersOK DEF CommitLate
<1> QED
  BY <1>6, <1>9, <1>10 DEF TypeInv

\* ... and that reserve a key.
LEMMA ReserveTypes ==
    ASSUME TypeInv, NEW w \in Workers, NEW r \in Requests, Reserve(w, r)
    PROVE  TypeInv'
<1> DEFINE id == RowOf(r)
           row == rows[id]
<1>1. id \in RowIds /\ r.key \in Keys
  BY RequestTypes
<1>2. row \in RowRecord \cup {NoRecord}
  BY <1>1 DEF TypeInv, TypeOK
<1>3. Reserved(r) \in RowRecord
  BY DEF Reserved, RowRecord
<1>4. /\ rows' \in [RowIds -> RowRecord \cup {NoRecord}]
      /\ \A i \in RowIds : RowOK(rows'[i])
  <2>1. rows' = [rows EXCEPT ![id] = Reserved(r)] \/ rows' = rows
    BY DEF Reserve
  <2>2. RowOK(Reserved(r))
    BY DEF RowOK, Reserved
  <2>3. rows \in [RowIds -> RowRecord \cup {NoRecord}] /\ \A i \in RowIds : RowOK(rows[i])
    BY DEF TypeInv, TypeOK
  <2>4. rows' \in [RowIds -> RowRecord \cup {NoRecord}]
    BY <1>1, <1>3, <2>1, <2>3
  <2>5. ASSUME NEW i \in RowIds PROVE RowOK(rows'[i])
    <3>1. rows'[i] = rows[i] \/ rows'[i] = Reserved(r)
      BY <1>1, <2>1, <2>3
    <3> QED
      BY <2>2, <2>3, <3>1
  <2> QED
    BY <2>4, <2>5
<1>5. ASSUME NEW step \in {"serve", "peek"},
             job' = [job EXCEPT ![w] = [step |-> step, req |-> r,
                                        row |-> id, response |-> NoRecord]],
             reply' = NoRecord, UNCHANGED cache
      PROVE  TypeInv'
  <2>1. job \in [Workers -> JobType]
    BY DEF TypeInv, TypeOK, JobType
  <2>2. [step |-> step, req |-> r, row |-> id, response |-> NoRecord] \in JobType
    BY <1>1 DEF JobType, Steps
  <2>3. /\ job' \in [Workers -> JobType]
        /\ job'[w] = [step |-> step, req |-> r, row |-> id, response |-> NoRecord]
        /\ \A v \in Workers \ {w} : job'[v] = job[v]
    BY <1>5, <2>1, <2>2
  <2>4. JobOK(w)'
    BY <2>3 DEF JobOK, OwningSteps, ClaimSteps
  <2>5. TypeOK'
    BY <1>4, <1>5, <2>3 DEF Reserve, TypeInv, TypeOK, JobType
  <2>6. \A v \in Workers : JobOK(v)'
    BY <2>3, <2>4, OthersOK DEF Reserve
  <2> QED
    BY <1>4, <2>5, <2>6 DEF TypeInv
<1>6. ASSUME NEW x \in Responses, Respond(w, r, x),
             cache' \in [Workers -> [Keys -> Entry \cup {NoRecord}]]
      PROVE  TypeInv'
  <2>1. TypeOK'
    BY <1>4, <1>6, RespondOK DEF Reserve, TypeInv, TypeOK, JobType
  <2>2. \A v \in Workers : JobOK(v)'
    BY <1>6, RespondOK, OthersOK DEF Reserve
  <2> QED
    BY <1>4, <2>1, <2>2 DEF TypeInv
<1>7. cache \in [Workers -> [Keys -> Entry \cup {NoRecord}]]
  BY DEF TypeInv, TypeOK
<1>8. CASE /\ job' = [job EXCEPT ![w] = [step |-> "serve", req |-> r,
                                         row |-> id, response |-> NoRecord]]
           /\ reply' = NoRecord
           /\ UNCHANGED cache
  BY <1>5, <1>8
<1>9. CASE Respond(w, r, "key_conflict") /\ UNCHANGED cache
  BY <1>6, <1>7, <1>9 DEF Responses
<1>10. CASE /\ row # NoRecord /\ row.status = "complete"
            /\ cache' = [cache EXCEPT ![w][r.key] =
                            [request |-> r, response |-> row.response]]
            /\ Respond(w, r, row.response)
            /\ row.response \in Answers
  <2>1. row.response \in Responses
    BY <1>10 DEF Answers, Responses
  <2>2. [request |-> r, response |-> row.response] \in Entry
    BY <1>10 DEF Entry
  <2>3. cache' \in [Workers -> [Keys -> Entry \cup {NoRecord}]]
    BY <1>1, <1>7, <1>10, <2>2
  <2> QED
    BY <1>6, <1>10, <2>1, <2>3
<1>11. CASE /\ row # NoRecord
            /\ row.status = "in_progress"
            /\ IF r.scope = "decisions"
               THEN /\ job' = [job EXCEPT ![w] = [step |-> "peek", req |-> r,
                                             row |-> id, response |-> NoRecord]]
                    /\ reply' = NoRecord
               ELSE Respond(w, r, "in_progress")
            /\ UNCHANGED cache
  BY <1>5, <1>6, <1>7, <1>11 DEF Responses
<1>12. RowOK(row)
  BY <1>1 DEF TypeInv
<1>13. row # NoRecord /\ row.status = "complete" => row.response \in Answers
  BY <1>12 DEF RowOK
<1> QED
  BY <1>8, <1>9, <1>10, <1>11, <1>13 DEF Reserve

\* No request comes or goes, and none gets another subject.
SubjectsKept(w) ==
    /\ manager' \in [Workers -> Seq(ApprovalRecord)]
    /\ \A v \in Workers \ {w} : manager'[v] = manager[v]
    /\ DOMAIN manager'[w] = DOMAIN manager[w]
    /\ \A i \in DOMAIN manager[w] : manager'[w][i].subject = manager[w][i].subject

\* One request rewritten, of the subject it had.
LEMMA SetKeepsSubjects ==
    ASSUME TypeInv, NEW w \in Workers, NEW i \in DOMAIN manager[w],
           NEW x \in ApprovalRecord, x.subject = manager[w][i].subject,
           manager' = [manager EXCEPT ![w][i] = x]
    PROVE  SubjectsKept(w)
<1>1. manager \in [Workers -> Seq(ApprovalRecord)]
  BY DEF TypeInv, TypeOK
<1>2. manager' = [manager EXCEPT ![w] = [manager[w] EXCEPT ![i] = x]]
  BY <1>1
<1>3. /\ [manager[w] EXCEPT ![i] = x] \in Seq(ApprovalRecord)
      /\ DOMAIN [manager[w] EXCEPT ![i] = x] = DOMAIN manager[w]
      /\ \A j \in DOMAIN manager[w] :
            [manager[w] EXCEPT ![i] = x][j] = IF j = i THEN x ELSE manager[w][j]
  BY <1>1
<1> QED
  BY <1>1, <1>2, <1>3 DEF SubjectsKept

\* A job that goes on with its operation or to its response.
LEMMA ProceedOK ==
    ASSUME TypeInv, NEW w \in Workers, SubjectsKept(w),
           NEW step \in Steps \ {"idle", "down", "peek", "serve", "settle"},
           NEW x \in Responses \cup {NoRecord}, Continue(w, step, x),
           job[w].step \in OwningSteps, job[w].req \in Requests,
           job[w].row = RowOf(job[w].req),
           step \in {"persist", "store"} => x \in Answers,
           step \in {"claim", "operate"} =>
               \/ job[w].req.scope = "decisions"
               \/ job[w].req.scope = "resumes" /\ job[w].req.approval \in DOMAIN manager[w]
    PROVE  \A v \in Workers : JobOK(v)'
<1>1. JobOK(w)'
  BY ContinueOK, EncodableDraft, RequestTypes
     DEF JobOK, SubjectsKept, OwningSteps, ClaimSteps, Steps, Carried, Gets, Get
<1> QED
  BY <1>1, ContinueOK, OthersOK DEF SubjectsKept, Carried

\* The job of a step that owns its reservation, when it is no GET.
LEMMA OwnedJob ==
    ASSUME TypeInv, NEW w \in Workers,
           job[w].step \in {"serve", "claim", "operate", "settle"}
    PROVE  /\ job[w].req \in Requests
           /\ job[w].row = RowOf(job[w].req)
           /\ job[w].step \in ClaimSteps =>
                 \/ job[w].req.scope = "decisions"
                 \/ job[w].req.scope = "resumes" /\ job[w].req.approval \in DOMAIN manager[w]
           /\ job[w].step = "settle" => job[w].response \in Results \cup {"uncertain"}
  BY DEF TypeInv, JobOK, OwningSteps, ClaimSteps

\* _decision keeps the types, whatever the policy says.
LEMMA ServeDecisionTypes ==
    ASSUME TypeInv, NEW w \in Workers, NEW outcome \in Outcomes, NEW g \in Governance,
           ServeDecision(w, outcome, g)
    PROVE  TypeInv'
<1> DEFINE d == job[w].req
<1>1. /\ d \in Requests /\ d.scope = "decisions" /\ d \in Decisions
      /\ job[w].row = RowOf(d) /\ job[w].step = "serve"
  BY OwnedJob DEF ServeDecision, Decisions
<1>m. /\ manager \in [Workers -> Seq(ApprovalRecord)] /\ now \in Nat
      /\ pending \in [Workers -> SUBSET (Nat \ {0})]
      /\ \A v \in Workers : pending[v] \subseteq DOMAIN manager[v]
  BY DEF TypeInv, TypeOK
<1>2. PICK step \in {"store", "claim", "persist"}, x \in {"refused", NoRecord, "escalated"} :
        /\ Continue(w, step, x)
        /\ step # "claim" => x \in {"refused", "escalated"}
        /\ x \in Carried \cup {NoRecord}
  BY DEF ServeDecision, Responses, Carried
<1>3. JobOK(w)'
  BY <1>1, <1>2, ContinueOK, EncodableDraft, RequestTypes
     DEF JobOK, OwningSteps, ClaimSteps, Answers, Steps, Gets, Get
<1>4. /\ job' \in [Workers -> JobType] /\ reply' = NoRecord
      /\ \A v \in Workers \ {w} : job'[v] = job[v]
  BY <1>2, ContinueOK DEF Steps
<1>5. CASE UNCHANGED <<manager, pending>>
  <2>1. TypeOK'
    BY <1>4, <1>5 DEF ServeDecision, repository, TypeInv, TypeOK, JobType
  <2>2. \A v \in Workers : JobOK(v)'
    BY <1>3, <1>4, <1>5, OthersOK
  <2> QED
    BY <2>1, <2>2 DEF ServeDecision, repository, TypeInv, RowOK
<1>6. CASE /\ manager' = [manager EXCEPT ![w] = Append(@,
                             NewRequest(d, g, Quorum, now, Ttl))]
           /\ pending' = [pending EXCEPT ![w] = @ \cup {Len(manager'[w])}]
  <2>1. NewRequest(d, g, Quorum, now, Ttl) \in ApprovalRecord
    BY <1>1, <1>m, NewRequestType
  <2>2. /\ manager' \in [Workers -> Seq(ApprovalRecord)]
        /\ Len(manager'[w]) \in DOMAIN manager'[w]
        /\ DOMAIN manager[w] \subseteq DOMAIN manager'[w]
        /\ \A v \in Workers \ {w} : manager'[v] = manager[v]
    BY <1>6, <1>m, <2>1
  <2>3. /\ pending' \in [Workers -> SUBSET (Nat \ {0})]
        /\ \A v \in Workers : pending'[v] \subseteq DOMAIN manager'[v]
    <3>1. Len(manager'[w]) \in Nat \ {0}
      BY <2>2
    <3>2. pending' \in [Workers -> SUBSET (Nat \ {0})]
      BY <1>6, <1>m, <3>1
    <3>3. \A v \in Workers :
             pending'[v] \subseteq pending[v] \cup (IF v = w THEN {Len(manager'[w])} ELSE {})
      BY <1>6, <1>m
    <3> QED
      BY <1>m, <2>2, <3>2, <3>3
  <2>4. TypeOK'
    BY <1>4, <2>2, <2>3 DEF ServeDecision, repository, TypeInv, TypeOK, JobType
  <2>5. \A v \in Workers : JobOK(v)'
    BY <1>3, <1>4, <2>2, OthersOK
  <2> QED
    BY <2>4, <2>5 DEF ServeDecision, repository, TypeInv, RowOK
<1> QED
  BY <1>5, <1>6 DEF ServeDecision

\* Steps on a request that is pending at the worker.
LEMMA AdmittedFacts ==
    ASSUME TypeInv, NEW w \in Workers, NEW scope \in {"votes", "resumes"}, Admitted(w, scope)
    PROVE  /\ job[w].req \in Requests /\ job[w].req.scope = scope
           /\ job[w].row = RowOf(job[w].req) /\ job[w].step = "serve"
           /\ job[w].req.approval \in DOMAIN manager[w]
           /\ job[w].req.who \in People
           /\ manager[w][job[w].req.approval] \in ApprovalRecord
           /\ now \in Nat
<1>1. /\ manager \in [Workers -> Seq(ApprovalRecord)] /\ now \in Nat
      /\ \A v \in Workers : pending[v] \subseteq DOMAIN manager[v]
  BY DEF TypeInv, TypeOK
<1>2. /\ job[w].req \in Requests /\ job[w].req.scope = scope
      /\ job[w].row = RowOf(job[w].req) /\ job[w].step = "serve"
  BY OwnedJob DEF Admitted
<1>3. job[w].req.approval \in DOMAIN manager[w]
  BY <1>1 DEF Admitted
<1>4. job[w].req.who \in People
  BY <1>2, RequestTypes DEF Admitted, Callers
<1> QED
  BY <1>1, <1>2, <1>3, <1>4

\* What such a step leaves alone keeps its type.
LEMMA OnRequestTypes ==
    ASSUME TypeInv, NEW w \in Workers, SubjectsKept(w), job' \in [Workers -> JobType],
           reply' = NoRecord, \A v \in Workers : JobOK(v)',
           UNCHANGED <<now, repository, cache, uncommitted, handlers, pending,
                       revision, effects>>,
           noticed' \in [Workers -> SUBSET ApprovalIds]
    PROVE  TypeInv'
<1>1. /\ manager' \in [Workers -> Seq(ApprovalRecord)]
      /\ \A v \in Workers : DOMAIN manager'[v] = DOMAIN manager[v]
  BY DEF SubjectsKept
<1>2. TypeOK'
  BY <1>1 DEF repository, TypeInv, TypeOK, JobType
<1> QED
  BY <1>2 DEF repository, TypeInv, RowOK

\* _vote leaves each request its subject and goes on to the save.
LEMMA ServeVoteKeeps ==
    ASSUME TypeInv, NEW w \in Workers, NEW g \in Governance, ServeVote(w, g)
    PROVE  /\ SubjectsKept(w)
           /\ \E x \in {"voted", "refused"} : Continue(w, "persist", x)
<1> DEFINE v == job[w].req
           old == manager[w][v.approval]
           req == Expire(old, now)
<1>1. /\ v \in Requests /\ v.scope = "votes" /\ v.approval \in DOMAIN manager[w]
      /\ v.who \in People /\ old \in ApprovalRecord /\ now \in Nat
  BY AdmittedFacts DEF ServeVote
<1>2. v.role \in Roles
  BY <1>1, RequestTypes
<1>3. req \in ApprovalRecord /\ req.subject = old.subject
  BY <1>1, TransitionTypes
<1>4. /\ Approve(req, v.role, v.who) \in ApprovalRecord
      /\ Approve(req, v.role, v.who).subject = old.subject
      /\ Deny(req) \in ApprovalRecord /\ Deny(req).subject = old.subject
  <2> HIDE DEF req
  <2> QED
    BY <1>1, <1>2, <1>3, TransitionTypes
<1>5. PICK after \in {req, Approve(req, v.role, v.who), Deny(req)} :
         manager' = [manager EXCEPT ![w][v.approval] = after]
  BY DEF ServeVote
<1>6. SubjectsKept(w)
  <2> HIDE DEF req
  <2> QED
    BY <1>1, <1>3, <1>4, <1>5, SetKeepsSubjects
<1>7. \E x \in {"voted", "refused"} : Continue(w, "persist", x)
  BY DEF ServeVote
<1> QED
  BY <1>6, <1>7

\* _vote keeps the types.
LEMMA ServeVoteTypes ==
    ASSUME TypeInv, NEW w \in Workers, NEW g \in Governance, ServeVote(w, g)
    PROVE  TypeInv'
<1>1. PICK x \in {"voted", "refused"} : Continue(w, "persist", x)
  BY ServeVoteKeeps
<1>2. SubjectsKept(w)
  BY ServeVoteKeeps
<1>3. /\ job[w].req \in Requests /\ job[w].row = RowOf(job[w].req)
      /\ job[w].step \in OwningSteps
  BY AdmittedFacts DEF ServeVote, OwningSteps
<1>4. \A v \in Workers : JobOK(v)'
  BY <1>1, <1>2, <1>3, ProceedOK DEF Answers, Responses, Steps
<1>5. job' \in [Workers -> JobType] /\ reply' = NoRecord
  BY <1>1, ContinueOK DEF Responses, Carried, Steps
<1>6. noticed' \in [Workers -> SUBSET ApprovalIds]
  BY DEF ServeVote, TypeInv, TypeOK
<1> QED
  BY <1>2, <1>4, <1>5, <1>6, OnRequestTypes DEF ServeVote

\* A resume that goes on has spent its approval; one that does not is answered.
LEMMA ServeResumeKeeps ==
    ASSUME TypeInv, NEW w \in Workers, NEW g \in Governance, ServeResume(w, g)
    PROVE  /\ SubjectsKept(w)
           /\ \/ Continue(w, "persist", "refused")
              \/ Continue(w, "claim", NoRecord)
              \/ /\ job' = [job EXCEPT ![w].step = "store",
                                       ![w].row = <<"decisions", job[w].req.key>>,
                                       ![w].response = "forbidden"]
                 /\ reply' = NoRecord
<1> DEFINE r == job[w].req
           old == manager[w][r.approval]
           req == Expire(old, now)
<1>1. /\ r \in Requests /\ r.scope = "resumes" /\ r.approval \in DOMAIN manager[w]
      /\ r.who \in People /\ old \in ApprovalRecord /\ now \in Nat
  BY AdmittedFacts DEF ServeResume
<1>2. req \in ApprovalRecord /\ req.subject = old.subject
  BY <1>1, TransitionTypes
<1>3. Consume(req) \in ApprovalRecord /\ Consume(req).subject = old.subject
  <2> HIDE DEF req
  <2> QED
    BY <1>2, TransitionTypes
<1>4. PICK after \in {req, Consume(req)} :
         manager' = [manager EXCEPT ![w][r.approval] = after]
  BY DEF ServeResume
<1>5. SubjectsKept(w)
  <2> HIDE DEF req
  <2> QED
    BY <1>1, <1>2, <1>3, <1>4, SetKeepsSubjects
<1> QED
  BY <1>5 DEF ServeResume

\* _resume keeps the types.
LEMMA ServeResumeTypes ==
    ASSUME TypeInv, NEW w \in Workers, NEW g \in Governance, ServeResume(w, g)
    PROVE  TypeInv'
<1>2. SubjectsKept(w)
  BY ServeResumeKeeps
<1>3. /\ job[w].req \in Requests /\ job[w].row = RowOf(job[w].req)
      /\ job[w].step = "serve" /\ job[w].req.scope = "resumes"
      /\ job[w].req.approval \in DOMAIN manager[w]
  BY AdmittedFacts DEF ServeResume
<1>4. ASSUME NEW step \in {"persist", "claim"}, NEW x \in {"refused", NoRecord},
             Continue(w, step, x), step = "persist" => x = "refused"
      PROVE  TypeInv'
  <2>1. \A v \in Workers : JobOK(v)'
    BY <1>2, <1>3, <1>4, ProceedOK DEF Answers, Responses, Steps, OwningSteps
  <2>2. job' \in [Workers -> JobType] /\ reply' = NoRecord
    BY <1>4, ContinueOK DEF Responses, Carried, Steps
  <2>3. noticed' \in [Workers -> SUBSET ApprovalIds]
    BY DEF ServeResume, TypeInv, TypeOK
  <2> QED
    BY <1>2, <2>1, <2>2, <2>3, OnRequestTypes DEF ServeResume
<1>5. CASE /\ job' = [job EXCEPT ![w].step = "store",
                                 ![w].row = <<"decisions", job[w].req.key>>,
                                 ![w].response = "forbidden"]
           /\ reply' = NoRecord
  <2>1. job \in [Workers -> JobType]
    BY DEF TypeInv, TypeOK, JobType
  <2>2. <<"decisions", job[w].req.key>> \in RowIds
    BY <1>3, RequestTypes DEF RowIds, Scopes
  <2>3. /\ job' \in [Workers -> JobType]
        /\ job'[w].step = "store" /\ job'[w].row = <<"decisions", job[w].req.key>>
        /\ job'[w].response = "forbidden" /\ job'[w].req = job[w].req
        /\ \A v \in Workers \ {w} : job'[v] = job[v]
    BY <1>5, <2>1, <2>2 DEF JobType, Steps, Responses
  <2>4. JobOK(w)'
    BY <1>3, <2>3 DEF JobOK, OwningSteps, ClaimSteps, Answers, Drafts
  <2>5. \A v \in Workers : JobOK(v)'
    BY <1>2, <2>3, <2>4, OthersOK DEF SubjectsKept
  <2>6. noticed' \in [Workers -> SUBSET ApprovalIds]
    BY DEF ServeResume, TypeInv, TypeOK
  <2> QED
    BY <1>2, <1>5, <2>3, <2>5, <2>6, OnRequestTypes DEF ServeResume
<1> QED
  BY <1>4, <1>5, ServeResumeKeeps

\* _approval leaves each request its subject.
LEMMA ServeGetKeeps ==
    ASSUME TypeInv, NEW w \in Workers, NEW i \in ApprovalIds, ServeGet(w, i)
    PROVE  SubjectsKept(w)
<1>1. manager[w][i] \in ApprovalRecord /\ now \in Nat
  BY DEF ServeGet, TypeInv, TypeOK
<1>2. /\ Expire(manager[w][i], now) \in ApprovalRecord
      /\ Expire(manager[w][i], now).subject = manager[w][i].subject
  BY <1>1, TransitionTypes
<1>3. manager' = [manager EXCEPT ![w][i] = Expire(manager[w][i], now)]
  BY DEF ServeGet, TypeInv, TypeOK
<1> QED
  BY <1>2, <1>3, SetKeepsSubjects DEF ServeGet

\* _approval keeps the types.
LEMMA ServeGetTypes ==
    ASSUME TypeInv, NEW w \in Workers, NEW i \in ApprovalIds, ServeGet(w, i)
    PROVE  TypeInv'
<1>1. job \in [Workers -> JobType] /\ noticed \in [Workers -> SUBSET ApprovalIds]
  BY DEF TypeInv, TypeOK, JobType
<1>2. /\ job' \in [Workers -> JobType]
      /\ job'[w].step = "persist" /\ job'[w].req = Get(i) /\ job'[w].response = "shown"
      /\ \A v \in Workers \ {w} : job'[v] = job[v]
  <2>1. job' = [job EXCEPT ![w].step = "persist", ![w].req = Get(i),
                           ![w].response = "shown"]
    BY DEF ServeGet
  <2>2. "persist" \in Steps /\ "shown" \in Responses
    BY DEF Steps, Responses
  <2>3. Get(i) \in {Get(j) : j \in ApprovalIds}
    OBVIOUS
  <2> QED
    BY <1>1, <2>1, <2>2, <2>3 DEF JobType
<1>3. Get(i) \notin Requests /\ Get(i) \in Gets
  BY RequestTypes DEF Get, Gets
<1>4. JobOK(w)'
  BY <1>2, <1>3 DEF JobOK, OwningSteps, ClaimSteps, Responses
<1>5. SubjectsKept(w)
  BY ServeGetKeeps
<1>6. \A v \in Workers : JobOK(v)'
  BY <1>2, <1>4, <1>5, OthersOK DEF SubjectsKept
<1>7. noticed' \in [Workers -> SUBSET ApprovalIds]
  BY <1>1 DEF ServeGet
<1> QED
  BY <1>2, <1>5, <1>6, <1>7, OnRequestTypes DEF ServeGet

\* The decision whose operation a job performs, and the id of its claim.
LEMMA SubjectType ==
    ASSUME TypeInv, NEW w \in Workers, job[w].step \in ClaimSteps
    PROVE  /\ Subject(w) \in Decisions
           /\ ClaimOf(job[w].req) \in ClaimIds
           /\ job[w].req \in Requests
<1>1. /\ job[w].req \in Requests
      /\ \/ job[w].req.scope = "decisions"
         \/ job[w].req.scope = "resumes" /\ job[w].req.approval \in DOMAIN manager[w]
  BY OwnedJob DEF ClaimSteps
<1>2. ClaimOf(job[w].req) \in ClaimIds
  BY <1>1, RequestTypes
<1>3. CASE job[w].req.scope = "decisions"
  <2>1. Subject(w) = job[w].req
    BY <1>3 DEF Subject
  <2>2. job[w].req \in Decisions
    BY <1>1, <1>3 DEF Decisions
  <2> QED
    BY <1>1, <1>2, <2>1, <2>2
<1>4. CASE job[w].req.scope = "resumes" /\ job[w].req.approval \in DOMAIN manager[w]
  <2>1. manager[w][job[w].req.approval] \in ApprovalRecord
    BY <1>4 DEF TypeInv, TypeOK
  <2>2. Subject(w) = manager[w][job[w].req.approval].subject
    BY <1>4 DEF Subject
  <2>3. Subject(w) \in Decisions
    BY <2>1, <2>2 DEF ApprovalRecord
  <2> QED
    BY <1>1, <1>2, <2>3
<1> QED
  BY <1>1, <1>2, <1>3, <1>4

\* A step of the operation: the claims, the effects and the job may change.
LEMMA OperationTypes ==
    ASSUME TypeInv, NEW w \in Workers, job[w].step \in ClaimSteps,
           NEW step \in {"operate", "settle", "persist", "store"},
           NEW x \in Results \cup {"uncertain", NoRecord},
           step # "operate" => x \in Results \cup {"uncertain"},
           Continue(w, step, x),
           claims' \in [ClaimIds -> ClaimRecord \cup {NoRecord}],
           effects' \in [Decisions -> Nat],
           UNCHANGED <<now, rows, approvals, memory>>
    PROVE  TypeInv'
<1>1. /\ job[w].req \in Requests /\ job[w].row = RowOf(job[w].req)
      /\ job[w].step \in OwningSteps
      /\ \/ job[w].req.scope = "decisions"
         \/ job[w].req.scope = "resumes" /\ job[w].req.approval \in DOMAIN manager[w]
  BY OwnedJob DEF ClaimSteps, OwningSteps
<1>2. /\ job' \in [Workers -> JobType] /\ reply' = NoRecord
      /\ job'[w].step = step /\ job'[w].response = x
      /\ job'[w].req = job[w].req /\ job'[w].row = job[w].row
      /\ \A v \in Workers \ {w} : job'[v] = job[v]
  BY ContinueOK, EncodableDraft DEF Steps
<1>3. JobOK(w)'
  BY <1>1, <1>2, EncodableDraft, RequestTypes
     DEF JobOK, OwningSteps, ClaimSteps, Gets, Get, memory
<1>4. \A v \in Workers : JobOK(v)'
  BY <1>2, <1>3, OthersOK DEF memory
<1>5. TypeOK'
  BY <1>2 DEF TypeInv, TypeOK, JobType, memory
<1> QED
  BY <1>4, <1>5 DEF TypeInv, RowOK

\* claim_execution keeps the types.
LEMMA ClaimTypes ==
    ASSUME TypeInv, NEW w \in Workers, Claim(w)
    PROVE  TypeInv'
<1>1. job[w].step \in ClaimSteps
  BY DEF Claim, ClaimSteps
<1>2. Claimed(Subject(w)) \in ClaimRecord
  BY <1>1, SubjectType DEF Claimed, ClaimRecord
<1>3. claims' \in [ClaimIds -> ClaimRecord \cup {NoRecord}]
  BY <1>2 DEF Claim, TypeInv, TypeOK
<1>4. effects' \in [Decisions -> Nat]
  BY DEF Claim, TypeInv, TypeOK
<1> QED
  BY <1>1, <1>3, <1>4, OperationTypes DEF Claim, AfterOperation

\* The handler keeps the types.
LEMMA OperateTypes ==
    ASSUME TypeInv, NEW w \in Workers, Operate(w)
    PROVE  TypeInv'
<1>1. job[w].step \in ClaimSteps
  BY DEF Operate, ClaimSteps
<1>2. effects' \in [Decisions -> Nat]
  <2>1. \/ effects' = [effects EXCEPT ![Subject(w)] = @ + 1]
        \/ UNCHANGED effects
    BY DEF Operate
  <2>2. Subject(w) \in Decisions /\ effects \in [Decisions -> Nat]
    BY <1>1, SubjectType DEF TypeInv, TypeOK
  <2> QED
    BY <2>1, <2>2
<1>3. claims' \in [ClaimIds -> ClaimRecord \cup {NoRecord}]
  BY DEF Operate, TypeInv, TypeOK, repository
<1> QED
  BY <1>1, <1>2, <1>3, OperationTypes DEF Operate, repository

\* complete_execution keeps the types.
LEMMA SettleTypes ==
    ASSUME TypeInv, NEW w \in Workers, Settle(w)
    PROVE  TypeInv'
<1>1. job[w].step \in ClaimSteps /\ job[w].response \in Results \cup {"uncertain"}
  BY OwnedJob DEF Settle, ClaimSteps
<1>2. \A status \in {"succeeded", "unknown"} : Settled(Subject(w), status) \in ClaimRecord
  BY <1>1, SubjectType DEF Settled, ClaimRecord
<1>3. claims' \in [ClaimIds -> ClaimRecord \cup {NoRecord}]
  BY <1>2 DEF Settle, TypeInv, TypeOK
<1>4. effects' \in [Decisions -> Nat]
  BY DEF Settle, TypeInv, TypeOK
<1> QED
  BY <1>1, <1>3, <1>4, OperationTypes DEF Settle, AfterOperation

\* _persist_durable_state keeps the types.
LEMMA PersistTypes ==
    ASSUME TypeInv, NEW w \in Workers, Persist(w)
    PROVE  TypeInv'
<1> DEFINE j == job[w]
<1>1. /\ j.req \in Requests \cup Gets
      /\ j.req \in Gets => j.response \in Responses
      /\ j.req \in Requests => j.row = RowOf(j.req) /\ j.response \in Drafts
      /\ j.step \in OwningSteps
  BY DEF Persist, TypeInv, JobOK, OwningSteps
<1>2. j.req.scope = "get" <=> j.req \in Gets
  BY <1>1, RequestTypes DEF Gets, Get
<1>3. /\ manager \in [Workers -> Seq(ApprovalRecord)]
      /\ pending \in [Workers -> SUBSET (Nat \ {0})]
      /\ pending[w] \subseteq DOMAIN manager[w]
      /\ approvals \in [revision : Nat, payload : [requests : Seq(ApprovalRecord),
                                                   pending : SUBSET (Nat \ {0})]]
      /\ approvals.payload.pending \subseteq DOMAIN approvals.payload.requests
      /\ revision \in [Workers -> Nat]
  BY DEF TypeInv, TypeOK
<1>4. /\ approvals' \in [revision : Nat, payload : [requests : Seq(ApprovalRecord),
                                                    pending : SUBSET (Nat \ {0})]]
      /\ approvals'.payload.pending \subseteq DOMAIN approvals'.payload.requests
      /\ revision' \in [Workers -> Nat]
  <2>1. CASE UNCHANGED <<approvals, revision>>
    BY <1>3, <2>1
  <2>2. CASE /\ approvals' = Saved(approvals, SavedState(manager[w], pending[w]))
             /\ revision' = [revision EXCEPT ![w] = approvals'.revision]
    <3>1. approvals' = [revision |-> approvals.revision + 1,
                        payload |-> [requests |-> manager[w], pending |-> pending[w]]]
      BY <2>2 DEF Saved, SavedState
    <3>2. approvals'.revision \in Nat
      BY <1>3, <3>1
    <3> QED
      BY <1>3, <2>2, <3>1, <3>2
  <2> QED
    BY <2>1, <2>2 DEF Persist
<1>5. /\ job' \in [Workers -> JobType]
      /\ reply' \in [req : Requests \cup {Get(i) : i \in ApprovalIds},
                     response : Responses] \cup {NoRecord}
      /\ JobOK(w)'
      /\ \A v \in Workers \ {w} : job'[v] = job[v]
  <2>1. CASE \E x \in Responses : Respond(w, j.req, x)
    BY <1>1, <2>1, RespondOK
  <2>2. CASE Continue(w, "store", j.response) /\ j.req \in Requests
    <3>1. /\ job' \in [Workers -> JobType] /\ reply' = NoRecord
          /\ job'[w].step = "store" /\ job'[w].response = j.response
          /\ job'[w].req = j.req /\ job'[w].row = j.row
          /\ \A v \in Workers \ {w} : job'[v] = job[v]
      BY <1>1, <2>2, ContinueOK, EncodableDraft DEF Steps
    <3>2. JobOK(w)'
      BY <1>1, <2>2, <3>1 DEF JobOK, OwningSteps, ClaimSteps
    <3> QED
      BY <3>1, <3>2
  <2> QED
    BY <1>1, <1>2, <2>1, <2>2 DEF Persist, Responses
<1>6. \A v \in Workers : JobOK(v)'
  BY <1>5, OthersOK DEF Persist
<1>7. TypeOK'
  BY <1>4, <1>5 DEF Persist, TypeInv, TypeOK, JobType
<1> QED
  BY <1>6, <1>7 DEF Persist, TypeInv, RowOK

\* The job that is to store its response.
LEMMA StoringJob ==
    ASSUME TypeInv, NEW w \in Workers, job[w].step = "store"
    PROVE  /\ job[w].req \in Requests /\ job[w].row \in RowIds
           /\ job[w].req.key \in Keys
           /\ job[w].response \in Drafts
           /\ [request |-> job[w].req, response |-> job[w].response] \in Draft
           /\ Encodable(job[w].response) =>
                 /\ job[w].response \in Answers /\ job[w].response \in Responses
                 /\ [request |-> job[w].req, response |-> job[w].response] \in Entry
                 /\ Completed(job[w].req, job[w].response) \in RowRecord
                 /\ RowOK(Completed(job[w].req, job[w].response))
<1>1. /\ job[w].req \in Requests /\ job[w].response \in Drafts
      /\ job[w].row \in {RowOf(job[w].req), <<"decisions", job[w].req.key>>}
  BY DEF TypeInv, JobOK, OwningSteps
<1>2. job[w].req.key \in Keys /\ job[w].row \in RowIds
  BY <1>1, RequestTypes DEF RowIds, Scopes
<1>3. [request |-> job[w].req, response |-> job[w].response] \in Draft
  BY <1>1 DEF Draft
<1>4. ASSUME Encodable(job[w].response)
      PROVE  /\ job[w].response \in Answers /\ job[w].response \in Responses
             /\ [request |-> job[w].req, response |-> job[w].response] \in Entry
             /\ Completed(job[w].req, job[w].response) \in RowRecord
             /\ RowOK(Completed(job[w].req, job[w].response))
  <2>1. job[w].response \in Answers /\ job[w].response \in Responses
    BY <1>1, <1>4, EncodableDraft
  <2> QED
    BY <1>1, <2>1 DEF Entry, Completed, RowRecord, RowOK
<1> QED
  BY <1>1, <1>2, <1>3, <1>4

\* A step that ends a job by storing its response or holding it.
LEMMA StoredTypes ==
    ASSUME TypeInv, NEW w \in Workers, job[w].step = "store",
           NEW x \in Responses, Respond(w, job[w].req, x),
           \/ UNCHANGED rows
           \/ /\ Encodable(job[w].response)
              /\ rows' = [rows EXCEPT ![job[w].row] =
                             Completed(job[w].req, job[w].response)],
           \/ UNCHANGED cache
           \/ /\ Encodable(job[w].response)
              /\ cache' = [cache EXCEPT ![w][job[w].req.key] =
                             [request |-> job[w].req, response |-> job[w].response]],
           \/ uncommitted' = [uncommitted EXCEPT ![w][job[w].row] = NoRecord]
           \/ uncommitted' = [uncommitted EXCEPT ![w][job[w].row] =
                          [request |-> job[w].req, response |-> job[w].response]],
           UNCHANGED <<now, claims, approvals, handlers, manager, pending, revision,
                       noticed, effects>>
    PROVE  TypeInv'
<1> DEFINE id == job[w].row
           e == [request |-> job[w].req, response |-> job[w].response]
           c == Completed(job[w].req, job[w].response)
<1>1. /\ job[w].req \in Requests /\ id \in RowIds /\ job[w].req.key \in Keys
      /\ e \in Draft
      /\ Encodable(job[w].response) => e \in Entry /\ c \in RowRecord /\ RowOK(c)
  BY StoringJob
<1>2. /\ rows \in [RowIds -> RowRecord \cup {NoRecord}]
      /\ cache \in [Workers -> [Keys -> Entry \cup {NoRecord}]]
      /\ uncommitted \in [Workers -> [RowIds -> Draft \cup {NoRecord}]]
      /\ \A i \in RowIds : RowOK(rows[i])
  BY DEF TypeInv, TypeOK
<1> HIDE DEF e, c
<1>3. rows' \in [RowIds -> RowRecord \cup {NoRecord}]
  BY <1>1, <1>2 DEF c
<1>4. ASSUME NEW i \in RowIds PROVE RowOK(rows'[i])
  <2>1. rows'[i] = rows[i] \/ (Encodable(job[w].response) /\ rows'[i] = c)
    BY <1>1, <1>2 DEF c
  <2> QED
    BY <1>1, <1>2, <2>1
<1>5. cache' \in [Workers -> [Keys -> Entry \cup {NoRecord}]]
  <2>1. e \in Entry => [cache EXCEPT ![w][job[w].req.key] = e]
                          \in [Workers -> [Keys -> Entry \cup {NoRecord}]]
    BY <1>1, <1>2, PutType
  <2>2. \/ cache' = cache
        \/ /\ Encodable(job[w].response)
           /\ cache' = [cache EXCEPT ![w][job[w].req.key] = e]
    BY DEF e
  <2> QED
    BY <1>1, <1>2, <2>1, <2>2
<1>6. uncommitted' \in [Workers -> [RowIds -> Draft \cup {NoRecord}]]
  <2>1. \A y \in {e, NoRecord} :
           [uncommitted EXCEPT ![w][id] = y] \in [Workers -> [RowIds -> Draft \cup {NoRecord}]]
    BY <1>1, <1>2, PutType
  <2>2. \/ uncommitted' = [uncommitted EXCEPT ![w][id] = NoRecord]
        \/ uncommitted' = [uncommitted EXCEPT ![w][id] = e]
    BY DEF e
  <2> QED
    BY <2>1, <2>2
<1>7. TypeOK'
  BY <1>1, <1>3, <1>5, <1>6, RespondOK DEF TypeInv, TypeOK, JobType
<1>8. \A v \in Workers : JobOK(v)'
  BY <1>1, RespondOK, OthersOK
<1> QED
  BY <1>4, <1>7, <1>8 DEF TypeInv

\* _store_idempotent keeps the types.
LEMMA StoreTypes ==
    ASSUME TypeInv, NEW w \in Workers, Store(w)
    PROVE  TypeInv'
<1>1. PICK x \in Responses : Respond(w, job[w].req, x)
  BY StoringJob DEF Store, Hold, CanComplete, Refusal, Responses
<1> QED
  BY <1>1, StoredTypes DEF Store, Hold, CanComplete

\* A failed transaction keeps the types.
LEMMA StoreFailsTypes ==
    ASSUME TypeInv, NEW w \in Workers, StoreFails(w)
    PROVE  TypeInv'
<1>1. ASSUME NEW x \in Responses, job[w].step \in {"peek", "persist"},
             Respond(w, job[w].req, x), UNCHANGED <<rows, cache, uncommitted>>
      PROVE  TypeInv'
  <2>1. job[w].req \in Requests \cup Gets
    BY <1>1 DEF TypeInv, JobOK
  <2> QED
    BY <1>1, <2>1, RespondOnlyTypes DEF StoreFails, repository, memory
<1>2. CASE /\ job[w].step \in {"claim", "settle"}
           /\ Continue(w, AfterOperation(w), "uncertain")
           /\ UNCHANGED <<rows, cache, uncommitted>>
  <2>1. AfterOperation(w) \in {"store", "persist"} /\ job[w].step \in ClaimSteps
    BY <1>2 DEF AfterOperation, ClaimSteps
  <2>2. claims' \in [ClaimIds -> ClaimRecord \cup {NoRecord}] /\ effects' \in [Decisions -> Nat]
    BY DEF StoreFails, TypeInv, TypeOK
  <2> QED
    BY <1>2, <2>1, <2>2, OperationTypes DEF StoreFails, memory
<1>3. CASE job[w].step = "store" /\ Hold(w, "unavailable")
  <2>1. "unavailable" \in Responses
    BY DEF Responses
  <2> QED
    BY <1>3, <2>1, StoredTypes DEF StoreFails, Hold
<1> QED
  BY <1>1, <1>2, <1>3 DEF StoreFails, Responses

\* A crash keeps the types.
LEMMA CrashTypes ==
    ASSUME TypeInv, NEW w \in Workers, Crash(w)
    PROVE  TypeInv'
<1>1. /\ EmptyCache \in [Keys -> Entry \cup {NoRecord}]
      /\ NothingUncommitted \in [RowIds -> Draft \cup {NoRecord}]
      /\ DownJob \in JobType /\ DownJob.step = "down"
      /\ <<>> \in Seq(ApprovalRecord)
  BY DEF EmptyCache, NothingUncommitted, DownJob, IdleJob, JobType, Steps
<1>2. job \in [Workers -> JobType]
  BY DEF TypeInv, TypeOK, JobType
<1>3. /\ job' \in [Workers -> JobType] /\ job'[w] = DownJob
      /\ \A v \in Workers \ {w} : job'[v] = job[v] /\ manager'[v] = manager[v]
  BY <1>1, <1>2 DEF Crash, TypeInv, TypeOK
<1>4. JobOK(w)'
  BY <1>1, <1>3 DEF JobOK, OwningSteps, ClaimSteps
<1>5. /\ pending' \in [Workers -> SUBSET (Nat \ {0})]
      /\ manager' \in [Workers -> Seq(ApprovalRecord)]
      /\ \A v \in Workers : pending'[v] \subseteq DOMAIN manager'[v]
  BY <1>1 DEF Crash, TypeInv, TypeOK
<1>6. /\ cache' \in [Workers -> [Keys -> Entry \cup {NoRecord}]]
      /\ uncommitted' \in [Workers -> [RowIds -> Draft \cup {NoRecord}]]
      /\ handlers' \in [Workers -> SUBSET Params]
      /\ revision' \in [Workers -> Nat]
      /\ noticed' \in [Workers -> SUBSET ApprovalIds]
  BY <1>1 DEF Crash, TypeInv, TypeOK
<1>7. TypeOK'
  BY <1>3, <1>5, <1>6 DEF Crash, repository, TypeInv, TypeOK, JobType
<1>8. \A v \in Workers : JobOK(v)'
  BY <1>3, <1>4, OthersOK
<1> QED
  BY <1>7, <1>8 DEF Crash, repository, TypeInv, RowOK

\* _restore_durable_state keeps the types.
LEMMA RestartTypes ==
    ASSUME TypeInv, NEW w \in Workers, Restart(w)
    PROVE  TypeInv'
<1>1. PICK served \in Deployments :
        /\ handlers' = [handlers EXCEPT ![w] = served]
        /\ pending' = [pending EXCEPT ![w] = Resumable(approvals.payload, served)]
  BY DEF Restart
<1>2. served \subseteq Params
  BY DurableServiceAssumption
<1>3. /\ approvals.payload.requests \in Seq(ApprovalRecord)
      /\ approvals.payload.pending \subseteq DOMAIN approvals.payload.requests
      /\ approvals.payload.pending \in SUBSET (Nat \ {0})
      /\ Resumable(approvals.payload, served) \subseteq approvals.payload.pending
      /\ approvals.revision \in Nat
  BY DEF TypeInv, TypeOK, Resumable
<1>4. /\ manager \in [Workers -> Seq(ApprovalRecord)]
      /\ pending \in [Workers -> SUBSET (Nat \ {0})]
      /\ \A v \in Workers : pending[v] \subseteq DOMAIN manager[v]
      /\ job \in [Workers -> JobType]
  BY DEF TypeInv, TypeOK, JobType
<1>5. manager' = [manager EXCEPT ![w] = approvals.payload.requests]
  BY DEF Restart
<1>6. /\ pending' \in [Workers -> SUBSET (Nat \ {0})]
      /\ manager' \in [Workers -> Seq(ApprovalRecord)]
      /\ \A v \in Workers : pending'[v] \subseteq DOMAIN manager'[v]
      /\ \A v \in Workers \ {w} : manager'[v] = manager[v]
  BY <1>1, <1>3, <1>4, <1>5
<1>7. IdleJob \in JobType /\ IdleJob.step = "idle"
  BY DEF IdleJob, JobType, Steps
<1>8. /\ job' \in [Workers -> JobType] /\ job'[w] = IdleJob
      /\ \A v \in Workers \ {w} : job'[v] = job[v]
  BY <1>4, <1>7 DEF Restart
<1>9. JobOK(w)'
  BY <1>7, <1>8 DEF JobOK, OwningSteps, ClaimSteps
<1>10. handlers' \in [Workers -> SUBSET Params] /\ revision' \in [Workers -> Nat]
  BY <1>1, <1>2, <1>3 DEF Restart, TypeInv, TypeOK
<1>11. TypeOK'
  BY <1>6, <1>8, <1>10 DEF Restart, repository, TypeInv, TypeOK, JobType
<1>12. \A v \in Workers : JobOK(v)'
  BY <1>6, <1>8, <1>9, OthersOK
<1> QED
  BY <1>11, <1>12 DEF Restart, repository, TypeInv, RowOK

\* reconcile_execution keeps the types.
LEMMA ReconcileTypes ==
    ASSUME TypeInv, NEW id \in ClaimIds, Reconcile(id)
    PROVE  TypeInv'
<1>1. claims[id] \in ClaimRecord
  BY DEF Reconcile, TypeInv, TypeOK
<1>2. Settled(claims[id].owner, "unknown") \in ClaimRecord
  BY <1>1 DEF Settled, ClaimRecord
<1>3. claims' \in [ClaimIds -> ClaimRecord \cup {NoRecord}]
  BY <1>2 DEF Reconcile, TypeInv, TypeOK
<1>4. TypeOK'
  BY <1>3 DEF Reconcile, memory, TypeInv, TypeOK
<1> QED
  BY <1>4 DEF Reconcile, memory, TypeInv, JobOK, RowOK

\* The clock keeps the types.
LEMMA TickTypes ==
    ASSUME TypeInv, Tick
    PROVE  TypeInv'
<1>1. TypeOK'
  BY DEF Tick, memory, repository, TypeInv, TypeOK
<1> QED
  BY <1>1 DEF Tick, memory, repository, TypeInv, JobOK, RowOK

\* Nothing happening keeps the types.
LEMMA StutterTypes ==
    ASSUME TypeInv, UNCHANGED vars
    PROVE  TypeInv'
<1>1. TypeOK'
  BY DEF vars, memory, repository, TypeInv, TypeOK
<1> QED
  BY <1>1 DEF vars, memory, repository, TypeInv, JobOK, RowOK

\* TypeInv is inductive.
LEMMA TypeInductive == TypeInv /\ [Next]_vars => TypeInv'
  BY AnswerFromCacheTypes, CommitLateTypes, ReserveTypes, ServeGetTypes, PeekTypes,
     ServeDecisionTypes, TurnedTypes, ServeVoteTypes, ServeResumeTypes, ClaimTypes,
     OperateTypes, SettleTypes, PersistTypes, StoreTypes, StoreFailsTypes, CrashTypes,
     RestartTypes, ReconcileTypes, TickTypes, StutterTypes
  DEF Next, Work

\* The first state has the types.
LEMMA TypeInitially == Init => TypeInv
<1> SUFFICES ASSUME Init PROVE TypeInv
  OBVIOUS
<1>1. /\ approvals = [revision |-> 0, payload |-> [requests |-> <<>>, pending |-> {}]]
      /\ <<>> \in Seq(ApprovalRecord)
  BY DEF Init, NothingSaved, SavedState
<1>2. \A w \in Workers : JobOK(w)
  BY DEF Init, JobOK, IdleJob, OwningSteps, ClaimSteps
<1>3. \A id \in RowIds : RowOK(rows[id])
  BY DEF Init, RowOK
<1>4. IdleJob \in JobType
  BY DEF IdleJob, JobType, Steps
<1>5. /\ EmptyCache \in [Keys -> Entry \cup {NoRecord}]
      /\ NothingUncommitted \in [RowIds -> Draft \cup {NoRecord}]
  BY DEF EmptyCache, NothingUncommitted
<1>6. handlers \in [Workers -> SUBSET Params]
  BY DurableServiceAssumption DEF Init
<1>7. job \in [Workers -> JobType]
  BY <1>4 DEF Init
<1>8. /\ cache \in [Workers -> [Keys -> Entry \cup {NoRecord}]]
      /\ uncommitted \in [Workers -> [RowIds -> Draft \cup {NoRecord}]]
  BY <1>5 DEF Init
<1>9. /\ now \in Nat
      /\ rows \in [RowIds -> RowRecord \cup {NoRecord}]
      /\ claims \in [ClaimIds -> ClaimRecord \cup {NoRecord}]
      /\ manager \in [Workers -> Seq(ApprovalRecord)]
      /\ pending \in [Workers -> SUBSET (Nat \ {0})]
      /\ \A w \in Workers : pending[w] \subseteq DOMAIN manager[w]
      /\ revision \in [Workers -> Nat]
      /\ noticed \in [Workers -> SUBSET ApprovalIds]
      /\ effects \in [Decisions -> Nat]
      /\ reply = NoRecord
  BY <1>1 DEF Init
<1>10. /\ approvals \in [revision : Nat, payload : [requests : Seq(ApprovalRecord),
                                                    pending : SUBSET (Nat \ {0})]]
       /\ approvals.payload.pending \subseteq DOMAIN approvals.payload.requests
  BY <1>1
<1>11. TypeOK
  BY <1>6, <1>7, <1>8, <1>9, <1>10 DEF TypeOK, JobType
<1> QED
  BY <1>2, <1>3, <1>11 DEF TypeInv

\* Every variable of the service keeps its type.
THEOREM TypeCorrect == Spec => []TypeOK
<1>1. TypeInv => TypeOK
  BY DEF TypeInv
<1> QED
  BY <1>1, TypeInitially, TypeInductive, PTL DEF Spec

-----------------------------------------------------------------------------
(* The records: what is final stays, and what is remembered is committed.   *)

\* What a step may do to a row, ...
RowMoves(id) ==
    \/ rows'[id] = rows[id]
    \/ /\ rows[id] = NoRecord
       /\ \E r \in Requests : rows'[id] = Reserved(r) /\ id = RowOf(r)
    \/ \E r \in Requests, x \in Answers :
          CanComplete(rows[id], r, x) /\ rows'[id] = Completed(r, x)

\* The steps that change rows.
LEMMA RowsChange ==
    ASSUME [Next]_vars
    PROVE  \/ UNCHANGED rows
           \/ \E w \in Workers, r \in Requests : CommitLate(w, r) \/ Reserve(w, r)
           \/ \E w \in Workers : Store(w)
<1>1. ASSUME NEW w \in Workers, StoreFails(w) PROVE UNCHANGED rows
  BY <1>1 DEF StoreFails, Hold
<1>2. ASSUME NEW w \in Workers, Work(w) PROVE UNCHANGED rows \/ Store(w)
  BY <1>2 DEF Work, Peek, ServeDecision, Turned, ServeVote, ServeResume, Claim, Operate,
              Settle, Persist, repository
<1>3. ASSUME Next
      PROVE  \/ UNCHANGED rows
             \/ \E w \in Workers, r \in Requests : CommitLate(w, r) \/ Reserve(w, r)
             \/ \E w \in Workers : Store(w)
  BY <1>1, <1>2, <1>3 DEF Next, AnswerFromCache, ServeGet, Crash, Restart, Reconcile, Tick,
              repository
<1> QED
  BY <1>3 DEF vars, repository

\* A step inserts a row, completes it or leaves it alone.
LEMMA RowsStep ==
    ASSUME TypeInv, [Next]_vars
    PROVE  \A id \in RowIds : RowMoves(id)
<1>t. rows \in [RowIds -> RowRecord \cup {NoRecord}]
  BY DEF TypeInv, TypeOK
<1>0. CASE UNCHANGED rows
  BY <1>0 DEF RowMoves
<1>1. ASSUME NEW w \in Workers, NEW r \in Requests, CommitLate(w, r)
      PROVE  \A id \in RowIds : RowMoves(id)
  <2> DEFINE held == uncommitted[w][RowOf(r)]
  <2>1. RowOf(r) \in RowIds
    BY RequestTypes
  <2>2. CanComplete(rows[RowOf(r)], r, held.response) => held.response \in Answers
    BY <1>1, <2>1, EncodableDraft DEF CommitLate, CanComplete, TypeInv, TypeOK, Draft
  <2>3. CASE /\ CanComplete(rows[RowOf(r)], r, held.response)
             /\ rows' = [rows EXCEPT ![RowOf(r)] = Completed(r, held.response)]
    BY <1>t, <2>1, <2>2, <2>3 DEF RowMoves
  <2> QED
    BY <1>0, <1>1, <2>3 DEF CommitLate
<1>2. ASSUME NEW w \in Workers, NEW r \in Requests, Reserve(w, r)
      PROVE  \A id \in RowIds : RowMoves(id)
  <2>1. CASE rows[RowOf(r)] = NoRecord /\ rows' = [rows EXCEPT ![RowOf(r)] = Reserved(r)]
    BY <1>t, <2>1 DEF RowMoves
  <2> QED
    BY <1>0, <1>2, <2>1 DEF Reserve, Acquires
<1>3. ASSUME NEW w \in Workers, Store(w)
      PROVE  \A id \in RowIds : RowMoves(id)
  <2>1. /\ job[w].req \in Requests
        /\ Encodable(job[w].response) => job[w].response \in Answers
        /\ job[w].row \in RowIds
    BY <1>3, StoringJob DEF Store
  <2>2. CASE /\ CanComplete(rows[job[w].row], job[w].req, job[w].response)
             /\ rows' = [rows EXCEPT ![job[w].row] = Completed(job[w].req, job[w].response)]
    BY <1>t, <2>1, <2>2 DEF RowMoves, CanComplete
  <2> QED
    BY <1>0, <1>3, <2>2 DEF Store, Hold
<1> QED
  BY <1>0, <1>1, <1>2, <1>3, RowsChange

\* ... and to a claim.
ClaimMoves(id) ==
    \/ claims'[id] = claims[id]
    \/ claims[id] = NoRecord
    \/ \E o \in Decisions, status \in {"succeeded", "unknown"} :
          CanSettle(claims[id], o, status) /\ claims'[id] = Settled(o, status)

\* The steps that change claims.
LEMMA ClaimsChange ==
    ASSUME [Next]_vars
    PROVE  \/ UNCHANGED claims
           \/ \E w \in Workers : Claim(w) \/ Settle(w)
           \/ \E i \in ClaimIds : Reconcile(i)
<1>1. ASSUME NEW w \in Workers, Work(w) PROVE UNCHANGED claims \/ Claim(w) \/ Settle(w)
  BY <1>1 DEF Work, Peek, ServeDecision, Turned, ServeVote, ServeResume, Operate,
              Persist, Store, Hold, repository
<1>2. ASSUME Next
      PROVE  \/ UNCHANGED claims
             \/ \E w \in Workers : Claim(w) \/ Settle(w)
             \/ \E i \in ClaimIds : Reconcile(i)
  <2>1. ASSUME NEW w \in Workers, NEW r \in Requests,
               AnswerFromCache(w, r) \/ CommitLate(w, r) \/ Reserve(w, r)
        PROVE  UNCHANGED claims
    BY <2>1 DEF AnswerFromCache, CommitLate, Reserve, repository
  <2>2. ASSUME NEW w \in Workers, StoreFails(w) \/ Crash(w) \/ Restart(w)
        PROVE  UNCHANGED claims
    BY <2>2 DEF StoreFails, Crash, Restart, repository
  <2>3. ASSUME NEW w \in Workers, NEW i \in ApprovalIds, ServeGet(w, i)
        PROVE  UNCHANGED claims
    BY <2>3 DEF ServeGet, repository
  <2>4. ASSUME Tick PROVE UNCHANGED claims
    BY <2>4 DEF Tick, repository
  <2> QED
    BY <1>1, <1>2, <2>1, <2>2, <2>3, <2>4 DEF Next
<1> QED
  BY <1>2 DEF vars, repository

\* A step inserts a claim, settles it or leaves it alone.
LEMMA ClaimsStep ==
    ASSUME TypeInv, [Next]_vars
    PROVE  \A id \in ClaimIds : ClaimMoves(id)
<1>t. claims \in [ClaimIds -> ClaimRecord \cup {NoRecord}]
  BY DEF TypeInv, TypeOK
<1>0. CASE UNCHANGED claims
  BY <1>0 DEF ClaimMoves
<1>1. ASSUME NEW w \in Workers, Claim(w) PROVE \A id \in ClaimIds : ClaimMoves(id)
  BY <1>1, <1>t DEF Claim, ClaimMoves
<1>2. ASSUME NEW w \in Workers, Settle(w) PROVE \A id \in ClaimIds : ClaimMoves(id)
  <2>1. Subject(w) \in Decisions
    BY <1>2, SubjectType DEF Settle, ClaimSteps
  <2>2. ASSUME NEW status \in {"succeeded", "unknown"},
               CanSettle(claims[ClaimOf(job[w].req)], Subject(w), status),
               claims' = [claims EXCEPT ![ClaimOf(job[w].req)] = Settled(Subject(w), status)]
        PROVE  \A id \in ClaimIds : ClaimMoves(id)
    BY <1>t, <2>1, <2>2 DEF ClaimMoves
  <2> QED
    BY <1>0, <1>2, <2>2 DEF Settle
<1>3. ASSUME NEW i \in ClaimIds, Reconcile(i) PROVE \A id \in ClaimIds : ClaimMoves(id)
  <2>1. claims[i] \in ClaimRecord /\ claims[i].status = "claimed"
    BY <1>3, <1>t DEF Reconcile
  <2>2. claims[i].owner \in Decisions /\ CanSettle(claims[i], claims[i].owner, "unknown")
    BY <1>3, <2>1 DEF ClaimRecord, CanSettle, Reconcile
  <2>3. claims' = [claims EXCEPT ![i] = Settled(claims[i].owner, "unknown")]
    BY <1>3 DEF Reconcile
  <2> QED
    BY <1>t, <2>2, <2>3 DEF ClaimMoves
<1> QED
  BY <1>0, <1>1, <1>2, <1>3, ClaimsChange

\* A row that is complete is not changed by completing it again.
LEMMA CompleteStays ==
    ASSUME TypeInv, NEW id \in RowIds, rows[id] # NoRecord, RowMoves(id)
    PROVE  /\ rows'[id].request = rows[id].request
           /\ rows[id].status = "complete" => rows'[id] = rows[id]
<1>1. rows[id] \in RowRecord
  BY DEF TypeInv, TypeOK
<1>2. CASE rows'[id] = rows[id]
  BY <1>2
<1>3. ASSUME NEW r \in Requests, NEW x \in Answers,
             CanComplete(rows[id], r, x), rows'[id] = Completed(r, x)
      PROVE  /\ rows'[id].request = rows[id].request
             /\ rows[id].status = "complete" => rows'[id] = rows[id]
  BY <1>1, <1>3 DEF CanComplete, Completed, RowRecord
<1> QED
  BY <1>2, <1>3 DEF RowMoves

\* A claim that is settled is not changed by settling it again.
LEMMA SettledStays ==
    ASSUME TypeInv, NEW id \in ClaimIds, claims[id] # NoRecord, ClaimMoves(id)
    PROVE  /\ claims'[id].owner = claims[id].owner
           /\ claims[id].status # "claimed" => claims'[id] = claims[id]
<1>1. claims[id] \in ClaimRecord
  BY DEF TypeInv, TypeOK
<1>2. CASE claims'[id] = claims[id]
  BY <1>2
<1>3. ASSUME NEW o \in Decisions, NEW status \in {"succeeded", "unknown"},
             CanSettle(claims[id], o, status), claims'[id] = Settled(o, status)
      PROVE  /\ claims'[id].owner = claims[id].owner
             /\ claims[id].status # "claimed" => claims'[id] = claims[id]
  BY <1>1, <1>3 DEF CanSettle, Settled, ClaimRecord
<1> QED
  BY <1>2, <1>3 DEF ClaimMoves

\* A row, once inserted, stays and belongs to the request it was inserted for.
LEMMA RowsRemain ==
    ASSUME TypeInv, [Next]_vars, NEW id \in RowIds, rows[id] # NoRecord
    PROVE  rows'[id] # NoRecord /\ rows'[id].request = rows[id].request
<1>1. RowMoves(id)
  BY RowsStep
<1>2. \A r \in Requests, x \in Answers : Completed(r, x) \in RowRecord
  BY DEF Completed, RowRecord
<1>3. \A r \in Requests, x \in Answers : Completed(r, x) # NoRecord
  BY <1>2, NoRecordAssumption
<1> QED
  BY <1>1, <1>3, CompleteStays DEF RowMoves

\* What is answered stays answered, ...
LEMMA AnswersStay ==
    ASSUME TypeInv, [Next]_vars, NEW r \in Requests, Answered(r)
    PROVE  Answered(r)' /\ Answer(r)' = Answer(r)
<1>1. RowOf(r) \in RowIds /\ RowMoves(RowOf(r))
  BY RequestTypes, RowsStep
<1>2. rows'[RowOf(r)] = rows[RowOf(r)]
  BY <1>1, CompleteStays DEF Answered
<1> QED
  BY <1>2 DEF Answered, Answer, RowOf

\* ... and each row is at the place of its request.
RowsKeyed == \A id \in RowIds : rows[id] # NoRecord => RowOf(rows[id].request) = id

RecordsInv == TypeInv /\ RowsKeyed /\ CacheIsCommitted

\* Rows stay at the place of their requests.
LEMMA RowsKeyedStep ==
    ASSUME TypeInv, RowsKeyed, [Next]_vars
    PROVE  RowsKeyed'
<1> SUFFICES ASSUME NEW id \in RowIds, rows'[id] # NoRecord
             PROVE  RowOf(rows'[id].request) = id
  BY DEF RowsKeyed, RowOf
<1>1. RowMoves(id)
  BY RowsStep
<1>2. CASE rows[id] # NoRecord
  <2>1. rows'[id].request = rows[id].request
    BY <1>1, <1>2, CompleteStays
  <2> QED
    BY <1>2, <2>1 DEF RowsKeyed
<1>3. CASE rows[id] = NoRecord
  <2>1. PICK r \in Requests : rows'[id] = Reserved(r) /\ id = RowOf(r)
    BY <1>1, <1>3 DEF RowMoves, CanComplete
  <2> QED
    BY <2>1 DEF Reserved
<1> QED
  BY <1>2, <1>3

\* A step remembers a response only when it is committed.
Remembers(w, r) ==
    /\ \A v \in Workers, k \in Keys :
          v # w \/ k # r.key => cache'[v][k] = cache[v][k]
    /\ cache'[w][r.key].request = r
    /\ rows'[RowOf(r)] # NoRecord
    /\ rows'[RowOf(r)].request = r
    /\ rows'[RowOf(r)].status = "complete"
    /\ rows'[RowOf(r)].response = cache'[w][r.key].response

\* What is remembered was remembered, or is committed by the step.
LEMMA CacheStep ==
    ASSUME RecordsInv, [Next]_vars
    PROVE  \/ \A v \in Workers, k \in Keys : cache'[v][k] \in {cache[v][k], NoRecord}
           \/ \E w \in Workers, r \in Requests : Remembers(w, r)
<1> DEFINE Goal == \/ \A v \in Workers, k \in Keys : cache'[v][k] \in {cache[v][k], NoRecord}
                   \/ \E w \in Workers, r \in Requests : Remembers(w, r)
<1>t. /\ cache \in [Workers -> [Keys -> Entry \cup {NoRecord}]]
      /\ rows \in [RowIds -> RowRecord \cup {NoRecord}]
      /\ TypeInv
  BY DEF RecordsInv, TypeInv, TypeOK
<1>0. CASE UNCHANGED cache
  BY <1>0
<1>1. ASSUME NEW w \in Workers, NEW r \in Requests, NEW x \in Answers, NEW id \in RowIds,
             id = RowOf(r),
             rows' = [rows EXCEPT ![id] = Completed(r, x)],
             cache' = [cache EXCEPT ![w][r.key] = [request |-> r, response |-> x]]
      PROVE  Remembers(w, r)
  <2>1. r.key \in Keys
    BY RequestTypes
  <2>2. [request |-> r, response |-> x] \in Entry /\ Completed(r, x) \in RowRecord
    BY DEF Entry, Completed, RowRecord
  <2>3. /\ rows'[id] = Completed(r, x)
        /\ Completed(r, x) # NoRecord
        /\ cache'[w][r.key] = [request |-> r, response |-> x]
    BY <1>1, <1>t, <2>1, <2>2, NoRecordAssumption
  <2>4. \A v \in Workers, k \in Keys : v # w \/ k # r.key => cache'[v][k] = cache[v][k]
    BY <1>1, <1>t, <2>1
  <2> QED
    BY <1>1, <2>3, <2>4 DEF Remembers, Completed
<1>2. ASSUME NEW w \in Workers, NEW r \in Requests, CommitLate(w, r) PROVE Goal
  <2> DEFINE held == uncommitted[w][RowOf(r)]
  <2>1. RowOf(r) \in RowIds
    BY RequestTypes
  <2>2. held \in Draft
    BY <1>2, <2>1 DEF CommitLate, RecordsInv, TypeInv, TypeOK
  <2>3. CASE /\ held.request = r
             /\ Encodable(held.response)
             /\ rows' = [rows EXCEPT ![RowOf(r)] = Completed(r, held.response)]
             /\ cache' = [cache EXCEPT ![w][r.key] = held]
    <3>1. held = [request |-> r, response |-> held.response] /\ held.response \in Answers
      BY <2>2, <2>3, EncodableDraft DEF Draft
    <3> QED
      BY <1>1, <2>1, <2>3, <3>1
  <2> QED
    BY <1>0, <1>2, <2>3 DEF CommitLate, CanComplete
<1>3. ASSUME NEW w \in Workers, NEW r \in Requests, Reserve(w, r) PROVE Goal
  <2>1. CASE /\ rows[RowOf(r)] # NoRecord /\ rows[RowOf(r)].request = r
             /\ rows[RowOf(r)].status = "complete"
             /\ cache' = [cache EXCEPT ![w][r.key] =
                            [request |-> r, response |-> rows[RowOf(r)].response]]
             /\ UNCHANGED rows
    <3>1. r.key \in Keys
      BY RequestTypes
    <3>2. Remembers(w, r)
      BY <1>t, <2>1, <3>1 DEF Remembers
    <3> QED
      BY <3>2
  <2> QED
    BY <1>0, <1>3, <2>1 DEF Reserve
<1>4. ASSUME NEW w \in Workers, Store(w) PROVE Goal
  <2> DEFINE r == job[w].req
  <2>1. /\ r \in Requests /\ job[w].row \in RowIds
        /\ Encodable(job[w].response) => job[w].response \in Answers
    BY <1>4, <1>t, StoringJob DEF Store
  <2>2. CASE /\ CanComplete(rows[job[w].row], r, job[w].response)
             /\ rows' = [rows EXCEPT ![job[w].row] = Completed(r, job[w].response)]
             /\ cache' = [cache EXCEPT ![w][r.key] = [request |-> r, response |-> job[w].response]]
    <3>1. job[w].row = RowOf(r)
      BY <2>1, <2>2 DEF CanComplete, RecordsInv, RowsKeyed
    <3> QED
      BY <1>1, <2>1, <2>2, <3>1 DEF CanComplete
  <2> QED
    BY <1>0, <1>4, <2>2 DEF Store, Hold
<1>5. ASSUME NEW w \in Workers, Crash(w) PROVE Goal
  <2>1. cache' = [cache EXCEPT ![w] = EmptyCache]
    BY <1>5 DEF Crash
  <2> QED
    BY <1>t, <2>1 DEF EmptyCache
<1>6. ASSUME NEW w \in Workers, Work(w) PROVE UNCHANGED cache \/ Store(w)
  BY <1>6 DEF Work, Peek, ServeDecision, Turned, ServeVote, ServeResume, Claim, Operate,
              Settle, Persist, memory
<1>7. ASSUME NEW w \in Workers, StoreFails(w) PROVE UNCHANGED cache
  BY <1>7 DEF StoreFails, Hold
<1>8. ASSUME Next PROVE Goal
  <2>1. ASSUME NEW w \in Workers, NEW r \in Requests,
               AnswerFromCache(w, r) \/ CommitLate(w, r) \/ Reserve(w, r)
        PROVE  Goal
    BY <1>0, <1>2, <1>3, <2>1 DEF AnswerFromCache, memory
  <2>2. ASSUME NEW w \in Workers, Work(w) \/ StoreFails(w) \/ Crash(w) \/ Restart(w)
        PROVE  Goal
    BY <1>0, <1>4, <1>5, <1>6, <1>7, <2>2 DEF Restart
  <2>3. ASSUME NEW w \in Workers, NEW i \in ApprovalIds, ServeGet(w, i)
        PROVE  Goal
    BY <1>0, <2>3 DEF ServeGet
  <2>4. ASSUME Tick \/ \E id \in ClaimIds : Reconcile(id) PROVE Goal
    BY <1>0, <2>4 DEF Tick, Reconcile, memory
  <2> HIDE DEF Goal
  <2> QED
    BY <1>8, <2>1, <2>2, <2>3, <2>4 DEF Next
<1> QED
  BY <1>0, <1>8 DEF vars, memory

\* What is remembered stays committed.
LEMMA CacheIsCommittedStep ==
    ASSUME RecordsInv, [Next]_vars
    PROVE  CacheIsCommitted'
<1>t. /\ cache \in [Workers -> [Keys -> Entry \cup {NoRecord}]] /\ TypeInv
  BY DEF RecordsInv, TypeInv, TypeOK
<1> SUFFICES ASSUME NEW v \in Workers, NEW k \in Keys, cache'[v][k] # NoRecord
             PROVE  /\ cache'[v][k].request.key = k
                    /\ Answered(cache[v][k].request)'
                    /\ Answer(cache[v][k].request)' = cache'[v][k].response
  BY DEF CacheIsCommitted
<1>1. CASE cache'[v][k] = cache[v][k]
  <2>1. /\ cache[v][k].request.key = k
        /\ Answered(cache[v][k].request)
        /\ Answer(cache[v][k].request) = cache[v][k].response
        /\ cache[v][k].request \in Requests
    BY <1>1, <1>t DEF RecordsInv, CacheIsCommitted, Entry
  <2>2. PICK r \in Requests : r = cache[v][k].request
    BY <2>1
  <2>3. Answered(r)' /\ Answer(r)' = Answer(r)
    BY <1>t, <2>1, <2>2, AnswersStay
  <2>4. cache'[v][k].request = r
    BY <1>1, <2>2
  <2> QED
    BY <1>1, <2>1, <2>2, <2>3, <2>4 DEF Answered, Answer
<1>2. ASSUME NEW w \in Workers, NEW r \in Requests, Remembers(w, r), cache'[v][k] # cache[v][k]
      PROVE  /\ cache'[v][k].request.key = k
             /\ Answered(cache[v][k].request)'
             /\ Answer(cache[v][k].request)' = cache'[v][k].response
  <2>1. v = w /\ k = r.key
    BY <1>2 DEF Remembers
  <2> QED
    BY <1>2, <2>1 DEF Remembers, Answered, Answer
<1> QED
  BY <1>1, <1>2, CacheStep

\* RecordsInv is inductive.
LEMMA RecordsInductive == RecordsInv /\ [Next]_vars => RecordsInv'
  BY TypeInductive, RowsKeyedStep, CacheIsCommittedStep DEF RecordsInv

\* At the start nothing is remembered.
LEMMA RecordsInitially == Init => RecordsInv
  BY TypeInitially DEF Init, RecordsInv, RowsKeyed, CacheIsCommitted, EmptyCache

\* What any worker answers from memory is what the repository holds.
THEOREM MemoryIsCommitted == Spec => []CacheIsCommitted
<1>1. RecordsInv => CacheIsCommitted
  BY DEF RecordsInv
<1> QED
  BY <1>1, RecordsInitially, RecordsInductive, PTL DEF Spec

-----------------------------------------------------------------------------
(* Reservations: each request is served by one job, once.                   *)

Owns(w, r) == job[w].step \in OwningSteps /\ job[w].req = r

\* Whoever owns a request has its reservation, alone; one whose response is
\* held is reserved and owned by nobody.
OwnersInv ==
    /\ \A w \in Workers, r \in Requests : Owns(w, r) =>
          /\ rows[RowOf(r)] # NoRecord
          /\ rows[RowOf(r)].request = r
          /\ rows[RowOf(r)].status = "in_progress"
    /\ \A w, v \in Workers, r \in Requests : Owns(w, r) /\ Owns(v, r) => w = v
    /\ \A w \in Workers, id \in RowIds : uncommitted[w][id] # NoRecord =>
          /\ rows[RowOf(uncommitted[w][id].request)] # NoRecord
          /\ rows[RowOf(uncommitted[w][id].request)].request = uncommitted[w][id].request
          /\ \A v \in Workers : ~Owns(v, uncommitted[w][id].request)

\* What a step may do to the job of v.
Reserves(v, r) ==
    /\ rows[RowOf(r)] = NoRecord
    /\ rows' = [rows EXCEPT ![RowOf(r)] = Reserved(r)]
    /\ job'[v].step = "serve" /\ job'[v].req = r
    /\ \A u \in Workers \ {v} : job'[u] = job[u]
    /\ UNCHANGED uncommitted

ClaimsInTurn(from, to) ==
    to \in ClaimSteps => from \in ClaimSteps \/ (from = "serve" /\ to = "claim")

JobMoves(v) ==
    \/ job'[v] = job[v]
    \/ job'[v] \in {IdleJob, DownJob}
    \/ job'[v].step = "peek"
    \/ /\ job'[v].step = "persist" /\ job'[v].req \in Gets
       /\ job'[v].response = "shown"
    \/ /\ job[v].step \in OwningSteps /\ job[v].req \in Requests
       /\ job'[v].step \in OwningSteps \ {"serve"}
       /\ job'[v].req = job[v].req
       /\ ClaimsInTurn(job[v].step, job'[v].step)
    \/ \E r \in Requests : Reserves(v, r)

\* A job that responds is over, and no other job moves.
LEMMA RespondMoves ==
    ASSUME TypeInv, NEW w \in Workers, NEW r, NEW x, Respond(w, r, x)
    PROVE  \A v \in Workers : JobMoves(v)
<1>1. job \in [Workers -> JobType]
  BY DEF TypeInv, TypeOK, JobType
<1>2. /\ job'[w] = IdleJob
      /\ \A v \in Workers \ {w} : job'[v] = job[v]
  BY <1>1 DEF Respond
<1> QED
  BY <1>2 DEF JobMoves

\* A job that goes on keeps its request, and no other job moves.
LEMMA ContinueMoves ==
    ASSUME TypeInv, NEW w \in Workers, NEW step \in OwningSteps \ {"serve"}, NEW x,
           Continue(w, step, x), job[w].step \in OwningSteps, job[w].req \in Requests,
           ClaimsInTurn(job[w].step, step)
    PROVE  \A v \in Workers : JobMoves(v)
<1>1. job \in [Workers -> JobType]
  BY DEF TypeInv, TypeOK, JobType
<1>2. /\ job'[w].step = step /\ job'[w].req = job[w].req
      /\ \A v \in Workers \ {w} : job'[v] = job[v]
  BY <1>1 DEF Continue, JobType
<1> QED
  BY <1>2 DEF JobMoves

\* Every step moves jobs in one of these ways.
LEMMA JobsStep ==
    ASSUME TypeInv, [Next]_vars
    PROVE  \A v \in Workers : JobMoves(v)
<1> DEFINE Goal == \A v \in Workers : JobMoves(v)
<1>t. job \in [Workers -> JobType] /\ rows \in [RowIds -> RowRecord \cup {NoRecord}]
  BY DEF TypeInv, TypeOK, JobType
<1>0. CASE UNCHANGED job
  BY <1>0 DEF JobMoves
<1>1. ASSUME NEW w \in Workers, NEW r \in Requests,
             AnswerFromCache(w, r) \/ CommitLate(w, r)
      PROVE  Goal
  BY <1>1, RespondMoves DEF AnswerFromCache, CommitLate
<1>2. ASSUME NEW w \in Workers, NEW r \in Requests, Reserve(w, r) PROVE Goal
  <2>1. ASSUME NEW step \in {"serve", "peek"},
               job' = [job EXCEPT ![w] = [step |-> step, req |-> r,
                                          row |-> RowOf(r), response |-> NoRecord]]
        PROVE  /\ job'[w].step = step /\ job'[w].req = r
               /\ \A v \in Workers \ {w} : job'[v] = job[v]
    BY <1>t, <2>1
  <2>2. CASE /\ rows[RowOf(r)] = NoRecord
             /\ rows' = [rows EXCEPT ![RowOf(r)] = Reserved(r)]
             /\ job' = [job EXCEPT ![w] = [step |-> "serve", req |-> r,
                                            row |-> RowOf(r), response |-> NoRecord]]
    <3>1. UNCHANGED uncommitted
      BY <1>2 DEF Reserve
    <3>2. Reserves(w, r)
      BY <2>1, <2>2, <3>1 DEF Reserves
    <3> QED
      BY <2>1, <2>2, <3>2 DEF JobMoves
  <2>3. CASE job' = [job EXCEPT ![w] = [step |-> "peek", req |-> r,
                                        row |-> RowOf(r), response |-> NoRecord]]
    BY <2>1, <2>3 DEF JobMoves, OwningSteps
  <2>4. ASSUME NEW x, Respond(w, r, x) PROVE Goal
    BY <2>4, RespondMoves
  <2> HIDE DEF Goal
  <2> QED
    BY <1>2, <2>2, <2>3, <2>4 DEF Reserve, Acquires
<1>3. ASSUME NEW w \in Workers, Peek(w) \/ Turned(w) PROVE Goal
  BY <1>3, RespondMoves DEF Peek, Turned
<1>4. ASSUME NEW w \in Workers, NEW o \in Outcomes, NEW g \in Governance,
             ServeDecision(w, o, g)
      PROVE  Goal
  <2>1. /\ job[w].step \in OwningSteps /\ job[w].step = "serve" /\ job[w].req \in Requests
        /\ \E step \in {"store", "claim", "persist"}, x \in {"refused", NoRecord, "escalated"} :
              Continue(w, step, x)
    BY <1>4, OwnedJob DEF ServeDecision, OwningSteps
  <2> QED
    BY <2>1, ContinueMoves DEF OwningSteps, ClaimSteps, ClaimsInTurn
<1>5. ASSUME NEW w \in Workers, NEW g \in Governance, ServeVote(w, g) PROVE Goal
  <2>1. job[w].step \in OwningSteps /\ job[w].step = "serve" /\ job[w].req \in Requests
    BY <1>5, OwnedJob DEF ServeVote, Admitted, OwningSteps
  <2> QED
    BY <1>5, <2>1, ServeVoteKeeps, ContinueMoves DEF OwningSteps, ClaimSteps, ClaimsInTurn
<1>6. ASSUME NEW w \in Workers, NEW g \in Governance, ServeResume(w, g) PROVE Goal
  <2>1. job[w].step \in OwningSteps /\ job[w].step = "serve" /\ job[w].req \in Requests
    BY <1>6, OwnedJob DEF ServeResume, Admitted, OwningSteps
  <2>2. CASE job' = [job EXCEPT ![w].step = "store",
                                ![w].row = <<"decisions", job[w].req.key>>,
                                ![w].response = "forbidden"]
    <3>1. /\ job'[w].step = "store" /\ job'[w].req = job[w].req
          /\ \A v \in Workers \ {w} : job'[v] = job[v]
      BY <1>t, <2>2 DEF JobType
    <3> QED
      BY <2>1, <3>1 DEF JobMoves, OwningSteps, ClaimSteps, ClaimsInTurn
  <2>3. CASE Continue(w, "persist", "refused") \/ Continue(w, "claim", NoRecord)
    BY <2>1, <2>3, ContinueMoves DEF OwningSteps, ClaimSteps, ClaimsInTurn
  <2> HIDE DEF Goal
  <2> QED
    BY <1>6, <2>2, <2>3, ServeResumeKeeps
<1>7. ASSUME NEW w \in Workers, Claim(w) \/ Operate(w) \/ Settle(w) PROVE Goal
  <2>1. /\ job[w].step \in OwningSteps /\ job[w].step \in ClaimSteps
        /\ job[w].req \in Requests
        /\ \E step \in {"operate", "settle", "store", "persist"},
              x \in Results \cup {NoRecord, "uncertain", job[w].response} :
                  Continue(w, step, x)
    BY <1>7, OwnedJob DEF Claim, Operate, Settle, AfterOperation, OwningSteps, ClaimSteps
  <2> QED
    BY <2>1, ContinueMoves DEF OwningSteps, ClaimSteps, ClaimsInTurn
<1>8. ASSUME NEW w \in Workers, Persist(w) PROVE Goal
  <2>1. job[w].step \in OwningSteps
    BY <1>8 DEF Persist, OwningSteps
  <2>2. \/ \E x \in {job[w].response, "state_conflict"} : Respond(w, job[w].req, x)
        \/ job[w].req \in Requests /\ Continue(w, "store", job[w].response)
    BY <1>8 DEF Persist, TypeInv, JobOK, Gets, Get
  <2> QED
    BY <2>1, <2>2, ContinueMoves, RespondMoves DEF OwningSteps, ClaimSteps, ClaimsInTurn
<1>9. ASSUME NEW w \in Workers, Store(w) PROVE Goal
  BY <1>9, RespondMoves DEF Store, Hold
<1>10. ASSUME NEW w \in Workers, StoreFails(w) PROVE Goal
  <2>1. \/ \E x \in {"in_progress", "unavailable"} : Respond(w, job[w].req, x)
        \/ /\ job[w].step \in OwningSteps /\ job[w].req \in Requests
           /\ \E step \in {"store", "persist"} : Continue(w, step, "uncertain")
    BY <1>10, OwnedJob DEF StoreFails, Hold, AfterOperation, OwningSteps
  <2> QED
    BY <2>1, ContinueMoves, RespondMoves DEF OwningSteps, ClaimSteps, ClaimsInTurn
<1>11. ASSUME NEW w \in Workers, NEW new \in {IdleJob, DownJob}, job' = [job EXCEPT ![w] = new]
       PROVE  Goal
  <2>1. job'[w] = new /\ \A v \in Workers \ {w} : job'[v] = job[v]
    BY <1>t, <1>11
  <2> QED
    BY <2>1 DEF JobMoves
<1>12. ASSUME NEW w \in Workers, NEW i \in ApprovalIds, ServeGet(w, i) PROVE Goal
  <2>1. job' = [job EXCEPT ![w].step = "persist", ![w].req = Get(i),
                           ![w].response = "shown"]
    BY <1>12 DEF ServeGet
  <2>2. /\ job'[w].step = "persist" /\ job'[w].req = Get(i) /\ job'[w].response = "shown"
        /\ \A v \in Workers \ {w} : job'[v] = job[v]
    BY <1>t, <2>1 DEF JobType
  <2> QED
    BY <2>2 DEF JobMoves, Gets
<1>13. ASSUME Next PROVE Goal
  <2>1. ASSUME NEW w \in Workers, Work(w) PROVE Goal
    BY <1>3, <1>4, <1>5, <1>6, <1>7, <1>8, <1>9, <2>1 DEF Work
  <2>2. ASSUME NEW w \in Workers, Crash(w) \/ Restart(w) PROVE Goal
    BY <1>11, <2>2 DEF Crash, Restart
  <2>3. ASSUME Tick \/ \E id \in ClaimIds : Reconcile(id) PROVE Goal
    BY <1>0, <2>3 DEF Tick, Reconcile
  <2> HIDE DEF Goal
  <2> QED
    BY <1>1, <1>2, <1>10, <1>12, <1>13, <2>1, <2>2, <2>3 DEF Next
<1> QED
  BY <1>0, <1>13 DEF vars

\* A job owns what it owned, or has just reserved it.
LEMMA OwnsMoves ==
    ASSUME TypeInv, [Next]_vars, NEW w \in Workers, NEW r \in Requests, Owns(w, r)'
    PROVE  Owns(w, r) \/ Reserves(w, r)
<1>1. JobMoves(w) /\ job'[w].step \in OwningSteps /\ job'[w].req = r
  BY JobsStep DEF Owns
<1>2. r \notin Gets
  BY RequestTypes DEF Gets, Get
<1>3. ASSUME NEW q \in Requests, Reserves(w, q) PROVE Reserves(w, r)
  BY <1>1, <1>3 DEF Reserves
<1> QED
  BY <1>1, <1>2, <1>3 DEF JobMoves, Owns, IdleJob, DownJob, OwningSteps

\* A response comes to be held by the job that could not store it.
Holds(w, id) ==
    /\ job[w].step = "store" /\ id = job[w].row
    /\ uncommitted'[w][id] = [request |-> job[w].req, response |-> job[w].response]
    /\ job'[w].step = "idle"

\* A response that is held was held, or could not be stored just now.
LEMMA HeldStep ==
    ASSUME TypeInv, [Next]_vars, NEW w \in Workers, NEW id \in RowIds,
           uncommitted'[w][id] # NoRecord
    PROVE  uncommitted'[w][id] = uncommitted[w][id] \/ Holds(w, id)
<1>t. /\ uncommitted \in [Workers -> [RowIds -> Draft \cup {NoRecord}]]
      /\ job \in [Workers -> JobType]
  BY DEF TypeInv, TypeOK, JobType
<1> DEFINE Goal == uncommitted'[w][id] = uncommitted[w][id] \/ Holds(w, id)
<1>0. CASE UNCHANGED uncommitted
  BY <1>0
<1>1. ASSUME NEW u \in Workers, NEW i \in RowIds,
             uncommitted' = [uncommitted EXCEPT ![u][i] = NoRecord]
      PROVE  Goal
  <2>1. uncommitted'[w][id] = IF w = u /\ id = i THEN NoRecord ELSE uncommitted[w][id]
    BY <1>1, <1>t, PutType
  <2> QED
    BY <2>1
<1>2. ASSUME NEW u \in Workers, NEW x, job[u].step = "store", Hold(u, x) PROVE Goal
  <2> DEFINE e == [request |-> job[u].req, response |-> job[u].response]
  <2>1. e \in Draft /\ job[u].row \in RowIds
    BY <1>2, StoringJob
  <2>2. uncommitted'[w][id] = IF w = u /\ id = job[u].row THEN e ELSE uncommitted[w][id]
    <3>1. uncommitted' = [uncommitted EXCEPT ![u][job[u].row] = e]
      BY <1>2 DEF Hold
    <3> HIDE DEF e
    <3> QED
      BY <1>t, <2>1, <3>1, PutType
  <2>3. job'[u].step = "idle"
    BY <1>2, <1>t DEF Hold, Respond, IdleJob
  <2> QED
    BY <1>2, <2>2, <2>3 DEF Holds
<1>3. ASSUME NEW u \in Workers, Crash(u) PROVE Goal
  <2>1. uncommitted' = [uncommitted EXCEPT ![u] = NothingUncommitted]
    BY <1>3 DEF Crash
  <2> QED
    BY <1>t, <2>1 DEF NothingUncommitted
<1>4. ASSUME NEW u \in Workers, NEW r \in Requests, CommitLate(u, r) PROVE Goal
  <2>1. RowOf(r) \in RowIds
    BY RequestTypes
  <2> QED
    BY <1>0, <1>1, <1>4, <2>1 DEF CommitLate
<1>5. ASSUME NEW u \in Workers, Store(u) PROVE Goal
  <2>1. job[u].row \in RowIds
    BY <1>5, StoringJob DEF Store
  <2> QED
    BY <1>1, <1>2, <1>5, <2>1 DEF Store
<1>6. ASSUME NEW u \in Workers, StoreFails(u) PROVE Goal
  BY <1>0, <1>2, <1>6 DEF StoreFails
<1>7. ASSUME Next PROVE Goal
  <2>1. ASSUME NEW u \in Workers, Work(u) PROVE Goal
    BY <1>0, <1>5, <2>1 DEF Work, Peek, ServeDecision, Turned, ServeVote, ServeResume,
                            Claim, Operate, Settle, Persist, memory
  <2>2. ASSUME NEW u \in Workers, NEW r \in Requests,
               AnswerFromCache(u, r) \/ CommitLate(u, r) \/ Reserve(u, r)
        PROVE  Goal
    BY <1>0, <1>4, <2>2 DEF AnswerFromCache, Reserve, memory
  <2>3. ASSUME NEW u \in Workers, StoreFails(u) \/ Crash(u) \/ Restart(u) PROVE Goal
    BY <1>0, <1>3, <1>6, <2>3 DEF Restart
  <2>4. ASSUME NEW u \in Workers, NEW i \in ApprovalIds, ServeGet(u, i) PROVE Goal
    BY <1>0, <2>4 DEF ServeGet
  <2>5. ASSUME Tick \/ \E i \in ClaimIds : Reconcile(i) PROVE Goal
    BY <1>0, <2>5 DEF Tick, Reconcile, memory
  <2> HIDE DEF Goal
  <2> QED
    BY <1>7, <2>1, <2>2, <2>3, <2>4, <2>5 DEF Next
<1> QED
  BY <1>0, <1>7 DEF vars, memory

\* The reservation of a job that keeps owning its request does not change.
LEMMA OwnedRowStays ==
    ASSUME TypeInv, OwnersInv, [Next]_vars, NEW w \in Workers, NEW r \in Requests,
           Owns(w, r), Owns(w, r)'
    PROVE  rows'[RowOf(r)] = rows[RowOf(r)]
<1> DEFINE Goal == rows'[RowOf(r)] = rows[RowOf(r)]
<1>t. /\ rows \in [RowIds -> RowRecord \cup {NoRecord}] /\ RowOf(r) \in RowIds
      /\ rows[RowOf(r)] # NoRecord /\ rows[RowOf(r)].request = r
      /\ job \in [Workers -> JobType]
  BY RequestTypes DEF TypeInv, TypeOK, OwnersInv, JobType
<1>1. ASSUME NEW u \in Workers, NEW q \in Requests, CommitLate(u, q) PROVE Goal
  <2> DEFINE held == uncommitted[u][RowOf(q)]
  <2>1. RowOf(q) \in RowIds
    BY RequestTypes
  <2>2. CASE /\ held.request = q /\ held # NoRecord
             /\ CanComplete(rows[RowOf(q)], q, held.response)
             /\ rows' = [rows EXCEPT ![RowOf(q)] = Completed(q, held.response)]
    <3>1. ASSUME RowOf(q) = RowOf(r) PROVE FALSE
      <4>1. q = r
        BY <1>t, <2>2, <3>1 DEF CanComplete
      <4> QED
        BY <2>1, <2>2, <4>1 DEF OwnersInv
    <3> QED
      BY <1>t, <2>1, <2>2, <3>1
  <2> QED
    BY <1>1, <2>2 DEF CommitLate
<1>2. ASSUME NEW u \in Workers, NEW q \in Requests, Reserve(u, q) PROVE Goal
  BY <1>t, <1>2 DEF Reserve, Acquires
<1>3. ASSUME NEW u \in Workers, Store(u) PROVE Goal
  <2> DEFINE q == job[u].req
             id == job[u].row
  <2>1. CASE /\ CanComplete(rows[id], q, job[u].response)
             /\ rows' = [rows EXCEPT ![id] = Completed(q, job[u].response)]
    <3>1. ASSUME id = RowOf(r) PROVE FALSE
      <4>1. q = r
        BY <1>t, <2>1, <3>1 DEF CanComplete
      <4>2. Owns(u, r)
        BY <1>3, <4>1 DEF Store, Owns, OwningSteps
      <4>3. u = w
        BY <4>2 DEF OwnersInv
      <4>4. job'[u].step = "idle"
        BY <1>3, <1>t, <2>1 DEF Store, Hold, Respond, IdleJob
      <4> QED
        BY <4>3, <4>4 DEF Owns, OwningSteps
    <3> QED
      BY <1>t, <2>1, <3>1
  <2> QED
    BY <1>3, <2>1 DEF Store, Hold
<1> QED
  BY <1>1, <1>2, <1>3, RowsChange

\* Reservations keep their owners, one each.
LEMMA OwnersStep ==
    ASSUME TypeInv, OwnersInv, [Next]_vars
    PROVE  OwnersInv'
<1>t. rows \in [RowIds -> RowRecord \cup {NoRecord}]
  BY DEF TypeInv, TypeOK
<1>r. ASSUME NEW w \in Workers, NEW r \in Requests, Reserves(w, r)
      PROVE  /\ rows'[RowOf(r)] # NoRecord
             /\ rows'[RowOf(r)].request = r
             /\ rows'[RowOf(r)].status = "in_progress"
  <2>1. Reserved(r) \in RowRecord
    BY DEF Reserved, RowRecord
  <2>2. rows'[RowOf(r)] = Reserved(r)
    BY <1>t, <1>r, RequestTypes DEF Reserves
  <2> QED
    BY <2>1, <2>2, NoRecordAssumption DEF Reserved
<1>1. ASSUME NEW w \in Workers, NEW r \in Requests, Owns(w, r)'
      PROVE  /\ rows'[RowOf(r)] # NoRecord
             /\ rows'[RowOf(r)].request = r
             /\ rows'[RowOf(r)].status = "in_progress"
  <2>1. CASE Owns(w, r)
    BY <1>1, <2>1, OwnedRowStays DEF OwnersInv
  <2> QED
    BY <1>1, <1>r, <2>1, OwnsMoves
<1>2. ASSUME NEW w \in Workers, NEW v \in Workers, NEW r \in Requests,
             Owns(w, r)', Owns(v, r)'
      PROVE  w = v
  <2>1. ASSUME NEW x \in Workers, NEW y \in Workers, Reserves(x, r), x # y, Owns(y, r)'
        PROVE  FALSE
    <3>1. Owns(y, r)
      BY <2>1 DEF Reserves, Owns
    <3> QED
      BY <2>1, <3>1 DEF Reserves, OwnersInv
  <2> QED
    BY <1>2, <2>1, OwnsMoves DEF OwnersInv
<1>3. ASSUME NEW w \in Workers, NEW id \in RowIds, uncommitted'[w][id] # NoRecord
      PROVE  LET q == uncommitted'[w][id].request
             IN  /\ rows'[RowOf(q)] # NoRecord
                 /\ rows'[RowOf(q)].request = q
                 /\ \A v \in Workers : ~(job'[v].step \in OwningSteps /\ job'[v].req = q)
  <2>1. PICK q : q = uncommitted'[w][id].request
    OBVIOUS
  <2>2. /\ q \in Requests
        /\ rows[RowOf(q)] # NoRecord /\ rows[RowOf(q)].request = q
        /\ \A v \in Workers : ~Owns(v, q)'
    <3>1. CASE uncommitted'[w][id] = uncommitted[w][id]
      <4>1. /\ q \in Requests
            /\ rows[RowOf(q)] # NoRecord /\ rows[RowOf(q)].request = q
            /\ \A v \in Workers : ~Owns(v, q)
        BY <1>3, <2>1, <3>1 DEF OwnersInv, TypeInv, TypeOK, Draft
      <4> QED
        BY <4>1, OwnsMoves DEF Reserves
    <3>2. CASE Holds(w, id)
      <4>1. q = job[w].req /\ q \in Requests /\ Owns(w, q) /\ job'[w].step = "idle"
        BY <2>1, <3>2, StoringJob DEF Holds, Owns, OwningSteps
      <4>2. rows[RowOf(q)] # NoRecord /\ rows[RowOf(q)].request = q
        BY <4>1 DEF OwnersInv
      <4>3. ASSUME NEW v \in Workers, Owns(v, q)' PROVE FALSE
        <5>1. Owns(v, q)
          BY <4>1, <4>2, <4>3, OwnsMoves DEF Reserves
        <5>2. v = w
          BY <4>1, <5>1 DEF OwnersInv
        <5> QED
          BY <4>1, <4>3, <5>2 DEF Owns, OwningSteps
      <4> QED
        BY <4>1, <4>2, <4>3
    <3> QED
      BY <1>3, <3>1, <3>2, HeldStep
  <2>3. rows'[RowOf(q)] # NoRecord /\ rows'[RowOf(q)].request = q
    BY <2>2, RequestTypes, RowsRemain
  <2> QED
    BY <2>1, <2>2, <2>3 DEF Owns
<1> QED
  BY <1>1, <1>2, <1>3 DEF OwnersInv, Owns, RowOf

-----------------------------------------------------------------------------
(* Requests: who has one, and what its client is told.                      *)

\* A worker without a job has no request, and one that serves a GET shows it.
JobShape(w) ==
    /\ job[w].step \in {"idle", "down"} => job[w].req = NoRecord
    /\ job[w].step = "persist" /\ job[w].req \in Gets => job[w].response = "shown"

ServingInv ==
    /\ RecordsInv
    /\ OwnersInv
    /\ \A w \in Workers : JobShape(w)

\* ServingInv is inductive.
LEMMA ServingInductive == ServingInv /\ [Next]_vars => ServingInv'
<1> SUFFICES ASSUME ServingInv, [Next]_vars PROVE ServingInv'
  OBVIOUS
<1>1. RecordsInv' /\ OwnersInv'
  BY RecordsInductive, OwnersStep DEF ServingInv, RecordsInv
<1>2. ASSUME NEW w \in Workers PROVE JobShape(w)'
  <2>1. JobMoves(w)
    BY JobsStep DEF ServingInv, RecordsInv
  <2>2. \A r \in Requests : r \notin Gets
    BY RequestTypes DEF Gets, Get
  <2>3. CASE job'[w] = job[w]
    BY <2>3 DEF ServingInv, JobShape
  <2>4. CASE job'[w] \in {IdleJob, DownJob}
    BY <2>4 DEF JobShape, IdleJob, DownJob
  <2> QED
    BY <2>1, <2>2, <2>3, <2>4 DEF JobMoves, JobShape, Reserves, OwningSteps
<1> QED
  BY <1>1, <1>2 DEF ServingInv

\* At the start no worker has a request.
LEMMA ServingInitially == Init => ServingInv
  BY RecordsInitially, NoRecordAssumption
  DEF Init, ServingInv, OwnersInv, Owns, OwningSteps, IdleJob, NothingUncommitted, JobShape

\* A request is being served by the job that owns its reservation, ...
LEMMA ServedIsOwned ==
    ASSUME ServingInv, NEW w \in Workers, NEW r \in Requests
    PROVE  (job[w].req = r /\ job[w].step # "peek") <=> Owns(w, r)
<1>1. job[w].step \in Steps
  BY DEF ServingInv, RecordsInv, TypeInv, TypeOK
<1>2. job[w].req = r => job[w].step \notin {"idle", "down"}
  BY NoRecordAssumption DEF ServingInv, JobShape
<1> QED
  BY <1>1, <1>2 DEF Owns, OwningSteps, Steps

\* ... and whoever completes the row of a request has it.
LEMMA CompletedByHolder ==
    ASSUME ServingInv, [Next]_vars, NEW r \in Requests,
           rows[RowOf(r)] # NoRecord, rows[RowOf(r)].request = r,
           \A w \in Workers : ~HeldBy(w, r)
    PROVE  rows'[RowOf(r)] = rows[RowOf(r)]
<1> DEFINE Goal == rows'[RowOf(r)] = rows[RowOf(r)]
<1>t. rows \in [RowIds -> RowRecord \cup {NoRecord}]
  BY DEF ServingInv, RecordsInv, TypeInv, TypeOK
<1>0. CASE UNCHANGED rows
  BY <1>0
<1>1. ASSUME NEW u \in Workers, NEW q \in Requests, CommitLate(u, q) PROVE Goal
  <2> DEFINE held == uncommitted[u][RowOf(q)]
  <2>1. held # NoRecord
    BY <1>1 DEF CommitLate
  <2>2. CASE /\ held.request = q
             /\ CanComplete(rows[RowOf(q)], q, held.response)
             /\ rows' = [rows EXCEPT ![RowOf(q)] = Completed(q, held.response)]
    <3>1. ASSUME RowOf(q) = RowOf(r) PROVE FALSE
      BY <2>1, <2>2, <3>1 DEF CanComplete, HeldBy
    <3> QED
      BY <1>t, <2>2, <3>1
  <2> QED
    BY <1>0, <1>1, <2>2 DEF CommitLate
<1>2. ASSUME NEW u \in Workers, NEW q \in Requests, Reserve(u, q) PROVE Goal
  <2>1. CASE rows[RowOf(q)] = NoRecord /\ rows' = [rows EXCEPT ![RowOf(q)] = Reserved(q)]
    BY <1>t, <2>1
  <2> QED
    BY <1>0, <1>2, <2>1 DEF Reserve, Acquires
<1>3. ASSUME NEW u \in Workers, Store(u) PROVE Goal
  <2>1. CASE /\ CanComplete(rows[job[u].row], job[u].req, job[u].response)
             /\ rows' = [rows EXCEPT ![job[u].row] =
                            Completed(job[u].req, job[u].response)]
    <3>1. ASSUME job[u].row = RowOf(r) PROVE FALSE
      BY <1>3, <2>1, <3>1 DEF Store, CanComplete, HeldBy
    <3> QED
      BY <1>t, <2>1, <3>1
  <2> QED
    BY <1>3, <2>1 DEF Store, Hold
<1> QED
  BY <1>1, <1>2, <1>3, RowsChange

\* Nobody comes to have a request that is reserved and that nobody has.
LEMMA NobodyTakesOver ==
    ASSUME ServingInv, ServingInv', [Next]_vars, NEW r \in Requests,
           rows[RowOf(r)] # NoRecord, \A w \in Workers : ~HeldBy(w, r),
           NEW w \in Workers
    PROVE  ~HeldBy(w, r)'
<1>t. TypeInv /\ RowOf(r) \in RowIds
  BY RequestTypes DEF ServingInv, RecordsInv
<1>1. ASSUME job'[w].req = r, job'[w].step # "peek" PROVE FALSE
  <2>1. Owns(w, r)'
    <3>1. job'[w].step \in Steps
      BY DEF ServingInv, RecordsInv, TypeInv, TypeOK
    <3>2. job'[w].step \notin {"idle", "down"}
      BY <1>1, NoRecordAssumption DEF ServingInv, JobShape
    <3> QED
      BY <1>1, <3>1, <3>2 DEF Owns, OwningSteps, Steps
  <2>2. ~Reserves(w, r)
    BY DEF Reserves
  <2>3. Owns(w, r)
    BY <1>t, <2>1, <2>2, OwnsMoves
  <2> QED
    BY <2>3, ServedIsOwned DEF HeldBy
<1>2. ASSUME uncommitted'[w][RowOf(r)] # NoRecord, uncommitted'[w][RowOf(r)].request = r
      PROVE  FALSE
  <2>1. uncommitted'[w][RowOf(r)] = uncommitted[w][RowOf(r)] \/ Holds(w, RowOf(r))
    BY <1>t, <1>2, HeldStep
  <2> QED
    BY <1>2, <2>1 DEF Holds, HeldBy
<1> QED
  BY <1>1, <1>2 DEF HeldBy, RowOf

\* What nobody has stays so: the request is reserved, unanswered and not served.
LEMMA AbandonedStays ==
    ASSUME ServingInv, ServingInv', [Next]_vars, NEW r \in Requests, Abandoned(r)
    PROVE  Abandoned(r)'
<1>1. /\ rows[RowOf(r)] # NoRecord /\ rows[RowOf(r)].request = r
      /\ rows[RowOf(r)].status # "complete"
      /\ \A w \in Workers : ~HeldBy(w, r)
  BY DEF Abandoned, Answered, Held
<1>2. rows'[RowOf(r)] = rows[RowOf(r)]
  BY <1>1, CompletedByHolder
<1>3. \A w \in Workers : ~HeldBy(w, r)'
  BY <1>1, NobodyTakesOver
<1> QED
  BY <1>1, <1>2, <1>3 DEF Abandoned, Answered, Held, RowOf

\* Completed rows and settled claims never change, and none is lost or handed to
\* another, by any retry, late owner, operator or crash; nor is a reservation
\* whose owner is gone ever taken over or answered.
THEOREM FinalIsFinal == Spec => FinalStaysFinal
<1>1. TypeInv /\ [Next]_vars =>
        /\ \A id \in RowIds : rows[id] # NoRecord =>
             /\ rows'[id].request = rows[id].request
             /\ rows[id].status = "complete" => rows'[id] = rows[id]
        /\ \A id \in ClaimIds : claims[id] # NoRecord =>
             /\ claims'[id].owner = claims[id].owner
             /\ claims[id].status # "claimed" => claims'[id] = claims[id]
  BY RowsStep, ClaimsStep, CompleteStays, SettledStays
<1>2. ServingInv /\ ServingInv' /\ [Next]_vars =>
        \A r \in Requests : Abandoned(r) => Abandoned(r)'
  BY AbandonedStays
<1>3. ServingInv => TypeInv
  BY DEF ServingInv, RecordsInv
<1> QED
  BY <1>1, <1>2, <1>3, ServingInitially, ServingInductive, PTL DEF Spec, FinalStaysFinal

\* What a worker does by itself, ...
Acts(w) ==
    \/ \E r \in Requests :
          AnswerFromCache(w, r) \/ CommitLate(w, r) \/ Reserve(w, r)
    \/ \E i \in ApprovalIds : ServeGet(w, i)
    \/ Work(w)
    \/ StoreFails(w)
    \/ Crash(w)
    \/ Restart(w)

\* ... and what that leaves alone.
OnlyOf(w) ==
    \A v \in Workers \ {w} : job'[v] = job[v] /\ uncommitted'[v] = uncommitted[v]

\* What a worker does leaves the jobs and held responses of the others alone.
LEMMA ActsAlone ==
    ASSUME TypeInv, NEW w \in Workers, Acts(w)
    PROVE  OnlyOf(w)
<1>t. /\ job \in [Workers -> JobType]
      /\ uncommitted \in [Workers -> [RowIds -> Draft \cup {NoRecord}]]
  BY DEF TypeInv, TypeOK, JobType
<1>1. ASSUME NEW x, job' = [job EXCEPT ![w] = x], UNCHANGED uncommitted PROVE OnlyOf(w)
  BY <1>1, <1>t DEF OnlyOf
<1>2. ASSUME NEW r, NEW x, Respond(w, r, x), UNCHANGED uncommitted PROVE OnlyOf(w)
  BY <1>1, <1>2 DEF Respond
<1>3. ASSUME NEW step, NEW x, Continue(w, step, x), UNCHANGED uncommitted PROVE OnlyOf(w)
  BY <1>3, <1>t DEF Continue, OnlyOf
<1>4. ASSUME NEW r, NEW x, Respond(w, r, x), NEW id, NEW e,
             uncommitted' = [uncommitted EXCEPT ![w][id] = e]
      PROVE  OnlyOf(w)
  BY <1>4, <1>t DEF Respond, OnlyOf
<1>5. ASSUME NEW r \in Requests,
             AnswerFromCache(w, r) \/ CommitLate(w, r) \/ Reserve(w, r)
      PROVE  OnlyOf(w)
  <2>1. CASE AnswerFromCache(w, r)
    BY <1>2, <2>1 DEF AnswerFromCache, memory
  <2>2. CASE CommitLate(w, r)
    <3>1. \E x : Respond(w, r, x)
      BY <2>2 DEF CommitLate
    <3>2. \/ UNCHANGED uncommitted
          \/ uncommitted' = [uncommitted EXCEPT ![w][RowOf(r)] = NoRecord]
      BY <2>2 DEF CommitLate
    <3> QED
      BY <1>2, <1>4, <3>1, <3>2
  <2>3. CASE Reserve(w, r)
    <3>1. UNCHANGED uncommitted
      BY <2>3 DEF Reserve
    <3>2. (\E x : job' = [job EXCEPT ![w] = x]) \/ (\E x : Respond(w, r, x))
      BY <2>3 DEF Reserve
    <3> QED
      BY <1>1, <1>2, <3>1, <3>2
  <2> QED
    BY <1>5, <2>1, <2>2, <2>3
<1>6. ASSUME NEW i \in ApprovalIds, ServeGet(w, i) PROVE OnlyOf(w)
  <2>1. /\ UNCHANGED uncommitted
        /\ job' = [job EXCEPT ![w].step = "persist", ![w].req = Get(i),
                              ![w].response = "shown"]
    BY <1>6 DEF ServeGet
  <2> QED
    BY <1>t, <2>1 DEF OnlyOf
<1>7. CASE Work(w)
  <2>1. CASE Peek(w) \/ Turned(w) \/ Persist(w)
    <3>1. UNCHANGED uncommitted
      BY <2>1 DEF Peek, Turned, Persist, memory
    <3>2. (\E x : Respond(w, job[w].req, x)) \/ (\E step, x : Continue(w, step, x))
      BY <2>1 DEF Peek, Turned, Persist
    <3> QED
      BY <1>2, <1>3, <3>1, <3>2
  <2>2. CASE Claim(w) \/ Operate(w) \/ Settle(w)
    <3>1. UNCHANGED uncommitted /\ \E step, x : Continue(w, step, x)
      BY <2>2 DEF Claim, Operate, Settle, memory
    <3> QED
      BY <1>3, <3>1
  <2>3. ASSUME NEW o \in Outcomes, NEW g \in Governance, ServeDecision(w, o, g)
        PROVE  OnlyOf(w)
    <3>1. UNCHANGED uncommitted /\ \E step, x : Continue(w, step, x)
      BY <2>3 DEF ServeDecision
    <3> QED
      BY <1>3, <3>1
  <2>v. ASSUME NEW g \in Governance, ServeVote(w, g) PROVE OnlyOf(w)
    <3>1. UNCHANGED uncommitted
      BY <2>v DEF ServeVote
    <3>2. \E step, x : Continue(w, step, x)
      BY <2>v, ServeVoteKeeps
    <3> QED
      BY <1>3, <3>1, <3>2
  <2>4. ASSUME NEW g \in Governance, ServeResume(w, g) PROVE OnlyOf(w)
    <3>1. UNCHANGED uncommitted
      BY <2>4 DEF ServeResume
    <3>2. CASE job' = [job EXCEPT ![w].step = "store",
                                  ![w].row = <<"decisions", job[w].req.key>>,
                                  ![w].response = "forbidden"]
      BY <1>t, <3>1, <3>2 DEF OnlyOf, JobType
    <3>3. CASE Continue(w, "persist", "refused") \/ Continue(w, "claim", NoRecord)
      BY <1>3, <3>1, <3>3
    <3> QED
      BY <2>4, <3>2, <3>3, ServeResumeKeeps, ZenonT(60)
  <2>5. CASE Store(w)
    <3>1. \E x : Respond(w, job[w].req, x)
      BY <2>5 DEF Store, Hold
    <3>2. \E e : uncommitted' = [uncommitted EXCEPT ![w][job[w].row] = e]
      BY <2>5 DEF Store, Hold
    <3> QED
      BY <1>4, <3>1, <3>2
  <2> QED
    BY <1>7, <2>1, <2>2, <2>3, <2>v, <2>4, <2>5 DEF Work
<1>8. CASE StoreFails(w)
  BY <1>2, <1>3, <1>4, <1>8 DEF StoreFails, Hold
<1>9. CASE Crash(w) \/ Restart(w)
  BY <1>t, <1>9 DEF Crash, Restart, OnlyOf
<1> QED
  BY <1>5, <1>6, <1>7, <1>8, <1>9 DEF Acts

\* Whatever changes a job or a held response is done by a worker.
LEMMA SomeoneActs ==
    ASSUME [Next]_vars
    PROVE  UNCHANGED <<job, uncommitted>> \/ \E w \in Workers : Acts(w)
<1>1. CASE Tick \/ \E id \in ClaimIds : Reconcile(id)
  BY <1>1 DEF Tick, Reconcile, memory
<1>2. CASE UNCHANGED vars
  BY <1>2 DEF vars, memory
<1> QED
  BY <1>1, <1>2 DEF Next, Acts

\* How a worker may stop having a request that is not answered.
LeftBy(w, r) ==
    \/ job'[w].step = "down"
    \/ \E x \in GivingUp : reply' = [req |-> r, response |-> x]
    \/ job[w].response = "forbidden" /\ job[w].row = RowOf(r)

\* A job that owns a request keeps it, until it answers it, gives it up, or ends
\* in a response to a caller without a role.
LEMMA OwnerLeaves ==
    ASSUME ServingInv, [Next]_vars, NEW w \in Workers, NEW r \in Requests,
           Owns(w, r), ~Answered(r)', ~HeldBy(w, r)'
    PROVE  LeftBy(w, r)
<1>t. /\ TypeInv
      /\ job \in [Workers -> JobType] /\ job[w].req = r /\ r \notin Gets
      /\ r.scope # "get"
      /\ job[w].step \in OwningSteps
  BY RequestTypes DEF ServingInv, RecordsInv, TypeInv, TypeOK, JobType, Owns, Gets, Get
<1>1. ASSUME job'[w].req = r, job'[w].step # "peek" PROVE FALSE
  BY <1>1 DEF HeldBy
<1>2. ASSUME NEW step \in OwningSteps, NEW x, Continue(w, step, x) PROVE FALSE
  BY <1>1, <1>2, <1>t DEF Continue, OwningSteps, JobType
<1>3. ASSUME NEW x \in GivingUp, Respond(w, job[w].req, x) PROVE LeftBy(w, r)
  BY <1>3, <1>t DEF Respond, LeftBy
<1>4. CASE Turned(w)
  BY <1>3, <1>4 DEF Turned, GivingUp
<1>5. CASE Persist(w)
  <2>1. Continue(w, "store", job[w].response) \/ Respond(w, job[w].req, "state_conflict")
    BY <1>t, <1>5 DEF Persist
  <2> QED
    BY <1>2, <1>3, <2>1 DEF OwningSteps, GivingUp
<1>6. ASSUME job[w].step = "store", NEW x \in {"unavailable", "state_conflict"}, Hold(w, x)
      PROVE  LeftBy(w, r)
  BY <1>3, <1>6 DEF Hold, GivingUp
<1>7. CASE Store(w)
  <2>1. CASE /\ CanComplete(rows[job[w].row], r, job[w].response)
             /\ rows' = [rows EXCEPT ![job[w].row] = Completed(r, job[w].response)]
    <3>1. /\ job[w].row \in RowIds /\ Completed(r, job[w].response) \in RowRecord
          /\ rows \in [RowIds -> RowRecord \cup {NoRecord}]
      BY <1>t, <1>7, <2>1, StoringJob DEF Store, CanComplete, TypeInv, TypeOK
    <3>2. job[w].row = RowOf(r)
      BY <2>1, <3>1 DEF CanComplete, ServingInv, RecordsInv, RowsKeyed
    <3>3. rows'[RowOf(r)] = Completed(r, job[w].response) /\ rows'[RowOf(r)] # NoRecord
      BY <2>1, <3>1, <3>2, NoRecordAssumption
    <3> QED
      BY <3>3 DEF Answered, RowOf, Completed
  <2>2. job[w].step = "store"
    BY <1>7 DEF Store
  <2>3. \/ /\ CanComplete(rows[job[w].row], r, job[w].response)
           /\ rows' = [rows EXCEPT ![job[w].row] = Completed(r, job[w].response)]
        \/ Hold(w, "unavailable") \/ Hold(w, "state_conflict")
    BY <1>t, <1>7 DEF Store, Refusal
  <2> QED
    BY <1>6, <2>1, <2>2, <2>3
<1>8. CASE StoreFails(w)
  <2>1. job[w].step # "peek"
    BY <1>t DEF OwningSteps
  <2>2. \/ Continue(w, AfterOperation(w), "uncertain")
        \/ Respond(w, job[w].req, "unavailable")
    BY <1>8, <2>1 DEF StoreFails, Hold
  <2>3. AfterOperation(w) \in OwningSteps
    BY DEF AfterOperation, OwningSteps
  <2> QED
    BY <1>2, <1>3, <2>2, <2>3 DEF GivingUp
<1>9. CASE Crash(w)
  BY <1>9, <1>t DEF Crash, DownJob, LeftBy
<1>10. CASE Claim(w) \/ Operate(w) \/ Settle(w)
  <2>1. \E step \in OwningSteps : \E x : Continue(w, step, x)
    BY <1>10 DEF Claim, Operate, Settle, AfterOperation, OwningSteps
  <2> QED
    BY <1>2, <2>1
<1>11. ASSUME NEW o \in Outcomes, NEW g \in Governance, ServeDecision(w, o, g) PROVE FALSE
  <2>1. \E step \in OwningSteps : \E x : Continue(w, step, x)
    BY <1>11 DEF ServeDecision, OwningSteps
  <2> QED
    BY <1>2, <2>1
<1>12. ASSUME NEW g \in Governance, ServeVote(w, g) PROVE FALSE
  BY <1>2, <1>12, <1>t, ServeVoteKeeps DEF OwningSteps
<1>13. ASSUME NEW g \in Governance, ServeResume(w, g) PROVE FALSE
  <2>1. CASE job' = [job EXCEPT ![w].step = "store",
                                ![w].row = <<"decisions", job[w].req.key>>,
                                ![w].response = "forbidden"]
    BY <1>1, <1>t, <2>1 DEF JobType
  <2>2. CASE Continue(w, "persist", "refused") \/ Continue(w, "claim", NoRecord)
    BY <1>2, <2>2 DEF OwningSteps
  <2> QED
    BY <1>13, <1>t, <2>1, <2>2, ServeResumeKeeps, ZenonT(60)
<1>14. CASE Work(w)
  BY <1>t, <1>4, <1>5, <1>7, <1>10, <1>11, <1>12, <1>13, <1>14 DEF Work, Peek, OwningSteps
<1>15. CASE Acts(w)
  <2>1. job[w].step \notin {"idle", "down"}
    BY <1>t DEF OwningSteps
  <2>2. \A q \in Requests : ~AnswerFromCache(w, q)
    BY <2>1 DEF AnswerFromCache
  <2>3. \A q \in Requests : ~CommitLate(w, q)
    BY <2>1 DEF CommitLate
  <2>4. \A q \in Requests : ~Reserve(w, q)
    BY <2>1 DEF Reserve
  <2>5. \A i \in ApprovalIds : ~ServeGet(w, i)
    BY <2>1 DEF ServeGet
  <2>6. ~Restart(w)
    BY <2>1 DEF Restart
  <2> QED
    BY <1>8, <1>9, <1>14, <1>15, <2>2, <2>3, <2>4, <2>5, <2>6 DEF Acts
<1>16. job'[w] # job[w]
  BY <1>1, <1>t DEF OwningSteps
<1> QED
  BY <1>t, <1>15, <1>16, SomeoneActs, ActsAlone DEF OnlyOf

\* Of the steps of a job only the last may change what is held.
LEMMA WorkKeepsHeld ==
    ASSUME NEW w \in Workers, Work(w)
    PROVE  UNCHANGED uncommitted \/ Store(w)
<1>1. CASE Peek(w) \/ Turned(w) \/ Claim(w) \/ Operate(w) \/ Settle(w) \/ Persist(w)
  BY <1>1 DEF Peek, Turned, Claim, Operate, Settle, Persist, memory
<1>2. ASSUME NEW o, NEW g, ServeDecision(w, o, g) PROVE UNCHANGED uncommitted
  BY <1>2 DEF ServeDecision
<1>3. ASSUME NEW g, ServeVote(w, g) PROVE UNCHANGED uncommitted
  BY <1>3 DEF ServeVote
<1>4. ASSUME NEW g, ServeResume(w, g) PROVE UNCHANGED uncommitted
  BY <1>4 DEF ServeResume
<1> QED
  BY <1>1, <1>2, <1>3, <1>4 DEF Work

\* A response that is held is kept, until it is committed, the worker crashes, or
\* a response to a caller without a role takes its place.
LEMMA HolderLeaves ==
    ASSUME ServingInv, [Next]_vars, NEW w \in Workers, NEW r \in Requests,
           uncommitted[w][RowOf(r)] # NoRecord, uncommitted[w][RowOf(r)].request = r,
           ~Answered(r)', ~HeldBy(w, r)'
    PROVE  LeftBy(w, r)
<1> DEFINE id == RowOf(r)
<1>t. /\ TypeInv /\ id \in RowIds
      /\ job \in [Workers -> JobType]
      /\ uncommitted \in [Workers -> [RowIds -> Draft \cup {NoRecord}]]
      /\ rows \in [RowIds -> RowRecord \cup {NoRecord}]
      /\ rows[id] # NoRecord /\ rows[id].request = r
      /\ ~Owns(w, r)
  BY RequestTypes DEF ServingInv, RecordsInv, TypeInv, TypeOK, JobType, OwnersInv
<1>1. uncommitted'[w][id] # uncommitted[w][id]
  BY DEF HeldBy, RowOf
<1>2. ASSUME NEW q \in Requests, CommitLate(w, q) PROVE FALSE
  <2> DEFINE held == uncommitted[w][RowOf(q)]
  <2>1. RowOf(q) \in RowIds
    BY RequestTypes
  <2>2. /\ held # NoRecord /\ held.request = q
        /\ Encodable(held.response)
        /\ rows' = [rows EXCEPT ![RowOf(q)] = Completed(q, held.response)]
        /\ uncommitted' = [uncommitted EXCEPT ![w][RowOf(q)] = NoRecord]
    BY <1>1, <1>2 DEF CommitLate, CanComplete
  <2>3. RowOf(q) = id
    BY <1>1, <1>t, <2>1, <2>2, PutType
  <2>4. q = r
    BY <2>2, <2>3
  <2>5. Completed(r, held.response) \in RowRecord
    <3>1. held \in Draft
      BY <1>t, <2>1, <2>2
    <3> QED
      BY <2>2, <3>1, EncodableDraft DEF Completed, RowRecord, Draft
  <2>6. rows'[id] = Completed(r, held.response) /\ rows'[id] # NoRecord
    BY <1>t, <2>2, <2>4, <2>5, NoRecordAssumption
  <2> QED
    BY <2>6 DEF Answered, RowOf, Completed
<1>3. ASSUME job[w].step = "store", NEW x, Hold(w, x) PROVE LeftBy(w, r)
  <2> DEFINE q == job[w].req
             e == [request |-> job[w].req, response |-> job[w].response]
  <2>1. job[w].row \in RowIds /\ e \in Draft /\ q \in Requests
    BY <1>3, <1>t, StoringJob
  <2>2. job[w].row = id
    <3>1. uncommitted' = [uncommitted EXCEPT ![w][job[w].row] = e]
      BY <1>3 DEF Hold
    <3> HIDE DEF e
    <3> QED
      BY <1>1, <1>t, <2>1, <3>1, PutType
  <2>3. Owns(w, q)
    BY <1>3 DEF Owns, OwningSteps
  <2>4. q # r
    BY <1>t, <2>3
  <2>5. job[w].row # RowOf(q)
    BY <1>t, <2>1, <2>2, <2>3, <2>4 DEF ServingInv, OwnersInv
  <2>6. job[w].response = "forbidden"
    BY <1>3, <1>t, <2>1, <2>5 DEF TypeInv, JobOK, OwningSteps
  <2> QED
    BY <2>2, <2>6 DEF LeftBy
<1>4. CASE Store(w)
  <2>1. CASE /\ CanComplete(rows[job[w].row], job[w].req, job[w].response)
             /\ uncommitted' = [uncommitted EXCEPT ![w][job[w].row] = NoRecord]
    <3>1. job[w].row \in RowIds
      BY <1>4, <1>t, StoringJob DEF Store
    <3>2. job[w].row = id
      BY <1>1, <1>t, <2>1, <3>1, PutType
    <3>3. job[w].req = r
      BY <1>t, <2>1, <3>2 DEF CanComplete
    <3> QED
      BY <1>4, <1>t, <3>3 DEF Store, Owns, OwningSteps
  <2>2. job[w].step = "store"
    BY <1>4 DEF Store
  <2>3. \/ /\ CanComplete(rows[job[w].row], job[w].req, job[w].response)
           /\ uncommitted' = [uncommitted EXCEPT ![w][job[w].row] = NoRecord]
        \/ \E x : Hold(w, x)
    BY <1>4 DEF Store
  <2> QED
    BY <1>3, <2>1, <2>2, <2>3
<1>5. CASE StoreFails(w)
  BY <1>1, <1>3, <1>5 DEF StoreFails
<1>6. CASE Crash(w)
  BY <1>6, <1>t DEF Crash, DownJob, LeftBy
<1>7. ASSUME UNCHANGED uncommitted PROVE FALSE
  BY <1>1, <1>7
<1>8. CASE Work(w)
  <2>1. UNCHANGED uncommitted \/ Store(w)
    BY <1>8, WorkKeepsHeld
  <2> QED
    BY <1>4, <1>7, <2>1
<1>9. CASE Acts(w)
  <2>1. ASSUME NEW q \in Requests, AnswerFromCache(w, q) \/ Reserve(w, q) PROVE FALSE
    BY <1>7, <2>1 DEF AnswerFromCache, Reserve, memory
  <2>2. ASSUME NEW i \in ApprovalIds, ServeGet(w, i) PROVE FALSE
    BY <1>7, <2>2 DEF ServeGet
  <2>3. ASSUME Restart(w) PROVE FALSE
    BY <1>7, <2>3 DEF Restart
  <2> QED
    BY <1>2, <1>5, <1>6, <1>8, <1>9, <2>1, <2>2, <2>3 DEF Acts
<1> QED
  BY <1>t, <1>1, <1>9, SomeoneActs, ActsAlone DEF OnlyOf

\* Whoever waits for an answer is not forgotten: a request that is served, or
\* whose response is held, is abandoned only by a worker that crashes, that tells
\* the client so, or that loses the response to one for a caller without a role.
THEOREM NobodyIsForgotten == Spec => GivenUpIsTold
<1>1. ASSUME ServingInv, [Next]_vars, NEW r \in Requests, Held(r), Abandoned(r)'
      PROVE  \E w \in Workers : HeldBy(w, r) /\ LeftBy(w, r)
  <2>1. PICK w \in Workers : HeldBy(w, r)
    BY <1>1 DEF Held
  <2>2. ~Answered(r)' /\ ~HeldBy(w, r)'
    BY <1>1 DEF Abandoned, Held
  <2>3. CASE job[w].req = r /\ job[w].step # "peek"
    <3>1. Owns(w, r)
      BY <1>1, <2>3, ServedIsOwned
    <3> QED
      BY <1>1, <2>1, <2>2, <3>1, OwnerLeaves
  <2>4. CASE uncommitted[w][RowOf(r)] # NoRecord /\ uncommitted[w][RowOf(r)].request = r
    BY <1>1, <2>1, <2>2, <2>4, HolderLeaves
  <2> QED
    BY <2>1, <2>3, <2>4 DEF HeldBy
<1>2. ServingInv /\ [Next]_vars =>
        \A r \in Requests : Held(r) /\ Abandoned(r)' =>
          \E w \in Workers :
              /\ HeldBy(w, r)
              /\ \/ job'[w].step = "down"
                 \/ \E x \in GivingUp : reply' = [req |-> r, response |-> x]
                 \/ job[w].response = "forbidden" /\ job[w].row = RowOf(r)
  BY <1>1 DEF LeftBy
<1> QED
  BY <1>2, ServingInitially, ServingInductive, PTL DEF Spec, GivenUpIsTold

\* What only a committed answer says.
Promises == {"executed", "refused", "escalated", "voted"}

Kept(r, x) == Answered(r) /\ Answer(r) = x

\* A step that sends no answer, or another one, keeps every promise.
LEMMA NoPromise ==
    ASSUME NEW r, NEW x, x \notin Promises,
           reply' = NoRecord \/ reply' = [req |-> r, response |-> x]
    PROVE  ToldIsCommitted'
  BY DEF ToldIsCommitted, Promises

\* A worker that promises something has completed the row of the request, or
\* found it complete.
LEMMA PromiseKept ==
    ASSUME NEW r \in Requests, NEW x, reply' = [req |-> r, response |-> x], Kept(r, x)'
    PROVE  ToldIsCommitted'
<1>1. Answered(r)' /\ Answer(r)' = x
  BY DEF Kept
<1>2. reply'.req = r /\ reply'.response = x
  OBVIOUS
<1> QED
  BY <1>1, <1>2 DEF ToldIsCommitted, Answered, Answer

\* Completing the row of a request commits its answer.
LEMMA CompletingCommits ==
    ASSUME TypeInv, NEW r \in Requests, NEW x \in Answers,
           rows' = [rows EXCEPT ![RowOf(r)] = Completed(r, x)]
    PROVE  Kept(r, x)'
<1>1. RowOf(r) \in RowIds /\ rows \in [RowIds -> RowRecord \cup {NoRecord}]
  BY RequestTypes DEF TypeInv, TypeOK
<1>2. Completed(r, x) \in RowRecord
  BY DEF Completed, RowRecord
<1>3. rows'[RowOf(r)] = Completed(r, x) /\ rows'[RowOf(r)] # NoRecord
  BY <1>1, <1>2, NoRecordAssumption
<1> QED
  BY <1>3 DEF Kept, Answered, Answer, Completed, RowOf

\* Every step tells only what is committed.
LEMMA TellingStep ==
    ASSUME ServingInv, ToldIsCommitted, [Next]_vars
    PROVE  ToldIsCommitted'
<1>t. TypeInv
  BY DEF ServingInv, RecordsInv
<1>0. ASSUME reply' = NoRecord PROVE ToldIsCommitted'
  BY <1>0 DEF ToldIsCommitted
<1>1. ASSUME NEW w \in Workers, NEW r, NEW x, x \notin Promises, Respond(w, r, x)
      PROVE  ToldIsCommitted'
  BY <1>1, NoPromise DEF Respond
<1>2. ASSUME NEW w \in Workers, NEW step, NEW x, Continue(w, step, x)
      PROVE  ToldIsCommitted'
  BY <1>0, <1>2 DEF Continue
<1>3. ASSUME NEW w \in Workers, NEW r \in Requests, NEW x, Respond(w, r, x), Kept(r, x)'
      PROVE  ToldIsCommitted'
  BY <1>3, PromiseKept DEF Respond
<1>4. ASSUME NEW w \in Workers, NEW r \in Requests, AnswerFromCache(w, r)
      PROVE  ToldIsCommitted'
  <2>1. r.key \in Keys /\ UNCHANGED rows /\ cache[w][r.key] # NoRecord
    BY <1>4, RequestTypes DEF AnswerFromCache, repository
  <2>2. CASE cache[w][r.key].request = r
    <3>1. PICK x : x = cache[w][r.key].response
      OBVIOUS
    <3>2. Kept(r, x)
      BY <2>1, <2>2, <3>1 DEF ServingInv, RecordsInv, CacheIsCommitted, Kept
    <3>3. Kept(r, x)'
      BY <2>1, <3>2 DEF Kept, Answered, Answer, RowOf
    <3>4. Respond(w, r, x)
      BY <1>4, <2>2, <3>1 DEF AnswerFromCache
    <3> QED
      BY <1>3, <3>3, <3>4
  <2>3. CASE cache[w][r.key].request # r
    BY <1>1, <1>4, <2>3 DEF AnswerFromCache, Promises
  <2> QED
    BY <2>2, <2>3
<1>5. ASSUME NEW w \in Workers, NEW r \in Requests, CommitLate(w, r)
      PROVE  ToldIsCommitted'
  <2>1. CASE /\ uncommitted[w][RowOf(r)].request = r
             /\ Encodable(uncommitted[w][RowOf(r)].response)
             /\ rows' = [rows EXCEPT ![RowOf(r)] =
                            Completed(r, uncommitted[w][RowOf(r)].response)]
             /\ Respond(w, r, uncommitted[w][RowOf(r)].response)
    <3>1. PICK x : x = uncommitted[w][RowOf(r)].response
      OBVIOUS
    <3>2. x \in Answers
      <4>1. uncommitted[w][RowOf(r)] \in Draft
        BY <1>t, <1>5, RequestTypes DEF CommitLate, TypeInv, TypeOK
      <4> QED
        BY <2>1, <3>1, <4>1, EncodableDraft DEF Draft
    <3>3. Kept(r, x)'
      BY <1>t, <2>1, <3>1, <3>2, CompletingCommits
    <3> QED
      BY <1>3, <2>1, <3>1, <3>3
  <2>2. CASE \E x \in {"unavailable", "state_conflict", "key_conflict"} : Respond(w, r, x)
    BY <1>1, <2>2 DEF Promises
  <2>3. \/ /\ uncommitted[w][RowOf(r)].request = r
           /\ Encodable(uncommitted[w][RowOf(r)].response)
           /\ rows' = [rows EXCEPT ![RowOf(r)] =
                          Completed(r, uncommitted[w][RowOf(r)].response)]
           /\ Respond(w, r, uncommitted[w][RowOf(r)].response)
        \/ \E x \in {"unavailable", "state_conflict", "key_conflict"} : Respond(w, r, x)
    BY <1>5 DEF CommitLate, Refusal, CanComplete
  <2> QED
    BY <2>1, <2>2, <2>3
<1>6. ASSUME NEW w \in Workers, NEW r \in Requests, Reserve(w, r)
      PROVE  ToldIsCommitted'
  <2>1. CASE /\ rows[RowOf(r)] # NoRecord /\ rows[RowOf(r)].request = r
             /\ rows[RowOf(r)].status = "complete"
             /\ Respond(w, r, rows[RowOf(r)].response)
             /\ UNCHANGED rows
    <3>1. PICK x : x = rows[RowOf(r)].response
      OBVIOUS
    <3>2. Kept(r, x)'
      BY <2>1, <3>1 DEF Kept, Answered, Answer, RowOf
    <3> QED
      BY <1>3, <2>1, <3>1, <3>2
  <2>2. CASE Respond(w, r, "key_conflict") \/ Respond(w, r, "in_progress")
    BY <1>1, <2>2 DEF Promises
  <2>3. CASE reply' = NoRecord
    BY <1>0, <2>3
  <2>4. \/ /\ rows[RowOf(r)] # NoRecord /\ rows[RowOf(r)].request = r
           /\ rows[RowOf(r)].status = "complete"
           /\ Respond(w, r, rows[RowOf(r)].response)
           /\ UNCHANGED rows
        \/ Respond(w, r, "key_conflict") \/ Respond(w, r, "in_progress")
        \/ reply' = NoRecord
    BY <1>6 DEF Reserve
  <2> QED
    BY <2>1, <2>2, <2>3, <2>4
<1>7. ASSUME NEW w \in Workers, Peek(w) PROVE ToldIsCommitted'
  BY <1>1, <1>7 DEF Peek, Promises
<1>8. ASSUME NEW w \in Workers, Turned(w) PROVE ToldIsCommitted'
  BY <1>1, <1>8 DEF Turned, Promises
<1>9. ASSUME NEW w \in Workers, Claim(w) \/ Operate(w) \/ Settle(w)
      PROVE  ToldIsCommitted'
  BY <1>2, <1>9 DEF Claim, Operate, Settle
<1>10. ASSUME NEW w \in Workers, NEW o \in Outcomes, NEW g \in Governance,
              ServeDecision(w, o, g)
       PROVE  ToldIsCommitted'
  BY <1>2, <1>10 DEF ServeDecision
<1>11. ASSUME NEW w \in Workers, NEW g \in Governance, ServeVote(w, g)
       PROVE  ToldIsCommitted'
  BY <1>2, <1>11, <1>t, ServeVoteKeeps
<1>12. ASSUME NEW w \in Workers, NEW g \in Governance, ServeResume(w, g)
       PROVE  ToldIsCommitted'
  <2>1. CASE reply' = NoRecord
    BY <1>0, <2>1
  <2>2. CASE Continue(w, "persist", "refused") \/ Continue(w, "claim", NoRecord)
    BY <1>2, <2>2
  <2> QED
    BY <1>12, <1>t, <2>1, <2>2, ServeResumeKeeps, ZenonT(60)
<1>13. ASSUME NEW w \in Workers, Persist(w) PROVE ToldIsCommitted'
  <2>1. CASE Respond(w, job[w].req, "state_conflict")
    BY <1>1, <2>1 DEF Promises
  <2>2. CASE Continue(w, "store", job[w].response)
    BY <1>2, <2>2
  <2>3. CASE job[w].req.scope = "get" /\ Respond(w, job[w].req, job[w].response)
    <3>1. job[w].req \in Gets
      BY <1>t, <1>13, <2>3, RequestTypes DEF Persist, TypeInv, JobOK
    <3>2. job[w].response = "shown"
      BY <1>13, <3>1 DEF Persist, ServingInv, JobShape
    <3> QED
      BY <1>1, <2>3, <3>2 DEF Promises
  <2> QED
    BY <1>13, <2>1, <2>2, <2>3 DEF Persist
<1>14. ASSUME NEW w \in Workers, NEW x \in {"unavailable", "state_conflict"}, Hold(w, x)
       PROVE  ToldIsCommitted'
  BY <1>1, <1>14 DEF Hold, Promises
<1>15. ASSUME NEW w \in Workers, Store(w) PROVE ToldIsCommitted'
  <2> DEFINE r == job[w].req
  <2>1. /\ r \in Requests /\ job[w].row \in RowIds
        /\ Encodable(job[w].response) => job[w].response \in Answers
    BY <1>t, <1>15, StoringJob DEF Store
  <2>2. CASE /\ CanComplete(rows[job[w].row], r, job[w].response)
             /\ rows' = [rows EXCEPT ![job[w].row] = Completed(r, job[w].response)]
             /\ Respond(w, r, job[w].response)
    <3>1. job[w].row = RowOf(r)
      BY <2>1, <2>2 DEF CanComplete, ServingInv, RecordsInv, RowsKeyed
    <3>2. PICK q \in Requests, x \in Answers : q = r /\ x = job[w].response
      BY <2>1, <2>2 DEF CanComplete
    <3>3. Kept(q, x)'
      BY <1>t, <2>2, <3>1, <3>2, CompletingCommits
    <3> QED
      BY <1>3, <2>2, <3>2, <3>3
  <2>3. \/ /\ CanComplete(rows[job[w].row], r, job[w].response)
           /\ rows' = [rows EXCEPT ![job[w].row] = Completed(r, job[w].response)]
           /\ Respond(w, r, job[w].response)
        \/ Hold(w, "unavailable") \/ Hold(w, "state_conflict")
    BY <1>15 DEF Store, Refusal
  <2> QED
    BY <1>14, <2>2, <2>3
<1>16. ASSUME NEW w \in Workers, StoreFails(w) PROVE ToldIsCommitted'
  <2>1. \/ \E x \in {"in_progress", "unavailable"} : Respond(w, job[w].req, x)
        \/ Continue(w, AfterOperation(w), "uncertain")
    BY <1>16 DEF StoreFails, Hold
  <2> QED
    BY <1>1, <1>2, <2>1 DEF Promises
<1>17. ASSUME NEW w \in Workers, Crash(w) \/ Restart(w) \/ \E i \in ApprovalIds : ServeGet(w, i)
       PROVE  ToldIsCommitted'
  <2>1. reply' = NoRecord
    BY <1>17 DEF Crash, Restart, ServeGet
  <2> QED
    BY <1>0, <2>1
<1>18. CASE Tick \/ \E id \in ClaimIds : Reconcile(id)
  BY <1>0, <1>18 DEF Tick, Reconcile
<1>19. CASE UNCHANGED vars
  BY <1>19 DEF vars, repository, ToldIsCommitted, Answered, Answer, RowOf
<1>20. ASSUME NEW w \in Workers, Work(w) PROVE ToldIsCommitted'
  BY <1>7, <1>8, <1>9, <1>10, <1>11, <1>12, <1>13, <1>15, <1>20 DEF Work
<1> QED
  BY <1>4, <1>5, <1>6, <1>16, <1>17, <1>18, <1>19, <1>20 DEF Next

\* What a client is told of its operation or vote is committed, whoever tells it.
THEOREM ToldIsKept == Spec => []ToldIsCommitted
<1>1. Init => ToldIsCommitted
  BY DEF Init, ToldIsCommitted
<1>2. ServingInv /\ ToldIsCommitted /\ [Next]_vars => ToldIsCommitted'
  BY TellingStep
<1> QED
  BY <1>1, <1>2, ServingInitially, ServingInductive, PTL DEF Spec

=============================================================================
