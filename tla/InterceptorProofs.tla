--------------------------- MODULE InterceptorProofs ---------------------------
(***************************************************************************)
(* Proofs about Interceptor for every hierarchy of capabilities, every scope *)
(* that compiles, every set of actions and contexts and every sharing of     *)
(* traces.  What holds of the delegation graph is taken from                 *)
(* DelegationProofs: the graph's steps are steps of this specification.      *)
(***************************************************************************)
EXTENDS Interceptor, FiniteSetTheorems, TLAPS

GraphProofs == INSTANCE DelegationProofs

RequestIds == 1..Len(requests)

\* The policy in force was accepted by the compiler.
ScopeCompiled ==
    /\ scope \in Scopes
    /\ Compiles(scope.parents, scope.children, KnownRoles)

\* A request asks for what the first violated law demands, it carries votes of
\* the roles it asks for only, and it is approved by enough of them.
Stands(req) ==
    LET violated == Violated(LawsOf(scope), req.subject.action, req.subject.context)
    IN  /\ violated # {}
        /\ req.roles = Demand(First(violated)).roles
        /\ req.threshold = Demand(First(violated)).threshold
        /\ Voted(req) \subseteq req.roles
        /\ req.state = "approved" => Cardinality(Voted(req)) >= req.threshold

RequestsStand ==
    /\ requests \in Seq(RequestType)
    /\ \A i \in RequestIds : Stands(requests[i])

\* The log's ids are numbers an interceptor may reach.
Books ==
    /\ log \subseteq {TraceOf[a] : a \in Adapters} \X (1..(MaxEvents + 1))
    /\ next \in [Adapters -> Nat \ {0}]

IInv ==
    /\ GraphProofs!IInv
    /\ ScopeCompiled
    /\ approver \in Approvers
    /\ RequestsStand
    /\ completed \in [Gates -> SUBSET CallIds]
    /\ Books
    /\ ran \in RunType \cup {NoRun}
    /\ recorded \in {"nothing", "kept", "executed"}
    /\ AuditIsTrue
    /\ RunsAreGoverned

\* What Delegation assumes of its constants is assumed of them here.
LEMMA GraphAssumption == GraphProofs!DelegationAssumption
  BY PolicyAssumption, InterceptorAssumption DEF GraphProofs!DelegationAssumption

-----------------------------------------------------------------------------
(* Laws.                                                                    *)

LEMMA LawsTyped ==
    ASSUME ScopeCompiled
    PROVE  /\ LawsOf(scope) \subseteq Rules
           /\ scope.default \in {"Allow", "Block"}
  BY InterceptorAssumption DEF ScopeCompiled, LawsOf, Composed

\* Among laws that are not none, one has the lowest id.
LEMMA FirstExists ==
    ASSUME NEW laws \in SUBSET Rules, laws # {}
    PROVE  First(laws) \in laws
<1> DEFINE ids == {r.id : r \in laws}
<1>1. ids \in SUBSET Nat /\ ids # {}
  BY DEF Rules
<1>2. PICK least \in ids : \A n \in ids : least <= n
  BY <1>1, GraphAssumption, GraphProofs!LeastOf
<1>3. \E r \in laws : \A s \in laws : r.id <= s.id
  BY <1>2
<1>4. QED
  BY <1>3 DEF First

\* What the law asked about demands can be asked for.
LEMMA DemandTyped ==
    ASSUME NEW r \in Rules
    PROVE  /\ Demand(r).roles \in SUBSET Roles
           /\ Demand(r).threshold \in Nat \ {0}
  BY PolicyAssumption DEF Demand, Rules, Quorums

\* What a decision tells of the laws and of the actor's authority.
LEMMA DecideFacts ==
    ASSUME NEW laws, NEW default, NEW action, NEW context,
           NEW authorised \in BOOLEAN,
           NEW d, d = Decide(laws, default, action, context, authorised)
    PROVE  /\ d.kind \in {"Allow", "Escalate"} =>
                 authorised /\ Blocking(laws, action, context) = {}
           /\ d.kind = "Allow" =>
                 /\ Violated(laws, action, context) = {}
                 /\ Applicable(laws, action) = {} => default # "Block"
           /\ d.kind = "Escalate" =>
                 /\ Violated(laws, action, context) # {}
                 /\ d.demand = Demand(First(Violated(laws, action, context)))
           /\ d.kind \in {"Allow", "Escalate", "Block"}
<1> DEFINE e == Evaluate(laws, action, context, authorised)
<1>1. CASE ~authorised \/ Blocking(laws, action, context) # {}
  <2>1. e.kind = "Block"
    BY <1>1 DEF Evaluate, Decision
  <2>2. d.kind = "Block"
    BY <2>1 DEF Decide, Decision
  <2>3. QED
    BY <2>2
<1>2. CASE /\ authorised /\ Blocking(laws, action, context) = {}
           /\ Violated(laws, action, context) = {}
  <2>1. e.kind = "Allow"
    BY <1>2 DEF Evaluate, Decision
  <2>2. /\ d.kind \in {"Allow", "Block"}
        /\ d.kind = "Allow" => (Applicable(laws, action) = {} => default # "Block")
    BY <2>1 DEF Decide, Decision
  <2>3. QED
    BY <1>2, <2>2
<1>3. CASE /\ authorised /\ Blocking(laws, action, context) = {}
           /\ Violated(laws, action, context) # {}
  <2>1. /\ e.kind = "Escalate"
        /\ e.demand = Demand(First(Violated(laws, action, context)))
    BY <1>3 DEF Evaluate, Decision
  <2>2. d = e
    BY <2>1 DEF Decide
  <2>3. QED
    BY <1>3, <2>1, <2>2
<1>4. QED
  BY <1>1, <1>2, <1>3

-----------------------------------------------------------------------------
(* Authority.                                                               *)

\* Authority that a grant gives at t is that of a live chain.
LEMMA LiveChain ==
    ASSUME GraphProofs!IInv, NEW a \in Actors, NEW c \in Capabilities, NEW t,
           Graph!SourcesAt(a, c, t) # {}
    PROVE  HasLiveChain(a, c, t)
<1>1. PICK g \in Graph!Ids :
         /\ grants[g].to = a
         /\ <<c, grants[g].capability>> \in Covered
         /\ Graph!ValidAt(g, t)
  BY DEF Graph!SourcesAt
<1>2. /\ GraphProofs!TypeOK /\ GraphProofs!ParentsPrecede
      /\ GraphProofs!AllAttached /\ g \in GraphProofs!Ids
  BY <1>1 DEF GraphProofs!IInv, Graph!Ids, GraphProofs!Ids
<1>3. Graph!Lineage(g) = GraphProofs!Lineage(g)
  BY DEF Graph!Lineage, GraphProofs!Lineage, Graph!Ids, GraphProofs!Ids,
         Graph!ParentClosed, GraphProofs!ParentClosed
<1>4. \A h \in Graph!Lineage(g) :
         <<grants[g].capability, grants[h].capability>> \in Covered
  BY <1>2, <1>3, GraphAssumption, GraphProofs!ChainsNarrow
<1>5. \A h \in Graph!Ids :
         /\ grants[h].capability \in Capabilities
         /\ grants[h].from \in Actors
  <2>1. \A h \in Graph!Ids : grants[h] \in GraphProofs!GrantType
    BY <1>2 DEF GraphProofs!TypeOK, Graph!Ids
  <2>2. QED
    BY <2>1 DEF GraphProofs!GrantType
<1>6. Graph!Lineage(g) \subseteq Graph!Ids
  BY DEF Graph!Lineage
<1>7. \A h \in Graph!Lineage(g) :
         /\ h \notin revoked /\ ~Graph!Expired(h, t) /\ Graph!Attached(h)
  BY <1>1 DEF Graph!ValidAt
<1>8. \A h \in Graph!Lineage(g) : <<c, grants[h].capability>> \in Covered
  BY <1>1, <1>4, <1>5, <1>6, PolicyAssumption
<1>9. ASSUME NEW h \in Graph!Lineage(g), grants[h].parent = Root
      PROVE  Graph!IntrinsicHas(grants[h].from, c)
  <2>1. PICK d \in intrinsic[grants[h].from] :
           <<grants[h].capability, d>> \in Covered
    BY <1>7, <1>9 DEF Graph!Attached, Graph!IntrinsicHas
  <2>2. d \in Capabilities
    BY <1>2, <1>5, <1>6, <2>1 DEF GraphProofs!TypeOK
  <2>3. <<c, d>> \in Covered
    BY <1>5, <1>6, <1>8, <2>1, <2>2, PolicyAssumption
  <2>4. QED
    BY <2>1, <2>3 DEF Graph!IntrinsicHas
<1>10. QED
  BY <1>1, <1>7, <1>8, <1>9 DEF HasLiveChain

\* Held in one of the three ways: carried, registered, or granted.
Holding(action, t) ==
    \/ \E d \in Holds[action.actor] : <<action.capability, d>> \in Covered
    \/ Graph!IntrinsicHas(action.actor, action.capability)
    \/ HasLiveChain(action.actor, action.capability, t)

LEMMA AuthorisedHolds ==
    ASSUME GraphProofs!IInv, NEW action \in Actions, NEW t, Authorised(action, t)
    PROVE  Holding(action, t)
  BY LiveChain, InterceptorAssumption
     DEF Authorised, Holding, Graph!HasAuthorityAt

\* The laws' part of what RunsAreGoverned says of an action that may run.
LEMMA GovernedBy ==
    ASSUME GraphProofs!IInv, ScopeCompiled, NEW action \in Actions, NEW context,
           Decided(action, context).kind \in {"Allow", "Escalate"}
    PROVE  LET laws == LawsOf(scope)
               violated == Violated(laws, action, context)
           IN  /\ \A r \in violated : r.disposition = "escalate"
               /\ Applicable(laws, action) = {} => scope.default = "Allow"
               /\ Holding(action, context.now)
               /\ violated # {} => Decided(action, context).kind = "Escalate"
<1> DEFINE laws == LawsOf(scope)
           d == Decided(action, context)
<1>1. Authorised(action, context.now) \in BOOLEAN
  BY DEF Authorised, Graph!HasAuthorityAt
<1>2. /\ Authorised(action, context.now)
      /\ Blocking(laws, action, context) = {}
      /\ d.kind = "Allow" =>
            /\ Violated(laws, action, context) = {}
            /\ Applicable(laws, action) = {} => scope.default # "Block"
      /\ d.kind = "Escalate" => Violated(laws, action, context) # {}
  BY <1>1, DecideFacts DEF Decided
<1>3. \A r \in Violated(laws, action, context) : r.disposition = "escalate"
  BY <1>2, LawsTyped DEF Blocking, Violated, Applicable, Rules, Dispositions
<1>4. Applicable(laws, action) = {} => scope.default = "Allow"
  BY <1>2, LawsTyped DEF Violated
<1>5. QED
  BY <1>2, <1>3, <1>4, AuthorisedHolds

-----------------------------------------------------------------------------
(* Inheritance.                                                             *)

\* A field has a number, or is not supplied.
LEMMA FieldTyped ==
    ASSUME NEW action \in Actions, NEW context \in ContextType, NEW field
    PROVE  FieldValue(field, action, context) \in Int \cup {None}
<1>1. context.budget_used \in Int /\ context.now \in Int
  <2>1. context.budget_used \in Budgets /\ context.now \in Nat
    BY DEF ContextType
  <2>2. Budgets \subseteq Int
    BY InterceptorAssumption
  <2>3. context.budget_used \in Int
    BY <2>1, <2>2
  <2>4. context.now \in Int
    BY <2>1
  <2>5. QED
    BY <2>3, <2>4
<1>2. Cardinality(context.prior_approvals) \in Int
  <2>1. context.prior_approvals \subseteq Roles
    BY InterceptorAssumption DEF ContextType
  <2>2. QED
    BY <2>1, ApprovalRequestAssumption, FS_Subset, FS_CardinalityType
<1>3. LevelOf[action.actor] \in Int
  BY InterceptorAssumption, PolicyAssumption
<1>4. field \in DOMAIN action.params => action.params[field] \in Int
  BY InterceptorAssumption
<1>5. QED
  BY <1>1, <1>2, <1>3, <1>4 DEF FieldValue

\* Whatever a tighter predicate permits, the one it tightens permits.
LEMMA TighterPermits ==
    ASSUME NEW p \in Predicates, NEW c \in Predicates, p # None,
           PredicateTighter(p, c),
           NEW action \in Actions, NEW context \in ContextType,
           Permits(c, action, context)
    PROVE  Permits(p, action, context)
<1> DEFINE value == FieldValue(c.field_name, action, context)
<1>1. /\ c.field_name = p.field_name /\ c.operator = p.operator
      /\ p.threshold \in Int /\ c.threshold \in Int
      /\ \/ p.operator \in {"<=", "<"} /\ c.threshold <= p.threshold
         \/ p.operator \in {">=", ">"} /\ c.threshold >= p.threshold
         \/ p.operator \in {"==", "!="} /\ c.threshold = p.threshold
  BY DEF PredicateTighter, Predicates
<1>2. value \in Int /\ Compares(value, c.operator, c.threshold) /\ value # None
  BY FieldTyped DEF Permits
<1> HIDE DEF value
<1>3. Compares(value, p.operator, p.threshold)
  BY <1>1, <1>2 DEF Compares
<1>4. QED
  BY <1>1, <1>2, <1>3 DEF Permits, value

\* A law that tightens another one applies only where that one does, and is
\* met only where it is.
LEMMA TightensMeets ==
    ASSUME NEW p \in Rules, NEW c \in Rules, Tightens(p, c),
           NEW action \in Actions, NEW context \in ContextType,
           Applies(c, action), Meets(c, action, context)
    PROVE  Applies(p, action) /\ Meets(p, action, context)
<1>1. Applies(p, action)
  <2>1. /\ action.capability \in Capabilities
        /\ c.capability \in Capabilities /\ p.capability \in Capabilities
    BY InterceptorAssumption DEF Rules
  <2>2. QED
    BY <2>1, PolicyAssumption DEF Tightens, Applies
<1>2. LevelOf[action.actor] >= p.min_authority
  <2>1. /\ LevelOf[action.actor] \in Nat
        /\ c.min_authority \in Nat /\ p.min_authority \in Nat
    BY InterceptorAssumption, PolicyAssumption DEF Rules
  <2>2. QED
    BY <2>1 DEF Tightens, Meets
<1>3. ClassOf[action.actor] \notin p.forbidden_classes
  BY DEF Tightens, Meets
<1>4. ASSUME p.predicate # None PROVE Permits(p.predicate, action, context)
  <2>1. PredicateTighter(p.predicate, c.predicate) /\ c.predicate # None
    BY <1>4 DEF Tightens, PredicateTighter
  <2>2. p.predicate \in Predicates /\ c.predicate \in Predicates
    BY <1>4, <2>1 DEF Rules
  <2>3. Permits(c.predicate, action, context)
    BY <2>1 DEF Meets
  <2>4. QED
    BY <1>4, <2>1, <2>2, <2>3, TighterPermits
<1>5. QED
  BY <1>1, <1>2, <1>3, <1>4 DEF Meets

LEMMA JudgedTyped ==
    ASSUME NEW j \in Judged
    PROVE  j[1] \in Actions /\ j[2] \in ContextType
<1>1. \A t \in 0..MaxTime : Contexts(t) \subseteq ContextType
  BY InterceptorAssumption DEF Contexts, ContextType
<1>2. QED
  BY <1>1 DEF Judged

\* In a scope that compiles, whoever links to a law tightens it.
LEMMA ScopeTightens == ASSUME ScopeCompiled PROVE ChildrenTighten
<1> SUFFICES ASSUME NEW p \in LawsOf(scope), NEW c \in LawsOf(scope),
                    c.parent_id = p.id, NEW j \in Judged,
                    Applies(c, j[1]), Meets(c, j[1], j[2])
             PROVE  Applies(p, j[1]) /\ Meets(p, j[1], j[2])
  BY DEF ChildrenTighten
<1>1. p \in Rules /\ c \in Rules
  BY LawsTyped
<1>2. /\ LinksTighten(LawsOf(scope))
      /\ \A r, s \in LawsOf(scope) : r.id = s.id => r = s
  BY DEF ScopeCompiled, Compiles, LawsOf, RulesValid
<1>3. c.parent_id # None
  BY <1>1, PolicyAssumption DEF Rules
<1>4. PICK q \in LawsOf(scope) : q.id = c.parent_id /\ Tightens(q, c)
  BY <1>2, <1>3 DEF LinksTighten
<1>5. q = p
  BY <1>2, <1>4
<1>6. QED
  BY <1>1, <1>4, <1>5, JudgedTyped, TightensMeets

\* More laws are never less severe, where the fewer have a say.
LEMMA MoreLawsMoreSevere ==
    ASSUME NEW fewer, NEW more, fewer \subseteq more,
           NEW default \in {"Allow", "Block"}, NEW action, NEW context,
           NEW authorised \in BOOLEAN,
           Applicable(fewer, action) # {} \/ default = "Allow"
    PROVE  Severity(Decide(more, default, action, context, authorised)) >=
              Severity(Decide(fewer, default, action, context, authorised))
<1> DEFINE m == Decide(more, default, action, context, authorised)
           f == Decide(fewer, default, action, context, authorised)
<1>1. /\ Violated(fewer, action, context) \subseteq Violated(more, action, context)
      /\ Blocking(fewer, action, context) \subseteq Blocking(more, action, context)
  BY DEF Violated, Blocking, Applicable
<1>2. /\ m.kind \in {"Allow", "Escalate", "Block"}
      /\ f.kind \in {"Allow", "Escalate", "Block"}
      /\ m.kind \in {"Allow", "Escalate"} =>
            authorised /\ Blocking(more, action, context) = {}
      /\ m.kind = "Allow" => Violated(more, action, context) = {}
      /\ f.kind = "Escalate" => Violated(fewer, action, context) # {}
  BY DecideFacts
<1>3. f.kind = "Block" => ~authorised \/ Blocking(fewer, action, context) # {}
  <2>1. ASSUME authorised, Blocking(fewer, action, context) = {}
        PROVE  f.kind # "Block"
    <3>1. Evaluate(fewer, action, context, authorised).kind \in {"Allow", "Escalate"}
      BY <2>1 DEF Evaluate, Decision
    <3>2. f = Evaluate(fewer, action, context, authorised)
      BY DEF Decide
    <3>3. QED
      BY <3>1, <3>2
  <2>2. QED
    BY <2>1
<1> HIDE DEF m, f
<1>4. CASE m.kind = "Block"
  BY <1>2, <1>4 DEF Severity, m, f
<1>5. CASE m.kind = "Escalate"
  <2>1. f.kind \in {"Allow", "Escalate"}
    BY <1>1, <1>2, <1>3, <1>5
  <2>2. QED
    BY <1>5, <2>1 DEF Severity, m, f
<1>6. CASE m.kind = "Allow"
  <2>1. f.kind = "Allow"
    BY <1>1, <1>2, <1>3, <1>6
  <2>2. QED
    BY <1>6, <2>1 DEF Severity, m, f
<1>7. QED
  BY <1>2, <1>4, <1>5, <1>6

LEMMA ComposedKeeps == ASSUME ScopeCompiled PROVE ScopeKeepsParents
  BY LawsTyped, MoreLawsMoreSevere DEF ScopeKeepsParents, LawsOf, Composed

-----------------------------------------------------------------------------
(* The log.                                                                 *)

\* Whatever recording an event does, ids stay within reach.
LEMMA RecordKeepsBooks ==
    ASSUME Books, NEW a \in Adapters,
           \/ \E what \in {"kept", "executed"} : Record(a, what) \/ RecordError(a, what)
           \/ \E n \in {1, 2} : Unrecorded(a, n)
    PROVE  Books'
<1>1. /\ next[a] \in Nat \ {0} /\ next[a] <= MaxEvents
      /\ MaxEvents \in Nat
      /\ TraceOf[a] \in {TraceOf[b] : b \in Adapters}
  BY InterceptorAssumption DEF Books, Record, RecordError, Unrecorded
<1>2. CASE \E what \in {"kept", "executed"} : Record(a, what)
  BY <1>1, <1>2 DEF Books, Record, EventId
<1>3. CASE \E what \in {"kept", "executed"} : RecordError(a, what)
  BY <1>1, <1>3 DEF Books, RecordError, EventId
<1>4. CASE \E n \in {1, 2} : Unrecorded(a, n)
  <2>1. PICK n \in {1, 2} : Unrecorded(a, n)
    BY <1>4
  <2>2. log' = log /\ next' = [next EXCEPT ![a] = @ + n]
    BY <2>1 DEF Unrecorded
  <2>3. QED
    BY <1>1, <2>2 DEF Books
<1>5. QED
  BY <1>2, <1>3, <1>4

\* A set of numbers with a bound, and a number in it, has a greatest one.
LEMMA MaxOf ==
    ASSUME NEW S \in SUBSET Nat, NEW b \in Nat, \A n \in S : n <= b, S # {}
    PROVE  Max(S) \in S /\ \A n \in S : Max(S) >= n
<1> DEFINE bounds == {m \in Nat : \A n \in S : n <= m}
<1>1. bounds \in SUBSET Nat /\ bounds # {}
  OBVIOUS
<1>2. PICK m \in bounds : \A k \in bounds : m <= k
  BY <1>1, GraphAssumption, GraphProofs!LeastOf
<1>3. m \in S
  <2> SUFFICES ASSUME m \notin S PROVE FALSE
    OBVIOUS
  <2>1. m \in Nat /\ \A n \in S : n \in Nat /\ n <= m /\ n # m
    BY <1>2
  <2>2. PICK n \in S : TRUE
    OBVIOUS
  <2>3. m # 0
    BY <2>1, <2>2
  <2>4. m - 1 \in bounds
    BY <2>1, <2>3
  <2>5. QED
    BY <1>2, <2>1, <2>4
<1>4. \E x \in S : \A y \in S : x >= y
  BY <1>2, <1>3
<1>5. QED
  BY <1>4 DEF Max

\* The number a new adapter takes up a trace with is one it may use.
LEMMA NextSequenceTyped ==
    ASSUME Books, NEW trace
    PROVE  NextSequence(trace) \in Nat \ {0}
<1> DEFINE S == {0} \cup {e[2] : e \in {x \in log : x[1] = trace}}
<1>1. MaxEvents \in Nat
  BY InterceptorAssumption
<1>2. \A n \in S : n \in Nat /\ n <= MaxEvents + 1
  BY <1>1 DEF Books
<1>3. Max(S) \in S
  <2>1. S # {} /\ MaxEvents + 1 \in Nat
    BY <1>1
  <2> HIDE DEF S
  <2>2. S \in SUBSET Nat
    BY <1>2
  <2>3. QED
    BY <1>2, <2>1, <2>2, MaxOf
<1>4. Max(S) \in Nat
  BY <1>2, <1>3
<1>5. QED
  BY <1>4 DEF NextSequence

-----------------------------------------------------------------------------
(* Requests.                                                                *)

LEMMA SameRequests ==
    ASSUME RequestsStand, UNCHANGED <<requests, scope>>
    PROVE  RequestsStand'
  BY DEF RequestsStand, RequestIds, Stands

\* What _get, a vote, a denial or a resume may make of a request.
Keeps(old, new) ==
    /\ new \in RequestType
    /\ new.subject = old.subject
    /\ new.governance = old.governance
    /\ new.roles = old.roles
    /\ new.threshold = old.threshold

LEMMA RewriteRequest ==
    ASSUME RequestsStand, NEW i \in RequestIds, NEW new,
           Keeps(requests[i], new), Stands(new),
           requests' = [requests EXCEPT ![i] = new], UNCHANGED scope
    PROVE  RequestsStand' /\ requests'[i] = new
<1>1. /\ requests' \in Seq(RequestType)
      /\ Len(requests') = Len(requests)
      /\ requests'[i] = new
      /\ \A j \in RequestIds : j # i => requests'[j] = requests[j]
  BY DEF RequestsStand, RequestIds, Keeps
<1>2. \A j \in RequestIds : Stands(requests'[j])
  BY <1>1 DEF RequestsStand
<1>3. \A r : Stands(r)' <=> Stands(r)
  BY DEF Stands
<1>4. QED
  BY <1>1, <1>2, <1>3 DEF RequestsStand, RequestIds

\* _get keeps all but the state, and approves nothing.
LEMMA ExpireStands ==
    ASSUME NEW req \in RequestType, Stands(req), NEW t
    PROVE  /\ Keeps(req, Expire(req, t))
           /\ Stands(Expire(req, t))
           /\ Expire(req, t).votes = req.votes
<1> DEFINE e == [req EXCEPT !.state = "expired"]
<1>1. /\ Keeps(req, e) /\ e.votes = req.votes /\ e.state = "expired"
      /\ Keeps(req, req)
  BY DEF Keeps, RequestType, RequestStates
<1>2. Voted(e) = Voted(req)
  BY <1>1 DEF Voted
<1> HIDE DEF e
<1>3. Stands(e)
  BY <1>1, <1>2 DEF Stands, Keeps
<1>4. Expire(req, t) \in {req, e}
  BY DEF Expire, e
<1>5. QED
  BY <1>1, <1>3, <1>4

\* A vote of a role that is asked.
LEMMA ApproveStands ==
    ASSUME NEW req \in RequestType, Stands(req), NEW role \in req.roles,
           req.state = "pending"
    PROVE  Keeps(req, Approve(req, role, NoIdentity))
           /\ Stands(Approve(req, role, NoIdentity))
<1> DEFINE v == [req EXCEPT !.votes[role] = NoIdentity]
           w == [v EXCEPT !.state = "approved"]
<1>0. role \in Roles
  BY DEF RequestType
<1>1. /\ Keeps(req, v) /\ v.state = req.state
      /\ v.votes = [req.votes EXCEPT ![role] = NoIdentity]
  BY <1>0 DEF Keeps, RequestType
<1>2. Voted(v) \subseteq Voted(req) \cup {role}
  BY <1>0, <1>1 DEF Voted, RequestType
<1>3. Keeps(req, w) /\ w.votes = v.votes /\ w.threshold = req.threshold
  BY <1>1 DEF Keeps, RequestType, RequestStates
<1>4. Voted(w) = Voted(v)
  BY <1>3 DEF Voted
<1>5. Approve(req, role, NoIdentity) =
         IF Cardinality(Voted(v)) >= req.threshold THEN w ELSE v
  <2>1. v.threshold = req.threshold
    BY <1>1 DEF Keeps
  <2>2. QED
    BY <2>1 DEF Approve
<1> HIDE DEF v, w
<1>6. Stands(v)
  BY <1>1, <1>2 DEF Stands, Keeps
<1>7. CASE Cardinality(Voted(v)) >= req.threshold
  <2>1. Stands(w)
    BY <1>2, <1>3, <1>4, <1>7 DEF Stands, Keeps
  <2>2. QED
    BY <1>3, <1>5, <1>7, <2>1
<1>8. CASE ~(Cardinality(Voted(v)) >= req.threshold)
  BY <1>1, <1>5, <1>6, <1>8
<1>9. QED
  BY <1>7, <1>8

LEMMA DenyStands ==
    ASSUME NEW req \in RequestType, Stands(req)
    PROVE  Keeps(req, Deny(req)) /\ Stands(Deny(req))
<1>1. /\ Keeps(req, Deny(req)) /\ Deny(req).votes = req.votes
      /\ Deny(req).state = "denied"
  BY DEF Deny, Keeps, RequestType, RequestStates
<1>2. Voted(Deny(req)) = Voted(req)
  BY <1>1 DEF Voted
<1>3. QED
  BY <1>1, <1>2 DEF Stands, Keeps

LEMMA ConsumeStands ==
    ASSUME NEW req \in RequestType, Stands(req)
    PROVE  /\ Keeps(req, Consume(req)) /\ Stands(Consume(req))
           /\ Consume(req).state = req.state
<1>1. /\ Keeps(req, Consume(req)) /\ Consume(req).votes = req.votes
      /\ Consume(req).state = req.state
  BY DEF Consume, Keeps, RequestType
<1>2. Voted(Consume(req)) = Voted(req)
  BY <1>1 DEF Voted
<1>3. QED
  BY <1>1, <1>2 DEF Stands, Keeps

-----------------------------------------------------------------------------
(* Steps.                                                                   *)

\* The graph's variables unchanged.
LEMMA SameGraph ==
    ASSUME GraphProofs!IInv, UNCHANGED <<now, graph>>
    PROVE  /\ GraphProofs!IInv'
           /\ \A action, t : Holding(action, t)' <=> Holding(action, t)
<1>1. UNCHANGED GraphProofs!vars
  BY DEF graph, GraphProofs!vars
<1>2. GraphProofs!IInv'
  BY <1>1, GraphAssumption, GraphProofs!NextIInv
<1>3. UNCHANGED <<intrinsic, grants, revoked>>
  BY DEF graph
<1>4. \A action, t : Holding(action, t)' <=> Holding(action, t)
  BY <1>3 DEF Holding, HasLiveChain, Graph!IntrinsicHas, Graph!Ids,
              Graph!Lineage, Graph!ParentClosed, Graph!Expired
<1>5. QED
  BY <1>2, <1>4

LEMMA GraphTyped ==
    ASSUME GraphProofs!IInv
    PROVE  Graph!TypeOK /\ graph \in GraphType
<1>1. /\ now \in Nat
      /\ intrinsic \in [Actors -> SUBSET Capabilities]
      /\ grants \in Seq(GraphProofs!GrantType)
      /\ revoked \subseteq 1..Len(grants)
  BY DEF GraphProofs!IInv, GraphProofs!TypeOK, GraphProofs!Ids
<1>2. GraphProofs!GrantType = Graph!GrantType
  BY DEF GraphProofs!GrantType, Graph!GrantType
<1>3. revoked \in SUBSET Nat
  BY <1>1
<1>4. QED
  BY <1>1, <1>2, <1>3 DEF Graph!TypeOK, Graph!Ids, graph, GraphType

\* A step that calls no operation, and says so.
LEMMA QuietStep ==
    ASSUME IInv, GraphProofs!IInv', UNCHANGED setup, RequestsStand', Books',
           completed' \in [Gates -> SUBSET CallIds],
           ran' = NoRun, recorded' \in {"nothing", "kept"}
    PROVE  IInv'
<1>1. scope' = scope /\ approver' = approver
  BY DEF setup
<1>2. ScopeCompiled' /\ approver' \in Approvers
  BY <1>1 DEF IInv, ScopeCompiled
<1>3. AuditIsTrue' /\ RunsAreGoverned'
  BY DEF AuditIsTrue, RunsAreGoverned
<1>4. QED
  BY <1>2, <1>3 DEF IInv

\* A step that calls an operation, for which the laws are as they should be.
LEMMA RunStep ==
    ASSUME IInv, UNCHANGED <<now, graph, setup, completed>> \/
                 (UNCHANGED <<now, graph, setup>> /\
                  completed' \in [Gates -> SUBSET CallIds]),
           RequestsStand', Books', ran' \in RunType, recorded' = "executed",
           ran'.by \in Gates => RunsAreGoverned'
    PROVE  IInv'
<1>1. /\ scope' = scope /\ approver' = approver
      /\ UNCHANGED <<now, graph>>
      /\ completed' \in [Gates -> SUBSET CallIds]
  BY DEF setup, IInv
<1>2. ScopeCompiled' /\ approver' \in Approvers /\ GraphProofs!IInv'
  BY <1>1, SameGraph DEF IInv, ScopeCompiled
<1>3. AuditIsTrue'
  BY NoRunAssumption DEF AuditIsTrue
<1>4. RunsAreGoverned'
  BY DEF RunsAreGoverned
<1>5. QED
  BY <1>1, <1>2, <1>3, <1>4 DEF IInv

LEMMA ContextsTyped ==
    ASSUME NEW t \in Nat, NEW context \in Contexts(t)
    PROVE  context \in ContextType
  BY DEF Contexts, ContextType

LEMMA CompletedTyped ==
    ASSUME IInv, NEW g \in Gates, NEW id \in CallIds \cup {NoId},
           NEW returns \in BOOLEAN
    PROVE  Completed(g, id, returns) \in [Gates -> SUBSET CallIds]
  BY DEF IInv, Completed

LEMMA PassStep ==
    ASSUME IInv, NEW g \in Gates, NEW action \in Actions,
           NEW context \in Contexts(now), NEW id \in CallIds \cup {NoId},
           NEW yes \in BOOLEAN, NEW returns \in BOOLEAN,
           Pass(g, action, context, id, yes, returns)
    PROVE  IInv'
<1>1. /\ Allowed(action, context, yes)
      /\ Record(g, "executed")
      /\ ran' = Run(g, action, context, 0, HandlerAsked(action, context))
      /\ completed' = Completed(g, id, returns)
      /\ UNCHANGED <<now, graph, setup, requests>>
  BY DEF Pass
<1>2. /\ Books'
      /\ recorded' = "executed"
      /\ completed' \in [Gates -> SUBSET CallIds]
      /\ scope' = scope
      /\ RequestsStand'
  <2>1. g \in Adapters
    BY DEF Adapters
  <2>2. scope' = scope
    BY <1>1 DEF setup
  <2>3. QED
    BY <1>1, <2>1, <2>2, RecordKeepsBooks, CompletedTyped, SameRequests
       DEF IInv, Record
<1>3. ran' \in RunType
  <2>1. context \in ContextType
    BY ContextsTyped, GraphTyped DEF IInv, Graph!TypeOK
  <2>2. HandlerAsked(action, context) \in BOOLEAN
    BY DEF HandlerAsked
  <2>3. QED
    BY <1>1, <2>1, <2>2 DEF Run, RunType, Adapters
<1>4. RunsAreGoverned'
  <2>1. /\ ran'.action = action /\ ran'.context = context
        /\ ran'.handled = HandlerAsked(action, context)
    BY <1>1 DEF Run
  <2>2. Decided(action, context).kind \in {"Allow", "Escalate"}
    BY <1>1 DEF Allowed, HandlerAsked
  <2>3. Holding(action, context.now)'
    BY <1>1, <2>2, GovernedBy, SameGraph DEF IInv
  <2>4. /\ \A r \in Violated(LawsOf(scope), action, context) :
              r.disposition = "escalate"
        /\ Applicable(LawsOf(scope), action) = {} => scope.default = "Allow"
        /\ Violated(LawsOf(scope), action, context) # {} =>
              HandlerAsked(action, context)
    BY <1>1, <2>2, GovernedBy DEF IInv, Allowed
  <2>5. QED
    BY <1>2, <2>1, <2>3, <2>4 DEF RunsAreGoverned, Holding
<1>5. QED
  BY <1>1, <1>2, <1>3, <1>4, RunStep

LEMMA StopStep ==
    ASSUME IInv, NEW g \in Gates, NEW action, NEW context, NEW id, NEW yes,
           Stop(g, action, context, id, yes)
    PROVE  IInv'
<1>1. /\ Record(g, "kept")
      /\ ran' = NoRun
      /\ UNCHANGED <<now, graph, setup, requests, completed>>
  BY DEF Stop
<1>2. Books' /\ recorded' = "kept"
  BY <1>1, RecordKeepsBooks DEF IInv, Adapters, Record
<1>3. RequestsStand' /\ GraphProofs!IInv' /\ completed' \in [Gates -> SUBSET CallIds]
  BY <1>1, SameRequests, SameGraph DEF IInv, setup
<1>4. QED
  BY <1>1, <1>2, <1>3, QuietStep

LEMMA RefusedStep ==
    ASSUME IInv, NEW a \in Adapters, NEW n \in {1, 2},
           Record(a, "kept") \/ RecordError(a, "kept") \/ Unrecorded(a, n)
    PROVE  Books' /\ recorded' \in {"nothing", "kept"}
  BY RecordKeepsBooks DEF IInv, Record, RecordError, Unrecorded

\* A new request stands: it asks for what the first violated law demands.
LEMMA RequestedStands ==
    ASSUME IInv, NEW action \in Actions, NEW context \in Contexts(now),
           Held(action, context), requests' = Requested(action, context),
           UNCHANGED scope
    PROVE  RequestsStand'
<1> DEFINE d == Decided(action, context)
           violated == Violated(LawsOf(scope), action, context)
           subject == Subject(action, context)
           req == NewRequest(subject, graph, d.demand, context.now, Ttl)
<1>1. violated # {} /\ d.demand = Demand(First(violated))
  <2>1. Authorised(action, context.now) \in BOOLEAN
    BY DEF Authorised, Graph!HasAuthorityAt
  <2>2. QED
    BY <2>1, DecideFacts DEF Decided, Held
<1>2. First(violated) \in Rules
  BY <1>1, FirstExists, LawsTyped DEF IInv, Violated, Applicable
<1>3. d.demand.roles \in SUBSET Roles /\ d.demand.threshold \in Nat \ {0}
  BY <1>1, <1>2, DemandTyped
<1>4. subject \in [action : Actions, context : ContextType]
  BY ContextsTyped, GraphTyped DEF IInv, Graph!TypeOK, Subject
<1>5. context.now \in Nat /\ Ttl \in Nat
  BY ContextsTyped, GraphTyped, InterceptorAssumption
     DEF IInv, Graph!TypeOK, ContextType
<1>6. graph \in GraphType
  BY GraphTyped DEF IInv
<1>7. /\ req.subject = subject /\ req.roles = d.demand.roles
      /\ req.threshold = d.demand.threshold /\ req.state = "pending"
      /\ req.votes = [role \in Roles |-> NoVote]
  BY DEF NewRequest
<1>8. req \in RequestType
  <2> HIDE DEF d, subject
  <2>1. QED
    BY <1>3, <1>4, <1>5, <1>6 DEF NewRequest, RequestType, RequestStates
<1>9. Voted(req) = {}
  BY <1>7 DEF Voted
<1>10. subject.action = action /\ subject.context = context
  BY DEF Subject
<1>11. Stands(req)
  <2> HIDE DEF d, req, subject
  <2>1. QED
    BY <1>1, <1>7, <1>9, <1>10 DEF Stands
<1>12. requests' = Append(requests, req)
  BY DEF Requested
<1> HIDE DEF req
<1>13. /\ requests' \in Seq(RequestType)
       /\ RequestIds' = RequestIds \cup {Len(requests) + 1}
       /\ \A i \in RequestIds : requests'[i] = requests[i]
       /\ requests'[Len(requests) + 1] = req
  BY <1>8, <1>12 DEF IInv, RequestsStand, RequestIds
<1>14. \A r : Stands(r)' <=> Stands(r)
  BY DEF Stands
<1>15. QED
  BY <1>11, <1>13, <1>14 DEF IInv, RequestsStand

LEMMA HoldStep ==
    ASSUME IInv, NEW g \in Gates, NEW action \in Actions,
           NEW context \in Contexts(now), NEW id, Hold(g, action, context, id)
    PROVE  IInv'
<1>1. /\ Held(action, context)
      /\ requests' = Requested(action, context)
      /\ Record(g, "kept") \/ RecordError(g, "kept") \/ Unrecorded(g, 2)
      /\ ran' = NoRun
      /\ UNCHANGED <<now, graph, setup, completed>>
  BY DEF Hold
<1>2. Books' /\ recorded' \in {"nothing", "kept"}
  BY <1>1, RefusedStep DEF Adapters
<1>3. RequestsStand'
  BY <1>1, RequestedStands DEF setup
<1>4. GraphProofs!IInv' /\ completed' \in [Gates -> SUBSET CallIds]
  BY <1>1, SameGraph DEF IInv
<1>5. QED
  BY <1>1, <1>2, <1>3, <1>4, QuietStep

\* Fail, Note and ObserveFails: an event, or none, and nothing else.
LEMMA EventStep ==
    ASSUME IInv, NEW a \in Adapters, NEW n \in {1, 2},
           Record(a, "kept") \/ RecordError(a, "kept") \/ Unrecorded(a, n),
           ran' = NoRun,
           UNCHANGED <<now, graph, setup, requests, completed>>
    PROVE  IInv'
<1>1. Books' /\ recorded' \in {"nothing", "kept"}
  BY RefusedStep
<1>2. RequestsStand' /\ GraphProofs!IInv' /\ completed' \in [Gates -> SUBSET CallIds]
  BY SameRequests, SameGraph DEF IInv, setup
<1>3. QED
  BY <1>1, <1>2, QuietStep

LEMMA ObserveStep ==
    ASSUME IInv, NEW p \in Probes, NEW action \in Actions,
           NEW context \in Contexts(now), Observe(p, action, context)
    PROVE  IInv'
<1>1. /\ Record(p, "executed") \/ RecordError(p, "executed")
      /\ ran' = Run(p, action, context, 0, FALSE)
      /\ UNCHANGED <<now, graph, setup, requests, completed>>
  BY DEF Observe
<1>2. Books' /\ recorded' = "executed"
  BY <1>1, RecordKeepsBooks DEF IInv, Adapters, Record, RecordError
<1>3. RequestsStand'
  BY <1>1, SameRequests DEF IInv, setup
<1>4. ran' \in RunType
  <2>1. context \in ContextType
    BY ContextsTyped, GraphTyped DEF IInv, Graph!TypeOK
  <2>2. QED
    BY <1>1, <2>1 DEF Run, RunType, Adapters
<1>5. ran'.by \notin Gates
  BY <1>1, InterceptorAssumption DEF Run
<1>6. QED
  BY <1>1, <1>2, <1>3, <1>4, <1>5, RunStep

\* A call that rewrites one request and calls no operation.
LEMMA RewriteStep ==
    ASSUME IInv, NEW i \in RequestIds, NEW new,
           Keeps(requests[i], new), Stands(new),
           requests' = [requests EXCEPT ![i] = new],
           ran' = NoRun, Books', recorded' \in {"nothing", "kept"},
           UNCHANGED <<now, graph, setup, completed>>
    PROVE  IInv'
<1>1. RequestsStand'
  BY RewriteRequest DEF IInv, setup
<1>2. GraphProofs!IInv' /\ completed' \in [Gates -> SUBSET CallIds]
  BY SameGraph DEF IInv
<1>3. QED
  BY <1>1, <1>2, QuietStep

LEMMA KeepsTwice ==
    ASSUME NEW a, NEW b, NEW c, Keeps(a, b), Keeps(b, c)
    PROVE  Keeps(a, c)
  BY DEF Keeps

LEMMA ReviewStep ==
    ASSUME IInv, NEW i \in RequestIds, Review(i)
    PROVE  IInv'
<1> DEFINE req == Expire(requests[i], now)
<1>1. requests[i] \in RequestType /\ Stands(requests[i])
  BY DEF IInv, RequestsStand, RequestIds
<1>2. /\ Keeps(requests[i], req) /\ Stands(req) /\ req \in RequestType
  BY <1>1, ExpireStands DEF Keeps
<1> DEFINE Rewritten(new) == /\ Keeps(requests[i], new) /\ Stands(new)
                             /\ requests' = [requests EXCEPT ![i] = new]
<1>3. \E new : Rewritten(new)
  <2>1. ASSUME NEW role \in Roles, Vote(i, role)
        PROVE  Rewritten(Approve(req, role, NoIdentity))
    <3>1. /\ role \in req.roles /\ req.state = "pending"
          /\ requests' = [requests EXCEPT ![i] = Approve(req, role, NoIdentity)]
      BY <2>1 DEF Vote, CanApprove
    <3> HIDE DEF req
    <3>2. QED
      BY <1>2, <3>1, ApproveStands, KeepsTwice
  <2>2. ASSUME NEW role \in Roles, Refuse(i, role)
        PROVE  Rewritten(Deny(req))
    <3>1. requests' = [requests EXCEPT ![i] = Deny(req)]
      BY <2>2 DEF Refuse
    <3> HIDE DEF req
    <3>2. QED
      BY <1>2, <3>1, DenyStands, KeepsTwice
  <2>3. ASSUME requests' = [requests EXCEPT ![i] = req]
        PROVE  Rewritten(req)
    BY <1>2, <2>3
  <2> HIDE DEF Rewritten
  <2>4. QED
    BY <2>1, <2>2, <2>3 DEF Review
<1>4. /\ ran' = NoRun /\ recorded' = "nothing" /\ Books'
      /\ UNCHANGED <<now, graph, setup, completed>>
  BY DEF Review, IInv, Books
<1>5. QED
  BY <1>3, <1>4, RewriteStep

LEMMA ResumeStopsStep ==
    ASSUME IInv, NEW g \in Gates, NEW i \in RequestIds, NEW action, NEW context,
           NEW t, ResumeStops(g, i, action, context, t)
    PROVE  IInv'
<1> DEFINE req == Expire(requests[i], t)
<1>1. /\ requests' = [requests EXCEPT ![i] = req]
      /\ Record(g, "kept") \/ Unrecorded(g, 1)
      /\ ran' = NoRun
      /\ UNCHANGED <<now, graph, setup, completed>>
  BY DEF ResumeStops
<1>2. Books' /\ recorded' \in {"nothing", "kept"}
  BY <1>1, RefusedStep DEF Adapters
<1>3. Keeps(requests[i], req) /\ Stands(req)
  BY ExpireStands DEF IInv, RequestsStand, RequestIds
<1> HIDE DEF req
<1>4. QED
  BY <1>1, <1>2, <1>3, RewriteStep

LEMMA ResumeStep ==
    ASSUME IInv, NEW g \in Gates, NEW i \in RequestIds, NEW action \in Actions,
           NEW context \in ContextType, NEW t, Resume(g, i, action, context, t)
    PROVE  IInv'
<1> DEFINE req == Expire(requests[i], t)
           new == Consume(req)
           violated == Violated(LawsOf(scope), action, context)
           run == Run(g, action, context, i, FALSE)
<1>1. /\ Decided(action, context).kind = "Escalate"
      /\ req.state = "approved"
      /\ req.subject = Subject(action, context)
      /\ requests' = [requests EXCEPT ![i] = new]
      /\ \/ Record(g, "executed") /\ ran' = run
         \/ Unrecorded(g, 1) /\ ran' = NoRun
      /\ UNCHANGED <<now, graph, setup, completed>>
  BY DEF Resume, Resumable, CanConsume, BoundTo
<1>2. /\ Keeps(requests[i], req) /\ Stands(req) /\ req \in RequestType
  BY ExpireStands DEF IInv, RequestsStand, RequestIds, Keeps
<1> HIDE DEF req
<1>3. /\ Keeps(requests[i], new) /\ Stands(new) /\ new.state = "approved"
      /\ new.subject = Subject(action, context)
  BY <1>1, <1>2, ConsumeStands, KeepsTwice DEF Keeps
<1> HIDE DEF new
<1>4. /\ scope' = scope
      /\ RequestsStand' /\ requests'[i] = new
  BY <1>1, <1>3, RewriteRequest DEF IInv, setup
<1>5. CASE Unrecorded(g, 1) /\ ran' = NoRun
  <2>1. Books' /\ recorded' \in {"nothing", "kept"}
    BY <1>5, RefusedStep DEF Adapters
  <2>2. QED
    BY <1>1, <1>3, <1>5, <2>1, RewriteStep
<1>6. CASE Record(g, "executed") /\ ran' = run
  <2>1. Books' /\ recorded' = "executed"
    BY <1>6, RecordKeepsBooks DEF IInv, Adapters, Record
  <2>2. /\ run.by = g /\ run.action = action /\ run.context = context
        /\ run.request = i
    BY DEF Run
  <2>3. ran' \in RunType
    <3>1. i \in Nat
      BY DEF RequestIds
    <3>2. QED
      BY <1>6, <3>1 DEF Run, RunType, Adapters
  <2>4. /\ \A r \in violated : r.disposition = "escalate"
        /\ Applicable(LawsOf(scope), action) = {} => scope.default = "Allow"
    BY <1>1, GovernedBy DEF IInv
  <2>5. Holding(action, context.now)'
    BY <1>1, GovernedBy, SameGraph DEF IInv
  <2>6. First(violated) \in violated /\ BackedFor(new, First(violated), run)
    <3>1. /\ new.subject.action = action /\ new.subject.context = context
      BY <1>3 DEF Subject
    <3>2. /\ violated # {}
          /\ new.roles = Demand(First(violated)).roles
          /\ new.threshold = Demand(First(violated)).threshold
          /\ Voted(new) \subseteq new.roles
          /\ Cardinality(Voted(new)) >= new.threshold
      BY <1>3, <3>1 DEF Stands
    <3>3. First(violated) \in violated
      BY <3>2, FirstExists, LawsTyped DEF IInv, Violated, Applicable
    <3>4. new.subject = Subject(run.action, run.context)
      BY <1>3, <2>2
    <3>5. QED
      BY <1>3, <3>2, <3>3, <3>4 DEF BackedFor
  <2>7. RunsAreGoverned'
    <3> HIDE DEF run
    <3>1. ran'.request # 0
      BY <1>6, <2>2 DEF RequestIds
    <3>2. BackedFor(requests'[ran'.request], First(violated), ran')
      BY <1>4, <1>6, <2>2, <2>6
    <3>3. ran'.action = action /\ ran'.context = context
      BY <1>6, <2>2
    <3>4. QED
      BY <1>4, <2>4, <2>5, <2>6, <3>1, <3>2, <3>3 DEF RunsAreGoverned, Holding
  <2>8. QED
    BY <1>1, <1>4, <2>1, <2>3, <2>7, RunStep
<1>7. QED
  BY <1>1, <1>5, <1>6

\* The graph's steps are the ones DelegationProofs is about.
LEMMA GraphSteps == Graph!DelegationNext => GraphProofs!DelegationNext
  BY DEF Graph!DelegationNext, GraphProofs!DelegationNext,
         Graph!Tick, GraphProofs!Tick, Graph!Register, GraphProofs!Register,
         Graph!Grant, GraphProofs!Grant, Graph!Revoke, GraphProofs!Revoke,
         Graph!MayGrant, GraphProofs!MayGrant,
         Graph!Reachable, GraphProofs!Reachable,
         Graph!ActiveGrants, GraphProofs!ActiveGrants,
         Graph!SourceGrant, GraphProofs!SourceGrant,
         Graph!SourceGrants, GraphProofs!SourceGrants,
         Graph!Sources, GraphProofs!Sources,
         Graph!SourcesAt, GraphProofs!SourcesAt,
         Graph!Valid, GraphProofs!Valid, Graph!ValidAt, GraphProofs!ValidAt,
         Graph!Attached, GraphProofs!Attached, Graph!Expired, GraphProofs!Expired,
         Graph!Lineage, GraphProofs!Lineage,
         Graph!ParentClosed, GraphProofs!ParentClosed,
         Graph!IntrinsicHas, GraphProofs!IntrinsicHas, Graph!Ids, GraphProofs!Ids

LEMMA GovernStep ==
    ASSUME IInv, Govern
    PROVE  IInv'
<1>1. GraphProofs!DelegationNext
  BY GraphSteps DEF Govern
<1>2. GraphProofs!IInv'
  BY <1>1, GraphAssumption, GraphProofs!NextIInv DEF IInv
<1>3. /\ ran' = NoRun /\ recorded' = "nothing"
      /\ UNCHANGED <<setup, requests, completed, log, next>>
  BY DEF Govern
<1>4. RequestsStand' /\ Books' /\ completed' \in [Gates -> SUBSET CallIds]
  BY <1>3, SameRequests DEF IInv, Books, setup
<1>5. QED
  BY <1>2, <1>3, <1>4, QuietStep

LEMMA RebuildStep ==
    ASSUME IInv, NEW a \in Adapters, Rebuild(a)
    PROVE  IInv'
<1>1. /\ next' = [next EXCEPT ![a] = NextSequence(TraceOf[a])]
      /\ completed' = [g \in Gates |-> IF g = a THEN {} ELSE completed[g]]
      /\ ran' = NoRun /\ recorded' = "nothing"
      /\ UNCHANGED <<now, graph, setup, requests, log>>
  BY DEF Rebuild
<1>2. Books'
  BY <1>1, NextSequenceTyped DEF IInv, Books
<1>3. completed' \in [Gates -> SUBSET CallIds]
  BY <1>1 DEF IInv
<1>4. RequestsStand' /\ GraphProofs!IInv'
  BY <1>1, SameRequests, SameGraph DEF IInv, setup
<1>5. QED
  BY <1>1, <1>2, <1>3, <1>4, QuietStep

LEMMA StutterStep == ASSUME IInv, UNCHANGED vars PROVE IInv'
<1>1. UNCHANGED <<now, graph, setup, requests, completed, log, next, ran, recorded>>
  BY DEF vars
<1>2. /\ GraphProofs!IInv' /\ RequestsStand'
      /\ \A action, t : Holding(action, t)' <=> Holding(action, t)
  BY <1>1, SameGraph, SameRequests DEF IInv, setup
<1>3. /\ ScopeCompiled' /\ approver' \in Approvers
      /\ completed' \in [Gates -> SUBSET CallIds] /\ Books'
      /\ ran' \in RunType \cup {NoRun}
      /\ recorded' \in {"nothing", "kept", "executed"}
      /\ AuditIsTrue'
  BY <1>1 DEF IInv, ScopeCompiled, Books, AuditIsTrue, setup
<1>4. RunsAreGoverned'
  BY <1>1, <1>2 DEF IInv, RunsAreGoverned, Holding, setup
<1>5. QED
  BY <1>2, <1>3, <1>4 DEF IInv

LEMMA InitIInv == Init => IInv
<1> SUFFICES ASSUME Init PROVE IInv
  OBVIOUS
<1>1. GraphProofs!IInv
  <2>1. GraphProofs!DelegationInit
    BY DEF Init, Graph!DelegationInit, GraphProofs!DelegationInit
  <2>2. QED
    BY <2>1, GraphAssumption, GraphProofs!InitIInv
<1>2. /\ ScopeCompiled /\ approver \in Approvers
      /\ completed \in [Gates -> SUBSET CallIds] /\ Books
      /\ ran = NoRun /\ recorded = "nothing" /\ requests = <<>>
  BY DEF Init, ScopeCompiled, Books
<1>3. RequestsStand
  BY <1>2 DEF RequestsStand, RequestIds
<1>4. AuditIsTrue /\ RunsAreGoverned
  BY <1>2 DEF AuditIsTrue, RunsAreGoverned
<1>5. QED
  BY <1>1, <1>2, <1>3, <1>4 DEF IInv

\* Every call, at a gate or at a probe, keeps the invariant, and so do the
\* graph's own steps and new adapters.
LEMMA NextIInv == ASSUME IInv, [Next]_vars PROVE IInv'
<1>1. CASE Govern
  BY <1>1, GovernStep
<1>2. CASE \E a \in Adapters : Note(a) \/ Rebuild(a)
  <2>1. ASSUME NEW a \in Adapters, Note(a) PROVE IInv'
    BY <2>1, EventStep DEF Note
  <2>2. QED
    BY <1>2, <2>1, RebuildStep
<1>3. CASE \E g \in Gates, action \in Actions, context \in Contexts(now),
              id \in CallIds \cup {NoId} : Invoke(g, action, context, id)
  <2>1. PICK g \in Gates, action \in Actions, context \in Contexts(now),
             id \in CallIds \cup {NoId} : Invoke(g, action, context, id)
    BY <1>3
  <2>2. CASE \E yes, returns \in BOOLEAN : Pass(g, action, context, id, yes, returns)
    BY <2>2, PassStep
  <2>3. CASE \E yes \in BOOLEAN : Stop(g, action, context, id, yes)
    BY <2>3, StopStep
  <2>4. CASE Hold(g, action, context, id)
    BY <2>4, HoldStep
  <2>5. CASE Fail(g, action, context, id)
    BY <2>5, EventStep DEF Fail, Adapters
  <2>6. QED
    BY <2>1, <2>2, <2>3, <2>4, <2>5 DEF Invoke
<1>4. CASE \E p \in Probes, action \in Actions, context \in Contexts(now) :
              Observe(p, action, context)
  BY <1>4, ObserveStep
<1>5. CASE \E p \in Probes : ObserveFails(p)
  BY <1>5, EventStep DEF ObserveFails, Adapters
<1>6. CASE \E i \in 1..Len(requests) : Review(i)
  BY <1>6, ReviewStep DEF RequestIds
<1>7. CASE \E g \in Gates, i \in 1..Len(requests), action \in Actions :
              \E context \in Contexts(now) \cup Contexts(requests[i].created) :
                 \E t \in {now, context.now} :
                    \/ Resume(g, i, action, context, t)
                    \/ ResumeStops(g, i, action, context, t)
  <2>1. PICK g \in Gates, i \in RequestIds, action \in Actions :
           \E context \in Contexts(now) \cup Contexts(requests[i].created) :
              \E t \in {now, context.now} :
                 \/ Resume(g, i, action, context, t)
                 \/ ResumeStops(g, i, action, context, t)
    BY <1>7 DEF RequestIds
  <2>2. now \in Nat /\ requests[i].created \in Nat
    <3>1. requests[i] \in RequestType
      BY DEF IInv, RequestsStand, RequestIds
    <3>2. QED
      BY <3>1, GraphTyped DEF IInv, Graph!TypeOK, RequestType
  <2>3. Contexts(now) \cup Contexts(requests[i].created) \subseteq ContextType
    BY <2>2, ContextsTyped
  <2>4. QED
    BY <2>1, <2>3, ResumeStep, ResumeStopsStep
<1>8. CASE UNCHANGED vars
  BY <1>8, StutterStep
<1>9. QED
  BY <1>1, <1>2, <1>3, <1>4, <1>5, <1>6, <1>7, <1>8 DEF Next

-----------------------------------------------------------------------------
(* The theorems.                                                            *)

THEOREM InterceptorInvariant == Spec => []IInv
<1>1. Init => IInv
  BY InitIInv
<1>2. IInv /\ [Next]_vars => IInv'
  BY NextIInv
<1>3. QED
  BY <1>1, <1>2, PTL DEF Spec

\* Every variable of the interceptors and of what they share keeps its type.
THEOREM TypeCorrect == Spec => []TypeOK
<1>1. IInv => TypeOK
  <2> SUFFICES ASSUME IInv PROVE TypeOK
    OBVIOUS
  <2>1. Graph!TypeOK
    BY GraphTyped DEF IInv
  <2>2. MaxEvents + 1 \in Nat /\ 1..(MaxEvents + 1) \subseteq Nat \ {0}
    BY InterceptorAssumption
  <2>3. log \subseteq {TraceOf[a] : a \in Adapters} \X (Nat \ {0})
    BY <2>2 DEF IInv, Books
  <2>4. QED
    BY <2>1, <2>3 DEF IInv, TypeOK, ScopeCompiled, RequestsStand, Books
<1>2. QED
  BY <1>1, InterceptorInvariant, PTL

\* What a gate lets run is governed: by the laws in force, by authority no
\* grant of which is revoked, and by the handler or the votes that a violated
\* law demands (execute and resume_approved in enforce mode).
THEOREM GatesGovern == Spec => []RunsAreGoverned
  BY InterceptorInvariant, PTL DEF IInv

\* Whatever event ids the log refuses, an operation runs exactly when an event
\* that says so is appended.
THEOREM AuditTellsTheTruth == Spec => []AuditIsTrue
  BY InterceptorInvariant, PTL DEF IInv

\* validate_inheritance does what it is for: in a scope that compiles, a linked
\* child is met only where its parent is.
THEOREM InheritanceTightens == Spec => []ChildrenTighten
<1>1. IInv => ChildrenTighten
  BY ScopeTightens DEF IInv
<1>2. QED
  BY <1>1, InterceptorInvariant, PTL

\* T3: composition never makes the inherited scope's decisions less severe.
THEOREM CompositionIsMonotone == Spec => []ScopeKeepsParents
<1>1. IInv => ScopeKeepsParents
  BY ComposedKeeps DEF IInv
<1>2. QED
  BY <1>1, InterceptorInvariant, PTL

-----------------------------------------------------------------------------
(* Spent approvals.                                                         *)

\* Every id in the log was left behind by an adapter on its trace.
IdsHaveWriters ==
    \A e \in log : \E a \in Adapters : TraceOf[a] = e[1] /\ next[a] > e[2]

\* What an adapter does to its number and the log.
Counts(a) ==
    \/ \E what : Record(a, what) \/ RecordError(a, what)
    \/ \E n \in {1, 2} : Unrecorded(a, n)

\* Every step counts for one adapter, builds one anew or counts for none.
LEMMA CountingSteps ==
    ASSUME [Next]_vars
    PROVE  \/ UNCHANGED <<log, next>>
           \/ \E a \in Adapters : Counts(a) \/ Rebuild(a)
<1>1. ASSUME NEW g \in Gates, NEW action, NEW context, NEW id,
             Invoke(g, action, context, id)
      PROVE  Counts(g)
  BY <1>1 DEF Invoke, Pass, Stop, Hold, Fail, Counts
<1>2. ASSUME NEW a \in Adapters, Note(a) PROVE Counts(a)
  BY <1>2 DEF Note, Counts
<1>3. ASSUME NEW p \in Probes, NEW action, NEW context, Observe(p, action, context)
      PROVE  Counts(p)
  BY <1>3 DEF Observe, Counts
<1>4. ASSUME NEW p \in Probes, ObserveFails(p) PROVE Counts(p)
  BY <1>4 DEF ObserveFails, Counts
<1>5. ASSUME NEW g \in Gates, NEW i, NEW action, NEW context, NEW t,
             Resume(g, i, action, context, t) \/ ResumeStops(g, i, action, context, t)
      PROVE  Counts(g)
  BY <1>5 DEF Resume, ResumeStops, Counts
<1>6. ASSUME Govern \/ (\E i \in 1..Len(requests) : Review(i)) \/ UNCHANGED vars
      PROVE  UNCHANGED <<log, next>>
  BY <1>6 DEF Govern, Review, vars
<1>7. Gates \subseteq Adapters /\ Probes \subseteq Adapters
  BY DEF Adapters
<1>8. ASSUME Next
      PROVE  \/ UNCHANGED <<log, next>>
             \/ \E a \in Adapters : Counts(a) \/ Rebuild(a)
  <2>1. CASE Govern \/ \E i \in 1..Len(requests) : Review(i)
    BY <1>6, <2>1
  <2>2. CASE \E a \in Adapters : Note(a) \/ Rebuild(a)
    BY <1>2, <2>2
  <2>3. CASE \E g \in Gates, action \in Actions, context \in Contexts(now),
                id \in CallIds \cup {NoId} : Invoke(g, action, context, id)
    BY <1>1, <1>7, <2>3
  <2>4. CASE \/ \E p \in Probes, action \in Actions, context \in Contexts(now) :
                   Observe(p, action, context)
             \/ \E p \in Probes : ObserveFails(p)
    BY <1>3, <1>4, <1>7, <2>4
  <2>5. CASE \E g \in Gates, i \in 1..Len(requests), action \in Actions :
                \E context \in Contexts(now) \cup Contexts(requests[i].created) :
                   \E t \in {now, context.now} :
                      \/ Resume(g, i, action, context, t)
                      \/ ResumeStops(g, i, action, context, t)
    BY <1>5, <1>7, <2>5
  <2>6. QED
    BY <1>8, <2>1, <2>2, <2>3, <2>4, <2>5 DEF Next
<1>9. QED
  BY <1>6, <1>8

\* An adapter that is built anew starts behind every id of its trace.
LEMMA NextSequenceIsHighest ==
    ASSUME Books, NEW e \in log
    PROVE  NextSequence(e[1]) > e[2]
<1> DEFINE S == {0} \cup {x[2] : x \in {y \in log : y[1] = e[1]}}
<1>1. MaxEvents \in Nat
  BY InterceptorAssumption
<1>2. \A n \in S : n \in Nat /\ n <= MaxEvents + 1
  BY <1>1 DEF Books
<1>3. S \in SUBSET Nat /\ e[2] \in S /\ MaxEvents + 1 \in Nat
  <2>1. e \in {y \in log : y[1] = e[1]}
    OBVIOUS
  <2>2. e[2] \in S
    BY <2>1
  <2>3. S \in SUBSET Nat
    BY <1>2
  <2>4. QED
    BY <1>1, <2>2, <2>3
<1>4. NextSequence(e[1]) = 1 + Max(S)
  BY DEF NextSequence
<1> HIDE DEF S
<1>5. Max(S) \in S /\ \A n \in S : Max(S) >= n
  BY <1>2, <1>3, MaxOf
<1>6. Max(S) \in Nat /\ e[2] \in Nat /\ Max(S) >= e[2]
  BY <1>3, <1>5
<1>7. QED
  BY <1>4, <1>6

\* An adapter that counts leaves behind what it adds to the log.
LEMMA CountsLeaveBehind ==
    ASSUME Books, NEW a \in Adapters, Counts(a)
    PROVE  /\ \A b \in Adapters : next'[b] >= next[b]
           /\ \A e \in log' : e \in log \/ (TraceOf[a] = e[1] /\ next'[a] > e[2])
<1>1. next \in [Adapters -> Nat \ {0}]
  BY DEF Books
<1>2. ASSUME NEW what, Record(a, what)
      PROVE  /\ next' = [next EXCEPT ![a] = next[a] + 1]
             /\ log' = log \cup {<<TraceOf[a], next[a]>>}
  BY <1>2 DEF Record, EventId
<1>3. ASSUME NEW what, RecordError(a, what)
      PROVE  /\ next' = [next EXCEPT ![a] = next[a] + 2]
             /\ log' = log \cup {<<TraceOf[a], next[a] + 1>>}
  BY <1>3 DEF RecordError, EventId
<1>4. ASSUME NEW n \in {1, 2}, Unrecorded(a, n)
      PROVE  next' = [next EXCEPT ![a] = next[a] + n] /\ log' = log
  BY <1>4 DEF Unrecorded
<1>5. CASE \E what : Record(a, what)
  BY <1>1, <1>2, <1>5
<1>6. CASE \E what : RecordError(a, what)
  BY <1>1, <1>3, <1>6
<1>7. CASE \E n \in {1, 2} : Unrecorded(a, n)
  BY <1>1, <1>4, <1>7
<1>8. QED
  BY <1>5, <1>6, <1>7 DEF Counts

\* Counting keeps the numbers within reach.
LEMMA CountsKeepBooks ==
    ASSUME Books, NEW a \in Adapters, Counts(a)
    PROVE  next' \in [Adapters -> Nat \ {0}]
<1>1. next \in [Adapters -> Nat \ {0}]
  BY DEF Books
<1>2. \E n \in {1, 2} : next' = [next EXCEPT ![a] = next[a] + n]
  BY DEF Counts, Record, RecordError, Unrecorded
<1>3. QED
  BY <1>1, <1>2

\* Every step keeps it so.
LEMMA WritersStep ==
    ASSUME Books, IdsHaveWriters, [Next]_vars
    PROVE  IdsHaveWriters'
<1>1. next \in [Adapters -> Nat \ {0}] /\ \A e \in log : e[2] \in Nat
  <2>1. MaxEvents \in Nat
    BY InterceptorAssumption
  <2>2. QED
    BY <2>1 DEF Books
<1>2. CASE UNCHANGED <<log, next>>
  BY <1>2 DEF IdsHaveWriters
<1>3. ASSUME NEW a \in Adapters, Counts(a) PROVE IdsHaveWriters'
  <2> SUFFICES ASSUME NEW e \in log'
               PROVE  \E b \in Adapters : TraceOf[b] = e[1] /\ next'[b] > e[2]
    BY DEF IdsHaveWriters
  <2>1. CASE e \in log
    <3>1. PICK b \in Adapters : TraceOf[b] = e[1] /\ next[b] > e[2]
      BY <2>1 DEF IdsHaveWriters
    <3>2. next'[b] >= next[b] /\ next[b] \in Nat /\ next'[b] \in Nat
      BY <1>1, <1>3, CountsLeaveBehind, CountsKeepBooks
    <3>3. QED
      BY <1>1, <2>1, <3>1, <3>2
  <2>2. CASE TraceOf[a] = e[1] /\ next'[a] > e[2]
    BY <2>2
  <2>3. QED
    BY <1>3, <2>1, <2>2, CountsLeaveBehind
<1>4. ASSUME NEW a \in Adapters, Rebuild(a) PROVE IdsHaveWriters'
  <2>1. log' = log /\ next' = [next EXCEPT ![a] = NextSequence(TraceOf[a])]
    BY <1>4 DEF Rebuild
  <2> SUFFICES ASSUME NEW e \in log
               PROVE  \E b \in Adapters : TraceOf[b] = e[1] /\ next'[b] > e[2]
    BY <2>1 DEF IdsHaveWriters
  <2>2. CASE TraceOf[a] = e[1]
    <3>1. next'[a] = NextSequence(e[1])
      BY <1>1, <2>1, <2>2
    <3>2. QED
      BY <2>2, <3>1, NextSequenceIsHighest
  <2>3. CASE TraceOf[a] # e[1]
    <3>1. PICK b \in Adapters : TraceOf[b] = e[1] /\ next[b] > e[2]
      BY DEF IdsHaveWriters
    <3>2. next'[b] = next[b]
      BY <1>1, <2>1, <2>3, <3>1
    <3>3. QED
      BY <3>1, <3>2
  <2>4. QED
    BY <2>2, <2>3
<1>5. QED
  BY <1>2, <1>3, <1>4, CountingSteps

-----------------------------------------------------------------------------

\* A deadline does not make an approval spent or unspent.
LEMMA ExpireKeepsConsumed ==
    ASSUME NEW req \in RequestType, NEW t
    PROVE  Expire(req, t) \in RequestType /\ Expire(req, t).consumed = req.consumed
  BY DEF Expire, RequestType, RequestStates

\* Votes, denials and deadlines leave an approval unspent.
LEMMA ReviewSpendsNothing ==
    ASSUME IInv, NEW j \in RequestIds, NEW i \in RequestIds, Review(j)
    PROVE  requests'[i].consumed = requests[i].consumed
<1> DEFINE req == Expire(requests[j], now)
<1>1. requests[j] \in RequestType /\ requests \in Seq(RequestType)
  BY DEF IInv, RequestsStand, RequestIds
<1>2. req \in RequestType /\ req.consumed = requests[j].consumed
  BY <1>1, ExpireKeepsConsumed
<1>3. \E new : /\ requests' = [requests EXCEPT ![j] = new]
               /\ new.consumed = req.consumed
  <2>1. ASSUME NEW role \in Roles
        PROVE  /\ Approve(req, role, NoIdentity).consumed = req.consumed
               /\ Deny(req).consumed = req.consumed
    <3> HIDE DEF req
    <3>1. QED
      BY <1>2 DEF Approve, Deny, RequestType
  <2>2. \/ \E role \in Roles :
              \/ requests' = [requests EXCEPT ![j] = Approve(req, role, NoIdentity)]
              \/ requests' = [requests EXCEPT ![j] = Deny(req)]
        \/ requests' = [requests EXCEPT ![j] = req]
    BY DEF Review, Vote, Refuse
  <2> HIDE DEF req
  <2>3. QED
    BY <2>1, <2>2
<1> HIDE DEF req
<1>4. QED
  BY <1>1, <1>2, <1>3 DEF RequestIds

\* An approval is spent by the resume that names it.
LEMMA SpentByResume ==
    ASSUME IInv, [Next]_vars, NEW i \in RequestIds,
           requests'[i].consumed, ~requests[i].consumed
    PROVE  \E g \in Gates, action \in Actions, context \in ContextType : \E t :
              Resume(g, i, action, context, t)
<1>1. requests \in Seq(RequestType)
  BY DEF IInv, RequestsStand
<1>2. requests'[i] # requests[i]
  OBVIOUS
<1>3. ASSUME requests' = requests PROVE FALSE
  BY <1>2, <1>3
<1>4. ASSUME NEW g \in Gates, NEW action \in Actions, NEW context, NEW id,
             Invoke(g, action, context, id)
      PROVE  FALSE
  <2>1. \/ requests' = requests
        \/ \E new : requests' = Append(requests, new)
    BY <1>4 DEF Invoke, Pass, Stop, Hold, Fail, Requested
  <2>2. QED
    BY <1>1, <1>2, <2>1 DEF RequestIds
<1>5. ASSUME NEW j \in RequestIds, Review(j) PROVE FALSE
  BY <1>5, ReviewSpendsNothing
<1>6. ASSUME NEW g \in Gates, NEW j \in RequestIds, NEW action \in Actions,
             NEW context, NEW t, ResumeStops(g, j, action, context, t)
      PROVE  FALSE
  <2>1. requests' = [requests EXCEPT ![j] = Expire(requests[j], t)]
    BY <1>6 DEF ResumeStops
  <2>2. requests[j] \in RequestType
    BY <1>1 DEF RequestIds
  <2>3. Expire(requests[j], t).consumed = requests[j].consumed
    BY <2>2, ExpireKeepsConsumed
  <2>4. QED
    BY <1>1, <2>1, <2>3 DEF RequestIds
<1>7. ASSUME NEW g \in Gates, NEW j \in RequestIds, NEW action \in Actions,
             NEW context, NEW t, Resume(g, j, action, context, t)
      PROVE  i = j
  <2>1. \E new : requests' = [requests EXCEPT ![j] = new]
    BY <1>7 DEF Resume
  <2>2. QED
    BY <1>1, <1>2, <2>1 DEF RequestIds
<1>8. CASE \E g \in Gates, j \in 1..Len(requests), action \in Actions :
              \E context \in Contexts(now) \cup Contexts(requests[j].created) :
                 \E t \in {now, context.now} :
                    \/ Resume(g, j, action, context, t)
                    \/ ResumeStops(g, j, action, context, t)
  <2>1. PICK g \in Gates, j \in RequestIds, action \in Actions :
           \E context \in Contexts(now) \cup Contexts(requests[j].created) :
              \E t \in {now, context.now} :
                 \/ Resume(g, j, action, context, t)
                 \/ ResumeStops(g, j, action, context, t)
    BY <1>8 DEF RequestIds
  <2>2. PICK context \in Contexts(now) \cup Contexts(requests[j].created) :
           \E t \in {now, context.now} : Resume(g, j, action, context, t)
    BY <1>6, <2>1
  <2>3. now \in Nat /\ requests[j].created \in Nat
    <3>1. requests[j] \in RequestType
      BY <1>1 DEF RequestIds
    <3>2. QED
      BY <3>1, GraphTyped DEF IInv, Graph!TypeOK, RequestType
  <2>4. context \in ContextType
    BY <2>3, ContextsTyped
  <2>5. QED
    BY <1>7, <2>2, <2>4
<1>9. CASE \/ Govern
           \/ \E a \in Adapters : Note(a) \/ Rebuild(a)
           \/ \E p \in Probes, action \in Actions, context \in Contexts(now) :
                 Observe(p, action, context)
           \/ \E p \in Probes : ObserveFails(p)
           \/ UNCHANGED vars
  <2>1. requests' = requests
    BY <1>9 DEF Govern, Note, Rebuild, Observe, ObserveFails, vars
  <2>2. QED
    BY <1>3, <2>1
<1>10. QED
  BY <1>4, <1>5, <1>8, <1>9 DEF Next, RequestIds

\* A spent approval let its operation run, or another adapter on the trace of
\* the gate was ahead of it (resume_approved behind prepare_resume).
THEOREM SpentApprovalsAreExplained == Spec => SpentIsExplained
<1>1. Init => IdsHaveWriters
  BY DEF Init, IdsHaveWriters
<1>2. IInv /\ IdsHaveWriters /\ [Next]_vars => IdsHaveWriters'
  BY WritersStep DEF IInv
<1>3. IInv /\ IdsHaveWriters /\ [Next]_vars =>
         \A i \in 1..Len(requests) :
            (requests'[i].consumed /\ ~requests[i].consumed) =>
                IF ran' # NoRun
                THEN ran'.request = i
                ELSE \E g \in Gates, b \in Adapters :
                        /\ b # g
                        /\ next'[g] # next[g]
                        /\ TraceOf[b] = TraceOf[g]
                        /\ next[b] > next[g]
  <2> SUFFICES ASSUME IInv, IdsHaveWriters, [Next]_vars, NEW i \in RequestIds,
                      requests'[i].consumed, ~requests[i].consumed
               PROVE  IF ran' # NoRun
                      THEN ran'.request = i
                      ELSE \E g \in Gates, b \in Adapters :
                              /\ b # g
                              /\ next'[g] # next[g]
                              /\ TraceOf[b] = TraceOf[g]
                              /\ next[b] > next[g]
    BY DEF RequestIds
  <2>1. PICK g \in Gates, action \in Actions, context \in ContextType : \E t :
           Resume(g, i, action, context, t)
    BY SpentByResume
  <2>2. g \in Adapters /\ next \in [Adapters -> Nat \ {0}]
    BY DEF Adapters, IInv, Books
  <2>3. CASE Record(g, "executed") /\ ran' = Run(g, action, context, i, FALSE)
    <3>1. ran' \in RunType /\ ran'.request = i
      BY <2>2, <2>3 DEF Run, RunType, RequestIds
    <3>2. QED
      BY <3>1, NoRunAssumption
  <2>4. CASE Unrecorded(g, 1) /\ ran' = NoRun
    <3>1. next' = [next EXCEPT ![g] = next[g] + 1] /\ <<TraceOf[g], next[g]>> \in log
      <4>1. ~Fresh(g, next[g])
        BY <2>2, <2>4 DEF Unrecorded
      <4>2. QED
        BY <2>4, <4>1 DEF Unrecorded, Fresh, EventId
    <3>2. PICK b \in Adapters : TraceOf[b] = TraceOf[g] /\ next[b] > next[g]
      BY <3>1 DEF IdsHaveWriters
    <3>3. b # g /\ next'[g] # next[g]
      BY <2>2, <3>1, <3>2
    <3>4. QED
      BY <2>4, <3>2, <3>3
  <2>5. QED
    BY <2>1, <2>3, <2>4 DEF Resume
<1>4. QED
  BY <1>1, <1>2, <1>3, InterceptorInvariant, InitIInv, NextIInv, PTL
     DEF Spec, SpentIsExplained
-----------------------------------------------------------------------------
(* The delegation graph behind the interceptors.                            *)

GraphStays == now' = now /\ intrinsic' = intrinsic /\ grants' = grants /\ revoked' = revoked

\* Nothing but Govern touches the graph.
LEMMA GraphLeftAlone == ASSUME [Next]_vars PROVE Govern \/ GraphStays
<1> USE DEF GraphStays
<1>1. CASE UNCHANGED vars
  BY <1>1 DEF vars, graph
<1>2. ASSUME NEW a \in Adapters, Note(a) \/ Rebuild(a) PROVE GraphStays
  BY <1>2 DEF Note, Rebuild, graph
<1>3. ASSUME NEW g, NEW action, NEW context, NEW id, Invoke(g, action, context, id)
      PROVE  GraphStays
  <2>1. ASSUME NEW yes, NEW returns, Pass(g, action, context, id, yes, returns) PROVE GraphStays
    BY <2>1 DEF Pass, graph
  <2>2. ASSUME NEW yes, Stop(g, action, context, id, yes) PROVE GraphStays
    BY <2>2 DEF Stop, graph
  <2>3. ASSUME Hold(g, action, context, id) PROVE GraphStays
    BY <2>3 DEF Hold, graph
  <2>4. ASSUME Fail(g, action, context, id) PROVE GraphStays
    BY <2>4 DEF Fail, graph
  <2> QED
    BY <1>3, <2>1, <2>2, <2>3, <2>4 DEF Invoke
<1>4. ASSUME NEW p, NEW action, NEW context, Observe(p, action, context) PROVE GraphStays
  BY <1>4 DEF Observe, graph
<1>5. ASSUME NEW p, ObserveFails(p) PROVE GraphStays
  BY <1>5 DEF ObserveFails, graph
<1>6. ASSUME NEW i, Review(i) PROVE GraphStays
  BY <1>6 DEF Review, graph
<1>7. ASSUME NEW g, NEW i, NEW action, NEW context, NEW t,
             Resume(g, i, action, context, t) \/ ResumeStops(g, i, action, context, t)
      PROVE  GraphStays
  BY <1>7 DEF Resume, ResumeStops, graph
<1> HIDE DEF GraphStays
<1> QED
  BY <1>1, <1>2, <1>3, <1>4, <1>5, <1>6, <1>7 DEF Next

\* The graph that the adapters share goes on as it does by itself, whatever is
\* called, voted or resumed in between, so that all that is proved of Delegation
\* holds here: a grant that has died never backs a call again, chains attenuate
\* and are grounded, and no grants support one another in a circle.
THEOREM GraphKeepsItsPromises ==
    Spec => /\ GraphProofs!DelegationSpec
            /\ []GraphProofs!AuthorityIsGrounded
            /\ []GraphProofs!ChainsAttenuate
            /\ []GraphProofs!NoActiveCycle
            /\ GraphProofs!DeadStaysDead
<1>1. Init => GraphProofs!DelegationInit
  BY DEF Init, Graph!DelegationInit, GraphProofs!DelegationInit
<1>2. [Next]_vars => [GraphProofs!DelegationNext]_(GraphProofs!vars)
  BY GraphLeftAlone, GraphSteps DEF GraphStays, Govern, GraphProofs!vars
<1>3. Spec => GraphProofs!DelegationSpec
  BY <1>1, <1>2, PTL DEF Spec, GraphProofs!DelegationSpec
<1>4. GraphProofs!DelegationSpec => []GraphProofs!AuthorityIsGrounded
  BY GraphAssumption, GraphProofs!AuthorityHasRoots
<1>5. GraphProofs!DelegationSpec => []GraphProofs!ChainsAttenuate
  BY GraphAssumption, GraphProofs!DelegationAttenuates
<1>6. GraphProofs!DelegationSpec => []GraphProofs!NoActiveCycle
  BY GraphAssumption, GraphProofs!GrantsStayAcyclic
<1>7. GraphProofs!DelegationSpec => GraphProofs!DeadStaysDead
  BY GraphAssumption, GraphProofs!RevocationDominates
<1> QED
  BY <1>3, <1>4, <1>5, <1>6, <1>7
=============================================================================
