------------------------- MODULE PolicyVersionsProofs -------------------------
(***************************************************************************)
(* What is proved of PolicyVersions for all policies, contents, sources and   *)
(* bounds.  The strengthening beside VersionsTypeOK is HistoryTellsAll itself, which  *)
(* is inductive, and ReturnedIsInForce rests on it.                           *)
(***************************************************************************)
EXTENDS PolicyVersions, TLAPS

USE DEF Versions

\* The empty store satisfies the three invariants.
LEMMA Initially == VersionsInit => VersionsTypeOK /\ HistoryTellsAll /\ ReturnedIsInForce
  BY PolicyVersionsAssumption
  DEF VersionsInit, VersionsTypeOK, HistoryTellsAll, ReturnedIsInForce, InForce, EventsOf

\* The bundle map keeps its type.
LEMMA RegisteredType ==
    ASSUME VersionsTypeOK, NEW b \in Bundle
    PROVE  Registered(b) \in [Policies -> [Versions -> Bundle \cup {NoBundle}]]
  BY DEF VersionsTypeOK, Registered, Bundle

\* An event on record has its type.
LEMMA NewEventType ==
    ASSUME VersionsTypeOK, NEW b \in Bundle
    PROVE  NewEvent(b) \in Event
  BY DEF VersionsTypeOK, NewEvent, Bundle, Event

\* Activating the active version again keeps the types.
LEMMA ConfirmType ==
    ASSUME VersionsTypeOK, NEW b \in Bundle, Confirm(b)
    PROVE  VersionsTypeOK'
<1>1. returned' \in 0..Len(events')
  BY DEF Confirm, Matching, VersionsTypeOK
<1> QED
  BY <1>1, RegisteredType DEF Confirm, VersionsTypeOK

\* So does activating another one.
LEMMA ChangeType ==
    ASSUME VersionsTypeOK, NEW b \in Bundle, Change(b)
    PROVE  VersionsTypeOK'
<1>1. events' \in Seq(Event) /\ Len(events') = Len(events) + 1
  BY NewEventType DEF Change, VersionsTypeOK
<1>2. active' \in [Policies -> Versions \cup {NoVersion}]
  BY DEF Change, VersionsTypeOK, Bundle
<1> QED
  BY <1>1, <1>2, RegisteredType DEF Change, VersionsTypeOK

\* So does registering.
LEMMA RegisterType ==
    ASSUME VersionsTypeOK, NEW b \in Bundle, Register(b)
    PROVE  VersionsTypeOK'
  BY RegisteredType DEF Register, VersionsTypeOK

\* rollback() is an activation of what is registered.
LEMMA RolledBackTo ==
    ASSUME VersionsTypeOK, NEW p \in Policies, NEW v \in Versions, RollBack(p, v)
    PROVE  \E b \in Bundle : Confirm(b) \/ Change(b)
  BY DEF VersionsTypeOK, RollBack

\* Every step is of one of three kinds.
LEMMA StepKinds ==
    ASSUME VersionsTypeOK, VersionsNext
    PROVE  \E b \in Bundle : Register(b) \/ Confirm(b) \/ Change(b)
  BY RolledBackTo DEF VersionsNext, RefuseDowngrade

\* VersionsTypeOK is inductive.
LEMMA TypeInductive == VersionsTypeOK /\ [VersionsNext]_versionsVars => VersionsTypeOK'
<1> SUFFICES ASSUME VersionsTypeOK, [VersionsNext]_versionsVars PROVE VersionsTypeOK'
  OBVIOUS
<1>1. CASE VersionsNext
  BY <1>1, StepKinds, RegisterType, ConfirmType, ChangeType
<1>2. CASE UNCHANGED versionsVars
  BY <1>2 DEF versionsVars, VersionsTypeOK
<1> QED
  BY <1>1, <1>2

-----------------------------------------------------------------------------

\* Registering leaves the content of every version that has one.
LEMMA ContentStays ==
    ASSUME VersionsTypeOK, NEW b \in Bundle, Accepts(b),
           NEW p \in Policies, NEW v \in Versions, bundles[p][v] # NoBundle
    PROVE  /\ Registered(b)[p][v] # NoBundle
           /\ Registered(b)[p][v].content = bundles[p][v].content
<1>1. b.policy \in Policies /\ b.version \in Versions /\ b # NoBundle
  BY NoBundleAssumption DEF Bundle
<1>2. CASE p = b.policy /\ v = b.version
  <2>1. Registered(b)[p][v] = b
    BY <1>1, <1>2 DEF VersionsTypeOK, Registered
  <2> QED
    BY <1>1, <2>1, <1>2 DEF Accepts
<1>3. CASE ~(p = b.policy /\ v = b.version)
  <2>1. Registered(b)[p][v] = bundles[p][v]
    BY <1>1, <1>3 DEF VersionsTypeOK, Registered
  <2> QED
    BY <2>1
<1> QED
  BY <1>2, <1>3

\* The part of HistoryTellsAll about one event.
Told(i) ==
    /\ InForce(events[i].from, Before(i))
    /\ events[i].kind = "rollback" <=>
           events[i].from # NoVersion /\ events[i].to < events[i].from
    /\ bundles[events[i].policy][events[i].to] # NoBundle
    /\ bundles[events[i].policy][events[i].to].content = events[i].content

\* HistoryTellsAll in two parts.
LEMMA HistoryParts ==
    HistoryTellsAll <=> /\ \A p \in Policies : InForce(active[p], EventsOf(p))
                        /\ \A i \in DOMAIN events : Told(i)
  BY DEF HistoryTellsAll, Told

\* What is told stays told while the events and the contents on record stay.
LEMMA ToldStays ==
    ASSUME VersionsTypeOK, NEW b \in Bundle, Accepts(b), bundles' = Registered(b),
           NEW i \in DOMAIN events, Told(i), i \in DOMAIN events',
           \A j \in DOMAIN events : events'[j] = events[j],
           DOMAIN events \subseteq DOMAIN events',
           \A j \in DOMAIN events' \ DOMAIN events : ~(j < i)
    PROVE  Told(i)'
<1>1. events[i] \in Event
  BY DEF VersionsTypeOK
<1>2. Before(i)' = Before(i)
  <2>1. ASSUME NEW j \in DOMAIN events', j < i PROVE j \in DOMAIN events
    BY <2>1
  <2> QED
    BY <2>1 DEF Before, EventsOf
<1>3. InForce(events[i].from, Before(i))'
  <2>1. Before(i) \subseteq DOMAIN events
    BY DEF Before, EventsOf
  <2> QED
    BY <1>2, <2>1 DEF Told, InForce, LastOf
<1>4. /\ bundles'[events[i].policy][events[i].to] # NoBundle
      /\ bundles'[events[i].policy][events[i].to].content = events[i].content
  BY <1>1, ContentStays DEF Told, Event
<1> QED
  BY <1>3, <1>4 DEF Told
\* A call that only registers leaves the history true.
LEMMA HistoryThroughRegister ==
    ASSUME VersionsTypeOK, HistoryTellsAll, NEW b \in Bundle, Accepts(b),
           bundles' = Registered(b), UNCHANGED <<active, events>>
    PROVE  HistoryTellsAll'
<1>1. \A i \in DOMAIN events : Told(i)'
  BY ToldStays, HistoryParts
<1>2. \A p \in Policies : InForce(active[p], EventsOf(p))'
  BY HistoryParts DEF InForce, EventsOf, LastOf
<1> QED
  BY <1>1, <1>2 DEF HistoryTellsAll, Told

\* An activation adds an event that starts where the last one of the policy ended.
LEMMA HistoryThroughChange ==
    ASSUME VersionsTypeOK, HistoryTellsAll, NEW b \in Bundle, Change(b)
    PROVE  HistoryTellsAll'
<1>0. PICK new \in Nat : new = Len(events) + 1
  BY DEF VersionsTypeOK
<1>1. /\ NewEvent(b) \in Event
      /\ Len(events) \in Nat /\ new = Len(events) + 1
      /\ DOMAIN events = 1..Len(events)
      /\ DOMAIN events' = 1..new
      /\ \A j \in DOMAIN events : events'[j] = events[j]
      /\ events'[new] = NewEvent(b)
  BY <1>0, NewEventType DEF VersionsTypeOK, Change
<1>2. b.policy \in Policies /\ b.version \in Versions /\ b # NoBundle
  BY NoBundleAssumption DEF Bundle
<1>3. ASSUME NEW i \in DOMAIN events PROVE Told(i)'
  <2>1. /\ DOMAIN events \subseteq DOMAIN events'
        /\ \A j \in DOMAIN events' \ DOMAIN events : ~(j < i)
    BY <1>1
  <2>2. Accepts(b) /\ bundles' = Registered(b)
    BY DEF Change
  <2>3. Told(i)
    BY HistoryParts
  <2> QED
    BY <1>1, <2>1, <2>2, <2>3, ToldStays
<1>4. /\ events'[new].policy = b.policy
      /\ events'[new].from = active[b.policy]
      /\ events'[new].to = b.version
      /\ events'[new].content = b.content
      /\ events'[new].kind = IF Lower(b) THEN "rollback" ELSE "activate"
  BY <1>1 DEF NewEvent
<1>5. Before(new)' = EventsOf(b.policy)
  BY <1>1, <1>4 DEF Before, EventsOf
<1>6. Told(new)'
  <2>1. InForce(events[new].from, Before(new))'
    <3>1. InForce(active[b.policy], EventsOf(b.policy))
      BY <1>2, HistoryParts
    <3>2. EventsOf(b.policy) \subseteq DOMAIN events
      BY DEF EventsOf
    <3> QED
      BY <1>1, <1>4, <1>5, <3>1, <3>2 DEF InForce, LastOf
  <2>2. bundles'[b.policy][b.version] = b
    BY <1>2 DEF Change, Registered, VersionsTypeOK
  <2>3. events'[new].kind = "rollback" <=>
            events'[new].from # NoVersion /\ events'[new].to < events'[new].from
    BY <1>4 DEF Lower
  <2> QED
    BY <1>2, <1>4, <2>1, <2>2, <2>3 DEF Told
<1>7. \A i \in DOMAIN events' : Told(i)'
  BY <1>1, <1>3, <1>6
<1>8. ASSUME NEW p \in Policies PROVE InForce(active[p], EventsOf(p))'
  <2>1. CASE p = b.policy
    <3>1. active'[p] = b.version
      BY <1>2, <2>1 DEF Change, VersionsTypeOK
    <3>2. new \in EventsOf(p)' /\ \A j \in EventsOf(p)' : j <= new
      BY <1>1, <1>4, <2>1 DEF EventsOf
    <3> QED
      BY <1>4, <3>1, <3>2 DEF InForce, LastOf
  <2>2. CASE p # b.policy
    <3>1. active'[p] = active[p]
      BY <2>2 DEF Change, VersionsTypeOK
    <3>2. EventsOf(p)' = EventsOf(p)
      BY <1>1, <1>4, <2>2 DEF EventsOf
    <3>3. \A j \in EventsOf(p) : events'[j] = events[j]
      BY <1>1 DEF EventsOf
    <3>4. InForce(active[p], EventsOf(p))
      BY HistoryParts
    <3> QED
      BY <3>1, <3>2, <3>3, <3>4 DEF InForce, LastOf
  <2> QED
    BY <2>1, <2>2
<1> QED
  BY <1>7, <1>8 DEF HistoryTellsAll, Told

\* HistoryTellsAll is inductive, given the types.
LEMMA HistoryInductive ==
    VersionsTypeOK /\ HistoryTellsAll /\ [VersionsNext]_versionsVars => HistoryTellsAll'
<1> SUFFICES ASSUME VersionsTypeOK, HistoryTellsAll, [VersionsNext]_versionsVars PROVE HistoryTellsAll'
  OBVIOUS
<1>1. ASSUME NEW b \in Bundle, Register(b) PROVE HistoryTellsAll'
  BY <1>1, HistoryThroughRegister DEF Register
<1>2. ASSUME NEW b \in Bundle, Confirm(b) PROVE HistoryTellsAll'
  BY <1>2, HistoryThroughRegister DEF Confirm
<1>3. ASSUME NEW b \in Bundle, Change(b) PROVE HistoryTellsAll'
  BY <1>3, HistoryThroughChange
<1>4. CASE UNCHANGED versionsVars
  BY <1>4 DEF versionsVars, HistoryTellsAll, InForce, EventsOf, Before, LastOf
<1> QED
  BY <1>1, <1>2, <1>3, <1>4, StepKinds

-----------------------------------------------------------------------------

\* The last event of the active version is the last one of its policy, because that one says what is active.
LEMMA ConfirmReturns ==
    ASSUME VersionsTypeOK, HistoryTellsAll, NEW b \in Bundle, Confirm(b)
    PROVE  ReturnedIsInForce'
<1>1. b.policy \in Policies /\ b.version \in Versions
  BY DEF Bundle
<1>2. PICK i \in Matching(b.policy, b.version) :
          /\ \A j \in Matching(b.policy, b.version) : j <= i
          /\ returned' = i
  BY DEF Confirm
<1>3. /\ i \in DOMAIN events
      /\ events[i].policy = b.policy
      /\ events[i].to = b.version
  BY <1>2 DEF Matching
<1>4. PICK k \in EventsOf(b.policy) : LastOf(k, EventsOf(b.policy)) /\ active[b.policy] = events[k].to
  <2>1. EventsOf(b.policy) # {}
    BY <1>3 DEF EventsOf
  <2> QED
    BY <1>1, <2>1, HistoryParts DEF InForce, LastOf
<1>5. k \in Matching(b.policy, b.version)
  BY <1>4 DEF Confirm, EventsOf, Matching
<1>6. k = i
  <2>1. k <= i /\ i <= k
    BY <1>2, <1>3, <1>4, <1>5 DEF EventsOf, LastOf
  <2>2. i \in Int /\ k \in Int
    BY <1>3, <1>4 DEF EventsOf, VersionsTypeOK
  <2> QED
    BY <2>1, <2>2
<1>7. UNCHANGED <<active, events>> /\ b.version = active[b.policy]
  BY DEF Confirm
<1> QED
  BY <1>2, <1>3, <1>4, <1>6, <1>7 DEF ReturnedIsInForce, LastOf, EventsOf

\* A new event is the last one.
LEMMA ChangeReturns ==
    ASSUME VersionsTypeOK, NEW b \in Bundle, Change(b)
    PROVE  ReturnedIsInForce'
<1> DEFINE new == Len(events) + 1
<1>1. /\ Len(events) \in Nat
      /\ DOMAIN events' = 1..new
      /\ events'[new] = NewEvent(b)
      /\ returned' = new
  BY NewEventType DEF VersionsTypeOK, Change
<1>2. events'[new].policy = b.policy /\ events'[new].to = b.version
  BY <1>1 DEF NewEvent
<1>3. active'[b.policy] = b.version
  BY DEF Change, VersionsTypeOK, Bundle
<1>4. LastOf(new, EventsOf(b.policy)')
  BY <1>1, <1>2 DEF LastOf, EventsOf
<1> QED
  BY <1>1, <1>2, <1>3, <1>4 DEF ReturnedIsInForce, LastOf, EventsOf

\* ReturnedIsInForce follows from the step before.
LEMMA ReturnedInductive ==
    VersionsTypeOK /\ HistoryTellsAll /\ ReturnedIsInForce /\ [VersionsNext]_versionsVars
        => ReturnedIsInForce'
<1> SUFFICES ASSUME VersionsTypeOK, HistoryTellsAll, ReturnedIsInForce, [VersionsNext]_versionsVars
             PROVE  ReturnedIsInForce'
  OBVIOUS
<1>1. ASSUME NEW b \in Bundle, Register(b) PROVE ReturnedIsInForce'
  BY <1>1 DEF Register, ReturnedIsInForce
<1>2. CASE UNCHANGED versionsVars
  BY <1>2 DEF versionsVars, ReturnedIsInForce, LastOf, EventsOf
<1> QED
  BY <1>1, <1>2, ConfirmReturns, ChangeReturns, StepKinds

-----------------------------------------------------------------------------

\* The store keeps the types of its variables, for all bundles and policies.
THEOREM VersionsTypeCorrect == VersionsSpec => []VersionsTypeOK
  BY Initially, TypeInductive, PTL DEF VersionsSpec

\* The events tell, without a gap, which version of a policy was active when,
\* and their contents are those of the versions that the store still holds.
THEOREM EventsTellAll == VersionsSpec => []HistoryTellsAll
  BY Initially, TypeInductive, HistoryInductive, PTL DEF VersionsSpec

\* activate() and rollback() return the record of the activation in force.
THEOREM CallersGetTheRecord == VersionsSpec => []ReturnedIsInForce
  BY Initially, TypeInductive, HistoryInductive, ReturnedInductive, PTL DEF VersionsSpec
=============================================================================
