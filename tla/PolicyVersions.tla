---------------------------- MODULE PolicyVersions ----------------------------
(***************************************************************************)
(* PolicyVersionStore (governance/versioning.py) under any sequence of       *)
(* register, activate and rollback.                                          *)
(*                                                                           *)
(* A bundle has a content, which its hash covers, and a source, which the    *)
(* hash leaves out with the rest of what may vary.  Stable semantic versions *)
(* are totally ordered and equal only if they are the same text, so they are *)
(* numbers.  A call that raises before it changes anything is no step: a     *)
(* blank reason, a source that does not compile to the content, a version    *)
(* registered with another content, an unknown version to roll back to.      *)
(*                                                                           *)
(* A definition whose comment starts with `Mutated' is a likely bug in the   *)
(* one that follows it, for the properties to catch; no action uses it.      *)
(***************************************************************************)
EXTENDS Integers, Sequences

CONSTANTS
    Policies,
    Contents,    \* what a content hash tells apart
    Sources,
    Meaning,     \* Meaning[s]: the content that s compiles to
    MaxVersion,  \* bound: the versions in use
    MaxEvents,   \* bound: the events on record
    NoBundle,    \* the version is not registered
    NoVersion    \* no version is active

Versions == 1..MaxVersion

ASSUME PolicyVersionsAssumption ==
    /\ Meaning \in [Sources -> Contents]
    /\ MaxVersion \in Nat
    /\ MaxEvents \in Nat
    /\ NoVersion \notin Int

\* PolicyBundle.  Its constructor does not compile the source.
Bundle == [policy : Policies, version : Versions, content : Contents,
           source : Sources]

ASSUME NoBundleAssumption == NoBundle \notin Bundle

\* PolicyBundle.compile.
Compiles(b) == Meaning[b.source] = b.content

VARIABLES
    bundles,   \* _bundles, by policy and version
    active,    \* _active, by policy
    events,    \* _events; an event's id is its place
    returned   \* output: the event the last call returned, by its place

versionsVars == <<bundles, active, events, returned>>

Event == [policy : Policies, kind : {"activate", "rollback"},
          from : Versions \cup {NoVersion}, to : Versions, content : Contents]

VersionsInit ==
    /\ bundles = [p \in Policies |-> [v \in Versions |-> NoBundle]]
    /\ active = [p \in Policies |-> NoVersion]
    /\ events = <<>>
    /\ returned = 0

\* Mutated: a version can be registered again with another content.
AcceptsAny(b) == TRUE

Accepts(b) ==
    LET existing == bundles[b.policy][b.version]
    IN  existing # NoBundle => existing.content = b.content

\* What register() assigns: the latest bundle with the content.
Registered(b) == [bundles EXCEPT ![b.policy][b.version] = b]

Lower(b) == active[b.policy] # NoVersion /\ b.version < active[b.policy]

\* _event.
NewEvent(b) ==
    [policy |-> b.policy, kind |-> IF Lower(b) THEN "rollback" ELSE "activate",
     from |-> active[b.policy], to |-> b.version, content |-> b.content]

\* The events of a policy that activated a version.
Matching(p, version) ==
    {i \in DOMAIN events : events[i].policy = p /\ events[i].to = version}

-----------------------------------------------------------------------------

\* register().
Register(b) ==
    /\ Accepts(b)
    /\ bundles' = Registered(b)
    /\ returned' = 0
    /\ UNCHANGED <<active, events>>

\* activate() of a lower version without allow_rollback raises behind its
\* call of register().
RefuseDowngrade(b) ==
    /\ Compiles(b)
    /\ Lower(b)
    /\ Register(b)

\* Mutated: the first activation of the version is returned.
ConfirmOldest(b) ==
    /\ Compiles(b)
    /\ Accepts(b)
    /\ b.version = active[b.policy]
    /\ bundles' = Registered(b)
    /\ \E i \in Matching(b.policy, b.version) :
          /\ \A j \in Matching(b.policy, b.version) : i <= j
          /\ returned' = i
    /\ UNCHANGED <<active, events>>

\* activate() of the active version returns the event on record.
Confirm(b) ==
    /\ Compiles(b)
    /\ Accepts(b)
    /\ b.version = active[b.policy]
    /\ bundles' = Registered(b)
    /\ \E i \in Matching(b.policy, b.version) :
          /\ \A j \in Matching(b.policy, b.version) : j <= i
          /\ returned' = i
    /\ UNCHANGED <<active, events>>

\* activate() of another version, with allow_rollback if it is a lower one.
Change(b) ==
    /\ Compiles(b)
    /\ Accepts(b)
    /\ b.version # active[b.policy]
    /\ Len(events) < MaxEvents
    /\ bundles' = Registered(b)
    /\ events' = Append(events, NewEvent(b))
    /\ active' = [active EXCEPT ![b.policy] = b.version]
    /\ returned' = Len(events')

\* rollback() activates what is registered under the version, be it lower,
\* the active one or higher.
RollBack(p, version) ==
    /\ bundles[p][version] # NoBundle
    /\ Confirm(bundles[p][version]) \/ Change(bundles[p][version])

VersionsNext ==
    \/ \E b \in Bundle : Register(b) \/ RefuseDowngrade(b) \/ Confirm(b) \/ Change(b)
    \/ \E p \in Policies, v \in Versions : RollBack(p, v)

VersionsSpec == VersionsInit /\ [][VersionsNext]_versionsVars

-----------------------------------------------------------------------------
(* Properties.                                                              *)

\* Every variable has its type.
VersionsTypeOK ==
    /\ bundles \in [Policies -> [Versions -> Bundle \cup {NoBundle}]]
    /\ active \in [Policies -> Versions \cup {NoVersion}]
    /\ events \in Seq(Event)
    /\ returned \in 0..Len(events)

EventsOf(p) == {i \in DOMAIN events : events[i].policy = p}
Before(i) == {j \in EventsOf(events[i].policy) : j < i}

\* i is the last of a set of places.
LastOf(i, places) == i \in places /\ \A j \in places : j <= i

\* The version that is in force after the events at some places of a policy.
InForce(version, places) ==
    IF places = {} THEN version = NoVersion
                   ELSE \E i \in places : LastOf(i, places) /\ version = events[i].to

\* M22: "rollback events are auditable".  The events of a policy tell which
\* version was active when, without a gap: each starts where the last one ended
\* and the last one ends at what is active; going down is what rollbacks are;
\* and the content on record is that of the version, then and now, although
\* bundles are replaced by others of the same hash.
HistoryTellsAll ==
    /\ \A p \in Policies : InForce(active[p], EventsOf(p))
    /\ \A i \in DOMAIN events :
          LET e == events[i]
          IN  /\ InForce(e.from, Before(i))
              /\ e.kind = "rollback" <=> e.from # NoVersion /\ e.to < e.from
              /\ bundles[e.policy][e.to] # NoBundle
              /\ bundles[e.policy][e.to].content = e.content

\* Whoever activates what is active, again or after rollbacks in between, is
\* given the record of the activation in force and not of an earlier one.
ReturnedIsInForce ==
    returned # 0 =>
        LET e == events[returned]
        IN  /\ LastOf(returned, EventsOf(e.policy))
            /\ active[e.policy] = e.to
=============================================================================
