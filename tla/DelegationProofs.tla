--------------------------- MODULE DelegationProofs ---------------------------
(***************************************************************************)
(* Proofs about Delegation for every set of actors and capabilities, every   *)
(* descent relation and every bound.                                         *)
(*                                                                           *)
(* A lineage is the least parent-closed set around a grant, so what holds    *)
(* all along a chain is proved without induction: the grants that have the   *)
(* property form a parent-closed set, and the lineage lies inside it.        *)
(***************************************************************************)
EXTENDS Delegation, FiniteSetTheorems, WellFoundedInduction, TLAPS

\* A parent is an older grant, every grant hangs from its parent (or from
\* intrinsic authority), and every chain ends in a grant without a parent.
ParentsPrecede ==
    \A g \in Ids : grants[g].parent # Root => grants[g].parent \in 1..(g - 1)
AllAttached == \A g \in Ids : Attached(g)
AllRooted == \A g \in Ids : \E h \in Lineage(g) : grants[h].parent = Root

IInv ==
    /\ TypeOK
    /\ ParentsPrecede
    /\ AllAttached
    /\ AllRooted
    /\ NoActiveCycle

-----------------------------------------------------------------------------
(* Lineages.                                                                *)

\* The lineage of a grant is parent-closed, holds the grant, and lies in every
\* parent-closed set that does.
LEMMA LineageFacts ==
    ASSUME NEW g \in Ids, ParentClosed(Ids)
    PROVE  /\ g \in Lineage(g)
           /\ Lineage(g) \subseteq Ids
           /\ ParentClosed(Lineage(g))
           /\ \A S \in SUBSET Ids :
                 g \in S /\ ParentClosed(S) => Lineage(g) \subseteq S
<1>1. /\ g \in Lineage(g)
      /\ Lineage(g) \subseteq Ids
      /\ \A S \in SUBSET Ids :
            g \in S /\ ParentClosed(S) => Lineage(g) \subseteq S
  BY DEF Lineage
<1>2. ParentClosed(Lineage(g))
  <2> SUFFICES ASSUME NEW h \in Lineage(g), grants[h].parent # Root
               PROVE  grants[h].parent \in Lineage(g)
    BY DEF ParentClosed
  <2>1. grants[h].parent \in Ids
    BY <1>1 DEF ParentClosed
  <2>2. ASSUME NEW S \in SUBSET Ids, g \in S, ParentClosed(S)
        PROVE  grants[h].parent \in S
    BY <1>1, <2>2 DEF ParentClosed
  <2>3. QED
    BY <2>1, <2>2 DEF Lineage
<1>3. QED
  BY <1>1, <1>2

LEMMA IdsClosed == ASSUME ParentsPrecede, TypeOK PROVE ParentClosed(Ids)
  BY DEF ParentsPrecede, ParentClosed, Ids, TypeOK

\* The chain of a grant is the grant itself and the chain of its parent.
LEMMA LineageOfParent ==
    ASSUME NEW g \in Ids, TypeOK, ParentsPrecede,
           NEW p \in Ids, grants[g].parent = p
    PROVE  /\ Lineage(g) = Lineage(p) \cup {g}
           /\ g \notin Lineage(p)
<1>1. ParentClosed(Ids)
  BY IdsClosed
<1>2. p # Root /\ p \in 1..(g - 1) /\ g \in Nat
  BY DelegationAssumption DEF ParentsPrecede, Ids
<1>3. ParentClosed(Lineage(p) \cup {g})
  BY <1>1, LineageFacts DEF ParentClosed
<1>4. Lineage(g) \subseteq Lineage(p) \cup {g}
  BY <1>1, <1>3, LineageFacts
<1>5. Lineage(p) \cup {g} \subseteq Lineage(g)
  <2>1. p \in Lineage(g) /\ ParentClosed(Lineage(g)) /\ g \in Lineage(g)
    BY <1>1, <1>2, LineageFacts DEF ParentClosed
  <2>2. QED
    BY <2>1, <1>1, LineageFacts
<1>6. g \notin Lineage(p)
  <2> DEFINE older == {h \in Ids : h <= p}
  <2>1. ParentClosed(older)
    BY DEF ParentsPrecede, ParentClosed, Ids, TypeOK
  <2>2. p \in older /\ older \in SUBSET Ids
    BY DEF Ids, TypeOK
  <2>3. Lineage(p) \subseteq older
    BY <1>1, <2>1, <2>2, LineageFacts
  <2>4. g \notin older
    BY <1>2 DEF Ids, TypeOK
  <2>5. QED
    BY <2>3, <2>4
<1>7. QED
  BY <1>4, <1>5, <1>6

\* Chains narrow: whatever grant the chain of g passes is at least as wide as
\* g, and has depth left for the hops between them.
LEMMA ChainsNarrow ==
    ASSUME TypeOK, ParentsPrecede, AllAttached, NEW g \in Ids
    PROVE  \A h \in Lineage(g) :
              /\ <<grants[g].capability, grants[h].capability>> \in Covered
              /\ grants[g].depth + Cardinality(Lineage(g) \ Lineage(h)) <=
                    grants[h].depth
<1> DEFINE Good(h) ==
              /\ <<grants[g].capability, grants[h].capability>> \in Covered
              /\ grants[g].depth + Cardinality(Lineage(g) \ Lineage(h)) <=
                    grants[h].depth
           S == {h \in Lineage(g) : Good(h)}
<1>1. ParentClosed(Ids)
  BY IdsClosed
<1>2. /\ g \in Lineage(g) /\ Lineage(g) \subseteq Ids
      /\ ParentClosed(Lineage(g))
  BY <1>1, LineageFacts
<1>3. \A h \in Ids : grants[h] \in GrantType
  BY DEF TypeOK, Ids
<1>4. \A h \in Lineage(g) :
         /\ IsFiniteSet(Lineage(g) \ Lineage(h))
         /\ Cardinality(Lineage(g) \ Lineage(h)) \in Nat
  <2>1. IsFiniteSet(Ids)
    BY FS_Interval DEF Ids, TypeOK
  <2>2. QED
    BY <1>2, <2>1, FS_Subset, FS_CardinalityType
<1>5. g \in S
  <2>1. Cardinality(Lineage(g) \ Lineage(g)) = 0
    BY FS_EmptySet
  <2>2. <<grants[g].capability, grants[g].capability>> \in Covered
    BY <1>3, DelegationAssumption DEF GrantType
  <2>3. grants[g].depth \in Nat
    BY <1>3 DEF GrantType
  <2>4. QED
    BY <1>2, <2>1, <2>2, <2>3
<1>6. ParentClosed(S)
  <2> SUFFICES ASSUME NEW h \in S, grants[h].parent # Root
               PROVE  grants[h].parent \in S
    BY DEF ParentClosed
  <2> DEFINE p == grants[h].parent
  <2>1. p \in Lineage(g) /\ p \in Ids /\ h \in Ids /\ h \in Lineage(g)
    BY <1>2 DEF ParentClosed
  <2>2. /\ <<grants[h].capability, grants[p].capability>> \in Covered
        /\ grants[h].depth + 1 <= grants[p].depth
    BY <2>1 DEF AllAttached, Attached
  <2>3. /\ Lineage(h) = Lineage(p) \cup {h}
        /\ h \notin Lineage(p)
    BY <2>1, LineageOfParent
  <2>4. Lineage(g) \ Lineage(p) = (Lineage(g) \ Lineage(h)) \cup {h}
    BY <2>1, <2>3
  <2>5. Cardinality(Lineage(g) \ Lineage(p)) =
           Cardinality(Lineage(g) \ Lineage(h)) + 1
    BY <1>4, <2>1, <2>3, <2>4, FS_AddElement
  <2>6. /\ grants[g].depth \in Nat /\ grants[h].depth \in Nat
        /\ grants[p].depth \in Nat
        /\ grants[g].capability \in Capabilities
        /\ grants[h].capability \in Capabilities
        /\ grants[p].capability \in Capabilities
    BY <1>3, <2>1 DEF GrantType
  <2>7. <<grants[g].capability, grants[p].capability>> \in Covered
    BY <2>2, <2>6, DelegationAssumption
  <2>8. Cardinality(Lineage(g) \ Lineage(h)) \in Nat
    BY <1>4, <2>1
  <2>9. grants[g].depth + Cardinality(Lineage(g) \ Lineage(p)) <= grants[p].depth
    BY <2>2, <2>5, <2>6, <2>8
  <2>10. QED
    BY <2>1, <2>7, <2>9
<1>7. S \in SUBSET Ids
  BY <1>2
<1> HIDE DEF S
<1>8. Lineage(g) \subseteq S
  BY <1>1, <1>5, <1>6, <1>7, LineageFacts
<1>9. QED
  BY <1>8 DEF S

\* In a graph where every grant is attached, a grant is valid exactly when
\* nothing in its chain is revoked or expired.
LEMMA ValidIsLive ==
    ASSUME AllAttached, NEW g \in Ids
    PROVE  Valid(g) <=>
              \A h \in Lineage(g) : h \notin revoked /\ ~Expired(h, now)
  BY DEF Valid, ValidAt, AllAttached, Lineage

-----------------------------------------------------------------------------
(* The initial states and the steps.                                        *)

LEMMA InitIInv == DelegationInit => IInv
  BY DEF DelegationInit, IInv, TypeOK, ParentsPrecede, AllAttached, AllRooted,
         NoActiveCycle, ActiveGrants, Ids

\* Without a new grant, chains stay as they are; if besides authority is only
\* gained, nothing becomes valid and the graph invariant is kept.
LEMMA SameGrantsStep ==
    ASSUME IInv, TypeOK', UNCHANGED grants,
           \A a \in Actors, c \in Capabilities :
              IntrinsicHas(a, c) => IntrinsicHas(a, c)',
           revoked \subseteq revoked',
           \A h \in Ids : Expired(h, now) => Expired(h, now)'
    PROVE  IInv' /\ \A g \in Ids : ~Valid(g) => ~Valid(g)'
<1>1. /\ Ids' = Ids
      /\ \A S : ParentClosed(S)' <=> ParentClosed(S)
      /\ \A g \in Ids : Lineage(g)' = Lineage(g)
  BY DEF Ids, ParentClosed, Lineage
<1>2. ParentsPrecede' /\ AllRooted'
  BY <1>1 DEF IInv, ParentsPrecede, AllRooted
<1>3. AllAttached'
  <2>1. \A g \in Ids : grants[g] \in GrantType
    BY DEF IInv, TypeOK, Ids
  <2>2. \A g \in Ids : Attached(g) => Attached(g)'
    BY <1>1, <2>1 DEF Attached, GrantType
  <2>3. QED
    BY <1>1, <2>2 DEF IInv, AllAttached
<1>4. \A g \in Ids : Valid(g)' => Valid(g)
  <2> SUFFICES ASSUME NEW g \in Ids, Valid(g)' PROVE Valid(g)
    OBVIOUS
  <2>1. \A h \in Lineage(g) : h \notin revoked' /\ ~Expired(h, now)'
    BY <1>1 DEF Valid, ValidAt
  <2>2. \A h \in Lineage(g) : h \in Ids
    BY DEF Lineage
  <2>3. \A h \in Lineage(g) : h \notin revoked /\ ~Expired(h, now)
    BY <2>1, <2>2
  <2>4. QED
    BY <2>3, ValidIsLive DEF IInv
<1>5. NoActiveCycle'
  <2> SUFFICES ASSUME NEW g \in ActiveGrants'
               PROVE  ~Reachable(grants[g].to, grants[g].from)'
    BY DEF NoActiveCycle
  <2>1. g \in ActiveGrants /\ ActiveGrants' \subseteq ActiveGrants
    BY <1>1, <1>4 DEF ActiveGrants
  <2>2. ~Reachable(grants[g].to, grants[g].from)
    BY <2>1 DEF IInv, NoActiveCycle
  <2>3. PICK S \in SUBSET Actors :
           /\ grants[g].to \in S
           /\ \A h \in ActiveGrants : grants[h].from \in S => grants[h].to \in S
           /\ grants[g].from \notin S
    BY <2>2 DEF Reachable
  <2>4. \A h \in ActiveGrants' : grants'[h].from \in S => grants'[h].to \in S
    BY <2>1, <2>3
  <2>5. QED
    BY <2>3, <2>4 DEF Reachable
<1>6. QED
  BY <1>2, <1>3, <1>4, <1>5 DEF IInv

LEMMA TickStep ==
    ASSUME IInv, Tick
    PROVE  IInv' /\ \A g \in Ids : ~Valid(g) => ~Valid(g)'
<1>1. TypeOK' /\ UNCHANGED <<grants, intrinsic, revoked>> /\ now' = now + 1
  BY DEF IInv, TypeOK, Tick, Ids
<1>2. \A h \in Ids : Expired(h, now) => Expired(h, now)'
  <2> SUFFICES ASSUME NEW h \in Ids, Expired(h, now) PROVE Expired(h, now)'
    OBVIOUS
  <2>1. grants[h] \in GrantType /\ now \in Nat
    BY DEF IInv, TypeOK, Ids
  <2>2. grants[h].expires \in Nat /\ now >= grants[h].expires
    BY <2>1 DEF Expired, GrantType
  <2>3. QED
    BY <1>1, <2>1, <2>2 DEF Expired
<1>3. \A a \in Actors, c \in Capabilities :
         IntrinsicHas(a, c) => IntrinsicHas(a, c)'
  BY <1>1 DEF IntrinsicHas
<1>4. QED
  BY <1>1, <1>2, <1>3, SameGrantsStep

LEMMA RegisterStep ==
    ASSUME IInv, NEW actor \in Actors, Register(actor)
    PROVE  IInv' /\ \A g \in Ids : ~Valid(g) => ~Valid(g)'
<1>1. /\ TypeOK'
      /\ UNCHANGED <<grants, now, revoked>>
      /\ \A a \in Actors : intrinsic[a] \subseteq intrinsic'[a]
  BY DelegationAssumption DEF IInv, TypeOK, Register, Ids
<1>2. \A a \in Actors, c \in Capabilities :
         IntrinsicHas(a, c) => IntrinsicHas(a, c)'
  BY <1>1 DEF IntrinsicHas
<1>3. \A h \in Ids : Expired(h, now) => Expired(h, now)'
  BY <1>1 DEF Expired
<1>4. QED
  BY <1>1, <1>2, <1>3, SameGrantsStep

LEMMA RevokeStep ==
    ASSUME IInv, NEW dead \in Ids, Revoke(dead)
    PROVE  IInv' /\ \A g \in Ids : ~Valid(g) => ~Valid(g)'
<1>1. /\ TypeOK'
      /\ UNCHANGED <<grants, now, intrinsic>>
      /\ revoked \subseteq revoked'
  BY DEF IInv, TypeOK, Revoke, Ids
<1>2. \A a \in Actors, c \in Capabilities :
         IntrinsicHas(a, c) => IntrinsicHas(a, c)'
  BY <1>1 DEF IntrinsicHas
<1>3. \A h \in Ids : Expired(h, now) => Expired(h, now)'
  BY <1>1 DEF Expired
<1>4. QED
  BY <1>1, <1>2, <1>3, SameGrantsStep

LEMMA StutterStep ==
    ASSUME IInv, UNCHANGED vars
    PROVE  IInv' /\ \A g \in Ids : ~Valid(g) => ~Valid(g)'
<1>1. TypeOK' /\ UNCHANGED <<grants, now, intrinsic, revoked>>
  BY DEF IInv, TypeOK, vars, Ids
<1>2. \A a \in Actors, c \in Capabilities :
         IntrinsicHas(a, c) => IntrinsicHas(a, c)'
  BY <1>1 DEF IntrinsicHas
<1>3. \A h \in Ids : Expired(h, now) => Expired(h, now)'
  BY <1>1 DEF Expired
<1>4. QED
  BY <1>1, <1>2, <1>3, SameGrantsStep

-----------------------------------------------------------------------------
(* A new grant.                                                             *)

\* A set of numbers that is not empty has a least one (min in _source_grant).
LEMMA LeastOf ==
    ASSUME NEW S \in SUBSET Nat, S # {}
    PROVE  \E m \in S : \A k \in S : m <= k
<1> DEFINE R == OpToRel(<, Nat)
<1>1. IsWellFoundedOn(R, Nat)
  BY NatLessThanWellFounded
<1>2. \A x, y \in Nat : x < y => <<x, y>> \in R
  BY DEF OpToRel
<1> HIDE DEF R
<1>3. PICK m \in S : \A k \in S : ~(<<k, m>> \in R)
  BY <1>1, WFMin
<1>4. ASSUME NEW k \in S PROVE m <= k
  <2>1. m \in Nat /\ k \in Nat
    OBVIOUS
  <2>2. ~(k < m)
    BY <1>2, <1>3, <2>1
  <2>3. QED
    BY <2>1, <2>2
<1>5. QED
  BY <1>4

LEMMA SourceGrantExists ==
    ASSUME NEW a, NEW c, SourceGrants(a, c) # {}
    PROVE  SourceGrant(a, c) \in SourceGrants(a, c)
<1>1. SourceGrants(a, c) \in SUBSET Nat
  BY DEF SourceGrants, Sources, SourcesAt, Ids
<1>2. \E g \in SourceGrants(a, c) : \A h \in SourceGrants(a, c) : g <= h
  BY <1>1, LeastOf
<1>3. QED
  BY <1>2 DEF SourceGrant

\* What a successful grant appends: a typed grant, of an actor who is not
\* reachable from the grantee, attached to a live older grant or to nothing.
LEMMA GrantFacts ==
    ASSUME IInv, NEW from \in Actors, NEW to \in Actors,
           NEW c \in Capabilities, NEW depth \in Depths,
           NEW expires \in Expiries, Grant(from, to, c, depth, expires),
           NEW n, n = Len(grants) + 1
    PROVE  /\ grants' \in Seq(GrantType)
           /\ Len(grants) \in Nat
           /\ Ids' = Ids \cup {n}
           /\ n \notin Ids
           /\ \A g \in Ids : grants'[g] = grants[g]
           /\ grants'[n].from = from /\ grants'[n].to = to
           /\ ~Reachable(to, from)
           /\ UNCHANGED <<now, intrinsic, revoked>>
           /\ Attached(n)'
           /\ grants'[n].parent \in Ids \cup {Root}
<1> DEFINE parent == IF IntrinsicHas(from, c) THEN Root ELSE SourceGrant(from, c)
           new == [from |-> from, to |-> to, capability |-> c, depth |-> depth,
                   expires |-> expires, parent |-> parent]
<1>1. /\ grants' = Append(grants, new)
      /\ UNCHANGED <<now, intrinsic, revoked>>
      /\ ~Reachable(to, from)
      /\ ~IntrinsicHas(from, c) =>
            /\ SourceGrants(from, c) # {}
            /\ depth + 1 <= grants[SourceGrant(from, c)].depth
  BY DEF Grant, MayGrant
<1>2. ~IntrinsicHas(from, c) =>
         /\ parent \in Ids
         /\ grants[parent].to = from
         /\ <<c, grants[parent].capability>> \in Covered
         /\ depth + 1 <= grants[parent].depth
  BY <1>1, SourceGrantExists DEF SourceGrants, Sources, SourcesAt
<1>3. IntrinsicHas(from, c) => parent = Root
  OBVIOUS
<1> HIDE DEF parent
<1>4. /\ grants \in Seq(GrantType)
      /\ Len(grants) \in Nat
      /\ new \in GrantType
  <2>1. parent \in Nat \cup {Root}
    BY <1>2, <1>3 DEF Ids
  <2>2. grants \in Seq(GrantType)
    BY DEF IInv, TypeOK
  <2>3. QED
    BY <2>1, <2>2, DelegationAssumption DEF GrantType
<1> HIDE DEF new
<1>5. /\ grants' \in Seq(GrantType)
      /\ Len(grants') = n
      /\ grants'[n] = new
      /\ \A g \in Ids : grants'[g] = grants[g]
  BY <1>1, <1>4 DEF Ids
<1>6. Ids' = Ids \cup {n} /\ n \notin Ids
  BY <1>4, <1>5 DEF Ids
<1>7. /\ new.from = from /\ new.to = to /\ new.parent = parent
      /\ new.capability = c /\ new.depth = depth
  BY DEF new
<1>8. parent \in Ids \cup {Root}
  BY <1>2, <1>3
<1>9. Attached(n)'
  <2>1. CASE IntrinsicHas(from, c)
    <3>1. IntrinsicHas(from, c)'
      BY <1>1, <2>1 DEF IntrinsicHas
    <3>2. QED
      BY <1>3, <1>5, <1>7, <2>1, <3>1 DEF Attached
  <2>2. CASE ~IntrinsicHas(from, c)
    <3>1. parent # Root
      BY <1>2, <2>2, DelegationAssumption DEF Ids
    <3>2. QED
      BY <1>2, <1>5, <1>6, <1>7, <2>2, <3>1 DEF Attached
  <2>3. QED
    BY <2>1, <2>2
<1>10. QED
  BY <1>1, <1>4, <1>5, <1>6, <1>7, <1>8, <1>9

\* A new grant leaves the chains of the older ones alone.
LEMMA OldLineages ==
    ASSUME ParentClosed(Ids), NEW n, n \notin Ids, Ids' = Ids \cup {n},
           \A g \in Ids : grants'[g] = grants[g], NEW g \in Ids
    PROVE  Lineage(g)' = Lineage(g)
<1>1. \A S \in SUBSET Ids : ParentClosed(S)' <=> ParentClosed(S)
  BY DEF ParentClosed
<1>2. Lineage(g) \subseteq Lineage(g)'
  <2> SUFFICES ASSUME NEW h \in Lineage(g),
                      NEW S \in SUBSET Ids', g \in S, ParentClosed(S)'
               PROVE  h \in S
    BY DEF Lineage
  <2>1. ParentClosed(S \cap Ids)
    BY DEF ParentClosed
  <2>2. QED
    BY <2>1 DEF Lineage
<1>3. Lineage(g)' \subseteq Lineage(g)
  <2> SUFFICES ASSUME NEW h \in Lineage(g)' PROVE h \in Lineage(g)
    OBVIOUS
  <2>1. ASSUME NEW S \in SUBSET Ids, g \in S, ParentClosed(S) PROVE h \in S
    BY <1>1, <2>1 DEF Lineage
  <2>2. QED
    BY <2>1 DEF Lineage
<1>4. QED
  BY <1>2, <1>3

\* The active grants lead nowhere new except where the new grant leads: if they
\* formed no cycle and the grantee did not reach the grantor, there is none.
LEMMA StillAcyclic ==
    ASSUME NoActiveCycle, NEW n, n \notin Ids, Ids' = Ids \cup {n},
           \A g \in Ids : grants'[g] = grants[g],
           \A g \in Ids : Valid(g)' => Valid(g),
           ~Reachable(grants'[n].to, grants'[n].from)
    PROVE  NoActiveCycle'
<1> DEFINE from == grants'[n].from
           to == grants'[n].to
           Closed(S) == \A g \in ActiveGrants : grants[g].from \in S => grants[g].to \in S
           From(a) == {b \in Actors : \A S \in SUBSET Actors :
                                        a \in S /\ Closed(S) => b \in S}
<1>1. PICK T \in SUBSET Actors : to \in T /\ Closed(T) /\ from \notin T
  BY DEF Reachable
<1>2. \A g \in ActiveGrants' : g = n \/ g \in ActiveGrants
  BY DEF ActiveGrants
<1>3. ASSUME NEW S \in SUBSET Actors, Closed(S), from \in S => to \in S
      PROVE  \A g \in ActiveGrants' : grants'[g].from \in S => grants'[g].to \in S
  <2>1. \A g \in ActiveGrants : g \in Ids
    BY DEF ActiveGrants
  <2>2. QED
    BY <1>2, <1>3, <2>1
<1> SUFFICES ASSUME NEW g \in ActiveGrants'
             PROVE  ~Reachable(grants[g].to, grants[g].from)'
  BY DEF NoActiveCycle
<1>4. CASE g = n
  <2>1. /\ T \in SUBSET Actors
        /\ \A h \in ActiveGrants' : grants'[h].from \in T => grants'[h].to \in T
    BY <1>1, <1>3
  <2>2. QED
    BY <1>1, <1>4, <2>1 DEF Reachable
<1>5. CASE g \in ActiveGrants
  <2> DEFINE x == grants[g].from
             y == grants[g].to
  <2>1. grants'[g].from = x /\ grants'[g].to = y
    BY <1>5 DEF ActiveGrants
  <2>2. PICK S \in SUBSET Actors : y \in S /\ Closed(S) /\ x \notin S
    BY <1>5 DEF NoActiveCycle, Reachable
  <2>3. CASE from \notin S
    <3>1. \A h \in ActiveGrants' : grants'[h].from \in S => grants'[h].to \in S
      BY <1>3, <2>2, <2>3
    <3>2. QED
      BY <2>1, <2>2, <3>1 DEF Reachable
  <2>4. CASE y \in T
    \* Then y leads only into T, and not to x: x in T would lead to y and on.
    <3>1. Closed(S \cap T) /\ y \in S \cap T /\ from \notin S \cap T
      BY <1>1, <2>2, <2>4
    <3>2. \A h \in ActiveGrants' :
             grants'[h].from \in S \cap T => grants'[h].to \in S \cap T
      BY <1>3, <3>1
    <3>3. x \notin S \cap T
      BY <2>2
    <3>4. QED
      BY <2>1, <3>1, <3>2, <3>3 DEF Reachable
  <2>5. CASE y \notin T
    \* Then x is not in T either, and what y or the grantee reaches is closed.
    <3>1. x \notin T
      BY <1>1, <1>5, <2>5
    <3>2. Closed(S \cup T) /\ y \in S \cup T /\ to \in S \cup T
      BY <1>1, <2>2
    <3>3. \A h \in ActiveGrants' :
             grants'[h].from \in S \cup T => grants'[h].to \in S \cup T
      BY <1>3, <3>2
    <3>4. x \notin S \cup T
      BY <2>2, <3>1
    <3>5. QED
      BY <2>1, <3>2, <3>3, <3>4 DEF Reachable
  <2>6. QED
    BY <2>4, <2>5
<1>6. QED
  BY <1>2, <1>4, <1>5

LEMMA GrantStep ==
    ASSUME IInv, NEW from \in Actors, NEW to \in Actors,
           NEW c \in Capabilities, NEW depth \in Depths,
           NEW expires \in Expiries, Grant(from, to, c, depth, expires)
    PROVE  IInv' /\ \A g \in Ids : ~Valid(g) => ~Valid(g)'
<1>1. PICK n : n = Len(grants) + 1
  OBVIOUS
<1>2. /\ grants' \in Seq(GrantType)
      /\ Len(grants) \in Nat
      /\ Ids' = Ids \cup {n}
      /\ n \notin Ids
      /\ \A g \in Ids : grants'[g] = grants[g]
      /\ grants'[n].from = from /\ grants'[n].to = to
      /\ ~Reachable(to, from)
      /\ UNCHANGED <<now, intrinsic, revoked>>
      /\ Attached(n)'
      /\ grants'[n].parent \in Ids \cup {Root}
  BY <1>1, GrantFacts
<1>3. TypeOK'
  BY <1>2 DEF IInv, TypeOK
<1>4. ParentClosed(Ids)
  BY IdsClosed DEF IInv
<1>5. \A g \in Ids : Lineage(g)' = Lineage(g)
  BY <1>2, <1>4, OldLineages
<1>6. ParentsPrecede'
  BY <1>1, <1>2 DEF IInv, ParentsPrecede, Ids
<1>7. AllAttached'
  <2> SUFFICES ASSUME NEW g \in Ids, Attached(g) PROVE Attached(g)'
    BY <1>2 DEF IInv, AllAttached
  <2>1. \A a, d : IntrinsicHas(a, d)' <=> IntrinsicHas(a, d)
    BY <1>2 DEF IntrinsicHas
  <2>2. QED
    BY <1>2, <2>1, DelegationAssumption DEF Attached
<1>8. ParentClosed(Ids)'
  BY <1>3, <1>6, IdsClosed, PTL
<1>9. AllRooted'
  <2>1. \A g \in Ids : \E r \in Lineage(g)' : grants'[r].parent = Root
    <3>1. \A g \in Ids : Lineage(g) \subseteq Ids
      BY DEF Lineage
    <3>2. QED
      BY <1>2, <1>5, <3>1 DEF IInv, AllRooted
  <2>2. n \in Lineage(n)'
    BY <1>2 DEF Lineage
  <2>3. CASE grants'[n].parent \in Ids
    <3>0. PICK p \in Ids : p = grants'[n].parent
      BY <2>3
    <3>1. PICK r \in Lineage(p)' : grants'[r].parent = Root
      BY <2>1, <3>0
    <3>2. grants'[n].parent # Root
      BY <2>3, DelegationAssumption DEF Ids
    <3>3. ASSUME NEW S \in SUBSET Ids', n \in S, ParentClosed(S)'
          PROVE  r \in S
      <4>1. p \in S
        BY <3>0, <3>2, <3>3 DEF ParentClosed
      <4>2. QED
        BY <3>1, <3>3, <4>1 DEF Lineage
    <3>4. r \in Lineage(n)'
      BY <3>1, <3>3 DEF Lineage
    <3>5. QED
      BY <1>2, <2>1, <3>1, <3>4 DEF AllRooted
  <2>4. CASE grants'[n].parent = Root
    BY <1>2, <2>1, <2>2, <2>4 DEF AllRooted
  <2>5. QED
    BY <1>2, <2>3, <2>4
<1>10. \A g \in Ids : Valid(g)' => Valid(g)
  <2> SUFFICES ASSUME NEW g \in Ids, Valid(g)' PROVE Valid(g)
    OBVIOUS
  <2>1. \A h \in Lineage(g) : h \notin revoked' /\ ~Expired(h, now)'
    BY <1>5 DEF Valid, ValidAt
  <2>2. \A h \in Lineage(g) : h \in Ids
    BY DEF Lineage
  <2>3. \A h \in Lineage(g) : h \notin revoked /\ ~Expired(h, now)
    BY <1>2, <2>1, <2>2 DEF Expired
  <2>4. QED
    BY <2>3, ValidIsLive DEF IInv
<1>11. NoActiveCycle'
  BY <1>2, <1>10, StillAcyclic DEF IInv
<1>12. QED
  BY <1>3, <1>6, <1>7, <1>9, <1>10, <1>11 DEF IInv

\* Every step keeps the invariant and brings no dead grant back.
LEMMA NextIInv ==
    ASSUME IInv, [DelegationNext]_vars
    PROVE  IInv' /\ \A g \in Ids : ~Valid(g) => ~Valid(g)'
<1>1. CASE Tick
  BY <1>1, TickStep
<1>2. CASE \E a \in Actors : Register(a)
  BY <1>2, RegisterStep
<1>3. CASE \E from, to \in Actors, c \in Capabilities,
              depth \in Depths, expires \in Expiries :
                 Grant(from, to, c, depth, expires)
  BY <1>3, GrantStep
<1>4. CASE \E g \in Ids : Revoke(g)
  BY <1>4, RevokeStep
<1>5. CASE UNCHANGED vars
  BY <1>5, StutterStep
<1>6. QED
  BY <1>1, <1>2, <1>3, <1>4, <1>5 DEF DelegationNext

-----------------------------------------------------------------------------
(* The theorems.                                                            *)

THEOREM DelegationInvariant == DelegationSpec => []IInv
<1>1. DelegationInit => IInv
  BY InitIInv
<1>2. IInv /\ [DelegationNext]_vars => IInv'
  BY NextIInv
<1>3. QED
  BY <1>1, <1>2, PTL DEF DelegationSpec

\* Every variable of the graph keeps its type.
THEOREM TypeCorrect == DelegationSpec => []TypeOK
  BY DelegationInvariant, PTL DEF IInv

\* The cycle check of grant() keeps the active grants free of cycles.
THEOREM GrantsStayAcyclic == DelegationSpec => []NoActiveCycle
  BY DelegationInvariant, PTL DEF IInv

\* What revocation or expiry has killed stays dead, however many hops away.
THEOREM RevocationDominates == DelegationSpec => DeadStaysDead
<1>1. IInv /\ [DelegationNext]_vars =>
         [\A g \in Ids : ~Valid(g) => ~Valid(g)']_vars
  BY NextIInv
<1>2. QED
  BY <1>1, DelegationInvariant, PTL DEF DelegationSpec, DeadStaysDead

\* Along every chain capabilities only narrow and each hop spends depth.
THEOREM DelegationAttenuates == DelegationSpec => []ChainsAttenuate
<1>1. IInv => ChainsAttenuate
  BY ChainsNarrow DEF IInv, ChainsAttenuate
<1>2. QED
  BY <1>1, DelegationInvariant, PTL

\* Whoever may use a capability without holding it has a live chain, wide
\* enough all along, from an actor who holds it (GA1, GA3, T1).
THEOREM AuthorityHasRoots == DelegationSpec => []AuthorityIsGrounded
<1>1. IInv => AuthorityIsGrounded
  <2> SUFFICES ASSUME IInv, NEW a \in Actors, NEW c \in Capabilities,
                      NEW g \in Sources(a, c)
               PROVE  /\ \A h \in Lineage(g) :
                            /\ h \notin revoked /\ ~Expired(h, now)
                            /\ <<c, grants[h].capability>> \in Covered
                      /\ \E h \in Lineage(g) :
                            /\ grants[h].parent = Root
                            /\ IntrinsicHas(grants[h].from, c)
    BY DEF AuthorityIsGrounded, HasAuthority
  <2>1. /\ g \in Ids /\ Valid(g)
        /\ <<c, grants[g].capability>> \in Covered
    BY DEF Sources, SourcesAt, Valid
  <2>2. \A h \in Ids : grants[h].capability \in Capabilities /\ grants[h] \in GrantType
    <3>1. \A h \in Ids : grants[h] \in GrantType
      BY DEF IInv, TypeOK, Ids
    <3>2. QED
      BY <3>1 DEF GrantType
  <2>3. \A h \in Lineage(g) : h \in Ids
    BY DEF Lineage
  <2>4. \A h \in Lineage(g) : <<c, grants[h].capability>> \in Covered
    <3>1. \A h \in Lineage(g) :
             <<grants[g].capability, grants[h].capability>> \in Covered
      BY <2>1, ChainsNarrow DEF IInv
    <3>2. QED
      BY <2>1, <2>2, <2>3, <3>1, DelegationAssumption
  <2>5. \A h \in Lineage(g) : h \notin revoked /\ ~Expired(h, now)
    BY <2>1 DEF Valid, ValidAt
  <2>6. PICK r \in Lineage(g) : grants[r].parent = Root
    BY <2>1 DEF IInv, AllRooted
  <2>7. IntrinsicHas(grants[r].from, c)
    <3>1. IntrinsicHas(grants[r].from, grants[r].capability)
      BY <2>3, <2>6 DEF IInv, AllAttached, Attached
    <3>2. PICK d \in intrinsic[grants[r].from] :
             <<grants[r].capability, d>> \in Covered
      BY <3>1 DEF IntrinsicHas
    <3>3. d \in Capabilities
      <4>1. grants[r].from \in Actors
        BY <2>2, <2>3 DEF GrantType
      <4>2. QED
        BY <3>2, <4>1 DEF IInv, TypeOK
    <3>4. <<c, d>> \in Covered
      BY <2>2, <2>3, <2>4, <3>2, <3>3, DelegationAssumption
    <3>5. QED
      BY <3>2, <3>4 DEF IntrinsicHas
  <2>8. QED
    BY <2>4, <2>5, <2>6, <2>7
<1>2. QED
  BY <1>1, DelegationInvariant, PTL

\* A graph never writes a snapshot that from_snapshot would reject.
THEOREM GraphIsRestorable == DelegationSpec => []SnapshotRestorable
<1>1. IInv => SnapshotRestorable
  <2> SUFFICES ASSUME IInv PROVE Restorable
    BY DEF SnapshotRestorable
  <2>1. \A g \in Ids : grants[g] \in GrantType
    BY DEF IInv, TypeOK, Ids
  <2>2. \A g \in Ids : grants[g].depth >= 0
    BY <2>1 DEF GrantType
  <2>3. QED
    BY <2>2 DEF IInv, TypeOK, AllAttached, Lineage, Restorable
<1>2. QED
  BY <1>1, DelegationInvariant, PTL
-----------------------------------------------------------------------------
(* What a step may take away.                                               *)

\* No step changes a grant or its chain, and nobody loses intrinsic authority.
LEMMA ChainsStay ==
    ASSUME IInv, [DelegationNext]_vars
    PROVE  /\ Ids \subseteq Ids'
           /\ \A g \in Ids : grants'[g] = grants[g] /\ Lineage(g)' = Lineage(g)
           /\ \A a \in Actors, c \in Capabilities :
                 IntrinsicHas(a, c) => IntrinsicHas(a, c)'
<1> DEFINE Stays == /\ Ids \subseteq Ids'
                    /\ \A g \in Ids : grants'[g] = grants[g] /\ Lineage(g)' = Lineage(g)
<1>1. ASSUME UNCHANGED grants PROVE Stays
  BY <1>1 DEF Ids, ParentClosed, Lineage
<1>2. ASSUME UNCHANGED intrinsic
      PROVE  \A a, c : IntrinsicHas(a, c) => IntrinsicHas(a, c)'
  BY <1>2 DEF IntrinsicHas
<1>3. CASE Tick \/ (\E g \in Ids : Revoke(g)) \/ UNCHANGED vars
  <2>1. UNCHANGED grants /\ UNCHANGED intrinsic
    BY <1>3 DEF Tick, Revoke, vars
  <2> QED
    BY <1>1, <1>2, <2>1
<1>4. CASE \E a \in Actors : Register(a)
  <2>1. PICK b \in Actors : Register(b)
    BY <1>4
  <2>2. UNCHANGED grants /\ \A a \in Actors : intrinsic[a] \subseteq intrinsic'[a]
    BY <2>1 DEF Register, IInv, TypeOK
  <2>3. \A a \in Actors, c \in Capabilities : IntrinsicHas(a, c) => IntrinsicHas(a, c)'
    BY <2>2 DEF IntrinsicHas
  <2> QED
    BY <1>1, <2>2, <2>3
<1>5. ASSUME NEW from \in Actors, NEW to \in Actors, NEW c \in Capabilities,
             NEW depth \in Depths, NEW expires \in Expiries,
             Grant(from, to, c, depth, expires)
      PROVE  Stays /\ UNCHANGED intrinsic
  <2>1. PICK n : n = Len(grants) + 1
    OBVIOUS
  <2>2. /\ Ids' = Ids \cup {n}
        /\ n \notin Ids
        /\ \A g \in Ids : grants'[g] = grants[g]
        /\ UNCHANGED intrinsic
    BY <1>5, <2>1, GrantFacts
  <2>3. ParentClosed(Ids)
    BY IdsClosed DEF IInv
  <2>4. \A g \in Ids : Lineage(g)' = Lineage(g)
    BY <2>2, <2>3, OldLineages
  <2> QED
    BY <2>2, <2>4
<1> QED
  BY <1>2, <1>3, <1>4, <1>5 DEF DelegationNext

\* Authority is lost only to time, or to a revocation in each chain of it.
THEOREM LossesAreExplained == DelegationSpec => LossHasCause
<1>1. ASSUME IInv, IInv', [DelegationNext]_vars, NEW a \in Actors,
             NEW c \in Capabilities, HasAuthority(a, c), ~HasAuthority(a, c)', now' = now
      PROVE  /\ ~IntrinsicHas(a, c)
             /\ \A g \in Sources(a, c) : Lineage(g) \cap (revoked' \ revoked) # {}
  <2>1. /\ Ids \subseteq Ids'
        /\ \A g \in Ids : grants'[g] = grants[g] /\ Lineage(g)' = Lineage(g)
        /\ IntrinsicHas(a, c) => IntrinsicHas(a, c)'
    BY <1>1, ChainsStay
  <2>2. ~IntrinsicHas(a, c)
    BY <1>1, <2>1 DEF HasAuthority
  <2>3. ASSUME NEW g \in Sources(a, c), Lineage(g) \cap (revoked' \ revoked) = {}
        PROVE  FALSE
    <3>1. /\ g \in Ids /\ grants[g].to = a
          /\ <<c, grants[g].capability>> \in Covered
          /\ ValidAt(g, now)
      BY DEF Sources, SourcesAt
    <3>2. ASSUME NEW h \in Lineage(g)'
          PROVE  h \notin revoked' /\ ~Expired(h, now)' /\ Attached(h)'
      <4>1. h \in Lineage(g) /\ h \in Ids
        BY <2>1, <3>1, <3>2 DEF Lineage
      <4>2. h \notin revoked /\ ~Expired(h, now)
        BY <3>1, <4>1 DEF ValidAt
      <4>3. ~Expired(h, now)'
        BY <1>1, <2>1, <4>1, <4>2 DEF Expired
      <4>4. Attached(h)'
        BY <1>1, <2>1, <4>1 DEF IInv, AllAttached
      <4> QED
        BY <2>3, <4>1, <4>2, <4>3, <4>4
    <3>3. g \in Sources(a, c)'
      BY <2>1, <3>1, <3>2 DEF Sources, SourcesAt, ValidAt
    <3> QED
      BY <1>1, <3>3 DEF HasAuthority
  <2> QED
    BY <2>2, <2>3
<1>2. IInv /\ IInv' /\ [DelegationNext]_vars =>
        [\A a \in Actors, c \in Capabilities :
          (HasAuthority(a, c) /\ ~HasAuthority(a, c)') =>
              \/ now' # now
              \/ /\ ~IntrinsicHas(a, c)
                 /\ \A g \in Sources(a, c) : Lineage(g) \cap (revoked' \ revoked) # {}
        ]_vars
  BY <1>1
<1> QED
  BY <1>2, DelegationInvariant, PTL DEF DelegationSpec, LossHasCause
=============================================================================
