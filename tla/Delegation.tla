------------------------------ MODULE Delegation ------------------------------
(***************************************************************************)
(* DelegationGraph (governance/delegation.py): bounded, expiring, revocable  *)
(* grants whose validity is recomputed on every check.                       *)
(*                                                                           *)
(* A grant is named by its number in the order of creation (G-0001, ...), so *)
(* grants is a sequence and `_next_id' is Len(grants) + 1.  `now' is the     *)
(* clock every caller passes.  A requested capability wider than its scope   *)
(* only ever refuses the grant, so the model grants scopes.                  *)
(*                                                                           *)
(* _valid_grant recurses along the parents.  Here the chain it visits is the *)
(* set Lineage(g): the least set holding g that is closed under parents.     *)
(*                                                                           *)
(* A definition whose comment starts with `Mutated' is a likely bug in the   *)
(* one that follows it, for the properties to catch; no action uses it.      *)
(***************************************************************************)
EXTENDS Naturals, Sequences, FiniteSets

CONSTANTS
    Actors,
    Capabilities,
    Covered,      \* <<c, d>> in Covered: c is d or descends from d
    Holds,        \* Holds[a]: the capabilities an Actor object of a carries
    Depths,       \* the depths grants are asked for
    Expiries,     \* the deadlines grants are asked for
    Never,        \* expires_at=None
    Root,         \* parent_grant_id=None
    MaxTime,      \* bound on the clock
    MaxGrants     \* bound on the grants made

ASSUME DelegationAssumption ==
    /\ Covered \subseteq Capabilities \X Capabilities
    /\ \A c \in Capabilities : <<c, c>> \in Covered
    /\ \A c, d, e \in Capabilities :
          <<c, d>> \in Covered /\ <<d, e>> \in Covered => <<c, e>> \in Covered
    /\ Holds \in [Actors -> SUBSET Capabilities]
    /\ Depths \subseteq Nat
    /\ Never \notin Nat
    /\ Expiries \subseteq Nat \cup {Never}
    /\ Root \notin Nat
    /\ MaxTime \in Nat
    /\ MaxGrants \in Nat

VARIABLES
    now,
    intrinsic,   \* _intrinsic
    grants,      \* _grants, in the order of their ids
    revoked      \* _revoked

vars == <<now, intrinsic, grants, revoked>>

Ids == 1..Len(grants)

\* _intrinsic_has.
IntrinsicHas(a, c) == \E d \in intrinsic[a] : <<c, d>> \in Covered

-----------------------------------------------------------------------------
(* Validity.                                                                *)

ParentClosed(S) ==
    \A h \in S : grants[h].parent # Root => grants[h].parent \in S

\* The grants _valid_grant visits and _grant_path lists, from g to its root.
Lineage(g) ==
    {h \in Ids : \A S \in SUBSET Ids : g \in S /\ ParentClosed(S) => h \in S}

Expired(g, t) == grants[g].expires # Never /\ t >= grants[g].expires

\* A grant hangs from its parent: same actor, no wider, and shallower.
Attached(g) ==
    LET p == grants[g].parent
    IN  IF p = Root
        THEN IntrinsicHas(grants[g].from, grants[g].capability)
        ELSE /\ p \in Ids
             /\ grants[p].to = grants[g].from
             /\ <<grants[g].capability, grants[p].capability>> \in Covered
             /\ grants[g].depth + 1 <= grants[p].depth

\* _valid_grant, at the time the caller passes.
ValidAt(g, t) ==
    \A h \in Lineage(g) : h \notin revoked /\ ~Expired(h, t) /\ Attached(h)
Valid(g) == ValidAt(g, now)

\* Mutated: a grant covers what is wider than it.
SourcesReversed(a, c) ==
    {g \in Ids : /\ grants[g].to = a
                 /\ <<grants[g].capability, c>> \in Covered
                 /\ Valid(g)}

\* The valid grants that give a the capability c.
SourcesAt(a, c, t) ==
    {g \in Ids : /\ grants[g].to = a
                 /\ <<c, grants[g].capability>> \in Covered
                 /\ ValidAt(g, t)}
Sources(a, c) == SourcesAt(a, c, now)

\* authority_proof for an actor named by its id.
HasAuthorityAt(a, c, t) == IntrinsicHas(a, c) \/ SourcesAt(a, c, t) # {}
HasAuthority(a, c) == IntrinsicHas(a, c) \/ Sources(a, c) # {}

\* _source_grant: the lowest id among the grants a may delegate c from.
SourceGrants(a, c) == {g \in Sources(a, c) : grants[g].depth > 0}
SourceGrant(a, c) ==
    CHOOSE g \in SourceGrants(a, c) : \A h \in SourceGrants(a, c) : g <= h

\* _actor_reachable: b is in every set of actors that holds a and that the
\* active grants do not lead out of.
ActiveGrants == {g \in Ids : Valid(g)}
Reachable(a, b) ==
    LET active == ActiveGrants
    IN  \A S \in SUBSET Actors :
            (/\ a \in S
             /\ \A g \in active : grants[g].from \in S => grants[g].to \in S)
                => b \in S

-----------------------------------------------------------------------------
(* Operations.                                                              *)

DelegationInit ==
    /\ now = 0
    /\ intrinsic = [a \in Actors |-> {}]
    /\ grants = <<>>
    /\ revoked = {}

Tick ==
    /\ now < MaxTime
    /\ now' = now + 1
    /\ UNCHANGED <<intrinsic, grants, revoked>>

\* Mutated: registering an actor forgets the others.
RegisterAlone(a) ==
    /\ intrinsic' = [b \in Actors |-> IF b = a THEN Holds[a] ELSE {}]
    /\ UNCHANGED <<now, grants, revoked>>

\* register_intrinsic, for the capabilities the actor carries; grant() does the
\* same for a grantor passed as an Actor, also when it then refuses the grant.
Register(a) ==
    /\ intrinsic' = [intrinsic EXCEPT ![a] = @ \cup Holds[a]]
    /\ UNCHANGED <<now, grants, revoked>>

\* Mutated: a child may be as deep as its parent.
MayGrantAsDeep(from, to, c, depth) ==
    /\ ~Reachable(to, from)
    /\ ~IntrinsicHas(from, c) =>
          /\ SourceGrants(from, c) # {}
          /\ depth <= grants[SourceGrant(from, c)].depth

\* Mutated: no check for cycles.
MayGrantBack(from, to, c, depth) ==
    ~IntrinsicHas(from, c) =>
        /\ SourceGrants(from, c) # {}
        /\ depth + 1 <= grants[SourceGrant(from, c)].depth

\* The checks of grant() once the parent is known.
MayGrant(from, to, c, depth) ==
    /\ ~Reachable(to, from)
    /\ ~IntrinsicHas(from, c) =>
          /\ SourceGrants(from, c) # {}
          /\ depth + 1 <= grants[SourceGrant(from, c)].depth

\* grant() that succeeds.
Grant(from, to, c, depth, expires) ==
    /\ Len(grants) < MaxGrants
    /\ MayGrant(from, to, c, depth)
    /\ expires # Never => expires > now
    /\ grants' = Append(grants,
          [from |-> from, to |-> to, capability |-> c, depth |-> depth,
           expires |-> expires,
           parent |-> IF IntrinsicHas(from, c) THEN Root
                      ELSE SourceGrant(from, c)])
    /\ UNCHANGED <<now, intrinsic, revoked>>

\* Mutated: the last revocation is the only one.
RevokeOnly(g) ==
    /\ revoked' = {g}
    /\ UNCHANGED <<now, intrinsic, grants>>

\* Mutated: the grant after the one that was meant.
RevokeNext(g) ==
    /\ revoked' = revoked \cup {g + 1}
    /\ UNCHANGED <<now, intrinsic, grants>>

\* revoke() marks one grant; what hangs from it dies on the next check.
Revoke(g) ==
    /\ revoked' = revoked \cup {g}
    /\ UNCHANGED <<now, intrinsic, grants>>

\* What from_snapshot accepts: known revocations, and chains that end in
\* intrinsic authority and would be valid had nothing been revoked or expired.
Restorable ==
    /\ revoked \subseteq Ids
    /\ \A g \in Ids :
          /\ grants[g].depth >= 0
          /\ \A h \in Lineage(g) : Attached(h)

DelegationNext ==
    \/ Tick
    \/ \E a \in Actors : Register(a)
    \/ \E from, to \in Actors, c \in Capabilities,
          depth \in Depths, expires \in Expiries :
             Grant(from, to, c, depth, expires)
    \/ \E g \in Ids : Revoke(g)

DelegationSpec == DelegationInit /\ [][DelegationNext]_vars

-----------------------------------------------------------------------------
(* Properties.                                                              *)

GrantType ==
    [from : Actors, to : Actors, capability : Capabilities, depth : Nat,
     expires : Nat \cup {Never}, parent : Nat \cup {Root}]

\* Every variable has its type.
TypeOK ==
    /\ now \in Nat
    /\ intrinsic \in [Actors -> SUBSET Capabilities]
    /\ grants \in Seq(GrantType)
    /\ revoked \subseteq Ids

\* GA1, GA3 (grounded delegation): whoever may exercise c without holding it
\* has a chain of grants all of which are live and wide enough for c, and which
\* starts at an actor who does hold c.
AuthorityIsGrounded ==
    \A a \in Actors, c \in Capabilities :
        (HasAuthority(a, c) /\ ~IntrinsicHas(a, c)) =>
            \E g \in Sources(a, c) :
                /\ \A h \in Lineage(g) :
                      /\ h \notin revoked /\ ~Expired(h, now)
                      /\ <<c, grants[h].capability>> \in Covered
                /\ \E h \in Lineage(g) :
                      /\ grants[h].parent = Root
                      /\ IntrinsicHas(grants[h].from, c)

\* A grant's capability never exceeds that of any grant it descends from, not
\* just its parent's, and every hop spends depth: a chain below a grant of
\* depth d has at most d links.
ChainsAttenuate ==
    \A g \in Ids : \A h \in Lineage(g) :
        /\ <<grants[g].capability, grants[h].capability>> \in Covered
        /\ grants[g].depth + Cardinality(Lineage(g) \ Lineage(h)) <=
              grants[h].depth

\* The cycle check of grant() is enough: active grants never form a cycle of
\* actors, not even one closed while some of the others were inactive.
NoActiveCycle ==
    \A g \in ActiveGrants : ~Reachable(grants[g].to, grants[g].from)

\* GA4, T2: a grant that is not valid, because it or an ancestor was revoked or
\* expired, never becomes valid again by later grants, revocations,
\* registrations or the passing of time.
DeadStaysDead ==
    [][\A g \in Ids : ~Valid(g) => ~Valid(g)']_vars

\* Delegation is additive and revocation local: authority over c is lost only
\* when time passes or a grant in every chain that supported it is revoked.
LossHasCause ==
    [][\A a \in Actors, c \in Capabilities :
          (HasAuthority(a, c) /\ ~HasAuthority(a, c)') =>
              \/ now' # now
              \/ /\ ~IntrinsicHas(a, c)
                 /\ \A g \in Sources(a, c) : Lineage(g) \cap (revoked' \ revoked) # {}
      ]_vars

\* from_snapshot accepts every graph the operations lead to: a restart never
\* finds grants that hang in the air.
SnapshotRestorable == Restorable
=============================================================================
