---------------------------- MODULE MCInterceptor ----------------------------
(* A small instance of Interceptor: an officer who carries paying, an agent    *)
(* who carries reading and may be granted refunds; one gate and one probe on   *)
(* one trace; scopes with a limit, with laws that ask for approval, with       *)
(* children that are stricter or looser than their parents in each comparison, *)
(* and with a blocking law between escalating ones in the order of ids.        *)
EXTENDS Interceptor, TLC

CONSTANTS officer, agent, pay, refund, read, lead, security, human,
          gate, probe, trace, k1

MCCovered == {<<c, c>> : c \in {pay, refund, read}} \cup {<<refund, pay>>}
MCHolds == (officer :> {pay}) @@ (agent :> {read})
MCLevelOf == (officer :> 2) @@ (agent :> 1)
MCClassOf == (officer :> "human") @@ (agent :> "agent")
MCExpiries == {1, Never}
MCTraceOf == [a \in Adapters |-> trace]

Act(actor, capability, amount) ==
    [actor |-> actor, capability |-> capability, params |-> ("amount" :> amount)]
MCActions ==
    {Act(agent, refund, 3), Act(officer, pay, 5),
     [actor |-> agent, capability |-> read, params |-> <<>>]}
MCPriors == {{}}

Amount(operator, threshold) ==
    [field_name |-> "amount", operator |-> operator, threshold |-> threshold]

Law(id, capability, disposition) ==
    [id |-> id, capability |-> capability, min_authority |-> 0,
     disposition |-> disposition, requires_approval |-> None,
     approval_requirement |-> None, predicate |-> None,
     forbidden_classes |-> {}, parent_id |-> None]

Parent(id, amount) == [Law(id, pay, "block") EXCEPT !.predicate = amount]
Child(id, amount) == [Law(id + 10, refund, "block") EXCEPT !.predicate = amount,
                                                         !.parent_id = id]
Limit == Parent(2, Amount("<=", 4))
Ask(id, role) == [Law(id, pay, "escalate") EXCEPT !.requires_approval = role]
AskTwo == [Law(2, refund, "escalate") EXCEPT
              !.approval_requirement = [roles |-> {lead, security}, threshold |-> 2]]

Scope(parents, children, default) ==
    [parents |-> parents, children |-> children, default |-> default]

\* For each comparison, the bounds of a parent and of a child that tightens it:
\* a refund of 3 meets them all, and a payment of 5 only some.
Tight ==
    {<<1, "<=", 4, 3>>, <<2, "<", 5, 4>>, <<3, ">=", 2, 3>>, <<4, ">", 1, 2>>,
     <<5, "==", 3, 3>>, <<6, "!=", 5, 5>>}

\* And of a child that does not: a refund of 3 meets the child's and not the
\* parent's, so no policy of these may compile.
Loose ==
    {<<1, "<=", 2, 5>>, <<2, "<", 3, 5>>, <<3, ">=", 4, 2>>, <<4, ">", 3, 2>>,
     <<5, "==", 2, 3>>, <<6, "!=", 3, 2>>}

Bounding(bounds) ==
    Scope({Parent(b[1], Amount(b[2], b[3])) : b \in bounds},
          {Child(b[1], Amount(b[2], b[4])) : b \in bounds}, "Allow")

MCScopes ==
    {Bounding(Tight), Scope({Limit}, {Ask(1, lead), Ask(3, security)}, "Allow"),
     Scope({}, {AskTwo}, "Block")}
    \cup {Bounding({b}) : b \in Loose}

=============================================================================
