-------------------------------- MODULE Policy --------------------------------
(***************************************************************************)
(* Laws: how one rule judges an action (rule.py), how the rules of a scope   *)
(* and of the scope it inherits from are accepted (composition.py,           *)
(* compiler.py), and how an accepted policy decides.  The module has no      *)
(* state; Interceptor.tla puts a policy in front of operations.              *)
(*                                                                           *)
(* A rule is a record with the code's fields; its id is a number, because    *)
(* ids are only compared and sorted.  Predicates are the comparisons the     *)
(* parser builds, over the fields that hold numbers: the opaque callables a  *)
(* Python caller could pass, and comparisons with strings, are left out.     *)
(* The roles of a quorum are a set: rules that list the same roles in        *)
(* another order have different signatures in the code.                      *)
(*                                                                           *)
(* An action is [actor, capability, params], a context is                    *)
(* [budget_used, prior_approvals, now].                                      *)
(*                                                                           *)
(* A definition whose comment starts with `Mutated' is a likely bug in the   *)
(* one that follows it, for the properties to catch.                         *)
(***************************************************************************)
EXTENDS ApprovalRequest, Integers

CONSTANTS
    Actors,
    Capabilities,
    Covered,        \* <<c, d>> in Covered: c is d or descends from d
    LevelOf,        \* LevelOf[a]: authority_level
    ClassOf,        \* ClassOf[a]: cls
    Fields,         \* the names predicates may use
    HumanReviewer,  \* the role asked when a rule names none
    None            \* Python's None

ASSUME PolicyAssumption ==
    /\ Covered \subseteq Capabilities \X Capabilities
    /\ \A c \in Capabilities : <<c, c>> \in Covered
    /\ \A c, d, e \in Capabilities :
          <<c, d>> \in Covered /\ <<d, e>> \in Covered => <<c, e>> \in Covered
    /\ LevelOf \in [Actors -> Nat]
    /\ HumanReviewer \in Roles
    /\ None \notin Int \cup Roles \cup Quorums

Operators == {"<=", "<", ">=", ">", "==", "!="}
Dispositions == {"block", "escalate"}
Kinds == {"Allow", "Block", "Escalate"}

Predicates ==
    [field_name : Fields, operator : Operators, threshold : Int]

Rules ==
    [id : Nat, capability : Capabilities, min_authority : Nat,
     disposition : Dispositions,
     requires_approval : Roles \cup {None},
     approval_requirement : Quorums \cup {None},
     predicate : Predicates \cup {None},
     forbidden_classes : SUBSET {ClassOf[a] : a \in Actors},
     parent_id : Nat \cup {None}]

-----------------------------------------------------------------------------
(* One rule.                                                                *)

\* _field_value: what the action's parameters say comes first.
FieldValue(field, action, context) ==
    CASE field \in DOMAIN action.params      -> action.params[field]
      [] field = "budget_used"               -> context.budget_used
      [] field = "now"                       -> context.now
      [] field = "prior_approvals_count"     -> Cardinality(context.prior_approvals)
      [] field = "actor.authority_level"     -> LevelOf[action.actor]
      [] OTHER                               -> None

Compares(value, operator, threshold) ==
    \/ operator = "<=" /\ value <= threshold
    \/ operator = "<"  /\ value < threshold
    \/ operator = ">=" /\ value >= threshold
    \/ operator = ">"  /\ value > threshold
    \/ operator = "==" /\ value = threshold
    \/ operator = "!=" /\ value # threshold

\* _make_predicate: a field nobody supplies confirms nothing.
Permits(predicate, action, context) ==
    LET value == FieldValue(predicate.field_name, action, context)
    IN  value # None /\ Compares(value, predicate.operator, predicate.threshold)

\* Rule.applies_to.
Applies(rule, action) == <<action.capability, rule.capability>> \in Covered

\* The conditions of a rule that are not about approvals.
Meets(rule, action, context) ==
    /\ LevelOf[action.actor] >= rule.min_authority
    /\ ClassOf[action.actor] \notin rule.forbidden_classes
    /\ rule.predicate # None => Permits(rule.predicate, action, context)

\* Its condition on approvals: a quorum stands before a single role.
Approved(rule, context) ==
    IF rule.approval_requirement # None
    THEN Cardinality(rule.approval_requirement.roles \cap context.prior_approvals)
            >= rule.approval_requirement.threshold
    ELSE rule.requires_approval # None =>
            rule.requires_approval \in context.prior_approvals

\* Rule.evaluate of a rule that applies.
Satisfied(rule, action, context) ==
    Meets(rule, action, context) /\ Approved(rule, context)

-----------------------------------------------------------------------------
(* Inheritance.                                                             *)

\* Mutated: the bounds are compared the wrong way round.
PredicateLooser(parent, child) ==
    \/ parent = None
    \/ /\ child # None
       /\ child.field_name = parent.field_name
       /\ child.operator = parent.operator
       /\ \/ parent.operator \in {"<=", "<"} /\ child.threshold >= parent.threshold
          \/ parent.operator \in {">=", ">"} /\ child.threshold <= parent.threshold
          \/ parent.operator \in {"==", "!="} /\ child.threshold = parent.threshold

\* _predicate_is_at_least_as_restrictive.
PredicateTighter(parent, child) ==
    \/ parent = None
    \/ /\ child # None
       /\ child.field_name = parent.field_name
       /\ child.operator = parent.operator
       /\ \/ parent.operator \in {"<=", "<"} /\ child.threshold <= parent.threshold
          \/ parent.operator \in {">=", ">"} /\ child.threshold >= parent.threshold
          \/ parent.operator \in {"==", "!="} /\ child.threshold = parent.threshold

\* validate_inheritance.
Tightens(parent, child) ==
    /\ child.parent_id = parent.id
    /\ <<child.capability, parent.capability>> \in Covered
    /\ child.min_authority >= parent.min_authority
    /\ parent.forbidden_classes \subseteq child.forbidden_classes
    /\ parent.requires_approval # None => child.requires_approval # None
    /\ parent.approval_requirement # None =>
          /\ child.approval_requirement # None
          /\ child.approval_requirement.threshold >=
                parent.approval_requirement.threshold
          /\ parent.approval_requirement.roles \subseteq
                child.approval_requirement.roles
    /\ ~(parent.disposition = "block" /\ child.disposition = "escalate")
    /\ PredicateTighter(parent.predicate, child.predicate)

\* Mutated: only the parents that a child links to are inherited.
ComposedLinked(parents, children) ==
    {p \in parents : \E c \in children : c.parent_id = p.id} \cup children

\* inherit_rules: every parent is kept.
Composed(parents, children) == parents \cup children

Inherits(parents, children) ==
    \A c \in children :
        /\ \A p \in parents : p.id # c.id
        /\ c.parent_id # None =>
              \E p \in parents : p.id = c.parent_id /\ Tightens(p, c)

\* validate_inheritance_graph: links lead somewhere, tighten, and do not cycle.
LinksTighten(rules) ==
    \A c \in rules : c.parent_id # None =>
        \E p \in rules : p.id = c.parent_id /\ Tightens(p, c)

LinksAcyclic(rules) ==
    \A S \in SUBSET rules \ {{}} :
        \E c \in S : \A p \in S : p.id # c.parent_id

\* Rule.semantic_signature: everything but the id, the link and the disposition.
Signature(rule) ==
    <<rule.capability, rule.min_authority, rule.predicate, rule.forbidden_classes,
      rule.requires_approval, rule.approval_requirement>>

\* _validate_rules.
RulesValid(rules, roles) ==
    /\ \A r, s \in rules : r.id = s.id => r = s
    /\ \A r \in rules :
          /\ r.requires_approval # None => r.requires_approval \in roles
          /\ r.approval_requirement # None =>
                r.approval_requirement.roles \subseteq roles
    /\ \A r, s \in rules :
          Signature(r) = Signature(s) => r.disposition = s.disposition

\* compile_policy of the rules of a scope and of those it inherits, if any.
Compiles(parents, children, roles) ==
    LET rules == Composed(parents, children)
    IN  /\ parents # {} => Inherits(parents, children)
        /\ LinksTighten(rules)
        /\ LinksAcyclic(rules)
        /\ RulesValid(rules, roles)

-----------------------------------------------------------------------------
(* Decisions.                                                               *)

Applicable(rules, action) == {r \in rules : Applies(r, action)}

Violated(rules, action, context) ==
    {r \in Applicable(rules, action) : ~Satisfied(r, action, context)}

Blocking(rules, action, context) ==
    {r \in Violated(rules, action, context) : r.disposition = "block"}

\* The violated rule with the lowest id decides whom to ask.
First(rules) == CHOOSE r \in rules : \A s \in rules : r.id <= s.id

\* What an escalation by rule demands, as ApprovalManager.request takes it.
Demand(rule) ==
    IF rule.approval_requirement # None THEN rule.approval_requirement
    ELSE [roles |-> {IF rule.requires_approval # None THEN rule.requires_approval
                     ELSE HumanReviewer},
          threshold |-> 1]

Decision(kind, demand) == [kind |-> kind, demand |-> demand]

\* evaluate_rules.
Evaluate(rules, action, context, authorised) ==
    IF ~authorised \/ Blocking(rules, action, context) # {}
    THEN Decision("Block", None)
    ELSE IF Violated(rules, action, context) = {} THEN Decision("Allow", None)
    ELSE Decision("Escalate", Demand(First(Violated(rules, action, context))))

\* CompiledPolicy.evaluate: a default-deny policy blocks what no rule is about.
Decide(rules, default, action, context, authorised) ==
    LET decision == Evaluate(rules, action, context, authorised)
    IN  IF /\ decision.kind = "Allow"
           /\ Applicable(rules, action) = {}
           /\ default = "Block"
        THEN Decision("Block", None)
        ELSE decision

Severity(decision) ==
    CASE decision.kind = "Allow"    -> 0
      [] decision.kind = "Escalate" -> 1
      [] decision.kind = "Block"    -> 2
=============================================================================
