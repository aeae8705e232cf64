------------------------------ MODULE MCApproval ------------------------------
(* A small instance of Approval: two requests, a two-of-three quorum and a     *)
(* single-role one, two reviewers of whom each holds two roles, two governance *)
(* states that alternate, and a clock that passes every deadline.              *)
EXTENDS Approval, TLC

CONSTANTS release, security, finance, ann, bob

MCQuorums ==
    {[roles |-> {release, security, finance}, threshold |-> 2],
     [roles |-> {security}, threshold |-> 1]}

\* Ann's identity outlives every deadline, Bob's expires on the way.
MCRolesOf == (ann :> {release, security}) @@ (bob :> {security, finance})
MCValidUntil == (ann :> 9) @@ (bob :> 2)

MCSymmetry == Permutations(Subjects) \cup Permutations(Governance)
=============================================================================
