--------------------------- MODULE MCPolicyLifecycle ---------------------------
(* A small instance of PolicyLifecycle for TLC. *)
EXTENDS PolicyLifecycle, TLC

CONSTANTS v1, v2, v3, production, staging, ann, bob, release, security

\* The second version expires.
MCExpiresAt == [v \in Versions |-> IF v = v2 THEN 1 ELSE Never]

\* In production two people compete for a role and one of them has another.
MCBallots ==
    {[in |-> production, who |-> ann, role |-> release],
     [in |-> production, who |-> bob, role |-> release],
     [in |-> production, who |-> bob, role |-> security],
     [in |-> staging, who |-> ann, role |-> release],
     [in |-> staging, who |-> bob, role |-> security]}
=============================================================================
