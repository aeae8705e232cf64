----------------------------- MODULE MCDelegation -----------------------------
(* A small instance of Delegation: an officer who carries the wide capability, *)
(* two agents who carry nothing, a capability with one descendant, depths up   *)
(* to two and grants that expire on the way.                                   *)
EXTENDS Delegation, TLC

CONSTANTS officer, agent1, agent2, pay, payRefund

MCCovered == {<<pay, pay>>, <<payRefund, payRefund>>, <<payRefund, pay>>}
MCHolds == (officer :> {pay}) @@ (agent1 :> {}) @@ (agent2 :> {})
MCExpiries == {1, Never}

MCSymmetry == Permutations({agent1, agent2})

=============================================================================
