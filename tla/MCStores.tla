------------------------------- MODULE MCStores -------------------------------
(* A small instance of Stores. *)
EXTENDS Stores, TLC

CONSTANTS strict, lax, s1, s2, s3

\* Two sources of one content and one of the other.
MCMeaning == (s1 :> strict) @@ (s2 :> strict) @@ (s3 :> lax)

MCSymmetry == Permutations(Policies)
=============================================================================
