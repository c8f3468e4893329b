-------------------------- MODULE MCProviderCache --------------------------
(* Instances of ProviderCache for TLC. *)
EXTENDS ProviderCache, TLC

CONSTANTS c1, c2

\* Calls are interchangeable.
Symmetry == Permutations(Calls)
=============================================================================
