------------------------- MODULE MCSessionLifetime -------------------------
(* Instances of SessionLifetime with its audit for TLC. *)
EXTENDS ReplayAudit

CONSTANTS r1, r2, r3, a1, a2, a3

\* Requests are interchangeable, and so are addresses.
Symmetry == Permutations(Reqs) \cup Permutations(Addresses)
=============================================================================
