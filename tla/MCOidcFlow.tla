----------------------------- MODULE MCOidcFlow -----------------------------
(* Model values and symmetry for OidcFlow. *)
EXTENDS OidcFlow, TLC

CONSTANTS b1, b2, f1, f2, f3, s1, s2, r1, r2, p1, p2, u1, u2

Symmetry == Permutations(Browsers) \cup Permutations(Flows) \cup Permutations(Sessions)
              \cup Permutations(Reqs) \cup Permutations(Subjects) \cup Permutations(Users)
=============================================================================
