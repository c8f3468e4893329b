--------------------------- MODULE MCRateLimiter ---------------------------
(* Instances of RateLimiter for TLC. *)
EXTENDS RateLimiter

CONSTANTS r1, r2, r3, a1, a2, a3, e1, e2

\* Requests, addresses and emails are interchangeable.
Symmetry == Permutations(Reqs) \cup Permutations(IPs) \cup Permutations(Emails)
=============================================================================
