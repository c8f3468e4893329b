----------------------------- MODULE MCAccounts -----------------------------
(* Instances of Accounts for TLC. *)
EXTENDS Accounts, TLC

CONSTANTS u1, u2, s1, s2, r1, r2, r3, e1, e2, p1, admin, i1

\* All of these are interchangeable: FirstUser and FirstEmail only name what is there
\* at the start, and no step tells them from the others.
Symmetry == Permutations(Reqs) \cup Permutations(Sessions)
            \cup Permutations(Users) \cup Permutations(Emails)
=============================================================================
