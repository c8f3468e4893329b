---------------------------- MODULE MCCsrfTabs ----------------------------
(* Instances of CsrfTabs for TLC. *)
EXTENDS CsrfTabs

CONSTANTS r1, r2, t1, t2
=============================================================================
