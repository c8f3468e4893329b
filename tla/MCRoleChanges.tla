--------------------------- MODULE MCRoleChanges ---------------------------
(* Instances of RoleChanges for TLC. *)
EXTENDS RoleChanges, TLC

CONSTANTS admin, editor, retired, r1, r2, r3
=============================================================================
