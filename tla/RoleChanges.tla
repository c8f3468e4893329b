---------------------------- MODULE RoleChanges ----------------------------
(***************************************************************************)
(* The roles of one account, changed by administrators, by the deletion of *)
(* the account and by the commands of manage.py, and the audit rows that   *)
(* explain the changes.                                                    *)
(*                                                                         *)
(* Each request is one READ COMMITTED transaction.  It reads the roles,    *)
(* computes what to revoke and to grant, deletes, inserts, and writes      *)
(* users.modified_at; PATCH and seed-admin write the users row first.  A   *)
(* row that was deleted or inserted stays locked until the transaction     *)
(* ends.  PostgreSQL aborts a transaction of a cycle of waiting ones.  One *)
(* statement takes its locks at once.                                      *)
(***************************************************************************)
EXTENDS FiniteSets

CONSTANTS
  Roles,     \* role codes that the table may hold
  Known,     \* those of the catalog
  SeedRole,  \* the role of seed-admin
  Reqs, NoReq

ASSUME RolesAssumption == Known \subseteq Roles /\ SeedRole \in Known /\ NoReq \notin Reqs

VARIABLES
  roles,     \* committed user_roles rows of the account
  deleted,   \* users.deleted_at is set
  lock,      \* the request that has updated the users row
  pc, kind,  \* per request
  want,      \* per request: the role set it was given or has computed
  revoke,    \* per request: the roles it found superfluous, or unknown
  grant,     \* per request: the roles it found missing
  gone,      \* per request: rows it has deleted
  new        \* per request: rows it has inserted

local == <<want, revoke, grant, gone, new>>
vars  == <<roles, deleted, lock, pc, kind, local>>

Kinds == {"put", "patch", "grant", "seed", "prune", "delete"}

-----------------------------------------------------------------------------
(* Requests. *)

Goto(r, l) == pc' = [pc EXCEPT ![r] = l]

End(r) ==
  /\ Goto(r, "idle")
  /\ kind' = [kind EXCEPT ![r] = "put"]
  /\ want' = [want EXCEPT ![r] = {}] /\ revoke' = [revoke EXCEPT ![r] = {}]
  /\ grant' = [grant EXCEPT ![r] = {}] /\ gone' = [gone EXCEPT ![r] = {}]
  /\ new' = [new EXCEPT ![r] = {}]
  /\ lock' = IF lock = r THEN NoReq ELSE lock

Begin(r, k, l, R) ==
  /\ pc[r] = "idle"
  /\ Goto(r, l)
  /\ kind' = [kind EXCEPT ![r] = k]
  /\ want' = [want EXCEPT ![r] = R]
  /\ UNCHANGED <<roles, deleted, lock, grant, gone, new>>

\* Fault: the role codes are not looked up in the catalog.
PutUnvalidated(r) ==
  /\ ~deleted
  /\ \E R \in SUBSET Roles : Begin(r, "put", "select", R)
  /\ UNCHANGED revoke

\* Fault: the users row is written first.
PutLocksFirst(r) ==
  /\ ~deleted
  /\ \E R \in SUBSET Known : Begin(r, "put", "first", R)
  /\ UNCHANGED revoke

\* AuthorizationUsecase.replace_user_roles.
Put(r) ==
  /\ ~deleted
  /\ \E R \in SUBSET Known : Begin(r, "put", "select", R)
  /\ UNCHANGED revoke

\* AdminUserUsecase.update_user with roles in its fields.
Patch(r) ==
  /\ ~deleted
  /\ \E R \in SUBSET Known : Begin(r, "patch", "first", R)
  /\ UNCHANGED revoke

\* authz-grant-role: get_user_role_codes comes before the replacement reads them again.
GrantRole(r) ==
  /\ ~deleted
  /\ \E c \in Known : Begin(r, "grant", "select", roles \cup {c})
  /\ UNCHANGED revoke

\* seed-admin for an account that exists: the account is updated,
SeedAdmin(r) ==
  /\ ~deleted
  /\ Begin(r, "seed", "first", {})
  /\ UNCHANGED revoke

\* authz-prune-unknown-role-assignments: the unknown rows are listed,
PruneUnknown(r) ==
  /\ Begin(r, "prune", "delete", {})
  /\ revoke' = [revoke EXCEPT ![r] = roles \ Known]

\* AdminUserUsecase.delete_user, AccountDeletionUsecase.delete_account.
DeleteAccount(r) ==
  /\ ~deleted
  /\ Begin(r, "delete", "delete", {})
  /\ UNCHANGED revoke

\* update_user: the UPDATE of PATCH and seed-admin.
UpdateFirst(r) ==
  /\ pc[r] = "first" /\ lock = NoReq
  /\ lock' = r
  /\ Goto(r, IF kind[r] = "seed" THEN "reread" ELSE "select")
  /\ UNCHANGED <<roles, deleted, kind, local>>

\* ... then its roles are read.
Reread(r) ==
  /\ pc[r] = "reread"
  /\ want' = [want EXCEPT ![r] = roles \cup {SeedRole}]
  /\ Goto(r, "select")
  /\ UNCHANGED <<roles, deleted, lock, kind, revoke, grant, gone, new>>

\* AuthorizationRepository.replace_user_roles: the roles are read and compared,
Select(r) ==
  /\ pc[r] = "select"
  /\ revoke' = [revoke EXCEPT ![r] = roles \ want[r]]
  /\ grant' = [grant EXCEPT ![r] = want[r] \ roles]
  /\ Goto(r, "delete")
  /\ UNCHANGED <<roles, deleted, lock, kind, want, gone, new>>

\* Fault: the replacement deletes what is not wanted, not what it has compared.
MatchedUnwanted(r) ==
  CASE kind[r] = "prune"  -> roles \ Known
    [] kind[r] = "delete" -> roles
    [] OTHER              -> roles \ want[r]

\* The rows that the DELETE of each kind matches, at its own moment.
Matched(r) ==
  CASE kind[r] = "prune"  -> roles \ Known
    [] kind[r] = "delete" -> roles
    [] OTHER              -> revoke[r] \cap roles

\* ... the superfluous ones are deleted, waiting for those who delete the same rows,
Delete(r) ==
  /\ pc[r] = "delete"
  /\ \A q \in Reqs \ {r} : gone[q] \cap Matched(r) = {}
  /\ gone' = [gone EXCEPT ![r] = Matched(r)]
  /\ Goto(r, CASE kind[r] = "prune" -> "commit" [] kind[r] = "delete" -> "update" [] OTHER -> "insert")
  /\ UNCHANGED <<roles, deleted, lock, kind, want, revoke, grant, new>>

\* Fault: a role that is there by now is passed over.
InsertMissing(r) ==
  /\ pc[r] = "insert"
  /\ \A q \in Reqs \ {r} : (gone[q] \cup new[q]) \cap grant[r] = {}
  /\ new' = [new EXCEPT ![r] = grant[r] \ roles] /\ Goto(r, "update")
  /\ UNCHANGED <<roles, deleted, lock, kind, want, revoke, grant, gone>>

\* ... the missing ones inserted, waiting for those who write the same keys; a role
\* that is there by now violates the unique index,
Insert(r) ==
  /\ pc[r] = "insert"
  /\ \A q \in Reqs \ {r} : (gone[q] \cup new[q]) \cap grant[r] = {}
  /\ IF grant[r] \cap roles # {} THEN End(r) /\ UNCHANGED <<roles, deleted>>
     ELSE /\ new' = [new EXCEPT ![r] = grant[r]] /\ Goto(r, "update")
          /\ UNCHANGED <<roles, deleted, lock, kind, want, revoke, grant, gone>>

\* Fault: a transaction waits for the lock that it holds.
UpdateNotReentrant(r) ==
  /\ pc[r] = "update"
  /\ IF kind[r] # "delete" /\ grant[r] \cup revoke[r] = {} THEN UNCHANGED lock
     ELSE lock = NoReq /\ lock' = r
  /\ Goto(r, "commit")
  /\ UNCHANGED <<roles, deleted, kind, local>>

\* ... and the users row is written, if anything changed.
Update(r) ==
  /\ pc[r] = "update"
  /\ IF kind[r] # "delete" /\ grant[r] \cup revoke[r] = {} THEN UNCHANGED lock
     ELSE lock \in {NoReq, r} /\ lock' = r
  /\ Goto(r, "commit")
  /\ UNCHANGED <<roles, deleted, kind, local>>

Commit(r) ==
  /\ pc[r] = "commit"
  /\ roles' = (roles \ gone[r]) \cup new[r]
  /\ deleted' = (deleted \/ kind[r] = "delete")
  /\ End(r)

\* A crash, a cancelled task or a database error: the transaction rolls back.
Abort(r) ==
  /\ pc[r] # "idle"
  /\ End(r)
  /\ UNCHANGED <<roles, deleted>>

\* The audit rows of a commit: ROLE_GRANTED and ROLE_REVOKED.
Granted(r) == grant[r]
Revoked(r) == IF kind[r] \in {"put", "patch", "prune"} THEN revoke[r] ELSE {}

-----------------------------------------------------------------------------
(* Waiting. *)

\* The requests that r waits for.
WaitsFor(r) ==
  CASE pc[r] \in {"first", "update"} -> {lock} \ {NoReq, r}
    [] pc[r] = "delete" -> {q \in Reqs \ {r} : gone[q] \cap Matched(r) # {}}
    [] pc[r] = "insert" -> {q \in Reqs \ {r} : (gone[q] \cup new[q]) \cap grant[r] # {}}
    [] OTHER -> {}

\* r and others wait for each other.
Deadlocked(r) ==
  \E S \in SUBSET Reqs :
    /\ r \in S /\ \A q \in S : WaitsFor(q) \cap S # {}
    /\ \E q \in S : r \in WaitsFor(q)

Init ==
  /\ roles \in SUBSET Roles /\ deleted = FALSE /\ lock = NoReq
  /\ pc = [r \in Reqs |-> "idle"] /\ kind = [r \in Reqs |-> "put"]
  /\ want = [r \in Reqs |-> {}] /\ revoke = want /\ grant = want /\ gone = want /\ new = want

Arrive(r) == Put(r) \/ Patch(r) \/ GrantRole(r) \/ SeedAdmin(r) \/ PruneUnknown(r) \/ DeleteAccount(r)

Step(r) == UpdateFirst(r) \/ Reread(r) \/ Select(r) \/ Delete(r) \/ Insert(r) \/ Update(r) \/ Commit(r)

Next == \E r \in Reqs : Arrive(r) \/ Step(r) \/ Abort(r)

Spec == Init /\ [][Next]_vars

\* Requests go on, locks are handed out in turn, and a deadlock ends with a victim.
FairSpec == Spec /\ \A r \in Reqs : SF_vars(Step(r) \/ (Deadlocked(r) /\ Abort(r)))

-----------------------------------------------------------------------------
(* Properties. *)

\* Every variable has its type; a request grants roles of the catalog only, besides
\* those that the account has.
TypeOK ==
  /\ roles \subseteq Roles /\ deleted \in BOOLEAN /\ lock \in Reqs \cup {NoReq}
  /\ pc \in [Reqs -> {"idle", "first", "reread", "select", "delete", "insert", "update", "commit"}]
  /\ kind \in [Reqs -> Kinds]
  /\ \A r \in Reqs : /\ want[r] \cup revoke[r] \cup gone[r] \subseteq Roles
                     /\ kind[r] \in {"put", "patch"} => grant[r] \subseteq Known
                     /\ new[r] \subseteq grant[r]

\* A ROLE_GRANTED row stands for a role that the account did not have and has now,
\* whatever was granted and revoked since the request read the roles.
GrantEvents == [][\A r \in Reqs : Commit(r) => Granted(r) \cap roles = {} /\ Granted(r) \subseteq roles']_vars

\* What a replacement by an administrator takes away has its ROLE_REVOKED row.  The
\* granting commands take, without one, a role that was granted while they ran; a prune
\* takes, without one, a role that such a command put back after the prune listed.
NoSilentLoss ==
  [][\A r \in Reqs : Commit(r) /\ kind[r] \in {"put", "patch"} => roles \ roles' \subseteq Revoked(r)]_vars

\* A deadlock over the users row is the work of a request that writes it first: all
\* others write it when they have every lock on user_roles that they need.
OneLockOrder ==
  \A r \in Reqs : Deadlocked(r) /\ pc[r] \in {"first", "update"} => kind[lock] \in {"patch", "seed"}

\* Every change of roles ends, with a victim of the deadlock detection if need be.
EveryChangeEnds == \A r \in Reqs : pc[r] # "idle" ~> pc[r] = "idle"
=============================================================================
