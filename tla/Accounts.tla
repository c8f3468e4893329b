------------------------------ MODULE Accounts ------------------------------
(***************************************************************************)
(* Accounts, their sessions and the rows they own, under concurrent        *)
(* requests.                                                               *)
(*                                                                         *)
(* Each request is a process whose steps are the SQL statements that other *)
(* requests can observe or block: AuthUsecase (register, login,            *)
(* authenticate_session, logout), the login half of OAuthOidcUsecase,      *)
(* AccountDeletionUsecase, AdminUserUsecase, AuthorizationUsecase's role   *)
(* replacement and SampleItemUsecase's create_item.                        *)
(*                                                                         *)
(* The database runs READ COMMITTED.  A statement reads the committed rows *)
(* of its own moment; what a transaction writes stays in the request's     *)
(* local variables (toRevoke, drop, add, patch) until its commit step; an  *)
(* UPDATE of a users row takes that row's lock (lock[u]) and holds it      *)
(* until commit or rollback.  Reads take no lock.                          *)
(*                                                                         *)
(* Time is abstracted: a session may be found expired at any lookup, which *)
(* the model shows as a request that takes no step.  SessionLifetime has   *)
(* the clock.  Rate limits and failed attempts write no row of this model. *)
(***************************************************************************)
EXTENDS Naturals, FiniteSets

CONSTANTS
  Users,      \* ids of users rows (a pool: the bound on accounts)
  Sessions,   \* ids of auth_sessions rows (a pool: the bound on logins)
  Reqs,       \* concurrent requests
  Emails,     \* normalized addresses
  Subjects,   \* (provider_id, provider_subject) pairs
  Roles,      \* role codes of the catalog
  Items,      \* ids of sample_items rows
  FirstUser,  \* the account that exists at the start
  FirstEmail,
  NoUser, NoSession, NoReq, NoEmail, NoSubject,
  MaxPwd      \* bound on password versions; version 0 is password_hash NULL

ASSUME AccountsAssumption ==
  /\ MaxPwd \in Nat \ {0}
  /\ FirstUser \in Users /\ FirstEmail \in Emails
  /\ NoUser \notin Users /\ NoSession \notin Sessions /\ NoReq \notin Reqs
  /\ NoEmail \notin Emails /\ NoSubject \notin Subjects

VARIABLES
  users,      \* committed users rows
  sessions,   \* committed auth_sessions rows; user = NoUser: no such row yet
  revoked,    \* sessions whose revoked_at is set
  owned,      \* committed rows of user_roles, auth_identities, sample_items
  marks,      \* per user: number of USER_MARKED_DELETED audit rows
  lock,       \* per users row: the request whose transaction updated it
  pc,         \* per request: the next statement
  target,     \* per request: the account it acts for or on
  cookie,     \* per request: the session named by its cookie
  basis,      \* per request: password version that the login verified
  mail,       \* per request: email of the account it will create or has loaded
  subject,    \* per request: OIDC subject it logs in with
  patch,      \* per request: the columns that a PATCH writes
  toRevoke,   \* per request: session rows its UPDATE matched
  drop, add,  \* per request: owned rows its transaction deletes / inserts
  dead        \* history: accounts already deleted when the request began

dbVars  == <<users, sessions, revoked, owned, marks>>
bound   == <<target, cookie, basis, mail, subject, dead>>
pending == <<patch, toRevoke, drop, add>>
vars    == <<dbVars, lock, pc, bound, pending>>

-----------------------------------------------------------------------------
(* Rows. *)

\* users: deleted_at NULL / set is "present" / "deleted"; "absent" ids have no
\* row yet.
User == [state : {"absent", "present", "deleted"}, active : BOOLEAN,
         email : Emails, pwd : 0..MaxPwd]

\* auth_sessions.  via and pwd are history: how the session was issued and
\* under which password version.
Session == [user : Users \cup {NoUser}, via : {"login", "register", "oidc"},
            pwd : 0..MaxPwd]

NoRow == [user |-> NoUser, via |-> "login", pwd |-> 0]

\* Rows that reference users.id and that account deletion must clean up.
OwnedRow == [table : {"sample_items"}, owner : Users, key : Items]
       \cup [table : {"user_roles"}, owner : Users, key : Roles]
       \cup [table : {"auth_identities"}, owner : Users, key : Subjects]

RoleRow(u, c)     == [table |-> "user_roles", owner |-> u, key |-> c]
IdentityRow(u, p) == [table |-> "auth_identities", owner |-> u, key |-> p]
ItemRow(u, i)     == [table |-> "sample_items", owner |-> u, key |-> i]

RowsOf(u, t) == {x \in owned : x.owner = u /\ x.table = t}

\* The body of a PATCH; FALSE, "keep" and NoEmail: not in fields_set.
PatchBody == [pwd : BOOLEAN, active : {"keep", "on", "off"}, email : Emails \cup {NoEmail}]

\* The columns that its transaction writes, and whether it revokes the sessions.
Patch == {p \in [pwd : BOOLEAN, active : {"keep", "on", "off"},
                 email : Emails \cup {NoEmail}, ends : BOOLEAN] :
            p.pwd \/ p.active = "off" => p.ends}
NoPatch == [pwd |-> FALSE, active |-> "keep", email |-> NoEmail, ends |-> FALSE]

Deleted(u) == users[u].state = "deleted"

\* find_user_by_email / find_user_by_email_for_oidc_collision.
WithEmail(e) == {u \in Users : users[u].state = "present" /\ users[u].email = e}

\* No other transaction has written e: an INSERT or UPDATE of a unique key waits
\* until the transaction that wrote the same key has ended.
EmailFree(r, e) == \A r2 \in Reqs \ {r} : patch[r2].email # e

\* revoke_sessions_for_user: UPDATE ... WHERE user_id = u AND revoked_at IS NULL.
LiveSessionsOf(u) == {s \in Sessions : sessions[s].user = u /\ s \notin revoked}

Unused(s) == sessions[s].user = NoUser

NewSession(u, via, p) == [user |-> u, via |-> via, pwd |-> p]

-----------------------------------------------------------------------------
(* Request bookkeeping. *)

Idle(r) == pc[r] = "idle"
At(r, l) == pc[r] = l
Goto(r, l) == pc' = [pc EXCEPT ![r] = l]

\* The request ends: locals are forgotten, its row lock (if any) is released.
End(r) ==
  /\ pc' = [pc EXCEPT ![r] = "idle"]
  /\ target' = [target EXCEPT ![r] = NoUser]
  /\ cookie' = [cookie EXCEPT ![r] = NoSession]
  /\ basis' = [basis EXCEPT ![r] = 0]
  /\ mail' = [mail EXCEPT ![r] = NoEmail]
  /\ subject' = [subject EXCEPT ![r] = NoSubject]
  /\ dead' = [dead EXCEPT ![r] = {}]
  /\ patch' = [patch EXCEPT ![r] = NoPatch]
  /\ toRevoke' = [toRevoke EXCEPT ![r] = {}]
  /\ drop' = [drop EXCEPT ![r] = {}]
  /\ add' = [add EXCEPT ![r] = {}]
  /\ lock' = [u \in Users |-> IF lock[u] = r THEN NoReq ELSE lock[u]]

\* A request begins with its first read, bound to account u and cookie s.
Begin(r, l, u, s, p, e, q) ==
  /\ Idle(r)
  /\ pc' = [pc EXCEPT ![r] = l]
  /\ target' = [target EXCEPT ![r] = u]
  /\ cookie' = [cookie EXCEPT ![r] = s]
  /\ basis' = [basis EXCEPT ![r] = p]
  /\ mail' = [mail EXCEPT ![r] = e]
  /\ subject' = [subject EXCEPT ![r] = q]
  /\ dead' = [dead EXCEPT ![r] = {u2 \in Users : Deleted(u2)}]
  /\ UNCHANGED <<dbVars, lock, pending>>

\* UPDATE users ... WHERE id = target: waits for the row lock, then holds it.
TakeLock(r) ==
  /\ lock[target[r]] = NoReq
  /\ lock' = [lock EXCEPT ![target[r]] = r]

\* replace_auth_session: the cookie's session, if still active, is revoked and
\* a fresh row n is inserted.
ReplaceSession(r, u, n, via) ==
  /\ Unused(n)
  /\ sessions' = [sessions EXCEPT ![n] = NewSession(u, via, basis[r])]
  /\ revoked' = revoked \cup ({cookie[r]} \cap Sessions)

-----------------------------------------------------------------------------
(* Password login: AuthUsecase.login. *)

\* find_user_by_email, then the hash check against the row just read.
LoginVerify(r, u, s) ==
  /\ users[u].state = "present" /\ users[u].active /\ users[u].pwd # 0
  /\ Begin(r, "login_verified", u, s, users[u].pwd, NoEmail, NoSubject)

\* record_user_login: session.get(User) reads the row in the new transaction.
LoginLoad(r) ==
  /\ At(r, "login_verified")
  /\ IF Deleted(target[r])
     THEN End(r) /\ UNCHANGED dbVars
     ELSE Goto(r, "login_loaded") /\ UNCHANGED <<dbVars, lock, bound, pending>>

\* record_user_login: flush of last_logged_in_at.
LoginUpdate(r) ==
  /\ At(r, "login_loaded")
  /\ TakeLock(r)
  /\ Goto(r, "login_locked")
  /\ UNCHANGED <<dbVars, bound, pending>>

LoginCommit(r, n) ==
  /\ At(r, "login_locked")
  /\ ReplaceSession(r, target[r], n, "login")
  /\ End(r)
  /\ UNCHANGED <<users, owned, marks>>

-----------------------------------------------------------------------------
(* Registration: AuthUsecase.register. *)

RegisterCheck(r, e, s) ==
  /\ WithEmail(e) = {}
  /\ Begin(r, "register_checked", NoUser, s, 1, e, NoSubject)

\* Fault: no unique index, only the check before the transaction.
RegisterCommitNoIndex(r, u, n) ==
  /\ At(r, "register_checked")
  /\ users[u].state = "absent"
  /\ End(r)
  /\ UNCHANGED <<owned, marks>>
  /\ users' = [users EXCEPT ![u] = [state |-> "present", active |-> TRUE,
                                    email |-> mail[r], pwd |-> basis[r]]]
  /\ ReplaceSession(r, u, n, "register")

\* The inserted row is invisible until commit, and the partial unique index on
\* lower(email) makes the second of two inserts fail: EmailAlreadyRegistered.
RegisterCommit(r, u, n) ==
  /\ At(r, "register_checked")
  /\ users[u].state = "absent"
  /\ EmailFree(r, mail[r])
  /\ End(r)
  /\ UNCHANGED <<owned, marks>>
  /\ \/ /\ WithEmail(mail[r]) # {}
        /\ UNCHANGED <<users, sessions, revoked>>
     \/ /\ WithEmail(mail[r]) = {}
        /\ users' = [users EXCEPT ![u] = [state |-> "present", active |-> TRUE,
                                          email |-> mail[r], pwd |-> basis[r]]]
        /\ ReplaceSession(r, u, n, "register")

-----------------------------------------------------------------------------
(* OIDC login: OAuthOidcUsecase._complete_login_callback, one transaction.   *)
(* The provider has vouched for subject p and for the verified email e.      *)

\* find_identity_by_provider_subject, then the owner's row.
OidcFindIdentity(r, u, p, s) ==
  /\ IdentityRow(u, p) \in owned
  /\ users[u].state = "present" /\ users[u].active
  /\ Begin(r, "oidc_loaded", u, s, users[u].pwd, NoEmail, p)

NoIdentity(p) == \A u \in Users : IdentityRow(u, p) \notin owned

\* No identity, but an active account has the verified email: link it.
OidcFindLink(r, u, p, s) ==
  /\ NoIdentity(p)
  /\ users[u].state = "present" /\ users[u].active
  /\ Begin(r, "oidc_linking", u, s, users[u].pwd, NoEmail, p)

\* create_auth_identity: INSERT waits for another transaction that inserted the
\* same subject; if that one committed, the unique index aborts this one.
OidcInsertIdentity(r) ==
  /\ At(r, "oidc_linking")
  /\ \A r2 \in Reqs \ {r}, u \in Users : IdentityRow(u, subject[r]) \notin add[r2]
  /\ IF NoIdentity(subject[r])
     THEN /\ add' = [add EXCEPT ![r] = {IdentityRow(target[r], subject[r])}]
          /\ Goto(r, "oidc_loaded")
          /\ UNCHANGED <<dbVars, lock, bound, patch, toRevoke, drop>>
     ELSE End(r) /\ UNCHANGED dbVars

\* record_user_login: the flush takes the lock, and session.refresh reloads the
\* identity-mapped row, which record_oidc_login checks again.
OidcUpdate(r) ==
  /\ At(r, "oidc_loaded")
  /\ TakeLock(r)
  /\ Goto(r, "oidc_locked")
  /\ UNCHANGED <<dbVars, bound, pending>>

\* Fault: record_oidc_login trusts the row loaded before the lock.
OidcCommitUnchecked(r, n) ==
  /\ At(r, "oidc_locked")
  /\ End(r)
  /\ UNCHANGED <<users, marks>>
  /\ ReplaceSession(r, target[r], n, "oidc")
  /\ owned' = owned \cup add[r]

OidcCommit(r, n) ==
  /\ At(r, "oidc_locked")
  /\ End(r)
  /\ UNCHANGED <<users, marks>>
  /\ IF Deleted(target[r])
     THEN UNCHANGED <<sessions, revoked, owned>>
     ELSE /\ ReplaceSession(r, target[r], n, "oidc")
          /\ owned' = owned \cup add[r]

\* Nobody has the email: auto-provisioning will create the account.
OidcFindNobody(r, e, p, s) ==
  /\ NoIdentity(p)
  /\ WithEmail(e) = {}
  /\ Begin(r, "oidc_provisioning", NoUser, s, 0, e, p)

\* create_user and create_auth_identity; a committed or pending duplicate of
\* the email or of the subject aborts the transaction.
OidcProvision(r, u, n) ==
  /\ At(r, "oidc_provisioning")
  /\ users[u].state = "absent"
  /\ EmailFree(r, mail[r])
  /\ End(r)
  /\ UNCHANGED marks
  /\ \/ /\ WithEmail(mail[r]) # {} \/ ~NoIdentity(subject[r])
        /\ UNCHANGED <<users, sessions, revoked, owned>>
     \/ /\ WithEmail(mail[r]) = {} /\ NoIdentity(subject[r])
        /\ \A r2 \in Reqs \ {r}, u2 \in Users :
             IdentityRow(u2, subject[r]) \notin add[r2]
        /\ users' = [users EXCEPT ![u] = [state |-> "present", active |-> TRUE,
                                          email |-> mail[r], pwd |-> 0]]
        /\ owned' = owned \cup {IdentityRow(u, subject[r])}
        /\ ReplaceSession(r, u, n, "oidc")

-----------------------------------------------------------------------------
(* Session authentication: AuthUsecase.authenticate_session. *)

\* find_active_session_by_token_hash.
AuthFind(r, s) ==
  /\ ~Unused(s) /\ s \notin revoked
  /\ Begin(r, "auth_found", NoUser, s, 0, NoEmail, NoSubject)

\* Fault: only is_active is checked.
AuthLoadUserActiveOnly(r) ==
  LET u == sessions[cookie[r]].user
  IN  /\ At(r, "auth_found")
      /\ IF ~users[u].active
         THEN /\ revoked' = revoked \cup LiveSessionsOf(u)
              /\ End(r)
              /\ UNCHANGED <<users, sessions, owned, marks>>
         ELSE /\ Goto(r, "served")
              /\ target' = [target EXCEPT ![r] = u]
              /\ UNCHANGED <<dbVars, lock, pending, cookie, basis, mail,
                             subject, dead>>

\* find_user_by_id_for_authentication.  A deleted or inactive account loses
\* every session it has (_reject_user_sessions).
AuthLoadUser(r) ==
  LET u == sessions[cookie[r]].user
  IN  /\ At(r, "auth_found")
      /\ IF Deleted(u) \/ ~users[u].active
         THEN /\ revoked' = revoked \cup LiveSessionsOf(u)
              /\ End(r)
              /\ UNCHANGED <<users, sessions, owned, marks>>
         ELSE /\ Goto(r, "served")
              /\ target' = [target EXCEPT ![r] = u]
              /\ UNCHANGED <<dbVars, lock, pending, cookie, basis, mail,
                             subject, dead>>

\* The handler answers from the context without writing these tables.
Answer(r) ==
  /\ At(r, "served")
  /\ End(r)
  /\ UNCHANGED dbVars

\* SampleItemUsecase.create_item: INSERT for the context's user, own commit.
CreateItem(r, i) ==
  /\ At(r, "served")
  /\ \A u \in Users : ItemRow(u, i) \notin owned
  /\ owned' = owned \cup {ItemRow(target[r], i)}
  /\ End(r)
  /\ UNCHANGED <<users, sessions, revoked, marks>>

-----------------------------------------------------------------------------
(* AuthUsecase.logout. *)

LogoutFind(r, s) ==
  /\ ~Unused(s) /\ s \notin revoked
  /\ Begin(r, "logout_found", NoUser, s, 0, NoEmail, NoSubject)

LogoutCommit(r) ==
  /\ At(r, "logout_found")
  /\ revoked' = revoked \cup {cookie[r]}
  /\ End(r)
  /\ UNCHANGED <<users, sessions, owned, marks>>

-----------------------------------------------------------------------------
(* Account deletion.  delete_account (the context's own user, after the      *)
(* password or OIDC re-authentication) and AdminUserUsecase.delete_user run  *)
(* the same transaction.                                                     *)

SelfDelete(r) ==
  /\ At(r, "served")
  /\ Goto(r, "del_items")
  /\ UNCHANGED <<dbVars, lock, bound, pending>>

AdminDelete(r, u) ==
  /\ users[u].state = "present"
  /\ Begin(r, "del_items", u, NoSession, 0, NoEmail, NoSubject)

DeleteRows(r, from, table, to) ==
  /\ At(r, from)
  /\ drop' = [drop EXCEPT ![r] = @ \cup RowsOf(target[r], table)]
  /\ Goto(r, to)
  /\ UNCHANGED <<dbVars, lock, bound, patch, toRevoke, add>>

DeleteItems(r)      == DeleteRows(r, "del_items", "sample_items", "del_roles")
DeleteRoles(r)      == DeleteRows(r, "del_roles", "user_roles", "del_identities")
DeleteIdentities(r) == DeleteRows(r, "del_identities", "auth_identities", "del_mark")

\* Fault: the UPDATE lacks WHERE deleted_at IS NULL.
MarkUserDeletedAgain(r) ==
  /\ At(r, "del_mark")
  /\ TakeLock(r)
  /\ Goto(r, "del_revoke")
  /\ UNCHANGED <<dbVars, bound, pending>>

\* mark_user_deleted: UPDATE ... WHERE deleted_at IS NULL waits for the row
\* lock; on a row already deleted it matches nothing and takes no lock.
MarkUserDeleted(r) ==
  /\ At(r, "del_mark")
  /\ lock[target[r]] = NoReq
  /\ IF Deleted(target[r]) THEN UNCHANGED lock ELSE TakeLock(r)
  /\ Goto(r, "del_revoke")
  /\ UNCHANGED <<dbVars, bound, pending>>

RevokeForDeletion(r) ==
  /\ At(r, "del_revoke")
  /\ toRevoke' = [toRevoke EXCEPT ![r] = LiveSessionsOf(target[r])]
  /\ Goto(r, "del_commit")
  /\ UNCHANGED <<dbVars, lock, bound, patch, drop, add>>

CommitDeletion(r) ==
  LET u == target[r]
  IN  /\ At(r, "del_commit")
      /\ IF lock[u] = r
         THEN /\ users' = [users EXCEPT ![u].state = "deleted"]
              /\ marks' = [marks EXCEPT ![u] = @ + 1]
         ELSE UNCHANGED <<users, marks>>
      /\ revoked' = revoked \cup toRevoke[r]
      /\ owned' = owned \ drop[r]
      /\ End(r)
      /\ UNCHANGED sessions

-----------------------------------------------------------------------------
(* Administration. *)

\* AuthorizationRepository.replace_user_roles: the roles are read and the
\* difference to R is what the transaction will delete and insert.
DiffRoles(r, R) ==
  LET want == {RoleRow(target[r], c) : c \in R}
      have == RowsOf(target[r], "user_roles")
  IN  /\ drop' = [drop EXCEPT ![r] = have \ want]
      /\ add' = [add EXCEPT ![r] = want \ have]

\* AdminUserUsecase.create_user, one transaction on a row nobody else sees.
AdminCreate(u, e, on, R) ==
  /\ users[u].state = "absent"
  /\ WithEmail(e) = {} /\ EmailFree(NoReq, e)
  /\ users' = [users EXCEPT ![u] = [state |-> "present", active |-> on,
                                    email |-> e, pwd |-> 1]]
  /\ owned' = owned \cup {RoleRow(u, c) : c \in R}
  /\ UNCHANGED <<sessions, revoked, marks, lock, pc, bound, pending>>

\* AdminUserRepository.update_user: row w with the columns of p assigned.
Patched(w, p) ==
  [state  |-> w.state,
   active |-> (p.active = "on") \/ (p.active = "keep" /\ w.active),
   email  |-> IF p.email = NoEmail THEN w.email ELSE p.email,
   pwd    |-> IF p.pwd THEN w.pwd + 1 ELSE w.pwd]

\* AdminUserUsecase.update_user: AdminUserRepository.update_user reads the row,
PatchLoad(r, u) ==
  /\ users[u].state = "present"
  /\ Begin(r, IF users[u].active THEN "patch_loaded" ELSE "patch_loaded_inactive",
           u, NoSession, 0, users[u].email, NoSubject)

\* The flush writes only the attributes that differ from the loaded row; a new hash
\* always does.
Changed(r, p) ==
  LET was == IF At(r, "patch_loaded") THEN "on" ELSE "off"
  IN  [pwd    |-> p.pwd,
       active |-> IF p.active = was THEN "keep" ELSE p.active,
       email  |-> IF p.email = mail[r] THEN NoEmail ELSE p.email,
       ends   |-> p.pwd \/ p.active = "off"]

\* ... flushes the changed columns, which the unique index on email may refuse,
PatchUpdate(r, p) ==
  LET u == target[r]
      w == Changed(r, p)
  IN  /\ At(r, "patch_loaded") \/ At(r, "patch_loaded_inactive")
      /\ p.pwd => users[u].pwd < MaxPwd
      /\ w.email # NoEmail => EmailFree(r, w.email)
      /\ IF w.email # NoEmail /\ ~Deleted(u) /\ WithEmail(w.email) \ {u} # {}
         THEN End(r) /\ UNCHANGED dbVars
         ELSE /\ TakeLock(r)
              /\ patch' = [patch EXCEPT ![r] = w]
              /\ Goto(r, "patch_locked")
              /\ UNCHANGED <<dbVars, bound, toRevoke, drop, add>>

\* ... replaces the roles if they are in fields_set,
PatchRoles(r, R) ==
  /\ At(r, "patch_locked")
  /\ DiffRoles(r, R)
  /\ Goto(r, "patch_roles")
  /\ UNCHANGED <<dbVars, lock, bound, patch, toRevoke>>

\* Fault: only a deactivation revokes.
PatchRevokeInactiveOnly(r) ==
  /\ At(r, "patch_locked") \/ At(r, "patch_roles")
  /\ toRevoke' = [toRevoke EXCEPT ![r] =
                    IF patch[r].active = "off" THEN LiveSessionsOf(target[r]) ELSE {}]
  /\ Goto(r, "patch_commit")
  /\ UNCHANGED <<dbVars, lock, bound, patch, drop, add>>

\* Fault: with nothing to revoke it returns at once, and the transaction stays open.
PatchRevokeLeaksLock(r) ==
  /\ At(r, "patch_locked") \/ At(r, "patch_roles")
  /\ toRevoke' = [toRevoke EXCEPT ![r] = LiveSessionsOf(target[r])]
  /\ Goto(r, IF patch[r].ends THEN "patch_commit" ELSE "idle")
  /\ UNCHANGED <<dbVars, lock, bound, patch, drop, add>>

\* ... revokes the sessions if the password changed or is_active is False,
PatchRevoke(r) ==
  /\ At(r, "patch_locked") \/ At(r, "patch_roles")
  /\ toRevoke' = [toRevoke EXCEPT ![r] =
                    IF patch[r].ends THEN LiveSessionsOf(target[r]) ELSE {}]
  /\ Goto(r, "patch_commit")
  /\ UNCHANGED <<dbVars, lock, bound, patch, drop, add>>

\* ... and commits; a role inserted meanwhile violates the primary key.
PatchCommit(r) ==
  LET u == target[r]
  IN  /\ At(r, "patch_commit")
      /\ End(r)
      /\ IF add[r] \cap owned # {}
         THEN UNCHANGED dbVars
         ELSE /\ users' = [users EXCEPT ![u] = Patched(users[u], patch[r])]
              /\ revoked' = revoked \cup toRevoke[r]
              /\ owned' = (owned \ drop[r]) \cup add[r]
              /\ UNCHANGED <<sessions, marks>>

\* Fault: find_user_by_id_for_authentication also returns deleted rows, unchecked.
PutRolesLoadAny(r, u) ==
  /\ users[u].state # "absent"
  /\ Begin(r, "put_loaded", u, NoSession, 0, NoEmail, NoSubject)

\* AuthorizationUsecase.replace_user_roles: the account's row is read,
PutRolesLoad(r, u) ==
  /\ users[u].state = "present"
  /\ Begin(r, "put_loaded", u, NoSession, 0, NoEmail, NoSubject)

\* ... then its roles; the difference is deleted,
PutRolesDiff(r, R) ==
  /\ At(r, "put_loaded")
  /\ IF {RoleRow(target[r], c) : c \in R} = RowsOf(target[r], "user_roles")
     THEN End(r) /\ UNCHANGED dbVars
     ELSE /\ DiffRoles(r, R)
          /\ Goto(r, "put_diffed")
          /\ UNCHANGED <<dbVars, lock, bound, patch, toRevoke>>

\* ... inserted (a role inserted meanwhile violates the primary key), and only
\* then is users.modified_at written.
PutRolesUpdate(r) ==
  /\ At(r, "put_diffed")
  /\ IF add[r] \cap owned # {}
     THEN End(r) /\ UNCHANGED dbVars
     ELSE /\ TakeLock(r)
          /\ Goto(r, "put_locked")
          /\ UNCHANGED <<dbVars, bound, pending>>

PutRolesCommit(r) ==
  /\ At(r, "put_locked")
  /\ owned' = (owned \ drop[r]) \cup add[r]
  /\ End(r)
  /\ UNCHANGED <<users, sessions, revoked, marks>>

\* A crash, a cancelled task or a database error: the transaction rolls back.
Abort(r) ==
  /\ ~Idle(r)
  /\ End(r)
  /\ UNCHANGED dbVars

-----------------------------------------------------------------------------
Init ==
  /\ users = [u \in Users |->
                [state |-> IF u = FirstUser THEN "present" ELSE "absent",
                 active |-> TRUE, email |-> FirstEmail, pwd |-> 1]]
  /\ sessions = [s \in Sessions |-> NoRow]
  /\ revoked = {}
  /\ owned = {}
  /\ marks = [u \in Users |-> 0]
  /\ lock = [u \in Users |-> NoReq]
  /\ pc = [r \in Reqs |-> "idle"]
  /\ target = [r \in Reqs |-> NoUser]
  /\ cookie = [r \in Reqs |-> NoSession]
  /\ basis = [r \in Reqs |-> 0]
  /\ mail = [r \in Reqs |-> NoEmail]
  /\ subject = [r \in Reqs |-> NoSubject]
  /\ patch = [r \in Reqs |-> NoPatch]
  /\ toRevoke = [r \in Reqs |-> {}]
  /\ drop = [r \in Reqs |-> {}]
  /\ add = [r \in Reqs |-> {}]
  /\ dead = [r \in Reqs |-> {}]

\* Cookies a browser can present.
Cookies == {NoSession} \cup {s \in Sessions : ~Unused(s)}

LockStep(r) == LoginUpdate(r) \/ OidcUpdate(r) \/ MarkUserDeleted(r)
                 \/ PutRolesUpdate(r) \/ \E p \in PatchBody : PatchUpdate(r, p)

Step(r) ==
  \/ LoginLoad(r)
  \/ \E n \in Sessions : LoginCommit(r, n)
  \/ \E u \in Users, n \in Sessions : RegisterCommit(r, u, n)
  \/ OidcInsertIdentity(r)
  \/ \E n \in Sessions : OidcCommit(r, n)
  \/ \E u \in Users, n \in Sessions : OidcProvision(r, u, n)
  \/ AuthLoadUser(r)
  \/ Answer(r)
  \/ \E i \in Items : CreateItem(r, i)
  \/ LogoutCommit(r)
  \/ SelfDelete(r)
  \/ DeleteItems(r) \/ DeleteRoles(r) \/ DeleteIdentities(r)
  \/ RevokeForDeletion(r) \/ CommitDeletion(r)
  \/ \E R \in SUBSET Roles : PatchRoles(r, R)
  \/ PatchRevoke(r) \/ PatchCommit(r)
  \/ \E R \in SUBSET Roles : PutRolesDiff(r, R)
  \/ PutRolesCommit(r)

\* The first read of a new request.
Arrive(r) ==
  \/ \E u \in Users, s \in Cookies : LoginVerify(r, u, s)
  \/ \E e \in Emails, s \in Cookies : RegisterCheck(r, e, s)
  \/ \E u \in Users, p \in Subjects, s \in Cookies : OidcFindIdentity(r, u, p, s)
  \/ \E u \in Users, p \in Subjects, s \in Cookies : OidcFindLink(r, u, p, s)
  \/ \E e \in Emails, p \in Subjects, s \in Cookies : OidcFindNobody(r, e, p, s)
  \/ \E s \in Sessions : AuthFind(r, s)
  \/ \E s \in Sessions : LogoutFind(r, s)
  \/ \E u \in Users : AdminDelete(r, u)
  \/ \E u \in Users : PatchLoad(r, u)
  \/ \E u \in Users : PutRolesLoad(r, u)

Next ==
  \/ \E r \in Reqs : Arrive(r) \/ Step(r) \/ LockStep(r) \/ Abort(r)
  \/ \E u \in Users, e \in Emails, on \in BOOLEAN, R \in SUBSET Roles :
       AdminCreate(u, e, on, R)

Spec == Init /\ [][Next]_vars

\* The model's pools are finite, the database's are not: a request that needs a
\* row when none is left is cut off.
OutOfRows(r) ==
  \/ /\ pc[r] \in {"login_locked", "oidc_locked", "register_checked", "oidc_provisioning"}
     /\ \A s \in Sessions : ~Unused(s)
  \/ /\ pc[r] \in {"register_checked", "oidc_provisioning"}
     /\ \A u \in Users : users[u].state # "absent"

Progress(r) == Step(r) \/ LockStep(r) \/ (OutOfRows(r) /\ Abort(r))

\* The event loop keeps running every request, and PostgreSQL hands a row lock
\* or a unique-key wait to the waiting transactions in turn.
FairSpec == Spec /\ \A r \in Reqs : SF_vars(Progress(r))

-----------------------------------------------------------------------------
(* Properties. *)

Labels == {"idle", "login_verified", "login_loaded", "login_locked",
           "register_checked", "oidc_linking", "oidc_loaded", "oidc_locked",
           "oidc_provisioning", "auth_found", "served", "logout_found",
           "del_items", "del_roles", "del_identities", "del_mark", "del_revoke",
           "del_commit", "patch_loaded", "patch_loaded_inactive", "patch_locked", "patch_roles", "patch_commit",
           "put_loaded", "put_diffed", "put_locked"}

\* Every variable has its type.
TypeOK ==
  /\ users \in [Users -> User]
  /\ sessions \in [Sessions -> Session]
  /\ revoked \subseteq Sessions
  /\ owned \subseteq OwnedRow
  /\ marks \in [Users -> Nat]
  /\ lock \in [Users -> Reqs \cup {NoReq}]
  /\ pc \in [Reqs -> Labels]
  /\ target \in [Reqs -> Users \cup {NoUser}]
  /\ cookie \in [Reqs -> Sessions \cup {NoSession}]
  /\ basis \in [Reqs -> 0..MaxPwd]
  /\ mail \in [Reqs -> Emails \cup {NoEmail}]
  /\ subject \in [Reqs -> Subjects \cup {NoSubject}]
  /\ patch \in [Reqs -> Patch]
  /\ toRevoke \in [Reqs -> SUBSET Sessions]
  /\ drop \in [Reqs -> SUBSET OwnedRow]
  /\ add \in [Reqs -> SUBSET OwnedRow]
  /\ dead \in [Reqs -> SUBSET Users]

\* mark_user_deleted: however many deletions of an account race, exactly one
\* USER_MARKED_DELETED audit row is written, and none without the deletion.
DeletionAuditedOnce ==
  \A u \in Users : marks[u] = IF Deleted(u) THEN 1 ELSE 0

\* Registration, OIDC login and every session that existed when the account was
\* deleted leave no live session of a deleted account.  Only a password login
\* that had loaded the account before the deletion committed can: OIDC login
\* checks the reloaded row again under its lock, record_user_login does not.
OnlyPasswordLoginOutlivesDeletion ==
  \A s \in Sessions, u \in Users :
    sessions[s].user = u /\ s \notin revoked /\ Deleted(u)
      => sessions[s].via = "login"

\* authenticate_session: no request that begins after the deletion of an
\* account committed is ever served as that account, whichever sessions are left.
NotServedAfterDeletion ==
  \A r \in Reqs : pc[r] = "served" => target[r] \notin dead[r]

\* A step that adds a session or an owned row to a deleted account is a step of a
\* request bound to that account before the deletion.
NoGain ==
  \A u \in Users :
    /\ Deleted(u)
    /\ \/ \E s \in Sessions : sessions'[s].user = u /\ sessions[s].user # u
       \/ \E x \in owned' \ owned : x.owner = u
    => \E r \in Reqs : pc[r] # "idle" /\ target[r] = u /\ u \notin dead[r]

\* No request that begins after the deletion of an account committed gives that
\* account a session, an identity, a role or an item: whatever a deleted account
\* gains comes from a request that was under way when it was deleted.
NoGainAfterDeletion == [][NoGain]_vars

\* A step that ends an account's standing ends all its sessions.
StatusChange ==
  \A u \in Users :
    \/ users[u].state = "present" /\ users'[u].state = "deleted"
    \/ users[u].active /\ ~users'[u].active
    \/ users[u].state # "absent" /\ users'[u].pwd # users[u].pwd
    => {s \in Sessions : sessions[s].user = u} \subseteq revoked'

\* Every request of the API that deletes an account, deactivates it or changes its
\* password revokes, in the same commit, every session the account has at that moment,
\* including one whose login committed while the transaction was running.  (seed-admin
\* of manage.py, a command for local and development environments that changes a
\* password and revokes nothing, is not part of this module.)
StatusChangeRevokesAll == [][StatusChange]_vars

\* No request waits for a row lock for ever: every path of every use case ends its
\* transaction and releases its lock on the users row.  (RoleChanges has the locks on
\* user_roles rows besides.)
EveryRequestEnds == \A r \in Reqs : pc[r] # "idle" ~> pc[r] = "idle"

\* find_user_by_email and its OIDC variants use one_or_none(), which raises when
\* two rows match: registration, provisioning, administration and PATCH, racing
\* with deletions that free an address, never leave two such accounts.
EmailResolvesToOneAccount ==
  \A e \in Emails : \A u, v \in WithEmail(e) : u = v

-----------------------------------------------------------------------------
(* Statements of the documents that concurrent requests can falsify. *)

\* A deleted user cannot log in: its account has no session left that is live.
DeletedUserHasNoSession ==
  \A s \in Sessions, u \in Users :
    sessions[s].user = u /\ Deleted(u) => s \in revoked

\* Deletion removes the identities, the roles and the items of the account: none
\* of these rows belongs to a deleted account, so that, for one, its provider
\* subject is free to register again.
DeletedUserOwnsNothing == \A x \in owned : ~Deleted(x.owner)

\* A password change ends the sessions that the old password opened.
PasswordChangeEndsSessions ==
  \A s \in Sessions, u \in Users :
    sessions[s].user = u /\ s \notin revoked /\ sessions[s].via = "login"
      => sessions[s].pwd = users[u].pwd

-----------------------------------------------------------------------------
(* The inductive invariant behind the properties. *)

\* Labels at which a request always holds the row lock of its target.
LockedLabels == {"login_locked", "oidc_locked", "patch_locked", "patch_roles",
                 "patch_commit", "put_locked"}

\* Labels between mark_user_deleted and commit: locked unless the UPDATE found
\* the row already deleted.
MarkedLabels == {"del_revoke", "del_commit"}

\* Labels at which a request acts for no account yet.
UnboundLabels == {"idle", "register_checked", "oidc_provisioning", "auth_found",
                  "logout_found"}

\* Row locks and the labels of their holders agree.
LockDiscipline ==
  /\ \A u \in Users : lock[u] # NoReq =>
       /\ target[lock[u]] = u
       /\ pc[lock[u]] \in LockedLabels \cup MarkedLabels
  /\ \A r \in Reqs : pc[r] \in LockedLabels => lock[target[r]] = r
  /\ \A r \in Reqs : pc[r] \in MarkedLabels =>
       \/ lock[target[r]] = r /\ users[target[r]].state = "present"
       \/ lock[target[r]] # r /\ Deleted(target[r])

\* What a request is bound to exists, and was alive when the request began.
Binding ==
  /\ \A r \in Reqs : pc[r] \notin UnboundLabels =>
       target[r] \in Users /\ users[target[r]].state # "absent"
  /\ \A r \in Reqs : target[r] \notin dead[r]
  /\ \A r \in Reqs : \A u \in dead[r] : Deleted(u)
  /\ \A r \in Reqs : pc[r] \in {"auth_found", "logout_found"} =>
       cookie[r] \in Sessions /\ sessions[cookie[r]].user # NoUser
  /\ \A r \in Reqs : pc[r] \in {"register_checked", "oidc_provisioning"} =>
       mail[r] \in Emails
  /\ \A r \in Reqs : pc[r] \in {"oidc_linking", "oidc_provisioning"} =>
       subject[r] \in Subjects
  /\ \A s \in Sessions, u \in Users :
       sessions[s].user = u => users[u].state # "absent"

\* The sessions that a pending revocation will miss: none, as long as the row
\* lock keeps new sessions of the account out.
PendingRevocation ==
  /\ \A r \in Reqs : pc[r] = "del_commit" /\ lock[target[r]] = r
       => LiveSessionsOf(target[r]) \subseteq toRevoke[r]
  /\ \A r \in Reqs :
       pc[r] = "patch_commit" /\ (patch[r].pwd \/ patch[r].active = "off")
       => LiveSessionsOf(target[r]) \subseteq toRevoke[r]
  /\ \A r \in Reqs : pc[r] \in {"patch_locked", "patch_roles", "patch_commit"} /\ patch[r].pwd
       => users[target[r]].pwd < MaxPwd

\* Rows a transaction is about to insert belong to the account it is bound to.
PendingRows ==
  \A r \in Reqs : /\ pc[r] \in UnboundLabels => add[r] = {}
                  /\ \A x \in add[r] : x.owner = target[r]

\* The conjunction that every step preserves.
IInv ==
  /\ TypeOK
  /\ LockDiscipline
  /\ Binding
  /\ PendingRevocation
  /\ DeletionAuditedOnce
  /\ OnlyPasswordLoginOutlivesDeletion
=============================================================================
