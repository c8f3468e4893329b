--------------------------- MODULE AccountsProofs ---------------------------
(***************************************************************************)
(* Proofs about Accounts, for every set of users, sessions, requests,      *)
(* emails, subjects, roles and items.                                      *)
(***************************************************************************)
EXTENDS Accounts, TLAPS

LEMMA InitInv == Init => IInv
<1> SUFFICES ASSUME Init PROVE IInv
  OBVIOUS
<1>1. TypeOK
  BY AccountsAssumption DEF Init, TypeOK, User, Session, NoRow, Patch, NoPatch, Labels
<1>2. LockDiscipline
  BY DEF Init, LockDiscipline, LockedLabels, MarkedLabels
<1>3. Binding
  BY AccountsAssumption DEF Init, Binding, UnboundLabels, NoRow
<1>4. PendingRevocation
  BY DEF Init, PendingRevocation
<1>5. DeletionAuditedOnce /\ OnlyPasswordLoginOutlivesDeletion
  BY AccountsAssumption DEF Init, DeletionAuditedOnce, OnlyPasswordLoginOutlivesDeletion,
     Deleted, NoRow
<1> QED BY <1>1, <1>2, <1>3, <1>4, <1>5 DEF IInv

\* What End leaves behind: the request is idle and holds nothing, every other
\* request is untouched and keeps its lock.
LEMMA EndFrame ==
  ASSUME TypeOK, NEW r \in Reqs, End(r)
  PROVE  /\ pc'[r] = "idle" /\ target'[r] = NoUser /\ dead'[r] = {}
         /\ \A r2 \in Reqs \ {r} :
              /\ pc'[r2] = pc[r2] /\ target'[r2] = target[r2]
              /\ cookie'[r2] = cookie[r2] /\ mail'[r2] = mail[r2]
              /\ subject'[r2] = subject[r2] /\ dead'[r2] = dead[r2]
              /\ patch'[r2] = patch[r2] /\ toRevoke'[r2] = toRevoke[r2]
              /\ \A u \in Users : lock'[u] = r2 <=> lock[u] = r2
         /\ \A u \in Users : lock'[u] = IF lock[u] = r THEN NoReq ELSE lock[u]
BY AccountsAssumption DEF TypeOK, End

LEMMA EndType ==
  ASSUME TypeOK, NEW r \in Reqs, End(r)
  PROVE  /\ lock' \in [Users -> Reqs \cup {NoReq}]
         /\ pc' \in [Reqs -> Labels]
         /\ target' \in [Reqs -> Users \cup {NoUser}]
         /\ cookie' \in [Reqs -> Sessions \cup {NoSession}]
         /\ basis' \in [Reqs -> 0..MaxPwd]
         /\ mail' \in [Reqs -> Emails \cup {NoEmail}]
         /\ subject' \in [Reqs -> Subjects \cup {NoSubject}]
         /\ patch' \in [Reqs -> Patch]
         /\ toRevoke' \in [Reqs -> SUBSET Sessions]
         /\ drop' \in [Reqs -> SUBSET OwnedRow]
         /\ add' \in [Reqs -> SUBSET OwnedRow]
         /\ dead' \in [Reqs -> SUBSET Users]
BY AccountsAssumption DEF TypeOK, End, Patch, NoPatch, Labels

\* A request that ends keeps the lock discipline of the others, provided that
\* it changes no account whose row another request has locked.
LEMMA EndKeepsLocks ==
  ASSUME IInv, NEW r \in Reqs, End(r),
         \A u \in Users : lock[u] \in Reqs \ {r} => users'[u].state = users[u].state,
         \A u \in Users : Deleted(u) => users'[u].state = "deleted"
  PROVE  LockDiscipline'
<1>1. \A u \in Users : lock'[u] # NoReq =>
        target'[lock'[u]] = u /\ pc'[lock'[u]] \in LockedLabels \cup MarkedLabels
  BY EndFrame, AccountsAssumption DEF IInv, TypeOK, LockDiscipline
<1>2. ASSUME NEW r2 \in Reqs, pc'[r2] \in LockedLabels \cup MarkedLabels
      PROVE  /\ r2 # r /\ pc'[r2] = pc[r2] /\ target'[r2] = target[r2]
             /\ target[r2] \in Users
             /\ lock'[target[r2]] = r2 <=> lock[target[r2]] = r2
  BY <1>2, EndFrame DEF IInv, TypeOK, Binding, UnboundLabels, LockedLabels, MarkedLabels
<1>3. \A r2 \in Reqs : pc'[r2] \in LockedLabels => lock'[target'[r2]] = r2
  BY <1>2 DEF IInv, LockDiscipline
<1>4. ASSUME NEW r2 \in Reqs, pc'[r2] \in MarkedLabels
      PROVE  \/ lock'[target'[r2]] = r2 /\ users'[target'[r2]].state = "present"
             \/ lock'[target'[r2]] # r2 /\ users'[target'[r2]].state = "deleted"
  BY <1>2, <1>4 DEF IInv, LockDiscipline, Deleted
<1> QED BY <1>1, <1>3, <1>4 DEF LockDiscipline, Deleted

\* ... keeps every binding, provided that no account disappears or comes back and
\* that new sessions belong to existing accounts,
LEMMA EndKeepsBinding ==
  ASSUME IInv, NEW r \in Reqs, End(r),
         \A u \in Users : users[u].state # "absent" => users'[u].state # "absent",
         \A u \in Users : Deleted(u) => users'[u].state = "deleted",
         \A s \in Sessions : sessions[s].user # NoUser => sessions'[s].user # NoUser,
         \A s \in Sessions, u \in Users :
            sessions'[s].user = u => users'[u].state # "absent"
  PROVE  Binding'
<1>1. ASSUME NEW r2 \in Reqs, r2 # r
      PROVE  /\ pc'[r2] \notin UnboundLabels =>
                  target'[r2] \in Users /\ users'[target'[r2]].state # "absent"
             /\ target'[r2] \notin dead'[r2]
             /\ \A u \in dead'[r2] : users'[u].state = "deleted"
             /\ pc'[r2] \in {"auth_found", "logout_found"} =>
                  cookie'[r2] \in Sessions /\ sessions'[cookie'[r2]].user # NoUser
             /\ pc'[r2] \in {"register_checked", "oidc_provisioning"} => mail'[r2] \in Emails
             /\ pc'[r2] \in {"oidc_linking", "oidc_provisioning"} => subject'[r2] \in Subjects
  <2>1. /\ pc'[r2] = pc[r2] /\ target'[r2] = target[r2] /\ cookie'[r2] = cookie[r2]
        /\ mail'[r2] = mail[r2] /\ subject'[r2] = subject[r2] /\ dead'[r2] = dead[r2]
        /\ dead[r2] \subseteq Users
    BY <1>1, EndFrame DEF IInv, TypeOK
  <2> QED BY <2>1 DEF IInv, Binding, Deleted
<1>2. pc'[r] = "idle" /\ target'[r] = NoUser /\ dead'[r] = {}
  BY EndFrame DEF IInv
<1> QED BY <1>1, <1>2 DEF Binding, UnboundLabels, Deleted

\* ... and keeps every pending revocation complete, provided that an account
\* locked by another request gains no live session and keeps its password.
LEMMA EndKeepsPending ==
  ASSUME IInv, NEW r \in Reqs, End(r),
         \A u \in Users : lock[u] \in Reqs \ {r} =>
            LiveSessionsOf(u)' \subseteq LiveSessionsOf(u) /\ users'[u].pwd = users[u].pwd
  PROVE  PendingRevocation'
<1>1. ASSUME NEW r2 \in Reqs, pc'[r2] \in {"del_commit", "patch_commit", "patch_roles", "patch_locked"}
      PROVE  /\ r2 # r /\ pc'[r2] = pc[r2] /\ target'[r2] = target[r2]
             /\ patch'[r2] = patch[r2] /\ toRevoke'[r2] = toRevoke[r2]
             /\ target[r2] \in Users
             /\ lock'[target[r2]] = r2 <=> lock[target[r2]] = r2
             /\ pc[r2] # "del_commit" => lock[target[r2]] = r2
  BY <1>1, EndFrame DEF IInv, TypeOK, Binding, UnboundLabels, LockDiscipline, LockedLabels
<1>2. ASSUME NEW r2 \in Reqs, pc'[r2] = "del_commit", lock'[target'[r2]] = r2
      PROVE  LiveSessionsOf(target[r2])' \subseteq toRevoke'[r2]
  BY <1>1, <1>2 DEF IInv, PendingRevocation, LiveSessionsOf
<1>3. ASSUME NEW r2 \in Reqs, pc'[r2] = "patch_commit",
             patch'[r2].pwd \/ patch'[r2].active = "off"
      PROVE  LiveSessionsOf(target[r2])' \subseteq toRevoke'[r2]
  BY <1>1, <1>3 DEF IInv, PendingRevocation, LiveSessionsOf
<1>4. ASSUME NEW r2 \in Reqs, pc'[r2] \in {"patch_locked", "patch_roles", "patch_commit"}, patch'[r2].pwd
      PROVE  users'[target'[r2]].pwd < MaxPwd
  BY <1>1, <1>4 DEF IInv, PendingRevocation
<1> QED BY <1>2, <1>3, <1>4 DEF PendingRevocation, LiveSessionsOf

\* A request that ends without writing (an early return, a rollback) keeps IInv.
LEMMA EndKeepsInv ==
  ASSUME IInv, NEW r \in Reqs, End(r), UNCHANGED dbVars
  PROVE  IInv'
<1> users' = users /\ sessions' = sessions /\ revoked' = revoked
  BY DEF dbVars
<1>1. TypeOK'
  BY EndType DEF IInv, TypeOK, dbVars
<1>2. LockDiscipline'
  BY EndKeepsLocks DEF Deleted
<1>3. Binding'
  <2>1. \A s \in Sessions, u \in Users : sessions[s].user = u => users[u].state # "absent"
    BY DEF IInv, Binding
  <2> QED BY <2>1, EndKeepsBinding DEF Deleted
<1>4. PendingRevocation'
  BY EndKeepsPending DEF LiveSessionsOf
<1>5. DeletionAuditedOnce' /\ OnlyPasswordLoginOutlivesDeletion'
  BY DEF IInv, dbVars, DeletionAuditedOnce, OnlyPasswordLoginOutlivesDeletion, Deleted
<1> QED BY <1>1, <1>2, <1>3, <1>4, <1>5 DEF IInv

\* Labels at which a request arrives.
EntryLabels == {"login_verified", "register_checked", "oidc_linking", "oidc_loaded",
                "oidc_provisioning", "auth_found", "logout_found", "del_items",
                "patch_loaded", "patch_loaded_inactive", "put_loaded"}

\* The first read of a request keeps IInv when it binds the request to nobody or
\* to an account that is present.
LEMMA BeginKeepsInv ==
  ASSUME IInv, NEW r \in Reqs, NEW l \in EntryLabels,
         NEW u \in Users \cup {NoUser}, NEW s \in Sessions \cup {NoSession},
         NEW p \in 0..MaxPwd, NEW e \in Emails \cup {NoEmail},
         NEW q \in Subjects \cup {NoSubject},
         u \in Users => users[u].state = "present",
         l \notin UnboundLabels => u \in Users,
         l \in {"auth_found", "logout_found"} => s \in Sessions /\ ~Unused(s),
         l \in {"register_checked", "oidc_provisioning"} => e \in Emails,
         l \in {"oidc_linking", "oidc_provisioning"} => q \in Subjects,
         Begin(r, l, u, s, p, e, q)
  PROVE  IInv'
<1> USE DEF IInv
<1>1. TypeOK'
  BY DEF TypeOK, Begin, dbVars, pending, Labels, EntryLabels
<1>2. LockDiscipline'
  BY AccountsAssumption DEF TypeOK, Begin, Idle, dbVars, pending, LockDiscipline, LockedLabels,
     MarkedLabels, EntryLabels, Deleted
<1>3. Binding'
  BY AccountsAssumption DEF TypeOK, Begin, dbVars, pending, Binding, UnboundLabels, Deleted,
     Unused
<1>4. PendingRevocation'
  BY DEF TypeOK, Begin, Idle, dbVars, pending, PendingRevocation, LiveSessionsOf, EntryLabels
<1>5. DeletionAuditedOnce' /\ OnlyPasswordLoginOutlivesDeletion'
  BY DEF Begin, dbVars, DeletionAuditedOnce, OnlyPasswordLoginOutlivesDeletion, Deleted
<1> QED BY <1>1, <1>2, <1>3, <1>4, <1>5

\* A commit keeps IInv, provided that it leaves alone the accounts that other
\* requests have locked, gives them no session, and brings no account back.
LEMMA CommitKeepsInv ==
  ASSUME IInv, NEW r \in Reqs, End(r),
         users' \in [Users -> User], sessions' \in [Sessions -> Session],
         revoked' \subseteq Sessions, owned' \subseteq OwnedRow, marks' \in [Users -> Nat],
         \A u \in Users : lock[u] \in Reqs \ {r} => users'[u] = users[u],
         \A u \in Users : Deleted(u) => users'[u].state = "deleted",
         \A u \in Users : users[u].state # "absent" => users'[u].state # "absent",
         \A s \in Sessions : sessions[s].user # NoUser => sessions'[s].user # NoUser,
         \A s \in Sessions, u \in Users :
            sessions'[s].user = u => users'[u].state # "absent",
         \A u \in Users : lock[u] \in Reqs \ {r} =>
            LiveSessionsOf(u)' \subseteq LiveSessionsOf(u),
         DeletionAuditedOnce', OnlyPasswordLoginOutlivesDeletion'
  PROVE  IInv'
<1>1. TypeOK'
  BY EndType DEF IInv, TypeOK
<1>2. LockDiscipline'
  BY EndKeepsLocks
<1>3. Binding'
  BY EndKeepsBinding
<1>4. PendingRevocation'
  BY EndKeepsPending
<1> QED BY <1>1, <1>2, <1>3, <1>4 DEF IInv

\* A statement inside a transaction keeps IInv: it moves one request that is
\* bound to an account to its next label, touches only that request's pending
\* writes and takes at most the free lock of its target.
LEMMA MoveKeepsInv ==
  ASSUME IInv, NEW r \in Reqs, NEW l \in Labels, Goto(r, l),
         UNCHANGED <<dbVars, bound>>,
         pc[r] \notin UnboundLabels,
         l \notin UnboundLabels \cup {"oidc_linking"},
         patch' \in [Reqs -> Patch], toRevoke' \in [Reqs -> SUBSET Sessions],
         drop' \in [Reqs -> SUBSET OwnedRow], add' \in [Reqs -> SUBSET OwnedRow],
         \A r2 \in Reqs \ {r} : patch'[r2] = patch[r2] /\ toRevoke'[r2] = toRevoke[r2],
         \/ lock' = lock
         \/ lock[target[r]] = NoReq /\ lock' = [lock EXCEPT ![target[r]] = r],
         lock'[target[r]] = r => l \in LockedLabels \cup MarkedLabels,
         l \in LockedLabels => lock'[target[r]] = r,
         l \in MarkedLabels =>
            \/ lock'[target[r]] = r /\ users[target[r]].state = "present"
            \/ lock'[target[r]] # r /\ Deleted(target[r]),
         l = "del_commit" /\ lock'[target[r]] = r =>
            LiveSessionsOf(target[r]) \subseteq toRevoke'[r],
         l = "patch_commit" /\ (patch'[r].pwd \/ patch'[r].active = "off") =>
            LiveSessionsOf(target[r]) \subseteq toRevoke'[r],
         l \in {"patch_locked", "patch_roles", "patch_commit"} /\ patch'[r].pwd =>
            users[target[r]].pwd < MaxPwd
  PROVE  IInv'
<1> /\ users' = users /\ sessions' = sessions /\ revoked' = revoked /\ marks' = marks
    /\ target' = target /\ cookie' = cookie /\ mail' = mail /\ subject' = subject
    /\ dead' = dead /\ owned' = owned /\ basis' = basis
  BY DEF dbVars, bound
<1> target[r] \in Users /\ users[target[r]].state # "absent"
  BY DEF IInv, Binding
<1>p. pc'[r] = l /\ \A r2 \in Reqs \ {r} : pc'[r2] = pc[r2]
  BY DEF IInv, TypeOK, Goto
<1>l. /\ \A u \in Users : lock'[u] = lock[u] \/ (u = target[r] /\ lock[u] = NoReq /\ lock'[u] = r)
      /\ \A u \in Users : lock'[u] \in Reqs \cup {NoReq}
      /\ \A u \in Users : \A r2 \in Reqs \ {r} : lock'[u] = r2 <=> lock[u] = r2
  BY AccountsAssumption DEF IInv, TypeOK
<1>1. TypeOK'
  BY DEF IInv, TypeOK, Goto
<1>2. LockDiscipline'
  <2>1. ASSUME NEW u \in Users, lock'[u] # NoReq
        PROVE  target[lock'[u]] = u /\ pc'[lock'[u]] \in LockedLabels \cup MarkedLabels
    <3>1. CASE lock'[u] = r
      BY <3>1, <1>p, <1>l, <2>1 DEF IInv, LockDiscipline
    <3>2. CASE lock'[u] # r
      BY <3>2, <1>p, <1>l, <2>1 DEF IInv, LockDiscipline
    <3> QED BY <3>1, <3>2
  <2>2. ASSUME NEW r2 \in Reqs, pc'[r2] \in LockedLabels
        PROVE  lock'[target[r2]] = r2
    BY <1>p, <1>l, <2>2 DEF IInv, LockDiscipline, Binding, UnboundLabels, LockedLabels
  <2>3. ASSUME NEW r2 \in Reqs, pc'[r2] \in MarkedLabels
        PROVE  \/ lock'[target[r2]] = r2 /\ users[target[r2]].state = "present"
               \/ lock'[target[r2]] # r2 /\ Deleted(target[r2])
    BY <1>p, <1>l, <2>3 DEF IInv, LockDiscipline, Binding, UnboundLabels, MarkedLabels
  <2> QED BY <2>1, <2>2, <2>3 DEF LockDiscipline, Deleted
<1>3. Binding'
  BY <1>p DEF IInv, Binding, UnboundLabels, Deleted
<1>4. PendingRevocation'
  <2>1. \A u \in Users : LiveSessionsOf(u)' = LiveSessionsOf(u)
    BY DEF LiveSessionsOf
  <2>2. ASSUME NEW r2 \in Reqs,
               pc'[r2] \in {"del_commit", "patch_locked", "patch_roles", "patch_commit"}
        PROVE  target[r2] \in Users
    BY <2>2, <1>p DEF IInv, Binding, UnboundLabels
  <2>3. ASSUME NEW r2 \in Reqs, pc'[r2] = "del_commit", lock'[target[r2]] = r2
        PROVE  LiveSessionsOf(target[r2]) \subseteq toRevoke'[r2]
    BY <1>p, <1>l, <2>2, <2>3 DEF IInv, PendingRevocation
  <2>4. ASSUME NEW r2 \in Reqs, pc'[r2] = "patch_commit",
               patch'[r2].pwd \/ patch'[r2].active = "off"
        PROVE  LiveSessionsOf(target[r2]) \subseteq toRevoke'[r2]
    BY <1>p, <2>4 DEF IInv, PendingRevocation
  <2>5. ASSUME NEW r2 \in Reqs, pc'[r2] \in {"patch_locked", "patch_roles", "patch_commit"},
               patch'[r2].pwd
        PROVE  users[target[r2]].pwd < MaxPwd
    BY <1>p, <2>5 DEF IInv, PendingRevocation
  <2> QED BY <2>3, <2>4, <2>5 DEF PendingRevocation, LiveSessionsOf
<1>5. DeletionAuditedOnce' /\ OnlyPasswordLoginOutlivesDeletion'
  BY DEF IInv, DeletionAuditedOnce, OnlyPasswordLoginOutlivesDeletion, Deleted
<1> QED BY <1>1, <1>2, <1>3, <1>4, <1>5 DEF IInv

-----------------------------------------------------------------------------
(* One step per action. *)

LEMMA ArriveKeepsInv ==
  ASSUME IInv, NEW r \in Reqs, Arrive(r)
  PROVE  IInv'
<1> USE AccountsAssumption DEF EntryLabels, UnboundLabels
<1>0. \A u \in Users : users[u].pwd \in 0..MaxPwd
  BY DEF IInv, TypeOK, User
<1>z. 0 \in 0..MaxPwd /\ 1 \in 0..MaxPwd
  OBVIOUS
<1>c. Cookies \subseteq Sessions \cup {NoSession}
  BY DEF Cookies
<1>1. CASE \E u \in Users, s \in Cookies : LoginVerify(r, u, s)
  BY <1>1, <1>0, <1>c, BeginKeepsInv DEF LoginVerify
<1>2. CASE \E e \in Emails, s \in Cookies : RegisterCheck(r, e, s)
  BY <1>2, <1>z, <1>c, BeginKeepsInv DEF RegisterCheck
<1>3. CASE \E u \in Users, p \in Subjects, s \in Cookies : OidcFindIdentity(r, u, p, s)
  BY <1>3, <1>0, <1>c, BeginKeepsInv DEF OidcFindIdentity
<1>4. CASE \E u \in Users, p \in Subjects, s \in Cookies : OidcFindLink(r, u, p, s)
  BY <1>4, <1>0, <1>c, BeginKeepsInv DEF OidcFindLink
<1>5. CASE \E e \in Emails, p \in Subjects, s \in Cookies : OidcFindNobody(r, e, p, s)
  BY <1>5, <1>z, <1>c, BeginKeepsInv DEF OidcFindNobody
<1>6. CASE \E s \in Sessions : AuthFind(r, s)
  BY <1>6, <1>z, BeginKeepsInv DEF AuthFind
<1>7. CASE \E s \in Sessions : LogoutFind(r, s)
  BY <1>7, <1>z, BeginKeepsInv DEF LogoutFind
<1>8. CASE \E u \in Users : AdminDelete(r, u)
  BY <1>8, <1>z, BeginKeepsInv DEF AdminDelete
<1>9. CASE \E u \in Users : PatchLoad(r, u)
  <2>1. PICK u \in Users : PatchLoad(r, u)
    BY <1>9
  <2>2. users[u].email \in Emails
    BY DEF IInv, TypeOK, User
  <2>3. CASE users[u].active
    BY <2>1, <2>2, <2>3, <1>z, BeginKeepsInv DEF PatchLoad
  <2>4. CASE ~users[u].active
    BY <2>1, <2>2, <2>4, <1>z, BeginKeepsInv DEF PatchLoad
  <2> QED BY <2>3, <2>4
<1>10. CASE \E u \in Users : PutRolesLoad(r, u)
  BY <1>10, <1>z, BeginKeepsInv DEF PutRolesLoad
<1> QED
  BY <1>1, <1>2, <1>3, <1>4, <1>5, <1>6, <1>7, <1>8, <1>9, <1>10 DEF Arrive

\* What a request bound to an account may rely on.
LEMMA Bound ==
  ASSUME IInv, NEW r \in Reqs, pc[r] \notin UnboundLabels
  PROVE  /\ target[r] \in Users /\ users[target[r]].state # "absent"
         /\ users[target[r]] \in User
         /\ lock[target[r]] = r => pc[r] \in LockedLabels \cup MarkedLabels
         /\ pc[r] \in LockedLabels => lock[target[r]] = r
BY AccountsAssumption DEF IInv, TypeOK, Binding, LockDiscipline

\* The statements that wait for the row lock.
LEMMA LockStepKeepsInv ==
  ASSUME IInv, NEW r \in Reqs, LockStep(r)
  PROVE  IInv'
<1> USE AccountsAssumption DEF At, UnboundLabels, LockedLabels, MarkedLabels, Labels
<1>t. /\ patch \in [Reqs -> Patch] /\ toRevoke \in [Reqs -> SUBSET Sessions]
      /\ drop \in [Reqs -> SUBSET OwnedRow] /\ add \in [Reqs -> SUBSET OwnedRow]
      /\ lock \in [Users -> Reqs \cup {NoReq}]
  BY DEF IInv, TypeOK
<1>1. CASE LoginUpdate(r)
  BY <1>1, <1>t, Bound, MoveKeepsInv DEF LoginUpdate, TakeLock, pending
<1>2. CASE OidcUpdate(r)
  BY <1>2, <1>t, Bound, MoveKeepsInv DEF OidcUpdate, TakeLock, pending
<1>3. CASE MarkUserDeleted(r)
  <2>1. target[r] \in Users /\ users[target[r]].state \in {"present", "deleted"}
    BY <1>3, Bound DEF MarkUserDeleted, User
  <2> QED BY <1>3, <1>t, <2>1, MoveKeepsInv DEF MarkUserDeleted, TakeLock, pending, Deleted
<1>4. CASE PutRolesUpdate(r)
  <2>1. CASE add[r] \cap owned # {}
    BY <1>4, <2>1, EndKeepsInv DEF PutRolesUpdate
  <2>2. CASE add[r] \cap owned = {}
    BY <1>4, <2>2, <1>t, Bound, MoveKeepsInv DEF PutRolesUpdate, TakeLock, pending
  <2> QED BY <2>1, <2>2
<1>5. CASE \E p \in PatchBody : PatchUpdate(r, p)
  <2>1. PICK p \in PatchBody : PatchUpdate(r, p)
    BY <1>5
  <2> DEFINE w == Changed(r, p)
  <2>w. w \in Patch /\ w.pwd = p.pwd
    BY DEF PatchBody, Patch, Changed
  <2> HIDE DEF w
  <2>2. CASE w.email # NoEmail /\ ~Deleted(target[r]) /\ WithEmail(w.email) \ {target[r]} # {}
    BY <2>1, <2>2, EndKeepsInv DEF PatchUpdate, w
  <2>3. CASE ~(w.email # NoEmail /\ ~Deleted(target[r]) /\ WithEmail(w.email) \ {target[r]} # {})
    <3>1. /\ pc[r] \in {"patch_loaded", "patch_loaded_inactive"}
          /\ TakeLock(r) /\ patch' = [patch EXCEPT ![r] = w] /\ Goto(r, "patch_locked")
          /\ UNCHANGED <<dbVars, bound, toRevoke, drop, add>>
          /\ p.pwd => users[target[r]].pwd < MaxPwd
      BY <2>1, <2>3 DEF PatchUpdate, At, w
    <3> QED BY <3>1, <2>w, <1>t, Bound, MoveKeepsInv DEF TakeLock
  <2> QED BY <2>2, <2>3
<1> QED BY <1>1, <1>2, <1>3, <1>4, <1>5 DEF LockStep

\* The statements inside a transaction that wait for nothing.
LEMMA StatementsKeepInv ==
  ASSUME IInv, NEW r \in Reqs,
         \/ LoginLoad(r) \/ OidcInsertIdentity(r) \/ SelfDelete(r)
         \/ DeleteItems(r) \/ DeleteRoles(r) \/ DeleteIdentities(r)
         \/ RevokeForDeletion(r) \/ PatchRevoke(r)
         \/ \E R \in SUBSET Roles : PatchRoles(r, R) \/ PutRolesDiff(r, R)
  PROVE  IInv'
<1> USE AccountsAssumption DEF At, UnboundLabels, LockedLabels, MarkedLabels, Labels
<1>t. /\ patch \in [Reqs -> Patch] /\ toRevoke \in [Reqs -> SUBSET Sessions]
      /\ drop \in [Reqs -> SUBSET OwnedRow] /\ add \in [Reqs -> SUBSET OwnedRow]
      /\ lock \in [Users -> Reqs \cup {NoReq}]
  BY DEF IInv, TypeOK
<1>r. \A u, t : RowsOf(u, t) \subseteq OwnedRow
  BY DEF RowsOf, IInv, TypeOK
<1>s. \A u : LiveSessionsOf(u) \subseteq Sessions
  BY DEF LiveSessionsOf
<1>1. CASE LoginLoad(r)
  <2>1. CASE Deleted(target[r])
    BY <1>1, <2>1, EndKeepsInv DEF LoginLoad
  <2>2. CASE ~Deleted(target[r])
    BY <1>1, <2>2, <1>t, Bound, MoveKeepsInv DEF LoginLoad, pending
  <2> QED BY <2>1, <2>2
<1>2. CASE OidcInsertIdentity(r)
  <2>1. CASE NoIdentity(subject[r])
    <3>1. IdentityRow(target[r], subject[r]) \in OwnedRow
      BY <1>2, Bound DEF OidcInsertIdentity, IInv, Binding, IdentityRow, OwnedRow
    <3>2. add' \in [Reqs -> SUBSET OwnedRow]
      BY <1>2, <2>1, <3>1, <1>t DEF OidcInsertIdentity
    <3> QED BY <1>2, <2>1, <3>2, <1>t, Bound, MoveKeepsInv DEF OidcInsertIdentity
  <2>2. CASE ~NoIdentity(subject[r])
    BY <1>2, <2>2, EndKeepsInv DEF OidcInsertIdentity
  <2> QED BY <2>1, <2>2
<1>3. CASE SelfDelete(r)
  BY <1>3, <1>t, Bound, MoveKeepsInv DEF SelfDelete, pending
<1>4. ASSUME NEW from, NEW t, NEW to, DeleteRows(r, from, t, to),
             from \in {"del_items", "del_roles", "del_identities"},
             to \in {"del_roles", "del_identities", "del_mark"}
      PROVE  IInv'
  <2>1. drop' \in [Reqs -> SUBSET OwnedRow]
    BY <1>4, <1>t, <1>r DEF DeleteRows
  <2> QED BY <1>4, <1>t, <2>1, Bound, MoveKeepsInv DEF DeleteRows
<1>5. CASE DeleteItems(r) \/ DeleteRoles(r) \/ DeleteIdentities(r)
  BY <1>5, <1>4 DEF DeleteItems, DeleteRoles, DeleteIdentities
<1>6. CASE RevokeForDeletion(r)
  <2>1. toRevoke' \in [Reqs -> SUBSET Sessions] /\ toRevoke'[r] = LiveSessionsOf(target[r])
    BY <1>6, <1>t, <1>s DEF RevokeForDeletion
  <2>2. \/ lock[target[r]] = r /\ users[target[r]].state = "present"
        \/ lock[target[r]] # r /\ Deleted(target[r])
    BY <1>6 DEF RevokeForDeletion, IInv, LockDiscipline
  <2> QED BY <1>6, <1>t, <2>1, <2>2, Bound, MoveKeepsInv DEF RevokeForDeletion
<1>7. CASE PatchRevoke(r)
  <2>1. /\ toRevoke' \in [Reqs -> SUBSET Sessions]
        /\ patch[r].pwd \/ patch[r].active = "off" =>
              toRevoke'[r] = LiveSessionsOf(target[r])
    <3>1. patch[r].pwd \/ patch[r].active = "off" => patch[r].ends
      BY <1>t DEF Patch
    <3> QED BY <1>7, <1>t, <1>s, <3>1 DEF PatchRevoke
  <2>2. patch[r].pwd => users[target[r]].pwd < MaxPwd
    BY <1>7 DEF PatchRevoke, IInv, PendingRevocation
  <2> QED BY <1>7, <1>t, <2>1, <2>2, Bound, MoveKeepsInv DEF PatchRevoke
<1>8. ASSUME NEW R \in SUBSET Roles, DiffRoles(r, R), target[r] \in Users
      PROVE  /\ drop' \in [Reqs -> SUBSET OwnedRow]
             /\ add' \in [Reqs -> SUBSET OwnedRow]
  <2>1. {RoleRow(target[r], c) : c \in R} \subseteq OwnedRow
    BY <1>8 DEF RoleRow, OwnedRow
  <2> QED BY <1>8, <1>t, <1>r, <2>1 DEF DiffRoles
<1>9. CASE \E R \in SUBSET Roles : PatchRoles(r, R)
  <2>1. PICK R \in SUBSET Roles : PatchRoles(r, R)
    BY <1>9
  <2>2. patch[r].pwd => users[target[r]].pwd < MaxPwd
    BY <2>1 DEF PatchRoles, IInv, PendingRevocation
  <2> QED BY <2>1, <2>2, <1>t, <1>8, Bound, MoveKeepsInv DEF PatchRoles
<1>10. CASE \E R \in SUBSET Roles : PutRolesDiff(r, R)
  <2>1. PICK R \in SUBSET Roles : PutRolesDiff(r, R)
    BY <1>10
  <2>2. CASE {RoleRow(target[r], c) : c \in R} = RowsOf(target[r], "user_roles")
    BY <2>1, <2>2, EndKeepsInv DEF PutRolesDiff
  <2>3. CASE {RoleRow(target[r], c) : c \in R} # RowsOf(target[r], "user_roles")
    BY <2>1, <2>3, <1>t, <1>8, Bound, MoveKeepsInv DEF PutRolesDiff
  <2> QED BY <2>2, <2>3
<1> QED BY <1>1, <1>2, <1>3, <1>5, <1>6, <1>7, <1>9, <1>10

\* replace_auth_session adds one live session, of account u, and nothing else.
LEMMA ReplaceSessionAdds ==
  ASSUME IInv, NEW r \in Reqs, NEW u \in Users, NEW n \in Sessions,
         NEW via \in {"login", "register", "oidc"}, ReplaceSession(r, u, n, via)
  PROVE  /\ sessions' \in [Sessions -> Session] /\ revoked' \subseteq Sessions
         /\ revoked \subseteq revoked'
         /\ sessions'[n].user = u /\ sessions'[n].via = via
         /\ \A s \in Sessions \ {n} : sessions'[s] = sessions[s]
         /\ sessions[n].user = NoUser
         /\ \A u2 \in Users \ {u} : LiveSessionsOf(u2)' \subseteq LiveSessionsOf(u2)
<1>1. NewSession(u, via, basis[r]) \in Session
  BY DEF NewSession, Session, IInv, TypeOK
<1>2. sessions' = [sessions EXCEPT ![n] = NewSession(u, via, basis[r])] /\ sessions[n].user = NoUser
  BY DEF ReplaceSession, Unused
<1>3. sessions' \in [Sessions -> Session] /\ \A s \in Sessions \ {n} : sessions'[s] = sessions[s]
  BY <1>1, <1>2 DEF IInv, TypeOK
<1>4. sessions'[n].user = u /\ sessions'[n].via = via
  BY <1>2 DEF NewSession, IInv, TypeOK
<1>5. revoked' \subseteq Sessions /\ revoked \subseteq revoked'
  BY DEF ReplaceSession, IInv, TypeOK
<1> QED BY <1>2, <1>3, <1>4, <1>5 DEF LiveSessionsOf

\* Facts of IInv that every commit starts from.
LEMMA CommitFacts ==
  ASSUME IInv
  PROVE  /\ users \in [Users -> User] /\ sessions \in [Sessions -> Session]
         /\ revoked \subseteq Sessions /\ owned \subseteq OwnedRow
         /\ marks \in [Users -> Nat]
         /\ add \in [Reqs -> SUBSET OwnedRow] /\ toRevoke \in [Reqs -> SUBSET Sessions]
         /\ \A u \in Users : marks[u] = IF users[u].state = "deleted" THEN 1 ELSE 0
         /\ \A s \in Sessions, u \in Users :
              sessions[s].user = u => users[u].state # "absent"
         /\ \A s \in Sessions, u \in Users :
              sessions[s].user = u /\ s \notin revoked /\ users[u].state = "deleted"
                => sessions[s].via = "login"
         /\ \A u \in Users : lock[u] # NoReq => target[lock[u]] = u
BY DEF IInv, TypeOK, DeletionAuditedOnce, OnlyPasswordLoginOutlivesDeletion, Binding,
   LockDiscipline, Deleted

\* A session of an account that exists keeps IInv when nobody else has locked the
\* account, and the account is alive or the session came from a password login.
LEMMA LoginCommitKeepsInv ==
  ASSUME IInv, NEW r \in Reqs, NEW u \in Users, NEW n \in Sessions,
         NEW via \in {"login", "register", "oidc"}, ReplaceSession(r, u, n, via), End(r),
         users' \in [Users -> User], owned' \subseteq OwnedRow, marks' = marks,
         \A u2 \in Users \ {u} : users'[u2] = users[u2],
         lock[u] \notin Reqs \ {r},
         \/ users'[u] = users[u] /\ users[u].state # "absent"
         \/ users[u].state = "absent" /\ users'[u].state = "present",
         users[u].state = "deleted" => via = "login"
  PROVE  IInv'
<1>1. DeletionAuditedOnce'
  BY CommitFacts DEF DeletionAuditedOnce, Deleted
<1>2. OnlyPasswordLoginOutlivesDeletion'
  BY CommitFacts, ReplaceSessionAdds DEF OnlyPasswordLoginOutlivesDeletion, Deleted
<1>3. \A s \in Sessions, u2 \in Users : sessions'[s].user = u2 => users'[u2].state # "absent"
  BY CommitFacts, ReplaceSessionAdds
<1>4. \A s \in Sessions : sessions[s].user # NoUser => sessions'[s].user # NoUser
  BY ReplaceSessionAdds
<1>5. \A u2 \in Users : lock[u2] \in Reqs \ {r} =>
        users'[u2] = users[u2] /\ LiveSessionsOf(u2)' \subseteq LiveSessionsOf(u2)
  BY ReplaceSessionAdds
<1>6. \A u2 \in Users : users[u2].state # "absent" => users'[u2].state = users[u2].state
  OBVIOUS
<1>7. \A u2 \in Users : Deleted(u2) => users'[u2].state = "deleted"
  BY <1>6 DEF Deleted
<1>8. sessions' \in [Sessions -> Session] /\ revoked' \subseteq Sessions /\ marks' \in [Users -> Nat]
  BY ReplaceSessionAdds, CommitFacts
<1> QED BY <1>1, <1>2, <1>3, <1>4, <1>5, <1>6, <1>7, <1>8, CommitKeepsInv

\* The three kinds of login and the registration.
LEMMA SessionCommitsKeepInv ==
  ASSUME IInv, NEW r \in Reqs, NEW n \in Sessions,
         \/ LoginCommit(r, n) \/ OidcCommit(r, n)
         \/ \E u \in Users : RegisterCommit(r, u, n) \/ OidcProvision(r, u, n)
  PROVE  IInv'
<1> USE AccountsAssumption DEF At
<1>1. CASE LoginCommit(r, n)
  <2>1. target[r] \in Users /\ users[target[r]].state # "absent" /\ lock[target[r]] = r
    BY <1>1, Bound DEF LoginCommit, UnboundLabels, LockedLabels
  <2> QED BY <1>1, <2>1, CommitFacts, LoginCommitKeepsInv DEF LoginCommit
<1>2. CASE OidcCommit(r, n)
  <2>1. target[r] \in Users /\ users[target[r]].state # "absent" /\ lock[target[r]] = r
    BY <1>2, Bound DEF OidcCommit, UnboundLabels, LockedLabels
  <2>2. CASE Deleted(target[r])
    BY <1>2, <2>2, EndKeepsInv DEF OidcCommit, dbVars
  <2>3. CASE ~Deleted(target[r])
    BY <1>2, <2>1, <2>3, CommitFacts, LoginCommitKeepsInv DEF OidcCommit, Deleted
  <2> QED BY <2>2, <2>3
<1>3. ASSUME NEW u \in Users, users[u].state = "absent"
      PROVE  lock[u] = NoReq
  <2>1. lock[u] \in Reqs => target[lock[u]] = u /\ pc[lock[u]] \notin UnboundLabels
    BY DEF IInv, LockDiscipline, LockedLabels, MarkedLabels, UnboundLabels
  <2>2. lock[u] \notin Reqs
    BY <1>3, <2>1, Bound
  <2> QED BY <2>2 DEF IInv, TypeOK
<1>4. ASSUME NEW u \in Users, RegisterCommit(r, u, n) PROVE IInv'
  <2>1. CASE WithEmail(mail[r]) # {}
    BY <1>4, <2>1, EndKeepsInv DEF RegisterCommit, dbVars
  <2>2. CASE WithEmail(mail[r]) = {}
    <3>1. [state |-> "present", active |-> TRUE, email |-> mail[r], pwd |-> basis[r]] \in User
      BY <1>4 DEF RegisterCommit, User, IInv, TypeOK, Binding
    <3>2. /\ users' \in [Users -> User] /\ users'[u].state = "present"
          /\ \A u2 \in Users \ {u} : users'[u2] = users[u2]
      <4>1. users' = [users EXCEPT ![u] = [state |-> "present", active |-> TRUE,
                                           email |-> mail[r], pwd |-> basis[r]]]
        BY <1>4, <2>2 DEF RegisterCommit
      <4> QED BY <4>1, <3>1, CommitFacts
    <3> QED BY <1>3, <1>4, <2>2, <3>2, CommitFacts, LoginCommitKeepsInv DEF RegisterCommit
  <2> QED BY <2>1, <2>2
<1>5. ASSUME NEW u \in Users, OidcProvision(r, u, n) PROVE IInv'
  <2>1. CASE WithEmail(mail[r]) # {} \/ ~NoIdentity(subject[r])
    BY <1>5, <2>1, EndKeepsInv DEF OidcProvision, dbVars
  <2>2. CASE WithEmail(mail[r]) = {} /\ NoIdentity(subject[r])
    <3>1. [state |-> "present", active |-> TRUE, email |-> mail[r], pwd |-> 0] \in User
      BY <1>5 DEF OidcProvision, User, IInv, TypeOK, Binding
    <3>2. /\ users' \in [Users -> User] /\ users'[u].state = "present"
          /\ \A u2 \in Users \ {u} : users'[u2] = users[u2]
      <4>1. users' = [users EXCEPT ![u] = [state |-> "present", active |-> TRUE,
                                           email |-> mail[r], pwd |-> 0]]
        BY <1>5, <2>2 DEF OidcProvision
      <4> QED BY <4>1, <3>1, CommitFacts
    <3>3. IdentityRow(u, subject[r]) \in OwnedRow
      BY <1>5 DEF OidcProvision, IInv, Binding, IdentityRow, OwnedRow
    <3>4. owned' \subseteq OwnedRow
      BY <1>5, <2>2, <3>3, CommitFacts DEF OidcProvision
    <3> QED BY <1>3, <1>5, <2>2, <3>2, <3>4, LoginCommitKeepsInv DEF OidcProvision
  <2> QED BY <2>1, <2>2
<1> QED BY <1>1, <1>2, <1>4, <1>5

\* A commit that only revokes sessions and changes owned rows keeps IInv.
LEMMA RevokeKeepsInv ==
  ASSUME IInv, NEW r \in Reqs, End(r), UNCHANGED <<users, sessions, marks>>,
         revoked \subseteq revoked', revoked' \subseteq Sessions, owned' \subseteq OwnedRow
  PROVE  IInv'
<1>1. \A u \in Users : LiveSessionsOf(u)' \subseteq LiveSessionsOf(u)
  BY DEF LiveSessionsOf
<1>2. DeletionAuditedOnce' /\ OnlyPasswordLoginOutlivesDeletion'
  BY CommitFacts DEF DeletionAuditedOnce, OnlyPasswordLoginOutlivesDeletion, Deleted
<1> QED BY <1>1, <1>2, CommitFacts, CommitKeepsInv DEF Deleted

\* Authentication, logout, item creation and role replacement.
LEMMA OtherCommitsKeepInv ==
  ASSUME IInv, NEW r \in Reqs,
         \/ AuthLoadUser(r) \/ Answer(r) \/ LogoutCommit(r) \/ PutRolesCommit(r) \/ Abort(r)
         \/ \E i \in Items : CreateItem(r, i)
  PROVE  IInv'
<1> USE AccountsAssumption DEF At
<1>1. CASE Answer(r) \/ Abort(r)
  BY <1>1, EndKeepsInv DEF Answer, Abort
<1>2. CASE LogoutCommit(r)
  <2>1. cookie[r] \in Sessions
    BY <1>2 DEF LogoutCommit, IInv, Binding
  <2> QED BY <1>2, <2>1, CommitFacts, RevokeKeepsInv DEF LogoutCommit
<1>3. CASE PutRolesCommit(r)
  BY <1>3, CommitFacts, RevokeKeepsInv DEF PutRolesCommit
<1>4. ASSUME NEW i \in Items, CreateItem(r, i) PROVE IInv'
  <2>1. ItemRow(target[r], i) \in OwnedRow
    BY <1>4, Bound DEF CreateItem, UnboundLabels, ItemRow, OwnedRow
  <2> QED BY <1>4, <2>1, CommitFacts, RevokeKeepsInv DEF CreateItem
<1>5. CASE AuthLoadUser(r)
  <2> DEFINE u == sessions[cookie[r]].user
  <2>1. u \in Users /\ users[u].state # "absent" /\ pc[r] = "auth_found"
    BY <1>5, CommitFacts DEF AuthLoadUser, IInv, Binding, Session
  <2>2. CASE Deleted(u) \/ ~users[u].active
    <3>1. LiveSessionsOf(u) \subseteq Sessions
      BY DEF LiveSessionsOf
    <3> QED BY <1>5, <2>2, <3>1, CommitFacts, RevokeKeepsInv DEF AuthLoadUser
  <2>3. CASE ~Deleted(u) /\ users[u].active
    <3>1. /\ pc' = [pc EXCEPT ![r] = "served"] /\ target' = [target EXCEPT ![r] = u]
          /\ UNCHANGED <<users, sessions, revoked, owned, marks, lock, patch, toRevoke, drop,
                         add, cookie, basis, mail, subject, dead>>
      BY <1>5, <2>3 DEF AuthLoadUser, Goto, dbVars, pending
    <3> HIDE DEF u
    <3>t. TypeOK /\ Binding /\ LockDiscipline /\ PendingRevocation
      BY DEF IInv
    <3>2. TypeOK'
      BY <3>1, <3>t, <2>1 DEF TypeOK, Labels
    <3>3. LockDiscipline'
      BY <3>1, <3>t, <2>1 DEF TypeOK, LockDiscipline, LockedLabels, MarkedLabels, Deleted
    <3>4. Binding'
      <4>1. u \notin dead[r]
        BY <3>t, <2>3 DEF Binding
      <4> QED BY <3>1, <3>t, <2>1, <4>1 DEF TypeOK, Binding, UnboundLabels, Deleted
    <3>5. PendingRevocation'
      BY <3>1, <3>t, <2>1 DEF TypeOK, PendingRevocation, LiveSessionsOf
    <3>6. DeletionAuditedOnce' /\ OnlyPasswordLoginOutlivesDeletion'
      BY <3>1 DEF IInv, DeletionAuditedOnce, OnlyPasswordLoginOutlivesDeletion, Deleted
    <3> QED BY <3>2, <3>3, <3>4, <3>5, <3>6 DEF IInv
  <2> QED BY <2>2, <2>3
<1> QED BY <1>1, <1>2, <1>3, <1>4, <1>5

\* mark_user_deleted's winner finds the account present, its toRevoke complete.
LEMMA CommitDeletionKeepsInv ==
  ASSUME IInv, NEW r \in Reqs, CommitDeletion(r)
  PROVE  IInv'
<1> DEFINE u == target[r]
<1>1. u \in Users /\ pc[r] = "del_commit"
  BY Bound DEF CommitDeletion, At, UnboundLabels
<1>2. \/ lock[u] = r /\ users[u].state = "present"
      \/ lock[u] # r /\ Deleted(u)
  BY <1>1 DEF IInv, LockDiscipline, MarkedLabels
<1>3. /\ End(r) /\ sessions' = sessions /\ revoked' = revoked \cup toRevoke[r]
      /\ owned' = owned \ drop[r]
  BY DEF CommitDeletion
<1>4. CASE lock[u] # r
  BY <1>3, <1>4, CommitFacts, RevokeKeepsInv DEF CommitDeletion
<1>5. CASE lock[u] = r
  <2>1. users' = [users EXCEPT ![u].state = "deleted"] /\ marks' = [marks EXCEPT ![u] = @ + 1]
    BY <1>5 DEF CommitDeletion
  <2>2. LiveSessionsOf(u) \subseteq toRevoke[r]
    BY <1>1, <1>5 DEF IInv, PendingRevocation
  <2>3. users[u].state = "present"
    BY <1>2, <1>5
  <2> HIDE DEF u
  <2>4. /\ users' \in [Users -> User] /\ marks' \in [Users -> Nat]
        /\ users'[u].state = "deleted" /\ marks'[u] = 1
        /\ \A u2 \in Users \ {u} : users'[u2] = users[u2] /\ marks'[u2] = marks[u2]
    BY <1>1, <2>1, <2>3, CommitFacts DEF User
  <2>5. DeletionAuditedOnce'
    BY <2>4, CommitFacts DEF DeletionAuditedOnce, Deleted
  <2>6. OnlyPasswordLoginOutlivesDeletion'
    BY <1>3, <2>2, <2>4, CommitFacts DEF OnlyPasswordLoginOutlivesDeletion, Deleted, LiveSessionsOf
  <2>7. \A u2 \in Users : LiveSessionsOf(u2)' \subseteq LiveSessionsOf(u2)
    BY <1>3 DEF LiveSessionsOf
  <2>8. /\ \A u2 \in Users : lock[u2] \in Reqs \ {r} => users'[u2] = users[u2]
        /\ \A u2 \in Users : Deleted(u2) => users'[u2].state = "deleted"
        /\ \A u2 \in Users : users[u2].state # "absent" => users'[u2].state # "absent"
        /\ \A s \in Sessions, u2 \in Users :
              sessions'[s].user = u2 => users'[u2].state # "absent"
    BY <1>3, <1>5, <2>4, CommitFacts DEF Deleted
  <2>9. revoked' \subseteq Sessions /\ owned' \subseteq OwnedRow
    BY <1>3, CommitFacts
  <2> QED BY <1>3, <2>4, <2>5, <2>6, <2>7, <2>8, <2>9, CommitFacts, CommitKeepsInv
<1> QED BY <1>4, <1>5

\* What PatchCommit makes of the row of its target.
LEMMA PatchedRow ==
  ASSUME IInv, NEW r \in Reqs, PatchCommit(r), add[r] \cap owned = {}
  PROVE  /\ target[r] \in Users /\ lock[target[r]] = r
         /\ users' \in [Users -> User]
         /\ \A u2 \in Users \ {target[r]} : users'[u2] = users[u2]
         /\ users'[target[r]].state = users[target[r]].state
         /\ users'[target[r]].pwd # users[target[r]].pwd => patch[r].pwd
         /\ users[target[r]].active /\ ~users'[target[r]].active => patch[r].active = "off"
<1> DEFINE u == target[r]
           p == patch[r]
           row == Patched(users[u], p)
<1>1. u \in Users /\ lock[u] = r /\ users[u] \in User /\ p \in Patch
  BY Bound DEF PatchCommit, At, UnboundLabels, LockedLabels, IInv, TypeOK
<1>2. p.pwd => users[u].pwd < MaxPwd
  BY DEF PatchCommit, At, IInv, PendingRevocation
<1>3. users' = [users EXCEPT ![u] = row]
  BY DEF PatchCommit
<1>4. /\ row.state = users[u].state /\ row.pwd = (IF p.pwd THEN users[u].pwd + 1 ELSE users[u].pwd)
      /\ row.active = ((p.active = "on") \/ (p.active = "keep" /\ users[u].active))
      /\ row.email = (IF p.email = NoEmail THEN users[u].email ELSE p.email)
      /\ row = [state |-> row.state, active |-> row.active, email |-> row.email, pwd |-> row.pwd]
  BY <1>1 DEF User, Patched
<1>5. row.pwd \in 0..MaxPwd
  BY <1>1, <1>2, <1>4, AccountsAssumption DEF User
<1>6. row.email \in Emails
  BY <1>1, <1>4 DEF User, Patch
<1>7. row.active \in BOOLEAN
  BY <1>4
<1>8. row.state \in {"absent", "present", "deleted"}
  BY <1>1, <1>4 DEF User
<1> HIDE DEF row
<1>9. row \in User
  BY <1>4, <1>5, <1>6, <1>7, <1>8 DEF User
<1>10. p.active \in {"keep", "on", "off"}
  BY <1>1 DEF Patch
<1>11. users[u].active /\ ~row.active => p.active = "off"
  BY <1>4, <1>10
<1>12. users'[u] = row /\ users' \in [Users -> User]
       /\ \A u2 \in Users \ {u} : users'[u2] = users[u2]
  BY <1>1, <1>3, <1>9, CommitFacts
<1>13. row.pwd # users[u].pwd => p.pwd
  BY <1>4
<1> QED BY <1>1, <1>4, <1>11, <1>12, <1>13

LEMMA PatchCommitKeepsInv ==
  ASSUME IInv, NEW r \in Reqs, PatchCommit(r)
  PROVE  IInv'
<1>1. CASE add[r] \cap owned # {}
  BY <1>1, EndKeepsInv DEF PatchCommit
<1>2. CASE add[r] \cap owned = {}
  <2>1. /\ End(r) /\ revoked' = revoked \cup toRevoke[r] /\ sessions' = sessions
        /\ owned' = (owned \ drop[r]) \cup add[r] /\ marks' = marks
    BY <1>2 DEF PatchCommit
  <2>2. \A u2 \in Users : users'[u2].state = users[u2].state
    BY <1>2, PatchedRow
  <2>3. DeletionAuditedOnce' /\ OnlyPasswordLoginOutlivesDeletion'
    BY <2>1, <2>2, CommitFacts DEF DeletionAuditedOnce, OnlyPasswordLoginOutlivesDeletion, Deleted
  <2>4. \A u2 \in Users : LiveSessionsOf(u2)' \subseteq LiveSessionsOf(u2)
    BY <2>1 DEF LiveSessionsOf
  <2>5. /\ \A u2 \in Users : lock[u2] \in Reqs \ {r} => users'[u2] = users[u2]
        /\ \A u2 \in Users : Deleted(u2) => users'[u2].state = "deleted"
        /\ \A u2 \in Users : users[u2].state # "absent" => users'[u2].state # "absent"
        /\ \A s \in Sessions, u2 \in Users :
              sessions'[s].user = u2 => users'[u2].state # "absent"
    BY <1>2, <2>1, <2>2, PatchedRow, CommitFacts DEF Deleted
  <2>6. users' \in [Users -> User] /\ revoked' \subseteq Sessions /\ owned' \subseteq OwnedRow
    BY <1>2, <2>1, PatchedRow, CommitFacts
  <2> QED BY <2>1, <2>3, <2>4, <2>5, <2>6, CommitFacts, CommitKeepsInv
<1> QED BY <1>1, <1>2

LEMMA AdminCreateKeepsInv ==
  ASSUME IInv, NEW u \in Users, NEW e \in Emails, NEW on \in BOOLEAN, NEW R \in SUBSET Roles,
         AdminCreate(u, e, on, R)
  PROVE  IInv'
<1> USE AccountsAssumption
<1> DEFINE row == [state |-> "present", active |-> on, email |-> e, pwd |-> 1]
<1>1. /\ users' = [users EXCEPT ![u] = row] /\ users[u].state = "absent"
      /\ owned' = owned \cup {RoleRow(u, c) : c \in R}
      /\ UNCHANGED <<sessions, revoked, marks, lock, pc, target, cookie, basis, mail, subject,
                     dead, patch, toRevoke, drop, add>>
  BY DEF AdminCreate, bound, pending
<1>2. row \in User
  BY DEF User
<1>3. {RoleRow(u, c) : c \in R} \subseteq OwnedRow
  BY DEF RoleRow, OwnedRow
<1>4. /\ users' \in [Users -> User] /\ users'[u].state = "present"
      /\ \A u2 \in Users \ {u} : users'[u2] = users[u2]
  BY <1>1, <1>2, CommitFacts
<1>t. TypeOK /\ Binding /\ LockDiscipline /\ PendingRevocation
  BY DEF IInv
<1>5. TypeOK'
  BY <1>1, <1>3, <1>4, <1>t DEF TypeOK
<1>6. \A r \in Reqs : pc[r] \notin UnboundLabels => target[r] \in Users \ {u}
  BY <1>1, <1>t DEF Binding
<1>7. LockDiscipline'
  BY <1>1, <1>4, <1>6, <1>t DEF LockDiscipline, Deleted, LockedLabels, MarkedLabels, UnboundLabels
<1>8. Binding'
  <2>1. \A r \in Reqs : u \notin dead[r] /\ dead[r] \subseteq Users
    BY <1>1, <1>t DEF Binding, TypeOK, Deleted
  <2> QED BY <1>1, <1>4, <1>6, <1>t, <2>1 DEF Binding, Deleted
<1>9. PendingRevocation'
  BY <1>1, <1>4, <1>6, <1>t DEF PendingRevocation, LiveSessionsOf, UnboundLabels
<1>10. DeletionAuditedOnce' /\ OnlyPasswordLoginOutlivesDeletion'
  BY <1>1, <1>4, CommitFacts DEF DeletionAuditedOnce, OnlyPasswordLoginOutlivesDeletion, Deleted
<1> QED BY <1>5, <1>7, <1>8, <1>9, <1>10 DEF IInv

LEMMA NextKeepsInv == IInv /\ [Next]_vars => IInv'
<1> SUFFICES ASSUME IInv, [Next]_vars PROVE IInv'
  OBVIOUS
<1>1. ASSUME NEW r \in Reqs, Step(r) PROVE IInv'
  BY <1>1, StatementsKeepInv, SessionCommitsKeepInv, OtherCommitsKeepInv, CommitDeletionKeepsInv,
     PatchCommitKeepsInv DEF Step
<1>2. CASE UNCHANGED vars
  <2>1. UNCHANGED <<users, sessions, revoked, owned, marks, lock, pc, target, cookie, basis, mail,
                    subject, dead, patch, toRevoke, drop, add>>
    BY <1>2 DEF vars, dbVars, bound, pending
  <2>2. TypeOK' /\ LockDiscipline' /\ Binding'
    BY <2>1 DEF IInv, TypeOK, LockDiscipline, Binding, Deleted
  <2>3. PendingRevocation' /\ DeletionAuditedOnce' /\ OnlyPasswordLoginOutlivesDeletion'
    BY <2>1 DEF IInv, PendingRevocation, LiveSessionsOf, DeletionAuditedOnce,
       OnlyPasswordLoginOutlivesDeletion, Deleted
  <2> QED BY <2>2, <2>3 DEF IInv
<1> QED
  BY <1>1, <1>2, ArriveKeepsInv, LockStepKeepsInv, OtherCommitsKeepInv, AdminCreateKeepsInv
  DEF Next

-----------------------------------------------------------------------------
(* The theorems. *)

\* The inductive invariant holds in every reachable state.
THEOREM Invariance == Spec => []IInv
BY InitInv, NextKeepsInv, PTL DEF Spec

\* Every variable has its type.
THEOREM TypeCorrect == Spec => []TypeOK
<1>1. IInv => TypeOK
  BY DEF IInv
<1> QED BY <1>1, Invariance, PTL

\* However many deletions of an account race, mark_user_deleted writes exactly one
\* USER_MARKED_DELETED row for it, and none for an account that is not deleted.
THEOREM AuditedOnce == Spec => []DeletionAuditedOnce
<1>1. IInv => DeletionAuditedOnce
  BY DEF IInv
<1> QED BY <1>1, Invariance, PTL

\* A live session of a deleted account was issued by AuthUsecase.login, never by
\* a registration or an OIDC login.
THEOREM OnlyLoginOutlives == Spec => []OnlyPasswordLoginOutlivesDeletion
<1>1. IInv => OnlyPasswordLoginOutlivesDeletion
  BY DEF IInv
<1> QED BY <1>1, Invariance, PTL

\* authenticate_session serves nobody as an account that was already deleted when
\* the request began.
THEOREM NotServed == Spec => []NotServedAfterDeletion
<1>1. IInv => NotServedAfterDeletion
  BY DEF IInv, Binding, NotServedAfterDeletion
<1> QED BY <1>1, Invariance, PTL

\* Deleting an account, deactivating it and changing its password revoke every
\* session it has, in the same commit: PendingRevocation holds at that commit.
LEMMA StatusChangeStep == IInv /\ Next => StatusChange
<1> SUFFICES ASSUME IInv, Next PROVE StatusChange
  OBVIOUS
<1>1. ASSUME users' = users PROVE StatusChange
  BY <1>1 DEF StatusChange
<1>2. ASSUME NEW u \in Users, users[u].state = "absent",
             \A u2 \in Users \ {u} : users'[u2] = users[u2]
      PROVE  StatusChange
  <2>1. {s \in Sessions : sessions[s].user = u} = {}
    BY <1>2, CommitFacts
  <2> QED BY <1>2, <2>1 DEF StatusChange
<1>3. ASSUME NEW r \in Reqs, CommitDeletion(r) PROVE StatusChange
  <2>1. CASE lock[target[r]] # r
    BY <1>1, <1>3, <2>1 DEF CommitDeletion
  <2>2. CASE lock[target[r]] = r
    <3>1. /\ users' = [users EXCEPT ![target[r]].state = "deleted"]
          /\ revoked' = revoked \cup toRevoke[r]
          /\ LiveSessionsOf(target[r]) \subseteq toRevoke[r]
      BY <1>3, <2>2 DEF CommitDeletion, At, IInv, PendingRevocation
    <3>2. \A u2 \in Users \ {target[r]} : users'[u2] = users[u2]
      BY <3>1, CommitFacts
    <3>3. {s \in Sessions : sessions[s].user = target[r]} \subseteq revoked'
      BY <3>1 DEF LiveSessionsOf
    <3> QED BY <3>2, <3>3 DEF StatusChange
  <2> QED BY <2>1, <2>2
<1>4. ASSUME NEW r \in Reqs, PatchCommit(r) PROVE StatusChange
  <2>1. CASE add[r] \cap owned # {}
    BY <1>1, <1>4, <2>1 DEF PatchCommit, dbVars
  <2>2. CASE add[r] \cap owned = {}
    <3>1. patch[r].pwd \/ patch[r].active = "off" =>
            {s \in Sessions : sessions[s].user = target[r]} \subseteq revoked'
      BY <1>4, <2>2 DEF PatchCommit, At, IInv, PendingRevocation, LiveSessionsOf
    <3> QED BY <1>4, <2>2, <3>1, PatchedRow DEF StatusChange
  <2> QED BY <2>1, <2>2
<1>5. ASSUME NEW r \in Reqs, NEW u \in Users, NEW n \in Sessions,
             RegisterCommit(r, u, n) \/ OidcProvision(r, u, n)
      PROVE  StatusChange
  <2>1. users[u].state = "absent" /\ \A u2 \in Users \ {u} : users'[u2] = users[u2]
    BY <1>5, CommitFacts DEF RegisterCommit, OidcProvision
  <2> QED BY <1>2, <2>1
<1>6. ASSUME NEW u \in Users, NEW e \in Emails, NEW on \in BOOLEAN, NEW R \in SUBSET Roles,
             AdminCreate(u, e, on, R)
      PROVE  StatusChange
  <2>1. users[u].state = "absent" /\ \A u2 \in Users \ {u} : users'[u2] = users[u2]
    BY <1>6, CommitFacts DEF AdminCreate
  <2> QED BY <1>2, <2>1
<1>7. ASSUME NEW r \in Reqs, Arrive(r) PROVE users' = users
  BY <1>7 DEF Arrive, LoginVerify, RegisterCheck, OidcFindIdentity, OidcFindLink, OidcFindNobody,
     AuthFind, LogoutFind, AdminDelete, PatchLoad, PutRolesLoad, Begin, dbVars
<1>8. ASSUME NEW r \in Reqs, LockStep(r) \/ Abort(r) PROVE users' = users
  BY <1>8 DEF LockStep, LoginUpdate, OidcUpdate, MarkUserDeleted, PutRolesUpdate, PatchUpdate,
     Abort, dbVars
<1>9. ASSUME NEW r \in Reqs, Step(r) PROVE StatusChange
  <2>1. \/ CommitDeletion(r) \/ PatchCommit(r)
        \/ \E u \in Users, n \in Sessions : RegisterCommit(r, u, n) \/ OidcProvision(r, u, n)
        \/ users' = users
    BY <1>9 DEF Step, LoginLoad, LoginCommit, OidcInsertIdentity, OidcCommit, AuthLoadUser,
       Answer, CreateItem, LogoutCommit, SelfDelete, DeleteItems, DeleteRoles, DeleteIdentities,
       DeleteRows, RevokeForDeletion, PatchRoles, PatchRevoke, PutRolesDiff, PutRolesCommit, dbVars
  <2> QED BY <2>1, <1>1, <1>3, <1>4, <1>5
<1> QED BY <1>1, <1>6, <1>7, <1>8, <1>9 DEF Next

\* A status change by a request of the API revokes, in its own commit, every session
\* that the account has.
THEOREM RevokesAll == Spec => StatusChangeRevokesAll
BY Invariance, StatusChangeStep, PTL DEF Spec, StatusChangeRevokesAll

LEMMA PendingRowsStep == IInv /\ PendingRows /\ [Next]_vars => PendingRows'
<1> SUFFICES ASSUME IInv, PendingRows, [Next]_vars PROVE PendingRows'
  OBVIOUS
<1> USE DEF UnboundLabels
<1>t. /\ pc \in [Reqs -> Labels] /\ target \in [Reqs -> Users \cup {NoUser}]
      /\ add \in [Reqs -> SUBSET OwnedRow]
  BY DEF IInv, TypeOK
<1>1. ASSUME NEW r \in Reqs, End(r) PROVE PendingRows'
  BY <1>1, <1>t DEF End, PendingRows
<1>2. ASSUME NEW r \in Reqs, NEW l, NEW u, NEW s, NEW p, NEW e, NEW q,
             Begin(r, l, u, s, p, e, q)
      PROVE  PendingRows'
  BY <1>2, <1>t DEF Begin, Idle, pending, PendingRows
<1>3. ASSUME NEW r \in Reqs, NEW l, Goto(r, l), l \notin UnboundLabels, add' = add,
             \/ target' = target
             \/ pc[r] = "auth_found" /\ \E u : target' = [target EXCEPT ![r] = u]
      PROVE  PendingRows'
  BY <1>3, <1>t DEF Goto, PendingRows
<1>4. ASSUME NEW r \in Reqs, NEW l, Goto(r, l), l \notin UnboundLabels, target' = target,
             NEW D, add' = [add EXCEPT ![r] = D], \A x \in D : x.owner = target[r]
      PROVE  PendingRows'
  BY <1>4, <1>t DEF Goto, PendingRows
<1>5. CASE UNCHANGED vars
  BY <1>5 DEF vars, bound, pending, PendingRows
<1>6. ASSUME NEW r \in Reqs, Arrive(r) PROVE PendingRows'
  BY <1>6, <1>2 DEF Arrive, LoginVerify, RegisterCheck, OidcFindIdentity, OidcFindLink,
     OidcFindNobody, AuthFind, LogoutFind, AdminDelete, PatchLoad, PutRolesLoad
<1>7. ASSUME NEW r \in Reqs, LockStep(r) PROVE PendingRows'
  BY <1>7, <1>1, <1>3 DEF LockStep, LoginUpdate, OidcUpdate, MarkUserDeleted, PutRolesUpdate,
     PatchUpdate, bound, pending
<1>8. ASSUME NEW r \in Reqs, OidcInsertIdentity(r) PROVE PendingRows'
  <2> DEFINE D == {IdentityRow(target[r], subject[r])}
  <2>1. \A x \in D : x.owner = target[r]
    BY DEF IdentityRow
  <2>2. \/ End(r)
        \/ target' = target /\ add' = [add EXCEPT ![r] = D] /\ Goto(r, "oidc_loaded")
    BY <1>8 DEF OidcInsertIdentity, bound
  <2> HIDE DEF D
  <2> QED BY <1>1, <1>4, <2>1, <2>2
<1>9. ASSUME NEW r \in Reqs, NEW R \in SUBSET Roles, PatchRoles(r, R) \/ PutRolesDiff(r, R)
      PROVE  PendingRows'
  <2> DEFINE D == {RoleRow(target[r], c) : c \in R} \ RowsOf(target[r], "user_roles")
  <2>1. \A x \in D : x.owner = target[r]
    BY DEF RoleRow
  <2>2. \/ End(r)
        \/ /\ target' = target /\ add' = [add EXCEPT ![r] = D]
           /\ Goto(r, "patch_roles") \/ Goto(r, "put_diffed")
    BY <1>9 DEF PatchRoles, PutRolesDiff, DiffRoles, bound
  <2> HIDE DEF D
  <2> QED BY <1>1, <1>4, <2>1, <2>2
<1>10. ASSUME NEW r \in Reqs, AuthLoadUser(r) PROVE PendingRows'
  BY <1>10, <1>1, <1>3 DEF AuthLoadUser, At, pending
<1>11. ASSUME NEW r \in Reqs, Step(r) PROVE PendingRows'
  <2>1. CASE LoginLoad(r) \/ SelfDelete(r) \/ DeleteItems(r) \/ DeleteRoles(r)
             \/ DeleteIdentities(r) \/ RevokeForDeletion(r) \/ PatchRevoke(r)
    BY <2>1, <1>1, <1>3 DEF LoginLoad, SelfDelete, DeleteItems, DeleteRoles, DeleteIdentities,
       DeleteRows, RevokeForDeletion, PatchRevoke, bound, pending
  <2>2. \/ LoginLoad(r) \/ SelfDelete(r) \/ DeleteItems(r) \/ DeleteRoles(r)
        \/ DeleteIdentities(r) \/ RevokeForDeletion(r) \/ PatchRevoke(r)
        \/ OidcInsertIdentity(r) \/ AuthLoadUser(r)
        \/ \E R \in SUBSET Roles : PatchRoles(r, R) \/ PutRolesDiff(r, R)
        \/ End(r)
    BY <1>11 DEF Step, LoginCommit, RegisterCommit, OidcCommit, OidcProvision, Answer, CreateItem,
       LogoutCommit, CommitDeletion, PatchCommit, PutRolesCommit
  <2> QED BY <1>1, <1>8, <1>9, <1>10, <2>1, <2>2
<1>12. ASSUME NEW u \in Users, NEW e \in Emails, NEW on \in BOOLEAN, NEW R \in SUBSET Roles,
              AdminCreate(u, e, on, R)
       PROVE  PendingRows'
  BY <1>12 DEF AdminCreate, bound, pending, PendingRows
<1> QED BY <1>1, <1>5, <1>6, <1>7, <1>11, <1>12 DEF Next, Abort

THEOREM PendingRowsInvariance == Spec => []PendingRows
<1>1. Init => PendingRows
  BY DEF Init, PendingRows
<1> QED BY <1>1, PendingRowsStep, Invariance, PTL DEF Spec

LEMMA NoGainStep == IInv /\ PendingRows /\ Next => NoGain
<1> SUFFICES ASSUME IInv, PendingRows, Next PROVE NoGain
  OBVIOUS
<1>1. ASSUME sessions' = sessions, owned' \subseteq owned PROVE NoGain
  BY <1>1 DEF NoGain
<1>2. ASSUME NEW r \in Reqs, pc[r] \notin UnboundLabels,
             \A s \in Sessions : sessions'[s].user # sessions[s].user =>
                sessions'[s].user = target[r],
             \A x \in owned' \ owned : x.owner = target[r]
      PROVE  NoGain
  <2>1. pc[r] # "idle" /\ target[r] \notin dead[r]
    BY <1>2 DEF IInv, Binding, UnboundLabels
  <2> QED BY <1>2, <2>1 DEF NoGain
<1>3. ASSUME NEW u \in Users, users[u].state = "absent",
             \A s \in Sessions : sessions'[s].user # sessions[s].user => sessions'[s].user = u,
             \A x \in owned' \ owned : x.owner = u
      PROVE  NoGain
  BY <1>3 DEF NoGain, Deleted
<1>4. ASSUME NEW r \in Reqs, NEW n \in Sessions, LoginCommit(r, n) \/ OidcCommit(r, n)
      PROVE  NoGain
  <2>1. target[r] \in Users /\ pc[r] \notin UnboundLabels
    BY <1>4, Bound DEF LoginCommit, OidcCommit, At, UnboundLabels
  <2>2. \/ sessions' = sessions /\ owned' = owned
        \/ /\ \E via \in {"login", "oidc"} : ReplaceSession(r, target[r], n, via)
           /\ owned' \subseteq owned \cup add[r]
    BY <1>4 DEF LoginCommit, OidcCommit
  <2> QED BY <1>1, <1>2, <2>1, <2>2, ReplaceSessionAdds DEF PendingRows
<1>5. ASSUME NEW r \in Reqs, NEW u \in Users, NEW n \in Sessions,
             RegisterCommit(r, u, n) \/ OidcProvision(r, u, n)
      PROVE  NoGain
  <2>1. /\ users[u].state = "absent"
        /\ \/ sessions' = sessions /\ owned' = owned
           \/ /\ \E via \in {"register", "oidc"} : ReplaceSession(r, u, n, via)
              /\ owned' \subseteq owned \cup {IdentityRow(u, subject[r])}
    <3>1. CASE RegisterCommit(r, u, n)
      BY <3>1 DEF RegisterCommit
    <3>2. CASE OidcProvision(r, u, n)
      BY <3>2 DEF OidcProvision
    <3> QED BY <1>5, <3>1, <3>2
  <2>2. IdentityRow(u, subject[r]).owner = u
    BY DEF IdentityRow
  <2>3. CASE sessions' = sessions /\ owned' = owned
    BY <1>1, <2>3
  <2>4. ASSUME NEW via \in {"register", "oidc"}, ReplaceSession(r, u, n, via),
               owned' \subseteq owned \cup {IdentityRow(u, subject[r])}
        PROVE  NoGain
    <3>1. \A s \in Sessions : sessions'[s].user # sessions[s].user => sessions'[s].user = u
      BY <2>4, ReplaceSessionAdds
    <3>2. \A x \in owned' \ owned : x.owner = u
      BY <2>2, <2>4
    <3> QED BY <1>3, <2>1, <3>1, <3>2
  <2> QED BY <2>1, <2>3, <2>4
<1>6. ASSUME NEW r \in Reqs, PatchCommit(r) \/ PutRolesCommit(r) \/ \E i \in Items : CreateItem(r, i)
      PROVE  NoGain
  <2>1. /\ pc[r] \notin UnboundLabels /\ sessions' = sessions
        /\ \/ owned' \subseteq owned \cup add[r]
           \/ \E i \in Items : owned' = owned \cup {ItemRow(target[r], i)}
    BY <1>6 DEF PatchCommit, PutRolesCommit, CreateItem, At, UnboundLabels, dbVars
  <2> QED BY <1>2, <2>1 DEF PendingRows, ItemRow
<1>7. ASSUME NEW u \in Users, NEW e \in Emails, NEW on \in BOOLEAN, NEW R \in SUBSET Roles,
             AdminCreate(u, e, on, R)
      PROVE  NoGain
  BY <1>7, <1>3 DEF AdminCreate, RoleRow
<1>8. ASSUME NEW r \in Reqs, Arrive(r) PROVE sessions' = sessions /\ owned' = owned
  BY <1>8 DEF Arrive, LoginVerify, RegisterCheck, OidcFindIdentity, OidcFindLink, OidcFindNobody,
     AuthFind, LogoutFind, AdminDelete, PatchLoad, PutRolesLoad, Begin, dbVars
<1>9. ASSUME NEW r \in Reqs, LockStep(r) \/ Abort(r) PROVE sessions' = sessions /\ owned' = owned
  BY <1>9 DEF LockStep, LoginUpdate, OidcUpdate, MarkUserDeleted, PutRolesUpdate, PatchUpdate,
     Abort, dbVars
<1>10. ASSUME NEW r \in Reqs, Step(r) PROVE NoGain
  <2>1. \/ \E n \in Sessions : LoginCommit(r, n) \/ OidcCommit(r, n)
        \/ \E u \in Users, n \in Sessions : RegisterCommit(r, u, n) \/ OidcProvision(r, u, n)
        \/ PatchCommit(r) \/ PutRolesCommit(r) \/ \E i \in Items : CreateItem(r, i)
        \/ sessions' = sessions /\ owned' \subseteq owned
    BY <1>10 DEF Step, LoginLoad, OidcInsertIdentity, AuthLoadUser, Answer, LogoutCommit,
       SelfDelete, DeleteItems, DeleteRoles, DeleteIdentities, DeleteRows, RevokeForDeletion,
       CommitDeletion, PatchRoles, PatchRevoke, PutRolesDiff, dbVars
  <2> QED BY <2>1, <1>1, <1>4, <1>5, <1>6
<1> QED BY <1>1, <1>7, <1>8, <1>9, <1>10 DEF Next

\* Whatever session, identity, role or item a deleted account gains comes from a
\* request that was under way when the account was deleted.
THEOREM NothingGained == Spec => NoGainAfterDeletion
BY Invariance, PendingRowsInvariance, NoGainStep, PTL DEF Spec, NoGainAfterDeletion
-----------------------------------------------------------------------------
(* Addresses. *)

PatchLabels == {"patch_locked", "patch_roles", "patch_commit"}

\* An address that a PATCH is about to write is nobody else's, in the table and among
\* the other transactions, unless the account is deleted.
PendingEmails ==
  /\ \A r \in Reqs : patch[r].email # NoEmail =>
       /\ pc[r] \in PatchLabels
       /\ Deleted(target[r]) \/ \A u \in WithEmail(patch[r].email) : u = target[r]
  /\ \A r, q \in Reqs : r # q /\ patch[r].email # NoEmail => patch[q].email # patch[r].email

EmailInv == PendingEmails /\ EmailResolvesToOneAccount

\* A request leaves its pending address alone, or forgets it.
Keeps(q) ==
  \/ patch'[q].email = NoEmail
  \/ /\ patch'[q].email = patch[q].email /\ target'[q] = target[q]
     /\ patch[q].email # NoEmail => pc'[q] \in PatchLabels

LEMMA PatchTarget ==
  ASSUME IInv, EmailInv, NEW q \in Reqs, patch[q].email # NoEmail
  PROVE  pc[q] \in PatchLabels /\ target[q] \in Users /\ lock[target[q]] = q
<1>1. pc[q] \in PatchLabels
  BY DEF EmailInv, PendingEmails
<1> QED BY <1>1, Bound DEF PatchLabels, UnboundLabels, LockedLabels

\* No account is added, revived or given another address.
LEMMA EmailsKept ==
  ASSUME IInv, EmailInv, \A q \in Reqs : Keeps(q),
         \A u \in Users : users[u].state = "deleted" => users'[u].state = "deleted",
         \A u \in Users : users'[u].state = "present" =>
           users[u].state = "present" /\ users'[u].email = users[u].email
  PROVE  EmailInv'
<1>1. \A e : \A u \in WithEmail(e)' : u \in WithEmail(e)
  BY DEF WithEmail
<1>2. EmailResolvesToOneAccount'
  BY <1>1 DEF EmailInv, EmailResolvesToOneAccount
<1>3. \A q \in Reqs : patch'[q].email # NoEmail =>
        patch[q].email = patch'[q].email /\ target'[q] = target[q] /\ pc'[q] \in PatchLabels
  BY DEF Keeps
<1>4. ASSUME NEW q \in Reqs, patch'[q].email # NoEmail
      PROVE  Deleted(target[q])' \/ \A u \in WithEmail(patch[q].email)' : u = target[q]
  <2>1. target[q] \in Users /\ target'[q] = target[q]
    BY <1>3, <1>4, PatchTarget
  <2>2. Deleted(target[q]) \/ \A u \in WithEmail(patch[q].email) : u = target[q]
    BY <1>3, <1>4 DEF EmailInv, PendingEmails
  <2>3. CASE Deleted(target[q])
    BY <2>1, <2>3 DEF Deleted
  <2>4. CASE \A u \in WithEmail(patch[q].email) : u = target[q]
    <3>1. patch'[q].email = patch[q].email
      BY <1>3, <1>4
    <3> QED BY <1>1, <2>1, <2>4, <3>1
  <2> QED BY <2>2, <2>3, <2>4
<1>5. PendingEmails'
  BY <1>3, <1>4 DEF EmailInv, PendingEmails
<1> QED BY <1>2, <1>5 DEF EmailInv

\* An account with a free address is added.
LEMMA EmailAdded ==
  ASSUME IInv, EmailInv, \A q \in Reqs : Keeps(q), NEW v \in Users, NEW e \in Emails,
         users[v].state = "absent", users'[v].state = "present", users'[v].email = e,
         \A u \in Users \ {v} : users'[u] = users[u],
         WithEmail(e) = {}, \A q \in Reqs : patch'[q].email # e
  PROVE  EmailInv'
<1>1. \A x : x # e => \A u \in WithEmail(x)' : u \in WithEmail(x)
  BY DEF WithEmail
<1>2. \A u \in WithEmail(e)' : u = v
  BY DEF WithEmail
<1>3. EmailResolvesToOneAccount'
  BY <1>1, <1>2 DEF EmailInv, EmailResolvesToOneAccount
<1>4. \A q \in Reqs : patch'[q].email # NoEmail =>
        patch[q].email = patch'[q].email /\ target'[q] = target[q] /\ pc'[q] \in PatchLabels
  BY DEF Keeps
<1>5. ASSUME NEW q \in Reqs, patch'[q].email # NoEmail
      PROVE  Deleted(target[q])' \/ \A u \in WithEmail(patch[q].email)' : u = target[q]
  <2>1. target[q] \in Users /\ target'[q] = target[q] /\ patch'[q].email = patch[q].email
    BY <1>4, <1>5, PatchTarget
  <2>2. CASE Deleted(target[q])
    BY <2>1, <2>2 DEF Deleted
  <2>3. CASE \A u \in WithEmail(patch[q].email) : u = target[q]
    <3>1. \A u \in WithEmail(patch[q].email)' : u \in WithEmail(patch'[q].email)
      BY <1>1
    <3> QED BY <2>1, <2>3, <3>1
  <2> QED BY <1>4, <1>5, <2>2, <2>3 DEF EmailInv, PendingEmails
<1>6. PendingEmails'
  BY <1>4, <1>5 DEF EmailInv, PendingEmails
<1> QED BY <1>3, <1>6 DEF EmailInv

\* A request ends: it has no pending address any more, the others keep theirs.
LEMMA EndKeepsEmails ==
  ASSUME IInv, EmailInv, NEW r \in Reqs, End(r)
  PROVE  /\ \A q \in Reqs : Keeps(q)
         /\ patch'[r].email = NoEmail /\ \A q \in Reqs \ {r} : patch'[q] = patch[q]
<1>1. patch'[r] = NoPatch
  BY DEF End, IInv, TypeOK
<1>2. \A q \in Reqs \ {r} : patch'[q] = patch[q] /\ target'[q] = target[q] /\ pc'[q] = pc[q]
  BY EndFrame DEF IInv
<1>3. patch'[r].email = NoEmail
  BY <1>1 DEF NoPatch
<1>4. \A q \in Reqs \ {r} : Keeps(q)
  BY <1>2 DEF Keeps, EmailInv, PendingEmails
<1> QED BY <1>2, <1>3, <1>4 DEF Keeps

\* The accounts that registration, provisioning and administrators create.
LEMMA CreationsKeepEmails ==
  ASSUME IInv, EmailInv,
         \/ \E r \in Reqs, v \in Users, n \in Sessions : RegisterCommit(r, v, n) \/ OidcProvision(r, v, n)
         \/ \E v \in Users, e \in Emails, on \in BOOLEAN, R \in SUBSET Roles : AdminCreate(v, e, on, R)
  PROVE  EmailInv'
<1>t. users \in [Users -> User]
  BY DEF IInv, TypeOK
<1>1. ASSUME NEW r \in Reqs, NEW v \in Users, NEW n \in Sessions,
             RegisterCommit(r, v, n) \/ OidcProvision(r, v, n)
      PROVE  EmailInv'
  <2>1. End(r) /\ users[v].state = "absent" /\ EmailFree(r, mail[r]) /\ mail[r] \in Emails
    BY <1>1 DEF RegisterCommit, OidcProvision, At, IInv, Binding
  <2>2. CASE users' = users
    BY <2>1, <2>2, EndKeepsEmails, EmailsKept
  <2>3. CASE users' # users
    <3>1. WithEmail(mail[r]) = {} /\ \E p \in Nat : users' = [users EXCEPT ![v] =
             [state |-> "present", active |-> TRUE, email |-> mail[r], pwd |-> p]]
      BY <1>1, <2>3, AccountsAssumption DEF RegisterCommit, OidcProvision, IInv, TypeOK
    <3>2. /\ users'[v].state = "present" /\ users'[v].email = mail[r]
          /\ \A u \in Users \ {v} : users'[u] = users[u]
      BY <3>1, <1>t
    <3>3. \A q \in Reqs : patch'[q].email # mail[r]
      BY <2>1, EndKeepsEmails, AccountsAssumption DEF EmailFree
    <3> QED BY <2>1, <3>1, <3>2, <3>3, EndKeepsEmails, EmailAdded
  <2> QED BY <2>2, <2>3
<1>2. ASSUME NEW v \in Users, NEW e \in Emails, NEW on \in BOOLEAN, NEW R \in SUBSET Roles,
             AdminCreate(v, e, on, R)
      PROVE  EmailInv'
  <2>1. /\ users[v].state = "absent" /\ WithEmail(e) = {} /\ EmailFree(NoReq, e)
        /\ users' = [users EXCEPT ![v] = [state |-> "present", active |-> on, email |-> e, pwd |-> 1]]
        /\ UNCHANGED <<patch, target, pc>>
    BY <1>2 DEF AdminCreate, bound, pending
  <2>2. /\ users'[v].state = "present" /\ users'[v].email = e
        /\ \A u \in Users \ {v} : users'[u] = users[u]
    BY <2>1, <1>t
  <2>3. \A q \in Reqs : patch'[q].email # e
    BY <2>1, AccountsAssumption DEF EmailFree
  <2>4. \A q \in Reqs : Keeps(q)
    BY <2>1 DEF Keeps, EmailInv, PendingEmails
  <2> QED BY <2>1, <2>2, <2>3, <2>4, EmailAdded
<1> QED BY <1>1, <1>2

\* The commit of a PATCH: the account has the address that was reserved for it.
LEMMA PatchCommitKeepsEmails == ASSUME IInv, EmailInv, NEW r \in Reqs, PatchCommit(r) PROVE EmailInv'
<1>1. CASE users' = users
  <2>1. End(r)
    BY DEF PatchCommit
  <2> QED BY <1>1, <2>1, EndKeepsEmails, EmailsKept
<1>2. CASE users' # users
  <2> DEFINE v == target[r]
  <2>0. PICK e : e = patch[r].email
    OBVIOUS
  <2>1. End(r) /\ add[r] \cap owned = {} /\ users' = [users EXCEPT ![v] = Patched(users[v], patch[r])]
    BY <1>2 DEF PatchCommit, dbVars
  <2>2. /\ v \in Users /\ \A u \in Users \ {v} : users'[u] = users[u]
        /\ users'[v].state = users[v].state
    BY <2>1, PatchedRow
  <2>3. users'[v].email = IF e = NoEmail THEN users[v].email ELSE e
    BY <2>0, <2>1, <2>2 DEF Patched, IInv, TypeOK
  <2>4. CASE e = NoEmail \/ users[v].state # "present"
    BY <2>1, <2>2, <2>3, <2>4, EndKeepsEmails, EmailsKept
  <2>5. CASE e # NoEmail /\ users[v].state = "present"
    <3>1. ~Deleted(v) /\ \A u \in WithEmail(e) : u = v
      BY <2>0, <2>5 DEF EmailInv, PendingEmails, Deleted
    <3>2. \A q \in Reqs \ {r} : patch[q].email # e
      BY <2>0, <2>5 DEF EmailInv, PendingEmails
    <3>3. \A u \in WithEmail(e)' : u = v
      BY <2>2, <3>1 DEF WithEmail
    <3>4. \A x : x # e => \A u \in WithEmail(x)' : u \in WithEmail(x)
      BY <2>2, <2>3, <2>5 DEF WithEmail
    <3> HIDE DEF v
    <3>5. EmailResolvesToOneAccount'
      BY <3>3, <3>4 DEF EmailInv, EmailResolvesToOneAccount
    <3>6. \A q \in Reqs : patch'[q].email # NoEmail =>
            /\ q # r /\ patch[q].email = patch'[q].email /\ target'[q] = target[q]
            /\ pc'[q] \in PatchLabels
      BY <2>1, EndKeepsEmails DEF Keeps
    <3>7. ASSUME NEW q \in Reqs, patch'[q].email # NoEmail
          PROVE  Deleted(target[q])' \/ \A u \in WithEmail(patch[q].email)' : u = target[q]
      <4>1. /\ target[q] \in Users /\ target'[q] = target[q] /\ patch'[q].email = patch[q].email
            /\ patch[q].email # e
        BY <3>2, <3>6, <3>7, PatchTarget
      <4>2. CASE Deleted(target[q])
        BY <2>2, <4>1, <4>2 DEF Deleted
      <4>3. CASE \A u \in WithEmail(patch[q].email) : u = target[q]
        <5>1. \A u \in WithEmail(patch[q].email)' : u \in WithEmail(patch'[q].email)
          BY <3>4, <4>1
        <5> QED BY <4>1, <4>3, <5>1
      <4> QED BY <3>6, <3>7, <4>2, <4>3 DEF EmailInv, PendingEmails
    <3>8. PendingEmails'
      BY <3>6, <3>7 DEF EmailInv, PendingEmails
    <3> QED BY <3>5, <3>8 DEF EmailInv
  <2> QED BY <2>4, <2>5
<1> QED BY <1>1, <1>2

\* The flush of a PATCH reserves its address, if the unique index lets it.
LEMMA PatchUpdateKeepsEmails ==
  ASSUME IInv, EmailInv, NEW r \in Reqs, NEW p \in PatchBody, PatchUpdate(r, p)
  PROVE  EmailInv'
<1> DEFINE w == Changed(r, p)
           v == target[r]
<1>1. CASE End(r) /\ UNCHANGED dbVars
  <2>1. users' = users
    BY <1>1 DEF dbVars
  <2> QED BY <1>1, <2>1, EndKeepsEmails, EmailsKept
<1>2. CASE ~(End(r) /\ UNCHANGED dbVars)
  <2>1. /\ patch' = [patch EXCEPT ![r] = w] /\ Goto(r, "patch_locked")
        /\ users' = users /\ target' = target
        /\ w.email # NoEmail => EmailFree(r, w.email)
        /\ w.email = NoEmail \/ Deleted(v) \/ WithEmail(w.email) \ {v} = {}
    BY <1>2 DEF PatchUpdate, dbVars, bound
  <2> HIDE DEF w, v
  <2>2. /\ patch'[r] = w /\ pc'[r] = "patch_locked"
        /\ \A q \in Reqs \ {r} : patch'[q] = patch[q] /\ pc'[q] = pc[q]
    BY <2>1 DEF Goto, IInv, TypeOK
  <2>3. EmailResolvesToOneAccount'
    BY <2>1 DEF EmailInv, EmailResolvesToOneAccount, WithEmail
  <2>4. \A e : WithEmail(e)' = WithEmail(e)
    BY <2>1 DEF WithEmail
  <2>5. \A q \in Reqs : patch'[q].email # NoEmail =>
          /\ pc'[q] \in PatchLabels
          /\ Deleted(target[q])' \/ \A u \in WithEmail(patch[q].email)' : u = target'[q]
    BY <2>1, <2>2, <2>4 DEF EmailInv, PendingEmails, PatchLabels, Deleted, v
  <2>6. \A q, s \in Reqs : q # s /\ patch'[q].email # NoEmail => patch'[s].email # patch'[q].email
    BY <2>1, <2>2 DEF EmailInv, PendingEmails, EmailFree
  <2>7. PendingEmails'
    BY <2>5, <2>6 DEF PendingEmails
  <2> QED BY <2>3, <2>7 DEF EmailInv
<1> QED BY <1>1, <1>2

LEMMA EmailStep == IInv /\ EmailInv /\ [Next]_vars => EmailInv'
<1> SUFFICES ASSUME IInv, EmailInv, [Next]_vars PROVE EmailInv'
  OBVIOUS
<1>t. /\ pc \in [Reqs -> Labels] /\ target \in [Reqs -> Users \cup {NoUser}]
      /\ users \in [Users -> User]
  BY DEF IInv, TypeOK
<1>1. ASSUME NEW r \in Reqs, End(r), users' = users PROVE EmailInv'
  BY <1>1, EndKeepsEmails, EmailsKept
<1>2. ASSUME NEW r \in Reqs, NEW l, NEW u, NEW s, NEW p, NEW e, NEW q,
             Begin(r, l, u, s, p, e, q)
      PROVE  EmailInv'
  <2>1. /\ users' = users /\ patch' = patch /\ pc[r] = "idle"
        /\ \A x \in Reqs \ {r} : pc'[x] = pc[x] /\ target'[x] = target[x]
    BY <1>2, <1>t DEF Begin, Idle, dbVars, pending
  <2>2. patch[r].email = NoEmail
    BY <2>1, PatchTarget DEF PatchLabels
  <2>3. \A x \in Reqs : Keeps(x)
    BY <2>1, <2>2 DEF Keeps, EmailInv, PendingEmails
  <2> QED BY <2>1, <2>3, EmailsKept
<1>3. ASSUME NEW r \in Reqs, NEW l, Goto(r, l), patch' = patch, users' = users,
             pc[r] \in PatchLabels => l \in PatchLabels /\ target' = target,
             \/ target' = target
             \/ \E u : target' = [target EXCEPT ![r] = u]
      PROVE  EmailInv'
  <2>1. pc'[r] = l /\ \A x \in Reqs \ {r} : pc'[x] = pc[x] /\ target'[x] = target[x]
    BY <1>3, <1>t DEF Goto
  <2>2. patch[r].email # NoEmail => pc[r] \in PatchLabels
    BY PatchTarget
  <2>3. \A x \in Reqs : Keeps(x)
    BY <1>3, <2>1, <2>2 DEF Keeps, EmailInv, PendingEmails
  <2> QED BY <1>3, <2>3, EmailsKept
<1>4. CASE UNCHANGED vars
  <2>1. UNCHANGED <<users, pc, target, patch>>
    BY <1>4 DEF vars, dbVars, bound, pending
  <2> QED BY <2>1 DEF EmailInv, PendingEmails, EmailResolvesToOneAccount, WithEmail, Deleted
<1>5. ASSUME NEW r \in Reqs, Arrive(r) PROVE EmailInv'
  BY <1>5, <1>2 DEF Arrive, LoginVerify, RegisterCheck, OidcFindIdentity, OidcFindLink,
     OidcFindNobody, AuthFind, LogoutFind, AdminDelete, PatchLoad, PutRolesLoad
<1>6. ASSUME NEW r \in Reqs, LockStep(r) PROVE EmailInv'
  <2>1. CASE LoginUpdate(r) \/ OidcUpdate(r) \/ MarkUserDeleted(r) \/ PutRolesUpdate(r)
    BY <2>1, <1>1, <1>3 DEF LoginUpdate, OidcUpdate, MarkUserDeleted, PutRolesUpdate, At, PatchLabels,
       dbVars, bound, pending
  <2> QED BY <1>6, <2>1, PatchUpdateKeepsEmails DEF LockStep
<1>7. ASSUME NEW r \in Reqs, Step(r) PROVE EmailInv'
  <2>1. CASE LoginLoad(r) \/ SelfDelete(r) \/ OidcInsertIdentity(r) \/ RevokeForDeletion(r)
    BY <2>1, <1>1, <1>3 DEF LoginLoad, SelfDelete, OidcInsertIdentity, RevokeForDeletion, At,
       PatchLabels, dbVars, bound, pending
  <2>2. CASE DeleteItems(r) \/ DeleteRoles(r) \/ DeleteIdentities(r)
    BY <2>2, <1>3 DEF DeleteItems, DeleteRoles, DeleteIdentities, DeleteRows, At, PatchLabels, dbVars,
       bound
  <2>3. CASE PatchRevoke(r)
    BY <2>3, <1>3 DEF PatchRevoke, At, PatchLabels, dbVars, bound
  <2>4. ASSUME NEW R \in SUBSET Roles, PatchRoles(r, R) \/ PutRolesDiff(r, R) PROVE EmailInv'
    BY <2>4, <1>1, <1>3 DEF PatchRoles, PutRolesDiff, DiffRoles, At, PatchLabels, dbVars, bound
  <2>5. CASE AuthLoadUser(r)
    BY <2>5, <1>1, <1>3 DEF AuthLoadUser, At, PatchLabels, dbVars, pending
  <2>6. CASE CommitDeletion(r)
    <3>1. End(r) /\ (users' = users \/ users' = [users EXCEPT ![target[r]].state = "deleted"])
      BY <2>6 DEF CommitDeletion
    <3>2. target[r] \in Users
      BY <2>6, Bound DEF CommitDeletion, At, UnboundLabels
    <3>3. \A u \in Users : \/ users'[u] = users[u]
                           \/ users'[u].state = "deleted"
      BY <1>t, <3>1, <3>2 DEF User
    <3> QED BY <3>1, <3>3, EndKeepsEmails, EmailsKept
  <2>7. \/ LoginLoad(r) \/ SelfDelete(r) \/ DeleteItems(r) \/ DeleteRoles(r)
        \/ DeleteIdentities(r) \/ RevokeForDeletion(r) \/ PatchRevoke(r)
        \/ OidcInsertIdentity(r) \/ AuthLoadUser(r) \/ CommitDeletion(r) \/ PatchCommit(r)
        \/ \E R \in SUBSET Roles : PatchRoles(r, R) \/ PutRolesDiff(r, R)
        \/ \E v \in Users, n \in Sessions : RegisterCommit(r, v, n) \/ OidcProvision(r, v, n)
        \/ End(r) /\ users' = users
    BY <1>7 DEF Step, LoginCommit, OidcCommit, Answer, CreateItem, LogoutCommit, PutRolesCommit, dbVars
  <2> QED BY <1>1, <2>1, <2>2, <2>3, <2>4, <2>5, <2>6, <2>7, CreationsKeepEmails, PatchCommitKeepsEmails
<1>8. ASSUME NEW r \in Reqs, Abort(r) PROVE EmailInv'
  BY <1>8, <1>1 DEF Abort, dbVars
<1> QED BY <1>4, <1>5, <1>6, <1>7, <1>8, CreationsKeepEmails DEF Next

\* find_user_by_email never finds two accounts, for any numbers of accounts, addresses
\* and concurrent requests: an address is checked before a transaction and reserved by
\* the unique index within it.
THEOREM OneAccountPerEmail == Spec => []EmailResolvesToOneAccount
<1>1. Init => EmailInv
  BY DEF Init, EmailInv, PendingEmails, NoPatch, EmailResolvesToOneAccount, WithEmail
<1>2. EmailInv => EmailResolvesToOneAccount
  BY DEF EmailInv
<1> QED BY <1>1, <1>2, EmailStep, Invariance, PTL DEF Spec
=============================================================================
