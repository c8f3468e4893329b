------------------------- MODULE RoleChangesProofs -------------------------
(***************************************************************************)
(* Proofs about RoleChanges, for any numbers of roles and requests.        *)
(***************************************************************************)
EXTENDS RoleChanges, TLAPS

Labels == {"idle", "first", "reread", "select", "delete", "insert", "update", "commit"}

\* The types of all variables.
Types ==
  /\ roles \in SUBSET Roles /\ deleted \in BOOLEAN /\ lock \in Reqs \cup {NoReq}
  /\ pc \in [Reqs -> Labels] /\ kind \in [Reqs -> Kinds]
  /\ want \in [Reqs -> SUBSET Roles] /\ revoke \in [Reqs -> SUBSET Roles]
  /\ grant \in [Reqs -> SUBSET Roles]
  /\ gone \in [Reqs -> SUBSET Roles] /\ new \in [Reqs -> SUBSET Roles]

\* What a request has computed and written when it has come to its label.
Progress(r) ==
  /\ pc[r] \in {"idle", "first", "reread", "select"} => grant[r] = {}
  /\ pc[r] \in {"idle", "first", "reread", "select", "delete"} => gone[r] = {}
  /\ pc[r] \notin {"update", "commit"} => new[r] = {}
  /\ pc[r] \in {"update", "commit"} => new[r] = grant[r]

\* What it may compute, by its kind.
Computed(r) ==
  /\ kind[r] \in {"put", "patch"} => want[r] \subseteq Known /\ grant[r] \subseteq Known
  /\ kind[r] \in {"prune", "delete"} => grant[r] = {}
  /\ kind[r] \notin {"prune", "delete"} => gone[r] \subseteq revoke[r]
  /\ kind[r] \in {"prune", "delete"} => pc[r] \in {"delete", "update", "commit"}

\* Who holds the users row, and where.
Locking(r) ==
  /\ pc[r] = "first" => kind[r] \in {"patch", "seed"}
  /\ pc[r] = "reread" => kind[r] = "seed"
  /\ lock = r => pc[r] # "idle" /\ (kind[r] \in {"patch", "seed"} \/ pc[r] = "commit")

\* Nobody has inserted a role that is there, or that another has inserted.
Keys ==
  /\ \A r \in Reqs : new[r] \cap roles = {}
  /\ \A r, q \in Reqs : r # q => new[r] \cap new[q] = {}

IInv ==
  /\ Types
  /\ \A r \in Reqs : Progress(r) /\ Computed(r) /\ Locking(r)
  /\ Keys

LEMMA InitInv == Init => IInv
BY RolesAssumption DEF Init, IInv, Types, Labels, Kinds, Progress, Computed, Locking, Keys

-----------------------------------------------------------------------------
\* The end of a request, with or without its commit.
LEMMA EndKeeps ==
  ASSUME IInv, NEW r \in Reqs, End(r), deleted' \in BOOLEAN,
         \/ roles' = roles
         \/ roles' = (roles \ gone[r]) \cup new[r]
  PROVE  IInv'
<1>1. /\ pc'[r] = "idle" /\ kind'[r] = "put" /\ want'[r] = {} /\ revoke'[r] = {}
      /\ grant'[r] = {} /\ gone'[r] = {} /\ new'[r] = {} /\ lock' # r
      /\ lock' \in {lock, NoReq}
  BY RolesAssumption DEF End, Goto, IInv, Types
<1>2. \A q \in Reqs \ {r} :
        /\ pc'[q] = pc[q] /\ kind'[q] = kind[q] /\ want'[q] = want[q] /\ revoke'[q] = revoke[q]
        /\ grant'[q] = grant[q] /\ gone'[q] = gone[q] /\ new'[q] = new[q]
  BY DEF End, Goto, IInv, Types
<1>3. Types'
  <2>1. roles' \in SUBSET Roles
    BY DEF IInv, Types
  <2> QED BY <2>1 DEF End, Goto, IInv, Types, Labels, Kinds
<1>4. \A q \in Reqs : Progress(q)'
  BY <1>1, <1>2 DEF IInv, Progress
<1>5. \A q \in Reqs : Computed(q)'
  BY <1>1, <1>2 DEF IInv, Computed
<1>6. \A q \in Reqs : Locking(q)'
  BY <1>1, <1>2, RolesAssumption DEF IInv, Locking
<1>7. Keys'
  <2>1. \A q \in Reqs : new'[q] \cap roles' = {}
    BY <1>1, <1>2 DEF IInv, Keys
  <2>2. \A p, q \in Reqs : p # q => new'[p] \cap new'[q] = {}
    BY <1>1, <1>2 DEF IInv, Keys
  <2> QED BY <2>1, <2>2 DEF Keys
<1> QED BY <1>3, <1>4, <1>5, <1>6, <1>7 DEF IInv

\* A request arrives.
LEMMA BeginKeeps ==
  ASSUME IInv, NEW r \in Reqs, NEW k \in Kinds, NEW l \in Labels, NEW R \in SUBSET Roles,
         Begin(r, k, l, R), revoke' \in [Reqs -> SUBSET Roles],
         \A q \in Reqs \ {r} : revoke'[q] = revoke[q],
         l \in {"first", "select", "delete"},
         k \in {"put", "patch"} => R \subseteq Known,
         l = "first" => k \in {"patch", "seed"},
         k \in {"prune", "delete"} => l = "delete"
  PROVE  IInv'
<1>1. /\ pc[r] = "idle" /\ pc'[r] = l /\ kind'[r] = k /\ want'[r] = R
      /\ UNCHANGED <<roles, deleted, lock, grant, gone, new>>
      /\ \A q \in Reqs \ {r} : pc'[q] = pc[q] /\ kind'[q] = kind[q] /\ want'[q] = want[q]
  BY DEF Begin, Goto, IInv, Types
<1>2. Types'
  BY DEF Begin, Goto, IInv, Types
<1>3. \A q \in Reqs : Progress(q)'
  BY <1>1 DEF IInv, Progress
<1>4. \A q \in Reqs : Computed(q)'
  <2>1. grant[r] = {} /\ gone[r] = {}
    BY <1>1 DEF IInv, Progress
  <2> QED BY <1>1, <2>1 DEF IInv, Computed
<1>5. \A q \in Reqs : Locking(q)'
  BY <1>1 DEF IInv, Locking
<1>6. Keys'
  BY <1>1 DEF IInv, Keys
<1> QED BY <1>2, <1>3, <1>4, <1>5, <1>6 DEF IInv

LEMMA ArriveKeeps == ASSUME IInv, NEW r \in Reqs, Arrive(r) PROVE IInv'
<1> USE DEF Kinds, Labels
<1>1. CASE Put(r)
  <2>1. PICK R \in SUBSET Known : Begin(r, "put", "select", R)
    BY <1>1 DEF Put
  <2> QED BY <1>1, <2>1, BeginKeeps, RolesAssumption DEF Put, IInv, Types
<1>2. CASE Patch(r)
  <2>1. PICK R \in SUBSET Known : Begin(r, "patch", "first", R)
    BY <1>2 DEF Patch
  <2> QED BY <1>2, <2>1, BeginKeeps, RolesAssumption DEF Patch, IInv, Types
<1>3. CASE GrantRole(r)
  <2>1. PICK c \in Known : Begin(r, "grant", "select", roles \cup {c})
    BY <1>3 DEF GrantRole
  <2>2. roles \cup {c} \in SUBSET Roles
    BY RolesAssumption DEF IInv, Types
  <2> QED BY <1>3, <2>1, <2>2, BeginKeeps DEF GrantRole, IInv, Types
<1>4. CASE SeedAdmin(r)
  BY <1>4, BeginKeeps DEF SeedAdmin, IInv, Types
<1>5. CASE PruneUnknown(r)
  <2>1. revoke' \in [Reqs -> SUBSET Roles] /\ \A q \in Reqs \ {r} : revoke'[q] = revoke[q]
    BY <1>5 DEF PruneUnknown, IInv, Types
  <2> QED BY <1>5, <2>1, BeginKeeps DEF PruneUnknown
<1>6. CASE DeleteAccount(r)
  BY <1>6, BeginKeeps DEF DeleteAccount, IInv, Types
<1> QED BY <1>1, <1>2, <1>3, <1>4, <1>5, <1>6 DEF Arrive

\* A request goes on.
LEMMA StepKeeps == ASSUME IInv, NEW r \in Reqs, Step(r) PROVE IInv'
<1>1. CASE UpdateFirst(r)
  <2>1. /\ pc[r] = "first" /\ pc'[r] = (IF kind[r] = "seed" THEN "reread" ELSE "select") /\ lock' = r
        /\ UNCHANGED <<roles, deleted, kind, want, revoke, grant, gone, new>>
        /\ \A q \in Reqs \ {r} : pc'[q] = pc[q] /\ lock # q
    BY <1>1, RolesAssumption DEF UpdateFirst, Goto, local, IInv, Types
  <2>2. Types'
    BY <1>1 DEF UpdateFirst, Goto, local, IInv, Types, Labels
  <2>3. \A q \in Reqs : Progress(q)' /\ Computed(q)' /\ Locking(q)'
    BY <2>1 DEF IInv, Progress, Computed, Locking
  <2> QED BY <2>1, <2>2, <2>3 DEF IInv, Keys
<1>2. CASE Reread(r)
  <2>1. /\ pc[r] = "reread" /\ pc'[r] = "select"
        /\ UNCHANGED <<roles, deleted, lock, kind, revoke, grant, gone, new>>
        /\ \A q \in Reqs \ {r} : pc'[q] = pc[q] /\ want'[q] = want[q]
    BY <1>2 DEF Reread, Goto, IInv, Types
  <2>2. Types'
    BY <1>2, RolesAssumption DEF Reread, Goto, IInv, Types, Labels
  <2>3. kind[r] = "seed"
    BY <2>1 DEF IInv, Locking
  <2>4. \A q \in Reqs : Progress(q)' /\ Computed(q)' /\ Locking(q)'
    BY <2>1, <2>3 DEF IInv, Progress, Computed, Locking
  <2> QED BY <2>1, <2>2, <2>4 DEF IInv, Keys
<1>3. CASE Select(r)
  <2>1. /\ pc[r] = "select" /\ pc'[r] = "delete" /\ grant'[r] = want[r] \ roles
        /\ UNCHANGED <<roles, deleted, lock, kind, want, gone, new>>
        /\ \A q \in Reqs \ {r} : pc'[q] = pc[q] /\ revoke'[q] = revoke[q] /\ grant'[q] = grant[q]
    BY <1>3 DEF Select, Goto, IInv, Types
  <2>2. Types'
    BY <1>3 DEF Select, Goto, IInv, Types, Labels
  <2>3. gone[r] = {}
    BY <2>1 DEF IInv, Progress
  <2>4. \A q \in Reqs : Progress(q)' /\ Locking(q)'
    BY <2>1 DEF IInv, Progress, Locking
  <2>5. \A q \in Reqs : Computed(q)'
    BY <2>1, <2>3 DEF IInv, Computed
  <2> QED BY <2>1, <2>2, <2>4, <2>5 DEF IInv, Keys
<1>4. CASE Delete(r)
  <2>1. /\ pc[r] = "delete" /\ gone'[r] = Matched(r)
        /\ pc'[r] = CASE kind[r] = "prune" -> "commit" [] kind[r] = "delete" -> "update" [] OTHER -> "insert"
        /\ UNCHANGED <<roles, deleted, lock, kind, want, revoke, grant, new>>
        /\ \A q \in Reqs \ {r} : pc'[q] = pc[q] /\ gone'[q] = gone[q]
    BY <1>4 DEF Delete, Goto, IInv, Types
  <2>2. Matched(r) \in SUBSET Roles
    BY DEF Matched, IInv, Types
  <2>3. Types'
    BY <1>4, <2>2 DEF Delete, Goto, IInv, Types, Labels
  <2>4. new[r] = {} /\ (kind[r] \in {"prune", "delete"} => grant[r] = {})
    BY <2>1 DEF IInv, Progress, Computed
  <2>5. \A q \in Reqs : Progress(q)'
    BY <2>1, <2>4 DEF IInv, Progress
  <2>6. \A q \in Reqs : Computed(q)'
    BY <2>1 DEF IInv, Computed, Matched
  <2>7. \A q \in Reqs : Locking(q)'
    BY <2>1 DEF IInv, Locking
  <2> QED BY <2>1, <2>3, <2>5, <2>6, <2>7 DEF IInv, Keys
<1>5. CASE Insert(r)
  <2>1. CASE grant[r] \cap roles # {}
    BY <1>5, <2>1, EndKeeps DEF Insert, IInv, Types
  <2>2. CASE grant[r] \cap roles = {}
    <3>1. /\ pc[r] = "insert" /\ pc'[r] = "update" /\ new'[r] = grant[r]
          /\ UNCHANGED <<roles, deleted, lock, kind, want, revoke, grant, gone>>
          /\ \A q \in Reqs \ {r} : /\ pc'[q] = pc[q] /\ new'[q] = new[q]
                                   /\ new[q] \cap grant[r] = {}
      BY <1>5, <2>2 DEF Insert, Goto, IInv, Types
    <3>2. Types'
      BY <1>5, <2>2 DEF Insert, Goto, IInv, Types, Labels
    <3>3. kind[r] \notin {"prune", "delete"}
      BY <3>1 DEF IInv, Computed
    <3>4. \A q \in Reqs : Progress(q)' /\ Computed(q)' /\ Locking(q)'
      BY <3>1, <3>3 DEF IInv, Progress, Computed, Locking
    <3>5. Keys'
      <4>1. \A q \in Reqs : new'[q] \cap roles' = {}
        BY <3>1, <2>2 DEF IInv, Keys
      <4>2. \A p, q \in Reqs : p # q => new'[p] \cap new'[q] = {}
        BY <3>1 DEF IInv, Keys
      <4> QED BY <4>1, <4>2 DEF Keys
    <3> QED BY <3>2, <3>4, <3>5 DEF IInv
  <2> QED BY <2>1, <2>2
<1>6. CASE Update(r)
  <2>1. /\ pc[r] = "update" /\ pc'[r] = "commit" /\ lock' \in {lock, r}
        /\ UNCHANGED <<roles, deleted, kind, want, revoke, grant, gone, new>>
        /\ \A q \in Reqs \ {r} : pc'[q] = pc[q]
    BY <1>6 DEF Update, Goto, local, IInv, Types
  <2>2. Types'
    BY <1>6, <2>1 DEF Update, Goto, local, IInv, Types, Labels
  <2>3. \A q \in Reqs : Progress(q)' /\ Computed(q)' /\ Locking(q)'
    BY <2>1 DEF IInv, Progress, Computed, Locking
  <2> QED BY <2>1, <2>2, <2>3 DEF IInv, Keys
<1>7. CASE Commit(r)
  BY <1>7, EndKeeps DEF Commit, IInv, Types
<1> QED BY <1>1, <1>2, <1>3, <1>4, <1>5, <1>6, <1>7 DEF Step

LEMMA NextKeeps == IInv /\ [Next]_vars => IInv'
<1> SUFFICES ASSUME IInv, [Next]_vars PROVE IInv'
  OBVIOUS
<1>1. ASSUME NEW r \in Reqs, Abort(r) PROVE IInv'
  BY <1>1, EndKeeps DEF Abort, IInv, Types
<1>2. CASE UNCHANGED vars
  BY <1>2 DEF vars, local, IInv, Types, Progress, Computed, Locking, Keys
<1> QED BY <1>1, <1>2, ArriveKeeps, StepKeeps DEF Next

LEMMA Inductive == Spec => []IInv
BY InitInv, NextKeeps, PTL DEF Spec

-----------------------------------------------------------------------------
\* Every variable keeps its type, and replacements by administrators grant roles of
\* the catalog only, for any catalog.
THEOREM TypeCorrect == Spec => []TypeOK
<1>1. IInv => TypeOK
  BY DEF IInv, Types, Progress, Computed, TypeOK, Labels
<1> QED BY <1>1, Inductive, PTL

\* A deadlock over the users row is the work of a request that writes it first.
THEOREM LockOrder == Spec => []OneLockOrder
<1>1. IInv => OneLockOrder
  <2> SUFFICES ASSUME IInv, NEW r \in Reqs, Deadlocked(r), pc[r] \in {"first", "update"}
               PROVE  kind[lock] \in {"patch", "seed"}
    BY DEF OneLockOrder
  <2>1. PICK S \in SUBSET Reqs : r \in S /\ \A q \in S : WaitsFor(q) \cap S # {}
    BY DEF Deadlocked
  <2>2. lock \in S
    BY <2>1 DEF WaitsFor
  <2>3. WaitsFor(lock) # {}
    BY <2>1, <2>2
  <2>4. pc[lock] # "commit"
    BY <2>3 DEF WaitsFor
  <2> QED BY <2>2, <2>4 DEF IInv, Locking
<1> QED BY <1>1, Inductive, PTL

\* A ROLE_GRANTED row stands for a role that was missing and is there now.
THEOREM GrantsAreTrue == Spec => GrantEvents
<1>1. IInv => (\A r \in Reqs : Commit(r) => Granted(r) \cap roles = {} /\ Granted(r) \subseteq roles')
  BY DEF IInv, Progress, Keys, Commit, Granted
<1>2. IInv /\ [Next]_vars =>
        [\A r \in Reqs : Commit(r) => Granted(r) \cap roles = {} /\ Granted(r) \subseteq roles']_vars
  BY <1>1
<1> QED BY <1>2, Inductive, PTL DEF Spec, GrantEvents

\* Administrators take away no role without its ROLE_REVOKED row.
THEOREM LossIsTold == Spec => NoSilentLoss
<1>1. IInv => (\A r \in Reqs : Commit(r) /\ kind[r] \in {"put", "patch"} => roles \ roles' \subseteq Revoked(r))
  BY DEF IInv, Computed, Commit, Revoked
<1>2. IInv /\ [Next]_vars =>
        [\A r \in Reqs : Commit(r) /\ kind[r] \in {"put", "patch"} => roles \ roles' \subseteq Revoked(r)]_vars
  BY <1>1
<1> QED BY <1>2, Inductive, PTL DEF Spec, NoSilentLoss
=============================================================================
