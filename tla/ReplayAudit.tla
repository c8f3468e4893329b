---------------------------- MODULE ReplayAudit ----------------------------
(***************************************************************************)
(* The audit of rejected sessions, behind the lookup of SessionLifetime.   *)
(*                                                                         *)
(* A request whose cookie names a session that is revoked or expired is    *)
(* counted in one auth_audit_logs row per window.  The counting reads the  *)
(* row, merges the request into its JSON and writes it back; a try-lock    *)
(* per session keeps two of them apart, and who does not get it drops its  *)
(* request.  An unsafe request comes twice: CSRFMiddleware looks the       *)
(* session up first, its handler again.                                    *)
(***************************************************************************)
EXTENDS SessionLifetime, Sequences, FiniteSets, FiniteSetsExt, SequencesExt

CONSTANTS
  NoReq,
  Addresses,    \* client addresses
  Window,       \* SESSION_REJECTED_AUDIT_WINDOW_SECONDS
  RecentLimit,  \* RECENT_REPLAY_IP_LIMIT
  MaxReplays    \* bound on the requests counted

ASSUME ReplayAssumption ==
  {Window, RecentLimit, MaxReplays} \subseteq Nat \ {0} /\ NoReq \notin Reqs

VARIABLES
  log,      \* the session's aggregate rows, by id
  replays,  \* history: the number of requests counted; a row's id is its first one
  lock,     \* the request that holds the advisory lock
  audit,    \* per request: where the audit is and what it has read
  counted   \* history, per row: the requests merged into it, and their addresses

auditVars == <<log, replays, lock, audit, counted>>

allVars == <<now, row, pc, began, copy, stamp, used, log, replays, lock, audit, counted>>

NoAudit == [at |-> "none", t |-> 0, id |-> 0,
            detail |-> [count |-> 0, recent |-> <<>>, distinct |-> 0]]

NoDetail == NoAudit.detail

-----------------------------------------------------------------------------
\* Fault: the stored number is not read.
DistinctIpCountRecent(d) == Len(d.recent)

\* _distinct_ip_count of a stored detail_json.
DistinctIpCount(d) == Most(d.distinct, Len(d.recent))

\* _replay_detail_json: the last RecentLimit new addresses are remembered.
Merged(d, ip) ==
  LET new == ~Contains(d.recent, ip)
      all == IF new THEN Append(d.recent, ip) ELSE d.recent
  IN [count |-> d.count + 1,
      distinct |-> DistinctIpCount(d) + (IF new THEN 1 ELSE 0),
      recent |-> SubSeq(all, Most(1, Len(all) - RecentLimit + 1), Len(all))]

\* Fault: only rows before the request count.
InWindowBefore(i, t) == log[i].occurred >= t - Window /\ log[i].occurred <= t

\* The rows whose window holds a request of time t.
InWindow(i, t) == log[i].occurred >= t - Window

Done(r) == audit' = [audit EXCEPT ![r] = NoAudit]

\* A request that the lookup of SessionLifetime rejects goes on to the audit.
FindOrReject(r) ==
  /\ Find(r)
  /\ audit' = IF pc'[r] = "idle" THEN [audit EXCEPT ![r] = [NoAudit EXCEPT !.at = "rejected"]]
              ELSE audit
  /\ UNCHANGED <<log, replays, lock, counted>>

\* _audit_known_rejected_session: a session that is gone is not audited.
FindRejected(r) ==
  /\ audit[r].at = "rejected"
  /\ audit' = [audit EXCEPT ![r] = IF row.present THEN [@ EXCEPT !.at = "lock", !.t = now] ELSE NoAudit]
  /\ UNCHANGED <<vars, log, replays, lock, counted>>

\* pg_try_advisory_xact_lock: whoever does not get it returns.
TryLock(r) ==
  /\ audit[r].at = "lock"
  /\ IF lock = NoReq THEN lock' = r /\ audit' = [audit EXCEPT ![r].at = "read"]
     ELSE Done(r) /\ UNCHANGED lock
  /\ UNCHANGED <<vars, log, replays, counted>>

\* Fault: the lock is kept for an insert only.
ReadUnlocks(r) ==
  LET rows == {i \in DOMAIN log : row.present /\ InWindow(i, audit[r].t)}
      latest == CHOOSE i \in rows : \A j \in rows : log[j].occurred <= log[i].occurred
  IN /\ audit[r].at = "read"
     /\ audit' = [audit EXCEPT ![r] = [@ EXCEPT !.at = "write",
                    !.id = IF rows = {} THEN 0 ELSE latest,
                    !.detail = IF rows = {} THEN NoDetail ELSE log[latest].detail]]
     /\ lock' = IF rows = {} THEN lock ELSE NoReq
     /\ UNCHANGED <<vars, log, replays, counted>>

\* The SELECT: the latest row of the window, with its detail_json.  ON DELETE SET NULL
\* unties the rows from a session that was pruned.
Read(r) ==
  LET rows == {i \in DOMAIN log : row.present /\ InWindow(i, audit[r].t)}
      latest == CHOOSE i \in rows : \A j \in rows :
                  log[j].occurred < log[i].occurred \/ (log[j].occurred = log[i].occurred /\ j <= i)
  IN /\ audit[r].at = "read"
     /\ audit' = [audit EXCEPT ![r] = [@ EXCEPT !.at = "write",
                    !.id = IF rows = {} THEN 0 ELSE latest,
                    !.detail = IF rows = {} THEN NoDetail ELSE log[latest].detail]]
     /\ UNCHANGED <<vars, log, replays, lock, counted>>

\* A new row, with the time of the request; its session_id must still exist.
Insert(r, ip) ==
  LET i == replays + 1 IN
  /\ audit[r].at = "write" /\ audit[r].id = 0 /\ replays < MaxReplays
  /\ IF row.present
     THEN /\ log' = [j \in DOMAIN log \cup {i} |->
                       IF j = i THEN [occurred |-> audit[r].t, detail |-> Merged(NoDetail, ip)] ELSE log[j]]
          /\ counted' = [j \in DOMAIN log \cup {i} |-> IF j = i THEN [n |-> 1, ips |-> {ip}] ELSE counted[j]]
          /\ replays' = i
     ELSE UNCHANGED <<log, counted, replays>>
  /\ lock' = NoReq /\ Done(r)
  /\ UNCHANGED vars

\* The row that was read is written back; a row that was pruned since is an error.
Update(r, ip) ==
  LET i == audit[r].id IN
  /\ audit[r].at = "write" /\ i # 0 /\ replays < MaxReplays
  /\ IF i \in DOMAIN log
     THEN /\ log' = [log EXCEPT ![i].detail = Merged(audit[r].detail, ip)]
          /\ replays' = replays + 1
          /\ counted' = [counted EXCEPT ![i] = [n |-> @.n + 1, ips |-> @.ips \cup {ip}]]
     ELSE UNCHANGED <<log, counted, replays>>
  /\ lock' = NoReq /\ Done(r)
  /\ UNCHANGED vars

\* A cancelled request, a database error, or a try-lock lost to another session whose
\* id has the same 31 bits: the lock ends with the transaction.
AbortAudit(r) ==
  /\ audit[r].at # "none"
  /\ lock' = IF lock = r THEN NoReq ELSE lock
  /\ Done(r)
  /\ UNCHANGED <<vars, log, replays, counted>>

\* delete_audit_logs_occurred_before; db-prune-auth takes any threshold.
PruneLog(before) ==
  LET kept == {i \in DOMAIN log : log[i].occurred >= before} IN
  /\ kept # DOMAIN log
  /\ log' = [i \in kept |-> log[i]]
  /\ counted' = [i \in kept |-> counted[i]]
  /\ UNCHANGED <<vars, replays, lock, audit>>

-----------------------------------------------------------------------------
\* What SessionLifetime does besides the lookup; a request begins when it is over.
Lifetime ==
  /\ \/ \E r \in Reqs : \/ Start(r) /\ audit[r].at = "none"
                        \/ Serve(r) \/ Decide(r) \/ Commit(r) \/ Vanished(r) \/ Abort(r)
     \/ Revoke
     \/ \E before \in 0..(MaxTime + IdleTtl) : Prune(before)
     \/ Tick
  /\ UNCHANGED auditVars

AuditInit ==
  /\ Init
  /\ log = << >> /\ counted = << >> /\ replays = 0
  /\ lock = NoReq
  /\ audit = [r \in Reqs |-> NoAudit]

AuditNext ==
  \/ Lifetime
  \/ \E r \in Reqs : \/ FindOrReject(r) \/ FindRejected(r) \/ TryLock(r) \/ Read(r) \/ AbortAudit(r)
                     \/ \E ip \in Addresses : Insert(r, ip) \/ Update(r, ip)
  \/ \E before \in 0..MaxTime : PruneLog(before)

AuditSpec == AuditInit /\ [][AuditNext]_allVars

-----------------------------------------------------------------------------
(* Properties. *)

\* Every request that was merged into a row is in its replay_count: no concurrent
\* merge overwrites another.
NoReplayLost == \A i \in DOMAIN log : log[i].detail.count = counted[i].n

\* A row covers its window alone: two rows of the session are more than Window apart,
\* however late a request comes to its turn.
OneRowPerWindow ==
  \A i, j \in DOMAIN log : i < j => log[i].occurred + Window < log[j].occurred

\* distinct_ip_count never understates the addresses seen, and is exact as long as
\* they fit into the remembered list.
DistinctIps ==
  \A i \in DOMAIN log :
    LET ips == Cardinality(counted[i].ips) IN
    /\ log[i].detail.distinct >= ips
    /\ ips <= RecentLimit => log[i].detail.distinct = ips
=============================================================================
