--------------------------- MODULE SessionLifetime ---------------------------
(***************************************************************************)
(* The lifetime of one auth_sessions row: idle and absolute expiry,        *)
(* throttled touches, revocation and pruning, under a clock.               *)
(*                                                                         *)
(* authenticate_session reads the clock twice: once before the lookup and  *)
(* once when it decides whether to touch the row.  Between the readings,   *)
(* and between the second one and the commit of the touch, other requests  *)
(* run.  Two touches can therefore commit in the opposite order of their   *)
(* clock readings and move last_seen_at and expires_at back.  And the ORM  *)
(* writes a column only when its value differs from the one it loaded: a   *)
(* touch can leave an expires_at that another request has moved since.     *)
(***************************************************************************)
EXTENDS Integers

CONSTANTS
  Reqs,          \* concurrent requests that present the session's cookie
  IdleTtl,       \* AUTH_SESSION_IDLE_TTL_SECONDS
  AbsoluteTtl,   \* AUTH_SESSION_ABSOLUTE_TTL_SECONDS
  TouchInterval, \* AUTH_SESSION_TOUCH_INTERVAL_SECONDS
  MaxDelay,      \* bound on the duration of authenticate_session
  MaxTime        \* bound on the clock

ASSUME LifetimeAssumption ==
  /\ IdleTtl \in Nat \ {0} /\ AbsoluteTtl \in Nat \ {0}
  /\ TouchInterval \in Int
  /\ MaxDelay \in Nat /\ MaxTime \in Nat

VARIABLES
  now,      \* the clock
  row,      \* the committed row
  pc,       \* per request: the next step
  began,    \* per request: clock read before the lookup
  copy,     \* per request: last_seen_at and expires_at of the row it loaded
  stamp,    \* per request: clock read for the touch
  used      \* history: the latest time at which a request was served

vars == <<now, row, pc, began, copy, stamp, used>>

-----------------------------------------------------------------------------
Least(a, b) == IF a <= b THEN a ELSE b
Most(a, b)  == IF a >= b THEN a ELSE b

\* Fault: the later of the two limits.
ExpiryTooLate(issued, seen) == Most(issued + AbsoluteTtl, seen + IdleTtl)

\* Fault: the absolute limit is counted from the last request.
ExpirySliding(issued, seen) == Least(seen + AbsoluteTtl, seen + IdleTtl)

\* calculate_session_expiry.
Expiry(issued, seen) == Least(issued + AbsoluteTtl, seen + IdleTtl)

\* Fault: the configured interval is not capped.
IntervalUncapped == TouchInterval

\* effective_session_touch_interval_seconds.
Interval ==
  IF TouchInterval <= 0 THEN TouchInterval
  ELSE Least(TouchInterval, IdleTtl \div 2)

\* The row that replace_auth_session inserts at time t.
Issued(t) == [present |-> TRUE, revoked |-> FALSE, issued |-> t, seen |-> t,
              expires |-> Expiry(t, t)]

-----------------------------------------------------------------------------
(* AuthUsecase.authenticate_session. *)

Goto(r, l) == pc' = [pc EXCEPT ![r] = l]

NoCopy == [seen |-> 0, expires |-> 0]

\* The request is over; its locals are forgotten.
End(r) ==
  /\ pc' = [pc EXCEPT ![r] = "idle"]
  /\ began' = [began EXCEPT ![r] = 0]
  /\ copy' = [copy EXCEPT ![r] = NoCopy]
  /\ stamp' = [stamp EXCEPT ![r] = 0]

\* find_active_session_by_token_hash: now = utcnow() comes before the query.
Start(r) ==
  /\ pc[r] = "idle"
  /\ began' = [began EXCEPT ![r] = now]
  /\ Goto(r, "lookup")
  /\ UNCHANGED <<now, row, copy, stamp, used>>

Find(r) ==
  /\ pc[r] = "lookup"
  /\ IF row.present /\ ~row.revoked /\ row.expires > began[r]
     THEN /\ copy' = [copy EXCEPT ![r] = [seen |-> row.seen, expires |-> row.expires]]
          /\ Goto(r, "found")
          /\ UNCHANGED <<began, stamp>>
     ELSE End(r)
  /\ UNCHANGED <<now, row, used>>

NeedsTouch(r) == Interval <= 0 \/ now - copy[r].seen >= Interval

\* Recently seen: the request is served without a write.
Serve(r) ==
  /\ pc[r] = "found"
  /\ ~NeedsTouch(r)
  /\ used' = Most(used, now)
  /\ End(r)
  /\ UNCHANGED <<now, row>>

Decide(r) ==
  /\ pc[r] = "found"
  /\ NeedsTouch(r)
  /\ stamp' = [stamp EXCEPT ![r] = now]
  /\ Goto(r, "touch")
  /\ UNCHANGED <<now, row, began, copy, used>>

\* touch_session runs in the transaction of the lookup: session.get answers with the
\* object that Find loaded, and the flush writes the columns that differ from it.
NewExpiry(r) == Expiry(row.issued, stamp[r])

SeenChanged(r)   == stamp[r] # copy[r].seen
ExpiryChanged(r) == NewExpiry(r) # copy[r].expires

Writes(r) == SeenChanged(r) \/ ExpiryChanged(r)

\* Fault: the touch writes the whole row as it was loaded.
CommitWholeRow(r) ==
  /\ pc[r] = "touch"
  /\ row.present
  /\ row' = [row EXCEPT !.seen = stamp[r], !.expires = NewExpiry(r), !.revoked = FALSE]
  /\ used' = Most(used, stamp[r])
  /\ End(r)
  /\ UNCHANGED now

\* Fault: the touch leaves out expires_at.
CommitSeenOnly(r) ==
  /\ pc[r] = "touch"
  /\ row.present
  /\ row' = [row EXCEPT !.seen = stamp[r]]
  /\ used' = Most(used, stamp[r])
  /\ End(r)
  /\ UNCHANGED now

\* The UPDATE keeps the row locked until its COMMIT: the two are one step.
Commit(r) ==
  /\ pc[r] = "touch"
  /\ Writes(r) => row.present
  /\ row' = [row EXCEPT !.seen = IF SeenChanged(r) THEN stamp[r] ELSE @,
                        !.expires = IF ExpiryChanged(r) THEN NewExpiry(r) ELSE @]
  /\ used' = Most(used, stamp[r])
  /\ End(r)
  /\ UNCHANGED now

\* The UPDATE of a row that was pruned since the lookup: StaleDataError.
Vanished(r) ==
  /\ pc[r] = "touch"
  /\ Writes(r) /\ ~row.present
  /\ End(r)
  /\ UNCHANGED <<now, row, used>>

\* A cancelled request or a database error: the transaction rolls back.
Abort(r) ==
  /\ pc[r] # "idle"
  /\ End(r)
  /\ UNCHANGED <<now, row, used>>

-----------------------------------------------------------------------------
\* revoke_session and revoke_sessions_for_user: revoked_at is set.
Revoke ==
  /\ row.present /\ ~row.revoked
  /\ row' = [row EXCEPT !.revoked = TRUE]
  /\ UNCHANGED <<now, pc, began, copy, stamp, used>>

\* delete_sessions_expired_before; db-prune-auth takes any threshold.
Prune(before) ==
  /\ row.present /\ row.expires < before
  /\ row' = [row EXCEPT !.present = FALSE]
  /\ UNCHANGED <<now, pc, began, copy, stamp, used>>

\* MaxDelay: no request in flight grows older.
Tick ==
  /\ now < MaxTime
  /\ \A r \in Reqs : pc[r] # "idle" => now - began[r] < MaxDelay
  /\ now' = now + 1
  /\ UNCHANGED <<row, pc, began, copy, stamp, used>>

Init ==
  /\ now = 0
  /\ row = Issued(0)
  /\ pc = [r \in Reqs |-> "idle"]
  /\ began = [r \in Reqs |-> 0]
  /\ copy = [r \in Reqs |-> NoCopy]
  /\ stamp = [r \in Reqs |-> 0]
  /\ used = 0

Next ==
  \/ \E r \in Reqs : \/ Start(r) \/ Find(r) \/ Serve(r) \/ Decide(r)
                     \/ Commit(r) \/ Vanished(r) \/ Abort(r)
  \/ Revoke
  \/ \E before \in 0..(MaxTime + IdleTtl) : Prune(before)
  \/ Tick

Spec == Init /\ [][Next]_vars

-----------------------------------------------------------------------------
(* Properties. *)

Time == 0..MaxTime

\* Every variable has its type.
TypeOK ==
  /\ now \in Time
  /\ row \in [present : BOOLEAN, revoked : BOOLEAN, issued : Time, seen : Time,
              expires : Nat]
  /\ pc \in [Reqs -> {"idle", "lookup", "found", "touch"}]
  /\ began \in [Reqs -> Time] /\ stamp \in [Reqs -> Time]
  /\ copy \in [Reqs -> [seen : Time, expires : Nat]]
  /\ used \in Time

Accepted(r) == pc[r] \in {"found", "touch"}

\* However often and however concurrently a session is touched, no lookup at or
\* after AbsoluteTtl from its login accepts it.
AbsoluteLimit == \A r \in Reqs : Accepted(r) => began[r] < row.issued + AbsoluteTtl

\* A session that nobody used for IdleTtl is not accepted any more: at each
\* accepted lookup the latest served request is less than IdleTtl old.
IdleLimit == \A r \in Reqs : Accepted(r) => began[r] < used + IdleTtl

\* How far last_seen_at can be ahead of the clock reading behind expires_at: not at
\* all, unless a second touch becomes due while an older one is still in flight.
Lag == IF Interval < 2 * MaxDelay THEN 2 * MaxDelay ELSE 0

\* What throttled and overtaken touches can cost: less than the touch interval, or
\* two request durations.
Slack == Most(Interval - 1 + Lag, 2 * MaxDelay)

\* The row expires no earlier than a touch at time t would make it.
Backs(t) == row.expires >= Least(row.issued + AbsoluteTtl, t + IdleTtl)

\* A session in use is not cut off early: its expiry is at least IdleTtl - Slack
\* after its latest use, unless the absolute limit comes first.
StaysUsable == row.present => Backs(used - Slack)

\* Half of IdleTtl is left after each use, however long an interval is configured, when
\* two requests fit into the interval and into half of IdleTtl (the cap on the interval).
HalfIdleLeft ==
  row.present /\ 2 * MaxDelay <= TouchInterval /\ 4 * MaxDelay <= IdleTtl =>
    row.expires >= Least(row.issued + AbsoluteTtl, used + IdleTtl \div 2)

\* A touch in flight never undoes a revocation.
RevocationStays == [][row.revoked => row'.revoked]_vars

-----------------------------------------------------------------------------
(* The inductive invariant. *)

\* What the limits say of one pair of columns, as they are in the row or in a copy.
WithinIdle(c) == Interval > 0 => c.expires <= c.seen + IdleTtl

InFlight ==
  \A r \in Reqs :
    /\ pc[r] # "idle" => began[r] <= now /\ now <= began[r] + MaxDelay
    /\ pc[r] = "touch" =>
         /\ began[r] <= stamp[r] /\ stamp[r] <= now
         /\ Interval > 0 => stamp[r] - copy[r].seen >= Interval
    /\ pc[r] = "found" => Backs(copy[r].seen - Lag) \/ Backs(began[r] - MaxDelay)
    /\ Accepted(r) => /\ row.expires = copy[r].expires \/ Backs(began[r] - MaxDelay)
                      /\ WithinIdle(copy[r])

RowInv ==
  /\ row.seen <= used /\ used <= now
  /\ row.expires <= row.issued + AbsoluteTtl /\ row.expires <= used + IdleTtl
  /\ WithinIdle(row)
  /\ Backs(row.seen - Lag) /\ Backs(used - Slack)

IInv == TypeOK /\ InFlight /\ RowInv /\ AbsoluteLimit /\ IdleLimit
=============================================================================
