--------------------------- MODULE SlidingWindow ---------------------------
(***************************************************************************)
(* What the rate limiter promises: every scope counts, per key, exactly    *)
(* the records of the last window, for at most Cap keys at a time.         *)
(*                                                                         *)
(* A request is checked, works for a while (password hash, provider,       *)
(* database) and is recorded afterwards, so concurrent requests pass the   *)
(* check on the same count.                                                *)
(***************************************************************************)
EXTENDS AuthLimits

CONSTANTS
  Cap,      \* AUTH_RATE_LIMIT_MAX_BUCKETS_PER_SCOPE
  MaxTime   \* bound on the clock

VARIABLES
  now,    \* the monotonic clock
  live,   \* per scope and key: times of the records of the last window
  req     \* per request: the flow that passed its check, or NoRequest

vars == <<now, live, req>>

-----------------------------------------------------------------------------
Allowed(s, q) == Len(live[s][KeyOf(s, q)]) < Limit(s)

\* A new key is not counted while Cap other keys have a live record.
Counted(l, k) ==
  IF l[k] = <<>> /\ Cardinality({j \in DOMAIN l : l[j] # <<>>}) >= Cap
  THEN l ELSE [l EXCEPT ![k] = Append(@, now)]

Check(r, q) ==
  /\ req[r] = NoRequest
  /\ \A s \in Consulted(q.flow) \cup ConsultedNext(q.flow) : Allowed(s, q)
  /\ req' = [req EXCEPT ![r] = q]
  /\ UNCHANGED <<now, live>>

\* Wrong password, email taken, weak password.
Fail(r) ==
  /\ req[r] # NoRequest
  /\ live' = [s \in Scopes |-> IF s \in OnFailure(req[r].flow)
                               THEN Counted(live[s], KeyOf(s, req[r])) ELSE live[s]]
  /\ req' = [req EXCEPT ![r] = NoRequest]
  /\ UNCHANGED now

Succeed(r) ==
  /\ req[r] # NoRequest
  /\ live' = [s \in Scopes |->
                CASE s \in OnSuccess(req[r].flow) -> Counted(live[s], KeyOf(s, req[r]))
                  [] s \in Forgotten(req[r].flow) ->
                       [live[s] EXCEPT ![KeyOf(s, req[r])] = <<>>]
                  [] OTHER -> live[s]]
  /\ req' = [req EXCEPT ![r] = NoRequest]
  /\ UNCHANGED now

\* The request ends without a record (database error, disconnect, missing
\* password).
Leave(r) ==
  /\ req[r] # NoRequest
  /\ req' = [req EXCEPT ![r] = NoRequest]
  /\ UNCHANGED <<now, live>>

\* The records not older than the window; the expired ones come first.
Recent(q, w, t) == SubSeq(q, Cardinality({i \in DOMAIN q : t - q[i] > w}) + 1, Len(q))

Tick ==
  /\ now < MaxTime
  /\ now' = now + 1
  /\ live' = [s \in Scopes |-> [k \in Keys(s) |->
                Recent(live[s][k], WindowOf(s), now + 1)]]
  /\ UNCHANGED req

Init ==
  /\ now = 0
  /\ live = [s \in Scopes |-> [k \in Keys(s) |-> <<>>]]
  /\ req = [r \in Reqs |-> NoRequest]

Next ==
  \/ \E r \in Reqs : \/ \E q \in Requests : Check(r, q)
                     \/ Fail(r) \/ Succeed(r) \/ Leave(r)
  \/ Tick

Spec == Init /\ [][Next]_vars

-----------------------------------------------------------------------------
(* Properties. *)

\* Requests that may still be recorded in scope s under key k.
InFlight(s, k) == {r \in Reqs : /\ req[r] # NoRequest
                                /\ s \in OnFailure(req[r].flow) \cup OnSuccess(req[r].flow)
                                /\ KeyOf(s, req[r]) = k}

\* Check-then-record is not atomic, but the excess is bounded: with n concurrent
\* requests a key never collects more than limit - 1 + n records in a window.
Overshoot ==
  \A s \in Scopes : \A k \in Keys(s) :
    Len(live[s][k]) + Cardinality(InFlight(s, k)) <= Limit(s) - 1 + Cardinality(Reqs)
=============================================================================
