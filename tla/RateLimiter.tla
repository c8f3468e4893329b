---------------------------- MODULE RateLimiter ----------------------------
(***************************************************************************)
(* InMemoryLoginRateLimiter: an ordered dictionary of buckets per scope.   *)
(*                                                                         *)
(* Buckets are trimmed when they are touched, and expired buckets are      *)
(* evicted when a scope is full, from the front of the dictionary and only *)
(* while the front one is expired.  The limiter runs on one event loop and *)
(* never suspends, so each call is one step.                               *)
(***************************************************************************)
EXTENDS AuthLimits, SequencesExt

CONSTANTS
  Cap,      \* AUTH_RATE_LIMIT_MAX_BUCKETS_PER_SCOPE
  MaxTime   \* bound on the clock

ASSUME CapAssumption == {Cap, MaxTime} \subseteq Nat \ {0}

VARIABLES
  now,      \* self._clock()
  buckets,  \* per scope: the OrderedDict, as its order and its deques
  req       \* per request: the flow that passed its check, or NoRequest

vars == <<now, buckets, req>>

-----------------------------------------------------------------------------
(* One bucket dictionary: b.order holds the keys from front to back;       *)
(* b.hits[k] is the deque of k, empty when there is no bucket.             *)

Live(q, w, t) == {i \in DOMAIN q : t - q[i] <= w}

\* _trim: popleft up to the first live record.
Trim(q, w, t) == IF Live(q, w, t) = {} THEN <<>> ELSE SubSeq(q, Min(Live(q, w, t)), Len(q))

Delete(b, k) == [order |-> RemoveFirst(b.order, k), hits |-> [b.hits EXCEPT ![k] = <<>>]]

\* Fault: an emptied bucket stays in the dictionary.
GetExistingKeepsEmpty(b, k, w, t) == [b EXCEPT !.hits[k] = Trim(@, w, t)]

\* _get_existing_bucket.
GetExisting(b, k, w, t) ==
  LET q == Trim(b.hits[k], w, t)
  IN IF q = <<>> THEN Delete(b, k) ELSE [b EXCEPT !.hits[k] = q]

\* Fault: the front goes, live or not.
EvictLive(b, w, t) == Delete(b, Head(b.order))

\* _evict_expired_buckets: the front goes while the scope is full and the front is
\* expired; a live front is trimmed and stays.
Evict(b, w, t) ==
  LET stops == {Len(b.order) - Cap + 1} \cup
               {i - 1 : i \in {j \in DOMAIN b.order : Live(b.hits[b.order[j]], w, t) # {}}}
      n == Min(stops)
      gone == {b.order[i] : i \in 1..n}
      front == IF Len(b.order) - n >= Cap THEN {b.order[n + 1]} ELSE {}
  IN [order |-> SubSeq(b.order, n + 1, Len(b.order)),
      hits |-> [k \in DOMAIN b.hits |-> CASE k \in gone -> <<>>
                                          [] k \in front -> Trim(b.hits[k], w, t)
                                          [] OTHER -> b.hits[k]]]

\* Fault: the size is not looked at again after the eviction.
RecordOverCap(b, k, w, t) ==
  LET e == GetExisting(b, k, w, t)
      room == IF Len(e.order) >= Cap THEN Evict(e, w, t) ELSE e
  IN IF e.hits[k] # <<>>
     THEN [order |-> Append(RemoveFirst(e.order, k), k), hits |-> [e.hits EXCEPT ![k] = Append(@, t)]]
     ELSE [order |-> Append(room.order, k), hits |-> [room.hits EXCEPT ![k] = <<t>>]]

\* _get_or_create_bucket and the append: a known bucket moves to the end, a new one
\* is dropped when the scope is still full after the eviction.
Record(b, k, w, t) ==
  LET e == GetExisting(b, k, w, t)
      room == IF Len(e.order) >= Cap THEN Evict(e, w, t) ELSE e
  IN CASE e.hits[k] # <<>> ->
            [order |-> Append(RemoveFirst(e.order, k), k), hits |-> [e.hits EXCEPT ![k] = Append(@, t)]]
       [] e.hits[k] = <<>> /\ Len(room.order) >= Cap -> room
       [] OTHER -> [order |-> Append(room.order, k), hits |-> [room.hits EXCEPT ![k] = <<t>>]]

-----------------------------------------------------------------------------
(* The limiter's methods, as the usecases call them. *)

\* The buckets after the given scopes have been consulted for q.
Looked(bs, scopes, q) ==
  [s \in Scopes |-> IF s \in scopes THEN GetExisting(bs[s], KeyOf(s, q), WindowOf(s), now)
                    ELSE bs[s]]

\* Fault: one more than the limit.
BelowOrAt(bs, scopes, q) == \A s \in scopes : Len(bs[s].hits[KeyOf(s, q)]) <= Limit(s)

Below(bs, scopes, q) == \A s \in scopes : Len(bs[s].hits[KeyOf(s, q)]) < Limit(s)

\* The flow's checks; the second one is made only when the first one passes.
Check(r, q) ==
  LET first == Looked(buckets, Consulted(q.flow), q)
      second == Looked(first, ConsultedNext(q.flow), q)
      passed == Below(first, Consulted(q.flow), q)
  IN /\ req[r] = NoRequest
     /\ buckets' = IF passed THEN second ELSE first
     /\ req' = IF passed /\ Below(second, ConsultedNext(q.flow), q)
               THEN [req EXCEPT ![r] = q] ELSE req
     /\ UNCHANGED now

Recorded(s, q) == Record(buckets[s], KeyOf(s, q), WindowOf(s), now)

Fail(r) ==
  /\ req[r] # NoRequest
  /\ buckets' = [s \in Scopes |-> IF s \in OnFailure(req[r].flow) THEN Recorded(s, req[r])
                                  ELSE buckets[s]]
  /\ req' = [req EXCEPT ![r] = NoRequest]
  /\ UNCHANGED now

Succeed(r) ==
  /\ req[r] # NoRequest
  /\ buckets' = [s \in Scopes |->
                   CASE s \in OnSuccess(req[r].flow) -> Recorded(s, req[r])
                     [] s \in Forgotten(req[r].flow) -> Delete(buckets[s], KeyOf(s, req[r]))
                     [] OTHER -> buckets[s]]
  /\ req' = [req EXCEPT ![r] = NoRequest]
  /\ UNCHANGED now

\* The request ends without a record (database error, disconnect, missing
\* password).
Leave(r) ==
  /\ req[r] # NoRequest
  /\ req' = [req EXCEPT ![r] = NoRequest]
  /\ UNCHANGED <<now, buckets>>

Tick ==
  /\ now < MaxTime
  /\ now' = now + 1
  /\ UNCHANGED <<buckets, req>>

Init ==
  /\ now = 0
  /\ buckets = [s \in Scopes |-> [order |-> <<>>, hits |-> [k \in Keys(s) |-> <<>>]]]
  /\ req = [r \in Reqs |-> NoRequest]

Next ==
  \/ \E r \in Reqs : \/ \E q \in Requests : Check(r, q)
                     \/ Fail(r) \/ Succeed(r) \/ Leave(r)
  \/ Tick

Spec == Init /\ [][Next]_vars

-----------------------------------------------------------------------------
(* Properties. *)

\* The dictionary lists exactly the keys with a bucket, each once, and every bucket
\* holds past times in order.
TypeOK ==
  /\ now \in 0..MaxTime
  /\ req \in [Reqs -> Requests \cup {NoRequest}]
  /\ \A s \in Scopes :
       LET b == buckets[s] IN
       /\ DOMAIN b.hits = Keys(s)
       /\ IsInjective(b.order)
       /\ Range(b.order) = {k \in Keys(s) : b.hits[k] # <<>>}
       /\ \A k \in Keys(s) : /\ b.hits[k] \in Seq(0..now)
                             /\ IsSorted(b.hits[k], <=)

\* No scope holds more than Cap buckets, however many addresses are seen.
BucketsBounded == \A s \in Scopes : Len(buckets[s].order) <= Cap

\* The refinement mapping: what is left of the deques once they are trimmed.
Unexpired == [s \in Scopes |-> [k \in Keys(s) |-> Trim(buckets[s].hits[k], WindowOf(s), now)]]

Promise == INSTANCE SlidingWindow WITH live <- Unexpired

\* Lazy trimming and front-only eviction lose no live record and refuse no new bucket
\* while an expired one could go, because the buckets stand in the order of their
\* latest record: the limiter implements the sliding window.
ImplementsWindow == Promise!Spec

\* Check-then-record is not atomic, but the excess is bounded: with n concurrent
\* requests a key never collects more than limit - 1 + n records in a window.
Overshoot == Promise!Overshoot
=============================================================================
