--------------------------- MODULE RedisLimiter ---------------------------
(***************************************************************************)
(* RedisLoginRateLimiter: the counters are sorted sets in Redis, shared by *)
(* all workers; every worker guards its calls with a deadline and a        *)
(* circuit breaker of its own.                                             *)
(*                                                                         *)
(* An operation is two round trips: TIME, then a pipeline that counts, or  *)
(* a transaction that records, with the time read before.  It may fail     *)
(* before, between or after them, and a command whose caller gave up may   *)
(* still reach Redis.  A failed check is answered by the policy, a failed  *)
(* record is dropped.                                                      *)
(*                                                                         *)
(* Time is relative: an age counts the seconds since a score or a reading  *)
(* of TIME, so that an outage may last for any time.                       *)
(***************************************************************************)
EXTENDS AuthLimits, ClientAddress, FiniteSetsExt

CONSTANTS
  Workers, WorkerOf,    \* server processes; the process that serves a request
  Policy,               \* AUTH_RATE_LIMIT_REDIS_UNAVAILABLE_POLICY
  Threshold, Cooldown,  \* of the circuit breaker
  Deadline,             \* seconds an operation may take
  MaxLate,              \* bound: seconds a command may be under way
  SentHeaders, Routes   \* X-Forwarded-For as sent by clients; chains of proxies

ASSUME RedisAssumption ==
  /\ WorkerOf \in [Reqs -> Workers]
  /\ Policy \in {"fail_closed", "fail_open"}
  /\ {Threshold, Cooldown} \subseteq Nat \ {0}
  /\ Deadline \in Nat /\ MaxLate \in Nat /\ Deadline <= MaxLate
  /\ Proxies \cap IPs = {} /\ Malformed \notin Proxies \cup IPs
  /\ Routes \subseteq Seq(Proxies)
  /\ \A sent \in SentHeaders : sent \in Seq({sent[i] : i \in DOMAIN sent})

VARIABLES
  redis,     \* per scope and key: the sorted set, as the number of its scores that are
             \* at most a seconds old, for every a, and its TTL
  told,      \* history, per scope and key: the same for the records of the last window
  overdue,   \* history: those of them whose caller had given up
  breaker,   \* per worker
  call,      \* per request: the operation it is in, or NoRequest
  late       \* per request: an abandoned command under way, or NoRequest

vars == <<redis, told, overdue, breaker, call, late>>

-----------------------------------------------------------------------------
(* The sorted sets. *)

\* Older scores are all alike: no command under way can still tell them apart.
MaxAge(s) == WindowOf(s) + MaxLate + 1

NoKey(s) == [count |-> [a \in 0..MaxAge(s) |-> 0], ttl |-> 0]

\* _count_active, one ZCOUNT window_start +inf.
Counted(set, s, age) == set.count[WindowOf(s) + age]

\* What ZREMRANGEBYSCORE -inf (window_start leaves and ZADD adds, with a time read age
\* seconds ago.
Updated(set, s, age) ==
  [a \in 0..MaxAge(s) |->
     set.count[IF a > WindowOf(s) + age THEN WindowOf(s) + age ELSE a] + (IF a >= age THEN 1 ELSE 0)]

\* Fault: the key expires with the window of its last record.
RecordedShortTtl(set, s, age) == [count |-> Updated(set, s, age), ttl |-> WindowOf(s)]

\* _record for one key: ZREMRANGEBYSCORE, ZADD, EXPIRE.
Recorded(set, s, age) == [count |-> Updated(set, s, age), ttl |-> WindowOf(s) + 1]

\* A second passes: scores age, and a key whose TTL runs out is gone.
Aged(set, s) ==
  IF set.ttl <= 1 THEN NoKey(s)
  ELSE [count |-> [a \in 0..MaxAge(s) |->
                     CASE a = 0 -> 0
                       [] a = MaxAge(s) -> set.count[a]
                       [] OTHER -> set.count[a - 1]],
        ttl |-> set.ttl - 1]

\* The same for the histories, which end with the window.
AgedHits(hits) == [a \in DOMAIN hits |-> IF a = 0 THEN 0 ELSE hits[a - 1]]

OneMore(hits, age) == [a \in DOMAIN hits |-> hits[a] + (IF a >= age THEN 1 ELSE 0)]

NoHits(s) == [a \in 0..WindowOf(s) |-> 0]

\* What a record or a record_success changes: the scopes it writes and forgets.
Command == [writes : SUBSET Scopes, forgets : SUBSET Scopes, req : Requests, age : 0..MaxLate]

Applied(c) ==
  /\ redis' = [s \in Scopes |-> [k \in Keys(s) |->
       CASE k = KeyOf(s, c.req) /\ s \in c.writes -> Recorded(redis[s][k], s, c.age)
         [] k = KeyOf(s, c.req) /\ s \in c.forgets -> NoKey(s)
         [] OTHER -> redis[s][k]]]
  /\ told' = [s \in Scopes |-> [k \in Keys(s) |->
       CASE k = KeyOf(s, c.req) /\ s \in c.writes -> OneMore(told[s][k], c.age)
         [] k = KeyOf(s, c.req) /\ s \in c.forgets -> NoHits(s)
         [] OTHER -> told[s][k]]]

-----------------------------------------------------------------------------
(* The circuit breaker of a worker: consecutive failures (counted up to    *)
(* the threshold), whether _circuit_opened_at is set and what is left of   *)
(* the cooldown.  burst and probing are history: operations that failed    *)
(* since the last success or cooldown, and whether that was a cooldown.    *)

\* Fault: the cooldown never ends.
IsOpenForever(b) == b.opened

IsOpen(b) == b.opened /\ b.left > 0

\* Fault: an elapsed cooldown forgets the failures too.
CheckedForgets(b) ==
  IF b.opened THEN [b EXCEPT !.opened = FALSE, !.failures = 0, !.burst = 0, !.probing = TRUE] ELSE b

\* _circuit_is_open when it answers no: the failures are kept.
Checked(b) == IF b.opened THEN [b EXCEPT !.opened = FALSE, !.burst = 0, !.probing = TRUE] ELSE b

MarkFailure(b) ==
  LET trips == b.failures + 1 >= Threshold
  IN [b EXCEPT !.failures = IF trips THEN Threshold ELSE @ + 1,
               !.opened = @ \/ trips,
               !.left = IF trips THEN Cooldown ELSE @,
               !.burst = @ + 1]

\* Fault: the opening stays.
MarkSuccessKeepsOpen(b) == [b EXCEPT !.failures = 0, !.burst = 0, !.probing = FALSE]

MarkSuccess(b) == [failures |-> 0, opened |-> FALSE, left |-> 0, burst |-> 0, probing |-> FALSE]

-----------------------------------------------------------------------------
(* The operations of a request: "check", "next" (is_registration_allowed), *)
(* then "work", then "fail" or "succeed".                                  *)

Checks == {"check", "next"}

ConsultedBy(c) == IF c.doing = "check" THEN Consulted(c.req.flow) ELSE ConsultedNext(c.req.flow)

Writes(c) == CASE c.doing = "fail" -> OnFailure(c.req.flow)
               [] c.doing = "succeed" -> OnSuccess(c.req.flow)
               [] OTHER -> {}

Forgets(c) == IF c.doing = "succeed" THEN Forgotten(c.req.flow) ELSE {}

\* record_success is a DELETE and needs no TIME.
NeedsTime(c) == c.doing \in Checks \/ Writes(c) # {}

\* Fault: an unanswered check passes.
UnavailableOpen == TRUE

\* _run_check_operation for a result of None.
Unavailable == Policy = "fail_open"

Idle(c, doing) == [c EXCEPT !.doing = doing, !.net = "none", !.left = {}, !.age = 0, !.spent = 0, !.ok = TRUE]

\* The rest of the request when it may not go on to Redis: b is its worker's breaker.
Enter(r, c, b) ==
  IF IsOpen(b)
  THEN /\ call' = [call EXCEPT ![r] = IF c.doing \in Checks /\ Unavailable
                                      THEN Idle(c, "work") ELSE NoRequest]
       /\ breaker' = [breaker EXCEPT ![WorkerOf[r]] = b]
  ELSE /\ call' = [call EXCEPT ![r] = [Idle(c, c.doing) EXCEPT !.net = "start"]]
       /\ breaker' = [breaker EXCEPT ![WorkerOf[r]] = Checked(b)]

\* An operation is over; answer is its result, for a check.
Finish(r, c, b, answer) ==
  IF c.doing = "check" /\ answer /\ ConsultedNext(c.req.flow) # {}
  THEN Enter(r, [c EXCEPT !.doing = "next"], b)
  ELSE /\ call' = [call EXCEPT ![r] = IF c.doing \in Checks /\ answer
                                      THEN Idle(c, "work") ELSE NoRequest]
       /\ breaker' = [breaker EXCEPT ![WorkerOf[r]] = b]

\* What the server takes for the address of a client, whatever header the client sends
\* and whichever proxies pass it on.
AddressesOf ==
  [from \in IPs |-> {ResolveClientIp(PeerOf(from, hops), HeaderOf(from, hops, sent)) :
                        sent \in SentHeaders, hops \in Routes}]

\* A client's request, counted under the address the server resolves.
Start(r) ==
  /\ call[r] = NoRequest
  /\ \E flow \in Flows, email \in Emails, from \in IPs : \E ip \in AddressesOf[from] :
       Enter(r, [doing |-> "check", net |-> "none", left |-> {}, age |-> 0,
                 spent |-> 0, ok |-> TRUE, from |-> from,
                 req |-> [flow |-> flow, email |-> email, ip |-> ip]],
             breaker[WorkerOf[r]])
  /\ UNCHANGED <<redis, told, overdue, late>>

\* Redis answers TIME.
ReadTime(r) ==
  /\ call[r] # NoRequest /\ call[r].net = "start" /\ NeedsTime(call[r])
  /\ call' = [call EXCEPT ![r].net = "timed", ![r].left = ConsultedBy(call[r])]
  /\ UNCHANGED <<redis, told, overdue, breaker, late>>

\* One ZCOUNT of the pipeline, which is no transaction; the keys come in this order.
Order == <<"email_ip", "ip", "email", "registration_ip", "oidc_ip">>

Count(r) ==
  /\ call[r] # NoRequest /\ call[r].net = "timed" /\ call[r].doing \in Checks
  /\ LET s == Order[Min({i \in DOMAIN Order : Order[i] \in call[r].left})] IN
       call' = [call EXCEPT ![r].left = @ \ {s},
                  ![r].ok = @ /\ Counted(redis[s][KeyOf(s, call[r].req)], s, call[r].age) < Limit(s),
                  ![r].net = IF call[r].left = {s} THEN "done" ELSE @,
                  ![r].age = IF call[r].left = {s} THEN 0 ELSE @]
  /\ UNCHANGED <<redis, told, overdue, breaker, late>>

CommandOf(c) == [writes |-> Writes(c), forgets |-> Forgets(c), req |-> c.req, age |-> c.age]

\* The command is ready to be sent: the time is known, or not needed.
Ready(c) == c.doing \in {"fail", "succeed"} /\ c.net = (IF NeedsTime(c) THEN "timed" ELSE "start")

\* Redis runs the transaction, or the DELETE.
Execute(r) ==
  /\ call[r] # NoRequest /\ Ready(call[r])
  /\ Applied(CommandOf(call[r]))
  /\ overdue' = [s \in Scopes |-> [k \in Keys(s) |->
       IF s \in Forgets(call[r]) /\ k = KeyOf(s, call[r].req) THEN NoHits(s) ELSE overdue[s][k]]]
  /\ call' = [call EXCEPT ![r].net = "done", ![r].age = 0]
  /\ UNCHANGED <<breaker, late>>

\* The answer of the last command arrives in time.
Answer(r) ==
  /\ call[r] # NoRequest /\ call[r].net = "done"
  /\ Finish(r, call[r], MarkSuccess(breaker[WorkerOf[r]]), call[r].ok)
  /\ UNCHANGED <<redis, told, overdue, late>>

\* A Redis error or the deadline; a command that was sent may still be under way.
Break(r) ==
  /\ call[r] # NoRequest /\ call[r].net # "none"
  /\ Finish(r, call[r], MarkFailure(breaker[WorkerOf[r]]), Unavailable)
  /\ \/ late' = late
     \/ Ready(call[r]) /\ late[r] = NoRequest
        /\ late' = [late EXCEPT ![r] = CommandOf(call[r])]
  /\ UNCHANGED <<redis, told, overdue>>

\* TIME, and then the pipeline, take a connection each.
TakesConnection(c) ==
  \/ c.net = "start"
  \/ c.net = "timed" /\ (c.doing \in Checks => c.left = ConsultedBy(c))

\* No connection becomes free in time: the breaker does not count this.
PoolExhausted(r) ==
  /\ call[r] # NoRequest /\ TakesConnection(call[r])
  /\ Finish(r, call[r], breaker[WorkerOf[r]], Unavailable)
  /\ UNCHANGED <<redis, told, overdue, late>>

\* An abandoned command reaches Redis after all, or never.
LateExecute(r) ==
  /\ late[r] # NoRequest
  /\ Applied(late[r])
  /\ overdue' = [s \in Scopes |-> [k \in Keys(s) |->
       CASE k = KeyOf(s, late[r].req) /\ s \in late[r].writes -> OneMore(overdue[s][k], late[r].age)
         [] k = KeyOf(s, late[r].req) /\ s \in late[r].forgets -> NoHits(s)
         [] OTHER -> overdue[s][k]]]
  /\ late' = [late EXCEPT ![r] = NoRequest]
  /\ UNCHANGED <<breaker, call>>

LateLost(r) ==
  /\ late[r] # NoRequest
  /\ late' = [late EXCEPT ![r] = NoRequest]
  /\ UNCHANGED <<redis, told, overdue, breaker, call>>

-----------------------------------------------------------------------------
(* The outcome of a request, and its environment. *)

Fail(r) ==
  /\ call[r] # NoRequest /\ call[r].doing = "work"
  /\ IF OnFailure(call[r].req.flow) # {}
     THEN Enter(r, [call[r] EXCEPT !.doing = "fail"], breaker[WorkerOf[r]])
     ELSE call' = [call EXCEPT ![r] = NoRequest] /\ UNCHANGED breaker
  /\ UNCHANGED <<redis, told, overdue, late>>

Succeed(r) ==
  /\ call[r] # NoRequest /\ call[r].doing = "work"
  /\ IF OnSuccess(call[r].req.flow) \cup Forgotten(call[r].req.flow) # {}
     THEN Enter(r, [call[r] EXCEPT !.doing = "succeed"], breaker[WorkerOf[r]])
     ELSE call' = [call EXCEPT ![r] = NoRequest] /\ UNCHANGED breaker
  /\ UNCHANGED <<redis, told, overdue, late>>

Leave(r) ==
  /\ call[r] # NoRequest /\ call[r].doing = "work"
  /\ call' = [call EXCEPT ![r] = NoRequest]
  /\ UNCHANGED <<redis, told, overdue, breaker, late>>

\* A second passes, unless an operation has reached its deadline.
Tick ==
  /\ \A r \in Reqs : /\ call[r] # NoRequest /\ call[r].net # "none" => call[r].spent < Deadline
                     /\ late[r] # NoRequest => late[r].age < MaxLate
  /\ breaker' = [w \in Workers |-> [breaker[w] EXCEPT !.left = IF @ = 0 THEN 0 ELSE @ - 1]]
  /\ call' = [r \in Reqs |-> IF call[r] # NoRequest /\ call[r].net # "none"
                             THEN [call[r] EXCEPT !.spent = @ + 1,
                                                  !.age = IF call[r].net = "timed" THEN @ + 1 ELSE 0]
                             ELSE call[r]]
  /\ late' = [r \in Reqs |-> IF late[r] # NoRequest
                             THEN [late[r] EXCEPT !.age = @ + 1] ELSE NoRequest]
  /\ redis' = [s \in Scopes |-> [k \in Keys(s) |-> Aged(redis[s][k], s)]]
  /\ told' = [s \in Scopes |-> [k \in Keys(s) |-> AgedHits(told[s][k])]]
  /\ overdue' = [s \in Scopes |-> [k \in Keys(s) |-> AgedHits(overdue[s][k])]]

Init ==
  /\ redis = [s \in Scopes |-> [k \in Keys(s) |-> NoKey(s)]]
  /\ told = [s \in Scopes |-> [k \in Keys(s) |-> NoHits(s)]]
  /\ overdue = told
  /\ breaker = [w \in Workers |->
                  [failures |-> 0, opened |-> FALSE, left |-> 0, burst |-> 0, probing |-> FALSE]]
  /\ call = [r \in Reqs |-> NoRequest]
  /\ late = [r \in Reqs |-> NoRequest]

\* What a request does, and what Redis does to it.
Serve(r) == Start(r) \/ Leave(r) \/ Fail(r) \/ Succeed(r) \/ Answer(r) \/ ReadTime(r) \/ Break(r)
            \/ PoolExhausted(r) \/ Count(r) \/ Execute(r)

Next ==
  \/ \E r \in Reqs : Serve(r) \/ LateExecute(r) \/ LateLost(r)
  \/ Tick

Spec == Init /\ [][Next]_vars

\* Requests keep coming, their steps and time go on, and no command is under way
\* for ever.
FairSpec ==
  /\ Spec /\ WF_vars(Tick)
  /\ \A r \in Reqs : WF_vars(Serve(r)) /\ WF_vars(LateLost(r) \/ LateExecute(r))

-----------------------------------------------------------------------------
(* Properties. *)

\* The state is well formed; a breaker is open only with its threshold reached.
TypeOK ==
  /\ \A s \in Scopes : \A k \in Keys(s) :
       /\ redis[s][k].count \in [0..MaxAge(s) -> Nat] /\ redis[s][k].ttl \in 0..(WindowOf(s) + 1)
       /\ told[s][k] \in [0..WindowOf(s) -> Nat] /\ overdue[s][k] \in [0..WindowOf(s) -> Nat]
  /\ \A w \in Workers : LET b == breaker[w] IN
       /\ b.failures \in 0..Threshold /\ b.left \in 0..Cooldown
       /\ b.opened => b.failures = Threshold
  /\ \A r \in Reqs : call[r] # NoRequest =>
       /\ call[r].doing \in Checks \cup {"work", "fail", "succeed"}
       /\ call[r].net \in {"none", "start", "timed", "done"}
       /\ call[r].age \in 0..call[r].spent /\ call[r].spent \in 0..Deadline
  /\ \A r \in Reqs : late[r] \in Command \cup {NoRequest}

\* The transaction that trims a set with an older reading of TIME, and the TTL of the
\* key, never remove a record of the last window, also not when the command was late.
KeepsWindow ==
  \A s \in Scopes : \A k \in Keys(s) : \A a \in 0..WindowOf(s) :
    redis[s][k].count[a] = told[s][k][a]

\* Requests that may still be recorded in scope s under key k.
InFlight(s, k) == {r \in Reqs : /\ call[r] # NoRequest
                                /\ call[r].doing \in {"work", "fail", "succeed"}
                                /\ call[r].net # "done"
                                /\ s \in OnFailure(call[r].req.flow) \cup OnSuccess(call[r].req.flow)
                                /\ KeyOf(s, call[r].req) = k}

\* With fail_closed, n concurrent requests exceed a limit by at most n - 1 records,
\* whatever fails, except for those whose command arrives after the deadline.
Overshoot ==
  Policy = "fail_closed" =>
    \A s \in Scopes : \A k \in Keys(s) :
      told[s][k][WindowOf(s)] - overdue[s][k][WindowOf(s)] + Cardinality(InFlight(s, k))
        <= Limit(s) - 1 + Cardinality(Reqs)

\* In an outage a worker waits for Redis at most once per concurrent request and
\* cooldown, and Threshold - 1 times more before the circuit opens first.
OutageCost ==
  \A w \in Workers :
    breaker[w].burst <= (IF breaker[w].probing THEN 0 ELSE Threshold - 1)
                        + Cardinality({r \in Reqs : WorkerOf[r] = w})

\* A request is counted under the address of the client that sent it, whatever
\* X-Forwarded-For the client sent and through whichever trusted proxies it came.
OwnCounters == \A r \in Reqs : call[r] # NoRequest => call[r].req.ip = call[r].from

\* Once Redis is well again every circuit closes for good: the probe after a cooldown
\* succeeds, and no failure of the outage is left to open it again.
Recovers ==
  <>[][\A r \in Reqs : ~Break(r) /\ ~PoolExhausted(r)]_vars =>
    <>[](\A w \in Workers : ~breaker[w].opened)
=============================================================================
