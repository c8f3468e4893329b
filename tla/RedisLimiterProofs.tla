------------------------- MODULE RedisLimiterProofs -------------------------
(***************************************************************************)
(* Proofs about RedisLimiter, for any numbers of workers, requests and     *)
(* addresses and all settings: what an outage costs a worker, that the     *)
(* keys hold the records of the window, and that concurrent requests       *)
(* exceed a limit by no more than their number.                            *)
(***************************************************************************)
EXTENDS RedisLimiter, FiniteSetTheorems, SequenceTheorems, TLAPS

(* The requests a worker serves, and those of them that wait for Redis. *)
Mine(w) == {r \in Reqs : WorkerOf[r] = w}

InNet(w) == {r \in Mine(w) : call[r] # NoRequest /\ call[r].net # "none"}

(* What a breaker may be between two steps: while the circuit is closed     *)
(* the failures since the last success, or none since a cooldown.           *)
BreakerOk(b) ==
  /\ b \in [failures : Nat, opened : BOOLEAN, left : 0..Cooldown, burst : Nat, probing : BOOLEAN]
  /\ b.opened => b.failures = Threshold
  /\ ~b.opened /\ b.probing => b.burst = 0 /\ b.failures = Threshold
  /\ ~b.opened /\ ~b.probing => b.burst = b.failures /\ b.failures <= Threshold - 1

Base(b) == IF b.probing THEN 0 ELSE Threshold - 1

(* Every request that waits may still fail once. *)
Within(b, w, waiting) == b.burst + Cardinality(waiting) <= Base(b) + Cardinality(Mine(w))

Calls ==
  /\ DOMAIN call = Reqs
  /\ \A r \in Reqs : call[r] # NoRequest => "net" \in DOMAIN call[r]

Breakers ==
  /\ DOMAIN breaker = Workers
  /\ \A w \in Workers : BreakerOk(breaker[w]) /\ Within(breaker[w], w, InNet(w))

CostInv == Calls /\ Breakers

-----------------------------------------------------------------------------

LEMMA Waiting ==
  ASSUME NEW w, NEW S, S \subseteq Mine(w)
  PROVE  /\ Cardinality(S) \in Nat /\ Cardinality(Mine(w)) \in Nat
         /\ Cardinality(S) <= Cardinality(Mine(w))
         /\ IsFiniteSet(S)
<1>1. IsFiniteSet(Mine(w))
  BY LimitsAssumption, FS_Subset DEF Mine
<1> QED
  BY <1>1, FS_Subset, FS_CardinalityType

(* A closed circuit bounds the cost by itself. *)
LEMMA ClosedWithin ==
  ASSUME NEW b, BreakerOk(b), ~b.opened, NEW w, NEW S, S \subseteq Mine(w)
  PROVE  Within(b, w, S)
<1> DEFINE n == Cardinality(S)
           m == Cardinality(Mine(w))
<1>1. n \in Nat /\ m \in Nat /\ n <= m
  BY Waiting
<1>2. Threshold \in Nat \ {0}
  BY RedisAssumption
<1> HIDE DEF n, m
<1>3. b.burst + n <= Base(b) + m
  BY <1>1, <1>2 DEF BreakerOk, Base
<1> QED
  BY <1>3 DEF Within, n, m

LEMMA FewerWithin ==
  ASSUME NEW b, BreakerOk(b), NEW w, NEW S, S \subseteq Mine(w), Within(b, w, S),
         NEW T, T \subseteq S
  PROVE  Within(b, w, T)
<1> DEFINE n == Cardinality(S)
           m == Cardinality(Mine(w))
           k == Cardinality(T)
<1>1. n \in Nat /\ m \in Nat /\ k \in Nat
  BY Waiting
<1>2. k <= n
  BY Waiting, FS_Subset
<1>3. Threshold \in Nat \ {0}
  BY RedisAssumption
<1>4. b.burst + n <= Base(b) + m
  BY DEF Within
<1> HIDE DEF n, m, k
<1>5. b.burst + k <= Base(b) + m
  BY <1>1, <1>2, <1>3, <1>4 DEF BreakerOk, Base
<1> QED
  BY <1>5 DEF Within, m, k

(* What the methods of the breaker make of it. *)
LEMMA CheckedOk ==
  ASSUME NEW b, BreakerOk(b)
  PROVE  BreakerOk(Checked(b)) /\ ~Checked(b).opened
BY RedisAssumption DEF BreakerOk, Checked

LEMMA SuccessOk ==
  ASSUME NEW b
  PROVE  BreakerOk(MarkSuccess(b)) /\ ~MarkSuccess(b).opened
BY RedisAssumption DEF BreakerOk, MarkSuccess

LEMMA FailureOk ==
  ASSUME NEW b, BreakerOk(b)
  PROVE  /\ BreakerOk(MarkFailure(b))
         /\ MarkFailure(b).burst = b.burst + 1
         /\ MarkFailure(b).probing = b.probing
<1> DEFINE f == MarkFailure(b)
<1> USE RedisAssumption
<1>1. b \in [failures : Nat, opened : BOOLEAN, left : 0..Cooldown, burst : Nat, probing : BOOLEAN]
  BY DEF BreakerOk
<1>2. CASE b.failures + 1 >= Threshold
  <2>1. (b.opened \/ b.failures + 1 >= Threshold) = TRUE
    BY <1>2
  <2>2. f = [b EXCEPT !.failures = Threshold, !.opened = b.opened \/ b.failures + 1 >= Threshold,
                      !.left = Cooldown, !.burst = @ + 1]
    BY <1>2 DEF MarkFailure
  <2> HIDE DEF f
  <2>3. f = [b EXCEPT !.failures = Threshold, !.opened = TRUE, !.left = Cooldown, !.burst = @ + 1]
    BY <2>1, <2>2
  <2>4. f = [failures |-> Threshold, opened |-> TRUE, left |-> Cooldown,
             burst |-> b.burst + 1, probing |-> b.probing]
    BY <1>1, <2>3
  <2>5. BreakerOk(f) /\ f.burst = b.burst + 1 /\ f.probing = b.probing
    BY <1>1, <2>4 DEF BreakerOk
  <2> QED
    BY <2>5 DEF f
<1>3. CASE ~(b.failures + 1 >= Threshold)
  <2>1. b.opened = FALSE /\ ~b.probing
    BY <1>1, <1>3 DEF BreakerOk
  <2>2. (b.opened \/ b.failures + 1 >= Threshold) = FALSE
    BY <1>3, <2>1
  <2>3. f = [b EXCEPT !.failures = @ + 1, !.opened = b.opened \/ b.failures + 1 >= Threshold,
                      !.left = @, !.burst = @ + 1]
    BY <1>3 DEF MarkFailure
  <2> HIDE DEF f
  <2>4. f = [b EXCEPT !.failures = @ + 1, !.opened = FALSE, !.left = @, !.burst = @ + 1]
    BY <2>2, <2>3
  <2>5. f = [failures |-> b.failures + 1, opened |-> FALSE, left |-> b.left,
             burst |-> b.burst + 1, probing |-> b.probing]
    BY <1>1, <2>4
  <2>6. BreakerOk(f) /\ f.burst = b.burst + 1 /\ f.probing = b.probing
    BY <1>1, <1>3, <2>1, <2>5 DEF BreakerOk
  <2> QED
    BY <2>6 DEF f
<1> QED
  BY <1>2, <1>3

LEMMA IdleNet ==
  ASSUME NEW c, "net" \in DOMAIN c, NEW doing
  PROVE  "net" \in DOMAIN Idle(c, doing) /\ Idle(c, doing).net = "none"
BY DEF Idle

(* A request that leaves Redis alone is not among those that wait. *)
LEMMA GoneWaiting ==
  ASSUME Calls, NEW r \in Reqs, NEW x, call' = [call EXCEPT ![r] = x],
         x = NoRequest \/ ("net" \in DOMAIN x /\ x.net = "none")
  PROVE  Calls' /\ \A w : InNet(w)' = InNet(w) \ {r}
BY DEF Calls, InNet, Mine

LEMMA SomeWaiting ==
  ASSUME Calls, NEW r \in Reqs, NEW x, call' = [call EXCEPT ![r] = x],
         x = NoRequest \/ "net" \in DOMAIN x
  PROVE  Calls' /\ \A w : InNet(w)' \subseteq InNet(w) \cup {r} /\ InNet(w)' \subseteq Mine(w)
BY DEF Calls, InNet, Mine

(* The breaker of the request's worker becomes b, and its entry of call x. *)
LEMMA OneStep ==
  ASSUME CostInv, NEW r \in Reqs, NEW x, NEW b, BreakerOk(b),
         call' = [call EXCEPT ![r] = x],
         breaker' = [breaker EXCEPT ![WorkerOf[r]] = b],
         \/ ~b.opened /\ (x = NoRequest \/ "net" \in DOMAIN x)
         \/ /\ x = NoRequest \/ ("net" \in DOMAIN x /\ x.net = "none")
            /\ Within(b, WorkerOf[r], InNet(WorkerOf[r]) \ {r})
  PROVE  CostInv'
<1>1. Calls'
  BY SomeWaiting DEF CostInv
<1>2. WorkerOf[r] \in Workers
  BY RedisAssumption
<1>3. ASSUME NEW w \in Workers, w # WorkerOf[r]
      PROVE  BreakerOk(breaker'[w]) /\ Within(breaker'[w], w, InNet(w)')
  <2>1. breaker'[w] = breaker[w]
    BY <1>3 DEF CostInv, Breakers
  <2>2. r \notin Mine(w)
    BY <1>3 DEF Mine
  <2>3. InNet(w)' = InNet(w)
    BY <2>2 DEF InNet, Mine, CostInv, Calls
  <2> QED
    BY <2>1, <2>3 DEF CostInv, Breakers
<1>4. BreakerOk(breaker'[WorkerOf[r]])
       /\ Within(breaker'[WorkerOf[r]], WorkerOf[r], InNet(WorkerOf[r])')
  <2> DEFINE w == WorkerOf[r]
  <2>1. breaker'[w] = b
    BY <1>2 DEF CostInv, Breakers
  <2>2. CASE ~b.opened /\ (x = NoRequest \/ "net" \in DOMAIN x)
    <3>1. InNet(w)' \subseteq Mine(w)
      BY <2>2, SomeWaiting DEF CostInv
    <3> QED
      BY <2>1, <2>2, <3>1, ClosedWithin
  <2>3. CASE /\ x = NoRequest \/ ("net" \in DOMAIN x /\ x.net = "none")
             /\ Within(b, WorkerOf[r], InNet(WorkerOf[r]) \ {r})
    <3>1. InNet(w)' = InNet(w) \ {r}
      BY <2>3, GoneWaiting DEF CostInv
    <3> QED
      BY <2>1, <2>3, <3>1
  <2> QED
    BY <2>2, <2>3
<1>5. DOMAIN breaker' = Workers
  BY DEF CostInv, Breakers
<1> QED
  BY <1>1, <1>3, <1>4, <1>5 DEF CostInv, Breakers, Within

LEMMA EnterStep ==
  ASSUME CostInv, NEW r \in Reqs, NEW c, "net" \in DOMAIN c, NEW b, BreakerOk(b),
         ~b.opened \/ Within(b, WorkerOf[r], InNet(WorkerOf[r]) \ {r}),
         Enter(r, c, b)
  PROVE  CostInv'
<1>1. InNet(WorkerOf[r]) \ {r} \subseteq Mine(WorkerOf[r])
  BY DEF InNet
<1>2. Within(b, WorkerOf[r], InNet(WorkerOf[r]) \ {r})
  BY <1>1, ClosedWithin
<1>3. CASE IsOpen(b)
  <2> DEFINE x == IF c.doing \in Checks /\ Unavailable THEN Idle(c, "work") ELSE NoRequest
  <2>0. x = NoRequest \/ x = Idle(c, "work")
    OBVIOUS
  <2>1. x = NoRequest \/ ("net" \in DOMAIN x /\ x.net = "none")
    BY <2>0, IdleNet
  <2>2. call' = [call EXCEPT ![r] = x] /\ breaker' = [breaker EXCEPT ![WorkerOf[r]] = b]
    BY <1>3 DEF Enter
  <2> HIDE DEF x
  <2> QED
    BY <1>2, <2>1, <2>2, OneStep
<1>4. CASE ~IsOpen(b)
  <2> DEFINE x == [Idle(c, c.doing) EXCEPT !.net = "start"]
  <2>1. "net" \in DOMAIN x
    BY IdleNet
  <2>2. call' = [call EXCEPT ![r] = x] /\ breaker' = [breaker EXCEPT ![WorkerOf[r]] = Checked(b)]
    BY <1>4 DEF Enter
  <2> HIDE DEF x
  <2>3. BreakerOk(Checked(b)) /\ ~Checked(b).opened
    BY CheckedOk
  <2> QED
    BY <2>1, <2>2, <2>3, OneStep
<1> QED
  BY <1>3, <1>4

LEMMA FinishStep ==
  ASSUME CostInv, NEW r \in Reqs, NEW c, "net" \in DOMAIN c, NEW b, BreakerOk(b),
         ~b.opened \/ Within(b, WorkerOf[r], InNet(WorkerOf[r]) \ {r}),
         NEW answer, Finish(r, c, b, answer)
  PROVE  CostInv'
<1>1. InNet(WorkerOf[r]) \ {r} \subseteq Mine(WorkerOf[r])
  BY DEF InNet
<1>2. Within(b, WorkerOf[r], InNet(WorkerOf[r]) \ {r})
  BY <1>1, ClosedWithin
<1>3. CASE c.doing = "check" /\ answer /\ ConsultedNext(c.req.flow) # {}
  <2>1. Enter(r, [c EXCEPT !.doing = "next"], b)
    BY <1>3 DEF Finish
  <2>2. "net" \in DOMAIN [c EXCEPT !.doing = "next"]
    OBVIOUS
  <2> QED
    BY <2>1, <2>2, EnterStep
<1>4. CASE ~(c.doing = "check" /\ answer /\ ConsultedNext(c.req.flow) # {})
  <2> DEFINE x == IF c.doing \in Checks /\ answer THEN Idle(c, "work") ELSE NoRequest
  <2>0. x = NoRequest \/ x = Idle(c, "work")
    OBVIOUS
  <2>1. x = NoRequest \/ ("net" \in DOMAIN x /\ x.net = "none")
    BY <2>0, IdleNet
  <2>2. call' = [call EXCEPT ![r] = x] /\ breaker' = [breaker EXCEPT ![WorkerOf[r]] = b]
    BY <1>4 DEF Finish
  <2> HIDE DEF x
  <2> QED
    BY <1>2, <2>1, <2>2, OneStep
<1> QED
  BY <1>3, <1>4

(* A step that touches no breaker and makes no further request wait. *)
LEMMA QuietStep ==
  ASSUME CostInv, UNCHANGED breaker, Calls', \A w : InNet(w)' \subseteq InNet(w)
  PROVE  CostInv'
<1>1. ASSUME NEW w \in Workers
      PROVE  BreakerOk(breaker'[w]) /\ Within(breaker'[w], w, InNet(w)')
  <2>1. InNet(w) \subseteq Mine(w)
    BY DEF InNet
  <2>2. BreakerOk(breaker[w]) /\ Within(breaker[w], w, InNet(w))
    BY DEF CostInv, Breakers
  <2>3. Within(breaker[w], w, InNet(w)')
    BY <2>1, <2>2, FewerWithin
  <2> QED
    BY <2>2, <2>3
<1> QED
  BY <1>1 DEF CostInv, Breakers, Within

-----------------------------------------------------------------------------

LEMMA CostInit == Init => CostInv
<1> SUFFICES ASSUME Init PROVE CostInv
  OBVIOUS
<1>1. Calls
  BY DEF Init, Calls
<1>2. ASSUME NEW w \in Workers
      PROVE  BreakerOk(breaker[w]) /\ Within(breaker[w], w, InNet(w))
  <2>1. BreakerOk(breaker[w]) /\ ~breaker[w].opened
    BY RedisAssumption DEF Init, BreakerOk
  <2>2. InNet(w) \subseteq Mine(w)
    BY DEF InNet
  <2> QED
    BY <2>1, <2>2, ClosedWithin
<1> QED
  BY <1>1, <1>2 DEF CostInv, Breakers, Init

LEMMA CostNext == CostInv /\ [Next]_vars => CostInv'
<1> SUFFICES ASSUME CostInv, [Next]_vars PROVE CostInv'
  OBVIOUS
<1> USE RedisAssumption
<1>0. ASSUME NEW r \in Reqs
      PROVE  /\ WorkerOf[r] \in Workers /\ BreakerOk(breaker[WorkerOf[r]])
             /\ Within(breaker[WorkerOf[r]], WorkerOf[r], InNet(WorkerOf[r]) \ {r})
  <2>1. WorkerOf[r] \in Workers
    OBVIOUS
  <2>2. InNet(WorkerOf[r]) \subseteq Mine(WorkerOf[r])
    BY DEF InNet
  <2>3. InNet(WorkerOf[r]) \ {r} \subseteq InNet(WorkerOf[r])
    OBVIOUS
  <2> QED
    BY <2>1, <2>2, <2>3, FewerWithin DEF CostInv, Breakers
<1>1. ASSUME NEW r \in Reqs, Start(r) PROVE CostInv'
  <2>1. PICK flow, email, from, ip :
          Enter(r, [doing |-> "check", net |-> "none", left |-> {}, age |-> 0,
                    spent |-> 0, ok |-> TRUE, from |-> from,
                    req |-> [flow |-> flow, email |-> email, ip |-> ip]],
                breaker[WorkerOf[r]])
    BY <1>1 DEF Start
  <2> DEFINE c == [doing |-> "check", net |-> "none", left |-> {}, age |-> 0,
                   spent |-> 0, ok |-> TRUE, from |-> from,
                   req |-> [flow |-> flow, email |-> email, ip |-> ip]]
  <2>2. "net" \in DOMAIN c
    OBVIOUS
  <2>3. Enter(r, c, breaker[WorkerOf[r]])
    BY <2>1
  <2> HIDE DEF c
  <2> QED
    BY <1>0, <2>2, <2>3, EnterStep
<1>2. ASSUME NEW r \in Reqs, ReadTime(r) PROVE CostInv'
  <2>1. Calls' /\ \A w : InNet(w)' \subseteq InNet(w)
    BY <1>2 DEF ReadTime, CostInv, Calls, InNet, Mine
  <2> QED
    BY <1>2, <2>1, QuietStep DEF ReadTime
<1>3. ASSUME NEW r \in Reqs, Count(r) PROVE CostInv'
  <2>1. Calls' /\ \A w : InNet(w)' \subseteq InNet(w)
    BY <1>3 DEF Count, CostInv, Calls, InNet, Mine
  <2> QED
    BY <1>3, <2>1, QuietStep DEF Count
<1>4. ASSUME NEW r \in Reqs, Execute(r) PROVE CostInv'
  <2>1. "net" \in DOMAIN call[r] /\ call[r].net # "none" /\ call[r] # NoRequest
    BY <1>4 DEF Execute, Ready, CostInv, Calls
  <2>2. call' = [call EXCEPT ![r].net = "done", ![r].age = 0]
    BY <1>4 DEF Execute
  <2>3. Calls' /\ \A w : InNet(w)' \subseteq InNet(w)
    BY <2>1, <2>2 DEF CostInv, Calls, InNet, Mine
  <2> QED
    BY <1>4, <2>3, QuietStep DEF Execute
<1>5. ASSUME NEW r \in Reqs, Answer(r) PROVE CostInv'
  <2>1. "net" \in DOMAIN call[r]
    BY <1>5 DEF Answer, CostInv, Calls
  <2>2. Finish(r, call[r], MarkSuccess(breaker[WorkerOf[r]]), call[r].ok)
    BY <1>5 DEF Answer
  <2>3. BreakerOk(MarkSuccess(breaker[WorkerOf[r]])) /\ ~MarkSuccess(breaker[WorkerOf[r]]).opened
    BY SuccessOk
  <2> QED
    BY <2>1, <2>2, <2>3, FinishStep
<1>6. ASSUME NEW r \in Reqs, Break(r) PROVE CostInv'
  <2> DEFINE w == WorkerOf[r]
             b == MarkFailure(breaker[w])
  <2>1. "net" \in DOMAIN call[r] /\ r \in InNet(w)
    BY <1>6 DEF Break, CostInv, Calls, InNet, Mine
  <2>2. Finish(r, call[r], b, Unavailable)
    BY <1>6 DEF Break
  <2>3. BreakerOk(b) /\ b.burst = breaker[w].burst + 1 /\ b.probing = breaker[w].probing
    BY <1>0, FailureOk
  <2>4. Within(b, w, InNet(w) \ {r})
    <3> DEFINE n == Cardinality(InNet(w))
               m == Cardinality(Mine(w))
    <3>1. InNet(w) \subseteq Mine(w)
      BY DEF InNet
    <3>2. n \in Nat /\ m \in Nat /\ IsFiniteSet(InNet(w))
      BY <3>1, Waiting
    <3>3. Cardinality(InNet(w) \ {r}) = n - 1
      BY <2>1, <3>2, FS_RemoveElement
    <3>4. breaker[w].burst + n <= Base(breaker[w]) + m
      BY <1>0 DEF CostInv, Breakers, Within
    <3>5. Base(b) = Base(breaker[w])
      BY <2>3 DEF Base
    <3>6. breaker[w].burst \in Nat /\ Base(breaker[w]) \in Int
      <4>1. BreakerOk(breaker[w])
        BY <1>0
      <4> QED
        BY <4>1 DEF BreakerOk, Base
    <3> HIDE DEF n, m, b
    <3>7. b.burst + (n - 1) <= Base(b) + m
      BY <2>3, <3>2, <3>4, <3>5, <3>6
    <3> QED
      BY <3>3, <3>7 DEF Within, m
  <2> HIDE DEF b
  <2> QED
    BY <2>1, <2>2, <2>3, <2>4, FinishStep
<1>7. ASSUME NEW r \in Reqs, PoolExhausted(r) PROVE CostInv'
  <2>1. "net" \in DOMAIN call[r]
    BY <1>7 DEF PoolExhausted, CostInv, Calls
  <2>2. Finish(r, call[r], breaker[WorkerOf[r]], Unavailable)
    BY <1>7 DEF PoolExhausted
  <2> QED
    BY <1>0, <2>1, <2>2, FinishStep
<1>8. ASSUME NEW r \in Reqs, call' = [call EXCEPT ![r] = NoRequest], UNCHANGED breaker
      PROVE  CostInv'
  <2>1. Calls' /\ \A w : InNet(w)' \subseteq InNet(w)
    BY <1>8 DEF CostInv, Calls, InNet, Mine
  <2> QED
    BY <1>8, <2>1, QuietStep
<1>9. ASSUME NEW r \in Reqs, NEW doing, call[r] # NoRequest,
             Enter(r, [call[r] EXCEPT !.doing = doing], breaker[WorkerOf[r]])
      PROVE  CostInv'
  <2>1. "net" \in DOMAIN [call[r] EXCEPT !.doing = doing]
    BY <1>9 DEF CostInv, Calls
  <2> QED
    BY <1>0, <1>9, <2>1, EnterStep
<1>10. ASSUME NEW r \in Reqs, Fail(r) \/ Succeed(r) \/ Leave(r) PROVE CostInv'
  <2>1. CASE call' = [call EXCEPT ![r] = NoRequest] /\ UNCHANGED breaker
    BY <1>8, <2>1
  <2>2. CASE call[r] # NoRequest /\ Enter(r, [call[r] EXCEPT !.doing = "fail"], breaker[WorkerOf[r]])
    BY <1>9, <2>2
  <2>3. CASE call[r] # NoRequest /\ Enter(r, [call[r] EXCEPT !.doing = "succeed"], breaker[WorkerOf[r]])
    BY <1>9, <2>3
  <2> QED
    BY <1>10, <2>1, <2>2, <2>3 DEF Fail, Succeed, Leave
<1>11. ASSUME UNCHANGED <<call, breaker>> PROVE CostInv'
  BY <1>11 DEF CostInv, Calls, Breakers, Within, InNet
<1>12. CASE Tick
  <2>1. /\ call' = [r \in Reqs |-> IF call[r] # NoRequest /\ call[r].net # "none"
                             THEN [call[r] EXCEPT !.spent = @ + 1,
                                                  !.age = IF call[r].net = "timed" THEN @ + 1 ELSE 0]
                             ELSE call[r]]
        /\ breaker' = [w \in Workers |-> [breaker[w] EXCEPT !.left = IF @ = 0 THEN 0 ELSE @ - 1]]
    BY <1>12 DEF Tick
  <2>2. Calls' /\ \A w : InNet(w)' \subseteq InNet(w)
    BY <2>1 DEF CostInv, Calls, InNet, Mine
  <2>3. ASSUME NEW w \in Workers
        PROVE  BreakerOk(breaker'[w]) /\ Within(breaker'[w], w, InNet(w)')
    <3>1. BreakerOk(breaker[w]) /\ Within(breaker[w], w, InNet(w))
      BY DEF CostInv, Breakers
    <3>2. breaker'[w] = [breaker[w] EXCEPT !.left = IF @ = 0 THEN 0 ELSE @ - 1]
      BY <2>1
    <3>3. /\ BreakerOk(breaker'[w])
          /\ breaker'[w].burst = breaker[w].burst /\ breaker'[w].probing = breaker[w].probing
      BY <3>1, <3>2 DEF BreakerOk
    <3>4. Within(breaker[w], w, InNet(w)')
      BY <2>2, <3>1, FewerWithin DEF InNet
    <3> QED
      BY <3>3, <3>4 DEF Within, Base
  <2> QED
    BY <2>1, <2>2, <2>3 DEF CostInv, Breakers, Within
<1>13. CASE UNCHANGED vars
  BY <1>11, <1>13 DEF vars
<1>14. ASSUME NEW r \in Reqs, LateExecute(r) \/ LateLost(r) PROVE CostInv'
  BY <1>11, <1>14 DEF LateExecute, LateLost
<1> QED
  BY <1>1, <1>2, <1>3, <1>4, <1>5, <1>6, <1>7, <1>10, <1>12, <1>13, <1>14 DEF Next, Serve

(* While Redis is out, a worker waits for it at most once per request that *)
(* it serves at a time and cooldown, and Threshold - 1 times more before   *)
(* its circuit opens first (_mark_failure, _circuit_is_open).              *)
THEOREM OutageIsCheap == Spec => []OutageCost
<1>1. CostInv => OutageCost
  <2> SUFFICES ASSUME CostInv, NEW w \in Workers
               PROVE  breaker[w].burst <= Base(breaker[w]) + Cardinality(Mine(w))
    BY DEF OutageCost, Base, Mine
  <2> DEFINE n == Cardinality(InNet(w))
             m == Cardinality(Mine(w))
  <2>1. n \in Nat /\ m \in Nat
    BY Waiting DEF InNet
  <2>2. breaker[w].burst + n <= Base(breaker[w]) + m
    BY DEF CostInv, Breakers, Within
  <2>3. breaker[w].burst \in Nat /\ Base(breaker[w]) \in Int
    BY RedisAssumption DEF CostInv, Breakers, BreakerOk, Base
  <2> HIDE DEF n, m
  <2>4. breaker[w].burst <= Base(breaker[w]) + m
    BY <2>1, <2>2, <2>3
  <2> QED
    BY <2>4 DEF m
<1> QED
  BY <1>1, CostInit, CostNext, PTL DEF Spec

-----------------------------------------------------------------------------
(* The sorted sets and the records of the last window. *)

(* A sorted set holds exactly the records of the window, and its TTL        *)
(* outlives the youngest of them.                                           *)
SetOk(set, hits, s) ==
  /\ set.count \in [0..MaxAge(s) -> Nat] /\ set.ttl \in 0..(WindowOf(s) + 1)
  /\ hits \in [0..WindowOf(s) -> Nat]
  /\ \A a \in 0..WindowOf(s) : /\ set.count[a] = hits[a]
                               /\ hits[a] > 0 => a + set.ttl >= WindowOf(s) + 1
  /\ \A a, b \in 0..MaxAge(s) : a <= b => set.count[a] <= set.count[b]

(* The overdue records are some of those of the window. *)
HitsOk(over, hits, W) ==
  /\ over \in [0..W -> Nat] /\ hits \in [0..W -> Nat]
  /\ \A a, b \in 0..W :
       a <= b => over[a] <= hits[a] /\ hits[a] - over[a] <= hits[b] - over[b]

Sets == \A s \in Scopes : \A k \in Keys(s) :
          SetOk(redis[s][k], told[s][k], s) /\ HitsOk(overdue[s][k], told[s][k], WindowOf(s))

(* A request is counted under the address it comes from. *)
CallOk(c) ==
  /\ {"doing", "net", "left", "age", "spent", "ok", "from", "req"} \subseteq DOMAIN c
  /\ c.doing \in Checks \cup {"work", "fail", "succeed"}
  /\ c.net \in {"none", "start", "timed", "done"}
  /\ c.age \in 0..c.spent /\ c.spent \in 0..Deadline
  /\ c.from \in IPs /\ c.req \in Requests /\ c.req.ip = c.from

OwnCalls ==
  /\ DOMAIN call = Reqs
  /\ \A r \in Reqs : call[r] # NoRequest => CallOk(call[r])

Lates == late \in [Reqs -> Command \cup {NoRequest}]

WindowInv == Sets /\ OwnCalls /\ Lates

LEMMA WindowType ==
  ASSUME NEW s \in Scopes
  PROVE  /\ WindowOf(s) \in Nat \ {0} /\ MaxAge(s) \in Nat
         /\ MaxAge(s) >= WindowOf(s) + 1 /\ MaxAge(s) >= MaxLate
BY LimitsAssumption, RedisAssumption DEF WindowOf, MaxAge

LEMMA NoKeyOk ==
  ASSUME NEW s \in Scopes
  PROVE  SetOk(NoKey(s), NoHits(s), s) /\ HitsOk(NoHits(s), NoHits(s), WindowOf(s))
<1> DEFINE W == WindowOf(s)
           M == MaxAge(s)
<1>1. W \in Nat /\ M \in Nat /\ M >= W + 1
  BY WindowType
<1> HIDE DEF W, M
<1> QED
  BY <1>1 DEF SetOk, HitsOk, NoKey, NoHits, W, M

LEMMA OneMoreType ==
  ASSUME NEW W \in Nat, NEW hits \in [0..W -> Nat], NEW age \in Nat
  PROVE  /\ OneMore(hits, age) \in [0..W -> Nat]
         /\ \A a \in 0..W : OneMore(hits, age)[a] = hits[a] + (IF a >= age THEN 1 ELSE 0)
<1>1. \A a \in 0..W : (hits[a] + (IF a >= age THEN 1 ELSE 0)) \in Nat
  OBVIOUS
<1> QED
  BY <1>1 DEF OneMore

LEMMA AgedType ==
  ASSUME NEW W \in Nat, NEW hits \in [0..W -> Nat]
  PROVE  /\ AgedHits(hits) \in [0..W -> Nat]
         /\ \A a \in 0..W : AgedHits(hits)[a] = IF a = 0 THEN 0 ELSE hits[a - 1]
<1>1. \A a \in 0..W : (IF a = 0 THEN 0 ELSE hits[a - 1]) \in Nat
  OBVIOUS
<1> QED
  BY <1>1 DEF AgedHits

LEMMA OneMoreOk ==
  ASSUME NEW W \in Nat, NEW over, NEW hits, HitsOk(over, hits, W), NEW age \in Nat
  PROVE  HitsOk(over, OneMore(hits, age), W) /\ HitsOk(OneMore(over, age), OneMore(hits, age), W)
<1> DEFINE hits2 == OneMore(hits, age)
           over2 == OneMore(over, age)
<1>1. over \in [0..W -> Nat] /\ hits \in [0..W -> Nat]
  BY DEF HitsOk
<1>2. /\ hits2 \in [0..W -> Nat] /\ over2 \in [0..W -> Nat]
      /\ \A a \in 0..W : /\ hits2[a] = hits[a] + (IF a >= age THEN 1 ELSE 0)
                         /\ over2[a] = over[a] + (IF a >= age THEN 1 ELSE 0)
  BY <1>1, OneMoreType
<1> HIDE DEF hits2, over2
<1>3. ASSUME NEW a \in 0..W, NEW b \in 0..W, a <= b
      PROVE  /\ over[a] <= hits2[a] /\ hits2[a] - over[a] <= hits2[b] - over[b]
             /\ over2[a] <= hits2[a] /\ hits2[a] - over2[a] <= hits2[b] - over2[b]
  <2>1. over[a] <= hits[a] /\ hits[a] - over[a] <= hits[b] - over[b]
    BY <1>3 DEF HitsOk
  <2>2. hits[a] \in Nat /\ over[a] \in Nat /\ hits[b] \in Nat /\ over[b] \in Nat
    BY <1>1
  <2>3. /\ hits2[a] = hits[a] + (IF a >= age THEN 1 ELSE 0)
        /\ over2[a] = over[a] + (IF a >= age THEN 1 ELSE 0)
        /\ hits2[b] = hits[b] + (IF b >= age THEN 1 ELSE 0)
        /\ over2[b] = over[b] + (IF b >= age THEN 1 ELSE 0)
    BY <1>2
  <2>4. a >= age => b >= age
    BY <1>3
  <2> QED
    BY <2>1, <2>2, <2>3, <2>4
<1> QED
  BY <1>1, <1>2, <1>3 DEF HitsOk, hits2, over2

LEMMA AgedHitsOk ==
  ASSUME NEW W \in Nat, NEW over, NEW hits, HitsOk(over, hits, W)
  PROVE  HitsOk(AgedHits(over), AgedHits(hits), W)
<1> DEFINE hits2 == AgedHits(hits)
           over2 == AgedHits(over)
<1>1. over \in [0..W -> Nat] /\ hits \in [0..W -> Nat]
  BY DEF HitsOk
<1>2. /\ hits2 \in [0..W -> Nat] /\ over2 \in [0..W -> Nat]
      /\ \A a \in 0..W : /\ hits2[a] = IF a = 0 THEN 0 ELSE hits[a - 1]
                         /\ over2[a] = IF a = 0 THEN 0 ELSE over[a - 1]
  <2>1. /\ hits2 \in [0..W -> Nat]
        /\ \A a \in 0..W : hits2[a] = IF a = 0 THEN 0 ELSE hits[a - 1]
    BY <1>1, AgedType, Zenon
  <2>2. /\ over2 \in [0..W -> Nat]
        /\ \A a \in 0..W : over2[a] = IF a = 0 THEN 0 ELSE over[a - 1]
    BY <1>1, AgedType, Zenon
  <2> QED
    BY <2>1, <2>2
<1> HIDE DEF hits2, over2
<1>3. ASSUME NEW a \in 0..W, NEW b \in 0..W, a <= b
      PROVE  over2[a] <= hits2[a] /\ hits2[a] - over2[a] <= hits2[b] - over2[b]
  <2>1. CASE b = 0
    BY <1>2, <1>3, <2>1
  <2>2. CASE b # 0
    <3>1. b - 1 \in 0..W /\ (a # 0 => a - 1 \in 0..W /\ a - 1 <= b - 1)
      BY <1>3, <2>2
    <3>2. over[b - 1] <= hits[b - 1] /\ over[b - 1] \in Nat /\ hits[b - 1] \in Nat
      BY <1>1, <3>1 DEF HitsOk
    <3>3. CASE a = 0
      BY <1>2, <2>2, <3>2, <3>3
    <3>4. CASE a # 0
      <4>1. over[a - 1] <= hits[a - 1] /\ hits[a - 1] - over[a - 1] <= hits[b - 1] - over[b - 1]
        BY <3>1, <3>4 DEF HitsOk
      <4> QED
        BY <1>2, <2>2, <3>4, <4>1
    <3> QED
      BY <3>3, <3>4
  <2> QED
    BY <2>1, <2>2
<1> QED
  BY <1>2, <1>3 DEF HitsOk, hits2, over2

(* The transaction trims with a reading of TIME that is age seconds old:   *)
(* what it removes is older than the window all the more.                  *)
LEMMA RecordedOk ==
  ASSUME NEW s \in Scopes, NEW set, NEW hits, SetOk(set, hits, s), NEW age \in 0..MaxLate
  PROVE  SetOk(Recorded(set, s, age), OneMore(hits, age), s)
<1> DEFINE W == WindowOf(s)
           M == MaxAge(s)
           To(a) == IF a > W + age THEN W + age ELSE a
           set2 == Recorded(set, s, age)
           hits2 == OneMore(hits, age)
<1>1. W \in Nat /\ M \in Nat /\ M >= W + 1 /\ age \in Nat /\ W + age <= M
  BY WindowType, RedisAssumption DEF MaxAge
<1>2. /\ set.count \in [0..M -> Nat] /\ hits \in [0..W -> Nat]
      /\ \A a \in 0..W : set.count[a] = hits[a]
      /\ \A a, b \in 0..M : a <= b => set.count[a] <= set.count[b]
  BY DEF SetOk
<1>3. /\ set2.count = [a \in 0..M |-> set.count[To(a)] + (IF a >= age THEN 1 ELSE 0)]
      /\ set2.ttl = W + 1
  BY DEF Recorded, Updated
<1> HIDE DEF W, M
<1>4. /\ hits2 \in [0..W -> Nat]
      /\ \A a \in 0..W : hits2[a] = hits[a] + (IF a >= age THEN 1 ELSE 0)
  <2>1. W \in Nat /\ age \in Nat /\ hits \in [0..W -> Nat]
    BY <1>1, <1>2
  <2> HIDE DEF set2
  <2> QED
    BY <2>1, OneMoreType
<1> HIDE DEF W, M, set2, hits2
<1>5. ASSUME NEW a \in 0..M
      PROVE  To(a) \in 0..M /\ set.count[To(a)] \in Nat
  <2>1. To(a) \in 0..M
    BY <1>1
  <2> HIDE DEF To
  <2> QED BY <1>2, <2>1
<1>6. ASSUME NEW a \in 0..M, NEW b \in 0..M, a <= b
      PROVE  To(a) <= To(b) /\ (a >= age => b >= age)
  BY <1>1, <1>6
<1>7. \A a \in 0..W : To(a) = a /\ a \in 0..M
  BY <1>1
<1> HIDE DEF To
<1>8. set2.count \in [0..M -> Nat]
  <2>1. \A a \in 0..M : (set.count[To(a)] + (IF a >= age THEN 1 ELSE 0)) \in Nat
    BY <1>5
  <2> QED
    BY <1>3, <2>1
<1>9. set2.ttl \in 0..(W + 1)
  BY <1>1, <1>3
<1>10. ASSUME NEW a \in 0..W
       PROVE  set2.count[a] = hits2[a] /\ a + set2.ttl >= W + 1
  <2>1. set2.count[a] = set.count[a] + (IF a >= age THEN 1 ELSE 0)
    BY <1>3, <1>7
  <2>2. a + set2.ttl >= W + 1
    BY <1>1, <1>3
  <2> QED
    BY <1>2, <1>4, <2>1, <2>2
<1>11. ASSUME NEW a \in 0..M, NEW b \in 0..M, a <= b
       PROVE  set2.count[a] <= set2.count[b]
  <2>1. set.count[To(a)] <= set.count[To(b)] /\ {set.count[To(a)], set.count[To(b)]} \subseteq Nat
    BY <1>2, <1>5, <1>6, <1>11
  <2> QED
    BY <1>3, <1>6, <1>11, <2>1
<1> QED
  BY <1>4, <1>8, <1>9, <1>10, <1>11 DEF SetOk, W, M, set2, hits2

(* The TTL runs out only when every record has left the window. *)
LEMMA AgedOk ==
  ASSUME NEW s \in Scopes, NEW set, NEW hits, SetOk(set, hits, s)
  PROVE  SetOk(Aged(set, s), AgedHits(hits), s)
<1> DEFINE W == WindowOf(s)
           M == MaxAge(s)
           From(a) == IF a = M THEN M ELSE a - 1
           set2 == Aged(set, s)
           hits2 == AgedHits(hits)
<1>1. W \in Nat /\ M \in Nat /\ M >= W + 1
  BY WindowType
<1>2. /\ set.count \in [0..M -> Nat] /\ set.ttl \in 0..(W + 1) /\ hits \in [0..W -> Nat]
      /\ \A a \in 0..W : set.count[a] = hits[a] /\ (hits[a] > 0 => a + set.ttl >= W + 1)
      /\ \A a, b \in 0..M : a <= b => set.count[a] <= set.count[b]
  BY DEF SetOk
<1> HIDE DEF W, M
<1>3. /\ hits2 \in [0..W -> Nat]
      /\ \A a \in 0..W : hits2[a] = IF a = 0 THEN 0 ELSE hits[a - 1]
  BY <1>1, <1>2, AgedType
<1>4. CASE set.ttl <= 1
  <2>1. set2 = [count |-> [a \in 0..M |-> 0], ttl |-> 0]
    BY <1>4 DEF Aged, NoKey, W, M
  <2> HIDE DEF W, M, set2, hits2
  <2>2. ASSUME NEW a \in 0..W PROVE hits2[a] = 0
    <3>1. CASE a = 0
      BY <1>3, <3>1
    <3>2. CASE a # 0
      <4>1. a - 1 \in 0..W /\ hits2[a] = hits[a - 1]
        BY <1>1, <1>3, <3>2
      <4>2. ~(hits[a - 1] > 0)
        BY <1>1, <1>2, <1>4, <4>1
      <4> QED
        BY <1>2, <4>1, <4>2
    <3> QED
      BY <3>1, <3>2
  <2>3. set2.count \in [0..M -> Nat] /\ set2.ttl \in 0..(W + 1)
    BY <1>1, <2>1
  <2>4. \A a \in 0..M : set2.count[a] = 0
    BY <1>1, <2>1
  <2>5. \A a \in 0..W : a \in 0..M
    BY <1>1
  <2> QED
    BY <1>3, <2>2, <2>3, <2>4, <2>5 DEF SetOk, W, M, set2, hits2
<1>5. CASE ~(set.ttl <= 1)
  <2>1. /\ set2.count = [a \in 0..M |-> CASE a = 0 -> 0
                                          [] a = M -> set.count[a]
                                          [] OTHER -> set.count[a - 1]]
        /\ set2.ttl = set.ttl - 1
    BY <1>5 DEF Aged, W, M
  <2> HIDE DEF W, M, set2, hits2
  <2>2. ASSUME NEW a \in 0..M
        PROVE  /\ a = 0 => set2.count[a] = 0
               /\ a # 0 => /\ From(a) \in 0..M /\ set2.count[a] = set.count[From(a)]
                           /\ set.count[From(a)] \in Nat
    <3>1. CASE a = 0
      BY <1>1, <2>1, <3>1
    <3>2. CASE a # 0
      <4>1. From(a) \in 0..M
        BY <1>1, <3>2
      <4> QED
        BY <1>2, <2>1, <3>2, <4>1
    <3> QED
      BY <3>1, <3>2
  <2>3. ASSUME NEW a \in 0..M, NEW b \in 0..M, a <= b, a # 0
        PROVE  b # 0 /\ From(a) <= From(b)
    BY <1>1, <2>3
  <2>4. \A a \in 0..W : a \in 0..M /\ a # M
    BY <1>1
  <2>5. \A a \in 0..W : a # 0 => From(a) = a - 1 /\ a - 1 \in 0..W
    BY <1>1
  <2> HIDE DEF From
  <2>6. set2.count \in [0..M -> Nat] /\ set2.ttl \in 0..(W + 1)
    <3>1. \A a \in 0..M : set2.count[a] \in Nat
      BY <2>2
    <3> QED
      BY <1>1, <1>2, <1>5, <2>1, <3>1
  <2>7. ASSUME NEW a \in 0..W
        PROVE  set2.count[a] = hits2[a] /\ (hits2[a] > 0 => a + set2.ttl >= W + 1)
    <3>1. CASE a = 0
      BY <1>3, <2>2, <2>4, <3>1
    <3>2. CASE a # 0
      <4>1. a - 1 \in 0..W /\ hits2[a] = hits[a - 1] /\ set2.count[a] = set.count[a - 1]
        BY <1>3, <2>2, <2>4, <2>5, <3>2
      <4>2. set.count[a - 1] = hits[a - 1] /\ (hits[a - 1] > 0 => (a - 1) + set.ttl >= W + 1)
        BY <1>2, <4>1
      <4>3. hits[a - 1] > 0 => a + (set.ttl - 1) >= W + 1
        BY <1>1, <1>2, <4>2
      <4> QED
        BY <2>1, <4>1, <4>2, <4>3
    <3> QED
      BY <3>1, <3>2
  <2>8. ASSUME NEW a \in 0..M, NEW b \in 0..M, a <= b
        PROVE  set2.count[a] <= set2.count[b]
    <3>1. CASE a = 0
      BY <2>2, <2>6, <3>1
    <3>2. CASE a # 0
      <4>1. b # 0 /\ From(a) <= From(b)
        BY <2>3, <2>8, <3>2
      <4>2. From(a) \in 0..M /\ From(b) \in 0..M
        BY <2>2, <3>2, <4>1
      <4>3. set.count[From(a)] <= set.count[From(b)]
        BY <1>2, <4>1, <4>2
      <4> QED
        BY <2>2, <3>2, <4>1, <4>3
    <3> QED
      BY <3>1, <3>2
  <2> QED
    BY <1>3, <2>6, <2>7, <2>8 DEF SetOk, W, M, set2, hits2
<1> QED
  BY <1>4, <1>5

(* resolve_client_ip finds the client behind the trusted proxies: what     *)
(* they append stands right of everything the client sent.                 *)
LEMMA ResolvesClient ==
  ASSUME NEW c, c \notin Proxies, c # Malformed, Malformed \notin Proxies,
         NEW hops \in Seq(Proxies), NEW S, NEW sent \in Seq(S)
  PROVE  ResolveClientIp(PeerOf(c, hops), HeaderOf(c, hops, sent)) = c
<1>1. CASE hops = <<>>
  BY <1>1 DEF ResolveClientIp, PeerOf
<1>2. CASE hops # <<>>
  <2> DEFINE n == Len(hops)
             m == Len(sent) + 1
             back == SubSeq(hops, 1, n - 1)
             fwd == sent \o <<c>> \o back
             stops == {i \in DOMAIN fwd : fwd[i] = Malformed \/ fwd[i] \notin Proxies}
  <2>1. n \in Nat \ {0} /\ m \in Nat \ {0} /\ hops[n] \in Proxies
    BY <1>2
  <2>2. PeerOf(c, hops) = hops[n] /\ HeaderOf(c, hops, sent) = fwd
    BY <1>2 DEF PeerOf, HeaderOf
  <2>3. back \in Seq(Proxies) /\ Len(back) = n - 1
    <3> DEFINE l == n - 1
    <3>1. l \in Nat /\ l <= Len(hops)
      BY <2>1
    <3>2. back = SubSeq(hops, 1, l)
      OBVIOUS
    <3> HIDE DEF l, back
    <3>3. SubSeq(hops, 1, l) \in Seq(Proxies) /\ Len(SubSeq(hops, 1, l)) = l
      BY <3>1
    <3> QED
      BY <3>2, <3>3 DEF l
  <2> HIDE DEF back, n
  <2>4. /\ Len(fwd) = m + Len(back) /\ DOMAIN fwd = 1..(m + Len(back))
        /\ fwd[m] = c
        /\ \A i \in (m + 1)..(m + Len(back)) : fwd[i] = back[i - m]
    <3>1. sent \o <<c>> \in Seq(S \cup {c}) /\ Len(sent \o <<c>>) = m /\ (sent \o <<c>>)[m] = c
      OBVIOUS
    <3> DEFINE T == S \cup {c} \cup Proxies
               pre == sent \o <<c>>
    <3>2. pre \in Seq(T) /\ back \in Seq(T) /\ Len(pre) = m /\ pre[m] = c
      BY <2>3, <3>1
    <3> HIDE DEF T, pre
    <3>3. /\ pre \o back \in Seq(T) /\ Len(pre \o back) = Len(pre) + Len(back)
          /\ \A i \in 1..(Len(pre) + Len(back)) :
               (pre \o back)[i] = IF i <= Len(pre) THEN pre[i] ELSE back[i - Len(pre)]
      BY <3>2, ConcatProperties
    <3>4. fwd = pre \o back
      BY DEF pre
    <3>5. Len(back) \in Nat
      BY <2>3
    <3> HIDE DEF fwd, m
    <3> QED
      BY <2>1, <3>2, <3>3, <3>4, <3>5
  <2> HIDE DEF fwd, m
  <2>5. \A i \in (m + 1)..(m + Len(back)) : fwd[i] \in Proxies
    <3> TAKE i \in (m + 1)..(m + Len(back))
    <3>1. i - m \in 1..Len(back)
      BY <2>1, <2>3
    <3> QED
      BY <2>3, <2>4, <3>1
  <2>6. m \in stops /\ \A i \in stops : i \in Nat /\ i <= m
    <3>1. m \in stops
      BY <2>1, <2>3, <2>4
    <3>2. ASSUME NEW i \in stops PROVE i \in Nat /\ i <= m
      <4>1. i \in 1..(m + Len(back)) /\ (fwd[i] = Malformed \/ fwd[i] \notin Proxies)
        BY <2>4
      <4> QED
        BY <2>1, <2>3, <2>5, <4>1
    <3> QED
      BY <3>1, <3>2
  <2> HIDE DEF stops
  <2>7. Max(stops) = m
    <3>1. \A i \in stops : (\A j \in stops : i >= j) => i = m
      BY <2>1, <2>6
    <3>2. \A j \in stops : m >= j
      BY <2>1, <2>6
    <3> QED
      BY <2>6, <3>1, <3>2 DEF Max
  <2>8. ForwardedFor(fwd, hops[n]) = c
    <3>1. ForwardedFor(fwd, hops[n])
            = CASE stops = {} -> fwd[1]
                [] stops # {} /\ fwd[Max(stops)] = Malformed -> hops[n]
                [] OTHER -> fwd[Max(stops)]
      BY DEF ForwardedFor, stops
    <3> QED
      BY <2>4, <2>6, <2>7, <3>1
  <2>9. fwd # <<>>
    <3>1. Len(fwd) # 0
      BY <2>1, <2>3, <2>4
    <3> QED
      BY <3>1
  <2> QED
    BY <2>1, <2>2, <2>8, <2>9 DEF ResolveClientIp
<1> QED
  BY <1>1, <1>2

LEMMA OwnAddress == \A from \in IPs : AddressesOf[from] \subseteq {from}
<1> TAKE from \in IPs
<1>1. ASSUME NEW sent \in SentHeaders, NEW hops \in Routes
      PROVE  ResolveClientIp(PeerOf(from, hops), HeaderOf(from, hops, sent)) = from
  <2>1. from \notin Proxies /\ from # Malformed /\ Malformed \notin Proxies
    BY RedisAssumption
  <2>2. hops \in Seq(Proxies) /\ sent \in Seq({sent[i] : i \in DOMAIN sent})
    BY RedisAssumption
  <2> QED
    BY <2>1, <2>2, ResolvesClient
<1> QED
  BY <1>1 DEF AddressesOf

-----------------------------------------------------------------------------

LEMMA FlowScopes ==
  ASSUME NEW flow \in Flows
  PROVE  /\ Consulted(flow) \subseteq Scopes /\ ConsultedNext(flow) \subseteq Scopes
         /\ OnFailure(flow) \subseteq Scopes /\ OnSuccess(flow) \subseteq Scopes
         /\ Forgotten(flow) \subseteq Scopes
BY LimitsAssumption
   DEF Consulted, ConsultedNext, OnFailure, OnSuccess, Forgotten, Scopes

LEMMA CommandOk ==
  ASSUME NEW c, CallOk(c)
  PROVE  CommandOf(c) \in Command
<1>1. c.req \in Requests /\ c.req.flow \in Flows
  BY DEF CallOk, Requests
<1>2. c.age \in 0..MaxLate
  BY RedisAssumption DEF CallOk
<1>3. Writes(c) \in SUBSET Scopes /\ Forgets(c) \in SUBSET Scopes
  BY <1>1, FlowScopes DEF Writes, Forgets
<1> QED
  BY <1>1, <1>2, <1>3 DEF CommandOf, Command

LEMMA IdleOk ==
  ASSUME NEW c, CallOk(c), NEW doing \in Checks \cup {"work", "fail", "succeed"}
  PROVE  CallOk(Idle(c, doing)) /\ CallOk([Idle(c, doing) EXCEPT !.net = "start"])
<1>1. 0 \in 0..0 /\ 0 \in 0..Deadline
  BY RedisAssumption
<1>2. CallOk(Idle(c, doing))
  BY <1>1 DEF CallOk, Idle
<1> DEFINE d == Idle(c, doing)
<1> HIDE DEF d
<1>3. CallOk(d) => CallOk([d EXCEPT !.net = "start"])
  BY DEF CallOk
<1> QED
  BY <1>2, <1>3 DEF d

LEMMA DoingOk ==
  ASSUME NEW c, CallOk(c), NEW doing \in Checks \cup {"work", "fail", "succeed"}
  PROVE  CallOk([c EXCEPT !.doing = doing])
BY DEF CallOk

LEMMA CallsStep ==
  ASSUME OwnCalls, NEW r \in Reqs, NEW x, x = NoRequest \/ CallOk(x),
         call' = [call EXCEPT ![r] = x]
  PROVE  OwnCalls'
BY DEF OwnCalls

LEMMA EnterOwn ==
  ASSUME OwnCalls, NEW r \in Reqs, NEW c, CallOk(c), NEW b, Enter(r, c, b)
  PROVE  OwnCalls'
<1>1. CallOk(Idle(c, "work")) /\ CallOk([Idle(c, c.doing) EXCEPT !.net = "start"])
  BY IdleOk DEF CallOk
<1>2. \/ call' = [call EXCEPT ![r] = NoRequest]
      \/ call' = [call EXCEPT ![r] = Idle(c, "work")]
      \/ call' = [call EXCEPT ![r] = [Idle(c, c.doing) EXCEPT !.net = "start"]]
  BY DEF Enter
<1> QED
  BY <1>1, <1>2, CallsStep

LEMMA FinishOwn ==
  ASSUME OwnCalls, NEW r \in Reqs, NEW c, CallOk(c), NEW b, NEW answer, Finish(r, c, b, answer)
  PROVE  OwnCalls'
<1>1. CallOk(Idle(c, "work")) /\ CallOk([c EXCEPT !.doing = "next"])
  BY IdleOk, DoingOk DEF Checks
<1>2. \/ call' = [call EXCEPT ![r] = NoRequest]
      \/ call' = [call EXCEPT ![r] = Idle(c, "work")]
      \/ Enter(r, [c EXCEPT !.doing = "next"], b)
  BY DEF Finish
<1> QED
  BY <1>1, <1>2, CallsStep, EnterOwn

(* A command, in time or late, keeps every set as it should be. *)
LEMMA AppliedSets ==
  ASSUME Sets, NEW c \in Command, Applied(c),
         \A s \in Scopes : \A k \in Keys(s) : HitsOk(overdue'[s][k], told'[s][k], WindowOf(s))
  PROVE  Sets'
<1> SUFFICES ASSUME NEW s \in Scopes, NEW k \in Keys(s)
             PROVE  SetOk(redis'[s][k], told'[s][k], s)
  BY DEF Sets
<1>1. c.age \in 0..MaxLate
  BY DEF Command
<1>2. redis'[s][k] = CASE k = KeyOf(s, c.req) /\ s \in c.writes -> Recorded(redis[s][k], s, c.age)
                       [] k = KeyOf(s, c.req) /\ s \in c.forgets -> NoKey(s)
                       [] OTHER -> redis[s][k]
  BY DEF Applied
<1>3. told'[s][k] = CASE k = KeyOf(s, c.req) /\ s \in c.writes -> OneMore(told[s][k], c.age)
                      [] k = KeyOf(s, c.req) /\ s \in c.forgets -> NoHits(s)
                      [] OTHER -> told[s][k]
  BY DEF Applied
<1>4. SetOk(redis[s][k], told[s][k], s)
  BY DEF Sets
<1>5. SetOk(Recorded(redis[s][k], s, c.age), OneMore(told[s][k], c.age), s)
  BY <1>1, <1>4, RecordedOk
<1>6. SetOk(NoKey(s), NoHits(s), s)
  BY NoKeyOk
<1> QED
  BY <1>2, <1>3, <1>4, <1>5, <1>6

LEMMA WindowInit == Init => WindowInv
<1> SUFFICES ASSUME Init PROVE WindowInv
  OBVIOUS
<1>1. Sets
  BY NoKeyOk DEF Init, Sets
<1> QED
  BY <1>1 DEF WindowInv, Init, OwnCalls, Lates

LEMMA WindowNext == WindowInv /\ [Next]_vars => WindowInv'
<1> SUFFICES ASSUME WindowInv, [Next]_vars PROVE WindowInv'
  OBVIOUS
<1> USE DEF WindowInv
<1>0. ASSUME UNCHANGED <<redis, told, overdue>> PROVE Sets'
  BY <1>0 DEF Sets
<1>1. ASSUME NEW r \in Reqs, call[r] # NoRequest PROVE CallOk(call[r])
  BY <1>1 DEF OwnCalls
<1>2. ASSUME NEW r \in Reqs, Start(r) PROVE WindowInv'
  <2>1. PICK flow \in Flows, email \in Emails, from \in IPs : \E ip \in AddressesOf[from] :
          Enter(r, [doing |-> "check", net |-> "none", left |-> {}, age |-> 0,
                    spent |-> 0, ok |-> TRUE, from |-> from,
                    req |-> [flow |-> flow, email |-> email, ip |-> ip]],
                breaker[WorkerOf[r]])
    BY <1>2 DEF Start
  <2> DEFINE c == [doing |-> "check", net |-> "none", left |-> {}, age |-> 0,
                   spent |-> 0, ok |-> TRUE, from |-> from,
                   req |-> [flow |-> flow, email |-> email, ip |-> from]]
  <2>2. Enter(r, c, breaker[WorkerOf[r]])
    BY <2>1, OwnAddress
  <2>3. CallOk(c)
    BY RedisAssumption DEF CallOk, Checks, Requests
  <2> HIDE DEF c
  <2>4. OwnCalls'
    BY <2>2, <2>3, EnterOwn
  <2> QED
    BY <1>0, <1>2, <2>4 DEF Start, Lates
<1>3. ASSUME NEW r \in Reqs, ReadTime(r) PROVE WindowInv'
  <2> DEFINE x == [call[r] EXCEPT !.net = "timed", !.left = ConsultedBy(call[r])]
  <2>1. CallOk(call[r])
    BY <1>1, <1>3 DEF ReadTime
  <2>2. call' = [call EXCEPT ![r] = x]
    BY <1>3 DEF ReadTime, OwnCalls
  <2>3. CallOk(x)
    BY <2>1 DEF CallOk
  <2> HIDE DEF x
  <2> QED
    BY <1>0, <1>3, <2>2, <2>3, CallsStep DEF ReadTime, Lates
<1>4. ASSUME NEW r \in Reqs, Count(r) PROVE WindowInv'
  <2> DEFINE s == Order[Min({i \in DOMAIN Order : Order[i] \in call[r].left})]
             left == call[r].left \ {s}
             ok == call[r].ok /\ Counted(redis[s][KeyOf(s, call[r].req)], s, call[r].age) < Limit(s)
             net == IF call[r].left = {s} THEN "done" ELSE call[r].net
             age == IF call[r].left = {s} THEN 0 ELSE call[r].age
             x == [call[r] EXCEPT !.left = left, !.ok = ok, !.net = net, !.age = age]
  <2>1. CallOk(call[r])
    BY <1>1, <1>4 DEF Count
  <2>2. call' = [call EXCEPT ![r].left = @ \ {s},
                  ![r].ok = @ /\ Counted(redis[s][KeyOf(s, call[r].req)], s, call[r].age) < Limit(s),
                  ![r].net = IF call[r].left = {s} THEN "done" ELSE @,
                  ![r].age = IF call[r].left = {s} THEN 0 ELSE @]
    BY <1>4 DEF Count
  <2> HIDE DEF s
  <2>3. call' = [call EXCEPT ![r] = x]
    BY <2>1, <2>2 DEF OwnCalls, CallOk
  <2>4. net \in {"none", "start", "timed", "done"} /\ age \in 0..call[r].spent
    BY <2>1, RedisAssumption DEF CallOk
  <2> HIDE DEF net, age, ok, left
  <2>5. CallOk(x)
    BY <2>1, <2>4 DEF CallOk
  <2> HIDE DEF x
  <2> QED
    BY <1>0, <1>4, <2>3, <2>5, CallsStep DEF Count, Lates
<1>5. ASSUME NEW r \in Reqs, Execute(r) PROVE WindowInv'
  <2> DEFINE x == [call[r] EXCEPT !.net = "done", !.age = 0]
  <2>1. CallOk(call[r])
    BY <1>1, <1>5 DEF Execute
  <2>2. call' = [call EXCEPT ![r] = x]
    BY <1>5 DEF Execute, OwnCalls
  <2>3. CallOk(x)
    BY <2>1, RedisAssumption DEF CallOk
  <2> HIDE DEF x
  <2>4. CommandOf(call[r]) \in Command /\ Applied(CommandOf(call[r]))
    BY <1>5, <2>1, CommandOk DEF Execute
  <2>5. \A s \in Scopes : \A k \in Keys(s) : HitsOk(overdue'[s][k], told'[s][k], WindowOf(s))
    <3> TAKE s \in Scopes
    <3> TAKE k \in Keys(s)
    <3> DEFINE c == CommandOf(call[r])
    <3>1. c.writes = Writes(call[r]) /\ c.forgets = Forgets(call[r]) /\ c.req = call[r].req
      BY DEF CommandOf
    <3>2. ~(s \in c.writes /\ s \in c.forgets)
      <4>1. call[r].req.flow \in Flows
        BY <2>1 DEF CallOk, Requests
      <4> QED
        BY <3>1, <4>1, LimitsAssumption DEF Writes, Forgets, OnSuccess, Forgotten
    <3>3. c.age \in Nat
      BY <2>4, RedisAssumption DEF Command
    <3> HIDE DEF c
    <3>4. Applied(c)
      BY <2>4 DEF c
    <3>5. told'[s][k] = CASE k = KeyOf(s, c.req) /\ s \in c.writes -> OneMore(told[s][k], c.age)
                          [] k = KeyOf(s, c.req) /\ s \in c.forgets -> NoHits(s)
                          [] OTHER -> told[s][k]
      BY <3>4 DEF Applied
    <3>6. overdue'[s][k] = IF s \in c.forgets /\ k = KeyOf(s, c.req) THEN NoHits(s) ELSE overdue[s][k]
      BY <1>5, <3>1 DEF Execute
    <3>7. HitsOk(overdue[s][k], told[s][k], WindowOf(s))
      BY DEF Sets
    <3>8. HitsOk(overdue[s][k], OneMore(told[s][k], c.age), WindowOf(s))
      BY <3>3, <3>7, OneMoreOk, WindowType
    <3>9. HitsOk(NoHits(s), NoHits(s), WindowOf(s))
      BY NoKeyOk
    <3> QED
      BY <3>2, <3>5, <3>6, <3>7, <3>8, <3>9
  <2>6. Sets'
    BY <2>4, <2>5, AppliedSets
  <2> QED
    BY <1>5, <2>2, <2>3, <2>6, CallsStep DEF Execute, Lates
<1>6. ASSUME NEW r \in Reqs, Answer(r) PROVE WindowInv'
  <2>1. CallOk(call[r])
    BY <1>1, <1>6 DEF Answer
  <2>2. OwnCalls'
    BY <1>6, <2>1, FinishOwn DEF Answer
  <2> QED
    BY <1>0, <1>6, <2>2 DEF Answer, Lates
<1>7. ASSUME NEW r \in Reqs, Break(r) PROVE WindowInv'
  <2>1. CallOk(call[r])
    BY <1>1, <1>7 DEF Break
  <2>2. OwnCalls'
    BY <1>7, <2>1, FinishOwn DEF Break
  <2>3. CommandOf(call[r]) \in Command
    BY <2>1, CommandOk
  <2>4. Lates'
    BY <1>7, <2>3 DEF Break, Lates
  <2> QED
    BY <1>0, <1>7, <2>2, <2>4 DEF Break
<1>8. ASSUME NEW r \in Reqs, PoolExhausted(r) PROVE WindowInv'
  <2>1. CallOk(call[r])
    BY <1>1, <1>8 DEF PoolExhausted
  <2>2. OwnCalls'
    BY <1>8, <2>1, FinishOwn DEF PoolExhausted
  <2> QED
    BY <1>0, <1>8, <2>2 DEF PoolExhausted, Lates
<1>9. ASSUME NEW r \in Reqs, LateExecute(r) PROVE WindowInv'
  <2>1. late[r] \in Command /\ Applied(late[r])
    BY <1>9 DEF LateExecute, Lates
  <2>2. late[r].age \in Nat
    BY <2>1, RedisAssumption DEF Command
  <2>3. \A s \in Scopes : \A k \in Keys(s) : HitsOk(overdue'[s][k], told'[s][k], WindowOf(s))
    <3> TAKE s \in Scopes
    <3> TAKE k \in Keys(s)
    <3>1. HitsOk(overdue[s][k], told[s][k], WindowOf(s))
      BY DEF Sets
    <3>2. /\ HitsOk(OneMore(overdue[s][k], late[r].age), OneMore(told[s][k], late[r].age), WindowOf(s))
          /\ HitsOk(NoHits(s), NoHits(s), WindowOf(s))
      BY <2>2, <3>1, OneMoreOk, NoKeyOk, WindowType
    <3>3. told'[s][k] = CASE k = KeyOf(s, late[r].req) /\ s \in late[r].writes
                               -> OneMore(told[s][k], late[r].age)
                          [] k = KeyOf(s, late[r].req) /\ s \in late[r].forgets -> NoHits(s)
                          [] OTHER -> told[s][k]
      BY <2>1 DEF Applied
    <3>4. overdue'[s][k] = CASE k = KeyOf(s, late[r].req) /\ s \in late[r].writes
                                  -> OneMore(overdue[s][k], late[r].age)
                             [] k = KeyOf(s, late[r].req) /\ s \in late[r].forgets -> NoHits(s)
                             [] OTHER -> overdue[s][k]
      BY <1>9 DEF LateExecute
    <3> QED
      BY <3>1, <3>2, <3>3, <3>4
  <2>4. Sets'
    BY <2>1, <2>3, AppliedSets
  <2> QED
    BY <1>9, <2>4 DEF LateExecute, Lates, OwnCalls
<1>10. ASSUME NEW r \in Reqs, LateLost(r) PROVE WindowInv'
  BY <1>0, <1>10 DEF LateLost, Lates, OwnCalls
<1>11. ASSUME NEW r \in Reqs, Fail(r) \/ Succeed(r) \/ Leave(r) PROVE WindowInv'
  <2>1. CallOk(call[r])
    BY <1>1, <1>11 DEF Fail, Succeed, Leave
  <2>2. CallOk([call[r] EXCEPT !.doing = "fail"]) /\ CallOk([call[r] EXCEPT !.doing = "succeed"])
    BY <2>1, DoingOk
  <2>3. \/ call' = [call EXCEPT ![r] = NoRequest]
        \/ Enter(r, [call[r] EXCEPT !.doing = "fail"], breaker[WorkerOf[r]])
        \/ Enter(r, [call[r] EXCEPT !.doing = "succeed"], breaker[WorkerOf[r]])
    BY <1>11 DEF Fail, Succeed, Leave
  <2>4. OwnCalls'
    BY <2>2, <2>3, EnterOwn, CallsStep
  <2> QED
    BY <1>0, <1>11, <2>4 DEF Fail, Succeed, Leave, Lates
<1>12. CASE Tick
  <2>1. Sets'
    <3> SUFFICES ASSUME NEW s \in Scopes, NEW k \in Keys(s)
                 PROVE  /\ SetOk(redis'[s][k], told'[s][k], s)
                        /\ HitsOk(overdue'[s][k], told'[s][k], WindowOf(s))
      BY DEF Sets
    <3>1. /\ redis'[s][k] = Aged(redis[s][k], s) /\ told'[s][k] = AgedHits(told[s][k])
          /\ overdue'[s][k] = AgedHits(overdue[s][k])
      BY <1>12 DEF Tick
    <3>2. /\ SetOk(redis[s][k], told[s][k], s) /\ HitsOk(overdue[s][k], told[s][k], WindowOf(s))
         
      BY DEF Sets
    <3> QED
      BY <3>1, <3>2, AgedOk, AgedHitsOk, WindowType
  <2>2. ASSUME NEW r \in Reqs, call'[r] # NoRequest PROVE CallOk(call'[r])
    <3>1. call'[r] = IF call[r] # NoRequest /\ call[r].net # "none"
                     THEN [call[r] EXCEPT !.spent = @ + 1,
                                          !.age = IF call[r].net = "timed" THEN @ + 1 ELSE 0]
                     ELSE call[r]
      BY <1>12 DEF Tick
    <3>2. CASE call[r] # NoRequest /\ call[r].net # "none"
      <4> DEFINE age == IF call[r].net = "timed" THEN call[r].age + 1 ELSE 0
                 spent == call[r].spent + 1
      <4>1. CallOk(call[r]) /\ call[r].spent < Deadline
        BY <1>1, <1>12, <3>2 DEF Tick
      <4>2. call'[r] = [call[r] EXCEPT !.spent = spent, !.age = age]
        BY <3>1, <3>2, <4>1 DEF CallOk
      <4>3. age \in 0..spent /\ spent \in 0..Deadline
        BY <4>1, RedisAssumption DEF CallOk
      <4> HIDE DEF age, spent
      <4> QED
        BY <4>1, <4>2, <4>3 DEF CallOk
    <3>3. CASE ~(call[r] # NoRequest /\ call[r].net # "none")
      BY <1>1, <2>2, <3>1, <3>3
    <3> QED
      BY <3>2, <3>3
  <2>3. Lates'
    <3> SUFFICES ASSUME NEW r \in Reqs, late[r] # NoRequest
                 PROVE  [late[r] EXCEPT !.age = @ + 1] \in Command
      BY <1>12 DEF Tick, Lates
    <3>1. late[r] \in Command /\ late[r].age < MaxLate
      BY <1>12 DEF Tick, Lates
    <3>2. late[r].age + 1 \in 0..MaxLate
      BY <3>1, RedisAssumption DEF Command
    <3> QED
      BY <3>1, <3>2 DEF Command
  <2>4. DOMAIN call' = Reqs
    BY <1>12 DEF Tick
  <2> QED
    BY <2>1, <2>2, <2>3, <2>4 DEF OwnCalls
<1>13. CASE UNCHANGED vars
  BY <1>0, <1>13 DEF vars, OwnCalls, Lates
<1> QED
  BY <1>2, <1>3, <1>4, <1>5, <1>6, <1>7, <1>8, <1>9, <1>10, <1>11, <1>12, <1>13 DEF Next, Serve

LEMMA WindowAlways == Spec => []WindowInv
BY WindowInit, WindowNext, PTL DEF Spec

(* Neither the trimming of _record with an older reading of TIME, nor the  *)
(* EXPIRE, nor a command that arrives after its deadline, ever removes a   *)
(* record of the last window or counts one twice.                          *)
THEOREM WindowIsKept == Spec => []KeepsWindow
<1>1. WindowInv => KeepsWindow
  BY DEF WindowInv, Sets, SetOk, KeepsWindow
<1> QED
  BY <1>1, WindowAlways, PTL

(* Whatever X-Forwarded-For a client sends and through whichever trusted   *)
(* proxies it comes, its requests count against its own address            *)
(* (resolve_client_ip).                                                    *)
THEOREM OwnCountersOnly == Spec => []OwnCounters
<1>1. WindowInv => OwnCounters
  BY DEF WindowInv, OwnCalls, CallOk, OwnCounters
<1> QED
  BY <1>1, WindowAlways, PTL

(* The sets, the histories, the breakers, the calls and the commands under *)
(* way stay well formed.                                                   *)
THEOREM TypeCorrect == Spec => []TypeOK
<1>1. WindowInv /\ CostInv => TypeOK
  <2> SUFFICES ASSUME WindowInv, CostInv PROVE TypeOK
    OBVIOUS
  <2>1. \A s \in Scopes : \A k \in Keys(s) :
          /\ redis[s][k].count \in [0..MaxAge(s) -> Nat] /\ redis[s][k].ttl \in 0..(WindowOf(s) + 1)
          /\ told[s][k] \in [0..WindowOf(s) -> Nat] /\ overdue[s][k] \in [0..WindowOf(s) -> Nat]
    BY DEF WindowInv, Sets, SetOk, HitsOk
  <2>2. ASSUME NEW w \in Workers
        PROVE  /\ breaker[w].failures \in 0..Threshold /\ breaker[w].left \in 0..Cooldown
               /\ breaker[w].opened => breaker[w].failures = Threshold
    BY RedisAssumption DEF CostInv, Breakers, BreakerOk
  <2> QED
    BY <2>1, <2>2 DEF TypeOK, WindowInv, OwnCalls, CallOk, Lates
<1> QED
  BY <1>1, WindowAlways, CostInit, CostNext, PTL DEF Spec

-----------------------------------------------------------------------------
(* How far concurrent requests exceed a limit. *)

(* A request that may still be recorded in scope s, or has found s below   *)
(* its limit and may become one that is.                                   *)
ClearedFor(c, s) ==
  /\ s \in OnFailure(c.req.flow) \cup OnSuccess(c.req.flow)
  /\ \/ c.doing \in {"work", "fail", "succeed"} /\ c.net # "done"
     \/ c.doing = "next" /\ s \in Consulted(c.req.flow)
     \/ /\ c.doing \in Checks /\ s \in ConsultedBy(c) /\ c.ok
        /\ c.net = "done" \/ (c.net = "timed" /\ s \notin c.left)

Cleared(s, k) == {r \in Reqs : /\ call[r] # NoRequest /\ ClearedFor(call[r], s)
                               /\ KeyOf(s, call[r].req) = k}

(* A check has scopes left to count until it is done; a request at work    *)
(* leaves Redis alone.                                                      *)
CheckOk(c) ==
  /\ c.doing = "work" => c.net = "none"
  /\ c.doing = "next" => ConsultedNext(c.req.flow) # {}
  /\ c.doing \in Checks /\ c.net = "timed" => c.left # {} /\ c.left \subseteq ConsultedBy(c)

CallsChecked == \A r \in Reqs : call[r] # NoRequest => CheckOk(call[r])

InTime(s, k) == told[s][k][WindowOf(s)] - overdue[s][k][WindowOf(s)]

Bounded == \A s \in Scopes : \A k \in Keys(s) :
             InTime(s, k) + Cardinality(Cleared(s, k)) <= Limit(s) - 1 + Cardinality(Reqs)

BoundInv == CallsChecked /\ Bounded

LEMMA ClearedType ==
  ASSUME NEW S, S \subseteq Reqs
  PROVE  /\ IsFiniteSet(S) /\ Cardinality(S) \in Nat /\ Cardinality(Reqs) \in Nat
         /\ Cardinality(S) <= Cardinality(Reqs)
BY LimitsAssumption, FS_Subset, FS_CardinalityType

LEMMA LimitType ==
  ASSUME NEW s \in Scopes
  PROVE  Limit(s) \in Nat \ {0}
BY LimitsAssumption DEF Limit, Scopes

LEMMA DiffType ==
  ASSUME NEW W \in Nat, NEW over, NEW hits, HitsOk(over, hits, W)
  PROVE  hits[W] \in Nat /\ hits[W] - over[W] \in Nat /\ hits[W] - over[W] <= hits[W]
<1>1. W \in 0..W
  OBVIOUS
<1>2. over \in [0..W -> Nat] /\ hits \in [0..W -> Nat] /\ over[W] <= hits[W]
  BY <1>1 DEF HitsOk
<1> QED
  BY <1>1, <1>2

LEMMA OneMoreDiff ==
  ASSUME NEW W \in Nat, NEW over, NEW hits, HitsOk(over, hits, W), NEW age \in Nat
  PROVE  /\ OneMore(hits, age)[W] - over[W] \in Int
         /\ OneMore(hits, age)[W] - over[W] <= hits[W] - over[W] + 1
         /\ OneMore(hits, age)[W] - OneMore(over, age)[W] <= hits[W] - over[W]
<1>1. over \in [0..W -> Nat] /\ hits \in [0..W -> Nat] /\ W \in 0..W
  BY DEF HitsOk
<1>2. /\ OneMore(hits, age)[W] = hits[W] + (IF W >= age THEN 1 ELSE 0)
      /\ OneMore(over, age)[W] = over[W] + (IF W >= age THEN 1 ELSE 0)
  BY <1>1, OneMoreType
<1>3. hits[W] \in Nat /\ over[W] \in Nat
  BY <1>1
<1> QED
  BY <1>2, <1>3

LEMMA AgedDiff ==
  ASSUME NEW W \in Nat \ {0}, NEW over, NEW hits, HitsOk(over, hits, W)
  PROVE  AgedHits(hits)[W] - AgedHits(over)[W] <= hits[W] - over[W]
<1>1. over \in [0..W -> Nat] /\ hits \in [0..W -> Nat] /\ W \in 0..W /\ W - 1 \in 0..W /\ W - 1 <= W
  BY DEF HitsOk
<1>2. /\ AgedHits(hits)[W] = hits[W - 1]
      /\ AgedHits(over)[W] = over[W - 1]
  BY <1>1 DEF AgedHits
<1>3. hits[W - 1] - over[W - 1] <= hits[W] - over[W]
  BY <1>1 DEF HitsOk
<1> QED
  BY <1>2, <1>3

LEMMA InTimeType ==
  ASSUME Sets, NEW s \in Scopes, NEW k \in Keys(s)
  PROVE  /\ InTime(s, k) \in Nat /\ InTime(s, k) <= told[s][k][WindowOf(s)]
         /\ told[s][k][WindowOf(s)] \in Nat
<1>1. WindowOf(s) \in Nat /\ HitsOk(overdue[s][k], told[s][k], WindowOf(s))
  BY WindowType DEF Sets
<1> QED
  BY <1>1, DiffType DEF InTime

(* No key collects more, and nobody is cleared for it. *)
LEMMA NoMore ==
  ASSUME Sets, Sets', Bounded, NEW s \in Scopes, NEW k \in Keys(s),
         InTime(s, k)' <= InTime(s, k), Cleared(s, k)' \subseteq Cleared(s, k)
  PROVE  InTime(s, k)' + Cardinality(Cleared(s, k)') <= Limit(s) - 1 + Cardinality(Reqs)
<1> DEFINE i == InTime(s, k)
           j == InTime(s, k)'
           m == Cardinality(Cleared(s, k))
           n == Cardinality(Cleared(s, k)')
           N == Cardinality(Reqs)
<1>1. Cleared(s, k) \subseteq Reqs
  BY DEF Cleared
<1>2. n \in Nat /\ m \in Nat /\ N \in Nat /\ n <= m
  BY <1>1, ClearedType, FS_Subset
<1>3. i \in Nat /\ j \in Nat
  <2>1. WindowOf(s) \in Nat /\ HitsOk(overdue'[s][k], told'[s][k], WindowOf(s))
    BY WindowType DEF Sets
  <2> QED
    BY <2>1, InTimeType, DiffType DEF InTime
<1>4. Limit(s) \in Nat /\ i + m <= Limit(s) - 1 + N /\ j <= i
  BY LimitType DEF Bounded
<1> HIDE DEF i, j, m, n, N
<1>5. j + n <= Limit(s) - 1 + N
  BY <1>2, <1>3, <1>4
<1> QED
  BY <1>5 DEF j, n, N

LEMMA SameSets ==
  ASSUME UNCHANGED <<told, overdue>>, NEW s, NEW k
  PROVE  InTime(s, k)' = InTime(s, k)
BY DEF InTime

(* A step of request r that changes no counter and clears it for nothing. *)
LEMMA QuietCall ==
  ASSUME Sets, Sets', BoundInv, UNCHANGED <<told, overdue>>, NEW r \in Reqs, NEW x,
         DOMAIN call = Reqs, call' = [call EXCEPT ![r] = x],
         \/ x = NoRequest
         \/ /\ CheckOk(x)
            /\ \A s \in Scopes : ClearedFor(x, s) =>
                 call[r] # NoRequest /\ ClearedFor(call[r], s) /\ x.req = call[r].req
  PROVE  BoundInv'
<1>1. CallsChecked'
  <2> SUFFICES ASSUME NEW q \in Reqs, call'[q] # NoRequest PROVE CheckOk(call'[q])
    BY DEF CallsChecked, CheckOk, ConsultedBy
  <2>1. call'[q] = IF q = r THEN x ELSE call[q]
    OBVIOUS
  <2> QED
    BY <2>1 DEF BoundInv, CallsChecked
<1>2. ASSUME NEW s \in Scopes, NEW k \in Keys(s)
      PROVE  InTime(s, k)' + Cardinality(Cleared(s, k)') <= Limit(s) - 1 + Cardinality(Reqs)
  <2>1. Cleared(s, k)' \subseteq Cleared(s, k)
    BY DEF Cleared
  <2>2. InTime(s, k)' <= InTime(s, k)
    BY SameSets, InTimeType
  <2> QED
    BY <2>1, <2>2, NoMore DEF BoundInv
<1> QED
  BY <1>1, <1>2 DEF BoundInv, Bounded

LEMMA WritesChecked ==
  ASSUME NEW flow \in Flows
  PROVE  OnFailure(flow) \cup OnSuccess(flow) \subseteq Consulted(flow) \cup ConsultedNext(flow)
BY LimitsAssumption DEF OnFailure, OnSuccess, Consulted, ConsultedNext

LEMMA IdleFields ==
  ASSUME NEW c, CallOk(c), NEW doing
  PROVE  /\ Idle(c, doing).doing = doing /\ Idle(c, doing).req = c.req
         /\ Idle(c, doing).net = "none"
         /\ [Idle(c, doing) EXCEPT !.net = "start"].doing = doing
         /\ [Idle(c, doing) EXCEPT !.net = "start"].req = c.req
         /\ [Idle(c, doing) EXCEPT !.net = "start"].net = "start"
<1>1. {"doing", "net", "left", "age", "spent", "ok", "from", "req"} \subseteq DOMAIN c
  BY DEF CallOk
<1>2. /\ Idle(c, doing).doing = doing /\ Idle(c, doing).req = c.req
      /\ Idle(c, doing).net = "none" /\ DOMAIN Idle(c, doing) = DOMAIN c
  BY <1>1 DEF Idle
<1> DEFINE d == Idle(c, doing)
<1> HIDE DEF d
<1>3. ASSUME d.doing = doing, d.req = c.req, DOMAIN d = DOMAIN c
      PROVE  /\ [d EXCEPT !.net = "start"].doing = doing
             /\ [d EXCEPT !.net = "start"].req = c.req
             /\ [d EXCEPT !.net = "start"].net = "start"
  BY <1>1, <1>3
<1> QED
  BY <1>2, <1>3 DEF d

(* A request about to begin an operation, with fail_closed. *)
LEMMA EnterBound ==
  ASSUME Sets, Sets', BoundInv, UNCHANGED <<told, overdue>>, Policy = "fail_closed",
         DOMAIN call = Reqs, NEW r \in Reqs, NEW c, CallOk(c), NEW b, Enter(r, c, b),
         c.doing # "work", c.doing = "next" => ConsultedNext(c.req.flow) # {},
         \A s \in Scopes :
           /\ s \in OnFailure(c.req.flow) \cup OnSuccess(c.req.flow)
           /\ c.doing \in {"work", "fail", "succeed"} \/ (c.doing = "next" /\ s \in Consulted(c.req.flow))
           => call[r] # NoRequest /\ ClearedFor(call[r], s) /\ c.req = call[r].req
  PROVE  BoundInv'
<1> DEFINE x == [Idle(c, c.doing) EXCEPT !.net = "start"]
<1>1. ~Unavailable
  BY DEF Unavailable
<1>2. call' = [call EXCEPT ![r] = NoRequest] \/ call' = [call EXCEPT ![r] = x]
  BY <1>1 DEF Enter
<1>3. x.doing = c.doing /\ x.req = c.req /\ x.net = "start"
  BY IdleFields
<1> HIDE DEF x
<1>4. CheckOk(x)
  BY <1>3 DEF CheckOk
<1>5. \A s \in Scopes : ClearedFor(x, s) =>
        call[r] # NoRequest /\ ClearedFor(call[r], s) /\ x.req = call[r].req
  <2> SUFFICES ASSUME NEW s \in Scopes, ClearedFor(x, s)
               PROVE  call[r] # NoRequest /\ ClearedFor(call[r], s) /\ x.req = call[r].req
    OBVIOUS
  <2>1. /\ s \in OnFailure(c.req.flow) \cup OnSuccess(c.req.flow)
        /\ c.doing \in {"work", "fail", "succeed"} \/ (c.doing = "next" /\ s \in Consulted(c.req.flow))
    BY <1>3 DEF ClearedFor
  <2> QED
    BY <1>3, <2>1
<1> QED
  BY <1>2, <1>4, <1>5, QuietCall

(* The end of an operation: a check that passes has counted every scope.   *)
LEMMA FinishBound ==
  ASSUME Sets, Sets', BoundInv, UNCHANGED <<told, overdue>>, Policy = "fail_closed",
         DOMAIN call = Reqs, NEW r \in Reqs, call[r] # NoRequest, CallOk(call[r]), NEW b, NEW answer,
         answer => call[r].net = "done" /\ call[r].ok,
         Finish(r, call[r], b, answer)
  PROVE  BoundInv'
<1> DEFINE c == call[r]
<1>0. c.req.flow \in Flows /\ CheckOk(c)
  BY DEF CallOk, Requests, BoundInv, CallsChecked
<1>1. CASE c.doing = "check" /\ answer /\ ConsultedNext(c.req.flow) # {}
  <2> DEFINE d == [c EXCEPT !.doing = "next"]
  <2>1. Enter(r, d, b)
    BY <1>1 DEF Finish
  <2>2. CallOk(d)
    BY DoingOk DEF Checks
  <2>3. d.doing = "next" /\ d.req = c.req
    BY DEF CallOk
  <2> HIDE DEF d
  <2>4. ASSUME NEW s \in Scopes, s \in OnFailure(d.req.flow) \cup OnSuccess(d.req.flow),
               s \in Consulted(d.req.flow)
        PROVE  ClearedFor(c, s) /\ d.req = c.req
    BY <1>1, <2>3, <2>4 DEF ClearedFor, ConsultedBy, Checks
  <2> QED
    BY <1>1, <2>1, <2>2, <2>3, <2>4, EnterBound
<1>2. CASE ~(c.doing = "check" /\ answer /\ ConsultedNext(c.req.flow) # {})
  <2> DEFINE x == Idle(c, "work")
  <2>1. \/ call' = [call EXCEPT ![r] = NoRequest]
        \/ c.doing \in Checks /\ answer /\ call' = [call EXCEPT ![r] = x]
    BY <1>2 DEF Finish
  <2>2. x.doing = "work" /\ x.req = c.req /\ x.net = "none"
    BY IdleFields
  <2> HIDE DEF x
  <2>3. CheckOk(x)
    BY <2>2 DEF CheckOk, Checks
  <2>4. ASSUME NEW s \in Scopes, ClearedFor(x, s), c.doing \in Checks, answer
        PROVE  ClearedFor(c, s)
    <3>1. s \in OnFailure(c.req.flow) \cup OnSuccess(c.req.flow)
      BY <2>2, <2>4 DEF ClearedFor
    <3>2. s \in Consulted(c.req.flow) \cup ConsultedNext(c.req.flow)
      BY <1>0, <3>1, WritesChecked
    <3>3. c.net = "done" /\ c.ok
      BY <2>4
    <3>4. CASE c.doing = "check"
      <4>1. s \in Consulted(c.req.flow)
        BY <1>2, <2>4, <3>2, <3>4
      <4> QED
        BY <2>4, <3>1, <3>3, <3>4, <4>1 DEF ClearedFor, ConsultedBy
    <3>5. CASE c.doing = "next"
      BY <2>4, <3>1, <3>2, <3>3, <3>5 DEF ClearedFor, ConsultedBy
    <3> QED
      BY <2>4, <3>4, <3>5 DEF Checks
  <2> QED
    BY <2>1, <2>2, <2>3, <2>4, QuietCall
<1> QED
  BY <1>1, <1>2

(* The first scope that is left, in the order of the pipeline. *)
LEMMA FirstLeft ==
  ASSUME NEW left, left # {}, left \subseteq Scopes
  PROVE  Order[Min({i \in DOMAIN Order : Order[i] \in left})] \in left
<1> DEFINE S == {i \in DOMAIN Order : Order[i] \in left}
<1>1. DOMAIN Order = 1..5
  BY DEF Order
<1>2. \E i \in 1..5 : Order[i] \in left
  <2>1. /\ Order[1] = "email_ip" /\ Order[2] = "ip" /\ Order[3] = "email"
        /\ Order[4] = "registration_ip" /\ Order[5] = "oidc_ip"
    BY DEF Order
  <2>2. PICK s \in left : s \in Scopes
    OBVIOUS
  <2>3. \E i \in 1..5 : Order[i] = s
    <3>1. s \in {Order[1], Order[2], Order[3], Order[4], Order[5]}
      BY <2>1, <2>2 DEF Scopes
    <3>2. 1 \in 1..5 /\ 2 \in 1..5 /\ 3 \in 1..5 /\ 4 \in 1..5 /\ 5 \in 1..5
      OBVIOUS
    <3> QED
      BY <3>1, <3>2
  <2> QED
    BY <2>2, <2>3
<1>3. S \subseteq 1..5 /\ S # {}
  BY <1>1, <1>2
<1> HIDE DEF S
<1>4. \E i \in S : \A j \in S : i =< j
  <2>1. CASE 1 \in S
    BY <1>3, <2>1
  <2>2. CASE 1 \notin S /\ 2 \in S
    BY <1>3, <2>2
  <2>3. CASE 1 \notin S /\ 2 \notin S /\ 3 \in S
    BY <1>3, <2>3
  <2>4. CASE 1 \notin S /\ 2 \notin S /\ 3 \notin S /\ 4 \in S
    BY <1>3, <2>4
  <2>5. CASE 1 \notin S /\ 2 \notin S /\ 3 \notin S /\ 4 \notin S
    <3>1. \A i \in S : i = 5
      BY <1>3, <2>5
    <3>2. 5 \in S /\ 5 =< 5
      <4>1. PICK i : i \in S
        BY <1>3
      <4> QED
        BY <3>1, <4>1
    <3>3. \A j \in S : 5 =< j
      BY <3>1, <3>2
    <3> QED
      BY <3>2, <3>3
  <2> QED
    BY <2>1, <2>2, <2>3, <2>4, <2>5
<1>5. Min(S) \in S
  BY <1>4 DEF Min
<1> QED
  BY <1>5 DEF S

LEMMA CountBound ==
  ASSUME WindowInv, Sets', BoundInv, NEW r \in Reqs, Count(r)
  PROVE  BoundInv'
<1> DEFINE c == call[r]
           s0 == Order[Min({i \in DOMAIN Order : Order[i] \in c.left})]
           below == Counted(redis[s0][KeyOf(s0, c.req)], s0, c.age) < Limit(s0)
           net == IF c.left = {s0} THEN "done" ELSE c.net
           age == IF c.left = {s0} THEN 0 ELSE c.age
           x == [c EXCEPT !.left = c.left \ {s0}, !.ok = c.ok /\ below, !.net = net, !.age = age]
<1>1. /\ CallOk(c) /\ CheckOk(c) /\ c # NoRequest /\ DOMAIN call = Reqs
      /\ c.net = "timed" /\ c.doing \in Checks
  BY DEF Count, WindowInv, OwnCalls, BoundInv, CallsChecked
<1>2. c.left # {} /\ c.left \subseteq ConsultedBy(c) /\ c.req \in Requests /\ c.req.flow \in Flows
  BY <1>1 DEF CheckOk, CallOk, Requests
<1>3. c.left \subseteq Scopes
  BY <1>2, FlowScopes DEF ConsultedBy
<1>4. s0 \in c.left
  BY <1>2, <1>3, FirstLeft
<1>5. call' = [call EXCEPT ![r].left = @ \ {s0},
                  ![r].ok = @ /\ Counted(redis[s0][KeyOf(s0, call[r].req)], s0, call[r].age) < Limit(s0),
                  ![r].net = IF call[r].left = {s0} THEN "done" ELSE @,
                  ![r].age = IF call[r].left = {s0} THEN 0 ELSE @]
  BY DEF Count
<1> HIDE DEF s0
<1>6. call' = [call EXCEPT ![r] = x]
  BY <1>1, <1>5 DEF CallOk
<1>7. below => told[s0][KeyOf(s0, c.req)][WindowOf(s0)] < Limit(s0)
  <2> DEFINE k == KeyOf(s0, c.req)
             W == WindowOf(s0)
             M == MaxAge(s0)
             set == redis[s0][k]
  <2>1. s0 \in Scopes /\ k \in Keys(s0)
    BY <1>2, <1>3, <1>4 DEF Requests, Keys, KeyOf, Scopes
  <2>2. SetOk(set, told[s0][k], s0)
    BY <2>1 DEF WindowInv, Sets
  <2>3. W \in Nat /\ M \in Nat /\ c.age \in Nat /\ W + c.age <= M /\ W <= M
    <3>1. c.age \in 0..MaxLate
      BY <1>1, RedisAssumption DEF CallOk
    <3> QED
      BY <2>1, <3>1, WindowType, RedisAssumption DEF MaxAge
  <2>4. set.count[W] = told[s0][k][W]
    BY <2>2, <2>3 DEF SetOk
  <2>5. set.count[W] <= set.count[W + c.age]
    <3>1. W \in 0..M /\ W + c.age \in 0..M /\ W <= W + c.age
      BY <2>3
    <3> QED
      BY <2>2, <3>1 DEF SetOk
  <2>6. set.count[W] \in Nat /\ set.count[W + c.age] \in Nat
    <3>1. W \in 0..M /\ W + c.age \in 0..M
      BY <2>3
    <3>2. set.count \in [0..M -> Nat]
      BY <2>2 DEF SetOk
    <3> HIDE DEF set, W, M
    <3> QED
      BY <3>1, <3>2
  <2>7. Limit(s0) \in Nat
    BY <2>1, LimitType
  <2>8. below <=> set.count[W + c.age] < Limit(s0)
    <3>1. Counted(set, s0, c.age) = set.count[W + c.age]
      BY DEF Counted
    <3>2. below <=> Counted(set, s0, c.age) < Limit(s0)
      OBVIOUS
    <3> HIDE DEF below, set, W
    <3> QED
      BY <3>1, <3>2
  <2> HIDE DEF below, set, k, W, M
  <2>9. below => told[s0][k][W] < Limit(s0)
    BY <2>4, <2>5, <2>6, <2>7, <2>8
  <2> QED
    BY <2>9 DEF k, W
<1> HIDE DEF below
<1>8. /\ x.doing = c.doing /\ x.req = c.req /\ x.left = c.left \ {s0} /\ x.net = net
      /\ x.ok => c.ok /\ below
  BY <1>1 DEF CallOk
<1> HIDE DEF x
<1>9. CheckOk(x)
  <2>1. ConsultedBy(x) = ConsultedBy(c)
    BY <1>8 DEF ConsultedBy
  <2>2. x.net = "timed" => x.left # {}
    BY <1>4, <1>8
  <2> QED
    BY <1>1, <1>2, <1>8, <2>1, <2>2 DEF CheckOk
<1>10. CallsChecked'
  <2> SUFFICES ASSUME NEW q \in Reqs, call'[q] # NoRequest PROVE CheckOk(call'[q])
    BY DEF CallsChecked, CheckOk, ConsultedBy
  <2>1. call'[q] = IF q = r THEN x ELSE call[q]
    BY <1>1, <1>6
  <2> QED
    BY <1>9, <2>1 DEF BoundInv, CallsChecked
<1>11. ASSUME NEW s \in Scopes, ClearedFor(x, s)
       PROVE  ClearedFor(c, s) \/ (s = s0 /\ below)
  <2>1. ConsultedBy(x) = ConsultedBy(c)
    BY <1>8 DEF ConsultedBy
  <2>2. CASE c.doing = "next" /\ s \in Consulted(c.req.flow)
    BY <1>8, <1>11, <2>2 DEF ClearedFor
  <2>3. CASE /\ s \in ConsultedBy(c) /\ x.ok
             /\ x.net = "done" \/ (x.net = "timed" /\ s \notin x.left)
    <3>1. c.ok /\ below
      BY <1>8, <2>3
    <3>2. CASE s # s0
      <4>1. s \notin c.left
        BY <1>1, <1>4, <1>8, <2>3, <3>2
      <4> QED
        BY <1>1, <1>8, <1>11, <2>3, <3>1, <4>1 DEF ClearedFor
    <3> QED
      BY <3>1, <3>2
  <2> QED
    BY <1>1, <1>8, <1>11, <2>1, <2>2, <2>3 DEF ClearedFor, Checks
<1>12. UNCHANGED <<told, overdue>>
  BY DEF Count
<1>13. ASSUME NEW s \in Scopes, NEW k \in Keys(s)
       PROVE  InTime(s, k)' + Cardinality(Cleared(s, k)') <= Limit(s) - 1 + Cardinality(Reqs)
  <2>1. CASE Cleared(s, k)' \subseteq Cleared(s, k)
    <3>1. InTime(s, k)' <= InTime(s, k)
      BY <1>12, SameSets, InTimeType DEF WindowInv
    <3> QED
      BY <2>1, <3>1, NoMore DEF BoundInv, WindowInv
  <2>2. CASE ~(Cleared(s, k)' \subseteq Cleared(s, k))
    <3> DEFINE n == Cardinality(Cleared(s, k)')
               N == Cardinality(Reqs)
    <3>1. ClearedFor(x, s) /\ KeyOf(s, x.req) = k /\ ~(ClearedFor(c, s) /\ KeyOf(s, c.req) = k)
      BY <1>1, <1>6, <2>2 DEF Cleared
    <3>2. s = s0 /\ below /\ KeyOf(s, c.req) = k
      BY <1>8, <1>11, <3>1
    <3>3. told[s][k][WindowOf(s)] < Limit(s)
      BY <1>7, <3>2
    <3>4. /\ InTime(s, k)' = InTime(s, k) /\ InTime(s, k) \in Nat
          /\ InTime(s, k) <= told[s][k][WindowOf(s)] /\ told[s][k][WindowOf(s)] \in Nat
      BY <1>12, SameSets, InTimeType DEF WindowInv
    <3>5. Cleared(s, k)' \subseteq Reqs
      BY DEF Cleared
    <3>6. n \in Nat /\ N \in Nat /\ n <= N
      BY <3>5, ClearedType
    <3>7. Limit(s) \in Nat
      BY LimitType
    <3> HIDE DEF n, N
    <3>8. InTime(s, k) + n <= Limit(s) - 1 + N
      BY <3>3, <3>4, <3>6, <3>7
    <3> QED
      BY <3>4, <3>8 DEF n, N
  <2> QED
    BY <2>1, <2>2
<1> QED
  BY <1>10, <1>13 DEF BoundInv, Bounded

(* A record that is made in time was cleared before and is not any more.  *)
LEMMA ExecuteBound ==
  ASSUME WindowInv, Sets', BoundInv, NEW r \in Reqs, Execute(r)
  PROVE  BoundInv'
<1> DEFINE c == call[r]
           x == [c EXCEPT !.net = "done", !.age = 0]
<1>1. CallOk(c) /\ CheckOk(c) /\ c # NoRequest /\ DOMAIN call = Reqs /\ Ready(c)
  BY DEF Execute, WindowInv, OwnCalls, BoundInv, CallsChecked
<1>2. call' = [call EXCEPT ![r] = x]
  BY <1>1 DEF Execute
<1>3. x.doing = c.doing /\ x.req = c.req /\ x.net = "done" /\ c.doing \in {"fail", "succeed"}
  BY <1>1 DEF CallOk, Ready
<1>4. c.net # "done" /\ c.req \in Requests /\ c.req.flow \in Flows /\ c.age \in Nat
  BY <1>1, RedisAssumption DEF CallOk, Ready, Requests
<1> HIDE DEF x
<1>5. CheckOk(x) /\ \A s : ~ClearedFor(x, s)
  BY <1>3 DEF CheckOk, ClearedFor, Checks
<1>6. CallsChecked'
  <2> SUFFICES ASSUME NEW q \in Reqs, call'[q] # NoRequest PROVE CheckOk(call'[q])
    BY DEF CallsChecked, CheckOk, ConsultedBy
  <2>1. call'[q] = IF q = r THEN x ELSE call[q]
    BY <1>1, <1>2
  <2> QED
    BY <1>5, <2>1 DEF BoundInv, CallsChecked
<1>7. ASSUME NEW s \in Scopes, NEW k \in Keys(s)
      PROVE  InTime(s, k)' + Cardinality(Cleared(s, k)') <= Limit(s) - 1 + Cardinality(Reqs)
  <2> DEFINE W == WindowOf(s)
  <2>1. Cleared(s, k)' = Cleared(s, k) \ {r}
    BY <1>1, <1>2, <1>5 DEF Cleared
  <2>2. W \in Nat /\ W \in 0..W /\ HitsOk(overdue[s][k], told[s][k], W)
    BY WindowType DEF WindowInv, Sets
  <2>3. told'[s][k] = CASE k = KeyOf(s, c.req) /\ s \in Writes(c) -> OneMore(told[s][k], c.age)
                        [] k = KeyOf(s, c.req) /\ s \in Forgets(c) -> NoHits(s)
                        [] OTHER -> told[s][k]
    BY DEF Execute, Applied, CommandOf
  <2>4. overdue'[s][k] = IF s \in Forgets(c) /\ k = KeyOf(s, c.req) THEN NoHits(s) ELSE overdue[s][k]
    BY DEF Execute
  <2>5. ~(s \in Writes(c) /\ s \in Forgets(c))
    BY <1>4, LimitsAssumption DEF Writes, Forgets, OnSuccess, Forgotten
  <2>6. CASE k = KeyOf(s, c.req) /\ s \in Writes(c)
    <3> DEFINE i == InTime(s, k)
               j == InTime(s, k)'
               m == Cardinality(Cleared(s, k))
               n == Cardinality(Cleared(s, k)')
               N == Cardinality(Reqs)
    <3>1. r \in Cleared(s, k)
      <4>1. s \in OnFailure(c.req.flow) \cup OnSuccess(c.req.flow)
        BY <1>3, <2>6 DEF Writes
      <4> QED
        BY <1>1, <1>3, <1>4, <2>6, <4>1 DEF Cleared, ClearedFor
    <3>2. Cleared(s, k) \subseteq Reqs
      BY DEF Cleared
    <3>3. IsFiniteSet(Cleared(s, k)) /\ m \in Nat /\ N \in Nat
      BY <3>2, ClearedType
    <3>4. n = m - 1
      BY <2>1, <3>1, <3>3, FS_RemoveElement
    <3>5. told'[s][k] = OneMore(told[s][k], c.age) /\ overdue'[s][k] = overdue[s][k]
      BY <2>3, <2>4, <2>5, <2>6
    <3>6. /\ told'[s][k][W] - overdue'[s][k][W] \in Int
          /\ told'[s][k][W] - overdue'[s][k][W] <= told[s][k][W] - overdue[s][k][W] + 1
      BY <1>4, <2>2, <3>5, OneMoreDiff
    <3>7. i \in Nat
      BY InTimeType DEF WindowInv
    <3>8. i = told[s][k][W] - overdue[s][k][W] /\ j = told'[s][k][W] - overdue'[s][k][W]
      BY DEF InTime
    <3>9. i + m <= Limit(s) - 1 + N /\ Limit(s) \in Nat
      BY LimitType DEF BoundInv, Bounded
    <3> HIDE DEF i, j, m, n, N, W
    <3>10. j <= i + 1 /\ i \in Int /\ j \in Int
      BY <3>6, <3>7, <3>8
    <3>11. j + n <= Limit(s) - 1 + N
      BY <3>3, <3>4, <3>9, <3>10
    <3> QED
      BY <3>11 DEF j, n, N
  <2>7. CASE ~(k = KeyOf(s, c.req) /\ s \in Writes(c))
    <3>1. InTime(s, k) \in Nat
      BY InTimeType DEF WindowInv
    <3>2. CASE k = KeyOf(s, c.req) /\ s \in Forgets(c)
      <4>1. told'[s][k] = NoHits(s) /\ overdue'[s][k] = NoHits(s)
        BY <2>3, <2>4, <2>7, <3>2
      <4>2. NoHits(s)[W] = 0
        BY <2>2 DEF NoHits
      <4>3. InTime(s, k)' = 0
        BY <4>1, <4>2 DEF InTime
      <4>4. InTime(s, k)' <= InTime(s, k)
        BY <3>1, <4>3
      <4> QED
        BY <2>1, <4>4, NoMore DEF BoundInv, WindowInv
    <3>3. CASE ~(k = KeyOf(s, c.req) /\ s \in Forgets(c))
      <4>1. told'[s][k] = told[s][k] /\ overdue'[s][k] = overdue[s][k]
        BY <2>3, <2>4, <2>7, <3>3
      <4>2. InTime(s, k)' <= InTime(s, k)
        BY <3>1, <4>1 DEF InTime
      <4> QED
        BY <2>1, <4>2, NoMore DEF BoundInv, WindowInv
    <3> QED
      BY <3>2, <3>3
  <2> QED
    BY <2>6, <2>7
<1> QED
  BY <1>6, <1>7 DEF BoundInv, Bounded

(* A late record is overdue. *)
LEMMA LateBound ==
  ASSUME WindowInv, Sets', BoundInv, NEW r \in Reqs, LateExecute(r)
  PROVE  BoundInv'
<1> DEFINE c == late[r]
<1>1. c \in Command /\ c.age \in Nat /\ UNCHANGED call
  BY RedisAssumption DEF LateExecute, WindowInv, Lates, Command
<1>2. CallsChecked'
  BY <1>1 DEF BoundInv, CallsChecked, CheckOk, ConsultedBy
<1>3. ASSUME NEW s \in Scopes, NEW k \in Keys(s)
      PROVE  InTime(s, k)' + Cardinality(Cleared(s, k)') <= Limit(s) - 1 + Cardinality(Reqs)
  <2> DEFINE W == WindowOf(s)
  <2>1. Cleared(s, k)' = Cleared(s, k)
    BY <1>1 DEF Cleared
  <2>2. W \in Nat /\ W \in 0..W /\ HitsOk(overdue[s][k], told[s][k], W)
    BY WindowType DEF WindowInv, Sets
  <2>3. told'[s][k] = CASE k = KeyOf(s, c.req) /\ s \in c.writes -> OneMore(told[s][k], c.age)
                        [] k = KeyOf(s, c.req) /\ s \in c.forgets -> NoHits(s)
                        [] OTHER -> told[s][k]
    BY DEF LateExecute, Applied
  <2>4. overdue'[s][k] = CASE k = KeyOf(s, c.req) /\ s \in c.writes -> OneMore(overdue[s][k], c.age)
                           [] k = KeyOf(s, c.req) /\ s \in c.forgets -> NoHits(s)
                           [] OTHER -> overdue[s][k]
    BY DEF LateExecute
  <2>5. InTime(s, k) \in Nat
    BY InTimeType DEF WindowInv
  <2>6. InTime(s, k)' <= InTime(s, k)
    <3>1. CASE told'[s][k] = OneMore(told[s][k], c.age) /\ overdue'[s][k] = OneMore(overdue[s][k], c.age)
      BY <1>1, <2>2, <3>1, OneMoreDiff DEF InTime
    <3>2. CASE told'[s][k] = NoHits(s) /\ overdue'[s][k] = NoHits(s)
      <4>1. NoHits(s)[W] = 0
        BY <2>2 DEF NoHits
      <4>2. InTime(s, k)' = 0
        BY <3>2, <4>1 DEF InTime
      <4> QED
        BY <2>5, <4>2
    <3>3. CASE told'[s][k] = told[s][k] /\ overdue'[s][k] = overdue[s][k]
      BY <2>5, <3>3 DEF InTime
    <3> QED
      BY <2>3, <2>4, <3>1, <3>2, <3>3
  <2> QED
    BY <2>1, <2>6, NoMore DEF BoundInv, WindowInv
<1> QED
  BY <1>2, <1>3 DEF BoundInv, Bounded

(* Time takes records out of the window. *)
LEMMA TickBound ==
  ASSUME WindowInv, Sets', BoundInv, Tick
  PROVE  BoundInv'
<1>1. ASSUME NEW r \in Reqs
      PROVE  /\ call'[r] # NoRequest => call[r] # NoRequest
             /\ call'[r] # NoRequest =>
                  /\ call'[r].doing = call[r].doing /\ call'[r].net = call[r].net
                  /\ call'[r].req = call[r].req /\ call'[r].left = call[r].left
                  /\ call'[r].ok = call[r].ok
  <2>1. call'[r] = IF call[r] # NoRequest /\ call[r].net # "none"
                   THEN [call[r] EXCEPT !.spent = @ + 1,
                                        !.age = IF call[r].net = "timed" THEN @ + 1 ELSE 0]
                   ELSE call[r]
    BY DEF Tick
  <2>2. CASE call[r] # NoRequest /\ call[r].net # "none"
    <3>1. {"doing", "net", "left", "age", "spent", "ok", "from", "req"} \subseteq DOMAIN call[r]
      BY <2>2 DEF WindowInv, OwnCalls, CallOk
    <3> QED
      BY <2>1, <2>2, <3>1
  <2> QED
    BY <2>1, <2>2
<1>2. ASSUME NEW r \in Reqs, call'[r] # NoRequest, NEW s
      PROVE  (ClearedFor(call'[r], s) => ClearedFor(call[r], s)) /\ (CheckOk(call[r]) => CheckOk(call'[r]))
  <2>1. /\ call'[r].doing = call[r].doing /\ call'[r].net = call[r].net
        /\ call'[r].req = call[r].req /\ call'[r].left = call[r].left
        /\ call'[r].ok = call[r].ok
    BY <1>1, <1>2
  <2>2. ConsultedBy(call'[r]) = ConsultedBy(call[r])
    BY <2>1 DEF ConsultedBy
  <2> QED
    BY <2>1, <2>2 DEF ClearedFor, CheckOk
<1>3. CallsChecked'
  <2> SUFFICES ASSUME NEW q \in Reqs, call'[q] # NoRequest PROVE CheckOk(call'[q])
    BY DEF CallsChecked, CheckOk, ConsultedBy
  <2> QED
    BY <1>1, <1>2 DEF BoundInv, CallsChecked
<1>4. ASSUME NEW s \in Scopes, NEW k \in Keys(s)
      PROVE  InTime(s, k)' + Cardinality(Cleared(s, k)') <= Limit(s) - 1 + Cardinality(Reqs)
  <2> DEFINE W == WindowOf(s)
  <2>1. Cleared(s, k)' \subseteq Cleared(s, k)
    <3> SUFFICES ASSUME NEW r \in Reqs, call'[r] # NoRequest, ClearedFor(call'[r], s),
                        KeyOf(s, call'[r].req) = k
                 PROVE  r \in Cleared(s, k)
      BY DEF Cleared, ClearedFor, ConsultedBy
    <3> QED
      BY <1>1, <1>2 DEF Cleared
  <2>2. W \in Nat /\ W # 0 /\ W - 1 \in 0..W /\ W \in 0..W /\ W - 1 <= W
        /\ HitsOk(overdue[s][k], told[s][k], W)
    BY WindowType DEF WindowInv, Sets
  <2>3. told'[s][k] = AgedHits(told[s][k]) /\ overdue'[s][k] = AgedHits(overdue[s][k])
    BY DEF Tick
  <2>4. InTime(s, k)' <= InTime(s, k)
    BY <2>2, <2>3, AgedDiff DEF InTime
  <2> QED
    BY <2>1, <2>4, NoMore DEF BoundInv, WindowInv
<1> QED
  BY <1>3, <1>4 DEF BoundInv, Bounded

LEMMA BoundInit == WindowInv /\ Init => BoundInv
<1> SUFFICES ASSUME WindowInv, Init PROVE BoundInv
  OBVIOUS
<1>1. CallsChecked
  BY DEF Init, CallsChecked
<1>2. ASSUME NEW s \in Scopes, NEW k \in Keys(s)
      PROVE  InTime(s, k) + Cardinality(Cleared(s, k)) <= Limit(s) - 1 + Cardinality(Reqs)
  <2>1. Cleared(s, k) = {}
    BY DEF Init, Cleared
  <2>2. Cardinality(Cleared(s, k)) = 0
    BY <2>1, FS_EmptySet
  <2>3. InTime(s, k) = 0
    BY WindowType DEF Init, InTime, NoHits
  <2>4. Cardinality(Reqs) \in Nat /\ Limit(s) \in Nat \ {0}
    BY ClearedType, LimitType
  <2> QED
    BY <2>2, <2>3, <2>4
<1> QED
  BY <1>1, <1>2 DEF BoundInv, Bounded

LEMMA BoundNext ==
  ASSUME Policy = "fail_closed"
  PROVE  WindowInv /\ WindowInv' /\ BoundInv /\ [Next]_vars => BoundInv'
<1> SUFFICES ASSUME WindowInv, WindowInv', BoundInv, [Next]_vars PROVE BoundInv'
  OBVIOUS
<1>0. Sets /\ Sets' /\ DOMAIN call = Reqs
  BY DEF WindowInv, OwnCalls
<1>1. ASSUME NEW r \in Reqs, call[r] # NoRequest PROVE CallOk(call[r]) /\ CheckOk(call[r])
  BY <1>1 DEF WindowInv, OwnCalls, BoundInv, CallsChecked
<1>2. ASSUME NEW r \in Reqs, Start(r) PROVE BoundInv'
  <2>1. PICK flow \in Flows, email \in Emails, from \in IPs : \E ip \in AddressesOf[from] :
          Enter(r, [doing |-> "check", net |-> "none", left |-> {}, age |-> 0,
                    spent |-> 0, ok |-> TRUE, from |-> from,
                    req |-> [flow |-> flow, email |-> email, ip |-> ip]],
                breaker[WorkerOf[r]])
    BY <1>2 DEF Start
  <2> DEFINE c == [doing |-> "check", net |-> "none", left |-> {}, age |-> 0,
                   spent |-> 0, ok |-> TRUE, from |-> from,
                   req |-> [flow |-> flow, email |-> email, ip |-> from]]
  <2>2. Enter(r, c, breaker[WorkerOf[r]])
    BY <2>1, OwnAddress
  <2>3. CallOk(c) /\ c.doing = "check"
    BY RedisAssumption DEF CallOk, Checks, Requests
  <2> HIDE DEF c
  <2>4. UNCHANGED <<told, overdue>>
    BY <1>2 DEF Start
  <2> QED
    BY <1>0, <2>2, <2>3, <2>4, EnterBound
<1>3. ASSUME NEW r \in Reqs, ReadTime(r) PROVE BoundInv'
  <2> DEFINE c == call[r]
             x == [c EXCEPT !.net = "timed", !.left = ConsultedBy(c)]
  <2>1. CallOk(c) /\ CheckOk(c) /\ c # NoRequest /\ c.net = "start"
    BY <1>1, <1>3 DEF ReadTime
  <2>2. call' = [call EXCEPT ![r] = x]
    BY <1>0, <1>3 DEF ReadTime
  <2>3. /\ x.doing = c.doing /\ x.req = c.req /\ x.net = "timed" /\ x.left = ConsultedBy(c)
        /\ x.ok = c.ok
    BY <2>1 DEF CallOk
  <2>4. UNCHANGED <<told, overdue>>
    BY <1>3 DEF ReadTime
  <2> HIDE DEF x
  <2>5. ConsultedBy(x) = ConsultedBy(c)
    BY <2>3 DEF ConsultedBy
  <2>6. c.doing \in Checks => ConsultedBy(c) # {}
    <3>1. c.req.flow \in Flows
      BY <2>1 DEF CallOk, Requests
    <3>2. Consulted(c.req.flow) # {}
      BY <3>1, LimitsAssumption DEF Consulted
    <3> QED
      BY <2>1, <3>2 DEF CheckOk, Checks, ConsultedBy
  <2>7. CheckOk(x)
    BY <2>1, <2>3, <2>5, <2>6 DEF CheckOk
  <2>8. \A s \in Scopes : ClearedFor(x, s) => ClearedFor(c, s)
    BY <2>1, <2>3, <2>5 DEF ClearedFor
  <2> QED
    BY <1>0, <2>1, <2>2, <2>3, <2>4, <2>7, <2>8, QuietCall
<1>4. ASSUME NEW r \in Reqs, Count(r) PROVE BoundInv'
  BY <1>0, <1>4, CountBound
<1>5. ASSUME NEW r \in Reqs, Execute(r) PROVE BoundInv'
  BY <1>0, <1>5, ExecuteBound
<1>6. ASSUME NEW r \in Reqs, Answer(r) PROVE BoundInv'
  <2>1. CallOk(call[r]) /\ call[r] # NoRequest /\ call[r].net = "done"
    BY <1>1, <1>6 DEF Answer
  <2>2. /\ UNCHANGED <<told, overdue>>
        /\ Finish(r, call[r], MarkSuccess(breaker[WorkerOf[r]]), call[r].ok)
    BY <1>6 DEF Answer
  <2> QED
    BY <1>0, <2>1, <2>2, FinishBound
<1>7. ASSUME NEW r \in Reqs, Break(r) \/ PoolExhausted(r) PROVE BoundInv'
  <2>1. CallOk(call[r]) /\ call[r] # NoRequest
    BY <1>1, <1>7 DEF Break, PoolExhausted
  <2>2. PICK b : Finish(r, call[r], b, Unavailable)
    BY <1>7 DEF Break, PoolExhausted
  <2>3. UNCHANGED <<told, overdue>> /\ ~Unavailable
    BY <1>7 DEF Break, PoolExhausted, Unavailable
  <2> QED
    BY <1>0, <2>1, <2>2, <2>3, FinishBound
<1>8. ASSUME NEW r \in Reqs, LateExecute(r) PROVE BoundInv'
  BY <1>0, <1>8, LateBound
<1>9. ASSUME UNCHANGED <<told, overdue, call>> PROVE BoundInv'
  BY <1>9 DEF BoundInv, CallsChecked, CheckOk, Bounded, InTime, Cleared, ClearedFor, ConsultedBy
<1>10. ASSUME NEW r \in Reqs, LateLost(r) PROVE BoundInv'
  BY <1>9, <1>10 DEF LateLost
<1>11. ASSUME NEW r \in Reqs, Fail(r) \/ Succeed(r) \/ Leave(r) PROVE BoundInv'
  <2> DEFINE c == call[r]
  <2>1. /\ CallOk(c) /\ c # NoRequest /\ c.doing = "work" /\ c.net # "done"
        /\ UNCHANGED <<told, overdue>>
    BY <1>1, <1>11 DEF Fail, Succeed, Leave, CheckOk
  <2>2. ASSUME NEW doing \in {"fail", "succeed"},
               Enter(r, [c EXCEPT !.doing = doing], breaker[WorkerOf[r]])
        PROVE  BoundInv'
    <3> DEFINE d == [c EXCEPT !.doing = doing]
    <3>1. CallOk(d) /\ d.req = c.req /\ d.doing = doing
      BY <2>1, DoingOk DEF CallOk
    <3>2. Enter(r, d, breaker[WorkerOf[r]])
      BY <2>2
    <3> HIDE DEF d
    <3>3. \A s \in Scopes : s \in OnFailure(d.req.flow) \cup OnSuccess(d.req.flow) => ClearedFor(c, s)
      BY <2>1, <2>2, <3>1 DEF ClearedFor
    <3> QED
      BY <1>0, <2>1, <3>1, <3>2, <3>3, EnterBound
  <2>3. CASE call' = [call EXCEPT ![r] = NoRequest]
    BY <1>0, <2>1, <2>3, QuietCall
  <2>4. \/ call' = [call EXCEPT ![r] = NoRequest]
        \/ Enter(r, [c EXCEPT !.doing = "fail"], breaker[WorkerOf[r]])
        \/ Enter(r, [c EXCEPT !.doing = "succeed"], breaker[WorkerOf[r]])
    BY <1>11 DEF Fail, Succeed, Leave
  <2> QED
    BY <2>2, <2>3, <2>4
<1>12. CASE Tick
  BY <1>0, <1>12, TickBound
<1>13. CASE UNCHANGED vars
  BY <1>9, <1>13 DEF vars
<1> QED
  BY <1>2, <1>3, <1>4, <1>5, <1>6, <1>7, <1>8, <1>10, <1>11, <1>12, <1>13 DEF Next, Serve

(* With fail_closed, n concurrent requests exceed a limit by at most n - 1 *)
(* records, whatever fails and however the counts of a pipeline interleave *)
(* with the records of others; only commands that arrive after their       *)
(* deadline come on top.                                                    *)
THEOREM OvershootIsBounded == Spec => []Overshoot
<1>1. CASE Policy = "fail_closed"
  <2>1. WindowInv /\ BoundInv => Overshoot
    <3> SUFFICES ASSUME WindowInv, BoundInv, NEW s \in Scopes, NEW k \in Keys(s)
                 PROVE  InTime(s, k) + Cardinality(InFlight(s, k)) <= Limit(s) - 1 + Cardinality(Reqs)
      BY DEF Overshoot, InTime
    <3> DEFINE m == Cardinality(Cleared(s, k))
               n == Cardinality(InFlight(s, k))
               N == Cardinality(Reqs)
    <3>1. InFlight(s, k) \subseteq Cleared(s, k) /\ Cleared(s, k) \subseteq Reqs
      BY DEF InFlight, Cleared, ClearedFor
    <3>2. m \in Nat /\ n \in Nat /\ N \in Nat /\ n <= m
      BY <3>1, ClearedType, FS_Subset
    <3>3. InTime(s, k) \in Nat /\ Limit(s) \in Nat /\ InTime(s, k) + m <= Limit(s) - 1 + N
      BY InTimeType, LimitType DEF WindowInv, BoundInv, Bounded
    <3> HIDE DEF m, n, N
    <3>4. InTime(s, k) + n <= Limit(s) - 1 + N
      BY <3>2, <3>3
    <3> QED
      BY <3>4 DEF n, N
  <2>2. WindowInv /\ WindowInv' /\ BoundInv /\ [Next]_vars => BoundInv'
    BY <1>1, BoundNext
  <2> QED
    BY <2>1, <2>2, BoundInit, WindowAlways, PTL DEF Spec
<1>2. CASE Policy # "fail_closed"
  <2>1. Overshoot
    BY <1>2 DEF Overshoot
  <2> QED
    BY <2>1, PTL
<1> QED
  BY <1>1, <1>2
=============================================================================
