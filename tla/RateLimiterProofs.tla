------------------------- MODULE RateLimiterProofs -------------------------
(***************************************************************************)
(* The ordered dictionary implements the sliding window, for all caps,     *)
(* windows, limits, key sets and numbers of requests; check-then-record    *)
(* exceeds a limit by a bounded number of records.                         *)
(***************************************************************************)
EXTENDS RateLimiter, FiniteSetTheorems, SequenceTheorems, NaturalsInduction, TLAPS

-----------------------------------------------------------------------------
(* The promise counts, keys and limits as the limiter does. *)

\* The cardinality of the promise is the cardinality.
LEMMA SameCardinality == ASSUME NEW S PROVE Promise!Cardinality(S) = Cardinality(S)
  BY DEF Promise!Cardinality, Cardinality

\* So are its scopes, requests, keys, windows and limits.
LEMMA SameLimits ==
  /\ Promise!Scopes = Scopes /\ Promise!Requests = Requests
  /\ \A s : Promise!Keys(s) = Keys(s)
  /\ \A s, q : Promise!KeyOf(s, q) = KeyOf(s, q)
  /\ \A s : Promise!WindowOf(s) = WindowOf(s)
  /\ \A s : Promise!Limit(s) = Limit(s)
  BY Zenon DEF Promise!Scopes, Scopes, Promise!Requests, Requests, Promise!Keys, Keys,
         Promise!KeyOf, KeyOf, Promise!WindowOf, WindowOf, Promise!Limit, Limit

\* And what a flow consults and writes.
LEMMA SameFlows ==
  ASSUME NEW f
  PROVE  /\ Promise!Consulted(f) = Consulted(f)
         /\ Promise!ConsultedNext(f) = ConsultedNext(f)
         /\ Promise!OnFailure(f) = OnFailure(f)
         /\ Promise!OnSuccess(f) = OnSuccess(f)
         /\ Promise!Forgotten(f) = Forgotten(f)
  BY Zenon DEF Promise!Consulted, Consulted, Promise!ConsultedNext, ConsultedNext,
         Promise!OnFailure, OnFailure, Promise!OnSuccess, OnSuccess, Promise!Forgotten, Forgotten

-----------------------------------------------------------------------------
(* Deques. *)

\* Times up to t, oldest first.
Past(q, t) ==
  /\ q \in Seq(Nat)
  /\ \A i \in 1..Len(q) : q[i] <= t
  /\ \A i, j \in 1..Len(q) : i < j => q[i] <= q[j]

\* The deque without its n first records.
Cut(q, n) == SubSeq(q, n + 1, Len(q))

\* What a cut deque holds.
LEMMA CutIs ==
  ASSUME NEW S, NEW q \in Seq(S), NEW n \in 0..Len(q)
  PROVE  /\ Cut(q, n) \in Seq(S)
         /\ Len(Cut(q, n)) = Len(q) - n
         /\ \A i \in 1..(Len(q) - n) : Cut(q, n)[i] = q[n + i]
         /\ Cut(q, n) = <<>> <=> n = Len(q)
  BY DEF Cut

\* A set of naturals that is not empty has a least member.
LEMMA LeastOne ==
  ASSUME NEW S \in SUBSET Nat, S # {}
  PROVE  \E m \in S : \A j \in S : m <= j
<1>1. \E x \in S : \A y \in S : ~(<<y, x>> \in OpToRel(<, Nat))
  BY NatLessThanWellFounded, WFMin
<1>2. PICK x \in S : \A y \in S : ~(y < x)
  BY <1>1 DEF OpToRel
<1> QED BY <1>2

\* Min is that member.
LEMMA MinIs ==
  ASSUME NEW S \in SUBSET Nat, NEW m \in S, \A j \in S : m <= j
  PROVE  Min(S) = m
<1>1. \A x \in S : (\A y \in S : x <= y) => x = m
  OBVIOUS
<1> QED BY <1>1 DEF Min

\* The expired records are the first ones.
LEMMA Split ==
  ASSUME NEW t0, NEW q, Past(q, t0), NEW w \in Nat, NEW t \in Nat
  PROVE  \E n \in 0..Len(q) : \A i \in 1..Len(q) : t - q[i] <= w <=> i > n
<1>0. q \in Seq(Nat) /\ Len(q) \in Nat /\ \A i \in 1..Len(q) : q[i] \in Nat
  BY DEF Past
<1>1. CASE Live(q, w, t) = {}
  <2>1. \A i \in 1..Len(q) : ~(t - q[i] <= w)
    BY <1>0, <1>1 DEF Live
  <2> WITNESS Len(q) \in 0..Len(q)
  <2> QED BY <1>0, <2>1
<1>2. CASE Live(q, w, t) # {}
  <2>1. Live(q, w, t) \in SUBSET Nat /\ Live(q, w, t) \in SUBSET (1..Len(q))
    BY <1>0 DEF Live
  <2>2. PICK m \in Live(q, w, t) : \A j \in Live(q, w, t) : m <= j
    BY <1>2, <2>1, LeastOne
  <2>3. m \in 1..Len(q) /\ t - q[m] <= w
    BY <1>0, <2>2 DEF Live
  <2>4. ASSUME NEW i \in 1..Len(q) PROVE t - q[i] <= w <=> i > m - 1
    <3>1. t - q[i] <= w => m <= i
      BY <1>0, <2>2 DEF Live
    <3>2. i > m => q[m] <= q[i]
      BY <2>3 DEF Past
    <3> QED BY <1>0, <2>3, <3>1, <3>2
  <2>5. m - 1 \in 0..Len(q)
    BY <1>0, <2>3
  <2> WITNESS m - 1 \in 0..Len(q)
  <2> QED BY <2>4
<1> QED BY <1>1, <1>2

\* Both _trim and the promised window cut off exactly the expired records.
LEMMA TrimBy ==
  ASSUME NEW q \in Seq(Nat), NEW w \in Nat, NEW t \in Nat, NEW n \in 0..Len(q),
         \A i \in 1..Len(q) : t - q[i] <= w <=> i > n
  PROVE  Trim(q, w, t) = Cut(q, n) /\ Promise!Recent(q, w, t) = Cut(q, n)
<1>0. DOMAIN q = 1..Len(q) /\ Len(q) \in Nat /\ \A i \in 1..Len(q) : q[i] \in Nat
  OBVIOUS
<1>1. Trim(q, w, t) = Cut(q, n)
  <2>1. CASE n = Len(q)
    <3>1. Live(q, w, t) = {}
      BY <1>0, <2>1 DEF Live
    <3> QED BY <2>1, <3>1, CutIs DEF Trim
  <2>2. CASE n < Len(q)
    <3>1. n + 1 \in Live(q, w, t)
      BY <1>0, <2>2 DEF Live
    <3>2. Live(q, w, t) \in SUBSET Nat /\ \A j \in Live(q, w, t) : n + 1 <= j
      BY <1>0 DEF Live
    <3>3. Min(Live(q, w, t)) = n + 1
      BY <3>1, <3>2, MinIs
    <3> QED BY <3>1, <3>3 DEF Trim, Cut
  <2> QED BY <2>1, <2>2
<1>2. {i \in DOMAIN q : t - q[i] > w} = 1..n
  BY <1>0
<1>3. Cardinality(1..n) = n
  BY FS_Interval
<1> QED BY <1>1, <1>2, <1>3, SameCardinality DEF Cut, Promise!Recent

\* Trimming as a cut, with the number of expired records.
LEMMA TrimIs ==
  ASSUME NEW t0, NEW q, Past(q, t0), NEW w \in Nat, NEW t \in Nat
  PROVE  \E n \in 0..Len(q) : /\ \A i \in 1..Len(q) : t - q[i] <= w <=> i > n
                              /\ Trim(q, w, t) = Cut(q, n)
                              /\ Promise!Recent(q, w, t) = Cut(q, n)
<1>1. PICK n \in 0..Len(q) : \A i \in 1..Len(q) : t - q[i] <= w <=> i > n
  BY Split
<1>2. q \in Seq(Nat)
  BY DEF Past
<1>3. Trim(q, w, t) = Cut(q, n) /\ Promise!Recent(q, w, t) = Cut(q, n)
  BY <1>1, <1>2, TrimBy
<1> QED BY <1>1, <1>3

\* A trimmed deque is a deque; it is empty when the latest record has expired, and
\* otherwise keeps it.
LEMMA TrimKeeps ==
  ASSUME NEW t0, NEW q, Past(q, t0), NEW w \in Nat, NEW t \in Nat
  PROVE  /\ Past(Trim(q, w, t), t0)
         /\ Trim(q, w, t) = <<>> <=> q = <<>> \/ t - q[Len(q)] > w
         /\ Trim(q, w, t) # <<>> => Trim(q, w, t)[Len(Trim(q, w, t))] = q[Len(q)]
         /\ Trim(q, w, t) = <<>> <=> Live(q, w, t) = {}
<1>1. PICK n \in 0..Len(q) : /\ \A i \in 1..Len(q) : t - q[i] <= w <=> i > n
                             /\ Trim(q, w, t) = Cut(q, n)
  BY TrimIs
<1>2. q \in Seq(Nat) /\ Len(q) \in Nat /\ \A i \in 1..Len(q) : q[i] \in Nat
  BY DEF Past
<1>3. /\ Cut(q, n) \in Seq(Nat)
      /\ Len(Cut(q, n)) = Len(q) - n
      /\ \A i \in 1..(Len(q) - n) : Cut(q, n)[i] = q[n + i]
      /\ Cut(q, n) = <<>> <=> n = Len(q)
  BY <1>2, CutIs
<1> DEFINE c == Cut(q, n)
<1> HIDE DEF c
<1>4. Past(c, t0)
  <2>0. /\ c \in Seq(Nat) /\ Len(c) = Len(q) - n
        /\ \A i \in 1..(Len(q) - n) : c[i] = q[n + i]
    BY <1>3 DEF c
  <2>1. \A i \in 1..Len(c) : n + i \in 1..Len(q) /\ c[i] = q[n + i]
    BY <1>2, <2>0
  <2>2. \A i, j \in 1..Len(c) : i < j => n + i < n + j
    BY <2>0
  <2> QED BY <2>0, <2>1, <2>2 DEF Past
<1>5. q # <<>> => Len(q) \in 1..Len(q)
  BY <1>2
<1>6. Cut(q, n) = <<>> <=> q = <<>> \/ t - q[Len(q)] > w
  <2>1. q = <<>> <=> Len(q) = 0
    BY <1>2
  <2>2. q # <<>> => (t - q[Len(q)] <= w <=> Len(q) > n)
    BY <1>1, <1>5
  <2>3. q # <<>> => t - q[Len(q)] \in Int
    BY <1>2, <1>5
  <2> QED BY <1>2, <1>3, <2>1, <2>2, <2>3
<1>7. Cut(q, n) # <<>> => Cut(q, n)[Len(Cut(q, n))] = q[Len(q)]
  BY <1>2, <1>3
<1>8. Cut(q, n) = <<>> <=> Live(q, w, t) = {}
  <2>1. Live(q, w, t) = {i \in 1..Len(q) : i > n}
    BY <1>1, <1>2 DEF Live
  <2>2. {i \in 1..Len(q) : i > n} = {} <=> n = Len(q)
    <3>1. n # Len(q) => n + 1 \in {i \in 1..Len(q) : i > n}
      BY <1>2
    <3> QED BY <1>2, <3>1
  <2> QED BY <1>3, <2>1, <2>2
<1> QED BY <1>1, <1>4, <1>6, <1>7, <1>8 DEF c

\* Trimming early changes nothing later.
LEMMA TrimTwice ==
  ASSUME NEW t0, NEW q, Past(q, t0), NEW w \in Nat, NEW t \in Nat, NEW u \in Nat, t <= u
  PROVE  /\ Trim(Trim(q, w, t), w, u) = Trim(q, w, u)
         /\ Promise!Recent(Trim(q, w, t), w, u) = Trim(q, w, u)
<1>1. PICK n \in 0..Len(q) : /\ \A i \in 1..Len(q) : t - q[i] <= w <=> i > n
                             /\ Trim(q, w, t) = Cut(q, n)
  BY TrimIs
<1>2. PICK m \in 0..Len(q) : /\ \A i \in 1..Len(q) : u - q[i] <= w <=> i > m
                             /\ Trim(q, w, u) = Cut(q, m)
  BY TrimIs
<1>3. q \in Seq(Nat) /\ Len(q) \in Nat /\ \A i \in 1..Len(q) : q[i] \in Nat
  BY DEF Past
<1>4. n <= m
  <2> SUFFICES ASSUME m < n PROVE FALSE
    OBVIOUS
  <2>1. n \in 1..Len(q) /\ n > m
    BY <1>3
  <2>2. u - q[n] <= w /\ ~(t - q[n] <= w)
    BY <1>1, <1>2, <2>1
  <2> QED BY <1>3, <2>1, <2>2
<1> DEFINE c == Cut(q, n)
<1>5. /\ c \in Seq(Nat) /\ Len(c) = Len(q) - n
      /\ \A i \in 1..(Len(q) - n) : c[i] = q[n + i]
  BY <1>3, CutIs
<1>6. m - n \in 0..Len(c)
  BY <1>3, <1>4, <1>5
<1> HIDE DEF c
<1>7. \A i \in 1..Len(c) : u - c[i] <= w <=> i > m - n
  <2> SUFFICES ASSUME NEW i \in 1..Len(c) PROVE u - c[i] <= w <=> i > m - n
    OBVIOUS
  <2>1. n + i \in 1..Len(q) /\ c[i] = q[n + i]
    BY <1>3, <1>5
  <2>2. u - q[n + i] <= w <=> n + i > m
    BY <1>2, <2>1
  <2> QED BY <1>3, <2>1, <2>2
<1>8. Trim(c, w, u) = Cut(c, m - n) /\ Promise!Recent(c, w, u) = Cut(c, m - n)
  BY <1>5, <1>6, <1>7, TrimBy
<1>9. Cut(c, m - n) = Cut(q, m)
  <2>1. /\ Cut(c, m - n) \in Seq(Nat) /\ Len(Cut(c, m - n)) = Len(c) - (m - n)
        /\ \A i \in 1..(Len(c) - (m - n)) : Cut(c, m - n)[i] = c[(m - n) + i]
    BY <1>5, <1>6, CutIs
  <2>2. /\ Cut(q, m) \in Seq(Nat) /\ Len(Cut(q, m)) = Len(q) - m
        /\ \A i \in 1..(Len(q) - m) : Cut(q, m)[i] = q[m + i]
    BY <1>3, CutIs
  <2>3. \A i \in 1..(Len(q) - m) : c[(m - n) + i] = q[m + i]
    BY <1>3, <1>4, <1>5
  <2>4. Len(c) - (m - n) = Len(q) - m
    BY <1>3, <1>5
  <2> QED BY <2>1, <2>2, <2>3, <2>4, SeqEqual
<1> QED BY <1>1, <1>2, <1>8, <1>9 DEF c

\* A record of this instant is live.
LEMMA TrimAppend ==
  ASSUME NEW t \in Nat, NEW q, Past(q, t), NEW w \in Nat
  PROVE  Past(Append(q, t), t) /\ Trim(Append(q, t), w, t) = Append(Trim(q, w, t), t)
<1>1. PICK n \in 0..Len(q) : /\ \A i \in 1..Len(q) : t - q[i] <= w <=> i > n
                             /\ Trim(q, w, t) = Cut(q, n)
  BY TrimIs
<1>2. q \in Seq(Nat) /\ Len(q) \in Nat /\ \A i \in 1..Len(q) : q[i] \in Nat
  BY DEF Past
<1> DEFINE a == Append(q, t)
<1>3. /\ a \in Seq(Nat) /\ Len(a) = Len(q) + 1 /\ a[Len(q) + 1] = t
      /\ \A i \in 1..Len(q) : a[i] = q[i]
  BY <1>2
<1> HIDE DEF a
<1>4. Past(a, t)
  <2>1. \A i \in 1..Len(a) : a[i] <= t
    BY <1>2, <1>3 DEF Past
  <2>2. ASSUME NEW i \in 1..Len(a), NEW j \in 1..Len(a), i < j PROVE a[i] <= a[j]
    <3>1. i \in 1..Len(q) /\ a[i] = q[i]
      BY <1>2, <1>3, <2>2
    <3>2. CASE j = Len(q) + 1
      BY <1>3, <2>1, <3>2
    <3>3. CASE j \in 1..Len(q)
      BY <1>3, <2>2, <3>1, <3>3 DEF Past
    <3> QED BY <1>2, <1>3, <3>2, <3>3
  <2> QED BY <1>3, <2>1, <2>2 DEF Past
<1>5. ASSUME NEW i \in 1..Len(a) PROVE t - a[i] <= w <=> i > n
  <2>1. CASE i = Len(q) + 1
    BY <1>2, <1>3, <2>1
  <2>2. CASE i \in 1..Len(q)
    BY <1>1, <1>3, <2>2
  <2> QED BY <1>2, <1>3, <2>1, <2>2
<1>6. n \in 0..Len(a)
  BY <1>2, <1>3
<1>7. Trim(a, w, t) = Cut(a, n)
  BY <1>3, <1>5, <1>6, TrimBy
<1>8. Cut(a, n) = Append(Cut(q, n), t)
  <2>1. /\ Cut(a, n) \in Seq(Nat) /\ Len(Cut(a, n)) = Len(a) - n
        /\ \A i \in 1..(Len(a) - n) : Cut(a, n)[i] = a[n + i]
    BY <1>3, <1>6, CutIs
  <2>2. /\ Cut(q, n) \in Seq(Nat) /\ Len(Cut(q, n)) = Len(q) - n
        /\ \A i \in 1..(Len(q) - n) : Cut(q, n)[i] = q[n + i]
    BY <1>2, CutIs
  <2>3. /\ Append(Cut(q, n), t) \in Seq(Nat) /\ Len(Append(Cut(q, n), t)) = Len(a) - n
        /\ \A i \in 1..(Len(q) - n) : Append(Cut(q, n), t)[i] = q[n + i]
        /\ Append(Cut(q, n), t)[Len(q) - n + 1] = t
    BY <1>2, <1>3, <2>2
  <2>4. \A i \in 1..(Len(a) - n) : Append(Cut(q, n), t)[i] = a[n + i]
    <3> SUFFICES ASSUME NEW i \in 1..(Len(a) - n) PROVE Append(Cut(q, n), t)[i] = a[n + i]
      OBVIOUS
    <3>1. CASE i = Len(q) - n + 1
      BY <1>2, <1>3, <2>3, <3>1
    <3>2. CASE i \in 1..(Len(q) - n)
      <4>1. n + i \in 1..Len(q)
        BY <1>2, <3>2
      <4> QED BY <1>3, <2>3, <3>2, <4>1
    <3>3. i = Len(q) - n + 1 \/ i \in 1..(Len(q) - n)
      BY <1>2, <1>3
    <3> QED BY <3>1, <3>2, <3>3
  <2> QED BY <2>1, <2>3, <2>4, SeqEqual
<1> QED BY <1>1, <1>4, <1>7, <1>8 DEF a

\* There is nothing to trim in an empty deque.
LEMMA TrimEmpty ==
  ASSUME NEW w, NEW t
  PROVE  Trim(<<>>, w, t) = <<>> /\ Past(<<>>, t)
  BY DEF Trim, Live, Past

-----------------------------------------------------------------------------
(* Dictionaries. *)

\* No key stands twice.
Once(o) == \A i, j \in 1..Len(o) : o[i] = o[j] => i = j

\* Key k stands in the order.
Stands(o, k) == \E i \in 1..Len(o) : o[i] = k

Latest(q) == q[Len(q)]

\* The keys stand in the order of their latest record.
Oldest(o, h) == \A i, j \in 1..Len(o) : i < j => Latest(h[o[i]]) <= Latest(h[o[j]])

\* What holds of every bucket dictionary at time t.
DictOk(b, K, t) ==
  /\ b \in [order : Seq(K), hits : [K -> Seq(Nat)]]
  /\ Once(b.order)
  /\ \A k \in K : b.hits[k] # <<>> <=> Stands(b.order, k)
  /\ \A k \in K : Past(b.hits[k], t)
  /\ Oldest(b.order, b.hits)
  /\ Len(b.order) <= Cap

\* Dictionary d is b with deque q for key k.
Touched(b, d, k, q, K) ==
  /\ d.hits[k] = q
  /\ \A x \in K : x # k => d.hits[x] = b.hits[x]
  /\ d.order = IF q = <<>> THEN RemoveFirst(b.order, k) ELSE b.order
  /\ Len(d.order) = IF q = <<>> /\ Stands(b.order, k) THEN Len(b.order) - 1 ELSE Len(b.order)

\* The live records of a dictionary.
View(b, K, w, t) == [k \in K |-> Trim(b.hits[k], w, t)]

Foremost(b) == b.order[1]

Full(b) == Len(b.order) = Cap

\* No bucket has expired.
AllLive(b, K, w, t) == \A x \in K : Stands(b.order, x) => View(b, K, w, t)[x] # <<>>

\* Removing the element at position p moves up the ones after it.
LEMMA RemoveAtIs ==
  ASSUME NEW K, NEW o \in Seq(K), NEW p \in 1..Len(o)
  PROVE  /\ RemoveAt(o, p) \in Seq(K)
         /\ Len(RemoveAt(o, p)) = Len(o) - 1
         /\ \A i \in 1..(Len(o) - 1) : RemoveAt(o, p)[i] = IF i < p THEN o[i] ELSE o[i + 1]
<1> DEFINE x == SubSeq(o, 1, p - 1)
           y == SubSeq(o, p + 1, Len(o))
<1>1. /\ x \in Seq(K) /\ Len(x) = p - 1
      /\ \A i \in 1..(p - 1) : x[i] = o[i]
  OBVIOUS
<1>2. /\ y \in Seq(K) /\ Len(y) = Len(o) - p
      /\ \A i \in 1..(Len(o) - p) : y[i] = o[p + i]
  OBVIOUS
<1> HIDE DEF x, y
<1>3. /\ x \o y \in Seq(K) /\ Len(x \o y) = Len(x) + Len(y)
      /\ \A i \in 1..(Len(x) + Len(y)) : (x \o y)[i] = IF i <= Len(x) THEN x[i]
                                                      ELSE y[i - Len(x)]
  BY <1>1, <1>2, ConcatProperties
<1>4. ASSUME NEW i \in 1..(Len(o) - 1)
      PROVE  (x \o y)[i] = IF i < p THEN o[i] ELSE o[i + 1]
  <2>1. CASE i < p
    BY <1>1, <1>2, <1>3, <2>1
  <2>2. CASE ~(i < p)
    <3>1. i - Len(x) \in 1..(Len(o) - p) /\ p + (i - Len(x)) = i + 1
      BY <1>1, <2>2
    <3>2. (x \o y)[i] = y[i - Len(x)]
      BY <1>1, <1>2, <1>3, <2>2
    <3> QED BY <1>2, <2>2, <3>1, <3>2
  <2> QED BY <2>1, <2>2
<1>5. Len(x \o y) = Len(o) - 1
  BY <1>1, <1>2, <1>3
<1>6. RemoveAt(o, p) = x \o y
  BY DEF RemoveAt, x, y
<1> QED BY <1>3, <1>4, <1>5, <1>6

\* Taking a key out of the order leaves the others in theirs.
LEMMA RemoveIs ==
  ASSUME NEW K, NEW o \in Seq(K), Once(o), NEW k
  PROVE  /\ RemoveFirst(o, k) \in Seq(K)
         /\ Once(RemoveFirst(o, k))
         /\ \A x : Stands(RemoveFirst(o, k), x) <=> Stands(o, x) /\ x # k
         /\ \A i, j \in 1..Len(RemoveFirst(o, k)) : i < j =>
              \E m, n \in 1..Len(o) : /\ m < n /\ RemoveFirst(o, k)[i] = o[m]
                                      /\ RemoveFirst(o, k)[j] = o[n]
         /\ Len(RemoveFirst(o, k)) = IF Stands(o, k) THEN Len(o) - 1 ELSE Len(o)
<1> DEFINE r == RemoveFirst(o, k)
<1>1. CASE ~Stands(o, k)
  <2>1. r = o
    BY <1>1 DEF RemoveFirst, Stands
  <2>2. \A x : Stands(o, x) <=> Stands(o, x) /\ x # k
    BY <1>1
  <2> HIDE DEF r
  <2>3. r \in Seq(K) /\ Once(r) /\ (\A x : Stands(r, x) <=> Stands(o, x) /\ x # k)
        /\ Len(r) = Len(o)
    BY <2>1, <2>2
  <2>4. \A i, j \in 1..Len(r) : i < j =>
          \E m, n \in 1..Len(o) : m < n /\ r[i] = o[m] /\ r[j] = o[n]
    BY <2>1
  <2> QED BY <1>1, <2>3, <2>4 DEF r
<1>2. CASE Stands(o, k)
  <2>1. PICK p \in 1..Len(o) : o[p] = k
    BY <1>2 DEF Stands
  <2>2. {i \in 1..Len(o) : o[i] = k} = {p}
    BY <2>1 DEF Once
  <2>3. SelectInSeq(o, LAMBDA v : v = k) = Min({p})
    BY <2>2 DEF SelectInSeq
  <2>4. Min({p}) = p
    BY DEF Min
  <2>5. r = RemoveAt(o, p)
    BY <2>1, <2>3, <2>4 DEF RemoveFirst
  <2> HIDE DEF r
  <2>6. /\ r \in Seq(K) /\ Len(r) = Len(o) - 1
        /\ \A i \in 1..(Len(o) - 1) : r[i] = IF i < p THEN o[i] ELSE o[i + 1]
    BY <2>5, RemoveAtIs
  <2> DEFINE up(i) == IF i < p THEN i ELSE i + 1
  <2>7. \A i \in 1..Len(r) : up(i) \in 1..Len(o) /\ r[i] = o[up(i)] /\ up(i) # p
    BY <2>6
  <2>8. \A i, j \in 1..Len(r) : i < j => up(i) < up(j)
    BY <2>6
  <2>9. \A m \in 1..Len(o) : m # p => \E i \in 1..Len(r) : up(i) = m
    <3> SUFFICES ASSUME NEW m \in 1..Len(o), m # p PROVE \E i \in 1..Len(r) : up(i) = m
      OBVIOUS
    <3>1. CASE m < p
      <4>1. m \in 1..Len(r) /\ up(m) = m
        BY <2>6, <3>1
      <4> QED BY <4>1
    <3>2. CASE m > p
      <4>1. m - 1 \in 1..Len(r) /\ up(m - 1) = m
        BY <2>6, <3>2
      <4> QED BY <4>1
    <3> QED BY <3>1, <3>2
  <2> HIDE DEF up
  <2>10. \A i, j \in 1..Len(r) : up(i) = up(j) => i = j
    <3> SUFFICES ASSUME NEW i \in 1..Len(r), NEW j \in 1..Len(r), i # j PROVE up(i) # up(j)
      OBVIOUS
    <3>1. up(i) \in Int /\ up(j) \in Int
      BY <2>7
    <3>2. i < j \/ j < i
      BY <2>6
    <3> QED BY <2>8, <3>1, <3>2
  <2>11. Once(r)
    BY <2>7, <2>10 DEF Once
  <2>12. \A x : Stands(r, x) <=> Stands(o, x) /\ x # k
    <3> TAKE x
    <3>1. Stands(r, x) => Stands(o, x) /\ x # k
      BY <2>1, <2>7 DEF Stands, Once
    <3>2. ASSUME Stands(o, x), x # k PROVE Stands(r, x)
      <4>1. PICK m \in 1..Len(o) : o[m] = x
        BY <3>2 DEF Stands
      <4>2. m # p
        BY <2>1, <3>2, <4>1
      <4>3. PICK i \in 1..Len(r) : up(i) = m
        BY <2>9, <4>2
      <4> QED BY <2>7, <4>1, <4>3 DEF Stands
    <3> QED BY <3>1, <3>2
  <2>13. \A i, j \in 1..Len(r) : i < j =>
           \E m, n \in 1..Len(o) : m < n /\ r[i] = o[m] /\ r[j] = o[n]
    BY <2>7, <2>8
  <2> QED BY <1>2, <2>6, <2>11, <2>12, <2>13 DEF r
<1> QED BY <1>1, <1>2

\* del buckets[key]: the other keys keep their records and their places.
LEMMA DeleteKeeps ==
  ASSUME NEW K, NEW t \in Nat, NEW b, DictOk(b, K, t), NEW k \in K
  PROVE  /\ DictOk(Delete(b, k), K, t)
         /\ Touched(b, Delete(b, k), k, <<>>, K)
<1> DEFINE o == b.order
           h == b.hits
           r == RemoveFirst(o, k)
           g == [h EXCEPT ![k] = <<>>]
<1>1. /\ o \in Seq(K) /\ h \in [K -> Seq(Nat)] /\ Once(o)
      /\ \A x \in K : h[x] # <<>> <=> Stands(o, x)
      /\ \A x \in K : Past(h[x], t)
      /\ Oldest(o, h) /\ Len(o) <= Cap
  BY DEF DictOk
<1>2. Delete(b, k) = [order |-> r, hits |-> g]
  BY DEF Delete
<1>a. /\ r \in Seq(K) /\ Once(r)
      /\ \A x : Stands(r, x) <=> Stands(o, x) /\ x # k
      /\ \A i, j \in 1..Len(r) : i < j =>
           \E m, n \in 1..Len(o) : m < n /\ r[i] = o[m] /\ r[j] = o[n]
      /\ Len(r) = IF Stands(o, k) THEN Len(o) - 1 ELSE Len(o)
  BY <1>1, RemoveIs
<1>3. <<>> \in Seq(Nat) /\ Past(<<>>, t)
  BY TrimEmpty
<1>4. /\ g \in [K -> Seq(Nat)] /\ g[k] = <<>>
      /\ \A x \in K : x # k => g[x] = h[x]
  BY <1>1, <1>3
<1>5. Len(o) \in Nat
  BY <1>1
<1>6. Cap \in Nat
  BY CapAssumption
<1> HIDE DEF o, h, r, g
<1>7. \A x \in K : Past(g[x], t)
  BY <1>1, <1>3, <1>4
<1>8. \A x \in K : g[x] # <<>> <=> Stands(r, x)
  BY <1>1, <1>4, <1>a
<1>9. Oldest(r, g)
  <2> SUFFICES ASSUME NEW i \in 1..Len(r), NEW j \in 1..Len(r), i < j
               PROVE  Latest(g[r[i]]) <= Latest(g[r[j]])
    BY DEF Oldest
  <2>1. PICK m \in 1..Len(o), n \in 1..Len(o) : m < n /\ r[i] = o[m] /\ r[j] = o[n]
    BY <1>a
  <2>2. r[i] \in K /\ r[j] \in K
    BY <1>a
  <2>3. r[i] # k /\ r[j] # k
    BY <1>a DEF Stands
  <2> QED BY <1>1, <1>4, <2>1, <2>2, <2>3 DEF Oldest
<1>10. Len(r) <= Cap
  BY <1>1, <1>5, <1>6, <1>a
<1> DEFINE d == [order |-> r, hits |-> g]
<1>11. d \in [order : Seq(K), hits : [K -> Seq(Nat)]] /\ d.order = r /\ d.hits = g
  BY <1>a, <1>4
<1> HIDE DEF d
<1>12. DictOk(d, K, t)
  BY <1>a, <1>7, <1>8, <1>9, <1>10, <1>11 DEF DictOk
<1>13. Touched(b, d, k, <<>>, K)
  BY <1>4, <1>a, <1>11 DEF Touched, o, h, r
<1> QED BY <1>2, <1>12, <1>13 DEF d

\* _get_existing_bucket leaves the live records of the key and touches no other.
LEMMA GetKeeps ==
  ASSUME NEW K, NEW t \in Nat, NEW b, DictOk(b, K, t), NEW k \in K, NEW w \in Nat
  PROVE  /\ DictOk(GetExisting(b, k, w, t), K, t)
         /\ Touched(b, GetExisting(b, k, w, t), k, View(b, K, w, t)[k], K)
         /\ View(GetExisting(b, k, w, t), K, w, t) = View(b, K, w, t)
<1> DEFINE o == b.order
           h == b.hits
           q == Trim(h[k], w, t)
           g == [h EXCEPT ![k] = q]
           e == GetExisting(b, k, w, t)
<1>1. /\ o \in Seq(K) /\ h \in [K -> Seq(Nat)] /\ Once(o)
      /\ \A x \in K : h[x] # <<>> <=> Stands(o, x)
      /\ \A x \in K : Past(h[x], t)
      /\ Oldest(o, h) /\ Len(o) <= Cap
      /\ b = [order |-> o, hits |-> h]
  BY DEF DictOk
<1>2. /\ Past(q, t)
      /\ q = <<>> <=> h[k] = <<>> \/ t - h[k][Len(h[k])] > w
      /\ q # <<>> => q[Len(q)] = h[k][Len(h[k])]
  BY <1>1, TrimKeeps
<1>3. e = IF q = <<>> THEN Delete(b, k) ELSE [b EXCEPT !.hits[k] = q]
  BY DEF GetExisting
<1>5. /\ DictOk(Delete(b, k), K, t)
      /\ Touched(b, Delete(b, k), k, <<>>, K)
  <2> HIDE DEF o, h, q, e, g
  <2> QED BY DeleteKeeps
<1>6. Trim(q, w, t) = q
  BY <1>1, TrimTwice
<1> HIDE DEF o, h, q, e
<1>4. [b EXCEPT !.hits[k] = q] = [order |-> o, hits |-> g]
  <2>1. b.hits = h
    BY <1>1
  <2>2. [b EXCEPT !.hits[k] = q] = [b EXCEPT !.hits = [h EXCEPT ![k] = q]]
    BY <2>1
  <2> HIDE DEF g
  <2>3. [b EXCEPT !.hits = g] = [order |-> o, hits |-> g]
    BY <1>1
  <2> QED BY <2>2, <2>3 DEF g
<1>7. /\ g \in [K -> Seq(Nat)] /\ g[k] = q
      /\ \A x \in K : x # k => g[x] = h[x]
  BY <1>1, <1>2 DEF Past
<1> HIDE DEF g
<1>8. /\ DictOk(e, K, t) /\ \A x \in K : e.hits[x] = g[x]
      /\ Touched(b, e, k, q, K)
  <2>1. CASE q = <<>>
    BY <1>3, <1>5, <1>7, <2>1 DEF Touched, o, h
  <2>2. CASE q # <<>>
    <3>1. e = [order |-> o, hits |-> g]
      BY <1>3, <1>4, <2>2 DEF g
    <3>2. e \in [order : Seq(K), hits : [K -> Seq(Nat)]] /\ e.order = o /\ e.hits = g
      BY <1>1, <1>7, <3>1
    <3>3. \A x \in K : g[x] # <<>> <=> Stands(o, x)
      BY <1>1, <1>2, <1>7, <2>2
    <3>4. \A x \in K : Past(g[x], t)
      BY <1>1, <1>2, <1>7
    <3>5. \A x \in K : Latest(g[x]) = Latest(h[x])
      BY <1>2, <1>7, <2>2 DEF Latest
    <3>6. \A i \in 1..Len(o) : o[i] \in K
      BY <1>1
    <3>7. Oldest(o, g)
      BY <1>1, <3>5, <3>6 DEF Oldest
    <3>8. DictOk(e, K, t)
      BY <1>1, <3>2, <3>3, <3>4, <3>7 DEF DictOk
    <3>9. Touched(b, e, k, q, K)
      BY <1>7, <2>2, <3>2 DEF Touched, o, h
    <3> QED BY <3>2, <3>8, <3>9
  <2> QED BY <2>1, <2>2
<1>9. View(e, K, w, t) = View(b, K, w, t)
  <2>1. ASSUME NEW x \in K PROVE Trim(g[x], w, t) = Trim(h[x], w, t)
    <3>1. CASE x = k
      BY <1>6, <1>7, <3>1 DEF q
    <3>2. CASE x # k
      BY <1>7, <3>2
    <3> QED BY <3>1, <3>2
  <2> QED BY <1>8, <2>1 DEF View, h
<1> QED BY <1>8, <1>9 DEF View, e, h, q

\* When a scope is full, _evict_expired_buckets does to the front what a look at it
\* would do; if nothing goes, every bucket is live.
LEMMA EvictIsGet ==
  ASSUME NEW K, NEW t \in Nat, NEW b, DictOk(b, K, t), NEW w \in Nat, Full(b)
  PROVE  /\ Foremost(b) \in K /\ Stands(b.order, Foremost(b))
         /\ Evict(b, w, t) = GetExisting(b, Foremost(b), w, t)
         /\ View(b, K, w, t)[Foremost(b)] # <<>> => AllLive(b, K, w, t)
<1> DEFINE o == b.order
           h == b.hits
           k == o[1]
           alive == {j \in DOMAIN o : Live(h[o[j]], w, t) # {}}
           stops == {Len(o) - Cap + 1} \cup {i - 1 : i \in alive}
           n == Min(stops)
<1>1. /\ o \in Seq(K) /\ h \in [K -> Seq(Nat)] /\ Once(o)
      /\ \A x \in K : h[x] # <<>> <=> Stands(o, x)
      /\ \A x \in K : Past(h[x], t)
      /\ Oldest(o, h)
      /\ b = [order |-> o, hits |-> h]
  BY DEF DictOk
<1>2. Cap \in Nat \ {0}
  BY CapAssumption
<1> HIDE DEF o, h
<1>3. Len(o) = Cap /\ DOMAIN o = 1..Cap /\ 1 \in 1..Cap /\ \A i \in 1..Cap : o[i] \in K
  BY <1>1, <1>2 DEF o, Full
<1>4. k \in K /\ Stands(o, k) /\ h[k] # <<>>
  BY <1>1, <1>3 DEF Stands
<1>5. \A x \in K : Trim(h[x], w, t) = <<>> <=> Live(h[x], w, t) = {}
  BY <1>1, TrimKeeps
<1>6. alive \in SUBSET (1..Cap)
  BY <1>3
<1>7. (1 \in alive) <=> Trim(h[k], w, t) # <<>>
  BY <1>3, <1>4, <1>5
<1>8. stops \in SUBSET Nat /\ 1 \in stops /\ (0 \in stops <=> 1 \in alive)
  <2>1. Len(o) - Cap + 1 = 1
    BY <1>2, <1>3
  <2>2. \A i \in alive : i - 1 \in Nat /\ (i - 1 = 0 <=> i = 1)
    BY <1>2, <1>6
  <2> HIDE DEF alive
  <2> QED BY <2>1, <2>2
<1> HIDE DEF alive, stops
<1>9. n = IF 1 \in alive THEN 0 ELSE 1
  <2>1. CASE 1 \in alive
    BY <1>8, <2>1, MinIs
  <2>2. CASE 1 \notin alive
    <3>1. \A j \in stops : 1 <= j
      BY <1>8, <2>2
    <3> QED BY <1>8, <2>2, <3>1, MinIs
  <2> QED BY <2>1, <2>2
<1> HIDE DEF n
<1> DEFINE gone == {o[i] : i \in 1..n}
           front == IF Len(o) - n >= Cap THEN {o[n + 1]} ELSE {}
           g == [x \in DOMAIN h |-> CASE x \in gone -> <<>>
                                      [] x \in front -> Trim(h[x], w, t)
                                      [] OTHER -> h[x]]
<1>10. Evict(b, w, t) = [order |-> SubSeq(o, n + 1, Len(o)), hits |-> g]
  BY DEF Evict, n, stops, alive, o, h
<1>11. /\ GetExisting(b, k, w, t) =
            IF Trim(h[k], w, t) = <<>> THEN Delete(b, k) ELSE [b EXCEPT !.hits[k] = Trim(h[k], w, t)]
       /\ Delete(b, k) = [order |-> RemoveFirst(o, k), hits |-> [h EXCEPT ![k] = <<>>]]
  BY DEF GetExisting, Delete, o, h
<1>12. CASE 1 \in alive
  <2>1. n = 0 /\ gone = {} /\ front = {k}
    <3>1. n = 0
      BY <1>9, <1>12
    <3>2. 1..0 = {}
      OBVIOUS
    <3> QED BY <1>2, <1>3, <3>1, <3>2
  <2>2. SubSeq(o, n + 1, Len(o)) = o
    BY <1>1, <1>3, <2>1
  <2>3. g = [h EXCEPT ![k] = Trim(h[k], w, t)]
    <3> HIDE DEF gone, front
    <3> QED BY <1>1, <1>4, <2>1
  <2>4. [b EXCEPT !.hits[k] = Trim(h[k], w, t)] = [order |-> o, hits |-> g]
    <3>1. b.hits = h
      BY DEF h
    <3>2. [b EXCEPT !.hits[k] = Trim(h[k], w, t)]
            = [b EXCEPT !.hits = [h EXCEPT ![k] = Trim(h[k], w, t)]]
      BY <3>1
    <3> HIDE DEF g
    <3>3. [b EXCEPT !.hits = g] = [order |-> o, hits |-> g]
      BY <1>1
    <3> QED BY <2>3, <3>2, <3>3
  <2>5. ASSUME NEW x \in K, Stands(o, x) PROVE Trim(h[x], w, t) # <<>>
    <3>1. PICK i \in 1..Cap : o[i] = x
      BY <1>3, <2>5 DEF Stands
    <3>2. i = 1 \/ Latest(h[k]) <= Latest(h[x])
      BY <1>1, <1>2, <1>3, <3>1 DEF Oldest
    <3>3. Trim(h[k], w, t) # <<>>
      BY <1>7, <1>12
    <3>4. /\ Trim(h[k], w, t) = <<>> <=> h[k] = <<>> \/ t - h[k][Len(h[k])] > w
          /\ Trim(h[x], w, t) = <<>> <=> h[x] = <<>> \/ t - h[x][Len(h[x])] > w
      BY <1>1, <1>4, TrimKeeps
    <3>5. h[x] # <<>> /\ h[x] \in Seq(Nat) /\ h[k] \in Seq(Nat)
      BY <1>1, <1>4, <2>5
    <3>6. Latest(h[x]) \in Nat /\ Latest(h[k]) \in Nat
      BY <1>4, <3>5 DEF Latest
    <3>7. CASE i = 1
      BY <3>1, <3>3, <3>7
    <3>8. CASE Latest(h[k]) <= Latest(h[x])
      <4>1. ~(t - Latest(h[k]) > w)
        BY <3>3, <3>4 DEF Latest
      <4>2. ~(t - Latest(h[x]) > w)
        BY <3>6, <3>8, <4>1
      <4> QED BY <3>4, <3>5, <4>2 DEF Latest
    <3> QED BY <3>2, <3>7, <3>8
  <2> HIDE DEF g
  <2>6. Foremost(b) = k
    BY DEF Foremost, o
  <2>7. AllLive(b, K, w, t)
    BY <2>5 DEF AllLive, View, o, h
  <2>8. Evict(b, w, t) = GetExisting(b, k, w, t)
    BY <1>7, <1>10, <1>11, <1>12, <2>2, <2>4
  <2>9. Stands(b.order, k)
    BY <1>4 DEF o
  <2> QED BY <1>4, <2>6, <2>7, <2>8, <2>9
<1>13. CASE 1 \notin alive
  <2>1. n = 1 /\ gone = {k} /\ front = {}
    <3>1. n = 1
      BY <1>9, <1>13
    <3>2. 1..1 = {1}
      OBVIOUS
    <3> QED BY <1>2, <1>3, <3>1, <3>2
  <2>2. SubSeq(o, n + 1, Len(o)) = RemoveFirst(o, k)
    <3>1. {i \in 1..Len(o) : o[i] = k} = {1}
      BY <1>1, <1>3 DEF Once
    <3>2. SelectInSeq(o, LAMBDA v : v = k) = Min({1})
      BY <3>1 DEF SelectInSeq
    <3>3. Min({1}) = 1
      BY DEF Min
    <3>4. RemoveFirst(o, k) = RemoveAt(o, 1)
      BY <1>3, <3>2, <3>3 DEF RemoveFirst
    <3>5. RemoveAt(o, 1) = SubSeq(o, 1, 0) \o SubSeq(o, 2, Len(o))
      BY DEF RemoveAt
    <3>6. SubSeq(o, 1, 0) = <<>> /\ SubSeq(o, 2, Len(o)) \in Seq(K)
      BY <1>1, <1>3
    <3>7. <<>> \o SubSeq(o, 2, Len(o)) = SubSeq(o, 2, Len(o))
      BY <3>6, ConcatEmptySeq
    <3> QED BY <2>1, <3>4, <3>5, <3>6, <3>7
  <2>3. g = [h EXCEPT ![k] = <<>>]
    <3> HIDE DEF gone, front
    <3> QED BY <1>1, <1>4, <2>1
  <2> HIDE DEF g
  <2>6. Foremost(b) = k
    BY DEF Foremost, o
  <2>7. View(b, K, w, t)[k] = <<>>
    BY <1>4, <1>7, <1>13 DEF View, h
  <2>8. Evict(b, w, t) = GetExisting(b, k, w, t)
    BY <1>7, <1>10, <1>11, <1>13, <2>2, <2>3
  <2>9. Stands(b.order, k)
    BY <1>4 DEF o
  <2> QED BY <1>4, <2>6, <2>7, <2>8, <2>9
<1> QED BY <1>12, <1>13

\* The keys that stand in an order are as many as it is long.
LEMMA StandingCount ==
  ASSUME NEW K, NEW o \in Seq(K), Once(o)
  PROVE  /\ IsFiniteSet({x \in K : Stands(o, x)})
         /\ Cardinality({x \in K : Stands(o, x)}) = Len(o)
<1> DEFINE R == {x \in K : Stands(o, x)}
<1>1. Len(o) \in Nat /\ o \in [1..Len(o) -> R]
  BY DEF Stands
<1>2. o \in Injection(1..Len(o), R)
  BY <1>1 DEF Injection, IsInjective, Once
<1>3. o \in Surjection(1..Len(o), R)
  BY <1>1 DEF Surjection, Stands
<1>4. ExistsBijection(1..Len(o), R)
  BY <1>2, <1>3 DEF ExistsBijection, Bijection
<1> HIDE DEF R
<1>5. IsFiniteSet(R) /\ Cardinality(R) = Len(o)
  BY <1>1, <1>4, FS_NatBijection, FS_CountingElements
<1> QED BY <1>5 DEF R

\* The deques of the standing keys are the same in h and g and hold nothing after t.
Before(K, o, h, g, t) == \A x \in K : Stands(o, x) => g[x] = h[x] /\ Latest(h[x]) <= t

\* The latest record of k is of this instant.
Fresh(g, k, t) == Latest(g[k]) = t

\* A key with a record of this instant may stand at the end.
LEMMA EndKeeps ==
  ASSUME NEW K, NEW o \in Seq(K), Once(o), NEW k \in K, ~Stands(o, k), NEW t \in Nat,
         NEW h \in [K -> Seq(Nat)], Oldest(o, h), NEW g \in [K -> Seq(Nat)],
         Before(K, o, h, g, t), Fresh(g, k, t)
  PROVE  /\ Append(o, k) \in Seq(K) /\ Len(Append(o, k)) = Len(o) + 1
         /\ Once(Append(o, k))
         /\ \A x : Stands(Append(o, k), x) <=> Stands(o, x) \/ x = k
         /\ Oldest(Append(o, k), g)
<1> DEFINE a == Append(o, k)
<1>1. /\ a \in Seq(K) /\ Len(a) = Len(o) + 1 /\ Len(o) \in Nat
      /\ \A i \in 1..Len(o) : a[i] = o[i]
      /\ a[Len(o) + 1] = k
  OBVIOUS
<1> HIDE DEF a
<1>2. \A i \in 1..Len(a) : i \in 1..Len(o) \/ i = Len(o) + 1
  BY <1>1
<1>3. \A i \in 1..Len(o) : o[i] # k /\ o[i] \in K /\ Stands(o, o[i])
  BY DEF Stands
<1>4. Once(a)
  BY <1>1, <1>2, <1>3 DEF Once
<1>5. \A x : Stands(a, x) <=> Stands(o, x) \/ x = k
  <2>1. \A i \in 1..Len(o) : i \in 1..Len(a)
    BY <1>1
  <2>2. Len(o) + 1 \in 1..Len(a)
    BY <1>1
  <2> QED BY <1>1, <1>2, <2>1, <2>2 DEF Stands
<1>6. Oldest(a, g)
  <2> SUFFICES ASSUME NEW i \in 1..Len(a), NEW j \in 1..Len(a), i < j
               PROVE  Latest(g[a[i]]) <= Latest(g[a[j]])
    BY DEF Oldest
  <2>a. i \in 1..Len(o)
    BY <1>1
  <2>0. i \in 1..Len(o) /\ a[i] = o[i]
    BY <1>1, <2>a
  <2>1. g[o[i]] = h[o[i]] /\ Latest(h[o[i]]) <= t
    BY <1>3, <2>0 DEF Before
  <2>2. CASE j = Len(o) + 1
    <3>1. a[j] = k
      BY <1>1, <2>2
    <3> QED BY <2>0, <2>1, <3>1 DEF Fresh
  <2>3. CASE j \in 1..Len(o)
    <3>1. a[j] = o[j] /\ g[o[j]] = h[o[j]]
      BY <1>1, <1>3, <2>3 DEF Before
    <3>2. Latest(h[o[i]]) <= Latest(h[o[j]])
      BY <2>0, <2>3 DEF Oldest
    <3> QED BY <2>0, <2>1, <3>1, <3>2
  <2> QED BY <1>2, <2>2, <2>3
<1> QED BY <1>1, <1>4, <1>5, <1>6 DEF a

\* What the promise counts at time t.
CountedAt(l, k, t) ==
  IF l[k] = <<>> /\ Cardinality({j \in DOMAIN l : l[j] # <<>>}) >= Cap
  THEN l ELSE [l EXCEPT ![k] = Append(@, t)]

\* A new bucket, and one that moves to the end.
Pushed(d, k, t) == [order |-> Append(d.order, k), hits |-> [d.hits EXCEPT ![k] = <<t>>]]
Moved(d, k, t) == [order |-> Append(RemoveFirst(d.order, k), k),
                   hits |-> [d.hits EXCEPT ![k] = Append(@, t)]]

Absent(d, k) == d.hits[k] = <<>>
Room(d) == Len(d.order) < Cap

\* A new bucket is put where there is room, and is then counted.
LEMMA PushKeeps ==
  ASSUME NEW K, NEW t \in Nat, NEW d, DictOk(d, K, t), NEW k \in K, NEW w \in Nat,
         Absent(d, k), Room(d)
  PROVE  /\ DictOk(Pushed(d, k, t), K, t)
         /\ View(Pushed(d, k, t), K, w, t) = CountedAt(View(d, K, w, t), k, t)
<1> DEFINE o == d.order
           h == d.hits
           a == Append(o, k)
           g == [h EXCEPT ![k] = <<t>>]
           p == Pushed(d, k, t)
           l == View(d, K, w, t)
<1>1. /\ o \in Seq(K) /\ h \in [K -> Seq(Nat)] /\ Once(o)
      /\ \A x \in K : h[x] # <<>> <=> Stands(o, x)
      /\ \A x \in K : Past(h[x], t)
      /\ Oldest(o, h) /\ Len(o) <= Cap
  BY DEF DictOk
<1>2. h[k] = <<>> /\ Len(o) < Cap /\ p = [order |-> a, hits |-> g]
  BY DEF Absent, Room, Pushed
<1>3. l = [x \in K |-> Trim(h[x], w, t)]
  BY DEF View
<1> HIDE DEF o, h, p, l
<1>4. ~Stands(o, k)
  BY <1>1, <1>2
<1>5. <<>> \in Seq(Nat) /\ <<t>> = Append(<<>>, t) /\ <<t>> \in Seq(Nat) /\ <<t>> # <<>>
  OBVIOUS
<1>6. /\ g \in [K -> Seq(Nat)] /\ g[k] = <<t>>
      /\ \A x \in K : x # k => g[x] = h[x]
  BY <1>1, <1>5
<1> HIDE DEF g
<1>7. Past(<<t>>, t) /\ Trim(<<t>>, w, t) = <<t>>
  <2>1. Past(<<>>, t) /\ Trim(<<>>, w, t) = <<>>
    BY TrimEmpty
  <2>2. Past(Append(<<>>, t), t) /\ Trim(Append(<<>>, t), w, t) = Append(Trim(<<>>, w, t), t)
    BY <2>1, TrimAppend
  <2> QED BY <1>5, <2>1, <2>2
<1>8. Before(K, o, h, g, t)
  <2> SUFFICES ASSUME NEW x \in K, Stands(o, x) PROVE g[x] = h[x] /\ Latest(h[x]) <= t
    BY DEF Before
  <2>1. x # k /\ h[x] # <<>> /\ h[x] \in Seq(Nat)
    BY <1>1, <1>4
  <2>2. Len(h[x]) \in 1..Len(h[x])
    BY <2>1
  <2> QED BY <1>1, <1>6, <2>1, <2>2 DEF Past, Latest
<1>9. Fresh(g, k, t)
  BY <1>6 DEF Latest, Fresh
<1>10. /\ a \in Seq(K) /\ Len(a) = Len(o) + 1 /\ Once(a)
       /\ \A x : Stands(a, x) <=> Stands(o, x) \/ x = k
       /\ Oldest(a, g)
  <2>1. o \in Seq(K) /\ Once(o) /\ h \in [K -> Seq(Nat)] /\ Oldest(o, h)
    BY <1>1
  <2>2. g \in [K -> Seq(Nat)]
    BY <1>6
  <2> QED BY <1>4, <1>8, <1>9, <2>1, <2>2, EndKeeps
<1> HIDE DEF a
<1>11. Len(a) <= Cap
  <2>1. Cap \in Nat /\ Len(o) \in Nat
    BY <1>1, CapAssumption
  <2> QED BY <1>2, <1>10, <2>1
<1>12. p \in [order : Seq(K), hits : [K -> Seq(Nat)]] /\ p.order = a /\ p.hits = g
  BY <1>2, <1>6, <1>10
<1>13. \A x \in K : Past(g[x], t)
  BY <1>1, <1>6, <1>7
<1>14. \A x \in K : g[x] # <<>> <=> Stands(a, x)
  BY <1>1, <1>4, <1>5, <1>6, <1>10
<1>15. DictOk(p, K, t)
  BY <1>10, <1>11, <1>12, <1>13, <1>14 DEF DictOk
<1>16. ~(Cardinality({j \in DOMAIN l : l[j] # <<>>}) >= Cap)
  <2> DEFINE R == {x \in K : Stands(o, x)}
             V == {j \in DOMAIN l : l[j] # <<>>}
  <2>1. IsFiniteSet(R) /\ Cardinality(R) = Len(o)
    BY <1>1, StandingCount
  <2>2. V \in SUBSET R
    <3>1. \A x \in K : h[x] = <<>> => Trim(h[x], w, t) = <<>>
      BY TrimEmpty
    <3> QED BY <1>1, <1>3, <3>1
  <2> HIDE DEF R, V
  <2>3. IsFiniteSet(V) /\ Cardinality(V) <= Cardinality(R)
    BY <2>1, <2>2, FS_Subset
  <2>4. Cardinality(V) \in Nat /\ Len(o) \in Nat /\ Cap \in Nat
    BY <1>1, <2>3, FS_CardinalityType, CapAssumption
  <2> QED BY <1>2, <2>1, <2>3, <2>4 DEF V
<1>17. l[k] = <<>>
  BY <1>2, <1>3, TrimEmpty
<1>18. CountedAt(l, k, t) = [l EXCEPT ![k] = Append(@, t)]
  BY <1>16 DEF CountedAt
<1>19. View(p, K, w, t) = [x \in K |-> Trim(g[x], w, t)]
  BY <1>12 DEF View
<1>20. [l EXCEPT ![k] = Append(@, t)] = [x \in K |-> IF x = k THEN <<t>> ELSE Trim(h[x], w, t)]
  BY <1>3, <1>5, <1>17
<1>21. \A x \in K : Trim(g[x], w, t) = IF x = k THEN <<t>> ELSE Trim(h[x], w, t)
  BY <1>6, <1>7
<1>22. View(p, K, w, t) = CountedAt(l, k, t)
  BY <1>18, <1>19, <1>20, <1>21
<1> QED BY <1>15, <1>22 DEF p, l

\* Key k has a live record.
Held(d, K, k, w, t) == View(d, K, w, t)[k] # <<>>

\* A bucket that is counted again moves to the end.
LEMMA MoveKeeps ==
  ASSUME NEW K, NEW t \in Nat, NEW d, DictOk(d, K, t), NEW k \in K, NEW w \in Nat,
         Held(d, K, k, w, t)
  PROVE  /\ DictOk(Moved(d, k, t), K, t)
         /\ View(Moved(d, k, t), K, w, t) = CountedAt(View(d, K, w, t), k, t)
<1> DEFINE o == d.order
           h == d.hits
           D == Delete(d, k)
           r == D.order
           f == D.hits
           a == Append(r, k)
           g == [h EXCEPT ![k] = Append(@, t)]
           p == Moved(d, k, t)
           l == View(d, K, w, t)
<1>1. /\ o \in Seq(K) /\ h \in [K -> Seq(Nat)] /\ Once(o)
      /\ \A x \in K : h[x] # <<>> <=> Stands(o, x)
      /\ \A x \in K : Past(h[x], t)
      /\ Oldest(o, h) /\ Len(o) <= Cap
  BY DEF DictOk
<1>2. DictOk(D, K, t) /\ Touched(d, D, k, <<>>, K)
  BY DeleteKeeps
<1>3. l = [x \in K |-> Trim(h[x], w, t)] /\ l[k] # <<>>
  BY DEF View, Held
<1> HIDE DEF D
<1>4. /\ r \in Seq(K) /\ f \in [K -> Seq(Nat)] /\ Once(r)
      /\ \A x \in K : f[x] # <<>> <=> Stands(r, x)
      /\ \A x \in K : Past(f[x], t)
      /\ Oldest(r, f) /\ Len(r) <= Cap
  BY <1>2 DEF DictOk
<1>5. /\ f[k] = <<>> /\ \A x \in K : x # k => f[x] = h[x]
      /\ r = RemoveFirst(o, k)
      /\ Len(r) = IF Stands(o, k) THEN Len(o) - 1 ELSE Len(o)
  BY <1>2 DEF Touched
<1>6. p = [order |-> a, hits |-> g]
  <2>1. p = [order |-> Append(RemoveFirst(d.order, k), k),
             hits |-> [d.hits EXCEPT ![k] = Append(@, t)]]
    BY DEF Moved
  <2>2. r = RemoveFirst(d.order, k)
    BY <1>5
  <2> HIDE DEF r, p
  <2> QED BY <2>1, <2>2
<1> HIDE DEF o, h, r, f, p, l
<1>7. h[k] # <<>> /\ Stands(o, k) /\ ~Stands(r, k)
  <2>1. h[k] = <<>> => Trim(h[k], w, t) = <<>>
    BY TrimEmpty
  <2>2. h[k] # <<>>
    BY <1>3, <2>1
  <2> QED BY <1>1, <1>4, <1>5, <2>2
<1> DEFINE q == Append(h[k], t)
<1>8. q \in Seq(Nat) /\ q # <<>> /\ q[Len(q)] = t
  <2>1. h[k] \in Seq(Nat)
    BY <1>1
  <2>2. /\ q \in Seq(Nat) /\ q # <<>> /\ Len(q) = Len(h[k]) + 1
        /\ q[Len(h[k]) + 1] = t
    BY <2>1, AppendProperties
  <2> HIDE DEF q
  <2> QED BY <2>2
<1>9. Past(q, t) /\ Trim(q, w, t) = Append(Trim(h[k], w, t), t)
  BY <1>1, TrimAppend
<1>10. /\ g \in [K -> Seq(Nat)] /\ g[k] = q
       /\ \A x \in K : x # k => g[x] = h[x]
  BY <1>1, <1>8
<1> HIDE DEF g, q
<1>11. Before(K, r, f, g, t)
  <2> SUFFICES ASSUME NEW x \in K, Stands(r, x) PROVE g[x] = f[x] /\ Latest(f[x]) <= t
    BY DEF Before
  <2>1. x # k /\ f[x] # <<>> /\ f[x] \in Seq(Nat)
    BY <1>4, <1>7
  <2>2. Len(f[x]) \in 1..Len(f[x])
    BY <2>1
  <2> QED BY <1>4, <1>5, <1>10, <2>1, <2>2 DEF Past, Latest
<1>12. Fresh(g, k, t)
  BY <1>8, <1>10 DEF Latest, Fresh
<1>13. /\ a \in Seq(K) /\ Len(a) = Len(r) + 1 /\ Once(a)
       /\ \A x : Stands(a, x) <=> Stands(r, x) \/ x = k
       /\ Oldest(a, g)
  <2>1. r \in Seq(K) /\ Once(r) /\ f \in [K -> Seq(Nat)] /\ Oldest(r, f)
    BY <1>4
  <2>2. g \in [K -> Seq(Nat)] /\ ~Stands(r, k)
    BY <1>7, <1>10
  <2> QED BY <1>11, <1>12, <2>1, <2>2, EndKeeps
<1> HIDE DEF a
<1>14. Len(a) <= Cap
  <2>1. Cap \in Nat /\ Len(o) \in Nat
    BY <1>1, CapAssumption
  <2> QED BY <1>1, <1>5, <1>7, <1>13, <2>1
<1>15. p \in [order : Seq(K), hits : [K -> Seq(Nat)]] /\ p.order = a /\ p.hits = g
  BY <1>6, <1>10, <1>13
<1>16. \A x \in K : Past(g[x], t)
  BY <1>1, <1>9, <1>10
<1>17. \A x \in K : g[x] # <<>> <=> Stands(a, x)
  BY <1>4, <1>5, <1>8, <1>10, <1>13
<1>18. DictOk(p, K, t)
  BY <1>13, <1>14, <1>15, <1>16, <1>17 DEF DictOk
<1>19. CountedAt(l, k, t) = [l EXCEPT ![k] = Append(@, t)]
  BY <1>3 DEF CountedAt
<1>20. View(p, K, w, t) = [x \in K |-> Trim(g[x], w, t)]
  BY <1>15 DEF View
<1>21. [l EXCEPT ![k] = Append(@, t)]
         = [x \in K |-> IF x = k THEN Append(Trim(h[k], w, t), t) ELSE Trim(h[x], w, t)]
  BY <1>3
<1>22. \A x \in K : Trim(g[x], w, t) = IF x = k THEN Append(Trim(h[k], w, t), t)
                                       ELSE Trim(h[x], w, t)
  BY <1>9, <1>10
<1>23. View(p, K, w, t) = CountedAt(l, k, t)
  BY <1>19, <1>20, <1>21, <1>22
<1> QED BY <1>18, <1>23 DEF p, l

\* _get_or_create_bucket and the append count what the promise counts: a new bucket
\* is refused only when every bucket in the full scope is live.
LEMMA RecordKeeps ==
  ASSUME NEW K, NEW t \in Nat, NEW b, DictOk(b, K, t), NEW k \in K, NEW w \in Nat
  PROVE  /\ DictOk(Record(b, k, w, t), K, t)
         /\ View(Record(b, k, w, t), K, w, t) = CountedAt(View(b, K, w, t), k, t)
<1> DEFINE e == GetExisting(b, k, w, t)
           room == IF Len(e.order) >= Cap THEN Evict(e, w, t) ELSE e
           l == View(b, K, w, t)
           R == Record(b, k, w, t)
<1>1. /\ DictOk(e, K, t) /\ View(e, K, w, t) = l
      /\ Touched(b, e, k, l[k], K)
  BY GetKeeps
<1>2. R = CASE e.hits[k] # <<>> -> Moved(e, k, t)
            [] e.hits[k] = <<>> /\ Len(room.order) >= Cap -> room
            [] OTHER -> Pushed(room, k, t)
  BY DEF Record, Moved, Pushed
<1>3. e.hits[k] = l[k]
  BY <1>1 DEF Touched
<1> HIDE DEF e, l, R
<1>4. /\ e.order \in Seq(K) /\ e.hits \in [K -> Seq(Nat)] /\ Once(e.order)
      /\ \A x \in K : e.hits[x] # <<>> <=> Stands(e.order, x)
      /\ Len(e.order) <= Cap /\ Len(e.order) \in Nat /\ Cap \in Nat
  BY <1>1, CapAssumption DEF DictOk
<1>5. CASE e.hits[k] # <<>>
  <2>1. Held(e, K, k, w, t)
    BY <1>1, <1>3, <1>5 DEF Held
  <2>2. R = Moved(e, k, t)
    BY <1>2, <1>5
  <2> QED BY <1>1, <2>1, <2>2, MoveKeeps DEF R, l
<1>6. CASE e.hits[k] = <<>> /\ Len(e.order) < Cap
  <2>1. R = Pushed(e, k, t)
    BY <1>2, <1>4, <1>6
  <2>2. Absent(e, k) /\ Room(e)
    BY <1>6 DEF Absent, Room
  <2> QED BY <1>1, <2>1, <2>2, PushKeeps DEF R, l
<1>7. CASE e.hits[k] = <<>> /\ Len(e.order) >= Cap
  <2> DEFINE x == Foremost(e)
             z == GetExisting(e, x, w, t)
  <2>1. Full(e)
    BY <1>4, <1>7 DEF Full
  <2>2. /\ x \in K /\ Evict(e, w, t) = z /\ Stands(e.order, x)
        /\ l[x] # <<>> => AllLive(e, K, w, t)
    <3>1. /\ x \in K /\ Evict(e, w, t) = z
          /\ View(e, K, w, t)[x] # <<>> => AllLive(e, K, w, t)
      BY <1>1, <2>1, EvictIsGet
    <3>2. Stands(e.order, x)
      <4>1. 1 \in 1..Len(e.order)
        BY <1>4, <1>7, CapAssumption
      <4> QED BY <4>1 DEF Foremost, Stands
    <3> QED BY <1>1, <3>1, <3>2
  <2>3. /\ DictOk(z, K, t) /\ View(z, K, w, t) = l /\ Touched(e, z, x, l[x], K)
    <3> HIDE DEF x
    <3> QED BY <1>1, <2>2, GetKeeps
  <2>4. room = z
    BY <1>7, <2>2
  <2> HIDE DEF z, x
  <2>5. /\ \A y \in K : y # x => z.hits[y] = e.hits[y]
        /\ Len(z.order) = IF l[x] = <<>> THEN Len(e.order) - 1 ELSE Len(e.order)
    BY <2>2, <2>3 DEF Touched
  <2>6. x # k
    BY <1>4, <1>7, <2>2
  <2>7. CASE l[x] = <<>>
    <3>1. Len(z.order) < Cap /\ ~(Len(z.order) >= Cap)
      BY <1>4, <2>5, <2>7
    <3>2. R = Pushed(z, k, t)
      BY <1>2, <1>7, <2>4, <3>1
    <3>3. Absent(z, k) /\ Room(z)
      BY <1>7, <2>5, <2>6, <3>1 DEF Absent, Room
    <3> QED BY <2>3, <3>2, <3>3, PushKeeps DEF R, l
  <2>8. CASE l[x] # <<>>
    <3>1. Len(z.order) >= Cap
      BY <1>4, <1>7, <2>5, <2>8
    <3>2. R = z
      BY <1>2, <1>7, <2>4, <3>1
    <3>3. \A y \in K : l[y] # <<>> <=> Stands(e.order, y)
      <4>1. \A y \in K : Stands(e.order, y) => l[y] # <<>>
        BY <1>1, <2>2, <2>8 DEF AllLive
      <4>2. \A y \in K : e.hits[y] = <<>> => View(e, K, w, t)[y] = <<>>
        BY TrimEmpty DEF View
      <4> QED BY <1>1, <1>4, <4>1, <4>2
    <3>4. DOMAIN l = K
      BY DEF l, View
    <3>5. {j \in DOMAIN l : l[j] # <<>>} = {y \in K : Stands(e.order, y)}
      BY <3>3, <3>4
    <3>6. Cardinality({y \in K : Stands(e.order, y)}) = Len(e.order)
      BY <1>4, StandingCount
    <3>7. CountedAt(l, k, t) = l
      BY <1>3, <1>7, <3>5, <3>6 DEF CountedAt
    <3> QED BY <2>3, <3>2, <3>7 DEF R, l
  <2> QED BY <2>7, <2>8
<1> QED BY <1>4, <1>5, <1>6, <1>7

\* Time passes: records stay in the past, and the live ones are the recent ones of
\* those that were live.
LEMMA LaterKeeps ==
  ASSUME NEW K, NEW t \in Nat, NEW b, DictOk(b, K, t), NEW w \in Nat
  PROVE  /\ DictOk(b, K, t + 1)
         /\ View(b, K, w, t + 1) = [k \in K |-> Promise!Recent(View(b, K, w, t)[k], w, t + 1)]
<1> DEFINE h == b.hits
<1>1. \A x \in K : Past(h[x], t)
  BY DEF DictOk
<1>2. ASSUME NEW x \in K PROVE Past(h[x], t + 1)
  <2>1. h[x] \in Seq(Nat) /\ \A i \in 1..Len(h[x]) : h[x][i] <= t /\ h[x][i] \in Nat
    BY <1>1 DEF Past
  <2>2. \A i \in 1..Len(h[x]) : h[x][i] <= t + 1
    BY <2>1
  <2> QED BY <1>1, <2>2 DEF Past
<1>3. DictOk(b, K, t + 1)
  BY <1>2 DEF DictOk
<1> HIDE DEF h
<1>4. ASSUME NEW x \in K
      PROVE  Promise!Recent(Trim(h[x], w, t), w, t + 1) = Trim(h[x], w, t + 1)
  BY <1>1, TrimTwice
<1>5. /\ View(b, K, w, t + 1) = [x \in K |-> Trim(h[x], w, t + 1)]
      /\ \A x \in K : View(b, K, w, t)[x] = Trim(h[x], w, t)
  BY DEF View, h
<1> QED BY <1>3, <1>4, <1>5

-----------------------------------------------------------------------------
(* The limiter. *)

\* Every scope has its dictionary.
AllOk(bs, t) == DOMAIN bs = Scopes /\ \A s \in Scopes : DictOk(bs[s], Keys(s), t)

\* The live records of all scopes.
Views(bs, t) == [s \in Scopes |-> View(bs[s], Keys(s), WindowOf(s), t)]

\* The inductive invariant: TypeOK and BucketsBounded with, above all, the order of
\* the latest records, on which the eviction rests.
IInv ==
  /\ now \in 0..MaxTime
  /\ req \in [Reqs -> Requests \cup {NoRequest}]
  /\ AllOk(buckets, now)

\* The refinement mapping, scope by scope.
LEMMA Mapping == Unexpired = Views(buckets, now)
  BY DEF Unexpired, Views, View

\* Windows are seconds.
LEMMA WindowType == \A s \in Scopes : WindowOf(s) \in Nat
  BY LimitsAssumption DEF WindowOf

\* Limits are positive.
LEMMA LimitPositive == \A s \in Scopes : Limit(s) \in Nat \ {0}
  BY LimitsAssumption DEF Limit, Scopes

\* The key of a request belongs to the scope.
LEMMA KeyType ==
  ASSUME NEW q \in Requests, NEW s \in Scopes
  PROVE  KeyOf(s, q) \in Keys(s)
  BY DEF Requests, Scopes, KeyOf, Keys

\* A flow consults and writes known scopes.
LEMMA FlowScopes ==
  ASSUME NEW q \in Requests
  PROVE  /\ Consulted(q.flow) \subseteq Scopes /\ ConsultedNext(q.flow) \subseteq Scopes
         /\ OnFailure(q.flow) \cup OnSuccess(q.flow)
              \subseteq Consulted(q.flow) \cup ConsultedNext(q.flow)
  BY LimitsAssumption DEF Requests, OnFailure, OnSuccess, Consulted, ConsultedNext, Scopes

\* The live records of q's key in scope s are below the limit.
Under(v, s, q) == Len(v[s][KeyOf(s, q)]) < Limit(s)

\* A check changes no live record and compares exactly those with the limits.
LEMMA LookedKeeps ==
  ASSUME NEW bs, NEW S \in SUBSET Scopes, NEW q \in Requests, now \in Nat, AllOk(bs, now)
  PROVE  /\ AllOk(Looked(bs, S, q), now)
         /\ Views(Looked(bs, S, q), now) = Views(bs, now)
         /\ Below(Looked(bs, S, q), S, q) <=> \A s \in S : Under(Views(bs, now), s, q)
<1> DEFINE L == Looked(bs, S, q)
           t == now
<1>1. ASSUME NEW s \in Scopes
      PROVE  /\ DictOk(L[s], Keys(s), now)
             /\ View(L[s], Keys(s), WindowOf(s), now) = View(bs[s], Keys(s), WindowOf(s), now)
             /\ s \in S => L[s].hits[KeyOf(s, q)]
                             = View(bs[s], Keys(s), WindowOf(s), now)[KeyOf(s, q)]
  <2>1. L[s] = IF s \in S THEN GetExisting(bs[s], KeyOf(s, q), WindowOf(s), now) ELSE bs[s]
    BY DEF Looked
  <2>2. DictOk(bs[s], Keys(s), now) /\ KeyOf(s, q) \in Keys(s) /\ WindowOf(s) \in Nat
    BY KeyType, WindowType DEF AllOk
  <2> DEFINE e == GetExisting(bs[s], KeyOf(s, q), WindowOf(s), now)
  <2>3. /\ DictOk(e, Keys(s), now)
        /\ View(e, Keys(s), WindowOf(s), now) = View(bs[s], Keys(s), WindowOf(s), now)
        /\ Touched(bs[s], e, KeyOf(s, q),
                   View(bs[s], Keys(s), WindowOf(s), now)[KeyOf(s, q)], Keys(s))
    BY <2>2, GetKeeps
  <2> HIDE DEF e, L
  <2>4. e.hits[KeyOf(s, q)] = View(bs[s], Keys(s), WindowOf(s), now)[KeyOf(s, q)]
    BY <2>3 DEF Touched
  <2> QED BY <2>1, <2>2, <2>3, <2>4 DEF e
<1>2. DOMAIN L = Scopes
  BY DEF Looked
<1> HIDE DEF L
<1>3. AllOk(L, now) /\ Views(L, now) = Views(bs, now)
  BY <1>1, <1>2 DEF AllOk, Views
<1>4. Below(L, S, q) <=> \A s \in S : Under(Views(bs, now), s, q)
  <2>1. ASSUME NEW s \in S
        PROVE  L[s].hits[KeyOf(s, q)] = Views(bs, now)[s][KeyOf(s, q)]
    BY <1>1 DEF Views
  <2> QED BY <2>1 DEF Below, Under
<1> QED BY <1>3, <1>4 DEF L

\* The promise's check, in the terms of the limiter.
LEMMA PromiseCheck ==
  ASSUME NEW q \in Requests, NEW r \in Reqs, req[r] = NoRequest,
         \A s \in Consulted(q.flow) \cup ConsultedNext(q.flow) : Under(Unexpired, s, q),
         req' = [req EXCEPT ![r] = q], now' = now, Unexpired' = Unexpired
  PROVE  Promise!Check(r, q)
  BY SameLimits, SameFlows DEF Promise!Check, Promise!Allowed, Under

\* What the promise counts now.
LEMMA PromiseCounted ==
  ASSUME NEW l, NEW k
  PROVE  Promise!Counted(l, k) = CountedAt(l, k, now)
  BY SameCardinality DEF Promise!Counted, CountedAt

\* The mapping after a step.
LEMMA MappingNext == Unexpired' = Views(buckets', now')
  BY DEF Unexpired, Views, View

\* A record is the promise's record.
LEMMA RecordedKeeps ==
  ASSUME IInv, NEW s \in Scopes, NEW q \in Requests
  PROVE  /\ DictOk(Recorded(s, q), Keys(s), now)
         /\ View(Recorded(s, q), Keys(s), WindowOf(s), now)
              = Promise!Counted(Unexpired[s], KeyOf(s, q))
<1>1. DictOk(buckets[s], Keys(s), now) /\ now \in Nat
  BY CapAssumption DEF IInv, AllOk
<1>2. KeyOf(s, q) \in Keys(s) /\ WindowOf(s) \in Nat
  BY KeyType, WindowType
<1>3. Unexpired[s] = View(buckets[s], Keys(s), WindowOf(s), now)
  BY Mapping DEF Views
<1> DEFINE k == KeyOf(s, q)
           w == WindowOf(s)
<1> HIDE DEF k, w
<1>4. /\ DictOk(Record(buckets[s], k, w, now), Keys(s), now)
      /\ View(Record(buckets[s], k, w, now), Keys(s), w, now)
           = CountedAt(View(buckets[s], Keys(s), w, now), k, now)
  BY <1>1, <1>2, RecordKeeps DEF k, w
<1> QED BY <1>3, <1>4, PromiseCounted DEF Recorded, k, w

\* Forgetting a key forgets its live records.
LEMMA DeletedKeeps ==
  ASSUME IInv, NEW s \in Scopes, NEW q \in Requests
  PROVE  /\ DictOk(Delete(buckets[s], KeyOf(s, q)), Keys(s), now)
         /\ View(Delete(buckets[s], KeyOf(s, q)), Keys(s), WindowOf(s), now)
              = [Unexpired[s] EXCEPT ![KeyOf(s, q)] = <<>>]
<1> DEFINE k == KeyOf(s, q)
           b == buckets[s]
           d == Delete(b, k)
<1>1. DictOk(b, Keys(s), now) /\ now \in Nat /\ k \in Keys(s)
  BY KeyType, CapAssumption DEF IInv, AllOk
<1>2. Unexpired[s] = [x \in Keys(s) |-> Trim(b.hits[x], WindowOf(s), now)]
  BY Mapping DEF Views, View
<1> HIDE DEF k, b
<1>3. DictOk(d, Keys(s), now) /\ Touched(b, d, k, <<>>, Keys(s))
  BY <1>1, DeleteKeeps
<1> HIDE DEF d
<1>4. d.hits[k] = <<>> /\ \A x \in Keys(s) : x # k => d.hits[x] = b.hits[x]
  BY <1>3 DEF Touched
<1>5. \A x \in Keys(s) : Trim(d.hits[x], WindowOf(s), now)
                           = IF x = k THEN <<>> ELSE Trim(b.hits[x], WindowOf(s), now)
  BY <1>4, TrimEmpty
<1>6. [Unexpired[s] EXCEPT ![k] = <<>>]
        = [x \in Keys(s) |-> IF x = k THEN <<>> ELSE Trim(b.hits[x], WindowOf(s), now)]
  BY <1>2
<1>7. View(d, Keys(s), WindowOf(s), now) = [Unexpired[s] EXCEPT ![k] = <<>>]
  BY <1>5, <1>6 DEF View
<1> QED BY <1>3, <1>7 DEF d, b, k

\* A check is a check of the promise, or changes nothing that the promise sees.
LEMMA CheckRefines ==
  ASSUME IInv, NEW r \in Reqs, NEW q \in Requests, Check(r, q)
  PROVE  IInv' /\ (Promise!Check(r, q) \/ UNCHANGED Promise!vars)
<1> DEFINE C == Consulted(q.flow)
           N == ConsultedNext(q.flow)
           first == Looked(buckets, C, q)
           second == Looked(first, N, q)
           V == Views(buckets, now)
<1>1. C \in SUBSET Scopes /\ N \in SUBSET Scopes
  BY FlowScopes
<1>2. now \in Nat /\ AllOk(buckets, now)
  BY CapAssumption DEF IInv
<1>3. /\ req[r] = NoRequest
      /\ buckets' = IF Below(first, C, q) THEN second ELSE first
      /\ req' = IF Below(first, C, q) /\ Below(second, N, q) THEN [req EXCEPT ![r] = q] ELSE req
      /\ now' = now
  BY DEF Check
<1> HIDE DEF C, N
<1>4. /\ AllOk(first, now) /\ Views(first, now) = V
      /\ Below(first, C, q) <=> \A s \in C : Under(V, s, q)
  BY <1>1, <1>2, LookedKeeps
<1> HIDE DEF first, V
<1>5. /\ AllOk(second, now) /\ Views(second, now) = V
      /\ Below(second, N, q) <=> \A s \in N : Under(V, s, q)
  BY <1>1, <1>2, <1>4, LookedKeeps
<1> HIDE DEF second
<1>6. AllOk(buckets', now') /\ Views(buckets', now') = V
  BY <1>3, <1>4, <1>5
<1>7. Unexpired = V /\ Unexpired' = V
  BY <1>6, Mapping, MappingNext DEF V
<1>8. CASE Below(first, C, q) /\ Below(second, N, q)
  <2>1. req' = [req EXCEPT ![r] = q]
    BY <1>3, <1>8
  <2>2. \A s \in C \cup N : Under(Unexpired, s, q)
    BY <1>4, <1>5, <1>7, <1>8
  <2>3. Promise!Check(r, q)
    BY <1>3, <1>7, <2>1, <2>2, PromiseCheck DEF C, N
  <2>4. IInv'
    BY <1>3, <1>6, <2>1 DEF IInv
  <2> QED BY <2>3, <2>4
<1>9. CASE ~(Below(first, C, q) /\ Below(second, N, q))
  <2>1. req' = req
    BY <1>3, <1>9
  <2>2. UNCHANGED Promise!vars
    BY <1>3, <1>7, <2>1 DEF Promise!vars
  <2> QED BY <1>3, <1>6, <2>1, <2>2 DEF IInv
<1> QED BY <1>8, <1>9

\* A failure is a failure of the promise.
LEMMA FailRefines ==
  ASSUME IInv, NEW r \in Reqs, Fail(r)
  PROVE  IInv' /\ Promise!Fail(r)
<1> DEFINE q == req[r]
<1>1. q \in Requests /\ req[r] # NoRequest /\ now' = now /\ req' = [req EXCEPT ![r] = NoRequest]
  BY DEF IInv, Fail
<1>2. buckets' = [s \in Scopes |-> IF s \in OnFailure(q.flow) THEN Recorded(s, q)
                                   ELSE buckets[s]]
  BY DEF Fail
<1> HIDE DEF q
<1>3. ASSUME NEW s \in Scopes
      PROVE  /\ DictOk(buckets'[s], Keys(s), now')
             /\ Unexpired'[s] = IF s \in OnFailure(q.flow)
                                THEN Promise!Counted(Unexpired[s], KeyOf(s, q))
                                ELSE Unexpired[s]
  <2>1. /\ DictOk(Recorded(s, q), Keys(s), now)
        /\ View(Recorded(s, q), Keys(s), WindowOf(s), now)
             = Promise!Counted(Unexpired[s], KeyOf(s, q))
    BY <1>1, RecordedKeeps
  <2>2. /\ DictOk(buckets[s], Keys(s), now)
        /\ View(buckets[s], Keys(s), WindowOf(s), now) = Unexpired[s]
    BY Mapping DEF IInv, AllOk, Views
  <2>3. Unexpired'[s] = View(buckets'[s], Keys(s), WindowOf(s), now)
    BY <1>1, MappingNext DEF Views
  <2> QED BY <1>1, <1>2, <2>1, <2>2, <2>3
<1>4. IInv'
  BY <1>1, <1>2, <1>3 DEF IInv, AllOk
<1>5. Unexpired' = [s \in Scopes |-> IF s \in OnFailure(q.flow)
                                     THEN Promise!Counted(Unexpired[s], KeyOf(s, q))
                                     ELSE Unexpired[s]]
  BY <1>3, MappingNext DEF Views
<1>6. Promise!Fail(r)
  BY <1>1, <1>5, SameLimits, SameFlows DEF Promise!Fail, q
<1> QED BY <1>4, <1>6

\* A success is a success of the promise.
LEMMA SucceedRefines ==
  ASSUME IInv, NEW r \in Reqs, Succeed(r)
  PROVE  IInv' /\ Promise!Succeed(r)
<1> DEFINE q == req[r]
<1>1. q \in Requests /\ req[r] # NoRequest /\ now' = now /\ req' = [req EXCEPT ![r] = NoRequest]
  BY DEF IInv, Succeed
<1>2. buckets' = [s \in Scopes |->
                    CASE s \in OnSuccess(q.flow) -> Recorded(s, q)
                      [] s \in Forgotten(q.flow) -> Delete(buckets[s], KeyOf(s, q))
                      [] OTHER -> buckets[s]]
  BY DEF Succeed
<1>0. OnSuccess(q.flow) \cap Forgotten(q.flow) = {}
  BY <1>1, LimitsAssumption DEF OnSuccess, Forgotten, Requests
<1> HIDE DEF q
<1> DEFINE v(s) == CASE s \in OnSuccess(q.flow) -> Promise!Counted(Unexpired[s], KeyOf(s, q))
                     [] s \in Forgotten(q.flow) -> [Unexpired[s] EXCEPT ![KeyOf(s, q)] = <<>>]
                     [] OTHER -> Unexpired[s]
<1>3. ASSUME NEW s \in Scopes
      PROVE  DictOk(buckets'[s], Keys(s), now') /\ Unexpired'[s] = v(s)
  <2>1. /\ DictOk(Recorded(s, q), Keys(s), now)
        /\ View(Recorded(s, q), Keys(s), WindowOf(s), now)
             = Promise!Counted(Unexpired[s], KeyOf(s, q))
    BY <1>1, RecordedKeeps
  <2>2. /\ DictOk(buckets[s], Keys(s), now)
        /\ View(buckets[s], Keys(s), WindowOf(s), now) = Unexpired[s]
    BY Mapping DEF IInv, AllOk, Views
  <2>3. /\ DictOk(Delete(buckets[s], KeyOf(s, q)), Keys(s), now)
        /\ View(Delete(buckets[s], KeyOf(s, q)), Keys(s), WindowOf(s), now)
             = [Unexpired[s] EXCEPT ![KeyOf(s, q)] = <<>>]
    BY <1>1, DeletedKeeps, Zenon
  <2>4. Unexpired'[s] = View(buckets'[s], Keys(s), WindowOf(s), now)
    BY <1>1, MappingNext DEF Views
  <2>5. CASE s \in OnSuccess(q.flow)
    <3>1. s \notin Forgotten(q.flow)
      BY <1>0, <2>5
    <3>2. buckets'[s] = Recorded(s, q)
      BY <1>2, <2>5, <3>1
    <3>3. v(s) = Promise!Counted(Unexpired[s], KeyOf(s, q))
      BY <2>5, <3>1
    <3> QED BY <1>1, <2>1, <2>4, <3>2, <3>3
  <2>6. CASE s \notin OnSuccess(q.flow) /\ s \in Forgotten(q.flow)
    <3>1. buckets'[s] = Delete(buckets[s], KeyOf(s, q))
      BY <1>2, <2>6
    <3>2. v(s) = [Unexpired[s] EXCEPT ![KeyOf(s, q)] = <<>>]
      BY <2>6
    <3> QED BY <1>1, <2>3, <2>4, <3>1, <3>2
  <2>7. CASE s \notin OnSuccess(q.flow) /\ s \notin Forgotten(q.flow)
    <3>1. buckets'[s] = buckets[s]
      BY <1>2, <2>7
    <3>2. v(s) = Unexpired[s]
      BY <2>7
    <3> QED BY <1>1, <2>2, <2>4, <3>1, <3>2
  <2> QED BY <2>5, <2>6, <2>7
<1>4. IInv'
  BY <1>1, <1>2, <1>3 DEF IInv, AllOk
<1>5. Unexpired' = [s \in Scopes |-> v(s)]
  <2> HIDE DEF v
  <2> QED BY <1>3, MappingNext DEF Views
<1>6. Promise!Succeed(r)
  <2>1. ASSUME NEW s
        PROVE  v(s) = CASE s \in Promise!OnSuccess(q.flow) ->
                             Promise!Counted(Unexpired[s], Promise!KeyOf(s, q))
                        [] s \in Promise!Forgotten(q.flow) ->
                             [Unexpired[s] EXCEPT ![Promise!KeyOf(s, q)] = <<>>]
                        [] OTHER -> Unexpired[s]
    <3>1. Promise!KeyOf(s, q) = KeyOf(s, q)
      BY SameLimits
    <3>2. /\ Promise!OnSuccess(q.flow) = OnSuccess(q.flow)
          /\ Promise!Forgotten(q.flow) = Forgotten(q.flow)
      BY SameFlows
    <3> QED BY <3>1, <3>2, Zenon
  <2>2. Promise!Scopes = Scopes
    BY SameLimits
  <2> DEFINE u(s) == CASE s \in Promise!OnSuccess(q.flow) ->
                            Promise!Counted(Unexpired[s], Promise!KeyOf(s, q))
                       [] s \in Promise!Forgotten(q.flow) ->
                            [Unexpired[s] EXCEPT ![Promise!KeyOf(s, q)] = <<>>]
                       [] OTHER -> Unexpired[s]
  <2>3. \A s : v(s) = u(s)
    BY <2>1, Zenon
  <2>4. Unexpired' = [s \in Promise!Scopes |-> u(s)]
    <3> HIDE DEF u, v
    <3> QED BY <1>5, <2>2, <2>3
  <2>5. req[r] # NoRequest /\ req' = [req EXCEPT ![r] = NoRequest] /\ now' = now
    BY <1>1
  <2> QED BY <2>4, <2>5, Zenon DEF Promise!Succeed, q
<1> QED BY <1>4, <1>6

\* A request that ends without a record is one of the promise.
LEMMA LeaveRefines ==
  ASSUME IInv, NEW r \in Reqs, Leave(r)
  PROVE  IInv' /\ Promise!Leave(r)
<1>1. Unexpired' = Unexpired
  BY DEF Leave, Unexpired
<1>2. Promise!Leave(r)
  BY <1>1 DEF Leave, Promise!Leave
<1>3. IInv'
  BY DEF Leave, IInv
<1> QED BY <1>2, <1>3

\* When the clock ticks the limiter does nothing, and the promise forgets what expires.
LEMMA TickRefines ==
  ASSUME IInv, Tick
  PROVE  IInv' /\ Promise!Tick
<1>1. /\ now \in Nat /\ now < MaxTime /\ now' = now + 1 /\ buckets' = buckets /\ req' = req
      /\ now' \in 0..MaxTime
  BY CapAssumption DEF IInv, Tick
<1>2. ASSUME NEW s \in Scopes
      PROVE  /\ DictOk(buckets[s], Keys(s), now + 1)
             /\ View(buckets[s], Keys(s), WindowOf(s), now + 1)
                  = [k \in Keys(s) |-> Promise!Recent(Unexpired[s][k], WindowOf(s), now + 1)]
  <2>1. DictOk(buckets[s], Keys(s), now) /\ WindowOf(s) \in Nat
    BY WindowType DEF IInv, AllOk
  <2>2. Unexpired[s] = View(buckets[s], Keys(s), WindowOf(s), now)
    BY Mapping DEF Views
  <2>3. /\ DictOk(buckets[s], Keys(s), now + 1)
        /\ View(buckets[s], Keys(s), WindowOf(s), now + 1)
             = [k \in Keys(s) |-> Promise!Recent(View(buckets[s], Keys(s), WindowOf(s), now)[k],
                                                 WindowOf(s), now + 1)]
    BY <1>1, <2>1, LaterKeeps
  <2> QED BY <2>2, <2>3
<1>3. IInv'
  BY <1>1, <1>2 DEF IInv, AllOk
<1>4. Unexpired' = [s \in Scopes |-> [k \in Keys(s) |->
                      Promise!Recent(Unexpired[s][k], WindowOf(s), now + 1)]]
  BY <1>1, <1>2, MappingNext DEF Views
<1>5. Promise!Tick
  BY <1>1, <1>4, SameLimits DEF Promise!Tick
<1> QED BY <1>3, <1>5

\* Every step is a step of the promise or one that it does not see.
LEMMA StepRefines ==
  ASSUME IInv, [Next]_vars
  PROVE  IInv' /\ [Promise!Next]_(Promise!vars)
<1>1. ASSUME NEW r \in Reqs, NEW q \in Requests, Check(r, q)
      PROVE  IInv' /\ [Promise!Next]_(Promise!vars)
  BY <1>1, CheckRefines, SameLimits DEF Promise!Next
<1>2. ASSUME NEW r \in Reqs, Fail(r) PROVE IInv' /\ [Promise!Next]_(Promise!vars)
  BY <1>2, FailRefines DEF Promise!Next
<1>3. ASSUME NEW r \in Reqs, Succeed(r) PROVE IInv' /\ [Promise!Next]_(Promise!vars)
  BY <1>3, SucceedRefines DEF Promise!Next
<1>4. ASSUME NEW r \in Reqs, Leave(r) PROVE IInv' /\ [Promise!Next]_(Promise!vars)
  BY <1>4, LeaveRefines DEF Promise!Next
<1>5. CASE Tick
  BY <1>5, TickRefines DEF Promise!Next
<1>6. CASE UNCHANGED vars
  <2>1. Unexpired' = Unexpired
    BY <1>6 DEF vars, Unexpired
  <2>2. UNCHANGED Promise!vars
    BY <1>6, <2>1 DEF vars, Promise!vars
  <2>3. IInv'
    BY <1>6 DEF vars, IInv
  <2> QED BY <2>2, <2>3
<1> QED BY <1>1, <1>2, <1>3, <1>4, <1>5, <1>6 DEF Next

\* An empty limiter is an empty promise.
LEMMA InitRefines ==
  ASSUME Init
  PROVE  IInv /\ Promise!Init
<1>1. ASSUME NEW s \in Scopes
      PROVE  /\ DictOk(buckets[s], Keys(s), 0)
             /\ \A k \in Keys(s) : buckets[s].hits[k] = <<>>
  <2> DEFINE h == [k \in Keys(s) |-> <<>>]
             b == [order |-> <<>>, hits |-> h]
  <2>1. buckets[s] = b
    BY DEF Init
  <2>2. <<>> \in Seq(Nat) /\ <<>> \in Seq(Keys(s)) /\ Len(<<>>) = 0 /\ 1..0 = {}
    OBVIOUS
  <2>3. h \in [Keys(s) -> Seq(Nat)] /\ \A k \in Keys(s) : h[k] = <<>>
    BY <2>2
  <2> HIDE DEF h
  <2>4. b \in [order : Seq(Keys(s)), hits : [Keys(s) -> Seq(Nat)]]
        /\ b.order = <<>> /\ b.hits = h
    BY <2>2, <2>3
  <2> HIDE DEF b
  <2>5. Once(<<>>) /\ Oldest(<<>>, h) /\ \A k : ~Stands(<<>>, k)
    BY <2>2 DEF Once, Oldest, Stands
  <2>6. Len(<<>>) <= Cap
    BY <2>2, CapAssumption
  <2>7. \A k \in Keys(s) : Past(h[k], 0)
    BY <2>3, TrimEmpty
  <2>8. DictOk(b, Keys(s), 0)
    BY <2>3, <2>4, <2>5, <2>6, <2>7 DEF DictOk
  <2> QED BY <2>1, <2>3, <2>4, <2>8
<1>2. /\ now = 0 /\ req = [r \in Reqs |-> NoRequest] /\ DOMAIN buckets = Scopes
      /\ 0 \in 0..MaxTime
  BY CapAssumption DEF Init
<1>3. IInv
  BY <1>1, <1>2 DEF IInv, AllOk
<1>4. Unexpired = [s \in Scopes |-> [k \in Keys(s) |-> <<>>]]
  BY <1>1, TrimEmpty DEF Unexpired
<1>5. Promise!Init
  BY <1>2, <1>4, SameLimits DEF Promise!Init
<1> QED BY <1>3, <1>5

\* The invariant holds always.
LEMMA Invariance == Spec => []IInv
<1>1. Init => IInv
  BY InitRefines
<1>2. IInv /\ [Next]_vars => IInv'
  BY StepRefines
<1> QED BY <1>1, <1>2, PTL DEF Spec

\* The invariant of the dictionaries contains TypeOK and BucketsBounded.
LEMMA InvariantImplies == IInv => TypeOK /\ BucketsBounded
<1> SUFFICES ASSUME IInv PROVE TypeOK /\ BucketsBounded
  OBVIOUS
<1>1. ASSUME NEW s \in Scopes
      PROVE  /\ DOMAIN buckets[s].hits = Keys(s)
             /\ IsInjective(buckets[s].order)
             /\ Range(buckets[s].order) = {k \in Keys(s) : buckets[s].hits[k] # <<>>}
             /\ \A k \in Keys(s) : /\ buckets[s].hits[k] \in Seq(0..now)
                                   /\ IsSorted(buckets[s].hits[k], <=)
             /\ Len(buckets[s].order) <= Cap
  <2> DEFINE o == buckets[s].order
             h == buckets[s].hits
             K == Keys(s)
  <2>1. /\ o \in Seq(K) /\ h \in [K -> Seq(Nat)] /\ Once(o)
        /\ \A x \in K : h[x] # <<>> <=> Stands(o, x)
        /\ \A x \in K : Past(h[x], now)
        /\ Len(o) <= Cap
    BY DEF IInv, AllOk, DictOk
  <2>2. now \in Nat
    BY CapAssumption DEF IInv
  <2> HIDE DEF o, h, K
  <2>3. IsInjective(o)
    <3>1. DOMAIN o = 1..Len(o)
      BY <2>1
    <3> QED BY <2>1, <3>1 DEF IsInjective, Once
  <2>4. Range(o) = {k \in K : h[k] # <<>>}
    <3>1. DOMAIN o = 1..Len(o) /\ \A i \in 1..Len(o) : o[i] \in K
      BY <2>1
    <3> QED BY <2>1, <3>1 DEF Range, Stands
  <2>5. ASSUME NEW k \in K PROVE h[k] \in Seq(0..now) /\ IsSorted(h[k], <=)
    <3>1. /\ h[k] \in Seq(Nat) /\ \A i \in 1..Len(h[k]) : h[k][i] <= now
          /\ \A i, j \in 1..Len(h[k]) : i < j => h[k][i] <= h[k][j]
      BY <2>1 DEF Past
    <3>2. \A i \in 1..Len(h[k]) : h[k][i] \in 0..now
      BY <2>2, <3>1
    <3>3. h[k] \in Seq(0..now)
      <4>1. Len(h[k]) \in Nat /\ h[k] \in [1..Len(h[k]) -> 0..now]
        BY <3>1, <3>2
      <4> QED BY <4>1, SeqDef
    <3>4. IsSorted(h[k], <=)
      BY <3>1 DEF IsSorted
    <3> QED BY <3>3, <3>4
  <2> QED BY <2>1, <2>3, <2>4, <2>5 DEF o, h, K
<1>2. TypeOK
  BY <1>1 DEF TypeOK, IInv
<1> QED BY <1>1, <1>2 DEF BucketsBounded

\* The dictionaries list exactly the keys with a bucket, each once, and the deques hold
\* past times in order, for every cap, window and set of keys.
THEOREM TypeCorrect == Spec => []TypeOK
  BY Invariance, InvariantImplies, PTL

\* No scope ever holds more than Cap buckets.
THEOREM CapIsKept == Spec => []BucketsBounded
  BY Invariance, InvariantImplies, PTL

\* InMemoryLoginRateLimiter implements the sliding window: lazy trimming and eviction
\* from the front count exactly the records of the last window.
THEOREM WindowIsImplemented == Spec => ImplementsWindow
<1>1. Init => Promise!Init
  BY InitRefines
<1>2. IInv /\ [Next]_vars => [Promise!Next]_(Promise!vars)
  BY StepRefines
<1> QED BY <1>1, <1>2, Invariance, PTL DEF Spec, ImplementsWindow, Promise!Spec

-----------------------------------------------------------------------------
(* The bound on check-then-record. *)

\* The requests that may still be recorded in scope s under key k.
Flight(s, k) == {r \in Reqs : /\ req[r] # NoRequest
                              /\ s \in OnFailure(req[r].flow) \cup OnSuccess(req[r].flow)
                              /\ KeyOf(s, req[r]) = k}

\* The bound in the limiter's terms.
Bound(s, k) == Len(Unexpired[s][k]) + Cardinality(Flight(s, k))
                 <= Limit(s) - 1 + Cardinality(Reqs)

\* The promise's bound is this one.
LEMMA BoundIs == Overshoot <=> \A s \in Scopes : \A k \in Keys(s) : Bound(s, k)
<1>1. ASSUME NEW s, NEW k PROVE Promise!InFlight(s, k) = Flight(s, k)
  BY SameLimits, SameFlows DEF Promise!InFlight, Flight
<1>2. ASSUME NEW s, NEW k
      PROVE  /\ Promise!Cardinality(Promise!InFlight(s, k)) = Cardinality(Flight(s, k))
             /\ Promise!Cardinality(Reqs) = Cardinality(Reqs)
             /\ Promise!Limit(s) = Limit(s)
  BY <1>1, SameCardinality, SameLimits
<1>3. /\ Promise!Scopes = Scopes /\ \A s : Promise!Keys(s) = Keys(s)
  BY SameLimits
<1> QED BY <1>2, <1>3 DEF Overshoot, Promise!Overshoot, Bound

\* The same after a step.
LEMMA BoundNext == Overshoot' <=> \A s \in Scopes : \A k \in Keys(s) : Bound(s, k)'
<1>1. ASSUME NEW s, NEW k PROVE Promise!InFlight(s, k)' = Flight(s, k)'
  BY SameLimits, SameFlows DEF Promise!InFlight, Flight
<1>2. ASSUME NEW s, NEW k
      PROVE  /\ Promise!Cardinality(Promise!InFlight(s, k)') = Cardinality(Flight(s, k)')
             /\ Promise!Cardinality(Reqs) = Cardinality(Reqs)
             /\ Promise!Limit(s) = Limit(s)
  BY <1>1, SameCardinality, SameLimits
<1>3. /\ Promise!Scopes = Scopes /\ \A s : Promise!Keys(s) = Keys(s)
  BY SameLimits
<1> QED BY <1>2, <1>3 DEF Overshoot, Promise!Overshoot, Bound

\* The live records are lists of times.
LEMMA ViewType ==
  ASSUME NEW b, NEW K, NEW t \in Nat, DictOk(b, K, t), NEW w \in Nat
  PROVE  View(b, K, w, t) \in [K -> Seq(Nat)]
<1>1. ASSUME NEW k \in K PROVE Trim(b.hits[k], w, t) \in Seq(Nat)
  <2>1. Past(b.hits[k], t)
    BY DEF DictOk
  <2>2. Past(Trim(b.hits[k], w, t), t)
    BY <2>1, TrimKeeps
  <2> QED BY <2>2 DEF Past
<1> QED BY <1>1 DEF View

\* Before and after a step.
LEMMA UnexpiredType ==
  /\ IInv => \A s \in Scopes : Unexpired[s] \in [Keys(s) -> Seq(Nat)]
  /\ IInv' => \A s \in Scopes : Unexpired'[s] \in [Keys(s) -> Seq(Nat)]
<1>1. ASSUME IInv, NEW s \in Scopes PROVE Unexpired[s] \in [Keys(s) -> Seq(Nat)]
  <2>1. DictOk(buckets[s], Keys(s), now) /\ now \in Nat /\ WindowOf(s) \in Nat
    BY <1>1, WindowType, CapAssumption DEF IInv, AllOk
  <2>2. Unexpired[s] = View(buckets[s], Keys(s), WindowOf(s), now)
    BY Mapping DEF Views
  <2> QED BY <2>1, <2>2, ViewType
<1>2. ASSUME IInv', NEW s \in Scopes PROVE Unexpired'[s] \in [Keys(s) -> Seq(Nat)]
  <2>1. DictOk(buckets'[s], Keys(s), now') /\ now' \in Nat /\ WindowOf(s) \in Nat
    BY <1>2, WindowType, CapAssumption DEF IInv, AllOk
  <2>2. Unexpired'[s] = View(buckets'[s], Keys(s), WindowOf(s), now')
    BY MappingNext DEF Views
  <2> QED BY <2>1, <2>2, ViewType
<1> QED BY <1>1, <1>2

\* Counting adds at most one record, and only under the given key.
LEMMA CountedBound ==
  ASSUME NEW K, NEW l \in [K -> Seq(Nat)], NEW k \in K, NEW t \in Nat, NEW j \in K
  PROVE  /\ Len(CountedAt(l, k, t)[j]) <= Len(l[j]) + 1
         /\ j # k => CountedAt(l, k, t)[j] = l[j]
<1>1. l[j] \in Seq(Nat) /\ Len(l[j]) \in Nat /\ Len(Append(l[j], t)) = Len(l[j]) + 1
  BY AppendProperties
<1>2. CASE CountedAt(l, k, t) = l
  BY <1>1, <1>2
<1>3. CASE CountedAt(l, k, t) = [l EXCEPT ![k] = Append(@, t)]
  <2>1. CountedAt(l, k, t)[j] = IF j = k THEN Append(l[j], t) ELSE l[j]
    BY <1>3
  <2> QED BY <1>1, <2>1
<1> QED BY <1>2, <1>3 DEF CountedAt

\* The requests in flight are finitely many, at most all of them.
LEMMA FlightFinite ==
  ASSUME NEW s, NEW k
  PROVE  /\ IsFiniteSet(Flight(s, k)) /\ Cardinality(Flight(s, k)) \in Nat
         /\ Cardinality(Reqs) \in Nat
         /\ Cardinality(Flight(s, k)') \in Nat
         /\ Cardinality(Flight(s, k)') <= Cardinality(Reqs)
<1>1. Flight(s, k) \in SUBSET Reqs /\ Flight(s, k)' \in SUBSET Reqs
  BY DEF Flight
<1>2. IsFiniteSet(Reqs)
  BY LimitsAssumption
<1> QED BY <1>1, <1>2, FS_Subset, FS_CardinalityType

\* A request that ends leaves the flight.
LEMMA FlightLeft ==
  ASSUME IInv, NEW r \in Reqs, req[r] # NoRequest, req' = [req EXCEPT ![r] = NoRequest],
         NEW s, NEW k
  PROVE  Cardinality(Flight(s, k)') = IF r \in Flight(s, k) THEN Cardinality(Flight(s, k)) - 1
                                      ELSE Cardinality(Flight(s, k))
<1>1. Flight(s, k)' = Flight(s, k) \ {r}
  BY DEF Flight, IInv
<1>2. Cardinality(Flight(s, k) \ {r})
        = IF r \in Flight(s, k) THEN Cardinality(Flight(s, k)) - 1 ELSE Cardinality(Flight(s, k))
  BY FlightFinite, FS_RemoveElement
<1> QED BY <1>1, <1>2

\* A request that ends adds at most one record, and only where it was in flight.
LEMMA EndBound ==
  ASSUME IInv, IInv', NEW r \in Reqs, req[r] # NoRequest, req' = [req EXCEPT ![r] = NoRequest],
         NEW s \in Scopes, NEW k \in Keys(s), Bound(s, k),
         Len(Unexpired'[s][k]) <= Len(Unexpired[s][k]) + 1,
         r \notin Flight(s, k) => Len(Unexpired'[s][k]) <= Len(Unexpired[s][k])
  PROVE  Bound(s, k)'
<1>0. Unexpired[s] \in [Keys(s) -> Seq(Nat)] /\ Unexpired'[s] \in [Keys(s) -> Seq(Nat)]
  BY UnexpiredType
<1>1. Len(Unexpired[s][k]) \in Nat /\ Len(Unexpired'[s][k]) \in Nat /\ Limit(s) \in Nat
  BY <1>0, LimitPositive
<1>2. /\ Cardinality(Flight(s, k)) \in Nat /\ Cardinality(Reqs) \in Nat
      /\ Cardinality(Flight(s, k)') \in Nat
  BY FlightFinite
<1>3. Cardinality(Flight(s, k)') = IF r \in Flight(s, k) THEN Cardinality(Flight(s, k)) - 1
                                   ELSE Cardinality(Flight(s, k))
  BY FlightLeft
<1>4. Len(Unexpired[s][k]) + Cardinality(Flight(s, k)) <= Limit(s) - 1 + Cardinality(Reqs)
  BY DEF Bound
<1>5. Len(Unexpired'[s][k]) + Cardinality(Flight(s, k)') <= Limit(s) - 1 + Cardinality(Reqs)
  <2> DEFINE x == Len(Unexpired[s][k])
             y == Len(Unexpired'[s][k])
             c == Cardinality(Flight(s, k))
             d == Cardinality(Flight(s, k)')
             n == Cardinality(Reqs)
             m == Limit(s)
  <2>1. x \in Nat /\ y \in Nat /\ c \in Nat /\ d \in Nat /\ n \in Nat /\ m \in Nat
    BY <1>1, <1>2
  <2>2. x + c <= m - 1 + n /\ y <= x + 1
    BY <1>4
  <2>3. d = c - 1 \/ (d = c /\ y <= x)
    BY <1>3
  <2> HIDE DEF x, y, c, d, n, m
  <2>4. y + d <= m - 1 + n
    BY <2>1, <2>2, <2>3
  <2> QED BY <2>4 DEF y, d, m, n
<1> QED BY <1>5 DEF Bound

\* Forgetting expired records does not lengthen a list.
LEMMA RecentBound ==
  ASSUME NEW q \in Seq(Nat), NEW w, NEW t
  PROVE  Len(Promise!Recent(q, w, t)) <= Len(q)
<1> DEFINE E == {i \in DOMAIN q : t - q[i] > w}
<1>1. IsFiniteSet(1..Len(q))
  BY FS_Interval
<1>2. E \in SUBSET (1..Len(q))
  OBVIOUS
<1>3. Cardinality(E) \in Nat
  BY <1>1, <1>2, FS_Subset, FS_CardinalityType
<1>4. Promise!Recent(q, w, t) = SubSeq(q, Cardinality(E) + 1, Len(q))
  BY SameCardinality DEF Promise!Recent
<1> HIDE DEF E
<1>5. Len(SubSeq(q, Cardinality(E) + 1, Len(q))) <= Len(q)
  BY <1>3
<1> QED BY <1>4, <1>5

\* Every step keeps the bound.
LEMMA StepKeepsBound ==
  ASSUME IInv, Overshoot, [Next]_vars
  PROVE  Overshoot'
<1> SUFFICES ASSUME NEW s \in Scopes, NEW k \in Keys(s) PROVE Bound(s, k)'
  BY BoundNext
<1>0. IInv' /\ Bound(s, k) /\ now \in Nat
  BY StepRefines, BoundIs, CapAssumption DEF IInv
<1>a. Unexpired[s] \in [Keys(s) -> Seq(Nat)] /\ Unexpired'[s] \in [Keys(s) -> Seq(Nat)]
  BY <1>0, UnexpiredType
<1>b. Unexpired[s][k] \in Seq(Nat) /\ Len(Unexpired[s][k]) \in Nat /\ Limit(s) \in Nat
      /\ Len(Unexpired'[s][k]) \in Nat
  BY <1>a, LimitPositive
<1>c. /\ Cardinality(Flight(s, k)) \in Nat /\ Cardinality(Reqs) \in Nat
      /\ Cardinality(Flight(s, k)') \in Nat
      /\ Cardinality(Flight(s, k)') <= Cardinality(Reqs)
  BY FlightFinite
<1>1. ASSUME NEW r \in Reqs, NEW q \in Requests, Check(r, q) PROVE Bound(s, k)'
  <2>1. Unexpired' = Unexpired
    BY <1>1, CheckRefines DEF Promise!Check, Promise!vars
  <2>2. Promise!Check(r, q) \/ UNCHANGED Promise!vars
    BY <1>1, CheckRefines
  <2>3. CASE UNCHANGED Promise!vars
    BY <1>0, <2>1, <2>3 DEF Promise!vars, Bound, Flight
  <2>4. CASE Promise!Check(r, q)
    <3>1. req' = [req EXCEPT ![r] = q] /\ req[r] = NoRequest
      BY <2>4 DEF Promise!Check
    <3>2. CASE s \in OnFailure(q.flow) \cup OnSuccess(q.flow) /\ KeyOf(s, q) = k
      <4>1. s \in Consulted(q.flow) \cup ConsultedNext(q.flow)
        BY <3>2, FlowScopes
      <4>2. Len(Unexpired[s][k]) < Limit(s)
        BY <2>4, <3>2, <4>1, SameLimits, SameFlows DEF Promise!Check, Promise!Allowed
      <4> QED BY <1>b, <1>c, <2>1, <4>2 DEF Bound
    <3>3. CASE ~(s \in OnFailure(q.flow) \cup OnSuccess(q.flow) /\ KeyOf(s, q) = k)
      <4>1. Flight(s, k)' = Flight(s, k)
        BY <3>1, <3>3 DEF Flight, IInv
      <4> QED BY <1>0, <2>1, <4>1 DEF Bound
    <3> QED BY <3>2, <3>3
  <2> QED BY <2>2, <2>3, <2>4
<1>2. ASSUME NEW r \in Reqs, Fail(r) PROVE Bound(s, k)'
  <2>1. /\ req[r] \in Requests /\ req[r] # NoRequest /\ req' = [req EXCEPT ![r] = NoRequest]
        /\ KeyOf(s, req[r]) \in Keys(s)
    BY <1>2, KeyType DEF Fail, IInv
  <2>2. Unexpired'[s] = IF s \in OnFailure(req[r].flow)
                        THEN CountedAt(Unexpired[s], KeyOf(s, req[r]), now) ELSE Unexpired[s]
    <3>1. Promise!Fail(r)
      BY <1>2, FailRefines
    <3>2. Unexpired'[s] = IF s \in Promise!OnFailure(req[r].flow)
                          THEN Promise!Counted(Unexpired[s], Promise!KeyOf(s, req[r]))
                          ELSE Unexpired[s]
      BY <3>1, SameLimits DEF Promise!Fail
    <3> QED BY <3>2, SameLimits, SameFlows, PromiseCounted
  <2>3. /\ Len(CountedAt(Unexpired[s], KeyOf(s, req[r]), now)[k]) <= Len(Unexpired[s][k]) + 1
        /\ k # KeyOf(s, req[r])
             => CountedAt(Unexpired[s], KeyOf(s, req[r]), now)[k] = Unexpired[s][k]
    <3> DEFINE l == Unexpired[s]
               key == KeyOf(s, req[r])
    <3>1. l \in [Keys(s) -> Seq(Nat)] /\ key \in Keys(s)
      BY <1>a, <2>1
    <3> HIDE DEF l, key
    <3>2. /\ Len(CountedAt(l, key, now)[k]) <= Len(l[k]) + 1
          /\ k # key => CountedAt(l, key, now)[k] = l[k]
      BY <1>0, <3>1, CountedBound
    <3> QED BY <3>2 DEF l, key
  <2>4. r \notin Flight(s, k) => s \notin OnFailure(req[r].flow) \/ k # KeyOf(s, req[r])
    BY <2>1 DEF Flight
  <2>5. /\ Len(Unexpired'[s][k]) <= Len(Unexpired[s][k]) + 1
        /\ r \notin Flight(s, k) => Len(Unexpired'[s][k]) <= Len(Unexpired[s][k])
    BY <1>b, <2>2, <2>3, <2>4
  <2> QED BY <1>0, <2>1, <2>5, EndBound
<1>3. ASSUME NEW r \in Reqs, Succeed(r) PROVE Bound(s, k)'
  <2>1. /\ req[r] \in Requests /\ req[r] # NoRequest /\ req' = [req EXCEPT ![r] = NoRequest]
        /\ KeyOf(s, req[r]) \in Keys(s)
    BY <1>3, KeyType DEF Succeed, IInv
  <2> DEFINE key == KeyOf(s, req[r])
             c == CountedAt(Unexpired[s], key, now)
  <2>2. \/ s \in OnSuccess(req[r].flow) /\ Unexpired'[s] = c
        \/ Unexpired'[s] = [Unexpired[s] EXCEPT ![key] = <<>>]
        \/ Unexpired'[s] = Unexpired[s]
    <3>1. Promise!Succeed(r)
      BY <1>3, SucceedRefines
    <3>2. \/ s \in Promise!OnSuccess(req[r].flow)
             /\ Unexpired'[s] = Promise!Counted(Unexpired[s], Promise!KeyOf(s, req[r]))
          \/ Unexpired'[s] = [Unexpired[s] EXCEPT ![Promise!KeyOf(s, req[r])] = <<>>]
          \/ Unexpired'[s] = Unexpired[s]
      BY <3>1, SameLimits DEF Promise!Succeed
    <3>3. Promise!KeyOf(s, req[r]) = key
      BY SameLimits
    <3>4. /\ Promise!OnSuccess(req[r].flow) = OnSuccess(req[r].flow)
          /\ Promise!Counted(Unexpired[s], key) = c
      BY SameFlows, PromiseCounted
    <3> HIDE DEF c, key
    <3> QED BY <3>2, <3>3, <3>4
  <2>3. Len(c[k]) <= Len(Unexpired[s][k]) + 1 /\ (k # key => c[k] = Unexpired[s][k])
    <3> DEFINE l == Unexpired[s]
    <3>1. l \in [Keys(s) -> Seq(Nat)] /\ key \in Keys(s)
      BY <1>a, <2>1
    <3> HIDE DEF l, key
    <3>2. /\ Len(CountedAt(l, key, now)[k]) <= Len(l[k]) + 1
          /\ k # key => CountedAt(l, key, now)[k] = l[k]
      BY <1>0, <3>1, CountedBound
    <3> QED BY <3>2 DEF l
  <2>4. r \notin Flight(s, k) => s \notin OnSuccess(req[r].flow) \/ k # key
    BY <2>1 DEF Flight
  <2>5. [Unexpired[s] EXCEPT ![key] = <<>>][k] = IF k = key THEN <<>> ELSE Unexpired[s][k]
    BY <1>a, <2>1
  <2> HIDE DEF key, c
  <2>6. /\ Len(Unexpired'[s][k]) <= Len(Unexpired[s][k]) + 1
        /\ r \notin Flight(s, k) => Len(Unexpired'[s][k]) <= Len(Unexpired[s][k])
    <3>1. CASE s \in OnSuccess(req[r].flow) /\ Unexpired'[s] = c
      BY <1>b, <2>3, <2>4, <3>1
    <3>2. CASE Unexpired'[s] = [Unexpired[s] EXCEPT ![key] = <<>>]
      <4>1. Unexpired'[s][k] = <<>> \/ Unexpired'[s][k] = Unexpired[s][k]
        BY <2>5, <3>2
      <4>2. Len(<<>>) = 0
        OBVIOUS
      <4> QED BY <1>b, <4>1, <4>2
    <3>3. CASE Unexpired'[s] = Unexpired[s]
      BY <1>b, <3>3
    <3> QED BY <2>2, <3>1, <3>2, <3>3
  <2> QED BY <1>0, <2>1, <2>6, EndBound
<1>4. ASSUME NEW r \in Reqs, Leave(r) PROVE Bound(s, k)'
  <2>1. req[r] # NoRequest /\ req' = [req EXCEPT ![r] = NoRequest] /\ Unexpired' = Unexpired
    BY <1>4 DEF Leave, Unexpired
  <2>2. /\ Len(Unexpired'[s][k]) <= Len(Unexpired[s][k]) + 1
        /\ Len(Unexpired'[s][k]) <= Len(Unexpired[s][k])
    BY <1>b, <2>1
  <2> QED BY <1>0, <2>1, <2>2, EndBound
<1>5. CASE Tick
  <2>1. Unexpired'[s][k] = Promise!Recent(Unexpired[s][k], WindowOf(s), now + 1) /\ req' = req
    BY <1>5, TickRefines, SameLimits DEF Promise!Tick
  <2>2. Len(Unexpired'[s][k]) <= Len(Unexpired[s][k])
    BY <1>b, <2>1, RecentBound
  <2>3. Flight(s, k)' = Flight(s, k)
    BY <2>1 DEF Flight
  <2> QED BY <1>0, <1>b, <1>c, <2>2, <2>3 DEF Bound
<1>6. CASE UNCHANGED vars
  BY <1>0, <1>6 DEF vars, Bound, Unexpired, Flight
<1> QED BY <1>1, <1>2, <1>3, <1>4, <1>5, <1>6 DEF Next

\* Nothing is recorded and nobody is in flight.
LEMMA InitBound == Init => Overshoot
<1> SUFFICES ASSUME Init, NEW s \in Scopes, NEW k \in Keys(s) PROVE Bound(s, k)
  BY BoundIs
<1>1. Flight(s, k) = {}
  BY DEF Flight, Init
<1>2. Unexpired[s][k] = <<>>
  BY InitRefines, SameLimits DEF Promise!Init
<1>3. Len(<<>>) = 0 /\ Cardinality({}) = 0 /\ Limit(s) \in Nat \ {0}
  BY FS_EmptySet, LimitPositive
<1>4. Cardinality(Reqs) \in Nat
  BY FlightFinite
<1> QED BY <1>1, <1>2, <1>3, <1>4 DEF Bound

\* With n concurrent requests no key of the limiter ever collects more than
\* limit - 1 + n records in a window, for all caps, limits, windows and key sets.
THEOREM OvershootIsBounded == Spec => []Overshoot
<1>1. Init => Overshoot
  BY InitBound
<1>2. IInv /\ Overshoot /\ [Next]_vars => Overshoot'
  BY StepKeepsBound
<1> QED BY <1>1, <1>2, Invariance, PTL DEF Spec
=============================================================================
