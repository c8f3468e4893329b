----------------------- MODULE SessionLifetimeProofs -----------------------
(***************************************************************************)
(* Proofs about SessionLifetime, for every TTL, touch interval and bound   *)
(* on the duration of a request, and about ReplayAudit, for any numbers of *)
(* requests and addresses and any windows.                                 *)
(***************************************************************************)
EXTENDS ReplayAudit, FiniteSetTheorems, SequenceTheorems, WellFoundedInduction, TLAPS

\* The touch interval that the settings allow, and what it costs.
LEMMA IntervalIsInt == Interval \in Int /\ Slack \in Int /\ Lag \in Int
                       /\ Slack >= 2 * MaxDelay /\ Slack >= Interval - 1 + Lag
                       /\ Lag >= 0 /\ Lag <= 2 * MaxDelay
                       /\ (Interval < 2 * MaxDelay => Lag = 2 * MaxDelay)
BY LifetimeAssumption DEF Interval, Slack, Lag, Least, Most

LEMMA ExpiryFacts ==
  ASSUME NEW a \in Time, NEW b \in Time
  PROVE  /\ Expiry(a, b) \in Nat
         /\ Expiry(a, b) <= a + AbsoluteTtl /\ Expiry(a, b) <= b + IdleTtl
         /\ Expiry(a, b) = a + AbsoluteTtl \/ Expiry(a, b) = b + IdleTtl
BY LifetimeAssumption DEF Expiry, Least, Time

\* The types as integers, for the arithmetic.
Ints ==
  /\ now \in Int /\ used \in Int
  /\ row.seen \in Int /\ row.issued \in Int /\ row.expires \in Int
  /\ \A q \in Reqs : /\ began[q] \in Int /\ stamp[q] \in Int
                     /\ copy[q].seen \in Int /\ copy[q].expires \in Int

LEMMA TypesAreInts == TypeOK => Ints
BY LifetimeAssumption DEF TypeOK, Ints, Time

LEMMA ConstantsAreInts ==
  /\ MaxDelay \in Int /\ MaxDelay >= 0 /\ MaxTime \in Int /\ MaxTime >= 0
  /\ IdleTtl \in Int /\ IdleTtl > 0 /\ AbsoluteTtl \in Int /\ AbsoluteTtl > 0
BY LifetimeAssumption

\* A row that backs a time backs every earlier one.
LEMMA BacksEarlier ==
  ASSUME row.expires \in Int, row.issued \in Int, NEW t \in Int, NEW u \in Int, u <= t, Backs(t)
  PROVE  Backs(u)
BY ConstantsAreInts DEF Backs, Least

LEMMA InitInv == Init => IInv
<1> SUFFICES ASSUME Init PROVE IInv
  OBVIOUS
<1>0. 0 \in Time
  BY LifetimeAssumption DEF Time
<1>1. TypeOK
  BY <1>0, ExpiryFacts DEF Init, TypeOK, Issued, NoCopy
<1>2. InFlight /\ AbsoluteLimit /\ IdleLimit
  BY DEF Init, InFlight, AbsoluteLimit, IdleLimit, Accepted
<1>3. /\ row.seen = 0 /\ used = 0 /\ now = 0 /\ row.issued = 0
      /\ row.expires = Expiry(0, 0)
  BY DEF Init, Issued
<1>4. /\ row.expires \in Int /\ row.expires <= 0 + AbsoluteTtl /\ row.expires <= 0 + IdleTtl
  BY <1>0, <1>3, ExpiryFacts
<1>5. Backs(0)
  BY <1>3, <1>4, ConstantsAreInts DEF Backs, Expiry, Least
<1>6. Backs(0 - Lag) /\ Backs(0 - Slack)
  <2>1. 0 - Lag \in Int /\ 0 - Lag <= 0 /\ 0 - Slack \in Int /\ 0 - Slack <= 0
    BY IntervalIsInt, ConstantsAreInts
  <2>2. row.issued \in Int
    BY <1>3
  <2>3. Backs(0 - Lag)
    BY <2>1, <2>2, <1>4, <1>5, BacksEarlier
  <2> QED BY <2>1, <2>2, <2>3, <1>4, <1>5, BacksEarlier
<1>7. RowInv
  BY <1>3, <1>4, <1>6 DEF RowInv, WithinIdle
<1> QED BY <1>1, <1>2, <1>7 DEF IInv

\* What the invariant says of request q alone.
Flight(q) ==
  /\ pc[q] # "idle" => began[q] <= now /\ now <= began[q] + MaxDelay
  /\ pc[q] = "touch" =>
       /\ began[q] <= stamp[q] /\ stamp[q] <= now
       /\ Interval > 0 => stamp[q] - copy[q].seen >= Interval
  /\ pc[q] = "found" => Backs(copy[q].seen - Lag) \/ Backs(began[q] - MaxDelay)
  /\ Accepted(q) => /\ row.expires = copy[q].expires \/ Backs(began[q] - MaxDelay)
                    /\ WithinIdle(copy[q])
  /\ Accepted(q) => began[q] < row.issued + AbsoluteTtl /\ began[q] < used + IdleTtl

LEMMA FlightOfEach ==
  (\A q \in Reqs : Flight(q)) <=> InFlight /\ AbsoluteLimit /\ IdleLimit
BY DEF Flight, InFlight, AbsoluteLimit, IdleLimit

\* A request that a step leaves alone keeps its part of the invariant when expires_at
\* stays or becomes recent.
LEMMA OthersKeepFlight ==
  ASSUME IInv, NEW q \in Reqs, now' = now,
         pc'[q] = pc[q], began'[q] = began[q], copy'[q] = copy[q], stamp'[q] = stamp[q],
         row'.issued = row.issued, row'.expires \in Int,
         row'.expires = row.expires \/ Backs(now - MaxDelay)',
         used' \in Int, used' >= used
  PROVE  Flight(q)'
<1>t. Ints /\ Flight(q)
  BY TypesAreInts, FlightOfEach DEF IInv
<1>1. Accepted(q)' = Accepted(q)
  BY DEF Accepted
<1>2. ASSUME pc[q] # "idle", Backs(now - MaxDelay)' PROVE Backs(began[q] - MaxDelay)'
  <2>1. began[q] <= now
    BY <1>2, <1>t DEF Flight
  <2> QED BY <1>2, <2>1, <1>t, ConstantsAreInts DEF Ints, Backs, Least
<1>3. ASSUME NEW t \in Int, row'.expires = row.expires, Backs(t)
      PROVE  row'.expires >= Least(row'.issued + AbsoluteTtl, t + IdleTtl)
  BY <1>3 DEF Backs
<1>4. pc'[q] # "idle" => began'[q] <= now' /\ now' <= began'[q] + MaxDelay
  BY <1>t DEF Flight
<1>5. pc'[q] = "touch" => /\ began'[q] <= stamp'[q] /\ stamp'[q] <= now'
                          /\ Interval > 0 => stamp'[q] - copy'[q].seen >= Interval
  BY <1>t DEF Flight
<1>6. pc'[q] = "found" => Backs(copy[q].seen - Lag)' \/ Backs(began[q] - MaxDelay)'
  <2> SUFFICES ASSUME pc[q] = "found"
               PROVE  Backs(copy[q].seen - Lag)' \/ Backs(began[q] - MaxDelay)'
    OBVIOUS
  <2>1. Backs(copy[q].seen - Lag) \/ Backs(began[q] - MaxDelay)
    BY <1>t DEF Flight
  <2>2. CASE row'.expires = row.expires
    BY <2>1, <2>2 DEF Backs, Lag, Interval
  <2> QED BY <1>2, <2>2
<1>7. Accepted(q)' => /\ row'.expires = copy'[q].expires \/ Backs(began[q] - MaxDelay)'
                      /\ WithinIdle(copy[q])'
  <2> SUFFICES ASSUME Accepted(q)
               PROVE  /\ row'.expires = copy'[q].expires \/ Backs(began[q] - MaxDelay)'
                      /\ WithinIdle(copy[q])'
    BY <1>1
  <2>1. /\ row.expires = copy[q].expires \/ Backs(began[q] - MaxDelay)
        /\ WithinIdle(copy[q])
    BY <1>t DEF Flight
  <2>2. CASE row'.expires = row.expires
    BY <2>1, <2>2 DEF Backs, WithinIdle, Interval
  <2>3. pc[q] # "idle"
    BY DEF Accepted
  <2> QED BY <1>2, <2>1, <2>2, <2>3 DEF WithinIdle, Interval
<1>8. Accepted(q)' => began'[q] < row'.issued + AbsoluteTtl /\ began'[q] < used' + IdleTtl
  BY <1>1, <1>t, ConstantsAreInts DEF Flight, Ints
<1> QED BY <1>4, <1>5, <1>6, <1>7, <1>8 DEF Flight

\* A request that is over has nothing to keep; the others are left alone.
LEMMA EndKeepsFlight ==
  ASSUME IInv, NEW r \in Reqs, End(r), now' = now,
         row'.issued = row.issued, row'.expires \in Int,
         row'.expires = row.expires \/ Backs(now - MaxDelay)',
         used' \in Int, used' >= used
  PROVE  (InFlight /\ AbsoluteLimit /\ IdleLimit)'
<1>1. /\ pc'[r] = "idle"
      /\ \A q \in Reqs \ {r} : /\ pc'[q] = pc[q] /\ began'[q] = began[q]
                               /\ copy'[q] = copy[q] /\ stamp'[q] = stamp[q]
  BY DEF IInv, TypeOK, End
<1>2. Flight(r)'
  BY <1>1 DEF Flight, Accepted
<1>3. ASSUME NEW q \in Reqs, q # r PROVE Flight(q)'
  BY <1>1, <1>3, OthersKeepFlight
<1>4. \A q \in Reqs : Flight(q)'
  BY <1>2, <1>3
<1> QED BY <1>4 DEF Flight, InFlight, AbsoluteLimit, IdleLimit

\* What a touch leaves behind: the heart of the argument.
LEMMA CommitKeepsRow ==
  ASSUME IInv, NEW r \in Reqs, Commit(r)
  PROVE  /\ TypeOK' /\ RowInv'
         /\ row'.issued = row.issued
         /\ row'.expires = row.expires \/ Backs(now - MaxDelay)'
<1>t. Ints /\ Flight(r) /\ RowInv /\ TypeOK
  BY TypesAreInts, FlightOfEach DEF IInv
<1> DEFINE s == stamp[r]
           e == NewExpiry(r)
<1>1. /\ pc[r] = "touch" /\ End(r) /\ now' = now /\ used' = Most(used, s)
      /\ row' = [row EXCEPT !.seen = IF s # copy[r].seen THEN s ELSE @,
                            !.expires = IF e # copy[r].expires THEN e ELSE @]
  BY DEF Commit, SeenChanged, ExpiryChanged
<1>2. /\ row'.issued = row.issued
      /\ row'.seen = IF s # copy[r].seen THEN s ELSE row.seen
      /\ row'.expires = IF e # copy[r].expires THEN e ELSE row.expires
      /\ row'.present = row.present /\ row'.revoked = row.revoked
  BY <1>1, <1>t DEF TypeOK
<1>3. /\ s \in Time /\ row.issued \in Time /\ row.seen \in Time /\ s \in Int
      /\ e \in Int /\ e \in Nat /\ row.expires \in Nat
      /\ e <= row.issued + AbsoluteTtl /\ e <= s + IdleTtl
      /\ e = row.issued + AbsoluteTtl \/ e = s + IdleTtl
  BY <1>t, ExpiryFacts DEF TypeOK, NewExpiry, Ints
<1>4. /\ began[r] <= s /\ s <= now /\ now <= began[r] + MaxDelay
      /\ Interval > 0 => s - copy[r].seen >= Interval
      /\ row.expires = copy[r].expires \/ Backs(began[r] - MaxDelay)
      /\ Interval > 0 => copy[r].expires <= copy[r].seen + IdleTtl
  BY <1>1, <1>t DEF Flight, Accepted, WithinIdle
<1>5. used' \in Time /\ used' \in Int /\ used' >= used /\ used' >= s /\ used' <= now
  BY <1>1, <1>3, <1>4, <1>t DEF TypeOK, RowInv, Ints, Most
<1>6. TypeOK'
  <2>1. row' \in [present : BOOLEAN, revoked : BOOLEAN, issued : Time, seen : Time, expires : Nat]
    BY <1>1, <1>3, <1>t DEF TypeOK
  <2>2. 0 \in Time
    BY LifetimeAssumption DEF Time
  <2>3. /\ pc' \in [Reqs -> {"idle", "lookup", "found", "touch"}]
        /\ began' \in [Reqs -> Time] /\ stamp' \in [Reqs -> Time]
        /\ copy' \in [Reqs -> [seen : Time, expires : Nat]]
    BY <1>1, <2>2, <1>t DEF End, NoCopy, TypeOK
  <2> QED BY <2>1, <2>3, <1>1, <1>5, <1>t DEF TypeOK
<1>i. /\ row.expires \in Int /\ row.seen \in Int /\ row.issued \in Int /\ used \in Int
      /\ now \in Int /\ began[r] \in Int /\ copy[r].seen \in Int /\ copy[r].expires \in Int
      /\ row'.expires \in Int /\ row'.seen \in Int
  BY <1>2, <1>3, <1>t DEF Ints
<1> DEFINE Covers(t) == row'.expires >= Least(row.issued + AbsoluteTtl, t + IdleTtl)
\* The new last_seen_at, when the touch is not due at once.
<1>7. Interval > 0 => row'.seen = s
  BY <1>2, <1>4, <1>i, <1>3, IntervalIsInt
\* A stale expires_at is at most two request durations behind.
<1>8. Covers(s) \/ (Covers(now - 2 * MaxDelay) /\ e = copy[r].expires /\ row'.expires = row.expires)
  <2>1. CASE e # copy[r].expires
    <3>1. row'.expires = e
      BY <2>1, <1>2
    <3>2. Covers(s)
      BY <3>1, <1>3, <1>i, ConstantsAreInts DEF Least
    <3> QED BY <3>2
  <2>2. CASE e = copy[r].expires /\ row.expires = copy[r].expires
    <3>1. row'.expires = e
      BY <2>2, <1>2
    <3>2. Covers(s)
      BY <3>1, <1>3, <1>i, ConstantsAreInts DEF Least
    <3> QED BY <3>2
  <2>3. CASE e = copy[r].expires /\ Backs(began[r] - MaxDelay)
    <3>1. row'.expires = row.expires
      BY <2>3, <1>2
    <3>2. row.expires >= Least(row.issued + AbsoluteTtl, (began[r] - MaxDelay) + IdleTtl)
      BY <2>3 DEF Backs
    <3>3. Covers(now - 2 * MaxDelay)
      BY <3>1, <3>2, <1>4, <1>i, ConstantsAreInts DEF Least
    <3> QED BY <3>1, <3>3, <2>3
  <2> QED BY <2>1, <2>2, <2>3, <1>4
<1>9. Covers(now - 2 * MaxDelay)
  BY <1>8, <1>3, <1>4, <1>i, ConstantsAreInts DEF Least
<1>10. row'.seen <= used' /\ row'.seen <= now
  BY <1>2, <1>3, <1>4, <1>5, <1>i, <1>t DEF RowInv
\* An unwritten expires_at of a touch that was due is the absolute limit.
<1>11. ASSUME Interval > 0, e = copy[r].expires PROVE e = row.issued + AbsoluteTtl /\ e <= s - Interval + IdleTtl
  <2>1. e <= copy[r].seen + IdleTtl /\ s - copy[r].seen >= Interval
    BY <1>11, <1>4
  <2>2. e <= s - Interval + IdleTtl
    BY <2>1, <1>3, <1>i, IntervalIsInt, ConstantsAreInts
  <2>3. e # s + IdleTtl
    BY <2>2, <1>11, <1>3, IntervalIsInt, ConstantsAreInts
  <2> QED BY <2>2, <2>3, <1>3
<1>12. Covers(row'.seen - Lag)
  <2>1. CASE Interval < 2 * MaxDelay
    <3>1. Lag = 2 * MaxDelay
      BY <2>1, IntervalIsInt
    <3> QED BY <3>1, <1>9, <1>10, <1>i, ConstantsAreInts DEF Least
  <2>2. CASE Interval >= 2 * MaxDelay /\ Interval > 0
    <3>1. row'.seen = s /\ Lag \in Int /\ Lag >= 0
      BY <1>7, <2>2, IntervalIsInt
    <3>2. Covers(s)
      <4> SUFFICES ASSUME Covers(now - 2 * MaxDelay), e = copy[r].expires, row'.expires = row.expires
                   PROVE  Covers(s)
        BY <1>8
      <4>1. e = row.issued + AbsoluteTtl /\ e <= s - Interval + IdleTtl
        BY <1>11, <2>2
      <4>2. row.issued + AbsoluteTtl <= (now - 2 * MaxDelay) + IdleTtl
        BY <4>1, <2>2, <1>3, <1>4, <1>i, IntervalIsInt, ConstantsAreInts
      <4>3. row'.expires >= row.issued + AbsoluteTtl
        BY <4>2, <1>i, ConstantsAreInts DEF Least
      <4> QED BY <4>3, <1>3, <1>i, ConstantsAreInts DEF Least
    <3> QED BY <3>1, <3>2, <1>3, <1>i, ConstantsAreInts DEF Least
  <2>3. CASE Interval = 0 /\ MaxDelay = 0
    <3>1. Lag \in Int /\ Lag >= 0
      BY IntervalIsInt
    <3> QED BY <2>3, <3>1, <1>9, <1>10, <1>i, ConstantsAreInts DEF Least
  <2> QED BY <2>1, <2>2, <2>3, IntervalIsInt, ConstantsAreInts
<1>13. Covers(used' - Slack)
  BY <1>9, <1>5, <1>i, IntervalIsInt, ConstantsAreInts DEF Least
<1>14. row'.expires <= row.issued + AbsoluteTtl /\ row'.expires <= used' + IdleTtl
  BY <1>2, <1>3, <1>5, <1>i, <1>t, ConstantsAreInts DEF RowInv
<1>15. Interval > 0 => row'.expires <= row'.seen + IdleTtl
  <2> SUFFICES ASSUME Interval > 0 PROVE row'.expires <= s + IdleTtl
    BY <1>7
  <2>1. CASE e # copy[r].expires
    BY <2>1, <1>2, <1>3
  <2>2. CASE e = copy[r].expires
    BY <2>2, <1>11, <1>14, <1>3, <1>i, IntervalIsInt, ConstantsAreInts
  <2> QED BY <2>1, <2>2
<1>16. RowInv'
  BY <1>1, <1>2, <1>5, <1>10, <1>12, <1>13, <1>14, <1>15 DEF RowInv, Backs, WithinIdle, Lag, Slack, Interval
<1>17. row'.expires = row.expires \/ Backs(now - MaxDelay)'
  <2>1. CASE e = copy[r].expires
    BY <2>1, <1>2
  <2>2. CASE e # copy[r].expires
    <3>1. row'.expires = e
      BY <2>2, <1>2
    <3>2. Covers(now - MaxDelay)
      BY <3>1, <1>3, <1>4, <1>i, ConstantsAreInts DEF Least
    <3> QED BY <3>2, <1>1, <1>2 DEF Backs
  <2> QED BY <2>1, <2>2
<1> QED BY <1>2, <1>6, <1>16, <1>17

\* A step of request r that leaves the row alone and does not end it.
LEMMA OwnStepKeeps ==
  ASSUME IInv, NEW r \in Reqs, UNCHANGED <<now, row, used>>, TypeOK', Flight(r)',
         \A q \in Reqs \ {r} : /\ pc'[q] = pc[q] /\ began'[q] = began[q]
                               /\ copy'[q] = copy[q] /\ stamp'[q] = stamp[q]
  PROVE  IInv'
<1>t. Ints
  BY TypesAreInts DEF IInv
<1>1. ASSUME NEW q \in Reqs, q # r PROVE Flight(q)'
  BY <1>1, <1>t, OthersKeepFlight DEF Ints
<1>2. (InFlight /\ AbsoluteLimit /\ IdleLimit)'
  BY <1>1 DEF Flight, InFlight, AbsoluteLimit, IdleLimit
<1>3. RowInv'
  BY DEF IInv, RowInv, Backs, WithinIdle, Lag, Slack, Interval
<1> QED BY <1>2, <1>3 DEF IInv

LEMMA NextKeepsInv == IInv /\ [Next]_vars => IInv'
<1> SUFFICES ASSUME IInv, [Next]_vars PROVE IInv'
  OBVIOUS
<1>t. Ints /\ TypeOK /\ RowInv /\ 0 \in Time /\ \A q \in Reqs : Flight(q)
  BY TypesAreInts, FlightOfEach, LifetimeAssumption DEF IInv, Time
<1> USE DEF Goto
<1>1. ASSUME NEW r \in Reqs, Start(r) PROVE IInv'
  <2>1. TypeOK'
    BY <1>1, <1>t DEF Start, TypeOK
  <2>2. Flight(r)'
    BY <1>1, <1>t, ConstantsAreInts DEF Start, TypeOK, Ints, Flight, Accepted
  <2> QED BY <1>1, <1>t, <2>1, <2>2, OwnStepKeeps DEF Start, TypeOK
<1>2. ASSUME NEW r \in Reqs, Find(r) PROVE IInv'
  <2>1. CASE row.present /\ ~row.revoked /\ row.expires > began[r]
    <3>1. /\ pc[r] = "lookup" /\ pc' = [pc EXCEPT ![r] = "found"]
          /\ copy' = [copy EXCEPT ![r] = [seen |-> row.seen, expires |-> row.expires]]
          /\ UNCHANGED <<now, row, used, began, stamp>>
      BY <1>2, <2>1 DEF Find
    <3>2. TypeOK'
      BY <3>1, <1>t DEF TypeOK
    <3>3. /\ pc'[r] = "found" /\ copy'[r] = [seen |-> row.seen, expires |-> row.expires]
          /\ began'[r] = began[r]
      BY <3>1, <1>t DEF TypeOK
    <3>4. began[r] < row.issued + AbsoluteTtl /\ began[r] < used + IdleTtl
      BY <2>1, <1>t, ConstantsAreInts DEF RowInv, Ints
    <3>5. Backs(copy[r].seen - Lag)' /\ WithinIdle(copy[r])'
      BY <3>1, <3>3, <1>t DEF RowInv, Backs, WithinIdle, Lag, Interval
    <3>6. Flight(r)'
      BY <3>1, <3>3, <3>4, <3>5, <1>t DEF Flight
    <3> QED BY <3>1, <3>2, <3>6, <1>t, OwnStepKeeps DEF TypeOK
  <2>2. CASE ~(row.present /\ ~row.revoked /\ row.expires > began[r])
    <3>1. End(r) /\ UNCHANGED <<now, row, used>>
      BY <1>2, <2>2 DEF Find
    <3>2. TypeOK'
      BY <3>1, <1>t DEF End, NoCopy, TypeOK
    <3>3. RowInv'
      BY <3>1, <1>t DEF RowInv, Backs, WithinIdle, Lag, Slack, Interval
    <3> QED BY <3>1, <3>2, <3>3, <1>t, EndKeepsFlight DEF IInv, Ints
  <2> QED BY <2>1, <2>2
<1>3. ASSUME NEW r \in Reqs, Serve(r) PROVE IInv'
  <2>1. End(r) /\ UNCHANGED <<now, row>> /\ used' = now /\ used <= now
    BY <1>3, <1>t DEF Serve, Most, RowInv, Ints
  <2>2. TypeOK'
    BY <2>1, <1>t DEF End, NoCopy, TypeOK
  <2>3. Backs(now - Slack)
    <3>1. now - copy[r].seen < Interval /\ pc[r] = "found"
      BY <1>3, <1>t, IntervalIsInt DEF Serve, NeedsTouch, Ints
    <3>2. now <= began[r] + MaxDelay /\ (Backs(copy[r].seen - Lag) \/ Backs(began[r] - MaxDelay))
      BY <3>1, <1>t DEF Flight
    <3>3. now - Slack <= copy[r].seen - Lag /\ now - Slack <= began[r] - MaxDelay
      BY <3>1, <3>2, <1>t, IntervalIsInt, ConstantsAreInts DEF Ints
    <3>4. /\ now - Slack \in Int /\ copy[r].seen - Lag \in Int /\ began[r] - MaxDelay \in Int
          /\ row.expires \in Int /\ row.issued \in Int
      BY <1>t, IntervalIsInt, ConstantsAreInts DEF Ints
    <3> QED BY <3>2, <3>3, <3>4, BacksEarlier
  <2>4. row.expires <= now + IdleTtl /\ row.seen <= now
    BY <2>1, <1>t, ConstantsAreInts DEF RowInv, Ints
  <2>5. RowInv'
    BY <2>1, <2>3, <2>4, <1>t DEF RowInv, Backs, WithinIdle, Lag, Slack, Interval, Ints
  <2> QED BY <2>1, <2>2, <2>5, <1>t, EndKeepsFlight DEF IInv, Ints
<1>4. ASSUME NEW r \in Reqs, Decide(r) PROVE IInv'
  <2>1. TypeOK'
    BY <1>4, <1>t DEF Decide, TypeOK
  <2>2. /\ pc[r] = "found" /\ pc'[r] = "touch" /\ stamp'[r] = now
        /\ UNCHANGED <<now, row, used, began, copy>>
        /\ Interval > 0 => now - copy[r].seen >= Interval
    BY <1>4, <1>t, IntervalIsInt DEF Decide, NeedsTouch, TypeOK
  <2>3. Flight(r)'
    BY <2>2, <1>t DEF Flight, Accepted, Backs, WithinIdle, Interval, Lag, Ints
  <2> QED BY <1>4, <1>t, <2>1, <2>2, <2>3, OwnStepKeeps DEF Decide, TypeOK
<1>5. ASSUME NEW r \in Reqs, Vanished(r) \/ Abort(r) PROVE IInv'
  <2>1. End(r) /\ UNCHANGED <<now, row, used>>
    BY <1>5 DEF Vanished, Abort
  <2>2. TypeOK'
    BY <2>1, <1>t DEF End, NoCopy, TypeOK
  <2>3. RowInv'
    BY <2>1, <1>t DEF RowInv, Backs, WithinIdle, Lag, Slack, Interval
  <2> QED BY <2>1, <2>2, <2>3, <1>t, EndKeepsFlight DEF IInv, Ints
<1>6. ASSUME NEW r \in Reqs, Commit(r) PROVE IInv'
  <2>1. /\ TypeOK' /\ RowInv' /\ row'.issued = row.issued
        /\ row'.expires = row.expires \/ Backs(now - MaxDelay)'
    BY <1>6, CommitKeepsRow
  <2>2. End(r) /\ now' = now /\ used' = Most(used, stamp[r])
    BY <1>6 DEF Commit
  <2>3. used' \in Int /\ used' >= used /\ row'.expires \in Int
    BY <2>1, <2>2, <1>t DEF Most, Ints, TypeOK
  <2> QED BY <2>1, <2>2, <2>3, EndKeepsFlight DEF IInv
<1>8. ASSUME Revoke \/ \E before \in 0..(MaxTime + IdleTtl) : Prune(before) PROVE IInv'
  <2>1. /\ UNCHANGED <<now, pc, began, copy, stamp, used>>
        /\ row' = [row EXCEPT !.revoked = TRUE] \/ row' = [row EXCEPT !.present = FALSE]
    BY <1>8 DEF Revoke, Prune
  <2>2. /\ row'.seen = row.seen /\ row'.issued = row.issued /\ row'.expires = row.expires
    BY <2>1, <1>t DEF TypeOK
  <2>3. TypeOK'
    BY <2>1, <1>t DEF TypeOK
  <2>4. RowInv'
    BY <2>1, <2>2, <1>t DEF RowInv, Backs, WithinIdle, Lag, Slack, Interval
  <2>5. ASSUME NEW q \in Reqs PROVE Flight(q)'
    BY <2>1, <2>2, <1>t, OthersKeepFlight DEF Ints
  <2>6. (InFlight /\ AbsoluteLimit /\ IdleLimit)'
    BY <2>5 DEF Flight, InFlight, AbsoluteLimit, IdleLimit
  <2> QED BY <2>3, <2>4, <2>6 DEF IInv
<1>9. ASSUME Tick PROVE IInv'
  <2>1. /\ now' = now + 1 /\ now < MaxTime
        /\ UNCHANGED <<row, pc, began, copy, stamp, used>>
        /\ \A r \in Reqs : pc[r] # "idle" => now - began[r] < MaxDelay
    BY <1>9 DEF Tick
  <2>2. TypeOK'
    BY <2>1, <1>t, ConstantsAreInts DEF TypeOK, Time
  <2>3. RowInv'
    BY <2>1, <1>t DEF RowInv, Backs, WithinIdle, Lag, Slack, Interval, Ints
  <2>4. InFlight' /\ AbsoluteLimit' /\ IdleLimit'
    <3>1. ASSUME NEW q \in Reqs
          PROVE  /\ pc[q] # "idle" => began[q] <= now + 1 /\ now + 1 <= began[q] + MaxDelay
                 /\ stamp[q] <= now => stamp[q] <= now + 1
      BY <2>1, <1>t, ConstantsAreInts DEF Flight, Ints
    <3>2. ASSUME NEW q \in Reqs PROVE Flight(q)'
      BY <2>1, <3>1, <1>t DEF Flight, Accepted, Backs, WithinIdle, Interval, Lag
    <3> QED BY <3>2 DEF Flight, InFlight, AbsoluteLimit, IdleLimit
  <2> QED BY <2>2, <2>3, <2>4 DEF IInv
<1>10. CASE UNCHANGED vars
  BY <1>10 DEF vars, IInv, TypeOK, InFlight, RowInv, AbsoluteLimit, IdleLimit, Accepted,
               Backs, WithinIdle, Interval, Lag, Slack
<1> QED BY <1>1, <1>2, <1>3, <1>4, <1>5, <1>6, <1>8, <1>9, <1>10 DEF Next

-----------------------------------------------------------------------------
(* The theorems. *)

\* The inductive invariant holds in every reachable state.
THEOREM Invariance == Spec => []IInv
BY InitInv, NextKeepsInv, PTL DEF Spec

\* Every variable has its type.
THEOREM TypeCorrect == Spec => []TypeOK
<1>1. IInv => TypeOK
  BY DEF IInv
<1> QED BY <1>1, Invariance, PTL

\* No order of concurrent touches lets a session be accepted at or after
\* AbsoluteTtl from its login.
THEOREM NeverBeyondAbsolute == Spec => []AbsoluteLimit
<1>1. IInv => AbsoluteLimit
  BY DEF IInv
<1> QED BY <1>1, Invariance, PTL

\* No lookup accepts a session whose latest served request is IdleTtl old.
THEOREM NeverBeyondIdle == Spec => []IdleLimit
<1>1. IInv => IdleLimit
  BY DEF IInv
<1> QED BY <1>1, Invariance, PTL

\* Throttled and overtaken touches shorten the idle limit by at most Slack, although
\* a touch may leave an expires_at that another one has moved back.
THEOREM UsableWhileUsed == Spec => []StaysUsable
<1>1. IInv => StaysUsable
  BY DEF IInv, RowInv, StaysUsable
<1> QED BY <1>1, Invariance, PTL

\* However long a touch interval is configured, half of the idle limit is left after
\* each use, when requests are short enough.
THEOREM HalfIdle == Spec => []HalfIdleLeft
<1>1. StaysUsable /\ TypeOK => HalfIdleLeft
  <2> SUFFICES ASSUME StaysUsable, TypeOK, row.present,
                      2 * MaxDelay <= TouchInterval, 4 * MaxDelay <= IdleTtl
               PROVE  row.expires >= Least(row.issued + AbsoluteTtl, used + IdleTtl \div 2)
    BY DEF HalfIdleLeft
  <2>1. used \in Int /\ row.issued \in Int /\ row.expires \in Int
    BY TypesAreInts DEF Ints
  <2>2. Interval >= 2 * MaxDelay /\ Interval - 1 <= IdleTtl \div 2 /\ 2 * MaxDelay <= IdleTtl \div 2
    BY LifetimeAssumption DEF Interval, Least
  <2>3. Slack <= IdleTtl \div 2
    BY <2>2, LifetimeAssumption, IntervalIsInt DEF Slack, Lag, Most
  <2>4. IdleTtl - Slack >= IdleTtl \div 2 /\ IdleTtl \div 2 \in Int
    BY <2>3, LifetimeAssumption, IntervalIsInt
  <2>5. row.expires >= Least(row.issued + AbsoluteTtl, (used - Slack) + IdleTtl)
    BY DEF StaysUsable, Backs
  <2> QED BY <2>1, <2>4, <2>5, ConstantsAreInts, IntervalIsInt DEF Least
<1> QED BY <1>1, UsableWhileUsed, TypeCorrect, PTL

\* A touch in flight never undoes a revocation: it writes two columns only.
THEOREM RevokedForGood == Spec => RevocationStays
<1>1. TypeOK /\ [Next]_vars => [row.revoked => row'.revoked]_vars
  <2> SUFFICES ASSUME TypeOK, Next, row.revoked PROVE row'.revoked
    OBVIOUS
  <2>1. \/ row' = row
        \/ \E s, e : row' = [row EXCEPT !.seen = s, !.expires = e]
        \/ row' = [row EXCEPT !.revoked = TRUE] \/ row' = [row EXCEPT !.present = FALSE]
    BY DEF Next, Start, Find, Serve, Decide, Commit, Vanished, Abort, Revoke, Prune, Tick
  <2> QED BY <2>1 DEF TypeOK
<1> QED BY <1>1, TypeCorrect, PTL DEF Spec, RevocationStays

-----------------------------------------------------------------------------
(* The audit of rejected sessions. *)

Details == [count : Int, recent : Seq(Addresses), distinct : Int]

Audits ==
  [at : {"none", "rejected", "lock", "read", "write"}, t : Int, id : Nat, detail : Details]

\* The types of the variables of the audit; ids are those of requests counted.
AuditTypes ==
  /\ replays \in Nat
  /\ DOMAIN log \subseteq 1..replays /\ DOMAIN counted = DOMAIN log
  /\ \A i \in DOMAIN log : log[i] \in [occurred : Int, detail : Details]
  /\ \A i \in DOMAIN log : counted[i] \in [n : Int, ips : SUBSET Addresses]
  /\ audit \in [Reqs -> Audits]
  /\ \A r \in Reqs : audit[r].id <= replays

\* Only the holder of the try-lock reads and writes.
Mutex == \A r \in Reqs : audit[r].at \in {"read", "write"} => lock = r

\* What it has read still stands when it writes.
ReadStands ==
  \A r \in Reqs : audit[r].at = "write" =>
    /\ audit[r].id \in DOMAIN log => audit[r].detail = log[audit[r].id].detail
    /\ audit[r].id = 0 /\ row.present => \A i \in DOMAIN log : log[i].occurred < audit[r].t - Window

AInv == AuditTypes /\ Mutex /\ ReadStands /\ NoReplayLost /\ OneRowPerWindow

-----------------------------------------------------------------------------
\* Every step of the composition is a step of SessionLifetime or leaves it alone.
LEMMA AuditSteps == [AuditNext]_allVars => [Next]_vars
<1> SUFFICES ASSUME [AuditNext]_allVars PROVE [Next]_vars
  OBVIOUS
<1>1. CASE Lifetime
  BY <1>1 DEF Lifetime, Next
<1>2. CASE \E r \in Reqs : FindOrReject(r)
  BY <1>2 DEF FindOrReject, Next
<1>3. CASE UNCHANGED vars
  BY <1>3
<1>4. ASSUME NEW r \in Reqs,
             \/ FindRejected(r) \/ TryLock(r) \/ Read(r) \/ AbortAudit(r)
             \/ \E ip \in Addresses : Insert(r, ip) \/ Update(r, ip)
      PROVE  UNCHANGED vars
  BY <1>4 DEF FindRejected, TryLock, Read, AbortAudit, Insert, Update
<1>5. ASSUME NEW before \in 0..MaxTime, PruneLog(before) PROVE UNCHANGED vars
  BY <1>5 DEF PruneLog
<1>6. CASE UNCHANGED allVars
  BY <1>6 DEF allVars, vars
<1> QED BY <1>1, <1>2, <1>3, <1>4, <1>5, <1>6 DEF AuditNext

\* The session row behind the audit behaves as SessionLifetime says: its theorems
\* hold of the composition too.
THEOREM AuditImplements == AuditSpec => Spec
<1>1. AuditInit => Init
  BY DEF AuditInit
<1> QED BY <1>1, AuditSteps, PTL DEF AuditSpec, Spec

\* No audit of rejected requests, and no pruning between its steps, lets a session outlive
\* a limit, shortens one in use, or undoes a revocation.
THEOREM LifetimesBehindAudit ==
  AuditSpec => [](AbsoluteLimit /\ IdleLimit /\ StaysUsable /\ HalfIdleLeft) /\ RevocationStays
BY AuditImplements, NeverBeyondAbsolute, NeverBeyondIdle, UsableWhileUsed, HalfIdle, RevokedForGood, PTL

-----------------------------------------------------------------------------
LEMMA MergedFacts ==
  ASSUME NEW d \in Details, NEW ip \in Addresses
  PROVE  Merged(d, ip) \in Details /\ Merged(d, ip).count = d.count + 1
<1> DEFINE all == IF ~Contains(d.recent, ip) THEN Append(d.recent, ip) ELSE d.recent
           m == Most(1, Len(all) - RecentLimit + 1)
           k == DistinctIpCount(d) + (IF ~Contains(d.recent, ip) THEN 1 ELSE 0)
<1>1. d.recent \in Seq(Addresses) /\ d.distinct \in Int /\ d.count \in Int
  BY DEF Details
<1>2. all \in Seq(Addresses) /\ Len(all) \in Nat
  BY <1>1
<1>3. RecentLimit \in Nat \ {0}
  BY ReplayAssumption
<1>4. m \in 1..Len(all) + 1 /\ Len(all) \in m - 1..Len(all)
  BY <1>2, <1>3 DEF Most
<1> HIDE DEF all, m
<1>5. SubSeq(all, m, Len(all)) \in Seq(Addresses)
  BY <1>2, <1>4, SubSeqProperties
<1>6. k \in Int
  BY <1>1 DEF DistinctIpCount, Most
<1>7. Merged(d, ip) = [count |-> d.count + 1, distinct |-> k, recent |-> SubSeq(all, m, Len(all))]
  BY DEF Merged, all, m
<1> HIDE DEF k
<1> QED BY <1>1, <1>5, <1>6, <1>7 DEF Details

LEMMA NoAuditFacts == NoAudit \in Audits /\ NoAudit.at = "none" /\ NoAudit.id = 0 /\ NoDetail \in Details
<1>1. NoDetail = [count |-> 0, recent |-> << >>, distinct |-> 0]
  BY DEF NoDetail, NoAudit
<1>2. NoDetail \in Details
  BY <1>1 DEF Details
<1>3. NoAudit = [at |-> "none", t |-> 0, id |-> 0, detail |-> NoDetail]
  BY DEF NoDetail, NoAudit
<1> QED BY <1>2, <1>3 DEF Audits

LEMMA AuditInitInv == AuditInit => AInv
BY NoAuditFacts DEF AuditInit, AInv, AuditTypes, Mutex, ReadStands, NoReplayLost, OneRowPerWindow

\* A request that does not write leaves the rows alone, and then holds nothing or
\* holds the lock and what the rows say.
LEMMA OneMoves ==
  ASSUME AInv, NEW r \in Reqs, NEW a \in Audits, audit' = [audit EXCEPT ![r] = a], a.id <= replays,
         UNCHANGED <<log, counted, replays>>, row'.present => row.present,
         \A q \in Reqs \ {r} : lock = q => lock' = q,
         a.at \in {"read", "write"} => lock' = r,
         a.at = "write" =>
           /\ a.id \in DOMAIN log => a.detail = log[a.id].detail
           /\ a.id = 0 /\ row'.present => \A i \in DOMAIN log : log[i].occurred < a.t - Window
  PROVE  AInv'
<1>1. audit' \in [Reqs -> Audits] /\ audit'[r] = a /\ \A q \in Reqs \ {r} : audit'[q] = audit[q]
  BY DEF AInv, AuditTypes
<1>2. AuditTypes'
  BY <1>1 DEF AInv, AuditTypes
<1>3. Mutex'
  BY <1>1 DEF AInv, Mutex
<1>4. ReadStands'
  BY <1>1 DEF AInv, ReadStands
<1>5. NoReplayLost' /\ OneRowPerWindow'
  BY DEF AInv, NoReplayLost, OneRowPerWindow
<1> QED BY <1>2, <1>3, <1>4, <1>5 DEF AInv

\* A request gives up.
LEMMA DoneKeeps ==
  ASSUME AInv, NEW r \in Reqs, Done(r), UNCHANGED <<log, counted, replays>>,
         row'.present => row.present, \A q \in Reqs \ {r} : lock = q => lock' = q
  PROVE  AInv'
<1>1. audit' = [audit EXCEPT ![r] = NoAudit] /\ NoAudit.id <= replays
  BY NoAuditFacts DEF Done, AInv, AuditTypes
<1>2. NoAudit \in Audits /\ NoAudit.at \notin {"read", "write"}
  BY NoAuditFacts
<1> QED BY <1>1, <1>2, OneMoves

LEMMA MovesKeep ==
  ASSUME AInv, now \in Int, NEW r \in Reqs,
         FindOrReject(r) \/ FindRejected(r) \/ TryLock(r) \/ AbortAudit(r)
  PROVE  AInv'
<1>0. replays \in Nat /\ audit[r] \in Audits /\ audit[r].id <= replays /\ audit \in [Reqs -> Audits]
  BY DEF AInv, AuditTypes
<1>1. CASE FindOrReject(r)
  <2>1. UNCHANGED <<row, log, counted, replays, lock>>
    BY <1>1 DEF FindOrReject, Find
  <2>2. CASE pc'[r] = "idle"
    <3>1. [NoAudit EXCEPT !.at = "rejected"] \in Audits
          /\ [NoAudit EXCEPT !.at = "rejected"].at = "rejected"
          /\ [NoAudit EXCEPT !.at = "rejected"].id <= replays
      BY <1>0, NoAuditFacts DEF Audits
    <3>2. audit' = [audit EXCEPT ![r] = [NoAudit EXCEPT !.at = "rejected"]]
      BY <1>1, <2>2 DEF FindOrReject
    <3> QED BY <1>0, <2>1, <3>1, <3>2, OneMoves
  <2>3. CASE pc'[r] # "idle"
    BY <1>1, <2>1, <2>3 DEF FindOrReject, AInv, AuditTypes, Mutex, ReadStands, NoReplayLost, OneRowPerWindow
  <2> QED BY <2>2, <2>3
<1>2. CASE FindRejected(r)
  <2>1. UNCHANGED <<row, log, counted, replays, lock>>
    BY <1>2 DEF FindRejected, vars
  <2>2. CASE row.present
    <3> DEFINE a == [audit[r] EXCEPT !.at = "lock", !.t = now]
    <3>1. a \in Audits /\ a.at = "lock" /\ a.id <= replays
      BY <1>0 DEF Audits
    <3>2. audit' = [audit EXCEPT ![r] = a]
      BY <1>2, <2>2 DEF FindRejected
    <3> HIDE DEF a
    <3> QED BY <2>1, <3>1, <3>2, OneMoves
  <2>3. CASE ~row.present
    <3>1. Done(r)
      BY <1>2, <2>3 DEF FindRejected, Done
    <3> QED BY <2>1, <3>1, DoneKeeps
  <2> QED BY <2>2, <2>3
<1>3. CASE TryLock(r)
  <2>1. UNCHANGED <<row, log, counted, replays>>
    BY <1>3 DEF TryLock, vars
  <2>2. CASE lock = NoReq
    <3> DEFINE a == [audit[r] EXCEPT !.at = "read"]
    <3>1. a \in Audits /\ a.at = "read" /\ a.id <= replays
      BY <1>0 DEF Audits
    <3>2. audit' = [audit EXCEPT ![r] = a] /\ lock' = r
      BY <1>3, <2>2 DEF TryLock
    <3> HIDE DEF a
    <3> QED BY <2>1, <2>2, <3>1, <3>2, OneMoves, ReplayAssumption
  <2>3. CASE lock # NoReq
    <3>1. Done(r) /\ lock' = lock
      BY <1>3, <2>3 DEF TryLock
    <3> QED BY <2>1, <3>1, DoneKeeps
  <2> QED BY <2>2, <2>3
<1>4. CASE AbortAudit(r)
  <2>1. UNCHANGED <<row, log, counted, replays>>
    BY <1>4 DEF AbortAudit, vars
  <2>2. Done(r) /\ \A q \in Reqs \ {r} : lock = q => lock' = q
    BY <1>4 DEF AbortAudit
  <2> QED BY <2>1, <2>2, DoneKeeps
<1> QED BY <1>1, <1>2, <1>3, <1>4

\* A set of ids has a last one.
LEMMA LastOne ==
  ASSUME NEW n \in Nat, NEW S \in SUBSET (1..n), S # {}
  PROVE  \E m \in S : \A j \in S : j <= m
<1> DEFINE T == {n - i : i \in S}
<1>0. \A i \in S : i \in Int /\ n - i \in Nat
  <2> SUFFICES ASSUME NEW i \in S PROVE i \in Int /\ n - i \in Nat
    OBVIOUS
  <2>1. i \in 1..n
    OBVIOUS
  <2> QED BY <2>1
<1>1. T \subseteq Nat /\ T # {}
  BY <1>0
<1>2. \E x \in T : \A y \in T : ~(<<y, x>> \in OpToRel(<, Nat))
  BY <1>1, NatLessThanWellFounded, WFMin
<1>3. PICK x \in T : \A y \in T : ~(y < x)
  BY <1>1, <1>2 DEF OpToRel
<1>4. PICK m \in S : x = n - m
  BY <1>3
<1>5. \A j \in S : ~(n - j < n - m)
  BY <1>3, <1>4
<1> QED BY <1>0, <1>4, <1>5

\* The holder of the lock reads the latest row of its window, or learns that no row
\* is in it.
LEMMA ReadKeeps == ASSUME AInv, NEW r \in Reqs, Read(r) PROVE AInv'
<1> DEFINE rows == {i \in DOMAIN log : row.present /\ InWindow(i, audit[r].t)}
           latest == CHOOSE i \in rows : \A j \in rows :
                  log[j].occurred < log[i].occurred \/ (log[j].occurred = log[i].occurred /\ j <= i)
           id == IF rows = {} THEN 0 ELSE latest
           d == IF rows = {} THEN NoDetail ELSE log[latest].detail
           a == [audit[r] EXCEPT !.at = "write", !.id = id, !.detail = d]
<1>1. /\ audit' = [audit EXCEPT ![r] = a] /\ audit[r].at = "read"
      /\ UNCHANGED <<row, log, counted, replays, lock>>
  BY DEF Read, vars
<1>2. /\ replays \in Nat /\ DOMAIN log \subseteq 1..replays /\ audit[r] \in Audits /\ audit[r].t \in Int
      /\ Window \in Int
      /\ \A i \in DOMAIN log : i \in Nat /\ log[i].detail \in Details /\ log[i].occurred \in Int
  BY ReplayAssumption DEF AInv, AuditTypes, Audits
<1>3. \A i, j \in DOMAIN log : i < j => log[i].occurred + Window < log[j].occurred
  BY DEF AInv, OneRowPerWindow
<1>4. rows # {} => latest \in rows
  <2> SUFFICES ASSUME rows # {} PROVE latest \in rows
    OBVIOUS
  <2>1. rows \subseteq 1..replays
    BY <1>2
  <2>2. PICK m \in rows : \A j \in rows : j <= m
    BY <1>2, <2>1, LastOne
  <2>3. \A j \in rows : log[j].occurred < log[m].occurred \/ (log[j].occurred = log[m].occurred /\ j <= m)
    <3> SUFFICES ASSUME NEW j \in rows
                 PROVE  log[j].occurred < log[m].occurred \/ (log[j].occurred = log[m].occurred /\ j <= m)
      OBVIOUS
    <3>1. j \in DOMAIN log /\ m \in DOMAIN log /\ j \in Nat /\ m \in Nat /\ j <= m
      BY <1>2, <2>2
    <3>2. CASE j = m
      BY <3>1, <3>2
    <3>3. CASE j < m
      BY <1>2, <1>3, <3>1, <3>3, ReplayAssumption
    <3> QED BY <3>1, <3>2, <3>3
  <2> HIDE DEF rows
  <2> QED BY <2>2, <2>3
<1>5. id \in DOMAIN log => d = log[id].detail
  BY <1>2, <1>4
<1>6. id = 0 /\ row.present => \A i \in DOMAIN log : log[i].occurred < audit[r].t - Window
  <2> SUFFICES ASSUME id = 0, row.present, NEW i \in DOMAIN log
               PROVE  log[i].occurred < audit[r].t - Window
    OBVIOUS
  <2>0. rows # {} => latest \in DOMAIN log
    BY <1>4
  <2>1. rows = {}
    <3> HIDE DEF rows, latest
    <3> QED BY <1>2, <2>0
  <2>2. ~(log[i].occurred >= audit[r].t - Window)
    BY <2>1 DEF InWindow
  <2> QED BY <1>2, <2>2
<1>7. id \in Nat /\ id <= replays /\ d \in Details
  BY <1>2, <1>4, NoAuditFacts
<1> HIDE DEF id, d
<1>8. a \in Audits /\ a.at = "write" /\ a.id = id /\ a.detail = d /\ a.t = audit[r].t
  BY <1>2, <1>7 DEF Audits
<1>9. lock = r
  BY <1>1 DEF AInv, Mutex
<1> HIDE DEF a
<1> QED BY <1>1, <1>5, <1>6, <1>7, <1>8, <1>9, OneMoves

\* The holder of the lock inserts a row, unless the session was pruned.
LEMMA InsertKeeps == ASSUME AInv, NEW r \in Reqs, NEW ip \in Addresses, Insert(r, ip) PROVE AInv'
<1>0. lock = r /\ lock' = NoReq /\ row' = row /\ Done(r) /\ audit[r].at = "write" /\ audit[r].id = 0
  BY DEF Insert, vars, AInv, Mutex
<1>1. CASE ~row.present
  BY <1>0, <1>1, DoneKeeps DEF Insert
<1>2. CASE row.present
  <2> DEFINE i == replays + 1
             new == [occurred |-> audit[r].t, detail |-> Merged(NoDetail, ip)]
             one == [n |-> 1, ips |-> {ip}]
  <2>1. /\ log' = [j \in DOMAIN log \cup {i} |-> IF j = i THEN new ELSE log[j]]
        /\ counted' = [j \in DOMAIN log \cup {i} |-> IF j = i THEN one ELSE counted[j]]
        /\ replays' = i
    BY <1>2 DEF Insert
  <2>2. /\ replays \in Nat /\ DOMAIN log \subseteq 1..replays /\ DOMAIN counted = DOMAIN log
        /\ audit[r].t \in Int /\ audit \in [Reqs -> Audits]
        /\ \A j \in DOMAIN log : j \in Nat /\ j < i
    BY DEF AInv, AuditTypes, Audits
  <2>3. i \notin DOMAIN log
    BY <2>2
  <2>4. new \in [occurred : Int, detail : Details] /\ new.detail.count = 1
    BY <2>2, MergedFacts, NoAuditFacts DEF NoDetail, NoAudit
  <2>5. one \in [n : Int, ips : SUBSET Addresses] /\ one.n = 1 /\ new.occurred = audit[r].t
    OBVIOUS
  <2> HIDE DEF new, one
  <2>6. /\ DOMAIN log' = DOMAIN log \cup {i} /\ log'[i] = new
        /\ \A j \in DOMAIN log : log'[j] = log[j]
        /\ DOMAIN counted' = DOMAIN log \cup {i} /\ counted'[i] = one
        /\ \A j \in DOMAIN log : counted'[j] = counted[j]
    BY <2>1, <2>3
  <2>7. i = replays + 1 /\ i \in Nat
    BY <2>2
  <2> HIDE DEF i
  <2>8. \A q \in Reqs : audit'[q] \in Audits /\ audit'[q].at # "write"
    BY <1>0, <2>2, NoAuditFacts DEF Done, AInv, Mutex
  <2>9. AuditTypes'
    <3>1. audit' \in [Reqs -> Audits]
      BY <1>0, <2>2, NoAuditFacts DEF Done
    <3>2. \A q \in Reqs : audit'[q] = audit[q] \/ audit'[q] = NoAudit
      BY <1>0, <2>2 DEF Done
    <3>3. \A q \in Reqs : audit[q].id \in Nat /\ audit[q].id <= replays
      BY DEF AInv, AuditTypes, Audits
    <3>4. \A q \in Reqs : audit'[q].id <= i
      BY <2>2, <2>7, <3>2, <3>3, NoAuditFacts
    <3>5. DOMAIN log' \subseteq 1..i
      BY <2>2, <2>6, <2>7
    <3> QED BY <2>1, <2>4, <2>5, <2>6, <2>7, <3>1, <3>4, <3>5 DEF AInv, AuditTypes
  <2>10. Mutex'
    BY <1>0, <2>2, NoAuditFacts DEF Done, AInv, Mutex
  <2>11. ReadStands'
    BY <2>8 DEF ReadStands
  <2>12. NoReplayLost'
    BY <2>4, <2>5, <2>6 DEF AInv, NoReplayLost
  <2>13. OneRowPerWindow'
    <3>1. \A j \in DOMAIN log : log[j].occurred < audit[r].t - Window /\ log[j].occurred \in Int
      BY <1>0, <1>2 DEF AInv, ReadStands, AuditTypes
    <3>2. Window \in Int
      BY ReplayAssumption
    <3>3. \A j \in DOMAIN log : log[j].occurred + Window < audit[r].t
      BY <2>2, <3>1, <3>2
    <3> SUFFICES ASSUME NEW j \in DOMAIN log', NEW k \in DOMAIN log', j < k
                 PROVE  log'[j].occurred + Window < log'[k].occurred
      BY DEF OneRowPerWindow
    <3>4. CASE k = i
      <4>1. j \in DOMAIN log
        BY <2>2, <2>6, <2>7, <3>4
      <4> QED BY <2>5, <2>6, <3>3, <3>4, <4>1
    <3>5. CASE k \in DOMAIN log
      <4>1. j \in DOMAIN log
        BY <2>2, <2>6, <2>7, <3>5
      <4> QED BY <2>6, <3>5, <4>1 DEF AInv, OneRowPerWindow
    <3> QED BY <2>6, <3>4, <3>5
  <2> QED BY <2>9, <2>10, <2>11, <2>12, <2>13 DEF AInv
<1> QED BY <1>1, <1>2

\* It writes a row back, unless the row was pruned.
LEMMA UpdateKeeps == ASSUME AInv, NEW r \in Reqs, NEW ip \in Addresses, Update(r, ip) PROVE AInv'
<1> DEFINE i == audit[r].id
<1>0. lock = r /\ lock' = NoReq /\ row' = row /\ Done(r) /\ audit[r].at = "write" /\ i # 0
  BY DEF Update, vars, AInv, Mutex
<1>1. CASE i \notin DOMAIN log
  BY <1>0, <1>1, DoneKeeps DEF Update
<1>2. CASE i \in DOMAIN log
  <2> DEFINE d == Merged(audit[r].detail, ip)
             one == [n |-> counted[i].n + 1, ips |-> counted[i].ips \cup {ip}]
  <2>1. /\ log' = [log EXCEPT ![i].detail = d] /\ counted' = [counted EXCEPT ![i] = one]
        /\ replays' = replays + 1
    BY <1>2 DEF Update
  <2>2. /\ replays \in Nat /\ DOMAIN log \subseteq 1..replays /\ DOMAIN counted = DOMAIN log
        /\ audit \in [Reqs -> Audits] /\ log[i] \in [occurred : Int, detail : Details]
        /\ counted[i] \in [n : Int, ips : SUBSET Addresses]
    BY <1>2 DEF AInv, AuditTypes
  <2>3. audit[r].detail = log[i].detail /\ log[i].detail.count = counted[i].n
    BY <1>0, <1>2 DEF AInv, ReadStands, NoReplayLost
  <2>4. d \in Details /\ d.count = counted[i].n + 1
    BY <2>2, <2>3, MergedFacts
  <2>5. one \in [n : Int, ips : SUBSET Addresses] /\ one.n = counted[i].n + 1
    BY <2>2
  <2> HIDE DEF d, one
  <2>6. /\ DOMAIN log' = DOMAIN log /\ DOMAIN counted' = DOMAIN log
        /\ log'[i] \in [occurred : Int, detail : Details]
        /\ log'[i].detail = d /\ log'[i].occurred = log[i].occurred /\ counted'[i] = one
        /\ \A j \in DOMAIN log \ {i} : log'[j] = log[j] /\ counted'[j] = counted[j]
    BY <1>2, <2>1, <2>2, <2>4
  <2>7. AuditTypes'
    <3>1. audit' \in [Reqs -> Audits]
      BY <1>0, <2>2, NoAuditFacts DEF Done
    <3>2. \A q \in Reqs : audit'[q] = audit[q] \/ audit'[q] = NoAudit
      BY <1>0, <2>2 DEF Done
    <3>3. \A q \in Reqs : audit[q].id \in Nat /\ audit[q].id <= replays
      BY DEF AInv, AuditTypes, Audits
    <3>4. \A q \in Reqs : audit'[q].id <= replays'
      BY <2>1, <2>2, <3>2, <3>3, NoAuditFacts
    <3>5. DOMAIN log' \subseteq 1..replays' /\ replays' \in Nat
      BY <2>1, <2>2, <2>6
    <3> QED BY <2>5, <2>6, <3>1, <3>4, <3>5 DEF AInv, AuditTypes
  <2>8. Mutex' /\ ReadStands'
    BY <1>0, <2>2, NoAuditFacts DEF Done, AInv, Mutex, ReadStands
  <2>9. NoReplayLost'
    BY <2>4, <2>5, <2>6 DEF AInv, NoReplayLost
  <2>10. OneRowPerWindow'
    BY <2>6 DEF AInv, OneRowPerWindow
  <2> QED BY <2>7, <2>8, <2>9, <2>10 DEF AInv
<1> QED BY <1>1, <1>2

\* Rows are pruned.
LEMMA PruneLogKeeps == ASSUME AInv, NEW before \in 0..MaxTime, PruneLog(before) PROVE AInv'
<1> DEFINE kept == {i \in DOMAIN log : log[i].occurred >= before}
<1>1. /\ log' = [i \in kept |-> log[i]] /\ counted' = [i \in kept |-> counted[i]]
      /\ UNCHANGED <<row, replays, lock, audit>>
  BY DEF PruneLog, vars
<1>2. kept \subseteq DOMAIN log
  OBVIOUS
<1> HIDE DEF kept
<1>3. /\ DOMAIN log' = kept /\ DOMAIN counted' = kept
      /\ \A i \in kept : log'[i] = log[i] /\ counted'[i] = counted[i]
  BY <1>1
<1>4. AuditTypes'
  BY <1>1, <1>2, <1>3 DEF AInv, AuditTypes
<1>5. Mutex' /\ ReadStands'
  BY <1>1, <1>2, <1>3 DEF AInv, Mutex, ReadStands
<1>6. NoReplayLost' /\ OneRowPerWindow'
  BY <1>2, <1>3 DEF AInv, NoReplayLost, OneRowPerWindow
<1> QED BY <1>4, <1>5, <1>6 DEF AInv

\* A session that is gone does not come back.
LEMMA GoneForGood == ASSUME TypeOK, Lifetime PROVE row'.present => row.present
<1>1. CASE row' = row
  BY <1>1
<1>2. CASE Revoke \/ \E before \in 0..(MaxTime + IdleTtl) : Prune(before)
  BY <1>2 DEF Revoke, Prune
<1>3. ASSUME NEW r \in Reqs, Commit(r) PROVE row'.present = row.present
  BY <1>3 DEF Commit, TypeOK
<1>4. ASSUME NEW r \in Reqs, Start(r) \/ Serve(r) \/ Decide(r) \/ Vanished(r) \/ Abort(r)
      PROVE  row' = row
  BY <1>4 DEF Start, Serve, Decide, Vanished, Abort
<1>5. Tick => row' = row
  BY DEF Tick
<1> QED BY <1>1, <1>2, <1>3, <1>4, <1>5 DEF Lifetime

LEMMA LifetimeKeeps ==
  ASSUME AInv, UNCHANGED auditVars, row'.present => row.present
  PROVE  AInv'
BY DEF auditVars, AInv, AuditTypes, Mutex, ReadStands, NoReplayLost, OneRowPerWindow

LEMMA AuditKeeps == AInv /\ TypeOK /\ [AuditNext]_allVars => AInv'
<1> SUFFICES ASSUME AInv, TypeOK, [AuditNext]_allVars PROVE AInv'
  OBVIOUS
<1>0. now \in Int
  BY DEF TypeOK, Time
<1>1. CASE Lifetime
  <2>1. UNCHANGED auditVars
    BY <1>1 DEF Lifetime
  <2> QED BY <1>1, <2>1, GoneForGood, LifetimeKeeps
<1>2. CASE UNCHANGED allVars
  BY <1>2, LifetimeKeeps DEF allVars, auditVars
<1> QED BY <1>0, <1>1, <1>2, MovesKeep, ReadKeeps, InsertKeeps, UpdateKeeps, PruneLogKeeps DEF AuditNext

LEMMA AuditInvariance == AuditSpec => []AInv
<1>1. AuditSpec => []TypeOK
  BY AuditImplements, TypeCorrect, PTL
<1> QED BY <1>1, AuditInitInv, AuditKeeps, PTL DEF AuditSpec

-----------------------------------------------------------------------------
\* Every request that was merged into a row is in its replay_count, for any number of
\* concurrent requests and whatever is pruned meanwhile.
THEOREM ReplaysAreCounted == AuditSpec => []NoReplayLost
<1>1. AInv => NoReplayLost
  BY DEF AInv
<1> QED BY <1>1, AuditInvariance, PTL

\* Two rows of a session are more than a window apart.
THEOREM WindowsAreApart == AuditSpec => []OneRowPerWindow
<1>1. AInv => OneRowPerWindow
  BY DEF AInv
<1> QED BY <1>1, AuditInvariance, PTL

-----------------------------------------------------------------------------
(* The number of distinct addresses. *)

\* What a row says of the addresses S that it has seen: while they fit into the list
\* it holds them all and their number, and afterwards at least their number.
RowTells(d, S) ==
  /\ IsFiniteSet(S)
  /\ \A j \in 1..Len(d.recent) : d.recent[j] \in S
  /\ Len(d.recent) <= d.distinct
  /\ d.distinct >= Cardinality(S)
  /\ Cardinality(S) <= RecentLimit =>
       /\ d.distinct = Cardinality(S) /\ Len(d.recent) = Cardinality(S)
       /\ \A x \in S : \E j \in 1..Len(d.recent) : d.recent[j] = x

RowsTell == \A i \in DOMAIN log : RowTells(log[i].detail, counted[i].ips)

\* An empty detail tells of no address.
LEMMA NoDetailTells == RowTells(NoDetail, {})
<1>1. NoDetail.recent = <<>> /\ NoDetail.distinct = 0
  BY DEF NoDetail, NoAudit
<1>2. Len(<<>>) = 0 /\ 1..0 = {}
  OBVIOUS
<1>3. IsFiniteSet({}) /\ Cardinality({}) = 0
  BY FS_EmptySet
<1> QED BY <1>1, <1>2, <1>3 DEF RowTells

\* Merging a request keeps the row truthful.
LEMMA MergedTells ==
  ASSUME NEW d \in Details, NEW S \in SUBSET Addresses, RowTells(d, S), NEW ip \in Addresses
  PROVE  RowTells(Merged(d, ip), S \cup {ip})
<1> DEFINE rec == d.recent
           new == ~Contains(rec, ip)
           all == IF new THEN Append(rec, ip) ELSE rec
           m == Most(1, Len(all) - RecentLimit + 1)
           out == SubSeq(all, m, Len(all))
           k == DistinctIpCount(d) + (IF new THEN 1 ELSE 0)
           T == S \cup {ip}
           e == Merged(d, ip)
           n == Cardinality(S)
<1>1. rec \in Seq(Addresses) /\ d.distinct \in Int /\ Len(rec) \in Nat
  BY DEF Details
<1>2. e.distinct = k /\ e.recent = out
  BY DEF Merged
<1>3. RecentLimit \in Nat \ {0}
  BY ReplayAssumption
<1>4. /\ IsFiniteSet(S) /\ \A j \in 1..Len(rec) : rec[j] \in S
      /\ Len(rec) <= d.distinct /\ d.distinct >= n
      /\ n <= RecentLimit => /\ d.distinct = n /\ Len(rec) = n
                             /\ \A x \in S : \E j \in 1..Len(rec) : rec[j] = x
  BY DEF RowTells
<1>5. n \in Nat /\ IsFiniteSet(T) /\ Cardinality(T) = IF ip \in S THEN n ELSE n + 1
  BY <1>4, FS_CardinalityType, FS_AddElement
<1>6. DistinctIpCount(d) = d.distinct
  BY <1>1, <1>4 DEF DistinctIpCount, Most
<1>7. /\ new => \A j \in 1..Len(rec) : rec[j] # ip
      /\ ~new => \E j \in 1..Len(rec) : rec[j] = ip
  BY DEF Contains
<1>8. k = IF new THEN d.distinct + 1 ELSE d.distinct
  BY <1>1, <1>6
<1> HIDE DEF rec, k, e, n
<1>9. /\ all \in Seq(Addresses) /\ Len(all) = IF new THEN Len(rec) + 1 ELSE Len(rec)
      /\ \A j \in 1..Len(rec) : j \in 1..Len(all) /\ all[j] = rec[j]
      /\ new => all[Len(rec) + 1] = ip /\ Len(rec) + 1 \in 1..Len(all)
      /\ \A j \in 1..Len(all) : j \in 1..Len(rec) \/ (new /\ j = Len(rec) + 1)
  <2>1. CASE new
    <3>1. /\ Append(rec, ip) \in Seq(Addresses) /\ Len(Append(rec, ip)) = Len(rec) + 1
          /\ \A j \in 1..Len(rec) : Append(rec, ip)[j] = rec[j]
          /\ Append(rec, ip)[Len(rec) + 1] = ip
      BY <1>1, AppendProperties
    <3>2. all = Append(rec, ip)
      BY <2>1
    <3> HIDE DEF all, new
    <3> QED BY <1>1, <2>1, <3>1, <3>2
  <2>2. CASE ~new
    <3>2. all = rec
      BY <2>2
    <3> HIDE DEF all, new
    <3> QED BY <1>1, <2>2, <3>2
  <2> QED BY <2>1, <2>2
<1> HIDE DEF all, new
<1>10. Len(all) \in Nat /\ m \in Int /\ m >= 1 /\ m <= Len(all) + 1
       /\ (Len(all) <= RecentLimit => m = 1)
  BY <1>1, <1>3, <1>9 DEF Most
<1> HIDE DEF m
<1>11. /\ out \in Seq(Addresses)
       /\ Len(out) = Len(all) - m + 1
       /\ \A j \in 1..(Len(all) - m + 1) : out[j] = all[m + j - 1]
  <2>1. \A j \in m..Len(all) : all[j] \in Addresses
    BY <1>9, <1>10
  <2>2. /\ out \in Seq(Addresses)
        /\ Len(out) = IF m <= Len(all) THEN Len(all) - m + 1 ELSE 0
        /\ \A j \in 1..(Len(all) - m + 1) : out[j] = all[m + j - 1]
    BY <1>10, <2>1, SubSeqProperties
  <2> HIDE DEF out
  <2> QED BY <1>10, <2>2
<1> HIDE DEF out
<1>12. \A j \in 1..Len(all) : all[j] \in T
  BY <1>4, <1>9
<1>13. \A j \in 1..Len(out) : out[j] \in T
  <2> SUFFICES ASSUME NEW j \in 1..Len(out) PROVE out[j] \in T
    OBVIOUS
  <2>1. m + j - 1 \in 1..Len(all) /\ out[j] = all[m + j - 1]
    BY <1>10, <1>11
  <2> QED BY <1>12, <2>1
<1>14. Len(out) <= k
  BY <1>1, <1>4, <1>8, <1>9, <1>10, <1>11
<1>15. ~new => ip \in S
  BY <1>4, <1>7
<1>16. k >= Cardinality(T) /\ Cardinality(T) \in Nat
  BY <1>1, <1>4, <1>5, <1>8, <1>15
<1>17. ASSUME Cardinality(T) <= RecentLimit
       PROVE  k = Cardinality(T) /\ Len(out) = Cardinality(T)
              /\ \A x \in T : \E j \in 1..Len(out) : out[j] = x
  <2>1. n <= RecentLimit
    BY <1>3, <1>5, <1>17
  <2>2. d.distinct = n /\ Len(rec) = n /\ \A x \in S : \E j \in 1..Len(rec) : rec[j] = x
    BY <1>4, <2>1
  <2>3. new <=> ip \notin S
    BY <1>7, <1>15, <2>2
  <2>4. k = Cardinality(T) /\ Len(all) = Cardinality(T)
    BY <1>5, <1>8, <1>9, <2>2, <2>3
  <2>5. m = 1
    BY <1>10, <1>17, <2>4
  <2>6. Len(out) = Len(all) /\ \A j \in 1..Len(all) : out[j] = all[j]
    BY <1>10, <1>11, <2>5
  <2>7. \A x \in T : \E j \in 1..Len(all) : all[j] = x
    <3> SUFFICES ASSUME NEW x \in T PROVE \E j \in 1..Len(all) : all[j] = x
      OBVIOUS
    <3>1. CASE x \in S
      <4>1. PICK j \in 1..Len(rec) : rec[j] = x
        BY <2>2, <3>1
      <4> QED BY <1>9, <4>1
    <3>2. CASE x = ip /\ x \notin S
      <4>1. new
        BY <2>3, <3>2
      <4> QED BY <1>9, <3>2, <4>1
    <3> QED BY <3>1, <3>2
  <2> QED BY <2>4, <2>6, <2>7
<1>18. RowTells(e, T)
  BY <1>2, <1>5, <1>13, <1>14, <1>16, <1>17 DEF RowTells
<1> QED BY <1>18 DEF e

\* Every step keeps all rows truthful.
LEMMA TellsKeeps == AInv /\ RowsTell /\ [AuditNext]_allVars => RowsTell'
<1> SUFFICES ASSUME AInv, RowsTell, [AuditNext]_allVars PROVE RowsTell'
  OBVIOUS
<1>1. CASE UNCHANGED <<log, counted>>
  BY <1>1 DEF RowsTell
<1>2. ASSUME NEW r \in Reqs, NEW ip \in Addresses, Insert(r, ip) PROVE RowsTell'
  <2>1. CASE ~row.present
    BY <1>1, <1>2, <2>1 DEF Insert
  <2>2. CASE row.present
    <3> DEFINE i == replays + 1
               new == [occurred |-> audit[r].t, detail |-> Merged(NoDetail, ip)]
               one == [n |-> 1, ips |-> {ip}]
    <3>1. /\ log' = [j \in DOMAIN log \cup {i} |-> IF j = i THEN new ELSE log[j]]
          /\ counted' = [j \in DOMAIN log \cup {i} |-> IF j = i THEN one ELSE counted[j]]
      BY <1>2, <2>2 DEF Insert
    <3>2. new.detail = Merged(NoDetail, ip) /\ one.ips = {ip}
      OBVIOUS
    <3> HIDE DEF new, one, i
    <3>3. RowTells(Merged(NoDetail, ip), {} \cup {ip})
      BY MergedTells, NoDetailTells, NoAuditFacts
    <3>4. RowTells(new.detail, one.ips)
      BY <3>2, <3>3
    <3> QED BY <3>1, <3>4 DEF RowsTell
  <2> QED BY <2>1, <2>2
<1>3. ASSUME NEW r \in Reqs, NEW ip \in Addresses, Update(r, ip) PROVE RowsTell'
  <2> DEFINE i == audit[r].id
  <2>1. CASE i \notin DOMAIN log
    BY <1>1, <1>3, <2>1 DEF Update
  <2>2. CASE i \in DOMAIN log
    <3> DEFINE d == Merged(audit[r].detail, ip)
               one == [n |-> counted[i].n + 1, ips |-> counted[i].ips \cup {ip}]
    <3>1. log' = [log EXCEPT ![i].detail = d] /\ counted' = [counted EXCEPT ![i] = one]
      BY <1>3, <2>2 DEF Update
    <3>2. /\ DOMAIN counted = DOMAIN log /\ log[i] \in [occurred : Int, detail : Details]
          /\ counted[i] \in [n : Int, ips : SUBSET Addresses]
          /\ audit[r].detail = log[i].detail
      BY <1>3, <2>2 DEF Update, AInv, AuditTypes, ReadStands
    <3>3. RowTells(log[i].detail, counted[i].ips)
      BY <2>2 DEF RowsTell
    <3>4. log[i].detail \in Details /\ counted[i].ips \in SUBSET Addresses
      BY <3>2
    <3>5. RowTells(d, counted[i].ips \cup {ip})
      BY <3>2, <3>3, <3>4, MergedTells
    <3>6. one.ips = counted[i].ips \cup {ip}
      OBVIOUS
    <3> HIDE DEF d, one, i
    <3>7. /\ DOMAIN log' = DOMAIN log /\ log'[i].detail = d /\ counted'[i] = one
          /\ \A j \in DOMAIN log \ {i} : log'[j] = log[j] /\ counted'[j] = counted[j]
      BY <2>2, <3>1, <3>2
    <3>8. RowTells(log'[i].detail, counted'[i].ips)
      BY <3>5, <3>6, <3>7
    <3> QED BY <3>7, <3>8 DEF RowsTell
  <2> QED BY <2>1, <2>2
<1>4. ASSUME NEW before \in 0..MaxTime, PruneLog(before) PROVE RowsTell'
  <2> DEFINE kept == {i \in DOMAIN log : log[i].occurred >= before}
  <2>1. log' = [i \in kept |-> log[i]] /\ counted' = [i \in kept |-> counted[i]]
    BY <1>4 DEF PruneLog
  <2>2. kept \subseteq DOMAIN log
    OBVIOUS
  <2> HIDE DEF kept
  <2> QED BY <2>1, <2>2 DEF RowsTell
<1>5. ASSUME NEW r \in Reqs,
             FindOrReject(r) \/ FindRejected(r) \/ TryLock(r) \/ Read(r) \/ AbortAudit(r)
      PROVE  RowsTell'
  <2>1. UNCHANGED <<log, counted>>
    BY <1>5 DEF FindOrReject, FindRejected, TryLock, Read, AbortAudit
  <2> QED BY <1>1, <2>1
<1>6. CASE Lifetime
  <2>1. UNCHANGED <<log, counted>>
    BY <1>6 DEF Lifetime, auditVars
  <2> QED BY <1>1, <2>1
<1>7. CASE UNCHANGED allVars
  <2>1. UNCHANGED <<log, counted>>
    BY <1>7 DEF allVars
  <2> QED BY <1>1, <2>1
<1> QED BY <1>2, <1>3, <1>4, <1>5, <1>6, <1>7 DEF AuditNext

\* distinct_ip_count never understates the addresses of a row and is exact while they
\* fit into the remembered list, for every RecentLimit and set of addresses.
THEOREM AddressesAreCounted == AuditSpec => []DistinctIps
<1>1. AuditInit => RowsTell
  BY DEF AuditInit, RowsTell
<1>2. RowsTell => DistinctIps
  BY DEF RowsTell, RowTells, DistinctIps
<1> QED BY <1>1, <1>2, AuditInvariance, TellsKeeps, PTL DEF AuditSpec
=============================================================================
