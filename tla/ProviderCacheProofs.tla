------------------------ MODULE ProviderCacheProofs ------------------------
(***************************************************************************)
(* Proofs about ProviderCache, for any lifetimes and numbers of calls and  *)
(* keys.                                                                   *)
(***************************************************************************)
EXTENDS ProviderCache, TLAPS

Provider == [key : Keys, good : BOOLEAN, up : BOOLEAN]

CallRecord ==
  [at : Loading \cup Outcomes \cup {"idle"}, kind : {"authorize", "validate"}, sig : Keys, kid : BOOLEAN,
   age : 0..MaxLoad, answered : BOOLEAN, reply : Provider, calm : BOOLEAN]

\* The types of all variables.
Types ==
  /\ provider \in Provider
  /\ disc \in [good : BOOLEAN, left : 0..Ttl] /\ jwks \in [key : Keys, left : 0..Ttl]
  /\ discNeg \in 0..Negative /\ jwksNeg \in 0..Negative /\ cool \in 0..Cooldown
  /\ call \in [Calls -> CallRecord]
  /\ gone \in [Keys -> 0..Ttl]
  /\ quiet \in [rotated : Int, down : Int, bad : Int]

\* A key that is or will be the provider's has not been withdrawn.
Current == \A k \in Keys : k >= provider.key => gone[k] = 0

\* An answer is at most as old as its load.
Answers == \A i \in Calls : call[i].at \in Loading /\ call[i].answered => gone[call[i].reply.key] <= call[i].age

\* What an entry has left ends before its key is withdrawn for Ttl seconds.
Entry == jwks.left > 0 => gone[jwks.key] + jwks.left <= Ttl

IInv == Types /\ Current /\ Answers /\ Entry /\ TrustEnds

-----------------------------------------------------------------------------
\* The facts on constants that the proofs below need.
LEMMA Constants ==
  /\ Ttl \in Nat \ {0} /\ Negative \in Nat \ {0} /\ Cooldown \in Nat \ {0}
  /\ MaxLoad \in Nat \ {0} /\ MaxKeys \in Nat \ {0} /\ MaxLoad < Ttl
  /\ 1 \in Keys /\ Keys \subseteq Nat
BY CacheAssumption DEF Keys

\* What the types say of one call, of the provider and of the keys.
LEMMA CallFacts ==
  ASSUME Types, NEW i \in Calls
  PROVE  /\ call[i] \in CallRecord /\ call[i].reply \in Provider /\ call[i].reply.key \in Keys
         /\ call[i].reply.good \in BOOLEAN
         /\ call[i].age \in Nat /\ call[i].age <= MaxLoad /\ call[i].sig \in Keys
<1>1. call[i] \in CallRecord
  BY DEF Types
<1>2. call[i].reply \in Provider /\ call[i].age \in 0..MaxLoad /\ call[i].sig \in Keys
  BY <1>1 DEF CallRecord
<1>3. call[i].reply.key \in Keys /\ call[i].reply.good \in BOOLEAN
  BY <1>2 DEF Provider
<1> QED BY <1>1, <1>2, <1>3, Constants

LEMMA KeyFacts ==
  ASSUME Types
  PROVE  /\ provider.key \in Keys /\ jwks.key \in Keys /\ jwks.left \in Nat /\ jwks.left <= Ttl
         /\ \A k \in Keys : gone[k] \in Nat /\ gone[k] <= Ttl
<1>1. provider.key \in Keys
  BY DEF Types, Provider
<1>2. jwks.key \in Keys /\ jwks.left \in 0..Ttl
  BY DEF Types
<1>3. \A k \in Keys : gone[k] \in 0..Ttl
  BY DEF Types
<1> QED BY <1>1, <1>2, <1>3, Constants

\* The key of a valid entry is still to be trusted.
LEMMA EntryFacts == ASSUME IInv PROVE jwks.left > 0 => gone[jwks.key] < Ttl
<1>1. jwks.key \in Keys /\ jwks.left \in Nat
  BY KeyFacts DEF IInv
<1>2. gone[jwks.key] \in Nat
  BY <1>1, KeyFacts DEF IInv
<1>3. jwks.left > 0 => gone[jwks.key] + jwks.left <= Ttl
  BY DEF IInv, Entry
<1> QED BY <1>1, <1>2, <1>3, Constants

LEMMA IdleRecord == Idle \in CallRecord /\ Idle.at = "idle" /\ Idle.answered = FALSE /\ Published \in Provider
<1>1. Published \in Provider
  BY Constants DEF Published, Provider
<1> QED BY <1>1, Constants DEF Idle, CallRecord

\* What a call begins with, calm or not.
LEMMA RequestRecord ==
  ASSUME NEW d \in CallRecord, NEW b \in BOOLEAN
  PROVE  /\ [d EXCEPT !.calm = b] \in CallRecord /\ [d EXCEPT !.calm = b].calm = b
         /\ [d EXCEPT !.calm = b].kind = d.kind /\ [d EXCEPT !.calm = b].sig = d.sig
         /\ [d EXCEPT !.calm = b].kid = d.kid
BY DEF CallRecord

LEMMA TokenRecord == \A sig \in Keys, kid \in BOOLEAN : Token(sig, kid) \in CallRecord
BY IdleRecord DEF Token, CallRecord

LEMMA InitInv == Init => IInv
<1> SUFFICES ASSUME Init PROVE IInv
  OBVIOUS
<1>2. Types
  <2>1. Longest \in Int
    BY Constants DEF Longest
  <2> QED BY <2>1, IdleRecord, Constants DEF Init, Types, Published
<1> QED BY IdleRecord, <1>2, Constants DEF Init, IInv, Current, Answers, Entry, TrustEnds, Loading

\* A signature is accepted, from the cache, if the cached key is the token's.
LEMMA Verdict ==
  ASSUME NEW c \in CallRecord, NEW good \in BOOLEAN, NEW j \in [key : Keys, left : 0..Ttl],
         NEW n \in Nat
  PROVE  /\ AfterDiscovery(c, good, j, n) \in Loading \cup Outcomes
         /\ AfterDiscovery(c, good, j, n) = "ok" /\ c.kind = "validate" =>
              j.left > 0 /\ j.key = c.sig
<1> USE DEF AfterDiscovery, LoadOrGiveUp, Loading, Outcomes
<1>0. j.left \in Nat /\ c.kind \in {"authorize", "validate"}
  BY Constants DEF CallRecord
<1>1. CASE ~good
  BY <1>1
<1>2. CASE good /\ c.kind = "authorize"
  BY <1>2
<1>3. CASE good /\ c.kind = "validate" /\ j.left = 0
  BY <1>3
<1>4. CASE good /\ c.kind = "validate" /\ j.left > 0
  BY <1>4
<1> QED BY <1>0, <1>1, <1>2, <1>3, <1>4

\* A look at the cache keeps the key of the entry and does not prolong it.
LEMMA LookKeeps ==
  ASSUME NEW c \in CallRecord, NEW good \in BOOLEAN, Types, Entry, Looked(c, good, jwks), gone' = gone
  PROVE  /\ jwks' \in [key : Keys, left : 0..Ttl] /\ cool' \in 0..Cooldown
         /\ Entry'
BY Constants DEF Looked, Types, Entry

\* The call that goes on from one suspension to the next.
LEMMA AtKeeps ==
  ASSUME NEW c \in CallRecord, NEW at \in Loading \cup Outcomes
  PROVE  /\ At(c, at) \in CallRecord /\ At(c, at).at = at /\ At(c, at).kind = c.kind
         /\ At(c, at).sig = c.sig /\ At(c, at).kid = c.kid /\ At(c, at).answered = FALSE
<1>1. Published \in Provider
  BY Constants DEF Published, Provider
<1>2. 0 \in 0..MaxLoad
  BY Constants
<1>3. At(c, at) \in CallRecord
  BY <1>1, <1>2 DEF At, CallRecord
<1>4. /\ At(c, at).at = at /\ At(c, at).kind = c.kind
      /\ At(c, at).sig = c.sig /\ At(c, at).kid = c.kid /\ At(c, at).answered = FALSE
  BY DEF At, CallRecord
<1> QED BY <1>3, <1>4

\* One call changes, to one that has no answer yet.
LEMMA CallChanges ==
  ASSUME IInv, NEW i \in Calls, NEW d \in CallRecord, call' = [call EXCEPT ![i] = d],
         d.answered = FALSE, gone' = gone,
         d.at = "ok" /\ d.kind = "validate" => gone[d.sig] < Ttl
  PROVE  /\ call' \in [Calls -> CallRecord] /\ Answers' /\ TrustEnds'
<1>1. call' \in [Calls -> CallRecord] /\ call'[i] = d /\ \A q \in Calls \ {i} : call'[q] = call[q]
  BY DEF IInv, Types
<1> QED BY <1>1 DEF IInv, Answers, TrustEnds

LEMMA BeginKeeps == ASSUME IInv, NEW i \in Calls, NEW d \in CallRecord, Begin(i, d) PROVE IInv'
<1> DEFINE b == Settled(d)
           c == [d EXCEPT !.calm = b]
<1>1. b \in BOOLEAN
  BY DEF Settled
<1> HIDE DEF b
<1>2. c \in CallRecord
  BY <1>1, RequestRecord
<1>3. /\ IF disc.left > 0
         THEN /\ call' = [call EXCEPT ![i] = At(c, AfterDiscovery(c, disc.good, jwks, jwksNeg))]
              /\ Looked(c, disc.good, jwks)
         ELSE /\ call' = [call EXCEPT ![i] = At(c, LoadOrGiveUp(discNeg, "discovery"))]
              /\ UNCHANGED <<jwks, cool>>
      /\ UNCHANGED <<provider, disc, discNeg, jwksNeg, gone, quiet>>
  BY DEF Begin, b
<1> HIDE DEF c
<1>4. CASE disc.left > 0
  <2>1. disc.good \in BOOLEAN /\ jwks \in [key : Keys, left : 0..Ttl] /\ jwksNeg \in Nat
    BY Constants DEF IInv, Types
  <2> DEFINE at == AfterDiscovery(c, disc.good, jwks, jwksNeg)
  <2>2. at \in Loading \cup Outcomes /\ (at = "ok" /\ c.kind = "validate" => jwks.left > 0 /\ jwks.key = c.sig)
    BY <1>2, <2>1, Verdict
  <2>3. call' = [call EXCEPT ![i] = At(c, at)] /\ Looked(c, disc.good, jwks)
    BY <1>3, <1>4
  <2> HIDE DEF at
  <2>4. at = "ok" /\ c.kind = "validate" => gone[c.sig] < Ttl
    BY <2>2, EntryFacts
  <2>5. call' \in [Calls -> CallRecord] /\ Answers' /\ TrustEnds'
    <3>1. /\ At(c, at) \in CallRecord /\ At(c, at).at = at /\ At(c, at).kind = c.kind
          /\ At(c, at).sig = c.sig /\ At(c, at).answered = FALSE
      BY <1>2, <2>2, AtKeeps
    <3> QED BY <1>3, <2>3, <2>4, <3>1, CallChanges
  <2>6. jwks' \in [key : Keys, left : 0..Ttl] /\ cool' \in 0..Cooldown /\ Entry'
    BY <1>2, <1>3, <2>1, <2>3, LookKeeps DEF IInv
  <2> QED BY <1>3, <2>5, <2>6 DEF IInv, Types, Current
<1>5. CASE ~(disc.left > 0)
  <2> DEFINE at == LoadOrGiveUp(discNeg, "discovery")
  <2>1. at \in Loading \cup Outcomes /\ at # "ok"
    BY DEF LoadOrGiveUp, Loading, Outcomes
  <2>2. call' = [call EXCEPT ![i] = At(c, at)]
    BY <1>3, <1>5
  <2> HIDE DEF at
  <2>3. call' \in [Calls -> CallRecord] /\ Answers' /\ TrustEnds'
    <3>1. At(c, at) \in CallRecord /\ At(c, at).at = at /\ At(c, at).answered = FALSE
      BY <1>2, <2>1, AtKeeps
    <3> QED BY <1>3, <2>1, <2>2, <3>1, CallChanges
  <2> QED BY <1>3, <1>5, <2>3 DEF IInv, Types, Current, Entry
<1> QED BY <1>4, <1>5

LEMMA AnswerKeeps == ASSUME IInv, NEW i \in Calls, Answer(i) PROVE IInv'
<1>1. /\ call' \in [Calls -> CallRecord] /\ call'[i].at = call[i].at /\ call'[i].reply = provider
      /\ call'[i].age = call[i].age /\ call[i].at \in Loading
      /\ \A q \in Calls \ {i} : call'[q] = call[q]
      /\ UNCHANGED <<provider, disc, discNeg, jwks, jwksNeg, cool, gone, quiet>>
  <2> DEFINE d == [call[i] EXCEPT !.answered = TRUE, !.reply = provider]
  <2>1. call[i] \in CallRecord /\ provider \in Provider /\ call \in [Calls -> CallRecord]
    BY DEF IInv, Types
  <2>2. d \in CallRecord /\ d.at = call[i].at /\ d.reply = provider /\ d.age = call[i].age
    BY <2>1 DEF CallRecord
  <2>3. call' = [call EXCEPT ![i] = d]
    BY <2>1 DEF Answer, CallRecord
  <2> HIDE DEF d
  <2> QED BY <2>1, <2>2, <2>3 DEF Answer
<1>2. gone[provider.key] = 0 /\ provider.key \in Keys /\ call[i].age \in Nat
  <2>1. provider.key \in Keys /\ call[i].age \in Nat /\ provider.key \in Nat
    BY CallFacts, KeyFacts, Constants DEF IInv
  <2>2. provider.key >= provider.key
    BY <2>1
  <2> QED BY <2>1, <2>2 DEF IInv, Current
<1>3. Answers'
  BY <1>1, <1>2 DEF IInv, Answers
<1>4. TrustEnds'
  BY <1>1 DEF IInv, TrustEnds, Loading
<1> QED BY <1>1, <1>3, <1>4 DEF IInv, Types, Current, Entry

LEMMA GotDiscoveryKeeps == ASSUME IInv, NEW i \in Calls, GotDiscovery(i) PROVE IInv'
<1> DEFINE c == call[i]
           at == AfterDiscovery(c, c.reply.good, jwks, jwksNeg)
<1>1. /\ c \in CallRecord /\ c.reply.good \in BOOLEAN /\ jwksNeg \in Nat
      /\ jwks \in [key : Keys, left : 0..Ttl]
  BY Constants DEF IInv, Types, CallRecord, Provider
<1>2. /\ disc' = [good |-> c.reply.good, left |-> Rest(Ttl, c)] /\ discNeg' = 0
      /\ call' = [call EXCEPT ![i] = At(c, at)] /\ Looked(c, c.reply.good, jwks)
      /\ UNCHANGED <<provider, jwksNeg, gone, quiet>>
  BY DEF GotDiscovery
<1>3. at \in Loading \cup Outcomes /\ (at = "ok" /\ c.kind = "validate" => jwks.left > 0 /\ jwks.key = c.sig)
  BY <1>1, Verdict
<1>4. disc' \in [good : BOOLEAN, left : 0..Ttl]
  BY <1>1, <1>2, Constants DEF Rest, CallRecord
<1> HIDE DEF at, c
<1>5. at = "ok" /\ c.kind = "validate" => gone[c.sig] < Ttl
  BY <1>3, EntryFacts
<1>6. call' \in [Calls -> CallRecord] /\ Answers' /\ TrustEnds'
  <2>1. /\ At(c, at) \in CallRecord /\ At(c, at).at = at /\ At(c, at).kind = c.kind
        /\ At(c, at).sig = c.sig /\ At(c, at).answered = FALSE
    BY <1>1, <1>3, AtKeeps
  <2> QED BY <1>2, <1>5, <2>1, CallChanges
<1>7. jwks' \in [key : Keys, left : 0..Ttl] /\ cool' \in 0..Cooldown /\ Entry'
  BY <1>1, <1>2, LookKeeps DEF IInv
<1>8. Types'
  BY <1>2, <1>4, <1>6, <1>7, Constants DEF IInv, Types
<1>9. Current'
  BY <1>2 DEF IInv, Current
<1> QED BY <1>6, <1>7, <1>8, <1>9 DEF IInv

LEMMA GotKeysKeeps == ASSUME IInv, NEW i \in Calls, GotKeys(i) PROVE IInv'
<1> DEFINE c == call[i]
           j == [key |-> c.reply.key, left |-> Rest(Ttl, c)]
<1>1. /\ c \in CallRecord /\ c.reply.key \in Keys /\ c.age \in 0..MaxLoad
      /\ gone[c.reply.key] \in Nat /\ gone[c.reply.key] <= c.age
  BY Constants DEF IInv, Types, CallRecord, Provider, Answers, GotKeys, Loading
<1>2. j \in [key : Keys, left : 0..Ttl] /\ gone[j.key] + j.left <= Ttl
  BY <1>1, Constants DEF Rest
<1>3. /\ jwksNeg' = 0
      /\ IF c.at = "jwks" /\ Refreshes(c, c.reply.key)
         THEN /\ jwks' = [j EXCEPT !.left = 0] /\ cool' = Cooldown
              /\ call' = [call EXCEPT ![i] = At(c, "forced")]
         ELSE /\ jwks' = j /\ cool' = cool
              /\ call' = [call EXCEPT ![i] = At(c, IF c.reply.key = c.sig THEN "ok" ELSE "badkey")]
      /\ UNCHANGED <<provider, disc, discNeg, gone, quiet>>
  BY DEF GotKeys
<1>4. gone[c.reply.key] < Ttl
  BY <1>1, Constants
<1> HIDE DEF c, j
<1>5. jwks' \in [key : Keys, left : 0..Ttl] /\ cool' \in 0..Cooldown /\ Entry'
  BY <1>2, <1>3, Constants DEF Entry, IInv, Types
<1>6. PICK at \in Loading \cup Outcomes :
        call' = [call EXCEPT ![i] = At(c, at)] /\ (at = "ok" => c.reply.key = c.sig)
  BY <1>3 DEF Loading, Outcomes
<1>7. call' \in [Calls -> CallRecord] /\ Answers' /\ TrustEnds'
  <2>1. /\ At(c, at) \in CallRecord /\ At(c, at).at = at /\ At(c, at).kind = c.kind
        /\ At(c, at).sig = c.sig /\ At(c, at).answered = FALSE
    BY <1>1, <1>6, AtKeeps
  <2>2. at = "ok" => gone[c.sig] < Ttl
    BY <1>4, <1>6
  <2> QED BY <1>3, <1>6, <2>1, <2>2, CallChanges
<1> QED BY <1>3, <1>5, <1>7, Constants DEF IInv, Types, Current

LEMMA LoadFailsKeeps == ASSUME IInv, NEW i \in Calls, LoadFails(i) PROVE IInv'
<1>1. call[i] \in CallRecord /\ call[i].age \in 0..MaxLoad
  BY DEF IInv, Types, CallRecord
<1>2. call' \in [Calls -> CallRecord] /\ Answers' /\ TrustEnds'
  BY <1>1, AtKeeps, CallChanges DEF LoadFails, Outcomes
<1>3. discNeg' \in 0..Negative /\ jwksNeg' \in 0..Negative
  BY <1>1, Constants DEF LoadFails, Rest, IInv, Types
<1> QED BY <1>2, <1>3 DEF LoadFails, IInv, Types, Current, Entry

LEMMA EndKeeps == ASSUME IInv, NEW i \in Calls, End(i) PROVE IInv'
<1>1. Idle \in CallRecord /\ Idle.answered = FALSE /\ Idle.at = "idle"
  BY Constants DEF Idle, CallRecord, Published, Provider
<1>2. call' \in [Calls -> CallRecord] /\ Answers' /\ TrustEnds'
  BY <1>1, CallChanges DEF End
<1> QED BY <1>2 DEF End, IInv, Types, Current, Entry

\* A second: what an answer and an entry allow shrinks as fast as keys grow old.
LEMMA TickKeeps == ASSUME IInv, Tick PROVE IInv'
<1>1. /\ \A k \in Keys : gone'[k] \in Nat /\ gone'[k] <= gone[k] + 1
                         /\ (k >= provider.key => gone'[k] = 0)
      /\ gone' \in [Keys -> 0..Ttl]
  <2>1. ASSUME NEW k \in Keys
        PROVE  LET n == IF k < provider.key THEN More(gone[k], Ttl) ELSE 0
               IN n \in 0..Ttl /\ n <= gone[k] + 1 /\ (k >= provider.key => n = 0)
    <3>1. k \in Nat /\ provider.key \in Nat /\ gone[k] \in Nat /\ gone[k] <= Ttl
      BY KeyFacts, Constants DEF IInv
    <3> QED BY <3>1, Constants DEF More
  <2> QED BY <2>1, Constants DEF Tick
<1>2. /\ call' \in [Calls -> CallRecord]
      /\ \A i \in Calls : /\ call[i].at \notin Outcomes /\ call'[i].at = call[i].at
                          /\ call'[i].answered = call[i].answered /\ call'[i].reply = call[i].reply
                          /\ call[i].at \in Loading => call'[i].age = call[i].age + 1
  BY Constants DEF Tick, IInv, Types, CallRecord
<1>3. /\ jwks' \in [key : Keys, left : 0..Ttl] /\ jwks'.key = jwks.key
      /\ jwks'.left > 0 => jwks.left > 0 /\ jwks'.left = jwks.left - 1
  BY Constants DEF Tick, Less, IInv, Types
<1>4. /\ disc' \in [good : BOOLEAN, left : 0..Ttl] /\ discNeg' \in 0..Negative
      /\ jwksNeg' \in 0..Negative /\ cool' \in 0..Cooldown
  BY Constants DEF Tick, Less, IInv, Types
<1>5. quiet' \in [rotated : Int, down : Int, bad : Int]
  <2>1. Longest \in Int
    BY Constants DEF Longest
  <2> QED BY <2>1, Constants DEF Tick, More, IInv, Types
<1>6. provider' = provider
  BY DEF Tick
<1>7. Answers'
  <2> SUFFICES ASSUME NEW i \in Calls, call'[i].at \in Loading, call'[i].answered
               PROVE  gone'[call'[i].reply.key] <= call'[i].age
    BY DEF Answers
  <2>1. call[i].reply.key \in Keys /\ call[i].age \in Nat /\ gone[call[i].reply.key] \in Nat
    BY CallFacts, KeyFacts DEF IInv
  <2>2. gone[call[i].reply.key] <= call[i].age
    BY <1>2 DEF IInv, Answers
  <2>3. gone'[call[i].reply.key] \in Nat /\ gone'[call[i].reply.key] <= gone[call[i].reply.key] + 1
    BY <1>1, <2>1
  <2> QED BY <1>2, <2>1, <2>2, <2>3
<1>8. Entry'
  <2>1. jwks.key \in Keys /\ jwks.left \in Nat /\ gone[jwks.key] \in Nat
    BY KeyFacts DEF IInv
  <2>2. gone'[jwks.key] \in Nat /\ gone'[jwks.key] <= gone[jwks.key] + 1
    BY <1>1, <2>1
  <2> QED BY <1>3, <2>1, <2>2, Constants DEF IInv, Entry
<1>9. TrustEnds'
  BY <1>2 DEF TrustEnds, Outcomes
<1> QED BY <1>1, <1>2, <1>3, <1>4, <1>5, <1>6, <1>7, <1>8, <1>9 DEF IInv, Types, Current

\* A change of the provider leaves the caches and the answers alone.
LEMMA UnrestKeeps ==
  ASSUME IInv, Unrest, provider' \in Provider, provider'.key >= provider.key,
         quiet' \in [rotated : Int, down : Int, bad : Int]
  PROVE  IInv'
<1>1. /\ call' \in [Calls -> CallRecord]
      /\ \A i \in Calls : /\ call'[i].at = call[i].at /\ call'[i].kind = call[i].kind
                          /\ call'[i].sig = call[i].sig /\ call'[i].age = call[i].age
                          /\ call'[i].answered = call[i].answered /\ call'[i].reply = call[i].reply
      /\ UNCHANGED <<disc, discNeg, jwks, jwksNeg, cool, gone>>
  <2>1. \A i \in Calls : call'[i] = [call[i] EXCEPT !.calm = FALSE]
    BY DEF Unrest
  <2>2. \A i \in Calls : call[i] \in CallRecord
    BY CallFacts DEF IInv
  <2>3. ASSUME NEW d \in CallRecord
        PROVE  LET e == [d EXCEPT !.calm = FALSE]
               IN /\ e \in CallRecord /\ e.at = d.at /\ e.kind = d.kind /\ e.sig = d.sig
                  /\ e.age = d.age /\ e.answered = d.answered /\ e.reply = d.reply
    BY <2>3 DEF CallRecord
  <2> QED BY <2>1, <2>2, <2>3 DEF Unrest
<1>2. Types'
  BY <1>1 DEF IInv, Types
<1>3. Current'
  <2>1. provider.key \in Nat /\ provider'.key \in Nat
    BY KeyFacts, Constants DEF IInv, Provider
  <2> QED BY <1>1, <2>1, Constants DEF IInv, Current
<1>4. Answers' /\ TrustEnds' /\ Entry'
  BY <1>1 DEF IInv, Answers, TrustEnds, Entry
<1> QED BY <1>2, <1>3, <1>4 DEF IInv

LEMMA NextKeeps == IInv /\ [Next]_vars => IInv'
<1> SUFFICES ASSUME IInv, [Next]_vars PROVE IInv'
  OBVIOUS
<1>1. CASE Rotate \/ Fail \/ Spoil
  <2>1. provider' \in Provider /\ provider'.key >= provider.key
    <3>1. provider \in Provider /\ provider.key \in Nat /\ provider.key \in Keys
      BY KeyFacts, Constants DEF IInv, Types
    <3>2. CASE Rotate
      <4>1. provider.key + 1 \in Keys /\ provider.key + 1 >= provider.key
        BY <3>1, <3>2, Constants DEF Rotate, Keys
      <4> QED BY <3>1, <3>2, <4>1 DEF Rotate, Provider
    <3>3. CASE Fail \/ Spoil
      <4>1. ASSUME NEW b \in BOOLEAN
            PROVE  /\ [provider EXCEPT !.up = b] \in Provider
                   /\ [provider EXCEPT !.good = b] \in Provider
                   /\ [provider EXCEPT !.up = b].key = provider.key
                   /\ [provider EXCEPT !.good = b].key = provider.key
        BY <3>1, <4>1 DEF Provider
      <4>2. (~provider.up) \in BOOLEAN /\ (~provider.good) \in BOOLEAN
        OBVIOUS
      <4>3. provider' = [provider EXCEPT !.up = ~provider.up]
            \/ provider' = [provider EXCEPT !.good = ~provider.good]
        BY <3>3 DEF Fail, Spoil
      <4>4. provider' \in Provider /\ provider'.key = provider.key
        BY <4>1, <4>2, <4>3
      <4> QED BY <3>1, <4>4
    <3> QED BY <1>1, <3>2, <3>3
  <2>2. quiet' \in [rotated : Int, down : Int, bad : Int]
    BY <1>1 DEF Rotate, Fail, Spoil, IInv, Types
  <2> QED BY <1>1, <2>1, <2>2, UnrestKeeps DEF Rotate, Fail, Spoil
<1>2. CASE UNCHANGED vars
  BY <1>2 DEF vars, IInv, Types, Current, Answers, Entry, TrustEnds
<1> QED BY <1>1, <1>2, IdleRecord, TokenRecord, BeginKeeps, AnswerKeeps, GotDiscoveryKeeps, GotKeysKeeps, LoadFailsKeeps,
          EndKeeps, TickKeeps DEF Next

LEMMA Inductive == Spec => []IInv
BY InitInv, NextKeeps, PTL DEF Spec

-----------------------------------------------------------------------------
\* The entries of all caches keep their types: no lifetime exceeds its constant.
THEOREM TypeCorrect == Spec => []TypeOK
<1>1. IInv => TypeOK
  BY DEF IInv, Types, TypeOK, CallRecord, Provider
<1> QED BY <1>1, Inductive, PTL

\* A withdrawn key is trusted for less than Ttl seconds more, for any lifetimes and
\* any number of concurrent calls whose answers overtake each other.
THEOREM TrustIsBounded == Spec => []TrustEnds
<1>1. IInv => TrustEnds
  BY DEF IInv
<1> QED BY <1>1, Inductive, PTL

-----------------------------------------------------------------------------
(* The caches heal. *)

\* The history counts the seconds since the provider last was down or published bad metadata.
Counts ==
  /\ quiet.rotated >= 0 /\ quiet.down >= 0 /\ quiet.bad >= 0
  /\ ~provider.up => quiet.down = 0
  /\ ~provider.good => quiet.bad = 0

\* An answer tells of an outage, of bad metadata or of a withdrawn key for no longer than
\* its load has taken.
Told(c) ==
  c.at \in Loading /\ c.answered =>
    /\ ~c.reply.up => quiet.down <= c.age
    /\ ~c.reply.good => quiet.bad <= c.age
    /\ c.reply.key # provider.key => quiet.rotated <= c.age

\* What the caches remember of a failure, of bad metadata or of a withdrawn key ends in
\* time, and so does the cooldown while a withdrawn key is cached.
Stale == jwks.left > 0 /\ jwks.key # provider.key =>
           /\ jwks.left + quiet.rotated <= Ttl
           /\ cool > 0 => cool + quiet.rotated <= Cooldown + MaxLoad

Remembered ==
  /\ discNeg > 0 => discNeg + quiet.down <= Negative
  /\ jwksNeg > 0 => jwksNeg + quiet.down <= Negative
  /\ disc.left > 0 /\ ~disc.good => disc.left + quiet.bad <= Ttl
  /\ Stale

\* A call that began when all was calm sees what the provider publishes, and does not fail.
Calm(c) ==
  c.calm => /\ Settled(c)
            /\ c.at \in {"jwks", "forced"} => c.kind = "validate"
            /\ c.at \in Loading /\ c.answered => c.reply = provider
            /\ c.at \in Outcomes => c.at = "ok"

HInv == Counts /\ Remembered /\ \A i \in Calls : Told(call[i]) /\ Calm(call[i])

\* The types of what the invariant counts.
LEMMA Numbers ==
  ASSUME Types
  PROVE  /\ quiet.rotated \in Int /\ quiet.down \in Int /\ quiet.bad \in Int
         /\ discNeg \in Nat /\ jwksNeg \in Nat /\ disc.left \in Nat /\ jwks.left \in Nat /\ cool \in Nat
         /\ discNeg <= Negative /\ jwksNeg <= Negative /\ disc.left <= Ttl /\ jwks.left <= Ttl /\ cool <= Cooldown
         /\ disc.good \in BOOLEAN /\ provider.up \in BOOLEAN /\ provider.good \in BOOLEAN
BY Constants DEF Types, Provider

\* When all is calm nothing stands in the way of a call.
LEMMA NothingLeft ==
  ASSUME Types, HInv, NEW c, Settled(c)
  PROVE  /\ discNeg = 0 /\ jwksNeg = 0 /\ provider.up /\ provider.good
         /\ disc.left > 0 => disc.good
BY Numbers, Constants DEF HInv, Counts, Remembered, Settled

\* A cached key that does not fit a token can be loaded again at once.
LEMMA NothingStale ==
  ASSUME Types, HInv, NEW c \in CallRecord, Settled(c), c.kind = "validate", jwks.left > 0, jwks.key # c.sig
  PROVE  c.kid /\ cool = 0
<1>1. jwks.left + quiet.rotated <= Ttl /\ (cool > 0 => cool + quiet.rotated <= Cooldown + MaxLoad)
  BY DEF HInv, Remembered, Stale, Settled
<1>2. c.kid \in BOOLEAN /\ quiet.rotated >= Unsettled(c.kid)
  BY DEF Settled, CallRecord
<1>3. CASE c.kid
  BY <1>1, <1>2, <1>3, Numbers, Constants DEF Unsettled
<1>4. CASE ~c.kid
  BY <1>1, <1>2, <1>4, Numbers, Constants DEF Unsettled
<1> QED BY <1>2, <1>3, <1>4

LEMMA CalmVerdict ==
  ASSUME Types, HInv, NEW c \in CallRecord, Settled(c)
  PROVE  /\ AfterDiscovery(c, TRUE, jwks, jwksNeg) \in Loading \cup {"ok"}
         /\ AfterDiscovery(c, TRUE, jwks, jwksNeg) \in {"jwks", "forced"} => c.kind = "validate"
<1> USE DEF AfterDiscovery, LoadOrGiveUp, Loading
<1>0. jwks.left \in Nat /\ c.kind \in {"authorize", "validate"} /\ jwksNeg = 0
  BY Numbers, NothingLeft DEF CallRecord
<1>1. CASE c.kind = "authorize"
  BY <1>1
<1>2. CASE c.kind = "validate" /\ jwks.left = 0
  BY <1>0, <1>2
<1>3. CASE c.kind = "validate" /\ jwks.left > 0
  <2>1. jwks.key # c.sig => Refreshes(c, jwks.key)
    BY <1>3, NothingStale DEF Refreshes
  <2> QED BY <1>0, <1>3, <2>1
<1> QED BY <1>0, <1>1, <1>2, <1>3

\* A call at its next suspension has no answer yet; it has to be a good one if it is calm.
LEMMA AtCalm ==
  ASSUME NEW c \in CallRecord, NEW at \in Loading \cup Outcomes,
         c.calm => /\ Settled(c) /\ at \in Loading \cup {"ok"}
                   /\ at \in {"jwks", "forced"} => c.kind = "validate"
  PROVE  At(c, at) \in CallRecord /\ Told(At(c, at)) /\ Calm(At(c, at))
<1>1. /\ At(c, at) \in CallRecord /\ At(c, at).at = at /\ At(c, at).sig = c.sig
      /\ At(c, at).kind = c.kind /\ At(c, at).kid = c.kid /\ At(c, at).answered = FALSE
  BY AtKeeps
<1>2. At(c, at).calm = c.calm
  BY DEF At, CallRecord
<1>3. at \in Loading \cup {"ok"} => (at \in Outcomes => at = "ok")
  BY DEF Loading, Outcomes
<1>4. Settled(c) => Settled(At(c, at))
  BY <1>1 DEF Settled
<1> QED BY <1>1, <1>2, <1>3, <1>4 DEF Told, Calm

\* One call changes, and no other sees it.
LEMMA OneCall ==
  ASSUME Types, HInv, NEW i \in Calls, NEW d \in CallRecord, call' = [call EXCEPT ![i] = d],
         UNCHANGED <<provider, quiet>>, Told(d), Calm(d)
  PROVE  \A q \in Calls : Told(call[q])' /\ Calm(call[q])'
<1> SUFFICES ASSUME NEW q \in Calls PROVE Told(call[q])' /\ Calm(call[q])'
  OBVIOUS
<1>1. call'[q] = d \/ call'[q] = call[q]
  BY DEF Types
<1>2. Told(call[q]) /\ Calm(call[q])
  BY DEF HInv
<1>3. PICK e : e = call'[q] /\ Told(e) /\ Calm(e)
  BY <1>1, <1>2
<1> QED BY <1>3 DEF Told, Calm, Settled

\* A look at the caches leaves the failures alone and forgets at most the entry it refreshes.
LEMMA LookRemembers ==
  ASSUME Types, HInv, NEW c, NEW good, Looked(c, good, jwks), UNCHANGED <<provider, quiet>>
  PROVE  Stale'
<1>1. CASE Forced(c, good, jwks)
  <2>1. jwks' = [jwks EXCEPT !.left = 0]
    BY <1>1 DEF Looked
  <2>2. jwks'.left = 0
    BY <2>1 DEF Types
  <2> QED BY <2>2 DEF Stale
<1>2. CASE ~Forced(c, good, jwks)
  BY <1>2 DEF Looked, HInv, Remembered, Stale
<1> QED BY <1>1, <1>2

LEMMA BeginHeals == ASSUME Types, HInv, NEW i \in Calls, NEW d \in CallRecord, Begin(i, d) PROVE HInv'
<1> DEFINE b == Settled(d)
           c == [d EXCEPT !.calm = b]
<1>1. b \in BOOLEAN
  BY DEF Settled
<1>2. /\ IF disc.left > 0
         THEN /\ call' = [call EXCEPT ![i] = At(c, AfterDiscovery(c, disc.good, jwks, jwksNeg))]
              /\ Looked(c, disc.good, jwks)
         ELSE /\ call' = [call EXCEPT ![i] = At(c, LoadOrGiveUp(discNeg, "discovery"))]
              /\ UNCHANGED <<jwks, cool>>
      /\ UNCHANGED <<provider, disc, discNeg, jwksNeg, gone, quiet>>
  BY DEF Begin
<1>3. c \in CallRecord /\ c.calm = b /\ c.kind = d.kind /\ c.sig = d.sig /\ c.kid = d.kid
  <2> HIDE DEF b
  <2> QED BY <1>1, RequestRecord
<1>4. c.calm => Settled(c)
  BY <1>3 DEF Settled
<1> HIDE DEF c, b
<1>5. Counts'
  BY <1>2 DEF HInv, Counts
<1>6. CASE disc.left > 0
  <2> DEFINE at == AfterDiscovery(c, disc.good, jwks, jwksNeg)
  <2>1. call' = [call EXCEPT ![i] = At(c, at)] /\ Looked(c, disc.good, jwks)
    BY <1>2, <1>6
  <2>2. at \in Loading \cup Outcomes
    <3>1. disc.good \in BOOLEAN /\ jwks \in [key : Keys, left : 0..Ttl] /\ jwksNeg \in Nat
      BY Constants DEF Types
    <3> QED BY <1>3, <3>1, Verdict
  <2>3. c.calm => at \in Loading \cup {"ok"} /\ (at \in {"jwks", "forced"} => c.kind = "validate")
    <3>1. c.calm => disc.good = TRUE
      BY <1>4, <1>6, NothingLeft, Numbers
    <3> QED BY <1>3, <1>4, <3>1, CalmVerdict
  <2> HIDE DEF at
  <2>4. At(c, at) \in CallRecord /\ Told(At(c, at)) /\ Calm(At(c, at))
    BY <1>3, <1>4, <2>2, <2>3, AtCalm
  <2>5. \A q \in Calls : Told(call[q])' /\ Calm(call[q])'
    BY <1>2, <2>1, <2>4, OneCall
  <2>6. Remembered'
    BY <1>2, <2>1, LookRemembers DEF HInv, Remembered
  <2> QED BY <1>5, <2>5, <2>6 DEF HInv
<1>7. CASE ~(disc.left > 0)
  <2> DEFINE at == LoadOrGiveUp(discNeg, "discovery")
  <2>1. call' = [call EXCEPT ![i] = At(c, at)] /\ UNCHANGED <<jwks, cool>>
    BY <1>2, <1>7
  <2>2. at \in Loading \cup Outcomes /\ (discNeg = 0 => at \in Loading) /\ at \notin {"jwks", "forced"}
    BY DEF LoadOrGiveUp, Loading, Outcomes
  <2> HIDE DEF at
  <2>3. c.calm => at \in Loading \cup {"ok"}
    BY <1>4, <2>2, NothingLeft
  <2>4. At(c, at) \in CallRecord /\ Told(At(c, at)) /\ Calm(At(c, at))
    BY <1>3, <1>4, <2>2, <2>3, AtCalm
  <2>5. \A q \in Calls : Told(call[q])' /\ Calm(call[q])'
    BY <1>2, <2>1, <2>4, OneCall
  <2>6. Remembered'
    BY <1>2, <2>1 DEF HInv, Remembered, Stale
  <2> QED BY <1>5, <2>5, <2>6 DEF HInv
<1> QED BY <1>6, <1>7

LEMMA AnswerHeals == ASSUME Types, HInv, NEW i \in Calls, Answer(i) PROVE HInv'
<1> DEFINE d == [call[i] EXCEPT !.answered = TRUE, !.reply = provider]
<1>1. call[i] \in CallRecord /\ call[i].age \in Nat /\ provider \in Provider
  BY CallFacts DEF Types
<1>2. call' = [call EXCEPT ![i] = d] /\ UNCHANGED <<provider, disc, discNeg, jwks, jwksNeg, cool, gone, quiet>>
  BY <1>1 DEF Answer, Types, CallRecord
<1>3. /\ d \in CallRecord /\ d.at = call[i].at /\ d.age = call[i].age /\ d.reply = provider
      /\ d.calm = call[i].calm /\ d.sig = call[i].sig /\ d.kind = call[i].kind /\ d.kid = call[i].kid
  BY <1>1 DEF CallRecord
<1> HIDE DEF d
<1>4. Told(d)
  BY <1>1, <1>3 DEF Told, HInv, Counts
<1>5. Calm(d)
  BY <1>3 DEF Calm, Settled, HInv
<1>6. \A q \in Calls : Told(call[q])' /\ Calm(call[q])'
  BY <1>2, <1>3, <1>4, <1>5, OneCall
<1> QED BY <1>2, <1>6 DEF HInv, Counts, Remembered, Stale

LEMMA GotDiscoveryHeals == ASSUME Types, HInv, NEW i \in Calls, GotDiscovery(i) PROVE HInv'
<1>0. PICK c \in CallRecord : c = call[i]
  BY CallFacts
<1> DEFINE at == AfterDiscovery(c, c.reply.good, jwks, jwksNeg)
<1>1. c.at = "discovery" /\ c.answered /\ c.reply.up /\ c.age \in Nat /\ c.reply.good \in BOOLEAN
  BY <1>0, CallFacts DEF GotDiscovery
<1>2. /\ disc' = [good |-> c.reply.good, left |-> Rest(Ttl, c)] /\ discNeg' = 0
      /\ call' = [call EXCEPT ![i] = At(c, at)] /\ Looked(c, c.reply.good, jwks)
      /\ UNCHANGED <<provider, jwksNeg, gone, quiet>>
  BY <1>0 DEF GotDiscovery
<1>3. Told(c) /\ Calm(c)
  BY <1>0 DEF HInv
<1>4. c.calm => Settled(c) /\ c.reply.good = TRUE
  BY <1>1, <1>3, NothingLeft, Numbers DEF Calm, Loading
<1>5. at \in Loading \cup Outcomes
  <2>1. jwks \in [key : Keys, left : 0..Ttl] /\ jwksNeg \in Nat
    BY Constants DEF Types
  <2> QED BY <1>1, <2>1, Verdict
<1>6. c.calm => at \in Loading \cup {"ok"} /\ (at \in {"jwks", "forced"} => c.kind = "validate")
  BY <1>4, CalmVerdict
<1> HIDE DEF at
<1>7. At(c, at) \in CallRecord /\ Told(At(c, at)) /\ Calm(At(c, at))
  BY <1>4, <1>5, <1>6, AtCalm
<1>8. \A q \in Calls : Told(call[q])' /\ Calm(call[q])'
  BY <1>2, <1>7, OneCall
<1>9. disc'.left > 0 /\ ~disc'.good => disc'.left + quiet.bad <= Ttl
  BY <1>1, <1>2, <1>3, Numbers, Constants DEF Told, Loading, Rest
<1>10. Remembered'
  BY <1>2, <1>9, LookRemembers DEF HInv, Remembered
<1>11. Counts'
  BY <1>2 DEF HInv, Counts
<1> QED BY <1>8, <1>10, <1>11 DEF HInv

LEMMA GotKeysHeals == ASSUME Types, HInv, NEW i \in Calls, GotKeys(i) PROVE HInv'
<1>0. PICK c \in CallRecord : c = call[i]
  BY CallFacts
<1> DEFINE j == [key |-> c.reply.key, left |-> Rest(Ttl, c)]
<1>1. c.at \in {"jwks", "forced"} /\ c.answered /\ c.age \in Nat /\ c.age <= MaxLoad
  BY <1>0, CallFacts DEF GotKeys
<1>2. /\ jwksNeg' = 0
      /\ IF c.at = "jwks" /\ Refreshes(c, c.reply.key)
         THEN /\ jwks' = [j EXCEPT !.left = 0] /\ cool' = Cooldown
              /\ call' = [call EXCEPT ![i] = At(c, "forced")]
         ELSE /\ jwks' = j /\ cool' = cool
              /\ call' = [call EXCEPT ![i] = At(c, IF c.reply.key = c.sig THEN "ok" ELSE "badkey")]
      /\ UNCHANGED <<provider, disc, discNeg, gone, quiet>>
  BY <1>0 DEF GotKeys
<1>3. Told(c) /\ Calm(c)
  BY <1>0 DEF HInv
<1>4. c.calm => Settled(c) /\ c.kind = "validate" /\ c.reply.key = c.sig
  BY <1>1, <1>3 DEF Calm, Settled, Loading
<1>5. PICK at \in {"forced", "ok", "badkey"} :
        call' = [call EXCEPT ![i] = At(c, at)] /\ (c.reply.key = c.sig => at \in {"forced", "ok"})
  BY <1>2
<1>6. At(c, at) \in CallRecord /\ Told(At(c, at)) /\ Calm(At(c, at))
  <2>1. at \in Loading \cup Outcomes /\ (at \in {"forced", "ok"} => at \in Loading \cup {"ok"})
    BY DEF Loading, Outcomes
  <2> QED BY <1>4, <1>5, <2>1, AtCalm
<1>7. \A q \in Calls : Told(call[q])' /\ Calm(call[q])'
  BY <1>2, <1>5, <1>6, OneCall
<1>8. Stale'
  <2>1. CASE c.at = "jwks" /\ Refreshes(c, c.reply.key)
    BY <1>2, <2>1 DEF Stale
  <2>2. CASE ~(c.at = "jwks" /\ Refreshes(c, c.reply.key))
    <3>1. jwks' = j /\ cool' = cool /\ provider' = provider /\ quiet' = quiet
      BY <1>2, <2>2
    <3>2. c.reply.key # provider.key => quiet.rotated <= c.age
      BY <1>1, <1>3 DEF Told, Loading
    <3>3. j.key = c.reply.key /\ j.left = Ttl - c.age
      BY <1>1, Constants DEF Rest
    <3> HIDE DEF j
    <3> QED BY <1>1, <3>1, <3>2, <3>3, Numbers, Constants DEF Stale
  <2> QED BY <2>1, <2>2
<1>9. Remembered'
  BY <1>2, <1>8 DEF HInv, Remembered
<1>10. Counts'
  BY <1>2 DEF HInv, Counts
<1> QED BY <1>7, <1>9, <1>10 DEF HInv

LEMMA LoadFailsHeals == ASSUME Types, HInv, NEW i \in Calls, LoadFails(i) PROVE HInv'
<1>0. PICK c \in CallRecord : c = call[i]
  BY CallFacts
<1>1. c.at \in Loading /\ c.answered /\ ~c.reply.up /\ c.age \in Nat
  BY <1>0, CallFacts DEF LoadFails
<1>2. Told(c) /\ Calm(c)
  BY <1>0 DEF HInv
<1>3. ~c.calm
  BY <1>1, <1>2, NothingLeft DEF Calm
<1>4. At(c, "unavailable") \in CallRecord /\ Told(At(c, "unavailable")) /\ Calm(At(c, "unavailable"))
  BY <1>3, AtCalm DEF Outcomes
<1>5. /\ discNeg' = (IF c.at = "discovery" THEN Rest(Negative, c) ELSE discNeg)
      /\ jwksNeg' = (IF c.at = "discovery" THEN jwksNeg ELSE Rest(Negative, c))
      /\ call' = [call EXCEPT ![i] = At(c, "unavailable")]
      /\ UNCHANGED <<provider, disc, jwks, cool, gone, quiet>>
  BY <1>0 DEF LoadFails
<1>6. \A q \in Calls : Told(call[q])' /\ Calm(call[q])'
  BY <1>4, <1>5, OneCall
<1>7. Rest(Negative, c) > 0 => Rest(Negative, c) + quiet.down <= Negative
  BY <1>1, <1>2, Numbers, Constants DEF Told, Rest
<1>8. Remembered'
  BY <1>5, <1>7 DEF HInv, Remembered, Stale
<1> QED BY <1>5, <1>6, <1>8 DEF HInv, Counts

LEMMA EndHeals == ASSUME Types, HInv, NEW i \in Calls, End(i) PROVE HInv'
<1>1. Idle \in CallRecord /\ Told(Idle) /\ Calm(Idle)
  BY IdleRecord DEF Told, Calm, Idle, Loading
<1>2. \A q \in Calls : Told(call[q])' /\ Calm(call[q])'
  BY <1>1, OneCall DEF End
<1> QED BY <1>2 DEF End, HInv, Counts, Remembered, Stale

\* A second: what is remembered shrinks as fast as the history grows.
LEMMA TickHeals == ASSUME Types, HInv, Tick PROVE HInv'
<1>1. /\ disc' = [disc EXCEPT !.left = Less(@)] /\ jwks' = [jwks EXCEPT !.left = Less(@)]
      /\ discNeg' = Less(discNeg) /\ jwksNeg' = Less(jwksNeg) /\ cool' = Less(cool)
      /\ provider' = provider
  BY DEF Tick
<1>2. ASSUME NEW n \in Nat PROVE Less(n) \in Nat /\ (Less(n) > 0 => n > 0 /\ Less(n) = n - 1)
  BY DEF Less
<1>3. /\ quiet'.rotated = More(quiet.rotated, Longest)
      /\ quiet'.down = (IF provider.up THEN More(quiet.down, Negative) ELSE 0)
      /\ quiet'.bad = (IF provider.good THEN More(quiet.bad, Ttl) ELSE 0)
  BY DEF Tick
<1>4. ASSUME NEW n \in Int, n >= 0, NEW bound \in Nat
      PROVE  /\ More(n, bound) \in Int /\ More(n, bound) >= 0 /\ More(n, bound) <= n + 1
             /\ n >= bound => More(n, bound) >= bound
  BY <1>4 DEF More
<1>5. quiet.rotated \in Int /\ quiet.down \in Int /\ quiet.bad \in Int
      /\ quiet.rotated >= 0 /\ quiet.down >= 0 /\ quiet.bad >= 0
  BY Numbers DEF HInv, Counts
<1>6. /\ quiet'.rotated \in Int /\ quiet'.down \in Int /\ quiet'.bad \in Int
      /\ quiet'.rotated >= 0 /\ quiet'.down >= 0 /\ quiet'.bad >= 0
      /\ quiet'.rotated <= quiet.rotated + 1 /\ quiet'.down <= quiet.down + 1 /\ quiet'.bad <= quiet.bad + 1
      /\ \A kid \in BOOLEAN : quiet.rotated >= Unsettled(kid) => quiet'.rotated >= Unsettled(kid)
      /\ provider.up /\ quiet.down >= Negative => quiet'.down >= Negative
      /\ provider.good /\ quiet.bad >= Ttl => quiet'.bad >= Ttl
  <2>1. Longest \in Nat /\ Negative \in Nat /\ Ttl \in Nat
    BY Constants DEF Longest
  <2>2. More(quiet.rotated, Longest) \in Int /\ More(quiet.rotated, Longest) >= 0
        /\ More(quiet.rotated, Longest) <= quiet.rotated + 1
    BY <1>4, <1>5, <2>1
  <2>5. ASSUME NEW kid \in BOOLEAN, quiet.rotated >= Unsettled(kid)
        PROVE  More(quiet.rotated, Longest) >= Unsettled(kid)
    <3>1. Unsettled(kid) \in Nat /\ Unsettled(kid) <= Longest
      BY Constants DEF Unsettled, Longest
    <3> QED BY <1>5, <2>1, <2>5, <3>1 DEF More
  <2>3. More(quiet.down, Negative) \in Int /\ More(quiet.down, Negative) >= 0
        /\ More(quiet.down, Negative) <= quiet.down + 1
        /\ (quiet.down >= Negative => More(quiet.down, Negative) >= Negative)
    BY <1>4, <1>5, <2>1
  <2>4. More(quiet.bad, Ttl) \in Int /\ More(quiet.bad, Ttl) >= 0 /\ More(quiet.bad, Ttl) <= quiet.bad + 1
        /\ (quiet.bad >= Ttl => More(quiet.bad, Ttl) >= Ttl)
    BY <1>4, <1>5, <2>1
  <2> QED BY <1>3, <1>5, <2>2, <2>3, <2>4, <2>5
<1>7. Counts'
  BY <1>1, <1>3, <1>6 DEF Counts
<1>8. Remembered'
  <2>1. /\ disc'.good = disc.good /\ disc'.left = Less(disc.left)
        /\ jwks'.key = jwks.key /\ jwks'.left = Less(jwks.left)
    BY <1>1 DEF Types
  <2>2. /\ discNeg' > 0 => discNeg > 0 /\ discNeg' = discNeg - 1
        /\ jwksNeg' > 0 => jwksNeg > 0 /\ jwksNeg' = jwksNeg - 1
        /\ disc'.left > 0 => disc.left > 0 /\ disc'.left = disc.left - 1
        /\ jwks'.left > 0 => jwks.left > 0 /\ jwks'.left = jwks.left - 1
        /\ cool' > 0 => cool > 0 /\ cool' = cool - 1
    BY <1>1, <1>2, <2>1, Numbers
  <2>3. discNeg' > 0 => discNeg' + quiet'.down <= Negative
    BY <1>5, <1>6, <2>2, Numbers, Constants DEF HInv, Remembered
  <2>4. jwksNeg' > 0 => jwksNeg' + quiet'.down <= Negative
    BY <1>5, <1>6, <2>2, Numbers, Constants DEF HInv, Remembered
  <2>5. disc'.left > 0 /\ ~disc'.good => disc'.left + quiet'.bad <= Ttl
    BY <1>5, <1>6, <2>1, <2>2, Numbers, Constants DEF HInv, Remembered
  <2>6. Stale'
    BY <1>1, <1>5, <1>6, <2>1, <2>2, Numbers, Constants DEF HInv, Remembered, Stale
  <2> QED BY <2>3, <2>4, <2>5, <2>6 DEF Remembered
<1>9. ASSUME NEW i \in Calls PROVE Told(call[i])' /\ Calm(call[i])'
  <2>1. /\ call'[i].at = call[i].at /\ call'[i].answered = call[i].answered /\ call'[i].reply = call[i].reply
        /\ call'[i].calm = call[i].calm /\ call'[i].sig = call[i].sig
        /\ call'[i].kind = call[i].kind /\ call'[i].kid = call[i].kid /\ call[i].kid \in BOOLEAN
        /\ call[i].at \in Loading => call'[i].age = call[i].age + 1
    BY CallFacts DEF Tick, CallRecord
  <2>2. Told(call[i]) /\ Calm(call[i]) /\ call[i].age \in Nat
    BY CallFacts DEF HInv
  <2>3. Told(call[i])'
    BY <1>1, <1>5, <1>6, <2>1, <2>2 DEF Told
  <2>4. ASSUME call[i].calm PROVE Settled(call[i])'
    <3>1. Settled(call[i])
      BY <2>2, <2>4 DEF Calm
    <3>2. provider.up /\ provider.good
      BY <3>1, NothingLeft
    <3> QED BY <1>1, <1>6, <2>1, <3>1, <3>2 DEF Settled
  <2>5. Calm(call[i])'
    BY <1>1, <2>1, <2>2, <2>4 DEF Calm
  <2> QED BY <2>3, <2>5
<1> QED BY <1>7, <1>8, <1>9 DEF HInv

\* A change of the provider: the history of it begins anew, and no call is a calm one.
LEMMA UnrestHeals ==
  ASSUME Types, HInv, Unrest, Types', Counts',
         quiet'.rotated <= quiet.rotated, quiet'.down <= quiet.down, quiet'.bad <= quiet.bad,
         provider'.key # provider.key => quiet'.rotated = 0
  PROVE  HInv'
<1>1. UNCHANGED <<disc, discNeg, jwks, jwksNeg, cool, gone>>
  BY DEF Unrest
<1>2. /\ quiet.rotated \in Int /\ quiet.down \in Int /\ quiet.bad \in Int
      /\ quiet'.rotated \in Int /\ quiet'.down \in Int /\ quiet'.bad \in Int
  BY Numbers DEF Types
<1>3. Remembered'
  <2>1. discNeg' > 0 => discNeg' + quiet'.down <= Negative
    BY <1>1, <1>2, Numbers, Constants DEF HInv, Remembered
  <2>2. jwksNeg' > 0 => jwksNeg' + quiet'.down <= Negative
    BY <1>1, <1>2, Numbers, Constants DEF HInv, Remembered
  <2>3. disc'.left > 0 /\ ~disc'.good => disc'.left + quiet'.bad <= Ttl
    BY <1>1, <1>2, Numbers, Constants DEF HInv, Remembered
  <2>4. Stale'
    <3>1. CASE provider'.key = provider.key
      BY <1>1, <1>2, <3>1, Numbers, Constants DEF HInv, Remembered, Stale
    <3>2. CASE provider'.key # provider.key
      BY <1>1, <1>2, <3>2, Numbers, Constants DEF Stale
    <3> QED BY <3>1, <3>2
  <2> QED BY <2>1, <2>2, <2>3, <2>4 DEF Remembered
<1>4. ASSUME NEW i \in Calls PROVE Told(call[i])' /\ Calm(call[i])'
  <2>1. call[i] \in CallRecord /\ call'[i] = [call[i] EXCEPT !.calm = FALSE]
    BY CallFacts DEF Unrest
  <2>2. /\ call'[i].at = call[i].at /\ call'[i].answered = call[i].answered /\ call'[i].reply = call[i].reply
        /\ call'[i].calm = FALSE /\ call'[i].age = call[i].age
    BY <2>1 DEF CallRecord
  <2>3. Told(call[i]) /\ call[i].age \in Nat
    BY CallFacts DEF HInv
  <2>4. Told(call[i])'
    BY <1>2, <2>2, <2>3 DEF Told
  <2>5. Calm(call[i])'
    BY <2>2 DEF Calm
  <2> QED BY <2>4, <2>5
<1> QED BY <1>3, <1>4 DEF HInv

LEMMA ChangeHeals == ASSUME Types, Types', HInv, Rotate \/ Fail \/ Spoil PROVE HInv'
<1>1. /\ provider \in Provider /\ quiet \in [rotated : Int, down : Int, bad : Int]
      /\ quiet.rotated >= 0 /\ quiet.down >= 0 /\ quiet.bad >= 0
  BY DEF Types, HInv, Counts
<1>2. CASE Rotate
  <2>1. /\ quiet'.rotated = 0 /\ quiet'.down = quiet.down /\ quiet'.bad = quiet.bad
        /\ provider'.up = provider.up /\ provider'.good = provider.good
    BY <1>1, <1>2 DEF Rotate, Provider
  <2> QED BY <1>1, <1>2, <2>1, UnrestHeals DEF Rotate, HInv, Counts
<1>3. CASE Fail
  <2>1. /\ quiet'.down = 0 /\ quiet'.rotated = quiet.rotated /\ quiet'.bad = quiet.bad
        /\ provider'.key = provider.key /\ provider'.good = provider.good
    BY <1>1, <1>3 DEF Fail, Provider
  <2> QED BY <1>1, <1>3, <2>1, UnrestHeals DEF Fail, HInv, Counts
<1>4. CASE Spoil
  <2>1. /\ quiet'.bad = 0 /\ quiet'.rotated = quiet.rotated /\ quiet'.down = quiet.down
        /\ provider'.key = provider.key /\ provider'.up = provider.up
    BY <1>1, <1>4 DEF Spoil, Provider
  <2> QED BY <1>1, <1>4, <2>1, UnrestHeals DEF Spoil, HInv, Counts
<1> QED BY <1>2, <1>3, <1>4

LEMMA InitHeals == Init => HInv
<1> SUFFICES ASSUME Init PROVE HInv
  OBVIOUS
<1>1. \A i \in Calls : call[i] = Idle
  BY DEF Init
<1>2. Told(Idle) /\ Calm(Idle)
  BY IdleRecord DEF Told, Calm, Idle, Loading
<1>3. Counts /\ Remembered
  BY Constants DEF Init, Counts, Remembered, Stale, Published, Longest
<1> QED BY <1>1, <1>2, <1>3 DEF HInv

LEMMA NextHeals == IInv /\ IInv' /\ HInv /\ [Next]_vars => HInv'
<1> SUFFICES ASSUME IInv, IInv', HInv, [Next]_vars PROVE HInv'
  OBVIOUS
<1>1. Types /\ Types'
  BY DEF IInv
<1>2. CASE UNCHANGED vars
  BY <1>2 DEF vars, HInv, Counts, Remembered, Stale, Told, Calm, Settled
<1> QED BY <1>1, <1>2, IdleRecord, TokenRecord, BeginHeals, AnswerHeals, GotDiscoveryHeals, GotKeysHeals, LoadFailsHeals,
          EndHeals, TickHeals, ChangeHeals DEF Next

\* The caches heal by themselves: a call does not fail that begins when the provider has
\* answered for Negative seconds and published good metadata for Ttl seconds, and whose
\* token is signed with the key the provider has kept for Cooldown + MaxLoad seconds, or
\* for Ttl seconds if the token does not name it, and the provider changes nothing until
\* it ends, whatever overtaking answers the caches hold.
THEOREM CachesHeal == Spec => []Heals
<1>1. HInv => Heals
  BY DEF HInv, Calm, Heals
<1> QED BY <1>1, InitHeals, NextHeals, Inductive, PTL DEF Spec
=============================================================================
