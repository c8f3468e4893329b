--------------------------- MODULE ProviderCache ---------------------------
(***************************************************************************)
(* OidcProviderClient: the cached discovery document and signing keys of a *)
(* provider.                                                               *)
(*                                                                         *)
(* A lookup takes the cached value, or gives up while an earlier failure   *)
(* is remembered, or loads; any number of calls may load at the same time, *)
(* and answers arrive in any order.  A token that names a key (kid) that   *)
(* is not in the set makes the client load the keys again, once per        *)
(* cooldown; one that names none has to wait until the cached set expires. *)
(*                                                                         *)
(* Time is relative: an entry counts the seconds it has left.  A lifetime  *)
(* starts when the load starts, not when the answer arrives.               *)
(***************************************************************************)
EXTENDS Integers

CONSTANTS
  Calls,      \* concurrent calls of the client
  Ttl,        \* DISCOVERY_ and JWKS_CACHE_TTL_SECONDS
  Negative,   \* NEGATIVE_CACHE_TTL_SECONDS
  Cooldown,   \* JWKS_REFRESH_COOLDOWN_SECONDS
  MaxLoad,    \* bound on a load; HTTP_TIMEOUT_SECONDS limits each of its waits
  MaxKeys     \* bound on the keys the provider signs with

ASSUME CacheAssumption ==
  /\ {Ttl, Negative, Cooldown, MaxLoad, MaxKeys} \subseteq Nat \ {0}
  /\ MaxLoad < Ttl

Keys == 1..MaxKeys

VARIABLES
  provider,  \* external: its signing key, whether its metadata is valid, whether it answers
  disc,      \* _discovery_cache: validity of the metadata, seconds left
  discNeg,   \* _discovery_negative_cache: seconds left
  jwks,      \* _jwks_cache: the key, seconds left
  jwksNeg,   \* _jwks_negative_cache: seconds left
  cool,      \* seconds until _jwks_refresh_at allows another forced load
  call,      \* per call: where it is
  gone,      \* history, per key: seconds since the provider withdrew it, up to Ttl
  quiet      \* history: seconds since the last rotation, failure, bad metadata, up to a bound

vars == <<provider, disc, discNeg, jwks, jwksNeg, cool, call, gone, quiet>>

\* What the provider publishes at first.
Published == [key |-> 1, good |-> TRUE, up |-> TRUE]

\* reply is what the provider published when it answered the load, if it has.
Idle == [at |-> "idle", kind |-> "authorize", sig |-> 1, kid |-> FALSE, age |-> 0,
         answered |-> FALSE, reply |-> Published, calm |-> FALSE]

Loading == {"discovery", "jwks", "forced"}

Outcomes == {"ok", "unavailable", "badmeta", "badkey"}

\* What is left of a lifetime of n seconds that began with the load.
Rest(n, c) == IF n > c.age THEN n - c.age ELSE 0

-----------------------------------------------------------------------------
(* From one suspension to the next: where a call gets to.  j is the key    *)
(* set entry it finds, n what is left of the remembered failure.           *)

\* Fault: only a key that is in the set makes the client load it again.
RefreshesInverted(c, key) == c.kid /\ key = c.sig /\ cool = 0

\* _should_refresh_jwks, with a failed decode: the token names its key, which is not in
\* the set, and no forced load began in the last Cooldown seconds.
Refreshes(c, key) == c.kid /\ key # c.sig /\ cool = 0

\* _cached_json for the keys, without a valid entry.
LoadOrGiveUp(n, next) == IF n > 0 THEN "unavailable" ELSE next

\* validate_id_token from the lookup of the keys on.
AfterDiscovery(c, good, j, n) ==
  CASE ~good -> "badmeta"
    [] good /\ c.kind = "authorize" -> "ok"
    [] good /\ c.kind = "validate" /\ j.left = 0 -> LoadOrGiveUp(n, "jwks")
    [] good /\ c.kind = "validate" /\ j.left > 0 ->
         CASE j.key = c.sig -> "ok"
           [] Refreshes(c, j.key) -> LoadOrGiveUp(n, "forced")
           [] OTHER -> "badkey"

\* A forced load forgets the entry and starts the cooldown.
Forced(c, good, j) == good /\ c.kind = "validate" /\ j.left > 0 /\ Refreshes(c, j.key)

\* The caches after a call has looked at them; j is the entry it found.
Looked(c, good, j) ==
  /\ jwks' = IF Forced(c, good, j) THEN [j EXCEPT !.left = 0] ELSE j
  /\ cool' = IF Forced(c, good, j) THEN Cooldown ELSE cool

At(c, at) == [c EXCEPT !.at = at, !.age = 0, !.answered = FALSE, !.reply = Published]

\* The seconds after a rotation in which a token may still fail.
Unsettled(kid) == IF kid THEN Cooldown + MaxLoad ELSE Ttl

Longest == IF Ttl > Cooldown + MaxLoad THEN Ttl ELSE Cooldown + MaxLoad

\* No recent change of the provider is in the way of call c.
Settled(c) ==
  /\ c.kind = "validate" => c.sig = provider.key /\ quiet.rotated >= Unsettled(c.kid)
  /\ quiet.down >= Negative
  /\ quiet.bad >= Ttl

\* A token signed with key sig, which it names or not.
Token(sig, kid) == [Idle EXCEPT !.kind = "validate", !.sig = sig, !.kid = kid]

\* validate_id_token, with a token of the provider's key or an earlier one; or
\* build_authorization_url and exchange_code, which need no key (d = Idle).
Begin(i, d) ==
  LET c == [d EXCEPT !.calm = Settled(d)]
  IN /\ call[i].at = "idle" /\ d.sig <= provider.key
     /\ IF disc.left > 0
        THEN /\ call' = [call EXCEPT ![i] = At(c, AfterDiscovery(c, disc.good, jwks, jwksNeg))]
             /\ Looked(c, disc.good, jwks)
        ELSE /\ call' = [call EXCEPT ![i] = At(c, LoadOrGiveUp(discNeg, "discovery"))]
             /\ UNCHANGED <<jwks, cool>>
     /\ UNCHANGED <<provider, disc, discNeg, jwksNeg, gone, quiet>>

\* The provider answers a request, with what it publishes at that moment.
Answer(i) ==
  LET c == call[i] IN
  /\ c.at \in Loading /\ ~c.answered
  /\ call' = [call EXCEPT ![i].answered = TRUE, ![i].reply = provider]
  /\ UNCHANGED <<provider, disc, discNeg, jwks, jwksNeg, cool, gone, quiet>>

\* _discovery: the metadata is cached first and validated afterwards.
GotDiscovery(i) ==
  LET c == call[i] IN
  /\ c.at = "discovery" /\ c.answered /\ c.reply.up
  /\ disc' = [good |-> c.reply.good, left |-> Rest(Ttl, c)]
  /\ discNeg' = 0
  /\ call' = [call EXCEPT ![i] = At(c, AfterDiscovery(c, c.reply.good, jwks, jwksNeg))]
  /\ Looked(c, c.reply.good, jwks)
  /\ UNCHANGED <<provider, jwksNeg, gone, quiet>>

\* The keys arrive: the token is checked against the value of this load.
GotKeys(i) ==
  LET c == call[i]
      j == [key |-> c.reply.key, left |-> Rest(Ttl, c)]
  IN /\ c.at \in {"jwks", "forced"} /\ c.answered /\ c.reply.up
     /\ jwksNeg' = 0
     /\ IF c.at = "jwks" /\ Refreshes(c, c.reply.key)
        THEN /\ jwks' = [j EXCEPT !.left = 0] /\ cool' = Cooldown
             /\ call' = [call EXCEPT ![i] = At(c, "forced")]
        ELSE /\ jwks' = j /\ cool' = cool
             /\ call' = [call EXCEPT ![i] = At(c, IF c.reply.key = c.sig THEN "ok" ELSE "badkey")]
     /\ UNCHANGED <<provider, disc, discNeg, gone, quiet>>

\* Fault: a failure is remembered for as long as a value.
LoadFailsLong(i) ==
  LET c == call[i] IN
  /\ c.at \in Loading /\ c.answered /\ ~c.reply.up
  /\ discNeg' = IF c.at = "discovery" THEN Rest(Ttl, c) ELSE discNeg
  /\ jwksNeg' = IF c.at = "discovery" THEN jwksNeg ELSE Rest(Ttl, c)
  /\ call' = [call EXCEPT ![i] = At(c, "unavailable")]
  /\ UNCHANGED <<provider, disc, jwks, cool, gone, quiet>>

\* Fault: the old keys stay in use while the provider does not answer.
LoadFailsStale(i) ==
  LET c == call[i] IN
  /\ c.at \in Loading /\ c.answered /\ ~c.reply.up
  /\ discNeg' = IF c.at = "discovery" THEN Rest(Negative, c) ELSE discNeg
  /\ jwks' = IF c.at = "discovery" THEN jwks ELSE [jwks EXCEPT !.left = Negative]
  /\ call' = [call EXCEPT ![i] = At(c, "unavailable")]
  /\ UNCHANGED <<provider, disc, jwksNeg, cool, gone, quiet>>

\* A load fails: the failure is remembered, a cached value stays.
LoadFails(i) ==
  LET c == call[i] IN
  /\ c.at \in Loading /\ c.answered /\ ~c.reply.up
  /\ discNeg' = IF c.at = "discovery" THEN Rest(Negative, c) ELSE discNeg
  /\ jwksNeg' = IF c.at = "discovery" THEN jwksNeg ELSE Rest(Negative, c)
  /\ call' = [call EXCEPT ![i] = At(c, "unavailable")]
  /\ UNCHANGED <<provider, disc, jwks, cool, gone, quiet>>

End(i) ==
  /\ call[i].at \in Outcomes
  /\ call' = [call EXCEPT ![i] = Idle]
  /\ UNCHANGED <<provider, disc, discNeg, jwks, jwksNeg, cool, gone, quiet>>

-----------------------------------------------------------------------------
(* Time and the provider. *)

Less(n) == IF n = 0 THEN 0 ELSE n - 1

More(n, bound) == IF n < bound THEN n + 1 ELSE bound

\* A second passes: no load takes longer than MaxLoad, and a caller takes
\* its result at once.
Tick ==
  /\ \A i \in Calls : call[i].at \notin Outcomes /\ call[i].age < MaxLoad
  /\ disc' = [disc EXCEPT !.left = Less(@)]
  /\ jwks' = [jwks EXCEPT !.left = Less(@)]
  /\ discNeg' = Less(discNeg) /\ jwksNeg' = Less(jwksNeg) /\ cool' = Less(cool)
  /\ call' = [i \in Calls |-> IF call[i].at \in Loading THEN [call[i] EXCEPT !.age = @ + 1] ELSE call[i]]
  /\ gone' = [k \in Keys |-> IF k < provider.key THEN More(gone[k], Ttl) ELSE 0]
  /\ quiet' = [rotated |-> More(quiet.rotated, Longest),
               down |-> IF provider.up THEN More(quiet.down, Negative) ELSE 0,
               bad |-> IF provider.good THEN More(quiet.bad, Ttl) ELSE 0]
  /\ UNCHANGED provider

\* A change of the provider, after which no call is a calm one.
Unrest ==
  /\ call' = [i \in Calls |-> [call[i] EXCEPT !.calm = FALSE]]
  /\ UNCHANGED <<disc, discNeg, jwks, jwksNeg, cool, gone>>

Rotate ==
  /\ provider.key < MaxKeys
  /\ provider' = [provider EXCEPT !.key = @ + 1]
  /\ quiet' = [quiet EXCEPT !.rotated = 0]
  /\ Unrest

Fail ==
  /\ provider' = [provider EXCEPT !.up = ~@]
  /\ quiet' = [quiet EXCEPT !.down = 0]
  /\ Unrest

Spoil ==
  /\ provider' = [provider EXCEPT !.good = ~@]
  /\ quiet' = [quiet EXCEPT !.bad = 0]
  /\ Unrest

Init ==
  /\ provider = Published
  /\ disc = [good |-> TRUE, left |-> 0] /\ jwks = [key |-> 1, left |-> 0]
  /\ discNeg = 0 /\ jwksNeg = 0 /\ cool = 0
  /\ call = [i \in Calls |-> Idle]
  /\ gone = [k \in Keys |-> 0]
  /\ quiet = [rotated |-> Longest, down |-> Negative, bad |-> Ttl]

Next ==
  \/ \E i \in Calls : \/ Begin(i, Idle) \/ \E sig \in Keys, kid \in BOOLEAN : Begin(i, Token(sig, kid))
                      \/ Answer(i) \/ GotDiscovery(i) \/ GotKeys(i) \/ LoadFails(i) \/ End(i)
  \/ Tick \/ Rotate \/ Fail \/ Spoil

Spec == Init /\ [][Next]_vars

-----------------------------------------------------------------------------
(* Properties. *)

\* Every variable has its type, lifetimes within the constants of the client.
TypeOK ==
  /\ provider \in [key : Keys, good : BOOLEAN, up : BOOLEAN]
  /\ disc \in [good : BOOLEAN, left : 0..Ttl] /\ jwks \in [key : Keys, left : 0..Ttl]
  /\ discNeg \in 0..Negative /\ jwksNeg \in 0..Negative /\ cool \in 0..Cooldown
  /\ \A i \in Calls : /\ call[i].at \in Loading \cup Outcomes \cup {"idle"}
                      /\ call[i].sig \in Keys /\ call[i].age \in 0..MaxLoad

\* A key that the provider has withdrawn is trusted for less than Ttl seconds more,
\* also when an answer of before the rotation arrives after it.
TrustEnds ==
  \A i \in Calls : call[i].at = "ok" /\ call[i].kind = "validate" => gone[call[i].sig] < Ttl

\* The caches heal: a call fails only if the provider failed in the last Negative
\* seconds, published bad metadata in the last Ttl seconds or, for a token, rotated its
\* key: in the last Cooldown + MaxLoad seconds if the token names its key, and in the
\* last Ttl seconds if it does not, since such a token never reloads the cached keys.
Heals == \A i \in Calls : call[i].at \in Outcomes /\ call[i].calm => call[i].at = "ok"
=============================================================================
