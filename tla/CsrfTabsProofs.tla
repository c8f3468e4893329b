--------------------------- MODULE CsrfTabsProofs ---------------------------
(***************************************************************************)
(* Proofs about CsrfTabs, for any number of tabs, calls, sessions and      *)
(* tokens: one retry is enough for a call that nobody disturbs.            *)
(***************************************************************************)
EXTENDS CsrfTabs, TLAPS

Places == {"idle", "wait", "force", "navigate", "callback", "ensure", "read", "send", "sent", "passed", "refused", "setcookie",
           "ok", "rejected", "missing", "broken"}

CallRecord == [at : Places, tab : Tabs \cup {NoTab}, on : Reqs \cup {NoReq}, retried : BOOLEAN,
               header : 0..MaxTokens, cookies : Cookies]

FetchRecord == [at : {"none", "check", "issue", "bind", "reply"}, cookies : Cookies, token : 0..MaxTokens]

\* The types of all variables.
Types ==
  /\ jar \in Cookies /\ issued \in 0..MaxTokens
  /\ row \in [Sessions -> [active : BOOLEAN, csrf : 0..MaxTokens]]
  /\ boot \in [Tabs -> Reqs \cup {NoReq}]
  /\ call \in [Reqs -> CallRecord] /\ fetch \in [Reqs -> FetchRecord]
  /\ disturbed \in [Reqs -> BOOLEAN]

\* Where a call awaits a fetch.
Waiting == {"wait", "force", "navigate"}

\* A call of a tab that has not passed the middleware.
InTab(c) ==
  c.at \in {"wait", "force", "ensure", "read", "send", "sent", "refused"} => c.tab \in Tabs

\* A call that waits, waits for a fetch under way, and has seen what its owner has seen;
\* the owner of a fetch waits for it.
Waits(r) ==
  /\ InTab(call[r])
  /\ call[r].on = NoReq <=> call[r].at \notin Waiting
  /\ call[r].on # NoReq => /\ fetch[call[r].on].at # "none"
                           /\ disturbed[call[r].on] => disturbed[r]
  /\ fetch[r].at # "none" => call[r].on = r

\* The middleware would let the cookies c pass.
Matches(c, token) == Active(c.session) => row[c.session].csrf = token

\* A fetch that nobody disturbs was made with the cookies of the jar, and ends with
\* a token there that the session is bound to.
Fetches(r) ==
  ~disturbed[r] /\ fetch[r].at # "none" =>
    /\ fetch[r].cookies = jar
    /\ fetch[r].at = "bind" => fetch[r].token # NoToken
    /\ fetch[r].at = "reply" /\ fetch[r].token = NoToken => jar.csrf # NoToken /\ Matches(jar, jar.csrf)
    /\ fetch[r].at = "reply" /\ fetch[r].token # NoToken => Matches(jar, fetch[r].token)
    /\ fetch[r].at \in {"check", "issue"} => fetch[r].token = NoToken

\* A call that nobody disturbs has a token and, on its second attempt, the bound one.
Goes(r) ==
  ~disturbed[r] =>
    /\ call[r].at \in {"ensure", "read"} => jar.csrf # NoToken
    /\ call[r].at = "ensure" => Matches(jar, jar.csrf)
    /\ call[r].at = "read" /\ call[r].retried => Matches(jar, jar.csrf)
    /\ call[r].at = "send" /\ call[r].retried =>
         call[r].header = jar.csrf /\ jar.csrf # NoToken /\ Matches(jar, jar.csrf)
    /\ call[r].at = "sent" /\ call[r].retried => Passes(call[r])
    /\ call[r].at = "refused" => ~call[r].retried
    /\ call[r].at \notin {"rejected", "missing"}

Promises == \A t \in Tabs : boot[t] # NoReq => fetch[boot[t]].at # "none"

IInv ==
  /\ Types /\ Promises
  /\ \A r \in Reqs : Waits(r) /\ Fetches(r) /\ Goes(r)

-----------------------------------------------------------------------------
(* Types. *)

LEMMA Constants ==
  /\ MaxTokens \in Nat \ {0} /\ NoReq \notin Reqs /\ NoSession \notin Sessions /\ 1 \in Sessions
  /\ NoToken = 0 /\ 0 \in 0..MaxTokens /\ 1 \in 0..MaxTokens /\ NoCookies \in Cookies
  /\ NoFetch \in FetchRecord /\ NoFetch.at = "none" /\ Idle \in CallRecord
<1>1. MaxTokens \in Nat \ {0} /\ NoReq \notin Reqs /\ NoSession \notin Sessions /\ 1 \in Sessions
  BY CsrfAssumption DEF NoSession, Sessions
<1>2. NoToken = 0 /\ 0 \in 0..MaxTokens /\ 1 \in 0..MaxTokens
  BY <1>1 DEF NoToken
<1>3. NoCookies \in Cookies
  BY <1>2 DEF NoCookies, Cookies
<1>4. NoFetch \in FetchRecord /\ NoFetch.at = "none"
  BY <1>2, <1>3 DEF NoFetch, FetchRecord, NoCookies
<1>5. Idle \in CallRecord
  BY <1>2, <1>3 DEF Idle, CallRecord, Places
<1> QED BY <1>1, <1>2, <1>3, <1>4, <1>5

\* What the types say of one call and its fetch.
LEMMA RecordFacts ==
  ASSUME Types, NEW r \in Reqs
  PROVE  /\ call[r] \in CallRecord /\ fetch[r] \in FetchRecord /\ disturbed[r] \in BOOLEAN
         /\ call[r].cookies \in Cookies /\ fetch[r].cookies \in Cookies
         /\ call[r].on \in Reqs \cup {NoReq} /\ call[r].at \in Places
<1>1. call[r] \in CallRecord /\ fetch[r] \in FetchRecord /\ disturbed[r] \in BOOLEAN
  BY DEF Types
<1> QED BY <1>1 DEF CallRecord, FetchRecord

\* A new token is a token.
LEMMA FreshToken == ASSUME Types, issued < MaxTokens PROVE Fresh \in 0..MaxTokens /\ Fresh # NoToken
BY Constants DEF Types, Fresh

\* The call that ends.
LEMMA OverRecord ==
  ASSUME NEW outcome \in {"ok", "rejected", "missing", "broken"}
  PROVE  /\ Over(outcome) \in CallRecord /\ Over(outcome).at = outcome
         /\ Over(outcome).on = NoReq /\ Over(outcome).retried = FALSE
<1>1. Over(outcome) \in CallRecord
  BY Constants DEF Over, CallRecord, Places
<1> QED BY <1>1 DEF Over, Idle

LEMMA DisturbType == ASSUME NEW r, Disturb(r), Types PROVE disturbed' \in [Reqs -> BOOLEAN]
BY DEF Disturb, Types

-----------------------------------------------------------------------------
(* What a step leaves alone. *)

\* The bound tokens stay; sessions may end.
Fades == \A s \in Sessions : row'[s].csrf = row[s].csrf /\ (row'[s].active => row[s].active)

\* A call that takes no part in a step keeps its place, if it is told of the change.
LEMMA Unaffected ==
  ASSUME Types, NEW q \in Reqs, Fetches(q), Goes(q),
         call'[q] = call[q], fetch'[q] = fetch[q],
         disturbed'[q] \/ (disturbed'[q] = disturbed[q] /\ jar' = jar /\ Fades)
  PROVE  Fetches(q)' /\ Goes(q)'
<1>1. CASE disturbed'[q]
  BY <1>1 DEF Fetches, Goes
<1>2. CASE ~disturbed'[q]
  <2>1. ~disturbed[q] /\ jar' = jar /\ Fades
    BY <1>2
  <2>2. \A s : s \in Sessions \cup {NoSession} => (Active(s)' => Active(s) /\ row'[s].csrf = row[s].csrf)
    BY <2>1, Constants DEF Fades, Active
  <2>3. jar.session \in Sessions \cup {NoSession} /\ call[q].cookies.session \in Sessions \cup {NoSession}
    BY RecordFacts DEF Types, Cookies
  <2>4. \A token : Matches(jar, token) => Matches(jar, token)'
    BY <2>1, <2>2, <2>3 DEF Matches
  <2>5. Passes(call[q]) => Passes(call[q])'
    BY <2>2, <2>3 DEF Passes
  <2>6. Fetches(q)'
    BY <2>1, <2>4 DEF Fetches
  <2>7. Goes(q)'
    BY <2>1, <2>4, <2>5 DEF Goes
  <2> QED BY <2>6, <2>7
<1> QED BY <1>1, <1>2

-----------------------------------------------------------------------------
(* The steps of the API client. *)

\* A step of a call that awaits nothing, which only it can see.
LEMMA OwnStep ==
  ASSUME IInv, NEW r \in Reqs, NEW c \in CallRecord, UNCHANGED <<jar, row, issued, boot, fetch>>,
         call[r].on = NoReq, call' = [call EXCEPT ![r] = c],
         c.on = NoReq, c.at \notin Waiting, InTab(c),
         disturbed' = disturbed \/ disturbed' = [disturbed EXCEPT ![r] = FALSE],
         Goes(r)'
  PROVE  IInv'
<1>1. Types /\ Types'
  BY DEF IInv, Types
<1>2. Promises'
  BY DEF IInv, Promises
<1>3. fetch[r].at = "none"
  BY Constants DEF IInv, Waits
<1>4. ASSUME NEW q \in Reqs PROVE Waits(q)' /\ Fetches(q)' /\ Goes(q)'
  <2>1. CASE q = r
    <3>1. call'[q] = c
      BY <2>1, <1>1 DEF Types
    <3> QED BY <2>1, <3>1, <1>3 DEF Waits, Fetches
  <2>2. CASE q # r
    <3>1. call'[q] = call[q] /\ disturbed'[q] = disturbed[q] /\ fetch'[q] = fetch[q]
      BY <2>2, <1>1 DEF Types
    <3>2. Waits(q) /\ Fetches(q) /\ Goes(q)
      BY DEF IInv
    <3>3. Fades
      BY DEF Fades
    <3>4. call[q].on # r
      BY <3>2, <1>3, Constants DEF Waits
    <3>5. call[q].on # NoReq => disturbed'[call[q].on] = disturbed[call[q].on]
      BY <3>4, <1>1, RecordFacts DEF Types
    <3>6. Waits(q)'
      BY <3>1, <3>2, <3>5 DEF Waits
    <3> QED BY <3>1, <3>2, <3>3, <3>6, <1>1, Unaffected
  <2> QED BY <2>1, <2>2
<1> QED BY <1>1, <1>2, <1>4 DEF IInv

LEMMA ReadCookieKeeps == ASSUME IInv, NEW r \in Reqs, ReadCookie(r) PROVE IInv'
<1>1. Types /\ call[r].at = "read" /\ call[r].on = NoReq /\ Goes(r) /\ call[r].tab \in Tabs
  BY DEF IInv, Waits, InTab, Waiting, ReadCookie
<1>2. CASE jar.csrf = NoToken
  <2>1. Over("missing") \in CallRecord /\ Over("missing").at = "missing" /\ Over("missing").on = NoReq
    BY OverRecord
  <2>2. call' = [call EXCEPT ![r] = Over("missing")] /\ UNCHANGED <<jar, row, issued, boot, fetch, disturbed>>
    BY <1>2 DEF ReadCookie
  <2>3. disturbed[r]
    BY <1>1, <1>2 DEF Goes
  <2>4. Goes(r)'
    BY <2>2, <2>3 DEF Goes
  <2> QED BY <1>1, <2>1, <2>2, <2>4, OwnStep DEF Waiting, InTab
<1>3. CASE jar.csrf # NoToken
  <2> DEFINE c == [call[r] EXCEPT !.at = "send", !.header = jar.csrf]
  <2>1. call' = [call EXCEPT ![r] = c] /\ UNCHANGED <<jar, row, issued, boot, fetch, disturbed>>
    BY <1>3 DEF ReadCookie
  <2>2. jar.csrf \in 0..MaxTokens
    BY <1>1 DEF Types, Cookies
  <2>3. c \in CallRecord /\ c.at = "send" /\ c.on = NoReq /\ c.header = jar.csrf /\ c.retried = call[r].retried
        /\ c.tab = call[r].tab
    BY <1>1, <2>2, RecordFacts DEF CallRecord, Places
  <2> HIDE DEF c
  <2>4. call'[r] = c
    BY <2>1, <1>1 DEF Types
  <2>5. Goes(r)'
    BY <1>1, <1>3, <2>1, <2>3, <2>4 DEF Goes, Matches, Active
  <2> QED BY <1>1, <2>1, <2>3, <2>5, OwnStep DEF Waiting, InTab
<1> QED BY <1>2, <1>3

LEMMA SendKeeps == ASSUME IInv, NEW r \in Reqs, Send(r) PROVE IInv'
<1>1. Types /\ call[r].at = "send" /\ call[r].on = NoReq /\ Goes(r) /\ call[r].tab \in Tabs
  BY DEF IInv, Waits, InTab, Waiting, Send
<1> DEFINE c == [call[r] EXCEPT !.at = "sent", !.cookies = jar]
<1>2. call' = [call EXCEPT ![r] = c] /\ UNCHANGED <<jar, row, issued, boot, fetch, disturbed>>
  BY <1>1 DEF Send, Types, CallRecord
<1>3. c \in CallRecord /\ c.at = "sent" /\ c.on = NoReq /\ c.cookies = jar /\ c.header = call[r].header
      /\ c.retried = call[r].retried /\ c.tab = call[r].tab
  BY <1>1, RecordFacts DEF CallRecord, Places, Types
<1> HIDE DEF c
<1>4. call'[r] = c
  BY <1>2, <1>1 DEF Types
<1>5. Goes(r)'
  BY <1>1, <1>2, <1>3, <1>4 DEF Goes, Matches, Passes, Active
<1> QED BY <1>1, <1>2, <1>3, <1>5, OwnStep DEF Waiting, InTab

LEMMA ValidateKeeps == ASSUME IInv, NEW r \in Reqs, Validate(r) PROVE IInv'
<1>1. Types /\ call[r].at = "sent" /\ call[r].on = NoReq /\ Goes(r) /\ call[r].tab \in Tabs
  BY DEF IInv, Waits, InTab, Waiting, Validate
<1> DEFINE at == IF Passes(call[r]) THEN "passed" ELSE "refused"
           c == [call[r] EXCEPT !.at = at, !.header = NoToken, !.cookies.csrf = NoToken]
<1>2. call' = [call EXCEPT ![r] = c] /\ UNCHANGED <<jar, row, issued, boot, fetch, disturbed>>
  BY <1>1 DEF Validate, Types, CallRecord
<1>3. [call[r].cookies EXCEPT !.csrf = NoToken] \in Cookies
  BY <1>1, RecordFacts, Constants DEF Cookies
<1>4. at \in {"passed", "refused"} /\ (at = "refused" => ~Passes(call[r]))
  OBVIOUS
<1> HIDE DEF at
<1>5. c \in CallRecord /\ c.at = at /\ c.on = NoReq /\ c.retried = call[r].retried /\ c.tab = call[r].tab
  BY <1>1, <1>3, <1>4, RecordFacts, Constants DEF CallRecord, Places
<1> HIDE DEF c
<1>6. call'[r] = c
  BY <1>2, <1>1 DEF Types
<1>7. Goes(r)'
  BY <1>1, <1>2, <1>4, <1>5, <1>6 DEF Goes
<1> QED BY <1>1, <1>2, <1>4, <1>5, <1>7, OwnStep DEF Waiting, InTab

\* A call that ends, well or by a loss.
LEMMA OverKeeps ==
  ASSUME IInv, NEW r \in Reqs, NEW outcome \in {"ok", "broken"},
         call[r].at \in {"passed", "callback", "sent", "refused", "setcookie"},
         call' = [call EXCEPT ![r] = Over(outcome)],
         UNCHANGED <<jar, row, issued, boot, fetch, disturbed>>
  PROVE  IInv'
<1>1. Types /\ call[r].on = NoReq
  BY DEF IInv, Waits, Waiting
<1>2. Over(outcome) \in CallRecord /\ Over(outcome).at = outcome /\ Over(outcome).on = NoReq
  BY OverRecord
<1>3. call'[r] = Over(outcome)
  BY <1>1 DEF Types
<1>4. Goes(r)'
  BY <1>2, <1>3 DEF Goes
<1> QED BY <1>1, <1>2, <1>4, OwnStep DEF Waiting, InTab

LEMMA EndKeeps == ASSUME IInv, NEW r \in Reqs, End(r) PROVE IInv'
<1>1. Types /\ call[r].on = NoReq
  BY DEF IInv, Waits, Waiting, End
<1>2. Idle \in CallRecord /\ Idle.at = "idle" /\ Idle.on = NoReq
  BY Constants DEF Idle
<1>3. call'[r] = Idle
  BY <1>1 DEF Types, End
<1>4. Goes(r)'
  BY <1>2, <1>3 DEF Goes
<1> QED BY <1>1, <1>2, <1>4, OwnStep DEF End, Waiting, InTab

\* A call begins a fetch with the cookies of the jar and waits for it.
LEMMA BeginFetch ==
  ASSUME IInv, NEW r \in Reqs, NEW c \in CallRecord, NEW f \in FetchRecord,
         UNCHANGED <<jar, row, issued>>,
         call[r].on = NoReq, call' = [call EXCEPT ![r] = c],
         c.on = r, c.at \in Waiting, InTab(c),
         fetch' = [fetch EXCEPT ![r] = f], f.at \in {"check", "issue"}, f.cookies = jar, f.token = NoToken,
         boot' \in [Tabs -> Reqs \cup {NoReq}], \A t \in Tabs : boot'[t] \in {boot[t], r},
         disturbed' = disturbed \/ disturbed' = [disturbed EXCEPT ![r] = FALSE]
  PROVE  IInv'
<1>1. Types /\ Types'
  BY DEF IInv, Types
<1>2. fetch[r].at = "none" /\ r # NoReq
  BY Constants DEF IInv, Waits
<1>3. call'[r] = c /\ fetch'[r] = f
  BY <1>1 DEF Types
<1>4. \A q \in Reqs : fetch[q].at # "none" => fetch'[q].at # "none"
  BY <1>1, <1>3 DEF Types
<1>5. Promises'
  <2> SUFFICES ASSUME NEW t \in Tabs, boot'[t] # NoReq PROVE fetch'[boot'[t]].at # "none"
    BY DEF Promises
  <2>1. CASE boot'[t] = r
    BY <2>1, <1>3
  <2>2. CASE boot'[t] = boot[t]
    BY <2>2, <1>4, <1>1 DEF IInv, Promises, Types
  <2> QED BY <2>1, <2>2
<1>6. ASSUME NEW q \in Reqs PROVE Waits(q)' /\ Fetches(q)' /\ Goes(q)'
  <2>1. CASE q = r
    <3>1. Waits(r)'
      BY <1>2, <1>3 DEF Waits, InTab
    <3>2. Fetches(r)'
      BY <1>3 DEF Fetches
    <3>3. Goes(r)'
      BY <1>3 DEF Goes, Waiting
    <3> QED BY <2>1, <3>1, <3>2, <3>3
  <2>2. CASE q # r
    <3>1. call'[q] = call[q] /\ disturbed'[q] = disturbed[q] /\ fetch'[q] = fetch[q]
      BY <2>2, <1>1 DEF Types
    <3>2. Waits(q) /\ Fetches(q) /\ Goes(q)
      BY DEF IInv
    <3>3. Fades
      BY DEF Fades
    <3>4. call[q].on # r
      BY <3>2, <1>2, Constants DEF Waits
    <3>5. call[q].on # NoReq => /\ disturbed'[call[q].on] = disturbed[call[q].on]
                                /\ fetch'[call[q].on] = fetch[call[q].on]
      BY <3>4, <1>1, RecordFacts DEF Types
    <3>6. Waits(q)'
      BY <3>1, <3>2, <3>5 DEF Waits
    <3> QED BY <3>1, <3>2, <3>3, <3>6, <1>1, Unaffected
  <2> QED BY <2>1, <2>2
<1> QED BY <1>1, <1>5, <1>6 DEF IInv

\* A call joins the fetch under way in its tab, and has missed what the owner has missed.
LEMMA JoinFetch ==
  ASSUME IInv, NEW r \in Reqs, NEW b \in Reqs, NEW c \in CallRecord,
         UNCHANGED <<jar, row, issued, boot, fetch>>,
         call[r].on = NoReq, call' = [call EXCEPT ![r] = c],
         c.on = b, c.at = "wait", InTab(c), fetch[b].at # "none",
         disturbed' = [disturbed EXCEPT ![r] = disturbed[b]]
  PROVE  IInv'
<1>1. Types /\ Types'
  BY DEF IInv, Types
<1>2. fetch[r].at = "none" /\ b # r /\ b # NoReq
  BY Constants DEF IInv, Waits
<1>3. call'[r] = c /\ disturbed'[r] = disturbed[b] /\ disturbed'[b] = disturbed[b]
  BY <1>1, <1>2 DEF Types
<1>4. Promises'
  BY DEF IInv, Promises
<1>5. ASSUME NEW q \in Reqs PROVE Waits(q)' /\ Fetches(q)' /\ Goes(q)'
  <2>1. CASE q = r
    BY <2>1, <1>2, <1>3 DEF Waits, InTab, Waiting, Fetches, Goes
  <2>2. CASE q # r
    <3>1. call'[q] = call[q] /\ disturbed'[q] = disturbed[q] /\ fetch'[q] = fetch[q]
      BY <2>2, <1>1 DEF Types
    <3>2. Waits(q) /\ Fetches(q) /\ Goes(q)
      BY DEF IInv
    <3>3. Fades
      BY DEF Fades
    <3>4. call[q].on # r
      BY <3>2, <1>2, Constants DEF Waits
    <3>5. call[q].on # NoReq => disturbed'[call[q].on] = disturbed[call[q].on]
      BY <3>4, <1>1, RecordFacts DEF Types
    <3>6. Waits(q)'
      BY <3>1, <3>2, <3>5 DEF Waits
    <3> QED BY <3>1, <3>2, <3>3, <3>6, <1>1, Unaffected
  <2> QED BY <2>1, <2>2
<1> QED BY <1>1, <1>4, <1>5 DEF IInv

\* The request that a fetch begins with.
LEMMA NewFetch ==
  ASSUME NEW at \in {"check", "issue"}, jar \in Cookies
  PROVE  LET f == [NoFetch EXCEPT !.at = at, !.cookies = jar]
         IN f \in FetchRecord /\ f.at = at /\ f.cookies = jar /\ f.token = NoToken
BY Constants DEF NoFetch, FetchRecord

\* ensureCsrfToken, of the first attempt or, once the forced fetch has ended, of the second.
LEMMA EnsureKeeps ==
  ASSUME IInv, NEW r \in Reqs, NEW c \in CallRecord, c.tab \in Tabs, call[r].on = NoReq, c.on = NoReq,
         EnsureCsrfToken(r, c), UNCHANGED <<jar, row, issued>>,
         ~disturbed[r] /\ c.retried => Matches(jar, jar.csrf)
  PROVE  IInv'
<1>1. Types /\ jar \in Cookies
  BY DEF IInv, Types
<1>2. PICK t \in Tabs : t = c.tab
  OBVIOUS
<1> DEFINE d == [c EXCEPT !.at = "read"]
           w == [c EXCEPT !.at = "wait"]
           f == [NoFetch EXCEPT !.at = "check", !.cookies = jar]
           joined(b) == [w EXCEPT !.on = b]
<1>3. d \in CallRecord /\ d.at = "read" /\ d.on = NoReq /\ d.retried = c.retried /\ d.tab \in Tabs
  BY DEF CallRecord, Places
<1>4. w \in CallRecord /\ w.tab = t
  BY <1>2 DEF CallRecord, Places
<1>5. \A b \in Reqs : /\ joined(b) \in CallRecord /\ joined(b).at = "wait" /\ joined(b).on = b
                      /\ joined(b).tab = t
  BY <1>4 DEF CallRecord, Places
<1>6. f \in FetchRecord /\ f.at = "check" /\ f.cookies = jar /\ f.token = NoToken
  BY <1>1, NewFetch
<1>7. CASE jar.csrf # NoToken
  <2>1. call' = [call EXCEPT ![r] = d] /\ UNCHANGED <<boot, fetch, disturbed>>
    BY <1>7 DEF EnsureCsrfToken
  <2>2. call'[r] = d
    BY <2>1, <1>1 DEF Types
  <2> HIDE DEF d
  <2>3. Goes(r)'
    BY <1>3, <1>7, <2>1, <2>2 DEF Goes, Matches, Active
  <2> QED BY <1>1, <1>3, <2>1, <2>3, OwnStep DEF Waiting, InTab
<1>8. CASE jar.csrf = NoToken
  <2>1. Bootstrap(r, w) /\ disturbed' = [disturbed EXCEPT ![r] = boot[t] # NoReq /\ disturbed[boot[t]]]
    BY <1>2, <1>8 DEF EnsureCsrfToken
  <2> HIDE DEF w
  <2>2. CASE boot[t] = NoReq
    <3>1. call' = [call EXCEPT ![r] = joined(r)] /\ boot' = [boot EXCEPT ![t] = r] /\ fetch' = [fetch EXCEPT ![r] = f]
      BY <1>4, <2>1, <2>2 DEF Bootstrap
    <3>2. disturbed' = [disturbed EXCEPT ![r] = FALSE]
      BY <2>1, <2>2
    <3>3. boot' \in [Tabs -> Reqs \cup {NoReq}] /\ \A u \in Tabs : boot'[u] \in {boot[u], r}
      BY <3>1, <1>1 DEF Types
    <3>4. joined(r) \in CallRecord /\ joined(r).at \in Waiting /\ joined(r).on = r /\ InTab(joined(r))
      <4> HIDE DEF joined
      <4> QED BY <1>5 DEF Waiting, InTab
    <3> HIDE DEF f, joined
    <3> QED BY <1>6, <3>1, <3>2, <3>3, <3>4, BeginFetch
  <2>3. CASE boot[t] # NoReq
    <3>1. PICK b \in Reqs : b = boot[t] /\ fetch[b].at # "none"
      BY <1>1, <2>3 DEF Types, IInv, Promises
    <3>2. call' = [call EXCEPT ![r] = joined(b)] /\ boot' = boot /\ fetch' = fetch
      BY <1>1, <1>4, <2>1, <2>3, <3>1 DEF Bootstrap, Types
    <3>3. disturbed' = [disturbed EXCEPT ![r] = disturbed[b]]
      BY <1>1, <2>1, <2>3, <3>1, RecordFacts
    <3>4. joined(b) \in CallRecord /\ joined(b).at = "wait" /\ joined(b).on = b /\ joined(b).tab = t
      BY <1>5
    <3> HIDE DEF joined
    <3> QED BY <3>1, <3>2, <3>3, <3>4, JoinFetch DEF InTab
  <2> QED BY <2>2, <2>3
<1> QED BY <1>7, <1>8

LEMMA RequestKeeps == ASSUME IInv, NEW r \in Reqs, NEW t \in Tabs, Request(r, t) PROVE IInv'
<1> DEFINE c == [Idle EXCEPT !.tab = t]
<1>1. c \in CallRecord /\ c.tab = t /\ c.on = NoReq /\ c.retried = FALSE
  BY Constants DEF Idle, CallRecord
<1>2. call[r].on = NoReq /\ EnsureCsrfToken(r, c) /\ UNCHANGED <<jar, row, issued>>
  BY DEF IInv, Waits, Waiting, Request
<1> HIDE DEF c
<1> QED BY <1>1, <1>2, EnsureKeeps

LEMMA RequestAgainKeeps == ASSUME IInv, NEW r \in Reqs, RequestAgain(r) PROVE IInv'
<1>1. PICK c \in CallRecord : c = call[r]
  BY RecordFacts DEF IInv
<1>2. c.on = NoReq /\ c.tab \in Tabs /\ EnsureCsrfToken(r, c) /\ UNCHANGED <<jar, row, issued>>
  BY <1>1 DEF IInv, Waits, Waiting, InTab, RequestAgain
<1>3. ~disturbed[r] => Matches(jar, jar.csrf)
  BY DEF IInv, Goes, RequestAgain
<1> QED BY <1>1, <1>2, <1>3, EnsureKeeps

LEMMA RetryKeeps == ASSUME IInv, NEW r \in Reqs, Retry(r) PROVE IInv'
<1>1. Types /\ call[r].on = NoReq /\ jar \in Cookies /\ Goes(r) /\ call[r].at = "refused"
      /\ call[r].tab \in Tabs
  BY DEF IInv, Waits, Waiting, InTab, Retry, Types
<1>2. CASE ~call[r].retried /\ ForceBootstrap(r)
  <2> DEFINE c == [call[r] EXCEPT !.at = "force", !.on = r, !.retried = TRUE]
             f == [NoFetch EXCEPT !.at = "check", !.cookies = jar]
  <2>1. c \in CallRecord /\ c.at = "force" /\ c.on = r /\ c.tab = call[r].tab
    BY <1>1, RecordFacts DEF CallRecord, Places
  <2>2. f \in FetchRecord /\ f.at = "check" /\ f.cookies = jar /\ f.token = NoToken
    BY <1>1, NewFetch
  <2>3. /\ call' = [call EXCEPT ![r] = c] /\ fetch' = [fetch EXCEPT ![r] = f]
        /\ boot' = [boot EXCEPT ![call[r].tab] = r]
        /\ disturbed' = [disturbed EXCEPT ![r] = FALSE]
        /\ UNCHANGED <<jar, row, issued>>
    BY <1>2 DEF ForceBootstrap, Retry
  <2>4. boot' \in [Tabs -> Reqs \cup {NoReq}] /\ \A u \in Tabs : boot'[u] \in {boot[u], r}
    BY <2>3, <1>1 DEF Types
  <2> HIDE DEF c, f
  <2> QED BY <1>1, <2>1, <2>2, <2>3, <2>4, BeginFetch DEF Waiting, InTab
<1>3. CASE /\ call[r].retried /\ call' = [call EXCEPT ![r] = Over("rejected")]
           /\ UNCHANGED <<boot, fetch, disturbed>>
  <2>1. Over("rejected") \in CallRecord /\ Over("rejected").at = "rejected" /\ Over("rejected").on = NoReq
    BY OverRecord
  <2>2. disturbed[r]
    BY <1>1, <1>3 DEF Goes
  <2>3. Goes(r)'
    BY <1>3, <2>2 DEF Goes
  <2> QED BY <1>1, <1>3, <2>1, <2>3, OwnStep DEF Retry, Waiting, InTab
<1> QED BY <1>2, <1>3 DEF Retry

LEMMA CallbackKeeps == ASSUME IInv, NEW r \in Reqs, Callback(r) PROVE IInv'
<1>1. Types /\ call[r].on = NoReq /\ jar \in Cookies
  BY DEF IInv, Waits, Waiting, Callback, Types
<1> DEFINE c == [call[r] EXCEPT !.at = "navigate", !.on = r]
           f == [NoFetch EXCEPT !.at = "issue", !.cookies = jar]
<1>2. c \in CallRecord /\ c.at = "navigate" /\ c.on = r
  BY <1>1, RecordFacts DEF CallRecord, Places
<1>3. f \in FetchRecord /\ f.at = "issue" /\ f.cookies = jar /\ f.token = NoToken
  BY <1>1, NewFetch
<1>4. /\ call' = [call EXCEPT ![r] = c] /\ fetch' = [fetch EXCEPT ![r] = f]
      /\ UNCHANGED <<jar, row, issued, boot, disturbed>>
  BY DEF Callback
<1>5. boot' \in [Tabs -> Reqs \cup {NoReq}] /\ \A u \in Tabs : boot'[u] \in {boot[u], r}
  BY <1>4, <1>1 DEF Types
<1> HIDE DEF c, f
<1> QED BY <1>1, <1>2, <1>3, <1>4, <1>5, BeginFetch DEF Waiting, InTab

LEMMA LoginCallbackKeeps == ASSUME IInv, NEW r \in Reqs, LoginCallback(r) PROVE IInv'
<1>1. Types /\ call[r].on = NoReq /\ jar \in Cookies
  BY DEF IInv, Waits, Waiting, LoginCallback, Types
<1> DEFINE c == [call[r] EXCEPT !.at = "callback", !.cookies.session = jar.session]
<1>2. [call[r].cookies EXCEPT !.session = jar.session] \in Cookies
  BY <1>1, RecordFacts DEF Cookies
<1>3. c \in CallRecord /\ c.at = "callback" /\ c.on = NoReq
  BY <1>1, <1>2, RecordFacts DEF CallRecord, Places
<1>4. call' = [call EXCEPT ![r] = c] /\ UNCHANGED <<jar, row, issued, boot, fetch, disturbed>>
  BY DEF LoginCallback
<1>5. call'[r] = c
  BY <1>1, <1>4 DEF Types
<1> HIDE DEF c
<1>6. Goes(r)'
  BY <1>3, <1>5 DEF Goes
<1> QED BY <1>1, <1>3, <1>4, <1>6, OwnStep DEF Waiting, InTab

-----------------------------------------------------------------------------
(* The steps of GET /csrf. *)

\* A step of a fetch under way that changes nothing else.
LEMMA FetchStep ==
  ASSUME IInv, NEW r \in Reqs, NEW f \in FetchRecord, UNCHANGED <<jar, row, boot, call, disturbed>>,
         issued' \in 0..MaxTokens,
         fetch[r].at # "none", f.at # "none", fetch' = [fetch EXCEPT ![r] = f], Fetches(r)'
  PROVE  IInv'
<1>1. Types /\ Types'
  BY DEF IInv, Types
<1>2. \A q \in Reqs : fetch'[q].at = "none" <=> fetch[q].at = "none"
  BY <1>1 DEF Types
<1>3. Promises'
  BY <1>1, <1>2 DEF IInv, Promises, Types
<1>4. ASSUME NEW q \in Reqs PROVE Waits(q)' /\ Fetches(q)' /\ Goes(q)'
  <2>1. Waits(q)'
    BY <1>1, <1>2, RecordFacts DEF IInv, Waits
  <2>2. Goes(q)'
    BY DEF IInv, Goes, Matches, Passes, Active
  <2>3. CASE q = r
    BY <2>1, <2>2, <2>3
  <2>4. CASE q # r
    <3>1. fetch'[q] = fetch[q]
      BY <2>4, <1>1 DEF Types
    <3>2. Fades
      BY DEF Fades
    <3> QED BY <2>1, <3>1, <3>2, <1>1, Unaffected DEF IInv
  <2> QED BY <2>3, <2>4
<1> QED BY <1>1, <1>3, <1>4 DEF IInv

LEMMA GetCsrfKeeps == ASSUME IInv, NEW r \in Reqs, GetCsrf(r) PROVE IInv'
<1>1. Types /\ fetch[r].at = "check" /\ Fetches(r)
  BY DEF IInv, GetCsrf
<1> DEFINE at == Checked(fetch[r].cookies)
           f == [fetch[r] EXCEPT !.at = at]
<1>2. fetch' = [fetch EXCEPT ![r] = f] /\ UNCHANGED <<jar, row, issued, boot, call, disturbed>>
  BY DEF GetCsrf
<1>3. /\ at \in {"reply", "issue"}
      /\ at = "reply" => fetch[r].cookies.csrf # NoToken /\ Matches(fetch[r].cookies, fetch[r].cookies.csrf)
  BY DEF Checked, Matches
<1> HIDE DEF at
<1>4. f \in FetchRecord /\ f.at = at /\ f.cookies = fetch[r].cookies /\ f.token = fetch[r].token
  BY <1>1, <1>3, RecordFacts DEF FetchRecord
<1> HIDE DEF f
<1>5. fetch'[r] = f
  BY <1>1, <1>2 DEF Types
<1>6. Fetches(r)'
  BY <1>1, <1>2, <1>3, <1>4, <1>5 DEF Fetches, Matches, Active
<1>7. issued' \in 0..MaxTokens
  BY <1>1, <1>2 DEF Types
<1> QED BY <1>1, <1>2, <1>3, <1>4, <1>6, <1>7, FetchStep

LEMMA IssueKeeps == ASSUME IInv, NEW r \in Reqs, Issue(r) PROVE IInv'
<1>1. Types /\ fetch[r].at = "issue" /\ Fetches(r) /\ issued < MaxTokens
  BY DEF IInv, Issue
<1>2. Fresh \in 0..MaxTokens /\ Fresh # NoToken
  BY <1>1, FreshToken
<1> DEFINE at == IF Active(fetch[r].cookies.session) THEN "bind" ELSE "reply"
           f == [fetch[r] EXCEPT !.at = at, !.token = Fresh]
<1>3. fetch' = [fetch EXCEPT ![r] = f] /\ issued' = Fresh /\ UNCHANGED <<jar, row, boot, call, disturbed>>
  BY <1>1 DEF Issue, Types, FetchRecord
<1>4. at \in {"bind", "reply"} /\ (at = "reply" => ~Active(fetch[r].cookies.session))
  OBVIOUS
<1> HIDE DEF at
<1>5. f \in FetchRecord /\ f.at = at /\ f.cookies = fetch[r].cookies /\ f.token = Fresh
  BY <1>1, <1>2, <1>4, RecordFacts DEF FetchRecord
<1> HIDE DEF f
<1>6. fetch'[r] = f
  BY <1>1, <1>3 DEF Types
<1>7. Fetches(r)'
  BY <1>1, <1>2, <1>3, <1>4, <1>5, <1>6 DEF Fetches, Matches, Active
<1> QED BY <1>1, <1>2, <1>3, <1>4, <1>5, <1>7, FetchStep

\* Whoever takes no part in a change is told of it.
LEMMA Told ==
  ASSUME IInv, NEW r \in Reqs, Disturb(r), NEW q \in Reqs, q # r,
         call'[q] = call[q], fetch'[q] = fetch[q]
  PROVE  Fetches(q)' /\ Goes(q)'
<1>1. Waits(q) /\ Fetches(q) /\ Goes(q)
  BY DEF IInv
<1>2. CASE call[q].on = r
  <2>1. fetch[q].at = "none" /\ call[q].at \in Waiting
    BY <1>1, <1>2, Constants DEF Waits
  <2> QED BY <2>1 DEF Fetches, Goes, Waiting
<1>3. CASE call[q].at = "idle"
  <2>1. fetch[q].at = "none"
    BY <1>1, <1>3, Constants DEF Waits, Waiting
  <2> QED BY <2>1, <1>3 DEF Fetches, Goes
<1>4. CASE call[q].on # r /\ call[q].at # "idle"
  <2>1. disturbed'[q]
    BY <1>4 DEF Disturb
  <2> QED BY <2>1 DEF Fetches, Goes
<1> QED BY <1>2, <1>3, <1>4

\* Who awaits a fetch is told whenever its owner is.
LEMMA ToldTogether ==
  ASSUME IInv, NEW r \in Reqs, Disturb(r), call[r].on \in {r, NoReq},
         NEW q \in Reqs, call[q].on # NoReq, disturbed'[call[q].on]
  PROVE  disturbed'[q]
<1>1. PICK x \in Reqs : x = call[q].on
  BY RecordFacts DEF IInv
<1>2. disturbed'[x]
  BY <1>1
<1>3. disturbed[x] => disturbed[q]
  BY <1>1 DEF IInv, Waits
<1>4. call[q].at # "idle"
  BY DEF IInv, Waits, Waiting
<1>5. x # r => q # r /\ call[q].on # r
  BY <1>1
<1> QED BY <1>1, <1>2, <1>3, <1>4, <1>5 DEF Disturb

LEMMA BindKeeps == ASSUME IInv, NEW r \in Reqs, Bind(r) PROVE IInv'
<1>1. Types /\ fetch[r].at = "bind" /\ Fetches(r) /\ call[r].on = r /\ Disturb(r)
  BY DEF IInv, Bind, Waits
<1> DEFINE f == [fetch[r] EXCEPT !.at = "reply"]
           s == fetch[r].cookies.session
<1>2. /\ fetch' = [fetch EXCEPT ![r] = f] /\ row' = [row EXCEPT ![s].csrf = fetch[r].token]
      /\ UNCHANGED <<jar, issued, boot, call>>
  BY DEF Bind
<1>3. /\ f \in FetchRecord /\ f.at = "reply" /\ f.cookies = fetch[r].cookies /\ f.token = fetch[r].token
      /\ fetch[r].token \in 0..MaxTokens
  BY <1>1, RecordFacts DEF FetchRecord
<1> HIDE DEF f
<1>4. Types'
  <2>1. row' \in [Sessions -> [active : BOOLEAN, csrf : 0..MaxTokens]]
    BY <1>1, <1>2, <1>3 DEF Types
  <2> QED BY <1>1, <1>2, <1>3, <2>1, DisturbType DEF Types
<1>5. \A q \in Reqs : fetch'[q].at = "none" <=> fetch[q].at = "none"
  BY <1>1, <1>2, <1>3 DEF Types
<1>6. Promises'
  BY <1>1, <1>2, <1>5 DEF IInv, Promises, Types
<1>7. fetch'[r] = f /\ call'[r] = call[r] /\ disturbed'[r] = disturbed[r]
  BY <1>1, <1>2 DEF Types, Disturb
<1>8. Fetches(r)'
  <2>1. jar.session = s /\ s \in Sessions => row'[s].csrf = fetch[r].token
    BY <1>1, <1>2 DEF Types
  <2>2. jar.session \in Sessions \cup {NoSession}
    BY <1>1 DEF Types, Cookies
  <2> QED BY <1>1, <1>2, <1>3, <1>7, <2>1, <2>2 DEF Fetches, Matches, Active
<1>9. ASSUME NEW q \in Reqs PROVE Waits(q)' /\ Fetches(q)' /\ Goes(q)'
  <2>1. Waits(q)'
    <3>1. call[q].on # NoReq => (disturbed'[call[q].on] => disturbed'[q])
      BY <1>1, ToldTogether
    <3>2. Waits(q) /\ call[q].on \in Reqs \cup {NoReq}
      BY <1>1, RecordFacts DEF IInv
    <3> QED BY <1>2, <1>5, <3>1, <3>2 DEF Waits
  <2>2. CASE q = r
    <3>1. call[r].at \in Waiting
      BY <1>1, Constants DEF IInv, Waits
    <3>2. Goes(r)'
      BY <3>1, <1>7 DEF Goes, Waiting
    <3> QED BY <2>1, <2>2, <3>2, <1>8
  <2>3. CASE q # r
    <3>1. fetch'[q] = fetch[q] /\ call'[q] = call[q]
      BY <2>3, <1>1, <1>2 DEF Types
    <3> QED BY <2>1, <2>3, <3>1, <1>1, Told
  <2> QED BY <2>2, <2>3
<1> QED BY <1>4, <1>6, <1>9 DEF IInv

\* A call that goes on after the fetch it awaited.
LEMMA AwaitedIs ==
  ASSUME NEW c \in CallRecord, NEW outcome \in {"answered", "broken"}, c.at \in Waiting, InTab(c)
  PROVE  /\ Awaited(c, outcome) \in CallRecord /\ Awaited(c, outcome).on = NoReq
         /\ Awaited(c, outcome).at \in {"ok", "broken", "ensure", "read"}
         /\ InTab(Awaited(c, outcome))
         /\ Awaited(c, outcome).at \in {"ensure", "read"} => outcome = "answered"
<1>1. CASE c.at = "navigate"
  <2>1. Awaited(c, outcome) = Over("ok")
    BY <1>1 DEF Awaited
  <2> QED BY <2>1, OverRecord DEF InTab
<1>2. CASE c.at # "navigate" /\ outcome = "broken"
  <2>1. Awaited(c, outcome) = Over("broken")
    BY <1>2 DEF Awaited
  <2> QED BY <2>1, OverRecord DEF InTab
<1>3. ASSUME c.at \in {"force", "wait"}, outcome = "answered",
             NEW at \in {"ensure", "read"}, Awaited(c, outcome) = [c EXCEPT !.at = at, !.on = NoReq]
      PROVE  /\ Awaited(c, outcome) \in CallRecord /\ Awaited(c, outcome).on = NoReq
             /\ Awaited(c, outcome).at \in {"ok", "broken", "ensure", "read"}
             /\ InTab(Awaited(c, outcome))
  <2> DEFINE d == [c EXCEPT !.at = at, !.on = NoReq]
  <2>1. d \in CallRecord /\ d.on = NoReq /\ d.at = at /\ d.tab = c.tab
    BY DEF CallRecord, Places
  <2> HIDE DEF d
  <2>2. Awaited(c, outcome) = d
    BY <1>3 DEF d
  <2>3. c.tab \in Tabs
    BY <1>3 DEF InTab
  <2> QED BY <2>1, <2>2, <2>3 DEF InTab
<1>4. CASE c.at = "force" /\ outcome = "answered"
  <2>1. Awaited(c, outcome) = [c EXCEPT !.at = "ensure", !.on = NoReq]
    BY <1>4 DEF Awaited
  <2> QED BY <1>3, <1>4, <2>1
<1>5. CASE c.at = "wait" /\ outcome = "answered"
  <2>1. Awaited(c, outcome) = [c EXCEPT !.at = "read", !.on = NoReq]
    BY <1>5 DEF Awaited
  <2> QED BY <1>3, <1>5, <2>1
<1> QED BY <1>1, <1>2, <1>4, <1>5 DEF Waiting

\* A fetch ends: those who awaited it go on, with a token in the jar if it was answered
\* and nobody disturbed them.
LEMMA SettleKeeps ==
  ASSUME IInv, NEW r \in Reqs, NEW outcome \in {"answered", "broken"}, Settle(r, outcome),
         fetch[r].at # "none", UNCHANGED <<row, issued>>, jar' \in Cookies,
         (disturbed' = disturbed /\ jar' = jar) \/ Disturb(r),
         outcome = "answered" /\ ~disturbed[r] => jar'.csrf # NoToken /\ Matches(jar, jar.csrf)'
  PROVE  IInv'
<1>1. Types /\ call[r].on = r
  BY DEF IInv, Waits
<1>2. /\ call' = Resumed(r, outcome) /\ fetch' = [fetch EXCEPT ![r] = NoFetch]
      /\ boot' = [t \in Tabs |-> IF boot[t] = r THEN NoReq ELSE boot[t]]
  BY DEF Settle
<1>3. \A q \in Reqs : call[q].on # r => call'[q] = call[q]
  BY <1>2 DEF Resumed
<1>4. \A q \in Reqs : call[q].on = r =>
         /\ call'[q] \in CallRecord /\ call'[q].on = NoReq /\ call'[q].at \in {"ok", "broken", "ensure", "read"} /\ InTab(call'[q])
         /\ call'[q].at \in {"ensure", "read"} => outcome = "answered"
  <2> SUFFICES ASSUME NEW q \in Reqs, call[q].on = r
               PROVE  /\ call'[q] \in CallRecord /\ call'[q].on = NoReq /\ call'[q].at \in {"ok", "broken", "ensure", "read"} /\ InTab(call'[q])
                      /\ call'[q].at \in {"ensure", "read"} => outcome = "answered"
    OBVIOUS
  <2>1. call'[q] = Awaited(call[q], outcome)
    BY <1>2 DEF Resumed
  <2>2. PICK c \in CallRecord : c = call[q] /\ c.at \in Waiting /\ InTab(c)
    BY <1>1, RecordFacts, Constants DEF IInv, Waits
  <2> QED BY <2>1, <2>2, AwaitedIs
<1>5. Types'
  <2>1. call' \in [Reqs -> CallRecord]
    <3>1. \A q \in Reqs : call[q].on = r => Awaited(call[q], outcome) \in CallRecord
      BY <1>2, <1>4 DEF Resumed
    <3> QED BY <1>1, <1>2, <3>1, RecordFacts DEF Resumed
  <2>2. fetch' \in [Reqs -> FetchRecord]
    BY <1>1, <1>2, Constants DEF Types
  <2>3. boot' \in [Tabs -> Reqs \cup {NoReq}]
    BY <1>1, <1>2 DEF Types
  <2>4. disturbed' \in [Reqs -> BOOLEAN]
    BY <1>1, DisturbType DEF Types
  <2> QED BY <1>1, <2>1, <2>2, <2>3, <2>4 DEF Types
<1>6. \A q \in Reqs : q # r => fetch'[q] = fetch[q]
  BY <1>1, <1>2 DEF Types
<1>7. fetch'[r].at = "none"
  BY <1>1, <1>2, Constants DEF Types
<1>8. Promises'
  <2> SUFFICES ASSUME NEW t \in Tabs, boot'[t] # NoReq PROVE fetch'[boot'[t]].at # "none"
    BY DEF Promises
  <2>1. boot[t] # r /\ boot'[t] = boot[t]
    BY <1>2
  <2> QED BY <2>1, <1>1, <1>6 DEF IInv, Promises, Types
<1>9. ASSUME NEW q \in Reqs PROVE Waits(q)' /\ Fetches(q)' /\ Goes(q)'
  <2>0. Waits(q) /\ Fetches(q) /\ Goes(q)
    BY DEF IInv
  <2>1. CASE call[q].on = r
    <3>1. fetch'[q].at = "none"
      BY <2>0, <2>1, <1>6, <1>7 DEF Waits
    <3>2. Waits(q)' /\ Fetches(q)'
      BY <2>1, <3>1, <1>4 DEF Waits, Waiting, Fetches
    <3>3. ~disturbed'[q] => ~disturbed[r]
      <4>1. disturbed[r] => disturbed[q]
        BY <2>0, <2>1, Constants DEF Waits
      <4>2. disturbed[q] => disturbed'[q]
        BY <1>1 DEF Disturb
      <4> QED BY <4>1, <4>2
    <3>4. call'[q].at \in {"ensure", "read"} /\ ~disturbed'[q] => jar'.csrf # NoToken /\ Matches(jar, jar.csrf)'
      BY <2>1, <3>3, <1>4
    <3>5. Goes(q)'
      BY <2>1, <3>4, <1>4 DEF Goes
    <3> QED BY <3>2, <3>5
  <2>2. CASE call[q].on # r
    <3>1. q # r /\ call'[q] = call[q] /\ fetch'[q] = fetch[q]
      BY <2>2, <1>1, <1>3, <1>6
    <3>2. call[q].on # NoReq => (disturbed'[call[q].on] => disturbed'[q])
      BY <2>0, <1>1, ToldTogether DEF Waits
    <3>3. call[q].on # NoReq => fetch'[call[q].on] = fetch[call[q].on]
      BY <2>2, <1>1, <1>6, RecordFacts
    <3>4. Waits(q)'
      BY <2>0, <3>1, <3>2, <3>3 DEF Waits
    <3>5. CASE disturbed' = disturbed /\ jar' = jar
      <4>1. Fades
        BY DEF Fades
      <4> QED BY <2>0, <3>1, <3>4, <3>5, <4>1, <1>1, Unaffected
    <3>6. CASE Disturb(r)
      BY <3>1, <3>4, <3>6, Told
    <3> QED BY <3>5, <3>6
  <2> QED BY <2>1, <2>2
<1> QED BY <1>5, <1>8, <1>9 DEF IInv

LEMMA GotCsrfKeeps == ASSUME IInv, NEW r \in Reqs, GotCsrf(r) PROVE IInv'
<1>1. Types /\ fetch[r].at = "reply" /\ Fetches(r) /\ Settle(r, "answered") /\ UNCHANGED <<row, issued>>
  BY DEF IInv, GotCsrf
<1>2. jar \in Cookies /\ fetch[r].token \in 0..MaxTokens
  BY <1>1, RecordFacts DEF Types, FetchRecord
<1>3. CASE fetch[r].token = NoToken
  <2>1. jar' = jar /\ disturbed' = disturbed
    BY <1>3 DEF GotCsrf
  <2>2. ~disturbed[r] => jar'.csrf # NoToken /\ Matches(jar, jar.csrf)'
    BY <1>1, <1>3, <2>1 DEF Fetches, Matches, Active
  <2> QED BY <1>1, <1>2, <2>1, <2>2, SettleKeeps
<1>4. CASE fetch[r].token # NoToken
  <2>1. jar' = [jar EXCEPT !.csrf = fetch[r].token] /\ Disturb(r)
    BY <1>4 DEF GotCsrf
  <2>2. jar' \in Cookies /\ jar'.csrf = fetch[r].token /\ jar'.session = jar.session
    BY <1>2, <2>1 DEF Cookies
  <2>3. ~disturbed[r] => jar'.csrf # NoToken /\ Matches(jar, jar.csrf)'
    BY <1>1, <1>4, <2>2 DEF Fetches, Matches, Active
  <2> QED BY <1>1, <2>1, <2>2, <2>3, SettleKeeps
<1> QED BY <1>3, <1>4

LEMMA LostCsrfKeeps == ASSUME IInv, NEW r \in Reqs, LostCsrf(r) PROVE IInv'
<1>1. jar' = jar /\ disturbed' = disturbed /\ jar \in Cookies /\ fetch[r].at # "none"
  BY DEF IInv, LostCsrf, Types
<1> QED BY <1>1, SettleKeeps DEF LostCsrf

-----------------------------------------------------------------------------
(* The handlers behind the middleware. *)

\* A step that changes cookies or rows, by a call that awaits nothing.
LEMMA ToldStep ==
  ASSUME IInv, NEW r \in Reqs, NEW c \in CallRecord, call[r].on = NoReq,
         c.on = NoReq, c.at \in {"setcookie", "ok"},
         call' = [call EXCEPT ![r] = c], Disturb(r), UNCHANGED <<boot, fetch>>,
         jar' \in Cookies, issued' \in 0..MaxTokens,
         row' \in [Sessions -> [active : BOOLEAN, csrf : 0..MaxTokens]]
  PROVE  IInv'
<1>1. Types /\ Types'
  BY DisturbType DEF IInv, Types
<1>2. Promises'
  BY DEF IInv, Promises
<1>3. fetch[r].at = "none" /\ call'[r] = c
  BY <1>1, Constants DEF IInv, Waits, Types
<1>4. ASSUME NEW q \in Reqs PROVE Waits(q)' /\ Fetches(q)' /\ Goes(q)'
  <2>1. CASE q = r
    BY <2>1, <1>3 DEF Waits, Waiting, InTab, Fetches, Goes
  <2>2. CASE q # r
    <3>1. call'[q] = call[q] /\ fetch'[q] = fetch[q]
      BY <2>2, <1>1 DEF Types
    <3>2. call[q].on # NoReq => (disturbed'[call[q].on] => disturbed'[q])
      BY ToldTogether
    <3>3. Waits(q)'
      BY <3>1, <3>2 DEF IInv, Waits
    <3> QED BY <2>2, <3>1, <3>3, Told
  <2> QED BY <2>1, <2>2
<1> QED BY <1>1, <1>2, <1>4 DEF IInv

LEMMA HandleLoginKeeps == ASSUME IInv, NEW r \in Reqs, HandleLogin(r) PROVE IInv'
<1>1. Types /\ call[r].on = NoReq /\ issued < MaxTokens
  BY DEF IInv, Waits, Waiting, HandleLogin
<1>2. Fresh \in 0..MaxTokens
  BY <1>1, FreshToken
<1>3. PICK s \in Sessions :
       /\ row' = [q \in Sessions |->
                    CASE q = s -> [active |-> TRUE, csrf |-> Fresh]
                      [] q # s /\ q = call[r].cookies.session -> [row[q] EXCEPT !.active = FALSE]
                      [] OTHER -> row[q]]
       /\ call' = [call EXCEPT ![r].at = "setcookie", ![r].cookies = [session |-> s, csrf |-> Fresh]]
  BY DEF HandleLogin
<1> DEFINE c == [call[r] EXCEPT !.at = "setcookie", !.cookies = [session |-> s, csrf |-> Fresh]]
<1>4. call' = [call EXCEPT ![r] = c]
  BY <1>1, <1>3 DEF Types, CallRecord
<1>5. c \in CallRecord /\ c.at = "setcookie" /\ c.on = NoReq
  <2>1. [session |-> s, csrf |-> Fresh] \in Cookies
    BY <1>2 DEF Cookies
  <2> QED BY <1>1, <2>1, RecordFacts DEF CallRecord, Places
<1>6. row' \in [Sessions -> [active : BOOLEAN, csrf : 0..MaxTokens]]
  BY <1>1, <1>2, <1>3 DEF Types
<1>7. Disturb(r) /\ UNCHANGED <<jar, boot, fetch>> /\ issued' = Fresh
  BY DEF HandleLogin
<1>8. jar' \in Cookies
  BY <1>1, <1>7 DEF Types
<1> HIDE DEF c
<1> QED BY <1>1, <1>2, <1>4, <1>5, <1>6, <1>7, <1>8, ToldStep

LEMMA HandleLogoutKeeps == ASSUME IInv, NEW r \in Reqs, HandleLogout(r) PROVE IInv'
<1>1. Types /\ call[r].at = "passed" /\ call[r].on = NoReq
  BY DEF IInv, Waits, Waiting, HandleLogout
<1> DEFINE c == [call[r] EXCEPT !.at = "setcookie", !.cookies = NoCookies]
<1>2. call' = [call EXCEPT ![r] = c]
  BY <1>1 DEF Types, CallRecord, HandleLogout
<1>3. c \in CallRecord /\ c.at = "setcookie" /\ c.on = NoReq
  BY <1>1, RecordFacts, Constants DEF CallRecord, Places
<1>4. row' \in [Sessions -> [active : BOOLEAN, csrf : 0..MaxTokens]]
  BY <1>1 DEF Types, HandleLogout
<1>5. Disturb(r) /\ UNCHANGED <<jar, issued, boot, fetch>>
  BY DEF HandleLogout
<1>6. jar' \in Cookies /\ issued' \in 0..MaxTokens
  BY <1>1, <1>5 DEF Types
<1> HIDE DEF c
<1> QED BY <1>1, <1>2, <1>3, <1>4, <1>5, <1>6, ToldStep

LEMMA GotCookiesKeeps == ASSUME IInv, NEW r \in Reqs, GotCookies(r) PROVE IInv'
<1>1. Types /\ call[r].on = NoReq
  BY DEF IInv, Waits, Waiting, GotCookies
<1>2. Over("ok") \in CallRecord /\ Over("ok").at = "ok" /\ Over("ok").on = NoReq
  BY OverRecord
<1>3. call' = [call EXCEPT ![r] = Over("ok")] /\ Disturb(r) /\ UNCHANGED <<row, issued, boot, fetch>>
  BY DEF GotCookies
<1>4. jar' \in Cookies /\ issued' \in 0..MaxTokens /\ row' \in [Sessions -> [active : BOOLEAN, csrf : 0..MaxTokens]]
  BY <1>1, <1>3, RecordFacts DEF Types, GotCookies
<1> QED BY <1>1, <1>2, <1>3, <1>4, ToldStep

LEMMA ExpireKeeps == ASSUME IInv, NEW s \in Sessions, Expire(s) PROVE IInv'
<1>1. Types /\ Types'
  BY DEF IInv, Types, Expire
<1>2. Fades
  BY <1>1 DEF Fades, Expire, Types
<1>3. Promises'
  BY DEF IInv, Promises, Expire
<1>4. ASSUME NEW q \in Reqs PROVE Waits(q)' /\ Fetches(q)' /\ Goes(q)'
  <2>1. Waits(q)'
    BY DEF IInv, Waits, Expire
  <2> QED BY <2>1, <1>1, <1>2, Unaffected DEF IInv, Expire
<1> QED BY <1>1, <1>3, <1>4 DEF IInv

-----------------------------------------------------------------------------
LEMMA InitInv == Init => IInv
<1> SUFFICES ASSUME Init PROVE IInv
  OBVIOUS
<1>1. jar \in Cookies /\ issued \in 0..MaxTokens /\ row \in [Sessions -> [active : BOOLEAN, csrf : 0..MaxTokens]]
  <2>1. CASE jar = NoCookies /\ issued = 0 /\ row = [s \in Sessions |-> NoRow]
    BY <2>1, Constants DEF NoRow
  <2>2. CASE /\ jar = [session |-> 1, csrf |-> 1] /\ issued = 1
             /\ row = [s \in Sessions |-> IF s = 1 THEN [active |-> TRUE, csrf |-> 1] ELSE NoRow]
    BY <2>2, Constants DEF Cookies, NoRow
  <2> QED BY <2>1, <2>2 DEF Init
<1>2. Types
  BY <1>1, Constants DEF Init, Types
<1>3. \A r \in Reqs : Waits(r) /\ Fetches(r) /\ Goes(r)
  BY Constants DEF Init, Waits, Waiting, InTab, Fetches, Goes, Idle
<1>4. Promises
  BY DEF Init, Promises
<1> QED BY <1>2, <1>3, <1>4 DEF IInv

LEMMA StepInv == IInv /\ [Next]_vars => IInv'
<1> SUFFICES ASSUME IInv, [Next]_vars PROVE IInv'
  OBVIOUS
<1>1. ASSUME NEW r \in Reqs, NEW t \in Tabs, Request(r, t) PROVE IInv'
  BY <1>1, RequestKeeps
<1>2. ASSUME NEW r \in Reqs, Proceed(r) PROVE IInv'
  <2>1. CASE HandleChange(r)
    BY <2>1, OverKeeps DEF HandleChange
  <2>2. CASE Lost(r)
    BY <2>2, OverKeeps DEF Lost
  <2> QED BY <1>2, <2>1, <2>2, RequestAgainKeeps, ReadCookieKeeps, SendKeeps, ValidateKeeps, RetryKeeps, EndKeeps,
             HandleLoginKeeps, HandleLogoutKeeps, GotCookiesKeeps DEF Proceed
<1>3. ASSUME NEW r \in Reqs, Fetch(r) PROVE IInv'
  BY <1>3, GetCsrfKeeps, IssueKeeps, BindKeeps, GotCsrfKeeps, LostCsrfKeeps DEF Fetch
<1>4. ASSUME NEW r \in Reqs, LoginCallback(r) \/ Callback(r) PROVE IInv'
  BY <1>4, LoginCallbackKeeps, CallbackKeeps
<1>5. ASSUME NEW s \in Sessions, Expire(s) PROVE IInv'
  BY <1>5, ExpireKeeps
<1>6. CASE UNCHANGED vars
  BY <1>6 DEF vars, IInv, Types, Promises, Waits, Fetches, Goes, Matches, Passes, Active
<1> QED BY <1>1, <1>2, <1>3, <1>4, <1>5, <1>6 DEF Next

\* Every variable keeps its type, and csrfBootstrapPromise of a tab is never a fetch that
\* has ended, whatever the order of answers and losses.
THEOREM TypeCorrect == Spec => []TypeOK
<1>1. IInv => TypeOK
  BY RecordFacts DEF IInv, Promises, Types, TypeOK, CallRecord, FetchRecord
<1> QED BY <1>1, InitInv, StepInv, PTL DEF Spec

\* The retry of the API client is enough: a call fails for its token only if another call
\* changed the cookies or a bound token after it began to fetch its own.
THEOREM RetryIsEnough == Spec => []OneRetryIsEnough
<1>1. IInv => OneRetryIsEnough
  BY DEF IInv, Goes, OneRetryIsEnough
<1> QED BY <1>1, InitInv, StepInv, PTL DEF Spec
=============================================================================
