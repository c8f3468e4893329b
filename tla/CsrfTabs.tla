------------------------------ MODULE CsrfTabs ------------------------------
(***************************************************************************)
(* CSRF tokens between the tabs of a browser and the server.               *)
(*                                                                         *)
(* All tabs share one cookie jar.  A session is bound to one token at a    *)
(* time; GET /csrf binds a new one when the cookie does not match.  A      *)
(* change request of the API client sends the token of the jar in a header *)
(* and, on the first csrf_validation_failed, fetches the token again and   *)
(* retries once.  Answers may come in any order or get lost.               *)
(***************************************************************************)
EXTENDS Integers, FiniteSets

CONSTANTS
  Reqs,        \* calls of the API client, and navigations, under way at a time
  Tabs, NoTab,
  MaxSessions, \* bound on the sessions created
  MaxTokens,   \* bound on the tokens issued
  NoReq

ASSUME CsrfAssumption ==
  /\ MaxTokens \in Nat \ {0} /\ MaxSessions \in Nat \ {0}
  /\ NoReq \notin Reqs /\ NoTab \notin Tabs

\* Sessions and tokens are numbered in the order of their creation.
NoSession == 0
Sessions == 1..MaxSessions
NoToken == 0
Tokens == 1..MaxTokens
Cookies == [session : Sessions \cup {NoSession}, csrf : 0..MaxTokens]

VARIABLES
  jar,        \* the browser's cookies
  row,        \* per session: is it active, and its csrf_token_hash
  issued,     \* the number of tokens issued
  boot,       \* per tab: csrfBootstrapPromise, as the call that began it
  call,       \* per call: where it is and what it carries
  fetch,      \* per call: its GET /csrf
  disturbed   \* history: a foreign change since the call began to fetch its token

vars == <<jar, row, issued, boot, call, fetch, disturbed>>

NoFetch == [at |-> "none", cookies |-> [session |-> NoSession, csrf |-> NoToken], token |-> NoToken]

NoCookies == [session |-> NoSession, csrf |-> NoToken]

Idle == [at |-> "idle", tab |-> NoTab, on |-> NoReq, retried |-> FALSE,
         header |-> NoToken, cookies |-> NoCookies]

\* A session that has not been created.
NoRow == [active |-> FALSE, csrf |-> NoToken]

\* The call ends with this outcome.
Over(outcome) == [Idle EXCEPT !.at = outcome]

Fresh == issued + 1

\* A change of the jar or of a row by call r, as the others see it; a call that
\* awaits r's fetch takes part in it.
Disturb(r) ==
  LET with == {r} \cup {q \in Reqs : call[q].on = r}
  IN disturbed' = [q \in Reqs |-> disturbed[q] \/ (q \notin with /\ call[q].at # "idle")]

-----------------------------------------------------------------------------
(* apiClient.ts *)

\* bootstrapCsrfToken without force: join the fetch under way, or begin one.
Bootstrap(r, c) ==
  LET b == boot[c.tab] IN
  /\ call' = [call EXCEPT ![r] = [c EXCEPT !.on = IF b = NoReq THEN r ELSE b]]
  /\ boot' = [boot EXCEPT ![c.tab] = IF b = NoReq THEN r ELSE b]
  /\ fetch' = IF b = NoReq THEN [fetch EXCEPT ![r] = [NoFetch EXCEPT !.at = "check", !.cookies = jar]]
              ELSE fetch

\* Fault: the promise under way is kept.
ForceBootstrapJoins(r) ==
  /\ Bootstrap(r, [call[r] EXCEPT !.at = "force", !.retried = TRUE])
  /\ disturbed' = [disturbed EXCEPT ![r] = FALSE]

\* bootstrapCsrfToken({ force: true }) always begins one.
ForceBootstrap(r) ==
  /\ call' = [call EXCEPT ![r] = [@ EXCEPT !.at = "force", !.on = r, !.retried = TRUE]]
  /\ boot' = [boot EXCEPT ![call[r].tab] = r]
  /\ fetch' = [fetch EXCEPT ![r] = [NoFetch EXCEPT !.at = "check", !.cookies = jar]]
  /\ disturbed' = [disturbed EXCEPT ![r] = FALSE]

\* ensureCsrfToken of a call: it has missed what the fetch has missed that it joins.
EnsureCsrfToken(r, c) ==
  IF jar.csrf # NoToken
  THEN call' = [call EXCEPT ![r] = [c EXCEPT !.at = "read"]] /\ UNCHANGED <<boot, fetch, disturbed>>
  ELSE /\ Bootstrap(r, [c EXCEPT !.at = "wait"])
       /\ disturbed' = [disturbed EXCEPT ![r] = boot[c.tab] # NoReq /\ disturbed[boot[c.tab]]]

\* request of an unsafe method, up to its first await.
Request(r, t) ==
  /\ call[r].at = "idle"
  /\ EnsureCsrfToken(r, [Idle EXCEPT !.tab = t])
  /\ UNCHANGED <<jar, row, issued>>

\* request of the second attempt: the cookie of the forced fetch may be gone again.
RequestAgain(r) ==
  /\ call[r].at = "ensure"
  /\ EnsureCsrfToken(r, call[r])
  /\ UNCHANGED <<jar, row, issued>>

\* readCookie after the bootstrap: the header, or "Missing csrf_token cookie".
ReadCookie(r) ==
  /\ call[r].at = "read"
  /\ call' = [call EXCEPT ![r] = IF jar.csrf = NoToken THEN Over("missing")
                                 ELSE [@ EXCEPT !.at = "send", !.header = jar.csrf]]
  /\ UNCHANGED <<jar, row, issued, boot, fetch, disturbed>>

\* fetch: the browser attaches the cookies of that moment.
Send(r) ==
  /\ call[r].at = "send"
  /\ call' = [call EXCEPT ![r].at = "sent", ![r].cookies = jar]
  /\ UNCHANGED <<jar, row, issued, boot, fetch, disturbed>>

\* The 403 arrives: one retry with a new token, then the error is the caller's.
Retry(r) ==
  /\ call[r].at = "refused"
  /\ \/ ~call[r].retried /\ ForceBootstrap(r)
     \/ /\ call[r].retried
        /\ call' = [call EXCEPT ![r] = Over("rejected")]
        /\ UNCHANGED <<boot, fetch, disturbed>>
  /\ UNCHANGED <<jar, row, issued>>

\* The caller has its answer or its error.
End(r) ==
  /\ call[r].at \in {"ok", "rejected", "missing", "broken"}
  /\ call' = [call EXCEPT ![r] = Idle]
  /\ disturbed' = [disturbed EXCEPT ![r] = FALSE]
  /\ UNCHANGED <<jar, row, issued, boot, fetch>>

-----------------------------------------------------------------------------
(* GET /csrf *)

Active(s) == s # NoSession /\ row[s].active

\* get_csrf up to the decision: the cookie stands unless an active session is bound
\* to another token.
Checked(cookies) ==
  IF cookies.csrf # NoToken /\ (Active(cookies.session) => row[cookies.session].csrf = cookies.csrf)
  THEN "reply" ELSE "issue"

GetCsrf(r) ==
  /\ fetch[r].at = "check"
  /\ fetch' = [fetch EXCEPT ![r].at = Checked(fetch[r].cookies)]
  /\ UNCHANGED <<jar, row, issued, boot, call, disturbed>>

\* issue_csrf_token: a new token; the session is looked up first ...
Issue(r) ==
  /\ fetch[r].at = "issue" /\ issued < MaxTokens
  /\ issued' = Fresh
  /\ fetch' = [fetch EXCEPT ![r].at = IF Active(fetch[r].cookies.session) THEN "bind" ELSE "reply",
                            ![r].token = Fresh]
  /\ UNCHANGED <<jar, row, boot, call, disturbed>>

\* ... and bound to it in a transaction of its own.
Bind(r) ==
  /\ fetch[r].at = "bind"
  /\ row' = [row EXCEPT ![fetch[r].cookies.session].csrf = fetch[r].token]
  /\ fetch' = [fetch EXCEPT ![r].at = "reply"]
  /\ Disturb(r)
  /\ UNCHANGED <<jar, issued, boot, call>>

\* A call that awaited a fetch with this outcome: over, or on its way.
Awaited(c, outcome) ==
  CASE c.at = "navigate" -> Over("ok")
    [] c.at # "navigate" /\ outcome = "broken" -> Over("broken")
    [] outcome = "answered" /\ c.at = "force" -> [c EXCEPT !.at = "ensure", !.on = NoReq]
    [] outcome = "answered" /\ c.at = "wait" -> [c EXCEPT !.at = "read", !.on = NoReq]

\* The calls when the fetch of r has ended.
Resumed(r, outcome) ==
  [q \in Reqs |-> IF call[q].on = r THEN Awaited(call[q], outcome) ELSE call[q]]

\* Fault: a fetch that a forced one has replaced resumes nobody.
SettleCurrentOnly(r, outcome) ==
  /\ call' = IF \E t \in Tabs : boot[t] = r THEN Resumed(r, outcome) ELSE call
  /\ boot' = [t \in Tabs |-> IF boot[t] = r THEN NoReq ELSE boot[t]]
  /\ fetch' = [fetch EXCEPT ![r] = NoFetch]

\* Fault: the promise stays.
SettleKeepsPromise(r, outcome) ==
  /\ call' = Resumed(r, outcome)
  /\ fetch' = [fetch EXCEPT ![r] = NoFetch]
  /\ UNCHANGED boot

\* They go on; finally forgets the promise if it is still the tab's.
Settle(r, outcome) ==
  /\ call' = Resumed(r, outcome)
  /\ boot' = [t \in Tabs |-> IF boot[t] = r THEN NoReq ELSE boot[t]]
  /\ fetch' = [fetch EXCEPT ![r] = NoFetch]

\* The answer arrives, with a cookie if a token was issued.
GotCsrf(r) ==
  /\ fetch[r].at = "reply"
  /\ IF fetch[r].token = NoToken THEN UNCHANGED <<jar, disturbed>>
     ELSE jar' = [jar EXCEPT !.csrf = fetch[r].token] /\ Disturb(r)
  /\ Settle(r, "answered")
  /\ UNCHANGED <<row, issued>>

\* It gets lost, and with it the cookie of a token that may be bound already.
LostCsrf(r) ==
  /\ fetch[r].at # "none"
  /\ Settle(r, "broken")
  /\ UNCHANGED <<jar, row, issued, disturbed>>

-----------------------------------------------------------------------------
(* CSRFMiddleware and the handlers behind it *)

Passes(c) ==
  /\ c.cookies.csrf # NoToken /\ c.header # NoToken
  /\ c.cookies.csrf = c.header
  /\ Active(c.cookies.session) => row[c.cookies.session].csrf = c.header

Validate(r) ==
  /\ call[r].at = "sent"
  /\ call' = [call EXCEPT ![r].at = IF Passes(call[r]) THEN "passed" ELSE "refused",
                          ![r].header = NoToken, ![r].cookies.csrf = NoToken]
  /\ UNCHANGED <<jar, row, issued, boot, fetch, disturbed>>

\* Any handler that leaves the session and its token alone, or refuses the user.
HandleChange(r) ==
  /\ call[r].at \in {"passed", "callback"}
  /\ call' = [call EXCEPT ![r] = Over("ok")]
  /\ UNCHANGED <<jar, row, issued, boot, fetch, disturbed>>

\* login, register and the OIDC login, which passes no middleware: a session with its
\* token replaces the one of the request.
HandleLogin(r) ==
  /\ call[r].at \in {"passed", "callback"} /\ issued < MaxTokens
  /\ \E s \in Sessions :
       /\ row[s] = NoRow /\ \A q \in Sessions : q < s => row[q] # NoRow
       /\ row' = [q \in Sessions |->
                    CASE q = s -> [active |-> TRUE, csrf |-> Fresh]
                      [] q # s /\ q = call[r].cookies.session -> [row[q] EXCEPT !.active = FALSE]
                      [] OTHER -> row[q]]
       /\ call' = [call EXCEPT ![r].at = "setcookie", ![r].cookies = [session |-> s, csrf |-> Fresh]]
  /\ issued' = Fresh
  /\ Disturb(r)
  /\ UNCHANGED <<jar, boot, fetch>>

\* logout, account deletion: the session ends and both cookies are cleared.
HandleLogout(r) ==
  /\ call[r].at = "passed"
  /\ row' = IF call[r].cookies.session = NoSession THEN row
            ELSE [row EXCEPT ![call[r].cookies.session].active = FALSE]
  /\ call' = [call EXCEPT ![r].at = "setcookie", ![r].cookies = NoCookies]
  /\ Disturb(r)
  /\ UNCHANGED <<jar, issued, boot, fetch>>

\* The answer of a login or a logout arrives and sets the cookies.
GotCookies(r) ==
  /\ call[r].at = "setcookie"
  /\ jar' = call[r].cookies
  /\ call' = [call EXCEPT ![r] = Over("ok")]
  /\ Disturb(r)
  /\ UNCHANGED <<row, issued, boot, fetch>>

\* The OIDC callback of a login, a navigation: the handler has the cookies of that moment.
LoginCallback(r) ==
  /\ call[r].at = "idle"
  /\ call' = [call EXCEPT ![r] = [@ EXCEPT !.at = "callback", !.cookies.session = jar.session]]
  /\ UNCHANGED <<jar, row, issued, boot, fetch, disturbed>>

\* The OIDC callback of a reauthentication issues a token as GET /csrf does.
Callback(r) ==
  /\ call[r].at = "idle"
  /\ call' = [call EXCEPT ![r] = [@ EXCEPT !.at = "navigate", !.on = r]]
  /\ fetch' = [fetch EXCEPT ![r] = [NoFetch EXCEPT !.at = "issue", !.cookies = jar]]
  /\ UNCHANGED <<jar, row, issued, boot, disturbed>>

\* A request or its answer gets lost.
Lost(r) ==
  /\ call[r].at \in {"sent", "refused", "setcookie"}
  /\ call' = [call EXCEPT ![r] = Over("broken")]
  /\ UNCHANGED <<jar, row, issued, boot, fetch, disturbed>>

\* A session expires or is revoked from elsewhere.
Expire(s) ==
  /\ row[s].active
  /\ row' = [row EXCEPT ![s].active = FALSE]
  /\ UNCHANGED <<jar, issued, boot, call, fetch, disturbed>>

\* Nobody logged in, or a session with its token.
Init ==
  /\ \/ jar = NoCookies /\ issued = 0 /\ row = [s \in Sessions |-> NoRow]
     \/ /\ jar = [session |-> 1, csrf |-> 1] /\ issued = 1
        /\ row = [s \in Sessions |-> IF s = 1 THEN [active |-> TRUE, csrf |-> 1] ELSE NoRow]
  /\ boot = [t \in Tabs |-> NoReq]
  /\ call = [r \in Reqs |-> Idle]
  /\ fetch = [r \in Reqs |-> NoFetch]
  /\ disturbed = [r \in Reqs |-> FALSE]

Proceed(r) ==
  \/ RequestAgain(r) \/ ReadCookie(r) \/ Send(r) \/ Validate(r) \/ Retry(r) \/ End(r)
  \/ HandleChange(r) \/ HandleLogin(r) \/ HandleLogout(r) \/ GotCookies(r) \/ Lost(r)

Fetch(r) == GetCsrf(r) \/ Issue(r) \/ Bind(r) \/ GotCsrf(r) \/ LostCsrf(r)

Next ==
  \/ \E r \in Reqs : \/ \E t \in Tabs : Request(r, t)
                     \/ LoginCallback(r) \/ Callback(r) \/ Proceed(r) \/ Fetch(r)
  \/ \E s \in Sessions : Expire(s)

Spec == Init /\ [][Next]_vars

\* A call that was made goes on: every fetch is answered or fails.
FairSpec == Spec /\ \A r \in Reqs : WF_vars(Proceed(r)) /\ WF_vars(Fetch(r))

-----------------------------------------------------------------------------
(* Properties. *)

\* Every variable has its type; a tab's csrfBootstrapPromise is a fetch under way.
TypeOK ==
  /\ jar \in Cookies /\ issued \in 0..MaxTokens
  /\ row \in [Sessions -> [active : BOOLEAN, csrf : 0..MaxTokens]]
  /\ boot \in [Tabs -> Reqs \cup {NoReq}]
  /\ \A r \in Reqs :
       /\ call[r].on \in Reqs \cup {NoReq} /\ call[r].cookies \in Cookies
       /\ call[r].tab \in Tabs \cup {NoTab}
       /\ fetch[r].cookies \in Cookies /\ fetch[r].token \in 0..MaxTokens
  /\ \A t \in Tabs : boot[t] # NoReq => fetch[boot[t]].at # "none"

\* A call fails for its token only if another call changed the cookies or a bound
\* token after it began to fetch its own: alone, one retry is enough, whatever stale
\* token the jar held and whatever was lost before.
OneRetryIsEnough ==
  \A r \in Reqs : call[r].at \in {"rejected", "missing"} => disturbed[r]

\* Every call of the API client comes to an end.
EveryCallEnds == \A r \in Reqs : call[r].at # "idle" ~> call[r].at = "idle"
=============================================================================
