------------------------------ MODULE OidcFlow ------------------------------
(***************************************************************************)
(* OIDC authorization: from the start of a flow to the session it opens or *)
(* the re-authentication that it records, and to the account deletion that *)
(* relies on it.                                                           *)
(*                                                                         *)
(* A flow is a row of auth_oidc_authorization_states.  The browser that    *)
(* starts it gets a binding cookie; the provider answers with a code that  *)
(* redeems to the claims of a subject.  Callbacks are requests of several  *)
(* steps, and the same callback URL may be opened again, concurrently and  *)
(* elsewhere.                                                              *)
(*                                                                         *)
(* The accounts are those without a password.  The races of the final      *)
(* transactions with other requests on the account are in Accounts; here   *)
(* each is one step.  The time that a token travels from the provider is   *)
(* not separate from the skew of the provider's clock.                     *)
(***************************************************************************)
EXTENDS Naturals, FiniteSets

CONSTANTS
  Browsers, Flows, Sessions, Reqs, Subjects, Users,
  NoBrowser, NoFlow, NoSession, NoUser, NoAnswer,
  StateTtl,    \* AUTH_OIDC_STATE_TTL_SECONDS
  Freshness,   \* AUTH_OIDC_REAUTH_FRESHNESS_SECONDS
  Leeway,      \* AUTH_OIDC_AUTH_TIME_FUTURE_LEEWAY_SECONDS
  MaxSkew,     \* bound on how far the provider's clock is ahead
  MaxTime      \* bound on the clock

ASSUME OidcAssumption ==
  /\ {StateTtl, Freshness, Leeway, MaxSkew, MaxTime} \subseteq Nat
  /\ NoBrowser \notin Browsers /\ NoFlow \notin Flows /\ NoSession \notin Sessions
  /\ NoUser \notin Users

VARIABLES
  now,       \* the clock
  flow,      \* auth_oidc_authorization_states
  sessions,  \* auth_sessions
  owner,     \* auth_identities: per subject, its account
  erased,    \* per account: the deletion that succeeded, or NoErasure
  jar,       \* per browser: the session of its session cookie
  binding,   \* the binding cookies held: pairs of browser and flow
  call       \* per request: its locals

cookies == <<jar, binding>>
rows    == <<flow, sessions, owner, erased>>
vars    == <<now, rows, cookies, call>>

-----------------------------------------------------------------------------
Time == 0..MaxTime

\* The authentication of a subject at the provider, at time real of our clock; the
\* provider's clock is ahead by skew.
Answer == [flow : Flows, subject : Subjects, real : Time, skew : 0..MaxSkew]

AuthTime(a) == a.real + a.skew

Flow == [status : {"unused", "open", "consumed", "pruned"}, purpose : {"login", "reauth"},
         browser : Browsers \cup {NoBrowser}, session : Sessions \cup {NoSession},
         expires : Nat]

\* proof is the answer whose auth_time is in last_oidc_authenticated_at; opened, the
\* flow that issued the session, is history.
Session == [user : Users \cup {NoUser}, live : BOOLEAN, opened : Flows \cup {NoFlow},
            proof : Answer \cup {NoAnswer}]

Erasure == [session : Sessions, proof : Answer, at : Time]

Call == [step : {"idle", "callback", "error", "consumed", "redeemed", "delete"},
         browser : Browsers \cup {NoBrowser}, flow : Flows \cup {NoFlow},
         session : Sessions \cup {NoSession}, answer : Answer \cup {NoAnswer},
         clock : Time]

NoErasure == [session |-> NoSession, proof |-> NoAnswer, at |-> 0]
IdleCall  == [step |-> "idle", browser |-> NoBrowser, flow |-> NoFlow,
              session |-> NoSession, answer |-> NoAnswer, clock |-> 0]

Deleted(u) == erased[u] # NoErasure

Revoked(x) == [x EXCEPT !.live = FALSE]

\* authenticate_session: the session of the browser's cookie, if it is accepted.
Current(b) == IF jar[b] # NoSession /\ sessions[jar[b]].live THEN jar[b] ELSE NoSession

-----------------------------------------------------------------------------
(* start_authorization. *)

Started(f, purpose, b, s) ==
  /\ flow[f].status = "unused"
  /\ flow' = [flow EXCEPT ![f] = [status |-> "open", purpose |-> purpose, browser |-> b,
                                  session |-> s, expires |-> now + StateTtl]]
  /\ binding' = binding \cup {<<b, f>>}
  /\ UNCHANGED <<now, sessions, owner, erased, jar, call>>

StartLogin(b, f) == Started(f, "login", b, NoSession)

StartReauth(b, f) ==
  /\ Current(b) # NoSession
  /\ Started(f, "reauth", b, Current(b))

-----------------------------------------------------------------------------
(* complete_oidc_callback. *)

\* The response: the binding cookie is cleared, and session cookie s is set.  Or it is
\* lost.
Respond(r, s) ==
  /\ call' = [call EXCEPT ![r] = IdleCall]
  /\ \/ /\ binding' = binding \ {<<call[r].browser, call[r].flow>>}
        /\ jar' = IF s = NoSession THEN jar ELSE [jar EXCEPT ![call[r].browser] = s]
     \/ UNCHANGED cookies

Fail(r) == Respond(r, NoSession)

\* Fault: the binding cookie is not looked at.
BoundAnyone(b, f) == TRUE

\* browser_binding_hash: the cookie of the flow holds the secret of its row.
Bound(b, f) == <<b, f>> \in binding

\* A browser opens the callback URL of flow f, with a code or, not ok, with an error
\* of the provider.  The session is authenticated and the clock read.
Open(r, b, f, ok) ==
  /\ call[r].step = "idle"
  /\ flow[f].status # "unused"
  /\ Bound(b, f)
  /\ call' = [call EXCEPT ![r] = [step |-> IF ok THEN "callback" ELSE "error",
                                  browser |-> b, flow |-> f, session |-> Current(b),
                                  answer |-> NoAnswer, clock |-> now]]
  /\ UNCHANGED <<now, rows, cookies>>

\* Fault: consumed_at is not looked at.
AcceptableAgain(f, t) == flow[f].status \in {"open", "consumed"} /\ t < flow[f].expires

Acceptable(f, t) == flow[f].status = "open" /\ t < flow[f].expires

\* _consume_callback_state, under the row's lock; an error callback ends here.
Consume(r) ==
  LET c == call[r] IN
  /\ c.step \in {"callback", "error"}
  /\ UNCHANGED <<now, sessions, owner, erased>>
  /\ IF Acceptable(c.flow, c.clock)
     THEN /\ flow' = [flow EXCEPT ![c.flow].status = "consumed"]
          /\ IF c.step = "error" THEN Fail(r)
             ELSE /\ call' = [call EXCEPT ![r] = [c EXCEPT !.step = "consumed", !.clock = 0]]
                  /\ UNCHANGED cookies
     ELSE Fail(r) /\ UNCHANGED flow

\* Fault: iat is not compared with the clock.
ValidSkewed(f, a) ==
  /\ a.flow = f
  /\ flow[f].purpose = "reauth" => AuthTime(a) <= now + Leeway

\* validate_id_token: the nonce is the flow's, and neither iat (the provider's now)
\* nor, for a re-authentication, auth_time is in the future.
Valid(f, a) ==
  /\ a.flow = f
  /\ a.skew <= Leeway
  /\ flow[f].purpose = "reauth" => AuthTime(a) <= now + Leeway

\* exchange_code and validate_id_token.  The code stands for any authentication a, made
\* now or earlier: nothing relies on prompt=login being honoured.
Redeem(r, a) ==
  LET c == call[r] IN
  /\ c.step = "consumed"
  /\ a.real <= now
  /\ IF Valid(c.flow, a)
     THEN /\ call' = [call EXCEPT ![r] = [c EXCEPT !.step = "redeemed", !.answer = a]]
          /\ UNCHANGED cookies
     ELSE Fail(r)
  /\ UNCHANGED <<now, rows>>

\* _resolve_login_user_and_identity: the subject's account, or one that has its
\* verified email, or a new one.
Resolve(p) == IF owner[p] # NoUser THEN {owner[p]} ELSE {u \in Users : ~Deleted(u)}

\* _complete_login_callback: the session that the callback came with is replaced by n;
\* auth_time is recorded if the provider sends it.
FinishLogin(r, u, n, timed) ==
  LET c == call[r] IN
  /\ c.step = "redeemed" /\ flow[c.flow].purpose = "login"
  /\ u \in Resolve(c.answer.subject)
  /\ sessions[n].user = NoUser
  /\ owner' = [owner EXCEPT ![c.answer.subject] = u]
  /\ sessions' = [s \in Sessions |->
       CASE s = n -> [user |-> u, live |-> TRUE, opened |-> c.flow,
                      proof |-> IF timed THEN c.answer ELSE NoAnswer]
         [] s # n /\ s = c.session -> Revoked(sessions[s])
         [] OTHER -> sessions[s]]
  /\ Respond(r, n)
  /\ UNCHANGED <<now, flow, erased>>

\* The login is refused: the account is not available, or the provider may not link or
\* provision accounts.
RefuseLogin(r) ==
  /\ call[r].step = "redeemed" /\ flow[call[r].flow].purpose = "login"
  /\ Fail(r)
  /\ UNCHANGED <<now, rows>>

\* Fault: the identity is not compared.
ReauthMatchesAnySubject(c) ==
  /\ c.session # NoSession
  /\ flow[c.flow].session = c.session
  /\ now <= AuthTime(c.answer) + Freshness

\* The checks of _complete_reauth_callback: session, identity, freshness.
ReauthMatches(c) ==
  /\ c.session # NoSession
  /\ flow[c.flow].session = c.session
  /\ owner[c.answer.subject] = sessions[c.session].user
  /\ now <= AuthTime(c.answer) + Freshness

\* _complete_reauth_callback: record_oidc_reauth writes the session's row, live or not.
FinishReauth(r) ==
  LET c == call[r] IN
  /\ c.step = "redeemed" /\ flow[c.flow].purpose = "reauth"
  /\ sessions' = IF ReauthMatches(c) THEN [sessions EXCEPT ![c.session].proof = c.answer]
                 ELSE sessions
  /\ Respond(r, NoSession)
  /\ UNCHANGED <<now, flow, owner, erased>>

-----------------------------------------------------------------------------
(* delete_account of an account without a password. *)

\* The context carries last_oidc_authenticated_at as the session's row has it now.
DeleteOpen(r, b) ==
  /\ call[r].step = "idle"
  /\ Current(b) # NoSession
  /\ call' = [call EXCEPT ![r] = [step |-> "delete", browser |-> b, flow |-> NoFlow,
                session |-> Current(b), answer |-> sessions[Current(b)].proof, clock |-> 0]]
  /\ UNCHANGED <<now, rows, cookies>>

\* _require_fresh_oidc_reauth.
Fresh(a) == a # NoAnswer /\ now <= AuthTime(a) + Freshness

\* The deletion, whose transaction is that of Accounts; the cookie is cleared,
\* unless the response is lost.
DeleteFinish(r) ==
  LET c == call[r]
      u == sessions[c.session].user
  IN
  /\ c.step = "delete"
  /\ IF Fresh(c.answer)
     THEN /\ erased' = IF Deleted(u) THEN erased
                       ELSE [erased EXCEPT ![u] = [session |-> c.session,
                                                   proof |-> c.answer, at |-> now]]
          /\ owner' = [p \in Subjects |-> IF owner[p] = u THEN NoUser ELSE owner[p]]
          /\ sessions' = [s \in Sessions |-> IF sessions[s].user = u
                            THEN Revoked(sessions[s]) ELSE sessions[s]]
          /\ jar' \in {jar, [jar EXCEPT ![c.browser] = NoSession]}
     ELSE UNCHANGED <<erased, owner, sessions, jar>>
  /\ call' = [call EXCEPT ![r] = IdleCall]
  /\ UNCHANGED <<now, flow, binding>>

-----------------------------------------------------------------------------
\* logout: the session is revoked and its cookie cleared, unless the response is lost.
Logout(b) ==
  /\ jar[b] # NoSession
  /\ sessions' = [sessions EXCEPT ![jar[b]] = Revoked(@)]
  /\ jar' \in {jar, [jar EXCEPT ![b] = NoSession]}
  /\ UNCHANGED <<now, flow, owner, erased, binding, call>>

\* db-prune-auth: delete_oidc_states_expired_before.  The operator may give any time
\* as the threshold, so any row may go.
Prune(f) ==
  /\ flow[f].status \in {"open", "consumed"}
  /\ flow' = [flow EXCEPT ![f].status = "pruned"]
  /\ UNCHANGED <<now, sessions, owner, erased, cookies, call>>

\* A crash or a cancellation: what is committed stays, no cookie changes.
Abort(r) ==
  /\ call[r].step # "idle"
  /\ call' = [call EXCEPT ![r] = IdleCall]
  /\ UNCHANGED <<now, rows, cookies>>

Tick ==
  /\ now < MaxTime
  /\ now' = now + 1
  /\ UNCHANGED <<rows, cookies, call>>

Init ==
  /\ now = 0
  /\ flow = [f \in Flows |-> [status |-> "unused", purpose |-> "login", browser |-> NoBrowser,
                              session |-> NoSession, expires |-> 0]]
  /\ sessions = [s \in Sessions |-> [user |-> NoUser, live |-> FALSE, opened |-> NoFlow,
                                     proof |-> NoAnswer]]
  /\ owner = [p \in Subjects |-> NoUser]
  /\ erased = [u \in Users |-> NoErasure]
  /\ jar = [b \in Browsers |-> NoSession]
  /\ binding = {}
  /\ call = [r \in Reqs |-> IdleCall]

Next ==
  \/ \E b \in Browsers, f \in Flows : StartLogin(b, f) \/ StartReauth(b, f)
  \/ \E r \in Reqs, b \in Browsers, f \in Flows, ok \in BOOLEAN : Open(r, b, f, ok)
  \/ \E r \in Reqs : Consume(r) \/ RefuseLogin(r) \/ FinishReauth(r) \/ DeleteFinish(r) \/ Abort(r)
  \/ \E r \in Reqs, a \in Answer : Redeem(r, a)
  \/ \E r \in Reqs, u \in Users, n \in Sessions, timed \in BOOLEAN : FinishLogin(r, u, n, timed)
  \/ \E r \in Reqs, b \in Browsers : DeleteOpen(r, b)
  \/ \E b \in Browsers : Logout(b)
  \/ \E f \in Flows : Prune(f)
  \/ Tick

Spec == Init /\ [][Next]_vars

-----------------------------------------------------------------------------
(* Properties. *)

\* Every variable has its type.
TypeOK ==
  /\ now \in Time
  /\ flow \in [Flows -> Flow]
  /\ sessions \in [Sessions -> Session]
  /\ owner \in [Subjects -> Users \cup {NoUser}]
  /\ erased \in [Users -> Erasure \cup {NoErasure}]
  /\ jar \in [Browsers -> Sessions \cup {NoSession}]
  /\ binding \subseteq Browsers \X Flows
  /\ call \in [Reqs -> Call]

\* A flow opens at most one session, however often and however concurrently its
\* callback is opened, retried after a lost response, or pruned in between.
OneSessionPerFlow ==
  \A s, t \in Sessions :
    sessions[s].opened = sessions[t].opened /\ sessions[s].opened # NoFlow => s = t

\* A browser is only ever logged in by a flow that it started itself.
OwnFlowsOnly ==
  \A b \in Browsers : jar[b] # NoSession => flow[sessions[jar[b]].opened].browser = b

\* The authentication recorded in a session came from the flow that opened it or from
\* a re-authentication started in it, and proved a subject of the session's account.
ProofIsOwn ==
  \A s \in Sessions : LET a == sessions[s].proof IN
    a # NoAnswer =>
      /\ a.flow = sessions[s].opened \/ flow[a.flow].session = s
      /\ sessions[s].live => owner[a.subject] = sessions[s].user

\* An account without a password is deleted only within Freshness, plus the tolerated
\* clock skew, of a real authentication at the provider, and from the session that this
\* authentication belongs to.
FreshDeletion ==
  \A u \in Users : Deleted(u) =>
    LET e == erased[u] IN
    /\ e.at <= e.proof.real + Freshness + Leeway
    /\ sessions[e.session].user = u
    /\ e.proof.flow = sessions[e.session].opened \/ flow[e.proof.flow].session = e.session

-----------------------------------------------------------------------------
(* The inductive invariant. *)

Used(s) == sessions[s].user # NoUser

\* Callbacks that have passed the consumption of their flow.
Consuming == {r \in Reqs : call[r].step \in {"consumed", "redeemed"}}

\* a is a validated answer that belongs to session s.
ProofOf(a, s) ==
  /\ a.skew <= Leeway
  /\ flow[a.flow].status # "unused"
  /\ a.flow = sessions[s].opened \/ flow[a.flow].session = s

\* A session in use was opened by a used-up flow; one not in use has nothing.
OpenedInv ==
  \A s \in Sessions :
    /\ Used(s) => /\ sessions[s].opened \in Flows
                  /\ flow[sessions[s].opened].status \in {"consumed", "pruned"}
    /\ ~Used(s) => /\ sessions[s].opened = NoFlow
                   /\ ~sessions[s].live
                   /\ sessions[s].proof = NoAnswer

\* What a session records is a proof that belongs to it.
ProofsInv ==
  \A s \in Sessions : sessions[s].proof # NoAnswer => ProofOf(sessions[s].proof, s)

\* The cookies: a binding cookie is held by the browser that started the flow.
CookiesInv ==
  /\ \A b \in Browsers, f \in Flows :
       <<b, f>> \in binding => flow[f].browser = b /\ flow[f].status # "unused"
  /\ \A b \in Browsers : jar[b] # NoSession => Used(jar[b])

\* A request was authenticated by a session in use.
SessionCalls == \A r \in Reqs : call[r].session # NoSession => Used(call[r].session)

\* A callback is for a flow that its browser started.
FlowCalls ==
  \A r \in Reqs : call[r].step \in {"callback", "error", "consumed", "redeemed"} =>
    /\ call[r].flow \in Flows /\ call[r].browser \in Browsers
    /\ flow[call[r].flow].browser = call[r].browser
    /\ flow[call[r].flow].status # "unused"

\* A flow is consumed by one request only, and opens no session before that ends.
ConsumerInv ==
  \A r \in Consuming :
    /\ flow[call[r].flow].status \in {"consumed", "pruned"}
    /\ \A s \in Sessions : sessions[s].opened # call[r].flow
    /\ \A r2 \in Consuming : call[r2].flow = call[r].flow => r2 = r

\* A redeemed answer is one to the request's own flow, from a tolerated clock.
RedeemedCalls ==
  \A r \in Reqs : call[r].step = "redeemed" =>
    /\ call[r].answer \in Answer
    /\ call[r].answer.flow = call[r].flow
    /\ call[r].answer.skew <= Leeway

\* A deletion carries a proof of its session, if any.
DeleteCalls ==
  \A r \in Reqs : call[r].step = "delete" =>
    /\ call[r].session \in Sessions /\ call[r].browser \in Browsers
    /\ call[r].answer # NoAnswer => ProofOf(call[r].answer, call[r].session)

\* The deletions: each rested on a proof of its session.
ErasuresInv ==
  \A u \in Users : Deleted(u) =>
    /\ sessions[erased[u].session].user = u
    /\ ProofOf(erased[u].proof, erased[u].session)
    /\ erased[u].at <= erased[u].proof.real + Freshness + Leeway

IInv ==
  /\ TypeOK /\ OpenedInv /\ ProofsInv /\ CookiesInv /\ SessionCalls /\ FlowCalls
  /\ ConsumerInv /\ RedeemedCalls /\ DeleteCalls /\ ErasuresInv
  /\ OneSessionPerFlow /\ OwnFlowsOnly /\ ProofIsOwn
=============================================================================
