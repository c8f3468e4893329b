----------------------------- MODULE AuthLimits -----------------------------
(***************************************************************************)
(* The authentication rate limits: which counters a flow consults before   *)
(* it starts and which ones its outcome writes.  The usecases fix these    *)
(* sets; the limiter behind them is SlidingWindow (what it promises),      *)
(* RateLimiter (InMemoryLoginRateLimiter) or RedisLimiter.                 *)
(***************************************************************************)
EXTENDS Integers, FiniteSets, Sequences

CONSTANTS
  IPs, Emails,          \* client addresses, normalized emails
  Reqs,                 \* concurrent requests
  NoRequest,
  Flows,                \* the flows of the instance
  Window,               \* AUTH_RATE_LIMIT_WINDOW_SECONDS
  RegistrationWindow,   \* AUTH_RATE_LIMIT_REGISTRATION_WINDOW_SECONDS
  PerEmailIp, PerIp, PerEmail, PerRegistration, PerOidc    \* the maxima

ASSUME LimitsAssumption ==
  /\ Flows \subseteq {"login", "register", "reauth", "oidc"}
  /\ {Window, RegistrationWindow} \subseteq Nat \ {0}
  /\ {PerEmailIp, PerIp, PerEmail, PerRegistration, PerOidc} \subseteq Nat \ {0}
  /\ IsFiniteSet(IPs) /\ IsFiniteSet(Emails) /\ IsFiniteSet(Reqs)

-----------------------------------------------------------------------------
Scopes == {"email_ip", "ip", "email", "registration_ip", "oidc_ip"}

Requests == [flow : Flows, ip : IPs, email : Emails]

ASSUME NoRequestAssumption == NoRequest \notin Requests

\* The keys of a scope.
Keys(s) == CASE s = "email_ip" -> IPs \X Emails
             [] s = "email" -> Emails
             [] OTHER -> IPs

KeyOf(s, q) == CASE s = "email_ip" -> <<q.ip, q.email>>
                 [] s = "email" -> q.email
                 [] OTHER -> q.ip

WindowOf(s) == IF s = "registration_ip" THEN RegistrationWindow ELSE Window

Limit(s) == CASE s = "email_ip" -> PerEmailIp
              [] s = "ip" -> PerIp
              [] s = "email" -> PerEmail
              [] s = "registration_ip" -> PerRegistration
              [] s = "oidc_ip" -> PerOidc

\* The scopes of a flow's first check: is_allowed,
\* is_account_deletion_reauth_allowed or is_oidc_authorization_allowed.
Consulted(flow) == CASE flow \in {"login", "register"} -> {"email_ip", "ip", "email"}
                     [] flow = "reauth" -> {"email_ip", "ip"}
                     [] flow = "oidc" -> {"oidc_ip"}

\* The scopes of its second check: is_registration_allowed.
ConsultedNext(flow) == IF flow = "register" THEN {"registration_ip"} ELSE {}

\* record_failure; only a failed login counts against the email alone.
OnFailure(flow) == CASE flow = "login" -> {"email_ip", "ip", "email"}
                     [] flow \in {"register", "reauth"} -> {"email_ip", "ip"}
                     [] flow = "oidc" -> {}

\* record_registration and record_oidc_authorization.
OnSuccess(flow) == CASE flow = "register" -> {"registration_ip"}
                     [] flow = "oidc" -> {"oidc_ip"}
                     [] OTHER -> {}

\* record_success forgets the failures of this address with this email.
Forgotten(flow) == IF flow = "login" THEN {"email_ip"} ELSE {}
=============================================================================
