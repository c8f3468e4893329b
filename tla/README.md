# Verification of python-react-template

The repository is a FastAPI / PostgreSQL backend with a React frontend. Its own
logic is authentication: accounts, sessions, password and OIDC login, account
deletion, administration of users and roles, rate limiting and CSRF protection.
This directory holds TLA+ models of that logic, the TLC runs that check them on
small instances, and TLAPS proofs of the properties that matter most.

`PROJECT.json` lists the components, the runs, the source lines of each
definition, the mutants that show each property can fail, the hazards and the
theorems.

## 1. Inventory

### Components, their state and operations

| Component | Code (`src/backend/app/` unless said) | State | Operations |
|---|---|---|---|
| Accounts and sessions | `usecases/auth_usecase.py`, `services/auth_repository.py`, `libraries/auth_session_issuer.py`, `services/unit_of_work.py` | tables `users`, `auth_sessions`, `auth_audit_logs` | register, login, authenticate_session, logout, update_current_user, issue/validate CSRF |
| OIDC login | `usecases/oauth_oidc_usecase.py`, `services/oidc_provider_client.py` | tables `auth_oidc_authorization_states`, `auth_identities`; provider caches | start_authorization, complete_callback (login or re-authentication), error callback, prune |
| Account deletion | `usecases/account_deletion_usecase.py` | all tables that reference `users` | delete_account |
| Administration | `usecases/admin_user_usecase.py`, `services/admin_user_repository.py` | `users`, `user_roles` | list, create, update (PATCH), delete |
| Authorization | `usecases/authorization_usecase.py`, `services/authorization_repository.py`, `config/authorization.py` | `user_roles`; a static catalog | replace roles, resolve permissions |
| OIDC provider client | `services/oidc_provider_client.py` | discovery and JWKS caches, their negative caches, the time of the last forced reload | build_authorization_url, exchange_code, validate_id_token |
| Client address | `libraries/client_ip.py` | | resolve_client_ip |
| Sample items | `usecases/sample_item_usecase.py`, `services/sample_item_repository.py` | `sample_items` | create, list (cursor), get, delete |
| Rate limiting | `libraries/auth_rate_limiter.py`, `libraries/redis_login_rate_limiter.py` | per scope and key, the times of recent attempts; circuit breaker | is_*_allowed, record_* |
| Replay audit | `services/auth_repository.py` | one aggregated `auth_audit_logs` row per session and window | record_rejected_session_replay |
| CSRF and browser client | `bootstrap/csrf.py`, `src/frontend/src/lib/apiClient.ts` | cookie and per-session token hash; bootstrap promise | middleware check, rotation, single-flight bootstrap, one retry |
| Maintenance | `src/backend/manage.py` | | pruning of sessions, states and audit logs; authz-grant-role, seed-admin, authz-prune-unknown-role-assignments |

### Interactions

Every HTTP request is a coroutine on an event loop, several processes may run,
and they share only PostgreSQL (READ COMMITTED) and, if configured, Redis. A
usecase calls the rate limiter, reads outside a transaction, hashes a password in
a thread pool, and then runs one transaction through `UnitOfWork.transaction`.
A handler behind `auth_dependencies` first runs `authenticate_session` in
transactions of its own and carries the resulting context into the usecase. So
between the read on which a request decides and the commit of its write, any
other request may commit.

### What is hard

* A value read before a transaction, an `await` or a lock wait is used after it:
  the password hash of a login, `deleted_at` in `record_user_login`, the context
  of `create_item`, the roles that `replace_user_roles` read.
* One account is changed by a deletion, a PATCH, a role replacement and logins at
  once; only updates of the `users` row block each other.
* Check-then-insert on the address of an account.
* Session touches are throttled and may commit out of order, and the ORM writes only
  the columns that differ from the ones it loaded.
* Check-then-record in the rate limiters, with bounded dictionaries (memory) and
  with an unreliable server and a circuit breaker (Redis).
* Single use of an OIDC state; CSRF tokens rotated by two tabs; cached signing
  keys.

`PROJECT.json` has these under `hazards`, each at its line.

### What makes each component correct

* Accounts: a deleted, deactivated or re-keyed account has no usable session; a
  request that begins after a deletion is never served as the account and gives
  it nothing; an address resolves to one account; one audit row per deletion;
  every request ends.
* Session lifetime: absolute and idle limits hold, and a session in use does not
  expire early.
* Rate limits: a key is counted exactly over its window, in bounded memory, and
  concurrency can exceed the limit only by the number of requests in flight.
* OIDC state: consumed at most once, by its browser, in time.
* Redis limiter: a late command or an expiring key never drops a record of the
  window; an outage costs a worker a bounded number of waits and leaves no trace.
* Replay audit: no counted replay is lost; one row per window.
* CSRF: a tab whose token was replaced recovers with one retry; no call waits for
  ever for a bootstrap.
* Provider client: a withdrawn key is not trusted for longer than the TTL; the
  caches recover from rotations and failures in their stated times, after a rotation
  sooner for tokens that name their key than for those that do not.
* Roles: audit rows tell what was granted and revoked, whatever else runs.

## 2. Modules

| Module | Models | Composes |
|---|---|---|
| `Accounts` | requests on accounts, sessions and owned rows | |
| `SessionLifetime` | one session row under a clock | |
| `ReplayAudit` | the audit of rejected requests of that session | `SessionLifetime` |
| `AuthLimits` | scopes, keys, limits, which flow consults and records what | |
| `SlidingWindow` | abstract rate limiter: what is promised | `AuthLimits` |
| `RateLimiter` | `InMemoryLoginRateLimiter` | `AuthLimits`; implements `SlidingWindow` |
| `ClientAddress` | `resolve_client_ip`, a pure function | |
| `RedisLimiter` | `RedisLoginRateLimiter` and its circuit breaker | `AuthLimits`, `ClientAddress` |
| `OidcFlow` | OIDC flows from their start to the session or the deletion they allow | |
| `ProviderCache` | the caches of `OidcProviderClient` | |
| `CsrfTabs` | `CSRFMiddleware`, `GET /csrf` and `apiClient.ts` in several tabs | |
| `RoleChanges` | every writer of the roles of an account, with locks and audit rows | |
| `AccountsProofs`, `SessionLifetimeProofs`, `RateLimiterProofs`, `RedisLimiterProofs`, `OidcFlowProofs`, `ProviderCacheProofs`, `CsrfTabsProofs`, `RoleChangesProofs` | theorems | their module; `SessionLifetimeProofs` extends `ReplayAudit` |
| `MCAccounts`, `MCSessionLifetime`, `MCRateLimiter`, `MCRedisLimiter`, `MCOidcFlow`, `MCProviderCache`, `MCCsrfTabs`, `MCRoleChanges` | model values and symmetry for TLC | their module; `MCSessionLifetime` extends `ReplayAudit` |

### Accounts

A request `r` is a process. `pc[r]` names the statement it executes next, and each
statement that another request can observe or be blocked by is one action. The
committed tables are `users`, `sessions`, `revoked` (the sessions with
`revoked_at`), `owned` (rows of `user_roles`, `auth_identities`, `sample_items`)
and `marks` (the number of USER_MARKED_DELETED rows). What a transaction has
written but not committed is in `patch`, `toRevoke`, `drop` and `add`; `lock[u]` is
the transaction that updated the `users` row `u`. `sessions[s].via`, `.pwd` and
`dead` are history variables: how a session was issued, under which password, and
which accounts were deleted when the request began.

| Usecase | Actions |
|---|---|
| `AuthUsecase.login` | `LoginVerify` (read and hash check), `LoginLoad` and `LoginUpdate` (`record_user_login`), `LoginCommit` |
| `AuthUsecase.register` | `RegisterCheck`, `RegisterCommit` |
| `OAuthOidcUsecase._complete_login_callback` | `OidcFindIdentity` / `OidcFindLink` / `OidcFindNobody`, `OidcInsertIdentity`, `OidcUpdate`, `OidcCommit`, `OidcProvision` |
| `AuthUsecase.authenticate_session` | `AuthFind`, `AuthLoadUser`, then `Answer`, `CreateItem` or `SelfDelete` |
| `AuthUsecase.logout` | `LogoutFind`, `LogoutCommit` |
| `delete_account`, `AdminUserUsecase.delete_user` | `SelfDelete` / `AdminDelete`, `DeleteItems`, `DeleteRoles`, `DeleteIdentities`, `MarkUserDeleted`, `RevokeForDeletion`, `CommitDeletion` |
| `AdminUserUsecase.create_user` | `AdminCreate` |
| `AdminUserUsecase.update_user` | `PatchLoad`, `PatchUpdate`, `PatchRoles`, `PatchRevoke`, `PatchCommit` |
| `AuthorizationUsecase.replace_user_roles` | `PutRolesLoad`, `PutRolesDiff`, `PutRolesUpdate`, `PutRolesCommit` |
| rollback of any of them | `Abort` |

`Changed` is the ORM's flush: only attributes that differ from the loaded row are
written, so a PATCH that loaded a stale row may write less than its body says.
`EmailFree` and the unique indexes model PostgreSQL's treatment of a key that an
uncommitted transaction has written.

### SessionLifetime

One session row and the requests that use it. Each request reads the clock when
it starts, reads the row (`Find`), decides whether to touch (`NeedsTouch`, throttled by
`Interval`) and commits the new expiry with a possibly old clock reading (`Commit`).
`MaxDelay` bounds how long a request takes; `Revoke` and `Prune` may happen at any
time, and a touch of a row that is gone fails (`Vanished`).

`authenticate_session` runs in one transaction with one ORM session, so `session.get`
in `touch_session` answers with the object that the lookup loaded, and the flush
writes a column only if its new value differs from the loaded one. `copy` holds the
two loaded columns and `SeenChanged` / `ExpiryChanged` decide. From its UPDATE to its
COMMIT a touch has the row locked, and readers see the old row: nothing can come
between the two that could not come before, so they are one step.

What this costs a session in use is `Slack`. A touch that is overtaken by a newer one
moves `expires_at` back by up to two request durations. If moreover a second touch
becomes due while an older one is in flight (`Interval < 2 * MaxDelay`), it may have
loaded the absolute limit, compute it again, leave `expires_at` out and so keep the
value that the older one put there, under a newer `last_seen_at` that holds off the
next touch: then both costs add up (`Lag`).

### AuthLimits, SlidingWindow, RateLimiter

`AuthLimits` says which scopes each flow (login, registration, re-authentication
for deletion, OIDC start) consults, records on failure and on success, and
forgets. `SlidingWindow` states the promise: per key exactly the records of the
last window, at most `Cap` keys. `RateLimiter` is the code: an ordered dictionary
per scope, buckets trimmed when touched, expired buckets evicted from the front
when the scope is full. The refinement maps `live` to the trimmed buckets (`Unexpired`).

### OidcFlow

`flow` is `auth_oidc_authorization_states`, one row per started flow; `sessions`,
`owner` (the account of each provider subject) and `erased` are the other tables.
`jar` and `binding` are the cookies that browsers hold. A callback is a request of
several steps: `Open` (the cookies are read, the session authenticated, the clock
read), `Consume` (`_consume_callback_state`, also of an error callback), `Redeem`
(`exchange_code` and `validate_id_token`), then `FinishLogin`, `RefuseLogin` or
`FinishReauth`. `DeleteOpen` and `DeleteFinish` are `delete_account` of an account
without a password, which rests on `last_oidc_authenticated_at`. A callback URL may
be opened any number of times by any browser, at any time a response may be lost
or a request die (`Abort`), and an operator may prune any row.

An `Answer` is an authentication at the provider: its real time and how far the
provider's clock is ahead. The code sees only their sum, so `FreshDeletion`, which
speaks of the real time, is about what the checks of `iat` and `auth_time`
achieve together: a login records `auth_time` without comparing it with the clock,
and it is the check of `iat` that bounds it.

Left out: several providers (the row's provider is compared with the URL's), the
redirect path and error codes, audit rows, the expiry of the binding cookie in the
browser. `Accounts` has the statements of the final transactions and their races.

### ReplayAudit

The lookup of `SessionLifetime` with what follows when it rejects a request:
`FindRejected` (`_audit_known_rejected_session`), `TryLock`
(`pg_try_advisory_xact_lock`), `Read` (the latest row of the window), then `Insert`
or `Update`. Whoever does not get the lock drops its replay, so a row counts the
merged replays and not all of them; that is the code's choice, and
`NoReplayLost` is about the merged ones. `PruneLog` and the pruning of the session
may come between any two of these steps.

### ClientAddress and RedisLimiter

`ResolveClientIp` is the scan of `X-Forwarded-For` from the right; `PeerOf` and
`HeaderOf` say what proxies do to a request. `RedisLimiter` starts each request
with a header of the client's choice and a chain of trusted proxies, and counts it
under the resolved address.

An operation of the limiter is a TIME and a second round trip (`ReadTime`, then one
`Count` per ZCOUNT, or `Execute`), with `Answer`, `Break` (error or deadline) or
`PoolExhausted` as its end. `Break` may leave the command under way; it then
arrives (`LateExecute`) or not (`LateLost`). `breaker` is the state that each worker
keeps, `redis` the sorted sets as the number of members up to each age, with the TTL
of the key. Ages
instead of times keep the model finite while an outage lasts as long as it likes.

`Break` may hit the records of a request and not its checks: then the record is
dropped, the next answered check resets the breaker, and logins pass uncounted. No
property forbids this; `Overshoot` counts what Redis was told (section 3).

### ProviderCache

`Begin` starts one of the client's calls; a load that it needs is answered
(`Answer`, which fixes what the provider publishes at that moment) and arrives
later (`GotDiscovery`, `GotKeys`) or fails (`LoadFails`). The provider rotates its
key, publishes bad metadata, repairs it, goes down and comes back. A `Token` names its
key or not (`_jwt_kid`); only one that does makes `_should_refresh_jwks` reload a cached
set without the key (`Refreshes`), so after a rotation a token without a `kid` fails
until the cached set expires. `Heals` states the two waiting times. Metadata is put
into the cache before it is validated, and lifetimes run from the start of a load.
There is one provider: the caches of two share nothing.

### CsrfTabs

`jar` holds the cookies that all tabs share, `row` the sessions with the hash of
their token, `boot` the `csrfBootstrapPromise` of each tab. `Request` to `End` are
`request` of `apiClient.ts`; its second attempt enters it again (`RequestAgain`) and
fetches a token once more if the cookie has vanished. `LoginCallback` and `Callback` are
the OIDC callbacks of a login, which replaces session and token without passing the
middleware, and of a re-authentication, which issues a token. `GetCsrf`, `Issue` and `Bind` the handler of `GET /csrf`, `Validate` the
middleware, the `Handle` actions what the endpoints do to session and cookies.
`Lost` and `LostCsrf` lose an answer after the server acted, and answers may
overtake each other. `disturbed[r]` is history: another call changed the cookies or
a bound token after `r` began to fetch its own.

### RoleChanges

Every writer of `user_roles` of one account: `Put` (`replace_user_roles`), `Patch`,
`DeleteAccount`, and the commands `GrantRole`, `SeedAdmin` and `PruneUnknown` of
`manage.py`. A transaction reads (`Select`, `Reread`), deletes, inserts, updates
`users` (`UpdateFirst` when it writes that row first) and commits with its audit
rows. Rows that a transaction deleted or inserted block others; `WaitsFor` and
`Deadlocked` are PostgreSQL's detection, which ends in `Abort`. A statement takes
all its locks at once: deadlocks within two multi-row statements on `user_roles`
are left out.

What the code does here and the properties leave room for: the granting commands
revoke, without an audit row, a role granted between their two reads; two
concurrent revocations may both write ROLE_REVOKED for one role; `seed-admin`
changes a password and leaves the sessions.

## 3. Runs

| Run | Properties | Shows |
|---|---|---|
| `AccountsLive` | `OnlyPasswordLoginOutlivesDeletion`, `DeletionAuditedOnce`, `NotServedAfterDeletion`, `StatusChangeRevokesAll`, `NoGainAfterDeletion`, `EveryRequestEnds` | all writers of one account against its deletion, deactivation and password change; every request ends |
| `AccountsEmail` | `EmailResolvesToOneAccount` | two accounts, two addresses, every writer of `email` |
| `SessionLifetime` | `AbsoluteLimit`, `IdleLimit`, `StaysUsable`, `HalfIdleLeft`, `RevocationStays`, `NoReplayLost`, `OneRowPerWindow`, `DistinctIps` | expiry under concurrent touches; rejected requests counted and pruned at any time |
| `RateLimiter` | `TypeOK`, `BucketsBounded`, `Overshoot`, `ImplementsWindow` | concurrent requests, eviction, the refinement |
| `RedisLimiter` | `TypeOK`, `KeepsWindow`, `Overshoot`, `OutageCost`, `OwnCounters`, `Recovers` | timeouts, late and lost commands, a full pool, outages; forged headers |
| `OidcFlow` | `OneSessionPerFlow`, `OwnFlowsOnly`, `FreshDeletion`, `ProofIsOwn` | repeated, exchanged, failed and late callbacks of two browsers; a provider clock ahead of ours |
| `ProviderCache` | `TypeOK`, `TrustEnds`, `Heals` | rotation, failures and bad metadata while loads overlap |
| `CsrfTabs` | `TypeOK`, `OneRetryIsEnough`, `EveryCallEnds` | tabs that change, log in and out while answers are lost |
| `RoleChanges` | `TypeOK`, `OneLockOrder`, `GrantEvents`, `NoSilentLoss`, `EveryChangeEnds` | every two writers of one account's roles |
| `AccountsDocSession` (violation) | `DeletedUserHasNoSession` | see below |
| `AccountsDocRows` (violation) | `DeletedUserOwnsNothing` | see below |
| `AccountsDocPassword` (violation) | `PasswordChangeEndsSessions` | see below |

The type invariants of Accounts, SessionLifetime and OidcFlow are theorems and not
repeated in the runs.

### Where the documents say more than the code does

Three statements of the documents do not hold when requests overlap, and have a run:

* `DeletedUserHasNoSession`: `record_user_login` tests `deleted_at` before its
  UPDATE waits for the row lock, and not again after its refresh. A login that
  loaded the account before the deletion committed opens a session for the
  deleted user. `NotServedAfterDeletion` and `OnlyPasswordLoginOutlivesDeletion`
  bound the damage: the session is never served and only this path leaves one.
* `DeletedUserOwnsNothing`: items, roles and identities inserted while a deletion
  runs survive it. `NoGainAfterDeletion` bounds this to requests that were under
  way when the account was deleted.
* `PasswordChangeEndsSessions`: a login verified against the old password can
  commit after the change. `StatusChangeRevokesAll` says what does hold: the
  change revokes every session that exists when it commits. It is about the requests
  of the API: `seed-admin` (`manage.py`, lines 335 to 344), a command for local and
  development environments, changes a password and revokes nothing.

A fourth has none. `backend/README.md`, line 118, says that without monitoring of the
capacity `noeviction` leads to a stop of authentication, by failed writes together with
fail-closed. The code does the opposite for a Redis that answers reads and refuses
writes: `_run_operation` drops a failed record, `_mark_success` of the next check
resets the breaker, and logins go on uncounted. `RedisLimiter` has these behaviours;
none of its properties speaks of them.

### Bounds

Pools of users, sessions, requests, roles, subjects and items are sets of model
values; `MaxPwd`, `MaxTime`, `Cap` and the limits are small numbers given in the
`.cfg` files. The Accounts hazards are races of two transactions on one account,
so two requests and one or two accounts produce them; the session pool holds one
row more than the race needs. Password versions go to 2 where a change matters.
`AccountsEmail` has two accounts and two addresses. In `SessionLifetime` the clock
reaches the absolute limit, where lookups are rejected, and runs past the idle limit
of a session that is not used. The idle limit (4) is so far below the absolute one (7)
that the first touches store different expiries: one that overtakes another moves
`expires_at` back, and with an interval of two request durations it is this that makes
the bound of `StaysUsable` and of `HalfIdleLeft` tight. An `expires_at` that the flush
leaves out beside a value moved back needs a shorter interval and more time; the
theorem `UsableWhileUsed` has that case. Three replays of three addresses exceed a
remembered list of one. The RateLimiter run has
more addresses than `Cap` and a clock that passes a window, so that buckets expire,
fill the scope and are evicted. `RedisLimiter` has two requests in one worker, so
that a probe after a cooldown meets a request that still waits, a threshold of two,
and a command as late as a whole window. Its requests are those of `reauth`: with
the second check of `register` or the DELETE of `login` the instance grows past five
minutes, so these two operations have their run with the in-memory limiter only
(the theorems of `RedisLimiterProofs` hold for all flows). `OidcFlow` has two browsers, two flows and two concurrent requests, a linked
and an unlinked subject, and a clock that passes the expiry of a state and the
freshness of an authentication by one; that `ProofIsOwn` holds with three or more
flows is the theorem `ProofBound`. `ProviderCache` needs no bound on time; two calls
overtake each other, and the TTL (3) is longer than the negative TTL (2) and than
cooldown and load together (1 + 1), so that a token without a `kid` has longer to wait
than one with it.
`CsrfTabs` has two calls of two tabs, two sessions, numbered in the order of their
creation, and three tokens, one more than a rotation and its retry use. `RoleChanges` has two requests, which every unaudited
change and every deadlock over the `users` row needs, and a role outside the
catalog; `LockOrder` is proved for any number of them. Symmetry is used over
interchangeable model values in the runs of safety properties only; the account and
address that exist at the start are told apart from the others by `Init` alone, so
permuting them too is sound.

Deadlock checking is off, except in `ProviderCache`: once the pools are used up or
the clock has reached its bound the model stops, which the program does not.

### Fairness

`FairSpec` of Accounts assumes strong fairness of `Progress(r)` for each request:
the event loop resumes every coroutine whose statement can run, and PostgreSQL
serves the waiters of a row lock or a unique key in turn. Arrivals and aborts are
not fair. `OutOfRows` lets a request end when the model's pools, which the
database does not have, are empty.

`FairSpec` of RoleChanges is the same for its transactions, with PostgreSQL's
deadlock detection: a deadlocked request steps or is the victim. In CsrfTabs a call
that was made goes on and every fetch is answered or fails, as `fetch` promises; no
user acts in fairness. In RedisLimiter time passes, requests keep coming and no
command is under way for ever; `Recovers` is about runs in which Redis fails only
finitely often, and without further requests a breaker would rightly stay open.

## 4. Proofs

The proofs hold for every value of the constants that satisfies the named
assumptions: `AccountsAssumption` (the "no such" values are outside their sets,
`MaxPwd` positive), `LifetimeAssumption` (positive lifetimes), `LimitsAssumption`
and `NoRequestAssumption` in `AuthLimits`, `CapAssumption` (a positive cap),
`OidcAssumption` (the settings are natural numbers, the "no such" values are
outside their sets), `RolesAssumption` (the seed role is in the catalog),
`RedisAssumption` (positive settings; no client has the address of a trusted
proxy, and a malformed element is nobody's; a command is not called late before
its deadline), `ReplayAssumption` and `CacheAssumption` (positive settings), and
`CsrfAssumption` (at least one token and one session).

* `AccountsProofs`. `IInv` adds to the properties what their induction needs:
  `LockDiscipline` (a row lock is held exactly by a request at a label between its
  UPDATE and its commit, and a deletion between its UPDATE and its commit either
  holds the lock of a present row or found the row deleted), `Binding` (a request's
  account exists and was not deleted when it began) and `PendingRevocation` (the
  sessions that a pending revocation has matched are all the live ones of the
  account, because the lock keeps logins out). `PendingRows` (rows about to be
  inserted belong to the request's account) is inductive on its own and gives
  `NothingGained`. `EmailInv` is the property with `PendingEmails`: an address that a
  transaction has written and not committed is claimed by no other transaction and
  no account, so its commit makes no second one. Theorems: `TypeCorrect`,
  `AuditedOnce`, `OnlyLoginOutlives`, `NotServed`, `RevokesAll`, `NothingGained`,
  `OneAccountPerEmail`.
* `SessionLifetimeProofs`. `Backs(t)` says that the row expires no earlier than a touch
  at `t` would make it. `IInv` has that the row backs its `last_seen_at` up to `Lag` and
  the latest use up to `Slack`, and of a request in flight that the `expires_at` it
  loaded is still there or the row backs the request's start up to `MaxDelay`
  (`InFlight`). `CommitKeepsRow` is the heart: a touch that leaves out `expires_at` and
  was due by the interval has loaded the absolute limit, and if two requests fit into
  the interval the row still has it. Theorems for both limits, for the slack of a
  session in use, and for revocation.
  `LifetimesBehindAudit` carries them over to the session with its audit, by
  `AuditImplements`: hiding the audit, every step of `AuditSpec` is a step of
  `SessionLifetime` or a stutter. For the audit, `AInv` adds `Mutex` (who is at `read`
  or `write` holds the lock) and `ReadStands` (what the holder read is still what the
  log says, unless the row was pruned): `ReplaysAreCounted`, `WindowsAreApart`.
  `AddressesAreCounted` needs what a row says of the addresses merged into it
  (`RowTells`): while they fit, the remembered list is a list of them without
  repetition, and the count is at least their number for ever.
* `RateLimiterProofs`. `IInv` says of each ordered dictionary that its order has no
  repetition and names exactly the keys with a bucket, that deques are sorted and
  past, that the order of keys is that of their latest records, and that there are
  at most `Cap`. The last but one is what makes eviction from the front enough: if
  the first bucket is live, all are. Lemmas say what trimming, removing, moving to
  the end and evicting do to the order and to the unexpired records, and each action
  is then a step of `SlidingWindow` or a stutter. `OvershootIsBounded` counts, for
  each key, its records and the requests in flight: a check passes only below the
  limit, and a record takes a request out of the flight. Theorems: `TypeCorrect`,
  `CapIsKept`, `WindowIsImplemented`, `OvershootIsBounded`.
* `RedisLimiterProofs`. A worker's failures since the last success or cooldown, plus
  the requests that wait for Redis, stay within the bound: each waiting request may
  fail once more. While the circuit is closed the bound follows from the failure
  count alone (`BreakerOk`), which is why letting a further request in is harmless
  (`OutageIsCheap`). `WindowIsKept`: a key's counts agree with what Redis was told
  for every age in the window, and its TTL outlives them. `OwnCountersOnly` follows
  from the stops of the scan: the address that the first trusted proxy appended is
  the last element that is not a proxy's. `OvershootIsBounded` ties what a check under
  way has counted to the records and the requests in flight, with the late commands
  counted apart. Theorems besides: `TypeCorrect`.
* `ProviderCacheProofs`. `Answers`: an answer under way holds a key that was current
  when it was given, no longer ago than the load began. `Entry`: the time since a
  cached key was withdrawn plus the lifetime left is at most the TTL, because
  lifetimes run from the start of the load (`TrustIsBounded`). `CachesHeal` has an
  invariant of its own, `HInv`: an answer that tells of an outage, bad metadata or an
  old key is no older than its load (`Told`); what a cache remembers of them has less
  left than the time since they ended allows, a cached old key leaves no cooldown
  once the provider has been quiet for `Cooldown + MaxLoad`, and has expired once it has
  been quiet for `Ttl`, which is what a token without a `kid` waits for (`Remembered`); and a calm
  call is answered with what the provider publishes (`Calm`). Theorems besides:
  `TypeCorrect`.
* `CsrfTabsProofs`. `Waits`: a call that waits, waits for a fetch under way and has
  missed whatever its owner has missed; the owner of a fetch waits for it. `Fetches`: a fetch that nobody disturbed was made
  with the cookies of the jar and ends with a token that the session is bound to.
  `Goes`: a call that nobody disturbed holds a token and, from the forced fetch on, one
  that passes the middleware, so its second `ensureCsrfToken` finds the cookie. A session that expires meanwhile only makes that
  easier (`Fades`). Theorems: `TypeCorrect`, `RetryIsEnough`.
* `RoleChangesProofs`. The invariant ties a transaction's deleted and inserted rows to
  what it computed, and the lock of the `users` row to the labels after its write.
  Theorems: `TypeCorrect`, `LockOrder`, `GrantsAreTrue`, `LossIsTold`.
* `OidcFlowProofs`. `ConsumerInv` is the heart: among the requests that have passed
  the consumption of a flow and not ended there is one per flow, its row is no
  longer open, and no session has been opened by the flow. It needs `FlowCalls`
  and `CookiesInv` (a request's flow was started by its browser), `OpenedInv` (a
  session's flow is used up) and, for the proofs that sessions, requests and
  deletions carry, `ProofsInv`, `RedeemedCalls`, `DeleteCalls` and `ErasuresInv`.
  Each lemma states what an action changes and then treats the parts of `IInv`.
  Theorems: `TypeCorrect`, `SingleUse`, `BrowserBound`, `ProofBound`,
  `DeletionFresh`.

Every invariant, every action property and every refinement that a passing run
checks is also a theorem.

Model-checked only. Liveness under fairness is out of the prover's reach:
`EveryRequestEnds`, `EveryChangeEnds`, `EveryCallEnds` and `Recovers`. The three
violations are counterexamples.

## 5. Not modelled, and why

* In Accounts: `update_current_user` writes only the language; the permission
  check of administrators; audit rows other than USER_MARKED_DELETED; row locks
  of tables other than `users` (a deadlock that PostgreSQL detects there is an
  `Abort`); session expiry, which is SessionLifetime's.
* In RoleChanges: the roles of a new account, which nobody else sees before the
  commit; the resolution of permissions, a union over a static catalog.
* In RedisLimiter: `aclose`, `reset_for_tests` and the throttling of warnings.
* HTTP controllers beyond the cookies they set, error mapping, dependency injection,
  validation of settings, migrations and seeding of an empty database: stateless or
  run once.
* Cursor pagination of sample items: two read-only queries on an index; update and
  delete of an item touch a single row of its owner.
* Password hashing, JWT decoding, HTTP, PostgreSQL and Redis themselves: library
  code, modelled by its outcome where a model needs it.
* Frontend rendering, the route guard and the query cache.

## 6. Plan

1. Cursor pagination against the list it enumerates while rows are inserted and
   deleted.
2. A run of `RedisLimiter` with the second check of a registration, once an instance
   of it is small enough.
