# Formal models of kirino

kirino is an authentication and authorisation library for Rust: identities,
passwords and tokens, role-based access control with a decision cache, sessions,
invitations and a trust-based arbiter. This directory holds TLA+ models of the
parts of it whose correctness depends on what runs *between* two of their steps,
the TLC configurations that check them on small instances, and TLAPS proofs of
the central properties for every size.

Source paths below are relative to the repository root (`src/rbac/...`,
`packages/session/...`). `PROJECT.json` maps every definition to its lines.

Everything stateful in kirino is `async`: an operation is a sequence of critical
sections on `RwLock`s, or of awaited store and database calls, and anything can
run between two of them. The models follow one rule: **one action per atomic
piece of an operation, that is, per awaited store, cache or lock access**. What
the code does between two awaits without touching shared state belongs to the
action before it.

## 1. Inventory

| Component | State | Operations | Hard behaviour | What makes it correct | Module |
|---|---|---|---|---|---|
| Permission engine (`src/rbac/engine.rs`, `cache.rs`, `store/memory.rs`, `store/registry.rs`) | role assignments, extra and denied permissions, TTL cache | check, check_batch, check_hierarchical, effective_permissions(_hierarchical), writes, invalidations | four awaits per check; writes and invalidations in between; store errors; eviction | answers equal what the stores say, errors fail closed, a stale decision lives at most the TTL | `RbacEngine` |
| Refresh rotation (`packages/session/src/manager.rs`, `revocation.rs`, `token.rs`) | revoked session ids with times | issue_pair, refresh, refresh_rotating, revoke, is_revoked, cleanup | racing rotations, clock leeway, pruning at the cap, restart | a refresh token is rotated once while it verifies | `RefreshRotation` |
| Token revocation (`src/auth/credential/basic.rs`, `src/database/db_revocation.rs`) | "not before" times per user, jti and session | issue, verify_with_revocation, revoke_*, cleanup | three lookups one await apart, overwriting writes, failed table access, second-resolution clocks | a completed revocation is seen by every later verification | `JwtRevocation` |
| Account service (`src/service/login/mod.rs`, `src/database/memory.rs`) | users, roles, first-user latch | register, login, change_password, delete_user, logout | concurrent first registrations, failures after the latch, restart | one first user; an install has an administrator | `Accounts`, `JwtRevocation` |
| Rate limiters (`src/service/login/mod.rs`) | attempts per key | check_and_record_failure, reset | window rollover, pruning at the cap, attempts in flight | a lockout lasts its time | `LoginRateLimiter` |
| RBAC sessions (`src/rbac/session/mod.rs`, `db.rs`, `src/database/db_session.rs`) | sessions or rows, subject versions | create, activate, deactivate, destroy, cleanup, revoke_all, bump_version | a lock held over awaits; read-modify-write on rows; two reads at creation | separation of duty, deactivation and destruction last, bumps invalidate | `SessionManager` |
| Role hierarchy (`src/rbac/hierarchy/mod.rs`) | none | resolve_role_chain, detect_cycle, registration | cycles, diamonds, dangling names | the walks end and are exact on every graph | `RoleHierarchy`, resolution also in `RbacEngine` |
| Constraints (`src/rbac/constraints/`) | policies | add_*, remove_*, validate_assignment, validate_activation | validation is not atomic with the assignment; policies edited under it | SSD, cardinality, prerequisites, windows | `Constraints`, DSD in `SessionManager` |
| Arbiter and trust (`src/rbac/dynamic/`) | frozen subjects, trust scores, policy, detectors | authorize, lockdown, restore, feedback, set_policy, decay | score read-modify-write against lockdown and decay; two lock acquisitions in one call; failing store | a locked-down subject is denied; faults never add trust; calls answer; trust ages | `Arbiter`, `TrustScores`, `TaskDomains` |
| Anomaly detector (`src/rbac/dynamic/anomaly.rs`) | window, history, baseline | observe, with_baseline, rebuild | limits of three sequences | the window is recent, the baseline is the warm-up | `AnomalyWindow` |
| Audit pipeline (`src/rbac/audit.rs`) | bounded event buffer, rules, cooldowns | log, evaluate, add_rule, remove_rule, query, analyze | snapshot written back after an await; panicking hooks | nothing but the oldest is lost; alerts justified and delivered; one trigger per cooldown | `AuditPipeline` |
| Grant resolution, scopes, workspaces (`src/rbac/grant_resolution.rs`, `scope.rs`, `workspace_guard.rs`) | grants, denials, members | fold_tiered, resolve, check_permission, workspace check | precedence of tiers, wildcards and denials | agreement with a declarative reference; monotony | `GrantResolution`, `ScopedAccess` |
| Password policy (`src/rbac/policy.rs`, `src/service/login/policy.rs`) | password states | change_requirement, put, adoption | hash and state written one after the other, crashes, skewed clocks | the bootstrap password never passes | `PasswordRules`, `LoginFlow` |
| Invitations (`src/invitation/`) | invitations with status, token index | create, open, accept, revoke, expire_stale, normalize_code | expiry against status, 300 s window, two tables | admits `max_uses` people, one where that is 0; before its expiry and, once opened, within the store's own window | `Invitations`, `InviteCodes` |
| Single-use stores (`one_time`, `captcha`, `pow`, WebAuthn challenge, `code_store`, HOTP counter, `packages/session/src/one_shot.rs`) | pending or used tickets | issue, verify, sweep, evict | two consumers of one ticket, pruning, caps, attempt limits | used at most once, bounded, nobody displaced | `SingleUseStores` |
| Presence (`packages/session/src/presence.rs`) | connections | connect, touch, remove, drop, sweep, queries | cutoff sampled before the lock | no active connection is swept; the figures add up | `Presence` |
| Visitor tickets (`src/auth/visitor.rs`, `src/local.rs`) | identities, revocations | issue, verify, renew, revoke | revocation between admission and renewal, crash of the store | a revoked visitor stays out, renewals end | `VisitorTickets` |
| Key profiles (`packages/session/src/config.rs`, `manager.rs`) | keys per node | resolve, issue, verify, jwks | nodes at different stages of a rotation | rotation is seamless, no profile falls back | `TokenProfiles` |
| WebAuthn (`src/auth/passport/webauthn/`) | credential with signature count, challenges | registration, assertion (two verifiers), parsing | handlers racing over one count, cloned devices, lengths of CBOR items | a challenge signs in once, a copy is noticed | `WebAuthnCeremony`, `CborLengths` |
| Source filters (`temporary_whitelist.rs`, `network_source.rs`) | whitelist entries, networks | add, remove, is_whitelisted, contains | clock sampled before the lock; prefixes 0 and full width | an answer was true at some instant of the call; masks exact | `TemporaryWhitelist`, `SourceFilters` |
| Login flow (`src/service/login/mod.rs`) | user row, sessions, revocations, tokens | login, login_with_session, change_password, delete_user, logout | the clock sampled before the backend is awaited; overwritten and lost revocations; several awaited stores per call, each may fail | a returned logout, change or deletion has cut off what was issued by the second it read, unless its write was lost or raced an older one in the map | `LoginFlow` |
| Persistent stores, subjects and permissions, static passports, verification transports, middleware, macros, TypeScript client | | | | | not modelled, see section 8 |

How they interact: `AuthService` calls the limiters, the user database, the
assignment store and `JwtManager`; `logout` also destroys a session. The engine
and the session managers share the assignment store and keep derived state (cache
entries, active roles) that a write to it does not touch. `TokenManager` of
`packages/session` is a separate token system with its own revocation store.

## 2. The modules

| Module | Models | Extends | Checked by | Proved in |
|---|---|---|---|---|
| `RbacEngine` | `RbacEngine` + `TtlPermissionCache` + `InMemoryAssignmentStore` | | `MCRbacEngine` | `RbacEngineProofs` |
| `RefreshRotation` | `TokenManager` + `RefreshRevocationStore` | | `MCRefreshRotation` | `TicketsProofs` |
| `JwtRevocation` | `JwtManager` + both backends + their callers in `AuthService` | | `MCJwtRevocation` | `JwtRevocationProofs` |
| `SessionManager` | both session managers, the session table, DSD | | `MCSessionManager` | `SessionManagerProofs` |
| `LoginRateLimiter` | one or more limiters; also the abstract specification of what they promise | | through `MCAccounts` | `LoginsProofs` |
| `Accounts` | `AuthService` registration, login, deletion | `LoginRateLimiter` | `MCAccounts` | `LoginsProofs` |
| `TrustScores`, `TaskDomains` | trust, risk and policy arithmetic; path drift | | through `Arbiter` | |
| `Arbiter` | `AuthorizationArbiter`, the trust store, the decay worker | both of the above | `MCArbiter` | `ArbiterProofs` |
| `AuditPipeline` | sink, rule engine, hooks, analyzer | | `MCAuditPipeline` | `AuditPipelineProofs` |
| `LimitedUse` | abstract: a ticket is used at most as often as it is worth | | as a PROPERTY in `MCTickets` | |
| `SingleUseStores` | eight stores behind one shape | refines `LimitedUse` | `MCTickets` | `TicketsProofs` |
| `Invitations` | `InMemoryInvitationStore` | refines `LimitedUse` | `MCTickets` | `TicketsProofs` |
| `VisitorTickets`, `Presence` | tickets; connection leases | | `MCTickets` | `TicketsProofs` |
| `RoleHierarchy` | the two walks over the role graph | | `MCDecisions` | `DecisionsProofs` |
| `GrantResolution` | the fold over grant rows | | `MCDecisions` | `DecisionsProofs` |
| `Constraints`, `PasswordRules`, `AnomalyWindow` | constraint policies; password rules; the detector's window | | `MCDecisions` | `DecisionsProofs` |
| `ScopedAccess` | scoped grants and workspaces | | `MCDecisions` | |
| `LoginFlow`, `WebAuthnCeremony`, `TokenProfiles`, `TemporaryWhitelist` | the protocols of a login | | `MCLogins` | `LoginsProofs` |
| `CborLengths`, `InviteCodes`, `SourceFilters` | the inputs of a login: binary items, typed codes, network lists | | `MCLogins` | |

`MCTickets`, `MCDecisions` and `MCLogins` hold components that share no state. They EXTEND
those with a theorem, INSTANCE the others, and choose one per behaviour (`scenario`, fixed
in the initial state); the variables of the others stay at rest. Such a run is the union of
the components' own runs. Modules that a run and a proof module extend together name their
parts apart (`StoresInit`, `FlowNext`, `AnomalySpec`), so that the run and the theorem
speak of the same definition.

Conventions common to all modules. A call in flight is a record in a function
from call (or task) names, whose `at` field names the await it is about to pass.
Variables and fields marked *ghost* are history for the properties: no guard
that stands for code reads one, except where an id's freshness is meant (a uuid
is drawn once: `destroyed`, `created`). Operators introduced as "a plausible
slip" are mutated forms of the operator after them and belong to no
specification. Time is an integer clock that `Tick` (or `Elapse`) advances
nondeterministically; the code's comparisons (`<`, `<=`) are kept exactly, which
is where most of the boundary cases live.

### RbacEngine
State: `roles`, `extra`, `denied` are the three maps of the assignment store,
`cache` the entries of `TtlPermissionCache` with expiry, `task` the calls.
`check` is `Start`, `CacheGet`, `ReadDenied`, `ReadExtra`, `ReadRoles`,
`CacheSet`; each read may fail. `check_batch` is several tasks at once. The two
listings are `ListRoles`, `ListExtra`, `ListDenied`. `CacheSet` includes the
whole eviction of `set`: expired entries first, then the soonest expiry.
`Reachable` defines `resolve_role_chain` as a least closed set, so that cycles
need no depth bound and the module can be proved about.

### RefreshRotation
`refresh_rotating` is `VerifyRefreshClaims`, `SampleNow`, `CheckAndRevoke`,
`IssueRotated` (or `IssueFails`). `CheckAndRevoke` is one action because the code
holds the store's write lock. The clock can advance between verification and the
sampling of `now`, as it can in the code.

### JwtRevocation
A revocation samples the clock (`Sampled`) and later writes (`BackendRevoke`);
`Recorded` gives the memory backend's overwrite-and-prune and the table's
greatest-wins upsert. A verification is `VerifyBegin` and one `Lookup` per key;
the table's read and write failures are actions of their own because the code
swallows them. `delete_user` goes on to remove the account.

### SessionManager
`manager` says which manager a behaviour is about and whether it has a constraint
store. `LockFree` models the write lock of the session map, which the memory
manager's `activate_role` keeps through two awaits. The database manager loads a
row, awaits, and replaces its role list. `torn` marks sessions whose creation a
revocation overlapped.

### LoginRateLimiter and Accounts
Each limiter call is one action, with the pruning at the cap, the rollover of the
window and the lockout. `Accounts` adds the calls of `AuthService` around them;
`Register` to `Registered` follow `register` and `register_impl` await by await.
Accounts are looked up by exact name while the limiter key is lower-cased:
`Normalise` maps one to the other. `Restart` keeps the database and loses latch
and buckets.

### TrustScores, TaskDomains and Arbiter
Scores and risks are thousandths; `Weighted`, the five risk components and the bands
of `DynamicPolicy` are computed as in the code, rounding aside. `authorize` is
`AuthorizeStart` (the frozen set, read and released), `RiskTrust`, `RiskAnomaly` and
`Decide`; between the first two and the last it holds and gives back the policy's read
lock (`Readers`), for which `SetPolicy` queues (`waiting`). `feedback`, `lockdown` and
`restore` are read and write steps with a failing store in both; the decay worker lists
the ids, then reads and writes record by record. `Restart` ends all tasks and keeps the
store. The anomaly detector is its warm-up count and an arbitrary deviation afterwards;
its own bookkeeping is `AnomalyWindow`.

### AuditPipeline
`log` is `LogAppend`, `EvalStart` (rules and cooldown table copied, clock read once),
one `EvalRule` per rule, `EvalStore` (the whole copy written back) and `LogHooks`.
`query`, `count` and the analyzer only read and are operators, compared with each other
over every content of the sink.

### LimitedUse, SingleUseStores and Invitations
`LimitedUse` has two variables: what is `left` of each ticket and how often it was
`spent`; `Issue`, `Use` and `Void` are all that can happen. `SingleUseStores` keeps one
`table`, read by the operations of whichever store the behaviour is about; its
`TicketsLeft` says that a ticket is worth one use while the code would still accept it.
Every step of every store must then be a step of `LimitedUse` (`SingleUse`), and so
must every step of the invitation store, whose tickets are worth `max_uses`, and one
where that is 0 (`Worth`, `AdmitsAsInvited`). Stores with two lock sections (proof of work,
WebAuthn) and the load and exchange of the HOTP counter are split there. An invitation is
created from `CreateParams`, `open_window` among them, which `Create` drops as the code
does; the ghost `asked` keeps it for `WindowAsAsked` (section 4).

### VisitorTickets, Presence, TemporaryWhitelist
The three share a pattern: a reading (an identity, a cutoff, the clock) is taken before
the lock or the await at which it is used. Each reading is a step. In `VisitorTickets` the
ghost `retired` holds the issued ids whose revocation has returned; unlike the store's own
flags (`revoked`) it survives `StoreCrash`, and a call notes at its start whether its id is
in it (`doomed`), so that `RevokedStaysOut` is about what was promised to the caller of
`revoke` and not about what the store still remembers. A query of `Presence`
notes which connections were held and active when it counted (`counted`), so that
`FiguresHonest` compares each figure with sets and their cardinality. The whitelist is a
set of entries with at most one per source, as `add` replaces what it finds; a call of
`is_whitelisted` notes with every step what it could rightly have answered there (`yes`,
`no`).

### RoleHierarchy, GrantResolution, ScopedAccess
`RoleHierarchy` runs the loop of `resolve_role_chain` pop by pop and the recursion of
`dfs` as a stack of frames, over every graph; parents are taken in any order.
`GrantResolution` takes the rows in any order. `ScopedAccess` builds up grants,
denials and memberships by calls and compares both resolvers with a reference after
every call.

### Constraints, PasswordRules, AnomalyWindow
`validate_assignment` is one step per policy list, between the caller's reads and the
caller's `Commit`; edits and `StoreRestart`, which empties the in-memory store, fall
anywhere. The ghost field `alone` ends with the first change of what a call reads.
`PasswordRules` writes hash and state in two steps with `Crash` in between, over durable
and volatile state stores and both adoption modes. `AnomalyWindow` keeps the three
sequences and a baseline of counts; `observed` is the history they are compared with.

### TokenProfiles, WebAuthnCeremony, CborLengths, InviteCodes, SourceFilters, LoginFlow
A key is a name. `TokenProfiles` resolves the key set of every configuration and moves
two nodes through a rotation; its `NoFallback` speaks of every configuration and of no
variable, so the run evaluates it over all key slots. `WebAuthnCeremony` has two devices with one key, two
handlers, and both verifiers; `CborLengths`,
`InviteCodes` and `SourceFilters` are pure and checked over all bounded inputs against a
generator of well-formed ones or a reference (`sample` is the input).

`LoginFlow` composes `AuthService` with its session manager and revocations, one step per
await. A revocation reads the clock in one step (`RevokeAllForUser`, `DeleteBegin`,
`LogoutBegin`, through `Sampled`) and reaches the backend in another: `RecordRevocation`
overwrites the map's entry or raises the table's (`Recorded`), and `RevocationLost` is the
table's failed write, after which the call goes on as if nothing had happened. Only then
come `UpdatePassword`, `RemoveUser` or `DestroySession`, and the ghost `finished` takes down
what has returned, with the second it read and whether it was `sure`. The other awaited
stores and the signing fail in `FlowStoreFails`. A logout takes any session id, also one
whose token is still to be issued or that was never created. What the module leaves to
others: the lookups of a verification, failed reads, cleanup, the map's cap and restarts
(`JwtRevocation`), session expiry, cleanup and mass revocation (`SessionManager`), and the
rate limiter (`Accounts`).

## 3. The runs

| Run | Checks | Shows |
|---|---|---|
| `rbac_check` | `CacheAgreesWithStore`, `FailClosed`, `AnswerAgreesWithStore`, `RevocationWindow`, `InvalidationCloses` | two racing checks of one permission against all writes, invalidations, errors and expiry |
| `rbac_effective` | `AnswerAgreesWithStore`, `CacheBounded` | flat and hierarchical checks and listings agree; the cap of one entry holds with two keys |
| `rotation_once` | `RejectedWhileVerifiable`, `OncePerLifetime` | racing rotations, prune at a cap of one, cleanup, restart |
| `jwt_revocation` | `RevocationLasts`, `RevokedIsRejected` | both backends, failed reads and writes, cleanup, restart |
| `jwt_overwrite` | violates `RevokedStaysRejected` | an older revocation overwrites a newer one in the map |
| `sessions` | `DutiesSeparated`, `EndingsLast`, `RevokedRolesGoStale` | both managers, with and without constraints |
| `accounts` | `OneFirstUser`, `LockoutHolds` | two calls, names differing in case, failures, restarts, caps |
| `arbiter` | `LockdownHolds`, `FaultsOnlyLower`, `AuthorizeAnswers`, `TrustAges` | authorize, feedback, lockdown, restore, policy changes, decay, a failing store and a restart at once |
| `audit` | `CooldownWhenSequential`, `NothingLost`, `AnalysisAddsUp` | two concurrent log calls over a full sink, rules added and removed, a hook that panics |
| `tickets` | `SingleUse`, `AdmitsAsInvited`, `StoresBounded`, `VisitsEnd`, `PresenceHonest` | everything that hands out tickets; `SingleUse` and the first part of `AdmitsAsInvited` are refinements of `LimitedUse` |
| `decisions` | `WalksExact`, `WalksEnd`, `OrderFree`, `ScopesAsStated`, `AssignmentsObey`, `TemporaryNeverPasses`, `DetectorHonest` | the walks on all graphs of three roles, grant rows in all orders, scoped grants, racing assignments, password rules over crashes, the detector's window |
| `logins` | `KeysRotateSafely`, `CeremonyHolds`, `InputsRead`, `AnswersHonest`, `TokensCutOff` | key rotation over two nodes, racing WebAuthn requests, parsing, filters, the login flow over both revocation backends with failing stores and lost writes |

A property of an aggregated run gathers the named parts its component's module
states, the type invariant among them:

| Property | Parts |
|---|---|
| `EndingsLast` | `DestroyedStaysGone`: no activation that had loaded a destroyed session brings it back; `DeactivationLasts` |
| `FaultsOnlyLower` | `ErrorsOnlyLowerTrust`: a failing store or a missing record never makes a delegator more trusted than the record it hides; the ranges of scores |
| `NothingLost` | `SinkKeepsNewest`, `RapidDenialsJustified`, `AlertsReachHooks` (past a panicking hook) |
| `AdmitsAsInvited` | refinement of `LimitedUse`, and `AcceptStep`: an acceptance comes before the invitation's expiry and, if a Direct invitation was opened, at most the store's window after its first opening; a Direct invitation that nobody opened may be accepted until it expires |
| `StoresBounded` | `TriesBounded`, `TableBounded`, `NotDisplaced` |
| `VisitsEnd` | `RevokedStaysOut`: no call succeeds that began after a revocation of its id returned, restarts of the store included; `ChainEnds` |
| `PresenceHonest` | `FiguresHonest`, `ActiveStay` |
| `WalksExact` | `ChainExact`, `CycleExact` |
| `ScopesAsStated` | `ResolvesAsStated`, `GrantStep`, `MemberStep` |
| `AssignmentsObey` | `UndisturbedObeys`, `OvershootBounded` |
| `DetectorHonest` | `WindowIsRecent`, `BaselineIsWarmup` |
| `KeysRotateSafely` | `SeamlessUnlessKidTargets`, `NoFallback` |
| `CeremonyHolds` | `AcceptedOnce`, `CopyNoticed` |
| `InputsRead` | `ItemsDelimited`, `RecordsParsed`, `CodesReadable`, `NetworksExact` |
| `TokensCutOff` | `LogoutCutsOff`: a returned logout has cut off its session's tokens issued by the second it read; `ChangeCutsOff`: a returned change or deletion all tokens issued by the second after the one it read; both except where the write was lost, or raced an older one in the map |

The type invariants of `RbacEngine`, `RefreshRotation`, `JwtRevocation` and `Accounts`
are proved and not run again. `audit` declares the two log calls symmetric: no action,
property or constant tells them apart.

Every property of a passing run has a mutant, and every part of a gathered one: the
operator named "a plausible slip" or "Mutant" put in place of the code's, under which
TLC finds the property violated.

### Fairness
Three properties speak of progress.

- `AuthorizeAnswers` and `TrustAges` (`Arbiter`). A task that has begun is polled until
  it ends. It gets strong fairness, because what it waits for is a fair lock: tokio's
  `RwLock` queues in order, so a reader waits for one writer and not for every later
  one. The queued writer and the decay worker's timer get weak fairness. New calls,
  faults, restarts and the host's own operations are owed to nobody.
- `WalksEnd` (`RoleHierarchy`). The walks are loops of the calling thread; weak fairness
  says that the thread runs on.

All other specifications let calls stop for ever, which is what a dropped future does.
Deadlock is checked in the runs on `RbacEngine`, `RefreshRotation`, `JwtRevocation`,
`SessionManager` and `Accounts`, where there is always an administrator's write, a
cleanup or a restart to take. The other runs end by themselves (slots used up, clock at
its bound, a walk finished) and say so with `CHECK_DEADLOCK FALSE`; a blocked call in
`Arbiter` is what `AuthorizeAnswers` would report.

### Bounds
Two concurrent calls are the smallest number at which each race here exists: every
operation conflicts with at most one other between two of its own steps (a third
call adds only more of the same). One subject or user is enough where the state
of different subjects never meets; `rbac_effective` has two cache keys, `accounts`
three names and `rotation_once` two sessions, because there entries of different
keys compete for a cap. Clocks reach past the longest lifetime plus leeway of what
was created at time 0, so that expiry, prune and late use all happen
(`RefreshRotation`: 1 + 1 < 4; `JwtRevocation`: 2 + 1 < 4; `RbacEngine`: 2 < 3;
`Accounts`: 1 + 1 and 0 + 2, reached at 2, the last instant of the lockout).
`sessions` runs with a lifetime of 0 and two instants: a session is valid at its
creation and expired afterwards, which is enough for every property there, since
only the guard "expired" depends on time. Caps are 1, so that the second entry
already prunes. `MaxVersion` stands for the 64-bit version counter and is never
a wrap-around. The newer runs follow the same rules: two callers each, lifetimes of one or two
instants and clocks past lifetime plus leeway, caps and sinks of two entries. Three
tickets fill a store of two and force an eviction. Three roles give every shape the
walks distinguish (self-loop, two-cycle, cycle off the start, diamond, dangling name);
the theorems cover the rest. Three subjects and two assigners show an overshoot of one
and that it does not become two. `arbiter` has one delegator (its state never meets
another's except in the detector map, whose cap is one), one outcome (`Success`; the
others move the score by other amounts, and `FaultsNeverAddTrust` is about all of them) and one store fault, and decays in steps of a
full score so that ageing ends within the state space. `tickets` gives a visitor's window
one instant, a presentation token one more of leeway, and a clock that passes both. `logins` uses addresses of two and three bits, codes of a five-letter
alphabet with a letter of each kind the normalisation treats apart, and CBOR items of
nesting three. Its login flow has two calls, one session id and one issued token: the
properties speak of one token and one returned revocation at a time, tokens do not affect
each other, and which login the token comes from is open, because every other one may fail
to issue. `MaxChanges` is one more than the revoking calls that may have returned when the
last one begins: with the value 1 any two of them overlap, which is where one can undo the
other, and a chain of them one after the other is left to the theorem. `LoginCalls` are
symmetric, no action or property tells them apart. The exact numbers of the code (10 000
entries, 60 s of leeway) are constants; where a theorem exists it holds for every value of them.

## 4. What the code does that its text denies

One run ends in a counterexample (`jwt_overwrite`; `PROJECT.json` quotes the lines):
`MemoryRevocationBackend::revoke` overwrites where the table keeps the greatest time
(`basic.rs:75`), so a revocation that sampled its clock earlier undoes a later one.

The following properties are defined in their modules as the documentation states them
(`LoginFlow`'s two, which no text states, as a caller of `change_password` or `logout` would
expect), and TLC refutes each: name it in the cfg in place of the run's properties.

| Property | Cfg | What happens |
|---|---|---|
| `RbacEngine!ErrorsNotCached` | `MCRbacEngine_check` | a failed `roles_of` is cached as a denial (`engine.rs:250`); `engine.rs:27-29` says errors are "deliberately not cached" |
| `RbacEngine!EffectiveImmediately` | `MCRbacEngine_check` | a check in flight stores its answer after the invalidation (`engine.rs:235`); `engine.rs:124-126` says a paired write is "effective immediately" |
| `RefreshRotation!PresentedOnce` | `MCRefreshRotation_once` | a token is verified in its last valid second and `now` sampled in the next (`manager.rs:720`): rotated twice, against "must only ever be presented once" (`manager.rs:697-698`) |
| `SessionManager!NeverASuperset` | `MCSessionManager` | `create_session` reads the roles before the version (`session/mod.rs:254`): a fresh session with a revoked role, against `session/mod.rs:63-64` |
| `Accounts!InstallHasAdministrator` | `MCAccounts` | the first-user latch is swapped before anything can fail and never put back (`login/mod.rs:676`), against `login/mod.rs:425` |
| `Arbiter!LockdownPinned` | `MCArbiter` | the decay worker writes back a record it read before the lockdown's zero (`trust.rs:399`), against "pins a low trust score" (`docs/THREAT_MODEL.md:97`) |
| `AuditPipeline!CooldownRespected` | `MCAuditPipeline` | two evaluations copy the cooldown table before either writes it back (`audit.rs:543`), against "Minimum seconds between two firings" (`audit.rs:153`) |
| `ManagementOwnerOnly` | `MCDecisions` | a Viewer may list `rbac.*` through the read-only suffix rule; `workspace_guard.rs:56-58` keeps such names to the Owner |
| `StoredKeyUsable` | `MCLogins`, `CoseKeys <- MCAllCoseKeys` | registration checks a key's algorithm and not its type, curve or point; `assertion_legacy.rs:129-130` says "bad keys never get stored" |
| `TokenProfiles!RotationSeamless` | `MCLogins`, in place of `SeamlessUnlessKidTargets` | an ML-DSA manager verifies only tokens of its own kid, so with a kid per key the nodes of a rolling rotation turn each other's tokens away; `config.rs:57-59` promises that any listed key verifies |

| `Invitations!WindowAsAsked` (a PROPERTY) | `MCTickets` | `open` and `accept` use a fixed 300 s (`store.rs:173`, `store.rs:225`) and `create` drops `open_window_secs`, which `types.rs:100-101` documents as the invitation's own "Direct-mode window in seconds from first open. Default: 300" |
| `Invitations!AdmitsAtMostMax` | `MCTickets` | an invitation created with `max_uses = 0` admits one person, because `accept` counts the use and then compares (`store.rs:238-239`), against "Maximum number of redemptions" (`types.rs:67`) |
| `LoginFlow!EveryChangeCutsOff` | `MCLogins`, for each of the two `Backends` | a change or deletion that has returned may have cut off nothing: in the map an older revocation overwrote it (`basic.rs:75`), in the table its write failed and was only logged (`db_revocation.rs:55`) while `change_password` went on and succeeded (`login/mod.rs:848-849`) |
| `LoginFlow!NoTokenWithoutSession` | `MCLogins` | a token may point at a session that was logged out: a logout between `create_session` (`login/mod.rs:887`) and the issue of the token (`login/mod.rs:891`) revokes only what is issued by its own second; nor does a verification look at the session |

Seen while modelling, without a property:

- `cache.rs:77-78` bounds a stale answer by the TTL "after a change"; a check the
  change overlapped stamps its entry later, so the bound counts from the store.
  `RevocationWindow` states what holds.
- flat and hierarchical checks use the same cache keys (`engine.rs:212`,
  `engine.rs:371`), so each may serve the other's answer; the cache properties
  speak of the kind of call that computed the entry.
- three reads are not a snapshot: a check overtaken by writes may give an answer
  that was true at no instant (`engine.rs:25-26` promises that denials win).
- the revocation cleanup's cutoff ignores the verifier's leeway
  (`basic.rs:58-59`); the properties stop at the nominal expiry. The one-shot store
  prunes at `exp` in the same way.
- `change_password` revokes before it updates the password, so a login with the old
  password in between gets a token that verifies if it is issued in a later second than the
  one stamped (`login/mod.rs:848`); `ChangeCutsOff` speaks of the tokens issued by that
  second. A login that had checked the old password before the change may be as late.
- a failed write or read of the revocation table is only logged
  (`db_revocation.rs:55`): the caller cannot tell, and a password change or a logout reports
  success (`EveryChangeCutsOff` above). A restart forgets both in-memory
  revocation tables while tokens live on (`packages/session/src/revocation.rs:24`).
- `DbSessionManager` creates every session with version 0 and replaces role lists
  without a lock: activations and deactivations can be lost, and a bump can be
  undone for the newest row (`db_session.rs:82`).
- an expired invitation is relabelled whatever its status, and the two ends of the
  300 s window disagree about the 300th second.
- a cardinality constraint is checked as `count < cardinality` before the assignment and
  described as a bound on holders (`policies.rs:33`); two racing assignments exceed it
  by one (`OvershootBounded`).
- a detector with a window of size 0 keeps one action, and `with_baseline` in the middle
  of the warm-up replaces what was learnt, although the text sees no path to a new
  baseline.
- the jwks document publishes one kid for every key, and the ML-DSA verifier accepts a
  token that names an audience when none is configured (`manager.rs:502-503`).
- registration parses the client data and ignores it (`attestation.rs:118-121`); the
  challenge is checked by the caller.
- the proof-of-work store's cap admits one seed more than it names (`pow.rs:35`).
- the trust store's `sweep_stale` never fires while the decay worker refreshes
  `last_updated`; a violation recorded after a decay can raise the weighted trust,
  because it restores confidence.
- `presence.rs:24` speaks of a lazy sweep where queries only filter.
- `accessible_workspaces` lists direct memberships; its text also names groups.
- a whitelist entry added with a zero lifetime still admits a call that sampled the
  clock before it.

## 5. What is proved

All proofs are by an inductive invariant, stated in the component's module and preserved
action by action. TLC has checked each of these invariants on the instance of the
component's run.

| Module | Theorem | Run property | Invariant |
|---|---|---|---|
| `RbacEngineProofs` | `CacheSound`, `FailsClosed`, `AnswerSound`, `WindowBounded`, `InvalidationSound`, `CacheStaysBounded` | `CacheAgreesWithStore`, `FailClosed`, `AnswerAgreesWithStore`, `RevocationWindow`, `InvalidationCloses`, `CacheBounded` | `IndInv` |
| `TicketsProofs` | `StoreRemembers`, `RotatesOnce`; `TicketsAreSingleUse`, `StoresStayBounded`; `InvitationsAdmitAsInvited`; `VisitsDoEnd`; `PresenceIsHonest` | `RejectedWhileVerifiable`, `OncePerLifetime`; `SingleUse`, `StoresBounded`; `AdmitsAsInvited`; `VisitsEnd`; `PresenceHonest` | `IndInv` (rotation), `StoresInv`, `InvitationsInv`, `VisitorsInv`, `PresenceInv` |
| `JwtRevocationProofs` | `RevocationsLast`, `NoRevokedTokenAccepted` | `RevocationLasts`, `RevokedIsRejected` | `IndInv` |
| `SessionManagerProofs` | `SessionsSeparateDuties`, `WhatEndsStaysEnded`, `RevokedRolesExpire` | `DutiesSeparated`, `EndingsLast`, `RevokedRolesGoStale` | `IndInv` |
| `LoginsProofs` | `FirstUserUnique`, `AccountsUseLimiters`, `AccountsLockOut`; `TokensAreCutOff`; `CeremonyAlwaysHolds`; `KeysRotateSafelyAlways`; `WhitelistAnswersHonestly` | `OneFirstUser`, `LockoutHolds`; `TokensCutOff`; `CeremonyHolds`; `KeysRotateSafely`; `AnswersHonest` | `AccountsInv`, `LimiterInv`, `FlowInv`, `CeremonyInv`, `ProfilesInv`, `WhitelistInv` |
| `ArbiterProofs` | `LockdownIsFinal`, `FaultsNeverAddTrust` | `LockdownHolds`, `FaultsOnlyLower` | `IndInv` |
| `AuditPipelineProofs` | `TrailIsComplete`, `CooldownsHoldSequentially` | `NothingLost`, `CooldownWhenSequential` | `IndInv` |
| `DecisionsProofs` | `WalksAreExact`, `ResolutionOrderFree`, `BootstrapRefused`, `DetectorIsHonest`, `AssignmentsAreChecked` | `WalksExact`, `OrderFree`, `TemporaryNeverPasses`, `DetectorHonest`, `AssignmentsObey` | `WalkInv`, `ProbeInv`, `FoldInv`, `PasswordInv`, `AnomalyInv`, `ConstraintsInv` |

**RbacEngineProofs** proves `TypeOK`, `CacheAgreesWithStore`, `FailClosed`,
`AnswerAgreesWithStore`, `RevocationWindow` and `InvalidationCloses`. None is
inductive alone: a cache entry agrees with the stores only because the call that
stored it did. `IndInv` therefore says what a call in flight has established at
each await, as long as no write overtook it (`ProgressOK`): past the first read
the permission is not denied, past the second it is not an extra grant either,
and at the store step the answer is the reference `Effective`. A write ends that
knowledge for every call and entry of its subject (`MarkStale`), a store step
hands it from call to entry. `RevocationWindow` needs that no entry expires later
than `now + Ttl`; `CacheBounded` counts: a store step that finds the cache full has
evicted an entry first. The theorems hold for every registry, hierarchy (cyclic ones
too), set of failing reads, TTL and cap.

**TicketsProofs** is about everything that is handed out to be used a limited number of
times.

*Rotation*: `TypeOK`, `RejectedWhileVerifiable` and the action property `OncePerLifetime`.
`IndInv` adds that an entry is never older than its token and that a call's sampled time
lies between the token's issue and the clock. From that, an entry of a token that still
verifies is inside the window: it is neither pruned nor cleaned up, nor overlooked.

*Single-use stores*: `TicketsAreSingleUse` is the refinement `StoresSpec => SingleUse`: in
each of the eight stores, every issue, verification, sweep, prune, eviction and clock tick
is a step of `LimitedUse` or a stutter, one lemma per store. The steps need `StoresInv`: an
entry is found under its own ticket (`Keyed`), carries the times of its issue (`Dated`) and
has counted every answer it was compared with (`Counted`), and a ticket not yet issued is
untouched (`Fresh`). The one-shot store keeps used JTIs instead of unused ones: there an
entry may only be pruned once its JTI would no longer verify. `StoresStayBounded` needs
two arguments about cardinality: a table that inserts after an eviction stays within `Cap`
(one more for the proof of work, as the code has it), and whatever was evicted to make room
had `Cap` tickets issued no earlier (`NotDisplaced`).

*Invitations*: `InvitationsAdmitAsInvited` is the other refinement of `LimitedUse`, with a
ticket worth `max_uses`, or one where that is 0, joined by the action property about the
expiry and the store's window. `InvitationsInv` says that an invitation in a usable status
has an admission left and that an opened one knows when. Nothing is proved about the window
an invitation was created with: the store does not keep it (section 4).

*Visitor tickets*: `VisitsDoEnd`. What `revoke` has returned for is `retired`, and no restart
takes that back. The invariant is that the store flags a retired principal for as long as it
holds it: a restart loses flags and principals together, and an id is issued only once, so
a call that began after the revocation finds the flag at the gate or nothing at all. Every
principal ends `InactivityWindow` after its own issue, whatever was renewed
(`VisitorsInv`).

*Presence*: `PresenceIsHonest`. A cutoff that was read is at least `IdleTimeout` old and
only gets older, and a connection not remembered as quiet was touched later than that
(`PresenceInv`); so neither a sweep nor a query misses it. The figures are cardinalities
of partitions of the counted connections.

**JwtRevocationProofs** proves `TypeOK`, `RevocationLasts` and `RevokedIsRejected` for
both backends. That a revocation on record is not undone or cleaned away before the
token expires needs the order of three times: a token's issue, the stamp its revocation
sampled, the clock (`IssuedInPast`, `StampsInOrder`). The cleanup window, no shorter than
a lifetime by `JwtAssumption`, does the rest. A verification is three lookups, so `PassedIsOver`
keeps, lookup by lookup, that a key already passed had no revocation that still counts.

**SessionManagerProofs** proves the three properties of the run, for both managers.
`DutiesSeparated` needs every list a call is about to store to have been checked
(`ListsChecked`). `DeactivationLasts` is the memory manager's write lock held through two
awaits: one activation at a time, and what it read still stands (`LockExclusive`,
`LockedView`). `RevokedRolesGoStale` needs the version order (`VersionsBehind`) and that a
session at its subject's current version, and an activation about to be written into one,
holds no settled role (`CurrentIsClean`); a creation hands over assigned roles unless a
revocation overlapped it (`CreationsHold`).

**LoginsProofs** first proves `LimiterLocksOut` for `LoginRateLimiter` alone:
the bucket of a locked key is there, full, and its last attempt lies inside its
window (`LimiterInv`), so it survives the prune, does not roll over, and refuses.
Then `AccountsUseLimiters` (`Spec => LimiterSpec`): every step of `Accounts` is a
step of the limiter or leaves it alone, so the lockout carries over
(`AccountsLockOut`). `FirstUserUnique` rests on `AccountsInv`: whoever won the
latch is alone until it returns, the latch is set while there is a winner, and
as long as the winner has not assigned its role nobody else has it. A restart loses
the latch but also every call; the count of users does the rest.

On `LoginFlow` it proves `TokensCutOff` for any number of concurrent calls, sessions and
passwords and both backends. `FlowInv` says that a revocation that is sure is on record, and
stays there (`RevocationsStand`, `OnRecord`). In the table that is because an entry is only
ever raised. In the map it needs a second half, about the calls that have read the clock and
not yet written: none of the same key read an earlier second. That holds when a sure
revocation is written, by the meaning of `sure`; a call that reads the clock afterwards reads
no earlier second; so whatever overwrites the entry later overwrites it by as much or more.
The two exceptions are part of the statement and real (`EveryChangeCutsOff`, section 4), and
a token issued in a later second than the revocation stamped is not promised to die.

On `WebAuthnCeremony` it proves `CeremonyHolds` for every set of challenges, handlers and
origins, both verifiers, with and without a counting authenticator. A challenge in the store
is in nobody's hands and a taken one in one handler's (`TakenOnce`), so it is accepted once.
For the copied device, `OneAtATime`: while no two requests have overlapped, one handler at
most stands between its read and its write, and what it read is the last count settled.

On `TokenProfiles` it proves `KeysRotateSafely` for any number of nodes. `ProfilesInv` says
that nodes are at most one stage apart, that the new key signs only once every node verifies
it, and that a token of the old key has run out before the first node forgets it; each token
has the form some node in the rotation gives it, so `Accepts` comes down to the kid.
`NoFallback` is a statement about every configuration and proved as a lemma of its own.

On `TemporaryWhitelist` it proves `AnswersHonest`. The table holds what was meant
(`TableAsMeant`), and a call in flight has noted what it may yet have to answer
(`NotesKept`): "yes" if its source lives at the instant it sampled, "no" unless the source
has been alive ever since.

**ArbiterProofs** proves `LockdownHolds` and `FaultsOnlyLower`. A locked delegator is frozen
(`LockedIsFrozen`), so an `authorize` that starts under a lockdown is denied at once, and
one that goes on to be scored did not start under it (`TasksOK`). For the faults, the
proof is about arithmetic: the weight of a score, a product, grows with its factors; one
observation gives no more confidence than many; so the default record a failed read
stands for, scored or fed the same outcome, is never above the one it hides. No assumption is made on the size of the delegator set, the policies or the
number of faults.

**AuditPipelineProofs** proves `NothingLost` and `CooldownWhenSequential`. The first adds
that a call holds what it fired until every hook has had it (`AlertsHeld`) and that the
sink's entries are logged ones, finitely many (`SinkOK`, for the counts of
`RapidDenials`). The second is the argument about the snapshot that is written back:
while no two evaluations have overlapped, every alert is in the cooldown table, or in the
copy of the one evaluation under way (`OneEvaluation`, `CooldownsKept`).

**DecisionsProofs**, on `RoleHierarchy`, proves `HierarchyTypeOK` and `WalksExact` for every role graph,
of any size. `Reach` is the least closed set around the start, so neither walk is
compared with a recursion like its own. For the chain, `WalkInv` says that whatever is
visited or pending is reachable and that the parents of what is visited are visited or
pending; with nothing pending the visited set is closed, hence everything. For
`detect_cycle`, `ProbeInv` describes the recursion: the path has no role twice, each
role on it reaches the later ones (so a parent found on the path closes a cycle), and
what is explored and off the path is closed under parents and free of cycles (so
skipping it, as the visited set does, misses none). That is the argument why a diamond
is no cycle and why the visited set does not hide one.

On `GrantResolution` it proves `OrderFree` for every catalog, every set of rows and
every order. The verdict alone is not inductive: a grant that a deny in a narrower tier
has hidden leaves no trace in it. `FoldInv` adds the tier: it is the most specific one
that spoke, and the verdict is the unanimous one of the rows of that tier.

On `PasswordRules` it proves `TemporaryNeverPasses`: while the machine-generated password
is the stored one, no state that survives a crash, or is adopted after one, says that it
was rotated (`StateKept`).

On `AnomalyWindow` it proves `DetectorHonest` for every window size, zero included, and
every minimum. `HistoryIsPrefix` says that the history is a prefix of what was observed,
all of it while there is no baseline and always shorter than the minimum; hence the
baseline built at the minimum is exactly the first observations. The window needs only
lemmas about suffixes of a sequence (`NewestGrows`, `NewestTail`).

On `Constraints` it proves `AssignmentsObey` for any number of concurrent callers. What an
undisturbed call has read still stands, and so does each check behind it (`ReadsStand`).
The bound on the overshoot is a counting argument that no single state suggests: call a
call *admissible* for a constraint if the count it read is below the bound. While the
policies stand, only admissible calls commit, and holders plus admissible calls stay
below the bound plus the number of callers (`RoomTaken`): a new call is admissible only
while the holders are below the bound, and a commit turns one admissible call into at
most one holder.

Assumptions are those named in the modules (`EngineAssumption`, `RotationAssumption`,
`JwtAssumption`, `SessionAssumption`, `LimiterAssumption`, `AccountsAssumption`,
`ArbiterAssumption`, `RequestAssumption`, `AuditAssumption`, `RuleAssumption`,
`HierarchyAssumption`, `GrantAssumption`, `PasswordAssumption`, `AnomalyAssumption`,
`ConstraintsAssumption`, `StoresAssumption`, `InvitationsAssumption`, `VisitorsAssumption`,
`PresenceAssumption`, `FlowAssumption`, `CeremonyAssumption`, `ProfilesAssumption`,
`WhitelistAssumption`): sets are not empty where an element is chosen, numbers are
naturals, lifetimes, caps, attempt limits and the warm-up minimum are positive, distinguished
values (no session, no key, anonymous) are none of the ordinary ones, constants have
the types of the code's arguments, and what is counted (a policy's roles, subjects,
callers, connections) is finite. Three say more. `JwtAssumption` has the auto-cleanup window
at least as long as a token lives. The code does not enforce it: `JwtManager` warns about a
longer lifetime (`basic.rs:129`), whose revocations the prune can drop, and the theorems are
about configurations it does not warn about. `AnomalyAssumption` has a supplied
baseline of at least one sample, because a count of zero stands for the code's `None`.
`WhitelistAssumption` leaves out a lifetime of zero, the exception section 4 names.

## 6. What is only model-checked

- `ScopesAsStated` compares a fold over a sequence of grants with a reference, and
  `AnalysisAddsUp` is a sum over a sequence: inductions over data, which the installed
  provers cannot do.
- `InputsRead`: `CborLengths` is recursive as the code is, `SourceFilters` uses bitwise
  operators, and an `InviteCodes` code is filtered character by character (`SelectSeq`); the
  prover reaches none of them.
- `WalksEnd`, `AuthorizeAnswers` and `TrustAges`: liveness under fairness is beyond the
  prover.

Every other property that a passing run checks is stated by a theorem of section 5. The
properties of section 4 are refuted and have none.

## 7. Plan

Done: the core (engine, rotation, revocation, sessions, accounts), the stores that hand
out tickets with their abstract specification, the arbiter with trust and decay, the
audit pipeline, the pure decisions, and the parts of a login. Proved: everything the runs
check that the prover can reach.

What would extend it:

1. the engine and the session manager over one shared assignment store, so that a
   revocation is followed through both kinds of derived state at once.
2. the passports section 8 leaves out, should they gain state.


## 8. Not modelled, and why

- Cryptography (signatures, hashes, Ed25519, ML-DSA, COSE keys), random and uuid
  generation: a token verifies or does not, an id is fresh.
- Row types and SQL text of the persistent stores: a statement is one atomic step that
  may fail. The session and revocation tables are in their components' modules.
- Subjects, permissions and traits: conversions without state. Names are opaque values,
  or sequences of segments where prefixes matter (`ScopedAccess`).
- Passports of one comparison or one signature check each (API keys, certificates,
  TOTP), and the verification services around a transport, which are a code store
  (`SingleUseStores`) and a call.
- The floating-point statistics of the anomaly detector: a deviation is any of its three
  bands.
- Web middleware (header extraction in front of `verify`), macros and the TypeScript
  client, which hold no state the properties speak of.
- Log output. Weak memory: the atomics the models rely on use `SeqCst` or a
  compare-and-exchange, everything else is behind locks.
