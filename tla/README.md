# TLA+ models of go-kratos-pkg

This directory holds TLA+ models of the parts of `src/` that have state,
concurrency or non-trivial control, the TLC configurations that check them, and
`PROJECT.json`. `PROJECT.json` records:

- every component;
- every run and what it checks;
- the mutants that show each property can fail;
- the source lines each definition models;
- the hazards of the code.

## 1. The system

The repository is a toolkit of packages used by kratos services. Only one part
of it has a real protocol: the token/session core in
`src/auth/auth_token.pkg.go`, which `spec.md` describes. The other parts are
adapters, and some of them hold state or have edge cases.

| part | source | state and operations | interaction |
|---|---|---|---|
| token core (`authRepo`) | `src/auth/auth_token.pkg.go` | none in process. `SignToken` saves a token pair and starts a goroutine (`afterSignToken` = `checkLoginLimit` then `deleteExpireTokens`). `VerifyToken` reads the blacklist and the whitelist. | All state lives in the token store (`TokenManger`), which is shared by every request and every background goroutine. |
| token store (`TokenManger`) | not in the repository (spec section 6) | the per-user token set, the blacklist, the login-limit records | Every call may fail. Its context comes from the caller. |
| error meta | `src/error/error.meta*.go` | none; pure functions over error chains (`analyse`, `MetaFromError`, `ClearMeta`, `errorChain`, `Leaf`) | The logging middleware (`src/middleware/middleware_logging.pkg.go`, `src/app/app_logging.pkg.go`) calls `NewErrorMetaInfo(err).Leaf()` on every failed request. |
| local registry | `src/registry/local/registry.go` | the `services` map and per-watcher `blockCh` and `stopped` | kratos discovery calls `Watch`, `Next` and `Stop` from its own goroutine, while the application calls `Register` and `Deregister`. |
| registry selection | `src/registry/registry.go`, `src/registry/{nacos,k8s}/` | the package globals `defaultRegistry` and `localRegistry`; the k8s informer clients | `Init` sets them, building a nacos or a k8s registry; the endpoint helpers read them. |
| rand | `src/rand/rand.pkg.go` | the package-global `random` generator | every helper draws from it, on the caller's goroutine |
| page | `src/page/page.kit.go` | arithmetic helpers over a request type that is not in the repository | none |
| logging, encoding, DB/cache clients, pprof, websocket, uuid | the rest of `src/` | formatting and client construction | I/O only |

## 2. What is modelled

### `AuthToken.tla`: the token core over the store contract

**State.**

| variable | what it holds |
|---|---|
| `tokens[u]` | what `GetAllTokens` would return for user `u` |
| `blacklist` | the store keys added by `AddBlacklist` |
| `limits` | the items added by `AddLoginLimit` |
| `now` | the Unix clock |
| `signs[n]` | SignToken call `n` and the goroutine it started: the goroutine's control point, the lists it computed, whether its ctx is cancelled, and the result of its `AddLoginLimit` call |
| `verify` | one verifying request: the sign, the kind of claims (access, or the refresh claims `DecodeRefreshToken` returns) and the result |
| `failures` | how many store errors have happened (bounded) |

**Actions.** There is one action for each store call of the code, in the code's order:

| action | code | what it does |
|---|---|---|
| `SignToken` | 97-153 | SaveTokens, succeeding or failing; the goroutine starts only on success |
| `CheckLoginLimitUnlimited` | 195 | early return for UNLIMITED |
| `CheckLoginLimitRead` | 199-236 | GetAllTokens plus the loop that builds both lists |
| `CheckLoginLimitAddBlacklist` | 239 | AddBlacklist; on error it returns before AddLoginLimit |
| `CheckLoginLimitAddLimit` | 243 | AddLoginLimit |
| `DeleteExpireTokensRead` | 171-184 | read of the clock, snapshot and expired subset |
| `DeleteExpireTokensDelete` | 187 | DeleteTokens |
| `VerifyTokenBlacklist` | 250-262, 265-283, 292 | decoding (`DecodeAccessToken` or `DecodeRefreshToken`: the claims.Valid expiry check), then IsBlacklist on the claims' ID |
| `VerifyTokenWhitelist` | 303 | IsExistToken |
| `RequestReturn` | | the request that called SignToken ends, cancelling the ctx its goroutine captured at line 145 |

`Tick` advances the clock.

**Abstractions.**

- Token ids are sign numbers: sign `n` issues `<<"access", n>>` and `<<"refresh", n>>`.
- A payload is abstracted to its user and its platform.
- Signing and AES encryption are left out: they change no state, and nothing checked depends on them. An issued token always decodes, so decoding is its expiry check (`now < exp`; the expiry is in whole seconds).
- `VerifyToken` takes claims, not a token string; callers may pass it the claims of an access token or those `DecodeRefreshToken` returned, the strongest check a refresh flow can make (spec section 2: the verifier checks revocation of access and refresh tokens). `VerifiedKinds` names the kinds a run verifies.

**The store contract.** The contract comes from spec section 6, because the store's code is not in the repository: atomic SaveTokens, DeleteTokens and AddBlacklist, any of which may return an error. A store call made with a cancelled ctx fails (`"ctx_canceled"`), as go-redis calls do.

**Refresh-item key.** The key of the refresh item is the constant `RefreshKeyedByTokenID`:

- The code gives both items of a pair the same `TokenID` (lines 123 and 130).
- It then looks the sibling up by `RefreshTokenID` (line 232).
- That lookup only works if the store files refresh items under `RefreshTokenID`. Every run uses that keying (`RefreshKeyedByTokenID = FALSE`).
- Under the spec's literal "keyed by TokenID", the refresh item would replace the access item and no session would ever be revoked. This is listed as a hazard, not a run.

### `LoginSessions.tla`: what the core promises

This is an abstract specification with no tokens, store or goroutines. Sessions are issued live. A session can be revoked only if another issued session of the same account conflicts with it under the account's login limit. A session leaves the live set only once it has expired.

`AuthToken` instantiates it with a refinement mapping:

- sessions are the saved sign-ins;
- `live` is the sessions whose access token is in the user's token set;
- `revoked` is the sessions whose access token is blacklisted.

The run `store_errors` checks `Sessions!Spec` as the property `ImplementsLoginSessions`.

### `ErrorMeta.tla`: error chains and the logging middlewares

An error value is its `Unwrap` chain, outermost level first, each level one of
`KRATOS` (a `*errors.Error` without meta data), `META` (one with it), `WRAP`,
`PLAIN` and `STATUS` (a gRPC status with a biz code). Metadata strings are
abstracted away: a `MetaInfo` is the index of the level it is built from.

- Pure operators: `AsFrom` (`errors.As`), `MetaFromError`, `AnalyseFrom`/`Analyse`
  (RECURSIVE, the two-levels-per-iteration loop of `analyse`),
  `NewErrorMetaInfo`, `Leaf`, `ClearMeta` and `ChainFrom`/`ErrorChain` (RECURSIVE).
- State machine: `err` (what the handler returned), `via` (which logger ran)
  and `logged` (what it read from the Leaf). One action per logger branch:
  `ServerLogNoError`, `ServerLogWebsocket`, `ServerLogMeta`,
  `ServerLogUndefined` (app `ServerLog`), `MiddlewareServerLog`,
  `MiddlewareClientLog` and `ClientLog`, which share `LeafFields`, and
  `ToClientError` (the client error built from the Leaf and `info.Error()`).
- The middlewares keep nothing between requests, so a behaviour is one
  request: from `via = "none"` one action records the handler's error and
  what its logger read (`CHECK_DEADLOCK FALSE`: the request is over).
- `MCErrorMeta.tla` lets the handler return every well-formed chain of up to
  `MaxDepth` levels.

### `LocalRegistry.tla`: the local registry, its watcher and its readers

| variable | code |
|---|---|
| `services` | `Registry.services` (name -> set of instance ids) |
| `access` | which goroutine is inside a map operation, and how |
| `watcher`, `blockCh`, `stopped`, `closer` | the resolver goroutine in `watcher.Next`, the one-slot `blockCh`, `watcher.stopped`, and the goroutine in `Stop` |
| `appOp`, `appOps`, `reads` | the application's `Register`/`Deregister` in progress, and call counters (bounded) |
| `request` | the last `IsFixedEndpoint`/`GetServiceFixedEndpoint` call: its name and what it returned |

The map has no lock, so every map operation is a begin and an end step
(`AppBegin`/`AppEnd`, `NextGetServiceBegin`/`End`, `RequestBegin`/`End` for
`IsFixedEndpoint` and `GetServiceFixedEndpoint` in `registry.go`). `RequestEnd`
returns what the function makes of the instances it read (`Answers`):
`IsFixedEndpoint` whether there are any; `GetServiceFixedEndpoint` the endpoint
of `services[0]`, which is whichever instance Go's map order puts first, so
every instance is a possible answer. `Next` is the `stopped` test, the receive
(a closed buffered channel still yields its token) and `GetService`; `Stop` is
the flag then `close`.

### `RegistrySelection.tla`: `registrypkg.Init`

One action, `InitRegistry`, over every configuration (`Configs`: nil, or local
and remote servers and a type) and every outcome of the client constructions:
`NewNacos`/`NacosNewRegistry`, and `NewK8S`/`K8sNewRegistry`, which calls
`GetDiscovery` then `GetRegistrar`, each building a client set
(`K8sClientSetOutcomes`) and starting an informer. `InitRegistry` assigns
`localRegistry` first, then `SelectDefault` picks the default registry and
may return an error. `running` counts started informers, `held` those the
default registry refers to. When `getRegistrar` fails after `getDiscovery` has started an informer,
`running` exceeds `held`: the informer leaks. This is listed as a hazard and
no run checks it, since it follows only a start-up that returns an error.

### `Registry.tla`: Init and the local registry together

`Registry` instantiates `RegistrySelection` as `Sel` and `LocalRegistry` as
`Local`, with the names and gRPC names of the configured servers and the
application's own service as the names. `StartUp` is `Sel!InitRegistry` plus
the `services` map of the `localRegistry` it assigns: every configured name
and gRPC name with one instance whose id is the name. Once Init has returned:

- the application's `Register`/`Deregister` and the resolver's `Watch` steps
  reach the local map only when `defaultRegistry` is the local registry
  (`ThroughDefault`), since `GetRegistrar` and `GetDiscovery` return it;
- `IsFixedEndpoint` and `GetServiceFixedEndpoint` always read `localRegistry` (`AfterInit`), also after Init returned an error, since a caller may log it
  and keep serving.

After a failed Init, `defaultRegistry` is nil, so only the lookups are enabled.
`MCRegistry.tla` has two servers `s1` and `s2` (so a config can list one as
local and the other as remote); the application registers under `s1`, which the
resolver watches, so the application's writes hit a configured service.

### `RandSource.tla`: the shared generator

`idx` holds math/rand's `tap` and `feed` indices; each draw is its load,
store, wrap test and wrap steps per index, then the ring read (`Index`), so
draws of several goroutines interleave. `Intn`, `IntRange` (no draw when
`min >= max`), `String` (one draw per character) and `Choice` start a call
with the number of draws it makes (`Draw`).

### MC modules and `.cfg` files

`MCAuthToken`, `MCErrorMeta` and `MCRegistry` give users, platforms,
names and ids as model values and the login limits and initial services as
definitions. `RegistrySelection` and `RandSource` are checked directly.

## 3. Runs

| run | bounds | checks | result |
|---|---|---|---|
| `only_one` | 2 users (one ONLY_ONE, one UNLIMITED), 2 signs, reliable store, ctx outlives the request, access and refresh claims verified | `TypeOK`; `SettledWithinLimit`: once every goroutine of the account has finished, VerifyToken never accepts two conflicting sessions; `LimitEventuallyEnforced`: every earlier conflicting session is eventually revoked or gone | pass |
| `store_errors` | 2 platforms, PLATFORM_ONE, 2 signs, 1 store failure, ctx cancelled on return, access claims verified | `SiblingRevokedTogether`: an access token is never blacklisted without its refresh sibling; `RevokedOnlyByPolicy`: nothing is blacklisted without a conflicting session; `PrunesOnlyUndecodable` (action property): pruning never removes a stored access or refresh token that jwt's `claims.Valid` (now < exp) would still accept, although `deleteExpireTokens` compares whole seconds (`ExpiredAt <= nowUnix`) on a clock read taken in an earlier step; `ImplementsLoginSessions` | pass (about 590k states, 1.5 min) |
| `errmeta` | every chain of up to 5 levels | `TypeOK`; `AnalyseFollowsMetaChain`: on business/meta alternating chains analyse records every meta level and ends at the deepest error; `MessageKeepsEveryError`: the logged message names every business error and the root cause | pass (2,904 states, seconds) |
| `localreg` (`MCRegistry`) | 2 servers, every Init configuration and outcome, 3 app writes, 2 lookups (about 160,000 states, 40 s) | `TypeOK`; `FixedEndpointFound`: once Init has returned, even with an error, a lookup never reads a nil `localRegistry`, and a lookup of a name or gRPC name of a local or remote server of the config finds it, and `GetServiceFixedEndpoint` returns an endpoint, whatever the application has registered and deregistered under it; `FirstNextOnly`: only the first `Next` returns a list; `WatcherReleasedByStop`: after `Stop` the resolver goroutine returns | pass |
| `errmeta_nil_leaf` | chains of up to 3 levels | `NoNilLeafDereference` | **violation** |
| `localreg_map_race` (`MCRegistry`) | 1 app write, 1 request | `MapAccessExclusive` | **violation** |
| `localreg_watch` (`MCRegistry`) | 1 app write, no request | `RegistrationEventuallyListed` | **violation** |
| `rand_shared` | 2 goroutines, ring 10, tap 3 | `IndexInRange` | **violation** |
| `newest_session` | ONLY_ONE, 2 signs | `NewestSessionSurvives` | **violation** |
| `limit_write_skipped` | 1 store failure | `LimitWriteAttempted` | **violation** |
| `ctx_cancelled` | ctx cancelled on return | `LimitEventuallyEnforced` | **violation** |
| `refresh_outlives_limit` | 2 platforms, PLATFORM_ONE, 3 signs, access and refresh claims verified, action constraint `PromptGoroutines` (every goroutine finishes before the clock ticks or the next sign-in) | `SettledWithinLimitAnyToken`: once every goroutine has finished, no two conflicting sessions both hold a token, access or refresh, that decodes and passes `VerifyToken` | **violation** |

**What the violations show.**

- **`newest_session`.** Trace: sign 1, sign 2, then goroutine 1 runs. It reads a snapshot that contains sign 2's pair and blacklists sign 2, which is the newest session. Spec section 8 says `VerifyToken(access2)` succeeds, and section 5 says the race only gives a brief over-limit window. In fact the account can be locked out.
- **`limit_write_skipped`.** When `AddBlacklist` fails, `AddLoginLimit` is never attempted (line 240). Spec section 4.2 says both writes are attempted.
- **`refresh_outlives_limit`.** No goroutine is delayed: `PromptGoroutines` (in `MCAuthToken`) lets the clock tick or a sign-in start only when every `checkLoginLimit` goroutine has finished. Trace: sign 1 on p1 at time 0, and its goroutine finishes. The clock ticks to 1. Sign 2 on p2; its goroutine's `deleteExpireTokens` prunes access item 1 (`ExpiredAt` 1 <= 1, line 180). Sign 3 on p1; its `checkLoginLimit` skips refresh items (line 210) and reaches a refresh sibling only through its access item (line 232), so it finds no earlier p1 session and blacklists nothing. Refresh token 1 (expiry 2) and refresh token 3 both decode and pass `VerifyToken` at time 1, two sessions on p1. Spec section 8 says a second sign-in blacklists the first token and its refresh sibling.
- **`ctx_cancelled`.** The goroutine uses the request's ctx (line 145). Spec section 9 asks that its lifetime be detached. Once the handler returns, the limit is never enforced.
- **`errmeta_nil_leaf`.** A business error whose cause is a non-meta `*errors.Error` or a plain error leaves `WrapperStack` empty (`error.meta.pkg.go:128`); `NewErrorMetaInfo` still succeeds, `Leaf()` is nil, and every logging middleware reads `leaf.Code`.
- **`localreg_map_race`.** `Register` writes `services` while `IsFixedEndpoint` (or the watcher's `GetService`) reads it, with no lock (`local/registry.go:49`): Go aborts on concurrent map access.
- **`localreg_watch`.** `watcher.Next` returns a list only for the token `newWatcher` buffers (`local/registry.go:106`); nothing sends on `blockCh` again, so after the first list the resolver blocks until `Stop`, and the application's `Register` of the watched service is never delivered. kratos' `registry.Watcher` documents that `Next` returns when the instances change.
- **`rand_shared`.** Two goroutines drawing at once lose a store or wrap an index twice, and the ring read goes out of range (`rand.pkg.go:27` makes a source math/rand documents as unsafe for concurrent use).

**Bounds.**

- Two sign-ins of one account give every ordering of one goroutine against the other sign-in and its goroutine: each goroutine reads its user's set once and writes once per list. Three sign-ins (a check seeing two other sessions) take `only_one` past several minutes with its liveness property, and are not checked.
- AccessTTL 1 and RefreshTTL 2, with the clock bounded at 2, reach both expiry boundaries and a time when an access token has expired and its refresh token has not. `store_errors` verifies access claims only: none of its properties reads the verifier, whose steps only multiply its interleavings. One store failure exercises every error return.
- Five error levels reach every alternation of business and meta errors with a wrapper between them and a plain root cause.
- Two configured servers give configs with local and remote servers together, four configured names, and let the application add an instance under a configured name.
- Three app writes (register, deregister, register) and two lookups let a deregistration precede a lookup and a write overlap a read and a watcher list; one watcher is enough, since watchers share nothing but the map.
- A ring of 10 with tap 3 wraps within a few draws; the real 607/273 only delays the wrap.
- Every action and every disjunct of `Next` fires in the passing runs; mutants in `PROJECT.json` show every property of a passing run can fail.

**Fairness.**

- `AuthToken`: weak fairness on each goroutine's steps (the Go scheduler runs every started goroutine and a store call returns) and on `RequestReturn` (every handler returns). None for sign-ins, verifications or the clock.
- `AuthToken` fault variant: `FairnessGoroutineNotRun` drops the goroutine's fairness; `LimitEventuallyEnforced` then fails, so it depends on the scheduler running the goroutine `SignToken` starts.
- `LocalRegistry` and `Registry`: weak fairness on the steps of goroutines already running (`AppEnd`, the watcher's `Next`, `StopClose`, `RequestEnd`); nobody has to call `Register`, `Stop` or `IsFixedEndpoint`.
- `ErrorMeta`, `RegistrySelection`, `RandSource`: safety only, no fairness.

## 4. Not modelled

| part | why |
|---|---|
| Signing, AES and JSON | Pure conversions with no effect on any checked property. |
| The store's code | Not in the repository; its contract is modelled. |
| `page` | Its helpers take a request type (`PageRequest`) that is not defined in the repository, so the width of the offset arithmetic is unknown. |
| `app_encode` error encoder | It calls `errorpkg.FromError`, which does not exist in `src/error/`; its behaviour cannot be read from the repository. |
| Concurrent analysis of one error value | Requests are independent in `ErrorMeta`; whether handlers share error values is outside the repository (listed as a hazard). |
| `MetaInfo.LogLevel`, `CleanError`, client marshal | Field copies and formatting of one level. |
| Registry forwarding methods, `GetServiceDiscoveryEndpoint`, `GetRegistrar`, `GetDiscovery` | I/O to external clients, or reads of the globals that change nothing (the registrar and discovery they return are modelled by `ThroughDefault`). |
| Logging format, response encoding, DB/cache/mongo clients, graylog, pprof, websocket, uuid, context helpers | Formatting and I/O with no protocol. |
