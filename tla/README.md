# servicegateway: TLA+ models, model checking and proofs

This directory holds a formal model of the mittwald service gateway, an HTTP
gateway in Go that authenticates requests against an external provider, limits
their rate, caches responses and forwards them to services that are configured
in a file or in Consul. The TLA+ modules are translated from the Go code. TLC
checks them on small instances; TLAPS proves all of their safety properties, and
that the token store implements its abstract map, for every instance. Liveness
stays with TLC.

## 1. Inventory

| Component (source) | State it keeps | Operations | Interacts with |
|---|---|---|---|
| Token store (`auth/tokenstore.go`) | Redis hashes `token_*` with a TTL; one LRU cache per gateway | `SetToken`, `AddToken`, `GetToken`, `GetAllTokens` | JWT verifier (verifies before a write), Redis, admin API, login endpoint, token reader |
| JWT verifier (`auth/jwt.go`) | cached key, its expiry, a mutex | `GetVerificationKey`, `VerifyToken` | HTTP server of the key; called by every authenticated request and every write of a token |
| Authentication of requests (`auth/rest.go`, `reader.go`, `handler.go`, `writer.go`) | `expCache` (expiry by JWT) | `DecorateHandler`, `TokenFromRequest`, `IsAuthenticated` | token store, verifier, next handler, request listeners |
| Login endpoint and hook (`auth/handler.go`, `auth/rest.go`) | the JavaScript machine and its lock | `POST` on the login URI, `Authenticate` | provider, token store |
| Provider token rewriting (`auth/rest.go`) | a recorded response | `rewriteAccessTokens` for body, header and cookie | token store |
| Response cache (`cache/cache.go`) | an LRU cache of responses | `DecorateHandler`, `DecorateUnsafeHandler` | upstream service |
| Rate limiter (`ratelimit/ratelimiting.go`) | one counter with a TTL per client, in Redis | `takeToken`, `DecorateHandler` | Redis, next handler |
| Dispatcher (`dispatcher/*.go`) | router, behaviours | the two builders, `RegisterApplication`, `Initialize`, the closures, `OPTIONS` | Consul, httprouter, all behaviours |
| Process life cycle (`main.go`) | its goroutines and their channels, two servers | setup, build, interrupt, shutdown, and the ends that bypass it | monitoring controller, dispatcher, manners |
| Monitoring controllers (`monitoring/*.go`) | registration in Consul, channels, metrics | `Start`, `SendShutdown`, `shutdown` | Consul, `main` |
| Admin API (`admin/server.go`) | none | list, set and add tokens | token store |
| Proxy handler, host rewriter (`proxy/*.go`) | none | forward a request, rewrite links | upstream service |
| Logging (`httplogging/*.go`, `main.go`) | the AMQP connections and channels, their watchers and timers | `buildLoggers`, `connect`, publish a request | AMQP broker |
| Configuration (`config/*.go`) | none | data types and decoding | everything |

What is hard here, and hardly reached by a unit test (the repository has none):

- operations of several Redis commands that are no transaction (`HMSET`, then
  `EXPIREAT`) and can be cut between them by another writer, an error, a lost
  reply or a crash;
- state that is read several times on the way of one request (the clock, the
  cached key, `expCache`, the store) and may change in between;
- unlocked reads of shared fields (verification key, server variables);
- locks held across calls without a timeout (key fetch, JavaScript hook);
- a purge of the cache that is apart from the write it is for;
- Go maps, walked in any order, whose entries are put into a router that panics
  on conflicts;
- unbuffered channels between goroutines that may fail to arrive;
- listings that read key by key while keys change, for a client that may go away;
- a pointer to a loop variable that outlives its loop, and a reconnection that is
  tried once;
- URLs that are computed by replacing text in text, in the order of a Go map, and
  parsed a second time;
- a process that can end in many places while Consul still lists it.

`PROJECT.json` lists these places one by one under `hazards`, at their lines.

## 2. Modules

Each module has one action per step that another actor can observe: a Redis
command, an access to a cache, a lock, a reading of the clock, a send on a
channel. A call that fails is an action of its own, named `...Error`. Definitions
whose comment begins with "Mutant" are faulty variants of the definition after
them; each shows that some property notices that fault, and no specification uses
them. Variables commented "history" are written by the actions and read by
properties only. TokenStore and Authentication state the types of their variables as
invariants of runs; in the other modules the comments on the variables do, and the
proofs start their inductive invariants with the types they need.

**TokenStore** (`tokenstore.go`, and the callers in `admin/server.go`).
`redis[t]` is the hash of a token with its expiry, `lru[g][t]` the cache of gateway
`g`, `op[p]` the call of a goroutine. A `SetToken` is `SetTokenVerify`,
`SetTokenHMSET`, `SetTokenEXPIREAT` (only for a JWT with `exp`) and
`LocalCacheAdd`; a `GetToken` is `GetTokenLocal` and, on a miss, `GetTokenHMGET`,
which, like the code, does not fill the LRU cache. Application lists pass through
`Join` and `Split`, which lose names with a semicolon. An error of a Redis command
means that the command or only its reply was lost. `Tick` lets Redis drop expired
keys; `Restart` kills the goroutines of a gateway and empties its cache. The LRU
cache evicts any entry, which includes the least recently used one.

**TokenMap** and **TokenStoreRefinement**. `TokenMap` is what the store promises
whatever its caches do: `held[t]` is the set of responses that `t` stands for at the
moment, since updates are not atomic and caches may be stale. A reader gets a member
of that set or nothing; only an admitted writer adds to it, and only what it was
admitted with; everything else may only forget. `TokenStoreRefinement` maps Redis and
all LRU caches onto `held` (`Copies`) and the calls of the goroutines onto those of
the map (`Abstract`; a writer exists for the map once it is verified).

**TokenListing** (`GetAllTokens`, `GET /tokens` in `admin/server.go`) extends
TokenStore. The producing goroutine lists the keys, reads them one by one with the
connection in its hand and sends on an unbuffered channel; the handler receives and
encodes. The send is one step of both. A failed `HGETALL` and an expired key give
an empty entry; a client that goes away makes the handler return and leave the
channel.

**JwtVerifier** (`jwt.go`). The double-checked key: an unlocked `Check` and an
unlocked `Read`, then `Lock`, `Recheck`, `Fetch`, `WriteKey`, `WriteExpiration`. A
slice has three words, so an unlocked read during `WriteKey` gives the old key,
the new one or `Torn`.

**Authentication** (`rest.go`, `reader.go`, `handler.go`). One request reads its
token from one of six places, asks the store, looks in `expCache`, verifies,
compares, stores the expiry, and is decided on. Each reading of the clock is a
step. go-cache is modelled by what it does: a duration of zero means that the
entry never dies. The value cached for a JWT without `exp` is an `int`, that for
one with `exp` an `int64`. Store, key and clock change between any two steps.

**Login** (`handler.go`, `rest.go`). The shared JavaScript machine, its lock, the
call of the hook, the reading of its result after the unlock, the provider's
answers, and the token issued with the hook's list of applications.

**ProviderTokens** (`rest.go`). A response of the provider passes the rewriting of
its body, its header and its cookie; each may be unmarked, well formed, missing
or invalid, and each `AddToken` may fail. `Copy` is what the client gets: an
error goes to a recorder that nobody reads, so the client gets an empty 200.

**ResponseCache** (`cache.go`). Lookup, upstream call and store of a safe request
are apart; an unsafe request purges first and calls the upstream then.
Identifiers are built as in `identifierForRequest`, so that a URI ending in "_html"
collides with the Accept header "html".

**RateLimiter** (`ratelimiting.go`). The transaction `SET EX NX; DECR` is one step,
as it is in Redis, and what follows depends on its reply alone. A window that
Redis does not accept as an integer makes `SET` fail inside the transaction while
`DECR` is carried out; `Windows` holds windows of both kinds. `Squeezed` takes the blanks
out of an `Authorization` header, so that headers can share a bucket. Time is kept as
remaining TTLs, and `recent[c][a]` counts what client `c` got through in the last `a`
ticks, so that time has no bound.

**Dispatcher** (`consul_dispatcher.go`, `no_integration_dispatcher.go`,
`behaviours.go`, `pathbased.go`). Both builders, in one specification: reading
Consul's pairs, registering applications and routes in any order, the chain of
handlers for each route and method, the login route, and httprouter's panic on a
route that conflicts with another or cannot stand alone (`BadRoute`). The store may
change at any time; the code reads it once. `strings.HasPrefix` looks at text, so
`AppFolders` has the folders whose names only begin with "applications"
(`consul_dispatcher.go:72`). A build that ends the process is `crashed`: by a route, by
a rate limiter that cannot be configured, or by a target that is no regular expression
(`Malformed`, `hostrewriter.go:55`). `Configured` is every application that
either configuration may bring, and what the modules assume of it is what its
decoding gives.

**Forwarding** (`pathbased.go`, `proxy/handler.go`, `proxy/hostrewriter.go`) extends
Dispatcher: a gateway that was built serves one exchange after the other (the code
keeps no state between them). `Forward` picks the handler that the router has and
computes the target as the closure does; `Respond`, `BreakOff` (the service breaks off in
its body) and `Unavailable` are `HandleProxyRequest` with the rewriter and the OPTIONS
handler around it. What text is made into matters here, so:

- segments are spelled as sequences of parts where text is replaced in text, so that
  ":id" is found in ":idx" as `strings.Replace` finds it;
- a target is put together (`BackendUrl`: without a slash in front it continues the last
  segment of the backend's URL, or its host) and then parsed (`Parse`), as
  `http.NewRequest` does: `Escapes` says how a segment with `%`, `?` or `#` in it is
  read. The path of the request was decoded before, so what it had escaped is decoded
  twice. The query of the request replaces the one of the target (`handler.go:107`);
- `RewriteUrl` takes the path of a path application after its first slash, and has no
  public form for an empty one; `Dollars` says what `ReplaceAllString` makes of a
  value with `$` in it, and `Wild` which paths a target with other characters of regular
  expressions matches;
- a response is a redirect to the HTTP client with status 301, 302 or 303, and with 307 or
  308 unless the request has a body (`Redirects`).

The order of the rewriter's maps is a choice of each answer. A target names a parameter
once. Headers other than `Location` are passed through by the code and left out.

**JsonRewriter** holds `walkJson` as an operator on documents, and `Rewrites`, which
says of a document and its rewritten form what one owes the other without saying
how it is computed. The prover takes no recursive operator, so `walkJson` is given the
walks of the parts of a document, and `Walk`, `Leaves` and `Depth` are constant operators
that satisfy the equations of the recursion (`Recursion`, `DocumentsAssumption`). On
documents of finite depth exactly one operator does. `Unmarshalled` is the decoding, given
in the same way: an `interface{}` holds numbers as `float64`, so `Float64` has the numbers
that come out changed. `MCForwarding` defines the four recursively, and TLC evaluates the
equations on every document of the run.

**AmqpLogging** (`main.go`, `httplogging/amqp.go`, `factory.go`). `cell` is the loop
variable of `buildLoggers`, which all loggers point to; `link[i]` has the connection
and channel of logger `i`, where its `connect()` is and what its watcher waits for;
`audit[i][r]` is what became of an entry. Each command to the broker is an action
that may fail; a broker closes the channel of a message to an unknown exchange.

**Shutdown** (`main.go`, `monitoring/*.go`). Signal handler, monitoring
controller, builder, closer, waiter, the main goroutine and two server
goroutines, with their unbuffered channels as joint steps, from the registration in
Consul on. Besides `Exit`, where main returns, every other end of the process is an
action: a registration that fails (`RegisterError`), the panics of main's setup
(`SetupPanic`, `main.go:189-202`), a build that panics or calls `Fatalf` (`BuildCrash`),
an interrupt before anybody handles it (`Interrupt`) and `os.Exit` in the handler of
`-cpu-profile` (`ProfileExit`, `main.go:84`), which gets the same interrupts.

`MCTokenStore`, `MCTokenListing`, `MCAuthentication`, `MCLogin`, `MCResponseCache`,
`MCRateLimiter`, `MCForwarding` and `MCAmqpLogging` give the constants values for TLC; the other modules take theirs
from the `.cfg` files. The proofs are in `TokenStoreProofs` (which covers TokenStore,
TokenListing and TokenStoreRefinement), `AuthenticationProofs`, `LoginProofs`,
`ProviderTokensProofs`, `ResponseCacheProofs`, `RateLimiterProofs`, `ForwardingProofs`
(Dispatcher, Forwarding and JsonRewriter) and `MainProofs` (Shutdown, AmqpLogging and
JwtVerifier, three machines that `main.go` sets up; their definitions have different
names so that one module can extend all).

## 3. Runs

| Run | Question and result |
|---|---|
| `token_races` | Two goroutines on two gateways use one token with a JWT that expires at 1, one that never does and a forged one. What a reader gets was verified (`VerifiedOnly`); an expirable JWT without a TTL has a writer that owes it one or that failed (`TtlOwed`) and leaves Redis in the end (`RedisForgets`); a write nobody overlapped, to a key without a TTL, is kept whole until its expiry (`KeptUntilExpiry`) and read back on its gateway (`ReadYourWrites`). Redis and the LRU caches together implement `TokenMap` (`ImplementsTokenMap`): no read revives what every layer has dropped. |
| `token_listing` | `GET /tokens` beside a writer of two tokens that share an LRU cache of one entry: a token that keeps its JWT is listed with it (`ListingComplete`); a listing ends, and gives its connection back unless its reader stopped (`ListingEnds`). The LRU cache has room for one of the two; that evictions and reloads from Redis change nothing a reader gets is proved (section 5). |
| `auth_requests` | Two requests share `expCache`. `Authorised`: what goes upstream was verified, in time when compared and admitted. `RefusedForCause`: a 403 has a cause. `ExpCacheSound`: immortal entries never keep a JWT alive. |
| `auth_panic` | Violation: `NoPanic`. See section 6. |
| `verifier_key` | Three goroutines: one fetch per TTL, no nil key, a torn key only past the expiry that was checked, and everybody is answered unless the fetch hangs. |
| `login_hook` | Two logins of three users: a token is restricted as the hook decided for its own user, and no way out of the hook keeps the lock: every login is answered unless a hook, the provider or the token store never returns. |
| `provider_tokens` | Every response with failures at every place: no JWT in a marked body or header reaches the client, a token stands for the JWT it replaced, and a response that is passed on has all its tokens. |
| `cache_races` | Two goroutines, two resources whose identifiers collide, one entry: entries are genuine, flushes that no fill overlapped stick. |
| `ratelimit_windows` | Three requests of two clients, with lost replies, under a window that Redis accepts and one that it refuses: every request let through was paid for, no stretch of a window's length lets through more than two buckets, and a blocked client recovers when Redis accepts the window (section 6 has what happens when it does not). |
| `shutdown_consul` | Two interrupts against setup, build, profiling, failing listeners and a failing deregistration: which ends of the process leave the node in Consul (`DeregisteredAtExit`), servers that were up are closed when the process reports so (`UpServersClosed`), and an interrupt ends the process unless Consul refuses or never answers, or a server could not listen (`InterruptExits`). |
| `gateway_serving` | Both builders, and then requests: map order decides nothing (`OrderIrrelevant`), handlers come in the right order (`Guarded`), a request has one handler and its service is asked for what the client asked for (`TargetAsAsked`), a link to that resource leads the client back to it (`RoundTrip`), documents come out with public links and nothing else changed but large numbers (`PublicLinks`), status and body arrive (`AnswerPassed`), each with the exceptions of section 4. |
| `amqp_audit` | One and two loggers, with three faults of the broker: where entries end up (`HomeExchange`), no loss without a fault (`LossHasCause`), a lost connection is replaced unless an attempt was refused (`Reconnects`). |

### Bounds and why they are enough

- *Clocks* (`MaxTime`). Token store and authentication use one JWT that expires at
  1 and a clock up to 2: before, at and after the expiry. The key lives for 2 s and
  the clock goes to 4, so that a key is stored, expires and is stored again.
  `token_listing` has a clock up to 1: a key expires between its listing and its reading.
- *Actors*. Two writers or readers are what an interleaving needs; goroutines make
  any number of calls one after the other. The verifier has three: one in the lock,
  one queued, one in the unlocked reads. Where a theorem of section 5 states the
  property, it lifts the bound.
- *ProviderTokens* has one response under way: responses only meet in the token
  store, where each gets a fresh token. Four tokens are more than the three one
  response can use.
- `MaxOverrun`: counters at or below -2 behave alike, so the model stops counting
  there. `MaxVersion` 1: an old and a new state of a resource is what staleness needs.
- `MaxInterrupts` 2: the second finds no receiver, and a third would be lost.
- *TokenListing*: two tokens, so that one changes while the other is read. The
  producer of a listing whose reader stopped never ends, and the handler starts no
  further listing in the model: listings share nothing but the store.
- *AmqpLogging*: three faults (`MaxFaults`) are a lost connection, one lost again
  after the reconnection, and a refusal. The four configurations are a single
  logger, two on one broker, two on different ones, and one before an Apache logger.
- *Forwarding*: links with an empty path, with none, one and two segments, relative
  ones, ones to a foreign host, ones with a `$` and ones that do not parse; documents of
  up to three levels, which put links inside and outside of `links` and `_links`, alone
  and beside others, and a number that a `float64` does not hold. Parameters `:id`,
  `:idx` and `:key` include a name that begins another. Requests have segments with `%`,
  `?` and `$`, empty ones, and queries; backends have a base path or none; targets have
  queries and no leading slash, as those of the repository's README.md:166, with and
  without a slash at the end of the backend's URL. Answers are redirects with 302 and 307
  to requests with and without a body.
- *Dispatcher*: startups with one to three applications of sixteen kinds, which make
  routes equal, disjoint, nested or parametric, one with a target that is no regular
  expression; seven states of the Consul store, one with a key next to the folder. The
  whole run has about 108 000 distinct states.
- Symmetry is used only where no liveness property is checked.

### Fairness

Go runs a goroutine that can run, and `sync.Mutex` hands the lock to a waiter after
1 ms, so steps of goroutines are weakly fair and `Lock` strongly fair. The clock is
fair where a property waits for a TTL. Nothing is assumed of what has no timeout in
the code: the fetch of the key, the hook, the provider's answer, `AddToken`, which
verifies the JWT and may have to fetch the key, and Consul, which is asked by the setup,
the build and the deregistration. `Answered`, `LoginAnswered` and `InterruptExits` name
them as the only ways to wait for ever. The two goroutines of a
listing are fair, and so are `connect()`, its timer and the publishing goroutines: a
broker answers a command or refuses it, and `MaxFaults` bounds how often it does
not, as a broker that fails for ever never lets a connection last. New calls,
failures, restarts and interrupts need not happen. `CHECK_DEADLOCK FALSE` stands
where the system really stops: after the exit of the process and after the build.

## 4. What the properties leave out

Some properties have a precondition because the code gives no more. They are worth
knowing to whoever changes the code:

- `KeptUntilExpiry` speaks of keys that had no TTL. `HMSET` keeps the TTL of the key,
  so a JWT without `exp` that replaces an expirable one is lost when the old TTL runs
  out (`tokenstore.go:80`; `README.md:231` offers updates of expirable JWTs).
- `ReadYourWrites` speaks of the gateway that wrote. Other gateways answer from their
  LRU cache, which nothing invalidates (`tokenstore.go:185`).
- `Shielded` speaks of body and header. A rewritten cookie is added beside the one
  that holds the JWT (`rest.go:397`; `README.md:180`).
- `FlushSticks` excludes writes that a fill of the same identifier overlapped, and
  speaks of the identifier of the write: entries of the URI under another Accept
  header stay (`cache.go:106`; `docs/configuration.md:43`). The `ttl` setting
  (`docs/configuration.md:42`) is never read, so the model has no expiry either.
- `ListingEnds` does not give the connection back when the handler stopped reading: the
  producer waits on the channel for ever (`tokenstore.go:154`). The listing itself
  has no commas between its entries (`admin/server.go:46`), so with two tokens or more
  its output is no JSON.
- `Recovers` speaks of windows that Redis accepts (section 6).
- `DeregisteredAtExit` has the ends of the process that leave the node in Consul: those
  before there is a proxy server (a panic of the setup or of the build, an interrupt
  that comes too early), and the handler of `-cpu-profile`. It says that these are all.
- `Guarded` is about the order of the handlers. Whom the authentication handler lets pass
  without a token (every OPTIONS request, `rest.go:82`, and whoever calls the provider's
  own application, `rest.go:102`) is in Authentication.
- `TargetAsAsked` excludes what the code does not ask for: paths configured with a slash at
  the end, and targets without one in front, which garble the target
  (`pathbased.go:72`); decoded paths with `%`, `?` or `#`, which are parsed again
  (`handler.go:76`); the query of a target, which that of the request overwrites
  (`handler.go:107`); and parameters whose name begins another name or a value, or is
  only a part of a segment (`pathbased.go:65`).
- `RoundTrip` excludes backends with a base path, whose links come out with it, and
  targets that one link fits, where the order of a Go map decides (`hostrewriter.go:44`);
  values with a `$`, which the rewriter expands (line 45); targets that match other
  paths than their own as regular expressions; and the bare path of a path
  application, behind which is an empty path without a public form (line 197).
  The rewriter never looks at the host of a link: links and `Location` headers
  to other hosts are turned into links to the gateway too; `README.md:132` speaks of
  those of the application.
- `PublicLinks` compares with the document as it was decoded, into `float64`
  (`hostrewriter.go:162`): an integer beyond 2^53 reaches the client changed.
- `AnswerPassed` names its exceptions: a response that the HTTP client would follow loses its
  body, which the client has closed (`handler.go:113`), a service that breaks off in
  its body is not told from one that is done (line 139), and an OPTIONS answer with a body
  becomes a 200.
- `AllOrNothing` and `Shielded` hold of the empty body that a client gets when the marked
  field is missing (`rest.go:334`); no property asks for the body the provider sent.
- `HomeExchange` and `LossHasCause` speak of the last logger and of those on its
  broker. All loggers read the last entry of the configuration (`main.go:326`), so
  the others publish to an exchange their broker may not have, and before an Apache
  logger an AMQP logger publishes to the default exchange and cannot reconnect.
- `Reconnects` ends at the first refused attempt (`amqp.go:65`): the audit log is dead
  until the restart. A channel closed by the broker alone is never opened again.
- `SlidingBound` counts `burst - 1` requests per bucket: the decrement comes before
  the comparison (`ratelimiting.go:161`; `docs/configuration.md:76`).
- `UpServersClosed` speaks of servers that were up: an interrupt during the build
  closes nothing and the servers start later (`main.go:237`).
- The applications of Consul are registered before the static ones
  (`consul_dispatcher.go:107`; `docs/configuration.md:65` says the opposite); changes
  in Consul have no effect on a running gateway (`consul_dispatcher.go:57`;
  `README.md:108`); its rate limiting section is never recognised
  (`consul_dispatcher.go:65`; `README.md:68`).

## 5. Proofs

All theorems hold for any sets of gateways, goroutines, tokens, JWTs, applications,
clients, users, resources, documents and logger configurations, and for any bounds,
from the `...Assumption` of the module: the absent values are not members of the sets
they are absent from, `exp` claims are naturals, tables have their domains,
capacities are positive, and a list of loggers has at least one entry (without one
there is no audit log to speak of). Of an application the proofs assume what its
decoding gives: switches that are Booleans, routes and targets that are finite paths,
for a path application a path without wildcards, and for a pattern a target that names
a parameter once. Of a segment they assume that it is spelled in one way, and of
documents that they are nested finitely deep and that `Unmarshalled`, `Walk` and `Leaves`
satisfy their recursion equations; what `Escapes`, `Dollars`, `Wild` and `Float64` hold
may be anything. Those on Shutdown
only assume that the node is registered or not. TLC evaluates each assumption on the values of a run.

Each proof has the same layout: an inductive invariant, named below; lemmas that say
what one action or one group of actions does to it; a lemma `...Always` that puts
them together; and the theorems, which follow from the invariant. TLC checked
the invariants on the instances of the runs before they were proved.

**TokenStoreProofs**

- `TypeCorrect`, with which every writer is known to hold a token and a JWT.
- `Verified` (`VerifiedOnly`). What a reader gets can come from Redis, from an LRU
  cache or from a writer, so `VerifiedInv` says of all three that they hold signed
  JWTs only.
- `TtlOwedAlways` (`TtlOwed`). `TtlInv` adds that only expirable JWTs are at
  `EXPIREAT`; else `EXPIREAT` could take away the debt of a key without paying it.
- `Kept` and `ReadsYourWrites`. `KeptUntilExpiry` speaks of completed writes, so the
  invariant has to follow the writer: `AloneInv` says that a writer nobody overlapped
  is the only one past `HMSET`, and that Redis holds what it wrote with the TTL it
  should have at that point; `SettledInv` says that a settled write has no writer, and
  that Redis and the LRU cache of its gateway hold that write or nothing.
  `ReadYourWrites` follows for hits from `SettledInv`, and for reloads with
  `SplitJoin`: a list of plain names survives `Join` and `Split`.
- `Listed` (`ListingComplete`). `ListInv`: what is still owed to the client is
  to be read, or is the entry in the producer's hand with the JWT that Redis holds; a
  producer that has ended has read everything and holds nothing. Steps of the listing
  leave the store alone, so a behaviour of the listing is one of the store, and
  `TypeCorrect` and `VerifiedAlways` carry over.
- `Implements` (`ImplementsTokenMap`): the refinement. `MapInit` maps the initial
  states, `MapStep` every step: the verification of a writer is `Accept`; its two
  Redis commands, their errors and its write to the LRU cache are `Write` steps;
  hits and `HMGET` are `Reply`; time and crashes are `Forget`; a call of a writer, its
  rejection and a miss are no steps of the map. `CopiesGrow` says what a step may
  add to the copies of a token, `AbstractCall` and `CallStep` what it does to a call.
  Beside the types and `VerifiedInv` it needs `MissingInv`: a missing key has no
  application list either, so reading it gives the answer of an unknown token.

**AuthenticationProofs**

- `TypeCorrect`.
- `AuthorisedAlways`, `RefusedForCauseAlways`, `ExpCacheSoundAlways`. The three
  depend on each other: a request trusts `expCache`, and `expCache` is filled by
  requests. `AuthInv` is `ExpCacheSound` with `Established(r)` for each request: the
  expiry it holds is the `exp` of a JWT that some verification accepted, an "ok"
  was in time at its own clock reading, and a "no" has a cause that time cannot
  undo. The step per action is split into the request that moves and the frame for
  the others (`RequestStep`, `EstablishedFrame`, `ExpCacheFrame`).

**LoginProofs**: `Restricted` (`RestrictedAsHooked`). `LoginInv` says that the machine
is at the hook of the user who holds the lock, and that the answer a login carries
after the unlock is the hook's answer for its own user.

**ProviderTokensProofs**: `Shield` (`Shielded`), `Redeem` (`Redeemable`) and `Complete`
(`AllOrNothing`). `ProviderInv` follows the recorded response place by place: before
its rewriting a place has what the provider sent, afterwards a token the store
resolves to it. The store only grows and draws fresh tokens, so what was redeemable
stays so.

**ResponseCacheProofs**: `Genuine` (`EntriesGenuine`) and `FlushesStick`
(`FlushSticks`). `CacheInv` says of an entry, and of an answer about to be stored,
that the service gave it; and of a writer nobody overlapped that between its purge
and its write no fill of its identifier is under way and the cache holds nothing
under it. Fills that begin later read at least the version of that write.

**RateLimiterProofs**

- `Paid` (`PaidFor`). `LimitInv` is that with the types of the buckets (a missing one
  counts as zero, and no count is below the one at which the model stops counting) and
  with `RefusedClosed`: under a window that Redis refuses no bucket ever has a positive
  count, so that nothing is let through that was not paid for. Which windows Redis accepts is the operator
  `IsExpireTime`; the proofs hold for either answer.
- `SlidingBounded` (`SlidingBound`). A stretch of one window meets at most two buckets,
  but when it met the older one is only known from the TTL of the newer. So
  `StretchInv` splits the stretches by their length: one that does not reach back to the
  start of the present bucket saw no more than that bucket has let through; one that
  begins less than a window before that start saw at most one bucket more; and without
  a bucket the last window saw at most one. What is let through is bounded by
  `BucketYield`, which is `PaidFor`.

**MainProofs**

- `Deregistered` (`DeregisteredAtExit`) and `ServersClosed` (`UpServersClosed`).
  `ChainInv` has the two chains of channels: main waits for the waiter, the waiter for
  the controller, the controller for Consul; and the waiter for the closing
  goroutine, which closes the servers one after the other. `KillChain` has the ends
  that bypass them: once main waits and the builder has a dispatcher, only the
  profiling handler is left.
- `AtHome` (`HomeExchange`) and `CausedLoss` (`LossHasCause`). A logger reads the shared
  loop variable whenever it connects or publishes, so `LogInv` follows it in time.
  `LinkInv`: a logger whose turn has not come has no connection; a healthy one, to
  which nothing was lost or refused, connected once, in its own turn and to its own
  broker, and keeps its channel if that is the broker of the last logger. `CellInv`:
  the logger in turn is connected to its own broker, which has its exchange once the
  turn is over; the last turn lasts as long as the gateway. `AuditInv`: entries
  are pending only while the gateway serves. The theorems hold for any number of
  loggers and faults.
- `FetchesSpaced` (`OneFetchPerTtl`), `KeysWhole` (`WholeKey`) and
  `KeysInTime` (`KeyInTime`). `VerifierInv` has the mutual exclusion of the lock, the
  tie between `stored` and the expiry that is only broken while the holder of the lock
  is between its two writes, what the holder knows after its second look, and what the
  unlocked readers can have seen.

**ForwardingProofs**

- `OrderDecidesNothing` (`OrderIrrelevant`). `MuxInv` gives the content of the router as
  a function of where the loops are: all handlers of the applications that were
  walked, and those of the current one whose routes are not left (`Walked`). With it
  `Apart(mux)`: no two routes of the router collide; and `ClaimedOnce`: an application of
  both configurations has not registered a route twice, which `Apart` cannot say, as
  the two handlers may be equal. When the router panics (`RegisterPanics`), the route it
  was given and the one it has are both among those that the configurations ask for,
  and are different, or are the same one of such an application: a collision either way.
  The applications and their routes may be any sets, also infinite ones.
  `FormInv` says that the loops have only left applications behind whose targets are
  regular expressions.
- `AllGuarded` (`Guarded`). The handlers have ranks, and `ChainInOrder` shows that the
  behaviours, in the order they are added, make a chain with ascending ranks, in
  which none is missing that the application asks for; `MetBefore` reads `Before` off
  the ranks. The loop over the three behaviours is written out in `Chain`, as a fold
  would need induction.
- `AnswersPassed` (`AnswerPassed`) and `LinksPublic` (`PublicLinks`). An exchange keeps
  nothing from the one before, so its invariant is small: `ExchangeInv` says that what the
  client has is `Decorate` and `Options` of the answer or of the 503, for a handler of the
  router. The work is `WalkFaithful`: the walk of a document is `Faithful`, which is
  `Rewrites` with two additions that the walk of the surrounding document needs. Inside
  of links it may be `RemoveElement`, and then some link of the part has no
  public form; outside it never is. `WalkObject` and `WalkArray` do one level, and
  `DocumentInduction` all levels. That rewriting never fails (no 500) is the
  outermost level.
- `AskedTargets` (`TargetAsAsked`). `OneClaim`: of two routes that match one path, httprouter
  has refused one (`MatchUnique`, from `Apart(mux)`). The target of a pattern is computed by
  replacing text in text, one parameter after the other; `FilledIn` is the text in which the
  first `n` parameters are filled in at once. `FillOne` shows that a replacement goes from
  one to the next when names and values are `Separate`, which is what `Distinct` and
  `Literal` give: else ":id" would eat the beginning of ":idx" or a value would be
  replaced again. `FillAll` is the induction, and `ParsePlain` says that what holds nothing to
  be read again is parsed into itself. `PathFacts` does a path application, whose target
  is the backend's path and what is behind the prefix, also when that is nothing.
- `LinksLeadBack` (`RoundTrip`). `FittingMapping`: whichever mapping Go's map puts first, the
  first one that fits the link is the one it was made with, because no link fits two
  targets. `ReplFilled`: the way back is `FillAll` once more, now with the parameters
  in any order. The result is the route of the handler with its parameters filled in,
  so that route matches it, and filling in the target again (`PatternFilled`) gives
  the same URL. For a path application (`PathRoundTrip`) the link's path is rooted, as the
  theorem requires, so what follows its first slash goes behind the prefix again.

Induction. The library's induction theorems take an operator, which the provers cannot
instantiate. `Least`, `CountUp` and `DocumentInduction` take a set instead: a set of
numbers that holds 0 and, with `n`, `n + 1` holds all of them, and a set of documents
that holds every document whose parts it holds is all of them. They follow
from `WFMin`, the minimum of a set under a well-founded relation.

Only model-checked: the liveness properties (`RedisForgets`, `ListingEnds`, `Answered`,
`LoginAnswered`, `Recovers`, `InterruptExits`, `Reconnects`), as the prover handles neither
fairness nor `ENABLED`.

## 6. Findings

- `auth_panic`: for a JWT without `exp` the constant `0` is cached, an `int`; the
  next request with that JWT asserts `exp.(int64)` and panics (`handler.go:274`).

Two more disagreements of the code with the repository's documents are visible in the
models, without a run of their own:

- The window of the rate limiter. `docs/configuration.md:77` calls it a "duration specifier"
  "for the length of the time window after which the rate limit is reset".
  `NewRateLimiter` takes every duration, and `takeToken` hands it to `SET ... EX` as a float
  of seconds (`ratelimiting.go:89`). Redis refuses `1.5`, the `DECR` of the same
  transaction makes a key at -1 without a TTL, and every client is rejected for ever. With
  `ExAccepted` removed from `Recovers`, `ratelimit_windows` ends with this behaviour, in
  two steps from an initial state with a window of 1500 ms.
- Targets with a query. `README.md:166-167` configures `app.php?controller=products&action=list`
  as a target. It has no leading slash, so it continues the backend's URL, or its host
  when that has no path, and its query is overwritten by that of the request
  (`handler.go:107`): the service is asked for `app.php` with the query of the client.
  Taken for a regular expression, the target does not match its own text either
  (`hostrewriter.go:55`). `MCForwarding` has both (`Readme`); `TargetAsAsked` excludes them.

## 7. Not modelled, and the plan

Not modelled: the Apache log, the status page and the Prometheus metrics (output
only); the decoding of the configuration (its values are constants of the modules);
`hostbased.go` (commented out); headers other than those a property speaks of. Two
places have no property: the hook's result is read after the unlock
(`handler.go:152`), which matters for hooks that return a shared object, and nothing
documents what a hook may return; and the identifier of a cached response has
neither method nor JWT (`cache.go:95`), on which no document says anything either.

Order of the work so far: token store, authentication and their proofs; verifier,
cache, rate limiter, life cycle, dispatcher, provider tokens and login; then the map
that the token store implements, the listing, the serving of requests and the audit
log; then the proofs of the refinement, the listing and the other components, the
audit log and the dispatcher; then those of the sliding window, the targets, the
answers, the links and the walk through documents. What could follow: the monitoring
controllers beside registration, and proofs of the liveness properties with a prover
that handles `ENABLED`.
