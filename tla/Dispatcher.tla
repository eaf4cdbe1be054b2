----------------------------- MODULE Dispatcher -----------------------------
(***************************************************************************)
(* Building the dispatcher when the gateway starts:                        *)
(* BuildConsulDispatcher and BuildNoIntegrationDispatcher with their       *)
(* RegisterApplication (dispatcher/consul_dispatcher.go,                   *)
(* no_integration_dispatcher.go), the behaviours (behaviours.go) and       *)
(* Initialize (pathbased.go).                                              *)
(*                                                                         *)
(* The applications, and the routes of each, are kept in Go maps, which    *)
(* are walked in any order.  The router is httprouter, which is external:  *)
(* it panics on a route that conflicts with one it has, and a panic in the *)
(* building goroutine ends the process.  Operators that Consul talks to    *)
(* may change the key-value store at any time.                             *)
(*                                                                         *)
(* A route and a Consul key are sequences of path segments; <<>> stands    *)
(* for any route without a leading slash, such as the one left of "/".     *)
(***************************************************************************)
EXTENDS Integers, SequencesExt

CONSTANTS
    Base,          \* startup.ConsulBaseKey
    KvStates,      \* the sets of pairs that Consul may list under Base
    Startups,      \* how the gateway may be started: records of consul, whether
                   \* -consul-base is set, and apps, the function cfg.Applications
    AppFolders,    \* the segments that begin with "applications"
    Params,        \* the segments that are parameters, such as ":id": a colon,
                   \* then letters and digits
    BadJson,       \* a value that is not an application in JSON
    NoApp,         \* between two applications
    LoginUri,      \* the route of the login endpoint
    AllowLogin,    \* provider.allow_authentication
    EnableCORS,    \* authentication.enable_cors
    OptionsEnabled \* proxy.options.enabled

CatchAll == "*path"
Safe == {"GET", "HEAD", "OPTIONS"}
Unsafe == {"POST", "PUT", "PATCH", "DELETE"}

VARIABLES
    stage,     \* where the build is
    startup,   \* how the gateway was started
    kv,        \* the pairs in Consul's store
    loaded,    \* localCfg and appCfgs: what was read from Consul
    todo,      \* the applications the loop under way has not come to
    current,   \* the application being registered, or NoApp
    routes,    \* its routes that are not registered yet
    mux        \* the handlers in the router

buildVars == <<stage, startup, kv, loaded, todo, current, routes, mux>>

\* BuildConsulDispatcher is used, and the applications of the configuration file.
UsesConsul == startup.consul
static == startup.apps

Nothing == [apps |-> <<>>, rateLimiting |-> "static"]

BuildInit ==
    /\ startup \in Startups
    /\ stage = IF UsesConsul THEN "load" ELSE "components"
    /\ kv \in IF UsesConsul THEN KvStates ELSE {{}}
    /\ loaded = Nothing
    /\ todo = {}
    /\ current = NoApp
    /\ routes = {}
    /\ mux = {}

(***************************************************************************)
(* Reading the configuration from Consul.                                  *)
(***************************************************************************)

\* strings.TrimPrefix(s, prefix + "/").
TrimPrefix(s, prefix) ==
    IF IsStrictPrefix(prefix, s) THEN SubSeq(s, Len(prefix) + 1, Len(s)) ELSE s

Applications == Append(Base, "applications")

\* strings.HasPrefix compares text, so the first segment behind Base need only
\* begin with "applications"; a key in another folder keeps its whole name.
IsAppKey(key) ==
    /\ IsStrictPrefix(Base, key)
    /\ key[Len(Base) + 1] \in AppFolders
AppPairs == {p \in kv : IsAppKey(p.key)}

\* The loop over the pairs.  The section is what is left of Base + "/" when the
\* key is cut off it: the two arguments of TrimPrefix are in this order.
LoadedConfig ==
    [apps |-> [name \in {TrimPrefix(p.key, Applications) : p \in AppPairs} |->
                  (CHOOSE p \in AppPairs : TrimPrefix(p.key, Applications) = name).value],
     rateLimiting |-> IF \E p \in kv : TrimPrefix(Append(Base, ""), p.key) = <<"rate_limiting">>
                      THEN "consul" ELSE "static"]

Load ==
    /\ stage = "load"
    /\ \/ /\ \A p \in AppPairs : p.value # BadJson
          /\ loaded' = LoadedConfig
          /\ stage' = "components"
       \/ /\ \E p \in AppPairs : p.value = BadJson
          /\ stage' = "failed"
          /\ UNCHANGED loaded
    /\ UNCHANGED <<startup, kv, todo, current, routes, mux>>

\* Consul does not answer; NewAuthenticationHandler or a logger reports an error.
SetupError ==
    /\ stage \in {"load", "components", "wrap"}
    /\ stage' = "failed"
    /\ UNCHANGED <<startup, kv, loaded, todo, current, routes, mux>>

\* The window of the rate limiter cannot be parsed: Fatalf ends the process.
RateLimiterError ==
    /\ stage = "components"
    /\ stage' = "crashed"
    /\ UNCHANGED <<startup, kv, loaded, todo, current, routes, mux>>

\* The components are made, the behaviours added; the applications from Consul
\* come first.
Components ==
    /\ stage = "components" /\ UsesConsul
    /\ stage' = "consul"
    /\ todo' = DOMAIN loaded.apps
    /\ UNCHANGED <<startup, kv, loaded, current, routes, mux>>

\* The same in BuildNoIntegrationDispatcher, which has only static applications.
ComponentsNoIntegration ==
    /\ stage = "components" /\ ~UsesConsul
    /\ stage' = "static"
    /\ todo' = DOMAIN static
    /\ UNCHANGED <<startup, kv, loaded, current, routes, mux>>

(***************************************************************************)
(* Handlers.                                                               *)
(***************************************************************************)

\* Mutant: the first one added is taken for the first one called.
BehavioursReordered == <<"ratelimit", "authentication", "caching">>

\* In the order they are added: the last one added is the first one called.
Behaviours == <<"caching", "authentication", "ratelimit">>

\* Apply of one behaviour on the safe or on the unsafe handler.
Apply(b, app, safe, chain) ==
    CASE b = "caching" /\ app.caching /\ safe -> <<"cache">> \o chain
      [] b = "caching" /\ app.caching /\ ~safe /\ app.autoFlush -> <<"flush">> \o chain
      [] b = "authentication" /\ ~app.authDisable -> <<"auth">> \o chain
      [] b = "ratelimit" /\ app.rateLimiting -> <<"limit">> \o chain
      [] OTHER -> chain

\* The handlers that a request meets, the outermost first.
Chain(app, safe) ==
    LET Wrapped(i, chain) == Apply(Behaviours[i], app, safe, chain)
    IN Wrapped(3, Wrapped(2, Wrapped(1, <<"rewrite", "proxy">>)))

Handler(name, route, app, method) ==
    [app |-> name, cfg |-> app, route |-> route, method |-> method,
     chain |-> IF method = "OPTIONS" /\ OptionsEnabled
               THEN <<"options">> \o Chain(app, TRUE)
               ELSE Chain(app, method \in Safe)]

\* The keys of the routes map; a routing of another type has none.
RoutesOf(app) ==
    CASE app.routing = "path" -> {app.path, Append(app.path, CatchAll)}
      [] app.routing = "pattern" -> app.patterns
      [] OTHER -> {}

HandlersOf(name, app) ==
    {Handler(name, r, app, m) : r \in RoutesOf(app), m \in Safe \cup Unsafe}

\* One of the targets of the patterns is no regular expression.
Malformed(app) == app.routing = "pattern" /\ app.malformed

\* An application as its JSON is decoded: switches, and routes that are paths.
IsApplication(app) ==
    /\ {app.caching, app.autoFlush, app.authDisable, app.rateLimiting, app.malformed}
          \subseteq BOOLEAN
    /\ \A r \in RoutesOf(app) : r \in Seq(STRING)

\* The applications of either configuration.
Configured ==
    (UNION {{s.apps[name] : name \in DOMAIN s.apps} : s \in Startups})
    \cup ({p.value : p \in {q \in UNION KvStates : IsAppKey(q.key)}} \ {BadJson})

\* No application is called NoApp, and a value that can be decoded is one.
ASSUME BuildAssumption ==
    /\ {AllowLogin, EnableCORS, OptionsEnabled} \subseteq BOOLEAN
    /\ LoginUri \in Seq(STRING)
    /\ "applications" \in AppFolders
    /\ \A s \in Startups : NoApp \notin DOMAIN s.apps
    /\ \A pairs \in KvStates : \A p \in pairs :
          IsAppKey(p.key) => TrimPrefix(p.key, Applications) # NoApp
    /\ \A app \in Configured : IsApplication(app)

(***************************************************************************)
(* httprouter: a route must begin with a slash, may catch all only at its  *)
(* end, and where two routes part, neither may have a wildcard.            *)
(***************************************************************************)
Conflict(r, s) ==
    \/ r = s
    \/ \E i \in 1 .. Len(r) :
          /\ i <= Len(s) /\ SubSeq(r, 1, i - 1) = SubSeq(s, 1, i - 1)
          /\ r[i] # s[i] /\ {r[i], s[i]} \cap (Params \cup {CatchAll}) # {}

BadRoute(r) == r = <<>> \/ \E i \in 1 .. Len(r) - 1 : r[i] = CatchAll

Panics(r, ms) == BadRoute(r) \/ \E h \in mux : h.method \in ms /\ Conflict(r, h.route)

(***************************************************************************)
(* Registering.                                                            *)
(***************************************************************************)

Apps == IF stage = "consul" THEN loaded.apps ELSE static

\* The next turn of a loop over the applications.  NewHostRewriter panics on a
\* target that is no regular expression.
TakeApplication(name) ==
    /\ stage \in {"consul", "static"} /\ current = NoApp
    /\ name \in todo
    /\ current' = name
    /\ todo' = todo \ {name}
    /\ \/ /\ ~Malformed(Apps[name])
          /\ routes' = RoutesOf(Apps[name])
          /\ UNCHANGED stage
       \/ /\ Malformed(Apps[name])
          /\ stage' = "crashed"
          /\ UNCHANGED routes
    /\ UNCHANGED <<startup, kv, loaded, mux>>

\* Mutant: a route that is there already is left as it is.
RegisterRouteQuietly(r) ==
    /\ stage \in {"consul", "static"} /\ current # NoApp /\ r \in routes
    /\ routes' = routes \ {r}
    /\ mux' = IF \E h \in mux : Conflict(r, h.route) THEN mux
              ELSE mux \cup {Handler(current, r, Apps[current], m) : m \in Safe \cup Unsafe}
    /\ UNCHANGED <<startup, stage, kv, loaded, todo, current>>

\* The next turn of the loop over the routes of an application.
RegisterRoute(r) ==
    /\ stage \in {"consul", "static"} /\ current # NoApp /\ r \in routes
    /\ \/ /\ ~Panics(r, Safe \cup Unsafe)
          /\ mux' = mux \cup {Handler(current, r, Apps[current], m) : m \in Safe \cup Unsafe}
          /\ routes' = routes \ {r}
          /\ UNCHANGED stage
       \/ /\ Panics(r, Safe \cup Unsafe)
          /\ stage' = "crashed"
          /\ UNCHANGED <<mux, routes>>
    /\ UNCHANGED <<startup, kv, loaded, todo, current>>

ApplicationDone ==
    /\ stage \in {"consul", "static"} /\ current # NoApp /\ routes = {}
    /\ current' = NoApp
    /\ UNCHANGED <<startup, stage, kv, loaded, todo, routes, mux>>

\* The loop over the applications from Consul is over: the static ones follow.
ConsulLoopDone ==
    /\ stage = "consul" /\ current = NoApp /\ todo = {}
    /\ stage' = "static"
    /\ todo' = DOMAIN static
    /\ UNCHANGED <<startup, kv, loaded, current, routes, mux>>

StaticLoopDone ==
    /\ stage = "static" /\ current = NoApp /\ todo = {}
    /\ stage' = "initialize"
    /\ UNCHANGED <<startup, kv, loaded, todo, current, routes, mux>>

\* RegisterRoutes of the authentication decorator.
LoginMethods == IF EnableCORS THEN {"OPTIONS", "POST"} ELSE {"POST"}
LoginHandlers ==
    IF ~AllowLogin THEN {}
    ELSE {[app |-> NoApp, cfg |-> BadJson, route |-> LoginUri, method |-> m,
           chain |-> <<"login">>] : m \in LoginMethods}

Initialize ==
    /\ stage = "initialize"
    /\ IF AllowLogin /\ Panics(LoginUri, LoginMethods)
       THEN stage' = "crashed" /\ UNCHANGED mux
       ELSE stage' = "wrap" /\ mux' = mux \cup LoginHandlers
    /\ UNCHANGED <<startup, kv, loaded, todo, current, routes>>

\* The admin server and the loggers are added, and the servers started.
Wrap ==
    /\ stage = "wrap"
    /\ stage' = "serving"
    /\ UNCHANGED <<startup, kv, loaded, todo, current, routes, mux>>

ChangeKv(pairs) ==
    /\ UsesConsul /\ kv # pairs
    /\ kv' = pairs
    /\ UNCHANGED <<startup, stage, loaded, todo, current, routes, mux>>

BuildSteps ==
    \/ Load \/ SetupError \/ RateLimiterError \/ Components \/ ComponentsNoIntegration
    \/ \E name \in todo : TakeApplication(name)
    \/ \E r \in routes : RegisterRoute(r)
    \/ ApplicationDone \/ ConsulLoopDone \/ StaticLoopDone \/ Initialize \/ Wrap

BuildNext == BuildSteps \/ \E pairs \in KvStates : ChangeKv(pairs)

BuildSpec == BuildInit /\ [][BuildNext]_buildVars

(***************************************************************************)
(* Properties.                                                             *)
(***************************************************************************)

\* What a build that ran through has to contain, and what makes one impossible,
\* said of the two configurations as wholes.
Expected ==
    LoginHandlers
    \cup (UNION {HandlersOf(name, loaded.apps[name]) : name \in DOMAIN loaded.apps})
    \cup (UNION {HandlersOf(name, static[name]) : name \in DOMAIN static})
Impossible ==
    \/ \E h \in Expected : BadRoute(h.route)
    \/ \E h, i \in Expected : h # i /\ h.method = i.method /\ Conflict(h.route, i.route)
    \/ \E name \in DOMAIN loaded.apps \cap DOMAIN static :
          RoutesOf(loaded.apps[name]) \cap RoutesOf(static[name]) # {}
    \/ \E name \in DOMAIN loaded.apps : Malformed(loaded.apps[name])
    \/ \E name \in DOMAIN static : Malformed(static[name])

\* The order in which Go walks its maps decides nothing: a build that runs
\* through has registered every route of every application with its own handlers,
\* and there is one if and only if no two routes collide, no route is one that the
\* router rejects, and every target of a pattern is a regular expression.
OrderIrrelevant ==
    /\ stage \in {"wrap", "serving"} => mux = Expected /\ ~Impossible
    /\ stage = "crashed" /\ (mux # {} \/ current # NoApp) => Impossible

Position(h, x) == CHOOSE i \in 1 .. Len(h.chain) : h.chain[i] = x
Before(h, x, y) ==
    /\ \E i \in DOMAIN h.chain : h.chain[i] = x
    /\ \A i \in DOMAIN h.chain : h.chain[i] = y => Position(h, x) < i

\* "Order is important here": on every route, for every method, a request meets
\* the limiter before the authentication handler, and both before the cache and the
\* service, where the application has them.  It is the order of the handlers: whom
\* the authentication handler lets pass (every OPTIONS request, and whoever calls
\* the provider's own application) is in Authentication.
Guarded ==
    \A h \in {i \in mux : i.app # NoApp} :
        /\ ~h.cfg.authDisable => \A y \in {"cache", "flush", "proxy"} : Before(h, "auth", y)
        /\ h.cfg.rateLimiting => \A y \in {"auth", "cache", "flush", "proxy"} :
                                    Before(h, "limit", y)
=============================================================================
