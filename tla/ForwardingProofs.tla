-------------------------- MODULE ForwardingProofs --------------------------
(***************************************************************************)
(* Proofs about the gateway that serves: what the builders register        *)
(* (Dispatcher), what services are asked for, what their answers become    *)
(* and where links lead (Forwarding), and the walk through documents       *)
(* (JsonRewriter).                                                         *)
(*                                                                         *)
(* An exchange keeps no state from earlier ones, so the invariants are     *)
(* small; the work is in the operators, which replace text piece by piece  *)
(* and walk documents.  Facts about every number of replacements, and      *)
(* about documents of every depth, are shown for a set of numbers or of    *)
(* documents that has a least element (CountUp, DocumentInduction).        *)
(***************************************************************************)
EXTENDS Forwarding, WellFoundedInduction, FiniteSetTheorems, SequenceTheorems, TLAPS

(***************************************************************************)
(* The chains of handlers: a handler comes before another one if its rank  *)
(* is lower.                                                               *)
(***************************************************************************)

Ranked == {"options", "limit", "auth", "cache", "flush", "rewrite", "proxy"}
Rank == [x \in Ranked |-> CASE x = "options" -> 0 [] x = "limit" -> 1 [] x = "auth" -> 2
                            [] x = "rewrite" -> 4 [] x = "proxy" -> 5 [] OTHER -> 3]

Occurs(x, c) == \E i \in 1 .. Len(c) : c[i] = x

\* A chain of handlers of rank k and above, in the order of their ranks.
InOrder(c, k) ==
    /\ c \in Seq(Ranked)
    /\ \A i \in 1 .. Len(c) : Rank[c[i]] >= k
    /\ \A i, j \in 1 .. Len(c) : i < j => Rank[c[i]] < Rank[c[j]]

\* A handler put around a chain of higher ones comes first.
LEMMA Prepended ==
    ASSUME NEW x \in Ranked, NEW c, NEW k \in Nat, InOrder(c, k), Rank[x] < k
    PROVE  /\ InOrder(<<x>> \o c, Rank[x])
           /\ Occurs(x, <<x>> \o c)
           /\ \A y : Occurs(y, c) => Occurs(y, <<x>> \o c)
<1> DEFINE d == <<x>> \o c
<1>1. c \in Seq(Ranked) /\ Len(c) \in Nat /\ \A i \in 1 .. Len(c) : c[i] \in Ranked
  BY DEF InOrder
<1>2. /\ d \in Seq(Ranked) /\ Len(d) = Len(c) + 1 /\ d[1] = x
      /\ \A i \in 1 .. Len(c) : d[i + 1] = c[i]
  BY <1>1
<1>3. \A i \in 1 .. Len(d) : i = 1 \/ (i - 1 \in 1 .. Len(c) /\ d[i] = c[i - 1])
  BY <1>1, <1>2
<1>4. \A y \in Ranked : Rank[y] \in Nat
  BY DEF Rank, Ranked
<1> HIDE DEF d
<1>5. \A i \in 1 .. Len(d) : Rank[d[i]] >= Rank[x]
  <2> SUFFICES ASSUME NEW i \in 1 .. Len(d) PROVE Rank[d[i]] >= Rank[x]
    OBVIOUS
  <2>1. CASE i = 1
    BY <1>2, <1>4, <2>1
  <2>2. CASE i - 1 \in 1 .. Len(c) /\ d[i] = c[i - 1]
    <3>1. Rank[c[i - 1]] >= k
      BY <2>2 DEF InOrder
    <3> QED BY <1>1, <1>4, <2>2, <3>1
  <2> QED BY <1>3, <2>1, <2>2
<1>6. \A i, j \in 1 .. Len(d) : i < j => Rank[d[i]] < Rank[d[j]]
  <2> SUFFICES ASSUME NEW i \in 1 .. Len(d), NEW j \in 1 .. Len(d), i < j
               PROVE  Rank[d[i]] < Rank[d[j]]
    OBVIOUS
  <2>1. j - 1 \in 1 .. Len(c) /\ d[j] = c[j - 1]
    BY <1>1, <1>2, <1>3
  <2>2. CASE i = 1
    <3>1. Rank[c[j - 1]] >= k
      BY <2>1 DEF InOrder
    <3> QED BY <1>1, <1>2, <1>4, <2>1, <2>2, <3>1
  <2>3. CASE i - 1 \in 1 .. Len(c) /\ d[i] = c[i - 1]
    <3>1. i - 1 < j - 1
      BY <1>1, <1>2
    <3> QED BY <2>1, <2>3, <3>1 DEF InOrder
  <2> QED BY <1>3, <2>2, <2>3
<1>7. \A y : Occurs(y, c) => Occurs(y, d)
  <2> SUFFICES ASSUME NEW i \in 1 .. Len(c) PROVE Occurs(c[i], d)
    BY DEF Occurs
  <2>1. i + 1 \in 1 .. Len(d) /\ d[i + 1] = c[i]
    BY <1>1, <1>2
  <2> QED BY <2>1 DEF Occurs
<1>8. 1 \in 1 .. Len(d)
  BY <1>1, <1>2
<1>9. Occurs(x, d)
  BY <1>2, <1>8 DEF Occurs
<1> QED BY <1>2, <1>5, <1>6, <1>7, <1>9 DEF InOrder, d

\* A chain in order meets a handler before all those of higher ranks.
LEMMA MetBefore ==
    ASSUME NEW h, InOrder(h.chain, 0), NEW x \in Ranked, NEW y \in Ranked,
           Rank[x] < Rank[y], Occurs(x, h.chain)
    PROVE  Before(h, x, y)
<1> DEFINE c == h.chain
<1>1. Len(c) \in Nat /\ DOMAIN c = 1 .. Len(c)
  BY DEF InOrder
<1>2. Position(h, x) \in 1 .. Len(c) /\ c[Position(h, x)] = x
  BY DEF Position, Occurs
<1>3. \A z \in Ranked : Rank[z] \in Nat
  BY DEF Rank, Ranked
<1>4. ASSUME NEW i \in 1 .. Len(c), c[i] = y PROVE Position(h, x) < i
  <2>1. x # y
    BY <1>3
  <2>2. i # Position(h, x)
    BY <1>2, <1>4, <2>1
  <2>3. ~(i < Position(h, x))
    BY <1>2, <1>3, <1>4 DEF InOrder
  <2> QED BY <1>1, <1>2, <2>2, <2>3
<1> QED BY <1>1, <1>2, <1>4 DEF Before

\* What the behaviours make of a handler: their order is the one of the ranks, and
\* none is left out that the application asks for.
LEMMA ChainInOrder ==
    ASSUME NEW app, IsApplication(app), NEW safe \in BOOLEAN
    PROVE  /\ InOrder(Chain(app, safe), 1)
           /\ ~app.authDisable => Occurs("auth", Chain(app, safe))
           /\ app.rateLimiting => Occurs("limit", Chain(app, safe))
<1> DEFINE c0 == <<"rewrite", "proxy">>
           c1 == Apply("caching", app, safe, c0)
           c2 == Apply("authentication", app, safe, c1)
           c3 == Apply("ratelimit", app, safe, c2)
<1>1. /\ Rank["options"] = 0 /\ Rank["limit"] = 1 /\ Rank["auth"] = 2 /\ Rank["cache"] = 3
      /\ Rank["flush"] = 3 /\ Rank["rewrite"] = 4 /\ Rank["proxy"] = 5
  BY DEF Rank, Ranked
<1>2. {"options", "limit", "auth", "cache", "flush", "rewrite", "proxy"} \subseteq Ranked
  BY DEF Ranked
<1>3. {app.caching, app.autoFlush, app.authDisable, app.rateLimiting} \subseteq BOOLEAN
  BY DEF IsApplication
<1>4. Chain(app, safe) = c3
  BY DEF Chain, Behaviours
<1>5. \A c, j, k : InOrder(c, j) /\ j \in Nat /\ k \in Nat /\ k <= j => InOrder(c, k)
  <2>1. \A y \in Ranked : Rank[y] \in Nat
    BY DEF Rank, Ranked
  <2> QED BY <2>1 DEF InOrder
<1>6. InOrder(c0, 4)
  BY <1>1, <1>2 DEF InOrder
<1>7. InOrder(c1, 3)
  <2>1. c1 \in {c0, <<"cache">> \o c0, <<"flush">> \o c0}
    BY <1>3 DEF Apply
  <2>2. InOrder(<<"cache">> \o c0, 3) /\ InOrder(<<"flush">> \o c0, 3)
    BY <1>1, <1>2, <1>6, Prepended
  <2>3. InOrder(c0, 3)
    BY <1>5, <1>6
  <2> QED BY <2>1, <2>2, <2>3
<1> HIDE DEF c1
<1>8. InOrder(c2, 2) /\ (~app.authDisable => Occurs("auth", c2))
  <2>1. c2 = IF app.authDisable THEN c1 ELSE <<"auth">> \o c1
    BY <1>3 DEF Apply
  <2>2. InOrder(<<"auth">> \o c1, 2) /\ Occurs("auth", <<"auth">> \o c1)
    BY <1>1, <1>2, <1>7, Prepended
  <2>3. InOrder(c1, 2)
    BY <1>5, <1>7
  <2> QED BY <1>3, <2>1, <2>2, <2>3
<1> HIDE DEF c2
<1>9. /\ InOrder(c3, 1)
      /\ app.rateLimiting => Occurs("limit", c3)
      /\ Occurs("auth", c2) => Occurs("auth", c3)
  <2>1. c3 = IF app.rateLimiting THEN <<"limit">> \o c2 ELSE c2
    BY <1>3 DEF Apply
  <2>2. /\ InOrder(<<"limit">> \o c2, 1) /\ Occurs("limit", <<"limit">> \o c2)
        /\ Occurs("auth", c2) => Occurs("auth", <<"limit">> \o c2)
    BY <1>1, <1>2, <1>8, Prepended
  <2>3. InOrder(c2, 1)
    BY <1>5, <1>8
  <2> QED BY <1>3, <2>1, <2>2, <2>3
<1> QED BY <1>4, <1>8, <1>9

\* Guarded, of one handler.
GuardedHandler(h) ==
    /\ ~h.cfg.authDisable => \A y \in {"cache", "flush", "proxy"} : Before(h, "auth", y)
    /\ h.cfg.rateLimiting => \A y \in {"auth", "cache", "flush", "proxy"} : Before(h, "limit", y)

\* The handler that is registered for a route and a method is guarded.
LEMMA HandlerGuarded ==
    ASSUME NEW name, NEW r, NEW app, IsApplication(app), NEW m \in Safe \cup Unsafe
    PROVE  GuardedHandler(Handler(name, r, app, m))
<1> DEFINE h == Handler(name, r, app, m)
<1>1. h.cfg = app
  BY DEF Handler
<1>2. \/ h.chain = Chain(app, FALSE)
      \/ h.chain = Chain(app, TRUE)
      \/ h.chain = <<"options">> \o Chain(app, TRUE)
  <2>1. (m \in Safe) = TRUE \/ (m \in Safe) = FALSE
    OBVIOUS
  <2>2. Chain(app, m \in Safe) = Chain(app, TRUE) \/ Chain(app, m \in Safe) = Chain(app, FALSE)
    BY <2>1, Zenon
  <2> QED BY <2>2 DEF Handler
<1>3. PICK safe \in BOOLEAN :
        \/ h.chain = Chain(app, safe)
        \/ h.chain = <<"options">> \o Chain(app, safe)
  BY <1>2
<1> HIDE DEF h
<1>4. /\ Rank["options"] = 0 /\ Rank["limit"] = 1 /\ Rank["auth"] = 2 /\ Rank["cache"] = 3
      /\ Rank["flush"] = 3 /\ Rank["proxy"] = 5
  BY DEF Rank, Ranked
<1>5. {"options", "limit", "auth", "cache", "flush", "proxy"} \subseteq Ranked
  BY DEF Ranked
<1>6. /\ InOrder(h.chain, 0)
      /\ ~app.authDisable => Occurs("auth", h.chain)
      /\ app.rateLimiting => Occurs("limit", h.chain)
  <2>1. CASE h.chain = Chain(app, safe)
    <3>1. \A y \in Ranked : Rank[y] \in Nat
      BY DEF Rank, Ranked
    <3> QED BY <2>1, <3>1, ChainInOrder DEF InOrder
  <2>2. CASE h.chain = <<"options">> \o Chain(app, safe)
    BY <1>4, <1>5, <2>2, ChainInOrder, Prepended
  <2> QED BY <1>3, <2>1, <2>2
<1>7. ASSUME Occurs("auth", h.chain), NEW y \in {"cache", "flush", "proxy"}
      PROVE  Before(h, "auth", y)
  BY <1>4, <1>5, <1>6, <1>7, MetBefore
<1>8. ASSUME Occurs("limit", h.chain), NEW y \in {"auth", "cache", "flush", "proxy"}
      PROVE  Before(h, "limit", y)
  BY <1>4, <1>5, <1>6, <1>8, MetBefore
<1> QED BY <1>1, <1>6, <1>7, <1>8 DEF GuardedHandler, h

(***************************************************************************)
(* The build.  What is in the router at any time is a function of where    *)
(* the loops are, and no two of its routes collide.                        *)
(***************************************************************************)

Methods == Safe \cup Unsafe

RouteHandlers(n, r, app) == {Handler(n, r, app, m) : m \in Methods}

\* The routes of application n that are not registered yet, when cur is the
\* application at hand and rs are its routes that are left.
RoutesLeft(n, cur, rs) == IF n = cur THEN rs ELSE {}

\* What a loop over apps has registered when it has not come to the names in ns.
Walked(apps, ns, cur, rs) ==
    UNION {{Handler(n, r, apps[n], m) : r \in RoutesOf(apps[n]) \ RoutesLeft(n, cur, rs),
                                        m \in Methods} : n \in DOMAIN apps \ ns}
All(apps) == UNION {HandlersOf(n, apps[n]) : n \in DOMAIN apps}

\* No application of both configurations has claimed a route twice so far.
ClaimedOnce(ns, cur, rs) ==
    \A n \in (DOMAIN loaded.apps \cap DOMAIN static) \ ns :
        RoutesOf(loaded.apps[n]) \cap (RoutesOf(static[n]) \ RoutesLeft(n, cur, rs)) = {}

Decoded(apps) ==
    \A n \in DOMAIN apps : n # NoApp /\ apps[n] \in Configured /\ IsApplication(apps[n])

BuildTypes ==
    /\ startup \in Startups
    /\ kv = {} \/ kv \in KvStates
    /\ Decoded(loaded.apps)
    /\ stage = "load" => UsesConsul
    /\ ~UsesConsul => loaded = Nothing

LoopInv ==
    /\ stage \in {"consul", "static"} =>
          /\ todo \subseteq DOMAIN Apps
          /\ current # NoApp => /\ current \in DOMAIN Apps \ todo
                                /\ routes \subseteq RoutesOf(Apps[current])
    /\ stage \notin {"consul", "static", "crashed"} => current = NoApp

MuxInv ==
    /\ stage \in {"load", "components"} => mux = {}
    /\ stage = "consul" => mux = Walked(loaded.apps, todo, current, routes)
    /\ stage = "static" => /\ mux = All(loaded.apps) \cup Walked(static, todo, current, routes)
                           /\ ClaimedOnce(todo, current, routes)
    /\ stage = "initialize" => mux = All(loaded.apps) \cup All(static)
    /\ stage \in {"wrap", "serving"} => mux = Expected
    /\ stage \in {"initialize", "wrap", "serving"} => ClaimedOnce({}, NoApp, {})

\* The routes in the router: paths, none of which collides with another.
Apart(H) ==
    /\ \A h \in H : ~BadRoute(h.route) /\ h.route \in Seq(STRING)
    /\ \A h, i \in H : h # i /\ h.method = i.method => ~Conflict(h.route, i.route)

\* A build only crashes for a collision, unless it does so before the first route.
CrashInv == stage = "crashed" /\ (mux # {} \/ current # NoApp) => Impossible

BuildInv == BuildTypes /\ LoopInv /\ MuxInv /\ Apart(mux) /\ CrashInv /\ Guarded

\* A loop at its start, at its turns and at its end.
LEMMA WalkedMoves ==
    ASSUME NEW apps, Decoded(apps), NEW ns, NEW rs
    PROVE  /\ Walked(apps, DOMAIN apps, NoApp, rs) = {}
           /\ Walked(apps, {}, NoApp, rs) = All(apps)
           /\ \A n \in ns : n \in DOMAIN apps =>
                 Walked(apps, ns \ {n}, n, RoutesOf(apps[n])) = Walked(apps, ns, NoApp, rs)
           /\ \A n : Walked(apps, ns, n, {}) = Walked(apps, ns, NoApp, {})
<1> DEFINE In(h, ms, cur, ls) ==
              \E n \in DOMAIN apps \ ms : \E r \in RoutesOf(apps[n]) \ RoutesLeft(n, cur, ls) :
                  \E m \in Methods : h = Handler(n, r, apps[n], m)
<1>1. \A h, ms, cur, ls : h \in Walked(apps, ms, cur, ls) <=> In(h, ms, cur, ls)
  BY DEF Walked
<1>2. \A h : h \in All(apps) <=> \E n \in DOMAIN apps : \E r \in RoutesOf(apps[n]) :
                                     \E m \in Methods : h = Handler(n, r, apps[n], m)
  BY DEF All, HandlersOf, Methods
<1>3. NoApp \notin DOMAIN apps
  BY DEF Decoded
<1>4. Walked(apps, DOMAIN apps, NoApp, rs) = {}
  BY <1>1
<1>5. Walked(apps, {}, NoApp, rs) = All(apps)
  <2>1. \A h : h \in Walked(apps, {}, NoApp, rs) <=> h \in All(apps)
    BY <1>1, <1>2, <1>3 DEF RoutesLeft
  <2> QED BY <2>1
<1>6. ASSUME NEW n \in ns, n \in DOMAIN apps
      PROVE  Walked(apps, ns \ {n}, n, RoutesOf(apps[n])) = Walked(apps, ns, NoApp, rs)
  <2>1. \A h : In(h, ns \ {n}, n, RoutesOf(apps[n])) <=> In(h, ns, NoApp, rs)
    BY <1>3, <1>6 DEF RoutesLeft
  <2>2. \A h : h \in Walked(apps, ns \ {n}, n, RoutesOf(apps[n])) <=>
                   h \in Walked(apps, ns, NoApp, rs)
    BY <1>1, <2>1
  <2> QED BY <2>2
<1>7. ASSUME NEW n PROVE Walked(apps, ns, n, {}) = Walked(apps, ns, NoApp, {})
  BY DEF Walked, RoutesLeft
<1> QED BY <1>4, <1>5, <1>6, <1>7

\* The turn for one route of application n.
LEMMA RouteWalked ==
    ASSUME NEW apps, NEW ns, NEW rs, NEW n \in DOMAIN apps \ ns, NEW r \in rs,
           r \in RoutesOf(apps[n])
    PROVE  Walked(apps, ns, n, rs \ {r}) =
               Walked(apps, ns, n, rs) \cup RouteHandlers(n, r, apps[n])
<1> DEFINE In(h, ls) ==
              \E k \in DOMAIN apps \ ns : \E q \in RoutesOf(apps[k]) \ RoutesLeft(k, n, ls) :
                  \E m \in Methods : h = Handler(k, q, apps[k], m)
<1>1. \A h, ls : h \in Walked(apps, ns, n, ls) <=> In(h, ls)
  BY DEF Walked
<1>2. \A h : In(h, rs \ {r}) <=> In(h, rs) \/ \E m \in Methods : h = Handler(n, r, apps[n], m)
  BY DEF RoutesLeft
<1> HIDE DEF In
<1>3. \A h : h \in Walked(apps, ns, n, rs \ {r}) <=>
                 h \in Walked(apps, ns, n, rs) \cup RouteHandlers(n, r, apps[n])
  BY <1>1, <1>2 DEF RouteHandlers
<1> QED BY <1>3

\* Whether two paths collide does not depend on their order.
LEMMA ConflictSym ==
    ASSUME NEW r \in Seq(STRING), NEW s \in Seq(STRING), Conflict(r, s)
    PROVE  Conflict(s, r)
BY DEF Conflict

\* Both configurations hold applications.
LEMMA AppsDecoded ==
    BuildTypes => Decoded(loaded.apps) /\ Decoded(static) /\ Decoded(Apps)
<1>1. BuildTypes => Decoded(static)
  BY BuildAssumption DEF BuildTypes, Decoded, static, Configured
<1> QED BY <1>1 DEF BuildTypes, Apps

\* What reading the store gives: applications.
LEMMA LoadDecoded ==
    ASSUME BuildTypes, \A p \in AppPairs : p.value # BadJson
    PROVE  Decoded(LoadedConfig.apps)
<1> DEFINE Names == {TrimPrefix(p.key, Applications) : p \in AppPairs}
           Of(n) == CHOOSE p \in AppPairs : TrimPrefix(p.key, Applications) = n
<1>1. LoadedConfig.apps = [n \in Names |-> Of(n).value]
  BY DEF LoadedConfig
<1>2. ASSUME NEW n \in Names PROVE n # NoApp /\ Of(n).value \in Configured
  <2>1. Of(n) \in AppPairs /\ TrimPrefix(Of(n).key, Applications) = n
    BY <1>2
  <2>2. Of(n) \in kv /\ IsAppKey(Of(n).key) /\ kv \in KvStates
    BY <2>1 DEF AppPairs, BuildTypes
  <2> HIDE DEF Of
  <2>3. Of(n).value # BadJson
    BY <2>1
  <2>4. Of(n).value \in Configured
    BY <2>2, <2>3 DEF Configured
  <2> QED BY <2>1, <2>2, <2>4, BuildAssumption
<1> HIDE DEF Names, Of
<1> QED BY <1>1, <1>2, BuildAssumption DEF Decoded

\* What a handler is registered for.
LEMMA HandlerFields ==
    ASSUME NEW n, NEW r, NEW app, NEW m
    PROVE  LET h == Handler(n, r, app, m)
           IN h.app = n /\ h.route = r /\ h.cfg = app /\ h.method = m
BY DEF Handler

\* Handlers of one new route, one for each of some methods, may be added if the
\* router does not panic.
LEMMA ApartAdd ==
    ASSUME Apart(mux), NEW N, NEW r \in Seq(STRING), NEW ms, ~Panics(r, ms),
           \A h \in N : h.route = r /\ h.method \in ms,
           \A h, i \in N : h.method = i.method => h = i
    PROVE  Apart(mux \cup N)
<1>1. \A h \in mux \cup N : ~BadRoute(h.route) /\ h.route \in Seq(STRING)
  BY DEF Apart, Panics
<1>2. ASSUME NEW h \in N, NEW i \in mux, h.method = i.method
      PROVE  ~Conflict(h.route, i.route) /\ ~Conflict(i.route, h.route)
  <2>1. ~Conflict(r, i.route)
    BY <1>2 DEF Panics
  <2>2. ~Conflict(i.route, r)
    BY <1>1, <2>1, ConflictSym
  <2> QED BY <2>1, <2>2
<1>3. ASSUME NEW h \in mux \cup N, NEW i \in mux \cup N, h # i, h.method = i.method
      PROVE  ~Conflict(h.route, i.route)
  <2>1. CASE h \in mux /\ i \in mux
    BY <1>3, <2>1 DEF Apart
  <2>2. CASE h \in N /\ i \in mux
    BY <1>2, <1>3, <2>2
  <2>3. CASE h \in mux /\ i \in N
    BY <1>2, <1>3, <2>3
  <2>4. CASE h \in N /\ i \in N
    BY <1>3, <2>4
  <2> QED BY <2>1, <2>2, <2>3, <2>4
<1> QED BY <1>1, <1>3 DEF Apart

\* A route that is registered joins the handlers of its application.
LEMMA RegisterKeeps ==
    ASSUME BuildInv, NEW r \in routes, RegisterRoute(r), ~Panics(r, Methods)
    PROVE  BuildInv'
<1> DEFINE app == Apps[current]
           new == RouteHandlers(current, r, app)
<1>1. /\ stage \in {"consul", "static"} /\ current # NoApp
      /\ mux' = mux \cup new /\ routes' = routes \ {r} /\ stage' = stage
      /\ UNCHANGED <<startup, kv, loaded, todo, current>>
  BY DEF RegisterRoute, Methods, RouteHandlers
<1>2. /\ todo \subseteq DOMAIN Apps /\ current \in DOMAIN Apps \ todo
      /\ routes \subseteq RoutesOf(app)
  BY <1>1 DEF BuildInv, LoopInv
<1>3. Decoded(loaded.apps) /\ Decoded(static) /\ Decoded(Apps)
  BY AppsDecoded DEF BuildInv
<1>4. IsApplication(app) /\ r \in Seq(STRING) /\ r \in RoutesOf(app)
  BY <1>2, <1>3 DEF Decoded, IsApplication
<1>6. \A h \in new : h.app = current /\ h.route = r /\ h.cfg = app /\ h.method \in Methods
  BY HandlerFields DEF RouteHandlers
<1>7. \A h, i \in new : h.method = i.method => h = i
  BY HandlerFields DEF RouteHandlers
<1>8. static' = static /\ UsesConsul' = UsesConsul /\ Apps' = Apps
  BY <1>1 DEF static, UsesConsul, Apps
<1> HIDE DEF app, new
<1>9. BuildTypes'
  BY <1>1, <1>8 DEF BuildInv, BuildTypes
<1>10. LoopInv'
  BY <1>1, <1>2, <1>8 DEF LoopInv, app
<1>11. Apart(mux)'
  BY <1>1, <1>4, <1>6, <1>7, ApartAdd DEF BuildInv
<1>12. CrashInv'
  BY <1>1 DEF CrashInv
<1>13. Guarded'
  <2>1. \A h \in new : GuardedHandler(h)
    BY <1>4, HandlerGuarded DEF new, Methods, RouteHandlers
  <2>2. \A h \in mux : h.app # NoApp => GuardedHandler(h)
    BY DEF BuildInv, Guarded, GuardedHandler
  <2>3. \A h \in mux' : h.app # NoApp => GuardedHandler(h)
    BY <1>1, <2>1, <2>2
  <2> QED BY <2>3 DEF Guarded, GuardedHandler
<1>14. Walked(Apps, todo, current, routes \ {r}) = Walked(Apps, todo, current, routes) \cup new
  <2>1. current \in DOMAIN Apps \ todo /\ r \in RoutesOf(Apps[current])
    BY <1>2, <1>4 DEF app
  <2> QED BY <2>1, RouteWalked DEF new, app
<1>15. CASE stage = "consul"
  <2>1. Apps = loaded.apps
    BY <1>15 DEF Apps
  <2>2. mux' = Walked(loaded.apps, todo, current, routes \ {r})
    BY <1>1, <1>3, <1>14, <1>15, <2>1 DEF BuildInv, MuxInv
  <2>3. MuxInv'
    BY <1>1, <1>15, <2>2 DEF MuxInv
  <2> QED BY <1>9, <1>10, <1>11, <1>12, <1>13, <2>3 DEF BuildInv
<1>16. CASE stage = "static"
  <2>1. Apps = static
    BY <1>16 DEF Apps
  <2>2. mux = All(loaded.apps) \cup Walked(static, todo, current, routes)
    BY <1>16 DEF BuildInv, MuxInv
  <2>3. mux' = All(loaded.apps) \cup Walked(static, todo, current, routes \ {r})
    BY <1>1, <1>3, <1>14, <2>1, <2>2
  <2>4. ASSUME current \in DOMAIN loaded.apps PROVE r \notin RoutesOf(loaded.apps[current])
    <3> SUFFICES ASSUME r \in RoutesOf(loaded.apps[current]) PROVE FALSE
      OBVIOUS
    <3> DEFINE h == Handler(current, r, loaded.apps[current], "GET")
    <3>1. "GET" \in Methods
      BY DEF Methods, Safe
    <3>2. h \in HandlersOf(current, loaded.apps[current])
      BY <3>1 DEF HandlersOf, Methods
    <3>3. h \in mux
      BY <2>2, <2>4, <3>2 DEF All
    <3>4. h.route = r /\ h.method = "GET"
      BY HandlerFields
    <3>5. Conflict(r, h.route)
      BY <3>4 DEF Conflict
    <3> QED BY <3>1, <3>3, <3>4, <3>5 DEF Panics
  <2>5. ClaimedOnce(todo, current, routes)
    BY <1>16 DEF BuildInv, MuxInv
  <2>6. ClaimedOnce(todo, current, routes \ {r})
    BY <2>4, <2>5 DEF ClaimedOnce, RoutesLeft
  <2>7. ClaimedOnce(todo, current, routes)'
    BY <1>1, <1>8, <2>6 DEF ClaimedOnce, RoutesLeft
  <2>8. MuxInv'
    BY <1>1, <1>8, <1>16, <2>3, <2>7 DEF MuxInv
  <2> QED BY <1>9, <1>10, <1>11, <1>12, <1>13, <2>8 DEF BuildInv
<1> QED BY <1>1, <1>15, <1>16

\* Where a handler that a loop has registered comes from.
LEMMA WalkedFrom ==
    ASSUME NEW apps, NEW ns, NEW cur, NEW rs
    PROVE  /\ \A h \in Walked(apps, ns, cur, rs) :
                 h \in All(apps) /\ h.route \notin RoutesLeft(h.app, cur, rs)
           /\ \A h \in All(apps) : h.app \in DOMAIN apps /\ h.route \in RoutesOf(apps[h.app])
<1>1. ASSUME NEW h \in Walked(apps, ns, cur, rs)
      PROVE  h \in All(apps) /\ h.route \notin RoutesLeft(h.app, cur, rs)
  <2>1. PICK n \in DOMAIN apps \ ns :
          \E r \in RoutesOf(apps[n]) \ RoutesLeft(n, cur, rs) : \E m \in Methods :
             h = Handler(n, r, apps[n], m)
    BY DEF Walked
  <2>2. PICK r \in RoutesOf(apps[n]) \ RoutesLeft(n, cur, rs), m \in Methods :
          h = Handler(n, r, apps[n], m)
    BY <2>1
  <2>3. h.app = n /\ h.route = r
    BY <2>2, HandlerFields
  <2>4. h \in HandlersOf(n, apps[n])
    BY <2>2 DEF HandlersOf, Methods
  <2> QED BY <2>3, <2>4 DEF All
<1>2. ASSUME NEW h \in All(apps) PROVE h.app \in DOMAIN apps /\ h.route \in RoutesOf(apps[h.app])
  <2>1. PICK n \in DOMAIN apps : h \in HandlersOf(n, apps[n])
    BY DEF All
  <2>2. PICK r \in RoutesOf(apps[n]), m \in Methods : h = Handler(n, r, apps[n], m)
    BY <2>1 DEF HandlersOf, Methods
  <2> QED BY <2>2, HandlerFields
<1> QED BY <1>1, <1>2

\* The loops register nothing but what the configurations ask for.
LEMMA MuxExpected ==
    ASSUME BuildInv, stage \in {"consul", "static", "initialize"}
    PROVE  mux \subseteq All(loaded.apps) \cup All(static)
<1>1. CASE stage = "consul"
  BY <1>1, WalkedFrom DEF BuildInv, MuxInv
<1>2. CASE stage = "static"
  BY <1>2, WalkedFrom DEF BuildInv, MuxInv
<1>3. CASE stage = "initialize"
  BY <1>3 DEF BuildInv, MuxInv
<1> QED BY <1>1, <1>2, <1>3

\* What a build has to register, by the places it comes from.
LEMMA ExpectedParts == Expected = LoginHandlers \cup All(loaded.apps) \cup All(static)
BY Zenon DEF Expected, All

\* A router that panics on a route has been given a collision, even if the other
\* route is the same one of an application that is in both configurations.
LEMMA RegisterPanics ==
    ASSUME BuildInv, NEW r \in routes, RegisterRoute(r), Panics(r, Methods)
    PROVE  BuildInv'
<1> DEFINE app == Apps[current]
<1>1. /\ stage \in {"consul", "static"} /\ current # NoApp /\ stage' = "crashed"
      /\ UNCHANGED <<startup, kv, loaded, todo, current, routes, mux>>
  BY DEF RegisterRoute, Methods
<1>2. current \in DOMAIN Apps /\ r \in RoutesOf(app)
  BY <1>1 DEF BuildInv, LoopInv
<1>3. mux \subseteq Expected
  BY <1>1, MuxExpected, ExpectedParts
<1>4. All(Apps) \subseteq Expected
  BY ExpectedParts DEF Apps
<1>5. ASSUME NEW m \in Methods PROVE Handler(current, r, app, m) \in Expected
  <2>1. Handler(current, r, app, m) \in HandlersOf(current, app)
    BY <1>2 DEF HandlersOf, Methods
  <2>2. Handler(current, r, app, m) \in All(Apps)
    BY <1>2, <2>1 DEF All
  <2> QED BY <1>4, <2>2
<1>6. Impossible
  <2>1. CASE BadRoute(r)
    <3>1. "GET" \in Methods
      BY DEF Methods, Safe
    <3>2. Handler(current, r, app, "GET").route = r
      BY HandlerFields
    <3> QED BY <1>5, <2>1, <3>1, <3>2 DEF Impossible
  <2>2. CASE ~BadRoute(r)
    <3>1. PICK h \in mux : h.method \in Methods /\ Conflict(r, h.route)
      BY <2>2 DEF Panics
    <3> DEFINE i == Handler(current, r, app, h.method)
    <3>2. i.app = current /\ i.route = r /\ i.method = h.method /\ i \in Expected
      BY <1>5, <3>1, HandlerFields
    <3> HIDE DEF i
    <3>3. CASE h # i
      BY <1>3, <3>1, <3>2, <3>3 DEF Impossible
    <3>4. CASE h = i
      <4>1. h.app = current /\ h.route = r
        BY <3>2, <3>4
      <4>2. h \notin Walked(Apps, todo, current, routes)
        BY <4>1, WalkedFrom DEF RoutesLeft
      <4>3. stage = "static" /\ h \in All(loaded.apps)
        BY <1>1, <4>2 DEF BuildInv, MuxInv, Apps
      <4>4. current \in DOMAIN loaded.apps /\ r \in RoutesOf(loaded.apps[current])
        BY <4>1, <4>3, WalkedFrom
      <4>5. current \in DOMAIN static /\ r \in RoutesOf(static[current])
        BY <1>2, <4>3 DEF Apps
      <4> QED BY <4>4, <4>5 DEF Impossible
    <3> QED BY <3>3, <3>4
  <2> QED BY <2>1, <2>2
<1>7. static' = static /\ UsesConsul' = UsesConsul
  BY <1>1 DEF static, UsesConsul
<1>8. Impossible'
  BY <1>1, <1>6, <1>7 DEF Impossible, Expected
<1>9. BuildTypes'
  BY <1>1, <1>7 DEF BuildInv, BuildTypes
<1>10. LoopInv' /\ MuxInv' /\ CrashInv'
  BY <1>1, <1>8 DEF LoopInv, MuxInv, CrashInv
<1>11. Apart(mux)' /\ Guarded'
  BY <1>1 DEF BuildInv, Guarded
<1> QED BY <1>9, <1>10, <1>11 DEF BuildInv

\* The login endpoint comes last and is subject to the same rule.
LEMMA InitializeKeeps ==
    ASSUME BuildInv, Initialize
    PROVE  BuildInv'
<1>1. /\ stage = "initialize" /\ current = NoApp
      /\ UNCHANGED <<startup, kv, loaded, todo, current, routes>>
  BY DEF Initialize, BuildInv, LoopInv
<1>2. static' = static /\ UsesConsul' = UsesConsul /\ Expected' = Expected
  BY <1>1 DEF static, UsesConsul, Expected
<1>3. mux = All(loaded.apps) \cup All(static) /\ ClaimedOnce({}, NoApp, {})
  BY <1>1 DEF BuildInv, MuxInv
<1>4. BuildTypes'
  BY <1>1, <1>2 DEF BuildInv, BuildTypes, Initialize
<1>5. CASE AllowLogin /\ Panics(LoginUri, LoginMethods)
  <2>1. stage' = "crashed" /\ mux' = mux
    BY <1>5 DEF Initialize
  <2> DEFINE i(m) == [app |-> NoApp, cfg |-> BadJson, route |-> LoginUri,
                      method |-> m, chain |-> <<"login">>]
  <2>2. \A m \in LoginMethods : i(m) \in LoginHandlers
    BY <1>5 DEF LoginHandlers
  <2>3. \A m : i(m).app = NoApp /\ i(m).route = LoginUri /\ i(m).method = m
    OBVIOUS
  <2> HIDE DEF i
  <2>4. ASSUME BadRoute(LoginUri) PROVE Impossible
    <3>1. "POST" \in LoginMethods
      BY DEF LoginMethods
    <3>2. i("POST") \in Expected /\ i("POST").route = LoginUri
      BY <2>2, <2>3, <3>1, ExpectedParts
    <3> QED BY <2>4, <3>2 DEF Impossible
  <2>5. ASSUME ~BadRoute(LoginUri) PROVE Impossible
    <3>1. PICK h \in mux : h.method \in LoginMethods /\ Conflict(LoginUri, h.route)
      BY <1>5, <2>5 DEF Panics
    <3>2. h.app # NoApp
      BY <1>3, WalkedFrom, AppsDecoded DEF BuildInv, Decoded
    <3> DEFINE k == i(h.method)
    <3>3. k \in Expected /\ k.app = NoApp /\ k.route = LoginUri /\ k.method = h.method
      BY <2>2, <2>3, <3>1, ExpectedParts
    <3>4. h \in Expected /\ k # h /\ Conflict(k.route, h.route)
      BY <1>3, <3>1, <3>2, <3>3, ExpectedParts
    <3> HIDE DEF k
    <3> QED BY <3>3, <3>4 DEF Impossible
  <2>6. Impossible
    BY <2>4, <2>5, Zenon
  <2>7. Impossible'
    BY <1>1, <1>2, <2>6 DEF Impossible
  <2>8. LoopInv' /\ MuxInv' /\ CrashInv'
    BY <2>1, <2>7 DEF LoopInv, MuxInv, CrashInv
  <2>9. Apart(mux)' /\ Guarded'
    BY <2>1 DEF BuildInv, Guarded
  <2> QED BY <1>4, <2>8, <2>9 DEF BuildInv
<1>6. CASE ~(AllowLogin /\ Panics(LoginUri, LoginMethods))
  <2>1. stage' = "wrap" /\ mux' = mux \cup LoginHandlers
    BY <1>6 DEF Initialize
  <2>2. mux' = Expected'
    BY <1>2, <1>3, <2>1, ExpectedParts
  <2>3. ClaimedOnce({}, NoApp, {})'
    BY <1>1, <1>2, <1>3 DEF ClaimedOnce, RoutesLeft
  <2>4. LoopInv' /\ MuxInv' /\ CrashInv'
    BY <1>1, <2>1, <2>2, <2>3 DEF LoopInv, MuxInv, CrashInv
  <2>5. \A h \in LoginHandlers : h.app = NoApp /\ h.route = LoginUri /\ h.method \in LoginMethods
    BY DEF LoginHandlers
  <2>6. \A h, k \in LoginHandlers : h.method = k.method => h = k
    BY DEF LoginHandlers
  <2>7. Apart(mux)'
    <3>1. CASE AllowLogin
      BY <1>6, <2>1, <2>5, <2>6, <3>1, ApartAdd, BuildAssumption DEF BuildInv
    <3>2. CASE ~AllowLogin
      BY <2>1, <3>2 DEF BuildInv, LoginHandlers
    <3> QED BY <3>1, <3>2
  <2>8. Guarded'
    BY <2>1, <2>5 DEF BuildInv, Guarded
  <2> QED BY <1>4, <2>4, <2>7, <2>8 DEF BuildInv
<1> QED BY <1>5, <1>6

\* The next application: its routes come next, or it is one that NewHostRewriter
\* panics on.
LEMMA TakeKeeps ==
    ASSUME BuildInv, NEW name \in todo, TakeApplication(name)
    PROVE  BuildInv'
<1>1. Decoded(loaded.apps) /\ Decoded(static)
  BY AppsDecoded DEF BuildInv
<1>2. /\ stage \in {"consul", "static"} /\ current = NoApp /\ current' = name
      /\ todo' = todo \ {name} /\ UNCHANGED <<startup, kv, loaded, mux>>
  BY DEF TakeApplication
<1>3. /\ static' = static /\ UsesConsul' = UsesConsul
      /\ Expected' = Expected /\ Impossible' = Impossible
  BY <1>2 DEF static, UsesConsul, Expected, Impossible
<1>4. CASE Malformed(Apps[name])
  <2>1. stage' = "crashed"
    BY <1>4 DEF TakeApplication
  <2>2. name \in DOMAIN Apps
    BY <1>2 DEF BuildInv, LoopInv
  <2>3. Impossible
    BY <1>4, <2>2 DEF Impossible, Apps
  <2>4. BuildTypes'
    BY <1>2, <1>3, <2>1 DEF BuildInv, BuildTypes
  <2>5. LoopInv' /\ MuxInv' /\ CrashInv'
    BY <1>3, <2>1, <2>3 DEF LoopInv, MuxInv, CrashInv
  <2>6. Apart(mux)' /\ Guarded'
    BY <1>2 DEF BuildInv, Guarded
  <2> QED BY <2>4, <2>5, <2>6 DEF BuildInv
<1>5. CASE ~Malformed(Apps[name])
  <2>1. /\ stage \in {"consul", "static"} /\ stage' = stage /\ current = NoApp /\ current' = name
        /\ routes' = RoutesOf(Apps[name]) /\ todo' = todo \ {name}
        /\ UNCHANGED <<startup, kv, loaded, mux>>
    BY <1>5 DEF TakeApplication
  <2>2. todo \subseteq DOMAIN Apps /\ name \in DOMAIN Apps
    BY <2>1 DEF BuildInv, LoopInv
  <2>3. Apps' = Apps
    BY <1>3, <2>1 DEF Apps
  <2>4. Decoded(Apps)
    BY AppsDecoded DEF BuildInv
  <2>5. Walked(Apps, todo \ {name}, name, RoutesOf(Apps[name])) = Walked(Apps, todo, NoApp, routes)
    BY <2>2, <2>4, WalkedMoves
  <2>6. BuildTypes'
    BY <1>3, <2>1 DEF BuildInv, BuildTypes
  <2>7. LoopInv' /\ CrashInv'
    BY <2>1, <2>2, <2>3 DEF LoopInv, CrashInv
  <2>8. MuxInv'
    <3>1. CASE stage = "consul"
      <4>1. mux' = Walked(loaded.apps, todo, current, routes)'
        BY <2>1, <2>5, <3>1 DEF BuildInv, MuxInv, Apps
      <4> QED BY <2>1, <3>1, <4>1 DEF MuxInv
    <3>2. CASE stage = "static"
      <4>1. Apps = static /\ static' = static
        BY <1>3, <2>1, <3>2 DEF Apps
      <4>2. mux' = (All(loaded.apps) \cup Walked(static, todo, current, routes))'
        BY <2>1, <2>5, <3>2, <4>1 DEF BuildInv, MuxInv
      <4>3. ClaimedOnce(todo, NoApp, routes)
        BY <2>1, <3>2 DEF BuildInv, MuxInv
      <4>4. ClaimedOnce(todo \ {name}, name, RoutesOf(static[name]))
        BY <1>1, <4>3 DEF ClaimedOnce, RoutesLeft, Decoded
      <4>5. ClaimedOnce(todo, current, routes)'
        BY <2>1, <4>1, <4>4 DEF ClaimedOnce, RoutesLeft
      <4> QED BY <2>1, <3>2, <4>2, <4>5 DEF MuxInv
    <3> QED BY <2>1, <3>1, <3>2
  <2>9. Apart(mux)' /\ Guarded'
    BY <2>1 DEF BuildInv, Guarded
  <2> QED BY <2>6, <2>7, <2>8, <2>9 DEF BuildInv
<1> QED BY <1>4, <1>5

\* Every step of the build, and of those who change the store, keeps the invariant.
LEMMA BuildStep == BuildInv /\ [BuildNext]_buildVars => BuildInv'
<1> SUFFICES ASSUME BuildInv, [BuildNext]_buildVars PROVE BuildInv'
  OBVIOUS
<1>1. Decoded(loaded.apps) /\ Decoded(static)
  BY AppsDecoded DEF BuildInv
<1>2. ASSUME UNCHANGED <<startup, loaded>>
      PROVE  /\ static' = static /\ UsesConsul' = UsesConsul
             /\ Expected' = Expected /\ Impossible' = Impossible
  BY <1>2 DEF static, UsesConsul, Expected, Impossible
<1>3. CASE Load
  <2>1. /\ stage = "load" /\ UsesConsul /\ UNCHANGED <<startup, kv, todo, current, routes, mux>>
        /\ mux = {} /\ current = NoApp
    BY <1>3 DEF Load, BuildInv, BuildTypes, MuxInv, LoopInv
  <2>2. UsesConsul' = UsesConsul
    BY <2>1 DEF UsesConsul
  <2>3. stage' \in {"components", "failed"} /\ Decoded(loaded.apps)'
    BY <1>1, <1>3, LoadDecoded DEF Load, BuildInv
  <2>4. BuildTypes'
    BY <2>1, <2>2, <2>3 DEF BuildInv, BuildTypes
  <2>5. LoopInv' /\ MuxInv' /\ CrashInv'
    BY <2>1, <2>3 DEF LoopInv, MuxInv, CrashInv
  <2>6. Apart(mux)' /\ Guarded'
    BY <2>1 DEF BuildInv, Guarded
  <2> QED BY <2>4, <2>5, <2>6 DEF BuildInv
<1>4. CASE SetupError \/ RateLimiterError
  <2>1. /\ stage \in {"load", "components", "wrap"} /\ stage' \in {"failed", "crashed"}
        /\ stage' = "crashed" => stage = "components"
        /\ UNCHANGED <<startup, kv, loaded, todo, current, routes, mux>>
    BY <1>4 DEF SetupError, RateLimiterError
  <2>2. BuildTypes'
    BY <1>2, <2>1 DEF BuildInv, BuildTypes
  <2>3. LoopInv' /\ MuxInv' /\ CrashInv'
    BY <2>1 DEF BuildInv, LoopInv, MuxInv, CrashInv
  <2>4. Apart(mux)' /\ Guarded'
    BY <2>1 DEF BuildInv, Guarded
  <2> QED BY <2>2, <2>3, <2>4 DEF BuildInv
<1>5. CASE Components
  <2>1. /\ stage = "components" /\ stage' = "consul" /\ todo' = DOMAIN loaded.apps
        /\ UNCHANGED <<startup, kv, loaded, current, routes, mux>> /\ mux = {} /\ current = NoApp
    BY <1>5 DEF Components, BuildInv, MuxInv, LoopInv
  <2>2. BuildTypes'
    BY <1>2, <2>1 DEF BuildInv, BuildTypes
  <2>3. mux' = Walked(loaded.apps, DOMAIN loaded.apps, NoApp, routes)
    BY <1>1, <2>1, WalkedMoves
  <2>4. LoopInv' /\ MuxInv' /\ CrashInv'
    BY <2>1, <2>3 DEF LoopInv, MuxInv, CrashInv, Apps
  <2>5. Apart(mux)' /\ Guarded'
    BY <2>1 DEF BuildInv, Guarded
  <2> QED BY <2>2, <2>4, <2>5 DEF BuildInv
<1>6. ASSUME stage' = "static", todo' = DOMAIN static, current = NoApp, mux = All(loaded.apps),
             stage # "crashed", UNCHANGED <<startup, kv, loaded, current, routes, mux>>
      PROVE  BuildInv'
  <2>1. BuildTypes'
    BY <1>2, <1>6 DEF BuildInv, BuildTypes
  <2>2. mux' = All(loaded.apps) \cup Walked(static, DOMAIN static, NoApp, routes)
    BY <1>1, <1>6, WalkedMoves
  <2>3. ClaimedOnce(todo, current, routes)'
    BY <1>2, <1>6 DEF ClaimedOnce
  <2>4. LoopInv' /\ MuxInv' /\ CrashInv'
    BY <1>2, <1>6, <2>2, <2>3 DEF LoopInv, MuxInv, CrashInv, Apps
  <2>5. Apart(mux)' /\ Guarded'
    BY <1>6 DEF BuildInv, Guarded
  <2> QED BY <2>1, <2>4, <2>5 DEF BuildInv
<1>7. CASE ComponentsNoIntegration
  <2>1. loaded = Nothing /\ mux = {} /\ current = NoApp
    BY <1>7 DEF ComponentsNoIntegration, BuildInv, BuildTypes, MuxInv, LoopInv
  <2>2. All(loaded.apps) = {}
    BY <2>1 DEF All, Nothing
  <2> QED BY <1>6, <1>7, <2>1, <2>2 DEF ComponentsNoIntegration
<1>8. CASE ConsulLoopDone
  <2>1. mux = Walked(loaded.apps, {}, NoApp, routes)
    BY <1>8 DEF ConsulLoopDone, BuildInv, MuxInv
  <2>2. mux = All(loaded.apps)
    BY <1>1, <2>1, WalkedMoves
  <2> QED BY <1>6, <1>8, <2>2 DEF ConsulLoopDone
<1>9. ASSUME NEW name \in todo, TakeApplication(name) PROVE BuildInv'
  BY <1>9, TakeKeeps
<1>10. ASSUME NEW r \in routes, RegisterRoute(r) PROVE BuildInv'
  BY <1>10, RegisterKeeps, RegisterPanics
<1>11. CASE ApplicationDone
  <2>1. /\ stage \in {"consul", "static"} /\ stage' = stage /\ current' = NoApp /\ routes = {}
        /\ UNCHANGED <<startup, kv, loaded, todo, routes, mux>>
    BY <1>11 DEF ApplicationDone
  <2>2. Apps' = Apps
    BY <1>2, <2>1 DEF Apps
  <2>3. /\ Walked(loaded.apps, todo, current, {}) = Walked(loaded.apps, todo, NoApp, {})
        /\ Walked(static, todo, current, {}) = Walked(static, todo, NoApp, {})
    BY <1>1, WalkedMoves
  <2>4. BuildTypes'
    BY <1>2, <2>1 DEF BuildInv, BuildTypes
  <2>5. LoopInv' /\ CrashInv'
    BY <2>1, <2>2 DEF BuildInv, LoopInv, CrashInv
  <2>6. MuxInv'
    <3>1. CASE stage = "consul"
      <4>1. mux' = Walked(loaded.apps, todo, current, routes)'
        BY <2>1, <2>3, <3>1 DEF BuildInv, MuxInv
      <4> QED BY <2>1, <3>1, <4>1 DEF MuxInv
    <3>2. CASE stage = "static"
      <4>1. mux' = (All(loaded.apps) \cup Walked(static, todo, current, routes))'
        BY <1>2, <2>1, <2>3, <3>2 DEF BuildInv, MuxInv
      <4>2. ClaimedOnce(todo, current, {})
        BY <2>1, <3>2 DEF BuildInv, MuxInv
      <4>3. ClaimedOnce(todo, current, routes)'
        BY <1>2, <2>1, <4>2 DEF ClaimedOnce, RoutesLeft
      <4> QED BY <2>1, <3>2, <4>1, <4>3 DEF MuxInv
    <3> QED BY <2>1, <3>1, <3>2
  <2>7. Apart(mux)' /\ Guarded'
    BY <2>1 DEF BuildInv, Guarded
  <2> QED BY <2>4, <2>5, <2>6, <2>7 DEF BuildInv
<1>12. CASE StaticLoopDone
  <2>1. /\ stage = "static" /\ current = NoApp /\ todo = {} /\ stage' = "initialize"
        /\ UNCHANGED <<startup, kv, loaded, todo, current, routes, mux>>
    BY <1>12 DEF StaticLoopDone
  <2>2. mux = All(loaded.apps) \cup All(static) /\ ClaimedOnce({}, NoApp, routes)
    BY <1>1, <2>1, WalkedMoves DEF BuildInv, MuxInv
  <2>3. ClaimedOnce({}, NoApp, {})'
    BY <1>1, <1>2, <2>1, <2>2 DEF ClaimedOnce, RoutesLeft, Decoded
  <2>4. BuildTypes'
    BY <1>2, <2>1 DEF BuildInv, BuildTypes
  <2>5. LoopInv' /\ MuxInv' /\ CrashInv'
    BY <1>2, <2>1, <2>2, <2>3 DEF LoopInv, MuxInv, CrashInv
  <2>6. Apart(mux)' /\ Guarded'
    BY <2>1 DEF BuildInv, Guarded
  <2> QED BY <2>4, <2>5, <2>6 DEF BuildInv
<1>13. CASE Initialize
  BY <1>13, InitializeKeeps
<1>14. CASE Wrap
  <2>1. /\ stage = "wrap" /\ stage' = "serving"
        /\ UNCHANGED <<startup, kv, loaded, todo, current, routes, mux>>
    BY <1>14 DEF Wrap
  <2>2. ClaimedOnce({}, NoApp, {})'
    BY <1>2, <2>1 DEF BuildInv, MuxInv, ClaimedOnce, RoutesLeft
  <2>3. BuildTypes' /\ LoopInv' /\ MuxInv' /\ CrashInv'
    BY <1>2, <2>1, <2>2 DEF BuildInv, BuildTypes, LoopInv, MuxInv, CrashInv
  <2>4. Apart(mux)' /\ Guarded'
    BY <2>1 DEF BuildInv, Guarded
  <2> QED BY <2>3, <2>4 DEF BuildInv
<1>15. ASSUME kv' = kv \/ kv' \in KvStates,
              UNCHANGED <<startup, stage, loaded, todo, current, routes, mux>>
       PROVE  BuildInv'
  <2>1. Apps' = Apps
    BY <1>2, <1>15 DEF Apps
  <2>2. /\ ClaimedOnce(todo, current, routes)' = ClaimedOnce(todo, current, routes)
        /\ ClaimedOnce({}, NoApp, {})' = ClaimedOnce({}, NoApp, {})
    BY <1>2, <1>15 DEF ClaimedOnce, RoutesLeft
  <2>3. BuildTypes' /\ LoopInv' /\ CrashInv'
    BY <1>2, <1>15, <2>1 DEF BuildInv, BuildTypes, LoopInv, CrashInv
  <2>4. MuxInv'
    BY <1>2, <1>15, <2>2 DEF BuildInv, MuxInv
  <2>5. Apart(mux)' /\ Guarded'
    BY <1>15 DEF BuildInv, Guarded
  <2> QED BY <2>3, <2>4, <2>5 DEF BuildInv
<1>16. ASSUME NEW pairs \in KvStates, ChangeKv(pairs) PROVE BuildInv'
  BY <1>15, <1>16 DEF ChangeKv
<1>17. CASE UNCHANGED buildVars
  BY <1>15, <1>17 DEF buildVars
<1> QED BY <1>3, <1>4, <1>5, <1>7, <1>8, <1>9, <1>10, <1>11, <1>12, <1>13, <1>14, <1>16, <1>17
        DEF BuildNext, BuildSteps

\* The invariant holds when the build begins.
LEMMA BuildAlways == BuildSpec => []BuildInv
<1>1. BuildInit => BuildInv
  <2> SUFFICES ASSUME BuildInit PROVE BuildInv
    OBVIOUS
  <2>1. /\ startup \in Startups /\ kv \in (IF UsesConsul THEN KvStates ELSE {{}})
        /\ loaded = Nothing /\ mux = {} /\ current = NoApp
        /\ stage = IF UsesConsul THEN "load" ELSE "components"
    BY DEF BuildInit
  <2>2. BuildTypes
    BY <2>1 DEF BuildTypes, Decoded, Nothing
  <2>3. LoopInv /\ MuxInv /\ CrashInv
    BY <2>1 DEF LoopInv, MuxInv, CrashInv
  <2>4. Apart(mux) /\ Guarded
    BY <2>1 DEF Apart, Guarded
  <2> QED BY <2>2, <2>3, <2>4 DEF BuildInv
<1> QED BY <1>1, BuildStep, PTL DEF BuildSpec

\* The applications that a loop has come to have targets that are regular
\* expressions: it would not have gone on.
FormInv ==
    /\ stage = "consul" => \A n \in DOMAIN loaded.apps \ todo : ~Malformed(loaded.apps[n])
    /\ stage = "static" => \A n \in DOMAIN static \ todo : ~Malformed(static[n])
    /\ stage \in {"static", "initialize", "wrap", "serving"} =>
          \A n \in DOMAIN loaded.apps : ~Malformed(loaded.apps[n])
    /\ stage \in {"initialize", "wrap", "serving"} =>
          \A n \in DOMAIN static : ~Malformed(static[n])

\* Every step keeps this.
LEMMA FormStep == BuildInv /\ FormInv /\ [BuildNext]_buildVars => FormInv'
<1> SUFFICES ASSUME BuildInv, FormInv, [BuildNext]_buildVars PROVE FormInv'
  OBVIOUS
<1>1. ASSUME UNCHANGED <<startup, loaded>> PROVE static' = static /\ loaded' = loaded
  BY <1>1 DEF static
<1>2. CASE Load \/ SetupError \/ RateLimiterError
  <2>1. stage' \in {"components", "failed", "crashed"}
    BY <1>2 DEF Load, SetupError, RateLimiterError
  <2> QED BY <2>1 DEF FormInv
<1>3. CASE Components
  BY <1>3 DEF Components, FormInv
<1>4. CASE ComponentsNoIntegration
  <2>1. loaded = Nothing /\ stage' = "static" /\ todo' = DOMAIN static
        /\ UNCHANGED <<startup, loaded>>
    BY <1>4 DEF ComponentsNoIntegration, BuildInv, BuildTypes
  <2> QED BY <1>1, <2>1 DEF FormInv, Nothing
<1>5. ASSUME NEW name \in todo, TakeApplication(name) PROVE FormInv'
  <2>1. /\ stage \in {"consul", "static"} /\ todo' = todo \ {name}
        /\ UNCHANGED <<startup, loaded>>
        /\ stage' = "crashed" \/ (stage' = stage /\ ~Malformed(Apps[name]))
    BY <1>5 DEF TakeApplication
  <2>2. CASE stage' = "crashed"
    BY <2>2 DEF FormInv
  <2>3. CASE stage' = stage /\ ~Malformed(Apps[name])
    BY <1>1, <2>1, <2>3 DEF FormInv, Apps
  <2> QED BY <2>1, <2>2, <2>3
<1>6. ASSUME NEW r \in routes, RegisterRoute(r) PROVE FormInv'
  <2>1. /\ UNCHANGED <<startup, loaded, todo>> /\ stage' \in {stage, "crashed"}
    BY <1>6 DEF RegisterRoute
  <2> QED BY <1>1, <2>1 DEF FormInv
<1>7. CASE ConsulLoopDone
  <2>1. /\ stage = "consul" /\ todo = {} /\ stage' = "static" /\ todo' = DOMAIN static
        /\ UNCHANGED <<startup, loaded>>
    BY <1>7 DEF ConsulLoopDone
  <2> QED BY <1>1, <2>1 DEF FormInv
<1>8. CASE StaticLoopDone
  <2>1. /\ stage = "static" /\ todo = {} /\ stage' = "initialize" /\ UNCHANGED <<startup, loaded>>
    BY <1>8 DEF StaticLoopDone
  <2> QED BY <1>1, <2>1 DEF FormInv
<1>9. CASE Initialize \/ Wrap
  <2>1. /\ stage \in {"initialize", "wrap"} /\ stage' \in {"crashed", "wrap", "serving"}
        /\ UNCHANGED <<startup, loaded>>
    BY <1>9 DEF Initialize, Wrap
  <2> QED BY <1>1, <2>1 DEF FormInv
<1>10. CASE ApplicationDone \/ (\E pairs \in KvStates : ChangeKv(pairs)) \/ UNCHANGED buildVars
  <2>1. UNCHANGED <<startup, loaded, todo, stage>>
    BY <1>10 DEF ApplicationDone, ChangeKv, buildVars
  <2> QED BY <1>1, <2>1 DEF FormInv
<1> QED BY <1>2, <1>3, <1>4, <1>5, <1>6, <1>7, <1>8, <1>9, <1>10 DEF BuildNext, BuildSteps

\* The order in which Go walks its maps decides nothing: for any applications in
\* the file and in Consul, a build that runs through has registered all of them,
\* and one is cut off exactly when two routes collide, a route is rejected by the
\* router or a target is no regular expression.
THEOREM OrderDecidesNothing == BuildSpec => []OrderIrrelevant
<1>1. BuildInv /\ FormInv => OrderIrrelevant
  <2> SUFFICES ASSUME BuildInv, FormInv, stage \in {"wrap", "serving"}
               PROVE  mux = Expected /\ ~Impossible
    BY DEF BuildInv, CrashInv, OrderIrrelevant
  <2>1. mux = Expected /\ ClaimedOnce({}, NoApp, {}) /\ Apart(Expected)
    BY DEF BuildInv, MuxInv
  <2>2. NoApp \notin DOMAIN static
    BY AppsDecoded DEF BuildInv, Decoded
  <2>3. \A name \in DOMAIN loaded.apps \cap DOMAIN static :
            RoutesOf(loaded.apps[name]) \cap RoutesOf(static[name]) = {}
    BY <2>1, <2>2 DEF ClaimedOnce, RoutesLeft
  <2> QED BY <2>1, <2>3 DEF Apart, Impossible, FormInv
<1>2. BuildInit => FormInv
  BY DEF BuildInit, FormInv
<1> QED BY <1>1, <1>2, BuildAlways, FormStep, PTL DEF BuildSpec

\* "Order is important here": whatever the applications and the behaviours they
\* switch on, a request meets the limiter before the authentication handler, and
\* that before the cache and the service, on every route and for every method.
THEOREM AllGuarded == BuildSpec => []Guarded
<1>1. BuildInv => Guarded
  BY DEF BuildInv
<1> QED BY <1>1, BuildAlways, PTL

(***************************************************************************)
(* The two inductions that the forwarding of requests needs, over numbers  *)
(* and over documents.  Their parameter is a set.                          *)
(***************************************************************************)

\* Every set of natural numbers that is not empty has a least element.
LEMMA Least ==
    ASSUME NEW T, T \subseteq Nat, T # {}
    PROVE  \E m \in T : \A k \in T : m <= k
<1> DEFINE R == OpToRel(<, Nat)
<1>1. IsWellFoundedOn(R, Nat)
  BY NatLessThanWellFounded
<1>2. \A x, y \in Nat : x < y => <<x, y>> \in R
  BY DEF OpToRel
<1> HIDE DEF R
<1>3. PICK m \in T : \A y \in T : ~(<<y, m>> \in R)
  BY <1>1, WFMin, Zenon
<1>4. ASSUME NEW k \in T PROVE m <= k
  <2>1. m \in Nat /\ k \in Nat
    OBVIOUS
  <2>2. ~(k < m)
    BY <1>2, <1>3, <2>1
  <2> QED BY <2>1, <2>2
<1> QED BY <1>4

\* What holds at 0 and is handed on from n - 1 to n holds up to N.
LEMMA CountUp ==
    ASSUME NEW N \in Nat, NEW G, 0 \in G, \A n \in 1 .. N : n - 1 \in G => n \in G
    PROVE  0 .. N \subseteq G
<1> SUFFICES ASSUME ~(0 .. N \subseteq G) PROVE FALSE
  OBVIOUS
<1> DEFINE T == (0 .. N) \ G
<1>1. T \subseteq Nat /\ T # {}
  OBVIOUS
<1>2. PICK m \in T : \A k \in T : m <= k
  BY <1>1, Least, Zenon
<1>3. m \in 1 .. N /\ m - 1 \in 0 .. N /\ m - 1 \notin T
  BY <1>2
<1> QED BY <1>2, <1>3

\* Functions on an initial segment of the numbers are sequences.
LEMMA FunctionSeq ==
    ASSUME NEW S, NEW n \in Nat, NEW f \in [1 .. n -> S]
    PROVE  f \in Seq(S) /\ Len(f) = n
<1>1. f \in Seq(S)
  BY SeqDef
<1>2. Len(f) \in Nat /\ 1 .. n = 1 .. Len(f)
  BY <1>1, LenProperties
<1> QED BY <1>1, <1>2

\* What is assumed of documents, without how they are decoded.
LEMMA DocumentFacts ==
    \A doc \in Documents :
        /\ IsDocument(doc) /\ Depth(doc) \in Nat
        /\ \A k \in DOMAIN Parts(doc) : /\ Parts(doc)[k] \in Documents
                                        /\ Depth(Parts(doc)[k]) < Depth(doc)
BY DocumentsAssumption, Zenon

\* What holds of a document whenever it holds of its parts holds of all documents.
LEMMA DocumentInduction ==
    ASSUME NEW G,
           \A doc \in Documents : (\A k \in DOMAIN Parts(doc) : Parts(doc)[k] \in G) => doc \in G
    PROVE  Documents \subseteq G
<1> SUFFICES ASSUME ~(Documents \subseteq G) PROVE FALSE
  OBVIOUS
<1> DEFINE T == {Depth(doc) : doc \in Documents \ G}
<1>1. T \subseteq Nat /\ T # {}
  BY DocumentFacts
<1>2. PICK m \in T : \A k \in T : m <= k
  BY <1>1, Least, Zenon
<1>3. PICK doc \in Documents \ G : m = Depth(doc)
  BY <1>2
<1>4. ASSUME NEW k \in DOMAIN Parts(doc) PROVE Parts(doc)[k] \in G
  <2>1. Parts(doc)[k] \in Documents /\ Depth(Parts(doc)[k]) < Depth(doc)
    BY <1>3, <1>4, DocumentFacts
  <2>2. Depth(Parts(doc)[k]) \in Nat /\ Depth(doc) \in Nat
    BY <1>3, <2>1, DocumentFacts
  <2>3. SUFFICES ASSUME Parts(doc)[k] \notin G PROVE FALSE
    OBVIOUS
  <2>4. Depth(Parts(doc)[k]) \in T
    BY <2>1, <2>3
  <2>5. m <= Depth(Parts(doc)[k])
    BY <1>2, <2>4
  <2> QED BY <1>3, <2>1, <2>2, <2>5
<1> QED BY <1>3, <1>4

(***************************************************************************)
(* walkJson.                                                               *)
(***************************************************************************)

\* The kinds of the constructors.
LEMMA Constructors ==
    /\ \A f : Obj(f).kind = "object" /\ Obj(f).fields = f
    /\ \A f : Arr(f).kind = "array" /\ Arr(f).items = f
    /\ \A x : Str(x).kind = "string" /\ Str(x).link = x
    /\ \A x : Scalar(x).kind = "scalar"
    /\ RemoveElement.kind = "obsolete element"
BY DEF Obj, Arr, Str, Scalar, RemoveElement

\* What is kept is not the mark of what is removed.
LEMMA Kept == \A f : Obj(f) # RemoveElement /\ Arr(f) # RemoveElement
BY Constructors

\* The four kinds of documents.
LEMMA Kinds ==
    ASSUME NEW doc \in Documents
    PROVE  \/ doc.kind = "scalar" /\ doc = Scalar(doc.value)
           \/ \E link \in Links : doc = Str(link) /\ doc.kind = "string" /\ doc.link = link
           \/ doc.kind = "object" /\ doc = Obj(doc.fields) /\ DOMAIN doc.fields \subseteq STRING
           \/ doc.kind = "array" /\ doc = Arr(doc.items) /\ doc.items \in Seq(Documents)
BY DocumentFacts DEF IsDocument, Scalar, Str, Obj, Arr

\* Names are strings, of which only their equality matters here.
Labels == STRING \cup {"[]", "href"}

IsLeaf(leaf) == leaf = <<leaf[1], leaf[2]>> /\ leaf[1] \in Seq(Labels)

\* A path without its last name.
LEMMA FrontPath ==
    ASSUME NEW p \in Seq(Labels), p # <<>>
    PROVE  /\ Front(p) \in Seq(Labels) /\ Len(Front(p)) = Len(p) - 1
           /\ \A i \in 1 .. Len(p) - 1 : Front(p)[i] = p[i]
<1>1. Len(p) \in Nat /\ Len(p) > 0 /\ \A i \in 1 .. Len(p) - 1 : p[i] \in Labels
  OBVIOUS
<1> DEFINE n == Len(p) - 1
<1>2. n \in Int /\ n >= 0
  BY <1>1
<1> HIDE DEF n
<1>3. /\ SubSeq(p, 1, n) \in Seq(Labels)
      /\ Len(SubSeq(p, 1, n)) = IF 1 <= n THEN n - 1 + 1 ELSE 0
      /\ \A i \in 1 .. n - 1 + 1 : SubSeq(p, 1, n)[i] = p[1 + i - 1]
  BY <1>1, <1>2, SubSeqProperties DEF n
<1>4. Len(SubSeq(p, 1, n)) = n /\ \A i \in 1 .. n : SubSeq(p, 1, n)[i] = p[i]
  BY <1>2, <1>3
<1> QED BY <1>3, <1>4 DEF n, Front

\* A path with one more name in front.
LEMMA NamedPath ==
    ASSUME NEW k \in Labels, NEW p \in Seq(Labels)
    PROVE  LET q == <<k>> \o p
           IN /\ q \in Seq(Labels) /\ q # <<>> /\ Len(q) = Len(p) + 1
              /\ q[1] = k /\ \A i \in 1 .. Len(p) : q[i + 1] = p[i]
              /\ p # <<>> => Last(q) = Last(p) /\ Front(q) = <<k>> \o Front(p)
              /\ p = <<>> => Last(q) = k /\ Front(q) = <<>>
              /\ \A x : Contains(q, x) <=> k = x \/ Contains(p, x)
<1> DEFINE q == <<k>> \o p
<1>1. /\ q \in Seq(Labels) /\ q # <<>> /\ Len(q) = Len(p) + 1
      /\ q[1] = k /\ \A i \in 1 .. Len(p) : q[i + 1] = p[i]
  OBVIOUS
<1>2. Len(p) \in Nat /\ (p # <<>> => Len(p) > 0)
  OBVIOUS
<1>3. ASSUME p # <<>> PROVE Last(q) = Last(p) /\ Front(q) = <<k>> \o Front(p)
  <2>1. Last(q) = Last(p)
    BY <1>1, <1>2, <1>3 DEF Last
  <2>2. Front(q) \in Seq(Labels) /\ Len(Front(q)) = Len(p)
        /\ \A i \in 1 .. Len(p) : Front(q)[i] = q[i]
    BY <1>1, <1>2, <1>3 DEF Front
  <2>3. Front(p) \in Seq(Labels) /\ Len(Front(p)) = Len(p) - 1
        /\ \A i \in 1 .. Len(p) - 1 : Front(p)[i] = p[i]
    BY <1>3, FrontPath
  <2>4. (<<k>> \o Front(p)) \in Seq(Labels) /\ Len(<<k>> \o Front(p)) = Len(p)
    BY <1>2, <2>3
  <2>5. \A i \in 1 .. Len(p) : Front(q)[i] = (<<k>> \o Front(p))[i]
    <3> DEFINE f == Front(p)
               r == <<k>> \o f
    <3>1. r[1] = k /\ \A i \in 1 .. Len(f) : r[i + 1] = f[i]
      <4> HIDE DEF f
      <4> QED BY <2>3 DEF f
    <3> HIDE DEF f, r, q
    <3>2. \A i \in 1 .. Len(p) : i # 1 => i - 1 \in 1 .. Len(f) /\ i - 1 \in 1 .. Len(p) /\ (i - 1) + 1 = i
      BY <1>2, <2>3 DEF f
    <3>3. \A i \in 1 .. Len(p) : i # 1 => q[i] = p[i - 1] /\ r[i] = f[i - 1] /\ f[i - 1] = p[i - 1]
      BY <1>1, <1>2, <2>3, <3>1, <3>2 DEF f
    <3>4. \A i \in 1 .. Len(p) : Front(q)[i] = r[i]
      BY <1>1, <2>2, <3>1, <3>3
    <3> QED BY <3>4 DEF r, f
  <2>6. Front(q) = <<k>> \o Front(p)
    <3> HIDE DEF q
    <3> QED BY <2>2, <2>4, <2>5, SeqEqual
  <2> QED BY <2>1, <2>6
<1>4. ASSUME p = <<>> PROVE Last(q) = k /\ Front(q) = <<>>
  BY <1>1, <1>4 DEF Last, Front
<1>5. \A x : Contains(q, x) <=> k = x \/ Contains(p, x)
  <2> SUFFICES ASSUME NEW x PROVE Contains(q, x) <=> k = x \/ Contains(p, x)
    OBVIOUS
  <2>1. ASSUME Contains(q, x), k # x PROVE Contains(p, x)
    <3>1. PICK i \in 1 .. Len(q) : q[i] = x
      BY <2>1 DEF Contains
    <3>2. i - 1 \in 1 .. Len(p) /\ q[(i - 1) + 1] = x
      BY <1>1, <1>2, <2>1, <3>1
    <3>3. p[i - 1] = x
      BY <1>1, <3>2
    <3> QED BY <3>2, <3>3 DEF Contains
  <2>2. ASSUME k = x PROVE Contains(q, x)
    BY <1>1, <1>2, <2>2 DEF Contains
  <2>3. ASSUME Contains(p, x) PROVE Contains(q, x)
    <3>1. PICK i \in 1 .. Len(p) : p[i] = x
      BY <2>3 DEF Contains
    <3>2. i + 1 \in 1 .. Len(q) /\ q[i + 1] = x
      BY <1>1, <1>2, <3>1
    <3> QED BY <3>2 DEF Contains
  <2>4. Contains(q, x) \in BOOLEAN /\ Contains(p, x) \in BOOLEAN
    BY DEF Contains
  <2> QED BY <2>1, <2>2, <2>3, <2>4
<1> HIDE DEF q
<1>6. /\ q \in Seq(Labels) /\ q # <<>> /\ Len(q) = Len(p) + 1
      /\ q[1] = k /\ \A i \in 1 .. Len(p) : q[i + 1] = p[i]
      /\ p # <<>> => Last(q) = Last(p) /\ Front(q) = <<k>> \o Front(p)
      /\ p = <<>> => Last(q) = k /\ Front(q) = <<>>
      /\ \A x : Contains(q, x) <=> k = x \/ Contains(p, x)
  BY <1>1, <1>3, <1>4, <1>5, Zenon
<1> QED BY <1>6 DEF q

\* A name above a leaf that is not href decides nothing about links; below href only
\* the string that is its value is one.
LEMMA NamedLeaf ==
    ASSUME NEW k \in Labels, NEW leaf, IsLeaf(leaf)
    PROVE  /\ IsLeaf(Named(k, leaf))
           /\ Named(k, leaf)[2] = leaf[2]
           /\ k # "href" => (IsLink(Named(k, leaf)) <=> IsLink(leaf))
           /\ k = "href" /\ leaf[1] # <<>> => ~IsLink(Named(k, leaf))
           /\ k = "href" /\ leaf[1] = <<>> => (IsLink(Named(k, leaf)) <=> leaf[2].kind = "string")
           /\ InLinks(Named(k, leaf)) <=> k \in {"links", "_links"} \/ InLinks(leaf)
<1> DEFINE p == leaf[1]
           q == <<k>> \o p
           n == Named(k, leaf)
<1>1. p \in Seq(Labels)
  BY DEF IsLeaf
<1>2. /\ q \in Seq(Labels) /\ q # <<>>
      /\ p # <<>> => Last(q) = Last(p) /\ Front(q) = <<k>> \o Front(p)
      /\ p = <<>> => Last(q) = k /\ Front(q) = <<>>
      /\ \A x : Contains(q, x) <=> k = x \/ Contains(p, x)
  BY <1>1, NamedPath
<1>3. n = <<q, leaf[2]>> /\ n[1] = q /\ n[2] = leaf[2]
  BY DEF Named
<1>4. p # <<>> => \A x : Contains(Front(q), x) <=> k = x \/ Contains(Front(p), x)
  <2> SUFFICES ASSUME p # <<>>
               PROVE  \A x : Contains(Front(q), x) <=> k = x \/ Contains(Front(p), x)
    OBVIOUS
  <2>1. Front(p) \in Seq(Labels)
    BY <1>1, FrontPath
  <2>2. \A x : Contains(<<k>> \o Front(p), x) <=> k = x \/ Contains(Front(p), x)
    BY <2>1, NamedPath
  <2>3. Front(q) = <<k>> \o Front(p)
    BY <1>2
  <2> QED BY <2>2, <2>3, Zenon
<1>5. ~Contains(<<>>, "href")
  BY DEF Contains
<1> HIDE DEF p, q, n
<1>6. IsLink(n) <=> n[2].kind = "string" /\ n[1] # <<>> /\ Last(n[1]) = "href" /\ ~Contains(Front(n[1]), "href")
  BY DEF IsLink
<1>7. IsLink(leaf) <=> leaf[2].kind = "string" /\ p # <<>> /\ Last(p) = "href" /\ ~Contains(Front(p), "href")
  BY DEF IsLink, p
<1>8. k # "href" => (IsLink(n) <=> IsLink(leaf))
  BY <1>2, <1>3, <1>4, <1>6, <1>7
<1>9. k = "href" /\ p # <<>> => ~IsLink(n)
  BY <1>2, <1>3, <1>4, <1>6
<1>10. k = "href" /\ p = <<>> => (IsLink(n) <=> leaf[2].kind = "string")
  BY <1>2, <1>3, <1>5, <1>6
<1>11. InLinks(n) <=> k \in {"links", "_links"} \/ InLinks(leaf)
  BY <1>2, <1>3 DEF InLinks, p
<1>12. IsLeaf(n)
  BY <1>2, <1>3 DEF IsLeaf
<1> QED BY <1>3, <1>8, <1>9, <1>10, <1>11, <1>12 DEF n, p

Name(doc, k) == IF doc.kind = "object" THEN k ELSE "[]"

\* The leaves of a document are those of its parts, below the part's name.
LEMMA LeavesBelow ==
    ASSUME NEW doc, doc.kind \in {"object", "array"},
           Leaves(doc) = LeavesOf(doc, [k \in DOMAIN Parts(doc) |-> Leaves(Parts(doc)[k])])
    PROVE  \A leaf : leaf \in Leaves(doc) <=>
              \E k \in DOMAIN Parts(doc) : \E x \in Leaves(Parts(doc)[k]) : leaf = Named(Name(doc, k), x)
<1> DEFINE below == [k \in DOMAIN Parts(doc) |-> Leaves(Parts(doc)[k])]
<1>1. \A k \in DOMAIN Parts(doc) : below[k] = Leaves(Parts(doc)[k])
  OBVIOUS
<1> HIDE DEF below
<1>2. CASE doc.kind = "object"
  <2>1. Parts(doc) = doc.fields /\ \A k : Name(doc, k) = k
    BY <1>2 DEF Parts, Name
  <2>2. Leaves(doc) = UNION {{Named(k, leaf) : leaf \in below[k]} : k \in DOMAIN doc.fields}
    BY <1>2 DEF LeavesOf, below
  <2>3. \A leaf : leaf \in Leaves(doc) <=> \E k \in DOMAIN doc.fields : \E x \in below[k] : leaf = Named(k, x)
    BY <2>2
  <2> QED BY <1>1, <2>1, <2>3
<1>3. CASE doc.kind = "array"
  <2>1. Parts(doc) = doc.items /\ \A k : Name(doc, k) = "[]"
    BY <1>3 DEF Parts, Name
  <2>2. Leaves(doc) = UNION {{Named("[]", leaf) : leaf \in below[i]} : i \in DOMAIN doc.items}
    BY <1>3 DEF LeavesOf, below
  <2>3. \A leaf : leaf \in Leaves(doc) <=> \E k \in DOMAIN doc.items : \E x \in below[k] : leaf = Named("[]", x)
    BY <2>2
  <2> QED BY <1>1, <2>1, <2>3
<1> QED BY <1>2, <1>3

\* A string or scalar is its own only leaf.
LEMMA OneLeaf ==
    ASSUME NEW doc, doc.kind \notin {"object", "array"},
           Leaves(doc) = LeavesOf(doc, [k \in DOMAIN Parts(doc) |-> Leaves(Parts(doc)[k])])
    PROVE  Leaves(doc) = {<< <<>>, doc>>}
BY DEF LeavesOf

\* The leaves of documents are pairs of a path of names and a string or scalar.
LEMMA AreLeaves ==
    ASSUME NEW url, Recursion(url), NEW doc \in Documents
    PROVE  \A leaf \in Leaves(doc) : IsLeaf(leaf)
<1> DEFINE G == {d \in Documents : \A leaf \in Leaves(d) : IsLeaf(leaf)}
<1>1. ASSUME NEW d \in Documents, \A k \in DOMAIN Parts(d) : Parts(d)[k] \in G
      PROVE  d \in G
  <2>1. Leaves(d) = LeavesOf(d, [k \in DOMAIN Parts(d) |-> Leaves(Parts(d)[k])])
    BY DEF Recursion, IsLeaves
  <2>2. CASE d.kind \in {"object", "array"}
    <3>1. \A k \in DOMAIN Parts(d) : Name(d, k) \in Labels
      <4>1. CASE d.kind = "object"
        <5>1. DOMAIN d.fields \subseteq STRING
          BY <4>1, Kinds
        <5>2. Parts(d) = d.fields /\ \A k : Name(d, k) = k
          BY <4>1 DEF Name, Parts
        <5> QED BY <5>1, <5>2 DEF Labels
      <4>2. CASE d.kind = "array"
        <5>1. \A k : Name(d, k) = "[]"
          BY <4>2 DEF Name
        <5>2. "[]" \in Labels
          BY DEF Labels
        <5> QED BY <5>1, <5>2, Zenon
      <4> QED BY <2>2, <4>1, <4>2
    <3>2. ASSUME NEW leaf \in Leaves(d) PROVE IsLeaf(leaf)
      <4>1. PICK k \in DOMAIN Parts(d) : \E x \in Leaves(Parts(d)[k]) : leaf = Named(Name(d, k), x)
        BY <2>1, <2>2, LeavesBelow
      <4>2. PICK x \in Leaves(Parts(d)[k]) : leaf = Named(Name(d, k), x)
        BY <4>1
      <4> QED BY <1>1, <3>1, <4>2, NamedLeaf
    <3> QED BY <3>2
  <2>3. CASE d.kind \notin {"object", "array"}
    <3>1. Leaves(d) = {<< <<>>, d>>}
      BY <2>1, <2>3, OneLeaf
    <3>2. IsLeaf(<< <<>>, d>>)
      BY DEF IsLeaf
    <3> QED BY <3>1, <3>2
  <2> QED BY <2>2, <2>3
<1> HIDE DEF G
<1>2. Documents \subseteq G
  BY <1>1, DocumentInduction
<1> QED BY <1>2 DEF G

\* A name that is not href above a leaf, and its public form.
LEMMA NamedPublic ==
    ASSUME NEW url, NEW k \in Labels, k # "href", NEW leaf, IsLeaf(leaf)
    PROVE  /\ Lost(Named(k, leaf), url) <=> Lost(leaf, url)
           /\ Named(k, Public(leaf, url)) = Public(Named(k, leaf), url)
<1>1. Named(k, leaf)[2] = leaf[2] /\ (IsLink(Named(k, leaf)) <=> IsLink(leaf))
  BY NamedLeaf
<1>2. Lost(Named(k, leaf), url) <=> Lost(leaf, url)
  BY <1>1 DEF Lost
<1>3. \A v : Named(k, <<leaf[1], v>>) = <<Named(k, leaf)[1], v>>
  BY DEF Named
<1>4. CASE IsLink(leaf)
  BY <1>1, <1>2, <1>3, <1>4 DEF Public
<1>5. CASE ~IsLink(leaf)
  BY <1>1, <1>2, <1>5 DEF Public
<1> QED BY <1>4, <1>5

\* What a walk inside of links or not owes a document: either it is inside of links
\* and removed because of a link without a public form, or it is rewritten.
Rewritten(new, doc, inLinks, url) ==
    /\ \A leaf \in Leaves(new) : \E old \in Leaves(doc) : ~Lost(old, url) /\ leaf = Public(old, url)
    /\ \A old \in Leaves(doc) :
          \/ Public(old, url) \in Leaves(new)
          \/ Lost(old, url)
          \/ (inLinks \/ InLinks(old)) /\ \E leaf \in Leaves(doc) : Lost(leaf, url)
Faithful(new, doc, inLinks, url) ==
    /\ new = RemoveElement => inLinks /\ \E leaf \in Leaves(doc) : Lost(leaf, url)
    /\ new # RemoveElement => Rewritten(new, doc, inLinks, url)

\* The same of one part, whose leaves are S before and T after the walk, or which is
\* left out.
PartKept(name, S, T, inLinks, url) ==
    /\ \A y \in T : \E x \in S : /\ ~Lost(Named(name, x), url)
                                 /\ Named(name, y) = Public(Named(name, x), url)
    /\ \A x \in S :
          \/ \E y \in T : Named(name, y) = Public(Named(name, x), url)
          \/ Lost(Named(name, x), url)
          \/ (inLinks \/ InLinks(Named(name, x))) /\ \E z \in S : Lost(Named(name, z), url)
PartDropped(name, S, inLinks, url) ==
    \A x \in S :
        \/ Lost(Named(name, x), url)
        \/ (inLinks \/ InLinks(Named(name, x))) /\ \E z \in S : Lost(Named(name, z), url)

\* A part that is walked, of which the name is not href.
LEMMA PartWalked ==
    ASSUME NEW url, NEW name \in Labels, name # "href", NEW doc, NEW new,
           NEW inLinks \in BOOLEAN, NEW inside \in BOOLEAN,
           inside => inLinks \/ name \in {"links", "_links"},
           \A leaf \in Leaves(doc) : IsLeaf(leaf),
           Faithful(new, doc, inside, url)
    PROVE  /\ new # RemoveElement => PartKept(name, Leaves(doc), Leaves(new), inLinks, url)
           /\ new = RemoveElement => PartDropped(name, Leaves(doc), inLinks, url)
<1>1. ASSUME NEW x \in Leaves(doc)
      PROVE  /\ Lost(Named(name, x), url) <=> Lost(x, url)
             /\ Named(name, Public(x, url)) = Public(Named(name, x), url)
             /\ InLinks(Named(name, x)) <=> name \in {"links", "_links"} \/ InLinks(x)
  BY NamedPublic, NamedLeaf
<1>2. ASSUME new = RemoveElement PROVE PartDropped(name, Leaves(doc), inLinks, url)
  <2>1. inside /\ \E leaf \in Leaves(doc) : Lost(leaf, url)
    BY <1>2 DEF Faithful
  <2> QED BY <1>1, <2>1 DEF PartDropped
<1>3. ASSUME new # RemoveElement PROVE PartKept(name, Leaves(doc), Leaves(new), inLinks, url)
  <2>1. ASSUME NEW y \in Leaves(new)
        PROVE  \E x \in Leaves(doc) : /\ ~Lost(Named(name, x), url)
                                      /\ Named(name, y) = Public(Named(name, x), url)
    <3>1. PICK x \in Leaves(doc) : ~Lost(x, url) /\ y = Public(x, url)
      BY <1>3 DEF Faithful, Rewritten
    <3> QED BY <1>1, <3>1
  <2>2. ASSUME NEW x \in Leaves(doc)
        PROVE  \/ \E y \in Leaves(new) : Named(name, y) = Public(Named(name, x), url)
               \/ Lost(Named(name, x), url)
               \/ /\ inLinks \/ InLinks(Named(name, x))
                  /\ \E z \in Leaves(doc) : Lost(Named(name, z), url)
    <3>1. \/ Public(x, url) \in Leaves(new)
          \/ Lost(x, url)
          \/ (inside \/ InLinks(x)) /\ \E leaf \in Leaves(doc) : Lost(leaf, url)
      BY <1>3 DEF Faithful, Rewritten
    <3> QED BY <1>1, <3>1
  <2> QED BY <2>1, <2>2 DEF PartKept
<1> QED BY <1>2, <1>3

\* A field href that is a string.
LEMMA HrefWalked ==
    ASSUME NEW url, NEW link, NEW inLinks \in BOOLEAN
    PROVE  LET S == {<< <<>>, Str(link)>>}
           IN /\ url[link] \notin {Unmappable, ParseError}
                 => PartKept("href", S, {<< <<>>, Str(url[link])>>}, inLinks, url)
              /\ url[link] \in {Unmappable, ParseError}
                 => PartDropped("href", S, inLinks, url)
                    /\ \A x \in S : Lost(Named("href", x), url)
<1> DEFINE old == << <<>>, Str(link)>>
           new == << <<>>, Str(url[link])>>
<1>1. IsLeaf(old)
  BY DEF IsLeaf
<1>2. "href" \in Labels
  BY DEF Labels
<1>3. IsLink(Named("href", old)) /\ Named("href", old)[2].link = link
  <2>1. old[1] = <<>> /\ old[2].kind = "string" /\ old[2].link = link
    BY Constructors
  <2>2. Named("href", old)[2] = old[2]
    BY DEF Named
  <2> HIDE DEF old
  <2> QED BY <1>1, <1>2, <2>1, <2>2, NamedLeaf
<1>4. Lost(Named("href", old), url) <=> url[link] \in {Unmappable, ParseError}
  BY <1>3 DEF Lost
<1>5. Named("href", new) = <<Named("href", old)[1], Str(url[link])>>
  BY DEF Named
<1>6. Public(Named("href", old), url) = Named("href", new)
  BY <1>3, <1>5 DEF Public
<1> HIDE DEF old, new
<1>7. url[link] \notin {Unmappable, ParseError} => PartKept("href", {old}, {new}, inLinks, url)
  BY <1>4, <1>6 DEF PartKept
<1>8. url[link] \in {Unmappable, ParseError}
      => PartDropped("href", {old}, inLinks, url) /\ \A x \in {old} : Lost(Named("href", x), url)
  BY <1>4 DEF PartDropped
<1> QED BY <1>7, <1>8 DEF old, new

\* A field href that is no string.
LEMMA HrefIgnored ==
    ASSUME NEW url, NEW S, NEW inLinks \in BOOLEAN, \A x \in S : IsLeaf(x),
           \A x \in S : x[1] = <<>> => x[2].kind # "string"
    PROVE  PartKept("href", S, S, inLinks, url)
<1>1. "href" \in Labels
  BY DEF Labels
<1>2. ASSUME NEW x \in S PROVE ~IsLink(Named("href", x))
  BY <1>1, NamedLeaf
<1>3. ASSUME NEW x \in S PROVE ~Lost(Named("href", x), url) /\ Named("href", x) = Public(Named("href", x), url)
  BY <1>2 DEF Lost, Public
<1> QED BY <1>3 DEF PartKept

\* The leaves of a document, gathered from its parts, and these parts after the walk.
Gathers(leaves, D, name, S) ==
    \A leaf : leaf \in leaves <=> \E k \in D : \E x \in S[k] : leaf = Named(name[k], x)
AllKept(K, name, S, T, inLinks, url) ==
    \A k \in K : PartKept(name[k], S[k], T[k], inLinks, url)
AllDropped(D, K, name, S, inLinks, url) ==
    \A k \in D \ K : PartDropped(name[k], S[k], inLinks, url)

\* Parts that are each rewritten or left out make up a rewritten document.
LEMMA Assembled ==
    ASSUME NEW url, NEW doc, NEW new, NEW inLinks \in BOOLEAN, NEW D, NEW K, K \subseteq D,
           NEW name, NEW S, NEW T,
           Gathers(Leaves(doc), D, name, S), Gathers(Leaves(new), K, name, T),
           AllKept(K, name, S, T, inLinks, url), AllDropped(D, K, name, S, inLinks, url)
    PROVE  Rewritten(new, doc, inLinks, url)
<1> USE DEF Gathers, AllKept, AllDropped
<1>1. ASSUME NEW leaf \in Leaves(new)
      PROVE  \E old \in Leaves(doc) : ~Lost(old, url) /\ leaf = Public(old, url)
  <2>1. PICK k \in K : \E y \in T[k] : leaf = Named(name[k], y)
    OBVIOUS
  <2>2. PICK y \in T[k] : leaf = Named(name[k], y)
    BY <2>1
  <2>3. PICK x \in S[k] : ~Lost(Named(name[k], x), url) /\ Named(name[k], y) = Public(Named(name[k], x), url)
    BY DEF PartKept, PartDropped
  <2>4. Named(name[k], x) \in Leaves(doc)
    OBVIOUS
  <2> QED BY <2>2, <2>3, <2>4
<1>2. ASSUME NEW old \in Leaves(doc)
      PROVE  \/ Public(old, url) \in Leaves(new)
             \/ Lost(old, url)
             \/ (inLinks \/ InLinks(old)) /\ \E leaf \in Leaves(doc) : Lost(leaf, url)
  <2>1. PICK k \in D : \E x \in S[k] : old = Named(name[k], x)
    OBVIOUS
  <2>2. PICK x \in S[k] : old = Named(name[k], x)
    BY <2>1
  <2>3. \A z \in S[k] : Named(name[k], z) \in Leaves(doc)
    OBVIOUS
  <2>4. CASE k \in K
    <3>1. \/ \E y \in T[k] : Named(name[k], y) = Public(old, url)
          \/ Lost(old, url)
          \/ (inLinks \/ InLinks(old)) /\ \E z \in S[k] : Lost(Named(name[k], z), url)
      BY <2>2, <2>4 DEF PartKept, PartDropped
    <3>2. \A y \in T[k] : Named(name[k], y) \in Leaves(new)
      BY <2>4
    <3> QED BY <2>3, <3>1, <3>2
  <2>5. CASE k \notin K
    <3>1. \/ Lost(old, url)
          \/ (inLinks \/ InLinks(old)) /\ \E z \in S[k] : Lost(Named(name[k], z), url)
      BY <2>2, <2>5 DEF PartKept, PartDropped
    <3> QED BY <2>3, <3>1
  <2> QED BY <2>4, <2>5
<1> QED BY <1>1, <1>2 DEF Rewritten

\* The walk of a part, inside of links or not.
LEMMA PartsWalked ==
    ASSUME NEW url, NEW doc, NEW inLinks \in BOOLEAN, NEW k \in DOMAIN Parts(doc)
    PROVE  \E inside \in BOOLEAN :
              /\ WalkParts(doc, inLinks, url)[k] = Walk(Parts(doc)[k], inside, url)
              /\ inside => inLinks \/ (doc.kind = "object" /\ k \in {"links", "_links"})
<1> DEFINE inside == inLinks \/ (doc.kind = "object" /\ k \in {"links", "_links"})
<1>1. WalkParts(doc, inLinks, url)[k] = Walk(Parts(doc)[k], inside, url)
  BY DEF WalkParts
<1>2. inside \in BOOLEAN
  OBVIOUS
<1> HIDE DEF inside
<1>3. inside => inLinks \/ (doc.kind = "object" /\ k \in {"links", "_links"})
  BY DEF inside
<1> QED BY <1>1, <1>2, <1>3, Zenon

\* A sequence with something put before it is not empty.
LEMMA ConcatNonEmpty ==
    ASSUME NEW S, NEW a, NEW p \in Seq(S)
    PROVE  <<a>> \o p # <<>>
<1>1. <<a>> \in Seq(S \cup {a}) /\ p \in Seq(S \cup {a})
  OBVIOUS
<1>2. Len(<<a>> \o p) = Len(<<a>>) + Len(p)
  BY <1>1, ConcatProperties
<1>3. Len(<<a>>) = 1 /\ Len(p) \in Nat /\ Len(<<>>) = 0
  OBVIOUS
<1>4. Len(<<a>> \o p) # Len(<<>>)
  BY <1>2, <1>3
<1> QED BY <1>4

\* Two of the cases of walkJson on an object, and those on an array.
LEMMA WalkObject ==
    ASSUME NEW url, Recursion(url), NEW doc \in Documents, doc.kind = "object",
           NEW inLinks \in BOOLEAN, NEW walked,
           \A k \in DOMAIN Parts(doc) : \E inside \in BOOLEAN :
              /\ Faithful(walked[k], Parts(doc)[k], inside, url)
              /\ inside => inLinks \/ k \in {"links", "_links"},
           NEW new, new = walkJson(doc, walked, inLinks, url),
           Leaves(new) = LeavesOf(new, [k \in DOMAIN Parts(new) |-> Leaves(Parts(new)[k])])
    PROVE  Faithful(new, doc, inLinks, url)
<1> DEFINE f == doc.fields
           bad == \E k \in DOMAIN f : IsHref(doc, k) /\ url[f[k].link] = Unmappable
           dropped == {k \in DOMAIN f :
                          IF IsHref(doc, k) THEN url[f[k].link] \in {Unmappable, ParseError}
                          ELSE Field(doc, k, walked, url) = RemoveElement}
           K == DOMAIN f \ dropped
           g == [k \in K |-> Field(doc, k, walked, url)]
<1>1. Parts(doc) = f /\ \A k : Name(doc, k) = k
  BY DEF Parts, Name
<1>2. \A k \in DOMAIN f : /\ f[k] \in Documents
                          /\ \A leaf \in Leaves(f[k]) : IsLeaf(leaf)
                          /\ Leaves(f[k]) = LeavesOf(f[k], [j \in DOMAIN Parts(f[k]) |-> Leaves(Parts(f[k])[j])])
  <2>1. \A k \in DOMAIN f : f[k] \in Documents
    BY <1>1, DocumentFacts
  <2> QED BY <2>1, AreLeaves DEF Recursion, IsLeaves
<1>3. \A k \in DOMAIN f : k \in Labels
  <2>1. DOMAIN f \subseteq STRING
    BY Kinds
  <2> QED BY <2>1 DEF Labels
<1>4. Leaves(doc) = LeavesOf(doc, [k \in DOMAIN Parts(doc) |-> Leaves(Parts(doc)[k])])
  BY DEF Recursion, IsLeaves
<1>5. \A leaf : leaf \in Leaves(doc) <=> \E k \in DOMAIN f : \E x \in Leaves(f[k]) : leaf = Named(k, x)
  BY <1>1, <1>4, LeavesBelow
\* A field href that is a string has one leaf, and so has its public form.
<1>6. ASSUME NEW k \in DOMAIN f, IsHref(doc, k)
      PROVE  /\ k = "href" /\ Leaves(f[k]) = {<< <<>>, Str(f[k].link)>>}
             /\ Field(doc, k, walked, url) = Str(url[f[k].link])
             /\ Leaves(Str(url[f[k].link])) = {<< <<>>, Str(url[f[k].link])>>}
  <2>1. k = "href" /\ f[k].kind = "string"
    BY <1>6 DEF IsHref
  <2>2. PICK link \in Links : f[k] = Str(link) /\ f[k].link = link
    BY <1>2, <2>1, Kinds, Constructors
  <2>3. Leaves(f[k]) = {<< <<>>, Str(link)>>}
    BY <1>2, <2>1, <2>2, OneLeaf
  <2>4. Field(doc, k, walked, url) = Str(url[f[k].link])
    BY <1>6 DEF Field
  <2>5. Str(url[link]) \in {Str(url[l]) : l \in Links}
    OBVIOUS
  <2> DEFINE pub == Str(url[link])
  <2>6. Leaves(pub) = LeavesOf(pub, [j \in DOMAIN Parts(pub) |-> Leaves(Parts(pub)[j])])
    BY <2>5 DEF Recursion, IsLeaves
  <2>7. pub.kind = "string"
    BY Constructors
  <2> HIDE DEF pub
  <2>8. Leaves(pub) = {<< <<>>, pub>>}
    BY <2>6, <2>7, OneLeaf
  <2> QED BY <2>1, <2>2, <2>3, <2>4, <2>8 DEF pub
<1>7. CASE inLinks /\ bad
  <2>1. new = RemoveElement
    BY <1>7 DEF walkJson
  <2>2. PICK k \in DOMAIN f : IsHref(doc, k) /\ url[f[k].link] = Unmappable
    BY <1>7
  <2> DEFINE x == << <<>>, Str(f[k].link)>>
  <2>3. k = "href" /\ Leaves(f[k]) = {x}
    BY <1>6, <2>2
  <2>4. Lost(Named(k, x), url)
    BY <2>2, <2>3, HrefWalked
  <2>5. \E leaf \in Leaves(doc) : Lost(leaf, url)
    BY <1>5, <2>3, <2>4
  <2> QED BY <1>7, <2>1, <2>5 DEF Faithful
<1>8. CASE ~(inLinks /\ bad)
  <2>1. new = Obj(g)
    BY <1>8 DEF walkJson
  <2>2. new.kind = "object" /\ Parts(new) = g /\ \A k : Name(new, k) = k
    BY <2>1, Constructors DEF Parts, Name
  <2>3. new # RemoveElement
    BY <2>1, Kept
  <2> DEFINE name == [k \in DOMAIN f |-> k]
             S == [k \in DOMAIN f |-> Leaves(f[k])]
             T == [k \in K |-> Leaves(g[k])]
  <2>4. /\ \A k \in DOMAIN f : k \in K <=> IF IsHref(doc, k) THEN url[f[k].link] \notin {Unmappable, ParseError}
                                           ELSE Field(doc, k, walked, url) # RemoveElement
        /\ DOMAIN g = K /\ \A k \in K : g[k] = Field(doc, k, walked, url)
        /\ K \subseteq DOMAIN f
    OBVIOUS
  <2> HIDE DEF K, g, dropped
  <2>5. \A leaf : leaf \in Leaves(new) <=> \E k \in K : \E x \in Leaves(g[k]) : leaf = Named(k, x)
    BY <2>2, <2>4, LeavesBelow
  <2>6. ASSUME NEW k \in DOMAIN f
        PROVE  /\ k \in K => PartKept(k, Leaves(f[k]), Leaves(g[k]), inLinks, url)
               /\ k \notin K => PartDropped(k, Leaves(f[k]), inLinks, url)
    <3>1. CASE IsHref(doc, k)
      <4>1. CASE k \in K
        <5>1. g[k] = Str(url[f[k].link])
          BY <1>6, <2>4, <3>1, <4>1
        <5>2. url[f[k].link] \notin {Unmappable, ParseError}
          BY <2>4, <3>1, <4>1
        <5>3. PartKept("href", Leaves(f[k]), Leaves(g[k]), inLinks, url)
          <6> DEFINE link == f[k].link
          <6>1. Leaves(f[k]) = {<< <<>>, Str(link)>>} /\ Leaves(g[k]) = {<< <<>>, Str(url[link])>>}
            BY <1>6, <3>1, <5>1
          <6>2. url[link] \notin {Unmappable, ParseError}
            BY <5>2
          <6> HIDE DEF link
          <6>3. PartKept("href", {<< <<>>, Str(link)>>}, {<< <<>>, Str(url[link])>>}, inLinks, url)
            BY <6>2, HrefWalked
          <6> QED BY <6>1, <6>3, Zenon
        <5> QED BY <1>6, <3>1, <4>1, <5>3
      <4>2. CASE k \notin K
        <5>1. url[f[k].link] \in {Unmappable, ParseError}
          BY <2>4, <3>1, <4>2
        <5>2. PartDropped("href", Leaves(f[k]), inLinks, url)
          BY <1>6, <3>1, <5>1, HrefWalked
        <5> QED BY <1>6, <3>1, <4>2, <5>2
      <4> QED BY <4>1, <4>2
    <3>2. CASE k = "href" /\ ~IsHref(doc, k)
      <4>1. Field(doc, k, walked, url) = f[k]
        BY <3>2 DEF Field
      <4>2. f[k] # RemoveElement
        BY <1>2, Kinds, Constructors
      <4>3. k \in K /\ g[k] = f[k]
        BY <2>4, <3>2, <4>1, <4>2
      <4>4. f[k].kind # "string"
        BY <3>2 DEF IsHref
      <4>5. ASSUME NEW x \in Leaves(f[k]), x[1] = <<>> PROVE x[2].kind # "string"
        <5>1. CASE f[k].kind \in {"object", "array"}
          <6>1. PICK j \in DOMAIN Parts(f[k]) : \E y \in Leaves(Parts(f[k])[j]) : x = Named(Name(f[k], j), y)
            <7> DEFINE e == f[k]
            <7>1. /\ Leaves(e) = LeavesOf(e, [i \in DOMAIN Parts(e) |-> Leaves(Parts(e)[i])])
                  /\ e.kind \in {"object", "array"} /\ x \in Leaves(e)
              BY <1>2, <4>5, <5>1
            <7> HIDE DEF e
            <7>2. \E j \in DOMAIN Parts(e) : \E y \in Leaves(Parts(e)[j]) : x = Named(Name(e, j), y)
              BY <7>1, LeavesBelow
            <7> QED BY <7>2 DEF e
          <6>2. PICK y \in Leaves(Parts(f[k])[j]) : x = Named(Name(f[k], j), y)
            BY <6>1
          <6>3. IsLeaf(y)
            BY <1>2, DocumentFacts, AreLeaves
          <6>4. x[1] = <<Name(f[k], j)>> \o y[1] /\ y[1] \in Seq(Labels)
            BY <6>2, <6>3 DEF Named, IsLeaf
          <6>5. x[1] # <<>>
            BY <6>4, ConcatNonEmpty
          <6> QED BY <4>5, <6>5
        <5>2. CASE f[k].kind \notin {"object", "array"}
          <6>1. Leaves(f[k]) = {<< <<>>, f[k]>>}
            BY <1>2, <5>2, OneLeaf
          <6> QED BY <4>4, <6>1
        <5> QED BY <5>1, <5>2
      <4>6. PartKept("href", Leaves(f[k]), Leaves(f[k]), inLinks, url)
        BY <1>2, <4>5, HrefIgnored
      <4> QED BY <3>2, <4>3, <4>6
    <3>3. CASE k # "href"
      <4>1. Field(doc, k, walked, url) = walked[k] /\ ~IsHref(doc, k)
        BY <3>3 DEF Field, IsHref
      <4>2. k \in K <=> walked[k] # RemoveElement
        BY <2>4, <4>1
      <4>3. PICK inside \in BOOLEAN : /\ Faithful(walked[k], f[k], inside, url)
                                      /\ inside => inLinks \/ k \in {"links", "_links"}
        BY <1>1
      <4>4. /\ walked[k] # RemoveElement => PartKept(k, Leaves(f[k]), Leaves(walked[k]), inLinks, url)
            /\ walked[k] = RemoveElement => PartDropped(k, Leaves(f[k]), inLinks, url)
        BY <1>2, <1>3, <3>3, <4>3, PartWalked
      <4>5. CASE k \in K
        <5>1. g[k] = walked[k]
          BY <2>4, <4>1, <4>5
        <5>2. PartKept(k, Leaves(f[k]), Leaves(g[k]), inLinks, url)
          BY <4>2, <4>4, <4>5, <5>1
        <5> QED BY <4>5, <5>2
      <4>6. CASE k \notin K
        <5>1. PartDropped(k, Leaves(f[k]), inLinks, url)
          BY <4>2, <4>4, <4>6
        <5> QED BY <4>6, <5>1
      <4> QED BY <4>5, <4>6
    <3> QED BY <3>1, <3>2, <3>3
  <2>7. Rewritten(new, doc, inLinks, url)
    <3>1. \A k \in DOMAIN f : name[k] = k /\ S[k] = Leaves(f[k])
      OBVIOUS
    <3>2. \A k \in K : T[k] = Leaves(g[k])
      OBVIOUS
    <3> HIDE DEF name, S, T, f
    <3>3. \A leaf : leaf \in Leaves(doc) <=> \E k \in DOMAIN f : \E x \in S[k] : leaf = Named(name[k], x)
      BY <1>5, <3>1
    <3>4. \A leaf : leaf \in Leaves(new) <=> \E k \in K : \E x \in T[k] : leaf = Named(name[k], x)
      BY <2>4, <2>5, <3>1, <3>2
    <3>5. \A k \in K : PartKept(name[k], S[k], T[k], inLinks, url)
      BY <2>4, <2>6, <3>1, <3>2
    <3>6. \A k \in DOMAIN f \ K : PartDropped(name[k], S[k], inLinks, url)
      BY <2>6, <3>1
    <3>7. K \subseteq DOMAIN f
      BY <2>4
    <3> DEFINE D == DOMAIN f
    <3> HIDE DEF D
    <3>8. /\ K \subseteq D /\ \A k \in D \ K : PartDropped(name[k], S[k], inLinks, url)
          /\ \A leaf : leaf \in Leaves(doc) <=> \E k \in D : \E x \in S[k] : leaf = Named(name[k], x)
      BY <3>3, <3>6, <3>7 DEF D
    <3>9. Gathers(Leaves(doc), D, name, S) /\ Gathers(Leaves(new), K, name, T)
      BY <3>4, <3>8 DEF Gathers
    <3>10. AllKept(K, name, S, T, inLinks, url) /\ AllDropped(D, K, name, S, inLinks, url)
      BY <3>5, <3>8 DEF AllKept, AllDropped
    <3> QED BY <3>8, <3>9, <3>10, Assembled
  <2> QED BY <2>3, <2>7 DEF Faithful
<1> QED BY <1>7, <1>8

\* The walk of an array is faithful when those of its elements are.
LEMMA WalkArray ==
    ASSUME NEW url, Recursion(url), NEW doc \in Documents, doc.kind = "array",
           NEW inLinks \in BOOLEAN, NEW walked,
           \A k \in DOMAIN Parts(doc) : \E inside \in BOOLEAN :
              Faithful(walked[k], Parts(doc)[k], inside, url) /\ (inside => inLinks),
           NEW new, new = walkJson(doc, walked, inLinks, url),
           Leaves(new) = LeavesOf(new, [k \in DOMAIN Parts(new) |-> Leaves(Parts(new)[k])])
    PROVE  Faithful(new, doc, inLinks, url)
<1> DEFINE f == doc.items
           D == DOMAIN f
           K == {i \in D : walked[i] # RemoveElement}
           g == [i \in K |-> walked[i]]
           name == [k \in D |-> "[]"]
           S == [k \in D |-> Leaves(f[k])]
           T == [k \in K |-> Leaves(g[k])]
<1>1. Parts(doc) = f /\ \A k : Name(doc, k) = "[]"
  BY DEF Parts, Name
<1>2. \A k \in D : f[k] \in Documents /\ \A leaf \in Leaves(f[k]) : IsLeaf(leaf)
  <2>1. \A k \in D : f[k] \in Documents
    BY <1>1, DocumentFacts
  <2> QED BY <2>1, AreLeaves
<1>3. Leaves(doc) = LeavesOf(doc, [k \in DOMAIN Parts(doc) |-> Leaves(Parts(doc)[k])])
  BY DEF Recursion, IsLeaves
<1>4. \A leaf : leaf \in Leaves(doc) <=> \E k \in D : \E x \in Leaves(f[k]) : leaf = Named("[]", x)
  BY <1>1, <1>3, LeavesBelow
<1>5. "[]" \in Labels /\ "[]" # "href"
  BY DEF Labels
<1>6. ASSUME NEW k \in D
      PROVE  /\ walked[k] # RemoveElement => PartKept("[]", Leaves(f[k]), Leaves(walked[k]), inLinks, url)
             /\ walked[k] = RemoveElement => PartDropped("[]", Leaves(f[k]), inLinks, url)
  <2>1. PICK inside \in BOOLEAN : Faithful(walked[k], f[k], inside, url) /\ (inside => inLinks)
    BY <1>1
  <2> QED BY <1>2, <1>5, <2>1, PartWalked
<1>7. CASE K = {} /\ D # {}
  <2>1. new = RemoveElement
    BY <1>7 DEF walkJson
  <2>2. PICK k \in D : walked[k] = RemoveElement
    BY <1>7
  <2>3. PICK inside \in BOOLEAN : Faithful(walked[k], f[k], inside, url) /\ (inside => inLinks)
    BY <1>1
  <2>4. inLinks /\ \E leaf \in Leaves(f[k]) : Lost(leaf, url)
    BY <2>2, <2>3 DEF Faithful
  <2>5. PICK leaf \in Leaves(f[k]) : Lost(leaf, url)
    BY <2>4
  <2>6. Lost(Named("[]", leaf), url)
    BY <1>2, <1>5, <2>5, NamedPublic
  <2>7. Named("[]", leaf) \in Leaves(doc)
    BY <1>4
  <2> QED BY <2>1, <2>4, <2>6, <2>7 DEF Faithful
<1>8. CASE ~(K = {} /\ D # {})
  <2>1. new = Arr(g)
    BY <1>8 DEF walkJson
  <2>2. new.kind = "array" /\ Parts(new) = g /\ \A k : Name(new, k) = "[]"
    BY <2>1, Constructors DEF Parts, Name
  <2>3. new # RemoveElement
    BY <2>1, Kept
  <2>4. DOMAIN g = K /\ K \subseteq D /\ \A k \in K : g[k] = walked[k] /\ T[k] = Leaves(g[k])
    OBVIOUS
  <2>5. /\ \A k \in D : name[k] = "[]" /\ S[k] = Leaves(f[k])
        /\ \A k \in D : k \in K <=> walked[k] # RemoveElement
    OBVIOUS
  <2> HIDE DEF K, g, name, S, T, f, D
  <2>6. \A leaf : leaf \in Leaves(new) <=> \E k \in K : \E x \in Leaves(g[k]) : leaf = Named("[]", x)
    BY <2>2, <2>4, LeavesBelow
  <2>7. Gathers(Leaves(doc), D, name, S) /\ Gathers(Leaves(new), K, name, T)
    BY <1>4, <2>4, <2>5, <2>6 DEF Gathers
  <2>8. AllKept(K, name, S, T, inLinks, url)
    BY <1>6, <2>4, <2>5 DEF AllKept
  <2>9. AllDropped(D, K, name, S, inLinks, url)
    BY <1>6, <2>5 DEF AllDropped
  <2>10. Rewritten(new, doc, inLinks, url)
    BY <2>4, <2>7, <2>8, <2>9, Assembled
  <2> QED BY <2>3, <2>10 DEF Faithful
<1> QED BY <1>7, <1>8

\* walkJson keeps its promise for every document, by induction over documents.
LEMMA WalkFaithful ==
    ASSUME NEW url, Recursion(url), NEW doc \in Documents, NEW inLinks \in BOOLEAN
    PROVE  Faithful(Walk(doc, inLinks, url), doc, inLinks, url)
<1> DEFINE G == {d \in Documents : \A l \in BOOLEAN : Faithful(Walk(d, l, url), d, l, url)}
<1>1. ASSUME NEW d \in Documents, \A k \in DOMAIN Parts(d) : Parts(d)[k] \in G, NEW l \in BOOLEAN
      PROVE  Faithful(Walk(d, l, url), d, l, url)
  <2> DEFINE walked == WalkParts(d, l, url)
             new == Walk(d, l, url)
  <2>1. new = walkJson(d, walked, l, url)
    BY DEF Recursion
  <2>2. new \in Walks(url)
    BY DEF Walks
  <2>3. /\ Leaves(new) = LeavesOf(new, [k \in DOMAIN Parts(new) |-> Leaves(Parts(new)[k])])
        /\ Leaves(d) = LeavesOf(d, [k \in DOMAIN Parts(d) |-> Leaves(Parts(d)[k])])
    BY <2>2 DEF Recursion, IsLeaves
  <2>4. \A k \in DOMAIN Parts(d) : \E inside \in BOOLEAN :
           /\ Faithful(walked[k], Parts(d)[k], inside, url)
           /\ inside => l \/ (d.kind = "object" /\ k \in {"links", "_links"})
    <3> SUFFICES ASSUME NEW k \in DOMAIN Parts(d)
                 PROVE  \E inside \in BOOLEAN :
                           /\ Faithful(walked[k], Parts(d)[k], inside, url)
                           /\ inside => l \/ (d.kind = "object" /\ k \in {"links", "_links"})
      OBVIOUS
    <3>1. PICK inside \in BOOLEAN :
             /\ walked[k] = Walk(Parts(d)[k], inside, url)
             /\ inside => l \/ (d.kind = "object" /\ k \in {"links", "_links"})
      BY PartsWalked
    <3>2. Faithful(Walk(Parts(d)[k], inside, url), Parts(d)[k], inside, url)
      BY <1>1
    <3> QED BY <3>1, <3>2
  <2> HIDE DEF walked, new, G
  <2>5. CASE d.kind = "object"
    <3>1. \A k \in DOMAIN Parts(d) : \E inside \in BOOLEAN :
             /\ Faithful(walked[k], Parts(d)[k], inside, url)
             /\ inside => l \/ k \in {"links", "_links"}
      BY <2>4
    <3>2. Faithful(new, d, l, url)
      BY <2>1, <2>3, <2>5, <3>1, WalkObject
    <3> QED BY <3>2 DEF new
  <2>6. CASE d.kind = "array"
    <3>1. \A k \in DOMAIN Parts(d) : \E inside \in BOOLEAN :
             Faithful(walked[k], Parts(d)[k], inside, url) /\ (inside => l)
      BY <2>4, <2>6
    <3>2. Faithful(new, d, l, url)
      BY <2>1, <2>3, <2>6, <3>1, WalkArray
    <3> QED BY <3>2 DEF new
  <2>7. CASE d.kind \notin {"object", "array"}
    <3>1. new = d
      BY <2>1, <2>7 DEF walkJson
    <3>2. d # RemoveElement
      BY Kinds, Constructors
    <3>3. Leaves(d) = {<< <<>>, d>>}
      BY <2>3, <2>7, OneLeaf
    <3>4. ~IsLink(<< <<>>, d>>)
      BY DEF IsLink
    <3>5. ~Lost(<< <<>>, d>>, url) /\ Public(<< <<>>, d>>, url) = << <<>>, d>>
      BY <3>4 DEF Lost, Public
    <3>6. Rewritten(d, d, l, url)
      BY <3>3, <3>5 DEF Rewritten
    <3> QED BY <3>1, <3>2, <3>6 DEF Faithful, new
  <2> QED BY <2>5, <2>6, <2>7
<1>2. \A d \in Documents : (\A k \in DOMAIN Parts(d) : Parts(d)[k] \in G) => d \in G
  BY <1>1
<1> HIDE DEF G
<1>3. Documents \subseteq G
  BY <1>2, DocumentInduction
<1> QED BY <1>3 DEF G

\* So a body, which is walked outside of links, is rewritten and never removed.
LEMMA BodyRewritten ==
    ASSUME NEW url, Recursion(url), NEW doc \in Documents
    PROVE  /\ Walk(doc, FALSE, url) # RemoveElement
           /\ Rewrites(Walk(doc, FALSE, url), doc, url)
<1>1. PICK l \in BOOLEAN : ~l /\ l = FALSE
  OBVIOUS
<1>2. Faithful(Walk(doc, l, url), doc, l, url)
  BY WalkFaithful
<1>3. Walk(doc, l, url) # RemoveElement /\ Rewrites(Walk(doc, l, url), doc, url)
  BY <1>1, <1>2 DEF Faithful, Rewritten, Rewrites
<1> QED BY <1>1, <1>3, Zenon

\* NoBody, the empty array, is the only document that is walked to it.
LEMMA EmptyBody ==
    ASSUME NEW url, Recursion(url), NEW doc \in Documents
    PROVE  Walk(doc, FALSE, url) = NoBody <=> doc = NoBody
<1> DEFINE walked == WalkParts(doc, FALSE, url)
<1>1. Walk(doc, FALSE, url) = walkJson(doc, walked, FALSE, url)
  BY DEF Recursion
<1>2. NoBody.kind = "array" /\ NoBody.items = <<>> /\ NoBody # RemoveElement
  BY Constructors, Kept DEF NoBody
<1> HIDE DEF walked
<1>3. CASE doc.kind = "array"
  <2> DEFINE kept == {i \in DOMAIN doc.items : walked[i] # RemoveElement}
             g == [i \in kept |-> walked[i]]
  <2>1. walkJson(doc, walked, FALSE, url) =
           IF kept = {} /\ DOMAIN doc.items # {} THEN RemoveElement ELSE Arr(g)
    BY <1>3 DEF walkJson
  <2>2. doc = Arr(doc.items) /\ doc.items \in Seq(Documents)
    BY <1>3, Kinds
  <2>3. doc.items = <<>> <=> DOMAIN doc.items = {}
    <3> DEFINE items == doc.items
    <3>1. items \in Seq(Documents)
      BY <2>2
    <3> HIDE DEF items
    <3>2. Len(items) \in Nat /\ DOMAIN items = 1 .. Len(items)
      BY <3>1
    <3>3. DOMAIN items = {} => Len(items) = 0
      BY <3>2
    <3>4. items = <<>> <=> DOMAIN items = {}
      BY <3>1, <3>2, <3>3
    <3> QED BY <3>4 DEF items
  <2>4. g = <<>> <=> kept = {}
    <3>1. DOMAIN g = kept /\ DOMAIN <<>> = {}
      OBVIOUS
    <3>2. ASSUME kept = {} PROVE g = <<>>
      <4>1. g \in [1 .. 0 -> {}] /\ 0 \in Nat
        BY <3>2
      <4> HIDE DEF g
      <4>2. g \in Seq({}) /\ Len(g) = 0
        BY <4>1, FunctionSeq
      <4> QED BY <4>2
    <3> QED BY <3>1, <3>2
  <2>5. doc.items = <<>> => kept = {}
    BY <2>3
  <2> HIDE DEF kept, g
  <2>6. doc = NoBody <=> doc.items = <<>>
    BY <1>2, <2>2 DEF NoBody
  <2>7. Arr(g) = NoBody <=> g = <<>>
    BY <1>2, Constructors DEF NoBody
  <2>8. walkJson(doc, walked, FALSE, url) = NoBody <=> doc = NoBody
    BY <1>2, <2>1, <2>3, <2>4, <2>5, <2>6, <2>7
  <2> QED BY <1>1, <2>8, Zenon
<1>4. CASE doc.kind = "object"
  <2>1. PICK f : walkJson(doc, walked, FALSE, url) = Obj(f)
    BY <1>4 DEF walkJson
  <2>2. Obj(f) # NoBody /\ doc # NoBody
    BY <1>2, <1>4, Constructors
  <2> QED BY <1>1, <2>1, <2>2, Zenon
<1>5. CASE doc.kind \notin {"object", "array"}
  <2>1. walkJson(doc, walked, FALSE, url) = doc
    BY <1>5 DEF walkJson
  <2> QED BY <1>1, <2>1, Zenon
<1> QED BY <1>3, <1>4, <1>5

\* A decoded document is a document, and NoBody only if it was.
LEMMA DecodedBody ==
    ASSUME NEW doc \in Documents
    PROVE  Unmarshalled(doc) \in Documents /\ (Unmarshalled(doc) = NoBody <=> doc = NoBody)
<1> DEFINE parts == [k \in DOMAIN Parts(doc) |-> Unmarshalled(Parts(doc)[k])]
<1>1. Unmarshalled(doc) \in Documents /\ Unmarshalled(doc) = decodeJson(doc, parts)
  BY DocumentsAssumption
<1>2. NoBody.kind = "array" /\ NoBody.items = <<>>
  BY Constructors DEF NoBody
<1>3. DOMAIN parts = DOMAIN Parts(doc)
  OBVIOUS
<1> HIDE DEF parts
<1>4. CASE doc.kind = "array"
  <2> DEFINE items == doc.items
  <2>1. doc = Arr(items) /\ items \in Seq(Documents) /\ Parts(doc) = items
    BY <1>4, Kinds DEF Parts
  <2>2. Unmarshalled(doc) = Arr(parts)
    BY <1>1, <1>4 DEF decodeJson
  <2> HIDE DEF items
  <2>3. Len(items) \in Nat /\ DOMAIN items = 1 .. Len(items)
    BY <2>1
  <2>4. items = <<>> <=> DOMAIN items = {}
    BY <2>1, <2>3
  <2>5. parts = <<>> => DOMAIN parts = {}
    OBVIOUS
  <2>6. ASSUME DOMAIN parts = {} PROVE parts = <<>>
    <3>1. parts = [k \in {} |-> parts[k]]
      BY <2>6 DEF parts
    <3>2. parts \in [1 .. 0 -> {}] /\ 0 \in Nat
      BY <3>1
    <3>3. parts \in Seq({}) /\ Len(parts) = 0
      BY <3>2, FunctionSeq
    <3> QED BY <3>3
  <2>7. (doc = NoBody <=> items = <<>>) /\ (Arr(parts) = NoBody <=> parts = <<>>)
    <3>1. Arr(items).items = items /\ Arr(parts).items = parts
      BY Constructors
    <3>2. items = <<>> => Arr(items) = NoBody
      BY Zenon DEF NoBody
    <3>3. parts = <<>> => Arr(parts) = NoBody
      BY Zenon DEF NoBody
    <3> QED BY <1>2, <2>1, <3>1, <3>2, <3>3, Zenon
  <2> QED BY <1>1, <1>3, <2>1, <2>2, <2>4, <2>5, <2>6, <2>7
<1>5. CASE doc.kind # "array"
  <2>1. \E x : Unmarshalled(doc) = Obj(x) \/ Unmarshalled(doc) = Scalar(x) \/ Unmarshalled(doc) = doc
    BY <1>1, <1>5 DEF decodeJson
  <2> QED BY <1>1, <1>2, <1>5, <2>1, Constructors
<1> QED BY <1>4, <1>5

(***************************************************************************)
(* Exchanges.                                                              *)
(***************************************************************************)

\* A gateway that forwards requests is one that was built.
LEMMA ForwardsBuilt == FSpec => BuildSpec
<1>1. FInit => BuildInit
  BY DEF FInit
<1>2. [FNext]_fvars => [BuildNext]_buildVars
  BY DEF FNext, fvars, Forward, NotFound, Respond, BreakOff, Unavailable, Finished
<1> QED BY <1>1, <1>2, PTL DEF FSpec, BuildSpec

\* An application in the router of a gateway that serves.
LEMMA Served ==
    ASSUME BuildInv, stage = "serving", NEW h \in mux, h.app # NoApp
    PROVE  /\ h.cfg \in Configured /\ IsApplication(h.cfg)
           /\ h.route \in RoutesOf(h.cfg)
           /\ h.method \in Methods
           /\ \A r \in RoutesOf(h.cfg), m \in Methods : Handler(h.app, r, h.cfg, m) \in mux
<1>1. mux = LoginHandlers \cup All(loaded.apps) \cup All(static)
  BY ExpectedParts DEF BuildInv, MuxInv
<1>2. Decoded(loaded.apps) /\ Decoded(static)
  BY AppsDecoded DEF BuildInv
<1>3. h \notin LoginHandlers
  BY DEF LoginHandlers
<1>4. ASSUME NEW apps, Decoded(apps), All(apps) \subseteq mux, h \in All(apps)
      PROVE  /\ h.cfg \in Configured /\ IsApplication(h.cfg)
             /\ h.route \in RoutesOf(h.cfg)
             /\ h.method \in Methods
             /\ \A r \in RoutesOf(h.cfg), m \in Methods : Handler(h.app, r, h.cfg, m) \in mux
  <2>1. PICK n \in DOMAIN apps : h \in HandlersOf(n, apps[n])
    BY <1>4 DEF All
  <2>2. PICK r \in RoutesOf(apps[n]), m \in Methods : h = Handler(n, r, apps[n], m)
    BY <2>1 DEF HandlersOf, Methods
  <2>3. h.app = n /\ h.route = r /\ h.cfg = apps[n] /\ h.method = m
    BY <2>2, HandlerFields
  <2>4. \A s \in RoutesOf(apps[n]), k \in Methods : Handler(n, s, apps[n], k) \in HandlersOf(n, apps[n])
    BY DEF HandlersOf, Methods
  <2>5. HandlersOf(n, apps[n]) \subseteq mux
    BY <1>4 DEF All
  <2> QED BY <1>4, <2>3, <2>4, <2>5 DEF Decoded
<1>5. All(loaded.apps) \subseteq mux /\ All(static) \subseteq mux
  BY <1>1
<1>6. CASE h \in All(loaded.apps)
  BY <1>2, <1>4, <1>5, <1>6
<1>7. CASE h \in All(static)
  BY <1>2, <1>4, <1>5, <1>7
<1> QED BY <1>1, <1>3, <1>6, <1>7

\* A request on its way, and an answer that has come back: from the service, with
\* the body that the HTTP client hands out or a part of it, or from UnavailableError.
Sending(e) ==
    /\ stage = "serving"
    /\ e.req \in Requests
    /\ e.handler \in mux /\ e.handler.app # NoApp
    /\ e.handler.method = e.req.method /\ Matches(e.handler.route, e.req.path)
    /\ e.target = Target(e.handler, e.req)
Got(req, answer) ==
    IF req.method = "HEAD" \/ Redirects(req, answer) THEN [answer EXCEPT !.body = NoBody]
    ELSE answer
Broken(answer, part) == [answer EXCEPT !.body = part, !.json = FALSE]
Failure(req) ==
    [status |-> 503, location |-> NoLink, json |-> TRUE,
     body |-> IF req.method = "HEAD" THEN NoBody ELSE ErrorBody]
Answered(e) ==
    /\ e.order \in Orders(e.handler.cfg)
    /\ \/ /\ e.answer \in Answers /\ e.broken = FALSE
          /\ e.client = Options(e.handler, Decorate(e.req, e.handler.cfg, Got(e.req, e.answer), e.order))
       \/ /\ e.answer \in Answers /\ e.broken = TRUE
          /\ \E part \in {NoBody, Fragment} :
                e.client = Options(e.handler,
                                   Decorate(e.req, e.handler.cfg, Broken(e.answer, part), e.order))
       \/ /\ e.answer = NoAnswer /\ e.broken = FALSE
          /\ e.client = Options(e.handler, Decorate(e.req, e.handler.cfg, Failure(e.req), e.order))
ExchangeInv ==
    \/ exchange.pc \in {"none", "not found"}
    \/ exchange.pc = "sent" /\ Sending(exchange)
    \/ exchange.pc = "done" /\ Sending(exchange) /\ Answered(exchange)

\* Each step of an exchange keeps what is known of it.
LEMMA ExchangeStep == ExchangeInv /\ [FNext]_fvars => ExchangeInv'
<1> SUFFICES ASSUME ExchangeInv, [FNext]_fvars PROVE ExchangeInv'
  OBVIOUS
<1>1. CASE exchange = Quiet /\ BuildNext /\ UNCHANGED exchange
  <2>1. exchange'.pc = "none"
    BY <1>1 DEF Quiet
  <2> QED BY <2>1 DEF ExchangeInv
<1>2. ASSUME NEW req \in Requests, Forward(req) PROVE ExchangeInv'
  <2>1. PICK h \in {i \in Claims(req) : i.app # NoApp} :
          exchange' = [pc |-> "sent", req |-> req, handler |-> h, target |-> Target(h, req)]
    BY <1>2 DEF Forward
  <2>2. stage' = "serving" /\ mux' = mux
    BY <1>2 DEF Forward, buildVars
  <2>3. h \in mux /\ h.method = req.method /\ Matches(h.route, req.path) /\ h.app # NoApp
    BY <2>1 DEF Claims
  <2>4. /\ exchange'.pc = "sent" /\ exchange'.req = req /\ exchange'.handler = h
        /\ exchange'.target = Target(h, req)
    BY <2>1
  <2> QED BY <2>2, <2>3, <2>4 DEF ExchangeInv, Sending
<1>3. ASSUME NEW req \in Requests, NotFound(req) PROVE ExchangeInv'
  BY <1>3 DEF NotFound, ExchangeInv
<1>4. ASSUME NEW answer, NEW broken, NEW order, NEW client, Done(answer, broken, order, client),
             exchange.pc = "sent", UNCHANGED buildVars
      PROVE  /\ exchange'.pc = "done" /\ Sending(exchange)' /\ exchange'.req = exchange.req
             /\ exchange'.handler = exchange.handler
             /\ exchange'.answer = answer /\ exchange'.broken = broken /\ exchange'.order = order
             /\ exchange'.client = Options(exchange.handler, client)
  <2>1. Sending(exchange)
    BY <1>4 DEF ExchangeInv
  <2>2. /\ exchange'.pc = "done" /\ exchange'.req = exchange.req
        /\ exchange'.handler = exchange.handler /\ exchange'.target = exchange.target
        /\ exchange'.answer = answer /\ exchange'.broken = broken /\ exchange'.order = order
        /\ exchange'.client = Options(exchange.handler, client)
    BY <1>4 DEF Done
  <2> QED BY <1>4, <2>1, <2>2 DEF Sending, buildVars
<1>5. ASSUME exchange.pc = "sent", NEW answer \in Answers, NEW order \in Orders(exchange.handler.cfg),
             Respond(answer, order)
      PROVE  ExchangeInv'
  <2> DEFINE client == Decorate(exchange.req, exchange.handler.cfg, Got(exchange.req, answer), order)
  <2>1. Done(answer, FALSE, order, client) /\ UNCHANGED buildVars
    BY <1>5 DEF Respond, Got
  <2> HIDE DEF client
  <2>2. /\ exchange'.pc = "done" /\ Sending(exchange)' /\ exchange'.req = exchange.req
        /\ exchange'.handler = exchange.handler
        /\ exchange'.answer = answer /\ exchange'.broken = FALSE /\ exchange'.order = order
        /\ exchange'.client = Options(exchange.handler, client)
    BY <1>4, <1>5, <2>1
  <2>3. Answered(exchange)'
    BY <2>2 DEF Answered, client
  <2> QED BY <2>2, <2>3 DEF ExchangeInv
<1>6. ASSUME exchange.pc = "sent", NEW answer \in Answers, NEW order \in Orders(exchange.handler.cfg),
             BreakOff(answer, order)
      PROVE  ExchangeInv'
  <2>1. PICK part \in {NoBody, Fragment} :
          Done(answer, TRUE, order,
               Decorate(exchange.req, exchange.handler.cfg, Broken(answer, part), order))
    BY <1>6 DEF BreakOff, Broken
  <2> DEFINE client == Decorate(exchange.req, exchange.handler.cfg, Broken(answer, part), order)
  <2>2. Done(answer, TRUE, order, client) /\ UNCHANGED buildVars
    BY <1>6, <2>1 DEF BreakOff
  <2> HIDE DEF client
  <2>3. /\ exchange'.pc = "done" /\ Sending(exchange)' /\ exchange'.req = exchange.req
        /\ exchange'.handler = exchange.handler
        /\ exchange'.answer = answer /\ exchange'.broken = TRUE /\ exchange'.order = order
        /\ exchange'.client = Options(exchange.handler, client)
    BY <1>4, <1>6, <2>2
  <2>4. Answered(exchange)'
    BY <2>1, <2>3 DEF Answered, client
  <2> QED BY <2>3, <2>4 DEF ExchangeInv
<1>7. CASE Unavailable
  <2>1. PICK order \in Orders(exchange.handler.cfg) :
          Done(NoAnswer, FALSE, order, Decorate(exchange.req, exchange.handler.cfg, Failure(exchange.req), order))
    BY <1>7 DEF Unavailable, Failure
  <2> DEFINE client == Decorate(exchange.req, exchange.handler.cfg, Failure(exchange.req), order)
  <2>2. Done(NoAnswer, FALSE, order, client) /\ UNCHANGED buildVars /\ exchange.pc = "sent"
    BY <1>7, <2>1 DEF Unavailable
  <2> HIDE DEF client
  <2>3. /\ exchange'.pc = "done" /\ Sending(exchange)' /\ exchange'.req = exchange.req
        /\ exchange'.handler = exchange.handler
        /\ exchange'.answer = NoAnswer /\ exchange'.broken = FALSE /\ exchange'.order = order
        /\ exchange'.client = Options(exchange.handler, client)
    BY <1>4, <2>2
  <2>4. Answered(exchange)'
    BY <2>3 DEF Answered, client
  <2> QED BY <2>3, <2>4 DEF ExchangeInv
<1>8. CASE Finished
  BY <1>8 DEF Finished, Quiet, ExchangeInv
<1>9. CASE UNCHANGED fvars
  <2>1. UNCHANGED <<stage, mux, exchange>>
    BY <1>9 DEF fvars, buildVars
  <2> QED BY <2>1 DEF ExchangeInv, Sending, Answered
<1> QED BY <1>1, <1>2, <1>3, <1>5, <1>6, <1>7, <1>8, <1>9 DEF FNext

\* The inductive invariant of a gateway that is built and serves.
FInv == BuildInv /\ ExchangeInv

\* The invariants of the build and of the exchange hold at all times.
LEMMA ForwardingAlways == FSpec => []FInv
<1>1. FInit => ExchangeInv
  BY DEF FInit, Quiet, ExchangeInv
<1>2. FSpec => []ExchangeInv
  BY <1>1, ExchangeStep, PTL DEF FSpec
<1> QED BY <1>2, ForwardsBuilt, BuildAlways, PTL DEF FInv

\* A record with the fields of an answer.
IsAnswer(a) ==
    DOMAIN a = {"status", "location", "json", "body"} /\ a = [k \in DOMAIN a |-> a[k]]

\* What JsonHostRewriter makes of an answer whose body, if it is JSON, is a document.
LEMMA Decorated ==
    ASSUME NEW req \in Requests, NEW app \in Configured, NEW order \in Orders(app),
           NEW answer, IsAnswer(answer), answer.body # RemoveElement,
           answer.json => answer.body \in Documents
    PROVE  LET d == Decorate(req, app, answer, order)
           IN /\ IsAnswer(d)
              /\ d.status = answer.status
              /\ d.body = NoBody <=> answer.body = NoBody
              /\ req.noRewrite \/ ~answer.json \/ req.method = "HEAD" => d.body = answer.body
              /\ ~req.noRewrite /\ answer.json /\ req.method # "HEAD"
                 => Rewrites(d.body, Unmarshalled(answer.body), UrlMap(app, order))
<1> DEFINE url == UrlMap(app, order)
           d == Decorate(req, app, answer, order)
           rewritten == answer.json /\ req.method # "HEAD"
           decoded == Unmarshalled(answer.body)
           body == IF rewritten THEN Walk(decoded, FALSE, url) ELSE answer.body
<1>1. Recursion(url)
  BY ForwardingAssumption
<1>2. ASSUME rewritten
      PROVE  /\ Walk(decoded, FALSE, url) # RemoveElement
             /\ Rewrites(Walk(decoded, FALSE, url), decoded, url)
             /\ Walk(decoded, FALSE, url) = NoBody <=> answer.body = NoBody
  <2>1. decoded \in Documents /\ (decoded = NoBody <=> answer.body = NoBody)
    BY <1>2, DecodedBody
  <2> HIDE DEF url, decoded
  <2>2. /\ Walk(decoded, FALSE, url) # RemoveElement
        /\ Rewrites(Walk(decoded, FALSE, url), decoded, url)
        /\ Walk(decoded, FALSE, url) = NoBody <=> decoded = NoBody
    BY <1>1, <2>1, BodyRewritten, EmptyBody
  <2> QED BY <2>1, <2>2, Zenon
<1>3. /\ body # RemoveElement /\ (body = NoBody <=> answer.body = NoBody)
      /\ rewritten => Rewrites(body, decoded, url)
      /\ ~rewritten => body = answer.body
  <2> HIDE DEF url, decoded, rewritten
  <2>1. CASE rewritten
    <3>1. body = Walk(decoded, FALSE, url)
      BY <2>1
    <3> HIDE DEF body
    <3> QED BY <1>2, <2>1, <3>1, Zenon
  <2>2. CASE ~rewritten
    BY <2>2
  <2> QED BY <2>1, <2>2
<1>4. CASE req.noRewrite
  BY <1>4 DEF Decorate
<1>5. CASE ~req.noRewrite
  <2>1. d = [answer EXCEPT !.location = Location(app, answer.location, order), !.body = body]
    BY <1>3, <1>5 DEF Decorate
  <2> HIDE DEF d, body, url, decoded
  <2>2. d.status = answer.status /\ d.body = body /\ IsAnswer(d)
    BY <2>1 DEF IsAnswer
  <2> QED BY <1>3, <1>5, <2>2 DEF d, url, decoded
<1> QED BY <1>4, <1>5

\* The answer before and after the OPTIONS handler.
LEMMA Completed ==
    ASSUME NEW h, NEW answer, IsAnswer(answer)
    PROVE  LET c == Options(h, answer)
           IN /\ c.body = answer.body
              /\ c.status = IF Head(h.chain) = "options" /\ c.body # NoBody THEN 200 ELSE answer.status
BY DEF Options, IsAnswer

\* What a client gets of what the service said: of the status, of the body and of
\* the document in it.
StatusPassed(h, a, c) ==
    /\ c.status = IF Head(h.chain) = "options" /\ c.body # NoBody THEN 200
                  ELSE IF a = NoAnswer THEN 503 ELSE a.status
    /\ c.status = 500 => a.status = 500
BodyPassed(req, a, c) ==
    \/ a = NoAnswer \/ req.method = "HEAD" \/ Redirects(req, a)
    \/ a.json /\ ~req.noRewrite /\ (c.body = NoBody => a.body = NoBody)
    \/ c.body = a.body
DocumentPassed(req, app, order, a, c) ==
    ~req.noRewrite /\ a.json /\ c.body # NoBody
    => Rewrites(c.body, Unmarshalled(a.body), UrlMap(app, order))

\* An answer has a status and a body that is a document.
LEMMA AnswerFacts ==
    ASSUME NEW a \in Answers
    PROVE  /\ IsAnswer(a) /\ a.body \in Documents /\ a.body # RemoveElement
           /\ a.status \in 100 .. 599 /\ a.json \in BOOLEAN /\ a # NoAnswer
<1>1. a \in [status : 100 .. 599, location : Links \cup {NoLink}, json : BOOLEAN, body : Documents]
  BY ForwardingAssumption
<1>2. IsAnswer(a) /\ a.body \in Documents /\ a.status \in 100 .. 599 /\ a.json \in BOOLEAN
  BY <1>1 DEF IsAnswer
<1>3. NoAnswer.status = 0
  BY DEF NoAnswer
<1>4. a.body # RemoveElement
  BY <1>2, Kinds, Constructors
<1> QED BY <1>2, <1>3, <1>4

\* The part of a body that has come is no mark of what is removed.
LEMMA SomeBody ==
    /\ NoBody # RemoveElement /\ ErrorBody # RemoveElement /\ Fragment # RemoveElement
    /\ NoBody \in Documents /\ ErrorBody \in Documents
BY ForwardingAssumption, Kept DEF NoBody, ErrorBody, Fragment, RemoveElement

\* What a client gets, by what the service said.
LEMMA ClientGets ==
    ASSUME FInv, exchange.pc = "done"
    PROVE  /\ StatusPassed(exchange.handler, exchange.answer, exchange.client)
           /\ ~exchange.broken => BodyPassed(exchange.req, exchange.answer, exchange.client)
           /\ ~exchange.broken => DocumentPassed(exchange.req, exchange.handler.cfg, exchange.order,
                                                 exchange.answer, exchange.client)
<1> DEFINE a == exchange.answer
           c == exchange.client
           h == exchange.handler
           app == h.cfg
           req == exchange.req
           order == exchange.order
           broken == exchange.broken
<1>1. Sending(exchange) /\ Answered(exchange)
  BY DEF FInv, ExchangeInv
<1>2. app \in Configured /\ req \in Requests /\ order \in Orders(app)
  BY <1>1, Served DEF FInv, Sending, Answered
<1>3. NoAnswer.status = 0 /\ NoAnswer.json = FALSE
  BY DEF NoAnswer
<1> HIDE DEF a, c, h, app, req, order, broken
<1>4. ASSUME a \in Answers, c = Options(h, Decorate(req, app, Got(req, a), order))
      PROVE  StatusPassed(h, a, c) /\ BodyPassed(req, a, c) /\ DocumentPassed(req, app, order, a, c)
  <2>1. /\ IsAnswer(a) /\ a.body \in Documents /\ a.body # RemoveElement
        /\ a.status \in 100 .. 599 /\ a.json \in BOOLEAN /\ a # NoAnswer
    BY <1>4, AnswerFacts
  <2> DEFINE got == Got(req, a)
             d == Decorate(req, app, got, order)
             cut == req.method = "HEAD" \/ Redirects(req, a)
  <2>2. /\ IsAnswer(got) /\ got.body # RemoveElement /\ got.body \in Documents
        /\ got.status = a.status /\ got.json = a.json
        /\ got.body = IF cut THEN NoBody ELSE a.body
    <3>1. CASE cut
      <4>1. got = [a EXCEPT !.body = NoBody]
        BY <3>1 DEF Got
      <4> QED BY <2>1, <3>1, <4>1, SomeBody DEF IsAnswer
    <3>2. CASE ~cut
      BY <2>1, <3>2 DEF Got
    <3> QED BY <3>1, <3>2
  <2>3. c = Options(h, d)
    BY <1>4
  <2> HIDE DEF got
  <2>4. /\ IsAnswer(d) /\ d.status = got.status /\ (d.body = NoBody <=> got.body = NoBody)
        /\ req.noRewrite \/ ~got.json \/ req.method = "HEAD" => d.body = got.body
        /\ ~req.noRewrite /\ got.json /\ req.method # "HEAD"
           => Rewrites(d.body, Unmarshalled(got.body), UrlMap(app, order))
    BY <1>2, <2>2, Decorated
  <2> HIDE DEF d
  <2>5. /\ c.body = d.body
        /\ c.status = IF Head(h.chain) = "options" /\ c.body # NoBody THEN 200 ELSE d.status
    BY <2>3, <2>4, Completed
  <2>6. StatusPassed(h, a, c)
    BY <2>1, <2>2, <2>4, <2>5 DEF StatusPassed
  <2>7. BodyPassed(req, a, c)
    BY <2>1, <2>2, <2>4, <2>5 DEF BodyPassed
  <2>8. DocumentPassed(req, app, order, a, c)
    <3> SUFFICES ASSUME ~req.noRewrite, a.json, c.body # NoBody
                 PROVE  Rewrites(c.body, Unmarshalled(a.body), UrlMap(app, order))
      BY DEF DocumentPassed
    <3>1. req.method # "HEAD" /\ got.body = a.body
      BY <2>2, <2>4, <2>5
    <3>2. Rewrites(d.body, Unmarshalled(got.body), UrlMap(app, order))
      BY <2>2, <2>4, <3>1
    <3> QED BY <2>5, <3>1, <3>2
  <2> QED BY <2>6, <2>7, <2>8
<1>5. ASSUME a \in Answers, NEW part \in {NoBody, Fragment},
             c = Options(h, Decorate(req, app, Broken(a, part), order))
      PROVE  StatusPassed(h, a, c)
  <2>1. IsAnswer(a) /\ a.status \in 100 .. 599 /\ a # NoAnswer
    BY <1>5, AnswerFacts
  <2> DEFINE got == Broken(a, part)
             d == Decorate(req, app, got, order)
  <2>2. IsAnswer(got) /\ got.body # RemoveElement /\ got.json = FALSE /\ got.status = a.status
    BY <2>1, SomeBody DEF Broken, IsAnswer
  <2>3. c = Options(h, d)
    BY <1>5
  <2> HIDE DEF got
  <2>4. IsAnswer(d) /\ d.status = got.status
    BY <1>2, <2>2, Decorated
  <2> HIDE DEF d
  <2>5. c.status = IF Head(h.chain) = "options" /\ c.body # NoBody THEN 200 ELSE d.status
    BY <2>3, <2>4, Completed
  <2> QED BY <2>1, <2>2, <2>4, <2>5 DEF StatusPassed
<1>6. ASSUME a = NoAnswer, c = Options(h, Decorate(req, app, Failure(req), order))
      PROVE  StatusPassed(h, a, c) /\ BodyPassed(req, a, c) /\ DocumentPassed(req, app, order, a, c)
  <2> DEFINE got == Failure(req)
             d == Decorate(req, app, got, order)
  <2>1. IsAnswer(got) /\ got.status = 503 /\ got.body \in Documents /\ got.body # RemoveElement
    BY SomeBody DEF Failure, IsAnswer
  <2>2. c = Options(h, d)
    BY <1>6
  <2> HIDE DEF got
  <2>3. IsAnswer(d) /\ d.status = got.status
    BY <1>2, <2>1, Decorated
  <2> HIDE DEF d
  <2>4. c.status = IF Head(h.chain) = "options" /\ c.body # NoBody THEN 200 ELSE d.status
    BY <2>2, <2>3, Completed
  <2> QED BY <1>3, <1>6, <2>1, <2>3, <2>4 DEF StatusPassed, BodyPassed, DocumentPassed
<1>7. \/ a \in Answers /\ broken = FALSE /\ c = Options(h, Decorate(req, app, Got(req, a), order))
      \/ /\ a \in Answers /\ broken = TRUE
         /\ \E part \in {NoBody, Fragment} :
               c = Options(h, Decorate(req, app, Broken(a, part), order))
      \/ a = NoAnswer /\ broken = FALSE /\ c = Options(h, Decorate(req, app, Failure(req), order))
  BY <1>1 DEF Answered, a, c, h, app, req, order, broken
<1>8. /\ StatusPassed(h, a, c)
      /\ ~broken => BodyPassed(req, a, c)
      /\ ~broken => DocumentPassed(req, app, order, a, c)
  BY <1>4, <1>5, <1>6, <1>7
<1> QED BY <1>8 DEF a, c, h, app, req, order, broken

\* The client learns what the service said: for every configuration, request and
\* answer its status, or 503 without one, and its body, or what becomes of it when it
\* is JSON.  The exceptions are those of AnswerPassed: OPTIONS, HEAD, responses that
\* the HTTP client would follow, and services that break off.
THEOREM AnswersPassed == FSpec => []AnswerPassed
<1>1. FInv => AnswerPassed
  BY ClientGets DEF AnswerPassed, StatusPassed, BodyPassed
<1> QED BY <1>1, ForwardingAlways, PTL

\* The client gets the document of the service with public links: whatever the
\* document, however deep it is nested, and in whatever order Go walks its maps, the
\* rewriting changes no other part of what was decoded and never fails.
THEOREM LinksPublic == FSpec => []PublicLinks
<1>1. FInv => PublicLinks
  BY ClientGets DEF PublicLinks, StatusPassed, DocumentPassed
<1> QED BY <1>1, ForwardingAlways, PTL

(***************************************************************************)
(* Routes.                                                                 *)
(***************************************************************************)

Segments == STRING

\* The first n elements of two sequences that agree in them.
LEMMA SamePrefix ==
    ASSUME NEW S, NEW r \in Seq(S), NEW s \in Seq(S), NEW n \in Nat, n <= Len(r), n <= Len(s),
           \A i \in 1 .. n : r[i] = s[i]
    PROVE  SubSeq(r, 1, n) = SubSeq(s, 1, n)
<1>1. \A i \in 1 .. n : r[i] \in S /\ s[i] \in S
  BY LenProperties
<1>2. /\ SubSeq(r, 1, n) \in Seq(S) /\ SubSeq(s, 1, n) \in Seq(S)
      /\ Len(SubSeq(r, 1, n)) = IF 1 <= n THEN n - 1 + 1 ELSE 0
      /\ Len(SubSeq(s, 1, n)) = IF 1 <= n THEN n - 1 + 1 ELSE 0
      /\ \A i \in 1 .. n - 1 + 1 : SubSeq(r, 1, n)[i] = r[1 + i - 1] /\ SubSeq(s, 1, n)[i] = s[1 + i - 1]
  BY <1>1, SubSeqProperties
<1>3. /\ Len(SubSeq(r, 1, n)) = n /\ Len(SubSeq(s, 1, n)) = n
      /\ \A i \in 1 .. n : SubSeq(r, 1, n)[i] = r[i] /\ SubSeq(s, 1, n)[i] = s[i]
  BY <1>2
<1> HIDE DEF Segments
<1> QED BY <1>2, <1>3, SeqEqual

\* A route that matches a path has its segments wherever it has no wildcard.
LEMMA MatchedLiteral ==
    ASSUME NEW r \in Seq(Segments), NEW path \in Seq(Segments), Matches(r, path)
    PROVE  /\ Len(path) >= Len(r)
           /\ \A i \in 1 .. Len(r) : r[i] \notin Params \cup {CatchAll} => r[i] = path[i]
           /\ Len(path) # Len(r) => r # <<>> /\ r[Len(r)] = CatchAll
<1>1. Len(r) \in Nat /\ Len(path) \in Nat
  OBVIOUS
<1>2. CASE /\ Len(r) = Len(path)
           /\ \A i \in 1 .. Len(path) : r[i] \in {path[i], CatchAll} \cup Params
  BY <1>1, <1>2
<1>3. CASE /\ r # <<>> /\ Last(r) = CatchAll /\ Len(path) >= Len(r)
           /\ \A i \in 1 .. Len(r) - 1 : r[i] \in {path[i]} \cup Params
  <2>1. r[Len(r)] = CatchAll
    BY <1>3 DEF Last
  <2>2. ASSUME NEW i \in 1 .. Len(r), r[i] \notin Params \cup {CatchAll} PROVE r[i] = path[i]
    <3>1. i # Len(r)
      BY <2>1, <2>2
    <3>2. i \in 1 .. Len(r) - 1
      BY <1>1, <3>1
    <3> QED BY <1>3, <2>2, <3>2
  <2> QED BY <1>3, <2>1, <2>2
<1> QED BY <1>2, <1>3 DEF Matches

\* Two routes that match one path cannot both be in the router.
LEMMA MatchUnique ==
    ASSUME NEW r \in Seq(Segments), NEW s \in Seq(Segments), NEW path \in Seq(Segments),
           Matches(r, path), Matches(s, path), ~BadRoute(r), ~BadRoute(s)
    PROVE  Conflict(r, s)
<1> SUFFICES ASSUME ~Conflict(r, s) PROVE FALSE
  OBVIOUS
<1> DEFINE D == {i \in 1 .. Len(r) : i <= Len(s) /\ r[i] # s[i]}
<1>1. Len(r) \in Nat /\ Len(s) \in Nat /\ Len(path) \in Nat
  OBVIOUS
<1>2. CASE D # {}
  <2>1. D \subseteq Nat
    BY <1>1
  <2>2. PICK m \in D : \A k \in D : m <= k
    BY <1>2, <2>1, Least, Zenon
  <2>3. m \in 1 .. Len(r) /\ m <= Len(s) /\ r[m] # s[m] /\ m \in 1 .. Len(s)
    BY <1>1, <2>2
  <2>4. \A i \in 1 .. m - 1 : r[i] = s[i]
    BY <1>1, <2>2, <2>3
  <2>5. SubSeq(r, 1, m - 1) = SubSeq(s, 1, m - 1)
    <3>1. m - 1 \in Nat /\ m - 1 <= Len(r) /\ m - 1 <= Len(s)
      BY <1>1, <2>3
    <3> DEFINE n == m - 1
    <3>2. n \in Nat /\ n <= Len(r) /\ n <= Len(s) /\ \A i \in 1 .. n : r[i] = s[i]
      BY <2>4, <3>1
    <3> HIDE DEF n
    <3>3. SubSeq(r, 1, n) = SubSeq(s, 1, n)
      BY <3>2, SamePrefix
    <3> QED BY <3>3 DEF n
  <2>6. {r[m], s[m]} \cap (Params \cup {CatchAll}) = {}
    BY <2>3, <2>5 DEF Conflict
  <2>7. r[m] = path[m] /\ s[m] = path[m]
    BY <2>3, <2>6, MatchedLiteral
  <2> QED BY <2>3, <2>7
<1>3. ASSUME NEW x \in Seq(Segments), NEW y \in Seq(Segments), Matches(x, path), Matches(y, path),
             ~BadRoute(y), Len(x) < Len(y), \A i \in 1 .. Len(x) : x[i] = y[i]
      PROVE  FALSE
  <2>1. Len(x) \in Nat /\ Len(y) \in Nat
    OBVIOUS
  <2>2. Len(path) >= Len(y) /\ (Len(path) # Len(x) => x # <<>> /\ x[Len(x)] = CatchAll)
    BY <1>3, MatchedLiteral
  <2>3. x # <<>> /\ x[Len(x)] = CatchAll
    BY <1>1, <1>3, <2>1, <2>2
  <2>4. Len(x) \in 1 .. Len(x) /\ Len(x) \in 1 .. Len(y) - 1
    BY <1>3, <2>1, <2>3
  <2>5. y[Len(x)] = CatchAll
    BY <1>3, <2>3, <2>4
  <2> QED BY <1>3, <2>4, <2>5 DEF BadRoute
<1>4. CASE D = {}
  <2>1. \A i \in 1 .. Len(r) : i <= Len(s) => r[i] = s[i]
    BY <1>4
  <2>2. CASE Len(r) = Len(s)
    <3>1. \A i \in 1 .. Len(r) : r[i] = s[i]
      BY <1>1, <2>1, <2>2
    <3>2. r = s
      BY <2>2, <3>1, SeqEqual
    <3> QED BY <3>2 DEF Conflict
  <2>3. CASE Len(r) < Len(s)
    <3>1. \A i \in 1 .. Len(r) : r[i] = s[i]
      BY <1>1, <2>1, <2>3
    <3> QED BY <1>3, <2>3, <3>1
  <2>4. CASE Len(s) < Len(r)
    <3>1. \A i \in 1 .. Len(s) : s[i] = r[i]
      BY <1>1, <2>1, <2>4
    <3> QED BY <1>3, <2>4, <3>1
  <2> QED BY <1>1, <2>2, <2>3, <2>4
<1> QED BY <1>2, <1>4

\* So a request belongs to one handler.
LEMMA OneClaim ==
    ASSUME BuildInv, NEW req \in Requests, NEW h \in mux, h.method = req.method,
           Matches(h.route, req.path)
    PROVE  Claims(req) = {h}
<1>1. h \in Claims(req)
  BY DEF Claims
<1>2. req.path \in Seq(Segments)
  BY ForwardingAssumption DEF Segments
<1>3. ASSUME NEW i \in Claims(req) PROVE i = h
  <2>1. i \in mux /\ i.method = req.method /\ Matches(i.route, req.path)
    BY DEF Claims
  <2>2. /\ ~BadRoute(h.route) /\ ~BadRoute(i.route)
        /\ h.route \in Seq(Segments) /\ i.route \in Seq(Segments)
    BY <2>1 DEF BuildInv, Apart, Segments
  <2>3. Conflict(h.route, i.route)
    BY <1>2, <2>1, <2>2, MatchUnique
  <2> QED BY <2>1, <2>3 DEF BuildInv, Apart
<1> QED BY <1>1, <1>3

(***************************************************************************)
(* Spelling, and the replacement of parameters one after the other.        *)
(***************************************************************************)

Spellings == Seq(Segments)

\* A segment is spelled in one way, with one part or more.
LEMMA Spelling ==
    /\ \A s \in Segments : /\ Spell(s) \in Spellings /\ Len(Spell(s)) >= 1
                           /\ Len(Spell(s)) = 1 => Spell(s) = <<s>> /\ Head(Spell(s)) = s
    /\ \A s, t \in Segments : Spell(s) = Spell(t) => s = t
    /\ Spell(CatchAll) = <<CatchAll>>
<1>1. ASSUME NEW s \in Segments
      PROVE  /\ s \in DOMAIN Spelled => Spell(s) = Spelled[s] /\ Spell(s) \in Spellings /\ Len(Spell(s)) > 1
             /\ s \notin DOMAIN Spelled => Spell(s) = <<s>> /\ Spell(s) \in Spellings /\ Len(Spell(s)) = 1
  <2>1. CASE s \in DOMAIN Spelled
    BY <2>1, ForwardingAssumption DEF Spell, Spellings, Segments
  <2>2. CASE s \notin DOMAIN Spelled
    <3>1. Spell(s) = <<s>>
      BY <2>2 DEF Spell
    <3>2. <<s>> \in Seq(Segments) /\ Len(<<s>>) = 1
      OBVIOUS
    <3> QED BY <2>2, <3>1, <3>2 DEF Spellings
  <2> QED BY <2>1, <2>2
<1>2. \A s : Head(<<s>>) = s /\ <<s>>[1] = s
  OBVIOUS
<1>3. ASSUME NEW s \in Segments
      PROVE  /\ Spell(s) \in Spellings /\ Len(Spell(s)) >= 1
             /\ Len(Spell(s)) = 1 => Spell(s) = <<s>> /\ Head(Spell(s)) = s
  <2>1. Len(Spell(s)) \in Nat
    BY <1>1 DEF Spellings
  <2> DEFINE n == Len(Spell(s))
  <2>2. n \in Nat /\ (s \in DOMAIN Spelled => n > 1) /\ (s \notin DOMAIN Spelled => n = 1)
    BY <1>1, <2>1
  <2> HIDE DEF n
  <2>3. n >= 1 /\ (n = 1 => s \notin DOMAIN Spelled)
    BY <2>2
  <2>4. s \notin DOMAIN Spelled => Spell(s) = <<s>> /\ Head(Spell(s)) = s
    BY <1>1, <1>2
  <2>5. Spell(s) \in Spellings
    BY <1>1
  <2> QED BY <2>3, <2>4, <2>5 DEF n
<1>4. ASSUME NEW s \in Segments, NEW t \in Segments, Spell(s) = Spell(t) PROVE s = t
  <2>1. CASE s \in DOMAIN Spelled /\ t \in DOMAIN Spelled
    BY <1>1, <1>4, <2>1, ForwardingAssumption
  <2>2. CASE s \notin DOMAIN Spelled /\ t \notin DOMAIN Spelled
    BY <1>1, <1>2, <1>4, <2>2
  <2>3. CASE s \in DOMAIN Spelled /\ t \notin DOMAIN Spelled
    BY <1>1, <1>4, <2>3
  <2>4. CASE s \notin DOMAIN Spelled /\ t \in DOMAIN Spelled
    <3>1. Len(Spell(s)) = 1 /\ Len(Spell(t)) > 1
      BY <1>1, <2>4
    <3> QED BY <1>4, <3>1
  <2> QED BY <2>1, <2>2, <2>3, <2>4
<1>5. Spell(CatchAll) = <<CatchAll>>
  BY ForwardingAssumption DEF Spell
<1> QED BY <1>3, <1>4, <1>5

\* The spellings of the segments of a path.
LEMMA SpelledSeq ==
    ASSUME NEW r \in Seq(Segments)
    PROVE  /\ SpellAll(r) \in Seq(Spellings) /\ Len(SpellAll(r)) = Len(r)
           /\ \A i \in 1 .. Len(r) : SpellAll(r)[i] = Spell(r[i])
<1>1. Len(r) \in Nat /\ \A i \in 1 .. Len(r) : Spell(r[i]) \in Spellings
  BY Spelling
<1>2. SpellAll(r) \in [1 .. Len(r) -> Spellings]
  BY <1>1 DEF SpellAll
<1>3. SpellAll(r) \in Seq(Spellings) /\ Len(SpellAll(r)) = Len(r)
  BY <1>1, <1>2, FunctionSeq
<1> QED BY <1>3 DEF SpellAll

\* A text is a part of itself.
LEMMA SubSeqItself ==
    ASSUME NEW s \in Spellings
    PROVE  s \in SubSeqs(s)
<1>1. Len(s) \in Nat
  BY DEF Spellings
<1>2. SubSeq(s, 0 + 1, Len(s)) = s
  BY SubSeqFull DEF Spellings
<1>3. 0 \in 0 .. Len(s) /\ Len(s) \in 0 .. Len(s)
  BY <1>1
<1> QED BY <1>2, <1>3 DEF SubSeqs

\* strings.Replace of a name that is the whole of a text.
LEMMA ReplaceItself ==
    ASSUME NEW s \in Spellings, NEW v \in Spellings
    PROVE  ReplaceAllSubSeqs(v, s, s) = v
BY DEF ReplaceAllSubSeqs

\* strings.Replace of a name that is no part of the text.
LEMMA ReplaceNone ==
    ASSUME NEW s \in Spellings, NEW v \in Spellings, NEW t \in Spellings,
           Len(s) >= 1, s \notin SubSeqs(t)
    PROVE  ReplaceAllSubSeqs(v, s, t) = t
<1>1. s # t
  BY SubSeqItself
<1>2. Len(s) # 0
  BY DEF Spellings
<1> QED BY <1>1, <1>2 DEF ReplaceAllSubSeqs

\* The name of a parameter is no part of a literal, which is put in as it is.
LEMMA NoParam ==
    ASSUME NEW p \in Params, NEW s \in Segments, Literal(s)
    PROVE  /\ Spell(p) \notin SubSeqs(Spell(s)) /\ Spell(s) = <<s>> /\ Head(Spell(s)) = s
           /\ Expand(Spell(s)) = Spell(s) /\ Plain(s)
<1>1. Len(Spell(s)) = 1 /\ s # p /\ p \in Segments /\ Plain(s) /\ Expand(Spell(s)) = Spell(s)
  BY ForwardingAssumption DEF Literal, Segments, Expand
<1>2. Spell(s) = <<s>> /\ Head(Spell(s)) = s
  BY <1>1, Spelling
<1>3. SUFFICES ASSUME Spell(p) \in SubSeqs(Spell(s)) PROVE FALSE
  BY <1>1, <1>2
<1>4. Spell(p) \in Spellings /\ Len(Spell(p)) >= 1 /\ Spell(p) # Spell(s)
  BY <1>1, Spelling
<1>5. PICK i \in 0 .. 1, j \in 0 .. 1 : Spell(p) = SubSeq(Spell(s), i + 1, j)
  BY <1>1, <1>3 DEF SubSeqs
<1>6. CASE i = 0 /\ j = 1
  <2>1. SubSeq(Spell(s), 1, 1) = Spell(s)
    BY <1>1, Spelling, SubSeqFull DEF Spellings
  <2> QED BY <1>4, <1>5, <1>6, <2>1
<1>7. CASE ~(i = 0 /\ j = 1)
  <2>1. j < i + 1 /\ i + 1 \in Int /\ j \in Int
    BY <1>7
  <2>2. SubSeq(Spell(s), i + 1, j) = <<>>
    BY <2>1, SubSeqEmpty
  <2>3. Spell(p) = <<>>
    BY <1>5, <2>2, Zenon
  <2> QED BY <1>4, <2>3
<1> QED BY <1>6, <1>7

\* Segments that url.Parse takes as they are.
LEMMA ParsePlain ==
    ASSUME NEW url, NEW query, NEW segs \in Seq(Spellings), url.segs = segs,
           \A i \in 1 .. Len(segs) : segs[i] \notin DOMAIN Escapes
    PROVE  Parse(url, query) = Url(url.host, segs, query)
<1> DEFINE L == Len(url.segs)
           read == [i \in 1 .. L |-> ReadSegment(url.segs[i])]
           ends == {i \in 1 .. L : read[i].ends}
           n == IF ends = {} THEN L ELSE Min(ends)
<1>1. \A i \in 1 .. L : read[i] = [seg |-> segs[i], ends |-> FALSE, valid |-> TRUE]
  BY DEF ReadSegment
<1>2. Parse(url, query) = IF \E i \in 1 .. n : ~read[i].valid THEN Url("unparsable", <<>>, query)
                          ELSE Url(url.host, [i \in 1 .. n |-> read[i].seg], query)
  BY DEF Parse
<1> HIDE DEF read
<1>3. \A i \in 1 .. L : read[i].seg = segs[i] /\ ~read[i].ends /\ read[i].valid
  <2>1. \A x : LET r == [seg |-> x, ends |-> FALSE, valid |-> TRUE]
               IN r.seg = x /\ r.ends = FALSE /\ r.valid = TRUE
    OBVIOUS
  <2> QED BY <1>1, <2>1, Zenon
<1>4. n = L
  BY <1>3
<1>5. [i \in 1 .. L |-> read[i].seg] = [i \in 1 .. L |-> segs[i]]
  BY <1>3
<1>6. [i \in 1 .. L |-> segs[i]] = segs
  <2>1. segs \in [1 .. L -> Spellings]
    BY LenProperties
  <2> QED BY <2>1
<1> HIDE DEF n, L
<1> QED BY <1>2, <1>3, <1>4, <1>5, <1>6

\* The text after replacing names[n] by vals[n], for every n in A up to N, and the
\* template with all of them filled in.
IsText(f, N, A, template, names, vals) ==
    f = [n \in 0 .. N |->
            IF n = 0 THEN SpellAll(template)
            ELSE IF n \in A THEN Replace(f[n - 1], names[n], vals[n])
            ELSE f[n - 1]]
FilledIn(n, A, template, names, vals) ==
    [j \in 1 .. Len(template) |->
        IF \E m \in A : m <= n /\ names[m] = template[j]
        THEN vals[CHOOSE m \in A : names[m] = template[j]]
        ELSE Spell(template[j])]

\* No name is found in another segment of the template or in a value.
Separate(N, A, template, names, vals) ==
    /\ N \in Nat /\ A \subseteq 1 .. N /\ template \in Seq(Segments)
    /\ \A n \in A : names[n] \in Segments /\ vals[n] \in Spellings
    /\ \A m, n \in A : names[m] = names[n] => vals[m] = vals[n]
    /\ \A n \in A, j \in 1 .. Len(template) :
          template[j] # names[n] => Spell(names[n]) \notin SubSeqs(Spell(template[j]))
    /\ \A m, n \in A : Spell(names[n]) \notin SubSeqs(vals[m])

\* One more parameter filled in at its places is one more replacement in the text.
LEMMA FillOne ==
    ASSUME NEW N, NEW A, NEW template, NEW names, NEW vals, Separate(N, A, template, names, vals),
           NEW n \in 1 .. N
    PROVE  FilledIn(n, A, template, names, vals) =
              IF n \in A THEN Replace(FilledIn(n - 1, A, template, names, vals), names[n], vals[n])
              ELSE FilledIn(n - 1, A, template, names, vals)
<1> DEFINE L == Len(template)
           Old == FilledIn(n - 1, A, template, names, vals)
           New == FilledIn(n, A, template, names, vals)
<1>1. L \in Nat /\ N \in Nat /\ \A m \in A : m \in Nat /\ m <= N
  BY DEF Separate
<1>2. \A m \in A : m <= n <=> m <= n - 1 \/ m = n
  BY <1>1
<1>3. /\ Old = [j \in 1 .. L |-> IF \E m \in A : m <= n - 1 /\ names[m] = template[j]
                                 THEN vals[CHOOSE m \in A : names[m] = template[j]]
                                 ELSE Spell(template[j])]
      /\ New = [j \in 1 .. L |-> IF \E m \in A : m <= n /\ names[m] = template[j]
                                 THEN vals[CHOOSE m \in A : names[m] = template[j]]
                                 ELSE Spell(template[j])]
  BY DEF FilledIn
<1>4. CASE n \notin A
  <2>1. \A j \in 1 .. L : (\E m \in A : m <= n /\ names[m] = template[j])
                          <=> (\E m \in A : m <= n - 1 /\ names[m] = template[j])
    BY <1>2, <1>4
  <2>2. New = Old
    BY <1>3, <2>1
  <2> QED BY <1>4, <2>2
<1>5. CASE n \in A
  <2> DEFINE p == names[n]
             Rep == Replace(Old, p, vals[n])
  <2>1. \A j \in 1 .. L : template[j] \in Segments /\ Spell(template[j]) \in Spellings
    BY Spelling DEF Separate
  <2>2. \A t : (\E m \in A : names[m] = t)
               => /\ (CHOOSE m \in A : names[m] = t) \in A
                  /\ names[CHOOSE m \in A : names[m] = t] = t
    OBVIOUS
  <2>3. p \in Segments /\ Spell(p) \in Spellings /\ vals[n] \in Spellings
    BY <1>5, Spelling DEF Separate
  <2>4. \A j \in 1 .. L : Old[j] \in Spellings
    BY <1>3, <2>1, <2>2 DEF Separate
  <2>5. Old \in [1 .. L -> Spellings]
    BY <1>3, <2>4
  <2>6. Len(Old) = L
    BY <1>1, <2>5, FunctionSeq
  <2>7. /\ Rep = [j \in 1 .. L |-> ReplaceAllSubSeqs(vals[n], Spell(p), Old[j])]
        /\ Len(Spell(p)) >= 1
    BY <2>3, <2>6, Spelling DEF Replace
  <2>8. ASSUME NEW j \in 1 .. L PROVE New[j] = Rep[j]
    <3> DEFINE t == template[j]
               c == CHOOSE m \in A : names[m] = t
    <3>1. CASE \E m \in A : m <= n - 1 /\ names[m] = t
      <4>1. Old[j] = vals[c] /\ New[j] = vals[c] /\ c \in A
        <5>1. \E m \in A : m <= n /\ names[m] = t
          BY <1>2, <3>1
        <5>2. c \in A
          BY <2>2, <3>1
        <5>3. Old[j] = vals[c]
          BY <1>3, <3>1
        <5>4. New[j] = vals[c]
          BY <1>3, <5>1
        <5> QED BY <5>2, <5>3, <5>4
      <4>2. Spell(p) \notin SubSeqs(Old[j])
        BY <1>5, <4>1 DEF Separate
      <4>3. Rep[j] = Old[j]
        BY <2>3, <2>4, <2>7, <4>2, ReplaceNone
      <4> QED BY <4>1, <4>3
    <3>2. CASE ~(\E m \in A : m <= n - 1 /\ names[m] = t) /\ t = p
      <4>1. Old[j] = Spell(p)
        BY <1>3, <3>2
      <4>2. New[j] = vals[c] /\ c \in A /\ names[c] = p
        BY <1>2, <1>3, <1>5, <2>2, <3>2
      <4>3. New[j] = vals[n]
        BY <1>5, <4>2 DEF Separate
      <4>4. Rep[j] = vals[n]
        BY <2>3, <2>7, <4>1, ReplaceItself
      <4> QED BY <4>3, <4>4
    <3>3. CASE ~(\E m \in A : m <= n - 1 /\ names[m] = t) /\ t # p
      <4>1. Old[j] = Spell(t) /\ New[j] = Spell(t)
        BY <1>2, <1>3, <3>3
      <4>2. Spell(p) \notin SubSeqs(Old[j])
        BY <1>5, <3>3, <4>1 DEF Separate
      <4>3. Rep[j] = Old[j]
        BY <2>3, <2>4, <2>7, <4>2, ReplaceNone
      <4> QED BY <4>1, <4>3
    <3> QED BY <3>1, <3>2, <3>3
  <2> HIDE DEF Rep
  <2>9. New = Rep
    BY <1>3, <2>7, <2>8
  <2> QED BY <1>5, <2>9 DEF Rep
<1> QED BY <1>4, <1>5

\* The text after the last replacement has all parameters filled in.
LEMMA FillAll ==
    ASSUME NEW N, NEW A, NEW template, NEW names, NEW vals, Separate(N, A, template, names, vals)
    PROVE  /\ \E f : IsText(f, N, A, template, names, vals)
           /\ \A f : IsText(f, N, A, template, names, vals)
                     => f[N] = FilledIn(N, A, template, names, vals)
<1> DEFINE F(n) == FilledIn(n, A, template, names, vals)
           g == [n \in 0 .. N |-> F(n)]
<1>1. N \in Nat
  BY DEF Separate
<1>2. F(0) = SpellAll(template)
  <2>1. \A m \in A : ~(m <= 0)
    BY DEF Separate
  <2> QED BY <2>1 DEF FilledIn, SpellAll
<1>3. \A n \in 1 .. N : F(n) = IF n \in A THEN Replace(F(n - 1), names[n], vals[n]) ELSE F(n - 1)
  BY FillOne
<1> HIDE DEF F
<1>4. \A n \in 0 .. N : n # 0 => n \in 1 .. N /\ n - 1 \in 0 .. N
  BY <1>1
<1>5. IsText(g, N, A, template, names, vals)
  <2>1. \A n \in 0 .. N : g[n] = IF n = 0 THEN SpellAll(template)
                                ELSE IF n \in A THEN Replace(g[n - 1], names[n], vals[n])
                                ELSE g[n - 1]
    BY <1>2, <1>3, <1>4
  <2>2. g = [n \in 0 .. N |-> g[n]]
    OBVIOUS
  <2> HIDE DEF g
  <2> QED BY <2>1, <2>2 DEF IsText
<1>6. ASSUME NEW f, IsText(f, N, A, template, names, vals) PROVE f[N] = F(N)
  <2> DEFINE G == {n \in 0 .. N : f[n] = F(n)}
  <2>1. \A n \in 0 .. N : f[n] = IF n = 0 THEN SpellAll(template)
                                ELSE IF n \in A THEN Replace(f[n - 1], names[n], vals[n])
                                ELSE f[n - 1]
    BY <1>6 DEF IsText
  <2>2. 0 \in G
    BY <1>1, <1>2, <2>1
  <2>3. \A n \in 1 .. N : n - 1 \in G => n \in G
    BY <1>1, <1>3, <2>1
  <2> HIDE DEF G
  <2>4. 0 .. N \subseteq G
    BY <1>1, <2>2, <2>3, CountUp
  <2>5. N \in G
    BY <1>1, <2>4
  <2> QED BY <2>5 DEF G
<1> QED BY <1>5, <1>6 DEF F

\* A parameter of a route that is distinct has one place in it.
LEMMA OnePlace ==
    ASSUME NEW route \in Seq(Segments), NEW template, Distinct(route, template),
           NEW i \in 1 .. Len(route), route[i] \in Params
    PROVE  /\ \A j \in 1 .. Len(route) : route[j] = route[i] => j = i
           /\ PositionIn(route, route[i]) = i
           /\ route[i] \in ToSet(route)
<1>1. Spell(route[i]) \in Spellings
  BY Spelling
<1>2. Spell(route[i]) \in SubSeqs(Spell(route[i]))
  BY <1>1, SubSeqItself
<1>3. \A j \in 1 .. Len(route) : route[j] = route[i] => j = i
  BY <1>2 DEF Distinct
<1>4. PositionIn(route, route[i]) \in 1 .. Len(route) /\ route[PositionIn(route, route[i])] = route[i]
  BY DEF PositionIn
<1>5. route[i] \in ToSet(route)
  BY DEF ToSet
<1> QED BY <1>3, <1>4, <1>5

\* The places of a segment in a sequence.
LEMMA PlaceOf ==
    ASSUME NEW route \in Seq(Segments), NEW x \in ToSet(route)
    PROVE  PositionIn(route, x) \in 1 .. Len(route) /\ route[PositionIn(route, x)] = x
<1>1. \E i \in 1 .. Len(route) : route[i] = x
  BY LenProperties DEF ToSet
<1> QED BY <1>1 DEF PositionIn

\* The target of a pattern that is filled in is as long as before.
LEMMA FilledSeq ==
    ASSUME NEW h, NEW path \in Seq(Segments), h.route \in Seq(Segments), Template(h) \in Seq(Segments),
           Len(path) >= Len(h.route)
    PROVE  /\ Filled(h, path) \in Seq(Segments) /\ Len(Filled(h, path)) = Len(Template(h))
           /\ SpellAll(Filled(h, path)) \in Seq(Spellings)
           /\ Len(SpellAll(Filled(h, path))) = Len(Template(h))
<1> DEFINE template == Template(h)
           route == h.route
           f == Filled(h, path)
           L == Len(template)
<1>1. f = [i \in 1 .. L |-> IF template[i] \in Params \cap ToSet(route)
                            THEN path[PositionIn(route, template[i])] ELSE template[i]]
  BY DEF Filled
<1>2. /\ route \in Seq(Segments) /\ L \in Nat /\ Len(route) \in Nat /\ Len(path) \in Nat
      /\ Len(path) >= Len(route)
      /\ \A i \in 1 .. L : template[i] \in Segments
  OBVIOUS
<1> HIDE DEF template, route, f, L
<1>3. ASSUME NEW i \in 1 .. L PROVE f[i] \in Segments
  <2>1. CASE template[i] \in Params \cap ToSet(route)
    <3> DEFINE k == PositionIn(route, template[i])
    <3>1. k \in 1 .. Len(route)
      BY <1>2, <2>1, PlaceOf
    <3>2. f[i] = path[k]
      BY <1>1, <2>1
    <3> HIDE DEF k
    <3>3. k \in 1 .. Len(path)
      BY <1>2, <3>1
    <3> QED BY <3>2, <3>3
  <2>2. CASE template[i] \notin Params \cap ToSet(route)
    BY <1>1, <1>2, <2>2
  <2> QED BY <2>1, <2>2
<1>4. f \in [1 .. L -> Segments]
  BY <1>1, <1>3
<1>5. f \in Seq(Segments) /\ Len(f) = L
  BY <1>2, <1>4, FunctionSeq
<1>6. SpellAll(f) \in Seq(Spellings) /\ Len(SpellAll(f)) = L
  BY <1>5, SpelledSeq
<1> QED BY <1>5, <1>6 DEF f, L, template

\* PatternClosure.Handle: what replacing the parameters one by one comes to.
LEMMA PatternFilled ==
    ASSUME NEW h, NEW req, NEW path \in Seq(Segments), req.path = path,
           h.route \in Seq(Segments), Template(h) \in Seq(Segments), h.route \notin h.cfg.bare,
           Len(path) >= Len(h.route), Distinct(h.route, Template(h)),
           \A i \in 1 .. Len(h.route) : h.route[i] \in Params => Literal(path[i]),
           \A i \in 1 .. Len(Filled(h, path)) : Plain(Filled(h, path)[i])
    PROVE  PatternTarget(h, req) = Url("backend", SpellAll(Filled(h, path)), req.query)
<1> DEFINE route == h.route
           template == Template(h)
           N == Len(route)
           A == {n \in 1 .. N : route[n] \in Params}
           vals == [n \in 1 .. N |-> Spell(path[n])]
           start == TemplateUrl(h)
           text[n \in 0 .. N] ==
               IF n = 0 THEN start.segs
               ELSE IF route[n] \in Params THEN Replace(text[n - 1], route[n], Spell(path[n]))
               ELSE text[n - 1]
<1>1. /\ start.host = "backend" /\ start.segs = SpellAll(template)
      /\ \A x : [start EXCEPT !.segs = x].host = "backend" /\ [start EXCEPT !.segs = x].segs = x
  BY DEF TemplateUrl, BackendUrl, Template
<1>2. PatternTarget(h, req) = Parse([start EXCEPT !.segs = text[N]], req.query)
  BY DEF PatternTarget
<1>3. \A f : IsText(f, N, A, template, route, vals)
             <=> f = [n \in 0 .. N |->
                        IF n = 0 THEN start.segs
                        ELSE IF route[n] \in Params THEN Replace(f[n - 1], route[n], Spell(path[n]))
                        ELSE f[n - 1]]
  <2> SUFFICES ASSUME NEW f
               PROVE  [n \in 0 .. N |->
                         IF n = 0 THEN SpellAll(template)
                         ELSE IF n \in A THEN Replace(f[n - 1], route[n], vals[n])
                         ELSE f[n - 1]]
                      = [n \in 0 .. N |->
                           IF n = 0 THEN start.segs
                           ELSE IF route[n] \in Params THEN Replace(f[n - 1], route[n], Spell(path[n]))
                           ELSE f[n - 1]]
    BY DEF IsText
  <2>1. \A n \in 0 .. N : n # 0 => n \in 1 .. N /\ (n \in A <=> route[n] \in Params) /\ vals[n] = Spell(path[n])
    OBVIOUS
  <2> HIDE DEF A, vals, template, route, start
  <2> QED BY <1>1, <2>1
<1>4. /\ route \in Seq(Segments) /\ template \in Seq(Segments) /\ N \in Nat /\ Len(path) \in Nat
      /\ \A i \in 1 .. N : route[i] \in Segments /\ i \in 1 .. Len(path) /\ path[i] \in Segments
  OBVIOUS
<1>5. \A n \in 1 .. N : vals[n] = Spell(path[n]) /\ (n \in A <=> route[n] \in Params)
  OBVIOUS
<1>6. A \subseteq 1 .. N
  OBVIOUS
<1>7. Distinct(route, template) /\ N = Len(route)
  OBVIOUS
<1>8. (\E f : f = [n \in 0 .. N |->
                    IF n = 0 THEN start.segs
                    ELSE IF route[n] \in Params THEN Replace(f[n - 1], route[n], Spell(path[n]))
                    ELSE f[n - 1]])
      => text = [n \in 0 .. N |->
                    IF n = 0 THEN start.segs
                    ELSE IF route[n] \in Params THEN Replace(text[n - 1], route[n], Spell(path[n]))
                    ELSE text[n - 1]]
  <2> HIDE DEF N, template, route, start
  <2> QED OBVIOUS
<1>9. Filled(h, path) = [i \in 1 .. Len(template) |->
                           IF template[i] \in Params \cap ToSet(route)
                           THEN path[PositionIn(route, template[i])] ELSE template[i]]
  BY DEF Filled
<1>10. \A n \in 1 .. N : route[n] \in Params => Literal(path[n])
  OBVIOUS
<1> HIDE DEF route, template, N, A, vals, text, start
<1>11. Separate(N, A, template, route, vals)
  <2>1. \A n \in A : route[n] \in Segments /\ vals[n] \in Spellings
    <3>1. \A n \in A : n \in 1 .. N /\ route[n] \in Segments /\ path[n] \in Segments
      BY <1>4, <1>6
    <3>2. \A n \in A : vals[n] = Spell(path[n])
      BY <1>5, <3>1
    <3> QED BY <3>1, <3>2, Spelling
  <2>2. \A m, n \in A : route[m] = route[n] => vals[m] = vals[n]
    BY <1>4, <1>5, <1>6, <1>7, OnePlace
  <2>3. \A n \in A, j \in 1 .. Len(template) :
           template[j] # route[n] => Spell(route[n]) \notin SubSeqs(Spell(template[j]))
    BY <1>5, <1>6, <1>7 DEF Distinct
  <2>4. \A m, n \in A : Spell(route[n]) \notin SubSeqs(vals[m])
    BY <1>4, <1>5, <1>6, <1>10, NoParam
  <2> QED BY <1>4, <1>6, <2>1, <2>2, <2>3, <2>4 DEF Separate
<1>12. text[N] = FilledIn(N, A, template, route, vals)
  <2>1. \E f : IsText(f, N, A, template, route, vals)
    BY <1>11, FillAll
  <2>2. IsText(text, N, A, template, route, vals)
    BY <1>3, <1>8, <2>1
  <2> QED BY <1>11, <2>2, FillAll
<1>13. ASSUME NEW j \in 1 .. Len(template)
       PROVE  FilledIn(N, A, template, route, vals)[j] = Spell(Filled(h, path)[j])
  <2> DEFINE t == template[j]
             c == CHOOSE m \in A : route[m] = t
  <2>1. FilledIn(N, A, template, route, vals)[j] =
           IF \E m \in A : m <= N /\ route[m] = t THEN vals[c] ELSE Spell(t)
    BY DEF FilledIn
  <2>2. Filled(h, path)[j] = IF t \in Params \cap ToSet(route) THEN path[PositionIn(route, t)] ELSE t
    BY <1>9
  <2>3. t \in Segments
    BY <1>4
  <2>4. CASE t \in Params \cap ToSet(route)
    <3> DEFINE k == PositionIn(route, t)
    <3>1. k \in 1 .. N /\ route[k] = t
      BY <1>4, <1>7, <2>4, PlaceOf
    <3>2. k \in A /\ k <= N
      BY <1>4, <1>5, <2>4, <3>1
    <3> HIDE DEF k
    <3>3. c \in A /\ route[c] = t
      BY <3>1, <3>2
    <3>4. c = k
      <4>1. route[k] \in Params /\ k \in 1 .. Len(route) /\ c \in 1 .. Len(route)
        BY <1>6, <1>7, <2>4, <3>1, <3>3
      <4>2. \A m \in 1 .. Len(route) : route[m] = route[k] => m = k
        BY <1>4, <1>7, <4>1, OnePlace
      <4> HIDE DEF c
      <4> QED BY <3>1, <3>3, <4>1, <4>2
    <3>5. FilledIn(N, A, template, route, vals)[j] = vals[k]
      BY <2>1, <3>1, <3>2, <3>4
    <3> QED BY <1>4, <1>5, <2>2, <2>4, <3>1, <3>5 DEF k
  <2>5. CASE t \notin Params \cap ToSet(route)
    <3>1. ~\E m \in A : m <= N /\ route[m] = t
      BY <1>4, <1>5, <1>6, <1>7, <2>5, OnePlace
    <3> QED BY <2>1, <2>2, <2>3, <2>5, <3>1
  <2> QED BY <2>4, <2>5
<1>14. /\ Filled(h, path) \in Seq(Segments) /\ Len(Filled(h, path)) = Len(template)
       /\ SpellAll(Filled(h, path)) \in Seq(Spellings)
       /\ Len(SpellAll(Filled(h, path))) = Len(template)
  BY FilledSeq DEF template
<1>15. SpellAll(Filled(h, path)) = [j \in 1 .. Len(template) |-> Spell(Filled(h, path)[j])]
  BY <1>14 DEF SpellAll
<1>16. FilledIn(N, A, template, route, vals)
       = [j \in 1 .. Len(template) |-> FilledIn(N, A, template, route, vals)[j]]
  BY DEF FilledIn
<1>17. text[N] = SpellAll(Filled(h, path))
  BY <1>12, <1>13, <1>15, <1>16
<1> DEFINE segs == SpellAll(Filled(h, path))
           url == [start EXCEPT !.segs = text[N]]
<1>18. segs \in Seq(Spellings) /\ url.segs = segs /\ url.host = "backend"
  BY <1>1, <1>14, <1>17
<1>19. \A i \in 1 .. Len(segs) : segs[i] \notin DOMAIN Escapes
  BY <1>14, <1>15 DEF Plain
<1> HIDE DEF segs, url
<1>20. Parse(url, req.query) = Url("backend", segs, req.query)
  BY <1>18, <1>19, ParsePlain
<1> QED BY <1>2, <1>20 DEF url, segs

\* A path that the routes of a path application match begins with its prefix.
LEMMA BehindPrefix ==
    ASSUME NEW prefix \in Seq(Segments), NEW path \in Seq(Segments), NEW route,
           route = prefix \/ route = Append(prefix, CatchAll), route \in Seq(Segments),
           ToSet(prefix) \cap (Params \cup {CatchAll}) = {}, Matches(route, path)
    PROVE  LET rest == SubSeq(path, Len(prefix) + 1, Len(path))
           IN rest \in Seq(Segments) /\ path = prefix \o rest
<1> DEFINE n == Len(prefix)
           m == Len(path)
           rest == SubSeq(path, n + 1, m)
<1>1. n \in Nat /\ m \in Nat
  OBVIOUS
<1>2. Len(route) >= n /\ \A i \in 1 .. n : i \in 1 .. Len(route) /\ route[i] = prefix[i]
  <2>1. CASE route = prefix
    BY <1>1, <2>1
  <2>2. CASE route = Append(prefix, CatchAll)
    BY <1>1, <2>2
  <2> QED BY <2>1, <2>2
<1>3. m >= Len(route) /\ \A i \in 1 .. Len(route) : route[i] \notin Params \cup {CatchAll} => route[i] = path[i]
  BY MatchedLiteral
<1>4. \A i \in 1 .. n : prefix[i] \in ToSet(prefix)
  BY LenProperties DEF ToSet
<1>5. m >= n /\ \A i \in 1 .. n : prefix[i] = path[i]
  <2>1. Len(route) \in Nat
    OBVIOUS
  <2>2. m >= n
    BY <1>1, <1>2, <1>3, <2>1
  <2>3. \A i \in 1 .. n : prefix[i] = path[i]
    BY <1>2, <1>3, <1>4
  <2> QED BY <2>2, <2>3
<1>6. \A i \in n + 1 .. m : path[i] \in Segments
  BY <1>1
<1>7. n + 1 \in Int /\ m \in Int
  BY <1>1
<1>8. /\ rest \in Seq(Segments)
      /\ Len(rest) = IF n + 1 <= m THEN m - (n + 1) + 1 ELSE 0
      /\ \A i \in 1 .. m - (n + 1) + 1 : rest[i] = path[n + 1 + i - 1]
  <2> DEFINE a == n + 1
  <2>1. a \in Int /\ \A i \in a .. m : path[i] \in Segments
    BY <1>6, <1>7
  <2> HIDE DEF a
  <2>2. /\ SubSeq(path, a, m) \in Seq(Segments)
        /\ Len(SubSeq(path, a, m)) = IF a <= m THEN m - a + 1 ELSE 0
        /\ \A i \in 1 .. m - a + 1 : SubSeq(path, a, m)[i] = path[a + i - 1]
    BY <1>7, <2>1, SubSeqProperties
  <2> QED BY <2>2 DEF a
<1> HIDE DEF rest, n, m
<1>9. Len(rest) = m - n /\ \A i \in 1 .. m - n : rest[i] = path[n + i]
  BY <1>1, <1>5, <1>8
<1>10. /\ prefix \o rest \in Seq(Segments)
       /\ Len(prefix \o rest) = n + Len(rest)
       /\ \A i \in 1 .. n + Len(rest) : (prefix \o rest)[i] = IF i <= n THEN prefix[i] ELSE rest[i - n]
  BY <1>8, ConcatProperties DEF n
<1>11. Len(prefix \o rest) = m
  BY <1>1, <1>5, <1>9, <1>10
<1>12. ASSUME NEW i \in 1 .. m PROVE path[i] = (prefix \o rest)[i]
  <2>1. CASE i <= n
    BY <1>1, <1>5, <1>9, <1>10, <2>1
  <2>2. CASE i > n
    <3>1. i - n \in 1 .. m - n /\ n + (i - n) = i /\ i \in 1 .. n + Len(rest)
      BY <1>1, <1>9, <2>2
    <3>2. rest[i - n] = path[i]
      BY <1>9, <3>1
    <3> QED BY <1>1, <1>10, <2>2, <3>1, <3>2
  <2>3. i <= n \/ i > n
    BY <1>1
  <2> QED BY <2>1, <2>2, <2>3
<1>13. path = prefix \o rest
  BY <1>10, <1>11, <1>12, SeqEqual DEF m
<1> QED BY <1>8, <1>13 DEF rest, n, m

\* What is known of an exchange that was sent.
LEMMA SentFacts ==
    ASSUME FInv, Sent
    PROVE  LET h == exchange.handler
               path == exchange.req.path
           IN /\ exchange.req \in Requests /\ path \in Seq(Segments)
              /\ h \in mux /\ h.method = exchange.req.method
              /\ h.route \in Seq(Segments) /\ Matches(h.route, path)
              /\ Claims(exchange.req) = {h}
              /\ exchange.target = Target(h, exchange.req)
              /\ IsForwarded(h.cfg) /\ h.route \in RoutesOf(h.cfg)
              /\ h.cfg.routing = "path" \/ h.cfg.routing = "pattern"
<1> DEFINE h == exchange.handler
           path == exchange.req.path
<1>1. Sending(exchange)
  BY DEF FInv, ExchangeInv, Sent
<1>2. /\ exchange.req \in Requests /\ h \in mux /\ h.method = exchange.req.method /\ h.app # NoApp
      /\ Matches(h.route, path) /\ exchange.target = Target(h, exchange.req) /\ stage = "serving"
  BY <1>1 DEF Sending
<1>3. path \in Seq(Segments)
  BY <1>2, ForwardingAssumption DEF Segments
<1>4. h.route \in Seq(Segments)
  BY <1>2 DEF FInv, BuildInv, Apart, Segments
<1>5. Claims(exchange.req) = {h}
  BY <1>2, OneClaim DEF FInv
<1>6. h.cfg \in Configured /\ h.route \in RoutesOf(h.cfg)
  BY <1>2, Served DEF FInv
<1>7. IsForwarded(h.cfg)
  BY <1>6, ForwardingAssumption
<1>8. h.cfg.routing = "path" \/ h.cfg.routing = "pattern"
  BY <1>6 DEF RoutesOf
<1> QED BY <1>2, <1>3, <1>4, <1>5, <1>6, <1>7, <1>8

\* A handler of a path application.
LEMMA PathFacts ==
    ASSUME FInv, Sent, exchange.handler.cfg.routing = "path", ~exchange.handler.cfg.slash
    PROVE  LET h == exchange.handler
               path == exchange.req.path
           IN /\ Behind(h, path) \in Seq(Segments) /\ h.cfg.path \in Seq(Segments)
              /\ path = h.cfg.path \o Behind(h, path)
              /\ (\A i \in 1 .. Len(h.cfg.base \o Behind(h, path)) : Plain((h.cfg.base \o Behind(h, path))[i]))
                 => exchange.target = Url("backend", SpellAll(h.cfg.base \o Behind(h, path)),
                                          exchange.req.query)
<1> DEFINE h == exchange.handler
           path == exchange.req.path
           app == h.cfg
           asked == app.base \o Behind(h, path)
<1>1. /\ path \in Seq(Segments) /\ h.route \in Seq(Segments) /\ Matches(h.route, path)
      /\ exchange.target = Target(h, exchange.req) /\ IsForwarded(app) /\ h.route \in RoutesOf(app)
  BY SentFacts
<1>2. h.route = app.path \/ h.route = Append(app.path, CatchAll)
  BY <1>1 DEF RoutesOf
<1>3. app.path \in Seq(Segments)
  <2>1. IsApplication(app)
    BY Served, SentFacts DEF FInv, ExchangeInv, Sending, Sent
  <2>2. app.path \in RoutesOf(app)
    BY DEF RoutesOf
  <2> QED BY <2>1, <2>2 DEF IsApplication, Segments
<1>4. ToSet(app.path) \cap (Params \cup {CatchAll}) = {}
  BY <1>1 DEF IsForwarded
<1>5. Behind(h, path) \in Seq(Segments) /\ path = app.path \o Behind(h, path)
  BY <1>1, <1>2, <1>3, <1>4, BehindPrefix DEF Behind
<1>6. asked \in Seq(Segments)
  BY <1>1, <1>5, ConcatProperties DEF IsForwarded, Segments
<1> DEFINE url == BackendUrl(app.base, TRUE, Behind(h, path))
<1>7. url.host = "backend" /\ url.segs = SpellAll(asked)
  BY DEF BackendUrl
<1>8. Target(h, exchange.req) = Parse(url, exchange.req.query)
  BY DEF Target, PathTarget, Behind
<1> HIDE DEF asked, url
<1>9. ASSUME \A i \in 1 .. Len(asked) : Plain(asked[i])
      PROVE  Parse(url, exchange.req.query) = Url("backend", SpellAll(asked), exchange.req.query)
  <2> DEFINE segs == SpellAll(asked)
  <2>1. segs \in Seq(Spellings) /\ Len(segs) = Len(asked)
        /\ \A i \in 1 .. Len(asked) : segs[i] = Spell(asked[i])
    BY <1>6, SpelledSeq
  <2>2. \A i \in 1 .. Len(segs) : segs[i] \notin DOMAIN Escapes
    BY <1>9, <2>1 DEF Plain
  <2>3. url.segs = segs
    BY <1>7
  <2> HIDE DEF segs
  <2>4. Parse(url, exchange.req.query) = Url(url.host, segs, exchange.req.query)
    BY <2>1, <2>2, <2>3, ParsePlain
  <2> QED BY <1>7, <2>4 DEF segs
<1>10. (\A i \in 1 .. Len(asked) : Plain(asked[i]))
       => exchange.target = Url("backend", SpellAll(asked), exchange.req.query)
  BY <1>1, <1>8, <1>9
<1> QED BY <1>3, <1>5, <1>10 DEF asked

\* A handler of a pattern application.
LEMMA PatternFacts ==
    ASSUME FInv, Sent, exchange.handler.cfg.routing = "pattern"
    PROVE  LET h == exchange.handler
           IN /\ h.cfg.base \in Seq(Segments) /\ h.route \in DOMAIN h.cfg.targets
              /\ h.cfg.targets[h.route] \in Seq(Segments) /\ Template(h) \in Seq(Segments)
              /\ h.cfg.patterns = DOMAIN h.cfg.targets /\ IsFiniteSet(h.cfg.patterns)
              /\ \A p \in h.cfg.patterns : h.cfg.targets[p] \in Seq(Segments) /\ p \in Seq(Segments)
              /\ \A req : Target(h, req) = PatternTarget(h, req)
<1> DEFINE h == exchange.handler
           app == h.cfg
<1>1. IsForwarded(app) /\ h.route \in RoutesOf(app)
  BY SentFacts
<1>2. /\ app.base \in Seq(Segments) /\ app.patterns = DOMAIN app.targets /\ IsFiniteSet(app.patterns)
      /\ \A p \in app.patterns : app.targets[p] \in Seq(Segments)
  BY <1>1 DEF IsForwarded, Segments
<1>3. RoutesOf(app) = app.patterns
  BY DEF RoutesOf
<1>4. \A p \in app.patterns : p \in Seq(Segments)
  <2>1. IsApplication(app)
    BY Served, SentFacts DEF FInv, ExchangeInv, Sending, Sent
  <2> QED BY <1>3, <2>1 DEF IsApplication, Segments
<1>5. app.targets[h.route] \in Seq(Segments) /\ h.route \in DOMAIN app.targets
  BY <1>1, <1>2, <1>3
<1>6. Template(h) \in Seq(Segments)
  BY <1>2, <1>5, ConcatProperties DEF Template
<1>7. \A req : Target(h, req) = PatternTarget(h, req)
  BY DEF Target
<1> QED BY <1>2, <1>4, <1>5, <1>6, <1>7

\* The service is asked for what the client asked for: for every configuration a
\* request belongs to one handler of one application, and the target has the path
\* behind the prefix, or the pattern's target with each parameter in its place, and
\* the client's query, but for the texts that TargetAsAsked names.
THEOREM AskedTargets == FSpec => []TargetAsAsked
<1>1. FInv => TargetAsAsked
  <2> SUFFICES ASSUME FInv, Sent PROVE TargetAsAsked
    BY DEF TargetAsAsked
  <2> DEFINE h == exchange.handler
             path == exchange.req.path
             req == exchange.req
  <2>1. /\ path \in Seq(Segments) /\ h.route \in Seq(Segments) /\ Matches(h.route, path)
        /\ Claims(req) = {h} /\ exchange.target = Target(h, req)
        /\ h.cfg.routing = "path" \/ h.cfg.routing = "pattern"
    BY SentFacts
  <2>2. CASE h.cfg.routing = "path"
    <3> DEFINE asked == h.cfg.base \o Behind(h, path)
    <3>1. ~h.cfg.slash => /\ path = h.cfg.path \o Behind(h, path)
                          /\ (\A i \in 1 .. Len(asked) : Plain(asked[i]))
                             => exchange.target = Url("backend", SpellAll(asked), req.query)
      BY <2>2, PathFacts
    <3> QED BY <2>1, <2>2, <3>1 DEF TargetAsAsked
  <2>3. CASE h.cfg.routing = "pattern"
    <3>1. Template(h) \in Seq(Segments) /\ Target(h, req) = PatternTarget(h, req)
      BY <2>3, PatternFacts
    <3>2. Len(path) >= Len(h.route) /\ Len(path) \in Nat /\ Len(h.route) \in Nat
      BY <2>1, MatchedLiteral
    <3>3. ASSUME Distinct(h.route, Template(h)), \A i \in 1 .. Len(path) : Literal(path[i]),
                 h.route \notin h.cfg.bare,
                 \A i \in 1 .. Len(Filled(h, path)) : Plain(Filled(h, path)[i])
          PROVE  exchange.target = Url("backend", SpellAll(Filled(h, path)), req.query)
      <4>1. \A i \in 1 .. Len(h.route) : h.route[i] \in Params => Literal(path[i])
        BY <3>2, <3>3
      <4> HIDE DEF h, path, req
      <4>2. req.path = path
        BY DEF req, path
      <4>3. PatternTarget(h, req) = Url("backend", SpellAll(Filled(h, path)), req.query)
        BY <2>1, <3>1, <3>2, <3>3, <4>1, <4>2, PatternFilled
      <4> QED BY <2>1, <3>1, <4>3
    <3> QED BY <2>1, <2>3, <3>3 DEF TargetAsAsked
  <2> QED BY <2>1, <2>2, <2>3
<1> QED BY <1>1, ForwardingAlways, PTL

\* The orders of a map walk over all of its keys.
LEMMA MapOrder ==
    ASSUME NEW S, IsFiniteSet(S), NEW s \in MapOrders(S)
    PROVE  /\ s \in Seq(S) /\ Len(s) \in Nat
           /\ \A x \in S : \E n \in 1 .. Len(s) : s[n] = x
<1>1. Cardinality(S) \in Nat
  BY FS_CardinalityType
<1>2. s \in [1 .. Cardinality(S) -> S] /\ S \subseteq ToSet(s)
  BY DEF MapOrders
<1>3. s \in Seq(S) /\ Len(s) = Cardinality(S)
  BY <1>1, <1>2, FunctionSeq
<1>4. DOMAIN s = 1 .. Len(s)
  BY <1>3, LenProperties
<1> QED BY <1>1, <1>2, <1>3, <1>4 DEF ToSet

\* The values of the parameters are literals; the pattern with them put in.
ValuesLiteral(h, path) == \A i \in 1 .. Len(h.route) : h.route[i] \in Params => Literal(path[i])
Restored(h, path) ==
    [j \in 1 .. Len(h.route) |-> Spell(IF h.route[j] \in Params THEN path[j] ELSE h.route[j])]

\* The host rewriter's repl turns the target of a pattern, with its parameters
\* filled in, back into the pattern with the same values.
LEMMA ReplFilled ==
    ASSUME NEW h, NEW path \in Seq(Segments), h.route \in Seq(Segments), Template(h) \in Seq(Segments),
           Len(path) >= Len(h.route), Distinct(h.route, Template(h)),
           ValuesLiteral(h, path),
           Template(h) \notin DOMAIN Wild,
           ToSet(h.route) \cap Params = ToSet(Template(h)) \cap Params,
           NEW S, IsFiniteSet(S), S \subseteq Params, ToSet(h.route) \cap Params \subseteq S,
           NEW names \in MapOrders(S),
           NEW link, link.segs = SpellAll(Filled(h, path))
    PROVE  Repl(h.route, Groups(Template(h), link), names) = Restored(h, path)
<1> DEFINE route == h.route
           target == Template(h)
           N == Len(names)
           groups == Groups(target, link)
           A == {n \in 1 .. N : names[n] \in DOMAIN groups}
           vals == [n \in 1 .. N |-> Expand(groups[names[n]])]
           text[n \in 0 .. N] ==
               IF n = 0 THEN SpellAll(route)
               ELSE IF names[n] \in DOMAIN groups
               THEN Replace(text[n - 1], names[n], Expand(groups[names[n]]))
               ELSE text[n - 1]
<1>1. Repl(route, groups, names) = text[N]
  BY DEF Repl
<1>2. \A f : IsText(f, N, A, route, names, vals)
             <=> f = [n \in 0 .. N |->
                        IF n = 0 THEN SpellAll(route)
                        ELSE IF names[n] \in DOMAIN groups
                        THEN Replace(f[n - 1], names[n], Expand(groups[names[n]]))
                        ELSE f[n - 1]]
  <2> SUFFICES ASSUME NEW f
               PROVE  [n \in 0 .. N |->
                         IF n = 0 THEN SpellAll(route)
                         ELSE IF n \in A THEN Replace(f[n - 1], names[n], vals[n])
                         ELSE f[n - 1]]
                      = [n \in 0 .. N |->
                           IF n = 0 THEN SpellAll(route)
                           ELSE IF names[n] \in DOMAIN groups
                           THEN Replace(f[n - 1], names[n], Expand(groups[names[n]]))
                           ELSE f[n - 1]]
    BY DEF IsText
  <2>1. \A n \in 0 .. N : n # 0 => /\ n \in 1 .. N /\ (n \in A <=> names[n] \in DOMAIN groups)
                                   /\ vals[n] = Expand(groups[names[n]])
    BY MapOrder
  <2> HIDE DEF A, vals, target, route, N, groups
  <2> QED BY <2>1
<1>3. /\ names \in Seq(S) /\ N \in Nat /\ \A x \in S : \E n \in 1 .. N : names[n] = x
  BY MapOrder
<1>4. /\ route \in Seq(Segments) /\ target \in Seq(Segments) /\ Len(route) \in Nat /\ Len(path) \in Nat
      /\ \A i \in 1 .. Len(route) : route[i] \in Segments /\ i \in 1 .. Len(path) /\ path[i] \in Segments
  OBVIOUS
<1>5. \A n \in 1 .. N : names[n] \in S /\ names[n] \in Params /\ names[n] \in Segments
  <2>1. \A n \in 1 .. N : names[n] \in S
    BY <1>3
  <2>2. S \subseteq Segments
    BY ForwardingAssumption DEF Segments
  <2> QED BY <2>1, <2>2
<1>6. (\E f : f = [n \in 0 .. N |->
                    IF n = 0 THEN SpellAll(route)
                    ELSE IF names[n] \in DOMAIN groups
                    THEN Replace(f[n - 1], names[n], Expand(groups[names[n]]))
                    ELSE f[n - 1]])
      => text = [n \in 0 .. N |->
                    IF n = 0 THEN SpellAll(route)
                    ELSE IF names[n] \in DOMAIN groups
                    THEN Replace(text[n - 1], names[n], Expand(groups[names[n]]))
                    ELSE text[n - 1]]
  <2> HIDE DEF N, target, route, groups
  <2> QED OBVIOUS
<1>7. /\ A \subseteq 1 .. N
      /\ \A n \in 1 .. N : (n \in A <=> names[n] \in DOMAIN groups)
                           /\ vals[n] = Expand(groups[names[n]])
  OBVIOUS
<1>8. Filled(h, path) = [i \in 1 .. Len(target) |->
                           IF target[i] \in Params \cap ToSet(route)
                           THEN path[PositionIn(route, target[i])] ELSE target[i]]
  BY DEF Filled
<1>9. Len(Filled(h, path)) = Len(target)
  BY FilledSeq
<1>10. \A i \in 1 .. Len(target) : link.segs[i] = Spell(Filled(h, path)[i])
  BY <1>9 DEF SpellAll
<1>11. groups = [name \in ToSet(target) \cap Params |-> link.segs[PositionIn(target, name)]]
  BY DEF Groups
<1>12. /\ \A i \in 1 .. Len(route) : route[i] \in Params => Literal(path[i])
       /\ Distinct(route, target) /\ ToSet(route) \cap Params = ToSet(target) \cap Params
       /\ ToSet(route) \cap Params \subseteq S
  BY DEF ValuesLiteral
<1> HIDE DEF route, target, N, A, vals, text, groups
\* The values are those of the path, in the places that the names have in the route.
<1>13. ASSUME NEW n \in A
       PROVE  /\ n \in 1 .. N /\ names[n] \in Params
              /\ names[n] \in ToSet(route) /\ PositionIn(route, names[n]) \in 1 .. Len(route)
              /\ route[PositionIn(route, names[n])] = names[n]
              /\ vals[n] = Spell(path[PositionIn(route, names[n])])
  <2> DEFINE x == names[n]
             k == PositionIn(target, x)
  <2>1. n \in 1 .. N /\ x \in Params /\ x \in ToSet(target) /\ x \in ToSet(route)
    BY <1>5, <1>7, <1>12, <1>11
  <2>2. k \in 1 .. Len(target) /\ target[k] = x
    BY <1>4, <2>1, PlaceOf
  <2>3. PositionIn(route, x) \in 1 .. Len(route) /\ route[PositionIn(route, x)] = x
    BY <1>4, <2>1, PlaceOf
  <2>4. vals[n] = Expand(link.segs[k])
    BY <1>7, <1>11, <2>1
  <2> HIDE DEF k
  <2>5. Filled(h, path)[k] = path[PositionIn(route, x)]
    BY <1>8, <2>1, <2>2
  <2>6. link.segs[k] = Spell(Filled(h, path)[k])
    BY <1>10, <2>2
  <2> DEFINE i == PositionIn(route, x)
  <2>7. i \in 1 .. Len(route) /\ route[i] \in Params
    BY <2>1, <2>3
  <2> HIDE DEF i
  <2>8. Literal(path[i]) /\ path[i] \in Segments
    BY <1>4, <1>12, <2>7
  <2>9. Expand(Spell(path[i])) = Spell(path[i])
    BY <2>1, <2>8, NoParam
  <2>10. vals[n] = Spell(path[i])
    BY <2>4, <2>5, <2>6, <2>9 DEF i
  <2> QED BY <2>1, <2>3, <2>10 DEF i
<1>14. Separate(N, A, route, names, vals)
  <2>1. \A n \in A : names[n] \in Segments /\ vals[n] \in Spellings
    BY <1>4, <1>5, <1>13, Spelling
  <2>2. \A m, n \in A : names[m] = names[n] => vals[m] = vals[n]
    BY <1>13
  <2>3. ASSUME NEW n \in A, NEW j \in 1 .. Len(route), route[j] # names[n]
        PROVE  Spell(names[n]) \notin SubSeqs(Spell(route[j]))
    <3> DEFINE i == PositionIn(route, names[n])
    <3>1. i \in 1 .. Len(route) /\ route[i] = names[n] /\ route[i] \in Params
      BY <1>13
    <3> HIDE DEF i
    <3>2. j # i
      BY <2>3, <3>1
    <3> QED BY <1>12, <3>1, <3>2 DEF Distinct
  <2>4. ASSUME NEW m \in A, NEW n \in A PROVE Spell(names[n]) \notin SubSeqs(vals[m])
    <3> DEFINE i == PositionIn(route, names[m])
    <3>1. /\ i \in 1 .. Len(route) /\ vals[m] = Spell(path[i]) /\ names[n] \in Params
          /\ route[i] \in Params
      BY <1>13
    <3> HIDE DEF i
    <3>2. Literal(path[i]) /\ path[i] \in Segments
      BY <1>4, <1>12, <3>1
    <3> QED BY <3>1, <3>2, NoParam
  <2> QED BY <1>3, <1>4, <1>7, <2>1, <2>2, <2>3, <2>4 DEF Separate
<1>15. text[N] = FilledIn(N, A, route, names, vals)
  <2>1. \E f : IsText(f, N, A, route, names, vals)
    BY <1>14, FillAll
  <2>2. IsText(text, N, A, route, names, vals)
    BY <1>2, <1>6, <2>1
  <2> QED BY <1>14, <2>2, FillAll
<1>16. ASSUME NEW j \in 1 .. Len(route)
       PROVE  FilledIn(N, A, route, names, vals)[j] = Spell(IF route[j] \in Params THEN path[j] ELSE route[j])
  <2> DEFINE c == CHOOSE m \in A : names[m] = route[j]
  <2>1. FilledIn(N, A, route, names, vals)[j] =
           IF \E m \in A : m <= N /\ names[m] = route[j] THEN vals[c] ELSE Spell(route[j])
    BY DEF FilledIn
  <2>2. CASE route[j] \in Params
    <3>1. PositionIn(route, route[j]) = j /\ route[j] \in ToSet(route)
      BY <1>4, <1>12, <2>2, OnePlace
    <3>2. route[j] \in S /\ route[j] \in ToSet(target)
      BY <1>12, <2>2, <3>1
    <3>3. PICK n \in 1 .. N : names[n] = route[j]
      BY <1>3, <3>2
    <3>4. n \in A /\ n <= N
      <4>1. names[n] \in DOMAIN groups
        BY <1>11, <2>2, <3>2, <3>3
      <4> QED BY <1>3, <1>7, <4>1
    <3>5. c \in A /\ names[c] = route[j]
      BY <3>3, <3>4
    <3>6. FilledIn(N, A, route, names, vals)[j] = vals[c]
      BY <2>1, <3>3, <3>4
    <3> HIDE DEF c
    <3>7. vals[c] = Spell(path[PositionIn(route, names[c])])
      BY <1>13, <3>5
    <3> QED BY <2>2, <3>1, <3>5, <3>6, <3>7
  <2>3. CASE route[j] \notin Params
    <3>1. ~\E m \in A : m <= N /\ names[m] = route[j]
      BY <1>13, <2>3
    <3> QED BY <2>1, <2>3, <3>1
  <2> QED BY <2>2, <2>3
<1>17. FilledIn(N, A, route, names, vals)
       = [j \in 1 .. Len(route) |-> FilledIn(N, A, route, names, vals)[j]]
  BY DEF FilledIn
<1>18. text[N] = [j \in 1 .. Len(route) |-> Spell(IF route[j] \in Params THEN path[j] ELSE route[j])]
  BY <1>15, <1>16, <1>17
<1> QED BY <1>1, <1>18 DEF route, target, groups, Restored

\* RewriteUrl finds the mapping that a link was made with, whatever the order.
LEMMA FittingMapping ==
    ASSUME NEW app, app.routing = "pattern", Invertible(app), IsFiniteSet(DOMAIN app.targets),
           \A p \in DOMAIN app.targets : app.targets[p] \in Seq(Segments),
           NEW route \in DOMAIN app.targets, NEW order \in Orders(app),
           NEW link, link.host # "unparsable", Fits(app, route, link)
    PROVE  RewriteUrl(app, link, order) =
              Url("public", Repl(route, Groups(app.targets[route], link), order.names), link.query)
<1> DEFINE D == DOMAIN app.targets
           s == order.mappings
           fitting == {n \in DOMAIN s : Fits(app, s[n], link)}
           first == CHOOSE n \in fitting : \A m \in fitting : n <= m
<1>1. s \in MapOrders(D)
  BY DEF Orders
<1>2. IsFiniteSet(D) /\ route \in D
  OBVIOUS
<1>3. /\ Len(s) \in Nat /\ (\E n \in 1 .. Len(s) : s[n] = route)
      /\ DOMAIN s = 1 .. Len(s) /\ \A n \in 1 .. Len(s) : s[n] \in D
  <2> HIDE DEF s, D
  <2>1. s \in Seq(D) /\ Len(s) \in Nat /\ \A x \in D : \E n \in 1 .. Len(s) : s[n] = x
    BY <1>1, <1>2, MapOrder
  <2>2. DOMAIN s = 1 .. Len(s) /\ \A n \in 1 .. Len(s) : s[n] \in D
    BY <2>1, LenProperties
  <2> QED BY <1>2, <2>1, <2>2
<1>4. fitting \subseteq Nat /\ fitting # {}
  <2>1. PICK n \in 1 .. Len(s) : s[n] = route
    BY <1>3
  <2>2. n \in fitting
    BY <1>3, <2>1
  <2>3. fitting \subseteq Nat
    <3> HIDE DEF s
    <3> QED BY <1>3
  <2> QED BY <2>2, <2>3
<1>5. \E m \in fitting : \A k \in fitting : m <= k
  BY <1>4, Least, Zenon
<1>6. first \in fitting
  BY <1>5
<1>7. s[first] \in D /\ Fits(app, s[first], link)
  BY <1>3, <1>6
<1> HIDE DEF first
<1>8. s[first] = route
  <2> DEFINE q == s[first]
             a == app.targets[route]
             b == app.targets[q]
  <2> SUFFICES ASSUME q # route PROVE FALSE
    OBVIOUS
  <2>1. /\ a \in Seq(Segments) /\ b \in Seq(Segments)
        /\ Len(link.segs) = Len(a) /\ Len(link.segs) = Len(b)
        /\ \A i \in 1 .. Len(a) : a[i] \in Params \/ link.segs[i] = Spell(a[i])
        /\ \A i \in 1 .. Len(b) : b[i] \in Params \/ link.segs[i] = Spell(b[i])
    <3>1. app.targets[route] \notin DOMAIN Wild /\ app.targets[q] \notin DOMAIN Wild
      BY <1>7 DEF Invertible
    <3>2. Fits(app, route, link) /\ Fits(app, q, link)
      BY <1>7
    <3>3. a \in Seq(Segments) /\ b \in Seq(Segments)
      BY <1>7
    <3> HIDE DEF q
    <3> QED BY <3>1, <3>2, <3>3 DEF Fits
  <2>2. \/ Len(a) # Len(b)
        \/ \E i \in 1 .. Len(a) : {a[i], b[i]} \cap Params = {} /\ a[i] # b[i]
    <3>1. \A p \in DOMAIN app.targets : \A r \in DOMAIN app.targets :
             p # r => \/ Len(app.targets[p]) # Len(app.targets[r])
                      \/ \E i \in 1 .. Len(app.targets[p]) :
                            /\ {app.targets[p][i], app.targets[r][i]} \cap Params = {}
                            /\ app.targets[p][i] # app.targets[r][i]
      BY DEF Invertible
    <3>2. q \in DOMAIN app.targets
      BY <1>7
    <3> HIDE DEF q
    <3> QED BY <3>1, <3>2
  <2> HIDE DEF q, a, b
  <2>3. PICK i \in 1 .. Len(a) : {a[i], b[i]} \cap Params = {} /\ a[i] # b[i]
    BY <2>1, <2>2
  <2>4. Spell(a[i]) = Spell(b[i]) /\ a[i] \in Segments /\ b[i] \in Segments
    <3>1. a[i] \notin Params /\ b[i] \notin Params
      BY <2>3
    <3>2. i \in 1 .. Len(b)
      BY <2>1, <2>3
    <3>3. link.segs[i] = Spell(a[i]) /\ link.segs[i] = Spell(b[i])
      BY <2>1, <3>1, <3>2
    <3>4. a[i] \in Segments /\ b[i] \in Segments
      BY <2>1, <2>3, <3>2, ElementOfSeq
    <3> QED BY <3>3, <3>4
  <2> QED BY <2>3, <2>4, Spelling
<1>9. RewriteUrl(app, link, order) =
         IF fitting = {} THEN Unmappable
         ELSE Url("public", Repl(s[first], Groups(app.targets[s[first]], link), order.names), link.query)
  BY DEF RewriteUrl, first
<1> QED BY <1>4, <1>8, <1>9

\* The fields of a URL.
LEMMA UrlFields ==
    ASSUME NEW host, NEW segs, NEW query
    PROVE  LET u == Url(host, segs, query)
           IN /\ u.host = host /\ u.segs = segs /\ u.query = query
              /\ u.rooted <=> segs # <<>>
BY DEF Url

\* The way back for a path application.
LEMMA PathRoundTrip ==
    ASSUME FInv, Sent, exchange.handler.cfg.routing = "path", Invertible(exchange.handler.cfg),
           \A i \in 1 .. Len(exchange.req.path) : Literal(exchange.req.path[i]),
           exchange.target.rooted, NEW order
    PROVE  LET link == RewriteUrl(exchange.handler.cfg, exchange.target, order)
           IN /\ [i \in 1 .. Len(link.segs) |-> Head(link.segs[i])] = exchange.req.path
              /\ link.query = exchange.req.query
<1> DEFINE h == exchange.handler
           app == h.cfg
           path == exchange.req.path
           prefix == app.path
           rest == Behind(h, path)
           segs == SpellAll(prefix) \o SpellAll(rest)
           link == RewriteUrl(app, exchange.target, order)
<1>1. ~app.slash /\ app.base = <<>>
  BY DEF Invertible
<1>2. /\ path \in Seq(Segments) /\ rest \in Seq(Segments) /\ prefix \in Seq(Segments)
      /\ path = prefix \o rest
      /\ (\A i \in 1 .. Len(app.base \o rest) : Plain((app.base \o rest)[i]))
         => exchange.target = Url("backend", SpellAll(app.base \o rest), exchange.req.query)
  BY <1>1, PathFacts, SentFacts
<1> HIDE DEF rest, prefix, path
<1>3. app.base \o rest = rest
  BY <1>1, <1>2, ConcatEmptySeq
<1>4. /\ Len(prefix) \in Nat /\ Len(rest) \in Nat /\ Len(path) = Len(prefix) + Len(rest)
      /\ \A i \in 1 .. Len(path) : path[i] = IF i <= Len(prefix) THEN prefix[i] ELSE rest[i - Len(prefix)]
  BY <1>2, ConcatProperties
<1>5. \A i \in 1 .. Len(path) : Literal(path[i]) /\ path[i] \in Segments
  BY <1>2 DEF path
<1>6. ASSUME NEW i \in 1 .. Len(rest) PROVE Literal(rest[i]) /\ rest[i] \in Segments
  <2> DEFINE k == Len(prefix) + i
  <2>1. k \in 1 .. Len(path) /\ ~(k <= Len(prefix)) /\ k - Len(prefix) = i
    BY <1>4
  <2> HIDE DEF k
  <2>2. path[k] = rest[i]
    BY <1>4, <2>1
  <2> QED BY <1>5, <2>1, <2>2
<1>7. exchange.target = Url("backend", SpellAll(rest), exchange.req.query)
  BY <1>2, <1>3, <1>6 DEF Literal
<1> DEFINE x == SpellAll(prefix)
           y == SpellAll(rest)
<1>8. /\ x \in Seq(Spellings) /\ Len(x) = Len(prefix) /\ \A i \in 1 .. Len(prefix) : x[i] = Spell(prefix[i])
      /\ y \in Seq(Spellings) /\ Len(y) = Len(rest) /\ \A i \in 1 .. Len(rest) : y[i] = Spell(rest[i])
  BY <1>2, SpelledSeq
<1>9. link = Url("public", segs, exchange.req.query)
  <2> DEFINE target == exchange.target
             expanded == [i \in 1 .. Len(target.segs) |-> Expand(target.segs[i])]
  <2>1. target.host = "backend" /\ target.rooted /\ target.segs = y /\ target.query = exchange.req.query
    BY <1>7 DEF Url
  <2>2. y # <<>>
    <3> DEFINE u == Url("backend", SpellAll(rest), exchange.req.query)
    <3>1. u.rooted <=> SpellAll(rest) # <<>>
      BY UrlFields
    <3>2. exchange.target = u
      BY <1>7
    <3> HIDE DEF u
    <3> QED BY <3>1, <3>2
  <2> HIDE DEF y
  <2>3. expanded = y
    <3>1. \A i \in 1 .. Len(y) : Expand(y[i]) = y[i]
      BY <1>6, <1>8 DEF Literal, Expand
    <3>2. y = [i \in 1 .. Len(y) |-> y[i]]
      <4>1. y \in [1 .. Len(y) -> Spellings]
        BY <1>8, LenProperties
      <4> QED BY <4>1
    <3> QED BY <2>1, <3>1, <3>2
  <2>4. target.host # "unparsable" /\ target.segs # <<>>
    BY <2>1, <2>2
  <2> HIDE DEF expanded, target
  <2>5. RewriteUrl(app, target, order) = Url("public", SpellAll(app.path) \o expanded, target.query)
    BY <2>1, <2>4 DEF RewriteUrl, expanded
  <2> QED BY <2>1, <2>3, <2>5 DEF target, prefix, y
<1>10. link.segs = segs /\ link.query = exchange.req.query
  BY <1>9 DEF Url
<1>11. /\ Len(x \o y) = Len(x) + Len(y)
       /\ \A i \in 1 .. Len(x) + Len(y) : (x \o y)[i] = IF i <= Len(x) THEN x[i] ELSE y[i - Len(x)]
  <2> DEFINE T == Spellings
  <2>1. x \in Seq(T) /\ y \in Seq(T)
    BY <1>8
  <2> HIDE DEF T
  <2> QED BY <2>1, ConcatProperties
<1>12. Len(x \o y) = Len(path)
  BY <1>4, <1>8, <1>11
<1>13. ASSUME NEW i \in 1 .. Len(path) PROVE (x \o y)[i] = Spell(path[i])
  <2>1. i \in 1 .. Len(x) + Len(y)
    BY <1>11, <1>12
  <2>2. CASE i <= Len(prefix)
    <3>1. i \in 1 .. Len(prefix)
      BY <1>4, <2>2
    <3> QED BY <1>4, <1>8, <1>11, <2>1, <2>2, <3>1
  <2>3. CASE ~(i <= Len(prefix))
    <3>1. i - Len(prefix) \in 1 .. Len(rest)
      BY <1>4, <2>3
    <3> QED BY <1>4, <1>8, <1>11, <2>1, <2>3, <3>1
  <2> QED BY <2>2, <2>3
<1>14. \A i \in 1 .. Len(path) : Head((x \o y)[i]) = path[i]
  <2> SUFFICES ASSUME NEW i \in 1 .. Len(path) PROVE Head((x \o y)[i]) = path[i]
    OBVIOUS
  <2>1. Len(Spell(path[i])) = 1 /\ path[i] \in Segments
    BY <1>5 DEF Literal
  <2>2. Head(Spell(path[i])) = path[i]
    BY <2>1, Spelling
  <2> QED BY <1>13, <2>2
<1>15. [i \in 1 .. Len(x \o y) |-> Head((x \o y)[i])] = [i \in 1 .. Len(path) |-> path[i]]
  BY <1>12, <1>14
<1>16. [i \in 1 .. Len(path) |-> path[i]] = path
  <2>1. path \in [1 .. Len(path) -> Segments]
    BY <1>2, LenProperties
  <2> QED BY <2>1
<1>17. segs = x \o y
  BY DEF x, y
<1> HIDE DEF segs, link
<1>18. [i \in 1 .. Len(link.segs) |-> Head(link.segs[i])] = path
  BY <1>15, <1>16, <1>17, <1>10
<1> QED BY <1>18, <1>10 DEF link, path

\* The way back for a pattern application.
LEMMA PatternRoundTrip ==
    ASSUME FInv, Sent, exchange.handler.cfg.routing = "pattern", Invertible(exchange.handler.cfg),
           \A i \in 1 .. Len(exchange.req.path) : Literal(exchange.req.path[i])
                                                /\ exchange.req.path[i] # Empty,
           NEW order \in Orders(exchange.handler.cfg)
    PROVE  LET link == RewriteUrl(exchange.handler.cfg, exchange.target, order)
               path == [i \in 1 .. Len(link.segs) |-> Head(link.segs[i])]
           IN /\ Matches(exchange.handler.route, path)
              /\ link.query = exchange.req.query
              /\ \A req : req.path = path /\ req.query = exchange.req.query
                         => Target(exchange.handler, req) = exchange.target
<1> DEFINE h == exchange.handler
           app == h.cfg
           route == h.route
           old == exchange.req.path
           target == app.targets[route]
           link == RewriteUrl(app, exchange.target, order)
           path == [i \in 1 .. Len(link.segs) |-> Head(link.segs[i])]
           L == Len(route)
           Seg(j) == IF route[j] \in Params THEN old[j] ELSE route[j]
           new == [j \in 1 .. L |-> Seg(j)]
           S == NamesOf(app)
<1>1. /\ old \in Seq(Segments) /\ route \in Seq(Segments) /\ Matches(route, old)
      /\ exchange.target = Target(h, exchange.req)
  BY SentFacts
<1>2. /\ route \in DOMAIN app.targets /\ target \in Seq(Segments) /\ Template(h) \in Seq(Segments)
      /\ IsFiniteSet(DOMAIN app.targets)
      /\ \A p \in DOMAIN app.targets : app.targets[p] \in Seq(Segments)
      /\ \A req : Target(h, req) = PatternTarget(h, req)
  BY PatternFacts
<1>3. Template(h) = target
  <2>1. app.base = <<>>
    BY DEF Invertible
  <2> QED BY <1>2, <2>1, ConcatEmptySeq DEF Template
<1>4. /\ Distinct(route, Template(h)) /\ ToSet(route) \cap Params = ToSet(Template(h)) \cap Params
      /\ app.bare = {} /\ target \notin DOMAIN Wild /\ \A i \in 1 .. Len(target) : Plain(target[i])
  BY <1>2, <1>3 DEF Invertible
<1>5. /\ L \in Nat /\ Len(old) >= L
      /\ \A j \in 1 .. L : route[j] \notin Params \cup {CatchAll} => route[j] = old[j]
  BY <1>1, MatchedLiteral
<1>6. /\ \A i \in 1 .. Len(old) : Literal(old[i]) /\ old[i] # Empty
      /\ \A i \in 1 .. L : i \in 1 .. Len(old)
  BY <1>5
\* A segment of the target that was filled in is one of the path or of the template.
<1>7. /\ Filled(h, old) \in Seq(Segments) /\ Len(Filled(h, old)) = Len(target)
      /\ SpellAll(Filled(h, old)) \in Seq(Spellings) /\ Len(SpellAll(Filled(h, old))) = Len(target)
      /\ \A i \in 1 .. Len(target) : SpellAll(Filled(h, old))[i] = Spell(Filled(h, old)[i])
  BY <1>1, <1>2, <1>3, <1>5, FilledSeq, SpelledSeq
<1>8. ASSUME NEW i \in 1 .. Len(target)
      PROVE  /\ Plain(Filled(h, old)[i])
             /\ target[i] \in Params => Spell(Filled(h, old)[i]) # <<Empty>>
             /\ target[i] \notin Params => Filled(h, old)[i] = target[i]
  <2>1. Filled(h, old)[i] = IF target[i] \in Params \cap ToSet(route)
                            THEN old[PositionIn(route, target[i])] ELSE target[i]
    BY <1>3 DEF Filled
  <2>2. target[i] \in Params => target[i] \in ToSet(route)
    <3>1. target[i] \in ToSet(target)
      BY <1>2 DEF ToSet
    <3> HIDE DEF target, route
    <3> QED BY <1>3, <1>4, <3>1
  <2>3. ASSUME target[i] \in Params
        PROVE  Plain(Filled(h, old)[i]) /\ Spell(Filled(h, old)[i]) # <<Empty>>
    <3> DEFINE k == PositionIn(route, target[i])
    <3>1. k \in 1 .. Len(route)
      BY <1>1, <2>2, <2>3, PlaceOf
    <3>2. Filled(h, old)[i] = old[k]
      BY <2>1, <2>2, <2>3
    <3> HIDE DEF k, old
    <3>3. Literal(old[k]) /\ old[k] # Empty /\ old[k] \in Segments
      BY <1>1, <1>6, <3>1
    <3>4. Head(Spell(old[k])) = old[k] /\ Head(<<Empty>>) = Empty
      BY <3>3, Spelling DEF Literal
    <3> QED BY <3>2, <3>3, <3>4 DEF Literal
  <2>4. ASSUME target[i] \notin Params PROVE Plain(Filled(h, old)[i]) /\ Filled(h, old)[i] = target[i]
    BY <1>4, <2>1, <2>4
  <2> QED BY <2>3, <2>4
<1>9. \A i \in 1 .. Len(Filled(h, old)) : Plain(Filled(h, old)[i])
  BY <1>7, <1>8
<1>10. PatternTarget(h, exchange.req) = Url("backend", SpellAll(Filled(h, old)), exchange.req.query)
  <2>1. \A i \in 1 .. Len(h.route) : h.route[i] \in Params => Literal(old[i])
    BY <1>6
  <2>2. h.route \notin h.cfg.bare /\ exchange.req.path = old
    BY <1>4
  <2> HIDE DEF h, old
  <2>3. h.route \in Seq(Segments) /\ Len(old) >= Len(h.route) /\ Distinct(h.route, Template(h))
    BY <1>1, <1>4, <1>5
  <2> QED BY <1>1, <1>2, <1>9, <2>1, <2>2, <2>3, PatternFilled
<1>11. /\ exchange.target.host = "backend" /\ exchange.target.query = exchange.req.query
       /\ exchange.target.segs = SpellAll(Filled(h, old))
       /\ exchange.target.rooted <=> SpellAll(Filled(h, old)) # <<>>
  <2> DEFINE segs == SpellAll(Filled(h, old))
             u == Url("backend", segs, exchange.req.query)
  <2>1. /\ u.host = "backend" /\ u.query = exchange.req.query /\ u.segs = segs
        /\ u.rooted <=> segs # <<>>
    BY UrlFields
  <2>2. exchange.target = u
    BY <1>1, <1>2, <1>10
  <2> HIDE DEF u, segs
  <2>3. /\ exchange.target.host = "backend" /\ exchange.target.query = exchange.req.query
        /\ exchange.target.segs = segs /\ (exchange.target.rooted <=> segs # <<>>)
    BY <2>1, <2>2
  <2> QED BY <2>3 DEF segs
<1>12. Fits(app, route, exchange.target)
  <2> DEFINE segs == SpellAll(Filled(h, old))
  <2>1. segs = <<>> <=> target = <<>>
    <3>1. segs \in Seq(Spellings) /\ target \in Seq(Segments) /\ Len(segs) = Len(target)
      BY <1>2, <1>7
    <3> HIDE DEF segs, target
    <3> QED BY <3>1
  <2>2. exchange.target.rooted <=> target # <<>> /\ route \notin app.bare
    BY <1>4, <1>11, <2>1
  <2>3. Len(exchange.target.segs) = Len(target)
    BY <1>11, <1>7
  <2>4. \A i \in 1 .. Len(target) : IF target[i] \in Params THEN exchange.target.segs[i] # <<Empty>>
                                     ELSE exchange.target.segs[i] = Spell(target[i])
    BY <1>11, <1>7, <1>8
  <2> QED BY <1>4, <2>2, <2>3, <2>4 DEF Fits
<1>13. link = Url("public", Repl(route, Groups(target, exchange.target), order.names), exchange.req.query)
  <2> DEFINE u == exchange.target
  <2>1. u.host # "unparsable" /\ Fits(app, route, u) /\ u.query = exchange.req.query
    BY <1>11, <1>12
  <2> HIDE DEF u
  <2>2. RewriteUrl(app, u, order) = Url("public", Repl(route, Groups(target, u), order.names), u.query)
    BY <1>2, <2>1, FittingMapping
  <2> QED BY <2>1, <2>2 DEF u
<1>14. S \subseteq Params /\ IsFiniteSet(S) /\ ToSet(route) \cap Params \subseteq S
  <2>1. S \subseteq Params
    BY DEF NamesOf
  <2>2. IsFiniteSet(S)
    BY <2>1, FS_Subset, ForwardingAssumption
  <2>3. ToSet(route) \cap Params \subseteq S
    BY <1>2 DEF NamesOf
  <2> QED BY <2>1, <2>2, <2>3
<1>15. order.names \in MapOrders(S)
  BY DEF Orders
<1>16. Repl(route, Groups(target, exchange.target), order.names) = [j \in 1 .. L |-> Spell(Seg(j))]
  <2> DEFINE names == order.names
             t == exchange.target
  <2>1. names \in MapOrders(S) /\ t.segs = SpellAll(Filled(h, old))
    BY <1>11, <1>15
  <2>2. /\ h.route \in Seq(Segments) /\ Template(h) \in Seq(Segments) /\ old \in Seq(Segments)
        /\ Len(old) >= Len(h.route) /\ Distinct(h.route, Template(h))
        /\ ValuesLiteral(h, old) /\ Template(h) \notin DOMAIN Wild
        /\ ToSet(h.route) \cap Params = ToSet(Template(h)) \cap Params
        /\ IsFiniteSet(S) /\ S \subseteq Params /\ ToSet(h.route) \cap Params \subseteq S
    BY <1>1, <1>2, <1>3, <1>4, <1>5, <1>6, <1>14 DEF ValuesLiteral
  <2> HIDE DEF names, t, S, old, h
  <2>3. Repl(h.route, Groups(Template(h), t), names) = Restored(h, old)
    BY <2>1, <2>2, ReplFilled
  <2> QED BY <1>3, <2>3 DEF names, t, Restored
<1>17. link.segs = [j \in 1 .. L |-> Spell(Seg(j))] /\ link.query = exchange.req.query
  BY <1>13, <1>16 DEF Url
<1>18. ASSUME NEW j \in 1 .. L
       PROVE  /\ Seg(j) \in Segments /\ Spell(Seg(j)) \in Spellings /\ Head(Spell(Seg(j))) = Seg(j)
              /\ route[j] \in Params => Seg(j) = old[j]
  <2>1. j \in 1 .. Len(old) /\ old[j] \in Segments /\ route[j] \in Segments /\ Literal(old[j])
    BY <1>1, <1>6
  <2>2. CASE route[j] \notin Params /\ route[j] = CatchAll
    <3>1. Head(<<CatchAll>>) = CatchAll
      OBVIOUS
    <3> QED BY <2>1, <2>2, <3>1, Spelling
  <2>3. CASE route[j] \notin Params /\ route[j] # CatchAll
    BY <1>5, <2>1, <2>3, Spelling DEF Literal
  <2>4. CASE route[j] \in Params
    BY <2>1, <2>4, Spelling DEF Literal
  <2> QED BY <2>2, <2>3, <2>4
<1>19. \A j \in 1 .. L : new[j] = Seg(j)
  OBVIOUS
<1> HIDE DEF Seg
<1>20. new \in [1 .. L -> Segments]
  BY <1>18
<1>21. new \in Seq(Segments) /\ Len(new) = L
  BY <1>5, <1>20, FunctionSeq
<1>22. path = new
  <2>1. \A j \in 1 .. L : Spell(Seg(j)) \in Spellings /\ Head(Spell(Seg(j))) = Seg(j)
    BY <1>18
  <2>2. link.segs \in [1 .. L -> Spellings]
    BY <1>17, <2>1
  <2>3. Len(link.segs) = L
    BY <1>5, <2>2, FunctionSeq
  <2>4. \A j \in 1 .. L : Head(link.segs[j]) = Seg(j)
    BY <1>17, <2>1
  <2> HIDE DEF link
  <2> QED BY <2>3, <2>4
<1> HIDE DEF new, path, link
<1>23. Matches(route, new)
  <2>1. \A j \in 1 .. L : route[j] \in {new[j], CatchAll} \cup Params
    BY <1>19 DEF Seg
  <2>2. route # <<>> /\ Last(route) \in Params => Last(new) # Empty
    <3> SUFFICES ASSUME route # <<>>, Last(route) \in Params PROVE Last(new) # Empty
      OBVIOUS
    <3>1. L \in 1 .. L
      BY <1>1, <1>5
    <3>2. Last(new) = new[L] /\ route[L] \in Params
      BY <1>21 DEF Last
    <3>3. new[L] = old[L] /\ old[L] # Empty
      BY <1>6, <1>18, <1>19, <3>1, <3>2
    <3> QED BY <3>2, <3>3
  <2> QED BY <1>21, <2>1, <2>2 DEF Matches
<1>24. Filled(h, new) = Filled(h, old)
  <2>1. \A x \in Params \cap ToSet(route) : new[PositionIn(route, x)] = old[PositionIn(route, x)]
    BY <1>1, <1>18, <1>19, PlaceOf
  <2> QED BY <2>1 DEF Filled
<1>25. ASSUME NEW req, req.path = new, req.query = exchange.req.query
       PROVE  Target(h, req) = exchange.target
  <2>1. \A i \in 1 .. Len(h.route) : h.route[i] \in Params => Literal(new[i])
    BY <1>6, <1>18, <1>19
  <2>2. \A i \in 1 .. Len(Filled(h, new)) : Plain(Filled(h, new)[i])
    BY <1>24, <1>9
  <2>3. h.route \notin h.cfg.bare /\ h.route \in Seq(Segments) /\ Len(new) >= Len(h.route)
    BY <1>1, <1>4, <1>5, <1>21
  <2>4. Distinct(h.route, Template(h)) /\ Template(h) \in Seq(Segments)
    BY <1>2, <1>4
  <2>5. Target(h, exchange.req) = PatternTarget(h, exchange.req) /\ Target(h, req) = PatternTarget(h, req)
    BY <1>2
  <2> HIDE DEF h, old
  <2>6. PatternTarget(h, req) = Url("backend", SpellAll(Filled(h, new)), req.query)
    BY <1>21, <1>25, <2>1, <2>2, <2>3, <2>4, PatternFilled
  <2> QED BY <1>1, <1>10, <1>24, <1>25, <2>5, <2>6
<1> QED BY <1>17, <1>22, <1>23, <1>25 DEF path, link

\* A link to the resource that was asked for leads the client back to it: for every
\* application whose links can be told apart, whatever the order in which Go walks
\* the maps of the host rewriter, the router gives the public form of the link, its
\* path and its query, to the same application, with the same target.  The bare path
\* of a path application and empty values have no public form and are left out.
THEOREM LinksLeadBack == FSpec => []RoundTrip
<1>1. FInv => RoundTrip
  <2> SUFFICES ASSUME FInv, Sent, Invertible(exchange.handler.cfg),
                      \A i \in 1 .. Len(exchange.req.path) : Literal(exchange.req.path[i]),
                      IF exchange.handler.cfg.routing = "path" THEN exchange.target.rooted
                      ELSE \A i \in 1 .. Len(exchange.req.path) : exchange.req.path[i] # Empty,
                      NEW order \in Orders(exchange.handler.cfg)
               PROVE  LET link == RewriteUrl(exchange.handler.cfg, exchange.target, order)
                          path == [i \in 1 .. Len(link.segs) |-> Head(link.segs[i])]
                          again == [exchange.req EXCEPT !.path = path, !.query = link.query]
                      IN \E h \in Claims(again) :
                            /\ h.app = exchange.handler.app
                            /\ Target(h, again) = exchange.target
    BY DEF RoundTrip
  <2> DEFINE h == exchange.handler
             link == RewriteUrl(h.cfg, exchange.target, order)
             path == [i \in 1 .. Len(link.segs) |-> Head(link.segs[i])]
             again == [exchange.req EXCEPT !.path = path, !.query = link.query]
  <2>1. /\ exchange.req \in Requests /\ h \in mux /\ h.method = exchange.req.method
        /\ Matches(h.route, exchange.req.path) /\ exchange.target = Target(h, exchange.req)
        /\ h.cfg.routing = "path" \/ h.cfg.routing = "pattern"
    BY SentFacts
  <2>2. exchange.req \in [method : STRING, path : Seq(STRING), query : STRING, body : BOOLEAN,
                          noRewrite : BOOLEAN]
    BY <2>1, ForwardingAssumption
  <2>3. again.method = exchange.req.method /\ again.path = path /\ again.query = link.query
    BY <2>2
  <2>4. Matches(h.route, path) /\ Target(h, again) = exchange.target
    <3>1. CASE h.cfg.routing = "path"
      <4>1. path = exchange.req.path /\ link.query = exchange.req.query
        BY <3>1, PathRoundTrip
      <4> HIDE DEF path, link
      <4>2. again = exchange.req
        BY <2>2, <4>1
      <4> QED BY <2>1, <4>1, <4>2
    <3>2. CASE h.cfg.routing = "pattern"
      <4>1. /\ Matches(h.route, path) /\ link.query = exchange.req.query
            /\ \A req : req.path = path /\ req.query = exchange.req.query
                       => Target(h, req) = exchange.target
        BY <3>2, PatternRoundTrip
      <4> HIDE DEF again, path, link
      <4> QED BY <2>3, <4>1
    <3> QED BY <2>1, <3>1, <3>2
  <2> HIDE DEF path, again
  <2>5. h \in Claims(again)
    BY <2>1, <2>3, <2>4 DEF Claims
  <2>6. \E i \in Claims(again) : i.app = h.app /\ Target(i, again) = exchange.target
    BY <2>4, <2>5
  <2> QED BY <2>6 DEF again, path
<1> QED BY <1>1, ForwardingAlways, PTL
=============================================================================
