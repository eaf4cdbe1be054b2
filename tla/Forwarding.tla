----------------------------- MODULE Forwarding -----------------------------
(***************************************************************************)
(* What a gateway that was built (Dispatcher) does with a request that its *)
(* behaviours let through: PathClosure and PatternClosure compute the URL  *)
(* of the upstream service (dispatcher/pathbased.go), HandleProxyRequest   *)
(* forwards the request (proxy/handler.go), the host rewriter turns the    *)
(* links of the response into public ones (proxy/hostrewriter.go) and the  *)
(* OPTIONS handler completes it (pathbased.go).  None of them keeps state, *)
(* so one exchange at a time is enough; each step of it is an action.      *)
(*                                                                         *)
(* strings.Replace works on parts of segments: ":id" is found in ":idx"    *)
(* too.  So where text is replaced a segment is spelled as the sequence of *)
(* its parts, <<":id", "x">>.  A URL is a record of its host, whether its  *)
(* path begins with a slash, its spelled segments and its query: the path  *)
(* "/" is << <<"">> >>, and "" is <<>>.                                    *)
(*                                                                         *)
(* Applications have four more fields here: slash, whether the configured  *)
(* path ends with a slash, base, the path of the backend's URL, targets,   *)
(* the function Routing.Patterns, and bare, the patterns whose targets do  *)
(* not begin with a slash.                                                 *)
(***************************************************************************)
EXTENDS Dispatcher, JsonRewriter

CONSTANTS
    Requests,    \* requests, as records of method, path, query, noRewrite and
                 \* whether they have a body
    Answers,     \* answers of services, as records of status, location, body and
                 \* whether the body is JSON
    NoLink,      \* there is no Location header
    Spelled,     \* the parts of the segments that have several
    Escapes,     \* the spelled segments with %, ? or # in them, and how url.Parse
                 \* reads them: seg, what the path gets of them, whether the path
                 \* ends there, and whether they are valid
    Dollars,     \* the spelled segments with $ in them, and what a regular
                 \* expression puts in when it is given them as replacements
    Wild         \* the targets that, taken for regular expressions, match other
                 \* paths than their own text with a segment for each parameter:
                 \* the paths they match, with the values of the parameters

VARIABLE exchange

fvars == <<buildVars, exchange>>

Spell(s) == IF s \in DOMAIN Spelled THEN Spelled[s] ELSE <<s>>
SpellAll(path) == [i \in 1 .. Len(path) |-> Spell(path[i])]

\* The segment behind a slash at the end.
Empty == ""

NoBody == Arr(<<>>)
NoAnswer == [status |-> 0, location |-> NoLink, json |-> FALSE, body |-> NoBody]
ErrorBody == Obj([msg |-> Scalar("error")])
Fragment == [kind |-> "fragment"]
Quiet == [pc |-> "none"]

FInit == BuildInit /\ exchange = Quiet

(***************************************************************************)
(* Target URLs.                                                            *)
(***************************************************************************)

\* strings.Replace(text, name, value, -1), where text is spelled segments.
Replace(text, name, value) ==
    [i \in 1 .. Len(text) |-> ReplaceAllSubSeqs(value, Spell(name), text[i])]

Url(host, segs, query) == [host |-> host, rooted |-> segs # <<>>, segs |-> segs, query |-> query]

\* backendUrl + text, where text is segments with a slash in front or without:
\* without one the last segment of the backend's URL, or its host, is continued.
Joined(a, b) == IF a = Empty THEN Spell(b) ELSE IF b = Empty THEN Spell(a) ELSE Spell(a) \o Spell(b)
BackendUrl(base, slash, segs) ==
    CASE slash \/ segs = <<>> -> [host |-> "backend", segs |-> SpellAll(base \o segs)]
      [] ~slash /\ segs # <<>> /\ base # <<>> ->
            [host |-> "backend",
             segs |-> SpellAll(Front(base)) \o <<Joined(Last(base), Head(segs))>>
                      \o SpellAll(Tail(segs))]
      [] OTHER -> [host |-> IF Head(segs) = Empty THEN "backend" ELSE "garbled",
                   segs |-> SpellAll(Tail(segs))]

\* url.Parse of the text that was put together.  The path of the request had been
\* decoded before, so an escaped % in it is decoded twice.  The query that the text
\* may have is given up for the one of the request.
ReadSegment(seg) ==
    IF seg \in DOMAIN Escapes THEN Escapes[seg]
    ELSE [seg |-> seg, ends |-> FALSE, valid |-> TRUE]
Parse(url, query) ==
    LET read == [i \in 1 .. Len(url.segs) |-> ReadSegment(url.segs[i])]
        ends == {i \in 1 .. Len(url.segs) : read[i].ends}
        n == IF ends = {} THEN Len(url.segs) ELSE Min(ends)
    IN IF \E i \in 1 .. n : ~read[i].valid THEN Url("unparsable", <<>>, query)
       ELSE Url(url.host, [i \in 1 .. n |-> read[i].seg], query)

\* The URL that the parameters are put into.
TemplateUrl(h) ==
    BackendUrl(h.cfg.base, h.route \notin h.cfg.bare, h.cfg.targets[h.route])

\* Mutant: the values are put in in the order of the target, one per parameter.
PatternTargetPositional(h, req) ==
    LET ParamsOf(route) == SelectSeq([i \in 1 .. Len(route) |-> i], LAMBDA i : route[i] \in Params)
        template == h.cfg.base \o h.cfg.targets[h.route]
        values == ParamsOf(h.route)
        slots == ParamsOf(template)
    IN Url("backend",
           [i \in 1 .. Len(template) |->
               IF \E n \in 1 .. Len(slots) : slots[n] = i /\ n <= Len(values)
               THEN Spell(req.path[values[CHOOSE n \in 1 .. Len(slots) : slots[n] = i]])
               ELSE Spell(template[i])], req.query)

\* PatternClosure.Handle: one parameter after the other, in the pattern's order.
PatternTarget(h, req) ==
    LET text[n \in 0 .. Len(h.route)] ==
            IF n = 0 THEN TemplateUrl(h).segs
            ELSE IF h.route[n] \in Params THEN Replace(text[n - 1], h.route[n], Spell(req.path[n]))
            ELSE text[n - 1]
    IN Parse([TemplateUrl(h) EXCEPT !.segs = text[Len(h.route)]], req.query)

\* PathClosure.Handle cuts off the path as configured.  With its slash at the end
\* it is not found in the bare path, and otherwise takes the slash away that would
\* keep the backend's URL apart from what follows.
PathTarget(h, req) ==
    LET rest == SubSeq(req.path, Len(h.cfg.path) + 1, Len(req.path))
        url == IF h.cfg.slash /\ rest = <<>> THEN BackendUrl(h.cfg.base, TRUE, req.path)
               ELSE BackendUrl(h.cfg.base, ~h.cfg.slash, rest)
    IN Parse(url, req.query)

Target(h, req) ==
    IF h.cfg.routing = "path" THEN PathTarget(h, req) ELSE PatternTarget(h, req)

(***************************************************************************)
(* The host rewriter.  Its mappings, and the replacements of one, are kept *)
(* in Go maps: an order is a choice of sequences for both.                 *)
(***************************************************************************)

\* The orders in which Go may walk a map with the keys S.
MapOrders(S) == {s \in [1 .. Cardinality(S) -> S] : S \subseteq ToSet(s)}

NamesOf(app) == UNION {ToSet(p) \cap Params : p \in DOMAIN app.targets}
Orders(app) ==
    IF app.routing = "path" THEN {[mappings |-> <<>>, names |-> <<>>]}
    ELSE [mappings : MapOrders(DOMAIN app.targets), names : MapOrders(NamesOf(app))]

PositionIn(path, name) == CHOOSE i \in 1 .. Len(path) : path[i] = name
PathOf(link) == [rooted |-> link.rooted, segs |-> link.segs]

\* The regular expression "^" + target + "$", each parameter one segment that is not
\* empty, and what its groups match.
Fits(app, pattern, link) ==
    LET target == app.targets[pattern]
    IN IF target \in DOMAIN Wild THEN PathOf(link) \in DOMAIN Wild[target]
       ELSE /\ link.rooted <=> target # <<>> /\ pattern \notin app.bare
            /\ Len(link.segs) = Len(target)
            /\ \A i \in 1 .. Len(target) : IF target[i] \in Params THEN link.segs[i] # <<Empty>>
                                            ELSE link.segs[i] = Spell(target[i])
Groups(target, link) ==
    IF target \in DOMAIN Wild THEN Wild[target][PathOf(link)]
    ELSE [name \in ToSet(target) \cap Params |-> link.segs[PositionIn(target, name)]]

\* ReplaceAllString expands a $ in the value.
Expand(seg) == IF seg \in DOMAIN Dollars THEN Dollars[seg] ELSE seg

\* repl: the pattern with the values of the groups, one after the other.
Repl(pattern, groups, names) ==
    LET text[n \in 0 .. Len(names)] ==
            IF n = 0 THEN SpellAll(pattern)
            ELSE IF names[n] \in DOMAIN groups
            THEN Replace(text[n - 1], names[n], Expand(groups[names[n]]))
            ELSE text[n - 1]
    IN text[Len(names)]

\* Mutant: the prefix of the application is forgotten.
RewriteUrlBare(app, link, order) ==
    IF link.rooted THEN Url("public", link.segs, link.query) ELSE Unmappable

\* The host of the link is not looked at, and its query is kept.  The expression of
\* a path application, "/(?P<path>.*)", is not anchored: it takes what follows the
\* first slash, and finds none in an empty path.
RewriteUrl(app, link, order) ==
    IF link.host = "unparsable" THEN ParseError
    ELSE IF app.routing = "path"
    THEN LET rest == IF link.rooted \/ link.segs = <<>> THEN link.segs ELSE Tail(link.segs)
         IN IF rest = <<>> THEN Unmappable
            ELSE Url("public", SpellAll(app.path) \o [i \in 1 .. Len(rest) |-> Expand(rest[i])],
                     link.query)
    ELSE LET fitting == {n \in DOMAIN order.mappings : Fits(app, order.mappings[n], link)}
             pattern == order.mappings[CHOOSE n \in fitting : \A m \in fitting : n <= m]
         IN IF fitting = {} THEN Unmappable
            ELSE Url("public", Repl(pattern, Groups(app.targets[pattern], link), order.names),
                     link.query)

\* copyAndRewriteHeaders: a Location without a public form is left as it is.
Location(app, link, order) ==
    IF link = NoLink THEN NoLink
    ELSE LET new == RewriteUrl(app, link, order)
         IN IF new \in {Unmappable, ParseError} THEN link ELSE new

UrlMap(app, order) == [link \in Links |-> RewriteUrl(app, link, order)]

\* The path of a path application is plain text; a pattern has one target, which
\* names a parameter once.
IsForwarded(app) ==
    /\ app.routing = "path" => /\ app.base \in Seq(STRING) /\ app.slash \in BOOLEAN
                               /\ ToSet(app.path) \cap (Params \cup {CatchAll}) = {}
    /\ app.routing = "pattern" =>
          /\ app.base \in Seq(STRING)
          /\ app.patterns = DOMAIN app.targets /\ IsFiniteSet(app.patterns)
          /\ \A p \in app.patterns : /\ app.targets[p] \in Seq(STRING)
                                     /\ \A i, j \in DOMAIN app.targets[p] :
                                           app.targets[p][i] = app.targets[p][j]
                                           /\ app.targets[p][i] \in Params => i = j
          /\ \A p \in app.bare : p \in app.patterns /\ app.targets[p] # <<>>

\* Segments are spelled in one way; every body is a document, and Walk and Leaves
\* are the recursive operators for every order of the maps of every application.
ASSUME ForwardingAssumption ==
    /\ IsFiniteSet(Params) /\ Params \subseteq STRING
    /\ CatchAll \notin Params \cup DOMAIN Spelled
    /\ \A s \in DOMAIN Spelled : /\ Spelled[s] \in Seq(STRING) /\ Len(Spelled[s]) > 1
                                 /\ \A t \in DOMAIN Spelled : Spelled[s] = Spelled[t] => s = t
    /\ Requests \subseteq [method : STRING, path : Seq(STRING), query : STRING, body : BOOLEAN,
                           noRewrite : BOOLEAN]
    /\ Answers \subseteq [status : 100 .. 599, location : Links \cup {NoLink}, json : BOOLEAN,
                          body : Documents]
    /\ {NoBody, ErrorBody} \subseteq Documents
    /\ \A app \in Configured : /\ IsForwarded(app)
                               /\ \A order \in Orders(app) : Recursion(UrlMap(app, order))

\* Mutant: the rewritten body is sent with status 200.
DecorateOk(req, app, answer, order) ==
    IF req.noRewrite THEN answer
    ELSE [answer EXCEPT !.location = Location(app, answer.location, order),
                        !.status = IF answer.json THEN 200 ELSE @]

\* JsonHostRewriter.Decorate.  The document is decoded and walked.  Rewrite fails,
\* with 500, when all of it is to be removed; a body that is no JSON is left as it is.
Decorate(req, app, answer, order) ==
    IF req.noRewrite THEN answer
    ELSE LET body == IF answer.json /\ req.method # "HEAD"
                     THEN Walk(Unmarshalled(answer.body), FALSE, UrlMap(app, order))
                     ELSE answer.body
         IN IF body = RemoveElement
            THEN [status |-> 500, location |-> NoLink, json |-> TRUE, body |-> ErrorBody]
            ELSE [answer EXCEPT !.location = Location(app, answer.location, order),
                                !.body = body]

\* The body is copied before WriteHeader, so its first byte commits 200.
Options(h, answer) ==
    IF Head(h.chain) = "options" /\ answer.body # NoBody THEN [answer EXCEPT !.status = 200]
    ELSE answer

(***************************************************************************)
(* Exchanges.                                                              *)
(***************************************************************************)

\* The lookup of httprouter; a parameter at the end is not empty.
Matches(route, path) ==
    \/ /\ Len(route) = Len(path)
       /\ \A i \in 1 .. Len(path) : route[i] \in {path[i], CatchAll} \cup Params
       /\ route # <<>> /\ Last(route) \in Params => Last(path) # Empty
    \/ /\ route # <<>> /\ Last(route) = CatchAll /\ Len(path) >= Len(route)
       /\ \A i \in 1 .. Len(route) - 1 : route[i] \in {path[i]} \cup Params

Claims(req) == {h \in mux : h.method = req.method /\ Matches(h.route, req.path)}

\* A request arrives, is routed and forwarded.
Forward(req) ==
    /\ stage = "serving" /\ exchange = Quiet
    /\ \E h \in {i \in Claims(req) : i.app # NoApp} :
          exchange' = [pc |-> "sent", req |-> req, handler |-> h, target |-> Target(h, req)]
    /\ UNCHANGED buildVars

\* No route: httprouter answers 404 or redirects to a path that has one, and nothing
\* is forwarded.
NotFound(req) ==
    /\ stage = "serving" /\ exchange = Quiet
    /\ Claims(req) = {}
    /\ exchange' = [pc |-> "not found", req |-> req]
    /\ UNCHANGED buildVars

Done(answer, broken, order, client) ==
    exchange' = [pc |-> "done", req |-> exchange.req, handler |-> exchange.handler,
                 target |-> exchange.target, answer |-> answer, broken |-> broken,
                 order |-> order, client |-> Options(exchange.handler, client)]

\* A response that the HTTP client would follow: with 307 and 308 it would have to
\* send the body of the request again, which it cannot.
Redirects(req, answer) ==
    /\ answer.location # NoLink
    /\ answer.status \in {301, 302, 303} \cup (IF req.body THEN {} ELSE {307, 308})

\* The service answers.  Redirects are not followed: CheckRedirect stops the client,
\* which hands the response out with its body closed.
Respond(answer, order) ==
    /\ exchange.pc = "sent" /\ exchange.target.host = "backend"
    /\ Redirects(exchange.req, answer) => answer.location.host # "unparsable"
    /\ LET got == IF exchange.req.method = "HEAD" \/ Redirects(exchange.req, answer)
                  THEN [answer EXCEPT !.body = NoBody] ELSE answer
       IN Done(answer, FALSE, order, Decorate(exchange.req, exchange.handler.cfg, got, order))
    /\ UNCHANGED buildVars

\* The service breaks off while it sends the body.  The status has been passed on,
\* and the error is only logged: what has come, which is no JSON, is the body.
BreakOff(answer, order) ==
    /\ exchange.pc = "sent" /\ exchange.target.host = "backend"
    /\ exchange.req.method # "HEAD" /\ ~Redirects(exchange.req, answer) /\ answer.body # NoBody
    /\ \E part \in {NoBody, Fragment} :
          Done(answer, TRUE, order,
               Decorate(exchange.req, exchange.handler.cfg,
                        [answer EXCEPT !.body = part, !.json = FALSE], order))
    /\ UNCHANGED buildVars

\* UnavailableError: the URL is no URL, the service does not answer, or it redirects
\* to something that is no URL.
Unavailable ==
    /\ exchange.pc = "sent"
    /\ \E order \in Orders(exchange.handler.cfg) :
          Done(NoAnswer, FALSE, order,
               Decorate(exchange.req, exchange.handler.cfg,
                        [status |-> 503, location |-> NoLink, json |-> TRUE,
                         body |-> IF exchange.req.method = "HEAD" THEN NoBody
                                  ELSE ErrorBody], order))
    /\ UNCHANGED buildVars

Finished ==
    /\ exchange.pc \in {"done", "not found"}
    /\ exchange' = Quiet
    /\ UNCHANGED buildVars

\* Nothing in an exchange reads Consul's store, which changes between exchanges.
FNext ==
    \/ exchange = Quiet /\ BuildNext /\ UNCHANGED exchange
    \/ \E req \in Requests : Forward(req) \/ NotFound(req)
    \/ exchange.pc = "sent"
       /\ \E answer \in Answers, order \in Orders(exchange.handler.cfg) :
             Respond(answer, order) \/ BreakOff(answer, order)
    \/ Unavailable \/ Finished

FSpec == FInit /\ [][FNext]_fvars

(***************************************************************************)
(* Properties.                                                             *)
(***************************************************************************)

\* Text that url.Parse and ReplaceAllString take as it is, and routes that hold no
\* text to be taken for a parameter of route.
Plain(seg) == Spell(seg) \notin DOMAIN Escapes
Literal(seg) ==
    Len(Spell(seg)) = 1 /\ seg \notin Params /\ Plain(seg) /\ Spell(seg) \notin DOMAIN Dollars
Distinct(route, template) ==
    \A i \in 1 .. Len(route) : route[i] \in Params =>
        /\ \A j \in 1 .. Len(route) : j # i => Spell(route[i]) \notin SubSeqs(Spell(route[j]))
        /\ \A j \in 1 .. Len(template) :
              template[j] # route[i] => Spell(route[i]) \notin SubSeqs(Spell(template[j]))
Sent == exchange.pc \in {"sent", "done"}

\* What is left of the path behind the prefix of a path application, and the
\* template of a pattern with each parameter replaced by the segment in its place.
Behind(h, path) == SubSeq(path, Len(h.cfg.path) + 1, Len(path))
Template(h) == h.cfg.base \o h.cfg.targets[h.route]
Filled(h, path) ==
    [i \in 1 .. Len(Template(h)) |->
        LET seg == Template(h)[i]
        IN IF seg \in Params \cap ToSet(h.route) THEN path[PositionIn(h.route, seg)] ELSE seg]

\* A request belongs to one handler, so to one application, and the service is
\* asked for what the client asked for, with the query of the client: behind the
\* prefix of a path application the same path, and the target of a pattern with each
\* parameter replaced by the segment in its place.  This is so unless
\*   - the path is configured with a slash at the end, or the target without one in
\*     front, or the target has a query: nothing of that is asked for;
\*   - a decoded path, or a target, has %, ? or # in it, which are read again;
\*   - a parameter is only a part of a segment of the target, or its name is found in
\*     another name or in a value.
TargetAsAsked ==
    Sent => LET h == exchange.handler
                path == exchange.req.path
                asked == IF h.cfg.routing = "path" THEN h.cfg.base \o Behind(h, path)
                         ELSE Filled(h, path)
                Exact == \A i \in 1 .. Len(asked) : Plain(asked[i])
            IN /\ Claims(exchange.req) = {h}
               /\ h.cfg.routing = "path" /\ ~h.cfg.slash => path = h.cfg.path \o Behind(h, path)
               /\ Exact /\ (IF h.cfg.routing = "path" THEN ~h.cfg.slash
                            ELSE /\ h.route \notin h.cfg.bare
                                 /\ Distinct(h.route, Template(h))
                                 /\ \A i \in 1 .. Len(path) : Literal(path[i]))
                  => exchange.target = Url("backend", SpellAll(asked), exchange.req.query)

\* An application whose links can be told apart: no base path, no slash at the end,
\* targets that begin with a slash and match only their own text, and no link that
\* fits two targets.
Invertible(app) ==
    /\ ~app.slash /\ app.base = <<>>
    /\ app.routing = "pattern" =>
          /\ app.bare = {}
          /\ \A p \in DOMAIN app.targets :
                /\ Distinct(p, app.targets[p])
                /\ ToSet(p) \cap Params = ToSet(app.targets[p]) \cap Params
                /\ app.targets[p] \notin DOMAIN Wild
                /\ \A i \in 1 .. Len(app.targets[p]) : Plain(app.targets[p][i])
          /\ \A p, q \in DOMAIN app.targets :
                p # q => \/ Len(app.targets[p]) # Len(app.targets[q])
                         \/ \E i \in 1 .. Len(app.targets[p]) :
                               /\ {app.targets[p][i], app.targets[q][i]} \cap Params = {}
                               /\ app.targets[p][i] # app.targets[q][i]

\* A link to the resource that was asked for, found in its own answer, leads the
\* client back to it: whatever the order of the maps, its public form is a path and
\* a query that the router gives to the same application, with the same target.
\* The bare path of a path application is left out: behind it is an empty path,
\* which has no public form.  So are empty values of a pattern's parameters.
RoundTrip ==
    Sent /\ Invertible(exchange.handler.cfg)
         /\ (\A i \in 1 .. Len(exchange.req.path) : Literal(exchange.req.path[i]))
         /\ (IF exchange.handler.cfg.routing = "path" THEN exchange.target.rooted
             ELSE \A i \in 1 .. Len(exchange.req.path) : exchange.req.path[i] # Empty)
    => \A order \in Orders(exchange.handler.cfg) :
          LET link == RewriteUrl(exchange.handler.cfg, exchange.target, order)
              path == [i \in 1 .. Len(link.segs) |-> Head(link.segs[i])]
              again == [exchange.req EXCEPT !.path = path, !.query = link.query]
          IN \E h \in Claims(again) :
                /\ h.app = exchange.handler.app
                /\ Target(h, again) = exchange.target

\* The client gets the document of the service with public links: no other part of
\* it changes, but for numbers that a float64 does not hold, and rewriting never
\* fails.
PublicLinks ==
    exchange.pc = "done" /\ ~exchange.req.noRewrite
    => /\ exchange.client.status = 500 => exchange.answer.status = 500
       /\ exchange.answer.json /\ ~exchange.broken /\ exchange.client.body # NoBody
          => Rewrites(exchange.client.body, Unmarshalled(exchange.answer.body),
                      UrlMap(exchange.handler.cfg, exchange.order))

\* The client learns what the service said: its status, or 503 without an answer,
\* and its body, or what becomes of it when it is JSON.  The exceptions are in the
\* code: an OPTIONS answer with a body is turned into 200, responses that the HTTP
\* client would follow lose their body, and a service that breaks off in its body is
\* not told from one that is done.
AnswerPassed ==
    exchange.pc = "done" =>
        LET req == exchange.req
            a == exchange.answer
            c == exchange.client
            said == IF a = NoAnswer THEN 503 ELSE a.status
            options == Head(exchange.handler.chain) = "options" /\ c.body # NoBody
        IN /\ c.status = IF options THEN 200 ELSE said
           /\ \/ a = NoAnswer \/ exchange.broken
              \/ req.method = "HEAD" \/ Redirects(req, a)
              \/ a.json /\ ~req.noRewrite /\ (c.body = NoBody => a.body = NoBody)
              \/ c.body = a.body
=============================================================================
