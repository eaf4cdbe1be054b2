---------------------------- MODULE MCForwarding ----------------------------
(***************************************************************************)
(* Forwarding, and with it Dispatcher, for TLC.  Applications are routed   *)
(* by path and by pattern, with and without the behaviours, some with a    *)
(* slash at the end, a base path, parameters whose names begin alike,      *)
(* targets that overlap, that are no regular expressions or that are those *)
(* of README.md.  Consul's store is empty, adds an application, also under *)
(* a key next to the folder, collides with a static one or with the login  *)
(* endpoint, or holds a folder key without a value.                        *)
(***************************************************************************)
EXTENDS Forwarding, TLC

MCBase == <<"gateway">>
MCLoginUri == <<"authenticate">>
Shop == [routing |-> "path", path |-> <<"shop">>, patterns |-> {}, caching |-> TRUE,
         autoFlush |-> TRUE, authDisable |-> FALSE, rateLimiting |-> TRUE,
         malformed |-> FALSE, slash |-> FALSE, base |-> <<>>, targets |-> <<>>, bare |-> {}]
Routed(targets) ==
    [Shop EXCEPT !.routing = "pattern", !.autoFlush = FALSE, !.patterns = DOMAIN targets,
                 !.targets = targets]
Items == Routed((<<"items">> :> <<"list">>) @@ (<<"items", ":id">> :> <<"entry", ":id">>))
Pairs == Routed((<<"pairs", ":id", ":key">> :> <<"pair", ":key", ":id">>))
Alike == Routed((<<"alike", ":id", ":idx">> :> <<"pair", ":idx", ":id">>))
Readme(base) ==
    [Routed((<<"products">> :> <<"app.php?list">>) @@ (<<"products", ":id">> :> <<"app.php?show=:id">>))
        EXCEPT !.base = base, !.bare = {<<"products">>, <<"products", ":id">>}]
Overlapping == Routed((<<"all", ":id">> :> <<"entry", ":id">>) @@ (<<"new">> :> <<"entry", "new">>))
Open == [Shop EXCEPT !.path = <<"open">>, !.authDisable = TRUE, !.rateLimiting = FALSE]
Slashed == [Open EXCEPT !.path = <<"slashed">>, !.slash = TRUE]
Based == [Open EXCEPT !.path = <<"based">>, !.base = <<"base">>]
Root == [Shop EXCEPT !.path = <<>>]
Nested == [Shop EXCEPT !.path = <<"shop", "sale">>]
Login == [Shop EXCEPT !.path = <<"authenticate">>]
ByHost == [Shop EXCEPT !.routing = "host"]
Ill == [Items EXCEPT !.malformed = TRUE]

Pair(name, app) == [key |-> <<"gateway", "applications", name>>, value |-> app]
Beside(name, app) == [key |-> <<"gateway", "applications-old", name>>, value |-> app]
Limit(key) == [key |-> <<"gateway", key>>, value |-> "limits"]

MCKvStates ==
    {{}, {Pair("open", Open), Beside("based", Based), Limit("rate_limiting")},
     {Pair("open", Open), Pair("nested", Nested)}, {Pair("login", Login), Pair("host", ByHost)},
     {Pair("shop", Shop)}, {Pair("ill", Ill)}, {Pair("", BadJson)}}

\* With Consul, two static applications; without it, choices of two applications,
\* and three that go together.
MCStartups ==
    [consul : {TRUE}, apps : {(<<"shop">> :> Shop) @@ (<<"items">> :> Items)}]
    \cup [consul : {FALSE},
          apps : {(<<"a">> :> a) @@ (<<"b">> :> b) :
                     a \in {Shop, Items}, b \in {Shop, Items, Open, Root, Nested, Login, ByHost, Ill}}
                 \cup {(<<"a">> :> a) @@ (<<"b">> :> Alike) @@ (<<"c">> :> Overlapping) :
                          a \in {Pairs, Slashed, [Slashed EXCEPT !.base = <<"base">>], Based,
                                 Readme(<<>>), Readme(<<"">>)}}]

MCSpelled == (":idx" :> <<":id", "x">>) @@ ("app.php?show=:id" :> <<"app.php?show=", ":id">>)
Read(seg, ends, valid) == [seg |-> seg, ends |-> ends, valid |-> valid]
MCEscapes ==
    (<<"app.php?list">> :> Read(<<"app.php">>, TRUE, TRUE))
    @@ (<<"app.php?show=", "7">> :> Read(<<"app.php">>, TRUE, TRUE))
    @@ (<<"7%38">> :> Read(<<"78">>, FALSE, TRUE)) @@ (<<"7%">> :> Read(<<"">>, FALSE, FALSE))
    @@ (<<"7?8">> :> Read(<<"7">>, TRUE, TRUE))
MCDollars == <<"$7">> :> <<"">>
MCWild ==
    (<<"app.php?list">> :> ([rooted |-> FALSE, segs |-> << <<"app.phlist">> >>] :> <<>>))
    @@ (<<"app.php?show=:id">> :>
            ([rooted |-> FALSE, segs |-> << <<"app.phshow=", "7">> >>] :> (":id" :> <<"7">>)))

Asked == {<<"shop">>, <<"shop", "">>, <<"shop", "7">>, <<"shop", "shop">>, <<"open", "7">>,
          <<"shop", "7%38">>, <<"shop", "7%", "8">>, <<"shop", "7?8", "9">>, <<"shop", "$7">>,
          <<"slashed">>, <<"slashed", "">>, <<"slashed", "7">>, <<"based", "7">>, <<"items">>,
          <<"items", "">>, <<"items", "7">>, <<"items", "7?8">>, <<"pairs", "7", "8">>, <<"pairs", "", "8">>,
          <<"pairs", ":key", "8">>, <<"alike", "7", "8">>, <<"alike", ":idx", "8">>,
          <<"products">>, <<"products", "7">>, <<"all", "new">>, <<"all", "7">>, <<"new">>, <<"lost">>}
Request(method, path, query, body, noRewrite) ==
    [method |-> method, path |-> path, query |-> query, body |-> body, noRewrite |-> noRewrite]
MCRequests ==
    {Request("GET", path, "q", FALSE, FALSE) : path \in Asked}
    \cup {Request(m, <<"items", "7">>, "", m = "POST", n) : m \in {"HEAD", "POST", "OPTIONS"}, n \in BOOLEAN}

Path(host, rooted, segs) ==
    [host |-> host, rooted |-> rooted, segs |-> SpellAll(segs), query |-> "page=2"]
Entry == Path("backend", TRUE, <<"entry", "7">>)
Foreign == Path("foreign", TRUE, <<"entry", "new">>)
Relative == Path("", FALSE, <<"relative">>)
Broken == Path("unparsable", TRUE, <<"">>)
Elsewhere == {Path("foreign", TRUE, <<"">>), Path("foreign", FALSE, <<>>),
              Path("", TRUE, <<"entry", "$7">>), Path("", FALSE, <<"app.phlist">>),
              [Path("", FALSE, <<>>) EXCEPT !.segs = << <<"app.phshow=", "7">> >>]}
MCNoLink == Path("none", FALSE, <<>>)
MCLinks == {Entry, Foreign, Relative, Path("", FALSE, <<"relative", "7">>), Broken} \cup Elsewhere

Href(v) == Obj([href |-> v])
MCFloat64 == "2^53+1" :> "2^53"
Large == Scalar("2^53+1")
Elements == {Href(Str(l)) : l \in MCLinks \ ({Foreign} \cup Elsewhere)}
            \cup {Href(Href(Str(Relative))), Href(Arr(<<Str(Relative), Large>>)), Large,
                  Obj([href |-> Str(Relative), x |-> Href(Str(Entry))])}
Values == Elements \cup {Arr(s) : s \in BoundedSeq({Href(Str(Entry)), Href(Str(Relative))}, 2)}
          \cup {Arr(<<Scalar("1"), Href(Str(Relative))>>)}
Bodies == ({Obj([links |-> v]) : v \in Values} \cup {Obj([x |-> v]) : v \in Values}
           \cup {Obj([x |-> Obj([_links |-> v, y |-> Str(Entry)])]) : v \in Elements}
           \cup Values) \ {NoBody}

\* The documents with their parts, and the recursions over them.
RECURSIVE MCDepth(_), MCUnmarshalled(_), MCWalk(_, _, _), MCLeaves(_), PartsOf(_)
MCDepth(doc) ==
    1 + Max({0} \cup {MCDepth(Parts(doc)[k]) : k \in DOMAIN Parts(doc)})
MCUnmarshalled(doc) ==
    decodeJson(doc, [k \in DOMAIN Parts(doc) |-> MCUnmarshalled(Parts(doc)[k])])
MCWalk(doc, inLinks, url) ==
    walkJson(doc, [k \in DOMAIN Parts(doc) |->
                      MCWalk(Parts(doc)[k],
                             inLinks \/ (doc.kind = "object" /\ k \in {"links", "_links"}), url)],
             inLinks, url)
MCLeaves(doc) ==
    LeavesOf(doc, [k \in DOMAIN Parts(doc) |-> MCLeaves(Parts(doc)[k])])
PartsOf(doc) == {doc} \cup UNION {PartsOf(Parts(doc)[k]) : k \in DOMAIN Parts(doc)}
MCDocuments ==
    UNION {PartsOf(doc) \cup PartsOf(MCUnmarshalled(doc)) : doc \in Bodies \cup {NoBody, ErrorBody}}

Answer(status, location, json, body) ==
    [status |-> status, location |-> location, json |-> json, body |-> body]
MCAnswers ==
    {Answer(200, MCNoLink, TRUE, b) : b \in Bodies}
    \cup {Answer(201, l, FALSE, Large) : l \in MCLinks}
    \cup {Answer(s, l, j, Large) : s \in {302, 307}, l \in {Entry, Broken}, j \in BOOLEAN}
    \cup {Answer(404, MCNoLink, FALSE, Large), Answer(302, MCNoLink, FALSE, NoBody)}
=============================================================================
