---------------------------- MODULE JsonRewriter ----------------------------
(***************************************************************************)
(* json.Unmarshal, as proxy/hostrewriter.go uses it, and its walkJson, as  *)
(* operators on JSON documents, and what may be said of their results.     *)
(*                                                                         *)
(* A document is a record: a string that is a link, another scalar with    *)
(* its value, an object with its fields or an array with its elements.     *)
(* The walk leaves the elements of an array in their places: an array with *)
(* holes stands for the shorter list.                                      *)
(*                                                                         *)
(* walkJson calls itself on the parts of a document.  The operator takes   *)
(* the results of these calls, and Walk is any operator that agrees with   *)
(* it: Recursion, which a module that knows the links' public forms        *)
(* assumes.  Unmarshalled, Leaves and Depth are given in the same way.     *)
(***************************************************************************)
EXTENDS Integers, SequencesExt

CONSTANTS
    Links,          \* the links that occur in documents
    Documents,      \* documents, with all of their parts
    Float64,        \* the numbers that a float64 does not hold, with those it
                    \* holds in their place
    Depth(_),       \* how deep a document is nested
    Unmarshalled(_),\* a document as json.Unmarshal decodes it
    Walk(_, _, _),  \* the walk of a document, inside of links or not
    Leaves(_)       \* the strings and scalars of a document, each with the
                    \* names above it

Str(link) == [kind |-> "string", link |-> link]
Scalar(value) == [kind |-> "scalar", value |-> value]
Obj(fields) == [kind |-> "object", fields |-> fields]
Arr(items) == [kind |-> "array", items |-> items]

Parts(doc) ==
    CASE doc.kind = "object" -> doc.fields
      [] doc.kind = "array" -> doc.items
      [] OTHER -> <<>>

IsDocument(doc) ==
    \/ doc.kind = "scalar" /\ doc = Scalar(doc.value)
    \/ \E link \in Links : doc = Str(link)
    \/ doc.kind = "object" /\ doc = Obj(doc.fields) /\ DOMAIN doc.fields \subseteq STRING
    \/ doc.kind = "array" /\ doc = Arr(doc.items) /\ doc.items \in Seq(Documents)

\* Decoding into an interface{} makes a float64 of every number; parts[k] is what
\* becomes of part k.
decodeJson(doc, parts) ==
    CASE doc.kind = "object" -> Obj(parts)
      [] doc.kind = "array" -> Arr(parts)
      [] doc.kind = "scalar" /\ doc.value \in DOMAIN Float64 -> Scalar(Float64[doc.value])
      [] OTHER -> doc

\* Documents are nested finitely deep, and decoded part by part.
ASSUME DocumentsAssumption ==
    \A doc \in Documents :
        /\ IsDocument(doc)
        /\ Unmarshalled(doc) \in Documents
        /\ Unmarshalled(doc) =
              decodeJson(doc, [k \in DOMAIN Parts(doc) |-> Unmarshalled(Parts(doc)[k])])
        /\ Depth(doc) \in Nat
        /\ \A k \in DOMAIN Parts(doc) : /\ Parts(doc)[k] \in Documents
                                        /\ Depth(Parts(doc)[k]) < Depth(doc)

\* The results UnmappableUrl and a parse error of RewriteUrl, and RemoveElement.
Unmappable == [host |-> "unmappable", rooted |-> FALSE, segs |-> <<>>, query |-> ""]
ParseError == [Unmappable EXCEPT !.host = "parse error"]
RemoveElement == [kind |-> "obsolete element"]

\* A field href is rewritten if it is a string, else it is not looked at; url[l] is
\* the result of RewriteUrl on link l.
IsHref(doc, k) == k = "href" /\ doc.fields[k].kind = "string"
Field(doc, k, walked, url) ==
    CASE IsHref(doc, k) -> Str(url[doc.fields[k].link])
      [] k = "href" /\ ~IsHref(doc, k) -> doc.fields[k]
      [] OTHER -> walked[k]

\* Mutant: a link that has no public form is left as it is.
WalkKeeping(doc, walked, inLinks, url) ==
    CASE doc.kind = "object" ->
            Obj([k \in DOMAIN doc.fields |->
                    IF IsHref(doc, k) /\ url[doc.fields[k].link] \in {Unmappable, ParseError}
                    THEN doc.fields[k] ELSE Field(doc, k, walked, url)])
      [] doc.kind = "array" -> Arr(walked)
      [] OTHER -> doc

\* walked[k] is the walk of part k.  The fields of an object are visited in any
\* order; the order does not matter, for an object that is removed is dropped whole.
walkJson(doc, walked, inLinks, url) ==
    CASE doc.kind = "object" ->
            LET f == doc.fields
                dropped == {k \in DOMAIN f :
                              IF IsHref(doc, k) THEN url[f[k].link] \in {Unmappable, ParseError}
                              ELSE Field(doc, k, walked, url) = RemoveElement}
            IN IF inLinks /\ \E k \in DOMAIN f : IsHref(doc, k) /\ url[f[k].link] = Unmappable
               THEN RemoveElement
               ELSE Obj([k \in DOMAIN f \ dropped |-> Field(doc, k, walked, url)])
      [] doc.kind = "array" ->
            LET kept == {i \in DOMAIN doc.items : walked[i] # RemoveElement}
            IN IF kept = {} /\ DOMAIN doc.items # {} THEN RemoveElement
               ELSE Arr([i \in kept |-> walked[i]])
      [] OTHER -> doc

\* The walks of the parts, which fields named links and _links switch into links.
WalkParts(doc, inLinks, url) ==
    [k \in DOMAIN Parts(doc) |->
        Walk(Parts(doc)[k], inLinks \/ (doc.kind = "object" /\ k \in {"links", "_links"}), url)]

(***************************************************************************)
(* What a walk owes the document.                                          *)
(***************************************************************************)

\* A leaf is a pair of the names above it and of a string or scalar; below[k] are
\* the leaves of part k.
Named(k, leaf) == << <<k>> \o leaf[1], leaf[2]>>
LeavesOf(doc, below) ==
    CASE doc.kind = "object" ->
            UNION {{Named(k, leaf) : leaf \in below[k]} : k \in DOMAIN doc.fields}
      [] doc.kind = "array" ->
            UNION {{Named("[]", leaf) : leaf \in below[i]} : i \in DOMAIN doc.items}
      [] OTHER -> {<< <<>>, doc>>}

\* A leaf that is a link: a string under href.  What a field href that is no string
\* contains is not looked at.
IsLink(leaf) ==
    /\ leaf[2].kind = "string"
    /\ leaf[1] # <<>> /\ Last(leaf[1]) = "href"
    /\ ~Contains(Front(leaf[1]), "href")

Public(leaf, url) == IF IsLink(leaf) THEN <<leaf[1], Str(url[leaf[2].link])>> ELSE leaf
Lost(leaf, url) == IsLink(leaf) /\ url[leaf[2].link] \in {Unmappable, ParseError}
InLinks(leaf) == Contains(leaf[1], "links") \/ Contains(leaf[1], "_links")

\* What a rewritten document owes its original: its links are the original's in
\* their public form, nothing is invented, nothing outside of links is missing but
\* links without a public form, and when every link has one, nothing is.
Rewrites(new, doc, url) ==
    /\ \A leaf \in Leaves(new) : \E old \in Leaves(doc) : ~Lost(old, url) /\ leaf = Public(old, url)
    /\ \A old \in Leaves(doc) :
          \/ Public(old, url) \in Leaves(new)
          \/ Lost(old, url)
          \/ InLinks(old) /\ \E leaf \in Leaves(doc) : Lost(leaf, url)

(***************************************************************************)
(* The equations of the recursions, for documents and for their walks.     *)
(***************************************************************************)
Walks(url) == {Walk(doc, inLinks, url) : doc \in Documents, inLinks \in BOOLEAN}

IsLeaves(docs) ==
    \A doc \in docs :
        Leaves(doc) = LeavesOf(doc, [k \in DOMAIN Parts(doc) |-> Leaves(Parts(doc)[k])])

Recursion(url) ==
    /\ \A doc \in Documents, inLinks \in BOOLEAN :
          Walk(doc, inLinks, url) = walkJson(doc, WalkParts(doc, inLinks, url), inLinks, url)
    /\ IsLeaves(Documents \cup Walks(url) \cup {Str(url[link]) : link \in Links})
=============================================================================
