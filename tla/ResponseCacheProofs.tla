------------------------- MODULE ResponseCacheProofs ------------------------
(***************************************************************************)
(* Proofs about the response cache: what its entries are, and that a flush *)
(* no fill overlapped is not undone, for every number of requests, URIs,   *)
(* Accept headers and every capacity.  Identifiers are compared only: what *)
(* identifierForRequest makes of a request is never looked into.           *)
(***************************************************************************)
EXTENDS ResponseCache, TLAPS

AnyAccept == Accept \cup {NoAccept}

UriOrNone == Uri \cup {NoUri}
Counters == {"idle", "lookup", "upstream", "store", "write", "done"}
Answers == Int
XCache == {"none", "HIT", "MISS", "PASS", "PURGED"}

Requests ==
    [pc : Counters, uri : UriOrNone, accept : AnyAccept, useCache : BOOLEAN,
     alone : BOOLEAN, answer : Answers, xcache : XCache]

\* Each variable has its type, and a request under way is for a URI.
CacheTypes ==
    /\ version \in [Uri -> Nat]
    /\ cache \in [Id -> [uri : UriOrNone, accept : AnyAccept, version : Answers]]
    /\ req \in [Client -> Requests]
    /\ flushed \in [Id -> Nat]
    /\ \A c \in Client :
          req[c].pc \in {"lookup", "upstream", "store", "write"} => req[c].uri \in Uri

\* An entry is a version its URI has had, under the identifier of the request
\* that it was the answer to; so is a response that is about to be stored.
EntryInv ==
    /\ \A i \in Id : Present(i) =>
          /\ cache[i].uri \in Uri
          /\ identifierForRequest(cache[i].uri, cache[i].accept) = i
          /\ cache[i].version \in 0 .. version[cache[i].uri]
    /\ \A c \in Client : At(c, "store") => req[c].answer \in 0 .. version[req[c].uri]

\* While a write is undisturbed, its entry is absent and nobody may store one.
AloneInv ==
    \A c \in Client : At(c, "write") /\ req[c].alone =>
        ~Present(IdOf(c)) /\ Fills(IdOf(c)) = {}

\* The history is not ahead of the upstream.
FlushedInv ==
    \A u \in Uri, a \in AnyAccept :
        Unambiguous(u, a) => flushed[identifierForRequest(u, a)] <= version[u]

CacheInv == CacheTypes /\ EntryInv /\ AloneInv /\ FlushedInv /\ FlushSticks

\* The identifier of a request under way is one the cache may have an entry for.
LEMMA IdType ==
    ASSUME NEW u \in Uri, NEW a \in AnyAccept PROVE identifierForRequest(u, a) \in Id
BY DEF Id, AnyAccept

\* The values that the code puts into a request have the types of its fields.
LEMMA FieldTypes ==
    /\ "lookup" \in Counters /\ "upstream" \in Counters /\ "store" \in Counters
    /\ "write" \in Counters /\ "done" \in Counters
    /\ "HIT" \in XCache /\ "MISS" \in XCache /\ "PASS" \in XCache /\ "PURGED" \in XCache
    /\ -1 \in Answers /\ FALSE \in BOOLEAN
BY DEF Counters, XCache, Answers

\* A request without a URI.
LEMMA IdleFields ==
    /\ Idle \in Requests
    /\ Idle.uri = NoUri /\ Idle.accept = NoAccept /\ Idle.useCache = FALSE /\ Idle.alone = FALSE
<1>1. /\ "idle" \in Counters /\ NoUri \in UriOrNone /\ NoAccept \in AnyAccept
      /\ FALSE \in BOOLEAN /\ 0 \in Answers /\ "none" \in XCache
  BY DEF Counters, UriOrNone, AnyAccept, Answers, XCache
<1>2. Idle \in Requests
  BY <1>1 DEF Idle, Requests
<1> QED BY <1>2 DEF Idle

\* Replacing fields of a request by values of their types keeps its type.
LEMMA FieldUpdates ==
    \A r \in Requests, pc \in Counters :
       /\ [r EXCEPT !.pc = pc] \in Requests
       /\ \A l \in BOOLEAN : [r EXCEPT !.alone = l] \in Requests
       /\ \A x \in XCache : [r EXCEPT !.pc = pc, !.xcache = x] \in Requests
       /\ \A v \in Answers : [r EXCEPT !.pc = pc, !.answer = v] \in Requests
       /\ \A v \in Answers, x \in XCache :
             [r EXCEPT !.pc = pc, !.answer = v, !.xcache = x] \in Requests
       /\ \A u \in UriOrNone, a \in AnyAccept, b \in BOOLEAN :
             /\ [r EXCEPT !.pc = pc, !.uri = u, !.accept = a, !.useCache = b] \in Requests
             /\ [r EXCEPT !.pc = pc, !.uri = u, !.accept = a, !.alone = b] \in Requests
<1> TAKE r \in Requests, pc \in Counters
<1>1. [r EXCEPT !.pc = pc] \in Requests
  BY DEF Requests
<1>2. ASSUME NEW l \in BOOLEAN PROVE [r EXCEPT !.alone = l] \in Requests
  BY DEF Requests
<1>3. ASSUME NEW x \in XCache PROVE [r EXCEPT !.pc = pc, !.xcache = x] \in Requests
  BY DEF Requests
<1>4. ASSUME NEW v \in Answers PROVE [r EXCEPT !.pc = pc, !.answer = v] \in Requests
  BY DEF Requests
<1>5. ASSUME NEW v \in Answers, NEW x \in XCache
      PROVE  [r EXCEPT !.pc = pc, !.answer = v, !.xcache = x] \in Requests
  BY DEF Requests
<1>6. ASSUME NEW u \in UriOrNone, NEW a \in AnyAccept, NEW b \in BOOLEAN
      PROVE  [r EXCEPT !.pc = pc, !.uri = u, !.accept = a, !.useCache = b] \in Requests
  BY DEF Requests
<1>7. ASSUME NEW u \in UriOrNone, NEW a \in AnyAccept, NEW b \in BOOLEAN
      PROVE  [r EXCEPT !.pc = pc, !.uri = u, !.accept = a, !.alone = b] \in Requests
  BY DEF Requests
<1> QED BY <1>1, <1>2, <1>3, <1>4, <1>5, <1>6, <1>7

\* The request of c becomes r, and all the others stay as they are.
Becomes(c, r) ==
    /\ req' \in [Client -> Requests]
    /\ req'[c] = r
    /\ \A d \in Client : d # c => req'[d] = req[d]

\* What the steps of a request do to it, the other requests staying as they are.
LEMMA Footprints ==
    ASSUME CacheTypes, NEW c \in Client
    PROVE  /\ \A u \in Uri, a \in AnyAccept, b \in BOOLEAN : Get(c, u, a, b) =>
                Becomes(c, [Idle EXCEPT !.pc = "lookup", !.uri = u, !.accept = a, !.useCache = b])
           /\ \A u \in Uri, a \in AnyAccept : Put(c, u, a) =>
                Becomes(c, [Idle EXCEPT !.pc = "write", !.uri = u, !.accept = a,
                              !.alone = AutoFlush /\ Fills(identifierForRequest(u, a)) = {}])
           /\ Hit(c) => Becomes(c, [req[c] EXCEPT !.pc = "done",
                              !.answer = cache[IdOf(c)].version, !.xcache = "HIT"])
           /\ Upstream(c) => Becomes(c, [req[c] EXCEPT !.pc = "store",
                              !.answer = version[req[c].uri]])
           /\ UpstreamError(c) => Becomes(c, [req[c] EXCEPT !.pc = "done", !.answer = -1,
                              !.xcache = "PASS"])
           /\ Store(c) => Becomes(c, [req[c] EXCEPT !.pc = "done", !.xcache = "MISS"])
           /\ Pass(c) => Becomes(c, [req[c] EXCEPT !.pc = "done", !.xcache = "PASS"])
           /\ Write(c) \/ WriteError(c) =>
                Becomes(c, [Idle EXCEPT !.pc = "done", !.xcache = "PURGED"])
<1>0. req \in [Client -> Requests] /\ req[c] \in Requests
  BY DEF CacheTypes
<1>1. ASSUME NEW u \in Uri, NEW a \in AnyAccept, NEW b \in BOOLEAN, Get(c, u, a, b)
      PROVE  Becomes(c, [Idle EXCEPT !.pc = "lookup", !.uri = u, !.accept = a, !.useCache = b])
  <2>1. [Idle EXCEPT !.pc = "lookup", !.uri = u, !.accept = a, !.useCache = b] \in Requests
    <3>1. u \in UriOrNone
      BY DEF UriOrNone
    <3> QED BY <3>1, FieldTypes, IdleFields, FieldUpdates, Zenon
  <2> QED BY <1>0, <1>1, <2>1 DEF Get, Becomes
<1>2. ASSUME NEW u \in Uri, NEW a \in AnyAccept, Put(c, u, a)
      PROVE  Becomes(c, [Idle EXCEPT !.pc = "write", !.uri = u, !.accept = a,
                           !.alone = AutoFlush /\ Fills(identifierForRequest(u, a)) = {}])
  <2> DEFINE l == AutoFlush /\ Fills(identifierForRequest(u, a)) = {}
  <2>1. l \in BOOLEAN /\ u \in UriOrNone
    BY ConstantsAssumption DEF UriOrNone
  <2>2. req' = [req EXCEPT ![c] = [Idle EXCEPT !.pc = "write", !.uri = u, !.accept = a,
                                               !.alone = l]]
    BY <1>2 DEF Put
  <2> HIDE DEF l
  <2>3. [Idle EXCEPT !.pc = "write", !.uri = u, !.accept = a, !.alone = l] \in Requests
    BY <2>1, FieldTypes, IdleFields, FieldUpdates, Zenon
  <2>4. Becomes(c, [Idle EXCEPT !.pc = "write", !.uri = u, !.accept = a, !.alone = l])
    BY <1>0, <2>2, <2>3 DEF Becomes
  <2> QED BY <2>4 DEF l
<1>3. ASSUME Hit(c)
      PROVE  Becomes(c, [req[c] EXCEPT !.pc = "done", !.answer = cache[IdOf(c)].version,
                                       !.xcache = "HIT"])
  <2> DEFINE v == cache[IdOf(c)].version
  <2>1. v \in Answers
    <3>1. req[c].uri \in Uri /\ req[c].accept \in AnyAccept
      BY <1>0, <1>3 DEF Hit, At, CacheTypes, Requests
    <3>2. IdOf(c) \in Id
      BY <3>1, IdType DEF IdOf
    <3> QED BY <3>2 DEF CacheTypes
  <2>2. req' = [req EXCEPT ![c].pc = "done", ![c].answer = v, ![c].xcache = "HIT"]
    BY <1>3 DEF Hit
  <2> HIDE DEF v
  <2>3. [req[c] EXCEPT !.pc = "done", !.answer = v, !.xcache = "HIT"] \in Requests
    BY <1>0, <2>1, FieldTypes, FieldUpdates, Zenon
  <2>4. Becomes(c, [req[c] EXCEPT !.pc = "done", !.answer = v, !.xcache = "HIT"])
    BY <1>0, <2>2, <2>3 DEF Becomes
  <2> QED BY <2>4 DEF v
<1>4. ASSUME Upstream(c)
      PROVE  Becomes(c, [req[c] EXCEPT !.pc = "store", !.answer = version[req[c].uri]])
  <2> DEFINE v == version[req[c].uri]
  <2>1. v \in Answers
    BY <1>0, <1>4 DEF Upstream, At, CacheTypes, Answers
  <2>2. req' = [req EXCEPT ![c].pc = "store", ![c].answer = v]
    BY <1>4 DEF Upstream
  <2> HIDE DEF v
  <2>3. [req[c] EXCEPT !.pc = "store", !.answer = v] \in Requests
    BY <1>0, <2>1, FieldTypes, FieldUpdates, Zenon
  <2>4. Becomes(c, [req[c] EXCEPT !.pc = "store", !.answer = v])
    BY <1>0, <2>2, <2>3 DEF Becomes
  <2> QED BY <2>4 DEF v
<1>5. ASSUME UpstreamError(c)
      PROVE  Becomes(c, [req[c] EXCEPT !.pc = "done", !.answer = -1, !.xcache = "PASS"])
  <2>1. [req[c] EXCEPT !.pc = "done", !.answer = -1, !.xcache = "PASS"] \in Requests
    BY <1>0, FieldTypes, FieldUpdates, Zenon
  <2> QED BY <1>0, <1>5, <2>1 DEF UpstreamError, Becomes
<1>6. ASSUME Store(c)
      PROVE  Becomes(c, [req[c] EXCEPT !.pc = "done", !.xcache = "MISS"])
  <2>1. [req[c] EXCEPT !.pc = "done", !.xcache = "MISS"] \in Requests
    BY <1>0, FieldTypes, FieldUpdates, Zenon
  <2> QED BY <1>0, <1>6, <2>1 DEF Store, Becomes
<1>7. ASSUME Pass(c)
      PROVE  Becomes(c, [req[c] EXCEPT !.pc = "done", !.xcache = "PASS"])
  <2>1. [req[c] EXCEPT !.pc = "done", !.xcache = "PASS"] \in Requests
    BY <1>0, FieldTypes, FieldUpdates, Zenon
  <2> QED BY <1>0, <1>7, <2>1 DEF Pass, Becomes
<1>8. ASSUME Write(c) \/ WriteError(c)
      PROVE  Becomes(c, [Idle EXCEPT !.pc = "done", !.xcache = "PURGED"])
  <2>1. [Idle EXCEPT !.pc = "done", !.xcache = "PURGED"] \in Requests
    BY FieldTypes, IdleFields, FieldUpdates, Zenon
  <2> QED BY <1>0, <1>8, <2>1 DEF Write, WriteError, Becomes
<1> QED BY <1>1, <1>2, <1>3, <1>4, <1>5, <1>6, <1>7, <1>8

\* A request that is neither filling nor writing after a step cannot disturb what
\* the others rely on, as long as nothing but the request changes.
LEMMA QuietStep ==
    ASSUME CacheInv, NEW c \in Client, NEW r, Becomes(c, r),
           UNCHANGED <<version, cache, flushed>>,
           r.pc \in {"lookup", "done"}, r.pc = "lookup" => r.uri \in Uri
    PROVE  CacheInv'
<1> USE DEF CacheInv
<1>1. CacheTypes'
  BY DEF CacheTypes, Becomes
<1>2. EntryInv'
  BY DEF EntryInv, Present, At, Becomes
<1>3. \A i : Fills(i)' \subseteq Fills(i)
  BY DEF Fills, IdOf, Becomes
<1>4. AloneInv'
  BY <1>3 DEF AloneInv, Present, At, IdOf, Becomes
<1>5. FlushedInv'
  BY DEF FlushedInv, Unambiguous
<1>6. FlushSticks'
  <2> SUFFICES ASSUME NEW i \in Id, NEW u \in Uri, NEW a \in Accept \cup {NoAccept},
                      i = identifierForRequest(u, a), Unambiguous(u, a)
               PROVE  /\ Present(i)' => cache'[i].version >= flushed'[i]
                      /\ \A d \in Fills(i)' : At(d, "store")' => req'[d].answer >= flushed'[i]
    BY DEF FlushSticks, Unambiguous
  <2>1. /\ Present(i) => cache[i].version >= flushed[i]
        /\ \A d \in Fills(i) : At(d, "store") => req[d].answer >= flushed[i]
    BY DEF FlushSticks
  <2> QED BY <1>3, <2>1 DEF Present, At, Fills, Becomes
<1> QED BY <1>1, <1>2, <1>4, <1>5, <1>6

\* The upstream's answer is the current version, which no flush is ahead of.
LEMMA UpstreamStep ==
    ASSUME CacheInv, NEW c \in Client, Upstream(c) PROVE CacheInv'
<1> USE DEF CacheInv
<1>1. /\ At(c, "upstream") /\ req[c].uri \in Uri /\ req[c].accept \in AnyAccept
      /\ req[c] \in Requests
      /\ UNCHANGED <<version, cache, flushed>>
  BY DEF Upstream, At, CacheTypes, Requests
<1>2. Becomes(c, [req[c] EXCEPT !.pc = "store", !.answer = version[req[c].uri]])
  BY Footprints
<1>3. /\ req'[c].pc = "store" /\ req'[c].uri = req[c].uri /\ req'[c].accept = req[c].accept
      /\ req'[c].useCache = req[c].useCache /\ req'[c].answer = version[req[c].uri]
      /\ \A d \in Client : d # c => req'[d] = req[d]
  BY <1>1, <1>2 DEF Becomes, Requests
<1>4. CacheTypes'
  BY <1>1, <1>2, <1>3 DEF CacheTypes, Becomes
<1>5. EntryInv'
  BY <1>1, <1>3 DEF EntryInv, CacheTypes, Present, At
<1>6. \A i : Fills(i)' = Fills(i)
  BY <1>1, <1>3 DEF Fills, IdOf, At
<1>7. AloneInv'
  BY <1>1, <1>3, <1>6 DEF AloneInv, Present, At, IdOf
<1>8. FlushedInv'
  BY <1>1 DEF FlushedInv, Unambiguous
<1>9. FlushSticks'
  <2> SUFFICES ASSUME NEW i \in Id, NEW u \in Uri, NEW a \in Accept \cup {NoAccept},
                      i = identifierForRequest(u, a), Unambiguous(u, a)
               PROVE  /\ Present(i)' => cache'[i].version >= flushed'[i]
                      /\ \A d \in Fills(i)' : At(d, "store")' => req'[d].answer >= flushed'[i]
    BY DEF FlushSticks, Unambiguous
  <2>1. /\ Present(i) => cache[i].version >= flushed[i]
        /\ \A d \in Fills(i) : At(d, "store") => req[d].answer >= flushed[i]
    BY DEF FlushSticks
  <2>2. c \in Fills(i) => req'[c].answer >= flushed[i]
    <3> HAVE c \in Fills(i)
    <3>1. req[c].uri = u
      BY <1>1 DEF Fills, IdOf, Unambiguous, AnyAccept
    <3>2. flushed[i] <= version[u] /\ flushed[i] \in Nat /\ version[u] \in Nat
      BY DEF FlushedInv, AnyAccept, CacheTypes
    <3> QED BY <1>3, <3>1, <3>2
  <2> QED BY <1>1, <1>3, <1>6, <2>1, <2>2 DEF Present, At, Fills
<1> QED BY <1>4, <1>5, <1>7, <1>8, <1>9

\* A fill that begins takes away the claim of the writes that it disturbs.
LEMMA MissStep ==
    ASSUME CacheInv, NEW c \in Client, Miss(c) PROVE CacheInv'
<1> USE DEF CacheInv
<1>1. /\ At(c, "lookup") /\ req[c].uri \in Uri
      /\ req \in [Client -> Requests]
      /\ UNCHANGED <<version, cache, flushed>>
  BY DEF Miss, At, CacheTypes
<1>2. req' \in [Client -> Requests]
  <2>1. req' = [d \in Client |->
                  IF d = c THEN [req[c] EXCEPT !.pc = "upstream"]
                  ELSE IF req[c].useCache /\ d \in Writers(IdOf(c))
                  THEN [req[d] EXCEPT !.alone = FALSE]
                  ELSE req[d]]
    BY DEF Miss
  <2>2. [req[c] EXCEPT !.pc = "upstream"] \in Requests
    BY <1>1, FieldTypes, FieldUpdates, Zenon
  <2>3. ASSUME NEW d \in Client PROVE [req[d] EXCEPT !.alone = FALSE] \in Requests
    BY <1>1, FieldTypes, FieldUpdates, Zenon
  <2> QED BY <1>1, <2>1, <2>2, <2>3
<1>3. /\ req'[c].pc = "upstream"
      /\ \A d \in Client : /\ req'[d].uri = req[d].uri /\ req'[d].accept = req[d].accept
                           /\ req'[d].useCache = req[d].useCache
                           /\ req'[d].answer = req[d].answer
  BY <1>1 DEF Miss, Requests
<1>4. ASSUME NEW d \in Client, d # c
      PROVE  req'[d].pc = req[d].pc /\ (req'[d].alone => req[d].alone)
  BY <1>1, <1>4 DEF Miss, Requests
<1>5. ASSUME NEW d \in Client, d # c, At(d, "write"), req'[d].alone, req[c].useCache
      PROVE  IdOf(d) # IdOf(c)
  BY <1>1, <1>5 DEF Miss, Requests, Writers
<1>6. CacheTypes'
  BY <1>1, <1>2, <1>3, <1>4 DEF CacheTypes, At
<1>7. EntryInv'
  BY <1>1, <1>3, <1>4 DEF EntryInv, Present, At
<1>8. \A d \in Client : IdOf(d)' = IdOf(d)
  BY <1>3 DEF IdOf
<1>9. ASSUME NEW i
      PROVE  /\ Fills(i)' \subseteq Fills(i) \cup {c}
             /\ c \in Fills(i)' => req[c].useCache /\ IdOf(c) = i
  BY <1>3, <1>4, <1>8 DEF Fills
<1>10. AloneInv'
  BY <1>1, <1>3, <1>4, <1>5, <1>8, <1>9 DEF AloneInv, Present, At
<1>11. FlushedInv'
  BY <1>1 DEF FlushedInv, Unambiguous
<1>12. FlushSticks'
  BY <1>1, <1>3, <1>4, <1>9 DEF FlushSticks, Unambiguous, Present, At, Fills
<1> QED BY <1>6, <1>7, <1>10, <1>11, <1>12

\* What is stored is what was to be stored; whatever is evicted for it is gone.
LEMMA StoreStep ==
    ASSUME CacheInv, NEW c \in Client, Store(c) PROVE CacheInv'
<1> USE DEF CacheInv
<1> DEFINE i == IdOf(c)
           e == [uri |-> req[c].uri, accept |-> req[c].accept, version |-> req[c].answer]
<1>1. /\ At(c, "store") /\ req[c].useCache
      /\ req[c].uri \in Uri /\ req[c].accept \in AnyAccept
      /\ req[c].answer \in 0 .. version[req[c].uri]
      /\ req[c] \in Requests
      /\ UNCHANGED <<version, flushed>>
  BY DEF Store, At, CacheTypes, EntryInv, Requests
<1>2. i \in Id /\ c \in Fills(i)
  BY <1>1, IdType DEF IdOf, Fills, At
<1>3. Becomes(c, [req[c] EXCEPT !.pc = "done", !.xcache = "MISS"])
  BY Footprints
<1>4. /\ req'[c].pc = "done"
      /\ \A d \in Client : d # c => req'[d] = req[d]
      /\ req' \in [Client -> Requests]
  BY <1>1, <1>3 DEF Becomes, Requests
<1>5. /\ DOMAIN cache' = Id
      /\ cache'[i] = e
      /\ \A k \in Id : k # i => cache'[k] \in {cache[k], NoEntry}
      /\ cache' \in [Id -> [uri : UriOrNone, accept : AnyAccept, version : Answers]]
  <2>1. e \in [uri : UriOrNone, accept : AnyAccept, version : Answers]
    BY <1>1 DEF UriOrNone, Requests
  <2>2. NoEntry \in [uri : UriOrNone, accept : AnyAccept, version : Answers]
    BY DEF NoEntry, UriOrNone, AnyAccept, Answers
  <2>3. cache \in [Id -> [uri : UriOrNone, accept : AnyAccept, version : Answers]]
    BY DEF CacheTypes
  <2>4. \/ cache' = [cache EXCEPT ![i] = e]
        \/ \E k \in Id : cache' = [cache EXCEPT ![k] = NoEntry, ![i] = e]
    BY DEF Store
  <2> HIDE DEF e, i
  <2>5. CASE cache' = [cache EXCEPT ![i] = e]
    BY <1>2, <2>1, <2>3, <2>5
  <2>6. ASSUME NEW k \in Id, cache' = [cache EXCEPT ![k] = NoEntry, ![i] = e]
        PROVE  <1>5!:
    BY <1>2, <2>1, <2>2, <2>3, <2>6
  <2> QED BY <2>4, <2>5, <2>6
<1>6. ASSUME NEW k \in Id, k # i, Present(k)' PROVE cache'[k] = cache[k] /\ Present(k)
  BY <1>5, <1>6 DEF Present, NoEntry
<1>7. CacheTypes'
  BY <1>1, <1>4, <1>5 DEF CacheTypes
<1>8. EntryInv'
  <2>1. ASSUME NEW k \in Id, Present(k)'
        PROVE  /\ cache'[k].uri \in Uri
               /\ identifierForRequest(cache'[k].uri, cache'[k].accept) = k
               /\ cache'[k].version \in 0 .. version[cache'[k].uri]
    <3>1. CASE k = i
      BY <1>1, <1>5, <3>1 DEF IdOf
    <3>2. CASE k # i
      BY <1>6, <2>1, <3>2 DEF EntryInv
    <3> QED BY <3>1, <3>2
  <2>2. ASSUME NEW d \in Client, At(d, "store")'
        PROVE  req'[d].answer \in 0 .. version[req'[d].uri]
    BY <1>4, <2>2 DEF EntryInv, At
  <2> QED BY <1>1, <2>1, <2>2 DEF EntryInv
<1>9. \A k : Fills(k)' \subseteq Fills(k)
  BY <1>4 DEF Fills, IdOf
<1>10. AloneInv'
  <2> SUFFICES ASSUME NEW d \in Client, At(d, "write")', req'[d].alone
               PROVE  ~Present(IdOf(d))' /\ Fills(IdOf(d))' = {}
    BY DEF AloneInv
  <2>1. d # c /\ IdOf(d)' = IdOf(d) /\ At(d, "write") /\ req[d].alone
    BY <1>4 DEF At, IdOf
  <2>2. ~Present(IdOf(d)) /\ Fills(IdOf(d)) = {}
    BY <2>1 DEF AloneInv
  <2>3. IdOf(d) # i
    BY <1>2, <2>2
  <2>4. IdOf(d) \in Id
    BY <2>1, IdType DEF IdOf, At, CacheTypes, Requests
  <2> QED BY <1>6, <1>9, <2>1, <2>2, <2>3, <2>4 DEF Present
<1>11. FlushedInv'
  BY <1>1 DEF FlushedInv, Unambiguous
<1>12. FlushSticks'
  <2> SUFFICES ASSUME NEW k \in Id, NEW u \in Uri, NEW a \in Accept \cup {NoAccept},
                      k = identifierForRequest(u, a), Unambiguous(u, a)
               PROVE  /\ Present(k)' => cache'[k].version >= flushed'[k]
                      /\ \A d \in Fills(k)' : At(d, "store")' => req'[d].answer >= flushed'[k]
    BY DEF FlushSticks, Unambiguous
  <2>1. /\ Present(k) => cache[k].version >= flushed[k]
        /\ \A d \in Fills(k) : At(d, "store") => req[d].answer >= flushed[k]
    BY DEF FlushSticks
  <2>2. Present(k)' => cache'[k].version >= flushed'[k]
    <3>1. CASE k = i
      BY <1>1, <1>2, <1>5, <2>1, <3>1
    <3>2. CASE k # i
      BY <1>1, <1>6, <2>1, <3>2
    <3> QED BY <3>1, <3>2
  <2>3. \A d \in Fills(k)' : At(d, "store")' => req'[d].answer >= flushed'[k]
    BY <1>1, <1>4, <1>9, <2>1 DEF At, Fills
  <2> QED BY <2>2, <2>3
<1> QED BY <1>7, <1>8, <1>10, <1>11, <1>12

\* The purge of an unsafe request removes its entry; it counts as undisturbed only
\* if nobody was filling the entry at that time.
LEMMA PutStep ==
    ASSUME CacheInv, NEW c \in Client, NEW u \in Uri, NEW a \in AnyAccept, Put(c, u, a)
    PROVE  CacheInv'
<1> USE DEF CacheInv
<1> DEFINE i == identifierForRequest(u, a)
           l == AutoFlush /\ Fills(i) = {}
<1>1. i \in Id /\ UNCHANGED <<version, flushed>> /\ req[c].pc \in {"idle", "done"}
  BY IdType DEF Put
<1>2. Becomes(c, [Idle EXCEPT !.pc = "write", !.uri = u, !.accept = a, !.alone = l])
  BY Footprints
<1>3. /\ req'[c].pc = "write" /\ req'[c].uri = u /\ req'[c].accept = a /\ req'[c].alone = l
      /\ \A d \in Client : d # c => req'[d] = req[d]
      /\ req' \in [Client -> Requests]
  <2> HIDE DEF l
  <2> QED BY <1>2, IdleFields DEF Becomes, Requests
<1>4. /\ cache' \in [Id -> [uri : UriOrNone, accept : AnyAccept, version : Answers]]
      /\ \A k \in Id : Present(k)' => cache'[k] = cache[k] /\ Present(k)
      /\ AutoFlush => ~Present(i)'
  <2>1. NoEntry \in [uri : UriOrNone, accept : AnyAccept, version : Answers]
    BY DEF NoEntry, UriOrNone, AnyAccept, Answers
  <2>2. NoEntry.uri = NoUri
    BY DEF NoEntry
  <2>3. cache' = IF AutoFlush THEN [cache EXCEPT ![i] = NoEntry] ELSE cache
    BY DEF Put
  <2> QED BY <1>1, <2>1, <2>2, <2>3 DEF CacheTypes, Present
<1>5. CacheTypes'
  BY <1>1, <1>3, <1>4 DEF CacheTypes
<1>6. EntryInv'
  BY <1>1, <1>3, <1>4 DEF EntryInv, At
<1>7. \A k : Fills(k)' \subseteq Fills(k)
  BY <1>1, <1>3 DEF Fills, IdOf
<1>8. AloneInv'
  <2> SUFFICES ASSUME NEW d \in Client, At(d, "write")', req'[d].alone
               PROVE  ~Present(IdOf(d))' /\ Fills(IdOf(d))' = {}
    BY DEF AloneInv
  <2>1. CASE d = c
    BY <1>3, <1>4, <1>7, <2>1 DEF IdOf
  <2>2. CASE d # c
    <3>1. IdOf(d)' = IdOf(d) /\ At(d, "write") /\ req[d].alone
      BY <1>3, <2>2 DEF At, IdOf
    <3>2. ~Present(IdOf(d)) /\ Fills(IdOf(d)) = {} /\ IdOf(d) \in Id
      BY <3>1, IdType DEF AloneInv, IdOf, At, CacheTypes, Requests
    <3> QED BY <1>4, <1>7, <3>1, <3>2 DEF Present
  <2> QED BY <2>1, <2>2
<1>9. FlushedInv'
  BY <1>1 DEF FlushedInv, Unambiguous
<1>10. FlushSticks'
  <2> HIDE DEF i
  <2> QED BY <1>1, <1>3, <1>4, <1>7 DEF FlushSticks, Unambiguous, At, Fills
<1> QED BY <1>5, <1>6, <1>8, <1>9, <1>10

\* The upstream's write raises the version; the history follows it only if there
\* is neither an entry nor a fill that the new version makes old.
LEMMA WriteStep ==
    ASSUME CacheInv, NEW c \in Client, Write(c) PROVE CacheInv'
<1> USE DEF CacheInv
<1> DEFINE u == req[c].uri
           i == IdOf(c)
<1>1. /\ At(c, "write") /\ u \in Uri /\ req[c].accept \in AnyAccept
      /\ cache' = cache
      /\ version' = [version EXCEPT ![u] = version[u] + 1]
      /\ flushed' = IF req[c].alone THEN [flushed EXCEPT ![i] = version[u] + 1] ELSE flushed
  BY DEF Write, At, CacheTypes, Requests
<1>2. i \in Id /\ (req[c].alone => ~Present(i) /\ Fills(i) = {})
  BY <1>1, IdType DEF IdOf, AloneInv
<1>3. Becomes(c, [Idle EXCEPT !.pc = "done", !.xcache = "PURGED"])
  BY Footprints
<1>4. /\ req'[c].pc = "done"
      /\ \A d \in Client : d # c => req'[d] = req[d]
      /\ req' \in [Client -> Requests]
  BY <1>3, IdleFields DEF Becomes, Requests
<1>5. /\ version' \in [Uri -> Nat] /\ flushed' \in [Id -> Nat]
      /\ \A w \in Uri : version[w] \in Nat /\ version[w] <= version'[w]
      /\ version'[u] = version[u] + 1
      /\ \A k \in Id : flushed'[k] = flushed[k] \/ (req[c].alone /\ k = i)
      /\ req[c].alone => flushed'[i] = version[u] + 1
  <2> HIDE DEF i, u
  <2> QED BY <1>1, <1>2 DEF CacheTypes
<1>6. CacheTypes'
  BY <1>1, <1>4, <1>5 DEF CacheTypes
<1>7. EntryInv'
  <2>1. ASSUME NEW k \in Id, Present(k)'
        PROVE  /\ cache'[k].uri \in Uri
               /\ identifierForRequest(cache'[k].uri, cache'[k].accept) = k
               /\ cache'[k].version \in 0 .. version'[cache'[k].uri]
    <3>1. /\ cache[k].uri \in Uri
          /\ identifierForRequest(cache[k].uri, cache[k].accept) = k
          /\ cache[k].version \in 0 .. version[cache[k].uri]
      BY <1>1, <2>1 DEF EntryInv, Present
    <3> QED BY <1>1, <1>5, <3>1
  <2>2. ASSUME NEW d \in Client, At(d, "store")'
        PROVE  req'[d].answer \in 0 .. version'[req'[d].uri]
    <3>1. d # c /\ req'[d] = req[d] /\ At(d, "store")
      BY <1>4, <2>2 DEF At
    <3>2. req[d].uri \in Uri /\ req[d].answer \in 0 .. version[req[d].uri]
      BY <3>1 DEF EntryInv, At, CacheTypes
    <3> QED BY <1>5, <3>1, <3>2
  <2> QED BY <2>1, <2>2 DEF EntryInv
<1>8. \A k : Fills(k)' \subseteq Fills(k)
  BY <1>4 DEF Fills, IdOf
<1>9. AloneInv'
  BY <1>1, <1>4, <1>8 DEF AloneInv, Present, At, IdOf
<1>10. FlushedInv'
  <2> SUFFICES ASSUME NEW w \in Uri, NEW a \in AnyAccept, Unambiguous(w, a)
               PROVE  flushed'[identifierForRequest(w, a)] <= version'[w]
    BY DEF FlushedInv, Unambiguous
  <2> DEFINE k == identifierForRequest(w, a)
  <2>1. k \in Id /\ flushed[k] <= version[w] /\ flushed[k] \in Nat
    BY IdType DEF FlushedInv, CacheTypes
  <2>2. CASE flushed'[k] = flushed[k]
    BY <1>5, <2>1, <2>2
  <2>3. CASE req[c].alone /\ k = i
    <3>1. u = w
      BY <1>1, <2>3 DEF Unambiguous, IdOf, AnyAccept
    <3> QED BY <1>5, <2>3, <3>1
  <2> QED BY <1>5, <2>1, <2>2, <2>3
<1>11. FlushSticks'
  <2> SUFFICES ASSUME NEW k \in Id, NEW w \in Uri, NEW a \in Accept \cup {NoAccept},
                      k = identifierForRequest(w, a), Unambiguous(w, a)
               PROVE  /\ Present(k)' => cache'[k].version >= flushed'[k]
                      /\ \A d \in Fills(k)' : At(d, "store")' => req'[d].answer >= flushed'[k]
    BY DEF FlushSticks, Unambiguous
  <2>1. /\ Present(k) => cache[k].version >= flushed[k]
        /\ \A d \in Fills(k) : At(d, "store") => req[d].answer >= flushed[k]
    BY DEF FlushSticks
  <2>2. CASE flushed'[k] = flushed[k]
    BY <1>1, <1>4, <1>8, <2>1, <2>2 DEF Present, At, Fills
  <2>3. CASE req[c].alone /\ k = i
    BY <1>1, <1>2, <1>8, <2>3 DEF Present
  <2> QED BY <1>5, <2>2, <2>3
<1> QED BY <1>6, <1>7, <1>9, <1>10, <1>11

\* Every step of every request keeps the invariant.
LEMMA CacheStep == CacheInv /\ [Next]_vars => CacheInv'
<1> SUFFICES ASSUME CacheInv, [Next]_vars PROVE CacheInv'
  OBVIOUS
<1>0. CacheTypes
  BY DEF CacheInv
<1>1. ASSUME NEW c \in Client, NEW u \in Uri, NEW a \in AnyAccept, NEW b \in BOOLEAN,
             Get(c, u, a, b)
      PROVE  CacheInv'
  <2> DEFINE r == [Idle EXCEPT !.pc = "lookup", !.uri = u, !.accept = a, !.useCache = b]
  <2>1. Becomes(c, r) /\ UNCHANGED <<version, cache, flushed>>
    BY <1>0, <1>1, Footprints DEF Get
  <2>2. r.pc = "lookup" /\ r.uri = u
    BY IdleFields DEF Requests
  <2> HIDE DEF r
  <2> QED BY <2>1, <2>2, QuietStep
<1>2. ASSUME NEW c \in Client, Hit(c) PROVE CacheInv'
  <2> DEFINE r == [req[c] EXCEPT !.pc = "done", !.answer = cache[IdOf(c)].version,
                                 !.xcache = "HIT"]
  <2>1. Becomes(c, r) /\ UNCHANGED <<version, cache, flushed>>
    BY <1>0, <1>2, Footprints DEF Hit
  <2>2. r.pc = "done"
    BY <1>0 DEF CacheTypes, Requests
  <2> HIDE DEF r
  <2> QED BY <2>1, <2>2, QuietStep
<1>3. ASSUME NEW c \in Client, UpstreamError(c) PROVE CacheInv'
  <2> DEFINE r == [req[c] EXCEPT !.pc = "done", !.answer = -1, !.xcache = "PASS"]
  <2>1. Becomes(c, r) /\ UNCHANGED <<version, cache, flushed>>
    BY <1>0, <1>3, Footprints DEF UpstreamError
  <2>2. r.pc = "done"
    BY <1>0 DEF CacheTypes, Requests
  <2> HIDE DEF r
  <2> QED BY <2>1, <2>2, QuietStep
<1>4. ASSUME NEW c \in Client, Pass(c) PROVE CacheInv'
  <2> DEFINE r == [req[c] EXCEPT !.pc = "done", !.xcache = "PASS"]
  <2>1. Becomes(c, r) /\ UNCHANGED <<version, cache, flushed>>
    BY <1>0, <1>4, Footprints DEF Pass
  <2>2. r.pc = "done"
    BY <1>0 DEF CacheTypes, Requests
  <2> HIDE DEF r
  <2> QED BY <2>1, <2>2, QuietStep
<1>5. ASSUME NEW c \in Client, WriteError(c) PROVE CacheInv'
  <2> DEFINE r == [Idle EXCEPT !.pc = "done", !.xcache = "PURGED"]
  <2>1. Becomes(c, r) /\ UNCHANGED <<version, cache, flushed>>
    BY <1>0, <1>5, Footprints DEF WriteError
  <2>2. r.pc = "done"
    BY IdleFields DEF Requests
  <2> HIDE DEF r
  <2> QED BY <2>1, <2>2, QuietStep
<1>6. CASE UNCHANGED vars
  BY <1>6 DEF vars, CacheInv, CacheTypes, EntryInv, AloneInv, FlushedInv, FlushSticks,
     Unambiguous, Present, Fills, At, IdOf
<1> QED
  BY <1>1, <1>2, <1>3, <1>4, <1>5, <1>6, UpstreamStep, MissStep, StoreStep, PutStep, WriteStep
  DEF Next, AnyAccept

\* The cache is empty at first, and nothing has been flushed.
LEMMA CacheAlways == Spec => []CacheInv
<1>1. Init => CacheInv
  <2> SUFFICES ASSUME Init PROVE CacheInv
    OBVIOUS
  <2>1. NoEntry \in [uri : UriOrNone, accept : AnyAccept, version : Answers]
        /\ NoEntry.uri = NoUri
    BY DEF NoEntry, UriOrNone, AnyAccept, Answers
  <2>2. Idle.pc = "idle"
    BY DEF Idle
  <2>3. CacheTypes
    BY <2>1, <2>2, IdleFields DEF Init, CacheTypes
  <2>4. EntryInv /\ AloneInv
    BY <2>1, <2>2 DEF Init, EntryInv, AloneInv, Present, At, Id
  <2>5. FlushedInv
    BY IdType DEF Init, FlushedInv
  <2>6. FlushSticks
    BY <2>1, <2>2 DEF Init, FlushSticks, Present, Fills
  <2> QED BY <2>3, <2>4, <2>5, <2>6 DEF CacheInv
<1> QED BY <1>1, CacheStep, PTL DEF Spec

\* The cache only ever holds successful answers that the upstream gave to a request
\* with the identifier they are stored under.
THEOREM Genuine == Spec => []EntriesGenuine
<1>1. CacheInv => EntriesGenuine
  <2> SUFFICES ASSUME CacheInv, NEW i \in Id, NEW u \in Uri, NEW a \in Accept \cup {NoAccept},
                      Present(i), i = identifierForRequest(u, a), Unambiguous(u, a)
               PROVE  /\ cache[i].uri = u /\ cache[i].accept = a
                      /\ cache[i].version \in 0 .. version[u]
    BY DEF EntriesGenuine
  <2>1. /\ cache[i].uri \in Uri /\ cache[i].accept \in Accept \cup {NoAccept}
        /\ identifierForRequest(cache[i].uri, cache[i].accept) = i
        /\ cache[i].version \in 0 .. version[cache[i].uri]
    BY DEF CacheInv, CacheTypes, EntryInv, AnyAccept
  <2>2. cache[i].uri = u /\ cache[i].accept = a
    BY <2>1 DEF Unambiguous
  <2> QED BY <2>1, <2>2
<1> QED BY <1>1, CacheAlways, PTL

\* An unsafe request that no fill overlapped is never undone: nothing older than it
\* is stored, or about to be stored, under its identifier.
THEOREM FlushesStick == Spec => []FlushSticks
<1>1. CacheInv => FlushSticks
  BY DEF CacheInv
<1> QED BY <1>1, CacheAlways, PTL
=============================================================================
