---------------------------- MODULE ResponseCache ---------------------------
(***************************************************************************)
(* The in-memory response cache of cache/cache.go: DecorateHandler around  *)
(* the safe methods of an application and, when auto_flush is set,         *)
(* DecorateUnsafeHandler around the others.  A request is several steps:   *)
(* the cache access, the upstream's work and the store are apart, and the  *)
(* requests of several goroutines interleave between them.                 *)
(*                                                                         *)
(* The upstream service is external: each URI has a version that an unsafe *)
(* request increases; a safe request is answered with the version current  *)
(* when the upstream works on it, or with an error (status 400 and above). *)
(***************************************************************************)
EXTENDS Integers, Sequences, FiniteSets

CONSTANTS
    Client,      \* request goroutines
    Uri,         \* request URIs, each as the sequence of its parts between "_"
    Accept,      \* values of the Accept header
    NoAccept,    \* the request has no Accept header
    AutoFlush,   \* caching.auto_flush
    Capacity,    \* number of entries the cache holds
    MaxVersion   \* bound on the writes to one URI

ASSUME ConstantsAssumption ==
    /\ AutoFlush \in BOOLEAN
    /\ Capacity \in Nat \ {0}
    /\ MaxVersion \in Nat

\* identifierForRequest: the URI, and "_" and the Accept header if there is one.
identifierForRequest(uri, accept) ==
    IF accept = NoAccept THEN uri ELSE Append(uri, accept)

Id == {identifierForRequest(u, a) : u \in Uri, a \in Accept \cup {NoAccept}}

VARIABLES
    version,  \* version[u]: the state of the resource at the upstream
    cache,    \* cache[i]: the response stored under identifier i
    req,      \* req[c]: the request of goroutine c
    flushed   \* history: flushed[i] is the version that the last write with
              \* identifier i produced, if no fill of i overlapped that write

vars == <<version, cache, req, flushed>>

NoUri == <<>>
NoEntry == [uri |-> NoUri, accept |-> NoAccept, version |-> 0]
Present(i) == cache[i].uri # NoUri

Idle == [pc |-> "idle", uri |-> NoUri, accept |-> NoAccept, useCache |-> FALSE,
         alone |-> FALSE, answer |-> 0, xcache |-> "none"]

Init ==
    /\ version = [u \in Uri |-> 0]
    /\ cache = [i \in Id |-> NoEntry]
    /\ req = [c \in Client |-> Idle]
    /\ flushed = [i \in Id |-> 0]

At(c, pc) == req[c].pc = pc
IdOf(c) == identifierForRequest(req[c].uri, req[c].accept)

\* Requests that have missed identifier i, and may store a response under it.
Fills(i) == {c \in Client : req[c].pc \in {"upstream", "store"}
                              /\ req[c].useCache /\ IdOf(c) = i}

\* Writers of identifier i between their purge and the upstream's work.
Writers(i) == {c \in Client : At(c, "write") /\ IdOf(c) = i}

(***************************************************************************)
(* Safe requests (DecorateHandler).                                        *)
(***************************************************************************)

\* The request arrives; "Cache-Control: no-cache" makes useCache false.
Get(c, uri, accept, useCache) ==
    /\ req[c].pc \in {"idle", "done"}
    /\ req' = [req EXCEPT ![c] = [Idle EXCEPT !.pc = "lookup", !.uri = uri,
                                              !.accept = accept,
                                              !.useCache = useCache]]
    /\ UNCHANGED <<version, cache, flushed>>

Hit(c) ==
    LET e == cache[IdOf(c)]
    IN /\ At(c, "lookup")
       /\ req[c].useCache /\ Present(IdOf(c))
       /\ req' = [req EXCEPT ![c].pc = "done", ![c].answer = e.version,
                             ![c].xcache = "HIT"]
       /\ UNCHANGED <<version, cache, flushed>>

\* Not found, or not to be used.  A fill of an identifier disturbs the write
\* that is under way for it.
Miss(c) ==
    /\ At(c, "lookup")
    /\ ~req[c].useCache \/ ~Present(IdOf(c))
    /\ req' = [d \in Client |->
                 IF d = c THEN [req[c] EXCEPT !.pc = "upstream"]
                 ELSE IF req[c].useCache /\ d \in Writers(IdOf(c))
                 THEN [req[d] EXCEPT !.alone = FALSE]
                 ELSE req[d]]
    /\ UNCHANGED <<version, cache, flushed>>

\* Mutant: an error is stored like a success.
UpstreamErrorStored(c) ==
    /\ At(c, "upstream")
    /\ req' = [req EXCEPT ![c].pc = "store", ![c].answer = -1]
    /\ UNCHANGED <<version, cache, flushed>>

\* handler(buf, req, params); an error status turns useCache off.
Upstream(c) ==
    /\ At(c, "upstream")
    /\ req' = [req EXCEPT ![c].pc = "store", ![c].answer = version[req[c].uri]]
    /\ UNCHANGED <<version, cache, flushed>>

UpstreamError(c) ==
    /\ At(c, "upstream")
    /\ req' = [req EXCEPT ![c].pc = "done", ![c].answer = -1, ![c].xcache = "PASS"]
    /\ UNCHANGED <<version, cache, flushed>>

\* cache.Set; a full cache evicts its least recently used entry, here any one.
Store(c) ==
    LET i == IdOf(c)
        e == [uri |-> req[c].uri, accept |-> req[c].accept,
              version |-> req[c].answer]
        full == {k \in Id : Present(k)}
    IN /\ At(c, "store") /\ req[c].useCache
       /\ IF i \in full \/ Cardinality(full) < Capacity
          THEN cache' = [cache EXCEPT ![i] = e]
          ELSE \E k \in full : cache' = [cache EXCEPT ![k] = NoEntry, ![i] = e]
       /\ req' = [req EXCEPT ![c].pc = "done", ![c].xcache = "MISS"]
       /\ UNCHANGED <<version, flushed>>

Pass(c) ==
    /\ At(c, "store") /\ ~req[c].useCache
    /\ req' = [req EXCEPT ![c].pc = "done", ![c].xcache = "PASS"]
    /\ UNCHANGED <<version, cache, flushed>>

(***************************************************************************)
(* Unsafe requests (DecorateUnsafeHandler): the entry is removed before the *)
(* upstream is called.                                                     *)
(***************************************************************************)

\* Mutant: the entry is not removed.
PutUnflushed(c, uri, accept) ==
    LET i == identifierForRequest(uri, accept)
    IN /\ req[c].pc \in {"idle", "done"}
       /\ req' = [req EXCEPT ![c] = [Idle EXCEPT !.pc = "write", !.uri = uri,
                                                 !.accept = accept,
                                                 !.alone = AutoFlush /\ Fills(i) = {}]]
       /\ UNCHANGED <<version, cache, flushed>>

Put(c, uri, accept) ==
    LET i == identifierForRequest(uri, accept)
    IN /\ req[c].pc \in {"idle", "done"}
       /\ req' = [req EXCEPT ![c] = [Idle EXCEPT !.pc = "write", !.uri = uri,
                                                 !.accept = accept,
                                                 !.alone = AutoFlush /\ Fills(i) = {}]]
       /\ cache' = IF AutoFlush THEN [cache EXCEPT ![i] = NoEntry] ELSE cache
       /\ UNCHANGED <<version, flushed>>

Write(c) ==
    LET u == req[c].uri
    IN /\ At(c, "write")
       /\ version[u] < MaxVersion
       /\ version' = [version EXCEPT ![u] = @ + 1]
       /\ flushed' = IF req[c].alone
                     THEN [flushed EXCEPT ![IdOf(c)] = version[u] + 1] ELSE flushed
       /\ req' = [req EXCEPT ![c] = [Idle EXCEPT !.pc = "done", !.xcache = "PURGED"]]
       /\ UNCHANGED cache

WriteError(c) ==
    /\ At(c, "write")
    /\ req' = [req EXCEPT ![c] = [Idle EXCEPT !.pc = "done", !.xcache = "PURGED"]]
    /\ UNCHANGED <<version, cache, flushed>>

Next ==
    \E c \in Client :
        \/ \E u \in Uri, a \in Accept \cup {NoAccept} :
              Put(c, u, a) \/ \E b \in BOOLEAN : Get(c, u, a, b)
        \/ Hit(c) \/ Miss(c) \/ Upstream(c) \/ UpstreamError(c)
        \/ Store(c) \/ Pass(c) \/ Write(c) \/ WriteError(c)

Spec == Init /\ [][Next]_vars

(***************************************************************************)
(* Properties.                                                             *)
(***************************************************************************)

\* Only one combination of URI and Accept header has this identifier.
Unambiguous(uri, accept) ==
    \A u \in Uri, a \in Accept \cup {NoAccept} :
        identifierForRequest(u, a) = identifierForRequest(uri, accept)
        => u = uri /\ a = accept

\* The cache answers a request with a successful response the upstream once gave
\* to a request for the same URI with the same Accept header, never with an
\* error and never with one for another resource (as long as no "_" in a URI
\* makes two requests share an identifier).
EntriesGenuine ==
    \A i \in Id, u \in Uri, a \in Accept \cup {NoAccept} :
        (Present(i) /\ i = identifierForRequest(u, a) /\ Unambiguous(u, a))
        => /\ cache[i].uri = u /\ cache[i].accept = a
           /\ cache[i].version \in 0 .. version[u]

\* A flush sticks: after an unsafe request that no fill of the same identifier
\* overlapped, nothing older than what it wrote is in the cache under that
\* identifier, nor about to be stored there.
FlushSticks ==
    \A i \in Id, u \in Uri, a \in Accept \cup {NoAccept} :
        (i = identifierForRequest(u, a) /\ Unambiguous(u, a))
        => /\ Present(i) => cache[i].version >= flushed[i]
           /\ \A c \in Fills(i) : At(c, "store") => req[c].answer >= flushed[i]
=============================================================================
