--------------------------- MODULE Authentication ---------------------------
(***************************************************************************)
(* What happens to a request at the authentication decorator of one        *)
(* gateway: RestAuthDecorator.DecorateHandler (auth/rest.go), the token    *)
(* reader (auth/reader.go) and AuthenticationHandler.IsAuthenticated       *)
(* (auth/handler.go) with its cache of expiry times, expCache, which all   *)
(* requests share.                                                         *)
(*                                                                         *)
(* The code reads the clock several times for one request; every reading   *)
(* is a step of its own here, so time may pass between them.  The token    *)
(* store is external: it may answer a token with any response, with an     *)
(* empty JWT (unknown token) or with an error, and may change its mind.    *)
(* The verification key may be replaced at any time.                       *)
(***************************************************************************)
EXTENDS Integers, FiniteSetsExt

CONSTANTS
    Request,      \* request slots
    Token,        \* access tokens
    NoToken,      \* no credential found where one was looked for
    Jwt, NoJwt,   \* JWTs, and the empty string
    ExpiresAt,    \* the exp claim of each JWT, 0 when it has none
    KeyRing,      \* the sets of JWTs that the successive keys accept
    App,          \* application names
    Provider,     \* the applications that are the authentication provider
    Credentials,  \* the places a request may carry a token in, see below
    Stored,       \* the responses the token store may hold for a token
    MaxTime       \* bound on the clock

\* The Authorization header is missing, has a scheme other than Bearer, is the
\* bare word "Bearer", or carries a token.  The other sources, in the order the
\* reader tries them: the cookies ACCESSTOKEN and access_token, the headers
\* X-JWT and x-access-token, the query parameter access_token.
CredentialSet ==
    [authorization : {"none", "other", "bare"} \cup Token,
     sources : [1 .. 5 -> Token \cup {NoToken}]]

Response == [jwt : Jwt \cup {NoJwt}, apps : SUBSET App]
Absent == [jwt |-> NoJwt, apps |-> {}]

ASSUME ConstantsAssumption ==
    /\ NoToken \notin Token
    /\ NoJwt \notin Jwt
    /\ {"none", "other", "bare"} \cap Token = {}
    /\ ExpiresAt \in [Jwt -> Nat]
    /\ KeyRing \subseteq SUBSET Jwt
    /\ Provider \subseteq App
    /\ Credentials \subseteq CredentialSet
    /\ Stored \subseteq Response
    /\ MaxTime \in Nat

VARIABLES
    now,       \* the clock, in seconds
    key,       \* the JWTs that the current verification key accepts
    store,     \* store[t]: what the token store answers for t
    expCache,  \* expCache[j]: go-cache of expiry times, by JWT
    req,       \* req[r]: where request r is, and what it has found out
    accepted   \* history: the JWTs that a verification has accepted

vars == <<now, key, store, expCache, req, accepted>>

(***************************************************************************)
(* An entry holds an int64 or, for a JWT without exp, the untyped constant *)
(* 0, which is an int.  dies is the second in which go-cache drops it; 0   *)
(* is its own mark for an entry that is never dropped.                     *)
(***************************************************************************)
NoEntry == [kind |-> "none", val |-> 0, dies |-> 0]
Entry == [kind : {"none", "int", "int64"}, val : Nat, dies : Nat]

NoCredential == [authorization |-> "none", sources |-> [i \in 1 .. 5 |-> NoToken]]

Idle == [pc |-> "idle", options |-> FALSE, app |-> NoToken,
         cred |-> NoCredential, resp |-> Absent, exp |-> 0, at |-> 0,
         verdict |-> "none", status |-> "none"]

Init ==
    /\ now = 0
    /\ key \in KeyRing
    /\ store \in [Token -> Stored]
    /\ expCache = [j \in Jwt \cup {NoJwt} |-> NoEntry]
    /\ req = [r \in Request |-> Idle]
    /\ accepted = {}

\* tokenStringFromRequest: the token, NoToken, or "unsupported".
tokenStringFromRequest(c) ==
    LET named == {i \in 1 .. 5 : c.sources[i] # NoToken}
    IN CASE c.authorization \in Token  -> c.authorization
         [] c.authorization = "other" -> "unsupported"
         [] OTHER -> IF named = {} THEN NoToken ELSE c.sources[Min(named)]

\* JwtVerifier.VerifyToken with the key of the moment.
Verifies(j) == j \in key /\ (ExpiresAt[j] > 0 => now <= ExpiresAt[j])

At(r, pc) == req[r].pc = pc
Move(r, q) == req' = [req EXCEPT ![r] = q]

\* IsAuthenticated returns to DecorateHandler.
Returns(r, verdict) ==
    Move(r, [req[r] EXCEPT !.pc = "decide", !.verdict = verdict, !.exp = 0])

Done(r, status) == Move(r, [req[r] EXCEPT !.pc = "done", !.status = status])

(***************************************************************************)
(* The steps of one request.                                               *)
(***************************************************************************)

Arrive(r, app, cred) ==
    /\ req[r].pc \in {"idle", "done"}
    /\ Move(r, [Idle EXCEPT !.pc = "read", !.app = app, !.cred = cred])
    /\ UNCHANGED <<now, key, store, expCache, accepted>>

\* OPTIONS requests bypass authentication altogether.
ArriveOptions(r, app) ==
    /\ req[r].pc \in {"idle", "done"}
    /\ Move(r, [Idle EXCEPT !.pc = "done", !.options = TRUE, !.app = app,
                            !.status = "upstream"])
    /\ UNCHANGED <<now, key, store, expCache, accepted>>

\* TokenFromRequest without a token, with an unsupported scheme, or with an
\* error of the token store.
ReadNothing(r) ==
    /\ At(r, "read")
    /\ tokenStringFromRequest(req[r].cred) = NoToken
    /\ Returns(r, "no")
    /\ UNCHANGED <<now, key, store, expCache, accepted>>

ReadError(r) ==
    /\ At(r, "read")
    /\ tokenStringFromRequest(req[r].cred) # NoToken
    /\ Returns(r, "error")
    /\ UNCHANGED <<now, key, store, expCache, accepted>>

ReadToken(r) ==
    /\ At(r, "read")
    /\ \E t \in Token :
          /\ tokenStringFromRequest(req[r].cred) = t
          /\ Move(r, [req[r] EXCEPT !.pc = "lookup", !.resp = store[t]])
    /\ UNCHANGED <<now, key, store, expCache, accepted>>

\* expCache.Get: within the second in which an entry dies it may be found or not.
Miss(e) == e.kind = "none" \/ (e.dies > 0 /\ now >= e.dies)
Hit(e) == e.kind # "none" /\ (e.dies > 0 => now <= e.dies)

\* Mutant: a JWT that is not in the cache is taken to be verified.
LookupMissUnverified(r) ==
    /\ At(r, "lookup")
    /\ Miss(expCache[req[r].resp.jwt])
    /\ Move(r, [req[r] EXCEPT !.pc = "set"])
    /\ UNCHANGED <<now, key, store, expCache, accepted>>

LookupMiss(r) ==
    /\ At(r, "lookup")
    /\ Miss(expCache[req[r].resp.jwt])
    /\ Move(r, [req[r] EXCEPT !.pc = "verify"])
    /\ UNCHANGED <<now, key, store, expCache, accepted>>

LookupHit(r) ==
    LET e == expCache[req[r].resp.jwt]
    IN /\ At(r, "lookup")
       /\ Hit(e) /\ e.kind = "int64"
       /\ Move(r, [req[r] EXCEPT !.pc = "compare", !.exp = e.val])
       /\ UNCHANGED <<now, key, store, expCache, accepted>>

\* The type assertion exp.(int64) panics on an int; net/http recovers, and the
\* client is left without an answer.
LookupPanic(r) ==
    LET e == expCache[req[r].resp.jwt]
    IN /\ At(r, "lookup")
       /\ Hit(e) /\ e.kind = "int"
       /\ Done(r, "panic")
       /\ UNCHANGED <<now, key, store, expCache, accepted>>

\* Mutant: >= in place of >.
CompareOneMore(r) ==
    /\ At(r, "compare")
    /\ Move(r, [req[r] EXCEPT !.pc = "decide", !.exp = 0, !.at = now,
                              !.verdict = IF req[r].exp >= now THEN "ok" ELSE "no"])
    /\ UNCHANGED <<now, key, store, expCache, accepted>>

\* expiry > time.Now().Unix(), for the expiry found in the cache.
Compare(r) ==
    /\ At(r, "compare")
    /\ Move(r, [req[r] EXCEPT !.pc = "decide", !.exp = 0, !.at = now,
                              !.verdict = IF req[r].exp > now THEN "ok" ELSE "no"])
    /\ UNCHANGED <<now, key, store, expCache, accepted>>

\* Mutant: the 0 of a JWT without exp is stored as an int64.
VerifyForeverInt64(r) ==
    LET j == req[r].resp.jwt
    IN /\ At(r, "verify")
       /\ j \in Jwt /\ Verifies(j) /\ ExpiresAt[j] = 0
       /\ accepted' = accepted \cup {j}
       /\ expCache' = [expCache EXCEPT ![j] = [kind |-> "int64", val |-> 0, dies |-> 0]]
       /\ Returns(r, "ok")
       /\ UNCHANGED <<now, key, store>>

\* The JWT is valid and has no exp.
VerifyForever(r) ==
    LET j == req[r].resp.jwt
    IN /\ At(r, "verify")
       /\ j \in Jwt /\ Verifies(j) /\ ExpiresAt[j] = 0
       /\ accepted' = accepted \cup {j}
       /\ expCache' = [expCache EXCEPT ![j] = [kind |-> "int", val |-> 0, dies |-> 0]]
       /\ Returns(r, "ok")
       /\ UNCHANGED <<now, key, store>>

\* The JWT is valid and has an exp.
Verify(r) ==
    LET j == req[r].resp.jwt
    IN /\ At(r, "verify")
       /\ j \in Jwt /\ Verifies(j) /\ ExpiresAt[j] > 0
       /\ accepted' = accepted \cup {j}
       /\ Move(r, [req[r] EXCEPT !.pc = "expiry", !.exp = ExpiresAt[j]])
       /\ UNCHANGED <<now, key, store, expCache>>

\* The JWT is bad, empty, or the key could not be fetched.  VerifyToken wraps
\* its errors, so none of them is a *jwt.ValidationError and all are returned.
VerifyError(r) ==
    /\ At(r, "verify")
    /\ Returns(r, "error")
    /\ UNCHANGED <<now, key, store, expCache, accepted>>

\* stdClaims.ExpiresAt > time.Now().Unix()
CheckExpiry(r) ==
    /\ At(r, "expiry")
    /\ Move(r, IF req[r].exp > now
               THEN [req[r] EXCEPT !.pc = "set", !.at = now]
               ELSE [req[r] EXCEPT !.pc = "decide", !.at = now, !.verdict = "no"])
    /\ UNCHANGED <<now, key, store, expCache, accepted>>

\* Mutant: the entry is stored with the cache's default, no expiration.
SetExpiryDefault(r) ==
    /\ At(r, "set")
    /\ expCache' = [expCache EXCEPT ![req[r].resp.jwt] =
                       [kind |-> "int64", val |-> req[r].exp, dies |-> 0]]
    /\ Returns(r, "ok")
    /\ UNCHANGED <<now, key, store, accepted>>

\* expCache.Set with the clock read again: a duration that is no longer positive
\* makes an entry that is never dropped.
SetExpiry(r) ==
    /\ At(r, "set")
    /\ expCache' = [expCache EXCEPT ![req[r].resp.jwt] =
                       [kind |-> "int64", val |-> req[r].exp,
                        dies |-> IF req[r].exp > now THEN req[r].exp ELSE 0]]
    /\ Returns(r, "ok")
    /\ UNCHANGED <<now, key, store, accepted>>

Whitelisted(resp, app) == resp.apps = {} \/ app \in resp.apps

\* DecorateHandler after IsAuthenticated.
Decide(r) ==
    /\ At(r, "decide")
    /\ Done(r, CASE req[r].verdict = "error"    -> "503"
                 [] req[r].app \in Provider     -> "upstream"
                 [] req[r].verdict = "no"       -> "403"
                 [] OTHER -> IF Whitelisted(req[r].resp, req[r].app)
                             THEN "upstream" ELSE "403")
    /\ UNCHANGED <<now, key, store, expCache, accepted>>

(***************************************************************************)
(* The environment.                                                        *)
(***************************************************************************)

Tick ==
    /\ now < MaxTime
    /\ now' = now + 1
    /\ UNCHANGED <<key, store, expCache, req, accepted>>

ChangeStore(t, resp) ==
    /\ store[t] # resp
    /\ store' = [store EXCEPT ![t] = resp]
    /\ UNCHANGED <<now, key, expCache, req, accepted>>

ChangeKey(k) ==
    /\ key # k
    /\ key' = k
    /\ UNCHANGED <<now, store, expCache, req, accepted>>

Step(r) ==
    \/ ReadNothing(r) \/ ReadError(r) \/ ReadToken(r)
    \/ LookupMiss(r) \/ LookupHit(r) \/ LookupPanic(r) \/ Compare(r)
    \/ VerifyForever(r) \/ Verify(r) \/ VerifyError(r)
    \/ CheckExpiry(r) \/ SetExpiry(r) \/ Decide(r)

Next ==
    \/ \E r \in Request :
          \/ \E app \in App, cred \in Credentials : Arrive(r, app, cred)
          \/ \E app \in App : ArriveOptions(r, app)
          \/ Step(r)
    \/ Tick
    \/ \E t \in Token, resp \in Stored : ChangeStore(t, resp)
    \/ \E k \in KeyRing : ChangeKey(k)

Spec == Init /\ [][Next]_vars

(***************************************************************************)
(* Properties.                                                             *)
(***************************************************************************)

PCs == {"idle", "read", "lookup", "compare", "verify", "expiry", "set",
        "decide", "done"}

State ==
    [pc : PCs, options : BOOLEAN, app : App \cup {NoToken}, cred : CredentialSet,
     resp : Response, exp : Nat, at : Nat,
     verdict : {"none", "ok", "no", "error"},
     status : {"none", "upstream", "403", "503", "panic"}]

\* Types: in particular a request past the verification holds a nonempty JWT.
TypeOK ==
    /\ now \in 0 .. MaxTime
    /\ key \in KeyRing
    /\ store \in [Token -> Stored]
    /\ expCache \in [Jwt \cup {NoJwt} -> Entry]
    /\ req \in [Request -> State]
    /\ accepted \subseteq Jwt
    /\ \A r \in Request : req[r].pc \in {"expiry", "set"} => req[r].resp.jwt \in Jwt

\* A JWT that goes upstream, and so reaches a service and the request listeners
\* as authenticated, was accepted by a verification (of this request or, through
\* expCache, of an earlier one) and was not expired when this request's clock
\* reading compared it with its exp; unless the request is OPTIONS or the service
\* is the provider, such a JWT is there and admits the application.
Authorised ==
    \A r \in Request :
        LET q == req[r]
        IN (q.status = "upstream" /\ ~q.options)
           => /\ q.verdict = "ok" => /\ q.resp.jwt \in accepted
                                     /\ \/ ExpiresAt[q.resp.jwt] = 0
                                        \/ q.at < ExpiresAt[q.resp.jwt]
              /\ q.app \notin Provider => /\ q.verdict = "ok"
                                          /\ Whitelisted(q.resp, q.app)

\* A refusal has a cause: 403 means no token, an expired JWT or an application
\* the token is not meant for, whatever the other requests did to expCache.
RefusedForCause ==
    \A r \in Request :
        LET q == req[r]
        IN q.status = "403"
           => \/ tokenStringFromRequest(q.cred) = NoToken
              \/ ~Whitelisted(q.resp, q.app)
              \/ ExpiresAt[q.resp.jwt] \in 1 .. now

\* expCache agrees with the claims of the JWTs it is keyed by, only holds JWTs
\* that were verified, and the entries that go-cache will never drop are those
\* without exp and those of JWTs that have expired: an immortal entry never
\* keeps a JWT alive.
ExpCacheSound ==
    \A j \in Jwt \cup {NoJwt} :
        LET e == expCache[j]
        IN e.kind # "none"
           => /\ j \in accepted
              /\ e.val = ExpiresAt[j]
              /\ e.kind = "int" <=> ExpiresAt[j] = 0
              /\ e.dies = 0 => e.val <= now

\* A request with an API token is looked up and its JWT attached (README): no
\* request ends in a panic.
NoPanic == \A r \in Request : req[r].status # "panic"
=============================================================================
