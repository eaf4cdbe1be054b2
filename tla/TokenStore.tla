----------------------------- MODULE TokenStore -----------------------------
(***************************************************************************)
(* The token store of auth/tokenstore.go: access tokens and the JWTs they  *)
(* stand for, kept in a Redis shared by every gateway and in an LRU cache  *)
(* local to each gateway (CacheDecorator around RedisTokenStore).  Writers *)
(* are the admin API (SetToken, AddToken) and the login endpoint           *)
(* (AddToken); readers are the requests that carry a token (GetToken).     *)
(*                                                                         *)
(* One step is one command to Redis or one access to the LRU cache, so the *)
(* operations of several goroutines and gateways interleave between them.  *)
(* The absent JWT NoJwt plays the empty string: it is what HMGET on a      *)
(* missing key yields, so a missing key is a record whose jwt is NoJwt.    *)
(***************************************************************************)
EXTENDS Integers, FiniteSets

CONSTANTS
    Gateway,     \* gateway processes that share one Redis
    Proc,        \* request goroutines
    Home,        \* Home[p] is the gateway goroutine p runs in
    Token,       \* access tokens
    NoToken,     \* the argument of a goroutine that has no call in progress
    Jwt,         \* JWTs that clients and the provider present
    NoJwt,       \* the empty string
    Signed,      \* the JWTs whose signature the verification key accepts
    ExpiresAt,   \* the exp claim of each JWT, 0 when it has none
    App,         \* application names (and the pieces of such names)
    Blank,       \* the empty application name
    Pieces,      \* Pieces[a]: the parts of name a between its semicolons
    Provided,    \* the JWT responses handed to AddToken
    BucketSize,  \* capacity of the LRU cache
    MaxTime      \* bound on the clock

Response == [jwt : Jwt \cup {NoJwt}, apps : SUBSET App]
Hash == [jwt : Jwt \cup {NoJwt}, applications : SUBSET App, expireAt : Nat]
Absent == [jwt |-> NoJwt, apps |-> {}]
NoKey == [jwt |-> NoJwt, applications |-> {Blank}, expireAt |-> 0]

ASSUME ConstantsAssumption ==
    /\ Home \in [Proc -> Gateway]
    /\ NoToken \notin Token
    /\ NoJwt \notin Jwt
    /\ Signed \subseteq Jwt
    /\ ExpiresAt \in [Jwt -> Nat]
    /\ Blank \in App
    /\ Pieces \in [App -> SUBSET App]
    /\ Provided \subseteq [jwt : Jwt, apps : SUBSET App]
    /\ BucketSize \in Nat \ {0}
    /\ MaxTime \in Nat

VARIABLES
    now,        \* the clock, in seconds
    redis,      \* redis[t]: the hash under the key "token_" + t
    lru,        \* lru[g][t]: the CacheRecord of t in gateway g
    op,         \* op[p]: the call goroutine p is in
    used,       \* tokens that already exist; AddToken draws a fresh one
    \* history variables, read by properties only
    settled,    \* settled[t]: the last write of t, if it completed alone
    disturbed,  \* writers that overlapped another writer of their token
    inherited,  \* tokens whose last HMSET met a key that had a TTL
    faulted     \* tokens a writer of which died or failed before EXPIREAT

ghosts == <<settled, disturbed, inherited, faulted>>
vars == <<now, redis, lru, op, used, settled, disturbed, inherited, faulted>>

Idle == [pc |-> "idle", token |-> NoToken, resp |-> Absent]
Unsettled == [jwt |-> NoJwt, apps |-> {}, gw |-> NoToken]

Init ==
    /\ now = 0
    /\ redis = [t \in Token |-> NoKey]
    /\ lru = [g \in Gateway |-> [t \in Token |-> Absent]]
    /\ op = [p \in Proc |-> Idle]
    /\ used = {}
    /\ settled = [t \in Token |-> Unsettled]
    /\ disturbed = {}
    /\ inherited = {}
    /\ faulted = {}

(***************************************************************************)
(* Pure parts.                                                             *)
(***************************************************************************)

\* strings.Join(names, ";") as the set of parts between semicolons; joining
\* no names, like joining one blank name, is the empty string.
Join(names) == IF names = {} THEN {Blank} ELSE UNION {Pieces[a] : a \in names}

\* What GetToken reads back: no list for the empty string, else every part.
Split(joined) == IF joined = {Blank} THEN {} ELSE joined

Expirable(j) == ExpiresAt[j] > 0

\* JwtVerifier.VerifyToken: a good signature and an exp that is not past.
Valid(j, time) == j \in Signed /\ (Expirable(j) => time <= ExpiresAt[j])

Filled(g) == {t \in Token : lru[g][t].jwt # NoJwt}

\* Writers of t that have sent HMSET and have not returned yet.
InWrite(t) == {p \in Proc : op[p].token = t /\ op[p].pc \in {"expireat", "add"}}

At(p, pc) == op[p].pc = pc
Goto(p, pc) == op' = [op EXCEPT ![p].pc = pc]
Finish(p) == op' = [op EXCEPT ![p] = Idle]
Answer(p, r) ==
    op' = [op EXCEPT ![p] = [pc |-> "return", token |-> op[p].token, resp |-> r]]

(***************************************************************************)
(* Writers.                                                                *)
(***************************************************************************)

\* PUT /tokens/:token calls SetToken with the JWT of the request and no
\* application list.
CallSetToken(p, t, j) ==
    /\ At(p, "idle")
    /\ op' = [op EXCEPT ![p] = [pc |-> "verify", token |-> t,
                                resp |-> [jwt |-> j, apps |-> {}]]]
    /\ used' = used \cup {t}
    /\ UNCHANGED <<now, redis, lru, ghosts>>

\* POST /tokens and the login endpoint call AddToken, which draws a token of
\* 32 random bytes.
CallAddToken(p, t, r) ==
    /\ At(p, "idle")
    /\ t \notin used
    /\ op' = [op EXCEPT ![p] = [pc |-> "verify", token |-> t, resp |-> r]]
    /\ used' = used \cup {t}
    /\ UNCHANGED <<now, redis, lru, ghosts>>

\* Mutant: the JWT is written without being verified.
SetTokenUnverified(p) ==
    /\ At(p, "verify")
    /\ Goto(p, "hmset")
    /\ UNCHANGED <<now, redis, lru, used, ghosts>>

SetTokenVerify(p) ==
    /\ At(p, "verify")
    /\ Valid(op[p].resp.jwt, now)
    /\ Goto(p, "hmset")
    /\ UNCHANGED <<now, redis, lru, used, ghosts>>

\* The JWT is not valid, or the verification key could not be fetched.
SetTokenReject(p) ==
    /\ At(p, "verify")
    /\ Finish(p)
    /\ UNCHANGED <<now, redis, lru, used, ghosts>>

\* Mutant: the list of applications is not written.
WriteHashJwtOnly(p) ==
    redis' = [redis EXCEPT ![op[p].token].jwt = op[p].resp.jwt]

\* The effect of HMSET on Redis: three fields change, the TTL of the key stays.
WriteHash(p) ==
    LET t == op[p].token
    IN redis' = [redis EXCEPT ![t].jwt = op[p].resp.jwt,
                              ![t].applications = Join(op[p].resp.apps)]

\* What the histories keep of an HMSET by p on its token.
NoteHMSET(p) ==
    LET t == op[p].token
    IN /\ settled' = [settled EXCEPT ![t] = Unsettled]
       /\ inherited' = IF redis[t].expireAt > 0 THEN inherited \cup {t}
                       ELSE inherited \ {t}

\* Mutant: the expiry of the JWT is ignored.
SetTokenHMSETOnly(p) ==
    /\ At(p, "hmset")
    /\ WriteHash(p)
    /\ NoteHMSET(p)
    /\ Goto(p, "add")
    /\ disturbed' = LET others == InWrite(op[p].token)
                    IN IF others = {} THEN disturbed
                       ELSE disturbed \cup others \cup {p}
    /\ faulted' = faulted \ {op[p].token}
    /\ UNCHANGED <<now, lru, used>>

SetTokenHMSET(p) ==
    /\ At(p, "hmset")
    /\ WriteHash(p)
    /\ NoteHMSET(p)
    /\ Goto(p, IF Expirable(op[p].resp.jwt) THEN "expireat" ELSE "add")
    /\ disturbed' = LET others == InWrite(op[p].token)
                    IN IF others = {} THEN disturbed
                       ELSE disturbed \cup others \cup {p}
    /\ faulted' = faulted \ {op[p].token}
    /\ UNCHANGED <<now, lru, used>>

\* conn.Do returned an error: the command was lost, or only its reply was.
SetTokenHMSETError(p) ==
    /\ At(p, "hmset")
    /\ \/ UNCHANGED <<redis, ghosts>>
       \/ /\ WriteHash(p)
          /\ NoteHMSET(p)
          /\ disturbed' = disturbed \cup InWrite(op[p].token)
          /\ faulted' = faulted \cup {op[p].token}
    /\ Finish(p)
    /\ UNCHANGED <<now, lru, used>>

\* EXPIREAT sets the TTL of an existing key, and deletes the key when the time
\* given is not in the future.
ExpireKey(t, time) ==
    redis' = IF redis[t].jwt = NoJwt THEN redis
             ELSE IF time <= now THEN [redis EXCEPT ![t] = NoKey]
             ELSE [redis EXCEPT ![t].expireAt = time]

SetTokenEXPIREAT(p) ==
    /\ At(p, "expireat")
    /\ ExpireKey(op[p].token, ExpiresAt[op[p].resp.jwt])
    /\ Goto(p, "add")
    /\ UNCHANGED <<now, lru, used, ghosts>>

SetTokenEXPIREATError(p) ==
    /\ At(p, "expireat")
    /\ \/ UNCHANGED redis
       \/ ExpireKey(op[p].token, ExpiresAt[op[p].resp.jwt])
    /\ Finish(p)
    /\ faulted' = faulted \cup {op[p].token}
    /\ disturbed' = disturbed \ {p}
    /\ UNCHANGED <<now, lru, used, settled, inherited>>

\* Mutant: an entry that is already there is kept (ContainsOrAdd).
LocalCacheContainsOrAdd(p) ==
    LET t == op[p].token
        g == Home[p]
    IN /\ At(p, "add")
       /\ \/ lru[g][t].jwt # NoJwt /\ UNCHANGED lru
          \/ /\ lru[g][t].jwt = NoJwt
             /\ \E v \in Filled(g) \cup {t} :
                   lru' = [lru EXCEPT ![g] = [@ EXCEPT ![v] = Absent, ![t] = op[p].resp]]
       /\ Finish(p)
       /\ settled' = IF p \in disturbed THEN settled
                     ELSE [settled EXCEPT ![t] = [jwt |-> op[p].resp.jwt,
                                                  apps |-> op[p].resp.apps,
                                                  gw |-> g]]
       /\ disturbed' = disturbed \ {p}
       /\ UNCHANGED <<now, redis, used, inherited, faulted>>

\* localCache.Add of the CacheDecorator, and the return of the call.  A full
\* cache evicts an entry: the least recently used one, here any one.
LocalCacheAdd(p) ==
    LET t == op[p].token
        g == Home[p]
    IN /\ At(p, "add")
       /\ IF lru[g][t].jwt # NoJwt \/ Cardinality(Filled(g)) < BucketSize
          THEN lru' = [lru EXCEPT ![g][t] = op[p].resp]
          ELSE \E v \in Filled(g) :
                  lru' = [lru EXCEPT ![g] = [@ EXCEPT ![v] = Absent,
                                                      ![t] = op[p].resp]]
       /\ Finish(p)
       /\ settled' = IF p \in disturbed THEN settled
                     ELSE [settled EXCEPT ![t] = [jwt |-> op[p].resp.jwt,
                                                  apps |-> op[p].resp.apps,
                                                  gw |-> g]]
       /\ disturbed' = disturbed \ {p}
       /\ UNCHANGED <<now, redis, used, inherited, faulted>>

(***************************************************************************)
(* Readers.                                                                *)
(***************************************************************************)

CallGetToken(p, t) ==
    /\ At(p, "idle")
    /\ op' = [op EXCEPT ![p] = [pc |-> "get", token |-> t, resp |-> Absent]]
    /\ UNCHANGED <<now, redis, lru, used, ghosts>>

\* The lookup in the LRU cache: a hit is the answer, however old it is.
GetTokenLocal(p) ==
    LET hit == lru[Home[p]][op[p].token]
    IN /\ At(p, "get")
       /\ \/ hit.jwt # NoJwt /\ Answer(p, hit)
          \/ hit.jwt = NoJwt /\ Goto(p, "hmget")
       /\ UNCHANGED <<now, redis, lru, used, ghosts>>

\* Mutant: the answer of Redis is put into the local cache, whatever it is.
GetTokenHMGETCached(p) ==
    LET hash == redis[op[p].token]
    IN /\ At(p, "hmget")
       /\ op' = [op EXCEPT ![p] = [pc |-> "add", token |-> op[p].token,
                                   resp |-> [jwt |-> hash.jwt,
                                             apps |-> Split(hash.applications)]]]
       /\ UNCHANGED <<now, redis, lru, used, ghosts>>

\* HMGET: a missing key gives two empty strings, and no error.
GetTokenHMGET(p) ==
    LET hash == redis[op[p].token]
    IN /\ At(p, "hmget")
       /\ Answer(p, [jwt |-> hash.jwt, apps |-> Split(hash.applications)])
       /\ UNCHANGED <<now, redis, lru, used, ghosts>>

GetTokenHMGETError(p) ==
    /\ At(p, "hmget")
    /\ Finish(p)
    /\ UNCHANGED <<now, redis, lru, used, ghosts>>

GetTokenReturn(p) ==
    /\ At(p, "return")
    /\ Finish(p)
    /\ UNCHANGED <<now, redis, lru, used, ghosts>>

(***************************************************************************)
(* The environment: time, which makes Redis drop keys, and gateways that   *)
(* die and come back with an empty cache.                                  *)
(***************************************************************************)

Tick ==
    /\ now < MaxTime
    /\ now' = now + 1
    /\ redis' = [t \in Token |->
                    IF redis[t].expireAt > 0 /\ redis[t].expireAt <= now + 1
                    THEN NoKey ELSE redis[t]]
    /\ UNCHANGED <<lru, op, used, ghosts>>

Restart(g) ==
    /\ lru' = [lru EXCEPT ![g] = [t \in Token |-> Absent]]
    /\ op' = [p \in Proc |-> IF Home[p] = g THEN Idle ELSE op[p]]
    /\ faulted' = faulted \cup {t \in Token : \E p \in InWrite(t) :
                                     Home[p] = g /\ At(p, "expireat")}
    /\ disturbed' = {p \in disturbed : Home[p] # g}
    /\ UNCHANGED <<now, redis, used, settled, inherited>>

WriterStep(p) ==
    \/ SetTokenVerify(p) \/ SetTokenReject(p)
    \/ SetTokenHMSET(p) \/ SetTokenHMSETError(p)
    \/ SetTokenEXPIREAT(p) \/ SetTokenEXPIREATError(p)
    \/ LocalCacheAdd(p)

ReaderStep(p) ==
    \/ GetTokenLocal(p) \/ GetTokenHMGET(p) \/ GetTokenHMGETError(p)
    \/ GetTokenReturn(p)

Start(p) ==
    \/ \E t \in Token, j \in Jwt : CallSetToken(p, t, j)
    \/ \E t \in Token, r \in Provided : CallAddToken(p, t, r)
    \/ \E t \in Token : CallGetToken(p, t)

Next ==
    \/ \E p \in Proc : Start(p) \/ WriterStep(p) \/ ReaderStep(p)
    \/ Tick
    \/ \E g \in Gateway : Restart(g)

Spec == Init /\ [][Next]_vars

\* Goroutines keep running and the clock keeps ticking; calls, failures and
\* restarts need not happen.
Fairness ==
    /\ \A p \in Proc : WF_vars(WriterStep(p)) /\ WF_vars(ReaderStep(p))
    /\ WF_vars(Tick)

FairSpec == Spec /\ Fairness

(***************************************************************************)
(* Properties.                                                             *)
(***************************************************************************)

PCs == {"idle", "verify", "hmset", "expireat", "add", "get", "hmget", "return"}
Writing == {"verify", "hmset", "expireat", "add"}
Call == [pc : PCs, token : Token \cup {NoToken}, resp : Response]
Settlement == [jwt : Jwt \cup {NoJwt}, apps : SUBSET App,
               gw : Gateway \cup {NoToken}]

\* Types: in particular a goroutine inside a writer holds a token and a
\* nonempty JWT, and the LRU caches only hold JWTs somebody presented.
TypeOK ==
    /\ now \in 0 .. MaxTime
    /\ redis \in [Token -> Hash]
    /\ lru \in [Gateway -> [Token -> Response]]
    /\ op \in [Proc -> Call]
    /\ used \subseteq Token
    /\ settled \in [Token -> Settlement]
    /\ disturbed \subseteq Proc
    /\ inherited \subseteq Token
    /\ faulted \subseteq Token
    /\ \A p \in Proc : op[p].pc # "idle" => op[p].token \in Token
    /\ \A p \in Proc : op[p].pc \in Writing => op[p].resp.jwt \in Jwt

\* Whatever a reader is given is a JWT the verification key has accepted, or
\* nothing: SetToken verifies before it writes, on every path into Redis and
\* into an LRU cache.
VerifiedOnly ==
    \A p \in Proc : At(p, "return") => op[p].resp.jwt \in Signed \cup {NoJwt}

\* No expirable JWT stays in Redis for ever: its key has a TTL, or the writer
\* that will send EXPIREAT is still under way, or a writer of that token died
\* or failed between its two commands (which are not a transaction).
TtlOwed ==
    \A t \in Token :
        /\ redis[t].jwt # NoJwt
        /\ Expirable(redis[t].jwt)
        /\ redis[t].expireAt = 0
        => \/ t \in faulted
           \/ \E p \in InWrite(t) :
                 At(p, "expireat") /\ redis[t].jwt = op[p].resp.jwt

\* A JWT written to a key that had no TTL, by a writer that no other writer of
\* the token overlapped, stays in Redis with exactly its own expiry: SetToken
\* neither loses it early nor gives it the TTL of another JWT.
KeptUntilExpiry ==
    \A t \in Token :
        LET s == settled[t]
        IN (s.jwt # NoJwt /\ t \notin inherited
              /\ (Expirable(s.jwt) => now < ExpiresAt[s.jwt]))
           => redis[t] = [jwt |-> s.jwt, applications |-> Join(s.apps),
                          expireAt |-> ExpiresAt[s.jwt]]

Plain(names) == \A a \in names : a # Blank /\ Pieces[a] = {a}

\* Read your writes: once an undisturbed SetToken or AddToken has returned, a
\* GetToken on the same gateway answers with that JWT and with its application
\* list or with no JWT at all, whether the LRU cache still holds the entry, has
\* evicted it, or was lost in a restart.
ReadYourWrites ==
    [][\A p \in Proc :
          LET s == settled[op[p].token]
              r == op'[p].resp
          IN (op[p].pc \in {"get", "hmget"} /\ op'[p].pc = "return"
                /\ s.jwt # NoJwt /\ s.gw = Home[p] /\ r.jwt # NoJwt)
             => /\ r.jwt = s.jwt
                /\ Plain(s.apps) => r.apps = s.apps]_vars

\* Redis forgets: an expirable JWT eventually leaves its key, unless a writer
\* of the token died or failed before EXPIREAT.
RedisForgets ==
    \A t \in Token, j \in {i \in Jwt : Expirable(i)} :
        redis[t].jwt = j ~> (redis[t].jwt # j \/ t \in faulted)
=============================================================================
