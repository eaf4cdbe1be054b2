-------------------------- MODULE TokenStoreProofs --------------------------
(***************************************************************************)
(* Proofs about TokenStore, for every set of gateways, goroutines, tokens  *)
(* and JWTs and every bound.                                               *)
(***************************************************************************)
EXTENDS TokenListing, TokenStoreRefinement, TLAPS

(***************************************************************************)
(* Every JWT past SetTokenVerify is signed, wherever it has got to.        *)
(***************************************************************************)
VerifiedInv ==
    /\ \A t \in Token : redis[t].jwt \in Signed \cup {NoJwt}
    /\ \A g \in Gateway, t \in Token : lru[g][t].jwt \in Signed \cup {NoJwt}
    /\ \A p \in Proc : op[p].pc \in {"hmset", "expireat", "add"}
                          => op[p].resp.jwt \in Signed
    /\ VerifiedOnly

(***************************************************************************)
(* EXPIREAT is only sent for expirable JWTs, so it never leaves a key that *)
(* exists without a TTL.                                                   *)
(***************************************************************************)
TtlInv ==
    /\ TtlOwed
    /\ \A p \in Proc : At(p, "expireat") => Expirable(op[p].resp.jwt)

(***************************************************************************)
(* A writer nobody overlapped is the only one past HMSET, and Redis holds  *)
(* what it wrote; when it returns, that becomes the settled write, which   *)
(* no writer is working on and which the writer's gateway caches or not.   *)
(***************************************************************************)
InRedis(t, j, names) ==
    redis[t].jwt # NoJwt => redis[t].jwt = j /\ redis[t].applications = Join(names)

Stored(t, j, names, time) ==
    redis[t] = [jwt |-> j, applications |-> Join(names), expireAt |-> time]

Unexpired(j) == Expirable(j) => now < ExpiresAt[j]

AloneOK(p) ==
    LET t == op[p].token
        r == op[p].resp
    IN (op[p].pc \in {"expireat", "add"} /\ p \notin disturbed)
       => /\ settled[t].jwt = NoJwt
          /\ InWrite(t) = {p}
          /\ InRedis(t, r.jwt, r.apps)
          /\ (At(p, "expireat") /\ t \notin inherited)
                => Stored(t, r.jwt, r.apps, 0)
          /\ (At(p, "add") /\ t \notin inherited /\ Unexpired(r.jwt))
                => Stored(t, r.jwt, r.apps, ExpiresAt[r.jwt])

SettledOK(t) ==
    LET s == settled[t]
    IN s.jwt # NoJwt
       => /\ InWrite(t) = {}
          /\ s.gw \in Gateway
          /\ lru[s.gw][t].jwt # NoJwt
                => lru[s.gw][t] = [jwt |-> s.jwt, apps |-> s.apps]
          /\ InRedis(t, s.jwt, s.apps)
          /\ (t \notin inherited /\ Unexpired(s.jwt))
                => Stored(t, s.jwt, s.apps, ExpiresAt[s.jwt])

AloneInv == \A p \in Proc : AloneOK(p)
SettledInv == \A t \in Token : SettledOK(t)

(***************************************************************************)
(* The listing: what it still owes is yet to be read, or is the entry in   *)
(* the producer's hand.  A producer without an entry has sent it, one that *)
(* has ended has read every key, and nothing is owed to a handler that is  *)
(* not listing.                                                            *)
(***************************************************************************)
EntryOK == entry = Blanks \/ (entry.token \in Token /\ entry.jwt \in Signed)

OwedOK(t) ==
    /\ redis[t].jwt # NoJwt
    /\ t \in todo \/ entry = [token |-> t, jwt |-> redis[t].jwt]

ListInv ==
    /\ producer \in {"none", "hgetall", "send"}
    /\ consumer \in {"idle", "keys", "range", "encode", "stopped"}
    /\ todo \subseteq Token
    /\ owed \subseteq Token
    /\ EntryOK
    /\ producer # "send" => entry = Blanks
    /\ producer = "none" => todo = {}
    /\ consumer \in {"idle", "keys"} => producer = "none"
    /\ consumer \in {"idle", "keys", "stopped"} => owed = {}
    /\ \A t \in owed : OwedOK(t)

(***************************************************************************)
(* A missing key reads as an absent response.                              *)
(***************************************************************************)
MissingInv ==
    \A t \in Token : redis[t].jwt = NoJwt => redis[t].applications = {Blank}

\* The two forms of the absent JWT and the idle goroutine have their types.
LEMMA AbsentTypes ==
    /\ Absent \in Response
    /\ Idle \in Call
    /\ NoKey \in Hash
    /\ Unsettled \in Settlement
BY ConstantsAssumption DEF Absent, Response, Idle, Call, PCs, NoKey, Hash,
                           Unsettled, Settlement

\* Join yields a set of name pieces.
LEMMA JoinType == \A names \in SUBSET App : Join(names) \in SUBSET App
BY ConstantsAssumption DEF Join

\* Split yields a set of name pieces.
LEMMA SplitType == \A joined \in SUBSET App : Split(joined) \in SUBSET App
BY DEF Split

\* Names that are not blank and have no semicolon survive the way through
\* Redis: GetToken reads back the list that SetToken joined.
LEMMA SplitJoin ==
    \A names \in SUBSET App : Plain(names) => Split(Join(names)) = names
<1> SUFFICES ASSUME NEW names \in SUBSET App, Plain(names)
             PROVE  Split(Join(names)) = names
  OBVIOUS
<1>1. CASE names = {}
  BY <1>1 DEF Split, Join
<1>2. CASE names # {}
  <2>1. UNION {Pieces[a] : a \in names} = names
    BY DEF Plain
  <2>2. names # {Blank}
    BY <1>2 DEF Plain
  <2> QED BY <2>1, <2>2, <1>2 DEF Split, Join
<1> QED BY <1>1, <1>2

\* The state is well typed, and every goroutine inside a call holds the token
\* and the JWT it was called with.
THEOREM TypeCorrect == Spec => []TypeOK
<1>1. Init => TypeOK
  BY ConstantsAssumption, AbsentTypes DEF Init, TypeOK, Idle, PCs, Writing
<1>2. TypeOK /\ [Next]_vars => TypeOK'
  <2> SUFFICES ASSUME TypeOK, [Next]_vars PROVE TypeOK'
    OBVIOUS
  <2> USE DEF TypeOK, Call, Hash, Settlement
  <2>1. CASE UNCHANGED vars
    BY <2>1 DEF vars, At
  <2>2. ASSUME NEW p \in Proc, NEW t \in Token, NEW j \in Jwt, CallSetToken(p, t, j)
        PROVE  TypeOK'
    BY <2>2 DEF CallSetToken, At, PCs, Writing, Response, ghosts
  <2>3. ASSUME NEW p \in Proc, NEW t \in Token, NEW r \in Provided, CallAddToken(p, t, r)
        PROVE  TypeOK'
    BY <2>3, ConstantsAssumption DEF CallAddToken, At, PCs, Writing, Response, ghosts
  <2>4. ASSUME NEW p \in Proc, NEW t \in Token, CallGetToken(p, t)
        PROVE  TypeOK'
    BY <2>4, AbsentTypes DEF CallGetToken, At, PCs, Writing, ghosts
  <2>5. ASSUME NEW p \in Proc, SetTokenVerify(p) PROVE TypeOK'
    BY <2>5 DEF SetTokenVerify, At, Goto, PCs, Writing, ghosts
  <2>6. ASSUME NEW p \in Proc, SetTokenReject(p) PROVE TypeOK'
    BY <2>6, AbsentTypes DEF SetTokenReject, At, Finish, Idle, Writing, ghosts
  <2>7. ASSUME NEW p \in Proc, SetTokenHMSET(p) PROVE TypeOK'
    <3> USE <2>7 DEF SetTokenHMSET, At
    <3>1. /\ op[p].token \in Token
          /\ op[p].resp.jwt \in Jwt
          /\ Join(op[p].resp.apps) \in SUBSET App
      BY JoinType DEF Writing, Response
    <3>2. redis' \in [Token -> Hash]
      BY <3>1 DEF WriteHash
    <3>3. /\ settled' \in [Token -> Settlement]
          /\ disturbed' \subseteq Proc
          /\ inherited' \subseteq Token
          /\ faulted' \subseteq Token
      BY <3>1, AbsentTypes DEF NoteHMSET, InWrite
    <3>4. /\ op' \in [Proc -> Call]
          /\ \A q \in Proc : op'[q].pc # "idle" => op'[q].token \in Token
          /\ \A q \in Proc : op'[q].pc \in Writing => op'[q].resp.jwt \in Jwt
      BY <3>1 DEF Goto, PCs, Writing
    <3> QED BY <3>2, <3>3, <3>4
  <2>8. ASSUME NEW p \in Proc, SetTokenHMSETError(p) PROVE TypeOK'
    <3> USE <2>8 DEF SetTokenHMSETError, At
    <3>1. /\ op[p].token \in Token
          /\ op[p].resp.jwt \in Jwt
          /\ Join(op[p].resp.apps) \in SUBSET App
      BY JoinType DEF Writing, Response
    <3>2. redis' \in [Token -> Hash]
      BY <3>1 DEF WriteHash
    <3>3. /\ settled' \in [Token -> Settlement]
          /\ disturbed' \subseteq Proc
          /\ inherited' \subseteq Token
          /\ faulted' \subseteq Token
      BY <3>1, AbsentTypes DEF NoteHMSET, InWrite, ghosts
    <3>4. /\ op' \in [Proc -> Call]
          /\ \A q \in Proc : op'[q].pc # "idle" => op'[q].token \in Token
          /\ \A q \in Proc : op'[q].pc \in Writing => op'[q].resp.jwt \in Jwt
      BY AbsentTypes DEF Finish, Idle, Writing
    <3> QED BY <3>2, <3>3, <3>4
  <2>9. ASSUME NEW p \in Proc, SetTokenEXPIREAT(p) PROVE TypeOK'
    <3>1. op[p].token \in Token /\ ExpiresAt[op[p].resp.jwt] \in Nat
      BY <2>9, ConstantsAssumption DEF SetTokenEXPIREAT, At, Writing
    <3>2. redis' \in [Token -> Hash]
      BY <2>9, <3>1, AbsentTypes DEF SetTokenEXPIREAT, ExpireKey
    <3> QED BY <2>9, <3>2 DEF SetTokenEXPIREAT, At, Goto, PCs, Writing, ghosts
  <2>10. ASSUME NEW p \in Proc, SetTokenEXPIREATError(p) PROVE TypeOK'
    <3>1. op[p].token \in Token /\ ExpiresAt[op[p].resp.jwt] \in Nat
      BY <2>10, ConstantsAssumption DEF SetTokenEXPIREATError, At, Writing
    <3>2. redis' \in [Token -> Hash]
      <4>1. CASE UNCHANGED redis
        BY <4>1
      <4>2. CASE ExpireKey(op[p].token, ExpiresAt[op[p].resp.jwt])
        BY <3>1, <4>2, AbsentTypes DEF ExpireKey
      <4> QED BY <2>10, <4>1, <4>2 DEF SetTokenEXPIREATError
    <3> QED BY <2>10, <3>1, <3>2, AbsentTypes
            DEF SetTokenEXPIREATError, At, Finish, Idle, Writing
  <2>11. ASSUME NEW p \in Proc, LocalCacheAdd(p) PROVE TypeOK'
    <3>1. op[p].token \in Token /\ op[p].resp \in Response /\ Home[p] \in Gateway
      BY <2>11, ConstantsAssumption DEF LocalCacheAdd, At
    <3>2. lru' \in [Gateway -> [Token -> Response]]
      <4> DEFINE t == op[p].token
                 g == Home[p]
      <4>1. CASE lru' = [lru EXCEPT ![g][t] = op[p].resp]
        BY <3>1, <4>1
      <4>2. ASSUME NEW v \in Filled(g),
                   lru' = [lru EXCEPT ![g] = [@ EXCEPT ![v] = Absent, ![t] = op[p].resp]]
            PROVE  lru' \in [Gateway -> [Token -> Response]]
        <5>1. [lru[g] EXCEPT ![v] = Absent, ![t] = op[p].resp] \in [Token -> Response]
          BY <3>1, AbsentTypes
        <5> QED BY <3>1, <4>2, <5>1
      <4> QED BY <2>11, <4>1, <4>2 DEF LocalCacheAdd
    <3>3. settled' \in [Token -> Settlement]
      BY <2>11, <3>1 DEF LocalCacheAdd, Response
    <3> QED BY <2>11, <3>2, <3>3, AbsentTypes
            DEF LocalCacheAdd, At, Finish, Idle, Writing
  <2>12. ASSUME NEW p \in Proc, GetTokenLocal(p) PROVE TypeOK'
    <3>1. op[p].token \in Token /\ Home[p] \in Gateway
      BY <2>12, ConstantsAssumption DEF GetTokenLocal, At
    <3>2. lru[Home[p]][op[p].token] \in Response
      BY <3>1
    <3>3. CASE Answer(p, lru[Home[p]][op[p].token])
      BY <2>12, <3>1, <3>2, <3>3 DEF GetTokenLocal, Answer, PCs, Writing, ghosts
    <3>4. CASE Goto(p, "hmget")
      BY <2>12, <3>4 DEF GetTokenLocal, Goto, At, PCs, Writing, ghosts
    <3> QED BY <2>12, <3>3, <3>4 DEF GetTokenLocal
  <2>13. ASSUME NEW p \in Proc, GetTokenHMGET(p) PROVE TypeOK'
    <3>1. op[p].token \in Token
      BY <2>13 DEF GetTokenHMGET, At
    <3>2. [jwt |-> redis[op[p].token].jwt,
           apps |-> Split(redis[op[p].token].applications)] \in Response
      BY <3>1, SplitType DEF Response
    <3> QED BY <2>13, <3>1, <3>2 DEF GetTokenHMGET, Answer, PCs, Writing, ghosts
  <2>14. ASSUME NEW p \in Proc, GetTokenHMGETError(p) \/ GetTokenReturn(p)
         PROVE  TypeOK'
    <3>1. Finish(p) /\ UNCHANGED <<now, redis, lru, used, settled, disturbed, inherited, faulted>>
      BY <2>14 DEF GetTokenHMGETError, GetTokenReturn, ghosts
    <3> QED BY <3>1, AbsentTypes DEF Finish, Idle, Writing
  <2>15. CASE Tick
    BY <2>15, AbsentTypes, ConstantsAssumption DEF Tick, ghosts
  <2>16. ASSUME NEW g \in Gateway, Restart(g) PROVE TypeOK'
    BY <2>16, AbsentTypes DEF Restart, Idle, Writing
  <2> QED BY <2>1, <2>2, <2>3, <2>4, <2>5, <2>6, <2>7, <2>8, <2>9, <2>10, <2>11,
             <2>12, <2>13, <2>14, <2>15, <2>16
          DEF Next, Start, WriterStep, ReaderStep
<1> QED BY <1>1, <1>2, PTL DEF Spec

\* What SetToken verified is what reaches Redis, the LRU caches and the readers.
LEMMA VerifiedAlways == Spec => []VerifiedInv
<1>1. Init => VerifiedInv
  BY DEF Init, VerifiedInv, VerifiedOnly, NoKey, Absent, Idle, At
<1>2. TypeOK /\ VerifiedInv /\ [Next]_vars => VerifiedInv'
  <2> SUFFICES ASSUME TypeOK, VerifiedInv, [Next]_vars PROVE VerifiedInv'
    OBVIOUS
  <2> USE DEF TypeOK, VerifiedInv, VerifiedOnly, At
  <2>1. CASE UNCHANGED vars
    BY <2>1 DEF vars
  <2>2. ASSUME NEW p \in Proc, Start(p) PROVE VerifiedInv'
    BY <2>2 DEF Start, CallSetToken, CallAddToken, CallGetToken
  <2>3. ASSUME NEW p \in Proc, SetTokenVerify(p) PROVE VerifiedInv'
    BY <2>3 DEF SetTokenVerify, Valid, Goto, Call
  <2>4. ASSUME NEW p \in Proc, SetTokenHMSET(p) PROVE VerifiedInv'
    BY <2>4 DEF SetTokenHMSET, WriteHash, Goto, Writing, Hash, Call
  <2>5. ASSUME NEW p \in Proc, SetTokenHMSETError(p) PROVE VerifiedInv'
    BY <2>5 DEF SetTokenHMSETError, WriteHash, Finish, Idle, Writing, Hash
  <2>6. ASSUME NEW p \in Proc, SetTokenEXPIREAT(p) PROVE VerifiedInv'
    BY <2>6 DEF SetTokenEXPIREAT, ExpireKey, NoKey, Goto, Hash, Call
  <2>7. ASSUME NEW p \in Proc, SetTokenEXPIREATError(p) PROVE VerifiedInv'
    <3>1. \A t \in Token : redis'[t].jwt \in Signed \cup {NoJwt}
      <4>1. CASE UNCHANGED redis
        BY <4>1
      <4>2. CASE ExpireKey(op[p].token, ExpiresAt[op[p].resp.jwt])
        BY <4>2 DEF ExpireKey, NoKey, Hash
      <4> QED BY <2>7, <4>1, <4>2 DEF SetTokenEXPIREATError
    <3> QED BY <2>7, <3>1 DEF SetTokenEXPIREATError, Finish, Idle
  <2>8. ASSUME NEW p \in Proc, LocalCacheAdd(p) PROVE VerifiedInv'
    <3>1. \A g \in Gateway, t \in Token : lru'[g][t] \in {lru[g][t], Absent, op[p].resp}
      <4>1. CASE lru' = [lru EXCEPT ![Home[p]][op[p].token] = op[p].resp]
        BY <4>1
      <4>2. ASSUME NEW v \in Filled(Home[p]),
                   lru' = [lru EXCEPT ![Home[p]] = [@ EXCEPT ![v] = Absent,
                                                      ![op[p].token] = op[p].resp]]
            PROVE  \A g \in Gateway, t \in Token : lru'[g][t] \in {lru[g][t], Absent, op[p].resp}
        BY <4>2
      <4> QED BY <2>8, <4>1, <4>2 DEF LocalCacheAdd
    <3>2. Absent.jwt = NoJwt /\ op[p].resp.jwt \in Signed
      BY <2>8 DEF LocalCacheAdd, Absent
    <3>3. \A g \in Gateway, t \in Token : lru'[g][t].jwt \in Signed \cup {NoJwt}
      BY <3>1, <3>2
    <3> QED BY <2>8, <3>3 DEF LocalCacheAdd, Finish, Idle
  <2>9. ASSUME NEW p \in Proc, GetTokenLocal(p) PROVE VerifiedInv'
    <3>1. lru[Home[p]][op[p].token].jwt \in Signed \cup {NoJwt}
      BY <2>9, ConstantsAssumption DEF GetTokenLocal
    <3>2. CASE Answer(p, lru[Home[p]][op[p].token])
      BY <2>9, <3>1, <3>2 DEF GetTokenLocal, Answer
    <3>3. CASE Goto(p, "hmget")
      BY <2>9, <3>3 DEF GetTokenLocal, Goto, Call
    <3> QED BY <2>9, <3>2, <3>3 DEF GetTokenLocal
  <2>10. ASSUME NEW p \in Proc, GetTokenHMGET(p) PROVE VerifiedInv'
    BY <2>10 DEF GetTokenHMGET, Answer
  <2>11. ASSUME NEW p \in Proc,
                SetTokenReject(p) \/ GetTokenHMGETError(p) \/ GetTokenReturn(p)
         PROVE  VerifiedInv'
    <3>1. Finish(p) /\ UNCHANGED <<redis, lru>>
      BY <2>11 DEF SetTokenReject, GetTokenHMGETError, GetTokenReturn
    <3> QED BY <3>1 DEF Finish, Idle
  <2>12. CASE Tick
    BY <2>12 DEF Tick, NoKey
  <2>13. ASSUME NEW g \in Gateway, Restart(g) PROVE VerifiedInv'
    BY <2>13 DEF Restart, Idle, Absent
  <2> QED BY <2>1, <2>2, <2>3, <2>4, <2>5, <2>6, <2>7, <2>8, <2>9, <2>10, <2>11,
             <2>12, <2>13
          DEF Next, WriterStep, ReaderStep
<1> QED BY <1>1, <1>2, TypeCorrect, PTL DEF Spec

\* A reader is only ever given JWTs that the verification key accepted.
THEOREM Verified == Spec => []VerifiedOnly
<1>1. VerifiedInv => VerifiedOnly
  BY DEF VerifiedInv
<1> QED BY <1>1, VerifiedAlways, PTL

\* A TTL stays owed through every step until it is set.
LEMMA TtlStep == TypeOK /\ TtlInv /\ [Next]_vars => TtlInv'
<1> SUFFICES ASSUME TypeOK, TtlInv, [Next]_vars PROVE TtlInv'
  OBVIOUS
<1> USE DEF TypeOK, TtlInv, TtlOwed, At, InWrite, Expirable
<1>1. CASE UNCHANGED vars
  BY <1>1 DEF vars
<1>0. ASSUME NEW p \in Proc, ~At(p, "expireat"), op'[p].pc # "expireat",
             \A q \in Proc \ {p} : op'[q] = op[q], UNCHANGED <<redis, faulted>>
      PROVE  TtlInv'
  <2>1. \A q \in Proc : op'[q].pc = "expireat" => op'[q] = op[q]
    BY <1>0
  <2>2. \A q \in Proc : op[q].pc = "expireat" => op'[q] = op[q]
    BY <1>0
  <2>3. \A t \in Token : redis'[t] = redis[t] /\ (t \in faulted => t \in faulted')
    BY <1>0
  <2>4. TtlOwed'
    BY <2>2, <2>3
  <2> QED BY <2>1, <2>4
<1>2. ASSUME NEW p \in Proc, Start(p) PROVE TtlInv'
  <2>1. /\ At(p, "idle") /\ op'[p].pc \in {"verify", "get"}
        /\ \A q \in Proc \ {p} : op'[q] = op[q]
        /\ UNCHANGED <<redis, faulted>>
    BY <1>2 DEF Start, CallSetToken, CallAddToken, CallGetToken, ghosts
  <2> QED BY <1>0, <2>1
<1>3. ASSUME NEW p \in Proc, SetTokenVerify(p) PROVE TtlInv'
  BY <1>0, <1>3 DEF SetTokenVerify, Goto, Call, ghosts
<1>4. ASSUME NEW p \in Proc, SetTokenHMSET(p) PROVE TtlInv'
  BY <1>4 DEF SetTokenHMSET, WriteHash, NoteHMSET, Goto, Writing, Hash, Call
<1>5. ASSUME NEW p \in Proc, SetTokenHMSETError(p) PROVE TtlInv'
  <2>1. CASE UNCHANGED <<redis, ghosts>>
    BY <1>0, <1>5, <2>1 DEF SetTokenHMSETError, Finish, Idle, ghosts
  <2>2. CASE WriteHash(p) /\ faulted' = faulted \cup {op[p].token}
    <3>1. \A t \in Token \ {op[p].token} : redis'[t] = redis[t]
      BY <2>2 DEF WriteHash
    <3>2. op'[p].pc = "idle" /\ \A q \in Proc \ {p} : op'[q] = op[q]
      BY <1>5 DEF SetTokenHMSETError, Finish, Idle
    <3>3. ~At(p, "expireat")
      BY <1>5 DEF SetTokenHMSETError
    <3>4. TtlOwed'
      BY <2>2, <3>1, <3>2, <3>3
    <3> QED BY <3>2, <3>4
  <2> QED BY <1>5, <2>1, <2>2 DEF SetTokenHMSETError
<1>6. ASSUME NEW p \in Proc, SetTokenEXPIREAT(p) PROVE TtlInv'
  <2>1. \A t \in Token \ {op[p].token} : redis'[t] = redis[t]
    BY <1>6 DEF SetTokenEXPIREAT, ExpireKey
  <2>2. LET h == redis'[op[p].token] IN h.jwt = NoJwt \/ h.expireAt > 0
    BY <1>6 DEF SetTokenEXPIREAT, ExpireKey, NoKey, Hash
  <2>3. op'[p].pc = "add" /\ \A q \in Proc \ {p} : op'[q] = op[q]
    BY <1>6 DEF SetTokenEXPIREAT, Goto, Call
  <2>4. UNCHANGED faulted
    BY <1>6 DEF SetTokenEXPIREAT, ghosts
  <2>5. TtlOwed'
    BY <2>1, <2>2, <2>3, <2>4
  <2> QED BY <2>3, <2>5
<1>7. ASSUME NEW p \in Proc, SetTokenEXPIREATError(p) PROVE TtlInv'
  <2>1. \A t \in Token \ {op[p].token} : redis'[t] = redis[t]
    BY <1>7 DEF SetTokenEXPIREATError, ExpireKey
  <2>2. op[p].token \in faulted' /\ faulted \subseteq faulted'
    BY <1>7 DEF SetTokenEXPIREATError
  <2>3. op'[p].pc = "idle" /\ \A q \in Proc \ {p} : op'[q] = op[q]
    BY <1>7 DEF SetTokenEXPIREATError, Finish, Idle
  <2> QED BY <2>1, <2>2, <2>3
<1>8. ASSUME NEW p \in Proc, LocalCacheAdd(p) PROVE TtlInv'
  BY <1>0, <1>8 DEF LocalCacheAdd, Finish, Idle
<1>9. ASSUME NEW p \in Proc, GetTokenLocal(p) PROVE TtlInv'
  <2>1. op'[p].pc # "expireat" /\ \A q \in Proc \ {p} : op'[q] = op[q]
    BY <1>9 DEF GetTokenLocal, Answer, Goto, Call
  <2> QED BY <1>0, <1>9, <2>1 DEF GetTokenLocal, ghosts
<1>10. ASSUME NEW p \in Proc, GetTokenHMGET(p) PROVE TtlInv'
  BY <1>10 DEF GetTokenHMGET, Answer, ghosts
<1>11. ASSUME NEW p \in Proc,
              SetTokenReject(p) \/ GetTokenHMGETError(p) \/ GetTokenReturn(p)
       PROVE  TtlInv'
  <2>1. Finish(p) /\ UNCHANGED <<redis, faulted>> /\ ~At(p, "expireat")
    BY <1>11 DEF SetTokenReject, GetTokenHMGETError, GetTokenReturn, ghosts
  <2> QED BY <1>0, <2>1 DEF Finish, Idle
<1>12. CASE Tick
  BY <1>12 DEF Tick, NoKey, ghosts
<1>13. ASSUME NEW g \in Gateway, Restart(g) PROVE TtlInv'
  <2>1. \A p \in Proc : op'[p] = op[p] \/ (op'[p].pc = "idle" /\ Home[p] = g)
    BY <1>13 DEF Restart, Idle
  <2>2. \A p \in Proc : At(p, "expireat") /\ Home[p] = g => op[p].token \in faulted'
    BY <1>13 DEF Restart
  <2>3. UNCHANGED redis /\ faulted \subseteq faulted'
    BY <1>13 DEF Restart
  <2>4. \A p \in Proc : op'[p].pc = "expireat" => Expirable(op'[p].resp.jwt)
    BY <2>1
  <2>5. TtlOwed'
    BY <2>1, <2>2, <2>3
  <2> QED BY <2>4, <2>5
<1> QED BY <1>1, <1>2, <1>3, <1>4, <1>5, <1>6, <1>7, <1>8, <1>9, <1>10, <1>11,
           <1>12, <1>13
        DEF Next, WriterStep, ReaderStep

\* Every expirable JWT in Redis has a TTL, or has a writer about to set one, or
\* is the remains of a writer that failed between HMSET and EXPIREAT.
THEOREM TtlOwedAlways == Spec => []TtlOwed
<1>1. Init => TtlInv
  BY DEF Init, TtlInv, TtlOwed, NoKey, Idle, At
<1>2. TtlInv => TtlOwed
  BY DEF TtlInv
<1> QED BY <1>1, <1>2, TtlStep, TypeCorrect, PTL DEF Spec

\* The writers of a token do not change when the calls on it do not.
LEMMA InWriteFrame ==
    ASSUME NEW u,
           \A q \in Proc : (op'[q].token = u /\ op'[q].pc \in {"expireat", "add"})
                           <=> (op[q].token = u /\ op[q].pc \in {"expireat", "add"})
    PROVE  InWrite(u)' = InWrite(u)
BY DEF InWrite

\* A writer is as it was while nothing about its token changes.
LEMMA AloneFrame ==
    ASSUME NEW q \in Proc, AloneOK(q), op'[q] = op[q], now' = now,
           q \notin disturbed' => q \notin disturbed,
           q \notin disturbed' => InWrite(op[q].token)' = InWrite(op[q].token),
           q \notin disturbed' => redis'[op[q].token] = redis[op[q].token],
           q \notin disturbed' => settled'[op[q].token] = settled[op[q].token],
           q \notin disturbed' => (op[q].token \in inherited' <=> op[q].token \in inherited)
    PROVE  AloneOK(q)'
BY DEF AloneOK, InRedis, Stored, Unexpired, At

\* A settled write is as it was while nothing but the cache entries of its
\* token changes, and those are only dropped.
LEMMA SettledFrame ==
    ASSUME NEW t \in Token, SettledOK(t), now' = now, redis'[t] = redis[t],
           settled'[t] = settled[t], t \in inherited' <=> t \in inherited,
           InWrite(t)' \subseteq InWrite(t),
           \A g \in Gateway : lru'[g][t] \in {lru[g][t], Absent}
    PROVE  SettledOK(t)'
<1>1. Absent.jwt = NoJwt
  BY DEF Absent
<1>2. settled[t].jwt # NoJwt =>
        (lru'[settled[t].gw][t].jwt # NoJwt
           => lru'[settled[t].gw][t] = [jwt |-> settled[t].jwt, apps |-> settled[t].apps])
  BY <1>1 DEF SettledOK
<1> QED BY <1>2 DEF SettledOK, InRedis, Stored, Unexpired

\* What one step does to the writers that nobody overlapped and to the writes
\* that have settled.
LEMMA SettledStep ==
    TypeOK /\ TtlInv /\ AloneInv /\ SettledInv /\ [Next]_vars => (AloneInv /\ SettledInv)'
<1> SUFFICES ASSUME TypeOK, TtlInv, AloneInv, SettledInv, [Next]_vars
             PROVE  (AloneInv /\ SettledInv)'
  OBVIOUS
<1> DEFINE Past(q) == op[q].pc \in {"expireat", "add"}
<1> USE DEF TypeOK, AloneInv, SettledInv, At
<1>0. ASSUME NEW p \in Proc, ~Past(p), op'[p].pc \notin {"expireat", "add"},
             \A q \in Proc \ {p} : op'[q] = op[q],
             UNCHANGED <<now, redis, lru, settled, disturbed, inherited>>
      PROVE  (AloneInv /\ SettledInv)'
  <2>1. \A t : InWrite(t)' = InWrite(t)
    BY <1>0 DEF InWrite
  <2>2. AloneInv'
    <3>1. AloneOK(p)'
      BY <1>0 DEF AloneOK
    <3> QED BY <1>0, <2>1, <3>1, AloneFrame
  <2>3. SettledInv'
    BY <1>0, <2>1, SettledFrame
  <2> QED BY <2>2, <2>3
<1>1. CASE UNCHANGED vars
  <2>1. \A t : InWrite(t)' = InWrite(t)
    BY <1>1 DEF vars, InWrite
  <2>2. AloneInv'
    BY <1>1, <2>1, AloneFrame DEF vars
  <2>3. SettledInv'
    BY <1>1, <2>1, SettledFrame DEF vars
  <2> QED BY <2>2, <2>3
<1>2. ASSUME NEW p \in Proc, Start(p) PROVE (AloneInv /\ SettledInv)'
  <2>1. /\ At(p, "idle") /\ op'[p].pc \in {"verify", "get"}
        /\ \A q \in Proc \ {p} : op'[q] = op[q]
        /\ UNCHANGED <<now, redis, lru, settled, disturbed, inherited>>
    BY <1>2 DEF Start, CallSetToken, CallAddToken, CallGetToken, ghosts
  <2> QED BY <1>0, <2>1
<1>3. ASSUME NEW p \in Proc, SetTokenVerify(p) PROVE (AloneInv /\ SettledInv)'
  BY <1>0, <1>3 DEF SetTokenVerify, Goto, Call, ghosts
<1>4. ASSUME NEW p \in Proc,
             SetTokenReject(p) \/ GetTokenHMGETError(p) \/ GetTokenReturn(p)
      PROVE  (AloneInv /\ SettledInv)'
  <2>1. /\ ~Past(p) /\ Finish(p)
        /\ UNCHANGED <<now, redis, lru, settled, disturbed, inherited>>
    BY <1>4 DEF SetTokenReject, GetTokenHMGETError, GetTokenReturn, ghosts
  <2> QED BY <1>0, <2>1 DEF Finish, Idle
<1>5. ASSUME NEW p \in Proc, GetTokenLocal(p) \/ GetTokenHMGET(p)
      PROVE  (AloneInv /\ SettledInv)'
  <2>1. op'[p].pc \in {"return", "hmget"} /\ \A q \in Proc \ {p} : op'[q] = op[q]
    BY <1>5 DEF GetTokenLocal, GetTokenHMGET, Answer, Goto, Call
  <2>2. ~Past(p) /\ UNCHANGED <<now, redis, lru, settled, disturbed, inherited>>
    BY <1>5 DEF GetTokenLocal, GetTokenHMGET, ghosts
  <2> QED BY <1>0, <2>1, <2>2
<1>6. ASSUME NEW p \in Proc, SetTokenHMSET(p) PROVE (AloneInv /\ SettledInv)'
  <2>t. PICK t \in Token : t = op[p].token
    BY <1>6 DEF SetTokenHMSET
  <2>r. PICK r \in Response : r = op[p].resp
    BY DEF Call
  <2> USE <2>t, <2>r
  <2>1. t \in Token /\ r.jwt \in Jwt /\ r.jwt # NoJwt /\ ExpiresAt[r.jwt] \in Nat
    BY <1>6, ConstantsAssumption DEF SetTokenHMSET, Writing
  <2>2. /\ redis'[t] = [jwt |-> r.jwt, applications |-> Join(r.apps),
                        expireAt |-> redis[t].expireAt]
        /\ \A u \in Token \ {t} : redis'[u] = redis[u]
    BY <1>6, <2>1 DEF SetTokenHMSET, WriteHash, Hash
  <2>3. /\ settled'[t].jwt = NoJwt
        /\ \A u \in Token \ {t} : settled'[u] = settled[u]
        /\ \A u \in Token \ {t} : (u \in inherited') = (u \in inherited)
        /\ (t \notin inherited') => redis[t].expireAt = 0
    BY <1>6, <2>1 DEF SetTokenHMSET, NoteHMSET, Unsettled, Hash
  <2>4. /\ op'[p].token = t /\ op'[p].resp = r
        /\ op'[p].pc = IF Expirable(r.jwt) THEN "expireat" ELSE "add"
        /\ \A q \in Proc \ {p} : op'[q] = op[q]
        /\ UNCHANGED <<now, lru>>
    BY <1>6 DEF SetTokenHMSET, Goto, Call
  <2>5. /\ \A u \in Token \ {t} : InWrite(u)' = InWrite(u)
        /\ InWrite(t)' = InWrite(t) \cup {p}
    <3>1. op'[p].pc \in {"expireat", "add"} /\ ~Past(p)
      BY <1>6, <2>4 DEF SetTokenHMSET
    <3>2. \A u \in Token \ {t} : InWrite(u)' = InWrite(u)
      BY <2>4, InWriteFrame
    <3>3. InWrite(t)' = InWrite(t) \cup {p}
      BY <2>4, <3>1 DEF InWrite
    <3> QED BY <3>2, <3>3
  <2>6. /\ disturbed \subseteq disturbed' /\ InWrite(t) \subseteq disturbed'
        /\ InWrite(t) # {} => p \in disturbed'
    BY <1>6 DEF SetTokenHMSET
  <2>7. SettledInv'
    <3>1. SettledOK(t)'
      BY <2>3 DEF SettledOK
    <3> QED BY <2>2, <2>3, <2>4, <2>5, <3>1, SettledFrame
  <2>8. ASSUME NEW q \in Proc \ {p} PROVE AloneOK(q)'
    <3>1. CASE Past(q) /\ q \notin disturbed'
      <4>1. op[q].token \in Token \ {t} /\ q \notin disturbed
        BY <2>6, <3>1 DEF InWrite
      <4> QED BY <4>1, <2>2, <2>3, <2>4, <2>5, AloneFrame
    <3>2. CASE ~(Past(q) /\ q \notin disturbed')
      BY <2>4, <3>2 DEF AloneOK
    <3> QED BY <3>1, <3>2
  <2>9. AloneOK(p)'
    <3> SUFFICES ASSUME p \notin disturbed' PROVE AloneOK(p)'
      BY DEF AloneOK
    <3>1. InWrite(t)' = {p}
      BY <2>5, <2>6
    <3>2. op'[p].pc = "add" => ExpiresAt[r.jwt] = 0
      BY <2>1, <2>4 DEF Expirable
    <3>3. InRedis(t, r.jwt, r.apps)'
      BY <2>2 DEF InRedis
    <3>4. t \notin inherited' => Stored(t, r.jwt, r.apps, 0)'
      BY <2>2, <2>3 DEF Stored
    <3> QED BY <3>1, <3>2, <3>3, <3>4, <2>3, <2>4 DEF AloneOK
  <2>10. AloneInv'
    BY <2>8, <2>9
  <2> QED BY <2>7, <2>10
<1>7. ASSUME NEW p \in Proc, SetTokenHMSETError(p) PROVE (AloneInv /\ SettledInv)'
  <2>t. PICK t \in Token : t = op[p].token
    BY <1>7 DEF SetTokenHMSETError
  <2> USE <2>t
  <2>1. ~Past(p) /\ op'[p].pc = "idle" /\ \A q \in Proc \ {p} : op'[q] = op[q]
    BY <1>7 DEF SetTokenHMSETError, Finish, Idle
  <2>2. CASE UNCHANGED <<redis, ghosts>>
    BY <1>0, <1>7, <2>1, <2>2 DEF SetTokenHMSETError, ghosts
  <2>3. CASE WriteHash(p) /\ NoteHMSET(p) /\ disturbed' = disturbed \cup InWrite(t)
    <3>1. t \in Token
      BY <1>7 DEF SetTokenHMSETError
    <3>2. \A u \in Token \ {t} : redis'[u] = redis[u]
      BY <2>3, <3>1 DEF WriteHash
    <3>3. /\ settled'[t].jwt = NoJwt
          /\ \A u \in Token \ {t} : settled'[u] = settled[u]
          /\ \A u \in Token \ {t} : (u \in inherited') = (u \in inherited)
      BY <2>3, <3>1 DEF NoteHMSET, Unsettled
    <3>4. \A u \in Token : InWrite(u)' = InWrite(u)
      BY <2>1 DEF InWrite
    <3>5. UNCHANGED <<now, lru>>
      BY <1>7 DEF SetTokenHMSETError
    <3>6. SettledInv'
      <4>1. SettledOK(t)'
        BY <3>3 DEF SettledOK
      <4> QED BY <3>2, <3>3, <3>4, <3>5, <4>1, SettledFrame
    <3>7. ASSUME NEW q \in Proc PROVE AloneOK(q)'
      <4>1. CASE q # p /\ Past(q) /\ q \notin disturbed'
        <5>1. op[q].token \in Token \ {t} /\ q \notin disturbed
          BY <2>3, <4>1 DEF InWrite
        <5> QED BY <5>1, <2>1, <3>2, <3>3, <3>4, <3>5, <4>1, AloneFrame
      <4>2. CASE ~(q # p /\ Past(q) /\ q \notin disturbed')
        BY <2>1, <4>2 DEF AloneOK
      <4> QED BY <4>1, <4>2
    <3> QED BY <3>6, <3>7
  <2> QED BY <1>7, <2>2, <2>3 DEF SetTokenHMSETError
<1>8. ASSUME NEW p \in Proc, SetTokenEXPIREAT(p) PROVE (AloneInv /\ SettledInv)'
  <2>t. PICK t \in Token : t = op[p].token
    BY <1>8 DEF SetTokenEXPIREAT
  <2>r. PICK r \in Response : r = op[p].resp
    BY DEF Call
  <2> USE <2>t, <2>r
  <2>1. /\ t \in Token /\ r.jwt \in Jwt /\ r.jwt # NoJwt /\ ExpiresAt[r.jwt] \in Nat
        /\ p \in InWrite(t) /\ ExpiresAt[r.jwt] > 0
    BY <1>8, ConstantsAssumption
    DEF SetTokenEXPIREAT, Writing, InWrite, TtlInv, Expirable
  <2>2. \A u \in Token \ {t} : redis'[u] = redis[u]
    BY <1>8, <2>1 DEF SetTokenEXPIREAT, ExpireKey
  <2>3. redis'[t] = IF redis[t].jwt = NoJwt THEN redis[t]
                    ELSE IF ExpiresAt[r.jwt] <= now THEN NoKey
                    ELSE [redis[t] EXCEPT !.expireAt = ExpiresAt[r.jwt]]
    BY <1>8, <2>1 DEF SetTokenEXPIREAT, ExpireKey
  <2>4. /\ op'[p].token = t /\ op'[p].resp = r /\ op'[p].pc = "add"
        /\ \A q \in Proc \ {p} : op'[q] = op[q]
        /\ UNCHANGED <<now, lru, settled, disturbed, inherited>>
    BY <1>8 DEF SetTokenEXPIREAT, Goto, Call, ghosts
  <2>5. \A u : InWrite(u)' = InWrite(u)
    BY <1>8, <2>4 DEF InWrite, SetTokenEXPIREAT
  <2>6. settled[t].jwt = NoJwt
    BY <2>1 DEF SettledOK
  <2>7. SettledInv'
    <3>1. SettledOK(t)'
      BY <2>4, <2>6 DEF SettledOK
    <3> QED BY <2>2, <2>4, <2>5, <3>1, SettledFrame
  <2>8. ASSUME NEW q \in Proc \ {p} PROVE AloneOK(q)'
    <3>1. CASE Past(q) /\ q \notin disturbed
      <4>1. op[q].token \in Token \ {t}
        BY <2>1, <3>1 DEF AloneOK
      <4> QED BY <4>1, <2>2, <2>4, <2>5, AloneFrame
    <3>2. CASE ~(Past(q) /\ q \notin disturbed)
      BY <2>4, <3>2 DEF AloneOK
    <3> QED BY <3>1, <3>2
  <2>9. AloneOK(p)'
    <3> SUFFICES ASSUME p \notin disturbed PROVE AloneOK(p)'
      BY <2>4 DEF AloneOK
    <3>1. /\ InWrite(t) = {p}
          /\ InRedis(t, r.jwt, r.apps)
          /\ t \notin inherited => Stored(t, r.jwt, r.apps, 0)
      BY <1>8 DEF AloneOK, SetTokenEXPIREAT
    <3>2. InRedis(t, r.jwt, r.apps)'
      <4>1. redis[t] \in Hash
        BY <2>1
      <4>2. redis'[t].jwt # NoJwt => redis'[t].jwt = redis[t].jwt
                                       /\ redis'[t].applications = redis[t].applications
        BY <2>3, <4>1 DEF NoKey, Hash
      <4>3. redis'[t].jwt # NoJwt => redis[t].jwt # NoJwt
        BY <4>2
      <4> QED BY <4>2, <4>3, <3>1 DEF InRedis
    <3>3. ASSUME t \notin inherited, Unexpired(r.jwt)
          PROVE  Stored(t, r.jwt, r.apps, ExpiresAt[r.jwt])'
      BY <2>1, <2>3, <3>1, <3>3 DEF Expirable, Unexpired, Stored
    <3>4. Unexpired(r.jwt)' = Unexpired(r.jwt)
      BY <2>4 DEF Unexpired
    <3> QED BY <2>4, <2>5, <2>6, <3>1, <3>2, <3>3, <3>4 DEF AloneOK
  <2> QED BY <2>7, <2>8, <2>9
<1>9. ASSUME NEW p \in Proc, SetTokenEXPIREATError(p) PROVE (AloneInv /\ SettledInv)'
  <2>t. PICK t \in Token : t = op[p].token
    BY <1>9 DEF SetTokenEXPIREATError
  <2> USE <2>t
  <2>1. t \in Token /\ p \in InWrite(t)
    BY <1>9 DEF SetTokenEXPIREATError, InWrite
  <2>2. \A u \in Token \ {t} : redis'[u] = redis[u]
    BY <1>9, <2>1 DEF SetTokenEXPIREATError, ExpireKey
  <2>3. /\ op'[p].pc = "idle" /\ \A q \in Proc \ {p} : op'[q] = op[q]
        /\ disturbed' = disturbed \ {p}
        /\ UNCHANGED <<now, lru, settled, inherited>>
    BY <1>9 DEF SetTokenEXPIREATError, Finish, Idle
  <2>4. \A u \in Token \ {t} : InWrite(u)' = InWrite(u)
    BY <2>3, InWriteFrame
  <2>5. settled[t].jwt = NoJwt
    BY <2>1 DEF SettledOK
  <2>6. SettledInv'
    <3>1. SettledOK(t)'
      BY <2>3, <2>5 DEF SettledOK
    <3> QED BY <2>2, <2>3, <2>4, <3>1, SettledFrame
  <2>7. ASSUME NEW q \in Proc PROVE AloneOK(q)'
    <3>1. CASE q # p /\ Past(q) /\ q \notin disturbed
      <4>1. op[q].token \in Token \ {t}
        BY <2>1, <3>1 DEF AloneOK
      <4> QED BY <4>1, <2>2, <2>3, <2>4, <3>1, AloneFrame
    <3>2. CASE ~(q # p /\ Past(q) /\ q \notin disturbed)
      BY <2>3, <3>2 DEF AloneOK
    <3> QED BY <3>1, <3>2
  <2> QED BY <2>6, <2>7
<1>10. ASSUME NEW p \in Proc, LocalCacheAdd(p) PROVE (AloneInv /\ SettledInv)'
  <2>t. PICK t \in Token : t = op[p].token
    BY <1>10 DEF LocalCacheAdd
  <2>r. PICK r \in Response : r = op[p].resp
    BY DEF Call
  <2> USE <2>t, <2>r
  <2> DEFINE g == Home[p]
  <2>1. /\ t \in Token /\ p \in InWrite(t) /\ r \in Response /\ g \in Gateway
        /\ r = [jwt |-> r.jwt, apps |-> r.apps]
    BY <1>10, ConstantsAssumption DEF LocalCacheAdd, InWrite, Call, Response
  <2>2. /\ lru'[g][t] = r
        /\ \A h \in Gateway, u \in Token \ {t} : lru'[h][u] \in {lru[h][u], Absent}
    <3>1. CASE lru' = [lru EXCEPT ![g][t] = r]
      BY <2>1, <3>1
    <3>2. ASSUME NEW v \in Filled(g),
                 lru' = [lru EXCEPT ![g] = [@ EXCEPT ![v] = Absent, ![t] = r]]
          PROVE  /\ lru'[g][t] = r
                 /\ \A h \in Gateway, u \in Token \ {t} : lru'[h][u] \in {lru[h][u], Absent}
      BY <2>1, <3>2
    <3> QED BY <1>10, <3>1, <3>2 DEF LocalCacheAdd
  <2>3. /\ op'[p].pc = "idle" /\ \A q \in Proc \ {p} : op'[q] = op[q]
        /\ disturbed' = disturbed \ {p}
        /\ UNCHANGED <<now, redis, inherited>>
    BY <1>10 DEF LocalCacheAdd, Finish, Idle
  <2>4. /\ \A u \in Token \ {t} : InWrite(u)' = InWrite(u)
        /\ InWrite(t)' = InWrite(t) \ {p}
    <3>1. \A u \in Token \ {t} : InWrite(u)' = InWrite(u)
      BY <2>3, InWriteFrame
    <3>2. InWrite(t)' = InWrite(t) \ {p}
      BY <2>3 DEF InWrite
    <3> QED BY <3>1, <3>2
  <2>5. /\ \A u \in Token \ {t} : settled'[u] = settled[u]
        /\ settled'[t] = IF p \in disturbed THEN settled[t]
                         ELSE [jwt |-> r.jwt, apps |-> r.apps, gw |-> g]
    BY <1>10, <2>1 DEF LocalCacheAdd
  <2>6. settled[t].jwt = NoJwt
    BY <2>1 DEF SettledOK
  <2>7. SettledOK(t)'
    <3>1. CASE p \in disturbed
      BY <2>5, <2>6, <3>1 DEF SettledOK
    <3>2. CASE p \notin disturbed
      <4>1. /\ InWrite(t) = {p}
            /\ InRedis(t, r.jwt, r.apps)
            /\ (t \notin inherited /\ Unexpired(r.jwt))
                  => Stored(t, r.jwt, r.apps, ExpiresAt[r.jwt])
        BY <1>10, <3>2 DEF AloneOK, LocalCacheAdd
      <4>2. /\ InRedis(t, r.jwt, r.apps)'
            /\ (t \notin inherited' /\ Unexpired(r.jwt)')
                  => Stored(t, r.jwt, r.apps, ExpiresAt[r.jwt])'
        BY <2>3, <4>1 DEF InRedis, Stored, Unexpired
      <4>3. InWrite(t)' = {}
        BY <2>4, <4>1
      <4> QED BY <2>1, <2>2, <2>5, <3>2, <4>2, <4>3 DEF SettledOK
    <3> QED BY <3>1, <3>2
  <2>8. SettledInv'
    BY <2>2, <2>3, <2>4, <2>5, <2>7, SettledFrame
  <2>9. ASSUME NEW q \in Proc PROVE AloneOK(q)'
    <3>1. CASE q # p /\ Past(q) /\ q \notin disturbed
      <4>1. op[q].token \in Token \ {t}
        BY <2>1, <3>1 DEF AloneOK
      <4> QED BY <4>1, <2>3, <2>4, <2>5, <3>1, AloneFrame
    <3>2. CASE ~(q # p /\ Past(q) /\ q \notin disturbed)
      BY <2>3, <3>2 DEF AloneOK
    <3> QED BY <3>1, <3>2
  <2> QED BY <2>8, <2>9
<1>11. CASE Tick
  <2>1. /\ now' = now + 1
        /\ \A u \in Token : redis'[u] = IF redis[u].expireAt > 0 /\ redis[u].expireAt <= now + 1
                                        THEN NoKey ELSE redis[u]
        /\ UNCHANGED <<lru, op, settled, disturbed, inherited>>
    BY <1>11 DEF Tick, ghosts
  <2>2. \A u : InWrite(u)' = InWrite(u)
    BY <2>1 DEF InWrite
  <2>3. \A u \in Token, j \in Jwt : \A names : InRedis(u, j, names) => InRedis(u, j, names)'
    BY <2>1 DEF NoKey, InRedis
  <2>4. \A u \in Token, j \in Jwt : \A names : Stored(u, j, names, 0) => Stored(u, j, names, 0)'
    BY <2>1 DEF Stored
  <2>5. \A u \in Token, j \in Jwt : \A names :
           Unexpired(j)' /\ (Unexpired(j) => Stored(u, j, names, ExpiresAt[j]))
           => Stored(u, j, names, ExpiresAt[j])'
    BY <2>1, ConstantsAssumption DEF Expirable, Stored, Unexpired
  <2>6. SettledInv'
    <3>1. \A u \in Token : settled[u].jwt # NoJwt => settled[u].jwt \in Jwt
      BY DEF Settlement
    <3> QED BY <2>1, <2>2, <2>3, <2>5, <3>1 DEF SettledOK
  <2>7. AloneInv'
    <3>1. \A q \in Proc : Past(q) => op[q].resp.jwt \in Jwt /\ op[q].token \in Token
      BY DEF Writing
    <3> QED BY <2>1, <2>2, <2>3, <2>4, <2>5, <3>1 DEF AloneOK
  <2> QED BY <2>6, <2>7
<1>12. ASSUME NEW g \in Gateway, Restart(g) PROVE (AloneInv /\ SettledInv)'
  <2>1. /\ \A q \in Proc : op'[q] = IF Home[q] = g THEN Idle ELSE op[q]
        /\ disturbed' = {q \in disturbed : Home[q] # g}
        /\ \A h \in Gateway, u \in Token : lru'[h][u] \in {lru[h][u], Absent}
        /\ UNCHANGED <<now, redis, settled, inherited>>
    BY <1>12 DEF Restart
  <2>2. \A u : InWrite(u)' \subseteq InWrite(u)
    BY <2>1 DEF InWrite, Idle
  <2>3. ASSUME NEW q \in Proc PROVE AloneOK(q)'
    <3>1. CASE Home[q] # g /\ Past(q) /\ q \notin disturbed
      <4>1. InWrite(op[q].token) = {q}
        BY <3>1 DEF AloneOK
      <4>2. q \in InWrite(op[q].token)'
        BY <2>1, <3>1 DEF InWrite
      <4>3. InWrite(op[q].token)' = InWrite(op[q].token)
        BY <2>1, <2>2, <3>1, <4>1, <4>2
      <4> QED BY <2>1, <3>1, <4>3, AloneFrame
    <3>2. CASE ~(Home[q] # g /\ Past(q) /\ q \notin disturbed)
      BY <2>1, <3>2 DEF AloneOK, Idle
    <3> QED BY <3>1, <3>2
  <2>4. SettledInv'
    BY <2>1, <2>2, SettledFrame
  <2> QED BY <2>3, <2>4
<1> QED BY <1>1, <1>2, <1>3, <1>4, <1>5, <1>6, <1>7, <1>8, <1>9, <1>10, <1>11, <1>12
        DEF Next, WriterStep, ReaderStep

\* In every reachable state the types and both invariants hold.
LEMMA SettledAlways == Spec => [](TypeOK /\ AloneInv /\ SettledInv)
<1>1. Init => AloneInv /\ SettledInv
  BY DEF Init, AloneInv, AloneOK, SettledInv, SettledOK, Idle, Unsettled
<1>2. Init => TtlInv
  BY DEF Init, TtlInv, TtlOwed, NoKey, Idle, At
<1> QED BY <1>1, <1>2, TypeCorrect, TtlStep, SettledStep, PTL DEF Spec

\* A JWT written by a writer nobody overlapped, to a key that had no TTL, is in
\* Redis with exactly its own expiry until that expiry.
THEOREM Kept == Spec => []KeptUntilExpiry
<1>1. SettledInv => KeptUntilExpiry
  BY DEF SettledInv, SettledOK, KeptUntilExpiry, Stored, Unexpired
<1> QED BY <1>1, SettledAlways, PTL

\* After an undisturbed write has returned, the gateway that made it answers
\* with that JWT and its application list, or with no JWT.
THEOREM ReadsYourWrites == Spec => ReadYourWrites
<1> DEFINE Reads(p) ==
      LET s == settled[op[p].token]
          r == op'[p].resp
      IN (op[p].pc \in {"get", "hmget"} /\ op'[p].pc = "return"
            /\ s.jwt # NoJwt /\ s.gw = Home[p] /\ r.jwt # NoJwt)
         => /\ r.jwt = s.jwt
            /\ Plain(s.apps) => r.apps = s.apps
<1>1. ASSUME TypeOK, SettledInv, [Next]_vars, NEW p \in Proc PROVE Reads(p)
  <2> USE <1>1
  <2> SUFFICES ASSUME op[p].pc \in {"get", "hmget"}, op'[p].pc = "return"
               PROVE  Reads(p)
    OBVIOUS
  <2>1. GetTokenLocal(p) \/ GetTokenHMGET(p)
    <3>1. ~UNCHANGED vars
      BY DEF vars
    <3>2. ASSUME NEW q \in Proc, Start(q) \/ WriterStep(q) \/ ReaderStep(q), q # p
          PROVE  op'[p] = op[p]
      BY <3>2 DEF TypeOK, Start, CallSetToken, CallAddToken, CallGetToken, WriterStep,
           SetTokenVerify, SetTokenReject, SetTokenHMSET, SetTokenHMSETError,
           SetTokenEXPIREAT, SetTokenEXPIREATError, LocalCacheAdd, ReaderStep,
           GetTokenLocal, GetTokenHMGET, GetTokenHMGETError, GetTokenReturn,
           Goto, Finish, Answer
    <3>3. ~Start(p) /\ ~WriterStep(p) /\ ~GetTokenHMGETError(p) /\ ~GetTokenReturn(p)
      BY DEF TypeOK, Start, CallSetToken, CallAddToken, CallGetToken, WriterStep,
           SetTokenVerify, SetTokenReject, SetTokenHMSET, SetTokenHMSETError,
           SetTokenEXPIREAT, SetTokenEXPIREATError, LocalCacheAdd,
           GetTokenHMGETError, GetTokenReturn, At, Finish, Idle
    <3>4. ~Tick
      BY DEF Tick
    <3>5. \A g \in Gateway : ~Restart(g)
      BY DEF Restart, Idle
    <3> QED BY <3>1, <3>2, <3>3, <3>4, <3>5 DEF Next, ReaderStep
  <2> DEFINE t == op[p].token
             s == settled[t]
  <2> SUFFICES ASSUME s.jwt # NoJwt, s.gw = Home[p], op'[p].resp.jwt # NoJwt
               PROVE  /\ op'[p].resp.jwt = s.jwt
                      /\ Plain(s.apps) => op'[p].resp.apps = s.apps
    OBVIOUS
  <2>2. t \in Token /\ s.apps \in SUBSET App
    BY DEF TypeOK, Settlement
  <2>3. SettledOK(t)
    BY <2>2 DEF SettledInv
  <2>4. CASE GetTokenLocal(p)
    <3>1. op'[p].resp = lru[Home[p]][t] /\ lru[Home[p]][t].jwt # NoJwt
      BY <2>4 DEF GetTokenLocal, Answer, Goto, TypeOK, Call
    <3> QED BY <2>3, <3>1 DEF SettledOK
  <2>5. CASE GetTokenHMGET(p)
    <3>1. /\ op'[p].resp = [jwt |-> redis[t].jwt, apps |-> Split(redis[t].applications)]
          /\ redis[t].jwt # NoJwt
      BY <2>5 DEF GetTokenHMGET, Answer, TypeOK
    <3>2. redis[t].jwt = s.jwt /\ redis[t].applications = Join(s.apps)
      BY <2>3, <3>1 DEF SettledOK, InRedis
    <3> QED BY <2>2, <3>1, <3>2, SplitJoin
  <2> QED BY <2>1, <2>4, <2>5
<1>2. TypeOK /\ SettledInv /\ [Next]_vars => [\A p \in Proc : Reads(p)]_vars
  BY <1>1
<1> QED BY <1>2, SettledAlways, PTL DEF Spec, ReadYourWrites
\* No step of the store or of the listing loses what the listing owes.
LEMMA ListStep ==
    TypeOK /\ VerifiedInv /\ ListInv /\ [ListNext]_lvars => ListInv'
<1> SUFFICES ASSUME TypeOK, VerifiedInv, ListInv, [ListNext]_lvars PROVE ListInv'
  OBVIOUS
<1> USE DEF ListInv, EntryOK, OwedOK
<1>0. ASSUME NEW t \in Token, NEW j PROVE Blanks # [token |-> t, jwt |-> j]
  BY ConstantsAssumption DEF Blanks
<1>1. CASE UNCHANGED lvars
  BY <1>1 DEF lvars, vars, listing
<1>2. CASE StoreStep
  <2>1. UNCHANGED <<producer, consumer, todo, entry>> /\ owed' \subseteq owed
    BY <1>2 DEF StoreStep, listing
  <2>2. \A t \in owed' : redis'[t].jwt = redis[t].jwt
    BY <1>2 DEF StoreStep
  <2> QED BY <2>1, <2>2
<1>3. CASE GetTokens
  BY <1>3 DEF GetTokens, vars
<1>4. CASE ListKeys
  <2>1. todo' = Keys /\ owed' = Keys /\ UNCHANGED <<redis, entry>>
    BY <1>4 DEF ListKeys, vars
  <2>2. \A t \in Keys : t \in Token /\ redis[t].jwt # NoJwt
    BY DEF Keys
  <2> QED BY <1>4, <2>1, <2>2 DEF ListKeys
<1>5. CASE ListKeysError
  BY <1>5 DEF ListKeysError, vars
<1>6. ASSUME NEW t \in todo, HGetAll(t) PROVE ListInv'
  <2>1. /\ todo' = todo \ {t} /\ producer' = "send" /\ producer = "hgetall"
        /\ UNCHANGED <<redis, consumer, owed>>
    BY <1>6 DEF HGetAll, vars
  <2>2. t \in Token
    OBVIOUS
  <2>3. CASE redis[t].jwt = NoJwt
    <3>1. entry' = Blanks /\ t \notin owed
      BY <1>6, <2>3 DEF HGetAll
    <3> QED BY <2>1, <3>1
  <2>4. CASE redis[t].jwt # NoJwt
    <3>1. entry' = [token |-> t, jwt |-> redis[t].jwt]
      BY <1>6, <2>4 DEF HGetAll
    <3>2. redis[t].jwt \in Signed
      BY <2>2, <2>4 DEF VerifiedInv
    <3>3. \A u \in owed : u \in todo
      BY <2>1, <1>0
    <3>4. entry'.token = t /\ entry'.jwt = redis[t].jwt
      BY <3>1
    <3> QED BY <2>1, <2>2, <3>1, <3>2, <3>3, <3>4
  <2> QED BY <2>3, <2>4
<1>7. ASSUME NEW t \in todo, HGetAllError(t) PROVE ListInv'
  <2>1. /\ todo' = todo \ {t} /\ producer' = "send" /\ producer = "hgetall"
        /\ entry' = Blanks /\ owed' = owed \ {t} /\ UNCHANGED <<redis, consumer>>
    BY <1>7 DEF HGetAllError, vars
  <2>2. \A u \in owed : u \in todo
    BY <2>1, <1>0
  <2> QED BY <2>1, <2>2
<1>8. CASE Send
  <2>1. /\ entry' = Blanks /\ consumer' = "encode" /\ UNCHANGED <<redis, todo>>
        /\ producer' = IF todo = {} THEN "none" ELSE "hgetall"
        /\ owed' = {t \in owed : entry # [token |-> t, jwt |-> redis[t].jwt]}
    BY <1>8 DEF Send, vars
  <2> QED BY <2>1
<1>9. CASE Encode
  BY <1>9 DEF Encode, vars
<1>10. CASE EncodeError
  BY <1>10 DEF EncodeError, vars
<1>11. CASE Drained
  BY <1>11 DEF Drained, vars
<1> QED BY <1>1, <1>2, <1>3, <1>4, <1>5, <1>6, <1>7, <1>8, <1>9, <1>10, <1>11
        DEF ListNext, Produce, Consume

\* GET /tokens beside any writers and readers: every token that keeps its JWT
\* while the listing runs is in it when the closing bracket is written, and no
\* entry holds a JWT that was not verified.
THEOREM Listed == ListSpec => []ListingComplete
<1>1. ListInit => Init /\ ListInv
  BY DEF ListInit, ListInv, EntryOK, OwedOK
<1>2. [ListNext]_lvars => [Next]_vars
  BY DEF ListNext, StoreStep, GetTokens, Produce, HGetAll, HGetAllError, Send, Consume,
         ListKeys, ListKeysError, Encode, EncodeError, Drained, lvars
<1>3. ListSpec => Spec
  BY <1>1, <1>2, PTL DEF ListSpec, Spec
<1>4. ListInv => ListingComplete
  <2> SUFFICES ASSUME ListInv, consumer = "range", producer = "none" PROVE owed = {}
    BY DEF ListInv, EntryOK, ListingComplete
  <2>1. \A t \in owed : t \in Token /\ t \notin todo /\ entry = Blanks
    BY DEF ListInv
  <2> QED BY <2>1, ConstantsAssumption DEF ListInv, OwedOK, Blanks
<1> QED BY <1>1, <1>3, <1>4, ListStep, TypeCorrect, VerifiedAlways, PTL DEF ListSpec
\* Nothing but an expired or deleted key has the absent JWT.
LEMMA MissingAlways == Spec => []MissingInv
<1>1. Init => MissingInv
  BY DEF Init, MissingInv, NoKey
<1>2. TypeOK /\ MissingInv /\ [Next]_vars => MissingInv'
  <2> SUFFICES ASSUME TypeOK, MissingInv, [Next]_vars PROVE MissingInv'
    OBVIOUS
  <2> USE DEF TypeOK, MissingInv
  <2>1. ASSUME UNCHANGED redis PROVE MissingInv'
    BY <2>1
  <2>2. ASSUME NEW p \in Proc, op[p].pc = "hmset", WriteHash(p) PROVE MissingInv'
    BY <2>2, ConstantsAssumption DEF WriteHash, Writing, Hash, Response, Call
  <2>3. ASSUME NEW t \in Token, NEW time, ExpireKey(t, time) PROVE MissingInv'
    BY <2>3 DEF ExpireKey, NoKey, Hash
  <2>4. ASSUME Tick PROVE MissingInv'
    BY <2>4 DEF Tick, NoKey
  <2>5. CASE UNCHANGED vars
    BY <2>1, <2>5 DEF vars
  <2>6. ASSUME NEW p \in Proc, Start(p) PROVE MissingInv'
    BY <2>1, <2>6 DEF Start, CallSetToken, CallAddToken, CallGetToken
  <2>7. ASSUME NEW p \in Proc, WriterStep(p) PROVE MissingInv'
    <3>1. CASE SetTokenVerify(p) \/ SetTokenReject(p) \/ LocalCacheAdd(p)
      BY <2>1, <3>1 DEF SetTokenVerify, SetTokenReject, LocalCacheAdd
    <3>2. CASE SetTokenHMSET(p) \/ SetTokenHMSETError(p)
      BY <2>1, <2>2, <3>2 DEF SetTokenHMSET, SetTokenHMSETError, At
    <3>3. CASE SetTokenEXPIREAT(p) \/ SetTokenEXPIREATError(p)
      <4>1. op[p].token \in Token
        BY <3>3 DEF SetTokenEXPIREAT, SetTokenEXPIREATError, At
      <4> QED BY <2>1, <2>3, <3>3, <4>1 DEF SetTokenEXPIREAT, SetTokenEXPIREATError
    <3> QED BY <2>7, <3>1, <3>2, <3>3 DEF WriterStep
  <2>8. ASSUME NEW p \in Proc, ReaderStep(p) PROVE MissingInv'
    BY <2>1, <2>8 DEF ReaderStep, GetTokenLocal, GetTokenHMGET, GetTokenHMGETError,
         GetTokenReturn
  <2>9. ASSUME NEW g \in Gateway, Restart(g) PROVE MissingInv'
    BY <2>1, <2>9 DEF Restart
  <2> QED BY <2>4, <2>5, <2>6, <2>7, <2>8, <2>9 DEF Next
<1> QED BY <1>1, <1>2, TypeCorrect, PTL DEF Spec

\* What a call of the token store is to TokenMap.
LEMMA AbstractCall ==
    \A o \in Call :
        /\ o.pc \in {"hmset", "expireat", "add"}
              => Abstract(o) = [pc |-> "write", token |-> o.token, resp |-> o.resp]
        /\ o.pc \in {"get", "hmget"}
              => Abstract(o) = [pc |-> "read", token |-> o.token, resp |-> o.resp]
        /\ o.pc = "return"
              => Abstract(o) = [pc |-> "answered", token |-> o.token, resp |-> o.resp]
        /\ o.pc \in {"idle", "verify"} => Abstract(o) = Idle
<1> SUFFICES ASSUME NEW o \in Call PROVE
        /\ o.pc \in {"hmset", "expireat", "add"}
              => Abstract(o) = [pc |-> "write", token |-> o.token, resp |-> o.resp]
        /\ o.pc \in {"get", "hmget"}
              => Abstract(o) = [pc |-> "read", token |-> o.token, resp |-> o.resp]
        /\ o.pc = "return"
              => Abstract(o) = [pc |-> "answered", token |-> o.token, resp |-> o.resp]
        /\ o.pc \in {"idle", "verify"} => Abstract(o) = Idle
  OBVIOUS
<1>1. \A n : [o EXCEPT !.pc = n] = [pc |-> n, token |-> o.token, resp |-> o.resp]
  BY DEF Call
<1>2. CASE o.pc \in {"hmset", "expireat", "add"}
  BY <1>1, <1>2 DEF Abstract
<1>3. CASE o.pc \in {"get", "hmget"}
  BY <1>1, <1>3 DEF Abstract
<1>4. CASE o.pc = "return"
  BY <1>1, <1>4 DEF Abstract
<1>5. CASE o.pc \in {"idle", "verify"}
  BY <1>5 DEF Abstract
<1> QED BY <1>2, <1>3, <1>4, <1>5 DEF Call, PCs

\* The copies of a token after a step are copies it had, or copies the step
\* put into Redis or into an LRU cache.
LEMMA CopiesGrow ==
    ASSUME NEW t \in Token, NEW new,
           \/ redis'[t].jwt = NoJwt
           \/ /\ redis'[t].jwt = redis[t].jwt
              /\ redis'[t].applications = redis[t].applications
           \/ [jwt |-> redis'[t].jwt, apps |-> Split(redis'[t].applications)] \in new,
           \A g \in Gateway : \/ lru'[g][t].jwt = NoJwt
                              \/ lru'[g][t] = lru[g][t]
                              \/ lru'[g][t] \in new
    PROVE  Copies(t)' \subseteq Copies(t) \cup new
BY DEF Copies

\* The caller's step changes its own abstract call and no other.
LEMMA CallStep ==
    ASSUME NEW p \in Proc, op \in [Proc -> Call], NEW o, op' = [op EXCEPT ![p] = o]
    PROVE  [q \in Proc |-> Abstract(op[q])]'
              = [[q \in Proc |-> Abstract(op[q])] EXCEPT ![p] = Abstract(o)]
<1>1. \A q \in Proc : op'[q] = IF q = p THEN o ELSE op[q]
  OBVIOUS
<1> QED BY <1>1

\* A goroutine that goes on in its call keeps the token and the response.
LEMMA GotoStep ==
    ASSUME NEW p \in Proc, op \in [Proc -> Call], NEW pc, Goto(p, pc)
    PROVE  op' = [op EXCEPT ![p] = [pc |-> pc, token |-> op[p].token,
                                    resp |-> op[p].resp]]
<1>1. op[p] \in Call
  OBVIOUS
<1>2. [op[p] EXCEPT !.pc = pc] = [pc |-> pc, token |-> op[p].token, resp |-> op[p].resp]
  BY <1>1 DEF Call
<1>3. op' = [op EXCEPT ![p] = [op[p] EXCEPT !.pc = pc]]
  BY DEF Goto
<1> QED BY <1>2, <1>3

\* The token store starts as the empty map.
LEMMA MapInit == Init => Map!Init
<1> SUFFICES ASSUME Init PROVE Map!Init
  OBVIOUS
<1>1. \A t \in Token : Copies(t) = {}
  BY DEF Init, Copies, NoKey, Absent
<1>2. \A p \in Proc : Abstract(op[p]) = Idle
  BY AbstractCall, AbsentTypes DEF Init, Idle
<1> QED BY <1>1, <1>2 DEF Map!Init

\* Every step of the token store is a step of the map, or none.
LEMMA MapStep ==
    TypeOK /\ VerifiedInv /\ MissingInv /\ [Next]_vars => [Map!Next]_(Map!vars)
<1> SUFFICES ASSUME TypeOK, VerifiedInv, MissingInv, [Next]_vars
             PROVE  [Map!Next]_(Map!vars)
  OBVIOUS
<1> DEFINE held == [t \in Token |-> Copies(t)]
           call == [p \in Proc |-> Abstract(op[p])]
           Acceptable == [jwt : Signed, apps : SUBSET App]
           State(name, t, r) == [pc |-> name, token |-> t, resp |-> r]
<1>t. /\ op \in [Proc -> Call]
      /\ \A p \in Proc : op[p].pc # "idle" => op[p].token \in Token
      /\ \A p \in Proc : op[p].resp \in Response
  BY DEF TypeOK, Call
<1>h. ASSUME UNCHANGED <<redis, lru>> PROVE held' = held
  BY <1>h DEF Copies
<1>i. Abstract(Idle) = Idle
  BY AbstractCall, AbsentTypes DEF Idle
<1>f. ASSUME NEW p \in Proc, Finish(p) PROVE call' = [call EXCEPT ![p] = Idle]
  BY <1>f, <1>t, <1>i, CallStep DEF Finish
\* The steps of the map, in terms of Redis, the caches and the goroutines.
<1>accept. ASSUME NEW p \in Proc, NEW t \in Token, NEW r \in Acceptable,
                  call[p] = Idle, call' = [call EXCEPT ![p] = State("write", t, r)],
                  held' = held
           PROVE  Map!Next
  BY <1>accept DEF Map!Next, Map!Accept, Map!State
<1>write. ASSUME NEW p \in Proc, call[p].pc = "write",
                 \A t \in Token : Copies(t)' \subseteq Copies(t) \cup
                    (IF t = call[p].token THEN {call[p].resp, FromRedis(call[p].resp)}
                     ELSE {}),
                 call' = call \/ call' = [call EXCEPT ![p] = Idle]
          PROVE  Map!Next
  BY <1>write DEF Map!Next, Map!Write
<1>ask. ASSUME NEW p \in Proc, NEW t \in Token, call[p] = Idle,
               call' = [call EXCEPT ![p] = State("read", t, Absent)], held' = held
        PROVE  Map!Next
  BY <1>ask DEF Map!Next, Map!Ask, Map!State
<1>reply. ASSUME NEW p \in Proc, NEW r, call[p].pc = "read", call[p].token \in Token,
                 r \in Copies(call[p].token) \cup {Absent},
                 call' = [call EXCEPT ![p] = State("answered", call[p].token, r)],
                 held' = held
          PROVE  Map!Next
  <2>1. held[call[p].token] = Copies(call[p].token)
    BY <1>reply
  <2>2. r \in {Absent} \cup UNION {held[t] : t \in Token}
    BY <1>reply, <2>1
  <2>3. Map!Reply(p, r)
    BY <1>reply, <2>1 DEF Map!Reply, Map!State
  <2> HIDE DEF held, call
  <2> QED BY <2>2, <2>3 DEF Map!Next, held
<1>return. ASSUME NEW p \in Proc, call[p].pc \in {"read", "answered"},
                  call' = [call EXCEPT ![p] = Idle], held' = held
           PROVE  Map!Next
  BY <1>return DEF Map!Next, Map!Return
<1>forget. ASSUME NEW P \in SUBSET Proc,
                  \A t \in Token : Copies(t)' \subseteq Copies(t),
                  call' = [p \in Proc |-> IF p \in P THEN Idle ELSE call[p]]
           PROVE  Map!Next
  BY <1>forget DEF Map!Next, Map!Forget, Map!OnlyForgets
<1>stutter. ASSUME call' = call, held' = held PROVE UNCHANGED Map!vars
  BY <1>stutter DEF Map!vars
\* Writers.
<1>1. CASE UNCHANGED vars
  BY <1>1, <1>h, <1>stutter DEF vars
<1>2. ASSUME NEW p \in Proc, Start(p) PROVE [Map!Next]_(Map!vars)
  <2>1. At(p, "idle") /\ call[p] = Idle /\ held' = held
    BY <1>2, <1>t, <1>h, AbstractCall
       DEF Start, CallSetToken, CallAddToken, CallGetToken, At
  <2>2. CASE \E t \in Token : CallGetToken(p, t)
    <3>1. PICK t \in Token : CallGetToken(p, t)
      BY <2>2
    <3> DEFINE o == [pc |-> "get", token |-> t, resp |-> Absent]
    <3>2. o \in Call /\ Abstract(o) = State("read", t, Absent)
      BY AbstractCall, AbsentTypes DEF Call, PCs
    <3>3. call' = [call EXCEPT ![p] = State("read", t, Absent)]
      BY <1>t, <3>1, <3>2, CallStep DEF CallGetToken
    <3> QED BY <1>ask, <2>1, <3>3
  <2>3. CASE ~\E t \in Token : CallGetToken(p, t)
    <3>1. PICK t \in Token, r \in Response :
             op' = [op EXCEPT ![p] = [pc |-> "verify", token |-> t, resp |-> r]]
      <4>1. \A j \in Jwt : [jwt |-> j, apps |-> {}] \in Response
        BY DEF Response
      <4>2. Provided \subseteq Response
        BY ConstantsAssumption DEF Response
      <4> QED BY <1>2, <2>3, <4>1, <4>2 DEF Start, CallSetToken, CallAddToken
    <3> DEFINE o == [pc |-> "verify", token |-> t, resp |-> r]
    <3>2. o \in Call /\ Abstract(o) = Idle
      BY AbstractCall DEF Call, PCs
    <3>3. call' = call
      BY <1>t, <2>1, <3>1, <3>2, CallStep
    <3> QED BY <1>stutter, <2>1, <3>3
  <2> QED BY <2>2, <2>3
<1>3. ASSUME NEW p \in Proc, SetTokenVerify(p) PROVE Map!Next
  <2> DEFINE o == [pc |-> "hmset", token |-> op[p].token, resp |-> op[p].resp]
  <2>1. op' = [op EXCEPT ![p] = o] /\ held' = held
    <3>1. op' = [op EXCEPT ![p] = o]
      BY <1>3, <1>t, GotoStep DEF SetTokenVerify
    <3> QED BY <1>3, <1>h, <3>1 DEF SetTokenVerify
  <2>2. op[p].pc = "verify" /\ op[p].token \in Token /\ op[p].resp \in Acceptable
    BY <1>3, <1>t DEF SetTokenVerify, At, Valid, Response
  <2>3. call[p] = Idle
    BY <1>t, <2>2, AbstractCall
  <2>4. o \in Call /\ Abstract(o) = State("write", op[p].token, op[p].resp)
    BY <1>t, <2>2, AbstractCall DEF Call, PCs
  <2>5. call' = [call EXCEPT ![p] = State("write", op[p].token, op[p].resp)]
    BY <1>t, <2>1, <2>4, CallStep
  <2> QED BY <1>accept, <2>1, <2>2, <2>3, <2>5
<1>4. ASSUME NEW p \in Proc, SetTokenReject(p) PROVE UNCHANGED Map!vars
  <2>1. call[p] = Idle /\ held' = held /\ call' = [call EXCEPT ![p] = Idle]
    BY <1>4, <1>t, <1>h, <1>f, AbstractCall DEF SetTokenReject, At
  <2> QED BY <1>stutter, <2>1
\* A writer past its verification, which goes on or returns.
<1>5. ASSUME NEW p \in Proc, op[p].pc \in {"hmset", "expireat", "add"},
             \/ Finish(p)
             \/ \E pc \in {"hmset", "expireat", "add"} : Goto(p, pc),
             \A t \in Token : Copies(t)' \subseteq Copies(t) \cup
                (IF t = op[p].token THEN {op[p].resp, FromRedis(op[p].resp)} ELSE {})
      PROVE  Map!Next
  <2>1. /\ Abstract(op[p]) = State("write", op[p].token, op[p].resp)
        /\ call[p].pc = "write" /\ call[p].token = op[p].token
        /\ call[p].resp = op[p].resp
    BY <1>5, <1>t, AbstractCall
  <2>2. call' = call \/ call' = [call EXCEPT ![p] = Idle]
    <3>1. CASE Finish(p)
      BY <1>f, <3>1
    <3>2. ASSUME NEW pc \in {"hmset", "expireat", "add"}, Goto(p, pc) PROVE call' = call
      <4> DEFINE o == [pc |-> pc, token |-> op[p].token, resp |-> op[p].resp]
      <4>1. op' = [op EXCEPT ![p] = o]
        BY <3>2, <1>t, GotoStep
      <4>2. o \in Call
        BY <1>t DEF Call, PCs
      <4>3. o.pc \in {"hmset", "expireat", "add"} /\ o.token = op[p].token
            /\ o.resp = op[p].resp
        OBVIOUS
      <4>4. Abstract(o) = Abstract(op[p])
        BY <2>1, <4>2, <4>3, AbstractCall
      <4> QED BY <1>t, <4>1, <4>4, CallStep
    <3> QED BY <1>5, <3>1, <3>2
  <2> QED BY <1>write, <1>5, <2>1, <2>2
<1>6. ASSUME NEW p \in Proc, SetTokenHMSET(p) \/ SetTokenHMSETError(p) PROVE Map!Next
  <2>1. /\ op[p].pc = "hmset" /\ lru' = lru
        /\ Finish(p) \/ \E pc \in {"hmset", "expireat", "add"} : Goto(p, pc)
    BY <1>6 DEF SetTokenHMSET, SetTokenHMSETError, At
  <2>2. CASE UNCHANGED redis
    BY <1>5, <2>1, <2>2, CopiesGrow
  <2>3. CASE WriteHash(p)
    <3>1. \A t \in Token \ {op[p].token} : redis'[t] = redis[t]
      BY <2>3 DEF WriteHash, TypeOK
    <3>2. op[p].token \in Token
      BY <1>t, <2>1
    <3>3. /\ redis'[op[p].token].jwt = op[p].resp.jwt
          /\ redis'[op[p].token].applications = Join(op[p].resp.apps)
      BY <2>3, <3>2 DEF WriteHash, TypeOK, Hash
    <3>4. ASSUME NEW t \in Token, t = op[p].token
          PROVE  Copies(t)' \subseteq Copies(t) \cup {op[p].resp, FromRedis(op[p].resp)}
      <4>1. [jwt |-> redis'[t].jwt, apps |-> Split(redis'[t].applications)]
               \in {op[p].resp, FromRedis(op[p].resp)}
        BY <3>3, <3>4 DEF FromRedis
      <4> QED BY <2>1, <4>1, CopiesGrow
    <3>5. ASSUME NEW t \in Token, t # op[p].token PROVE Copies(t)' \subseteq Copies(t) \cup {}
      BY <2>1, <3>1, <3>5, CopiesGrow
    <3> QED BY <1>5, <2>1, <3>4, <3>5
  <2> QED BY <1>6, <2>2, <2>3 DEF SetTokenHMSET, SetTokenHMSETError
<1>7. ASSUME NEW p \in Proc, SetTokenEXPIREAT(p) \/ SetTokenEXPIREATError(p)
      PROVE  Map!Next
  <2>1. /\ op[p].pc = "expireat" /\ lru' = lru
        /\ Finish(p) \/ \E pc \in {"hmset", "expireat", "add"} : Goto(p, pc)
    BY <1>7 DEF SetTokenEXPIREAT, SetTokenEXPIREATError, At
  <2>2. \A t \in Token : \/ redis'[t].jwt = NoJwt
                         \/ /\ redis'[t].jwt = redis[t].jwt
                            /\ redis'[t].applications = redis[t].applications
    <3>1. CASE UNCHANGED redis
      BY <3>1
    <3>2. ASSUME NEW time, ExpireKey(op[p].token, time)
          PROVE  \A t \in Token : \/ redis'[t].jwt = NoJwt
                                  \/ /\ redis'[t].jwt = redis[t].jwt
                                     /\ redis'[t].applications = redis[t].applications
      BY <3>2 DEF ExpireKey, TypeOK, Hash, NoKey
    <3> QED BY <1>7, <3>1, <3>2 DEF SetTokenEXPIREAT, SetTokenEXPIREATError
  <2>3. \A t \in Token : Copies(t)' \subseteq Copies(t) \cup {}
    BY <2>1, <2>2, CopiesGrow
  <2> QED BY <1>5, <2>1, <2>3
<1>8. ASSUME NEW p \in Proc, LocalCacheAdd(p) PROVE Map!Next
  <2>1. op[p].pc = "add" /\ redis' = redis /\ Finish(p) /\ op[p].token \in Token
    BY <1>8, <1>t DEF LocalCacheAdd, At
  <2>2. \A g \in Gateway, t \in Token :
           \/ lru'[g][t].jwt = NoJwt
           \/ lru'[g][t] = lru[g][t]
           \/ t = op[p].token /\ lru'[g][t] = op[p].resp
    <3> DEFINE u == op[p].token
    <3>1. Home[p] \in Gateway /\ lru \in [Gateway -> [Token -> Response]]
      BY ConstantsAssumption DEF TypeOK
    <3>2. CASE lru' = [lru EXCEPT ![Home[p]][u] = op[p].resp]
      BY <2>1, <3>1, <3>2
    <3>3. ASSUME NEW v \in Token,
                 lru' = [lru EXCEPT ![Home[p]] = [@ EXCEPT ![v] = Absent,
                                                           ![u] = op[p].resp]]
          PROVE  \A g \in Gateway, t \in Token :
                    \/ lru'[g][t].jwt = NoJwt
                    \/ lru'[g][t] = lru[g][t]
                    \/ t = u /\ lru'[g][t] = op[p].resp
      <4>1. \A g \in Gateway \ {Home[p]} : lru'[g] = lru[g]
        BY <3>1, <3>3
      <4>2. lru'[Home[p]] = [lru[Home[p]] EXCEPT ![v] = Absent, ![u] = op[p].resp]
        BY <3>1, <3>3
      <4>3. \A t \in Token : lru'[Home[p]][t] = IF t = u THEN op[p].resp
                                 ELSE IF t = v THEN Absent ELSE lru[Home[p]][t]
        BY <2>1, <3>1, <4>2
      <4>4. Absent.jwt = NoJwt
        BY DEF Absent
      <4> QED BY <4>1, <4>3, <4>4
    <3>4. Filled(Home[p]) \subseteq Token
      BY DEF Filled
    <3> QED BY <1>8, <3>2, <3>3, <3>4 DEF LocalCacheAdd
  <2>3. \A t \in Token : Copies(t)' \subseteq Copies(t) \cup
           (IF t = op[p].token THEN {op[p].resp, FromRedis(op[p].resp)} ELSE {})
    <3> SUFFICES ASSUME NEW t \in Token
                 PROVE  Copies(t)' \subseteq Copies(t) \cup
                   (IF t = op[p].token THEN {op[p].resp, FromRedis(op[p].resp)} ELSE {})
      OBVIOUS
    <3>1. CASE t = op[p].token
      BY <2>1, <2>2, <3>1 DEF Copies
    <3>2. CASE t # op[p].token
      BY <2>1, <2>2, <3>2 DEF Copies
    <3> QED BY <3>1, <3>2
  <2> QED BY <1>5, <2>1, <2>3
\* Readers.
<1>9. ASSUME NEW p \in Proc, GetTokenLocal(p) PROVE [Map!Next]_(Map!vars)
  <2> DEFINE t == op[p].token
             hit == lru[Home[p]][t]
  <2>1. op[p].pc = "get" /\ held' = held /\ t \in Token
    BY <1>9, <1>t, <1>h DEF GetTokenLocal, At
  <2>2. call[p] = State("read", t, op[p].resp) /\ call[p].pc = "read" /\ call[p].token = t
    BY <1>t, <2>1, AbstractCall
  <2>3. CASE hit.jwt # NoJwt /\ Answer(p, hit)
    <3>1. hit \in Copies(t) /\ hit \in Response
      BY <2>1, <2>3, ConstantsAssumption DEF Copies, TypeOK
    <3> DEFINE o == [pc |-> "return", token |-> t, resp |-> hit]
    <3>2. o \in Call
      BY <1>t, <2>1, <3>1 DEF Call, PCs
    <3>3. Abstract(o) = State("answered", t, hit)
      BY <3>2, AbstractCall
    <3>4. call' = [call EXCEPT ![p] = State("answered", t, hit)]
      BY <1>t, <2>3, <3>3, CallStep DEF Answer
    <3> QED BY <1>reply, <2>1, <2>2, <3>1, <3>4
  <2>4. CASE Goto(p, "hmget")
    <3> DEFINE o == [pc |-> "hmget", token |-> t, resp |-> op[p].resp]
    <3>1. op' = [op EXCEPT ![p] = o]
      BY <2>4, <1>t, GotoStep
    <3>2. o \in Call
      BY <1>t, <2>1 DEF Call, PCs
    <3>3. Abstract(o) = call[p]
      BY <2>2, <3>2, AbstractCall
    <3>4. call' = call
      BY <1>t, <3>1, <3>3, CallStep
    <3> QED BY <1>stutter, <2>1, <3>4
  <2> QED BY <1>9, <2>3, <2>4 DEF GetTokenLocal
<1>10. ASSUME NEW p \in Proc, GetTokenHMGET(p) PROVE Map!Next
  <2> DEFINE t == op[p].token
             r == [jwt |-> redis[t].jwt, apps |-> Split(redis[t].applications)]
             o == [pc |-> "return", token |-> t, resp |-> r]
  <2>1. op[p].pc = "hmget" /\ held' = held /\ t \in Token /\ Answer(p, r)
    BY <1>10, <1>t, <1>h DEF GetTokenHMGET, At
  <2>2. call[p] = State("read", t, op[p].resp) /\ call[p].pc = "read" /\ call[p].token = t
    BY <1>t, <2>1, AbstractCall
  <2>3. r \in Copies(t) \cup {Absent}
    <3>1. CASE redis[t].jwt = NoJwt
      BY <2>1, <3>1 DEF MissingInv, Split, Absent
    <3>2. CASE redis[t].jwt # NoJwt
      BY <3>2 DEF Copies
    <3> QED BY <3>1, <3>2
  <2>4. r \in Response
    BY <2>1, SplitType DEF TypeOK, Hash, Response
  <2>5. o \in Call
    BY <2>1, <2>4 DEF Call, PCs
  <2>6. Abstract(o) = State("answered", t, r)
    BY <2>5, AbstractCall
  <2>7. call' = [call EXCEPT ![p] = State("answered", t, r)]
    BY <1>t, <2>1, <2>6, CallStep DEF Answer
  <2> QED BY <1>reply, <2>1, <2>2, <2>3, <2>7
<1>11. ASSUME NEW p \in Proc, GetTokenHMGETError(p) \/ GetTokenReturn(p) PROVE Map!Next
  <2>1. op[p].pc \in {"hmget", "return"} /\ held' = held
    BY <1>11, <1>h DEF GetTokenHMGETError, GetTokenReturn, At
  <2>2. call[p].pc \in {"read", "answered"}
    BY <1>t, <2>1, AbstractCall
  <2>3. call' = [call EXCEPT ![p] = Idle]
    BY <1>11, <1>f DEF GetTokenHMGETError, GetTokenReturn
  <2> QED BY <1>return, <2>1, <2>2, <2>3
\* Time and crashes.
<1>12. CASE Tick
  <2>1. \A t \in Token : redis'[t].jwt = NoJwt \/ redis'[t] = redis[t]
    BY <1>12 DEF Tick, NoKey
  <2>2. \A t \in Token : Copies(t)' \subseteq Copies(t)
    BY <1>12, <2>1 DEF Tick, Copies
  <2>3. PICK P \in SUBSET Proc : P = {}
    OBVIOUS
  <2>4. call' = [p \in Proc |-> IF p \in P THEN Idle ELSE call[p]]
    BY <1>12, <2>3 DEF Tick
  <2> QED BY <1>forget, <2>2, <2>4
<1>13. ASSUME NEW g \in Gateway, Restart(g) PROVE Map!Next
  <2> DEFINE P == {p \in Proc : Home[p] = g}
  <2>1. \A h \in Gateway, t \in Token : lru'[h][t].jwt = NoJwt \/ lru'[h][t] = lru[h][t]
    BY <1>13 DEF Restart, TypeOK, Absent
  <2>2. \A t \in Token : Copies(t)' \subseteq Copies(t)
    BY <1>13, <2>1 DEF Restart, Copies
  <2>3. \A p \in Proc : op'[p] = IF p \in P THEN Idle ELSE op[p]
    BY <1>13 DEF Restart
  <2>4. call' = [p \in Proc |-> IF p \in P THEN Idle ELSE call[p]]
    BY <1>i, <2>3
  <2> QED BY <1>forget, <2>2, <2>4
<1> QED BY <1>1, <1>2, <1>3, <1>4, <1>6, <1>7, <1>8, <1>9, <1>10, <1>11, <1>12, <1>13
        DEF Next, WriterStep, ReaderStep

\* The token store with Redis and one LRU cache per gateway, under every
\* interleaving, failure, expiry and restart, behaves as the one map TokenMap:
\* what it answers is held at that moment, and what is forgotten does not return.
THEOREM Implements == Spec => ImplementsTokenMap
BY MapInit, MapStep, TypeCorrect, VerifiedAlways, MissingAlways, PTL
   DEF Spec, ImplementsTokenMap, Map!Spec
=============================================================================
