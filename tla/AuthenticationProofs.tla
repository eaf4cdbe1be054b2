------------------------ MODULE AuthenticationProofs ------------------------
(***************************************************************************)
(* Proofs about Authentication, for any number of concurrent requests, any *)
(* JWTs, any sequence of verification keys and any behaviour of the store. *)
(***************************************************************************)
EXTENDS Authentication, TLAPS

(***************************************************************************)
(* What a request has established on its way to the answer.  The expiry it *)
(* holds is the exp claim of a JWT that a verification accepted, whether   *)
(* it comes from expCache or from the verification itself; a verdict of    *)
(* "no" has a cause that time cannot undo.                                 *)
(***************************************************************************)
Cause(q) ==
    tokenStringFromRequest(q.cred) = NoToken \/ ExpiresAt[q.resp.jwt] \in 1 .. now

Established(r) ==
    LET q == req[r]
        j == q.resp.jwt
    IN /\ q.pc \in {"compare", "expiry", "set"}
             => j \in accepted /\ q.exp = ExpiresAt[j] /\ ExpiresAt[j] > 0
       /\ q.pc = "set" => q.at < ExpiresAt[j]
       /\ q.pc \notin {"decide", "done"} => q.verdict = "none"
       /\ q.pc = "decide" => q.verdict # "none"
       /\ q.pc # "done" => q.status = "none" /\ ~q.options
       /\ q.verdict = "ok" => /\ j \in accepted
                              /\ ExpiresAt[j] = 0 \/ q.at < ExpiresAt[j]
       /\ q.verdict = "no" => Cause(q)
       /\ (q.status = "upstream" /\ ~q.options /\ q.app \notin Provider)
             => q.verdict = "ok" /\ Whitelisted(q.resp, q.app)
       /\ q.status = "403" => Cause(q) \/ ~Whitelisted(q.resp, q.app)

AuthInv == ExpCacheSound /\ \A r \in Request : Established(r)

\* The constant records have the types of the variables.
LEMMA Constants ==
    /\ Absent \in Response /\ NoEntry \in Entry /\ NoCredential \in CredentialSet
    /\ Idle \in State
    /\ Idle.pc = "idle" /\ Idle.verdict = "none" /\ Idle.status = "none"
    /\ ~Idle.options
BY DEF Absent, Response, NoEntry, Entry, NoCredential, CredentialSet, Idle, State, PCs

\* A step of request r to a well-formed record keeps the types.
LEMMA MoveType ==
    ASSUME TypeOK, NEW r \in Request, NEW q \in State, Move(r, q),
           q.pc \in {"expiry", "set"} => q.resp.jwt \in Jwt,
           UNCHANGED <<now, key, store>>,
           expCache' \in [Jwt \cup {NoJwt} -> Entry],
           accepted' \subseteq Jwt
    PROVE  TypeOK'
BY DEF TypeOK, Move

\* The state is well typed.
LEMMA TypeStep == TypeOK /\ [Next]_vars => TypeOK'
<1> SUFFICES ASSUME TypeOK, [Next]_vars PROVE TypeOK'
  OBVIOUS
<1>q. \A r \in Request : req[r] \in State
  BY DEF TypeOK
<1>n. now \in Nat
  BY ConstantsAssumption DEF TypeOK
<1>t. /\ \A j \in Jwt \cup {NoJwt} : expCache[j] \in Entry
      /\ \A t \in Token : store[t] \in Response
      /\ \A r \in Request : req[r].resp.jwt \in Jwt \cup {NoJwt} /\ req[r].exp \in Nat
  BY ConstantsAssumption DEF TypeOK, State, Response
<1>e. \A e \in Entry : e.val \in Nat
  BY DEF Entry
<1>1. CASE UNCHANGED vars
  BY <1>1 DEF vars, TypeOK
<1>2. ASSUME NEW r \in Request, NEW app \in App, NEW cred \in Credentials,
             Arrive(r, app, cred)
      PROVE  TypeOK'
  <2> DEFINE q == [Idle EXCEPT !.pc = "read", !.app = app, !.cred = cred]
  <2>1. q \in State
    BY Constants, ConstantsAssumption DEF State, PCs
  <2>2. q.pc = "read"
    BY Constants DEF State
  <2>3. Move(r, q) /\ UNCHANGED <<now, key, store, expCache, accepted>>
    BY <1>2 DEF Arrive
  <2> HIDE DEF q
  <2> QED BY <2>1, <2>2, <2>3, MoveType DEF TypeOK
<1>3. ASSUME NEW r \in Request, NEW app \in App, ArriveOptions(r, app)
      PROVE  TypeOK'
  <2> DEFINE q == [Idle EXCEPT !.pc = "done", !.options = TRUE, !.app = app,
                               !.status = "upstream"]
  <2>1. q \in State
    BY Constants, ConstantsAssumption DEF State, PCs
  <2>2. q.pc = "done"
    BY Constants DEF State
  <2>3. Move(r, q) /\ UNCHANGED <<now, key, store, expCache, accepted>>
    BY <1>3 DEF ArriveOptions
  <2> HIDE DEF q
  <2> QED BY <2>1, <2>2, <2>3, MoveType DEF TypeOK
<1>4. ASSUME NEW r \in Request, NEW v \in {"ok", "no", "error"}, Returns(r, v),
             UNCHANGED <<now, key, store>>,
             expCache' \in [Jwt \cup {NoJwt} -> Entry], accepted' \subseteq Jwt
      PROVE  TypeOK'
  <2> DEFINE q == [req[r] EXCEPT !.pc = "decide", !.verdict = v, !.exp = 0]
  <2>1. q \in State
    BY <1>q, <1>n DEF State, PCs
  <2>2. q.pc = "decide"
    BY <1>q, <1>n DEF State
  <2>3. Move(r, q)
    BY <1>4 DEF Returns
  <2> HIDE DEF q
  <2> QED BY <1>4, <2>1, <2>2, <2>3, MoveType
<1>5. ASSUME NEW r \in Request, NEW s \in {"upstream", "403", "503", "panic"}, Done(r, s),
             UNCHANGED <<now, key, store, expCache, accepted>>
      PROVE  TypeOK'
  <2> DEFINE q == [req[r] EXCEPT !.pc = "done", !.status = s]
  <2>1. q \in State
    BY <1>q, <1>n DEF State, PCs
  <2>2. q.pc = "done"
    BY <1>q, <1>n DEF State
  <2>3. Move(r, q)
    BY <1>5 DEF Done
  <2> HIDE DEF q
  <2> QED BY <1>5, <2>1, <2>2, <2>3, MoveType DEF TypeOK
<1>6. ASSUME NEW r \in Request, ReadNothing(r) \/ ReadError(r) \/ VerifyError(r)
      PROVE  TypeOK'
  BY <1>6, <1>4, ConstantsAssumption DEF ReadNothing, ReadError, VerifyError, TypeOK
<1>7. ASSUME NEW r \in Request, ReadToken(r) PROVE TypeOK'
  <2>0. PICK t \in Token : Move(r, [req[r] EXCEPT !.pc = "lookup", !.resp = store[t]])
    BY <1>7 DEF ReadToken
  <2> DEFINE q == [req[r] EXCEPT !.pc = "lookup", !.resp = store[t]]
  <2>r. store[t] \in Response
    BY <1>t
  <2>1. q \in State
    BY <1>q, <2>r DEF State, PCs
  <2>2. q.pc = "lookup"
    BY <1>q, <1>n DEF State
  <2>3. Move(r, q) /\ UNCHANGED <<now, key, store, expCache, accepted>>
    BY <1>7, <2>0 DEF ReadToken
  <2> HIDE DEF q
  <2> QED BY <2>1, <2>2, <2>3, MoveType DEF TypeOK
<1>8. ASSUME NEW r \in Request, LookupMiss(r) PROVE TypeOK'
  <2> DEFINE q == [req[r] EXCEPT !.pc = "verify"]
  <2>1. q \in State
    BY <1>q, <1>n DEF State, PCs
  <2>2. q.pc = "verify"
    BY <1>q, <1>n DEF State
  <2>3. Move(r, q) /\ UNCHANGED <<now, key, store, expCache, accepted>>
    BY <1>8 DEF LookupMiss
  <2> HIDE DEF q
  <2> QED BY <2>1, <2>2, <2>3, MoveType DEF TypeOK
<1>9. ASSUME NEW r \in Request, LookupHit(r) PROVE TypeOK'
  <2> DEFINE n == expCache[req[r].resp.jwt].val
             q == [req[r] EXCEPT !.pc = "compare", !.exp = n]
  <2>0. n \in Nat
    BY <1>t, <1>e
  <2>3. Move(r, q) /\ UNCHANGED <<now, key, store, expCache, accepted>>
    BY <1>9 DEF LookupHit
  <2> HIDE DEF n
  <2>1. q \in State
    BY <1>q, <1>n, <2>0 DEF State, PCs
  <2>2. q.pc = "compare"
    BY <1>q, <1>n DEF State
  <2> HIDE DEF q
  <2> QED BY <2>1, <2>2, <2>3, MoveType DEF TypeOK
<1>10. ASSUME NEW r \in Request, LookupPanic(r) PROVE TypeOK'
  BY <1>10, <1>5 DEF LookupPanic
<1>11. ASSUME NEW r \in Request, Compare(r) PROVE TypeOK'
  <2> DEFINE v == IF req[r].exp > now THEN "ok" ELSE "no"
             q == [req[r] EXCEPT !.pc = "decide", !.exp = 0, !.at = now, !.verdict = v]
  <2>0. v \in {"ok", "no"}
    OBVIOUS
  <2>3. Move(r, q) /\ UNCHANGED <<now, key, store, expCache, accepted>>
    BY <1>11 DEF Compare
  <2> HIDE DEF v
  <2>1. q \in State
    BY <1>q, <1>n, <2>0 DEF State, PCs
  <2>2. q.pc = "decide"
    BY <1>q, <1>n DEF State
  <2> HIDE DEF q
  <2> QED BY <2>1, <2>2, <2>3, MoveType DEF TypeOK
<1>12. ASSUME NEW r \in Request, VerifyForever(r) PROVE TypeOK'
  BY <1>12, <1>4, ConstantsAssumption DEF VerifyForever, TypeOK, Entry
<1>13. ASSUME NEW r \in Request, Verify(r) PROVE TypeOK'
  <2> DEFINE j == req[r].resp.jwt
             q == [req[r] EXCEPT !.pc = "expiry", !.exp = ExpiresAt[j]]
  <2>0. j \in Jwt /\ ExpiresAt[j] \in Nat
    BY <1>13, ConstantsAssumption DEF Verify
  <2>1. q \in State
    BY <1>q, <1>n, <2>0 DEF State, PCs
  <2>2. q.resp = req[r].resp
    BY <1>q, <1>n DEF State
  <2>3. Move(r, q) /\ UNCHANGED <<now, key, store, expCache>> /\ accepted' \subseteq Jwt
    BY <1>13, <2>0, ConstantsAssumption DEF Verify, TypeOK
  <2> HIDE DEF q
  <2> QED BY <2>0, <2>1, <2>2, <2>3, MoveType DEF TypeOK
<1>14. ASSUME NEW r \in Request, CheckExpiry(r) PROVE TypeOK'
  <2> DEFINE set == [req[r] EXCEPT !.pc = "set", !.at = now]
             no == [req[r] EXCEPT !.pc = "decide", !.at = now, !.verdict = "no"]
  <2>0. req[r].resp.jwt \in Jwt
    BY <1>14 DEF CheckExpiry, At, TypeOK
  <2>1. set \in State
    BY <1>q, <1>n DEF State, PCs
  <2>2. no \in State
    BY <1>q, <1>n DEF State, PCs
  <2>3. set.resp = req[r].resp /\ no.resp = req[r].resp
    BY <1>q, <1>n DEF State
  <2>4. /\ Move(r, set) \/ Move(r, no)
        /\ UNCHANGED <<now, key, store, expCache, accepted>>
    BY <1>14 DEF CheckExpiry
  <2> HIDE DEF set, no
  <2> QED BY <2>0, <2>1, <2>2, <2>3, <2>4, MoveType DEF TypeOK
<1>15. ASSUME NEW r \in Request, SetExpiry(r) PROVE TypeOK'
  BY <1>15, <1>4, ConstantsAssumption, <1>t, <1>n DEF SetExpiry, TypeOK, Entry
<1>16. ASSUME NEW r \in Request, Decide(r) PROVE TypeOK'
  <2>1. PICK s \in {"upstream", "403", "503"} : Done(r, s)
    BY <1>16 DEF Decide
  <2> QED BY <1>16, <2>1, <1>5 DEF Decide
<1>17. CASE Tick
  BY <1>17, ConstantsAssumption DEF Tick, TypeOK
<1>18. ASSUME NEW t \in Token, NEW resp \in Stored, ChangeStore(t, resp) PROVE TypeOK'
  BY <1>18, ConstantsAssumption DEF ChangeStore, TypeOK
<1>19. ASSUME NEW k \in KeyRing, ChangeKey(k) PROVE TypeOK'
  BY <1>19, ConstantsAssumption DEF ChangeKey, TypeOK
<1> QED BY <1>1, <1>2, <1>3, <1>6, <1>7, <1>8, <1>9, <1>10, <1>11, <1>12,
           <1>13, <1>14, <1>15, <1>16, <1>17, <1>18, <1>19 DEF Next, Step

\* Type correctness: DecorateHandler and IsAuthenticated keep the types of their
\* state, and a request past the verification holds a nonempty JWT.
THEOREM TypeCorrect == Spec => []TypeOK
<1>1. Init => TypeOK
  BY Constants, ConstantsAssumption DEF Init, TypeOK
<1> QED BY <1>1, TypeStep, PTL DEF Spec

(***************************************************************************)
(* The inductive invariant.  Every step moves one request, or none; what   *)
(* the other requests have established stays, since verifications are      *)
(* never undone and time does not run backwards.                           *)
(***************************************************************************)

\* A step of r leaves the other requests alone.
LEMMA MoveFrame ==
    ASSUME TypeOK, NEW r \in Request, NEW q, Move(r, q)
    PROVE  req'[r] = q /\ \A x \in Request : x # r => req'[x] = req[x]
BY DEF TypeOK, Move

\* The fields of a request for which IsAuthenticated has returned.
LEMMA ReturnsFields ==
    ASSUME TypeOK, NEW r \in Request, NEW v, Returns(r, v)
    PROVE  /\ req'[r].pc = "decide" /\ req'[r].verdict = v
           /\ req'[r].options = req[r].options /\ req'[r].app = req[r].app
           /\ req'[r].cred = req[r].cred /\ req'[r].resp = req[r].resp
           /\ req'[r].at = req[r].at /\ req'[r].status = req[r].status
           /\ \A x \in Request : x # r => req'[x] = req[x]
<1> DEFINE q == [req[r] EXCEPT !.pc = "decide", !.verdict = v, !.exp = 0]
<1>1. Move(r, q)
  BY DEF Returns
<1>2. req[r] \in State
  BY DEF TypeOK
<1>3. /\ q.pc = "decide" /\ q.verdict = v
      /\ q.options = req[r].options /\ q.app = req[r].app
      /\ q.cred = req[r].cred /\ q.resp = req[r].resp
      /\ q.at = req[r].at /\ q.status = req[r].status
  BY <1>2 DEF State
<1> HIDE DEF q
<1> QED BY <1>1, <1>3, MoveFrame

\* The fields of a request that has been answered.
LEMMA DoneFields ==
    ASSUME TypeOK, NEW r \in Request, NEW s, Done(r, s)
    PROVE  /\ req'[r].pc = "done" /\ req'[r].status = s
           /\ req'[r].options = req[r].options /\ req'[r].app = req[r].app
           /\ req'[r].cred = req[r].cred /\ req'[r].resp = req[r].resp
           /\ req'[r].at = req[r].at /\ req'[r].verdict = req[r].verdict
           /\ \A x \in Request : x # r => req'[x] = req[x]
<1> DEFINE q == [req[r] EXCEPT !.pc = "done", !.status = s]
<1>1. Move(r, q)
  BY DEF Done
<1>2. req[r] \in State
  BY DEF TypeOK
<1>3. /\ q.pc = "done" /\ q.status = s
      /\ q.options = req[r].options /\ q.app = req[r].app
      /\ q.cred = req[r].cred /\ q.resp = req[r].resp
      /\ q.at = req[r].at /\ q.verdict = req[r].verdict
  BY <1>2 DEF State
<1> HIDE DEF q
<1> QED BY <1>1, <1>3, MoveFrame

\* What a request has established survives the steps of others.
LEMMA EstablishedFrame ==
    ASSUME TypeOK, NEW x \in Request, Established(x), req'[x] = req[x],
           accepted \subseteq accepted', now' \in Nat, now <= now'
    PROVE  Established(x)'
<1>1. now \in Nat
  BY ConstantsAssumption DEF TypeOK
<1>2. Cause(req[x]) => Cause(req[x])'
  BY <1>1 DEF Cause
<1> QED BY <1>2 DEF Established, Cause

\* A step that leaves expCache alone keeps it sound.
LEMMA ExpCacheFrame ==
    ASSUME TypeOK, ExpCacheSound, UNCHANGED expCache,
           accepted \subseteq accepted', now' \in Nat, now <= now'
    PROVE  ExpCacheSound'
<1>1. now \in Nat /\ \A j \in Jwt \cup {NoJwt} : expCache[j].val \in Nat
  BY ConstantsAssumption DEF TypeOK, Entry
<1> QED BY <1>1 DEF ExpCacheSound

\* The invariant after a step of request r.
LEMMA RequestStep ==
    ASSUME TypeOK, AuthInv, NEW r \in Request, Established(r)', ExpCacheSound',
           \A x \in Request : x # r => req'[x] = req[x],
           accepted \subseteq accepted', UNCHANGED now
    PROVE  AuthInv'
<1>1. now \in Nat
  BY ConstantsAssumption DEF TypeOK
<1> QED BY <1>1, EstablishedFrame DEF AuthInv

\* The invariant is inductive.
LEMMA AuthStep == TypeOK /\ AuthInv /\ [Next]_vars => AuthInv'
<1> SUFFICES ASSUME TypeOK, AuthInv, [Next]_vars PROVE AuthInv'
  OBVIOUS
<1>n. now \in Nat
  BY ConstantsAssumption DEF TypeOK
<1>q. \A r \in Request : req[r] \in State
  BY DEF TypeOK
<1>a. ExpCacheSound /\ \A r \in Request : Established(r)
  BY DEF AuthInv
<1>j. \A r \in Request : req[r].resp.jwt \in Jwt \cup {NoJwt}
  BY <1>q DEF State, Response
<1>0. ASSUME NEW r \in Request, Established(r)',
             \A x \in Request : x # r => req'[x] = req[x],
             UNCHANGED <<now, key, store, expCache, accepted>>
      PROVE  AuthInv'
  BY <1>0, <1>n, <1>a, RequestStep, ExpCacheFrame
<1>1. CASE UNCHANGED vars
  BY <1>1, <1>n, <1>a, EstablishedFrame, ExpCacheFrame DEF vars, AuthInv
<1>2. ASSUME NEW r \in Request, NEW app \in App, NEW cred \in Credentials,
             Arrive(r, app, cred)
      PROVE  AuthInv'
  <2> DEFINE q == [Idle EXCEPT !.pc = "read", !.app = app, !.cred = cred]
  <2>1. q.pc = "read" /\ q.verdict = "none" /\ q.status = "none" /\ ~q.options
    BY DEF Idle
  <2>2. Move(r, q) /\ UNCHANGED <<now, key, store, expCache, accepted>>
    BY <1>2 DEF Arrive
  <2> HIDE DEF q
  <2>3. req'[r] = q /\ \A x \in Request : x # r => req'[x] = req[x]
    BY <2>2, MoveFrame
  <2>4. Established(r)'
    BY <2>1, <2>3 DEF Established
  <2> QED BY <2>2, <2>3, <2>4, <1>0
<1>3. ASSUME NEW r \in Request, NEW app \in App, ArriveOptions(r, app)
      PROVE  AuthInv'
  <2> DEFINE q == [Idle EXCEPT !.pc = "done", !.options = TRUE, !.app = app,
                               !.status = "upstream"]
  <2>1. q.pc = "done" /\ q.verdict = "none" /\ q.status = "upstream" /\ q.options
    BY DEF Idle
  <2>2. Move(r, q) /\ UNCHANGED <<now, key, store, expCache, accepted>>
    BY <1>3 DEF ArriveOptions
  <2> HIDE DEF q
  <2>3. req'[r] = q /\ \A x \in Request : x # r => req'[x] = req[x]
    BY <2>2, MoveFrame
  <2>4. Established(r)'
    BY <2>1, <2>3 DEF Established
  <2> QED BY <2>2, <2>3, <2>4, <1>0
<1>4. ASSUME NEW r \in Request, ReadNothing(r) PROVE AuthInv'
  <2>1. Returns(r, "no") /\ At(r, "read") /\ tokenStringFromRequest(req[r].cred) = NoToken
        /\ UNCHANGED <<now, key, store, expCache, accepted>>
    BY <1>4 DEF ReadNothing
  <2>2. Established(r)'
    BY <2>1, <1>a, ReturnsFields DEF Established, Cause, At
  <2> QED BY <2>1, <2>2, <1>0, ReturnsFields
<1>5. ASSUME NEW r \in Request, ReadError(r) \/ VerifyError(r) PROVE AuthInv'
  <2>1. Returns(r, "error") /\ req[r].pc \in {"read", "verify"}
        /\ UNCHANGED <<now, key, store, expCache, accepted>>
    BY <1>5 DEF ReadError, VerifyError, At
  <2>2. Established(r)'
    BY <2>1, <1>a, ReturnsFields DEF Established
  <2> QED BY <2>1, <2>2, <1>0, ReturnsFields
<1>6. ASSUME NEW r \in Request, ReadToken(r) PROVE AuthInv'
  <2>1. PICK t \in Token : Move(r, [req[r] EXCEPT !.pc = "lookup", !.resp = store[t]])
    BY <1>6 DEF ReadToken
  <2> DEFINE q == [req[r] EXCEPT !.pc = "lookup", !.resp = store[t]]
  <2>2. q.pc = "lookup" /\ q.verdict = req[r].verdict /\ q.status = req[r].status
        /\ q.options = req[r].options
    BY <1>q DEF State
  <2>3. At(r, "read") /\ UNCHANGED <<now, key, store, expCache, accepted>>
    BY <1>6 DEF ReadToken
  <2> HIDE DEF q
  <2>4. req'[r] = q /\ \A x \in Request : x # r => req'[x] = req[x]
    BY <2>1, MoveFrame DEF q
  <2>5. Established(r)'
    BY <2>2, <2>3, <2>4, <1>a DEF Established, At
  <2> QED BY <2>3, <2>4, <2>5, <1>0
<1>7. ASSUME NEW r \in Request, LookupMiss(r) PROVE AuthInv'
  <2> DEFINE q == [req[r] EXCEPT !.pc = "verify"]
  <2>1. q.pc = "verify" /\ q.verdict = req[r].verdict /\ q.status = req[r].status
        /\ q.options = req[r].options
    BY <1>q DEF State
  <2>2. Move(r, q) /\ At(r, "lookup") /\ UNCHANGED <<now, key, store, expCache, accepted>>
    BY <1>7 DEF LookupMiss
  <2> HIDE DEF q
  <2>3. req'[r] = q /\ \A x \in Request : x # r => req'[x] = req[x]
    BY <2>2, MoveFrame
  <2>4. Established(r)'
    BY <2>1, <2>2, <2>3, <1>a DEF Established, At
  <2> QED BY <2>2, <2>3, <2>4, <1>0
<1>8. ASSUME NEW r \in Request, LookupHit(r) PROVE AuthInv'
  <2> DEFINE j == req[r].resp.jwt
             e == expCache[j]
             q == [req[r] EXCEPT !.pc = "compare", !.exp = e.val]
  <2>1. /\ q.pc = "compare" /\ q.verdict = req[r].verdict /\ q.status = req[r].status
        /\ q.options = req[r].options /\ q.exp = e.val /\ q.resp = req[r].resp
    BY <1>q DEF State
  <2>2. /\ Move(r, q) /\ At(r, "lookup") /\ e.kind = "int64"
        /\ UNCHANGED <<now, key, store, expCache, accepted>>
    BY <1>8 DEF LookupHit
  <2>3. j \in accepted /\ e.val = ExpiresAt[j] /\ ExpiresAt[j] # 0
    BY <2>2, <1>a, <1>j DEF ExpCacheSound
  <2>4. ExpiresAt[j] > 0
    BY <2>3, ConstantsAssumption DEF TypeOK
  <2> HIDE DEF q
  <2>5. req'[r] = q /\ \A x \in Request : x # r => req'[x] = req[x]
    BY <2>2, MoveFrame
  <2>6. Established(r)'
    BY <2>1, <2>2, <2>3, <2>4, <2>5, <1>a DEF Established, At
  <2> QED BY <2>2, <2>5, <2>6, <1>0
<1>9. ASSUME NEW r \in Request, LookupPanic(r) PROVE AuthInv'
  <2>1. Done(r, "panic") /\ At(r, "lookup") /\ UNCHANGED <<now, key, store, expCache, accepted>>
    BY <1>9 DEF LookupPanic
  <2>2. Established(r)'
    BY <2>1, <1>a, DoneFields DEF Established, At
  <2> QED BY <2>1, <2>2, <1>0, DoneFields
<1>10. ASSUME NEW r \in Request, Compare(r) PROVE AuthInv'
  <2> DEFINE j == req[r].resp.jwt
             v == IF req[r].exp > now THEN "ok" ELSE "no"
             q == [req[r] EXCEPT !.pc = "decide", !.exp = 0, !.at = now, !.verdict = v]
  <2>1. /\ Move(r, q) /\ At(r, "compare")
        /\ UNCHANGED <<now, key, store, expCache, accepted>>
    BY <1>10 DEF Compare
  <2>2. /\ q.pc = "decide" /\ q.verdict = v /\ q.status = req[r].status /\ q.at = now
        /\ q.options = req[r].options /\ q.resp = req[r].resp
    BY <1>q DEF State
  <2>3. /\ j \in accepted /\ ExpiresAt[j] > 0 /\ ExpiresAt[j] \in Nat
        /\ v = "ok" => now < ExpiresAt[j]
        /\ v = "no" => ExpiresAt[j] \in 1 .. now
        /\ v \in {"ok", "no"}
    BY <2>1, <1>a, <1>n, ConstantsAssumption DEF Established, At, TypeOK
  <2> HIDE DEF v, q
  <2>4. req'[r] = q /\ \A x \in Request : x # r => req'[x] = req[x]
    BY <2>1, MoveFrame
  <2>5. Established(r)'
    BY <2>1, <2>2, <2>3, <2>4, <1>a DEF Established, At, Cause
  <2> QED BY <2>1, <2>4, <2>5, <1>0
<1>11. ASSUME NEW r \in Request, VerifyForever(r) PROVE AuthInv'
  <2> DEFINE j == req[r].resp.jwt
  <2>1. /\ At(r, "verify") /\ Returns(r, "ok") /\ UNCHANGED now
        /\ j \in Jwt /\ ExpiresAt[j] = 0 /\ accepted' = accepted \cup {j}
        /\ expCache' = [expCache EXCEPT ![j] = [kind |-> "int", val |-> 0, dies |-> 0]]
    BY <1>11 DEF VerifyForever
  <2>2. Established(r)'
    BY <2>1, <1>a, ReturnsFields DEF Established, At
  <2>3. ExpCacheSound'
    BY <2>1, <1>a, <1>n DEF ExpCacheSound, TypeOK
  <2> QED BY <2>1, <2>2, <2>3, RequestStep, ReturnsFields
<1>12. ASSUME NEW r \in Request, Verify(r) PROVE AuthInv'
  <2> DEFINE j == req[r].resp.jwt
             q == [req[r] EXCEPT !.pc = "expiry", !.exp = ExpiresAt[j]]
  <2>1. /\ Move(r, q) /\ At(r, "verify") /\ UNCHANGED <<now, expCache>>
        /\ j \in Jwt /\ ExpiresAt[j] > 0 /\ accepted' = accepted \cup {j}
    BY <1>12 DEF Verify
  <2>2. /\ q.pc = "expiry" /\ q.verdict = req[r].verdict /\ q.status = req[r].status
        /\ q.options = req[r].options /\ q.resp = req[r].resp /\ q.exp = ExpiresAt[j]
    BY <1>q DEF State
  <2> HIDE DEF q
  <2>3. req'[r] = q /\ \A x \in Request : x # r => req'[x] = req[x]
    BY <2>1, MoveFrame
  <2>4. Established(r)'
    BY <2>1, <2>2, <2>3, <1>a DEF Established, At
  <2>5. ExpCacheSound'
    BY <2>1, <1>a, <1>n, ExpCacheFrame
  <2> QED BY <2>1, <2>3, <2>4, <2>5, RequestStep
<1>13. ASSUME NEW r \in Request, CheckExpiry(r) PROVE AuthInv'
  <2> DEFINE j == req[r].resp.jwt
             set == [req[r] EXCEPT !.pc = "set", !.at = now]
             no == [req[r] EXCEPT !.pc = "decide", !.at = now, !.verdict = "no"]
  <2>1. /\ At(r, "expiry") /\ UNCHANGED <<now, key, store, expCache, accepted>>
        /\ \/ req[r].exp > now /\ Move(r, set)
           \/ ~(req[r].exp > now) /\ Move(r, no)
    BY <1>13 DEF CheckExpiry
  <2>2. j \in accepted /\ req[r].exp = ExpiresAt[j] /\ ExpiresAt[j] > 0 /\ ExpiresAt[j] \in Nat
    BY <2>1, <1>a, ConstantsAssumption DEF Established, At, TypeOK
  <2>3. /\ set.pc = "set" /\ set.verdict = req[r].verdict /\ set.status = req[r].status
        /\ set.options = req[r].options /\ set.resp = req[r].resp
        /\ set.exp = req[r].exp /\ set.at = now
    BY <1>q DEF State
  <2>4. /\ no.pc = "decide" /\ no.verdict = "no" /\ no.status = req[r].status
        /\ no.options = req[r].options /\ no.resp = req[r].resp
    BY <1>q DEF State
  <2> HIDE DEF set, no
  <2>5. CASE req[r].exp > now /\ Move(r, set)
    <3>1. req'[r] = set /\ \A x \in Request : x # r => req'[x] = req[x]
      BY <2>5, MoveFrame
    <3>2. Established(r)'
      BY <2>1, <2>2, <2>3, <2>5, <3>1, <1>a, <1>n DEF Established, At
    <3> QED BY <2>1, <3>1, <3>2, <1>0
  <2>6. CASE ~(req[r].exp > now) /\ Move(r, no)
    <3>1. req'[r] = no /\ \A x \in Request : x # r => req'[x] = req[x]
      BY <2>6, MoveFrame
    <3>2. ExpiresAt[j] \in 1 .. now
      BY <2>2, <2>6, <1>n
    <3>3. Established(r)'
      BY <2>1, <2>4, <3>1, <3>2, <1>a DEF Established, At, Cause
    <3> QED BY <2>1, <3>1, <3>3, <1>0
  <2> QED BY <2>1, <2>5, <2>6
<1>14. ASSUME NEW r \in Request, SetExpiry(r) PROVE AuthInv'
  <2> DEFINE j == req[r].resp.jwt
             d == IF req[r].exp > now THEN req[r].exp ELSE 0
  <2>1. /\ At(r, "set") /\ Returns(r, "ok") /\ UNCHANGED <<now, accepted>>
        /\ expCache' = [expCache EXCEPT ![j] =
                           [kind |-> "int64", val |-> req[r].exp, dies |-> d]]
    BY <1>14 DEF SetExpiry
  <2>2. /\ j \in accepted /\ j \in Jwt /\ req[r].exp = ExpiresAt[j]
        /\ ExpiresAt[j] > 0 /\ ExpiresAt[j] \in Nat /\ req[r].at < ExpiresAt[j]
    BY <2>1, <1>a, ConstantsAssumption DEF Established, At, TypeOK
  <2>3. d = 0 => ExpiresAt[j] <= now
    BY <2>2, <1>n
  <2> HIDE DEF d
  <2>4. Established(r)'
    BY <2>1, <2>2, <1>a, ReturnsFields DEF Established, At
  <2>5. ExpCacheSound'
    BY <2>1, <2>2, <2>3, <1>a, <1>n DEF ExpCacheSound, TypeOK
  <2> QED BY <2>1, <2>4, <2>5, RequestStep, ReturnsFields
<1>15. ASSUME NEW r \in Request, Decide(r) PROVE AuthInv'
  <2> DEFINE q == req[r]
  <2>1. PICK s : /\ Done(r, s)
                 /\ s \in {"upstream", "403", "503"}
                 /\ s = "upstream" /\ q.app \notin Provider
                      => q.verdict \notin {"error", "no"} /\ Whitelisted(q.resp, q.app)
                 /\ s = "403" => q.verdict = "no" \/ ~Whitelisted(q.resp, q.app)
    BY <1>15 DEF Decide
  <2>2. At(r, "decide") /\ UNCHANGED <<now, key, store, expCache, accepted>>
    BY <1>15 DEF Decide
  <2>3. q.verdict \in {"ok", "no", "error"}
    BY <2>2, <1>a, <1>q DEF Established, At, State
  <2>4. Established(r)'
    BY <2>1, <2>2, <2>3, <1>a, DoneFields DEF Established, At, Cause, Whitelisted
  <2> QED BY <2>1, <2>2, <2>4, <1>0, DoneFields
<1>16. CASE Tick
  BY <1>16, <1>n, <1>a, EstablishedFrame, ExpCacheFrame DEF Tick, AuthInv
<1>17. ASSUME NEW t \in Token, NEW resp \in Stored, ChangeStore(t, resp) PROVE AuthInv'
  BY <1>17, <1>n, <1>a, EstablishedFrame, ExpCacheFrame DEF ChangeStore, AuthInv
<1>18. ASSUME NEW k \in KeyRing, ChangeKey(k) PROVE AuthInv'
  BY <1>18, <1>n, <1>a, EstablishedFrame, ExpCacheFrame DEF ChangeKey, AuthInv
<1> QED BY <1>1, <1>2, <1>3, <1>4, <1>5, <1>6, <1>7, <1>8, <1>9, <1>10, <1>11, <1>12,
           <1>13, <1>14, <1>15, <1>16, <1>17, <1>18 DEF Next, Step

\* In every reachable state the types and the invariant hold.
LEMMA AuthAlways == Spec => [](TypeOK /\ AuthInv)
<1>1. Init => TypeOK /\ AuthInv
  <2> SUFFICES ASSUME Init PROVE TypeOK /\ AuthInv
    OBVIOUS
  <2>1. TypeOK
    BY Constants, ConstantsAssumption DEF Init, TypeOK
  <2>2. ExpCacheSound
    BY DEF Init, ExpCacheSound, NoEntry
  <2>3. ASSUME NEW r \in Request PROVE Established(r)
    BY Constants DEF Init, Established
  <2> QED BY <2>1, <2>2, <2>3 DEF AuthInv
<1>2. TypeOK /\ AuthInv /\ [Next]_vars => (TypeOK /\ AuthInv)'
  BY TypeStep, AuthStep
<1> QED BY <1>1, <1>2, PTL DEF Spec

\* What DecorateHandler lets through as authenticated was verified, was not
\* expired at the request's own clock reading and admits the application,
\* however requests, key changes and store updates interleave around expCache.
THEOREM AuthorisedAlways == Spec => []Authorised
<1>1. TypeOK /\ AuthInv => Authorised
  BY DEF AuthInv, Established, Authorised
<1> QED BY <1>1, AuthAlways, PTL

\* A 403 is never the result of what another request left in expCache: the
\* request had no token, its JWT has expired, or its application is not listed.
THEOREM RefusedForCauseAlways == Spec => []RefusedForCause
<1>1. TypeOK /\ AuthInv => RefusedForCause
  BY DEF AuthInv, Established, RefusedForCause, Cause
<1> QED BY <1>1, AuthAlways, PTL

\* expCache only holds the exp claims of verified JWTs, and the entries that
\* go-cache will never drop keep no JWT alive.
THEOREM ExpCacheSoundAlways == Spec => []ExpCacheSound
<1>1. TypeOK /\ AuthInv => ExpCacheSound
  BY DEF AuthInv
<1> QED BY <1>1, AuthAlways, PTL
=============================================================================
