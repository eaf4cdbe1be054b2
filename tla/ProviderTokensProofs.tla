------------------------ MODULE ProviderTokensProofs ------------------------
(***************************************************************************)
(* Proofs about the rewriting of a provider's responses, for any number of *)
(* responses under way, any JWTs and tokens, and any failure of AddToken.  *)
(*                                                                         *)
(* The invariant speaks of one response at a time: what its recorder and   *)
(* its client hold, against what the provider sent.  The token store       *)
(* only grows, so no step of another response can break it.                *)
(***************************************************************************)
EXTENDS ProviderTokens, TLAPS

Counters == {"idle", "body", "header", "cookie", "copy"}
Kinds == {"jwt", "json", "plain"}
Values ==
    Jwt \cup Token \cup {"junk", "none", "missing", "empty", "number", "unparsable"}

BodyRecords == [kind : Kinds, value : Values]
Recorders == [pc : Counters, body : BodyRecords, header : Values, cookie : Values,
              cookies : SUBSET Values]

ProviderTypes ==
    /\ store \in [Token -> Jwt \cup {NoJwt}]
    /\ rec \in [Slot -> Recorders]
    /\ DOMAIN client = Slot /\ client = [s \in Slot |-> client[s]]
    /\ sent \in [Slot -> Responses]

\* If v is a token, the token store st has the JWT o under it.
Worth(st, v, o) == v \in Token => o \in Jwt /\ st[v] = o

\* A recorder r for the response o, when the token store is st: the places not
\* looked at yet are as they were sent, the others hold no JWT, but a token that is
\* worth the one that was there.
RecorderOK(st, r, o) ==
    /\ r.pc = "body" => r.body = o.body
    /\ r.pc \in {"body", "header"} => r.header = o.header
    /\ r.pc \in {"body", "header", "cookie"} => r.cookie = o.cookie /\ r.cookies \cap Token = {}
    /\ r.pc \in {"header", "cookie", "copy"} =>
          /\ r.body.value \notin Jwt /\ Worth(st, r.body.value, o.body.value)
          /\ o.body.value \in Jwt => r.body.value \in Token
    /\ r.pc \in {"cookie", "copy"} =>
          /\ r.header \notin Jwt /\ Worth(st, r.header, o.header)
          /\ o.header # "none" => r.header \in Token
    /\ r.pc = "copy" =>
          /\ \A t \in r.cookies \cap Token : Worth(st, t, o.cookie)
          /\ o.cookie # "none" => r.cookies \cap Token # {}

\* What a client k holds of the response o.
ClientOK(st, k, o) ==
    /\ k.body \notin Jwt /\ k.header \notin Jwt
    /\ Worth(st, k.body, o.body.value) /\ Worth(st, k.header, o.header)
    /\ \A t \in k.cookies \cap Token : Worth(st, t, o.cookie)
    /\ k.status = "upstream" =>
          /\ o.body.value \in Jwt => k.body \in Token
          /\ o.header # "none" => k.header \in Token
          /\ o.cookie # "none" => k.cookies \cap Token # {}

ProviderInv ==
    /\ ProviderTypes
    /\ \A s \in Slot : RecorderOK(store, rec[s], sent[s]) /\ ClientOK(store, client[s], sent[s])

\* The token store is unchanged or has one JWT more, under a token that was free.
Grows == store' = store \/ \E value \in Jwt, t \in Token : AddToken(value, t)

\* What a token is worth stays: AddToken never overwrites.
LEMMA StoreGrows ==
    ASSUME ProviderTypes, Grows
    PROVE  /\ store' \in [Token -> Jwt \cup {NoJwt}]
           /\ \A t \in Token : store[t] \in Jwt => store'[t] = store[t]
<1>1. CASE store' = store
  BY <1>1 DEF ProviderTypes
<1>2. ASSUME NEW value \in Jwt, NEW t \in Token, AddToken(value, t)
      PROVE  /\ store' \in [Token -> Jwt \cup {NoJwt}]
             /\ \A u \in Token : store[u] \in Jwt => store'[u] = store[u]
  BY <1>2, ConstantsAssumption DEF AddToken, Free, ProviderTypes
<1> QED BY <1>1, <1>2 DEF Grows

\* Hence nothing that holds of a recorder or a client is undone by a step of
\* another response.
LEMMA OthersKept ==
    ASSUME ProviderTypes, Grows, NEW r, NEW k, NEW o
    PROVE  /\ RecorderOK(store, r, o) => RecorderOK(store', r, o)
           /\ ClientOK(store, k, o) => ClientOK(store', k, o)
<1>1. ASSUME NEW v, NEW w, Worth(store, v, w) PROVE Worth(store', v, w)
  BY <1>1, StoreGrows DEF Worth
<1>2. RecorderOK(store, r, o) => RecorderOK(store', r, o)
  BY <1>1 DEF RecorderOK
<1>3. ClientOK(store, k, o) => ClientOK(store', k, o)
  BY <1>1 DEF ClientOK
<1> QED BY <1>2, <1>3

\* A step of response s that leaves its recorder and its client in order keeps the
\* invariant of all responses.
LEMMA SlotStep ==
    ASSUME ProviderInv, Grows, NEW s \in Slot, NEW r \in Recorders, NEW k, NEW o \in Responses,
           rec' = [rec EXCEPT ![s] = r],
           client' = [client EXCEPT ![s] = k],
           sent' = [sent EXCEPT ![s] = o],
           RecorderOK(store', r, o), ClientOK(store', k, o)
    PROVE  ProviderInv'
<1>1. ProviderTypes'
  BY StoreGrows DEF ProviderInv, ProviderTypes
<1>2. ASSUME NEW q \in Slot
      PROVE  RecorderOK(store', rec'[q], sent'[q]) /\ ClientOK(store', client'[q], sent'[q])
  <2>1. CASE q = s
    BY <2>1 DEF ProviderInv, ProviderTypes
  <2>2. CASE q # s
    <3>1. rec'[q] = rec[q] /\ client'[q] = client[q] /\ sent'[q] = sent[q]
      BY <2>2 DEF ProviderInv, ProviderTypes
    <3>2. RecorderOK(store, rec[q], sent[q]) /\ ClientOK(store, client[q], sent[q])
      BY DEF ProviderInv
    <3> QED BY <3>1, <3>2, OthersKept DEF ProviderInv
  <2> QED BY <2>1, <2>2
<1> QED BY <1>1, <1>2 DEF ProviderInv

\* A recorder that is free, and what a client has before the answer, are in order.
LEMMA IdleOK ==
    /\ Idle \in Recorders /\ Idle.pc = "idle"
    /\ \A st, o : RecorderOK(st, Idle, o)
    /\ \A st, o, k : (k.body = "empty" /\ k.header = "none" /\ k.cookies = {}
                        /\ k.status # "upstream") => ClientOK(st, k, o)
<1>1. Idle.pc = "idle"
  BY DEF Idle
<1>2. Idle \in Recorders
  <2>1. NoBody \in BodyRecords
    BY DEF NoBody, BodyRecords, Kinds, Values
  <2> QED BY <2>1 DEF Idle, Recorders, Counters, Values
<1>3. \A st, o : RecorderOK(st, Idle, o)
  BY <1>1 DEF RecorderOK
<1>4. ASSUME NEW st, NEW o, NEW k, k.body = "empty", k.header = "none", k.cookies = {},
             k.status # "upstream"
      PROVE  ClientOK(st, k, o)
  BY <1>4, ConstantsAssumption DEF ClientOK, Worth
<1> QED BY <1>1, <1>2, <1>3, <1>4

\* The shapes of a provider's response.
LEMMA Shapes ==
    ASSUME NEW o \in Responses
    PROVE  /\ o.body \in BodyRecords /\ o.header \in Values /\ o.cookie \in Values
           /\ o.header \in Jwt \cup {"none", "missing"} /\ o.cookie \in Jwt \cup {"none", "missing"}
           /\ o.body.value \notin Token
           /\ o.body.kind = "plain" => o.body.value = "junk"
BY ConstantsAssumption DEF Responses, Bodies, BodyRecords, Kinds, Values

\* A step that only changes the recorder.
LEMMA RecorderStep ==
    ASSUME ProviderInv, Grows, NEW s \in Slot, NEW r \in Recorders,
           rec' = [rec EXCEPT ![s] = r], UNCHANGED <<client, sent>>,
           RecorderOK(store', r, sent[s])
    PROVE  ProviderInv'
<1>1. /\ client' = [client EXCEPT ![s] = client[s]]
      /\ sent' = [sent EXCEPT ![s] = sent[s]] /\ sent[s] \in Responses
  BY DEF ProviderInv, ProviderTypes
<1>2. ClientOK(store', client[s], sent[s])
  BY OthersKept DEF ProviderInv
<1> QED BY <1>1, <1>2, SlotStep

\* A step that gives up: the recorder is dropped and the client gets nothing.
LEMMA GiveUpStep ==
    ASSUME ProviderInv, NEW s \in Slot, NEW status \in {"200", "panic"},
           rec' = [rec EXCEPT ![s] = Idle],
           client' = [client EXCEPT ![s] = [Nothing EXCEPT !.status = status]],
           UNCHANGED <<store, sent>>
    PROVE  ProviderInv'
<1> DEFINE k == [Nothing EXCEPT !.status = status]
<1>1. sent' = [sent EXCEPT ![s] = sent[s]] /\ sent[s] \in Responses
  BY DEF ProviderInv, ProviderTypes
<1>2. k.body = "empty" /\ k.header = "none" /\ k.cookies = {} /\ k.status # "upstream"
  BY DEF Nothing
<1> HIDE DEF k
<1>3. RecorderOK(store', Idle, sent[s]) /\ ClientOK(store', k, sent[s]) /\ Idle \in Recorders
  BY <1>2, IdleOK
<1>4. Grows
  BY DEF Grows
<1>5. client' = [client EXCEPT ![s] = k]
  BY DEF k
<1> QED BY <1>1, <1>3, <1>4, <1>5, SlotStep

\* The provider's answer is in the recorder as it was sent.
LEMMA RespondStep ==
    ASSUME ProviderInv, NEW s \in Slot, NEW o \in Responses, Respond(s, o) PROVE ProviderInv'
<1> DEFINE r == [pc |-> "body", body |-> o.body, header |-> o.header, cookie |-> o.cookie,
                 cookies |-> {o.cookie} \cap Jwt]
<1>1. /\ rec' = [rec EXCEPT ![s] = r] /\ client' = [client EXCEPT ![s] = Nothing]
      /\ sent' = [sent EXCEPT ![s] = o] /\ store' = store
  BY DEF Respond
<1>2. r \in Recorders
  <2>1. "body" \in Counters /\ o.body \in BodyRecords /\ o.header \in Values /\ o.cookie \in Values
    BY Shapes DEF Counters
  <2> QED BY <2>1 DEF Recorders
<1>3. RecorderOK(store', r, o)
  BY ConstantsAssumption DEF RecorderOK
<1>4. ClientOK(store', Nothing, o)
  <2>1. /\ Nothing.body = "empty" /\ Nothing.header = "none" /\ Nothing.cookies = {}
        /\ Nothing.status # "upstream"
    BY DEF Nothing
  <2> QED BY <2>1, IdleOK
<1>5. Grows
  BY <1>1 DEF Grows
<1> HIDE DEF r
<1> QED BY <1>1, <1>2, <1>3, <1>4, <1>5, SlotStep

\* A body that is not rewritten holds no JWT that the provider marked.
LEMMA BodyKeptStep ==
    ASSUME ProviderInv, NEW s \in Slot, BodyKept(s) PROVE ProviderInv'
<1> DEFINE o == sent[s]
<1>1. /\ rec[s] \in Recorders /\ o \in Responses /\ rec \in [Slot -> Recorders]
      /\ RecorderOK(store, rec[s], o) /\ rec[s].pc = "body"
      /\ UNCHANGED <<store, client, sent>>
  BY DEF ProviderInv, ProviderTypes, BodyKept, At
<1>2. Grows /\ "header" \in Counters
  BY <1>1 DEF Grows, Counters
<1>3. CASE rec[s].body.kind = "plain" /\ rec' = [rec EXCEPT ![s].pc = "header"]
  <2> DEFINE r == [rec[s] EXCEPT !.pc = "header"]
  <2>1. /\ r \in Recorders /\ r.pc = "header" /\ r.body = rec[s].body /\ r.header = rec[s].header
        /\ r.cookie = rec[s].cookie /\ r.cookies = rec[s].cookies
    BY <1>1, <1>2 DEF Recorders
  <2>2. rec' = [rec EXCEPT ![s] = r]
    BY <1>1, <1>3
  <2> HIDE DEF r
  <2>3. RecorderOK(store', r, o)
    BY <1>1, <1>3, <2>1, Shapes, ConstantsAssumption DEF RecorderOK, Worth
  <2> QED BY <1>1, <1>2, <2>1, <2>2, <2>3, RecorderStep
<1>4. CASE /\ rec[s].body = [kind |-> "json", value |-> "missing"]
           /\ rec' = [rec EXCEPT ![s].pc = "header", ![s].body = NoBody]
  <2> DEFINE r == [rec[s] EXCEPT !.pc = "header", !.body = NoBody]
  <2>1. NoBody \in BodyRecords /\ NoBody.value = "empty"
    BY DEF NoBody, BodyRecords, Kinds, Values
  <2>2. /\ r \in Recorders /\ r.pc = "header" /\ r.body = NoBody /\ r.header = rec[s].header
        /\ r.cookie = rec[s].cookie /\ r.cookies = rec[s].cookies
    BY <1>1, <1>2, <2>1 DEF Recorders
  <2>3. rec' = [rec EXCEPT ![s] = r]
    BY <1>1, <1>4
  <2>4. o.body.value = "missing"
    BY <1>1, <1>4 DEF RecorderOK
  <2> HIDE DEF r
  <2>5. RecorderOK(store', r, o)
    BY <1>1, <2>1, <2>2, <2>4, ConstantsAssumption DEF RecorderOK, Worth
  <2> QED BY <1>1, <1>2, <2>2, <2>3, <2>5, RecorderStep
<1> QED BY <1>3, <1>4 DEF BodyKept

\* The token that takes the place of a JWT in the body is worth that JWT.
LEMMA BodyRewrittenStep ==
    ASSUME ProviderInv, NEW s \in Slot, NEW t \in Token, BodyRewritten(s, t) PROVE ProviderInv'
<1> DEFINE o == sent[s]
           b == [rec[s].body EXCEPT !.value = t]
           r == [rec[s] EXCEPT !.pc = "header", !.body = b]
<1>1. /\ rec[s] \in Recorders /\ o \in Responses /\ rec \in [Slot -> Recorders]
      /\ RecorderOK(store, rec[s], o) /\ rec[s].pc = "body"
      /\ AddToken(rec[s].body.value, t)
      /\ rec' = [rec EXCEPT ![s].pc = "header", ![s].body.value = t]
      /\ UNCHANGED <<client, sent>>
  BY DEF ProviderInv, ProviderTypes, BodyRewritten, At
<1>2. /\ o.body = rec[s].body /\ o.body.value \in Jwt
      /\ store'[t] = o.body.value /\ Grows
  BY <1>1, ConstantsAssumption DEF RecorderOK, AddToken, Free, ProviderInv, ProviderTypes, Grows
<1>3. "header" \in Counters /\ t \in Values /\ rec[s].body \in BodyRecords
  BY <1>1 DEF Counters, Values, Recorders
<1>4. b \in BodyRecords /\ b.value = t
  BY <1>3 DEF BodyRecords
<1>5. rec' = [rec EXCEPT ![s] = r]
  BY <1>1, <1>3 DEF Recorders
<1> HIDE DEF b
<1>6. /\ r \in Recorders /\ r.pc = "header" /\ r.body = b /\ r.header = rec[s].header
      /\ r.cookie = rec[s].cookie /\ r.cookies = rec[s].cookies
  BY <1>1, <1>3, <1>4 DEF Recorders
<1> HIDE DEF r
<1>7. RecorderOK(store', r, o)
  BY <1>1, <1>2, <1>4, <1>6, ConstantsAssumption DEF RecorderOK, Worth
<1> QED BY <1>1, <1>2, <1>5, <1>6, <1>7, RecorderStep

\* The header: kept if the provider marked none, else worth the JWT it had.
LEMMA HeaderStep ==
    ASSUME ProviderInv, NEW s \in Slot, HeaderKept(s) \/ \E t \in Token : HeaderRewritten(s, t)
    PROVE  ProviderInv'
<1> DEFINE o == sent[s]
<1>1. /\ rec[s] \in Recorders /\ o \in Responses /\ rec \in [Slot -> Recorders]
      /\ RecorderOK(store, rec[s], o) /\ rec[s].pc = "header"
      /\ UNCHANGED <<client, sent>>
  BY DEF ProviderInv, ProviderTypes, HeaderKept, HeaderRewritten, At
<1>2. "cookie" \in Counters
  BY DEF Counters
<1>3. CASE HeaderKept(s)
  <2> DEFINE r == [rec[s] EXCEPT !.pc = "cookie"]
  <2>1. rec[s].header = "none" /\ rec' = [rec EXCEPT ![s] = r] /\ store' = store /\ Grows
    BY <1>1, <1>3 DEF HeaderKept, Grows
  <2>2. /\ r \in Recorders /\ r.pc = "cookie" /\ r.body = rec[s].body /\ r.header = rec[s].header
        /\ r.cookie = rec[s].cookie /\ r.cookies = rec[s].cookies
    BY <1>1, <1>2 DEF Recorders
  <2> HIDE DEF r
  <2>3. RecorderOK(store', r, o)
    BY <1>1, <2>1, <2>2, ConstantsAssumption DEF RecorderOK, Worth
  <2> QED BY <1>1, <2>1, <2>2, <2>3, RecorderStep
<1>4. ASSUME NEW t \in Token, HeaderRewritten(s, t) PROVE ProviderInv'
  <2> DEFINE r == [rec[s] EXCEPT !.pc = "cookie", !.header = t]
  <2>1. /\ AddToken(rec[s].header, t)
        /\ rec' = [rec EXCEPT ![s] = r]
    BY <1>1, <1>4 DEF HeaderRewritten
  <2>2. /\ o.header = rec[s].header /\ o.header \in Jwt /\ store'[t] = o.header /\ Grows
    BY <1>1, <2>1, ConstantsAssumption
    DEF RecorderOK, AddToken, Free, ProviderInv, ProviderTypes, Grows
  <2>3. t \in Values
    BY DEF Values
  <2>4. /\ r \in Recorders /\ r.pc = "cookie" /\ r.body = rec[s].body /\ r.header = t
        /\ r.cookie = rec[s].cookie /\ r.cookies = rec[s].cookies
    BY <1>1, <1>2, <2>3 DEF Recorders
  <2>5. RecorderOK(store', rec[s], o)
    BY <1>1, <2>2, OthersKept DEF ProviderInv
  <2> HIDE DEF r
  <2>6. RecorderOK(store', r, o)
    BY <1>1, <2>2, <2>4, <2>5, ConstantsAssumption DEF RecorderOK, Worth
  <2> QED BY <1>1, <2>1, <2>2, <2>4, <2>6, RecorderStep
<1> QED BY <1>3, <1>4

\* The cookie: the token is added to the ones that the response sets.
LEMMA CookieStep ==
    ASSUME ProviderInv, NEW s \in Slot, CookieKept(s) \/ \E t \in Token : CookieRewritten(s, t)
    PROVE  ProviderInv'
<1> DEFINE o == sent[s]
<1>1. /\ rec[s] \in Recorders /\ o \in Responses /\ rec \in [Slot -> Recorders]
      /\ RecorderOK(store, rec[s], o) /\ rec[s].pc = "cookie"
      /\ UNCHANGED <<client, sent>>
  BY DEF ProviderInv, ProviderTypes, CookieKept, CookieRewritten, At
<1>2. "copy" \in Counters
  BY DEF Counters
<1>3. CASE CookieKept(s)
  <2> DEFINE r == [rec[s] EXCEPT !.pc = "copy"]
  <2>1. rec[s].cookie = "none" /\ rec' = [rec EXCEPT ![s] = r] /\ store' = store /\ Grows
    BY <1>1, <1>3 DEF CookieKept, Grows
  <2>2. /\ r \in Recorders /\ r.pc = "copy" /\ r.body = rec[s].body /\ r.header = rec[s].header
        /\ r.cookie = rec[s].cookie /\ r.cookies = rec[s].cookies
    BY <1>1, <1>2 DEF Recorders
  <2> HIDE DEF r
  <2>3. RecorderOK(store', r, o)
    BY <1>1, <2>1, <2>2 DEF RecorderOK
  <2> QED BY <1>1, <2>1, <2>2, <2>3, RecorderStep
<1>4. ASSUME NEW t \in Token, CookieRewritten(s, t) PROVE ProviderInv'
  <2> DEFINE more == rec[s].cookies \cup {t}
             r == [rec[s] EXCEPT !.pc = "copy", !.cookies = more]
  <2>1. /\ AddToken(rec[s].cookie, t)
        /\ rec' = [rec EXCEPT ![s] = r]
    BY <1>1, <1>4 DEF CookieRewritten, Recorders
  <2>2. /\ o.cookie = rec[s].cookie /\ o.cookie \in Jwt /\ store'[t] = o.cookie /\ Grows
    BY <1>1, <2>1, ConstantsAssumption
    DEF RecorderOK, AddToken, Free, ProviderInv, ProviderTypes, Grows
  <2>3. more \in SUBSET Values /\ more \cap Token = {t}
    <3>1. rec[s].cookies \in SUBSET Values /\ rec[s].cookies \cap Token = {}
      BY <1>1 DEF RecorderOK, Recorders
    <3> QED BY <3>1 DEF Values
  <2> HIDE DEF more
  <2>4. /\ r \in Recorders /\ r.pc = "copy" /\ r.body = rec[s].body /\ r.header = rec[s].header
        /\ r.cookie = rec[s].cookie /\ r.cookies = more
    BY <1>1, <1>2, <2>3 DEF Recorders
  <2>5. RecorderOK(store', rec[s], o)
    BY <1>1, <2>2, OthersKept DEF ProviderInv
  <2> HIDE DEF r
  <2>6. RecorderOK(store', r, o)
    BY <1>1, <2>2, <2>3, <2>4, <2>5 DEF RecorderOK, Worth
  <2> QED BY <1>1, <2>1, <2>2, <2>4, <2>6, RecorderStep
<1> QED BY <1>3, <1>4

\* What is copied to the client is what the recorder holds.
LEMMA CopyStep ==
    ASSUME ProviderInv, NEW s \in Slot, Copy(s) PROVE ProviderInv'
<1> DEFINE o == sent[s]
           k == [status |-> "upstream", body |-> rec[s].body.value, header |-> rec[s].header,
                 cookies |-> rec[s].cookies]
<1>1. /\ o \in Responses /\ RecorderOK(store, rec[s], o) /\ rec[s].pc = "copy"
      /\ rec' = [rec EXCEPT ![s] = Idle] /\ client' = [client EXCEPT ![s] = k]
      /\ sent' = [sent EXCEPT ![s] = o] /\ store' = store
  BY DEF ProviderInv, ProviderTypes, Copy, At
<1>2. ClientOK(store', k, o)
  BY <1>1 DEF RecorderOK, ClientOK
<1>3. Idle \in Recorders /\ RecorderOK(store', Idle, o)
  BY IdleOK
<1>4. Grows
  BY <1>1 DEF Grows
<1> HIDE DEF k
<1> QED BY <1>1, <1>2, <1>3, <1>4, SlotStep

\* Every step keeps the invariant.
LEMMA ProviderStep == ProviderInv /\ [Next]_vars => ProviderInv'
<1> SUFFICES ASSUME ProviderInv, [Next]_vars PROVE ProviderInv'
  OBVIOUS
<1>1. ASSUME NEW s \in Slot, BodyError(s) \/ HeaderError(s) \/ CookieError(s) PROVE ProviderInv'
  BY <1>1, GiveUpStep DEF BodyError, HeaderError, CookieError, Fail
<1>2. ASSUME NEW s \in Slot, BodyPanic(s) PROVE ProviderInv'
  BY <1>2, GiveUpStep DEF BodyPanic
<1>3. CASE UNCHANGED vars
  BY <1>3 DEF vars, ProviderInv, ProviderTypes
<1> QED
  BY <1>1, <1>2, <1>3, RespondStep, BodyKeptStep, BodyRewrittenStep, HeaderStep, CookieStep,
     CopyStep DEF Next, Rewrite

\* At first no response is under way and nothing is stored.
LEMMA ProviderAlways == Spec => []ProviderInv
<1>1. Init => ProviderInv
  <2> SUFFICES ASSUME Init PROVE ProviderInv
    OBVIOUS
  <2>1. Unmarked \in Responses
    BY DEF Unmarked, Responses, Bodies
  <2>2. /\ Nothing.body = "empty" /\ Nothing.header = "none" /\ Nothing.cookies = {}
        /\ Nothing.status # "upstream"
    BY DEF Nothing
  <2>3. \A st, o : RecorderOK(st, Idle, o) /\ ClientOK(st, Nothing, o)
    BY <2>2, IdleOK
  <2>4. ProviderTypes
    BY <2>1, IdleOK DEF Init, ProviderTypes
  <2> QED BY <2>3, <2>4 DEF Init, ProviderInv
<1> QED BY <1>1, ProviderStep, PTL DEF Spec

\* No marked body or header reaches a client with a JWT in it, whichever of the
\* tokens could be stored.
THEOREM Shield == Spec => []Shielded
<1>1. ProviderInv => Shielded
  BY DEF ProviderInv, ClientOK, Shielded
<1> QED BY <1>1, ProviderAlways, PTL

\* Every token that a client was sent is worth the JWT of its place, for ever.
THEOREM Redeem == Spec => []Redeemable
<1>1. ProviderInv => Redeemable
  BY DEF ProviderInv, ClientOK, Worth, Redeemable
<1> QED BY <1>1, ProviderAlways, PTL

\* A response is copied only if each marked JWT has been replaced by a token.
THEOREM Complete == Spec => []AllOrNothing
<1>1. ProviderInv => AllOrNothing
  BY DEF ProviderInv, ClientOK, AllOrNothing
<1> QED BY <1>1, ProviderAlways, PTL
=============================================================================
