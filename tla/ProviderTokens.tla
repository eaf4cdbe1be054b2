--------------------------- MODULE ProviderTokens ---------------------------
(***************************************************************************)
(* What the gateway does with the responses of an application that is the  *)
(* authentication provider: rewriteAccessTokens and the end of             *)
(* DecorateHandler (auth/rest.go).  JWTs in the body, in a header and in a *)
(* cookie that the provider marks are stored, and the access token they    *)
(* are stored under takes their place.                                     *)
(*                                                                         *)
(* A string is a JWT, an access token, or "junk", which is anything else.  *)
(* AddToken of the token store is external here (TokenStore models it):    *)
(* it verifies the string, draws a fresh token, and may fail.              *)
(***************************************************************************)
EXTENDS Naturals, FiniteSets

CONSTANTS
    Slot,     \* responses under way
    Jwt,      \* JWTs
    Signed,   \* the JWTs that the verification key accepts
    Token,    \* access tokens
    NoJwt     \* nothing is stored under a token

ASSUME ConstantsAssumption ==
    /\ Signed \subseteq Jwt
    /\ Jwt \cap Token = {} /\ NoJwt \notin Jwt
    /\ (Jwt \cup Token) \cap {"junk", "none", "missing", "empty", "number", "unparsable"} = {}

(***************************************************************************)
(* body is the text of an application/jwt response, the field of a JSON    *)
(* object that X-Gateway-BodyToken names, or plain.  header and cookie are *)
(* what X-Gateway-HeaderToken and X-Gateway-CookieToken name, or "none" if *)
(* the response has no such mark.                                          *)
(***************************************************************************)
Bodies ==
    [kind : {"jwt"}, value : Jwt \cup {"junk"}]
    \cup [kind : {"json"}, value : Jwt \cup {"junk", "missing", "number", "unparsable"}]
    \cup [kind : {"plain"}, value : {"junk"}]
Responses == [body : Bodies, header : Jwt \cup {"none", "missing"},
              cookie : Jwt \cup {"none", "missing"}]

VARIABLES
    store,  \* store[t]: the JWT that the token store has for t
    rec,    \* rec[s]: where response s is, and the recorder that holds it
    client, \* client[s]: what the client has received
    sent    \* history: sent[s] is the response as the provider sent it

vars == <<store, rec, client, sent>>

NoBody == [kind |-> "plain", value |-> "empty"]
Idle == [pc |-> "idle", body |-> NoBody, header |-> "none", cookie |-> "none",
         cookies |-> {}]
Unmarked == [body |-> [kind |-> "plain", value |-> "junk"], header |-> "none", cookie |-> "none"]
Nothing == [status |-> "none", body |-> "empty", header |-> "none", cookies |-> {}]

Init ==
    /\ store = [t \in Token |-> NoJwt]
    /\ rec = [s \in Slot |-> Idle]
    /\ client = [s \in Slot |-> Nothing]
    /\ sent = [s \in Slot |-> Unmarked]

At(s, pc) == rec[s].pc = pc
Free == {t \in Token : store[t] = NoJwt}

\* AddToken(value) answers with the fresh token t.
AddToken(value, t) ==
    /\ value \in Signed /\ t \in Free
    /\ store' = [store EXCEPT ![t] = value]

\* handleError writes to the recorder, which nobody copies any more: the client
\* is sent an empty response with the default status.
Fail(s) ==
    /\ rec' = [rec EXCEPT ![s] = Idle]
    /\ client' = [client EXCEPT ![s] = [Nothing EXCEPT !.status = "200"]]

(***************************************************************************)
(* The steps.                                                              *)
(***************************************************************************)

\* orig has filled the recorder.
Respond(s, r) ==
    /\ At(s, "idle")
    /\ rec' = [rec EXCEPT ![s] = [pc |-> "body", body |-> r.body, header |-> r.header,
                                  cookie |-> r.cookie,
                                  cookies |-> {r.cookie} \cap Jwt]]
    /\ client' = [client EXCEPT ![s] = Nothing]
    /\ sent' = [sent EXCEPT ![s] = r]
    /\ UNCHANGED store

\* rewriteBodyAccessTokens: nothing to rewrite, or a JSON object that lacks the
\* field, whose text has been read away by then.
BodyKept(s) ==
    /\ At(s, "body")
    /\ \/ /\ rec[s].body.kind = "plain"
          /\ rec' = [rec EXCEPT ![s].pc = "header"]
       \/ /\ rec[s].body = [kind |-> "json", value |-> "missing"]
          /\ rec' = [rec EXCEPT ![s].pc = "header", ![s].body = NoBody]
    /\ UNCHANGED <<store, client, sent>>

BodyRewritten(s, t) ==
    /\ At(s, "body") /\ rec[s].body.kind \in {"jwt", "json"}
    /\ AddToken(rec[s].body.value, t)
    /\ rec' = [rec EXCEPT ![s].pc = "header", ![s].body.value = t]
    /\ UNCHANGED <<client, sent>>

\* Mutant: the error is logged, and the response goes on as it is.
BodyErrorIgnored(s) ==
    /\ At(s, "body") /\ rec[s].body.kind \in {"jwt", "json"}
    /\ rec[s].body.value \notin {"missing", "number"}
    /\ rec' = [rec EXCEPT ![s].pc = "header"]
    /\ UNCHANGED <<store, client, sent>>

\* The body is no JSON, or AddToken fails.
BodyError(s) ==
    /\ At(s, "body") /\ rec[s].body.kind \in {"jwt", "json"}
    /\ rec[s].body.value \notin {"missing", "number"}
    /\ Fail(s)
    /\ UNCHANGED <<store, sent>>

\* bodyToken.(string) panics on a field that is no string; net/http drops the
\* connection.
BodyPanic(s) ==
    /\ At(s, "body") /\ rec[s].body.value = "number"
    /\ rec' = [rec EXCEPT ![s] = Idle]
    /\ client' = [client EXCEPT ![s] = [Nothing EXCEPT !.status = "panic"]]
    /\ UNCHANGED <<store, sent>>

\* rewriteHeaderAccessTokens
HeaderKept(s) ==
    /\ At(s, "header") /\ rec[s].header = "none"
    /\ rec' = [rec EXCEPT ![s].pc = "cookie"]
    /\ UNCHANGED <<store, client, sent>>

\* Mutant: the header gets the token of the body.
HeaderRewrittenTwice(s, t) ==
    /\ At(s, "header") /\ rec[s].header # "none"
    /\ AddToken(rec[s].header, t)
    /\ rec' = [rec EXCEPT ![s].pc = "cookie",
                          ![s].header = IF rec[s].body.value \in Token
                                        THEN rec[s].body.value ELSE t]
    /\ UNCHANGED <<client, sent>>

HeaderRewritten(s, t) ==
    /\ At(s, "header") /\ rec[s].header # "none"
    /\ AddToken(rec[s].header, t)
    /\ rec' = [rec EXCEPT ![s].pc = "cookie", ![s].header = t]
    /\ UNCHANGED <<client, sent>>

\* Mutant: a header that is missing is passed over.
HeaderErrorSkipped(s) ==
    /\ At(s, "header") /\ rec[s].header # "none"
    /\ IF rec[s].header = "missing"
       THEN rec' = [rec EXCEPT ![s].pc = "cookie"] /\ UNCHANGED client
       ELSE Fail(s)
    /\ UNCHANGED <<store, sent>>

\* A header that is missing is the empty string to AddToken.
HeaderError(s) ==
    /\ At(s, "header") /\ rec[s].header # "none"
    /\ Fail(s)
    /\ UNCHANGED <<store, sent>>

\* rewriteCookieAccessTokens
CookieKept(s) ==
    /\ At(s, "cookie") /\ rec[s].cookie = "none"
    /\ rec' = [rec EXCEPT ![s].pc = "copy"]
    /\ UNCHANGED <<store, client, sent>>

\* http.SetCookie adds a Set-Cookie header, it replaces none.
CookieRewritten(s, t) ==
    /\ At(s, "cookie") /\ rec[s].cookie # "none"
    /\ AddToken(rec[s].cookie, t)
    /\ rec' = [rec EXCEPT ![s].pc = "copy", ![s].cookies = @ \cup {t}]
    /\ UNCHANGED <<client, sent>>

CookieError(s) ==
    /\ At(s, "cookie") /\ rec[s].cookie # "none"
    /\ Fail(s)
    /\ UNCHANGED <<store, sent>>

\* The recorder is copied to the client.
Copy(s) ==
    /\ At(s, "copy")
    /\ client' = [client EXCEPT ![s] =
                    [status |-> "upstream", body |-> rec[s].body.value,
                     header |-> rec[s].header, cookies |-> rec[s].cookies]]
    /\ rec' = [rec EXCEPT ![s] = Idle]
    /\ UNCHANGED <<store, sent>>

Rewrite(s) ==
    \/ BodyKept(s) \/ BodyError(s) \/ BodyPanic(s)
    \/ HeaderKept(s) \/ HeaderError(s) \/ CookieKept(s) \/ CookieError(s)
    \/ \E t \in Token : BodyRewritten(s, t) \/ HeaderRewritten(s, t) \/ CookieRewritten(s, t)

Next == \E s \in Slot : (\E r \in Responses : Respond(s, r)) \/ Rewrite(s) \/ Copy(s)

Spec == Init /\ [][Next]_vars

(***************************************************************************)
(* Properties.                                                             *)
(***************************************************************************)

\* The service gateway does not expose JWTs in a marked body or header, neither
\* when every token could be stored nor when one of several could not.
Shielded == \A s \in Slot : {client[s].body, client[s].header} \cap Jwt = {}

\* A token that a client receives is worth exactly the JWT that the provider had
\* put in that place: the token store resolves it to that one.
Redeemable ==
    \A s \in Slot :
        LET got == client[s]
        IN /\ got.body \in Token => store[got.body] = sent[s].body.value
           /\ got.header \in Token => store[got.header] = sent[s].header
           /\ \A t \in got.cookies \cap Token : store[t] = sent[s].cookie

\* A marked place never comes back empty-handed: a response that is copied to the
\* client has a token wherever the provider had put a JWT.
AllOrNothing ==
    \A s \in Slot :
        client[s].status = "upstream"
        => /\ sent[s].body.value \in Jwt => client[s].body \in Token
           /\ sent[s].header # "none" => client[s].header \in Token
           /\ sent[s].cookie # "none" => client[s].cookies \cap Token # {}
=============================================================================
