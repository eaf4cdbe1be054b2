---------------------------- MODULE TokenListing ----------------------------
(***************************************************************************)
(* GET /tokens of the admin API (admin/server.go) over GetAllTokens        *)
(* (auth/tokenstore.go), beside the writers and readers of TokenStore.     *)
(*                                                                         *)
(* Two goroutines take part.  The producer holds a Redis connection, reads *)
(* the keys one after the other and sends an entry for each on an          *)
(* unbuffered channel; the consumer is the HTTP handler, which writes the  *)
(* entries to the client.  The keys were listed before the first of them   *)
(* is read, and the store changes meanwhile.  The listing gateway is not   *)
(* one of those that restart.                                              *)
(***************************************************************************)
EXTENDS TokenStore

VARIABLES
    producer,  \* where the goroutine of GetAllTokens is
    consumer,  \* where the HTTP handler is
    todo,      \* the keys that the producer has not read
    entry,     \* the entry it wants to send
    owed       \* history: tokens as they were at KEYS that the client has not got

listing == <<producer, consumer, todo, entry>>
lvars == <<vars, listing, owed>>

\* What an expired key, and an HGETALL that fails, give: two empty strings.
Blanks == [token |-> NoToken, jwt |-> NoJwt]

ListInit ==
    /\ Init
    /\ producer = "none" /\ consumer = "idle"
    /\ todo = {} /\ entry = Blanks /\ owed = {}

\* GET /tokens; the producer of an earlier request has ended.
GetTokens ==
    /\ consumer = "idle" /\ producer = "none"
    /\ consumer' = "keys"
    /\ UNCHANGED <<vars, producer, todo, entry, owed>>

Keys == {t \in Token : redis[t].jwt # NoJwt}

\* Mutant: the channel is not closed when there are no keys.
ListKeysOpen ==
    /\ consumer = "keys"
    /\ todo' = Keys /\ owed' = Keys
    /\ producer' = "hgetall"
    /\ consumer' = "range"
    /\ UNCHANGED <<vars, entry>>

\* KEYS; without any key the channel is closed and the connection given back at
\* once, and there is no producer.
ListKeys ==
    /\ consumer = "keys"
    /\ todo' = Keys /\ owed' = Keys
    /\ producer' = IF Keys = {} THEN "none" ELSE "hgetall"
    /\ consumer' = "range"
    /\ UNCHANGED <<vars, entry>>

\* The connection is given back and the client answered with 500.
ListKeysError ==
    /\ consumer = "keys"
    /\ consumer' = "idle"
    /\ UNCHANGED <<vars, producer, todo, entry, owed>>

\* HGETALL of the next key.
HGetAll(t) ==
    /\ producer = "hgetall" /\ t \in todo
    /\ todo' = todo \ {t}
    /\ entry' = IF redis[t].jwt = NoJwt THEN Blanks ELSE [token |-> t, jwt |-> redis[t].jwt]
    /\ producer' = "send"
    /\ UNCHANGED <<vars, consumer, owed>>

\* Its error is ignored, and the entry is sent nevertheless.
HGetAllError(t) ==
    /\ producer = "hgetall" /\ t \in todo
    /\ todo' = todo \ {t}
    /\ entry' = Blanks
    /\ producer' = "send"
    /\ owed' = owed \ {t}
    /\ UNCHANGED <<vars, consumer>>

\* Mutant: the loop ends before its last entry is sent.
SendAllButLast ==
    /\ producer = "send" /\ consumer = "range"
    /\ consumer' = IF todo = {} THEN "range" ELSE "encode"
    /\ producer' = IF todo = {} THEN "none" ELSE "hgetall"
    /\ entry' = Blanks
    /\ owed' = owed \ (IF todo = {} THEN {} ELSE {entry.token})
    /\ UNCHANGED <<vars, todo>>

\* The rendezvous on the channel.  After the last entry the producer gives the
\* connection back and closes the channel, which takes it no second party.
Send ==
    /\ producer = "send" /\ consumer = "range"
    /\ consumer' = "encode"
    /\ producer' = IF todo = {} THEN "none" ELSE "hgetall"
    /\ entry' = Blanks
    /\ owed' = {t \in owed : entry # [token |-> t, jwt |-> redis[t].jwt]}
    /\ UNCHANGED <<vars, todo>>

Encode ==
    /\ consumer = "encode"
    /\ consumer' = "range"
    /\ UNCHANGED <<vars, producer, todo, entry, owed>>

\* The client is gone: the handler returns and leaves the channel.
EncodeError ==
    /\ consumer = "encode"
    /\ consumer' = IF producer = "none" THEN "idle" ELSE "stopped"
    /\ owed' = {}
    /\ UNCHANGED <<vars, producer, todo, entry>>

\* The channel is closed and drained: the handler writes the last bracket.
Drained ==
    /\ consumer = "range" /\ producer = "none"
    /\ consumer' = "idle"
    /\ owed' = {}
    /\ UNCHANGED <<vars, producer, todo, entry>>

Produce == (\E t \in todo : HGetAll(t) \/ HGetAllError(t)) \/ Send
Consume == ListKeys \/ ListKeysError \/ Encode \/ EncodeError \/ Drained

\* The store goes on; nothing is owed of a token whose JWT changes.
StoreStep ==
    /\ Next
    /\ owed' = {t \in owed : redis'[t].jwt = redis[t].jwt}
    /\ UNCHANGED listing

ListNext == StoreStep \/ GetTokens \/ Produce \/ Consume

\* Both goroutines keep running as long as they can.
ListSpec == ListInit /\ [][ListNext]_lvars /\ WF_lvars(Produce) /\ WF_lvars(Consume)

(***************************************************************************)
(* Properties.                                                             *)
(***************************************************************************)

\* Every token that keeps its JWT from KEYS to the closing bracket is in a listing
\* that runs through, with that JWT, unless its own read failed; tokens written,
\* updated or expired meanwhile appear with a verified JWT, as blanks, or not.
ListingComplete ==
    /\ entry = Blanks \/ (entry.token \in Token /\ entry.jwt \in Signed)
    /\ consumer = "range" /\ producer = "none" => owed = {}

\* A listing comes to its end, however the store changes and whichever commands
\* fail.  Its connection is given back too, unless the handler stopped reading:
\* the producer then waits for ever on the channel with the connection in hand.
ListingEnds ==
    /\ consumer = "keys" ~> consumer \in {"idle", "stopped"}
    /\ producer # "none" ~> (producer = "none" \/ consumer = "stopped")
=============================================================================
