----------------------------- MODULE AmqpLogging ----------------------------
(***************************************************************************)
(* The audit log of httplogging/amqp.go: every authenticated request is    *)
(* published to an exchange of an AMQP broker by a goroutine of its own.   *)
(* buildLoggers (main.go) makes the loggers; connect() dials, opens a      *)
(* channel and declares the exchange, when a logger is made and again five *)
(* seconds after its connection was lost.                                  *)
(*                                                                         *)
(* The loggers keep a pointer to the loop variable of buildLoggers, which  *)
(* is one cell for all turns of the loop (the module is at Go 1.21): once  *)
(* the loop is over, all of them read the last entry of the configuration. *)
(*                                                                         *)
(* The broker is external.  It closes a channel, and not its connection,   *)
(* when a message is published to an exchange it does not have; the        *)
(* default exchange, with the empty name, always exists and drops a        *)
(* message with such a routing key.                                        *)
(***************************************************************************)
EXTENDS Integers, Sequences

CONSTANTS
    Configs,   \* the values cfg.Logging may have: nonempty sequences of records of type,
               \* broker (Uri), exchange and unsafeOnly
    Request,   \* authenticated requests, as records of unsafe
    NoBroker,  \* the empty Uri
    Default,   \* the empty exchange name
    MaxFaults  \* bound on what goes wrong with a broker

Apache == [type |-> "apache", broker |-> NoBroker, exchange |-> Default, unsafeOnly |-> FALSE]

ASSUME LogAssumption ==
    /\ MaxFaults \in Nat
    /\ \A cfg \in Configs :
          /\ Len(cfg) \in Nat \ {0} /\ DOMAIN cfg = 1 .. Len(cfg)
          /\ \A i \in DOMAIN cfg : cfg[i].type # "amqp" => cfg[i] = Apache

Index == UNION {DOMAIN cfg : cfg \in Configs}

VARIABLES
    logging,    \* cfg.Logging
    cell,       \* the loop variable: the index of the entry it holds
    phase,      \* "build", "serving" or "failed"
    link,       \* link[i]: connection, channel and goroutines of logger i
    exchanges,  \* the exchanges that were declared, with their brokers
    audit,      \* audit[i][r]: what became of the entry of logger i on request r
    faults,     \* what has gone wrong so far
    hurt        \* history: loggers and what went wrong with them

logVars == <<logging, cell, phase, link, exchanges, audit, faults, hurt>>

Amqp == {i \in DOMAIN logging : logging[i].type = "amqp"}
Config == logging[cell]

\* pc is where connect() is, up and open say whether the connection and c.channel
\* are usable, watch is the goroutine that waits for the connection to close or,
\* afterwards, for its timer.
Unlinked == [pc |-> "idle", up |-> FALSE, open |-> FALSE, watch |-> "none", broker |-> NoBroker]

\* The turn of the loop for entry i begins.
Turn(i, ls) ==
    IF logging[i].type = "amqp" THEN [ls EXCEPT ![i].pc = "dial"] ELSE ls

LogInit ==
    /\ logging \in Configs
    /\ cell = 1
    /\ phase = "build"
    /\ link = Turn(1, [i \in Index |-> Unlinked])
    /\ exchanges = {}
    /\ audit = [i \in Index |-> [r \in Request |-> <<"none">>]]
    /\ faults = 0 /\ hurt = {}

\* Mutant: the loop variable of the first turn is kept.
NextTurnFirstKept ==
    /\ phase = "build" /\ link[cell].pc = "idle"
    /\ IF cell = Len(logging)
       THEN phase' = "serving" /\ cell' = 1 /\ UNCHANGED link
       ELSE phase' = phase /\ cell' = cell + 1 /\ link' = Turn(cell + 1, link)
    /\ UNCHANGED <<logging, exchanges, audit, faults, hurt>>

\* LoggerFromConfig has returned: the next entry, or the gateway starts to serve.
NextTurn ==
    /\ phase = "build" /\ link[cell].pc = "idle"
    /\ IF cell = Len(logging)
       THEN phase' = "serving" /\ UNCHANGED <<cell, link>>
       ELSE phase' = phase /\ cell' = cell + 1 /\ link' = Turn(cell + 1, link)
    /\ UNCHANGED <<logging, exchanges, audit, faults, hurt>>

Fault(i, kind) ==
    /\ faults < MaxFaults
    /\ faults' = faults + 1
    /\ hurt' = hurt \cup {<<i, kind>>}

\* connect() returned an error: buildLoggers gives up, and main with it, but a
\* reconnection only logs it.
ConnectFails(i) == phase' = IF phase = "build" /\ i = cell THEN "failed" ELSE phase

(***************************************************************************)
(* connect().                                                              *)
(***************************************************************************)

Dial(i) ==
    /\ link[i].pc = "dial" /\ Config.broker # NoBroker
    /\ link' = [link EXCEPT ![i] = [@ EXCEPT !.pc = "channel", !.up = TRUE,
                                             !.watch = "watching", !.broker = Config.broker]]
    /\ UNCHANGED <<logging, cell, phase, exchanges, audit, faults, hurt>>

\* There is no new watcher: nothing will try again.
DialError(i) ==
    /\ link[i].pc = "dial"
    /\ link' = [link EXCEPT ![i].pc = "idle"]
    /\ ConnectFails(i)
    /\ \/ Fault(i, "refused")
       \/ Config.broker = NoBroker /\ hurt' = hurt \cup {<<i, "refused">>} /\ UNCHANGED faults
    /\ UNCHANGED <<logging, cell, exchanges, audit>>

OpenChannel(i) ==
    /\ link[i].pc = "channel" /\ link[i].up
    /\ link' = [link EXCEPT ![i].pc = "declare", ![i].open = TRUE]
    /\ UNCHANGED <<logging, cell, phase, exchanges, audit, faults, hurt>>

\* Mutant: the exchange is not declared.
DeclareNothing(i) ==
    /\ link[i].pc = "declare" /\ link[i].open
    /\ link' = [link EXCEPT ![i].pc = "idle"]
    /\ UNCHANGED <<logging, cell, phase, exchanges, audit, faults, hurt>>

Declare(i) ==
    /\ link[i].pc = "declare" /\ link[i].open
    /\ link' = [link EXCEPT ![i].pc = "idle"]
    /\ exchanges' = exchanges \cup {<<link[i].broker, Config.exchange>>}
    /\ UNCHANGED <<logging, cell, phase, audit, faults, hurt>>

\* Channel() or ExchangeDeclare reports an error, because the broker refuses, or
\* because the connection is gone; one that is still up stays open, and watched.
ChannelError(i) ==
    /\ link[i].pc \in {"channel", "declare"}
    /\ IF link[i].up THEN Fault(i, "refused") ELSE UNCHANGED <<faults, hurt>>
    /\ link' = [link EXCEPT ![i].pc = "idle", ![i].open = FALSE]
    /\ ConnectFails(i)
    /\ UNCHANGED <<logging, cell, exchanges, audit>>

\* Mutant: the watcher ends without a timer.
DownUnwatched(i) == [link[i] EXCEPT !.up = FALSE, !.open = FALSE, !.watch = "none"]

\* A connection that closes takes its channels with it and wakes the watcher.
Down(i) == [link[i] EXCEPT !.up = FALSE, !.open = FALSE, !.watch = "timer"]

LoseConnection(i) ==
    /\ link[i].up /\ Fault(i, "lost")
    /\ link' = [link EXCEPT ![i] = Down(i)]
    /\ UNCHANGED <<logging, cell, phase, exchanges, audit>>

\* The timer of five seconds.  connect() is over by then: on a connection that is
\* closed its commands return at once.
Reconnect(i) ==
    /\ link[i].watch = "timer" /\ link[i].pc = "idle"
    /\ link' = [link EXCEPT ![i].watch = "none", ![i].pc = "dial"]
    /\ UNCHANGED <<logging, cell, phase, exchanges, audit, faults, hurt>>

(***************************************************************************)
(* Publishing.                                                             *)
(***************************************************************************)

match(i, r) == logging[i].unsafeOnly => r.unsafe

\* DecorateHandler tells the listeners of a request, and each starts a goroutine.
OnAuthenticatedRequest(r) ==
    /\ phase = "serving"
    /\ \A i \in Amqp : audit[i][r] = <<"none">>
    /\ \E i \in Amqp : match(i, r)
    /\ audit' = [i \in Index |->
                    IF i \in Amqp /\ match(i, r) THEN [audit[i] EXCEPT ![r] = <<"pending">>]
                    ELSE audit[i]]
    /\ UNCHANGED <<logging, cell, phase, link, exchanges, faults, hurt>>

Settle(i, r, result) == audit' = [audit EXCEPT ![i][r] = result]

\* VerifyToken, whose error only leaves the subject of the entry empty, and Publish
\* on the channel and with the exchange of that moment.
Publish(i, r) ==
    LET target == <<link[i].broker, Config.exchange>>
    IN /\ audit[i][r] = <<"pending">> /\ link[i].open
       /\ \/ target \in exchanges /\ Settle(i, r, target) /\ UNCHANGED link
          \/ /\ target \notin exchanges
             /\ Settle(i, r, <<"lost">>)
             /\ IF Config.exchange = Default THEN UNCHANGED link
                ELSE link' = [link EXCEPT ![i].open = FALSE]
       /\ hurt' = IF target \in exchanges THEN hurt ELSE hurt \cup {<<i, "unknown">>}
       /\ UNCHANGED <<logging, cell, phase, exchanges, faults>>

\* The channel is closed: the error is logged, and the entry gone.
PublishError(i, r) ==
    /\ audit[i][r] = <<"pending">> /\ ~link[i].open
    /\ Settle(i, r, <<"lost">>)
    /\ UNCHANGED <<logging, cell, phase, link, exchanges, faults, hurt>>

\* Publish has returned, and the connection breaks with the message on its way.
PublishInVain(i, r) ==
    /\ audit[i][r] = <<"pending">> /\ link[i].open /\ Fault(i, "lost")
    /\ Settle(i, r, <<"lost">>)
    /\ link' = [link EXCEPT ![i] = Down(i)]
    /\ UNCHANGED <<logging, cell, phase, exchanges>>

Connecting(i) ==
    Dial(i) \/ DialError(i) \/ OpenChannel(i) \/ Declare(i) \/ ChannelError(i) \/ Reconnect(i)
Publishing(i) ==
    \E r \in Request : Publish(i, r) \/ PublishError(i, r) \/ PublishInVain(i, r)

LogNext ==
    /\ phase # "failed"
    /\ \/ NextTurn
       \/ \E i \in Amqp : Connecting(i) \/ Publishing(i) \/ LoseConnection(i)
       \/ \E r \in Request : OnAuthenticatedRequest(r)

\* Goroutines keep running, and a broker answers a command or refuses it.
Fairness ==
    /\ WF_logVars(NextTurn)
    /\ \A i \in Index : /\ WF_logVars(i \in Amqp /\ Connecting(i))
                        /\ WF_logVars(i \in Amqp /\ Publishing(i))

LogSpec == LogInit /\ [][LogNext]_logVars /\ Fairness

(***************************************************************************)
(* Properties.                                                             *)
(***************************************************************************)

\* The entries of the logger that is configured last end up at its own broker, in
\* its own exchange, across reconnections and whatever the others are configured
\* with; those of the others are under the name of that exchange as well, on a
\* broker that also has it.
HomeExchange ==
    \A i \in Amqp, r \in Request :
        audit[i][r] \in exchanges
        => /\ audit[i][r][2] = logging[Len(logging)].exchange
           /\ i = Len(logging) => audit[i][r][1] = logging[i].broker

\* The last logger loses no entry as long as nothing goes wrong between it and its
\* broker; the others do not either when they share the last one's broker.
LossHasCause ==
    \A i \in Amqp, r \in Request :
        LET last == logging[Len(logging)]
        IN audit[i][r] = <<"lost">> /\ last.type = "amqp" /\ last.broker = logging[i].broker
           => {<<i, "lost">>, <<i, "refused">>} \cap hurt # {}

\* A lost connection is replaced, again and again: an audit log without a usable
\* channel gets one, unless an attempt to connect was refused, which is never
\* repeated, or the broker closed the channel over an exchange it does not have.
Reconnects ==
    \A i \in Index :
        (i \in Amqp /\ phase = "serving" /\ ~link[i].open)
        ~> (link[i].open \/ {<<i, "refused">>, <<i, "unknown">>} \cap hurt # {})

=============================================================================
