----------------------------- MODULE MainProofs -----------------------------
(***************************************************************************)
(* Proofs about three state machines that main.go sets up: the life of the *)
(* process (Shutdown), the audit loggers that buildLoggers makes           *)
(* (AmqpLogging) and the key of the JWT verifier (JwtVerifier).  They      *)
(* share nothing, and each theorem is about one of them.                   *)
(***************************************************************************)
EXTENDS AmqpLogging, Shutdown, JwtVerifier, TLAPS

(***************************************************************************)
(* The end of the process: what has been done when it ends, whatever ended *)
(* it, whatever the interrupts and however the goroutines interleave.      *)
(***************************************************************************)

MonitorStates == {"none", "wait", "deregister", "complete", "ended", "failed"}
CloserStates == {"none", "wait", "proxy", "admin", "complete", "ended"}
BuilderStates == {"none", "build", "create", "admin", "ended", "failed"}
MainStates == {"register", "setup", "wait", "exited", "killed"}
ServerStates == {"none", "listen", "serving", "failed", "closed"}

\* The states of the goroutines that the two chains of channels go through.
ChainTypes ==
    /\ monitor \in MonitorStates
    /\ closer \in CloserStates
    /\ builder \in BuilderStates
    /\ main \in MainStates
    /\ waiter \in {"none", "monitoring", "servers", "done", "ended"}
    /\ created \in [Server -> BOOLEAN]
    /\ server \in [Server -> ServerStates]

\* The chain that ends with the exit: main waits for the waiter, the waiter for
\* the monitoring controller, and the controller for Consul.
MonitorChain ==
    /\ main = "exited" => waiter = "ended"
    /\ waiter \notin {"none", "monitoring"} => monitor = "ended"
    /\ monitor \in {"complete", "ended"} => ~registered
    /\ registered => WithConsul

\* What can end the process without main's return: nothing but the profiling
\* handler once main waits and the building goroutine has the dispatcher.
KillChain ==
    /\ main \in {"register", "setup"} => waiter = "none" /\ builder = "none"
    /\ main = "register" => monitor = "none"
    /\ main = "wait" => waiter # "none"
    /\ builder \in {"none", "build", "failed"} => ~created["proxy"]
    /\ main = "killed" => profileCpu \/ ~created["proxy"]
    /\ profiling => profileCpu

\* The chain of the servers: the waiter waits for the closing goroutine, which
\* closes them one after the other, and nobody starts them again.
CloserChain ==
    /\ waiter \in {"done", "ended"} => closer = "ended"
    /\ builder \in {"admin", "ended"} => created["proxy"]
    /\ builder = "ended" => created["admin"]
    /\ wasUp => builder = "ended"
    /\ wasUp /\ closer \in {"admin", "complete", "ended"} => server["proxy"] = "closed"
    /\ wasUp /\ closer \in {"complete", "ended"} => server["admin"] = "closed"

ChainInv == ChainTypes /\ MonitorChain /\ KillChain /\ CloserChain

\* Every step of every goroutine of main.go keeps the chains.
LEMMA ChainStep == ChainInv /\ [LifeNext]_lifeVars => ChainInv'
<1> SUFFICES ASSUME ChainInv, [LifeNext]_lifeVars PROVE ChainInv'
  OBVIOUS
<1> USE DEF ChainInv, ChainTypes, MonitorChain, KillChain, CloserChain,
            MonitorStates, CloserStates, BuilderStates, MainStates,
            ServerStates, Running, Server, profile
<1>1. CASE Interrupt \/ ProfileExit
  BY <1>1 DEF Interrupt, ProfileExit
<1>0. CASE SetupSteps
  <2>1. CASE Register
    BY <2>1, LifeAssumption DEF Register
  <2>2. CASE RegisterError \/ SetupPanic
    BY <2>2, LifeAssumption DEF RegisterError, SetupPanic
  <2>3. CASE Launch
    BY <2>3 DEF Launch
  <2> QED BY <1>0, <2>1, <2>2, <2>3 DEF SetupSteps
<1>2. CASE SignalSteps
  <2>1. CASE ReceiveSignal
    BY <2>1 DEF ReceiveSignal
  <2>2. CASE SendShutdown
    BY <2>2 DEF SendShutdown
  <2>3. CASE SendServerShutdown
    BY <2>3 DEF SendServerShutdown
  <2> QED BY <1>2, <2>1, <2>2, <2>3 DEF SignalSteps
<1>3. CASE MonitorSteps
  <2>1. CASE Deregister
    BY <2>1 DEF Deregister
  <2>2. CASE DeregisterError
    BY <2>2 DEF DeregisterError
  <2>3. CASE ShutdownComplete
    BY <2>3 DEF ShutdownComplete
  <2> QED BY <1>3, <2>1, <2>2, <2>3 DEF MonitorSteps
<1>4. CASE BuilderSteps
  <2>1. CASE Build
    BY <2>1 DEF Build
  <2>2. CASE BuildError \/ BuildCrash
    BY <2>2 DEF BuildError, BuildCrash
  <2>3. CASE CreateProxy
    BY <2>3 DEF CreateProxy
  <2>4. CASE CreateAdmin
    BY <2>4 DEF CreateAdmin
  <2> QED BY <1>4, <2>1, <2>2, <2>3, <2>4 DEF BuilderSteps
<1>5. CASE CloserSteps
  <2>1. ASSUME NEW s \in Server, CloseServer(s) PROVE ChainInv'
    <3>1. CASE s = "proxy"
      BY <2>1, <3>1 DEF CloseServer
    <3>2. CASE s = "admin"
      BY <2>1, <3>2 DEF CloseServer
    <3> QED BY <3>1, <3>2
  <2>2. CASE ServerShutdownComplete
    BY <2>2 DEF ServerShutdownComplete
  <2> QED BY <1>5, <2>1, <2>2 DEF CloserSteps
<1>6. CASE Exit
  BY <1>6 DEF Exit
<1>7. ASSUME NEW s \in Server, Listen(s) \/ ListenError(s) PROVE ChainInv'
  BY <1>7 DEF Listen, ListenError
<1>8. CASE UNCHANGED lifeVars
  BY <1>8 DEF lifeVars
<1> QED BY <1>0, <1>1, <1>2, <1>3, <1>4, <1>5, <1>6, <1>7, <1>8 DEF LifeNext

\* The chains hold from the start: nobody has been told anything.
LEMMA ChainAlways == LifeSpec => []ChainInv
<1>1. LifeInit => ChainInv
  BY DEF LifeInit, ChainInv, ChainTypes, MonitorChain, KillChain, CloserChain,
     MonitorStates, CloserStates, BuilderStates, MainStates, ServerStates, Server
<1> QED BY <1>1, ChainStep, PTL DEF LifeSpec

\* However the process ends, it leaves its registration in Consul behind only when
\* it is killed before it had a proxy server, or by the profiling handler: a refused
\* deregistration keeps main waiting rather than let it return registered.
THEOREM Deregistered == LifeSpec => []DeregisteredAtExit
<1>1. ChainInv => DeregisteredAtExit
  BY DEF ChainInv, ChainTypes, MonitorChain, KillChain, MainStates,
     DeregisteredAtExit, Running
<1> QED BY <1>1, ChainAlways, PTL

\* When everything is reported shut down, no server that had been started before
\* serverShutdown was received is still open, however its goroutine was scheduled.
THEOREM ServersClosed == LifeSpec => []UpServersClosed
<1>1. ChainInv => UpServersClosed
  BY DEF ChainInv, CloserChain, UpServersClosed, Server
<1> QED BY <1>1, ChainAlways, PTL

(***************************************************************************)
(* The audit log: where entries end up, and what a lost one goes back to.  *)
(* The loggers share the loop variable, so the invariant follows a logger  *)
(* from its own turn of the loop, through faults, to the serving gateway.  *)
(***************************************************************************)

LastEntry == Len(logging)

\* The types of the connections and of what becomes of an entry.
Pcs == {"idle", "dial", "channel", "declare"}
Watches == {"none", "watching", "timer"}
Flags == BOOLEAN
Brokers == {NoBroker} \cup UNION {{cfg[i].broker : i \in DOMAIN cfg} : cfg \in Configs}
Exchanges == UNION {{cfg[i].exchange : i \in DOMAIN cfg} : cfg \in Configs}
Links == [pc : Pcs, up : Flags, open : Flags, watch : Watches, broker : Brokers]
Results == {<<"none">>, <<"pending">>, <<"lost">>} \cup (Brokers \X Exchanges)

LogTypes ==
    /\ logging \in Configs
    /\ cell \in 1 .. LastEntry
    /\ phase \in {"build", "serving", "failed"}
    /\ phase = "serving" => cell = LastEntry
    /\ link \in [Index -> Links]
    /\ exchanges \subseteq Brokers \X Exchanges
    /\ audit \in [Index -> [Request -> Results]]

\* A logger is healthy while nothing has gone wrong between it and its broker.
Healthy(i) == {<<i, "lost">>, <<i, "refused">>} \cap hurt = {}
SharesLast(i) == logging[LastEntry].type = "amqp" /\ logging[LastEntry].broker = logging[i].broker
Joined(i) ==
    link[i].up = TRUE /\ link[i].watch = "watching" /\ link[i].broker = logging[i].broker

\* A healthy logger connects once, in its own turn of the loop, to its own broker,
\* and its channel stays open if it shares the broker of the last one.
HealthyOK(i) ==
    \/ /\ link[i].pc = "dial" /\ link[i].watch = "none" /\ i = cell /\ phase = "build"
       /\ link[i].up = FALSE /\ link[i].open = FALSE
    \/ link[i].pc = "channel" /\ Joined(i) /\ i = cell /\ phase = "build"
    \/ /\ link[i].pc = "declare" /\ Joined(i) /\ i = cell /\ phase = "build"
       /\ link[i].open = TRUE
    \/ link[i].pc = "idle" /\ Joined(i) /\ (SharesLast(i) => link[i].open = TRUE)

LinkInv ==
    \A i \in Amqp : /\ i > cell => link[i] = Unlinked
                    /\ i <= cell /\ Healthy(i) => HealthyOK(i)

\* The logger whose entry the loop variable holds has its own broker, and once its
\* turn is over that broker has its exchange.
CellInv ==
    logging[cell].type = "amqp" /\ phase # "failed"
    => /\ link[cell].pc \in {"channel", "declare"} \/ link[cell].open = TRUE
             => link[cell].broker = logging[cell].broker
       /\ phase = "serving" \/ link[cell].pc = "idle"
             => <<logging[cell].broker, logging[cell].exchange>> \in exchanges

\* Entries are published while the gateway serves, under the last exchange's name.
AuditOK(i, r) ==
    \/ audit[i][r] \in {<<"none">>, <<"lost">>}
    \/ audit[i][r] = <<"pending">> /\ phase = "serving"
    \/ \E b \in Brokers : /\ audit[i][r] = <<b, logging[LastEntry].exchange>>
                          /\ i = LastEntry => b = logging[i].broker

AuditInv == \A i \in Amqp, r \in Request : AuditOK(i, r)

LogInv == LogTypes /\ LinkInv /\ CellInv /\ AuditInv /\ LossHasCause

\* A connection as the record it is.
Linked(pc, up, open, watch, broker) ==
    [pc |-> pc, up |-> up, open |-> open, watch |-> watch, broker |-> broker]

\* The configuration has an entry for each logger.
LEMMA Entries ==
    LogTypes => /\ LastEntry \in Nat \ {0}
                /\ DOMAIN logging = 1 .. LastEntry
                /\ Amqp \subseteq Index /\ Amqp \subseteq 1 .. LastEntry
                /\ \A i \in DOMAIN logging : /\ i \in Index
                                             /\ logging[i].broker \in Brokers
                                             /\ logging[i].exchange \in Exchanges
BY LogAssumption DEF LogTypes, LastEntry, Amqp, Index, Brokers, Exchanges

\* The types of a connection.
LEMMA LinkedTypes ==
    \A pc \in Pcs, up \in Flags, open \in Flags, watch \in Watches, broker \in Brokers :
        Linked(pc, up, open, watch, broker) \in Links
BY DEF Linked, Links

\* The types of the constants of a connection.
LEMMA LinkConstants ==
    /\ "idle" \in Pcs /\ "dial" \in Pcs /\ "channel" \in Pcs /\ "declare" \in Pcs
    /\ TRUE \in Flags /\ FALSE \in Flags
    /\ "none" \in Watches /\ "watching" \in Watches /\ "timer" \in Watches
    /\ NoBroker \in Brokers
    /\ Unlinked = Linked("idle", FALSE, FALSE, "none", NoBroker)
BY DEF Pcs, Flags, Watches, Brokers, Unlinked, Linked

\* The members of the types of a connection.
LEMMA LinkTypes ==
    \A l \in Links : /\ l.pc \in Pcs /\ l.up \in Flags /\ l.open \in Flags
                     /\ l.watch \in Watches /\ l.broker \in Brokers
                     /\ l = Linked(l.pc, l.up, l.open, l.watch, l.broker)
BY DEF Links, Linked

\* An entry that became something is no pair of a broker and an exchange.
LEMMA NoPair == \A x, a, b : <<x>> # <<a, b>>
OBVIOUS

\* A field of a connection is set.
LEMMA FieldSet ==
    \A p, u, o, w, b, x :
        LET l == Linked(p, u, o, w, b)
        IN /\ [l EXCEPT !.pc = x] = Linked(x, u, o, w, b)
           /\ [l EXCEPT !.up = x] = Linked(p, x, o, w, b)
           /\ [l EXCEPT !.open = x] = Linked(p, u, x, w, b)
           /\ [l EXCEPT !.watch = x] = Linked(p, u, o, x, b)
           /\ [l EXCEPT !.broker = x] = Linked(p, u, o, w, x)
BY DEF Linked

\* The connection of a logger whose turn begins.
LEMMA FreshLink ==
    [Unlinked EXCEPT !.pc = "dial"] = Linked("dial", FALSE, FALSE, "none", NoBroker)
<1>1. ASSUME NEW f
      PROVE  [[pc |-> "idle", up |-> f, open |-> f, watch |-> "none", broker |-> NoBroker]
                 EXCEPT !.pc = "dial"] = Linked("dial", f, f, "none", NoBroker)
  BY DEF Linked
<1> QED BY <1>1 DEF Unlinked

\* The connection of logger i becomes l, and no other changes.
Becomes(i, l) == link' = [link EXCEPT ![i] = l]

\* Dial: a new connection with a watcher.
LEMMA DialLink ==
    ASSUME NEW i \in Index, link \in [Index -> Links]
    PROVE  Dial(i) => Becomes(i, Linked("channel", TRUE, link[i].open, "watching",
                                        Config.broker))
<1>1. ASSUME NEW x, NEW u, NEW w, NEW b
      PROVE  link' = [link EXCEPT ![i] = [@ EXCEPT !.pc = x, !.up = u, !.watch = w,
                                                   !.broker = b]]
             => Becomes(i, Linked(x, u, link[i].open, w, b))
  <2> DEFINE l == link[i]
             m == [l EXCEPT !.pc = x]
             n == [m EXCEPT !.up = u]
             q == [n EXCEPT !.watch = w]
             r == [q EXCEPT !.broker = b]
  <2>1. m = Linked(x, l.up, l.open, l.watch, l.broker)
    BY LinkTypes, FieldSet
  <2>2. n = Linked(x, u, l.open, l.watch, l.broker)
    <3> HIDE DEF m
    <3> QED BY <2>1, FieldSet
  <2>3. q = Linked(x, u, l.open, w, l.broker)
    <3> HIDE DEF n
    <3> QED BY <2>2, FieldSet
  <2>4. r = Linked(x, u, l.open, w, b)
    <3> HIDE DEF q
    <3> QED BY <2>3, FieldSet
  <2>5. [link EXCEPT ![i] = [@ EXCEPT !.pc = x, !.up = u, !.watch = w, !.broker = b]]
           = [link EXCEPT ![i] = r]
    OBVIOUS
  <2> HIDE DEF r
  <2> QED BY <2>4, <2>5 DEF Becomes
<1> QED BY <1>1 DEF Dial

\* DialError and Declare: connect() returns.
LEMMA ReturnLink ==
    ASSUME NEW i \in Index, link \in [Index -> Links], DialError(i) \/ Declare(i)
    PROVE  Becomes(i, Linked("idle", link[i].up, link[i].open, link[i].watch,
                             link[i].broker))
<1> DEFINE m == [link[i] EXCEPT !.pc = "idle"]
<1>1. m = Linked("idle", link[i].up, link[i].open, link[i].watch, link[i].broker)
  BY LinkTypes, FieldSet
<1>2. link' = [link EXCEPT ![i] = m]
  BY DEF DialError, Declare
<1> HIDE DEF m
<1> QED BY <1>1, <1>2 DEF Becomes

\* OpenChannel and ChannelError: the channel opens or is given up.
LEMMA ChannelLink ==
    ASSUME NEW i \in Index, link \in [Index -> Links]
    PROVE  /\ OpenChannel(i) => Becomes(i, Linked("declare", link[i].up, TRUE,
                                                  link[i].watch, link[i].broker))
           /\ ChannelError(i) => Becomes(i, Linked("idle", link[i].up, FALSE,
                                                   link[i].watch, link[i].broker))
<1>1. ASSUME NEW x, NEW y
      PROVE  link' = [link EXCEPT ![i].pc = x, ![i].open = y]
             => Becomes(i, Linked(x, link[i].up, y, link[i].watch, link[i].broker))
  <2> DEFINE l == link[i]
             m == [l EXCEPT !.pc = x]
             n == [m EXCEPT !.open = y]
  <2>1. m = Linked(x, l.up, l.open, l.watch, l.broker)
    BY LinkTypes, FieldSet
  <2>2. n = Linked(x, l.up, y, l.watch, l.broker)
    <3> HIDE DEF m
    <3> QED BY <2>1, FieldSet
  <2>3. [link EXCEPT ![i].pc = x, ![i].open = y] = [link EXCEPT ![i] = n]
    OBVIOUS
  <2> HIDE DEF n
  <2> QED BY <2>2, <2>3 DEF Becomes
<1> QED BY <1>1 DEF OpenChannel, ChannelError

\* A connection that is lost, with its channel.
LEMMA DownLink ==
    ASSUME NEW i \in Index, link \in [Index -> Links]
    PROVE  link' = [link EXCEPT ![i] = Down(i)]
           => Becomes(i, Linked(link[i].pc, FALSE, FALSE, "timer", link[i].broker))
<1>1. ASSUME NEW x, NEW y, NEW z
      PROVE  link' = [link EXCEPT ![i] = [link[i] EXCEPT !.up = x, !.open = y, !.watch = z]]
             => Becomes(i, Linked(link[i].pc, x, y, z, link[i].broker))
  <2> DEFINE l == link[i]
             m == [l EXCEPT !.up = x]
             n == [m EXCEPT !.open = y]
             q == [n EXCEPT !.watch = z]
  <2>1. m = Linked(l.pc, x, l.open, l.watch, l.broker)
    BY LinkTypes, FieldSet
  <2>2. n = Linked(l.pc, x, y, l.watch, l.broker)
    <3> HIDE DEF m
    <3> QED BY <2>1, FieldSet
  <2>3. q = Linked(l.pc, x, y, z, l.broker)
    <3> HIDE DEF n
    <3> QED BY <2>2, FieldSet
  <2>4. [link[i] EXCEPT !.up = x, !.open = y, !.watch = z] = q
    OBVIOUS
  <2> HIDE DEF q
  <2> QED BY <2>3, <2>4 DEF Becomes
<1> QED BY <1>1 DEF Down

\* Reconnect: the timer is over and connect() begins.
LEMMA ReconnectLink ==
    ASSUME NEW i \in Index, link \in [Index -> Links], Reconnect(i)
    PROVE  Becomes(i, Linked("dial", link[i].up, link[i].open, "none", link[i].broker))
<1> DEFINE l == link[i]
           m == [l EXCEPT !.watch = "none"]
           n == [m EXCEPT !.pc = "dial"]
<1>1. m = Linked(l.pc, l.up, l.open, "none", l.broker)
  BY LinkTypes, FieldSet
<1>2. n = Linked("dial", l.up, l.open, "none", l.broker)
  <2> HIDE DEF m
  <2> QED BY <1>1, FieldSet
<1>3. link' = [link EXCEPT ![i] = n]
  BY DEF Reconnect
<1> HIDE DEF n
<1> QED BY <1>2, <1>3 DEF Becomes

\* Publishing on an unknown exchange, and the turn of the loop.
LEMMA OneField ==
    ASSUME NEW i \in Index, link \in [Index -> Links], NEW x
    PROVE  /\ link' = [link EXCEPT ![i].open = x]
              => Becomes(i, Linked(link[i].pc, link[i].up, x, link[i].watch, link[i].broker))
           /\ link' = [link EXCEPT ![i].pc = x]
              => Becomes(i, Linked(x, link[i].up, link[i].open, link[i].watch, link[i].broker))
<1> DEFINE m == [link[i] EXCEPT !.open = x]
           n == [link[i] EXCEPT !.pc = x]
<1>1. m = Linked(link[i].pc, link[i].up, x, link[i].watch, link[i].broker)
  BY LinkTypes, FieldSet
<1>2. n = Linked(x, link[i].up, link[i].open, link[i].watch, link[i].broker)
  BY LinkTypes, FieldSet
<1>3. /\ [link EXCEPT ![i].open = x] = [link EXCEPT ![i] = m]
      /\ [link EXCEPT ![i].pc = x] = [link EXCEPT ![i] = n]
  OBVIOUS
<1> HIDE DEF m, n
<1> QED BY <1>1, <1>2, <1>3 DEF Becomes

\* A logger whose turn has not come does nothing.
LEMMA Acting ==
    ASSUME LogTypes, LinkInv, NEW i \in Amqp,
           \/ link[i].pc # "idle" \/ link[i].watch # "none"
           \/ link[i].up = TRUE \/ link[i].open = TRUE
    PROVE  i <= cell
<1>1. i \in Nat /\ cell \in Nat
  BY Entries DEF LogTypes
<1>2. ASSUME i > cell PROVE FALSE
  <2>1. link[i] = Unlinked
    BY <1>2 DEF LinkInv
  <2>2. /\ Unlinked.pc = "idle" /\ Unlinked.watch = "none"
        /\ Unlinked.up = FALSE /\ Unlinked.open = FALSE
    BY DEF Unlinked
  <2> QED BY <2>1, <2>2
<1> QED BY <1>1, <1>2

\* The types after a step that leaves the configuration and the loop alone.
LEMMA TypesKeep ==
    ASSUME LogTypes, UNCHANGED <<logging, cell>>,
           phase' = phase \/ (phase' = "failed" /\ phase = "build"),
           link' \in [Index -> Links], exchanges' \subseteq Brokers \X Exchanges,
           audit' \in [Index -> [Request -> Results]]
    PROVE  LogTypes'
BY DEF LogTypes, LastEntry

\* A step on the connection of one logger leaves the others as they were.
LEMMA LinkKeep ==
    ASSUME LogTypes, LinkInv, CellInv, NEW i \in Amqp, i <= cell,
           NEW l \in Links, Becomes(i, l),
           UNCHANGED <<logging, cell>>,
           exchanges \subseteq exchanges', hurt \subseteq hurt',
           phase' = phase \/ (phase' = "failed" /\ phase = "build" /\ i = cell),
           Healthy(i)' => HealthyOK(i)',
           i = cell /\ phase' # "failed"
             => /\ l.pc \in {"channel", "declare"} \/ l.open = TRUE
                      => l.broker = logging[cell].broker
                /\ phase' = "serving" \/ l.pc = "idle"
                      => <<logging[cell].broker, logging[cell].exchange>> \in exchanges'
    PROVE  LinkInv' /\ CellInv' /\ link' \in [Index -> Links]
<1>1. i \in Index /\ link \in [Index -> Links] /\ i \in Nat /\ cell \in Nat
      /\ \A j \in Amqp : j \in Index
  BY Entries DEF LogTypes
<1>2. link'[i] = l /\ \A j \in Index \ {i} : link'[j] = link[j]
  BY <1>1 DEF Becomes
<1>3. link' \in [Index -> Links]
  BY <1>1 DEF Becomes
<1>4. Amqp' = Amqp
  BY DEF Amqp
<1>5. ASSUME NEW j \in Amqp, j # i, j <= cell, Healthy(j)' PROVE HealthyOK(j)'
  <2>1. Healthy(j)
    BY <1>5 DEF Healthy
  <2>2. HealthyOK(j)
    BY <1>5, <2>1 DEF LinkInv
  <2>3. phase' = phase \/ j # cell
    BY <1>5
  <2>4. link'[j] = link[j]
    BY <1>1, <1>2, <1>5
  <2> QED BY <2>2, <2>3, <2>4 DEF HealthyOK, Joined, SharesLast, LastEntry
<1>6. ASSUME NEW j \in Amqp, j > cell PROVE link'[j] = Unlinked
  BY <1>1, <1>2, <1>6 DEF LinkInv
<1>7. LinkInv'
  BY <1>4, <1>5, <1>6 DEF LinkInv
<1>8. CellInv'
  <2>1. CASE i = cell
    BY <1>2, <2>1 DEF CellInv
  <2>2. CASE i # cell /\ logging[cell].type = "amqp"
    <3>1. cell \in Amqp
      BY <2>2, Entries DEF LogTypes, Amqp
    <3>2. link'[cell] = link[cell] /\ phase' = phase
      BY <1>1, <1>2, <2>2, <3>1
    <3> QED BY <3>2 DEF CellInv
  <2> QED BY <2>1, <2>2 DEF CellInv
<1> QED BY <1>3, <1>7, <1>8

\* What was published or lost stays so.
LEMMA AuditKeep ==
    ASSUME AuditInv, LossHasCause, UNCHANGED <<logging, audit>>,
           phase = "serving" => phase' = "serving", hurt \subseteq hurt'
    PROVE  AuditInv' /\ LossHasCause'
<1>1. Amqp' = Amqp
  BY DEF Amqp
<1>2. AuditInv'
  BY <1>1 DEF AuditInv, AuditOK, LastEntry
<1>3. LossHasCause'
  BY <1>1 DEF LossHasCause
<1> QED BY <1>2, <1>3

\* An entry is published under the last exchange's name, or lost for a cause.
LEMMA SettleStep ==
    ASSUME LogTypes, AuditInv, LossHasCause, NEW i \in Amqp, NEW r \in Request,
           NEW res \in Results, Settle(i, r, res), UNCHANGED <<logging, phase>>,
           hurt \subseteq hurt',
           \/ res = <<"lost">>
           \/ \E b \in Brokers : /\ res = <<b, logging[LastEntry].exchange>>
                                 /\ i = LastEntry => b = logging[i].broker,
           res = <<"lost">> /\ SharesLast(i)
              => {<<i, "lost">>, <<i, "refused">>} \cap hurt' # {}
    PROVE  AuditInv' /\ LossHasCause' /\ audit' \in [Index -> [Request -> Results]]
<1>1. i \in Index /\ audit \in [Index -> [Request -> Results]] /\ Amqp' = Amqp
      /\ Amqp \subseteq Index
  BY Entries DEF LogTypes, Amqp
<1>2. /\ audit' \in [Index -> [Request -> Results]]
      /\ audit'[i][r] = res
      /\ \A j \in Index, q \in Request : j # i \/ q # r => audit'[j][q] = audit[j][q]
  BY <1>1 DEF Settle
<1>3. ASSUME NEW j \in Amqp, NEW q \in Request PROVE AuditOK(j, q)'
  <2>1. CASE j = i /\ q = r
    BY <1>2, <2>1 DEF AuditOK, LastEntry
  <2>2. CASE ~(j = i /\ q = r)
    <3>1. audit'[j][q] = audit[j][q]
      BY <1>1, <1>2, <2>2
    <3> QED BY <3>1 DEF AuditInv, AuditOK, LastEntry
  <2> QED BY <2>1, <2>2
<1>4. ASSUME NEW j \in Amqp, NEW q \in Request, audit'[j][q] = <<"lost">>,
             SharesLast(j)
      PROVE  {<<j, "lost">>, <<j, "refused">>} \cap hurt' # {}
  <2>1. CASE j = i /\ q = r
    BY <1>2, <1>4, <2>1
  <2>2. CASE ~(j = i /\ q = r)
    <3>1. audit'[j][q] = audit[j][q]
      BY <1>1, <1>2, <2>2
    <3> QED BY <1>4, <3>1 DEF LossHasCause, SharesLast, LastEntry
  <2> QED BY <2>1, <2>2
<1>5. AuditInv'
  BY <1>1, <1>3 DEF AuditInv
<1>6. LossHasCause'
  BY <1>1, <1>4 DEF LossHasCause, SharesLast, LastEntry
<1> QED BY <1>2, <1>5, <1>6

\* Every step of connect(), of a watcher and of a lost connection.
LEMMA ConnectStep ==
    ASSUME LogInv, NEW i \in Amqp, Connecting(i) \/ LoseConnection(i)
    PROVE  LogInv'
<1> USE DEF LogInv
<1>1. /\ i \in Index /\ link \in [Index -> Links] /\ link[i] \in Links /\ i \in Nat
      /\ logging[i].type = "amqp" /\ cell \in 1 .. LastEntry /\ cell \in Nat
      /\ Config.broker \in Brokers /\ Config.exchange \in Exchanges
  BY Entries DEF LogTypes, Config, Amqp
<1>2. /\ link[i].pc \in Pcs /\ link[i].up \in Flags /\ link[i].open \in Flags
      /\ link[i].watch \in Watches /\ link[i].broker \in Brokers
  BY <1>1, LinkTypes
<1>3. /\ UNCHANGED <<logging, cell, audit>>
      /\ hurt \subseteq hurt' /\ exchanges \subseteq exchanges'
      /\ exchanges' \subseteq Brokers \X Exchanges
      /\ phase' = phase \/ (phase' = "failed" /\ phase = "build" /\ i = cell)
  BY <1>1, <1>2 DEF Connecting, Dial, DialError, OpenChannel, Declare, ChannelError,
     Reconnect, LoseConnection, Fault, ConnectFails, LogTypes
<1>4. AuditInv' /\ LossHasCause'
  BY <1>3, AuditKeep
<1>5. ASSUME LinkInv' /\ CellInv' /\ link' \in [Index -> Links] PROVE LogInv'
  BY <1>3, <1>4, <1>5, TypesKeep DEF LogTypes
<1>6. i <= cell
  BY <1>1, Acting DEF Connecting, Dial, DialError, OpenChannel, Declare, ChannelError,
     Reconnect, LoseConnection
<1>7. Healthy(i)' => Healthy(i) /\ HealthyOK(i)
  BY <1>3, <1>6 DEF Healthy, LinkInv
<1>8. CASE Dial(i)
  <2> DEFINE l == Linked("channel", TRUE, link[i].open, "watching", Config.broker)
  <2>1. /\ l.pc = "channel" /\ l.up = TRUE /\ l.open = link[i].open
        /\ l.watch = "watching" /\ l.broker = Config.broker
    BY DEF Linked
  <2>2. l \in Links
    BY <1>1, <1>2, LinkedTypes, LinkConstants
  <2>3. Becomes(i, l)
    BY <1>1, <1>8, DialLink
  <2> HIDE DEF l
  <2>4. link'[i] = l
    BY <1>1, <2>3 DEF Becomes
  <2>5. Healthy(i)' => HealthyOK(i)'
    BY <1>3, <1>7, <1>8, <2>1, <2>4 DEF HealthyOK, Joined, Dial, Config
  <2>6. i = cell /\ phase' # "failed"
          => /\ l.pc \in {"channel", "declare"} \/ l.open = TRUE
                   => l.broker = logging[cell].broker
             /\ phase' = "serving" \/ l.pc = "idle"
                   => <<logging[cell].broker, logging[cell].exchange>> \in exchanges'
    BY <1>1, <1>3, <1>8, <2>1 DEF Dial, Config, CellInv
  <2> QED BY <1>1, <1>3, <1>5, <1>6, <2>2, <2>3, <2>5, <2>6, LinkKeep
<1>9. CASE DialError(i)
  <2> DEFINE l == Linked("idle", link[i].up, link[i].open, link[i].watch, link[i].broker)
  <2>1. /\ l.pc = "idle" /\ l.up = link[i].up /\ l.open = link[i].open
        /\ l.watch = link[i].watch /\ l.broker = link[i].broker
    BY DEF Linked
  <2>2. l \in Links
    BY <1>1, <1>2, LinkedTypes, LinkConstants
  <2>3. Becomes(i, l)
    BY <1>1, <1>9, ReturnLink
  <2> HIDE DEF l
  <2>4. link'[i] = l
    BY <1>1, <2>3 DEF Becomes
  <2>5. ~Healthy(i)'
    BY <1>9 DEF DialError, Fault, Healthy
  <2>6. i = cell /\ phase' # "failed"
          => /\ l.pc \in {"channel", "declare"} \/ l.open = TRUE
                   => l.broker = logging[cell].broker
             /\ phase' = "serving" \/ l.pc = "idle"
                   => <<logging[cell].broker, logging[cell].exchange>> \in exchanges'
    BY <1>1, <1>3, <1>9, <2>1 DEF DialError, ConnectFails, CellInv, LogTypes
  <2> QED BY <1>1, <1>3, <1>5, <1>6, <2>2, <2>3, <2>5, <2>6, LinkKeep
<1>10. CASE OpenChannel(i)
  <2> DEFINE l == Linked("declare", link[i].up, TRUE, link[i].watch, link[i].broker)
  <2>1. /\ l.pc = "declare" /\ l.up = link[i].up /\ l.open = TRUE
        /\ l.watch = link[i].watch /\ l.broker = link[i].broker
    BY DEF Linked
  <2>2. l \in Links
    BY <1>1, <1>2, LinkedTypes, LinkConstants
  <2>3. Becomes(i, l)
    BY <1>1, <1>10, ChannelLink
  <2> HIDE DEF l
  <2>4. link'[i] = l
    BY <1>1, <2>3 DEF Becomes
  <2>5. Healthy(i)' => HealthyOK(i)'
    BY <1>3, <1>7, <1>10, <2>1, <2>4 DEF HealthyOK, Joined, OpenChannel
  <2>6. i = cell /\ phase' # "failed"
          => /\ l.pc \in {"channel", "declare"} \/ l.open = TRUE
                   => l.broker = logging[cell].broker
             /\ phase' = "serving" \/ l.pc = "idle"
                   => <<logging[cell].broker, logging[cell].exchange>> \in exchanges'
    BY <1>1, <1>3, <1>10, <2>1 DEF OpenChannel, CellInv
  <2> QED BY <1>1, <1>3, <1>5, <1>6, <2>2, <2>3, <2>5, <2>6, LinkKeep
<1>11. CASE Declare(i)
  <2> DEFINE l == Linked("idle", link[i].up, link[i].open, link[i].watch, link[i].broker)
  <2>1. /\ l.pc = "idle" /\ l.up = link[i].up /\ l.open = link[i].open
        /\ l.watch = link[i].watch /\ l.broker = link[i].broker
    BY DEF Linked
  <2>2. l \in Links
    BY <1>1, <1>2, LinkedTypes, LinkConstants
  <2>3. Becomes(i, l)
    BY <1>1, <1>11, ReturnLink
  <2> HIDE DEF l
  <2>4. link'[i] = l
    BY <1>1, <2>3 DEF Becomes
  <2>5. Healthy(i)' => HealthyOK(i)'
    BY <1>3, <1>7, <1>11, <2>1, <2>4 DEF HealthyOK, Joined, Declare
  <2>6. i = cell /\ phase' # "failed"
          => /\ l.pc \in {"channel", "declare"} \/ l.open = TRUE
                   => l.broker = logging[cell].broker
             /\ phase' = "serving" \/ l.pc = "idle"
                   => <<logging[cell].broker, logging[cell].exchange>> \in exchanges'
    BY <1>1, <1>3, <1>11, <2>1 DEF Declare, Config, CellInv
  <2> QED BY <1>1, <1>3, <1>5, <1>6, <2>2, <2>3, <2>5, <2>6, LinkKeep
<1>12. CASE ChannelError(i)
  <2> DEFINE l == Linked("idle", link[i].up, FALSE, link[i].watch, link[i].broker)
  <2>1. /\ l.pc = "idle" /\ l.up = link[i].up /\ l.open = FALSE
        /\ l.watch = link[i].watch /\ l.broker = link[i].broker
    BY DEF Linked
  <2>2. l \in Links
    BY <1>1, <1>2, LinkedTypes, LinkConstants
  <2>3. Becomes(i, l)
    BY <1>1, <1>12, ChannelLink
  <2> HIDE DEF l
  <2>4. link'[i] = l
    BY <1>1, <2>3 DEF Becomes
  <2>5. ~Healthy(i)'
    <3>1. CASE link[i].up
      BY <1>12, <3>1 DEF ChannelError, Fault, Healthy
    <3>2. CASE ~link[i].up
      BY <1>7, <1>12, <3>2 DEF ChannelError, HealthyOK, Joined
    <3> QED BY <3>1, <3>2
  <2>6. i = cell /\ phase' # "failed"
          => /\ l.pc \in {"channel", "declare"} \/ l.open = TRUE
                   => l.broker = logging[cell].broker
             /\ phase' = "serving" \/ l.pc = "idle"
                   => <<logging[cell].broker, logging[cell].exchange>> \in exchanges'
    BY <1>1, <1>3, <1>12, <2>1 DEF ChannelError, ConnectFails, CellInv, LogTypes
  <2> QED BY <1>1, <1>3, <1>5, <1>6, <2>2, <2>3, <2>5, <2>6, LinkKeep
<1>13. CASE LoseConnection(i)
  <2> DEFINE l == Linked(link[i].pc, FALSE, FALSE, "timer", link[i].broker)
  <2>1. /\ l.pc = link[i].pc /\ l.up = FALSE /\ l.open = FALSE
        /\ l.watch = "timer" /\ l.broker = link[i].broker
    BY DEF Linked
  <2>2. l \in Links
    BY <1>1, <1>2, LinkedTypes, LinkConstants
  <2>3. Becomes(i, l)
    BY <1>1, <1>13, DownLink DEF LoseConnection
  <2> HIDE DEF l
  <2>4. link'[i] = l
    BY <1>1, <2>3 DEF Becomes
  <2>5. ~Healthy(i)'
    BY <1>13 DEF LoseConnection, Fault, Healthy
  <2>6. i = cell /\ phase' # "failed"
          => /\ l.pc \in {"channel", "declare"} \/ l.open = TRUE
                   => l.broker = logging[cell].broker
             /\ phase' = "serving" \/ l.pc = "idle"
                   => <<logging[cell].broker, logging[cell].exchange>> \in exchanges'
    BY <1>1, <1>3, <1>13, <2>1 DEF LoseConnection, CellInv
  <2> QED BY <1>1, <1>3, <1>5, <1>6, <2>2, <2>3, <2>5, <2>6, LinkKeep
<1>14. CASE Reconnect(i)
  <2> DEFINE l == Linked("dial", link[i].up, link[i].open, "none", link[i].broker)
  <2>1. /\ l.pc = "dial" /\ l.up = link[i].up /\ l.open = link[i].open
        /\ l.watch = "none" /\ l.broker = link[i].broker
    BY DEF Linked
  <2>2. l \in Links
    BY <1>1, <1>2, LinkedTypes, LinkConstants
  <2>3. Becomes(i, l)
    BY <1>1, <1>14, ReconnectLink
  <2> HIDE DEF l
  <2>4. link'[i] = l
    BY <1>1, <2>3 DEF Becomes
  <2>5. ~Healthy(i)'
    BY <1>7, <1>14 DEF Reconnect, HealthyOK, Joined
  <2>6. i = cell /\ phase' # "failed"
          => /\ l.pc \in {"channel", "declare"} \/ l.open = TRUE
                   => l.broker = logging[cell].broker
             /\ phase' = "serving" \/ l.pc = "idle"
                   => <<logging[cell].broker, logging[cell].exchange>> \in exchanges'
    BY <1>1, <1>3, <1>14, <2>1 DEF Reconnect, CellInv
  <2> QED BY <1>1, <1>3, <1>5, <1>6, <2>2, <2>3, <2>5, <2>6, LinkKeep
<1> QED BY <1>8, <1>9, <1>10, <1>11, <1>12, <1>13, <1>14 DEF Connecting

\* Every end of a publication.
LEMMA PublishStep ==
    ASSUME LogInv, NEW i \in Amqp, NEW r \in Request,
           Publish(i, r) \/ PublishError(i, r) \/ PublishInVain(i, r)
    PROVE  LogInv'
<1> USE DEF LogInv
<1> DEFINE home == <<logging[LastEntry].broker, logging[LastEntry].exchange>>
           target == <<link[i].broker, Config.exchange>>
<1>1. /\ i \in Index /\ link \in [Index -> Links] /\ link[i] \in Links
      /\ i \in 1 .. LastEntry /\ cell \in 1 .. LastEntry /\ LastEntry \in Nat
      /\ logging[i].type = "amqp" /\ Config.exchange \in Exchanges
  BY Entries DEF LogTypes, Config, Amqp
<1>2. /\ link[i].pc \in Pcs /\ link[i].up \in Flags /\ link[i].open \in Flags
      /\ link[i].watch \in Watches /\ link[i].broker \in Brokers
  BY <1>1, LinkTypes
<1>3. phase = "serving"
  <2>1. audit[i][r] = <<"pending">> /\ AuditOK(i, r)
    BY DEF Publish, PublishError, PublishInVain, AuditInv
  <2>2. <<"pending">> \notin {<<"none">>, <<"lost">>}
    OBVIOUS
  <2> QED BY <2>1, <2>2, NoPair DEF AuditOK
<1>4. cell = LastEntry /\ i <= cell /\ Config = logging[LastEntry]
  BY <1>1, <1>3 DEF LogTypes, Config
<1>5. logging[LastEntry].type = "amqp"
         => /\ home \in exchanges
            /\ link[LastEntry].open = TRUE => link[LastEntry].broker = logging[LastEntry].broker
  BY <1>3, <1>4 DEF CellInv
<1>6. UNCHANGED <<logging, cell, phase, exchanges>> /\ hurt \subseteq hurt'
  BY DEF Publish, PublishError, PublishInVain, Fault
<1>7. Healthy(i) => /\ link[i].pc = "idle" /\ Joined(i)
                    /\ SharesLast(i) => link[i].open = TRUE
  BY <1>3, <1>4 DEF LinkInv, HealthyOK
<1>8. Healthy(i) /\ SharesLast(i) => target \in exchanges
  <2>1. Healthy(i) /\ SharesLast(i) => target = home
    BY <1>4, <1>7 DEF SharesLast, Joined
  <2> QED BY <1>5, <2>1 DEF SharesLast
<1>9. Healthy(i)' => Healthy(i)
  BY <1>6 DEF Healthy
\* What the step owes of the connection, and what of the entry.
<1>10. ASSUME NEW l \in Links, Becomes(i, l), l.broker = link[i].broker, l.pc = link[i].pc,
              l.open = TRUE => link[i].open = TRUE, Healthy(i)' => HealthyOK(i)'
       PROVE  LinkInv' /\ CellInv' /\ link' \in [Index -> Links]
  <2>1. i = cell => /\ l.pc \in {"channel", "declare"} \/ l.open = TRUE
                         => l.broker = logging[cell].broker
                    /\ <<logging[cell].broker, logging[cell].exchange>> \in exchanges'
    BY <1>1, <1>3, <1>6, <1>10 DEF CellInv
  <2> QED BY <1>4, <1>6, <1>10, <2>1, LinkKeep
<1>11. ASSUME LinkInv', CellInv', link' \in [Index -> Links],
              AuditInv', LossHasCause', audit' \in [Index -> [Request -> Results]]
       PROVE  LogInv'
  BY <1>6, <1>11, TypesKeep DEF LogTypes
<1>12. <<"lost">> \in Results
  BY DEF Results
<1>13. ASSUME UNCHANGED link PROVE Becomes(i, link[i])
  BY <1>1, <1>13 DEF Becomes
<1>14. CASE Publish(i, r) /\ target \in exchanges
  <2>1. Settle(i, r, target) /\ UNCHANGED <<link, hurt>>
    BY <1>14 DEF Publish
  <2>2. target \in Results
    BY <1>1, <1>2 DEF Results
  <2>3. i = LastEntry => link[i].broker = logging[i].broker
    BY <1>1, <1>5, <1>14 DEF Publish
  <2>4. target # <<"lost">>
    BY NoPair
  <2>5. AuditInv' /\ LossHasCause' /\ audit' \in [Index -> [Request -> Results]]
    BY <1>2, <1>4, <1>6, <2>1, <2>2, <2>3, <2>4, SettleStep
  <2>6. Healthy(i)' => HealthyOK(i)'
    BY <1>6, <1>7, <1>9, <2>1 DEF HealthyOK, Joined, SharesLast, LastEntry
  <2>7. LinkInv' /\ CellInv' /\ link' \in [Index -> Links]
    BY <1>1, <1>10, <1>13, <2>1, <2>6
  <2> QED BY <1>11, <2>5, <2>7
<1>15. CASE Publish(i, r) /\ target \notin exchanges
  <2>1. Settle(i, r, <<"lost">>) /\ ~(Healthy(i) /\ SharesLast(i))
    BY <1>8, <1>15 DEF Publish
  <2>2. SharesLast(i) => {<<i, "lost">>, <<i, "refused">>} \cap hurt' # {}
    BY <1>6, <2>1 DEF Healthy
  <2>3. AuditInv' /\ LossHasCause' /\ audit' \in [Index -> [Request -> Results]]
    BY <1>6, <1>12, <2>1, <2>2, SettleStep
  <2>4. CASE UNCHANGED link
    <3>1. Healthy(i)' => HealthyOK(i)'
      BY <1>6, <1>7, <1>9, <2>1, <2>4 DEF HealthyOK, Joined, SharesLast, LastEntry
    <3>2. LinkInv' /\ CellInv' /\ link' \in [Index -> Links]
      BY <1>1, <1>10, <1>13, <2>4, <3>1
    <3> QED BY <1>11, <2>3, <3>2
  <2>5. CASE link' = [link EXCEPT ![i].open = FALSE]
    <3> DEFINE l == Linked(link[i].pc, link[i].up, FALSE, link[i].watch, link[i].broker)
    <3>1. /\ l.pc = link[i].pc /\ l.up = link[i].up /\ l.open = FALSE
          /\ l.watch = link[i].watch /\ l.broker = link[i].broker
      BY DEF Linked
    <3>2. l \in Links
      BY <1>2, LinkedTypes, LinkConstants
    <3>3. Becomes(i, l)
      BY <1>1, <2>5, OneField
    <3> HIDE DEF l
    <3>4. link'[i] = l
      BY <1>1, <3>3 DEF Becomes
    <3>5. Healthy(i)' => HealthyOK(i)'
      BY <1>6, <1>7, <1>9, <2>1, <3>1, <3>4 DEF HealthyOK, Joined, SharesLast, LastEntry
    <3>6. LinkInv' /\ CellInv' /\ link' \in [Index -> Links]
      BY <1>10, <3>1, <3>2, <3>3, <3>5
    <3> QED BY <1>11, <2>3, <3>6
  <2> QED BY <1>15, <2>4, <2>5 DEF Publish
<1>16. CASE PublishError(i, r)
  <2>1. Settle(i, r, <<"lost">>) /\ UNCHANGED <<link, hurt>> /\ ~link[i].open
    BY <1>16 DEF PublishError
  <2>2. SharesLast(i) => {<<i, "lost">>, <<i, "refused">>} \cap hurt' # {}
    BY <1>7, <2>1 DEF Healthy
  <2>3. AuditInv' /\ LossHasCause' /\ audit' \in [Index -> [Request -> Results]]
    BY <1>6, <1>12, <2>1, <2>2, SettleStep
  <2>4. Healthy(i)' => HealthyOK(i)'
    BY <1>6, <1>7, <1>9, <2>1 DEF HealthyOK, Joined, SharesLast, LastEntry
  <2>5. LinkInv' /\ CellInv' /\ link' \in [Index -> Links]
    BY <1>1, <1>10, <1>13, <2>1, <2>4
  <2> QED BY <1>11, <2>3, <2>5
<1>17. CASE PublishInVain(i, r)
  <2> DEFINE l == Linked(link[i].pc, FALSE, FALSE, "timer", link[i].broker)
  <2>1. Settle(i, r, <<"lost">>) /\ <<i, "lost">> \in hurt'
    BY <1>17 DEF PublishInVain, Fault
  <2>2. l.pc = link[i].pc /\ l.open = FALSE /\ l.broker = link[i].broker
    BY DEF Linked
  <2>3. l \in Links
    BY <1>2, LinkedTypes, LinkConstants
  <2>4. Becomes(i, l)
    BY <1>1, <1>17, DownLink DEF PublishInVain
  <2> HIDE DEF l
  <2>5. ~Healthy(i)'
    BY <2>1 DEF Healthy
  <2>6. AuditInv' /\ LossHasCause' /\ audit' \in [Index -> [Request -> Results]]
    BY <1>6, <1>12, <2>1, SettleStep
  <2>7. LinkInv' /\ CellInv' /\ link' \in [Index -> Links]
    BY <1>10, <2>2, <2>3, <2>4, <2>5
  <2> QED BY <1>11, <2>6, <2>7
<1> QED BY <1>14, <1>15, <1>16, <1>17

\* The next turn of the loop of buildLoggers, and its end.
LEMMA TurnStep ==
    ASSUME LogInv, NextTurn
    PROVE  LogInv'
<1> USE DEF LogInv
<1>1. /\ phase = "build" /\ link[cell].pc = "idle"
      /\ UNCHANGED <<logging, exchanges, audit, faults, hurt>>
  BY DEF NextTurn
<1>2. /\ LastEntry \in Nat /\ cell \in 1 .. LastEntry /\ link \in [Index -> Links]
      /\ Amqp \subseteq Index /\ Amqp \subseteq 1 .. LastEntry /\ Amqp' = Amqp /\ LastEntry' = LastEntry
      /\ 1 .. LastEntry \subseteq Index
  BY <1>1, Entries DEF LogTypes, Amqp, LastEntry
<1>3. AuditInv' /\ LossHasCause'
  BY <1>1, AuditKeep
<1>4. ASSUME NEW i \in Amqp, i <= cell, Healthy(i)
      PROVE  link[i].pc = "idle" /\ Joined(i) /\ (SharesLast(i) => link[i].open = TRUE)
  BY <1>1, <1>4 DEF LinkInv, HealthyOK
<1>5. CASE cell = LastEntry
  <2>1. phase' = "serving" /\ UNCHANGED <<cell, link>>
    BY <1>5 DEF NextTurn, LastEntry
  <2>2. LogTypes'
    BY <1>1, <1>2, <1>5, <2>1 DEF LogTypes
  <2>3. LinkInv'
    BY <1>1, <1>2, <1>4, <2>1 DEF LinkInv, HealthyOK, Healthy, Joined, SharesLast
  <2>4. CellInv'
    BY <1>1, <2>1 DEF CellInv
  <2> QED BY <1>3, <2>2, <2>3, <2>4
<1>6. CASE cell # LastEntry
  <2>1. phase' = "build" /\ cell' = cell + 1 /\ link' = Turn(cell + 1, link)
    BY <1>1, <1>6 DEF NextTurn, LastEntry
  <2>2. cell + 1 \in 1 .. LastEntry /\ cell + 1 \in Index
    BY <1>2, <1>6
  <2>3. CASE logging[cell + 1].type = "amqp"
    <3>1. cell + 1 \in Amqp /\ link[cell + 1] = Unlinked
      BY <1>2, <2>2, <2>3, Entries DEF Amqp, LinkInv
    <3> DEFINE l == Linked("dial", FALSE, FALSE, "none", NoBroker)
    <3>2. /\ l.pc = "dial" /\ l.up = FALSE /\ l.open = FALSE /\ l.watch = "none"
          /\ l.broker = NoBroker
      BY DEF Linked
    <3>3. l \in Links
      BY LinkedTypes, LinkConstants
    <3>4. [Unlinked EXCEPT !.pc = "dial"] = l
      BY FreshLink
    <3> HIDE DEF l
    <3>5. link' = [link EXCEPT ![cell + 1] = [Unlinked EXCEPT !.pc = "dial"]]
      BY <2>1, <2>3, <3>1 DEF Turn
    <3>6. link' = [link EXCEPT ![cell + 1] = l]
      BY <3>4, <3>5
    <3>7. /\ link' \in [Index -> Links] /\ link'[cell + 1] = l
          /\ \A j \in Index \ {cell + 1} : link'[j] = link[j]
      BY <1>2, <2>2, <3>3, <3>6
    <3>8. LogTypes'
      BY <1>1, <1>2, <2>1, <2>2, <3>7 DEF LogTypes
    <3>9. CellInv'
      BY <1>1, <2>1, <3>2, <3>7 DEF CellInv
    <3>10. ASSUME NEW i \in Amqp, i > cell + 1 PROVE link'[i] = Unlinked
      BY <1>2, <3>7, <3>10 DEF LinkInv
    <3>11. ASSUME NEW i \in Amqp, i <= cell + 1, Healthy(i)' PROVE HealthyOK(i)'
      <4>1. CASE i = cell + 1
        BY <2>1, <3>2, <3>7, <4>1 DEF HealthyOK
      <4>2. CASE i # cell + 1
        <5>1. i <= cell /\ link'[i] = link[i] /\ Healthy(i)
          BY <1>1, <1>2, <3>7, <3>11, <4>2 DEF Healthy
        <5>2. link[i].pc = "idle" /\ Joined(i) /\ (SharesLast(i) => link[i].open = TRUE)
          BY <1>4, <5>1
        <5> QED BY <1>1, <1>2, <5>1, <5>2 DEF HealthyOK, Joined, SharesLast
      <4> QED BY <4>1, <4>2
    <3>12. LinkInv'
      BY <1>2, <2>1, <3>10, <3>11 DEF LinkInv
    <3> QED BY <1>3, <3>8, <3>9, <3>12
  <2>4. CASE logging[cell + 1].type # "amqp"
    <3>1. link' = link
      BY <2>1, <2>4 DEF Turn
    <3>2. cell + 1 \notin Amqp
      BY <2>4 DEF Amqp
    <3>3. LogTypes'
      BY <1>1, <1>2, <2>1, <2>2, <3>1 DEF LogTypes
    <3>4. CellInv'
      BY <1>1, <2>1, <2>4 DEF CellInv
    <3>5. ASSUME NEW i \in Amqp, i <= cell + 1, Healthy(i)' PROVE HealthyOK(i)'
      <4>1. i <= cell /\ Healthy(i)
        BY <1>1, <1>2, <3>2, <3>5 DEF Healthy
      <4>2. link[i].pc = "idle" /\ Joined(i) /\ (SharesLast(i) => link[i].open = TRUE)
        BY <1>4, <4>1
      <4> QED BY <1>1, <1>2, <3>1, <4>2 DEF HealthyOK, Joined, SharesLast
    <3>6. ASSUME NEW i \in Amqp, i > cell + 1 PROVE link'[i] = Unlinked
      BY <1>2, <3>1, <3>6 DEF LinkInv
    <3>7. LinkInv'
      BY <1>2, <2>1, <3>5, <3>6 DEF LinkInv
    <3> QED BY <1>3, <3>3, <3>4, <3>7
  <2> QED BY <2>3, <2>4
<1> QED BY <1>5, <1>6

\* A request reaches the loggers.
LEMMA RequestStep ==
    ASSUME LogInv, NEW r \in Request, OnAuthenticatedRequest(r)
    PROVE  LogInv'
<1> USE DEF LogInv
<1>1. /\ phase = "serving"
      /\ UNCHANGED <<logging, cell, phase, link, exchanges, faults, hurt>>
  BY DEF OnAuthenticatedRequest
<1>2. Amqp \subseteq Index /\ Amqp' = Amqp /\ audit \in [Index -> [Request -> Results]]
      /\ <<"pending">> \in Results /\ <<"pending">> # <<"lost">>
  BY <1>1, Entries DEF LogTypes, Amqp, Results
<1>3. /\ audit' \in [Index -> [Request -> Results]]
      /\ \A i \in Index, q \in Request : \/ audit'[i][q] = audit[i][q]
                                         \/ audit'[i][q] = <<"pending">>
  BY <1>2 DEF OnAuthenticatedRequest
<1>4. LogTypes'
  BY <1>1, <1>3 DEF LogTypes, LastEntry
<1>5. LinkInv' /\ CellInv'
  BY <1>1, <1>2 DEF LinkInv, CellInv, HealthyOK, Healthy, Joined, SharesLast, LastEntry
<1>6. AuditInv'
  BY <1>1, <1>2, <1>3 DEF AuditInv, AuditOK, LastEntry
<1>7. LossHasCause'
  BY <1>1, <1>2, <1>3 DEF LossHasCause
<1> QED BY <1>4, <1>5, <1>6, <1>7

\* The gateway begins with the first turn of the loop.
LEMMA LogBegins == LogInit => LogInv
<1> SUFFICES ASSUME LogInit PROVE LogInv
  OBVIOUS
<1> DEFINE none == [i \in Index |-> Unlinked]
           l == Linked("dial", FALSE, FALSE, "none", NoBroker)
<1>1. logging \in Configs /\ cell = 1 /\ phase = "build" /\ exchanges = {}
      /\ link = Turn(1, none) /\ audit = [i \in Index |-> [r \in Request |-> <<"none">>]]
  BY DEF LogInit
<1>2. LastEntry \in Nat \ {0} /\ DOMAIN logging = 1 .. LastEntry /\ 1 \in Index /\ Amqp \subseteq Index
      /\ Amqp \subseteq 1 .. LastEntry
  BY <1>1, LogAssumption DEF LastEntry, Index, Amqp
<1>3. Unlinked \in Links /\ l \in Links /\ <<"none">> \in Results
  BY LinkedTypes, LinkConstants DEF Results
<1>4. l.pc = "dial" /\ l.up = FALSE /\ l.open = FALSE /\ l.watch = "none"
  BY DEF Linked
<1>5. [Unlinked EXCEPT !.pc = "dial"] = l
  BY FreshLink
<1>6. /\ link \in [Index -> Links]
      /\ \A i \in Index \ {1} : link[i] = Unlinked
      /\ logging[1].type = "amqp" => link[1] = l
  <2> HIDE DEF l
  <2>1. none \in [Index -> Links] /\ \A i \in Index : none[i] = Unlinked
    BY <1>3
  <2>2. CASE logging[1].type = "amqp"
    <3>1. link = [none EXCEPT ![1] = [Unlinked EXCEPT !.pc = "dial"]]
      BY <1>1, <1>2, <2>2 DEF Turn
    <3> QED BY <1>2, <1>3, <1>5, <2>1, <3>1
  <2>3. CASE logging[1].type # "amqp"
    BY <1>1, <2>1, <2>3 DEF Turn
  <2> QED BY <2>2, <2>3
<1> HIDE DEF l, none
<1>7. LogTypes
  BY <1>1, <1>2, <1>3, <1>6 DEF LogTypes
<1>8. LinkInv
  BY <1>1, <1>2, <1>4, <1>6 DEF LinkInv, HealthyOK, Amqp
<1>9. CellInv
  BY <1>1, <1>4, <1>6 DEF CellInv
<1>10. AuditInv /\ LossHasCause
  <2>1. \A i \in Amqp, r \in Request : audit[i][r] = <<"none">>
    BY <1>1, <1>2
  <2>2. <<"none">> # <<"lost">>
    OBVIOUS
  <2>3. AuditInv
    BY <2>1 DEF AuditInv, AuditOK
  <2>4. LossHasCause
    BY <2>1, <2>2 DEF LossHasCause
  <2> QED BY <2>3, <2>4
<1> QED BY <1>7, <1>8, <1>9, <1>10 DEF LogInv

\* In every reachable state the audit log is sound.
LEMMA LogAlways == LogSpec => []LogInv
<1>1. LogInv /\ [LogNext]_logVars => LogInv'
  <2> SUFFICES ASSUME LogInv, [LogNext]_logVars PROVE LogInv'
    OBVIOUS
  <2>1. CASE UNCHANGED logVars
    BY <2>1 DEF logVars, LogInv, LogTypes, LinkInv, CellInv, AuditInv, AuditOK, LossHasCause,
       HealthyOK, Healthy, Joined, SharesLast, LastEntry, Amqp
  <2> QED BY <2>1, ConnectStep, PublishStep, TurnStep, RequestStep DEF LogNext, Publishing
<1> QED BY <1>1, LogBegins, PTL DEF LogSpec

\* Entries of the last logger are at its own broker in its own exchange, across
\* reconnections, and all others carry the last exchange's name: connect() and the
\* publishing goroutines read the loop variable of buildLoggers.
THEOREM AtHome == LogSpec => []HomeExchange
<1>1. LogInv => HomeExchange
  <2> SUFFICES ASSUME LogInv, NEW i \in Amqp, NEW r \in Request,
                      audit[i][r] \in exchanges
               PROVE  /\ audit[i][r][2] = logging[LastEntry].exchange
                      /\ i = LastEntry => audit[i][r][1] = logging[i].broker
    BY DEF HomeExchange, LastEntry
  <2>1. \A x : audit[i][r] # <<x>>
    <3>1. PICK a \in Brokers, e \in Exchanges : audit[i][r] = <<a, e>>
      BY DEF LogInv, LogTypes
    <3> QED BY <3>1, NoPair
  <2>2. PICK b \in Brokers : /\ audit[i][r] = <<b, logging[LastEntry].exchange>>
                             /\ i = LastEntry => b = logging[i].broker
    BY <2>1 DEF LogInv, AuditInv, AuditOK
  <2> QED BY <2>2
<1> QED BY <1>1, LogAlways, PTL

\* A logger on the broker of the last one loses no entry unless its connection was
\* lost or an attempt of its connect() refused.
THEOREM CausedLoss == LogSpec => []LossHasCause
<1>1. LogInv => LossHasCause
  BY DEF LogInv
<1> QED BY <1>1, LogAlways, PTL

(***************************************************************************)
(* The cached verification key: the mutex and the second look under it     *)
(* make the two unlocked reads harmless, for every number of goroutines    *)
(* and every time to live.                                                 *)
(***************************************************************************)

\* The program counters between the lock and the unlock.
Critical == {"recheck", "fetch", "write", "expire"}
Counters == {"idle", "read", "lock", "parse"} \cup Critical

\* Each variable has its type, and clocks that were read lie in the past.
VerifierTypes ==
    /\ now \in Nat
    /\ cachedKey \in Body \cup {NoKey}
    /\ cachedKeyExpiration \in Nat
    /\ cachedKeyLock \in Proc \cup {NoProc}
    /\ op \in [Proc -> [pc : Counters, key : Body \cup {NoKey, Torn}, checked : Nat]]
    /\ stored \in Int /\ -1 <= stored /\ stored <= now
    /\ \A p \in Proc : op[p].checked <= now

\* Between lock and unlock a goroutine is alone.
Mutex == \A p \in Proc : op[p].pc \in Critical => cachedKeyLock = p

\* The expiry belongs to the last complete store, and a stored key is there.
StoreInv ==
    /\ stored = -1 => cachedKeyExpiration = 0
    /\ stored # -1 => cachedKeyExpiration = stored + CacheTtl /\ cachedKey \in Body

\* A goroutine that has found the key old under the lock finds it old until it
\* unlocks, and what it writes is what it has fetched.
FetcherInv ==
    \A p \in Proc :
        /\ op[p].pc \in {"fetch", "write", "expire"} =>
              stored = -1 \/ op[p].checked >= stored + CacheTtl
        /\ op[p].pc \in {"write", "expire"} => op[p].key \in Body
        /\ At(p, "expire") => cachedKey \in Body

\* A reader has found an expiry ahead of the time at which it looked.
ReaderInv ==
    \A p \in Proc :
        /\ op[p].pc \in {"read", "parse"} => stored # -1 /\ op[p].checked <= cachedKeyExpiration
        /\ At(p, "read") => op[p].checked < cachedKeyExpiration
        /\ At(p, "parse") /\ op[p].key = Torn => op[p].checked < cachedKeyExpiration

VerifierInv == VerifierTypes /\ Mutex /\ StoreInv /\ FetcherInv /\ ReaderInv /\ WholeKey

\* What an unlocked read may find once a store has been completed: never nil, and
\* mixed words only while a goroutine that found the key old is writing.
LEMMA ReadableKeys ==
    ASSUME VerifierInv, stored # -1, NEW k \in Readable
    PROVE  /\ k \in Body \cup {Torn}
           /\ k = Torn => now >= cachedKeyExpiration
<1> USE ConstantsAssumption DEF VerifierInv, VerifierTypes, StoreInv, FetcherInv
<1>1. CASE k = cachedKey
  BY <1>1
<1>2. CASE k # cachedKey
  <2>1. PICK w \in Proc : At(w, "write") /\ k \in {op[w].key, Torn}
    BY <1>2 DEF Readable
  <2>2. op[w].key \in Body /\ op[w].checked >= stored + CacheTtl
    BY <2>1 DEF At
  <2> QED BY <2>1, <2>2
<1> QED BY <1>1, <1>2

\* Every step of every goroutine, and of the clock, keeps the invariant.
LEMMA VerifierStep == VerifierInv /\ [Next]_vars => VerifierInv'
<1> SUFFICES ASSUME VerifierInv, [Next]_vars PROVE VerifierInv'
  OBVIOUS
<1> USE ConstantsAssumption
<1>1. CASE Tick
  BY <1>1 DEF Tick, VerifierInv, VerifierTypes, Mutex, StoreInv, FetcherInv, ReaderInv,
     WholeKey, At
<1>2. ASSUME NEW p \in Proc, Check(p) PROVE VerifierInv'
  <2> USE <1>2 DEF VerifierInv, VerifierTypes, Check, Counters, Critical
  <2>1. VerifierTypes'
    OBVIOUS
  <2>2. Mutex' /\ StoreInv' /\ FetcherInv'
    BY DEF Mutex, StoreInv, FetcherInv, At
  <2>3. ReaderInv' /\ WholeKey'
    BY DEF ReaderInv, StoreInv, WholeKey, At
  <2> QED BY <2>1, <2>2, <2>3
<1>3. ASSUME NEW p \in Proc, Read(p) PROVE VerifierInv'
  <2>1. PICK k \in Readable : op' = [op EXCEPT ![p].pc = "parse", ![p].key = k]
    BY <1>3 DEF Read
  <2>2. stored # -1
    BY <1>3 DEF Read, VerifierInv, ReaderInv, At
  <2>3. k \in Body \cup {Torn} /\ (k = Torn => now >= cachedKeyExpiration)
    BY <2>2, ReadableKeys
  <2>4. /\ At(p, "read")
        /\ UNCHANGED <<now, cachedKey, cachedKeyExpiration, cachedKeyLock, stored>>
    BY <1>3 DEF Read
  <2>5. op' \in [Proc -> [pc : Counters, key : Body \cup {NoKey, Torn}, checked : Nat]]
    <3>1. k \in Body \cup {NoKey, Torn} /\ "parse" \in Counters
      BY <2>3 DEF Counters
    <3>2. op \in [Proc -> [pc : Counters, key : Body \cup {NoKey, Torn}, checked : Nat]]
      BY DEF VerifierInv, VerifierTypes
    <3> QED BY <2>1, <3>1, <3>2
  <2> USE <2>1, <2>3, <2>4, <2>5 DEF VerifierInv, VerifierTypes
  <2>6. VerifierTypes'
    OBVIOUS
  <2>7. Mutex' /\ StoreInv' /\ FetcherInv'
    BY DEF Mutex, StoreInv, FetcherInv, At, Critical
  <2>8. ReaderInv' /\ WholeKey'
    BY DEF ReaderInv, WholeKey, At
  <2> QED BY <2>6, <2>7, <2>8
<1>4. ASSUME NEW p \in Proc, Lock(p) PROVE VerifierInv'
  <2> USE <1>4 DEF VerifierInv, VerifierTypes, Lock, Goto, Counters, Critical
  <2>1. VerifierTypes'
    OBVIOUS
  <2>2. Mutex' /\ StoreInv' /\ FetcherInv'
    BY DEF Mutex, StoreInv, FetcherInv, At
  <2>3. ReaderInv' /\ WholeKey'
    BY DEF ReaderInv, WholeKey, At
  <2> QED BY <2>1, <2>2, <2>3
<1>5. ASSUME NEW p \in Proc, Recheck(p) PROVE VerifierInv'
  <2> USE <1>5 DEF VerifierInv, VerifierTypes, Recheck, Fresh, Counters, Critical
  <2>1. VerifierTypes'
    OBVIOUS
  <2>2. Mutex' /\ StoreInv' /\ FetcherInv'
    BY DEF Mutex, StoreInv, FetcherInv, At
  <2>3. ReaderInv' /\ WholeKey'
    BY DEF ReaderInv, StoreInv, WholeKey, At
  <2> QED BY <2>1, <2>2, <2>3
<1>6. ASSUME NEW p \in Proc, Fetch(p) \/ FetchError(p) PROVE VerifierInv'
  <2> USE <1>6 DEF VerifierInv, VerifierTypes, Fetch, FetchError, Idle, Counters, Critical
  <2>1. VerifierTypes'
    OBVIOUS
  <2>2. Mutex' /\ StoreInv' /\ FetcherInv'
    BY DEF Mutex, StoreInv, FetcherInv, At
  <2>3. ReaderInv' /\ WholeKey'
    BY DEF ReaderInv, WholeKey, At
  <2> QED BY <2>1, <2>2, <2>3
<1>7. ASSUME NEW p \in Proc, WriteKey(p) PROVE VerifierInv'
  <2> USE <1>7 DEF VerifierInv, VerifierTypes, WriteKey, Goto, At, Counters, Critical
  <2>1. VerifierTypes'
    BY DEF FetcherInv
  <2>2. Mutex' /\ StoreInv' /\ FetcherInv'
    BY DEF Mutex, StoreInv, FetcherInv
  <2>3. ReaderInv' /\ WholeKey'
    BY DEF ReaderInv, WholeKey
  <2> QED BY <2>1, <2>2, <2>3
<1>8. ASSUME NEW p \in Proc, WriteExpiration(p) PROVE VerifierInv'
  <2> USE <1>8 DEF VerifierInv, VerifierTypes, WriteExpiration, At, Counters, Critical
  <2>1. VerifierTypes'
    <3>1. op' \in [Proc -> [pc : Counters, key : Body \cup {NoKey, Torn}, checked : Nat]]
      OBVIOUS
    <3> QED BY <3>1
  <2>2. Mutex' /\ StoreInv' /\ FetcherInv'
    BY DEF Mutex, StoreInv, FetcherInv
  <2>3. cachedKeyExpiration <= cachedKeyExpiration'
    BY DEF StoreInv
  <2>4. ReaderInv' /\ WholeKey'
    BY <2>3 DEF ReaderInv, StoreInv, FetcherInv, WholeKey
  <2> QED BY <2>1, <2>2, <2>4
<1>9. ASSUME NEW p \in Proc, Parse(p) PROVE VerifierInv'
  <2> USE <1>9 DEF VerifierInv, VerifierTypes, Parse, Idle, Counters, Critical
  <2>1. VerifierTypes'
    OBVIOUS
  <2>2. Mutex' /\ StoreInv' /\ FetcherInv'
    BY DEF Mutex, StoreInv, FetcherInv, At
  <2>3. ReaderInv' /\ WholeKey'
    BY DEF ReaderInv, WholeKey, At
  <2> QED BY <2>1, <2>2, <2>3
<1>10. CASE UNCHANGED vars
  BY <1>10 DEF vars, VerifierInv, VerifierTypes, Mutex, StoreInv, FetcherInv, ReaderInv,
     WholeKey, At
<1> QED
  BY <1>1, <1>2, <1>3, <1>4, <1>5, <1>6, <1>7, <1>8, <1>9, <1>10 DEF Next, Locked

\* The invariant holds from the start, where nothing is cached.
LEMMA VerifierAlways == Spec => []VerifierInv
<1>1. Init => VerifierInv
  BY ConstantsAssumption DEF Init, Idle, VerifierInv, VerifierTypes, Mutex, StoreInv,
     FetcherInv, ReaderInv, WholeKey, At, Counters, Critical
<1> QED BY <1>1, VerifierStep, PTL DEF Spec

\* However many goroutines queue for cachedKeyLock, none of them fetches the key
\* before its time to live has passed since the last complete store.
THEOREM FetchesSpaced == Spec => []OneFetchPerTtl
<1>1. VerifierInv => OneFetchPerTtl
  BY DEF VerifierInv, FetcherInv, OneFetchPerTtl, At
<1> QED BY <1>1, VerifierAlways, PTL

\* GetVerificationKey never returns nil without an error, and returns mixed words
\* only to a goroutine held up past the expiry that it had checked.
THEOREM KeysWhole == Spec => []WholeKey
<1>1. VerifierInv => WholeKey
  BY DEF VerifierInv
<1> QED BY <1>1, VerifierAlways, PTL

\* Whoever verifies with the cached key has looked at it within its time to live.
THEOREM KeysInTime == Spec => []KeyInTime
<1>1. VerifierInv => KeyInTime
  BY DEF VerifierInv, VerifierTypes, StoreInv, ReaderInv, KeyInTime
<1> QED BY <1>1, VerifierAlways, PTL
=============================================================================
