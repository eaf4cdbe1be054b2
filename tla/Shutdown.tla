------------------------------ MODULE Shutdown ------------------------------
(***************************************************************************)
(* The life of the gateway process in main.go, from the registration of    *)
(* the node to the end of the process: main's own setup, the goroutine     *)
(* that handles interrupts, the one that waits for everything to shut      *)
(* down, the one that builds the dispatcher and starts the proxy and the   *)
(* admin server, the one inside it that closes them, and the goroutine of  *)
(* the monitoring controller (monitoring/no_integration_controller.go and  *)
(* consul_controller.go), which deregisters the node in Consul.            *)
(*                                                                         *)
(* The process ends when main returns, and it is ended from outside main:  *)
(* by a panic or Fatalf of main's setup or of the building goroutine, by   *)
(* an interrupt that nobody handles yet, and, with -cpu-profile, by the    *)
(* profiling handler, which exits on the interrupt that the others are     *)
(* still acting on.                                                        *)
(*                                                                         *)
(* All channels but the signal channel are unbuffered: a send and its      *)
(* receive are one step of the two goroutines.  The servers are those of   *)
(* the manners library, which is external: Close receives from a channel   *)
(* that Serve sends on, so it blocks until the server has begun to serve.  *)
(***************************************************************************)
EXTENDS Naturals

CONSTANTS
    WithConsul,     \* the node is registered in Consul
    MaxInterrupts   \* bound on the interrupts sent

ASSUME LifeAssumption == WithConsul \in BOOLEAN /\ MaxInterrupts \in Nat

Server == {"proxy", "admin"}

VARIABLES
    profileCpu,  \* the process was started with -cpu-profile
    profiling,   \* an interrupt waits for the profiling handler (buffer of 1)
    pending,     \* an interrupt waits in the signal channel (buffer of 1)
    interrupts,  \* interrupts sent so far
    sig,         \* the goroutine that handles interrupts
    monitor,     \* the goroutine of the monitoring controller
    closer,      \* the goroutine that waits on serverShutdown
    builder,     \* the goroutine that builds the dispatcher
    waiter,      \* the goroutine that waits for everything to shut down
    main,        \* the main goroutine: "register", "setup", "wait" (on done),
                 \* "exited" (it returned), or "killed" (the process ended
                 \* without its return)
    created,     \* created[s]: the variable of server s is no longer nil
    server,      \* server[s]: the goroutine of server s
    registered,  \* the node is registered in Consul
    wasUp        \* history: both servers had been started when the closing
                 \* goroutine was told to close them

profile == <<profileCpu, profiling>>
lifeVars == <<profile, pending, interrupts, sig, monitor, closer, builder, waiter,
              main, created, server, registered, wasUp>>

\* The configuration has been read: main is about to start the monitoring
\* controller, and no other goroutine runs but the profiling handler.
LifeInit ==
    /\ profileCpu \in BOOLEAN
    /\ profiling = FALSE
    /\ pending = FALSE
    /\ interrupts = 0
    /\ sig = "none"
    /\ monitor = "none"
    /\ closer = "none"
    /\ builder = "none"
    /\ waiter = "none"
    /\ main = "register"
    /\ created = [s \in Server |-> FALSE]
    /\ server = [s \in Server |-> "none"]
    /\ registered = FALSE
    /\ wasUp = FALSE

Running == main \notin {"exited", "killed"}

(***************************************************************************)
(* The setup in main.                                                      *)
(***************************************************************************)

\* monitoringController.Start(): the node is registered, and the goroutine that
\* waits for the shutdown is started.
Register ==
    /\ main = "register"
    /\ registered' = WithConsul
    /\ monitor' = "wait"
    /\ main' = "setup"
    /\ UNCHANGED <<profile, pending, interrupts, sig, closer, builder, waiter,
                   created, server, wasUp>>

\* Consul refuses, or its answer is lost: main gives up with Fatal.
RegisterError ==
    /\ WithConsul /\ main = "register"
    /\ registered' \in BOOLEAN
    /\ main' = "killed"
    /\ UNCHANGED <<profile, pending, interrupts, sig, monitor, closer, builder,
                   waiter, created, server, wasUp>>

\* The verifier, the token store or the loggers cannot be made: main panics.
SetupPanic ==
    /\ main = "setup"
    /\ main' = "killed"
    /\ UNCHANGED <<profile, pending, interrupts, sig, monitor, closer, builder,
                   waiter, created, server, registered, wasUp>>

\* Everything is made: interrupts are handled from here on, the goroutines are
\* started, and main waits on done.
Launch ==
    /\ main = "setup"
    /\ main' = "wait"
    /\ sig' = "wait"
    /\ waiter' = "monitoring"
    /\ closer' = "wait"
    /\ builder' = "build"
    /\ UNCHANGED <<profile, pending, interrupts, monitor, created, server,
                   registered, wasUp>>

(***************************************************************************)
(* The signal handlers.                                                    *)
(***************************************************************************)

\* An interrupt arrives.  Every channel that signal.Notify knows of gets it,
\* unless one already waits there; when there is none, the runtime ends the
\* process.
Interrupt ==
    /\ Running /\ interrupts < MaxInterrupts
    /\ interrupts' = interrupts + 1
    /\ pending' = (main = "wait")
    /\ profiling' = profileCpu
    /\ main' = IF main = "wait" \/ profileCpu THEN main ELSE "killed"
    /\ UNCHANGED <<profileCpu, sig, monitor, closer, builder, waiter, created,
                   server, registered, wasUp>>

\* The profiling handler: the profile is written, os.Exit(0).
ProfileExit ==
    /\ Running /\ profiling
    /\ profiling' = FALSE
    /\ main' = "killed"
    /\ UNCHANGED <<profileCpu, pending, interrupts, sig, monitor, closer,
                   builder, waiter, created, server, registered, wasUp>>

ReceiveSignal ==
    /\ Running /\ sig = "wait" /\ pending
    /\ pending' = FALSE
    /\ sig' = "monitoring"
    /\ UNCHANGED <<profile, interrupts, monitor, closer, builder, waiter, main,
                   created, server, registered, wasUp>>

\* monitoringController.SendShutdown()
SendShutdown ==
    /\ Running /\ sig = "monitoring" /\ monitor = "wait"
    /\ sig' = "servers"
    /\ monitor' = IF WithConsul THEN "deregister" ELSE "complete"
    /\ UNCHANGED <<profile, pending, interrupts, closer, builder, waiter, main,
                   created, server, registered, wasUp>>

\* serverShutdown <- true
SendServerShutdown ==
    /\ Running /\ sig = "servers" /\ closer = "wait"
    /\ sig' = "wait"
    /\ closer' = "proxy"
    /\ wasUp' = (builder = "ended")
    /\ UNCHANGED <<profile, pending, interrupts, monitor, builder, waiter,
                   main, created, server, registered>>

(***************************************************************************)
(* The monitoring controller.                                              *)
(***************************************************************************)

\* Mutants: the success is not reported; the failure is reported as success.
DeregisterMute ==
    /\ Running /\ monitor = "deregister"
    /\ registered' = FALSE
    /\ monitor' = "ended"
    /\ UNCHANGED <<profile, pending, interrupts, sig, closer, builder, waiter,
                   main, created, server, wasUp>>

DeregisterErrorIgnored ==
    /\ Running /\ monitor = "deregister"
    /\ monitor' = "complete"
    /\ UNCHANGED <<profile, pending, interrupts, sig, closer, builder, waiter,
                   main, created, server, registered, wasUp>>

Deregister ==
    /\ Running /\ monitor = "deregister"
    /\ registered' = FALSE
    /\ monitor' = "complete"
    /\ UNCHANGED <<profile, pending, interrupts, sig, closer, builder, waiter,
                   main, created, server, wasUp>>

\* Consul refuses, or its answer is lost: shutdown returns the error and never
\* sends ShutdownComplete.
DeregisterError ==
    /\ Running /\ monitor = "deregister"
    /\ registered' = FALSE \/ UNCHANGED registered
    /\ monitor' = "failed"
    /\ UNCHANGED <<profile, pending, interrupts, sig, closer, builder, waiter,
                   main, created, server, wasUp>>

\* m.ShutdownComplete <- true
ShutdownComplete ==
    /\ Running /\ monitor = "complete" /\ waiter = "monitoring"
    /\ monitor' = "ended"
    /\ waiter' = "servers"
    /\ UNCHANGED <<profile, pending, interrupts, sig, closer, builder, main,
                   created, server, registered, wasUp>>

(***************************************************************************)
(* The servers.                                                            *)
(***************************************************************************)

\* The dispatcher is built; shutdownServers finds both variables nil, as no
\* one else assigns them.
Build ==
    /\ Running /\ builder = "build"
    /\ builder' = "create"
    /\ UNCHANGED <<profile, pending, interrupts, sig, monitor, closer, waiter,
                   main, created, server, registered, wasUp>>

\* Consul or the configuration is at fault: the goroutine returns.
BuildError ==
    /\ Running /\ builder = "build"
    /\ builder' = "failed"
    /\ UNCHANGED <<profile, pending, interrupts, sig, monitor, closer, waiter,
                   main, created, server, registered, wasUp>>

\* A route is claimed twice or a target is no regular expression (a panic), or
\* the rate limiter cannot be configured (Fatalf): the process ends.
BuildCrash ==
    /\ Running /\ builder = "build"
    /\ builder' = "failed"
    /\ main' = "killed"
    /\ UNCHANGED <<profile, pending, interrupts, sig, monitor, closer, waiter,
                   created, server, registered, wasUp>>

CreateProxy ==
    /\ Running /\ builder = "create"
    /\ created' = [created EXCEPT !["proxy"] = TRUE]
    /\ builder' = "admin"
    /\ UNCHANGED <<profile, pending, interrupts, sig, monitor, closer, waiter,
                   main, server, registered, wasUp>>

\* The admin server is created, and both servers are started.
CreateAdmin ==
    /\ Running /\ builder = "admin"
    /\ created' = [created EXCEPT !["admin"] = TRUE]
    /\ server' = [s \in Server |-> "listen"]
    /\ builder' = "ended"
    /\ UNCHANGED <<profile, pending, interrupts, sig, monitor, closer, waiter,
                   main, registered, wasUp>>

\* ListenAndServe
Listen(s) ==
    /\ Running /\ server[s] = "listen"
    /\ server' = [server EXCEPT ![s] = "serving"]
    /\ UNCHANGED <<profile, pending, interrupts, sig, monitor, closer, builder,
                   waiter, main, created, registered, wasUp>>

\* The address is taken: the error is dropped, the process carries on.
ListenError(s) ==
    /\ Running /\ server[s] = "listen"
    /\ server' = [server EXCEPT ![s] = "failed"]
    /\ UNCHANGED <<profile, pending, interrupts, sig, monitor, closer, builder,
                   waiter, main, created, registered, wasUp>>

\* Mutant: only the proxy server is closed.
CloseServerProxyOnly(s) ==
    /\ Running /\ closer = s
    /\ \/ (~created[s] \/ s = "admin") /\ UNCHANGED server
       \/ /\ s = "proxy" /\ created[s] /\ server[s] = "serving"
          /\ server' = [server EXCEPT ![s] = "closed"]
    /\ closer' = IF s = "proxy" THEN "admin" ELSE "complete"
    /\ UNCHANGED <<profile, pending, interrupts, sig, monitor, builder, waiter,
                   main, created, registered, wasUp>>

\* shutdownServers in the closing goroutine: skip a server that is nil, else
\* close it.  The variable is read without a lock while the builder may assign
\* it; a pointer is read whole, so nil and the server are the two outcomes.
CloseServer(s) ==
    /\ Running /\ closer = s
    /\ \/ ~created[s] /\ UNCHANGED server
       \/ /\ created[s] /\ server[s] = "serving"
          /\ server' = [server EXCEPT ![s] = "closed"]
    /\ closer' = IF s = "proxy" THEN "admin" ELSE "complete"
    /\ UNCHANGED <<profile, pending, interrupts, sig, monitor, builder, waiter,
                   main, created, registered, wasUp>>

\* serverShutdownComplete <- true
ServerShutdownComplete ==
    /\ Running /\ closer = "complete" /\ waiter = "servers"
    /\ closer' = "ended"
    /\ waiter' = "done"
    /\ UNCHANGED <<profile, pending, interrupts, sig, monitor, builder, main,
                   created, server, registered, wasUp>>

\* done <- true: main returns and the process ends.
Exit ==
    /\ Running /\ waiter = "done"
    /\ waiter' = "ended"
    /\ main' = "exited"
    /\ UNCHANGED <<profile, pending, interrupts, sig, monitor, closer, builder,
                   created, server, registered, wasUp>>

SetupSteps == Register \/ RegisterError \/ SetupPanic \/ Launch
SignalSteps == ReceiveSignal \/ SendShutdown \/ SendServerShutdown
MonitorSteps == Deregister \/ DeregisterError \/ ShutdownComplete
BuilderSteps == Build \/ BuildError \/ BuildCrash \/ CreateProxy \/ CreateAdmin
CloserSteps == (\E s \in Server : CloseServer(s)) \/ ServerShutdownComplete

LifeNext ==
    \/ Interrupt \/ ProfileExit
    \/ SetupSteps \/ SignalSteps \/ MonitorSteps \/ BuilderSteps \/ CloserSteps
    \/ Exit
    \/ \E s \in Server : Listen(s) \/ ListenError(s)

LifeSpec == LifeInit /\ [][LifeNext]_lifeVars

\* Goroutines that can run do run.  Interrupts need not come, and Consul, which
\* is asked without a timeout, need not answer: neither the setup nor the build
\* nor the deregistration is fair.
FairLife ==
    /\ LifeSpec
    /\ WF_lifeVars(ProfileExit) /\ WF_lifeVars(SignalSteps)
    /\ WF_lifeVars(ShutdownComplete)
    /\ WF_lifeVars(CreateProxy \/ CreateAdmin)
    /\ WF_lifeVars(CloserSteps) /\ WF_lifeVars(Exit)
    /\ \A s \in Server : WF_lifeVars(Listen(s) \/ ListenError(s))

(***************************************************************************)
(* Properties.                                                             *)
(***************************************************************************)

\* Consul is left with an entry of an ended process in two cases only: the
\* process was killed before it had a proxy server (by its setup, by its build,
\* or by an interrupt that nobody handled yet), or it was run with -cpu-profile,
\* whose handler exits without waiting for the deregistration.  A process that
\* has served and is ended by main's return is always deregistered.
DeregisteredAtExit ==
    ~Running /\ registered => main = "killed" /\ (profileCpu \/ ~created["proxy"])

\* A process whose servers had been started when they were to be closed leaves
\* none of them open when it reports that everything has shut down.
UpServersClosed ==
    (waiter \in {"done", "ended"} /\ wasUp) => \A s \in Server : server[s] = "closed"

\* An interrupt ends the process, unless Consul refuses the deregistration or
\* never answers it, or a server could not listen: these leave it waiting for ever.
InterruptExits ==
    \/ <>[](Running /\ monitor = "deregister")
    \/ interrupts > 0 ~> \/ ~Running
                         \/ monitor = "failed"
                         \/ \E s \in Server : server[s] = "failed"
=============================================================================
