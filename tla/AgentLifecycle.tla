---------------------------- MODULE AgentLifecycle ----------------------------
(***************************************************************************)
(* main.go and the five services it runs in an errgroup: the ROS topic     *)
(* retriever, the gRPC server, the monitoring server, the HTTP server and  *)
(* the WebRTC daemon.  How they start, fail and stop, how a signal ends    *)
(* the agent, and who still uses the ROS node when main closes it.         *)
(*                                                                         *)
(* The errgroup cancels its context at the first error a service returns;  *)
(* the daemon is given the parent context instead, which only main ends.   *)
(* The clock is abstract: a timer may fire whenever it is running.  When   *)
(* main has returned, or the process was ended otherwise, nothing runs.    *)
(***************************************************************************)
EXTENDS Integers, FiniteSets

CONSTANTS
  Streams,    \* the gRPC streaming calls (ros_interface.go)
  Sessions,   \* the WebRTC sessions, one goroutine each
  MaxSignals  \* bound: signals sent to the process

\* Capacity of sigCh; signal.Notify drops what does not fit.
SigCap == 2

ASSUME AgentAssumption == MaxSignals \in Nat

Services == {"retriever", "grpc", "monitoring", "http", "webrtc"}

VARIABLES
  monitored,  \* config.AgentEnableMonitoring
  badCA,      \* TLS is configured and the file of the client CA holds no certificate
  main,       \* where main is
  cause,      \* why main returns, or why the process ended
  sent,       \* how many signals were sent
  sigCh,      \* how many signals wait in sigCh
  parentDone, \* parentCtx is cancelled
  svc,        \* per service: its goroutine in the errgroup
  failed,     \* the services that returned an error of their own
  grpcEnd,    \* how NewGRPCServer ended
  monitor,    \* the goroutine inside http.ListenAndServe for monitoring
  stream,     \* per gRPC stream: its handler
  session,    \* the WebRTC sessions whose goroutines run
  node        \* the ROS node

mainVars == <<main, cause, sent, sigCh, parentDone, node>>
svcVars == <<svc, failed, grpcEnd, monitor>>
workVars == <<stream, session>>
confVars == <<monitored, badCA>>
vars == <<confVars, mainVars, svcVars, workVars>>

TypeOK ==
  /\ {monitored, badCA, parentDone} \subseteq BOOLEAN
  /\ main \in {"select", "grace", "return", "cancelled", "nodeClosed", "exited"}
  /\ cause \in {"none", "early", "allTasks", "secondSignal", "graceTimeout", "fatal", "panic"}
  /\ sent \in 0 .. MaxSignals /\ sigCh \in 0 .. SigCap
  /\ svc \in [Services -> {"starting", "running", "stopping", "returned"}]
  /\ failed \subseteq Services
  /\ grpcEnd \in {"none", "silent", "failed", "graceful", "forced"}
  /\ monitor \in {"off", "listening", "failing", "reported"}
  /\ stream \in [Streams -> {"none", "open", "cancelled", "done"}]
  /\ session \subseteq Sessions
  /\ node \in {"open", "closed"}

Init ==
  /\ monitored \in BOOLEAN /\ badCA \in BOOLEAN
  /\ main = "select" /\ cause = "none"
  /\ sent = 0 /\ sigCh = 0 /\ parentDone = FALSE
  /\ svc = [s \in Services |-> IF s \in {"retriever", "http"} THEN "running" ELSE "starting"]
  /\ failed = {} /\ grpcEnd = "none" /\ monitor = "off"
  /\ stream = [c \in Streams |-> "none"] /\ session = {}
  /\ node = "open"

-----------------------------------------------------------------------------
(* The errgroup.                                                            *)

\* Bug: the services are given the parent context, as the daemon is.
CtxDoneParent == parentDone

\* The errgroup's context.
CtxDone == parentDone \/ failed # {}

\* Bug: the error that ended the service is logged and nil returned.
ErrorOfNone(s) == {}

\* Service s returns the error that ended it.
ErrorOf(s) == {s}

Goes(s, from, to) == svc[s] = from /\ svc' = [svc EXCEPT ![s] = to]

Fails(s, from) == Goes(s, from, "returned") /\ failed' = failed \cup ErrorOf(s)

\* g.Wait() returns.
GroupDone == \A s \in Services : svc[s] = "returned"

-----------------------------------------------------------------------------
(* The topic retriever and the HTTP server.                                 *)

RetrieverStop ==
  /\ CtxDone
  /\ Goes("retriever", "running", "returned")
  /\ UNCHANGED <<confVars, mainVars, failed, grpcEnd, monitor, workVars>>

\* ListenAndServe fails and the select takes the error.
HttpFail ==
  /\ Fails("http", "running")
  /\ UNCHANGED <<confVars, mainVars, grpcEnd, monitor, workVars>>

\* Shutdown, given a context that is already done, closes the listener and
\* returns at once; requests that are being handled go on.
HttpStop ==
  /\ \/ CtxDone /\ Goes("http", "running", "stopping")
     \/ Goes("http", "stopping", "returned")
  /\ UNCHANGED <<confVars, mainVars, failed, grpcEnd, monitor, workVars>>

-----------------------------------------------------------------------------
(* The gRPC server.                                                         *)

\* NewGRPCServer listens and reads the TLS files, which may fail.  When the client
\* CA's file has no certificate it wraps an err that is nil there, and returns nil.
GrpcStart ==
  /\ \/ Fails("grpc", "starting") /\ grpcEnd' = "failed"
     \/ badCA /\ Goes("grpc", "starting", "returned") /\ grpcEnd' = "silent" /\ UNCHANGED failed
     \/ ~badCA /\ Goes("grpc", "starting", "running") /\ UNCHANGED <<grpcEnd, failed>>
  /\ UNCHANGED <<confVars, mainVars, monitor, workVars>>

\* Serve fails.  The server is not stopped: its calls go on.
GrpcFail ==
  /\ Fails("grpc", "running")
  /\ grpcEnd' = "failed"
  /\ UNCHANGED <<confVars, mainVars, monitor, workVars>>

\* GracefulStop is started in a goroutine, next to the timer.
GrpcStop ==
  /\ CtxDone
  /\ Goes("grpc", "running", "stopping")
  /\ UNCHANGED <<confVars, mainVars, failed, grpcEnd, monitor, workVars>>

\* Bug: GracefulStop is not waited for.
DrainedAlways == TRUE

\* GracefulStop has seen every call end.
Drained == \A c \in Streams : stream[c] \in {"none", "done"}

GrpcDrained ==
  /\ Drained
  /\ Goes("grpc", "stopping", "returned")
  /\ grpcEnd' = "graceful"
  /\ UNCHANGED <<confVars, mainVars, failed, monitor, workVars>>

\* Bug: GracefulStop is waited for without a timer.
HardStopNever == FALSE

\* The timer of three seconds.
HardStop == svc["grpc"] = "stopping"

\* Stop cancels the context of every call and does not wait for the handlers.
GrpcForce ==
  /\ HardStop
  /\ Goes("grpc", "stopping", "returned")
  /\ grpcEnd' = "forced"
  /\ stream' = [c \in Streams |-> IF stream[c] = "open" THEN "cancelled" ELSE stream[c]]
  /\ UNCHANGED <<confVars, mainVars, failed, monitor, session>>

-----------------------------------------------------------------------------
(* The monitoring server.                                                   *)

MonitorStart ==
  /\ IF monitored THEN /\ Goes("monitoring", "starting", "running")
                       /\ monitor' = "listening"
                  ELSE /\ Goes("monitoring", "starting", "returned")
                       /\ UNCHANGED monitor
  /\ UNCHANGED <<confVars, mainVars, failed, grpcEnd, workVars>>

\* Its listener fails, even after NewMonitoringServer has returned.
MonitorListenFail ==
  /\ monitor = "listening"
  /\ monitor' = "failing"
  /\ UNCHANGED <<confVars, mainVars, svc, failed, grpcEnd, workVars>>

\* errCh <- err: a panic, which nobody recovers, when the deferred close(errCh) has run.
MonitorReport ==
  /\ monitor = "failing"
  /\ monitor' = "reported"
  /\ IF svc["monitoring"] = "returned"
       THEN main' = "exited" /\ cause' = "panic"
       ELSE UNCHANGED <<main, cause>>
  /\ UNCHANGED <<confVars, sent, sigCh, parentDone, node, svc, failed, grpcEnd, workVars>>

\* The select takes the error, or the end of the context.
MonitorStop ==
  /\ \/ monitor = "reported" /\ Fails("monitoring", "running")
     \/ CtxDone /\ Goes("monitoring", "running", "returned") /\ UNCHANGED failed
  /\ UNCHANGED <<confVars, mainVars, grpcEnd, monitor, workVars>>

-----------------------------------------------------------------------------
(* The WebRTC daemon.                                                       *)

\* Start: the subscription is made (or not in time), or the reconnect loop begun.
DaemonStart ==
  /\ Goes("webrtc", "starting", "running")
  /\ UNCHANGED <<confVars, mainVars, failed, grpcEnd, monitor, workVars>>

\* With MQTT, the subscription may fail: log.Fatal ends the process.
DaemonFatal ==
  /\ svc["webrtc"] = "starting"
  /\ main' = "exited" /\ cause' = "fatal"
  /\ UNCHANGED <<confVars, sent, sigCh, parentDone, node, svcVars, workVars>>

\* Start returns, and Close cancels the sessions' context and waits for a
\* WaitGroup to which nothing was ever added.
DaemonStop ==
  /\ parentDone
  /\ Goes("webrtc", "running", "returned")
  /\ UNCHANGED <<confVars, mainVars, failed, grpcEnd, monitor, workVars>>

-----------------------------------------------------------------------------
(* The work: gRPC streams and WebRTC sessions.                              *)

StreamStep(c, from, to) ==
  /\ stream[c] = from
  /\ stream' = [stream EXCEPT ![c] = to]
  /\ UNCHANGED <<confVars, mainVars, svcVars, session>>

\* The topic exists; subscription and wait set are made on the ROS node.
StreamOpen(c) == svc["grpc"] = "running" /\ StreamStep(c, "none", "open")

\* The client is gone, or Send fails and the callback calls cancel().
StreamCancel(c) == StreamStep(c, "open", "cancelled")

\* ws.Run returns; wait set and subscription are closed.
StreamReturn(c) == StreamStep(c, "cancelled", "done")

\* An offer arrives: neither MQTT nor the hub's clients are told to stop.
SessionStart(x) ==
  /\ x \notin session
  /\ session' = session \cup {x}
  /\ UNCHANGED <<confVars, mainVars, svcVars, stream>>

SessionEnd(x) ==
  /\ x \in session
  /\ session' = session \ {x}
  /\ UNCHANGED <<confVars, mainVars, svcVars, stream>>

-----------------------------------------------------------------------------
(* main.                                                                    *)

\* The operating system sends a signal.
SendSignal ==
  /\ sent < MaxSignals
  /\ sent' = sent + 1
  /\ sigCh' = IF sigCh < SigCap THEN sigCh + 1 ELSE sigCh
  /\ UNCHANGED <<confVars, main, cause, parentDone, node, svcVars, workVars>>

SignalWaiting == sigCh > 0

\* The first select: a signal, or g.Wait().
FirstSelect ==
  /\ main = "select"
  /\ \/ /\ SignalWaiting
        /\ sigCh' = sigCh - 1
        /\ parentDone' = TRUE
        /\ main' = "grace"
        /\ UNCHANGED cause
     \/ /\ GroupDone
        /\ main' = "return" /\ cause' = "early"
        /\ UNCHANGED <<sigCh, parentDone>>
  /\ UNCHANGED <<confVars, sent, node, svcVars, workVars>>

Leaves(why) ==
  /\ main = "grace"
  /\ main' = "return" /\ cause' = why
  /\ UNCHANGED <<confVars, sent, parentDone, node, svcVars, workVars>>

\* The second select: done, a second signal, the grace period.
AllTasksExited == GroupDone /\ Leaves("allTasks") /\ UNCHANGED sigCh

SecondSignal == SignalWaiting /\ sigCh' = sigCh - 1 /\ Leaves("secondSignal")

GraceTimeout == Leaves("graceTimeout") /\ UNCHANGED sigCh

\* The deferred calls: cancel(), node.Close(), humble.Deinit(); then the process ends.
Deferred ==
  /\ \/ main = "return" /\ main' = "cancelled" /\ parentDone' = TRUE /\ UNCHANGED node
     \/ main = "cancelled" /\ main' = "nodeClosed" /\ node' = "closed" /\ UNCHANGED parentDone
     \/ main = "nodeClosed" /\ main' = "exited" /\ UNCHANGED <<parentDone, node>>
  /\ UNCHANGED <<confVars, cause, sent, sigCh, svcVars, workVars>>

-----------------------------------------------------------------------------
ServiceStop ==
  RetrieverStop \/ HttpStop \/ GrpcStop \/ GrpcDrained \/ GrpcForce \/ MonitorStop \/ DaemonStop

ServiceNext ==
  \/ ServiceStop
  \/ HttpFail \/ GrpcStart \/ GrpcFail
  \/ MonitorStart \/ MonitorListenFail \/ MonitorReport
  \/ DaemonStart \/ DaemonFatal

WorkNext ==
  \/ \E c \in Streams : StreamOpen(c) \/ StreamCancel(c) \/ StreamReturn(c)
  \/ \E x \in Sessions : SessionStart(x) \/ SessionEnd(x)

MainNext == FirstSelect \/ AllTasksExited \/ SecondSignal \/ GraceTimeout \/ Deferred

Next ==
  /\ main # "exited"
  /\ ServiceNext \/ WorkNext \/ MainNext \/ SendSignal

Spec == Init /\ [][Next]_vars

Alive(A) == main # "exited" /\ A

\* Goroutines that can run do and gRPC's timer fires.  Not assumed: that a
\* client ever ends its stream, a session ends, or the grace period expires.
Fairness ==
  /\ WF_vars(Alive(RetrieverStop)) /\ WF_vars(Alive(HttpStop))
  /\ WF_vars(Alive(GrpcStart)) /\ WF_vars(Alive(GrpcStop))
  /\ WF_vars(Alive(GrpcDrained \/ GrpcForce))
  /\ WF_vars(Alive(MonitorStart)) /\ WF_vars(Alive(MonitorStop))
  /\ WF_vars(Alive(DaemonStart)) /\ WF_vars(Alive(DaemonStop))
  /\ WF_vars(Alive(FirstSelect)) /\ WF_vars(Alive(AllTasksExited \/ SecondSignal))
  /\ WF_vars(Alive(Deferred))

FairSpec == Spec /\ Fairness

-----------------------------------------------------------------------------
(* Safety.                                                                  *)

\* When main closes the ROS node because all tasks exited, no service is left
\* that uses it; nor is a stream, if the gRPC server could stop gracefully.
NodeClosedQuiet ==
  node = "closed" /\ cause \in {"early", "allTasks"} =>
    /\ \A s \in Services : svc[s] = "returned"
    /\ grpcEnd = "graceful" => \A c \in Streams : stream[c] \in {"none", "done"}

\* A service whose configuration lets it return nil while the agent runs: the
\* monitoring server that is disabled, and gRPC when it takes its own failure to
\* read a certificate from the client CA's file for success.
ReturnsNil(s) ==
  \/ s = "monitoring" /\ ~monitored
  \/ s = "grpc" /\ badCA

\* No service stops alone but for these two: when another has returned, whatever
\* its own error or the others' were, the errgroup's context is done.
NoSilentStop ==
  \A s \in Services : svc[s] = "returned" => CtxDone \/ ReturnsNil(s)

-----------------------------------------------------------------------------
(* Liveness.                                                                *)

\* A signal ends the agent, whatever the clients of its streams do, and
\* without having to wait for the grace period.
SignalExits == sigCh > 0 ~> main = "exited"

\* When a service fails, those that share its context stop.
FailureStopsServers ==
  failed # {} ~> (main = "exited" \/ \A s \in Services \ {"webrtc"} : svc[s] = "returned")

\* When a service fails, the agent ends (and can be restarted).
FailureEndsAgent == failed # {} ~> main = "exited"
=============================================================================
