------------------------- MODULE AgentLifecycleProofs -------------------------
(***************************************************************************)
(* What AgentLifecycle guarantees for any number of streams, sessions and  *)
(* signals: its types, that no service stops alone, and that the ROS node  *)
(* is closed under no service's feet when main says that all tasks exited. *)
(***************************************************************************)
EXTENDS AgentLifecycle, TLAPS

\* A service that is being stopped was told to; so was one that has returned, if
\* it is not one of the two that may return for nothing.
StopsWhenTold ==
  \A s \in Services :
    /\ svc[s] = "stopping" => CtxDone
    /\ svc[s] = "returned" => CtxDone \/ ReturnsNil(s)

\* g.Wait() is over for good.
GroupStaysDone == cause \in {"early", "allTasks"} => \A s \in Services : svc[s] = "returned"

\* After a graceful end no stream is open and none can be opened.
GracefulIsQuiet ==
  grpcEnd = "graceful" =>
    svc["grpc"] = "returned" /\ \A c \in Streams : stream[c] \in {"none", "done"}

\* The inductive invariant.
LifeInv == TypeOK /\ StopsWhenTold /\ GroupStaysDone /\ GracefulIsQuiet

-----------------------------------------------------------------------------
LEMMA LifeInit == Init => LifeInv
<1> SUFFICES ASSUME Init PROVE LifeInv
  OBVIOUS
<1>1. 0 \in 0 .. MaxSignals /\ 0 \in 0 .. SigCap
  BY AgentAssumption DEF SigCap
<1>2. TypeOK
  BY <1>1 DEF Init, TypeOK, Services
<1> QED
  BY <1>2 DEF Init, LifeInv, StopsWhenTold, GroupStaysDone, GracefulIsQuiet, Services

-----------------------------------------------------------------------------
(* The steps of the services.                                               *)

\* A service moves and nothing else does, gRPC's end and the errors excepted.
LEMMA MoveKeeps ==
  ASSUME LifeInv, NEW s \in Services, NEW from, NEW to \in {"running", "stopping", "returned"},
         Goes(s, from, to), from # "returned",
         UNCHANGED <<confVars, mainVars, stream, session>>,
         failed \subseteq failed', failed' \subseteq Services,
         monitor' \in {"off", "listening", "failing", "reported"},
         to = "running" \/ CtxDone' \/ (to = "returned" /\ ReturnsNil(s)),
         grpcEnd' \in {"none", "silent", "failed", "graceful", "forced"},
         grpcEnd' = "graceful" =>
           grpcEnd = "graceful" \/ (s = "grpc" /\ to = "returned" /\ Drained)
  PROVE  LifeInv'
<1>1. svc' = [svc EXCEPT ![s] = to] /\ svc[s] = from
  BY DEF Goes
<1>2. svc' \in [Services -> {"starting", "running", "stopping", "returned"}]
  BY <1>1 DEF LifeInv, TypeOK
<1>3. TypeOK'
  BY <1>2 DEF LifeInv, TypeOK, mainVars, confVars
<1>4. svc'[s] = to /\ \A r \in Services \ {s} : svc'[r] = svc[r]
  BY <1>1 DEF LifeInv, TypeOK
<1>5. CtxDone => CtxDone'
  BY DEF CtxDone, mainVars
<1>6. StopsWhenTold'
  <2>1. ASSUME NEW r \in Services
        PROVE  ReturnsNil(r)' <=> ReturnsNil(r)
    BY DEF ReturnsNil, confVars
  <2>2. ASSUME NEW r \in Services
        PROVE  /\ svc'[r] = "stopping" => CtxDone'
               /\ svc'[r] = "returned" => CtxDone' \/ ReturnsNil(r)'
    <3>1. CASE r = s
      BY <1>4, <2>1, <3>1
    <3>2. CASE r # s
      BY <1>4, <1>5, <2>1, <3>2 DEF LifeInv, StopsWhenTold
    <3> QED
      BY <3>1, <3>2
  <2> QED
    BY <2>2 DEF StopsWhenTold
<1>7. GroupStaysDone'
  <2>1. cause \notin {"early", "allTasks"}
    BY <1>1 DEF LifeInv, GroupStaysDone
  <2> QED
    BY <2>1 DEF GroupStaysDone, mainVars
<1>8. GracefulIsQuiet'
  <2>1. "grpc" \in Services
    BY DEF Services
  <2>2. CASE grpcEnd = "graceful"
    <3>1. svc["grpc"] = "returned" /\ s # "grpc"
      BY <1>1, <2>2 DEF LifeInv, GracefulIsQuiet
    <3> QED
      BY <1>4, <2>1, <2>2, <3>1 DEF LifeInv, GracefulIsQuiet
  <2>3. CASE grpcEnd # "graceful"
    BY <1>4, <2>3 DEF GracefulIsQuiet, Drained
  <2> QED
    BY <2>2, <2>3
<1> QED
  BY <1>3, <1>6, <1>7, <1>8 DEF LifeInv

\* The services do not move.
LEMMA StopsKept ==
  ASSUME StopsWhenTold, UNCHANGED <<svc, confVars>>, CtxDone => CtxDone'
  PROVE  StopsWhenTold'
<1>1. ASSUME NEW s \in Services PROVE ReturnsNil(s)' <=> ReturnsNil(s)
  BY DEF ReturnsNil, confVars
<1>2. ASSUME NEW s \in Services
      PROVE  /\ svc'[s] = "stopping" => CtxDone'
             /\ svc'[s] = "returned" => CtxDone' \/ ReturnsNil(s)'
  <2>1. svc' = svc
    OBVIOUS
  <2> QED
    BY <1>1, <2>1 DEF StopsWhenTold
<1> QED
  BY <1>2 DEF StopsWhenTold

LEMMA ServiceStopKeeps == ASSUME LifeInv, ServiceStop PROVE LifeInv'
<1>0. failed \subseteq Services /\ monitor \in {"off", "listening", "failing", "reported"}
      /\ grpcEnd \in {"none", "silent", "failed", "graceful", "forced"}
      /\ {"retriever", "grpc", "monitoring", "http", "webrtc"} \subseteq Services
  BY DEF LifeInv, TypeOK, Services
<1>1. CASE RetrieverStop
  <2>1. /\ Goes("retriever", "running", "returned") /\ CtxDone'
        /\ UNCHANGED <<confVars, mainVars, failed, grpcEnd, monitor, stream, session>>
    BY <1>1 DEF RetrieverStop, CtxDone, mainVars, workVars
  <2> QED
    BY <1>0, <2>1, MoveKeeps
<1>2. CASE HttpStop
  <2>1. /\ UNCHANGED <<confVars, mainVars, failed, grpcEnd, monitor, stream, session>>
        /\ \/ CtxDone /\ Goes("http", "running", "stopping")
           \/ Goes("http", "stopping", "returned")
    BY <1>2 DEF HttpStop, workVars
  <2>2. CtxDone
    BY <1>0, <2>1 DEF Goes, LifeInv, StopsWhenTold
  <2>3. CtxDone'
    BY <2>1, <2>2 DEF CtxDone, mainVars
  <2> QED
    BY <1>0, <2>1, <2>3, MoveKeeps
<1>3. CASE GrpcStop
  <2>1. /\ Goes("grpc", "running", "stopping") /\ CtxDone'
        /\ UNCHANGED <<confVars, mainVars, failed, grpcEnd, monitor, stream, session>>
    BY <1>3 DEF GrpcStop, CtxDone, mainVars, workVars
  <2> QED
    BY <1>0, <2>1, MoveKeeps
<1>4. CASE GrpcDrained
  <2>1. /\ Goes("grpc", "stopping", "returned") /\ grpcEnd' = "graceful" /\ Drained
        /\ UNCHANGED <<confVars, mainVars, failed, monitor, stream, session>>
    BY <1>4 DEF GrpcDrained, workVars
  <2>2. CtxDone'
    BY <1>0, <2>1 DEF Goes, LifeInv, StopsWhenTold, CtxDone, mainVars
  <2> QED
    BY <1>0, <2>1, <2>2, MoveKeeps
<1>5. CASE GrpcForce
  <2>1. /\ svc["grpc"] = "stopping" /\ svc' = [svc EXCEPT !["grpc"] = "returned"]
        /\ grpcEnd' = "forced"
        /\ UNCHANGED <<confVars, mainVars, failed, monitor, session>>
    BY <1>5 DEF GrpcForce, Goes
  <2>2. stream' \in [Streams -> {"none", "open", "cancelled", "done"}]
    BY <1>5 DEF GrpcForce, LifeInv, TypeOK
  <2>3. svc' \in [Services -> {"starting", "running", "stopping", "returned"}]
    BY <1>0, <2>1 DEF LifeInv, TypeOK
  <2>4. TypeOK'
    BY <2>1, <2>2, <2>3 DEF LifeInv, TypeOK, mainVars, confVars
  <2>5. CtxDone /\ CtxDone'
    BY <1>0, <2>1 DEF LifeInv, StopsWhenTold, CtxDone, mainVars
  <2>6. StopsWhenTold'
    BY <2>5 DEF StopsWhenTold
  <2>7. GroupStaysDone'
    <3>1. cause \notin {"early", "allTasks"}
      BY <1>0, <2>1 DEF LifeInv, GroupStaysDone
    <3> QED
      BY <2>1, <3>1 DEF GroupStaysDone, mainVars
  <2> QED
    BY <2>1, <2>4, <2>6, <2>7 DEF LifeInv, GracefulIsQuiet
<1>6. CASE MonitorStop
  <2>1. /\ Goes("monitoring", "running", "returned") /\ CtxDone'
        /\ failed \subseteq failed' /\ failed' \subseteq Services
        /\ UNCHANGED <<confVars, mainVars, grpcEnd, monitor, stream, session>>
    BY <1>0, <1>6 DEF MonitorStop, Fails, ErrorOf, CtxDone, mainVars, workVars
  <2> QED
    BY <1>0, <2>1, MoveKeeps
<1>7. CASE DaemonStop
  <2>1. /\ Goes("webrtc", "running", "returned") /\ CtxDone'
        /\ UNCHANGED <<confVars, mainVars, failed, grpcEnd, monitor, stream, session>>
    BY <1>7 DEF DaemonStop, CtxDone, mainVars, workVars
  <2> QED
    BY <1>0, <2>1, MoveKeeps
<1> QED
  BY <1>1, <1>2, <1>3, <1>4, <1>5, <1>6, <1>7 DEF ServiceStop

LEMMA ServiceKeeps == ASSUME LifeInv, ServiceNext PROVE LifeInv'
<1>0. failed \subseteq Services /\ monitor \in {"off", "listening", "failing", "reported"}
      /\ grpcEnd \in {"none", "silent", "failed", "graceful", "forced"}
      /\ {"retriever", "grpc", "monitoring", "http", "webrtc"} \subseteq Services
  BY DEF LifeInv, TypeOK, Services
<1>1. CASE HttpFail
  <2>1. /\ Goes("http", "running", "returned") /\ CtxDone'
        /\ failed \subseteq failed' /\ failed' \subseteq Services
        /\ UNCHANGED <<confVars, mainVars, grpcEnd, monitor, stream, session>>
    BY <1>0, <1>1 DEF HttpFail, Fails, ErrorOf, CtxDone, workVars
  <2> QED
    BY <1>0, <2>1, MoveKeeps
<1>2. CASE GrpcFail
  <2>1. /\ Goes("grpc", "running", "returned") /\ CtxDone' /\ grpcEnd' = "failed"
        /\ failed \subseteq failed' /\ failed' \subseteq Services
        /\ UNCHANGED <<confVars, mainVars, monitor, stream, session>>
    BY <1>0, <1>2 DEF GrpcFail, Fails, ErrorOf, CtxDone, workVars
  <2> QED
    BY <1>0, <2>1, MoveKeeps
<1>6. CASE GrpcStart
  <2>1. /\ UNCHANGED <<confVars, mainVars, monitor, stream, session>>
        /\ grpcEnd' \in {"none", "silent", "failed", "graceful", "forced"}
        /\ grpcEnd' = "graceful" => grpcEnd = "graceful"
        /\ failed \subseteq failed' /\ failed' \subseteq Services
        /\ \/ Goes("grpc", "starting", "running")
           \/ /\ CtxDone' \/ ReturnsNil("grpc")
              /\ Goes("grpc", "starting", "returned")
    BY <1>0, <1>6 DEF GrpcStart, Fails, ErrorOf, ReturnsNil, CtxDone, workVars
  <2> QED
    BY <1>0, <2>1, MoveKeeps
<1>3. CASE MonitorStart
  <2>1. /\ UNCHANGED <<confVars, mainVars, failed, grpcEnd, stream, session>>
        /\ monitor' \in {"off", "listening", "failing", "reported"}
        /\ \/ Goes("monitoring", "starting", "running")
           \/ ReturnsNil("monitoring") /\ Goes("monitoring", "starting", "returned")
    BY <1>0, <1>3 DEF MonitorStart, ReturnsNil, workVars
  <2> QED
    BY <1>0, <2>1, MoveKeeps
<1>4. CASE DaemonStart
  <2>1. /\ Goes("webrtc", "starting", "running")
        /\ UNCHANGED <<confVars, mainVars, failed, grpcEnd, monitor, stream, session>>
    BY <1>4 DEF DaemonStart, workVars
  <2> QED
    BY <1>0, <2>1, MoveKeeps
<1>5. CASE MonitorListenFail \/ MonitorReport \/ DaemonFatal
  <2>1. /\ UNCHANGED <<confVars, sent, sigCh, parentDone, node, svc, failed, grpcEnd, workVars>>
        /\ \/ UNCHANGED <<main, cause>>
           \/ main' = "exited" /\ cause' \in {"panic", "fatal"}
        /\ monitor' \in {"off", "listening", "failing", "reported"}
    <3>1. CASE MonitorListenFail
      BY <1>0, <3>1 DEF MonitorListenFail, mainVars, workVars
    <3>2. CASE MonitorReport
      BY <1>0, <3>2 DEF MonitorReport, workVars
    <3>3. CASE DaemonFatal
      BY <1>0, <3>3 DEF DaemonFatal, svcVars, workVars
    <3> QED
      BY <1>5, <3>1, <3>2, <3>3
  <2>2. TypeOK'
    BY <2>1 DEF LifeInv, TypeOK, confVars, workVars
  <2>3. CtxDone' <=> CtxDone
    BY <2>1 DEF CtxDone
  <2>4. StopsWhenTold'
    BY <2>1, <2>3, StopsKept DEF LifeInv
  <2> QED
    BY <2>1, <2>2, <2>4 DEF LifeInv, GroupStaysDone, GracefulIsQuiet, workVars
<1> QED
  BY <1>1, <1>2, <1>3, <1>4, <1>5, <1>6, ServiceStopKeeps DEF ServiceNext

-----------------------------------------------------------------------------
(* The steps of the streams, the sessions and main.                         *)

LEMMA WorkKeeps == ASSUME LifeInv, WorkNext PROVE LifeInv'
<1>1. ASSUME NEW c \in Streams, StreamOpen(c) \/ StreamCancel(c) \/ StreamReturn(c)
      PROVE  LifeInv'
  <2>1. /\ UNCHANGED <<confVars, mainVars, svcVars, session>>
        /\ \E to \in {"open", "cancelled", "done"} : stream' = [stream EXCEPT ![c] = to]
    BY <1>1 DEF StreamOpen, StreamCancel, StreamReturn, StreamStep
  <2>2. TypeOK'
    BY <2>1 DEF LifeInv, TypeOK, confVars, mainVars, svcVars
  <2>3. GracefulIsQuiet'
    <3>1. grpcEnd # "graceful"
      <4>1. svc["grpc"] = "running" \/ stream[c] \in {"open", "cancelled"}
        BY <1>1 DEF StreamOpen, StreamCancel, StreamReturn, StreamStep
      <4> QED
        BY <4>1 DEF LifeInv, GracefulIsQuiet
    <3> QED
      BY <2>1, <3>1 DEF GracefulIsQuiet, svcVars
  <2>4. StopsWhenTold'
    BY <2>1, StopsKept DEF LifeInv, CtxDone, mainVars, svcVars
  <2> QED
    BY <2>1, <2>2, <2>3, <2>4 DEF LifeInv, GroupStaysDone, mainVars, svcVars
<1>2. ASSUME NEW x \in Sessions, SessionStart(x) \/ SessionEnd(x)
      PROVE  LifeInv'
  <2>1. /\ UNCHANGED <<confVars, mainVars, svcVars, stream>>
        /\ session' \in {session \cup {x}, session \ {x}}
    BY <1>2 DEF SessionStart, SessionEnd
  <2>2. TypeOK'
    BY <2>1 DEF LifeInv, TypeOK, confVars, mainVars, svcVars
  <2>3. StopsWhenTold'
    BY <2>1, StopsKept DEF LifeInv, CtxDone, mainVars, svcVars
  <2> QED
    BY <2>1, <2>2, <2>3 DEF LifeInv, GroupStaysDone, GracefulIsQuiet, mainVars, svcVars
<1> QED
  BY <1>1, <1>2 DEF WorkNext

LEMMA MainKeeps == ASSUME LifeInv, MainNext \/ SendSignal PROVE LifeInv'
<1>1. UNCHANGED <<confVars, svcVars, workVars>>
  BY DEF MainNext, SendSignal, FirstSelect, AllTasksExited, SecondSignal, GraceTimeout, Leaves,
         Deferred
<1>2. parentDone => parentDone'
  BY DEF MainNext, SendSignal, FirstSelect, AllTasksExited, SecondSignal, GraceTimeout, Leaves,
         Deferred
<1>3. TypeOK'
  <2>1. main' \in {"select", "grace", "return", "cancelled", "nodeClosed", "exited"}
    BY DEF MainNext, SendSignal, FirstSelect, AllTasksExited, SecondSignal, GraceTimeout, Leaves,
           Deferred, LifeInv, TypeOK
  <2>2. cause' \in {"none", "early", "allTasks", "secondSignal", "graceTimeout", "fatal", "panic"}
    BY DEF MainNext, SendSignal, FirstSelect, AllTasksExited, SecondSignal, GraceTimeout, Leaves,
           Deferred, LifeInv, TypeOK
  <2>3. sent' \in 0 .. MaxSignals /\ sigCh' \in 0 .. SigCap
    BY AgentAssumption
    DEF MainNext, SendSignal, FirstSelect, AllTasksExited, SecondSignal, GraceTimeout, Leaves,
        Deferred, SignalWaiting, SigCap, LifeInv, TypeOK
  <2>4. parentDone' \in BOOLEAN /\ node' \in {"open", "closed"}
    BY DEF MainNext, SendSignal, FirstSelect, AllTasksExited, SecondSignal, GraceTimeout, Leaves,
           Deferred, LifeInv, TypeOK
  <2> QED
    BY <1>1, <2>1, <2>2, <2>3, <2>4 DEF LifeInv, TypeOK, confVars, svcVars, workVars
<1>4. StopsWhenTold'
  BY <1>1, <1>2, StopsKept DEF LifeInv, CtxDone, svcVars
<1>5. GroupStaysDone'
  <2>1. cause' = cause \/ cause' \notin {"early", "allTasks"} \/ GroupDone
    BY DEF MainNext, SendSignal, FirstSelect, AllTasksExited, SecondSignal, GraceTimeout, Leaves,
           Deferred
  <2> QED
    BY <1>1, <2>1 DEF LifeInv, GroupStaysDone, GroupDone, svcVars
<1> QED
  BY <1>1, <1>3, <1>4, <1>5 DEF LifeInv, GracefulIsQuiet, svcVars, workVars

-----------------------------------------------------------------------------
LEMMA LifeStep == LifeInv /\ [Next]_vars => LifeInv'
<1> SUFFICES ASSUME LifeInv, [Next]_vars PROVE LifeInv'
  OBVIOUS
<1>1. CASE Next
  BY <1>1, ServiceKeeps, WorkKeeps, MainKeeps DEF Next
<1>2. CASE UNCHANGED vars
  <2>1. UNCHANGED <<confVars, mainVars, svcVars, workVars>>
    BY <1>2 DEF vars
  <2>2. StopsWhenTold'
    BY <2>1, StopsKept DEF LifeInv, CtxDone, mainVars, svcVars
  <2>3. TypeOK'
    BY <2>1 DEF LifeInv, TypeOK, confVars, mainVars, svcVars, workVars
  <2> QED
    BY <2>1, <2>2, <2>3 DEF LifeInv, GroupStaysDone, GracefulIsQuiet, mainVars, svcVars, workVars
<1> QED
  BY <1>1, <1>2

\* The inductive invariant holds in every state of the agent.
THEOREM LifeAlways == Spec => []LifeInv
  BY LifeInit, LifeStep, PTL DEF Spec

\* Every variable of the agent keeps its range; sigCh never holds more than it can.
THEOREM TypeCorrect == Spec => []TypeOK
<1>1. LifeInv => TypeOK
  BY DEF LifeInv
<1> QED
  BY <1>1, LifeAlways, PTL

\* When main closes the ROS node because g.Wait() returned, the five services
\* have returned, and after a graceful stop no stream uses it.
THEOREM NodeClosedUnderNobody == Spec => []NodeClosedQuiet
<1>1. LifeInv => NodeClosedQuiet
  BY DEF LifeInv, NodeClosedQuiet, GroupStaysDone, GracefulIsQuiet
<1> QED
  BY <1>1, LifeAlways, PTL

\* A service that has returned, the disabled monitoring server excepted, has
\* returned because the agent stops or because a service failed.
THEOREM NoServiceStopsAlone == Spec => []NoSilentStop
<1>1. LifeInv => NoSilentStop
  BY DEF LifeInv, NoSilentStop, StopsWhenTold
<1> QED
  BY <1>1, LifeAlways, PTL

-----------------------------------------------------------------------------
(* What ends the agent, and what a stopped gRPC server leaves.              *)

\* A daemon that nobody has told to stop keeps g.Wait() waiting, and nobody
\* tells it before main has taken a signal.
DaemonHolds ==
  main = "select" => ~parentDone /\ svc["webrtc"] \in {"starting", "running"}

\* The branch of main's select for services that finished early is never taken.
NeverEarly == cause # "early"

\* main leaves its first select for a signal; what else ends the process is the
\* fatal log of a failed subscription, or the monitoring server's panic.
EndedBySignalOrCrash == main # "select" => sent > 0 \/ cause \in {"fatal", "panic"}

\* A crash ends the process at once.
CrashIsFinal == cause \in {"fatal", "panic"} => main = "exited"

SignalInv ==
  /\ sigCh > 0 => sent > 0
  /\ DaemonHolds /\ NeverEarly /\ EndedBySignalOrCrash /\ CrashIsFinal

LEMMA SignalServices == ASSUME TypeOK, SignalInv, main # "exited", ServiceNext PROVE SignalInv'
<1>1. CASE MonitorReport \/ DaemonFatal
  <2>1. /\ UNCHANGED <<sent, sigCh, parentDone, svc>>
        /\ \/ UNCHANGED <<main, cause>>
           \/ main' = "exited" /\ cause' \in {"panic", "fatal"}
    BY <1>1 DEF MonitorReport, DaemonFatal, svcVars
  <2> QED
    BY <2>1 DEF SignalInv, DaemonHolds, NeverEarly, EndedBySignalOrCrash, CrashIsFinal
<1>2. CASE DaemonStart \/ DaemonStop
  <2>1. UNCHANGED mainVars
    BY <1>2 DEF DaemonStart, DaemonStop
  <2>2. main = "select" => svc'["webrtc"] \in {"starting", "running"}
    BY <1>2 DEF DaemonStart, DaemonStop, Goes, TypeOK, SignalInv, DaemonHolds, Services
  <2> QED
    BY <2>1, <2>2 DEF mainVars, SignalInv, DaemonHolds, NeverEarly, EndedBySignalOrCrash, CrashIsFinal
<1>3. CASE \/ RetrieverStop \/ HttpStop \/ GrpcStop \/ GrpcDrained \/ GrpcForce \/ MonitorStop
           \/ HttpFail \/ GrpcStart \/ GrpcFail \/ MonitorStart \/ MonitorListenFail
  <2>1. UNCHANGED mainVars
    BY <1>3 DEF RetrieverStop, HttpStop, GrpcStop, GrpcDrained, GrpcForce, MonitorStop, HttpFail,
                GrpcStart, GrpcFail, MonitorStart, MonitorListenFail
  <2>2. svc' = svc \/ \E s \in Services \ {"webrtc"}, to \in {"running", "stopping", "returned"} :
                         svc' = [svc EXCEPT ![s] = to]
    BY <1>3 DEF RetrieverStop, HttpStop, GrpcStop, GrpcDrained, GrpcForce, MonitorStop, HttpFail,
                GrpcStart, GrpcFail, MonitorStart, MonitorListenFail, Fails, Goes, Services
  <2>3. svc'["webrtc"] = svc["webrtc"]
    BY <2>2 DEF TypeOK, Services
  <2> QED
    BY <2>1, <2>3 DEF mainVars, SignalInv, DaemonHolds, NeverEarly, EndedBySignalOrCrash, CrashIsFinal
<1> QED
  BY <1>1, <1>2, <1>3 DEF ServiceNext, ServiceStop

LEMMA SignalMain == ASSUME TypeOK, SignalInv, main # "exited", MainNext \/ SendSignal PROVE SignalInv'
<1>0. UNCHANGED svc
  BY DEF MainNext, SendSignal, FirstSelect, AllTasksExited, SecondSignal, GraceTimeout, Leaves,
         Deferred, svcVars
<1>1. CASE SendSignal
  <2>1. sent \in Nat /\ sent' = sent + 1 /\ UNCHANGED <<main, cause, parentDone>>
    BY <1>1, AgentAssumption DEF SendSignal, TypeOK
  <2>2. sent' > 0
    BY <2>1
  <2> QED
    BY <1>0, <2>1, <2>2 DEF SignalInv, DaemonHolds, NeverEarly, EndedBySignalOrCrash, CrashIsFinal
<1>2. CASE FirstSelect
  <2>1. ~GroupDone
    BY <1>2 DEF FirstSelect, GroupDone, SignalInv, DaemonHolds, Services
  <2>2. /\ sigCh > 0 /\ main' = "grace" /\ UNCHANGED <<cause, sent>>
    BY <1>2, <2>1 DEF FirstSelect, SignalWaiting
  <2> QED
    BY <2>2 DEF SignalInv, DaemonHolds, NeverEarly, EndedBySignalOrCrash, CrashIsFinal
<1>3. CASE AllTasksExited \/ SecondSignal \/ GraceTimeout
  <2>1. /\ main = "grace" /\ main' = "return" /\ sent' = sent
        /\ cause' \in {"allTasks", "secondSignal", "graceTimeout"}
    BY <1>3 DEF AllTasksExited, SecondSignal, GraceTimeout, Leaves
  <2>2. sent > 0
    BY <2>1 DEF SignalInv, EndedBySignalOrCrash, CrashIsFinal
  <2>3. UNCHANGED parentDone /\ (sigCh' > 0 => sent' > 0)
    BY <2>1, <2>2, <1>3 DEF AllTasksExited, SecondSignal, GraceTimeout, Leaves
  <2> QED
    BY <1>0, <2>1, <2>2, <2>3 DEF SignalInv, DaemonHolds, NeverEarly, EndedBySignalOrCrash, CrashIsFinal
<1>4. CASE Deferred
  BY <1>4 DEF Deferred, SignalInv, DaemonHolds, NeverEarly, EndedBySignalOrCrash, CrashIsFinal
<1> QED
  BY <1>1, <1>2, <1>3, <1>4 DEF MainNext

LEMMA SignalAlways == Spec => []SignalInv
<1>1. Init => SignalInv
  BY DEF Init, SignalInv, DaemonHolds, NeverEarly, EndedBySignalOrCrash, CrashIsFinal, Services
<1>2. TypeOK /\ SignalInv /\ [Next]_vars => SignalInv'
  <2> SUFFICES ASSUME TypeOK, SignalInv, [Next]_vars PROVE SignalInv'
    OBVIOUS
  <2>1. CASE UNCHANGED <<mainVars, svc>>
    BY <2>1 DEF mainVars, SignalInv, DaemonHolds, NeverEarly, EndedBySignalOrCrash, CrashIsFinal
  <2>2. CASE WorkNext
    <3>1. UNCHANGED <<mainVars, svc>>
      BY <2>2 DEF WorkNext, StreamOpen, StreamCancel, StreamReturn, StreamStep, SessionStart,
                  SessionEnd, svcVars
    <3> QED
      BY <2>1, <3>1
  <2>3. CASE main # "exited" /\ (ServiceNext \/ MainNext \/ SendSignal)
    BY <2>3, SignalServices, SignalMain
  <2> QED
    BY <2>1, <2>2, <2>3 DEF Next, vars, svcVars
<1> QED
  BY <1>1, <1>2, TypeCorrect, PTL DEF Spec

\* Whatever fails, g.Wait() does not return before a signal: the agent's own end
\* for services that finished early (main.go:372) is out of reach, and without a
\* crash only a signal ends the process.
THEOREM OnlyASignalEndsTheAgent == Spec => [](NeverEarly /\ EndedBySignalOrCrash)
<1>1. SignalInv => NeverEarly /\ EndedBySignalOrCrash
  BY DEF SignalInv
<1> QED
  BY <1>1, SignalAlways, PTL

\* Nobody has called a server that does not serve yet.
StartingServesNone ==
  svc["grpc"] = "starting" => \A c \in Streams : stream[c] = "none"

\* A gRPC server that was stopped, in whatever way, or that never served, has no
\* call with a live context.
StoppedServesNone ==
  svc["grpc"] = "returned" /\ grpcEnd # "failed" => \A c \in Streams : stream[c] # "open"

\* The gRPC server moves, and never back to its start; nothing else that moves
\* while it starts is a stream.
LEMMA StartingKept ==
  ASSUME TypeOK, StartingServesNone, Next PROVE StartingServesNone'
<1>0. "grpc" \in Services
  BY DEF Services
<1>1. CASE ServiceNext
  <2>1. svc'["grpc"] = "starting" => svc["grpc"] = "starting"
    <3>1. svc' = svc \/ \E s \in Services, to \in {"running", "stopping", "returned"} :
                           svc' = [svc EXCEPT ![s] = to]
      BY <1>1 DEF ServiceNext, ServiceStop, RetrieverStop, HttpStop, GrpcStop, GrpcDrained, GrpcForce,
                  MonitorStop, DaemonStop, HttpFail, GrpcStart, GrpcFail, MonitorStart,
                  MonitorListenFail, MonitorReport, DaemonStart, DaemonFatal, Fails, Goes, Services,
                  svcVars
    <3> QED
      BY <1>0, <3>1 DEF TypeOK
  <2>2. CASE GrpcForce
    BY <1>0, <2>2 DEF GrpcForce, Goes, TypeOK, StartingServesNone
  <2>3. CASE ~GrpcForce
    <3>1. UNCHANGED stream
      BY <1>1, <2>3 DEF ServiceNext, ServiceStop, RetrieverStop, HttpStop, GrpcStop, GrpcDrained,
                  MonitorStop, DaemonStop, HttpFail, GrpcStart, GrpcFail, MonitorStart,
                  MonitorListenFail, MonitorReport, DaemonStart, DaemonFatal, workVars
    <3> QED
      BY <2>1, <3>1 DEF StartingServesNone
  <2> QED
    BY <2>2, <2>3
<1>2. ASSUME NEW c \in Streams, StreamOpen(c) \/ StreamCancel(c) \/ StreamReturn(c)
      PROVE  StartingServesNone'
  <2>1. UNCHANGED svc /\ (svc["grpc"] = "running" \/ stream[c] \in {"open", "cancelled"})
    BY <1>2 DEF StreamOpen, StreamCancel, StreamReturn, StreamStep, svcVars
  <2>2. svc["grpc"] # "starting"
    BY <2>1 DEF StartingServesNone
  <2> QED
    BY <2>1, <2>2 DEF StartingServesNone
<1>3. CASE MainNext \/ SendSignal \/ \E x \in Sessions : SessionStart(x) \/ SessionEnd(x)
  <2>1. UNCHANGED <<stream, svc>>
    BY <1>3 DEF MainNext, SendSignal, FirstSelect, AllTasksExited, SecondSignal, GraceTimeout,
                Leaves, Deferred, SessionStart, SessionEnd, workVars, svcVars
  <2> QED
    BY <2>1 DEF StartingServesNone
<1> QED
  BY <1>1, <1>2, <1>3 DEF Next, WorkNext

LEMMA StoppedKept ==
  ASSUME TypeOK, StartingServesNone, StoppedServesNone, Next PROVE StoppedServesNone'
<1>0. "grpc" \in Services
  BY DEF Services
<1>1. CASE GrpcDrained \/ GrpcForce
  <2>1. \A c \in Streams : stream'[c] # "open"
    BY <1>1 DEF GrpcDrained, GrpcForce, Drained, workVars, TypeOK
  <2> QED
    BY <2>1 DEF StoppedServesNone
<1>2. CASE GrpcFail
  BY <1>2 DEF GrpcFail, StoppedServesNone
<1>6. CASE GrpcStart
  <2>1. svc["grpc"] = "starting" /\ UNCHANGED stream
    BY <1>6 DEF GrpcStart, Fails, Goes, workVars
  <2> QED
    BY <2>1 DEF StartingServesNone, StoppedServesNone
<1>3. ASSUME NEW c \in Streams, StreamOpen(c) \/ StreamCancel(c) \/ StreamReturn(c)
      PROVE  StoppedServesNone'
  <2>1. CASE StreamOpen(c)
    <3>1. svc["grpc"] = "running" /\ svc' = svc
      BY <2>1 DEF StreamOpen, StreamStep, svcVars
    <3> QED
      BY <3>1 DEF StoppedServesNone
  <2>2. CASE StreamCancel(c) \/ StreamReturn(c)
    <3>1. /\ UNCHANGED <<svc, grpcEnd>>
          /\ \A d \in Streams : stream'[d] = "open" => stream[d] = "open"
      BY <2>2 DEF StreamCancel, StreamReturn, StreamStep, svcVars, TypeOK
    <3> QED
      BY <3>1 DEF StoppedServesNone
  <2> QED
    BY <1>3, <2>1, <2>2
<1>4. CASE \/ RetrieverStop \/ HttpStop \/ GrpcStop \/ MonitorStop \/ DaemonStop \/ HttpFail
           \/ MonitorStart \/ MonitorListenFail \/ MonitorReport \/ DaemonStart \/ DaemonFatal
  <2>1. UNCHANGED <<stream, grpcEnd>>
    BY <1>4 DEF RetrieverStop, HttpStop, GrpcStop, MonitorStop, DaemonStop, HttpFail, MonitorStart,
                MonitorListenFail, MonitorReport, DaemonStart, DaemonFatal, workVars, svcVars
  <2>2. svc'["grpc"] = "returned" => svc["grpc"] = "returned"
    <3>1. CASE GrpcStop
      BY <1>0, <3>1 DEF GrpcStop, Goes, TypeOK
    <3>2. svc' = svc \/ GrpcStop \/ \E s \in Services \ {"grpc"}, to \in {"running", "stopping", "returned"} :
                           svc' = [svc EXCEPT ![s] = to]
      BY <1>4 DEF RetrieverStop, HttpStop, MonitorStop, DaemonStop, HttpFail, MonitorStart,
                  MonitorListenFail, MonitorReport, DaemonStart, DaemonFatal, Fails, Goes, Services,
                  svcVars
    <3> QED
      BY <1>0, <3>1, <3>2 DEF TypeOK
  <2> QED
    BY <2>1, <2>2 DEF StoppedServesNone
<1>5. CASE MainNext \/ SendSignal \/ \E x \in Sessions : SessionStart(x) \/ SessionEnd(x)
  <2>1. UNCHANGED <<stream, grpcEnd, svc>>
    BY <1>5 DEF MainNext, SendSignal, FirstSelect, AllTasksExited, SecondSignal, GraceTimeout,
                Leaves, Deferred, SessionStart, SessionEnd, workVars, svcVars
  <2> QED
    BY <2>1 DEF StoppedServesNone
<1> QED
  BY <1>1, <1>2, <1>3, <1>4, <1>5, <1>6 DEF Next, ServiceNext, ServiceStop, WorkNext

\* Once the gRPC server was stopped, gracefully or by force, no streaming call
\* has a live context, so none can hold the agent up.
THEOREM StoppedServerServesNone == Spec => []StoppedServesNone
<1>1. Init => StartingServesNone /\ StoppedServesNone
  BY DEF Init, StartingServesNone, StoppedServesNone, Services
<1>2. TypeOK /\ StartingServesNone /\ StoppedServesNone /\ [Next]_vars
      => StartingServesNone' /\ StoppedServesNone'
  <2>1. ASSUME UNCHANGED vars, StartingServesNone, StoppedServesNone
        PROVE  StartingServesNone' /\ StoppedServesNone'
    BY <2>1 DEF vars, svcVars, workVars, StartingServesNone, StoppedServesNone
  <2> QED
    BY <2>1, StartingKept, StoppedKept
<1> QED
  BY <1>1, <1>2, TypeCorrect, PTL DEF Spec

-----------------------------------------------------------------------------
(* What the shutdown assumes of a call: grpc.Server and its handlers, that   *)
(* RequestHandlers models.                                                   *)

ServerNow ==
  IF svc["grpc"] \in {"starting", "running"} THEN "serving"
    ELSE IF grpcEnd = "forced" THEN "stopped" ELSE "stopping"

CallOf(s) ==
  CASE s = "none"      -> "none"
    [] s = "open"      -> "open"
    [] s = "cancelled" -> "over"
    [] s = "done"      -> "returned"

CallNow == [c \in Streams |-> CallOf(stream[c])]

Calls == INSTANCE CallLife WITH Calls <- Streams, server <- ServerNow, call <- CallNow

ImplementsCallLife == Calls!Spec

\* The timer's end is the server's: before it, NewGRPCServer has not returned.
ForcedReturned == grpcEnd = "forced" => svc["grpc"] = "returned"

CallStep == Calls!Next \/ UNCHANGED <<ServerNow, CallNow>>

\* A streaming call takes one step.
LEMMA CallMoves ==
  ASSUME TypeOK, TypeOK', NEW c \in Streams, UNCHANGED <<svc, grpcEnd>>,
         StreamOpen(c) \/ StreamCancel(c) \/ StreamReturn(c)
  PROVE  Calls!Open(c) \/ Calls!ContextEnds(c) \/ Calls!Return(c)
<1>1. UNCHANGED ServerNow
  BY DEF ServerNow
<1>2. ASSUME NEW d \in Streams, d # c PROVE CallNow'[d] = CallNow[d]
  <2>1. stream'[d] = stream[d]
    BY <1>2 DEF StreamOpen, StreamCancel, StreamReturn, StreamStep, TypeOK
  <2> QED
    BY <2>1 DEF CallNow
<1>3. CallNow' = [CallNow EXCEPT ![c] = CallNow'[c]]
  <2>1. CallNow = [d \in Streams |-> CallNow[d]] /\ CallNow' = [d \in Streams |-> CallNow'[d]]
    BY DEF CallNow
  <2> QED
    BY <1>2, <2>1
<1>4. CASE StreamOpen(c)
  <2>1. svc["grpc"] = "running" /\ stream[c] = "none" /\ stream'[c] = "open"
    BY <1>4 DEF StreamOpen, StreamStep, TypeOK
  <2>2. CallNow[c] = "none" /\ CallNow'[c] = "open" /\ ServerNow = "serving"
    BY <2>1 DEF CallNow, CallOf, ServerNow
  <2> QED
    BY <1>1, <1>3, <2>2 DEF Calls!Open
<1>5. CASE StreamCancel(c)
  <2>1. stream[c] = "open" /\ stream'[c] = "cancelled"
    BY <1>5 DEF StreamCancel, StreamStep, TypeOK
  <2>2. CallNow[c] = "open" /\ CallNow'[c] = "over"
    BY <2>1 DEF CallNow, CallOf
  <2> QED
    BY <1>1, <1>3, <2>2 DEF Calls!ContextEnds
<1>6. CASE StreamReturn(c)
  <2>1. stream[c] = "cancelled" /\ stream'[c] = "done"
    BY <1>6 DEF StreamReturn, StreamStep, TypeOK
  <2>2. CallNow[c] = "over" /\ CallNow'[c] = "returned"
    BY <2>1 DEF CallNow, CallOf
  <2> QED
    BY <1>1, <1>3, <2>2 DEF Calls!Return
<1> QED
  BY <1>4, <1>5, <1>6

\* The server starts or ends: it fails, is stopped gracefully, or by force.
LEMMA ServerMoves ==
  ASSUME TypeOK, ForcedReturned, GrpcStart \/ GrpcFail \/ GrpcStop \/ GrpcDrained \/ GrpcForce
  PROVE  CallStep /\ ForcedReturned'
<1>0. "grpc" \in Services
  BY DEF Services
<1>1. CASE GrpcFail \/ GrpcStop
  <2>1. /\ svc["grpc"] \in {"starting", "running"} /\ svc'["grpc"] \in {"stopping", "returned"}
        /\ grpcEnd # "forced" /\ grpcEnd' # "forced" /\ UNCHANGED stream
    BY <1>0, <1>1 DEF GrpcFail, GrpcStop, Fails, Goes, TypeOK, workVars, ForcedReturned
  <2>2. ServerNow = "serving" /\ ServerNow' = "stopping" /\ UNCHANGED CallNow
    BY <2>1 DEF ServerNow, CallNow
  <2> QED
    BY <2>1, <2>2 DEF CallStep, Calls!Next, Calls!Stop, ForcedReturned
<1>2. CASE GrpcDrained
  <2>1. /\ svc["grpc"] = "stopping" /\ svc'["grpc"] = "returned"
        /\ grpcEnd # "forced" /\ grpcEnd' = "graceful" /\ UNCHANGED stream
    BY <1>0, <1>2 DEF GrpcDrained, Goes, TypeOK, workVars, ForcedReturned
  <2>2. UNCHANGED <<ServerNow, CallNow>>
    BY <2>1 DEF ServerNow, CallNow
  <2> QED
    BY <2>1, <2>2 DEF CallStep, ForcedReturned
<1>3. CASE GrpcForce
  <2>1. /\ svc["grpc"] = "stopping" /\ svc'["grpc"] = "returned"
        /\ grpcEnd # "forced" /\ grpcEnd' = "forced"
        /\ stream' = [c \in Streams |-> IF stream[c] = "open" THEN "cancelled" ELSE stream[c]]
    BY <1>0, <1>3 DEF GrpcForce, Goes, TypeOK, ForcedReturned
  <2>2. ServerNow = "stopping" /\ ServerNow' = "stopped"
    BY <2>1 DEF ServerNow
  <2>3. ASSUME NEW c \in Streams
        PROVE  CallNow'[c] = IF CallNow[c] = "open" THEN "over" ELSE CallNow[c]
    <3>1. /\ stream[c] \in {"none", "open", "cancelled", "done"}
          /\ stream'[c] = IF stream[c] = "open" THEN "cancelled" ELSE stream[c]
      BY <2>1 DEF TypeOK
    <3> QED
      BY <3>1 DEF CallNow, CallOf
  <2>4. CallNow' = [c \in Streams |-> IF CallNow[c] = "open" THEN "over" ELSE CallNow[c]]
    <3>1. CallNow' = [d \in Streams |-> CallNow'[d]]
      BY DEF CallNow
    <3> QED
      BY <2>3, <3>1
  <2> QED
    BY <2>1, <2>2, <2>4 DEF CallStep, Calls!Next, Calls!HardStop, ForcedReturned
<1>4. CASE GrpcStart
  <2>1. /\ svc["grpc"] = "starting" /\ svc'["grpc"] \in {"running", "returned"}
        /\ grpcEnd # "forced" /\ grpcEnd' # "forced" /\ UNCHANGED stream
    BY <1>0, <1>4 DEF GrpcStart, Fails, Goes, TypeOK, workVars, ForcedReturned
  <2>2. ServerNow = "serving" /\ ServerNow' \in {"serving", "stopping"} /\ UNCHANGED CallNow
    BY <2>1 DEF ServerNow, CallNow
  <2> QED
    BY <2>1, <2>2 DEF CallStep, Calls!Next, Calls!Stop, ForcedReturned
<1> QED
  BY <1>1, <1>2, <1>3, <1>4

LEMMA CallsKept ==
  ASSUME TypeOK, TypeOK', ForcedReturned, Next PROVE CallStep /\ ForcedReturned'
<1>0. "grpc" \in Services
  BY DEF Services
<1>1. ASSUME UNCHANGED <<stream, grpcEnd>>, svc'["grpc"] = svc["grpc"]
      PROVE  CallStep /\ ForcedReturned'
  BY <1>1 DEF CallStep, ServerNow, CallNow, ForcedReturned
<1>2. ASSUME NEW c \in Streams, StreamOpen(c) \/ StreamCancel(c) \/ StreamReturn(c)
      PROVE  CallStep /\ ForcedReturned'
  <2>1. UNCHANGED <<svc, grpcEnd>>
    BY <1>2 DEF StreamOpen, StreamCancel, StreamReturn, StreamStep, svcVars
  <2> QED
    BY <1>2, <2>1, CallMoves DEF CallStep, Calls!Next, ForcedReturned
<1>3. CASE \/ RetrieverStop \/ HttpStop \/ MonitorStop \/ DaemonStop \/ HttpFail
           \/ MonitorStart \/ MonitorListenFail \/ MonitorReport \/ DaemonStart \/ DaemonFatal
  <2>1. UNCHANGED <<stream, grpcEnd>>
    BY <1>3 DEF RetrieverStop, HttpStop, MonitorStop, DaemonStop, HttpFail, MonitorStart,
                MonitorListenFail, MonitorReport, DaemonStart, DaemonFatal, workVars, svcVars
  <2>2. svc' = svc \/ \E s \in Services \ {"grpc"}, to \in {"running", "stopping", "returned"} :
                         svc' = [svc EXCEPT ![s] = to]
    BY <1>3 DEF RetrieverStop, HttpStop, MonitorStop, DaemonStop, HttpFail,
                MonitorStart, MonitorListenFail, MonitorReport, DaemonStart, DaemonFatal, Fails,
                Goes, Services, svcVars
  <2>3. svc'["grpc"] = svc["grpc"]
    BY <1>0, <2>2 DEF TypeOK
  <2> QED
    BY <1>1, <2>1, <2>3
<1>4. CASE MainNext \/ SendSignal \/ \E x \in Sessions : SessionStart(x) \/ SessionEnd(x)
  <2>1. UNCHANGED <<stream, grpcEnd, svc>>
    BY <1>4 DEF MainNext, SendSignal, FirstSelect, AllTasksExited, SecondSignal, GraceTimeout,
                Leaves, Deferred, SessionStart, SessionEnd, workVars, svcVars
  <2> QED
    BY <1>1, <2>1
<1> QED
  BY <1>2, <1>3, <1>4, ServerMoves DEF Next, ServiceNext, ServiceStop, WorkNext

\* The shutdown of grpc.go, graceful or by force, lets a streaming call do only what
\* CallLife, which the request handlers implement, says a call does.
THEOREM AssumesCallLife == Spec => ImplementsCallLife
<1>1. Init => Calls!Init /\ ForcedReturned
  BY DEF Init, Calls!Init, ServerNow, CallNow, CallOf, Services, ForcedReturned
<1>2. TypeOK /\ TypeOK' /\ ForcedReturned /\ [Next]_vars => [Calls!Next]_Calls!vars /\ ForcedReturned'
  <2> SUFFICES ASSUME TypeOK, TypeOK', ForcedReturned, [Next]_vars
               PROVE  [Calls!Next]_Calls!vars /\ ForcedReturned'
    OBVIOUS
  <2>1. CASE UNCHANGED vars
    <3>1. UNCHANGED <<svc, stream, grpcEnd>>
      BY <2>1 DEF vars, svcVars, workVars
    <3> QED
      BY <3>1 DEF ServerNow, CallNow, Calls!vars, ForcedReturned
  <2> QED
    BY <2>1, CallsKept DEF CallStep, Calls!vars
<1> QED
  BY <1>1, <1>2, TypeCorrect, PTL DEF Spec, ImplementsCallLife, Calls!Spec
=============================================================================
