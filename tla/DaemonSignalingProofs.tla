------------------------ MODULE DaemonSignalingProofs ------------------------
(***************************************************************************)
(* The daemon composed with its sessions: a daemon's step is a session's   *)
(* step or none, so that what ViewerSessionProofs shows of the sessions    *)
(* holds in the composition; and the daemon never has two connections.     *)
(***************************************************************************)
EXTENDS DaemonSignaling, ViewerSessionProofs

LEMMA StepIsSessionStep == [Next]_vars => [SessionNext]_sessionVars
<1> SUFFICES ASSUME [Next]_vars PROVE [SessionNext]_sessionVars
  OBVIOUS
<1>1. CASE UNCHANGED vars
  BY <1>1 DEF vars
<1>2. CASE LoopNext
  BY <1>2 DEF LoopNext, LoopTop, Dial, Connect, Reconnect
<1>3. ASSUME NEW c \in Conns, ConnNext(c) PROVE UNCHANGED sessionVars
  BY <1>3 DEF ConnNext, LoseConnection, ReadFail, ReadEnds
<1>4. ASSUME NEW c \in Conns, NEW x \in Sessions, Receive(c, x) PROVE SessionNext
  BY <1>4 DEF Receive, Handle, SessionNext
<1>5. ASSUME NEW x \in Sessions, AnswerVia(x) PROVE SessionNext
  BY <1>5 DEF AnswerVia, SessionNext
<1>6. CASE SessionStep
  BY <1>6 DEF SessionNext
<1>7. ASSUME NEW x \in Sessions, MqttReceive(x) PROVE SessionNext
  BY <1>7 DEF MqttReceive, Handle, SessionNext
<1>8. CASE MqttNext
  BY <1>8 DEF MqttNext, StartNext, Subscribe, WaitSubscribed, Answered, LoseBroker, RejoinBroker, MqttUnchanged
<1> QED BY <1>1, <1>2, <1>3, <1>4, <1>5, <1>6, <1>7, <1>8 DEF Next

\* The composition implements ViewerSession: connections come and go, and a
\* session cannot tell.
THEOREM DaemonRunsSessions == Spec => SessionSpec
<1>1. Init => SessionInit
  BY DEF Init
<1> QED BY <1>1, StepIsSessionStep, PTL DEF Spec, SessionSpec

\* In the composition too the encoder is closed after its feeder, samples wait
\* for ICE, and a session that is over has released what it held.
THEOREM SessionsSafeInDaemon ==
  Spec => [](EncoderClosedAlone /\ NoSampleBeforeIce /\ OverIsReleased)
  BY DaemonRunsSessions, FeederBeforeClose, IceBeforeSamples, ReleasedAtEnd, PTL

-----------------------------------------------------------------------------
(* The connections.                                                         *)

ConnState == {"none", "dialled", "reading", "closing", "marked"}

\* Only the last connection can be up, and none is while the loop is about to dial.
ConnInv ==
  /\ dialled \in 0 .. MaxConns
  /\ conn \in [Conns -> ConnState]
  /\ \A c \in Conns : c > dialled => conn[c] = "none"
  /\ \A c \in Conns : Up(c) => c = dialled
  /\ loop \in {"off", "top", "dial"} => \A c \in Conns : ~Up(c)
  /\ loop = "watch" => cWebsocket = dialled
  /\ loop \in {"register", "assign", "watch"} => dialled \in Conns

LEMMA ConnInit == Init => ConnInv
  BY DaemonAssumption DEF Init, ConnInv, ConnState, Conns, Up

LEMMA ConnUnchanged ==
  ASSUME ConnInv, UNCHANGED <<loopVars, connVars>>
  PROVE  ConnInv'
  BY DEF ConnInv, loopVars, connVars, Up

LEMMA LoopKeeps ==
  ASSUME ConnInv, LoopNext
  PROVE  ConnInv'
<1> USE DaemonAssumption DEF Conns, connVars, LoopGoto
<1>1. CASE LoopTop
  BY <1>1 DEF LoopTop, ConnInv, Up
<1>2. CASE Dial
  <2>1. CASE dialled' = dialled
    BY <1>2, <2>1 DEF Dial, ConnInv, Up
  <2>2. CASE dialled' # dialled
    <3>1. /\ dialled + 1 \in Conns /\ dialled' = dialled + 1
          /\ loop = "dial" /\ loop' = "register"
          /\ conn' = [conn EXCEPT ![dialled + 1] = "dialled"] /\ connDown' = connDown
      BY <1>2, <2>2 DEF Dial, ConnInv
    <3>2. \A c \in Conns : c # dialled + 1 => conn'[c] = conn[c]
      BY <3>1 DEF ConnInv
    <3>3. conn' \in [Conns -> ConnState]
      BY <3>1 DEF ConnInv, ConnState
    <3>4. \A c \in Conns : Up(c)' => c = dialled'
      BY <3>1, <3>2 DEF ConnInv, Up
    <3>5. \A c \in Conns : c > dialled' => conn'[c] = "none"
      BY <3>1, <3>2 DEF ConnInv
    <3> QED BY <3>1, <3>3, <3>4, <3>5 DEF ConnInv
  <2> QED BY <2>1, <2>2
<1>3. CASE Connect
  <2>1. CASE conn' = conn
    BY <1>3, <2>1 DEF Connect, ConnInv, Up
  <2>2. CASE conn' # conn
    <3>1. /\ conn' = [conn EXCEPT ![dialled] = "reading"] /\ loop' = "assign" /\ loop = "register"
          /\ dialled' = dialled /\ connDown' = connDown
      BY <1>3, <2>2 DEF Connect
    <3> QED BY <3>1 DEF ConnInv, ConnState, Up
  <2> QED BY <2>1, <2>2
<1>4. CASE Reconnect
  BY <1>4 DEF Reconnect, Closed, ConnInv, Up
<1> QED BY <1>1, <1>2, <1>3, <1>4 DEF LoopNext

LEMMA ConnKeeps ==
  ASSUME ConnInv, NEW c \in Conns, ConnNext(c)
  PROVE  ConnInv'
<1>1. CASE LoseConnection(c)
  BY <1>1 DEF LoseConnection, ConnInv, Up, loopVars
<1>2. CASE ReadFail(c)
  BY <1>2 DEF ReadFail, ConnInv, ConnState, Up, loopVars
<1>3. CASE ReadEnds(c)
  BY <1>3 DEF ReadEnds, Marked, ConnInv, ConnState, Up, loopVars
<1> QED BY <1>1, <1>2, <1>3 DEF ConnNext

LEMMA ConnSteps == ConnInv /\ [Next]_vars => ConnInv'
<1> SUFFICES ASSUME ConnInv, [Next]_vars PROVE ConnInv'
  OBVIOUS
<1>1. ASSUME NEW c \in Conns, NEW x \in Sessions, Receive(c, x) PROVE ConnInv'
  BY <1>1, ConnUnchanged DEF Receive, Handle
<1>2. ASSUME NEW x \in Sessions, AnswerVia(x) PROVE ConnInv'
  BY <1>2, ConnUnchanged DEF AnswerVia
<1>3. CASE UNCHANGED vars
  BY <1>3, ConnUnchanged DEF vars
<1>4. CASE SessionStep /\ UNCHANGED <<loopVars, connVars, opener, mqttVars>>
  BY <1>4, ConnUnchanged
<1>5. ASSUME NEW x \in Sessions, MqttReceive(x) PROVE ConnInv'
  BY <1>5, ConnUnchanged DEF MqttReceive, Handle
<1>6. CASE MqttNext
  BY <1>6, ConnUnchanged
  DEF MqttNext, StartNext, Subscribe, WaitSubscribed, Answered, LoseBroker, RejoinBroker, MqttUnchanged
<1> QED BY <1>1, <1>2, <1>3, <1>4, <1>5, <1>6, LoopKeeps, ConnKeeps DEF Next

\* However often the connection is lost, the daemon has at most one.
THEOREM OneConnectionAtATime == Spec => []OneConnection
<1>1. ConnInv => OneConnection
  BY DEF ConnInv, OneConnection
<1> QED BY <1>1, ConnInit, ConnSteps, PTL DEF Spec

-----------------------------------------------------------------------------
(* The subscription in MQTT mode.                                           *)

\* DeafForCause is not inductive: what matters is how the token got where it is
\* while Start was waiting, and that a granted subscription is held until a clean
\* session is discarded.
SubscriptionInv ==
  /\ starter \in {"off", "subscribe", "wait", "running", "failed"}
  /\ token \in {"none", "pending", "granted", "refused", "error"}
  /\ starter \in {"off", "subscribe"} => token = "none"
  /\ starter \notin {"off", "subscribe"} => token # "none"
  /\ starter = "running" => token \in {"granted", "refused"} \/ gaveUp
  /\ token = "granted" => subscribed \/ cleanSession

LEMMA SubscriptionSteps == SubscriptionInv /\ [Next]_vars => SubscriptionInv'
<1> SUFFICES ASSUME SubscriptionInv, [Next]_vars PROVE SubscriptionInv'
  OBVIOUS
<1> USE DEF SubscriptionInv
<1>1. CASE UNCHANGED mqttVars
  BY <1>1 DEF mqttVars
<1>2. CASE MqttNext
  <2>1. CASE Subscribe
    BY <2>1 DEF Subscribe, StartGoto, MqttUnchanged
  <2>2. CASE WaitSubscribed
    BY <2>2 DEF WaitSubscribed, StartFails, StartGoto, MqttUnchanged
  <2>3. CASE Answered
    BY <2>3 DEF Answered, MqttUnchanged
  <2>4. CASE LoseBroker
    BY <2>4 DEF LoseBroker, MqttUnchanged
  <2>5. CASE RejoinBroker
    BY <2>5 DEF RejoinBroker, MqttUnchanged
  <2> QED BY <1>2, <2>1, <2>2, <2>3, <2>4, <2>5 DEF MqttNext, StartNext
<1>3. ASSUME LoopNext \/ \E c \in Conns : ConnNext(c) PROVE UNCHANGED mqttVars
  BY <1>3 DEF LoopNext, LoopTop, Dial, Connect, Reconnect, ConnNext, LoseConnection, ReadFail, ReadEnds
<1>4. ASSUME NEW x \in Sessions, AnswerVia(x) \/ MqttReceive(x) \/ \E c \in Conns : Receive(c, x)
      PROVE  UNCHANGED mqttVars
  BY <1>4 DEF AnswerVia, MqttReceive, Receive, Handle
<1> QED BY <1>1, <1>2, <1>3, <1>4 DEF Next, vars

\* In MQTT mode a running daemon hears nothing only after a timeout, after a
\* refusal, or when a clean session was discarded.
THEOREM DeafOnlyForCause == Spec => []DeafForCause
<1>1. Init => SubscriptionInv
  BY DEF Init, SubscriptionInv
<1>2. SubscriptionInv => DeafForCause
  BY DEF SubscriptionInv, DeafForCause
<1> QED BY <1>1, <1>2, SubscriptionSteps, PTL DEF Spec

-----------------------------------------------------------------------------
(* What starts a session.                                                   *)

OpenerInv ==
  /\ main \in [Sessions -> MainState]
  /\ opener \in [Sessions -> Message]
  /\ \A x \in Sessions : main[x] # "idle" => StartsSession(opener[x])

\* Only Start takes a session out of "idle".
LEMMA IdleStays ==
  ASSUME main \in [Sessions -> MainState], SessionStep \/ \E y \in Sessions, ok \in BOOLEAN : Answer(y, ok)
  PROVE  /\ main' \in [Sessions -> MainState]
         /\ \A x \in Sessions : main[x] = "idle" => main'[x] = "idle"
<1>1. ASSUME NEW y \in Sessions, MainStep(y) PROVE /\ main' \in [Sessions -> MainState]
         /\ \A x \in Sessions : main[x] = "idle" => main'[x] = "idle"
  BY <1>1 DEF MainStep, Join, CreatePeer, AddTrack, Describe, Gather, Wait, Leave, Goto, MainState, Leaving
<1>2. ASSUME NEW y \in Sessions, NEW ok \in BOOLEAN, Answer(y, ok) PROVE /\ main' \in [Sessions -> MainState]
         /\ \A x \in Sessions : main[x] = "idle" => main'[x] = "idle"
  BY <1>2 DEF Answer, Goto, MainState, Leaving
<1>3. ASSUME NEW y \in Sessions,
             \/ PipeStep(y) \/ CloseEncoder(y) \/ FfmpegEnds(y) \/ Feed(y) \/ FeederJams(y) \/ FeederStop(y)
             \/ IceConnected(y) \/ PeerCloses(y)
      PROVE  main' = main
  BY <1>3 DEF PipeStep, NewEncoder, IceWait, StreamNal, JoinFeeder, CloseEncoder, FfmpegEnds, Feed, FeederJams,
              FeederStop, IceConnected, PeerCloses, PipeUnchanged
<1>4. CASE Shutdown
  BY <1>4 DEF Shutdown
<1> QED BY <1>1, <1>2, <1>3, <1>4 DEF SessionStep

LEMMA OpenerSteps == OpenerInv /\ [Next]_vars => OpenerInv'
<1> SUFFICES ASSUME OpenerInv, [Next]_vars PROVE OpenerInv'
  OBVIOUS
<1>1. CASE UNCHANGED <<main, opener>>
  BY <1>1 DEF OpenerInv
<1>2. CASE (SessionStep \/ \E y \in Sessions, ok \in BOOLEAN : Answer(y, ok)) /\ UNCHANGED opener
  BY <1>2, IdleStays DEF OpenerInv
<1>3. ASSUME NEW x \in Sessions, Handle(x) PROVE OpenerInv'
  <2>1. PICK m \in Message : StartsSession(m) /\ opener' = [opener EXCEPT ![x] = m]
    BY <1>3 DEF Handle
  <2>2. main' = [main EXCEPT ![x] = "join"]
    BY <1>3 DEF Handle, Start, Goto
  <2> QED BY <2>1, <2>2 DEF OpenerInv, MainState
<1>4. ASSUME NEW x \in Sessions, AnswerVia(x) PROVE OpenerInv'
  BY <1>2, <1>4 DEF AnswerVia
<1>5. CASE LoopNext \/ MqttNext \/ \E c \in Conns : ConnNext(c)
  BY <1>1, <1>5
  DEF LoopNext, LoopTop, Dial, Connect, Reconnect, ConnNext, LoseConnection, ReadFail, ReadEnds, MqttNext,
      StartNext, Subscribe, WaitSubscribed, Answered, LoseBroker, RejoinBroker, MqttUnchanged, sessionVars
<1> QED BY <1>1, <1>2, <1>3, <1>4, <1>5 DEF Next, Receive, MqttReceive, vars, sessionVars

\* Whichever way messages reach the daemon and however many come back from the
\* hub, a session is started by an offer only.
THEOREM SessionsComeFromOffers == Spec => []OffersOnly
<1>1. Init => OpenerInv
  BY DEF Init, SessionInit, OpenerInv, MainState, Message, NoMessage
<1>2. OpenerInv => OffersOnly
  BY DEF OpenerInv, OffersOnly, StartsSession, Valid
<1> QED BY <1>1, <1>2, OpenerSteps, PTL DEF Spec

-----------------------------------------------------------------------------
(* The daemon's client of the hub, seen from the reconnect loop.            *)

Client == INSTANCE ConnectionLife WITH Connections <- Conns, client <- conn, down <- connDown

\* What the loop registers it has just dialled.
RegisterInv == loop = "register" => conn[dialled] = "dialled"

LEMMA RegisterSteps ==
  ASSUME ConnInv, RegisterInv, [Next]_vars
  PROVE  RegisterInv'
<1>1. ASSUME UNCHANGED <<loopVars, connVars>> PROVE RegisterInv'
  BY <1>1 DEF RegisterInv, loopVars, connVars
<1>2. CASE UNCHANGED vars
  BY <1>1, <1>2 DEF vars
<1>3. CASE LoopTop \/ Reconnect
  BY <1>3 DEF LoopTop, Reconnect, LoopGoto, RegisterInv
<1>4. CASE Dial
  BY <1>4, DaemonAssumption DEF Dial, LoopGoto, RegisterInv, ConnInv, Conns
<1>5. CASE Connect
  BY <1>5 DEF Connect, LoopGoto, RegisterInv
<1>6. ASSUME NEW c \in Conns, ConnNext(c) PROVE RegisterInv'
  BY <1>6 DEF ConnNext, LoseConnection, ReadFail, ReadEnds, loopVars, RegisterInv, ConnInv
<1>7. ASSUME NEW x \in Sessions, AnswerVia(x) \/ MqttReceive(x) \/ \E c \in Conns : Receive(c, x)
      PROVE  RegisterInv'
  BY <1>1, <1>7 DEF AnswerVia, MqttReceive, Receive, Handle
<1>8. CASE SessionStep /\ UNCHANGED <<loopVars, connVars>>
  BY <1>1, <1>8
<1>9. CASE MqttNext
  BY <1>1, <1>9 DEF MqttNext, StartNext, Subscribe, WaitSubscribed, Answered, LoseBroker, RejoinBroker,
                    MqttUnchanged
<1> QED BY <1>2, <1>3, <1>4, <1>5, <1>6, <1>7, <1>8, <1>9 DEF Next, LoopNext

ImplementsConnectionLife == Client!Spec

ClientStep == Client!Next \/ UNCHANGED <<conn, connDown>>

LEMMA StepIsClients ==
  ASSUME ConnInv, RegisterInv, [Next]_vars
  PROVE  ClientStep
<1> USE DEF ClientStep, Client!Next, Client!Moves
<1>1. ASSUME UNCHANGED connVars PROVE ClientStep
  BY <1>1 DEF connVars
<1>2. CASE UNCHANGED vars
  BY <1>1, <1>2 DEF vars
<1>3. CASE LoopTop \/ Reconnect
  BY <1>1, <1>3 DEF LoopTop, Reconnect
<1>4. CASE Dial
  <2>1. CASE conn' = conn
    BY <1>4, <2>1 DEF Dial
  <2>2. CASE dialled < MaxConns /\ conn' = [conn EXCEPT ![dialled + 1] = "dialled"]
    <3>1. dialled + 1 \in Conns /\ dialled + 1 > dialled
      BY <2>2, DaemonAssumption DEF ConnInv, Conns
    <3>2. PICK c \in Conns : c = dialled + 1
      BY <3>1
    <3>3. conn[c] = "none"
      BY <3>1, <3>2 DEF ConnInv
    <3>4. Client!Dial(c)
      BY <1>4, <2>2, <3>2, <3>3 DEF Dial, Client!Dial
    <3> QED BY <3>4
  <2> QED BY <1>4, <2>1, <2>2 DEF Dial
<1>5. CASE Connect
  <2>1. CASE conn' = conn
    BY <1>5, <2>1 DEF Connect
  <2>2. CASE loop = "register" /\ conn' = [conn EXCEPT ![dialled] = "reading"]
    <3>1. PICK c \in Conns : c = dialled
      BY <2>2 DEF ConnInv
    <3>2. conn[c] = "dialled"
      BY <2>2, <3>1 DEF RegisterInv
    <3>3. Client!Register(c)
      BY <1>5, <2>2, <3>1, <3>2 DEF Connect, Client!Register
    <3> QED BY <3>3
  <2> QED BY <1>5, <2>1, <2>2 DEF Connect, LoopGoto
<1>6. ASSUME NEW c \in Conns, ConnNext(c) PROVE ClientStep
  <2>1. CASE LoseConnection(c)
    <3>1. Client!Lose(c)
      BY <2>1 DEF LoseConnection, Up, Client!Lose
    <3> QED BY <3>1
  <2>2. CASE ReadFail(c)
    <3>1. Client!ReadFail(c)
      BY <2>2 DEF ReadFail, Client!ReadFail
    <3> QED BY <3>1
  <2>3. CASE ReadEnds(c)
    <3>1. Client!MarkClosed(c)
      BY <2>3 DEF ReadEnds, Marked, Client!MarkClosed
    <3> QED BY <3>1
  <2> QED BY <1>6, <2>1, <2>2, <2>3 DEF ConnNext
<1>7. ASSUME NEW x \in Sessions, AnswerVia(x) \/ MqttReceive(x) \/ \E c \in Conns : Receive(c, x)
      PROVE  ClientStep
  BY <1>1, <1>7 DEF AnswerVia, MqttReceive, Receive, Handle
<1>8. CASE SessionStep /\ UNCHANGED connVars
  BY <1>1, <1>8
<1>9. CASE MqttNext
  BY <1>1, <1>9 DEF MqttNext, StartNext, Subscribe, WaitSubscribed, Answered, LoseBroker, RejoinBroker,
                    MqttUnchanged
<1> QED BY <1>2, <1>3, <1>4, <1>5, <1>6, <1>7, <1>8, <1>9 DEF Next, LoopNext

\* The daemon's connections live as ConnectionLife says: dialled, registered and
\* read once each, and marked closed only when they are down, which is all the
\* hub relies on in them (HubSeesConnectionLife).
THEOREM DaemonImplementsConnectionLife == Spec => ImplementsConnectionLife
<1>1. Init => ConnInv /\ RegisterInv /\ Client!Init
  <2>1. Init => RegisterInv /\ Client!Init
    BY DEF Init, RegisterInv, Client!Init
  <2> QED BY <2>1, ConnInit
<1>2. ConnInv /\ RegisterInv /\ [Next]_vars => ConnInv' /\ RegisterInv'
  BY ConnSteps, RegisterSteps
<1>3. ConnInv /\ RegisterInv /\ [Next]_vars => [Client!Next]_Client!vars
  BY StepIsClients DEF ClientStep, Client!vars
<1> QED BY <1>1, <1>2, <1>3, PTL DEF Spec, ImplementsConnectionLife, Client!Spec

-----------------------------------------------------------------------------
(* Types.                                                                   *)

\* What TypeOK says beyond SessionInv, ConnInv and SubscriptionInv.
RestTyped ==
  /\ loop \in {"off", "top", "dial", "register", "assign", "watch", "exited"}
  /\ connDown \subseteq Conns
  /\ cWebsocket \in 0 .. dialled
  /\ opener \in [Sessions -> Message]
  /\ cleanSession \in BOOLEAN /\ linked \in BOOLEAN /\ subscribed \in BOOLEAN /\ gaveUp \in BOOLEAN

LEMMA RestInit == Init => RestTyped
<1> SUFFICES ASSUME Init PROVE RestTyped
  OBVIOUS
<1>1. NoMessage \in Message
  BY DEF NoMessage, Message
<1>2. cleanSession \in BOOLEAN /\ linked \in BOOLEAN
  BY DEF Init
<1>3. subscribed \in BOOLEAN /\ gaveUp \in BOOLEAN
  BY DEF Init
<1>4. cWebsocket \in 0 .. dialled /\ connDown \subseteq Conns
  BY DEF Init
<1>5. loop \in {"off", "top", "dial", "register", "assign", "watch", "exited"}
  BY DEF Init
<1>6. opener \in [Sessions -> Message]
  BY <1>1 DEF Init
<1> QED BY <1>2, <1>3, <1>4, <1>5, <1>6 DEF RestTyped

LEMMA RestSteps ==
  ASSUME ConnInv, RestTyped, [Next]_vars
  PROVE  RestTyped'
<1> USE DEF RestTyped
<1>0. dialled \in Nat
  BY DaemonAssumption DEF ConnInv
<1>1. CASE UNCHANGED vars
  BY <1>1 DEF vars, loopVars, connVars, mqttVars
<1>2. CASE LoopNext
  <2>1. UNCHANGED <<connDown, opener, mqttVars>>
    BY <1>2 DEF LoopNext, LoopTop, Dial, Connect, Reconnect, connVars
  <2>2. loop' \in {"off", "top", "dial", "register", "assign", "watch", "exited"}
    BY <1>2 DEF LoopNext, LoopTop, Dial, Connect, Reconnect, LoopGoto
  <2>3. cWebsocket' \in 0 .. dialled'
    BY <1>0, <1>2 DEF LoopNext, LoopTop, Dial, Connect, Reconnect
  <2> QED BY <2>1, <2>2, <2>3 DEF mqttVars
<1>3. ASSUME NEW c \in Conns, ConnNext(c) PROVE RestTyped'
  <2>1. UNCHANGED <<loopVars, opener, mqttVars>> /\ connDown' \subseteq Conns
    BY <1>3 DEF ConnNext, LoseConnection, ReadFail, ReadEnds
  <2> QED BY <2>1 DEF loopVars, mqttVars
<1>4. ASSUME NEW x \in Sessions, AnswerVia(x) \/ MqttReceive(x) \/ \E c \in Conns : Receive(c, x)
      PROVE  RestTyped'
  <2>1. UNCHANGED <<loopVars, connVars, mqttVars>>
    BY <1>4 DEF AnswerVia, MqttReceive, Receive, Handle
  <2>2. opener' \in [Sessions -> Message]
    BY <1>4 DEF AnswerVia, MqttReceive, Receive, Handle
  <2> QED BY <2>1, <2>2 DEF loopVars, connVars, mqttVars
<1>5. CASE SessionStep /\ UNCHANGED <<loopVars, connVars, opener, mqttVars>>
  BY <1>5 DEF loopVars, connVars, mqttVars
<1>6. CASE MqttNext
  <2>1. UNCHANGED <<loopVars, connVars, opener, cleanSession>>
    BY <1>6 DEF MqttNext, StartNext, Subscribe, WaitSubscribed, Answered, LoseBroker, RejoinBroker,
                MqttUnchanged
  <2>2. linked' \in BOOLEAN /\ gaveUp' \in BOOLEAN
    BY <1>6 DEF MqttNext, StartNext, Subscribe, WaitSubscribed, Answered, LoseBroker, RejoinBroker
  <2>3. subscribed' \in BOOLEAN
    BY <1>6 DEF MqttNext, StartNext, Subscribe, WaitSubscribed, Answered, LoseBroker, RejoinBroker
  <2> QED BY <2>1, <2>2, <2>3 DEF loopVars, connVars
<1> QED BY <1>1, <1>2, <1>3, <1>4, <1>5, <1>6 DEF Next

\* Every variable of the daemon and its sessions keeps its type.
THEOREM TypeCorrect == Spec => []TypeOK
<1>1. Init => SubscriptionInv
  BY DEF Init, SubscriptionInv
<1>2. SessionInv /\ ConnInv /\ SubscriptionInv /\ RestTyped => TypeOK
  BY DEF SessionInv, ConnInv, ConnState, SubscriptionInv, RestTyped, TypeOK
<1> QED
  BY <1>1, <1>2, DaemonRunsSessions, SessionSafe, ConnInit, ConnSteps, SubscriptionSteps, RestInit,
     RestSteps, PTL DEF Spec
=============================================================================
