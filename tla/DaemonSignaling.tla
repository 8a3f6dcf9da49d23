--------------------------- MODULE DaemonSignaling ---------------------------
(***************************************************************************)
(* The WebRTC daemon (internal/webrtc/viewer.go): how offers reach it and  *)
(* answers leave it, the dispatch of signaling messages and, composed with *)
(* them, the sessions of ViewerSession.                                    *)
(*                                                                         *)
(* In WebSocket mode it keeps a connection to the agent's own hub: the     *)
(* reconnect loop makes one after the other, each with a read pump only    *)
(* (what that does to the hub is in SignalingHub).  A connection is named  *)
(* by its number.  w.cWebsocket is written by the loop and read by the     *)
(* sessions without a lock.                                                *)
(*                                                                         *)
(* In MQTT mode Start subscribes to the offer topic once, through the      *)
(* client of mqtt_client/client.go, which reconnects by itself.  The       *)
(* broker and that client's library are external.                          *)
(***************************************************************************)
EXTENDS ViewerSession

CONSTANT MaxConns   \* bound: connections dialled successfully

ASSUME DaemonAssumption == MaxConns \in Nat

VARIABLES
  loop,       \* where websocketReconnectLoop is; "off" in MQTT mode
  dialled,    \* how many connections were dialled
  conn,       \* per connection: where its read pump is
  connDown,   \* the connections that are closed or lost
  cWebsocket, \* w.cWebsocket: a connection, 0 for nil
  opener,     \* history, per session: the message that started it
  starter,    \* where Start's MQTT branch is; "off" in WebSocket mode
  cleanSession, \* the option CleanSession of the MQTT client
  token,      \* the subscription's token
  linked,     \* the MQTT client is connected to the broker
  subscribed, \* the broker holds the subscription
  gaveUp      \* history: Start's WaitTimeout ended without an answer

loopVars == <<loop, dialled, cWebsocket>>
connVars == <<conn, connDown>>
mqttVars == <<starter, cleanSession, token, linked, subscribed, gaveUp>>
vars == <<sessionVars, loopVars, connVars, opener, mqttVars>>

Conns == 1 .. MaxConns

\* A message as the daemon tells messages apart: its type, and which of the
\* parts that ValidateWebRTC looks at it has.
Message ==
  [type : {"init", "offer", "answer", "other"}, webrtc : BOOLEAN, id : BOOLEAN,
   topic : BOOLEAN, sdp : BOOLEAN]

NoMessage == [type |-> "other", webrtc |-> FALSE, id |-> FALSE, topic |-> FALSE, sdp |-> FALSE]

TypeOK ==
  /\ SessionTypeOK
  /\ loop \in {"off", "top", "dial", "register", "assign", "watch", "exited"}
  /\ dialled \in 0 .. MaxConns
  /\ conn \in [Conns -> {"none", "dialled", "reading", "closing", "marked"}]
  /\ connDown \subseteq Conns
  /\ cWebsocket \in 0 .. dialled
  /\ opener \in [Sessions -> Message]
  /\ starter \in {"off", "subscribe", "wait", "running", "failed"}
  /\ token \in {"none", "pending", "granted", "refused", "error"}
  /\ {cleanSession, linked, subscribed, gaveUp} \subseteq BOOLEAN

Init ==
  /\ SessionInit
  /\ \/ loop = "top" /\ starter = "off" /\ cleanSession = FALSE
     \/ loop = "off" /\ starter = "subscribe" /\ cleanSession \in BOOLEAN
  /\ dialled = 0
  /\ conn = [c \in Conns |-> "none"]
  /\ connDown = {}
  /\ cWebsocket = 0
  /\ opener = [x \in Sessions |-> NoMessage]
  /\ linked = (starter # "off")
  /\ token = "none" /\ subscribed = FALSE /\ gaveUp = FALSE

-----------------------------------------------------------------------------
(* websocketReconnectLoop and connectWebsocketOnce.                         *)

LoopGoto(from, to) == loop = from /\ loop' = to

\* The connection is up and its read pump has not noticed otherwise.
Up(c) == conn[c] \in {"dialled", "reading"} /\ c \notin connDown

\* The loop looks at ctx at its top and in its wait; when it is done it returns.
\* time.Sleep(backoff), which no context interrupts, is time spent at the top.
LoopTop ==
  /\ \/ daemonDone /\ (LoopGoto("top", "exited") \/ LoopGoto("watch", "exited"))
     \/ ~daemonDone /\ LoopGoto("top", "dial")
  /\ UNCHANGED <<sessionVars, dialled, cWebsocket, connVars, opener, mqttVars>>

\* The dial succeeds, even when ctx has been cancelled since the look, or fails.
Dial ==
  /\ \/ /\ dialled < MaxConns
        /\ LoopGoto("dial", "register")
        /\ dialled' = dialled + 1
        /\ conn' = [conn EXCEPT ![dialled + 1] = "dialled"]
     \/ /\ LoopGoto("dial", "top")
        /\ UNCHANGED <<dialled, conn>>
  /\ UNCHANGED <<sessionVars, cWebsocket, connDown, opener, mqttVars>>

\* hub.register <- client and go client.Read(), then w.cWebsocket = client.
Connect ==
  /\ \/ /\ LoopGoto("register", "assign")
        /\ conn' = [conn EXCEPT ![dialled] = "reading"]
        /\ UNCHANGED cWebsocket
     \/ /\ LoopGoto("assign", "watch")
        /\ cWebsocket' = dialled
        /\ UNCHANGED conn
  /\ UNCHANGED <<sessionVars, dialled, connDown, opener, mqttVars>>

\* Bug: the loop does not wait for the connection to close.
ClosedAlways(c) == TRUE

\* <-w.cWebsocket.Closed()
Closed(c) == conn[c] = "marked"

Reconnect ==
  /\ LoopGoto("watch", "top")
  /\ Closed(cWebsocket)
  /\ UNCHANGED <<sessionVars, dialled, cWebsocket, connVars, opener, mqttVars>>

-----------------------------------------------------------------------------
(* The connection and its read pump.                                        *)

\* The server end goes away, or a ping cannot be written.
LoseConnection(c) ==
  /\ Up(c)
  /\ connDown' = connDown \cup {c}
  /\ UNCHANGED <<sessionVars, loopVars, conn, opener, mqttVars>>

\* ReadJSON fails: the connection is lost, or what came is not a message.
ReadFail(c) ==
  /\ conn[c] = "reading"
  /\ conn' = [conn EXCEPT ![c] = "closing"]
  /\ UNCHANGED <<sessionVars, loopVars, connDown, opener, mqttVars>>

\* Bug: the deferred markClosed is missing in Read.
MarkedNever == "closing"

Marked == "marked"

\* The deferred Conn.Close(), then markClosed().
ReadEnds(c) ==
  /\ conn[c] = "closing"
  /\ connDown' = connDown \cup {c}
  /\ conn' = [conn EXCEPT ![c] = Marked]
  /\ UNCHANGED <<sessionVars, loopVars, opener, mqttVars>>

-----------------------------------------------------------------------------
(* messageHandler.                                                          *)

\* ValidateWebRTC returns nil.
Valid(m) ==
  /\ m.id /\ m.webrtc
  /\ m.type \in {"init", "offer"} => m.topic
  /\ m.type \in {"offer", "answer"} => m.sdp

\* A valid offer starts a session; init, answer (the daemon's own come back
\* from the hub) and everything else do nothing.
StartsSession(m) == Valid(m) /\ m.type = "offer"

\* messageHandler and sdpExchangeHandler, which returns at once.
Handle(x) ==
  /\ \E m \in Message : StartsSession(m) /\ opener' = [opener EXCEPT ![x] = m]
  /\ Start(x)
  /\ UNCHANGED <<loopVars, connVars, mqttVars>>

\* A connection's read pump hands a message to websocketHandler.
Receive(c, x) == conn[c] = "reading" /\ c \notin connDown /\ Handle(x)

\* The MQTT client hands a message to mqttHandler, also after the daemon was
\* closed, which does not unsubscribe.
MqttReceive(x) == linked /\ subscribed /\ Handle(x)

-----------------------------------------------------------------------------
(* The answer: w.cWebsocket.WriteJSON, or w.cMqtt.Publish.                  *)

\* A publication that is not acknowledged in time counts as sent; nil panics,
\* and a write to a lost connection fails.
CanAnswer == starter # "off" \/ (cWebsocket # 0 /\ cWebsocket \notin connDown)

\* Either may also fail for reasons of its own.
AnswerVia(x) ==
  /\ (CanAnswer /\ Answer(x, TRUE)) \/ Answer(x, FALSE)
  /\ UNCHANGED <<loopVars, connVars, opener, mqttVars>>

-----------------------------------------------------------------------------
(* MQTT mode: Start's subscription, the connection to the broker.           *)

MqttUnchanged == UNCHANGED <<sessionVars, loopVars, connVars, opener, cleanSession>>

StartGoto(from, to) == starter = from /\ starter' = to

\* Subscribe returns a token at once.
Subscribe ==
  /\ StartGoto("subscribe", "wait")
  /\ token' = "pending"
  /\ UNCHANGED <<linked, subscribed, gaveUp>> /\ MqttUnchanged

\* Bug: only the wait is looked at, not the token's error.
StartFailsNever == FALSE

\* token.Error() # nil
StartFails == token = "error"

\* token.WaitTimeout(5s) && token.Error() # nil returns the error; when the
\* time is over first, the daemon goes on without knowing.
WaitSubscribed ==
  /\ \/ /\ token # "pending" /\ StartFails
        /\ StartGoto("wait", "failed") /\ UNCHANGED gaveUp
     \/ /\ token # "pending" /\ ~StartFails
        /\ StartGoto("wait", "running") /\ UNCHANGED gaveUp
     \/ /\ token = "pending"
        /\ StartGoto("wait", "running") /\ gaveUp' = TRUE
  /\ UNCHANGED <<token, linked, subscribed>> /\ MqttUnchanged

\* The broker grants the subscription, at once or late (also after a
\* reconnection, ResumeSubs); or refuses it, which completes the token without an
\* error, since the client keeps a refusal in the token's result; or the client
\* itself reports an error.
Answered ==
  /\ token = "pending"
  /\ \/ linked /\ token' = "granted" /\ subscribed' = TRUE
     \/ linked /\ token' = "refused" /\ UNCHANGED subscribed
     \/ token' = "error" /\ UNCHANGED subscribed
  /\ UNCHANGED <<starter, linked, gaveUp>> /\ MqttUnchanged

\* The connection is lost; the broker keeps the subscriptions of a client only
\* if it did not ask for a clean session.
LoseBroker ==
  /\ linked
  /\ linked' = FALSE
  /\ subscribed' = (subscribed /\ ~cleanSession)
  /\ UNCHANGED <<starter, token, gaveUp>> /\ MqttUnchanged

\* AutoReconnect; defaultReconnectHandler is empty and there is no handler of
\* new connections, so that nothing subscribes again.
RejoinBroker ==
  /\ starter # "off" /\ ~linked
  /\ linked' = TRUE
  /\ UNCHANGED <<starter, token, subscribed, gaveUp>> /\ MqttUnchanged

-----------------------------------------------------------------------------
LoopNext == LoopTop \/ Dial \/ Connect \/ Reconnect

ConnNext(c) == LoseConnection(c) \/ ReadFail(c) \/ ReadEnds(c)

\* What Start does by itself in MQTT mode.
StartNext == Subscribe \/ WaitSubscribed

MqttNext == StartNext \/ Answered \/ LoseBroker \/ RejoinBroker

Next ==
  \/ LoopNext
  \/ \E c \in Conns : ConnNext(c) \/ \E x \in Sessions : Receive(c, x)
  \/ \E x \in Sessions : AnswerVia(x) \/ MqttReceive(x)
  \/ MqttNext
  \/ SessionStep /\ UNCHANGED <<loopVars, connVars, opener, mqttVars>>

Spec == Init /\ [][Next]_vars

\* The loop runs and a dial does not fail for ever; a read on a lost connection
\* returns with an error; the sessions are as fair as ViewerSession says.
Fairness ==
  /\ SessionFairness
  /\ WF_vars(StartNext)
  /\ WF_vars(LoopNext) /\ SF_vars(Dial /\ dialled' # dialled)
  /\ \A c \in Conns : WF_vars((c \in connDown /\ ReadFail(c)) \/ ReadEnds(c))

FairSpec == Spec /\ Fairness

-----------------------------------------------------------------------------
(* Properties.                                                              *)

\* The daemon never has two connections to the hub: an offer broadcast by the
\* hub would reach it twice and start two sessions.
OneConnection == \A c, d \in Conns : Up(c) /\ Up(d) => c = d

\* A session is started by an offer that names a topic and carries an SDP, and
\* never by an answer: the hub sends the daemon's own answers back to it.
OffersOnly ==
  \A x \in Sessions :
    main[x] # "idle" =>
      opener[x].type = "offer" /\ opener[x].id /\ opener[x].topic /\ opener[x].sdp

\* In MQTT mode a daemon that Start keeps running hears offers, but for three
\* causes: nobody answered its subscription within the five seconds; the broker
\* refused it, which token.Error() does not tell; or it was granted to a clean
\* session, which the broker has discarded since.  So an error of the client never
\* leaves a daemon that runs and hears nothing, and with a kept session no
\* subscription that was once granted is lost.
DeafForCause ==
  starter = "running" /\ ~subscribed =>
    gaveUp \/ token = "refused" \/ (cleanSession /\ token = "granted")

\* A lost connection is followed by another one, unless the daemon is closed:
\* the loop never waits for a connection that nobody will mark closed.
Reconnects == \A c \in Conns \ {MaxConns} : c \in connDown ~> (dialled > c \/ daemonDone)
=============================================================================
