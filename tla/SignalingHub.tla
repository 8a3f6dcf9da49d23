----------------------------- MODULE SignalingHub -----------------------------
(***************************************************************************)
(* internal/signaling: the WebSocket hub and its clients, with the two     *)
(* places that create clients, WebsocketService.Exchange for a remote peer *)
(* and WebRTCDaemon.connectWebsocketOnce for the daemon itself.            *)
(*                                                                         *)
(* The hub is one goroutine that takes from three unbuffered channels      *)
(* (register, unregister, broadcast) and whose handlers never block, so    *)
(* each rendezvous and its handler are one step, taken by the client that  *)
(* waits.  Each client has a read pump, a remote one also a write pump,    *)
(* and a ping loop.  Client.Send and Client.Close have no caller.          *)
(*                                                                         *)
(* A message is its position in the order in which the hub handled them.   *)
(***************************************************************************)
EXTENDS Integers, Sequences, FiniteSets

CONSTANTS
  Clients,       \* the WebsocketClient objects, one per connection
  DaemonClients, \* those the WebRTC daemon made: a message handler, no write pump
  SendCap,       \* capacity of client.send (16 in the code)
  MaxMessages    \* bound: messages that clients forward to the hub

ASSUME HubAssumption ==
  /\ IsFiniteSet(Clients)
  /\ DaemonClients \subseteq Clients
  /\ SendCap \in Nat \ {0}
  /\ MaxMessages \in Nat

VARIABLES
  clients,    \* h.clients
  send,       \* per client: the messages in client.send
  sendClosed, \* the clients whose send channel is closed
  reader,     \* per client: where its connection handler and read pump are
  writer,     \* per client: where its write pump is
  connDown,   \* the clients whose connection is closed or lost
  closed,     \* the clients whose closed channel is closed
  total,      \* how many messages the hub has handled
  heard       \* history, per client: the last message written to its peer

hubVars == <<clients, send, sendClosed, total>>
vars == <<hubVars, reader, writer, connDown, closed, heard>>

Remote == Clients \ DaemonClients

ReaderState ==
  {"new", "registering", "reading", "forwarding", "unregistering", "closing", "marking", "done"}

TypeOK ==
  /\ clients \subseteq Clients
  /\ send \in [Clients -> Seq(1 .. MaxMessages)]
  /\ \A c \in Clients : Len(send[c]) <= SendCap
  /\ sendClosed \subseteq Clients
  /\ reader \in [Clients -> ReaderState]
  /\ writer \in [Clients -> {"none", "select", "exiting", "done"}]
  /\ connDown \subseteq Clients
  /\ closed \subseteq Clients
  /\ total \in 0 .. MaxMessages
  /\ heard \in [Clients -> 0 .. MaxMessages]

Init ==
  /\ clients = {}
  /\ send = [c \in Clients |-> <<>>]
  /\ sendClosed = {}
  /\ reader = [c \in Clients |-> "new"]
  /\ writer = [c \in Clients |-> "none"]
  /\ connDown = {}
  /\ closed = {}
  /\ total = 0
  /\ heard = [c \in Clients |-> 0]

-----------------------------------------------------------------------------
(* The connection handler and the read pump.                                *)

\* The connection is up (upgraded or dialled); hub.register <- client is next.
Connect(c) ==
  /\ reader[c] = "new"
  /\ reader' = [reader EXCEPT ![c] = "registering"]
  /\ UNCHANGED <<hubVars, writer, connDown, closed, heard>>

\* Does the creator of the client start its write pump?
HasWriter(c) == c \in Remote

\* RegisterNewClient, and then the pumps start.  What was handled before is not heard.
Register(c) ==
  /\ reader[c] = "registering"
  /\ clients' = clients \cup {c}
  /\ reader' = [reader EXCEPT ![c] = "reading"]
  /\ writer' = IF HasWriter(c) THEN [writer EXCEPT ![c] = "select"] ELSE writer
  /\ heard' = [heard EXCEPT ![c] = total]
  /\ UNCHANGED <<send, sendClosed, total, connDown, closed>>

\* A remote client's message goes to the hub.  (The daemon's goes to its
\* handler, which starts a session in a goroutine of its own and returns.)
ReadMessage(c) ==
  /\ reader[c] = "reading"
  /\ c \in Remote \ connDown
  /\ total + Cardinality({d \in Clients : reader[d] = "forwarding"}) < MaxMessages
  /\ reader' = [reader EXCEPT ![c] = "forwarding"]
  /\ UNCHANGED <<hubVars, writer, connDown, closed, heard>>

\* ReadJSON fails: the connection is gone, or the message is not valid.
ReadFail(c) ==
  /\ reader[c] = "reading"
  /\ reader' = [reader EXCEPT ![c] = "unregistering"]
  /\ UNCHANGED <<hubVars, writer, connDown, closed, heard>>

Full(c) == Len(send[c]) = SendCap

\* Bug: HandleMessage keeps a client whose buffer is full.
EvictedKept == {}

\* The clients whose buffer is full: HandleMessage closes send and deletes them.
Evicted == {c \in clients : Full(c)}

\* Bug: HandleMessage has no default branch and waits for the slowest client.
BroadcastBlocking(c) ==
  /\ reader[c] = "forwarding"
  /\ \A d \in clients : ~Full(d)
  /\ total' = total + 1
  /\ send' = [d \in Clients |-> IF d \in clients THEN Append(send[d], total + 1) ELSE send[d]]
  /\ reader' = [reader EXCEPT ![c] = "reading"]
  /\ UNCHANGED <<clients, sendClosed, writer, connDown, closed, heard>>

\* hub.broadcast <- msg and HandleMessage: the sender itself is served too.
Broadcast(c) ==
  LET served == {d \in clients : ~Full(d)} IN
  /\ reader[c] = "forwarding"
  /\ total' = total + 1
  /\ send' = [d \in Clients |-> IF d \in served THEN Append(send[d], total + 1) ELSE send[d]]
  /\ sendClosed' = sendClosed \cup (clients \ served)
  /\ clients' = clients \ Evicted
  /\ reader' = [reader EXCEPT ![c] = "reading"]
  /\ UNCHANGED <<writer, connDown, closed, heard>>

\* Bug: RemoveClient does not delete the client.
RemovedNone(c) == {}

\* The client that RemoveClient deletes.
Removed(c) == {c}

\* RemoveClient closes the send channel of a client that is still registered.
ClosedByRemoval(c) == {c} \cap clients

\* hub.unregister <- c and RemoveClient.
Unregister(c) ==
  /\ reader[c] = "unregistering"
  /\ clients' = clients \ Removed(c)
  /\ sendClosed' = sendClosed \cup ClosedByRemoval(c)
  /\ reader' = [reader EXCEPT ![c] = "closing"]
  /\ UNCHANGED <<send, total, writer, connDown, closed, heard>>

\* Conn.Close, then markClosed.
ReaderClose(c) ==
  /\ \/ /\ reader[c] = "closing"
        /\ connDown' = connDown \cup {c}
        /\ reader' = [reader EXCEPT ![c] = "marking"]
        /\ UNCHANGED closed
     \/ /\ reader[c] = "marking"
        /\ closed' = closed \cup {c}
        /\ reader' = [reader EXCEPT ![c] = "done"]
        /\ UNCHANGED connDown
  /\ UNCHANGED <<hubVars, writer, heard>>

-----------------------------------------------------------------------------
(* The write pump: select { <-send ; ticker ; <-closed }.                   *)

\* Bug: the newest message first.
NextMessageNewest(c) == send[c][Len(send[c])]

\* A receive from the channel.
NextMessage(c) == Head(send[c])

\* A message is written; on a lost connection the write fails and the pump returns.
WriteMessage(c) ==
  /\ writer[c] = "select"
  /\ send[c] # <<>>
  /\ send' = [send EXCEPT ![c] = Tail(@)]
  /\ \/ /\ c \notin connDown
        /\ heard' = [heard EXCEPT ![c] = NextMessage(c)]
        /\ UNCHANGED writer
     \/ /\ c \in connDown
        /\ writer' = [writer EXCEPT ![c] = "exiting"]
        /\ UNCHANGED heard
  /\ UNCHANGED <<clients, sendClosed, total, reader, connDown, closed>>

\* Bug: the pump ignores that its channel was closed.
PumpEndsOnlyIfLost(c) == c \in connDown \cup closed

\* send is closed and drained (a close frame is sent), the ping fails, or the
\* read pump has marked the client closed.
PumpEnds(c) ==
  \/ c \in sendClosed /\ send[c] = <<>>
  \/ c \in connDown
  \/ c \in closed

WriterStop(c) ==
  /\ writer[c] = "select"
  /\ PumpEnds(c)
  /\ writer' = [writer EXCEPT ![c] = "exiting"]
  /\ UNCHANGED <<hubVars, reader, connDown, closed, heard>>

\* The deferred Conn.Close, then markClosed.
WriterClose(c) ==
  /\ writer[c] = "exiting"
  /\ \/ /\ c \notin connDown
        /\ connDown' = connDown \cup {c}
        /\ UNCHANGED <<writer, closed>>
     \/ /\ c \in connDown
        /\ closed' = closed \cup {c}
        /\ writer' = [writer EXCEPT ![c] = "done"]
        /\ UNCHANGED connDown
  /\ UNCHANGED <<hubVars, reader, heard>>

-----------------------------------------------------------------------------
\* The peer leaves, no pong comes within pongWait, or the ping loop closes the
\* connection because a ping could not be written.
LoseConnection(c) ==
  /\ reader[c] \notin {"new", "done"}
  /\ c \notin connDown
  /\ connDown' = connDown \cup {c}
  /\ UNCHANGED <<hubVars, reader, writer, closed, heard>>

\* The hub's three channels are unbuffered and it is always back at its select.
HubServes(c) == Register(c) \/ Broadcast(c) \/ Unregister(c)

WriterNext(c) == WriteMessage(c) \/ WriterStop(c) \/ WriterClose(c)

Next ==
  \E c \in Clients :
    \/ Connect(c) \/ LoseConnection(c)
    \/ HubServes(c)
    \/ ReadMessage(c) \/ ReadFail(c) \/ ReaderClose(c)
    \/ WriterNext(c)

Spec == Init /\ [][Next]_vars

\* The hub serves whoever waits; the pumps run; a read on a lost connection
\* returns with an error; a write returns within writeWait.
Fairness ==
  \A c \in Clients :
    /\ WF_vars(HubServes(c))
    /\ WF_vars(c \in connDown /\ ReadFail(c))
    /\ WF_vars(ReaderClose(c))
    /\ WF_vars(WriterNext(c))

FairSpec == Spec /\ Fairness

-----------------------------------------------------------------------------
(* Safety.                                                                  *)

\* The hub sends on, and closes, the send channels of registered clients only;
\* none of them is closed already.  Eviction, removal and the order in which
\* they come must not make the hub panic, which would end the agent.
SendNotClosed == clients \cap sendClosed = {}

\* A client that has unregistered, or that was never read, is not registered:
\* the map does not keep clients nobody will ever remove.
RegisteredIsRead ==
  \A c \in clients : reader[c] \in {"reading", "forwarding", "unregistering"}

\* What a registered client's buffer holds is exactly what the hub handled
\* since its peer last heard something: no message is skipped or reordered for
\* a client that is still registered, however slow it is.
NoGap ==
  \A c \in clients : writer[c] \in {"none", "select"} =>
    /\ heard[c] + Len(send[c]) = total
    /\ \A i \in DOMAIN send[c] : send[c][i] = heard[c] + i

\* A client that is not registered was never (its handler is not that far) or is no more.
Phase(c) ==
  IF reader[c] \in {"new", "registering"} THEN "out"
  ELSE IF c \in clients THEN "in" ELSE "gone"

\* The hub implements the ordered broadcast: eviction, removal, loss of the
\* connection and the pumps interleave as they may, every registered client is
\* owed every message, is evicted exactly when SendCap of them wait, and its
\* peer hears them one after the other, those left in the buffer included.
Ordered == INSTANCE OrderedBroadcast WITH
  Cap <- SendCap,
  phase <- [c \in Clients |-> Phase(c)],
  owed <- [c \in Clients |-> Len(send[c])],
  cut <- {c \in Clients : writer[c] \in {"exiting", "done"}}

ImplementsOrderedBroadcast == Ordered!Spec

-----------------------------------------------------------------------------
(* Liveness.                                                                *)

\* The hub never makes a sender wait for another client: a message that a read
\* pump forwards is handled.
ForwardReturns == \A c \in Clients : reader[c] = "forwarding" ~> reader[c] = "reading"

\* A lost connection is noticed by both pumps and the client is taken off the hub.
LostIsRemoved ==
  \A c \in Clients :
    (c \in connDown /\ reader[c] = "reading")
      ~> (reader[c] = "done" /\ c \notin clients /\ c \in closed /\ writer[c] \in {"none", "done"})

\* A remote client that the hub evicts does not linger half-connected: its
\* write pump closes the connection and its read pump ends.
EvictedLeaves ==
  \A c \in Remote : (c \in sendClosed) ~> (c \in connDown /\ reader[c] = "done")
=============================================================================
