---------------------------- MODULE ConnectionLife ----------------------------
(***************************************************************************)
(* The WebRTC daemon's client of the hub, a WebsocketClient without a      *)
(* write pump, as the daemon's reconnect loop and the hub both see it: its *)
(* connection is dialled, registered and read until a read fails; then the *)
(* read pump closes the connection and only after that marks the client    *)
(* closed, which is what the loop waits for.  A connection that is down    *)
(* stays down, and a client is never read again once a read has failed.    *)
(***************************************************************************)
CONSTANT Connections   \* one client per connection

VARIABLES
  client,  \* per connection: "none", "dialled", "reading", "closing", "marked"
  down     \* the connections that are closed or lost

vars == <<client, down>>

Init ==
  /\ client = [c \in Connections |-> "none"]
  /\ down = {}

Moves(c, from, to) ==
  /\ client[c] = from
  /\ client' = [client EXCEPT ![c] = to]

Dial(c) == Moves(c, "none", "dialled") /\ UNCHANGED down

\* The hub takes the client, and its read pump starts.
Register(c) == Moves(c, "dialled", "reading") /\ UNCHANGED down

ReadFail(c) == Moves(c, "reading", "closing") /\ UNCHANGED down

\* The peer or the network, a ping that fails, or the read pump's Conn.Close.
Lose(c) ==
  /\ client[c] \in {"dialled", "reading", "closing"}
  /\ down' = down \cup {c}
  /\ UNCHANGED client

MarkClosed(c) == Moves(c, "closing", "marked") /\ down' = down \cup {c}

Next ==
  \E c \in Connections : Dial(c) \/ Register(c) \/ ReadFail(c) \/ Lose(c) \/ MarkClosed(c)

Spec == Init /\ [][Next]_vars
=============================================================================
