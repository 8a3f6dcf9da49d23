------------------------- MODULE SignalingHubProofs -------------------------
(***************************************************************************)
(* Safety of SignalingHub for every set of clients and every capacity.     *)
(***************************************************************************)
EXTENDS SignalingHub, FiniteSetTheorems, TLAPS

\* Only registered clients ever had their channel closed or filled.
NewIsFresh ==
  \A c \in Clients : reader[c] \in {"new", "registering"} =>
    c \notin sendClosed /\ send[c] = <<>> /\ writer[c] = "none"

\* The shape of the variables the invariant needs; TypeOK adds the bounds.
Shape ==
  /\ clients \subseteq Clients
  /\ send \in [Clients -> Seq(Nat)]
  /\ reader \in [Clients -> ReaderState]
  /\ writer \in [Clients -> {"none", "select", "exiting", "done"}]
  /\ total \in Nat
  /\ heard \in [Clients -> Nat]

\* The inductive invariant: SendNotClosed and NoGap need to know that a client
\* about to be registered is fresh, and that an unregistered one is not read.
HubInv == Shape /\ SendNotClosed /\ RegisteredIsRead /\ NewIsFresh /\ NoGap

-----------------------------------------------------------------------------
(* Sequences.                                                               *)

LEMMA AppendFacts ==
  ASSUME NEW q \in Seq(Nat), NEW n \in Nat
  PROVE  /\ Append(q, n) \in Seq(Nat)
         /\ Len(Append(q, n)) = Len(q) + 1
         /\ \A i \in 1 .. Len(q) : Append(q, n)[i] = q[i]
         /\ Append(q, n)[Len(q) + 1] = n
  OBVIOUS

LEMMA TailFacts ==
  ASSUME NEW q \in Seq(Nat), q # <<>>
  PROVE  /\ Head(q) = q[1] /\ Head(q) \in Nat
         /\ Tail(q) \in Seq(Nat)
         /\ Len(Tail(q)) = Len(q) - 1
         /\ \A i \in 1 .. Len(Tail(q)) : Tail(q)[i] = q[i + 1]
  OBVIOUS

-----------------------------------------------------------------------------
LEMMA HubInit == Init => HubInv
<1> SUFFICES ASSUME Init PROVE HubInv
  OBVIOUS
<1>1. Shape
  <2>1. <<>> \in Seq(Nat)
    OBVIOUS
  <2> QED
    BY <2>1 DEF Init, Shape, ReaderState
<1>2. SendNotClosed /\ RegisteredIsRead /\ NoGap
  BY DEF Init, SendNotClosed, RegisteredIsRead, NoGap
<1>3. NewIsFresh
  BY DEF Init, NewIsFresh
<1> QED
  BY <1>1, <1>2, <1>3 DEF HubInv

\* Connect, ReadMessage, ReadFail, ReaderClose: the read pump moves on alone.
LEMMA ReaderKeeps ==
  ASSUME HubInv, NEW c \in Clients,
         Connect(c) \/ ReadMessage(c) \/ ReadFail(c) \/ ReaderClose(c)
  PROVE  HubInv'
<1>0. UNCHANGED <<clients, send, sendClosed, total, writer, heard>>
  BY DEF Connect, ReadMessage, ReadFail, ReaderClose, hubVars
<1>1. /\ reader' \in [Clients -> ReaderState]
      /\ \A d \in Clients \ {c} : reader'[d] = reader[d]
  BY DEF HubInv, Shape, Connect, ReadMessage, ReadFail, ReaderClose, ReaderState
<1>2. reader'[c] \in {"new", "registering"} => reader[c] \in {"new", "registering"}
  BY DEF HubInv, Shape, Connect, ReadMessage, ReadFail, ReaderClose
<1>3. reader[c] \in {"reading", "forwarding", "unregistering"} =>
        reader'[c] \in {"reading", "forwarding", "unregistering"}
  BY DEF HubInv, Shape, Connect, ReadMessage, ReadFail, ReaderClose
<1>4. Shape'
  BY <1>0, <1>1 DEF HubInv, Shape
<1>5. SendNotClosed' /\ NoGap'
  BY <1>0 DEF HubInv, SendNotClosed, NoGap
<1>6. RegisteredIsRead'
  BY <1>0, <1>1, <1>3 DEF HubInv, Shape, RegisteredIsRead
<1>7. NewIsFresh'
  BY <1>0, <1>1, <1>2 DEF HubInv, NewIsFresh
<1> QED
  BY <1>4, <1>5, <1>6, <1>7 DEF HubInv

LEMMA RegisterKeeps ==
  ASSUME HubInv, NEW c \in Clients, Register(c)
  PROVE  HubInv'
<1>0. /\ reader[c] = "registering"
      /\ c \notin sendClosed /\ send[c] = <<>> /\ writer[c] = "none"
  BY DEF HubInv, Register, NewIsFresh
<1>1. /\ UNCHANGED <<send, sendClosed, total>>
      /\ clients' = clients \cup {c}
      /\ reader' = [reader EXCEPT ![c] = "reading"]
      /\ heard' = [heard EXCEPT ![c] = total]
  BY DEF Register
<1>2. /\ writer' \in [Clients -> {"none", "select", "exiting", "done"}]
      /\ \A d \in Clients \ {c} : writer'[d] = writer[d]
  BY DEF HubInv, Shape, Register
<1>3. Shape'
  BY <1>1, <1>2 DEF HubInv, Shape, ReaderState
<1>4. SendNotClosed'
  BY <1>0, <1>1 DEF HubInv, SendNotClosed
<1>5. RegisteredIsRead'
  BY <1>1 DEF HubInv, Shape, RegisteredIsRead
<1>6. NewIsFresh'
  BY <1>1, <1>2 DEF HubInv, Shape, NewIsFresh
<1>7. NoGap'
  <2> SUFFICES ASSUME NEW d \in clients', writer'[d] \in {"none", "select"}
               PROVE  /\ heard'[d] + Len(send'[d]) = total'
                      /\ \A i \in DOMAIN send'[d] : send'[d][i] = heard'[d] + i
    BY DEF NoGap
  <2>1. CASE d = c
    <3>1. heard'[c] = total /\ send'[c] = <<>> /\ total \in Nat
      BY <1>0, <1>1 DEF HubInv, Shape
    <3> QED
      BY <1>1, <2>1, <3>1
  <2>2. CASE d # c
    <3>1. d \in clients /\ writer[d] = writer'[d] /\ heard'[d] = heard[d]
      BY <1>1, <1>2, <2>2 DEF HubInv, Shape
    <3> QED
      BY <1>1, <3>1 DEF HubInv, NoGap
  <2> QED
    BY <2>1, <2>2
<1> QED
  BY <1>3, <1>4, <1>5, <1>6, <1>7 DEF HubInv

LEMMA BroadcastKeeps ==
  ASSUME HubInv, NEW c \in Clients, Broadcast(c)
  PROVE  HubInv'
<1> DEFINE served == {d \in clients : ~Full(d)}
<1>0. /\ reader[c] = "forwarding"
      /\ total' = total + 1
      /\ send' = [d \in Clients |-> IF d \in served THEN Append(send[d], total + 1) ELSE send[d]]
      /\ sendClosed' = sendClosed \cup (clients \ served)
      /\ clients' = served
      /\ reader' = [reader EXCEPT ![c] = "reading"]
      /\ UNCHANGED <<writer, heard>>
  BY DEF Broadcast, Evicted
<1> HIDE DEF served
<1>1. served \subseteq clients
  BY DEF served
<1>2. /\ total \in Nat /\ total + 1 \in Nat
      /\ \A d \in Clients : send[d] \in Seq(Nat)
      /\ clients \subseteq Clients
  BY DEF HubInv, Shape
<1>3. Shape'
  <2>1. \A d \in Clients : send'[d] \in Seq(Nat)
    BY <1>0, <1>2, AppendFacts
  <2>2. send' \in [Clients -> Seq(Nat)]
    BY <1>0, <2>1
  <2> QED
    BY <1>0, <1>1, <1>2, <2>2 DEF HubInv, Shape, ReaderState
<1>4. SendNotClosed'
  BY <1>0, <1>1 DEF HubInv, SendNotClosed
<1>5. RegisteredIsRead'
  BY <1>0, <1>1 DEF HubInv, Shape, RegisteredIsRead
<1>6. NewIsFresh'
  <2> SUFFICES ASSUME NEW d \in Clients, reader'[d] \in {"new", "registering"}
               PROVE  d \notin sendClosed' /\ send'[d] = <<>> /\ writer'[d] = "none"
    BY DEF NewIsFresh
  <2>1. reader[d] \in {"new", "registering"}
    BY <1>0 DEF HubInv, Shape
  <2>2. d \notin clients
    BY <2>1 DEF HubInv, RegisteredIsRead
  <2> QED
    BY <1>0, <1>1, <2>1, <2>2 DEF HubInv, NewIsFresh
<1>7. NoGap'
  <2> SUFFICES ASSUME NEW d \in clients', writer'[d] \in {"none", "select"}
               PROVE  /\ heard'[d] + Len(send'[d]) = total'
                      /\ \A i \in 1 .. Len(send'[d]) : send'[d][i] = heard'[d] + i
    <3>1. \A d \in clients' : send'[d] \in Seq(Nat)
      BY <1>0, <1>1, <1>3 DEF Shape
    <3>2. \A d \in clients' : DOMAIN send'[d] = 1 .. Len(send'[d])
      BY <3>1
    <3> QED
      BY <3>2 DEF NoGap
  <2>1. d \in served /\ d \in Clients /\ d \in clients
    BY <1>0, <1>1, <1>2
  <2>2. send'[d] = Append(send[d], total + 1)
    BY <1>0, <2>1
  <2>3. /\ heard[d] + Len(send[d]) = total
        /\ \A i \in 1 .. Len(send[d]) : send[d][i] = heard[d] + i
    <3>1. DOMAIN send[d] = 1 .. Len(send[d])
      BY <1>2, <2>1
    <3> QED
      BY <1>0, <2>1, <3>1 DEF HubInv, NoGap
  <2>4. heard[d] \in Nat /\ Len(send[d]) \in Nat
    BY <1>2, <2>1 DEF HubInv, Shape
  <2>5. /\ Len(send'[d]) = Len(send[d]) + 1
        /\ \A i \in 1 .. Len(send[d]) : send'[d][i] = send[d][i]
        /\ send'[d][Len(send[d]) + 1] = total + 1
    BY <1>2, <2>1, <2>2, AppendFacts
  <2>6. heard'[d] = heard[d]
    BY <1>0
  <2>7. heard'[d] + Len(send'[d]) = total'
    BY <1>0, <1>2, <2>3, <2>4, <2>5, <2>6
  <2>8. ASSUME NEW i \in 1 .. Len(send'[d]) PROVE send'[d][i] = heard'[d] + i
    <3>1. CASE i \in 1 .. Len(send[d])
      BY <2>3, <2>5, <2>6, <3>1
    <3>2. CASE i = Len(send[d]) + 1
      BY <1>2, <2>3, <2>4, <2>5, <2>6, <3>2
    <3> QED
      BY <2>4, <2>5, <3>1, <3>2
  <2> QED
    BY <2>7, <2>8
<1> QED
  BY <1>3, <1>4, <1>5, <1>6, <1>7 DEF HubInv

LEMMA UnregisterKeeps ==
  ASSUME HubInv, NEW c \in Clients, Unregister(c)
  PROVE  HubInv'
<1>0. /\ reader[c] = "unregistering"
      /\ clients' = clients \ {c}
      /\ sendClosed' = sendClosed \cup ({c} \cap clients)
      /\ reader' = [reader EXCEPT ![c] = "closing"]
      /\ UNCHANGED <<send, total, writer, heard>>
  BY DEF Unregister, Removed, ClosedByRemoval
<1>1. Shape'
  BY <1>0 DEF HubInv, Shape, ReaderState
<1>2. SendNotClosed'
  BY <1>0 DEF HubInv, SendNotClosed
<1>3. RegisteredIsRead'
  BY <1>0 DEF HubInv, Shape, RegisteredIsRead
<1>4. NewIsFresh'
  BY <1>0 DEF HubInv, Shape, NewIsFresh
<1>5. NoGap'
  BY <1>0 DEF HubInv, NoGap
<1> QED
  BY <1>1, <1>2, <1>3, <1>4, <1>5 DEF HubInv

LEMMA WriteKeeps ==
  ASSUME HubInv, NEW c \in Clients, WriteMessage(c)
  PROVE  HubInv'
<1>0. /\ writer[c] = "select" /\ send[c] # <<>>
      /\ send' = [send EXCEPT ![c] = Tail(send[c])]
      /\ UNCHANGED <<clients, sendClosed, total, reader>>
      /\ \/ heard' = [heard EXCEPT ![c] = Head(send[c])] /\ writer' = writer
         \/ writer' = [writer EXCEPT ![c] = "exiting"] /\ heard' = heard
  BY DEF WriteMessage, NextMessage
<1>1. send[c] \in Seq(Nat) /\ heard[c] \in Nat /\ total \in Nat
  BY DEF HubInv, Shape
<1>2. /\ Head(send[c]) = send[c][1] /\ Head(send[c]) \in Nat
      /\ Tail(send[c]) \in Seq(Nat)
      /\ Len(Tail(send[c])) = Len(send[c]) - 1
      /\ \A i \in 1 .. Len(Tail(send[c])) : Tail(send[c])[i] = send[c][i + 1]
  BY <1>0, <1>1, TailFacts
<1>3. Shape'
  <2>1. send' \in [Clients -> Seq(Nat)]
    BY <1>0, <1>2 DEF HubInv, Shape
  <2>2. heard' \in [Clients -> Nat] /\ writer' \in [Clients -> {"none", "select", "exiting", "done"}]
    BY <1>0, <1>2 DEF HubInv, Shape
  <2> QED
    BY <1>0, <2>1, <2>2 DEF HubInv, Shape
<1>4. SendNotClosed' /\ RegisteredIsRead'
  BY <1>0 DEF HubInv, SendNotClosed, RegisteredIsRead
<1>5. NewIsFresh'
  <2>1. reader[c] \notin {"new", "registering"}
    BY <1>0 DEF HubInv, NewIsFresh
  <2>2. \A d \in Clients \ {c} : send'[d] = send[d] /\ writer'[d] = writer[d]
    BY <1>0 DEF HubInv, Shape
  <2> QED
    BY <1>0, <2>1, <2>2 DEF HubInv, NewIsFresh
<1>6. NoGap'
  <2> SUFFICES ASSUME NEW d \in clients, writer'[d] \in {"none", "select"}
               PROVE  /\ heard'[d] + Len(send'[d]) = total
                      /\ \A i \in DOMAIN send'[d] : send'[d][i] = heard'[d] + i
    BY <1>0 DEF NoGap
  <2>0. d \in Clients
    BY DEF HubInv, Shape
  <2>1. CASE d # c
    <3>1. send'[d] = send[d] /\ heard'[d] = heard[d] /\ writer'[d] = writer[d]
      BY <1>0, <2>0, <2>1 DEF HubInv, Shape
    <3> QED
      BY <3>1 DEF HubInv, NoGap
  <2>2. CASE d = c
    <3>1. heard' = [heard EXCEPT ![c] = Head(send[c])]
      BY <1>0, <2>2 DEF HubInv, Shape
    <3>2. heard'[c] = send[c][1] /\ send'[c] = Tail(send[c])
      BY <1>0, <1>2, <3>1 DEF HubInv, Shape
    <3>3. /\ heard[c] + Len(send[c]) = total
          /\ \A i \in 1 .. Len(send[c]) : send[c][i] = heard[c] + i
      <4>1. DOMAIN send[c] = 1 .. Len(send[c])
        BY <1>1
      <4> QED
        BY <1>0, <2>2, <4>1 DEF HubInv, NoGap
    <3>4. Len(send[c]) \in Nat /\ Len(send[c]) >= 1
      BY <1>0, <1>1
    <3>5. heard'[c] = heard[c] + 1
      BY <3>2, <3>3, <3>4
    <3>6. heard'[c] + Len(send'[c]) = total
      BY <1>1, <1>2, <3>2, <3>3, <3>4, <3>5
    <3>7. ASSUME NEW i \in 1 .. Len(Tail(send[c])) PROVE Tail(send[c])[i] = heard'[c] + i
      <4>1. i + 1 \in 1 .. Len(send[c])
        BY <1>2, <3>4
      <4>2. send[c][i + 1] = heard[c] + (i + 1)
        BY <3>3, <4>1
      <4>3. Tail(send[c])[i] = send[c][i + 1]
        BY <1>2
      <4>4. i \in Nat /\ heard[c] \in Int
        BY <1>1, <1>2, <3>4
      <4>5. heard'[c] + i = heard[c] + (i + 1)
        BY <3>5, <4>4
      <4> QED
        BY <4>2, <4>3, <4>5
    <3>8. DOMAIN Tail(send[c]) = 1 .. Len(Tail(send[c]))
      BY <1>2
    <3> QED
      BY <2>2, <3>2, <3>6, <3>7, <3>8
  <2> QED
    BY <2>1, <2>2
<1> QED
  BY <1>3, <1>4, <1>5, <1>6 DEF HubInv

\* WriterStop, WriterClose, LoseConnection: neither the hub nor a buffer changes.
LEMMA WriterKeeps ==
  ASSUME HubInv, NEW c \in Clients,
         WriterStop(c) \/ WriterClose(c) \/ LoseConnection(c)
  PROVE  HubInv'
<1>0. UNCHANGED <<clients, send, sendClosed, total, reader, heard>>
  BY DEF WriterStop, WriterClose, LoseConnection, hubVars
<1>1. /\ writer' \in [Clients -> {"none", "select", "exiting", "done"}]
      /\ \A d \in Clients : writer'[d] \in {"none", "select"} => writer[d] = writer'[d]
      /\ \A d \in Clients : writer[d] = "none" => writer'[d] = "none"
  BY DEF HubInv, Shape, WriterStop, WriterClose, LoseConnection
<1>2. Shape' /\ SendNotClosed' /\ RegisteredIsRead'
  BY <1>0, <1>1 DEF HubInv, Shape, SendNotClosed, RegisteredIsRead
<1>3. NewIsFresh'
  BY <1>0, <1>1 DEF HubInv, NewIsFresh
<1>4. NoGap'
  BY <1>0, <1>1 DEF HubInv, Shape, NoGap
<1> QED
  BY <1>2, <1>3, <1>4 DEF HubInv

LEMMA HubSafe == Spec => []HubInv
<1>1. HubInv /\ [Next]_vars => HubInv'
  <2> SUFFICES ASSUME HubInv, [Next]_vars PROVE HubInv'
    OBVIOUS
  <2>1. CASE UNCHANGED vars
    BY <2>1 DEF vars, hubVars, HubInv, Shape, SendNotClosed, RegisteredIsRead, NewIsFresh, NoGap
  <2>2. CASE Next
    BY <2>2, ReaderKeeps, RegisterKeeps, BroadcastKeeps, UnregisterKeeps, WriteKeeps, WriterKeeps
       DEF Next, HubServes, WriterNext
  <2> QED
    BY <2>1, <2>2
<1> QED
  BY HubInit, <1>1, PTL DEF Spec

\* The hub never sends on, or closes, a send channel that is closed.
THEOREM HubNeverPanics == Spec => []SendNotClosed
<1>1. HubInv => SendNotClosed
  BY DEF HubInv
<1> QED
  BY HubSafe, <1>1, PTL

\* A registered client's read pump still runs: it will unregister the client.
THEOREM NoDeadClients == Spec => []RegisteredIsRead
<1>1. HubInv => RegisteredIsRead
  BY DEF HubInv
<1> QED
  BY HubSafe, <1>1, PTL

\* A registered client's peer hears every message in order, without a gap.
THEOREM HearsAll == Spec => []NoGap
<1>1. HubInv => NoGap
  BY DEF HubInv
<1> QED
  BY HubSafe, <1>1, PTL

-----------------------------------------------------------------------------
(* The ordered broadcast.                                                   *)

\* A pump that still writes has the next messages in its buffer, whether its
\* client is registered or not.
InOrder ==
  \A c \in Clients : writer[c] \in {"none", "select"} =>
    \A i \in 1 .. Len(send[c]) : send[c][i] = heard[c] + i

Bounded == \A c \in Clients : Len(send[c]) <= SendCap

\* HubInv with what the refinement needs of clients that are no longer registered.
OrderInv == HubInv /\ InOrder /\ Bounded

\* Every action but Register, Broadcast and WriteMessage leaves the messages alone.
QuietAction(c) ==
  \/ Connect(c) \/ ReadMessage(c) \/ ReadFail(c) \/ ReaderClose(c) \/ Unregister(c)
  \/ WriterStop(c) \/ WriterClose(c) \/ LoseConnection(c)

LEMMA QuietOrder ==
  ASSUME OrderInv, NEW c \in Clients, QuietAction(c)
  PROVE  InOrder' /\ Bounded'
<1>1. UNCHANGED <<send, heard>>
  BY DEF QuietAction, Connect, ReadMessage, ReadFail, ReaderClose, Unregister, WriterStop,
         WriterClose, LoseConnection, hubVars
<1>2. ASSUME NEW d \in Clients, writer'[d] \in {"none", "select"} PROVE writer[d] = writer'[d]
  <2>1. CASE WriterStop(c) \/ WriterClose(c)
    BY <1>2, <2>1 DEF OrderInv, HubInv, Shape, WriterStop, WriterClose
  <2>2. CASE writer' = writer
    BY <2>2
  <2> QED
    BY <2>1, <2>2 DEF QuietAction, Connect, ReadMessage, ReadFail, ReaderClose, Unregister,
                      LoseConnection
<1> QED
  BY <1>1, <1>2 DEF OrderInv, InOrder, Bounded

LEMMA RegisterOrder ==
  ASSUME OrderInv, NEW c \in Clients, Register(c)
  PROVE  InOrder' /\ Bounded'
<1>1. send[c] = <<>> /\ writer[c] = "none"
  BY DEF OrderInv, HubInv, NewIsFresh, Register
<1>2. send' = send
  BY DEF Register
<1>3. \A d \in Clients \ {c} : heard'[d] = heard[d] /\ writer'[d] = writer[d]
  BY DEF OrderInv, HubInv, Shape, Register
<1>4. InOrder'
  <2> SUFFICES ASSUME NEW d \in Clients, writer'[d] \in {"none", "select"},
                      NEW i \in 1 .. Len(send[d])
               PROVE  send[d][i] = heard'[d] + i
    BY <1>2 DEF InOrder
  <2>1. d # c
    BY <1>1
  <2> QED
    BY <1>3, <2>1 DEF OrderInv, InOrder
<1> QED
  BY <1>2, <1>4 DEF OrderInv, Bounded

\* What a broadcast does to a buffer.
LEMMA BroadcastSend ==
  ASSUME OrderInv, NEW c \in Clients, Broadcast(c)
  PROVE  /\ \A d \in {e \in clients : ~Full(e)} : send'[d] = Append(send[d], total + 1)
         /\ \A d \in Clients \ {e \in clients : ~Full(e)} : send'[d] = send[d]
         /\ \A d \in Clients : send[d] \in Seq(Nat)
         /\ total \in Nat /\ clients \subseteq Clients
  BY DEF OrderInv, HubInv, Shape, Broadcast

LEMMA BroadcastOrder ==
  ASSUME OrderInv, NEW c \in Clients, Broadcast(c)
  PROVE  InOrder' /\ Bounded'
<1>1. writer' = writer /\ heard' = heard
  BY DEF Broadcast
<1>2. ASSUME NEW d \in clients, ~Full(d)
      PROVE  /\ Len(send'[d]) = Len(send[d]) + 1
             /\ Len(send'[d]) <= SendCap
             /\ \A i \in 1 .. Len(send[d]) : send'[d][i] = send[d][i]
             /\ send'[d][Len(send[d]) + 1] = total + 1
  <2>1. send[d] \in Seq(Nat) /\ total + 1 \in Nat /\ send'[d] = Append(send[d], total + 1) /\ d \in Clients
    BY <1>2, BroadcastSend
  <2>2. Len(send[d]) <= SendCap /\ Len(send[d]) # SendCap /\ Len(send[d]) \in Nat
    BY <1>2, <2>1 DEF OrderInv, Bounded, Full
  <2>3. Len(send'[d]) = Len(send[d]) + 1
    BY <2>1, AppendFacts
  <2>4. Len(send'[d]) <= SendCap
    BY <2>2, <2>3, HubAssumption
  <2> QED
    BY <2>1, <2>3, <2>4, AppendFacts
<1>3. \A d \in Clients : (d \in clients /\ ~Full(d)) \/ send'[d] = send[d]
  BY BroadcastSend
<1>4. Bounded'
  BY <1>2, <1>3 DEF OrderInv, Bounded
<1>5. InOrder'
  <2> SUFFICES ASSUME NEW d \in Clients, writer[d] \in {"none", "select"},
                      NEW i \in 1 .. Len(send'[d])
               PROVE  send'[d][i] = heard[d] + i
    BY <1>1 DEF InOrder
  <2>1. CASE send'[d] = send[d]
    BY <2>1 DEF OrderInv, InOrder
  <2>2. CASE d \in clients /\ ~Full(d)
    <3>1. heard[d] + Len(send[d]) = total
      BY <2>2 DEF OrderInv, HubInv, NoGap
    <3>2. heard[d] \in Nat /\ Len(send[d]) \in Nat /\ total \in Nat
      BY <2>2, BroadcastSend DEF OrderInv, HubInv, Shape
    <3>3. CASE i \in 1 .. Len(send[d])
      BY <1>2, <2>2, <3>3 DEF OrderInv, InOrder
    <3>4. CASE i = Len(send[d]) + 1
      <4>1. send'[d][i] = total + 1
        BY <1>2, <2>2, <3>4
      <4> QED
        BY <3>1, <3>2, <3>4, <4>1
    <3>5. Len(send'[d]) = Len(send[d]) + 1
      BY <1>2, <2>2
    <3> QED
      BY <3>2, <3>3, <3>4, <3>5
  <2> QED
    BY <1>3, <2>1, <2>2
<1> QED
  BY <1>4, <1>5

\* What a write does to the buffer and to its peer.
LEMMA WriteSend ==
  ASSUME OrderInv, NEW c \in Clients, WriteMessage(c)
  PROVE  /\ writer[c] = "select"
         /\ Len(send[c]) \in Nat /\ Len(send[c]) > 0
         /\ Len(send'[c]) = Len(send[c]) - 1
         /\ \A i \in 1 .. Len(send'[c]) : send'[c][i] = send[c][i + 1]
         /\ \A d \in Clients \ {c} : send'[d] = send[d] /\ heard'[d] = heard[d] /\ writer'[d] = writer[d]
         /\ Head(send[c]) = heard[c] + 1
         /\ heard[c] \in Nat
<1>1. /\ send[c] \in Seq(Nat) /\ send[c] # <<>> /\ heard[c] \in Nat
      /\ send'[c] = Tail(send[c]) /\ writer[c] = "select"
      /\ \A d \in Clients \ {c} : send'[d] = send[d] /\ heard'[d] = heard[d] /\ writer'[d] = writer[d]
  BY DEF OrderInv, HubInv, Shape, WriteMessage
<1>2. Len(send[c]) \in Nat /\ Len(send[c]) > 0
  BY <1>1
<1>3. Head(send[c]) = send[c][1]
  BY <1>1, TailFacts
<1>4. send[c][1] = heard[c] + 1
  BY <1>1, <1>2 DEF OrderInv, InOrder
<1>5. Len(send'[c]) = Len(send[c]) - 1 /\ \A i \in 1 .. Len(send'[c]) : send'[c][i] = send[c][i + 1]
  BY <1>1, TailFacts
<1> QED
  BY <1>1, <1>2, <1>3, <1>4, <1>5

LEMMA WriteOrder ==
  ASSUME OrderInv, NEW c \in Clients, WriteMessage(c)
  PROVE  InOrder' /\ Bounded'
<1>1. Bounded'
  <2>1. ASSUME NEW d \in Clients PROVE Len(send'[d]) <= SendCap
    <3>1. Len(send[d]) <= SendCap
      BY DEF OrderInv, Bounded
    <3> QED
      BY <3>1, WriteSend, HubAssumption
  <2> QED
    BY <2>1 DEF Bounded
<1>2. InOrder'
  <2> SUFFICES ASSUME NEW d \in Clients, writer'[d] \in {"none", "select"},
                      NEW i \in 1 .. Len(send'[d])
               PROVE  send'[d][i] = heard'[d] + i
    BY DEF InOrder
  <2>1. CASE d # c
    <3>1. send'[d] = send[d] /\ heard'[d] = heard[d] /\ writer'[d] = writer[d]
      BY <2>1, WriteSend
    <3> QED
      BY <3>1 DEF OrderInv, InOrder
  <2>2. CASE d = c
    <3>1. heard'[c] = heard[c] + 1
      <4>1. heard' = [heard EXCEPT ![c] = Head(send[c])] \/ writer' = [writer EXCEPT ![c] = "exiting"]
        BY DEF WriteMessage, NextMessage
      <4>2. heard' = [heard EXCEPT ![c] = Head(send[c])]
        BY <2>2, <4>1 DEF OrderInv, HubInv, Shape
      <4> QED
        BY <4>2, WriteSend DEF OrderInv, HubInv, Shape
    <3>2. i + 1 \in 1 .. Len(send[c]) /\ i \in Nat
      BY <2>2, WriteSend
    <3>3. send[c][i + 1] = heard[c] + (i + 1)
      BY <3>2, WriteSend DEF OrderInv, InOrder
    <3>4. send'[c][i] = send[c][i + 1]
      BY <2>2, WriteSend
    <3>5. heard[c] \in Nat
      BY WriteSend
    <3> QED
      BY <2>2, <3>1, <3>2, <3>3, <3>4, <3>5
  <2> QED
    BY <2>1, <2>2
<1> QED
  BY <1>1, <1>2

LEMMA OrderKept == Spec => []OrderInv
<1>1. Init => OrderInv
  BY HubInit, HubAssumption DEF Init, OrderInv, InOrder, Bounded
<1>2. OrderInv /\ HubInv' /\ [Next]_vars => OrderInv'
  <2> SUFFICES ASSUME OrderInv, HubInv', [Next]_vars PROVE InOrder' /\ Bounded'
    BY DEF OrderInv
  <2>1. CASE UNCHANGED vars
    BY <2>1 DEF vars, hubVars, OrderInv, InOrder, Bounded
  <2>2. CASE Next
    <3>1. PICK c \in Clients :
            Register(c) \/ Broadcast(c) \/ WriteMessage(c) \/ QuietAction(c)
      BY <2>2 DEF Next, HubServes, WriterNext, QuietAction
    <3> QED
      BY <3>1, QuietOrder, RegisterOrder, BroadcastOrder, WriteOrder
  <2> QED
    BY <2>1, <2>2
<1> QED
  BY <1>1, <1>2, HubSafe, PTL DEF Spec

\* The abstract state.
Stage == [c \in Clients |-> Phase(c)]
Owed == [c \in Clients |-> Len(send[c])]
CutOff == {c \in Clients : writer[c] \in {"exiting", "done"}}

AbstractStep == Ordered!Next \/ UNCHANGED <<total, Stage, Owed, heard, CutOff>>

\* Only Register, Broadcast and Unregister change where a client stands.
LEMMA SameStage ==
  ASSUME HubInv, clients' = clients,
         \A c \in Clients : reader'[c] \in {"new", "registering"} <=> reader[c] \in {"new", "registering"}
  PROVE  Stage' = Stage
<1>1. \A c \in Clients : Phase(c)' = Phase(c)
  BY DEF Phase
<1> QED
  BY <1>1 DEF Stage

LEMMA QuietRefines ==
  ASSUME OrderInv, NEW c \in Clients, QuietAction(c)
  PROVE  AbstractStep
<1>1. UNCHANGED <<send, total, heard>>
  BY DEF QuietAction, Connect, ReadMessage, ReadFail, ReaderClose, Unregister, WriterStop,
         WriterClose, LoseConnection, hubVars
<1>2. Owed' = Owed
  BY <1>1 DEF Owed
<1>3. CASE Connect(c) \/ ReadMessage(c) \/ ReadFail(c) \/ ReaderClose(c) \/ LoseConnection(c)
  <2>1. UNCHANGED <<clients, writer>>
    BY <1>3 DEF Connect, ReadMessage, ReadFail, ReaderClose, LoseConnection, hubVars
  <2>2. \A d \in Clients : reader'[d] \in {"new", "registering"} <=> reader[d] \in {"new", "registering"}
    BY <1>3 DEF OrderInv, HubInv, Shape, Connect, ReadMessage, ReadFail, ReaderClose, LoseConnection
  <2>3. Stage' = Stage
    BY <2>1, <2>2, SameStage DEF OrderInv
  <2> QED
    BY <1>1, <1>2, <2>1, <2>3 DEF AbstractStep, CutOff
<1>4. CASE WriterStop(c) \/ WriterClose(c)
  <2>1. UNCHANGED <<clients, reader>>
    BY <1>4 DEF WriterStop, WriterClose, hubVars
  <2>2. Stage' = Stage
    BY <2>1, SameStage DEF OrderInv
  <2>3. CASE WriterStop(c)
    <3>1. c \notin CutOff /\ CutOff' = CutOff \cup {c}
      BY <2>3 DEF OrderInv, HubInv, Shape, WriterStop, CutOff
    <3>2. Ordered!Cut(c)
      BY <1>1, <1>2, <2>2, <3>1 DEF Ordered!Cut, Stage, Owed, CutOff
    <3> QED
      BY <3>2 DEF AbstractStep, Ordered!Next
  <2>4. CASE WriterClose(c)
    <3>1. CutOff' = CutOff
      BY <2>4 DEF OrderInv, HubInv, Shape, WriterClose, CutOff
    <3> QED
      BY <1>1, <1>2, <2>2, <3>1 DEF AbstractStep
  <2> QED
    BY <1>4, <2>3, <2>4
<1>5. CASE Unregister(c)
  <2>1. /\ reader[c] = "unregistering" /\ clients' = clients \ {c}
        /\ reader' = [reader EXCEPT ![c] = "closing"] /\ writer' = writer
    BY <1>5 DEF Unregister, Removed
  <2>2. CutOff' = CutOff
    BY <2>1 DEF CutOff
  <2>3. \A d \in Clients : Phase(d)' = IF d = c THEN "gone" ELSE Phase(d)
    BY <2>1 DEF OrderInv, HubInv, Shape, Phase
  <2>4. CASE c \in clients
    <3>1. Stage[c] = "in" /\ Stage' = [Stage EXCEPT ![c] = "gone"]
      BY <2>1, <2>3, <2>4 DEF Stage, Phase
    <3>2. Ordered!Leave(c)
      BY <1>1, <1>2, <2>2, <3>1 DEF Ordered!Leave, Stage, Owed, CutOff
    <3> QED
      BY <3>2 DEF AbstractStep, Ordered!Next
  <2>5. CASE c \notin clients
    <3>1. Phase(c) = "gone"
      BY <2>1, <2>5 DEF Phase
    <3>2. Stage' = Stage
      BY <2>3, <3>1 DEF Stage
    <3> QED
      BY <1>1, <1>2, <2>2, <3>2 DEF AbstractStep
  <2> QED
    BY <2>4, <2>5
<1> QED
  BY <1>3, <1>4, <1>5 DEF QuietAction

LEMMA RegisterRefines ==
  ASSUME OrderInv, NEW c \in Clients, Register(c)
  PROVE  AbstractStep
<1>1. /\ reader[c] = "registering" /\ clients' = clients \cup {c}
      /\ reader' = [reader EXCEPT ![c] = "reading"]
      /\ heard' = [heard EXCEPT ![c] = total]
      /\ UNCHANGED <<send, total>>
  BY DEF Register
<1>2. Owed' = Owed
  BY <1>1 DEF Owed
<1>3. CutOff' = CutOff
  <2>1. writer[c] = "none" /\ writer'[c] \in {"none", "select"}
    BY DEF OrderInv, HubInv, Shape, NewIsFresh, Register
  <2>2. \A d \in Clients \ {c} : writer'[d] = writer[d]
    BY DEF OrderInv, HubInv, Shape, Register
  <2> QED
    BY <2>1, <2>2 DEF CutOff
<1>4. \A d \in Clients : Phase(d)' = IF d = c THEN "in" ELSE Phase(d)
  BY <1>1 DEF OrderInv, HubInv, Shape, Phase
<1>5. Stage[c] = "out" /\ Stage' = [Stage EXCEPT ![c] = "in"]
  BY <1>1, <1>4 DEF Stage, Phase
<1>6. Ordered!Join(c)
  BY <1>1, <1>2, <1>3, <1>5 DEF Ordered!Join, Stage, Owed, CutOff
<1> QED
  BY <1>6 DEF AbstractStep, Ordered!Next

\* Who is in, and who keeps up.
LEMMA InIsRegistered ==
  ASSUME OrderInv
  PROVE  /\ \A c \in Clients : Stage[c] = "in" <=> c \in clients
         /\ \A c \in Clients : Owed[c] < SendCap <=> ~Full(c)
<1>1. ASSUME NEW c \in Clients PROVE Stage[c] = "in" <=> c \in clients
  BY DEF OrderInv, HubInv, RegisteredIsRead, Stage, Phase
<1>2. ASSUME NEW c \in Clients PROVE Owed[c] < SendCap <=> ~Full(c)
  <2>1. send[c] \in Seq(Nat) /\ Len(send[c]) <= SendCap
    BY DEF OrderInv, HubInv, Shape, Bounded
  <2> QED
    BY <2>1, HubAssumption DEF Owed, Full
<1> QED
  BY <1>1, <1>2

LEMMA BroadcastRefines ==
  ASSUME OrderInv, NEW c \in Clients, Broadcast(c)
  PROVE  AbstractStep
<1>1. /\ total' = total + 1
      /\ clients' = {d \in clients : ~Full(d)}
      /\ reader[c] = "forwarding" /\ reader' = [reader EXCEPT ![c] = "reading"]
      /\ UNCHANGED <<writer, heard>>
  BY DEF Broadcast, Evicted
<1>2. CutOff' = CutOff
  BY <1>1 DEF CutOff
<1> DEFINE InNow == {d \in Clients : Stage[d] = "in"}
           Keeps == {d \in InNow : Owed[d] < SendCap}
<1>3. clients \subseteq Clients
  BY DEF OrderInv, HubInv, Shape
<1>4. InNow = clients /\ Keeps = {d \in clients : ~Full(d)}
  BY <1>3, InIsRegistered
<1>5. Owed' = [d \in Clients |-> IF d \in Keeps THEN Owed[d] + 1 ELSE Owed[d]]
  <2>1. ASSUME NEW d \in Clients
        PROVE  Len(send'[d]) = IF d \in Keeps THEN Owed[d] + 1 ELSE Owed[d]
    <3>1. send[d] \in Seq(Nat) /\ total + 1 \in Nat
      BY BroadcastSend
    <3>2. CASE d \in Keeps
      <4>1. send'[d] = Append(send[d], total + 1)
        BY <1>4, <3>2, BroadcastSend
      <4> QED
        BY <3>1, <3>2, <4>1, AppendFacts DEF Owed
    <3>3. CASE d \notin Keeps
      <4>1. send'[d] = send[d]
        BY <1>4, <3>3, BroadcastSend
      <4> QED
        BY <3>3, <4>1 DEF Owed
    <3> QED
      BY <3>2, <3>3
  <2> HIDE DEF Keeps
  <2> QED
    BY <2>1 DEF Owed
<1>6. Stage' = [d \in Clients |-> IF d \in InNow \ Keeps THEN "gone" ELSE Stage[d]]
  <2>1. ASSUME NEW d \in Clients
        PROVE  Phase(d)' = IF d \in InNow \ Keeps THEN "gone" ELSE Stage[d]
    <3>1. reader'[d] \in {"new", "registering"} <=> reader[d] \in {"new", "registering"}
      BY <1>1 DEF OrderInv, HubInv, Shape
    <3>2. d \in clients => reader[d] \notin {"new", "registering"}
      BY DEF OrderInv, HubInv, RegisteredIsRead
    <3>3. d \in clients' <=> d \in Keeps
      BY <1>1, <1>4
    <3>4. d \in InNow <=> d \in clients
      BY <1>4
    <3>5. Stage[d] = Phase(d) /\ (d \in Keeps => d \in InNow)
      BY DEF Stage
    <3> HIDE DEF Keeps, InNow
    <3> QED
      BY <3>1, <3>2, <3>3, <3>4, <3>5 DEF Phase
  <2> HIDE DEF Keeps, InNow
  <2> QED
    BY <2>1 DEF Stage
<1>7. Ordered!Broadcast
  BY <1>1, <1>2, <1>5, <1>6 DEF Ordered!Broadcast, Ordered!In, Ordered!KeepsUp, Stage, Owed, CutOff
<1> QED
  BY <1>7 DEF AbstractStep, Ordered!Next

LEMMA WriteRefines ==
  ASSUME OrderInv, NEW c \in Clients, WriteMessage(c)
  PROVE  AbstractStep
<1>1. UNCHANGED <<clients, reader, total>>
  BY DEF WriteMessage
<1>2. Stage' = Stage
  BY <1>1, SameStage DEF OrderInv
<1>3. Owed[c] > 0 /\ Owed' = [Owed EXCEPT ![c] = @ - 1]
  <2>1. \A d \in Clients : Len(send'[d]) = IF d = c THEN Len(send[c]) - 1 ELSE Len(send[d])
    BY WriteSend
  <2> QED
    BY <2>1, WriteSend DEF Owed
<1>4. c \notin CutOff
  BY WriteSend DEF CutOff
<1>5. CASE heard' = [heard EXCEPT ![c] = Head(send[c])] /\ writer' = writer
  <2>1. heard' = [heard EXCEPT ![c] = @ + 1]
    BY <1>5, WriteSend
  <2>2. CutOff' = CutOff
    BY <1>5 DEF CutOff
  <2>3. Ordered!Hear(c)
    BY <1>1, <1>2, <1>3, <1>4, <2>1, <2>2 DEF Ordered!Hear, Stage, Owed, CutOff
  <2> QED
    BY <2>3 DEF AbstractStep, Ordered!Next
<1>6. CASE writer' = [writer EXCEPT ![c] = "exiting"] /\ heard' = heard
  <2>1. CutOff' = CutOff \cup {c}
    BY <1>6 DEF OrderInv, HubInv, Shape, CutOff
  <2>2. Ordered!Cut(c)
    BY <1>1, <1>2, <1>3, <1>4, <1>6, <2>1 DEF Ordered!Cut, Stage, Owed, CutOff
  <2> QED
    BY <2>2 DEF AbstractStep, Ordered!Next
<1> QED
  BY <1>5, <1>6 DEF WriteMessage, NextMessage

\* The hub implements the ordered broadcast, for every set of clients and every
\* buffer size: a registered client is owed every message, is evicted exactly
\* when its buffer is full, and no peer hears a message before an older one of
\* its own, whatever the pumps, the evictions and the lost connections do.
THEOREM Implements == Spec => ImplementsOrderedBroadcast
<1>1. Init => Ordered!Init
  <2> SUFFICES ASSUME Init PROVE Ordered!Init
    OBVIOUS
  <2>1. \A c \in Clients : Phase(c) = "out" /\ Len(send[c]) = 0 /\ writer[c] = "none"
    BY DEF Init, Phase
  <2> QED
    BY <2>1 DEF Init, Ordered!Init
<1>2. OrderInv /\ [Next]_vars => [Ordered!Next]_Ordered!vars
  <2> SUFFICES ASSUME OrderInv, [Next]_vars PROVE AbstractStep
    BY DEF AbstractStep, Ordered!vars, Stage, Owed, CutOff
  <2>1. CASE UNCHANGED vars
    <3>1. UNCHANGED <<clients, reader, send, total, heard, writer>>
      BY <2>1 DEF vars, hubVars
    <3>2. Stage' = Stage
      BY <3>1, SameStage DEF OrderInv
    <3> QED
      BY <3>1, <3>2 DEF AbstractStep, Owed, CutOff
  <2>2. CASE Next
    <3>1. PICK c \in Clients :
            Register(c) \/ Broadcast(c) \/ WriteMessage(c) \/ QuietAction(c)
      BY <2>2 DEF Next, HubServes, WriterNext, QuietAction
    <3> QED
      BY <3>1, QuietRefines, RegisterRefines, BroadcastRefines, WriteRefines
  <2> QED
    BY <2>1, <2>2
<1> QED
  BY <1>1, <1>2, OrderKept, PTL DEF Spec, ImplementsOrderedBroadcast, Ordered!Spec

-----------------------------------------------------------------------------
(* Types and bounds.                                                        *)

Forwarding == {d \in Clients : reader[d] = "forwarding"}

\* TypeOK alone is not inductive: a message under way has its place among the
\* MaxMessages already.
HubTyped == TypeOK /\ total + Cardinality(Forwarding) <= MaxMessages

LEMMA ForwardingFinite == IsFiniteSet(Forwarding) /\ Cardinality(Forwarding) \in Nat
<1>1. Forwarding \in SUBSET Clients
  BY DEF Forwarding
<1> QED BY <1>1, HubAssumption, FS_Subset, FS_CardinalityType

\* Whoever takes nobody into "forwarding" leaves the bound alone.
LEMMA ForwardingFewer ==
  ASSUME HubTyped, total' = total, Forwarding' \subseteq Forwarding
  PROVE  total' + Cardinality(Forwarding') <= MaxMessages
<1>1. Forwarding' \in SUBSET Forwarding
  OBVIOUS
<1>2. Cardinality(Forwarding') <= Cardinality(Forwarding) /\ Cardinality(Forwarding') \in Nat
  BY <1>1, ForwardingFinite, FS_Subset, FS_CardinalityType
<1>3. total \in Nat /\ MaxMessages \in Nat
  BY HubAssumption DEF HubTyped, TypeOK
<1> QED BY <1>2, <1>3, ForwardingFinite DEF HubTyped

LEMMA AppendTyped ==
  ASSUME NEW q \in Seq(1 .. MaxMessages), NEW n \in 1 .. MaxMessages, Len(q) <= SendCap, Len(q) # SendCap
  PROVE  Append(q, n) \in Seq(1 .. MaxMessages) /\ Len(Append(q, n)) <= SendCap
<1>1. Len(Append(q, n)) = Len(q) + 1 /\ Len(q) \in Nat
  OBVIOUS
<1>2. Append(q, n) \in Seq(1 .. MaxMessages)
  OBVIOUS
<1> QED BY <1>1, <1>2, HubAssumption

LEMMA HeadTail ==
  ASSUME NEW S, NEW q \in Seq(S), q # <<>>
  PROVE  Head(q) \in S /\ Tail(q) \in Seq(S)
  OBVIOUS

LEMMA TailTyped ==
  ASSUME NEW q \in Seq(1 .. MaxMessages), q # <<>>, Len(q) <= SendCap
  PROVE  /\ Head(q) \in 1 .. MaxMessages
         /\ Tail(q) \in Seq(1 .. MaxMessages) /\ Len(Tail(q)) <= SendCap
<1>1. Len(Tail(q)) = Len(q) - 1 /\ Len(q) \in Nat
  OBVIOUS
<1>2. Head(q) \in 1 .. MaxMessages /\ Tail(q) \in Seq(1 .. MaxMessages)
  BY HeadTail
<1> QED BY <1>1, <1>2, HubAssumption

LEMMA TypedInit == Init => HubTyped
<1> SUFFICES ASSUME Init PROVE HubTyped
  OBVIOUS
<1>1. Forwarding = {}
  BY DEF Init, Forwarding
<1>2. <<>> \in Seq(1 .. MaxMessages) /\ Len(<<>>) <= SendCap
  BY HubAssumption
<1>3. 0 \in 0 .. MaxMessages
  BY HubAssumption
<1>4. TypeOK
  BY <1>2, <1>3 DEF Init, TypeOK, ReaderState
<1>5. Cardinality(Forwarding) = 0
  BY <1>1, FS_EmptySet
<1> QED BY <1>4, <1>5, HubAssumption DEF HubTyped, Init

\* Whatever leaves messages, channels and counts alone.
LEMMA QuietTyped ==
  ASSUME HubTyped, NEW c \in Clients,
         \/ Connect(c) \/ LoseConnection(c) \/ ReadFail(c) \/ ReaderClose(c) \/ Unregister(c)
         \/ WriterStop(c) \/ WriterClose(c)
  PROVE  HubTyped'
<1>1. UNCHANGED <<send, total, heard>>
  BY DEF Connect, LoseConnection, ReadFail, ReaderClose, Unregister, WriterStop, WriterClose, hubVars
<1>2. clients' \subseteq Clients /\ sendClosed' \subseteq Clients
  BY DEF Connect, LoseConnection, ReadFail, ReaderClose, Unregister, ClosedByRemoval, WriterStop,
         WriterClose, hubVars, HubTyped, TypeOK
<1>3. connDown' \subseteq Clients /\ closed' \subseteq Clients
  BY DEF Connect, LoseConnection, ReadFail, ReaderClose, Unregister, WriterStop, WriterClose,
         HubTyped, TypeOK
<1>4. writer' \in [Clients -> {"none", "select", "exiting", "done"}]
  BY DEF Connect, LoseConnection, ReadFail, ReaderClose, Unregister, WriterStop, WriterClose,
         HubTyped, TypeOK
<1>5. /\ reader' \in [Clients -> ReaderState]
      /\ \A d \in Clients : reader'[d] = "forwarding" => reader[d] = "forwarding"
  BY DEF Connect, LoseConnection, ReadFail, ReaderClose, Unregister, WriterStop, WriterClose,
         HubTyped, TypeOK, ReaderState
<1>6. Forwarding' \subseteq Forwarding
  BY <1>5 DEF Forwarding
<1> QED BY <1>1, <1>2, <1>3, <1>4, <1>5, <1>6, ForwardingFewer DEF HubTyped, TypeOK

LEMMA RegisterTyped ==
  ASSUME HubTyped, NEW c \in Clients, Register(c)
  PROVE  HubTyped'
<1>1. UNCHANGED <<send, sendClosed, total, connDown, closed>>
  BY DEF Register
<1>2. clients' \subseteq Clients /\ heard' \in [Clients -> 0 .. MaxMessages]
  BY DEF Register, HubTyped, TypeOK
<1>3. writer' \in [Clients -> {"none", "select", "exiting", "done"}]
  BY DEF Register, HubTyped, TypeOK
<1>4. /\ reader' \in [Clients -> ReaderState]
      /\ \A d \in Clients : reader'[d] = "forwarding" => reader[d] = "forwarding"
  BY DEF Register, HubTyped, TypeOK, ReaderState
<1>5. Forwarding' \subseteq Forwarding
  BY <1>4 DEF Forwarding
<1> QED BY <1>1, <1>2, <1>3, <1>4, <1>5, ForwardingFewer DEF HubTyped, TypeOK

LEMMA ReadTyped ==
  ASSUME HubTyped, NEW c \in Clients, ReadMessage(c)
  PROVE  HubTyped'
<1>1. UNCHANGED <<hubVars, writer, connDown, closed, heard>>
  BY DEF ReadMessage
<1>2. reader' \in [Clients -> ReaderState] /\ reader' = [reader EXCEPT ![c] = "forwarding"]
  BY DEF ReadMessage, HubTyped, TypeOK, ReaderState
<1>3. Forwarding' = Forwarding \cup {c} /\ c \notin Forwarding
  BY <1>2 DEF ReadMessage, Forwarding, HubTyped, TypeOK
<1>4. Cardinality(Forwarding') = Cardinality(Forwarding) + 1
  BY <1>3, ForwardingFinite, FS_AddElement
<1>5. total + Cardinality(Forwarding) < MaxMessages
  BY DEF ReadMessage, Forwarding
<1>6. total' + Cardinality(Forwarding') <= MaxMessages
  <2>1. total \in Nat /\ total' = total
    BY <1>1 DEF hubVars, HubTyped, TypeOK
  <2> QED BY <2>1, <1>4, <1>5, ForwardingFinite, HubAssumption
<1> QED BY <1>1, <1>2, <1>6 DEF HubTyped, TypeOK, hubVars

LEMMA BroadcastTyped ==
  ASSUME HubTyped, NEW c \in Clients, Broadcast(c)
  PROVE  HubTyped'
<1>1. UNCHANGED <<writer, connDown, closed, heard>>
  BY DEF Broadcast
<1>2. reader' \in [Clients -> ReaderState] /\ reader' = [reader EXCEPT ![c] = "reading"]
  BY DEF Broadcast, HubTyped, TypeOK, ReaderState
<1>3. Forwarding' = Forwarding \ {c} /\ c \in Forwarding
  BY <1>2 DEF Broadcast, Forwarding, HubTyped, TypeOK
<1>4. Cardinality(Forwarding') = Cardinality(Forwarding) - 1 /\ Cardinality(Forwarding) # 0
  BY <1>3, ForwardingFinite, FS_RemoveElement, FS_EmptySet
<1>5. total \in Nat /\ MaxMessages \in Nat /\ total' = total + 1
  BY HubAssumption DEF Broadcast, HubTyped, TypeOK
<1>6. total' + Cardinality(Forwarding') <= MaxMessages /\ total + 1 \in 1 .. MaxMessages
  BY <1>4, <1>5, ForwardingFinite DEF HubTyped
<1>7. clients' \subseteq Clients /\ sendClosed' \subseteq Clients
  BY DEF Broadcast, HubTyped, TypeOK
<1>8. send' \in [Clients -> Seq(1 .. MaxMessages)] /\ \A d \in Clients : Len(send'[d]) <= SendCap
  <2>1. \A d \in Clients : send[d] \in Seq(1 .. MaxMessages) /\ Len(send[d]) <= SendCap
    BY DEF HubTyped, TypeOK
  <2>2. send' = [d \in Clients |-> IF d \in clients /\ Len(send[d]) # SendCap
                                   THEN Append(send[d], total + 1) ELSE send[d]]
    BY DEF Broadcast, Full
  <2>3. \A d \in Clients : send'[d] \in Seq(1 .. MaxMessages) /\ Len(send'[d]) <= SendCap
    BY <2>1, <2>2, <1>6, AppendTyped
  <2>4. send' \in [Clients -> Seq(1 .. MaxMessages)]
    BY <2>2, <2>3
  <2> QED BY <2>3, <2>4
<1>9. total' \in 0 .. MaxMessages
  BY <1>5, <1>6
<1>10. TypeOK'
  BY <1>1, <1>2, <1>7, <1>8, <1>9 DEF HubTyped, TypeOK
<1> QED BY <1>6, <1>10 DEF HubTyped

LEMMA WriteTyped ==
  ASSUME HubTyped, NEW c \in Clients, WriteMessage(c)
  PROVE  HubTyped'
<1>1. UNCHANGED <<clients, sendClosed, total, reader, connDown, closed>>
  BY DEF WriteMessage
<1>2. send[c] \in Seq(1 .. MaxMessages) /\ send[c] # <<>> /\ Len(send[c]) <= SendCap
  BY DEF WriteMessage, HubTyped, TypeOK
<1>3. send' = [send EXCEPT ![c] = Tail(send[c])]
  BY DEF WriteMessage
<1>4. send' \in [Clients -> Seq(1 .. MaxMessages)] /\ \A d \in Clients : Len(send'[d]) <= SendCap
  BY <1>2, <1>3, TailTyped DEF HubTyped, TypeOK
<1>5. heard' \in [Clients -> 0 .. MaxMessages]
  <2>1. Head(send[c]) \in 0 .. MaxMessages
    <3>1. Head(send[c]) \in 1 .. MaxMessages
      BY <1>2, TailTyped
    <3> QED BY <3>1, HubAssumption
  <2>2. heard' = heard \/ heard' = [heard EXCEPT ![c] = Head(send[c])]
    BY DEF WriteMessage, NextMessage
  <2> QED BY <2>1, <2>2 DEF HubTyped, TypeOK
<1>6. writer' \in [Clients -> {"none", "select", "exiting", "done"}]
  BY DEF WriteMessage, HubTyped, TypeOK
<1>7. Forwarding' \subseteq Forwarding
  BY <1>1 DEF Forwarding
<1> QED BY <1>1, <1>4, <1>5, <1>6, <1>7, ForwardingFewer DEF HubTyped, TypeOK

\* Every variable keeps its type: no client's channel ever holds more than
\* SendCap messages, whoever sends and however slow the write pumps are.
THEOREM TypeCorrect == Spec => []TypeOK
<1>1. HubTyped /\ [Next]_vars => HubTyped'
  <2> SUFFICES ASSUME HubTyped, [Next]_vars PROVE HubTyped'
    OBVIOUS
  <2>1. CASE UNCHANGED vars
    BY <2>1 DEF vars, hubVars, HubTyped, TypeOK, Forwarding
  <2> QED
    BY <2>1, QuietTyped, RegisterTyped, ReadTyped, BroadcastTyped, WriteTyped
       DEF Next, HubServes, WriterNext
<1>2. HubTyped => TypeOK
  BY DEF HubTyped
<1> QED BY <1>1, <1>2, TypedInit, PTL DEF Spec

-----------------------------------------------------------------------------
(* The daemon's client, seen from the hub.                                  *)

\* The client between two steps of its handler and read pump.
ClientState(place) ==
  CASE place = "new" -> "none"
    [] place = "registering" -> "dialled"
    [] place \in {"reading", "forwarding"} -> "reading"
    [] place \in {"unregistering", "closing", "marking"} -> "closing"
    [] place = "done" -> "marked"

ClientsNow == [c \in DaemonClients |-> ClientState(reader[c])]
DownNow == connDown \cap DaemonClients

Client == INSTANCE ConnectionLife WITH
  Connections <- DaemonClients, client <- ClientsNow, down <- DownNow

ImplementsConnectionLife == Client!Spec

ClientStep == Client!Next \/ UNCHANGED <<ClientsNow, DownNow>>

\* The daemon's clients have no write pump, and are marked when they are down.
DaemonInv ==
  \A c \in DaemonClients :
    /\ writer[c] = "none"
    /\ reader[c] \in {"marking", "done"} => c \in connDown

\* No action but the client's own moves its read pump.
LEMMA OwnPump ==
  ASSUME HubInv, NEW c \in Clients, NEW d \in Clients, d # c,
         \/ Connect(c) \/ LoseConnection(c) \/ HubServes(c)
         \/ ReadMessage(c) \/ ReadFail(c) \/ ReaderClose(c) \/ WriterNext(c)
  PROVE  /\ reader'[d] = reader[d] /\ writer'[d] = writer[d]
         /\ d \in connDown' <=> d \in connDown
<1>1. reader'[d] = reader[d]
  BY DEF HubInv, Shape, Connect, LoseConnection, HubServes, Register, Broadcast, Unregister, ReadMessage,
         ReadFail, ReaderClose, WriterNext, WriteMessage, WriterStop, WriterClose, hubVars
<1>2. writer'[d] = writer[d]
  BY DEF HubInv, Shape, Connect, LoseConnection, HubServes, Register, Broadcast, Unregister, ReadMessage,
         ReadFail, ReaderClose, WriterNext, WriteMessage, WriterStop, WriterClose, hubVars
<1>3. d \in connDown' <=> d \in connDown
  BY DEF Connect, LoseConnection, HubServes, Register, Broadcast, Unregister, ReadMessage,
         ReadFail, ReaderClose, WriterNext, WriteMessage, WriterStop, WriterClose, hubVars
<1> QED BY <1>1, <1>2, <1>3

LEMMA DaemonSteps ==
  ASSUME HubInv, DaemonInv, [Next]_vars
  PROVE  DaemonInv'
<1>1. CASE UNCHANGED vars
  BY <1>1 DEF vars, DaemonInv
<1>2. ASSUME NEW c \in Clients,
             \/ Connect(c) \/ LoseConnection(c) \/ HubServes(c)
             \/ ReadMessage(c) \/ ReadFail(c) \/ ReaderClose(c) \/ WriterNext(c)
      PROVE  DaemonInv'
  <2> SUFFICES ASSUME NEW d \in DaemonClients
               PROVE  /\ writer'[d] = "none"
                      /\ reader'[d] \in {"marking", "done"} => d \in connDown'
    BY DEF DaemonInv
  <2>1. d \in Clients /\ d \notin Remote
    BY HubAssumption DEF Remote
  <2>2. CASE d # c
    BY <1>2, <2>1, <2>2, OwnPump DEF DaemonInv
  <2>3. CASE d = c
    <3>1. writer[c] = "none"
      BY <2>3 DEF DaemonInv
    <3>2. ~WriterNext(c)
      BY <3>1 DEF WriterNext, WriteMessage, WriterStop, WriterClose
    <3>3. writer'[c] = "none"
      BY <1>2, <2>1, <2>3, <3>1, <3>2 DEF Connect, LoseConnection, HubServes, Register, HasWriter, Broadcast,
            Unregister, ReadMessage, ReadFail, ReaderClose
    <3>4. connDown \subseteq connDown'
      BY <1>2, <3>2 DEF Connect, LoseConnection, HubServes, Register, Broadcast, Unregister, ReadMessage,
            ReadFail, ReaderClose
    <3>5. reader'[c] \in {"marking", "done"} => c \in connDown'
      <4>1. CASE ReaderClose(c)
        BY <2>3, <4>1 DEF ReaderClose, DaemonInv, HubInv, Shape
      <4>2. CASE ~ReaderClose(c)
        <5>1. reader'[c] \in {"marking", "done"} => reader'[c] = reader[c]
          BY <1>2, <3>2, <4>2 DEF HubInv, Shape, Connect, LoseConnection, HubServes, Register, Broadcast,
             Unregister, ReadMessage, ReadFail
        <5> QED BY <2>3, <3>4, <5>1 DEF DaemonInv
      <4> QED BY <4>1, <4>2
    <3> QED BY <2>3, <3>3, <3>5
  <2> QED BY <2>2, <2>3
<1> QED BY <1>1, <1>2 DEF Next

\* The states of one client, read and changed.
LEMMA ClientPoint ==
  ASSUME HubInv, NEW c \in DaemonClients, \A d \in Clients \ {c} : reader'[d] = reader[d]
  PROVE  /\ ClientsNow[c] = ClientState(reader[c])
         /\ ClientsNow' = [ClientsNow EXCEPT ![c] = ClientState(reader'[c])]
  BY HubAssumption DEF ClientsNow

LEMMA ClientValues ==
  /\ ClientState("new") = "none" /\ ClientState("registering") = "dialled"
  /\ ClientState("reading") = "reading" /\ ClientState("forwarding") = "reading"
  /\ ClientState("unregistering") = "closing" /\ ClientState("closing") = "closing"
  /\ ClientState("marking") = "closing" /\ ClientState("done") = "marked"
  BY DEF ClientState

\* A step of the daemon's own client.
LEMMA OwnClientStep ==
  ASSUME HubInv, DaemonInv, NEW c \in DaemonClients,
         \/ Connect(c) \/ LoseConnection(c) \/ HubServes(c)
         \/ ReadMessage(c) \/ ReadFail(c) \/ ReaderClose(c) \/ WriterNext(c)
  PROVE  ClientStep
<1> USE DEF ClientStep, Client!Next, Client!Moves
<1>0. c \in Clients /\ c \notin Remote /\ reader \in [Clients -> ReaderState]
  BY HubAssumption DEF Remote, HubInv, Shape
<1>1. /\ ClientsNow[c] = ClientState(reader[c])
      /\ ClientsNow' = [ClientsNow EXCEPT ![c] = ClientState(reader'[c])]
  BY <1>0, OwnPump, ClientPoint
<1>2. ASSUME UNCHANGED connDown, ClientState(reader'[c]) = ClientState(reader[c]) PROVE ClientStep
  <2>1. ClientsNow' = ClientsNow
    BY <1>1, <1>2 DEF ClientsNow
  <2> QED BY <1>2, <2>1 DEF DownNow
<1>3. CASE Connect(c)
  <2>1. reader[c] = "new" /\ reader'[c] = "registering" /\ DownNow' = DownNow
    BY <1>0, <1>3 DEF Connect, DownNow
  <2>2. Client!Dial(c)
    BY <1>1, <2>1, ClientValues DEF Client!Dial
  <2> QED BY <2>2
<1>4. CASE LoseConnection(c)
  <2>1. reader' = reader /\ reader[c] \notin {"new", "done"} /\ DownNow' = DownNow \cup {c}
    BY <1>4 DEF LoseConnection, DownNow
  <2>2. ClientsNow[c] \in {"dialled", "reading", "closing"}
    BY <1>0, <1>1, <2>1, ClientValues DEF ReaderState
  <2>3. Client!Lose(c)
    BY <2>1, <2>2 DEF Client!Lose, ClientsNow
  <2> QED BY <2>3
<1>5. CASE Register(c)
  <2>1. reader[c] = "registering" /\ reader'[c] = "reading" /\ DownNow' = DownNow
    BY <1>0, <1>5 DEF Register, DownNow
  <2>2. Client!Register(c)
    BY <1>1, <2>1, ClientValues DEF Client!Register
  <2> QED BY <2>2
<1>6. CASE Broadcast(c) \/ Unregister(c) \/ ReadMessage(c)
  <2>1. connDown' = connDown
    BY <1>6 DEF Broadcast, Unregister, ReadMessage
  <2>2. ClientState(reader'[c]) = ClientState(reader[c])
    BY <1>0, <1>6, ClientValues DEF Broadcast, Unregister, ReadMessage
  <2> QED BY <1>2, <2>1, <2>2
<1>7. CASE ReadFail(c)
  <2>1. reader[c] = "reading" /\ reader'[c] = "unregistering" /\ DownNow' = DownNow
    BY <1>0, <1>7 DEF ReadFail, DownNow
  <2>2. Client!ReadFail(c)
    BY <1>1, <2>1, ClientValues DEF Client!ReadFail
  <2> QED BY <2>2
<1>8. CASE ReaderClose(c)
  <2>1. CASE reader[c] = "closing"
    <3>1. reader'[c] = "marking" /\ DownNow' = DownNow \cup {c}
      BY <1>0, <1>8, <2>1 DEF ReaderClose, DownNow
    <3>2. ClientsNow' = ClientsNow
      BY <1>1, <2>1, <3>1, ClientValues DEF ClientsNow
    <3>3. Client!Lose(c)
      BY <1>1, <2>1, <3>1, <3>2, ClientValues DEF Client!Lose
    <3> QED BY <3>3
  <2>2. CASE reader[c] = "marking"
    <3>1. reader'[c] = "done" /\ connDown' = connDown /\ c \in connDown
      BY <1>0, <1>8, <2>2 DEF ReaderClose, DaemonInv
    <3>2. DownNow' = DownNow \cup {c}
      BY <3>1 DEF DownNow
    <3>3. Client!MarkClosed(c)
      BY <1>1, <2>2, <3>1, <3>2, ClientValues DEF Client!MarkClosed
    <3> QED BY <3>3
  <2> QED BY <1>8, <2>1, <2>2 DEF ReaderClose
<1>9. ~WriterNext(c)
  BY DEF DaemonInv, WriterNext, WriteMessage, WriterStop, WriterClose
<1> QED BY <1>3, <1>4, <1>5, <1>6, <1>7, <1>8, <1>9 DEF HubServes

LEMMA StepIsClients ==
  ASSUME HubInv, DaemonInv, [Next]_vars
  PROVE  ClientStep
<1>1. CASE UNCHANGED vars
  BY <1>1 DEF vars, ClientStep, ClientsNow, DownNow
<1>2. ASSUME NEW c \in Clients \ DaemonClients,
             \/ Connect(c) \/ LoseConnection(c) \/ HubServes(c)
             \/ ReadMessage(c) \/ ReadFail(c) \/ ReaderClose(c) \/ WriterNext(c)
      PROVE  ClientStep
  <2>1. \A d \in DaemonClients : reader'[d] = reader[d] /\ (d \in connDown' <=> d \in connDown)
    BY <1>2, OwnPump, HubAssumption
  <2>2. ClientsNow' = ClientsNow
    BY <2>1 DEF ClientsNow
  <2>3. DownNow' = DownNow
    BY <2>1 DEF DownNow
  <2> QED BY <2>2, <2>3 DEF ClientStep
<1> QED BY <1>1, <1>2, OwnClientStep DEF Next

\* What the hub's model takes the daemon's connection to do is ConnectionLife,
\* and the daemon's reconnect loop does that (DaemonImplementsConnectionLife).
THEOREM HubSeesConnectionLife == Spec => ImplementsConnectionLife
<1>1. Init => DaemonInv /\ Client!Init
  BY HubAssumption DEF Init, DaemonInv, Client!Init, ClientsNow, DownNow, ClientState
<1>2. HubInv /\ DaemonInv /\ [Next]_vars => [Client!Next]_Client!vars
  BY StepIsClients DEF ClientStep, Client!vars
<1> QED
  BY <1>1, <1>2, HubSafe, DaemonSteps, PTL DEF Spec, ImplementsConnectionLife, Client!Spec
=============================================================================
