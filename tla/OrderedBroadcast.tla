--------------------------- MODULE OrderedBroadcast ---------------------------
(***************************************************************************)
(* What the signaling hub promises to its clients, with no channel, pump,  *)
(* connection or map in sight.                                             *)
(*                                                                         *)
(* Messages are handled one at a time.  A client joins once and leaves     *)
(* once.  While it is in, it is owed every message, in order; it may lag   *)
(* behind by Cap messages, and one that lags further is put out at once,   *)
(* never skipped over.  One that is out may still hear what it was owed.   *)
(***************************************************************************)
EXTENDS Integers

CONSTANTS
  Clients, \* the connections
  Cap      \* how many messages a client may be behind

VARIABLES
  total,   \* how many messages were handled; a message is its number
  phase,   \* per client: "out" (not yet joined), "in", "gone"
  owed,    \* per client, how many messages wait for it
  heard,   \* per client, the last message its peer got
  cut      \* the clients whose peer gets nothing more

vars == <<total, phase, owed, heard, cut>>

Init ==
  /\ total = 0
  /\ phase = [c \in Clients |-> "out"]
  /\ owed = [c \in Clients |-> 0]
  /\ heard = [c \in Clients |-> 0]
  /\ cut = {}

\* What was handled before is not heard.
Join(c) ==
  /\ phase[c] = "out"
  /\ phase' = [phase EXCEPT ![c] = "in"]
  /\ heard' = [heard EXCEPT ![c] = total]
  /\ UNCHANGED <<total, owed, cut>>

Leave(c) ==
  /\ phase[c] = "in"
  /\ phase' = [phase EXCEPT ![c] = "gone"]
  /\ UNCHANGED <<total, owed, heard, cut>>

In == {c \in Clients : phase[c] = "in"}

KeepsUp == {c \in In : owed[c] < Cap}

\* Everybody who is in is owed the message, or is put out for being too slow.
Broadcast ==
  /\ total' = total + 1
  /\ owed' = [c \in Clients |-> IF c \in KeepsUp THEN owed[c] + 1 ELSE owed[c]]
  /\ phase' = [c \in Clients |-> IF c \in In \ KeepsUp THEN "gone" ELSE phase[c]]
  /\ UNCHANGED <<heard, cut>>

\* The next message, not a later one.
Hear(c) ==
  /\ c \notin cut
  /\ owed[c] > 0
  /\ owed' = [owed EXCEPT ![c] = @ - 1]
  /\ heard' = [heard EXCEPT ![c] = @ + 1]
  /\ UNCHANGED <<total, phase, cut>>

\* The way to the peer ends, and may take the message that was on it along.
Cut(c) ==
  /\ c \notin cut
  /\ cut' = cut \cup {c}
  /\ \/ UNCHANGED owed
     \/ owed[c] > 0 /\ owed' = [owed EXCEPT ![c] = @ - 1]
  /\ UNCHANGED <<total, phase, heard>>

Next ==
  \/ Broadcast
  \/ \E c \in Clients : Join(c) \/ Leave(c) \/ Hear(c) \/ Cut(c)

Spec == Init /\ [][Next]_vars
=============================================================================
