----------------------------- MODULE LossyFanOut -----------------------------
(***************************************************************************)
(* What the topic broadcaster promises to the WebRTC sessions, with no     *)
(* lock, goroutine, context or registry in sight.                          *)
(*                                                                         *)
(* Frames are published on topics.  A session joins its topic once and     *)
(* leaves it once.  While it is in, frames of its topic may be handed to   *)
(* its bounded channel.  Any frame may be lost, but the frames that come   *)
(* from one stream (one subscription to the topic) arrive in publication   *)
(* order and never twice, and a session that has left gets nothing more.   *)
(***************************************************************************)
EXTENDS Integers

CONSTANTS
  Viewers,    \* the WebRTC sessions; a stream is named after the session that started it
  Topics,     \* the camera topics
  TopicOf,    \* the topic that each session's offer names
  ChanCap,    \* capacity of a session's frame channel
  MaxFrames   \* bound: frames published per topic

VARIABLES
  published,  \* per topic, how many frames were published; a frame is its number
  phase,      \* per session: "out" (not yet joined), "in", "gone"
  queued,     \* per session, how many frames wait in its channel
  newest      \* per session and stream, the last frame handed over (0: none)

vars == <<published, phase, queued, newest>>

Init ==
  /\ published = [t \in Topics |-> 0]
  /\ phase = [v \in Viewers |-> "out"]
  /\ queued = [v \in Viewers |-> 0]
  /\ newest = [v \in Viewers |-> [s \in Viewers |-> 0]]

Publish(t) ==
  /\ published[t] < MaxFrames
  /\ published' = [published EXCEPT ![t] = @ + 1]
  /\ UNCHANGED <<phase, queued, newest>>

Join(v) ==
  /\ phase[v] = "out"
  /\ phase' = [phase EXCEPT ![v] = "in"]
  /\ UNCHANGED <<published, queued, newest>>

Leave(v) ==
  /\ phase[v] = "in"
  /\ phase' = [phase EXCEPT ![v] = "gone"]
  /\ UNCHANGED <<published, queued, newest>>

\* Stream s hands frame f to session v: v is in, the frame is of its topic and
\* newer than everything v got from s, and v's channel has room.
Hand(v, s, f) ==
  /\ phase[v] = "in"
  /\ TopicOf[s] = TopicOf[v]
  /\ f \in (newest[v][s] + 1) .. published[TopicOf[s]]
  /\ queued[v] < ChanCap
  /\ queued' = [queued EXCEPT ![v] = @ + 1]
  /\ newest' = [newest EXCEPT ![v][s] = f]
  /\ UNCHANGED <<published, phase>>

Take(v) ==
  /\ queued[v] > 0
  /\ queued' = [queued EXCEPT ![v] = @ - 1]
  /\ UNCHANGED <<published, phase, newest>>

Next ==
  \/ \E t \in Topics : Publish(t)
  \/ \E v \in Viewers : Join(v) \/ Leave(v) \/ Take(v)
  \/ \E v, s \in Viewers : \E f \in 1 .. MaxFrames : Hand(v, s, f)

Spec == Init /\ [][Next]_vars
=============================================================================
