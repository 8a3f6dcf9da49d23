----------------------------- MODULE SessionLife -----------------------------
(***************************************************************************)
(* What the topic broadcaster relies on in a WebRTC session, and all it    *)
(* knows of one.  A session joins its topic once.  When it ends it takes   *)
(* itself off the topic, closes its channel and cancels its context, each  *)
(* once and in this order.  Its context may end at any time before, with   *)
(* the daemon's or by its own cancel, and never comes back to life.        *)
(***************************************************************************)
CONSTANT Viewers   \* the sessions

VARIABLES
  phase,      \* per session: how far it is
  ended,      \* the sessions that have cancelled their context
  daemonDone  \* the context from which all sessions derive theirs is cancelled

vars == <<phase, ended, daemonDone>>

Init ==
  /\ phase = [v \in Viewers |-> "idle"]
  /\ ended = {}
  /\ daemonDone = FALSE

Moves(v, from, to) ==
  /\ phase[v] = from
  /\ phase' = [phase EXCEPT ![v] = to]
  /\ UNCHANGED daemonDone

Join(v) == Moves(v, "idle", "watching") /\ UNCHANGED ended

\* The session ends, with its context cancelled already or not.
End(v) == Moves(v, "watching", "leaving") /\ ended' \in {ended, ended \cup {v}}

Remove(v) == Moves(v, "leaving", "removed") /\ UNCHANGED ended

CloseChannel(v) == Moves(v, "removed", "closed") /\ UNCHANGED ended

Cancel(v) == Moves(v, "closed", "done") /\ ended' = ended \cup {v}

Shutdown ==
  /\ ~daemonDone
  /\ daemonDone' = TRUE
  /\ UNCHANGED <<phase, ended>>

Next ==
  \/ \E v \in Viewers : Join(v) \/ End(v) \/ Remove(v) \/ CloseChannel(v) \/ Cancel(v)
  \/ Shutdown

Spec == Init /\ [][Next]_vars
=============================================================================
