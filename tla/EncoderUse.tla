------------------------------ MODULE EncoderUse ------------------------------
(***************************************************************************)
(* How an H264 encoder is used: what the encoder relies on in the session  *)
(* that owns it.  One goroutine feeds it frames, one at a time, and stops  *)
(* only when the session's context is done or its frame channel closed.    *)
(* The owner reads the output, then waits for the feeder, then calls Close *)
(* once: no frame is offered to an encoder that is being closed.           *)
(***************************************************************************)
CONSTANT Encoders   \* an encoder is named after its session

VARIABLES
  feeder,  \* per encoder: "none", "ready", "busy" in WriteFrame, "stopped"
  owner,   \* per encoder: "none", "streaming", "joining", "closing", "closed"
  over     \* the encoders whose session has no context or no channel any more

vars == <<feeder, owner, over>>

\* The encoder is made by its session, or is there from the start.
Init ==
  /\ \/ /\ owner = [e \in Encoders |-> "none"]
        /\ feeder = [e \in Encoders |-> "none"]
     \/ /\ owner = [e \in Encoders |-> "streaming"]
        /\ feeder = [e \in Encoders |-> "ready"]
  /\ over = {}

Create(e) ==
  /\ owner[e] = "none"
  /\ owner' = [owner EXCEPT ![e] = "streaming"]
  /\ feeder' = [feeder EXCEPT ![e] = "ready"]
  /\ UNCHANGED over

Feeds(e, from, to) ==
  /\ feeder[e] = from
  /\ feeder' = [feeder EXCEPT ![e] = to]
  /\ UNCHANGED <<owner, over>>

Offer(e) == Feeds(e, "ready", "busy")

Return(e) == Feeds(e, "busy", "ready")

Stop(e) == e \in over /\ Feeds(e, "ready", "stopped")

Owns(e, from, to) ==
  /\ owner[e] = from
  /\ owner' = [owner EXCEPT ![e] = to]
  /\ UNCHANGED <<feeder, over>>

StreamEnds(e) == Owns(e, "streaming", "joining")

\* The feeder has been waited for.
Close(e) == feeder[e] = "stopped" /\ Owns(e, "joining", "closing")

Closed(e) == Owns(e, "closing", "closed")

\* A session that is over stays so.
SessionsEnd ==
  /\ over \subseteq over'
  /\ UNCHANGED <<feeder, owner>>

Next ==
  \/ \E e \in Encoders : \/ Create(e) \/ Offer(e) \/ Return(e) \/ Stop(e)
                         \/ StreamEnds(e) \/ Close(e) \/ Closed(e)
  \/ SessionsEnd

Spec == Init /\ [][Next]_vars
=============================================================================
