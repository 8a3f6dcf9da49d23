------------------------------- MODULE CallLife -------------------------------
(***************************************************************************)
(* A gRPC call and its server, as the agent's shutdown sees them.  A call  *)
(* begins only while the server serves.  Its context ends at most once,    *)
(* with its client, its deadline or the server's hard stop, which leaves   *)
(* no call with a living context.  Its handler returns once, and may do so *)
(* whether or not the context has ended; the hard stop waits for none.     *)
(***************************************************************************)
CONSTANT Calls

VARIABLES
  server,  \* "serving", "stopping" and, after the hard stop, "stopped"
  call     \* per call: "none", "open", "over" when its context has ended, "returned"

vars == <<server, call>>

Init ==
  /\ server = "serving"
  /\ call = [c \in Calls |-> "none"]

Open(c) ==
  /\ server = "serving"
  /\ call[c] = "none"
  /\ call' = [call EXCEPT ![c] = "open"]
  /\ UNCHANGED server

ContextEnds(c) ==
  /\ call[c] = "open"
  /\ call' = [call EXCEPT ![c] = "over"]
  /\ UNCHANGED server

Return(c) ==
  /\ call[c] \in {"open", "over"}
  /\ call' = [call EXCEPT ![c] = "returned"]
  /\ UNCHANGED server

\* No more calls: the server stops gracefully, or its listener has failed.
Stop ==
  /\ server = "serving"
  /\ server' = "stopping"
  /\ UNCHANGED call

HardStop ==
  /\ server = "stopping"
  /\ server' = "stopped"
  /\ call' = [c \in Calls |-> IF call[c] = "open" THEN "over" ELSE call[c]]

Next ==
  \/ \E c \in Calls : Open(c) \/ ContextEnds(c) \/ Return(c)
  \/ Stop \/ HardStop

Spec == Init /\ [][Next]_vars
=============================================================================
