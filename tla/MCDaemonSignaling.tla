------------------------- MODULE MCDaemonSignaling -------------------------
(* DaemonSignaling, and the sessions of ViewerSession with it, on a small   *)
(* instance.                                                                *)
EXTENDS DaemonSignaling

CONSTANT x1
============================================================================
