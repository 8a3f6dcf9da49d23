--------------------------- MODULE MCSignalingHub ---------------------------
(* SignalingHub on a small instance.                                        *)
EXTENDS SignalingHub

CONSTANTS r1, d1
=============================================================================
