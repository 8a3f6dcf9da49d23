---------------------------- MODULE MCH264Encoder ----------------------------
(* H264Encoder on small instances.                                          *)
EXTENDS H264Encoder

\* Every way ffmpeg may end: with or without a message, killed or not.
AllExits == ExitKind

\* ffmpeg says nothing and does not fail: at most one error is sent to errCh.
QuietExits == {e \in ExitKind : e.status # "failed" /\ ~e.stderr}
=============================================================================
