---------------------------- MODULE ViewerSession ----------------------------
(***************************************************************************)
(* WebRTCDaemon.sdpExchangeHandler (internal/webrtc/viewer.go): one WebRTC *)
(* session per SDP offer, from AddViewer to the deferred calls.            *)
(*                                                                         *)
(* Goroutines of a session: the handler's own (main), the encoding         *)
(* pipeline it puts in an errgroup, the feeder of the pipeline, and the    *)
(* callbacks of the peer connection.  The broadcaster, the encoder and the *)
(* hub have modules of their own: here joining the broadcaster is a step,  *)
(* the encoder is the state of ffmpeg, and an answer is sent or not.       *)
(*                                                                         *)
(* runCtx and subCtx are children of the session's context; what else      *)
(* cancels them happens when nobody looks at them any more, so one context *)
(* is enough.  iceConnectedCtx is a child too, with a cancel of its own.   *)
(***************************************************************************)
EXTENDS Naturals

CONSTANT Sessions   \* the sessions, one per offer

VARIABLES
  daemonDone,   \* w.ctx is cancelled
  main,         \* per session: where the handler's goroutine is
  pipe,         \* per session: where the encoding pipeline is
  feeder,       \* per session: the goroutine that calls WriteFrame
  ffmpeg,       \* per session: the encoder's process
  pc,           \* per session: the peer connection
  cancelled,    \* the sessions whose cancel() was called
  iceReleased,  \* the sessions whose iceConnectedCtxCancel() was called
  connected,    \* history: the sessions whose ICE was reported connected
  peerClosed    \* the sessions whose channel peerClosed is closed

flagVars == <<cancelled, iceReleased, connected, peerClosed>>
procVars == <<pipe, feeder, ffmpeg>>
sessionVars == <<daemonDone, main, procVars, pc, flagVars>>

\* The deferred calls of main, in the order in which they run.
Leaving == {"iceCancel", "pcClose", "remove", "closeCh", "cancel"}

MainState ==
  {"idle", "join", "peer", "track", "describe", "gather", "answer", "wait", "done"} \cup Leaving

PipeState ==
  {"none", "start", "iceWait", "check", "read", "write", "join", "close", "returned"}

SessionTypeOK ==
  /\ daemonDone \in BOOLEAN
  /\ main \in [Sessions -> MainState]
  /\ pipe \in [Sessions -> PipeState]
  /\ feeder \in [Sessions -> {"none", "ready", "writing", "jammed", "stopped"}]
  /\ ffmpeg \in [Sessions -> {"none", "running", "ended"}]
  /\ pc \in [Sessions -> {"none", "open", "closed"}]
  /\ cancelled \subseteq Sessions /\ iceReleased \subseteq Sessions
  /\ connected \subseteq Sessions /\ peerClosed \subseteq Sessions

SessionInit ==
  /\ daemonDone = FALSE
  /\ main = [x \in Sessions |-> "idle"]
  /\ pipe = [x \in Sessions |-> "none"]
  /\ feeder = [x \in Sessions |-> "none"]
  /\ ffmpeg = [x \in Sessions |-> "none"]
  /\ pc = [x \in Sessions |-> "none"]
  /\ cancelled = {} /\ iceReleased = {} /\ connected = {} /\ peerClosed = {}

-----------------------------------------------------------------------------
(* Contexts and channels.                                                   *)

\* Bug: the session's context is not derived from w.ctx.
CtxDoneOwn(x) == x \in cancelled

CtxDone(x) == daemonDone \/ x \in cancelled

\* Bug: the pipeline does not wait for ICE.
IceDoneAlways(x) == TRUE

\* iceConnectedCtx: cancelled when ICE connects, when main leaves, or with ctx.
IceDone(x) == CtxDone(x) \/ x \in iceReleased

\* The deferred close(frameCh) has run.
FrameChClosed(x) == main[x] \in {"cancel", "done"}

-----------------------------------------------------------------------------
(* main.                                                                    *)

Goto(x, from, to) == main[x] = from /\ main' = [main EXCEPT ![x] = to]

\* An offer arrives: go func() { ctx, cancel := context.WithCancel(w.ctx) ... }.
Start(x) ==
  /\ Goto(x, "idle", "join")
  /\ UNCHANGED <<daemonDone, procVars, pc, flagVars>>

\* AddViewer; removing the viewer and closing frameCh are deferred.
Join(x) ==
  /\ Goto(x, "join", "peer")
  /\ UNCHANGED <<daemonDone, procVars, pc, flagVars>>

\* NewPeerConnection: without one there is no pc.Close() among the deferred calls.
CreatePeer(x) ==
  /\ \/ Goto(x, "peer", "track") /\ pc' = [pc EXCEPT ![x] = "open"]
     \/ Goto(x, "peer", "remove") /\ UNCHANGED pc
  /\ UNCHANGED <<daemonDone, procVars, flagVars>>

\* The track is made and added, and the pipeline started; or an error ends the session.
AddTrack(x) ==
  /\ \/ Goto(x, "track", "describe") /\ pipe' = [pipe EXCEPT ![x] = "start"]
     \/ Goto(x, "track", "iceCancel") /\ UNCHANGED pipe
  /\ UNCHANGED <<daemonDone, feeder, ffmpeg, pc, flagVars>>

\* The offer is decoded, the descriptions set; or an error ends the session.
Describe(x) ==
  /\ Goto(x, "describe", "gather") \/ Goto(x, "describe", "iceCancel")
  /\ UNCHANGED <<daemonDone, procVars, pc, flagVars>>

\* <-gatherComplete, which looks at no context.
Gather(x) ==
  /\ Goto(x, "gather", "answer")
  /\ UNCHANGED <<daemonDone, procVars, pc, flagVars>>

\* The answer is sent, or not: an error, or a panic that recoverFn recovers.
Answer(x, ok) ==
  /\ IF ok THEN Goto(x, "answer", "wait") ELSE Goto(x, "answer", "iceCancel")
  /\ UNCHANGED <<daemonDone, procVars, pc, flagVars>>

\* Bug: only the pipeline and the context are waited for.
PeerGoneNever(x) == FALSE

PeerGone(x) == x \in peerClosed

\* select { <-done ; <-peerClosed ; <-ctx.Done() }: cancel() but for the first.
Wait(x) ==
  /\ \/ pipe[x] = "returned" /\ UNCHANGED cancelled
     \/ PeerGone(x) /\ cancelled' = cancelled \cup {x}
     \/ CtxDone(x) /\ cancelled' = cancelled \cup {x}
  /\ Goto(x, "wait", "iceCancel")
  /\ UNCHANGED <<daemonDone, procVars, pc, iceReleased, connected, peerClosed>>

\* Bug: pc.Close() is not deferred.
PcAfterLeavingOpen(x) == pc[x]

PcAfterLeaving(x) == "closed"

\* The deferred calls: iceConnectedCtxCancel, pc.Close, RemoveViewer,
\* close(frameCh), recoverFn, cancel.
Leave(x) ==
  /\ \/ /\ Goto(x, "iceCancel", "pcClose")
        /\ iceReleased' = iceReleased \cup {x}
        /\ UNCHANGED <<pc, cancelled>>
     \/ /\ Goto(x, "pcClose", "remove")
        /\ pc' = [pc EXCEPT ![x] = PcAfterLeaving(x)]
        /\ UNCHANGED <<iceReleased, cancelled>>
     \/ /\ Goto(x, "remove", "closeCh") \/ Goto(x, "closeCh", "cancel")
        /\ UNCHANGED <<iceReleased, pc, cancelled>>
     \/ /\ Goto(x, "cancel", "done")
        /\ cancelled' = cancelled \cup {x}
        /\ UNCHANGED <<iceReleased, pc>>
  /\ UNCHANGED <<daemonDone, procVars, connected, peerClosed>>

-----------------------------------------------------------------------------
(* The callbacks of the peer connection.                                    *)

IceConnected(x) ==
  /\ pc[x] = "open"
  /\ connected' = connected \cup {x}
  /\ iceReleased' = iceReleased \cup {x}
  /\ UNCHANGED <<daemonDone, main, procVars, pc, cancelled, peerClosed>>

\* Failed, disconnected or closed, for whatever reason; reported once.
PeerCloses(x) ==
  /\ pc[x] # "none"
  /\ peerClosed' = peerClosed \cup {x}
  /\ UNCHANGED <<daemonDone, main, procVars, pc, cancelled, iceReleased, connected>>

-----------------------------------------------------------------------------
(* The encoding pipeline.                                                   *)

PipeUnchanged == UNCHANGED <<daemonDone, main, pc, flagVars>>

PipeGoto(x, from, to) == pipe[x] = from /\ pipe' = [pipe EXCEPT ![x] = to]

\* ffmpeg is started and then the feeder; or it cannot be started.
NewEncoder(x) ==
  /\ \/ /\ PipeGoto(x, "start", "iceWait")
        /\ ffmpeg' = [ffmpeg EXCEPT ![x] = "running"]
        /\ feeder' = [feeder EXCEPT ![x] = "ready"]
     \/ /\ PipeGoto(x, "start", "returned")
        /\ UNCHANGED <<ffmpeg, feeder>>
  /\ PipeUnchanged

\* select { <-iceConnectedCtx.Done() ; <-runCtx.Done() }, then the loop's own look at runCtx.
IceWait(x) ==
  /\ \/ IceDone(x) /\ PipeGoto(x, "iceWait", "check")
     \/ CtxDone(x) /\ PipeGoto(x, "iceWait", "join")
     \/ CtxDone(x) /\ PipeGoto(x, "check", "join")
     \/ ~CtxDone(x) /\ PipeGoto(x, "check", "read")
  /\ UNCHANGED <<feeder, ffmpeg>> /\ PipeUnchanged

\* NextNAL and WriteSample; an error, or the end of the stream, leads to subG.Wait.
StreamNal(x) ==
  /\ \/ ffmpeg[x] = "running" /\ PipeGoto(x, "read", "write")
     \/ ffmpeg[x] = "ended" /\ PipeGoto(x, "read", "join")
     \/ PipeGoto(x, "write", "check")
     \/ PipeGoto(x, "write", "join")
  /\ UNCHANGED <<feeder, ffmpeg>> /\ PipeUnchanged

\* Bug: an exit of the loop without subG.Wait().
FeederJoinedAlways(x) == TRUE

FeederJoined(x) == feeder[x] = "stopped"

\* subG.Wait() returns.
JoinFeeder(x) ==
  /\ FeederJoined(x)
  /\ PipeGoto(x, "join", "close")
  /\ UNCHANGED <<feeder, ffmpeg>> /\ PipeUnchanged

\* The deferred enc.Close() has returned: ffmpeg has ended.  It may also hang.
CloseEncoder(x) ==
  /\ PipeGoto(x, "close", "returned")
  /\ ffmpeg' = [ffmpeg EXCEPT ![x] = "ended"]
  /\ UNCHANGED feeder /\ PipeUnchanged

\* Bug: NewH264Encoder is given context.Background().
KilledNever(x) == FALSE

\* The encoder's context is derived from runCtx.
Killed(x) == CtxDone(x)

\* ffmpeg ends by itself, or is killed with the context.
FfmpegEnds(x) ==
  /\ ffmpeg[x] = "running"
  /\ ffmpeg' = [ffmpeg EXCEPT ![x] = "ended"]
  /\ UNCHANGED <<pipe, feeder>> /\ PipeUnchanged

FeederGoto(x, from, to) == feeder[x] = from /\ feeder' = [feeder EXCEPT ![x] = to]

\* A frame comes and is given to WriteFrame, which returns nil or io.EOF: both
\* keep the feeder in its loop.
Feed(x) ==
  /\ FeederGoto(x, "ready", "writing") \/ FeederGoto(x, "writing", "ready")
  /\ UNCHANGED <<pipe, ffmpeg>> /\ PipeUnchanged

\* With a full inCh WriteFrame waits for the channel "closed".  The encoder's waiter
\* never closes it when its own errors, or the writer's before them, are more than
\* the one slot of errCh takes (H264Encoder's ErrorsStuck).
FeederJams(x) ==
  /\ ffmpeg[x] = "ended"
  /\ FeederGoto(x, "writing", "jammed")
  /\ UNCHANGED <<pipe, ffmpeg>> /\ PipeUnchanged

\* subCtx is done, or frameCh is closed.
FeederEnds(x) == CtxDone(x) \/ FrameChClosed(x)

FeederStop(x) ==
  /\ FeederEnds(x)
  /\ FeederGoto(x, "ready", "stopped")
  /\ UNCHANGED <<pipe, ffmpeg>> /\ PipeUnchanged

-----------------------------------------------------------------------------
\* WebRTCDaemon.Close, or the end of main, cancels w.ctx.
Shutdown ==
  /\ ~daemonDone
  /\ daemonDone' = TRUE
  /\ UNCHANGED <<main, procVars, pc, flagVars>>

\* What main does by itself, the answer apart.
MainStep(x) ==
  \/ Join(x) \/ CreatePeer(x) \/ AddTrack(x) \/ Describe(x) \/ Gather(x)
  \/ Wait(x) \/ Leave(x)

PipeStep(x) == NewEncoder(x) \/ IceWait(x) \/ StreamNal(x) \/ JoinFeeder(x)

\* Everything in a session but its start and its answer, which need the daemon.
SessionStep ==
  \/ \E x \in Sessions :
       \/ MainStep(x) \/ PipeStep(x) \/ CloseEncoder(x) \/ FfmpegEnds(x)
       \/ Feed(x) \/ FeederJams(x) \/ FeederStop(x)
       \/ IceConnected(x) \/ PeerCloses(x)
  \/ Shutdown

SessionNext ==
  \/ SessionStep
  \/ \E x \in Sessions : Start(x) \/ \E ok \in BOOLEAN : Answer(x, ok)

SessionSpec == SessionInit /\ [][SessionNext]_sessionVars

\* Every goroutine that can run does; the calls into pion return; the context
\* kills ffmpeg, and then WriteFrame returns or is found jammed.  Not assumed: that
\* gathering completes, that a peer goes, that ICE connects, that ffmpeg ends by
\* itself, that enc.Close() returns, nor a WriteFrame to a live or jammed encoder.
SessionFairness ==
  \A x \in Sessions :
    /\ WF_sessionVars(main[x] # "gather" /\ (MainStep(x) \/ \E ok \in BOOLEAN : Answer(x, ok)))
    /\ WF_sessionVars(PipeStep(x))
    /\ WF_sessionVars(Killed(x) /\ FfmpegEnds(x))
    /\ WF_sessionVars(ffmpeg[x] = "ended" /\ feeder[x] = "writing" /\ (Feed(x) \/ FeederJams(x)))
    /\ SF_sessionVars(FeederStop(x))

-----------------------------------------------------------------------------
(* Safety.                                                                  *)

\* enc.Close() is called when the feeder has stopped or never was: what the
\* encoder relies on so that WriteFrame never meets the closed inCh.
EncoderClosedAlone ==
  \A x \in Sessions : pipe[x] \in {"close", "returned"} => feeder[x] \in {"none", "stopped"}

\* No sample goes to the track before ICE has connected, unless the session is
\* already leaving or its context is done.
NoSampleBeforeIce ==
  \A x \in Sessions :
    pipe[x] \in {"read", "write"} =>
      x \in connected \/ CtxDone(x) \/ main[x] \in Leaving \cup {"done"}

\* Whatever went wrong and when, a session that is over holds no peer
\* connection, and its pipeline has a cancelled context and a closed frameCh.
OverIsReleased ==
  \A x \in Sessions :
    main[x] = "done" => pc[x] # "open" /\ CtxDone(x) /\ (pipe[x] # "none" => x \in iceReleased)

-----------------------------------------------------------------------------
(* Liveness.                                                                *)

\* A session whose peer is gone ends, whatever its pipeline is doing: the only
\* place where it can stay is the wait for gatherComplete.
PeerGoneEnds ==
  \A x \in Sessions :
    (x \in peerClosed /\ pc[x] = "open" /\ main[x] # "gather") ~> main[x] \in {"done", "gather"}

\* When the daemon is closed every session ends, or waits for its gathering.
ShutdownEnds ==
  \A x \in Sessions :
    (daemonDone /\ main[x] \notin {"idle", "gather"}) ~> main[x] \in {"done", "gather"}

\* The pipeline of a session that is over gets as far as closing its encoder; all
\* that can hold it up is a feeder that its encoder has jammed: subG.Wait waits for
\* it, and no context ends its WriteFrame.
PipelineUnwinds ==
  \A x \in Sessions :
    main[x] = "done" ~> (pipe[x] \in {"none", "close", "returned"} \/ feeder[x] = "jammed")

\* When the encoder of a connected session has ended, the session ends.
DeadStreamEnds ==
  \A x \in Sessions :
    (ffmpeg[x] = "ended" /\ x \in connected /\ main[x] = "wait") ~> main[x] = "done"
=============================================================================
