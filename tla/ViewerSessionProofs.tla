------------------------- MODULE ViewerSessionProofs -------------------------
(* The session's safety properties, for every set of sessions.              *)
EXTENDS ViewerSession, TLAPS

\* Where main is once the deferred iceConnectedCtxCancel has run.
Released == {"pcClose", "remove", "closeCh", "cancel", "done"}

\* The feeder belongs to the encoder: none before, stopped when it is closed.
FeederInv ==
  /\ \A x \in Sessions : pipe[x] \in {"none", "start"} => feeder[x] = "none"
  /\ EncoderClosedAlone

\* The context that the pipeline waits on is released by ICE, or by a main that leaves.
IceInv ==
  /\ \A x \in Sessions : x \in iceReleased => x \in connected \/ main[x] \in Released
  /\ \A x \in Sessions :
       pipe[x] \in {"check", "read", "write"} =>
         x \in connected \/ CtxDone(x) \/ main[x] \in Leaving \cup {"done"}

\* What main holds at each of its places.
PeerInv ==
  \A x \in Sessions :
    /\ main[x] \in {"idle", "join", "peer"} => pc[x] = "none"
    /\ main[x] \in {"remove", "closeCh", "cancel", "done"} => pc[x] # "open"
    /\ main[x] = "done" => x \in cancelled

PipeInv ==
  \A x \in Sessions :
    pipe[x] # "none" =>
      \/ main[x] \in {"describe", "gather", "answer", "wait", "iceCancel"}
      \/ main[x] \in Released /\ x \in iceReleased

SessionInv == SessionTypeOK /\ FeederInv /\ IceInv /\ PeerInv /\ PipeInv

-----------------------------------------------------------------------------
LEMMA SessionStarts == SessionInit => SessionInv
  BY DEF SessionInit, SessionInv, SessionTypeOK, FeederInv, IceInv, PeerInv, PipeInv,
         EncoderClosedAlone, MainState, PipeState, Leaving, Released, CtxDone

\* A step of main to a place the deferred calls do not touch.
LEMMA MainKeeps ==
  ASSUME SessionInv, NEW x \in Sessions, MainStep(x)
  PROVE  SessionInv'
<1> USE DEF SessionInv, SessionTypeOK, Goto, procVars, flagVars, MainState, Leaving, Released
<1>1. CASE Join(x) \/ Describe(x) \/ Gather(x)
  BY <1>1 DEF Join, Describe, Gather, FeederInv, EncoderClosedAlone, IceInv, PeerInv, PipeInv, CtxDone
<1>2. CASE CreatePeer(x)
  <2>1. CASE main' = [main EXCEPT ![x] = "track"] /\ pc' = [pc EXCEPT ![x] = "open"]
    <3>1. SessionTypeOK'
      BY <1>2, <2>1 DEF CreatePeer
    <3>2. FeederInv'
      BY <1>2 DEF CreatePeer, FeederInv, EncoderClosedAlone
    <3>3. IceInv' /\ PipeInv'
      BY <1>2, <2>1 DEF CreatePeer, IceInv, PipeInv, CtxDone
    <3>4. PeerInv'
      BY <1>2, <2>1 DEF CreatePeer, PeerInv
    <3> QED BY <3>1, <3>2, <3>3, <3>4
  <2>2. CASE main' = [main EXCEPT ![x] = "remove"] /\ pc' = pc
    <3>1. pc[x] = "none" /\ pipe[x] = "none"
      BY <1>2 DEF CreatePeer, PeerInv, PipeInv
    <3> QED
      BY <1>2, <2>2, <3>1 DEF CreatePeer, FeederInv, EncoderClosedAlone, IceInv, PeerInv, PipeInv, CtxDone
  <2> QED BY <1>2, <2>1, <2>2 DEF CreatePeer
<1>3. CASE AddTrack(x)
  BY <1>3 DEF AddTrack, FeederInv, EncoderClosedAlone, IceInv, PeerInv, PipeInv, CtxDone, PipeState
<1>4. CASE Wait(x)
  BY <1>4 DEF Wait, FeederInv, EncoderClosedAlone, IceInv, PeerInv, PipeInv, CtxDone
<1>5. CASE Leave(x)
  BY <1>5 DEF Leave, FeederInv, EncoderClosedAlone, IceInv, PeerInv, PipeInv, CtxDone, PcAfterLeaving
<1> QED BY <1>1, <1>2, <1>3, <1>4, <1>5 DEF MainStep

LEMMA StartKeeps ==
  ASSUME SessionInv, NEW x \in Sessions, Start(x) \/ \E ok \in BOOLEAN : Answer(x, ok)
  PROVE  SessionInv'
  BY DEF SessionInv, SessionTypeOK, Goto, procVars, flagVars, MainState, Leaving, Released,
         Start, Answer, FeederInv, EncoderClosedAlone, IceInv, PeerInv, PipeInv, CtxDone

LEMMA PipeKeeps ==
  ASSUME SessionInv, NEW x \in Sessions,
         PipeStep(x) \/ CloseEncoder(x) \/ FfmpegEnds(x) \/ Feed(x) \/ FeederJams(x) \/ FeederStop(x)
  PROVE  SessionInv'
<1> USE DEF SessionInv, SessionTypeOK, PipeGoto, FeederGoto, PipeUnchanged, flagVars, PipeState
<1>1. CASE NewEncoder(x)
  BY <1>1 DEF NewEncoder, FeederInv, EncoderClosedAlone, IceInv, PeerInv, PipeInv, CtxDone
<1>2. CASE IceWait(x)
  BY <1>2 DEF IceWait, FeederInv, EncoderClosedAlone, IceInv, PeerInv, PipeInv, CtxDone, IceDone,
              Released, Leaving
<1>3. CASE StreamNal(x)
  BY <1>3 DEF StreamNal, FeederInv, EncoderClosedAlone, IceInv, PeerInv, PipeInv, CtxDone
<1>4. CASE JoinFeeder(x) \/ CloseEncoder(x)
  BY <1>4 DEF JoinFeeder, FeederJoined, CloseEncoder, FeederInv, EncoderClosedAlone, IceInv,
              PeerInv, PipeInv, CtxDone
<1>5. CASE FfmpegEnds(x) \/ Feed(x) \/ FeederJams(x) \/ FeederStop(x)
  BY <1>5 DEF FfmpegEnds, Feed, FeederJams, FeederStop, FeederInv, EncoderClosedAlone, IceInv, PeerInv,
              PipeInv, CtxDone
<1> QED BY <1>1, <1>2, <1>3, <1>4, <1>5 DEF PipeStep

LEMMA EventKeeps ==
  ASSUME SessionInv, NEW x \in Sessions, IceConnected(x) \/ PeerCloses(x) \/ Shutdown
  PROVE  SessionInv'
  BY DEF SessionInv, SessionTypeOK, procVars, flagVars, IceConnected, PeerCloses, Shutdown,
         FeederInv, EncoderClosedAlone, IceInv, PeerInv, PipeInv, CtxDone, Released, Leaving

LEMMA SessionSteps == SessionInv /\ [SessionNext]_sessionVars => SessionInv'
<1> SUFFICES ASSUME SessionInv, [SessionNext]_sessionVars PROVE SessionInv'
  OBVIOUS
<1>1. CASE UNCHANGED sessionVars
  BY <1>1 DEF SessionInv, SessionTypeOK, sessionVars, procVars, flagVars, FeederInv,
              EncoderClosedAlone, IceInv, PeerInv, PipeInv, CtxDone
<1>2. CASE Shutdown
  BY <1>2 DEF SessionInv, SessionTypeOK, procVars, flagVars, Shutdown,
         FeederInv, EncoderClosedAlone, IceInv, PeerInv, PipeInv, CtxDone, Released, Leaving
<1> QED BY <1>1, <1>2, MainKeeps, StartKeeps, PipeKeeps, EventKeeps DEF SessionNext, SessionStep

\* The inductive invariant holds of every session, always.
THEOREM SessionSafe == SessionSpec => []SessionInv
  BY SessionStarts, SessionSteps, PTL DEF SessionSpec

\* The feeder has stopped whenever the pipeline closes its encoder, which is
\* what keeps WriteFrame off the closed inCh (encoder.go).
THEOREM FeederBeforeClose == SessionSpec => []EncoderClosedAlone
<1>1. SessionInv => EncoderClosedAlone
  BY DEF SessionInv, FeederInv
<1> QED BY <1>1, SessionSafe, PTL

\* No sample is written before ICE connects, in any session that goes on.
THEOREM IceBeforeSamples == SessionSpec => []NoSampleBeforeIce
<1>1. SessionInv => NoSampleBeforeIce
  BY DEF SessionInv, IceInv, NoSampleBeforeIce
<1> QED BY <1>1, SessionSafe, PTL

\* Every way out of the handler releases the peer connection and the contexts.
THEOREM ReleasedAtEnd == SessionSpec => []OverIsReleased
<1>1. SessionInv => OverIsReleased
  BY DEF SessionInv, PeerInv, PipeInv, OverIsReleased, CtxDone, Released
<1> QED BY <1>1, SessionSafe, PTL

-----------------------------------------------------------------------------
(* A session that is streaming ends only with its context or its peer.      *)

\* The session has no context or no frame channel any more.
Over(x) == CtxDone(x) \/ FrameChClosed(x)

\* The feeder leaves its loop for no other reason.
StopInv == \A x \in Sessions : feeder[x] = "stopped" => Over(x)

\* A session that is over stays so.
LEMMA OverStays ==
  ASSUME SessionInv, [SessionNext]_sessionVars, NEW x \in Sessions, Over(x)
  PROVE  Over(x)'
<1> USE DEF Over, CtxDone, FrameChClosed
<1>1. CASE UNCHANGED sessionVars
  BY <1>1 DEF sessionVars, procVars, flagVars
<1>2. CASE Shutdown
  BY <1>2 DEF Shutdown
<1>3. ASSUME NEW y \in Sessions, MainStep(y) \/ Start(y) \/ \E ok \in BOOLEAN : Answer(y, ok)
      PROVE  Over(x)'
  <2>1. daemonDone' = daemonDone /\ cancelled \subseteq cancelled'
    BY <1>3 DEF MainStep, Join, CreatePeer, AddTrack, Describe, Gather, Wait, Leave, Start, Answer,
                flagVars
  <2>2. main[x] \in {"cancel", "done"} => main'[x] \in {"cancel", "done"}
    BY <1>3 DEF MainStep, Join, CreatePeer, AddTrack, Describe, Gather, Wait, Leave, Start, Answer,
                Goto, SessionInv, SessionTypeOK
  <2> QED BY <2>1, <2>2
<1>4. ASSUME NEW y \in Sessions,
             \/ PipeStep(y) \/ CloseEncoder(y) \/ FfmpegEnds(y) \/ Feed(y) \/ FeederJams(y) \/ FeederStop(y)
             \/ IceConnected(y) \/ PeerCloses(y)
      PROVE  Over(x)'
  BY <1>4 DEF PipeStep, NewEncoder, IceWait, StreamNal, JoinFeeder, CloseEncoder, FfmpegEnds, Feed, FeederJams,
              FeederStop, IceConnected, PeerCloses, PipeUnchanged, flagVars
<1> QED BY <1>1, <1>2, <1>3, <1>4 DEF SessionNext, SessionStep

\* Who stops has seen the end of its session.
LEMMA StopNeedsOver ==
  ASSUME SessionInv, [SessionNext]_sessionVars, NEW x \in Sessions,
         feeder'[x] = "stopped", feeder[x] # "stopped"
  PROVE  Over(x)
<1> USE DEF SessionInv, SessionTypeOK
<1>1. feeder' # feeder
  OBVIOUS
<1>2. PICK y \in Sessions : NewEncoder(y) \/ Feed(y) \/ FeederJams(y) \/ FeederStop(y)
  BY <1>1 DEF SessionNext, SessionStep, MainStep, Join, CreatePeer, AddTrack, Describe, Gather, Wait,
              Leave, Start, Answer, PipeStep, IceWait, StreamNal, JoinFeeder, CloseEncoder,
              FfmpegEnds, IceConnected, PeerCloses, Shutdown, sessionVars, procVars
<1>3. FeederStop(y) /\ y = x
  BY <1>2 DEF NewEncoder, Feed, FeederJams, FeederStop, FeederGoto
<1> QED BY <1>3 DEF FeederStop, FeederEnds, Over

LEMMA StopSteps == SessionInv /\ StopInv /\ [SessionNext]_sessionVars => StopInv'
<1> SUFFICES ASSUME SessionInv, StopInv, [SessionNext]_sessionVars,
                    NEW x \in Sessions, feeder'[x] = "stopped"
             PROVE  Over(x)'
  BY DEF StopInv
<1>1. Over(x)
  BY StopNeedsOver DEF StopInv
<1> QED BY <1>1, OverStays

\* A pipeline that closes its encoder, or has returned from it, belongs to a
\* session that is over.
CloseHasCause ==
  \A x \in Sessions :
    pipe[x] \in {"close", "returned"} => feeder[x] = "none" \/ CtxDone(x) \/ FrameChClosed(x)

\* No end of ffmpeg, no failed write and no end of the stream brings a pipeline
\* past subG.Wait(): once an encoder was made it is closed only by a session
\* whose context is done or whose frame channel is closed (viewer.go).
THEOREM EncoderClosedOnlyWhenOver == SessionSpec => []CloseHasCause
<1>1. SessionInit => StopInv
  BY DEF SessionInit, StopInv
<1>2. SessionInv /\ StopInv => CloseHasCause
  BY DEF SessionInv, FeederInv, EncoderClosedAlone, StopInv, CloseHasCause, Over
<1> QED BY <1>1, <1>2, SessionSafe, StopSteps, PTL DEF SessionSpec

\* main leaves its select for a peer that is gone, a context that is done, or
\* an encoder that could not be made: that the encoder of a connected session
\* has ended never ends the session, which is why DeadStreamEnds fails.
WaitEndsForCause ==
  \A x \in Sessions :
    main[x] = "wait" /\ main'[x] # "wait" =>
      x \in peerClosed \/ CtxDone(x) \/ (pipe[x] = "returned" /\ feeder[x] = "none")

\* Whatever becomes of its encoder and its stream, a session that waits leaves the
\* select of viewer.go for one of those causes only.
THEOREM DeadStreamHoldsSession == SessionSpec => [][WaitEndsForCause]_sessionVars
<1>1. SessionInv /\ StopInv /\ [SessionNext]_sessionVars => [WaitEndsForCause]_sessionVars
  <2> SUFFICES ASSUME SessionInv, StopInv, SessionNext, NEW x \in Sessions,
                      main[x] = "wait", main'[x] # "wait"
               PROVE  x \in peerClosed \/ CtxDone(x) \/ (pipe[x] = "returned" /\ feeder[x] = "none")
    BY DEF WaitEndsForCause
  <2>1. Wait(x)
    <3>1. main' # main
      OBVIOUS
    <3>2. PICK y \in Sessions : MainStep(y) \/ Start(y) \/ \E ok \in BOOLEAN : Answer(y, ok)
      BY <3>1 DEF SessionNext, SessionStep, PipeStep, NewEncoder, IceWait, StreamNal, JoinFeeder,
                  CloseEncoder, FfmpegEnds, Feed, FeederJams, FeederStop, IceConnected, PeerCloses, Shutdown,
                  PipeUnchanged
    <3>3. y = x
      BY <3>2 DEF MainStep, Join, CreatePeer, AddTrack, Describe, Gather, Wait, Leave, Start, Answer,
                  Goto, SessionInv, SessionTypeOK
    <3> QED
      BY <3>2, <3>3 DEF MainStep, Join, CreatePeer, AddTrack, Describe, Gather, Wait, Leave, Start,
                        Answer, Goto
  <2>2. pipe[x] = "returned" => feeder[x] = "none" \/ Over(x)
    BY DEF SessionInv, FeederInv, EncoderClosedAlone, StopInv
  <2>3. ~FrameChClosed(x)
    BY DEF FrameChClosed
  <2> QED BY <2>1, <2>2, <2>3 DEF Wait, PeerGone, Over
<1>2. SessionInit => StopInv
  BY DEF SessionInit, StopInv
<1> QED BY <1>1, <1>2, SessionStarts, SessionSteps, StopSteps, PTL DEF SessionSpec

-----------------------------------------------------------------------------
(* What the broadcaster relies on in a session.                             *)

\* A session seen from the broadcaster: AddViewer comes after join, and the
\* deferred calls it notices are RemoveViewer, close(frameCh) and cancel.
Seen(place) ==
  CASE place \in {"idle", "join"} -> "idle"
    [] place \in {"peer", "track", "describe", "gather", "answer", "wait"} -> "watching"
    [] place \in {"iceCancel", "pcClose", "remove"} -> "leaving"
    [] place = "closeCh" -> "removed"
    [] place = "cancel" -> "closed"
    [] place = "done" -> "done"

Life == INSTANCE SessionLife WITH
  Viewers <- Sessions, phase <- [x \in Sessions |-> Seen(main[x])], ended <- cancelled

ImplementsSessionLife == Life!Spec

LifeStep == Life!Next \/ UNCHANGED <<[x \in Sessions |-> Seen(main[x])], cancelled, daemonDone>>

\* A step of main moves its own session and no other.
LEMMA SeenMoves ==
  ASSUME main \in [Sessions -> MainState], NEW x \in Sessions, NEW from, NEW to, Goto(x, from, to)
  PROVE  /\ [y \in Sessions |-> Seen(main[y])][x] = Seen(from)
         /\ [y \in Sessions |-> Seen(main[y])]'
              = [[y \in Sessions |-> Seen(main[y])] EXCEPT ![x] = Seen(to)]
  BY DEF Goto

LEMMA SeenSame ==
  ASSUME main \in [Sessions -> MainState], NEW x \in Sessions, NEW from, NEW to, Goto(x, from, to),
         Seen(from) = Seen(to)
  PROVE  [y \in Sessions |-> Seen(main[y])]' = [y \in Sessions |-> Seen(main[y])]
  BY DEF Goto

LEMMA SeenValues ==
  /\ Seen("join") = "idle" /\ Seen("peer") = "watching"
  /\ Seen("answer") = "watching" /\ Seen("iceCancel") = "leaving"
  /\ Seen("remove") = "leaving" /\ Seen("closeCh") = "removed"
  /\ Seen("cancel") = "closed" /\ Seen("done") = "done"
  BY DEF Seen

LEMMA MainLives ==
  ASSUME main \in [Sessions -> MainState], NEW x \in Sessions, MainStep(x)
  PROVE  LifeStep
<1> USE DEF LifeStep, Life!Next
<1>1. CASE Join(x)
  <2>1. Life!Join(x)
    BY <1>1, SeenMoves, SeenValues DEF Join, Life!Join, Life!Moves, flagVars
  <2> QED BY <2>1
<1>2. ASSUME NEW from, NEW to, Goto(x, from, to), daemonDone' = daemonDone,
             Seen(from) = "watching", Seen(to) = "leaving",
             cancelled' \in {cancelled, cancelled \cup {x}}
      PROVE  LifeStep
  <2>1. Life!End(x)
    BY <1>2, SeenMoves DEF Life!End, Life!Moves
  <2> QED BY <2>1
<1>3. ASSUME NEW from, NEW to, Goto(x, from, to), UNCHANGED <<daemonDone, cancelled>>,
             Seen(from) = Seen(to)
      PROVE  LifeStep
  BY <1>3, SeenSame
<1>4. CASE CreatePeer(x)
  <2>1. UNCHANGED <<daemonDone, cancelled>>
    BY <1>4 DEF CreatePeer, flagVars
  <2>2. Goto(x, "peer", "track") \/ Goto(x, "peer", "remove")
    BY <1>4 DEF CreatePeer
  <2>3. Seen("peer") = "watching" /\ Seen("track") = "watching" /\ Seen("remove") = "leaving"
    BY DEF Seen
  <2> QED BY <2>1, <2>2, <2>3, <1>2, <1>3
<1>5. CASE AddTrack(x)
  <2>1. UNCHANGED <<daemonDone, cancelled>>
    BY <1>5 DEF AddTrack, flagVars
  <2>2. Goto(x, "track", "describe") \/ Goto(x, "track", "iceCancel")
    BY <1>5 DEF AddTrack
  <2>3. Seen("track") = "watching" /\ Seen("describe") = "watching" /\ Seen("iceCancel") = "leaving"
    BY DEF Seen
  <2> QED BY <2>1, <2>2, <2>3, <1>2, <1>3
<1>6. CASE Describe(x) \/ Gather(x)
  <2>1. UNCHANGED <<daemonDone, cancelled>>
    BY <1>6 DEF Describe, Gather, flagVars
  <2>2. \/ Goto(x, "describe", "gather") \/ Goto(x, "describe", "iceCancel")
        \/ Goto(x, "gather", "answer")
    BY <1>6 DEF Describe, Gather
  <2>3. /\ Seen("describe") = "watching" /\ Seen("gather") = "watching"
        /\ Seen("answer") = "watching" /\ Seen("iceCancel") = "leaving"
    BY DEF Seen
  <2> QED BY <2>1, <2>2, <2>3, <1>2, <1>3
<1>7. CASE Wait(x)
  <2>1. daemonDone' = daemonDone /\ cancelled' \in {cancelled, cancelled \cup {x}}
    BY <1>7 DEF Wait
  <2>2. Goto(x, "wait", "iceCancel")
    BY <1>7 DEF Wait
  <2>3. Seen("wait") = "watching" /\ Seen("iceCancel") = "leaving"
    BY DEF Seen
  <2> QED BY <2>1, <2>2, <2>3, <1>2
<1>8. CASE Leave(x)
  <2>1. daemonDone' = daemonDone
    BY <1>8 DEF Leave
  <2>2. CASE Goto(x, "iceCancel", "pcClose") /\ cancelled' = cancelled
    <3>1. Seen("iceCancel") = Seen("pcClose")
      BY DEF Seen
    <3> QED BY <2>1, <2>2, <3>1, <1>3
  <2>3. CASE Goto(x, "pcClose", "remove") /\ cancelled' = cancelled
    <3>1. Seen("pcClose") = Seen("remove")
      BY DEF Seen
    <3> QED BY <2>1, <2>3, <3>1, <1>3
  <2>4. CASE Goto(x, "remove", "closeCh") /\ cancelled' = cancelled
    <3>1. Life!Remove(x)
      BY <2>1, <2>4, SeenMoves, SeenValues DEF Life!Remove, Life!Moves
    <3> QED BY <3>1
  <2>5. CASE Goto(x, "closeCh", "cancel") /\ cancelled' = cancelled
    <3>1. Life!CloseChannel(x)
      BY <2>1, <2>5, SeenMoves, SeenValues DEF Life!CloseChannel, Life!Moves
    <3> QED BY <3>1
  <2>6. CASE Goto(x, "cancel", "done") /\ cancelled' = cancelled \cup {x}
    <3>1. Life!Cancel(x)
      BY <2>1, <2>6, SeenMoves, SeenValues DEF Life!Cancel, Life!Moves
    <3> QED BY <3>1
  <2> QED BY <1>8, <2>2, <2>3, <2>4, <2>5, <2>6 DEF Leave
<1> QED BY <1>1, <1>4, <1>5, <1>6, <1>7, <1>8 DEF MainStep

LEMMA SessionLives == SessionInv /\ [SessionNext]_sessionVars => LifeStep
<1> SUFFICES ASSUME main \in [Sessions -> MainState], [SessionNext]_sessionVars PROVE LifeStep
  BY DEF SessionInv, SessionTypeOK
<1>1. ASSUME UNCHANGED <<main, cancelled, daemonDone>> PROVE LifeStep
  BY <1>1 DEF LifeStep
<1>2. CASE UNCHANGED sessionVars
  BY <1>1, <1>2 DEF sessionVars, flagVars
<1>3. CASE Shutdown
  <2>1. Life!Shutdown
    BY <1>3 DEF Shutdown, Life!Shutdown, flagVars
  <2> QED BY <2>1 DEF LifeStep, Life!Next
<1>4. ASSUME NEW x \in Sessions,
             \/ PipeStep(x) \/ CloseEncoder(x) \/ FfmpegEnds(x)
             \/ Feed(x) \/ FeederJams(x) \/ FeederStop(x) \/ IceConnected(x) \/ PeerCloses(x)
      PROVE  LifeStep
  <2>1. UNCHANGED <<main, cancelled, daemonDone>>
    BY <1>4 DEF PipeStep, NewEncoder, IceWait, StreamNal, JoinFeeder, CloseEncoder, FfmpegEnds, Feed, FeederJams,
                FeederStop, IceConnected, PeerCloses, PipeUnchanged, flagVars
  <2> QED BY <2>1, <1>1
<1>5. ASSUME NEW x \in Sessions, Start(x) \/ \E ok \in BOOLEAN : Answer(x, ok) PROVE LifeStep
  <2>1. UNCHANGED <<daemonDone, cancelled>>
    BY <1>5 DEF Start, Answer, flagVars
  <2>2. Goto(x, "idle", "join") \/ Goto(x, "answer", "wait") \/ Goto(x, "answer", "iceCancel")
    BY <1>5 DEF Start, Answer
  <2>3. CASE Goto(x, "answer", "iceCancel")
    <3>1. Life!End(x)
      BY <2>1, <2>3, SeenMoves, SeenValues DEF Life!End, Life!Moves
    <3> QED BY <3>1 DEF LifeStep, Life!Next
  <2>4. CASE Goto(x, "idle", "join")
    <3>1. Seen("idle") = Seen("join")
      BY DEF Seen
    <3> QED BY <2>1, <2>4, <3>1, SeenSame DEF LifeStep
  <2>5. CASE Goto(x, "answer", "wait")
    <3>1. Seen("answer") = Seen("wait")
      BY DEF Seen
    <3> QED BY <2>1, <2>5, <3>1, SeenSame DEF LifeStep
  <2> QED BY <2>2, <2>3, <2>4, <2>5
<1> QED BY <1>2, <1>3, <1>4, <1>5, MainLives DEF SessionNext, SessionStep

\* The session of viewer.go is one the broadcaster can rely on: it joins once
\* and, however it ends, leaves the topic before it closes its frame channel,
\* and closes the channel before it cancels, each once.
THEOREM SessionImplementsLife == SessionSpec => ImplementsSessionLife
<1>1. SessionInit => Life!Init
  BY DEF SessionInit, Life!Init, Seen
<1>2. SessionInv /\ [SessionNext]_sessionVars => [Life!Next]_Life!vars
  BY SessionLives DEF LifeStep, Life!vars
<1> QED
  BY <1>1, <1>2, SessionSafe, PTL DEF SessionSpec, ImplementsSessionLife, Life!Spec

-----------------------------------------------------------------------------
(* What the encoder relies on in the session that owns it.                  *)

\* A pipeline whose NewH264Encoder failed has no feeder and owns nothing.
OwnerState(place, feeding) ==
  CASE feeding = "none" -> "none"
    [] feeding # "none" /\ place = "join" -> "joining"
    [] feeding # "none" /\ place = "close" -> "closing"
    [] feeding # "none" /\ place = "returned" -> "closed"
    [] feeding # "none" /\ place \notin {"join", "close", "returned"} -> "streaming"

\* To the encoder a feeder that is jammed is as busy as before.
FeederState(feeding) == IF feeding \in {"writing", "jammed"} THEN "busy" ELSE feeding

FeedersNow == [x \in Sessions |-> FeederState(feeder[x])]
OwnersNow == [x \in Sessions |-> OwnerState(pipe[x], feeder[x])]
OversNow == {x \in Sessions : CtxDone(x) \/ FrameChClosed(x)}

Use == INSTANCE EncoderUse WITH
  Encoders <- Sessions, feeder <- FeedersNow, owner <- OwnersNow, over <- OversNow

ImplementsEncoderUse == Use!Spec

UseStep == Use!Next \/ UNCHANGED <<FeedersNow, OwnersNow, OversNow>>

\* What is in the loop of the pipeline is streaming.
LEMMA OwnerValues ==
  ASSUME NEW f, f # "none"
  PROVE  /\ OwnerState("join", f) = "joining"
         /\ OwnerState("close", f) = "closing"
         /\ OwnerState("returned", f) = "closed"
         /\ \A p \in {"start", "iceWait", "check", "read", "write"} : OwnerState(p, f) = "streaming"
  BY DEF OwnerState

\* A step of one pipeline, with its feeder where it was.
LEMMA OwnerMoves ==
  ASSUME SessionTypeOK, NEW x \in Sessions, NEW from, NEW to, PipeGoto(x, from, to), feeder' = feeder
  PROVE  /\ OwnersNow[x] = OwnerState(from, feeder[x])
         /\ OwnersNow' = [OwnersNow EXCEPT ![x] = OwnerState(to, feeder[x])]
  BY DEF OwnersNow, PipeGoto, SessionTypeOK

LEMMA OwnerSame ==
  ASSUME SessionTypeOK, NEW x \in Sessions, NEW from, NEW to, PipeGoto(x, from, to), feeder' = feeder,
         OwnerState(from, feeder[x]) = OwnerState(to, feeder[x])
  PROVE  OwnersNow' = OwnersNow
  BY DEF OwnersNow, PipeGoto, SessionTypeOK

\* A step of one feeder, with its pipeline where it was.
LEMMA FeederMoves ==
  ASSUME SessionTypeOK, NEW x \in Sessions, NEW from, NEW to, FeederGoto(x, from, to), pipe' = pipe,
         from # "none", to # "none"
  PROVE  /\ FeedersNow[x] = FeederState(from)
         /\ FeedersNow' = [FeedersNow EXCEPT ![x] = FeederState(to)]
         /\ OwnersNow' = OwnersNow
<1>1. /\ FeedersNow[x] = FeederState(from)
      /\ FeedersNow' = [FeedersNow EXCEPT ![x] = FeederState(to)]
  BY DEF FeedersNow, FeederGoto, SessionTypeOK
<1>2. ASSUME NEW y \in Sessions PROVE OwnerState(pipe[y], feeder[y])' = OwnerState(pipe[y], feeder[y])
  BY DEF OwnerState, FeederGoto, SessionTypeOK
<1> QED BY <1>1, <1>2 DEF OwnersNow

\* What is over stays over, whoever moves.
LEMMA OversGrow ==
  ASSUME SessionInv, [SessionNext]_sessionVars
  PROVE  OversNow \subseteq OversNow'
  BY OverStays DEF OversNow, Over

LEMMA OversSame ==
  ASSUME UNCHANGED <<daemonDone, main, cancelled>>
  PROVE  OversNow' = OversNow
  BY DEF OversNow, CtxDone, FrameChClosed

LEMMA EncoderMade ==
  ASSUME SessionInv, NEW x \in Sessions, NewEncoder(x)
  PROVE  UseStep
<1> USE DEF SessionInv
<1>1. OversNow' = OversNow
  BY OversSame DEF NewEncoder, PipeUnchanged, flagVars
<1>2. pipe[x] = "start" /\ feeder[x] = "none"
  BY DEF NewEncoder, PipeGoto, FeederInv
<1>3. CASE PipeGoto(x, "start", "iceWait") /\ feeder' = [feeder EXCEPT ![x] = "ready"]
  <2>1. FeedersNow' = [FeedersNow EXCEPT ![x] = "ready"]
    BY <1>3 DEF FeedersNow, FeederState, SessionTypeOK
  <2>2. OwnersNow[x] = "none"
    BY <1>2 DEF OwnersNow, OwnerState
  <2>3. OwnersNow' = [OwnersNow EXCEPT ![x] = "streaming"]
    <3>1. OwnerState("iceWait", "ready") = "streaming"
      BY OwnerValues
    <3>2. pipe' = [pipe EXCEPT ![x] = "iceWait"]
      BY <1>3 DEF PipeGoto
    <3> QED BY <1>3, <3>1, <3>2 DEF OwnersNow, SessionTypeOK
  <2> QED BY <1>1, <2>1, <2>2, <2>3 DEF UseStep, Use!Next, Use!Create
<1>4. CASE PipeGoto(x, "start", "returned") /\ feeder' = feeder
  <2>1. OwnersNow' = OwnersNow
    <3>1. OwnerState("start", "none") = OwnerState("returned", "none")
      BY DEF OwnerState
    <3> QED BY <1>2, <1>4, <3>1, OwnerSame
  <2>2. FeedersNow' = FeedersNow
    BY <1>4 DEF FeedersNow
  <2> QED BY <1>1, <2>1, <2>2 DEF UseStep
<1> QED BY <1>3, <1>4 DEF NewEncoder

LEMMA PipeUses ==
  ASSUME SessionInv, NEW x \in Sessions,
         IceWait(x) \/ StreamNal(x) \/ JoinFeeder(x) \/ CloseEncoder(x)
  PROVE  UseStep
<1> DEFINE Loop == {"start", "iceWait", "check", "read", "write"}
<1>0. SessionTypeOK
  BY DEF SessionInv
<1>1. OversNow' = OversNow
  BY OversSame DEF IceWait, StreamNal, JoinFeeder, CloseEncoder, PipeUnchanged, flagVars
<1>2. feeder' = feeder /\ FeedersNow' = FeedersNow
  BY DEF FeedersNow, IceWait, StreamNal, JoinFeeder, CloseEncoder
<1>3. ASSUME feeder[x] = "none", NEW from, NEW to, PipeGoto(x, from, to) PROVE UseStep
  <2>1. OwnerState(from, "none") = OwnerState(to, "none")
    BY DEF OwnerState
  <2> QED BY <1>0, <1>1, <1>2, <1>3, <2>1, OwnerSame DEF UseStep
<1>4. ASSUME feeder[x] # "none", NEW from \in Loop, NEW to \in Loop, PipeGoto(x, from, to) PROVE UseStep
  <2>1. OwnerState(from, feeder[x]) = OwnerState(to, feeder[x])
    BY <1>4, OwnerValues
  <2> QED BY <1>0, <1>1, <1>2, <1>4, <2>1, OwnerSame DEF UseStep
<1>5. ASSUME feeder[x] # "none", NEW from \in Loop, PipeGoto(x, from, "join") PROVE UseStep
  <2>1. OwnersNow[x] = "streaming" /\ OwnersNow' = [OwnersNow EXCEPT ![x] = "joining"]
    BY <1>0, <1>2, <1>5, OwnerMoves, OwnerValues
  <2>2. Use!StreamEnds(x)
    BY <1>1, <1>2, <2>1 DEF Use!StreamEnds, Use!Owns
  <2> QED BY <2>2 DEF UseStep, Use!Next
<1>6. ASSUME feeder[x] # "none", JoinFeeder(x) PROVE UseStep
  <2>1. OwnersNow[x] = "joining" /\ OwnersNow' = [OwnersNow EXCEPT ![x] = "closing"]
    BY <1>0, <1>2, <1>6, OwnerMoves, OwnerValues DEF JoinFeeder
  <2>2. FeedersNow[x] = "stopped"
    BY <1>6 DEF JoinFeeder, FeederJoined, FeedersNow, FeederState
  <2>3. Use!Close(x)
    BY <1>1, <1>2, <2>1, <2>2 DEF Use!Close, Use!Owns
  <2> QED BY <2>3 DEF UseStep, Use!Next
<1>7. ASSUME feeder[x] # "none", CloseEncoder(x) PROVE UseStep
  <2>1. OwnersNow[x] = "closing" /\ OwnersNow' = [OwnersNow EXCEPT ![x] = "closed"]
    BY <1>0, <1>2, <1>7, OwnerMoves, OwnerValues DEF CloseEncoder
  <2>2. Use!Closed(x)
    BY <1>1, <1>2, <2>1 DEF Use!Closed, Use!Owns
  <2> QED BY <2>2 DEF UseStep, Use!Next
<1>8. ASSUME feeder[x] # "none", IceWait(x) \/ StreamNal(x) PROVE UseStep
  BY <1>4, <1>5, <1>8 DEF IceWait, StreamNal
<1>9. ASSUME IceWait(x) \/ StreamNal(x) \/ JoinFeeder(x) \/ CloseEncoder(x)
      PROVE  \E from, to : PipeGoto(x, from, to)
  BY <1>9 DEF IceWait, StreamNal, JoinFeeder, CloseEncoder
<1> QED BY <1>3, <1>6, <1>7, <1>8, <1>9

LEMMA FeederUses ==
  ASSUME SessionInv, NEW x \in Sessions, Feed(x) \/ FeederJams(x) \/ FeederStop(x)
  PROVE  UseStep
<1>0. SessionTypeOK
  BY DEF SessionInv
<1>1. OversNow' = OversNow /\ pipe' = pipe
  BY OversSame DEF Feed, FeederJams, FeederStop, PipeUnchanged, flagVars
<1>2. /\ FeederState("ready") = "ready" /\ FeederState("stopped") = "stopped"
      /\ FeederState("writing") = "busy" /\ FeederState("jammed") = "busy"
  BY DEF FeederState
<1>3. CASE FeederGoto(x, "ready", "writing")
  <2>1. Use!Offer(x)
    BY <1>0, <1>1, <1>2, <1>3, FeederMoves DEF Use!Offer, Use!Feeds
  <2> QED BY <2>1 DEF UseStep, Use!Next
<1>4. CASE FeederGoto(x, "writing", "ready")
  <2>1. Use!Return(x)
    BY <1>0, <1>1, <1>2, <1>4, FeederMoves DEF Use!Return, Use!Feeds
  <2> QED BY <2>1 DEF UseStep, Use!Next
<1>5. CASE FeederStop(x)
  <2>1. x \in OversNow
    BY <1>5 DEF FeederStop, FeederEnds, OversNow
  <2>2. FeederGoto(x, "ready", "stopped")
    BY <1>5 DEF FeederStop
  <2>3. Use!Stop(x)
    BY <1>0, <1>1, <1>2, <2>1, <2>2, FeederMoves DEF Use!Stop, Use!Feeds
  <2> QED BY <2>3 DEF UseStep, Use!Next
<1>6. CASE FeederJams(x)
  <2>1. FeederGoto(x, "writing", "jammed")
    BY <1>6 DEF FeederJams
  <2>2. FeedersNow' = FeedersNow /\ OwnersNow' = OwnersNow
    <3>1. /\ FeedersNow[x] = "busy" /\ FeedersNow' = [FeedersNow EXCEPT ![x] = "busy"]
          /\ OwnersNow' = OwnersNow
      BY <1>0, <1>1, <1>2, <2>1, FeederMoves
    <3>2. FeedersNow = [FeedersNow EXCEPT ![x] = FeedersNow[x]]
      BY DEF FeedersNow
    <3> QED BY <3>1, <3>2
  <2> QED BY <1>1, <2>2 DEF UseStep
<1> QED BY <1>3, <1>4, <1>5, <1>6 DEF Feed

\* main's steps reach the encoder through the contexts and the channel only.
LEMMA MainUses ==
  ASSUME SessionInv, [SessionNext]_sessionVars, feeder' = feeder,
         \/ pipe' = pipe
         \/ \E x \in Sessions : AddTrack(x)
  PROVE  UseStep
<1>1. FeedersNow' = FeedersNow
  BY DEF FeedersNow
<1>2. OwnersNow' = OwnersNow
  <2>1. CASE pipe' = pipe
    BY <2>1 DEF OwnersNow
  <2>2. ASSUME NEW x \in Sessions, AddTrack(x), pipe' # pipe PROVE OwnersNow' = OwnersNow
    <3>1. pipe' = [pipe EXCEPT ![x] = "start"]
      BY <2>2 DEF AddTrack
    <3>2. feeder[x] = "none"
      <4>1. main[x] = "track"
        BY <2>2 DEF AddTrack, Goto
      <4>2. pipe[x] = "none"
        BY <4>1 DEF SessionInv, PipeInv, Released
      <4> QED BY <4>2 DEF SessionInv, FeederInv
    <3>3. OwnerState("start", "none") = OwnerState(pipe[x], "none")
      BY DEF OwnerState
    <3> QED BY <3>1, <3>2, <3>3 DEF OwnersNow, SessionInv, SessionTypeOK
  <2> QED BY <2>1, <2>2
<1>3. Use!SessionsEnd
  BY <1>1, <1>2, OversGrow DEF Use!SessionsEnd
<1> QED BY <1>3 DEF UseStep, Use!Next

LEMMA SessionUses == SessionInv /\ [SessionNext]_sessionVars => UseStep
<1> SUFFICES ASSUME SessionInv, [SessionNext]_sessionVars PROVE UseStep
  OBVIOUS
<1>1. CASE UNCHANGED sessionVars \/ Shutdown
  <2>1. feeder' = feeder /\ pipe' = pipe
    BY <1>1 DEF Shutdown, sessionVars, procVars
  <2> QED BY <2>1, MainUses
<1>2. ASSUME NEW x \in Sessions,
             \/ MainStep(x) \/ Start(x) \/ \E ok \in BOOLEAN : Answer(x, ok)
             \/ FfmpegEnds(x) \/ IceConnected(x) \/ PeerCloses(x)
      PROVE  UseStep
  <2>1. feeder' = feeder
    BY <1>2 DEF MainStep, Join, CreatePeer, AddTrack, Describe, Gather, Wait, Leave, Start, Answer,
                FfmpegEnds, IceConnected, PeerCloses, procVars
  <2>2. pipe' = pipe \/ AddTrack(x)
    BY <1>2 DEF MainStep, Join, CreatePeer, Describe, Gather, Wait, Leave, Start, Answer,
                FfmpegEnds, IceConnected, PeerCloses, procVars
  <2> QED BY <2>1, <2>2, MainUses
<1> QED
  BY <1>1, <1>2, EncoderMade, PipeUses, FeederUses DEF SessionNext, SessionStep, PipeStep

\* The pipeline of viewer.go uses its encoder as the encoder expects: one
\* feeder that stops only with the session, and a Close that waits for it.
THEOREM SessionImplementsUse == SessionSpec => ImplementsEncoderUse
<1>1. SessionInit => Use!Init
  BY DEF SessionInit, Use!Init, FeedersNow, OwnersNow, OversNow, FeederState, OwnerState, CtxDone,
         FrameChClosed
<1>2. SessionInv /\ [SessionNext]_sessionVars => [Use!Next]_Use!vars
  BY SessionUses DEF UseStep, Use!vars
<1> QED
  BY <1>1, <1>2, SessionSafe, PTL DEF SessionSpec, ImplementsEncoderUse, Use!Spec
=============================================================================
