-------------------------- MODULE TopicBroadcaster --------------------------
(***************************************************************************)
(* internal/webrtc/topic_broadcaster.go, with the camera subscriber of     *)
(* topic_subscriber.go and the part of a WebRTC session (viewer.go) that   *)
(* joins and leaves a topic.                                               *)
(*                                                                         *)
(* The first session of a topic starts a STREAM: a ROS subscriber and a    *)
(* fan-out loop, joined by the channel frameCh, under a context derived    *)
(* from that session's context.  Later sessions only add their channel to  *)
(* viewers[topic].  The stream is named after the session that started it: *)
(* a topic has a new stream each time it goes from no viewer to one.       *)
(*                                                                         *)
(* Goroutines: one per session, and per stream the subscriber and the      *)
(* fan-out loop.  b.mu is a sync.RWMutex: its critical        *)
(* sections under Lock (AddViewer, RemoveViewer) are single steps, the one *)
(* under RLock (the fan-out's sends) is a state, fan[s].pc = "sending".    *)
(* The order of the viewers slice is not observable: viewers are sets.  A  *)
(* session's channel is FIFO and its frames are opaque to the session, so  *)
(* it is a count; what went into it is kept in the history newest.         *)
(***************************************************************************)
EXTENDS Integers, Sequences

CONSTANTS
  Viewers,    \* the sessions, one per SDP offer
  Topics,     \* the camera topics
  TopicOf,    \* the topic that each offer names
  NoViewer,   \* no stream
  ChanCap,    \* capacity of frameCh and of a session's channel (64 in the code)
  MaxFrames   \* bound: frames published per topic

ASSUME BroadcasterAssumption ==
  /\ TopicOf \in [Viewers -> Topics]
  /\ NoViewer \notin Viewers
  /\ ChanCap \in Nat \ {0}
  /\ MaxFrames \in Nat

VARIABLES
  session,      \* per session: where its goroutine is
  ended,        \* the sessions whose own context is cancelled
  daemonDone,   \* the daemon's context is cancelled
  topics,       \* b.topics: per topic, the stream whose frameCh it holds, or NoViewer
  viewers,      \* b.viewers: per topic, the sessions whose channels it holds
  cancelFn,     \* b.cancel: per topic, the stream whose cancel function it holds
  subCancelled, \* the streams whose cancel function was called
  sub,          \* per stream: its subscriber
  frameCh,      \* per stream: the frames between subscriber and fan-out
  fan,          \* per stream: its fan-out loop
  queued,       \* per session: how many frames wait in its channel
  newest,       \* history, per session and stream: the last frame put in the channel
  published     \* per topic: how many frames the camera published

sessionVars == <<session, ended, daemonDone>>
registryVars == <<topics, viewers, cancelFn, subCancelled>>
outVars == <<queued, newest>>
vars == <<sessionVars, registryVars, sub, frameCh, fan, outVars, published>>

\* The subscriber: its place, and the last frame it took.
SubState ==
  [pc : {"none", "starting", "waiting", "callback", "exited"}, seen : 0 .. MaxFrames]

\* The fan-out: its place, its frame, and the viewers it has still to serve.
FanState ==
  [pc : {"none", "select", "locking", "sending", "exited"},
   frame : 0 .. MaxFrames, todo : SUBSET Viewers]

TypeOK ==
  /\ session \in [Viewers -> {"idle", "watching", "leaving", "removed", "closed", "done"}]
  /\ ended \subseteq Viewers
  /\ daemonDone \in BOOLEAN
  /\ topics \in [Topics -> Viewers \cup {NoViewer}]
  /\ viewers \in [Topics -> SUBSET Viewers]
  /\ cancelFn \in [Topics -> Viewers \cup {NoViewer}]
  /\ subCancelled \subseteq Viewers
  /\ sub \in [Viewers -> SubState]
  /\ frameCh \in [Viewers -> Seq(0 .. MaxFrames)]
  /\ \A s \in Viewers : Len(frameCh[s]) <= ChanCap
  /\ fan \in [Viewers -> FanState]
  /\ queued \in [Viewers -> 0 .. ChanCap]
  /\ newest \in [Viewers -> [Viewers -> 0 .. MaxFrames]]
  /\ published \in [Topics -> 0 .. MaxFrames]

Init ==
  /\ session = [v \in Viewers |-> "idle"]
  /\ ended = {}
  /\ daemonDone = FALSE
  /\ topics = [t \in Topics |-> NoViewer]
  /\ viewers = [t \in Topics |-> {}]
  /\ cancelFn = [t \in Topics |-> NoViewer]
  /\ subCancelled = {}
  /\ sub = [s \in Viewers |-> [pc |-> "none", seen |-> 0]]
  /\ frameCh = [s \in Viewers |-> <<>>]
  /\ fan = [s \in Viewers |-> [pc |-> "none", frame |-> 0, todo |-> {}]]
  /\ queued = [v \in Viewers |-> 0]
  /\ newest = [v \in Viewers |-> [s \in Viewers |-> 0]]
  /\ published = [t \in Topics |-> 0]

-----------------------------------------------------------------------------
(* Contexts, the lock, the channels.                                        *)

\* A session's context is a child of the daemon's.
CtxDone(v) == daemonDone \/ v \in ended

\* A stream's context is a child of the context of the session that started it.
SubDone(s) == CtxDone(s) \/ s \in subCancelled

\* Bug: the viewers are copied under RLock and served after RUnlock.
ReadLockedOnlyForCopy == FALSE

\* Some fan-out holds b.mu.RLock(), so Lock() blocks.
ReadLocked == \E s \in Viewers : fan[s].pc = "sending"

\* close(frameCh) has been called on the session's channel.
OutClosed(v) == session[v] \in {"closed", "done"}

\* The session is between AddViewer and RemoveViewer.
Registered(v) == session[v] \in {"watching", "leaving"}

\* The session's channel has a free slot.
HasRoom(v) == queued[v] < ChanCap

\* Bug: the send to a viewer blocks until there is room.
LosesFrameNever(v) == FALSE

\* The fan-out's select takes its default branch: the frame is lost for v.
LosesFrame(v) == ~HasRoom(v)

\* Bug: the last message may be taken again.
UnseenOrLast(s) == (sub[s].seen .. published[TopicOf[s]]) \ {0}

\* The frames that the subscription of stream s can still deliver.
Unseen(s) == (sub[s].seen + 1) .. published[TopicOf[s]]

\* The viewers that the fan-out of stream s reads under RLock: by topic, not by
\* stream, and the stream may have been cancelled and its topic restarted.
FanTargets(s) == viewers[TopicOf[s]]

\* Bug: len(lst) <= 1.
StopsStreamEarly(rest) == \A v, w \in rest : v = w

\* RemoveViewer leaves this list behind: does it stop the stream?
StopsStream(rest) == rest = {}

\* Bug: the topic is deleted and cancel() is not called.
StoppedNone(t) == {}

\* The stream whose cancel function RemoveViewer finds under topic t.
Stopped(t) == {cancelFn[t]} \ {NoViewer}

-----------------------------------------------------------------------------
(* The session: AddViewer on entry; on the way out the deferred calls, in   *)
(* order RemoveViewer, close(frameCh), cancel().                            *)

AddViewer(v) ==
  LET t == TopicOf[v] IN
  /\ session[v] = "idle"
  /\ ~ReadLocked
  /\ session' = [session EXCEPT ![v] = "watching"]
  /\ viewers' = [viewers EXCEPT ![t] = @ \cup {v}]
  /\ \/ /\ topics[t] # NoViewer
        /\ UNCHANGED <<topics, cancelFn, sub, fan>>
     \/ /\ topics[t] = NoViewer
        /\ topics' = [topics EXCEPT ![t] = v]
        /\ cancelFn' = [cancelFn EXCEPT ![t] = v]
        /\ sub' = [sub EXCEPT ![v].pc = "starting"]
        /\ fan' = [fan EXCEPT ![v].pc = "select"]
  /\ UNCHANGED <<ended, daemonDone, subCancelled, frameCh, outVars, published>>

\* The peer closed, or the context is done: cancel() is called before returning.
EndWithCancel(v) ==
  /\ session[v] = "watching"
  /\ session' = [session EXCEPT ![v] = "leaving"]
  /\ ended' = ended \cup {v}
  /\ UNCHANGED <<daemonDone, registryVars, sub, frameCh, fan, outVars, published>>

\* An early error return, a recovered panic, or the pipeline is done.
EndWithoutCancel(v) ==
  /\ session[v] = "watching"
  /\ session' = [session EXCEPT ![v] = "leaving"]
  /\ UNCHANGED <<ended, daemonDone, registryVars, sub, frameCh, fan, outVars, published>>

RemoveViewer(v) ==
  LET t == TopicOf[v]
      rest == viewers[t] \ {v}
  IN
  /\ session[v] = "leaving"
  /\ ~ReadLocked
  /\ session' = [session EXCEPT ![v] = "removed"]
  /\ viewers' = [viewers EXCEPT ![t] = rest]
  /\ IF StopsStream(rest)
       THEN /\ subCancelled' = subCancelled \cup Stopped(t)
            /\ cancelFn' = [cancelFn EXCEPT ![t] = NoViewer]
            /\ topics' = [topics EXCEPT ![t] = NoViewer]
       ELSE UNCHANGED <<topics, cancelFn, subCancelled>>
  /\ UNCHANGED <<ended, daemonDone, sub, frameCh, fan, outVars, published>>

CloseFrameCh(v) ==
  /\ session[v] = "removed"
  /\ session' = [session EXCEPT ![v] = "closed"]
  /\ UNCHANGED <<ended, daemonDone, registryVars, sub, frameCh, fan, outVars, published>>

CancelCtx(v) ==
  /\ session[v] = "closed"
  /\ session' = [session EXCEPT ![v] = "done"]
  /\ ended' = ended \cup {v}
  /\ UNCHANGED <<daemonDone, registryVars, sub, frameCh, fan, outVars, published>>

\* The session's feeder takes a frame; it may stop at any time, or block for
\* ever in the encoder, so no fairness is assumed of it.
Receive(v) ==
  /\ queued[v] > 0
  /\ queued' = [queued EXCEPT ![v] = @ - 1]
  /\ UNCHANGED <<sessionVars, registryVars, sub, frameCh, fan, newest, published>>

\* WebRTCDaemon.Close cancels the context all sessions derive from.
Shutdown ==
  /\ ~daemonDone
  /\ daemonDone' = TRUE
  /\ UNCHANGED <<session, ended, registryVars, sub, frameCh, fan, outVars, published>>

-----------------------------------------------------------------------------
(* The subscriber of stream s (newCameraSubscriber).                        *)

SubUnchanged == UNCHANGED <<sessionVars, registryVars, fan, outVars, published>>

\* newCameraSubscriber has returned: its variables are out of scope.
SubGone == [pc |-> "exited", seen |-> 0]

\* The topic is unknown, has an unsupported type, or a ROS call fails; the
\* error goes to "_": nobody learns that the stream has no source.
SubFail(s) ==
  /\ sub[s].pc \in {"starting", "waiting"}
  /\ sub' = [sub EXCEPT ![s] = SubGone]
  /\ UNCHANGED frameCh /\ SubUnchanged

\* The subscription exists from here on: earlier frames are not seen.
SubStart(s) ==
  /\ sub[s].pc = "starting"
  /\ sub' = [sub EXCEPT ![s].pc = "waiting", ![s].seen = published[TopicOf[s]]]
  /\ UNCHANGED frameCh /\ SubUnchanged

\* ws.Run takes a message (ROS may have dropped older ones) and calls the
\* callback, which gives up when the context is done, when the enable loop has
\* not yet stored its flag (so the flag needs no variable of its own) and when
\* the image cannot be encoded.
TakeMessage(s) ==
  /\ sub[s].pc = "waiting"
  /\ \E f \in Unseen(s) :
     \/ sub' = [sub EXCEPT ![s].seen = f]
     \/ /\ ~SubDone(s)
        /\ sub' = [sub EXCEPT ![s].seen = f, ![s].pc = "callback"]
  /\ UNCHANGED frameCh /\ SubUnchanged

\* select { <-ctx.Done(): ; frameCh <- content: ; default: }
CallbackSend(s) ==
  /\ sub[s].pc = "callback"
  /\ sub' = [sub EXCEPT ![s].pc = "waiting"]
  /\ \/ /\ Len(frameCh[s]) < ChanCap
        /\ frameCh' = [frameCh EXCEPT ![s] = Append(@, sub[s].seen)]
     \/ /\ SubDone(s) \/ Len(frameCh[s]) = ChanCap
        /\ UNCHANGED frameCh
  /\ SubUnchanged

\* ws.Run(ctx) returns when the context is done.
SubStop(s) ==
  /\ sub[s].pc = "waiting"
  /\ SubDone(s)
  /\ sub' = [sub EXCEPT ![s] = SubGone]
  /\ UNCHANGED frameCh /\ SubUnchanged

-----------------------------------------------------------------------------
(* The fan-out loop of stream s.                                            *)

FanUnchanged == UNCHANGED <<sessionVars, registryVars, sub, published>>

\* When the context is done and a frame is waiting, Go's select may pick either.
FanStop(s) ==
  /\ fan[s].pc = "select"
  /\ SubDone(s)
  /\ fan' = [fan EXCEPT ![s].pc = "exited"]
  /\ UNCHANGED <<frameCh, outVars>> /\ FanUnchanged

FanTake(s) ==
  /\ fan[s].pc = "select"
  /\ frameCh[s] # <<>>
  /\ fan' = [fan EXCEPT ![s].pc = "locking", ![s].frame = Head(frameCh[s])]
  /\ frameCh' = [frameCh EXCEPT ![s] = Tail(@)]
  /\ UNCHANGED outVars /\ FanUnchanged

\* RLock, granted because no writer is inside its critical section.
FanLock(s) ==
  /\ fan[s].pc = "locking"
  /\ fan' = [fan EXCEPT ![s].pc = "sending", ![s].todo = FanTargets(s)]
  /\ UNCHANGED <<frameCh, outVars>> /\ FanUnchanged

\* select { case v <- frame: ; default: }
FanSend(s, v) ==
  /\ fan[s].pc = "sending"
  /\ v \in fan[s].todo
  /\ fan' = [fan EXCEPT ![s].todo = @ \ {v}]
  /\ \/ /\ HasRoom(v)
        /\ queued' = [queued EXCEPT ![v] = @ + 1]
        /\ newest' = [newest EXCEPT ![v][s] = fan[s].frame]
     \/ /\ LosesFrame(v)
        /\ UNCHANGED outVars
  /\ UNCHANGED frameCh /\ FanUnchanged

\* RUnlock; the frame variable goes out of scope.
FanUnlock(s) ==
  /\ fan[s].pc = "sending"
  /\ fan[s].todo = {}
  /\ fan' = [fan EXCEPT ![s].pc = "select", ![s].frame = 0]
  /\ UNCHANGED <<frameCh, outVars>> /\ FanUnchanged

-----------------------------------------------------------------------------
\* The camera publishes a frame on topic t.
Publish(t) ==
  /\ published[t] < MaxFrames
  /\ published' = [published EXCEPT ![t] = @ + 1]
  /\ UNCHANGED <<sessionVars, registryVars, sub, frameCh, fan, outVars>>

SessionNext(v) ==
  \/ AddViewer(v) \/ EndWithCancel(v) \/ EndWithoutCancel(v)
  \/ RemoveViewer(v) \/ CloseFrameCh(v) \/ CancelCtx(v) \/ Receive(v)

\* What the subscriber's goroutine does by itself; SubFail is left to chance.
SubNext(s) == SubStart(s) \/ TakeMessage(s) \/ CallbackSend(s) \/ SubStop(s)

FanNext(s) ==
  \/ FanStop(s) \/ FanTake(s) \/ FanLock(s) \/ FanUnlock(s)
  \/ \E v \in Viewers : FanSend(s, v)

Next ==
  \/ \E v \in Viewers : SessionNext(v)
  \/ \E s \in Viewers : SubFail(s) \/ SubNext(s) \/ FanNext(s)
  \/ \E t \in Topics : Publish(t)
  \/ Shutdown

Spec == Init /\ [][Next]_vars

\* Every goroutine that can run does; Lock() is granted although readers come
\* and go (sync.RWMutex admits no new reader while a writer waits).
Fairness ==
  /\ \A v \in Viewers : /\ SF_vars(RemoveViewer(v))
                        /\ WF_vars(CloseFrameCh(v))
                        /\ WF_vars(CancelCtx(v))
  /\ \A s \in Viewers : WF_vars(SubNext(s)) /\ WF_vars(FanNext(s))

FairSpec == Spec /\ Fairness

-----------------------------------------------------------------------------
(* Safety.                                                                  *)

\* No fan-out, of this stream or of an older one, is about to send on a
\* channel that its session has closed (a send on a closed channel panics and
\* takes the whole agent down): RemoveViewer under Lock, before
\* close(frameCh), must exclude it.
NoSendOnClosed ==
  \A s \in Viewers : fan[s].pc = "sending" => \A v \in fan[s].todo : ~OutClosed(v)

\* The three maps agree whenever the lock is free: a topic has a stream exactly
\* when it has viewers, its cancel function is that stream's, and its viewers
\* are sessions of that topic that have not removed themselves.
RegistryConsistent ==
  \A t \in Topics :
    /\ topics[t] = NoViewer <=> viewers[t] = {}
    /\ cancelFn[t] = topics[t]
    /\ viewers[t] = {v \in Viewers : TopicOf[v] = t /\ Registered(v)}

\* A stream that was started and whose context is not done is the registered
\* stream of its topic: a camera is never subscribed to twice, and no
\* subscriber is left behind that nobody can stop.
NoOrphanStream ==
  \A s \in Viewers : sub[s].pc # "none" /\ ~SubDone(s) => topics[TopicOf[s]] = s

\* The broadcaster implements the lossy fan-out: whatever the interleaving of
\* the streams of a topic, a session gets frames of its topic only, those of
\* one stream in order and once, and none after RemoveViewer.
FanOut == INSTANCE LossyFanOut WITH
  phase <- [v \in Viewers |->
              IF session[v] = "idle" THEN "out"
              ELSE IF Registered(v) THEN "in" ELSE "gone"]

ImplementsLossyFanOut == FanOut!Spec

\* A session that is watching, and whose own context is alive, is served by a
\* stream whose context is alive.
ViewerServed ==
  \A v \in Viewers :
    session[v] = "watching" /\ ~CtxDone(v) => ~SubDone(topics[TopicOf[v]])

-----------------------------------------------------------------------------
(* Liveness.                                                                *)

\* A session that has begun to leave gets through its deferred calls: the lock
\* is never held for good by a fan-out that waits for a viewer.
SessionsFinish == \A v \in Viewers : session[v] = "leaving" ~> session[v] = "done"

\* Once its context is done, both goroutines of a stream end: neither waits
\* for ever on a channel whose other end is gone.
StreamsDrain ==
  \A s \in Viewers :
    (sub[s].pc # "none" /\ SubDone(s)) ~> (sub[s].pc = "exited" /\ fan[s].pc = "exited")
=============================================================================
