----------------------- MODULE TopicBroadcasterProofs -----------------------
(***************************************************************************)
(* Safety of TopicBroadcaster for every set of sessions and topics and     *)
(* every capacity.                                                         *)
(***************************************************************************)
EXTENDS TopicBroadcaster, TLAPS

\* Updating the fields of a stream's records keeps their types.
LEMMA SubPc ==
  ASSUME NEW r \in SubState,
         NEW p \in {"none", "starting", "waiting", "callback", "exited"}
  PROVE  [r EXCEPT !.pc = p] \in SubState
  BY DEF SubState

LEMMA SubFields ==
  ASSUME NEW r \in SubState, NEW f \in 0 .. MaxFrames
  PROVE  /\ [r EXCEPT !.pc = "waiting", !.seen = f] \in SubState
         /\ [r EXCEPT !.seen = f] \in SubState
         /\ [r EXCEPT !.seen = f, !.pc = "callback"] \in SubState
  BY DEF SubState

LEMMA FanPc ==
  ASSUME NEW r \in FanState,
         NEW p \in {"none", "select", "locking", "sending", "exited"}
  PROVE  [r EXCEPT !.pc = p] \in FanState
  BY DEF FanState

LEMMA FanFrame ==
  ASSUME NEW r \in FanState, NEW f \in 0 .. MaxFrames,
         NEW p \in {"none", "select", "locking", "sending", "exited"}
  PROVE  [r EXCEPT !.pc = p, !.frame = f] \in FanState
  BY DEF FanState

LEMMA FanTodo ==
  ASSUME NEW r \in FanState, NEW T \in SUBSET Viewers,
         NEW p \in {"none", "select", "locking", "sending", "exited"}
  PROVE  /\ [r EXCEPT !.pc = p, !.todo = T] \in FanState
         /\ [r EXCEPT !.todo = T] \in FanState
  BY DEF FanState

\* The type invariant is inductive by itself.
LEMMA Typing == TypeOK /\ [Next]_vars => TypeOK'
<1> SUFFICES ASSUME TypeOK, [Next]_vars PROVE TypeOK'
  OBVIOUS
<1>0. /\ \A s \in Viewers : sub[s] \in SubState /\ fan[s] \in FanState
      /\ TopicOf \in [Viewers -> Topics]
      /\ MaxFrames \in Nat /\ ChanCap \in Nat \ {0}
  BY BroadcasterAssumption DEF TypeOK
<1>1. ASSUME NEW v \in Viewers, AddViewer(v) PROVE TypeOK'
  <2> DEFINE t == TopicOf[v]
  <2>1. t \in Topics
    BY <1>0
  <2>2. session' \in [Viewers -> {"idle", "watching", "leaving", "removed", "closed", "done"}]
    BY <1>1, <1>0, BroadcasterAssumption DEF TypeOK, AddViewer
  <2>3. viewers' \in [Topics -> SUBSET Viewers]
    BY <1>1, <2>1, <1>0, BroadcasterAssumption DEF TypeOK, AddViewer
  <2>4. /\ topics' \in [Topics -> Viewers \cup {NoViewer}]
        /\ cancelFn' \in [Topics -> Viewers \cup {NoViewer}]
    <3>1. /\ topics \in [Topics -> Viewers \cup {NoViewer}]
          /\ cancelFn \in [Topics -> Viewers \cup {NoViewer}]
      BY DEF TypeOK
    <3>2. CASE topics[t] # NoViewer
      BY <1>1, <3>1, <3>2 DEF AddViewer
    <3>3. CASE topics[t] = NoViewer
      <4>1. topics' = [topics EXCEPT ![t] = v] /\ cancelFn' = [cancelFn EXCEPT ![t] = v]
        BY <1>1, <3>3 DEF AddViewer
      <4> QED
        BY <4>1, <3>1, <2>1
    <3> QED
      BY <3>2, <3>3
  <2>5. sub' \in [Viewers -> SubState]
    <3>1. [sub[v] EXCEPT !.pc = "starting"] \in SubState
      BY <1>0, SubPc
    <3>2. sub \in [Viewers -> SubState]
      BY DEF TypeOK
    <3>3. sub' = sub \/ sub' = [sub EXCEPT ![v] = [sub[v] EXCEPT !.pc = "starting"]]
      BY <1>1, <3>2 DEF AddViewer
    <3> QED
      BY <3>1, <3>2, <3>3
  <2>6. fan' \in [Viewers -> FanState]
    <3>1. [fan[v] EXCEPT !.pc = "select"] \in FanState
      BY <1>0, FanPc
    <3>2. fan \in [Viewers -> FanState]
      BY DEF TypeOK
    <3>3. fan' = fan \/ fan' = [fan EXCEPT ![v] = [fan[v] EXCEPT !.pc = "select"]]
      BY <1>1, <3>2 DEF AddViewer
    <3> QED
      BY <3>1, <3>2, <3>3
  <2> QED
    BY <1>1, <2>2, <2>3, <2>4, <2>5, <2>6, <1>0, BroadcasterAssumption DEF TypeOK, AddViewer, outVars
<1>2. ASSUME NEW v \in Viewers, EndWithCancel(v) \/ EndWithoutCancel(v) PROVE TypeOK'
  BY <1>2, <1>0, BroadcasterAssumption DEF TypeOK, EndWithCancel, EndWithoutCancel, registryVars, outVars
<1>3. ASSUME NEW v \in Viewers, RemoveViewer(v) PROVE TypeOK'
  <2>1. session' \in [Viewers -> {"idle", "watching", "leaving", "removed", "closed", "done"}]
    BY <1>3, <1>0, BroadcasterAssumption DEF TypeOK, RemoveViewer
  <2>2. viewers' \in [Topics -> SUBSET Viewers]
    BY <1>3, <1>0, BroadcasterAssumption DEF TypeOK, RemoveViewer
  <2>3. /\ topics' \in [Topics -> Viewers \cup {NoViewer}]
        /\ cancelFn' \in [Topics -> Viewers \cup {NoViewer}]
    BY <1>3, <1>0, BroadcasterAssumption DEF TypeOK, RemoveViewer
  <2>4. subCancelled' \subseteq Viewers
    <3>1. Stopped(TopicOf[v]) \subseteq Viewers
      BY <1>0 DEF TypeOK, Stopped
    <3> QED
      BY <1>3, <3>1 DEF TypeOK, RemoveViewer
  <2> QED
    BY <1>3, <2>1, <2>2, <2>3, <2>4, <1>0, BroadcasterAssumption DEF TypeOK, RemoveViewer, outVars
<1>4. ASSUME NEW v \in Viewers, CloseFrameCh(v) \/ CancelCtx(v) PROVE TypeOK'
  BY <1>4, <1>0, BroadcasterAssumption DEF TypeOK, CloseFrameCh, CancelCtx, registryVars, outVars
<1>5. ASSUME NEW v \in Viewers, Receive(v) PROVE TypeOK'
  BY <1>5, <1>0, BroadcasterAssumption DEF TypeOK, Receive, sessionVars, registryVars
<1>6. CASE Shutdown
  BY <1>6, <1>0, BroadcasterAssumption DEF TypeOK, Shutdown, registryVars, outVars
<1>7. ASSUME NEW t \in Topics, Publish(t) PROVE TypeOK'
  BY <1>7, <1>0, BroadcasterAssumption DEF TypeOK, Publish, sessionVars, registryVars, outVars
<1>8. ASSUME NEW s \in Viewers, SubFail(s) \/ SubStop(s) PROVE TypeOK'
  <2>1. SubGone \in SubState
    BY <1>0 DEF SubGone, SubState
  <2>2. sub' \in [Viewers -> SubState]
    BY <1>8, <2>1 DEF TypeOK, SubFail, SubStop
  <2> QED
    BY <1>8, <2>2 DEF TypeOK, SubFail, SubStop, SubUnchanged, sessionVars, registryVars, outVars
<1>9. ASSUME NEW s \in Viewers, SubStart(s) PROVE TypeOK'
  <2>1. [sub[s] EXCEPT !.pc = "waiting", !.seen = published[TopicOf[s]]] \in SubState
    <3>1. published[TopicOf[s]] \in 0 .. MaxFrames
      BY <1>0 DEF TypeOK
    <3> QED
      BY <1>0, <3>1, SubFields
  <2>2. sub' \in [Viewers -> SubState]
    BY <1>9, <2>1, <1>0, BroadcasterAssumption DEF TypeOK, SubStart
  <2> QED
    BY <1>9, <2>2, <1>0, BroadcasterAssumption DEF TypeOK, SubStart, SubUnchanged, sessionVars, registryVars, outVars
<1>10. ASSUME NEW s \in Viewers, TakeMessage(s) PROVE TypeOK'
  <2>1. PICK f \in Unseen(s) : \/ sub' = [sub EXCEPT ![s].seen = f]
                              \/ sub' = [sub EXCEPT ![s].seen = f, ![s].pc = "callback"]
    BY <1>10, <1>0, BroadcasterAssumption DEF TypeOK, TakeMessage
  <2>2. f \in 0 .. MaxFrames
    <3>1. published[TopicOf[s]] \in 0 .. MaxFrames /\ sub[s].seen \in 0 .. MaxFrames
      BY <1>0 DEF TypeOK, SubState
    <3> QED
      BY <1>0, <3>1 DEF Unseen
  <2>3. /\ [sub[s] EXCEPT !.seen = f] \in SubState
        /\ [sub[s] EXCEPT !.seen = f, !.pc = "callback"] \in SubState
    BY <1>0, <2>2, SubFields
  <2>4. sub' \in [Viewers -> SubState]
    <3>1. sub \in [Viewers -> SubState]
      BY DEF TypeOK
    <3>2. \/ sub' = [sub EXCEPT ![s] = [sub[s] EXCEPT !.seen = f]]
          \/ sub' = [sub EXCEPT ![s] = [sub[s] EXCEPT !.seen = f, !.pc = "callback"]]
      BY <2>1, <3>1
    <3> QED
      BY <2>3, <3>1, <3>2
  <2> QED
    BY <1>10, <2>4, <1>0, BroadcasterAssumption DEF TypeOK, TakeMessage, SubUnchanged, sessionVars, registryVars, outVars
<1>11. ASSUME NEW s \in Viewers, CallbackSend(s) PROVE TypeOK'
  <2>1. [sub[s] EXCEPT !.pc = "waiting"] \in SubState
    BY <1>0, SubPc
  <2>2. sub' \in [Viewers -> SubState]
    BY <1>11, <2>1, <1>0, BroadcasterAssumption DEF TypeOK, CallbackSend
  <2>3. frameCh' \in [Viewers -> Seq(0 .. MaxFrames)] /\ \A u \in Viewers : Len(frameCh'[u]) <= ChanCap
    <3>1. /\ frameCh \in [Viewers -> Seq(0 .. MaxFrames)]
          /\ \A u \in Viewers : Len(frameCh[u]) <= ChanCap
      BY DEF TypeOK
    <3>2. sub[s].seen \in 0 .. MaxFrames
      BY <1>0 DEF SubState
    <3>3. CASE frameCh' = frameCh
      BY <3>1, <3>3
    <3>4. CASE Len(frameCh[s]) < ChanCap /\ frameCh' = [frameCh EXCEPT ![s] = Append(@, sub[s].seen)]
      <4>1. frameCh[s] \in Seq(0 .. MaxFrames)
        BY <3>1
      <4>2. /\ Append(frameCh[s], sub[s].seen) \in Seq(0 .. MaxFrames)
            /\ Len(Append(frameCh[s], sub[s].seen)) <= ChanCap
        BY <3>2, <3>4, <4>1, <1>0
      <4> QED
        BY <3>1, <3>4, <4>2
    <3> QED
      BY <1>11, <3>3, <3>4 DEF CallbackSend
  <2> QED
    BY <1>11, <2>2, <2>3, <1>0, BroadcasterAssumption DEF TypeOK, CallbackSend, SubUnchanged, sessionVars, registryVars, outVars
<1>12. ASSUME NEW s \in Viewers, FanTake(s) PROVE TypeOK'
  <2>1. /\ Head(frameCh[s]) \in 0 .. MaxFrames
        /\ Tail(frameCh[s]) \in Seq(0 .. MaxFrames)
        /\ Len(Tail(frameCh[s])) <= ChanCap
    BY <1>12, <1>0, BroadcasterAssumption DEF TypeOK, FanTake
  <2>2. [fan[s] EXCEPT !.pc = "locking", !.frame = Head(frameCh[s])] \in FanState
    BY <1>0, <2>1, FanFrame
  <2>3. fan' \in [Viewers -> FanState]
    BY <1>12, <2>2, <1>0, BroadcasterAssumption DEF TypeOK, FanTake
  <2>4. frameCh' \in [Viewers -> Seq(0 .. MaxFrames)] /\ \A u \in Viewers : Len(frameCh'[u]) <= ChanCap
    BY <1>12, <2>1, <1>0, BroadcasterAssumption DEF TypeOK, FanTake
  <2> QED
    BY <1>12, <2>3, <2>4, <1>0, BroadcasterAssumption DEF TypeOK, FanTake, FanUnchanged, sessionVars, registryVars, outVars
<1>13. ASSUME NEW s \in Viewers, FanStop(s) \/ FanLock(s) \/ FanUnlock(s) PROVE TypeOK'
  <2>1. /\ [fan[s] EXCEPT !.pc = "exited"] \in FanState
        /\ [fan[s] EXCEPT !.pc = "sending", !.todo = FanTargets(s)] \in FanState
        /\ [fan[s] EXCEPT !.pc = "select", !.frame = 0] \in FanState
    <3>1. FanTargets(s) \subseteq Viewers
      BY <1>0 DEF TypeOK, FanTargets
    <3>2. [fan[s] EXCEPT !.pc = "exited"] \in FanState
      BY <1>0, FanPc
    <3>3. [fan[s] EXCEPT !.pc = "sending", !.todo = FanTargets(s)] \in FanState
      BY <1>0, <3>1, FanTodo
    <3>4. 0 \in 0 .. MaxFrames
      BY <1>0
    <3>5. [fan[s] EXCEPT !.pc = "select", !.frame = 0] \in FanState
      BY <1>0, <3>4, FanFrame
    <3> QED
      BY <3>2, <3>3, <3>5
  <2>2. fan' \in [Viewers -> FanState]
    BY <1>13, <2>1, <1>0, BroadcasterAssumption DEF TypeOK, FanStop, FanLock, FanUnlock
  <2> QED
    BY <1>13, <2>2, <1>0, BroadcasterAssumption DEF TypeOK, FanStop, FanLock, FanUnlock, FanUnchanged, sessionVars, registryVars, outVars
<1>14. ASSUME NEW s \in Viewers, NEW v \in Viewers, FanSend(s, v) PROVE TypeOK'
  <2>1. [fan[s] EXCEPT !.todo = @ \ {v}] \in FanState
    <3>1. fan[s].todo \ {v} \in SUBSET Viewers
      BY <1>0 DEF FanState
    <3> QED
      BY <1>0, <3>1, FanTodo
  <2>2. fan' \in [Viewers -> FanState]
    BY <1>14, <2>1, <1>0, BroadcasterAssumption DEF TypeOK, FanSend
  <2>3. queued' \in [Viewers -> 0 .. ChanCap]
    <3>1. queued \in [Viewers -> 0 .. ChanCap]
      BY DEF TypeOK
    <3>2. queued' = queued \/ (queued[v] < ChanCap /\ queued' = [queued EXCEPT ![v] = @ + 1])
      BY <1>14 DEF FanSend, HasRoom, outVars
    <3> QED
      BY <3>1, <3>2, <1>0
  <2>4. newest' \in [Viewers -> [Viewers -> 0 .. MaxFrames]]
    <3>1. newest \in [Viewers -> [Viewers -> 0 .. MaxFrames]] /\ fan[s].frame \in 0 .. MaxFrames
      BY <1>0 DEF TypeOK, FanState
    <3>2. newest' = newest \/ newest' = [newest EXCEPT ![v] = [@ EXCEPT ![s] = fan[s].frame]]
      BY <1>14 DEF FanSend, outVars
    <3>3. [newest[v] EXCEPT ![s] = fan[s].frame] \in [Viewers -> 0 .. MaxFrames]
      BY <3>1
    <3> QED
      BY <3>1, <3>2, <3>3
  <2> QED
    BY <1>14, <2>2, <2>3, <2>4, <1>0, BroadcasterAssumption DEF TypeOK, FanSend, FanUnchanged, sessionVars, registryVars, outVars
<1>15. CASE UNCHANGED vars
  BY <1>15, <1>0, BroadcasterAssumption DEF TypeOK, vars, sessionVars, registryVars, outVars
<1> QED
  BY <1>1, <1>2, <1>3, <1>4, <1>5, <1>6, <1>7, <1>8, <1>9, <1>10, <1>11, <1>12, <1>13, <1>14, <1>15
     DEF Next, SessionNext, SubNext, FanNext

LEMMA TypeInit == Init => TypeOK
<1>1. /\ [pc |-> "none", seen |-> 0] \in SubState
      /\ [pc |-> "none", frame |-> 0, todo |-> {}] \in FanState
  BY BroadcasterAssumption DEF SubState, FanState
<1>2. <<>> \in Seq(0 .. MaxFrames) /\ Len(<<>>) <= ChanCap
  BY BroadcasterAssumption
<1>3. 0 \in 0 .. MaxFrames /\ 0 \in 0 .. ChanCap
  BY BroadcasterAssumption
<1> SUFFICES ASSUME Init PROVE TypeOK
  OBVIOUS
<1>4. sub \in [Viewers -> SubState] /\ fan \in [Viewers -> FanState]
  BY <1>1 DEF Init
<1>5. /\ frameCh \in [Viewers -> Seq(0 .. MaxFrames)]
      /\ \A s \in Viewers : Len(frameCh[s]) <= ChanCap
  BY <1>2 DEF Init
<1>6. /\ queued \in [Viewers -> 0 .. ChanCap]
      /\ newest \in [Viewers -> [Viewers -> 0 .. MaxFrames]]
      /\ published \in [Topics -> 0 .. MaxFrames]
  BY <1>3 DEF Init
<1> QED
  BY <1>4, <1>5, <1>6 DEF Init, TypeOK

\* Type correctness: every variable keeps its range, and neither a stream's
\* channel nor a session's ever holds more than ChanCap frames.
THEOREM TypeCorrect == Spec => []TypeOK
<1> QED
  BY TypeInit, Typing, PTL DEF Spec

-----------------------------------------------------------------------------
(* Safety of the registry and of the sends.                                 *)

\* The viewers a fan-out still has to serve under RLock are registered: the
\* lock keeps RemoveViewer out until the last of them is served.
LockedTargets ==
  \A s \in Viewers : fan[s].pc = "sending" => fan[s].todo \subseteq viewers[TopicOf[s]]

\* The inductive invariant.  NoSendOnClosed says nothing of the viewers that a
\* send under way relies on, so it is strengthened with LockedTargets (they are
\* registered) and RegistryConsistent (a registered session has not closed its
\* channel, which it does only after RemoveViewer).
SafetyInv == TypeOK /\ RegistryConsistent /\ NoOrphanStream /\ LockedTargets

LEMMA InitSafety == Init => SafetyInv
<1> SUFFICES ASSUME Init PROVE RegistryConsistent /\ NoOrphanStream /\ LockedTargets
  BY TypeInit DEF SafetyInv
<1>1. RegistryConsistent
  <2>1. \A v \in Viewers : ~Registered(v)
    BY DEF Init, Registered
  <2> QED
    BY <2>1 DEF Init, RegistryConsistent
<1>2. NoOrphanStream
  BY DEF Init, NoOrphanStream
<1>3. LockedTargets
  BY DEF Init, LockedTargets
<1> QED
  BY <1>1, <1>2, <1>3

\* Only the session's own steps touch a session or a map.
LEMMA RegistryStep ==
  ASSUME TypeOK, RegistryConsistent, [Next]_vars
  PROVE  RegistryConsistent'
<1>0. ASSUME UNCHANGED <<topics, viewers, cancelFn>>,
             \A w \in Viewers : Registered(w)' <=> Registered(w)
      PROVE  RegistryConsistent'
  BY <1>0 DEF RegistryConsistent
<1>1. CASE UNCHANGED <<session, topics, viewers, cancelFn>>
  BY <1>0, <1>1 DEF Registered
<1>2. ASSUME NEW v \in Viewers, EndWithCancel(v) \/ EndWithoutCancel(v) PROVE RegistryConsistent'
  BY <1>0, <1>2 DEF EndWithCancel, EndWithoutCancel, registryVars, Registered, TypeOK
<1>3. ASSUME NEW v \in Viewers, CloseFrameCh(v) \/ CancelCtx(v) PROVE RegistryConsistent'
  BY <1>0, <1>3 DEF CloseFrameCh, CancelCtx, registryVars, Registered, TypeOK
<1>4. ASSUME NEW v \in Viewers, AddViewer(v) PROVE RegistryConsistent'
  <2> SUFFICES ASSUME NEW t \in Topics
               PROVE  /\ topics'[t] = NoViewer <=> viewers'[t] = {}
                      /\ cancelFn'[t] = topics'[t]
                      /\ viewers'[t] = {w \in Viewers : TopicOf[w] = t /\ Registered(w)'}
    BY DEF RegistryConsistent
  <2>1. CASE t # TopicOf[v]
    <3>1. /\ topics'[t] = topics[t] /\ cancelFn'[t] = cancelFn[t]
          /\ viewers'[t] = viewers[t]
      BY <1>4, <2>1, BroadcasterAssumption DEF AddViewer, TypeOK
    <3>2. \A w \in Viewers : TopicOf[w] = t => (Registered(w)' <=> Registered(w))
      BY <1>4, <2>1 DEF AddViewer, Registered, TypeOK
    <3> QED
      BY <3>1, <3>2 DEF RegistryConsistent
  <2>2. CASE t = TopicOf[v]
    <3>1. viewers'[t] = viewers[t] \cup {v}
      BY <1>4, <2>2 DEF AddViewer, TypeOK
    <3>2. viewers'[t] = {w \in Viewers : TopicOf[w] = t /\ Registered(w)'}
      <4>1. Registered(v)'
        BY <1>4 DEF AddViewer, Registered, TypeOK
      <4>2. \A w \in Viewers \ {v} : Registered(w)' <=> Registered(w)
        BY <1>4 DEF AddViewer, Registered, TypeOK
      <4> QED
        BY <2>2, <3>1, <4>1, <4>2 DEF RegistryConsistent
    <3>3. topics'[t] # NoViewer /\ cancelFn'[t] = topics'[t]
      BY <1>4, <2>2, BroadcasterAssumption DEF AddViewer, RegistryConsistent, TypeOK
    <3> QED
      BY <3>1, <3>2, <3>3
  <2> QED
    BY <2>1, <2>2
<1>5. ASSUME NEW v \in Viewers, RemoveViewer(v) PROVE RegistryConsistent'
  <2> SUFFICES ASSUME NEW t \in Topics
               PROVE  /\ topics'[t] = NoViewer <=> viewers'[t] = {}
                      /\ cancelFn'[t] = topics'[t]
                      /\ viewers'[t] = {w \in Viewers : TopicOf[w] = t /\ Registered(w)'}
    BY DEF RegistryConsistent
  <2>1. CASE t # TopicOf[v]
    <3>1. /\ topics'[t] = topics[t] /\ cancelFn'[t] = cancelFn[t]
          /\ viewers'[t] = viewers[t]
      BY <1>5, <2>1, BroadcasterAssumption DEF RemoveViewer, TypeOK
    <3>2. \A w \in Viewers : TopicOf[w] = t => (Registered(w)' <=> Registered(w))
      BY <1>5, <2>1 DEF RemoveViewer, Registered, TypeOK
    <3> QED
      BY <3>1, <3>2 DEF RegistryConsistent
  <2>2. CASE t = TopicOf[v]
    <3>1. viewers'[t] = viewers[t] \ {v}
      BY <1>5, <2>2 DEF RemoveViewer, TypeOK
    <3>2. viewers'[t] = {w \in Viewers : TopicOf[w] = t /\ Registered(w)'}
      <4>1. ~Registered(v)'
        BY <1>5 DEF RemoveViewer, Registered, TypeOK
      <4>2. \A w \in Viewers \ {v} : Registered(w)' <=> Registered(w)
        BY <1>5 DEF RemoveViewer, Registered, TypeOK
      <4> QED
        BY <2>2, <3>1, <4>1, <4>2 DEF RegistryConsistent
    <3>3. v \in viewers[t]
      BY <1>5, <2>2 DEF RemoveViewer, Registered, RegistryConsistent
    <3>4. CASE viewers[t] \ {v} = {}
      BY <1>5, <2>2, <3>1, <3>2, <3>4 DEF RemoveViewer, StopsStream, RegistryConsistent, TypeOK
    <3>5. CASE viewers[t] \ {v} # {}
      BY <1>5, <2>2, <3>1, <3>2, <3>3, <3>5 DEF RemoveViewer, StopsStream, RegistryConsistent, TypeOK
    <3> QED
      BY <3>4, <3>5
  <2> QED
    BY <2>1, <2>2
<1>6. ASSUME NEW v \in Viewers, Receive(v) PROVE RegistryConsistent'
  BY <1>1, <1>6 DEF Receive, sessionVars, registryVars
<1>7. ASSUME NEW s \in Viewers, SubFail(s) \/ SubNext(s) PROVE RegistryConsistent'
  BY <1>1, <1>7 DEF SubFail, SubNext, SubStart, TakeMessage, CallbackSend, SubStop, SubUnchanged, sessionVars, registryVars
<1>8. ASSUME NEW s \in Viewers, FanNext(s) PROVE RegistryConsistent'
  BY <1>1, <1>8 DEF FanNext, FanStop, FanTake, FanLock, FanSend, FanUnlock, FanUnchanged, sessionVars, registryVars
<1>9. ASSUME NEW t \in Topics, Publish(t) PROVE RegistryConsistent'
  BY <1>1, <1>9 DEF Publish, sessionVars, registryVars
<1>10. CASE Shutdown
  BY <1>1, <1>10 DEF Shutdown, registryVars
<1>11. CASE UNCHANGED vars
  BY <1>1, <1>11 DEF vars, sessionVars, registryVars
<1> QED
  BY <1>2, <1>3, <1>4, <1>5, <1>6, <1>7, <1>8, <1>9, <1>10, <1>11 DEF Next, SessionNext

\* A stream loses its place in topics only in RemoveViewer, which cancels it.
LEMMA OrphanStep ==
  ASSUME TypeOK, RegistryConsistent, NoOrphanStream, [Next]_vars
  PROVE  NoOrphanStream'
<1>0. ASSUME UNCHANGED <<topics, subCancelled>>,
             ended \subseteq ended', daemonDone => daemonDone',
             \A s \in Viewers : sub'[s].pc # "none" => sub[s].pc # "none"
      PROVE  NoOrphanStream'
  BY <1>0 DEF NoOrphanStream, SubDone, CtxDone
<1>1. ASSUME NEW v \in Viewers, AddViewer(v) PROVE NoOrphanStream'
  <2> SUFFICES ASSUME NEW s \in Viewers, sub'[s].pc # "none", ~SubDone(s)'
               PROVE  topics'[TopicOf[s]] = s
    BY DEF NoOrphanStream
  <2>0. TopicOf[s] \in Topics /\ TopicOf[v] \in Topics /\ s # NoViewer
    BY BroadcasterAssumption
  <2>1. ~SubDone(s)
    BY <1>1 DEF AddViewer, SubDone, CtxDone
  <2>2. CASE topics[TopicOf[v]] # NoViewer
    BY <1>1, <2>1, <2>2 DEF AddViewer, NoOrphanStream
  <2>3. CASE topics[TopicOf[v]] = NoViewer
    <3>1. topics' = [topics EXCEPT ![TopicOf[v]] = v] /\ sub' = [sub EXCEPT ![v].pc = "starting"]
      BY <1>1, <2>3 DEF AddViewer
    <3>2. CASE s = v
      BY <2>0, <3>1, <3>2 DEF TypeOK
    <3>3. CASE s # v
      <4>1. sub[s].pc # "none"
        BY <3>1, <3>3 DEF TypeOK
      <4>2. topics[TopicOf[s]] = s
        BY <2>1, <4>1 DEF NoOrphanStream
      <4> QED
        BY <2>0, <2>3, <3>1, <4>2 DEF TypeOK
    <3> QED
      BY <3>2, <3>3
  <2> QED
    BY <2>2, <2>3
<1>2. ASSUME NEW v \in Viewers, RemoveViewer(v) PROVE NoOrphanStream'
  <2> SUFFICES ASSUME NEW s \in Viewers, sub'[s].pc # "none", ~SubDone(s)'
               PROVE  topics'[TopicOf[s]] = s
    BY DEF NoOrphanStream
  <2>0. TopicOf[s] \in Topics /\ TopicOf[v] \in Topics /\ s # NoViewer
    BY BroadcasterAssumption
  <2>1. subCancelled \subseteq subCancelled'
    BY <1>2 DEF RemoveViewer
  <2>2. topics[TopicOf[s]] = s
    BY <1>2, <2>1 DEF RemoveViewer, NoOrphanStream, SubDone, CtxDone
  <2>3. CASE topics' = topics
    BY <2>2, <2>3
  <2>4. CASE topics' # topics
    <3>1. /\ topics' = [topics EXCEPT ![TopicOf[v]] = NoViewer]
          /\ subCancelled' = subCancelled \cup Stopped(TopicOf[v])
      BY <1>2, <2>4 DEF RemoveViewer
    <3>2. CASE TopicOf[s] = TopicOf[v]
      <4>1. s \in Stopped(TopicOf[v])
        BY <2>0, <2>2, <3>2 DEF Stopped, RegistryConsistent
      <4> QED
        BY <3>1, <4>1 DEF SubDone
    <3>3. CASE TopicOf[s] # TopicOf[v]
      BY <2>0, <2>2, <3>1, <3>3 DEF TypeOK
    <3> QED
      BY <3>2, <3>3
  <2> QED
    BY <2>3, <2>4
<1>3. ASSUME NEW v \in Viewers, EndWithCancel(v) \/ EndWithoutCancel(v) \/ CloseFrameCh(v) \/ CancelCtx(v)
      PROVE NoOrphanStream'
  BY <1>0, <1>3 DEF EndWithCancel, EndWithoutCancel, CloseFrameCh, CancelCtx, registryVars
<1>4. ASSUME NEW v \in Viewers, Receive(v) PROVE NoOrphanStream'
  BY <1>0, <1>4 DEF Receive, sessionVars, registryVars
<1>5. ASSUME NEW s \in Viewers, SubFail(s) \/ SubNext(s) PROVE NoOrphanStream'
  <2>1. sub[s].pc # "none" /\ UNCHANGED <<sessionVars, registryVars>>
    BY <1>5 DEF SubFail, SubNext, SubStart, TakeMessage, CallbackSend, SubStop, SubUnchanged
  <2>2. \A u \in Viewers \ {s} : sub'[u] = sub[u]
    BY <1>5 DEF SubFail, SubNext, SubStart, TakeMessage, CallbackSend, SubStop, TypeOK
  <2> QED
    BY <1>0, <2>1, <2>2 DEF sessionVars, registryVars
<1>6. ASSUME NEW s \in Viewers, FanNext(s) PROVE NoOrphanStream'
  BY <1>0, <1>6 DEF FanNext, FanStop, FanTake, FanLock, FanSend, FanUnlock, FanUnchanged, sessionVars, registryVars
<1>7. ASSUME NEW t \in Topics, Publish(t) PROVE NoOrphanStream'
  BY <1>0, <1>7 DEF Publish, sessionVars, registryVars
<1>8. CASE Shutdown
  BY <1>0, <1>8 DEF Shutdown, registryVars
<1>9. CASE UNCHANGED vars
  BY <1>0, <1>9 DEF vars, sessionVars, registryVars
<1> QED
  BY <1>1, <1>2, <1>3, <1>4, <1>5, <1>6, <1>7, <1>8, <1>9 DEF Next, SessionNext

\* While a fan-out sends, viewers only shrink in RemoveViewer, which waits for
\* the lock.
LEMMA TargetsStep ==
  ASSUME TypeOK, LockedTargets, [Next]_vars
  PROVE  LockedTargets'
<1>0. ASSUME UNCHANGED <<viewers, fan>> PROVE LockedTargets'
  BY <1>0 DEF LockedTargets
<1>1. ASSUME NEW v \in Viewers, AddViewer(v) \/ RemoveViewer(v) PROVE LockedTargets'
  <2>1. \A s \in Viewers : fan[s].pc # "sending"
    BY <1>1 DEF AddViewer, RemoveViewer, ReadLocked
  <2>2. \A s \in Viewers : fan'[s].pc # "sending"
    <3>1. fan' = fan \/ fan' = [fan EXCEPT ![v].pc = "select"]
      BY <1>1 DEF AddViewer, RemoveViewer
    <3>2. \A s \in Viewers : fan'[s] = fan[s] \/ fan'[s] = [fan[s] EXCEPT !.pc = "select"]
      BY <3>1 DEF TypeOK
    <3>3. \A s \in Viewers : [fan[s] EXCEPT !.pc = "select"].pc = "select"
      BY DEF TypeOK, FanState
    <3> QED
      BY <2>1, <3>2, <3>3
  <2> QED
    BY <2>2 DEF LockedTargets
<1>2. ASSUME NEW v \in Viewers, EndWithCancel(v) \/ EndWithoutCancel(v) \/ CloseFrameCh(v) \/ CancelCtx(v)
      PROVE LockedTargets'
  BY <1>0, <1>2 DEF EndWithCancel, EndWithoutCancel, CloseFrameCh, CancelCtx, registryVars
<1>3. ASSUME NEW v \in Viewers, Receive(v) PROVE LockedTargets'
  BY <1>0, <1>3 DEF Receive, registryVars
<1>4. ASSUME NEW s \in Viewers, SubFail(s) \/ SubNext(s) PROVE LockedTargets'
  BY <1>0, <1>4 DEF SubFail, SubNext, SubStart, TakeMessage, CallbackSend, SubStop, SubUnchanged, registryVars
<1>5. ASSUME NEW s \in Viewers, FanStop(s) \/ FanTake(s) \/ FanUnlock(s) PROVE LockedTargets'
  <2>1. viewers' = viewers /\ \A u \in Viewers \ {s} : fan'[u] = fan[u]
    BY <1>5 DEF FanStop, FanTake, FanUnlock, FanUnchanged, registryVars, TypeOK
  <2>2. fan'[s].pc # "sending"
    BY <1>5 DEF FanStop, FanTake, FanUnlock, TypeOK, FanState
  <2> QED
    BY <2>1, <2>2 DEF LockedTargets
<1>6. ASSUME NEW s \in Viewers, FanLock(s) PROVE LockedTargets'
  <2>1. viewers' = viewers /\ \A u \in Viewers \ {s} : fan'[u] = fan[u]
    BY <1>6 DEF FanLock, FanUnchanged, registryVars, TypeOK
  <2>2. fan'[s].todo = viewers[TopicOf[s]]
    BY <1>6 DEF FanLock, FanTargets, TypeOK, FanState
  <2> QED
    BY <2>1, <2>2 DEF LockedTargets
<1>7. ASSUME NEW s \in Viewers, NEW v \in Viewers, FanSend(s, v) PROVE LockedTargets'
  <2>1. viewers' = viewers /\ \A u \in Viewers \ {s} : fan'[u] = fan[u]
    BY <1>7 DEF FanSend, FanUnchanged, registryVars, TypeOK
  <2>2. fan[s].pc = "sending" /\ fan'[s].todo \subseteq fan[s].todo
    BY <1>7 DEF FanSend, TypeOK, FanState
  <2> QED
    BY <2>1, <2>2 DEF LockedTargets
<1>8. ASSUME NEW t \in Topics, Publish(t) PROVE LockedTargets'
  BY <1>0, <1>8 DEF Publish, registryVars
<1>9. CASE Shutdown
  BY <1>0, <1>9 DEF Shutdown, registryVars
<1>10. CASE UNCHANGED vars
  BY <1>0, <1>10 DEF vars, registryVars
<1> QED
  BY <1>1, <1>2, <1>3, <1>4, <1>5, <1>6, <1>7, <1>8, <1>9, <1>10 DEF Next, SessionNext, FanNext

LEMMA SafetyInductive == Spec => []SafetyInv
<1>1. SafetyInv /\ [Next]_vars => SafetyInv'
  BY Typing, RegistryStep, OrphanStep, TargetsStep DEF SafetyInv
<1> QED
  BY InitSafety, <1>1, PTL DEF Spec

\* The broadcaster's three maps agree, and a topic's viewers are exactly the
\* sessions between AddViewer and RemoveViewer.
THEOREM RegistrySafe == Spec => []RegistryConsistent
<1>1. SafetyInv => RegistryConsistent
  BY DEF SafetyInv
<1> QED
  BY SafetyInductive, <1>1, PTL

\* A stream whose context is alive is the one its topic is registered with.
THEOREM NoOrphan == Spec => []NoOrphanStream
<1>1. SafetyInv => NoOrphanStream
  BY DEF SafetyInv
<1> QED
  BY SafetyInductive, <1>1, PTL

\* No fan-out ever sends on a session channel that has been closed.
THEOREM SendSafe == Spec => []NoSendOnClosed
<1>1. SafetyInv => NoSendOnClosed
  <2> SUFFICES ASSUME SafetyInv, NEW s \in Viewers, fan[s].pc = "sending", NEW v \in fan[s].todo
               PROVE  ~OutClosed(v)
    BY DEF NoSendOnClosed
  <2>1. v \in viewers[TopicOf[s]] /\ TopicOf[s] \in Topics
    BY BroadcasterAssumption DEF SafetyInv, LockedTargets
  <2>2. Registered(v)
    BY <2>1 DEF SafetyInv, RegistryConsistent
  <2> QED
    BY <2>2 DEF Registered, OutClosed
<1> QED
  BY SafetyInductive, <1>1, PTL

-----------------------------------------------------------------------------
(* The refinement: the broadcaster implements LossyFanOut.                  *)

\* The parameters below are the parts of one stream: su its subscriber, q its
\* frameCh, fa its fan-out, got what each session had from it last, and pub how
\* many frames its camera published.

InHand(fa) == fa.pc \in {"locking", "sending"}

Ascending(q) == \A i, j \in 1 .. Len(q) : i < j => q[i] < q[j]

\* The newest frame that the stream can have handed to its fan-out.
Limit(su, pub) ==
  IF su.pc = "callback" THEN su.seen - 1 ELSE IF su.pc = "waiting" THEN su.seen ELSE pub

\* Frames move through a stream in order: what a session has is older than what
\* the fan-out still has for it in its hand, that is older than the queue, the
\* queue ascends, and all is older than what the subscriber will put there.
InOrder(su, q, fa, got, pub) ==
  /\ su.pc \in {"none", "starting"} =>
       q = <<>> /\ ~InHand(fa) /\ \A v \in Viewers : got[v] = 0
  /\ su.seen <= pub
  /\ Ascending(q)
  /\ \A i \in 1 .. Len(q) : q[i] <= Limit(su, pub)
  /\ InHand(fa) => fa.frame <= Limit(su, pub) /\ \A i \in 1 .. Len(q) : fa.frame < q[i]
  /\ \A v \in Viewers :
       /\ got[v] <= Limit(su, pub)
       /\ \A i \in 1 .. Len(q) : got[v] < q[i]
       /\ fa.pc = "locking" \/ (fa.pc = "sending" /\ v \in fa.todo) => got[v] < fa.frame

\* What the sessions had last from stream s.
Got(s) == [v \in Viewers |-> newest[v][s]]

StreamInOrder(s) == InOrder(sub[s], frameCh[s], fan[s], Got(s), published[TopicOf[s]])

\* An offer that has not been handled has no stream.
IdleHasNone == \A s \in Viewers : session[s] = "idle" => sub[s].pc = "none"

FlowInv == IdleHasNone /\ \A s \in Viewers : StreamInOrder(s)

\* What a step may do to one stream, each without its context.
LEMMA OrderKept ==
  ASSUME NEW su \in SubState, NEW q \in Seq(0 .. MaxFrames), NEW fa \in FanState,
         NEW got \in [Viewers -> 0 .. MaxFrames], NEW pub \in Nat, NEW more \in Nat,
         InOrder(su, q, fa, got, pub), pub <= more
  PROVE  InOrder(su, q, fa, got, more)
<1>1. MaxFrames \in Nat
  BY BroadcasterAssumption
<1>2. Limit(su, pub) <= Limit(su, more) /\ Limit(su, pub) \in Int /\ Limit(su, more) \in Int
  BY DEF Limit, SubState
<1>3. \A i \in 1 .. Len(q) : q[i] \in Int
  BY <1>1
<1> QED
  BY <1>1, <1>2, <1>3 DEF InOrder, SubState, FanState

LEMMA OrderStarted ==
  ASSUME NEW su \in SubState, NEW q \in Seq(0 .. MaxFrames), NEW fa \in FanState,
         NEW got \in [Viewers -> 0 .. MaxFrames], NEW pub \in 0 .. MaxFrames,
         InOrder(su, q, fa, got, pub), su.pc = "none"
  PROVE  InOrder([su EXCEPT !.pc = "starting"], q, [fa EXCEPT !.pc = "select"], got, pub)
<1>1. /\ q = <<>> /\ Len(q) = 0
      /\ \A v \in Viewers : got[v] = 0
      /\ su.seen <= pub
  BY DEF InOrder
<1>2. /\ [su EXCEPT !.pc = "starting"].pc = "starting"
      /\ [su EXCEPT !.pc = "starting"].seen = su.seen
      /\ [fa EXCEPT !.pc = "select"].pc = "select"
  BY DEF SubState, FanState
<1>3. Limit([su EXCEPT !.pc = "starting"], pub) = pub
  BY <1>2 DEF Limit
<1> QED
  BY <1>1, <1>2, <1>3 DEF InOrder, Ascending, InHand

LEMMA OrderSubscribed ==
  ASSUME NEW su \in SubState, NEW q \in Seq(0 .. MaxFrames), NEW fa \in FanState,
         NEW got \in [Viewers -> 0 .. MaxFrames], NEW pub \in 0 .. MaxFrames,
         InOrder(su, q, fa, got, pub), su.pc = "starting"
  PROVE  InOrder([su EXCEPT !.pc = "waiting", !.seen = pub], q, fa, got, pub)
<1>1. /\ q = <<>> /\ Len(q) = 0
      /\ ~InHand(fa)
      /\ \A v \in Viewers : got[v] = 0
  BY DEF InOrder
<1>2. /\ [su EXCEPT !.pc = "waiting", !.seen = pub].pc = "waiting"
      /\ [su EXCEPT !.pc = "waiting", !.seen = pub].seen = pub
  BY DEF SubState
<1>3. Limit([su EXCEPT !.pc = "waiting", !.seen = pub], pub) = pub
  BY <1>2 DEF Limit
<1> QED
  BY <1>1, <1>2, <1>3 DEF InOrder, Ascending, InHand

LEMMA OrderTaken ==
  ASSUME NEW su \in SubState, NEW q \in Seq(0 .. MaxFrames), NEW fa \in FanState,
         NEW got \in [Viewers -> 0 .. MaxFrames], NEW pub \in 0 .. MaxFrames,
         InOrder(su, q, fa, got, pub), su.pc = "waiting",
         NEW f \in (su.seen + 1) .. pub
  PROVE  /\ InOrder([su EXCEPT !.seen = f], q, fa, got, pub)
         /\ InOrder([su EXCEPT !.seen = f, !.pc = "callback"], q, fa, got, pub)
<1>0. MaxFrames \in Nat /\ su.seen \in Int /\ fa.frame \in Int
  BY BroadcasterAssumption DEF SubState, FanState
<1>1. ASSUME NEW new \in SubState, new.seen = f, new.pc \in {"waiting", "callback"}
      PROVE  InOrder(new, q, fa, got, pub)
  <2>1. Limit(su, pub) <= Limit(new, pub) /\ Limit(su, pub) \in Int /\ Limit(new, pub) \in Int
    BY <1>0, <1>1 DEF Limit
  <2>2. \A i \in 1 .. Len(q) : q[i] \in Int
    BY <1>0
  <2> QED
    BY <1>0, <1>1, <2>1, <2>2 DEF InOrder
<1>2. /\ [su EXCEPT !.seen = f].seen = f /\ [su EXCEPT !.seen = f].pc = "waiting"
      /\ [su EXCEPT !.seen = f, !.pc = "callback"].seen = f
      /\ [su EXCEPT !.seen = f, !.pc = "callback"].pc = "callback"
  BY DEF SubState
<1>3. f \in 0 .. MaxFrames
  BY <1>0, su.seen \in 0 .. MaxFrames DEF SubState
<1>4. [su EXCEPT !.seen = f] \in SubState /\ [su EXCEPT !.seen = f, !.pc = "callback"] \in SubState
  BY <1>3, SubFields
<1> QED
  BY <1>1, <1>2, <1>4

\* Appending a newer element, and removing the first one.
LEMMA AppendAscending ==
  ASSUME NEW q \in Seq(Nat), NEW f \in Nat, Ascending(q), \A i \in 1 .. Len(q) : q[i] < f
  PROVE  /\ Ascending(Append(q, f))
         /\ Len(Append(q, f)) = Len(q) + 1
         /\ \A i \in 1 .. Len(Append(q, f)) : Append(q, f)[i] = f \/ (i \in 1 .. Len(q) /\ Append(q, f)[i] = q[i])
<1>1. Len(q) \in Nat /\ Len(Append(q, f)) = Len(q) + 1
  OBVIOUS
<1>2. /\ \A i \in 1 .. Len(q) : Append(q, f)[i] = q[i] /\ q[i] \in Nat
      /\ Append(q, f)[Len(q) + 1] = f
  OBVIOUS
<1> QED
  BY <1>1, <1>2 DEF Ascending

LEMMA TailAscending ==
  ASSUME NEW q \in Seq(Nat), q # <<>>, Ascending(q)
  PROVE  /\ Ascending(Tail(q))
         /\ Len(Tail(q)) = Len(q) - 1 /\ Head(q) = q[1] /\ 1 \in 1 .. Len(q)
         /\ \A i \in 1 .. Len(Tail(q)) : Tail(q)[i] = q[i + 1] /\ i + 1 \in 1 .. Len(q) /\ Head(q) < Tail(q)[i]
<1>1. /\ Len(q) \in Nat \ {0} /\ Len(Tail(q)) = Len(q) - 1 /\ Head(q) = q[1]
      /\ \A i \in 1 .. Len(Tail(q)) : Tail(q)[i] = q[i + 1]
  OBVIOUS
<1> QED
  BY <1>1 DEF Ascending

LEMMA OrderQueued ==
  ASSUME NEW su \in SubState, NEW q \in Seq(0 .. MaxFrames), NEW fa \in FanState,
         NEW got \in [Viewers -> 0 .. MaxFrames], NEW pub \in 0 .. MaxFrames,
         InOrder(su, q, fa, got, pub), su.pc = "callback"
  PROVE  /\ InOrder([su EXCEPT !.pc = "waiting"], q, fa, got, pub)
         /\ InOrder([su EXCEPT !.pc = "waiting"], Append(q, su.seen), fa, got, pub)
<1> DEFINE new == [su EXCEPT !.pc = "waiting"]
           r == Append(q, su.seen)
<1>0. /\ MaxFrames \in Nat /\ su.seen \in Nat /\ fa.frame \in Nat /\ q \in Seq(Nat)
      /\ \A i \in 1 .. Len(q) : q[i] \in Nat
      /\ \A v \in Viewers : got[v] \in Nat
  BY BroadcasterAssumption DEF SubState, FanState
<1>1. new.pc = "waiting" /\ new.seen = su.seen
  BY DEF SubState
<1>2. Limit(su, pub) = su.seen - 1 /\ Limit(new, pub) = su.seen
  BY <1>1 DEF Limit
<1>3. /\ su.seen <= pub
      /\ Ascending(q)
      /\ \A i \in 1 .. Len(q) : q[i] <= su.seen - 1
      /\ InHand(fa) => fa.frame <= su.seen - 1 /\ \A i \in 1 .. Len(q) : fa.frame < q[i]
      /\ \A v \in Viewers :
           /\ got[v] <= su.seen - 1
           /\ \A i \in 1 .. Len(q) : got[v] < q[i]
           /\ fa.pc = "locking" \/ (fa.pc = "sending" /\ v \in fa.todo) => got[v] < fa.frame
  BY <1>2 DEF InOrder
<1>4. /\ Ascending(r)
      /\ \A i \in 1 .. Len(r) : r[i] = su.seen \/ (i \in 1 .. Len(q) /\ r[i] = q[i])
  <2>1. \A i \in 1 .. Len(q) : q[i] < su.seen
    BY <1>0, <1>3
  <2> QED
    BY <1>0, <1>3, <2>1, AppendAscending
<1>5. \A i \in 1 .. Len(r) : r[i] <= su.seen /\ r[i] \in Nat
  BY <1>0, <1>3, <1>4
<1>6. /\ InHand(fa) => fa.frame <= su.seen /\ \A i \in 1 .. Len(r) : fa.frame < r[i]
      /\ \A v \in Viewers : got[v] <= su.seen /\ \A i \in 1 .. Len(r) : got[v] < r[i]
  <2>1. ASSUME NEW x \in Nat, x <= su.seen - 1, \A i \in 1 .. Len(q) : x < q[i]
        PROVE  x <= su.seen /\ \A i \in 1 .. Len(r) : x < r[i]
    BY <1>0, <1>4, <2>1
  <2> QED
    BY <1>0, <1>3, <2>1
<1> HIDE DEF new, r
<1>7. InOrder(new, q, fa, got, pub)
  BY <1>0, <1>1, <1>2, <1>3 DEF InOrder
<1>8. InOrder(new, r, fa, got, pub)
  BY <1>1, <1>2, <1>3, <1>4, <1>5, <1>6 DEF InOrder
<1> QED
  BY <1>7, <1>8 DEF new, r

LEMMA OrderGone ==
  ASSUME NEW su \in SubState, NEW q \in Seq(0 .. MaxFrames), NEW fa \in FanState,
         NEW got \in [Viewers -> 0 .. MaxFrames], NEW pub \in 0 .. MaxFrames,
         InOrder(su, q, fa, got, pub)
  PROVE  InOrder(SubGone, q, fa, got, pub)
<1>0. /\ MaxFrames \in Nat /\ su.seen \in Nat /\ fa.frame \in Nat
      /\ \A i \in 1 .. Len(q) : q[i] \in Nat
      /\ \A v \in Viewers : got[v] \in Nat
  BY BroadcasterAssumption DEF SubState, FanState
<1>1. SubGone.pc = "exited" /\ SubGone.seen = 0 /\ Limit(SubGone, pub) = pub
  BY DEF SubGone, Limit
<1>2. Limit(su, pub) <= pub /\ Limit(su, pub) \in Int
  BY <1>0 DEF InOrder, Limit
<1> QED
  BY <1>0, <1>1, <1>2 DEF InOrder

LEMMA OrderFanTake ==
  ASSUME NEW su \in SubState, NEW q \in Seq(0 .. MaxFrames), NEW fa \in FanState,
         NEW got \in [Viewers -> 0 .. MaxFrames], NEW pub \in 0 .. MaxFrames,
         InOrder(su, q, fa, got, pub), q # <<>>
  PROVE  InOrder(su, Tail(q), [fa EXCEPT !.pc = "locking", !.frame = Head(q)], got, pub)
<1> DEFINE new == [fa EXCEPT !.pc = "locking", !.frame = Head(q)]
           r == Tail(q)
<1>0. /\ MaxFrames \in Nat /\ q \in Seq(Nat)
      /\ \A i \in 1 .. Len(q) : q[i] \in Nat
  BY BroadcasterAssumption
<1>1. new.pc = "locking" /\ new.frame = Head(q)
  BY DEF FanState
<1>2. /\ Ascending(r) /\ Head(q) = q[1] /\ 1 \in 1 .. Len(q)
      /\ \A i \in 1 .. Len(r) : r[i] = q[i + 1] /\ i + 1 \in 1 .. Len(q) /\ Head(q) < r[i]
  BY <1>0, TailAscending DEF InOrder
<1>3. /\ ~(su.pc \in {"none", "starting"})
      /\ su.seen <= pub
      /\ \A i \in 1 .. Len(q) : q[i] <= Limit(su, pub)
      /\ \A v \in Viewers : got[v] <= Limit(su, pub) /\ \A i \in 1 .. Len(q) : got[v] < q[i]
  BY DEF InOrder
<1> HIDE DEF new, r
<1> QED
  <2>1. InOrder(su, r, new, got, pub)
    BY <1>1, <1>2, <1>3 DEF InOrder, InHand
  <2> QED
    BY <2>1 DEF new, r

LEMMA OrderFanLock ==
  ASSUME NEW su \in SubState, NEW q \in Seq(0 .. MaxFrames), NEW fa \in FanState,
         NEW got \in [Viewers -> 0 .. MaxFrames], NEW pub \in 0 .. MaxFrames,
         InOrder(su, q, fa, got, pub), fa.pc = "locking", NEW T \in SUBSET Viewers
  PROVE  InOrder(su, q, [fa EXCEPT !.pc = "sending", !.todo = T], got, pub)
<1>1. LET new == [fa EXCEPT !.pc = "sending", !.todo = T]
      IN  new.pc = "sending" /\ new.frame = fa.frame
  BY DEF FanState
<1> QED
  BY <1>1 DEF InOrder, InHand

\* The fan-out serves w, or loses the frame for it.
LEMMA OrderFanSend ==
  ASSUME NEW su \in SubState, NEW q \in Seq(0 .. MaxFrames), NEW fa \in FanState,
         NEW got \in [Viewers -> 0 .. MaxFrames], NEW pub \in 0 .. MaxFrames,
         InOrder(su, q, fa, got, pub), fa.pc = "sending", NEW w \in fa.todo
  PROVE  /\ InOrder(su, q, [fa EXCEPT !.todo = @ \ {w}], got, pub)
         /\ InOrder(su, q, [fa EXCEPT !.todo = @ \ {w}], [got EXCEPT ![w] = fa.frame], pub)
         /\ fa.frame \in (got[w] + 1) .. pub
<1> DEFINE new == [fa EXCEPT !.todo = @ \ {w}]
           g == [got EXCEPT ![w] = fa.frame]
<1>0. /\ MaxFrames \in Nat /\ su.seen \in Nat /\ fa.frame \in Nat /\ w \in Viewers
      /\ \A v \in Viewers : got[v] \in Nat
      /\ \A i \in 1 .. Len(q) : q[i] \in Nat
  BY BroadcasterAssumption DEF SubState, FanState
<1>1. new.pc = "sending" /\ new.frame = fa.frame /\ new.todo = fa.todo \ {w}
  BY DEF FanState
<1>2. g[w] = fa.frame /\ \A v \in Viewers \ {w} : g[v] = got[v]
  BY <1>0
<1>3. /\ ~(su.pc \in {"none", "starting"})
      /\ su.seen <= pub
      /\ Ascending(q)
      /\ \A i \in 1 .. Len(q) : q[i] <= Limit(su, pub)
      /\ fa.frame <= Limit(su, pub) /\ \A i \in 1 .. Len(q) : fa.frame < q[i]
      /\ \A v \in Viewers :
           /\ got[v] <= Limit(su, pub)
           /\ \A i \in 1 .. Len(q) : got[v] < q[i]
           /\ v \in fa.todo => got[v] < fa.frame
  BY DEF InOrder, InHand
<1>4. Limit(su, pub) <= pub /\ Limit(su, pub) \in Int
  BY <1>0, <1>3 DEF Limit
<1> HIDE DEF new, g
<1>5. InOrder(su, q, new, got, pub)
  BY <1>1, <1>3 DEF InOrder
<1>6. InOrder(su, q, new, g, pub)
  BY <1>1, <1>2, <1>3 DEF InOrder
<1>7. fa.frame \in (got[w] + 1) .. pub
  BY <1>0, <1>3, <1>4
<1> QED
  BY <1>5, <1>6, <1>7 DEF new, g

\* The fan-out has nothing in its hand any more.
LEMMA OrderFanIdle ==
  ASSUME NEW su \in SubState, NEW q \in Seq(0 .. MaxFrames), NEW fa \in FanState,
         NEW got \in [Viewers -> 0 .. MaxFrames], NEW pub \in 0 .. MaxFrames,
         InOrder(su, q, fa, got, pub)
  PROVE  /\ InOrder(su, q, [fa EXCEPT !.pc = "exited"], got, pub)
         /\ InOrder(su, q, [fa EXCEPT !.pc = "select", !.frame = 0], got, pub)
<1>1. /\ [fa EXCEPT !.pc = "exited"].pc = "exited"
      /\ [fa EXCEPT !.pc = "select", !.frame = 0].pc = "select"
  BY DEF FanState
<1> QED
  BY <1>1 DEF InOrder, InHand

\* The types that the lemmas ask of one stream.
StreamTyped(s) ==
  /\ sub[s] \in SubState
  /\ frameCh[s] \in Seq(0 .. MaxFrames)
  /\ fan[s] \in FanState
  /\ Got(s) \in [Viewers -> 0 .. MaxFrames]
  /\ published[TopicOf[s]] \in 0 .. MaxFrames

LEMMA StreamTypes == ASSUME TypeOK, NEW s \in Viewers PROVE StreamTyped(s)
<1>1. TopicOf[s] \in Topics /\ MaxFrames \in Nat
  BY BroadcasterAssumption
<1> QED
  BY <1>1 DEF TypeOK, StreamTyped, Got

\* A step leaves alone a stream of which it changes nothing.
Untouched(s) ==
  /\ sub'[s] = sub[s] /\ frameCh'[s] = frameCh[s] /\ fan'[s] = fan[s]
  /\ newest' = newest /\ published' = published

LEMMA UntouchedKept ==
  ASSUME NEW s \in Viewers, StreamInOrder(s), Untouched(s) PROVE StreamInOrder(s)'
  BY DEF StreamInOrder, Untouched, Got

LEMMA FlowStep ==
  ASSUME TypeOK, TypeOK', FlowInv, [Next]_vars PROVE FlowInv'
<1>0. /\ \A s \in Viewers : StreamTyped(s) /\ StreamInOrder(s)
      /\ \A s \in Viewers : session[s] = "idle" => sub[s].pc = "none"
      /\ TopicOf \in [Viewers -> Topics] /\ MaxFrames \in Nat
      /\ session \in [Viewers -> {"idle", "watching", "leaving", "removed", "closed", "done"}]
      /\ sub \in [Viewers -> SubState] /\ fan \in [Viewers -> FanState]
      /\ frameCh \in [Viewers -> Seq(0 .. MaxFrames)]
      /\ newest \in [Viewers -> [Viewers -> 0 .. MaxFrames]]
      /\ published \in [Topics -> 0 .. MaxFrames]
  BY StreamTypes, BroadcasterAssumption DEF FlowInv, IdleHasNone, TypeOK
\* Steps of one stream s: enough that s itself stays in order.
<1>s. ASSUME NEW s \in Viewers, StreamInOrder(s)', sub[s].pc # "none",
             session' = session, sub' = [sub EXCEPT ![s] = sub'[s]],
             \A r \in Viewers \ {s} : Untouched(r)
      PROVE  FlowInv'
  <2>1. \A r \in Viewers : StreamInOrder(r)'
    BY <1>s, <1>0, UntouchedKept
  <2>2. IdleHasNone'
    BY <1>s, <1>0 DEF IdleHasNone
  <2> QED
    BY <2>1, <2>2 DEF FlowInv
\* Steps of a session that touch no stream.
<1>v. ASSUME NEW v \in Viewers, session'[v] # "idle", \A w \in Viewers \ {v} : session'[w] = session[w],
             sub' = sub, frameCh' = frameCh, fan' = fan, newest' = newest, published' = published
      PROVE  FlowInv'
  <2>1. \A r \in Viewers : StreamInOrder(r)'
    BY <1>v, <1>0, UntouchedKept DEF Untouched
  <2>2. IdleHasNone'
    BY <1>v, <1>0 DEF IdleHasNone
  <2> QED
    BY <2>1, <2>2 DEF FlowInv
<1>1. ASSUME NEW v \in Viewers, AddViewer(v) PROVE FlowInv'
  <2>1. /\ session' = [session EXCEPT ![v] = "watching"]
        /\ frameCh' = frameCh /\ newest' = newest /\ published' = published
        /\ session[v] = "idle"
    BY <1>1 DEF AddViewer, outVars
  <2>2. CASE topics[TopicOf[v]] # NoViewer
    <3>1. sub' = sub /\ fan' = fan
      BY <1>1, <2>2 DEF AddViewer
    <3> QED
      BY <1>v, <1>0, <2>1, <3>1
  <2>3. CASE topics[TopicOf[v]] = NoViewer
    <3>1. /\ sub' = [sub EXCEPT ![v] = [sub[v] EXCEPT !.pc = "starting"]]
          /\ fan' = [fan EXCEPT ![v] = [fan[v] EXCEPT !.pc = "select"]]
      BY <1>1, <1>0, <2>3 DEF AddViewer
    <3>2. sub[v].pc = "none"
      BY <1>0, <2>1
    <3>3. InOrder([sub[v] EXCEPT !.pc = "starting"], frameCh[v], [fan[v] EXCEPT !.pc = "select"],
                  Got(v), published[TopicOf[v]])
      BY <1>0, <3>2, OrderStarted DEF StreamTyped, StreamInOrder
    <3>4. StreamInOrder(v)'
      BY <1>0, <2>1, <3>1, <3>3 DEF StreamInOrder, Got
    <3>5. \A r \in Viewers \ {v} : Untouched(r)
      BY <1>0, <2>1, <3>1 DEF Untouched
    <3>6. \A r \in Viewers : StreamInOrder(r)'
      BY <1>0, <3>4, <3>5, UntouchedKept
    <3>7. IdleHasNone'
      BY <1>0, <2>1, <3>1 DEF IdleHasNone
    <3> QED
      BY <3>6, <3>7 DEF FlowInv
  <2> QED
    BY <2>2, <2>3
<1>2. ASSUME NEW v \in Viewers,
             EndWithCancel(v) \/ EndWithoutCancel(v) \/ RemoveViewer(v) \/ CloseFrameCh(v) \/ CancelCtx(v)
      PROVE  FlowInv'
  <2>1. /\ sub' = sub /\ frameCh' = frameCh /\ fan' = fan /\ newest' = newest /\ published' = published
        /\ session'[v] # "idle" /\ \A w \in Viewers \ {v} : session'[w] = session[w]
    BY <1>2, <1>0 DEF EndWithCancel, EndWithoutCancel, RemoveViewer, CloseFrameCh, CancelCtx, outVars
  <2> QED
    BY <1>v, <2>1
<1>3. CASE Shutdown \/ UNCHANGED vars \/ \E v \in Viewers : Receive(v)
  <2>1. /\ session' = session /\ sub' = sub /\ frameCh' = frameCh /\ fan' = fan
        /\ newest' = newest /\ published' = published
    BY <1>3 DEF Shutdown, Receive, vars, sessionVars, outVars
  <2>2. \A r \in Viewers : StreamInOrder(r)'
    BY <1>0, <2>1, UntouchedKept DEF Untouched
  <2> QED
    BY <1>0, <2>1, <2>2 DEF FlowInv, IdleHasNone
<1>4. ASSUME NEW t \in Topics, Publish(t) PROVE FlowInv'
  <2>1. /\ session' = session /\ sub' = sub /\ frameCh' = frameCh /\ fan' = fan /\ newest' = newest
        /\ published' = [published EXCEPT ![t] = @ + 1]
    BY <1>4 DEF Publish, sessionVars, outVars
  <2>2. ASSUME NEW s \in Viewers PROVE StreamInOrder(s)'
    <3>1. /\ published[TopicOf[s]] \in Nat /\ published'[TopicOf[s]] \in Nat
          /\ published[TopicOf[s]] <= published'[TopicOf[s]]
      BY <1>0, <2>1
    <3>2. InOrder(sub[s], frameCh[s], fan[s], Got(s), published'[TopicOf[s]])
      BY <1>0, <3>1, OrderKept DEF StreamTyped, StreamInOrder
    <3> QED
      BY <2>1, <3>2 DEF StreamInOrder, Got
  <2> QED
    BY <1>0, <2>1, <2>2 DEF FlowInv, IdleHasNone
<1>5. ASSUME NEW s \in Viewers, SubFail(s) \/ SubStop(s) PROVE FlowInv'
  <2>1. /\ session' = session /\ frameCh' = frameCh /\ fan' = fan /\ newest' = newest /\ published' = published
        /\ sub' = [sub EXCEPT ![s] = SubGone] /\ sub[s].pc # "none"
    BY <1>5 DEF SubFail, SubStop, SubUnchanged, sessionVars, outVars
  <2>2. InOrder(SubGone, frameCh[s], fan[s], Got(s), published[TopicOf[s]])
    BY <1>0, OrderGone DEF StreamTyped, StreamInOrder
  <2>3. StreamInOrder(s)'
    BY <1>0, <2>1, <2>2 DEF StreamInOrder, Got
  <2> QED
    BY <1>s, <1>0, <2>1, <2>3 DEF Untouched
<1>6. ASSUME NEW s \in Viewers, SubStart(s) PROVE FlowInv'
  <2>1. /\ session' = session /\ frameCh' = frameCh /\ fan' = fan /\ newest' = newest /\ published' = published
        /\ sub' = [sub EXCEPT ![s] = [sub[s] EXCEPT !.pc = "waiting", !.seen = published[TopicOf[s]]]]
        /\ sub[s].pc = "starting"
    BY <1>6, <1>0 DEF SubStart, SubUnchanged, sessionVars, outVars
  <2>2. InOrder([sub[s] EXCEPT !.pc = "waiting", !.seen = published[TopicOf[s]]],
                frameCh[s], fan[s], Got(s), published[TopicOf[s]])
    BY <1>0, <2>1, OrderSubscribed DEF StreamTyped, StreamInOrder
  <2>3. StreamInOrder(s)'
    BY <1>0, <2>1, <2>2 DEF StreamInOrder, Got
  <2> QED
    BY <1>s, <1>0, <2>1, <2>3 DEF Untouched
<1>7. ASSUME NEW s \in Viewers, TakeMessage(s) PROVE FlowInv'
  <2>1. /\ session' = session /\ frameCh' = frameCh /\ fan' = fan /\ newest' = newest /\ published' = published
        /\ sub[s].pc = "waiting"
    BY <1>7 DEF TakeMessage, SubUnchanged, sessionVars, outVars
  <2>2. PICK f \in (sub[s].seen + 1) .. published[TopicOf[s]] :
          \/ sub' = [sub EXCEPT ![s] = [sub[s] EXCEPT !.seen = f]]
          \/ sub' = [sub EXCEPT ![s] = [sub[s] EXCEPT !.seen = f, !.pc = "callback"]]
    BY <1>7, <1>0 DEF TakeMessage, Unseen
  <2>3. /\ InOrder([sub[s] EXCEPT !.seen = f], frameCh[s], fan[s], Got(s), published[TopicOf[s]])
        /\ InOrder([sub[s] EXCEPT !.seen = f, !.pc = "callback"], frameCh[s], fan[s], Got(s), published[TopicOf[s]])
    BY <1>0, <2>1, OrderTaken DEF StreamTyped, StreamInOrder
  <2>4. StreamInOrder(s)'
    BY <1>0, <2>1, <2>2, <2>3 DEF StreamInOrder, Got
  <2> QED
    BY <1>s, <1>0, <2>1, <2>2, <2>4 DEF Untouched
<1>8. ASSUME NEW s \in Viewers, CallbackSend(s) PROVE FlowInv'
  <2>1. /\ session' = session /\ fan' = fan /\ newest' = newest /\ published' = published
        /\ sub' = [sub EXCEPT ![s] = [sub[s] EXCEPT !.pc = "waiting"]]
        /\ sub[s].pc = "callback"
        /\ frameCh' = frameCh \/ frameCh' = [frameCh EXCEPT ![s] = Append(frameCh[s], sub[s].seen)]
    BY <1>8, <1>0 DEF CallbackSend, SubUnchanged, sessionVars, outVars
  <2>2. LET new == [sub[s] EXCEPT !.pc = "waiting"] IN
        /\ InOrder(new, frameCh[s], fan[s], Got(s), published[TopicOf[s]])
        /\ InOrder(new, Append(frameCh[s], sub[s].seen), fan[s], Got(s), published[TopicOf[s]])
    BY <1>0, <2>1, OrderQueued DEF StreamTyped, StreamInOrder
  <2>3. StreamInOrder(s)'
    BY <1>0, <2>1, <2>2 DEF StreamInOrder, Got
  <2> QED
    BY <1>s, <1>0, <2>1, <2>3 DEF Untouched
\* The fan-out runs only once its stream was started, but FlowInv need not say
\* so: its steps leave the subscriber and the sessions alone.
<1>f. ASSUME NEW s \in Viewers, StreamInOrder(s)', session' = session, sub' = sub,
             \A r \in Viewers \ {s} : StreamInOrder(r)'
      PROVE  FlowInv'
  BY <1>0, <1>f DEF FlowInv, IdleHasNone
<1>9. ASSUME NEW s \in Viewers, FanTake(s) PROVE FlowInv'
  <2>1. /\ session' = session /\ sub' = sub /\ newest' = newest /\ published' = published
        /\ fan' = [fan EXCEPT ![s] = [fan[s] EXCEPT !.pc = "locking", !.frame = Head(frameCh[s])]]
        /\ frameCh' = [frameCh EXCEPT ![s] = Tail(frameCh[s])]
        /\ frameCh[s] # <<>>
    BY <1>9, <1>0 DEF FanTake, FanUnchanged, sessionVars, outVars
  <2>2. InOrder(sub[s], Tail(frameCh[s]), [fan[s] EXCEPT !.pc = "locking", !.frame = Head(frameCh[s])],
                Got(s), published[TopicOf[s]])
    BY <1>0, <2>1, OrderFanTake DEF StreamTyped, StreamInOrder
  <2>3. StreamInOrder(s)'
    BY <1>0, <2>1, <2>2 DEF StreamInOrder, Got
  <2>4. \A r \in Viewers \ {s} : StreamInOrder(r)'
    BY <1>0, <2>1, UntouchedKept DEF Untouched
  <2> QED
    BY <1>f, <2>1, <2>3, <2>4
<1>10. ASSUME NEW s \in Viewers, FanLock(s) PROVE FlowInv'
  <2>1. /\ session' = session /\ sub' = sub /\ newest' = newest /\ published' = published /\ frameCh' = frameCh
        /\ fan' = [fan EXCEPT ![s] = [fan[s] EXCEPT !.pc = "sending", !.todo = viewers[TopicOf[s]]]]
        /\ fan[s].pc = "locking" /\ viewers[TopicOf[s]] \in SUBSET Viewers
    BY <1>10, <1>0 DEF FanLock, FanTargets, FanUnchanged, sessionVars, outVars, TypeOK
  <2>2. InOrder(sub[s], frameCh[s], [fan[s] EXCEPT !.pc = "sending", !.todo = viewers[TopicOf[s]]],
                Got(s), published[TopicOf[s]])
    BY <1>0, <2>1, OrderFanLock DEF StreamTyped, StreamInOrder
  <2>3. StreamInOrder(s)'
    BY <1>0, <2>1, <2>2 DEF StreamInOrder, Got
  <2>4. \A r \in Viewers \ {s} : StreamInOrder(r)'
    BY <1>0, <2>1, UntouchedKept DEF Untouched
  <2> QED
    BY <1>f, <2>1, <2>3, <2>4
<1>11. ASSUME NEW s \in Viewers, NEW v \in Viewers, FanSend(s, v) PROVE FlowInv'
  <2>1. /\ session' = session /\ sub' = sub /\ published' = published /\ frameCh' = frameCh
        /\ fan' = [fan EXCEPT ![s] = [fan[s] EXCEPT !.todo = @ \ {v}]]
        /\ fan[s].pc = "sending" /\ v \in fan[s].todo
        /\ newest' = newest \/ newest' = [newest EXCEPT ![v][s] = fan[s].frame]
    BY <1>11, <1>0 DEF FanSend, FanUnchanged, sessionVars, outVars
  <2>2. LET new == [fan[s] EXCEPT !.todo = @ \ {v}] IN
        /\ InOrder(sub[s], frameCh[s], new, Got(s), published[TopicOf[s]])
        /\ InOrder(sub[s], frameCh[s], new, [Got(s) EXCEPT ![v] = fan[s].frame], published[TopicOf[s]])
    BY <1>0, <2>1, OrderFanSend DEF StreamTyped, StreamInOrder
  <2>3. /\ Got(s)' = Got(s) \/ Got(s)' = [Got(s) EXCEPT ![v] = fan[s].frame]
        /\ \A r \in Viewers \ {s} : Got(r)' = Got(r)
    <3>1. CASE newest' = newest
      BY <3>1 DEF Got
    <3>2. CASE newest' = [newest EXCEPT ![v][s] = fan[s].frame]
      <4>1. \A w \in Viewers, r \in Viewers :
              newest'[w][r] = IF w = v /\ r = s THEN fan[s].frame ELSE newest[w][r]
        BY <1>0, <3>2
      <4>2. Got(s)' = [Got(s) EXCEPT ![v] = fan[s].frame]
        BY <4>1 DEF Got
      <4>3. \A r \in Viewers \ {s} : Got(r)' = Got(r)
        BY <4>1 DEF Got
      <4> QED
        BY <4>2, <4>3
    <3> QED
      BY <2>1, <3>1, <3>2
  <2>4. StreamInOrder(s)'
    BY <1>0, <2>1, <2>2, <2>3 DEF StreamInOrder
  <2>5. \A r \in Viewers \ {s} : StreamInOrder(r)'
    BY <1>0, <2>1, <2>3 DEF StreamInOrder
  <2> QED
    BY <1>f, <2>1, <2>4, <2>5
<1>12. ASSUME NEW s \in Viewers, FanStop(s) \/ FanUnlock(s) PROVE FlowInv'
  <2>1. /\ session' = session /\ sub' = sub /\ newest' = newest /\ published' = published /\ frameCh' = frameCh
        /\ \/ fan' = [fan EXCEPT ![s] = [fan[s] EXCEPT !.pc = "exited"]]
           \/ fan' = [fan EXCEPT ![s] = [fan[s] EXCEPT !.pc = "select", !.frame = 0]]
    BY <1>12, <1>0 DEF FanStop, FanUnlock, FanUnchanged, sessionVars, outVars
  <2>2. /\ InOrder(sub[s], frameCh[s], [fan[s] EXCEPT !.pc = "exited"], Got(s), published[TopicOf[s]])
        /\ InOrder(sub[s], frameCh[s], [fan[s] EXCEPT !.pc = "select", !.frame = 0], Got(s), published[TopicOf[s]])
    BY <1>0, OrderFanIdle DEF StreamTyped, StreamInOrder
  <2>3. StreamInOrder(s)'
    BY <1>0, <2>1, <2>2 DEF StreamInOrder, Got
  <2>4. \A r \in Viewers \ {s} : StreamInOrder(r)'
    BY <1>0, <2>1, UntouchedKept DEF Untouched
  <2> QED
    BY <1>f, <2>1, <2>3, <2>4
<1> QED
  BY <1>1, <1>2, <1>3, <1>4, <1>5, <1>6, <1>7, <1>8, <1>9, <1>10, <1>11, <1>12
  DEF Next, SessionNext, SubNext, FanNext

LEMMA FlowInit == Init => FlowInv
<1> SUFFICES ASSUME Init PROVE FlowInv
  OBVIOUS
<1>1. TopicOf \in [Viewers -> Topics] /\ MaxFrames \in Nat
  BY BroadcasterAssumption
<1>2. ASSUME NEW s \in Viewers PROVE StreamInOrder(s)
  <2>1. /\ sub[s] = [pc |-> "none", seen |-> 0] /\ frameCh[s] = <<>>
        /\ fan[s] = [pc |-> "none", frame |-> 0, todo |-> {}]
        /\ Got(s) = [v \in Viewers |-> 0] /\ published[TopicOf[s]] = 0
    BY <1>1 DEF Init, Got
  <2> QED
    BY <2>1 DEF StreamInOrder, InOrder, Ascending, InHand, Limit
<1> QED
  BY <1>2 DEF FlowInv, IdleHasNone, Init

LEMMA FlowInductive == Spec => []FlowInv
<1>1. TypeOK /\ TypeOK' /\ FlowInv /\ [Next]_vars => FlowInv'
  BY FlowStep
<1> QED
  BY TypeCorrect, FlowInit, <1>1, PTL DEF Spec

\* The refinement mapping of FanOut, by name.
Phase == [v \in Viewers |->
            IF session[v] = "idle" THEN "out" ELSE IF Registered(v) THEN "in" ELSE "gone"]

AbstractStep == FanOut!Next \/ UNCHANGED <<published, Phase, queued, newest>>

LEMMA Simulation ==
  ASSUME SafetyInv, FlowInv, [Next]_vars PROVE AbstractStep
<1>0. /\ TypeOK
      /\ TopicOf \in [Viewers -> Topics] /\ MaxFrames \in Nat
      /\ session \in [Viewers -> {"idle", "watching", "leaving", "removed", "closed", "done"}]
  BY BroadcasterAssumption DEF SafetyInv, TypeOK
\* A step of session v alone, seen through Phase.
<1>p. ASSUME NEW v \in Viewers, NEW p, session' = [session EXCEPT ![v] = p], p # "idle"
      PROVE  Phase' = [Phase EXCEPT ![v] = IF p \in {"watching", "leaving"} THEN "in" ELSE "gone"]
  BY <1>0, <1>p DEF Phase, Registered
<1>q. ASSUME session' = session PROVE Phase' = Phase
  BY <1>q DEF Phase, Registered
<1>1. ASSUME NEW v \in Viewers, AddViewer(v) PROVE AbstractStep
  <2>1. Phase[v] = "out" /\ Phase' = [Phase EXCEPT ![v] = "in"]
    BY <1>1, <1>p DEF AddViewer, Phase
  <2>2. FanOut!Join(v)
    BY <1>1, <2>1 DEF FanOut!Join, Phase, AddViewer, outVars
  <2> QED
    BY <2>2 DEF AbstractStep, FanOut!Next
<1>2. ASSUME NEW v \in Viewers, EndWithCancel(v) \/ EndWithoutCancel(v) \/ CloseFrameCh(v) \/ CancelCtx(v)
      PROVE  AbstractStep
  <2>1. UNCHANGED <<published, queued, newest>>
    BY <1>2 DEF EndWithCancel, EndWithoutCancel, CloseFrameCh, CancelCtx, outVars
  <2>2. PICK p \in {"leaving", "closed", "done"} :
          /\ session' = [session EXCEPT ![v] = p]
          /\ Phase[v] = IF p = "leaving" THEN "in" ELSE "gone"
    BY <1>2 DEF EndWithCancel, EndWithoutCancel, CloseFrameCh, CancelCtx, Phase, Registered
  <2>3. Phase' = [Phase EXCEPT ![v] = Phase[v]]
    BY <2>2, <1>p
  <2>4. Phase' = Phase
    BY <2>3 DEF Phase
  <2> QED
    BY <2>1, <2>4 DEF AbstractStep
<1>3. ASSUME NEW v \in Viewers, RemoveViewer(v) PROVE AbstractStep
  <2>1. Phase[v] = "in" /\ Phase' = [Phase EXCEPT ![v] = "gone"]
    BY <1>3, <1>p DEF RemoveViewer, Phase, Registered
  <2>2. FanOut!Leave(v)
    BY <1>3, <2>1 DEF FanOut!Leave, Phase, RemoveViewer, outVars
  <2> QED
    BY <2>2 DEF AbstractStep, FanOut!Next
<1>4. ASSUME NEW v \in Viewers, Receive(v) PROVE AbstractStep
  <2>1. Phase' = Phase
    BY <1>4, <1>q DEF Receive, sessionVars
  <2>2. FanOut!Take(v)
    BY <1>4, <2>1 DEF FanOut!Take, Phase, Receive
  <2> QED
    BY <2>2 DEF AbstractStep, FanOut!Next
<1>5. ASSUME NEW t \in Topics, Publish(t) PROVE AbstractStep
  <2>1. Phase' = Phase
    BY <1>5, <1>q DEF Publish, sessionVars
  <2>2. FanOut!Publish(t)
    BY <1>5, <2>1 DEF FanOut!Publish, Phase, Publish, outVars
  <2> QED
    BY <2>2 DEF AbstractStep, FanOut!Next
<1>6. ASSUME NEW s \in Viewers, SubFail(s) \/ SubNext(s) PROVE AbstractStep
  <2>1. UNCHANGED <<session, published, queued, newest>>
    BY <1>6 DEF SubFail, SubNext, SubStart, TakeMessage, CallbackSend, SubStop, SubUnchanged,
                sessionVars, outVars
  <2> QED
    BY <2>1, <1>q DEF AbstractStep
<1>7. ASSUME NEW s \in Viewers, FanStop(s) \/ FanTake(s) \/ FanLock(s) \/ FanUnlock(s) PROVE AbstractStep
  <2>1. UNCHANGED <<session, published, queued, newest>>
    BY <1>7 DEF FanStop, FanTake, FanLock, FanUnlock, FanUnchanged, sessionVars, outVars
  <2> QED
    BY <2>1, <1>q DEF AbstractStep
\* A frame handed over: the lock says the session is in, the order of the
\* stream that the frame is newer than what the session had.
<1>8. ASSUME NEW s \in Viewers, NEW v \in Viewers, FanSend(s, v) PROVE AbstractStep
  <2>1. session' = session /\ published' = published
    BY <1>8 DEF FanSend, FanUnchanged, sessionVars
  <2>2. Phase' = Phase
    BY <2>1, <1>q
  <2>3. CASE UNCHANGED outVars
    BY <2>1, <2>2, <2>3 DEF AbstractStep, outVars
  <2>4. CASE HasRoom(v) /\ queued' = [queued EXCEPT ![v] = @ + 1]
             /\ newest' = [newest EXCEPT ![v][s] = fan[s].frame]
    <3>1. v \in viewers[TopicOf[s]] /\ TopicOf[s] \in Topics
      BY <1>0, <1>8 DEF FanSend, SafetyInv, LockedTargets
    <3>2. TopicOf[v] = TopicOf[s] /\ Registered(v)
      BY <3>1 DEF SafetyInv, RegistryConsistent
    <3>3. Phase[v] = "in"
      BY <3>2 DEF Phase, Registered
    <3>4. fan[s].frame \in (Got(s)[v] + 1) .. published[TopicOf[s]]
      <4>1. StreamTyped(s) /\ StreamInOrder(s) /\ fan[s].pc = "sending" /\ v \in fan[s].todo
        BY <1>0, <1>8, StreamTypes DEF FlowInv, FanSend
      <4> QED
        BY <4>1, OrderFanSend DEF StreamTyped, StreamInOrder
    <3>5. Got(s)[v] = newest[v][s]
      BY DEF Got
    <3>6. fan[s].frame \in 1 .. MaxFrames
      <4>1. newest[v][s] \in Nat /\ published[TopicOf[s]] \in 0 .. MaxFrames
        BY <1>0, <3>1 DEF TypeOK
      <4> QED
        BY <1>0, <3>4, <3>5, <4>1
    <3>7. FanOut!Hand(v, s, fan[s].frame)
      BY <2>1, <2>2, <2>4, <3>2, <3>3, <3>4, <3>5 DEF FanOut!Hand, Phase, HasRoom
    <3> QED
      BY <3>6, <3>7 DEF AbstractStep, FanOut!Next
  <2> QED
    BY <1>8, <2>3, <2>4 DEF FanSend
<1>9. CASE Shutdown \/ UNCHANGED vars
  <2>1. UNCHANGED <<session, published, queued, newest>>
    BY <1>9 DEF Shutdown, vars, sessionVars, outVars
  <2> QED
    BY <2>1, <1>q DEF AbstractStep
<1> QED
  BY <1>1, <1>2, <1>3, <1>4, <1>5, <1>6, <1>7, <1>8, <1>9 DEF Next, SessionNext, FanNext

\* The broadcaster implements the lossy fan-out, for every set of sessions and
\* topics: what a session gets comes from its topic, in order and once per
\* stream, and only while it is registered.
THEOREM Implements == Spec => ImplementsLossyFanOut
<1>1. Init => FanOut!Init
  <2> SUFFICES ASSUME Init PROVE FanOut!Init
    OBVIOUS
  <2>1. Phase = [v \in Viewers |-> "out"]
    BY DEF Init, Phase
  <2> QED
    BY <2>1 DEF Init, FanOut!Init, Phase
<1>2. SafetyInv /\ FlowInv /\ [Next]_vars => [FanOut!Next]_FanOut!vars
  BY Simulation DEF AbstractStep, Phase, FanOut!vars
<1> QED
  BY <1>1, <1>2, SafetyInductive, FlowInductive, PTL DEF Spec, ImplementsLossyFanOut, FanOut!Spec

-----------------------------------------------------------------------------
(* The session assumed here is SessionLife, and the session of              *)
(* ViewerSession is shown to be one.                                        *)

Life == INSTANCE SessionLife WITH phase <- session

ImplementsSessionLife == Life!Spec

LifeStep == Life!Next \/ UNCHANGED <<session, ended, daemonDone>>

LEMMA StepLives == [Next]_vars => LifeStep
<1> SUFFICES ASSUME [Next]_vars PROVE LifeStep
  OBVIOUS
<1> USE DEF LifeStep, Life!Next, Life!Moves
<1>1. ASSUME NEW v \in Viewers, AddViewer(v) PROVE LifeStep
  <2>1. Life!Join(v)
    BY <1>1 DEF AddViewer, Life!Join
  <2> QED BY <2>1
<1>2. ASSUME NEW v \in Viewers, EndWithCancel(v) \/ EndWithoutCancel(v) PROVE LifeStep
  <2>1. Life!End(v)
    BY <1>2 DEF EndWithCancel, EndWithoutCancel, Life!End
  <2> QED BY <2>1
<1>3. ASSUME NEW v \in Viewers, RemoveViewer(v) PROVE LifeStep
  <2>1. Life!Remove(v)
    BY <1>3 DEF RemoveViewer, Life!Remove
  <2> QED BY <2>1
<1>4. ASSUME NEW v \in Viewers, CloseFrameCh(v) PROVE LifeStep
  <2>1. Life!CloseChannel(v)
    BY <1>4 DEF CloseFrameCh, Life!CloseChannel
  <2> QED BY <2>1
<1>5. ASSUME NEW v \in Viewers, CancelCtx(v) PROVE LifeStep
  <2>1. Life!Cancel(v)
    BY <1>5 DEF CancelCtx, Life!Cancel
  <2> QED BY <2>1
<1>6. CASE Shutdown
  <2>1. Life!Shutdown
    BY <1>6 DEF Shutdown, Life!Shutdown
  <2> QED BY <2>1
<1>7. ASSUME UNCHANGED sessionVars PROVE LifeStep
  BY <1>7 DEF sessionVars
<1>8. ASSUME \/ UNCHANGED vars
             \/ \E v \in Viewers : Receive(v)
             \/ \E s \in Viewers : SubFail(s) \/ SubNext(s) \/ FanNext(s)
             \/ \E t \in Topics : Publish(t)
      PROVE  UNCHANGED sessionVars
  BY <1>8 DEF vars, Receive, SubFail, SubNext, SubStart, TakeMessage, CallbackSend, SubStop, SubUnchanged,
              FanNext, FanStop, FanTake, FanLock, FanUnlock, FanSend, FanUnchanged, Publish
<1> QED BY <1>1, <1>2, <1>3, <1>4, <1>5, <1>6, <1>7, <1>8 DEF Next, SessionNext

\* What the broadcaster assumes of its sessions is SessionLife and no more: the
\* session of viewer.go is shown to provide it (SessionImplementsLife).
THEOREM AssumesSessionLife == Spec => ImplementsSessionLife
<1>1. Init => Life!Init
  BY DEF Init, Life!Init
<1>2. [Next]_vars => [Life!Next]_Life!vars
  BY StepLives DEF LifeStep, Life!vars
<1> QED
  BY <1>1, <1>2, PTL DEF Spec, ImplementsSessionLife, Life!Spec

-----------------------------------------------------------------------------
(* Why ViewerServed fails, and for how long.                                *)

\* The topic has a stream without a source: the stream's context is done, or its
\* subscriber has given up.
SilentTopic(t) ==
  topics[t] # NoViewer /\ (SubDone(topics[t]) \/ sub[topics[t]].pc = "exited")

\* Contexts do not come back to life.
LEMMA SubDoneStays ==
  ASSUME [Next]_vars, NEW s
  PROVE  SubDone(s) => SubDone(s)'
<1>1. ended \subseteq ended' /\ (daemonDone => daemonDone')
  BY StepLives DEF LifeStep, Life!Next, Life!Join, Life!End, Life!Remove, Life!CloseChannel,
                   Life!Cancel, Life!Shutdown, Life!Moves
<1>2. subCancelled \subseteq subCancelled'
  <2>1. ASSUME NEW v \in Viewers, RemoveViewer(v) PROVE subCancelled \subseteq subCancelled'
    BY <2>1 DEF RemoveViewer
  <2>2. ASSUME ~\E v \in Viewers : RemoveViewer(v) PROVE subCancelled' = subCancelled
    BY <2>2 DEF Next, SessionNext, AddViewer, EndWithCancel, EndWithoutCancel, CloseFrameCh, CancelCtx,
                Receive, Shutdown, Publish, SubFail, SubNext, SubStart, TakeMessage, CallbackSend,
                SubStop, SubUnchanged, FanNext, FanStop, FanTake, FanLock, FanUnlock, FanSend,
                FanUnchanged, registryVars, vars
  <2> QED BY <2>1, <2>2
<1> QED BY <1>1, <1>2 DEF SubDone, CtxDone

\* Nor does a subscriber that has given up: its stream is not started again.
LEMMA ExitedStays ==
  ASSUME TypeOK, IdleHasNone, [Next]_vars, NEW s \in Viewers, sub[s].pc = "exited"
  PROVE  sub'[s].pc = "exited"
<1> USE DEF TypeOK
<1>1. ASSUME NEW v \in Viewers, AddViewer(v) PROVE sub'[s].pc = "exited"
  <2>1. v # s
    BY <1>1 DEF AddViewer, IdleHasNone
  <2> QED BY <1>1, <2>1 DEF AddViewer
<1>2. ASSUME NEW r \in Viewers, SubFail(r) \/ SubNext(r) PROVE sub'[s].pc = "exited"
  BY <1>2 DEF SubFail, SubNext, SubStart, TakeMessage, CallbackSend, SubStop, SubGone
<1>3. ASSUME sub' = sub PROVE sub'[s].pc = "exited"
  BY <1>3
<1>4. ASSUME ~\E v \in Viewers : AddViewer(v) \/ SubFail(v) \/ SubNext(v) PROVE sub' = sub
  BY <1>4 DEF Next, SessionNext, EndWithCancel, EndWithoutCancel, RemoveViewer, CloseFrameCh, CancelCtx,
              Receive, Shutdown, Publish, FanNext, FanStop, FanTake, FanLock, FanUnlock, FanSend,
              FanUnchanged, vars
<1> QED BY <1>1, <1>2, <1>3, <1>4

\* A topic changes its stream when it had none, or when it loses its last viewer.
LEMMA StreamReplaced ==
  ASSUME SafetyInv, [Next]_vars, NEW t \in Topics, topics[t] # NoViewer
  PROVE  topics'[t] = topics[t] \/ viewers'[t] = {}
<1>1. ASSUME NEW v \in Viewers, AddViewer(v) PROVE topics'[t] = topics[t]
  BY <1>1 DEF AddViewer, SafetyInv, TypeOK
<1>2. ASSUME NEW v \in Viewers, RemoveViewer(v) PROVE topics'[t] = topics[t] \/ viewers'[t] = {}
  <2>1. topics \in [Topics -> Viewers \cup {NoViewer}] /\ viewers \in [Topics -> SUBSET Viewers]
    BY DEF SafetyInv, TypeOK
  <2> QED BY <1>2, <2>1 DEF RemoveViewer, StopsStream
<1>3. ASSUME ~\E v \in Viewers : AddViewer(v) \/ RemoveViewer(v) PROVE topics' = topics
  BY <1>3 DEF Next, SessionNext, EndWithCancel, EndWithoutCancel, CloseFrameCh, CancelCtx,
              Receive, Shutdown, Publish, SubFail, SubNext, SubStart, TakeMessage, CallbackSend,
              SubStop, SubUnchanged, FanNext, FanStop, FanTake, FanLock, FanUnlock, FanSend,
              FanUnchanged, registryVars, vars
<1> QED BY <1>1, <1>2, <1>3

\* Sessions may come to a topic whose stream has no source and others may go: it
\* stays so until the last one has gone.
SilentStaysSilent ==
  \A t \in Topics : SilentTopic(t) => SilentTopic(t)' \/ viewers'[t] = {}

\* AddViewer starts a stream for an empty topic only.  The stream's context is a
\* child of the first session's and its subscriber's error goes to "_": when
\* that session ends, or the subscriber fails, those that came after it are
\* served no more, however long they and their successors stay.
THEOREM SilentTopicStaysSilent == Spec => [][SilentStaysSilent]_vars
<1>1. SafetyInv /\ FlowInv /\ [Next]_vars => [SilentStaysSilent]_vars
  <2> SUFFICES ASSUME SafetyInv, IdleHasNone, [Next]_vars,
                      NEW t \in Topics, SilentTopic(t), viewers'[t] # {}
               PROVE  SilentTopic(t)'
    BY DEF SilentStaysSilent, FlowInv
  <2>1. topics'[t] = topics[t]
    BY StreamReplaced DEF SilentTopic
  <2>2. PICK s \in Viewers : s = topics[t]
    BY DEF SilentTopic, SafetyInv, TypeOK
  <2>3. SubDone(s)' \/ sub'[s].pc = "exited"
    BY <2>2, SubDoneStays, ExitedStays DEF SilentTopic, SafetyInv
  <2> QED BY <2>1, <2>2, <2>3 DEF SilentTopic, SubDone, CtxDone
<1> QED BY <1>1, SafetyInductive, FlowInductive, PTL DEF Spec
=============================================================================
