--------------------------- MODULE H264EncoderProofs ---------------------------
(***************************************************************************)
(* The safety of the encoder's goroutines for every buffer size, every     *)
(* number of frames and every set of ways in which ffmpeg may end.         *)
(***************************************************************************)
EXTENDS H264Encoder, TLAPS

\* The part of TypeOK that the proofs need.
Shape ==
  /\ inCh \in Seq(Nat)
  /\ accepted \in Nat /\ written \in Nat /\ hand \in Nat
  /\ errCh \in Nat
  /\ closed \in BOOLEAN

\* The caller is past its wait for the feeder.
Past == {"closing", "waiting", "killing", "reaping", "returned"}

\* inCh is closed by Close only, and Close comes after the feeder's end.
CloseAfterFeeder ==
  /\ inClosed => caller \in Past \ {"closing"}
  /\ caller \in Past => feeder = "stopped"

\* What each goroutine has seen when it has gone that far.
Progress ==
  /\ waiter # "waiting" => ~Running
  /\ writer = "done" => ~stdinOpen
  /\ caller \in {"reaping", "returned"} => writer = "done" /\ waiter = "done"

\* A failure is in errCh until Close takes an error from it.
FailureKept ==
  exit.status = "failed" /\ waiter \in {"closing", "done"} =>
    IF caller = "returned" THEN reported ELSE errCh > 0

\* How many frames the writer holds.
Held == IF hand = 0 THEN 0 ELSE 1

\* FramesInOrder without concatenation.
FramesKept ==
  /\ writer = "range" => hand = 0
  /\ writer = "writing" => hand # 0
  /\ writer \in {"range", "writing"} =>
       /\ written + Held + Len(inCh) = accepted
       /\ hand # 0 => hand = written + 1
       /\ \A i \in 1 .. Len(inCh) : inCh[i] = written + Held + i

\* The inductive invariant.
EncInv == Shape /\ CloseAfterFeeder /\ Progress /\ FailureKept /\ FramesKept

LEMMA AppendFacts ==
  ASSUME NEW q \in Seq(Nat), NEW n \in Nat
  PROVE  /\ Append(q, n) \in Seq(Nat)
         /\ Len(Append(q, n)) = Len(q) + 1
         /\ \A i \in 1 .. Len(q) : Append(q, n)[i] = q[i]
         /\ Append(q, n)[Len(q) + 1] = n
         /\ Len(q) \in Nat
  OBVIOUS

LEMMA TailFacts ==
  ASSUME NEW q \in Seq(Nat), q # <<>>
  PROVE  /\ Head(q) = q[1] /\ Head(q) \in Nat
         /\ Tail(q) \in Seq(Nat)
         /\ Len(Tail(q)) = Len(q) - 1
         /\ \A i \in 1 .. Len(Tail(q)) : Tail(q)[i] = q[i + 1]
         /\ Len(q) \in Nat /\ Len(q) >= 1
  OBVIOUS

\* The sequence that FramesInOrder speaks of, when the writer holds a frame.
LEMMA ConsFacts ==
  ASSUME NEW q \in Seq(Nat), NEW n \in Nat
  PROVE  /\ Len(<<n>> \o q) = Len(q) + 1
         /\ DOMAIN (<<n>> \o q) = 1 .. Len(q) + 1
         /\ (<<n>> \o q)[1] = n
         /\ \A i \in 2 .. Len(q) + 1 : (<<n>> \o q)[i] = q[i - 1]
  OBVIOUS

LEMMA EmptyFacts ==
  ASSUME NEW q \in Seq(Nat)
  PROVE  <<>> \o q = q /\ DOMAIN q = 1 .. Len(q) /\ Len(q) \in Nat
  OBVIOUS

-----------------------------------------------------------------------------
LEMMA EncInit == Init => EncInv
<1> SUFFICES ASSUME Init PROVE EncInv
  OBVIOUS
<1>1. Shape
  <2>1. <<>> \in Seq(Nat)
    OBVIOUS
  <2> QED
    BY <2>1 DEF Init, Shape
<1>2. FramesKept
  BY DEF Init, FramesKept, Held
<1> QED
  BY <1>1, <1>2
  DEF Init, EncInv, CloseAfterFeeder, Progress, FailureKept, Past, Running, NotYet

-----------------------------------------------------------------------------
\* The feeder: a frame that inCh accepts becomes its last.
LEMMA FeederKeeps == ASSUME EncInv, FeederNext PROVE EncInv'
<1>0. /\ UNCHANGED <<written, inClosed, errCh, closed, writer, hand, waiter, exit, stdinOpen,
                     caller, reported>>
      /\ feeder # "stopped"
  BY DEF FeederNext, WriteFrame, Accept, Refuse, FeederStop, FeederUnchanged
<1>1. caller \notin Past
  BY <1>0 DEF EncInv, CloseAfterFeeder
<1>2. CloseAfterFeeder' /\ Progress' /\ FailureKept'
  BY <1>0, <1>1 DEF EncInv, CloseAfterFeeder, Progress, FailureKept, Running
<1>3. CASE UNCHANGED <<inCh, accepted>>
  BY <1>0, <1>2, <1>3 DEF EncInv, Shape, FramesKept, Held
<1>4. CASE Accept
  <2>1. accepted' = accepted + 1 /\ inCh' = Append(inCh, accepted + 1)
    BY <1>4 DEF Accept
  <2>2. inCh \in Seq(Nat) /\ accepted \in Nat /\ accepted + 1 \in Nat
    BY DEF EncInv, Shape
  <2>3. /\ Len(inCh') = Len(inCh) + 1 /\ inCh' \in Seq(Nat) /\ Len(inCh) \in Nat
        /\ \A i \in 1 .. Len(inCh) : inCh'[i] = inCh[i]
        /\ inCh'[Len(inCh) + 1] = accepted + 1
    BY <2>1, <2>2, AppendFacts
  <2>4. Shape'
    BY <1>0, <2>1, <2>2, <2>3 DEF EncInv, Shape
  <2>5. Held \in Nat /\ Held' = Held /\ written \in Nat
    BY <1>0 DEF EncInv, Shape, Held
  <2>6. ASSUME writer \in {"range", "writing"}
        PROVE  /\ written + Held + Len(inCh') = accepted'
               /\ \A i \in 1 .. Len(inCh') : inCh'[i] = written + Held + i
    <3>1. /\ written + Held + Len(inCh) = accepted
          /\ \A i \in 1 .. Len(inCh) : inCh[i] = written + Held + i
      BY <2>6 DEF EncInv, FramesKept
    <3>2. written + Held + Len(inCh') = accepted'
      BY <2>1, <2>2, <2>3, <2>5, <3>1
    <3>3. ASSUME NEW i \in 1 .. Len(inCh') PROVE inCh'[i] = written + Held + i
      <4>1. CASE i \in 1 .. Len(inCh)
        BY <2>3, <3>1, <4>1
      <4>2. CASE i = Len(inCh) + 1
        BY <2>3, <2>5, <3>1, <4>2
      <4> QED
        BY <2>3, <4>1, <4>2
    <3> QED
      BY <3>2, <3>3
  <2>7. FramesKept'
    BY <1>0, <2>5, <2>6 DEF EncInv, FramesKept
  <2> QED
    BY <1>2, <2>4, <2>7 DEF EncInv
<1> QED
  BY <1>3, <1>4 DEF FeederNext, WriteFrame, Refuse, FeederStop

\* The writer: it takes the oldest frame and passes it on.
LEMMA WriterKeeps == ASSUME EncInv, WriterNext PROVE EncInv'
<1>0. /\ UNCHANGED <<accepted, inClosed, closed, feeder, waiter, exit, caller, reported>>
      /\ writer # "done"
  BY DEF WriterNext, WriterTake, WriterWrite, WriterFail, WriterEnd, CloseStdin, WriterUnchanged
<1>1. caller \notin {"reaping", "returned"}
  BY <1>0 DEF EncInv, Progress
<1>2. errCh' = errCh \/ errCh' = errCh + 1
  BY DEF WriterNext, WriterTake, WriterWrite, WriterFail, WriterEnd, CloseStdin
<1>3. errCh' \in Nat /\ (errCh > 0 => errCh' > 0)
  BY <1>2 DEF EncInv, Shape
<1>4. writer' = "done" => ~stdinOpen'
  BY DEF WriterNext, WriterTake, WriterWrite, WriterFail, WriterEnd, CloseStdin
<1>5. CloseAfterFeeder' /\ Progress' /\ FailureKept'
  BY <1>0, <1>1, <1>3, <1>4 DEF EncInv, CloseAfterFeeder, Progress, FailureKept, Running
<1>6. CASE WriterTake
  <2>1. /\ writer = "range" /\ inCh # <<>> /\ hand' = Head(inCh) /\ inCh' = Tail(inCh)
        /\ writer' = "writing" /\ written' = written
    BY <1>6 DEF WriterTake, NextFrame
  <2>2. /\ Head(inCh) = inCh[1] /\ Head(inCh) \in Nat
        /\ inCh' \in Seq(Nat) /\ Len(inCh') = Len(inCh) - 1
        /\ \A i \in 1 .. Len(inCh') : inCh'[i] = inCh[i + 1]
        /\ Len(inCh) \in Nat /\ Len(inCh) >= 1
    BY <2>1, TailFacts DEF EncInv, Shape
  <2>3. /\ hand = 0 /\ Held = 0 /\ written \in Nat /\ accepted \in Nat
        /\ written + Len(inCh) = accepted
        /\ \A i \in 1 .. Len(inCh) : inCh[i] = written + i
    BY <2>1 DEF EncInv, Shape, FramesKept, Held
  <2>4. hand' = written + 1 /\ hand' # 0
    BY <2>1, <2>2, <2>3
  <2>5. Held' = 1
    BY <2>4 DEF Held
  <2>6. ASSUME NEW i \in 1 .. Len(inCh') PROVE inCh'[i] = written + 1 + i
    <3>1. i \in Nat /\ i + 1 \in 1 .. Len(inCh)
      BY <2>2
    <3>2. inCh[i + 1] = written + (i + 1)
      BY <2>3, <3>1
    <3>3. written + (i + 1) = written + 1 + i
      BY <2>3, <3>1
    <3>4. inCh'[i] = inCh[i + 1]
      BY <2>2
    <3> QED
      BY <3>2, <3>3, <3>4
  <2>7. written + 1 + Len(inCh') = accepted
    <3>1. Len(inCh') = Len(inCh) - 1 /\ Len(inCh) \in Nat
      BY <2>2
    <3>2. written \in Nat /\ written + Len(inCh) = accepted
      BY <2>3
    <3> QED
      BY <3>1, <3>2
  <2>8. FramesKept'
    BY <1>0, <2>1, <2>4, <2>5, <2>6, <2>7 DEF FramesKept
  <2>9. Shape'
    BY <1>0, <1>3, <2>1, <2>2, <2>4 DEF EncInv, Shape
  <2> QED
    BY <1>5, <2>8, <2>9 DEF EncInv
<1>7. CASE WriterWrite
  <2>1. /\ writer = "writing" /\ hand' = 0 /\ written' = written + 1 /\ writer' = "range"
        /\ inCh' = inCh
    BY <1>7 DEF WriterWrite
  <2>2. /\ hand # 0 /\ Held = 1 /\ written \in Nat /\ Len(inCh) \in Nat
        /\ written + 1 + Len(inCh) = accepted
        /\ \A i \in 1 .. Len(inCh) : inCh[i] = written + 1 + i
    BY <2>1 DEF EncInv, Shape, FramesKept, Held
  <2>3. Held' = 0
    BY <2>1 DEF Held
  <2>4. FramesKept'
    BY <1>0, <2>1, <2>2, <2>3 DEF FramesKept
  <2>5. Shape'
    BY <1>0, <1>3, <2>1 DEF EncInv, Shape
  <2> QED
    BY <1>5, <2>4, <2>5 DEF EncInv
<1>8. CASE WriterFail \/ WriterEnd \/ CloseStdin
  <2>1. /\ writer' \notin {"range", "writing"} /\ inCh' = inCh /\ written' = written
        /\ hand' \in {hand, 0}
    BY <1>8 DEF WriterFail, WriterEnd, CloseStdin
  <2>2. FramesKept'
    BY <2>1 DEF FramesKept
  <2>3. Shape'
    BY <1>0, <1>3, <2>1 DEF EncInv, Shape
  <2> QED
    BY <1>5, <2>2, <2>3 DEF EncInv
<1> QED
  BY <1>6, <1>7, <1>8 DEF WriterNext

-----------------------------------------------------------------------------
\* ffmpeg ends once, before the waiter has seen it end.
LEMMA ProcKeeps == ASSUME EncInv, ProcExit \/ ProcKill PROVE EncInv'
<1>1. /\ UNCHANGED <<frameVars, inClosed, errCh, closed, feeder, writer, hand, waiter, stdinOpen,
                     caller, reported>>
      /\ Running
  BY DEF ProcExit, ProcKill, ProcUnchanged
<1>2. waiter = "waiting"
  BY <1>1 DEF EncInv, Progress
<1>3. Shape' /\ CloseAfterFeeder' /\ FramesKept'
  BY <1>1 DEF EncInv, Shape, CloseAfterFeeder, FramesKept, Held, frameVars
<1>4. Progress' /\ FailureKept'
  BY <1>1, <1>2 DEF EncInv, Progress, FailureKept
<1> QED
  BY <1>3, <1>4 DEF EncInv

\* The waiter: a failure is sent before it goes on to close the channel.
LEMMA WaiterKeeps == ASSUME EncInv, WaiterNext PROVE EncInv'
<1>1. /\ UNCHANGED <<frameVars, inClosed, feeder, writer, hand, exit, stdinOpen, caller, reported>>
      /\ waiter # "done"
  BY DEF WaiterNext, WaiterWait, WaiterReport, WaiterClose, WaiterUnchanged
<1>2. caller \notin {"reaping", "returned"}
  BY <1>1 DEF EncInv, Progress
<1>3. closed' \in BOOLEAN /\ errCh' \in Nat /\ (errCh > 0 => errCh' > 0)
  <2>1. closed' \in {closed, TRUE} /\ errCh' \in {errCh, errCh + 1}
    BY DEF WaiterNext, WaiterWait, WaiterReport, WaiterClose
  <2>2. closed \in BOOLEAN /\ errCh \in Nat
    BY DEF EncInv, Shape
  <2>3. closed' \in BOOLEAN
    BY <2>1, <2>2
  <2>4. errCh' \in Nat /\ (errCh > 0 => errCh' > 0)
    BY <2>1, <2>2
  <2> QED
    BY <2>3, <2>4
<1>4. Shape' /\ CloseAfterFeeder' /\ FramesKept'
  BY <1>1, <1>3 DEF EncInv, Shape, CloseAfterFeeder, FramesKept, Held, frameVars
<1>5. Progress'
  BY <1>1, <1>2
  DEF EncInv, Progress, Running, WaiterNext, WaiterWait, WaiterReport, WaiterClose
<1>6. FailureKept'
  <2>1. CASE WaiterWait
    BY <1>1, <2>1 DEF WaiterWait, AfterStderr, FailureKept
  <2>2. CASE WaiterReport
    <3>1. errCh' > 0
      BY <2>2 DEF WaiterReport, EncInv, Shape
    <3> QED
      BY <1>1, <1>2, <3>1 DEF FailureKept
  <2>3. CASE WaiterClose
    BY <1>1, <1>2, <1>3, <2>3 DEF WaiterClose, EncInv, FailureKept
  <2> QED
    BY <2>1, <2>2, <2>3 DEF WaiterNext
<1> QED
  BY <1>4, <1>5, <1>6 DEF EncInv

\* The caller, and the end of the session.
LEMMA CallerKeeps ==
  ASSUME EncInv, StreamEnd \/ CloseNext \/ SessionEnds PROVE EncInv'
<1>1. UNCHANGED <<frameVars, closed, feeder, writer, hand, waiter, exit, stdinOpen>>
  BY DEF StreamEnd, CloseNext, SessionEnds, Join, CloseInput, CloseTimeout, CloseJoin, CloseReturn,
         CallerUnchanged
<1>2. errCh' \in Nat
  BY DEF StreamEnd, CloseNext, SessionEnds, Join, CloseInput, CloseTimeout, CloseJoin, CloseReturn,
         TakesError, EncInv, Shape
<1>3. Shape' /\ FramesKept'
  BY <1>1, <1>2 DEF EncInv, Shape, FramesKept, Held, frameVars
<1>4. CloseAfterFeeder'
  <2>1. CASE StreamEnd \/ SessionEnds
    BY <1>1, <2>1 DEF StreamEnd, SessionEnds, EncInv, CloseAfterFeeder, Past
  <2>2. CASE Join
    BY <1>1, <2>2 DEF Join, FeederJoined, EncInv, CloseAfterFeeder, Past
  <2>3. CASE CloseInput
    BY <1>1, <2>3 DEF CloseInput, EncInv, CloseAfterFeeder, Past
  <2>4. CASE CloseTimeout \/ CloseJoin \/ CloseReturn
    BY <1>1, <2>4 DEF CloseTimeout, CloseJoin, CloseReturn, EncInv, CloseAfterFeeder, Past
  <2> QED
    BY <2>1, <2>2, <2>3, <2>4 DEF CloseNext
<1>5. Progress'
  <2>1. caller' \in {"reaping", "returned"} => writer = "done" /\ waiter = "done"
    BY DEF StreamEnd, CloseNext, SessionEnds, Join, CloseInput, CloseTimeout, CloseJoin,
           CloseReturn, GroupDone, EncInv, Progress
  <2> QED
    BY <1>1, <2>1 DEF EncInv, Progress, Running
<1>6. FailureKept'
  <2>1. CASE CloseReturn
    <3>1. caller = "reaping" /\ caller' = "returned" /\ reported' = (errCh > 0)
      BY <2>1 DEF CloseReturn, TakesError
    <3> QED
      BY <1>1, <3>1 DEF EncInv, FailureKept
  <2>2. CASE StreamEnd \/ SessionEnds \/ Join \/ CloseInput \/ CloseTimeout \/ CloseJoin
    <3>1. errCh' = errCh /\ reported' = reported /\ (caller' = "returned" <=> caller = "returned")
      BY <2>2 DEF StreamEnd, SessionEnds, Join, CloseInput, CloseTimeout, CloseJoin
    <3> QED
      BY <1>1, <3>1 DEF EncInv, FailureKept
  <2> QED
    BY <2>1, <2>2 DEF CloseNext
<1> QED
  BY <1>3, <1>4, <1>5, <1>6 DEF EncInv

-----------------------------------------------------------------------------
LEMMA EncStep == EncInv /\ [Next]_vars => EncInv'
<1> SUFFICES ASSUME EncInv, [Next]_vars PROVE EncInv'
  OBVIOUS
<1>1. CASE Next
  BY <1>1, FeederKeeps, WriterKeeps, ProcKeeps, WaiterKeeps, CallerKeeps DEF Next
<1>2. CASE UNCHANGED vars
  BY <1>2 DEF vars, frameVars, EncInv, Shape, CloseAfterFeeder, Progress, FailureKept, FramesKept,
              Held, Running
<1> QED
  BY <1>1, <1>2

\* The inductive invariant holds in every state.
THEOREM EncAlways == Spec => []EncInv
  BY EncInit, EncStep, PTL DEF Spec

\* Close never closes inCh while WriteFrame may send on it.
THEOREM InputSafe == Spec => []NoSendOnClosed
<1>1. EncInv => NoSendOnClosed
  BY DEF EncInv, CloseAfterFeeder, NoSendOnClosed
<1> QED
  BY <1>1, EncAlways, PTL

\* A Close that has returned has left neither the process nor a goroutine behind.
THEOREM CloseIsComplete == Spec => []CloseLeavesNothing
<1>1. EncInv => CloseLeavesNothing
  BY DEF EncInv, Progress, CloseLeavesNothing
<1> QED
  BY <1>1, EncAlways, PTL

\* A failed ffmpeg makes Close return an error.
THEOREM FailureReported == Spec => []FailureIsReported
<1>1. EncInv => FailureIsReported
  BY DEF EncInv, Progress, FailureKept, FailureIsReported
<1> QED
  BY <1>1, EncAlways, PTL

\* The accepted frames are with ffmpeg, in the writer's hand or in inCh, in order.
THEOREM FramesOrdered == Spec => []FramesInOrder
<1>1. ASSUME EncInv PROVE FramesInOrder
  <2>0. inCh \in Seq(Nat) /\ written \in Nat /\ hand \in Nat
    BY <1>1 DEF EncInv, Shape
  <2>1. SUFFICES ASSUME writer \in {"range", "writing"}
                 PROVE  LET held == IF hand = 0 THEN <<>> ELSE <<hand>>
                            rest == held \o inCh
                        IN  /\ written + Len(rest) = accepted
                            /\ \A i \in DOMAIN rest : rest[i] = written + i
    BY DEF FramesInOrder
  <2>2. CASE hand = 0
    <3>1. /\ written + Len(inCh) = accepted
          /\ \A i \in 1 .. Len(inCh) : inCh[i] = written + i
      BY <1>1, <2>0, <2>1, <2>2 DEF EncInv, FramesKept, Held
    <3>2. <<>> \o inCh = inCh /\ DOMAIN inCh = 1 .. Len(inCh)
      BY <2>0, EmptyFacts
    <3> QED
      BY <2>2, <3>1, <3>2
  <2>3. CASE hand # 0
    <3>1. /\ written + 1 + Len(inCh) = accepted /\ hand = written + 1 /\ Len(inCh) \in Nat
          /\ \A i \in 1 .. Len(inCh) : inCh[i] = written + 1 + i
      BY <1>1, <2>0, <2>1, <2>3 DEF EncInv, FramesKept, Held
    <3> DEFINE rest == <<hand>> \o inCh
    <3>2. /\ Len(rest) = Len(inCh) + 1 /\ DOMAIN rest = 1 .. Len(inCh) + 1 /\ rest[1] = hand
          /\ \A i \in 2 .. Len(inCh) + 1 : rest[i] = inCh[i - 1]
      BY <2>0, ConsFacts
    <3> HIDE DEF rest
    <3>3. written + Len(rest) = accepted
      BY <2>0, <3>1, <3>2
    <3>4. ASSUME NEW i \in DOMAIN rest PROVE rest[i] = written + i
      <4>1. CASE i = 1
        BY <3>1, <3>2, <4>1
      <4>2. CASE i \in 2 .. Len(inCh) + 1
        BY <2>0, <3>1, <3>2, <4>2
      <4> QED
        BY <3>1, <3>2, <4>1, <4>2
    <3> QED
      BY <2>3, <3>3, <3>4 DEF rest
  <2> QED
    BY <2>0, <2>2, <2>3
<1> QED
  BY <1>1, EncAlways, PTL

-----------------------------------------------------------------------------
(* Types.                                                                   *)

\* A frame that WriteFrame holds has not been counted as accepted.
SendingOwed == feeder = "sending" => accepted < offered

EncType == TypeOK /\ SendingOwed

LEMMA AppendTyped ==
  ASSUME NEW S, NEW q \in Seq(S), NEW n \in S
  PROVE  Append(q, n) \in Seq(S) /\ Len(Append(q, n)) = Len(q) + 1 /\ Len(q) \in Nat
  OBVIOUS

LEMMA TailTyped ==
  ASSUME NEW S, NEW q \in Seq(S), q # <<>>
  PROVE  Tail(q) \in Seq(S) /\ Len(Tail(q)) = Len(q) - 1 /\ Head(q) \in S /\ Len(q) \in Nat
  OBVIOUS

LEMMA TypeInit == Init => EncType
<1> SUFFICES ASSUME Init PROVE EncType
  OBVIOUS
<1>1. <<>> \in Seq(1 .. MaxFrames) /\ Len(<<>>) = 0
  OBVIOUS
<1>2. 0 \in 0 .. MaxFrames /\ 0 \in 0 .. 0 /\ 0 \in 0 .. ErrCap /\ 0 <= InCap
  BY EncoderAssumption DEF ErrCap
<1> QED
  BY <1>1, <1>2 DEF Init, EncType, TypeOK, SendingOwed

LEMMA FeederTyped == ASSUME EncType, FeederNext PROVE EncType'
<1>0. UNCHANGED <<dropIfBusy, written, inClosed, errCh, closed, writer, hand, waiter, exit, stdinOpen,
                  caller, parentDone, cancelled, feedClosed, reported>>
  BY DEF FeederNext, WriteFrame, Accept, Refuse, FeederStop, FeederUnchanged
<1>1. CASE WriteFrame
  <2>1. /\ offered' = offered + 1 /\ offered < MaxFrames /\ UNCHANGED <<inCh, accepted>>
        /\ feeder' \in {"ready", "sending"}
    BY <1>1 DEF WriteFrame
  <2>2. accepted \in Nat /\ offered \in Nat /\ accepted <= offered
    BY EncoderAssumption DEF EncType, TypeOK
  <2>3. accepted' \in 0 .. offered' /\ offered' \in 0 .. MaxFrames /\ accepted' < offered'
    BY <2>1, <2>2, EncoderAssumption
  <2> QED
    BY <1>0, <2>1, <2>3 DEF EncType, TypeOK, SendingOwed
<1>2. CASE Accept
  <2>1. /\ feeder = "sending" /\ feeder' = "ready" /\ Len(inCh) < InCap /\ offered' = offered
        /\ accepted' = accepted + 1 /\ inCh' = Append(inCh, accepted + 1)
    BY <1>2 DEF Accept, InHasRoom
  <2>2. /\ accepted < offered /\ accepted \in Nat /\ offered \in 0 .. MaxFrames
        /\ inCh \in Seq(1 .. MaxFrames) /\ written \in 0 .. accepted
    BY <2>1, EncoderAssumption DEF EncType, TypeOK, SendingOwed
  <2>3. accepted + 1 \in 1 .. MaxFrames /\ accepted + 1 \in 0 .. offered /\ written \in 0 .. accepted + 1
    BY <2>2, EncoderAssumption
  <2>4. inCh' \in Seq(1 .. MaxFrames) /\ Len(inCh') = Len(inCh) + 1 /\ Len(inCh) \in Nat
    BY <2>1, <2>2, <2>3, AppendTyped
  <2>5. Len(inCh') <= InCap
    BY <2>1, <2>4, EncoderAssumption
  <2> QED
    BY <1>0, <2>1, <2>3, <2>4, <2>5 DEF EncType, TypeOK, SendingOwed
<1>3. CASE Refuse \/ FeederStop
  BY <1>0, <1>3 DEF Refuse, FeederStop, EncType, TypeOK, SendingOwed
<1> QED
  BY <1>1, <1>2, <1>3 DEF FeederNext

LEMMA WriterTyped == ASSUME EncInv, EncType, WriterNext PROVE EncType'
<1>0. UNCHANGED <<dropIfBusy, accepted, offered, inClosed, closed, feeder, waiter, exit,
                  caller, parentDone, cancelled, feedClosed, reported>>
  BY DEF WriterNext, WriterTake, WriterWrite, WriterFail, WriterEnd, CloseStdin, WriterUnchanged
<1>1. CASE WriterTake
  <2>1. /\ inCh # <<>> /\ hand' = Head(inCh) /\ inCh' = Tail(inCh) /\ writer' = "writing"
        /\ UNCHANGED <<written, errCh, stdinOpen>>
    BY <1>1 DEF WriterTake, NextFrame
  <2>2. /\ inCh' \in Seq(1 .. MaxFrames) /\ Len(inCh') = Len(inCh) - 1 /\ Len(inCh) \in Nat
        /\ hand' \in 1 .. MaxFrames
    BY <2>1, TailTyped DEF EncType, TypeOK
  <2>3. Len(inCh') <= InCap /\ hand' \in 0 .. MaxFrames
    BY <2>2, EncoderAssumption DEF EncType, TypeOK
  <2> QED
    BY <1>0, <2>1, <2>2, <2>3 DEF EncType, TypeOK, SendingOwed
<1>2. CASE WriterWrite
  <2>1. /\ writer = "writing" /\ written' = written + 1 /\ hand' = 0 /\ writer' = "range"
        /\ UNCHANGED <<inCh, errCh, stdinOpen>>
    BY <1>2 DEF WriterWrite
  <2>2. written + 1 + Len(inCh) = accepted /\ Len(inCh) \in Nat /\ written \in Nat
    BY <2>1, EmptyFacts DEF EncInv, Shape, FramesKept, Held
  <2>3. written' \in 0 .. accepted /\ hand' \in 0 .. MaxFrames
    BY <2>1, <2>2, EncoderAssumption
  <2> QED
    BY <1>0, <2>1, <2>3 DEF EncType, TypeOK, SendingOwed
<1>3. CASE WriterFail \/ WriterEnd \/ CloseStdin
  <2>1. /\ UNCHANGED <<inCh, written>> /\ hand' \in {0, hand} /\ stdinOpen' \in {FALSE, stdinOpen}
        /\ writer' \in {"failing", "closing", "done"}
        /\ errCh' = errCh \/ (errCh < ErrCap /\ errCh' = errCh + 1)
    BY <1>3 DEF WriterFail, WriterEnd, CloseStdin
  <2>2. errCh' \in 0 .. ErrCap
    BY <2>1 DEF EncType, TypeOK, ErrCap
  <2>3. hand' \in 0 .. MaxFrames
    BY <2>1, EncoderAssumption DEF EncType, TypeOK
  <2> QED
    BY <1>0, <2>1, <2>2, <2>3 DEF EncType, TypeOK, SendingOwed
<1> QED
  BY <1>1, <1>2, <1>3 DEF WriterNext

LEMMA ProcTyped == ASSUME EncType, ProcExit \/ ProcKill PROVE EncType'
<1>1. UNCHANGED <<frameVars, inClosed, errCh, closed, feeder, writer, hand, waiter, stdinOpen,
                  caller, parentDone, cancelled, feedClosed, reported>>
  BY DEF ProcExit, ProcKill, ProcUnchanged
<1>2. exit' \in ExitKind
  BY EncoderAssumption DEF ProcExit, ProcKill
<1> QED
  BY <1>1, <1>2 DEF EncType, TypeOK, SendingOwed, frameVars

LEMMA WaiterTyped == ASSUME EncType, WaiterNext PROVE EncType'
<1>1. UNCHANGED <<frameVars, inClosed, feeder, writer, hand, exit, stdinOpen,
                  caller, parentDone, cancelled, feedClosed, reported>>
  BY DEF WaiterNext, WaiterWait, WaiterReport, WaiterClose, WaiterUnchanged
<1>2. /\ waiter' \in {"stderr", "status", "closing", "done"} /\ closed' \in {closed, TRUE}
      /\ errCh' = errCh \/ (errCh < ErrCap /\ errCh' = errCh + 1)
  BY DEF WaiterNext, WaiterWait, WaiterReport, WaiterClose, AfterStderr
<1>3. errCh' \in 0 .. ErrCap
  BY <1>2 DEF EncType, TypeOK, ErrCap
<1> QED
  BY <1>1, <1>2, <1>3 DEF EncType, TypeOK, SendingOwed, frameVars

LEMMA CallerTyped == ASSUME EncType, StreamEnd \/ CloseNext \/ SessionEnds PROVE EncType'
<1>1. UNCHANGED <<frameVars, closed, feeder, writer, hand, waiter, exit, stdinOpen>>
  BY DEF StreamEnd, CloseNext, SessionEnds, Join, CloseInput, CloseTimeout, CloseJoin, CloseReturn,
         CallerUnchanged
<1>2. /\ {inClosed', parentDone', feedClosed', cancelled', reported'} \subseteq BOOLEAN
      /\ caller' \in {"streaming", "joining", "closing", "waiting", "killing", "reaping", "returned"}
  <2>1. CASE StreamEnd \/ Join \/ CloseInput
    BY <2>1 DEF StreamEnd, Join, CloseInput, CallerUnchanged, EncType, TypeOK
  <2>2. CASE CloseTimeout \/ CloseJoin
    BY <2>2 DEF CloseTimeout, CloseJoin, CallerUnchanged, EncType, TypeOK
  <2>4. CASE CloseReturn
    <3>1. reported' \in BOOLEAN
      BY <2>4 DEF CloseReturn, TakesError
    <3>2. UNCHANGED <<inClosed, parentDone, feedClosed, cancelled>> /\ caller' = "returned"
      BY <2>4 DEF CloseReturn, CallerUnchanged
    <3> QED
      BY <3>1, <3>2 DEF EncType, TypeOK
  <2>3. CASE SessionEnds
    BY <2>3 DEF SessionEnds, EncType, TypeOK
  <2> QED
    BY <2>1, <2>2, <2>3, <2>4 DEF CloseNext
<1>3. errCh' \in 0 .. ErrCap
  BY DEF StreamEnd, CloseNext, SessionEnds, Join, CloseInput, CloseTimeout, CloseJoin, CloseReturn,
         TakesError, EncType, TypeOK, ErrCap
<1> QED
  BY <1>1, <1>2, <1>3 DEF EncType, TypeOK, SendingOwed, frameVars

LEMMA TypeAlways == Spec => []EncType
<1>1. EncInv /\ EncType /\ [Next]_vars => EncType'
  <2> SUFFICES ASSUME EncInv, EncType, [Next]_vars PROVE EncType'
    OBVIOUS
  <2>1. CASE Next
    BY <2>1, FeederTyped, WriterTyped, ProcTyped, WaiterTyped, CallerTyped DEF Next
  <2>2. CASE UNCHANGED vars
    BY <2>2 DEF vars, frameVars, EncType, TypeOK, SendingOwed
  <2> QED
    BY <2>1, <2>2
<1> QED
  BY TypeInit, <1>1, EncAlways, PTL DEF Spec

\* Every variable keeps its range: no channel exceeds its capacity, and ffmpeg
\* never gets more frames than were accepted.
THEOREM TypeCorrect == Spec => []TypeOK
<1>1. EncType => TypeOK
  BY DEF EncType
<1> QED
  BY <1>1, TypeAlways, PTL

-----------------------------------------------------------------------------
(* How Close may hang.                                                      *)

\* Close waits for its goroutines.
InClose == caller \in {"waiting", "killing"}

\* Close found the process ended and left inCh open, and the writer waits for
\* a frame or for the end of inCh.
LeftOpen == InClose /\ ~inClosed /\ writer = "range" /\ inCh = <<>>

\* The guards of the writer's steps and of the waiter's, ffmpeg having ended.
WriterCanGoOn ==
  \/ writer = "range" /\ (inCh # <<>> \/ inClosed)
  \/ writer = "writing"
  \/ writer = "failing" /\ errCh < ErrCap
  \/ writer = "closing"

WaiterCanGoOn ==
  \/ waiter \in {"waiting", "closing"}
  \/ waiter \in {"stderr", "status"} /\ errCh < ErrCap

\* Once ffmpeg has ended, a Close that waits has its two goroutines done, or one
\* of them can go on, or it is in one of two traps.
OnlyTwoTraps ==
  InClose /\ ~Running =>
    GroupDone \/ WriterCanGoOn \/ WaiterCanGoOn \/ LeftOpen \/ ErrorsStuck

\* The first trap has one cause: the process has ended, and the waiter closed
\* "closed" before Close looked at it.
LeftOpenHasCause == LeftOpen => closed /\ waiter = "done" /\ ~Running /\ feeder = "stopped"

\* What the two need: Close closes inCh unless the waiter has closed "closed".
CloseInv ==
  /\ closed <=> waiter = "done"
  /\ InClose => inClosed \/ closed

LEMMA CloseInvKept == ASSUME EncInv, CloseInv, [Next]_vars PROVE CloseInv'
<1>1. CASE FeederNext
  BY <1>1 DEF FeederNext, WriteFrame, Accept, Refuse, FeederStop, FeederUnchanged, CloseInv, InClose
<1>2. CASE WriterNext
  BY <1>2 DEF WriterNext, WriterTake, WriterWrite, WriterFail, WriterEnd, CloseStdin,
              WriterUnchanged, CloseInv, InClose
<1>3. CASE ProcExit \/ ProcKill \/ SessionEnds
  BY <1>3 DEF ProcExit, ProcKill, ProcUnchanged, SessionEnds, CloseInv, InClose
<1>4. CASE WaiterNext
  <2>1. UNCHANGED <<inClosed, caller>>
    BY <1>4 DEF WaiterNext, WaiterWait, WaiterReport, WaiterClose, WaiterUnchanged
  <2>2. (closed' <=> waiter' = "done") /\ (closed => closed')
    BY <1>4 DEF WaiterNext, WaiterWait, WaiterReport, WaiterClose, AfterStderr, CloseInv
  <2> QED
    BY <2>1, <2>2 DEF CloseInv, InClose
<1>5. CASE StreamEnd \/ CloseNext
  <2>1. UNCHANGED <<closed, waiter>>
    BY <1>5 DEF StreamEnd, CloseNext, Join, CloseInput, CloseTimeout, CloseJoin, CloseReturn,
                CallerUnchanged
  <2>2. CASE CloseInput
    BY <2>1, <2>2 DEF CloseInput, CloseInv, InClose
  <2>3. CASE StreamEnd \/ Join \/ CloseTimeout \/ CloseJoin \/ CloseReturn
    BY <2>1, <2>3 DEF StreamEnd, Join, CloseTimeout, CloseJoin, CloseReturn, CloseInv, InClose
  <2> QED
    BY <1>5, <2>2, <2>3 DEF CloseNext
<1>6. CASE UNCHANGED vars
  BY <1>6 DEF vars, CloseInv, InClose
<1> QED
  BY <1>1, <1>2, <1>3, <1>4, <1>5, <1>6 DEF Next

LEMMA CloseInvAlways == Spec => [](EncInv /\ EncType /\ CloseInv)
<1>1. Init => CloseInv
  BY DEF Init, CloseInv, InClose
<1>2. EncInv /\ CloseInv /\ [Next]_vars => CloseInv'
  BY CloseInvKept
<1> QED
  BY <1>1, <1>2, EncAlways, TypeAlways, PTL DEF Spec

\* A Close that waits for its goroutines after the end of ffmpeg is held up by
\* nothing but the open inCh and the full errCh.
THEOREM CloseHangsInTwoWays == Spec => [](OnlyTwoTraps /\ LeftOpenHasCause)
<1>1. EncInv /\ EncType /\ CloseInv => OnlyTwoTraps
  <2> SUFFICES ASSUME EncInv, EncType, CloseInv, InClose, ~Running
               PROVE  GroupDone \/ WriterCanGoOn \/ WaiterCanGoOn \/ LeftOpen \/ ErrorsStuck
    BY DEF OnlyTwoTraps
  <2>1. errCh < ErrCap \/ errCh = ErrCap
    BY DEF EncType, TypeOK, ErrCap
  <2>2. /\ writer \in {"range", "writing", "failing", "closing", "done"}
        /\ waiter \in {"waiting", "stderr", "status", "closing", "done"}
    BY DEF EncType, TypeOK
  <2> QED
    BY <2>1, <2>2 DEF GroupDone, WriterCanGoOn, WaiterCanGoOn, LeftOpen, ErrorsStuck
<1>2. EncInv /\ EncType /\ CloseInv => LeftOpenHasCause
  BY DEF EncInv, CloseAfterFeeder, Progress, Past, CloseInv, LeftOpenHasCause, LeftOpen, InClose
<1> QED
  BY <1>1, <1>2, CloseInvAlways, PTL

\* The first trap does not open: nobody closes inCh or sends on it any more.
LEMMA LeftOpenStays == ASSUME EncInv, LeftOpen, [Next]_vars PROVE LeftOpen'
<1>1. feeder = "stopped" /\ caller \in {"waiting", "killing"} /\ writer = "range"
      /\ inCh = <<>> /\ ~inClosed
  BY DEF EncInv, CloseAfterFeeder, Past, LeftOpen, InClose
<1>2. ~FeederNext /\ ~WriterNext
  BY <1>1 DEF FeederNext, WriteFrame, Accept, Refuse, FeederStop, WriterNext, WriterTake,
              WriterWrite, WriterFail, WriterEnd, CloseStdin
<1>3. CASE ProcExit \/ ProcKill \/ WaiterNext \/ SessionEnds
  <2>1. UNCHANGED <<frameVars, inClosed, writer, caller>>
    BY <1>3 DEF ProcExit, ProcKill, ProcUnchanged, WaiterNext, WaiterWait, WaiterReport, WaiterClose,
                WaiterUnchanged, SessionEnds
  <2> QED
    BY <2>1 DEF frameVars, LeftOpen, InClose
<1>4. CASE StreamEnd \/ CloseNext
  <2>1. UNCHANGED <<frameVars, writer>>
    BY <1>4 DEF StreamEnd, CloseNext, Join, CloseInput, CloseTimeout, CloseJoin, CloseReturn,
                CallerUnchanged
  <2>2. inClosed' = inClosed /\ caller' = "killing"
    BY <1>1, <1>4 DEF StreamEnd, CloseNext, Join, CloseInput, CloseTimeout, CloseJoin, CloseReturn,
                      GroupDone
  <2> QED
    BY <2>1, <2>2 DEF frameVars, LeftOpen, InClose
<1>5. CASE UNCHANGED vars
  BY <1>5 DEF vars, frameVars, LeftOpen, InClose
<1> QED
  BY <1>2, <1>3, <1>4, <1>5 DEF Next

\* Nor does the second: only a Close that is through takes an error out.
LEMMA ErrorsStuckStays == ASSUME EncInv, ErrorsStuck, [Next]_vars PROVE ErrorsStuck'
<1>1. errCh = ErrCap /\ ~(errCh < ErrCap) /\ ErrCap = 1
  BY DEF ErrorsStuck, ErrCap
<1>2. caller \notin {"reaping", "returned"}
  BY DEF EncInv, Progress, ErrorsStuck
<1>3. CASE FeederNext \/ ProcExit \/ ProcKill \/ SessionEnds
  <2>1. UNCHANGED <<errCh, writer, waiter>>
    BY <1>3 DEF FeederNext, WriteFrame, Accept, Refuse, FeederStop, FeederUnchanged, ProcExit,
                ProcKill, ProcUnchanged, SessionEnds
  <2> QED
    BY <2>1 DEF ErrorsStuck
<1>4. CASE WriterNext
  <2>1. waiter' = waiter /\ (writer = "failing" => FALSE) /\ errCh' = errCh
    BY <1>1, <1>4 DEF WriterNext, WriterTake, WriterWrite, WriterFail, WriterEnd, CloseStdin,
                      WriterUnchanged
  <2> QED
    BY <2>1 DEF ErrorsStuck
<1>5. CASE WaiterNext
  <2>1. writer' = writer /\ errCh' = errCh /\ waiter \notin {"stderr", "status"}
    BY <1>1, <1>5 DEF WaiterNext, WaiterWait, WaiterReport, WaiterClose, WaiterUnchanged
  <2> QED
    BY <2>1 DEF ErrorsStuck
<1>6. CASE StreamEnd \/ CloseNext
  <2>1. UNCHANGED <<errCh, writer, waiter>>
    BY <1>2, <1>6 DEF StreamEnd, CloseNext, Join, CloseInput, CloseTimeout, CloseJoin, CloseReturn,
                      CallerUnchanged
  <2> QED
    BY <2>1 DEF ErrorsStuck
<1>7. CASE UNCHANGED vars
  BY <1>7 DEF vars, ErrorsStuck
<1> QED
  BY <1>3, <1>4, <1>5, <1>6, <1>7 DEF Next

\* Either trap is for ever: whatever else happens, a signal to ffmpeg or the end
\* of the session included, that Close never returns.
THEOREM HangIsForEver == Spec => []((LeftOpen \/ ErrorsStuck) => [](caller # "returned"))
<1>1. EncInv /\ (LeftOpen \/ ErrorsStuck) /\ [Next]_vars => (LeftOpen \/ ErrorsStuck)'
  BY LeftOpenStays, ErrorsStuckStays
<1>2. EncInv /\ (LeftOpen \/ ErrorsStuck) => caller # "returned"
  BY DEF EncInv, Progress, LeftOpen, InClose, ErrorsStuck
<1> QED
  BY <1>1, <1>2, EncAlways, PTL DEF Spec

-----------------------------------------------------------------------------
(* The session assumed here uses its encoder as EncoderUse says, and so does *)
(* the session of ViewerSession.                                            *)

OwnerState ==
  CASE caller = "streaming" -> "streaming"
    [] caller = "joining" -> "joining"
    [] caller \in Past \ {"returned"} -> "closing"
    [] caller = "returned" -> "closed"

FeederState == IF feeder = "sending" THEN "busy" ELSE feeder

FeedersNow == [e \in {"this"} |-> FeederState]
OwnersNow == [e \in {"this"} |-> OwnerState]
OversNow == IF parentDone \/ feedClosed THEN {"this"} ELSE {}

Use == INSTANCE EncoderUse WITH
  Encoders <- {"this"}, feeder <- FeedersNow, owner <- OwnersNow, over <- OversNow

ImplementsEncoderUse == Use!Spec

UseStep == Use!Next \/ UNCHANGED <<FeedersNow, OwnersNow, OversNow>>

\* The states of the one encoder, read and changed.
LEMMA UsePoint ==
  /\ FeedersNow["this"] = FeederState /\ OwnersNow["this"] = OwnerState
  /\ FeedersNow' = [FeedersNow EXCEPT !["this"] = FeederState']
  /\ OwnersNow' = [OwnersNow EXCEPT !["this"] = OwnerState']
  BY DEF FeedersNow, OwnersNow

LEMMA FeederUses == ASSUME FeederNext PROVE UseStep
<1>1. UNCHANGED <<OwnersNow, OversNow>>
  <2>1. UNCHANGED <<caller, parentDone, feedClosed>>
    BY DEF FeederNext, WriteFrame, Accept, Refuse, FeederStop, FeederUnchanged
  <2> QED BY <2>1 DEF OwnersNow, OversNow, OwnerState
<1>2. CASE WriteFrame
  <2>1. CASE closed
    BY <1>1, <1>2, <2>1 DEF WriteFrame, UseStep, FeedersNow, FeederState
  <2>2. CASE ~closed
    <3>1. FeederState = "ready" /\ FeederState' = "busy"
      BY <1>2, <2>2 DEF WriteFrame, FeederState
    <3>2. Use!Offer("this")
      BY <1>1, <3>1, UsePoint DEF Use!Offer, Use!Feeds
    <3> QED BY <3>2 DEF UseStep, Use!Next
  <2> QED BY <2>1, <2>2
<1>3. CASE Accept \/ Refuse
  <2>1. FeederState = "busy" /\ FeederState' = "ready"
    BY <1>3 DEF Accept, Refuse, FeederState
  <2>2. Use!Return("this")
    BY <1>1, <2>1, UsePoint DEF Use!Return, Use!Feeds
  <2> QED BY <2>2 DEF UseStep, Use!Next
<1>4. CASE FeederStop
  <2>1. FeederState = "ready" /\ FeederState' = "stopped" /\ "this" \in OversNow
    BY <1>4 DEF FeederStop, FeederState, OversNow
  <2>2. Use!Stop("this")
    BY <1>1, <2>1, UsePoint DEF Use!Stop, Use!Feeds
  <2> QED BY <2>2 DEF UseStep, Use!Next
<1> QED BY <1>2, <1>3, <1>4 DEF FeederNext

LEMMA CallerUses == ASSUME StreamEnd \/ CloseNext PROVE UseStep
<1>1. UNCHANGED <<FeedersNow, OversNow>>
  BY DEF StreamEnd, CloseNext, Join, CloseInput, CloseTimeout, CloseJoin, CloseReturn,
         CallerUnchanged, FeedersNow, OversNow, FeederState
<1>2. CASE StreamEnd
  <2>1. OwnerState = "streaming" /\ OwnerState' = "joining"
    BY <1>2 DEF StreamEnd, OwnerState, Past
  <2>2. Use!StreamEnds("this")
    BY <1>1, <2>1, UsePoint DEF Use!StreamEnds, Use!Owns
  <2> QED BY <2>2 DEF UseStep, Use!Next
<1>3. CASE Join
  <2>1. OwnerState = "joining" /\ OwnerState' = "closing"
    BY <1>3 DEF Join, OwnerState, Past
  <2>2. FeederState = "stopped"
    BY <1>3 DEF Join, FeederJoined, FeederState
  <2>3. Use!Close("this")
    BY <1>1, <2>1, <2>2, UsePoint DEF Use!Close, Use!Owns
  <2> QED BY <2>3 DEF UseStep, Use!Next
<1>4. CASE CloseInput \/ CloseTimeout \/ CloseJoin
  <2>1. OwnerState' = OwnerState
    BY <1>4 DEF CloseInput, CloseTimeout, CloseJoin, OwnerState, Past
  <2> QED BY <1>1, <2>1 DEF UseStep, OwnersNow
<1>5. CASE CloseReturn
  <2>1. OwnerState = "closing" /\ OwnerState' = "closed"
    BY <1>5 DEF CloseReturn, OwnerState, Past
  <2>2. Use!Closed("this")
    BY <1>1, <2>1, UsePoint DEF Use!Closed, Use!Owns
  <2> QED BY <2>2 DEF UseStep, Use!Next
<1> QED BY <1>2, <1>3, <1>4, <1>5 DEF CloseNext

LEMMA StepUses == [Next]_vars => UseStep
<1> SUFFICES ASSUME [Next]_vars PROVE UseStep
  OBVIOUS
<1>1. ASSUME UNCHANGED <<feeder, caller, parentDone, feedClosed>> PROVE UseStep
  BY <1>1 DEF UseStep, FeedersNow, OwnersNow, OversNow, FeederState, OwnerState
<1>2. CASE WriterNext \/ WaiterNext \/ ProcExit \/ ProcKill
  <2>1. UNCHANGED <<feeder, caller, parentDone, feedClosed>>
    BY <1>2 DEF WriterNext, WriterTake, WriterWrite, WriterFail, WriterEnd, CloseStdin, WriterUnchanged,
                WaiterNext, WaiterWait, WaiterReport, WaiterClose, WaiterUnchanged, ProcExit, ProcKill,
                ProcUnchanged
  <2> QED BY <1>1, <2>1
<1>3. CASE UNCHANGED vars
  BY <1>1, <1>3 DEF vars
<1>4. CASE SessionEnds
  <2>1. OversNow \subseteq OversNow'
    BY <1>4 DEF SessionEnds, OversNow
  <2>2. UNCHANGED <<FeedersNow, OwnersNow>>
    BY <1>4 DEF SessionEnds, FeedersNow, OwnersNow, FeederState, OwnerState
  <2>3. Use!SessionsEnd
    BY <2>1, <2>2 DEF Use!SessionsEnd
  <2> QED BY <2>3 DEF UseStep, Use!Next
<1> QED BY <1>2, <1>3, <1>4, FeederUses, CallerUses DEF Next

\* What the encoder assumes of the session around it is EncoderUse and no more:
\* the session of viewer.go is shown to provide it (SessionImplementsUse).
THEOREM AssumesEncoderUse == Spec => ImplementsEncoderUse
<1>1. Init => Use!Init
  BY DEF Init, Use!Init, FeedersNow, OwnersNow, OversNow, FeederState, OwnerState, Past
<1>2. [Next]_vars => [Use!Next]_Use!vars
  BY StepUses DEF UseStep, Use!vars
<1> QED
  BY <1>1, <1>2, PTL DEF Spec, ImplementsEncoderUse, Use!Spec
=============================================================================
