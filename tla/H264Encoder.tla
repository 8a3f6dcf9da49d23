----------------------------- MODULE H264Encoder -----------------------------
(***************************************************************************)
(* internal/infrastructure/h264_encoder: the goroutines around one ffmpeg  *)
(* process, driven the way a WebRTC session drives them (viewer.go, the    *)
(* encoding goroutine): a feeder calls WriteFrame, the caller reads NAL    *)
(* units until something ends, waits for the feeder (subG.Wait) and calls  *)
(* Close.                                                                  *)
(*                                                                         *)
(* Frames are numbered in the order in which inCh accepts them.  ffmpeg    *)
(* may stall (its output is not read), crash, or exit when its stdin is    *)
(* closed; it is killed when the encoder's context is done.  errCh is a    *)
(* buffered channel of one slot that only Close ever reads.                *)
(***************************************************************************)
EXTENDS Integers, Sequences

CONSTANTS
  InCap,      \* capacity of inCh (opts.InputBuffer, 128 by default)
  MaxFrames,  \* bound: frames that reach WriteFrame
  Exits       \* the ways ffmpeg may end by itself or by a kill

ErrCap == 1

ExitKind == [status : {"ok", "failed", "killed"}, stderr : BOOLEAN]

NotYet == [status |-> "running", stderr |-> FALSE]

ASSUME EncoderAssumption ==
  /\ InCap \in Nat \ {0}
  /\ MaxFrames \in Nat
  /\ Exits \subseteq ExitKind

VARIABLES
  dropIfBusy, \* opts.DropIfBusy
  inCh,       \* frames accepted and not yet taken by the writer
  inClosed,   \* Close has closed inCh
  accepted,   \* how many frames inCh has accepted
  offered,    \* how many frames were given to WriteFrame
  written,    \* how many frames the writer has passed to ffmpeg's stdin
  errCh,      \* how many errors wait in errCh
  closed,     \* the waiter has closed the channel "closed"
  feeder,     \* the goroutine that calls WriteFrame
  writer,     \* the goroutine that writes stdin
  hand,       \* the frame the writer holds, 0 if none
  waiter,     \* the goroutine that waits for the process
  exit,       \* how ffmpeg ended; status "running" before
  stdinOpen,
  caller,     \* the encoding goroutine, Close included
  parentDone, \* the session's context is done
  cancelled,  \* Close has called e.cancel()
  feedClosed, \* the session's frame channel is closed
  reported    \* Close returned an error

frameVars == <<dropIfBusy, inCh, accepted, offered, written>>
vars == <<frameVars, inClosed, errCh, closed, feeder, writer, hand, waiter, exit,
          stdinOpen, caller, parentDone, cancelled, feedClosed, reported>>

TypeOK ==
  /\ inCh \in Seq(1 .. MaxFrames) /\ Len(inCh) <= InCap
  /\ accepted \in 0 .. offered /\ offered \in 0 .. MaxFrames /\ written \in 0 .. accepted
  /\ errCh \in 0 .. ErrCap
  /\ {dropIfBusy, inClosed, closed, stdinOpen, parentDone, cancelled, feedClosed, reported} \subseteq BOOLEAN
  /\ feeder \in {"ready", "sending", "stopped"}
  /\ writer \in {"range", "writing", "failing", "closing", "done"}
  /\ hand \in 0 .. MaxFrames
  /\ waiter \in {"waiting", "stderr", "status", "closing", "done"}
  /\ exit \in ExitKind \cup {NotYet}
  /\ caller \in {"streaming", "joining", "closing", "waiting", "killing", "reaping", "returned"}

Init ==
  /\ dropIfBusy \in BOOLEAN
  /\ inCh = <<>> /\ inClosed = FALSE
  /\ accepted = 0 /\ offered = 0 /\ written = 0
  /\ errCh = 0 /\ closed = FALSE
  /\ feeder = "ready" /\ writer = "range" /\ hand = 0 /\ waiter = "waiting"
  /\ exit = NotYet /\ stdinOpen = TRUE
  /\ caller = "streaming"
  /\ parentDone = FALSE /\ cancelled = FALSE /\ feedClosed = FALSE
  /\ reported = FALSE

Running == exit.status = "running"

\* The encoder's context is a child of the session's; its cancel is Close's.
CtxDone == parentDone \/ cancelled

-----------------------------------------------------------------------------
(* The feeder: WriteFrame.                                                  *)

FeederUnchanged ==
  UNCHANGED <<dropIfBusy, written, inClosed, errCh, closed, writer, hand, waiter, exit, stdinOpen,
              caller, parentDone, cancelled, feedClosed, reported>>

\* A frame arrives.  WriteFrame first looks at closed: io.EOF, which the feeder ignores.
WriteFrame ==
  /\ feeder = "ready"
  /\ offered < MaxFrames
  /\ offered' = offered + 1
  /\ feeder' = IF closed THEN "ready" ELSE "sending"
  /\ UNCHANGED <<inCh, accepted>> /\ FeederUnchanged

InHasRoom == Len(inCh) < InCap

Accept ==
  /\ feeder = "sending"
  /\ ~inClosed
  /\ InHasRoom
  /\ accepted' = accepted + 1
  /\ inCh' = Append(inCh, accepted + 1)
  /\ feeder' = "ready"
  /\ UNCHANGED offered /\ FeederUnchanged

\* Bug: WriteFrame waits for room only.
GivesUpNever == FALSE

\* DropIfBusy: the default branch; otherwise the select also waits for closed.
GivesUp == IF dropIfBusy THEN Len(inCh) = InCap ELSE closed

Refuse ==
  /\ feeder = "sending"
  /\ GivesUp
  /\ feeder' = "ready"
  /\ UNCHANGED <<inCh, accepted, offered>> /\ FeederUnchanged

\* The session's context is done or its frame channel closed: the feeder returns.
FeederStop ==
  /\ feeder = "ready"
  /\ parentDone \/ feedClosed
  /\ feeder' = "stopped"
  /\ UNCHANGED <<inCh, accepted, offered>> /\ FeederUnchanged

-----------------------------------------------------------------------------
(* The writer: for frame := range inCh { Write; Flush }; stdin.Close().     *)

WriterUnchanged ==
  UNCHANGED <<dropIfBusy, accepted, offered, inClosed, closed, feeder, waiter, exit,
              caller, parentDone, cancelled, feedClosed, reported>>

\* Bug: last in, first out.
NextFrameNewest == inCh[Len(inCh)]

NextFrame == Head(inCh)

WriterTake ==
  /\ writer = "range"
  /\ inCh # <<>>
  /\ hand' = NextFrame
  /\ inCh' = Tail(inCh)
  /\ writer' = "writing"
  /\ UNCHANGED <<written, errCh, stdinOpen>> /\ WriterUnchanged

\* Write and Flush succeed; with a stalled ffmpeg they may never do.
WriterWrite ==
  /\ writer = "writing"
  /\ Running
  /\ written' = written + 1
  /\ hand' = 0
  /\ writer' = "range"
  /\ UNCHANGED <<inCh, errCh, stdinOpen>> /\ WriterUnchanged

\* Write or Flush fails: ffmpeg has ended, or lives and has closed its stdin.  The
\* error goes to errCh, when it has room.
WriterFail ==
  /\ \/ /\ writer = "writing"
        /\ hand' = 0
        /\ writer' = "failing"
        /\ UNCHANGED errCh
     \/ /\ writer = "failing"
        /\ errCh < ErrCap
        /\ errCh' = errCh + 1
        /\ writer' = "closing"
        /\ UNCHANGED hand
  /\ UNCHANGED <<inCh, written, stdinOpen>> /\ WriterUnchanged

\* range ends when inCh is closed and empty.
WriterEnd ==
  /\ writer = "range"
  /\ inClosed /\ inCh = <<>>
  /\ writer' = "closing"
  /\ UNCHANGED <<inCh, written, hand, errCh, stdinOpen>> /\ WriterUnchanged

CloseStdin ==
  /\ writer = "closing"
  /\ stdinOpen' = FALSE
  /\ writer' = "done"
  /\ UNCHANGED <<inCh, written, hand, errCh>> /\ WriterUnchanged

-----------------------------------------------------------------------------
(* ffmpeg.                                                                  *)

ProcUnchanged ==
  UNCHANGED <<frameVars, inClosed, errCh, closed, feeder, writer, hand, waiter, stdinOpen,
              caller, parentDone, cancelled, feedClosed, reported>>

\* It exits at the end of its input, or fails at any time.
ProcExit ==
  /\ Running
  /\ \E e \in Exits :
       /\ e.status # "killed"
       /\ e.status = "ok" => ~stdinOpen
       /\ exit' = e
  /\ ProcUnchanged

\* Bug: exec.Command, which ignores the context.
KillSentNever == FALSE

KillSent == CtxDone

\* exec.CommandContext kills it when the context is done.
ProcKill ==
  /\ Running /\ KillSent
  /\ \E e \in Exits : e.status = "killed" /\ exit' = e
  /\ ProcUnchanged

-----------------------------------------------------------------------------
(* The waiter: cmd.Wait, errors to errCh, close(closed).                    *)

WaiterUnchanged ==
  UNCHANGED <<frameVars, inClosed, feeder, writer, hand, exit, stdinOpen,
              caller, parentDone, cancelled, feedClosed, reported>>

\* Where the waiter goes once stderr is dealt with: a kill is not an error.
AfterStderr == IF exit.status = "failed" THEN "status" ELSE "closing"

WaiterWait ==
  /\ waiter = "waiting"
  /\ ~Running
  /\ waiter' = IF exit.stderr THEN "stderr" ELSE AfterStderr
  /\ UNCHANGED <<errCh, closed>> /\ WaiterUnchanged

\* errCh <- stderr text, errCh <- exit status: each waits for room.
WaiterReport ==
  /\ waiter \in {"stderr", "status"}
  /\ errCh < ErrCap
  /\ errCh' = errCh + 1
  /\ waiter' = IF waiter = "stderr" THEN AfterStderr ELSE "closing"
  /\ UNCHANGED closed /\ WaiterUnchanged

WaiterClose ==
  /\ waiter = "closing"
  /\ closed' = TRUE
  /\ waiter' = "done"
  /\ UNCHANGED errCh /\ WaiterUnchanged

-----------------------------------------------------------------------------
(* The caller: the streaming loop, subG.Wait, then Close.                   *)

CallerUnchanged ==
  UNCHANGED <<frameVars, closed, feeder, writer, hand, waiter, exit, stdinOpen,
              parentDone, feedClosed>>

\* NextNAL ends with the output, WriteSample fails, or the context is done.
StreamEnd ==
  /\ caller = "streaming"
  /\ caller' = "joining"
  /\ UNCHANGED <<inClosed, cancelled, errCh, reported>> /\ CallerUnchanged

\* Bug: Close is called without waiting for the feeder.
FeederJoinedAlways == TRUE

FeederJoined == feeder = "stopped"

\* subG.Wait() on every way out of the loop; the deferred enc.Close() follows.
Join ==
  /\ caller = "joining"
  /\ FeederJoined
  /\ caller' = "closing"
  /\ UNCHANGED <<inClosed, cancelled, errCh, reported>> /\ CallerUnchanged

\* select { <-closed: ; default: close(inCh) }
CloseInput ==
  /\ caller = "closing"
  /\ inClosed' = ~closed
  /\ caller' = "waiting"
  /\ UNCHANGED <<cancelled, errCh, reported>> /\ CallerUnchanged

\* After one second ffmpeg is killed.
CloseTimeout ==
  /\ caller = "waiting"
  /\ cancelled' = TRUE
  /\ caller' = "killing"
  /\ UNCHANGED <<inClosed, errCh, reported>> /\ CallerUnchanged

\* Bug: only the process is waited for.
GroupDoneProc == waiter = "done"

\* wg.Wait returns: both goroutines are done.
GroupDone == writer = "done" /\ waiter = "done"

CloseJoin ==
  /\ caller \in {"waiting", "killing"}
  /\ GroupDone
  /\ cancelled' = TRUE
  /\ caller' = "reaping"
  /\ UNCHANGED <<inClosed, errCh, reported>> /\ CallerUnchanged

\* Bug: the error channel is not looked at.
TakesErrorNever == FALSE

TakesError == errCh > 0

\* select { err := <-errCh: return err ; default: return nil }
CloseReturn ==
  /\ caller = "reaping"
  /\ reported' = TakesError
  /\ errCh' = IF TakesError THEN errCh - 1 ELSE errCh
  /\ caller' = "returned"
  /\ UNCHANGED <<inClosed, cancelled>> /\ CallerUnchanged

-----------------------------------------------------------------------------
\* The session ends: its context is cancelled, or its frame channel closed.
SessionEnds ==
  /\ \/ ~parentDone /\ parentDone' = TRUE /\ UNCHANGED feedClosed
     \/ ~feedClosed /\ feedClosed' = TRUE /\ UNCHANGED parentDone
  /\ UNCHANGED <<frameVars, inClosed, errCh, closed, feeder, writer, hand, waiter, exit,
                 stdinOpen, caller, cancelled, reported>>

FeederNext == WriteFrame \/ Accept \/ Refuse \/ FeederStop
WriterNext == WriterTake \/ WriterWrite \/ WriterFail \/ WriterEnd \/ CloseStdin
WaiterNext == WaiterWait \/ WaiterReport \/ WaiterClose
CloseNext == Join \/ CloseInput \/ CloseTimeout \/ CloseJoin \/ CloseReturn

Next ==
  \/ FeederNext \/ WriterNext \/ WaiterNext
  \/ ProcExit \/ ProcKill
  \/ StreamEnd \/ CloseNext
  \/ SessionEnds

Spec == Init /\ [][Next]_vars

\* Nothing holds the failure up: a write to an ffmpeg that runs may wait for ever.
WriterMustFail == (writer = "writing" => ~Running) /\ WriterFail

\* Goroutines that can run do, and a kill is effective.  Not assumed: that
\* ffmpeg reads its input, fails a write or exits by itself, or that the session ends.
Fairness ==
  /\ WF_vars(Accept \/ Refuse) /\ WF_vars(FeederStop)
  /\ WF_vars(WriterTake \/ WriterMustFail \/ WriterEnd \/ CloseStdin)
  /\ WF_vars(WaiterNext)
  /\ WF_vars(ProcKill)
  /\ WF_vars(CtxDone /\ StreamEnd)
  /\ WF_vars(CloseNext)

FairSpec == Spec /\ Fairness

-----------------------------------------------------------------------------
(* Safety.                                                                  *)

\* No WriteFrame is about to send on the closed inCh: Close closes it under
\* the feeder's feet unless the caller has waited for the feeder.
NoSendOnClosed == inClosed => feeder # "sending"

\* While the writer runs, the accepted frames are those ffmpeg has, the one in
\* the writer's hand and those in inCh, in the order of acceptance, none lost.
FramesInOrder ==
  writer \in {"range", "writing"} =>
    LET held == IF hand = 0 THEN <<>> ELSE <<hand>>
        rest == held \o inCh
    IN  /\ written + Len(rest) = accepted
        /\ \A i \in DOMAIN rest : rest[i] = written + i

\* When Close has returned, neither the process nor a goroutine is left behind.
CloseLeavesNothing ==
  caller = "returned" => ~Running /\ writer = "done" /\ waiter = "done" /\ ~stdinOpen

\* A failed ffmpeg does not go unnoticed: Close returns an error.
FailureIsReported ==
  caller = "returned" /\ exit.status = "failed" => reported

-----------------------------------------------------------------------------
(* Liveness.                                                                *)

\* errCh has one slot, and nobody reads it before wg.Wait: a process that fails
\* with a message makes the waiter, or the writer after it, wait for ever.
ErrorsStuck ==
  errCh = ErrCap /\ (writer = "failing" \/ waiter \in {"stderr", "status"})

\* When the session's context ends, a feeder inside WriteFrame gets out, whatever
\* ffmpeg does with its input, unless a second error blocks the encoder.
FeederEnds == parentDone ~> (feeder = "stopped" \/ ErrorsStuck)

\* A Close that closed the input itself comes back, although ffmpeg may ignore
\* the end of its input and has to be killed, with the same exception.
CloseReturnsOnceInputClosed == inClosed ~> (caller = "returned" \/ ErrorsStuck)

\* Close comes back.
CloseReturns == caller = "closing" ~> caller = "returned"
==============================================================================
