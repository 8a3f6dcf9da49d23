------------------------ MODULE RequestHandlersProofs ------------------------
(***************************************************************************)
(* Safety of RequestHandlers for every set of requests of any kinds and    *)
(* uploads of any length: the types, what is acknowledged to the client of *)
(* an upload, and which ROS entities outlive a call.                       *)
(***************************************************************************)
EXTENDS RequestHandlers, TLAPS

\* The entities that a handler of this kind makes.
Makeable(k) ==
  CASE k = "stream" -> {"sub", "waitset"}
    [] k = "upload" -> {"pub"}
    [] k = "action" -> {"client"}
    [] OTHER -> {}

\* Where a handler is tells which of its entities are open.
OpenInv ==
  \A r \in Requests :
    /\ open[r] \subseteq Makeable(kind[r])
    /\ pc[r] \in {"idle", "start", "returning"} => open[r] = {}
    /\ pc[r] = "subscribed" => "sub" \in open[r]
    /\ pc[r] = "done" => open[r] \subseteq {"client"}
    /\ "waitset" \in open[r] => "sub" \in open[r]

\* The four counters of an upload, in step with its handler's loop.
CountInv ==
  \A r \in Requests :
    /\ upload[r].received <= upload[r].sent
    /\ upload[r].count = upload[r].published
    /\ pc[r] \in {"idle", "start", "check", "recv"} => upload[r].published = upload[r].received
    /\ pc[r] = "publish" => upload[r].received = upload[r].published + 1

\* An acknowledged upload is over on both sides; an upload that ended well while
\* its client was there was acknowledged.
AckInv ==
  \A r \in Requests :
    /\ r \in acked => /\ r \in halfClosed
                      /\ upload[r].received = upload[r].sent
                      /\ upload[r].published = upload[r].sent
                      /\ pc[r] \in {"unwind", "done"}
    /\ kind[r] = "upload" /\ pc[r] = "unwind" /\ result[r] = "OK" /\ ctxErr[r] = "none"
         => r \in acked

RequestInv == TypeOK /\ OpenInv /\ CountInv /\ AckInv

-----------------------------------------------------------------------------
(* Records and sequences.                                                   *)

LEMMA CounterFacts ==
  ASSUME NEW u \in [Requests -> Counters], NEW r \in Requests
  PROVE  /\ [u EXCEPT ![r].sent = @ + 1] \in [Requests -> Counters]
         /\ [u EXCEPT ![r].received = @ + 1] \in [Requests -> Counters]
         /\ [u EXCEPT ![r].published = @ + 1, ![r].count = @ + 1] \in [Requests -> Counters]
<1>1. ASSUME NEW c \in Counters
      PROVE  /\ [c EXCEPT !.sent = @ + 1] \in Counters
             /\ [c EXCEPT !.received = @ + 1] \in Counters
             /\ [c EXCEPT !.published = @ + 1, !.count = @ + 1] \in Counters
  <2>1. [c EXCEPT !.sent = @ + 1] \in Counters
    BY <1>1 DEF Counters
  <2>2. [c EXCEPT !.received = @ + 1] \in Counters
    BY <1>1 DEF Counters
  <2>3. \A d \in Counters : [d EXCEPT !.published = @ + 1] \in Counters
    BY DEF Counters
  <2>4. \A d \in Counters : [d EXCEPT !.count = @ + 1] \in Counters
    BY DEF Counters
  <2>5. [c EXCEPT !.published = @ + 1, !.count = @ + 1]
          = [[c EXCEPT !.published = @ + 1] EXCEPT !.count = @ + 1]
    BY <1>1 DEF Counters
  <2> QED
    BY <1>1, <2>1, <2>2, <2>3, <2>4, <2>5
<1>2. u[r] \in Counters
  OBVIOUS
<1>3. [u EXCEPT ![r].sent = @ + 1] = [u EXCEPT ![r] = [u[r] EXCEPT !.sent = @ + 1]]
  OBVIOUS
<1>4. [u EXCEPT ![r].received = @ + 1] = [u EXCEPT ![r] = [u[r] EXCEPT !.received = @ + 1]]
  OBVIOUS
<1>5. [u EXCEPT ![r].published = @ + 1, ![r].count = @ + 1]
        = [u EXCEPT ![r] = [u[r] EXCEPT !.published = @ + 1, !.count = @ + 1]]
  OBVIOUS
<1> QED
  BY <1>1, <1>2, <1>3, <1>4, <1>5

LEMMA CounterStep ==
  ASSUME NEW u \in [Requests -> Counters], NEW r \in Requests, NEW x \in Requests
  PROVE  /\ u[x].sent \in Nat /\ u[x].received \in Nat /\ u[x].published \in Nat
         /\ u[x].count \in Nat
         /\ x # r => /\ [u EXCEPT ![r].sent = @ + 1][x] = u[x]
                     /\ [u EXCEPT ![r].received = @ + 1][x] = u[x]
                     /\ [u EXCEPT ![r].published = @ + 1, ![r].count = @ + 1][x] = u[x]
         /\ LET n == [u EXCEPT ![r].sent = @ + 1][r]
            IN  /\ n.sent = u[r].sent + 1 /\ n.received = u[r].received
                /\ n.published = u[r].published /\ n.count = u[r].count
         /\ LET n == [u EXCEPT ![r].received = @ + 1][r]
            IN  /\ n.sent = u[r].sent /\ n.received = u[r].received + 1
                /\ n.published = u[r].published /\ n.count = u[r].count
         /\ LET n == [u EXCEPT ![r].published = @ + 1, ![r].count = @ + 1][r]
            IN  /\ n.sent = u[r].sent /\ n.received = u[r].received
                /\ n.published = u[r].published + 1 /\ n.count = u[r].count + 1
  BY DEF Counters

LEMMA AnswerType ==
  ASSUME replies \in [Requests -> Seq(Reply)],
         NEW r \in Requests, NEW by \in Requests, NEW code \in Codes,
         Answer(r, by, code)
  PROVE  replies' \in [Requests -> Seq(Reply)]
<1>1. [by |-> by, code |-> code] \in Reply
  BY DEF Reply
<1>2. replies[r] \in Seq(Reply)
  OBVIOUS
<1>3. Append(replies[r], [by |-> by, code |-> code]) \in Seq(Reply)
  BY <1>1, <1>2
<1> QED
  BY <1>3 DEF Answer

-----------------------------------------------------------------------------
(* Types.                                                                   *)

LEMMA TypeInit == Init => TypeOK
<1> SUFFICES ASSUME Init PROVE TypeOK
  OBVIOUS
<1>1. kind \in [Requests -> Kinds]
  BY RequestAssumption DEF Init
<1>2. <<>> \in Seq(Reply)
  OBVIOUS
<1>3. [sent |-> 0, received |-> 0, published |-> 0, count |-> 0] \in Counters
  BY DEF Counters
<1> QED
  BY <1>1, <1>2, <1>3 DEF Init, TypeOK, Steps, Codes

LEMMA MakesType ==
  ASSUME open \in [Requests -> SUBSET Entities], NEW r \in Requests,
         NEW e \in Entities, Makes(r, e)
  PROVE  open' \in [Requests -> SUBSET Entities]
<1>1. open[r] \cup {e} \in SUBSET Entities
  OBVIOUS
<1> QED
  BY <1>1 DEF Makes

LEMMA ReturnType ==
  ASSUME pc \in [Requests -> Steps], result \in [Requests -> Codes], NEW r \in Requests,
         NEW code \in Codes, Return(r, code)
  PROVE  pc' \in [Requests -> Steps] /\ result' \in [Requests -> Codes]
  BY DEF Return, Go, Steps

LEMMA ServerTypes ==
  ASSUME TypeOK, NEW r \in Requests,
         Arrive(r) \/ Stop \/ HardStop \/ ClientGone(r) \/ ClientSends(r)
  PROVE  TypeOK'
<1>1. CASE Arrive(r)
  BY <1>1 DEF Arrive, TypeOK, Go, callVars, Steps
<1>2. CASE Stop
  BY <1>2 DEF Stop, TypeOK, callVars, httpVars
<1>3. CASE HardStop
  BY <1>3 DEF HardStop, TypeOK, httpVars
<1>4. CASE ClientGone(r)
  BY <1>4 DEF ClientGone, TypeOK, httpVars
<1>5. CASE ClientSends(r)
  <2>1. upload \in [Requests -> Counters]
    BY DEF TypeOK
  <2>2. [upload EXCEPT ![r].sent = @ + 1] \in [Requests -> Counters]
    BY <2>1, CounterFacts
  <2>3. upload' \in [Requests -> Counters] /\ halfClosed' \subseteq Requests
    BY <1>5, <2>2 DEF ClientSends, TypeOK
  <2> QED
    BY <1>5, <2>3 DEF ClientSends, TypeOK, httpVars
<1> QED
  BY <1>1, <1>2, <1>3, <1>4, <1>5

LEMMA StreamTypes ==
  ASSUME TypeOK, NEW r \in Requests,
         \/ TopicList(r) \/ NewClient(r) \/ CallRobot(r) \/ Subscribe(r)
         \/ NewWaitSet(r) \/ Callback(r) \/ Send(r) \/ RunEnds(r)
  PROVE  TypeOK'
<1>1. CASE TopicList(r)
  <2>1. \/ \E code \in Codes : Return(r, code)
        \/ UNCHANGED result /\ \E p \in Steps : Go(r, p)
    BY <1>1 DEF TopicList, Codes, Steps, TypeOK
  <2>2. pc' \in [Requests -> Steps] /\ result' \in [Requests -> Codes]
    BY <2>1, ReturnType DEF TypeOK, Go
  <2> QED
    BY <1>1, <2>2 DEF TopicList, TypeOK, httpVars
<1>2. CASE NewClient(r)
  <2>1. \/ UNCHANGED open
        \/ Makes(r, "client")
    BY <1>2 DEF NewClient
  <2>2. \/ \E code \in Codes : Return(r, code)
        \/ UNCHANGED result /\ \E p \in Steps : Go(r, p)
    BY <1>2 DEF NewClient, Codes, Steps
  <2>3. open' \in [Requests -> SUBSET Entities]
    BY <2>1, MakesType DEF TypeOK, Entities
  <2>4. pc' \in [Requests -> Steps] /\ result' \in [Requests -> Codes]
    BY <2>2, ReturnType DEF TypeOK, Go
  <2> QED
    BY <1>2, <2>3, <2>4 DEF NewClient, TypeOK, httpVars
<1>3. CASE CallRobot(r)
  <2>1. \/ \E code \in Codes : Return(r, code)
        \/ UNCHANGED result /\ \E p \in Steps : Go(r, p)
    BY <1>3 DEF CallRobot, Codes, Steps, TypeOK
  <2>2. pc' \in [Requests -> Steps] /\ result' \in [Requests -> Codes]
    BY <2>1, ReturnType DEF TypeOK, Go
  <2> QED
    BY <1>3, <2>2 DEF CallRobot, TypeOK, httpVars
<1>4. CASE Subscribe(r)
  <2>1. \/ UNCHANGED open
        \/ Makes(r, "sub")
    BY <1>4 DEF Subscribe
  <2>2. \/ \E code \in Codes : Return(r, code)
        \/ UNCHANGED result /\ \E p \in Steps : Go(r, p)
    BY <1>4 DEF Subscribe, Codes, Steps
  <2>3. open' \in [Requests -> SUBSET Entities]
    BY <2>1, MakesType DEF TypeOK, Entities
  <2>4. pc' \in [Requests -> Steps] /\ result' \in [Requests -> Codes]
    BY <2>2, ReturnType DEF TypeOK, Go
  <2> QED
    BY <1>4, <2>3, <2>4 DEF Subscribe, TypeOK, httpVars
<1>5. CASE NewWaitSet(r)
  <2>1. \/ UNCHANGED open
        \/ Makes(r, "waitset")
    BY <1>5 DEF NewWaitSet
  <2>2. \/ \E code \in Codes : Return(r, code)
        \/ UNCHANGED result /\ \E p \in Steps : Go(r, p)
    BY <1>5 DEF NewWaitSet, Codes, Steps
  <2>3. open' \in [Requests -> SUBSET Entities]
    BY <2>1, MakesType DEF TypeOK, Entities
  <2>4. pc' \in [Requests -> Steps] /\ result' \in [Requests -> Codes]
    BY <2>2, ReturnType DEF TypeOK, Go
  <2> QED
    BY <1>5, <2>3, <2>4 DEF NewWaitSet, TypeOK, httpVars
<1>6. CASE Callback(r)
  BY <1>6 DEF Callback, TypeOK, Go, Steps, callVars, httpVars
<1>7. CASE Send(r)
  BY <1>7 DEF Send, TypeOK, Go, Steps, httpVars
<1>8. CASE RunEnds(r)
  <2>1. \/ \E code \in Codes : Return(r, code)
        \/ UNCHANGED result /\ \E p \in Steps : Go(r, p)
    BY <1>8 DEF RunEnds, Codes, Steps, TypeOK
  <2>2. pc' \in [Requests -> Steps] /\ result' \in [Requests -> Codes]
    BY <2>1, ReturnType DEF TypeOK, Go
  <2> QED
    BY <1>8, <2>2 DEF RunEnds, TypeOK, httpVars
<1> QED
  BY <1>1, <1>2, <1>3, <1>4, <1>5, <1>6, <1>7, <1>8

LEMMA UploadTypes ==
  ASSUME TypeOK, NEW r \in Requests,
         \/ NewPublisher(r) \/ CheckContext(r) \/ Recv(r) \/ RecvEOF(r)
         \/ RecvError(r) \/ Publish(r) \/ CloseNext(r) \/ SendStatus(r)
  PROVE  TypeOK'
<1>1. CASE NewPublisher(r)
  <2>1. \/ UNCHANGED open
        \/ Makes(r, "pub")
    BY <1>1 DEF NewPublisher
  <2>2. \/ \E code \in Codes : Return(r, code)
        \/ UNCHANGED result /\ \E p \in Steps : Go(r, p)
    BY <1>1 DEF NewPublisher, Codes, Steps
  <2>3. open' \in [Requests -> SUBSET Entities]
    BY <2>1, MakesType DEF TypeOK, Entities
  <2>4. pc' \in [Requests -> Steps] /\ result' \in [Requests -> Codes]
    BY <2>2, ReturnType DEF TypeOK, Go
  <2> QED
    BY <1>1, <2>3, <2>4 DEF NewPublisher, TypeOK, httpVars
<1>2. CASE CheckContext(r)
  <2>1. \/ \E code \in Codes : Return(r, code)
        \/ UNCHANGED result /\ \E p \in Steps : Go(r, p)
    BY <1>2 DEF CheckContext, Codes, Steps, TypeOK
  <2>2. pc' \in [Requests -> Steps] /\ result' \in [Requests -> Codes]
    BY <2>1, ReturnType DEF TypeOK, Go
  <2> QED
    BY <1>2, <2>2 DEF CheckContext, TypeOK, httpVars
<1>3. CASE Recv(r)
  <2>1. upload \in [Requests -> Counters]
    BY DEF TypeOK
  <2>2. [upload EXCEPT ![r].received = @ + 1] \in [Requests -> Counters]
    BY <2>1, CounterFacts
  <2> QED
    BY <1>3, <2>2 DEF Recv, TypeOK, Go, Steps, httpVars
<1>4. CASE RecvEOF(r)
  <2>1. \/ \E code \in Codes : Return(r, code)
        \/ UNCHANGED result /\ \E p \in Steps : Go(r, p)
    BY <1>4 DEF RecvEOF, Codes, Steps, TypeOK
  <2>2. pc' \in [Requests -> Steps] /\ result' \in [Requests -> Codes]
    BY <2>1, ReturnType DEF TypeOK, Go
  <2> QED
    BY <1>4, <2>2 DEF RecvEOF, TypeOK, httpVars
<1>5. CASE RecvError(r)
  <2>1. \/ \E code \in Codes : Return(r, code)
        \/ UNCHANGED result /\ \E p \in Steps : Go(r, p)
    BY <1>5 DEF RecvError, Codes, Steps, TypeOK
  <2>2. pc' \in [Requests -> Steps] /\ result' \in [Requests -> Codes]
    BY <2>1, ReturnType DEF TypeOK, Go
  <2> QED
    BY <1>5, <2>2 DEF RecvError, TypeOK, httpVars
<1>6. CASE Publish(r)
  <2>1. upload \in [Requests -> Counters]
    BY DEF TypeOK
  <2>2. [upload EXCEPT ![r].published = @ + 1, ![r].count = @ + 1] \in [Requests -> Counters]
    BY <2>1, CounterFacts
  <2>3. upload' \in [Requests -> Counters]
    BY <1>6, <2>1, <2>2 DEF Publish
  <2>4. \/ \E code \in Codes : Return(r, code)
        \/ UNCHANGED result /\ \E p \in Steps : Go(r, p)
    BY <1>6 DEF Publish, Codes, Steps
  <2>5. pc' \in [Requests -> Steps] /\ result' \in [Requests -> Codes]
    BY <2>4, ReturnType DEF TypeOK, Go
  <2> QED
    BY <1>6, <2>3, <2>5 DEF Publish, TypeOK, httpVars
<1>7. CASE CloseNext(r)
  BY <1>7 DEF CloseNext, TypeOK, httpVars
<1>8. CASE SendStatus(r)
  <2>1. replies' \in [Requests -> Seq(Reply)]
    BY <1>8, AnswerType DEF SendStatus, TypeOK
  <2> QED
    BY <1>8, <2>1 DEF SendStatus, TypeOK, Go, Steps, callVars, httpVars
<1> QED
  BY <1>1, <1>2, <1>3, <1>4, <1>5, <1>6, <1>7, <1>8

\* An HTTP handler or a worker writes at most one answer in a step.
LEMMA HttpReplies ==
  ASSUME NEW r \in Requests, HttpStep(r)
  PROVE  \/ UNCHANGED replies
         \/ \E x \in Requests, by \in Requests, code \in Codes : Answer(x, by, code)
  BY DEF HttpStep, Healthcheck, ListGraph, Query, Respond, Bind, Service, Upgrade, Register,
     PumpPanics, Release, TimeoutMW,
         WorkBegins, Work, Holders, StaleNext, WorkPanics, Selected, Codes

LEMMA HttpTypes ==
  ASSUME TypeOK, NEW r \in Requests, HttpStep(r)
  PROVE  TypeOK'
<1>1. replies' \in [Requests -> Seq(Reply)]
  BY HttpReplies, AnswerType DEF TypeOK
<1>2. pc' \in [Requests -> Steps]
  <2>1. UNCHANGED pc \/ \E x \in Requests, p \in Steps : Go(x, p)
    <3>1. CASE \/ Healthcheck(r) \/ ListGraph(r) \/ Bind(r) \/ Service(r)
      BY <3>1 DEF Healthcheck, ListGraph, Query, Bind, Service, Steps
    <3>2. CASE Upgrade(r) \/ Register(r) \/ PumpPanics(r) \/ Release(r)
      BY <3>2 DEF Upgrade, Register, PumpPanics, Release, Steps
    <3>3. CASE TimeoutMW(r) \/ WorkBegins(r) \/ Work(r)
      BY <3>3 DEF TimeoutMW, WorkBegins, Work, Steps
    <3>4. CASE StaleNext(r) \/ WorkPanics(r) \/ Selected(r)
      BY <3>4 DEF StaleNext, Holders, WorkPanics, Selected, Steps
    <3> QED
      BY <3>1, <3>2, <3>3, <3>4 DEF HttpStep
  <2> QED
    BY <2>1 DEF Go, TypeOK
<1>3. /\ worker' \in [Requests -> {"none", "running", "writing", "finished", "panicked"}]
      /\ badConn' \subseteq Requests /\ crashed' \in BOOLEAN
      /\ UNCHANGED <<kind, server, callVars, ginCtx>>
  BY DEF HttpStep, Healthcheck, ListGraph, Query, Respond, MayCollide, Bind, Service, Upgrade, Register,
     PumpPanics, Release, TimeoutMW,
         WorkBegins, Work, StaleNext, WorkPanics, Selected, SetWorker, TypeOK, httpVars
<1> QED
  BY <1>1, <1>2, <1>3 DEF TypeOK, callVars
LEMMA TypeStep == TypeOK /\ [Next]_vars => TypeOK'
<1> SUFFICES ASSUME TypeOK, [Next]_vars PROVE TypeOK'
  OBVIOUS
<1>1. CASE UNCHANGED vars
  BY <1>1 DEF vars, callVars, httpVars, TypeOK
<1>2. CASE Stop \/ HardStop
  <2>1. CASE Requests = {}
    BY <1>2, <2>1 DEF Stop, HardStop, TypeOK, callVars, httpVars
  <2>2. CASE Requests # {}
    BY <1>2, <2>2, ServerTypes
  <2> QED
    BY <2>1, <2>2
<1>3. ASSUME NEW r \in Requests,
             Arrive(r) \/ ClientGone(r) \/ ClientSends(r) \/ GrpcStep(r) \/ HttpStep(r)
      PROVE  TypeOK'
  BY <1>3, ServerTypes, StreamTypes, UploadTypes, HttpTypes DEF GrpcStep
<1> QED
  BY <1>1, <1>2, <1>3 DEF Next

-----------------------------------------------------------------------------
(* Where an HTTP handler may go: never into the steps of a call.            *)

HttpPlaces == {"start", "service", "register", "select", "returning"}

LEMMA HttpMoves ==
  ASSUME TypeOK, NEW r \in Requests, HttpStep(r), NEW x \in Requests
  PROVE  \/ pc'[x] = pc[x]
         \/ /\ pc[x] \in HttpPlaces
            /\ pc'[x] \in {"service", "register", "select", "returning", "done"}
            /\ pc'[x] = "done" => pc[x] = "returning"
            /\ pc'[x] = "returning" => pc[x] = "start" \/ kind[x] \in HttpKinds
  BY DEF HttpStep, Healthcheck, ListGraph, Query, Respond, Bind, Service, Upgrade, Register, PumpPanics,
     Release, TimeoutMW,
         WorkBegins, Work, StaleNext, WorkPanics, Selected, At, Go, HttpPlaces, HttpKinds, TypeOK

LEMMA HttpKeeps ==
  ASSUME NEW r \in Requests, HttpStep(r)
  PROVE  UNCHANGED <<kind, callVars>>
  BY DEF HttpStep, Healthcheck, ListGraph, Query, Respond, Bind, Service, Upgrade, Register, PumpPanics,
     Release, TimeoutMW,
         WorkBegins, Work, StaleNext, WorkPanics, Selected, httpVars

-----------------------------------------------------------------------------
(* The ROS entities.                                                        *)

LEMMA OpenStep ==
  ASSUME TypeOK, OpenInv, [Next]_vars
  PROVE  OpenInv'
<1> SUFFICES ASSUME NEW x \in Requests
             PROVE  /\ open'[x] \subseteq Makeable(kind'[x])
                    /\ pc'[x] \in {"idle", "start", "returning"} => open'[x] = {}
                    /\ pc'[x] = "subscribed" => "sub" \in open'[x]
                    /\ pc'[x] = "done" => open'[x] \subseteq {"client"}
                    /\ "waitset" \in open'[x] => "sub" \in open'[x]
  BY DEF OpenInv
<1>1. /\ pc \in [Requests -> Steps] /\ open \in [Requests -> SUBSET Entities]
      /\ kind \in [Requests -> Kinds]
  BY DEF TypeOK
<1>2. /\ open[x] \subseteq Makeable(kind[x])
      /\ pc[x] \in {"idle", "start", "returning"} => open[x] = {}
      /\ pc[x] = "subscribed" => "sub" \in open[x]
      /\ pc[x] = "done" => open[x] \subseteq {"client"}
      /\ "waitset" \in open[x] => "sub" \in open[x]
  BY DEF OpenInv
<1>3. CASE UNCHANGED <<kind, pc, open>>
  BY <1>2, <1>3
<1>4. ASSUME NEW r \in Requests, HttpStep(r)
      PROVE  /\ kind' = kind /\ open' = open
             /\ pc'[x] \in {"idle", "start", "returning"} => open[x] = {}
             /\ pc'[x] = "subscribed" => "sub" \in open[x]
             /\ pc'[x] = "done" => open[x] \subseteq {"client"}
  <2>1. kind' = kind /\ open' = open
    BY <1>4, HttpKeeps DEF callVars
  <2>2. kind[x] \in HttpKinds => open[x] = {}
    BY <1>2 DEF Makeable, HttpKinds
  <2> QED
    BY <1>2, <1>4, <2>1, <2>2, HttpMoves
<1>5. ASSUME NEW r \in Requests, x # r, GrpcStep(r) \/ Arrive(r)
      PROVE  /\ kind' = kind /\ open'[x] = open[x] /\ pc'[x] = pc[x]
  <2>1. \/ UNCHANGED pc
        \/ \E p \in Steps : Go(r, p)
    BY <1>5 DEF GrpcStep, Arrive, TopicList, NewClient, CallRobot, Subscribe, NewWaitSet,
       Callback, Send, RunEnds, NewPublisher, CheckContext, Recv, RecvEOF, RecvError, Publish,
       CloseNext, SendStatus, Return, Steps, callVars, TypeOK
  <2>2. \/ UNCHANGED open
        \/ \E e \in Entities : Makes(r, e)
        \/ CloseNext(r)
    BY <1>5 DEF GrpcStep, Arrive, TopicList, NewClient, CallRobot, Subscribe, NewWaitSet,
       Callback, Send, RunEnds, NewPublisher, CheckContext, Recv, RecvEOF, RecvError, Publish,
       SendStatus, Entities, callVars
  <2>3. kind' = kind
    BY <1>5 DEF GrpcStep, Arrive, TopicList, NewClient, CallRobot, Subscribe, NewWaitSet,
       Callback, Send, RunEnds, NewPublisher, CheckContext, Recv, RecvEOF, RecvError, Publish,
       CloseNext, SendStatus
  <2>4. pc'[x] = pc[x]
    BY <1>1, <1>5, <2>1 DEF Go
  <2>5. open'[x] = open[x]
    BY <1>1, <1>5, <2>2 DEF Makes, CloseNext
  <2> QED
    BY <2>3, <2>4, <2>5
<1>6. ASSUME Arrive(x)
      PROVE  kind' = kind /\ open'[x] = open[x] /\ open[x] = {} /\ pc'[x] = "start"
  BY <1>1, <1>2, <1>6 DEF Arrive, Go, callVars
<1>7. ASSUME \/ TopicList(x) \/ CallRobot(x) \/ Callback(x) \/ Send(x) \/ RunEnds(x)
             \/ CheckContext(x) \/ Recv(x) \/ RecvEOF(x) \/ RecvError(x) \/ Publish(x)
      PROVE  /\ kind' = kind /\ open' = open
             /\ pc'[x] \in {"wait", "send", "check", "recv", "publish", "unwind"}
  BY <1>1, <1>7 DEF TopicList, CallRobot, Callback, Send, RunEnds,
     CheckContext, Recv, RecvEOF, RecvError, Publish, Go, Return, callVars, TypeOK
<1>8. ASSUME NewClient(x) \/ Subscribe(x) \/ NewWaitSet(x) \/ NewPublisher(x)
      PROVE  /\ kind' = kind
             /\ pc'[x] \in {"service", "subscribed", "wait", "check", "unwind"}
             /\ \/ open' = open /\ pc'[x] # "subscribed"
                \/ /\ \E e \in Makeable(kind[x]) : open'[x] = open[x] \cup {e}
                   /\ pc'[x] = "subscribed" => "sub" \in open'[x]
                   /\ "waitset" \in open'[x] => "sub" \in open'[x]
  <2>1. CASE NewClient(x)
    BY <1>1, <1>2, <2>1 DEF NewClient, At, Go, Return, Makes, Makeable
  <2>2. CASE Subscribe(x)
    BY <1>1, <1>2, <2>2 DEF Subscribe, At, Go, Return, Makes, Makeable
  <2>3. CASE NewWaitSet(x)
    BY <1>1, <1>2, <2>3 DEF NewWaitSet, At, Go, Return, Makes, Makeable
  <2>4. CASE NewPublisher(x)
    BY <1>1, <1>2, <2>4 DEF NewPublisher, At, Go, Return, Makes, Makeable
  <2> QED
    BY <1>8, <2>1, <2>2, <2>3, <2>4
<1>9. ASSUME CloseNext(x)
      PROVE  /\ kind' = kind /\ pc'[x] = "unwind"
             /\ open'[x] \subseteq open[x] /\ "waitset" \notin open'[x]
  BY <1>1, <1>2, <1>9 DEF CloseNext, NextToClose, Deferred
<1>10. ASSUME SendStatus(x)
       PROVE  kind' = kind /\ open' = open /\ pc'[x] = "done" /\ open[x] \subseteq {"client"}
  BY <1>1, <1>10 DEF SendStatus, Go, Deferred, callVars
<1>11. ASSUME NEW r \in Requests, Stop \/ HardStop \/ ClientGone(r) \/ ClientSends(r)
       PROVE  UNCHANGED <<kind, pc, open>>
  BY <1>11 DEF Stop, HardStop, ClientGone, ClientSends, callVars
<1> QED
  <2>1. CASE UNCHANGED vars
    BY <1>3, <2>1 DEF vars, callVars
  <2>2. CASE Stop \/ HardStop
    BY <1>3, <1>11, <2>2
  <2>3. ASSUME NEW r \in Requests,
               Arrive(r) \/ ClientGone(r) \/ ClientSends(r) \/ GrpcStep(r) \/ HttpStep(r),
               ~ HttpStep(r), x = r
        PROVE  /\ open'[x] \subseteq Makeable(kind'[x])
               /\ pc'[x] \in {"idle", "start", "returning"} => open'[x] = {}
               /\ pc'[x] = "subscribed" => "sub" \in open'[x]
               /\ pc'[x] = "done" => open'[x] \subseteq {"client"}
               /\ "waitset" \in open'[x] => "sub" \in open'[x]
    <3>1. CASE Arrive(x)
      BY <1>2, <1>6, <3>1
    <3>2. CASE ClientGone(x) \/ ClientSends(x)
      BY <1>3, <1>11, <3>2
    <3>3. CASE NewClient(x) \/ Subscribe(x) \/ NewWaitSet(x) \/ NewPublisher(x)
      BY <1>2, <1>8, <3>3
    <3>4. CASE CloseNext(x)
      BY <1>2, <1>9, <3>4
    <3>5. CASE SendStatus(x)
      BY <1>2, <1>10, <3>5
    <3>6. CASE \/ TopicList(x) \/ CallRobot(x) \/ Callback(x) \/ Send(x) \/ RunEnds(x)
               \/ CheckContext(x) \/ Recv(x) \/ RecvEOF(x) \/ RecvError(x) \/ Publish(x)
      BY <1>2, <1>7, <3>6
    <3> QED
      BY <2>3, <3>1, <3>2, <3>3, <3>4, <3>5, <3>6 DEF GrpcStep
  <2>4. ASSUME NEW r \in Requests, HttpStep(r)
        PROVE  /\ open'[x] \subseteq Makeable(kind'[x])
               /\ pc'[x] \in {"idle", "start", "returning"} => open'[x] = {}
               /\ pc'[x] = "subscribed" => "sub" \in open'[x]
               /\ pc'[x] = "done" => open'[x] \subseteq {"client"}
               /\ "waitset" \in open'[x] => "sub" \in open'[x]
    BY <1>2, <1>4, <2>4
  <2>5. ASSUME NEW r \in Requests, x # r,
               Arrive(r) \/ ClientGone(r) \/ ClientSends(r) \/ GrpcStep(r)
        PROVE  kind' = kind /\ open'[x] = open[x] /\ pc'[x] = pc[x]
    BY <1>5, <1>11, <2>5
  <2> QED
    BY <1>2, <2>1, <2>2, <2>3, <2>4, <2>5 DEF Next
-----------------------------------------------------------------------------
(* The messages of an upload.                                               *)

\* CountInv and AckInv for one request.
UploadInv(x) ==
  /\ upload[x].received <= upload[x].sent
  /\ upload[x].count = upload[x].published
  /\ pc[x] \in {"idle", "start", "check", "recv"} => upload[x].published = upload[x].received
  /\ pc[x] = "publish" => upload[x].received = upload[x].published + 1
  /\ x \in acked => /\ x \in halfClosed
                    /\ upload[x].received = upload[x].sent
                    /\ upload[x].published = upload[x].sent
                    /\ pc[x] \in {"unwind", "done"}
  /\ kind[x] = "upload" /\ pc[x] = "unwind" /\ result[x] = "OK" /\ ctxErr[x] = "none"
       => x \in acked

\* A step of another request leaves this one alone.
LEMMA UploadFrame ==
  ASSUME TypeOK, NEW x \in Requests, NEW r \in Requests, x # r,
         Arrive(r) \/ ClientGone(r) \/ ClientSends(r) \/ GrpcStep(r)
  PROVE  /\ kind' = kind /\ pc'[x] = pc[x] /\ upload'[x] = upload[x]
         /\ x \in acked' <=> x \in acked
         /\ x \in halfClosed' <=> x \in halfClosed
         /\ result'[x] = result[x] /\ ctxErr'[x] = ctxErr[x]
<1> USE DEF GrpcStep, Arrive, ClientGone, ClientSends, TopicList, NewClient, CallRobot, Subscribe,
    NewWaitSet, Callback, Send, RunEnds, NewPublisher, CheckContext, Recv, RecvEOF, RecvError,
    Publish, CloseNext, SendStatus, callVars
<1>1. \/ UNCHANGED pc
      \/ \E p \in Steps : Go(r, p)
  BY DEF Return, Steps, TypeOK
<1>2. kind' = kind
  OBVIOUS
<1>3. \/ UNCHANGED upload
      \/ upload' = [upload EXCEPT ![r].sent = @ + 1]
      \/ upload' = [upload EXCEPT ![r].received = @ + 1]
      \/ upload' = [upload EXCEPT ![r].published = @ + 1, ![r].count = @ + 1]
  OBVIOUS
<1>4. acked' \in {acked, acked \cup {r}} /\ halfClosed' \in {halfClosed, halfClosed \cup {r}}
  OBVIOUS
<1>5. \/ UNCHANGED result
      \/ \E code \in Codes : Return(r, code)
  BY DEF Codes, TypeOK
<1>6. \/ UNCHANGED ctxErr
      \/ \E e \in {"canceled", "deadline"} : ctxErr' = [ctxErr EXCEPT ![r] = e]
  OBVIOUS
<1>7. pc'[x] = pc[x] /\ result'[x] = result[x] /\ ctxErr'[x] = ctxErr[x]
  <2> HIDE DEF GrpcStep, Arrive, ClientGone, ClientSends
  <2>1. pc'[x] = pc[x]
    BY <1>1 DEF TypeOK, Go
  <2>2. result'[x] = result[x]
    BY <1>5 DEF TypeOK, Return
  <2> QED
    BY <1>6, <2>1, <2>2 DEF TypeOK
<1>8. upload'[x] = upload[x]
  <2> HIDE DEF GrpcStep, Arrive, ClientGone, ClientSends
  <2>1. upload \in [Requests -> Counters]
    BY DEF TypeOK
  <2> QED
    BY <1>3, <2>1, CounterStep
<1> QED
  BY <1>2, <1>4, <1>7, <1>8

\* The steps of a handler that receives and publishes nothing now.
LEMMA UploadQuiet ==
  ASSUME TypeOK, NEW x \in Requests, UploadInv(x),
         UNCHANGED <<kind, upload, acked, halfClosed>>,
         pc'[x] \in Steps \ {"recv", "publish"},
         pc'[x] \in {"idle", "start", "check"} => pc[x] \in {"idle", "start"},
         x \in acked => pc'[x] \in {"unwind", "done"},
         kind[x] = "upload" /\ pc'[x] = "unwind" /\ result'[x] = "OK" /\ ctxErr'[x] = "none"
           => x \in acked
  PROVE  UploadInv(x)'
  BY DEF UploadInv

LEMMA UploadStep ==
  ASSUME TypeOK, NEW x \in Requests, UploadInv(x), [Next]_vars
  PROVE  UploadInv(x)'
<1>1. /\ pc \in [Requests -> Steps] /\ upload \in [Requests -> Counters]
      /\ kind \in [Requests -> Kinds] /\ result \in [Requests -> Codes]
  BY DEF TypeOK
<1>2. CASE UNCHANGED vars
  BY <1>2 DEF vars, callVars, UploadInv
<1>3. CASE Stop \/ HardStop
  <2>1. ctxErr'[x] = "none" => ctxErr[x] = "none"
    BY <1>3 DEF Stop, HardStop, callVars
  <2> QED
    BY <1>3, <2>1 DEF Stop, HardStop, callVars, UploadInv
<1>4. ASSUME NEW r \in Requests, HttpStep(r)
      PROVE  UploadInv(x)'
  <2>1. UNCHANGED <<kind, upload, acked, halfClosed, result, ctxErr>>
    BY <1>4, HttpKeeps DEF callVars
  <2>2. CASE pc'[x] = pc[x]
    BY <2>1, <2>2 DEF UploadInv
  <2>3. CASE pc'[x] # pc[x]
    BY <1>4, <2>1, <2>3, HttpMoves, UploadQuiet DEF UploadInv, HttpPlaces, Steps
  <2> QED
    BY <2>2, <2>3
<1>5. ASSUME NEW r \in Requests, x # r,
             Arrive(r) \/ ClientGone(r) \/ ClientSends(r) \/ GrpcStep(r)
      PROVE  UploadInv(x)'
  BY <1>5, UploadFrame DEF UploadInv
<1>6. CASE Arrive(x)
  BY <1>1, <1>6, UploadQuiet DEF Arrive, Go, Steps, callVars, UploadInv
<1>7. CASE ClientGone(x)
  BY <1>7 DEF ClientGone, UploadInv, TypeOK
<1>8. CASE ClientSends(x)
  <2>1. CASE UNCHANGED upload
    BY <1>8, <2>1 DEF ClientSends, UploadInv
  <2>2. CASE upload' = [upload EXCEPT ![x].sent = @ + 1] /\ UNCHANGED halfClosed
    <3>1. /\ upload'[x].sent = upload[x].sent + 1 /\ upload'[x].received = upload[x].received
          /\ upload'[x].published = upload[x].published /\ upload'[x].count = upload[x].count
          /\ upload[x].sent \in Nat /\ upload[x].received \in Nat
      BY <1>1, <2>2, CounterStep
    <3>2. x \notin halfClosed /\ UNCHANGED <<kind, pc, ctxErr, result, acked>>
      BY <1>8 DEF ClientSends
    <3> QED
      BY <2>2, <3>1, <3>2 DEF UploadInv
  <2> QED
    BY <1>8, <2>1, <2>2 DEF ClientSends
<1>9. CASE GrpcStep(x)
  <2>1. CASE Recv(x)
    <3>1. /\ upload'[x].sent = upload[x].sent /\ upload'[x].received = upload[x].received + 1
          /\ upload'[x].published = upload[x].published /\ upload'[x].count = upload[x].count
          /\ upload[x].sent \in Nat /\ upload[x].received \in Nat /\ upload[x].published \in Nat
          /\ upload[x].received < upload[x].sent
      BY <1>1, <2>1, CounterStep DEF Recv
    <3>2. pc'[x] = "publish" /\ pc[x] = "recv" /\ UNCHANGED <<kind, halfClosed, acked>>
      BY <1>1, <2>1 DEF Recv, Go, At
    <3> QED
      BY <3>1, <3>2 DEF UploadInv
  <2>2. CASE RecvEOF(x)
    <3>1. /\ pc'[x] = "unwind" /\ pc[x] = "recv" /\ x \in halfClosed
          /\ upload[x].received = upload[x].sent
          /\ UNCHANGED <<kind, upload, halfClosed, ctxErr>>
      BY <1>1, <2>2 DEF RecvEOF, Return, Go, At
    <3>2. ctxErr[x] = "none" => x \in acked'
      BY <2>2 DEF RecvEOF
    <3>3. ctxErr[x] # "none" => acked' = acked
      BY <2>2 DEF RecvEOF
    <3> QED
      BY <3>1, <3>2, <3>3 DEF UploadInv
  <2>3. CASE Publish(x)
    <3>1. CASE Go(x, "check")
      <4>1. upload' = [upload EXCEPT ![x].published = @ + 1, ![x].count = @ + 1]
        BY <1>1, <2>3, <3>1 DEF Publish, Return, Go
      <4>2. /\ upload'[x].sent = upload[x].sent /\ upload'[x].received = upload[x].received
            /\ upload'[x].published = upload[x].published + 1
            /\ upload'[x].count = upload[x].count + 1
        BY <1>1, <4>1, CounterStep
      <4>3. pc'[x] = "check" /\ pc[x] = "publish" /\ UNCHANGED <<kind, halfClosed, acked>>
        BY <1>1, <2>3, <3>1 DEF Publish, Go, At
      <4> QED
        BY <4>2, <4>3 DEF UploadInv
    <3>2. ASSUME NEW code \in {"Internal", "Unknown"}, Return(x, code), UNCHANGED upload
          PROVE  UploadInv(x)'
      BY <1>1, <2>3, <3>2 DEF Publish, Return, Go, At, UploadInv
    <3> QED
      BY <2>3, <3>1, <3>2 DEF Publish
  <2>4. CASE CheckContext(x)
    <3>1. /\ pc[x] = "check" /\ pc'[x] \in {"recv", "unwind"}
          /\ pc'[x] = "unwind" => ctxErr[x] # "none"
          /\ UNCHANGED <<kind, upload, halfClosed, acked, ctxErr>>
      BY <1>1, <2>4 DEF CheckContext, Return, Go, At, TypeOK
    <3> QED
      BY <3>1 DEF UploadInv
  <2>5. CASE RecvError(x)
    BY <1>1, <2>5, UploadQuiet DEF RecvError, Return, Go, At, Steps, UploadInv
  <2>6. CASE NewPublisher(x)
    BY <1>1, <2>6, UploadQuiet DEF NewPublisher, Return, Go, At, Steps, UploadInv
  <2>7. CASE TopicList(x) \/ NewClient(x) \/ CallRobot(x) \/ Subscribe(x) \/ NewWaitSet(x) \/ RunEnds(x)
    <3>1. /\ kind[x] # "upload" /\ pc[x] \in {"start", "service", "subscribed", "wait"}
          /\ pc'[x] \in {"service", "subscribed", "wait", "unwind"}
          /\ UNCHANGED <<kind, upload, halfClosed, acked>>
      BY <1>1, <2>7 DEF TopicList, NewClient, CallRobot, Subscribe, NewWaitSet, RunEnds,
         Return, Go, At
    <3> QED
      BY <3>1, UploadQuiet DEF Steps, UploadInv
  <2>8. CASE Callback(x) \/ Send(x)
    <3>1. /\ kind[x] # "upload" /\ pc[x] \in {"wait", "send"} /\ pc'[x] \in {"wait", "send"}
          /\ UNCHANGED <<kind, upload, halfClosed, acked>>
      BY <1>1, <2>8 DEF Callback, Send, Go, At, callVars
    <3> QED
      BY <3>1, UploadQuiet DEF Steps, UploadInv
  <2>9. CASE CloseNext(x)
    BY <2>9 DEF CloseNext, UploadInv
  <2>10. CASE SendStatus(x)
    BY <1>1, <2>10, UploadQuiet DEF SendStatus, Go, Steps, callVars, UploadInv
  <2> QED
    BY <1>9, <2>1, <2>2, <2>3, <2>4, <2>5, <2>6, <2>7, <2>8, <2>9, <2>10 DEF GrpcStep
<1> QED
  BY <1>2, <1>3, <1>4, <1>5, <1>6, <1>7, <1>8, <1>9 DEF Next

-----------------------------------------------------------------------------
(* The answers.                                                             *)

\* A worker that has not ended.
Working == {"running", "writing"}

\* The handler of x has answered.
Answered(x) ==
  pc[x] \in {"register", "returning", "done"} \/ (pc[x] = "select" /\ worker[x] = "finished")

\* What was answered to x, unless a timer excuses it.
ReplyInv(x) ==
  /\ pc[x] = "idle" => replies[x] = <<>>
  /\ ~Excused(x) =>
       /\ \A i \in DOMAIN replies[x] : replies[x][i].by = x
       /\ Len(replies[x]) = IF Answered(x) THEN 1 ELSE 0

\* An HTTP request in progress has a context; a worker is behind its request
\* only after the timer ran out.
WorkerInv(x) ==
  /\ kind[x] \in HttpKinds /\ InProgress(x) => ginCtx[x] # NoCtx
  /\ kind[x] \notin HttpKinds => ginCtx[x] = NoCtx
  /\ pc[x] = "select" => kind[x] = "unknown"
  /\ worker[x] \in Working => pc[x] = "select" \/ Late(x)

\* No two requests in progress have the same context.
UniqueCtx ==
  \A x, y \in Requests :
    InProgress(x) /\ InProgress(y) /\ ginCtx[x] = ginCtx[y] /\ ginCtx[x] # NoCtx => x = y

AnswerInv ==
  /\ \A x \in Requests : ReplyInv(x) /\ WorkerInv(x)
  /\ UniqueCtx
  /\ crashed => badConn # {} \/ \E r \in Requests : Late(r)

LEMMA ReplyFacts ==
  ASSUME NEW q \in Seq(Reply), NEW e \in Reply
  PROVE  /\ Len(Append(q, e)) = Len(q) + 1 /\ Len(q) \in Nat
         /\ DOMAIN q = 1 .. Len(q) /\ DOMAIN Append(q, e) = 1 .. (Len(q) + 1)
         /\ \A i \in DOMAIN q : Append(q, e)[i] = q[i]
         /\ Append(q, e)[Len(q) + 1] = e
  OBVIOUS

\* An answer is kept, and those of the other requests are not touched.
LEMMA AnswerKeeps ==
  ASSUME TypeOK, NEW r \in Requests, NEW by \in Requests, NEW code \in Codes,
         Answer(r, by, code), NEW x \in Requests
  PROVE  /\ Late(x) => Late(x)'
         /\ x # r => replies'[x] = replies[x]
         /\ Len(replies'[r]) = Len(replies[r]) + 1 /\ Len(replies[r]) \in Nat
         /\ (\A i \in DOMAIN replies[r] : replies[r][i].by = by)
              => \A i \in DOMAIN replies'[r] : replies'[r][i].by = by
         /\ code = "TimedOut" /\ by = r => Late(r)'
<1> DEFINE e == [by |-> by, code |-> code]
<1>1. e \in Reply /\ e.by = by /\ replies[r] \in Seq(Reply)
  BY DEF Reply, TypeOK
<1>2. replies'[r] = Append(replies[r], e) /\ (x # r => replies'[x] = replies[x])
  BY DEF Answer, TypeOK
<1> HIDE DEF e
<1>3. /\ Len(replies'[r]) = Len(replies[r]) + 1 /\ Len(replies[r]) \in Nat
      /\ DOMAIN replies[r] = 1 .. Len(replies[r])
      /\ DOMAIN replies'[r] = 1 .. (Len(replies[r]) + 1)
      /\ \A i \in DOMAIN replies[r] : replies'[r][i] = replies[r][i]
      /\ replies'[r][Len(replies[r]) + 1] = e
  BY <1>1, <1>2, ReplyFacts
<1>4. Late(x) => Late(x)'
  <2>1. CASE x = r
    BY <1>3, <2>1 DEF Late
  <2>2. CASE x # r
    BY <1>2, <2>2 DEF Late
  <2> QED
    BY <2>1, <2>2
<1>5. (\A i \in DOMAIN replies[r] : replies[r][i].by = by)
        => \A i \in DOMAIN replies'[r] : replies'[r][i].by = by
  BY <1>1, <1>3
<1>6. code = "TimedOut" /\ by = r => Late(r)'
  <2>1. Len(replies[r]) + 1 \in DOMAIN replies'[r]
    BY <1>3
  <2> QED
    BY <1>3, <2>1 DEF Late, e
<1> QED
  BY <1>2, <1>3, <1>4, <1>5, <1>6

\* A step that writes no answer and gives no context.
LEMMA SilentStep ==
  ASSUME TypeOK, AnswerInv, UNCHANGED <<kind, replies, ginCtx>>, NEW x \in Requests,
         pc'[x] = "idle" => pc[x] = "idle",
         InProgress(x)' => InProgress(x),
         Excused(x) \/ (Answered(x)' <=> Answered(x)),
         pc'[x] = "select" => kind[x] = "unknown",
         worker'[x] \in Working => pc'[x] = "select" \/ Late(x)
  PROVE  ReplyInv(x)' /\ WorkerInv(x)'
<1>1. Excused(x)' <=> Excused(x)
  BY DEF Excused, Late
<1>2. Late(x)' <=> Late(x)
  BY DEF Late
<1>3. ReplyInv(x) /\ WorkerInv(x)
  BY DEF AnswerInv
<1>4. ReplyInv(x)'
  BY <1>1, <1>3 DEF ReplyInv
<1>5. WorkerInv(x)'
  BY <1>2, <1>3 DEF WorkerInv
<1> QED
  BY <1>4, <1>5

\* Contexts stay apart when none is given and no request starts.
LEMMA UniqueKept ==
  ASSUME UniqueCtx, UNCHANGED ginCtx, \A x \in Requests : InProgress(x)' => InProgress(x)
  PROVE  UniqueCtx'
  BY DEF UniqueCtx

\* An answer excuses no less than before.
LEMMA ExcusedStays ==
  ASSUME TypeOK, NEW r \in Requests, NEW by \in Requests, NEW code \in Codes,
         Answer(r, by, code), UNCHANGED ginCtx, NEW x \in Requests, Excused(x)
  PROVE  Excused(x)'
  BY AnswerKeeps DEF Excused

\* Request r is answered by its own handler, which had not answered yet or
\* answers because its timer ran out.
LEMMA AnsweringStep ==
  ASSUME TypeOK, AnswerInv, UNCHANGED <<kind, worker, ginCtx>>,
         NEW r \in Requests, NEW code \in Codes, Answer(r, r, code),
         ~Answered(r) \/ code = "TimedOut", InProgress(r),
         pc'[r] \notin {"idle", "select"}, Answered(r)',
         worker[r] \in Working => Late(r) \/ code = "TimedOut",
         \A x \in Requests : x # r => pc'[x] = pc[x]
  PROVE  (\A x \in Requests : ReplyInv(x)' /\ WorkerInv(x)') /\ UniqueCtx'
<1>1. \A x \in Requests : ReplyInv(x) /\ WorkerInv(x)
  BY DEF AnswerInv
<1>2. ASSUME NEW x \in Requests
      PROVE  /\ Late(x) => Late(x)'
             /\ Excused(x) => Excused(x)'
             /\ x # r => replies'[x] = replies[x]
  BY AnswerKeeps, ExcusedStays
<1>3. ASSUME NEW x \in Requests, x # r PROVE ReplyInv(x)' /\ WorkerInv(x)'
  <2>1. pc'[x] = pc[x] /\ replies'[x] = replies[x]
    BY <1>2, <1>3
  <2>2. Answered(x)' <=> Answered(x)
    BY <2>1 DEF Answered
  <2>3. ReplyInv(x)'
    BY <1>1, <1>2, <2>1, <2>2 DEF ReplyInv
  <2>4. WorkerInv(x)'
    BY <1>1, <1>2, <2>1 DEF WorkerInv, InProgress
  <2> QED
    BY <2>3, <2>4
<1>4. ReplyInv(r)'
  <2>1. CASE code = "TimedOut"
    <3>1. Late(r)'
      BY <2>1, AnswerKeeps
    <3>2. Excused(r)'
      BY <3>1 DEF Excused
    <3> QED
      BY <3>2 DEF ReplyInv
  <2>2. CASE code # "TimedOut"
    <3> SUFFICES ASSUME ~Excused(r)'
                 PROVE  /\ \A i \in DOMAIN replies'[r] : replies'[r][i].by = r
                        /\ Len(replies'[r]) = 1
      BY DEF ReplyInv
    <3>1. /\ \A i \in DOMAIN replies[r] : replies[r][i].by = r
          /\ Len(replies[r]) = 0
      BY <1>1, <1>2, <2>2 DEF ReplyInv
    <3>2. \A i \in DOMAIN replies'[r] : replies'[r][i].by = r
      BY <3>1, AnswerKeeps
    <3>3. Len(replies'[r]) = Len(replies[r]) + 1
      BY AnswerKeeps
    <3> QED
      BY <3>1, <3>2, <3>3
  <2> QED
    BY <2>1, <2>2
<1>5. WorkerInv(r)'
  <2>1. worker[r] \in Working => Late(r)'
    BY <1>2, AnswerKeeps
  <2> QED
    BY <1>1, <2>1 DEF WorkerInv, InProgress
<1>6. UniqueCtx'
  <2>1. \A x \in Requests : InProgress(x)' => InProgress(x)
    BY DEF InProgress
  <2> QED
    BY <2>1, UniqueKept DEF AnswerInv
<1> QED
  BY <1>3, <1>4, <1>5, <1>6

\* The steps of a call, but for its last, and those of the servers and clients.
LEMMA CallAnswers ==
  ASSUME TypeOK, AnswerInv, NEW r \in Requests,
         Stop \/ HardStop \/ ClientGone(r) \/ ClientSends(r) \/ (GrpcStep(r) /\ ~SendStatus(r))
  PROVE  (\A x \in Requests : ReplyInv(x)' /\ WorkerInv(x)') /\ UniqueCtx'
<1>1. UNCHANGED <<kind, replies, ginCtx, worker>>
  BY DEF Stop, HardStop, ClientGone, ClientSends, GrpcStep, TopicList, NewClient, CallRobot,
     Subscribe, NewWaitSet, Callback, Send, RunEnds, NewPublisher, CheckContext, Recv, RecvEOF,
     RecvError, Publish, CloseNext, httpVars
<1>2. \/ UNCHANGED pc
      \/ /\ pc[r] \notin {"idle", "register", "returning", "select", "done"}
         /\ \E p \in Steps \ {"idle", "register", "returning", "select", "done"} : Go(r, p)
  BY DEF Stop, HardStop, ClientGone, ClientSends, GrpcStep, TopicList, NewClient, CallRobot,
     Subscribe, NewWaitSet, Callback, Send, RunEnds, NewPublisher, CheckContext, Recv, RecvEOF,
     RecvError, Publish, CloseNext, At, Return, Steps, callVars, TypeOK
<1>3. ASSUME NEW x \in Requests
      PROVE  \/ pc'[x] = pc[x]
             \/ /\ pc[x] \notin {"idle", "register", "returning", "select", "done"}
                /\ pc'[x] \notin {"idle", "register", "returning", "select", "done"}
  BY <1>2 DEF Go, TypeOK
<1>4. ASSUME NEW x \in Requests
      PROVE  /\ pc'[x] = "idle" => pc[x] = "idle"
             /\ InProgress(x)' => InProgress(x)
             /\ Answered(x)' <=> Answered(x)
             /\ pc'[x] = "select" => kind[x] = "unknown"
             /\ worker'[x] \in Working => pc'[x] = "select" \/ Late(x)
  BY <1>1, <1>3 DEF InProgress, Answered, AnswerInv, WorkerInv
<1>5. \A x \in Requests : ReplyInv(x)' /\ WorkerInv(x)'
  BY <1>1, <1>4, SilentStep
<1> QED
  BY <1>1, <1>4, <1>5, UniqueKept DEF AnswerInv

LEMMA ArriveAnswers ==
  ASSUME TypeOK, AnswerInv, NEW r \in Requests, Arrive(r)
  PROVE  (\A x \in Requests : ReplyInv(x)' /\ WorkerInv(x)') /\ UniqueCtx'
<1>1. /\ \A x \in Requests : ReplyInv(x) /\ WorkerInv(x)
      /\ pc[r] = "idle" /\ pc'[r] = "start" /\ replies[r] = <<>>
      /\ UNCHANGED <<kind, replies, worker>>
  BY DEF AnswerInv, ReplyInv, Arrive, Go, TypeOK
<1>2. ASSUME NEW x \in Requests, x # r PROVE pc'[x] = pc[x] /\ ginCtx'[x] = ginCtx[x]
  BY <1>2 DEF Arrive, Go, TypeOK
<1>3. \A q \in Requests : Late(q)' <=> Late(q)
  BY <1>1 DEF Late
<1>4. ~Late(r)
  BY <1>1 DEF Late
<1>5. ASSUME NEW x \in Requests, x # r, Excused(x) PROVE Excused(x)'
  BY <1>2, <1>3, <1>4, <1>5 DEF Excused
<1>6. /\ kind[r] \in HttpKinds => ginCtx'[r] # NoCtx
      /\ kind[r] \in HttpKinds => \A q \in Requests : InProgress(q) => ginCtx[q] # ginCtx'[r]
      /\ kind[r] \notin HttpKinds => ginCtx'[r] = NoCtx
  BY <1>1, RequestAssumption DEF Arrive, TypeOK, WorkerInv
<1>7. ASSUME NEW x \in Requests, x # r PROVE ReplyInv(x)' /\ WorkerInv(x)'
  <2>1. ReplyInv(x)'
    BY <1>1, <1>2, <1>5, <1>7 DEF ReplyInv, Answered
  <2>2. WorkerInv(x)'
    BY <1>1, <1>2, <1>3, <1>7 DEF WorkerInv, InProgress
  <2> QED
    BY <2>1, <2>2
<1>8. ReplyInv(r)' /\ WorkerInv(r)'
  <2>1. ReplyInv(r)'
    BY <1>1 DEF ReplyInv, Answered
  <2>2. WorkerInv(r)'
    BY <1>1, <1>3, <1>6 DEF WorkerInv
  <2> QED
    BY <2>1, <2>2
<1>9. UniqueCtx'
  <2> SUFFICES ASSUME NEW x \in Requests, NEW y \in Requests, InProgress(x)', InProgress(y)',
                      ginCtx'[x] = ginCtx'[y], ginCtx'[x] # NoCtx
               PROVE  x = y
    BY DEF UniqueCtx
  <2>1. CASE x # r /\ y # r
    BY <1>2, <2>1 DEF AnswerInv, UniqueCtx, InProgress
  <2>2. CASE x = r /\ y # r
    BY <1>2, <1>6, <2>2 DEF InProgress
  <2>3. CASE x # r /\ y = r
    BY <1>2, <1>6, <2>3 DEF InProgress
  <2> QED
    BY <2>1, <2>2, <2>3
<1> QED
  BY <1>7, <1>8, <1>9

\* The steps in which a handler answers its own request.
LEMMA HandlerAnswers ==
  ASSUME TypeOK, AnswerInv, NEW r \in Requests,
         \/ SendStatus(r) \/ Healthcheck(r) \/ ListGraph(r) \/ Service(r) \/ Upgrade(r)
         \/ Bind(r) /\ Go(r, "returning")
         \/ Selected(r) /\ ~UNCHANGED replies
  PROVE  (\A x \in Requests : ReplyInv(x)' /\ WorkerInv(x)') /\ UniqueCtx'
<1>1. /\ UNCHANGED <<kind, worker, ginCtx>>
      /\ pc[r] \in {"unwind", "start", "service", "select"}
      /\ \E p \in {"done", "returning", "register"} : Go(r, p)
  BY DEF SendStatus, Healthcheck, ListGraph, Query, Respond, Service, Upgrade, Bind, Selected, At, Go,
     httpVars, TypeOK
<1>2. \E code \in Codes : /\ Answer(r, r, code)
                          /\ pc[r] # "select" \/ worker[r] = "panicked" \/ code = "TimedOut"
  <2>1. CASE SendStatus(r)
    BY <2>1 DEF SendStatus, TypeOK
  <2>2. CASE Healthcheck(r) \/ ListGraph(r) \/ Service(r) \/ Upgrade(r)
    BY <2>2 DEF Healthcheck, ListGraph, Query, Respond, Service, Upgrade, Codes, At
  <2>3. CASE Bind(r) /\ Go(r, "returning")
    BY <2>3 DEF Bind, Respond, Codes, At, Go, TypeOK
  <2>4. CASE Selected(r) /\ ~UNCHANGED replies
    BY <2>4 DEF Selected, Respond, Codes
  <2> QED
    BY <2>1, <2>2, <2>3, <2>4
<1>3. PICK code \in Codes : /\ Answer(r, r, code)
                            /\ pc[r] # "select" \/ worker[r] = "panicked" \/ code = "TimedOut"
  BY <1>2
<1>4. /\ pc'[r] \in {"done", "returning", "register"}
      /\ \A x \in Requests : x # r => pc'[x] = pc[x]
  BY <1>1 DEF Go, TypeOK
<1>5. /\ InProgress(r) /\ pc'[r] \notin {"idle", "select"} /\ Answered(r)'
      /\ ~Answered(r) \/ code = "TimedOut"
  <2>1. InProgress(r)
    BY <1>1 DEF InProgress
  <2>2. pc'[r] \notin {"idle", "select"}
    BY <1>4
  <2>3. Answered(r)'
    BY <1>4 DEF Answered
  <2>4. pc[r] # "select" => ~Answered(r)
    BY <1>1 DEF Answered
  <2>5. pc[r] = "select" /\ worker[r] = "panicked" => ~Answered(r)
    BY DEF Answered
  <2> QED
    BY <1>3, <2>1, <2>2, <2>3, <2>4, <2>5
<1>6. worker[r] \in Working => Late(r) \/ code = "TimedOut"
  BY <1>1, <1>3 DEF AnswerInv, WorkerInv, Working
<1> QED
  BY <1>1, <1>3, <1>4, <1>5, <1>6, AnsweringStep

\* The steps of the HTTP handlers and workers that answer nothing.
LEMMA HttpSilent ==
  ASSUME TypeOK, AnswerInv, NEW r \in Requests,
         \/ Register(r) \/ Release(r) \/ PumpPanics(r) \/ TimeoutMW(r) \/ WorkPanics(r)
         \/ WorkBegins(r)
         \/ Bind(r) /\ Go(r, "service")
         \/ Selected(r) /\ UNCHANGED replies
  PROVE  (\A x \in Requests : ReplyInv(x)' /\ WorkerInv(x)') /\ UniqueCtx'
<1>1. UNCHANGED <<kind, replies, ginCtx>>
  <2>1. CASE Bind(r) /\ Go(r, "service")
    BY <2>1 DEF Bind, Go, httpVars, TypeOK
  <2> QED
    BY <2>1 DEF Register, Release, PumpPanics, TimeoutMW, WorkBegins, WorkPanics, Selected, httpVars
<1>2. ASSUME NEW x \in Requests, x # r PROVE pc'[x] = pc[x] /\ worker'[x] = worker[x]
  BY <1>2 DEF Register, Release, PumpPanics, TimeoutMW, WorkBegins, WorkPanics, Bind, Selected, Go, SetWorker,
     httpVars, TypeOK
<1>3. \/ /\ pc'[r] = pc[r]
         /\ \/ worker'[r] = worker[r]
            \/ worker[r] = "running" /\ worker'[r] \in {"writing", "panicked"}
      \/ /\ worker'[r] = worker[r]
         /\ \/ pc[r] = "register" /\ pc'[r] = "returning"
            \/ pc[r] = "returning" /\ pc'[r] = "done"
            \/ pc[r] = "start" /\ pc'[r] = "service"
            \/ pc[r] = "select" /\ worker[r] = "finished" /\ pc'[r] = "returning"
      \/ /\ pc[r] = "start" /\ pc'[r] = "select" /\ worker'[r] = "running" /\ kind[r] = "unknown"
  <2>1. CASE Register(r) \/ Release(r)
    BY <2>1 DEF Register, Release, At, Go, httpVars, TypeOK
  <2>2. CASE PumpPanics(r)
    BY <2>2 DEF PumpPanics
  <2>6. CASE WorkPanics(r) \/ WorkBegins(r)
    <3>1. /\ pc' = pc /\ worker[r] = "running"
          /\ \E w \in {"writing", "panicked"} : worker' = [worker EXCEPT ![r] = w]
      BY <2>6 DEF WorkPanics, WorkBegins, SetWorker
    <3> QED
      BY <3>1 DEF TypeOK
  <2>3. CASE TimeoutMW(r)
    BY <2>3 DEF TimeoutMW, SetWorker, At, Go, TypeOK
  <2>4. CASE Bind(r) /\ Go(r, "service")
    BY <2>4 DEF Bind, At, Go, httpVars, TypeOK
  <2>5. CASE Selected(r) /\ UNCHANGED replies
    <3>1. worker[r] = "finished"
      <4>1. ASSUME NEW code \in Codes, Answer(r, r, code) PROVE FALSE
        <5>1. Len(replies'[r]) = Len(replies[r]) + 1 /\ Len(replies[r]) \in Nat
          BY <4>1, AnswerKeeps
        <5> QED
          BY <2>5, <5>1
      <4> QED
        BY <2>5, <4>1 DEF Selected, Respond, Codes
    <3> QED
      BY <2>5, <3>1 DEF Selected, At, Go, httpVars, TypeOK
  <2> QED
    BY <2>1, <2>2, <2>3, <2>4, <2>5, <2>6
<1>4. ASSUME NEW x \in Requests
      PROVE  /\ pc'[x] = "idle" => pc[x] = "idle"
             /\ InProgress(x)' => InProgress(x)
             /\ Answered(x)' <=> Answered(x)
             /\ pc'[x] = "select" => kind[x] = "unknown"
             /\ worker'[x] \in Working => pc'[x] = "select" \/ Late(x)
  <2>1. WorkerInv(x)
    BY DEF AnswerInv
  <2>2. CASE x = r
    BY <1>3, <2>1, <2>2 DEF InProgress, Answered, WorkerInv, Working
  <2>3. CASE x # r
    BY <1>2, <2>1, <2>3 DEF InProgress, Answered, WorkerInv, Working
  <2> QED
    BY <2>2, <2>3
<1>5. \A x \in Requests : ReplyInv(x)' /\ WorkerInv(x)'
  BY <1>1, <1>4, SilentStep
<1> QED
  BY <1>1, <1>4, <1>5, UniqueKept DEF AnswerInv

\* A worker that reaches another request than its own is late, and that request
\* is excused.
LEMMA WorkerReaches ==
  ASSUME TypeOK, AnswerInv, NEW r \in Requests, worker[r] \in Working,
         NEW x \in Holders(r)
  PROVE  /\ InProgress(x) /\ x \in Requests
         /\ Excused(x) \/ (x = r /\ pc[r] = "select" /\ ~Late(r))
<1>1. InProgress(x) /\ x \in Requests /\ ginCtx[x] = ginCtx[r]
  BY DEF Holders
<1>2. Late(r) => Excused(x)
  BY <1>1 DEF Excused
<1>3. CASE ~Late(r)
  <2>1. pc[r] = "select" /\ kind[r] = "unknown"
    BY <1>3 DEF AnswerInv, WorkerInv
  <2>2. InProgress(r) /\ ginCtx[r] # NoCtx
    BY <2>1 DEF AnswerInv, WorkerInv, InProgress, HttpKinds
  <2> QED
    BY <1>1, <1>3, <2>1, <2>2 DEF AnswerInv, UniqueCtx
<1> QED
  BY <1>1, <1>2, <1>3

LEMMA StaleAnswers ==
  ASSUME TypeOK, AnswerInv, NEW r \in Requests, StaleNext(r)
  PROVE  (\A x \in Requests : ReplyInv(x)' /\ WorkerInv(x)') /\ UniqueCtx'
<1>1. PICK y \in Holders(r) \ {r} : pc[y] = "start" /\ Go(y, "returning")
  BY DEF StaleNext
<1>2. /\ UNCHANGED <<kind, replies, ginCtx>> /\ worker[r] = "running"
      /\ worker' = [worker EXCEPT ![r] = "finished"]
  BY DEF StaleNext, SetWorker
<1>3. y \in Requests /\ Excused(y) /\ y # r /\ InProgress(y)
  BY <1>1, <1>2, WorkerReaches DEF Working
<1>4. ASSUME NEW x \in Requests
      PROVE  /\ pc'[x] = (IF x = y THEN "returning" ELSE pc[x])
             /\ worker'[x] = (IF x = r THEN "finished" ELSE worker[x])
  BY <1>1, <1>2, <1>3 DEF Go, TypeOK
<1>5. pc[r] # "select" \/ Excused(r)
  <2>1. ginCtx[y] = ginCtx[r]
    BY <1>1 DEF Holders
  <2> QED
    BY <1>3, <2>1 DEF Excused
<1>6. ASSUME NEW x \in Requests
      PROVE  /\ pc'[x] = "idle" => pc[x] = "idle"
             /\ InProgress(x)' => InProgress(x)
             /\ Excused(x) \/ (Answered(x)' <=> Answered(x))
             /\ pc'[x] = "select" => kind[x] = "unknown"
             /\ worker'[x] \in Working => pc'[x] = "select" \/ Late(x)
  <2>1. WorkerInv(x)
    BY DEF AnswerInv
  <2>2. CASE x = y
    BY <1>1, <1>3, <1>4, <2>1, <2>2 DEF InProgress, WorkerInv
  <2>3. CASE x # y
    <3>1. pc'[x] = pc[x]
      BY <1>4, <2>3
    <3>2. InProgress(x)' => InProgress(x)
      BY <3>1 DEF InProgress
    <3>3. Excused(x) \/ (Answered(x)' <=> Answered(x))
      <4>1. CASE x = r
        BY <1>5, <3>1, <4>1 DEF Answered
      <4>2. CASE x # r
        <5>1. worker'[x] = worker[x]
          BY <1>4, <4>2
        <5> QED
          BY <3>1, <5>1 DEF Answered
      <4> QED
        BY <4>1, <4>2
    <3>4. worker'[x] \in Working => worker[x] \in Working
      BY <1>4 DEF Working
    <3> QED
      BY <2>1, <3>1, <3>2, <3>3, <3>4 DEF WorkerInv
  <2> QED
    BY <2>2, <2>3
<1>7. \A x \in Requests : ReplyInv(x)' /\ WorkerInv(x)'
  BY <1>2, <1>6, SilentStep
<1> QED
  BY <1>2, <1>6, <1>7, UniqueKept DEF AnswerInv

LEMMA WorkAnswers ==
  ASSUME TypeOK, AnswerInv, NEW r \in Requests, Work(r)
  PROVE  (\A x \in Requests : ReplyInv(x)' /\ WorkerInv(x)') /\ UniqueCtx'
<1>1. /\ UNCHANGED <<kind, pc, ginCtx>> /\ worker[r] = "writing"
      /\ worker' = [worker EXCEPT ![r] = "finished"]
  BY DEF Work, SetWorker
<1>2. \A x \in Requests : worker'[x] = (IF x = r THEN "finished" ELSE worker[x])
  BY <1>1 DEF TypeOK
<1>3. \A x \in Requests : InProgress(x)' => InProgress(x)
  BY <1>1 DEF InProgress
<1>4. UniqueCtx'
  BY <1>1, <1>3, UniqueKept DEF AnswerInv
<1>5. CASE Holders(r) = {} /\ UNCHANGED replies
  <2>1. pc[r] # "select"
    BY <1>5 DEF Holders, InProgress
  <2>2. ASSUME NEW x \in Requests
        PROVE  /\ Answered(x)' <=> Answered(x)
               /\ pc'[x] = "select" => kind[x] = "unknown"
               /\ worker'[x] \in Working => pc'[x] = "select" \/ Late(x)
    <3>1. WorkerInv(x) /\ pc'[x] = pc[x]
      BY <1>1 DEF AnswerInv
    <3>2. Answered(x)' <=> Answered(x)
      <4>1. CASE x = r
        BY <2>1, <3>1, <4>1 DEF Answered
      <4>2. CASE x # r
        <5>1. worker'[x] = worker[x]
          BY <1>2, <4>2
        <5> QED
          BY <3>1, <5>1 DEF Answered
      <4> QED
        BY <4>1, <4>2
    <3>3. worker'[x] \in Working => worker[x] \in Working
      BY <1>2 DEF Working
    <3> QED
      BY <3>1, <3>2, <3>3 DEF WorkerInv
  <2>3. \A x \in Requests : pc'[x] = "idle" => pc[x] = "idle"
    BY <1>1
  <2> QED
    BY <1>1, <1>3, <1>4, <1>5, <2>2, <2>3, SilentStep
<1>6. ASSUME NEW y \in Holders(r), NEW code \in Codes, Answer(y, r, code)
      PROVE  \A x \in Requests : ReplyInv(x)' /\ WorkerInv(x)'
  <2>1. /\ y \in Requests /\ InProgress(y)
        /\ Excused(y) \/ (y = r /\ pc[r] = "select" /\ ~Late(r))
    BY <1>1, WorkerReaches DEF Working
  <2>2. ASSUME NEW x \in Requests
        PROVE  /\ Late(x) => Late(x)'
               /\ Excused(x) => Excused(x)'
               /\ x # y => replies'[x] = replies[x]
    BY <1>1, <1>6, <2>1, AnswerKeeps, ExcusedStays
  <2>3. ASSUME NEW x \in Requests PROVE WorkerInv(x)'
    BY <1>1, <1>2, <2>2 DEF AnswerInv, WorkerInv, InProgress, Working
  <2>4. ASSUME NEW x \in Requests PROVE ReplyInv(x)'
    <3>1. ReplyInv(x)
      BY DEF AnswerInv
    <3>2. CASE Excused(x)
      BY <1>1, <2>1, <2>2, <3>1, <3>2 DEF ReplyInv, InProgress
    <3>3. CASE x # y /\ ~Excused(x)
      <4>1. ~ (x = r /\ pc[r] = "select")
        <5>1. ginCtx[y] = ginCtx[r]
          BY DEF Holders
        <5> QED
          BY <2>1, <3>3, <5>1 DEF Excused
      <4>2. Answered(x)' <=> Answered(x)
        <5>1. pc'[x] = pc[x] /\ (x = r \/ worker'[x] = worker[x])
          BY <1>1, <1>2
        <5> QED
          BY <4>1, <5>1 DEF Answered
      <4> QED
        BY <1>1, <2>2, <3>1, <3>3, <4>2 DEF ReplyInv
    <3>4. CASE x = y /\ ~Excused(x)
      <4>1. x = r /\ pc[x] = "select" /\ pc'[x] = "select"
        BY <1>1, <2>1, <3>4
      <4>2. Answered(x)' /\ ~Answered(x)
        BY <1>1, <1>2, <4>1 DEF Answered
      <4>3. Len(replies[x]) = 0 /\ \A i \in DOMAIN replies[x] : replies[x][i].by = r
        BY <3>1, <3>4, <4>1, <4>2 DEF ReplyInv
      <4>4. Len(replies'[x]) = Len(replies[x]) + 1
        BY <1>6, <2>1, <3>4, AnswerKeeps
      <4>5. \A i \in DOMAIN replies'[x] : replies'[x][i].by = r
        BY <1>6, <2>1, <3>4, <4>3, AnswerKeeps
      <4> QED
        BY <4>1, <4>2, <4>3, <4>4, <4>5 DEF ReplyInv
    <3> QED
      BY <3>2, <3>3, <3>4
  <2> QED
    BY <2>3, <2>4
<1>7. \/ Holders(r) = {} /\ UNCHANGED replies
      \/ \E y \in Holders(r), code \in Codes : Answer(y, r, code)
  BY DEF Work, Codes
<1> QED
  BY <1>4, <1>5, <1>6, <1>7

\* A timer that has run out stays so.
LEMMA LateStays ==
  ASSUME TypeOK, [Next]_vars, NEW x \in Requests, Late(x)
  PROVE  Late(x)'
<1>1. CASE UNCHANGED replies
  BY <1>1 DEF Late
<1>2. ASSUME NEW r \in Requests, HttpStep(r) PROVE Late(x)'
  BY <1>1, <1>2, HttpReplies, AnswerKeeps
<1>3. ASSUME NEW r \in Requests, SendStatus(r) PROVE Late(x)'
  <2>1. result[r] \in Codes /\ Answer(r, r, result[r])
    BY <1>3 DEF SendStatus, TypeOK
  <2> QED
    BY <2>1, AnswerKeeps
<1>4. ASSUME Stop \/ HardStop \/ \E r \in Requests :
               Arrive(r) \/ ClientGone(r) \/ ClientSends(r) \/ (GrpcStep(r) /\ ~SendStatus(r))
      PROVE  UNCHANGED replies
  BY <1>4 DEF Stop, HardStop, Arrive, ClientGone, ClientSends, GrpcStep, TopicList, NewClient,
     CallRobot, Subscribe, NewWaitSet, Callback, Send, RunEnds, NewPublisher, CheckContext, Recv,
     RecvEOF, RecvError, Publish, CloseNext
<1> QED
  BY <1>1, <1>2, <1>3, <1>4 DEF Next, vars

\* Whom a write through the context of r can meet: a worker whose request is late,
\* or still waits for it.
LEMMA Collides ==
  ASSUME AnswerInv, NEW r \in Requests, NEW workers \in SUBSET Requests, MayCollide(r, workers),
         crashed' # crashed
  PROVE  \E q \in workers :
           /\ worker[q] \in Working /\ ginCtx[q] = ginCtx[r]
           /\ Late(q) \/ (pc[q] = "select" /\ InProgress(q) /\ ginCtx[q] # NoCtx)
<1>1. PICK q \in workers : worker[q] = "writing" /\ ginCtx[q] = ginCtx[r]
  BY DEF MayCollide
<1>2. worker[q] \in Working /\ WorkerInv(q)
  BY <1>1 DEF Working, AnswerInv
<1>3. pc[q] = "select" => InProgress(q) /\ ginCtx[q] # NoCtx
  BY <1>2 DEF WorkerInv, InProgress, HttpKinds
<1> QED
  BY <1>1, <1>2, <1>3 DEF WorkerInv

\* A handler that collides answers because its own timer ran out, or meets a worker
\* of a request whose timer did.
LEMMA HandlerCollides ==
  ASSUME TypeOK, AnswerInv, [Next]_vars, NEW r \in Requests, NEW code \in Codes, Respond(r, code),
         InProgress(r), worker[r] \in Working => pc[r] # "select" \/ code = "TimedOut",
         crashed' # crashed
  PROVE  \E x \in Requests : Late(x)'
<1>1. PICK q \in Requests :
        /\ worker[q] \in Working /\ ginCtx[q] = ginCtx[r]
        /\ Late(q) \/ (pc[q] = "select" /\ InProgress(q) /\ ginCtx[q] # NoCtx)
  BY Collides DEF Respond
<1>2. CASE Late(q)
  BY <1>2, LateStays
<1>3. CASE pc[q] = "select" /\ InProgress(q) /\ ginCtx[q] # NoCtx
  <2>1. q = r
    BY <1>1, <1>3 DEF AnswerInv, UniqueCtx
  <2>2. code = "TimedOut"
    BY <1>1, <1>3, <2>1
  <2>3. Late(r)'
    BY <2>2, AnswerKeeps DEF Respond
  <2> QED
    BY <2>3
<1> QED
  BY <1>1, <1>2, <1>3

\* Of two workers that collide one is late.
LEMMA WorkerCollides ==
  ASSUME TypeOK, AnswerInv, [Next]_vars, NEW r \in Requests, Work(r), crashed' # crashed
  PROVE  \E x \in Requests : Late(x)'
<1>1. PICK q \in Requests \ {r} :
        /\ worker[q] \in Working /\ ginCtx[q] = ginCtx[r]
        /\ Late(q) \/ (pc[q] = "select" /\ InProgress(q) /\ ginCtx[q] # NoCtx)
  BY Collides DEF Work
<1>2. Late(r) \/ (pc[r] = "select" /\ InProgress(r))
  BY DEF Work, Working, AnswerInv, WorkerInv, InProgress
<1>3. Late(q) \/ Late(r)
  BY <1>1, <1>2 DEF AnswerInv, UniqueCtx
<1> QED
  BY <1>1, <1>3, LateStays

LEMMA CrashStep ==
  ASSUME TypeOK, AnswerInv, [Next]_vars
  PROVE  crashed' => badConn' # {} \/ \E x \in Requests : Late(x)'
<1>1. badConn \subseteq badConn'
  BY DEF Next, vars, Stop, HardStop, Arrive, ClientGone, ClientSends, GrpcStep, TopicList, NewClient,
     CallRobot, Subscribe, NewWaitSet, Callback, Send, RunEnds, NewPublisher, CheckContext, Recv,
     RecvEOF, RecvError, Publish, CloseNext, SendStatus, HttpStep, Healthcheck, ListGraph, Query,
     Bind, Service, Upgrade, Register, PumpPanics, Release, TimeoutMW, WorkBegins, Work, StaleNext,
     WorkPanics, Selected, httpVars
<1>2. CASE UNCHANGED crashed
  BY <1>1, <1>2, LateStays DEF AnswerInv
<1>3. CASE crashed' # crashed
  <2>1. PICK r \in Requests :
          \/ PumpPanics(r) \/ Work(r)
          \/ Healthcheck(r) \/ ListGraph(r) \/ Bind(r) \/ Service(r) \/ Upgrade(r) \/ Selected(r)
    BY <1>3 DEF Next, vars, Stop, HardStop, Arrive, ClientGone, ClientSends, GrpcStep, TopicList,
       NewClient, CallRobot, Subscribe, NewWaitSet, Callback, Send, RunEnds, NewPublisher,
       CheckContext, Recv, RecvEOF, RecvError, Publish, CloseNext, SendStatus, HttpStep, Register,
       Release, TimeoutMW, WorkBegins, StaleNext, WorkPanics, httpVars
  <2>2. CASE PumpPanics(r)
    BY <2>2 DEF PumpPanics
  <2>3. CASE Work(r)
    BY <1>3, <2>3, WorkerCollides
  <2>4. CASE Healthcheck(r) \/ ListGraph(r) \/ Bind(r) \/ Service(r) \/ Upgrade(r) \/ Selected(r)
    <3>1. /\ InProgress(r)
          /\ \E code \in Codes :
               /\ Respond(r, code)
               /\ worker[r] \in Working => pc[r] # "select" \/ code = "TimedOut"
      BY <1>3, <2>4 DEF Healthcheck, ListGraph, Query, Bind, Service, Upgrade, Selected, At,
         InProgress, Codes, Working
    <3> QED
      BY <1>3, <3>1, HandlerCollides
  <2> QED
    BY <2>1, <2>2, <2>3, <2>4
<1> QED
  BY <1>2, <1>3

LEMMA AnswerStep ==
  ASSUME TypeOK, AnswerInv, [Next]_vars
  PROVE  AnswerInv'
<1>1. CASE UNCHANGED vars
  BY <1>1 DEF vars, callVars, httpVars, AnswerInv, ReplyInv, WorkerInv, UniqueCtx, Answered,
     InProgress, Excused, Late
<1>2. crashed' => badConn' # {} \/ \E x \in Requests : Late(x)'
  BY CrashStep
<1>3. CASE ~UNCHANGED vars /\ Requests # {}
  <2>1. CASE Stop \/ HardStop
    BY <1>2, <1>3, <2>1, CallAnswers DEF AnswerInv
  <2>2. ASSUME NEW r \in Requests,
               Arrive(r) \/ ClientGone(r) \/ ClientSends(r) \/ GrpcStep(r) \/ HttpStep(r)
        PROVE  (\A x \in Requests : ReplyInv(x)' /\ WorkerInv(x)') /\ UniqueCtx'
    <3>1. CASE HttpStep(r)
      <4>1. Bind(r) => Go(r, "returning") \/ Go(r, "service")
        BY DEF Bind
      <4> QED
        BY <3>1, <4>1, HandlerAnswers, HttpSilent, StaleAnswers, WorkAnswers DEF HttpStep
    <3>2. CASE ~HttpStep(r)
      BY <2>2, <3>2, CallAnswers, HandlerAnswers, ArriveAnswers
    <3> QED
      BY <3>1, <3>2
  <2> QED
    BY <1>2, <1>3, <2>1, <2>2 DEF Next, AnswerInv
<1>4. CASE Requests = {}
  BY <1>2, <1>4 DEF AnswerInv, UniqueCtx
<1> QED
  BY <1>1, <1>3, <1>4

-----------------------------------------------------------------------------
(* The theorems.                                                            *)

LEMMA Inductive == RequestInv /\ [Next]_vars => RequestInv'
<1> SUFFICES ASSUME RequestInv, [Next]_vars PROVE RequestInv'
  OBVIOUS
<1>1. TypeOK' /\ OpenInv'
  BY TypeStep, OpenStep DEF RequestInv
<1>2. \A x \in Requests : UploadInv(x)
  BY DEF RequestInv, UploadInv, CountInv, AckInv
<1>3. \A x \in Requests : UploadInv(x)'
  BY <1>2, UploadStep DEF RequestInv
<1> QED
  BY <1>1, <1>3 DEF RequestInv, UploadInv, CountInv, AckInv

LEMMA InitInv == Init => RequestInv
<1> SUFFICES ASSUME Init PROVE RequestInv
  OBVIOUS
<1>1. TypeOK
  BY TypeInit
<1>2. OpenInv
  BY DEF Init, OpenInv
<1>3. CountInv
  BY DEF Init, CountInv
<1>4. AckInv
  BY DEF Init, AckInv
<1> QED
  BY <1>1, <1>2, <1>3, <1>4 DEF RequestInv

\* Every variable keeps its type, whatever the requests and the length of the
\* uploads (services/ros_interface.go, rest_server/server.go).
THEOREM TypeCorrect == Spec => []TypeOK
<1>1. RequestInv => TypeOK
  BY DEF RequestInv
<1> QED
  BY <1>1, InitInv, Inductive, PTL DEF Spec

\* The count that SendAndClose gives the client of UploadJointCommands is the
\* number of messages it sent, and each was published.
THEOREM UploadsAcknowledgedWhole == Spec => []AckIsComplete
<1>1. RequestInv => AckIsComplete
  BY DEF RequestInv, TypeOK, CountInv, AckInv, AckIsComplete
<1> QED
  BY <1>1, InitInv, Inductive, PTL DEF Spec

\* By whatever return or panic a handler ends, its deferred calls close what it
\* made, but for the service clients of robot_action.go; and the wait set goes
\* before its subscription.
THEOREM CallsCloseTheirEntities == Spec => []OnlyClientsOutlive
<1>1. RequestInv => OnlyClientsOutlive
  <2> SUFFICES ASSUME RequestInv, NEW r \in Requests
               PROVE  /\ pc[r] \in {"idle", "done"} =>
                           open[r] \subseteq (IF kind[r] = "action" THEN {"client"} ELSE {})
                      /\ "waitset" \in open[r] => "sub" \in open[r]
    BY DEF OnlyClientsOutlive
  <2>1. /\ open[r] \subseteq Makeable(kind[r])
        /\ pc[r] = "idle" => open[r] = {}
        /\ pc[r] = "done" => open[r] \subseteq {"client"}
        /\ "waitset" \in open[r] => "sub" \in open[r]
    BY DEF RequestInv, OpenInv
  <2> QED
    BY <2>1 DEF Makeable
<1> QED
  BY <1>1, InitInv, Inductive, PTL DEF Spec

LEMMA InitAnswers == Init => AnswerInv
<1> SUFFICES ASSUME Init PROVE AnswerInv
  OBVIOUS
<1>1. ASSUME NEW x \in Requests
      PROVE  /\ pc[x] = "idle" /\ replies[x] = <<>> /\ worker[x] = "none" /\ ginCtx[x] = NoCtx
             /\ ~crashed
  BY DEF Init
<1>2. ASSUME NEW x \in Requests PROVE ReplyInv(x)
  <2>1. Len(replies[x]) = 0 /\ DOMAIN replies[x] = {}
    BY <1>1
  <2> QED
    BY <1>1, <2>1 DEF ReplyInv, Answered
<1>3. \A x \in Requests : WorkerInv(x)
  BY <1>1 DEF WorkerInv, InProgress, Working
<1>4. UniqueCtx
  BY <1>1 DEF UniqueCtx
<1>5. ~crashed
  BY DEF Init
<1> QED
  BY <1>2, <1>3, <1>4, <1>5 DEF AnswerInv

\* Every request is answered once and by its own handler, as long as no timer of
\* RequestTimeoutMW ran out on a request that was given the same context.  And the
\* process ends by nothing but a failed upgrade (websocket.go:73) or such a timer:
\* handlers and workers of requests in time never write through one context at once.
THEOREM RequestsAnsweredOnce == Spec => []AnsweredOnce
<1>1. RequestInv /\ AnswerInv => AnsweredOnce
  <2> SUFFICES ASSUME RequestInv, AnswerInv, NEW r \in Requests, ~Excused(r)
               PROVE  /\ \A i \in DOMAIN replies[r] : replies[r][i].by = r
                      /\ Len(replies[r]) <= 1
                      /\ pc[r] = "done" => Len(replies[r]) = 1
    BY DEF AnsweredOnce, AnswerInv
  <2>1. /\ \A i \in DOMAIN replies[r] : replies[r][i].by = r
        /\ Len(replies[r]) = IF Answered(r) THEN 1 ELSE 0
    BY DEF AnswerInv, ReplyInv
  <2>2. pc[r] = "done" => Answered(r)
    BY DEF Answered
  <2> QED
    BY <2>1, <2>2
<1>2. RequestInv /\ AnswerInv /\ [Next]_vars => (RequestInv /\ AnswerInv)'
  BY Inductive, AnswerStep DEF RequestInv
<1>3. Init => RequestInv /\ AnswerInv
  BY InitInv, InitAnswers
<1> QED
  BY <1>1, <1>2, <1>3, PTL DEF Spec

-----------------------------------------------------------------------------
(* What a call promises the shutdown of the server, that AgentLifecycle      *)
(* models.                                                                   *)

CallOf(k, p, e) ==
  IF k \notin GrpcKinds \/ p = "idle" THEN "none"
    ELSE IF p = "done" THEN "returned"
    ELSE IF e = "none" THEN "open" ELSE "over"

CallNow == [r \in Requests |-> CallOf(kind[r], pc[r], ctxErr[r])]

Calls == INSTANCE CallLife WITH Calls <- Requests, call <- CallNow

ImplementsCallLife == Calls!Spec

\* A call that has not begun has no context that could have ended.
IdleClean == \A r \in Requests : pc[r] = "idle" => ctxErr[r] = "none"

CallStep == Calls!Next \/ UNCHANGED <<server, CallNow>>

\* The steps that go on with a handler, or end it.
Continues(r) ==
  /\ UNCHANGED <<kind, server, ctxErr>>
  /\ \/ UNCHANGED pc
     \/ \E p \in Steps \ {"idle"} : InProgress(r) /\ Go(r, p)

LEMMA CallPoint ==
  ASSUME TypeOK, UNCHANGED kind, NEW r \in Requests,
         \A x \in Requests \ {r} : pc'[x] = pc[x] /\ ctxErr'[x] = ctxErr[x]
  PROVE  /\ CallNow[r] = CallOf(kind[r], pc[r], ctxErr[r])
         /\ CallNow'[r] = CallOf(kind[r], pc'[r], ctxErr'[r])
         /\ CallNow' = [CallNow EXCEPT ![r] = CallNow'[r]]
<1>1. \A x \in Requests \ {r} : CallNow'[x] = CallNow[x]
  BY DEF CallNow
<1>2. CallNow = [x \in Requests |-> CallNow[x]] /\ CallNow' = [x \in Requests |-> CallNow'[x]]
  BY DEF CallNow
<1>3. CallNow' = [CallNow EXCEPT ![r] = CallNow'[r]]
  BY <1>1, <1>2
<1> QED
  BY <1>3 DEF CallNow

LEMMA ContinuesCalls ==
  ASSUME TypeOK, IdleClean, NEW r \in Requests, Continues(r)
  PROVE  CallStep /\ IdleClean'
<1>1. UNCHANGED <<kind, server, ctxErr>>
  BY DEF Continues
<1>2. CASE UNCHANGED pc
  BY <1>1, <1>2 DEF CallStep, CallNow, IdleClean
<1>3. ASSUME NEW p \in Steps \ {"idle"}, InProgress(r), Go(r, p)
      PROVE  CallStep /\ IdleClean'
  <2>1. pc'[r] = p /\ \A x \in Requests \ {r} : pc'[x] = pc[x]
    BY <1>3 DEF Go, TypeOK
  <2>2. IdleClean'
    BY <1>1, <1>3, <2>1 DEF IdleClean
  <2>3. /\ CallNow[r] = CallOf(kind[r], pc[r], ctxErr[r])
        /\ CallNow'[r] = CallOf(kind[r], p, ctxErr[r])
        /\ CallNow' = [CallNow EXCEPT ![r] = CallNow'[r]]
    <3>1. ctxErr'[r] = ctxErr[r]
      BY <1>1
    <3>2. \A x \in Requests \ {r} : pc'[x] = pc[x] /\ ctxErr'[x] = ctxErr[x]
      BY <1>1, <2>1
    <3> QED
      BY <1>1, <2>1, <3>1, <3>2, CallPoint
  <2>4. CASE kind[r] \notin GrpcKinds \/ p # "done"
    <3>1. CallNow'[r] = CallNow[r]
      BY <1>3, <2>3, <2>4 DEF CallOf, InProgress
    <3>2. CallNow' = CallNow
      BY <2>3, <3>1 DEF CallNow
    <3> QED
      BY <1>1, <2>2, <3>2 DEF CallStep
  <2>5. CASE kind[r] \in GrpcKinds /\ p = "done"
    <3>1. CallNow[r] \in {"open", "over"} /\ CallNow'[r] = "returned"
      BY <1>3, <2>3, <2>5 DEF CallOf, InProgress
    <3> QED
      BY <1>1, <2>2, <2>3, <3>1 DEF CallStep, Calls!Next, Calls!Return
  <2> QED
    BY <2>4, <2>5
<1> QED
  BY <1>2, <1>3 DEF Continues

\* The steps of the servers and of the calls' clients.
LEMMA ServerCalls ==
  ASSUME TypeOK, IdleClean, NEW r \in Requests,
         Arrive(r) \/ Stop \/ HardStop \/ ClientGone(r) \/ ClientSends(r)
  PROVE  CallStep /\ IdleClean'
<1>1. CASE Arrive(r)
  <2>1. /\ UNCHANGED <<kind, server, ctxErr>> /\ server = "serving" /\ pc[r] = "idle"
        /\ pc'[r] = "start" /\ \A x \in Requests \ {r} : pc'[x] = pc[x]
    BY <1>1 DEF Arrive, Go, callVars, TypeOK
  <2>2. ctxErr[r] = "none" /\ ctxErr'[r] = "none"
    BY <2>1 DEF IdleClean
  <2>3. IdleClean'
    BY <2>1 DEF IdleClean
  <2>4. /\ CallNow[r] = CallOf(kind[r], "idle", "none")
        /\ CallNow'[r] = CallOf(kind[r], "start", "none")
        /\ CallNow' = [CallNow EXCEPT ![r] = CallNow'[r]]
    <3>1. \A x \in Requests \ {r} : pc'[x] = pc[x] /\ ctxErr'[x] = ctxErr[x]
      BY <2>1
    <3> QED
      BY <2>1, <2>2, <3>1, CallPoint
  <2>5. CASE kind[r] \in GrpcKinds
    <3>1. CallNow[r] = "none" /\ CallNow'[r] = "open"
      BY <2>4, <2>5 DEF CallOf
    <3> QED
      BY <2>1, <2>3, <2>4, <3>1 DEF CallStep, Calls!Next, Calls!Open
  <2>6. CASE kind[r] \notin GrpcKinds
    <3>1. CallNow' = CallNow
      BY <2>4, <2>6 DEF CallOf, CallNow
    <3> QED
      BY <2>1, <2>3, <3>1 DEF CallStep
  <2> QED
    BY <2>5, <2>6
<1>2. CASE Stop
  <2>1. server = "serving" /\ server' = "stopping" /\ UNCHANGED <<kind, pc, ctxErr>>
    BY <1>2 DEF Stop, callVars
  <2>2. UNCHANGED CallNow
    BY <2>1 DEF CallNow
  <2> QED
    BY <2>1, <2>2 DEF CallStep, Calls!Next, Calls!Stop, IdleClean
<1>3. CASE HardStop
  <2>1. /\ server = "stopping" /\ server' = "stopped" /\ UNCHANGED <<kind, pc>>
        /\ \A x \in Requests :
             ctxErr'[x] = IF kind[x] \in GrpcKinds /\ InProgress(x) /\ ctxErr[x] = "none"
                            THEN "canceled" ELSE ctxErr[x]
    BY <1>3 DEF HardStop
  <2>2. ASSUME NEW x \in Requests
        PROVE  CallNow'[x] = IF CallNow[x] = "open" THEN "over" ELSE CallNow[x]
    <3>1. /\ CallNow[x] = CallOf(kind[x], pc[x], ctxErr[x])
          /\ CallNow'[x] = CallOf(kind[x], pc[x], ctxErr'[x])
      BY <2>1 DEF CallNow
    <3> QED
      BY <2>1, <3>1 DEF CallOf, InProgress
  <2>3. CallNow' = [x \in Requests |-> IF CallNow[x] = "open" THEN "over" ELSE CallNow[x]]
    <3>1. CallNow' = [x \in Requests |-> CallNow'[x]]
      BY DEF CallNow
    <3> QED
      BY <2>2, <3>1
  <2>4. IdleClean'
    BY <2>1 DEF IdleClean, InProgress
  <2> QED
    BY <2>1, <2>3, <2>4 DEF CallStep, Calls!Next, Calls!HardStop
<1>4. CASE ClientGone(r)
  <2>1. /\ UNCHANGED <<kind, server, pc>> /\ kind[r] \in GrpcKinds /\ InProgress(r)
        /\ ctxErr[r] = "none" /\ ctxErr'[r] \in {"canceled", "deadline"}
        /\ \A x \in Requests \ {r} : ctxErr'[x] = ctxErr[x]
    BY <1>4 DEF ClientGone, TypeOK
  <2>2. /\ CallNow[r] = CallOf(kind[r], pc[r], ctxErr[r])
        /\ CallNow'[r] = CallOf(kind[r], pc[r], ctxErr'[r])
        /\ CallNow' = [CallNow EXCEPT ![r] = CallNow'[r]]
    <3>1. pc'[r] = pc[r] /\ \A x \in Requests \ {r} : pc'[x] = pc[x] /\ ctxErr'[x] = ctxErr[x]
      BY <2>1
    <3> QED
      BY <2>1, <3>1, CallPoint
  <2>3. CallNow[r] = "open" /\ CallNow'[r] = "over"
    BY <2>1, <2>2 DEF CallOf, InProgress
  <2>4. IdleClean'
    BY <2>1 DEF IdleClean, InProgress
  <2> QED
    BY <2>1, <2>2, <2>3, <2>4 DEF CallStep, Calls!Next, Calls!ContextEnds
<1>5. CASE ClientSends(r)
  <2>1. UNCHANGED <<kind, server, pc, ctxErr>>
    BY <1>5 DEF ClientSends
  <2> QED
    BY <2>1 DEF CallStep, CallNow, IdleClean
<1> QED
  BY <1>1, <1>2, <1>3, <1>4, <1>5

\* Whatever a handler of either server does, it goes on with one request.
LEMMA HandlerContinues ==
  ASSUME TypeOK, NEW r \in Requests, GrpcStep(r) \/ HttpStep(r)
  PROVE  \E y \in Requests : Continues(y)
<1>1. CASE GrpcStep(r)
  <2>1. UNCHANGED <<kind, server, ctxErr>>
    BY <1>1 DEF GrpcStep, TopicList, NewClient, CallRobot, Subscribe, NewWaitSet,
       Callback, Send, RunEnds, NewPublisher, CheckContext, Recv, RecvEOF, RecvError, Publish,
       CloseNext, SendStatus, callVars
  <2>2. InProgress(r)
    BY <1>1 DEF GrpcStep, TopicList, NewClient, CallRobot, Subscribe, NewWaitSet,
       Callback, Send, RunEnds, NewPublisher, CheckContext, Recv, RecvEOF, RecvError, Publish,
       CloseNext, SendStatus, At, InProgress
  <2>3. \/ UNCHANGED pc
        \/ \E p \in Steps \ {"idle"} : Go(r, p)
    BY <1>1 DEF GrpcStep, TopicList, NewClient, CallRobot, Subscribe, NewWaitSet,
       Callback, Send, RunEnds, NewPublisher, CheckContext, Recv, RecvEOF, RecvError, Publish,
       CloseNext, SendStatus, Return, Steps, callVars, TypeOK
  <2> QED
    BY <2>1, <2>2, <2>3 DEF Continues
<1>2. CASE HttpStep(r)
  <2>1. UNCHANGED <<kind, server, ctxErr>>
    BY <1>2 DEF HttpStep, Healthcheck, ListGraph, Query, Respond, Bind, Service, Upgrade, Register,
       PumpPanics, Release, TimeoutMW, WorkBegins, Work, StaleNext, WorkPanics, Selected, httpVars, callVars
  <2>2. \/ UNCHANGED pc
        \/ \E y \in Requests, p \in Steps \ {"idle"} : InProgress(y) /\ Go(y, p)
    <3>1. CASE StaleNext(r)
      <4>1. PICK y \in Holders(r) : Go(y, "returning")
        BY <3>1 DEF StaleNext
      <4> QED
        BY <4>1 DEF Holders, Steps
    <3>2. CASE PumpPanics(r) \/ WorkBegins(r) \/ Work(r) \/ WorkPanics(r)
      BY <3>2 DEF PumpPanics, WorkBegins, Work, WorkPanics
    <3>3. CASE HttpStep(r) /\ ~StaleNext(r) /\ ~(PumpPanics(r) \/ WorkBegins(r) \/ Work(r) \/ WorkPanics(r))
      <4>1. InProgress(r) /\ \E p \in Steps \ {"idle"} : Go(r, p)
        BY <3>3 DEF HttpStep, Healthcheck, ListGraph, Query, Respond, Bind, Service, Upgrade, Register,
           Release, TimeoutMW, Selected, At, InProgress, Steps
      <4> QED
        BY <4>1
    <3> QED
      BY <1>2, <3>1, <3>2, <3>3
  <2> QED
    BY <2>1, <2>2 DEF Continues
<1> QED
  BY <1>1, <1>2

\* To the shutdown of the gRPC server, a call is no more than CallLife says: it
\* begins while the server serves, its context ends once, and it returns once.
THEOREM ImplementsCalls == Spec => ImplementsCallLife
<1>1. Init => Calls!Init /\ IdleClean
  <2> SUFFICES ASSUME Init PROVE Calls!Init /\ IdleClean
    OBVIOUS
  <2>1. CallNow = [r \in Requests |-> "none"]
    BY DEF Init, CallNow, CallOf
  <2> QED
    BY <2>1 DEF Init, Calls!Init, IdleClean
<1>2. TypeOK /\ IdleClean /\ [Next]_vars => [Calls!Next]_Calls!vars /\ IdleClean'
  <2> SUFFICES ASSUME TypeOK, IdleClean, [Next]_vars PROVE CallStep /\ IdleClean'
    BY DEF CallStep, Calls!vars
  <2>1. CASE UNCHANGED vars
    <3>1. UNCHANGED <<kind, server, pc, ctxErr>>
      BY <2>1 DEF vars, callVars
    <3> QED
      BY <3>1 DEF CallStep, CallNow, IdleClean
  <2>2. CASE Stop \/ HardStop
    <3>1. CASE Requests = {}
      BY <2>2, <3>1 DEF Stop, HardStop, CallStep, CallNow, Calls!Next, Calls!Stop, Calls!HardStop,
                        IdleClean
    <3>2. CASE Requests # {}
      BY <2>2, <3>2, ServerCalls
    <3> QED
      BY <3>1, <3>2
  <2>3. ASSUME NEW r \in Requests,
               Arrive(r) \/ ClientGone(r) \/ ClientSends(r) \/ GrpcStep(r) \/ HttpStep(r)
        PROVE  CallStep /\ IdleClean'
    BY <2>3, ServerCalls, HandlerContinues, ContinuesCalls
  <2> QED
    BY <2>1, <2>2, <2>3 DEF Next
<1> QED
  BY <1>1, <1>2, TypeCorrect, PTL DEF Spec, ImplementsCallLife, Calls!Spec
=============================================================================
