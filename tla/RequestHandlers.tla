--------------------------- MODULE RequestHandlers ---------------------------
(***************************************************************************)
(* What the agent's two request servers do for a request: the handlers of  *)
(* internal/server/grpc_server/services and those of the gin engine that   *)
(* internal/server/rest_server builds, with its middlewares.               *)
(*                                                                         *)
(* Each request has a goroutine, its handler.  A gRPC handler makes ROS    *)
(* entities of its own and is to close them with deferred calls.  A route  *)
(* of the HTTP API runs under gin.Recovery, cors and RequestIDMW only: the *)
(* other middlewares are added after the routes, so that gin applies them  *)
(* to unknown paths only.  There RequestTimeoutMW runs the rest of the     *)
(* chain in a second goroutine, the worker.  gin.Context values are pooled *)
(* and go from one request to the next.                                    *)
(***************************************************************************)
EXTENDS Naturals, Sequences, FiniteSets

CONSTANTS
  Requests, \* the requests, gRPC calls and HTTP requests
  Mixes,    \* which kinds of requests they may be
  MaxMsgs   \* bound: messages a client uploads

GrpcKinds == {"list", "action", "stream", "upload"}
HttpKinds == {"health", "graph", "services", "ws", "unknown"}
Kinds == GrpcKinds \cup HttpKinds

\* A request that no context was taken for.
NoCtx == "none"

ASSUME RequestAssumption ==
  /\ NoCtx \notin Requests
  /\ Mixes \subseteq [Requests -> Kinds]
  /\ MaxMsgs \in Nat

VARIABLES
  kind,      \* per request: its route or method
  pc,        \* per request: where its handler is
  server,    \* both servers: until the errgroup's context ends, and gRPC's hard stop
  ctxErr,    \* per call: the error of stream.Context()
  cancelled, \* the streams whose own context was cancelled after a failed Send
  open,      \* per call: the ROS entities it made and did not close
  result,    \* per call: the status its handler returns
  replies,   \* per request: what was answered to it, and by whose handler
  upload,    \* per call: the messages sent, received, published and counted
  halfClosed,\* the uploads whose client has sent its last message
  acked,     \* the uploads whose count was sent to the client
  worker,    \* per request: RequestTimeoutMW's goroutine
  ginCtx,    \* per request: the pooled context it was served with
  badConn,   \* the clients registered after a failed upgrade, with a nil connection
  crashed    \* a goroutine panicked and nobody recovers it, or Go ended the process

callVars == <<ctxErr, cancelled, open, result, upload, halfClosed, acked>>
httpVars == <<worker, ginCtx, badConn, crashed>>
vars == <<kind, pc, server, callVars, replies, httpVars>>

Steps == {"idle", "start", "subscribed", "wait", "send", "check", "recv", "publish",
          "service", "register", "select", "unwind", "returning", "done"}
Entities == {"sub", "waitset", "pub", "client"}
Codes == {"OK", "Internal", "NotFound", "Canceled", "Unknown", "BadRequest",
          "Switching", "TimedOut"}

\* An answer: by whose handler it was written, and what it says.
Reply == [by : Requests, code : Codes]

\* What happened to the messages of an upload.
Counters == [sent : Nat, received : Nat, published : Nat, count : Nat]

TypeOK ==
  /\ kind \in [Requests -> Kinds]
  /\ pc \in [Requests -> Steps]
  /\ server \in {"serving", "stopping", "stopped"}
  /\ ctxErr \in [Requests -> {"none", "canceled", "deadline"}]
  /\ {cancelled, halfClosed, acked, badConn} \subseteq SUBSET Requests
  /\ open \in [Requests -> SUBSET Entities]
  /\ result \in [Requests -> Codes]
  /\ replies \in [Requests -> Seq(Reply)]
  /\ upload \in [Requests -> Counters]
  /\ worker \in [Requests -> {"none", "running", "writing", "finished", "panicked"}]
  /\ ginCtx \in [Requests -> Requests \cup {NoCtx}]
  /\ crashed \in BOOLEAN

Init ==
  /\ kind \in Mixes
  /\ pc = [r \in Requests |-> "idle"]
  /\ server = "serving"
  /\ ctxErr = [r \in Requests |-> "none"]
  /\ open = [r \in Requests |-> {}]
  /\ result = [r \in Requests |-> "OK"]
  /\ replies = [r \in Requests |-> <<>>]
  /\ upload = [r \in Requests |-> [sent |-> 0, received |-> 0, published |-> 0, count |-> 0]]
  /\ cancelled = {} /\ halfClosed = {} /\ acked = {} /\ badConn = {}
  /\ worker = [r \in Requests |-> "none"]
  /\ ginCtx = [r \in Requests |-> NoCtx]
  /\ crashed = FALSE

-----------------------------------------------------------------------------
(* Steps and answers.                                                       *)

At(r, k, p) == kind[r] = k /\ pc[r] = p
Go(r, p) == pc' = [pc EXCEPT ![r] = p]

\* The handler of request r is running.
InProgress(r) == pc[r] \notin {"idle", "done"}

\* The handler of by writes an answer to request r.
Answer(r, by, code) ==
  replies' = [replies EXCEPT ![r] = Append(@, [by |-> by, code |-> code])]

\* A gRPC handler returns; its deferred calls come next.
Return(r, code) == Go(r, "unwind") /\ result' = [result EXCEPT ![r] = code]

Makes(r, e) == open' = [open EXCEPT ![r] = @ \cup {e}]

-----------------------------------------------------------------------------
(* The servers, and the clients of the calls.                               *)

\* A request comes while the servers accept one.  ServeHTTP takes a context
\* that no request in progress has: one from the pool, or a fresh one.
Arrive(r) ==
  /\ pc[r] = "idle" /\ server = "serving"
  /\ Go(r, "start")
  /\ IF kind[r] \in HttpKinds
       THEN \E c \in Requests :
              /\ \A q \in Requests : InProgress(q) => ginCtx[q] # c
              /\ ginCtx' = [ginCtx EXCEPT ![r] = c]
       ELSE UNCHANGED ginCtx
  /\ UNCHANGED <<kind, server, callVars, replies, worker, badConn, crashed>>

\* The errgroup's context ends: neither server takes a new request.
Stop ==
  /\ server = "serving"
  /\ server' = "stopping"
  /\ UNCHANGED <<kind, pc, callVars, replies, httpVars>>

\* grpcServer.Stop() after three seconds: every call's context is cancelled.
HardStop ==
  /\ server = "stopping"
  /\ server' = "stopped"
  /\ ctxErr' = [r \in Requests |->
       IF kind[r] \in GrpcKinds /\ InProgress(r) /\ ctxErr[r] = "none"
         THEN "canceled" ELSE ctxErr[r]]
  /\ UNCHANGED <<kind, pc, cancelled, open, result, upload, halfClosed, acked, replies, httpVars>>

\* The client goes away, or its deadline passes.
ClientGone(r) ==
  /\ kind[r] \in GrpcKinds /\ InProgress(r) /\ ctxErr[r] = "none"
  /\ \E e \in {"canceled", "deadline"} : ctxErr' = [ctxErr EXCEPT ![r] = e]
  /\ UNCHANGED <<kind, pc, server, cancelled, open, result, upload, halfClosed, acked,
                 replies, httpVars>>

\* The client of an upload sends a message, or says that there are no more.
ClientSends(r) ==
  /\ kind[r] = "upload" /\ InProgress(r) /\ ctxErr[r] = "none" /\ r \notin halfClosed
  /\ \/ /\ upload[r].sent < MaxMsgs
        /\ upload' = [upload EXCEPT ![r].sent = @ + 1]
        /\ UNCHANGED halfClosed
     \/ halfClosed' = halfClosed \cup {r} /\ UNCHANGED upload
  /\ UNCHANGED <<kind, pc, server, ctxErr, cancelled, open, result, acked, replies, httpVars>>

-----------------------------------------------------------------------------
(* TopicList and the RobotAction service.                                   *)

TopicList(r) ==
  /\ At(r, "list", "start")
  /\ \E code \in {"OK", "Internal"} : Return(r, code)
  /\ UNCHANGED <<kind, server, ctxErr, cancelled, open, upload, halfClosed, acked, replies, httpVars>>

\* SetAction, SetMode and PlaybackAction make a client of the robot's service ...
NewClient(r) ==
  /\ At(r, "action", "start")
  /\ \/ Return(r, "Internal") /\ UNCHANGED open
     \/ Makes(r, "client") /\ Go(r, "service") /\ UNCHANGED result
  /\ UNCHANGED <<kind, server, ctxErr, cancelled, upload, halfClosed, acked, replies, httpVars>>

\* ... wait for the robot or for the end of the call, and never close it.
CallRobot(r) ==
  /\ At(r, "action", "service")
  /\ \E code \in {"OK", "Internal"} : Return(r, code)
  /\ UNCHANGED <<kind, server, ctxErr, cancelled, open, upload, halfClosed, acked, replies, httpVars>>

-----------------------------------------------------------------------------
(* StreamCompressedImage and StreamJointStates.                             *)

\* Bug: the stream's context is derived from context.Background().
OwnDoneAlone(r) == r \in cancelled

\* The stream's own context, a child of stream.Context(), is done.
OwnDone(r) == ctxErr[r] # "none" \/ r \in cancelled

\* The topic is looked up and subscribed to.
Subscribe(r) ==
  /\ At(r, "stream", "start")
  /\ \/ \E code \in {"Internal", "NotFound"} : Return(r, code) /\ UNCHANGED open
     \/ Makes(r, "sub") /\ Go(r, "subscribed") /\ UNCHANGED result
  /\ UNCHANGED <<kind, server, ctxErr, cancelled, upload, halfClosed, acked, replies, httpVars>>

NewWaitSet(r) ==
  /\ At(r, "stream", "subscribed")
  /\ \/ Return(r, "Internal") /\ UNCHANGED open
     \/ Makes(r, "waitset") /\ Go(r, "wait") /\ UNCHANGED result
  /\ UNCHANGED <<kind, server, ctxErr, cancelled, upload, halfClosed, acked, replies, httpVars>>

\* ws.Run calls the subscription's callback, which looks at the context first.
Callback(r) ==
  /\ At(r, "stream", "wait") /\ ~OwnDone(r)
  /\ Go(r, "send")
  /\ UNCHANGED <<kind, server, callVars, replies, httpVars>>

\* stream.Send takes the message or fails; a client that reads slowly makes it wait.
Send(r) ==
  /\ At(r, "stream", "send")
  /\ Go(r, "wait")
  /\ cancelled' \in {cancelled, cancelled \cup {r}}
  /\ UNCHANGED <<kind, server, ctxErr, open, result, upload, halfClosed, acked, replies, httpVars>>

\* ws.Run returns: because its context is done, or for an error of its own.
RunEnds(r) ==
  /\ At(r, "stream", "wait")
  /\ \/ OwnDone(r) /\ Return(r, "OK")
     \/ Return(r, "Internal")
  /\ UNCHANGED <<kind, server, ctxErr, cancelled, open, upload, halfClosed, acked, replies, httpVars>>

-----------------------------------------------------------------------------
(* UploadJointCommands.                                                     *)

NewPublisher(r) ==
  /\ At(r, "upload", "start")
  /\ \/ Return(r, "Internal") /\ UNCHANGED open
     \/ Makes(r, "pub") /\ Go(r, "check") /\ UNCHANGED result
  /\ UNCHANGED <<kind, server, ctxErr, cancelled, upload, halfClosed, acked, replies, httpVars>>

\* The top of the loop: a cancelled call ends without an error.
CheckContext(r) ==
  /\ At(r, "upload", "check")
  /\ CASE ctxErr[r] = "none"     -> Go(r, "recv") /\ UNCHANGED result
       [] ctxErr[r] = "canceled" -> Return(r, "OK")
       [] ctxErr[r] = "deadline" -> Return(r, "Canceled")
  /\ UNCHANGED <<kind, server, ctxErr, cancelled, open, upload, halfClosed, acked, replies, httpVars>>

\* stream.Recv takes the next message, ...
Recv(r) ==
  /\ At(r, "upload", "recv")
  /\ upload[r].received < upload[r].sent
  /\ upload' = [upload EXCEPT ![r].received = @ + 1]
  /\ Go(r, "publish")
  /\ UNCHANGED <<kind, server, ctxErr, cancelled, open, result, halfClosed, acked, replies, httpVars>>

\* ... finds that the client is done, upon which SendAndClose gives it the count, ...
RecvEOF(r) ==
  /\ At(r, "upload", "recv")
  /\ r \in halfClosed /\ upload[r].received = upload[r].sent
  /\ IF ctxErr[r] = "none" THEN acked' = acked \cup {r} /\ Return(r, "OK")
                           ELSE UNCHANGED acked /\ Return(r, "Canceled")
  /\ UNCHANGED <<kind, server, ctxErr, cancelled, open, upload, halfClosed, replies, httpVars>>

\* ... or fails because the call is over, whether or not messages wait.
RecvError(r) ==
  /\ At(r, "upload", "recv") /\ ctxErr[r] # "none"
  /\ Return(r, "Internal")
  /\ UNCHANGED <<kind, server, ctxErr, cancelled, open, upload, halfClosed, acked, replies, httpVars>>

\* Bug: the message is counted whether or not it could be published.
PublishUnchecked(r) ==
  /\ At(r, "upload", "publish")
  /\ upload' \in {[upload EXCEPT ![r].count = @ + 1],
                  [upload EXCEPT ![r].count = @ + 1, ![r].published = @ + 1]}
  /\ Go(r, "check")
  /\ UNCHANGED <<kind, server, ctxErr, cancelled, open, result, halfClosed, acked, replies, httpVars>>

\* The message is published and counted; or it cannot be published; or it has no
\* payload, and the handler panics into the recovery interceptor.
Publish(r) ==
  /\ At(r, "upload", "publish")
  /\ \/ /\ upload' = [upload EXCEPT ![r].published = @ + 1, ![r].count = @ + 1]
        /\ Go(r, "check")
        /\ UNCHANGED result
     \/ \E code \in {"Internal", "Unknown"} : Return(r, code) /\ UNCHANGED upload
  /\ UNCHANGED <<kind, server, ctxErr, cancelled, open, halfClosed, acked, replies, httpVars>>

-----------------------------------------------------------------------------
(* The end of a gRPC handler.                                               *)

\* Bug: the deferred calls are written in the order of their closing.
NextToCloseFirst(r) == IF "sub" \in open[r] THEN "sub" ELSE CHOOSE e \in open[r] : TRUE

\* Deferred calls run last in, first out.
NextToClose(r) ==
  IF "waitset" \in open[r] THEN "waitset" ELSE CHOOSE e \in open[r] \ {"client"} : TRUE

\* The entities that a deferred call of the handler closes: all but the clients.
Deferred(r) == open[r] \ {"client"}

CloseNext(r) ==
  /\ pc[r] = "unwind" /\ Deferred(r) # {}
  /\ open' = [open EXCEPT ![r] = @ \ {NextToClose(r)}]
  /\ UNCHANGED <<kind, pc, server, ctxErr, cancelled, result, upload, halfClosed, acked,
                 replies, httpVars>>

\* The server sends the status that the handler returned.
SendStatus(r) ==
  /\ pc[r] = "unwind" /\ Deferred(r) = {}
  /\ Go(r, "done")
  /\ Answer(r, r, result[r])
  /\ UNCHANGED <<kind, server, callVars, httpVars>>

-----------------------------------------------------------------------------
(* The HTTP API.                                                            *)

\* What writes through the context of request r meets one of the workers that are
\* writing through the same context: Go may find two goroutines in one header map,
\* and end the process.
MayCollide(r, workers) ==
  \/ UNCHANGED crashed
  \/ /\ \E q \in workers : worker[q] = "writing" /\ ginCtx[q] = ginCtx[r]
     /\ crashed' = TRUE

\* The handler of an HTTP request answers it, through its context.
Respond(r, code) == Answer(r, r, code) /\ MayCollide(r, Requests)

\* A route that asks and answers; a panic is answered by gin.Recovery.
Query(r, k) ==
  /\ At(r, k, "start")
  /\ Go(r, "returning")
  /\ \E code \in {"OK", "Internal"} : Respond(r, code)
  /\ UNCHANGED <<kind, server, callVars, worker, ginCtx, badConn>>

\* Host, memory, network, processor and batteries; the first failure is the answer.
Healthcheck(r) == Query(r, "health")

\* listTopics and listNodes
ListGraph(r) == Query(r, "graph")

\* Bug: a request that is not valid is answered, and then served as well.
BindAnswered(r) ==
  /\ At(r, "services", "start")
  /\ \/ Go(r, "returning") /\ Respond(r, "BadRequest")
     \/ Go(r, "service") /\ Respond(r, "BadRequest")
     \/ Go(r, "service") /\ UNCHANGED <<replies, crashed>>
  /\ UNCHANGED <<kind, server, callVars, worker, ginCtx, badConn>>

\* listServiceNamesAndTypesByNode: a query that cannot be bound is refused.  One
\* that is not valid fills in the response, sends nothing and goes on.
Bind(r) ==
  /\ At(r, "services", "start")
  /\ \/ Go(r, "returning") /\ Respond(r, "BadRequest")
     \/ Go(r, "service") /\ UNCHANGED <<replies, crashed>>
  /\ UNCHANGED <<kind, server, callVars, worker, ginCtx, badConn>>

\* Its service asks the ROS node, with empty names if the query had none.
Service(r) ==
  /\ At(r, "services", "service")
  /\ Go(r, "returning")
  /\ \E code \in {"OK", "Internal"} : Respond(r, code)
  /\ UNCHANGED <<kind, server, callVars, worker, ginCtx, badConn>>

\* Exchange upgrades the connection.  The upgrader answers a request that it
\* refuses, and Exchange goes on without a connection.
Upgrade(r) ==
  /\ At(r, "ws", "start")
  /\ Go(r, "register")
  /\ \/ Respond(r, "Switching") /\ UNCHANGED badConn
     \/ Respond(r, "BadRequest") /\ badConn' = badConn \cup {r}
  /\ UNCHANGED <<kind, server, callVars, worker, ginCtx>>

\* The hub takes the client and Exchange starts its two pumps.
Register(r) ==
  /\ At(r, "ws", "register")
  /\ Go(r, "returning")
  /\ UNCHANGED <<kind, server, callVars, replies, httpVars>>

\* The read pump calls a method of the nil connection, outside any recovery.
PumpPanics(r) ==
  /\ r \in badConn /\ pc[r] \in {"returning", "done"}
  /\ crashed' = TRUE
  /\ UNCHANGED <<kind, pc, server, callVars, replies, worker, ginCtx, badConn>>

\* ServeHTTP puts the context back into the pool.
Release(r) ==
  /\ pc[r] = "returning"
  /\ Go(r, "done")
  /\ UNCHANGED <<kind, server, callVars, replies, httpVars>>

-----------------------------------------------------------------------------
(* Unknown paths: RequestTimeoutMW, its worker, and NoRouteMW.              *)

SetWorker(r, w) == worker' = [worker EXCEPT ![r] = w]

TimeoutMW(r) ==
  /\ At(r, "unknown", "start")
  /\ Go(r, "select")
  /\ SetWorker(r, "running")
  /\ UNCHANGED <<kind, server, callVars, replies, ginCtx, badConn, crashed>>

\* The requests that the worker of r reaches through its context: r, or after r
\* has returned the request to which the pool gave the context, or none.
Holders(r) == {x \in Requests : InProgress(x) /\ ginCtx[x] = ginCtx[r]}

\* The worker begins to write through its context: NoRouteMW's answer, or
\* RecoveryMW's.  The middleware's timer does not stop it.
WorkBegins(r) ==
  /\ worker[r] = "running"
  /\ SetWorker(r, "writing")
  /\ UNCHANGED <<kind, pc, server, callVars, replies, ginCtx, badConn, crashed>>

\* It has written: to whichever request has its context.
Work(r) ==
  /\ worker[r] = "writing"
  /\ SetWorker(r, "finished")
  /\ \/ \E x \in Holders(r), code \in {"NotFound", "Internal"} : Answer(x, r, code)
     \/ Holders(r) = {} /\ UNCHANGED replies
  /\ MayCollide(r, Requests \ {r})
  /\ UNCHANGED <<kind, pc, server, callVars, ginCtx, badConn>>

\* A worker that is late runs on the index and the handlers of the request that
\* has its context now: that request may return without having been handled.
StaleNext(r) ==
  /\ worker[r] = "running"
  /\ SetWorker(r, "finished")
  /\ \E x \in Holders(r) \ {r} : pc[x] = "start" /\ Go(x, "returning")
  /\ UNCHANGED <<kind, server, callVars, replies, ginCtx, badConn, crashed>>

\* A middleware outside RecoveryMW panics: the worker's own recover reports it.
WorkPanics(r) ==
  /\ worker[r] = "running"
  /\ SetWorker(r, "panicked")
  /\ UNCHANGED <<kind, pc, server, callVars, replies, ginCtx, badConn, crashed>>

\* The middleware's select; the timer may run out in any case, also while the
\* worker writes.
Selected(r) ==
  /\ At(r, "unknown", "select")
  /\ \/ worker[r] = "finished" /\ UNCHANGED <<replies, crashed>>
     \/ worker[r] = "panicked" /\ Respond(r, "Internal")
     \/ Respond(r, "TimedOut")
  /\ Go(r, "returning")
  /\ UNCHANGED <<kind, server, callVars, worker, ginCtx, badConn>>

-----------------------------------------------------------------------------
GrpcStep(r) ==
  \/ TopicList(r) \/ NewClient(r) \/ CallRobot(r)
  \/ Subscribe(r) \/ NewWaitSet(r) \/ Callback(r) \/ Send(r) \/ RunEnds(r)
  \/ NewPublisher(r) \/ CheckContext(r) \/ Recv(r) \/ RecvEOF(r) \/ RecvError(r) \/ Publish(r)
  \/ CloseNext(r) \/ SendStatus(r)

HttpStep(r) ==
  \/ Healthcheck(r) \/ ListGraph(r) \/ Bind(r) \/ Service(r)
  \/ Upgrade(r) \/ Register(r) \/ PumpPanics(r) \/ Release(r)
  \/ TimeoutMW(r) \/ WorkBegins(r) \/ Work(r) \/ StaleNext(r) \/ WorkPanics(r) \/ Selected(r)

Next ==
  /\ ~crashed
  /\ \/ Stop \/ HardStop
     \/ \E r \in Requests :
          Arrive(r) \/ ClientGone(r) \/ ClientSends(r) \/ GrpcStep(r) \/ HttpStep(r)

Spec == Init /\ [][Next]_vars

\* The steps of a handler that no client, robot or publisher can hold back: what
\* the end of its context makes possible, and the steps around it.
OwnStep(r) ==
  \/ TopicList(r) \/ NewClient(r) \/ Subscribe(r) \/ NewWaitSet(r) \/ NewPublisher(r)
  \/ CheckContext(r) \/ Publish(r) \/ CloseNext(r) \/ SendStatus(r)
  \/ ctxErr[r] # "none" /\ (CallRobot(r) \/ Send(r) \/ RecvError(r))
  \/ OwnDone(r) /\ RunEnds(r)

Fairness == \A r \in Requests : WF_vars(~crashed /\ OwnStep(r))

FairSpec == Spec /\ Fairness

-----------------------------------------------------------------------------
(* What must hold.                                                          *)

\* The count that a client is given is the number of messages it sent, and each
\* of them was published to the robot; and a client that is told OK while its
\* call was alive was given the count.
AckIsComplete ==
  \A r \in Requests :
    /\ r \in acked =>
         /\ r \in halfClosed
         /\ upload[r].count = upload[r].sent
         /\ upload[r].published = upload[r].sent
    /\ kind[r] = "upload" /\ pc[r] = "unwind" /\ result[r] = "OK" /\ ctxErr[r] = "none"
         => r \in acked

\* However a call ends, of its ROS entities only the clients of the RobotAction
\* service outlive it; and no subscription is closed under a wait set that
\* waits for it.
OnlyClientsOutlive ==
  \A r \in Requests :
    /\ pc[r] \in {"idle", "done"} =>
         open[r] \subseteq (IF kind[r] = "action" THEN {"client"} ELSE {})
    /\ "waitset" \in open[r] => "sub" \in open[r]

\* The timer of request r ran out.
Late(r) == [by |-> r, code |-> "TimedOut"] \in {replies[r][i] : i \in DOMAIN replies[r]}

\* A timer ran out on a request that had r's context, which may be r.
Excused(r) == \E q \in Requests : Late(q) /\ ginCtx[q] = ginCtx[r]

\* The process is ended by nothing but a failed upgrade, or a worker that was still
\* at work when the timer of its request ran out: no two goroutines of requests
\* that are in time ever write through one context.  And every request gets one
\* answer, its own handler's, unless a timer ran out on the request that had its
\* context.
AnsweredOnce ==
  /\ crashed => badConn # {} \/ \E r \in Requests : Late(r)
  /\ \A r \in Requests :
       \/ Excused(r)
       \/ /\ \A i \in DOMAIN replies[r] : replies[r][i].by = r
          /\ Len(replies[r]) <= 1
          /\ pc[r] = "done" => Len(replies[r]) = 1

\* A call whose client is gone, whose deadline is over or whose server is
\* stopped ends, whatever the topic, the robot and the client do.
OverCallEnds ==
  \A r \in Requests : (ctxErr[r] # "none") ~> (pc[r] = "done" \/ crashed)
=============================================================================
