# Formal model of rcl-agent

TLA+ models of the concurrent core of the ROS 2 agent in this repository, TLC
configurations that check them on small instances, and TLAPS proofs of their
safety for every instance. Paths below are relative to the repository; paths
that start with `webrtc/`, `signaling/`, `server/`, ... are under `internal/`.

To repeat the checks: `tlc -workers 2 -config X.cfg M` for a run of
`PROJECT.json`, `tlapm M.tla` for a module whose name ends in `Proofs`.

## 1. The system

The agent is one Go process on a robot. `main.go` makes a ROS node and runs five
services in an errgroup. An operator's browser exchanges SDP messages with the
agent over WebSocket (or MQTT) and gets a camera as H264 over WebRTC. Two
servers, gRPC and HTTP, give clients the robot's topics, streams and actions.

```
            browser ── WebSocket ──> HTTP server ── hub <──WebSocket── WebRTC daemon
                                                     (signaling)            │ one per offer
  ROS camera ──> subscriber ──> fan-out ──> session channel ──> feeder ──> session
                 (stream of a topic: topic broadcaster)          │
  browser <── WebRTC track <── pipeline <── ffmpeg <── H264 encoder
```

| Component | State | Operations | What is hard, and what makes it correct |
|---|---|---|---|
| Topic broadcaster (`webrtc/topic_broadcaster.go`, `topic_subscriber.go`) | per topic: a channel, the viewers' channels, a cancel function; per stream a subscriber and a fan-out goroutine | AddViewer, RemoveViewer, image callback, fan-out | sends on channels that sessions close; streams of one topic that overlap; contexts inherited from a viewer. No send on a closed channel, maps that agree, no stream left behind, viewers served |
| Signaling hub (`signaling/`, `server/.../ws/websocket.go`) | registered clients, one bounded buffer each | register, unregister, broadcast; read and write pump and ping loop per client | buffers closed by eviction and by removal; slow clients. No close or send on a closed channel, no gap for a registered client, nobody waits for a slow one |
| H264 encoder (`infrastructure/h264_encoder`) | ffmpeg, its input channel, an error slot, a `closed` channel | NewH264Encoder, WriteFrame, NextNAL, Close; writer and waiter goroutines | process exit, kill, stdin and Close in any order. Frames in order, errors reported, nothing left behind, Close returns |
| WebRTC session (`webrtc/viewer.go`, `sdpExchangeHandler`) | contexts, peer connection, encoder, two errgroups | one handler per offer, from AddViewer to six deferred calls | setup errors, ICE, peer and shutdown racing. Ordered release, no wait without end |
| WebRTC daemon (`webrtc/viewer.go`, `infrastructure/mqtt_client`) | the connection to the agent's own hub; in MQTT mode the subscription and its token | reconnect loop, dispatch, answers; Start's subscription | connections lost between two statements, subscriptions that time out or are refused. One connection at a time, offers only, reconnection, deaf only for a known cause |
| Agent lifecycle (`main.go`, `server/grpc_server`, `server/monitoring`, `server/rest_server/server.go`, `agent/ros_topics_retriever`) | errgroup, two contexts, signal channel, ROS node | start, fail and stop of five services, grace period, deferred node.Close | failure, signal and timers in any order. Node closed under no service that ends in time, a signal ends the agent, a failure stops the servers |
| Schema resolver (`infrastructure/mcap_schema_resolver`) | map from message type to file, made once | Global, Flatten | overlays, missing files, cyclic definitions. Order of the path irrelevant; exactly the types the root needs, once each |
| Request handlers (`server/grpc_server/services`, `server/rest_server`) | per call its ROS entities and counters; per HTTP request a pooled context and perhaps a worker | seven gRPC methods, five HTTP routes, the middlewares of unknown paths | calls that end at any wait, uploads that fail in the middle, a timer racing its worker, contexts reused. Honest acknowledgements, nothing left open, one answer per request, no handler without end |
| Image conversion, helpers, holders of third-party clients, configuration | mostly none | | see section 7 |

The hazards of this code, each at its line and with the properties that would
catch it, are listed in `PROJECT.json`.

## 2. Modules

| Module | Models | Uses |
|---|---|---|
| `TopicBroadcaster` | the broadcaster, its subscribers and fan-outs, and the life of a session as the broadcaster sees it | `LossyFanOut` as the abstract specification it implements |
| `LossyFanOut` | what the broadcaster promises: per session and stream an in-order, duplicate-free, lossy copy while the session is in | |
| `SignalingHub` | the hub, and the clients that `Exchange` and the daemon make | `OrderedBroadcast` as the abstract specification it implements |
| `OrderedBroadcast` | what the hub promises: whoever is in is owed every message in order, and is put out rather than skipped over | |
| `H264Encoder` | WriteFrame, the writer, the waiter, ffmpeg, Close, and their caller in the session | |
| `ViewerSession` | `sdpExchangeHandler`: handler, pipeline, feeder, callbacks | |
| `DaemonSignaling` | the reconnect loop, its connections and the dispatch, composed with the sessions | EXTENDS `ViewerSession` |
| `AgentLifecycle` | main and its five services, streams and sessions as work that uses the node | |
| `RequestHandlers` | the gRPC methods and the HTTP routes and middlewares, from the arrival of a request to its answer | |
| `SchemaResolver` | registration and flattening | |
| `SessionLife`, `EncoderUse`, `ConnectionLife`, `CallLife` | the interfaces between the modules above, see below | |
| `MC*` | instances for TLC | the module of the same name |
| `*Proofs` | theorems about the module of the same name | `DaemonSignalingProofs` also extends `ViewerSessionProofs` |

### Interfaces: assume and guarantee

Four parts of the system appear in two models: once in detail, and once as the
small environment of the part that relies on it. For each pair an interface
module says what the second may assume. Both models are shown to refine it, so
that what one assumes is what the other does:

| Interface | Relied on by | Provided by |
|---|---|---|
| `SessionLife`: a session joins its topic once and leaves it, closes its channel and cancels, in this order | `TopicBroadcaster` (`AssumesSessionLife`) | `ViewerSession` (`SessionImplementsLife`) |
| `EncoderUse`: one feeder, which stops only with the session; a Close that waits for it | `H264Encoder` (`AssumesEncoderUse`) | `ViewerSession` (`SessionImplementsUse`) |
| `ConnectionLife`: the daemon's client is dialled, registered and read once, and marked closed after its connection is down | `SignalingHub` (`HubSeesConnectionLife`) | `DaemonSignaling` (`DaemonImplementsConnectionLife`) |
| `CallLife`: a gRPC call begins while the server serves, its context ends at most once, it returns once, and the hard stop ends every context | `AgentLifecycle` (`AssumesCallLife`) | `RequestHandlers` (`ImplementsCalls`) |

The mappings stand in the `*Proofs` modules. For example an encoder's `over` is
"the session's context is done or its frame channel is closed", which
`H264Encoder` has as one flag and `ViewerSession` as the place of the handler and
three contexts. The interfaces are safety only: that an encoder's Close returns,
or that a call ends, stays with the liveness properties of the runs.

### How code becomes actions

- **Grain.** A goroutine is a program counter per actor. A step ends at the next
  channel operation, lock, select, context check or call that blocks; what lies
  between is part of it. A critical section under `Lock` is one step; the one
  under `RLock` in the fan-out is a state, since it sends to many channels and
  writers must wait for it.
- **Select.** Each ready case is a disjunct; when several are ready any is taken.
- **Contexts.** A context is done when it or an ancestor is cancelled:
  `CtxDone`, `SubDone`, `IceDone` are the ancestor chains of the code.
- **Channels.** A closed channel is a flag or a program counter of the goroutine
  that closes it; a buffered channel is a sequence, or a count when the order of
  what is in it cannot matter.
- **Time.** Timers fire at any moment while they run. No property relies on a
  duration.
- **Data.** Frames and messages are numbered in the order of their acceptance,
  so that "lost", "repeated" and "reordered" can be said. Message kinds are
  records of what `ValidateWebRTC` tests. ROS definitions are sequences of
  fields that keep the five ways in which a line may name a type.
- **Bug operators.** An operator under a comment that begins with `Bug:` is a
  mutation of the definition that follows it. No behaviour of the models uses
  it; the mutation tests put it in place of that definition and the property
  named in `PROJECT.json` must then fail.

### Module by module

`TopicBroadcaster`. A *stream* is what `AddViewer` starts for a topic's first
viewer: the context `subCtx` (child of that viewer's context), the goroutine in
`newCameraSubscriber` (`Sub*`, `TakeMessage`, `CallbackSend`) and the fan-out
(`Fan*`). It is named after that viewer, so that an old stream and its successor
are distinct. `topics`, `viewers`, `cancelFn` are the maps. A session runs
`AddViewer`, ends with or without calling `cancel()`, and then its deferred
calls in order: `RemoveViewer`, `CloseFrameCh`, `CancelCtx`. The flag of
`SubEnable` is absorbed in `TakeMessage`, which may drop any message. ROS may
skip messages; it does not repeat or reorder those of one subscription.

`SignalingHub`. The hub's loop takes from unbuffered channels and its handlers
do not block, so a rendezvous and its handler are one action of the client that
sends: `Register`, `Broadcast`, `Unregister`. `Broadcast` fills the buffers of
all clients and evicts those that are full. The daemon's client is registered
without a write pump, as in `connectWebsocketOnce`: its buffer fills and it is
evicted while its read pump goes on.

`H264Encoder`. `WriteFrame` has two phases (look at `closed`; send or give up),
`Accept` and `Refuse` are the cases of its select, with `DropIfBusy` chosen
initially. A write may fail at any time (`WriterFail`), also while ffmpeg lives
with its stdin closed. `WriterTake .. CloseStdin` are the writer goroutine, `WaiterWait ..
WaiterClose` the waiter, with the up to three sends to the one-slot `errCh`.
`Join` is `subG.Wait()` of the caller, `CloseInput .. CloseReturn` are `Close`.

`ViewerSession` and `DaemonSignaling`. `main[x]` walks through
`sdpExchangeHandler`; every error return leads into the deferred calls at the
point that the code has reached (`Leaving`). The pipeline goes from
`NewEncoder` over the ICE wait to the loop of `NextNAL` and `WriteSample`. A feeder
in `WriteFrame` may be jammed once ffmpeg has ended (`FeederJams`): the encoder's
waiter blocks on its full `errCh` and never closes the channel that would let
`WriteFrame` return, the state `ErrorsStuck` of `H264Encoder`. In the composition `Receive` is the dispatch of a message by a connection's read
pump and `AnswerVia` is `w.cWebsocket.WriteJSON`, with the pointer nil, stale
or current. The loop's look at its context, its dial, its registration, the
start of the read pump and the assignment of `w.cWebsocket` are separate steps.
In MQTT mode, chosen initially, `Subscribe` and `WaitSubscribed` are `Start`,
`Answered` is the broker's late or early answer, which may be a refusal that the
token does not report as an error, `LoseBroker` and `RejoinBroker` the connection; a clean session forgets the subscription, and no handler
subscribes again. `MqttReceive` and `Handle` start the same sessions.

`RequestHandlers`. `pc[r]` walks through the handler of a request; a gRPC method
that returns goes to `unwind`, where its deferred calls close the entities in
`open[r]` one by one, last in first out, before the status is sent. The context
of a call (`ctxErr`) ends by its client, its deadline or the server's hard stop;
`CheckContext`, `Recv`, `RecvEOF` and `RecvError` are the places where an upload
sees it, and a `Recv` with messages waiting may return either. The HTTP routes
run without the timeout middleware, since `server.go` adds it after them: gin
applies it to unknown paths only. There `TimeoutMW` starts the worker, and
`Selected` takes whichever of its end, its panic and the timer it sees. The
worker's answer takes time (`WorkBegins`, `Work`), and who else writes through its
context meanwhile, the timer's own answer, another handler or another worker, may
meet it in one header map, upon which Go ends the process (`MayCollide`). Once the
timer has won, the context goes back into gin's pool and the worker goes on with
it. What it then does is undefined; the model takes the outcomes that matter, a
collision, an answer written to the request that has the context now (`Work`) or
handlers of that request that are skipped (`StaleNext`). `AnsweredOnce` excuses
exactly the requests that shared a context with a late one, and allows the end of
the process for a failed upgrade or when some timer has run out.

`AgentLifecycle`. `svc[s]` is a service's goroutine, `failed` the errors that
cancel the errgroup's context. The gRPC server fails before it serves or later;
with a client CA that holds no certificate (`badCA`, chosen initially) it wraps an
error that is nil there (`grpc.go:93`) and so returns nil, which `main.go:279`
takes for success (`GrpcStart`); the daemon looks at `parentDone` only, since
`main.go:328` gives it `parentCtx`. `FirstSelect`, `AllTasksExited`,
`SecondSignal`, `GraceTimeout` are main's selects and `Deferred` its deferred
calls. The monitoring server's `errCh` is closed by a deferred call while its
listener may still fail: `MonitorReport` then ends the process.

`SchemaResolver`. `RegisterPrefix` is one round of Global's loop over the sorted
prefixes, `Flatten` the call for a root, and `stack` the calls of
`flattenInner`: `EnterField`, `SkipField`, `FailField`, `ReturnInner` are what a
line of a definition leads to.

## 3. Runs

All runs end within four minutes with two workers. State counts are distinct states.

| Run | States | Question | Answer |
|---|---|---|---|
| `broadcaster_traffic` | 0.24 M | Sessions come and go on one camera: can a fan-out send on a closed channel, the maps disagree, a stream be orphaned? Does each session get a lossy in-order copy, even from two overlapping streams? | No; and yes, `LossyFanOut` is implemented |
| `broadcaster_live` | 13 k | With every channel full and nobody receiving, does a leaving session finish and a cancelled stream end? | Yes |
| `broadcaster_served` | | Is a watching session served by a live stream? | **No**: the stream dies with the session that started it |
| `hub_traffic` | 60 k | Can the hub panic, skip or repeat a message, keep a dead client or block a sender? Does it keep its promise to its clients? | No; and yes, `OrderedBroadcast` is implemented |
| `encoder_session` | 52 k | Are frames ordered, errors reported, goroutines released; do feeder and Close return? | Yes, except in the named state `ErrorsStuck` |
| `encoder_close_hangs` | | Does Close always return? | **No**: after a kill by the context `inCh` stays open |
| `agent_lifecycle` | 0.40 M | When `g.Wait` has returned, is the node closed under no service, nor under a stream that the gRPC server could wait for? Does no service stop alone? Does a signal always end the agent, and a failure stop the servers? | Yes, but for a monitoring server that is disabled and a gRPC server that takes its unusable client CA for success, which stop alone. Sessions, HTTP requests, streams that the hard stop cuts and the exits by a second signal or the grace period are outside the first question |
| `agent_failure` | | Does the failure of a service end the agent? | **No**: the daemon keeps `g.Wait` waiting |
| `daemon_sessions` | 0.16 M | With connections lost at any point: one connection, ordered release, every session ends and its pipeline unwinds, reconnection? In MQTT mode: deaf only for a known cause? | Yes, but for sessions whose gathering does not end and pipelines whose feeder is jammed; the causes of deafness are a late answer, a refusal and a clean session |
| `session_dead_stream` | | Does a session end when its encoder has ended? | **No**: `subG.Wait()` precedes what would stop the feeder |
| `requests` | 0.29 M | Is an acknowledged upload a published one? Does a call close what it made, in order, and end when it is over? Is a request answered once, by its own handler? | Yes, but for service clients, which no code closes, and for requests that share a context with a late worker. The process ends only by a failed upgrade or after a timer has run out |
| `schema_flatten` | 65 k | Is the flattened definition exactly what the root needs, for overlaid, missing, unreadable and cyclic definitions? | Yes |

The four answers in bold are the findings of `PROJECT.json`. Each contradicts a
sentence of the code, quoted there. `CHECK_DEADLOCK FALSE` is in every
configuration because each system may legitimately stop: sessions and messages
are bounded, the agent exits, a registry whose initialisation failed stays so.

Some behaviours that the models show are denied by no sentence of the repository.
They are no findings, but are written into the properties as exceptions, by name:

- a failed upgrade ends the process, and so may a worker of `RequestTimeoutMW` that
  is at work when its timer runs out; such a worker may also answer somebody else's
  request (`AnsweredOnce`, `Excused`);
- the service clients of `robot_action.go` stay open (`OnlyClientsOutlive`);
- in MQTT mode the daemon may run without a subscription, after a timeout, a refusal
  or the loss of a clean session (`DeafForCause`);
- with an unusable client CA the gRPC service ends alone and the agent goes on
  without it (`NoSilentStop`, `ReturnsNil`);
- an encoder whose errors do not fit into `errCh` never lets go of its feeder, nor of
  its `Close` (`ErrorsStuck` in `FeederEnds` and `CloseReturnsOnceInputClosed`,
  `jammed` in `PipelineUnwinds`);
- a session whose ICE gathering does not end does not end (`PeerGoneEnds`,
  `ShutdownEnds`).

### Bounds

- `broadcaster_traffic`: two sessions are first and last viewer of a topic and
  give two overlapping streams, since the second restarts the topic while the
  first one's stream drains; two frames for order and two slots for a queue reach
  both branches of every select. `broadcaster_live` has one session without
  symmetry (symmetry is unsound for liveness) and four frames, enough to fill the
  stream's channel, the session's and both hands. One camera suffices because
  topics share only the lock; the proofs have any number of both.
- `hub_traffic`: a remote client and the daemon's, buffers of two and five
  messages: both buffers can overflow and messages go on after an eviction.
- `encoder_session`: a buffer of two and four frames: full, drained and with a
  frame in the writer's hand. Every exit of ffmpeg: success, failure or killed,
  with or without a message on stderr.
- `daemon_sessions`: one session and two connections, so that the session may
  answer over its own, over a lost, or over the next connection. Sessions do not
  interact with each other in this module; the proofs have any number.
- `agent_lifecycle`: three signals against a channel of two; one stream and one
  session, since main looks at neither.
- `requests`: two requests, an HTTP request with a call or with another HTTP
  request (`Pairs`, in one order of each pair). Calls share nothing with each
  other; a context has at most two requests that matter, the late one and the
  one that has it now. Uploads of three messages: one published, one in the
  handler's hand and one that waits.
- `schema_flatten`: two prefixes that overlay a type, two packages with two
  names (so that a bare name can be resolved in the wrong package), every field
  form, texts that form cycles of one to four types.

### Fairness

Weak fairness is given to what a goroutine does by itself when it can: the Go
scheduler runs every runnable goroutine. Beyond that:

- `TopicBroadcaster`: strong fairness for `RemoveViewer`, since `sync.RWMutex`
  lets no new reader in while a writer waits. None for a session's receiver.
- `SignalingHub`: a read on a lost connection returns with an error, and a write
  returns within `writeWait`. Peers need never send or leave.
- `H264Encoder`: a kill is effective, and a write to a process that has ended fails
  or succeeds, but returns. ffmpeg need not read, write or exit.
- `ViewerSession`: ICE need not connect, the peer need not leave, `enc.Close()`
  need not return. Once ffmpeg has ended a `WriteFrame` returns, or it is jammed for
  ever: the two cases of `FeederEnds` in `H264Encoder`. Gathering need not finish:
  the wait for it looks at no context (`viewer.go:402`), so `PeerGoneEnds` and
  `ShutdownEnds` allow a session to stay there. The feeder's stop is strongly fair:
  its select sees a done context again and again between frames.
- `DaemonSignaling`: dials that are repeated for ever are not all refused. This
  concerns the agent's own HTTP server; without it no reconnection can be shown.
- `RequestHandlers`: a handler does its own steps. A topic need not have
  messages, a robot need not answer, a client need not send or read: those waits
  end only when the context of the call has ended, which `stream.Send`,
  `client.Send` and `ws.Run` look at.
- `AgentLifecycle`: gRPC's timer fires. Clients need not end their streams and
  the grace period need not expire.

## 4. Proofs

All theorems hold for every value of the constants under the `ASSUME`s of the
modules (capacities positive, bounds natural, sets otherwise arbitrary).

| Module | Theorems | Inductive invariant and why it is needed |
|---|---|---|
| `TopicBroadcasterProofs` | `TypeCorrect`, `RegistrySafe`, `NoOrphan`, `SendSafe`, `Implements`, `SilentTopicStaysSilent`, `AssumesSessionLife` | `SafetyInv` adds `LockedTargets`: the viewers that a fan-out holding RLock has still to serve are registered. Joining it with "no writer while `ReadLocked`" gives that none has closed its channel. `Implements` maps every step to one of `LossyFanOut` or to a stutter: what a session received, its channel and the frames on their way to it are the abstract state |
| `SignalingHubProofs` | `TypeCorrect`, `HubNeverPanics`, `NoDeadClients`, `HearsAll`, `Implements`, `HubSeesConnectionLife` | `HubInv` adds `NewIsFresh`: the buffer of a client about to be registered is empty and open, since eviction and removal reach registered clients only. `OrderInv`: a pump that still writes has in its buffer the messages that follow what its peer has heard, whether its client is still registered or was evicted, which gives `Implements`. `HubTyped`: messages handled and messages being forwarded together are bounded. `DaemonInv`: a client without a write pump is marked closed only when its connection is down |
| `H264EncoderProofs` | `TypeCorrect`, `InputSafe`, `CloseIsComplete`, `FailureReported`, `FramesOrdered`, `CloseHangsInTwoWays`, `HangIsForEver`, `AssumesEncoderUse` | `EncInv`: Close comes after the feeder (`CloseAfterFeeder`), what each goroutine has seen (`Progress`), a failure stays in `errCh` until Close takes it (`FailureKept`), counts instead of concatenation (`FramesKept`). `EncType` has the bounds of the channels. `CloseInv`: `closed` is closed exactly when the waiter is done, and a Close past its look at it has closed `inCh` unless it was |
| `ViewerSessionProofs` | `FeederBeforeClose`, `IceBeforeSamples`, `ReleasedAtEnd`, `EncoderClosedOnlyWhenOver`, `DeadStreamHoldsSession`, `SessionImplementsLife`, `SessionImplementsUse` | `SessionInv` ties the place of the pipeline to that of the handler (`PipeInv`, `PeerInv`) and the release of the ICE context to its causes (`IceInv`). `StopInv`: a feeder has stopped only in a session that is over |
| `DaemonSignalingProofs` | `TypeCorrect`, `DaemonRunsSessions`, `SessionsSafeInDaemon`, `OneConnectionAtATime`, `DeafOnlyForCause`, `SessionsComeFromOffers`, `DaemonImplementsConnectionLife` | every step of the composition is a step of `SessionSpec` or leaves the sessions alone, which carries the session theorems over; `ConnInv`: only the connection dialled last can be up, and none while the loop is about to dial. `RegisterInv`: the loop registers and reads only the connection it has just dialled. `SubscriptionInv`: Start runs on with a token that was granted or refused, or gave up; a granted one is held until a clean session is discarded. `SessionsComeFromOffers`: only an offer with a topic and an SDP starts a session, never the daemon's own answer, which the hub sends back |
| `AgentLifecycleProofs` | `TypeCorrect`, `NodeClosedUnderNobody`, `NoServiceStopsAlone`, `OnlyASignalEndsTheAgent`, `StoppedServerServesNone`, `AssumesCallLife` | `LifeInv`: a stopping service was told to (`StopsWhenTold`), a group that is done stays done, a graceful end is quiet. `SignalInv`: the daemon returns only after `parentCtx` is cancelled, and nothing but main cancels it (`DaemonHolds`); so the group is not done before a signal |
| `RequestHandlersProofs` | `TypeCorrect`, `UploadsAcknowledgedWhole`, `CallsCloseTheirEntities`, `RequestsAnsweredOnce`, `ImplementsCalls` | `RequestInv`: what is open by kind and place of the handler (`OpenInv`), the counters of an upload by its place in the loop (`CountInv`, `AckInv`). `AnswerInv`: a request has been answered exactly when its handler is past its answer (`ReplyInv`), a worker behind its request means that the timer ran out (`WorkerInv`), and no two requests in progress have one context (`UniqueCtx`). So a worker that reaches another request is late, and that request is excused; and of two goroutines that collide in a header map one is a worker whose timer ran out, or is the timer itself (`CrashStep`). `IdleClean`: no context ends before its call begins |
| `SchemaResolverProofs` | `TypeCorrect`, `PathOrderIrrelevant`, `EachTypeOnce`, `CyclesEnd`, `FailureHasCause`, `FlattenComplete` | `RegistryInv`: the map holds the last registered prefix and the registered ones precede the others. `SchemaInv`: every field of a visited type leads to a visited type or is still pending on the stack (`CoverInv`), and every visited type is reachable (`ReachInv`). With an empty stack nothing is pending, so the visited types are closed and hence all that the root reaches |

Each invariant is the conjunction of named parts, and each proof has one lemma
per actor with one step per action. The temporal step is PTL at the end. A
refinement has definitions that compute the abstract state, lemmas that say how
one point of it moves, one lemma per group of actions, and a theorem that joins
them with the invariant.

### The findings as theorems

A run shows one behaviour of a small instance. For each of the four findings a
theorem says why that behaviour is no accident of the instance:

- `broadcaster_served`: `SilentTopicStaysSilent`. A stream whose context is done
  or whose subscriber gave up is replaced only after the topic has lost its last
  session, whoever joins in between.
- `encoder_close_hangs`: `CloseHangsInTwoWays` gives the only two states in which
  a Close is held up once ffmpeg has ended, `LeftOpen` (ffmpeg had ended, for whatever cause, and the waiter had closed `closed`
  before Close looked at it, so Close skipped `close(inCh)` and the writer ranges over
  it for ever) and
  `ErrorsStuck` (`errCh` is full); `HangIsForEver` says that neither is ever left.
- `session_dead_stream`: `EncoderClosedOnlyWhenOver` and `DeadStreamHoldsSession`.
  The pipeline gets past `subG.Wait()`, and main past its select, for causes among
  which the end of the encoder or of the stream is not.
- `agent_failure`: `OnlyASignalEndsTheAgent`. As the daemon is given `parentCtx`,
  `g.Wait()` does not return before a signal, whatever fails; the branch of main
  for services that finished early is out of reach.

## 5. Only model-checked

Liveness (`SessionsFinish`, `StreamsDrain`, `ForwardReturns`, `LostIsRemoved`,
`EvictedLeaves`, `FeederEnds`, `CloseReturnsOnceInputClosed`, `SignalExits`,
`FailureStopsServers`, `PeerGoneEnds`, `ShutdownEnds`, `PipelineUnwinds`,
`Reconnects`, `OverCallEnds`): the prover does not reason about fairness and
ENABLED. Termination of a flattening likewise; `CyclesEnd` bounds its depth.
Every safety property that a run checks is proved, the refinements of
`LossyFanOut` and `OrderedBroadcast` included, and so are the eight refinements of
the interfaces. That a topic which is silent, or a Close that hangs, is reached at
all is what the runs that expect a violation show.

## 6. Assumptions about the outside

ROS delivers a subscription's messages in order and without repetition, and may
lose any; a wait set's `Run` and a service client's `Send` return when their
context is done. gRPC calls a handler once and sends what it returns; `Recv`
gives the messages in order and may prefer the end of the call to a message
that waits. gin pools its contexts and recovers a panic of a handler, but not
of a goroutine that a handler starts. paho reconnects by itself and the broker
keeps the subscriptions of a session unless it is clean. ffmpeg may do anything
with its streams, may exit at any time with any status, and is ended by a kill.
pion reports connection states at any time, in particular after `pc.Close()`. A
WebSocket may be lost at any time, a read on it then fails. The signals are
those that the operating system sends.

## 7. Not modelled

- The initialisation in `main.go` before the errgroup: sequential, ends the
  process at its first error.
- The options of the MQTT client and its first connection, which belongs to
  that initialisation.
- In the request handlers: the content of messages and answers; gzip, the
  request identifier, the access log and the hash header, which change no answer
  that a property tells apart. Two gRPC calls next to each other share nothing.
- In the hub: `Client.Send` and `Client.Close`, which nothing calls; the hub's
  context, which is never done.
- In the encoder: the options and the ffmpeg command line. In the session:
  `h264reader.NewReader`, which fails for a nil reader only.
- In the schema resolver: `GenerateAll` and its relatives, which write files and
  change no registry; `RegisterRos2StandardPaths`, which nothing calls.
- Pure and sequential code, which a table of examples shows better than a state
  space: pixel conversion (`utilities/image.go`), the checks of the encoder's
  options, retry, duration, string and network helpers; the holders of
  cache, S3, tracer and logger; configuration, errors and constants.
- Generated ROS and protobuf code, nine tenths of the repository's Go: it holds
  marshalling and no decision of the agent.

## 8. Plan

Done, in the order of importance: broadcaster and its abstraction, hub and its
abstraction, encoder, session, daemon in both modes, lifecycle, schema resolver,
request handlers; their proofs; the interfaces between them.

What would add most next:

1. Liveness across an interface: that a `WriteFrame` returns or is jammed is an
   assumption of the session's fairness; `FeederEnds` of the encoder shows it, but
   no formula ties the two.
2. The hub composed with the daemon's dispatch, so that the eviction of the
   daemon's client and the offers it misses are seen together.
3. Two sessions in a daemon run; the proofs have any number already.
4. `utilities/image.go` as operators against a reference definition for both
   byte orders, and the encoder's options at their boundaries.
