# A TLA+ model of dyun-gu

dyun-gu runs media and inference pipelines: a graph of elements, each with one or
more worker threads, joined by bounded pipes. This directory holds TLA+ modules
translated from its source, the TLC configurations that check them on small
instances, and TLAPS proofs of the most important results for every instance.
`PROJECT.json` maps each definition to the lines it models and lists runs,
findings, hazards and theorems.

## 1. The system and its parts

| part | code | state it keeps | operations |
|---|---|---|---|
| data pipe | `dg-graph/src/pipe.rs` | channel, depth counter | try_send, recv_timeout, try_recv, disconnect |
| element I/O | `dg-graph/src/element.rs` | per-node EOS state, packet_starts | recv, send, broadcast_eos |
| elements | `dg-graph/src/builtin.rs`, `dg-elements/src` | their loop, a tracker's tracks | validate, create, run |
| graph engine | `dg-graph/src/engine.rs` | workers, status, root cause, specification, routes | build, start, request_stop, shutdown, poll, hot update, finish, drop |
| file watcher | `dg-graph/src/engine.rs` | tracked files and their states | watch, stop |
| graph files | `dg-graph/src/spec.rs` | none | load with includes, normalise, validate, diff |
| thread pool | `dg-graph/src/pool.rs` | queues, count of pending jobs, shutdown flag | spawn, drop |
| scheduler, instance pool | `dg-scheduler/src/lib.rs` | load per core, two affinity tables, cursors | acquire, checkout, release, remove_affinity |
| runtime and backends | `dg-runtime`, `dg-openvino`, `dg-rknn`, `dg-sophon`, `dg-tensorrt` | vendor handles, requests, parked result, in-flight counter | init, reshape, run, submit, poll, cancel, drop |
| inference element | `dg-graph/src/inference.rs` | pending metadata | run, drop |
| stream hub | `dg-stream/src/hub.rs` | registry, cores, subscriber queues | publish, subscribe, push, recv, close, reap, keyframe requests |
| stream elements | `dg-stream/src/elements.rs`, `stream.rs`, `bridge.rs` | session, retry state, wait for a keyframe | pull, push, convert |
| media pump and element | `dg-media/src/async_core.rs`, `elements.rs` | pending input and value, codec session | submit, flush, poll, run |
| media planning and formats | `dg-media/src` | none | plan, choose a profile, map formats, normalise metadata |
| core data, memory pool, policies | `dg-core/src` | buffer cache, process limits | allocate, deallocate, copy, check |
| C API | `dg-capi/src/lib.rs` | engine behind a lock, queued inputs and outputs, handles | one function per call |
| command line | `dg-cli` | none | wrappers |

How they interact. The engine builds pipes and element I/O from the specification
and gives every element instance a thread. Threads share pipes, the EOS state of
their node, the graph's stop flag and the metrics, nothing else. The inference
element checks instances out of a pool, which leases cores from the scheduler.
Stream elements meet in the hub or talk to a media server. A media element drives a
codec session of an external SDK. The owner of a graph calls the engine from one
thread; behind the C API several threads share one engine under a lock they only try.

What is hard: threads that end in any order around an EOS; errors and panics in
the middle of a multi-step call; waits with deadlines; two locks taken one after
the other; completions out of order; counters shared by several writers; streams
that close while others open them; packets moved from pipe to pipe while both are
used; files written while they are read; vendor calls of which the third of five
fails. `PROJECT.json` lists these hazards line by line.

## 2. Modules

| module | models | correspondence |
|---|---|---|
| `DataPipe` | pipe.rs | `SendCount`/`SendPush`/`SendRefused`/`SendUndo` are the steps of try_send around the channel operation, `RecvPop`/`RecvCount` those of the receives (a receiver holds the node's lock throughout), `DropReceiver` the end of the last instance |
| `GraphDataflow` | element.rs, the loops of builtin.rs, parallel.rs, extras.rs, yolo.rs, run_element | one program counter per worker; `SendOne` is one successful try_send, `RecvData`/`RecvEos`/`RecvTimeout` the outcomes of recv, `BroadcastEos` the counted broadcast, `ConvergerRound` the converger's scan, `Exit` run_element. A packet is its source and number; payloads are left out except whether a frame is malformed. An output nobody connected has no port, and a send to it fails (`UnknownPort`) |
| `GraphLifecycle` | the control plane in engine.rs | the owner's call is a program counter `op` with the nodes it still has to visit; it interleaves with worker threads that return Ok, NotRunning, a frame error or a fatal error at any time. Hot updates are split into prepare, join, switch, spawn, drain and their failure paths, the injected faults after quiesce and after the switch included |
| `RouteSwitch` | the packets of one route under a hot update: the switch and drain_routes | the source, the old and the new worker of the node and the update take turns; a packet knows which pipe it was sent into |
| `GraphWatch` | watch() | parsing, remembering, looking and waiting are steps between which a writer changes, breaks or removes the root file and the file it may include |
| `MemoryPool` | the buffer cache of memory.rs | a row of buffers per key, the keys by age and two counters |
| `ThreadPool` | pool.rs | spawn and worker_loop split at every lock and atomic operation |
| `Scheduler` | dg-scheduler, acquire_inference_lease | a checkout is split where a lock is let go: `Lookup`, `AcquirePinned`/`AcquireBound`/`AcquireAny`, `Choose`, `Pin`, `Release`; a table is its values and a recency order |
| `InferRuntime`, `InferenceElement` | runtime.rs and the backends' contract; inference.rs | `Submit`, `PollReady`, `PollError`, `CancelAll` over a set of runtimes with one counter; the element's round polls, looks at EOS, stop and capacity, and only then receives |
| `Backends`, `OpenVino` | the backends of RKNN, Sophon and TensorRT; of OpenVINO | a call is a row of vendor calls, each of which may fail; every native object has an owner: a field, the call under way, or nobody. `room` is the size of the output memory, `infos` the shapes the backend remembers, `native` the shape the vendor's object has; the answer of a run records all three and whose submission it is |
| `StreamHub` | hub.rs | each critical section of the registry's or a core's lock is one action, so `GetOrCreate` and `Publish` are two; notify_all is part of the action that leaves the section |
| `StreamElements` | the pull and push elements of dg-stream | both go through one retry loop (open, pause, give up) over servers that may refuse or disconnect; frames are keyframes or deltas, and the conversion of one may fail |
| `MediaPump` | async_core.rs, MediaElement::run | `Pump...` actions are pump_step and after_submit, the rest the loop; the codec session is external (`Room`, `FlushRefused`, `SessionWorks`, `SessionEnded`) |
| `FrameLine` | what a media element promises its graph | an abstract specification: frames are taken, given in order, the input closes, the end is told once as many were given as taken, or the line breaks. `MediaPump` implements it through `Promise`, which shows what was received and emitted and hides pump, codec and pending values |
| `CApi` | the engine handle of dg-capi | a call is a step to enter (try the lock, or Busy) and one or more to finish, so that calls of other threads meet it half way; specification, graph, running graph, queued inputs, outputs and external memory are kept apart |
| `RuleValues`, `CoreRules`, `SpecRules`, `MediaRules`, `MediaOps`, `StreamRules`, `BackendRules`, `ElementRules` | the pure algorithms of dg-core, dg-graph/spec.rs, dg-media, dg-stream, dg-runtime with the backends, dg-elements | one operator per function, with its name; a refusal is the value `Err`, an absent value `None` |
| `Rules` | nothing of its own | evaluates one rule on one argument per behaviour; the properties compare the answers with definitions that do not follow the code |

The `MC...` modules choose instances. Each component is checked in one run over
several set-ups (graphs, uses, backends, settings), chosen in Init and never changed:
the variables `graph`, `poolOf`, `backend`, `use`, `setting` and `which`. A cfg gives
constants their values and replaces nothing else. Operators with a suffix
(`RouteIsOver_WhenEmpty`) are mutants: plausible bugs that the property named with
them in `PROJECT.json` must catch.

`GraphDataflow`, `RouteSwitch` and `StreamElements` take their pipes as atomic bounded
queues. The channel is one (std's mpsc); what `DataPipe` adds is the counter beside it,
which no element reads to decide anything.
`InferenceElement` leaves the choice of instance open. `Scheduler` is the module
about that choice. `GraphLifecycle` lets a worker return at any time and a drain end
or fail; `GraphDataflow` and `RouteSwitch` say when they do. `CApi` takes a running
graph as workers that produce and end.

## 3. Runs

A property that speaks of several things is a conjunction of named parts; the parts
are in parentheses.

| run | what it shows | set-ups and bounds |
|---|---|---|
| `dataflow` | `FlowIsSound` (`EosIsFinal`: no packet behind an EOS on an edge, whichever instance finishes last; `NothingRepeated`; `StopIsTheCause`: cancellation only when stopping, and a fatal end stops the graph). `DeliveryIsExact` (`DeliveredExactlyOnce`: all packets arrive, unless a converger drops them; `NoSpuriousFailure`: no failure out of nothing, but for sends to an output nobody connected). `Termination`, `StopEndsAllWorkers` | a replicated relay, a preprocess that meets a bad frame, a tee into a dropping filter, the same tee with more drops than packet_starts holds, a fan-out that may fail, a relay and a source that are connected to nothing, a diamond; 1 to 3 packets over pipes of 1 or 2, so that every pipe fills and every instance meets the EOS in every order |
| `primitives` | `DepthAccounted`; `CacheAccounted`; `RouteIsKept` (`MovedOnceInOrder`: an update moves each packet once and in order; `NotLost`: every packet is read or will be, but for the one in the replaced worker's hands and those lying behind an end of stream that overtook them; `FewAreOvertaken`: these are at most the capacity of a pipe and one; `EndComesLast`); `BackgroundWorkGetsDone` (`SpawnedJobsRun`; `WatchSettles`: once writing ends, the watcher has reported what the files say, but for two named ways of missing a write) | 2 senders, 2 receivers, capacity 2, 3 sends each; 4 buffers of 4 descriptors over 3 bytes, 3 entries, 2 per descriptor; 2 workers, 2 jobs, one panicking; 4 packets and an end over pipes of 2, source staying or replaced, node a sink or not; 2 files, 3 writes |
| `lifecycle` | `HandlesAreTrue` (`TypeOK`, `StoppedMeansJoined`, `NoDetachedWorker`), `HistoryIsKept` (`CauseIsStable`, `OneGeneration`); `NothingElseLost`: after an update that was given up, nodes it had joined are back and the others go on untouched, but for those a failed quiesce had told to stop and not reached; `CallsReturn`: a call returns whatever the workers do, or it is finish, or it waits without a deadline for a worker it has told to stop | 2 node names, all calls in all orders, each failure point of an update |
| `scheduler` | `LeasesAreExact` (`TypeOK`, `LoadIsLeases`, `LeaseMatchesInstance`), `StreamsStayPut` (`AffinityBounded`, `SameStreamSameCore`), `PanicsOnlyOnForeignCore` | 3 cores of 2 kinds, 3 pools (one with two instances on one core), 2 clients, 2 stream names of which one expires |
| `hub` | `RegistryIsExact` (`TypeOK` with the limits, `OpenPublisherAccepted`, `UnusedIsReaped`), `HolesEndInKeyframe`, `CleanEndIsComplete` (whenever EndOfStream is answered, to a handle whose entry is gone as well: frames are missing only in the two cases it names), `CountedKeepsEntry`, `CloseReachesSubscribers` | four uses: 5 frames over a queue of 2, with a filter; two publishers that reopen a URL; subscribers and clones that overflow; requests and handles let go unclosed |
| `inference` | `AccountsMatch` (`TypeOK`, `InFlightExact`, `PendingMatchesInFlight`, `CapacityIsReal`, `ExitReleases`), `EosAfterEveryResult`, `ElementEnds` | 2 runtimes, limit 2, 4 packets, 3 sequences each so that they run out; a queueing and a computing backend |
| `media` | `EveryFrameInOrder` (`OneOrderedPath`, `EosAfterEveryFrame`), `ImplementsFrameLine` (the element with pump and codec implements `FrameLine`), `PumpEnds` (`StreamEnds`, `StopEnds`, both but for a session that must be polled before it accepts again: the element waits for it without polling, and looks at the stop flag only when it receives) | 4 frames, sessions of depth 1 and 2, step budget 2 so that it is used up; with and without errors and stop |
| `streams` | `RelayIsClean` (`HeldBackUntilKeyframe`: what goes downstream of a later session begins with a marked keyframe, unless the first keyframe of that session did not convert; `OnlyFirstIsMarked`, `SessionsAreClean`, `RelayInOrder`), `RelayEnds` (`StopEnds`, `EosEndsRelay`) | a pull and a push element over a pipe of 1, one retry each, 3 frames, 3 faults, so that a session breaks before, at and after a keyframe |
| `capi` | `OneGraph` (`SpecsAgree`, `InputsMeetTheirGraph`), `EndMeansDrained` (end of stream is answered when everything was handed out or lost, and tensors are lost by a reload, by the end of a shutdown or destroy, or with the engine, and by nothing else), `EverythingGivenBack` | 2 threads, 4 calls, in three uses: one-shot runs of pushed inputs and external memory, streaming with reload, and the installation of a process policy |
| `backends` | `FailuresAreContained` (`BackendTypeOK`, `OnlyKnownLeaks`, `SoundRuns`: outputs, shape and memory of a run agree, but for Sophon's memory; `RunsAnswerTheirOwn`, but for OpenVINO; `PoolIsSound`), `ReleasedInOrder` | the four backends, 1 input, 2 outputs, 2 shapes, 4 calls, each vendor call failing once or more |
| `rules` | `MeaningIsKept`, `SizesStayInBounds`, `ValidSpecsAreSound`, `PlansAreHonest`, `OpenedIsUsable`, `ResultsAreRight`: the pure algorithms against reference definitions | about 640,000 states; per rule, arguments on both sides of every limit, with the limits and machine integers scaled down (`UMax` 100, so that sums and products overflow) |

One run shows a disagreement between the code and its own tests (`findings` quotes
both sides). `dataflow_diamond_loses_packets`: a converger takes a timeout on one port
for the EOS that another port has seen, and drops the packets still coming
(element.rs:231).

Fairness. A worker is an operating system thread that polls with 1 ms timeouts, so
each has weak fairness on its steps (`Run(w)`, `Round`, `worker_loop`, the watcher, the loops of pull and push); so has the owner inside a
call, a spawn that has begun, and a C call that has entered. In `GraphLifecycle` nothing
is assumed of the workers: a reader under steady traffic need not look at its stop flag
(element.rs:199-225, builtin.rs:276), and a hot update joins without a deadline, so
`CallsReturn` names that wait as its exception. In the hub a subscriber
keeps receiving and a publisher's close is carried through, and the timeout of
recv_timeout is not relied on: the wake-up alone must suffice. `MediaPump` adds that a
session finishes what it took and, in settings with `upstreamEnds`, strong fairness of
receiving the end of stream. `CApi` adds that workers asked to stop end, and strong
fairness of the owner that retries destroy: it is Busy whenever another call holds the
lock, and only retrying gets it through. No fairness is assumed of stop requests,
failures, writes to files or the owner's decision to call. Deadlock is checked in
`dataflow`, `lifecycle` and `scheduler`; elsewhere a finished element or a component
with nothing left to do may stop.

## 4. Proofs

Eight modules, each about one component or a few that belong together, for every value
of the constants under the components' named ASSUMEs. Each result rests on an inductive
invariant that holds initially, that every action keeps, and that implies the property;
TLC checks it too on the run's instance before it is proved.

* `DataflowProofs`: how packets travel, and the buffers they carry.
  * The pipe: types and `DepthAccounted`. The
    depth proof counts the senders inside try_send; `CountedStep` says how that number
    changes.
  * A route under a hot update: `RouteIsKept`. The places of a packet form one `Line`,
    and a step moves a packet along it, adds one or takes one off (`Inserted`).
    `RouteInv` adds `RouteStages`, what source, node and update can be doing together,
    and `LineBounds`: behind the new pipe there are only packets sent the old way.
    Without it a moved packet could meet a later one of the same way. Which packets an end of
    stream strands, and that a pipe and one are the most, follows from where it stands
    in the line.
  * A running graph of any nodes, instances and connections: `FlowIsSound`. `FlowInv`
    adds that instances counted at the EOS are over (`CountedAreOver`), that an EOS on an
    edge follows the count of all instances (`EosAfterCount`) and that one instance
    broadcasts it (`OneEnds`). For `NothingRepeated`, `Once` adds what an edge has carried
    up to now, what a worker still has to send where, and that both go on only
    with what came in (`PipeIsRest`, `CarriedOnce`, `SendingOnce`, `CollectedOnce`).
    The senders of a send() are a flattened sequence; what flattening yields is proved
    by looking at the shortest sequence of which it would be wrong.
  * The buffer cache: `CacheAccounted`. `PoolInv` says that the list of ages lists exactly
    what the cache holds (`CacheHolds`), within the limits (`Within`), and that none of it
    has a user. A row in the order of another is unique (`OrderedUnique`), so it is enough
    that forgetting a buffer (`ForgetHolds`), the eviction loop (`EvictedRest`) and keeping
    a new one (`RememberHolds`) keep the order. The filter, the sum and the loop are
    recursive functions: for each there is a function that satisfies its equation, and
    what it yields is proved at the least place where it would be wrong.
* `GraphLifecycleProofs`: `HandlesAreTrue` and `HistoryIsKept` with each of their parts,
  that a Failed graph has a cause, `NothingElseLost`. The
  invariant `IInv` adds `Progress`: while a shutdown runs, the handles left are among
  the nodes it has yet to visit; while workers are spawned, nodes still to spawn have
  no entry. Without it, Stopped could be reported with handles left. `CInv` adds, for
  `NothingElseLost`, what an update has joined and not yet given back, and which nodes it
  has told to stop: the history variable `left` keeps those a failed quiesce left behind.
* `SchedulerProofs`: `LeasesAreExact` with each of its parts, `PanicsOnlyOnForeignCore`,
  `StreamsStayPut`. `IInv` adds what each position in a checkout knows (the instance found
  in the table exists, the core leased belongs to the topology), that a pool's table holds
  only its instances, and that the scheduler's table holds cores. For the streams `SInv`
  adds that every lease of a stream that does not expire is `Remembered` in the table
  while there is room for all: only an eviction could separate two leases of one stream,
  and a table that has room evicts nothing (`InsertEvictsNothing`).
* `StreamHubProofs`: `RegistryIsExact`, `CountedKeepsEntry`, `HolesEndInKeyframe` and
  `CleanEndIsComplete`. `IInv` adds what a handle knows between two critical sections
  (`HandlesOK`: the core it found exists, its id was handed out), that a core is registered
  once and its handles know for which URL (`RegistryOK`), and that a registered core has a
  handle that will look at it again or a keyframe request (`Kept`); without the last, an
  entry could outlive all handles. For the
  holes, `SoundStream` says of the queue of each subscriber that a withheld frame either
  lies before a keyframe or the subscriber still drops; `CompleteOK` says that what a
  subscriber took, what its queue holds and what was pushed for it are the same until it
  overflows; of an entry that is gone the history variable `gone` says who removed it.
* `InferenceProofs`: `AccountsMatch` and `EosAfterEveryResult`. `RuntimeInv` ties the
  shared counter to the cardinality of what is out over all runtimes, sequence number by
  sequence number (`FateOK`); `ElementInv` ties the table of pending submissions to it, and
  `PacketsOK` says where each packet is: sent, pending, or in the element's hands.
  The second part is about the backends: `FailuresAreContained`, and `ReleasedInOrder` as
  an action property. `BackInv` says that each native object is in the row of exactly one
  owner, once (`OwnersOK`), which objects the rows hold at which place of which call
  (`RowsOK`), that what waits for its release is needed by nothing that stays, and lies in
  an order in which what comes later does not need what goes before (`DyingOK`), and who is without an
  owner (`OrphansOK`). `RknnOK` and `PoolOK` say when RKNN's memory and counts, and
  OpenVINO's requests, have the shape of the model; only a reshape that failed half way
  (`broken`) may leave them behind. `RoomOK` says which size the output memory has at which
  place of a call, `AskedOK` which submission a request in flight belongs to.
* `MediaPumpProofs`: `EveryFrameInOrder`, and the refinement of `FrameLine`
  (`RefinesFrameLine`): receiving is Take or Close, sending a packet is Give, the exits are
  End or Break, and what pump and codec do in between is a stutter. `PumpStages` says which places along the path are
  empty in which state of the pump; the lemmas move one frame along a concatenation.
* `CApiProofs`: `OneGraph`, and `EndMeansDrained` as an action property. What `OneGraph`
  says of an engine nobody writes holds within calls as well (`Together`: every call
  changes specification, graph and run in one action), together with: a graph that runs
  has no inputs queued. `Counted` says that what a live stream made and nobody read is in
  the sinks, in the outputs or counted as `lost`, so an empty drain leaves nothing else unread.
* `StreamElementsProofs`: `RelayIsClean`. `SessionOK`: an element that waits for a
  connection has closed all it opened. `KeyOK`: whenever the pull element does not wait
  for a random access point, its session has sent a marked one, has lost its first to the
  conversion, or it is the first. `AlongOK`: the
  numbers grow from what was accepted over the packet in hand to the end of the pipe.

The assumptions on constants are finiteness of what is counted (clients, keys, cores,
runtimes, publishers), positive limits, and that `None` is none of the values it stands
beside; in the hub, that publishers, subscribers and requesters are different handles; in
the C API, that what is loaded are specifications over the node names; of the backends, that
shapes are positive numbers and the kinds are the four there are; of the buffer cache, that
buffers are numbered and there is a descriptor; of graphs, what the builder guarantees: finitely many nodes, sources and sinks with one instance, a connection that leaves
one port of one node, and inputs wherever an element reads. `RemoveNode` of
`CApi` intersects with `Specs`, which takes nothing away: the type of SelectSeq's result
would need an induction over the sequence.

Only model-checked, and why:

* every liveness property: reasoning under fairness is outside the prover's reach;
* the `rules`: they compute by recursive operators and folds, and facts about those need
  induction over data;
* `DeliveryIsExact`: that nothing is repeated is proved (`NothingRepeated`), that
  everything arrives is not. It depends on the shape of the graph (it is false of the
  diamond), and the limit of packet_starts on how many packets an element swallows.

## 5. Other disagreements met while modelling

The models contain these behaviours; no run is kept for them. Where a property would be
false because of one, the property names it as its exception and says it is the only one.

Graph, scheduler, inference, media pump.

* A malformed frame ends a preprocess worker with a frame-local error, without EOS and
  without stop; the rest of the graph waits for a stop (extras.rs:276, against error.rs:55
  "drop the frame and continue the stream").
* A shutdown that times out forgets the error of a worker it has joined; the retry
  reports Stopped (engine.rs:654).
* The end of stream of a source that stays may go straight into the new pipe of a hot
  update and overtake the packets drain_routes has yet to move: the new worker ends, the
  update succeeds and those packets are never processed (engine.rs:980 before :1013,
  against dev-docs/006_core_modules_product_ready_plan/05_graph_execution_lifecycle_and_reload.md:52,
  "packet 不重复、不丢失"). Packets of the two pipes may also change places. When the source is replaced as
  well, its old end of stream is moved along and may end the new worker early. `RouteIsKept` says
  which packets are overtaken and how many at most.
* An output that nobody connected passes validation, which requires inputs only; the first packet
  sent to it ends the worker with UnknownPort and stops the graph (element.rs:258; spec.rs:966).
* When quiescing fails, the nodes joined so far are restored, while those that were told to stop and not
  reached end and are not started again (engine.rs:877-896, against :48 of the same document).
  `NothingElseLost` names them.
* A worker that has received a packet when a hot update stops it drops the packet
  (element.rs:270); a sink is not stopped as long as packets keep coming (builtin.rs:276),
  so that the update waits for a pause of its source. A node whose old worker had read the
  end of stream already is restarted and waits for ever.
* The watcher remembers the state of a file after it has parsed it, so a write in
  between is never reported (engine.rs:1646). A reload that fails because an included file is missing
  does not track that file, so that creating it is not noticed (engine.rs:1650). A first
  load that fails ends the watcher while its handle looks alive (engine.rs:1620).
* Packets a filter drops and frames a preprocess absorbs are never taken off
  packet_starts (parallel.rs:264, element.rs:179); after queue_capacity of them recv
  fails with a resource limit. dev-docs/006/05:21 asks that every path complete the packet.
* The depth of a pipe whose receiver is gone stays at what was queued (pipe.rs:119;
  dev-docs/006/05:9 asks for an exact depth).
* A hot update of a Failed graph, or after request_stop, sets Running again when it
  succeeds (engine.rs:758; dev-docs/006/05:48 and :50).
* A restore that fails leaves the nodes it had already respawned running (engine.rs:888).
* Drop of a Failed graph leaves running workers without a stop request (engine.rs:1348;
  dev-docs/006/05:59).
* The scheduler's affinity may lead a pool to a core without an instance of its own, and the
  checkout panics with the cursor's lock held (dg-scheduler lib.rs:649). `PanicsOnlyOnForeignCore`
  says exactly when.
* remove_affinity leaves the scheduler's own table alone (lib.rs:609; dev-docs/006/04:53).
* A subscriber handle dropped without close() keeps its stream registered (hub.rs:428, against
  hub.rs:149); `UnusedIsReaped` is about the other uses.
* A keyframe request for a late publisher goes away with the stream when a subscriber
  leaves first (hub.rs:118, against hub.rs:292).
* Clones share one entry. When one of them is told of an overflow or closes, the others are answered
  a clean EndOfStream with frames missing (hub.rs:459-463). `CleanEndIsComplete` names both cases.
* submit of a synchronous runtime overwrites a parked result (runtime.rs:338). The element
  never does this, because it polls first: `PendingMatchesInFlight`.
* run() of an asynchronous runtime may return an earlier submission's outputs
  (runtime.rs:272, against :313).
* A pool admits only one runtime's limit of submissions in all, because has_capacity reads
  the shared counter (inference.rs:148, against :274). `CapacityIsReal` is the safe side of it.
* With a value pending, a media element looks at neither the stop flag nor the drain
  deadline (elements.rs:649; dev-docs/001/08:50).
* flush is called again after Again (async_core.rs:218; dev-docs/001/08:37), and a stream without frames
  ends the element with an error (async_core.rs:228; dev-docs/001/08:40).

Thread pool and memory.

* worker_loop loads the count twice; a worker that missed the shutdown in between sleeps,
  and drop waits for it for ever (pool.rs:141-168, against :75 "stopped and joined so they are
  not left detached"). The engine does not use the pool, although docs/user-guide.md:126 says task
  mode submits to it.
* The callback of an external buffer runs with its mutex held (memory.rs:53-56 says "outside it").

Streams.

* publish finds a core and counts itself under two locks: a stream reaped in between leaves
  the publisher on a core nobody finds (hub.rs:205, against the comment at :118).
* needs_keyframe is cleared before the conversion of the keyframe (elements.rs:323): when that
  fails, delta frames go out first and unmarked (against docs/user-guide.md:281 and dev-docs/006/06:63).
  `HeldBackUntilKeyframe` names the case.
* A stop during a reconnect or a backoff becomes Error::Closed, and the graph Failed
  (elements.rs:206, :607, :617).
* Jitter may exceed retry_max_backoff_ms; a push element accepts more tracks than a pull
  element takes (elements.rs:239); Opus, G711, MP2, MP3 and ADPCM tracks are accepted and their
  frames refused; frames whose timebase is not one tick of their clock rate are dropped; the legacy
  path maps canonical H265 to H264; an audio-only stream waits for a keyframe after a reconnect.
* redact_url keeps the query of an address without a path (error.rs:118).

Media.

* A session that must be polled before it takes more input is never polled after its
  submit answered Again (async_core.rs:169, against dev-docs/001/08:5 and :89).
* The transcode parser reads four fields its descriptor does not announce;
  validation of a resize checks neither profile nor drain timeout, and validation of an
  encoder ignores missing parameters, so that creation may fail after it.

C API.

* EndOfStream may be answered with outputs unread when no graph runs live, and a Failed graph
  answers its error before queued outputs (against lib.rs:2812); tensors drained and not polled are
  dropped by a reload, and so are those in a sink that it removes or replaces (engine.rs:899-902,
  1121-1126, lib.rs:807), after which EndOfStream is answered although lib.rs:2813 says it means that all
  of them have been consumed. `EndMeansDrained` lists these losses; after a
  shutdown that keeps failing poll answers Again for ever; a failed reload clears stream_ended.
* dg_runtime_init with another policy answers InvalidArgument (lib.rs:1674 says InvalidState), and one
  that races another may answer Ok for a policy that is not installed.
* dg_backend_create takes model bytes and passes none on: only the mock can be created from bytes.
* A release callback runs under the engine's write lock.

Specification.

* NodeTemplate.template and DeviceDefault::Detailed have no effect; a root that tightens limits cannot
  include a file with default ones; allow_cycles of any include allows cycles everywhere.

Backends.

* RKNN: the context is leaked when setting the core mask fails after rknn_init (backend.rs:230, against
  docs/design.md:107), outputs are not released when copying them fails (:525-537), and
  after a reshape that fails half way runs go on with fewer outputs or old memory. `OnlyKnownLeaks` and
  `SoundRuns` say that there is nothing else of the kind. Zero copy with padded rows never succeeds.
* Sophon: a reshape changes the input descriptions only; output memory is sized by the
  model's own shape (backend.rs:418-424) while the host buffer follows the launch (:463-472), against the
  SAFETY comment at :101-104. `SoundRuns` says the memory has that size and no other.
* TensorRT: a failing init or reshape may leave input descriptions ahead of output
  descriptions; the capability table accepts U32, which no TensorRT type stands for.
* OpenVINO: run() while submissions are in flight may return another's outputs (backend.rs:863-882): an earlier submission's, while its own stays in
  flight (`RunsAnswerTheirOwn`);
  a reshape that fails while requests are made leaves requests of the new shape beside the old
  model (:769).
* The mock's static table accepts what its probe does not report.

## 6. Not modelled

The avcodec SDK, the vendor libraries and their generated bindings, the external media
server and the parsers of JSON, YAML and TOML: the models take any answer they may give.
Floating point: the rules compute with integers and ratios. The command line, logging,
the text of metrics and reports, HTTP and file transfers of the tool elements, and the
accessors of the C API, which keep no state of their own.

## 7. Plan

Done: pipe, dataflow, lifecycle, hot updates of routes, file watcher, memory and thread pool,
scheduler, runtime, inference, backends, hub, stream elements, media pump, C API, and the pure rules of
all crates.

Next:

1. Proofs: that all packets arrive in graphs without a converger, from what each edge has
   carried when its EOS is read; the refinements of item 2.
2. An abstract relay (frames in order, with marked gaps) that `StreamElements` implements, and an
   abstract engine that `CApi` implements.
3. The elements of dg-elements in `GraphDataflow` one by one, batching included, and
   direct backends behind the C API.
