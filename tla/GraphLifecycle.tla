--------------------------- MODULE GraphLifecycle ---------------------------
(***************************************************************************)
(* The control plane of a running graph: RunningGraph and its owner, who   *)
(* calls request_stop, shutdown, poll, apply_hot_update, finish and drop   *)
(* while one worker thread per node runs, fails or winds down by itself.   *)
(*                                                                         *)
(* The owner holds the handle exclusively, so its calls do not overlap;    *)
(* what interleaves is the workers with the steps of a call.  A call is    *)
(* split where it waits for, looks at or starts a worker.                  *)
(*                                                                         *)
(* The data plane is abstract here: a live worker may at any time return   *)
(* Ok (end of stream), a frame-local error that escaped its element, or a  *)
(* fatal error or panic; when it is asked to stop it may return NotRunning.*)
(* Nodes are numbered in the order of their names, the order in which      *)
(* RunningGraph.workers is iterated.                                       *)
(***************************************************************************)
EXTENDS Naturals, FiniteSets

CONSTANTS
    N,              \* node names in use over the life of the graph
    CanBadFrame,    \* TRUE: a frame-local error may escape an element
    CanSpawnFail,   \* TRUE: creating an element or a thread may fail
    CanUpdate       \* TRUE: the owner applies hot updates

ASSUME LifecycleAssumption ==
    /\ N \in Nat
    /\ {CanBadFrame, CanSpawnFail, CanUpdate} \subseteq BOOLEAN

Nodes == 1..N

VARIABLES
    alive,          \* nodes whose worker thread is running
    outcome,        \* what the last worker of a node returned, "none" before
    handle,         \* nodes whose JoinHandle the graph still holds
    entry,          \* nodes present in RunningGraph.workers
    ctl,            \* nodes whose NodeControl.stop is set
    stop,           \* the graph-wide stop flag
    status,         \* GraphStatus
    cause,          \* scope of the stored root cause, "none" if unset
    spec,           \* nodes of RunningGraph.spec
    torn,           \* the routes no longer belong to spec
    op,             \* the call the owner is in and how far it is
    todo,           \* nodes the call still has to visit
    cand,           \* nodes of the candidate specification of an update
    affected,       \* nodes the update replaces, adds or removes
    joined,         \* affected nodes joined so far
    err,            \* first_error of the call
    left            \* history: nodes an update told to stop, failed and did not join

worker == <<alive, outcome, left>>
graph == <<handle, entry, ctl, stop, status, cause, spec, torn>>
update == <<cand, affected, joined>>
call == <<op, todo, err, update>>
vars == <<worker, graph, call>>

\* The graph is built and start() is about to spawn the workers.
Init ==
    /\ alive = {} /\ outcome = [n \in Nodes |-> "none"] /\ left = {}
    /\ handle = {} /\ entry = {} /\ ctl = {}
    /\ stop = FALSE /\ status = "Starting" /\ cause = "none"
    /\ spec \in SUBSET Nodes \ {{}} /\ torn = FALSE
    /\ op = "start" /\ todo = spec /\ err = "none"
    /\ cand = {} /\ affected = {} /\ joined = {}

-----------------------------------------------------------------------------
(* Workers: run_element *)

Return(n, r) ==
    /\ n \in alive
    /\ alive' = alive \ {n}
    /\ outcome' = [outcome EXCEPT ![n] = r]
    /\ UNCHANGED <<left, handle, entry, ctl, status, cause, spec, torn, call>>

EndOfStream(n) == Return(n, "ok") /\ UNCHANGED stop

ToldToStop(n) == stop \/ n \in ctl

Cancelled(n) == ToldToStop(n) /\ Return(n, "cancelled") /\ UNCHANGED stop

BadFrame(n) == CanBadFrame /\ Return(n, "frame") /\ UNCHANGED stop

\* A fatal error or a panic asks every other worker to stop.
Fatal(n) == Return(n, "fatal") /\ stop' = TRUE

-----------------------------------------------------------------------------
(* Joining: errors of joined workers *)

\* Cancellations are no errors; of two errors the wider scope wins.
SelectError(e, r) ==
    CASE r = "fatal" -> "fatal"
      [] r = "frame" /\ e = "none" -> "frame"
      [] OTHER -> e

\* set_root_cause keeps the first cause.
RootCause(e) == IF cause = "none" THEN e ELSE cause

Finished_Always(n) == TRUE
Finished(n) == n \notin alive

\* The next node in the order of the names.
NextUp(n) == n \in todo /\ \A m \in todo : n <= m

Idle ==
    /\ op' = "idle" /\ todo' = {} /\ err' = "none"
    /\ cand' = {} /\ affected' = {} /\ joined' = {}

Fail(e) == status' = "Failed" /\ cause' = RootCause(e)

\* A loop over the remaining handles takes the next one.
JoinNext(n) ==
    /\ NextUp(n)
    /\ todo' = todo \ {n}
    /\ handle' = handle \ {n}
    /\ UNCHANGED <<worker, entry, ctl, stop, status, cause, spec, torn, op, update>>

-----------------------------------------------------------------------------
(* Spawning: start, spawn_hot_update_workers, respawn_nodes_from_spec *)

Spawning == {"start", "spawn", "respawn"}

\* A fresh worker, control block and EOS state for a node; start and update go
\* through the nodes as the specification lists them, a restore by name.
SpawnNode(n) ==
    /\ op \in Spawning /\ n \in todo
    /\ op = "respawn" => NextUp(n)
    /\ todo' = todo \ {n}
    /\ alive' = alive \union {n}
    /\ outcome' = [outcome EXCEPT ![n] = "none"]
    /\ handle' = handle \union {n}
    /\ entry' = entry \union {n}
    /\ ctl' = ctl \ {n} /\ left' = left \ {n}
    /\ UNCHANGED <<stop, status, cause, spec, torn, op, err, update>>

\* A thread cannot be created: abort_spawns stops the graph and waits for every
\* worker that was started.
AbortSpawns ==
    /\ CanSpawnFail /\ op \in Spawning /\ todo # {}
    /\ stop' = TRUE
    /\ ctl' = ctl \union entry
    /\ op' = IF op = "start" THEN "unstart" ELSE "abort"
    /\ todo' = handle
    /\ torn' = (torn \/ op = "spawn")
    /\ UNCHANGED <<worker, handle, entry, status, cause, spec, err, update>>

AbortJoin(n) ==
    /\ op \in {"abort", "unstart"} /\ Finished(n)
    /\ JoinNext(n)
    /\ UNCHANGED err

\* start returns an error and no graph; an update leaves a Failed graph.
AbortEnd ==
    /\ op \in {"abort", "unstart"} /\ todo = {}
    /\ \/ op = "unstart" /\ op' = "closed" /\ UNCHANGED <<status, cause, todo, err, update>>
       \/ op = "abort" /\ Fail("fatal") /\ Idle
    /\ UNCHANGED <<worker, handle, entry, ctl, stop, spec, torn>>

StartEnd ==
    /\ op = "start" /\ todo = {}
    /\ status' = "Running"
    /\ Idle
    /\ UNCHANGED <<worker, handle, entry, ctl, stop, cause, spec, torn>>

-----------------------------------------------------------------------------
(* request_stop, shutdown *)

AskStop ==
    /\ status' = IF status \in {"Starting", "Running", "Reloading"} THEN "Draining" ELSE status
    /\ stop' = TRUE
    /\ ctl' = ctl \union entry
    /\ UNCHANGED <<worker, handle, entry, cause, spec, torn>>

RequestStop == op = "idle" /\ AskStop /\ UNCHANGED call

Shutdown ==
    /\ op = "idle"
    /\ AskStop
    /\ op' = "shutdown" /\ todo' = handle
    /\ UNCHANGED <<err, update>>

ShutdownJoin(n) ==
    /\ op = "shutdown" /\ Finished(n)
    /\ JoinNext(n)
    /\ err' = SelectError(err, outcome[n])

ShutdownTimeout_Detaches ==
    /\ op = "shutdown"
    /\ \E n \in alive : NextUp(n) /\ handle' = handle \ {n}
    /\ Idle
    /\ UNCHANGED <<worker, entry, ctl, stop, status, cause, spec, torn>>

\* The deadline passes before the next worker ends: its handle goes back, the
\* errors collected so far go with the call.
ShutdownTimeout ==
    /\ op = "shutdown" /\ \E n \in alive : NextUp(n)
    /\ Idle
    /\ UNCHANGED <<worker, graph>>

ShutdownEnd ==
    /\ op = "shutdown" /\ todo = {}
    /\ IF err = "none"
       THEN status' = "Stopped" /\ UNCHANGED cause
       ELSE Fail(err)
    /\ Idle
    /\ UNCHANGED <<worker, handle, entry, ctl, stop, spec, torn>>

-----------------------------------------------------------------------------
(* poll *)

\* A Failed graph answers with its root cause at once.
Poll ==
    /\ op = "idle" /\ status # "Failed"
    /\ op' = "poll" /\ todo' = handle
    /\ UNCHANGED <<worker, graph, err, update>>

\* Looks at one worker: joins it if it has finished, keeps it otherwise.
PollVisit(n) ==
    /\ op = "poll"
    /\ \/ Finished(n) /\ JoinNext(n) /\ err' = SelectError(err, outcome[n])
       \/ /\ ~Finished(n) /\ NextUp(n)
          /\ todo' = todo \ {n}
          /\ UNCHANGED <<worker, graph, op, err, update>>

PollEnd ==
    /\ op = "poll" /\ todo = {}
    /\ \/ err # "none" /\ Fail(err)
       \/ err = "none" /\ handle = {} /\ status' = "Stopped" /\ UNCHANGED cause
       \/ err = "none" /\ handle # {} /\ UNCHANGED <<status, cause>>
    /\ Idle
    /\ UNCHANGED <<worker, handle, entry, ctl, stop, spec, torn>>

-----------------------------------------------------------------------------
(* apply_hot_update, apply_hot_update_spec *)

\* The status goes to Reloading whatever it was.  The update affects the nodes
\* it adds and removes and any others whose node or connections it changes.
HotUpdate ==
    /\ op = "idle" /\ CanUpdate
    /\ status' = "Reloading"
    /\ \E c \in SUBSET Nodes \ {{}}, a \in SUBSET Nodes \ {{}} :
        /\ (spec \ c) \union (c \ spec) \subseteq a
        /\ a \subseteq spec \union c
        /\ cand' = c /\ affected' = a
    /\ op' = "prepare"
    /\ UNCHANGED <<worker, handle, entry, ctl, stop, cause, spec, torn, todo, joined, err>>

\* The caller gets an error and the graph counts as Running again.
UpdateFailed ==
    /\ status' = "Running"
    /\ Idle
    /\ UNCHANGED <<worker, handle, entry, ctl, stop, cause, spec, torn>>

\* Validating the candidate or preparing a replacement fails.
HotReject_Quiesced == op = "join" /\ UpdateFailed
HotReject == op = "prepare" /\ UpdateFailed

HotQuiesce_Forgets ==
    /\ op = "prepare"
    /\ op' = "join" /\ todo' = affected \intersect entry
    /\ UNCHANGED <<worker, graph, update, err>>

HotQuiesce ==
    /\ op = "prepare"
    /\ ctl' = ctl \union (affected \intersect entry)
    /\ op' = "join" /\ todo' = affected \intersect entry
    /\ UNCHANGED <<worker, handle, entry, stop, status, cause, spec, torn, update, err>>

JoinFailed(n) == n \in handle /\ outcome[n] \in {"frame", "fatal"}

Restorable_None == {}
Restorable == joined \intersect spec

\* join_workers blocks until the worker has ended and drops its entry.  After an
\* error the nodes joined before are started again from the old specification;
\* those behind it have been told to stop and are left to end by themselves.
HotJoin(n) ==
    /\ op = "join" /\ NextUp(n) /\ Finished(n)
    /\ entry' = entry \ {n}
    /\ handle' = handle \ {n}
    /\ \/ ~JoinFailed(n) /\ todo' = todo \ {n} /\ joined' = joined \union {n} /\ UNCHANGED <<op, left>>
       \/ /\ JoinFailed(n) /\ op' = "respawn" /\ todo' = Restorable /\ UNCHANGED joined
          /\ left' = left \union (todo \ {n})
    /\ UNCHANGED <<alive, outcome, ctl, stop, status, cause, spec, torn, cand, affected, err>>

HotRestored == op = "respawn" /\ todo = {} /\ UpdateFailed

\* An element cannot be created again: what was restored so far keeps running.
RestoreFailed ==
    /\ CanSpawnFail /\ op = "respawn" /\ todo # {}
    /\ Fail("fatal")
    /\ Idle
    /\ UNCHANGED <<worker, handle, entry, ctl, stop, spec, torn>>

\* Everything affected is joined: switch the routes, then start replacements.
HotSwitch ==
    /\ op = "join" /\ todo = {}
    /\ op' = "spawn" /\ todo' = affected \intersect cand
    /\ UNCHANGED <<worker, graph, err, update>>

\* The fault points before and after the switch (armed by tests): before it the
\* joined nodes are started again, after it the graph is given up.
HotFaultQuiesced ==
    /\ op = "join" /\ todo = {}
    /\ op' = "respawn" /\ todo' = Restorable
    /\ UNCHANGED <<worker, graph, err, update>>

HotFaultSwitched ==
    /\ op = "join" /\ todo = {}
    /\ Fail("fatal")
    /\ torn' = TRUE
    /\ Idle
    /\ UNCHANGED <<worker, handle, entry, ctl, stop, spec>>

\* A route to a node the update leaves alone is missing, because an earlier
\* update failed after its switch: the caller gets the error half way.
HotMissingRoute == op = "join" /\ todo = {} /\ torn /\ UpdateFailed

\* The packets of the old routes have been moved over (an update without such
\* routes never looks at the stop flag).
HotDrained ==
    /\ op = "spawn" /\ todo = {}
    /\ status' = "Running"
    /\ spec' = cand /\ torn' = FALSE
    /\ Idle
    /\ UNCHANGED <<worker, handle, entry, ctl, stop, cause>>

\* The drain deadline passes or the stop flag is seen.
HotDrainFailed ==
    /\ op = "spawn" /\ todo = {}
    /\ Fail("fatal")
    /\ torn' = TRUE
    /\ Idle
    /\ UNCHANGED <<worker, handle, entry, ctl, stop, spec>>

-----------------------------------------------------------------------------
(* finish, drop *)

\* finish takes the workers out of the graph and joins them without a deadline;
\* the drop that follows finds none and only raises the flag.
Finish ==
    /\ op = "idle"
    /\ op' = "finish" /\ todo' = handle /\ entry' = {}
    /\ UNCHANGED <<worker, handle, ctl, stop, status, cause, spec, torn, err, update>>

FinishJoin(n) == op = "finish" /\ Finished(n) /\ JoinNext(n) /\ UNCHANGED err

DropSkips == status \in {"Stopped", "Failed"}

FinishEnd ==
    /\ op = "finish" /\ todo = {}
    /\ op' = "closed"
    /\ stop' = (stop \/ ~DropSkips)
    /\ UNCHANGED <<worker, handle, entry, ctl, status, cause, spec, torn, todo, err, update>>

\* Drop of the handle: nothing at all for a Stopped or Failed graph, otherwise
\* stop everything and wait for the workers.
Drop ==
    /\ op = "idle"
    /\ \/ /\ DropSkips
          /\ op' = "closed" /\ handle' = {}
          /\ UNCHANGED <<stop, ctl, todo>>
       \/ /\ ~DropSkips
          /\ op' = "drop" /\ todo' = handle
          /\ stop' = TRUE /\ ctl' = ctl \union entry
          /\ UNCHANGED handle
    /\ UNCHANGED <<worker, entry, status, cause, spec, torn, err, update>>

\* A worker is joined, or left behind when the five seconds are over.
DropVisit(n) == op = "drop" /\ JoinNext(n) /\ UNCHANGED err

DropEnd ==
    /\ op = "drop" /\ todo = {}
    /\ op' = "closed"
    /\ UNCHANGED <<worker, graph, todo, err, update>>

Closed == op = "closed" /\ alive = {} /\ UNCHANGED vars

-----------------------------------------------------------------------------

WorkerStep(n) == EndOfStream(n) \/ Cancelled(n) \/ BadFrame(n) \/ Fatal(n)

\* A step of the call the owner is in.
OwnerVisit(n) ==
    \/ SpawnNode(n) \/ AbortJoin(n) \/ ShutdownJoin(n) \/ PollVisit(n)
    \/ HotJoin(n) \/ FinishJoin(n) \/ DropVisit(n)

OwnerStep ==
    \/ \E n \in Nodes : OwnerVisit(n)
    \/ AbortSpawns \/ AbortEnd \/ StartEnd
    \/ ShutdownTimeout \/ ShutdownEnd \/ PollEnd
    \/ HotReject \/ HotQuiesce \/ HotRestored \/ RestoreFailed
    \/ HotSwitch \/ HotFaultQuiesced \/ HotFaultSwitched \/ HotMissingRoute \/ HotDrained \/ HotDrainFailed
    \/ FinishEnd \/ DropEnd

OwnerCall == RequestStop \/ Shutdown \/ Poll \/ HotUpdate \/ Finish \/ Drop

Next == (\E n \in Nodes : WorkerStep(n)) \/ OwnerStep \/ OwnerCall \/ Closed

Spec == Init /\ [][Next]_vars

\* A call that can go on goes on. Nothing is assumed of the workers: a reader
\* under steady traffic need not look at its stop flag (element.rs:199-225).
Fairness == WF_vars(OwnerStep)

FairSpec == Spec /\ Fairness

-----------------------------------------------------------------------------
(* Properties *)

\* Types of the worker set, the supervisor's status and the operation under way.
TypeOK ==
    /\ alive \subseteq Nodes
    /\ outcome \in [Nodes -> {"none", "ok", "cancelled", "frame", "fatal"}]
    /\ left \subseteq Nodes
    /\ handle \subseteq Nodes /\ entry \subseteq Nodes /\ ctl \subseteq Nodes
    /\ stop \in BOOLEAN
    /\ status \in {"Starting", "Running", "Draining", "Stopped", "Failed", "Reloading"}
    /\ cause \in {"none", "frame", "fatal"}
    /\ spec \subseteq Nodes /\ torn \in BOOLEAN
    /\ op \in {"start", "spawn", "respawn", "unstart", "abort", "idle", "shutdown", "poll",
               "prepare", "join", "finish", "drop", "closed"}
    /\ todo \subseteq Nodes
    /\ cand \subseteq Nodes /\ affected \subseteq Nodes /\ joined \subseteq Nodes
    /\ err \in {"none", "frame", "fatal"}

\* Stopped is reported only when every worker thread has ended and was joined,
\* whichever sequence of polls, timed out shutdowns and updates led there.
StoppedMeansJoined == status = "Stopped" => alive = {} /\ handle = {}

\* As long as the owner has the graph, every running thread has a handle in an
\* entry of the workers map: no error path of a call detaches a worker, and a
\* stop request reaches them all.
NoDetachedWorker ==
    op \notin {"finish", "drop", "closed"} => alive \subseteq handle /\ handle \subseteq entry

\* What status and handles say of the threads is true, on every error path of
\* every call: types, Stopped, reachable workers.
HandlesAreTrue == TypeOK /\ StoppedMeansJoined /\ NoDetachedWorker

\* A Failed graph has a root cause to report.
FailedHasCause == status = "Failed" => cause # "none"

\* The node goes on as if no update had been tried: its worker runs and nobody
\* has told it to stop, or it ended of itself.
Untouched(n) == n \notin ctl /\ (n \in alive \/ outcome[n] \in {"ok", "frame", "fatal"})

\* In a Running graph that never failed, the only nodes of the specification
\* without a worker entry are those whose own worker returned an error: what an
\* abandoned update had joined before is back. Unless the whole graph is being
\* stopped, the others are as they were, but for those a quiesce that failed had
\* told to stop and not reached: they end, and nothing starts them again
\* (engine.rs:877-896).
NothingElseLost ==
    (op = "idle" /\ status = "Running" /\ cause = "none") =>
        /\ entry \subseteq spec
        /\ \A n \in spec \ entry : outcome[n] \in {"frame", "fatal"}
        /\ stop \/ \A n \in entry \ left : Untouched(n)

\* The first root cause is never replaced.
CauseIsStable == [][cause # "none" => cause' = cause]_vars

\* A node is never run by two generations of workers at the same time: its
\* replacement starts only after the old worker has ended.
OneGeneration ==
    [][\A n \in Nodes : (n \in handle' /\ n \notin handle) => n \notin alive]_vars

\* What happened stays so: a later failure or update replaces neither the first
\* root cause nor a worker that still runs.
HistoryIsKept == CauseIsStable /\ OneGeneration

\* The owner waits, without a deadline, for a worker that was told to stop: in
\* the join of a hot update, or when the spawning of workers is undone.
AwaitsStopped ==
    op \in {"join", "abort", "unstart"} /\ \E n \in alive : NextUp(n) /\ ToldToStop(n)

\* Every call returns whatever the workers do, a shutdown or drop by its deadline.
\* One that does not is finish, or waits for a worker that it has told to stop
\* and that does not end (join_workers, engine.rs:885 and 1417): no call waits
\* for a worker it forgot to tell, and none waits for anything else.
CallsReturn == []<>(op \in {"idle", "closed"}) \/ <>[](op = "finish" \/ AwaitsStopped)
=============================================================================
