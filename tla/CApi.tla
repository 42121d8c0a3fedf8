--------------------------------- MODULE CApi ---------------------------------
(***************************************************************************)
(* The C ABI of dg-capi: an engine handle that several C threads call at   *)
(* once.  Every call clones the handle's Arc, tries the engine's RwLock    *)
(* (Busy when it is taken), works on the engine and lets go of both.       *)
(* A call is one step to enter and one or more to finish, so that all      *)
(* others can meet it half way.  What a call rejects before it looks at    *)
(* the lock (null pointers, unreadable views, unknown discriminants,       *)
(* text that does not parse) changes nothing and is Rejected.              *)
(***************************************************************************)
EXTENDS Naturals, Sequences, FiniteSets, SequencesExt

CONSTANTS None,        \* no value: nothing built, nothing running
          Threads,     \* C threads that share the handle
          Destroyer,   \* the thread that owns the handle and destroys it
          Names,       \* node names; "in" is of kind input, "out" of kind sink
          Loadable,    \* specifications a load, reload or diff may be given
          Ext,         \* raw external memory a caller may import
          Uses,        \* what the program does with the engine: [ops, exts, policies]
          MaxPackets,  \* limits.max_buffer_packets
          MaxNodes,    \* bound: nodes an edit may reach
          MaxOutputs,  \* bound: tensors of a stream that nobody has polled
          MaxCalls     \* bound: calls of a use, poll and destroy apart

Specs == [nodes : Seq(Names), conns : SUBSET (Names \X Names)]

Made == "made"                     \* a tensor that a streaming graph produced
Tensors == Ext \cup {Made}

\* The running graph as the engine sees it.
Statuses == {"Running", "Draining", "Stopped", "Failed"}
Runs == [spec : Specs, status : Statuses, stop : BOOLEAN,
         alive : BOOLEAN, err : BOOLEAN, sinks : Seq(Tensors)]

ASSUME CApiAssumption ==
    /\ Destroyer \in Threads
    /\ {"in", "out"} \subseteq Names
    /\ Loadable \subseteq Specs /\ None \notin Specs \cup Runs
    /\ {MaxPackets, MaxNodes, MaxOutputs, MaxCalls} \subseteq Nat

DefaultPolicy == MaxNodes

VARIABLES
    spec, graph, run, outputs, pending, streamEnded,   \* struct Engine
    handle,      \* is the owning Arc of the handle alive
    call,        \* what each thread is in the middle of
    answer,      \* the DgStatus of the call that returned last
    gone,        \* has destroy told the owner that the handle is freed
    handles,     \* how many tensor handles the caller has on external memory
    released,    \* external memory whose release callback has run, and how often
    policy,      \* PROCESS_POLICY
    wanted,      \* the policy a thread inside dg_runtime_init has parsed
    limit,       \* the policy that the built graph has captured
    unread,      \* history: tensors of the current stream not yet polled
    lost,        \* history: those of them that nobody can poll any more
    calls,       \* history: calls made, for the bound
    use          \* the use, chosen at the start and never changed

engineVars == <<spec, graph, limit, run, outputs, pending, streamEnded, unread, lost>>
vars == <<spec, graph, run, outputs, pending, streamEnded, handle, gone, call, answer,
          handles, released, policy, wanted, limit, unread, lost, calls, use>>

-----------------------------------------------------------------------------
(* Data: a specification is its nodes, in order, and its connections.      *)

Empty == [nodes |-> <<>>, conns |-> {}]

Valid(s) ==
    /\ IsInjective(s.nodes)
    /\ \A c \in s.conns : {c[1], c[2]} \subseteq ToSet(s.nodes)

EffectiveLimit == IF policy = None THEN DefaultPolicy ELSE policy

Buildable(s) == Valid(s) /\ Len(s.nodes) <= EffectiveLimit

\* A graph that exists is reloaded and updated under the policy it was built with.
Reloadable(s) == Valid(s) /\ Len(s.nodes) <= limit

HasOneInput(s) == Cardinality({i \in DOMAIN s.nodes : s.nodes[i] = "in"}) = 1

Relays(s) == <<"in", "out">> \in s.conns

Init ==
    /\ spec = Empty /\ graph = None /\ run = None
    /\ outputs = <<>> /\ pending = <<>> /\ streamEnded = FALSE
    /\ handle = TRUE
    /\ call = [t \in Threads |-> "idle"] /\ answer = None /\ gone = FALSE
    /\ handles = [e \in Ext |-> 0] /\ released = [e \in Ext |-> 0]
    /\ policy = None /\ wanted = [t \in Threads |-> None]
    /\ limit = None /\ unread = 0 /\ lost = 0 /\ calls = 0
    /\ use \in Uses

-----------------------------------------------------------------------------
(* External memory: the guard runs the callback when the last tensor that  *)
(* shares it goes: a caller's handle, a queued input, a queued output.      *)

Refs(e, h, p, o) ==
    h[e] + Cardinality({i \in DOMAIN p : p[i].tensor = e})
         + Cardinality({i \in DOMAIN o : o[i] = e})

ReleaseDropped ==
    released' = [e \in Ext |->
        IF Refs(e, handles, pending, outputs) > 0 /\ Refs(e, handles', pending', outputs') = 0
        THEN released[e] + 1 ELSE released[e]]

ImportExternal(t, e) ==
    /\ call[t] = "idle" /\ handles[e] = 0 /\ Refs(e, handles, pending, outputs) = 0 /\ released[e] = 0
    /\ handles' = [handles EXCEPT ![e] = 1]
    /\ answer' = "Ok"
    /\ UNCHANGED <<engineVars, handle, gone, call, released, policy, wanted, calls>>

\* A descriptor that fails a check is refused before the guard is built.
ImportRefused(t, e) ==
    /\ call[t] = "idle" /\ handles[e] = 0
    /\ answer' = "Error"
    /\ UNCHANGED <<engineVars, handle, gone, call, handles, released, policy, wanted, calls>>

\* A caller does not free a tensor that another of its calls is using.
FreeTensor(t, e) ==
    /\ call[t] = "idle" /\ handles[e] > 0 /\ \A u \in Threads : call[u] # "push"
    /\ handles' = [handles EXCEPT ![e] = @ - 1]
    /\ UNCHANGED <<engineVars, handle, gone, call, answer, policy, wanted, calls>>
    /\ ReleaseDropped

-----------------------------------------------------------------------------
(* Entering and leaving a call.                                            *)

Writers == {t \in Threads : call[t] \notin {"idle", "read", "init_set", "free"}}
Readers == {t \in Threads : call[t] = "read"}

Free == {"poll", "destroy"}        \* calls without a bound

\* The caller may start a call while its handle has not been given back.
Usable(t) == handle /\ call[t] = "idle" /\ ~gone

lock_engine_write(t, op) ==
    /\ Usable(t)
    /\ op = "destroy" => t = Destroyer
    /\ op \in Free \/ calls < MaxCalls
    /\ calls' = IF op \in Free THEN calls ELSE calls + 1
    /\ IF Writers = {} /\ Readers = {}
       THEN call' = [call EXCEPT ![t] = op] /\ UNCHANGED answer
       ELSE answer' = "Busy" /\ UNCHANGED call
    /\ UNCHANGED <<engineVars, handle, gone, handles, released, policy, wanted>>

lock_engine_read(t) ==
    /\ Usable(t) /\ calls < MaxCalls
    /\ calls' = calls + 1
    /\ IF Writers = {}
       THEN call' = [call EXCEPT ![t] = "read"] /\ UNCHANGED answer
       ELSE answer' = "Busy" /\ UNCHANGED call
    /\ UNCHANGED <<engineVars, handle, gone, handles, released, policy, wanted>>

Rejected(t) ==
    /\ Usable(t)
    /\ answer' = "Error"
    /\ UNCHANGED <<engineVars, handle, gone, call, handles, released, policy, wanted, calls>>

\* The last reference to the engine drops it, with the graph it may be running.
Return(t, status) ==
    /\ call' = [call EXCEPT ![t] = "idle"]
    /\ answer' = status
    /\ UNCHANGED <<handle, gone, handles, policy, wanted, calls>>
    /\ ReleaseDropped

Fails(t) == UNCHANGED engineVars /\ Return(t, "Error")

-----------------------------------------------------------------------------
(* The calls on a graph that does not run.                                 *)

\* A defective load that keeps the graph built from the old specification.
Invalidate_KeepsGraph ==
    /\ run' = None /\ UNCHANGED <<graph, limit>>
    /\ outputs' = <<>> /\ pending' = <<>> /\ streamEnded' = FALSE
    /\ unread' = 0 /\ lost' = 0

Invalidate ==
    /\ graph' = None /\ limit' = None /\ run' = None
    /\ outputs' = <<>> /\ pending' = <<>> /\ streamEnded' = FALSE
    /\ unread' = 0 /\ lost' = 0

LoadSpec(t) ==
    /\ call[t] = "load"
    /\ \/ run # None /\ Fails(t)
       \/ /\ run = None
          /\ \E s \in Loadable : Valid(s) /\ spec' = s
          /\ Invalidate
          /\ Return(t, "Ok")

AddNode(s) == {[s EXCEPT !.nodes = Append(@, n)] : n \in {x \in Names : Len(s.nodes) < MaxNodes}}
\* What remains is a specification again: \cap Specs takes nothing away, it states the
\* type of SelectSeq's result, which a proof would otherwise need an induction for.
RemoveNode(s) ==
    {[nodes |-> SelectSeq(s.nodes, LAMBDA m : m # n),
      conns |-> {c \in s.conns : n \notin {c[1], c[2]}}] : n \in Names} \cap Specs
Connect(s) == {[s EXCEPT !.conns = @ \cup {c}] : c \in {<<"in", "out">>}}
Disconnect(s) == {[s EXCEPT !.conns = @ \ {c}] : c \in s.conns}

EditSpec(t) ==
    /\ call[t] = "edit"
    /\ \/ run # None /\ Fails(t)
       \/ /\ run = None
          /\ spec' \in AddNode(spec) \cup RemoveNode(spec) \cup Connect(spec) \cup Disconnect(spec)
          /\ Invalidate
          /\ Return(t, "Ok")

Build(t) ==
    /\ call[t] = "build"
    /\ \/ (run # None \/ ~Buildable(spec)) /\ Fails(t)
       \/ /\ run = None /\ Buildable(spec)
          /\ graph' = spec /\ limit' = EffectiveLimit
          /\ outputs' = <<>> /\ streamEnded' = FALSE /\ unread' = 0 /\ lost' = 0
          /\ UNCHANGED <<spec, run, pending>>
          /\ Return(t, "Ok")

Push(t) ==
    /\ call[t] = "push"
    /\ \/ /\ run # None \/ graph = None \/ Len(pending) + 1 > MaxPackets \/ ~HasOneInput(spec)
          /\ Fails(t)
       \/ /\ run = None /\ graph # None /\ Len(pending) + 1 <= MaxPackets /\ HasOneInput(spec)
          /\ \E e \in {x \in Ext : handles[x] > 0} : pending' = Append(pending, [tensor |-> e, for |-> spec])
          /\ UNCHANGED <<spec, graph, limit, run, outputs, streamEnded, unread, lost>>
          /\ Return(t, "Ok")

\* dg_engine_push needs a tensor handle; without one the call never starts.
MayEnter(op) == op = "push" => \E e \in Ext : handles[e] > 0

\* One-shot execution: the inputs stay queued when it fails.
Run(t) ==
    /\ call[t] = "run"
    /\ \/ (run # None \/ graph = None) /\ Fails(t)
       \/ /\ run = None /\ graph # None
          /\ outputs' = <<>> /\ streamEnded' = FALSE /\ unread' = 0 /\ lost' = 0
          /\ UNCHANGED <<spec, graph, limit, run, pending>>
          /\ Return(t, "Error")
       \/ /\ run = None /\ graph # None
          /\ outputs' = IF Relays(graph) THEN [i \in DOMAIN pending |-> pending[i].tensor] ELSE <<>>
          /\ unread' = Len(outputs') /\ lost' = 0
          /\ pending' = <<>> /\ streamEnded' = TRUE
          /\ UNCHANGED <<spec, graph, limit, run>>
          /\ Return(t, "Ok")

EngineInit(t) ==
    /\ call[t] = "init"
    /\ \/ /\ run # None \/ pending # <<>> \/ (graph = None /\ ~Buildable(spec))
          /\ Fails(t)
       \/ /\ run = None /\ pending = <<>> /\ (graph # None \/ Buildable(spec))
          /\ graph' = IF graph = None THEN spec ELSE graph
          /\ limit' = IF graph = None THEN EffectiveLimit ELSE limit
          /\ UNCHANGED <<spec, pending>>
          /\ \/ /\ run' = [spec |-> graph', status |-> "Running", stop |-> FALSE,
                           alive |-> TRUE, err |-> FALSE, sinks |-> <<>>]
                /\ outputs' = <<>> /\ streamEnded' = FALSE /\ unread' = 0 /\ lost' = 0
                /\ Return(t, "Ok")
             \/ UNCHANGED <<run, outputs, streamEnded, unread, lost>> /\ Return(t, "Error")

-----------------------------------------------------------------------------
(* The running graph, seen from the engine: workers that produce, end and  *)
(* fail by themselves.                                                     *)

Produce ==
    /\ run # None /\ run.alive /\ unread < MaxOutputs
    /\ run' = [run EXCEPT !.sinks = Append(@, Made)]
    /\ unread' = unread + 1
    /\ UNCHANGED <<spec, graph, limit, lost, outputs, pending, streamEnded, handle, gone, call, answer,
                   handles, released, policy, wanted, calls>>

WorkersEnd ==
    /\ run # None /\ run.alive
    /\ \E e \in BOOLEAN : run' = [run EXCEPT !.alive = FALSE, !.err = e]
    /\ UNCHANGED <<spec, graph, limit, lost, outputs, pending, streamEnded, unread, handle, gone, call, answer,
                   handles, released, policy, wanted, calls>>

Stopping(r) ==
    [r EXCEPT !.stop = TRUE,
              !.status = IF @ \in {"Starting", "Running", "Reloading"} THEN "Draining" ELSE @]

(* Reload: of a running graph through a hot update, of a built one in place. *)

\* A hot update starts a node anew when it is in one of the two specifications
\* only, or at the end of a connection that is.
Touched(old, new, n) ==
    \/ (n \in ToSet(old.nodes)) # (n \in ToSet(new.nodes))
    \/ \E c \in (old.conns \ new.conns) \cup (new.conns \ old.conns) : n \in {c[1], c[2]}

\* What the sinks hold after an update: the collector of a removed sink is dropped,
\* that of a sink started anew is replaced, whatever is in it.  A sink that is not
\* touched may have new parameters, which a specification does not show here.
SinksAfter(old, new, kept) == IF Touched(old, new, "out") THEN {<<>>} ELSE {<<>>, kept}

\* An update that fails leaves the sinks as they are, when it fails before it quiesces
\* the workers, or loses them; it may start some workers again, or end them all.
FailedUpdate(r) ==
    {[r EXCEPT !.status = st, !.alive = a, !.sinks = q] :
        st \in {"Running", "Failed"}, a \in {r.alive, TRUE}, q \in {<<>>, r.sinks}}
    \cup {[r EXCEPT !.status = "Failed", !.stop = TRUE, !.alive = FALSE, !.err = FALSE, !.sinks = q] :
        q \in {<<>>, r.sinks}}

HotUpdate(t, s) ==
    \/ /\ run.spec = s \/ Reloadable(s)
       /\ spec' = s /\ graph' = s
       /\ \/ run.spec = s /\ UNCHANGED run
          \/ /\ run.spec # s
             /\ \E a \in {run.alive, TRUE}, q \in SinksAfter(run.spec, s, run.sinks) :
                  run' = [run EXCEPT !.spec = s, !.status = "Running", !.alive = a, !.sinks = q]
       /\ outputs' = <<>> /\ streamEnded' = FALSE
       /\ lost' = lost + Len(outputs) + (Len(run.sinks) - Len(run'.sinks))
       /\ UNCHANGED <<limit, pending, unread>>
       /\ Return(t, "Ok")
    \/ /\ run.spec # s
       /\ run' \in FailedUpdate(run)
       /\ streamEnded' = FALSE
       /\ lost' = lost + (Len(run.sinks) - Len(run'.sinks))
       /\ UNCHANGED <<spec, graph, limit, outputs, pending, unread>>
       /\ Return(t, "Error")

ReloadStopped(t, s) ==
    \/ /\ graph # None => Reloadable(s)
       /\ spec' = s
       /\ graph' = IF graph = None THEN None ELSE s
       /\ outputs' = <<>> /\ streamEnded' = FALSE
       /\ lost' = lost + Len(outputs)
       /\ UNCHANGED <<limit, run, pending, unread>>
       /\ Return(t, "Ok")
    \/ /\ graph # None /\ ~Reloadable(s)
       /\ streamEnded' = FALSE
       /\ UNCHANGED <<spec, graph, limit, run, outputs, pending, unread, lost>>
       /\ Return(t, "Error")

HasPending == pending # <<>>
Reload(t) ==
    /\ call[t] = "reload"
    /\ \/ HasPending /\ Fails(t)
       \/ /\ ~HasPending
          /\ \E s \in Loadable :
                /\ Valid(s)
                /\ IF run # None THEN HotUpdate(t, s) ELSE ReloadStopped(t, s)

-----------------------------------------------------------------------------
(* Poll: first the workers are looked at, then the sinks are drained.      *)

Joined(r) ==
    IF r.alive \/ r.status = "Failed" THEN r
    ELSE [r EXCEPT !.err = FALSE, !.status = IF r.err THEN "Failed" ELSE "Stopped"]

PollJoin(t) ==
    /\ call[t] = "poll"
    /\ call' = [call EXCEPT ![t] = "poll_drain"]
    /\ run' = IF run = None THEN None ELSE Joined(run)
    /\ UNCHANGED <<spec, graph, limit, lost, outputs, pending, streamEnded, unread, handle, gone, answer,
                   handles, released, policy, wanted, calls>>

\* A defective poll that only drains a graph it still believes to run.
Drained_OnlyRunning == IF run = None \/ run.status # "Running" THEN outputs ELSE outputs \o run.sinks

Drained == IF run = None THEN outputs ELSE outputs \o run.sinks

PollAnswer(queue) ==
    IF run # None /\ run.status = "Failed" THEN "Error"
    ELSE IF queue # <<>> THEN "Ok"
    ELSE IF (run # None /\ run.status = "Stopped") \/ streamEnded THEN "EndOfStream"
    ELSE "Again"

PollDrain(t) ==
    /\ call[t] = "poll_drain"
    /\ LET told == PollAnswer(Drained) IN
       /\ run' = IF run = None THEN None ELSE [run EXCEPT !.sinks = <<>>]
       /\ outputs' = IF told = "Ok" THEN Tail(Drained) ELSE Drained
       /\ unread' = IF told = "Ok" THEN unread - 1 ELSE unread
       /\ handles' = [e \in Ext |-> IF told = "Ok" /\ Head(Drained) = e THEN handles[e] + 1 ELSE handles[e]]
       /\ answer' = told
    /\ call' = [call EXCEPT ![t] = "idle"]
    /\ UNCHANGED <<spec, graph, limit, lost, pending, streamEnded, handle, gone, policy, wanted, calls>>
    /\ ReleaseDropped

-----------------------------------------------------------------------------
(* Stop, shutdown, destroy.                                                *)

\* Calls under the read lock.  Only stop changes anything, through the graph's own flags.
EngineStop(t) ==
    /\ run' = IF run = None THEN None ELSE Stopping(run)
    /\ UNCHANGED <<spec, graph, limit, outputs, pending, streamEnded, unread, lost>>
    /\ Return(t, IF run = None THEN "Error" ELSE "Ok")

EngineStatus(t) == UNCHANGED engineVars /\ Return(t, "Ok")
EngineMetrics(t) == UNCHANGED engineVars /\ Return(t, IF run = None THEN "Error" ELSE "Ok")
EngineDiff(t) == UNCHANGED engineVars /\ Return(t, "Ok")

ReadCall(t) ==
    /\ call[t] = "read"
    /\ EngineStop(t) \/ EngineStatus(t) \/ EngineMetrics(t) \/ EngineDiff(t)

\* A defective shutdown that only waits.
ShutdownBegins_NoStop(t) ==
    /\ call[t] \in {"shutdown", "destroy"}
    /\ call' = [call EXCEPT ![t] = IF @ = "destroy" THEN "destroying" ELSE "stopping"]
    /\ UNCHANGED <<engineVars, handle, gone, answer,
                   handles, released, policy, wanted, calls>>

ShutdownBegins(t) ==
    /\ call[t] \in {"shutdown", "destroy"}
    /\ run' = IF run = None THEN None ELSE Stopping(run)
    /\ call' = [call EXCEPT ![t] = IF @ = "destroy" THEN "destroying" ELSE "stopping"]
    /\ UNCHANGED <<spec, graph, limit, lost, outputs, pending, streamEnded, unread, handle, gone, answer,
                   handles, released, policy, wanted, calls>>

WorkersJoined == run # None => ~run.alive

\* Every worker has been joined: the running graph is consumed, and what its
\* sinks still hold goes with it.
Consume ==
    /\ run' = None
    /\ streamEnded' = IF run = None \/ ~run.err THEN TRUE ELSE streamEnded
    /\ lost' = IF run = None THEN lost ELSE lost + Len(run.sinks)
    /\ UNCHANGED <<spec, graph, limit, outputs, pending, unread>>

ShutdownEnds(t) ==
    /\ call[t] = "stopping"
    /\ WorkersJoined
    /\ Consume
    /\ Return(t, IF run = None \/ ~run.err THEN "Ok" ELSE "Error")

ShutdownTimesOut(t) ==
    /\ call[t] \in {"stopping", "destroying"}
    /\ run # None /\ run.alive
    /\ UNCHANGED engineVars
    /\ Return(t, "Busy")

\* destroy lets go of the lock before it gives back the handle's reference,
\* whether the graph ended well or not.
DestroyEnds(t) ==
    /\ call[t] = "destroying"
    /\ WorkersJoined
    /\ Consume
    /\ call' = [call EXCEPT ![t] = "free"]
    /\ UNCHANGED <<handle, gone, answer, handles, released, policy, wanted, calls>>

DestroyFrees(t) ==
    /\ call[t] = "free"
    /\ handle' = FALSE
    /\ call' = [call EXCEPT ![t] = "idle"]
    /\ gone' = TRUE /\ answer' \in {"Ok", "Error"}
    /\ UNCHANGED <<engineVars, handles, released, policy, wanted, calls>>

\* The last Arc is gone: the engine drops, with what it still holds.  The drop
\* of a running graph stops its workers.
DropEngine ==
    /\ ~handle /\ \A t \in Threads : call[t] \in {"idle", "init_set"}
    /\ graph # None \/ run # None \/ outputs # <<>> \/ pending # <<>>
    /\ graph' = None /\ limit' = None /\ run' = None /\ outputs' = <<>> /\ pending' = <<>>
    /\ lost' = unread
    /\ UNCHANGED <<spec, streamEnded, unread, handle, gone, call, answer, handles, policy, wanted, calls>>
    /\ ReleaseDropped

-----------------------------------------------------------------------------
(* dg_runtime_init: the installed policy is looked up, then set.           *)

RuntimeInit(t, p) ==
    /\ call[t] = "idle" /\ wanted[t] = None
    /\ IF policy = None
       THEN /\ wanted' = [wanted EXCEPT ![t] = p]
            /\ call' = [call EXCEPT ![t] = "init_set"] /\ UNCHANGED answer
       ELSE /\ answer' = IF policy = p THEN "Ok" ELSE "Error"
            /\ UNCHANGED <<wanted, call>>
    /\ UNCHANGED <<engineVars, handle, gone, handles, released, policy, calls>>

RuntimeInitSet(t) ==
    /\ call[t] = "init_set"
    /\ policy' = IF policy = None THEN wanted[t] ELSE policy
    /\ call' = [call EXCEPT ![t] = "idle"]
    /\ answer' = "Ok"
    /\ UNCHANGED <<engineVars, handle, gone, handles, released, wanted, calls>>

-----------------------------------------------------------------------------
Body(t) ==
    \/ LoadSpec(t) \/ EditSpec(t) \/ Build(t) \/ Push(t) \/ Run(t) \/ EngineInit(t) \/ Reload(t)
    \/ PollJoin(t) \/ PollDrain(t) \/ ReadCall(t)
    \/ ShutdownBegins(t) \/ ShutdownEnds(t) \/ DestroyEnds(t) \/ DestroyFrees(t)
    \/ RuntimeInitSet(t)

Next ==
    /\ \/ \E t \in Threads :
            \/ \E op \in use.ops \ {"read"} : MayEnter(op) /\ lock_engine_write(t, op)
            \/ "read" \in use.ops /\ lock_engine_read(t)
            \/ Rejected(t)
            \/ Body(t) \/ ShutdownTimesOut(t)
            \/ \E e \in use.exts : ImportExternal(t, e) \/ ImportRefused(t, e) \/ FreeTensor(t, e)
            \/ \E p \in use.policies : RuntimeInit(t, p)
       \/ Produce \/ WorkersEnd \/ DropEngine
    /\ UNCHANGED use

Spec == Init /\ [][Next]_vars

-----------------------------------------------------------------------------
(* Fairness: a call that has the lock finishes; the owner retries destroy   *)
(* until it succeeds, however often another thread is faster (strong, since *)
(* the lock is only tried); a stopped graph's workers end (GraphDataflow).  *)
Owner == lock_engine_write(Destroyer, "destroy") /\ Writers = {} /\ Readers = {}

FairSpec ==
    /\ Spec
    /\ \A t \in Threads : WF_vars(Body(t) /\ UNCHANGED use)
    /\ SF_vars(Owner /\ UNCHANGED use)
    /\ WF_vars(run # None /\ run.stop /\ WorkersEnd /\ UNCHANGED use)
    /\ WF_vars(DropEngine /\ UNCHANGED use)

-----------------------------------------------------------------------------
\* Outside a call that holds the write lock, the engine's specification, its built
\* graph and the graph that runs are one and the same: no load, edit, reload or
\* failed reload leaves the engine with a graph that its specification does not describe.
SpecsAgree ==
    Writers = {} =>
        /\ graph # None => graph = spec
        /\ run # None => graph # None /\ run.spec = graph

\* An input that waits for dg_engine_run is only ever run by the graph it was pushed
\* for (lib.rs:1897: queued data is never silently interpreted by a changed graph).
InputsMeetTheirGraph == \A i \in DOMAIN pending : pending[i].for = spec /\ graph = spec

\* Specification, graph, running graph and queued inputs of an engine belong together.
OneGraph == SpecsAgree /\ InputsMeetTheirGraph

\* dg_engine_poll answers EndOfStream only when every tensor of the stream has been
\* handed out or lost, whenever the workers end.  lib.rs:2813 knows of no loss; there
\* are three.  A reload drops what was drained and not polled, and what is in a sink
\* that its update removes or starts anew, even if it fails afterwards; the end of a
\* shutdown or destroy drops what is in the sinks; the engine takes along what it
\* holds.  Nothing else loses a tensor.
EndAnswered(t) == call[t] = "poll_drain" /\ call'[t] = "idle" /\ answer' = "EndOfStream"
Loses(t) == call[t] \in {"reload", "stopping", "destroying"} /\ call'[t] \in {"idle", "free"}
EndMeansDrained ==
    [][/\ \A t \in Threads : EndAnswered(t) => unread = lost
       /\ lost' > lost => ~handle \/ \E t \in Threads : Loses(t)]_vars

\* An owner that retries dg_engine_destroy until it is not Busy gets the handle freed,
\* and then nothing is left: no running graph, and no reference to external memory
\* other than the caller's own handles.
EverythingGivenBack ==
    <>[](/\ ~handle /\ run = None
         /\ \A e \in Ext : handles[e] = 0 => Refs(e, handles, pending, outputs) = 0)

=============================================================================
