--------------------------- MODULE GraphDataflow ---------------------------
(***************************************************************************)
(* The data plane of a running graph: one worker thread per element        *)
(* instance, joined by bounded pipes, running the recv / process / send    *)
(* loops of the elements on top of ElementIo.                              *)
(*                                                                         *)
(* An input port has exactly one inbound connection (the builder rejects   *)
(* a second one), so an input port is named by its edge.  An output port   *)
(* is the sequence of senders attached to it.                              *)
(*                                                                         *)
(* Each action is the part of an element's loop between two points where   *)
(* another thread can observe it: one receive, one successful try_send,    *)
(* one increment of the broadcast counter, one return from run_element.    *)
(* A failed try_send (Full) and an empty recv_timeout that returns None    *)
(* only loop: the Poll action, which changes nothing.                      *)
(***************************************************************************)
EXTENDS Naturals, Sequences, FiniteSets, SequencesExt

CONSTANT
    Graphs        \* the graph specifications to run, one of which is run

Kinds == {"source", "relay", "preprocess", "postprocess", "filter_drop",
          "round_robin", "broadcast", "converger", "sink"}

\* What GraphSpec::validate_with_policy and RuntimeGraph::build guarantee.  A
\* connection makes one pipe, whose sender joins one output port of one node and
\* whose receiver becomes an input port.  A distributor has an output and any
\* element but a source an input: without it, run_element fails at once.
ASSUME GraphAssumption ==
    \A g \in Graphs :
        LET nodes == DOMAIN g.kind
            edges == UNION {Range(g.inputs[n]) : n \in nodes} IN
        /\ IsFiniteSet(nodes)
        /\ g.kind \in [nodes -> Kinds]
        /\ g.threads \in [nodes -> Nat \ {0}]
        /\ \A n \in nodes : g.kind[n] \in {"source", "sink"} => g.threads[n] = 1
        /\ g.inputs \in [nodes -> Seq(edges)]
        /\ \A n \in nodes : g.kind[n] # "source" => g.inputs[n] # <<>>
        /\ g.outputs \in [nodes -> Seq(Seq(edges))]
        /\ \A n \in nodes : g.kind[n] \in {"round_robin", "broadcast"} => g.outputs[n] # <<>>
        /\ \A n, m \in nodes : \A i \in DOMAIN g.outputs[n], j \in DOMAIN g.outputs[m] :
             \A a \in DOMAIN g.outputs[n][i], b \in DOMAIN g.outputs[m][j] :
               g.outputs[n][i][a] = g.outputs[m][j][b] => n = m /\ i = j /\ a = b
        /\ g.count \in Nat /\ g.capacity \in Nat \ {0}
        /\ {g.canFail, g.canStop} \subseteq BOOLEAN

VARIABLES
    graph,        \* the running graph; it never changes
    pipe,         \* contents of the pipe of every edge
    pc,           \* where a worker is: "loop", "send", "eos" or "done"
    cur,          \* the packet a worker is sending
    todo,         \* senders the current send() still has to serve, in order
    index,        \* source: packets produced; round robin: next output
    starts,       \* length of ElementIo.packet_starts
    scan,         \* converger: ports still to visit in this round
    received,     \* converger: did this round receive anything
    finished,     \* converger: ports that reached end of stream
    seen,         \* EosState.seen of a node
    broadcasts,   \* EosState.broadcasts of a node
    result,       \* what run_element returned, "none" while it runs
    stop,         \* the graph-wide stop flag
    collected,    \* packets held by the collector of a sink
    sent          \* history: every packet ever put on an edge

vars == <<graph, pipe, pc, cur, todo, index, starts, scan, received, finished, seen,
          broadcasts, result, stop, collected, sent>>

Nodes == DOMAIN graph.kind
Kind == graph.kind                    \* the element run by a node
Threads == graph.threads              \* instances of a node
InPorts == graph.inputs               \* input ports of a node in port-name order
Ports == graph.outputs                \* output ports of a node and their senders
Edges == UNION {Range(InPorts[n]) : n \in Nodes}
Count == graph.count                  \* packets a source produces
Capacity == graph.capacity            \* execution.queue_capacity
BadFrames == graph.bad                \* source packets whose payload is malformed
CanFail == graph.canFail              \* processing a packet may fail or panic
CanStop == graph.canStop              \* the owner may request a stop

Eos == << >>
Data == {n \in Nodes : Kind[n] = "source"} \X (1..Count)
Packets == Data \union {Eos}
Workers == UNION {{n} \X (1..Threads[n]) : n \in Nodes}
Sinks == {n \in Nodes : Kind[n] = "sink"}
OutEdges(n) == UNION {Range(Ports[n][i]) : i \in DOMAIN Ports[n]}
Bad(p) == p[2] \in BadFrames
Deliverable == {p \in Data : ~Bad(p)}

\* outputs.keys() is a hash map: a broadcast may visit the ports in any order.
BroadcastOrders(n) ==
    {FlattenSeq([i \in DOMAIN Ports[n] |-> Ports[n][order[i]]]) :
        order \in {f \in [DOMAIN Ports[n] -> DOMAIN Ports[n]] : IsInjective(f)}}

\* io.outputs has the ports that a connection leaves.  No connection has to: validate
\* requires inputs only.  Then send() finds no port and answers UnknownPort.
UnknownPort(n) == Ports[n] = <<>>

\* send() serves the senders of a port in turn; serving the last one ends it.
EndsSend(n, e) == \E i \in DOMAIN Ports[n] : Ports[n][i] # <<>> /\ Last(Ports[n][i]) = e

-----------------------------------------------------------------------------
(* RuntimeGraph::build and start: empty pipes, one thread per instance. *)

Init ==
    /\ graph \in Graphs
    /\ pipe = [e \in Edges |-> <<>>]
    /\ pc = [w \in Workers |-> "loop"]
    /\ cur = [w \in Workers |-> Eos]
    /\ todo = [w \in Workers |-> <<>>]
    /\ index = [w \in Workers |-> 0]
    /\ starts = [w \in Workers |-> 0]
    /\ scan = [w \in Workers |-> <<>>]
    /\ received = [w \in Workers |-> TRUE]
    /\ finished = [w \in Workers |-> {}]
    /\ seen = [n \in Nodes |-> FALSE]
    /\ broadcasts = [n \in Nodes |-> 0]
    /\ result = [w \in Workers |-> "none"]
    /\ stop = FALSE
    /\ collected = [n \in Sinks |-> <<>>]
    /\ sent = [e \in Edges |-> <<>>]

-----------------------------------------------------------------------------
(* Returning from run_element. *)

StopAfter(r) == stop \/ r = "fatal"

\* A worker returns: a fatal error or a panic also raises the stop flag.
Exit(w, r) ==
    /\ pc' = [pc EXCEPT ![w] = "done"]
    /\ result' = [result EXCEPT ![w] = r]
    /\ stop' = StopAfter(r)

Stay == UNCHANGED <<pc, result, stop>>

Goto(w, l) ==
    /\ pc' = [pc EXCEPT ![w] = l]
    /\ UNCHANGED <<result, stop>>

-----------------------------------------------------------------------------
(* ElementIo::send *)

BeginSend(w, p, senders) ==
    /\ cur' = [cur EXCEPT ![w] = p]
    /\ todo' = [todo EXCEPT ![w] = senders]

HasRoom(q) == Len(q) < Capacity

\* complete_packet: forget the oldest start, if there is one.
CompletePacket_Never(k) == k
CompletePacket(k) == IF k > 0 THEN k - 1 ELSE k

\* One successful try_send of the current send().
SendOne(w) ==
    LET e == Head(todo[w]) IN
    /\ pc[w] = "send" /\ todo[w] # <<>>
    /\ ~stop
    /\ HasRoom(pipe[e])
    /\ pipe' = [pipe EXCEPT ![e] = Append(@, cur[w])]
    /\ sent' = [sent EXCEPT ![e] = Append(@, cur[w])]
    /\ todo' = [todo EXCEPT ![w] = Tail(@)]
    /\ starts' = IF /\ cur[w] # Eos /\ Kind[w[1]] # "source"
                    /\ EndsSend(w[1], e)
                 THEN [starts EXCEPT ![w] = CompletePacket(@)]
                 ELSE starts
    /\ UNCHANGED <<pc, cur, index, scan, received, finished, seen, broadcasts,
                   result, stop, collected>>

\* The stop flag is read before every attempt, also while the pipe is full.
SendCancelled(w) ==
    /\ pc[w] = "send" /\ todo[w] # <<>>
    /\ stop
    /\ Exit(w, "cancelled")
    /\ UNCHANGED <<pipe, cur, todo, index, starts, scan, received, finished,
                   seen, broadcasts, collected, sent>>

\* Every sender is served: go on with the loop, or return after the EOS.
SendDone(w) ==
    /\ pc[w] = "send" /\ todo[w] = <<>>
    /\ IF cur[w] = Eos THEN Exit(w, "ok") ELSE Goto(w, "loop")
    /\ UNCHANGED <<pipe, cur, todo, index, starts, scan, received, finished,
                   seen, broadcasts, collected, sent>>

-----------------------------------------------------------------------------
(* ElementIo::broadcast_eos *)

IsLastBroadcast_First(n, b) == b = 1
IsLastBroadcast_OneMore(n, b) == b = Threads[n] + 1
IsLastBroadcast(n, b) == b = Threads[n]

\* Only the instance whose increment completes the count sends the EOS.
BroadcastEos(w) ==
    LET n == w[1] IN
    /\ pc[w] = "eos"
    /\ broadcasts' = [broadcasts EXCEPT ![n] = @ + 1]
    /\ IF IsLastBroadcast(n, broadcasts[n] + 1)
       THEN /\ \E order \in BroadcastOrders(n) : BeginSend(w, Eos, order)
            /\ Goto(w, "send")
       ELSE /\ Exit(w, "ok")
            /\ UNCHANGED <<cur, todo>>
    /\ UNCHANGED <<pipe, index, starts, scan, received, finished, seen,
                   collected, sent>>

-----------------------------------------------------------------------------
(* Sources *)

SourceNext(w) ==
    /\ Kind[w[1]] = "source" /\ pc[w] = "loop"
    /\ index[w] < Count
    /\ IF stop
       THEN Exit(w, "cancelled") /\ UNCHANGED <<cur, todo, index>>
       ELSE IF UnknownPort(w[1])
       THEN Exit(w, "fatal") /\ UNCHANGED <<cur, todo, index>>
       ELSE /\ BeginSend(w, <<w[1], index[w] + 1>>, FlattenSeq(Ports[w[1]]))
            /\ index' = [index EXCEPT ![w] = @ + 1]
            /\ Goto(w, "send")
    /\ UNCHANGED <<pipe, starts, scan, received, finished, seen, broadcasts,
                   collected, sent>>

SourceEnd(w) ==
    /\ Kind[w[1]] = "source" /\ pc[w] = "loop"
    /\ index[w] = Count
    /\ Goto(w, "eos")
    /\ UNCHANGED <<pipe, cur, todo, index, starts, scan, received, finished,
                   seen, broadcasts, collected, sent>>

-----------------------------------------------------------------------------
(* ElementIo::recv and what each kind of element does with the packet. *)

IsConverger(w) == Kind[w[1]] = "converger"

\* A worker receives on its only port, or on the next port of its round.
Receiving(w) == /\ pc[w] = "loop" /\ Kind[w[1]] # "source"
                /\ IsConverger(w) => scan[w] # <<>>
Port(w) == IF IsConverger(w) THEN Head(scan[w]) ELSE InPorts[w[1]][1]

\* A converger moves on to the next port of the round.
Advance(w, got) ==
    IF IsConverger(w)
    THEN /\ scan' = [scan EXCEPT ![w] = Tail(@)]
         /\ received' = [received EXCEPT ![w] = @ \/ got]
    ELSE UNCHANGED <<scan, received>>

\* packet_starts is bounded by max_packet_starts = max(queue_capacity, 1).
StartsExceeded(k) == k > Capacity

FailOn(w, r) ==
    /\ Exit(w, r)
    /\ starts' = [starts EXCEPT ![w] = @ + 1]
    /\ UNCHANGED <<cur, todo, index, collected>>

\* Forward the packet: the input is completed by the send.
Forward(w, p, senders) ==
    IF UnknownPort(w[1]) THEN FailOn(w, "fatal") ELSE
    /\ BeginSend(w, p, senders)
    /\ Goto(w, "send")
    /\ starts' = [starts EXCEPT ![w] = @ + 1]
    /\ UNCHANGED <<index, collected>>

\* Swallow the packet: the start recorded by recv stays behind.
Swallow(w) ==
    /\ starts' = [starts EXCEPT ![w] = @ + 1]
    /\ Stay
    /\ UNCHANGED <<cur, todo, index, collected>>

\* absorb_frame_result turns a frame-local error into a dropped frame.
Absorbs(n, p) == Kind[n] = "postprocess" /\ Bad(p)

\* The senders of the output whose turn it is.
NextOutput(out, k) == out[(k % Len(out)) + 1]

Process(w, p) ==
    LET n == w[1] out == Ports[n] IN
    \/ /\ Kind[n] \in {"relay", "broadcast", "converger"}
       /\ Forward(w, p, FlattenSeq(out))
    \/ /\ Kind[n] = "preprocess"
       /\ IF Bad(p) THEN FailOn(w, "badframe")
                    ELSE Forward(w, p, FlattenSeq(out))
    \/ /\ Kind[n] = "postprocess"
       /\ IF Absorbs(n, p) THEN Swallow(w) ELSE Forward(w, p, FlattenSeq(out))
    \/ /\ Kind[n] = "filter_drop"
       /\ Swallow(w)
    \/ /\ Kind[n] = "round_robin"
       /\ BeginSend(w, p, NextOutput(out, index[w]))
       /\ index' = [index EXCEPT ![w] = @ + 1]
       /\ Goto(w, "send")
       /\ starts' = [starts EXCEPT ![w] = @ + 1]
       /\ UNCHANGED collected
    \/ /\ Kind[n] = "sink"
       /\ collected' = [collected EXCEPT ![n] = Append(@, p)]
       /\ Stay
       /\ UNCHANGED <<cur, todo, index, starts>>

RecvData(w) ==
    LET e == Port(w) IN
    /\ Receiving(w) /\ pipe[e] # <<>> /\ Head(pipe[e]) # Eos
    /\ pipe' = [pipe EXCEPT ![e] = Tail(@)]
    /\ Advance(w, TRUE)
    /\ IF StartsExceeded(starts[w] + 1)
       THEN FailOn(w, "fatal")
       ELSE \/ Process(w, Head(pipe[e]))
            \/ CanFail /\ FailOn(w, "fatal")
    /\ UNCHANGED <<finished, seen, broadcasts, sent>>

\* End of stream on a port: a converger retires the port, a sink returns, any
\* other element goes on to broadcast_eos.
EndOfStream(w, e) ==
    CASE IsConverger(w) -> finished' = [finished EXCEPT ![w] = @ \union {e}] /\ Stay
      [] Kind[w[1]] = "sink" -> Exit(w, "ok") /\ UNCHANGED finished
      [] OTHER -> Goto(w, "eos") /\ UNCHANGED finished

RecvEos(w) ==
    LET e == Port(w) IN
    /\ Receiving(w) /\ pipe[e] # <<>> /\ Head(pipe[e]) = Eos
    /\ pipe' = [pipe EXCEPT ![e] = Tail(@)]
    /\ seen' = [seen EXCEPT ![w[1]] = TRUE]
    /\ Advance(w, TRUE)
    /\ EndOfStream(w, e)
    /\ UNCHANGED <<cur, todo, index, starts, broadcasts, collected, sent>>

\* A receive that answers None although the graph is stopping.
RecvTimeout_StopUnseen(w) ==
    LET e == Port(w) IN
    /\ Receiving(w) /\ pipe[e] = <<>>
    /\ \/ /\ seen[w[1]]
          /\ Advance(w, TRUE)
          /\ EndOfStream(w, e)
       \/ /\ ~seen[w[1]]
          /\ Advance(w, FALSE)
          /\ Stay /\ UNCHANGED finished
    /\ UNCHANGED <<pipe, cur, todo, index, starts, seen, broadcasts, collected,
                   sent>>

\* recv_timeout elapsed on an empty pipe.  The stop flag comes first; then a
\* node that has seen an EOS on any port gets a synthetic one; else None.
RecvTimeout(w) ==
    LET e == Port(w) IN
    /\ Receiving(w) /\ pipe[e] = <<>>
    /\ \/ /\ stop
          /\ Exit(w, "cancelled")
          /\ UNCHANGED <<scan, received, finished>>
       \/ /\ ~stop /\ seen[w[1]]
          /\ Advance(w, TRUE)
          /\ EndOfStream(w, e)
       \/ /\ ~stop /\ ~seen[w[1]] /\ IsConverger(w)
          /\ Advance(w, FALSE)
          /\ Stay /\ UNCHANGED finished
    /\ UNCHANGED <<pipe, cur, todo, index, starts, seen, broadcasts, collected,
                   sent>>

\* Between two rounds a converger with open ports left looks at the stop flag
\* if the round was empty, then visits the open ports again.
ConvergerRound(w) ==
    /\ IsConverger(w) /\ pc[w] = "loop" /\ scan[w] = <<>>
    /\ LET open == SelectSeq(InPorts[w[1]], LAMBDA e : e \notin finished[w]) IN
       IF open = <<>>
       THEN Goto(w, "eos") /\ UNCHANGED <<scan, received>>
       ELSE IF ~received[w] /\ stop
       THEN Exit(w, "cancelled") /\ UNCHANGED <<scan, received>>
       ELSE /\ scan' = [scan EXCEPT ![w] = open]
            /\ received' = [received EXCEPT ![w] = FALSE]
            /\ Stay
    /\ UNCHANGED <<pipe, cur, todo, index, starts, finished, seen, broadcasts,
                   collected, sent>>

\* A wait that found nothing: recv_timeout returned None, or try_send was Full
\* and the worker sleeps for send_backoff.
Poll(w) ==
    /\ ~stop
    /\ \/ Receiving(w) /\ ~IsConverger(w) /\ pipe[Port(w)] = <<>> /\ ~seen[w[1]]
       \/ pc[w] = "send" /\ todo[w] # <<>> /\ ~HasRoom(pipe[Head(todo[w])])
    /\ UNCHANGED vars

-----------------------------------------------------------------------------
(* The owner of the graph *)

\* request_stop and Drop raise the flag; it is never lowered.
RequestStop ==
    /\ CanStop /\ ~stop
    /\ stop' = TRUE
    /\ UNCHANGED <<pipe, pc, cur, todo, index, starts, scan, received, finished,
                   seen, broadcasts, result, collected, sent>>

AllDone == \A w \in DOMAIN pc : pc[w] = "done"

\* finish() joined every worker.
Joined == AllDone /\ UNCHANGED vars

Worker(w) ==
    \/ SourceNext(w) \/ SourceEnd(w)
    \/ RecvData(w) \/ RecvEos(w) \/ RecvTimeout(w) \/ ConvergerRound(w)
    \/ SendOne(w) \/ SendCancelled(w) \/ SendDone(w) \/ BroadcastEos(w)
    \/ Poll(w)

AllWorkers == UNION {UNION {{n} \X (1..g.threads[n]) : n \in DOMAIN g.kind} : g \in Graphs}

Run(w) ==
    /\ w[1] \in Nodes /\ w[2] <= Threads[w[1]]
    /\ Worker(w)
    /\ UNCHANGED graph

Next == (\E w \in AllWorkers : Run(w)) \/ (RequestStop /\ UNCHANGED graph) \/ Joined

Spec == Init /\ [][Next]_vars

\* Every worker is an operating system thread whose waits are 1 ms polls.
FairSpec == Spec /\ \A w \in AllWorkers : WF_vars(Run(w))

-----------------------------------------------------------------------------
(* Properties *)

\* An edge never carries a packet after its EOS, however many instances of the
\* upstream node are still sending when one of them reads the EOS
\* (broadcast_eos counts instances before it sends).
EosIsFinal ==
    \A e \in Edges : \A i \in 1..(Len(sent[e]) - 1) : sent[e][i] # Eos

\* If every worker returned Ok, every well-formed packet of every source reached
\* every sink exactly once: what run() reports is complete.
AllArrive ==
    (\A w \in Workers : result[w] = "ok") =>
        \A s \in Sinks : /\ IsInjective(collected[s])
                         /\ Range(collected[s]) = Deliverable

HasKind(k) == \E n \in Nodes : Kind[n] = k

\* No sink gets a packet twice, whatever fails or is stopped, in a graph in which
\* no two branches meet again: instances of a node share a pipe and send to the
\* same edges (ElementIo::recv and send).
NothingRepeated ==
    ~HasKind("converger") => \A s \in Sinks : IsInjective(collected[s])

\* A worker is cancelled only when the graph is stopping, and a worker that failed
\* fatally has put it into that state (run_element, should_stop).
StopIsTheCause == \A w \in Workers : result[w] \in {"cancelled", "fatal"} => stop

\* What travels is sound, however the workers interleave: no packet after an EOS,
\* none twice, and nobody gives up while the graph runs.
FlowIsSound == EosIsFinal /\ NothingRepeated /\ StopIsTheCause

\* No interleaving of instances, fan-out, drops and the EOS repeats a packet at
\* the end of two branches, and none loses one: AllArrive holds for graphs without
\* a converger.
DeliveredExactlyOnce ==
    /\ \A s \in Sinks : IsInjective(collected[s])
    /\ ~HasKind("converger") => AllArrive

\* Elements that receive packets they never send on.
Swallows == HasKind("filter_drop") \/ (HasKind("postprocess") /\ BadFrames # {})

\* An element that sends has an output nobody connected.
LooseEnd == \E n \in Nodes : Kind[n] \notin {"filter_drop", "sink"} /\ UnknownPort(n)

\* Without a failing element no worker fails: the packet_starts limit does not fire
\* by itself, unless an element swallows more packets than the limit; nor does a send,
\* unless it has nowhere to go.
NoSpuriousFailure ==
    ~CanFail /\ ~LooseEnd /\ (Swallows => Cardinality(Data) <= Capacity) =>
        \A w \in Workers : result[w] # "fatal"

\* What run() reports is complete and true: no packet lost or repeated, and no
\* failure but those that elements caused.
DeliveryIsExact == DeliveredExactlyOnce /\ NoSpuriousFailure

\* A malformed frame may end its worker without an EOS.
FrameEscapes == HasKind("preprocess") /\ BadFrames # {}

\* run() returns: every worker ends, whatever is blocked on a full pipe and
\* whichever worker fails.  For graphs without a converger and without an
\* escaping frame, which may hang.
Termination == ~HasKind("converger") /\ ~FrameEscapes => <>AllDone

\* Once the stop flag is up every worker returns, also those that wait for a
\* peer that left or died without sending an EOS.
StopEndsAllWorkers == stop ~> AllDone
=============================================================================
