---------------------------- MODULE RouteSwitch -----------------------------
(***************************************************************************)
(* What a hot update does to the packets of one route, source -> node,     *)
(* when the node is replaced (apply_hot_update_candidate and drain_routes  *)
(* in dg-graph/src/engine.rs). The worker of the node is asked to stop and *)
(* joined, the route is switched to a new pipe, the new worker starts, and *)
(* only then are the packets of the old pipe moved over: the source, which *)
(* may stay, sends into the new pipe meanwhile. An end of stream that goes *)
(* straight into the new pipe may therefore overtake packets of the old.   *)
(* The ways an update fails before the drain are those of GraphLifecycle.  *)
(***************************************************************************)
EXTENDS Integers, Sequences, FiniteSets

CONSTANTS RouteCapacity,    \* execution.queue_capacity
          RoutePackets      \* how many packets a run of the source sends

ASSUME RouteAssumption == RouteCapacity \in Nat \ {0} /\ RoutePackets \in Nat

VARIABLES stays,      \* upstream_stays_live: the source is not affected
          keeps,      \* the node looks at the stop flag only when nothing comes (a sink)
          source,     \* the source's worker: [at, n, via]; via: the sender it has cloned
          pipes,      \* the packets of the old and of the new pipe
          node,       \* the old and the new worker of the node: [at, held]
          update,     \* where the update is
          hand,       \* the packet drain_routes has taken out and not yet put in
          dropped,    \* the packet a replaced worker held and gave up
          got         \* the packets the node's workers have processed

routeVars == <<stays, keeps, source, pipes, node, update, hand, dropped, got>>

Nothing == <<"none", 0>>
EndNumber == RoutePackets + 1           \* the number of the end of stream
IsEnd(p) == p[2] = EndNumber
Room(pipe) == Len(pipes[pipe]) < RouteCapacity
Idle == [at |-> "recv", held |-> Nothing]
Switched == update \in {"spawn", "drain", "retry", "ok", "failed"}

RouteInit ==
    /\ stays \in BOOLEAN /\ keeps \in BOOLEAN
    /\ source = [at |-> "idle", n |-> 0, via |-> "old"]
    /\ pipes = [p \in {"old", "new"} |-> <<>>]
    /\ node = [p \in {"old", "new"} |-> IF p = "old" THEN Idle ELSE [Idle EXCEPT !.at = "absent"]]
    /\ update = "none" /\ hand = Nothing /\ dropped = {} /\ got = <<>>

\* ElementIo::send clones the senders of its port under their lock...
SourceBegins ==
    /\ source.at = "idle"
    /\ source' = [at |-> "send", n |-> source.n + 1, via |-> IF Switched THEN "new" ELSE "old"]
    /\ UNCHANGED <<stays, keeps, pipes, node, update, hand, dropped, got>>

Stopping == update \in {"quiesced", "switch"}

\* ... and tries until there is room, the stop flag is seen (the source is
\* replaced too) or the receiver is gone (the update has failed or is over).
SourceSends ==
    /\ source.at = "send" /\ (stays \/ ~Stopping)
    /\ source.via = "new" \/ update \notin {"ok", "failed"}
    /\ Room(source.via)
    /\ pipes' = [pipes EXCEPT ![source.via] = Append(@, <<source.via, source.n>>)]
    /\ source' = [source EXCEPT !.at = IF source.n = EndNumber THEN "ended" ELSE "idle"]
    /\ UNCHANGED <<stays, keeps, node, update, hand, dropped, got>>

SourceQuits ==
    /\ ~stays /\ Stopping /\ source.at \in {"idle", "send"}
    /\ source' = [source EXCEPT !.at = "ended"]
    /\ UNCHANGED <<stays, keeps, pipes, node, update, hand, dropped, got>>

SourceCut ==
    /\ source.at = "send" /\ source.via = "old" /\ update \in {"ok", "failed"}
    /\ source' = [source EXCEPT !.at = "cut"]
    /\ UNCHANGED <<stays, keeps, pipes, node, update, hand, dropped, got>>

\* A worker of the node takes a packet. recv looks at the stop flag only when
\* it times out. A sink is done with the packet at once.
Take(p) ==
    /\ node[p].at = "recv" /\ pipes[p] # <<>>
    /\ pipes' = [pipes EXCEPT ![p] = Tail(@)]
    /\ LET packet == Head(pipes[p])
           done == IsEnd(packet) \/ keeps IN
       /\ node' = [node EXCEPT ![p] = [at |-> IF IsEnd(packet) THEN "ended" ELSE IF keeps THEN "recv" ELSE "send",
                                       held |-> IF done THEN Nothing ELSE packet]]
       /\ got' = IF done THEN Append(got, packet) ELSE got
    /\ UNCHANGED <<stays, keeps, source, update, hand, dropped>>

\* The other elements send it on, unless the stop flag is up: then the packet
\* goes down with the worker.
SendOn(p) ==
    /\ node[p].at = "send"
    /\ \/ /\ ~(p = "old" /\ update = "quiesced")
          /\ got' = Append(got, node[p].held)
          /\ node' = [node EXCEPT ![p] = Idle] /\ UNCHANGED dropped
       \/ /\ p = "old" /\ update = "quiesced"
          /\ dropped' = dropped \cup {node[p].held}
          /\ node' = [node EXCEPT ![p] = [at |-> "ended", held |-> Nothing]] /\ UNCHANGED got
    /\ UNCHANGED <<stays, keeps, source, pipes, update, hand>>

NodeQuits ==
    /\ node["old"].at = "recv" /\ pipes["old"] = <<>> /\ update = "quiesced"
    /\ node' = [node EXCEPT !["old"].at = "ended"]
    /\ UNCHANGED <<stays, keeps, source, pipes, update, hand, dropped, got>>

Quiesce ==
    /\ update = "none" /\ update' = "quiesced"
    /\ UNCHANGED <<stays, keeps, source, pipes, node, hand, dropped, got>>

\* Every affected worker is joined before the routes change.
JoinAll ==
    /\ update = "quiesced" /\ node["old"].at = "ended" /\ (stays \/ source.at = "ended")
    /\ update' = "switch"
    /\ UNCHANGED <<stays, keeps, source, pipes, node, hand, dropped, got>>

Switch ==
    /\ update = "switch" /\ update' = "spawn"
    /\ UNCHANGED <<stays, keeps, source, pipes, node, hand, dropped, got>>

\* The replacement starts on the new pipe; a replaced source starts over.
Spawn ==
    /\ update = "spawn" /\ update' = "drain"
    /\ node' = [node EXCEPT !["new"] = Idle]
    /\ source' = IF stays THEN source ELSE [at |-> "idle", n |-> 0, via |-> "new"]
    /\ UNCHANGED <<stays, keeps, pipes, hand, dropped, got>>

DrainTakes ==
    /\ update = "drain" /\ hand = Nothing /\ pipes["old"] # <<>>
    /\ hand' = Head(pipes["old"]) /\ pipes' = [pipes EXCEPT !["old"] = Tail(@)]
    /\ UNCHANGED <<stays, keeps, source, node, update, dropped, got>>

\* try_send into the new pipe; the end of stream ends the route.
DrainPuts ==
    /\ update \in {"drain", "retry"} /\ hand # Nothing
    /\ IF Room("new")
         THEN /\ pipes' = [pipes EXCEPT !["new"] = Append(@, hand)]
              /\ update' = IF IsEnd(hand) THEN "ok" ELSE "drain"
              /\ hand' = Nothing
         ELSE update' = "retry" /\ UNCHANGED <<pipes, hand>>
    /\ UNCHANGED <<stays, keeps, source, node, dropped, got>>

\* The old pipe is empty: that is its end when every sender is gone, and at
\* once when the source was replaced too.
RouteIsOver_WhenEmpty == pipes["old"] = <<>>
RouteIsOver == pipes["old"] = <<>> /\ (stays => ~(source.at = "send" /\ source.via = "old"))

DrainEnds ==
    /\ update = "drain" /\ hand = Nothing /\ RouteIsOver
    /\ update' = "ok"
    /\ UNCHANGED <<stays, keeps, source, pipes, node, hand, dropped, got>>

\* The deadline passes, before a packet is taken or after it met a full pipe;
\* the old pipe and the packet in hand are let go and the graph is Failed.
DrainGivesUp ==
    /\ update = "retry" \/ (update = "drain" /\ hand = Nothing)
    /\ update' = "failed" /\ hand' = Nothing /\ pipes' = [pipes EXCEPT !["old"] = <<>>]
    /\ UNCHANGED <<stays, keeps, source, node, dropped, got>>

RouteNext == \/ SourceBegins \/ SourceSends \/ SourceQuits \/ SourceCut
             \/ (\E p \in {"old", "new"} : Take(p) \/ SendOn(p)) \/ NodeQuits
             \/ Quiesce \/ JoinAll \/ Switch \/ Spawn
             \/ DrainTakes \/ DrainPuts \/ DrainEnds \/ DrainGivesUp

RouteSpec == RouteInit /\ [][RouteNext]_routeVars
-----------------------------------------------------------------------------
(* Properties *)

One(p) == IF p = Nothing THEN <<>> ELSE <<p>>

\* Every packet that is somewhere, from the one processed first to the last of
\* the old pipe: the places lie behind each other on the way of a packet.
Line == got \o One(node["old"].held) \o One(node["new"].held)
            \o pipes["new"] \o One(hand) \o pipes["old"]

\* The numbers of the packets a source that stays has put into a pipe.
Put == IF stays THEN 1 .. (source.n - (IF source.at \in {"send", "cut"} THEN 1 ELSE 0)) ELSE {}

\* The numbers of the packets on the line up to a place, and of those given up.
NumbersUpTo(i) == {Line[j][2] : j \in 1..i}
Given == {p[2] : p \in dropped}

\* No packet is ever in two places, and packets that took the same way never
\* pass each other, from the pipe they were sent into to where they end up.
MovedOnceInOrder ==
    \A i, j \in 1..Len(Line) : i < j /\ Line[i][1] = Line[j][1] => Line[i][2] < Line[j][2]

\* Whoever reads the line stops at the first end of stream: what lies behind
\* one is stranded.
Read(i) == \A j \in 1..(i - 1) : ~IsEnd(Line[j])

\* The one way a packet is stranded: the source has seen the switch and sent its
\* end of stream into the new pipe before the drain moved the packet there.
Overtaken(i) == Line[i][1] = "old" /\ \E j \in 1..(i - 1) : Line[j] = <<"new", EndNumber>>

\* Unless the drain gave up, what a source that stays has sent reaches the node
\* or will, but for the one packet the replaced worker held when it saw the stop
\* flag, and for those an end of stream has overtaken; a source that stays is
\* not cut off in the middle of a send.
NotLost ==
    /\ Cardinality(dropped) <= 1
    /\ update # "failed" =>
         /\ source.at # "cut"
         /\ \A n \in Put : \/ n \in Given
                         \/ \E i \in 1..Len(Line) : Line[i][2] = n /\ (Read(i) \/ Overtaken(i))

\* An end of stream overtakes no more than an old pipe and the drain can hold.
FewAreOvertaken ==
    \A i \in 1..Len(Line) : Line[i] = <<"new", EndNumber>> => Len(Line) - i <= RouteCapacity + 1

\* An end of stream that takes the old way comes behind everything sent.
EndComesLast ==
    \A i \in 1..Len(Line) : Line[i] = <<"old", EndNumber>> /\ stays =>
        1..RoutePackets \subseteq NumbersUpTo(i) \cup Given

\* What an update does with the packets of a route (the switch and drain_routes,
\* engine.rs:880-1020 and 1244-1322): each is moved once and in order, the end of
\* stream of the old pipe comes last, and none is lost but the one in the replaced
\* worker's hands and those an end of stream overtakes, at most a pipe and one.
RouteIsKept == MovedOnceInOrder /\ NotLost /\ FewAreOvertaken /\ EndComesLast
=============================================================================
