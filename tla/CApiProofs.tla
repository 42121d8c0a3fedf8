------------------------------ MODULE CApiProofs ------------------------------
(***************************************************************************)
(* The engine behind the C ABI, for any number of threads, specifications, *)
(* tensors and calls: what is specified, built, running and queued belongs *)
(* together, and the end of a stream is told when all is handed out or lost.*)
(***************************************************************************)
EXTENDS CApi, SequenceTheorems, TLAPS

Inputs == [tensor : Ext, for : Specs]

\* A graph that runs.
IsRun(r) == r \in Runs

EngineTypeOK ==
    /\ spec \in Specs /\ spec # None
    /\ outputs \in Seq(Tensors)
    /\ pending \in Seq(Inputs)
    /\ run # None => IsRun(run)

\* What OneGraph says of the engine outside of a write call holds inside one as
\* well: every call changes specification, graph and run in one piece.
Together ==
    /\ graph # None => graph = spec
    /\ run # None => graph # None /\ run.spec = graph /\ pending = <<>>
    /\ InputsMeetTheirGraph

\* What a stream made and nobody polled is in a sink, in the engine's outputs, or lost.
Held == IF run = None THEN 0 ELSE Len(run.sinks)
Counted ==
    /\ lost \in Nat /\ unread \in Nat
    /\ unread = Len(outputs) + Held + lost

EngineInv == EngineTypeOK /\ Together /\ Counted

-----------------------------------------------------------------------------
(* Steps *)

\* None is not a graph that runs.
LEMMA NoneIsNoRun == ASSUME NEW r, IsRun(r) PROVE r # None
  BY CApiAssumption DEF IsRun, Runs

\* A step that leaves the engine alone.
LEMMA EngineKept == EngineInv /\ UNCHANGED engineVars => EngineInv'
  BY DEF EngineInv, EngineTypeOK, IsRun, Together, InputsMeetTheirGraph, Counted, Held, engineVars

\* Every edit makes a specification of a specification.
LEMMA EditsAreSpecs ==
    ASSUME NEW s \in Specs
    PROVE  AddNode(s) \cup RemoveNode(s) \cup Connect(s) \cup Disconnect(s) \subseteq Specs
<1>1. s.nodes \in Seq(Names) /\ s.conns \in SUBSET (Names \X Names)
      /\ s = [nodes |-> s.nodes, conns |-> s.conns]
  BY DEF Specs
<1>2. AddNode(s) \subseteq Specs
  BY <1>1 DEF AddNode, Specs
<1>3. RemoveNode(s) \subseteq Specs
  BY DEF RemoveNode
<1>4. Connect(s) \subseteq Specs
  <2>1. <<"in", "out">> \in Names \X Names
    BY CApiAssumption
  <2> QED
    BY <1>1, <2>1 DEF Connect, Specs
<1>5. Disconnect(s) \subseteq Specs
  BY <1>1 DEF Disconnect, Specs
<1> QED
  BY <1>2, <1>3, <1>4, <1>5

\* The calls on an engine that does not run, and those that find it running.
LEMMA InvalidateKept ==
    ASSUME EngineInv, spec' \in Specs, Invalidate
    PROVE  EngineInv'
<1>1. spec' # None /\ <<>> \in Seq(Tensors) /\ <<>> \in Seq(Inputs) /\ Len(<<>>) = 0 /\ DOMAIN <<>> = {}
  BY CApiAssumption
<1> QED
  BY <1>1 DEF Invalidate, EngineInv, EngineTypeOK, Together, InputsMeetTheirGraph, Counted, Held

LEMMA LoadKept == ASSUME NEW t \in Threads, EngineInv, LoadSpec(t) PROVE EngineInv'
<1>1. CASE run # None /\ Fails(t)
  BY <1>1, EngineKept DEF Fails
<1>2. ASSUME NEW s \in Loadable, spec' = s, Invalidate PROVE EngineInv'
  BY <1>2, InvalidateKept, CApiAssumption
<1> QED
  BY <1>1, <1>2 DEF LoadSpec

LEMMA EditKept == ASSUME NEW t \in Threads, EngineInv, EditSpec(t) PROVE EngineInv'
<1>1. CASE run # None /\ Fails(t)
  BY <1>1, EngineKept DEF Fails
<1>2. ASSUME spec' \in AddNode(spec) \cup RemoveNode(spec) \cup Connect(spec) \cup Disconnect(spec), Invalidate
      PROVE EngineInv'
  BY <1>2, InvalidateKept, EditsAreSpecs DEF EngineInv, EngineTypeOK
<1> QED
  BY <1>1, <1>2 DEF EditSpec

LEMMA BuildKept == ASSUME NEW t \in Threads, EngineInv, Build(t) PROVE EngineInv'
<1>1. CASE Fails(t)
  BY <1>1, EngineKept DEF Fails
<1>2. ASSUME run = None, graph' = spec, outputs' = <<>>, unread' = 0, lost' = 0, UNCHANGED <<spec, run, pending>>
      PROVE EngineInv'
  BY <1>2 DEF EngineInv, EngineTypeOK, Together, InputsMeetTheirGraph, Counted, Held
<1> QED
  BY <1>1, <1>2 DEF Build

LEMMA PushKept == ASSUME NEW t \in Threads, EngineInv, Push(t) PROVE EngineInv'
<1>1. CASE Fails(t)
  BY <1>1, EngineKept DEF Fails
<1>2. ASSUME NEW e \in Ext, run = None, graph # None, pending' = Append(pending, [tensor |-> e, for |-> spec]),
             UNCHANGED <<spec, graph, run, outputs, streamEnded, unread, lost>>
      PROVE EngineInv'
  <2>1. EngineTypeOK'
    BY <1>2 DEF EngineInv, EngineTypeOK, Inputs
  <2>2. \A i \in DOMAIN pending' : pending'[i].for = spec
    BY <1>2 DEF EngineInv, EngineTypeOK, Inputs, Together, InputsMeetTheirGraph
  <2> QED
    BY <1>2, <2>1, <2>2 DEF EngineInv, Together, InputsMeetTheirGraph, Counted, Held
<1> QED
  BY <1>1, <1>2 DEF Push

LEMMA RunKept == ASSUME NEW t \in Threads, EngineInv, Run(t) PROVE EngineInv'
<1>1. CASE Fails(t)
  BY <1>1, EngineKept DEF Fails
<1>2. ASSUME run = None, outputs' = <<>>, unread' = 0, lost' = 0, UNCHANGED <<spec, graph, run, pending>>
      PROVE EngineInv'
  BY <1>2 DEF EngineInv, EngineTypeOK, Together, InputsMeetTheirGraph, Counted, Held
<1>3. ASSUME run = None, graph # None,
             outputs' = IF Relays(graph) THEN [i \in DOMAIN pending |-> pending[i].tensor] ELSE <<>>,
             unread' = Len(outputs'), lost' = 0, pending' = <<>>, UNCHANGED <<spec, graph, run>>
      PROVE EngineInv'
  <2>1. outputs' \in Seq(Tensors)
    <3>1. pending \in Seq(Inputs) /\ Len(pending) \in Nat /\ DOMAIN pending = 1 .. Len(pending)
      BY DEF EngineInv, EngineTypeOK
    <3>2. \A i \in 1 .. Len(pending) : pending[i].tensor \in Tensors
      <4>1. \A i \in 1 .. Len(pending) : pending[i] \in Inputs
        BY <3>1
      <4> QED
        BY <4>1 DEF Inputs, Tensors
    <3>3. [i \in 1 .. Len(pending) |-> pending[i].tensor] \in Seq(Tensors)
      BY <3>1, <3>2
    <3> QED
      BY <1>3, <3>1, <3>3
  <2> QED
    BY <1>3, <2>1 DEF EngineInv, EngineTypeOK, Together, InputsMeetTheirGraph, Counted, Held
<1> QED
  BY <1>1, <1>2, <1>3 DEF Run

LEMMA InitKept == ASSUME NEW t \in Threads, EngineInv, EngineInit(t) PROVE EngineInv'
<1>1. CASE Fails(t)
  BY <1>1, EngineKept DEF Fails
<1>2. ASSUME run = None, pending = <<>>, graph' = IF graph = None THEN spec ELSE graph, UNCHANGED <<spec, pending>>,
             run' = [spec |-> graph', status |-> "Running", stop |-> FALSE,
                     alive |-> TRUE, err |-> FALSE, sinks |-> <<>>],
             outputs' = <<>>, unread' = 0, lost' = 0
      PROVE EngineInv'
  <2>1. graph' = spec' /\ graph' # None /\ run'.spec = graph' /\ run'.sinks = <<>> /\ IsRun(run')
    BY <1>2 DEF EngineInv, EngineTypeOK, Together, IsRun, Runs, Statuses
  <2> QED
    BY <1>2, <2>1 DEF EngineInv, EngineTypeOK, Together, InputsMeetTheirGraph, Counted, Held
<1>3. ASSUME run = None, pending = <<>>, graph' = IF graph = None THEN spec ELSE graph,
             UNCHANGED <<spec, pending, run, outputs, unread, lost>>
      PROVE EngineInv'
  BY <1>3 DEF EngineInv, EngineTypeOK, Together, InputsMeetTheirGraph, Counted, Held
<1> QED
  BY <1>1, <1>2, <1>3 DEF EngineInit

\* A step of the running graph alone: its record changes, its sinks and its specification stay.
LEMMA RunOnly ==
    ASSUME EngineInv, UNCHANGED <<spec, graph, outputs, pending, unread, lost>>,
           run = None => run' = None,
           run # None => IsRun(run') /\ run'.spec = run.spec /\ run'.sinks = run.sinks
    PROVE  EngineInv'
<1>1. run # None => run' # None
  BY NoneIsNoRun
<1>2. Held' = Held
  BY <1>1 DEF Held
<1> QED
  BY <1>1, <1>2 DEF EngineInv, EngineTypeOK, Together, InputsMeetTheirGraph, Counted

LEMMA ReloadKept == ASSUME NEW t \in Threads, EngineInv, Reload(t) PROVE EngineInv'
<1>1. CASE HasPending /\ Fails(t)
  BY <1>1, EngineKept DEF Fails
<1>2. ASSUME NEW s \in Loadable, ~HasPending, run # None, HotUpdate(t, s) PROVE EngineInv'
  <2>0. s \in Specs /\ s # None /\ pending = <<>> /\ IsRun(run)
    BY <1>2, CApiAssumption DEF HasPending, EngineInv, EngineTypeOK
  <2>n. /\ run.sinks \in Seq(Tensors) /\ Len(run.sinks) \in Nat /\ outputs \in Seq(Tensors)
        /\ Len(outputs) \in Nat /\ lost \in Nat /\ unread \in Nat
        /\ unread = Len(outputs) + Len(run.sinks) + lost
    BY <1>2, <2>0 DEF IsRun, Runs, EngineInv, EngineTypeOK, Counted, Held
  <2>q. ASSUME NEW q \in {<<>>, run.sinks}
        PROVE  q \in Seq(Tensors) /\ Len(q) \in Nat /\ Len(q) <= Len(run.sinks)
    <3>1. CASE q = <<>>
      <4>1. q \in Seq(Tensors) /\ Len(q) = 0
        BY <3>1
      <4> QED
        BY <2>n, <4>1
    <3>2. CASE q = run.sinks
      <4>1. q \in Seq(Tensors) /\ Len(q) = Len(run.sinks)
        BY <2>n, <3>2
      <4> QED
        BY <2>n, <4>1
    <3> QED
      BY <3>1, <3>2
  <2>1. ASSUME NEW st \in Statuses, NEW a \in BOOLEAN, NEW q \in {<<>>, run.sinks},
               run' = [run EXCEPT !.spec = s, !.status = st, !.alive = a, !.sinks = q],
               spec' = s, graph' = s, outputs' = <<>>, UNCHANGED <<unread, pending>>,
               lost' = lost + Len(outputs) + (Len(run.sinks) - Len(q))
        PROVE  EngineInv'
    <3>1. IsRun(run') /\ run'.spec = s /\ run'.sinks = q /\ run' # None
      <4>1. IsRun(run') /\ run'.spec = s /\ run'.sinks = q
        BY <2>0, <2>1, <2>q DEF IsRun, Runs
      <4> QED BY <4>1, NoneIsNoRun
    <3>2. Len(outputs') = 0 /\ outputs' \in Seq(Tensors)
      BY <2>1
    <3>3. lost' \in Nat /\ unread' = 0 + Len(q) + lost'
      <4>1. q \in Seq(Tensors) /\ Len(q) \in Nat /\ Len(q) <= Len(run.sinks)
        BY <2>q
      <4>2. lost' = lost + Len(outputs) + (Len(run.sinks) - Len(q)) /\ unread' = unread
        BY <2>1
      <4>3. lost' \in Nat /\ unread = 0 + Len(q) + lost'
        <5>1. /\ unread \in Nat /\ Len(outputs) \in Nat /\ Len(run.sinks) \in Nat /\ lost \in Nat
              /\ unread = Len(outputs) + Len(run.sinks) + lost
              /\ Len(q) \in Nat /\ Len(q) <= Len(run.sinks)
          BY <2>n, <4>1
        <5>2. lost' = lost + Len(outputs) + (Len(run.sinks) - Len(q))
          BY <4>2
        <5>a. PICK u \in Nat, o \in Nat, c \in Nat, l \in Nat, n \in Nat :
                u = unread /\ o = Len(outputs) /\ c = Len(run.sinks) /\ l = lost /\ n = Len(q)
          BY <5>1
        <5>b. u = o + c + l /\ n <= c
          BY <5>1, <5>a
        <5>c. lost' = l + o + (c - n)
          BY <5>2, <5>a
        <5>d. l + o + (c - n) \in Nat /\ u = 0 + n + (l + o + (c - n))
          BY ONLY <5>b
        <5> QED BY <5>a, <5>c, <5>d
      <4> QED BY <4>2, <4>3
    <3> QED
      BY <2>0, <2>n, <2>1, <3>1, <3>2, <3>3
      DEF EngineInv, EngineTypeOK, Together, InputsMeetTheirGraph, Counted, Held
  <2>2. ASSUME IsRun(run'), run'.spec = run.spec, run'.sinks \in {<<>>, run.sinks},
               UNCHANGED <<spec, graph, outputs, pending, unread>>,
               lost' = lost + (Len(run.sinks) - Len(run'.sinks))
        PROVE  EngineInv'
    <3>1. Len(run'.sinks) \in Nat /\ Len(run'.sinks) <= Len(run.sinks) /\ run' # None
      BY <2>2, <2>q, NoneIsNoRun
    <3>2. lost' \in Nat /\ unread' = Len(outputs') + Len(run'.sinks) + lost'
      <4>1. lost' = lost + (Len(run.sinks) - Len(run'.sinks)) /\ unread' = unread
            /\ outputs' = outputs
        BY <2>2
      <4> DEFINE k == Len(run'.sinks)
      <4>2. lost' \in Nat /\ unread = Len(outputs) + k + lost'
        <5>1. /\ unread \in Nat /\ Len(outputs) \in Nat /\ Len(run.sinks) \in Nat /\ lost \in Nat
              /\ unread = Len(outputs) + Len(run.sinks) + lost
              /\ k \in Nat /\ k <= Len(run.sinks)
          BY <2>n, <3>1
        <5>2. lost' = lost + (Len(run.sinks) - k)
          BY <4>1
        <5> HIDE DEF k
        <5>a. PICK u \in Nat, o \in Nat, c \in Nat, l \in Nat, n \in Nat :
                u = unread /\ o = Len(outputs) /\ c = Len(run.sinks) /\ l = lost /\ n = k
          BY <5>1
        <5>b. u = o + c + l /\ n <= c
          BY <5>1, <5>a
        <5>c. lost' = l + (c - n)
          BY <5>2, <5>a
        <5>d. l + (c - n) \in Nat /\ u = o + n + (l + (c - n))
          BY ONLY <5>b
        <5> QED BY <5>a, <5>c, <5>d
      <4> QED BY <4>1, <4>2
    <3> QED
      BY <1>2, <2>n, <2>2, <3>1, <3>2
      DEF EngineInv, EngineTypeOK, Together, InputsMeetTheirGraph, Counted, Held
  <2>3. ASSUME run' \in FailedUpdate(run)
        PROVE  IsRun(run') /\ run'.spec = run.spec /\ run'.sinks \in {<<>>, run.sinks}
    <3>1. run \in Runs /\ <<>> \in Seq(Tensors) /\ run.sinks \in Seq(Tensors)
      BY <2>0, <2>n DEF IsRun
    <3>2. ASSUME NEW st \in {"Running", "Failed"}, NEW a \in {run.alive, TRUE},
                 NEW q \in {<<>>, run.sinks},
                 run' = [run EXCEPT !.status = st, !.alive = a, !.sinks = q]
          PROVE  IsRun(run') /\ run'.spec = run.spec /\ run'.sinks \in {<<>>, run.sinks}
      BY <3>1, <3>2 DEF IsRun, Runs, Statuses
    <3>3. ASSUME NEW q \in {<<>>, run.sinks},
                 run' = [run EXCEPT !.status = "Failed", !.stop = TRUE, !.alive = FALSE,
                                    !.err = FALSE, !.sinks = q]
          PROVE  IsRun(run') /\ run'.spec = run.spec /\ run'.sinks \in {<<>>, run.sinks}
      BY <3>1, <3>3 DEF IsRun, Runs, Statuses
    <3> QED
      BY <2>3, <3>2, <3>3 DEF FailedUpdate
  <2>4. ASSUME UNCHANGED run, run.spec = s
        PROVE  run' = [run EXCEPT !.spec = s, !.status = run.status, !.alive = run.alive,
                                  !.sinks = run.sinks]
    BY <2>0, <2>4 DEF IsRun, Runs
  <2>5. /\ {run.status, "Running"} \subseteq Statuses /\ {run.alive, TRUE} \subseteq BOOLEAN
        /\ SinksAfter(run.spec, s, run.sinks) \subseteq {<<>>, run.sinks}
    BY <2>0 DEF IsRun, Runs, Statuses, SinksAfter
  <2>6. ASSUME spec' = s, graph' = s, outputs' = <<>>, UNCHANGED <<unread, pending>>,
               run.spec = s, UNCHANGED run,
               lost' = lost + Len(outputs) + (Len(run.sinks) - Len(run'.sinks))
        PROVE  EngineInv'
    BY <2>1, <2>4, <2>5, <2>6
  <2>7. ASSUME spec' = s, graph' = s, outputs' = <<>>, UNCHANGED <<unread, pending>>,
               NEW a \in {run.alive, TRUE}, NEW q \in SinksAfter(run.spec, s, run.sinks),
               run' = [run EXCEPT !.spec = s, !.status = "Running", !.alive = a, !.sinks = q],
               lost' = lost + Len(outputs) + (Len(run.sinks) - Len(run'.sinks))
        PROVE  EngineInv'
    <3>1. run'.sinks = q
      BY <2>0, <2>7 DEF IsRun, Runs
    <3>2. a \in BOOLEAN /\ q \in {<<>>, run.sinks} /\ "Running" \in Statuses
      BY <2>5, <2>7
    <3> QED
      BY <2>1, <2>7, <3>1, <3>2
  <2> QED
    BY <1>2, <2>2, <2>3, <2>6, <2>7 DEF HotUpdate
<1>3. ASSUME NEW s \in Loadable, ~HasPending, run = None, ReloadStopped(t, s) PROVE EngineInv'
  <2>0. s \in Specs /\ s # None /\ pending = <<>>
    BY <1>3, CApiAssumption DEF HasPending
  <2>1. ASSUME spec' = s, graph' = IF graph = None THEN None ELSE s, outputs' = <<>>,
               lost' = lost + Len(outputs), UNCHANGED <<run, pending, unread>>
        PROVE  EngineInv'
    BY <1>3, <2>0, <2>1 DEF EngineInv, EngineTypeOK, Together, InputsMeetTheirGraph, Counted, Held
  <2>2. ASSUME UNCHANGED <<spec, graph, run, outputs, pending, unread, lost>>
        PROVE  EngineInv'
    BY <1>3, <2>2, RunOnly
  <2> QED
    BY <1>3, <2>1, <2>2 DEF ReloadStopped
<1> QED
  BY <1>1, <1>2, <1>3 DEF Reload

\* Stopping and joining leave the sinks of a graph alone.
LEMMA StoppingKeeps ==
    ASSUME NEW r, IsRun(r)
    PROVE  /\ IsRun(Stopping(r)) /\ Stopping(r).spec = r.spec /\ Stopping(r).sinks = r.sinks
           /\ IsRun(Joined(r)) /\ Joined(r).spec = r.spec /\ Joined(r).sinks = r.sinks
<1>1. IsRun(Stopping(r)) /\ Stopping(r).spec = r.spec /\ Stopping(r).sinks = r.sinks
  BY DEF Stopping, IsRun, Runs, Statuses
<1>2. IsRun(Joined(r)) /\ Joined(r).spec = r.spec /\ Joined(r).sinks = r.sinks
  BY DEF Joined, IsRun, Runs, Statuses
<1> QED
  BY <1>1, <1>2

LEMMA PollJoinKept == ASSUME NEW t \in Threads, EngineInv, PollJoin(t) PROVE EngineInv'
  BY RunOnly, StoppingKeeps DEF PollJoin, EngineInv, EngineTypeOK

\* What a poll finds: the outputs, and after them what the sinks hold.
LEMMA DrainedIsAll ==
    ASSUME EngineInv
    PROVE  /\ Drained \in Seq(Tensors)
           /\ Len(Drained) \in Nat /\ Len(Drained) + lost = unread
<1>1. CASE run = None
  BY <1>1 DEF EngineInv, EngineTypeOK, Drained, Counted, Held
<1>2. CASE run # None
  <2>1. outputs \in Seq(Tensors) /\ run.sinks \in Seq(Tensors)
    BY <1>2 DEF EngineInv, EngineTypeOK, IsRun, Runs, Statuses
  <2>2. outputs \o run.sinks \in Seq(Tensors) /\ Len(outputs \o run.sinks) = Len(outputs) + Len(run.sinks)
    BY <2>1
  <2> QED
    BY <1>2, <2>1, <2>2 DEF Drained, EngineInv, Counted, Held
<1> QED
  BY <1>1, <1>2

LEMMA PollDrainKept == ASSUME NEW t \in Threads, EngineInv, PollDrain(t) PROVE EngineInv'
<1> DEFINE told == PollAnswer(Drained)
<1>1. /\ run' = IF run = None THEN None ELSE [run EXCEPT !.sinks = <<>>]
      /\ outputs' = IF told = "Ok" THEN Tail(Drained) ELSE Drained
      /\ unread' = IF told = "Ok" THEN unread - 1 ELSE unread
      /\ UNCHANGED <<spec, graph, pending, lost>>
  BY DEF PollDrain
<1>2. told = "Ok" => Drained # <<>>
  BY DEF PollAnswer
<1>3. /\ Drained \in Seq(Tensors) /\ Len(Drained) \in Nat /\ Len(Drained) + lost = unread
      /\ lost \in Nat /\ unread \in Nat
  BY DrainedIsAll DEF EngineInv, Counted
<1> HIDE DEF told
<1>4. outputs' \in Seq(Tensors) /\ unread' \in Nat /\ unread' = Len(outputs') + lost
  <2>1. CASE told = "Ok"
    <3>1. /\ Tail(Drained) \in Seq(Tensors) /\ Len(Tail(Drained)) = Len(Drained) - 1
          /\ Len(Drained) # 0
      BY <1>2, <1>3, <2>1
    <3> QED
      BY <1>1, <1>3, <2>1, <3>1
  <2>2. CASE told # "Ok"
    BY <1>1, <1>3, <2>2
  <2> QED
    BY <2>1, <2>2
<1>5. run # None => IsRun(run') /\ run'.spec = run.spec /\ run'.sinks = <<>>
  <2>1. SUFFICES ASSUME run # None PROVE IsRun(run') /\ run'.spec = run.spec /\ run'.sinks = <<>>
    OBVIOUS
  <2>2. run' = [run EXCEPT !.sinks = <<>>]
    BY <1>1, <2>1
  <2>3. run \in Runs /\ <<>> \in Seq(Tensors)
    BY <2>1 DEF EngineInv, EngineTypeOK, IsRun
  <2> QED
    BY <2>2, <2>3 DEF IsRun, Runs
<1>6. Held' = 0 /\ (run = None <=> run' = None)
  BY <1>1, <1>5, NoneIsNoRun DEF Held
<1>7. lost' \in Nat /\ unread' \in Nat /\ unread' = Len(outputs') + Held' + lost'
  <2>1. Len(outputs') \in Nat
    BY <1>4
  <2> QED
    BY <1>1, <1>3, <1>4, <1>6, <2>1
<1> QED
  BY <1>1, <1>4, <1>5, <1>6, <1>7 DEF EngineInv, EngineTypeOK, Together, InputsMeetTheirGraph, Counted

LEMMA ShutdownKept ==
    ASSUME NEW t \in Threads, EngineInv,
           ShutdownBegins(t) \/ ShutdownEnds(t) \/ DestroyEnds(t)
    PROVE  EngineInv'
<1>1. CASE ShutdownBegins(t)
  BY <1>1, RunOnly, StoppingKeeps DEF ShutdownBegins, EngineInv, EngineTypeOK
<1>2. ASSUME Consume PROVE EngineInv'
  BY <1>2 DEF Consume, EngineInv, EngineTypeOK, Together, InputsMeetTheirGraph, Counted, Held
<1> QED
  BY <1>1, <1>2 DEF ShutdownEnds, DestroyEnds

LEMMA ReadKept == ASSUME NEW t \in Threads, EngineInv, ReadCall(t) PROVE EngineInv'
<1>1. CASE EngineStop(t)
  BY <1>1, RunOnly, StoppingKeeps DEF EngineStop, EngineInv, EngineTypeOK
<1>2. CASE UNCHANGED engineVars
  BY <1>2, EngineKept
<1> QED
  BY <1>1, <1>2 DEF ReadCall, EngineStatus, EngineMetrics, EngineDiff

LEMMA WorkersKept == ASSUME EngineInv, Produce \/ WorkersEnd PROVE EngineInv'
<1>0. IsRun(run) /\ run # None
  BY DEF Produce, WorkersEnd, EngineInv, EngineTypeOK
<1>1. CASE Produce
  <2>1. run.sinks \in Seq(Tensors) /\ Made \in Tensors
    BY <1>0 DEF IsRun, Runs, Tensors
  <2>2. Append(run.sinks, Made) \in Seq(Tensors) /\ Len(Append(run.sinks, Made)) = Len(run.sinks) + 1
    BY <2>1
  <2>3. IsRun(run') /\ run'.spec = run.spec /\ run'.sinks = Append(run.sinks, Made)
    BY <1>0, <1>1, <2>2 DEF Produce, IsRun, Runs
  <2>4. Len(outputs) \in Nat /\ Len(run.sinks) \in Nat
    BY <2>1 DEF EngineInv, EngineTypeOK
  <2>5. run' # None
    BY <2>3, NoneIsNoRun
  <2>6. Held = Len(run.sinks) /\ Held' = Len(run.sinks) + 1
    BY <1>0, <2>2, <2>3, <2>5 DEF Held
  <2>7. UNCHANGED <<spec, graph, outputs, pending, lost>> /\ unread' = unread + 1
    BY <1>1 DEF Produce
  <2>8. Counted'
    <3>1. lost \in Nat /\ unread \in Nat /\ unread = Len(outputs) + Held + lost
      BY DEF EngineInv, Counted
    <3>2. unread + 1 \in Nat /\ unread + 1 = Len(outputs) + (Len(run.sinks) + 1) + lost
      BY <2>4, <2>6, <3>1
    <3> QED
      BY <2>6, <2>7, <3>1, <3>2 DEF Counted
  <2> QED
    BY <1>0, <2>3, <2>5, <2>7, <2>8 DEF EngineInv, EngineTypeOK, Together, InputsMeetTheirGraph
<1>2. CASE WorkersEnd
  <2>1. IsRun(run') /\ run'.spec = run.spec /\ run'.sinks = run.sinks
    BY <1>0, <1>2 DEF WorkersEnd, IsRun, Runs
  <2> QED
    BY <1>0, <1>2, <2>1, RunOnly DEF WorkersEnd
<1> QED
  BY <1>1, <1>2

LEMMA DropKept == ASSUME EngineInv, DropEngine PROVE EngineInv'
  BY DEF DropEngine, EngineInv, EngineTypeOK, Together, InputsMeetTheirGraph, Counted, Held

\* Every step of every thread and of the workers keeps the engine in order.
LEMMA EngineStep == EngineInv /\ [Next]_vars => EngineInv'
<1> SUFFICES ASSUME EngineInv, [Next]_vars PROVE EngineInv'
  OBVIOUS
<1>1. CASE UNCHANGED vars
  BY <1>1, EngineKept DEF vars, engineVars
<1>2. ASSUME NEW t \in Threads, Body(t) PROVE EngineInv'
  <2>1. CASE DestroyFrees(t) \/ RuntimeInitSet(t)
    BY <2>1, EngineKept DEF DestroyFrees, RuntimeInitSet
  <2> QED
    BY <1>2, <2>1, LoadKept, EditKept, BuildKept, PushKept, RunKept, InitKept, ReloadKept,
       PollJoinKept, PollDrainKept, ShutdownKept, ReadKept DEF Body
<1>3. ASSUME NEW t \in Threads, ShutdownTimesOut(t) PROVE EngineInv'
  BY <1>3, EngineKept DEF ShutdownTimesOut
<1>4. ASSUME NEW t \in Threads, NEW x,
             \/ lock_engine_write(t, x) \/ lock_engine_read(t) \/ Rejected(t) \/ ImportExternal(t, x)
             \/ ImportRefused(t, x) \/ FreeTensor(t, x) \/ RuntimeInit(t, x)
      PROVE  EngineInv'
  BY <1>4, EngineKept DEF lock_engine_write, lock_engine_read, Rejected, ImportExternal,
     ImportRefused, FreeTensor, RuntimeInit
<1> QED
  BY <1>1, <1>2, <1>3, <1>4, WorkersKept, DropKept DEF Next

LEMMA EngineInitially == Init => EngineInv
<1> SUFFICES ASSUME Init PROVE EngineInv
  OBVIOUS
<1>1. Empty \in Specs
  BY DEF Empty, Specs
<1> QED
  BY <1>1, CApiAssumption
  DEF Init, EngineInv, EngineTypeOK, Together, InputsMeetTheirGraph, Counted, Held

\* However many threads call into one engine handle: the specification, the built and
\* the running graph are one, and a queued input waits for the graph it was pushed for
\* (load, edit, build, push, run, init, reload, poll, stop, shutdown and destroy of lib.rs).
THEOREM EngineStaysOne == Spec => []OneGraph
<1>1. EngineInv => OneGraph
  BY DEF EngineInv, Together, OneGraph, SpecsAgree
<1> QED
  BY <1>1, EngineInitially, EngineStep, PTL DEF Spec

-----------------------------------------------------------------------------
(* The end of a live stream *)

\* A call is known for every thread, whatever the step.
LEMMA CallsKept == DOMAIN call = Threads /\ [Next]_vars => DOMAIN call' = Threads
<1> SUFFICES ASSUME DOMAIN call = Threads, [Next]_vars PROVE DOMAIN call' = Threads
  OBVIOUS
<1>1. CASE UNCHANGED vars
  BY <1>1 DEF vars
<1>2. ASSUME NEW t \in Threads, Body(t) \/ ShutdownTimesOut(t) PROVE DOMAIN call' = Threads
  BY <1>2 DEF Body, ShutdownTimesOut, LoadSpec, EditSpec, Build, Push, Run, EngineInit, Reload,
     HotUpdate, ReloadStopped, PollJoin, PollDrain, ReadCall, EngineStop, EngineStatus,
     EngineMetrics, EngineDiff, ShutdownBegins, ShutdownEnds, DestroyEnds, DestroyFrees,
     RuntimeInitSet, Fails, Return
<1>3. ASSUME NEW t \in Threads, NEW x,
             \/ lock_engine_write(t, x) \/ lock_engine_read(t) \/ Rejected(t) \/ ImportExternal(t, x)
             \/ ImportRefused(t, x) \/ FreeTensor(t, x) \/ RuntimeInit(t, x)
      PROVE  DOMAIN call' = Threads
  BY <1>3 DEF lock_engine_write, lock_engine_read, Rejected, ImportExternal,
     ImportRefused, FreeTensor, RuntimeInit
<1>4. CASE Produce \/ WorkersEnd \/ DropEngine
  BY <1>4 DEF Produce, WorkersEnd, DropEngine
<1> QED
  BY <1>1, <1>2, <1>3, <1>4 DEF Next

\* A step of thread u changes no call but that of u, and none that is in its
\* second half of a poll except by ending it.
LEMMA PollEnds ==
    ASSUME NEW t \in Threads, DOMAIN call = Threads, [Next]_vars, EndAnswered(t)
    PROVE  PollDrain(t)
<1> USE DEF EndAnswered
<1>1. CASE UNCHANGED vars
  BY <1>1 DEF vars
<1>2. ASSUME NEW u \in Threads, Body(u) \/ ShutdownTimesOut(u) PROVE PollDrain(t)
  <2>1. CASE u # t
    BY <1>2, <2>1 DEF Body, ShutdownTimesOut, LoadSpec, EditSpec, Build, Push, Run, EngineInit, Reload,
       HotUpdate, ReloadStopped, PollJoin, PollDrain, ReadCall, EngineStop, EngineStatus,
       EngineMetrics, EngineDiff, ShutdownBegins, ShutdownEnds, DestroyEnds, DestroyFrees,
       RuntimeInitSet, Fails, Return
  <2>2. CASE u = t
    BY <1>2, <2>2 DEF Body, ShutdownTimesOut, LoadSpec, EditSpec, Build, Push, Run, EngineInit, Reload,
       PollJoin, ReadCall, ShutdownBegins, ShutdownEnds, DestroyEnds, DestroyFrees, RuntimeInitSet
  <2> QED
    BY <2>1, <2>2
<1>3. ASSUME NEW u \in Threads, NEW x,
             \/ lock_engine_write(u, x) \/ lock_engine_read(u) \/ Rejected(u) \/ ImportExternal(u, x)
             \/ ImportRefused(u, x) \/ FreeTensor(u, x) \/ RuntimeInit(u, x)
      PROVE  PollDrain(t)
  BY <1>3 DEF lock_engine_write, lock_engine_read, Usable, Rejected, ImportExternal,
     ImportRefused, FreeTensor, RuntimeInit
<1>4. CASE Produce \/ WorkersEnd \/ DropEngine
  BY <1>4 DEF Produce, WorkersEnd, DropEngine
<1> QED
  BY <1>1, <1>2, <1>3, <1>4 DEF Next

\* What loses a tensor: a reload, the end of a shutdown or destroy, and the drop of
\* the engine, after its handle.
LEMMA LossSteps ==
    ASSUME EngineInv, DOMAIN call = Threads, [Next]_vars, lost' > lost
    PROVE  ~handle \/ \E t \in Threads : Loses(t)
<1> USE DEF Loses
<1>0. lost \in Nat /\ ~(lost > lost) /\ ~(0 > lost)
  BY DEF EngineInv, Counted
<1>1. CASE UNCHANGED vars
  BY <1>0, <1>1 DEF vars
<1>2. ASSUME NEW u \in Threads, Reload(u) PROVE Loses(u)
  BY <1>2 DEF Reload, HotUpdate, ReloadStopped, Fails, Return
<1>3. ASSUME NEW u \in Threads, ShutdownEnds(u) \/ DestroyEnds(u) PROVE Loses(u)
  BY <1>3 DEF ShutdownEnds, DestroyEnds, Return
<1>4. ASSUME NEW u \in Threads, LoadSpec(u) \/ EditSpec(u) \/ Build(u) \/ Push(u) \/ Run(u)
                                 \/ EngineInit(u)
      PROVE  lost' \in {lost, 0}
  BY <1>4 DEF LoadSpec, EditSpec, Build, Push, Run, EngineInit, Invalidate, Fails, engineVars
<1>5. ASSUME NEW u \in Threads, \/ PollJoin(u) \/ PollDrain(u) \/ ReadCall(u) \/ ShutdownBegins(u)
                                 \/ DestroyFrees(u) \/ RuntimeInitSet(u) \/ ShutdownTimesOut(u)
      PROVE  lost' = lost
  BY <1>5 DEF PollJoin, PollDrain, ReadCall, EngineStop, EngineStatus, EngineMetrics, EngineDiff,
     ShutdownBegins, DestroyFrees, RuntimeInitSet, ShutdownTimesOut, engineVars
<1>6. ASSUME NEW u \in Threads, NEW x,
             \/ lock_engine_write(u, x) \/ lock_engine_read(u) \/ Rejected(u) \/ ImportExternal(u, x)
             \/ ImportRefused(u, x) \/ FreeTensor(u, x) \/ RuntimeInit(u, x)
      PROVE  lost' = lost
  BY <1>6 DEF lock_engine_write, lock_engine_read, Rejected, ImportExternal,
     ImportRefused, FreeTensor, RuntimeInit, engineVars
<1>7. CASE Produce \/ WorkersEnd
  BY <1>0, <1>7 DEF Produce, WorkersEnd
<1>8. CASE DropEngine
  BY <1>8 DEF DropEngine
<1> QED
  BY <1>0, <1>1, <1>2, <1>3, <1>4, <1>5, <1>6, <1>7, <1>8 DEF Next, Body

\* However the workers' end and the calls of several threads interleave: a poll that
\* answers EndOfStream leaves no tensor of the stream unread but the lost ones
\* (dg_engine_poll joins the workers first and drains the sinks after), and only a
\* reload, the end of a shutdown or destroy, and the drop of the engine lose any.
THEOREM EndIsDrained == Spec => EndMeansDrained
<1> DEFINE I == EngineInv /\ DOMAIN call = Threads
           Step == /\ \A t \in Threads : EndAnswered(t) => unread = lost
                   /\ lost' > lost => ~handle \/ \E t \in Threads : Loses(t)
<1>1. Init => I
  BY EngineInitially DEF Init
<1>2. I /\ [Next]_vars => I'
  BY EngineStep, CallsKept
<1>3. I /\ [Next]_vars => [Step]_vars
  <2> SUFFICES ASSUME I, [Next]_vars PROVE Step
    OBVIOUS
  <2>1. ASSUME NEW t \in Threads, EndAnswered(t) PROVE unread = lost
    <3>1. PollDrain(t)
      BY <2>1, PollEnds
    <3>2. PollAnswer(Drained) = "EndOfStream"
      BY <2>1, <3>1 DEF PollDrain, EndAnswered
    <3>3. Drained = <<>> /\ Len(Drained) = 0
      BY <3>2 DEF PollAnswer
    <3> QED
      BY <3>3, DrainedIsAll DEF EngineInv, Counted
  <2>2. lost' > lost => ~handle \/ \E t \in Threads : Loses(t)
    BY LossSteps
  <2> QED
    BY <2>1, <2>2
<1> QED
  BY <1>1, <1>2, <1>3, PTL DEF Spec, EndMeansDrained
===============================================================================
