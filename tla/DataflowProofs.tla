--------------------------- MODULE DataflowProofs ---------------------------
(***************************************************************************)
(* How packets travel, for every instance: the pipe with any number of     *)
(* senders and receivers, and its depth counter; a route                   *)
(* whose node a hot update replaces; a running graph with any nodes,       *)
(* instances and connections; and the cache of the buffers they carry.     *)
(***************************************************************************)
EXTENDS DataPipe, RouteSwitch, GraphDataflow, MemoryPool, FiniteSetTheorems, SequenceTheorems,
        WellFoundedInduction, TLAPS

(* The pipe *)

\* The set of senders inside try_send is finite.
LEMMA CountedFinite == IsFiniteSet(Counted) /\ Cardinality(Counted) \in Nat
  <1>1. IsFiniteSet(Counted)
    BY FS_Subset, PipeAssumption DEF Counted
  <1> QED
    BY <1>1, FS_CardinalityType

\* Every variable keeps its type: the handlers of DataPipe are well defined.
THEOREM PipeTypeCorrect == PipeSpec => []PipeTypeOK
  <1>1. PipeInit => PipeTypeOK
    BY PipeAssumption DEF PipeInit, PipeTypeOK
  <1>2. PipeTypeOK /\ [PipeNext]_pipeVars => PipeTypeOK'
    <2> SUFFICES ASSUME PipeTypeOK, [PipeNext]_pipeVars PROVE PipeTypeOK'
      OBVIOUS
    <2> USE PipeAssumption DEF PipeTypeOK
    <2>1. ASSUME NEW s \in Senders, SendCount(s) PROVE PipeTypeOK'
      BY <2>1 DEF SendCount
    <2>2. ASSUME NEW s \in Senders, SendPush(s) PROVE PipeTypeOK'
      <3>1. nsent[s] + 1 \in 0..MaxSends /\ <<s, nsent[s] + 1>> \in PipePackets
        BY <2>2 DEF SendPush, PipePackets
      <3> QED
        BY <2>2, <3>1 DEF SendPush
    <2>3. ASSUME NEW s \in Senders, SendRefused(s) PROVE PipeTypeOK'
      BY <2>3 DEF SendRefused
    <2>4. ASSUME NEW s \in Senders, SendUndo(s) PROVE PipeTypeOK'
      BY <2>4 DEF SendUndo, UndoCount
    <2>5. ASSUME NEW r \in Receivers, RecvPop(r) PROVE PipeTypeOK'
      BY <2>5 DEF RecvPop
    <2>6. ASSUME NEW r \in Receivers, RecvCount(r) PROVE PipeTypeOK'
      BY <2>6 DEF RecvCount
    <2>7. CASE DropReceiver
      <3>1. connected' \in BOOLEAN
        BY <2>7, Zenon DEF DropReceiver
      <3>2. queue' \in Seq(PipePackets)
        BY <2>7 DEF DropReceiver
      <3> QED
        BY <2>7, <3>1, <3>2 DEF DropReceiver
    <2>8. CASE UNCHANGED pipeVars
      BY <2>8 DEF pipeVars
    <2> QED
      BY <2>1, <2>2, <2>3, <2>4, <2>5, <2>6, <2>7, <2>8 DEF PipeNext
  <1> QED
    BY <1>1, <1>2, PTL DEF PipeSpec

\* A sender that enters or leaves try_send changes the number inside by one.
LEMMA CountedStep ==
  ASSUME PipeTypeOK, NEW s \in Senders
  PROVE  /\ (spc[s] = "idle" /\ spc' = [spc EXCEPT ![s] = "added"])
              => Cardinality(Counted') = Cardinality(Counted) + 1
         /\ (spc[s] # "idle" /\ spc' = [spc EXCEPT ![s] = "idle"])
              => Cardinality(Counted') = Cardinality(Counted) - 1
  <1>1. ASSUME spc[s] = "idle", spc' = [spc EXCEPT ![s] = "added"]
        PROVE  Cardinality(Counted') = Cardinality(Counted) + 1
    <2>1. Counted' = Counted \union {s} /\ s \notin Counted
      BY <1>1 DEF Counted, PipeTypeOK
    <2> QED
      BY <2>1, CountedFinite, FS_AddElement
  <1>2. ASSUME spc[s] # "idle", spc' = [spc EXCEPT ![s] = "idle"]
        PROVE  Cardinality(Counted') = Cardinality(Counted) - 1
    <2>1. Counted' = Counted \ {s} /\ s \in Counted
      BY <1>2 DEF Counted, PipeTypeOK
    <2> QED
      BY <2>1, CountedFinite, FS_RemoveElement
  <1> QED
    BY <1>1, <1>2

\* The depth counter of a live pipe is its length plus the calls under way:
\* try_send, recv_timeout and try_recv pair every addition with one subtraction.
THEOREM DepthCorrect == PipeSpec => []DepthAccounted
  <1> DEFINE Inv == PipeTypeOK /\ DepthAccounted
  <1>1. PipeInit => DepthAccounted
    <2> SUFFICES ASSUME PipeInit PROVE DepthAccounted
      OBVIOUS
    <2>1. Counted = {}
      BY DEF PipeInit, Counted
    <2> QED
      BY <2>1, FS_EmptySet DEF PipeInit, DepthAccounted
  <1>2. PipeTypeOK /\ DepthAccounted /\ [PipeNext]_pipeVars => DepthAccounted'
    <2> SUFFICES ASSUME PipeTypeOK, DepthAccounted, [PipeNext]_pipeVars, connected'
                 PROVE  depth' = Len(queue') + Cardinality(Counted')
                                   + (IF holder' = None THEN 0 ELSE 1)
      BY DEF DepthAccounted
    <2>0. /\ connected
          /\ depth = Len(queue) + Cardinality(Counted) + (IF holder = None THEN 0 ELSE 1)
          /\ Len(queue) \in Nat /\ Cardinality(Counted) \in Nat /\ depth \in Int
      <3>1. connected
        BY DEF PipeNext, pipeVars, SendCount, SendPush, SendRefused, SendUndo, RecvPop,
               RecvCount, DropReceiver, PipeTypeOK
      <3> QED
        BY <3>1, CountedFinite DEF DepthAccounted, PipeTypeOK
    <2>1. ASSUME NEW s \in Senders, SendCount(s) PROVE DepthAccounted'
      <3>1. Cardinality(Counted') = Cardinality(Counted) + 1
        BY <2>1, CountedStep DEF SendCount
      <3> QED
        BY <2>0, <2>1, <3>1 DEF SendCount, DepthAccounted
    <2>2. ASSUME NEW s \in Senders, SendPush(s) PROVE DepthAccounted'
      <3>1. Cardinality(Counted') = Cardinality(Counted) - 1
        BY <2>2, CountedStep DEF SendPush
      <3>2. Len(queue') = Len(queue) + 1
        BY <2>2 DEF SendPush, PipeTypeOK
      <3> QED
        BY <2>0, <2>2, <3>1, <3>2 DEF SendPush, DepthAccounted
    <2>3. ASSUME NEW s \in Senders, SendRefused(s) PROVE DepthAccounted'
      <3>1. Counted' = Counted
        BY <2>3 DEF SendRefused, Counted, PipeTypeOK
      <3> QED
        BY <2>0, <2>3, <3>1 DEF SendRefused, DepthAccounted
    <2>4. ASSUME NEW s \in Senders, SendUndo(s) PROVE DepthAccounted'
      <3>1. Cardinality(Counted') = Cardinality(Counted) - 1
        BY <2>4, CountedStep DEF SendUndo
      <3> QED
        BY <2>0, <2>4, <3>1 DEF SendUndo, UndoCount, DepthAccounted
    <2>5. ASSUME NEW r \in Receivers, RecvPop(r) PROVE DepthAccounted'
      <3>1. Counted' = Counted
        BY <2>5 DEF RecvPop, Counted
      <3>2. Len(queue') = Len(queue) - 1
        BY <2>5 DEF RecvPop, PipeTypeOK
      <3>3. holder = None /\ holder' # None
        BY <2>5, PipeAssumption DEF RecvPop
      <3> QED
        BY <2>0, <2>5, <3>1, <3>2, <3>3 DEF RecvPop, DepthAccounted
    <2>6. ASSUME NEW r \in Receivers, RecvCount(r) PROVE DepthAccounted'
      <3>1. Counted' = Counted
        BY <2>6 DEF RecvCount, Counted
      <3>2. holder # None /\ holder' = None
        BY <2>6, PipeAssumption DEF RecvCount
      <3> QED
        BY <2>0, <2>6, <3>1, <3>2 DEF RecvCount, DepthAccounted
    <2>7. CASE DropReceiver
      BY <2>7 DEF DropReceiver
    <2>8. CASE UNCHANGED pipeVars
      BY <2>0, <2>8 DEF pipeVars, Counted
    <2> QED
      BY <2>1, <2>2, <2>3, <2>4, <2>5, <2>6, <2>7, <2>8 DEF PipeNext, DepthAccounted
  <1> QED
    BY <1>1, <1>2, PipeTypeCorrect, PTL DEF PipeSpec

-----------------------------------------------------------------------------
(* A route under a hot update: any capacity, any number of packets, a      *)
(* source that stays or is replaced, a drain that ends or gives up.        *)

Way == {"old", "new"}
Packet == Way \X (1..EndNumber)
MaybePacket == Packet \cup {Nothing}
SourceState == [at : {"idle", "send", "ended", "cut"}, n : 0..EndNumber, via : Way]
NodeState == [at : {"recv", "send", "ended", "absent"}, held : MaybePacket]
After == {"drain", "retry", "ok", "failed"}      \* the new worker has been spawned

RouteTypeOK ==
    /\ stays \in BOOLEAN /\ keeps \in BOOLEAN
    /\ source \in SourceState
    /\ pipes \in [Way -> Seq(Packet)]
    /\ node \in [Way -> NodeState]
    /\ update \in {"none", "quiesced", "switch", "spawn"} \cup After
    /\ hand \in MaybePacket
    /\ dropped \in SUBSET Packet
    /\ got \in Seq(Packet)

\* Which worker runs when, who holds a packet, and where the source may be.
RouteStages ==
    /\ source.at = "idle" => source.n < EndNumber
    /\ source.at = "send" => source.n > 0
    /\ \A p \in Way : (node[p].held = Nothing) <=> (node[p].at # "send")
    /\ node["old"].at # "ended" => update \in {"none", "quiesced"}
    /\ node["new"].at # "absent" => update \in After
    /\ hand # Nothing => update \in {"drain", "retry"}
    /\ ~Switched => source.via = "old" /\ pipes["new"] = <<>>
    /\ ~stays /\ update \in {"switch", "spawn"} => source.at = "ended" /\ source.via = "old"
    /\ ~stays /\ update \in After => source.via = "new"
    /\ update = "ok" => ~(source.at = "send" /\ source.via = "old")
    /\ source.at = "cut" => update = "failed"
    /\ dropped # {} => node["old"].at = "ended" /\ (\E d \in Packet : dropped = {d})

\* Only old packets lie behind the new pipe, a source that has not seen the
\* switch has sent no others, and it has sent no number above its own; the
\* numbers of a source that stays go on rising over the switch.
LineBounds ==
    /\ \A i \in 1..Len(pipes["old"]) : pipes["old"][i][1] = "old"
    /\ hand # Nothing => hand[1] = "old"
    /\ source.via = "old" => \A i \in 1..Len(Line) : Line[i][1] = "old"
    /\ \A i \in 1..Len(Line) : (stays \/ Line[i][1] = source.via) =>
           Line[i][2] <= source.n /\ (source.at \in {"send", "cut"} => Line[i][2] < source.n)

OldFits == Len(pipes["old"]) <= RouteCapacity

OldBeforeNew ==
    stays => \A i, j \in 1..Len(Line) : Line[i][1] = "old" /\ Line[j][1] = "new" => Line[i][2] < Line[j][2]

NoneLost == update # "failed" => Put \subseteq NumbersUpTo(Len(Line)) \cup Given

RouteInv == /\ RouteTypeOK /\ RouteStages /\ LineBounds /\ OldFits /\ MovedOnceInOrder /\ OldBeforeNew
            /\ NoneLost /\ FewAreOvertaken /\ EndComesLast

-----------------------------------------------------------------------------
(* Moving a packet along a concatenation *)

\* t is s with x at place k more.
Inserted(s, t, k, x) ==
    /\ Len(t) = Len(s) + 1 /\ k \in 1..Len(t) /\ t[k] = x
    /\ \A i \in 1..Len(s) : (i < k => t[i] = s[i]) /\ (i >= k => t[i + 1] = s[i])

\* A sequence is its head followed by its tail, wherever it stands.
LEMMA HeadMoves ==
  ASSUME NEW S, NEW a \in Seq(S), NEW b \in Seq(S), b # <<>>
  PROVE  /\ (a \o <<Head(b)>>) \o Tail(b) = a \o b
         /\ Append(a, Head(b)) \o Tail(b) = a \o b
         /\ Head(b) \in S /\ Tail(b) \in Seq(S)
  <1> DEFINE x == Head(b)
             c == Tail(b)
  <1>1. x \in S /\ c \in Seq(S) /\ <<x>> \in Seq(S)
    BY HeadTailProperties
  <1>2. Len(<<x>> \o c) = Len(b) /\ <<x>> \o c \in Seq(S)
    BY <1>1, ConcatProperties, HeadTailProperties, LenProperties
  <1>3. ASSUME NEW i \in 1..Len(b) PROVE (<<x>> \o c)[i] = b[i]
    BY <1>1, HeadTailProperties, LenProperties
  <1>4. <<x>> \o c = b
    BY <1>2, <1>3, SeqEqual
  <1>5. Append(a, x) = a \o <<x>>
    BY <1>1, AppendIsConcat
  <1> HIDE DEF x, c
  <1>6. (a \o <<x>>) \o c = a \o (<<x>> \o c)
    BY <1>1, ConcatAssociative
  <1> QED BY <1>1, <1>4, <1>5, <1>6 DEF x, c

\* A packet is put at the end of a part.
LEMMA EndMoves ==
  ASSUME NEW S, NEW a \in Seq(S), NEW b \in Seq(S), NEW x \in S
  PROVE  a \o Append(b, x) = (a \o b) \o <<x>> /\ Append(b, x) \in Seq(S)
  <1>1. <<x>> \in Seq(S) /\ Append(b, x) = b \o <<x>> /\ Append(b, x) \in Seq(S)
    BY AppendIsConcat, AppendProperties
  <1>2. a \o (b \o <<x>>) = (a \o b) \o <<x>>
    BY <1>1, ConcatAssociative
  <1> QED BY <1>1, <1>2

\* What a packet put between two parts does to their indices.
LEMMA Insertion ==
  ASSUME NEW S, NEW a \in Seq(S), NEW b \in Seq(S), NEW x \in S
  PROVE  Inserted(a \o b, (a \o <<x>>) \o b, Len(a) + 1, x)
  <1>1. <<x>> \in Seq(S) /\ Len(<<x>>) = 1 /\ <<x>>[1] = x
    OBVIOUS
  <1>2. /\ a \o <<x>> \in Seq(S) /\ Len(a \o <<x>>) = Len(a) + 1
        /\ \A i \in 1..Len(a) : (a \o <<x>>)[i] = a[i]
        /\ (a \o <<x>>)[Len(a) + 1] = x
    BY <1>1, ConcatProperties, LenProperties
  <1> DEFINE ax == a \o <<x>>
  <1> HIDE DEF ax
  <1>3. /\ Len(ax) = Len(a) + 1 /\ ax \in Seq(S) /\ \A i \in 1..Len(a) : ax[i] = a[i]
        /\ ax[Len(a) + 1] = x
    BY <1>2 DEF ax
  <1>4. /\ Len(a \o b) = Len(a) + Len(b)
        /\ \A i \in 1..Len(a) + Len(b) : (a \o b)[i] = IF i <= Len(a) THEN a[i] ELSE b[i - Len(a)]
    BY ConcatProperties
  <1>5. /\ Len(ax \o b) = Len(ax) + Len(b)
        /\ \A i \in 1..Len(ax) + Len(b) : (ax \o b)[i] = IF i <= Len(ax) THEN ax[i] ELSE b[i - Len(ax)]
    BY <1>3, ConcatProperties
  <1>6. Len(a) \in Nat /\ Len(b) \in Nat
    BY LenProperties
  <1>7. Inserted(a \o b, ax \o b, Len(a) + 1, x)
    BY <1>3, <1>4, <1>5, <1>6 DEF Inserted
  <1> QED BY <1>7 DEF ax

-----------------------------------------------------------------------------
(* The line of packets, action by action *)

\* A place that is empty or holds one packet is a sequence of packets.
LEMMA OneIsSeq ==
  ASSUME NEW p \in MaybePacket
  PROVE  One(p) \in Seq(Packet) /\ One(Nothing) = <<>> /\ (p # Nothing => One(p) = <<p>> /\ p \in Packet)
  <1>1. CASE p = Nothing
    BY <1>1, EmptySeq DEF One
  <1>2. CASE p # Nothing
    <2>1. p \in Packet
      BY <1>2 DEF MaybePacket
    <2>2. <<p>> \in Seq(Packet)
      BY <2>1
    <2> QED BY <1>2, <2>1, <2>2 DEF One
  <1> QED BY <1>1, <1>2

Processed == got \o One(node["old"].held) \o One(node["new"].held)
Front2 == Processed \o pipes["new"]

\* The line and its parts are sequences of packets.
LEMMA LineTypes ==
  ASSUME RouteTypeOK
  PROVE  /\ got \in Seq(Packet) /\ pipes["old"] \in Seq(Packet) /\ pipes["new"] \in Seq(Packet)
         /\ node["old"].held \in MaybePacket /\ node["new"].held \in MaybePacket /\ hand \in MaybePacket
         /\ One(node["old"].held) \in Seq(Packet) /\ One(node["new"].held) \in Seq(Packet)
         /\ One(hand) \in Seq(Packet)
         /\ got \o One(node["old"].held) \in Seq(Packet)
         /\ Processed \in Seq(Packet) /\ Front2 \in Seq(Packet)
         /\ Front2 \o One(hand) \in Seq(Packet)
         /\ Line = (Front2 \o One(hand)) \o pipes["old"]
         /\ Line \in Seq(Packet)
  <1>1. /\ got \in Seq(Packet) /\ pipes["old"] \in Seq(Packet) /\ pipes["new"] \in Seq(Packet)
        /\ node["old"].held \in MaybePacket /\ node["new"].held \in MaybePacket /\ hand \in MaybePacket
    BY DEF RouteTypeOK, Way, NodeState
  <1>2. /\ One(node["old"].held) \in Seq(Packet) /\ One(node["new"].held) \in Seq(Packet)
        /\ One(hand) \in Seq(Packet)
    BY <1>1, OneIsSeq
  <1>3. got \o One(node["old"].held) \in Seq(Packet)
    BY <1>1, <1>2, ConcatProperties
  <1>4. Processed \in Seq(Packet)
    BY <1>2, <1>3, ConcatProperties DEF Processed
  <1>5. Front2 \in Seq(Packet)
    BY <1>1, <1>4, ConcatProperties DEF Front2
  <1>6. Front2 \o One(hand) \in Seq(Packet)
    BY <1>2, <1>5, ConcatProperties
  <1>7. Line = (Front2 \o One(hand)) \o pipes["old"]
    BY DEF Line, Front2, Processed
  <1>8. Line \in Seq(Packet)
    BY <1>1, <1>6, <1>7, ConcatProperties
  <1> QED BY <1>1, <1>2, <1>3, <1>4, <1>5, <1>6, <1>7, <1>8

\* Until the routes are switched the line is the old worker's.
LEMMA LineBefore ==
  ASSUME RouteTypeOK, RouteStages, ~Switched
  PROVE  Line = (got \o One(node["old"].held)) \o pipes["old"] /\ One(hand) = <<>>
         /\ pipes["new"] = <<>> /\ One(node["new"].held) = <<>>
  <1>1. pipes["new"] = <<>> /\ hand = Nothing /\ node["new"].held = Nothing
    BY DEF RouteStages, Switched, After, Way, RouteTypeOK
  <1>2. One(hand) = <<>> /\ One(node["new"].held) = <<>>
    BY <1>1 DEF One
  <1> QED BY <1>1, <1>2, LineTypes, ConcatEmptySeq DEF Line

\* Once the new worker may run, the old one holds nothing.
LEMMA LineAfter ==
  ASSUME RouteTypeOK, RouteStages, Switched
  PROVE  node["old"].held = Nothing /\ One(node["old"].held) = <<>>
         /\ Processed = got \o One(node["new"].held)
  <1>1. node["old"].held = Nothing
    BY DEF RouteStages, Switched, Way
  <1>2. One(node["old"].held) = <<>>
    BY <1>1 DEF One
  <1> QED BY <1>1, <1>2, LineTypes, ConcatEmptySeq DEF Processed

\* A worker takes a packet: it stays where it was in the line.
LEMMA TakeKeepsLine ==
  ASSUME RouteTypeOK, RouteStages, NEW p \in Way, Take(p)
  PROVE  Line' = Line
  <1> DEFINE x == Head(pipes[p])
  <1>1. /\ pipes[p] \in Seq(Packet) /\ pipes[p] # <<>> /\ x \in Packet /\ x # Nothing
        /\ Tail(pipes[p]) \in Seq(Packet)
    <2>1. pipes[p] \in Seq(Packet) /\ pipes[p] # <<>>
      BY LineTypes DEF Take, Way
    <2>2. x \in Packet /\ Tail(pipes[p]) \in Seq(Packet)
      BY <2>1, HeadTailProperties
    <2> QED BY <2>1, <2>2 DEF Packet, Nothing, Way
  <1>2. \/ got' = Append(got, x) /\ node'[p].held = Nothing
        \/ got' = got /\ node'[p].held = x
    BY DEF Take, RouteTypeOK
  <1>3. /\ hand' = hand /\ pipes' = [pipes EXCEPT ![p] = Tail(pipes[p])]
        /\ \A q \in Way : q # p => node'[q] = node[q]
    BY DEF Take, RouteTypeOK
  <1>4. node[p].held = Nothing
    BY DEF Take, RouteStages
  <1>8. (got \o <<x>>) \o Tail(pipes[p]) = got \o pipes[p]
    <2>1. got \in Seq(Packet)
      BY LineTypes
    <2> QED BY <1>1, <2>1, HeadMoves
  <1> HIDE DEF x
  <1>5. got' \o One(node'[p].held) = got \o <<x>>
    <2>1. got \in Seq(Packet) /\ <<x>> \in Seq(Packet)
      BY <1>1, LineTypes
    <2>2. CASE got' = Append(got, x) /\ node'[p].held = Nothing
      BY <1>1, <2>1, <2>2, AppendIsConcat, AppendProperties, ConcatEmptySeq DEF One
    <2>3. CASE got' = got /\ node'[p].held = x
      BY <1>1, <2>3 DEF One
    <2> QED BY <1>2, <2>2, <2>3
  <1>6. CASE p = "old"
    <2>1. ~Switched /\ One(node["old"].held) = <<>>
      BY <1>4, <1>6 DEF Take, RouteStages, Switched, One
    <2>2. Line = got \o pipes["old"] /\ One(hand) = <<>> /\ pipes["new"] = <<>> /\ One(node["new"].held) = <<>>
      BY <2>1, LineBefore, LineTypes, ConcatEmptySeq
    <2>3. /\ One(hand)' = <<>> /\ pipes'["new"] = <<>> /\ One(node'["new"].held) = <<>>
          /\ pipes'["old"] = Tail(pipes["old"])
      BY <1>3, <1>6, <2>2 DEF One, Way, RouteTypeOK
    <2>4. <<x>> \in Seq(Packet) /\ got \o <<x>> \in Seq(Packet)
      BY <1>1, LineTypes, ConcatProperties
    <2>5. Line' = (got \o <<x>>) \o Tail(pipes["old"])
      BY <1>5, <1>6, <2>3, <2>4, ConcatEmptySeq DEF Line
    <2> QED BY <1>6, <1>8, <2>2, <2>5
  <1>7. CASE p = "new"
    <2>1. Switched /\ One(node["new"].held) = <<>>
      BY <1>4, <1>7 DEF Take, RouteStages, Switched, One, After
    <2>2. Processed = got /\ One(node["old"].held) = <<>> /\ node["old"].held = Nothing
      BY <2>1, LineAfter, LineTypes, ConcatEmptySeq
    <2>3. /\ One(node'["old"].held) = <<>> /\ One(hand)' = One(hand) /\ pipes'["old"] = pipes["old"]
          /\ pipes'["new"] = Tail(pipes["new"])
      BY <1>3, <1>7, <2>2 DEF One, Way, RouteTypeOK
    <2>4. <<x>> \in Seq(Packet) /\ got \o <<x>> \in Seq(Packet)
      BY <1>1, LineTypes, ConcatProperties
    <2>5. got' \in Seq(Packet)
      BY <1>1, <1>2, LineTypes, AppendProperties
    <2>6. Processed' = got \o <<x>>
      BY <1>5, <1>7, <2>3, <2>5, ConcatEmptySeq DEF Processed
    <2>7. Front2' = (got \o <<x>>) \o Tail(pipes["new"])
      BY <2>3, <2>6 DEF Front2
    <2>8. Front2' = Front2
      BY <1>7, <1>8, <2>2, <2>7 DEF Front2
    <2>9. Line' = (Front2' \o One(hand)') \o pipes'["old"]
      BY DEF Line, Front2, Processed
    <2> QED BY <2>3, <2>8, <2>9, LineTypes
  <1> QED BY <1>6, <1>7 DEF Way

\* A worker sends on what it holds.
LEMMA SendOnKeepsLine ==
  ASSUME RouteTypeOK, RouteStages, NEW p \in Way, SendOn(p), ~(p = "old" /\ update = "quiesced")
  PROVE  Line' = Line
  <1> DEFINE x == node[p].held
  <1>1. /\ x \in Packet /\ x # Nothing /\ One(x) = <<x>> /\ <<x>> \in Seq(Packet)
        /\ got \in Seq(Packet)
    <2>1. x \in MaybePacket /\ x # Nothing /\ got \in Seq(Packet)
      BY LineTypes DEF SendOn, RouteStages, Way
    <2> QED BY <2>1, OneIsSeq
  <1>2. /\ got' = Append(got, x) /\ node' = [node EXCEPT ![p] = Idle]
        /\ hand' = hand /\ pipes' = pipes
    BY DEF SendOn
  <1>3. One(Idle.held) = <<>>
    BY DEF Idle, One
  <1>4. got' \in Seq(Packet) /\ got' = got \o <<x>>
    BY <1>1, <1>2, AppendIsConcat, AppendProperties
  <1> HIDE DEF x
  <1>5. Processed' = Processed
    <2>1. CASE p = "old"
      <3>1. One(node["old"].held) = <<x>>
        BY <1>1, <2>1 DEF x
      <3>2. One(node'["old"].held) = <<>> /\ One(node'["new"].held) = One(node["new"].held)
        BY <1>2, <1>3, <2>1 DEF RouteTypeOK, Way
      <3>3. got' \o <<>> = got'
        BY <1>4, ConcatEmptySeq
      <3> QED BY <1>4, <3>1, <3>2, <3>3 DEF Processed
    <2>2. CASE p = "new"
      <3>1. One(node["new"].held) = <<x>> /\ Switched
        BY <1>1, <2>2 DEF x, SendOn, RouteStages, After, Switched
      <3>2. Processed = got \o <<x>> /\ One(node["old"].held) = <<>>
        BY <3>1, LineAfter
      <3>3. One(node'["new"].held) = <<>> /\ One(node'["old"].held) = One(node["old"].held)
        BY <1>2, <1>3, <2>2 DEF RouteTypeOK, Way
      <3>4. got' \o <<>> = got'
        BY <1>4, ConcatEmptySeq
      <3> QED BY <1>4, <3>2, <3>3, <3>4 DEF Processed
    <2> QED BY <2>1, <2>2 DEF Way
  <1>6. Line' = ((Processed' \o pipes'["new"]) \o One(hand)') \o pipes'["old"]
    BY DEF Line, Processed
  <1>7. One(hand)' = One(hand)
    BY <1>2 DEF One
  <1> QED BY <1>2, <1>5, <1>6, <1>7, LineTypes DEF Front2

\* A worker that sees the stop flag gives up what it holds, and nothing else.
LEMMA SendOnDrops ==
  ASSUME RouteTypeOK, RouteStages, NEW p \in Way, SendOn(p), p = "old" /\ update = "quiesced"
  PROVE  /\ \E k \in Nat : Inserted(Line', Line, k, node["old"].held)
         /\ Line' \in Seq(Packet)
         /\ node["old"].held \in Packet /\ dropped' = {node["old"].held}
  <1> DEFINE x == node["old"].held
  <1>1. /\ x \in Packet /\ x # Nothing /\ One(x) = <<x>> /\ <<x>> \in Seq(Packet)
        /\ got \in Seq(Packet) /\ pipes["old"] \in Seq(Packet)
    <2>1. x \in MaybePacket /\ x # Nothing /\ got \in Seq(Packet) /\ pipes["old"] \in Seq(Packet)
      BY LineTypes DEF SendOn, RouteStages, Way
    <2> QED BY <2>1, OneIsSeq
  <1>2. dropped = {}
    BY DEF SendOn, RouteStages, Way
  <1>3. /\ got' = got /\ hand' = hand /\ pipes' = pipes /\ dropped' = {x}
        /\ node' = [node EXCEPT !["old"] = [at |-> "ended", held |-> Nothing]]
    BY <1>2 DEF SendOn
  <1>4. /\ Line = (got \o <<x>>) \o pipes["old"] /\ One(hand) = <<>> /\ pipes["new"] = <<>>
        /\ One(node["new"].held) = <<>>
    BY <1>1, LineBefore DEF Switched
  <1>5. One(node'["old"].held) = <<>> /\ One(node'["new"].held) = <<>> /\ One(hand)' = <<>>
    BY <1>3, <1>4 DEF RouteTypeOK, Way, One
  <1> HIDE DEF x
  <1>6. Line' = got \o pipes["old"]
    <2>1. got \o <<>> = got
      BY <1>1, ConcatEmptySeq
    <2>2. pipes'["new"] = <<>> /\ pipes'["old"] = pipes["old"] /\ got' = got
      BY <1>3, <1>4
    <2> QED BY <1>5, <2>1, <2>2 DEF Line
  <1>7. Inserted(got \o pipes["old"], (got \o <<x>>) \o pipes["old"], Len(got) + 1, x)
    BY <1>1, Insertion
  <1>8. Len(got) + 1 \in Nat /\ got \o pipes["old"] \in Seq(Packet)
    BY <1>1, LenProperties, ConcatProperties
  <1> QED BY <1>1, <1>3, <1>4, <1>6, <1>7, <1>8 DEF x

\* The drain takes a packet out of the old pipe and puts it into the new one.
LEMMA DrainKeepsLine ==
  ASSUME RouteTypeOK, DrainTakes \/ DrainPuts
  PROVE  Line' = Line
  <1>1. CASE DrainTakes
    <2> DEFINE b == pipes["old"]
    <2>1. b \in Seq(Packet) /\ b # <<>> /\ One(hand) = <<>>
      BY <1>1, LineTypes DEF DrainTakes, One
    <2>2. Head(b) \in Packet /\ Head(b) # Nothing
      BY <2>1, HeadTailProperties DEF Packet, Nothing, Way
    <2>3. One(hand)' = <<Head(b)>> /\ pipes'["old"] = Tail(b) /\ pipes'["new"] = pipes["new"]
      BY <1>1, <2>2 DEF DrainTakes, One, RouteTypeOK, Way
    <2>4. Front2' = Front2 /\ Front2 \in Seq(Packet)
      BY <1>1, <2>3, LineTypes DEF DrainTakes, Front2, Processed, One
    <2>5. (Front2 \o <<Head(b)>>) \o Tail(b) = Front2 \o b
      BY <2>1, <2>4, HeadMoves
    <2>6. Line' = (Front2' \o One(hand)') \o pipes'["old"]
      BY DEF Line, Front2, Processed
    <2>7. Line = Front2 \o b
      BY <2>1, <2>4, LineTypes, ConcatEmptySeq
    <2> QED BY <2>3, <2>4, <2>5, <2>6, <2>7
  <1>2. CASE DrainPuts
    <2>1. CASE Room("new")
      <3>1. hand \in Packet /\ One(hand) = <<hand>>
        BY <1>2, OneIsSeq, LineTypes DEF DrainPuts
      <3>2. /\ One(hand)' = <<>> /\ pipes'["old"] = pipes["old"]
            /\ pipes'["new"] = Append(pipes["new"], hand)
        BY <1>2, <2>1 DEF DrainPuts, One, RouteTypeOK, Way
      <3>3. Processed' = Processed
        BY <1>2 DEF DrainPuts, Processed, One
      <3>4. /\ Processed \o Append(pipes["new"], hand) = (Processed \o pipes["new"]) \o <<hand>>
            /\ Append(pipes["new"], hand) \in Seq(Packet)
        BY <3>1, LineTypes, EndMoves
      <3>5. Front2' = Front2 \o <<hand>> /\ Front2' \in Seq(Packet)
        BY <3>1, <3>2, <3>3, <3>4, LineTypes, ConcatProperties DEF Front2
      <3>6. Line' = (Front2' \o One(hand)') \o pipes'["old"]
        BY DEF Line, Front2, Processed
      <3>7. Front2' \o <<>> = Front2'
        BY <3>5, ConcatEmptySeq
      <3> QED BY <3>1, <3>2, <3>5, <3>6, <3>7, LineTypes
    <2>2. CASE ~Room("new")
      BY <1>2, <2>2 DEF DrainPuts, Line, One
    <2> QED BY <2>1, <2>2
  <1> QED BY <1>1, <1>2

\* The drain gives up: the end of the line is lost.
LEMMA GivingUpCuts ==
  ASSUME RouteTypeOK, DrainGivesUp
  PROVE  /\ Line' \in Seq(Packet) /\ Len(Line') <= Len(Line)
         /\ \A i \in 1..Len(Line') : Line'[i] = Line[i]
         /\ pipes'["old"] = <<>>
  <1>1. One(hand)' = <<>> /\ pipes'["old"] = <<>> /\ pipes'["new"] = pipes["new"]
    BY DEF DrainGivesUp, One, RouteTypeOK, Way
  <1>2. Front2' = Front2 /\ Front2 \in Seq(Packet)
    BY <1>1, LineTypes DEF DrainGivesUp, Front2, Processed, One
  <1>3. Line' = (Front2' \o One(hand)') \o pipes'["old"]
    BY DEF Line, Front2, Processed
  <1>4. Line' = Front2
    BY <1>1, <1>2, <1>3, ConcatEmptySeq
  <1> DEFINE c == One(hand)
             d == pipes["old"]
             e == Front2 \o c
  <1>5. c \in Seq(Packet) /\ d \in Seq(Packet) /\ e \in Seq(Packet) /\ Line = e \o d
    BY LineTypes
  <1>6. Len(e) = Len(Front2) + Len(c) /\ \A i \in 1..Len(Front2) : e[i] = Front2[i]
    BY <1>2, <1>5, ConcatProperties, LenProperties
  <1> HIDE DEF c, d, e
  <1>7. Len(Line) = Len(e) + Len(d) /\ \A i \in 1..Len(e) : Line[i] = e[i]
    BY <1>5, ConcatProperties, LenProperties
  <1>8. Len(Front2) \in Nat /\ Len(c) \in Nat /\ Len(d) \in Nat /\ Len(e) \in Nat
    BY <1>2, <1>5, LenProperties
  <1>9. \A i \in 1..Len(Front2) : i \in 1..Len(e)
    BY <1>6, <1>8
  <1> QED BY <1>1, <1>2, <1>4, <1>6, <1>7, <1>8, <1>9

\* How many packets lie behind a place, one of which may be in the drain's hand.
LEMMA BehindArithmetic ==
  ASSUME NEW f \in Nat, NEW o \in Nat, NEW h \in {0, 1}, NEW l, l = f + (h + o)
  PROVE  f + 1 \in Nat /\ l + 1 - (f + 1) <= o + 1
  OBVIOUS

\* The source sends: behind everything, or in front of what the drain has left.
LEMMA SendInserts ==
  ASSUME RouteTypeOK, RouteStages, LineBounds, SourceSends
  PROVE  /\ <<source.via, source.n>> \in Packet /\ Line' \in Seq(Packet)
         /\ \E k \in Nat : /\ Inserted(Line, Line', k, <<source.via, source.n>>)
                           /\ \A m \in k..Len(Line) : Line[m][1] # source.via
                           /\ source.via = "old" => k = Len(Line) + 1
                           /\ Len(Line) + 1 - k <= Len(pipes["old"]) + 1
  <1> DEFINE x == <<source.via, source.n>>
             b == One(hand) \o pipes["old"]
  <1>1. x \in Packet
    <2>1. source.via \in Way /\ source.n \in 0..EndNumber
      BY DEF RouteTypeOK, SourceState
    <2>2. source.n # 0
      BY DEF RouteStages, SourceSends
    <2> QED BY <2>1, <2>2, RouteAssumption DEF Packet, EndNumber
  <1>2. /\ pipes' = [pipes EXCEPT ![source.via] = Append(@, x)] /\ UNCHANGED <<node, hand, got>>
    BY DEF SourceSends
  <1>3. Processed' = Processed /\ One(hand)' = One(hand)
    BY <1>2 DEF Processed, One
  <1>4. /\ Line \in Seq(Packet) /\ Front2 \in Seq(Packet) /\ b \in Seq(Packet) /\ Line = Front2 \o b
        /\ pipes["old"] \in Seq(Packet) /\ pipes["new"] \in Seq(Packet) /\ One(hand) \in Seq(Packet)
        /\ Front2 \o One(hand) \in Seq(Packet) /\ Processed \in Seq(Packet)
    <2> DEFINE h == One(hand)
               o == pipes["old"]
               f == Front2
    <2>1. /\ h \in Seq(Packet) /\ o \in Seq(Packet) /\ f \in Seq(Packet) /\ Line = (f \o h) \o o
          /\ Line \in Seq(Packet) /\ f \o h \in Seq(Packet) /\ Processed \in Seq(Packet)
          /\ pipes["new"] \in Seq(Packet)
      BY LineTypes
    <2> HIDE DEF h, o, f
    <2>2. h \o o \in Seq(Packet) /\ (f \o h) \o o = f \o (h \o o)
      BY <2>1, ConcatProperties, ConcatAssociative
    <2> QED BY <2>1, <2>2 DEF h, o, f
  <1>5. Line' = ((Processed' \o pipes'["new"]) \o One(hand)') \o pipes'["old"]
    BY DEF Line, Processed
  <1>6. CASE source.via = "old"
    <2>1. pipes'["new"] = pipes["new"] /\ pipes'["old"] = Append(pipes["old"], x)
      BY <1>2, <1>6 DEF RouteTypeOK, Way
    <2>2. Line' = (Front2 \o One(hand)) \o Append(pipes["old"], x)
      BY <1>3, <1>5, <2>1 DEF Front2
    <2> HIDE DEF x, b
    <2>3. Line' = Line \o <<x>>
      <3> DEFINE g == Front2 \o One(hand)
                 o == pipes["old"]
      <3>1. g \in Seq(Packet) /\ o \in Seq(Packet) /\ Line = g \o o /\ Line' = g \o Append(o, x)
        BY <1>4, <2>2, LineTypes
      <3> HIDE DEF g, o
      <3> QED BY <1>1, <3>1, EndMoves
    <2>4. <<x>> \in Seq(Packet) /\ Line \o <<x>> \in Seq(Packet)
      BY <1>1, <1>4, ConcatProperties
    <2>5. <<>> \in Seq(Packet) /\ Line \o <<>> = Line /\ (Line \o <<x>>) \o <<>> = Line \o <<x>>
      BY <1>4, <2>4, ConcatEmptySeq, EmptySeq
    <2>6. Inserted(Line \o <<>>, (Line \o <<x>>) \o <<>>, Len(Line) + 1, x)
      BY <1>1, <1>4, <2>5, Insertion
    <2>7. /\ Len(Line) + 1 \in Nat /\ (Len(Line) + 1)..Len(Line) = {}
          /\ Len(Line) + 1 - (Len(Line) + 1) <= Len(pipes["old"]) + 1
      <3>1. Len(Line) \in Nat /\ Len(pipes["old"]) \in Nat
        BY <1>4, LenProperties
      <3> QED BY <3>1
    <2> QED BY <1>1, <2>3, <2>4, <2>5, <2>6, <2>7 DEF x
  <1>7. CASE source.via = "new"
    <2>1. pipes'["old"] = pipes["old"] /\ pipes'["new"] = Append(pipes["new"], x)
      BY <1>2, <1>7 DEF RouteTypeOK, Way
    <2>2. Line' = ((Processed \o Append(pipes["new"], x)) \o One(hand)) \o pipes["old"]
      BY <1>3, <1>5, <2>1
    <2> HIDE DEF x
    <2>3. Processed \o Append(pipes["new"], x) = Front2 \o <<x>>
      BY <1>1, <1>4, EndMoves DEF Front2
    <2>4. <<x>> \in Seq(Packet) /\ Front2 \o <<x>> \in Seq(Packet)
      BY <1>1, <1>4, ConcatProperties
    <2>5. Line' = (Front2 \o <<x>>) \o b /\ (Front2 \o <<x>>) \o b \in Seq(Packet)
      <3> DEFINE h == One(hand)
                 o == pipes["old"]
                 f == Front2 \o <<x>>
      <3>1. h \in Seq(Packet) /\ o \in Seq(Packet) /\ f \in Seq(Packet) /\ Line' = (f \o h) \o o
        BY <1>4, <2>2, <2>3, <2>4
      <3> HIDE DEF h, o, f
      <3>2. h \o o \in Seq(Packet) /\ (f \o h) \o o = f \o (h \o o) /\ f \o (h \o o) \in Seq(Packet)
        BY <3>1, ConcatProperties, ConcatAssociative
      <3> QED BY <3>1, <3>2 DEF h, o, f
    <2>6. Inserted(Front2 \o b, (Front2 \o <<x>>) \o b, Len(Front2) + 1, x)
      BY <1>1, <1>4, Insertion
    <2>7. \A i \in 1..Len(b) : b[i][1] = "old"
      <3>1. \A i \in 1..Len(One(hand)) : One(hand)[i][1] = "old"
        BY DEF LineBounds, One
      <3>2. \A i \in 1..Len(pipes["old"]) : pipes["old"][i][1] = "old"
        BY DEF LineBounds
      <3>3. Len(One(hand)) \in Nat /\ Len(pipes["old"]) \in Nat
        BY <1>4, LenProperties
      <3>4. /\ Len(b) = Len(One(hand)) + Len(pipes["old"])
            /\ \A i \in 1..Len(One(hand)) + Len(pipes["old"]) :
                 b[i] = IF i <= Len(One(hand)) THEN One(hand)[i] ELSE pipes["old"][i - Len(One(hand))]
        BY <1>4, ConcatProperties
      <3> HIDE DEF b
      <3> QED BY <3>1, <3>2, <3>3, <3>4
    <2> HIDE DEF b
    <2>8. \A m \in (Len(Front2) + 1)..Len(Line) : Line[m][1] = "old"
      <3>1. Len(Front2) \in Nat /\ Len(b) \in Nat
        BY <1>4, LenProperties
      <3>2. /\ Len(Line) = Len(Front2) + Len(b)
            /\ \A i \in 1..Len(Front2) + Len(b) : Line[i] = IF i <= Len(Front2) THEN Front2[i] ELSE b[i - Len(Front2)]
        BY <1>4, ConcatProperties
      <3> QED BY <2>7, <3>1, <3>2
    <2>9. Len(Front2) + 1 \in Nat /\ Len(Line) + 1 - (Len(Front2) + 1) <= Len(pipes["old"]) + 1
      <3>1. Len(One(hand)) \in {0, 1}
        BY DEF One
      <3>2. Len(Front2) \in Nat /\ Len(pipes["old"]) \in Nat
        BY <1>4, LenProperties
      <3>3. Len(b) = Len(One(hand)) + Len(pipes["old"])
        BY <1>4, ConcatProperties DEF b
      <3>4. Len(Line) = Len(Front2) + Len(b)
        BY <1>4, ConcatProperties
      <3>5. /\ Len(Front2) \in Nat /\ Len(pipes["old"]) \in Nat /\ Len(One(hand)) \in {0, 1}
            /\ Len(Line) = Len(Front2) + (Len(One(hand)) + Len(pipes["old"]))
        BY <3>1, <3>2, <3>3, <3>4
      <3> QED BY ONLY <3>5, BehindArithmetic
    <2> QED BY <1>1, <1>4, <1>7, <2>5, <2>6, <2>8, <2>9 DEF x
  <1> QED BY <1>6, <1>7 DEF RouteTypeOK, SourceState, Way

\* What a step does to the line: nothing, or one of three things.
LEMMA LineSteps ==
  ASSUME RouteTypeOK, RouteStages, [RouteNext]_routeVars
  PROVE  \/ Line' = Line /\ dropped' = dropped /\ (update = "failed" <=> update' = "failed")
         \/ SourceSends
         \/ SendOn("old") /\ update = "quiesced"
         \/ DrainGivesUp
  <1>1. CASE \/ SourceBegins \/ SourceQuits \/ SourceCut \/ NodeQuits
             \/ Quiesce \/ JoinAll \/ Switch \/ Spawn \/ DrainEnds \/ UNCHANGED routeVars
    <2>1. Line' = Line
      <3>1. /\ pipes' = pipes /\ got' = got /\ hand' = hand
            /\ node'["old"].held = node["old"].held
        BY <1>1 DEF SourceBegins, SourceQuits, SourceCut, NodeQuits, Quiesce, JoinAll, Switch,
                    Spawn, DrainEnds, routeVars, RouteTypeOK, Way, NodeState
      <3>2. node'["new"].held = node["new"].held
        <4>1. CASE Spawn
          <5>1. node["new"].held = Nothing /\ node'["new"] = Idle
            BY <4>1 DEF Spawn, RouteStages, RouteTypeOK, Way, After
          <5> QED BY <5>1 DEF Idle
        <4>2. CASE ~Spawn
          BY <1>1, <4>2 DEF SourceBegins, SourceQuits, SourceCut, NodeQuits, Quiesce, JoinAll, Switch,
                            DrainEnds, routeVars, RouteTypeOK, Way, NodeState
        <4> QED BY <4>1, <4>2
      <3> QED BY <3>1, <3>2 DEF Line, One
    <2> QED BY <1>1, <2>1 DEF SourceBegins, SourceQuits, SourceCut, NodeQuits, Quiesce, JoinAll,
                              Switch, Spawn, DrainEnds, routeVars
  <1>2. ASSUME NEW p \in Way, Take(p) PROVE Line' = Line /\ dropped' = dropped /\ update' = update
    BY <1>2, TakeKeepsLine DEF Take
  <1>3. ASSUME NEW p \in Way, SendOn(p)
        PROVE  \/ Line' = Line /\ dropped' = dropped /\ update' = update
               \/ SendOn("old") /\ update = "quiesced"
    <2>1. CASE p = "old" /\ update = "quiesced"
      BY <1>3, <2>1
    <2>2. CASE ~(p = "old" /\ update = "quiesced")
      BY <1>3, <2>2, SendOnKeepsLine DEF SendOn
    <2> QED BY <2>1, <2>2
  <1>4. CASE DrainTakes \/ DrainPuts
    BY <1>4, DrainKeepsLine DEF DrainTakes, DrainPuts
  <1> QED BY <1>1, <1>2, <1>3, <1>4 DEF RouteNext, Way

\* Every variable of the route keeps its type.
LEMMA RouteTypesStep ==
  ASSUME RouteTypeOK, RouteStages, LineBounds, [RouteNext]_routeVars
  PROVE  RouteTypeOK'
  <1>1. EndNumber \in Nat /\ EndNumber > 0
    BY RouteAssumption DEF EndNumber
  <1>2. Nothing \in MaybePacket /\ Packet \subseteq MaybePacket
    BY DEF MaybePacket
  <1>3. CASE SourceBegins
    <2>1. source.n + 1 \in 0..EndNumber
      BY <1>1, <1>3 DEF SourceBegins, RouteStages, RouteTypeOK, SourceState
    <2>2. source' \in SourceState
      BY <1>3, <2>1 DEF SourceBegins, SourceState, Way
    <2> QED BY <1>3, <2>2 DEF SourceBegins, RouteTypeOK
  <1>4. CASE SourceSends
    <2>1. <<source.via, source.n>> \in Packet /\ source.via \in Way
      BY <1>4, SendInserts DEF RouteTypeOK, SourceState
    <2>2. Append(pipes[source.via], <<source.via, source.n>>) \in Seq(Packet)
      BY <2>1, AppendProperties DEF RouteTypeOK
    <2>3. pipes' \in [Way -> Seq(Packet)]
      BY <1>4, <2>1, <2>2 DEF SourceSends, RouteTypeOK
    <2>4. source' \in SourceState
      BY <1>4 DEF SourceSends, RouteTypeOK, SourceState
    <2> QED BY <1>4, <2>3, <2>4 DEF SourceSends, RouteTypeOK
  <1>5. CASE SourceQuits \/ SourceCut
    <2>1. source' \in SourceState
      BY <1>5 DEF SourceQuits, SourceCut, RouteTypeOK, SourceState
    <2> QED BY <1>5, <2>1 DEF SourceQuits, SourceCut, RouteTypeOK
  <1>6. ASSUME NEW p \in Way, Take(p) PROVE RouteTypeOK'
    <2> DEFINE x == Head(pipes[p])
    <2>1. x \in Packet /\ Tail(pipes[p]) \in Seq(Packet)
      BY <1>6, HeadTailProperties DEF Take, RouteTypeOK
    <2>2. pipes' \in [Way -> Seq(Packet)]
      BY <1>6, <2>1 DEF Take, RouteTypeOK
    <2>3. \E a \in {"recv", "send", "ended"}, h \in {Nothing, x} :
             node' = [node EXCEPT ![p] = [at |-> a, held |-> h]]
      BY <1>6 DEF Take
    <2>4. got' = got \/ got' = Append(got, x)
      BY <1>6 DEF Take
    <2> HIDE DEF x
    <2>9. got \in Seq(Packet) /\ Append(got, x) \in Seq(Packet)
      BY <2>1, LineTypes, AppendProperties
    <2>5. got' \in Seq(Packet)
      BY <2>4, <2>9
    <2>6. PICK a \in {"recv", "send", "ended"}, h \in {Nothing, x} :
             node' = [node EXCEPT ![p] = [at |-> a, held |-> h]]
      BY <2>3
    <2>7. [at |-> a, held |-> h] \in NodeState
      BY <1>2, <2>1, <2>6 DEF NodeState
    <2>8. node' \in [Way -> NodeState]
      BY <2>6, <2>7 DEF RouteTypeOK
    <2> QED BY <1>6, <2>2, <2>5, <2>8 DEF Take, RouteTypeOK
  <1>7. ASSUME NEW p \in Way, SendOn(p) PROVE RouteTypeOK'
    <2>1. node[p].held \in Packet
      BY <1>7 DEF SendOn, RouteTypeOK, RouteStages, NodeState, MaybePacket
    <2>2. \/ got' = Append(got, node[p].held) /\ dropped' = dropped
          \/ got' = got /\ dropped' = dropped \cup {node[p].held}
      BY <1>7 DEF SendOn
    <2>6. got \in Seq(Packet) /\ Append(got, node[p].held) \in Seq(Packet)
      BY <2>1, LineTypes, AppendProperties
    <2>3. got' \in Seq(Packet) /\ dropped' \in SUBSET Packet
      BY <2>1, <2>2, <2>6 DEF RouteTypeOK
    <2>4. \E a \in {"recv", "ended"} : node' = [node EXCEPT ![p] = [at |-> a, held |-> Nothing]]
      BY <1>7 DEF SendOn, Idle
    <2>5. node' \in [Way -> NodeState]
      BY <1>2, <2>4 DEF RouteTypeOK, NodeState
    <2> QED BY <1>7, <2>3, <2>5 DEF SendOn, RouteTypeOK
  <1>8. CASE NodeQuits
    <2>1. node' \in [Way -> NodeState]
      BY <1>8 DEF NodeQuits, RouteTypeOK, NodeState, Way
    <2> QED BY <1>8, <2>1 DEF NodeQuits, RouteTypeOK
  <1>9. CASE Quiesce \/ JoinAll \/ Switch \/ DrainEnds
    BY <1>9 DEF Quiesce, JoinAll, Switch, DrainEnds, RouteTypeOK, After
  <1>10. CASE Spawn
    <2>1. Idle \in NodeState
      BY <1>2 DEF Idle, NodeState
    <2>2. node' \in [Way -> NodeState]
      BY <1>10, <2>1 DEF Spawn, RouteTypeOK
    <2>3. source' \in SourceState
      BY <1>1, <1>10 DEF Spawn, RouteTypeOK, SourceState, Way
    <2> QED BY <1>10, <2>2, <2>3 DEF Spawn, RouteTypeOK, After
  <1>11. CASE DrainTakes
    <2>1. Head(pipes["old"]) \in Packet /\ Tail(pipes["old"]) \in Seq(Packet)
      BY <1>11, HeadTailProperties DEF DrainTakes, RouteTypeOK, Way
    <2> QED BY <1>2, <1>11, <2>1 DEF DrainTakes, RouteTypeOK
  <1>12. CASE DrainPuts
    <2>1. hand \in Packet /\ Append(pipes["new"], hand) \in Seq(Packet)
      BY <1>12, AppendProperties DEF DrainPuts, RouteTypeOK, MaybePacket, Way
    <2>2. pipes' \in [Way -> Seq(Packet)] /\ hand' \in MaybePacket
      BY <1>2, <1>12, <2>1 DEF DrainPuts, RouteTypeOK
    <2> QED BY <1>12, <2>2 DEF DrainPuts, RouteTypeOK, After
  <1>13. CASE DrainGivesUp
    <2>1. <<>> \in Seq(Packet)
      BY EmptySeq
    <2> QED BY <1>2, <1>13, <2>1 DEF DrainGivesUp, RouteTypeOK, After
  <1>14. CASE UNCHANGED routeVars
    BY <1>14 DEF routeVars, RouteTypeOK
  <1> QED BY <1>3, <1>4, <1>5, <1>6, <1>7, <1>8, <1>9, <1>10, <1>11, <1>12, <1>13, <1>14
          DEF RouteNext, Way

\* A packet in hand, or anywhere, is on the line.
LEMMA HandOnLine ==
  ASSUME RouteTypeOK, hand # Nothing
  PROVE  \E i \in 1..Len(Line) : Line[i] = hand
  <1> DEFINE f == Front2
             o == pipes["old"]
  <1>1. One(hand) = <<hand>> /\ hand \in Packet /\ f \in Seq(Packet) /\ o \in Seq(Packet)
        /\ Line = (f \o <<hand>>) \o o
    BY LineTypes, OneIsSeq
  <1> HIDE DEF f, o
  <1>2. Inserted(f \o o, Line, Len(f) + 1, hand)
    BY <1>1, Insertion
  <1> QED BY <1>2 DEF Inserted

\* The stages of the update follow each other as RouteStages says.
LEMMA RouteStagesStep ==
  ASSUME RouteTypeOK, RouteStages, LineBounds, [RouteNext]_routeVars
  PROVE  RouteStages'
  <1>1. EndNumber \in Nat /\ EndNumber > 0 /\ source.n \in 0..EndNumber
    BY RouteAssumption DEF EndNumber, RouteTypeOK, SourceState
  <1> USE DEF RouteStages
  <1>2. CASE SourceBegins
    BY <1>1, <1>2 DEF SourceBegins, Switched, After, RouteTypeOK, SourceState
  <1>3. CASE SourceSends
    <2>1. source' = [source EXCEPT !.at = IF source.n = EndNumber THEN "ended" ELSE "idle"]
      BY <1>3 DEF SourceSends
    <2>2. /\ source'.n = source.n /\ source'.via = source.via /\ source'.at \in {"ended", "idle"}
          /\ source'.at = "idle" => source.n < EndNumber
      BY <1>1, <2>1 DEF RouteTypeOK, SourceState
    <2>3. ~Switched => pipes'["new"] = pipes["new"]
      BY <1>3 DEF SourceSends, Switched, RouteTypeOK, Way
    <2>4. ~stays => update \notin {"switch", "spawn"}
      BY <1>3 DEF SourceSends, Stopping
    <2> QED BY <1>3, <2>2, <2>3, <2>4 DEF SourceSends, Switched
  <1>4. CASE SourceQuits
    <2>1. source'.n = source.n /\ source'.via = source.via /\ source'.at = "ended"
      BY <1>4 DEF SourceQuits, RouteTypeOK, SourceState
    <2> QED BY <1>4, <2>1 DEF SourceQuits, Switched, Stopping
  <1>5. CASE SourceCut
    <2>1. source'.n = source.n /\ source'.via = source.via /\ source'.at = "cut"
      BY <1>5 DEF SourceCut, RouteTypeOK, SourceState
    <2> QED BY <1>5, <2>1 DEF SourceCut, Switched
  <1>6. ASSUME NEW p \in Way, Take(p) PROVE RouteStages'
    <2>1. Head(pipes[p]) # Nothing
      <3>1. pipes[p] \in Seq(Packet) /\ pipes[p] # <<>>
        BY <1>6 DEF Take, RouteTypeOK
      <3>2. Head(pipes[p]) \in Packet
        BY <3>1, HeadTailProperties
      <3> QED BY <3>2 DEF Packet, Nothing, Way
    <2>2. /\ (node'[p].held = Nothing) <=> (node'[p].at # "send")
          /\ node'[p].at \notin {"absent"} /\ \A q \in Way : q # p => node'[q] = node[q]
      BY <1>6, <2>1 DEF Take, RouteTypeOK
    <2>3. /\ p = "old" => pipes'["new"] = pipes["new"]
          /\ p = "old" => update \in {"none", "quiesced"} /\ dropped = {}
          /\ p = "new" => update \in After
      BY <1>6 DEF Take, RouteTypeOK, Way
    <2> QED BY <1>6, <2>2, <2>3 DEF Take, Way, Switched, After
  <1>7. ASSUME NEW p \in Way, SendOn(p) PROVE RouteStages'
    <2>1. /\ (node'[p].held = Nothing) /\ (node'[p].at \in {"recv", "ended"})
          /\ \A q \in Way : q # p => node'[q] = node[q]
      BY <1>7 DEF SendOn, RouteTypeOK, Idle
    <2>2. /\ p = "old" => update \in {"none", "quiesced"} /\ dropped = {}
          /\ p = "new" => update \in After
      BY <1>7 DEF SendOn
    <2>3. \/ dropped' = dropped
          \/ p = "old" /\ node'["old"].at = "ended" /\ node["old"].held \in Packet /\ dropped' = {node["old"].held}
      <3>1. CASE p = "old" /\ update = "quiesced"
        <4>1. node["old"].held \in Packet
          BY <1>7, <3>1 DEF SendOn, RouteTypeOK, NodeState, MaybePacket, Way
        <4> QED BY <1>7, <2>2, <3>1, <4>1 DEF SendOn, RouteTypeOK
      <3>2. CASE ~(p = "old" /\ update = "quiesced")
        BY <1>7, <3>2 DEF SendOn
      <3> QED BY <3>1, <3>2
    <2> QED BY <1>7, <2>1, <2>2, <2>3 DEF SendOn, Way, Switched, After
  <1>8. CASE NodeQuits
    <2>1. node'["old"].at = "ended" /\ node'["old"].held = node["old"].held /\ node'["new"] = node["new"]
      BY <1>8 DEF NodeQuits, RouteTypeOK, Way, NodeState
    <2> QED BY <1>8, <2>1 DEF NodeQuits, Way, Switched
  <1>9. CASE Quiesce \/ JoinAll \/ Switch
    BY <1>9 DEF Quiesce, JoinAll, Switch, Switched, After
  <1>10. CASE Spawn
    <2>1. node'["old"] = node["old"] /\ node'["new"].at = "recv" /\ node'["new"].held = Nothing
      BY <1>10 DEF Spawn, RouteTypeOK, Way, Idle
    <2>2. /\ stays => source' = source
          /\ ~stays => source'.at = "idle" /\ source'.n = 0 /\ source'.via = "new"
      BY <1>10 DEF Spawn
    <2> QED BY <1>1, <1>10, <2>1, <2>2 DEF Spawn, Way, Switched, After
  <1>11. CASE DrainTakes
    BY <1>11 DEF DrainTakes, Switched, After
  <1>12. CASE DrainPuts
    <2>1. CASE IsEnd(hand)
      <3>1. PICK i \in 1..Len(Line) : Line[i] = hand
        BY <1>12, HandOnLine DEF DrainPuts
      <3>2. Line[i][1] = "old" /\ Line[i][2] = EndNumber
        BY <1>12, <2>1, <3>1 DEF LineBounds, DrainPuts, IsEnd
      <3>3. ~(source.at = "send" /\ source.via = "old")
        BY <1>1, <3>2 DEF LineBounds
      <3> QED BY <1>12, <3>3 DEF DrainPuts, Switched, After
    <2>2. CASE ~IsEnd(hand)
      BY <1>12, <2>2 DEF DrainPuts, Switched, After
    <2> QED BY <2>1, <2>2
  <1>13. CASE DrainEnds
    BY <1>13 DEF DrainEnds, RouteIsOver, Switched, After
  <1>14. CASE DrainGivesUp
    BY <1>14 DEF DrainGivesUp, Switched, After
  <1>15. CASE UNCHANGED routeVars
    BY <1>15 DEF routeVars, Switched
  <1> QED BY <1>2, <1>3, <1>4, <1>5, <1>6, <1>7, <1>8, <1>9, <1>10, <1>11, <1>12, <1>13, <1>14, <1>15
          DEF RouteNext, Way

\* What the source has sent stays below its number, and behind the new pipe
\* there are only old packets.
LEMMA LineBoundsStep ==
  ASSUME RouteTypeOK, RouteStages, LineBounds, [RouteNext]_routeVars
  PROVE  LineBounds'
  <1>0. /\ source.n \in Nat /\ source.n <= EndNumber /\ source.via \in Way
        /\ Len(Line) \in Nat /\ Line \in Seq(Packet)
    <2>1. source.n \in Nat /\ source.n <= EndNumber /\ source.via \in Way
      BY RouteAssumption DEF RouteTypeOK, SourceState, EndNumber
    <2> QED BY <2>1, LineTypes, LenProperties
  <1>1. \A i \in 1..Len(Line) : Line[i] \in Packet /\ Line[i][2] \in Nat /\ Line[i][1] \in Way
    <2>1. \A i \in 1..Len(Line) : Line[i] \in Packet
      BY <1>0, ElementOfSeq
    <2> QED BY <2>1 DEF Packet
  <1>2. \A i \in 1..Len(pipes'["old"]) : pipes'["old"][i][1] = "old"
    <2>1. \A i \in 1..Len(pipes["old"]) : pipes["old"][i][1] = "old"
      BY DEF LineBounds
    <2>2. pipes["old"] \in Seq(Packet)
      BY LineTypes
    <2>3. \/ pipes'["old"] = pipes["old"] \/ pipes'["old"] = <<>>
          \/ pipes["old"] # <<>> /\ pipes'["old"] = Tail(pipes["old"])
          \/ pipes'["old"] = Append(pipes["old"], <<"old", source.n>>)
      BY <1>0 DEF RouteNext, SourceBegins, SourceSends, SourceQuits, SourceCut, Take, SendOn, NodeQuits,
             Quiesce, JoinAll, Switch, Spawn, DrainTakes, DrainPuts, DrainEnds, DrainGivesUp,
             routeVars, RouteTypeOK, Way
    <2>4. CASE pipes["old"] # <<>> /\ pipes'["old"] = Tail(pipes["old"])
      BY <2>1, <2>2, <2>4, HeadTailProperties
    <2>5. CASE pipes'["old"] = Append(pipes["old"], <<"old", source.n>>)
      BY <2>1, <2>2, <2>5
    <2> QED BY <2>1, <2>3, <2>4, <2>5
  <1>3. hand' # Nothing => hand'[1] = "old"
    <2>1. CASE DrainTakes
      <3>1. pipes["old"] \in Seq(Packet) /\ pipes["old"] # <<>> /\ hand' = Head(pipes["old"])
        BY <2>1, LineTypes DEF DrainTakes
      <3>2. hand' = pipes["old"][1] /\ 1 \in 1..Len(pipes["old"])
        BY <3>1
      <3> QED BY <3>2 DEF LineBounds
    <2>2. CASE ~DrainTakes
      <3>1. hand' = hand \/ hand' = Nothing
        BY <2>2 DEF RouteNext, SourceBegins, SourceSends, SourceQuits, SourceCut, Take, SendOn, NodeQuits,
             Quiesce, JoinAll, Switch, Spawn, DrainTakes, DrainPuts, DrainEnds, DrainGivesUp, routeVars
      <3> QED BY <3>1 DEF LineBounds
    <2> QED BY <2>1, <2>2
  <1> DEFINE NoNew(s, src) == src.via = "old" => \A i \in 1..Len(s) : s[i][1] = "old"
             Below(s, src) == \A i \in 1..Len(s) : stays \/ s[i][1] = src.via =>
                                 s[i][2] <= src.n /\ (src.at \in {"send", "cut"} => s[i][2] < src.n)
  <1>4. NoNew(Line, source) /\ Below(Line, source)
    BY DEF LineBounds
  <1>6. stays' = stays
    BY DEF RouteNext, SourceBegins, SourceSends, SourceQuits, SourceCut, Take, SendOn, NodeQuits,
             Quiesce, JoinAll, Switch, Spawn, DrainTakes, DrainPuts, DrainEnds, DrainGivesUp, routeVars
  <1>5. NoNew(Line', source') /\ Below(Line', source')
    <2>1. CASE SourceSends
      <3>1. PICK k \in Nat : Inserted(Line, Line', k, <<source.via, source.n>>)
        BY <2>1, SendInserts
      <3>2. source'.at \in {"idle", "ended"} /\ source'.n = source.n /\ source'.via = source.via
        BY <2>1 DEF SourceSends, RouteTypeOK, SourceState
      <3>3. ASSUME NEW i \in 1..Len(Line')
            PROVE  Line'[i] = <<source.via, source.n>> \/ \E j \in 1..Len(Line) : Line'[i] = Line[j]
        <4>1. CASE i = k
          BY <3>1, <4>1 DEF Inserted
        <4>2. CASE i < k
          <5>1. i \in 1..Len(Line)
            BY <1>0, <3>1, <3>3, <4>2 DEF Inserted
          <5> QED BY <3>1, <4>2, <5>1 DEF Inserted
        <4>3. CASE i > k
          <5>1. i - 1 \in 1..Len(Line) /\ i - 1 >= k /\ (i - 1) + 1 = i
            BY <1>0, <3>1, <3>3, <4>3 DEF Inserted
          <5>2. Line'[(i - 1) + 1] = Line[i - 1]
            BY <3>1, <5>1 DEF Inserted
          <5> QED BY <5>1, <5>2
        <4> QED BY <3>1, <3>3, <4>1, <4>2, <4>3, <1>0 DEF Inserted
      <3>4. NoNew(Line', source')
        BY <1>4, <3>2, <3>3
      <3>5. Below(Line', source')
        <4> SUFFICES ASSUME NEW i \in 1..Len(Line'), stays \/ Line'[i][1] = source.via
                     PROVE  Line'[i][2] <= source.n
          BY <3>2
        <4>1. CASE Line'[i] = <<source.via, source.n>>
          BY <1>0, <4>1
        <4>2. CASE \E j \in 1..Len(Line) : Line'[i] = Line[j]
          BY <1>4, <4>2
        <4> QED BY <3>3, <4>1, <4>2
      <3> QED BY <3>4, <3>5
    <2>2. CASE SendOn("old") /\ update = "quiesced"
      <3>1. PICK k \in Nat : Inserted(Line', Line, k, node["old"].held)
        BY <2>2, SendOnDrops DEF Way
      <3>2. source' = source /\ Line' \in Seq(Packet)
        BY <2>2, SendOnDrops DEF SendOn, Way
      <3>3. ASSUME NEW i \in 1..Len(Line') PROVE \E j \in 1..Len(Line) : Line'[i] = Line[j]
        <4>1. Len(Line) = Len(Line') + 1 /\ Len(Line') \in Nat
          BY <3>1, <3>2, LenProperties DEF Inserted
        <4>2. CASE i < k
          BY <3>1, <3>3, <4>1, <4>2 DEF Inserted
        <4>3. CASE i >= k
          BY <3>1, <3>3, <4>1, <4>3 DEF Inserted
        <4> QED BY <3>1, <3>3, <4>2, <4>3
      <3> QED BY <1>4, <3>2, <3>3
    <2>3. CASE DrainGivesUp
      <3>1. /\ source' = source /\ Len(Line') <= Len(Line) /\ Len(Line') \in Nat
            /\ \A i \in 1..Len(Line') : Line'[i] = Line[i]
        BY <2>3, GivingUpCuts, LenProperties DEF DrainGivesUp
      <3>2. \A i \in 1..Len(Line') : i \in 1..Len(Line)
        BY <1>0, <3>1
      <3> QED BY <1>4, <3>1, <3>2
    <2>4. CASE Line' = Line /\ ~SourceSends
      <3>1. CASE source' = source
        BY <1>4, <2>4, <3>1
      <3>2. CASE SourceBegins
        <4>1. /\ source'.at = "send" /\ source'.n = source.n + 1
              /\ source'.via = "old" => source.via = "old"
              /\ source'.via # source.via => source.via = "old" /\ source'.via = "new"
          <5>1. ~Switched => source.via = "old"
            BY DEF RouteStages
          <5> QED BY <1>0, <3>2, <5>1 DEF SourceBegins, Way
        <4>2. NoNew(Line, source')
          BY <1>4, <4>1
        <4>3. ASSUME NEW i \in 1..Len(Line), stays \/ Line[i][1] = source'.via
              PROVE  Line[i][2] < source'.n
          <5>1. stays \/ source'.via = source.via
            BY <1>4, <4>1, <4>3
          <5>2. Line[i][2] <= source.n
            BY <1>4, <4>3, <5>1
          <5> QED BY <1>0, <1>1, <4>1, <5>2
        <4>4. Below(Line, source')
          BY <1>0, <1>1, <4>1, <4>3
        <4> QED BY <2>4, <4>2, <4>4
      <3>3. CASE SourceQuits
        <4>1. source'.at = "ended" /\ source'.n = source.n /\ source'.via = source.via
          BY <3>3 DEF SourceQuits, RouteTypeOK, SourceState
        <4> QED BY <1>4, <2>4, <4>1
      <3>4. CASE SourceCut
        <4>1. source.at = "send" /\ source'.at = "cut" /\ source'.n = source.n /\ source'.via = source.via
          BY <3>4 DEF SourceCut, RouteTypeOK, SourceState
        <4> QED BY <1>4, <2>4, <4>1
      <3>5. CASE Spawn /\ source' # source
        <4>1. /\ source'.at = "idle" /\ source'.n = 0 /\ source'.via = "new" /\ source.via = "old" /\ ~stays
          BY <3>5 DEF Spawn, RouteStages
        <4>2. \A i \in 1..Len(Line) : Line[i][1] # "new"
          BY <1>4, <4>1
        <4> QED BY <2>4, <4>1, <4>2
      <3>6. source' = source \/ SourceBegins \/ SourceQuits \/ SourceCut \/ Spawn
        BY <2>4 DEF RouteNext, Take, SendOn, NodeQuits, Quiesce, JoinAll, Switch, DrainTakes, DrainPuts,
                    DrainEnds, DrainGivesUp, routeVars
      <3> QED BY <3>1, <3>2, <3>3, <3>4, <3>5, <3>6
    <2> QED BY <2>1, <2>2, <2>3, <2>4, LineSteps
  <1> QED BY <1>2, <1>3, <1>5, <1>6 DEF LineBounds

\* The old pipe never holds more than its capacity.
LEMMA OldFitsStep ==
  ASSUME RouteTypeOK, OldFits, [RouteNext]_routeVars
  PROVE  OldFits'
  <1> PICK o : o = pipes["old"]
    OBVIOUS
  <1> PICK o2 : o2 = pipes'["old"]
    OBVIOUS
  <1>1. o \in Seq(Packet) /\ Len(o) \in Nat /\ Len(o) <= RouteCapacity /\ RouteCapacity \in Nat
    BY LineTypes, LenProperties, RouteAssumption DEF OldFits
  <1>2. \/ o2 = o \/ o2 = <<>> \/ (o # <<>> /\ o2 = Tail(o))
        \/ o2 = Append(o, <<"old", source.n>>) /\ Len(o) < RouteCapacity
    BY DEF RouteNext, SourceBegins, SourceSends, SourceQuits, SourceCut, Take, SendOn, NodeQuits,
             Quiesce, JoinAll, Switch, Spawn, DrainTakes, DrainPuts, DrainEnds, DrainGivesUp,
             routeVars, RouteTypeOK, Way, Room, SourceState
  <1>3. Len(o2) <= RouteCapacity
    <2>1. CASE o2 = o \/ o2 = <<>>
      BY <1>1, <2>1
    <2>2. CASE o # <<>> /\ o2 = Tail(o)
      <3>1. Len(o2) = Len(o) - 1
        BY <1>1, <2>2, HeadTailProperties
      <3> QED BY <1>1, <3>1
    <2>3. CASE o2 = Append(o, <<"old", source.n>>) /\ Len(o) < RouteCapacity
      <3>1. Len(o2) = Len(o) + 1
        BY <1>1, <2>3
      <3> QED BY <1>1, <2>3, <3>1
    <2> QED BY <1>2, <2>1, <2>2, <2>3
  <1> QED BY <1>3 DEF OldFits

\* A step puts at most the packet just sent into the line.
LEMMA LineGrows ==
  ASSUME RouteTypeOK, RouteStages, LineBounds, [RouteNext]_routeVars
  PROVE  /\ stays' = stays
         /\ \A i \in 1..Len(Line') : \/ \E j \in 1..Len(Line) : Line'[i] = Line[j]
                                     \/ SourceSends /\ Line'[i] = <<source.via, source.n>>
  <1>0. Len(Line) \in Nat /\ Line \in Seq(Packet)
    BY LineTypes, LenProperties
  <1>1. stays' = stays
    BY DEF RouteNext, SourceBegins, SourceSends, SourceQuits, SourceCut, Take, SendOn, NodeQuits,
             Quiesce, JoinAll, Switch, Spawn, DrainTakes, DrainPuts, DrainEnds, DrainGivesUp, routeVars
  <1> SUFFICES ASSUME NEW i \in 1..Len(Line')
               PROVE  (\E j \in 1..Len(Line) : Line'[i] = Line[j])
                      \/ (SourceSends /\ Line'[i] = <<source.via, source.n>>)
    BY <1>1
  <1>2. CASE Line' = Line
    BY <1>2
  <1>3. CASE SourceSends
    <2>1. PICK k \in Nat : Inserted(Line, Line', k, <<source.via, source.n>>)
      BY <1>3, SendInserts
    <2>2. CASE i = k
      BY <1>3, <2>1, <2>2 DEF Inserted
    <2>3. CASE i < k
      <3>1. i \in 1..Len(Line)
        BY <1>0, <2>1, <2>3 DEF Inserted
      <3> QED BY <2>1, <2>3, <3>1 DEF Inserted
    <2>4. CASE i > k
      <3>1. i - 1 \in 1..Len(Line) /\ i - 1 >= k /\ (i - 1) + 1 = i
        BY <1>0, <2>1, <2>4 DEF Inserted
      <3>2. Line'[(i - 1) + 1] = Line[i - 1]
        BY <2>1, <3>1 DEF Inserted
      <3> QED BY <3>1, <3>2
    <2> QED BY <2>1, <2>2, <2>3, <2>4, <1>0 DEF Inserted
  <1>4. CASE SendOn("old") /\ update = "quiesced"
    <2>1. PICK k \in Nat : Inserted(Line', Line, k, node["old"].held)
      BY <1>4, SendOnDrops DEF Way
    <2>2. Len(Line) = Len(Line') + 1 /\ Len(Line') \in Nat
      BY <1>4, <2>1, SendOnDrops, LenProperties DEF Inserted, Way
    <2>3. CASE i < k
      BY <2>1, <2>2, <2>3 DEF Inserted
    <2>4. CASE i >= k
      BY <2>1, <2>2, <2>4 DEF Inserted
    <2> QED BY <2>1, <2>3, <2>4
  <1>5. CASE DrainGivesUp
    <2>1. /\ Len(Line') <= Len(Line) /\ Len(Line') \in Nat /\ \A j \in 1..Len(Line') : Line'[j] = Line[j]
      BY <1>5, GivingUpCuts, LenProperties
    <2>2. i \in 1..Len(Line)
      BY <1>0, <2>1
    <2> QED BY <2>1, <2>2
  <1> QED BY <1>2, <1>3, <1>4, <1>5, LineSteps

\* What a source that stays sends after the switch has higher numbers than what
\* it sent before.
LEMMA OldBeforeNewStep ==
  ASSUME RouteTypeOK, RouteStages, LineBounds, OldBeforeNew, [RouteNext]_routeVars
  PROVE  OldBeforeNew'
  <1> SUFFICES ASSUME stays, NEW i \in 1..Len(Line'), NEW j \in 1..Len(Line'),
                      Line'[i][1] = "old", Line'[j][1] = "new"
               PROVE  Line'[i][2] < Line'[j][2]
    BY LineGrows DEF OldBeforeNew
  <1>1. CASE SourceSends /\ Line'[i] = <<source.via, source.n>>
    <2>1. source.via = "old"
      BY <1>1
    <2>2. Line'[j][1] # "new"
      <3>1. CASE \E l \in 1..Len(Line) : Line'[j] = Line[l]
        BY <2>1, <3>1 DEF LineBounds
      <3>2. CASE Line'[j] = <<source.via, source.n>>
        BY <2>1, <3>2
      <3> QED BY <3>1, <3>2, LineGrows
    <2> QED BY <2>2
  <1>2. CASE \E m \in 1..Len(Line) : Line'[i] = Line[m]
    <2> PICK m \in 1..Len(Line) : Line'[i] = Line[m]
      BY <1>2
    <2>1. CASE SourceSends /\ Line'[j] = <<source.via, source.n>>
      <3>1. Line[m][2] < source.n
        BY <2>1 DEF LineBounds, SourceSends
      <3> QED BY <2>1, <3>1
    <2>2. CASE \E l \in 1..Len(Line) : Line'[j] = Line[l]
      BY <2>2 DEF OldBeforeNew
    <2> QED BY <2>1, <2>2, LineGrows
  <1> QED BY <1>1, <1>2, LineGrows

\* Behind an end of stream of the new pipe there is what the drain had left when
\* it was sent, and nothing comes after.
LEMMA FewStep ==
  ASSUME RouteTypeOK, RouteStages, LineBounds, OldFits, FewAreOvertaken, [RouteNext]_routeVars
  PROVE  FewAreOvertaken'
  <1>0. /\ Len(Line) \in Nat /\ Line \in Seq(Packet) /\ source.n \in Nat /\ source.n <= EndNumber
        /\ RouteCapacity \in Nat /\ Len(pipes["old"]) \in Nat /\ Len(pipes["old"]) <= RouteCapacity
        /\ EndNumber \in Nat
    <2>1. source.n \in Nat /\ source.n <= EndNumber /\ EndNumber \in Nat
      BY RouteAssumption DEF RouteTypeOK, SourceState, EndNumber
    <2> QED BY <2>1, LineTypes, LenProperties, RouteAssumption DEF OldFits
  <1> SUFFICES ASSUME NEW i \in 1..Len(Line'), Line'[i] = <<"new", EndNumber>>
               PROVE  Len(Line') - i <= RouteCapacity + 1
    BY DEF FewAreOvertaken
  <1>2. CASE Line' = Line
    BY <1>2 DEF FewAreOvertaken
  <1>3. CASE SourceSends
    <2>1. PICK k \in Nat : /\ Inserted(Line, Line', k, <<source.via, source.n>>)
                           /\ Len(Line) + 1 - k <= Len(pipes["old"]) + 1
      BY <1>3, SendInserts
    <2>2. Len(Line') = Len(Line) + 1
      BY <2>1 DEF Inserted
    <2>3. \A j \in 1..Len(Line) : Line[j] # <<"new", EndNumber>>
      <3> SUFFICES ASSUME NEW j \in 1..Len(Line), Line[j] = <<"new", EndNumber>> PROVE FALSE
        OBVIOUS
      <3>1. Line[j][1] = "new" /\ Line[j][2] = EndNumber
        OBVIOUS
      <3>2. source.via = "new"
        BY <3>1 DEF LineBounds, RouteTypeOK, SourceState, Way
      <3>3. Line[j][2] < source.n
        BY <1>3, <3>1, <3>2 DEF LineBounds, SourceSends
      <3> QED BY <1>0, <3>1, <3>3
    <2>4. i = k
      <3>1. CASE i < k
        <4>1. i \in 1..Len(Line)
          BY <1>0, <2>1, <3>1 DEF Inserted
        <4> QED BY <2>1, <2>3, <3>1, <4>1 DEF Inserted
      <3>2. CASE i > k
        <4>1. i - 1 \in 1..Len(Line) /\ i - 1 >= k /\ (i - 1) + 1 = i
          BY <1>0, <2>1, <3>2 DEF Inserted
        <4>2. Line'[(i - 1) + 1] = Line[i - 1]
          BY <2>1, <4>1 DEF Inserted
        <4> QED BY <2>3, <4>1, <4>2
      <3> QED BY <1>0, <2>1, <2>2, <3>1, <3>2
    <2> QED BY <1>0, <2>1, <2>2, <2>4
  <1>4. CASE SendOn("old") /\ update = "quiesced"
    <2>1. source.via = "old"
      BY <1>4 DEF RouteStages, Switched
    <2>2. ~SourceSends
      BY <1>4 DEF SendOn, SourceSends, RouteTypeOK, SourceState
    <2>3. PICK j \in 1..Len(Line) : Line'[i] = Line[j]
      BY <2>2, LineGrows
    <2> QED BY <2>1, <2>3 DEF LineBounds
  <1>5. CASE DrainGivesUp
    <2>1. /\ Len(Line') <= Len(Line) /\ Len(Line') \in Nat /\ \A j \in 1..Len(Line') : Line'[j] = Line[j]
      BY <1>5, GivingUpCuts, LenProperties
    <2>2. i \in 1..Len(Line) /\ Line[i] = <<"new", EndNumber>>
      BY <1>0, <2>1
    <2>3. Len(Line) - i <= RouteCapacity + 1
      BY <2>2 DEF FewAreOvertaken
    <2> QED BY <1>0, <2>1, <2>2, <2>3
  <1> QED BY <1>2, <1>3, <1>4, <1>5, LineSteps

\* Packets that took the same way keep their order, and none is doubled.
LEMMA OrderStep ==
  ASSUME RouteTypeOK, RouteStages, LineBounds, MovedOnceInOrder, [RouteNext]_routeVars
  PROVE  MovedOnceInOrder'
  <1>0. Len(Line) \in Nat /\ Line \in Seq(Packet)
    BY LineTypes, LenProperties
  <1>1. CASE Line' = Line
    BY <1>1 DEF MovedOnceInOrder
  <1>2. CASE SourceSends
    <2>1. PICK k \in Nat : /\ Inserted(Line, Line', k, <<source.via, source.n>>)
                           /\ \A m \in k..Len(Line) : Line[m][1] # source.via
      BY <1>2, SendInserts
    <2>2. \A i \in 1..Len(Line) : Line[i][1] = source.via => Line[i][2] < source.n
      BY <1>2 DEF LineBounds, SourceSends
    <2>3. Len(Line') = Len(Line) + 1 /\ k \in 1..Len(Line') /\ Line'[k] = <<source.via, source.n>>
      BY <2>1 DEF Inserted
    <2>4. \A i \in 1..Len(Line) : (i < k => Line'[i] = Line[i]) /\ (i >= k => Line'[i + 1] = Line[i])
      BY <2>1 DEF Inserted
    <2>5. \A i \in 1..Len(Line') : i < k => i \in 1..Len(Line) /\ Line'[i] = Line[i]
      BY <1>0, <2>3, <2>4
    <2>6. ASSUME NEW i \in 1..Len(Line'), i > k
          PROVE  i - 1 \in 1..Len(Line) /\ i - 1 >= k /\ Line'[i] = Line[i - 1]
      <3>1. i - 1 \in 1..Len(Line) /\ i - 1 >= k /\ (i - 1) + 1 = i
        BY <1>0, <2>3, <2>6
      <3>2. Line'[(i - 1) + 1] = Line[i - 1]
        BY <2>4, <3>1
      <3> QED BY <3>1, <3>2
    <2> SUFFICES ASSUME NEW i \in 1..Len(Line'), NEW j \in 1..Len(Line'), i < j, Line'[i][1] = Line'[j][1]
                 PROVE  Line'[i][2] < Line'[j][2]
      BY DEF MovedOnceInOrder
    <2>7. CASE i = k
      <3>1. j - 1 \in k..Len(Line) /\ Line'[j] = Line[j - 1]
        BY <1>0, <2>3, <2>6, <2>7
      <3> QED BY <2>1, <2>3, <2>7, <3>1
    <2>8. CASE j = k
      BY <2>2, <2>3, <2>5, <2>8
    <2>9. CASE i < k /\ j < k
      BY <2>5, <2>9 DEF MovedOnceInOrder
    <2>10. CASE i < k /\ j > k
      <3>1. i \in 1..Len(Line) /\ j - 1 \in 1..Len(Line) /\ i < j - 1 /\ Line'[i] = Line[i] /\ Line'[j] = Line[j - 1]
        BY <2>3, <2>5, <2>6, <2>10
      <3> QED BY <3>1 DEF MovedOnceInOrder
    <2>11. CASE i > k /\ j > k
      <3>1. i - 1 \in 1..Len(Line) /\ j - 1 \in 1..Len(Line) /\ i - 1 < j - 1
            /\ Line'[i] = Line[i - 1] /\ Line'[j] = Line[j - 1]
        BY <2>3, <2>6, <2>11
      <3> QED BY <3>1 DEF MovedOnceInOrder
    <2> QED BY <2>3, <2>7, <2>8, <2>9, <2>10, <2>11
  <1>3. CASE SendOn("old") /\ update = "quiesced"
    <2>1. PICK k \in Nat : Inserted(Line', Line, k, node["old"].held)
      BY <1>3, SendOnDrops DEF Way
    <2>2. Line' \in Seq(Packet) /\ Len(Line') \in Nat /\ Len(Line) = Len(Line') + 1
      BY <1>3, <2>1, SendOnDrops, LenProperties DEF Inserted, Way
    <2> DEFINE at(i) == IF i < k THEN i ELSE i + 1
    <2>3. \A i \in 1..Len(Line') : at(i) \in 1..Len(Line) /\ Line'[i] = Line[at(i)]
      BY <2>1, <2>2 DEF Inserted
    <2>4. \A i, j \in 1..Len(Line') : i < j => at(i) < at(j)
      BY <2>1, <2>2
    <2> HIDE DEF at
    <2> QED BY <2>3, <2>4 DEF MovedOnceInOrder
  <1>4. CASE DrainGivesUp
    <2>1. /\ Len(Line') <= Len(Line) /\ Len(Line') \in Nat /\ \A i \in 1..Len(Line') : Line'[i] = Line[i]
      BY <1>4, GivingUpCuts, LenProperties
    <2>2. \A i \in 1..Len(Line') : i \in 1..Len(Line)
      BY <1>0, <2>1
    <2> QED BY <2>1, <2>2 DEF MovedOnceInOrder
  <1> QED BY <1>1, <1>2, <1>3, <1>4, LineSteps

\* Nothing a source that stays has sent leaves the line but the packet given up,
\* until the drain itself gives up.
LEMMA NoneLostStep ==
  ASSUME RouteTypeOK, RouteStages, LineBounds, NoneLost, [RouteNext]_routeVars
  PROVE  NoneLost'
  <1>0. Len(Line) \in Nat /\ Line \in Seq(Packet) /\ source.n \in Nat
    <2>1. source.n \in Nat
      BY RouteAssumption DEF RouteTypeOK, SourceState, EndNumber
    <2> QED BY <2>1, LineTypes, LenProperties
  <1> SUFFICES ASSUME update' # "failed", stays', NEW n \in Put'
               PROVE  \/ \E i \in 1..Len(Line') : Line'[i][2] = n
                      \/ \E p \in dropped' : p[2] = n
    BY DEF NoneLost, NumbersUpTo, Given, Put
  <1>1. stays
    BY DEF RouteNext, SourceBegins, SourceSends, SourceQuits, SourceCut, Take, SendOn, NodeQuits,
             Quiesce, JoinAll, Switch, Spawn, DrainTakes, DrainPuts, DrainEnds, DrainGivesUp, routeVars
  <1>2. update # "failed" => \A m \in Put : \/ \E i \in 1..Len(Line) : Line[i][2] = m
                                           \/ \E p \in dropped : p[2] = m
    BY DEF NoneLost, NumbersUpTo, Given
  <1>3. CASE SourceSends
    <2>1. PICK k \in Nat : Inserted(Line, Line', k, <<source.via, source.n>>)
      BY <1>3, SendInserts
    <2>2. source'.at \in {"idle", "ended"} /\ source'.n = source.n /\ source.at = "send"
      BY <1>3 DEF SourceSends, RouteTypeOK, SourceState
    <2>3. Put' = 1..source.n /\ Put = 1..(source.n - 1)
      BY <1>0, <1>1, <2>2, <1>3 DEF Put, SourceSends
    <2>4. n = source.n \/ n \in Put
      BY <1>0, <2>3
    <2>5. CASE n = source.n
      BY <2>1, <2>5 DEF Inserted
    <2>6. CASE n \in Put
      <3>1. dropped' = dropped /\ update' = update
        BY <1>3 DEF SourceSends
      <3>2. ASSUME NEW i \in 1..Len(Line) PROVE \E j \in 1..Len(Line') : Line'[j] = Line[i]
        <4>1. Len(Line') = Len(Line) + 1
          BY <2>1 DEF Inserted
        <4>2. i \in 1..Len(Line') /\ i + 1 \in 1..Len(Line')
          BY <1>0, <4>1, <3>2
        <4>3. Line'[i] = Line[i] \/ Line'[i + 1] = Line[i]
          BY <2>1, <1>0, <3>2 DEF Inserted
        <4> QED BY <4>2, <4>3
      <3> QED BY <1>2, <2>6, <3>1, <3>2
    <2> QED BY <2>4, <2>5, <2>6
  <1>4. CASE ~SourceSends
    <2>1. n \in Put
      <3>1. CASE source' = source
        BY <1>1, <3>1 DEF Put
      <3>2. CASE SourceBegins
        <4>1. source'.at = "send" /\ source'.n = source.n + 1 /\ source.at = "idle"
          BY <3>2 DEF SourceBegins
        <4>2. Put' = 1..((source.n + 1) - 1) /\ Put = 1..(source.n - 0)
          BY <1>1, <4>1, <3>2 DEF Put, SourceBegins
        <4> QED BY <1>0, <4>2
      <3>3. CASE SourceCut
        <4>1. source'.n = source.n /\ source'.at = "cut" /\ source.at = "send"
          BY <3>3 DEF SourceCut, RouteTypeOK, SourceState
        <4> QED BY <1>1, <4>1 DEF Put
      <3>4. source' = source \/ SourceBegins \/ SourceCut
        BY <1>1, <1>4 DEF RouteNext, SourceQuits, Spawn, Take, SendOn, NodeQuits, Quiesce, JoinAll, Switch,
                    DrainTakes, DrainPuts, DrainEnds, DrainGivesUp, routeVars
      <3> QED BY <3>1, <3>2, <3>3, <3>4
    <2>2. CASE Line' = Line /\ dropped' = dropped /\ (update = "failed" <=> update' = "failed")
      BY <1>2, <2>1, <2>2
    <2>3. CASE SendOn("old") /\ update = "quiesced"
      <3>1. PICK k \in Nat : Inserted(Line', Line, k, node["old"].held)
        BY <2>3, SendOnDrops DEF Way
      <3>2. dropped' = {node["old"].held} /\ dropped = {} /\ Len(Line') \in Nat /\ Len(Line) = Len(Line') + 1
        BY <2>3, <3>1, SendOnDrops, LenProperties DEF SendOn, RouteStages, Way, Inserted
      <3>3. PICK i \in 1..Len(Line) : Line[i][2] = n
        BY <1>2, <2>1, <2>3, <3>2
      <3>4. CASE i = k
        BY <3>1, <3>2, <3>3, <3>4 DEF Inserted
      <3>5. CASE i < k
        <4>1. i \in 1..Len(Line') /\ Line'[i] = Line[i]
          BY <3>1, <3>2, <3>5 DEF Inserted
        <4> QED BY <3>3, <4>1
      <3>6. CASE i > k
        <4>1. i - 1 \in 1..Len(Line') /\ i - 1 >= k /\ (i - 1) + 1 = i
          BY <3>1, <3>2, <3>6 DEF Inserted
        <4>2. Line[(i - 1) + 1] = Line'[i - 1]
          BY <3>1, <4>1 DEF Inserted
        <4> QED BY <3>3, <4>1, <4>2
      <3> QED BY <3>4, <3>5, <3>6, <3>1, <3>2
    <2>4. CASE DrainGivesUp
      BY <2>4 DEF DrainGivesUp
    <2> QED BY <1>4, <2>2, <2>3, <2>4, LineSteps
  <1> QED BY <1>3, <1>4

\* The end of stream that took the old way stays behind everything sent.
LEMMA EndStep ==
  ASSUME RouteTypeOK, RouteStages, LineBounds, NoneLost, EndComesLast, [RouteNext]_routeVars
  PROVE  EndComesLast'
  <1>0. Len(Line) \in Nat /\ Line \in Seq(Packet) /\ source.n \in Nat /\ source.n <= EndNumber
        /\ EndNumber = RoutePackets + 1 /\ RoutePackets \in Nat
    <2>1. source.n \in Nat /\ source.n <= EndNumber /\ EndNumber = RoutePackets + 1 /\ RoutePackets \in Nat
      BY RouteAssumption DEF RouteTypeOK, SourceState, EndNumber
    <2> QED BY <2>1, LineTypes, LenProperties
  <1>1. stays' = stays
    BY DEF RouteNext, SourceBegins, SourceSends, SourceQuits, SourceCut, Take, SendOn, NodeQuits,
             Quiesce, JoinAll, Switch, Spawn, DrainTakes, DrainPuts, DrainEnds, DrainGivesUp, routeVars
  <1> DEFINE Behind(s, d, i, n) == (\E j \in 1..i : s[j][2] = n) \/ (\E p \in d : p[2] = n)
  <1>2. stays => \A i \in 1..Len(Line) : Line[i] = <<"old", EndNumber>> =>
                   \A n \in 1..RoutePackets : Behind(Line, dropped, i, n)
    BY DEF EndComesLast, NumbersUpTo, Given
  <1> SUFFICES ASSUME stays, NEW i \in 1..Len(Line'), Line'[i] = <<"old", EndNumber>>, NEW n \in 1..RoutePackets
               PROVE  Behind(Line', dropped', i, n)
    BY <1>1 DEF EndComesLast, NumbersUpTo, Given
  <1>3. CASE Line' = Line /\ dropped' = dropped
    BY <1>2, <1>3
  <1>4. CASE SourceSends
    <2>1. PICK k \in Nat : /\ Inserted(Line, Line', k, <<source.via, source.n>>)
                           /\ source.via = "old" => k = Len(Line) + 1
      BY <1>4, SendInserts
    <2>2. /\ Len(Line') = Len(Line) + 1 /\ k \in 1..Len(Line') /\ Line'[k] = <<source.via, source.n>>
          /\ \A m \in 1..Len(Line) : (m < k => Line'[m] = Line[m]) /\ (m >= k => Line'[m + 1] = Line[m])
          /\ dropped' = dropped
      BY <1>4, <2>1 DEF Inserted, SourceSends
    <2>3. CASE i = k
      <3>1. source.via = "old" /\ source.n = EndNumber /\ k = Len(Line) + 1
        BY <2>1, <2>2, <2>3
      <3>2. update # "failed" /\ source.at = "send"
        BY <1>4, <3>1 DEF SourceSends
      <3>3. Put = 1..(source.n - 1)
        BY <3>2 DEF Put
      <3>4. n \in Put
        BY <1>0, <3>1, <3>3
      <3>5. (\E j \in 1..Len(Line) : Line[j][2] = n) \/ (\E p \in dropped : p[2] = n)
        BY <3>2, <3>4 DEF NoneLost, NumbersUpTo, Given
      <3>6. \A j \in 1..Len(Line) : j \in 1..i /\ Line'[j] = Line[j]
        BY <1>0, <2>2, <2>3, <3>1
      <3> QED BY <2>2, <3>5, <3>6
    <2>4. CASE i < k
      <3>1. i \in 1..Len(Line) /\ Line[i] = Line'[i]
        BY <1>0, <2>2, <2>4
      <3>2. Behind(Line, dropped, i, n)
        BY <1>2, <3>1
      <3>3. \A j \in 1..i : Line'[j] = Line[j]
        BY <1>0, <2>2, <2>4, <3>1
      <3> QED BY <2>2, <3>2, <3>3
    <2>5. CASE i > k
      <3>1. i - 1 \in 1..Len(Line) /\ i - 1 >= k /\ (i - 1) + 1 = i
        BY <1>0, <2>2, <2>5
      <3>2. Line'[(i - 1) + 1] = Line[i - 1]
        BY <2>2, <3>1
      <3>3. Behind(Line, dropped, i - 1, n)
        BY <1>2, <3>1, <3>2
      <3>4. ASSUME NEW j \in 1..(i - 1) PROVE \E m \in 1..i : Line'[m] = Line[j]
        <4>1. j \in 1..Len(Line) /\ j \in 1..i /\ j + 1 \in 1..i
          BY <1>0, <3>1, <3>4
        <4> QED BY <1>0, <2>2, <4>1
      <3> QED BY <2>2, <3>3, <3>4
    <2> QED BY <2>2, <2>3, <2>4, <2>5
  <1>5. CASE SendOn("old") /\ update = "quiesced"
    <2>1. PICK k \in Nat : Inserted(Line', Line, k, node["old"].held)
      BY <1>5, SendOnDrops DEF Way
    <2>2. /\ dropped' = {node["old"].held} /\ dropped = {} /\ Len(Line') \in Nat /\ Len(Line) = Len(Line') + 1
          /\ k \in 1..Len(Line) /\ Line[k] = node["old"].held
          /\ \A m \in 1..Len(Line') : (m < k => Line[m] = Line'[m]) /\ (m >= k => Line[m + 1] = Line'[m])
      BY <1>5, <2>1, SendOnDrops, LenProperties DEF SendOn, RouteStages, Way, Inserted
    <2>3. \E l \in 1..Len(Line) : Line[l] = Line'[i] /\ ((l = i /\ i < k) \/ (l = i + 1 /\ i >= k))
      <3>1. i \in 1..Len(Line) /\ i + 1 \in 1..Len(Line)
        BY <2>2
      <3>2. CASE i < k
        <4>1. Line[i] = Line'[i]
          BY <2>2, <3>2
        <4> QED BY <3>1, <3>2, <4>1
      <3>3. CASE i >= k
        <4>1. Line[i + 1] = Line'[i]
          BY <2>2, <3>3
        <4> QED BY <3>1, <3>3, <4>1
      <3> QED BY <2>2, <3>2, <3>3
    <2>4. PICK l \in 1..Len(Line) : Line[l] = Line'[i] /\ ((l = i /\ i < k) \/ (l = i + 1 /\ i >= k))
      BY <2>3
    <2>5. PICK j \in 1..l : Line[j][2] = n
      BY <1>2, <2>2, <2>4
    <2>6. j \in 1..Len(Line) /\ l \in Nat
      BY <2>4, <2>5
    <2>7. CASE j = k
      BY <2>2, <2>5, <2>7
    <2>8. CASE j < k
      <3>1. j \in 1..Len(Line') /\ Line'[j] = Line[j]
        BY <2>2, <2>6, <2>8
      <3>2. j \in 1..i
        BY <2>2, <2>4, <2>5, <2>6, <2>8, <3>1
      <3> QED BY <2>5, <3>1, <3>2
    <2>9. CASE j > k
      <3>1. j - 1 \in 1..Len(Line') /\ j - 1 >= k /\ (j - 1) + 1 = j /\ j - 1 \in 1..i
        BY <2>2, <2>4, <2>5, <2>6, <2>9
      <3>2. Line[(j - 1) + 1] = Line'[j - 1]
        BY <2>2, <3>1
      <3> QED BY <2>5, <3>1, <3>2
    <2> QED BY <2>2, <2>6, <2>7, <2>8, <2>9
  <1>6. CASE DrainGivesUp
    <2>1. /\ Len(Line') <= Len(Line) /\ Len(Line') \in Nat /\ \A j \in 1..Len(Line') : Line'[j] = Line[j]
          /\ dropped' = dropped
      BY <1>6, GivingUpCuts, LenProperties DEF DrainGivesUp
    <2>2. i \in 1..Len(Line) /\ \A j \in 1..i : j \in 1..Len(Line')
      BY <1>0, <2>1
    <2>3. Behind(Line, dropped, i, n)
      BY <1>2, <2>1, <2>2
    <2> QED BY <2>1, <2>2, <2>3
  <1> QED BY <1>3, <1>4, <1>5, <1>6, LineSteps

\* The route before anything has happened.
LEMMA RouteStarts ==
  ASSUME RouteInit
  PROVE  RouteInv
  <1>1. EndNumber \in Nat /\ EndNumber > 0
    BY RouteAssumption DEF EndNumber
  <1>2. Idle \in NodeState /\ [Idle EXCEPT !.at = "absent"] \in NodeState
    BY DEF Idle, NodeState, MaybePacket
  <1>3. /\ node["old"].held = Nothing /\ node["new"].held = Nothing
        /\ node["old"].at = "recv" /\ node["new"].at = "absent"
    BY DEF RouteInit, Idle
  <1>4. node \in [Way -> NodeState]
    BY <1>2 DEF RouteInit, Way
  <1>5. source \in SourceState
    BY <1>1 DEF RouteInit, SourceState, Way
  <1>6. <<>> \in Seq(Packet)
    BY EmptySeq
  <1>7. RouteTypeOK
    BY <1>4, <1>5, <1>6 DEF RouteInit, RouteTypeOK, Way, MaybePacket, After
  <1>8. RouteStages
    BY <1>1, <1>3 DEF RouteInit, RouteStages, Way, Switched, After
  <1>9. Line = <<>>
    <2>1. <<>> \o <<>> = <<>>
      BY <1>6, ConcatEmptySeq
    <2>2. One(hand) = <<>> /\ One(node["old"].held) = <<>> /\ One(node["new"].held) = <<>>
      BY <1>3 DEF RouteInit, One
    <2> QED BY <2>1, <2>2 DEF RouteInit, Line
  <1>10. Len(Line) = 0
    BY <1>9
  <1>11. LineBounds /\ MovedOnceInOrder /\ EndComesLast /\ OldBeforeNew /\ FewAreOvertaken
    BY <1>10 DEF LineBounds, MovedOnceInOrder, EndComesLast, RouteInit, OldBeforeNew, FewAreOvertaken
  <1>13. OldFits
    <2>1. Len(pipes["old"]) = 0
      BY DEF RouteInit
    <2> QED BY <2>1, RouteAssumption DEF OldFits
  <1>12. NoneLost
    BY DEF NoneLost, Put, RouteInit
  <1> QED BY <1>7, <1>8, <1>11, <1>12, <1>13 DEF RouteInv

\* Everything put on the line is ahead of every end of stream or was overtaken
\* by the one sent into the new pipe.
LEMMA OvertakenOnly ==
  ASSUME RouteInv, stays, NEW i \in 1..Len(Line)
  PROVE  Read(i) \/ Overtaken(i)
  <1>0. Len(Line) \in Nat /\ Line \in Seq(Packet) /\ EndNumber \in Nat
    BY LineTypes, LenProperties, RouteAssumption DEF RouteInv, EndNumber
  <1> SUFFICES ASSUME NEW j \in 1..(i - 1), Line[j][2] = EndNumber PROVE Overtaken(i)
    BY DEF Read, IsEnd
  <1>1. j \in 1..Len(Line) /\ j < i
    BY <1>0
  <1>2. Line[i] \in Packet /\ Line[j] \in Packet
    BY <1>0, <1>1, ElementOfSeq
  <1>3. /\ Line[i][1] \in Way /\ Line[j][1] \in Way /\ Line[i][2] \in Nat /\ Line[i][2] <= EndNumber
        /\ Line[j] = <<Line[j][1], Line[j][2]>>
    BY <1>0, <1>2 DEF Packet
  <1>4. Line[i][1] # Line[j][1]
    BY <1>0, <1>1, <1>3 DEF RouteInv, MovedOnceInOrder
  <1>5. ~(Line[j][1] = "old" /\ Line[i][1] = "new")
    BY <1>0, <1>1, <1>3 DEF RouteInv, OldBeforeNew
  <1>6. Line[j][1] = "new" /\ Line[i][1] = "old"
    BY <1>3, <1>4, <1>5 DEF Way
  <1>7. Line[j] = <<"new", EndNumber>>
    BY <1>3, <1>6
  <1> QED BY <1>6, <1>7 DEF Overtaken

\* A hot update moves the packets of a route, whatever the capacity, the number
\* of packets and the point at which the source sees the switch: none is doubled
\* or overtaken by one that took the same way, the end of stream of the old pipe
\* stays last, and, unless the drain gives up, the node reads all of them but the
\* one the replaced worker held and those behind an end of stream that went
\* straight into the new pipe, at most a pipe and one
\* (apply_hot_update_candidate and drain_routes).
THEOREM RouteStaysKept == RouteSpec => []RouteIsKept
  <1>1. RouteInit => RouteInv
    BY RouteStarts
  <1>2. RouteInv /\ [RouteNext]_routeVars => RouteInv'
    BY RouteTypesStep, RouteStagesStep, LineBoundsStep, OldFitsStep, OrderStep, OldBeforeNewStep, NoneLostStep,
       FewStep, EndStep DEF RouteInv
  <1>3. RouteInv => RouteIsKept
    <2> SUFFICES ASSUME RouteInv PROVE RouteIsKept
      OBVIOUS
    <2>1. Cardinality(dropped) <= 1
      <3>1. dropped = {} \/ \E d \in Packet : dropped = {d}
        BY DEF RouteInv, RouteStages
      <3>2. CASE dropped = {}
        BY <3>2, FS_EmptySet
      <3>3. CASE \E d \in Packet : dropped = {d}
        BY <3>3, FS_Singleton
      <3> QED BY <3>1, <3>2, <3>3
    <2>2. update # "failed" => source.at # "cut"
      BY DEF RouteInv, RouteStages
    <2>3. ASSUME update # "failed", NEW n \in Put
          PROVE  n \in Given \/ \E i \in 1..Len(Line) : Line[i][2] = n /\ (Read(i) \/ Overtaken(i))
      <3>1. stays /\ (n \in Given \/ \E i \in 1..Len(Line) : Line[i][2] = n)
        BY <2>3 DEF RouteInv, NoneLost, NumbersUpTo, Put
      <3> QED BY <3>1, OvertakenOnly
    <2> QED BY <2>1, <2>2, <2>3 DEF RouteInv, RouteIsKept, NotLost
  <1> QED BY <1>1, <1>2, <1>3, PTL DEF RouteSpec

-----------------------------------------------------------------------------
(* Sequences of sequences *)

\* A non-empty set of natural numbers has a least element.
LEMMA LeastNumber ==
  ASSUME NEW T \in SUBSET Nat, T # {}
  PROVE  \E m \in T : \A k \in T : m <= k
  <1> DEFINE R == OpToRel(<, Nat)
  <1>1. ASSUME NEW x \in Nat, NEW y \in Nat, x < y PROVE <<x, y>> \in R
    BY <1>1, Zenon DEF OpToRel
  <1>2. IsWellFoundedOn(R, Nat)
    BY NatLessThanWellFounded, Zenon
  <1> HIDE DEF R
  <1>3. PICK m \in T : \A k \in T : ~(<<k, m>> \in R)
    BY <1>2, WFMin
  <1>4. ASSUME NEW k \in T PROVE m <= k
    <2>1. k \in Nat /\ m \in Nat /\ <<k, m>> \notin R
      BY <1>3
    <2>2. ~(k < m)
      BY <1>1, <2>1
    <2> QED BY <2>1, <2>2
  <1> QED BY <1>4

\* The running concatenation of the first k sequences of ss.
Joins(f, ss, k) == f = [i \in 1 .. k |-> IF i = 1 THEN ss[i] ELSE f[i - 1] \o ss[i]]

\* The recursive function inside FlattenSeq exists.
LEMMA JoinsExist ==
  ASSUME NEW ss, NEW k \in Nat
  PROVE  \E f : Joins(f, ss, k)
  <1> DEFINE T == {m \in Nat : ~ \E f : Joins(f, ss, m)}
  <1> SUFFICES ASSUME T # {} PROVE FALSE
    OBVIOUS
  <1>1. PICK m \in T : \A j \in T : m <= j
    <2> T \in SUBSET Nat
      OBVIOUS
    <2> QED BY LeastNumber
  <1>2. CASE m = 0
    <2> DEFINE f == [i \in 1 .. 0 |-> 0]
    <2>1. Joins(f, ss, 0)
      BY DEF Joins
    <2> QED BY <1>1, <1>2, <2>1
  <1>3. CASE m # 0
    <2>1. m \in Nat /\ m - 1 \in Nat /\ ~(m <= m - 1)
      BY <1>1, <1>3
    <2>2. PICK f : Joins(f, ss, m - 1)
      BY <1>1, <2>1
    <2> DEFINE g == [i \in 1 .. m |-> IF i = m THEN IF i = 1 THEN ss[i] ELSE f[i - 1] \o ss[i]
                                      ELSE f[i]]
    <2>3. \A i \in 1 .. m : g[i] = IF i = 1 THEN ss[i] ELSE g[i - 1] \o ss[i]
      <3> TAKE i \in 1 .. m
      <3>1. CASE i = m
        BY <2>1, <3>1
      <3>2. CASE i # m
        <4>1. i \in 1 .. m - 1 /\ (i # 1 => i - 1 \in 1 .. m /\ i - 1 # m)
          BY <2>1, <3>2
        <4>2. f[i] = IF i = 1 THEN ss[i] ELSE f[i - 1] \o ss[i]
          BY <2>2, <4>1 DEF Joins
        <4>3. g[i] = f[i] /\ (i # 1 => g[i - 1] = f[i - 1])
          BY <3>2, <4>1
        <4> QED BY <4>2, <4>3
      <3> QED BY <3>1, <3>2
    <2>4. Joins(g, ss, m)
      <3> HIDE DEF g
      <3>1. g = [i \in 1 .. m |-> g[i]]
        BY DEF g
      <3> QED BY <2>3, <3>1 DEF Joins
    <2> QED BY <1>1, <2>4
  <1> QED BY <1>2, <1>3

\* FlattenSeq is the last of the running concatenations.
LEMMA FlattenJoins ==
  ASSUME NEW ss, Len(ss) \in Nat, Len(ss) # 0
  PROVE  \E f : Joins(f, ss, Len(ss)) /\ FlattenSeq(ss) = f[Len(ss)]
  <1> DEFINE c == CHOOSE f : Joins(f, ss, Len(ss))
  <1>1. Joins(c, ss, Len(ss))
    BY JoinsExist
  <1>2. FlattenSeq(ss) = c[Len(ss)]
    BY DEF FlattenSeq, Joins
  <1> QED BY <1>1, <1>2


\* No element stands at two places of the sequences in ss.
Apart(ss) ==
    \A i, j \in DOMAIN ss : \A a \in DOMAIN ss[i], b \in DOMAIN ss[j] :
        ss[i][a] = ss[j][b] => i = j /\ a = b

\* t is the concatenation of the first k sequences of ss, as far as it matters:
\* what it holds comes from them, and it repeats nothing if they do not.
JoinOf(t, ss, k, S) ==
    /\ t \in Seq(S)
    /\ \A x \in 1 .. Len(t) : \E i \in 1 .. k : \E a \in DOMAIN ss[i] : t[x] = ss[i][a]
    /\ Apart(ss) => \A x, y \in 1 .. Len(t) : t[x] = t[y] => x = y

\* Joining the next sequence.
LEMMA JoinNext ==
  ASSUME NEW S, NEW ss \in Seq(Seq(S)), NEW k \in Nat, k + 1 \in DOMAIN ss,
         NEW t, JoinOf(t, ss, k, S)
  PROVE  JoinOf(t \o ss[k + 1], ss, k + 1, S)
  <1> DEFINE u == ss[k + 1]
             v == t \o u
  <1>1. /\ u \in Seq(S) /\ t \in Seq(S)
        /\ DOMAIN u = 1 .. Len(u) /\ Len(u) \in Nat /\ Len(t) \in Nat
        /\ \A i \in 1 .. k : i \in DOMAIN ss /\ i # k + 1
    <2>1. DOMAIN ss = 1 .. Len(ss) /\ Len(ss) \in Nat
      BY LenProperties
    <2>2. u \in Seq(S)
      BY <2>1, ElementOfSeq
    <2>3. t \in Seq(S)
      BY DEF JoinOf
    <2> HIDE DEF u
    <2>4. DOMAIN u = 1 .. Len(u) /\ Len(u) \in Nat
      BY <2>2, LenProperties
    <2>5. Len(t) \in Nat
      BY <2>3, LenProperties
    <2>6. \A i \in 1 .. k : i \in DOMAIN ss /\ i # k + 1
      BY <2>1
    <2> QED BY <2>2, <2>3, <2>4, <2>5, <2>6
  <1> HIDE DEF u
  <1>2. /\ v \in Seq(S) /\ Len(v) = Len(t) + Len(u)
        /\ \A x \in 1 .. Len(t) + Len(u) :
             v[x] = IF x <= Len(t) THEN t[x] ELSE u[x - Len(t)]
    BY <1>1, ConcatProperties
  <1> HIDE DEF v
  <1>3. \A x \in 1 .. Len(v) : \/ x \in 1 .. Len(t) /\ v[x] = t[x]
                               \/ x - Len(t) \in 1 .. Len(u) /\ v[x] = u[x - Len(t)]
    <2> TAKE x \in 1 .. Len(v)
    <2>1. x \in 1 .. Len(t) + Len(u)
      BY <1>2
    <2>2. /\ x <= Len(t) => x \in 1 .. Len(t)
          /\ ~(x <= Len(t)) => x - Len(t) \in 1 .. Len(u)
      BY <1>1, <2>1
    <2> QED BY <1>2, <2>1, <2>2
  <1>4. ASSUME NEW x \in 1 .. Len(v)
        PROVE  \E i \in 1 .. k + 1 : \E a \in DOMAIN ss[i] : v[x] = ss[i][a]
    <2>1. CASE x \in 1 .. Len(t) /\ v[x] = t[x]
      <3>1. PICK i \in 1 .. k : \E a \in DOMAIN ss[i] : t[x] = ss[i][a]
        BY <2>1 DEF JoinOf
      <3>2. i \in 1 .. k + 1
        BY <3>1
      <3> QED BY <2>1, <3>1, <3>2
    <2>2. CASE x - Len(t) \in 1 .. Len(u) /\ v[x] = u[x - Len(t)]
      <3>1. k + 1 \in 1 .. k + 1 /\ x - Len(t) \in DOMAIN ss[k + 1] /\ v[x] = ss[k + 1][x - Len(t)]
        BY <1>1, <2>2 DEF u
      <3> QED BY <3>1
    <2> QED BY <1>3, <2>1, <2>2
  <1>5. ASSUME Apart(ss), NEW x \in 1 .. Len(v), NEW y \in 1 .. Len(v), v[x] = v[y]
        PROVE  x = y
    <2>1. ASSUME NEW p \in 1 .. Len(t), NEW q \in 1 .. Len(u) PROVE t[p] # u[q]
      <3>1. PICK i \in 1 .. k : \E a \in DOMAIN ss[i] : t[p] = ss[i][a]
        BY <2>1 DEF JoinOf
      <3>2. i \in DOMAIN ss /\ i # k + 1 /\ q \in DOMAIN ss[k + 1] /\ u[q] = ss[k + 1][q]
        BY <1>1, <2>1, <3>1 DEF u
      <3> QED BY <1>5, <3>1, <3>2 DEF Apart
    <2>2. ASSUME NEW p \in 1 .. Len(u), NEW q \in 1 .. Len(u), u[p] = u[q] PROVE p = q
      BY <1>1, <1>5, <2>2 DEF Apart, u
    <2>3. ASSUME NEW p \in 1 .. Len(t), NEW q \in 1 .. Len(t), t[p] = t[q] PROVE p = q
      BY <1>5, <2>3 DEF JoinOf
    <2>4. x \in Int /\ y \in Int /\ Len(t) \in Int
      BY <1>1, <1>2
    <2>5. (x - Len(t) = y - Len(t)) => x = y
      BY <2>4
    <2>6. CASE x \in 1 .. Len(t) /\ v[x] = t[x]
      BY <1>3, <1>5, <2>1, <2>3, <2>6
    <2>7. CASE x - Len(t) \in 1 .. Len(u) /\ v[x] = u[x - Len(t)]
      BY <1>3, <1>5, <2>1, <2>2, <2>5, <2>7
    <2> QED BY <1>3, <2>6, <2>7
  <1>6. JoinOf(v, ss, k + 1, S)
    BY <1>2, <1>4, <1>5 DEF JoinOf
  <1> QED BY <1>6 DEF v, u

\* FlattenSeq concatenates.
LEMMA Flattened ==
  ASSUME NEW S, NEW ss \in Seq(Seq(S))
  PROVE  JoinOf(FlattenSeq(ss), ss, Len(ss), S)
  <1>1. Len(ss) \in Nat /\ DOMAIN ss = 1 .. Len(ss) /\ \A i \in DOMAIN ss : ss[i] \in Seq(S)
    BY LenProperties, ElementOfSeq
  <1>2. CASE Len(ss) = 0
    <2>1. ss = <<>>
      BY <1>2, EmptySeq
    <2>2. FlattenSeq(ss) = <<>>
      BY <1>2, <2>1 DEF FlattenSeq
    <2> QED BY <2>2 DEF JoinOf
  <1>3. CASE Len(ss) # 0
    <2>1. PICK f : Joins(f, ss, Len(ss)) /\ FlattenSeq(ss) = f[Len(ss)]
      BY <1>1, <1>3, FlattenJoins
    <2>2. \A i \in 1 .. Len(ss) : f[i] = IF i = 1 THEN ss[i] ELSE f[i - 1] \o ss[i]
      BY <2>1 DEF Joins
    <2> DEFINE T == {k \in 1 .. Len(ss) : ~JoinOf(f[k], ss, k, S)}
    <2>3. T = {}
      <3> SUFFICES ASSUME T # {} PROVE FALSE
        OBVIOUS
      <3>1. PICK m \in T : \A j \in T : m <= j
        <4> T \in SUBSET Nat
          OBVIOUS
        <4> QED BY LeastNumber
      <3>2. m \in 1 .. Len(ss) /\ ~JoinOf(f[m], ss, m, S)
        BY <3>1
      <3>3. CASE m = 1
        <4>1. f[m] = ss[1]
          BY <2>2, <3>2, <3>3
        <4>2. ss[1] \in Seq(S) /\ DOMAIN ss[1] = 1 .. Len(ss[1]) /\ 1 \in DOMAIN ss /\ 1 \in 1 .. 1
          BY <1>1, <3>2, <3>3, LenProperties
        <4>3. JoinOf(ss[1], ss, 1, S)
          BY <4>2 DEF JoinOf, Apart
        <4> QED BY <3>2, <3>3, <4>1, <4>3
      <3>4. CASE m # 1
        <4> DEFINE k == m - 1
        <4>1. /\ k \in Nat /\ k + 1 = m /\ k \in 1 .. Len(ss) /\ ~(m <= k)
              /\ k + 1 \in DOMAIN ss
          BY <1>1, <3>2, <3>4
        <4>2. JoinOf(f[k], ss, k, S)
          BY <3>1, <4>1
        <4>3. f[m] = f[k] \o ss[m]
          BY <2>2, <3>2, <3>4
        <4> HIDE DEF k
        <4>4. JoinOf(f[k] \o ss[k + 1], ss, k + 1, S)
          BY <4>1, <4>2, JoinNext
        <4> QED BY <3>2, <4>1, <4>3, <4>4
      <3> QED BY <3>3, <3>4
    <2> QED BY <1>1, <1>3, <2>1, <2>3
  <1> QED BY <1>2, <1>3


-----------------------------------------------------------------------------
(* A running graph *)

\* A worker that sends the EOS of its node, and the workers of a node that send
\* nothing but that any more.
Ending(w) == pc[w] = "send" /\ cur[w] = Eos
Over(n) == {k \in 1 .. Threads[n] : pc[<<n, k>>] = "done" \/ Ending(<<n, k>>)}

\* An edge that carries its EOS.
HasEos(q) == \E i \in 1 .. Len(q) : q[i] = Eos

FlowTypeOK ==
    /\ graph \in Graphs
    /\ pc \in [Workers -> {"loop", "send", "eos", "done"}]
    /\ DOMAIN cur = Workers
    /\ DOMAIN result = Workers
    /\ DOMAIN todo = Workers
    /\ \A w \in Workers : todo[w] \in Seq(OutEdges(w[1]))
    /\ index \in [Workers -> Nat]
    /\ broadcasts \in [Nodes -> Nat]
    /\ DOMAIN sent = Edges
    /\ \A e \in Edges : sent[e] \in Seq(Range(sent[e]))

\* Every instance counted by broadcast_eos has sent its last packet, so that the
\* one that completes the count is alone when it sends the EOS.
CountedAreOver == \A n \in Nodes : broadcasts[n] <= Cardinality(Over(n))
EosAfterCount ==
    /\ \A w \in Workers : Ending(w) => broadcasts[w[1]] >= Threads[w[1]]
    /\ \A n \in Nodes : \A e \in OutEdges(n) : HasEos(sent[e]) => broadcasts[n] >= Threads[n]
OneEnds ==
    /\ \A v, w \in Workers : Ending(v) /\ Ending(w) /\ v[1] = w[1] => v = w
    /\ \A w \in Workers : Ending(w) =>
          /\ \A i, j \in 1 .. Len(todo[w]) : todo[w][i] = todo[w][j] => i = j
          /\ \A i \in 1 .. Len(todo[w]) : ~HasEos(sent[todo[w][i]])

FlowInv == FlowTypeOK /\ CountedAreOver /\ EosAfterCount /\ OneEnds /\ EosIsFinal /\ StopIsTheCause


\* What the assumption says of the running graph.
LEMMA GraphFacts ==
  ASSUME graph \in Graphs
  PROVE  /\ IsFiniteSet(Nodes)
         /\ Kind \in [Nodes -> Kinds]
         /\ Threads \in [Nodes -> Nat \ {0}]
         /\ Ports \in [Nodes -> Seq(Seq(Edges))]
         /\ \A n \in Nodes : Kind[n] = "round_robin" => Ports[n] # <<>>
         /\ \A n, m \in Nodes : \A i \in DOMAIN Ports[n], j \in DOMAIN Ports[m] :
              \A a \in DOMAIN Ports[n][i], b \in DOMAIN Ports[m][j] :
                Ports[n][i][a] = Ports[m][j][b] => n = m /\ i = j /\ a = b
         /\ Count \in Nat
  BY GraphAssumption DEF Nodes, Kind, Threads, Ports, Edges, Count, InPorts

\* The senders of a node belong to it alone.
LEMMA OutEdgesApart ==
  ASSUME graph \in Graphs, NEW n \in Nodes
  PROVE  /\ Ports[n] \in Seq(Seq(OutEdges(n)))
         /\ Apart(Ports[n])
         /\ OutEdges(n) \subseteq Edges
         /\ \A m \in Nodes : \A e \in OutEdges(n) : e \in OutEdges(m) => m = n
  <1>1. Ports[n] \in Seq(Seq(Edges)) /\ Len(Ports[n]) \in Nat
    BY GraphFacts, LenProperties
  <1>2. \A i \in 1 .. Len(Ports[n]) : Ports[n][i] \in Seq(Edges)
    BY <1>1, ElementOfSeq
  <1>3. \A i \in 1 .. Len(Ports[n]) : Ports[n][i] \in Seq(OutEdges(n))
    <2> TAKE i \in 1 .. Len(Ports[n])
    <2>1. /\ Ports[n][i] \in Seq(Edges) /\ i \in DOMAIN Ports[n]
          /\ DOMAIN Ports[n][i] = 1 .. Len(Ports[n][i]) /\ Len(Ports[n][i]) \in Nat
      BY <1>1, <1>2, LenProperties
    <2>2. \A a \in 1 .. Len(Ports[n][i]) : Ports[n][i][a] \in OutEdges(n)
      BY <2>1 DEF OutEdges, Range
    <2> QED BY <2>1, <2>2, IsASeq
  <1>4. Ports[n] \in Seq(Seq(OutEdges(n)))
    BY <1>1, <1>3, IsASeq
  <1>5. Apart(Ports[n])
    BY GraphFacts DEF Apart
  <1>6. ASSUME NEW m \in Nodes, NEW e \in OutEdges(m)
        PROVE  \E i \in DOMAIN Ports[m] : \E a \in DOMAIN Ports[m][i] : e = Ports[m][i][a]
    BY <1>6 DEF OutEdges, Range
  <1>7. OutEdges(n) \subseteq Edges
    <2> SUFFICES ASSUME NEW e \in OutEdges(n) PROVE e \in Edges
      OBVIOUS
    <2>1. PICK i \in DOMAIN Ports[n] : \E a \in DOMAIN Ports[n][i] : e = Ports[n][i][a]
      BY <1>6
    <2>2. Ports[n][i] \in Seq(Edges)
      BY <1>1, <1>2, LenProperties
    <2> QED BY <2>1, <2>2, LenProperties, ElementOfSeq
  <1>8. ASSUME NEW m \in Nodes, NEW e \in OutEdges(n), e \in OutEdges(m) PROVE m = n
    <2>1. PICK i \in DOMAIN Ports[n] : \E a \in DOMAIN Ports[n][i] : e = Ports[n][i][a]
      BY <1>6
    <2>2. PICK j \in DOMAIN Ports[m] : \E b \in DOMAIN Ports[m][j] : e = Ports[m][j][b]
      BY <1>6, <1>8
    <2>3. \A k \in DOMAIN Ports[n], l \in DOMAIN Ports[m] :
            \A a \in DOMAIN Ports[n][k], b \in DOMAIN Ports[m][l] :
              Ports[n][k][a] = Ports[m][l][b] => n = m
      BY GraphFacts
    <2> QED BY <2>1, <2>2, <2>3
  <1> QED BY <1>4, <1>5, <1>7, <1>8

\* What a send is given: all the senders of the node in port order, those of one
\* port, or all of them in the order of a broadcast, each sender once.
LEMMA SendsToOwn ==
  ASSUME graph \in Graphs, NEW n \in Nodes
  PROVE  /\ FlattenSeq(Ports[n]) \in Seq(OutEdges(n))
         /\ \A x, y \in 1 .. Len(FlattenSeq(Ports[n])) :
              FlattenSeq(Ports[n])[x] = FlattenSeq(Ports[n])[y] => x = y
         /\ \A k \in Nat : Kind[n] = "round_robin" =>
              /\ NextOutput(Ports[n], k) \in Seq(OutEdges(n))
              /\ \A x, y \in 1 .. Len(NextOutput(Ports[n], k)) :
                   NextOutput(Ports[n], k)[x] = NextOutput(Ports[n], k)[y] => x = y
         /\ \A t \in BroadcastOrders(n) :
              /\ t \in Seq(OutEdges(n))
              /\ \A x, y \in 1 .. Len(t) : t[x] = t[y] => x = y
  <1> DEFINE out == Ports[n]
             own == OutEdges(n)
  <1>1. out \in Seq(Seq(own)) /\ Apart(out)
    BY OutEdgesApart
  <1>2. Kind[n] = "round_robin" => out # <<>>
    BY GraphFacts
  <1> HIDE DEF out, own
  <1>3. Len(out) \in Nat /\ DOMAIN out = 1 .. Len(out) /\ \A i \in DOMAIN out : out[i] \in Seq(own)
    BY <1>1, LenProperties, ElementOfSeq
  <1>4. /\ FlattenSeq(out) \in Seq(own)
        /\ \A x, y \in 1 .. Len(FlattenSeq(out)) : FlattenSeq(out)[x] = FlattenSeq(out)[y] => x = y
    BY <1>1, Flattened DEF JoinOf
  <1>5. ASSUME NEW k \in Nat, Kind[n] = "round_robin"
        PROVE  /\ NextOutput(out, k) \in Seq(own)
               /\ \A x, y \in 1 .. Len(NextOutput(out, k)) :
                    NextOutput(out, k)[x] = NextOutput(out, k)[y] => x = y
    <2>1. Len(out) > 0
      BY <1>1, <1>2, <1>3, <1>5, EmptySeq
    <2>2. (k % Len(out)) + 1 \in 1 .. Len(out)
      BY <1>3, <1>5, <2>1
    <2>3. PICK i \in DOMAIN out : NextOutput(out, k) = out[i]
      BY <1>3, <2>2 DEF NextOutput
    <2>4. out[i] \in Seq(own) /\ DOMAIN out[i] = 1 .. Len(out[i])
      BY <1>3, LenProperties
    <2> QED BY <1>1, <2>3, <2>4 DEF Apart
  <1>6. ASSUME NEW t \in BroadcastOrders(n)
        PROVE  t \in Seq(own) /\ \A x, y \in 1 .. Len(t) : t[x] = t[y] => x = y
    <2>1. PICK f \in [DOMAIN out -> DOMAIN out] :
             IsInjective(f) /\ t = FlattenSeq([i \in DOMAIN out |-> out[f[i]]])
      BY DEF BroadcastOrders, out
    <2> DEFINE ss == [i \in DOMAIN out |-> out[f[i]]]
    <2>2. ss \in Seq(Seq(own))
      <3>1. \A i \in 1 .. Len(out) : out[f[i]] \in Seq(own)
        BY <1>3, <2>1
      <3> QED BY <1>3, <3>1, IsASeq
    <2>3. Apart(ss)
      <3> SUFFICES ASSUME NEW i \in DOMAIN ss, NEW j \in DOMAIN ss,
                          NEW a \in DOMAIN ss[i], NEW b \in DOMAIN ss[j], ss[i][a] = ss[j][b]
                   PROVE  i = j /\ a = b
        BY DEF Apart
      <3>1. f[i] \in DOMAIN out /\ f[j] \in DOMAIN out /\ ss[i] = out[f[i]] /\ ss[j] = out[f[j]]
        BY <2>1
      <3>2. f[i] = f[j] /\ a = b
        BY <1>1, <3>1 DEF Apart
      <3> QED BY <2>1, <3>2 DEF IsInjective
    <2>4. t = FlattenSeq(ss)
      BY <2>1
    <2> HIDE DEF ss
    <2> QED BY <2>2, <2>3, <2>4, Flattened DEF JoinOf
  <1> QED BY <1>4, <1>5, <1>6 DEF out, own


\* The steps of a worker, as far as the EOS and the stop flag are concerned: it
\* begins to send a packet, returns, goes on, or stays where it is.
BeginsData(w) ==
    /\ pc[w] = "loop" /\ pc' = [pc EXCEPT ![w] = "send"]
    /\ \E p : p # Eos /\ cur' = [cur EXCEPT ![w] = p]
    /\ \E t \in Seq(OutEdges(w[1])) : todo' = [todo EXCEPT ![w] = t]
    /\ UNCHANGED <<sent, broadcasts, result, stop>>
Leaves(w) ==
    /\ pc[w] \in {"loop", "send"}
    /\ \E r : Exit(w, r) /\ (r = "cancelled" => stop)
    /\ UNCHANGED <<cur, todo, sent, broadcasts>>
GoesOn(w) ==
    /\ pc[w] \in {"loop", "send"} /\ ~Ending(w)
    /\ \E l \in {"loop", "eos"} : pc' = [pc EXCEPT ![w] = l]
    /\ UNCHANGED <<cur, todo, sent, broadcasts, result, stop>>
Remains == UNCHANGED <<pc, cur, todo, sent, broadcasts, result, stop>>
Step(w) ==
    \/ BeginsData(w) \/ Leaves(w) \/ GoesOn(w) \/ Remains
    \/ SendOne(w) \/ BroadcastEos(w)

\* Nodes, threads and ports never change.
LEMMA GraphStays ==
  ASSUME graph' = graph
  PROVE  /\ Nodes' = Nodes /\ Workers' = Workers /\ Threads' = Threads
         /\ Edges' = Edges
         /\ \A n : OutEdges(n)' = OutEdges(n)
         /\ Kind' = Kind /\ Sinks' = Sinks /\ InPorts' = InPorts
  BY DEF Nodes, Workers, Threads, Edges, OutEdges, Ports, InPorts, Kind, Sinks

LEMMA WorkerFacts ==
  ASSUME graph \in Graphs
  PROVE  /\ \A w \in Workers : w[1] \in Nodes /\ w[2] \in 1 .. Threads[w[1]] /\ w = <<w[1], w[2]>>
         /\ \A n \in Nodes : \A k \in 1 .. Threads[n] : <<n, k>> \in Workers
         /\ \A w \in AllWorkers : w[1] \in Nodes /\ w[2] <= Threads[w[1]] => w \in Workers
  <1>1. \A w \in Workers : w[1] \in Nodes /\ w[2] \in 1 .. Threads[w[1]] /\ w = <<w[1], w[2]>>
    BY DEF Workers
  <1>2. \A n \in Nodes : \A k \in 1 .. Threads[n] : <<n, k>> \in Workers
    BY DEF Workers
  <1>3. ASSUME NEW w \in AllWorkers, w[1] \in Nodes, w[2] <= Threads[w[1]] PROVE w \in Workers
    <2>1. PICK g \in Graphs : \E n \in DOMAIN g.kind : w \in {n} \X (1 .. g.threads[n])
      BY DEF AllWorkers
    <2>2. PICK n \in DOMAIN g.kind : w \in {n} \X (1 .. g.threads[n])
      BY <2>1
    <2>3. g.threads[n] \in Nat
      BY <2>1, <2>2, GraphAssumption
    <2>4. w = <<w[1], w[2]>> /\ w[2] \in Nat /\ w[2] >= 1
      BY <2>2, <2>3
    <2>5. Threads[w[1]] \in Nat
      BY <1>3, GraphFacts
    <2>6. w[2] \in 1 .. Threads[w[1]]
      BY <1>3, <2>4, <2>5
    <2> QED BY <1>2, <1>3, <2>4, <2>6
  <1> QED BY <1>1, <1>2, <1>3


\* A step of a worker is one of them.
LEMMA WorkerSteps ==
  ASSUME FlowTypeOK, NEW w \in Workers, Worker(w)
  PROVE  Step(w) /\ index' \in [Workers -> Nat]
  <1> DEFINE n == w[1]
  <1>1. n \in Nodes /\ graph \in Graphs
    BY WorkerFacts DEF FlowTypeOK
  <1>2. /\ FlattenSeq(Ports[n]) \in Seq(OutEdges(n))
        /\ Kind[n] = "round_robin" => NextOutput(Ports[n], index[w]) \in Seq(OutEdges(n))
    BY <1>1, SendsToOwn DEF FlowTypeOK
  <1>3. index \in [Workers -> Nat]
    BY DEF FlowTypeOK
  <1>4. CASE SourceNext(w)
    <2>1. CASE stop
      BY <1>3, <1>4, <2>1 DEF SourceNext, Step, Leaves
    <2>2. CASE ~stop /\ UnknownPort(n)
      BY <1>3, <1>4, <2>2 DEF SourceNext, Step, Leaves
    <2>3. CASE ~stop /\ ~UnknownPort(n)
      <3>1. <<n, index[w] + 1>> # Eos
        BY DEF Eos
      <3>2. BeginsData(w)
        BY <1>2, <1>4, <2>3, <3>1 DEF SourceNext, BeginsData, BeginSend, Goto
      <3>3. index' \in [Workers -> Nat]
        BY <1>3, <1>4, <2>3 DEF SourceNext
      <3> QED BY <3>2, <3>3 DEF Step
    <2> QED BY <2>1, <2>2, <2>3
  <1>5. CASE SourceEnd(w)
    BY <1>3, <1>5 DEF SourceEnd, Step, GoesOn, Goto, Ending
  <1>6. CASE RecvData(w)
    <2> DEFINE p == Head(pipe[Port(w)])
    <2>1. p # Eos /\ pc[w] = "loop" /\ UNCHANGED <<broadcasts, sent>>
      BY <1>6 DEF RecvData, Receiving
    <2>2. \/ FailOn(w, "fatal") \/ Process(w, p)
      BY <1>6 DEF RecvData
    <2>3. ASSUME NEW r, r # "cancelled", FailOn(w, r) PROVE Step(w) /\ index' \in [Workers -> Nat]
      BY <1>3, <2>1, <2>3 DEF FailOn, Step, Leaves
    <2>4. CASE Swallow(w)
      BY <1>3, <2>1, <2>4 DEF Swallow, Stay, Step, Remains
    <2>5. CASE Forward(w, p, FlattenSeq(Ports[n]))
      <3>1. CASE UnknownPort(n)
        BY <2>3, <2>5, <3>1 DEF Forward
      <3>2. CASE ~UnknownPort(n)
        BY <1>2, <1>3, <2>1, <2>5, <3>2 DEF Forward, BeginSend, Goto, Step, BeginsData
      <3> QED BY <3>1, <3>2
    <2>6. CASE /\ Kind[n] = "round_robin"
               /\ BeginSend(w, p, NextOutput(Ports[n], index[w]))
               /\ index' = [index EXCEPT ![w] = @ + 1]
               /\ Goto(w, "send")
      <3>1. index' \in [Workers -> Nat]
        BY <1>3, <2>6
      <3> DEFINE t == NextOutput(Ports[n], index[w])
      <3>2. t \in Seq(OutEdges(n)) /\ todo' = [todo EXCEPT ![w] = t] /\ cur' = [cur EXCEPT ![w] = p]
        BY <1>2, <2>6 DEF BeginSend
      <3> HIDE DEF t, p
      <3>3. BeginsData(w)
        BY <2>1, <2>6, <3>2 DEF Goto, BeginsData
      <3> QED BY <3>1, <3>3 DEF Step
    <2>7. CASE Stay /\ UNCHANGED <<cur, todo, index>>
      BY <1>3, <2>1, <2>7 DEF Stay, Step, Remains
    <2>8. CASE FailOn(w, "fatal")
      BY <2>3, <2>8
    <2>9. CASE Process(w, p)
      <3> HIDE DEF p
      <3>1. CASE FailOn(w, "badframe")
        BY <2>3, <3>1
      <3> QED BY <2>4, <2>5, <2>6, <2>7, <2>9, <3>1 DEF Process
    <2> QED BY <2>2, <2>8, <2>9
  <1>7. ASSUME NEW e, pc[w] = "loop", EndOfStream(w, e),
               UNCHANGED <<cur, todo, index, sent, broadcasts>>
        PROVE  Step(w) /\ index' \in [Workers -> Nat]
    <2>1. CASE Stay
      BY <1>3, <1>7, <2>1 DEF Stay, Step, Remains
    <2>2. CASE Exit(w, "ok")
      BY <1>3, <1>7, <2>2 DEF Step, Leaves
    <2>3. CASE Goto(w, "eos")
      BY <1>3, <1>7, <2>3 DEF Goto, Step, GoesOn, Ending
    <2> QED BY <1>7, <2>1, <2>2, <2>3 DEF EndOfStream, IsConverger
  <1>8. CASE RecvEos(w)
    BY <1>7, <1>8 DEF RecvEos, Receiving
  <1>9. CASE RecvTimeout(w)
    <2>1. pc[w] = "loop" /\ UNCHANGED <<cur, todo, index, sent, broadcasts>>
      BY <1>9 DEF RecvTimeout, Receiving
    <2>2. CASE stop /\ Exit(w, "cancelled")
      BY <1>3, <2>1, <2>2 DEF Step, Leaves
    <2>3. CASE Stay
      BY <1>3, <2>1, <2>3 DEF Stay, Step, Remains
    <2> QED BY <1>7, <1>9, <2>1, <2>2, <2>3 DEF RecvTimeout
  <1>10. CASE ConvergerRound(w)
    <2>1. pc[w] = "loop" /\ UNCHANGED <<cur, todo, index, sent, broadcasts>>
      BY <1>10 DEF ConvergerRound
    <2>2. CASE stop /\ Exit(w, "cancelled")
      BY <1>3, <2>1, <2>2 DEF Step, Leaves
    <2>3. CASE Stay
      BY <1>3, <2>1, <2>3 DEF Stay, Step, Remains
    <2>4. CASE Goto(w, "eos")
      BY <1>3, <2>1, <2>4 DEF Goto, Step, GoesOn, Ending
    <2> QED BY <1>10, <2>2, <2>3, <2>4 DEF ConvergerRound
  <1>11. CASE SendOne(w)
    BY <1>3, <1>11 DEF SendOne, Step
  <1>12. CASE SendCancelled(w)
    BY <1>3, <1>12 DEF SendCancelled, Step, Leaves
  <1>13. CASE SendDone(w)
    BY <1>3, <1>13 DEF SendDone, Step, Leaves, GoesOn, Goto, Ending
  <1>14. CASE BroadcastEos(w)
    BY <1>3, <1>14 DEF BroadcastEos, Step
  <1>15. CASE Poll(w)
    BY <1>3, <1>15 DEF Poll, vars, Step, Remains
  <1> QED BY <1>4, <1>5, <1>6, <1>8, <1>9, <1>10, <1>11, <1>12, <1>13, <1>14, <1>15 DEF Worker


\* The workers of a node that are over: at most all of them; once they are as many
\* as the node has threads, nobody of that node is left who could send.
LEMMA OverFinite ==
  ASSUME FlowTypeOK, NEW n \in Nodes
  PROVE  /\ IsFiniteSet(Over(n)) /\ Cardinality(Over(n)) \in Nat
         /\ Over(n) \subseteq 1 .. Threads[n] /\ Threads[n] \in Nat \ {0}
         /\ Cardinality(Over(n)) >= Threads[n] => Over(n) = 1 .. Threads[n]
  <1>1. Threads[n] \in Nat \ {0}
    BY GraphFacts DEF FlowTypeOK
  <1>2. IsFiniteSet(1 .. Threads[n]) /\ Cardinality(1 .. Threads[n]) = Threads[n]
    BY <1>1, FS_Interval
  <1>3. Over(n) \subseteq 1 .. Threads[n]
    BY DEF Over
  <1>4. IsFiniteSet(Over(n)) /\ Cardinality(Over(n)) \in Nat
    BY <1>2, <1>3, FS_Subset, FS_CardinalityType
  <1>5. ASSUME Cardinality(Over(n)) >= Threads[n] PROVE Over(n) = 1 .. Threads[n]
    <2> DEFINE I == 1 .. Threads[n]
    <2>1. IsFiniteSet(I) /\ Over(n) \subseteq I /\ Cardinality(I) = Threads[n]
      BY <1>2, <1>3
    <2> HIDE DEF I
    <2>2. /\ Cardinality(Over(n)) <= Cardinality(I)
          /\ Cardinality(Over(n)) = Cardinality(I) => Over(n) = I
      BY <2>1, FS_Subset
    <2>3. Cardinality(Over(n)) = Cardinality(I)
      BY <1>1, <1>4, <1>5, <2>1, <2>2
    <2> QED BY <2>2, <2>3 DEF I
  <1> QED BY <1>1, <1>3, <1>4, <1>5

LEMMA NobodyLeft ==
  ASSUME FlowTypeOK, CountedAreOver, NEW w \in Workers, broadcasts[w[1]] >= Threads[w[1]]
  PROVE  pc[w] = "done" \/ Ending(w)
  <1> DEFINE n == w[1]
  <1>1. n \in Nodes /\ w[2] \in 1 .. Threads[n] /\ w = <<n, w[2]>>
    BY WorkerFacts DEF FlowTypeOK
  <1>2. broadcasts[n] \in Nat /\ broadcasts[n] <= Cardinality(Over(n))
    BY <1>1 DEF FlowTypeOK, CountedAreOver
  <1>3. Over(n) = 1 .. Threads[n]
    BY <1>1, <1>2, OverFinite
  <1>4. w[2] \in Over(n)
    BY <1>1, <1>3
  <1> QED BY <1>1, <1>4 DEF Over

\* If whoever is over stays over, the count still holds.
LEMMA OverGrows ==
  ASSUME FlowTypeOK, CountedAreOver, graph' = graph, broadcasts' = broadcasts,
         \A w \in Workers : (pc[w] = "done" \/ Ending(w)) => (pc'[w] = "done" \/ Ending(w)')
  PROVE  CountedAreOver'
  <1>1. Nodes' = Nodes /\ Threads' = Threads
    BY GraphStays
  <1> SUFFICES ASSUME NEW n \in Nodes PROVE broadcasts[n] <= Cardinality(Over(n)')
    BY <1>1 DEF CountedAreOver
  <1>2. /\ IsFiniteSet(Over(n)) /\ Cardinality(Over(n)) \in Nat
        /\ Over(n) \subseteq 1 .. Threads[n] /\ Threads[n] \in Nat
    BY OverFinite
  <1>3. Over(n)' = {k \in 1 .. Threads[n] : pc'[<<n, k>>] = "done" \/ Ending(<<n, k>>)'}
    BY <1>1 DEF Over
  <1>4. \A k \in 1 .. Threads[n] : <<n, k>> \in Workers
    BY WorkerFacts DEF FlowTypeOK
  <1>5. Over(n) \subseteq Over(n)'
    BY <1>3, <1>4 DEF Over
  <1>6. IsFiniteSet(1 .. Threads[n]) /\ Over(n)' \subseteq 1 .. Threads[n]
    <2>1. 1 \in Int /\ Threads[n] \in Int
      BY <1>2
    <2>2. IsFiniteSet(1 .. Threads[n])
      BY <2>1, FS_Interval
    <2> QED BY <1>3, <2>2
  <1>7. IsFiniteSet(Over(n)') /\ Cardinality(Over(n)') \in Nat
    BY <1>6, FS_Subset, FS_CardinalityType
  <1>8. Cardinality(Over(n)) <= Cardinality(Over(n)')
    BY <1>5, <1>7, FS_Subset
  <1>9. broadcasts[n] \in Nat /\ broadcasts[n] <= Cardinality(Over(n))
    BY DEF FlowTypeOK, CountedAreOver
  <1> QED BY <1>2, <1>7, <1>8, <1>9


\* The types are kept: what is sent goes to the node's own edges.
LEMMA SeqOfItsRange ==
  ASSUME NEW S, NEW t \in Seq(S)
  PROVE  t \in Seq(Range(t))
  <1>1. Len(t) \in Nat /\ DOMAIN t = 1 .. Len(t) /\ t = [i \in 1 .. Len(t) |-> t[i]]
    BY LenProperties
  <1>2. \A i \in 1 .. Len(t) : t[i] \in Range(t)
    BY <1>1 DEF Range
  <1> QED BY <1>1, <1>2, IsASeq

LEMMA AppendAny ==
  ASSUME NEW S, NEW s \in Seq(S), NEW x
  PROVE  /\ Append(s, x) \in Seq(S \cup {x})
         /\ Len(Append(s, x)) = Len(s) + 1 /\ Len(s) \in Nat
         /\ \A i \in 1 .. Len(s) : Append(s, x)[i] = s[i]
         /\ Append(s, x)[Len(s) + 1] = x
  <1>1. s \in Seq(S \cup {x}) /\ Len(s) \in Nat
    BY SeqMonotonic, LenProperties
  <1> QED BY <1>1, AppendProperties

LEMMA FlowTypeStep ==
  ASSUME FlowTypeOK, NEW w \in Workers, Step(w), index' \in [Workers -> Nat], graph' = graph
  PROVE  FlowTypeOK'
  <1>1. /\ Nodes' = Nodes /\ Workers' = Workers /\ Edges' = Edges
        /\ \A n : OutEdges(n)' = OutEdges(n)
    BY GraphStays
  <1>2. /\ graph \in Graphs /\ w[1] \in Nodes
        /\ pc \in [Workers -> {"loop", "send", "eos", "done"}]
        /\ DOMAIN cur = Workers /\ DOMAIN result = Workers /\ DOMAIN todo = Workers
        /\ \A v \in Workers : todo[v] \in Seq(OutEdges(v[1]))
        /\ broadcasts \in [Nodes -> Nat]
        /\ DOMAIN sent = Edges /\ \A e \in Edges : sent[e] \in Seq(Range(sent[e]))
    BY WorkerFacts DEF FlowTypeOK
  <1>3. SUFFICES /\ pc' \in [Workers -> {"loop", "send", "eos", "done"}]
                 /\ DOMAIN cur' = Workers /\ DOMAIN result' = Workers /\ DOMAIN todo' = Workers
                 /\ \A v \in Workers : todo'[v] \in Seq(OutEdges(v[1]))
                 /\ broadcasts' \in [Nodes -> Nat]
                 /\ DOMAIN sent' = Edges /\ \A e \in Edges : sent'[e] \in Seq(Range(sent'[e]))
    BY <1>1, <1>2 DEF FlowTypeOK
  <1>4. CASE BeginsData(w)
    BY <1>2, <1>4 DEF BeginsData
  <1>5. CASE Leaves(w)
    BY <1>2, <1>5 DEF Leaves, Exit
  <1>6. CASE GoesOn(w)
    BY <1>2, <1>6 DEF GoesOn
  <1>7. CASE Remains
    BY <1>2, <1>7 DEF Remains
  <1>8. CASE SendOne(w)
    <2> DEFINE e == Head(todo[w])
    <2>1. /\ todo[w] # <<>> /\ todo[w] \in Seq(OutEdges(w[1]))
          /\ todo' = [todo EXCEPT ![w] = Tail(todo[w])]
          /\ sent' = [sent EXCEPT ![e] = Append(sent[e], cur[w])]
          /\ UNCHANGED <<pc, cur, result, broadcasts>>
      BY <1>2, <1>8 DEF SendOne
    <2>2. Tail(todo[w]) \in Seq(OutEdges(w[1])) /\ e \in OutEdges(w[1])
      BY <2>1, HeadTailProperties
    <2>3. e \in Edges /\ sent[e] \in Seq(Range(sent[e]))
      BY <1>2, <2>2, OutEdgesApart
    <2>4. Append(sent[e], cur[w]) \in Seq(Range(Append(sent[e], cur[w])))
      <3> HIDE DEF e
      <3>1. Append(sent[e], cur[w]) \in Seq(Range(sent[e]) \cup {cur[w]})
        BY <2>3, AppendAny
      <3> QED BY <3>1, SeqOfItsRange
    <2> HIDE DEF e
    <2>5. DOMAIN sent' = Edges /\ \A d \in Edges : sent'[d] \in Seq(Range(sent'[d]))
      BY <1>2, <2>1, <2>3, <2>4
    <2>6. DOMAIN todo' = Workers /\ \A v \in Workers : todo'[v] \in Seq(OutEdges(v[1]))
      BY <1>2, <2>1, <2>2
    <2> QED BY <1>2, <2>1, <2>5, <2>6
  <1>9. CASE BroadcastEos(w)
    <2>1. broadcasts' \in [Nodes -> Nat] /\ UNCHANGED sent
      BY <1>2, <1>9 DEF BroadcastEos
    <2>2. \/ Exit(w, "ok") /\ UNCHANGED <<cur, todo>>
          \/ Goto(w, "send") /\ \E t \in BroadcastOrders(w[1]) : BeginSend(w, Eos, t)
      BY <1>9 DEF BroadcastEos
    <2>3. \A t \in BroadcastOrders(w[1]) : t \in Seq(OutEdges(w[1]))
      BY <1>2, SendsToOwn
    <2> QED BY <1>2, <2>1, <2>2, <2>3 DEF Exit, Goto, BeginSend
  <1> QED BY <1>4, <1>5, <1>6, <1>7, <1>8, <1>9 DEF Step

\* A step that sends nothing and counts nothing.
LEMMA QuietStep ==
  ASSUME FlowTypeOK, CountedAreOver, EosAfterCount, OneEnds, EosIsFinal,
         graph' = graph, UNCHANGED <<sent, broadcasts>>,
         \A v \in Workers : (pc[v] = "done" \/ Ending(v)) => (pc'[v] = "done" \/ Ending(v)'),
         \A v \in Workers : Ending(v)' => Ending(v) /\ todo'[v] = todo[v]
  PROVE  CountedAreOver' /\ EosAfterCount' /\ OneEnds' /\ EosIsFinal'
  <1>1. /\ Nodes' = Nodes /\ Workers' = Workers /\ Edges' = Edges /\ Threads' = Threads
        /\ \A n : OutEdges(n)' = OutEdges(n)
    BY GraphStays
  <1>2. CountedAreOver'
    BY OverGrows
  <1>3. \A e : HasEos(sent'[e]) <=> HasEos(sent[e])
    BY DEF HasEos
  <1>4. EosAfterCount'
    BY <1>1, <1>3 DEF EosAfterCount
  <1>5. OneEnds'
    BY <1>1, <1>3 DEF OneEnds
  <1>6. EosIsFinal'
    BY <1>1 DEF EosIsFinal, Eos
  <1> QED BY <1>2, <1>4, <1>5, <1>6


\* A packet put on an edge: no instance of the node can have ended the edge while
\* another still sends, and the EOS itself goes to an edge that has none yet.
LEMMA SendOneKeeps ==
  ASSUME FlowTypeOK, CountedAreOver, EosAfterCount, OneEnds, EosIsFinal,
         NEW w \in Workers, SendOne(w), graph' = graph
  PROVE  CountedAreOver' /\ EosAfterCount' /\ OneEnds' /\ EosIsFinal'
  <1> DEFINE n == w[1]
  <1>0. PICK e : e = Head(todo[w])
    OBVIOUS
  <1>1. /\ Nodes' = Nodes /\ Workers' = Workers /\ Edges' = Edges /\ Threads' = Threads
        /\ \A m : OutEdges(m)' = OutEdges(m)
    BY GraphStays
  <1>2. /\ todo[w] # <<>> /\ pc[w] = "send"
        /\ todo' = [todo EXCEPT ![w] = Tail(todo[w])]
        /\ sent' = [sent EXCEPT ![e] = Append(sent[e], cur[w])]
        /\ UNCHANGED <<pc, cur, broadcasts>>
    BY <1>0 DEF SendOne
  <1>3. /\ graph \in Graphs /\ n \in Nodes /\ DOMAIN todo = Workers
        /\ \A v \in Workers : v[1] \in Nodes /\ todo[v] \in Seq(OutEdges(v[1]))
        /\ DOMAIN sent = Edges /\ \A d \in Edges : sent[d] \in Seq(Range(sent[d]))
        /\ broadcasts \in [Nodes -> Nat] /\ Threads[n] \in Nat
        /\ pc \in [Workers -> {"loop", "send", "eos", "done"}]
    BY WorkerFacts, GraphFacts DEF FlowTypeOK
  <1>4. /\ e \in OutEdges(n) /\ todo[w] \in Seq(OutEdges(n))
        /\ Len(todo[w]) \in Nat /\ 1 \in 1 .. Len(todo[w]) /\ todo[w][1] = e
        /\ Tail(todo[w]) \in Seq(OutEdges(n)) /\ Len(Tail(todo[w])) = Len(todo[w]) - 1
        /\ \A i \in 1 .. Len(Tail(todo[w])) : Tail(todo[w])[i] = todo[w][i + 1]
    BY <1>0, <1>2, <1>3, HeadTailProperties, LenProperties
  <1>5. e \in Edges /\ \A m \in Nodes : e \in OutEdges(m) => m = n
    BY <1>3, <1>4, OutEdgesApart
  <1>6. ~HasEos(sent[e])
    <2>1. CASE cur[w] = Eos
      BY <1>2, <1>4, <2>1 DEF OneEnds, Ending
    <2>2. CASE cur[w] # Eos
      <3>1. ~(broadcasts[n] >= Threads[n])
        BY <1>2, <2>2, NobodyLeft DEF Ending
      <3> QED BY <1>3, <1>4, <3>1 DEF EosAfterCount
    <2> QED BY <2>1, <2>2
  <1> DEFINE s == sent[e]
             s1 == Append(s, cur[w])
  <1>7. /\ Len(s1) = Len(s) + 1 /\ Len(s) \in Nat
        /\ \A i \in 1 .. Len(s) : s1[i] = s[i]
        /\ s1[Len(s) + 1] = cur[w]
    BY <1>3, <1>5, AppendAny
  <1> HIDE DEF s1
  <1>8. sent' = [sent EXCEPT ![e] = s1]
    BY <1>2 DEF s1
  <1> HIDE DEF s
  <1>9. \A i \in 1 .. Len(s) : s[i] # Eos
    BY <1>6 DEF HasEos, s
  <1>10. sent'[e] = s1 /\ \A d \in Edges : d # e => sent'[d] = sent[d]
    BY <1>3, <1>5, <1>8
  <1>11. \A i \in 1 .. Len(s1) - 1 : s1[i] # Eos
    BY <1>7, <1>9
  <1>12. EosIsFinal'
    <2> SUFFICES ASSUME NEW d \in Edges, NEW i \in 1 .. (Len(sent'[d]) - 1) PROVE sent'[d][i] # Eos
      BY <1>1 DEF EosIsFinal, Eos
    <2>1. CASE d = e
      BY <1>10, <1>11, <2>1
    <2>2. CASE d # e
      BY <1>10, <2>2 DEF EosIsFinal
    <2> QED BY <2>1, <2>2
  <1>13. /\ \A d \in Edges : d # e => (HasEos(sent'[d]) <=> HasEos(sent[d]))
         /\ HasEos(sent'[e]) => cur[w] = Eos
    <2>1. \A d \in Edges : d # e => (HasEos(sent'[d]) <=> HasEos(sent[d]))
      BY <1>10 DEF HasEos, Eos
    <2>2. ASSUME HasEos(sent'[e]) PROVE cur[w] = Eos
      <3>1. PICK i \in 1 .. Len(s1) : s1[i] = Eos
        BY <1>10, <2>2 DEF HasEos, Eos
      <3>2. i = Len(s) + 1
        BY <1>7, <1>9, <3>1
      <3> QED BY <1>7, <3>1, <3>2
    <2> QED BY <2>1, <2>2
  <1>14. \A v : Ending(v)' <=> Ending(v)
    BY <1>2 DEF Ending, Eos
  <1>15. EosAfterCount'
    <2>1. \A v \in Workers : Ending(v)' => broadcasts'[v[1]] >= Threads'[v[1]]
      BY <1>1, <1>2, <1>14 DEF EosAfterCount
    <2>2. ASSUME NEW m \in Nodes, NEW d \in OutEdges(m), HasEos(sent'[d]) PROVE broadcasts[m] >= Threads[m]
      <3>1. d \in Edges
        BY <1>3, OutEdgesApart
      <3>2. CASE d = e
        <4>1. m = n /\ cur[w] = Eos
          BY <1>5, <1>13, <2>2, <3>2
        <4> QED BY <1>2, <4>1 DEF EosAfterCount, Ending
      <3>3. CASE d # e
        BY <1>13, <2>2, <3>1, <3>3 DEF EosAfterCount
      <3> QED BY <3>2, <3>3
    <2> QED BY <1>1, <1>2, <2>1, <2>2 DEF EosAfterCount
  <1>16. OneEnds'
    <2>1. \A u, v \in Workers : Ending(u)' /\ Ending(v)' /\ u[1] = v[1] => u = v
      BY <1>14 DEF OneEnds
    <2>2. ASSUME NEW v \in Workers, Ending(v)
          PROVE  /\ \A i, j \in 1 .. Len(todo'[v]) : todo'[v][i] = todo'[v][j] => i = j
                 /\ \A i \in 1 .. Len(todo'[v]) : ~HasEos(sent'[todo'[v][i]])
      <3>1. /\ \A i, j \in 1 .. Len(todo[v]) : todo[v][i] = todo[v][j] => i = j
            /\ \A i \in 1 .. Len(todo[v]) : ~HasEos(sent[todo[v][i]])
        BY <2>2 DEF OneEnds
      <3>2. CASE v = w
        <4>1. /\ todo'[v] = Tail(todo[w])
              /\ \A i \in 1 .. Len(todo'[v]) : /\ i + 1 \in 1 .. Len(todo[w]) /\ i + 1 # 1
                                               /\ todo'[v][i] = todo[w][i + 1]
                                               /\ todo'[v][i] \in OutEdges(n)
          <5>1. todo'[v] = Tail(todo[w])
            BY <1>2, <1>3, <3>2
          <5>2. \A i \in 1 .. Len(Tail(todo[w])) : Tail(todo[w])[i] \in OutEdges(n)
            BY <1>4, ElementOfSeq
          <5>3. \A i \in 1 .. Len(todo[w]) - 1 : i + 1 \in 1 .. Len(todo[w]) /\ i + 1 # 1
            BY <1>4
          <5> QED BY <1>4, <5>1, <5>2, <5>3
        <4>2. \A i, j \in 1 .. Len(todo'[v]) : todo'[v][i] = todo'[v][j] => i = j
          <5> SUFFICES ASSUME NEW i \in 1 .. Len(todo'[v]), NEW j \in 1 .. Len(todo'[v]),
                              todo'[v][i] = todo'[v][j]
                       PROVE  i = j
            OBVIOUS
          <5>1. i + 1 = j + 1
            BY <3>1, <3>2, <4>1
          <5>2. i \in Int /\ j \in Int
            BY <1>4, <4>1
          <5> QED BY <5>1, <5>2
        <4>3. ASSUME NEW i \in 1 .. Len(todo'[v]) PROVE ~HasEos(sent'[todo'[v][i]])
          <5>1. todo'[v][i] # e /\ ~HasEos(sent[todo'[v][i]])
            BY <1>4, <3>1, <3>2, <4>1
          <5>2. todo'[v][i] \in Edges
            BY <1>3, <4>1, OutEdgesApart
          <5>3. PICK d \in Edges : d = todo'[v][i]
            BY <5>2
          <5>4. ~HasEos(sent'[d])
            BY <1>13, <5>1, <5>3
          <5> QED BY <5>3, <5>4 DEF HasEos
        <4> QED BY <4>2, <4>3
      <3>3. CASE v # w
        <4>1. todo'[v] = todo[v]
          BY <1>2, <1>3, <3>3
        <4>2. ASSUME NEW i \in 1 .. Len(todo[v]) PROVE ~HasEos(sent'[todo'[v][i]])
          <5>1. todo[v][i] \in OutEdges(v[1]) /\ v[1] \in Nodes
            BY <1>3, ElementOfSeq
          <5>2. PICK d \in Edges : d = todo[v][i]
            BY <1>3, <5>1, OutEdgesApart
          <5>3. ~HasEos(sent[d])
            BY <3>1, <5>2
          <5>4. d = e => ~HasEos(sent'[e])
            <6>1. SUFFICES ASSUME d = e, cur[w] = Eos PROVE FALSE
              BY <1>13
            <6>2. Ending(w) /\ v[1] = n
              BY <1>2, <1>5, <5>1, <5>2, <6>1 DEF Ending
            <6> QED BY <2>2, <3>3, <6>2 DEF OneEnds
          <5>5. ~HasEos(sent'[d])
            <6>1. CASE d = e
              BY <5>4, <6>1 DEF HasEos, Eos
            <6>2. CASE d # e
              BY <1>13, <5>3, <6>2
            <6> QED BY <6>1, <6>2
          <5> QED BY <4>1, <5>2, <5>5 DEF HasEos
        <4> QED BY <3>1, <4>1, <4>2
      <3> QED BY <3>2, <3>3
    <2> QED BY <1>1, <1>14, <2>1, <2>2 DEF OneEnds
  <1>17. CountedAreOver'
    BY <1>2, <1>14, OverGrows
  <1> QED BY <1>12, <1>15, <1>16, <1>17


\* An instance is counted: it sends nothing but the EOS after that, and that only
\* when it is the last of its node to be counted.
LEMMA BroadcastKeeps ==
  ASSUME FlowTypeOK, CountedAreOver, EosAfterCount, OneEnds, EosIsFinal,
         NEW w \in Workers, BroadcastEos(w), graph' = graph
  PROVE  CountedAreOver' /\ EosAfterCount' /\ OneEnds' /\ EosIsFinal'
  <1> DEFINE n == w[1]
             k == w[2]
             b == broadcasts[n]
  <1>1. /\ Nodes' = Nodes /\ Workers' = Workers /\ Edges' = Edges /\ Threads' = Threads
        /\ \A m : OutEdges(m)' = OutEdges(m)
    BY GraphStays
  <1>2. /\ pc[w] = "eos" /\ sent' = sent
        /\ broadcasts' = [broadcasts EXCEPT ![n] = b + 1]
        /\ \/ /\ b + 1 = Threads[n]
              /\ \E t \in BroadcastOrders(n) : todo' = [todo EXCEPT ![w] = t]
              /\ cur' = [cur EXCEPT ![w] = Eos]
              /\ pc' = [pc EXCEPT ![w] = "send"]
           \/ /\ b + 1 # Threads[n]
              /\ UNCHANGED <<cur, todo>>
              /\ pc' = [pc EXCEPT ![w] = "done"]
    BY DEF BroadcastEos, BeginSend, Goto, Exit, IsLastBroadcast
  <1>3. /\ graph \in Graphs /\ n \in Nodes /\ DOMAIN todo = Workers /\ DOMAIN cur = Workers
        /\ \A v \in Workers : v[1] \in Nodes /\ v = <<v[1], v[2]>> /\ todo[v] \in Seq(OutEdges(v[1]))
        /\ broadcasts \in [Nodes -> Nat] /\ Threads \in [Nodes -> Nat \ {0}] /\ k \in 1 .. Threads[n]
        /\ w = <<n, k>>
        /\ pc \in [Workers -> {"loop", "send", "eos", "done"}]
    BY WorkerFacts, GraphFacts DEF FlowTypeOK
  <1>4. ~(b >= Threads[n]) /\ b \in Nat /\ Threads[n] \in Nat
    BY <1>2, <1>3, NobodyLeft DEF Ending
  <1>5. \A v \in Workers : v # w => (Ending(v)' <=> Ending(v)) /\ todo'[v] = todo[v] /\ pc'[v] = pc[v]
    BY <1>2, <1>3 DEF Ending, Eos
  <1>6. pc'[w] = "done" \/ Ending(w)'
    BY <1>2, <1>3 DEF Ending, Eos
  <1>7. \A v \in Workers : Ending(v) => v[1] # n
    BY <1>3, <1>4 DEF EosAfterCount
  <1>8. \A e \in OutEdges(n) : ~HasEos(sent[e])
    BY <1>3, <1>4 DEF EosAfterCount
  <1>9. Ending(w)' => b + 1 = Threads[n] /\ todo'[w] \in BroadcastOrders(n)
    BY <1>2, <1>3 DEF Ending
  <1>10. \A m \in Nodes : /\ broadcasts'[m] >= broadcasts[m]
                          /\ broadcasts'[m] \in Nat /\ broadcasts[m] \in Nat
                          /\ Threads[m] \in Nat
    BY <1>2, <1>3, <1>4
  <1>11. EosAfterCount'
    <2>1. ASSUME NEW v \in Workers, Ending(v)' PROVE broadcasts'[v[1]] >= Threads[v[1]]
      <3>1. CASE v = w
        BY <1>2, <1>3, <1>4, <1>9, <2>1, <3>1
      <3>2. CASE v # w
        <4>1. Ending(v)
          BY <1>5, <2>1, <3>2
        <4>2. broadcasts[v[1]] >= Threads[v[1]] /\ v[1] \in Nodes
          BY <1>3, <4>1 DEF EosAfterCount
        <4> QED BY <1>10, <4>2
      <3> QED BY <3>1, <3>2
    <2>2. ASSUME NEW m \in Nodes, NEW e \in OutEdges(m), HasEos(sent[e])
          PROVE  broadcasts'[m] >= Threads[m]
      <3>1. broadcasts[m] >= Threads[m]
        BY <2>2 DEF EosAfterCount
      <3> QED BY <1>10, <3>1
    <2> QED BY <1>1, <1>2, <2>1, <2>2 DEF EosAfterCount, HasEos, Eos
  <1>12. OneEnds'
    <2>1. \A u, v \in Workers : Ending(u)' /\ Ending(v)' /\ u[1] = v[1] => u = v
      BY <1>5, <1>7 DEF OneEnds
    <2>2. ASSUME NEW v \in Workers, Ending(v)'
          PROVE  /\ \A i, j \in 1 .. Len(todo'[v]) : todo'[v][i] = todo'[v][j] => i = j
                 /\ \A i \in 1 .. Len(todo'[v]) : ~HasEos(sent[todo'[v][i]])
      <3>1. CASE v = w
        <4>1. PICK t \in BroadcastOrders(n) : todo'[v] = t
          BY <1>9, <2>2, <3>1
        <4>2. t \in Seq(OutEdges(n)) /\ \A x, y \in 1 .. Len(t) : t[x] = t[y] => x = y
          BY <1>3, <4>1, SendsToOwn
        <4>3. \A i \in 1 .. Len(t) : t[i] \in OutEdges(n)
          BY <4>2, ElementOfSeq
        <4> QED BY <1>8, <4>1, <4>2, <4>3
      <3>2. CASE v # w
        BY <1>5, <2>2, <3>2 DEF OneEnds
      <3> QED BY <3>1, <3>2
    <2>3. sent' = sent
      BY <1>2
    <2> QED BY <1>1, <2>1, <2>2, <2>3 DEF OneEnds
  <1>13. EosIsFinal'
    BY <1>1, <1>2 DEF EosIsFinal, Eos
  <1>14. CountedAreOver'
    <2> SUFFICES ASSUME NEW m \in Nodes PROVE broadcasts'[m] <= Cardinality(Over(m)')
      BY <1>1 DEF CountedAreOver
    <2>1. /\ IsFiniteSet(Over(m)) /\ Cardinality(Over(m)) \in Nat
          /\ Over(m) \subseteq 1 .. Threads[m]
      BY OverFinite
    <2>2. \A j \in 1 .. Threads[m] : <<m, j>> \in Workers
      BY <1>3, WorkerFacts
    <2>3. Over(m)' = {j \in 1 .. Threads[m] : pc'[<<m, j>>] = "done" \/ Ending(<<m, j>>)'}
      BY <1>1 DEF Over
    <2>4. broadcasts[m] <= Cardinality(Over(m)) /\ broadcasts[m] \in Nat
      BY <1>3 DEF CountedAreOver
    <2>5. CASE m # n
      <3>1. \A j \in 1 .. Threads[m] : <<m, j>> # w
        BY <1>3, <2>5
      <3>2. Over(m)' = Over(m)
        BY <1>5, <2>2, <2>3, <3>1 DEF Over
      <3>3. broadcasts'[m] = broadcasts[m]
        BY <1>2, <1>3, <2>5
      <3> QED BY <2>4, <3>2, <3>3
    <2>6. CASE m = n
      <3>1. k \notin Over(m)
        BY <1>2, <1>3, <2>6 DEF Over, Ending
      <3>2. \A j \in 1 .. Threads[m] : j # k => <<m, j>> # w
        BY <1>3, <2>6
      <3>3. Over(m)' = Over(m) \cup {k}
        <4>1. k \in Over(m)'
          BY <1>3, <1>6, <2>3, <2>6
        <4>2. \A j \in 1 .. Threads[m] : j # k => (j \in Over(m)' <=> j \in Over(m))
          BY <1>5, <2>2, <2>3, <3>2 DEF Over
        <4>3. Over(m)' \subseteq 1 .. Threads[m]
          BY <2>3
        <4> QED BY <2>1, <4>1, <4>2, <4>3
      <3>4. Cardinality(Over(m)') = Cardinality(Over(m)) + 1
        BY <2>1, <3>1, <3>3, FS_AddElement
      <3>5. broadcasts'[m] = broadcasts[m] + 1
        BY <1>2, <1>3, <2>6
      <3> QED BY <2>1, <2>4, <3>4, <3>5
    <2> QED BY <2>5, <2>6
  <1> QED BY <1>11, <1>12, <1>13, <1>14

\* Every step of a worker keeps the invariant.
LEMMA StepKeeps ==
  ASSUME FlowInv, NEW w \in Workers, Step(w), index' \in [Workers -> Nat], graph' = graph
  PROVE  FlowInv'
  <1> USE DEF FlowInv
  <1>1. Workers' = Workers /\ FlowTypeOK'
    BY GraphStays, FlowTypeStep
  <1>2. /\ pc \in [Workers -> {"loop", "send", "eos", "done"}]
        /\ DOMAIN cur = Workers /\ DOMAIN todo = Workers /\ DOMAIN result = Workers
    BY DEF FlowTypeOK
  <1>3. CASE BeginsData(w)
    <2>1. \A v \in Workers : (pc[v] = "done" \/ Ending(v)) => (pc'[v] = "done" \/ Ending(v)')
      BY <1>2, <1>3 DEF BeginsData, Ending, Eos
    <2>2. \A v \in Workers : Ending(v)' => Ending(v) /\ todo'[v] = todo[v]
      BY <1>2, <1>3 DEF BeginsData, Ending, Eos
    <2>3. UNCHANGED <<sent, broadcasts, result, stop>>
      BY <1>3 DEF BeginsData
    <2> QED BY <1>1, <2>1, <2>2, <2>3, QuietStep DEF StopIsTheCause
  <1>4. CASE Leaves(w)
    <2>1. \A v \in Workers : (pc[v] = "done" \/ Ending(v)) => (pc'[v] = "done" \/ Ending(v)')
      BY <1>2, <1>4 DEF Leaves, Exit, Ending, Eos
    <2>2. \A v \in Workers : Ending(v)' => Ending(v) /\ todo'[v] = todo[v]
      BY <1>2, <1>4 DEF Leaves, Exit, Ending, Eos
    <2>3. UNCHANGED <<sent, broadcasts>>
      BY <1>4 DEF Leaves
    <2>4. PICK r : Exit(w, r) /\ (r = "cancelled" => stop)
      BY <1>4 DEF Leaves
    <2>5. ASSUME NEW v \in Workers, result'[v] \in {"cancelled", "fatal"} PROVE stop'
      BY <1>2, <2>4, <2>5 DEF Exit, StopAfter, StopIsTheCause
    <2>6. StopIsTheCause'
      BY <1>1, <2>5 DEF StopIsTheCause
    <2> QED BY <1>1, <2>1, <2>2, <2>3, <2>6, QuietStep
  <1>5. CASE GoesOn(w)
    <2>1. \A v \in Workers : (pc[v] = "done" \/ Ending(v)) => (pc'[v] = "done" \/ Ending(v)')
      BY <1>2, <1>5 DEF GoesOn, Ending, Eos
    <2>2. \A v \in Workers : Ending(v)' => Ending(v) /\ todo'[v] = todo[v]
      BY <1>2, <1>5 DEF GoesOn, Ending, Eos
    <2>3. UNCHANGED <<sent, broadcasts, result, stop>>
      BY <1>5 DEF GoesOn
    <2> QED BY <1>1, <2>1, <2>2, <2>3, QuietStep DEF StopIsTheCause
  <1>6. CASE Remains
    <2>1. UNCHANGED <<pc, cur, todo, sent, broadcasts, result, stop>>
      BY <1>6 DEF Remains
    <2>2. \A v \in Workers : Ending(v)' <=> Ending(v)
      BY <2>1 DEF Ending, Eos
    <2> QED BY <1>1, <2>1, <2>2, QuietStep DEF StopIsTheCause
  <1>7. CASE SendOne(w)
    <2>1. UNCHANGED <<result, stop>>
      BY <1>7 DEF SendOne
    <2> QED BY <1>1, <1>7, <2>1, SendOneKeeps DEF StopIsTheCause
  <1>8. CASE BroadcastEos(w)
    <2>1. \A v \in Workers : result'[v] \in {"cancelled", "fatal"} => result[v] \in {"cancelled", "fatal"}
      BY <1>2, <1>8 DEF BroadcastEos, Goto, Exit
    <2>2. stop => stop'
      BY <1>8 DEF BroadcastEos, Goto, Exit, StopAfter
    <2>3. StopIsTheCause'
      BY <1>1, <2>1, <2>2 DEF StopIsTheCause
    <2> QED BY <1>1, <1>8, <2>3, BroadcastKeeps
  <1> QED BY <1>3, <1>4, <1>5, <1>6, <1>7, <1>8 DEF Step

LEMMA FlowInvInit == Init => FlowInv
  <1> SUFFICES ASSUME Init PROVE FlowInv
    OBVIOUS
  <1>1. \A w \in Workers : ~Ending(w) /\ pc[w] = "loop" /\ result[w] = "none"
    BY DEF Init, Ending
  <1>2. \A e \in Edges : sent[e] = <<>>
    BY DEF Init
  <1>3. FlowTypeOK
    <2>1. \A S : <<>> \in Seq(S)
      BY EmptySeq
    <2> QED BY <1>2, <2>1 DEF Init, FlowTypeOK
  <1>4. CountedAreOver
    <2> SUFFICES ASSUME NEW n \in Nodes PROVE broadcasts[n] <= Cardinality(Over(n))
      BY DEF CountedAreOver
    <2>1. broadcasts[n] = 0
      BY DEF Init
    <2> QED BY <1>3, <2>1, OverFinite
  <1>5. EosAfterCount
    <2> SUFFICES ASSUME NEW n \in Nodes, NEW e \in OutEdges(n) PROVE ~HasEos(sent[e])
      BY <1>1 DEF EosAfterCount
    <2>1. sent[e] = <<>>
      BY <1>2, OutEdgesApart DEF Init
    <2> QED BY <2>1 DEF HasEos
  <1>6. OneEnds
    BY <1>1 DEF OneEnds
  <1>7. EosIsFinal
    BY <1>2 DEF EosIsFinal
  <1>8. StopIsTheCause
    BY <1>1 DEF StopIsTheCause
  <1> QED BY <1>3, <1>4, <1>5, <1>6, <1>7, <1>8 DEF FlowInv

LEMMA FlowInvStep == FlowInv /\ [Next]_vars => FlowInv'
  <1> SUFFICES ASSUME FlowInv, [Next]_vars PROVE FlowInv'
    OBVIOUS
  <1>1. ASSUME NEW w \in AllWorkers, Run(w) PROVE FlowInv'
    <2>1. w \in Workers /\ Worker(w) /\ graph' = graph
      BY <1>1, WorkerFacts DEF Run, FlowInv, FlowTypeOK
    <2>2. Step(w) /\ index' \in [Workers -> Nat]
      BY <2>1, WorkerSteps DEF FlowInv
    <2> QED BY <2>1, <2>2, StepKeeps
  <1>2. ASSUME UNCHANGED <<graph, pc, cur, todo, index, broadcasts, result, sent>>, stop => stop'
        PROVE  FlowInv'
    <2>1. /\ Nodes' = Nodes /\ Workers' = Workers /\ Edges' = Edges
          /\ \A n : OutEdges(n)' = OutEdges(n)
      BY <1>2, GraphStays
    <2>2. FlowTypeOK'
      BY <1>2, <2>1 DEF FlowInv, FlowTypeOK
    <2>3. \A v \in Workers : Ending(v)' <=> Ending(v)
      BY <1>2 DEF Ending, Eos
    <2>4. CountedAreOver' /\ EosAfterCount' /\ OneEnds' /\ EosIsFinal'
      BY <1>2, <2>3, QuietStep DEF FlowInv
    <2>5. StopIsTheCause'
      BY <1>2, <2>1 DEF FlowInv, StopIsTheCause
    <2> QED BY <2>2, <2>4, <2>5 DEF FlowInv
  <1>3. CASE RequestStop /\ UNCHANGED graph
    BY <1>2, <1>3 DEF RequestStop
  <1>4. CASE Joined
    BY <1>2, <1>4 DEF Joined, vars
  <1>5. CASE UNCHANGED vars
    BY <1>2, <1>5 DEF vars
  <1> QED BY <1>1, <1>3, <1>4, <1>5 DEF Next

-----------------------------------------------------------------------------
(* No packet twice *)

\* Where a node reads, how many packets were taken out of a pipe, and which ones.
In(n) == InPorts[n][1]
TakenFrom(e) == Len(sent[e]) - Len(pipe[e])
PastEdge(e, p) == \E i \in 1 .. TakenFrom(e) : sent[e][i] = p

\* A packet that a node has produced or read.
Past(n, p) == IF Kind[n] = "source" THEN \E k \in 1 .. index[<<n, 1>>] : p = <<n, k>>
              ELSE PastEdge(In(n), p)

\* A worker that sends a packet, the edges it still has to serve, the packets an
\* edge has carried and those a sink holds.
Sending(w) == pc[w] = "send" /\ cur[w] # Eos
Sends(w, p) == Sending(w) /\ cur[w] = p
Queued(w, e) == \E i \in 1 .. Len(todo[w]) : todo[w][i] = e
Carried(e, p) == \E i \in 1 .. Len(sent[e]) : sent[e][i] = p
Holds(s, p) == \E i \in 1 .. Len(collected[s]) : collected[s][i] = p

\* A pipe holds what was sent last.
PipeIsRest ==
    /\ DOMAIN pipe = Edges
    /\ \A e \in Edges :
          /\ pipe[e] \in Seq(Range(pipe[e]))
          /\ Len(pipe[e]) <= Len(sent[e])
          /\ \A i \in 1 .. Len(pipe[e]) : pipe[e][i] = sent[e][TakenFrom(e) + i]

\* An edge carries a packet once, after the node above has read it.
CarriedOnce ==
    /\ \A e \in Edges : \A i, j \in 1 .. Len(sent[e]) : sent[e][i] = sent[e][j] => i = j
    /\ \A n \in Nodes : \A e \in OutEdges(n) : \A p : Carried(e, p) /\ p # Eos => Past(n, p)

\* No two instances of a node send the same packet, and none sends one again.
SendingOnce ==
    /\ \A w \in Workers : \A p : Sends(w, p) =>
          Past(w[1], p) /\ \A e : Queued(w, e) => ~Carried(e, p)
    /\ \A w \in Workers : Sending(w) =>
          \A i, j \in 1 .. Len(todo[w]) : todo[w][i] = todo[w][j] => i = j
    /\ \A v, w \in Workers : \A p : Sends(v, p) /\ Sends(w, p) /\ v[1] = w[1] => v = w

\* A sink holds packets it has read, each once.
CollectedOnce ==
    /\ DOMAIN collected = Sinks
    /\ \A s \in Sinks :
          /\ collected[s] \in Seq(Range(collected[s]))
          /\ \A i, j \in 1 .. Len(collected[s]) : collected[s][i] = collected[s][j] => i = j
          /\ \A p : Holds(s, p) => Past(s, p)

Once == PipeIsRest /\ CarriedOnce /\ SendingOnce /\ CollectedOnce

\* An input port is an edge; a source has one instance.
LEMMA InputFacts ==
  ASSUME graph \in Graphs, NEW n \in Nodes
  PROVE  /\ Kind[n] # "source" => In(n) \in Edges
         /\ Kind[n] = "source" => Threads[n] = 1
  <1>1. /\ InPorts[n] \in Seq(Edges)
        /\ Kind[n] # "source" => InPorts[n] # <<>>
        /\ Kind[n] = "source" => Threads[n] = 1
    BY GraphAssumption DEF Nodes, Kind, InPorts, Edges, Threads
  <1>2. ASSUME Kind[n] # "source" PROVE In(n) \in Edges
    <2>1. Len(InPorts[n]) \in Nat /\ Len(InPorts[n]) # 0
      BY <1>1, <1>2, LenProperties, EmptySeq
    <2>2. 1 \in 1 .. Len(InPorts[n])
      BY <2>1
    <2> QED BY <1>1, <2>2, ElementOfSeq DEF In
  <1> QED BY <1>1, <1>2

\* A packet that was read stays read when packets are taken and sent.
Onward ==
    /\ graph' = graph
    /\ \A e \in Edges : /\ TakenFrom(e) \in Nat /\ TakenFrom(e)' \in Nat
                        /\ TakenFrom(e) <= TakenFrom(e)'
                        /\ \A i \in 1 .. TakenFrom(e) : sent'[e][i] = sent[e][i]
    /\ \A n \in Nodes : Kind[n] = "source" =>
          /\ index[<<n, 1>>] \in Nat /\ index'[<<n, 1>>] \in Nat
          /\ index[<<n, 1>>] <= index'[<<n, 1>>]

LEMMA PastStays ==
  ASSUME graph \in Graphs, Onward, NEW n \in Nodes, NEW p, Past(n, p)
  PROVE  Past(n, p)'
  <1>1. Kind' = Kind /\ InPorts' = InPorts
    BY GraphStays DEF Onward
  <1>2. CASE Kind[n] = "source"
    <2>1. PICK k \in 1 .. index[<<n, 1>>] : p = <<n, k>>
      BY <1>2 DEF Past
    <2>2. k \in 1 .. index'[<<n, 1>>]
      BY <1>2, <2>1 DEF Onward
    <2>3. Past(n, p)' <=> \E j \in 1 .. index'[<<n, 1>>] : p = <<n, j>>
      BY <1>1, <1>2 DEF Past
    <2> QED BY <2>1, <2>2, <2>3
  <1>3. CASE Kind[n] # "source"
    <2>1. PICK e \in Edges : e = In(n)
      BY <1>3, InputFacts
    <2>2. Past(n, p)' <=> \E i \in 1 .. TakenFrom(e)' : sent'[e][i] = p
      BY <1>1, <1>3, <2>1 DEF Past, PastEdge, In
    <2>3. PICK i \in 1 .. TakenFrom(e) : sent[e][i] = p
      BY <1>3, <2>1 DEF Past, PastEdge
    <2>4. i \in 1 .. TakenFrom(e)' /\ sent'[e][i] = p
      BY <2>1, <2>3 DEF Onward
    <2> QED BY <2>2, <2>4
  <1> QED BY <1>2, <1>3

\* How a worker changes what is read, sent and held.  t is where it sends p.
SendsNext(w, p, t) ==
    /\ p # Eos
    /\ t \in Seq(OutEdges(w[1])) /\ \A x, y \in 1 .. Len(t) : t[x] = t[y] => x = y
    /\ pc' = [pc EXCEPT ![w] = "send"]
    /\ cur' = [cur EXCEPT ![w] = p]
    /\ todo' = [todo EXCEPT ![w] = t]
SendsOld ==
    \A v \in Workers : Sending(v)' => Sending(v) /\ cur'[v] = cur[v] /\ todo'[v] = todo[v]
Reads(w, p) ==
    /\ Kind[w[1]] # "source" /\ pc[w] = "loop"
    /\ pipe[In(w[1])] # <<>> /\ p = Head(pipe[In(w[1])])
    /\ pipe' = [pipe EXCEPT ![In(w[1])] = Tail(pipe[In(w[1])])]
    /\ sent' = sent
    /\ \A n \in Nodes : Kind[n] = "source" => index'[<<n, 1>>] = index[<<n, 1>>]
Makes(w, p) ==
    /\ Kind[w[1]] = "source" /\ pc[w] = "loop" /\ p = <<w[1], index[w] + 1>>
    /\ index' = [index EXCEPT ![w] = index[w] + 1]
    /\ UNCHANGED <<pipe, sent>>
Rests ==
    /\ UNCHANGED <<pipe, sent, collected>>
    /\ \A n \in Nodes : Kind[n] = "source" => index'[<<n, 1>>] = index[<<n, 1>>]
    /\ SendsOld
Flow(w) ==
    \/ \E p : Reads(w, p) /\ (\E t : SendsNext(w, p, t)) /\ UNCHANGED collected
    \/ \E p : Reads(w, p) /\ SendsOld
              /\ \/ UNCHANGED collected
                 \/ /\ w[1] \in Sinks
                    /\ collected' = [collected EXCEPT ![w[1]] = Append(collected[w[1]], p)]
    \/ \E p : Makes(w, p) /\ (\E t : SendsNext(w, p, t)) /\ UNCHANGED collected
    \/ Rests
    \/ SendOne(w)


LEMMA FlowSteps ==
  ASSUME FlowTypeOK, ~HasKind("converger"), NEW w \in Workers, Worker(w)
  PROVE  Flow(w)
  <1> DEFINE n == w[1]
             e == In(n)
             p == Head(pipe[e])
             full == FlattenSeq(Ports[n])
             turn == NextOutput(Ports[n], index[w])
  <1>1. /\ n \in Nodes /\ w = <<n, w[2]>> /\ graph \in Graphs /\ ~IsConverger(w)
        /\ index \in [Workers -> Nat] /\ DOMAIN todo = Workers /\ DOMAIN cur = Workers
        /\ pc \in [Workers -> {"loop", "send", "eos", "done"}]
    BY WorkerFacts DEF FlowTypeOK, HasKind, IsConverger
  <1>2. /\ full \in Seq(OutEdges(n)) /\ \A x, y \in 1 .. Len(full) : full[x] = full[y] => x = y
        /\ Kind[n] = "round_robin" =>
             turn \in Seq(OutEdges(n)) /\ \A x, y \in 1 .. Len(turn) : turn[x] = turn[y] => x = y
    BY <1>1, SendsToOwn
  <1>3. Port(w) = e
    BY <1>1 DEF Port, In
  <1>4. ASSUME UNCHANGED <<cur, todo>>, \E l : l # "send" /\ pc' = [pc EXCEPT ![w] = l]
        PROVE  SendsOld
    BY <1>1, <1>4 DEF SendsOld, Sending, Eos
  <1>5. ASSUME UNCHANGED <<pc, cur, todo>> PROVE SendsOld
    BY <1>5 DEF SendsOld, Sending, Eos
  <1>6. ASSUME index' = index PROVE \A m \in Nodes : Kind[m] = "source" => index'[<<m, 1>>] = index[<<m, 1>>]
    BY <1>6
  <1> HIDE DEF e, p, full, turn
  <1>7. CASE SourceNext(w)
    <2>1. CASE stop
      <3>1. SendsOld
        BY <1>4, <1>7, <2>1 DEF SourceNext, Exit
      <3> QED BY <1>6, <1>7, <2>1, <3>1 DEF SourceNext, Flow, Rests
    <2>2. CASE ~stop /\ UnknownPort(n)
      <3>1. SendsOld
        BY <1>4, <1>7, <2>2 DEF SourceNext, Exit
      <3> QED BY <1>6, <1>7, <2>2, <3>1 DEF SourceNext, Flow, Rests
    <2>3. CASE ~stop /\ ~UnknownPort(n)
      <3>1. PICK q : q = <<n, index[w] + 1>>
        OBVIOUS
      <3>2. q # Eos
        BY <3>1 DEF Eos
      <3>3. SendsNext(w, q, full)
        BY <1>2, <1>7, <2>3, <3>1, <3>2 DEF SourceNext, SendsNext, BeginSend, Goto, full
      <3>4. Makes(w, q)
        BY <1>7, <2>3, <3>1 DEF SourceNext, Makes
      <3>5. UNCHANGED collected
        BY <1>7 DEF SourceNext
      <3> QED BY <3>3, <3>4, <3>5 DEF Flow
    <2> QED BY <2>1, <2>2, <2>3
  <1>8. CASE SourceEnd(w)
    <2>1. SendsOld
      BY <1>4, <1>8 DEF SourceEnd, Goto
    <2> QED BY <1>6, <1>8, <2>1 DEF SourceEnd, Flow, Rests
  <1>9. CASE RecvData(w)
    <2>1. /\ Kind[n] # "source" /\ pc[w] = "loop" /\ pipe[e] # <<>> /\ p # Eos
          /\ pipe' = [pipe EXCEPT ![e] = Tail(pipe[e])] /\ sent' = sent
          /\ FailOn(w, "fatal") \/ Process(w, p)
      BY <1>3, <1>9 DEF RecvData, Receiving, p
    <2>2. ASSUME \A m \in Nodes : Kind[m] = "source" => index'[<<m, 1>>] = index[<<m, 1>>]
          PROVE  Reads(w, p)
      BY <2>1, <2>2 DEF Reads, e, p
    <2>3. ASSUME NEW r, FailOn(w, r) PROVE Flow(w)
      <3>1. SendsOld
        BY <1>4, <2>3 DEF FailOn, Exit
      <3> QED BY <1>6, <2>2, <2>3, <3>1 DEF FailOn, Flow
    <2>4. CASE Swallow(w)
      <3>1. SendsOld
        BY <1>5, <2>4 DEF Swallow, Stay
      <3> QED BY <1>6, <2>2, <2>4, <3>1 DEF Swallow, Flow
    <2>5. CASE Forward(w, p, full)
      <3>1. CASE UnknownPort(n)
        BY <2>3, <2>5, <3>1 DEF Forward
      <3>2. CASE ~UnknownPort(n)
        <4>1. SendsNext(w, p, full)
          BY <1>2, <2>1, <2>5, <3>2 DEF Forward, BeginSend, Goto, SendsNext
        <4> QED BY <1>6, <2>2, <2>5, <3>2, <4>1 DEF Forward, Flow
      <3> QED BY <3>1, <3>2
    <2>6. CASE /\ Kind[n] = "round_robin"
               /\ BeginSend(w, p, turn)
               /\ index' = [index EXCEPT ![w] = @ + 1]
               /\ Goto(w, "send") /\ UNCHANGED collected
      <3>1. SendsNext(w, p, turn)
        BY <1>2, <2>1, <2>6 DEF BeginSend, Goto, SendsNext
      <3>2. \A m \in Nodes : Kind[m] = "source" => index'[<<m, 1>>] = index[<<m, 1>>]
        BY <1>1, <2>6
      <3> QED BY <2>2, <2>6, <3>1, <3>2 DEF Flow
    <2>7. CASE /\ Kind[n] = "sink"
               /\ collected' = [collected EXCEPT ![n] = Append(collected[n], p)]
               /\ Stay /\ UNCHANGED <<cur, todo, index>>
      <3>1. SendsOld
        BY <1>5, <2>7 DEF Stay
      <3>2. n \in Sinks
        BY <1>1, <2>7 DEF Sinks
      <3> QED BY <1>6, <2>2, <2>7, <3>1, <3>2 DEF Flow
    <2>8. CASE Process(w, p)
      <3>1. CASE FailOn(w, "badframe")
        BY <2>3, <3>1
      <3> QED BY <2>4, <2>5, <2>6, <2>7, <2>8, <3>1 DEF Process, full, turn
    <2> QED BY <2>1, <2>3, <2>8
  <1>10. ASSUME NEW d, EndOfStream(w, d), UNCHANGED <<cur, todo, index, sent, collected>>
         PROVE  SendsOld
    <2>1. CASE Stay
      BY <1>5, <1>10, <2>1 DEF Stay
    <2>2. CASE Exit(w, "ok")
      BY <1>4, <1>10, <2>2 DEF Exit
    <2>3. CASE Goto(w, "eos")
      BY <1>4, <1>10, <2>3 DEF Goto
    <2> QED BY <1>10, <2>1, <2>2, <2>3 DEF EndOfStream, IsConverger
  <1>11. CASE RecvEos(w)
    <2>1. SendsOld /\ UNCHANGED collected
      BY <1>10, <1>11 DEF RecvEos
    <2>2. Reads(w, p)
      BY <1>3, <1>6, <1>11 DEF RecvEos, Receiving, Reads, e, p
    <2> QED BY <2>1, <2>2 DEF Flow
  <1>12. CASE RecvTimeout(w)
    <2>1. UNCHANGED <<pipe, cur, todo, index, sent, collected>>
      BY <1>12 DEF RecvTimeout
    <2>2. CASE Exit(w, "cancelled")
      BY <1>4, <1>6, <2>1, <2>2 DEF Exit, Flow, Rests
    <2>3. CASE Stay
      BY <1>5, <1>6, <2>1, <2>3 DEF Stay, Flow, Rests
    <2>4. ASSUME NEW d, EndOfStream(w, d) PROVE Flow(w)
      BY <1>6, <1>10, <2>1, <2>4 DEF Flow, Rests
    <2> QED BY <1>12, <2>2, <2>3, <2>4 DEF RecvTimeout
  <1>13. CASE SendOne(w)
    BY <1>13 DEF Flow
  <1>14. CASE SendCancelled(w)
    <2>1. SendsOld
      BY <1>4, <1>14 DEF SendCancelled, Exit
    <2> QED BY <1>6, <1>14, <2>1 DEF SendCancelled, Flow, Rests
  <1>15. CASE SendDone(w)
    <2>1. SendsOld
      BY <1>4, <1>15 DEF SendDone, Exit, Goto
    <2> QED BY <1>6, <1>15, <2>1 DEF SendDone, Flow, Rests
  <1>16. CASE BroadcastEos(w)
    <2>1. SendsOld
      <3>1. \/ UNCHANGED <<cur, todo>> /\ pc' = [pc EXCEPT ![w] = "done"]
            \/ /\ \E t : todo' = [todo EXCEPT ![w] = t]
               /\ cur' = [cur EXCEPT ![w] = Eos]
               /\ pc' = [pc EXCEPT ![w] = "send"]
        BY <1>16 DEF BroadcastEos, Exit, Goto, BeginSend
      <3> QED BY <1>1, <3>1 DEF SendsOld, Sending, Eos
    <2> QED BY <1>6, <1>16, <2>1 DEF BroadcastEos, Flow, Rests
  <1>17. CASE Poll(w)
    <2>1. SendsOld
      BY <1>5, <1>17 DEF Poll, vars
    <2> QED BY <1>6, <1>17, <2>1 DEF Poll, vars, Flow, Rests
  <1> QED BY <1>1, <1>7, <1>8, <1>9, <1>11, <1>12, <1>13, <1>14, <1>15, <1>16, <1>17
      DEF Worker, ConvergerRound


\* Reading takes the oldest packet out of the pipe, which nobody has read before.
LEMMA ReadsFacts ==
  ASSUME FlowTypeOK, PipeIsRest, CarriedOnce, NEW w \in Workers, NEW p, Reads(w, p), graph' = graph
  PROVE  PipeIsRest' /\ Onward /\ ~Past(w[1], p) /\ Past(w[1], p)'
  <1>0. PICK e : e = In(w[1])
    OBVIOUS
  <1>1. /\ w[1] \in Nodes /\ graph \in Graphs /\ e \in Edges /\ Kind[w[1]] # "source"
        /\ pipe[e] # <<>> /\ p = Head(pipe[e])
        /\ pipe' = [pipe EXCEPT ![e] = Tail(pipe[e])] /\ sent' = sent
    BY <1>0, WorkerFacts, InputFacts DEF FlowTypeOK, Reads
  <1>2. /\ Edges' = Edges /\ Kind' = Kind /\ InPorts' = InPorts
    BY GraphStays
  <1>3. \A d \in Edges : /\ sent[d] \in Seq(Range(sent[d])) /\ pipe[d] \in Seq(Range(pipe[d]))
                         /\ Len(sent[d]) \in Nat /\ Len(pipe[d]) \in Nat
    BY LenProperties DEF FlowTypeOK, PipeIsRest
  <1> DEFINE q == pipe[e]
             r == Tail(q)
  <1>4. /\ q \in Seq(Range(q)) /\ q # <<>> /\ Len(q) \in Nat
        /\ Len(q) <= Len(sent[e]) /\ Len(sent[e]) \in Nat
        /\ \A i \in 1 .. Len(q) : q[i] = sent[e][TakenFrom(e) + i]
        /\ TakenFrom(e) = Len(sent[e]) - Len(q)
    BY <1>1, <1>3 DEF PipeIsRest, TakenFrom
  <1> HIDE DEF q
  <1>5. /\ r \in Seq(Range(q)) /\ Len(r) = Len(q) - 1 /\ Len(q) > 0
        /\ \A i \in 1 .. Len(r) : r[i] = q[i + 1]
        /\ p = q[1]
    <2>1. Len(q) # 0
      BY <1>4, EmptySeq
    <2>2. p = Head(q)
      BY <1>1 DEF q
    <2> QED BY <1>4, <2>1, <2>2, HeadTailProperties
  <1>6. pipe'[e] = r /\ \A d \in Edges : d # e => pipe'[d] = pipe[d]
    BY <1>1 DEF PipeIsRest, q
  <1>7. r \in Seq(Range(r))
    BY <1>5, SeqOfItsRange
  <1> HIDE DEF r
  <1> DEFINE k == TakenFrom(e)
  <1>8. k \in Nat /\ k = Len(sent[e]) - Len(q) /\ k + 1 \in 1 .. Len(sent[e])
    BY <1>4, <1>5
  <1>9. TakenFrom(e)' = k + 1
    <2>1. TakenFrom(e)' = Len(sent[e]) - Len(r)
      BY <1>1, <1>6 DEF TakenFrom
    <2> QED BY <1>4, <1>5, <1>8, <2>1
  <1>10. \A d \in Edges : d # e => TakenFrom(d)' = TakenFrom(d)
    BY <1>1, <1>6 DEF TakenFrom
  <1> HIDE DEF k
  <1>11. sent[e][k + 1] = p
    <2>1. 1 \in 1 .. Len(q)
      BY <1>4, <1>5
    <2> QED BY <1>4, <1>5, <2>1 DEF k
  <1>12. PipeIsRest'
    <2>1. \A i \in 1 .. Len(r) : r[i] = sent[e][(k + 1) + i]
      <3> TAKE i \in 1 .. Len(r)
      <3>1. i + 1 \in 1 .. Len(q) /\ k + (i + 1) = (k + 1) + i
        <4>1. Len(q) \in Nat /\ Len(r) = Len(q) - 1 /\ k \in Nat
          BY <1>4, <1>5, <1>8
        <4>2. i \in Int /\ 1 <= i /\ i <= Len(q) - 1
          BY <4>1
        <4> QED BY <4>1, <4>2
      <3>2. q[i + 1] = sent[e][k + (i + 1)]
        BY <1>4, <3>1 DEF k
      <3> QED BY <1>5, <3>1, <3>2
    <2>2. Len(r) <= Len(sent[e])
      BY <1>4, <1>5
    <2>3. DOMAIN pipe' = Edges
      BY <1>1 DEF PipeIsRest
    <2>4. ASSUME NEW d \in Edges
          PROVE  /\ pipe'[d] \in Seq(Range(pipe'[d]))
                 /\ Len(pipe'[d]) <= Len(sent[d])
                 /\ \A i \in 1 .. Len(pipe'[d]) : pipe'[d][i] = sent[d][TakenFrom(d)' + i]
      <3>1. CASE d = e
        BY <1>6, <1>7, <1>9, <2>1, <2>2, <3>1
      <3>2. CASE d # e
        BY <1>6, <1>10, <3>2 DEF PipeIsRest
      <3> QED BY <3>1, <3>2
    <2> QED BY <1>1, <1>2, <2>3, <2>4 DEF PipeIsRest
  <1>13. Onward
    <2>1. \A d \in Edges : TakenFrom(d) \in Nat
      BY <1>3 DEF PipeIsRest, TakenFrom
    <2>2. \A d \in Edges : /\ TakenFrom(d) \in Nat /\ TakenFrom(d)' \in Nat
                           /\ TakenFrom(d) <= TakenFrom(d)'
      <3> TAKE d \in Edges
      <3>1. CASE d = e
        BY <1>8, <1>9, <3>1 DEF k
      <3>2. CASE d # e
        BY <1>10, <2>1, <3>2
      <3> QED BY <3>1, <3>2
    <2>3. \A n \in Nodes : Kind[n] = "source" =>
             index'[<<n, 1>>] = index[<<n, 1>>] /\ index[<<n, 1>>] \in Nat
      <3> SUFFICES ASSUME NEW n \in Nodes, Kind[n] = "source"
                   PROVE  index'[<<n, 1>>] = index[<<n, 1>>] /\ index[<<n, 1>>] \in Nat
        OBVIOUS
      <3>1. 1 \in 1 .. Threads[n]
        BY <1>1, InputFacts
      <3>2. <<n, 1>> \in Workers
        BY <1>1, <3>1, WorkerFacts
      <3>3. PICK v \in Workers : v = <<n, 1>>
        BY <3>2
      <3>4. index[v] \in Nat
        BY DEF FlowTypeOK
      <3>5. index'[<<n, 1>>] = index[<<n, 1>>]
        BY DEF Reads
      <3> QED BY <3>3, <3>4, <3>5
    <2> QED BY <1>1, <2>2, <2>3 DEF Onward
  <1>14. ~Past(w[1], p)
    <2>1. SUFFICES ASSUME PastEdge(e, p) PROVE FALSE
      BY <1>0, <1>1 DEF Past
    <2>2. PICK i \in 1 .. k : sent[e][i] = p
      BY <2>1 DEF PastEdge, k
    <2>3. i \in 1 .. Len(sent[e]) /\ i # k + 1
      BY <1>4, <1>8, <2>2
    <2> QED BY <1>1, <1>8, <1>11, <2>2, <2>3 DEF CarriedOnce
  <1>15. Past(w[1], p)'
    <2>1. Past(w[1], p)' <=> \E i \in 1 .. TakenFrom(e)' : sent'[e][i] = p
      BY <1>0, <1>1, <1>2 DEF Past, PastEdge, In
    <2>2. k + 1 \in 1 .. TakenFrom(e)'
      BY <1>8, <1>9
    <2> QED BY <1>1, <1>11, <2>1, <2>2
  <1> QED BY <1>12, <1>13, <1>14, <1>15

\* The same for a packet that a source makes.
LEMMA MakesFacts ==
  ASSUME FlowTypeOK, PipeIsRest, NEW w \in Workers, NEW p, Makes(w, p), graph' = graph
  PROVE  PipeIsRest' /\ Onward /\ ~Past(w[1], p) /\ Past(w[1], p)'
  <1> DEFINE n == w[1]
  <1>1. /\ n \in Nodes /\ graph \in Graphs /\ Kind[n] = "source" /\ w[2] \in 1 .. Threads[n]
        /\ w = <<n, w[2]>> /\ index \in [Workers -> Nat]
        /\ p = <<n, index[w] + 1>> /\ index' = [index EXCEPT ![w] = index[w] + 1]
        /\ UNCHANGED <<pipe, sent>>
    BY WorkerFacts DEF FlowTypeOK, Makes
  <1>2. w = <<n, 1>>
    BY <1>1, InputFacts
  <1>3. Edges' = Edges /\ Kind' = Kind /\ InPorts' = InPorts
    BY GraphStays
  <1>4. \A d : TakenFrom(d)' = TakenFrom(d)
    BY <1>1 DEF TakenFrom
  <1>5. PipeIsRest'
    BY <1>1, <1>3, <1>4 DEF PipeIsRest
  <1>6. \A d \in Edges : TakenFrom(d) \in Nat
    <2> TAKE d \in Edges
    <2>1. Len(sent[d]) \in Nat /\ Len(pipe[d]) \in Nat
      BY LenProperties DEF FlowTypeOK, PipeIsRest
    <2> QED BY <2>1 DEF PipeIsRest, TakenFrom
  <1>7. index[w] \in Nat /\ index'[w] = index[w] + 1
    BY <1>1
  <1>8. \A m \in Nodes : Kind[m] = "source" =>
           /\ index[<<m, 1>>] \in Nat /\ index'[<<m, 1>>] \in Nat
           /\ index[<<m, 1>>] <= index'[<<m, 1>>]
    <2> SUFFICES ASSUME NEW m \in Nodes, Kind[m] = "source"
                 PROVE  /\ index[<<m, 1>>] \in Nat /\ index'[<<m, 1>>] \in Nat
                        /\ index[<<m, 1>>] <= index'[<<m, 1>>]
      OBVIOUS
    <2>1. 1 \in 1 .. Threads[m]
      BY <1>1, InputFacts
    <2>2. PICK v \in Workers : v = <<m, 1>>
      BY <1>1, <2>1, WorkerFacts
    <2>3. index[v] \in Nat /\ index'[v] \in Nat /\ index[v] <= index'[v]
      BY <1>1, <2>2
    <2> QED BY <2>2, <2>3
  <1>9. Onward
    BY <1>1, <1>4, <1>6, <1>8 DEF Onward
  <1>10. ~Past(n, p)
    <2>1. SUFFICES ASSUME NEW k \in 1 .. index[w], p = <<n, k>> PROVE FALSE
      BY <1>1, <1>2 DEF Past
    <2>2. k = index[w] + 1
      BY <1>1, <2>1
    <2> QED BY <1>7, <2>1, <2>2
  <1>11. Past(n, p)'
    <2>1. Past(n, p)' <=> \E k \in 1 .. index'[w] : p = <<n, k>>
      BY <1>1, <1>2, <1>3 DEF Past
    <2>2. index[w] + 1 \in 1 .. index'[w]
      BY <1>7
    <2> QED BY <1>1, <2>1, <2>2
  <1> QED BY <1>5, <1>9, <1>10, <1>11


\* Packets that are not sent do not disturb what is.
LEMMA OldSends ==
  ASSUME FlowTypeOK, CarriedOnce, SendingOnce, Onward, sent' = sent, SendsOld
  PROVE  CarriedOnce' /\ SendingOnce'
  <1>1. /\ Nodes' = Nodes /\ Workers' = Workers /\ Edges' = Edges
        /\ \A n : OutEdges(n)' = OutEdges(n)
    BY GraphStays DEF Onward
  <1>2. \A e, p : Carried(e, p)' <=> Carried(e, p)
    BY DEF Carried
  <1>3. \A n \in Nodes : \A p : Past(n, p) => Past(n, p)'
    BY PastStays DEF FlowTypeOK
  <1>4. \A w \in Workers : \A p : Sends(w, p)' => Sends(w, p)
    BY DEF SendsOld, Sends, Sending, Eos
  <1>5. \A w \in Workers : Sending(w)' => \A e : Queued(w, e)' <=> Queued(w, e)
    BY DEF SendsOld, Queued
  <1>6. \A w \in Workers : w[1] \in Nodes
    BY WorkerFacts DEF FlowTypeOK
  <1>7. CarriedOnce'
    <2>1. \A n \in Nodes : \A e \in OutEdges(n) : \A p : Carried(e, p)' /\ p # Eos => Past(n, p)'
      BY <1>2, <1>3 DEF CarriedOnce
    <2>2. \A e \in Edges : \A i, j \in 1 .. Len(sent'[e]) : sent'[e][i] = sent'[e][j] => i = j
      BY DEF CarriedOnce
    <2> QED BY <1>1, <2>1, <2>2 DEF CarriedOnce, Eos
  <1>8. SendingOnce'
    <2>1. ASSUME NEW w \in Workers, NEW p, Sends(w, p)'
          PROVE  Past(w[1], p)' /\ \A e : Queued(w, e)' => ~Carried(e, p)'
      <3>1. Sends(w, p) /\ Sending(w)'
        BY <1>4, <2>1 DEF Sends
      <3>2. Past(w[1], p) /\ \A e : Queued(w, e) => ~Carried(e, p)
        BY <3>1 DEF SendingOnce
      <3> QED BY <1>2, <1>3, <1>5, <1>6, <3>1, <3>2
    <2>2. ASSUME NEW w \in Workers, Sending(w)'
          PROVE  \A i, j \in 1 .. Len(todo'[w]) : todo'[w][i] = todo'[w][j] => i = j
      BY <2>2 DEF SendsOld, SendingOnce
    <2>3. ASSUME NEW v \in Workers, NEW w \in Workers, NEW p, Sends(v, p)', Sends(w, p)', v[1] = w[1]
          PROVE  v = w
      BY <1>4, <2>3 DEF SendingOnce
    <2> QED BY <1>1, <2>1, <2>2, <2>3 DEF SendingOnce
  <1> QED BY <1>7, <1>8

\* A packet just read or made is new to every edge below and to every other
\* instance of the node.
LEMMA NewSend ==
  ASSUME FlowTypeOK, CarriedOnce, SendingOnce, Onward, sent' = sent,
         NEW w \in Workers, NEW p, NEW t, SendsNext(w, p, t), ~Past(w[1], p), Past(w[1], p)'
  PROVE  CarriedOnce' /\ SendingOnce'
  <1>1. /\ Nodes' = Nodes /\ Workers' = Workers /\ Edges' = Edges
        /\ \A n : OutEdges(n)' = OutEdges(n)
    BY GraphStays DEF Onward
  <1>2. \A e, q : Carried(e, q)' <=> Carried(e, q)
    BY DEF Carried
  <1>3. \A n \in Nodes : \A q : Past(n, q) => Past(n, q)'
    BY PastStays DEF FlowTypeOK
  <1>4. /\ \A v \in Workers : v[1] \in Nodes
        /\ pc \in [Workers -> {"loop", "send", "eos", "done"}]
        /\ DOMAIN cur = Workers /\ DOMAIN todo = Workers
    BY WorkerFacts DEF FlowTypeOK
  <1>5. CarriedOnce'
    <2>1. \A n \in Nodes : \A e \in OutEdges(n) : \A q : Carried(e, q)' /\ q # Eos => Past(n, q)'
      BY <1>2, <1>3 DEF CarriedOnce
    <2>2. \A e \in Edges : \A i, j \in 1 .. Len(sent'[e]) : sent'[e][i] = sent'[e][j] => i = j
      BY DEF CarriedOnce
    <2> QED BY <1>1, <2>1, <2>2 DEF CarriedOnce, Eos
  <1>6. \A v \in Workers : v # w => /\ todo'[v] = todo[v]
                                    /\ Sending(v)' <=> Sending(v)
                                    /\ \A q : Sends(v, q)' <=> Sends(v, q)
                                    /\ \A e : Queued(v, e)' <=> Queued(v, e)
    BY <1>4 DEF SendsNext, Sends, Sending, Queued, Eos
  <1>7. /\ todo'[w] = t
        /\ \A q : Sends(w, q)' => q = p
        /\ \A e : Queued(w, e)' => \E i \in 1 .. Len(t) : t[i] = e
    BY <1>4 DEF SendsNext, Sends, Queued
  <1>8. \A e \in OutEdges(w[1]) : ~Carried(e, p)
    BY <1>4 DEF CarriedOnce, SendsNext
  <1>9. \A v \in Workers : v[1] = w[1] => ~Sends(v, p)
    BY DEF SendingOnce
  <1>10. SendingOnce'
    <2>1. ASSUME NEW v \in Workers, NEW q, Sends(v, q)'
          PROVE  Past(v[1], q)' /\ \A e : Queued(v, e)' => ~Carried(e, q)'
      <3>1. CASE v = w
        <4>1. q = p /\ \A i \in 1 .. Len(t) : t[i] \in OutEdges(w[1])
          BY <1>7, <2>1, <3>1, ElementOfSeq DEF SendsNext
        <4>2. \A e : Queued(w, e)' => e \in OutEdges(w[1])
          BY <1>7, <4>1
        <4> QED BY <1>2, <1>8, <3>1, <4>1, <4>2
      <3>2. CASE v # w
        BY <1>2, <1>3, <1>4, <1>6, <2>1, <3>2 DEF SendingOnce
      <3> QED BY <3>1, <3>2
    <2>2. ASSUME NEW v \in Workers, Sending(v)'
          PROVE  \A i, j \in 1 .. Len(todo'[v]) : todo'[v][i] = todo'[v][j] => i = j
      <3>1. CASE v = w
        BY <1>7, <3>1 DEF SendsNext
      <3>2. CASE v # w
        BY <1>6, <2>2, <3>2 DEF SendingOnce
      <3> QED BY <3>1, <3>2
    <2>3. ASSUME NEW u \in Workers, NEW v \in Workers, NEW q, Sends(u, q)', Sends(v, q)', u[1] = v[1]
          PROVE  u = v
      <3>1. CASE u = w /\ v # w
        BY <1>6, <1>7, <1>9, <2>3, <3>1
      <3>2. CASE u # w /\ v = w
        BY <1>6, <1>7, <1>9, <2>3, <3>2
      <3>3. CASE u # w /\ v # w
        BY <1>6, <2>3, <3>3 DEF SendingOnce
      <3> QED BY <3>1, <3>2, <3>3
    <2> QED BY <1>1, <2>1, <2>2, <2>3 DEF SendingOnce
  <1> QED BY <1>5, <1>10

\* A sink keeps what it holds, and adds a packet only when it reads it.
LEMMA KeepsCollected ==
  ASSUME FlowTypeOK, CollectedOnce, Onward
  PROVE  /\ UNCHANGED collected => CollectedOnce'
         /\ \A n \in Sinks : \A p :
              ~Past(n, p) /\ Past(n, p)' /\ collected' = [collected EXCEPT ![n] = Append(collected[n], p)]
                => CollectedOnce'
  <1>1. Sinks' = Sinks /\ \A s \in Sinks : s \in Nodes
    BY GraphStays DEF Onward, Sinks
  <1>2. \A s \in Sinks : \A p : Past(s, p) => Past(s, p)'
    BY <1>1, PastStays DEF FlowTypeOK
  <1>3. ASSUME UNCHANGED collected PROVE CollectedOnce'
    <2>1. \A s \in Sinks : \A p : Holds(s, p)' => Past(s, p)'
      BY <1>2, <1>3 DEF Holds, CollectedOnce
    <2> QED BY <1>1, <1>3, <2>1 DEF CollectedOnce
  <1>4. ASSUME NEW n \in Sinks, NEW p, ~Past(n, p), Past(n, p)',
               collected' = [collected EXCEPT ![n] = Append(collected[n], p)]
        PROVE  CollectedOnce'
    <2> DEFINE c == collected[n]
               c1 == Append(c, p)
    <2>1. /\ c \in Seq(Range(c))
          /\ \A i, j \in 1 .. Len(c) : c[i] = c[j] => i = j
          /\ \A i \in 1 .. Len(c) : c[i] # p
          /\ \A i \in 1 .. Len(c) : Past(n, c[i])
      BY <1>4 DEF CollectedOnce, Holds
    <2>2. /\ c1 \in Seq(Range(c) \cup {p}) /\ Len(c1) = Len(c) + 1 /\ Len(c) \in Nat
          /\ \A i \in 1 .. Len(c) : c1[i] = c[i]
          /\ c1[Len(c) + 1] = p
      BY <2>1, AppendAny
    <2>3. c1 \in Seq(Range(c1))
      BY <2>2, SeqOfItsRange
    <2>4. collected'[n] = c1 /\ DOMAIN collected' = Sinks
          /\ \A s \in Sinks : s # n => collected'[s] = collected[s]
      BY <1>4 DEF CollectedOnce
    <2> HIDE DEF c1, c
    <2>5. \A i, j \in 1 .. Len(c1) : c1[i] = c1[j] => i = j
      <3> SUFFICES ASSUME NEW i \in 1 .. Len(c1), NEW j \in 1 .. Len(c1), c1[i] = c1[j] PROVE i = j
        OBVIOUS
      <3>1. (i \in 1 .. Len(c) \/ i = Len(c) + 1) /\ (j \in 1 .. Len(c) \/ j = Len(c) + 1)
        BY <2>2
      <3> QED BY <2>1, <2>2, <3>1
    <2>6. ASSUME NEW q, Holds(n, q)' PROVE Past(n, q)'
      <3>1. PICK i \in 1 .. Len(c1) : c1[i] = q
        BY <2>4, <2>6 DEF Holds
      <3>2. CASE i \in 1 .. Len(c)
        BY <1>2, <2>1, <2>2, <3>1, <3>2
      <3>3. CASE i = Len(c) + 1
        BY <1>4, <2>2, <3>1, <3>3
      <3> QED BY <2>2, <3>2, <3>3
    <2>7. ASSUME NEW s \in Sinks
          PROVE  /\ collected'[s] \in Seq(Range(collected'[s]))
                 /\ \A i, j \in 1 .. Len(collected'[s]) : collected'[s][i] = collected'[s][j] => i = j
                 /\ \A q : Holds(s, q)' => Past(s, q)'
      <3>1. CASE s = n
        BY <2>3, <2>4, <2>5, <2>6, <3>1
      <3>2. CASE s # n
        <4>1. collected'[s] = collected[s]
          BY <2>4, <3>2
        <4>2. \A q : Holds(s, q)' => Past(s, q)'
          BY <1>2, <4>1 DEF Holds, CollectedOnce
        <4> QED BY <4>1, <4>2 DEF CollectedOnce
      <3> QED BY <3>1, <3>2
    <2> QED BY <1>1, <2>4, <2>7 DEF CollectedOnce
  <1> QED BY <1>3, <1>4


\* A packet put on an edge has not been there: its sender still had to serve the
\* edge, and no other instance of the node sends the same packet.
LEMMA SendOneOnce ==
  ASSUME FlowInv, Once, NEW w \in Workers, SendOne(w), graph' = graph
  PROVE  Once'
  <1> DEFINE n == w[1]
  <1>0. PICK e, p : e = Head(todo[w]) /\ p = cur[w]
    OBVIOUS
  <1>1. /\ Nodes' = Nodes /\ Workers' = Workers /\ Edges' = Edges
        /\ \A m : OutEdges(m)' = OutEdges(m)
    BY GraphStays
  <1>2. /\ todo[w] # <<>> /\ pc[w] = "send" /\ cur[w] = p
        /\ todo' = [todo EXCEPT ![w] = Tail(todo[w])]
        /\ pipe' = [pipe EXCEPT ![e] = Append(pipe[e], p)]
        /\ sent' = [sent EXCEPT ![e] = Append(sent[e], p)]
        /\ UNCHANGED <<pc, cur, index, collected>>
    BY <1>0 DEF SendOne
  <1>3. /\ graph \in Graphs /\ n \in Nodes /\ DOMAIN todo = Workers
        /\ \A v \in Workers : v[1] \in Nodes /\ todo[v] \in Seq(OutEdges(v[1]))
        /\ DOMAIN sent = Edges /\ DOMAIN pipe = Edges
        /\ FlowTypeOK /\ OneEnds /\ PipeIsRest /\ CarriedOnce /\ SendingOnce /\ CollectedOnce
    BY WorkerFacts DEF FlowInv, FlowTypeOK, Once, PipeIsRest
  <1>4. /\ e \in OutEdges(n) /\ todo[w] \in Seq(OutEdges(n))
        /\ Len(todo[w]) \in Nat /\ 1 \in 1 .. Len(todo[w]) /\ todo[w][1] = e
        /\ Tail(todo[w]) \in Seq(OutEdges(n)) /\ Len(Tail(todo[w])) = Len(todo[w]) - 1
        /\ \A i \in 1 .. Len(Tail(todo[w])) : Tail(todo[w])[i] = todo[w][i + 1]
    BY <1>0, <1>2, <1>3, HeadTailProperties, LenProperties
  <1>5. e \in Edges /\ \A m \in Nodes : e \in OutEdges(m) => m = n
    BY <1>3, <1>4, OutEdgesApart
  <1>6. p # Eos => Sends(w, p)
    BY <1>2 DEF Sends, Sending
  <1>7. ~Carried(e, p)
    <2>1. CASE p = Eos
      <3>1. Ending(w)
        BY <1>2, <2>1 DEF Ending
      <3>2. ~HasEos(sent[todo[w][1]])
        BY <1>3, <1>4, <3>1 DEF OneEnds
      <3> QED BY <1>4, <2>1, <3>2 DEF HasEos, Carried
    <2>2. CASE p # Eos
      <3>1. Queued(w, e)
        BY <1>4 DEF Queued
      <3> QED BY <1>3, <1>6, <2>2, <3>1 DEF SendingOnce
    <2> QED BY <2>1, <2>2
  <1> DEFINE s == sent[e]
             s1 == Append(s, p)
             q == pipe[e]
             q1 == Append(q, p)
             k == TakenFrom(e)
  <1>8. /\ s \in Seq(Range(s)) /\ q \in Seq(Range(q)) /\ Len(q) <= Len(s)
        /\ \A i \in 1 .. Len(q) : q[i] = s[k + i]
        /\ \A i, j \in 1 .. Len(s) : s[i] = s[j] => i = j
        /\ \A i \in 1 .. Len(s) : s[i] # p
        /\ k = Len(s) - Len(q)
    BY <1>3, <1>5, <1>7 DEF FlowTypeOK, PipeIsRest, CarriedOnce, Carried, TakenFrom
  <1>9. /\ Len(s1) = Len(s) + 1 /\ Len(s) \in Nat
        /\ \A i \in 1 .. Len(s) : s1[i] = s[i]
        /\ s1[Len(s) + 1] = p
    BY <1>8, AppendAny
  <1>10. /\ q1 \in Seq(Range(q) \cup {p}) /\ Len(q1) = Len(q) + 1 /\ Len(q) \in Nat
         /\ \A i \in 1 .. Len(q) : q1[i] = q[i]
         /\ q1[Len(q) + 1] = p
    BY <1>8, AppendAny
  <1>11. q1 \in Seq(Range(q1))
    BY <1>10, SeqOfItsRange
  <1>12. /\ sent'[e] = s1 /\ pipe'[e] = q1 /\ DOMAIN pipe' = Edges
         /\ \A d \in Edges : d # e => sent'[d] = sent[d] /\ pipe'[d] = pipe[d]
    BY <1>2, <1>3, <1>5
  <1> HIDE DEF s1, q1, s, q
  <1>13. k \in Nat /\ Len(s1) - Len(q1) = k
    BY <1>8, <1>9, <1>10
  <1>14. TakenFrom(e)' = k /\ \A d \in Edges : d # e => TakenFrom(d)' = TakenFrom(d)
    BY <1>12, <1>13 DEF TakenFrom
  <1> HIDE DEF k
  <1>15. PipeIsRest'
    <2>1. \A i \in 1 .. Len(q1) : q1[i] = s1[k + i]
      <3> TAKE i \in 1 .. Len(q1)
      <3>1. CASE i \in 1 .. Len(q)
        <4>1. k + i \in 1 .. Len(s)
          BY <1>8, <1>9, <1>10, <1>13, <3>1
        <4> QED BY <1>8, <1>9, <1>10, <3>1, <4>1
      <3>2. CASE i = Len(q) + 1
        <4>1. k + i = Len(s) + 1
          BY <1>8, <1>9, <1>10, <3>2
        <4> QED BY <1>9, <1>10, <3>2, <4>1
      <3> QED BY <1>10, <3>1, <3>2
    <2>2. Len(q1) <= Len(s1)
      BY <1>8, <1>9, <1>10
    <2>3. ASSUME NEW d \in Edges
          PROVE  /\ pipe'[d] \in Seq(Range(pipe'[d]))
                 /\ Len(pipe'[d]) <= Len(sent'[d])
                 /\ \A i \in 1 .. Len(pipe'[d]) : pipe'[d][i] = sent'[d][TakenFrom(d)' + i]
      <3>1. CASE d = e
        BY <1>11, <1>12, <1>14, <2>1, <2>2, <3>1
      <3>2. CASE d # e
        BY <1>3, <1>12, <1>14, <3>2 DEF PipeIsRest
      <3> QED BY <3>1, <3>2
    <2> QED BY <1>1, <1>12, <2>3 DEF PipeIsRest
  <1>16. Onward
    <2>1. \A d \in Edges : TakenFrom(d) \in Nat
      <3> TAKE d \in Edges
      <3>1. Len(sent[d]) \in Nat /\ Len(pipe[d]) \in Nat /\ Len(pipe[d]) <= Len(sent[d])
        BY <1>3, LenProperties DEF FlowTypeOK, PipeIsRest
      <3> QED BY <3>1 DEF TakenFrom
    <2>2. \A d \in Edges : TakenFrom(d)' = TakenFrom(d)
      BY <1>14 DEF k
    <2>3. \A d \in Edges : \A i \in 1 .. TakenFrom(d) : sent'[d][i] = sent[d][i]
      <3> TAKE d \in Edges
      <3>1. CASE d = e
        <4>1. \A i \in 1 .. k : i \in 1 .. Len(s)
          BY <1>8, <1>9, <1>10, <1>13
        <4> QED BY <1>9, <1>12, <3>1, <4>1 DEF k, s
      <3>2. CASE d # e
        BY <1>12, <3>2
      <3> QED BY <3>1, <3>2
    <2>4. \A m \in Nodes : Kind[m] = "source" => index[<<m, 1>>] \in Nat
      <3> SUFFICES ASSUME NEW m \in Nodes, Kind[m] = "source" PROVE index[<<m, 1>>] \in Nat
        OBVIOUS
      <3>1. 1 \in 1 .. Threads[m]
        BY <1>3, InputFacts
      <3>2. PICK v \in Workers : v = <<m, 1>>
        BY <1>3, <3>1, WorkerFacts
      <3>3. index[v] \in Nat
        BY <1>3 DEF FlowTypeOK
      <3> QED BY <3>2, <3>3
    <2>5. index' = index
      BY <1>2
    <2>6. \A d \in Edges : /\ TakenFrom(d) \in Nat /\ TakenFrom(d)' \in Nat
                           /\ TakenFrom(d) <= TakenFrom(d)'
      BY <2>1, <2>2
    <2> QED BY <2>3, <2>4, <2>5, <2>6 DEF Onward
  <1>17. \A m \in Nodes : \A x : Past(m, x) => Past(m, x)'
    BY <1>3, <1>16, PastStays
  <1>18. \A d \in Edges : \A x : Carried(d, x)' => Carried(d, x) \/ (d = e /\ x = p)
    <2> SUFFICES ASSUME NEW d \in Edges, NEW x, Carried(d, x)' PROVE Carried(d, x) \/ (d = e /\ x = p)
      OBVIOUS
    <2>1. CASE d # e
      BY <1>12, <2>1 DEF Carried
    <2>2. CASE d = e
      <3>1. PICK i \in 1 .. Len(s1) : s1[i] = x
        BY <1>12, <2>2 DEF Carried
      <3>2. i \in 1 .. Len(s) \/ i = Len(s) + 1
        BY <1>9
      <3> QED BY <1>9, <2>2, <3>1, <3>2 DEF Carried, s
    <2> QED BY <2>1, <2>2
  <1>19. CarriedOnce'
    <2>1. ASSUME NEW m \in Nodes, NEW d \in OutEdges(m), NEW x, Carried(d, x)', x # Eos
          PROVE  Past(m, x)'
      <3>1. d \in Edges
        BY <1>3, OutEdgesApart
      <3>2. CASE Carried(d, x)
        BY <1>3, <1>17, <2>1, <3>2 DEF CarriedOnce
      <3>3. CASE d = e /\ x = p
        <4>1. m = n /\ Past(n, p)
          BY <1>3, <1>5, <1>6, <2>1, <3>3 DEF SendingOnce
        <4> QED BY <1>17, <3>3, <4>1
      <3> QED BY <1>18, <2>1, <3>1, <3>2, <3>3
    <2>2. \A i, j \in 1 .. Len(s1) : s1[i] = s1[j] => i = j
      <3> SUFFICES ASSUME NEW i \in 1 .. Len(s1), NEW j \in 1 .. Len(s1), s1[i] = s1[j] PROVE i = j
        OBVIOUS
      <3>1. (i \in 1 .. Len(s) \/ i = Len(s) + 1) /\ (j \in 1 .. Len(s) \/ j = Len(s) + 1)
        BY <1>9
      <3> QED BY <1>8, <1>9, <3>1
    <2>3. \A d \in Edges : \A i, j \in 1 .. Len(sent'[d]) : sent'[d][i] = sent'[d][j] => i = j
      BY <1>3, <1>12, <2>2 DEF CarriedOnce
    <2> QED BY <1>1, <2>1, <2>3 DEF CarriedOnce, Eos
  <1>20. /\ \A v, x : Sends(v, x)' <=> Sends(v, x)
         /\ \A v : Sending(v)' <=> Sending(v)
    BY <1>2 DEF Sends, Sending, Eos
  <1>21. todo'[w] = Tail(todo[w]) /\ \A v \in Workers : v # w => todo'[v] = todo[v]
    BY <1>2, <1>3
  <1>22. \A i \in 1 .. Len(todo'[w]) : /\ i + 1 \in 1 .. Len(todo[w]) /\ i + 1 # 1
                                       /\ todo'[w][i] = todo[w][i + 1] /\ i \in Int
    <2>1. \A i \in 1 .. Len(todo[w]) - 1 : i + 1 \in 1 .. Len(todo[w]) /\ i + 1 # 1 /\ i \in Int
      BY <1>4
    <2> QED BY <1>4, <1>21, <2>1
  <1>23. \A v \in Workers : \A d : Queued(v, d)' => Queued(v, d) /\ d \in OutEdges(v[1])
    <2> SUFFICES ASSUME NEW v \in Workers, NEW d, Queued(v, d)'
                 PROVE  Queued(v, d) /\ d \in OutEdges(v[1])
      OBVIOUS
    <2>1. Queued(v, d)
      BY <1>21, <1>22 DEF Queued
    <2>2. PICK i \in 1 .. Len(todo[v]) : todo[v][i] = d
      BY <2>1 DEF Queued
    <2> QED BY <1>3, <2>1, <2>2, ElementOfSeq
  <1>24. Sending(w) => ~Queued(w, e)'
    BY <1>3, <1>4, <1>22 DEF Queued, SendingOnce
  <1>25. SendingOnce'
    <2>1. ASSUME NEW v \in Workers, NEW x, Sends(v, x)' PROVE Past(v[1], x)'
      BY <1>3, <1>17, <1>20, <2>1 DEF SendingOnce
    <2>2. ASSUME NEW v \in Workers, NEW x, Sends(v, x)', NEW d, Queued(v, d)', Carried(d, x)' PROVE FALSE
      <3>1. Sends(v, x) /\ Queued(v, d) /\ d \in OutEdges(v[1]) /\ d \in Edges
        BY <1>3, <1>20, <1>23, <2>2, OutEdgesApart
      <3>2. ~Carried(d, x)
        BY <1>3, <3>1 DEF SendingOnce
      <3>3. d = e /\ x = p /\ v[1] = n
        BY <1>3, <1>5, <1>18, <2>2, <3>1, <3>2
      <3>4. Sends(w, p) /\ Sending(w)
        BY <1>6, <3>1, <3>3 DEF Sends, Sending
      <3>5. v = w
        BY <1>3, <3>1, <3>3, <3>4 DEF SendingOnce
      <3> QED BY <1>24, <2>2, <3>3, <3>4, <3>5
    <2>3. ASSUME NEW v \in Workers, Sending(v)
          PROVE  \A i, j \in 1 .. Len(todo'[v]) : todo'[v][i] = todo'[v][j] => i = j
      <3>1. \A i, j \in 1 .. Len(todo[v]) : todo[v][i] = todo[v][j] => i = j
        BY <1>3, <2>3 DEF SendingOnce
      <3>2. CASE v = w
        <4> SUFFICES ASSUME NEW i \in 1 .. Len(todo'[w]), NEW j \in 1 .. Len(todo'[w]),
                            todo'[w][i] = todo'[w][j]
                     PROVE  i = j
          BY <3>2
        <4>1. i + 1 = j + 1 /\ i \in Int /\ j \in Int
          BY <1>22, <3>1, <3>2
        <4> QED BY <4>1
      <3>3. CASE v # w
        BY <1>21, <3>1, <3>3
      <3> QED BY <3>2, <3>3
    <2>4. ASSUME NEW u \in Workers, NEW v \in Workers, NEW x, Sends(u, x), Sends(v, x), u[1] = v[1]
          PROVE  u = v
      BY <1>3, <2>4 DEF SendingOnce
    <2> QED BY <1>1, <1>20, <2>1, <2>2, <2>3, <2>4 DEF SendingOnce
  <1>26. CollectedOnce'
    BY <1>2, <1>3, <1>16, KeepsCollected
  <1> QED BY <1>15, <1>19, <1>25, <1>26 DEF Once


\* A step that reads, makes and sends nothing.
LEMMA RestsKeep ==
  ASSUME FlowTypeOK, PipeIsRest, CarriedOnce, SendingOnce, CollectedOnce, Rests, graph' = graph
  PROVE  Once'
  <1>1. Edges' = Edges /\ graph \in Graphs
    BY GraphStays DEF FlowTypeOK
  <1>2. UNCHANGED <<pipe, sent, collected>> /\ SendsOld
    BY DEF Rests
  <1>3. \A d : TakenFrom(d)' = TakenFrom(d)
    BY <1>2 DEF TakenFrom
  <1>4. PipeIsRest'
    BY <1>1, <1>2, <1>3 DEF PipeIsRest
  <1>5. \A d \in Edges : TakenFrom(d) \in Nat
    <2> TAKE d \in Edges
    <2>1. Len(sent[d]) \in Nat /\ Len(pipe[d]) \in Nat /\ Len(pipe[d]) <= Len(sent[d])
      BY LenProperties DEF FlowTypeOK, PipeIsRest
    <2> QED BY <2>1 DEF TakenFrom
  <1>6. \A m \in Nodes : Kind[m] = "source" =>
           index[<<m, 1>>] \in Nat /\ index'[<<m, 1>>] = index[<<m, 1>>]
    <2> SUFFICES ASSUME NEW m \in Nodes, Kind[m] = "source"
                 PROVE  index[<<m, 1>>] \in Nat /\ index'[<<m, 1>>] = index[<<m, 1>>]
      OBVIOUS
    <2>1. 1 \in 1 .. Threads[m]
      BY <1>1, InputFacts
    <2>2. PICK v \in Workers : v = <<m, 1>>
      BY <1>1, <2>1, WorkerFacts
    <2>3. index[v] \in Nat
      BY DEF FlowTypeOK
    <2>4. index'[<<m, 1>>] = index[<<m, 1>>]
      BY DEF Rests
    <2> QED BY <2>2, <2>3, <2>4
  <1>7. Onward
    BY <1>2, <1>3, <1>5, <1>6 DEF Onward
  <1>8. CarriedOnce' /\ SendingOnce'
    BY <1>2, <1>7, OldSends
  <1>9. CollectedOnce'
    BY <1>2, <1>7, KeepsCollected
  <1> QED BY <1>4, <1>8, <1>9 DEF Once


\* Every step of a worker keeps the packets apart.
LEMMA OnceStep ==
  ASSUME FlowInv, Once, ~HasKind("converger"), NEW w \in Workers, Worker(w), graph' = graph
  PROVE  Once'
  <1>1. /\ FlowTypeOK /\ PipeIsRest /\ CarriedOnce /\ SendingOnce /\ CollectedOnce
        /\ graph \in Graphs
    BY DEF FlowInv, FlowTypeOK, Once
  <1>2. Flow(w)
    BY <1>1, FlowSteps
  <1>3. ASSUME NEW p, Reads(w, p) \/ Makes(w, p)
        PROVE  PipeIsRest' /\ Onward /\ ~Past(w[1], p) /\ Past(w[1], p)' /\ sent' = sent
    BY <1>1, <1>3, ReadsFacts, MakesFacts DEF Reads, Makes
  <1>4. ASSUME NEW p, Reads(w, p) \/ Makes(w, p), NEW t, SendsNext(w, p, t), UNCHANGED collected
        PROVE  Once'
    <2>1. PipeIsRest' /\ Onward /\ ~Past(w[1], p) /\ Past(w[1], p)' /\ sent' = sent
      BY <1>3, <1>4
    <2>2. CarriedOnce' /\ SendingOnce'
      BY <1>1, <1>4, <2>1, NewSend
    <2>3. CollectedOnce'
      BY <1>1, <1>4, <2>1, KeepsCollected
    <2> QED BY <2>1, <2>2, <2>3 DEF Once
  <1>5. ASSUME NEW p, Reads(w, p), SendsOld,
               \/ UNCHANGED collected
               \/ /\ w[1] \in Sinks
                  /\ collected' = [collected EXCEPT ![w[1]] = Append(collected[w[1]], p)]
        PROVE  Once'
    <2>1. PipeIsRest' /\ Onward /\ ~Past(w[1], p) /\ Past(w[1], p)' /\ sent' = sent
      BY <1>3, <1>5
    <2>2. CarriedOnce' /\ SendingOnce'
      BY <1>1, <1>5, <2>1, OldSends
    <2>3. CollectedOnce'
      BY <1>1, <1>5, <2>1, KeepsCollected
    <2> QED BY <2>1, <2>2, <2>3 DEF Once
  <1>6. CASE Rests
    BY <1>1, <1>6, RestsKeep
  <1>7. CASE SendOne(w)
    BY <1>7, SendOneOnce
  <1> QED BY <1>2, <1>4, <1>5, <1>6, <1>7 DEF Flow

LEMMA OnceInit == Init => Once
  <1> SUFFICES ASSUME Init PROVE Once
    OBVIOUS
  <1>1. /\ \A e \in Edges : sent[e] = <<>> /\ pipe[e] = <<>>
        /\ DOMAIN pipe = Edges /\ DOMAIN collected = Sinks
        /\ \A s \in Sinks : collected[s] = <<>>
        /\ \A w \in Workers : pc[w] = "loop"
        /\ graph \in Graphs
    BY DEF Init
  <1>2. \A S : <<>> \in Seq(S) /\ Len(<<>>) = 0
    BY EmptySeq
  <1>3. PipeIsRest
    <2> SUFFICES ASSUME NEW e \in Edges
                 PROVE  /\ pipe[e] \in Seq(Range(pipe[e]))
                        /\ Len(pipe[e]) <= Len(sent[e])
                        /\ \A i \in 1 .. Len(pipe[e]) : pipe[e][i] = sent[e][TakenFrom(e) + i]
      BY <1>1 DEF PipeIsRest
    <2>1. pipe[e] = <<>> /\ Len(sent[e]) = 0 /\ Len(pipe[e]) = 0
      BY <1>1, <1>2
    <2>2. pipe[e] \in Seq(Range(pipe[e]))
      BY <1>2, <2>1
    <2>3. 1 .. Len(pipe[e]) = {}
      BY <2>1
    <2> QED BY <2>1, <2>2, <2>3
  <1>4. CarriedOnce
    <2>1. \A e \in Edges : \A p : ~Carried(e, p)
      BY <1>1 DEF Carried
    <2>2. \A n \in Nodes : \A e \in OutEdges(n) : e \in Edges
      BY <1>1, OutEdgesApart
    <2> QED BY <1>1, <2>1, <2>2 DEF CarriedOnce
  <1>5. SendingOnce
    <2>1. \A w \in Workers : ~Sending(w) /\ \A p : ~Sends(w, p)
      BY <1>1 DEF Sends, Sending
    <2> QED BY <2>1 DEF SendingOnce
  <1>6. CollectedOnce
    <2>1. \A s \in Sinks : \A p : ~Holds(s, p)
      BY <1>1 DEF Holds
    <2>2. \A s \in Sinks : /\ collected[s] \in Seq(Range(collected[s]))
                           /\ 1 .. Len(collected[s]) = {}
      <3> TAKE s \in Sinks
      <3>1. collected[s] = <<>> /\ Len(collected[s]) = 0
        BY <1>1, <1>2
      <3> QED BY <1>2, <3>1
    <2> QED BY <1>1, <2>1, <2>2 DEF CollectedOnce
  <1> QED BY <1>3, <1>4, <1>5, <1>6 DEF Once

\* What travels through a running graph is sound, for every graph the builder
\* accepts, however many nodes, instances and connections it has and however its
\* workers interleave, fail or are stopped: no edge carries a packet after its EOS,
\* no sink of a graph without a converger gets a packet twice, and no worker gives
\* up while the graph runs (ElementIo::recv, send and broadcast_eos).
THEOREM FlowStaysSound == Spec => []FlowIsSound
  <1> DEFINE Inv == FlowInv /\ (~HasKind("converger") => Once)
  <1>1. Init => Inv
    BY FlowInvInit, OnceInit
  <1>2. Inv /\ [Next]_vars => Inv'
    <2> SUFFICES ASSUME Inv, [Next]_vars PROVE Inv'
      OBVIOUS
    <2>1. FlowInv'
      BY FlowInvStep
    <2>2. graph' = graph
      BY DEF Next, Run, Joined, vars
    <2>3. HasKind("converger")' <=> HasKind("converger")
      BY <2>2, GraphStays DEF HasKind
    <2>4. SUFFICES ASSUME ~HasKind("converger"), Once PROVE Once'
      BY <2>1, <2>3
    <2>5. ASSUME NEW w \in AllWorkers, Run(w) PROVE Once'
      <3>1. w \in Workers /\ Worker(w)
        BY <2>5, WorkerFacts DEF Run, FlowInv, FlowTypeOK
      <3> QED BY <2>2, <2>4, <3>1, OnceStep
    <2>6. ASSUME UNCHANGED <<pipe, pc, cur, todo, index, collected, sent>> PROVE Once'
      <3>1. Rests
        BY <2>6 DEF Rests, SendsOld, Sending, Eos
      <3> QED BY <2>2, <2>4, <3>1, RestsKeep DEF FlowInv, Once
    <2>7. CASE RequestStop \/ Joined \/ UNCHANGED vars
      BY <2>6, <2>7 DEF RequestStop, Joined, vars
    <2> QED BY <2>5, <2>7 DEF Next
  <1>3. Inv => FlowIsSound
    <2> SUFFICES ASSUME Inv PROVE FlowIsSound
      OBVIOUS
    <2>1. ASSUME ~HasKind("converger"), NEW s \in Sinks PROVE IsInjective(collected[s])
      <3>1. /\ collected[s] \in Seq(Range(collected[s]))
            /\ \A i, j \in 1 .. Len(collected[s]) : collected[s][i] = collected[s][j] => i = j
        BY <2>1 DEF Once, CollectedOnce
      <3>2. DOMAIN collected[s] = 1 .. Len(collected[s])
        BY <3>1, LenProperties
      <3> QED BY <3>1, <3>2 DEF IsInjective
    <2> QED BY <2>1 DEF FlowInv, FlowIsSound, NothingRepeated
  <1> QED BY <1>1, <1>2, <1>3, PTL DEF Spec

-----------------------------------------------------------------------------
(* The buffer cache *)

Elems(s) == {s[i] : i \in 1..Len(s)}
NoRepeat(s) == \A i, j \in 1..Len(s) : s[i] = s[j] => i = j

\* t holds the elements T of s, each once and in the order of s.
OrderedIn(t, s, T) ==
    /\ t \in Seq(T)
    /\ \A x \in T : (\E i \in 1..Len(t) : t[i] = x) /\ (\E i \in 1..Len(s) : s[i] = x)
    /\ \A i, j \in 1..Len(t) : i < j =>
         \A x, y \in 1..Len(s) : s[x] = t[i] /\ s[y] = t[j] => x < y

\* What comes first in t comes first in s.
LEMMA InOrder ==
  ASSUME NEW s, NEW T, NEW t, OrderedIn(t, s, T), NEW i \in 1..Len(t), NEW j \in 1..Len(t), i < j,
         NEW x \in 1..Len(s), NEW y \in 1..Len(s), s[x] = t[i], s[y] = t[j]
  PROVE  x < y
  BY DEF OrderedIn

\* What is ordered holds nothing twice.
LEMMA OrderedOnce ==
  ASSUME NEW S, NEW s \in Seq(S), NEW T, NEW t, OrderedIn(t, s, T)
  PROVE  NoRepeat(t) /\ Elems(t) = T /\ T \subseteq Elems(s) /\ Len(t) \in Nat
         /\ \A i \in 1..Len(t) : t[i] \in T
  <1>1. t \in Seq(T) /\ Len(t) \in Nat /\ Len(s) \in Nat /\ \A i \in 1..Len(t) : t[i] \in T
    BY DEF OrderedIn
  <1>2. ASSUME NEW i \in 1..Len(t), NEW j \in 1..Len(t), t[i] = t[j], i < j PROVE FALSE
    <2>1. PICK x \in 1..Len(s) : s[x] = t[i]
      BY <1>1 DEF OrderedIn
    <2>2. x < x
      BY <1>2, <2>1 DEF OrderedIn
    <2> QED BY <1>1, <2>1, <2>2
  <1>3. NoRepeat(t)
    <2> SUFFICES ASSUME NEW i \in 1..Len(t), NEW j \in 1..Len(t), t[i] = t[j] PROVE i = j
      BY DEF NoRepeat
    <2> QED BY <1>1, <1>2
  <1>4. Elems(t) = T
    <2>1. Elems(t) \subseteq T
      BY <1>1 DEF Elems
    <2>2. T \subseteq Elems(t)
      BY DEF OrderedIn, Elems
    <2> QED BY <2>1, <2>2
  <1>5. T \subseteq Elems(s)
    BY DEF OrderedIn, Elems
  <1> QED BY <1>1, <1>3, <1>4, <1>5

\* Two sequences with the same order begin with the same elements.
LEMMA SameBegin ==
  ASSUME NEW S, NEW s \in Seq(S), NEW T, NEW t, NEW u, OrderedIn(t, s, T), OrderedIn(u, s, T)
  PROVE  \A i \in 1..Len(t) : i <= Len(u) => t[i] = u[i]
  <1>0. /\ NoRepeat(t) /\ NoRepeat(u) /\ Len(t) \in Nat /\ Len(u) \in Nat
        /\ (\A i \in 1..Len(t) : t[i] \in T) /\ (\A i \in 1..Len(u) : u[i] \in T)
    BY OrderedOnce
  <1> DEFINE D == {i \in 1..Len(t) : i <= Len(u) /\ t[i] # u[i]}
  <1> SUFFICES ASSUME D # {} PROVE FALSE
    BY <1>0
  <1>1. PICK m \in D : \A j \in D : m <= j
    <2> D \in SUBSET Nat
      BY <1>0
    <2> QED BY LeastNumber
  <1>2. m \in 1..Len(t) /\ m \in 1..Len(u) /\ t[m] # u[m]
    BY <1>0, <1>1
  <1>3. \A j \in Nat : 1 <= j /\ j < m => j \in 1..Len(t) /\ j \in 1..Len(u) /\ t[j] = u[j]
    BY <1>0, <1>1, <1>2
  <1>4. PICK j \in 1..Len(u) : u[j] = t[m]
    BY <1>0, <1>2 DEF OrderedIn
  <1>5. PICK l \in 1..Len(t) : t[l] = u[m]
    BY <1>0, <1>2 DEF OrderedIn
  <1>6. m < j
    <2>1. j # m
      BY <1>2, <1>4
    <2>2. ASSUME j < m PROVE FALSE
      <3>1. t[j] = u[j] /\ j \in 1..Len(t)
        BY <1>0, <1>3, <1>4, <2>2
      <3>2. j = m
        BY <1>0, <1>2, <1>4, <3>1 DEF NoRepeat
      <3> QED BY <2>1, <3>2
    <2> QED BY <1>0, <1>2, <1>4, <2>1, <2>2
  <1>7. m < l
    <2>1. l # m
      BY <1>2, <1>5
    <2>2. ASSUME l < m PROVE FALSE
      <3>1. t[l] = u[l] /\ l \in 1..Len(u)
        BY <1>0, <1>3, <1>5, <2>2
      <3>2. l = m
        BY <1>0, <1>2, <1>5, <3>1 DEF NoRepeat
      <3> QED BY <2>1, <3>2
    <2> QED BY <1>0, <1>2, <1>5, <2>1, <2>2
  <1>8. PICK x \in 1..Len(s) : s[x] = t[m]
    BY <1>0, <1>2 DEF OrderedIn
  <1>9. PICK y \in 1..Len(s) : s[y] = u[m]
    BY <1>0, <1>2 DEF OrderedIn
  <1>a. s[y] = t[l] /\ s[x] = u[j]
    BY <1>4, <1>5, <1>8, <1>9
  <1>10. x < y
    BY <1>2, <1>5, <1>7, <1>8, <1>9, <1>a, InOrder
  <1>11. y < x
    BY <1>2, <1>4, <1>6, <1>8, <1>9, <1>a, InOrder
  <1>12. Len(s) \in Nat
    BY LenProperties
  <1> QED BY <1>8, <1>9, <1>10, <1>11, <1>12

\* Nor is one of them longer.
LEMMA NotLonger ==
  ASSUME NEW S, NEW s \in Seq(S), NEW T, NEW t, NEW u, OrderedIn(t, s, T), OrderedIn(u, s, T)
  PROVE  Len(u) <= Len(t)
  <1>0. NoRepeat(u) /\ Len(t) \in Nat /\ Len(u) \in Nat /\ \A i \in 1..Len(u) : u[i] \in T
    BY OrderedOnce
  <1> SUFFICES ASSUME Len(t) < Len(u) PROVE FALSE
    BY <1>0
  <1>1. Len(t) + 1 \in 1..Len(u)
    BY <1>0
  <1>2. PICK i \in 1..Len(t) : t[i] = u[Len(t) + 1]
    BY <1>0, <1>1 DEF OrderedIn
  <1>3. i \in 1..Len(u) /\ i <= Len(u) /\ i # Len(t) + 1
    BY <1>0, <1>2
  <1>4. t[i] = u[i]
    BY <1>2, <1>3, SameBegin
  <1> QED BY <1>1, <1>2, <1>3, <1>4, <1>0 DEF NoRepeat

LEMMA OrderedUnique ==
  ASSUME NEW S, NEW s \in Seq(S), NEW T, NEW t, NEW u, OrderedIn(t, s, T), OrderedIn(u, s, T)
  PROVE  t = u
  <1>1. t \in Seq(T) /\ u \in Seq(T) /\ Len(t) \in Nat /\ Len(u) \in Nat
    BY DEF OrderedIn
  <1>2. Len(u) <= Len(t) /\ Len(t) <= Len(u)
    BY NotLonger
  <1>3. Len(t) = Len(u)
    BY <1>1, <1>2
  <1>4. \A i \in 1..Len(t) : t[i] = u[i]
    BY <1>1, <1>3, SameBegin
  <1> QED BY <1>1, <1>3, <1>4, SeqEqual

\* An order within an order, and an order that two sequences take over.
LEMMA OrderedThrough ==
  ASSUME NEW S, NEW s \in Seq(S), NEW T, NEW t, OrderedIn(t, s, T), NEW U, NEW u, OrderedIn(u, t, U)
  PROVE  OrderedIn(u, s, U)
  <1>1. t \in Seq(T) /\ u \in Seq(U)
    BY DEF OrderedIn
  <1>2. U \subseteq T /\ \A i \in 1..Len(u) : u[i] \in U
    BY <1>1, OrderedOnce
  <1>3. ASSUME NEW i \in 1..Len(u), NEW j \in 1..Len(u), i < j,
               NEW x \in 1..Len(s), NEW y \in 1..Len(s), s[x] = u[i], s[y] = u[j]
        PROVE  x < y
    <2>1. PICK p \in 1..Len(t) : t[p] = u[i]
      BY <1>2 DEF OrderedIn
    <2>2. PICK r \in 1..Len(t) : t[r] = u[j]
      BY <1>2 DEF OrderedIn
    <2>3. p < r
      BY <1>3, <2>1, <2>2, InOrder
    <2>4. s[x] = t[p] /\ s[y] = t[r]
      BY <1>3, <2>1, <2>2
    <2> QED BY <2>3, <2>4, InOrder
  <1>4. \A x \in U : (\E i \in 1..Len(u) : u[i] = x) /\ (\E i \in 1..Len(s) : s[i] = x)
    BY <1>2 DEF OrderedIn
  <1> QED BY <1>1, <1>3, <1>4 DEF OrderedIn

LEMMA OrderedWithin ==
  ASSUME NEW S, NEW s \in Seq(S), NEW T, NEW t, OrderedIn(t, s, T), NEW U, NEW u, OrderedIn(u, s, U),
         U \subseteq T
  PROVE  OrderedIn(u, t, U)
  <1>0. Len(s) \in Nat /\ u \in Seq(U)
    BY LenProperties DEF OrderedIn
  <1>1. /\ u \in Seq(U) /\ NoRepeat(u) /\ (\A i \in 1..Len(u) : u[i] \in U)
        /\ Len(t) \in Nat /\ Len(u) \in Nat /\ Len(s) \in Nat
    BY <1>0, OrderedOnce
  <1>2. \A x \in U : (\E i \in 1..Len(u) : u[i] = x) /\ (\E i \in 1..Len(t) : t[i] = x)
    BY DEF OrderedIn
  <1>3. ASSUME NEW i \in 1..Len(u), NEW j \in 1..Len(u), i < j,
               NEW x \in 1..Len(t), NEW y \in 1..Len(t), t[x] = u[i], t[y] = u[j]
        PROVE  x < y
    <2>1. PICK p \in 1..Len(s) : s[p] = u[i]
      BY <1>1 DEF OrderedIn
    <2>2. PICK r \in 1..Len(s) : s[r] = u[j]
      BY <1>1 DEF OrderedIn
    <2>3. p < r
      BY <1>3, <2>1, <2>2 DEF OrderedIn
    <2>4. x # y
      <3>1. i # j
        BY <1>1, <1>3, LenProperties
      <3> QED BY <1>1, <1>3, <3>1 DEF NoRepeat
    <2>5. ASSUME y < x PROVE FALSE
      <3>1. r < p
        BY <1>3, <2>1, <2>2, <2>5 DEF OrderedIn
      <3> QED BY <1>1, <2>1, <2>2, <2>3, <3>1
    <2> QED BY <1>1, <1>3, <2>4, <2>5
  <1>4. \A i, j \in 1..Len(u) : i < j => \A x, y \in 1..Len(t) : t[x] = u[i] /\ t[y] = u[j] => x < y
    BY <1>3
  <1> QED BY <1>1, <1>2, <1>4, Zenon DEF OrderedIn

\* A sequence that repeats nothing is in its own order.
LEMMA OrderedSelf ==
  ASSUME NEW S, NEW s \in Seq(S), NoRepeat(s)
  PROVE  OrderedIn(s, s, Elems(s))
  <1>1. Len(s) \in Nat /\ s \in Seq(Elems(s))
    <2>1. DOMAIN s = 1..Len(s) /\ Len(s) \in Nat
      BY LenProperties
    <2>2. s \in [1..Len(s) -> Elems(s)]
      BY <2>1 DEF Elems
    <2> QED BY <2>1, <2>2, SeqDef
  <1>2. \A x \in Elems(s) : \E i \in 1..Len(s) : s[i] = x
    BY DEF Elems
  <1>3. ASSUME NEW i \in 1..Len(s), NEW j \in 1..Len(s), i < j,
               NEW x \in 1..Len(s), NEW y \in 1..Len(s), s[x] = s[i], s[y] = s[j]
        PROVE  x < y
    <2>1. x = i /\ y = j
      BY <1>3 DEF NoRepeat
    <2> QED BY <1>3, <2>1
  <1> QED BY <1>1, <1>2, <1>3 DEF OrderedIn

\* Taking an element out keeps the order of the others.
LEMMA OrderedWithout ==
  ASSUME NEW S, NEW s \in Seq(S), NoRepeat(s), NEW t \in Seq(S), NEW p, NEW z, Inserted(t, s, p, z)
  PROVE  OrderedIn(t, s, Elems(s) \ {z})
  <1>1. /\ Len(s) \in Nat /\ Len(t) \in Nat /\ Len(s) = Len(t) + 1 /\ p \in 1..Len(s) /\ s[p] = z
        /\ DOMAIN t = 1..Len(t)
    BY LenProperties DEF Inserted
  \* where an element of t stands in s
  <1> DEFINE at(i) == IF i < p THEN i ELSE i + 1
  <1>2. \A i \in 1..Len(t) : at(i) \in 1..Len(s) /\ at(i) # p
    BY <1>1
  <1>3. \A i \in 1..Len(t) : t[i] = s[at(i)]
    <2> TAKE i \in 1..Len(t)
    <2>1. CASE i < p
      BY <1>1, <2>1 DEF Inserted
    <2>2. CASE i >= p
      BY <1>1, <2>2 DEF Inserted
    <2> QED BY <1>1, <2>1, <2>2
  <1>4. \A i, j \in 1..Len(t) : i < j => at(i) < at(j)
    BY <1>1
  <1>5. \A x \in 1..Len(s) : x # p => \E i \in 1..Len(t) : at(i) = x
    <2> TAKE x \in 1..Len(s)
    <2> HAVE x # p
    <2>1. CASE x < p
      <3>1. x \in 1..Len(t) /\ at(x) = x
        BY <1>1, <2>1
      <3> QED BY <3>1
    <2>2. CASE x > p
      <3>1. x - 1 \in 1..Len(t) /\ at(x - 1) = x
        BY <1>1, <2>2
      <3> QED BY <3>1
    <2> QED BY <1>1, <2>1, <2>2
  <1> HIDE DEF at
  <1>6. \A i \in 1..Len(t) : t[i] \in Elems(s) \ {z}
    <2> TAKE i \in 1..Len(t)
    <2>1. t[i] = s[at(i)] /\ at(i) \in 1..Len(s) /\ at(i) # p
      BY <1>2, <1>3
    <2>2. t[i] \in Elems(s)
      BY <2>1 DEF Elems
    <2>3. t[i] # z
      BY <1>1, <2>1 DEF NoRepeat
    <2> QED BY <2>2, <2>3
  <1>7. t \in Seq(Elems(s) \ {z})
    <2>1. t \in [1..Len(t) -> Elems(s) \ {z}]
      BY <1>1, <1>6
    <2> QED BY <1>1, <2>1, SeqDef
  <1>8. ASSUME NEW x \in Elems(s) \ {z}
        PROVE  (\E i \in 1..Len(t) : t[i] = x) /\ (\E i \in 1..Len(s) : s[i] = x)
    <2>1. PICK y \in 1..Len(s) : s[y] = x
      BY DEF Elems
    <2>2. y # p
      BY <1>1, <2>1
    <2>3. PICK i \in 1..Len(t) : at(i) = y
      BY <1>5, <2>2
    <2> QED BY <1>3, <2>1, <2>3
  <1>9. ASSUME NEW i \in 1..Len(t), NEW j \in 1..Len(t), i < j,
               NEW x \in 1..Len(s), NEW y \in 1..Len(s), s[x] = t[i], s[y] = t[j]
        PROVE  x < y
    <2>1. s[x] = s[at(i)] /\ s[y] = s[at(j)]
      BY <1>3, <1>9
    <2>2. x = at(i) /\ y = at(j)
      BY <1>2, <1>9, <2>1 DEF NoRepeat
    <2> QED BY <1>4, <1>9, <2>2
  <1> QED BY <1>7, <1>8, <1>9 DEF OrderedIn

\* A new last element.
LEMMA OrderedAppend ==
  ASSUME NEW S, NEW s \in Seq(S), NEW b \in S, b \notin Elems(s), NEW s2, s2 = Append(s, b),
         NEW T, NEW t, OrderedIn(t, s, T), NEW t2, t2 = Append(t, b)
  PROVE  OrderedIn(t, s2, T) /\ OrderedIn(t2, s2, T \cup {b})
  <1>1. /\ s2 \in Seq(S) /\ Len(s2) = Len(s) + 1 /\ s2[Len(s) + 1] = b /\ Len(s) \in Nat
        /\ \A i \in 1..Len(s) : s2[i] = s[i]
    BY AppendProperties, LenProperties
  <1>2. /\ t \in Seq(T) /\ NoRepeat(t) /\ T \subseteq Elems(s) /\ Len(t) \in Nat
        /\ \A i \in 1..Len(t) : t[i] \in T
    <2>1. t \in Seq(T)
      BY DEF OrderedIn
    <2> QED BY <2>1, OrderedOnce
  <1>3. /\ t2 \in Seq(T \cup {b}) /\ Len(t2) = Len(t) + 1 /\ t2[Len(t) + 1] = b
        /\ \A i \in 1..Len(t) : t2[i] = t[i]
    <2>1. t \in Seq(T \cup {b})
      BY <1>2
    <2> QED BY <2>1, AppendProperties, LenProperties
  <1>4. b \notin T
    BY <1>2
  <1>5. \A x \in 1..Len(s2) : s2[x] \in T => x \in 1..Len(s) /\ s2[x] = s[x]
    <2> TAKE x \in 1..Len(s2)
    <2>1. CASE x = Len(s) + 1
      BY <1>1, <1>4, <2>1
    <2>2. CASE x # Len(s) + 1
      <3>1. x \in 1..Len(s)
        BY <1>1, <2>2
      <3> QED BY <1>1, <3>1
    <2> QED BY <2>1, <2>2
  <1>6. \A x \in 1..Len(s2) : s2[x] = b => x = Len(s) + 1
    <2> SUFFICES ASSUME NEW x \in 1..Len(s2), s2[x] = b, x # Len(s) + 1 PROVE FALSE
      OBVIOUS
    <2>1. x \in 1..Len(s)
      BY <1>1
    <2> QED BY <1>1, <2>1 DEF Elems
  <1>7. OrderedIn(t, s2, T)
    <2>1. ASSUME NEW i \in 1..Len(t), NEW j \in 1..Len(t), i < j,
                 NEW x \in 1..Len(s2), NEW y \in 1..Len(s2), s2[x] = t[i], s2[y] = t[j]
          PROVE  x < y
      <3>1. x \in 1..Len(s) /\ y \in 1..Len(s) /\ s[x] = t[i] /\ s[y] = t[j]
        BY <1>2, <1>5, <2>1
      <3> QED BY <2>1, <3>1, InOrder
    <2>2. ASSUME NEW x \in T
          PROVE (\E i \in 1..Len(t) : t[i] = x) /\ (\E i \in 1..Len(s2) : s2[i] = x)
      <3>1. PICK i \in 1..Len(s) : s[i] = x
        BY DEF OrderedIn
      <3>2. i \in 1..Len(s2) /\ s2[i] = x
        BY <1>1, <3>1
      <3> QED BY <3>2 DEF OrderedIn
    <2>3. \A i, j \in 1..Len(t) : i < j => \A x, y \in 1..Len(s2) : s2[x] = t[i] /\ s2[y] = t[j] => x < y
      BY <2>1
    <2> QED BY <1>2, <2>2, <2>3, Zenon DEF OrderedIn
  <1>8. OrderedIn(t2, s2, T \cup {b})
    <2>0. \A i \in 1..Len(t2) : i = Len(t) + 1 \/ (i \in 1..Len(t) /\ t2[i] = t[i])
      <3> TAKE i \in 1..Len(t2)
      <3>1. i = Len(t) + 1 \/ i \in 1..Len(t)
        BY <1>2, <1>3
      <3> QED BY <1>3, <3>1
    <2>1. ASSUME NEW i \in 1..Len(t2), NEW j \in 1..Len(t2), i < j,
                 NEW x \in 1..Len(s2), NEW y \in 1..Len(s2), s2[x] = t2[i], s2[y] = t2[j]
          PROVE  x < y
      <3>0. i # Len(t) + 1
        BY <1>2, <1>3, <2>1
      <3>1. i \in 1..Len(t) /\ t2[i] = t[i]
        BY <2>0, <3>0
      <3>2. x \in 1..Len(s) /\ s[x] = t[i]
        BY <1>2, <1>5, <2>1, <3>1
      <3>3. CASE j = Len(t) + 1
        <4>1. y = Len(s) + 1
          BY <1>3, <1>6, <2>1, <3>3
        <4> QED BY <1>1, <3>2, <4>1
      <3>4. CASE j \in 1..Len(t) /\ t2[j] = t[j]
        <4>1. y \in 1..Len(s) /\ s[y] = t[j]
          BY <1>2, <1>5, <2>1, <3>4
        <4> QED BY <2>1, <3>1, <3>2, <3>4, <4>1, InOrder
      <3> QED BY <2>0, <2>1, <3>3, <3>4
    <2>2. ASSUME NEW x \in T \cup {b}
          PROVE (\E i \in 1..Len(t2) : t2[i] = x) /\ (\E i \in 1..Len(s2) : s2[i] = x)
      <3>1. CASE x = b
        <4>1. Len(t) + 1 \in 1..Len(t2) /\ Len(s) + 1 \in 1..Len(s2)
          BY <1>1, <1>2, <1>3
        <4> QED BY <1>1, <1>3, <3>1, <4>1
      <3>2. CASE x \in T
        <4>1. PICK i \in 1..Len(t) : t[i] = x
          BY <3>2 DEF OrderedIn
        <4>2. i \in 1..Len(t2) /\ t2[i] = x
          BY <1>2, <1>3, <4>1
        <4>3. PICK k \in 1..Len(s) : s[k] = x
          BY <3>2 DEF OrderedIn
        <4>4. k \in 1..Len(s2) /\ s2[k] = x
          BY <1>1, <4>3
        <4> QED BY <4>2, <4>4
      <3> QED BY <3>1, <3>2
    <2>3. \A i, j \in 1..Len(t2) : i < j => \A x, y \in 1..Len(s2) : s2[x] = t2[i] /\ s2[y] = t2[j] => x < y
      <3> TAKE i, j \in 1..Len(t2)
      <3> HAVE i < j
      <3> TAKE x, y \in 1..Len(s2)
      <3> HAVE s2[x] = t2[i] /\ s2[y] = t2[j]
      <3> QED BY <2>1
    <2> QED BY <1>3, <2>2, <2>3, Zenon DEF OrderedIn
  <1> QED BY <1>7, <1>8

-----------------------------------------------------------------------------
(* What the recursive functions of the cache compute *)

\* The functions inside Kept and BytesOf, up to k.
KeptTo(f, s, T, k) ==
    f = [n \in 0..k |-> IF n = 0 THEN <<>>
                        ELSE IF s[n] \in T THEN Append(f[n - 1], s[n]) ELSE f[n - 1]]
SumTo(f, s, k) == f = [n \in 0..k |-> IF n = 0 THEN 0 ELSE f[n - 1] + Size(s[n])]

LEMMA KeptExists ==
  ASSUME NEW s, NEW T, NEW k \in Nat
  PROVE  \E f : KeptTo(f, s, T, k)
  <1> DEFINE D == {m \in Nat : ~ \E f : KeptTo(f, s, T, m)}
  <1> SUFFICES ASSUME D # {} PROVE FALSE
    OBVIOUS
  <1>1. PICK m \in D : \A j \in D : m <= j
    <2> D \in SUBSET Nat
      OBVIOUS
    <2> QED BY LeastNumber
  <1>2. CASE m = 0
    <2> DEFINE f == [n \in 0..0 |-> <<>>]
    <2>1. KeptTo(f, s, T, 0)
      BY DEF KeptTo
    <2> QED BY <1>1, <1>2, <2>1
  <1>3. CASE m # 0
    <2>1. m \in Nat /\ m - 1 \in Nat /\ ~(m <= m - 1)
      BY <1>1, <1>3
    <2>2. PICK f : KeptTo(f, s, T, m - 1)
      BY <1>1, <2>1
    <2> DEFINE last == IF s[m] \in T THEN Append(f[m - 1], s[m]) ELSE f[m - 1]
               g == [n \in 0..m |-> IF n = m THEN last ELSE f[n]]
    <2>3. \A n \in 0..m : g[n] = IF n = 0 THEN <<>>
                                  ELSE IF s[n] \in T THEN Append(g[n - 1], s[n]) ELSE g[n - 1]
      <3> TAKE n \in 0..m
      <3>1. CASE n = m
        <4>1. g[n] = last /\ g[n - 1] = f[m - 1] /\ n # 0
          BY <1>3, <2>1, <3>1
        <4> QED BY <3>1, <4>1
      <3>2. CASE n # m
        <4>1. n \in 0..m - 1 /\ (n # 0 => n - 1 \in 0..m /\ n - 1 # m)
          BY <2>1, <3>2
        <4>2. f[n] = IF n = 0 THEN <<>> ELSE IF s[n] \in T THEN Append(f[n - 1], s[n]) ELSE f[n - 1]
          BY <2>2, <4>1 DEF KeptTo
        <4>3. g[n] = f[n] /\ (n # 0 => g[n - 1] = f[n - 1])
          BY <3>2, <4>1
        <4> HIDE DEF g
        <4> QED BY <4>2, <4>3
      <3> QED BY <3>1, <3>2
    <2>4. KeptTo(g, s, T, m)
      <3>1. g = [n \in 0..m |-> g[n]]
        OBVIOUS
      <3> HIDE DEF g
      <3> QED BY <2>3, <3>1 DEF KeptTo
    <2> QED BY <1>1, <2>4
  <1> QED BY <1>2, <1>3

LEMMA SumExists ==
  ASSUME NEW s, NEW k \in Nat
  PROVE  \E f : SumTo(f, s, k)
  <1> DEFINE D == {m \in Nat : ~ \E f : SumTo(f, s, m)}
  <1> SUFFICES ASSUME D # {} PROVE FALSE
    OBVIOUS
  <1>1. PICK m \in D : \A j \in D : m <= j
    <2> D \in SUBSET Nat
      OBVIOUS
    <2> QED BY LeastNumber
  <1>2. CASE m = 0
    <2> DEFINE f == [n \in 0..0 |-> 0]
    <2>1. SumTo(f, s, 0)
      BY DEF SumTo
    <2> QED BY <1>1, <1>2, <2>1
  <1>3. CASE m # 0
    <2>1. m \in Nat /\ m - 1 \in Nat /\ ~(m <= m - 1)
      BY <1>1, <1>3
    <2>2. PICK f : SumTo(f, s, m - 1)
      BY <1>1, <2>1
    <2> DEFINE last == f[m - 1] + Size(s[m])
               g == [n \in 0..m |-> IF n = m THEN last ELSE f[n]]
    <2>3. \A n \in 0..m : g[n] = IF n = 0 THEN 0 ELSE g[n - 1] + Size(s[n])
      <3> TAKE n \in 0..m
      <3>1. CASE n = m
        <4>1. g[n] = last /\ g[n - 1] = f[m - 1] /\ n # 0
          BY <1>3, <2>1, <3>1
        <4> QED BY <3>1, <4>1
      <3>2. CASE n # m
        <4>1. n \in 0..m - 1 /\ (n # 0 => n - 1 \in 0..m /\ n - 1 # m)
          BY <2>1, <3>2
        <4>2. f[n] = IF n = 0 THEN 0 ELSE f[n - 1] + Size(s[n])
          BY <2>2, <4>1 DEF SumTo
        <4>3. g[n] = f[n] /\ (n # 0 => g[n - 1] = f[n - 1])
          BY <3>2, <4>1
        <4> HIDE DEF g
        <4> QED BY <4>2, <4>3
      <3> QED BY <3>1, <3>2
    <2>4. SumTo(g, s, m)
      <3>1. g = [n \in 0..m |-> g[n]]
        OBVIOUS
      <3> HIDE DEF g
      <3> QED BY <2>3, <3>1 DEF SumTo
    <2> QED BY <1>1, <2>4
  <1> QED BY <1>2, <1>3

LEMMA KeptIs ==
  ASSUME NEW S, NEW s \in Seq(S), NEW T
  PROVE  \E f : /\ f[0] = <<>> /\ Kept(s, T) = f[Len(s)]
                /\ \A n \in 1..Len(s) : f[n] = IF s[n] \in T THEN Append(f[n - 1], s[n]) ELSE f[n - 1]
  <1>0. Len(s) \in Nat
    BY LenProperties
  <1> DEFINE c == CHOOSE f : KeptTo(f, s, T, Len(s))
  <1>1. KeptTo(c, s, T, Len(s))
    BY <1>0, KeptExists
  <1>2. Kept(s, T) = c[Len(s)]
    BY DEF Kept, KeptTo
  <1> HIDE DEF c
  <1>3. \A n \in 0..Len(s) : c[n] = IF n = 0 THEN <<>>
                                    ELSE IF s[n] \in T THEN Append(c[n - 1], s[n]) ELSE c[n - 1]
    BY <1>1 DEF KeptTo
  <1>4. 0 \in 0..Len(s) /\ \A n \in 1..Len(s) : n \in 0..Len(s) /\ n # 0
    BY <1>0
  <1> QED BY <1>2, <1>3, <1>4

LEMMA SumIs ==
  ASSUME NEW S, NEW s \in Seq(S)
  PROVE  \E f : /\ f[0] = 0 /\ BytesOf(s) = f[Len(s)]
                /\ \A n \in 1..Len(s) : f[n] = f[n - 1] + Size(s[n])
  <1>0. Len(s) \in Nat
    BY LenProperties
  <1> DEFINE c == CHOOSE f : SumTo(f, s, Len(s))
  <1>1. SumTo(c, s, Len(s))
    BY <1>0, SumExists
  <1>2. BytesOf(s) = c[Len(s)]
    BY DEF BytesOf, SumTo
  <1> HIDE DEF c
  <1>3. \A n \in 0..Len(s) : c[n] = IF n = 0 THEN 0 ELSE c[n - 1] + Size(s[n])
    BY <1>1 DEF SumTo
  <1>4. 0 \in 0..Len(s) /\ \A n \in 1..Len(s) : n \in 0..Len(s) /\ n # 0
    BY <1>0
  <1> QED BY <1>2, <1>3, <1>4

\* Kept keeps the order.
LEMMA KeptOrdered ==
  ASSUME NEW S, NEW s \in Seq(S), NoRepeat(s), NEW T
  PROVE  OrderedIn(Kept(s, T), s, Elems(s) \cap T)
  <1>0. Len(s) \in Nat /\ \A i \in 1..Len(s) : s[i] \in Elems(s)
    BY LenProperties DEF Elems
  <1>1. PICK f : /\ f[0] = <<>> /\ Kept(s, T) = f[Len(s)]
                 /\ \A n \in 1..Len(s) : f[n] = IF s[n] \in T THEN Append(f[n - 1], s[n]) ELSE f[n - 1]
    BY KeptIs
  <1> DEFINE U == Elems(s) \cap T
             Good(n) == /\ f[n] \in Seq(U)
                        /\ \A i \in 1..Len(f[n]) : \E x \in 1..n : s[x] = f[n][i]
                        /\ \A x \in 1..n : s[x] \in T => \E i \in 1..Len(f[n]) : f[n][i] = s[x]
                        /\ \A i, j \in 1..Len(f[n]) : i < j =>
                             \A x, y \in 1..Len(s) : s[x] = f[n][i] /\ s[y] = f[n][j] => x < y
             D == {n \in 0..Len(s) : ~Good(n)}
  <1>2. Good(0)
    <2>1. Len(f[0]) = 0 /\ f[0] \in Seq(U)
      BY <1>1
    <2> QED BY <2>1
  <1>3. ASSUME NEW m \in 1..Len(s), Good(m - 1) PROVE Good(m)
    <2>0. m \in Nat /\ m - 1 \in Nat
      BY <1>0
    <2>1. PICK g : g = f[m - 1]
      OBVIOUS
    <2>2. PICK h : h = f[m]
      OBVIOUS
    <2>3. /\ g \in Seq(U)
          /\ \A i \in 1..Len(g) : \E x \in 1..m - 1 : s[x] = g[i]
          /\ \A x \in 1..m - 1 : s[x] \in T => \E i \in 1..Len(g) : g[i] = s[x]
          /\ \A i, j \in 1..Len(g) : i < j =>
               \A x, y \in 1..Len(s) : s[x] = g[i] /\ s[y] = g[j] => x < y
      BY <1>3, <2>1
    <2>4. Len(g) \in Nat
      BY <2>3
    <2>5. h = IF s[m] \in T THEN Append(g, s[m]) ELSE g
      BY <1>1, <2>1, <2>2
    <2> HIDE DEF Good, U
    <2>6. CASE s[m] \notin T
      <3>1. h = g
        BY <2>5, <2>6
      <3>2. \A i \in 1..Len(g) : \E x \in 1..m : s[x] = g[i]
        <4> TAKE i \in 1..Len(g)
        <4>1. PICK x \in 1..m - 1 : s[x] = g[i]
          BY <2>3
        <4>2. x \in 1..m
          BY <2>0, <4>1
        <4> QED BY <4>1, <4>2
      <3>3. \A x \in 1..m : s[x] \in T => \E i \in 1..Len(g) : g[i] = s[x]
        <4> TAKE x \in 1..m
        <4> HAVE s[x] \in T
        <4>1. x # m
          BY <2>6
        <4>2. x \in 1..m - 1
          BY <2>0, <4>1
        <4> QED BY <2>3, <4>2
      <3> QED BY <2>2, <2>3, <3>1, <3>2, <3>3 DEF Good
    <2>7. CASE s[m] \in T
      <3>1. s[m] \in U
        BY <1>0, <2>7 DEF U
      <3>2. /\ h \in Seq(U) /\ Len(h) = Len(g) + 1 /\ h[Len(g) + 1] = s[m]
            /\ \A i \in 1..Len(g) : h[i] = g[i]
        BY <2>3, <2>5, <2>7, <3>1, AppendProperties, LenProperties
      <3>3. \A i \in 1..Len(h) : i = Len(g) + 1 \/ (i \in 1..Len(g) /\ h[i] = g[i])
        <4> TAKE i \in 1..Len(h)
        <4>1. i = Len(g) + 1 \/ i \in 1..Len(g)
          BY <2>4, <3>2
        <4> QED BY <3>2, <4>1
      <3>4. \A i \in 1..Len(h) : \E x \in 1..m : s[x] = h[i]
        <4> TAKE i \in 1..Len(h)
        <4>1. CASE i = Len(g) + 1
          <5>1. m \in 1..m
            BY <2>0, <1>3
          <5> QED BY <3>2, <4>1, <5>1
        <4>2. CASE i \in 1..Len(g) /\ h[i] = g[i]
          <5>1. PICK x \in 1..m - 1 : s[x] = g[i]
            BY <2>3, <4>2
          <5>2. x \in 1..m
            BY <2>0, <5>1
          <5> QED BY <4>2, <5>1, <5>2
        <4> QED BY <3>3, <4>1, <4>2
      <3>5. \A x \in 1..m : s[x] \in T => \E i \in 1..Len(h) : h[i] = s[x]
        <4> TAKE x \in 1..m
        <4> HAVE s[x] \in T
        <4>1. CASE x = m
          <5>1. Len(g) + 1 \in 1..Len(h)
            BY <2>4, <3>2
          <5> QED BY <3>2, <4>1, <5>1
        <4>2. CASE x # m
          <5>1. x \in 1..m - 1
            BY <2>0, <4>2
          <5>2. PICK i \in 1..Len(g) : g[i] = s[x]
            BY <2>3, <5>1
          <5>3. i \in 1..Len(h) /\ h[i] = s[x]
            BY <2>4, <3>2, <5>2
          <5> QED BY <5>3
        <4> QED BY <4>1, <4>2
      <3>6. ASSUME NEW i \in 1..Len(h), NEW j \in 1..Len(h), i < j,
                   NEW x \in 1..Len(s), NEW y \in 1..Len(s), s[x] = h[i], s[y] = h[j]
            PROVE  x < y
        <4>0. i # Len(g) + 1
          BY <2>4, <3>2, <3>6
        <4>1. i \in 1..Len(g) /\ h[i] = g[i]
          BY <3>3, <4>0
        <4>2. CASE j = Len(g) + 1
          <5>1. y = m
            BY <3>2, <3>6, <4>2 DEF NoRepeat
          <5>2. PICK z \in 1..m - 1 : s[z] = g[i]
            BY <2>3, <4>1
          <5>3. z \in 1..Len(s)
            BY <1>0, <1>3, <5>2
          <5>4. x = z
            BY <3>6, <4>1, <5>2, <5>3 DEF NoRepeat
          <5> QED BY <2>0, <5>1, <5>2, <5>4
        <4>3. CASE j \in 1..Len(g) /\ h[j] = g[j]
          <5>1. s[x] = g[i] /\ s[y] = g[j]
            BY <3>6, <4>1, <4>3
          <5> QED BY <2>3, <3>6, <4>1, <4>3, <5>1
        <4> QED BY <3>3, <3>6, <4>2, <4>3
      <3>7. \A i, j \in 1..Len(h) : i < j => \A x, y \in 1..Len(s) : s[x] = h[i] /\ s[y] = h[j] => x < y
        BY <3>6
      <3> QED BY <2>2, <3>2, <3>4, <3>5, <3>7 DEF Good
    <2> QED BY <2>6, <2>7
  <1> HIDE DEF Good
  <1>4. D = {}
    <2> SUFFICES ASSUME D # {} PROVE FALSE
      OBVIOUS
    <2>1. PICK m \in D : \A j \in D : m <= j
      <3> D \in SUBSET Nat
        BY <1>0
      <3> QED BY LeastNumber
    <2>2. m \in 0..Len(s) /\ ~Good(m) /\ m # 0
      BY <1>2, <2>1
    <2>3. m \in 1..Len(s) /\ m - 1 \in 0..Len(s) /\ ~(m <= m - 1)
      BY <1>0, <2>2
    <2>4. Good(m - 1)
      BY <2>1, <2>3
    <2> QED BY <1>3, <2>2, <2>3, <2>4
  <1>5. Good(Len(s))
    BY <1>0, <1>4
  <1>6. PICK t : t = Kept(s, T)
    OBVIOUS
  <1>7. /\ t \in Seq(U)
        /\ \A x \in 1..Len(s) : s[x] \in T => \E i \in 1..Len(t) : t[i] = s[x]
        /\ \A i, j \in 1..Len(t) : i < j =>
             \A x, y \in 1..Len(s) : s[x] = t[i] /\ s[y] = t[j] => x < y
    BY <1>1, <1>5, <1>6 DEF Good
  <1>8. \A x \in U : (\E i \in 1..Len(t) : t[i] = x) /\ (\E i \in 1..Len(s) : s[i] = x)
    <2> TAKE x \in U
    <2>1. PICK y \in 1..Len(s) : s[y] = x
      BY DEF Elems
    <2> QED BY <1>7, <2>1
  <1>9. OrderedIn(t, s, U)
    BY <1>7, <1>8, Zenon DEF OrderedIn
  <1> QED BY <1>6, <1>9

\* One key more in a row is its size more.
LEMMA BytesInserted ==
  ASSUME NEW s \in Seq(Keys), NEW t \in Seq(Keys), NEW p, NEW k \in Keys, Inserted(t, s, p, k)
  PROVE  BytesOf(s) = BytesOf(t) + Size(k) /\ BytesOf(s) \in Nat /\ BytesOf(t) \in Nat /\ Size(k) \in Nat
  <1>0. \A q \in Keys : Size(q) \in Nat
    BY LimitsAssumption DEF Size
  <1>1. /\ Len(s) \in Nat /\ Len(t) \in Nat /\ Len(s) = Len(t) + 1 /\ p \in 1..Len(s) /\ s[p] = k
        /\ \A i \in 1..Len(t) : t[i] \in Keys
        /\ \A i \in 1..Len(s) : s[i] \in Keys
    BY LenProperties, ElementOfSeq DEF Inserted
  <1>2. PICK f : /\ f[0] = 0 /\ BytesOf(s) = f[Len(s)]
                 /\ \A n \in 1..Len(s) : f[n] = f[n - 1] + Size(s[n])
    BY SumIs
  <1>3. PICK g : /\ g[0] = 0 /\ BytesOf(t) = g[Len(t)]
                 /\ \A n \in 1..Len(t) : g[n] = g[n - 1] + Size(t[n])
    BY SumIs
  <1> DEFINE Good(n) == /\ f[n] \in Nat /\ g[n] \in Nat
                        /\ n < p => g[n] = f[n]
                        /\ n >= p => f[n + 1] = g[n] + Size(k)
             D == {n \in 0..Len(t) : ~Good(n)}
  <1>4. D = {}
    <2> SUFFICES ASSUME D # {} PROVE FALSE
      OBVIOUS
    <2>1. PICK m \in D : \A j \in D : m <= j
      <3> D \in SUBSET Nat
        BY <1>1
      <3> QED BY LeastNumber
    <2>2. CASE m = 0
      <3>1. Good(0)
        BY <1>1, <1>2, <1>3
      <3> QED BY <2>1, <2>2, <3>1
    <2>3. CASE m # 0
      <3>1. m \in 1..Len(t) /\ m \in 1..Len(s) /\ m + 1 \in 1..Len(s) /\ m - 1 \in 0..Len(t) /\ ~(m <= m - 1)
        BY <1>1, <2>1, <2>3
      <3>2. Good(m - 1)
        BY <2>1, <3>1
      <3>3. /\ f[m] = f[m - 1] + Size(s[m]) /\ g[m] = g[m - 1] + Size(t[m])
            /\ f[m + 1] = f[m + 1 - 1] + Size(s[m + 1])
        BY <1>2, <1>3, <3>1
      <3>4. m + 1 - 1 = m
        BY <3>1
      <3>5. f[m + 1] = f[m] + Size(s[m + 1])
        BY <3>3, <3>4
      <3>6. Size(s[m]) \in Nat /\ Size(t[m]) \in Nat /\ Size(s[m + 1]) \in Nat /\ Size(k) \in Nat
        BY <1>0, <1>1, <3>1
      <3>a. f[m - 1] \in Nat /\ g[m - 1] \in Nat
        BY <3>2
      <3> HIDE DEF Good
      <3>b. \A u, v \in Nat : u + v \in Nat
        OBVIOUS
      <3>c. f[m - 1] + Size(s[m]) \in Nat /\ g[m - 1] + Size(t[m]) \in Nat
        BY <3>6, <3>a, <3>b, Zenon
      <3>7. f[m] \in Nat /\ g[m] \in Nat
        BY <3>3, <3>c, Zenon
      <3>8. ASSUME m < p PROVE g[m] = f[m]
        <4>1. s[m] = t[m] /\ m - 1 < p
          BY <1>1, <3>1, <3>8 DEF Inserted
        <4> QED BY <3>2, <3>3, <4>1 DEF Good
      <3>9. ASSUME m >= p PROVE f[m + 1] = g[m] + Size(k)
        <4>1. s[m + 1] = t[m]
          BY <3>1, <3>9 DEF Inserted
        <4>2. CASE m = p
          <5>1. m - 1 < p /\ s[m] = k
            BY <1>1, <4>2
          <5>2. f[m] = g[m - 1] + Size(k)
            BY <3>2, <3>3, <5>1 DEF Good
          <5>3. g[m - 1] \in Nat
            BY <3>a
          <5> QED BY <3>3, <3>5, <3>6, <4>1, <5>2, <5>3
        <4>3. CASE m # p
          <5>1. m - 1 >= p /\ m - 1 + 1 = m
            BY <1>1, <3>1, <3>9, <4>3
          <5>2. f[m] = g[m - 1] + Size(k)
            BY <3>2, <5>1 DEF Good
          <5>3. g[m - 1] \in Nat
            BY <3>a
          <5> QED BY <3>3, <3>5, <3>6, <4>1, <5>2, <5>3
        <4> QED BY <4>2, <4>3
      <3>10. Good(m)
        BY <3>7, <3>8, <3>9 DEF Good
      <3> QED BY <2>1, <3>10
    <2> QED BY <2>2, <2>3
  <1>5. Good(Len(t))
    BY <1>1, <1>4
  <1>6. Size(k) \in Nat
    BY <1>0
  <1>7. f[Len(t) + 1] = g[Len(t)] + Size(k)
    <2>1. CASE Len(t) >= p
      BY <1>5, <2>1
    <2>2. CASE Len(t) < p
      <3>1. p = Len(t) + 1 /\ Len(t) + 1 \in 1..Len(s) /\ Len(t) + 1 - 1 = Len(t)
        BY <1>1, <2>2
      <3>2. f[Len(t) + 1] = f[Len(t)] + Size(s[Len(t) + 1])
        <4>1. f[Len(t) + 1] = f[Len(t) + 1 - 1] + Size(s[Len(t) + 1])
          BY <1>2, <3>1
        <4> QED BY <3>1, <4>1
      <3> QED BY <1>1, <1>5, <2>2, <3>1, <3>2
    <2> QED BY <1>1, <2>1, <2>2
  <1>8. g[Len(t)] \in Nat
    BY <1>5
  <1> QED BY <1>1, <1>2, <1>3, <1>6, <1>7, <1>8

-----------------------------------------------------------------------------
(* Rows with an element taken out *)

LEMMA RemoveInserted ==
  ASSUME NEW S, NEW s \in Seq(S), NEW k \in 1..Len(s)
  PROVE  RemoveAt(s, k) \in Seq(S) /\ Inserted(RemoveAt(s, k), s, k, s[k])
  <1>0. Len(s) \in Nat /\ k \in Int /\ k <= Len(s) /\ 1 <= k
    OBVIOUS
  <1>1. PICK a, b : a = SubSeq(s, 1, k - 1) /\ b = SubSeq(s, k + 1, Len(s))
    OBVIOUS
  <1>2. /\ a \in Seq(S) /\ Len(a) = k - 1 /\ \A i \in 1 .. k - 1 : a[i] = s[i]
    BY <1>0, <1>1
  <1>3. /\ b \in Seq(S) /\ Len(b) = Len(s) - k /\ \A i \in 1 .. Len(s) - k : b[i] = s[k + i]
    <2>1. PICK m, n : m = k + 1 /\ n = Len(s)
      OBVIOUS
    <2>2. m \in Int /\ n \in Int /\ b = SubSeq(s, m, n) /\ \A i \in m .. n : s[i] \in S
      BY <1>0, <1>1, <2>1
    <2>3. /\ b \in Seq(S) /\ Len(b) = (IF m <= n THEN n - m + 1 ELSE 0)
          /\ \A i \in 1 .. n - m + 1 : b[i] = s[m + i - 1]
      BY <2>2, SubSeqProperties
    <2>4. (IF m <= n THEN n - m + 1 ELSE 0) = Len(s) - k /\ n - m + 1 = Len(s) - k
      <3>1. n - m + 1 = Len(s) - k
        BY <1>0, <2>1
      <3>2. ~(m <= n) => Len(s) - k = 0
        BY <1>0, <2>1
      <3> QED
        BY <3>1, <3>2
    <2>5. \A i \in 1 .. Len(s) - k : m + i - 1 = k + i
      BY <1>0, <2>1
    <2> QED
      BY <2>3, <2>4, <2>5
  <1>4. PICK t : t = RemoveAt(s, k)
    OBVIOUS
  <1>5. /\ t \in Seq(S) /\ Len(t) = Len(a) + Len(b)
        /\ \A i \in 1 .. Len(a) + Len(b) : t[i] = IF i <= Len(a) THEN a[i] ELSE b[i - Len(a)]
    <2>1. t = a \o b
      BY <1>1, <1>4 DEF RemoveAt
    <2> QED BY <1>2, <1>3, <2>1, ConcatProperties
  <1>6. Len(s) = Len(t) + 1 /\ Len(t) \in Nat /\ Len(t) = Len(a) + Len(b)
    BY <1>0, <1>2, <1>3, <1>5
  <1>7. ASSUME NEW i \in 1..Len(t), i < k PROVE s[i] = t[i]
    <2>1. i \in 1 .. k - 1 /\ i <= Len(a)
      BY <1>0, <1>2, <1>7
    <2>2. t[i] = a[i]
      BY <1>5, <1>6, <2>1
    <2> QED BY <1>2, <2>1, <2>2
  <1>8. ASSUME NEW i \in 1..Len(t), i >= k PROVE s[i + 1] = t[i]
    <2>1. ~(i <= Len(a)) /\ i - Len(a) \in 1 .. Len(s) - k /\ k + (i - Len(a)) = i + 1
      BY <1>0, <1>2, <1>6, <1>8
    <2>2. t[i] = b[i - Len(a)]
      BY <1>5, <1>6, <2>1
    <2>3. b[i - Len(a)] = s[k + (i - Len(a))]
      BY <1>3, <2>1
    <2> QED BY <2>1, <2>2, <2>3
  <1>9. Inserted(t, s, k, s[k])
    BY <1>0, <1>6, <1>7, <1>8 DEF Inserted
  <1> QED BY <1>4, <1>5, <1>9

LEMMA TailInserted ==
  ASSUME NEW S, NEW s \in Seq(S), s # <<>>
  PROVE  Tail(s) \in Seq(S) /\ Inserted(Tail(s), s, 1, s[1]) /\ Len(s) \in Nat \ {0}
  <1>1. /\ Tail(s) \in Seq(S) /\ Len(Tail(s)) = Len(s) - 1 /\ Len(s) \in Nat \ {0}
        /\ \A i \in 1..Len(Tail(s)) : Tail(s)[i] = s[i + 1]
    BY HeadTailProperties, LenProperties
  <1>2. PICK t : t = Tail(s)
    OBVIOUS
  <1>3. Inserted(t, s, 1, s[1])
    BY <1>1, <1>2 DEF Inserted
  <1> QED BY <1>1, <1>2, <1>3

LEMMA FrontInserted ==
  ASSUME NEW S, NEW s \in Seq(S), s # <<>>
  PROVE  Front(s) \in Seq(S) /\ Inserted(Front(s), s, Len(s), Last(s)) /\ Len(s) \in Nat \ {0}
  <1>1. Len(s) \in Nat \ {0} /\ Len(s) - 1 \in Nat
    BY EmptySeq, LenProperties
  <1>2. PICK t : t = Front(s)
    OBVIOUS
  <1>3. /\ t \in Seq(S) /\ Len(t) = Len(s) - 1 /\ \A i \in 1..Len(s) - 1 : t[i] = s[i]
    <2>1. t = SubSeq(s, 1, Len(s) - 1) /\ \A i \in 1..Len(s) - 1 : s[i] \in S
      BY <1>1, <1>2 DEF Front
    <2>2. PICK n : n = Len(s) - 1
      OBVIOUS
    <2>3. n \in Nat /\ n <= Len(s) /\ t = SubSeq(s, 1, n)
      BY <1>1, <2>1, <2>2
    <2>4. t \in Seq(S) /\ Len(t) = n /\ \A i \in 1..n : t[i] = s[i]
      BY <1>1, <2>3
    <2> QED BY <2>2, <2>4
  <1>4. Inserted(t, s, Len(s), s[Len(s)])
    BY <1>1, <1>3 DEF Inserted
  <1> QED BY <1>1, <1>2, <1>3, <1>4 DEF Last

\* The least and the greatest of some places in a row.
LEMMA MinMaxPlace ==
  ASSUME NEW n \in Nat, NEW T \in SUBSET (1..n), T # {}
  PROVE  /\ Min(T) \in T /\ \A x \in T : Min(T) <= x
         /\ Max(T) \in T /\ \A x \in T : Max(T) >= x
  <1>1. \E m \in T : \A x \in T : m <= x
    <2>1. T \in SUBSET Nat
      OBVIOUS
    <2> QED BY <2>1, LeastNumber
  <1>2. \E m \in T : \A x \in T : m >= x
    <2> DEFINE U == {n - x : x \in T}
    <2>0. \A x \in T : n - x \in Nat
      OBVIOUS
    <2>1. U \in SUBSET Nat /\ U # {}
      BY <2>0
    <2>2. PICK u \in U : \A v \in U : u <= v
      <3> HIDE DEF U
      <3> QED BY <2>1, LeastNumber
    <2>3. PICK m \in T : u = n - m
      BY <2>2
    <2>4. ASSUME NEW x \in T PROVE m >= x
      <3>1. n - m <= n - x
        BY <2>2, <2>3
      <3>2. m \in Int /\ x \in Int
        OBVIOUS
      <3> QED BY <3>1, <3>2
    <2> QED BY <2>4
  <1> QED BY <1>1, <1>2 DEF Min, Max

-----------------------------------------------------------------------------
(* A cache and the buffers it holds, oldest first *)

Of(a, q, k) == {x \in Elems(a) : q[x] = k}

\* The cache c holds the buffers a: q are their keys.
CacheHolds(c, a, q) ==
    /\ a \in Seq(Buffers) /\ NoRepeat(a)
    /\ c.lru \in Seq(Keys) /\ Len(c.lru) = Len(a) /\ \A i \in 1..Len(a) : c.lru[i] = q[a[i]]
    /\ c.by_key \in [Keys -> Seq(Buffers)]
    /\ \A k \in Keys : OrderedIn(c.by_key[k], a, Of(a, q, k))
    /\ c.entries = Len(a) /\ c.bytes = BytesOf(c.lru) /\ c.bytes \in Nat

\* The cache d holds no more than c.
Fewer(d, c) ==
    /\ \A k \in Keys : Len(d.by_key[k]) <= Len(c.by_key[k])
    /\ d.entries <= c.entries /\ d.bytes <= c.bytes

\* Forgetting the buffer at a place of the list.
LEMMA ForgetHolds ==
  ASSUME NEW q \in [Buffers -> Keys], NEW c, NEW a, CacheHolds(c, a, q), NEW p \in 1..Len(a),
         NEW k, k = q[a[p]], NEW slot \in Seq(Buffers), NEW j, Inserted(slot, c.by_key[k], j, a[p]),
         NEW d, d = Forget(c, k, slot, p), NEW b, b = RemoveAt(a, p)
  PROVE  /\ CacheHolds(d, b, q) /\ Fewer(d, c) /\ OrderedIn(b, a, Elems(b))
         /\ Elems(b) = Elems(a) \ {a[p]} /\ Len(d.by_key[k]) = Len(c.by_key[k]) - 1
  <1>1. /\ a \in Seq(Buffers) /\ NoRepeat(a) /\ Len(a) \in Nat /\ a[p] \in Buffers /\ k \in Keys
        /\ c.lru \in Seq(Keys) /\ Len(c.lru) = Len(a) /\ (\A i \in 1..Len(a) : c.lru[i] = q[a[i]])
        /\ c.by_key \in [Keys -> Seq(Buffers)] /\ c.lru[p] = k
        /\ c.entries = Len(a) /\ c.bytes = BytesOf(c.lru) /\ c.bytes \in Nat
    BY LenProperties, ElementOfSeq DEF CacheHolds
  <1>2. /\ d.by_key = [c.by_key EXCEPT ![k] = slot] /\ d.lru = RemoveAt(c.lru, p)
        /\ d.entries = c.entries - 1 /\ d.bytes = c.bytes - Size(k)
    BY DEF Forget
  <1>3. b \in Seq(Buffers) /\ Inserted(b, a, p, a[p])
    BY <1>1, RemoveInserted
  <1>4. d.lru \in Seq(Keys) /\ Inserted(d.lru, c.lru, p, k)
    BY <1>1, <1>2, RemoveInserted
  <1>5. OrderedIn(b, a, Elems(a) \ {a[p]})
    BY <1>1, <1>3, OrderedWithout
  <1>6. NoRepeat(b) /\ Elems(b) = Elems(a) \ {a[p]}
    BY <1>1, <1>5, OrderedOnce
  <1>7. Len(d.lru) = Len(b) /\ Len(b) \in Nat /\ Len(a) = Len(b) + 1
    BY <1>1, <1>3, <1>4, LenProperties DEF Inserted
  <1>8. ASSUME NEW i \in 1..Len(b) PROVE d.lru[i] = q[b[i]]
    <2>0. PICK n \in Nat : n = Len(b) /\ Len(a) = n + 1 /\ Len(d.lru) = n
      BY <1>7
    <2>a. i \in 1..n /\ p \in 1..n + 1
      BY <1>8, <2>0
    <2>b. i \in 1..n + 1 /\ i + 1 \in 1..n + 1 /\ i \in Int /\ p \in Int
      BY <2>0, <2>a
    <2>1. i \in 1..Len(a) /\ i + 1 \in 1..Len(a) /\ i \in 1..Len(d.lru) /\ i \in Int /\ p \in Int
      BY <2>0, <2>a, <2>b
    <2>2. CASE i < p
      <3>1. a[i] = b[i] /\ c.lru[i] = d.lru[i]
        BY <1>3, <1>4, <2>1, <2>2 DEF Inserted
      <3> QED BY <1>1, <2>1, <3>1
    <2>3. CASE i >= p
      <3>1. a[i + 1] = b[i] /\ c.lru[i + 1] = d.lru[i]
        BY <1>3, <1>4, <2>1, <2>3 DEF Inserted
      <3> QED BY <1>1, <2>1, <3>1
    <2> QED BY <2>1, <2>2, <2>3
  <1>9. /\ d.by_key \in [Keys -> Seq(Buffers)] /\ d.by_key[k] = slot
        /\ \A h \in Keys : h # k => d.by_key[h] = c.by_key[h]
    BY <1>1, <1>2
  <1>10. ASSUME NEW h \in Keys PROVE OrderedIn(d.by_key[h], b, Of(b, q, h))
    <2>1. OrderedIn(c.by_key[h], a, Of(a, q, h)) /\ c.by_key[h] \in Seq(Buffers)
      BY <1>1 DEF CacheHolds
    <2>2. Of(b, q, h) \subseteq Elems(b)
      BY DEF Of
    <2>3. OrderedIn(b, a, Elems(b))
      BY <1>5, <1>6
    <2>4. CASE h = k
      <3>1. NoRepeat(c.by_key[h]) /\ Elems(c.by_key[h]) = Of(a, q, h)
        BY <1>1, <2>1, OrderedOnce
      <3>2. Inserted(slot, c.by_key[h], j, a[p])
        BY <2>4
      <3>3. OrderedIn(slot, c.by_key[h], Of(a, q, h) \ {a[p]})
        BY <2>1, <3>1, <3>2, OrderedWithout
      <3>4. Of(a, q, h) \ {a[p]} = Of(b, q, h)
        BY <1>6 DEF Of
      <3>5. OrderedIn(slot, a, Of(b, q, h))
        <4>1. OrderedIn(slot, c.by_key[h], Of(b, q, h))
          BY <3>3, <3>4
        <4> QED BY <1>1, <2>1, <4>1, OrderedThrough
      <3> QED BY <1>1, <1>9, <2>2, <2>3, <2>4, <3>5, OrderedWithin
    <2>5. CASE h # k
      <3>1. Of(a, q, h) = Of(b, q, h)
        BY <1>6, <2>5 DEF Of
      <3> QED BY <1>1, <1>9, <2>1, <2>2, <2>3, <2>5, <3>1, OrderedWithin
    <2> QED BY <2>4, <2>5
  <1>11. BytesOf(c.lru) = BytesOf(d.lru) + Size(k) /\ BytesOf(d.lru) \in Nat /\ Size(k) \in Nat
    BY <1>1, <1>4, BytesInserted
  <1>12. d.bytes = BytesOf(d.lru) /\ d.bytes \in Nat /\ d.bytes <= c.bytes
    BY <1>1, <1>2, <1>11
  <1>13. d.entries = Len(b) /\ d.entries <= c.entries
    BY <1>1, <1>2, <1>7
  <1>14. CacheHolds(d, b, q)
    BY <1>3, <1>4, <1>6, <1>7, <1>8, <1>9, <1>10, <1>12, <1>13 DEF CacheHolds
  <1>15. Len(slot) \in Nat /\ Len(c.by_key[k]) = Len(slot) + 1
    BY LenProperties DEF Inserted
  <1>16. \A h \in Keys : Len(d.by_key[h]) <= Len(c.by_key[h])
    <2> TAKE h \in Keys
    <2>1. Len(c.by_key[h]) \in Nat
      BY <1>1, LenProperties
    <2>2. CASE h = k
      BY <1>9, <1>15, <2>2
    <2>3. CASE h # k
      <3>1. d.by_key[h] = c.by_key[h]
        BY <1>9, <2>3
      <3> QED BY <2>1, <3>1
    <2> QED BY <2>2, <2>3
  <1>17. Len(d.by_key[k]) = Len(c.by_key[k]) - 1
    BY <1>9, <1>15
  <1> QED BY <1>5, <1>6, <1>12, <1>13, <1>14, <1>16, <1>17 DEF Fewer

\* The first and the last buffer of a key, in its row and in the list.
LEMMA Places ==
  ASSUME NEW q \in [Buffers -> Keys], NEW c, NEW a, CacheHolds(c, a, q), NEW k \in Keys, c.by_key[k] # <<>>,
         NEW T, T = {i \in DOMAIN c.lru : c.lru[i] = k}
  PROVE  /\ Min(T) \in 1..Len(a) /\ q[a[Min(T)]] = k /\ a[Min(T)] = c.by_key[k][1]
         /\ Max(T) \in 1..Len(a) /\ q[a[Max(T)]] = k /\ a[Max(T)] = Last(c.by_key[k])
  <1>1. PICK r : r = c.by_key[k]
    OBVIOUS
  <1>2. /\ a \in Seq(Buffers) /\ Len(a) \in Nat /\ DOMAIN c.lru = 1..Len(a) /\ NoRepeat(a)
        /\ (\A i \in 1..Len(a) : c.lru[i] = q[a[i]])
        /\ r \in Seq(Buffers) /\ Len(r) \in Nat \ {0} /\ OrderedIn(r, a, Of(a, q, k))
    <2>1. r \in Seq(Buffers) /\ r # <<>>
      BY <1>1 DEF CacheHolds
    <2>2. Len(r) \in Nat \ {0}
      BY <2>1, TailInserted
    <2> QED BY <1>1, <2>1, <2>2, LenProperties DEF CacheHolds
  <1>3. NoRepeat(r) /\ \A i \in 1..Len(r) : r[i] \in Of(a, q, k)
    BY <1>2, OrderedOnce
  <1>4. T = {i \in 1..Len(a) : q[a[i]] = k}
    BY <1>2
  <1>5. \A i \in 1..Len(r) : \E x \in T : a[x] = r[i]
    BY <1>3, <1>4 DEF Of, Elems
  <1>6. 1 \in 1..Len(r) /\ Len(r) \in 1..Len(r)
    BY <1>2
  <1>7. T # {} /\ T \in SUBSET (1..Len(a))
    BY <1>4, <1>5, <1>6
  <1>8. /\ Min(T) \in T /\ \A x \in T : Min(T) <= x
        /\ Max(T) \in T /\ \A x \in T : Max(T) >= x
    BY <1>2, <1>7, MinMaxPlace
  <1>9. \A x \in T : \E i \in 1..Len(r) : r[i] = a[x]
    <2> TAKE x \in T
    <2>1. a[x] \in Of(a, q, k)
      BY <1>4 DEF Of, Elems
    <2> QED BY <1>2, <2>1 DEF OrderedIn
  <1>10. a[Min(T)] = r[1]
    <2>1. PICK x \in T : a[x] = r[1]
      BY <1>5, <1>6
    <2>2. PICK i \in 1..Len(r) : r[i] = a[Min(T)]
      BY <1>8, <1>9
    <2>3. Min(T) \in 1..Len(a) /\ x \in 1..Len(a) /\ Min(T) <= x
      BY <1>7, <1>8, <2>1
    <2>4. ASSUME i # 1 PROVE FALSE
      <3>1. 1 < i
        BY <1>2, <2>2, <2>4
      <3>2. x < Min(T)
        BY <1>2, <1>6, <2>1, <2>2, <2>3, <3>1, InOrder
      <3> QED BY <1>2, <2>3, <3>2
    <2> QED BY <2>2, <2>4
  <1>11. a[Max(T)] = r[Len(r)]
    <2>1. PICK x \in T : a[x] = r[Len(r)]
      BY <1>5, <1>6
    <2>2. PICK i \in 1..Len(r) : r[i] = a[Max(T)]
      BY <1>8, <1>9
    <2>3. Max(T) \in 1..Len(a) /\ x \in 1..Len(a) /\ Max(T) >= x
      BY <1>7, <1>8, <2>1
    <2>4. ASSUME i # Len(r) PROVE FALSE
      <3>1. i < Len(r)
        BY <1>2, <2>2, <2>4
      <3>2. Max(T) < x
        BY <1>2, <1>6, <2>1, <2>2, <2>3, <3>1, InOrder
      <3> QED BY <1>2, <2>3, <3>2
    <2> QED BY <2>2, <2>4
  <1>12. Min(T) \in 1..Len(a) /\ q[a[Min(T)]] = k /\ Max(T) \in 1..Len(a) /\ q[a[Max(T)]] = k
    BY <1>4, <1>8
  <1> QED BY <1>1, <1>10, <1>11, <1>12 DEF Last

\* What is left of a cache c with the buffers a.
CacheRest(d, c, a, q) == \E b : CacheHolds(d, b, q) /\ Fewer(d, c) /\ OrderedIn(b, a, Elems(b))

LEMMA HoldsTypes ==
  ASSUME NEW q, NEW c, NEW a, CacheHolds(c, a, q)
  PROVE  /\ a \in Seq(Buffers) /\ Len(a) \in Nat /\ NoRepeat(a) /\ OrderedIn(a, a, Elems(a))
         /\ c.lru \in Seq(Keys) /\ Len(c.lru) = Len(a) /\ c.entries = Len(a) /\ c.bytes \in Nat
         /\ \A k \in Keys : c.by_key[k] \in Seq(Buffers) /\ Len(c.by_key[k]) \in Nat
  <1>1. /\ a \in Seq(Buffers) /\ NoRepeat(a) /\ c.lru \in Seq(Keys) /\ Len(c.lru) = Len(a)
        /\ c.by_key \in [Keys -> Seq(Buffers)] /\ c.entries = Len(a) /\ c.bytes \in Nat
    BY DEF CacheHolds
  <1>2. OrderedIn(a, a, Elems(a)) /\ Len(a) \in Nat
    BY <1>1, OrderedSelf, LenProperties
  <1>3. \A k \in Keys : c.by_key[k] \in Seq(Buffers) /\ Len(c.by_key[k]) \in Nat
    BY <1>1, LenProperties
  <1> QED BY <1>1, <1>2, <1>3

LEMMA RestSelf ==
  ASSUME NEW q, NEW c, NEW a, CacheHolds(c, a, q)
  PROVE  CacheRest(c, c, a, q)
  <1>1. Fewer(c, c)
    BY HoldsTypes DEF Fewer
  <1> QED BY <1>1, HoldsTypes DEF CacheRest

LEMMA RestOfRest ==
  ASSUME NEW q, NEW c, NEW a, CacheHolds(c, a, q), NEW d, NEW b, CacheHolds(d, b, q), Fewer(d, c),
         OrderedIn(b, a, Elems(b)), NEW e, CacheRest(e, d, b, q)
  PROVE  CacheRest(e, c, a, q)
  <1>1. PICK f : CacheHolds(e, f, q) /\ Fewer(e, d) /\ OrderedIn(f, b, Elems(f))
    BY DEF CacheRest
  <1>2. OrderedIn(f, a, Elems(f))
    <2>1. a \in Seq(Buffers)
      BY HoldsTypes
    <2> QED BY <1>1, <2>1, OrderedThrough
  <1>3. Fewer(e, c)
    <2>1. \A k \in Keys : Len(e.by_key[k]) \in Nat /\ Len(d.by_key[k]) \in Nat /\ Len(c.by_key[k]) \in Nat
      BY <1>1, HoldsTypes
    <2>2. /\ e.entries \in Nat /\ d.entries \in Nat /\ c.entries \in Nat
          /\ e.bytes \in Nat /\ d.bytes \in Nat /\ c.bytes \in Nat
      BY <1>1, HoldsTypes
    <2>3. \A k \in Keys : Len(e.by_key[k]) <= Len(c.by_key[k])
      BY <1>1, <2>1 DEF Fewer
    <2>4. e.entries <= c.entries /\ e.bytes <= c.bytes
      BY <1>1, <2>2 DEF Fewer
    <2> QED BY <2>3, <2>4 DEF Fewer
  <1> QED BY <1>1, <1>2, <1>3 DEF CacheRest

\* One too many of a key.
LEMMA EvictKey ==
  ASSUME NEW q \in [Buffers -> Keys], NEW c, NEW a, CacheHolds(c, a, q), NEW k \in Keys,
         Len(c.by_key[k]) <= MaxPerDescriptor, NEW d, d = evict_of_key(c, k)
  PROVE  CacheRest(d, c, a, q) /\ Len(d.by_key[k]) + 1 <= MaxPerDescriptor
  <1>1. c.by_key[k] \in Seq(Buffers) /\ Len(c.by_key[k]) \in Nat /\ MaxPerDescriptor \in Nat \ {0}
    BY HoldsTypes, LimitsAssumption
  <1>2. CASE Len(c.by_key[k]) + 1 <= MaxPerDescriptor
    <2>1. d = c
      BY <1>2 DEF evict_of_key
    <2> QED BY <1>2, <2>1, RestSelf
  <1>3. CASE ~(Len(c.by_key[k]) + 1 <= MaxPerDescriptor)
    <2>1. Len(c.by_key[k]) # 0 /\ Len(c.by_key[k]) = MaxPerDescriptor
      BY <1>1, <1>3
    <2>2. c.by_key[k] # <<>>
      BY <2>1
    <2>3. PICK T : T = {i \in DOMAIN c.lru : c.lru[i] = k}
      OBVIOUS
    <2>4. Min(T) \in 1..Len(a) /\ q[a[Min(T)]] = k /\ a[Min(T)] = c.by_key[k][1]
      BY <2>2, <2>3, Places
    <2>5. Tail(c.by_key[k]) \in Seq(Buffers) /\ Inserted(Tail(c.by_key[k]), c.by_key[k], 1, a[Min(T)])
      BY <1>1, <2>2, <2>4, TailInserted
    <2>6. d = Forget(c, k, Tail(c.by_key[k]), Min(T))
      BY <1>3, <2>3 DEF evict_of_key
    <2>7. PICK p, slot, b : p = Min(T) /\ slot = Tail(c.by_key[k]) /\ b = RemoveAt(a, p)
      OBVIOUS
    <2>8. /\ CacheHolds(d, b, q) /\ Fewer(d, c) /\ OrderedIn(b, a, Elems(b))
          /\ Len(d.by_key[k]) = Len(c.by_key[k]) - 1
      <3>1. /\ p \in 1..Len(a) /\ k = q[a[p]] /\ slot \in Seq(Buffers)
            /\ Inserted(slot, c.by_key[k], 1, a[p]) /\ d = Forget(c, k, slot, p) /\ b = RemoveAt(a, p)
        BY <2>4, <2>5, <2>6, <2>7
      <3>2. CacheHolds(d, b, q) /\ Fewer(d, c) /\ OrderedIn(b, a, Elems(b))
        BY <3>1, ForgetHolds
      <3>3. Len(d.by_key[k]) = Len(c.by_key[k]) - 1
        <4>0. c.by_key \in [Keys -> Seq(Buffers)]
          BY DEF CacheHolds
        <4>a. d = Forget(c, k, slot, p)
          BY <3>1
        <4>1. c.by_key \in [Keys -> Seq(Buffers)] /\ d.by_key = [c.by_key EXCEPT ![k] = slot]
          BY <4>0, <4>a DEF Forget
        <4>2. Len(slot) \in Nat /\ Len(c.by_key[k]) = Len(slot) + 1
          BY <3>1, LenProperties DEF Inserted
        <4>3. d.by_key[k] = slot
          BY <4>1
        <4> QED BY <4>2, <4>3
      <3> QED BY <3>2, <3>3
    <2>9. Len(d.by_key[k]) + 1 <= MaxPerDescriptor
      BY <1>1, <2>1, <2>8
    <2> QED BY <2>8, <2>9 DEF CacheRest
  <1> QED BY <1>2, <1>3

\* The oldest of all.
LEMMA EvictOne ==
  ASSUME NEW q \in [Buffers -> Keys], NEW c, NEW a, CacheHolds(c, a, q), c.lru # <<>>, NEW d, d = evict_one_locked(c)
  PROVE  CacheRest(d, c, a, q)
  <1>1. /\ a \in Seq(Buffers) /\ Len(a) \in Nat /\ c.lru \in Seq(Keys) /\ Len(c.lru) = Len(a)
        /\ \A i \in 1..Len(a) : c.lru[i] = q[a[i]]
    BY HoldsTypes DEF CacheHolds
  <1>2. Len(a) # 0 /\ 1 \in 1..Len(a) /\ DOMAIN c.lru = 1..Len(a) /\ Head(c.lru) = c.lru[1]
    BY <1>1
  <1>3. PICK k \in Keys : k = c.lru[1]
    BY <1>1, <1>2
  <1>4. k = q[a[1]] /\ a[1] \in Of(a, q, k)
    BY <1>1, <1>2, <1>3 DEF Of, Elems
  <1>5. c.by_key[k] \in Seq(Buffers) /\ OrderedIn(c.by_key[k], a, Of(a, q, k)) /\ Len(c.by_key[k]) \in Nat
    BY HoldsTypes DEF CacheHolds
  <1>6. c.by_key[k] # <<>>
    <2>1. PICK i \in 1..Len(c.by_key[k]) : c.by_key[k][i] = a[1]
      BY <1>4, <1>5 DEF OrderedIn
    <2> QED BY <1>5, <2>1
  <1>7. PICK T : T = {i \in DOMAIN c.lru : c.lru[i] = k}
    OBVIOUS
  <1>8. Min(T) \in 1..Len(a) /\ q[a[Min(T)]] = k /\ a[Min(T)] = c.by_key[k][1]
    BY <1>6, <1>7, Places
  <1>9. Min(T) = 1
    <2>1. 1 \in T /\ T \in SUBSET (1..Len(a))
      BY <1>2, <1>3, <1>7
    <2>2. Min(T) <= 1
      BY <1>1, <2>1, MinMaxPlace
    <2> QED BY <1>1, <1>8, <2>2
  <1>10. Tail(c.by_key[k]) \in Seq(Buffers) /\ Inserted(Tail(c.by_key[k]), c.by_key[k], 1, a[1])
    BY <1>5, <1>6, <1>8, <1>9, TailInserted
  <1>11. d = Forget(c, k, Tail(c.by_key[k]), 1)
    BY <1>2, <1>3 DEF evict_one_locked
  <1>12. PICK slot, b : slot = Tail(c.by_key[k]) /\ b = RemoveAt(a, 1)
    OBVIOUS
  <1>13. CacheHolds(d, b, q) /\ Fewer(d, c) /\ OrderedIn(b, a, Elems(b))
    <2>1. /\ 1 \in 1..Len(a) /\ k = q[a[1]] /\ slot \in Seq(Buffers)
          /\ Inserted(slot, c.by_key[k], 1, a[1]) /\ d = Forget(c, k, slot, 1) /\ b = RemoveAt(a, 1)
      BY <1>2, <1>4, <1>10, <1>11, <1>12
    <2> QED BY <2>1, ForgetHolds
  <1> QED BY <1>13 DEF CacheRest

\* The function inside Evicted, up to m.
EvictedTo(f, c, k, m) ==
    f = [n \in 0..m |-> IF n = 0 THEN evict_of_key(c, k)
                        ELSE IF f[n - 1].lru = <<>> THEN f[n - 1] ELSE evict_one_locked(f[n - 1])]

LEMMA EvictedExists ==
  ASSUME NEW c, NEW k, NEW last \in Nat
  PROVE  \E f : EvictedTo(f, c, k, last)
  <1> DEFINE D == {m \in Nat : ~ \E f : EvictedTo(f, c, k, m)}
  <1> SUFFICES ASSUME D # {} PROVE FALSE
    OBVIOUS
  <1>1. PICK m \in D : \A j \in D : m <= j
    <2> D \in SUBSET Nat
      OBVIOUS
    <2> QED BY LeastNumber
  <1>2. CASE m = 0
    <2> DEFINE f == [n \in 0..0 |-> evict_of_key(c, k)]
    <2>1. EvictedTo(f, c, k, 0)
      BY DEF EvictedTo
    <2> QED BY <1>1, <1>2, <2>1
  <1>3. CASE m # 0
    <2>1. m \in Nat /\ m - 1 \in Nat /\ ~(m <= m - 1)
      BY <1>1, <1>3
    <2>2. PICK f : EvictedTo(f, c, k, m - 1)
      BY <1>1, <2>1
    <2> DEFINE next == IF f[m - 1].lru = <<>> THEN f[m - 1] ELSE evict_one_locked(f[m - 1])
               g == [n \in 0..m |-> IF n = m THEN next ELSE f[n]]
    <2>3. \A n \in 0..m : g[n] = IF n = 0 THEN evict_of_key(c, k)
                                  ELSE IF g[n - 1].lru = <<>> THEN g[n - 1] ELSE evict_one_locked(g[n - 1])
      <3> TAKE n \in 0..m
      <3>1. CASE n = m
        <4>1. g[n] = next /\ g[n - 1] = f[m - 1] /\ n # 0
          BY <1>3, <2>1, <3>1
        <4> QED BY <3>1, <4>1
      <3>2. CASE n # m
        <4>1. n \in 0..m - 1 /\ (n # 0 => n - 1 \in 0..m /\ n - 1 # m)
          BY <2>1, <3>2
        <4>2. f[n] = IF n = 0 THEN evict_of_key(c, k)
                     ELSE IF f[n - 1].lru = <<>> THEN f[n - 1] ELSE evict_one_locked(f[n - 1])
          BY <2>2, <4>1 DEF EvictedTo
        <4>3. g[n] = f[n] /\ (n # 0 => g[n - 1] = f[n - 1])
          BY <3>2, <4>1
        <4> HIDE DEF g
        <4> QED BY <4>2, <4>3
      <3> QED BY <3>1, <3>2
    <2>4. EvictedTo(g, c, k, m)
      <3>1. g = [n \in 0..m |-> g[n]]
        OBVIOUS
      <3> HIDE DEF g
      <3> QED BY <2>3, <3>1 DEF EvictedTo
    <2> QED BY <1>1, <2>4
  <1> QED BY <1>2, <1>3

\* However long the loop runs.
LEMMA EvictedRest ==
  ASSUME NEW q \in [Buffers -> Keys], NEW c, NEW a, CacheHolds(c, a, q), NEW k \in Keys,
         Len(c.by_key[k]) <= MaxPerDescriptor, NEW n \in 0..Len(c.lru)
  PROVE  CacheRest(Evicted(c, k)[n], c, a, q) /\ Len(Evicted(c, k)[n].by_key[k]) + 1 <= MaxPerDescriptor
  <1>0. Len(c.lru) \in Nat
    BY HoldsTypes
  <1> DEFINE f == CHOOSE g : EvictedTo(g, c, k, Len(c.lru))
  <1>1. EvictedTo(f, c, k, Len(c.lru))
    BY <1>0, EvictedExists
  <1>2. Evicted(c, k) = f
    BY DEF Evicted, EvictedTo
  <1> HIDE DEF f
  <1>3. \A m \in 0..Len(c.lru) : f[m] = IF m = 0 THEN evict_of_key(c, k)
                                   ELSE IF f[m - 1].lru = <<>> THEN f[m - 1] ELSE evict_one_locked(f[m - 1])
    BY <1>1 DEF EvictedTo
  <1> DEFINE Good(m) == CacheRest(f[m], c, a, q) /\ Len(f[m].by_key[k]) + 1 <= MaxPerDescriptor
             D == {m \in 0..Len(c.lru) : ~Good(m)}
  <1>4. Good(0)
    <2>1. f[0] = evict_of_key(c, k)
      BY <1>0, <1>3
    <2> QED BY <2>1, EvictKey
  <1>5. ASSUME NEW m \in 1..Len(c.lru), Good(m - 1) PROVE Good(m)
    <2>1. PICK d : d = f[m - 1]
      OBVIOUS
    <2>2. CacheRest(d, c, a, q) /\ Len(d.by_key[k]) + 1 <= MaxPerDescriptor
      BY <1>5, <2>1
    <2>3. m \in 0..Len(c.lru) /\ m # 0
      BY <1>0
    <2>4. PICK e : e = f[m]
      OBVIOUS
    <2>5. e = IF d.lru = <<>> THEN d ELSE evict_one_locked(d)
      BY <1>3, <2>1, <2>3, <2>4
    <2>6. CacheRest(e, c, a, q) /\ Len(e.by_key[k]) + 1 <= MaxPerDescriptor
      <3>1. CASE d.lru = <<>>
        BY <2>2, <2>5, <3>1
      <3>2. CASE d.lru # <<>>
        <4>1. PICK b : CacheHolds(d, b, q) /\ Fewer(d, c) /\ OrderedIn(b, a, Elems(b))
          BY <2>2 DEF CacheRest
        <4>2. e = evict_one_locked(d)
          BY <2>5, <3>2
        <4>3. CacheRest(e, d, b, q)
          BY <3>2, <4>1, <4>2, EvictOne
        <4>4. CacheRest(e, c, a, q)
          BY <4>1, <4>3, RestOfRest
        <4>5. PICK h : CacheHolds(e, h, q) /\ Fewer(e, d)
          BY <4>3 DEF CacheRest
        <4>6. Len(e.by_key[k]) \in Nat /\ Len(d.by_key[k]) \in Nat /\ MaxPerDescriptor \in Nat
          BY <4>1, <4>5, HoldsTypes, LimitsAssumption
        <4>7. Len(e.by_key[k]) <= Len(d.by_key[k])
          BY <4>5 DEF Fewer
        <4> QED BY <2>2, <4>4, <4>6, <4>7
      <3> QED BY <3>1, <3>2
    <2> QED BY <2>4, <2>6
  <1> HIDE DEF Good
  <1>6. D = {}
    <2> SUFFICES ASSUME D # {} PROVE FALSE
      OBVIOUS
    <2>1. PICK m \in D : \A j \in D : m <= j
      <3> D \in SUBSET Nat
        BY <1>0
      <3> QED BY LeastNumber
    <2>2. m \in 0..Len(c.lru) /\ ~Good(m) /\ m # 0
      BY <1>4, <2>1
    <2>3. m \in 1..Len(c.lru) /\ m - 1 \in 0..Len(c.lru) /\ ~(m <= m - 1)
      BY <1>0, <2>2
    <2>4. Good(m - 1)
      BY <2>1, <2>3
    <2> QED BY <1>5, <2>2, <2>3, <2>4
  <1>7. Good(n)
    BY <1>6
  <1> QED BY <1>2, <1>7 DEF Good

\* A buffer that is not there comes.
LEMMA RememberHolds ==
  ASSUME NEW q \in [Buffers -> Keys], NEW c, NEW a, CacheHolds(c, a, q), NEW b \in Buffers, b \notin Elems(a),
         NEW k, k = q[b], NEW d, d = Remember(c, k, b), NEW a2, a2 = Append(a, b)
  PROVE  CacheHolds(d, a2, q)
  <1>1. /\ a \in Seq(Buffers) /\ NoRepeat(a) /\ Len(a) \in Nat /\ k \in Keys
        /\ c.lru \in Seq(Keys) /\ Len(c.lru) = Len(a) /\ (\A i \in 1..Len(a) : c.lru[i] = q[a[i]])
        /\ c.by_key \in [Keys -> Seq(Buffers)]
        /\ c.entries = Len(a) /\ c.bytes = BytesOf(c.lru) /\ c.bytes \in Nat
    BY HoldsTypes DEF CacheHolds
  <1>2. /\ d.by_key = [c.by_key EXCEPT ![k] = Append(c.by_key[k], b)] /\ d.lru = Append(c.lru, k)
        /\ d.entries = c.entries + 1 /\ d.bytes = c.bytes + Size(k)
    BY <1>1 DEF Remember
  <1>3. /\ a2 \in Seq(Buffers) /\ Len(a2) = Len(a) + 1 /\ a2[Len(a) + 1] = b
        /\ \A i \in 1..Len(a) : a2[i] = a[i]
    BY <1>1, AppendProperties
  <1>4. /\ d.lru \in Seq(Keys) /\ Len(d.lru) = Len(a) + 1 /\ d.lru[Len(a) + 1] = k
        /\ \A i \in 1..Len(a) : d.lru[i] = c.lru[i]
    BY <1>1, <1>2, AppendProperties
  <1>5. OrderedIn(a2, a2, Elems(a) \cup {b})
    <2>1. OrderedIn(a, a, Elems(a))
      BY <1>1, OrderedSelf
    <2> QED BY <1>1, <2>1, OrderedAppend
  <1>6. NoRepeat(a2) /\ Elems(a2) = Elems(a) \cup {b}
    BY <1>3, <1>5, OrderedOnce
  <1>7. ASSUME NEW i \in 1..Len(a2) PROVE d.lru[i] = q[a2[i]]
    <2>1. i = Len(a) + 1 \/ i \in 1..Len(a)
      BY <1>1, <1>3, <1>7
    <2> QED BY <1>1, <1>3, <1>4, <2>1
  <1>8. PICK r, row : r = c.by_key[k] /\ row = Append(r, b)
    OBVIOUS
  <1>9. /\ r \in Seq(Buffers) /\ row \in Seq(Buffers) /\ Len(row) = Len(r) + 1
    BY <1>1, <1>8, AppendProperties
  <1>10. /\ d.by_key \in [Keys -> Seq(Buffers)] /\ d.by_key[k] = row
         /\ \A h \in Keys : h # k => d.by_key[h] = c.by_key[h]
    <2>1. d.by_key = [c.by_key EXCEPT ![k] = row]
      BY <1>2, <1>8
    <2> QED BY <1>1, <1>9, <2>1
  <1>11. ASSUME NEW h \in Keys PROVE OrderedIn(d.by_key[h], a2, Of(a2, q, h))
    <2>1. OrderedIn(c.by_key[h], a, Of(a, q, h))
      BY DEF CacheHolds
    <2>2. CASE h = k
      <3>1. OrderedIn(r, a, Of(a, q, k))
        BY <1>8, <2>1, <2>2
      <3>2. OrderedIn(row, a2, Of(a, q, k) \cup {b})
        BY <1>1, <1>8, <3>1, OrderedAppend
      <3>3. Of(a2, q, k) = Of(a, q, k) \cup {b}
        BY <1>6 DEF Of
      <3> QED BY <1>10, <2>2, <3>2, <3>3
    <2>3. CASE h # k
      <3>0. PICK u : u = c.by_key[h]
        OBVIOUS
      <3>a. u \in Seq(Buffers) /\ OrderedIn(u, a, Of(a, q, h)) 
        BY <1>1, <2>1, <3>0
      <3>b. PICK u2 : u2 = Append(u, b)
        OBVIOUS
      <3>c. OrderedIn(u, a2, Of(a, q, h)) /\ OrderedIn(u2, a2, Of(a, q, h) \cup {b})
        BY <1>1, <3>a, <3>b, OrderedAppend
      <3>1. OrderedIn(c.by_key[h], a2, Of(a, q, h))
        BY <3>0, <3>c
      <3>2. Of(a2, q, h) = Of(a, q, h)
        BY <1>6, <2>3 DEF Of
      <3> QED BY <1>10, <2>3, <3>1, <3>2
    <2> QED BY <2>2, <2>3
  <1>12. Inserted(c.lru, d.lru, Len(a) + 1, k)
    BY <1>1, <1>4 DEF Inserted
  <1>13. BytesOf(d.lru) = BytesOf(c.lru) + Size(k) /\ BytesOf(d.lru) \in Nat
    BY <1>1, <1>4, <1>12, BytesInserted
  <1>14. d.bytes = BytesOf(d.lru) /\ d.bytes \in Nat /\ d.entries = Len(a2)
    BY <1>1, <1>2, <1>3, <1>13
  <1> QED BY <1>3, <1>4, <1>6, <1>7, <1>10, <1>11, <1>14 DEF CacheHolds

\* The limits of the configuration.
Within(c) ==
    /\ \A k \in Keys : Len(c.by_key[k]) <= MaxPerDescriptor
    /\ c.entries <= MaxCachedEntries /\ c.bytes <= MaxCachedBytes

LEMMA FewerWithin ==
  ASSUME NEW q, NEW c, NEW a, CacheHolds(c, a, q), NEW d, NEW b, CacheHolds(d, b, q), Fewer(d, c), Within(c)
  PROVE  Within(d)
  <1>1. /\ \A k \in Keys : Len(d.by_key[k]) \in Nat /\ Len(c.by_key[k]) \in Nat
        /\ d.entries \in Nat /\ c.entries \in Nat /\ d.bytes \in Nat /\ c.bytes \in Nat
    BY HoldsTypes
  <1>2. MaxCachedBytes \in Nat /\ MaxCachedEntries \in Nat /\ MaxPerDescriptor \in Nat
    BY LimitsAssumption
  <1>3. \A k \in Keys : Len(d.by_key[k]) <= MaxPerDescriptor
    BY <1>1, <1>2 DEF Fewer, Within
  <1>4. d.entries <= MaxCachedEntries /\ d.bytes <= MaxCachedBytes
    BY <1>1, <1>2 DEF Fewer, Within
  <1> QED BY <1>3, <1>4 DEF Within

\* A buffer comes back and the cache has room for it, or makes room, or does
\* not keep it: what is cached after is in the order of what came.
LEMMA PushHolds ==
  ASSUME key \in [Buffers -> Keys], NEW c, NEW a, CacheHolds(c, a, key), Within(c),
         NEW b \in Buffers, b \notin Elems(a), NEW d, d = push_cached(c, b), NEW s, s = Append(a, b)
  PROVE  \E a2 : CacheHolds(d, a2, key) /\ Within(d) /\ OrderedIn(a2, s, Elems(a2))
  <1>1. PICK k \in Keys : k = key[b]
    OBVIOUS
  <1>2. /\ a \in Seq(Buffers) /\ NoRepeat(a) /\ Len(a) \in Nat /\ Len(c.lru) = Len(a) /\ OrderedIn(a, a, Elems(a))
    BY HoldsTypes
  <1>3. ASSUME NEW f, OrderedIn(f, a, Elems(f))
        PROVE  OrderedIn(f, s, Elems(f)) /\ OrderedIn(Append(f, b), s, Elems(f) \cup {b})
    <2>1. PICK f2 : f2 = Append(f, b)
      OBVIOUS
    <2>2. PICK T : T = Elems(f)
      OBVIOUS
    <2>3. OrderedIn(f, a, T)
      BY <1>3, <2>2
    <2>4. OrderedIn(f, s, T) /\ OrderedIn(f2, s, T \cup {b})
      BY <1>2, <2>1, <2>3, OrderedAppend
    <2> QED BY <2>1, <2>2, <2>4
  <1>4. ASSUME NEW n \in 0..Len(c.lru), NEW r, r = Evicted(c, k)[n]
        PROVE  CacheRest(r, c, a, key) /\ Len(r.by_key[k]) + 1 <= MaxPerDescriptor
    <2>1. Len(c.by_key[k]) <= MaxPerDescriptor
      BY DEF Within
    <2> QED BY <1>4, <2>1, EvictedRest
  <1>5. CASE Size(k) > MaxCachedBytes
    <2>1. d = c
      BY <1>1, <1>5 DEF push_cached
    <2> QED BY <1>2, <1>3, <2>1
  <1> DEFINE enough == {n \in 0..Len(c.lru) : Fits(Evicted(c, k)[n], Size(k))}
  <1>6. CASE ~(Size(k) > MaxCachedBytes) /\ enough = {}
    <2>1. d = Evicted(c, k)[Len(c.lru)]
      BY <1>1, <1>6 DEF push_cached
    <2>2. Len(c.lru) \in 0..Len(c.lru)
      BY <1>2
    <2>3. CacheRest(d, c, a, key)
      BY <1>4, <2>1, <2>2
    <2>4. PICK f : CacheHolds(d, f, key) /\ Fewer(d, c) /\ OrderedIn(f, a, Elems(f))
      BY <2>3 DEF CacheRest
    <2>5. Within(d)
      BY <2>4, FewerWithin
    <2> QED BY <1>3, <2>4, <2>5
  <1>7. CASE ~(Size(k) > MaxCachedBytes) /\ enough # {}
    <2>1. PICK r : r = Evicted(c, k)[Min(enough)]
      OBVIOUS
    <2>2. d = Remember(r, k, b)
      BY <1>1, <1>7, <2>1 DEF push_cached
    <2>3. Min(enough) \in enough
      <3>1. enough \in SUBSET Nat
        BY <1>2
      <3> HIDE DEF enough
      <3>2. \E m \in enough : \A x \in enough : m <= x
        BY <1>7, <3>1, LeastNumber
      <3> QED BY <3>2 DEF Min
    <2>4. Min(enough) \in 0..Len(c.lru) /\ Fits(r, Size(k))
      BY <2>1, <2>3
    <2>5. CacheRest(r, c, a, key) /\ Len(r.by_key[k]) + 1 <= MaxPerDescriptor
      BY <1>4, <2>1, <2>4
    <2>6. PICK f : CacheHolds(r, f, key) /\ Fewer(r, c) /\ OrderedIn(f, a, Elems(f))
      BY <2>5 DEF CacheRest
    <2>7. Within(r)
      BY <2>6, FewerWithin
    <2>8. PICK f2 : f2 = Append(f, b)
      OBVIOUS
    <2>9. b \notin Elems(f)
      <3>1. Elems(f) \subseteq Elems(a)
        BY <1>2, <2>6, OrderedOnce
      <3> QED BY <3>1
    <2>10. /\ CacheHolds(d, f2, key) /\ d.entries = r.entries + 1 /\ d.bytes = r.bytes + Size(k)
           /\ Len(d.by_key[k]) = Len(r.by_key[k]) + 1 /\ \A h \in Keys : h # k => d.by_key[h] = r.by_key[h]
      <3>1. CacheHolds(r, f, key) /\ k = key[b] /\ d = Remember(r, k, b) /\ f2 = Append(f, b) /\ b \notin Elems(f)
        BY <1>1, <2>2, <2>6, <2>8, <2>9
      <3>2. PICK q : q = key
        OBVIOUS
      <3>3. q \in [Buffers -> Keys] /\ CacheHolds(r, f, q) /\ k = q[b]
        BY <3>1, <3>2
      <3>4. CacheHolds(d, f2, q)
        BY <3>1, <3>3, RememberHolds
      <3>5. r.by_key \in [Keys -> Seq(Buffers)] /\ Len(r.by_key[k]) \in Nat /\ r.by_key[k] \in Seq(Buffers)
        BY <3>3, HoldsTypes DEF CacheHolds
      <3>6. /\ d.by_key = [r.by_key EXCEPT ![k] = Append(r.by_key[k], b)]
            /\ d.entries = r.entries + 1 /\ d.bytes = r.bytes + Size(k)
        BY <3>1, <3>5 DEF Remember
      <3>7. PICK row : row = Append(r.by_key[k], b)
        OBVIOUS
      <3>8. d.by_key = [r.by_key EXCEPT ![k] = row] /\ Len(row) = Len(r.by_key[k]) + 1
        BY <3>5, <3>6, <3>7, AppendProperties
      <3>9. d.by_key[k] = row /\ \A h \in Keys : h # k => d.by_key[h] = r.by_key[h]
        BY <3>5, <3>8
      <3> QED BY <3>2, <3>4, <3>6, <3>8, <3>9
    <2>11. OrderedIn(f2, s, Elems(f2))
      <3>1. OrderedIn(f2, s, Elems(f) \cup {b})
        BY <1>3, <2>6, <2>8
      <3>2. s \in Seq(Buffers)
        BY <1>2, AppendProperties
      <3>3. Elems(f2) = Elems(f) \cup {b}
        BY <3>1, <3>2, OrderedOnce
      <3> QED BY <3>1, <3>3
    <2>12. Within(d)
      <3>1. MaxCachedEntries \in Nat /\ r.entries \in Nat
        BY <2>6, HoldsTypes, LimitsAssumption
      <3>2. d.entries <= MaxCachedEntries /\ d.bytes <= MaxCachedBytes
        BY <2>4, <2>10, <3>1 DEF Fits
      <3>3. \A h \in Keys : Len(d.by_key[h]) <= MaxPerDescriptor
        <4> TAKE h \in Keys
        <4>1. CASE h = k
          BY <2>5, <2>10, <4>1
        <4>2. CASE h # k
          <5>1. d.by_key[h] = r.by_key[h] /\ Len(r.by_key[h]) <= MaxPerDescriptor
            BY <2>7, <2>10, <4>2 DEF Within
          <5> QED BY <5>1
        <4> QED BY <4>1, <4>2
      <3> QED BY <3>2, <3>3 DEF Within
    <2> QED BY <2>10, <2>11, <2>12
  <1> QED BY <1>5, <1>6, <1>7

\* The rows together are the buffers that are held.
LEMMA SlotsAre ==
  ASSUME NEW q \in [Buffers -> Keys], NEW c, NEW a, CacheHolds(c, a, q)
  PROVE  InSlots(c) = Elems(a)
  <1>1. a \in Seq(Buffers) /\ Len(a) \in Nat
    BY HoldsTypes
  <1>2. \A x \in Elems(a) : x \in Buffers /\ q[x] \in Keys
    BY <1>1 DEF Elems
  <1>3. ASSUME NEW k \in Keys PROVE ToSet(c.by_key[k]) = Of(a, q, k)
    <2>1. PICK r : r = c.by_key[k]
      OBVIOUS
    <2>2. r \in Seq(Buffers) /\ OrderedIn(r, a, Of(a, q, k))
      BY <2>1 DEF CacheHolds
    <2>3. Elems(r) = Of(a, q, k)
      BY <1>1, <2>2, OrderedOnce
    <2>4. ToSet(r) = Elems(r)
      BY <2>2 DEF ToSet, Elems
    <2> QED BY <2>1, <2>3, <2>4
  <1>4. ASSUME NEW x \in InSlots(c) PROVE x \in Elems(a)
    <2>1. PICK k \in Keys : x \in ToSet(c.by_key[k])
      BY <1>4 DEF InSlots
    <2> QED BY <1>3, <2>1 DEF Of
  <1>5. ASSUME NEW x \in Elems(a) PROVE x \in InSlots(c)
    <2>1. PICK k \in Keys : k = q[x]
      BY <1>2
    <2>2. x \in ToSet(c.by_key[k])
      BY <1>3, <2>1 DEF Of
    <2> QED BY <2>2 DEF InSlots
  <1> QED BY <1>4, <1>5

\* The history keeps the buffers that the cache holds.
LEMMA AgeIs ==
  ASSUME NEW q \in [Buffers -> Keys], NEW c, NEW a, CacheHolds(c, a, q),
         NEW s \in Seq(Buffers), NoRepeat(s), OrderedIn(a, s, Elems(a))
  PROVE  Kept(s, InSlots(c)) = a
  <1>1. InSlots(c) = Elems(a)
    BY SlotsAre
  <1>2. Elems(a) \subseteq Elems(s)
    BY OrderedOnce
  <1>3. PICK T : T = InSlots(c)
    OBVIOUS
  <1>4. PICK t : t = Kept(s, T)
    OBVIOUS
  <1>5. OrderedIn(t, s, Elems(s) \cap T)
    BY <1>4, KeptOrdered
  <1>6. OrderedIn(t, s, Elems(a))
    <2>1. Elems(s) \cap T = Elems(a)
      BY <1>1, <1>2, <1>3
    <2> QED BY <1>5, <2>1
  <1>7. t = a
    BY <1>6, OrderedUnique
  <1> QED BY <1>3, <1>4, <1>7

\* The keys of buffers that are not held do not matter.
LEMMA OtherKeys ==
  ASSUME NEW q \in [Buffers -> Keys], NEW c, NEW a, CacheHolds(c, a, q), NEW p, \A x \in Elems(a) : p[x] = q[x]
  PROVE  CacheHolds(c, a, p)
  <1>1. \A i \in 1..Len(a) : c.lru[i] = p[a[i]]
    <2> TAKE i \in 1..Len(a)
    <2>1. a[i] \in Elems(a)
      BY DEF Elems
    <2> QED BY <2>1 DEF CacheHolds
  <1>2. \A k \in Keys : OrderedIn(c.by_key[k], a, Of(a, p, k))
    <2> TAKE k \in Keys
    <2>1. Of(a, p, k) = Of(a, q, k)
      BY DEF Of
    <2>2. OrderedIn(c.by_key[k], a, Of(a, q, k))
      BY DEF CacheHolds
    <2> QED BY <2>1, <2>2
  <1> QED BY <1>1, <1>2 DEF CacheHolds

\* The inductive invariant: the history lists exactly what the cache holds,
\* within the limits, and nothing of it is in use.
PoolInv ==
    /\ refs \in [Buffers -> Nat] /\ key \in [Buffers -> Keys]
    /\ CacheHolds(cache, age, key) /\ Within(cache)
    /\ \A x \in Elems(age) : refs[x] = 0

LEMMA PoolInvInit == PoolInit => PoolInv
  <1> SUFFICES ASSUME PoolInit PROVE PoolInv
    OBVIOUS
  <1>1. /\ cache.by_key = [k \in Keys |-> <<>>] /\ cache.lru = <<>> /\ cache.entries = 0 /\ cache.bytes = 0
        /\ refs = [b \in Buffers |-> 0] /\ key \in [Buffers -> {CHOOSE k \in Keys : TRUE}] /\ age = <<>>
    BY DEF PoolInit
  <1>2. refs \in [Buffers -> Nat] /\ key \in [Buffers -> Keys]
    <2>1. (CHOOSE k \in Keys : TRUE) \in Keys
      BY LimitsAssumption
    <2> QED BY <1>1, <2>1
  <1>3. Len(age) = 0 /\ Elems(age) = {} /\ NoRepeat(age) /\ age \in Seq(Buffers) /\ cache.lru \in Seq(Keys)
    BY <1>1 DEF Elems, NoRepeat
  <1>4. BytesOf(cache.lru) = 0
    <2>1. PICK s \in Seq(Keys) : s = <<>> /\ s = cache.lru
      BY <1>1, <1>3
    <2>2. PICK f : f[0] = 0 /\ BytesOf(s) = f[Len(s)]
      BY SumIs
    <2>3. Len(s) = 0
      BY <2>1
    <2> QED BY <2>1, <2>2, <2>3
  <1>5. ASSUME NEW k \in Keys PROVE OrderedIn(cache.by_key[k], age, Of(age, key, k))
    <2>1. PICK r : r = cache.by_key[k]
      OBVIOUS
    <2>2. r = <<>> /\ Len(r) = 0
      BY <1>1, <2>1
    <2>3. Of(age, key, k) = {}
      BY <1>3 DEF Of
    <2>4. OrderedIn(r, age, {})
      BY <2>2 DEF OrderedIn
    <2> QED BY <2>1, <2>3, <2>4
  <1>6. cache.by_key \in [Keys -> Seq(Buffers)] /\ Len(cache.lru) = 0
    BY <1>1
  <1>7. CacheHolds(cache, age, key)
    BY <1>1, <1>3, <1>4, <1>5, <1>6 DEF CacheHolds
  <1>8. Within(cache)
    <2>1. \A k \in Keys : Len(cache.by_key[k]) = 0
      BY <1>1
    <2> QED BY <1>1, <2>1, LimitsAssumption DEF Within
  <1> QED BY <1>2, <1>3, <1>7, <1>8 DEF PoolInv

LEMMA AllocateStep ==
  ASSUME PoolInv, NEW k \in Keys, allocate(k)
  PROVE  PoolInv'
  <1>1. /\ refs \in [Buffers -> Nat] /\ key \in [Buffers -> Keys] /\ CacheHolds(cache, age, key) /\ Within(cache)
        /\ \A x \in Elems(age) : refs[x] = 0
    BY DEF PoolInv
  <1>2. /\ age \in Seq(Buffers) /\ Len(age) \in Nat /\ NoRepeat(age) /\ cache.by_key[k] \in Seq(Buffers)
    BY <1>1, HoldsTypes
  <1>3. CASE cache.by_key[k] # <<>>
    <2>1. PICK row, T : row = cache.by_key[k] /\ T = {i \in DOMAIN cache.lru : cache.lru[i] = k}
      OBVIOUS
    <2>2. PICK p, slot, b, d : p = Max(T) /\ slot = Front(row) /\ b = RemoveAt(age, p) /\ d = cache'
      OBVIOUS
    <2>3. /\ d = Forget(cache, k, slot, p) /\ refs' = [refs EXCEPT ![Last(row)] = 1]
          /\ age' = Kept(age, Buffers \ {Last(row)}) /\ key' = key
      BY <1>3, <2>1, <2>2 DEF allocate, take_cached
    <2>4. p \in 1..Len(age) /\ key[age[p]] = k /\ age[p] = Last(row)
      BY <1>1, <1>3, <2>1, <2>2, Places
    <2>5. slot \in Seq(Buffers) /\ Inserted(slot, row, Len(row), age[p])
      <3>1. row \in Seq(Buffers) /\ row # <<>>
        BY <1>2, <1>3, <2>1
      <3>2. slot \in Seq(Buffers) /\ Inserted(slot, row, Len(row), Last(row))
        BY <2>2, <3>1, FrontInserted
      <3> QED BY <2>4, <3>2
    <2>6. PICK j : j = Len(row)
      OBVIOUS
    <2>7. PICK q, a, c : q = key /\ a = age /\ c = cache
      OBVIOUS
    <2>8. /\ q \in [Buffers -> Keys] /\ CacheHolds(c, a, q) /\ p \in 1..Len(a) /\ k = q[a[p]] /\ slot \in Seq(Buffers)
          /\ Inserted(slot, c.by_key[k], j, a[p]) /\ d = Forget(c, k, slot, p) /\ b = RemoveAt(a, p)
      BY <1>1, <2>1, <2>2, <2>3, <2>4, <2>5, <2>6, <2>7
    <2>9. CacheHolds(d, b, q) /\ Fewer(d, c) /\ OrderedIn(b, a, Elems(b))
      BY <2>8, ForgetHolds
    <2>10. Elems(b) = Elems(a) \ {a[p]}
      <3>1. a \in Seq(Buffers) /\ NoRepeat(a)
        BY <1>2, <2>7
      <3>2. Inserted(b, a, p, a[p]) /\ b \in Seq(Buffers)
        BY <2>8, <3>1, RemoveInserted
      <3>3. OrderedIn(b, a, Elems(a) \ {a[p]})
        BY <2>8, <3>1, <3>2, OrderedWithout
      <3> QED BY <3>1, <3>3, OrderedOnce
    <2>11. age' = b
      <3>1. a \in Seq(Buffers) /\ NoRepeat(a)
        BY <1>2, <2>7
      <3>2. PICK T2, t : T2 = Buffers \ {a[p]} /\ t = Kept(a, T2)
        OBVIOUS
      <3>3. OrderedIn(t, a, Elems(a) \cap T2)
        BY <3>1, <3>2, KeptOrdered
      <3>4. Elems(a) \cap T2 = Elems(b)
        <4>1. Elems(a) \subseteq Buffers
          BY <3>1 DEF Elems
        <4> QED BY <2>10, <3>2, <4>1
      <3>5. OrderedIn(t, a, Elems(b))
        BY <3>3, <3>4
      <3>6. t = b
        BY <2>9, <3>1, <3>5, OrderedUnique
      <3>7. age' = t
        BY <2>3, <2>4, <2>7, <3>2
      <3> QED BY <3>6, <3>7
    <2>12. Within(d)
      BY <1>1, <2>7, <2>8, <2>9, FewerWithin
    <2>13. \A x \in Elems(b) : refs'[x] = 0
      <3> TAKE x \in Elems(b)
      <3>0. x \in Elems(age) /\ x # Last(row)
        BY <2>4, <2>7, <2>10
      <3>1. x \in Elems(age) /\ x # Last(row) /\ x \in Buffers
        BY <1>2, <3>0 DEF Elems
      <3> QED BY <1>1, <2>3, <3>1
    <2>14. CacheHolds(cache', age', key') /\ Within(cache') /\ \A x \in Elems(age') : refs'[x] = 0
      BY <2>2, <2>3, <2>7, <2>9, <2>11, <2>12, <2>13
    <2>15. refs' \in [Buffers -> Nat] /\ key' \in [Buffers -> Keys]
      BY <1>1, <2>3
    <2> QED BY <2>14, <2>15 DEF PoolInv
  <1>4. CASE cache.by_key[k] = <<>>
    <2>1. PICK unused : unused = {b \in Buffers : refs[b] = 0 /\ b \notin InSlots(cache)}
      OBVIOUS
    <2>2. PICK u : u = Min(unused)
      OBVIOUS
    <2>3. /\ unused # {} /\ refs' = [refs EXCEPT ![u] = 1] /\ key' = [key EXCEPT ![u] = k]
          /\ cache' = cache /\ age' = age
      BY <1>4, <2>1, <2>2 DEF allocate
    <2>4. u \in unused
      <3>1. unused \in SUBSET Nat
        BY <2>1, LimitsAssumption
      <3>2. \E m \in unused : \A x \in unused : m <= x
        BY <2>3, <3>1, LeastNumber
      <3> QED BY <2>2, <3>2 DEF Min
    <2>5. u \in Buffers /\ u \notin Elems(age)
      BY <1>1, <2>1, <2>4, SlotsAre
    <2>6. PICK p, q : p = key' /\ q = key
      OBVIOUS
    <2>7. \A x \in Elems(age) : p[x] = q[x] /\ refs'[x] = 0
      <3> TAKE x \in Elems(age)
      <3>1. x \in Buffers /\ x # u
        BY <1>2, <2>5 DEF Elems
      <3> QED BY <1>1, <2>3, <2>6, <3>1
    <2>8. CacheHolds(cache, age, p)
      BY <1>1, <2>6, <2>7, OtherKeys
    <2>9. CacheHolds(cache', age', key') /\ Within(cache') /\ \A x \in Elems(age') : refs'[x] = 0
      BY <1>1, <2>3, <2>6, <2>7, <2>8
    <2>10. refs' \in [Buffers -> Nat] /\ key' \in [Buffers -> Keys]
      BY <1>1, <2>3
    <2> QED BY <2>9, <2>10 DEF PoolInv
  <1> QED BY <1>3, <1>4

LEMMA DeallocateStep ==
  ASSUME PoolInv, NEW b \in Buffers, deallocate(b)
  PROVE  PoolInv'
  <1>1. /\ refs \in [Buffers -> Nat] /\ key \in [Buffers -> Keys] /\ CacheHolds(cache, age, key) /\ Within(cache)
        /\ \A x \in Elems(age) : refs[x] = 0
    BY DEF PoolInv
  <1>2. PICK a, c, d, q, s : a = age /\ c = cache /\ d = cache' /\ q = key /\ s = Append(age, b)
    OBVIOUS
  <1>3. /\ refs[b] > 0 /\ refs' = [refs EXCEPT ![b] = refs[b] - 1] /\ key' = key /\ age' = Kept(s, InSlots(d))
        /\ d = IF refs[b] = 1 THEN push_cached(c, b) ELSE c
    BY <1>1, <1>2 DEF deallocate
  <1>4. /\ q \in [Buffers -> Keys] /\ CacheHolds(c, a, q) /\ Within(c)
        /\ a \in Seq(Buffers) /\ NoRepeat(a) /\ OrderedIn(a, a, Elems(a)) /\ b \notin Elems(a) /\ refs[b] \in Nat
    <2>1. b \notin Elems(age) /\ refs[b] \in Nat
      BY <1>1, <1>3
    <2> QED BY <1>1, <1>2, <2>1, HoldsTypes
  <1>5. /\ s \in Seq(Buffers) /\ NoRepeat(s) /\ Elems(s) = Elems(a) \cup {b} /\ OrderedIn(a, s, Elems(a))
    <2>1. s = Append(a, b)
      BY <1>2
    <2>2. s \in Seq(Buffers)
      BY <1>4, <2>1, AppendProperties
    <2>3. OrderedIn(a, s, Elems(a)) /\ OrderedIn(s, s, Elems(a) \cup {b})
      BY <1>4, <2>1, OrderedAppend
    <2>4. NoRepeat(s) /\ Elems(s) = Elems(a) \cup {b}
      BY <2>2, <2>3, OrderedOnce
    <2> QED BY <2>2, <2>3, <2>4
  <1>6. \E a2 : /\ CacheHolds(d, a2, q) /\ Within(d) /\ OrderedIn(a2, s, Elems(a2))
                /\ refs[b] # 1 => b \notin Elems(a2)
    <2>1. CASE refs[b] = 1
      <3>1. d = push_cached(c, b) /\ s = Append(a, b)
        BY <1>2, <1>3, <2>1
      <3>2. key \in [Buffers -> Keys] /\ CacheHolds(c, a, key)
        BY <1>1, <1>2, <1>4
      <3>3. PICK a2 : CacheHolds(d, a2, key) /\ Within(d) /\ OrderedIn(a2, s, Elems(a2))
        BY <1>4, <3>1, <3>2, PushHolds
      <3> QED BY <1>2, <2>1, <3>3
    <2>2. CASE refs[b] # 1
      <3>1. d = c
        BY <1>3, <2>2
      <3> QED BY <1>4, <1>5, <3>1
    <2> QED BY <2>1, <2>2
  <1>7. PICK a2 : /\ CacheHolds(d, a2, q) /\ Within(d) /\ OrderedIn(a2, s, Elems(a2))
                  /\ refs[b] # 1 => b \notin Elems(a2)
    BY <1>6
  <1>8. age' = a2
    <2>1. Kept(s, InSlots(d)) = a2
      BY <1>4, <1>5, <1>7, AgeIs
    <2> QED BY <1>3, <2>1
  <1>9. \A x \in Elems(a2) : refs'[x] = 0
    <2> TAKE x \in Elems(a2)
    <2>1. x \in Elems(s)
      BY <1>5, <1>7, OrderedOnce
    <2>2. x \in Buffers
      BY <1>5, <2>1 DEF Elems
    <2>3. CASE x = b
      BY <1>1, <1>3, <1>7, <2>3
    <2>4. CASE x # b
      <3>1. x \in Elems(age)
        BY <1>2, <1>5, <2>1, <2>4
      <3> QED BY <1>1, <1>3, <2>2, <2>4, <3>1
    <2> QED BY <2>3, <2>4
  <1>10. refs' \in [Buffers -> Nat] /\ key' \in [Buffers -> Keys]
    <2>1. refs[b] - 1 \in Nat
      BY <1>3, <1>4
    <2> QED BY <1>1, <1>3, <2>1
  <1>11. CacheHolds(cache', age', key') /\ Within(cache') /\ \A x \in Elems(age') : refs'[x] = 0
    BY <1>2, <1>3, <1>7, <1>8, <1>9
  <1> QED BY <1>10, <1>11 DEF PoolInv

LEMMA PoolInvStep == PoolInv /\ [PoolNext]_poolVars => PoolInv'
  <1> SUFFICES ASSUME PoolInv, [PoolNext]_poolVars PROVE PoolInv'
    OBVIOUS
  <1>1. ASSUME NEW k \in Keys, allocate(k) PROVE PoolInv'
    BY <1>1, AllocateStep
  <1>2. ASSUME NEW b \in Buffers, deallocate(b) PROVE PoolInv'
    BY <1>2, DeallocateStep
  <1>3. ASSUME NEW b \in Buffers, Clone(b) PROVE PoolInv'
    <2>1. /\ refs \in [Buffers -> Nat] /\ key \in [Buffers -> Keys] /\ CacheHolds(cache, age, key) /\ Within(cache)
          /\ \A x \in Elems(age) : refs[x] = 0
      BY DEF PoolInv
    <2>2. refs[b] = 1 /\ refs' = [refs EXCEPT ![b] = 2] /\ cache' = cache /\ key' = key /\ age' = age
      BY <1>3 DEF Clone
    <2>3. \A x \in Elems(age) : refs'[x] = 0
      <3> TAKE x \in Elems(age)
      <3>1. x # b /\ refs[x] = 0 /\ x \in Buffers
        <4>1. age \in Seq(Buffers)
          BY <2>1, HoldsTypes
        <4> QED BY <2>1, <2>2, <4>1 DEF Elems
      <3> QED BY <2>1, <2>2, <3>1
    <2>4. refs' \in [Buffers -> Nat]
      BY <2>1, <2>2
    <2>5. CacheHolds(cache', age', key') /\ Within(cache') /\ \A x \in Elems(age') : refs'[x] = 0
      BY <2>1, <2>2, <2>3
    <2> QED BY <2>1, <2>2, <2>4, <2>5 DEF PoolInv
  <1>4. CASE UNCHANGED poolVars
    <2>1. cache' = cache /\ refs' = refs /\ key' = key /\ age' = age
      BY <1>4 DEF poolVars
    <2>2. /\ refs' \in [Buffers -> Nat] /\ key' \in [Buffers -> Keys]
          /\ CacheHolds(cache', age', key') /\ Within(cache') /\ \A x \in Elems(age') : refs'[x] = 0
      BY <2>1 DEF PoolInv
    <2> QED BY <2>2 DEF PoolInv
  <1> QED BY <1>1, <1>2, <1>3, <1>4 DEF PoolNext

LEMMA PoolInvSays == PoolInv => CacheAccounted
  <1> SUFFICES ASSUME PoolInv PROVE CacheAccounted
    OBVIOUS
  <1>1. /\ refs \in [Buffers -> Nat] /\ key \in [Buffers -> Keys] /\ CacheHolds(cache, age, key) /\ Within(cache)
        /\ \A x \in Elems(age) : refs[x] = 0
    BY DEF PoolInv
  <1>2. /\ age \in Seq(Buffers) /\ Len(age) \in Nat /\ NoRepeat(age) /\ cache.lru \in Seq(Keys)
        /\ Len(cache.lru) = Len(age) /\ cache.entries = Len(age) /\ cache.bytes = BytesOf(cache.lru)
        /\ \A i \in 1..Len(age) : cache.lru[i] = key[age[i]]
    BY <1>1, HoldsTypes DEF CacheHolds
  <1>3. cache.lru = [i \in DOMAIN age |-> key[age[i]]]
    <2>1. PICK l : l = cache.lru
      OBVIOUS
    <2>2. l \in Seq(Keys) /\ Len(l) = Len(age)
      BY <1>2, <2>1
    <2>3. l = [i \in 1..Len(age) |-> l[i]] /\ DOMAIN age = 1..Len(age)
      BY <1>2, <2>2
    <2>4. \A i \in 1..Len(age) : l[i] = key[age[i]]
      BY <1>2, <2>1
    <2> QED BY <2>1, <2>3, <2>4
  <1>4. ASSUME NEW k \in Keys
        PROVE  /\ cache.by_key[k] = Kept(age, {b \in Buffers : key[b] = k})
               /\ Len(cache.by_key[k]) <= MaxPerDescriptor
    <2>1. PICK r, T : r = cache.by_key[k] /\ T = {b \in Buffers : key[b] = k}
      OBVIOUS
    <2>2. OrderedIn(r, age, Of(age, key, k))
      BY <1>1, <2>1 DEF CacheHolds
    <2>3. PICK t : t = Kept(age, T)
      OBVIOUS
    <2>4. OrderedIn(t, age, Elems(age) \cap T)
      BY <1>2, <2>3, KeptOrdered
    <2>5. Elems(age) \cap T = Of(age, key, k)
      <3>1. Elems(age) \subseteq Buffers
        BY <1>2 DEF Elems
      <3> QED BY <2>1, <3>1 DEF Of
    <2>6. OrderedIn(t, age, Of(age, key, k))
      BY <2>4, <2>5
    <2>7. r = t
      BY <1>2, <2>2, <2>6, OrderedUnique
    <2> QED BY <1>1, <2>1, <2>3, <2>7 DEF Within
  <1>5. \A b \in InSlots(cache) : refs[b] = 0
    BY <1>1, SlotsAre
  <1>6. cache.entries <= MaxCachedEntries /\ cache.bytes <= MaxCachedBytes
    BY <1>1 DEF Within
  <1> QED BY <1>2, <1>3, <1>4, <1>5, <1>6 DEF CacheAccounted

(* Whatever is allocated, cloned and given back, with any limits, sizes    *)
(* and numbers of buffers: the rows, the list of keys and the counters of  *)
(* the cache say the same, every row is in the order in which its buffers  *)
(* came back, the limits hold and no cached buffer has a user              *)
(* (MemoryPool::allocate, deallocate, take_cached, push_cached,            *)
(* evict_one_locked).                                                      *)
THEOREM CacheStaysAccounted == PoolSpec => []CacheAccounted
  BY PoolInvInit, PoolInvStep, PoolInvSays, PTL DEF PoolSpec
=============================================================================
