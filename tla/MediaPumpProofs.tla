--------------------------- MODULE MediaPumpProofs ---------------------------
(***************************************************************************)
(* The media pump for any number of frames, any session depth, any step    *)
(* budget, and with every error and stop: frames stay in order on one      *)
(* path, and end of stream is the last thing that goes downstream.         *)
(***************************************************************************)
EXTENDS MediaPump, SequenceTheorems, TLAPS

Frame == Nat \ {None}

\* The states of the pump's fields that its handlers read.
PumpTypeOK ==
    /\ state \in {"Accepting", "Flushing", "Ended", "Failed"}
    /\ pc \in {"emit", "after", "sending", "recv", "idle"} \cup Exits
    /\ input \in Nat /\ value \in Nat /\ holding \in Nat /\ received \in Nat
    /\ busy \in Seq(Frame) /\ finished \in Seq(Frame) /\ emitted \in Seq(Frame)
    /\ flushed \in BOOLEAN /\ closed \in BOOLEAN

\* One frame at a time is between the input and the session, an output is held
\* only while it is sent, and the session is flushed only once nothing can follow.
PumpStages ==
    /\ input = None \/ value = None
    /\ pc \in {"emit", "after", "recv", "idle", "done"} => holding = None
    /\ pc = "sending" => holding # None
    /\ state = "Flushing" => closed
    /\ flushed => closed /\ input = None /\ value = None /\ state # "Accepting"

IInv == PumpTypeOK /\ PumpStages /\ OneOrderedPath /\ EosAfterEveryFrame

-----------------------------------------------------------------------------
(* Moving an element along a concatenation *)

\* A sequence is its head followed by its tail.
LEMMA HeadThenTail ==
  ASSUME NEW S, NEW b \in Seq(S), b # <<>>
  PROVE  b = <<Head(b)>> \o Tail(b)
  <1> DEFINE x == Head(b)
  <1>1. x \in S /\ Tail(b) \in Seq(S) /\ <<x>> \in Seq(S)
    BY HeadTailProperties
  <1>2. Len(<<x>> \o Tail(b)) = Len(b) /\ <<x>> \o Tail(b) \in Seq(S)
    BY <1>1, ConcatProperties, HeadTailProperties, LenProperties
  <1>3. ASSUME NEW i \in 1..Len(b) PROVE (<<x>> \o Tail(b))[i] = b[i]
    BY <1>1, HeadTailProperties, LenProperties
  <1> QED BY <1>2, <1>3, SeqEqual

\* The first n frames and one more are the first n + 1 frames.
LEMMA OneMoreFrame ==
  ASSUME NEW n \in Nat
  PROVE  /\ [k \in 1 .. n |-> k] \in Seq(Nat)
         /\ [k \in 1 .. n + 1 |-> k] = [k \in 1 .. n |-> k] \o <<n + 1>>
  <1> DEFINE s == [k \in 1 .. n |-> k]
             t == [k \in 1 .. n + 1 |-> k]
  <1>1. s \in Seq(Nat) /\ Len(s) = n
    OBVIOUS
  <1>2. t \in Seq(Nat) /\ Len(t) = n + 1
    OBVIOUS
  <1>3. <<n + 1>> \in Seq(Nat) /\ Len(<<n + 1>>) = 1 /\ <<n + 1>>[1] = n + 1
    OBVIOUS
  <1>4. /\ s \o <<n + 1>> \in Seq(Nat) /\ Len(s \o <<n + 1>>) = n + 1
        /\ \A i \in 1 .. n + 1 : (s \o <<n + 1>>)[i] =
                       IF i <= n THEN s[i] ELSE <<n + 1>>[i - n]
    BY <1>1, <1>3, ConcatProperties
  <1>5. ASSUME NEW i \in 1 .. n + 1 PROVE (s \o <<n + 1>>)[i] = t[i]
    <2>1. CASE i <= n
      BY <1>4, <2>1
    <2>2. CASE i = n + 1
      BY <1>3, <1>4, <2>2
    <2> QED BY <2>1, <2>2
  <1> HIDE DEF s, t
  <1>6. s \o <<n + 1>> = t
    BY <1>2, <1>4, <1>5, SeqEqual
  <1> QED BY <1>1, <1>6 DEF s, t

\* A place that is empty or holds one frame is a sequence of frames.
LEMMA OneIsSeq ==
  ASSUME NEW f \in Nat
  PROVE  /\ One(f) \in Seq(Frame)
         /\ One(None) = <<>>
         /\ f # None => One(f) = <<f>>
  <1>1. CASE f = None
    BY <1>1, EmptySeq DEF One
  <1>2. CASE f # None
    <2>1. f \in Frame
      BY <1>2 DEF Frame
    <2>2. <<f>> \in Seq(Frame)
      BY <2>1
    <2> QED BY <1>2, <2>2 DEF One
  <1> QED BY <1>1, <1>2

-----------------------------------------------------------------------------
(* The path of the frames, step by step *)

Path == emitted \o One(holding) \o finished \o busy \o One(value) \o One(input)
Arrived == [k \in 1 .. received |-> k]

\* The path and each part of it that ends at a station are sequences of frames.
LEMMA PathTypes ==
  ASSUME PumpTypeOK
  PROVE  /\ One(holding) \in Seq(Frame) /\ One(value) \in Seq(Frame)
         /\ One(input) \in Seq(Frame)
         /\ emitted \o One(holding) \in Seq(Frame)
         /\ emitted \o One(holding) \o finished \in Seq(Frame)
         /\ emitted \o One(holding) \o finished \o busy \in Seq(Frame)
         /\ emitted \o One(holding) \o finished \o busy \o One(value) \in Seq(Frame)
  <1>1. /\ One(holding) \in Seq(Frame) /\ One(value) \in Seq(Frame)
        /\ One(input) \in Seq(Frame)
    BY OneIsSeq DEF PumpTypeOK
  <1>2. emitted \o One(holding) \in Seq(Frame)
    BY <1>1, ConcatProperties DEF PumpTypeOK
  <1>3. emitted \o One(holding) \o finished \in Seq(Frame)
    BY <1>2, ConcatProperties DEF PumpTypeOK
  <1>4. emitted \o One(holding) \o finished \o busy \in Seq(Frame)
    BY <1>3, ConcatProperties DEF PumpTypeOK
  <1>5. emitted \o One(holding) \o finished \o busy \o One(value) \in Seq(Frame)
    BY <1>1, <1>4, ConcatProperties
  <1> QED BY <1>1, <1>2, <1>3, <1>4, <1>5

\* The session moves a frame from its work to its outputs.
LEMMA WorkKeepsPath ==
  ASSUME PumpTypeOK, SessionWorks
  PROVE  Path' = Path
  <1> DEFINE front == emitted \o One(holding)
  <1>1. /\ front \in Seq(Frame) /\ busy \in Seq(Frame) /\ finished \in Seq(Frame)
        /\ busy # <<>>
    BY PathTypes DEF PumpTypeOK, SessionWorks
  <1>2. (front \o Append(finished, Head(busy))) \o Tail(busy) = (front \o finished) \o busy
    <2> DEFINE x == <<Head(busy)>>
               rest == Tail(busy)
    <2>1. Head(busy) \in Frame /\ x \in Seq(Frame) /\ rest \in Seq(Frame)
      BY <1>1, HeadTailProperties
    <2>2. busy = x \o rest /\ Append(finished, Head(busy)) = finished \o x
      BY <1>1, <2>1, HeadThenTail, AppendIsConcat
    <2>3. front \o finished \in Seq(Frame)
      BY <1>1, ConcatProperties
    <2>4. (front \o (finished \o x)) = (front \o finished) \o x
      BY <1>1, <2>1, ConcatAssociative
    <2> HIDE DEF front, x, rest
    <2>5. ((front \o finished) \o x) \o rest = (front \o finished) \o (x \o rest)
      BY <2>1, <2>3, ConcatAssociative
    <2> QED BY <2>2, <2>4, <2>5 DEF rest
  <1>3. /\ front' = front /\ finished' = Append(finished, Head(busy)) /\ busy' = Tail(busy)
        /\ One(value)' = One(value) /\ One(input)' = One(input)
    BY DEF SessionWorks, pump, driver, One
  <1> QED BY <1>2, <1>3 DEF Path

\* What is pending goes into the session, or waits as a converted value.
LEMMA SubmitKeepsPath ==
  ASSUME PumpTypeOK, PumpStages, PumpSubmit
  PROVE  Path' = Path
  <1> DEFINE s == emitted \o One(holding) \o finished
  <1>1. /\ s \in Seq(Frame) /\ busy \in Seq(Frame) /\ s \o busy \in Seq(Frame)
        /\ Turn \in Nat /\ Turn # None /\ Turn \in Frame /\ <<Turn>> \in Seq(Frame)
    <2>1. Turn \in Frame
      BY DEF PumpTypeOK, PumpSubmit, Turn, Frame
    <2>2. <<Turn>> \in Seq(Frame) /\ Turn \in Nat /\ Turn # None
      BY <2>1 DEF Frame
    <2> QED BY <2>1, <2>2, PathTypes DEF PumpTypeOK
  <1>2. s' = s
    BY DEF PumpSubmit, driver, One
  <1>3. Path = (s \o busy) \o <<Turn>>
    <2>1. CASE value # None
      <3>1. One(input) = <<>> /\ One(value) = <<Turn>>
        BY <2>1, OneIsSeq DEF PumpStages, Turn, PumpTypeOK
      <3> QED BY <1>1, <3>1, PathTypes, ConcatEmptySeq DEF Path
    <2>2. CASE value = None
      <3>1. One(input) = <<Turn>> /\ One(value) = <<>>
        BY <2>2, <1>1, OneIsSeq DEF Turn, PumpTypeOK
      <3> QED BY <1>1, <3>1, ConcatEmptySeq DEF Path
    <2> QED BY <2>1, <2>2
  <1>4. input' = None
    BY DEF PumpSubmit, PumpStages, Turn, None
  <1>5. CASE busy' = Append(busy, Turn) /\ value' = None
    <2>1. busy' = busy \o <<Turn>> /\ busy' \in Seq(Frame) /\ s \o busy' \in Seq(Frame)
      BY <1>1, <1>5, AppendIsConcat, AppendProperties, ConcatProperties
    <2>2. Path' = s \o busy'
      <3>1. One(input)' = <<>> /\ One(value)' = <<>>
        BY <1>4, <1>5, OneIsSeq DEF One, None
      <3> QED BY <1>2, <2>1, <3>1, ConcatEmptySeq DEF Path
    <2>3. s \o (busy \o <<Turn>>) = (s \o busy) \o <<Turn>>
      BY <1>1, ConcatAssociative
    <2> QED BY <1>3, <2>1, <2>2, <2>3
  <1>6. CASE value' = Turn /\ busy' = busy
    <2>1. One(input)' = <<>> /\ One(value)' = <<Turn>>
      BY <1>1, <1>4, <1>6, OneIsSeq DEF One, None
    <2>2. (s \o busy) \o <<Turn>> \in Seq(Frame)
      BY <1>1, ConcatProperties
    <2> QED BY <1>2, <1>3, <1>6, <2>1, <2>2, ConcatEmptySeq DEF Path
  <1> QED BY <1>5, <1>6 DEF PumpSubmit

\* A polled output is held for sending.
LEMMA ReadyKeepsPath ==
  ASSUME PumpTypeOK, PumpStages, PumpReady
  PROVE  Path' = Path
  <1>1. /\ emitted \in Seq(Frame) /\ finished \in Seq(Frame) /\ finished # <<>>
        /\ holding = None
    BY DEF PumpTypeOK, PumpStages, PumpReady
  <1>2. Head(finished) \in Frame /\ Tail(finished) \in Seq(Frame)
    BY <1>1, HeadTailProperties
  <1>3. One(holding) = <<>> /\ One(holding)' = <<Head(finished)>>
    BY <1>1, <1>2 DEF One, Frame, PumpReady
  <1>4. /\ (emitted \o <<Head(finished)>>) \o Tail(finished)
              = emitted \o (<<Head(finished)>> \o Tail(finished))
        /\ emitted \o <<>> = emitted
    <2>1. <<Head(finished)>> \in Seq(Frame)
      BY <1>2
    <2> QED BY <1>1, <1>2, <2>1, ConcatAssociative, ConcatEmptySeq
  <1>5. finished = <<Head(finished)>> \o Tail(finished)
    BY <1>1, HeadThenTail
  <1>6. emitted' = emitted /\ finished' = Tail(finished) /\ busy' = busy
        /\ One(value)' = One(value) /\ One(input)' = One(input)
    BY DEF PumpReady, pump, One
  <1>7. (emitted \o One(holding) \o finished)' = emitted \o One(holding) \o finished
    BY <1>3, <1>4, <1>5, <1>6
  <1> QED BY <1>6, <1>7 DEF Path

\* The held output goes downstream.
LEMMA EmitKeepsPath ==
  ASSUME PumpTypeOK, PumpStages, Emit
  PROVE  Path' = Path
  <1>1. emitted \in Seq(Frame) /\ holding \in Frame
    BY DEF PumpTypeOK, PumpStages, Emit, Frame
  <1>2. One(holding) = <<holding>> /\ One(holding)' = <<>>
    BY <1>1 DEF One, Frame, Emit
  <1>3. emitted' = emitted \o <<holding>> /\ emitted' \in Seq(Frame)
    BY <1>1, AppendIsConcat, AppendProperties DEF Emit
  <1>4. emitted' \o One(holding)' = emitted \o One(holding)
    BY <1>2, <1>3, ConcatEmptySeq
  <1>5. /\ finished' = finished /\ busy' = busy /\ One(value)' = One(value)
        /\ One(input)' = One(input)
    BY DEF Emit, pump, session, One
  <1> QED BY <1>4, <1>5 DEF Path

\* A frame that comes in becomes the end of the path.
LEMMA RecvExtendsPath ==
  ASSUME PumpTypeOK, PumpStages, RecvFrame, Path = Arrived
  PROVE  Path' = Arrived'
  <1> DEFINE s == emitted \o One(holding) \o finished \o busy \o One(value)
  <1>1. s \in Seq(Frame) /\ received \in Nat
    BY PathTypes DEF PumpTypeOK
  <1>2. input = None /\ input' = received + 1 /\ received' = received + 1
    BY DEF RecvFrame, MayReceive, CanAcceptInput
  <1>3. One(input) = <<>> /\ One(input)' = <<received + 1>>
    BY <1>1, <1>2 DEF One, None
  <1>4. Path = s
    BY <1>1, <1>3, ConcatEmptySeq DEF Path
  <1>5. s' = s
    BY DEF RecvFrame, session, One
  <1>6. Path' = Arrived \o <<received + 1>>
    BY <1>3, <1>4, <1>5 DEF Path
  <1>7. Arrived' = Arrived \o <<received + 1>>
    BY <1>1, <1>2, OneMoreFrame DEF Arrived
  <1> QED BY <1>6, <1>7

-----------------------------------------------------------------------------
(* The invariant *)

\* The fields keep their types through every step of the pump and its driver.
LEMMA TypesKept ==
  ASSUME PumpTypeOK, PumpStages, [Next]_vars
  PROVE  PumpTypeOK'
  <1> USE DEF PumpTypeOK
  <1>1. CASE PumpSubmit
    <2>1. Turn \in Frame
      BY <1>1 DEF PumpSubmit, Turn, Frame
    <2>2. busy' \in Seq(Frame)
      <3>1. Append(busy, Turn) \in Seq(Frame)
        BY <2>1, AppendProperties
      <3> QED BY <1>1, <3>1 DEF PumpSubmit
    <2>3. input' \in Nat /\ value' \in Nat
      BY <1>1, <2>1 DEF PumpSubmit, Frame, None
    <2> QED BY <1>1, <2>2, <2>3 DEF PumpSubmit, driver
  <1>2. CASE PumpSubmitFails
    BY <1>2 DEF PumpSubmitFails, Fail, session, driver, None, Exits
  <1>3. CASE PumpNoInput \/ PumpPending
    BY <1>3 DEF PumpNoInput, PumpPending, pump, session, driver
  <1>4. CASE PumpFlush
    <2>1. flushed' \in BOOLEAN
      BY <1>4 DEF PumpFlush
    <2> QED BY <1>4, <2>1 DEF PumpFlush, driver
  <1>5. CASE PumpReady
    <2>1. Head(finished) \in Frame /\ Tail(finished) \in Seq(Frame)
      BY <1>5, HeadTailProperties DEF PumpReady
    <2> QED BY <1>5, <2>1 DEF PumpReady, pump, Frame
  <1>6. CASE PumpEnded
    BY <1>6 DEF PumpEnded, session, driver, Exits
  <1>7. CASE PumpPollFails
    BY <1>7 DEF PumpPollFails, Fail, session, driver, Exits
  <1>8. CASE Emit
    <2>1. emitted' \in Seq(Frame)
      BY <1>8, AppendProperties DEF Emit, PumpStages, Frame
    <2> QED BY <1>8, <2>1 DEF Emit, pump, session, None
  <1>9. CASE EmitFails \/ EmitCancelled
    BY <1>9 DEF EmitFails, EmitCancelled, pump, session, driver, Exits
  <1>10. CASE RecvFrame
    BY <1>10 DEF RecvFrame, session
  <1>11. CASE RecvEos
    BY <1>11 DEF RecvEos, session
  <1>12. CASE RecvFails \/ RecvTimeout \/ RecvSkipped
    BY <1>12 DEF RecvFails, RecvTimeout, RecvSkipped, pump, session, driver, Exits
  <1>13. CASE NextRound
    BY <1>13 DEF NextRound, pump, session
  <1>14. CASE GiveUp \/ DrainExpires
    BY <1>14 DEF GiveUp, DrainExpires, pump, session, driver, Exits
  <1>15. CASE SessionWorks
    <2>1. Head(busy) \in Frame /\ Tail(busy) \in Seq(Frame)
      BY <1>15, HeadTailProperties DEF SessionWorks
    <2>2. finished' \in Seq(Frame)
      BY <1>15, <2>1, AppendProperties DEF SessionWorks
    <2> QED BY <1>15, <2>1, <2>2 DEF SessionWorks, pump, driver
  <1>16. CASE RequestStop
    BY <1>16 DEF RequestStop, pump, session, driver
  <1>17. CASE UNCHANGED vars
    BY <1>17 DEF vars
  <1> QED
    BY <1>1, <1>2, <1>3, <1>4, <1>5, <1>6, <1>7, <1>8, <1>9, <1>10, <1>11, <1>12,
       <1>13, <1>14, <1>15, <1>16, <1>17 DEF Next, Round

\* One frame at a time before the session, one after it, and no input after a flush.
LEMMA StagesKept ==
  ASSUME PumpTypeOK, PumpStages, [Next]_vars
  PROVE  PumpStages'
  <1> USE DEF PumpTypeOK, PumpStages, Exits
  <1>1. CASE PumpSubmit
    BY <1>1 DEF PumpSubmit, driver, Turn
  <1>2. CASE PumpSubmitFails
    BY <1>2 DEF PumpSubmitFails, Fail, session, driver
  <1>3. CASE PumpNoInput \/ PumpPending
    BY <1>3 DEF PumpNoInput, PumpPending, pump, session, driver
  <1>4. CASE PumpFlush
    BY <1>4 DEF PumpFlush, MustFlush, driver
  <1>5. CASE PumpReady
    <2>1. Head(finished) \in Frame
      BY <1>5, HeadTailProperties DEF PumpReady
    <2> QED BY <1>5, <2>1 DEF PumpReady, pump, Frame
  <1>6. CASE PumpEnded
    BY <1>6 DEF PumpEnded, SessionEnded, session, driver
  <1>7. CASE PumpPollFails
    BY <1>7 DEF PumpPollFails, Fail, session, driver
  <1>8. CASE Emit
    BY <1>8 DEF Emit, pump, session
  <1>9. CASE EmitFails \/ EmitCancelled
    BY <1>9 DEF EmitFails, EmitCancelled, pump, session, driver
  <1>10. CASE RecvFrame
    BY <1>10 DEF RecvFrame, MayReceive, CanAcceptInput, session
  <1>11. CASE RecvEos
    BY <1>11 DEF RecvEos, MayReceive, CanAcceptInput, session
  <1>12. CASE RecvFails \/ RecvTimeout \/ RecvSkipped
    BY <1>12 DEF RecvFails, RecvTimeout, RecvSkipped, pump, session, driver
  <1>13. CASE NextRound
    BY <1>13 DEF NextRound, pump, session
  <1>14. CASE GiveUp \/ DrainExpires
    BY <1>14 DEF GiveUp, DrainExpires, pump, session, driver
  <1>15. CASE SessionWorks
    BY <1>15 DEF SessionWorks, pump, driver
  <1>16. CASE RequestStop
    BY <1>16 DEF RequestStop, pump, session, driver
  <1>17. CASE UNCHANGED vars
    BY <1>17 DEF vars
  <1> QED
    BY <1>1, <1>2, <1>3, <1>4, <1>5, <1>6, <1>7, <1>8, <1>9, <1>10, <1>11, <1>12,
       <1>13, <1>14, <1>15, <1>16, <1>17 DEF Next, Round

\* Until the element fails, the frames that came in are the path, in order.
LEMMA PathKept ==
  ASSUME PumpTypeOK, PumpStages, OneOrderedPath, [Next]_vars
  PROVE  OneOrderedPath'
  <1>1. OneOrderedPath <=> (pc # "failed" => Path = Arrived)
    BY DEF OneOrderedPath, Path, Arrived
  <1>2. OneOrderedPath' <=> (pc' # "failed" => Path' = Arrived')
    BY DEF OneOrderedPath, Path, Arrived
  <1>3. pc = "failed" /\ pc' # "failed" => FALSE
    BY DEF Next, Round, vars, PumpSubmit, PumpSubmitFails, PumpNoInput, PumpFlush,
           PumpReady, PumpPending, PumpEnded, PumpPollFails, Fail, Emit, EmitFails,
           EmitCancelled, RecvFrame, RecvFails, RecvEos, RecvTimeout, RecvSkipped,
           NextRound, GiveUp, DrainExpires, SessionWorks, RequestStop
  <1> SUFFICES ASSUME pc # "failed", pc' # "failed", Path = Arrived
               PROVE  Path' = Arrived'
    BY <1>1, <1>2, <1>3
  <1>4. ASSUME UNCHANGED <<emitted, holding, finished, busy, value, input, received>>
        PROVE  Path' = Arrived'
    BY <1>4 DEF Path, Arrived, One
  <1>5. ASSUME Path' = Path, received' = received
        PROVE  Path' = Arrived'
    BY <1>5 DEF Arrived
  <1>6. CASE PumpSubmit
    BY <1>5, <1>6, SubmitKeepsPath DEF PumpSubmit, driver
  <1>7. CASE PumpReady
    BY <1>5, <1>7, ReadyKeepsPath DEF PumpReady
  <1>8. CASE Emit
    BY <1>5, <1>8, EmitKeepsPath DEF Emit
  <1>9. CASE RecvFrame
    BY <1>9, RecvExtendsPath
  <1>10. CASE SessionWorks
    BY <1>5, <1>10, WorkKeepsPath DEF SessionWorks, driver
  <1>11. CASE \/ PumpNoInput \/ PumpFlush \/ PumpPending \/ PumpEnded
    BY <1>4, <1>11 DEF PumpNoInput, PumpFlush, PumpPending, PumpEnded, pump, session, driver
  <1>12. CASE \/ EmitFails \/ EmitCancelled \/ RecvFails \/ RecvEos \/ RecvTimeout
              \/ RecvSkipped
    BY <1>4, <1>12 DEF EmitFails, EmitCancelled, RecvFails, RecvEos, RecvTimeout,
                       RecvSkipped, pump, session, driver
  <1>13. CASE NextRound \/ GiveUp \/ DrainExpires \/ RequestStop
    BY <1>4, <1>13 DEF NextRound, GiveUp, DrainExpires, RequestStop, pump, session, driver
  <1>14. CASE PumpSubmitFails \/ PumpPollFails
    BY <1>14 DEF PumpSubmitFails, PumpPollFails, Fail
  <1>15. CASE UNCHANGED vars
    BY <1>4, <1>15 DEF vars
  <1> QED
    BY <1>6, <1>7, <1>8, <1>9, <1>10, <1>11, <1>12, <1>13, <1>14, <1>15
       DEF Next, Round

\* The pump is done only when the whole path is behind it.
LEMMA EosKept ==
  ASSUME PumpTypeOK, PumpStages, OneOrderedPath, EosAfterEveryFrame, [Next]_vars
  PROVE  EosAfterEveryFrame'
  <1>1. CASE PumpEnded
    <2>1. /\ busy = <<>> /\ finished = <<>> /\ holding = None /\ input = None
          /\ value = None /\ closed /\ pc # "failed" /\ emitted \in Seq(Frame)
      BY <1>1 DEF PumpEnded, SessionEnded, PumpStages, PumpTypeOK
    <2>2. One(holding) = <<>> /\ One(value) = <<>> /\ One(input) = <<>>
      BY <2>1 DEF One
    <2>3. emitted = Path
      BY <2>1, <2>2, ConcatEmptySeq DEF Path
    <2>4. emitted = Arrived
      BY <2>1, <2>3 DEF OneOrderedPath, Path, Arrived
    <2>5. emitted' = emitted /\ closed' = closed /\ received' = received
      BY <1>1 DEF PumpEnded, driver
    <2> QED BY <2>1, <2>4, <2>5 DEF EosAfterEveryFrame, Arrived
  <1>2. CASE SessionWorks \/ RequestStop
    BY <1>2 DEF SessionWorks, RequestStop, driver, EosAfterEveryFrame
  <1>3. CASE UNCHANGED vars
    BY <1>3 DEF vars, EosAfterEveryFrame
  <1>4. CASE Round /\ ~PumpEnded
    <2>1. pc # "done" /\ pc' # "done"
      BY <1>4 DEF Round, PumpSubmit, PumpSubmitFails, PumpNoInput, PumpFlush,
           PumpReady, PumpPending, PumpPollFails, Fail, Emit, EmitFails,
           EmitCancelled, RecvFrame, RecvFails, RecvEos, RecvTimeout, RecvSkipped,
           NextRound, GiveUp, DrainExpires
    <2> QED BY <2>1 DEF EosAfterEveryFrame
  <1> QED BY <1>1, <1>2, <1>3, <1>4 DEF Next

\* Nothing has arrived yet.
LEMMA InitIInv ==
  ASSUME Init
  PROVE  IInv
  <1>1. PumpTypeOK
    BY EmptySeq DEF Init, PumpTypeOK, None
  <1>2. PumpStages /\ EosAfterEveryFrame
    BY DEF Init, PumpStages, EosAfterEveryFrame
  <1>3. Path = <<>>
    BY ConcatEmptySeq, EmptySeq DEF Init, Path, One
  <1>4. [k \in 1 .. 0 |-> k] = <<>>
    OBVIOUS
  <1> QED BY <1>1, <1>2, <1>3, <1>4 DEF Init, IInv, OneOrderedPath, Path

\* For every session, budget and number of frames: no Again, retry, flush, error or
\* stop loses, repeats or swaps a frame on its way through the pump, and end of
\* stream leaves the element only after the output of every frame.
THEOREM FramesStayInOrder == Spec => []EveryFrameInOrder
  <1>1. Init => IInv
    BY InitIInv
  <1>2. IInv /\ [Next]_vars => IInv'
    BY TypesKept, StagesKept, PathKept, EosKept DEF IInv
  <1>3. IInv => EveryFrameInOrder
    BY DEF IInv, EveryFrameInOrder
  <1> QED
    BY <1>1, <1>2, <1>3, PTL DEF Spec

-----------------------------------------------------------------------------
(* The promise to the graph *)

\* The frame that is sent is the one whose turn it is, and it had come in.
LEMMA NextIsSent ==
  ASSUME IInv, Emit
  PROVE  holding = Len(emitted) + 1 /\ Len(emitted) < received
  <1> PICK e, r : e = emitted /\ r = received
    OBVIOUS
  <1> DEFINE h == One(holding)
             tail == finished \o busy \o One(value) \o One(input)
  <1>1. /\ e \in Seq(Frame) /\ r \in Nat /\ holding \in Frame /\ h = <<holding>>
        /\ finished \in Seq(Frame) /\ busy \in Seq(Frame)
        /\ One(value) \in Seq(Frame) /\ One(input) \in Seq(Frame) /\ h \in Seq(Frame)
    BY PathTypes DEF IInv, PumpTypeOK, PumpStages, Emit, Frame, One
  <1>2. /\ e \o h \in Seq(Frame) /\ Len(e \o h) = Len(e) + 1 /\ (e \o h)[Len(e) + 1] = holding
        /\ Len(e) \in Nat
    BY <1>1, ConcatProperties, LenProperties
  <1> DEFINE f == e \o h
  <1>3. ASSUME NEW s \in Seq(Frame), NEW t \in Seq(Frame), NEW k \in 1..Len(s)
        PROVE  /\ s \o t \in Seq(Frame) /\ k \in 1..Len(s \o t) /\ (s \o t)[k] = s[k]
    BY <1>3, ConcatProperties, LenProperties
  <1> HIDE DEF h, f
  <1>4. f \in Seq(Frame) /\ Len(e) + 1 \in 1..Len(f) /\ f[Len(e) + 1] = holding
    BY <1>2 DEF f
  <1> DEFINE g == f \o finished
  <1>5. g \in Seq(Frame) /\ Len(e) + 1 \in 1..Len(g) /\ g[Len(e) + 1] = holding
    BY <1>1, <1>3, <1>4
  <1> HIDE DEF g
  <1> DEFINE i == g \o busy
  <1>6. i \in Seq(Frame) /\ Len(e) + 1 \in 1..Len(i) /\ i[Len(e) + 1] = holding
    BY <1>1, <1>3, <1>5
  <1> HIDE DEF i
  <1> DEFINE j == i \o One(value)
  <1>7. j \in Seq(Frame) /\ Len(e) + 1 \in 1..Len(j) /\ j[Len(e) + 1] = holding
    BY <1>1, <1>3, <1>6
  <1> HIDE DEF j
  <1> DEFINE m == j \o One(input)
  <1>8. m \in Seq(Frame) /\ Len(e) + 1 \in 1..Len(m) /\ m[Len(e) + 1] = holding
    BY <1>1, <1>3, <1>7
  <1> HIDE DEF m
  <1>9. m = [k \in 1..r |-> k]
    BY DEF IInv, OneOrderedPath, Emit, m, j, i, g, f, h
  <1>10. Len(m) = r /\ \A k \in 1..r : m[k] = k
    BY <1>1, <1>9
  <1>11. Len(e) + 1 \in 1..r /\ holding = Len(e) + 1
    BY <1>8, <1>10
  <1> QED BY <1>1, <1>2, <1>11

\* Until the element exits, the phase is that of its input.
LEMMA PhaseMoving ==
  ASSUME pc \notin Exits
  PROVE  Phase = IF closed THEN "closed" ELSE "open"
  BY DEF Phase, Exits

\* Every step of the pump, its session and its driver is a step of the line.
LEMMA StepRefines ==
  ASSUME IInv, IInv', [Next]_vars
  PROVE  [Promise!Next]_<<received, emitted, Phase>>
  <1> USE DEF pump, session, driver
  <1>1. CASE UNCHANGED <<received, emitted, pc, closed>>
    BY <1>1 DEF Phase
  <1>2. CASE pc \notin Exits /\ pc' \notin Exits /\ UNCHANGED <<received, emitted, closed>>
    <2>1. Phase' = Phase
      BY <1>2, PhaseMoving DEF Phase, Exits
    <2> QED BY <1>2, <2>1
  <1>3. CASE pc \notin Exits /\ pc' \in Exits \ {"done"} /\ UNCHANGED <<received, emitted, closed>>
    <2>1. Phase \in {"open", "closed"}
      BY <1>3, PhaseMoving
    <2>2. Phase' = "broken"
      BY <1>3 DEF Phase, Exits
    <2> QED BY <1>3, <2>1, <2>2 DEF Promise!Next, Promise!Break, Promise!Moving
  <1>4. CASE PumpEnded
    <2>1. pc \notin Exits /\ pc' = "done" /\ UNCHANGED <<received, emitted, closed>>
      BY <1>4 DEF PumpEnded, Exits
    <2>2. closed /\ emitted = [k \in 1..received |-> k] /\ received \in Nat
      BY <2>1 DEF IInv, EosAfterEveryFrame, PumpTypeOK
    <2>3. Len(emitted) = received
      BY <2>2
    <2>4. Phase = "closed"
      BY <2>1, <2>2, PhaseMoving
    <2>5. Phase' = "ended"
      BY <2>1 DEF Phase, Exits
    <2> QED BY <2>1, <2>3, <2>4, <2>5 DEF Promise!Next, Promise!End
  <1>5. CASE Emit
    <2>1. pc \notin Exits /\ pc' \notin Exits /\ UNCHANGED <<received, closed>>
      BY <1>5 DEF Emit, Exits
    <2>2. Phase' = Phase /\ Phase \in {"open", "closed"}
      BY <2>1, PhaseMoving DEF Phase, Exits
    <2>3. Len(emitted) < received /\ emitted' = Append(emitted, Len(emitted) + 1)
      BY <1>5, NextIsSent DEF Emit
    <2> QED BY <2>1, <2>2, <2>3 DEF Promise!Next, Promise!Give, Promise!Moving
  <1>6. CASE RecvFrame
    <2>1. /\ pc \notin Exits /\ pc' \notin Exits /\ UNCHANGED <<emitted, closed>> /\ ~closed
          /\ received' = received + 1
      BY <1>6 DEF RecvFrame, MayReceive, Exits
    <2>2. Phase = "open" /\ Phase' = Phase
      BY <2>1 DEF Phase, Exits
    <2> QED BY <2>1, <2>2 DEF Promise!Next, Promise!Take
  <1>7. CASE RecvEos
    <2>1. /\ pc \notin Exits /\ pc' \notin Exits /\ UNCHANGED <<emitted, received>> /\ ~closed /\ closed'
      BY <1>7 DEF RecvEos, MayReceive, Exits
    <2>2. Phase = "open" /\ Phase' = "closed"
      BY <2>1 DEF Phase, Exits
    <2> QED BY <2>1, <2>2 DEF Promise!Next, Promise!Close
  <1>8. CASE PumpSubmit \/ PumpNoInput \/ PumpFlush \/ PumpReady \/ PumpPending \/ RecvSkipped \/ NextRound
    BY <1>2, <1>8 DEF PumpSubmit, PumpNoInput, PumpFlush, PumpReady, PumpPending, RecvSkipped, NextRound,
                      Exits
  <1>9. CASE PumpSubmitFails \/ PumpPollFails \/ EmitFails \/ EmitCancelled \/ RecvFails \/ GiveUp
             \/ DrainExpires
    BY <1>3, <1>9 DEF PumpSubmitFails, PumpPollFails, Fail, EmitFails, EmitCancelled, RecvFails, GiveUp,
                      DrainExpires, Exits
  <1>10. CASE RecvTimeout
    BY <1>2, <1>3, <1>10 DEF RecvTimeout, Exits
  <1>11. CASE SessionWorks \/ RequestStop \/ UNCHANGED vars
    BY <1>1, <1>11 DEF SessionWorks, RequestStop, vars
  <1> QED BY <1>4, <1>5, <1>6, <1>7, <1>8, <1>9, <1>10, <1>11 DEF Next, Round

\* For every codec session, budget and number of frames, with every error and
\* stop: seen from the graph the media element is a line of frames. The k-th
\* frame out is the k-th that came in, the end follows the last one and only a
\* closed input, and after the end or a break nothing moves.
THEOREM RefinesFrameLine == Spec => ImplementsFrameLine
  <1>1. Init => IInv /\ Promise!Init
    <2>1. Init => Promise!Init
      BY DEF Init, Promise!Init, Phase, Exits
    <2> QED BY <2>1, InitIInv
  <1>2. IInv /\ [Next]_vars => IInv'
    BY TypesKept, StagesKept, PathKept, EosKept DEF IInv
  <1>3. IInv /\ IInv' /\ [Next]_vars => [Promise!Next]_<<received, emitted, Phase>>
    BY StepRefines
  <1> QED
    BY <1>1, <1>2, <1>3, PTL DEF Spec, ImplementsFrameLine, Promise!Spec, Promise!lineVars
==============================================================================
