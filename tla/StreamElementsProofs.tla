------------------------ MODULE StreamElementsProofs ------------------------
(***************************************************************************)
(* The relay of a pull and a push element, for any retry limit, capacity   *)
(* of the pipe, number of frames and number of faults: a reconnect neither *)
(* resumes too early, leaves a session behind nor changes the order.       *)
(***************************************************************************)
EXTENDS StreamElements, TLAPS

Waiting == {"opening", "backoff"}
Connected == {"running", "sending", "pushing"}

Media == [eos : {FALSE}, n : Nat, key : BOOLEAN, discontinuity : BOOLEAN, session : Nat]
Packets == Media \cup {EOS}
Shown == [frame : Frames, session : Nat]
Accepted == [n : Nat, session : Nat]

TypeOK ==
    /\ pc \in [Elements -> Waiting \cup Connected \cup Over]
    /\ session \in [Elements -> Nat] /\ opened \in [Elements -> Nat]
    /\ closed \in [Elements -> SUBSET Nat]
    /\ reconnecting \in [Elements -> BOOLEAN]
    /\ needs_keyframe \in BOOLEAN /\ sequence \in Nat
    /\ packet \in [Elements -> Packets] /\ queue \in Seq(Packets)
    /\ frames \in Seq(Shown)
    /\ sent \in Seq(Media)
    /\ wire \in Seq(Accepted)

\* An element that waits for a connection has closed all it opened, and one that is
\* connected holds the session it opened last.
SessionOK(e) ==
    /\ session[e] \in {0, opened[e]}
    /\ pc[e] \in Waiting => session[e] = 0 /\ \A s \in 1 .. opened[e] : s \in closed[e]
    /\ pc[e] \in Connected => session[e] # 0
    /\ \A s \in 1 .. opened[e] : s \in closed[e] \/ s = opened[e]
    /\ pc[e] \notin Over => (reconnecting[e] <=> session[e] = 0)

\* The push server was told the tracks of every session that saw a frame, and of the
\* session at hand.
AnnouncedOK ==
    /\ pc[Push] \in Connected => session[Push] \in announced
    /\ \A i \in 1 .. Len(wire) : wire[i].session \in announced

\* No session is shown or sent before it is opened.
ShownOK ==
    /\ \A i \in 1 .. Len(sent) : sent[i].session <= opened[Pull]
    /\ \A i \in 1 .. Len(frames) : frames[i].session <= opened[Pull]

\* While the pull element waits for a random access point it was shown none in this
\* session, and it has sent nothing of it.
WaitOK ==
    pc[Pull] = "running" /\ needs_keyframe =>
        /\ \A i \in 1 .. Len(frames) : frames[i].session = session[Pull] => ~frames[i].frame.key
        /\ \A i \in 1 .. Len(sent) : sent[i].session # session[Pull]

\* The session at hand, if it is not the first, has begun anew or lost its beginning.
ResumedOK ==
    pc[Pull] = "running" /\ session[Pull] > 1 /\ ~needs_keyframe
        => LostKey(frames, session[Pull]) \/ Begun(sent, session[Pull], Len(sent))

\* So has the session of the packet in hand, unless that packet is the beginning.
InHandOK ==
    pc[Pull] = "sending" /\ ~packet[Pull].eos =>
        /\ packet[Pull].session = session[Pull] /\ ~needs_keyframe
        /\ session[Pull] > 1 =>
             \/ LostKey(frames, session[Pull]) \/ Begun(sent, session[Pull], Len(sent))
             \/ packet[Pull].key /\ packet[Pull].discontinuity
        /\ packet[Pull].discontinuity => \A i \in 1 .. Len(sent) : sent[i].session # session[Pull]

KeyOK == ShownOK /\ WaitOK /\ ResumedOK /\ InHandOK /\ HeldBackUntilKeyframe /\ OnlyFirstIsMarked

\* The pull element numbers its packets without a gap.
NumberedOK ==
    /\ pc[Pull] \in Waiting \cup {"running"} => sequence = Len(sent)
    /\ pc[Pull] = "sending" /\ ~packet[Pull].eos
         => sequence = Len(sent) + 1 /\ packet[Pull].n = Len(sent)
    /\ \A i \in 1 .. Len(sent) : sent[i].n = i - 1

\* Along the relay the numbers fall: what was accepted lies before what the push element
\* holds, that before what the pipe holds, and all of it before what comes next.
AlongOK ==
    /\ \A i \in 1 .. Len(wire) : wire[i].n < Len(sent)
    /\ \A i \in 1 .. Len(queue) : ~queue[i].eos =>
         /\ queue[i].n < Len(sent)
         /\ \A j \in 1 .. Len(wire) : wire[j].n < queue[i].n
         /\ \A j \in 1 .. Len(queue) : i < j /\ ~queue[j].eos => queue[i].n < queue[j].n
    /\ pc[Push] = "pushing" /\ ~packet[Push].eos =>
         /\ packet[Push].n < Len(sent)
         /\ \A j \in 1 .. Len(wire) : wire[j].n < packet[Push].n
         /\ \A j \in 1 .. Len(queue) : ~queue[j].eos => packet[Push].n < queue[j].n

\* The sessions of what was accepted do not go back.
WireOK ==
    /\ \A i \in 1 .. Len(wire) : wire[i].session <= opened[Push]
    /\ \A i, j \in 1 .. Len(wire) :
         i < j => wire[i].n < wire[j].n /\ wire[i].session <= wire[j].session

IInv ==
    /\ TypeOK /\ (\A e \in Elements : SessionOK(e)) /\ AnnouncedOK
    /\ KeyOK /\ NumberedOK /\ AlongOK /\ WireOK

-----------------------------------------------------------------------------
(* Sessions *)

\* What an element does to its session does not touch that of the other.
LEMMA OtherSession ==
    ASSUME NEW f \in Elements, SessionOK(f),
           pc'[f] = pc[f], session'[f] = session[f], opened'[f] = opened[f],
           closed'[f] = closed[f], reconnecting'[f] = reconnecting[f]
    PROVE  SessionOK(f)'
  BY DEF SessionOK

\* An element that ends may keep its session, closed or not.
LEMMA EndedSession ==
    ASSUME NEW e \in Elements, TypeOK, SessionOK(e), pc'[e] \in Over,
           session'[e] = session[e], opened'[e] = opened[e], closed[e] \subseteq closed'[e]
    PROVE  SessionOK(e)'
  BY DEF SessionOK, Over, Waiting, Connected

\* The session that breaks is closed before the element waits for the next one.
LEMMA BrokenSession ==
    ASSUME NEW e \in Elements, TypeOK, SessionOK(e), pc[e] \in Connected, pc'[e] = "backoff",
           session'[e] = 0, opened'[e] = opened[e], closed'[e] = closed[e] \cup ({session[e]} \ {0}),
           reconnecting'[e] = TRUE
    PROVE  SessionOK(e)'
<1>1. session[e] = opened[e] /\ opened[e] # 0
  BY DEF SessionOK
<1>2. \A s \in 1 .. opened[e] : s \in closed'[e]
  BY <1>1 DEF SessionOK
<1> QED
  BY <1>2 DEF SessionOK, Over, Waiting, Connected

\* A wait that goes on has nothing to close.
LEMMA WaitingSession ==
    ASSUME NEW e \in Elements, TypeOK, SessionOK(e), pc[e] \in Waiting, pc'[e] \in Waiting,
           session'[e] = session[e], opened'[e] = opened[e], closed'[e] = closed[e],
           reconnecting'[e] = reconnecting[e]
    PROVE  SessionOK(e)'
  BY DEF SessionOK, Over, Waiting, Connected

\* A connected element that goes on keeps its session.
LEMMA ConnectedSession ==
    ASSUME NEW e \in Elements, TypeOK, SessionOK(e), pc[e] \in Connected, pc'[e] \in Connected,
           session'[e] = session[e], opened'[e] = opened[e], closed[e] \subseteq closed'[e],
           reconnecting'[e] = reconnecting[e]
    PROVE  SessionOK(e)'
  BY DEF SessionOK, Over, Waiting, Connected

\* A session is opened when all before it are closed.
LEMMA OpenedSession ==
    ASSUME NEW e \in Elements, TypeOK, SessionOK(e), pc[e] = "opening",
           session'[e] = opened[e] + 1, opened'[e] = opened[e] + 1, closed'[e] = closed[e],
           \/ pc'[e] = "running" /\ reconnecting'[e] = FALSE
           \/ pc'[e] \in Over
    PROVE  SessionOK(e)'
<1>1. opened[e] \in Nat /\ \A s \in 1 .. opened[e] : s \in closed[e]
  BY DEF SessionOK, Waiting, TypeOK
<1>2. \A s \in 1 .. opened'[e] : s \in closed'[e] \/ s = opened'[e]
  BY <1>1
<1> QED
  BY <1>1, <1>2 DEF SessionOK, Over, Waiting, Connected

-----------------------------------------------------------------------------
(* The wait for a random access point *)

\* A step that shows and sends nothing: the pull element stays where it is, leaves its
\* loop, or has the end of its stream in hand.
LEMMA KeyKept ==
    ASSUME KeyOK, UNCHANGED <<needs_keyframe, frames, sent>>, opened'[Pull] = opened[Pull],
           \/ pc'[Pull] \notin {"running", "sending"}
           \/ pc'[Pull] = "sending" /\ packet'[Pull].eos
           \/ pc'[Pull] = pc[Pull] /\ session'[Pull] = session[Pull] /\ packet'[Pull] = packet[Pull]
    PROVE  KeyOK'
<1>1. ShownOK' /\ HeldBackUntilKeyframe' /\ OnlyFirstIsMarked'
  BY DEF KeyOK, ShownOK, HeldBackUntilKeyframe, OnlyFirstIsMarked, LostKey, Begun
<1>2. WaitOK'
  BY DEF KeyOK, WaitOK
<1>3. ResumedOK' /\ InHandOK'
  BY DEF KeyOK, ResumedOK, InHandOK, LostKey, Begun
<1> QED
  BY <1>1, <1>2, <1>3 DEF KeyOK

-----------------------------------------------------------------------------
(* An element that ends or waits *)

dataVars == <<pullVars, packet, queue, wire, announced>>

Kept == TypeOK /\ AnnouncedOK /\ KeyOK /\ NumberedOK /\ AlongOK /\ WireOK

\* What went through the relay is not disturbed by an element that ends or waits.
LEMMA DataKept ==
    ASSUME IInv, NEW e \in Elements, NEW x \in Over \cup Waiting, pc' = [pc EXCEPT ![e] = x],
           x \in Waiting => pc[e] \in Waiting \cup {"running"} \/ e = Push,
           session' \in [Elements -> Nat], \A f \in Elements \ {e} : session'[f] = session[f],
           closed' \in [Elements -> SUBSET Nat], reconnecting' \in [Elements -> BOOLEAN],
           UNCHANGED <<opened, dataVars>>
    PROVE  Kept'
<1> USE DEF dataVars, pullVars
<1>0. Pull \in Elements /\ Push \in Elements /\ Pull # Push /\ pc \in [Elements -> Waiting \cup Connected \cup Over]
  BY DEF Elements, Pull, Push, IInv, TypeOK
<1>1. TypeOK'
  BY DEF IInv, TypeOK
<1>2. \A f \in Elements : pc'[f] \in Connected => pc'[f] = pc[f] /\ session'[f] = session[f]
  BY <1>0 DEF Connected, Waiting, Over
<1>3. AnnouncedOK'
  BY <1>0, <1>2 DEF IInv, AnnouncedOK
<1>4. KeyOK'
  <2>1. \/ pc'[Pull] \notin {"running", "sending"}
        \/ pc'[Pull] = pc[Pull] /\ session'[Pull] = session[Pull] /\ packet'[Pull] = packet[Pull]
    BY <1>0, <1>2 DEF Connected
  <2> QED
    BY <2>1, KeyKept DEF IInv
<1>5. NumberedOK'
  <2>1. CASE e = Pull
    <3>1. pc'[Pull] = x
      BY <1>0, <2>1
    <3>2. pc'[Pull] \in Waiting \cup {"running"} => pc[Pull] \in Waiting \cup {"running"}
      BY <1>0, <2>1, <3>1 DEF Waiting, Over
    <3>3. pc'[Pull] # "sending"
      BY <3>1 DEF Waiting, Over
    <3> QED
      BY <3>2, <3>3 DEF IInv, NumberedOK
  <2>2. CASE e # Pull
    BY <1>0, <2>2 DEF IInv, NumberedOK
  <2> QED
    BY <2>1, <2>2
<1>6. AlongOK'
  BY <1>0, <1>2 DEF IInv, AlongOK, Connected
<1>7. WireOK'
  BY DEF IInv, WireOK
<1> QED
  BY <1>1, <1>3, <1>4, <1>5, <1>6, <1>7 DEF Kept

\* run() returns with what the element has.
LEMMA ReturnKept ==
    ASSUME IInv, NEW e \in Elements, NEW how \in Over, Return(e, how),
           closed' \in {closed, Closed(e)}, UNCHANGED <<session, opened, reconnecting, dataVars>>
    PROVE  IInv'
<1>0. pc' = [pc EXCEPT ![e] = how] /\ closed \in [Elements -> SUBSET Nat] /\ session[e] \in Nat
      /\ pc \in [Elements -> Waiting \cup Connected \cup Over]
  BY DEF Return, Goto, IInv, TypeOK
<1>1. closed' \in [Elements -> SUBSET Nat] /\ closed[e] \subseteq closed'[e]
      /\ \A f \in Elements \ {e} : closed'[f] = closed[f]
  BY <1>0 DEF Closed
<1>2. session' \in [Elements -> Nat] /\ reconnecting' \in [Elements -> BOOLEAN]
  BY DEF IInv, TypeOK
<1>3. Kept'
  BY <1>0, <1>1, <1>2, DataKept DEF Over, Waiting
<1>4. SessionOK(e)'
  BY <1>0, <1>1, EndedSession DEF IInv
<1>5. ASSUME NEW f \in Elements \ {e} PROVE SessionOK(f)'
  BY <1>0, <1>1, OtherSession DEF IInv
<1> QED
  BY <1>3, <1>4, <1>5 DEF IInv, Kept

\* A pause, or the attempt after it.
LEMMA WaitKept ==
    ASSUME IInv, NEW e \in Elements, NEW x \in Waiting, pc[e] \in Waiting, Goto(e, x),
           UNCHANGED <<session, opened, closed, reconnecting, dataVars>>
    PROVE  IInv'
<1>0. pc' = [pc EXCEPT ![e] = x] /\ pc \in [Elements -> Waiting \cup Connected \cup Over]
  BY DEF Goto, IInv, TypeOK
<1>2. session' \in [Elements -> Nat] /\ reconnecting' \in [Elements -> BOOLEAN]
      /\ closed' \in [Elements -> SUBSET Nat]
  BY DEF IInv, TypeOK
<1>3. Kept'
  BY <1>0, <1>2, DataKept
<1>4. SessionOK(e)'
  BY <1>0, WaitingSession DEF IInv
<1>5. ASSUME NEW f \in Elements \ {e} PROVE SessionOK(f)'
  BY <1>0, OtherSession DEF IInv
<1> QED
  BY <1>3, <1>4, <1>5 DEF IInv, Kept

\* A session that breaks, with an attempt left or without.
LEMMA DisconnectedKept ==
    ASSUME IInv, NEW e \in Elements, NEW retryable \in BOOLEAN, NEW closes \in BOOLEAN,
           Disconnected(e, retryable, closes), pc[e] = "running" \/ (e = Push /\ pc[e] = "pushing"),
           UNCHANGED dataVars
    PROVE  IInv'
<1>0. closed \in [Elements -> SUBSET Nat] /\ session \in [Elements -> Nat]
      /\ reconnecting \in [Elements -> BOOLEAN] /\ pc \in [Elements -> Waiting \cup Connected \cup Over]
  BY DEF IInv, TypeOK
<1>1. CASE retryable /\ should_retry(reconnect_attempt[e] + 1)
  <2>1. /\ closed' = Closed(e) /\ session' = [session EXCEPT ![e] = 0]
        /\ reconnecting' = [reconnecting EXCEPT ![e] = TRUE]
        /\ pc' = [pc EXCEPT ![e] = "backoff"] /\ UNCHANGED opened
    BY <1>1 DEF Disconnected, Goto
  <2>2. /\ session' \in [Elements -> Nat] /\ session'[e] = 0 /\ \A f \in Elements \ {e} : session'[f] = session[f]
        /\ pc'[e] = "backoff" /\ \A f \in Elements \ {e} : pc'[f] = pc[f]
    BY <1>0, <2>1
  <2>3. /\ closed' \in [Elements -> SUBSET Nat] /\ closed'[e] = closed[e] \cup ({session[e]} \ {0})
        /\ \A f \in Elements \ {e} : closed'[f] = closed[f]
    BY <1>0, <2>1 DEF Closed
  <2>4. /\ reconnecting' \in [Elements -> BOOLEAN] /\ reconnecting'[e] = TRUE
        /\ \A f \in Elements \ {e} : reconnecting'[f] = reconnecting[f]
    BY <1>0, <2>1
  <2>5. Kept'
    BY <2>1, <2>2, <2>3, <2>4, DataKept DEF Waiting
  <2>6. SessionOK(e)'
    BY <2>1, <2>2, <2>3, <2>4, BrokenSession DEF IInv, Connected
  <2>7. ASSUME NEW f \in Elements \ {e} PROVE SessionOK(f)'
    BY <2>1, <2>2, <2>3, <2>4, OtherSession DEF IInv
  <2> QED
    BY <2>5, <2>6, <2>7 DEF IInv, Kept
<1>2. CASE ~(retryable /\ should_retry(reconnect_attempt[e] + 1))
  <2>1. closed' \in {closed, Closed(e)} /\ Return(e, "failed") /\ UNCHANGED <<session, opened, reconnecting>>
    BY <1>2 DEF Disconnected
  <2> QED
    BY <2>1, ReturnKept DEF Over
<1> QED
  BY <1>1, <1>2

-----------------------------------------------------------------------------
(* What both elements share *)

\* Facts about the data that the steps below rest on.
LEMMA Entries ==
    ASSUME TypeOK
    PROVE  /\ Pull \in Elements /\ Push \in Elements /\ Pull # Push
           /\ \A i \in 1 .. Len(wire) : wire[i].n \in Nat /\ wire[i].session \in Nat
           /\ \A i \in 1 .. Len(sent) : sent[i].n \in Nat /\ sent[i].session \in Nat
           /\ \A i \in 1 .. Len(frames) : frames[i].session \in Nat
           /\ \A i \in 1 .. Len(queue) : ~queue[i].eos => queue[i] \in Media /\ queue[i].n \in Nat
           /\ \A e \in Elements : ~packet[e].eos =>
                packet[e] \in Media /\ packet[e].n \in Nat /\ packet[e].session \in Nat
           /\ Len(wire) \in Nat /\ Len(sent) \in Nat /\ Len(queue) \in Nat /\ Len(frames) \in Nat
<1>1. Pull \in Elements /\ Push \in Elements /\ Pull # Push
  BY DEF Elements, Pull, Push
<1>2. \A i \in 1 .. Len(wire) : wire[i].n \in Nat /\ wire[i].session \in Nat
  <2>1. \A i \in 1 .. Len(wire) : wire[i] \in Accepted
    BY DEF TypeOK
  <2> QED
    BY <2>1 DEF Accepted
<1>3. \A p \in Media : p.n \in Nat /\ p.session \in Nat
  BY DEF Media
<1>4. \A p \in Packets : ~p.eos => p \in Media
  BY DEF Packets, EOS
<1>5. \A i \in 1 .. Len(sent) : sent[i] \in Media
  BY DEF TypeOK
<1>6. \A i \in 1 .. Len(queue) : queue[i] \in Packets
  BY DEF TypeOK
<1>7. \A e \in Elements : packet[e] \in Packets
  BY DEF TypeOK
<1>8. Len(wire) \in Nat /\ Len(sent) \in Nat /\ Len(queue) \in Nat /\ Len(frames) \in Nat
  BY DEF TypeOK
<1>9. \A i \in 1 .. Len(frames) : frames[i].session \in Nat
  <2>1. \A i \in 1 .. Len(frames) : frames[i] \in Shown
    BY DEF TypeOK
  <2> QED
    BY <2>1 DEF Shown
<1> QED
  BY <1>1, <1>2, <1>3, <1>4, <1>5, <1>6, <1>7, <1>8, <1>9

LEMMA OpenKept ==
    ASSUME IInv, NEW e \in Elements, OpenSucceeds(e)
    PROVE  IInv'
<1>0. /\ session \in [Elements -> Nat] /\ opened \in [Elements -> Nat]
      /\ reconnecting \in [Elements -> BOOLEAN] /\ pc \in [Elements -> Waiting \cup Connected \cup Over]
      /\ Pull \in Elements /\ Push \in Elements /\ Pull # Push /\ pc[e] = "opening"
  BY DEF IInv, TypeOK, OpenSucceeds, At, Elements, Pull, Push
<1>1. /\ session' \in [Elements -> Nat] /\ session'[e] = opened[e] + 1
      /\ opened' \in [Elements -> Nat] /\ opened'[e] = opened[e] + 1
      /\ \A f \in Elements \ {e} : session'[f] = session[f] /\ opened'[f] = opened[f]
      /\ UNCHANGED <<closed, sequence, frames, sent, packet, queue, wire>>
  BY <1>0 DEF OpenSucceeds
<1>2. PICK x \in {"running", "failed"} : pc' = [pc EXCEPT ![e] = x]
  BY DEF OpenSucceeds, Goto, Return
<1>3. /\ pc'[e] = x /\ \A f \in Elements \ {e} : pc'[f] = pc[f]
      /\ pc' \in [Elements -> Waiting \cup Connected \cup Over]
  BY <1>0, <1>2 DEF Connected, Over
<1>4. /\ reconnecting' \in [Elements -> BOOLEAN]
      /\ \A f \in Elements \ {e} : reconnecting'[f] = reconnecting[f]
      /\ x = "running" => reconnecting'[e] = FALSE
  <2>1. CASE x = "running"
    BY <1>0, <1>3, <2>1 DEF OpenSucceeds, Goto, Return
  <2>2. CASE x = "failed"
    <3>1. ~Goto(e, "running")
      BY <1>0, <1>3, <2>2 DEF Goto
    <3>2. reconnecting' = [reconnecting EXCEPT ![e] = opened[e] > 0]
      BY <3>1, Zenon DEF OpenSucceeds
    <3>3. (opened[e] > 0) \in BOOLEAN
      OBVIOUS
    <3>4. PICK b \in BOOLEAN : reconnecting' = [reconnecting EXCEPT ![e] = b]
      BY <3>2, <3>3, Zenon
    <3> QED
      BY <1>0, <2>2, <3>4
  <2> QED
    BY <2>1, <2>2
<1>5. /\ needs_keyframe' \in BOOLEAN
      /\ x = "running" /\ e = Pull /\ opened[Pull] > 0 => needs_keyframe'
      /\ e # Pull => (needs_keyframe' <=> needs_keyframe)
      /\ announced \subseteq announced'
      /\ x = "running" /\ e = Push => opened[Push] + 1 \in announced'
  <2>1. CASE x = "running"
    BY <1>0, <1>3, <2>1 DEF OpenSucceeds, Goto, Return, IInv, TypeOK
  <2>2. CASE x = "failed"
    BY <1>0, <1>3, <2>2 DEF OpenSucceeds, Goto, Return, IInv, TypeOK
  <2> QED
    BY <2>1, <2>2
<1>6. SessionOK(e)'
  BY <1>0, <1>1, <1>3, <1>4, OpenedSession DEF IInv, Over
<1>7. ASSUME NEW f \in Elements \ {e} PROVE SessionOK(f)'
  BY <1>1, <1>3, <1>4, OtherSession DEF IInv
<1>8. TypeOK'
  BY <1>1, <1>3, <1>4, <1>5 DEF IInv, TypeOK
<1>9. AnnouncedOK'
  BY <1>0, <1>1, <1>3, <1>5 DEF IInv, AnnouncedOK, Connected
<1>10. KeyOK'
  <2>2. CASE e = Pull
    <3>0. KeyOK
      BY DEF IInv
    <3>1. /\ opened[Pull] \in Nat /\ opened'[Pull] = opened[Pull] + 1 /\ session'[Pull] = opened[Pull] + 1
          /\ pc'[Pull] = x /\ x # "sending"
      BY <1>0, <1>1, <1>3, <2>2
    <3>2. /\ \A i \in 1 .. Len(sent) : sent[i].session \in Nat /\ sent[i].session <= opened[Pull]
          /\ \A i \in 1 .. Len(frames) : frames[i].session \in Nat /\ frames[i].session <= opened[Pull]
      BY <3>0, Entries DEF IInv, KeyOK, ShownOK
    <3>3. ShownOK'
      <4>1. \A k \in Nat : k <= opened[Pull] => k <= opened'[Pull]
        BY <3>1
      <4> QED
        BY <1>1, <3>2, <4>1 DEF ShownOK
    <3>4. WaitOK'
      BY <1>1, <3>1, <3>2 DEF WaitOK
    <3>5. ResumedOK' /\ InHandOK'
      BY <1>5, <2>2, <3>1 DEF ResumedOK, InHandOK
    <3>6. HeldBackUntilKeyframe' /\ OnlyFirstIsMarked'
      BY <1>1, <3>0 DEF KeyOK, HeldBackUntilKeyframe, OnlyFirstIsMarked, LostKey, Begun
    <3> QED
      BY <3>3, <3>4, <3>5, <3>6 DEF KeyOK
  <2>3. CASE e # Pull
    <3>1. needs_keyframe' = needs_keyframe
      BY <1>5, <2>3 DEF IInv, TypeOK
    <3> QED
      BY <1>0, <1>1, <1>3, <2>3, <3>1, KeyKept DEF IInv
  <2> QED
    BY <2>2, <2>3
<1>11. NumberedOK'
  <2>1. CASE e = Pull
    BY <1>0, <1>1, <1>3, <2>1 DEF IInv, NumberedOK, Waiting
  <2>2. CASE e # Pull
    BY <1>0, <1>1, <1>3, <2>2 DEF IInv, NumberedOK
  <2> QED
    BY <2>1, <2>2
<1>12. AlongOK'
  BY <1>0, <1>1, <1>3 DEF IInv, AlongOK
<1>13. WireOK'
  <2>1. opened[Push] \in Nat /\ opened'[Push] \in Nat /\ opened[Push] <= opened'[Push]
    BY <1>0, <1>1
  <2>2. \A i \in 1 .. Len(wire) : wire[i].session \in Nat
    BY Entries DEF IInv
  <2> QED
    BY <1>1, <2>1, <2>2 DEF IInv, WireOK
<1> QED
  BY <1>6, <1>7, <1>8, <1>9, <1>10, <1>11, <1>12, <1>13 DEF IInv

LEMMA StepKept ==
    ASSUME IInv, NEW e \in Elements, Step(e)
    PROVE  IInv'
<1> USE DEF dataVars, pullVars
<1>1. CASE OpenStopped(e)
  BY <1>1, ReturnKept DEF OpenStopped, Over
<1>2. CASE OpenRefused(e)
  <2>1. CASE Return(e, "failed")
    BY <1>2, <2>1, ReturnKept DEF OpenRefused, Over
  <2>2. CASE Goto(e, "backoff")
    BY <1>2, <2>2, WaitKept DEF OpenRefused, At, Waiting
  <2> QED
    BY <1>2, <2>1, <2>2 DEF OpenRefused
<1>3. CASE SleepEnds(e)
  <2>1. CASE Return(e, "failed")
    BY <1>3, <2>1, ReturnKept DEF SleepEnds, Over
  <2>2. CASE Goto(e, "opening")
    BY <1>3, <2>2, WaitKept DEF SleepEnds, At, Waiting
  <2> QED
    BY <1>3, <2>1, <2>2 DEF SleepEnds
<1>4. CASE RunStopped(e)
  BY <1>4, ReturnKept DEF RunStopped, Over
<1> QED
  BY <1>1, <1>2, <1>3, <1>4, OpenKept DEF Step

-----------------------------------------------------------------------------
(* The pull element *)

\* The pull element goes on, or takes the end of its stream in hand.
LEMMA PullEndsKept == ASSUME IInv, PullEnds PROVE IInv'
<1>0. /\ pc[Pull] = "running" /\ pc' = [pc EXCEPT ![Pull] = "sending"]
      /\ packet' = [packet EXCEPT ![Pull] = EOS] /\ closed' = Closed(Pull)
      /\ UNCHANGED <<session, opened, reconnecting, needs_keyframe, sequence, frames, sent,
                     queue, announced, wire>>
  BY DEF PullEnds, At, Goto, pullVars
<1>1. /\ pc \in [Elements -> Waiting \cup Connected \cup Over] /\ packet \in [Elements -> Packets]
      /\ closed \in [Elements -> SUBSET Nat] /\ session[Pull] \in Nat
      /\ Pull \in Elements /\ Push \in Elements /\ Pull # Push
  BY Entries DEF IInv, TypeOK
<1>2. /\ pc' \in [Elements -> Waiting \cup Connected \cup Over] /\ pc'[Pull] = "sending" /\ pc'[Push] = pc[Push]
  BY <1>0, <1>1 DEF Connected
<1>3. packet' \in [Elements -> Packets] /\ packet'[Pull].eos /\ packet'[Push] = packet[Push]
  BY <1>0, <1>1 DEF Packets, EOS
<1>4. /\ closed' \in [Elements -> SUBSET Nat] /\ closed[Pull] \subseteq closed'[Pull]
      /\ closed'[Push] = closed[Push]
  BY <1>0, <1>1 DEF Closed
<1>5. TypeOK'
  BY <1>0, <1>2, <1>3, <1>4 DEF IInv, TypeOK
<1>6. SessionOK(Pull)'
  BY <1>0, <1>1, <1>2, <1>4, ConnectedSession DEF IInv, Connected
<1>7. SessionOK(Push)'
  BY <1>0, <1>1, <1>2, <1>4, OtherSession DEF IInv
<1>8. AnnouncedOK' /\ WireOK'
  BY <1>0, <1>2 DEF IInv, AnnouncedOK, WireOK
<1>9. KeyOK'
  BY <1>0, <1>2, <1>3, KeyKept DEF IInv
<1>10. NumberedOK'
  BY <1>0, <1>2, <1>3 DEF IInv, NumberedOK, Waiting
<1>11. AlongOK'
  BY <1>0, <1>2, <1>3 DEF IInv, AlongOK
<1> QED
  BY <1>5, <1>6, <1>7, <1>8, <1>9, <1>10, <1>11 DEF IInv, Elements, Pull, Push

LEMMA PullFrameKept == ASSUME IInv, NEW f \in Frames, PullFrame(f) PROVE IInv'
<1> DEFINE new == [frame |-> f, session |-> session[Pull]]
           taken == f.good /\ (needs_keyframe => f.key)
           p == [eos |-> FALSE, n |-> sequence, key |-> f.key,
                 discontinuity |-> needs_keyframe, session |-> session[Pull]]
<1>0. /\ pc[Pull] = "running" /\ frames' = Append(frames, new)
      /\ needs_keyframe' = (needs_keyframe /\ ~f.key)
      /\ taken => packet' = [packet EXCEPT ![Pull] = p] /\ sequence' = sequence + 1
                  /\ pc' = [pc EXCEPT ![Pull] = "sending"]
      /\ ~taken => UNCHANGED <<packet, sequence, pc>>
      /\ UNCHANGED <<session, opened, closed, reconnecting, sent, queue, announced, wire>>
  BY DEF PullFrame, At, Goto
<1>1. /\ pc \in [Elements -> Waiting \cup Connected \cup Over] /\ packet \in [Elements -> Packets]
      /\ session[Pull] \in Nat /\ sequence \in Nat /\ needs_keyframe \in BOOLEAN
      /\ Pull \in Elements /\ Push \in Elements /\ Pull # Push /\ f.key \in BOOLEAN
  BY Entries DEF IInv, TypeOK, Frames
<1>2. p \in Packets /\ ~p.eos /\ p.n = sequence /\ p.session = session[Pull]
  BY <1>1 DEF Packets, Media
<1>3. new \in Shown /\ new.session = session[Pull] /\ new.frame = f
  BY <1>1 DEF Shown
<1> HIDE DEF p, new
<1>4. /\ frames' \in Seq(Shown)
      /\ Len(frames') = Len(frames) + 1 /\ Len(frames) \in Nat /\ frames'[Len(frames) + 1] = new
      /\ \A i \in 1 .. Len(frames) : frames'[i] = frames[i]
  BY <1>0, <1>3 DEF IInv, TypeOK
<1>5. ASSUME NEW s, LostKey(frames, s) PROVE LostKey(frames', s)
  <2>1. PICK k \in 1 .. Len(frames) :
          /\ frames[k].session = s /\ frames[k].frame.key /\ ~frames[k].frame.good
          /\ \A j \in 1 .. Len(frames) : j < k /\ frames[j].session = s => ~frames[j].frame.key
    BY <1>5 DEF LostKey
  <2>2. k \in 1 .. Len(frames') /\ frames'[k] = frames[k]
    BY <1>4, <2>1
  <2>3. ASSUME NEW j \in 1 .. Len(frames'), j < k, frames'[j].session = s PROVE ~frames'[j].frame.key
    <3>1. j \in 1 .. Len(frames) /\ frames'[j] = frames[j]
      BY <1>4, <2>3
    <3> QED
      BY <2>1, <2>3, <3>1
  <2> QED
    BY <2>1, <2>2, <2>3 DEF LostKey
<1>6. needs_keyframe' \in BOOLEAN
  BY <1>0, <1>1
<1>7. /\ pc' \in [Elements -> Waiting \cup Connected \cup Over] /\ pc'[Push] = pc[Push]
      /\ pc'[Pull] = IF taken THEN "sending" ELSE "running"
  BY <1>0, <1>1 DEF Connected
<1>8. /\ packet' \in [Elements -> Packets] /\ packet'[Push] = packet[Push] /\ sequence' \in Nat
      /\ taken => packet'[Pull] = p
  BY <1>0, <1>1, <1>2
<1>9. TypeOK'
  BY <1>0, <1>4, <1>6, <1>7, <1>8 DEF IInv, TypeOK
<1>10. SessionOK(Pull)'
  BY <1>0, <1>1, <1>7, ConnectedSession DEF IInv, Connected
<1>11. SessionOK(Push)'
  BY <1>0, <1>1, <1>7, OtherSession DEF IInv
<1>12. AnnouncedOK' /\ WireOK'
  BY <1>0, <1>7 DEF IInv, AnnouncedOK, WireOK
<1>13. KeyOK'
  <2>0. KeyOK /\ session[Pull] = opened[Pull] /\ opened[Pull] \in Nat
    BY <1>0, <1>1 DEF IInv, SessionOK, Connected, TypeOK
  <2>1. ShownOK'
    BY <1>0, <1>3, <1>4, <2>0 DEF KeyOK, ShownOK
  <2>2. HeldBackUntilKeyframe' /\ OnlyFirstIsMarked'
    BY <1>0, <1>5, <2>0 DEF KeyOK, HeldBackUntilKeyframe, OnlyFirstIsMarked, Begun
  <2>3. \A n : Begun(sent', session[Pull], n) <=> Begun(sent, session[Pull], n)
    BY <1>0 DEF Begun
  <2>4. CASE needs_keyframe
    <3>1. /\ \A i \in 1 .. Len(frames) : frames[i].session = session[Pull] => ~frames[i].frame.key
          /\ \A i \in 1 .. Len(sent) : sent[i].session # session[Pull]
      BY <1>0, <2>0, <2>4 DEF KeyOK, WaitOK
    <3>2. f.key /\ ~f.good => LostKey(frames', session[Pull])
      <4>1. Len(frames) + 1 \in 1 .. Len(frames')
            /\ \A j \in 1 .. Len(frames') : j < Len(frames) + 1 => j \in 1 .. Len(frames)
        BY <1>4
      <4> QED
        BY <1>0, <1>3, <1>4, <3>1, <4>1 DEF LostKey
    <3>3. taken => f.key /\ p.key /\ p.discontinuity
      BY <1>1, <2>4 DEF p
    <3>4. WaitOK'
      <4>1. CASE needs_keyframe'
        <5>1. ~f.key
          BY <1>0, <4>1
        <5>2. \A i \in 1 .. Len(frames') : frames'[i].session = session[Pull] => ~frames'[i].frame.key
          BY <1>3, <1>4, <3>1, <5>1
        <5> QED
          BY <1>0, <3>1, <5>2 DEF WaitOK
      <4>2. CASE ~needs_keyframe'
        BY <4>2 DEF WaitOK
      <4> QED
        BY <4>1, <4>2
    <3>5. ResumedOK'
      BY <1>0, <1>7, <2>4, <3>2 DEF ResumedOK
    <3>6. InHandOK'
      BY <1>0, <1>2, <1>7, <1>8, <2>4, <3>1, <3>3 DEF InHandOK
    <3> QED
      BY <2>1, <2>2, <3>4, <3>5, <3>6 DEF KeyOK
  <2>5. CASE ~needs_keyframe
    <3>1. session[Pull] > 1 => LostKey(frames, session[Pull]) \/ Begun(sent, session[Pull], Len(sent))
      BY <1>0, <2>0, <2>5 DEF KeyOK, ResumedOK
    <3>2. session[Pull] > 1 => LostKey(frames', session[Pull]) \/ Begun(sent', session[Pull], Len(sent))
      BY <1>5, <2>3, <3>1
    <3>3. ~p.discontinuity
      BY <2>5 DEF p
    <3>4. WaitOK' /\ ResumedOK'
      BY <1>0, <2>5, <3>2 DEF WaitOK, ResumedOK
    <3>5. InHandOK'
      BY <1>0, <1>2, <1>7, <1>8, <2>5, <3>2, <3>3 DEF InHandOK
    <3> QED
      BY <2>1, <2>2, <3>4, <3>5 DEF KeyOK
  <2> QED
    BY <1>1, <2>4, <2>5
<1>14. NumberedOK'
  <2>1. sequence = Len(sent)
    BY <1>0 DEF IInv, NumberedOK
  <2> QED
    BY <1>0, <1>2, <1>7, <1>8, <2>1 DEF IInv, NumberedOK, Waiting
<1>15. AlongOK'
  BY <1>0, <1>7, <1>8 DEF IInv, AlongOK
<1> QED
  BY <1>9, <1>10, <1>11, <1>12, <1>13, <1>14, <1>15 DEF IInv, Elements, Pull, Push

\* io.send puts the packet in hand at the end of the pipe: it has the number that
\* comes next, and follows a random access point of its session.
LEMMA PullSendsKept == ASSUME IInv, PullSends PROVE IInv'
<1>0. /\ pc[Pull] = "sending"
      /\ UNCHANGED <<session, opened, closed, reconnecting, needs_keyframe, sequence, frames, packet,
                     announced, wire>>
  BY DEF PullSends, At
<1> DEFINE p == packet[Pull]
<1>1. /\ pc \in [Elements -> Waiting \cup Connected \cup Over] /\ packet \in [Elements -> Packets]
      /\ Pull \in Elements /\ Push \in Elements /\ Pull # Push /\ p \in Packets
      /\ sent \in Seq(Media) /\ queue \in Seq(Packets)
      /\ Len(sent) \in Nat /\ Len(queue) \in Nat
  BY Entries DEF IInv, TypeOK
<1>2. CASE UNCHANGED <<queue, sent>>
  <2>1. PICK how \in Over : Return(Pull, how)
    BY <1>2, <1>1 DEF PullSends, Over
  <2> QED
    BY <1>0, <1>1, <1>2, <2>1, ReturnKept DEF dataVars, pullVars
<1>3. CASE queue' = Append(queue, p) /\ p.eos /\ sent' = sent /\ pc' = [pc EXCEPT ![Pull] = "ok"]
  <2>1. /\ queue' \in Seq(Packets) /\ Len(queue') = Len(queue) + 1 /\ queue'[Len(queue) + 1] = p
        /\ \A i \in 1 .. Len(queue) : queue'[i] = queue[i]
    BY <1>1, <1>3
  <2>2. /\ pc' \in [Elements -> Waiting \cup Connected \cup Over] /\ pc'[Pull] = "ok" /\ pc'[Push] = pc[Push]
    BY <1>1, <1>3 DEF Over
  <2>3. TypeOK'
    BY <1>0, <1>3, <2>1, <2>2 DEF IInv, TypeOK
  <2>4. SessionOK(Pull)'
    BY <1>0, <1>1, <2>2, EndedSession DEF IInv, Over
  <2>5. SessionOK(Push)'
    BY <1>0, <1>1, <2>2, OtherSession DEF IInv
  <2>6. AnnouncedOK' /\ WireOK'
    BY <1>0, <2>2 DEF IInv, AnnouncedOK, WireOK
  <2>7. KeyOK' /\ NumberedOK'
    <3>1. KeyOK'
      BY <1>0, <1>3, <2>2, KeyKept DEF IInv
    <3> QED
      BY <1>0, <1>3, <2>2, <3>1 DEF IInv, NumberedOK, Waiting
  <2>8. AlongOK'
    <3>1. ASSUME NEW i \in 1 .. Len(queue'), ~queue'[i].eos PROVE i \in 1 .. Len(queue) /\ queue'[i] = queue[i]
      BY <1>1, <1>3, <2>1, <3>1
    <3> QED
      BY <1>0, <1>3, <2>2, <3>1 DEF IInv, AlongOK
  <2> QED
    BY <2>3, <2>4, <2>5, <2>6, <2>7, <2>8 DEF IInv, Elements, Pull, Push
<1>4. CASE queue' = Append(queue, p) /\ ~p.eos /\ sent' = Append(sent, p) /\ pc' = [pc EXCEPT ![Pull] = "running"]
  <2>0. p \in Media /\ p.n \in Nat /\ p.session \in Nat /\ p.n = Len(sent) /\ sequence = Len(sent) + 1
    BY <1>0, <1>1, <1>4, Entries DEF IInv, NumberedOK
  <2> HIDE DEF p
  <2>1. /\ queue' \in Seq(Packets) /\ Len(queue') = Len(queue) + 1 /\ queue'[Len(queue) + 1] = p
        /\ \A i \in 1 .. Len(queue) : queue'[i] = queue[i]
    BY <1>1, <1>4
  <2>2. /\ sent' \in Seq(Media) /\ Len(sent') = Len(sent) + 1 /\ sent'[Len(sent) + 1] = p
        /\ \A i \in 1 .. Len(sent) : sent'[i] = sent[i]
    BY <1>1, <1>4, <2>0
  <2>3. /\ pc' \in [Elements -> Waiting \cup Connected \cup Over] /\ pc'[Pull] = "running" /\ pc'[Push] = pc[Push]
    BY <1>1, <1>4 DEF Connected
  <2>4. TypeOK'
    BY <1>0, <2>1, <2>2, <2>3 DEF IInv, TypeOK
  <2>5. SessionOK(Pull)'
    BY <1>0, <1>1, <2>3, ConnectedSession DEF IInv, Connected
  <2>6. SessionOK(Push)'
    BY <1>0, <1>1, <2>3, OtherSession DEF IInv
  <2>7. AnnouncedOK' /\ WireOK'
    BY <1>0, <2>3 DEF IInv, AnnouncedOK, WireOK
  <2>8. KeyOK'
    <3>0. KeyOK /\ session[Pull] = opened[Pull] /\ opened[Pull] \in Nat
      BY <1>0, <1>1 DEF IInv, SessionOK, Connected, TypeOK
    <3>1. /\ p.session = session[Pull] /\ ~needs_keyframe
          /\ session[Pull] > 1 =>
               LostKey(frames, session[Pull]) \/ Begun(sent, session[Pull], Len(sent)) \/ (p.key /\ p.discontinuity)
          /\ p.discontinuity => \A i \in 1 .. Len(sent) : sent[i].session # session[Pull]
      BY <1>0, <1>4, <3>0 DEF KeyOK, InHandOK, p
    <3>2. \A i \in 1 .. Len(sent') : i = Len(sent) + 1 \/ i \in 1 .. Len(sent)
      BY <1>1, <2>2
    <3>3. \A s : LostKey(frames', s) <=> LostKey(frames, s)
      BY <1>0 DEF LostKey
    <3>4. ASSUME NEW s, NEW n \in 1 .. Len(sent), Begun(sent, s, n) PROVE Begun(sent', s, n)
      <4>1. PICK j \in 1 .. n : sent[j].session = s /\ sent[j].key /\ sent[j].discontinuity
        BY <3>4 DEF Begun
      <4>2. j \in 1 .. Len(sent) /\ sent'[j] = sent[j]
        BY <1>1, <2>2, <4>1
      <4> QED
        BY <4>1, <4>2 DEF Begun
    <3>5. ShownOK'
      BY <1>0, <2>2, <3>0, <3>1, <3>2 DEF KeyOK, ShownOK
    <3>6. session[Pull] > 1 => LostKey(frames', session[Pull]) \/ Begun(sent', session[Pull], Len(sent) + 1)
      <4>1. CASE Begun(sent, session[Pull], Len(sent))
        <5>1. PICK j \in 1 .. Len(sent) :
                sent[j].session = session[Pull] /\ sent[j].key /\ sent[j].discontinuity
          BY <4>1 DEF Begun
        <5>2. j \in 1 .. Len(sent) + 1 /\ sent'[j] = sent[j]
          BY <1>1, <2>2, <5>1
        <5> QED
          BY <1>0, <5>1, <5>2 DEF Begun
      <4>2. CASE p.key /\ p.discontinuity
        <5>1. Len(sent) + 1 \in 1 .. Len(sent) + 1
          BY <1>1
        <5> QED
          BY <1>0, <2>2, <3>1, <4>2, <5>1 DEF Begun
      <4> QED
        BY <3>1, <3>3, <4>1, <4>2
    <3>7. WaitOK' /\ InHandOK'
      BY <1>0, <2>3, <3>1 DEF WaitOK, InHandOK
    <3>8. ResumedOK'
      BY <1>0, <2>2, <3>6 DEF ResumedOK
    <3>9. HeldBackUntilKeyframe'
      <4>1. ASSUME NEW i \in 1 .. Len(sent'), sent'[i].session > 1
            PROVE  LostKey(frames', sent'[i].session) \/ Begun(sent', sent'[i].session, i)
        <5>1. CASE i = Len(sent) + 1
          BY <1>0, <2>2, <3>1, <3>6, <4>1, <5>1
        <5>2. CASE i \in 1 .. Len(sent)
          <6>1. sent'[i] = sent[i]
            BY <2>2, <5>2
          <6>2. LostKey(frames, sent[i].session) \/ Begun(sent, sent[i].session, i)
            BY <3>0, <4>1, <5>2, <6>1 DEF KeyOK, HeldBackUntilKeyframe
          <6> QED
            BY <3>3, <3>4, <5>2, <6>1, <6>2
        <5> QED
          BY <3>2, <5>1, <5>2
      <4> QED
        BY <4>1 DEF HeldBackUntilKeyframe
    <3>10. OnlyFirstIsMarked'
      <4>1. ASSUME NEW i \in 1 .. Len(sent'), NEW j \in 1 .. Len(sent'), i < j,
                   sent'[i].session = sent'[j].session
            PROVE  ~sent'[j].discontinuity
        <5>1. i \in 1 .. Len(sent) /\ sent'[i] = sent[i]
          BY <1>1, <2>2, <4>1
        <5>2. CASE j = Len(sent) + 1
          BY <2>2, <3>1, <4>1, <5>1, <5>2
        <5>3. CASE j \in 1 .. Len(sent)
          BY <2>2, <3>0, <4>1, <5>1, <5>3 DEF KeyOK, OnlyFirstIsMarked
        <5> QED
          BY <3>2, <5>2, <5>3
      <4> QED
        BY <4>1 DEF OnlyFirstIsMarked
    <3> QED
      BY <3>5, <3>7, <3>8, <3>9, <3>10 DEF KeyOK
  <2>9. NumberedOK'
    <3>1. \A i \in 1 .. Len(sent') : sent'[i].n = i - 1
      <4>1. ASSUME NEW i \in 1 .. Len(sent') PROVE sent'[i].n = i - 1
        <5>1. CASE i = Len(sent) + 1
          BY <1>1, <2>0, <2>2, <5>1
        <5>2. CASE i # Len(sent) + 1
          <6>1. i \in 1 .. Len(sent) /\ sent'[i] = sent[i]
            BY <1>1, <2>2, <5>2
          <6> QED
            BY <6>1 DEF IInv, NumberedOK
        <5> QED
          BY <5>1, <5>2
      <4> QED
        BY <4>1
    <3> QED
      BY <1>0, <2>0, <2>2, <2>3, <3>1 DEF NumberedOK
  <2>10. AlongOK'
    <3>1. \A i \in 1 .. Len(wire) : wire[i].n \in Nat /\ wire[i].n < Len(sent)
      BY Entries DEF IInv, AlongOK
    <3>2. \A i \in 1 .. Len(queue) : ~queue[i].eos => queue[i].n \in Nat /\ queue[i].n < Len(sent)
      BY Entries DEF IInv, AlongOK
    <3>3. \A i \in 1 .. Len(queue') : ~queue'[i].eos =>
            /\ queue'[i].n < Len(sent')
            /\ \A j \in 1 .. Len(wire) : wire[j].n < queue'[i].n
            /\ \A j \in 1 .. Len(queue') : i < j /\ ~queue'[j].eos => queue'[i].n < queue'[j].n
      <4>1. ASSUME NEW i \in 1 .. Len(queue'), ~queue'[i].eos
            PROVE  /\ queue'[i].n < Len(sent')
                   /\ \A j \in 1 .. Len(wire) : wire[j].n < queue'[i].n
                   /\ \A j \in 1 .. Len(queue') : i < j /\ ~queue'[j].eos => queue'[i].n < queue'[j].n
        <5>1. CASE i = Len(queue) + 1
          BY <1>1, <2>0, <2>1, <2>2, <3>1, <5>1
        <5>2. CASE i # Len(queue) + 1
          <6>1. i \in 1 .. Len(queue) /\ queue'[i] = queue[i]
            BY <1>1, <2>1, <5>2
          <6>2. queue[i].n \in Nat /\ queue[i].n < Len(sent) /\ \A j \in 1 .. Len(wire) : wire[j].n < queue[i].n
            BY <3>2, <4>1, <6>1 DEF IInv, AlongOK
          <6>3. ASSUME NEW j \in 1 .. Len(queue'), i < j, ~queue'[j].eos PROVE queue'[i].n < queue'[j].n
            <7>1. CASE j = Len(queue) + 1
              BY <2>0, <2>1, <6>1, <6>2, <7>1
            <7>2. CASE j # Len(queue) + 1
              BY <1>1, <2>1, <4>1, <6>1, <6>3, <7>2 DEF IInv, AlongOK
            <7> QED
              BY <7>1, <7>2
          <6> QED
            BY <1>1, <2>2, <6>1, <6>2, <6>3
        <5> QED
          BY <5>1, <5>2
      <4> QED
        BY <4>1
    <3>4. \A i \in 1 .. Len(wire) : wire[i].n < Len(sent')
      BY <1>1, <2>2, <3>1
    <3>5. pc[Push] = "pushing" /\ ~packet[Push].eos =>
            /\ packet[Push].n < Len(sent')
            /\ \A j \in 1 .. Len(wire) : wire[j].n < packet[Push].n
            /\ \A j \in 1 .. Len(queue') : ~queue'[j].eos => packet[Push].n < queue'[j].n
      <4>1. SUFFICES ASSUME pc[Push] = "pushing", ~packet[Push].eos
                     PROVE  /\ packet[Push].n < Len(sent')
                            /\ \A j \in 1 .. Len(wire) : wire[j].n < packet[Push].n
                            /\ \A j \in 1 .. Len(queue') : ~queue'[j].eos => packet[Push].n < queue'[j].n
        OBVIOUS
      <4>2. /\ packet[Push].n \in Nat /\ packet[Push].n < Len(sent)
            /\ \A j \in 1 .. Len(wire) : wire[j].n < packet[Push].n
            /\ \A j \in 1 .. Len(queue) : ~queue[j].eos => packet[Push].n < queue[j].n
        BY <1>1, <4>1, Entries DEF IInv, AlongOK
      <4>3. ASSUME NEW j \in 1 .. Len(queue'), ~queue'[j].eos PROVE packet[Push].n < queue'[j].n
        <5>1. CASE j = Len(queue) + 1
          BY <2>0, <2>1, <4>2, <5>1
        <5>2. CASE j # Len(queue) + 1
          BY <1>1, <2>1, <4>2, <4>3, <5>2
        <5> QED
          BY <5>1, <5>2
      <4> QED
        BY <1>1, <2>2, <4>2, <4>3
    <3> QED
      BY <1>0, <2>3, <3>3, <3>4, <3>5 DEF AlongOK
  <2> QED
    BY <2>4, <2>5, <2>6, <2>7, <2>8, <2>9, <2>10 DEF IInv, Elements, Pull, Push
<1> QED
  BY <1>2, <1>3, <1>4 DEF PullSends, Return, Goto

-----------------------------------------------------------------------------
(* The push element *)

\* A connected push element that goes on with another packet, or without one: the order
\* along the relay is all that is left to show.
LEMMA PushGoesOn ==
    ASSUME IInv, NEW x \in Connected, pc[Push] \in Connected, pc' = [pc EXCEPT ![Push] = x],
           packet' \in [Elements -> Packets], packet'[Pull] = packet[Pull], queue' \in Seq(Packets),
           UNCHANGED <<session, opened, closed, reconnecting, pullVars, announced, wire>>,
           AlongOK'
    PROVE  IInv'
<1> USE DEF pullVars
<1>1. /\ pc \in [Elements -> Waiting \cup Connected \cup Over]
      /\ Pull \in Elements /\ Push \in Elements /\ Pull # Push
  BY Entries DEF IInv, TypeOK
<1>2. pc' \in [Elements -> Waiting \cup Connected \cup Over] /\ pc'[Push] = x /\ pc'[Pull] = pc[Pull]
  BY <1>1
<1>3. TypeOK'
  BY <1>2 DEF IInv, TypeOK
<1>4. SessionOK(Push)'
  BY <1>1, <1>2, ConnectedSession DEF IInv
<1>5. SessionOK(Pull)'
  BY <1>1, <1>2, OtherSession DEF IInv
<1>6. AnnouncedOK' /\ WireOK'
  BY <1>2 DEF IInv, AnnouncedOK, WireOK
<1>7. KeyOK' /\ NumberedOK'
  BY <1>1, <1>2, KeyKept DEF IInv, NumberedOK
<1> QED
  BY <1>3, <1>4, <1>5, <1>6, <1>7 DEF IInv, Elements, Pull, Push

\* io.recv takes the head of the pipe, which lies before all that stays in it.
LEMMA PushReceivesKept == ASSUME IInv, PushReceives PROVE IInv'
<1>0. /\ pc[Push] = "running" /\ pc' = [pc EXCEPT ![Push] = "pushing"]
      /\ UNCHANGED <<session, opened, closed, reconnecting, pullVars, announced, wire>>
  BY DEF PushReceives, At, Goto
<1>1. /\ pc \in [Elements -> Waiting \cup Connected \cup Over] /\ packet \in [Elements -> Packets]
      /\ Pull \in Elements /\ Push \in Elements /\ Pull # Push /\ queue \in Seq(Packets)
      /\ EOS \in Packets /\ EOS.eos
  BY Entries DEF IInv, TypeOK, Packets, EOS
<1>2. pc'[Push] = "pushing" /\ sent' = sent
  BY <1>0, <1>1 DEF pullVars
<1>3. CASE queue # <<>> /\ queue' = Tail(queue) /\ packet' = [packet EXCEPT ![Push] = Head(queue)]
  <2>1. /\ queue' \in Seq(Packets) /\ Len(queue) \in Nat /\ Len(queue) # 0 /\ Len(queue') = Len(queue) - 1
        /\ \A i \in 1 .. Len(queue') : queue'[i] = queue[i + 1]
        /\ Head(queue) = queue[1] /\ Head(queue) \in Packets
    BY <1>1, <1>3
  <2>2. packet' \in [Elements -> Packets] /\ packet'[Pull] = packet[Pull] /\ packet'[Push] = queue[1]
    BY <1>1, <1>3, <2>1
  <2>3. AlongOK'
    <3>1. \A i \in 1 .. Len(queue') : i + 1 \in 1 .. Len(queue) /\ queue'[i] = queue[i + 1]
      BY <2>1
    <3>2. 1 \in 1 .. Len(queue) /\ \A i \in 1 .. Len(queue') : 1 < i + 1
      BY <2>1
    <3>3. \A i \in 1 .. Len(queue') : ~queue'[i].eos =>
            /\ queue'[i].n < Len(sent')
            /\ \A j \in 1 .. Len(wire) : wire[j].n < queue'[i].n
            /\ \A j \in 1 .. Len(queue') : i < j /\ ~queue'[j].eos => queue'[i].n < queue'[j].n
      <4>1. ASSUME NEW i \in 1 .. Len(queue'), NEW j \in 1 .. Len(queue'), i < j PROVE i + 1 < j + 1
        BY <4>1
      <4> QED
        BY <1>2, <3>1, <4>1 DEF IInv, AlongOK
    <3>4. ~queue[1].eos =>
            /\ queue[1].n < Len(sent')
            /\ \A j \in 1 .. Len(wire) : wire[j].n < queue[1].n
            /\ \A j \in 1 .. Len(queue') : ~queue'[j].eos => queue[1].n < queue'[j].n
      BY <1>2, <3>1, <3>2 DEF IInv, AlongOK
    <3>5. \A i \in 1 .. Len(wire) : wire[i].n < Len(sent')
      BY <1>2 DEF IInv, AlongOK
    <3> QED
      BY <1>0, <2>2, <3>3, <3>4, <3>5 DEF AlongOK
  <2> QED
    BY <1>0, <2>1, <2>2, <2>3, PushGoesOn DEF Connected
<1>4. CASE queue' = queue /\ packet' = [packet EXCEPT ![Push] = EOS]
  <2>1. packet' \in [Elements -> Packets] /\ packet'[Pull] = packet[Pull] /\ packet'[Push].eos
    BY <1>1, <1>4
  <2>2. AlongOK'
    BY <1>0, <1>2, <1>4, <2>1 DEF IInv, AlongOK
  <2> QED
    BY <1>0, <1>1, <1>4, <2>1, <2>2, PushGoesOn DEF Connected
<1> QED
  BY <1>3, <1>4 DEF PushReceives

LEMMA PushDroppedKept == ASSUME IInv, PushDropped PROVE IInv'
<1>0. /\ pc[Push] = "pushing" /\ pc' = [pc EXCEPT ![Push] = "running"]
      /\ UNCHANGED <<session, opened, closed, reconnecting, pullVars, packet, queue, announced, wire>>
  BY DEF PushDropped, At, Goto
<1>1. /\ pc'[Push] = "running" /\ sent' = sent /\ packet' \in [Elements -> Packets] /\ queue' \in Seq(Packets)
  BY <1>0, Entries DEF IInv, TypeOK, pullVars
<1>2. AlongOK'
  BY <1>0, <1>1 DEF IInv, AlongOK
<1> QED
  BY <1>0, <1>1, <1>2, PushGoesOn DEF Connected

\* An accepted packet lies after all that was accepted before, in the session that was
\* opened last.
LEMMA PushAcceptedKept == ASSUME IInv, PushAccepted PROVE IInv'
<1> DEFINE new == [n |-> packet[Push].n, session |-> session[Push]]
<1>0. /\ pc[Push] = "pushing" /\ ~packet[Push].eos /\ pc' = [pc EXCEPT ![Push] = "running"]
      /\ wire' = Append(wire, new)
      /\ UNCHANGED <<session, opened, closed, reconnecting, pullVars, packet, queue, announced>>
  BY DEF PushAccepted, At, Goto
<1>1. /\ pc \in [Elements -> Waiting \cup Connected \cup Over] /\ wire \in Seq(Accepted)
      /\ session[Push] \in Nat /\ packet[Push].n \in Nat /\ opened[Push] \in Nat
      /\ Pull \in Elements /\ Push \in Elements /\ Pull # Push
  BY <1>0, Entries DEF IInv, TypeOK
<1>2. new \in Accepted /\ new.n = packet[Push].n /\ new.session = session[Push]
  BY <1>1 DEF Accepted
<1> HIDE DEF new
<1>3. /\ wire' \in Seq(Accepted) /\ Len(wire) \in Nat /\ Len(wire') = Len(wire) + 1
      /\ wire'[Len(wire) + 1] = new /\ \A i \in 1 .. Len(wire) : wire'[i] = wire[i]
  BY <1>0, <1>1, <1>2
<1>4. pc' \in [Elements -> Waiting \cup Connected \cup Over] /\ pc'[Push] = "running" /\ pc'[Pull] = pc[Pull]
  BY <1>0, <1>1 DEF Connected
<1>5. \A i \in 1 .. Len(wire') : i = Len(wire) + 1 \/ i \in 1 .. Len(wire)
  BY <1>3
<1>6. session[Push] = opened[Push] /\ session[Push] \in announced
  BY <1>0, <1>1 DEF IInv, SessionOK, AnnouncedOK, Connected
<1>7. \A i \in 1 .. Len(wire) : wire[i].n \in Nat /\ wire[i].n < packet[Push].n /\ wire[i].session <= opened[Push]
  BY <1>0, Entries DEF IInv, AlongOK, WireOK
<1>8. TypeOK'
  BY <1>0, <1>3, <1>4 DEF IInv, TypeOK, pullVars
<1>9. SessionOK(Push)'
  BY <1>0, <1>1, <1>4, ConnectedSession DEF IInv, Connected
<1>10. SessionOK(Pull)'
  BY <1>0, <1>1, <1>4, OtherSession DEF IInv
<1>11. AnnouncedOK'
  BY <1>0, <1>2, <1>3, <1>5, <1>6 DEF IInv, AnnouncedOK
<1>12. KeyOK' /\ NumberedOK'
  BY <1>0, <1>4, KeyKept DEF IInv, NumberedOK, pullVars
<1>13. AlongOK'
  <2>1. \A i \in 1 .. Len(wire') : wire'[i].n <= packet[Push].n /\ wire'[i].n \in Nat
    BY <1>1, <1>2, <1>3, <1>5, <1>7
  <2>2. packet[Push].n < Len(sent) /\ Len(sent) \in Nat
    BY <1>0, Entries DEF IInv, AlongOK
  <2>3. \A j \in 1 .. Len(queue) : ~queue[j].eos => packet[Push].n < queue[j].n /\ queue[j].n \in Nat
    BY <1>0, Entries DEF IInv, AlongOK
  <2>4. \A i \in 1 .. Len(wire') : wire'[i].n < Len(sent)
    BY <1>1, <2>1, <2>2
  <2>5. ASSUME NEW i \in 1 .. Len(queue), ~queue[i].eos
        PROVE  \A j \in 1 .. Len(wire') : wire'[j].n < queue[i].n
    BY <1>1, <2>1, <2>3, <2>5
  <2>6. \A i \in 1 .. Len(queue) : ~queue[i].eos =>
          /\ queue[i].n < Len(sent)
          /\ \A j \in 1 .. Len(queue) : i < j /\ ~queue[j].eos => queue[i].n < queue[j].n
    BY DEF IInv, AlongOK
  <2>7. queue' = queue /\ sent' = sent
    BY <1>0 DEF pullVars
  <2> QED
    BY <1>4, <2>4, <2>5, <2>6, <2>7 DEF AlongOK
<1>14. WireOK'
  <2>1. \A i \in 1 .. Len(wire') : wire'[i].session <= opened[Push]
    BY <1>1, <1>2, <1>3, <1>5, <1>6, <1>7
  <2>2. ASSUME NEW i \in 1 .. Len(wire'), NEW j \in 1 .. Len(wire'), i < j
        PROVE  wire'[i].n < wire'[j].n /\ wire'[i].session <= wire'[j].session
    <3>1. i \in 1 .. Len(wire) /\ wire'[i] = wire[i]
      BY <1>3, <2>2
    <3>2. CASE j = Len(wire) + 1
      BY <1>2, <1>3, <1>6, <1>7, <3>1, <3>2
    <3>3. CASE j # Len(wire) + 1
      BY <1>3, <1>5, <2>2, <3>1, <3>3 DEF IInv, WireOK
    <3> QED
      BY <3>2, <3>3
  <2> QED
    BY <1>0, <2>1, <2>2 DEF WireOK
<1> QED
  BY <1>8, <1>9, <1>10, <1>11, <1>12, <1>13, <1>14 DEF IInv, Elements, Pull, Push

LEMMA PullStepKept == ASSUME IInv, PullStep PROVE IInv'
<1> USE DEF dataVars, pullVars
<1>0. Pull \in Elements
  BY DEF Elements
<1>1. CASE PullOversized
  BY <1>0, <1>1, ReturnKept DEF PullOversized, Over
<1>2. CASE PullBroken
  <2>1. PICK retryable \in BOOLEAN : Disconnected(Pull, retryable, TRUE)
    BY <1>2 DEF PullBroken
  <2>2. ASSUME NEW closes \in BOOLEAN, closes = TRUE PROVE IInv'
    BY <1>0, <1>2, <2>1, <2>2, DisconnectedKept DEF PullBroken, At
  <2> QED
    BY <2>2
<1> QED
  BY <1>0, <1>1, <1>2, StepKept, PullFrameKept, PullEndsKept, PullSendsKept DEF PullStep

LEMMA PushStepKept == ASSUME IInv, PushStep PROVE IInv'
<1> USE DEF dataVars, pullVars
<1>0. Push \in Elements
  BY DEF Elements
<1>1. CASE PushBadPacket
  BY <1>0, <1>1, ReturnKept DEF PushBadPacket, Over
<1>2. CASE PushEnds
  <2>1. PICK how \in Over : Return(Push, how)
    BY <1>2 DEF PushEnds, Over
  <2> QED
    BY <1>0, <1>2, <2>1, ReturnKept DEF PushEnds
<1>3. CASE PushBroken
  <2>1. PICK retryable \in BOOLEAN, closes \in BOOLEAN : Disconnected(Push, retryable, closes)
    BY <1>3 DEF PushBroken
  <2> QED
    BY <1>0, <1>3, <2>1, DisconnectedKept DEF PushBroken, At
<1> QED
  BY <1>0, <1>1, <1>2, <1>3, StepKept, PushReceivesKept, PushAcceptedKept, PushDroppedKept DEF PushStep

-----------------------------------------------------------------------------
LEMMA Initially == Init => IInv
<1> SUFFICES ASSUME Init PROVE IInv
  OBVIOUS
<1>1. /\ <<>> \in Seq(Packets) /\ <<>> \in Seq(Shown) /\ <<>> \in Seq(Media) /\ <<>> \in Seq(Accepted)
      /\ EOS \in Packets /\ Len(<<>>) = 0
  BY DEF Packets
<1>2. Pull \in Elements /\ Push \in Elements
  BY DEF Elements
<1>3. TypeOK
  BY <1>1 DEF Init, TypeOK, Waiting
<1>4. \A e \in Elements : SessionOK(e)
  BY DEF Init, SessionOK, Connected, Over, Waiting
<1>5. AnnouncedOK /\ KeyOK /\ NumberedOK /\ AlongOK /\ WireOK
  BY <1>1, <1>2 DEF Init, AnnouncedOK, KeyOK, ShownOK, WaitOK, ResumedOK, InHandOK, HeldBackUntilKeyframe,
     OnlyFirstIsMarked, NumberedOK, AlongOK, WireOK, Connected
<1> QED
  BY <1>3, <1>4, <1>5 DEF IInv

LEMMA StepsKept == IInv /\ [Next]_vars => IInv'
<1> SUFFICES ASSUME IInv, [Next]_vars PROVE IInv'
  OBVIOUS
<1>1. CASE StopRequested \/ UNCHANGED vars
  <2>1. UNCHANGED <<pc, session, opened, closed, reconnecting, needs_keyframe, sequence, frames, sent,
                    packet, queue, announced, wire>>
    BY <1>1 DEF StopRequested, vars, elementVars, pullVars
  <2>2. TypeOK' /\ AnnouncedOK' /\ WireOK'
    BY <2>1 DEF IInv, TypeOK, AnnouncedOK, WireOK
  <2>3. KeyOK' /\ NumberedOK'
    BY <2>1, KeyKept DEF IInv, NumberedOK
  <2>4. AlongOK'
    BY <2>1 DEF IInv, AlongOK
  <2>5. \A e \in Elements : SessionOK(e)'
    BY <2>1, OtherSession DEF IInv
  <2> QED
    BY <2>2, <2>3, <2>4, <2>5 DEF IInv
<1> QED
  BY <1>1, PullStepKept, PushStepKept DEF Next

\* However often both connections break and come back: the packets of a new session begin
\* with a random access point, the only one that is marked, unless the first that the
\* server sent in it did not convert; no session is left open behind a newer one or used
\* before its tracks are announced, and the push server sees the packets in their order,
\* none twice (StreamPullElement::run, StreamPushElement::run and open_with_retry).
THEOREM RelayStaysClean == Spec => []RelayIsClean
<1>1. IInv => RelayIsClean
  BY DEF IInv, SessionOK, AnnouncedOK, KeyOK, NumberedOK, WireOK, RelayIsClean, SessionsAreClean, RelayInOrder
<1> QED
  BY <1>1, Initially, StepsKept, PTL DEF Spec

=============================================================================
