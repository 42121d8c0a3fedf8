--------------------------- MODULE StreamElements ---------------------------
(***************************************************************************)
(* A relay of dg-stream: a pull element (rtsp_src, httpflv_src) feeds a    *)
(* push element (rtmp_sink, webrtc_sink) over one pipe.  Both hold one     *)
(* session with a remote server that may refuse, disconnect and come back, *)
(* and both go through the same retry loop.  The servers are external:     *)
(* any answer at any time, with a budget of faults.                        *)
(***************************************************************************)
EXTENDS Naturals, Sequences, SequencesExt

CONSTANTS MaxAttempts,   \* RetryConfig.max_attempts; 0 is no limit
          Capacity,      \* packets the pipe holds
          MaxFrames,     \* bound: frames the pull server sends
          MaxFaults      \* bound: refusals and disconnects of the servers

ASSUME StreamElementsAssumption ==
    {MaxAttempts, Capacity, MaxFrames, MaxFaults} \subseteq Nat

Pull == "pull"
Push == "push"
Elements == {Pull, Push}
Over == {"ok", "cancelled", "failed"}
EOS == [eos |-> TRUE]

VARIABLES
    pc,            \* where each element's thread is, or how run() returned
    attempt,       \* open_with_retry: refusals of this connection
    reconnect_attempt,
    session,       \* the endpoint an element holds: its number, 0 is None
    opened,        \* sessions an element has opened so far
    closed,        \* sessions it has closed
    reconnecting,  \* NodeMetrics.reconnecting
    needs_keyframe, sequence,      \* locals of StreamPullElement::run
    packet,        \* the packet a thread holds: in io.send, or just received
    queue, seen,   \* the pipe, and EosState.seen of the push element
    announced,     \* push sessions whose tracks were announced
    stop,          \* the stop flag of the graph
    frames,        \* history: the frames the pull server sent
    sent,          \* history: the packets the pull element put on the pipe
    wire,          \* history: what the push server accepted, with its session
    faults         \* history: faults so far

elementVars == <<pc, attempt, reconnect_attempt, session, opened, closed, reconnecting>>
pullVars == <<needs_keyframe, sequence, frames, sent>>
vars == <<elementVars, pullVars, packet, queue, seen, announced, stop, wire, faults>>

\* A frame is a random access point or not, and converts to a packet or not.
Frames == [key : BOOLEAN, good : BOOLEAN]

Init ==
    /\ pc = [e \in Elements |-> "opening"]
    /\ attempt = [e \in Elements |-> 0]
    /\ reconnect_attempt = [e \in Elements |-> 0]
    /\ session = [e \in Elements |-> 0]
    /\ opened = [e \in Elements |-> 0]
    /\ closed = [e \in Elements |-> {}]
    /\ reconnecting = [e \in Elements |-> TRUE]
    /\ needs_keyframe = FALSE /\ sequence = 0
    /\ packet = [e \in Elements |-> EOS] /\ queue = <<>> /\ seen = FALSE
    /\ announced = {} /\ stop = FALSE
    /\ frames = <<>> /\ sent = <<>> /\ wire = <<>> /\ faults = 0

-----------------------------------------------------------------------------
(* What both elements share.                                               *)

should_retry(n) == MaxAttempts = 0 \/ n <= MaxAttempts

At(e, where) == pc[e] = where
Goto(e, where) == pc' = [pc EXCEPT ![e] = where]
Fault == faults < MaxFaults /\ faults' = faults + 1

\* run() returns: a cancellation leaves the graph alone, any other error stops it.
Return(e, how) ==
    /\ Goto(e, how)
    /\ stop' = (stop \/ how = "failed")

\* close() on the endpoint at hand.
Closed(e) == [closed EXCEPT ![e] = @ \cup ({session[e]} \ {0})]

\* The top of the loop of open_with_retry.  A stop is Error::Closed, which
\* becomes a Runtime error of the graph and not a cancellation.
OpenStopped(e) ==
    /\ At(e, "opening") /\ stop
    /\ Return(e, "failed")
    /\ UNCHANGED <<attempt, reconnect_attempt, session, opened, closed, reconnecting,
                   pullVars, packet, queue, seen, announced, wire, faults>>

OpenRefused(e) ==
    /\ At(e, "opening") /\ ~stop /\ Fault
    /\ \E retryable \in BOOLEAN :
         IF retryable /\ should_retry(attempt[e] + 1)
         THEN /\ attempt' = [attempt EXCEPT ![e] = @ + 1]
              /\ Goto(e, "backoff") /\ UNCHANGED stop
         ELSE Return(e, "failed") /\ UNCHANGED attempt
    /\ UNCHANGED <<reconnect_attempt, session, opened, closed, reconnecting,
                   pullVars, packet, queue, seen, announced, wire>>

\* The connection stands.  Tracks that are not ready, or that cannot be
\* announced, end the element.  After a reconnect the pull element waits for
\* a random access point.
OpenSucceeds(e) ==
    /\ At(e, "opening") /\ ~stop
    /\ session' = [session EXCEPT ![e] = opened[e] + 1]
    /\ opened' = [opened EXCEPT ![e] = @ + 1]
    /\ attempt' = [attempt EXCEPT ![e] = 0]
    /\ \/ /\ Goto(e, "running")
          /\ reconnecting' = [reconnecting EXCEPT ![e] = FALSE]
          /\ reconnect_attempt' = [reconnect_attempt EXCEPT ![e] = 0]
          /\ needs_keyframe' = (needs_keyframe \/ (e = Pull /\ opened[e] > 0))
          /\ announced' = announced \cup (IF e = Push THEN {opened[e] + 1} ELSE {})
          /\ UNCHANGED <<stop, faults>>
       \/ /\ Fault
          /\ Return(e, "failed")
          /\ reconnecting' = [reconnecting EXCEPT ![e] = opened[e] > 0]
          /\ UNCHANGED <<reconnect_attempt, needs_keyframe, announced>>
    /\ UNCHANGED <<closed, sequence, frames, sent, packet, queue, seen, wire>>

\* sleep_with_stop: the pause is over, or the stop ends it early.
SleepEnds(e) ==
    /\ At(e, "backoff")
    /\ IF stop THEN Return(e, "failed") ELSE Goto(e, "opening") /\ UNCHANGED stop
    /\ UNCHANGED <<attempt, reconnect_attempt, session, opened, closed, reconnecting,
                   pullVars, packet, queue, seen, announced, wire, faults>>

\* The session broke: close it, drop it and pause, or end with the error.
\* A publisher that rejects because it is closed is not closed again when no
\* attempt is left.
Disconnected(e, retryable, closes) ==
    /\ IF retryable /\ should_retry(reconnect_attempt[e] + 1)
       THEN /\ closed' = Closed(e)
            /\ reconnect_attempt' = [reconnect_attempt EXCEPT ![e] = @ + 1]
            /\ session' = [session EXCEPT ![e] = 0]
            /\ reconnecting' = [reconnecting EXCEPT ![e] = TRUE]
            /\ Goto(e, "backoff") /\ UNCHANGED stop
       ELSE /\ closed' = IF closes THEN Closed(e) ELSE closed
            /\ Return(e, "failed")
            /\ UNCHANGED <<reconnect_attempt, session, reconnecting>>
    /\ UNCHANGED <<attempt, opened>>

\* A defective loop that only ends with its stream.
RunStopped_Never(e) == FALSE

\* The loop sees the stop: close, and NotRunning.
RunStopped(e) ==
    /\ At(e, "running") /\ stop
    /\ closed' = Closed(e)
    /\ Return(e, "cancelled")
    /\ UNCHANGED <<attempt, reconnect_attempt, session, opened, reconnecting,
                   pullVars, packet, queue, seen, announced, wire, faults>>

-----------------------------------------------------------------------------
(* StreamPullElement::run                                                  *)

\* A defective pull that takes up the stream wherever it stands.
PullFrame_AnyFrame(f) ==
    /\ At(Pull, "running") /\ ~stop /\ Len(frames) < MaxFrames
    /\ frames' = Append(frames, [frame |-> f, session |-> session[Pull]])
    /\ needs_keyframe' = FALSE
    /\ IF f.good
       THEN /\ packet' = [packet EXCEPT ![Pull] =
                   [eos |-> FALSE, n |-> sequence, key |-> f.key,
                    discontinuity |-> needs_keyframe, session |-> session[Pull]]]
            /\ sequence' = sequence + 1 /\ Goto(Pull, "sending")
       ELSE UNCHANGED <<packet, sequence, pc>>
    /\ UNCHANGED <<attempt, reconnect_attempt, session, opened, closed, reconnecting, sent,
                   queue, seen, announced, stop, wire, faults>>

\* A frame that is no random access point is passed over while the element
\* waits for one.  One that does not convert is dropped, the wait over or not.
PullFrame(f) ==
    /\ At(Pull, "running") /\ ~stop /\ Len(frames) < MaxFrames
    /\ frames' = Append(frames, [frame |-> f, session |-> session[Pull]])
    /\ needs_keyframe' = (needs_keyframe /\ ~f.key)
    /\ IF f.good /\ (needs_keyframe => f.key)
       THEN /\ packet' = [packet EXCEPT ![Pull] =
                   [eos |-> FALSE, n |-> sequence, key |-> f.key,
                    discontinuity |-> needs_keyframe, session |-> session[Pull]]]
            /\ sequence' = sequence + 1 /\ Goto(Pull, "sending")
       ELSE UNCHANGED <<packet, sequence, pc>>
    /\ UNCHANGED <<attempt, reconnect_attempt, session, opened, closed, reconnecting, sent,
                   queue, seen, announced, stop, wire, faults>>

\* A frame over max_frame_bytes fails the element, which does not close the source.
PullOversized ==
    /\ At(Pull, "running") /\ ~stop /\ Fault
    /\ Return(Pull, "failed")
    /\ UNCHANGED <<attempt, reconnect_attempt, session, opened, closed, reconnecting,
                   pullVars, packet, queue, seen, announced, wire>>

PullBroken ==
    /\ At(Pull, "running") /\ ~stop /\ Fault
    /\ \E retryable \in BOOLEAN : Disconnected(Pull, retryable, TRUE)
    /\ UNCHANGED <<pullVars, packet, queue, seen, announced, wire>>

\* EndOfStream, or a frame that says so: close and broadcast the end.
PullEnds ==
    /\ At(Pull, "running") /\ ~stop
    /\ closed' = Closed(Pull)
    /\ packet' = [packet EXCEPT ![Pull] = EOS]
    /\ Goto(Pull, "sending")
    /\ UNCHANGED <<attempt, reconnect_attempt, session, opened, reconnecting,
                   pullVars, queue, seen, announced, stop, wire, faults>>

\* io.send: wait for room, give up on a stop, fail when the receiver is gone.
PullSends ==
    /\ At(Pull, "sending")
    /\ \/ /\ stop
          /\ Return(Pull, "cancelled") /\ UNCHANGED <<queue, sent>>
       \/ /\ ~stop /\ pc[Push] \in Over
          /\ Return(Pull, "failed") /\ UNCHANGED <<queue, sent>>
       \/ /\ ~stop /\ pc[Push] \notin Over /\ Len(queue) < Capacity
          /\ queue' = Append(queue, packet[Pull])
          /\ IF packet[Pull].eos
             THEN Return(Pull, "ok") /\ UNCHANGED sent
             ELSE /\ Goto(Pull, "running") /\ UNCHANGED stop
                  /\ sent' = Append(sent, packet[Pull])
    /\ UNCHANGED <<attempt, reconnect_attempt, session, opened, closed, reconnecting,
                   needs_keyframe, sequence, frames, packet, seen, announced, wire, faults>>

-----------------------------------------------------------------------------
(* StreamPushElement::run                                                  *)

\* io.recv: a packet, or the end when the pipe is empty and EOS was seen.
PushReceives ==
    /\ At(Push, "running") /\ ~stop
    /\ \/ /\ queue # <<>>
          /\ queue' = Tail(queue)
          /\ packet' = [packet EXCEPT ![Push] = Head(queue)]
          /\ seen' = (seen \/ Head(queue).eos)
          /\ Goto(Push, "pushing")
       \/ /\ queue = <<>> /\ seen
          /\ packet' = [packet EXCEPT ![Push] = EOS]
          /\ Goto(Push, "pushing") /\ UNCHANGED <<queue, seen>>
    /\ UNCHANGED <<attempt, reconnect_attempt, session, opened, closed, reconnecting,
                   pullVars, announced, stop, wire, faults>>

\* A defective push that takes the end of the stream for a packet.
PushEnds_GoesOn ==
    /\ At(Push, "pushing") /\ packet[Push].eos
    /\ Goto(Push, "running")
    /\ UNCHANGED <<attempt, reconnect_attempt, session, opened, closed, reconnecting,
                   pullVars, packet, queue, seen, announced, stop, wire, faults>>

\* At the end of the stream the publisher is closed, and a close that fails
\* fails the element.
PushEnds ==
    /\ At(Push, "pushing") /\ packet[Push].eos
    /\ closed' = Closed(Push)
    /\ \/ Return(Push, "ok") /\ UNCHANGED faults
       \/ Fault /\ Return(Push, "failed")
    /\ UNCHANGED <<attempt, reconnect_attempt, session, opened, reconnecting,
                   pullVars, packet, queue, seen, announced, wire>>

PushAccepted ==
    /\ At(Push, "pushing") /\ ~packet[Push].eos
    /\ wire' = Append(wire, [n |-> packet[Push].n, session |-> session[Push]])
    /\ reconnect_attempt' = [reconnect_attempt EXCEPT ![Push] = 0]
    /\ Goto(Push, "running")
    /\ UNCHANGED <<attempt, session, opened, closed, reconnecting,
                   pullVars, packet, queue, seen, announced, stop, faults>>

PushDropped ==
    /\ At(Push, "pushing") /\ ~packet[Push].eos /\ Fault
    /\ Goto(Push, "running")
    /\ UNCHANGED <<attempt, reconnect_attempt, session, opened, closed, reconnecting,
                   pullVars, packet, queue, seen, announced, stop, wire>>

\* RejectedClosed, or an error of push_frame: the packet is dropped.
PushBroken ==
    /\ At(Push, "pushing") /\ ~packet[Push].eos /\ Fault
    /\ \/ Disconnected(Push, TRUE, FALSE)
       \/ \E retryable \in BOOLEAN : Disconnected(Push, retryable, TRUE)
    /\ UNCHANGED <<pullVars, packet, queue, seen, announced, wire>>

\* A packet that is no media frame fails the element, which does not close
\* the publisher.
PushBadPacket ==
    /\ At(Push, "pushing") /\ ~packet[Push].eos /\ Fault
    /\ Return(Push, "failed")
    /\ UNCHANGED <<attempt, reconnect_attempt, session, opened, closed, reconnecting,
                   pullVars, packet, queue, seen, announced, wire>>

StopRequested ==
    /\ ~stop /\ stop' = TRUE
    /\ UNCHANGED <<elementVars, pullVars, packet, queue, seen, announced, wire, faults>>

-----------------------------------------------------------------------------
Step(e) ==
    OpenStopped(e) \/ OpenRefused(e) \/ OpenSucceeds(e) \/ SleepEnds(e) \/ RunStopped(e)

PullStep == Step(Pull) \/ (\E f \in Frames : PullFrame(f)) \/ PullOversized \/ PullBroken
                \/ PullEnds \/ PullSends

PushStep == Step(Push) \/ PushReceives \/ PushEnds \/ PushAccepted
                \/ PushDropped \/ PushBroken \/ PushBadPacket

Next == PullStep \/ PushStep \/ StopRequested

Spec == Init /\ [][Next]_vars

\* Each element has a thread of its own and every wait in its loop is bounded
\* (100 ms slices), so a thread that can go on does.  Nothing makes the server
\* end its stream: PullEnds is possible, never due.
FairSpec ==
    /\ Spec
    /\ WF_vars(Step(Pull) \/ PullSends)
    /\ WF_vars(PushStep)

-----------------------------------------------------------------------------
(* Properties                                                              *)

\* Of the frames fs, the first random access point in session s does not convert
\* (elements.rs:334).
LostKey(fs, s) ==
    \E k \in 1..Len(fs) :
        /\ fs[k].session = s /\ fs[k].frame.key /\ ~fs[k].frame.good
        /\ \A j \in 1..Len(fs) : j < k /\ fs[j].session = s => ~fs[j].frame.key

\* Of the packets ps, one of the first n begins session s anew.
Begun(ps, s, n) == \E j \in 1..n : ps[j].session = s /\ ps[j].key /\ ps[j].discontinuity

\* After a reconnect nothing of the new session goes downstream before a random access
\* point that is marked as a discontinuity, through frames, drops and further disconnects
\* (elements.rs:317), and no packet after the first of a session is marked.  One case is
\* apart, of which docs/user-guide.md:281 and the plan (06, 63) do not speak: the wait
\* ends with a random access point that is received, not with one that is sent, so when
\* it does not convert the frames that depend on it go out unmarked.
HeldBackUntilKeyframe ==
    \A i \in 1..Len(sent) : sent[i].session > 1 =>
        LostKey(frames, sent[i].session) \/ Begun(sent, sent[i].session, i)
OnlyFirstIsMarked ==
    \A i, j \in 1..Len(sent) :
        i < j /\ sent[i].session = sent[j].session => ~sent[j].discontinuity

\* No frame reaches a push server in a session whose tracks it was not told
\* about, no session is opened before the last one is closed, and an element
\* says it reconnects exactly while it has none: a reconnect neither leaves the
\* old session behind nor forgets the announcement (elements.rs:479, :551).
SessionsAreClean ==
    /\ \A i \in 1..Len(wire) : wire[i].session \in announced
    /\ \A e \in Elements : \A s \in 1..opened[e] :
         s \in closed[e] \/ s = opened[e]
    /\ \A e \in Elements : pc[e] \notin Over => (reconnecting[e] <=> session[e] = 0)

\* The push server sees the packets of the pull element in their order, none
\* twice, whatever was dropped on the way and in whichever session.
RelayInOrder ==
    /\ \A i \in 1..Len(sent) : sent[i].n = i - 1
    /\ \A i, j \in 1..Len(wire) :
         i < j => wire[i].n < wire[j].n /\ wire[i].session <= wire[j].session

\* A reconnect of either element neither resumes too early (but for a random access
\* point that is lost), leaves a session behind nor changes the order of the relay.
RelayIsClean == HeldBackUntilKeyframe /\ OnlyFirstIsMarked /\ SessionsAreClean /\ RelayInOrder

\* A stop ends both elements, in a pause before a reconnect, in the wait for
\* room on the pipe or in the wait for a frame.
StopEnds == stop ~> (pc[Pull] \in Over /\ pc[Push] \in Over)

\* Once the pull element has sent EOS, the push element ends too.
EosEndsRelay == (pc[Pull] = "ok") ~> (pc[Push] \in Over)

\* The relay ends, by a stop or by the end of its stream, whatever the retries
\* of the two elements are doing.
RelayEnds == StopEnds /\ EosEndsRelay

=============================================================================
