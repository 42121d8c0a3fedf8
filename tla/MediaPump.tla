------------------------------ MODULE MediaPump ------------------------------
(***************************************************************************)
(* dg-media: the AsyncPump between a media element and a submit / poll /   *)
(* flush codec session (async_core.rs), and the MediaElement loop that     *)
(* drives it (elements.rs).                                                *)
(*                                                                         *)
(* The codec session belongs to the avcodec SDK and is external: it takes  *)
(* up to Depth inputs, works on them on its own, and hands each output out *)
(* when polled.  A frame is its position in the input.  Core::poll pops an *)
(* output as soon as pump_step queues it, so the pump's output_queue is    *)
(* empty between steps and is not a variable here.                         *)
(***************************************************************************)
EXTENDS Integers, Sequences

CONSTANTS
    Frames,          \* bound: at most this many frames before end of stream
    StepBudget,      \* MAX_PUMP_STEPS_PER_ITERATION
    Settings         \* the surroundings of the element to explore

\* A setting: how many inputs the session holds, whether a finished frame takes
\* up room until it is polled, whether flush may answer Again while frames
\* take up room, whether convert, submit, flush, poll, recv and send may report an
\* error, whether the graph may be asked to stop, whether upstream surely ends
ASSUME PumpAssumption ==
    /\ Frames \in Nat /\ StepBudget \in Nat \ {0}
    /\ Settings \subseteq [depth : Nat \ {0}, drainToAccept : BOOLEAN,
                           flushMayAgain : BOOLEAN, mayFail : BOOLEAN,
                           mayStop : BOOLEAN, upstreamEnds : BOOLEAN]

None == 0
FrameIds == 1 .. Frames

VARIABLES
    setting,         \* which of Settings this is; never changes
    \* AsyncPump
    state,           \* CoreState
    input,           \* pending_media_input
    value,           \* pending_backend_value
    flushSent,       \* flush_sent
    backendEos,      \* eos_from_backend
    \* the codec session
    opened,          \* created by the first convert_input
    busy, finished,  \* frames in work, and outputs not yet polled
    flushed,         \* flush was accepted
    \* MediaElement::run
    pc,              \* "emit", "after", "sending", "recv", "idle" or an exit
    steps,           \* pump steps left in this round
    progress,        \* made_progress
    closed,          \* input_closed
    received,        \* frames taken from the input
    holding,         \* the output being sent
    emitted,         \* frames sent downstream
    stop             \* the graph's stop flag

pump == <<state, input, value, flushSent, backendEos>>
session == <<setting, opened, busy, finished, flushed>>
driver == <<steps, progress, closed, received, holding, emitted>>
vars == <<setting, state, input, value, flushSent, backendEos, opened, busy, finished,
          flushed, pc, steps, progress, closed, received, holding, emitted,
          stop>>

Init ==
    /\ setting \in Settings
    /\ state = "Accepting" /\ input = None /\ value = None
    /\ flushSent = FALSE /\ backendEos = FALSE
    /\ opened = FALSE /\ busy = <<>> /\ finished = <<>> /\ flushed = FALSE
    /\ pc = "emit" /\ steps = StepBudget /\ progress = FALSE
    /\ closed = FALSE /\ received = 0 /\ holding = None /\ emitted = <<>>
    /\ stop = FALSE

Exits == {"done", "failed", "no_eos", "drain_expired", "stopped"}
Exited == pc \in Exits

-----------------------------------------------------------------------------
(* The codec session.                                                      *)

\* the frames that take up room
Load == Len(busy) + IF setting.drainToAccept THEN Len(finished) ELSE 0
Room == Load < setting.depth

FlushRefused == setting.flushMayAgain /\ Load > 0

SessionWorks ==
    /\ busy # <<>>
    /\ busy' = Tail(busy)
    /\ finished' = Append(finished, Head(busy))
    /\ UNCHANGED <<setting, pump, opened, flushed, pc, driver, stop>>

-----------------------------------------------------------------------------
(* AsyncPump.                                                              *)

CanAcceptInput == state = "Accepting" /\ input = None /\ value = None

HasInFlight ==
    /\ state \in {"Accepting", "Flushing"}
    /\ input # None \/ value # None \/ (state = "Flushing" /\ ~backendEos)

\* fail: the error leaves the element, whose worker reports it
Fail ==
    /\ state' = "Failed"
    /\ pc' = "failed"
    /\ UNCHANGED <<flushSent, backendEos, session, driver, stop>>

\* the frame whose turn it is: the converted value first, then the input, which
\* convert_input turns into a value and for which it opens the session
Turn == IF value # None THEN value ELSE input

\* pump_step: submit what is pending; Again keeps the value and ends the step
PumpSubmit ==
    /\ pc = "emit" /\ Turn # None
    /\ opened' = TRUE
    /\ input' = IF value # None THEN input ELSE None
    /\ \/ /\ Room
          /\ busy' = Append(busy, Turn)
          /\ value' = None
          /\ pc' = "after"
       \/ /\ ~Room
          /\ value' = Turn
          /\ pc' = "recv"
          /\ UNCHANGED busy
    /\ UNCHANGED <<setting, state, flushSent, backendEos, finished, flushed, driver, stop>>

\* convert_input or submit_value failed: the frame was taken and is lost
PumpSubmitFails ==
    /\ setting.mayFail /\ pc = "emit" /\ Turn # None
    /\ value' = None
    /\ input' = IF value # None THEN input ELSE None
    /\ Fail

PumpNoInput ==
    /\ pc = "emit" /\ Turn = None
    /\ pc' = "after"
    /\ UNCHANGED <<pump, session, driver, stop>>

MustFlush_Inverted == state = "Flushing" /\ flushSent /\ input = None /\ value = None
MustFlush == state = "Flushing" /\ ~flushSent /\ input = None /\ value = None

\* after_submit: flush; Again ends the step
PumpFlush ==
    /\ pc = "after" /\ MustFlush
    /\ \/ /\ opened
          /\ flushSent' = TRUE /\ flushed' = TRUE
                /\ UNCHANGED <<backendEos, pc>>
       \/ /\ opened /\ FlushRefused
                /\ pc' = "recv"
          /\ UNCHANGED <<flushSent, flushed, backendEos>>
       \/ /\ ~opened
          /\ flushSent' = TRUE /\ backendEos' = TRUE
          /\ UNCHANGED <<flushed, pc>>
    /\ UNCHANGED <<setting, state, input, value, opened, busy, finished, driver, stop>>

\* after_submit: poll_output is Ready; Core::poll hands the frame over at once
PumpReady ==
    /\ pc = "after" /\ ~MustFlush /\ finished # <<>>
    /\ holding' = Head(finished)
    /\ finished' = Tail(finished)
    /\ pc' = "sending"
    /\ UNCHANGED <<setting, pump, opened, busy, flushed, steps, progress, closed, received,
                   emitted, stop>>

SessionEnded == flushed /\ busy = <<>> /\ finished = <<>>

\* after_submit: poll_output is Pending; a session never opened is Pending too
PumpPending ==
    /\ pc = "after" /\ ~MustFlush /\ finished = <<>> /\ ~SessionEnded
    /\ pc' = "recv"
    /\ UNCHANGED <<pump, session, driver, stop>>

PumpEnded_OnPending ==
    /\ pc = "after" /\ ~MustFlush /\ finished = <<>> /\ flushSent
    /\ state' = "Ended" /\ backendEos' = TRUE
    /\ pc' = "done"
    /\ UNCHANGED <<input, value, flushSent, session, driver, stop>>

\* after_submit: poll_output is EndOfStream; the element broadcasts it
PumpEnded ==
    /\ pc = "after" /\ ~MustFlush /\ SessionEnded
    /\ state' = "Ended" /\ backendEos' = TRUE
    /\ pc' = "done"
    /\ UNCHANGED <<input, value, flushSent, session, driver, stop>>

PumpPollFails ==
    /\ setting.mayFail /\ pc = "after" /\ opened
    /\ Fail
    /\ UNCHANGED <<input, value>>

-----------------------------------------------------------------------------
(* MediaElement::run.                                                      *)

\* io.send went through
Emit ==
    /\ pc = "sending"
    /\ emitted' = Append(emitted, holding)
    /\ holding' = None
    /\ progress' = TRUE
    /\ steps' = steps - 1
    /\ pc' = IF steps = 1 THEN "recv" ELSE "emit"
    /\ UNCHANGED <<pump, session, closed, received, stop>>

\* the output cannot be made a packet, or io.send failed
EmitFails ==
    /\ setting.mayFail /\ pc = "sending"
    /\ pc' = "failed"
    /\ UNCHANGED <<pump, session, driver, stop>>

\* io.send found the pipe full while the graph stops
EmitCancelled ==
    /\ pc = "sending" /\ stop
    /\ pc' = "stopped"
    /\ UNCHANGED <<pump, session, driver, stop>>

MayReceive_WhilePending == state = "Accepting" /\ ~closed
MayReceive == CanAcceptInput /\ ~closed

RecvFrame ==
    /\ pc = "recv" /\ MayReceive /\ received < Frames
    /\ received' = received + 1
    /\ input' = received'
    /\ progress' = TRUE
    /\ pc' = "idle"
    /\ UNCHANGED <<state, value, flushSent, backendEos, session, steps, closed,
                   holding, emitted, stop>>

\* io.recv failed, or the packet is no media frame
RecvFails ==
    /\ setting.mayFail /\ pc = "recv" /\ MayReceive
    /\ pc' = "failed"
    /\ UNCHANGED <<pump, session, driver, stop>>

\* end of stream only begins the flush
RecvEos ==
    /\ pc = "recv" /\ MayReceive
    /\ state' = "Flushing"
    /\ closed' = TRUE
    /\ progress' = TRUE
    /\ pc' = "idle"
    /\ UNCHANGED <<input, value, flushSent, backendEos, session, steps, received,
                   holding, emitted, stop>>

RecvTimeout_StopUnseen ==
    /\ pc = "recv" /\ MayReceive
    /\ pc' = "idle"
    /\ UNCHANGED <<pump, session, driver, stop>>

\* recv timed out: not the end of the stream, but a place to notice a stop
RecvTimeout ==
    /\ pc = "recv" /\ MayReceive
    /\ pc' = IF stop THEN "stopped" ELSE "idle"
    /\ UNCHANGED <<pump, session, driver, stop>>

RecvSkipped ==
    /\ pc = "recv" /\ ~MayReceive
    /\ pc' = "idle"
    /\ UNCHANGED <<pump, session, driver, stop>>

\* the end of a round: without progress, give up or sleep
GivesUp == ~progress /\ closed /\ ~HasInFlight

NextRound ==
    /\ pc = "idle" /\ ~GivesUp
    /\ pc' = "emit"
    /\ steps' = StepBudget
    /\ progress' = FALSE
    /\ UNCHANGED <<pump, session, closed, received, holding, emitted, stop>>

GiveUp ==
    /\ pc = "idle" /\ GivesUp
    /\ pc' = "no_eos"
    /\ UNCHANGED <<pump, session, driver, stop>>

\* drain_deadline passed, looked at only in a round of flushing without progress
DrainExpires ==
    /\ setting.mayFail /\ pc = "idle" /\ ~progress /\ state = "Flushing"
    /\ pc' = "drain_expired"
    /\ UNCHANGED <<pump, session, driver, stop>>

RequestStop ==
    /\ setting.mayStop /\ ~stop /\ ~Exited
    /\ stop' = TRUE
    /\ UNCHANGED <<pump, session, pc, driver>>

Round ==
    \/ PumpSubmit \/ PumpSubmitFails \/ PumpNoInput
    \/ PumpFlush \/ PumpReady \/ PumpPending \/ PumpEnded \/ PumpPollFails
    \/ Emit \/ EmitFails \/ EmitCancelled
    \/ RecvFrame \/ RecvFails \/ RecvEos \/ RecvTimeout \/ RecvSkipped
    \/ NextRound \/ GiveUp \/ DrainExpires

Next == Round \/ SessionWorks \/ RequestStop

Spec == Init /\ [][Next]_vars

EosComes == setting.upstreamEnds /\ RecvEos

(* The worker thread runs and the session finishes what it took.  Where    *)
(* the upstream element ends its stream, recv returns that in the end.     *)
FairSpec == Spec /\ WF_vars(Round) /\ WF_vars(SessionWorks) /\ SF_vars(EosComes)

-----------------------------------------------------------------------------
One(f) == IF f = None THEN <<>> ELSE <<f>>

(* Every frame that came in is at exactly one place between the input and  *)
(* the output, in order, unless the element failed: no Again, retry or     *)
(* flush loses, repeats or swaps a frame.                                  *)
OneOrderedPath ==
    pc # "failed" =>
    emitted \o One(holding) \o finished \o busy \o One(value) \o One(input)
        = [k \in 1 .. received |-> k]

(* End of stream goes downstream only after the output of every frame, and *)
(* only if the input ended.                                                *)
EosAfterEveryFrame ==
    pc = "done" => closed /\ emitted = [k \in 1 .. received |-> k]

(* Frames go their way in order and the end comes last.                    *)
EveryFrameInOrder == OneOrderedPath /\ EosAfterEveryFrame

(* Seen from the graph, the pump, its session and the loop that drives     *)
(* them are one line of frames: none of the stations in between shows.     *)
Phase ==
    CASE pc = "done" -> "ended"
      [] pc \in Exits \ {"done"} -> "broken"
      [] pc \notin Exits /\ closed -> "closed"
      [] OTHER -> "open"

(* MediaElement::run over AsyncPump keeps the promise FrameLine states.    *)
Promise == INSTANCE FrameLine WITH taken <- received, given <- emitted, phase <- Phase
ImplementsFrameLine == Promise!Spec

(* Without an error and without a stop request, a stream with frames comes *)
(* to its end, and does so without running out of time.  A session that    *)
(* takes more only after its outputs were polled is left out: after its    *)
(* Again the pump waits for it and never polls.                            *)
StreamEnds ==
    (/\ received > 0 /\ setting.upstreamEnds /\ ~setting.drainToAccept
     /\ ~setting.mayFail /\ ~setting.mayStop)
        ~> pc = "done"

(* A stop request ends the element, whether it waits for an input, for     *)
(* room in its output or for a session that is not ready.  (A session that *)
(* must be polled before it accepts keeps the element from receiving, and  *)
(* it looks at the stop flag only there: dg-media elements.rs run.)        *)
StopEnds == (stop /\ ~setting.drainToAccept) ~> Exited

(* The element ends: with its stream, or when it is told to stop            *)
(* (MediaElement::run).                                                    *)
PumpEnds == StreamEnds /\ StopEnds
=============================================================================
