-------------------------- MODULE InferenceElement --------------------------
(***************************************************************************)
(* The inference element of dg-graph (inference.rs): one worker that feeds *)
(* one runtime, or a pool of them, and emits results as they complete.     *)
(*                                                                         *)
(* Each round polls first, then looks at end of stream, the stop flag and  *)
(* the capacity, and only then receives a packet and submits it.  A packet *)
(* is its position in the input.  Which instance of a pool takes it is the *)
(* scheduler's choice (module Scheduler) and left open here.               *)
(***************************************************************************)
EXTENDS InferRuntime, Sequences, SequencesExt

CONSTANTS
    Packets,        \* bound: packets upstream sends before end of stream
    MayFail,        \* the backend may refuse a submission or fail an inference
    MayStop         \* the graph may be asked to stop

ASSUME ElementAssumption ==
    Packets \in Nat /\ MayFail \in BOOLEAN /\ MayStop \in BOOLEAN

VARIABLES
    pc,             \* "loop", "sending", or "done" / "failed" / "stopped"
    received,       \* packets taken from the input
    eos,            \* local eos
    pending,        \* InferenceElement.pending: <<runtime, sequence, packet>>
    holding,        \* the packet whose outputs are being sent
    emitted,        \* packets sent downstream, in order
    ended,          \* end of stream was broadcast
    stop            \* the graph's stop flag

elementVars == <<pc, received, eos, pending, holding, emitted, ended, stop>>
vars == <<backend, queued, parked, nextSequence, inFlight, fate, pc, received, eos,
          pending, holding, emitted, ended, stop>>

Init ==
    /\ RuntimeInit
    /\ pc = "loop" /\ received = 0 /\ eos = FALSE
    /\ pending = {} /\ holding = 0 /\ emitted = <<>>
    /\ ended = FALSE /\ stop = FALSE

Exited == pc \in {"done", "failed", "stopped"}

\* every way out drops the element, and Drop cancels what is in flight
Exit(how) ==
    /\ pc' = how
    /\ \E refused \in Refusals(Runtimes) : CancelAll(Runtimes, refused)

\* poll_ready found nothing: a parked result is always found, a device may not
\* be done yet
NothingReady == \A r \in Runtimes : parked[r] = {}

\* poll_ready: a result, matched with its submission
PollResult(r, s) ==
    /\ pc = "loop"
    /\ PollReady(r, s)
    /\ \E e \in pending :
         /\ e[1] = r /\ e[2] = s
         /\ pending' = pending \ {e}
         /\ holding' = e[3]
    /\ pc' = "sending"
    /\ UNCHANGED <<received, eos, emitted, ended, stop>>

\* the failed submission's own request is gone, the rest is cancelled
PollFailed(r, s) ==
    /\ MayFail /\ Async /\ pc = "loop" /\ s \in queued[r]
    /\ pc' = "failing"
    /\ PollError(r, s)
    /\ UNCHANGED <<received, eos, pending, holding, emitted, ended, stop>>

Unwind ==
    /\ pc = "failing"
    /\ Exit("failed")
    /\ UNCHANGED <<received, eos, pending, holding, emitted, ended, stop>>

\* io.send: the outputs went downstream
SendOutputs ==
    /\ pc = "sending"
    /\ emitted' = Append(emitted, holding)
    /\ holding' = 0
    /\ pc' = "loop"
    /\ UNCHANGED <<runtimeVars, received, eos, pending, ended, stop>>

\* io.send gave up on a full pipe because the graph stops
SendCancelled ==
    /\ pc = "sending" /\ stop
    /\ Exit("stopped")
    /\ UNCHANGED <<received, eos, pending, holding, emitted, ended, stop>>

MayEnd_Early == eos
MayEnd == eos /\ pending = {}

\* broadcast_eos, which gives up on a full pipe when the graph stops
Finish ==
    /\ pc = "loop" /\ NothingReady /\ MayEnd
    /\ \/ ended' = TRUE /\ Exit("done")
       \/ stop /\ ended' = ended /\ Exit("stopped")
    /\ UNCHANGED <<received, eos, pending, holding, emitted, stop>>

Abort_AfterEos ==
    /\ pc = "loop" /\ NothingReady /\ ~MayEnd
    /\ stop /\ pending = {} /\ eos
    /\ Exit("stopped")
    /\ UNCHANGED <<received, eos, pending, holding, emitted, ended, stop>>

\* stop with nothing in flight: cancel and leave
Abort ==
    /\ pc = "loop" /\ NothingReady /\ ~MayEnd
    /\ stop /\ pending = {}
    /\ Exit("stopped")
    /\ UNCHANGED <<received, eos, pending, holding, emitted, ended, stop>>

\* has_capacity: Runtime::in_flight reads the metrics, which a pool shares
HasCapacity == \E r \in Runtimes : inFlight < MaxInFlight

MayReceive == pc = "loop" /\ NothingReady /\ ~stop /\ ~eos /\ HasCapacity

\* recv and submit to the instance that was checked out
Infer(r) ==
    /\ MayReceive /\ received < Packets
    /\ Submit(r)
    /\ received' = received + 1
    /\ pending' = pending \cup {<<r, nextSequence[r], received'>>}
    /\ UNCHANGED <<pc, eos, holding, emitted, ended, stop>>

\* recv and no submission: a payload that is not a tensor, no instance to check
\* out, the runtime's limit, or the backend's refusal
InferRefused(r) ==
    /\ MayReceive /\ received < Packets
    /\ \/ (MayFail \/ ~CanSubmit(r)) /\ UNCHANGED runtimeVars
       \/ MayFail /\ SubmitFails(r)
    /\ received' = received + 1
    /\ pc' = "failing"
    /\ UNCHANGED <<eos, pending, holding, emitted, ended, stop>>

RecvEos ==
    /\ MayReceive /\ received = Packets
    /\ eos' = TRUE
    /\ UNCHANGED <<runtimeVars, pc, received, pending, holding, emitted, ended, stop>>

RequestStop ==
    /\ MayStop /\ ~stop /\ ~Exited
    /\ stop' = TRUE
    /\ UNCHANGED <<runtimeVars, pc, received, eos, pending, holding, emitted, ended>>

Round ==
    \/ \E r \in Runtimes, s \in Sequences : PollResult(r, s) \/ PollFailed(r, s)
    \/ \E r \in Runtimes : Infer(r) \/ InferRefused(r)
    \/ SendOutputs \/ SendCancelled \/ Unwind
    \/ Finish \/ Abort \/ RecvEos

Next == Round \/ RequestStop

Spec == Init /\ [][Next]_vars

(* The worker keeps polling and a device completes what it holds.          *)
FairSpec == Spec /\ WF_vars(Round)

-----------------------------------------------------------------------------
(* Types of the element's own state.                                       *)
TypeOK ==
    /\ RuntimeTypeOK
    /\ pc \in {"loop", "sending", "failing", "done", "failed", "stopped"}
    /\ received \in 0 .. Packets /\ eos \in BOOLEAN
    /\ pending \subseteq Runtimes \X Sequences \X (1 .. Packets)
    /\ holding \in 0 .. Packets
    /\ emitted \in Seq(1 .. Packets)
    /\ ended \in BOOLEAN /\ stop \in BOOLEAN

(* Every completion the runtimes can report has exactly one entry in       *)
(* pending, so that its metadata is the submission's and poll never meets  *)
(* an unknown sequence, and pending never waits for a lost completion.     *)
PendingMatchesInFlight ==
    pc \in {"loop", "sending"} =>
        /\ {<<e[1], e[2]>> : e \in pending} = Pairs(Runtimes)
        /\ Cardinality(pending) = Cardinality(Pairs(Runtimes))

Numbers(S) == {e[3] : e \in S}

(* No packet is emitted twice, and before end of stream goes downstream    *)
(* every packet that came in went out, whatever order they completed in.   *)
EosAfterEveryResult ==
    /\ IsInjective(emitted)
    /\ ToSet(emitted) \cap Numbers(pending) = {}
    /\ ended => ToSet(emitted) = 1 .. received

(* While the backend is healthy no packet is refused for want of capacity: *)
(* whichever instance the scheduler picks accepts the submission.          *)
CapacityIsReal ==
    MayReceive => \A r \in Runtimes : CurrentInFlight(r) < MaxInFlight

(* However the element leaves, nothing stays in flight, and the counter is *)
(* what the backend could not confirm as cancelled.                        *)
ExitReleases ==
    Exited => /\ Pairs(Runtimes) = {}
              /\ inFlight = Cardinality(Open({"unconfirmed"}))

(* The books of the element and of its runtimes agree from the first       *)
(* submission to the last cancel.                                          *)
AccountsMatch == TypeOK /\ InFlightExact /\ PendingMatchesInFlight /\ CapacityIsReal /\ ExitReleases

(* The element ends: a finished input or a stop request is answered once   *)
(* the device has completed what is in flight.                             *)
ElementEnds == <>Exited
=============================================================================
