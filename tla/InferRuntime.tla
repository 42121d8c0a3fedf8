---------------------------- MODULE InferRuntime ----------------------------
(***************************************************************************)
(* dg-runtime: the Runtime wrapper around an inference backend, with the   *)
(* submit / poll / cancel contract of InferBackend as the mock and the     *)
(* OpenVINO backend implement it.                                          *)
(*                                                                         *)
(* Several runtimes may share one BackendMetrics (an inference pool does), *)
(* whose in_flight counter each of them moves on its own.  A backend       *)
(* either queues a submission and completes it in any order, or computes   *)
(* it inside submit and parks the outputs in sync_result until poll.       *)
(***************************************************************************)
EXTENDS Integers, FiniteSets

CONSTANTS
    Runtimes,       \* runtimes that share one BackendMetrics
    MaxSequence,    \* bound, and the last u64: next_sequence cannot pass it
    Backends        \* the backends to explore

\* InferBackend::is_async and max_in_flight, and whether the device may refuse
\* to cancel a request
ASSUME RuntimeAssumption ==
    /\ IsFiniteSet(Runtimes) /\ MaxSequence \in Nat \ {0}
    /\ Backends \subseteq [async : BOOLEAN, maxInFlight : Nat \ {0},
                           cancelMayFail : BOOLEAN]

Sequences == 0 .. MaxSequence - 1

VARIABLES
    backend,       \* the backend of all the runtimes; never changes
    queued,        \* submissions the asynchronous backend holds
    parked,        \* Runtime.sync_result: a set of at most one sequence
    nextSequence,  \* Runtime.next_sequence
    inFlight,      \* BackendMetrics.in_flight, shared
    fate           \* history: what became of each sequence drawn by submit

runtimeVars == <<backend, queued, parked, nextSequence, inFlight, fate>>

Async == backend.async
MaxInFlight == backend.maxInFlight

RuntimeInit ==
    /\ backend \in Backends
    /\ queued = [r \in Runtimes |-> {}]
    /\ parked = [r \in Runtimes |-> {}]
    /\ nextSequence = [r \in Runtimes |-> 0]
    /\ inFlight = 0
    /\ fate = [r \in Runtimes |-> [s \in Sequences |-> "unused"]]

\* finish_in_flight: checked_sub, clamped at zero
Less(n, k) == IF n >= k THEN n - k ELSE 0

Outstanding(r) == queued[r] \cup parked[r]

\* what submit compares with max_in_flight: the backend's own count, since the
\* shared counter would include the other runtimes
CurrentInFlight(r) == Cardinality(IF Async THEN queued[r] ELSE parked[r])

CanSubmit(r) ==
    CurrentInFlight(r) < MaxInFlight /\ nextSequence[r] < MaxSequence

\* submit: accepted; a synchronous backend ran the inference and the outputs
\* replace whatever was parked
Submit(r) ==
    LET s == nextSequence[r] IN
    /\ CanSubmit(r)
    /\ nextSequence' = [nextSequence EXCEPT ![r] = s + 1]
    /\ \/ Async /\ queued' = [queued EXCEPT ![r] = @ \cup {s}] /\ UNCHANGED parked
       \/ ~Async /\ parked' = [parked EXCEPT ![r] = {s}] /\ UNCHANGED queued
    /\ inFlight' = inFlight + 1
    /\ fate' = [fate EXCEPT ![r][s] = "out"]
    /\ UNCHANGED backend

SubmitFails_Counted(r) ==
    /\ CanSubmit(r)
    /\ nextSequence' = [nextSequence EXCEPT ![r] = @ + 1]
    /\ fate' = [fate EXCEPT ![r][nextSequence[r]] = "refused"]
    /\ inFlight' = inFlight + 1
    /\ UNCHANGED <<backend, queued, parked>>

\* submit: the backend refused (input count, copy, request, run); the sequence
\* is spent, the counter is not moved
SubmitFails(r) ==
    /\ CanSubmit(r)
    /\ nextSequence' = [nextSequence EXCEPT ![r] = @ + 1]
    /\ fate' = [fate EXCEPT ![r][nextSequence[r]] = "refused"]
    /\ UNCHANGED <<backend, queued, parked, inFlight>>

\* the submission leaves the runtime, with its outputs or with an error
Complete(r, s, outcome) ==
    /\ s \in Outstanding(r)
    /\ queued' = [queued EXCEPT ![r] = @ \ {s}]
    /\ parked' = [parked EXCEPT ![r] = @ \ {s}]
    /\ inFlight' = Less(inFlight, 1)
    /\ fate' = [fate EXCEPT ![r][s] = outcome]
    /\ UNCHANGED <<backend, nextSequence>>

\* poll: Ready, for any submission the device has finished
PollReady(r, s) == Complete(r, s, "ready")

\* poll: the inference failed; only an asynchronous backend reports it here
PollError(r, s) == Async /\ Complete(r, s, "error")

Pairs(R) == {rs \in R \X Sequences : rs[2] \in Outstanding(rs[1])}

\* cancel on the runtimes of R: a backend drops all its requests, and the
\* counter follows only those it confirms; "refused" are the others
CancelAll(R, refused) ==
    /\ queued' = [r \in Runtimes |-> IF r \in R THEN {} ELSE queued[r]]
    /\ parked' = [r \in Runtimes |-> IF r \in R THEN {} ELSE parked[r]]
    /\ inFlight' = Less(inFlight, Cardinality(Pairs(R) \ refused))
    /\ fate' = [r \in Runtimes |-> [s \in Sequences |->
                  IF <<r, s>> \in refused THEN "unconfirmed"
                  ELSE IF <<r, s>> \in Pairs(R) THEN "cancelled" ELSE fate[r][s]]]
    /\ UNCHANGED <<backend, nextSequence>>

Refusals(R) == IF Async /\ backend.cancelMayFail THEN SUBSET Pairs(R) ELSE {{}}

-----------------------------------------------------------------------------
(* Types; a runtime never holds more submissions than it allows.           *)
RuntimeTypeOK ==
    /\ backend \in Backends
    /\ queued \in [Runtimes -> SUBSET Sequences]
    /\ parked \in [Runtimes -> SUBSET Sequences]
    /\ \A r \in Runtimes : Cardinality(Outstanding(r)) <= MaxInFlight
    /\ nextSequence \in [Runtimes -> 0 .. MaxSequence]
    /\ inFlight \in Nat
    /\ fate \in [Runtimes -> [Sequences -> {"unused", "out", "refused", "ready",
                              "error", "cancelled", "unconfirmed"}]]

Open(outcomes) == {rs \in Runtimes \X Sequences : fate[rs[1]][rs[2]] \in outcomes}

(* The shared counter is what the runtimes hold plus what a backend could  *)
(* not confirm as cancelled: a failed submit does not move it, and poll,   *)
(* error and cancel each finish a submission exactly once.                 *)
InFlightExact == inFlight = Cardinality(Open({"out", "unconfirmed"}))

=============================================================================
