------------------------------ MODULE OpenVino ------------------------------
(***************************************************************************)
(* The OpenVINO backend: a pool of inference requests beside the compiled  *)
(* model. A request is taken for every submission, is in flight until a    *)
(* poll finds it ended, and goes back to the pool; it has the shape of the *)
(* model it was made from. The device ends requests in any order, at any   *)
(* time. The calls are those of Backends, and submit, poll and cancel.     *)
(***************************************************************************)
EXTENDS Backends

CONSTANT MaxRequests        \* max_in_flight

ASSUME MaxRequestsAssumption == MaxRequests \in 1..64

VARIABLES free,       \* free_requests: their shapes
          flight,     \* in_flight: [by, shape, state], by the call that submitted it
          model       \* the shape of the model that is compiled next

poolVars == <<free, flight, model>>
allVars == <<backendVars, poolVars>>

OvVarsInit == free = <<>> /\ flight = <<>> /\ model = None

Copies(n, shape) == [i \in 1..n |-> shape]

\* The model is read and compiled, its ports are asked for, then the requests
\* are made; the rest goes to the fields at the end.
OvInit ==
    /\ kind = "openvino" /\ Doing("init")
    /\ \/ /\ free' = Copies(MaxRequests, ModelShape) /\ model' = ModelShape /\ native' = ModelShape
          /\ infos' = Infos(Ins, Outs, ModelShape) /\ Return(TRUE, 0, ModelShape)
       \/ /\ \E n \in 0..MaxRequests - 1 : free' = Copies(n, ModelShape)
          /\ Fail /\ UNCHANGED <<model, native, infos>>
    /\ UNCHANGED <<fixed, live, held, mems, failed, inUse, arg, calls, flight>>

\* fill_input_tensors: the bytes of an input have the size its info says.
fill_input_tensors == infos.ins = Ins /\ arg = infos.shape

\* take_free_request: the shape of the request, and the pool without it. A
\* new one is made of the compiled model while there are too few.
take_free_request ==
    IF free # <<>> THEN {[shape |-> Last(free), rest |-> Front(free)]}
    ELSE IF Len(flight) < MaxRequests THEN {[shape |-> native, rest |-> <<>>]} ELSE {}

\* run submits and then polls until a request has ended. A
\* request that refuses its inputs, or cannot be started, is dropped.
submit ==
    /\ kind = "openvino" /\ (Doing("submit") \/ Doing("run"))
    /\ \/ Fail /\ UNCHANGED <<free, flight>>
       \/ /\ fill_input_tensors
          /\ \E r \in take_free_request :
               /\ free' = r.rest
               /\ \/ Fail /\ UNCHANGED flight
                  \/ /\ r.shape = arg
                     /\ flight' = Append(flight, [by |-> calls, shape |-> arg, state |-> "busy"])
                     /\ IF stage[2] = "submit" THEN Return(TRUE, 0, arg)
                        ELSE Go("run_poll") /\ UNCHANGED <<local, raw, dying, done, broken>>
    /\ UNCHANGED <<fixed, live, held, mems, infos, failed, native, inUse, arg, calls, model>>

\* copy_output_tensors: the outputs have the size the output infos say.
copy_output_tensors(request) == infos.outs = Outs /\ infos.out = request.shape

\* The first request in the list that has ended, well or not, is taken: also
\* by a run, which does not look at whose it is (its own sequence is 0). One
\* whose outputs cannot be asked for goes back to the pool, one whose outputs
\* cannot be copied is dropped.
poll ==
    /\ kind = "openvino" /\ (Doing("poll") \/ At("run_poll"))
    /\ LET ended == {i \in DOMAIN flight : flight[i].state # "busy"} IN
       \/ /\ ended = {} /\ stage[2] = "poll" /\ Return(TRUE, 0, None) /\ UNCHANGED <<free, flight>>
       \/ /\ ended # {}
          /\ LET at == CHOOSE i \in ended : \A j \in ended : i <= j
                 request == flight[at]
             IN  /\ flight' = RemoveAt(flight, at)
                 /\ \/ free' = Append(free, request.shape) /\ Fail
                    \/ Fail /\ UNCHANGED free
                    \/ /\ copy_output_tensors(request)
                       /\ free' = Append(free, request.shape)
                       /\ Answer(TRUE, infos.outs, request.shape, request.shape, request.by)
    /\ UNCHANGED <<fixed, live, held, mems, infos, failed, native, inUse, arg, calls, model>>

\* The requests are cancelled and dropped; the pool fills up again on demand.
cancel ==
    /\ kind = "openvino" /\ Doing("cancel")
    /\ flight' = <<>> /\ Return(TRUE, 0, None)
    /\ UNCHANGED <<fixed, live, held, mems, infos, failed, native, inUse, arg, calls, free, model>>

\* Refused while a request is in flight. The model is reshaped and the pool
\* emptied before the model is compiled.
OvReshape ==
    /\ kind = "openvino" /\ Doing("reshape")
    /\ \/ Fail /\ UNCHANGED <<free, model>>
       \/ /\ flight = <<>> /\ model' = arg /\ free' = <<>>
          /\ Go("compile") /\ UNCHANGED <<local, raw, dying, done, broken>>
    /\ UNCHANGED <<fixed, live, held, mems, infos, failed, native, inUse, arg, calls, flight>>

\* An error while the requests are made leaves some of them in the pool, of
\* the new shape beside the old compiled model and the old infos; an error
\* while the outputs are asked for leaves their old infos.
OvCompile ==
    /\ At("compile")
    /\ \/ /\ free' = free \o Copies(MaxRequests, model) /\ native' = model
          /\ \/ infos' = Infos(Ins, Outs, model) /\ Return(TRUE, 0, model)
             \/ infos' \in {infos, [infos EXCEPT !.shape = model]} /\ Fail
       \/ /\ \E n \in 0..MaxRequests - 1 : free' = free \o Copies(n, model)
          /\ Fail /\ UNCHANGED <<native, infos>>
    /\ UNCHANGED <<fixed, live, held, mems, failed, inUse, arg, calls, flight, model>>

\* The device ends a request.
Ended == /\ \E i \in DOMAIN flight : flight[i].state = "busy" /\ flight' = [flight EXCEPT ![i].state = "ended"]
         /\ UNCHANGED <<backendVars, free, model>>

OpenVINO == OvInit \/ submit \/ poll \/ cancel \/ OvReshape \/ OvCompile \/ Ended
-----------------------------------------------------------------------------
OvStart == BackendInit /\ OvVarsInit

OvSpec == OvStart /\ [][(BackendNext /\ UNCHANGED poolVars) \/ OpenVINO]_allVars

(* The pool never has more requests than max_in_flight, in flight and free *)
(* together, whichever submissions fail and lose theirs and whatever is    *)
(* cancelled; a free request, and one in flight, is of the shape of the    *)
(* compiled model unless the last reshape failed half way; and a request   *)
(* in flight has the shape of its inputs and of the infos then too: a      *)
(* reshape never overtakes a submission (take_free_request, reshape).      *)
PoolIsSound ==
    /\ Len(free) + Len(flight) <= MaxRequests
    /\ ~broken /\ stage[1] = "idle" => \A i \in DOMAIN free : free[i] = native
    /\ \A i \in DOMAIN flight : flight[i].shape = infos.shape

(* A run answers with its own outputs, but for OpenVINO while submissions  *)
(* are in flight: its polling takes the first request that has ended       *)
(* (backend.rs:868), which may be that of an earlier submit or run; its    *)
(* own stays in flight then, for a later poll or run to take.              *)
RunsAnswerTheirOwn ==
    stage[1] = "idle" /\ done.call = "run" /\ done.ok
    => \/ done.by = calls
       \/ kind = "openvino" /\ done.by < calls /\ \E i \in DOMAIN flight : flight[i].by = calls

(* Whatever call failed before: nothing is forgotten but the known leaks,  *)
(* a run that succeeds is right but for the cases SoundRuns and            *)
(* RunsAnswerTheirOwn name, and requests are as many as allowed.           *)
FailuresAreContained ==
    BackendTypeOK /\ OnlyKnownLeaks /\ SoundRuns /\ RunsAnswerTheirOwn /\ PoolIsSound
=============================================================================
