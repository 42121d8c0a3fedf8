------------------------------ MODULE Backends ------------------------------
(***************************************************************************)
(* The three backends that drive a vendor library by hand: RKNN, Sophon    *)
(* and TensorRT. A call is a row of native calls, each of which may fail;  *)
(* what a failure leaves behind is what the module is about. Native        *)
(* objects are owned by the backend's fields, by values of the call under  *)
(* way that are dropped when it returns, or by nobody.                     *)
(*                                                                         *)
(* A backend is used by one thread at a time (&mut self), is initialised   *)
(* once, and is dropped when that fails (Runtime::new_with_metrics,        *)
(* dg_backend_create).                                                     *)
(***************************************************************************)
EXTENDS Naturals, FiniteSets, SequencesExt

CONSTANTS Kinds,        \* which backends: a subset of {"rknn", "sophon", "tensorrt", "openvino"}
          Ins, Outs,    \* inputs and outputs of the model
          Shapes,       \* input shapes, as their sizes; the shape of the outputs follows
          ModelShape,   \* the one the model is loaded with
          MaxCalls      \* bound on the calls after init

None == 0     \* no shape

ASSUME SizesAssumption == Ins \in Nat \ {0} /\ Outs \in Nat \ {0}
                          /\ Shapes \subseteq Nat \ {None} /\ ModelShape \in Shapes
                          /\ Kinds \subseteq {"rknn", "sophon", "tensorrt", "openvino"}
                          /\ MaxCalls \in Nat

VARIABLES kind,
          live,      \* native objects that exist: [type, n]
          held,      \* those in fields, in the order Drop releases them
          mems,      \* io_mems: [objs, shape]
          infos,     \* [ins, outs, shape, out]: how many infos there are, and the shapes they say
          opts,      \* [zero_copy, dynamic] of RknnOptions
          failed,    \* zero_copy_failed
          native,    \* the input shape the native object has
          room,      \* the size of the output memory of the run under way, as a shape
          local,     \* objects owned by values of the call under way, oldest first
          raw,       \* objects the call under way holds without an owner
          dying,     \* objects on their way to be released, in this order
          inUse,     \* objects the device works with
          stage,     \* where the call under way is, and which call
          arg,       \* the shape it is given
          done,      \* the answer of the last call: [call, ok, outs, shape, room, by]: the shape its
                     \* outputs say, that of the memory they are copied from, and the call that asked for them
          broken,    \* the last reshape failed
          calls

backendVars == <<kind, live, held, mems, infos, opts, failed, native, room, local, raw, dying, inUse,
                 stage, arg, done, broken, calls>>
\* What nearly every step leaves alone.
fixed == <<kind, opts, room>>

Infos(i, o, s) == [ins |-> i, outs |-> o, shape |-> s, out |-> s]
NoInfos == Infos(0, 0, None)
NoMems == [objs |-> <<>>, shape |-> None]

BackendInit ==
    /\ kind \in Kinds
    /\ opts \in IF kind = "rknn" THEN [zero_copy : BOOLEAN, dynamic : BOOLEAN]
                ELSE {[zero_copy |-> FALSE, dynamic |-> TRUE]}
    /\ live = {} /\ held = <<>> /\ mems = NoMems /\ infos = NoInfos /\ failed = FALSE
    /\ native = None /\ room = None /\ local = <<>> /\ raw = <<>> /\ dying = <<>> /\ inUse = {}
    /\ stage = <<"new", "init">> /\ arg = None /\ broken = FALSE /\ calls = 0
    /\ done = [call |-> "none", ok |-> TRUE, outs |-> 0, shape |-> None, room |-> None, by |-> 0]

\* The name of a new object: none that exists has it.
Fresh(type) == CHOOSE o \in [type : {type}, n : 1..Cardinality(live) + 1] : o \notin live

At(place) == stage[1] = place /\ dying = <<>>
Doing(call) == At(kind) /\ stage[2] = call
Go(place) == stage' = <<place, stage[2]>>

\* A call returns: its values are dropped, the newest first; what it holds
\* without an owner is forgotten.
Answer(ok, outs, shape, size, asked) ==
    /\ done' = [call |-> stage[2], ok |-> ok, outs |-> outs, shape |-> shape, room |-> size, by |-> asked]
    /\ broken' = IF stage[2] = "reshape" THEN ~ok ELSE broken
    /\ Go(IF stage[2] = "init" /\ ~ok THEN "drop" ELSE "idle")
    /\ dying' = dying \o Reverse(local) /\ local' = <<>> /\ raw' = <<>>
Return(ok, outs, shape) == Answer(ok, outs, shape, shape, calls)
Fail == Return(FALSE, 0, None)

\* A native call makes an object that a value of the call owns, or fails.
Create(type, next) ==
    \/ /\ live' = live \cup {Fresh(type)} /\ local' = Append(local, Fresh(type)) /\ Go(next)
       /\ UNCHANGED <<raw, dying, done, broken>>
    \/ Fail /\ UNCHANGED live

\* Values are dropped one by one.
Release == /\ dying # <<>>
           /\ live' = live \ {Head(dying)} /\ dying' = Tail(dying)
           /\ UNCHANGED <<fixed, held, mems, infos, failed, native, local, raw, inUse, stage, arg, done, broken, calls>>

\* init: the options and the model are checked before any native call.
InitCall == /\ At("new")
            /\ \/ Go(kind) /\ UNCHANGED <<local, raw, dying, done, broken>>
               \/ Fail
            /\ arg' = ModelShape
            /\ UNCHANGED <<fixed, live, held, mems, infos, failed, native, inUse, calls>>

\* run and reshape, with one shape for all inputs; OpenVINO has more.
Calls == {"run", "reshape"} \cup (IF kind = "openvino" THEN {"submit", "poll", "cancel"} ELSE {})
Call == /\ At("idle") /\ calls < MaxCalls
        /\ \E c \in Calls, s \in Shapes : stage' = <<kind, c>> /\ arg' = s
        /\ calls' = calls + 1
        /\ UNCHANGED <<fixed, live, held, mems, infos, failed, native, local, raw, dying, inUse, done, broken>>

\* Mutant: the context goes before its buffers.
Drop_ContextFirst ==
    /\ dying = <<>> /\ stage[1] \in {"idle", "drop"}
    /\ dying' = held \o mems.objs /\ held' = <<>> /\ mems' = NoMems /\ Go("dropped")
    /\ UNCHANGED <<fixed, live, infos, failed, native, local, raw, inUse, arg, done, broken, calls>>

\* The io_mems go before the context, and every object after what uses it.
Drop == /\ dying = <<>> /\ stage[1] \in {"idle", "drop"}
        /\ dying' = mems.objs \o held /\ held' = <<>> /\ mems' = NoMems /\ Go("dropped")
        /\ UNCHANGED <<fixed, live, infos, failed, native, local, raw, inUse, arg, done, broken, calls>>
-----------------------------------------------------------------------------
(* RKNN *)

rknn_init ==
    /\ kind = "rknn" /\ Doing("init")
    /\ \/ /\ live' = live \cup {Fresh("context")} /\ raw' = <<Fresh("context")>> /\ Go("core_mask")
          /\ UNCHANGED <<local, dying, done, broken>>
       \/ Fail /\ UNCHANGED live
    /\ UNCHANGED <<fixed, held, mems, infos, failed, native, inUse, arg, calls>>

\* The context is in no field yet: an error here forgets it.
set_core_mask ==
    /\ At("core_mask")
    /\ \/ /\ held' = raw /\ raw' = <<>> /\ native' = ModelShape /\ Go("count")
          /\ UNCHANGED <<local, dying, done, broken>>
       \/ Fail /\ UNCHANGED <<held, native>>
    /\ UNCHANGED <<fixed, live, mems, infos, failed, inUse, arg, calls>>

\* refresh_io_info: the buffers of the old shape go first, then the infos are
\* asked for one by one.
refresh_counts ==
    /\ At("count")
    /\ \/ /\ dying' = mems.objs /\ mems' = NoMems /\ failed' = FALSE /\ infos' = NoInfos /\ Go("attrs")
          /\ UNCHANGED <<local, raw, done, broken>>
       \/ Fail /\ UNCHANGED <<mems, infos, failed>>
    /\ UNCHANGED <<fixed, live, held, native, inUse, arg, calls>>

refresh_attrs ==
    /\ At("attrs")
    /\ \E i \in 0..Ins, o \in 0..Outs :
         /\ o > 0 => i = Ins
         /\ infos' = Infos(i, o, native)
         /\ IF o = Outs THEN Return(TRUE, 0, native) ELSE Fail
    /\ UNCHANGED <<fixed, live, held, mems, failed, native, inUse, arg, calls>>

set_input_shapes ==
    /\ kind = "rknn" /\ Doing("reshape")
    /\ \/ /\ infos.ins = Ins /\ (opts.dynamic \/ arg = infos.shape)
          /\ native' = arg /\ Go("count")
          /\ UNCHANGED <<local, raw, dying, done, broken>>
       \/ Fail /\ UNCHANGED native
    /\ UNCHANGED <<fixed, live, held, mems, infos, failed, inUse, arg, calls>>

select_io_path == IF opts.zero_copy /\ ~failed THEN "zero_copy" ELSE "staging"

RknnRun ==
    /\ kind = "rknn" /\ Doing("run")
    /\ \/ infos.ins # Ins /\ Fail
       \/ /\ infos.ins = Ins
          /\ Go(CASE mems # NoMems -> "zero_copy"
                [] mems = NoMems /\ select_io_path = "zero_copy" -> "bind"
                [] OTHER -> "staging")
          /\ UNCHANGED <<local, raw, dying, done, broken>>
    /\ UNCHANGED <<fixed, live, held, mems, infos, failed, native, inUse, arg, calls>>

\* setup_zero_copy: one buffer after the other is created and bound. An error
\* drops the ones there are, and the call goes on with copies.
setup_zero_copy ==
    /\ At("bind")
    /\ \/ /\ live' = live \cup {Fresh("mem")}
          /\ LET got == Append(local, Fresh("mem")) IN
             IF Len(got) < infos.ins + infos.outs
               THEN local' = got /\ UNCHANGED <<mems, stage>>
               ELSE local' = <<>> /\ mems' = [objs |-> got, shape |-> infos.shape] /\ Go("zero_copy")
          /\ UNCHANGED <<failed, dying>>
       \/ /\ \/ live' = live /\ dying' = local
             \/ live' = live \cup {Fresh("mem")} /\ dying' = <<Fresh("mem")>> \o local
          /\ local' = <<>> /\ failed' = TRUE /\ Go("staging") /\ UNCHANGED mems
    /\ UNCHANGED <<fixed, held, infos, native, raw, inUse, arg, done, broken, calls>>

\* An input may be smaller than its buffer, never larger (write_bytes).
run_zero_copy ==
    /\ At("zero_copy")
    /\ \/ arg <= mems.shape /\ Return(TRUE, infos.outs, mems.shape)
       \/ Fail
    /\ UNCHANGED <<fixed, live, held, mems, infos, failed, native, inUse, arg, calls>>

\* run_staging: rknn_inputs_set, rknn_run and rknn_outputs_get; the outputs
\* belong to the library and have to be given back.
staging_outputs ==
    /\ At("staging")
    /\ \/ /\ live' = live \cup {Fresh("outputs")} /\ raw' = <<Fresh("outputs")>> /\ Go("copy")
          /\ UNCHANGED <<local, dying, done, broken>>
       \/ Fail /\ UNCHANGED live
    /\ UNCHANGED <<fixed, held, mems, infos, failed, native, inUse, arg, calls>>

\* A null buffer and a wrong size give the outputs back, an allocation or a
\* write that fails does not; after the copies they are given back.
staging_copy ==
    /\ At("copy")
    /\ \/ Fail /\ UNCHANGED live
       \/ /\ live' = live \ ToSet(raw)
          /\ \/ Fail
             \/ infos.out = native /\ Return(TRUE, infos.outs, native)
    /\ UNCHANGED <<fixed, held, mems, infos, failed, native, inUse, arg, calls>>

Rknn == \/ rknn_init \/ set_core_mask \/ set_input_shapes \/ RknnRun
        \/ refresh_counts \/ refresh_attrs
        \/ setup_zero_copy \/ run_zero_copy \/ staging_outputs \/ staging_copy
-----------------------------------------------------------------------------
(* Sophon *)

\* Mutant: the runtime is kept once its model is loaded, not before.
Keep_AfterCheck(at, type, next) ==
    /\ At(at) /\ stage[2] = "init"
    /\ \/ /\ live' = live \cup {Fresh(type)} /\ held' = <<Fresh(type)>> \o held /\ Go(next)
          /\ UNCHANGED <<local, raw, dying, done, broken>>
       \/ Fail /\ UNCHANGED held /\ live' = live \cup {Fresh(type)}
    /\ UNCHANGED <<fixed, mems, infos, failed, native, inUse, arg, calls>>

\* What bm_dev_request and bmrt_create return goes to a field at once.
Keep(at, type, next) ==
    /\ At(at) /\ stage[2] = "init"
    /\ \/ /\ live' = live \cup {Fresh(type)} /\ held' = <<Fresh(type)>> \o held /\ Go(next)
          /\ UNCHANGED <<local, raw, dying, done, broken>>
       \/ Fail /\ UNCHANGED <<live, held>>
    /\ UNCHANGED <<fixed, mems, infos, failed, native, inUse, arg, calls>>
bm_dev_request == Keep("sophon", "handle", "bmrt")
bmrt_create == Keep("bmrt", "bmrt", "load")

\* bmrt_load_bmodel_data and the first checks; bmrt_get_network_names makes
\* an array for its caller to free.
load_bmodel ==
    /\ At("load")
    /\ Create("names", "discover")
    /\ UNCHANGED <<fixed, held, mems, infos, failed, native, raw, inUse, arg, calls>>

\* discover_network: freed before anything else can fail; the infos are set
\* together, at the end.
discover_network ==
    /\ At("discover")
    /\ \/ infos' = Infos(Ins, Outs, ModelShape) /\ native' = ModelShape
          /\ Return(TRUE, 0, ModelShape)
       \/ Fail /\ UNCHANGED <<infos, native>>
    /\ UNCHANGED <<fixed, live, held, mems, failed, inUse, arg, calls>>

\* Only the shapes of the input infos are replaced, those of the outputs stay;
\* the launch takes the shapes of the tensors it is given. A wrong number of
\* shapes is refused.
SophonReshape ==
    /\ kind = "sophon" /\ Doing("reshape")
    /\ \/ infos' = [infos EXCEPT !.shape = arg] /\ Return(TRUE, 0, arg)
       \/ Fail /\ UNCHANGED infos
    /\ UNCHANGED <<fixed, live, held, mems, failed, native, inUse, arg, calls>>

\* A buffer per input, filled with the bytes of its tensor.
SophonRun ==
    /\ kind = "sophon" /\ Doing("run")
    /\ Create("buffer", IF Len(local) + 1 < Ins THEN kind ELSE "alloc_out")
    /\ UNCHANGED <<fixed, held, mems, infos, failed, native, inUse, arg, calls>>

\* One per output, of the size its info says.
alloc_outputs ==
    /\ At("alloc_out")
    /\ Create("buffer", IF Len(local) + 1 < Ins + Outs THEN "alloc_out" ELSE "launch")
    /\ room' = infos.out
    /\ UNCHANGED <<kind, opts, held, mems, infos, failed, native, inUse, arg, calls>>

\* The launch is asynchronous; the outputs have the shape it reports.
launch_tensor ==
    /\ At("launch")
    /\ \/ inUse' = ToSet(local) /\ native' = arg /\ Go("sync")
          /\ UNCHANGED <<local, raw, dying, done, broken>>
       \/ Fail /\ UNCHANGED <<native, inUse>>
    /\ UNCHANGED <<fixed, live, held, mems, infos, failed, arg, calls>>

\* bm_thread_sync, cudaStreamSynchronize: an error is reported when the work
\* has ended. The outputs are copied after it, as much as there is memory, to
\* host buffers of the shape the launch or the context says.
synchronize ==
    /\ At("sync") /\ inUse' = {}
    /\ Answer(TRUE, Outs, native, room, calls) \/ Fail
    /\ UNCHANGED <<fixed, live, held, mems, infos, failed, native, arg, calls>>

Sophon == bm_dev_request \/ bmrt_create \/ load_bmodel \/ discover_network
          \/ SophonReshape \/ SophonRun \/ alloc_outputs \/ launch_tensor
-----------------------------------------------------------------------------
(* TensorRT *)

\* Runtime, engine and execution context, one after the other in values of
\* the call; select_device comes before.
TrtObject(at, type, next) ==
    /\ At(at) /\ stage[2] = "init"
    /\ Create(type, next)
    /\ UNCHANGED <<fixed, held, mems, infos, failed, native, inUse, arg, calls>>
runtime_create == TrtObject("tensorrt", "runtime", "engine")
deserialize == TrtObject("engine", "engine", "ctx")
create_context == TrtObject("ctx", "execution", "bindings")

\* inspect_bindings and binding_infos; the input infos are set before the
\* output infos are made; the objects move to their fields at the end.
inspect_bindings ==
    /\ At("bindings")
    /\ \/ /\ held' = Reverse(local) /\ local' = <<>> /\ native' = ModelShape
          /\ infos' = Infos(Ins, Outs, ModelShape)
          /\ done' = [call |-> "init", ok |-> TRUE, outs |-> 0, shape |-> ModelShape,
                      room |-> ModelShape, by |-> calls]
          /\ Go("idle")
          /\ UNCHANGED <<raw, dying, broken>>
       \/ /\ infos' \in {infos, [infos EXCEPT !.ins = Ins, !.shape = ModelShape]}
          /\ Fail /\ UNCHANGED <<held, native>>
    /\ UNCHANGED <<fixed, live, mems, failed, inUse, arg, calls>>

\* The shapes are set input by input, then the infos change.
TrtReshape ==
    /\ kind = "tensorrt" /\ Doing("reshape")
    /\ \/ /\ native' = arg /\ infos' = [infos EXCEPT !.shape = arg] /\ Go("outputs")
          /\ UNCHANGED <<local, raw, dying, done, broken>>
       \/ native' \in {native, arg} /\ Fail /\ UNCHANGED infos
    /\ UNCHANGED <<fixed, live, held, mems, failed, inUse, arg, calls>>

\* The context says what shape the outputs have now; one that is still open
\* is refused.
refresh_output_infos ==
    /\ At("outputs")
    /\ \/ infos' = [infos EXCEPT !.out = native] /\ Return(TRUE, 0, arg)
       \/ Fail /\ UNCHANGED infos
    /\ UNCHANGED <<fixed, live, held, mems, failed, native, inUse, arg, calls>>

\* run: a stream, then per input its shape, a buffer, the copy and the
\* address, then per output its shape, a buffer and the address.
CudaStream ==
    /\ kind = "tensorrt" /\ Doing("run")
    /\ Create("stream", "bind_in")
    /\ UNCHANGED <<fixed, held, mems, infos, failed, native, inUse, arg, calls>>

set_input_shape ==
    /\ At("bind_in")
    /\ native' \in {native, arg}
    /\ \/ native' = arg /\ Create("buffer", IF Len(local) < Ins THEN "bind_in" ELSE "bind_out")
       \/ Fail /\ UNCHANGED live
    /\ UNCHANGED <<fixed, held, mems, infos, failed, inUse, arg, calls>>

set_tensor_address ==
    /\ At("bind_out")
    /\ Create("buffer", IF Len(local) < Ins + Outs THEN "bind_out" ELSE "enqueue")
    /\ room' = native
    /\ UNCHANGED <<kind, opts, held, mems, infos, failed, native, inUse, arg, calls>>

enqueue ==
    /\ At("enqueue")
    /\ \/ inUse' = ToSet(local) /\ Go("sync") /\ UNCHANGED <<local, raw, dying, done, broken>>
       \/ Fail /\ UNCHANGED inUse
    /\ UNCHANGED <<fixed, live, held, mems, infos, failed, native, arg, calls>>

TensorRt == runtime_create \/ deserialize \/ create_context \/ inspect_bindings
            \/ TrtReshape \/ refresh_output_infos
            \/ CudaStream \/ set_input_shape \/ set_tensor_address \/ enqueue
-----------------------------------------------------------------------------
BackendNext == Release \/ InitCall \/ Call \/ Drop \/ Rknn \/ Sophon \/ synchronize \/ TensorRt

BackendTypeOK ==
    /\ kind \in Kinds /\ calls \in 0..MaxCalls
    /\ native \in Shapes \cup {None} /\ failed \in BOOLEAN /\ broken \in BOOLEAN
    /\ infos.ins \in 0..Ins /\ infos.outs \in 0..Outs
    /\ ToSet(held) \cup ToSet(mems.objs) \cup ToSet(local) \cup ToSet(raw) \cup ToSet(dying) \cup inUse
           \subseteq live

\* Which objects have to be there as long as one is.
NeedsOf(backend, type) ==
    CASE type \in {"mem", "outputs"} -> {"context"}
      [] type \in {"bmrt", "names"} -> {"handle"}
      [] type = "execution" -> {"engine"}
      [] type = "engine" -> {"runtime"}
      [] type = "buffer" /\ backend = "sophon" -> {"handle"}
      [] OTHER -> {}
Needs(o) == NeedsOf(kind, o.type)

\* Objects that exist and that nothing will release.
Orphans == live \ (ToSet(held) \cup ToSet(mems.objs) \cup ToSet(local) \cup ToSet(raw) \cup ToSet(dying))

(* An object is released once, when nothing that needs it is left and the  *)
(* device has ended its work with it, whichever native call of init,       *)
(* reshape or run failed and whenever the backend is dropped: io_mems      *)
(* before their context, the execution context before its engine before    *)
(* its runtime, the buffers of a run after its synchronisation (field      *)
(* order and Drop of the three backends).                                  *)
ReleasedInOrder ==
    [][\A o \in live \ live' :
         /\ o \notin inUse'
         /\ \A u \in live' \ Orphans : o.type \notin Needs(u)]_backendVars

(* A native object has an owner that will release it, on every error path  *)
(* but two of RKNN: a context whose core mask is refused (backend.rs:225), *)
(* and the outputs of a run whose copy to the host fails (backend.rs:525). *)
OnlyKnownLeaks ==
    \A o \in Orphans : kind = "rknn" /\ (o.type = "outputs" \/ (o.type = "context" /\ held = <<>>))

(* A run that succeeds answers with all outputs of the model, of the shape *)
(* the native object has at that time, out of memory of that size: nothing *)
(* of an earlier shape, no info, buffer or binding, survives a reshape     *)
(* (refresh_io_info, refresh_output_infos). Two backends fall short of it. *)
(* After a reshape that failed half way RKNN goes on with the infos it     *)
(* has, and promises nothing. Sophon's reshape and run leave the output    *)
(* infos alone, so its output memory keeps the size of the model's own     *)
(* shape (backend.rs:418), whatever the launch made of it: the copy to the *)
(* host, which is as long as the memory (464), fits the host buffer only   *)
(* when a run has the model's shape. An OpenVINO request has a shape of    *)
(* its own, which is that of the infos.                                    *)
SoundRuns ==
    /\ stage[1] = "idle" /\ done.ok /\ ~(kind = "rknn" /\ broken)
    /\ done.call = "run" \/ (done.call = "poll" /\ done.outs > 0)
    =>
        /\ done.outs = Outs
        /\ done.shape = IF kind = "openvino" THEN infos.shape ELSE native
        /\ done.room = IF kind = "sophon" THEN ModelShape ELSE done.shape
=============================================================================
