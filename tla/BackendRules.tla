---------------------------- MODULE BackendRules ----------------------------
(***************************************************************************)
(* The pure part of the inference backends: which options a backend        *)
(* accepts, how a backend is configured and opened, and how data types,    *)
(* shapes and padded layouts are converted to a vendor's and back.         *)
(*                                                                         *)
(* A data type is its name, a shape its sequence of dimensions; a vendor's *)
(* data type is its code.                                                  *)
(***************************************************************************)
EXTENDS CoreRules

DataTypes == {"F4", "F8", "F16", "BF16", "F32", "F64", "U8", "U16", "U32", "U64",
              "I4", "I8", "I16", "I32", "I64", "F32x4"}

Bits(dtype) == CASE dtype \in {"F4", "I4"} -> 4
                 [] dtype \in {"F8", "U8", "I8"} -> 8
                 [] dtype \in {"F16", "BF16", "U16", "I16"} -> 16
                 [] dtype \in {"F32", "U32", "I32"} -> 32
                 [] dtype \in {"F64", "U64", "I64"} -> 64
                 [] dtype = "F32x4" -> 128
Bytes(dtype) == bytes_per_element_ceil([bits |-> Bits(dtype), lanes |-> 1])

\* The key of a value in a one-to-one table.
KeyOf(table, v) == IF v \in Range(table) THEN CHOOSE k \in DOMAIN table : table[k] = v ELSE Err
Lookup(table, k) == IF k \in DOMAIN table THEN table[k] ELSE Err

-----------------------------------------------------------------------------
(* Capabilities (capabilities.rs)                                          *)

Common == {"F32", "F16", "U8", "I8", "U32", "I32"}
Caps(precisions, devices, modes) ==
    [precisions |-> precisions, devices |-> devices, deploy_modes |-> modes]
backend_capabilities ==
    [Mock     |-> Caps(DataTypes \ {"F64", "F32x4"},
                       {"Cpu", "IntelGpu", "IntelNpu", "CudaGpu", "RknnNpu", "SophonTpu"}, {"SoC", "Host"}),
     OpenVINO |-> Caps(Common \cup {"BF16", "U16", "I16", "U64", "I64"},
                       {"Cpu", "IntelGpu", "IntelNpu"}, {"Host"}),
     Rknn     |-> Caps(Common \cup {"U16", "I16"}, {"RknnNpu"}, {"SoC"}),
     TensorRt |-> Caps(Common, {"CudaGpu"}, {"Host"}),
     Sophon   |-> Caps(Common, {"SophonTpu"}, {"SoC", "Host"})]

\* supports_precision, supports_device, supports_deployment, of a table or of
\* what a probe found.
Supports(caps, o) ==
    /\ o.precision \in caps.precisions \cup {None}
    /\ o.device \in caps.devices \cup {None}
    /\ o.deploy_mode \in caps.deploy_modes \cup {None}

from_static(kind) == backend_capabilities[kind] @@
                     [execution_mode |-> "NonInterruptible", records |-> <<>>]

FirstOrNone(s) == IF s = <<>> THEN None ELSE s[1]
\* device_capabilities: the first record of the kind, and of the id if one is named.
device_capabilities(caps, kind, id) ==
    FirstOrNone(SelectSeq(caps.records, LAMBDA r : r.kind = kind /\ id \in {None, r.logical_id}))

-----------------------------------------------------------------------------
(* Configuration (option.rs, configure_* of the backends). A configuration *)
(* is [model, options, precision, device, deploy_mode, core_mask], its     *)
(* options None or a function from option names; model is a file or None.  *)

\* A null value is an empty object; unknown names are refused.
parse_options(config, known) ==
    IF config.options = None THEN << >>
    ELSE IF DOMAIN config.options \subseteq known THEN config.options ELSE Err

require_model_file(config) == IF config.model = None THEN Err ELSE config.model

into_runtime_option(config, kind, model, options) ==
    [backend |-> kind, model |-> model, precision |-> config.precision, device |-> config.device,
     deploy_mode |-> config.deploy_mode, zero_copy |-> FALSE, external |-> FALSE, options |-> options]

Option(params, name, default) == IF name \in DOMAIN params THEN params[name] ELSE default
Clamp(n) == Max({1, Min({n, 64})})

WithFile(config, kind, params, Options(_)) ==
    IF params = Err \/ require_model_file(config) = Err THEN Err
    ELSE into_runtime_option(config, kind, config.model, Options(params))

configure_rknn(config) ==
    WithFile(config, "Rknn", parse_options(config, {"enable_zero_copy", "dynamic_shape"}),
             LAMBDA p : [of |-> "Rknn", core_mask |-> config.core_mask])

configure_sophon(config) ==
    WithFile(config, "Sophon", parse_options(config, {"device_id"}),
             LAMBDA p : [of |-> "Sophon", deploy_mode |-> Or(config.deploy_mode, "Host"),
                         device_id |-> Option(p, "device_id", None)])

configure_tensorrt(config) ==
    WithFile(config, "TensorRt",
             parse_options(config, {"device_id", "workspace_size_mb", "enable_fp16", "enable_int8"}),
             LAMBDA p : [of |-> "TensorRt", device_id |-> Option(p, "device_id", None)])

DeviceNames == [Cpu |-> "CPU", IntelGpu |-> "GPU", IntelNpu |-> "NPU"]
device_kind_to_string(kind) == Lookup(DeviceNames, kind)
\* The start of the name decides; the names of several devices of a kind
\* ("GPU.0", "GPU.1") are the kind's own here, with an id beside them.
NoneIfErr(v) == IF v = Err THEN None ELSE v
device_kind_from_name(name) == NoneIfErr(KeyOf(DeviceNames, name))

\* The graph's device and the option of the same name may not differ.
OpenVinoConfig(config, params, top) ==
    IF params = Err \/ top = Err THEN Err
    ELSE IF top # None /\ Option(params, "device", None) \notin {None, top} THEN Err
    ELSE WithFile(config, "OpenVINO", params,
                  LAMBDA p : [of |-> "OpenVINO", device |-> Or(top, Option(p, "device", "CPU")),
                              max_in_flight |-> Clamp(Option(p, "max_in_flight", 2))])
configure_openvino(config) ==
    OpenVinoConfig(config, parse_options(config, {"device", "max_in_flight"}),
                   IF config.device = None THEN None ELSE device_kind_to_string(config.device))

CONSTANT MaxMockDelay       \* MAX_MOCK_DELAY_MS

parse_delay_ms(ms) == IF ms > MaxMockDelay THEN Err ELSE ms
parse_dtype(name) == IF name \in DataTypes \ {"F32x4"} THEN name ELSE Err
parse_layout(name) ==
    IF name \in {"auto", "n", "nc", "nchw", "nhwc", "nc4hw", "nc8hw", "ncdhw", "oihw"} THEN name ELSE Err

MockParams == {"shape", "output_shape", "dtype", "output_dtype", "layout", "echo_inputs",
               "fill_value", "delay_ms", "delays_ms", "max_in_flight"}
\* The mock alone runs without a model.
MockConfig(config, p, shape, dtype, delay, delays) ==
    IF p = Err THEN Err
    ELSE IF \/ dtype = Err \/ parse_dtype(Option(p, "output_dtype", "F32")) = Err
            \/ parse_layout(Option(p, "layout", "nc")) = Err
            \/ delay # None /\ parse_delay_ms(delay) = Err
            \/ \E i \in 1..Len(delays) : parse_delay_ms(delays[i]) = Err
         THEN Err
    ELSE into_runtime_option(config, "Mock",
           IF config.model = None THEN [of |-> "Bytes", len |-> 0, ext |-> None, bin |-> None] ELSE config.model,
           [of |-> "Mock", ins |-> <<[dims |-> shape, dtype |-> dtype]>>,
            outs |-> <<[dims |-> Option(p, "output_shape", shape), dtype |-> Option(p, "output_dtype", dtype)]>>,
            echo |-> Option(p, "echo_inputs", TRUE), async |-> delay # None \/ delays # <<>>,
            max_in_flight |-> Clamp(Option(p, "max_in_flight", 1))])
MockFrom(config, p) ==
    MockConfig(config, p, Option(p, "shape", <<1, 4>>), parse_dtype(Option(p, "dtype", "F32")),
               Option(p, "delay_ms", None), Option(p, "delays_ms", <<>>))
configure_mock(config) == MockFrom(config, parse_options(config, MockParams))

\* A backend that is not compiled in has no descriptor.
configure_backend(name, config, registered) ==
    IF name \notin registered THEN Err
    ELSE CASE name = "Mock" -> configure_mock(config)
           [] name = "OpenVINO" -> configure_openvino(config)
           [] name = "Rknn" -> configure_rknn(config)
           [] name = "TensorRt" -> configure_tensorrt(config)
           [] name = "Sophon" -> configure_sophon(config)

-----------------------------------------------------------------------------
(* Opening a runtime (Runtime::new_with_metrics) up to the first native    *)
(* call. env is what the machine has: [registered, limit, live, cuda,      *)
(* compiled]. A model is [of, len, ext, bin]: "Bytes", or "File" with its  *)
(* extension and the size of the weights beside it.                        *)

\* A file whose size cannot be read, None, is left for the backend to refuse.
ensure_model_source_fits(model, limit) == model.len = None \/ model.len <= limit

load_bounded(model, limit) == IF model.len = None THEN Err ELSE IF model.len > limit THEN Err ELSE model.len

\* An IR model is two files, and both count.
read_model(model, limit) ==
    IF model.of = "File" /\ model.ext = "xml"
      THEN IF model.len = None \/ model.bin = None THEN Err
           ELSE IF SaturatingAdd(model.len, model.bin) > limit THEN Err ELSE model.len + model.bin
      ELSE load_bounded(model, limit)

RknnOpens(o, env) == Supports(backend_capabilities["Rknn"], o) /\ o.options.of = "Rknn"
                     /\ load_bounded(o.model, env.limit) # Err /\ o.model.len <= U32Max

validate_options(o) ==
    /\ Supports(backend_capabilities["Sophon"], o)
    /\ o.deploy_mode \in {None, o.options.deploy_mode}
    /\ o.options.deploy_mode \in backend_capabilities["Sophon"].deploy_modes
validate_deploy_mode(o, compiled) == o.options.deploy_mode = compiled
SophonOpens(o, env) == /\ o.options.of = "Sophon" /\ validate_options(o) /\ validate_deploy_mode(o, env.compiled)
                       /\ load_bounded(o.model, env.limit) # Err

select_device(o, cuda) == cuda > 0 /\ (o.options.device_id = None \/ o.options.device_id < cuda)
TrtOpens(o, env) == /\ Supports(backend_capabilities["TensorRt"], o) /\ o.options.of = "TensorRt"
                    /\ select_device(o, env.cuda) /\ load_bounded(o.model, env.limit) # Err

MockOpens(o) == Supports(backend_capabilities["Mock"], o) /\ o.options.of = "Mock"

\* parse_device_capabilities: the tokens that name a precision.
CapabilityNames == [FP32 |-> "F32", FP16 |-> "F16", BF16 |-> "BF16", U8 |-> "U8", I8 |-> "I8", U16 |-> "U16",
                    I16 |-> "I16", I32 |-> "I32", U32 |-> "U32", I64 |-> "I64", U64 |-> "U64"]
precision_from_capability(token) == Option(CapabilityNames, token, None)
parse_device_capabilities(tokens) == {precision_from_capability(t) : t \in tokens} \ {None}

\* live: the devices OpenVINO reports, [name, id, tokens, range, advertised].
DeviceRecord(d) ==
    [kind |-> device_kind_from_name(d.name), logical_id |-> d.id, async_capable |-> d.range /\ d.advertised,
     precisions |-> parse_device_capabilities(d.tokens)]
LiveCapabilities(records) ==
    [devices |-> {r.kind : r \in ToSet(records)}, deploy_modes |-> {"Host"},
     precisions |-> UNION {r.precisions : r \in ToSet(records)}, records |-> records,
     execution_mode |-> IF records # <<>> /\ \A r \in ToSet(records) : r.async_capable
                        THEN "NativeAsync" ELSE "BoundedSync"]
probe_live_capabilities(live) ==
    LiveCapabilities(SelectSeq([i \in DOMAIN live |-> DeviceRecord(live[i])], LAMBDA r : r.kind # None))

check_host_memory_contract(o) == ~o.zero_copy /\ ~o.external

DeviceName(o) == IF o.device # None THEN device_kind_to_string(o.device) ELSE o.options.device
TargetFits(target, precision) ==
    target # None /\ (precision # None /\ target.precisions # {} => precision \in target.precisions)
LiveDeviceFits(live, kind, precision) ==
    kind # None /\ TargetFits(device_capabilities(probe_live_capabilities(live), kind, None), precision)

OpenVinoOpens(o, env) ==
    /\ check_host_memory_contract(o) /\ o.options.of = "OpenVINO"
    /\ Supports(backend_capabilities["OpenVINO"], o)
    /\ LiveDeviceFits(env.live, device_kind_from_name(DeviceName(o)), o.precision)
    /\ read_model(o.model, env.limit) # Err

Opens(o, env) == CASE o.backend = "Mock" -> MockOpens(o)
                   [] o.backend = "Rknn" -> RknnOpens(o, env)
                   [] o.backend = "Sophon" -> SophonOpens(o, env)
                   [] o.backend = "TensorRt" -> TrtOpens(o, env)
                   [] o.backend = "OpenVINO" -> OpenVinoOpens(o, env)

MockProbe(o) == [devices |-> {"Cpu"}, precisions |-> {"F32"}, deploy_modes |-> {"Host"},
                 execution_mode |-> IF o.options.async THEN "NativeAsync" ELSE "BoundedSync",
                 records |-> <<[kind |-> "Cpu", logical_id |-> "mock-0", async_capable |-> o.options.async,
                                precisions |-> {"F32"}]>>]

probe_capabilities(o, env) ==
    CASE o.backend = "OpenVINO" -> probe_live_capabilities(env.live)
      [] o.backend = "Mock" -> MockProbe(o)
      [] o.backend = "TensorRt" -> [from_static("TensorRt") EXCEPT !.devices = IF env.cuda = 0 THEN {} ELSE @]
      [] OTHER -> from_static(o.backend)

new_with_metrics_Unprobed(o, env) ==
    IF /\ Supports(backend_capabilities[o.backend], o)
       /\ ensure_model_source_fits(o.model, env.limit) /\ o.backend \in env.registered
       /\ Opens(o, env)
    THEN probe_capabilities(o, env) ELSE Err

Probed(caps, o) == IF Supports(caps, o) THEN caps ELSE Err
new_with_metrics(o, env) ==
    IF /\ Supports(backend_capabilities[o.backend], o)
       /\ ensure_model_source_fits(o.model, env.limit) /\ o.backend \in env.registered
       /\ Opens(o, env)
    THEN Probed(probe_capabilities(o, env), o) ELSE Err
-----------------------------------------------------------------------------
(* Data types and shapes of the vendors                                    *)

RknnTypes == [F32 |-> "FLOAT32", F16 |-> "FLOAT16", I8 |-> "INT8", U8 |-> "UINT8",
              I16 |-> "INT16", U16 |-> "UINT16", I32 |-> "INT32", U32 |-> "UINT32"]
dtype_to_rknn(dtype) == Lookup(RknnTypes, dtype)
dtype_from_rknn(type) == KeyOf(RknnTypes, type)
bytes_per_element_for_rknn(type) == IF dtype_from_rknn(type) = Err THEN Err ELSE Bytes(dtype_from_rknn(type))

layout_from_rknn(fmt) == IF fmt \in {"NCHW", "NHWC"} THEN fmt ELSE None
layout_to_rknn(layout) == IF layout \in {"NCHW", "NHWC"} THEN layout ELSE Err

SophonCodes == <<"F32", "F16", "I8", "U8", "I16", "U16", "I32", "U32", "BF16">>
from_code(code) == IF code \in 0..8 THEN SophonCodes[code + 1] ELSE Err
from_data_type(dtype) == IF dtype \in ToSet(SophonCodes) THEN KeyOf(SophonCodes, dtype) - 1 ELSE Err
bytes_per_element(code) == CASE from_code(code) \in {"I8", "U8"} -> 1
                             [] from_code(code) \in {"F16", "BF16", "I16", "U16"} -> 2
                             [] OTHER -> 4

TrtCodes == <<"F32", "F16", "I8", "I32", Err, "U8", "F8", "BF16", "I64", "I4">>
trt_dtype_to_datatype(code) == IF code \in 0..9 THEN TrtCodes[code + 1] ELSE Err

map_element_type(dtype) == IF dtype \in {"F32", "F16", "BF16", "U8", "I8", "U16", "I16", "I32", "U32", "I64", "U64"}
                           THEN dtype ELSE Err
map_data_type(type) == IF type \in {"F32", "F16", "BF16", "U8", "I8", "U16", "I16", "I32", "U32", "I64", "U64"}
                       THEN type ELSE Err

CONSTANTS MaxDims,      \* BM_MAX_DIMS, TRT_MAX_DIMS, dims of rknn_tensor_attr
          MaxIo         \* MAX_SOPHON_IO_COUNT and its like

\* A fixed array of dimensions of a signed or an unsigned machine integer.
bm_shape_dims(dims) ==
    IF Len(dims) > MaxDims \/ \E i \in 1..Len(dims) : dims[i] > U32Max \div 2 THEN Err
    ELSE [n |-> Len(dims), dims |-> [i \in 1..MaxDims |-> IF i <= Len(dims) THEN dims[i] ELSE 0]]

shape_from_bm(s) ==
    IF s.n \notin 0..MaxDims THEN Err
    ELSE IF \E i \in 1..s.n : s.dims[i] < 0 THEN Err ELSE SubSeq(s.dims, 1, s.n)

byte_size(code, dims) == CheckedMul(element_count(dims), bytes_per_element(code))

collect_infos(codes, shapes) ==
    IF codes = <<>> THEN <<>>
    ELSE IF Len(codes) > MaxIo \/ \E i \in 1..Len(codes) : from_code(codes[i]) = Err \/ shape_from_bm(shapes[i]) = Err
      THEN Err
    ELSE [i \in 1..Len(codes) |-> [dims |-> shape_from_bm(shapes[i]), dtype |-> from_code(codes[i])]]

shape_to_dims(dims) ==
    IF Len(dims) > MaxDims \/ \E i \in 1..Len(dims) : dims[i] > UMax \div 2 THEN Err ELSE dims
dims_to_shape(dims) ==
    IF Len(dims) > MaxDims \/ \E i \in 1..Len(dims) : dims[i] < 0 THEN Err ELSE dims
\* An open dimension, -1, becomes 1.
engine_dims_to_shape(dims) ==
    IF Len(dims) > MaxDims \/ \E i \in 1..Len(dims) : dims[i] < -1 THEN Err
    ELSE [i \in 1..Len(dims) |-> IF dims[i] = -1 THEN 1 ELSE dims[i]]
shape_matches_engine_dims(dims, engine) ==
    Len(dims) = Len(engine) /\ \A i \in 1..Len(dims) : engine[i] \in {-1, dims[i]}

\* tensor: [dtype, dims, len]
validate_inputs(tensors, bindings) ==
    /\ Len(tensors) = Len(bindings)
    /\ \A i \in 1..Len(tensors) :
         /\ tensors[i].dtype = bindings[i].dtype
         /\ shape_matches_engine_dims(tensors[i].dims, bindings[i].dims)
         /\ tensors[i].len = storage_bytes_for_shape([bits |-> Bits(bindings[i].dtype), lanes |-> 1], tensors[i].dims)

\* port: [known, dims, type]; a port of an open shape gives -1 for its open dimensions.
tensor_info_from_port(port) ==
    IF map_data_type(port.type) = Err \/ (\E i \in 1..Len(port.dims) : port.dims[i] < IF port.known THEN 0 ELSE -1)
      THEN Err
    ELSE [dims |-> [i \in 1..Len(port.dims) |-> IF port.dims[i] = -1 THEN 1 ELSE port.dims[i]],
          dtype |-> port.type]
-----------------------------------------------------------------------------
(* Padded layouts of RKNN (io.rs)                                          *)

quantization_from_rknn(q) ==
    CASE q.type = "NONE" -> [scheme |-> "None", zero |-> <<>>]
      [] q.type = "DFP" -> [scheme |-> "DynamicFixedPoint", zero |-> <<q.fl>>]
      [] q.type = "AFFINE" /\ q.scale > 0 -> [scheme |-> "AffineAsymmetric", zero |-> <<q.zp>>]
      [] OTHER -> Err

\* None when rows are not padded.
strides_from_w_stride(dims, layout, w_stride) ==
    IF w_stride = 0 \/ Len(dims) # 4 \/ layout \notin {"NCHW", "NHWC"} THEN None
    ELSE IF w_stride = (IF layout = "NCHW" THEN dims[4] ELSE dims[3]) THEN None
    ELSE LET inner == IF layout = "NCHW" THEN w_stride ELSE CheckedMul(w_stride, dims[4])
             s == IF layout = "NCHW"
                  THEN <<CheckedMul(CheckedMul(dims[2], dims[3]), w_stride), CheckedMul(dims[3], w_stride), w_stride, 1>>
                  ELSE <<CheckedMul(dims[2], inner), inner, dims[4], 1>>
         IN  IF Err \in ToSet(s) THEN Err ELSE s

validated_layout(dims, strides) ==
    Len(dims) > 0 /\ Len(dims) = Len(strides) /\ 0 \notin ToSet(dims) /\ Last(strides) = 1

\* The bytes up to the end of the last element.
padded_byte_len(dims, strides, size) ==
    IF ~validated_layout(dims, strides) THEN Err
    ELSE CheckedMul(size, FoldLeft(CheckedAdd, 1, [i \in 1..Len(dims) |-> CheckedMul(dims[i] - 1, strides[i])]))

\* for_each_run: where a run of the innermost dimension is in the padded
\* bytes, for every run in the order of the contiguous ones. Runs are counted
\* by an odometer over the outer dimensions, the last the fastest.
Runs(dims, strides, size) ==
    LET outer == Front(dims)
        After(i) == FoldLeft(LAMBDA a, d : a * d, 1, SubSeq(outer, i + 1, Len(outer)))
    IN  [n \in 1..element_count(outer) |->
           FoldLeft(+, 0, [i \in 1..Len(outer) |-> (((n - 1) \div After(i)) % outer[i]) * strides[i] * size])]

LogicalBytes(dims, size) == CheckedMul(element_count(dims), size)

\* Byte p of the padded bytes comes from byte b of the contiguous ones.
pad_bytes(bytes, dims, strides, size) ==
    LET len == padded_byte_len(dims, strides, size) IN
    IF len = Err \/ LogicalBytes(dims, size) = Err \/ LogicalBytes(dims, size) # Len(bytes) THEN Err
    ELSE LET run == Last(dims) * size
             Write(acc, n) == [p \in DOMAIN acc |->
                                 LET at == p - Runs(dims, strides, size)[n] IN
                                 IF at \in 1..run THEN bytes[(n - 1) * run + at] ELSE acc[p]]
         IN  FoldLeft(Write, [p \in 1..len |-> 0], [n \in 1..Len(Runs(dims, strides, size)) |-> n])

depad_bytes(padded, dims, strides, size) ==
    LET len == padded_byte_len(dims, strides, size) IN
    IF len = Err \/ LogicalBytes(dims, size) = Err THEN Err
    ELSE IF Len(padded) < len THEN Err
    ELSE LET run == Last(dims) * size
         IN  [b \in 1..LogicalBytes(dims, size) |->
                padded[Runs(dims, strides, size)[(b - 1) \div run + 1] + ((b - 1) % run) + 1]]

\* attr: [n, dims, type, fmt, w_stride, qnt]
shape_from_attr(attr) == IF attr.n \in 0..MaxDims THEN SubSeq(attr.dims, 1, attr.n) ELSE Err

tensor_info_from_attr(attr) ==
    LET dims    == shape_from_attr(attr)
        layout  == layout_from_rknn(attr.fmt)
    IN  IF dims = Err \/ dtype_from_rknn(attr.type) = Err \/ quantization_from_rknn(attr.qnt) = Err THEN Err
        ELSE LET strides == IF layout = None THEN None ELSE strides_from_w_stride(dims, layout, attr.w_stride)
             IN  IF strides = Err THEN Err
                 ELSE [dims |-> dims, dtype |-> dtype_from_rknn(attr.type), layout |-> layout, strides |-> strides]

update_attr_shape(attr, dims) ==
    IF Len(dims) > MaxDims \/ (\E i \in 1..Len(dims) : dims[i] > U32Max) \/ bytes_per_element_for_rknn(attr.type) = Err
      THEN Err
    ELSE LET n == element_count(dims) IN
         IF n = Err THEN Err
         ELSE IF n > U32Max \/ n * bytes_per_element_for_rknn(attr.type) > U32Max THEN Err
         ELSE [attr EXCEPT !.n = Len(dims), !.dims = [i \in 1..MaxDims |-> IF i <= Len(dims) THEN dims[i] ELSE 0]]

-----------------------------------------------------------------------------
(* The mock's answer (mock.rs): [dims, dtype] per input and output         *)

InfoBytes(info) == storage_bytes_for_shape([bits |-> Bits(info.dtype), lanes |-> 1], info.dims)

\* Equal counts of inputs and outputs change together.
MockReshape(m, shapes) ==
    IF Len(shapes) # Len(m.ins) THEN Err
    ELSE LET ins == [i \in 1..Len(m.ins) |-> [m.ins[i] EXCEPT !.dims = shapes[i]]]
         IN  [m EXCEPT !.ins = ins, !.outs = IF Len(@) = Len(ins) /\ m.echo THEN ins ELSE @]

\* inputs: their sizes in bytes.
produce_outputs(m, inputs) ==
    IF \/ Len(inputs) # Len(m.ins)
       \/ \E i \in 1..Len(m.outs) :
            InfoBytes(m.outs[i]) = Err \/ (m.echo /\ i <= Len(inputs) /\ inputs[i] # InfoBytes(m.outs[i]))
    THEN Err ELSE [i \in 1..Len(m.outs) |-> InfoBytes(m.outs[i])]
-----------------------------------------------------------------------------
(* Numerical regression (regression.rs): values are integers, Inf for one  *)
(* that is not finite.                                                     *)

CONSTANT Inf

validate_case(c) ==
    /\ c.inputs # <<>> /\ c.expected # <<>>
    /\ c.absolute >= 0 /\ c.relative >= 0
    /\ \A t \in ToSet(c.inputs \o c.expected) : element_count(t.dims) = Len(t.values)

Product(u, v) == FoldLeft(+, 0, [i \in 1..Len(u) |-> u[i] * v[i]])
\* The cosine as [dot, norm], norm the product of the squared norms; None if there is none.
cosine(u, v) ==
    IF Len(u) # Len(v) \/ u = <<>> \/ Inf \in ToSet(u) \cup ToSet(v) THEN None
    ELSE IF Product(u, u) * Product(v, v) # 0 THEN [dot |-> Product(u, v), norm |-> Product(u, u) * Product(v, v)]
    ELSE IF u = v THEN [dot |-> 1, norm |-> 1] ELSE None

\* Tolerances are whole numbers, a cosine threshold is None, 0 or 1.
CosineOk(cos, threshold) ==
    CASE threshold = None -> TRUE [] threshold = 0 -> cos.dot >= 0
      [] threshold = 1 -> cos.dot > 0 /\ cos.dot * cos.dot >= cos.norm

Abs(n) == IF n < 0 THEN -n ELSE n

RegressionRun(c, outputs) ==
    validate_case(c) /\ Len(outputs) = Len(c.expected)
    /\ \A i \in 1..Len(outputs) :
         /\ outputs[i].dims = c.expected[i].dims
         /\ cosine(outputs[i].values, c.expected[i].values) # None
         /\ \A k \in 1..Len(outputs[i].values) :
              /\ LET want == c.expected[i].values[k]
                     off  == Abs(outputs[i].values[k] - want)
                 IN  off <= c.absolute \/ off <= c.relative * Abs(want)
              /\ CosineOk(cosine(outputs[i].values, c.expected[i].values), c.cosine)
-----------------------------------------------------------------------------
(* Latency histogram (metrics.rs)                                          *)

CONSTANT Bounds         \* BUCKET_BOUNDS_NS, ascending; the last takes the rest

bucket_index(ns) ==
    IF \E i \in DOMAIN Bounds : ns <= Bounds[i]
    THEN CHOOSE i \in DOMAIN Bounds : ns <= Bounds[i] /\ \A k \in 1..i - 1 : ns > Bounds[k]
    ELSE Len(Bounds)

percentile_from_histogram(cumulative, count, percent) ==
    LET target == Max({1, Min({(count * Min({percent, 100}) + 99) \div 100, count})})
        over   == {i \in DOMAIN cumulative : cumulative[i] >= target}
    IN  Bounds[IF over = {} THEN Len(Bounds) ELSE Min(over)]

\* LatencyHistogram: record and snapshot
snapshot(latencies) ==
    LET cumulative == [i \in DOMAIN Bounds |-> Cardinality({k \in DOMAIN latencies : bucket_index(latencies[k]) <= i})]
        P(percent) == percentile_from_histogram(cumulative, Len(latencies), percent)
    IN  IF latencies = <<>> THEN None
        ELSE [p50 |-> P(50), p95 |-> P(95), p99 |-> P(99), max |-> Max(ToSet(latencies))]
=============================================================================
