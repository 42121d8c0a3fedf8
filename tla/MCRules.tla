------------------------------- MODULE MCRules -------------------------------
(***************************************************************************)
(* The arguments the rules are evaluated on: for each rule a small product *)
(* of values on both sides of every limit and branch of its code.          *)
(***************************************************************************)
EXTENDS Rules

MCBounds == <<1, 2, 5, 10>>
MCOsdLim == [boxes |-> 2, color |-> 3, thickness |-> 2]

Tb(d) == [num |-> 1, den |-> d]
Extra(of, vps, sps, pps, nal, record) ==
    [of |-> of, vps |-> vps, sps |-> sps, pps |-> pps, nal |-> nal, record |-> record]
Plain == Extra("None", 0, 0, 0, 0, None)
Track(id, kind, codec, rate, x) ==
    [track |-> id, kind |-> kind, codec |-> codec, clock_rate |-> rate, readiness |-> "Ready",
     extradata |-> x, dims |-> {}]

KindOf(c) == IF c \in {"AAC", "ADPCM", "Opus", "G711A", "G711U", "MP2", "MP3"} THEN "Audio" ELSE "Video"

Frames == {[track |-> t, kind |-> KindOf(c), codec |-> c, format |-> f, pts |-> 3, dts |-> 2,
            timebase |-> tb, key |-> k, size |-> s] :
             t \in {0, U32Max + 1}, c \in StreamCodecs, tb \in {Tb(90), Tb(8), Tb(0)}, k \in BOOLEAN, s \in {4, 5},
             f \in StreamFormats}

RelayCases ==
    {[frame |-> f, tracks |-> ts, max |-> 4] : f \in Frames,
       ts \in {{}, {Track(0, "Video", "H264", 90, Plain)},
               {Track(0, "Video", "H265", 90, Extra("H265", 1, 1, 1, 2, None)),
                Track(1, "Audio", "AAC", 8, Extra("AAC", 0, 0, 0, 0, 2))},
               {Track(0, "Audio", "AAC", 8, Plain)}, {Track(0, "Video", "H264", 0, Plain)}}}

EncodedInfos ==
    {[timing |-> [pts |-> p, dts |-> 2, time_base |-> tb], encoded |-> TRUE,
      info |-> [index |-> 0, track |-> t, kind |-> "Video", codec |-> c, bitstream |-> b,
                key |-> k, configs |-> <<>>]] :
        p \in {None, 3}, tb \in {None, Tb(90)}, t \in {None, 1}, c \in {"H264", "Unknown", "Jpeg"},
        b \in {"H264AnnexB", "Unknown"}, k \in BOOLEAN}
ImageInfo == [timing |-> [pts |-> 3, dts |-> None, time_base |-> None], encoded |-> FALSE,
              info |-> [key |-> FALSE]]
Legacies == {[track |-> t, kind |-> "Video", codec |-> c, format |-> f, timebase |-> Tb(d), key |-> k] :
               t \in {0, 1}, c \in {"H264", "Opus", "Unknown"}, f \in {"CanonicalH26x", "OpusPacket"},
               d \in {0, 90}, k \in BOOLEAN}
NormalizeCases ==
    {[pts |-> p, dts |-> None, stream_id |-> None, tagged |-> FALSE, info |-> i, legacy |-> l] :
       p \in {None, 5}, l \in Legacies \cup {None},
       i \in {e \in EncodedInfos : encoded(e.info, e.timing) # Err} \cup {ImageInfo, None}}

Plane(o, l, s) == [offset |-> o, len |-> l, stride |-> s]
Rect(x, w) == [x |-> x, y |-> 0, width |-> w, height |-> 1]
Images ==
    {[image |-> [format |-> "Yuv420P", width |-> w, height |-> h,
                 planes |-> <<Plane(0, 6, s), Plane(6, l, 1), Plane(o, 2, 2)>>], size |-> 10] :
        w \in {0, 2, 3}, h \in 1..3, s \in 0..3, l \in 1..3, o \in 7..9}
    \cup {[image |-> [format |-> f, width |-> w, height |-> h, planes |-> <<Plane(o, l, s)>>], size |-> 10] :
            f \in {"Rgb24", "Rgba", "Gray8", "Nv12", "Unknown"}, w \in 1..2, h \in 1..3,
            o \in {0, 2, UMax}, l \in 4..10, s \in {0, 2, 4, 8, UMax \div 2 + 1}}
    \cup {[image |-> [format |-> "Nv12", width |-> 2, height |-> h, planes |-> <<Plane(0, 6, s), Plane(o, l, t)>>],
           size |-> 10] : h \in 1..4, s \in 1..3, o \in {4, 6, UMax}, l \in 2..4, t \in {1, 2, UMax}}
ImageCases ==
    {[image |-> c.image @@ [visible |-> Rect(0, c.image.width), crop |-> None], size |-> c.size] : c \in Images}
    \cup {[image |-> [format |-> "Gray8", width |-> 2, height |-> 1, planes |-> <<Plane(0, 2, 2)>>,
                       visible |-> Rect(x, w), crop |-> c], size |-> 2] :
            x \in {0, U32Max}, w \in {0, 2}, c \in {None, Rect(0, 1), Rect(1, U32Max)}}

AvImageCases == {[image |-> c.image @@ [pts |-> 3, dts |-> None], size |-> c.size] : c \in Images}
AvPacketCases ==
    {[index |-> 0, codec |-> c, bitstream |-> b, key |-> k, pts |-> 3, dts |-> d, time_base |-> tb] :
       c \in AvcodecCodecs \cup {"Opus"}, b \in AvcodecBitstreams \cup {"AacRaw"}, k \in BOOLEAN, d \in {None, 2},
       tb \in {None, Tb(90), Tb(0)}}

ConfigCases == {Extra(of, IF of = "H264" THEN 0 ELSE 1, s, p, nal, r) :
                  of \in ExtradataKinds, s \in 0..2, p \in 0..1,
                  nal \in {1, 8, UMax}, r \in {None, 0, 5, 40}}

BackoffCases ==
    {[retry |-> [initial |-> i, max |-> m, multiplier |-> k, jitter |-> j], attempt |-> a] :
       i \in {0, 1, 7, UMax}, m \in {0, 5, 20, UMax}, k \in {0, 1, 3}, j \in {0, 20, 100}, a \in 1..5}

Retry(i, m, k, j, n) == [initial |-> i, max |-> m, multiplier |-> k, jitter |-> j, attempts |-> n]
Url(scheme, path) == [scheme |-> scheme, userinfo |-> 1, path |-> path, query |-> 1, fragment |-> 1]
StreamArgs ==
    [pull |-> TRUE, protocol |-> "RtspPull", cheetah |-> TRUE, unknown |-> {}, url |-> Url("rtsp", TRUE), queue_capacity |-> 1,
     video |-> TRUE, audio |-> TRUE, backpressure |-> "DropUntilNextKeyframe", tracks |-> <<>>, retry |-> Retry(7, 20, 3, 100, 0)]
Announced == {[Track(id, KindOf(c), c, rate, x) EXCEPT !.readiness = r, !.dims = d] :
                id \in {0, U32Max + 1}, c \in {"H264", "H265", "AAC", "Opus"}, rate \in {0, 90}, r \in {"Ready", "Pending"},
                d \in {{}, {0, 2}},
                x \in {Plain, Extra("H264", 0, 1, 1, 2, None), Extra("H265", 0, 1, 1, 2, None), Extra("H265", 0, 0, 0, 0, 5),
                       Extra("AAC", 0, 0, 0, 0, 2), Extra("AAC", 0, 0, 0, 0, 0)}}
StreamCases ==
    {[StreamArgs EXCEPT !.pull = u, !.protocol = p, !.url = l, !.cheetah = c, !.retry = r, !.queue_capacity = q] :
       u \in BOOLEAN, p \in DOMAIN network_schemes, c \in BOOLEAN, q \in 0..1,
       l \in {Url(s, t) : s \in {"rtsp", "https", "rtmp", "whip", "mock", "ftp", None}, t \in BOOLEAN} \cup {None},
       r \in {Retry(7, 20, 3, 100, 0), Retry(7, 31, 3, 0, 0), Retry(7, 5, 1, 0, 0), Retry(0, 30, 0, 0, 0),
              Retry(1, 1, 1, 101, 0), Retry(1, 1, 1, 0, U32Max + 1)}}
    \cup {[StreamArgs EXCEPT !.unknown = k, !.video = v, !.audio = w, !.backpressure = b] :
             k \in {{}, {"speed"}}, v \in BOOLEAN, w \in BOOLEAN, b \in {"DisconnectOnOverflow", "Block"}}
    \cup {[StreamArgs EXCEPT !.pull = FALSE, !.protocol = "RtmpPush", !.url = Url("rtmp", TRUE), !.tracks = t] :
             t \in {<<a>> : a \in Announced} \cup {<<Track(0, "Audio", "Opus", 8, Plain), a>> : a \in Announced}
                  \cup {[i \in 1..3 |-> Track(i, "Audio", "Opus", 8, Plain)]}}

Domains == {"Host", "CudaDevice", "DmaBuf"}
Handles == {"HostBytes", "External", "Avcodec", "CheetahBytes"}
TransferCases ==
    {[from |-> f, to |-> t, handle |-> h, target_handle |-> th, layout |-> l, target_layout |-> 1,
      guard |-> g, staging |-> s] :
       f \in Domains, t \in Domains, h \in Handles, th \in Handles,
       l \in 1..2, g \in BOOLEAN, s \in BOOLEAN}

DeviceCases ==
    {[caps |-> [devices |-> d, deployments |-> {"Host", "SoC"}], device |-> v, mode |-> m, from |-> f] :
       d \in {{"Cpu", "CudaGpu", "RknnNpu", "SophonTpu"}, {"Cpu", "IntelGpu", "IntelNpu"}}, m \in {"Host", "SoC", "PCIe"},
       v \in {"Cpu", "CudaGpu", "RknnNpu", "SophonTpu", "IntelGpu", "IntelNpu"}, f \in Domains \cup {"MppBuffer"}}

MCElements ==
    [source |-> Kind({}, OutPort(None), {"shape", "device"}, {}, {"shape", "device"}),
     inference |-> Kind(InPort("u8"), OutPort("f32"), {"model", "backend", "device"}, {"model"},
                        {"model", "backend", "device"}),
     pass |-> Kind({Port("in", FALSE, None), Port("aux", FALSE, "u8")}, OutPort(None), {}, {}, {})]
    @@ ElementKinds @@ MediaKinds

Policy(f, n) == [[g \in PolicyFields |-> 9] EXCEPT ![f] = n]
Roomy == Policy("max_nodes", 9)
Node(name, kind, fields, template, params) ==
    [name |-> name, kind |-> kind, threads |-> None, sink |-> FALSE, fields |-> fields,
     template |-> template, params |-> params]
Edge(from, to, in) == [from |-> from, out |-> "out", to |-> Lit(to), in |-> in]

Ring == {"p", "q", "r"}
StructureCases ==
    {[spec |-> [DefaultSpec EXCEPT !.allow_cycles = cyc,
                  !.nodes = <<Node("p", "pass", << >>, None, << >>),
                              [Node("q", "pass", << >>, None, << >>) EXCEPT !.sink = sink],
                              [Node("r", "pass", << >>, None, << >>) EXCEPT !.threads = th]>>,
                  !.connections = <<Edge(Lit(e[1][1]), e[1][2], "in"), Edge(Lit(e[2][1]), e[2][2], "in"),
                                    Edge(Lit(e[3][1]), e[3][2], "aux")>>],
      policy |-> Policy("max_nodes", 3)] :
        cyc \in BOOLEAN, sink \in BOOLEAN, th \in {None, 0, 1, 2},
        e \in {<<x, y, z>> : x \in Ring \X Ring, y \in Ring \X Ring, z \in Ring \X Ring}}

\* A distributor, two branches and a converger, with a preprocessor behind it.
To(from, port, to, in) == [from |-> Lit(from), out |-> port, to |-> Lit(to), in |-> in]
BranchCases ==
    {[spec |-> [DefaultSpec EXCEPT
                  !.nodes = <<Node("s", "source", << >>, None, << >>), Node("d", "distributor", << >>, None, d),
                              Node("f", "filter", << >>, None, << >>), Node("c", "converger", << >>, None, << >>),
                              Node("y", y, << >>, None, << >>)>>,
                  !.connections = <<To("s", "out", "d", "in"), To("d", o, "f", "in"), To("f", "out", "c", i),
                                    To("d", "out7", "c", j), To("c", "out", "y", "in")>>],
      policy |-> Roomy] :
        d \in {<< >>, [strategy |-> Lit("broadcast")], [mode |-> Lit("drop")]}, o \in {"out0", "out8"},
        i \in {"in0", "in1"}, j \in {"in0", "in1", "in7"}, y \in DOMAIN ElementKinds}

ParamCases ==
    {[spec |-> [DefaultSpec EXCEPT !.variables = vs, !.templates = [t |-> tpl],
                  !.defaults = [named |-> def, detailed |-> FALSE],
                  !.nodes = <<Node("s", "source", << >>, None, << >>),
                              Node("i", "inference", f, t, p)>>,
                  !.connections = <<Edge(c, "i", "in")>>],
      policy |-> Policy("max_model_bytes", 3)] :
        vs \in {<< >>, <<Lit(2), Lit(4), Ref(4), Lit("s")>>, <<Ref(2), Lit(2), Lit("s")>>},
        tpl \in {[kind |-> "inference", params |-> [model |-> Ref(1), backend |-> Lit("t")]],
                 [kind |-> "inference", params |-> << >>], [kind |-> "nothing", params |-> << >>]},
        def \in {<< >>, [backend |-> Lit("d"), device |-> Lit("d"), precision |-> Lit("d")]},
        f \in {<< >>, [backend |-> Lit("f")], [precision |-> Lit("f")]}, t \in {None, "t", "u"},
        p \in {<< >>, [model |-> Lit(3)], [model |-> Ref(2), backend |-> Lit("n")], [model |-> Lit(4)]},
        c \in {Lit("s"), Ref(3), Lit("z")}}

LimitsCases == {Roomy, Policy("max_config_bytes", 6), Policy("max_include_count", 1), Policy("max_nodes", 0)}
LoadCases ==
    {[policy |-> hard,
      files |-> [root |-> [size |-> sz, inside |-> TRUE,
                           spec |-> [DefaultSpec EXCEPT !.includes = ri, !.limits = rl,
                                       !.nodes = <<Node("r", "source", << >>, None, << >>)>>]],
                 c |-> [size |-> 2, inside |-> TRUE,
                        spec |-> [DefaultSpec EXCEPT !.includes = ci, !.limits = cl, !.nodes = cn]],
                 g |-> [size |-> 2, inside |-> TRUE, spec |-> [DefaultSpec EXCEPT !.limits = cl]],
                 far |-> [size |-> 1, inside |-> FALSE, spec |-> DefaultSpec],
                 bad |-> [size |-> 1, inside |-> TRUE, spec |-> Err]]] :
        hard \in {Roomy, Policy("max_config_bytes", 6), Policy("max_include_depth", 1)},
        sz \in {2, 4, 7}, rl \in LimitsCases, cl \in LimitsCases,
        ri \in {<<>>, <<"c">>, <<"c", "c">>, <<"c", "g">>, <<"none">>, <<"far">>, <<"bad">>, <<"root">>},
        ci \in {<<>>, <<"g">>, <<"root">>},
        cn \in {<<>>, <<Node("c", "source", << >>, None, << >>)>>}}

PolicyCases == {[hard |-> Policy(f, n), requested |-> Policy(g, m)] :
                  f \in PolicyFields, g \in PolicyFields, n \in {0, 5}, m \in {0, 3, U32Max + 6}}

DimSeqs == UNION {[1..n -> {0, 1, 2, 3}] : n \in 0..3} \cup {<<60, 2>>, <<0, 60, 2>>, <<60, 2, 0>>}
TensorCases ==
    {[desc |-> [dims |-> d, strides |-> st, dtype |-> [bits |-> b, lanes |-> 1], device |-> "Cpu"],
      buffer |-> [device |-> v, len |-> l, storage |-> "Host", bytes |-> <<>>], dims |-> r] :
        d \in {<<>>, <<2, 3>>, <<3>>, <<2, 0>>}, st \in {None, <<3, 1>>, <<4, 1>>, <<1>>, <<2>>, <<0, 1>>},
        b \in {4, 8}, v \in {"Cpu", "CudaGpu"}, l \in 0..8,
        r \in DimSeqs}

NibbleCases == UNION {[1..n -> {-9, -8, -1, 0, 7, 8, 15}] : n \in 0..3}
AllocCases ==
    {[desc |-> [dims |-> d, strides |-> st, dtype |-> [bits |-> b, lanes |-> n], device |-> "Cpu"],
      policy |-> Policy("max_tensor_bytes", m)] :
        d \in DimSeqs, st \in {None, <<1>>, <<3, 1>>, <<5, 1>>, <<1, 4>>, <<4, 2, 1>>}, b \in {4, 16}, n \in 1..2, m \in {0, 3, 9}}

Buffers(n) == {from_host_bytes("Cpu", n, [i \in 1..n |-> i]), from_external_with_host_bytes("Cpu", n, [i \in 1..n |-> 10 + i]),
               from_external("Cpu", n)}
Filled == {[desc |-> [dims |-> <<n>>, strides |-> None, dtype |-> [bits |-> b, lanes |-> 1], device |-> "Cpu"], buffer |-> u] :
             n \in 0..4, b \in {4, 8}, u \in UNION {Buffers(k) : k \in 0..4}}
Tensors == {t \in Filled : from_buffer(t.desc, t.buffer) # Err}
CopyCases == {[src |-> s, dst |-> d] : s \in Tensors, d \in Tensors}

Deadlines == {[connect_ms |-> c, recv_poll_ms |-> 1, io_ms |-> 2, drain_ms |-> d, shutdown_ms |-> 3] : c \in 0..3, d \in 2..4}
ProcessCases ==
    {[resource |-> r, memory_pool |-> m, deadlines |-> d, affinity_ttl_seconds |-> a, affinity_capacity |-> c,
      metrics_serialization_bytes |-> 1,
      stream_registry |-> [max_streams |-> s, max_subscribers_per_stream |-> 1, max_bootstrap_bytes |-> 1,
                           max_bootstrap_frames |-> 1, idle_ttl_seconds |-> t]] :
        r \in {Roomy, Policy("max_nodes", 0), Policy("max_frame_bytes", U32Max), Policy("max_frame_bytes", U32Max + 1)},
        m \in BOOLEAN, d \in Deadlines, a \in 0..1, c \in {0, U32Max, U32Max + 1}, s \in 0..1, t \in {0, U32Max + 1}}

Kinds == DOMAIN backend_capabilities
File(len, ext, bin) == [of |-> "File", len |-> len, ext |-> ext, bin |-> bin]
Live(name, id, tokens) == [name |-> name, id |-> id, tokens |-> tokens, range |-> TRUE, advertised |-> TRUE]
Machine(live, cuda) == [registered |-> Kinds, limit |-> 5, live |-> live, cuda |-> cuda, compiled |-> "Host"]
Machines == {[Machine(<<>>, 2) EXCEPT !.registered = {"Mock"}], Machine(<<>>, 0),
             Machine(<<Live("CPU", "CPU", {"FP32", "I8", "EXPORT"}), Live("GPU", "GPU.0", {})>>, 2),
             Machine(<<Live("CPU", "CPU", {}), Live("FPGA", "FPGA", {"FP16"})>>, 2)}
OptionsOf(k) ==
    {None} \cup CASE k = "Mock" -> {[delay_ms |-> 4], [delay_ms |-> 99], [dtype |-> "F16"], [dtype |-> "F32x4"], [nothing |-> 1]}
                  [] k = "OpenVINO" -> {[device |-> "CPU", max_in_flight |-> 70], [device |-> "GPU"], [device |-> "FPGA"]}
                  [] k = "Sophon" -> {[device_id |-> 1], [enable |-> TRUE]}
                  [] k = "TensorRt" -> {[device_id |-> 1], [device_id |-> 2]}
                  [] OTHER -> {[dynamic_shape |-> TRUE]}
OpenCases(k) ==
    {[name |-> k, env |-> e,
      config |-> [model |-> m, options |-> o, precision |-> p, device |-> d, deploy_mode |-> dm, core_mask |-> None]] :
        e \in Machines, o \in OptionsOf(k), p \in {None, "F32", "U32", "I16", "F64"},
        m \in {None, File(None, None, None), File(6, "onnx", None), File(3, "xml", 2), File(3, "xml", 3)},
        d \in {None, "Cpu", "IntelGpu", "RknnNpu"}, dm \in {None, "Host", "SoC"}}

AttrCases ==
    {[n |-> n, dims |-> d, type |-> t, fmt |-> f, w_stride |-> w, qnt |-> q] :
       n \in {3, 4, 5}, d \in {<<1, 2, 2, 3, 0>>, <<2, 1, 3, 2, 0>>, <<1, 2, 0, 2, 0>>, <<1, 30, 30, 2, 0>>},
       t \in {"UINT8", "FLOAT16", "BOOL"}, f \in {"NCHW", "NHWC", "UNDEFINED"}, w \in 0..5,
       q \in {[type |-> y, fl |-> 3, zp |-> 1, scale |-> z] : y \in {"NONE", "DFP", "AFFINE", "OTHER"}, z \in 0..1}}

EngineDims == {<<>>, <<2>>, <<-1>>, <<-2>>, <<-1, 3>>, <<2, 3>>}
EngineCases ==
    {[tensors |-> ts, bindings |-> bs] :
       ts \in UNION {[1..n -> {[dtype |-> t, dims |-> d, len |-> l] : t \in {"U8", "F16"}, d \in {<<1>>, <<2>>, <<2, 3>>, <<4, 3>>},
                                 l \in {2, 6, 12}}] : n \in 0..1},
       bs \in UNION {[1..n -> {[dtype |-> t, dims |-> d] : t \in {"U8", "F16"}, d \in EngineDims \ {<<-2>>}}] : n \in 0..1}}
PortCases == {[known |-> k, dims |-> d, type |-> t] : k \in BOOLEAN, d \in EngineDims,
                t \in {map_element_type(u) : u \in DataTypes} \ {Err}}
InfoCases == {[codes |-> cs, shapes |-> [i \in DOMAIN cs |-> d]] :
                cs \in UNION {[1..n -> 0..9] : n \in 0..3}, 
                d \in {[n |-> n, dims |-> <<2, 3, z, 0, 0>>] : n \in {0, 1, 2, 3, 6}, z \in {-1, 0}}}

Info(d, t) == [dims |-> d, dtype |-> t]
MockCases ==
    {[mock |-> [ins |-> i, outs |-> o, echo |-> e], shapes |-> s, inputs |-> n] :
       i \in {<<Info(<<2>>, "U8")>>, <<Info(<<2>>, "U8"), Info(<<1>>, "F16")>>}, e \in BOOLEAN,
       o \in {<<Info(<<2>>, "U8")>>, <<Info(<<3>>, "I4"), Info(<<1>>, "U8")>>},
       s \in {<< <<2>> >>, << <<3>> >>, << <<2>>, <<1>> >>}, n \in {<<2>>, <<3>>, <<2, 2>>, <<>>}}

RegressCases ==
    {[case |-> [inputs |-> i, expected |-> <<[dims |-> <<2>>, values |-> v]>>, absolute |-> a, relative |-> r, cosine |-> c],
      outputs |-> <<[dims |-> d, values |-> u]>>] :
       i \in {<<>>, <<[dims |-> <<1>>, values |-> <<1>>]>>, <<[dims |-> <<2>>, values |-> <<1>>]>>}, a \in 0..1, r \in 0..1,
       c \in {None, 0, 1}, d \in {<<2>>, <<1>>}, v \in {<<0, 0>>, <<1, -2>>, <<0, 3>>},
       u \in {<<0, 0>>, <<1, -2>>, <<1, 2>>, <<0, 4>>, <<Inf, 0>>}}

LatencyCases == UNION {[1..n -> {1, 2, 5, 9, 20}] : n \in 1..4}

\* dg-elements
MCLim == [nms |-> 3, top_k |-> 5, ranked |-> 4, sizes |-> 3, anchors |-> 12, labels |-> 2, alphabet |-> 3,
          max_lost |-> 3, tracks |-> 3, detections |-> 3, pixels |-> 9, regions |-> 3, region |-> 5, rows |-> 5,
          classes |-> 4, exact |-> 20, url |-> 9, method |-> 5]
OsdBox(at, size) == [x |-> at, y |-> 0, width |-> size, height |-> size]
\* All parameter records whose fields have a value of m's, or none.
With(m) == FoldSet(LAMBDA f, ps : ps \cup {p @@ (f :> v) : p \in ps, v \in m[f]}, {<< >>}, DOMAIN m)
ParamsOf(k) ==
    CASE k = "yolo_preprocess" -> With([input_width |-> {0, 3, 30, Err}, input_height |-> {0, 2, 20}, depth |-> {1}])
      [] k = "resnet_preprocess" -> With([input_width |-> {0, 3, 30, Err}, input_height |-> {0, 2, 20},
              mean |-> {<<1, 2, 3>>, <<1>>, Err}, std |-> {<<1, 2, 3>>, <<1, 0, 1>>, <<1, Err, 1>>}])
      [] k = "yolo_postprocess" ->
              With([input_width |-> {3, 21}, class_count |-> {0, 2, 4, 5}, nms_threshold |-> {0, 100, 101}])
      [] k = "resnet_postprocess" -> With([top_k |-> {0, 5, 6}, labels |-> {<<>>, <<1, 1>>, <<1, 1, 1>>, Err}])
      [] k = "retinaface" -> With([image_width |-> {1, 8, 9}, image_height |-> {4, 13}, stride |-> {0, 3, 4},
              anchor_sizes |-> {<<>>, <<1>>, <<0>>, <<1, 1, 1>>, <<1, 1, 1, 1>>}])
      [] k = "bytetrack" -> With([max_lost |-> {0, 3, 4}, match_iou |-> {0, 101, Err}])
      [] k = "ppocr_det" -> With([threshold |-> {0, 101}])
      [] k = "ppocr_rec" ->
              With([alphabet |-> {<<>>, <<1>>, <<1, 2, 3>>, <<1, 2, 3, 4>>, Err}, blank_index |-> {0, 1, 3, 4}])
      [] k = "distributor" -> With([strategy |-> {"broadcast", "random"}])
      [] k = "filter" -> With([mode |-> {"drop", "random"}])
      [] k = "converger" -> With([mode |-> {1}]) \cup {None}
      [] k = "http_push" ->
              With([url |-> {[scheme |-> s, user |-> TRUE, tail |-> t, len |-> n, blank |-> FALSE] :
                              s \in {"http", "ftp"}, n \in {0, 9, 10},
                              t \in {<<>>, <<"/", "?", "#">>, <<"/", "#", "?">>, <<"/", "#">>}},
                    method |-> {[len |-> n, blank |-> b] : n \in {0, 5, 6}, b \in BOOLEAN}])

\* dg-media elements
Builds == {[compiled |-> c, legacy |-> l] : l \in BOOLEAN,
             c \in {{}, {"Software"}, {"AmfHost"}, {"NativeFree"}, {"Software", "NvcodecHostFallback"}, {"NativeFree", "AmfHost"}}}
Profiling == [profile |-> {"Software", "AmfHost", "Unheard", Err}, hw |-> {"Auto", "Amd", "Intel", "Unheard"}]
Coding == [bitrate |-> {0, 5, U32Max + 1}, time_base_num |-> {1}, time_base_den |-> {0, Err}]
MediaParamsOf(k) ==
    CASE k = "media_decode" -> With([profile |-> {"Software", "Unheard", Err}, hw |-> {"Auto", "Intel", "Unheard"},
                                     codec |-> {"H264", "Opus", Err}, width |-> {0, 2, Err}, drain_timeout_ms |-> {0, 4}])
                               \cup With([output_format |-> {"Nv12", "Nv21"}, memory_domain |-> {"Host", "SophonDevice"},
                                         bitstream_format |-> {"Av1Obu", "AacRaw"}, bitrate |-> {1}])
      [] k = "media_encode" -> With(Coding @@ [codec |-> {"H264", "Jpeg", "Opus"}]) \cup With(Profiling @@ [codec |-> {"Jpeg"}])
                               \cup With([drain_timeout_ms |-> {4, 5, Err}, encoder_format |-> {"Nv12"}, width |-> {1}])
      [] k = "media_transcode" -> With(Coding @@ [codec |-> {"Jpeg", "AV1"}, output_codec |-> {"MJPEG", Err}, width |-> {2}, height |-> {0, 2}])
                               \cup With(Profiling @@ [bitrate |-> {5}, width |-> {2, U32Max + 1}, height |-> {2}])
      [] k = "media_resize" -> With([width |-> {0, 2, 60}, height |-> {2, Err}, profile |-> {"Software", "Unheard"},
                                     drain_timeout_ms |-> {0, 4}, hw |-> {"Auto"}])
      [] k = "media_osd" -> With([boxes |-> {<<>>, <<OsdBox(0, 1)>>, <<OsdBox(1, 0)>>, <<OsdBox(UMax, 1)>>, <<OsdBox(1, Err)>>,
                                             <<OsdBox(0, 1), OsdBox(1, 1), OsdBox(2, 1)>>, Err},
                                  color |-> {<<>>, <<-1>>, <<-1, -2, -3, -4>>, <<Err>>}, thickness |-> {0, 2, 3, Err}, width |-> {1}])
MediaCases(k) ==
    {[kind |-> k, params |-> p, device |-> d, build |-> b] : p \in MediaParamsOf(k) \cup {None}, b \in Builds,
       d \in IF k \in {"media_resize", "media_osd"} THEN {None} ELSE {None, "CudaGpu", "SophonTpu"}}

Picture(h, w, n, extra) == [shape |-> <<h, w, n>>, values |-> [i \in 1..(h * w * n + extra) |-> i], readable |-> TRUE]
Pictures == {Picture(h, w, n, 0) : h \in 1..3, w \in 1..4, n \in 1..2} \cup {Picture(2, 2, 1, 1), Picture(0, 1, 1, 0)}
            \cup {[Picture(2, 2, 1, 0) EXCEPT !.readable = FALSE], [shape |-> <<4>>, values |-> <<1, 2, 3, 4>>, readable |-> TRUE]}
OpsCases ==
    {[kind |-> k[1], config |-> k[2], frames |-> fs] :
       fs \in {<<f>> : f \in Pictures} \cup {<<Picture(2, 2, 1, 0), f, Eos>> : f \in Pictures}
             \cup {<<Eos, Picture(2, 2, 1, 0)>>, <<>>},
       k \in {<<"media_decode", [height |-> 2, width |-> 2, channels |-> 1]>>, <<"media_encode", << >> >>}
            \cup {<<"media_resize", [height |-> h, width |-> w]>> : h \in 1..4, w \in 1..4}
            \cup {<<"media_osd", [boxes |-> b, color |-> c, thickness |-> t]>> : t \in 1..2, c \in {<<-1>>, <<-1, -2>>},
                     b \in {<<>>, <<OsdBox(0, 3)>>, <<OsdBox(1, 2), OsdBox(0, 1)>>, <<OsdBox(2, 9)>>, <<OsdBox(5, 1)>>}}}

Image(f, d, n, t) == [format |-> f, dims |-> d, dtype |-> t, readable |-> TRUE, values |-> [i \in 1..n |-> i]]
FitCases ==
    {[tensor |-> im, w |-> w, h |-> h, resnet |-> r] : w \in 1..5, h \in 1..4, r \in BOOLEAN,
       im \in {Image("NCHW", <<3, y, x>>, 3 * x * y, "U8") : x \in 1..4, y \in 1..3}
              \cup {Image("NHWC", <<1, y, x, 3>>, 3 * x * y, "F32") : x \in 1..4, y \in 1..3}
              \cup {Image("NCHW", <<1, 3, 1, 2>>, 7, "U8"), Image("NCHW", <<4, 1, 1>>, 4, "U8"), Image("NCHW", <<2, 2>>, 4, "U8"),
                    Image("NCHW", <<3, 1, 1>>, 3, "F16"), Image("NCHW", <<3, 0, 1>>, 0, "U8")}}

Box(x, w) == [x |-> x, y |-> 0, w |-> w, h |-> 2]
Boxes == {Box(0, 4), Box(1, 4), Box(3, 4), Box(0, 0)}
Detections == {[box |-> b, score |-> s, class |-> c] : b \in Boxes, s \in {40, 60}, c \in 0..1}
NmsCases == {[ds |-> d, percent |-> p, top |-> t] : p \in {0, 50, 101}, t \in {None, 0, 2, 9},
               d \in UNION {[1..n -> {e \in Detections : e.class = 0 \/ e.box = Box(1, 4)}] : n \in 0..3}
                    \cup {[i \in 1..4 |-> [box |-> Box(0, i), score |-> 9, class |-> 0]]}}
Row(f, o, c, x) == [finite |-> f, objectness |-> o, classes |-> c, box |-> Box(x, 3)]
BoxCases ==
    {[rows |-> r, spare |-> s, config |-> [confidence |-> 20, nms |-> 45], letterbox |-> b] :
       s \in 0..1, b \in {None, LetterboxNew(4, 3, 5, 5)},
       r \in UNION {[1..n -> {Row(f, o, c, x) : f \in BOOLEAN, o \in {10, 90}, c \in {<<30, 30>>, <<80, 20>>}, x \in {-2, 4}}] :
                      n \in 0..2}}
FaceCases ==
    {[rows |-> r, spare |-> s, anchors |-> 1, config |-> [score |-> 20, nms |-> 45]] : s \in 0..1,
       r \in UNION {[1..n -> {[finite |-> f, score |-> v, box |-> b] : f \in BOOLEAN, v \in {10, 30}, b \in Boxes}] : n \in 0..2}}
    \cup {[rows |-> r, spare |-> 0, anchors |-> 4, config |-> [score |-> 20, nms |-> 45]] :
             r \in [1..4 -> {[finite |-> TRUE, score |-> v, box |-> b] : v \in {20, 30}, b \in {Box(0, 4), Box(3, 4)}}]}
RankCases == {[values |-> v, k |-> k] : k \in 0..6, v \in UNION {[1..n -> 1..3] : n \in 0..4}}

Sight(x, c) == [box |-> Box(x, 4), score |-> 50, class |-> c]
Sights == UNION {[1..n -> {Sight(0, 0), Sight(1, 0), Sight(9, 0)}] : n \in 0..2}
TrackCases ==
    {[config |-> [max_lost |-> l, match |-> m], frames |-> f] : l \in 0..1, m \in {0, 30}, f \in [1..3 -> Sights]}
    \cup {[config |-> [max_lost |-> 1, match |-> 30], frames |-> <<f, g, f>>] :
             f \in {<<Sight(0, 0), Sight(0, 1), Sight(9, 0)>>, <<Sight(0, 0), Sight(0, 0), Sight(0, 0), Sight(0, 0)>>},
             g \in {<<Sight(20, 0), Sight(20, 1), Sight(0, 0)>>, <<>>}}

CtcCases ==
    {[rows |-> r, alphabet |-> <<"a", "b">>, blank |-> b] : b \in 0..2,
       r \in UNION {[1..n -> {<<>>, <<1, 0, 0>>, <<0, 1, 0>>, <<0, 1, 1>>, <<0, 0, 0, 1>>}] : n \in 0..4}}

RegionCases ==
    {[dims |-> <<1, 1, 3, 3>>, values |-> v, threshold |-> 30] : v \in [1..9 -> {0, 30}]}
    \cup {[dims |-> d, values |-> v, threshold |-> t] :
             d \in {<<1, 1, 5>>, <<1, 5, 1>>, <<1, 2, 5>>, <<2, 1, 5>>, <<1, 5>>}, v \in [1..5 -> {0, 50}], t \in {50, 101}}

MCGroups ==
    ({"relay", "normalize", "image", "configs", "backoff", "transfer", "load", "policy", "tensor",
      "avpacket", "avimage", "stream", "device", "ops", "copy", "alloc", "process", "engine", "port", "infos",
      "nibbles", "dtype", "attr", "mock", "regress", "latency", "fit", "nms", "boxes", "faces", "rank",
      "tracks", "ctc", "regions"} \X {"all"})
    \cup {<<"expand", "graph">>, <<"expand", "params">>, <<"expand", "branches">>, <<"dims", "small">>, <<"dims", "edge">>}
    \cup {<<"open", k>> : k \in Kinds}
    \cup {<<"node", k>> : k \in DOMAIN ElementKinds} \cup {<<"media", k>> : k \in DOMAIN MediaKinds}

MCCases(g) ==
    CASE g[1] = "relay"     -> RelayCases
      [] g[1] = "normalize" -> NormalizeCases
      [] g[1] = "image"     -> ImageCases
      [] g[1] = "configs"   -> ConfigCases
      [] g[1] = "backoff"   -> BackoffCases
      [] g[1] = "transfer"  -> TransferCases
      [] g[1] = "avpacket"  -> AvPacketCases
      [] g[1] = "avimage"   -> AvImageCases
      [] g[1] = "stream"    -> StreamCases
      [] g[1] = "device"    -> DeviceCases
      [] g[1] = "ops"       -> OpsCases
      [] g[1] = "copy"      -> CopyCases
      [] g[1] = "alloc"     -> AllocCases
      [] g[1] = "process"   -> ProcessCases
      [] g[1] = "engine"    -> EngineCases
      [] g[1] = "port"      -> PortCases
      [] g[1] = "infos"     -> InfoCases
      [] g[1] = "media"     -> MediaCases(g[2])
      [] g[2] = "graph"     -> StructureCases
      [] g[2] = "params"    -> ParamCases
      [] g[2] = "branches"  -> BranchCases
      [] g[1] = "load"      -> LoadCases
      [] g[1] = "policy"    -> PolicyCases
      [] g[1] = "tensor"    -> TensorCases
      [] g[1] = "nibbles"   -> NibbleCases
      [] g[1] = "dtype"     -> DataTypes
      [] g[2] = "small"     -> DimSeqs
      [] g[2] = "edge"      -> {<<5>>, <<6>>, <<7>>, <<13>>, <<2, 1, 1, 1, 1, 1>>}
      [] g[1] = "attr"      -> AttrCases
      [] g[1] = "mock"      -> MockCases
      [] g[1] = "regress"   -> RegressCases
      [] g[1] = "latency"   -> LatencyCases
      [] g[1] = "node"      -> {[kind |-> g[2], params |-> p] : p \in ParamsOf(g[2])}
      [] g[1] = "fit"       -> FitCases
      [] g[1] = "nms"       -> NmsCases
      [] g[1] = "boxes"     -> BoxCases
      [] g[1] = "faces"     -> FaceCases
      [] g[1] = "rank"      -> RankCases
      [] g[1] = "tracks"    -> TrackCases
      [] g[1] = "ctc"       -> CtcCases
      [] g[1] = "regions"   -> RegionCases
      [] g[1] = "open"      -> OpenCases(g[2])
=============================================================================
