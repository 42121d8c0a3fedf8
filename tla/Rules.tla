-------------------------------- MODULE Rules --------------------------------
(***************************************************************************)
(* One step machine that evaluates the pure rules of the crates: a run     *)
(* picks a rule and an argument, Evaluate computes what the code returns,  *)
(* and the properties compare the answer with a definition of what it      *)
(* should be that does not follow the code.                                *)
(***************************************************************************)
EXTENDS StreamRules, SpecRules, BackendRules, MediaOps

CONSTANTS Groups,     \* groups of cases: <<rule, part>>
          Cases(_)    \* the arguments the rule of a group is evaluated on

VARIABLES input,    \* [rule, arg]
          out       \* None until evaluated

vars == <<input, out>>

Init == /\ \E g \in Groups : \E a \in Cases(g) : input = [rule |-> g[1], arg |-> a]
        /\ out = None

\* A data type and a shape in the words of every vendor that knows it.
Vendors(dtype) == [rknn |-> dtype_to_rknn(dtype), sophon |-> from_data_type(dtype), openvino |-> map_element_type(dtype)]
VendorShapes(dims) ==
    [sophon |-> bm_shape_dims(dims), tensorrt |-> shape_to_dims(dims),
     rknn |-> update_attr_shape([n |-> 0, dims |-> <<>>, type |-> "FLOAT16"], dims)]

Opened(o, caps) == IF caps = Err THEN Err ELSE [option |-> o, caps |-> caps]
OpenedWith(o, env) == IF o = Err THEN Err ELSE Opened(o, new_with_metrics(o, env))
Reshaped(t, dims) == IF t = Err THEN Err ELSE reshape(t, dims)
MockAnswer(m, inputs) == IF m = Err THEN Err ELSE produce_outputs(m, inputs)
OneOf(v) == IF v = Err THEN Err ELSE {v}

Answer(r, a) ==
    CASE r = "relay"     -> Relay(a.frame, a.tracks, a.max)
      [] r = "normalize" -> normalize_media_frame_meta(a)
      [] r = "image"     -> ImageValid(a.image, a.size)
      [] r = "configs"   -> track_codec_configs(a)
      [] r = "backoff"   -> backoff(a.retry, a.attempt)
      [] r = "transfer"  -> plan_frame(a)
      [] r = "device"    -> plan(a.caps, a.device, a.mode, a.from)
      [] r = "media"     -> [valid |-> MediaValidate(a.kind, a.params, a.device, a.build),
                             made |-> MediaCreate(a.kind, a.params, a.device, a.build)]
      [] r = "ops"       -> CoreRun(a.kind, a.config, a.frames)
      [] r = "avpacket"  -> packet_to_media_info(a)
      [] r = "avimage"   -> image_to_media_info(a.image, a.size)
      [] r = "stream"    -> IF a.pull THEN IF parse_pull(a.protocol, a) THEN open_pull(a.protocol, a.url.scheme, a.cheetah) ELSE Err
                            ELSE IF parse_push(a.protocol, a) THEN open_push(a.protocol, a.url.scheme, a.cheetah) ELSE Err
      [] r = "copy"      -> CopyTensor(a.src, a.dst)
      [] r = "alloc"     -> allocate_with_policy(a.desc, a.policy)
      [] r = "process"   -> ProcessPolicyValid(a)
      [] r = "engine"    -> validate_inputs(a.tensors, a.bindings)
      [] r = "port"      -> tensor_info_from_port(a)
      [] r = "infos"     -> collect_infos(a.codes, a.shapes)
      [] r = "expand"    -> normalize_with_base_dir(a.spec, a.policy)
      [] r = "load"      -> load_from_path_with_policy(a.files, "root", a.policy)
      [] r = "policy"    -> effective_for(a.hard, a.requested)
      [] r = "tensor"    -> Reshaped(from_buffer(a.desc, a.buffer), a.dims)
      [] r = "nibbles"   -> pack_int4(a)
      [] r = "open"      -> OpenedWith(configure_backend(a.name, a.config, a.env.registered), a.env)
      [] r = "dtype"     -> Vendors(a)
      [] r = "dims"      -> VendorShapes(a)
      [] r = "attr"      -> tensor_info_from_attr(a)
      [] r = "mock"      -> MockAnswer(MockReshape(a.mock, a.shapes), a.inputs)
      [] r = "regress"   -> RegressionRun(a.case, a.outputs)
      [] r = "latency"   -> snapshot(a)
      [] r = "node"      -> Parse(a.kind, a.params)
      [] r = "fit"       -> IF a.resnet THEN resnet_preprocess_tensor(a.tensor, a.w, a.h)
                            ELSE preprocess_tensor(a.tensor, a.w, a.h)
      [] r = "nms"       -> IF a.top # None THEN nms_with_top_k(a.ds, a.percent, a.top)
                            ELSE OneOf(nms(a.ds, a.percent))
      [] r = "boxes"     -> decode_detections(a, a.config, a.letterbox)
      [] r = "faces"     -> decode_retinaface(a, a.anchors, a.config)
      [] r = "rank"      -> top_k(a.values, a.k)
      [] r = "tracks"    -> ByteTrackRun(a.config, a.frames)
      [] r = "ctc"       -> ctc_greedy_decode(a.rows, a.alphabet, a.blank)
      [] r = "regions"   -> detect_text_regions(a.dims, a.values, a.threshold)

Evaluate == /\ out = None
            /\ out' = Answer(input.rule, input.arg)
            /\ UNCHANGED input

Next == Evaluate

Spec == Init /\ [][Next]_vars

On(rule) == input.rule = rule /\ out # None
-----------------------------------------------------------------------------
(* A frame on its way through a pull element, a packet and a push element  *)
(* is refused or arrives with the meaning it had: a relayed frame names    *)
(* its codec, kind, track, key flag and times as the server's frame did    *)
(* (an unknown codec and its kind become those of the track),               *)
(* and normalising the metadata of a frame a second time finds no conflict *)
(* and says the same; a packet of the codec library becomes metadata that  *)
(* maps back to the codec, bitstream, times and key flag it had, and an    *)
(* image never passes for one (dg-stream elements.rs, bridge.rs; dg-media  *)
(* media_meta.rs, format_map.rs).                                          *)
FramesKeepTheirMeaning ==
    /\ On("relay") /\ out # Err =>
         LET f == input.arg.frame IN
         /\ out.track = f.track /\ out.key = f.key
         /\ \/ out.codec = f.codec
            \/ f.codec = "Unknown" /\ \E t \in input.arg.tracks : t.track = f.track /\ t.codec = out.codec
         /\ out.pts = f.pts /\ out.dts = f.dts /\ out.size = f.size
         /\ f.codec # "Unknown" => out.kind = f.kind
         /\ out.timebase.num * f.timebase.den = f.timebase.num * out.timebase.den
    /\ On("normalize") /\ out # Err =>
         /\ LET again == normalize_media_frame_meta(out) IN
              again # Err /\ again.info = out.info /\ again.pts = out.pts /\ again.dts = out.dts
         /\ input.arg.info # None => out.info = input.arg.info
         /\ out.info # None => out.pts = out.info.timing.pts /\ out.dts = out.info.timing.dts
         /\ media_frame_timing(out) = media_frame_timing(input.arg)
    /\ On("avpacket") /\ out # Err =>
         LET e == encoded_info_from_media_info(out)
             p == input.arg
         IN  /\ out.timing = [pts |-> p.pts, dts |-> p.dts, time_base |-> p.time_base] /\ is_keyframe(out) = p.key
             /\ e.codec # "Unknown" => core_codec_to_avcodec(e.codec) = p.codec
             /\ e.bitstream # "Unknown" => core_bitstream_to_avcodec(e.bitstream) = p.bitstream
             /\ p.codec \in StreamCodecs \ {"MJPEG"} => LegacyOf(out).codec = e.codec /\ LegacyOf(out).key = p.key
    /\ On("avimage") /\ out # Err =>
         /\ encoded_info_from_media_info(out) = Err /\ ~is_keyframe(out)
         /\ core_pixel_to_avcodec(out.info.format) = input.arg.image.format
         /\ out.timing.pts = input.arg.image.pts /\ out.timing.dts = input.arg.image.dts

\* The elements a tensor's indices reach, counted from the first.
Reached(d) ==
    LET strides == IF d.strides = None THEN contiguous_for(d.dims) ELSE d.strides
        Index == {f \in [1..Len(d.dims) -> 0..Max(ToSet(d.dims) \cup {1})] :
                    \A i \in 1..Len(d.dims) : f[i] < d.dims[i]}
    IN  {FoldFunction(+, 0, [i \in 1..Len(d.dims) |-> f[i] * strides[i]]) : f \in Index}

\* Every byte of every row of a plane is inside the plane and the buffer.
RowsInside(image, size) ==
    \A k \in 1..Len(image.planes) :
      LET p     == image.planes[k]
          half  == k > 1 /\ image.format \in {"Yuv420P", "Nv12", "Nv21"}
          rows  == IF half THEN (image.height + 1) \div 2 ELSE image.height
          bytes == CASE image.format = "Yuv420P" /\ k > 1 -> (image.width + 1) \div 2
                     [] image.format \in {"Rgb24", "Bgr24"} -> 3 * image.width
                     [] image.format \in {"Rgba", "Bgra"} -> 4 * image.width
                     [] OTHER -> image.width
      IN  \A y \in 0..(rows - 1) :
            /\ p.offset + y * p.stride + bytes <= size
            /\ y * p.stride + bytes <= p.len
            /\ y > 0 => p.stride >= bytes

(* What a check accepts really fits: every row of a validated image lies   *)
(* in its buffer (dg-core media.rs), every index of a tensor in its        *)
(* buffer, when it is made, given one or reshaped (tensor.rs, shape.rs),   *)
(* a copy succeeds exactly between readable buffers of one size and brings *)
(* all bytes (buffer.rs), four-bit values survive packing (datatype.rs),   *)
(* codec configuration stays within its budget (dg-stream elements.rs), a  *)
(* retry waits at most the longest pause (dg-stream stream.rs).            *)
SizesStayInBounds ==
    /\ On("image") /\ out => RowsInside(input.arg.image, input.arg.size)
    /\ On("avimage") /\ out # Err =>
         /\ RowsInside(input.arg.image, input.arg.size)
         /\ is_multiplane_pixel(out.info.format) = (Len(out.info.planes) > 1)
    /\ On("alloc") /\ out # Err =>
         /\ out <= input.arg.policy["max_tensor_bytes"]
         /\ \A e \in Reached(input.arg.desc) : (e + 1) * size_in_bits(input.arg.desc.dtype) <= 8 * out
    /\ On("copy") =>
         LET src == input.arg.src
             dst == input.arg.dst
         IN  /\ out # Err =>
                  /\ try_into_host_bytes(out.buffer) = map_with(src.buffer, Err)
                  /\ copy_into(out.buffer, dst.buffer.len) = read_bytes(src.buffer)
                  /\ from_buffer(out.desc, out.buffer) = out /\ out.desc = dst.desc
             /\ out = Err => \/ src.buffer.len # dst.buffer.len
                             \/ ~is_host_readable(src.buffer) \/ ~is_host_readable(dst.buffer)
    /\ On("configs") /\ out # Err =>
         \A i \in 1..Len(out) : out[i] <= MaxConfigItem
    /\ On("tensor") /\ out # Err =>
         /\ out.buffer = input.arg.buffer
         /\ storage_bytes(out.desc) = out.buffer.len
         /\ \A d \in {input.arg.desc, out.desc} : \A e \in Reached(d) :
              (e + 1) * size_in_bits(d.dtype) <= 8 * out.buffer.len
    /\ On("nibbles") /\ out # Err =>
         /\ unpack_int4(out, Len(input.arg)) = input.arg
         /\ Len(out) = storage_bytes_for_elements([bits |-> 4, lanes |-> 1], Len(input.arg))
         /\ \A i \in 1..Len(out) : out[i] \in 0..255
    /\ On("nibbles") /\ (\A i \in DOMAIN input.arg : input.arg[i] \in 0..15) =>
         unpack_float4(pack_float4(input.arg), Len(input.arg)) = input.arg
    /\ On("backoff") =>
         \A ms \in out : ms <= MaxRetryBackoff /\ (input.arg.retry.jitter = 0 => ms <= input.arg.retry.max)

\* A set of nodes each of which feeds another of the set: what a cycle is.
Cyclic(names, s) ==
    \E loop \in SUBSET names \ {{}} : \A n \in loop : \E c \in ToSet(s.connections) :
        c.from.lit = n /\ c.to.lit \in loop

GraphSound(s) ==
    LET names == {n.name : n \in ToSet(s.nodes)}
        Feeders(n, p) == {i \in DOMAIN s.connections :
                            s.connections[i].to = Lit(n) /\ s.connections[i].in = p}
    IN  /\ Cardinality(names) = Len(s.nodes)
        /\ s.allow_cycles \/ ~Cyclic(names, s)
        /\ \A c \in ToSet(s.connections) : {c.from.lit, c.to.lit} \subseteq names
        /\ \A n \in ToSet(s.nodes) :
             /\ \A k \in DOMAIN n.params : n.params[k].ref = None
             /\ \A p \in Elements[n.kind].ins :
                  Cardinality(Feeders(n.name, p.name)) \in (IF p.required THEN {1} ELSE {0, 1})

\* Where a parameter of a node comes from: the node, its fields, its
\* template, the defaults, in this order, and then the variables.
Settled(s, n, k) ==
    LET t == IF n.template = None THEN << >> ELSE s.templates[n.template].params
        v == IF k \in DOMAIN n.params THEN n.params[k]
             ELSE IF k \in DOMAIN n.fields THEN n.fields[k]
             ELSE IF k \in DOMAIN t THEN t[k]
             ELSE s.defaults.named[k]
    IN  IF v.ref = None THEN v ELSE s.variables[v.ref]

(* What validation lets through can be built (dg-graph spec.rs): distinct  *)
(* names, connected required inputs, one feeder per input, no placeholder  *)
(* left, no cycle unless allowed; every parameter has the value of the     *)
(* most specific place that gives one; normalising again changes nothing;  *)
(* a file with its includes stays within the limits the process set, and   *)
(* a graph's own limits never exceed them (dg-core resource.rs).           *)
ValidSpecsAreSound ==
    /\ On("expand") /\ out # Err =>
         /\ GraphSound(out)
         /\ normalize_with_base_dir(out, input.arg.policy) = out
         /\ \A i \in DOMAIN out.nodes : \A k \in DOMAIN out.nodes[i].params :
              out.nodes[i].params[k] = Settled(input.arg.spec, input.arg.spec.nodes[i], k)
    /\ On("load") /\ out.spec # Err =>
         /\ GraphSound(out.spec)
         /\ out.seen.total <= input.arg.policy["max_config_bytes"]
         /\ out.seen.included - 1 <= input.arg.policy["max_include_count"]
         /\ Len(out.spec.nodes) <= input.arg.policy["max_nodes"]
    /\ On("policy") /\ out # Err =>
         \A f \in PolicyFields : out[f] \in 1..Min({input.arg.hard[f], input.arg.requested[f]})
    /\ On("process") /\ out => effective_for(input.arg.resource, input.arg.resource) = input.arg.resource

(* A plan says what will happen: a shared frame crosses no domain, has the *)
(* same layout and a guard, and both sides can read the handle: theirs is  *)
(* of one kind, or one of them is External, which stands for a frame of    *)
(* the codec or bytes of the host, never for bytes of the stream; what is  *)
(* shared one way is shared back; a staged one counts every hop as a copy  *)
(* and goes through the host, and so does the plan for a device; the       *)
(* profile an element gets is compiled in, and is the one asked for by     *)
(* name, the one the old preference stands for, or, when nothing is asked, *)
(* the device's, the software's or the only one there is (dg-media         *)
(* planner.rs, profile.rs, legacy.rs, elements.rs).                        *)
PlansAreHonest ==
    /\ On("transfer") /\ out # Err =>
         LET hops == Len(out.path.domains) - 1 IN
         /\ out.path.domains[1] = input.arg.from
         /\ out.path.domains[hops + 1] = input.arg.to
         /\ out.path.copies >= hops
         /\ out.mode = "Shared" =>
              /\ hops = 0 /\ input.arg.guard /\ input.arg.layout = input.arg.target_layout
              /\ LET sides == {input.arg.handle, input.arg.target_handle} IN
                 Cardinality(sides) > 1 => "External" \in sides /\ "CheetahBytes" \notin sides
              /\ plan_frame([input.arg EXCEPT !.handle = input.arg.target_handle,
                                              !.target_handle = input.arg.handle]) = out
         /\ out.mode = "Staged" =>
              input.arg.staging /\ out.path.copies > 0
                /\ "Host" \in ToSet(out.path.domains)
    /\ On("device") /\ out # Err =>
         /\ out.path.domains[1] = input.arg.from /\ Last(out.path.domains) = out.target
         /\ "Host" \in ToSet(out.path.domains) /\ ~out.zero_copy
         /\ out.path.copies = Len(out.path.domains) - 1
    /\ On("media") /\ out.made # Err /\ input.arg.kind # "media_osd" =>
         LET got == out.made.profile
             compiled == input.arg.build.compiled
             p == IF input.arg.params = None THEN << >> ELSE input.arg.params
             name == TextOf(p, "profile")
             hw == TextOf(p, "hw")
         IN  /\ got \in compiled
             /\ CASE name # None -> got = name /\ hw = None
                  [] name = None /\ hw # None -> got = resolve_legacy_hw(hw) \/ (compiled = {got} /\ hw \in {"Auto", "Software"})
                  [] OTHER -> \/ got \in {"Software", resolve_profile_from_device(input.arg.device)}
                              \/ compiled = {got}

\* The orders of n scores.
Perms(n) == {f \in [1..n -> 1..n] : IsInjective(f)}

\* What a backend can hand to its library.
Expressible(kind, dtype) ==
    CASE kind = "Rknn" -> dtype_to_rknn(dtype) # Err
      [] kind = "Sophon" -> from_data_type(dtype) # Err
      [] kind = "OpenVINO" -> map_element_type(dtype) # Err
      [] kind = "TensorRt" -> \E code \in 0..9 : trt_dtype_to_datatype(code) = dtype
      [] OTHER -> TRUE

(* A runtime that opens has what it asked for: a device of the machine, a  *)
(* precision that its library has a type for (all but the u32 of the       *)
(* TensorRT table) and, with OpenVINO, that a live device claims; a model  *)
(* whose every file is within the limit; a file unless it is the mock.     *)
(* (Runtime::new_with_metrics, configure_* and init of the backends)       *)
(* An element whose parameters are accepted can be created and meets no    *)
(* limit it checked too late: its anchors can be made, every class of its  *)
(* alphabet decoded, its thresholds used, its fields are the announced     *)
(* ones, and its address is logged without user and query (dg-elements).   *)
(* A media element is created from what validation accepts (dg-media; a    *)
(* resize's profile and deadline and an encoder without parameters are     *)
(* checked on creation only), and never from what it refuses.  A stream    *)
(* element that opens has an endpoint of its own direction and protocol,   *)
(* retries within the longest pause, and its tracks would be accepted at   *)
(* the other end, up to the number a pull takes (dg-stream).               *)
OpenedIsUsable ==
    /\ On("media") =>
      LET k == input.arg.kind
          p == input.arg.params
      IN  /\ out.made # Err => out.valid
          /\ out.valid /\ k # "media_resize" /\ ~(k = "media_encode" /\ p = None) => out.made # Err
          /\ out.valid /\ p # None =>
               /\ MediaKinds[k].needs \subseteq DOMAIN p
               /\ DOMAIN p \subseteq MediaKinds[k].params \cup Unannounced
    /\ On("stream") /\ out # Err =>
      LET a == input.arg
          u == redact_url_tokens(a.url)
      IN  /\ is_pull(a.protocol) = a.pull
          /\ (out = "connector") = (a.url.scheme # "mock") /\ (out = "connector" => a.cheetah)
          /\ u.userinfo = None /\ (a.url.path => u.query = None /\ u.fragment = None)
          /\ \A n \in 1..4 : \A ms \in backoff(a.retry, n) : ms <= MaxRetryBackoff
          /\ ~a.pull /\ Len(a.tracks) <= MaxTracks /\ (\A i \in DOMAIN a.tracks : a.tracks[i].readiness = "Ready") =>
               /\ endpoint_tracks_valid(a.tracks)
               /\ \A i \in DOMAIN a.tracks :
                    /\ config_requirement(a.tracks[i].codec) = "Required" =>
                         to_config_payload(a.tracks[i].extradata) = a.tracks[i].codec
                    /\ media_frame_to_cheetah_track_info(a.tracks[i]) \in {a.tracks[i], Err}
    /\ On("node") /\ out # Err =>
      LET k == input.arg.kind
          p == input.arg.params
      IN  /\ p # None => DOMAIN p \subseteq ElementKinds[k].params /\ ElementKinds[k].needs \subseteq DOMAIN p
          /\ k = "retinaface" => generate_anchors(out.width, out.height, out.stride, out.sizes) # Err
          /\ k = "ppocr_rec" => \A row \in Perms(Len(out.alphabet) + 1) :
               ctc_greedy_decode(<<row>>, out.alphabet, out.blank) # Err
          /\ k = "yolo_postprocess" => /\ nms_with_top_k(<<>>, out.nms, 1) # Err
                                       /\ LetterboxNew(1, 1, out.width, out.height) # Err
          /\ k = "resnet_postprocess" => top_k(<<1>>, out.top_k) # Err
          /\ k = "http_push" => LET u == redact_url(out.url) IN ~u.user /\ "?" \notin ToSet(u.tail)
    /\ On("open") /\ out # Err =>
      LET o == out.option
          e == input.arg.env
      IN  /\ o.precision # None => Expressible(o.backend, o.precision) \/ <<o.backend, o.precision>> = <<"TensorRt", "U32">>
          /\ o.backend # "Mock" => o.model.of = "File"
          /\ o.model.len = None \/ o.model.len <= e.limit
          /\ o.backend # "Mock" => o.model.len # None
          /\ o.backend = "OpenVINO" /\ o.model.ext = "xml" => o.model.len + o.model.bin <= e.limit
          /\ o.backend = "TensorRt" => e.cuda > Or(o.options.device_id, 0)
          /\ o.backend = "OpenVINO" =>
               /\ \E d \in ToSet(e.live) : d.name = o.options.device
               /\ o.precision # None => \E d \in ToSet(e.live) : o.precision \in parse_device_capabilities(d.tokens)

(* What is converted for a vendor comes back as it was: data types, shapes *)
(* and padded rows (bytes and padding never share a place); open           *)
(* dimensions become sizes that the engine takes; a mock answers with the  *)
(* sizes its outputs have; a regression that passes is close everywhere; a *)
(* percentile is a bound of as many latencies as it says (dg-rknn io.rs,   *)
(* convert.rs of Sophon and TensorRT, mock.rs, regression.rs, metrics.rs). *)
ConversionsAgree ==
    /\ On("dtype") =>
         /\ out.rknn # Err => /\ dtype_from_rknn(out.rknn) = input.arg
                              /\ bytes_per_element_for_rknn(out.rknn) * 8 = Bits(input.arg)
         /\ out.sophon # Err => from_code(out.sophon) = input.arg /\ bytes_per_element(out.sophon) * 8 = Bits(input.arg)
         /\ out.openvino # Err => map_data_type(out.openvino) = input.arg
    /\ On("dims") =>
         /\ out.sophon # Err => shape_from_bm(out.sophon) = input.arg
         /\ out.rknn # Err => shape_from_attr(out.rknn) = input.arg
         /\ out.tensorrt # Err => dims_to_shape(out.tensorrt) = input.arg
    /\ On("engine") =>
         LET Bind(i) == input.arg.bindings[i]
             asked == [i \in DOMAIN input.arg.bindings |-> engine_dims_to_shape(Bind(i).dims)]
         IN  out = (/\ Len(input.arg.tensors) = Len(asked)
                    /\ \A i \in DOMAIN asked :
                         LET t == input.arg.tensors[i] IN
                         /\ t.dtype = Bind(i).dtype /\ Len(t.dims) = Len(asked[i])
                         /\ \A k \in DOMAIN t.dims : t.dims[k] = asked[i][k] \/ Bind(i).dims[k] = -1
                         /\ 8 * t.len = Bits(t.dtype) * FoldLeft(LAMBDA x, y : x * y, 1, t.dims))
    /\ On("port") /\ out # Err =>
         /\ map_element_type(out.dtype) = input.arg.type
         /\ \A i \in DOMAIN out.dims : out.dims[i] >= 0 /\ input.arg.dims[i] \in {out.dims[i], -1}
    /\ On("infos") /\ out # Err =>
         \A i \in DOMAIN out :
            /\ shape_from_bm(bm_shape_dims(out[i].dims)) = shape_from_bm(input.arg.shapes[i])
            /\ storage_bytes_for_shape([bits |-> Bits(out[i].dtype), lanes |-> 1], out[i].dims)
                 \in {byte_size(input.arg.codes[i], out[i].dims), Err}
    /\ On("attr") /\ out # Err =>
         layout_to_rknn(out.layout) \in {input.arg.fmt, Err}
    /\ On("attr") /\ out # Err /\ out.strides # None =>
         LET size  == Bytes(out.dtype)
             bytes == [i \in 1..element_count(out.dims) * size |-> i]
             pad   == pad_bytes(bytes, out.dims, out.strides, size)
         IN  /\ input.arg.w_stride >= (IF out.layout = "NCHW" THEN out.dims[4] ELSE out.dims[3]) /\ pad # Err =>
                   depad_bytes(pad, out.dims, out.strides, size) = bytes
             /\ pad # Err => physical_element_count(out.strides, out.dims) * size = Len(pad)
    /\ On("mock") /\ out # Err => Len(input.arg.inputs) = Len(input.arg.shapes)
    /\ On("regress") /\ out => \A i \in DOMAIN input.arg.outputs : Inf \notin ToSet(input.arg.outputs[i].values)
    /\ On("latency") =>
         LET Covered(n, percent) == Cardinality({k \in DOMAIN input.arg : input.arg[k] <= n}) * 100 >= percent * Len(input.arg)
         IN  Max(ToSet(input.arg)) <= Last(Bounds) => Covered(out.p50, 50) /\ Covered(out.p95, 95) /\ Covered(out.p99, 99)
\* The pixel the input's value v (counted from 1) belongs to.
PixelOf(t, v) ==
    LET im == ImageDims(t.format, t.dims)
        i == v - 1
    IN  IF t.format = "NCHW" THEN [c |-> i \div (im.w * im.h), x |-> i % im.w, y |-> (i \div im.w) % im.h]
        ELSE [c |-> i % im.c, x |-> (i \div im.c) % im.w, y |-> i \div (im.c * im.w)]

\* The pixels of a resized or overlaid image, by what they should be.
Resized(c, f, g) ==
    LET n == f.shape[3]
        Pixel(v) == (v - 1) \div n
    IN  \A i \in DOMAIN g.values :
          LET v == g.values[i]
              x == Pixel(i) % c.width
              y == Pixel(i) \div c.width
              sx == Pixel(v) % f.shape[2]
              sy == Pixel(v) \div f.shape[2]
          IN  /\ v % n = i % n
              /\ sx * c.width <= x * f.shape[2] /\ x * f.shape[2] < (sx + 1) * c.width
              /\ sy * c.height <= y * f.shape[1] /\ y * f.shape[1] < (sy + 1) * c.height
Overlaid(c, f, g) ==
    LET n == f.shape[3]
        Image == (0..(f.shape[2] - 1)) \X (0..(f.shape[1] - 1))
        Inside(b) == {p \in Image : p[1] \in b.x..(b.x + b.width - 1) /\ p[2] \in b.y..(b.y + b.height - 1)}
        Edge(b, p) == \E dx, dy \in (0 - c.thickness)..c.thickness : <<p[1] + dx, p[2] + dy>> \notin Inside(b)
    IN  \A p \in Image : \A k \in 1..n :
          g.values[(p[2] * f.shape[2] + p[1]) * n + k] =
            IF \E b \in ToSet(c.boxes) : p \in Inside(b) /\ Edge(b, p) THEN c.color[k]
            ELSE f.values[(p[2] * f.shape[2] + p[1]) * n + k]

(* A network sees the image it is given: every value of its input is       *)
(* padding or the value of the same channel, channels agree on the pixel,  *)
(* the image's corner is seen, and the box of an input pixel mapped back   *)
(* to the image meets the pixel it was taken from (dg-elements math.rs:    *)
(* Letterbox pads by fractions, resize_letterbox by whole pixels; yolo.rs, *)
(* extras.rs).  A core without a codec gives a frame for every frame: a    *)
(* resized pixel is the one its place lies in, an overlay changes the      *)
(* pixels of a box that are near its edge and no other, and decoding what  *)
(* was encoded gives the frame back (dg-media ops.rs).                     *)
PixelsComeFromTheirSource ==
    /\ On("ops") /\ out # Err =>
      LET a == input.arg
          given == SelectSeq(a.frames, LAMBDA f : f # Eos)
      IN  /\ Len(out.ready) = Len(given)
          /\ \A i \in DOMAIN given :
               CASE a.kind = "media_resize" -> Resized(a.config, given[i], out.ready[i])
                 [] a.kind = "media_osd" -> Overlaid(a.config, given[i], out.ready[i])
                 [] a.kind = "media_encode" /\ FoldLeft(LAMBDA x, y : x * y, 1, given[i].shape) = Len(given[i].values)
                      /\ Len(given[i].shape) = 3 ->
                      DecodeFrame([height |-> given[i].shape[1], width |-> given[i].shape[2],
                                   channels |-> given[i].shape[3]], out.ready[i]) = given[i]
                 [] OTHER -> out.ready[i].values = given[i].values
    /\ On("fit") /\ out # Err =>
      LET t == input.arg.tensor
          b == out.box
          plane == input.arg.w * input.arg.h
      IN  /\ Len(out.values) = 3 * plane
          /\ 1 \in ToSet(out.values)
          /\ \A i \in 1..plane :
               LET here == [c \in 0..2 |-> out.values[c * plane + i]] IN
               \/ \A c \in 0..2 : here[c] = 0
               \/ \A c \in 0..2 :
                    LET s == PixelOf(t, here[c])
                        m == map_to_source(b, [x |-> (i - 1) % input.arg.w, y |-> (i - 1) \div input.arg.w, w |-> 1, h |-> 1])
                    IN  /\ here[c] # 0 /\ s.c = c
                        /\ s.x = PixelOf(t, here[0]).x /\ s.y = PixelOf(t, here[0]).y
                        /\ 2 * b.n * (s.x + 1) >= m.x /\ 2 * b.n * s.x <= m.x + m.w
                        /\ 2 * b.n * (s.y + 1) >= m.y /\ 2 * b.n * s.y <= m.y + m.h

\* What suppression promises of the detections ds, of which at most max are candidates.
Suppressed(ds, kept, percent, max) ==
    LET Covers(a, d) == a.class = d.class /\ Above(iou(a.box, d.box), percent)
        lost == {d \in ToSet(ds) : d \notin ToSet(kept)}
    IN  /\ ToSet(kept) \subseteq ToSet(ds)
        /\ \A i, j \in DOMAIN kept : i < j => kept[i].score >= kept[j].score /\ ~Covers(kept[i], kept[j])
        /\ \A d \in lost : \/ \E a \in ToSet(kept) : a.score >= d.score /\ Covers(a, d)
                           \/ Cardinality({i \in DOMAIN ds : ds[i].score >= d.score}) > max

\* What a tracker promises of the tracks it reports, frame after frame.
TracksSound(frames, outputs) ==
    LET Ids(k) == [i \in DOMAIN outputs[k] |-> outputs[k][i].id]
        Before(k) == UNION {ToSet(Ids(j)) : j \in 1..(k - 1)}
        Seen(k, id) == \E j \in Max({1, k - input.arg.config.max_lost - 1})..(k - 1) : id \in ToSet(Ids(j))
    IN  \A k \in DOMAIN outputs :
          /\ [i \in DOMAIN outputs[k] |-> outputs[k][i].det] = frames[k]
          /\ IsInjective(Ids(k))
          /\ \A i \in DOMAIN outputs[k] :
               LET o == outputs[k][i] IN
               IF o.state = "New" THEN o.id \notin Before(k) ELSE Seen(k, o.id)

\* Regions are the connected parts of the lit pixels.
RegionsSound(a, regions) ==
    LET w == Last(a.dims)
        h == a.dims[Len(a.dims) - 1]
        lit == {p \in 0..(w * h - 1) : a.values[p + 1] >= a.threshold}
        Joined(p, q) == q \in Neighbours(p, w, h)
    IN  /\ \A r \in ToSet(regions) :
             /\ r.points \subseteq lit
             /\ \A p \in r.points, q \in lit \ r.points : ~Joined(p, q)
             /\ \A part \in SUBSET r.points \ {{}, r.points} : \E p \in part, q \in r.points \ part : Joined(p, q)
             /\ \A p \in r.points : /\ p % w \in r.box.x..(r.box.x + r.box.w - 1)
                                    /\ p \div w \in r.box.y..(r.box.y + r.box.h - 1)
        /\ \A i, j \in DOMAIN regions : i # j => regions[i].points \cap regions[j].points = {}
        /\ Len(regions) < Lim.regions => UNION {r.points : r \in ToSet(regions)} = lit

(* Results mean what they say.  Suppression keeps, whatever the heap does  *)
(* with equal scores, the best of every group of overlapping boxes of a    *)
(* class and loses nothing that no better box covers, within the number of *)
(* candidates; boxes lie in the image; a tracker gives no identity twice   *)
(* in a frame, never again after it was lost too long, and reports every   *)
(* detection once; saying a symbol longer does not change a decoded text;  *)
(* text regions are the connected parts of the map (dg-elements math.rs,   *)
(* yolo.rs, extras.rs).                                                    *)
ResultsAreSound ==
    /\ On("nms") /\ out # Err =>
         \A kept \in out : Suppressed(input.arg.ds, kept, input.arg.percent, Min({Or(input.arg.top, Lim.nms), Lim.nms}))
    /\ On("boxes") /\ out # Err =>
         LET b == input.arg.letterbox IN
         \A kept \in out : \A i \in DOMAIN kept :
            /\ kept[i].score >= input.arg.config.confidence
            /\ kept[i].box.x + kept[i].box.w <= 2 * b.n * b.sw /\ kept[i].box.y + kept[i].box.h <= 2 * b.n * b.sh
    /\ On("faces") /\ out # Err => \A kept \in out : \A i, j \in DOMAIN kept :
            i # j => ~Above(iou(kept[i].box, kept[j].box), input.arg.config.nms)
    /\ On("rank") /\ out # Err =>
         /\ \A i \in DOMAIN out : input.arg.values[out[i].index + 1] = out[i].score
         /\ \A v \in DOMAIN input.arg.values : (\A i \in DOMAIN out : out[i].index # v - 1) =>
              Len(out) = input.arg.k /\ \A i \in DOMAIN out : out[i].score >= input.arg.values[v]
    /\ On("tracks") /\ out # Err => TracksSound(input.arg.frames, out.outputs) /\ Len(out.state.tracks) <= Lim.tracks
    /\ On("ctc") /\ out # Err =>
         \A i \in DOMAIN input.arg.rows :
            ctc_greedy_decode(InsertAt(input.arg.rows, i, input.arg.rows[i]), input.arg.alphabet, input.arg.blank) \in {out, Err}
    /\ On("regions") /\ out # Err => RegionsSound(input.arg, out)

(* What a frame, a packet, a tensor or a shape says survives every way it  *)
(* is converted, between crates and for the vendors' libraries.            *)
MeaningIsKept == FramesKeepTheirMeaning /\ ConversionsAgree

(* What the elements compute is right: the pixels, and what is found in    *)
(* them.                                                                   *)
ResultsAreRight == PixelsComeFromTheirSource /\ ResultsAreSound

=============================================================================
