------------------------------- MODULE MediaOps -------------------------------
(***************************************************************************)
(* The media elements of dg-media: which parameters each kind accepts when *)
(* a graph is validated and when the element is created, which codec       *)
(* profile it gets, and what the cores that need no codec library (decode  *)
(* of recorded frames, encode, resize, overlay) make of the frames they    *)
(* are given.  A build with the codec library (avcodec-sdk) is modelled.   *)
(***************************************************************************)
EXTENDS MediaRules, ElementRules

CONSTANTS OsdLim,         \* [boxes, color, thickness], the MAX_OSD_ constants
          MaxDrainTimeout \* MAX_DRAIN_TIMEOUT_MS

ASSUME MediaOpsAssumption == MaxDrainTimeout \in Nat \ {0}

-----------------------------------------------------------------------------
(* Ports and parameters of the kinds (elements.rs)                         *)

MediaKind(params, needs, fields) == Kind(InPort(None), OutPort(None), params, needs, fields)
DecodeFields == {"width", "height", "channels", "codec", "profile", "hw", "bitstream_format",
                 "output_format", "memory_domain", "drain_timeout_ms"}
EncodeFields == {"codec", "profile", "hw", "bitstream_format", "encoder_format", "memory_domain",
                 "bitrate", "time_base_num", "time_base_den", "drain_timeout_ms"}
ResizeFields == {"width", "height", "profile", "memory_domain", "drain_timeout_ms"}
OsdFields == {"boxes", "color", "thickness"}
TranscodeFields == {"profile", "hw", "input_codec", "output_codec", "codec", "input_bitstream_format",
                    "output_bitstream_format", "bitstream_format", "width", "height", "bitrate",
                    "time_base_num", "time_base_den", "allow_linked", "drain_timeout_ms"}

\* The transcoder's parser knows four fields that its descriptor does not announce.
Unannounced == {"hw", "input_bitstream_format", "output_bitstream_format", "bitstream_format"}
MediaKinds ==
    [media_decode |-> MediaKind(DecodeFields, {}, DecodeFields),
     media_encode |-> MediaKind(EncodeFields, {}, EncodeFields),
     media_resize |-> MediaKind(ResizeFields, {"width", "height"}, ResizeFields),
     media_osd |-> MediaKind(OsdFields, {}, OsdFields),
     media_transcode |-> MediaKind(TranscodeFields \ Unannounced, {"width", "height"}, TranscodeFields)]

Known(params, fields) == DOMAIN params \subseteq fields

\* A text of the wrong type counts as absent, a number of the wrong type is refused.
AbsentIfErr(v) == IF v = Err THEN None ELSE v
TextOf(params, key) == AbsentIfErr(read_usize(params, key, None))
FitsU32(v) == IF v \in {None, Err} THEN v ELSE IF v > U32Max THEN Err ELSE v
media_read_u32(params, key) == FitsU32(read_usize(params, key, None))
Required(v) == IF v = None THEN Err ELSE NonZero(v)
required_nonzero(params, key) == Required(read_usize(params, key, None))
required_nonzero_u32(params, key) == Required(media_read_u32(params, key))
OptionalNonzero(params, key) == NonZero(read_usize(params, key, None))

\* Names are read without regard to case; an unknown one is refused.
codec_from_name(name) == IF name \in AvcodecCodecs \cup {None} THEN name ELSE Err
parse_bitstream_format(name) == IF name \in AvcodecBitstreams \cup {None} THEN name ELSE Err
parse_image_format(name) ==
    IF name \in {None, "Rgb24", "Bgr24", "Rgba", "Bgra", "Yuv420P", "Nv12", "Gray8"} THEN name ELSE Err
parse_memory_domain(name) ==
    IF name \in {None, "Host", "DmaBuf", "DrmPrime", "CudaDevice", "MppBuffer"} THEN name ELSE Err
HwPreferenceParse(name) ==
    IF name \in {"Auto", "Rockchip", "Nvidia", "Intel", "Amd", "Software"} THEN name ELSE Err

DrainTimeout(v) ==
    CASE v = None -> MaxDrainTimeout     \* the default lies within the limits
      [] v = Err -> Err
      [] OTHER -> IF v \in 1..MaxDrainTimeout THEN v ELSE Err
parse_drain_timeout(params) ==
    DrainTimeout(IF params = None THEN None ELSE read_usize(params, "drain_timeout_ms", None))

TimeBase(num, den) ==
    CASE Err \in {num, den} -> Err
      [] num = None /\ den = None -> None
      [] OTHER -> IF None \in {num, den} THEN Err ELSE [num |-> num, den |-> den]
read_time_base(params) == TimeBase(media_read_u32(params, "time_base_num"), media_read_u32(params, "time_base_den"))

NeedsBitrate == {"H264", "H265", "VP8", "VP9", "AV1"}

-----------------------------------------------------------------------------
(* The profile of an element.  build: [compiled, legacy]; device: that of  *)
(* the node.                                                               *)

\* The old preference takes its profile, or the only one when it asks for none in particular.
MappedProfile(hw) == IF hw = Err THEN Err ELSE resolve_legacy_hw(hw)
PreferredProfile(mapped, compiled) ==
    IF mapped \in compiled THEN mapped
    ELSE IF mapped \in {"Software", "NativeFree"} /\ Cardinality(compiled) = 1 THEN CHOOSE p \in compiled : TRUE
    ELSE Err

ProfileFor(name, hw, matched, build) ==
    IF reject_profile_hw_conflict(name, hw) THEN Err
    ELSE IF hw # None THEN PreferredProfile(MappedProfile(HwPreferenceParse(hw)), build.compiled)
    ELSE IF name = None /\ matched \in build.compiled THEN matched
    ELSE IF name = None /\ "Software" \in build.compiled THEN "Software"
    ELSE resolve_profile(name, build.legacy, build.compiled)

resolve_avcodec_profile(params, device, build) ==
    ProfileFor(TextOf(params, "profile"), TextOf(params, "hw"),
               IF device = None THEN None ELSE resolve_profile_from_device(device), build)

OrEmpty(params) == IF params = None THEN << >> ELSE params
Complete(config) == IF AllRead(config) THEN config ELSE Err

DecodeConfig(p, device, build) ==
    IF ~Known(p, DecodeFields) THEN Err
    ELSE Complete([profile |-> resolve_avcodec_profile(p, device, build),
                   codec |-> codec_from_name(TextOf(p, "codec")),
                   width |-> OptionalNonzero(p, "width"), height |-> OptionalNonzero(p, "height"),
                   channels |-> OptionalNonzero(p, "channels"),
                   bitstream |-> parse_bitstream_format(TextOf(p, "bitstream_format")),
                   output |-> parse_image_format(TextOf(p, "output_format")),
                   domain |-> parse_memory_domain(TextOf(p, "memory_domain"))])
parse_decode_config(params, device, build) == DecodeConfig(OrEmpty(params), device, build)

\* Without a codec the bitrate is not looked at.
EncoderBitrate(config) ==
    Within(config, /\ config.codec \in NeedsBitrate => config.bitrate \notin {None, 0}
                   /\ config.codec # None => config.bitrate # 0)
EncodeConfig(p, device, build) ==
    EncoderBitrate(Complete(
           [profile |-> resolve_avcodec_profile(p, device, build),
            codec |-> codec_from_name(TextOf(p, "codec")),
            bitrate |-> media_read_u32(p, "bitrate"), time_base |-> read_time_base(p),
            bitstream |-> parse_bitstream_format(TextOf(p, "bitstream_format")),
            domain |-> parse_memory_domain(TextOf(p, "memory_domain"))]))
parse_encode_config(params, device, build) == EncodeConfig(OrEmpty(params), device, build)

\* The output codec has two names, and one of its own if neither is given.
TranscoderBitrate(config) == Within(config, config.codec \in NeedsBitrate => config.bitrate \notin {None, 0})
EitherText(p, a, b) == TextOf(p, IF a \in DOMAIN p THEN a ELSE b)
TranscodeConfig(p, device, build) ==
    IF ~Known(p, TranscodeFields) THEN Err
    ELSE TranscoderBitrate(Complete(
           [profile |-> resolve_avcodec_profile(p, device, build),
            codec |-> codec_from_name(Or(EitherText(p, "output_codec", "codec"), "H264")),
            input |-> codec_from_name(TextOf(p, "input_codec")),
            width |-> required_nonzero_u32(p, "width"), height |-> required_nonzero_u32(p, "height"),
            bitrate |-> media_read_u32(p, "bitrate"), time_base |-> read_time_base(p),
            input_bitstream |-> parse_bitstream_format(TextOf(p, "input_bitstream_format")),
            bitstream |-> parse_bitstream_format(EitherText(p, "output_bitstream_format", "bitstream_format"))]))
parse_transcode_config(params, device, build) == TranscodeConfig(OrEmpty(params), device, build)

AreaFits(config) == Within(config, CheckedMul(config.height, config.width) # Err)
parse_resize(params) ==
    IF ~Known(params, ResizeFields) THEN Err
    ELSE AreaFits(Complete([width |-> required_nonzero(params, "width"), height |-> required_nonzero(params, "height")]))

\* box: [x, y, width, height], each a number or Err
BoxValid(b) ==
    /\ AllRead(b) /\ b.width # 0 /\ b.height # 0
    /\ CheckedAdd(b.x, b.width) # Err /\ CheckedAdd(b.y, b.height) # Err
BoxesValid(boxes) == Within(boxes, \A i \in DOMAIN boxes : BoxValid(boxes[i]))
read_boxes(params) == BoxesValid(read_usize(params, "boxes", <<>>))

OsdValid(c) ==
    Within(c, /\ Len(c.boxes) <= OsdLim.boxes
              /\ Len(c.color) \in 1..OsdLim.color
              /\ c.thickness \in 1..OsdLim.thickness)
parse_osd(params) ==
    IF ~Known(params, OsdFields) THEN Err
    ELSE OsdValid(Complete([boxes |-> read_boxes(params),
                          color |-> IF "color" \in DOMAIN params THEN read_f32_vec(params, "color") ELSE <<-1, -2, -3>>,
                          thickness |-> read_usize(params, "thickness", 1)]))

\* What the validation of a graph accepts: resize leaves profile and deadline to the
\* creation, and an encoder without parameters is not looked at.
MediaValidate(kind, params, device, build) ==
    CASE kind = "media_decode" -> parse_decode_config(params, device, build) # Err /\ parse_drain_timeout(params) # Err
      [] kind = "media_encode" ->
           \/ params = None
           \/ /\ Known(params, EncodeFields)
              /\ parse_encode_config(params, device, build) # Err /\ parse_drain_timeout(params) # Err
      [] kind = "media_resize" -> params # None /\ parse_resize(params) # Err
      [] kind = "media_osd" -> params # None /\ parse_osd(params) # Err
      [] kind = "media_transcode" ->
           parse_transcode_config(params, device, build) # Err /\ parse_drain_timeout(params) # Err

WithProfile(config, profile) == IF Err \in {config, profile} THEN Err ELSE config @@ [profile |-> profile]

\* An encoder's fields are looked at when it has any; the deadline of an overlay is not.
MediaCreate(kind, params, device, build) ==
    IF kind # "media_osd" /\ parse_drain_timeout(params) = Err THEN Err
    ELSE CASE kind = "media_decode" -> parse_decode_config(params, device, build)
           [] kind = "media_encode" ->
                IF params # None => Known(params, EncodeFields) THEN parse_encode_config(params, device, build) ELSE Err
           [] kind = "media_resize" ->
                IF params = None THEN Err
                ELSE WithProfile(parse_resize(params), resolve_avcodec_profile(params, device, build))
           [] kind = "media_osd" -> IF params = None THEN Err ELSE parse_osd(params)
           [] kind = "media_transcode" -> parse_transcode_config(params, device, build)

-----------------------------------------------------------------------------
(* Cores without a codec (ops.rs).  A frame is [shape, values, readable],  *)
(* or Eos; values are in rows of pixels of channels.                       *)

CONSTANT Eos

checked_pixel_count(height, width, channels) == CheckedMul(CheckedMul(height, width), channels)

DecodeFrame(c, f) ==
    IF checked_pixel_count(c.height, c.width, c.channels) # Len(f.values) THEN Err
    ELSE [f EXCEPT !.shape = <<c.height, c.width, c.channels>>]

EncodeFrame(c, f) == [f EXCEPT !.shape = <<Len(f.values)>>]

\* Nearest neighbour: the source pixel of a target pixel, channel by channel.
ResizeFrame(c, f) ==
    LET h == f.shape[1]
        w == f.shape[2]
        n == f.shape[3]
    IN  IF Len(f.shape) # 3 THEN Err
        ELSE IF 0 \in {h, w, c.height, c.width} \/ ~f.readable \/ checked_pixel_count(h, w, n) # Len(f.values) THEN Err
        ELSE IF checked_pixel_count(c.height, c.width, n) = Err THEN Err
        ELSE [f EXCEPT !.shape = <<c.height, c.width, n>>,
                       !.values = [i \in 1..(c.height * c.width * n) |->
                          LET p == (i - 1) \div n
                              y == ((p \div c.width) * h) \div c.height
                              x == ((p % c.width) * w) \div c.width
                          IN  @[(y * w + x) * n + ((i - 1) % n) + 1]]]

\* The pixels a box draws: its edges, `thick` pixels wide, within the image.
draw_box(b, thick, width, height) ==
    LET x_end == Min({b.x + b.width, width})
        y_end == Min({b.y + b.height, height})
    IN  {p \in (b.x..(x_end - 1)) \X (b.y..(y_end - 1)) :
           \/ p[2] < b.y + thick \/ p[2] + thick >= y_end
           \/ p[1] < b.x + thick \/ p[1] + thick >= x_end}

OsdFrame(c, f) ==
    LET h == f.shape[1]
        w == f.shape[2]
        n == f.shape[3]
        drawn == UNION {draw_box(c.boxes[k], c.thickness, w, h) : k \in DOMAIN c.boxes}
    IN  IF Len(f.shape) # 3 THEN Err
        ELSE IF Len(c.color) # n \/ ~f.readable \/ checked_pixel_count(h, w, n) # Len(f.values) THEN Err
        ELSE [f EXCEPT !.values = [i \in DOMAIN @ |->
                LET p == (i - 1) \div n IN
                IF <<p % w, p \div w>> \in drawn THEN c.color[((i - 1) % n) + 1] ELSE @[i]]]

CoreFrame(kind, c, f) ==
    CASE kind = "media_decode" -> DecodeFrame(c, f)
      [] kind = "media_encode" -> EncodeFrame(c, f)
      [] kind = "media_resize" -> ResizeFrame(c, f)
      [] kind = "media_osd" -> OsdFrame(c, f)

\* submit_packet, submit_image: core is [ready, eos]
CoreReady(core, f) == IF f = Err THEN Err ELSE [core EXCEPT !.ready = Append(@, f)]
CoreSubmit(kind, c, core, f) ==
    IF core = Err THEN Err
    ELSE IF core.eos THEN Err
    ELSE IF f = Eos THEN [core EXCEPT !.eos = TRUE]
    ELSE CoreReady(core, CoreFrame(kind, c, f))

CoreRun(kind, c, frames) ==
    FoldLeft(LAMBDA core, f : CoreSubmit(kind, c, core, f), [ready |-> <<>>, eos |-> FALSE], frames)
=============================================================================
