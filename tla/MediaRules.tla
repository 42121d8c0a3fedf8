----------------------------- MODULE MediaRules -----------------------------
(***************************************************************************)
(* The rules about media metadata that dg-core and dg-media compute: when  *)
(* an encoded or image description is valid, how the authoritative and the *)
(* legacy metadata of a frame are reconciled, what the maps to the codec   *)
(* library keep, which transfer a bridge plans and which profile runs.     *)
(* All are functions.                                                      *)
(***************************************************************************)
EXTENDS RuleValues

CONSTANTS MaxConfigCount,   \* MAX_CODEC_CONFIG_COUNT
          MaxConfigItem,    \* MAX_CODEC_CONFIG_ITEM_BYTES
          MaxConfigTotal    \* MAX_CODEC_CONFIG_TOTAL_BYTES

ASSUME MediaRulesAssumption == {MaxConfigCount, MaxConfigItem, MaxConfigTotal} \subseteq Nat

-----------------------------------------------------------------------------
(* Encoded payloads (dg-core media.rs)                                     *)

TimingValid(t) == t.time_base = None \/ t.time_base.den # 0

\* The sizes of the blobs are bounded one by one, in number and in sum.
EncodedValid(e) ==
    /\ Len(e.configs) <= MaxConfigCount
    /\ FoldSeq(LAMBDA c, total : total + c, 0, e.configs) <= MaxConfigTotal
    /\ e.bitstream = "Unknown" => e.codec = "Unknown"

\* MediaCodecConfig::new: a blob of n bytes.
CodecConfig(n) == IF n = Err THEN Err ELSE IF n > MaxConfigItem THEN Err ELSE n

encoded(e, timing) ==
    IF TimingValid(timing) /\ EncodedValid(e)
    THEN [timing |-> timing, encoded |-> TRUE, info |-> e] ELSE Err

is_keyframe(info) == info.info.key

-----------------------------------------------------------------------------
(* Image payloads: planes within a buffer                                  *)

expected_plane_count(f) ==
    CASE f \in {"Yuv420P", "Yuv422P", "Yuv444P"} -> 3
      [] f \in {"Nv12", "Nv21"} -> 2
      [] f \in {"Rgb24", "Bgr24", "Rgba", "Bgra", "Gray8"} -> 1
      [] OTHER -> Err

bytes_per_pixel_row(f) ==
    CASE f \in {"Rgb24", "Bgr24"} -> 3 [] f \in {"Rgba", "Bgra"} -> 4 [] OTHER -> 1

HalfHeight(f) == f \in {"Yuv420P", "Nv12", "Nv21"}

plane_row_count(f, index, height) ==
    IF index > 1 /\ HalfHeight(f) THEN DivCeil(height, 2) ELSE height

MinStride(f, index, width) ==
    CASE f = "Yuv420P" /\ index > 1 -> DivCeil(width, 2)
      [] f \in {"Nv12", "Nv21"} -> width
      [] OTHER -> SaturatingMul(width, bytes_per_pixel_row(f))

end_offset(p) == CheckedAdd(p.offset, p.len)
EndsWithin(end, limit) == IF end = Err THEN FALSE ELSE end <= limit

\* The last row starts after rows - 1 strides, a product that saturates.
validate_plane_stride_LastRowFree(f, p, index, width, height) ==
    p.stride >= MinStride(f, index, width)

validate_plane_stride(f, p, index, width, height) ==
    /\ p.stride >= MinStride(f, index, width)
    /\ EndsWithin(CheckedAdd(CheckedAdd(p.offset, SaturatingMul(p.stride, plane_row_count(f, index, height) - 1)),
                             MinStride(f, index, width)),
                  end_offset(p))

\* MediaRect::validate: the far corner can be named.
RectValid(r) == r.x + r.width <= U32Max /\ r.y + r.height <= U32Max

ImageValid(i, size) ==
    /\ i.width # 0 /\ i.height # 0
    /\ RectValid(i.visible) /\ (i.crop # None => RectValid(i.crop))
    /\ Len(i.planes) = expected_plane_count(i.format)
    /\ \A k \in 1..Len(i.planes) :
         LET p == i.planes[k] IN
         /\ p.stride # 0
         /\ EndsWithin(end_offset(p), size)
         /\ validate_plane_stride(i.format, p, k, i.width, i.height)

-----------------------------------------------------------------------------
(* Legacy metadata and its reconciliation (dg-media media_meta.rs)         *)

\* stream_format_to_bitstream: H26x is always read as H264.
StreamFormatToBitstream ==
    [CanonicalH26x |-> "H264AnnexB", CanonicalAv1Obu |-> "Av1Obu",
     CanonicalVp8Frame |-> "Vp8Frame", CanonicalVp9Frame |-> "Vp9Frame",
     MjpegFrame |-> "JpegInterchange", AacRaw |-> "AacRaw"]

stream_format_to_bitstream(f) ==
    IF f \in DOMAIN StreamFormatToBitstream THEN StreamFormatToBitstream[f] ELSE "Unknown"

BitstreamToStreamFormat ==
    [H264AnnexB |-> "CanonicalH26x", H265AnnexB |-> "CanonicalH26x",
     Av1Obu |-> "CanonicalAv1Obu", Vp8Frame |-> "CanonicalVp8Frame",
     Vp9Frame |-> "CanonicalVp9Frame", JpegInterchange |-> "MjpegFrame",
     AacRaw |-> "AacRaw", AacAdts |-> "AacRaw"]

\* What a media_info says in the words of stream_metadata, without its track.
LegacyOf(info) ==
    LET e  == info.info
        tb == Or(info.timing.time_base, [num |-> 1, den |-> 1])
    IN  [kind   |-> IF e.kind = "Unknown" THEN "Video" ELSE e.kind,
         codec  |-> IF e.codec = "Jpeg" THEN "Unknown" ELSE e.codec,
         format |-> IF e.bitstream \in DOMAIN BitstreamToStreamFormat
                    THEN BitstreamToStreamFormat[e.bitstream] ELSE "Unknown",
         timebase |-> tb, key |-> e.key]

legacy_from_media_info(info) ==
    IF ~info.encoded THEN None ELSE LegacyOf(info) @@ [track |-> Or(info.info.track, 0)]

media_info_from_stream_metadata(legacy, timing) ==
    encoded([index |-> 0, track |-> legacy.track, kind |-> legacy.kind, codec |-> legacy.codec,
             bitstream |-> stream_format_to_bitstream(legacy.format), key |-> legacy.key,
             configs |-> <<>>], timing)

Conflict(legacy, info) ==
    /\ info.encoded
    /\ \/ info.info.track # None /\ info.info.track # legacy.track
       \/ legacy.codec # "Unknown" /\ legacy.codec # info.info.codec
       \/ legacy.key # info.info.key
       \/ info.timing.time_base # None /\ info.timing.time_base # legacy.timebase

TopTiming(meta) ==
    [pts |-> meta.pts, dts |-> meta.dts,
     time_base |-> IF meta.legacy = None THEN None ELSE meta.legacy.timebase]

\* Neither kind of metadata is there, only timestamps.
UnknownInfo(timing) ==
    [timing |-> timing, encoded |-> TRUE,
     info |-> [index |-> 0, track |-> None, kind |-> "Unknown", codec |-> "Unknown",
               bitstream |-> "Unknown", key |-> FALSE, configs |-> <<>>]]

normalize_media_frame_meta_KeepsTop(meta) ==
    LET info == CASE meta.info = None /\ meta.legacy # None ->
                       media_info_from_stream_metadata(meta.legacy, TopTiming(meta))
                  [] OTHER -> meta.info
        conflicts == meta.info # None /\ meta.legacy # None /\ Conflict(meta.legacy, meta.info)
    IN  IF info = Err \/ conflicts THEN Err ELSE [meta EXCEPT !.info = info]

\* The frame's metadata with the info that was found for it.
Reconciled(meta, info) ==
    IF info = Err THEN Err
    ELSE [meta EXCEPT
            !.info   = info,
            !.legacy = IF meta.info # None /\ @ = None THEN legacy_from_media_info(info) ELSE @,
            !.pts    = IF info = None THEN @ ELSE info.timing.pts,
            !.dts    = IF info = None THEN @ ELSE info.timing.dts]

normalize_media_frame_meta(meta) ==
    Reconciled(meta,
        IF meta.info # None
        THEN IF meta.legacy # None /\ Conflict(meta.legacy, meta.info) THEN Err ELSE meta.info
        ELSE IF meta.legacy # None THEN media_info_from_stream_metadata(meta.legacy, TopTiming(meta))
        ELSE IF meta.pts # None \/ meta.dts # None THEN UnknownInfo(TopTiming(meta)) ELSE None)

\* The same of metadata that may have been refused before.
Normalized(meta) == IF meta = Err THEN Err ELSE normalize_media_frame_meta(meta)

media_frame_timing(meta) == IF meta.info # None THEN meta.info.timing ELSE TopTiming(meta)

-----------------------------------------------------------------------------
(* The maps to and from the codec library (format_map.rs)                  *)

AvcodecCodecs == {"H264", "H265", "VP8", "VP9", "AV1", "MJPEG", "Jpeg"}
AvcodecBitstreams == {"H264AnnexB", "H264Avcc", "H265AnnexB", "H265Hvcc", "Vp8Frame",
                      "Vp9Frame", "Av1Obu", "JpegInterchange"}
AvcodecPixels == {"Yuv420P", "Yuv422P", "Yuv444P", "Nv12", "Nv21", "Rgb24", "Bgr24",
                  "Rgba", "Bgra", "Gray8"}

core_codec_to_avcodec(c) == IF c \in AvcodecCodecs THEN c ELSE Err
avcodec_codec_to_core(c) == IF c \in AvcodecCodecs THEN c ELSE "Unknown"
core_bitstream_to_avcodec(b) == IF b \in AvcodecBitstreams THEN b ELSE Err
avcodec_bitstream_to_core(b) == IF b \in AvcodecBitstreams THEN b ELSE "Unknown"
core_pixel_to_avcodec(f) == IF f \in AvcodecPixels THEN f ELSE Err
avcodec_image_to_core_pixel(f) == IF f \in AvcodecPixels THEN f ELSE "Unknown"
is_multiplane_pixel(f) == expected_plane_count(f) \in {2, 3}

\* A packet of the library says nothing about a track or codec configuration.
packet_to_encoded_media_info(p) ==
    [index |-> p.index, track |-> None, kind |-> "Video",
     codec |-> avcodec_codec_to_core(p.codec),
     bitstream |-> avcodec_bitstream_to_core(p.bitstream), key |-> p.key, configs |-> <<>>]

packet_to_media_info(p) ==
    encoded(packet_to_encoded_media_info(p),
            [pts |-> p.pts, dts |-> p.dts, time_base |-> p.time_base])

\* An image of the library has no time base; its whole area is visible.
image_to_media_info(i, size) ==
    IF avcodec_image_to_core_pixel(i.format) # "Unknown"
          /\ ImageValid(i @@ [visible |-> [x |-> 0, y |-> 0, width |-> i.width, height |-> i.height], crop |-> None], size)
    THEN [timing |-> [pts |-> i.pts, dts |-> i.dts, time_base |-> None], encoded |-> FALSE,
          info |-> [key |-> FALSE, format |-> i.format, planes |-> i.planes]]
    ELSE Err

encoded_info_from_media_info(info) == IF info.encoded THEN info.info ELSE Err

-----------------------------------------------------------------------------
(* Transfers (planner.rs)                                                  *)

preferred_memory_domain(device, mode) ==
    CASE device \in {"Cpu", "IntelGpu", "IntelNpu"} -> "Host"
      [] device = "CudaGpu" -> "CudaDevice"
      [] device = "RknnNpu" -> IF mode = "SoC" THEN "MppBuffer" ELSE "DmaBuf"
      [] device = "SophonTpu" -> "SophonDevice"

compatible_handle_kinds(s, t) ==
    s = t \/ {s, t} \in {{"Avcodec", "External"}, {"HostBytes", "External"}}

StagedPath(from, to) ==
    IF "Host" \in {from, to} THEN [domains |-> <<from, to>>, copies |-> 1]
    ELSE [domains |-> <<from, "Host", to>>, copies |-> 2]

\* plan_frame: a frame is shared only with every proof of compatibility.
plan_frame_AnyHandle(r) ==
    IF r.from = r.to /\ r.layout = r.target_layout /\ r.guard
    THEN [mode |-> "Shared", path |-> [domains |-> <<r.from>>, copies |-> 0]]
    ELSE IF ~r.staging THEN Err
    ELSE [mode |-> "Staged", path |-> StagedPath(r.from, r.to)]

plan_frame(r) ==
    IF r.from = r.to /\ compatible_handle_kinds(r.handle, r.target_handle)
          /\ r.layout = r.target_layout /\ r.guard
    THEN [mode |-> "Shared", path |-> [domains |-> <<r.from>>, copies |-> 0]]
    ELSE IF ~r.staging THEN Err
    ELSE [mode |-> "Staged", path |-> StagedPath(r.from, r.to)]

\* ZeroCopyPlanner::plan: no handle, no layout, so never zero copy.
plan(caps, device, mode, from) ==
    IF device \in caps.devices /\ mode \in caps.deployments
    THEN [target |-> preferred_memory_domain(device, mode), zero_copy |-> FALSE,
          path |-> StagedPath(from, preferred_memory_domain(device, mode))]
    ELSE Err

-----------------------------------------------------------------------------
(* Profiles (profile.rs, legacy.rs)                                        *)

Profiles == {"NativeFree", "Software", "RkmppHost", "RkmppHostFallback", "RkmppZeroCopy",
             "NvcodecHost", "NvcodecHostFallback", "NvcodecDeviceFrame", "OnevplHost",
             "OnevplHostFallback", "AmfHost", "AmfHostFallback"}

ensure_compiled(p, compiled) == IF p \in compiled THEN p ELSE Err

reject_profile_hw_conflict(profile, hw) == profile # None /\ hw # None

\* The profile that was asked for, the one the old feature stands for, or the
\* only one there is; two are one too many.
resolve_profile(name, legacy, compiled) ==
    IF name # None THEN IF name \in Profiles THEN ensure_compiled(name, compiled) ELSE Err
    ELSE IF legacy THEN ensure_compiled("Software", compiled)
    ELSE IF Cardinality(compiled) = 1 THEN CHOOSE p \in compiled : TRUE ELSE Err

resolve_profile_from_device(device) ==
    CASE device \in {"Cpu", "IntelNpu"} -> "Software"
      [] device = "IntelGpu" -> "OnevplHostFallback"
      [] device = "CudaGpu" -> "NvcodecHostFallback"
      [] device = "RknnNpu" -> "RkmppHostFallback"
      [] OTHER -> None

resolve_legacy_hw(hw) ==
    [Auto |-> "Software", Rockchip |-> "RkmppHost", Nvidia |-> "NvcodecHost",
     Intel |-> "OnevplHost", Amd |-> "AmfHost", Software |-> "Software"][hw]
=============================================================================
