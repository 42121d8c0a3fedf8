----------------------------- MODULE StreamRules -----------------------------
(***************************************************************************)
(* The rules of dg-stream: which tracks can be streamed, which parameters  *)
(* a pull or push element accepts, how long it waits before it tries       *)
(* again, which endpoint a URL opens, and what becomes of a frame on its   *)
(* way from the media server (cheetah, external) through a pull element, a *)
(* packet and a push element back to a media server.                       *)
(***************************************************************************)
EXTENDS MediaRules

CONSTANTS MaxTracks,        \* MAX_STREAM_TRACKS
          MaxRetryBackoff   \* MAX_RETRY_BACKOFF_MS

ASSUME StreamRulesAssumption == {MaxTracks, MaxRetryBackoff} \subseteq Nat

-----------------------------------------------------------------------------
(* The names dg-stream, dg-media and the media server have in common; the  *)
(* conversions between the three enumerations take each to its namesake.   *)

StreamCodecs == {"H264", "H265", "H266", "AV1", "VP8", "VP9", "MJPEG", "AAC", "ADPCM", "Opus",
                 "G711A", "G711U", "MP2", "MP3", "Unknown"}

StreamFormats == {"CanonicalH26x", "CanonicalAv1Obu", "CanonicalVp8Frame", "CanonicalVp9Frame",
                  "MjpegFrame", "AacRaw", "AdpcmPacket", "OpusPacket", "G711Packet", "Mp2Frame",
                  "Mp3Frame", "DataPacket", "Unknown"}

ExtradataKinds == {"None", "H264", "H265", "H266", "AAC", "AV1", "VP8", "VP9", "MP3", "Opus", "Raw"}

-----------------------------------------------------------------------------
(* Tracks (track.rs)                                                       *)

config_requirement(codec) ==
    CASE codec \in {"H264", "H265", "H266", "AAC"} -> "Required"
      [] codec \in {"AV1", "VP8", "VP9", "MP3", "Opus"} -> "Optional"
      [] OTHER -> "None"

\* Extradata: the codec it is for, how many parameter sets of each kind, and
\* the size of the one record that holds them all.
missing_detail(x, codec) ==
    CASE codec = "H264" -> ~(x.of = "H264" /\ (x.record # None \/ (x.sps > 0 /\ x.pps > 0)))
      [] codec = "H265" -> ~(x.of = "H265" /\ (x.record # None
                                 \/ (x.vps > 0 /\ x.sps > 0 /\ x.pps > 0)))
      [] codec = "H266" -> ~(x.of = "H266" /\ x.vps > 0 /\ x.sps > 0 /\ x.pps > 0)
      [] codec = "AAC"  -> ~(x.of = "AAC" /\ Or(x.record, 0) > 0)
      [] OTHER -> FALSE

validate_codec_config(t) ==
    config_requirement(t.codec) = "Required" => ~missing_detail(t.extradata, t.codec)

is_streamable(t) == t.readiness = "Ready" /\ validate_codec_config(t)

to_config_payload(x) == IF x.of \in {"None", "Raw"} THEN "None" ELSE x.of

\* What a pull element accepts of an endpoint (StreamPullElement::validate_tracks).
endpoint_tracks_valid(tracks) ==
    Len(tracks) <= MaxTracks /\ \A i \in 1..Len(tracks) : is_streamable(tracks[i])

\* What a push element accepts as parameters (validate_tracks).
validate_tracks(tracks) ==
    /\ \A i, j \in 1..Len(tracks) : i # j => tracks[i].track # tracks[j].track
    /\ \A i \in 1..Len(tracks) :
         /\ tracks[i].clock_rate # 0
         /\ 0 \notin tracks[i].dims        \* sample_rate, channels, width, height, fps
         /\ tracks[i].readiness = "Ready" => validate_codec_config(tracks[i])

-----------------------------------------------------------------------------
(* Codec configuration of a track (elements.rs)                            *)

clone_codec_config(n) == IF n > MaxConfigItem THEN Err ELSE n

\* One start code and the parameter set, within the budget for all.
annexb_append_nal(out, start, nal) ==
    IF out = Err \/ CheckedAdd(out, CheckedAdd(start, nal)) = Err THEN Err
    ELSE IF out + start + nal > MaxConfigTotal THEN Err ELSE out + start + nal

\* n parameter sets of `nal` bytes each, joined.
AnnexB(n, nal) ==
    FoldSeq(LAMBDA size, out : annexb_append_nal(out, 4, size), 0, [i \in 1..n |-> nal])

RecordConfig(x) == IF x.record = None THEN <<>> ELSE <<CodecConfig(clone_codec_config(x.record))>>

AnnexBConfig(size) == IF size = 0 THEN <<>> ELSE <<CodecConfig(size)>>

track_codec_configs(x) ==
    AllOrErr((IF x.of \in {"H264", "H265", "H266"} THEN AnnexBConfig(AnnexB(x.vps + x.sps + x.pps, x.nal)) ELSE <<>>)
             \o (IF x.of \in {"H264", "H265", "AAC", "AV1", "VP8", "VP9"} THEN RecordConfig(x) ELSE <<>>))

track_bitstream_format(codec) ==
    CASE codec = "H264" -> "H264AnnexB"
      [] codec \in {"H265", "H266"} -> "H265AnnexB"
      [] codec = "AV1" -> "Av1Obu"
      [] codec = "VP8" -> "Vp8Frame"
      [] codec = "VP9" -> "Vp9Frame"
      [] codec = "MJPEG" -> "JpegInterchange"
      [] codec = "AAC" -> "AacRaw"
      [] OTHER -> "Unknown"

canonical_format(codec) ==
    CASE codec \in {"H264", "H265", "H266"} -> "CanonicalH26x"
      [] codec = "AV1" -> "CanonicalAv1Obu"
      [] codec = "VP8" -> "CanonicalVp8Frame"
      [] codec = "VP9" -> "CanonicalVp9Frame"
      [] codec = "MJPEG" -> "MjpegFrame"
      [] codec = "AAC" -> "AacRaw"
      [] codec = "ADPCM" -> "AdpcmPacket"
      [] codec = "Opus" -> "OpusPacket"
      [] codec \in {"G711A", "G711U"} -> "G711Packet"
      [] codec = "MP2" -> "Mp2Frame"
      [] codec = "MP3" -> "Mp3Frame"
      [] OTHER -> "Unknown"

-----------------------------------------------------------------------------
(* The way of a frame.  A media frame is [meta, size], meta being          *)
(* [pts, dts, stream_id, tags, info, legacy].                              *)

\* From the media server: the size is checked before anything is copied.
cheetah_frame_metadata(f) ==
    [track |-> f.track, kind |-> f.kind, codec |-> f.codec, format |-> f.format,
     timebase |-> f.timebase, key |-> f.key]

BridgeBitstream(f) ==
    IF f.format = "CanonicalH26x"
    THEN IF f.codec \in {"H265", "H266"} THEN "H265AnnexB" ELSE "H264AnnexB"
    ELSE stream_format_to_bitstream(f.format)

MediaFrame(meta, size) == IF meta = Err THEN Err ELSE [meta |-> meta, size |-> size]

PulledMeta(f, info) ==
    IF info = Err THEN Err
    ELSE [pts |-> f.pts, dts |-> f.dts, stream_id |-> f.track, tagged |-> FALSE,
          info |-> info, legacy |-> cheetah_frame_metadata(f)]

cheetah_avframe_to_media_frame(f, max) ==
    IF f.timebase.den = 0 \/ f.size > max THEN Err
    ELSE MediaFrame(Normalized(PulledMeta(f,
           encoded([index |-> f.track, track |-> f.track, kind |-> f.kind, codec |-> f.codec,
                    bitstream |-> BridgeBitstream(f), key |-> f.key, configs |-> <<>>],
                   [pts |-> f.pts, dts |-> f.dts, time_base |-> f.timebase]))), f.size)

\* The track of a frame: what the authoritative metadata says, then the
\* legacy one, then the stream id when it is a number.
resolve_frame_track_id(m) ==
    IF m.info # None /\ m.info.encoded /\ m.info.info.track # None THEN m.info.info.track
    ELSE IF m.legacy # None THEN m.legacy.track
    ELSE IF m.stream_id = None THEN Err ELSE m.stream_id

FrameKey(m) ==
    IF m.info # None THEN is_keyframe(m.info) ELSE IF m.legacy # None THEN m.legacy.key ELSE m.tagged

\* The announced track of a frame: the one it names, or the only one.
AnnouncedTrack(id, tracks) ==
    IF \E t \in tracks : t.track = id THEN CHOOSE t \in tracks : t.track = id
    ELSE IF id = Err /\ Cardinality(tracks) = 1 THEN CHOOSE t \in tracks : TRUE ELSE Err

Contradicts(m, t) ==
    /\ m.info # None /\ m.info.encoded
    /\ \/ m.info.info.codec \notin {"Unknown", t.codec}
       \/ m.info.info.track \notin {None, t.track}

TrackTiming(m, t) ==
    [pts |-> IF m.pts # None \/ m.info = None THEN m.pts ELSE m.info.timing.pts,
     dts |-> IF m.dts # None \/ m.info = None THEN m.dts ELSE m.info.timing.dts,
     time_base |-> [num |-> 1, den |-> t.clock_rate]]

TrackInfo(m, t, configs) ==
    IF configs = Err THEN Err
    ELSE encoded([index |-> t.track, track |-> t.track, kind |-> t.kind, codec |-> t.codec,
                  bitstream |-> track_bitstream_format(t.codec), key |-> FrameKey(m), configs |-> configs],
                 TrackTiming(m, t))

WithInfo(m, info) ==
    IF info = Err THEN Err ELSE [m EXCEPT !.info = info, !.pts = info.timing.pts, !.dts = info.timing.dts]

\* The track gives the frame codec, time base and configuration, and must not
\* contradict what the frame says.
WithTrack(m, t) ==
    IF t = Err THEN Err
    ELSE IF t.clock_rate = 0 \/ t.track > U32Max \/ Contradicts(m, t) THEN Err
    ELSE WithInfo(m, TrackInfo(m, t, track_codec_configs(t.extradata)))

enrich_frame_media_info(m, tracks) ==
    IF tracks = {} THEN m ELSE WithTrack(m, AnnouncedTrack(resolve_frame_track_id(m), tracks))

\* A packet carries the tags, the stream id and the authoritative metadata.
PacketOf(m, sequence, size) ==
    IF m = Err THEN Err
    ELSE [sequence |-> sequence, stream_id |-> m.stream_id, tagged |-> m.tagged,
          info |-> m.info, tag_pts |-> None, tag_dts |-> None, size |-> size]

media_frame_to_packet(frame, sequence, tracks) ==
    IF frame = Err THEN Err
    ELSE PacketOf(Normalized(enrich_frame_media_info(frame.meta, tracks)), sequence, frame.size)

\* Timestamps in tags count only without authoritative metadata.
packet_to_media_frame(p) ==
    IF p = Err THEN Err
    ELSE MediaFrame(normalize_media_frame_meta(
           [pts |-> IF p.info = None THEN p.tag_pts ELSE None,
            dts |-> IF p.info = None THEN p.tag_dts ELSE None,
            stream_id |-> p.stream_id, tagged |-> p.tagged, info |-> p.info, legacy |-> None]), p.size)

stream_metadata_from_media_info(info) ==
    IF ~info.encoded THEN Err
    ELSE LegacyOf(info) @@ [track |-> Or(info.info.track, info.info.index)]

\* push_frame of the adapter: the metadata of the frame, or of its announced track.
push_frame_metadata(m, announced) ==
    LET mine == {t \in announced : t.track = m.stream_id}
        t    == CHOOSE t \in mine : TRUE
    IN  IF m.info # None THEN stream_metadata_from_media_info(m.info)
        ELSE IF m.legacy # None THEN m.legacy
        ELSE IF m.stream_id = None \/ mine = {} THEN Err
        ELSE IF t.clock_rate = 0 THEN Err
        ELSE [track |-> t.track, kind |-> t.kind, codec |-> t.codec, format |-> canonical_format(t.codec),
              timebase |-> [num |-> 1, den |-> t.clock_rate], key |-> m.tagged]

media_frame_to_cheetah_avframe(frame, md, max) ==
    IF md = Err THEN Err
    ELSE IF frame.size > max \/ md.track > U32Max THEN Err
    ELSE [track |-> md.track, kind |-> md.kind, codec |-> md.codec, format |-> md.format,
          pts |-> Or(frame.meta.pts, 0), dts |-> Or(frame.meta.dts, 0),
          timebase |-> md.timebase, key |-> md.key, size |-> frame.size]

\* The whole way: server, pull element, packet, push element, server.  Each
\* station passes a refusal on.
Pushed(frame, tracks, max) ==
    IF frame = Err THEN Err
    ELSE media_frame_to_cheetah_avframe(frame, push_frame_metadata(frame.meta, tracks), max)

Relay(f, tracks, max) ==
    Pushed(packet_to_media_frame(media_frame_to_packet(cheetah_avframe_to_media_frame(f, max), 0, tracks)),
           tracks, max)

\* A track on its way to the media server.
media_frame_to_cheetah_track_info(t) == IF t.track > U32Max THEN Err ELSE t

-----------------------------------------------------------------------------
(* Parameters, retries and endpoints                                       *)

read_retry_config(p) ==
    IF /\ p.initial <= MaxRetryBackoff /\ p.max <= MaxRetryBackoff /\ p.initial <= p.max
       /\ p.multiplier # 0 /\ p.jitter <= 100 /\ p.attempts <= U32Max
    THEN p ELSE Err

network_schemes ==
    [RtspPull |-> {"rtsp", "rtsps"}, HttpFlvPull |-> {"http", "https"},
     RtmpPush |-> {"rtmp", "rtmps"}, WebRtcPush |-> {"webrtc", "whip"}]

is_pull(protocol) == protocol \in {"RtspPull", "HttpFlvPull"}

validate_endpoint_url(protocol, scheme) ==
    scheme # None /\ (scheme = "mock" \/ scheme \in network_schemes[protocol])

\* The parameters a pull element accepts, those of an element of its protocol.
parse_pull(protocol, p) ==
    /\ p.unknown = {} /\ p.url # None
    /\ validate_endpoint_url(protocol, p.url.scheme)
    /\ p.queue_capacity # 0
    /\ p.video \/ p.audio
    /\ p.backpressure \in {"DropDroppableFirst", "DropUntilNextKeyframe", "DisconnectOnOverflow"}
    /\ read_retry_config(p.retry) # Err

parse_push(protocol, p) ==
    /\ p.unknown = {} /\ p.url # None
    /\ validate_endpoint_url(protocol, p.url.scheme)
    /\ validate_tracks(p.tracks)
    /\ read_retry_config(p.retry) # Err

\* multiplier.saturating_pow(exponent), one factor at a time.
SaturatingPow(m, n) == FoldSeq(LAMBDA x, acc : SaturatingMul(acc, m), 1, [i \in 1..n |-> m])

\* The pauses an attempt may have: grown, clamped, and spread by the jitter.
Spread(pause, jitter) ==
    {Min({pause + j, MaxRetryBackoff}) : j \in 0..Max({0, (SaturatingMul(pause, jitter) \div 100) - 1})}

backoff(r, attempt) ==
    Spread(Min({SaturatingMul(Min({r.initial, MaxRetryBackoff}), SaturatingPow(r.multiplier, attempt - 1)),
                r.max, MaxRetryBackoff}), r.jitter)

\* Which server an open goes to; a network scheme needs the cheetah feature.
OpensAt(protocol, scheme, cheetah) ==
    IF ~validate_endpoint_url(protocol, scheme) THEN Err
    ELSE IF scheme = "mock" THEN "hub"
    ELSE IF cheetah THEN "connector" ELSE Err

open_pull(protocol, scheme, cheetah) ==
    IF is_pull(protocol) THEN OpensAt(protocol, scheme, cheetah) ELSE Err

open_push(protocol, scheme, cheetah) ==
    IF is_pull(protocol) THEN Err ELSE OpensAt(protocol, scheme, cheetah)

\* What of a URL [scheme, userinfo, path, query, fragment] is logged.  The query and fragment
\* of an address of these schemes are cut from the path, and stay when there is none.
redact_url_tokens(url) ==
    LET known == url.scheme \in UNION {network_schemes[p] : p \in DOMAIN network_schemes} \cup {"mock"}
        kept == known /\ ~url.path
    IN  [url EXCEPT !.userinfo = IF known THEN None ELSE @,
                    !.query = IF kept THEN @ ELSE None, !.fragment = IF kept THEN @ ELSE None]
=============================================================================
