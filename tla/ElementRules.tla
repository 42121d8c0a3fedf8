----------------------------- MODULE ElementRules -----------------------------
(***************************************************************************)
(* The rules of dg-elements: what the parameters of a processing element   *)
(* may be, how an image is fitted into a network's input and boxes mapped  *)
(* back, how detections are suppressed, tracked, and text is found and     *)
(* decoded.  Coordinates are integers (in units small enough to be exact), *)
(* ratios are <<numerator, denominator>>, scores are percentages.          *)
(***************************************************************************)
EXTENDS RuleValues

CONSTANTS Lim     \* the MAX_ constants: [nms, top_k, ranked, sizes, anchors, labels, alphabet, max_lost,
                  \*   tracks, detections, pixels, regions, region, rows, classes, exact, url, method]

-----------------------------------------------------------------------------
(* Ports and parameters of the kinds (yolo.rs, extras.rs, parallel.rs,     *)
(* tools.rs): params and needs (the required ones) are what a descriptor   *)
(* announces, fields what the parser knows.                                *)

Port(name, required, dtype) == [name |-> name, required |-> required, dtype |-> dtype]
InPort(dtype) == {Port("in", TRUE, dtype)}
OutPort(dtype) == {Port("out", FALSE, dtype)}
Kind(ins, outs, params, needs, fields) ==
    [ins |-> ins, outs |-> outs, params |-> params, needs |-> needs, fields |-> fields]

YoloKinds ==
    [yolo_preprocess |-> Kind(InPort(None), OutPort("f32"), {"input_width", "input_height"}, {},
                              {"input_width", "input_height"}),
     yolo_postprocess |-> Kind(InPort("f32"), OutPort(None),
        {"input_width", "input_height", "class_count", "confidence_threshold", "nms_threshold"}, {},
        {"input_width", "input_height", "class_count", "confidence_threshold", "nms_threshold"})]

ExtraKinds ==
    [resnet_preprocess |-> Kind(InPort(None), OutPort("f32"), {"input_width", "input_height", "mean", "std"}, {},
                                {"input_width", "input_height", "mean", "std"}),
     resnet_postprocess |-> Kind(InPort("f32"), OutPort(None), {"top_k", "labels"}, {}, {"top_k", "labels"}),
     retinaface |-> Kind(InPort("f32"), OutPort(None),
        {"image_width", "image_height", "stride", "confidence_threshold", "nms_threshold", "anchor_sizes"}, {},
        {"image_width", "image_height", "stride", "confidence_threshold", "nms_threshold", "anchor_sizes"}),
     bytetrack |-> Kind(InPort(None), OutPort(None), {"max_lost", "match_iou"}, {}, {"max_lost", "match_iou"}),
     ppocr_det |-> Kind(InPort("f32"), OutPort(None), {"threshold"}, {}, {"threshold"}),
     ppocr_rec |-> Kind(InPort("f32"), OutPort(None), {"alphabet", "blank_index"}, {}, {"alphabet", "blank_index"})]

ParallelKinds ==
    [distributor |-> Kind(InPort(None),
        {Port(n, FALSE, None) : n \in {"out0", "out1", "out2", "out3", "out4", "out5", "out6", "out7"}},
        {"strategy"}, {}, {"strategy"}),
     converger |-> Kind(
        {Port(n, n = "in0", None) : n \in {"in0", "in1", "in2", "in3", "in4", "in5", "in6", "in7"}},
        OutPort(None), {}, {}, {}),
     filter |-> Kind(InPort(None), OutPort(None), {"mode"}, {}, {"mode"})]

ToolKinds == [http_push |-> Kind(InPort(None), {}, {"url", "method"}, {"url"}, {"url", "method"})]

ElementKinds == YoloKinds @@ ExtraKinds @@ ParallelKinds @@ ToolKinds

\* A parameter of the wrong type reads as Err.
read_usize(params, key, default) == IF key \in DOMAIN params THEN params[key] ELSE default
NonZero(v) == IF v = 0 THEN Err ELSE v
Probability(v) == IF v = Err THEN Err ELSE IF v \in 0..100 THEN v ELSE Err
read_nonzero_usize(params, key, default) == NonZero(read_usize(params, key, default))
read_probability(params, key, default) == Probability(read_usize(params, key, default))
read_f32_array(params, key, default) ==
    IF key \notin DOMAIN params THEN default
    ELSE IF params[key] = Err THEN Err
    ELSE IF Len(params[key]) # 3 \/ Err \in ToSet(params[key]) THEN Err ELSE params[key]
read_f32_vec(params, key) ==
    IF key \notin DOMAIN params THEN <<>>
    ELSE IF params[key] = Err THEN Err
    ELSE IF Err \in ToSet(params[key]) THEN Err ELSE params[key]
read_string_vec(params, key) == read_f32_vec(params, key)

reject_unknown_fields(params, known) == DOMAIN params \subseteq known
AllRead(config) == \A f \in DOMAIN config : config[f] # Err
Parsed(params, known, config) == IF reject_unknown_fields(params, known) /\ AllRead(config) THEN config ELSE Err

\* What a parser read, unless it read nothing or what it read is over a limit.
Within(config, fits) == IF config = Err THEN Err ELSE IF fits THEN config ELSE Err

\* yolo.rs
InputSize(w, h) == [width |-> w, height |-> h, values |-> CheckedMul(CheckedMul(w, h), 3)]
SquareByDefault(params, w) == InputSize(w, read_nonzero_usize(params, "input_height", w))
parse_preprocess(params) ==
    Parsed(params, YoloKinds.yolo_preprocess.fields, SquareByDefault(params, read_nonzero_usize(params, "input_width", 8)))

usize_to_f32(v) == IF v = Err THEN Err ELSE IF v > Lim.exact THEN Err ELSE v

ClassesFit(config) == Within(config, config.classes <= Lim.classes)
PostprocessConfig(params, w, classes) ==
    [width |-> usize_to_f32(w), height |-> usize_to_f32(read_nonzero_usize(params, "input_height", w)),
     classes |-> classes, attributes |-> CheckedAdd(classes, 5),
     confidence |-> read_probability(params, "confidence_threshold", 25),
     nms |-> read_probability(params, "nms_threshold", 45)]
parse_postprocess(params) ==
    ClassesFit(Parsed(params, YoloKinds.yolo_postprocess.fields,
                      PostprocessConfig(params, read_nonzero_usize(params, "input_width", 8),
                                        read_nonzero_usize(params, "class_count", 1))))

\* extras.rs
StdPositive(config) == Within(config, \A i \in 1..3 : config.std[i] > 0)
parse_resnet_preprocess(params) ==
    StdPositive(Parsed(params, ExtraKinds.resnet_preprocess.fields,
                       SquareByDefault(params, read_nonzero_usize(params, "input_width", 8))
                       @@ [mean |-> read_f32_array(params, "mean", <<48, 45, 40>>),
                           std |-> read_f32_array(params, "std", <<22, 22, 22>>)]))

LabelsFit(config) == Within(config, config.top_k <= Lim.top_k /\ Len(config.labels) <= Lim.labels)
parse_resnet_postprocess(params) ==
    LabelsFit(Parsed(params, ExtraKinds.resnet_postprocess.fields,
                     [top_k |-> read_nonzero_usize(params, "top_k", 5), labels |-> read_string_vec(params, "labels")]))

AnchorCount(width, height, stride, sizes) ==
    CheckedMul(CheckedMul(DivCeil(width, stride), DivCeil(height, stride)), Len(sizes))
SizesValid(sizes) == Len(sizes) <= Lim.sizes /\ \A i \in DOMAIN sizes : sizes[i] > 0
AnchorsFit(count) == IF count = Err THEN FALSE ELSE count <= Lim.anchors

RetinafaceFits(config) ==
    Within(config, /\ SizesValid(config.sizes)
                   /\ AnchorsFit(AnchorCount(config.width, config.height, config.stride, config.sizes)))
RetinafaceConfig(params, w, sizes) ==
    [width |-> w, height |-> read_nonzero_usize(params, "image_height", w),
     stride |-> read_nonzero_usize(params, "stride", 4),
     score |-> read_probability(params, "confidence_threshold", 50),
     nms |-> read_probability(params, "nms_threshold", 40),
     sizes |-> IF sizes = <<>> THEN <<10, 20>> ELSE sizes]
parse_retinaface(params) ==
    RetinafaceFits(Parsed(params, ExtraKinds.retinaface.fields,
                          RetinafaceConfig(params, read_nonzero_usize(params, "image_width", 8),
                                           read_f32_vec(params, "anchor_sizes"))))

MaxLostFits(config) == Within(config, config.max_lost <= Lim.max_lost)
parse_bytetrack(params) ==
    MaxLostFits(Parsed(params, ExtraKinds.bytetrack.fields,
                       [max_lost |-> read_usize(params, "max_lost", 2), match |-> read_probability(params, "match_iou", 30)]))

parse_ppocr_det(params) ==
    Parsed(params, ExtraKinds.ppocr_det.fields, [threshold |-> read_probability(params, "threshold", 30)])

\* alphabet: a sequence of characters
AlphabetFits(config) ==
    Within(config, Len(config.alphabet) \in 1..Lim.alphabet /\ config.blank <= Len(config.alphabet))
RecConfig(params, alphabet) ==
    [alphabet |-> alphabet,
     blank |-> IF alphabet = Err THEN Err ELSE read_usize(params, "blank_index", Len(alphabet))]
parse_ppocr_rec(params) ==
    AlphabetFits(Parsed(params, ExtraKinds.ppocr_rec.fields,
                        RecConfig(params, read_usize(params, "alphabet", <<"0", "1">>))))

\* parallel.rs; the converger also takes no params object at all (None).
StrategyKnown(config) == Within(config, config.strategy \in {"round_robin", "broadcast"})
parse_distributor(params) ==
    StrategyKnown(Parsed(params, ParallelKinds.distributor.fields,
                         [strategy |-> read_usize(params, "strategy", "round_robin")]))
validate_converger(params) == IF params = None THEN TRUE ELSE reject_unknown_fields(params, ParallelKinds.converger.fields)
ModeKnown(config) == Within(config, config.mode \in {"pass", "drop"})
parse_filter(params) ==
    ModeKnown(Parsed(params, ParallelKinds.filter.fields, [mode |-> read_usize(params, "mode", "pass")]))

\* tools.rs.  A URL is [scheme, user, tail, len, blank]: whether it names a user, the marks
\* "/", "?", "#" and words after its host, its length (0: nothing after the scheme) and whether
\* it holds white space.
validate_http_url(url) == url.scheme \in {"http", "https"} /\ url.len > 0 /\ ~url.blank

\* method: [len, blank]
RequestFits(config) ==
    Within(config, /\ config.url.len <= Lim.url /\ validate_http_url(config.url)
                   /\ config.method.len \in 1..Lim.method /\ ~config.method.blank)
parse_http_push(params) ==
    RequestFits(Parsed(params, ToolKinds.http_push.fields,
                       [url |-> read_usize(params, "url", Err),
                        method |-> read_usize(params, "method", [len |-> 4, blank |-> FALSE])]))

\* The tail is cut at its first "?"; at its first "#" only when it has no "?".
CutAt(url, question, hash) ==
    [url EXCEPT !.user = FALSE,
                !.tail = CASE question > 0 -> SubSeq(@, 1, question - 1)
                           [] hash > 0 /\ question = 0 -> SubSeq(@, 1, hash - 1)
                           [] OTHER -> @]
FirstOf(places) == IF places = {} THEN 0 ELSE Min(places)
MarkAt(url, mark) == FirstOf({i \in DOMAIN url.tail : url.tail[i] = mark})
redact_url(url) == CutAt(url, MarkAt(url, "?"), MarkAt(url, "#"))

Parse(kind, params) ==
    CASE kind = "yolo_preprocess" -> parse_preprocess(params)
      [] kind = "yolo_postprocess" -> parse_postprocess(params)
      [] kind = "resnet_preprocess" -> parse_resnet_preprocess(params)
      [] kind = "resnet_postprocess" -> parse_resnet_postprocess(params)
      [] kind = "retinaface" -> parse_retinaface(params)
      [] kind = "bytetrack" -> parse_bytetrack(params)
      [] kind = "ppocr_det" -> parse_ppocr_det(params)
      [] kind = "ppocr_rec" -> parse_ppocr_rec(params)
      [] kind = "distributor" -> parse_distributor(params)
      [] kind = "converger" -> IF validate_converger(params) THEN params ELSE Err
      [] kind = "filter" -> parse_filter(params)
      [] kind = "http_push" -> parse_http_push(params)

-----------------------------------------------------------------------------
(* Fitting an image into a network's input (math.rs, yolo.rs, extras.rs)   *)

\* The scale is the ratio <<n, d>>; paddings are in units of 1 / 2d of a target pixel.
Letterbox(sw, sh, tw, th, n, d) ==
    [sw |-> sw, sh |-> sh, tw |-> tw, th |-> th, n |-> n, d |-> d,
     pad_x |-> tw * d - sw * n, pad_y |-> th * d - sh * n]
LetterboxNew(sw, sh, tw, th) ==
    IF 0 \in {sw, sh, tw, th} \/ Err \in {usize_to_f32(v) : v \in {sw, sh, tw, th}} THEN Err
    ELSE IF tw * sh <= th * sw THEN Letterbox(sw, sh, tw, th, tw, sw) ELSE Letterbox(sw, sh, tw, th, th, sh)

Between(v, low, high) == Max({low, Min({v, high})})

\* A box in target pixels, mapped to source pixels in units of 1 / 2n.
AxisToSource(b, pad, v, size) == Between(2 * v * b.d - pad, 0, 2 * b.n * size)
BoxOf(x, y, x_end, y_end) == [x |-> x, y |-> y, w |-> Max({x_end - x, 0}), h |-> Max({y_end - y, 0})]
map_to_source(b, box) ==
    BoxOf(AxisToSource(b, b.pad_x, box.x, b.sw), AxisToSource(b, b.pad_y, box.y, b.sh),
          AxisToSource(b, b.pad_x, box.x + box.w, b.sw), AxisToSource(b, b.pad_y, box.y + box.h, b.sh))

round_to_usize(num, den) == (2 * num + den) \div (2 * den)

\* Values are in rows of pixels of channels; index 0 is the first.  An image
\* of rw by rh pixels, placed at (px, py) of a larger one.
Placed(source, channels, sw, sh, tw, th, padding, rw, rh, px, py) ==
    [i \in 1..(tw * th * channels) |->
        LET x == (((i - 1) \div channels) % tw) - px
            y == ((i - 1) \div (channels * tw)) - py
        IN  IF x \in 0..(rw - 1) /\ y \in 0..(rh - 1)
            THEN source[((SaturatingMul(y, sh) \div rh) * sw + (SaturatingMul(x, sw) \div rw)) * channels
                        + ((i - 1) % channels) + 1]
            ELSE padding]
Centred(source, channels, sw, sh, tw, th, padding, rw, rh) ==
    Placed(source, channels, sw, sh, tw, th, padding, rw, rh, (tw - rw) \div 2, (th - rh) \div 2)
ResizedSide(n, b, limit) == Min({Max({round_to_usize(n * b.n, b.d), 1}), limit})
ResizedInto(b, source, channels, padding) ==
    IF b = Err THEN Err
    ELSE IF CheckedMul(CheckedMul(b.tw, b.th), channels) = Err THEN Err
    ELSE [box |-> b, out |-> Centred(source, channels, b.sw, b.sh, b.tw, b.th, padding,
                                     ResizedSide(b.sw, b, b.tw), ResizedSide(b.sh, b, b.th))]

resize_letterbox(source, channels, sw, sh, tw, th, padding) ==
    IF channels = 0 \/ CheckedMul(CheckedMul(sw, sh), channels) # Len(source) THEN Err
    ELSE ResizedInto(LetterboxNew(sw, sh, tw, th), source, channels, padding)

\* The format and dimensions of an image tensor, with or without a leading 1.
ImageOf(format, d) ==
    IF Len(d) # 3 \/ format \notin {"NCHW", "NHWC"} THEN Err
    ELSE IF format = "NCHW" THEN [c |-> d[1], h |-> d[2], w |-> d[3]] ELSE [c |-> d[3], h |-> d[1], w |-> d[2]]
ImageDims(format, dims) == ImageOf(format, IF Len(dims) = 4 /\ dims[1] = 1 THEN Tail(dims) ELSE dims)

\* Where channel c of the pixel (x, y) is (from 0).
PlaneIndex(im, c, x, y) == (c * im.h + y) * im.w + x
PixelIndex(im, c, x, y) == (y * im.w + x) * im.c + c
ToHwc(im, values, Index(_, _, _, _)) ==
    [i \in 1..(im.w * im.h * im.c) |->
        values[Index(im, (i - 1) % im.c, ((i - 1) \div im.c) % im.w, (i - 1) \div (im.c * im.w)) + 1]]
ToNchw(im, hwc) ==
    [i \in 1..(im.w * im.h * im.c) |->
        hwc[PixelIndex(im, (i - 1) \div (im.w * im.h), (i - 1) % im.w, ((i - 1) \div im.w) % im.h) + 1]]

\* tensor: [format, dims, dtype, readable, values]
tensor_values(t) ==
    IF ~t.readable \/ t.dtype \notin {"U8", "F32"} \/ (t.dtype = "F32" /\ Err \in ToSet(t.values)) THEN Err
    ELSE t.values

\* The hwc copy of resnet is as long as the values: a length that does not fit its
\* dimensions is refused by resize_letterbox, after the copy.
NetworkInput(r, c, tw, th) ==
    IF r = Err THEN Err
    ELSE [box |-> r.box, dims |-> <<1, c, th, tw>>, values |-> ToNchw([c |-> c, h |-> th, w |-> tw], r.out)]
Fitted(im, hwc, tw, th) == NetworkInput(resize_letterbox(hwc, im.c, im.w, im.h, tw, th, 0), im.c, tw, th)

YoloInput(t, im, tw, th) ==
    IF im = Err \/ tensor_values(t) = Err THEN Err
    ELSE IF im.c # 3 \/ CheckedMul(CheckedMul(im.c, im.h), im.w) # Len(t.values) THEN Err
    ELSE Fitted(im, IF t.format = "NCHW" THEN ToHwc(im, t.values, PlaneIndex) ELSE ToHwc(im, t.values, PixelIndex),
                tw, th)
preprocess_tensor(t, tw, th) == YoloInput(t, ImageDims(t.format, t.dims), tw, th)

ResnetInput(t, im, tw, th) ==
    IF im = Err \/ tensor_values(t) = Err \/ t.format # "NCHW" THEN Err
    ELSE IF im.c # 3 THEN Err
    ELSE Fitted(im, ToHwc(im, t.values, PlaneIndex) \o SubSeq(t.values, im.c * im.h * im.w + 1, Len(t.values)), tw, th)
resnet_preprocess_tensor(t, tw, th) == ResnetInput(t, ImageDims(t.format, t.dims), tw, th)

-----------------------------------------------------------------------------
(* Detections (math.rs, yolo.rs): [box, score, class]                      *)

\* The overlap of two boxes, as a ratio.
Overlap(a, a_len, b, b_len) == Max({Min({a + a_len, b + b_len}) - Max({a, b}), 0})
IouOf(shared, both) == IF both - shared <= 0 THEN <<0, 1>> ELSE <<shared, both - shared>>
iou(a, b) == IouOf(Overlap(a.x, a.w, b.x, b.w) * Overlap(a.y, a.h, b.y, b.h), a.w * a.h + b.w * b.h)
AtLeast(p, q) == p[1] * q[2] >= q[1] * p[2]
Above(p, percent) == 100 * p[1] > percent * p[2]
Reaches(p, percent) == 100 * p[1] >= percent * p[2]

\* Highest first; equal scores keep their order.
Order(ds) ==
    CHOOSE p \in SetToSeqs(DOMAIN ds) : \A i \in 1..(Len(ds) - 1) :
        \/ ds[p[i]].score > ds[p[i + 1]].score
        \/ ds[p[i]].score = ds[p[i + 1]].score /\ p[i] < p[i + 1]
InOrder(ds, order) == [i \in DOMAIN ds |-> ds[order[i]]]
ByScore(ds) == InOrder(ds, Order(ds))

top_k(values, k) ==
    IF Len(values) > Lim.ranked \/ k > Lim.top_k THEN Err
    ELSE SubSeq(ByScore([i \in DOMAIN values |-> [score |-> values[i], index |-> i - 1]]), 1, Min({k, Len(values)}))

nms_inner(ds, percent) ==
    FoldLeft(LAMBDA selected, d :
               IF \E i \in DOMAIN selected :
                    selected[i].class = d.class /\ Above(iou(selected[i].box, d.box), percent)
               THEN selected ELSE Append(selected, d), <<>>, ds)

nms(ds, percent) ==
    IF percent \notin 0..100 \/ Len(ds) > Lim.nms THEN Err ELSE nms_inner(ByScore(ds), percent)

\* A heap keeps the best; which of several lowest it gives up, and how it orders equal
\* scores, is left open: the possible contents, as sets of indices.
Heaps(ds, limit) ==
    FoldLeft(LAMBDA heaps, i :
               UNION {IF Cardinality(h) < limit THEN {h \cup {i}}
                      ELSE LET lowest == {l \in h : \A o \in h : ds[l].score <= ds[o].score} IN
                           IF \A l \in lowest : ds[i].score > ds[l].score
                           THEN {(h \ {l}) \cup {i} : l \in lowest} ELSE {h} : h \in heaps},
             {{}}, [i \in DOMAIN ds |-> i])
Sorted(ds, heap) ==
    {[i \in DOMAIN p |-> ds[p[i]]] :
       p \in {q \in SetToSeqs(heap) : \A i \in 1..(Len(q) - 1) : ds[q[i]].score >= ds[q[i + 1]].score}}

\* The selections the heap's freedom allows.
nms_with_top_k(ds, percent, max) ==
    LET limit == Min({max, Lim.nms}) IN
    IF percent \notin 0..100 THEN Err
    ELSE IF limit = 0 \/ ds = <<>> THEN {<<>>}
    ELSE {nms_inner(top, percent) : top \in UNION {Sorted(ds, h) : h \in Heaps(ds, limit)}}

\* The last of the largest, as Iterator::max_by answers.
LastMax(s, value(_)) == CHOOSE i \in DOMAIN s : \A j \in DOMAIN s :
                          value(s[i]) > value(s[j]) \/ (value(s[i]) = value(s[j]) /\ j <= i)

\* rows: [finite, objectness, classes, box], scores in percent, the box in target pixels;
\* spare: how many values are left over after the last whole row; letterbox: from the tags.
Detection(r, letterbox) ==
    LET best == LastMax(r.classes, LAMBDA v : v) IN
    [box |-> map_to_source(letterbox, r.box), score |-> (r.objectness * r.classes[best]) \div 100, class |-> best - 1]
decode_detections(t, config, letterbox) ==
    IF t.spare # 0 \/ letterbox = None THEN Err
    ELSE LET finite == SelectSeq(t.rows, LAMBDA r : r.finite) IN
         nms_with_top_k(SelectSeq([i \in DOMAIN finite |-> Detection(finite[i], letterbox)],
                                  LAMBDA d : d.score >= config.confidence), config.nms, Lim.nms)

-----------------------------------------------------------------------------
(* Faces, tracks and text (extras.rs)                                      *)

generate_anchors(width, height, stride, sizes) ==
    LET count == AnchorCount(width, height, stride, sizes)
        columns == DivCeil(width, stride)
    IN  IF stride = 0 \/ sizes = <<>> THEN Err
        ELSE IF ~SizesValid(sizes) \/ ~AnchorsFit(count) THEN Err
        ELSE [i \in 1..count |->
                LET cell == (i - 1) \div Len(sizes) IN
                [x |-> stride * (cell % columns), y |-> stride * (cell \div columns),
                 size |-> sizes[((i - 1) % Len(sizes)) + 1]]]

\* rows: [finite, score, box]; a finite row without an anchor fails, even below the threshold.
decode_retinaface(t, anchors, config) ==
    LET known == [i \in DOMAIN t.rows |-> [score |-> t.rows[i].score, box |-> t.rows[i].box, class |-> 0,
                                          kept |-> t.rows[i].finite /\ t.rows[i].score >= config.score]]
        kept == SelectSeq(known, LAMBDA r : r.kept)
    IN  IF t.spare # 0 \/ \E i \in DOMAIN t.rows : t.rows[i].finite /\ i > anchors THEN Err
        ELSE nms_with_top_k(kept, config.nms, Lim.nms)

\* ByteTrack::update.  state: [next_id, tracks]; tracks: [id, det, lost]
Match_Again(tracks, matched, d, percent) ==
    {i \in DOMAIN tracks : tracks[i].det.class = d.class
                             /\ Reaches(iou(tracks[i].det.box, d.box), percent)}
Match(tracks, matched, d, percent) ==
    {i \in DOMAIN tracks : i \notin matched /\ tracks[i].det.class = d.class
                             /\ Reaches(iou(tracks[i].det.box, d.box), percent)}

\* The last of the tracks that overlap most; None when none fits.
BestMatch(tracks, d, fits) ==
    LET overlap == [i \in fits |-> iou(tracks[i].det.box, d.box)] IN
    IF fits = {} THEN None
    ELSE CHOOSE i \in fits : \A j \in fits :
           AtLeast(overlap[i], overlap[j]) /\ (AtLeast(overlap[j], overlap[i]) => j <= i)

Assigned(acc, d, best) ==
    IF best # None
    THEN [acc EXCEPT !.tracks[best].det = d, !.tracks[best].lost = 0, !.matched = @ \cup {best},
                     !.output = Append(@, [id |-> acc.tracks[best].id, det |-> d, state |-> "Tracked"])]
    ELSE [acc EXCEPT !.tracks = Append(@, [id |-> acc.next_id, det |-> d, lost |-> 0]),
                     !.matched = @ \cup {Len(acc.tracks) + 1}, !.next_id = @ + 1,
                     !.output = Append(@, [id |-> acc.next_id, det |-> d, state |-> "New"])]
Assign(acc, d, percent) == Assigned(acc, d, BestMatch(acc.tracks, d, Match(acc.tracks, acc.matched, d, percent)))

ShortestLost(a, b) == a.lost < b.lost \/ (a.lost = b.lost /\ a.id < b.id)
Capped(tracks) ==
    IF Len(tracks) <= Lim.tracks THEN tracks ELSE SubSeq(SortSeq(tracks, ShortestLost), 1, Lim.tracks)
Retained(tracks, config) == Capped(SelectSeq(tracks, LAMBDA t : t.lost <= config.max_lost))

Updated(r, config) == [next_id |-> r.next_id, tracks |-> Retained(r.tracks, config), output |-> r.output]
ByteTrackUpdate(state, config, ds) ==
    IF Len(ds) > Lim.detections THEN Err
    ELSE Updated(FoldLeft(LAMBDA acc, d : Assign(acc, d, config.match),
                          [tracks |-> [i \in DOMAIN state.tracks |-> [state.tracks[i] EXCEPT !.lost = @ + 1]],
                           matched |-> {}, next_id |-> state.next_id, output |-> <<>>], ds), config)

\* The frames an element sees; a frame it refuses ends it.
Reported(outputs, state) ==
    IF state = Err THEN Err ELSE [state |-> state, outputs |-> Append(outputs, state.output)]
ByteTrackRun(config, frames) ==
    FoldLeft(LAMBDA acc, ds : IF acc = Err THEN Err ELSE Reported(acc.outputs, ByteTrackUpdate(acc.state, config, ds)),
             [state |-> [next_id |-> 1, tracks |-> <<>>], outputs |-> <<>>], frames)

ctc_greedy_decode(rows, alphabet, blank) ==
    LET Step(acc, row) ==
          IF acc.text = Err \/ row = <<>> THEN acc
          ELSE LET index == LastMax(row, LAMBDA v : v) - 1
                   at == IF index < blank THEN index + 1 ELSE index
               IN  [previous |-> index,
                    text |-> IF index \in {blank, acc.previous} THEN acc.text
                             ELSE IF at > Len(alphabet) THEN Err
                             ELSE Append(acc.text, alphabet[at])]
    IN  IF Len(rows) > Lim.rows THEN Err
        ELSE FoldLeft(Step, [text |-> <<>>, previous |-> -1], rows).text

\* values: lit pixels are those at or above the threshold; a pixel is y * width + x.
Neighbours(p, width, height) ==
    {q \in 0..(width * height - 1) :
        \/ q \div width = p \div width /\ (q = p + 1 \/ q = p - 1)
        \/ q = p + width \/ q = p - width}
Flood(start, lit, width, height) ==
    FoldLeft(LAMBDA reached, i : reached \cup {q \in lit : \E p \in reached : q \in Neighbours(p, width, height)},
             {start}, [i \in 1..Cardinality(lit) |-> i])

BoundingOf(xs, ys) == [x |-> Min(xs), y |-> Min(ys), w |-> Max(xs) - Min(xs) + 1, h |-> Max(ys) - Min(ys) + 1]
Bounding(points, width) == BoundingOf({p % width : p \in points}, {p \div width : p \in points})

Region(acc, points, width) ==
    IF Cardinality(points) > Lim.region THEN [acc EXCEPT !.out = Err]
    ELSE [visited |-> acc.visited \cup points,
          out |-> Append(acc.out, [points |-> points, box |-> Bounding(points, width)])]
Regions(lit, width, height) ==
    FoldLeft(LAMBDA acc, start :
               IF acc.out = Err \/ start \in acc.visited \/ start \notin lit THEN acc
               ELSE IF Len(acc.out) >= Lim.regions THEN acc
               ELSE Region(acc, Flood(start, lit, width, height), width),
             [visited |-> {}, out |-> <<>>], [i \in 1..(width * height) |-> i - 1]).out
RegionsOf(d, values, threshold) ==
    IF Len(d) # 3 \/ d[1] # 1 \/ threshold \notin 0..100 THEN Err
    ELSE IF d[2] * d[3] > Lim.pixels \/ Len(values) # d[2] * d[3] THEN Err
    ELSE Regions({p \in 0..(d[3] * d[2] - 1) : values[p + 1] >= threshold}, d[3], d[2])
detect_text_regions(dims, values, threshold) ==
    RegionsOf(IF Len(dims) = 4 /\ dims[2] = 1 THEN <<dims[1]>> \o SubSeq(dims, 3, 4) ELSE dims, values, threshold)
=============================================================================
