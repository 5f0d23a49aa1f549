---------------------------- MODULE StreamLayout ----------------------------
(***************************************************************************)
(* Where the planes of a frame lie in its buffer.                          *)
(*                                                                         *)
(* The layout is computed by the stack (mm_stream_calc_offset() and one    *)
(* function per type of stream) and told to the daemon; HAL1 computes it   *)
(* once more (QCameraStream::calcOffset()) where it allocates the buffers  *)
(* before the stream is configured; both HALs place the planes one after   *)
(* the other; and HAL1's preview callback finds the second plane by a      *)
(* formula of its own.  None of them checks what another one did.          *)
(*                                                                         *)
(* A stream s is a record [type, fmt, dim, pad, rotated, input, offline,   *)
(* inputPlanes, planes], a layout [rc, planes, frame_len] with the planes  *)
(* in order.  A plane's stride is in bytes.  The formats of UBWC    *)
(* fail on this board, which does not define UBWC_PRESENT; the chip is not *)
(* of the A family.  Lengths stay far below the 32 bits they have.         *)
(***************************************************************************)
EXTENDS Integers, Sequences

CONSTANTS
    Dims,               \* sizes of frames
    Pads                \* paddings a camera asks for

\* CAM_PAD_NONE, CAM_PAD_TO_2, ..., CAM_PAD_TO_8K: what can be padded to.
CamPads == {1, 2, 4, 8, 16, 32, 64, 128, 256, 512, 1024, 2048, 4096, 8192}

Padding == [width : CamPads, height : CamPads, plane : CamPads, min_stride : Nat,
            min_scanline : Nat, x : Nat, y : Nat]

\* A frame has some pixels, and halves of both its sides.
ASSUME StreamLayoutAssumption ==
    /\ Pads \subseteq Padding
    /\ Dims \subseteq [width : Nat, height : Nat]
    /\ \A d \in Dims : \A n \in {d.width, d.height} : n > 0 /\ n % 2 = 0

\* CAM_FORMAT_...; the Bayer formats by their packing, whatever their order of colours.
SemiPlanar == {"NV12", "NV21"}
YOnly      == {"Y_ONLY", "Y_ONLY_10_BPP", "Y_ONLY_12_BPP", "Y_ONLY_14_BPP"}
Planar422  == {"NV16", "NV61"}
Venus      == {"NV12_VENUS", "NV21_VENUS"}
RawFormats == {"RAW_YUV", "RAW_8", "QCOM_10", "QCOM_12", "QCOM_14",
               "MIPI_10", "MIPI_12", "MIPI_14", "PLAIN_16"}

\* PAD_TO_SIZE, for the powers of two it is used with.
Pad(n, padding) == ((n + padding - 1) \div padding) * padding

Plane(stride, scanline) ==
    [offset |-> 0, stride |-> stride, scanline |-> scanline, len |-> stride * scanline]

Grown(plane, padding) == [plane EXCEPT !.len = Pad(@, padding)]

\* Bytes of the planes before plane i: planes_buf.planes[i].reserved[0] of getBufDef().
\* There are three at most.
PlaneStart(planes, i) ==
    LET len(j) == IF j < i /\ j \in DOMAIN planes THEN planes[j].len ELSE 0
    IN len(1) + len(2) + len(3)

Layout(planes) ==
    [rc |-> 0, planes |-> planes, frame_len |-> Pad(PlaneStart(planes, Len(planes) + 1), 4096)]

Failed == [rc |-> -1, planes |-> <<>>, frame_len |-> 0]

\* The video codec's macros (media/msm_media_info.h).
VenusY(d)         == Plane(Pad(d.width, 128), Pad(d.height, 32))
VenusUV(d)        == Plane(Pad(d.width, 128), Pad((d.height + 1) \div 2, 16))
VenusSize(w, h)   == LET d == [width |-> w, height |-> h]
                     IN Pad(VenusY(d).len + VenusUV(d).len + 4096, 4096)

\* The second plane of a Venus frame takes the rest of the frame.
VenusLayout(y, uv, size) ==
    [rc |-> 0, planes |-> <<y, [uv EXCEPT !.len = size - y.len]>>, frame_len |-> size]

OfflineProc(s) == s.type = "OFFLINE_PROC"

-----------------------------------------------------------------------------
\* mm_stream_calc_offset_preview()

PreviewSemiPlanar(s, d) ==
    LET stride == Pad(d.width, s.pad.width)
        rows == IF OfflineProc(s) THEN s.pad.height ELSE 2
    IN Layout(<<Plane(stride, Pad(d.height, rows)), Plane(stride, Pad(d.height \div 2, rows))>>)

PreviewAdreno(s, d) ==
    LET w == IF OfflineProc(s) THEN s.pad.width ELSE 32
        h == IF OfflineProc(s) THEN s.pad.height ELSE 32
    IN Layout(<<Grown(Plane(Pad(d.width, w), Pad(d.height, h)), 4096),
                Grown(Plane(2 * Pad(d.width \div 2, 32), Pad(d.height \div 2, 32)), 4096)>>)

YOfYv12(s, d) ==
    IF OfflineProc(s) THEN Plane(Pad(d.width, s.pad.width), Pad(d.height, s.pad.height))
                      ELSE Plane(Pad(d.width, 16), Pad(d.height, 2))

\* Mutant: the chroma planes as post_view has them, rows from the halved stride.
PreviewYv12_PostView(s, d) ==
    LET y == YOfYv12(s, d)
        stride == Pad(y.stride \div 2, 16)
        c == Plane(stride, Pad(stride \div 2, 2))
    IN Layout(<<y, c, c>>)

PreviewYv12(s, d) ==
    LET y == YOfYv12(s, d)
        c == Plane(Pad(y.stride \div 2, 16), y.scanline \div 2)
    IN Layout(<<y, c, c>>)

Preview422(s, d) ==
    LET y == IF OfflineProc(s) THEN Plane(Pad(d.width, s.pad.width), Pad(d.height, s.pad.height))
                               ELSE Plane(Pad(d.width, 16), d.height)
    IN Layout(<<y, y>>)

PreviewVenus(s, d) ==
    LET padded == Plane(Pad(d.width, s.pad.width), Pad(d.height, s.pad.height))
        y  == IF OfflineProc(s) THEN padded ELSE VenusY(d)
        uv == IF OfflineProc(s) THEN padded ELSE VenusUV(d)
    IN VenusLayout(y, uv, VenusSize(y.stride, y.scanline))

Preview(s, d) ==
    CASE s.fmt \in SemiPlanar \cup YOnly -> PreviewSemiPlanar(s, d)
      [] s.fmt = "NV21_ADRENO"           -> PreviewAdreno(s, d)
      [] s.fmt = "YV12"                  -> PreviewYv12(s, d)
      [] s.fmt \in Planar422             -> Preview422(s, d)
      [] s.fmt \in Venus                 -> PreviewVenus(s, d)
      [] OTHER                           -> Failed

-----------------------------------------------------------------------------
\* mm_stream_calc_offset_post_view(): as preview, but for these.

PostViewAdreno(s, d) ==
    LET w == IF OfflineProc(s) THEN s.pad.width ELSE 32
        h == IF OfflineProc(s) THEN s.pad.height ELSE 32
    IN Layout(<<Grown(Plane(Pad(d.width, w), Pad(d.height, h)), 4096),
                Grown(Plane(2 * Pad(d.width \div 2, w), Pad(d.height \div 2, h)), 4096)>>)

\* "scanline = PAD_TO_SIZE(stride / 2, height_padding)", stride being the halved one.
PostViewYv12(s, d) ==
    LET w == IF OfflineProc(s) THEN s.pad.width ELSE 16
        h == IF OfflineProc(s) THEN s.pad.height ELSE 2
        y == Plane(Pad(d.width, w), Pad(d.height, h))
        stride == Pad(y.stride \div 2, w)
        c == Plane(stride, Pad(stride \div 2, h))
    IN Layout(<<y, c, c>>)

PostViewVenus(s, d) ==
    LET padded == Plane(Pad(d.width, s.pad.width), Pad(d.height, s.pad.height))
        y  == IF OfflineProc(s) THEN padded ELSE VenusY(d)
        uv == IF OfflineProc(s) THEN padded ELSE VenusUV(d)
    IN IF s.fmt = "NV12_VENUS" THEN VenusLayout(y, uv, VenusSize(y.stride, y.scanline))
                               ELSE VenusLayout(y, uv, VenusSize(d.width, d.height))

PostView(s, d) ==
    CASE s.fmt \in SemiPlanar \cup YOnly -> PreviewSemiPlanar(s, d)
      [] s.fmt = "NV21_ADRENO"           -> PostViewAdreno(s, d)
      [] s.fmt = "YV12"                  -> PostViewYv12(s, d)
      [] s.fmt \in Planar422             -> Preview422(s, d)
      [] s.fmt \in Venus                 -> PostViewVenus(s, d)
      [] OTHER                           -> Failed

-----------------------------------------------------------------------------
\* mm_stream_calc_offset_snapshot(): a margin of offset_info around the image.

SnapshotMargin(pad) == [x |-> Pad(pad.x, pad.plane), y |-> Pad(pad.y, pad.plane)]

SnapshotY(d, pad) ==
    LET m == SnapshotMargin(pad)
    IN Plane(Pad(d.width + 2 * m.x, pad.width), Pad(d.height + 2 * m.y, pad.height))

\* The image begins behind the margin, and the plane is padded.
Inset(plane, pad) ==
    LET m == SnapshotMargin(pad)
    IN [Grown(plane, pad.plane) EXCEPT !.offset = Pad(m.x + plane.stride * m.y, pad.plane)]

Snapshot420(fmt, d, pad) ==
    LET y == SnapshotY(d, pad)
        cbcr == Plane(y.stride, y.scanline \div 2)
        c == Plane(Pad(y.stride \div 2, 16), y.scanline \div 2)
    IN IF fmt = "YV12" THEN Layout(<<Inset(y, pad), Inset(c, pad), Inset(c, pad)>>)
                       ELSE Layout(<<Inset(y, pad), Inset(cbcr, pad)>>)

Snapshot(fmt, d, pad) ==
    CASE fmt \in SemiPlanar \cup YOnly \cup {"YV12"} -> Snapshot420(fmt, d, pad)
      [] fmt \in Planar422 -> LET y == Inset(SnapshotY(d, pad), pad) IN Layout(<<y, y>>)
      [] fmt \in Venus -> VenusLayout(VenusY(d), VenusUV(d), VenusSize(d.width, d.height))
      [] OTHER -> Failed

-----------------------------------------------------------------------------
\* mm_stream_calc_offset_raw(): the bytes of a row of w pixels.

Raw8(fmt, w) == IF fmt = "RAW_YUV" THEN 2 * Pad(w, 16) ELSE Pad(w, 16)

RawPacked(fmt, w) == CASE fmt = "QCOM_10" -> (Pad(w, 12) * 8) \div 6
                       [] fmt = "QCOM_12" -> (Pad(w, 10) * 8) \div 5
                       [] fmt = "MIPI_10" -> Pad((Pad(w, 4) * 5) \div 4, 8)
                       [] fmt = "MIPI_12" -> (Pad(w, 32) * 3) \div 2

RawWide(fmt, w) == CASE fmt = "PLAIN_16" -> 2 * Pad(w, 8)
                     [] fmt = "MIPI_14"  -> (Pad(w, 64) * 7) \div 4
                     [] fmt = "QCOM_14"  -> 2 * Pad(w, 16)

RawNV21(d, pad) ==
    LET y == Plane(Pad(d.width, pad.width), Pad(d.height, pad.height))
    IN Layout(<<Grown(y, pad.plane), Grown(Plane(y.stride, y.scanline \div 2), pad.plane)>>)

Raw(fmt, d, pad) ==
    CASE fmt = "NV21" -> RawNV21(d, pad)
      [] fmt \in RawFormats ->
            LET row == CASE fmt \in {"RAW_YUV", "RAW_8"} -> Raw8(fmt, d.width)
                         [] fmt \in {"PLAIN_16", "MIPI_14", "QCOM_14"} -> RawWide(fmt, d.width)
                         [] OTHER -> RawPacked(fmt, d.width)
            IN Layout(<<Grown(Plane(row, Pad(d.height, pad.height)), pad.plane)>>)
      [] OTHER -> Failed

-----------------------------------------------------------------------------
\* mm_stream_calc_offset_video(): no padding of the HAL's.
Video(fmt, d) ==
    CASE fmt \in {"NV12"} \cup YOnly ->
            Layout(<<Grown(Plane(d.width, d.height), 2048),
                     Grown(Plane(d.width, d.height \div 2), 2048)>>)
      [] fmt \in Venus -> VenusLayout(VenusY(d), VenusUV(d), VenusSize(d.width, d.height))
      [] OTHER -> Failed

Metadata(d, pad) ==
    LET m == Grown(Plane(d.width, d.height), pad.plane)
    IN [rc |-> 0, planes |-> <<m>>, frame_len |-> m.len]

AtLeast(n, least) == IF n < least THEN least ELSE n

Analysis420(fmt, d, pad) ==
    LET y == Plane(Pad(AtLeast(d.width, pad.min_stride), pad.width),
                   Pad(AtLeast(d.height, pad.min_scanline), pad.height))
        cbcr == Plane(y.stride, y.scanline \div 2)
        c == Plane(Pad(y.stride \div 2, 16), y.scanline \div 2)
        g(plane) == Grown(plane, pad.plane)
    IN CASE fmt \in SemiPlanar -> Layout(<<g(y), g(cbcr)>>)
         [] fmt = "YV12"       -> Layout(<<g(y), g(c), g(c)>>)
         [] fmt \in Planar422  -> Layout(<<g(y), g(y)>>)
         [] fmt \in YOnly      -> Layout(<<g(y)>>)

Analysis(fmt, d, pad) ==
    CASE fmt \in SemiPlanar \cup {"YV12"} \cup Planar422 \cup YOnly -> Analysis420(fmt, d, pad)
      [] fmt \in Venus -> LET y == VenusY(d)
                          IN VenusLayout(y, VenusUV(d), VenusSize(y.stride, y.scanline))
      [] OTHER -> Failed

-----------------------------------------------------------------------------
\* mm_stream_calc_offset_postproc(): by the type of the input; an offline input of
\* no type brings its layout along, unless the output has one already.
PostProcLayout(s) ==
    CASE s.input = "DEFAULT" ->
            IF s.offline /\ s.planes.frame_len = 0 THEN s.inputPlanes ELSE Failed
      [] s.input = "PREVIEW"  -> Preview(s, s.dim)
      [] s.input = "POSTVIEW" -> PostView(s, s.dim)
      [] s.input \in {"SNAPSHOT", "CALLBACK", "OFFLINE_PROC"} -> Snapshot(s.fmt, s.dim, s.pad)
      [] s.input = "VIDEO"    -> Video(s.fmt, s.dim)
      [] s.input = "RAW"      -> Raw(s.fmt, s.dim, s.pad)
      [] s.input = "ANALYSIS" -> Analysis(s.fmt, s.dim, s.pad)
      [] s.input = "METADATA" -> Metadata(s.dim, s.pad)

Rotated(s) == IF s.rotated /\ s.type # "VIDEO"
              THEN [width |-> s.dim.height, height |-> s.dim.width] ELSE s.dim

\* mm_stream_calc_offset()
CalcOffset(s) ==
    LET d == Rotated(s)
    IN CASE s.type = "PREVIEW"      -> Preview(s, d)
         [] s.type = "POSTVIEW"     -> PostView(s, d)
         [] s.type \in {"SNAPSHOT", "CALLBACK"} -> Snapshot(s.fmt, d, s.pad)
         [] s.type = "OFFLINE_PROC" -> PostProcLayout(s)
         [] s.type = "VIDEO"        -> Video(s.fmt, d)
         [] s.type = "RAW"          -> Raw(s.fmt, d, s.pad)
         [] s.type = "ANALYSIS"     -> Analysis(s.fmt, d, s.pad)
         [] s.type = "METADATA"     -> Metadata(d, s.pad)

\* QCameraStream::calcOffset(): a callback stream is laid out like a preview.
HalCalcOffset(s) == IF s.type = "CALLBACK" THEN Preview(s, Rotated(s)) ELSE CalcOffset(s)

\* Mutant: every stream's buffers are allocated before it is configured.
NeedDeferred_All(type, offlineRaw) == TRUE

\* QCamera2HardwareInterface::needDeferred() with a preview window, not recording.
NeedDeferred(type, offlineRaw) ==
    \/ type \in {"SNAPSHOT", "PREVIEW", "METADATA", "POSTVIEW"}
    \/ type = "RAW" /\ ~offlineRaw

\* sendPreviewCallback(): where it reads the second plane of a frame.
CallbackChroma(planes) == planes[1].stride * planes[1].scanline

\* mm_stream_calc_lcm(): the first multiple of the larger one that both divide.
CalcLcm(num1, num2) ==
    LET larger == IF num1 > num2 THEN num1 ELSE num2
        common == {m \in {larger * k : k \in 1 .. num1 * num2} : m % num1 = 0 /\ m % num2 = 0}
    IN CASE num1 < 1 /\ num2 < 1 -> 0
         [] num1 < 1 /\ num2 >= 1 -> num2
         [] num2 < 1 /\ num1 >= 1 -> num1
         [] OTHER -> CHOOSE m \in common : \A n \in common : m <= n

\* Mutant: the JPEG padding replaces the camera's.
JpegPadding_Replaced(pad) ==
    [pad EXCEPT !.width = 1, !.height = 16, !.plane = 4]

\* CMD_DEF_PPROC_INIT: the camera's padding raised to what JPEG asks for
\* (getJpegPaddingReq(): width 1, height 16, planes 4, no margin).
JpegPadding(pad) ==
    [pad EXCEPT !.height = AtLeast(@, 16), !.plane = IF @ # 4 THEN CalcLcm(@, 4) ELSE @]

-----------------------------------------------------------------------------
(* HAL3's conversion of raw frames to RAW16, in place and from the last    *)
(* pixel to the first.                                                     *)

\* Bytes of the frame that pixel (x, y) is read from, with rows of the given bytes.
LegacyBytes(x, y, row) ==
    LET word == y * row + 8 * (x \div 6)
    IN {word + (10 * (x % 6)) \div 8, word + (10 * (x % 6) + 9) \div 8}

MipiBytes(x, y, row) ==
    LET group == y * row + 5 * (x \div 4) IN {group + (x % 4), group + 4}

\* ... and that it is written to.
Raw16Bytes(x, y, width) ==
    LET first == 2 * (y * Pad(width, 16) + x) IN {first, first + 1}

-----------------------------------------------------------------------------
(* The streams there are, and their way to buffers. *)

VARIABLES
    info,               \* mStreamInfo, shared with the stack; NoStream before init()
    configured,         \* the stack has computed the layout
    frames              \* mFrameLenOffset, what the buffers were allocated with

layoutVars == <<info, configured, frames>>

Types == {"PREVIEW", "POSTVIEW", "SNAPSHOT", "CALLBACK", "VIDEO", "RAW", "ANALYSIS", "METADATA"}

\* How the samples of a deeper luma are packed is not in the code: these are left out.
Formats == SemiPlanar \cup {"Y_ONLY", "NV21_ADRENO", "YV12"} \cup Planar422 \cup Venus
             \cup RawFormats

\* A stream of a camera's sensor, one that reprocesses frames of one, and one that
\* reprocesses offline the frames of a snapshot, whose layout it is given.
Sensor(type, fmt, d, pad, rotated) ==
    [type |-> type, fmt |-> fmt, dim |-> d, pad |-> pad, rotated |-> rotated,
     input |-> "DEFAULT", offline |-> FALSE, inputPlanes |-> Failed, planes |-> Failed]

Reprocess(type, fmt, d, pad) == [Sensor("OFFLINE_PROC", fmt, d, pad, FALSE) EXCEPT !.input = type]

Offline(d, pad) ==
    [Reprocess("DEFAULT", "NV21", d, pad) EXCEPT
        !.offline = TRUE, !.inputPlanes = Snapshot("NV21", d, pad)]

Streams ==
    UNION {  {Sensor(t, f, d, p, r) : t \in Types, f \in Formats, r \in BOOLEAN}
               \cup {Reprocess(t, f, d, p) : t \in Types, f \in Formats}
               \cup {Offline(d, p)} : d \in Dims, p \in Pads }

NoStream == [type |-> "NONE"]

LayoutInit == info = NoStream /\ configured = FALSE /\ frames = Failed

\* QCameraStream::init(): with deferred allocation the layout is computed here.
InitStream(s) ==
    /\ info = NoStream
    /\ IF NeedDeferred(s.type, FALSE)
         THEN LET early == HalCalcOffset(s)
              IN early.rc = 0 /\ info' = [s EXCEPT !.planes = early]
         ELSE info' = s
    /\ UNCHANGED <<configured, frames>>

\* mm_stream_sync_info(), in the call that configures the stream.
SyncInfo ==
    /\ info # NoStream /\ ~configured
    /\ LET l == CalcOffset(info) IN l.rc = 0 /\ info' = [info EXCEPT !.planes = l]
    /\ configured' = TRUE
    /\ UNCHANGED frames

\* allocateBuffers() copies the layout it finds: of a deferred allocation in the
\* background, before or after the stream is configured, else when it starts.
AllocateBuffers ==
    /\ info # NoStream /\ frames = Failed
    /\ configured \/ NeedDeferred(info.type, FALSE)
    /\ frames' = info.planes
    /\ UNCHANGED <<info, configured>>

LayoutNext == (\E s \in Streams : InitStream(s)) \/ SyncInfo \/ AllocateBuffers

LayoutSpec == LayoutInit /\ [][LayoutNext]_layoutVars

-----------------------------------------------------------------------------
(* Properties *)

\* What a format is, per plane: the bytes of a row, and the rows.
Pixels(fmt, d) ==
    LET w == d.width
        h == d.height
        rowOf(pixels, bytes) == ((w + pixels - 1) \div pixels) * bytes
    IN CASE fmt \in SemiPlanar \cup Venus \cup {"NV21_ADRENO"} -> << <<w, h>>, <<w, h \div 2>> >>
         [] fmt = "YV12"    -> << <<w, h>>, <<w \div 2, h \div 2>>, <<w \div 2, h \div 2>> >>
         [] fmt \in Planar422 -> << <<w, h>>, <<w, h>> >>
         [] fmt \in {"Y_ONLY", "RAW_8"} -> << <<w, h>> >>
         [] fmt \in {"RAW_YUV", "PLAIN_16"} -> << <<2 * w, h>> >>
         [] fmt = "QCOM_10" -> << <<rowOf(6, 8), h>> >>
         [] fmt = "QCOM_12" -> << <<rowOf(5, 8), h>> >>
         [] fmt = "QCOM_14" -> << <<rowOf(4, 8), h>> >>
         [] fmt = "MIPI_10" -> << <<rowOf(4, 5), h>> >>
         [] fmt = "MIPI_12" -> << <<rowOf(2, 3), h>> >>
         [] fmt = "MIPI_14" -> << <<rowOf(4, 7), h>> >>

Holds(plane, row, rows) ==
    /\ row <= plane.stride
    /\ plane.offset + (rows - 1) * plane.stride + row <= plane.len

\* A postview in YV12 has too few rows of chroma for most sizes, and one reprocessed in
\* NV21_VENUS a size that leaves the padding out; no stream of the HALs is either.
KnownShort(s) ==
    /\ "POSTVIEW" \in {s.type, s.input}
    /\ s.fmt = "YV12" \/ (s.fmt = "NV21_VENUS" /\ OfflineProc(s))

\* Every plane holds its rows, and all planes lie in the frame.  (Each length is
\* computed from paddings that differ per type, format and plane.)
PlanesHoldPixels ==
    LET l == info.planes
        d == IF OfflineProc(info) THEN info.dim ELSE Rotated(info)
        pixels == IF "METADATA" \in {info.type, info.input} THEN << <<d.width, d.height>> >>
                                                           ELSE Pixels(info.fmt, d)
    IN \/ KnownShort(info)
       \/ /\ \A i \in DOMAIN pixels : Holds(l.planes[i], pixels[i][1], pixels[i][2])
          /\ PlaneStart(l.planes, Len(l.planes) + 1) <= l.frame_len

\* The preview callback reads the chroma where the planes of the frame have it.
\* (Not for NV21_ADRENO, whose first plane is padded to pages.)
CallbackFindsChroma ==
    info.type = "PREVIEW" /\ info.fmt \in SemiPlanar \cup Venus
        => CallbackChroma(info.planes.planes) = PlaneStart(info.planes.planes, 2)

\* A picture for the encoder has whole blocks of 16 rows, at its end as well, once
\* the camera's padding is raised, and stays aligned as the camera wants it.
EncoderHasBlocks ==
    info.type = "SNAPSHOT" /\ info.fmt \in SemiPlanar =>
        LET planes == Snapshot(info.fmt, info.dim, JpegPadding(info.pad)).planes
        IN /\ planes[1].scanline >= Pad(info.dim.height, 16)
           /\ planes[2].scanline >= Pad(info.dim.height, 16) \div 2
           /\ \A i \in 1..2 :
                /\ planes[i].stride % info.pad.width = 0
                /\ \A p \in {info.pad.plane, 4} :
                     planes[i].len % p = 0 /\ planes[i].offset % p = 0

\* No pixel of a small frame is read after bytes of it were written for a later one.
InPlaceSafe(Bytes(_, _, _)) ==
    LET d == Rotated(info)
        row == info.planes.planes[1].stride
    IN d.width * d.height < 256 =>
         \A x, z \in 0 .. d.width - 1, y, v \in 0 .. d.height - 1 :
             v > y \/ (v = y /\ z > x) => Bytes(x, y, row) \cap Raw16Bytes(z, v, d.width) = {}

LegacyRawInPlace == info.type = "RAW" /\ info.fmt = "QCOM_10" => InPlaceSafe(LegacyBytes)

\* Whatever the type, the format, the size and the paddings: buffers have the layout
\* the stack and the daemon work with, even if they were allocated before it was
\* computed; its planes hold the pixels and lie in the buffer; the preview callback,
\* the encoder and the conversion of raw frames, each with arithmetic of its own,
\* find the bytes where they are.
LayoutsFit ==
    configured =>
        /\ frames.rc = 0 => frames = info.planes
        /\ PlanesHoldPixels
        /\ CallbackFindsChroma
        /\ EncoderHasBlocks
        /\ LegacyRawInPlace

\* The same of the conversion of MIPI frames, which fails: the third pixel is written
\* over the byte that has the low bits of the first two.
MipiRawInPlace ==
    configured /\ info.type = "RAW" /\ info.fmt = "MIPI_10" => InPlaceSafe(MipiBytes)

=============================================================================
