------------------------ MODULE StreamLayout_proofs ------------------------
(***************************************************************************)
(* Proofs about StreamLayout, for every size of frames that can be halved  *)
(* and every padding a camera can ask for.                                 *)
(*                                                                         *)
(* The first part is arithmetic: what PAD_TO_SIZE gives, that a plane has  *)
(* room for an image that is no wider and no higher, and that planes with  *)
(* room make a frame with room.  Then every function of the stack that     *)
(* computes a layout, per type of stream, is shown to give such planes;    *)
(* then the places that find the bytes of a frame with arithmetic of their *)
(* own.  The last part is about who has the layout when: streams are told  *)
(* it before or after their buffers are allocated, and it is the same.     *)
(***************************************************************************)
EXTENDS StreamLayout, TLAPS

\* Sizes of frames; more than a camera has.
Sizes == {d \in [width : Nat, height : Nat] : \A n \in {d.width, d.height} : n > 0 /\ n % 2 = 0}

\* The planes of layout l hold the rows of the format, and lie in the frame.
Fits(l, pixels) ==
    /\ \A i \in DOMAIN pixels : Holds(l.planes[i], pixels[i][1], pixels[i][2])
    /\ PlaneStart(l.planes, Len(l.planes) + 1) <= l.frame_len

\* A plane with room for so many rows of so many bytes.
Room(plane, row, rows) == Holds(plane, row, rows) /\ plane.len \in Nat

-----------------------------------------------------------------------------
\* PAD_TO_SIZE never gives less than it is given, and less than one padding more.
LEMMA PadUp ==
    ASSUME NEW n \in Nat, NEW p \in Nat \ {0}
    PROVE  Pad(n, p) \in Nat /\ Pad(n, p) >= n /\ Pad(n, p) < n + p
<1> DEFINE q == (n + p - 1) \div p
           r == (n + p - 1) % p
<1>1. q \in Int /\ r \in 0 .. p - 1 /\ n + p - 1 = p * q + r BY SMT
<1>2. q >= 0 BY <1>1
<1>3. Pad(n, p) = p * q BY <1>1 DEF Pad
<1> HIDE DEF q, r
<1> QED BY <1>1, <1>2, <1>3

\* What is padded is a multiple of the padding.
LEMMA PadMultiple ==
    ASSUME NEW n \in Nat, NEW p \in Nat \ {0}
    PROVE  \E k \in Nat : Pad(n, p) = k * p
<1> DEFINE q == (n + p - 1) \div p
           r == (n + p - 1) % p
<1>1. q \in Int /\ r \in 0 .. p - 1 /\ n + p - 1 = p * q + r BY SMT
<1>2. q >= 0 BY <1>1
<1>3. Pad(n, p) = q * p BY <1>1 DEF Pad
<1> HIDE DEF q, r
<1> QED BY <1>1, <1>2, <1>3

\* A multiple of the padding is left as it is.
LEMMA PadExact ==
    ASSUME NEW k \in Nat, NEW p \in Nat \ {0}
    PROVE  Pad(k * p, p) = k * p
<1> DEFINE n == k * p
<1>0. n \in Nat OBVIOUS
<1> HIDE DEF n
<1>9. PICK j \in Nat : Pad(n, p) = j * p BY <1>0, PadMultiple
<1>1. Pad(k * p, p) = j * p BY <1>9 DEF n
<1>8. Pad(n, p) >= n /\ Pad(n, p) < n + p BY <1>0, PadUp
<1>2. Pad(k * p, p) >= k * p /\ Pad(k * p, p) < k * p + p BY <1>8 DEF n
<1>3. j >= k
  <2>1. SUFFICES ASSUME j < k PROVE FALSE BY <1>1
  <2>2. PICK e \in Nat : k = j + 1 + e BY <2>1
  <2>3. k * p = j * p + p + e * p /\ e * p >= 0 BY <2>2
  <2> QED BY <2>3, <1>1, <1>2
<1>4. j <= k
  <2>1. SUFFICES ASSUME j > k PROVE FALSE BY <1>1
  <2>2. PICK e \in Nat : j = k + 1 + e BY <2>1
  <2>3. j * p = k * p + p + e * p /\ e * p >= 0 BY <2>2
  <2> QED BY <2>3, <1>1, <1>2
<1>5. j = k BY <1>3, <1>4
<1> QED BY <1>1, <1>5

\* A multiple leaves no remainder.
LEMMA Divides ==
    ASSUME NEW k \in Nat, NEW p \in Nat \ {0}
    PROVE  (k * p) % p = 0
OBVIOUS

\* The rows of an image, the last one without its padding, fit in the rows of a plane.
LEMMA RowsFit ==
    ASSUME NEW s \in Nat, NEW c \in Nat, NEW row \in Nat, NEW rows \in Nat,
           row <= s, rows <= c, rows > 0
    PROVE  s * c \in Nat /\ (rows - 1) * s + row <= s * c
<1>1. PICK k \in Nat : c = rows + k BY SMT
<1>2. s * c = s * rows + s * k /\ s * k >= 0 BY <1>1
<1>3. (rows - 1) * s = s * rows - s OBVIOUS
<1> QED BY <1>2, <1>3

\* A plane as wide and as high as the image has room for it, ...
LEMMA PlaneRoom ==
    ASSUME NEW stride \in Nat, NEW scan \in Nat, NEW row \in Nat, NEW rows \in Nat,
           row <= stride, rows <= scan, rows > 0
    PROVE  Room(Plane(stride, scan), row, rows)
<1>1. stride * scan \in Nat /\ (rows - 1) * stride + row <= stride * scan BY RowsFit
<1> QED BY <1>1 DEF Room, Holds, Plane

\* ... also when its length is padded.
LEMMA GrownRoom ==
    ASSUME NEW stride \in Nat, NEW scan \in Nat, NEW row \in Nat, NEW rows \in Nat,
           row <= stride, rows <= scan, rows > 0, NEW p \in Nat \ {0}
    PROVE  Room(Grown(Plane(stride, scan), p), row, rows)
<1>1. stride * scan \in Nat /\ (rows - 1) * stride + row <= stride * scan BY RowsFit
<1>2. Pad(stride * scan, p) \in Nat /\ Pad(stride * scan, p) >= stride * scan BY <1>1, PadUp
<1> QED BY <1>1, <1>2 DEF Room, Holds, Plane, Grown

\* getBufDef() places the planes one after the other: those that have room make a
\* frame that holds them.
LEMMA OnePlane ==
    ASSUME NEW a, NEW r \in Nat, NEW n \in Nat, Room(a, r, n)
    PROVE  Fits(Layout(<<a>>), << <<r, n>> >>)
<1> USE DEF Room
<1>1. Pad(a.len, 4096) >= a.len /\ Pad(a.len, 4096) \in Nat BY PadUp
<1>2. PlaneStart(<<a>>, 2) = a.len BY DEF PlaneStart
<1> QED BY <1>1, <1>2 DEF Fits, Layout

\* Two planes, for a format of two or of the first alone.
LEMMA TwoPlanes ==
    ASSUME NEW a, NEW r \in Nat, NEW n \in Nat, Room(a, r, n),
           NEW b, NEW q \in Nat, NEW m \in Nat, Room(b, q, m)
    PROVE  /\ Fits(Layout(<<a, b>>), << <<r, n>>, <<q, m>> >>)
           /\ Fits(Layout(<<a, b>>), << <<r, n>> >>)
<1> USE DEF Room
<1> DEFINE size == a.len + b.len
<1>1. size \in Nat OBVIOUS
<1>2. PlaneStart(<<a, b>>, 3) = size BY DEF PlaneStart
<1> HIDE DEF size
<1>3. Pad(size, 4096) >= size BY <1>1, PadUp
<1> QED BY <1>2, <1>3 DEF Fits, Layout

\* Three planes, the two of the chroma alike.
LEMMA ThreePlanes ==
    ASSUME NEW a, NEW r \in Nat, NEW n \in Nat, Room(a, r, n),
           NEW b, NEW q \in Nat, NEW m \in Nat, Room(b, q, m),
           NEW c, Room(c, q, m)
    PROVE  Fits(Layout(<<a, b, c>>), << <<r, n>>, <<q, m>>, <<q, m>> >>)
<1> USE DEF Room
<1> DEFINE size == a.len + b.len + c.len
<1>1. size \in Nat OBVIOUS
<1>2. PlaneStart(<<a, b, c>>, 4) = size BY DEF PlaneStart
<1> HIDE DEF size
<1>3. Pad(size, 4096) >= size BY <1>1, PadUp
<1> QED BY <1>2, <1>3 DEF Fits, Layout

\* Frames have some pixels and can be halved.
LEMMA SizeFacts ==
    ASSUME NEW d \in Sizes
    PROVE  /\ d.width \in Nat /\ d.height \in Nat /\ d.width > 0 /\ d.height > 0
           /\ d.width \div 2 \in Nat /\ d.height \div 2 \in Nat /\ d.width \div 2 > 0
           /\ d.height \div 2 > 0 
           /\ d.width = 2 * (d.width \div 2) /\ d.height = 2 * (d.height \div 2)
BY DEF Sizes

\* Both sides of a frame, padded.
LEMMA PaddedSides ==
    ASSUME NEW d \in Sizes, NEW w \in Nat \ {0}, NEW h \in Nat \ {0}
    PROVE  /\ Pad(d.width, w) \in Nat /\ Pad(d.width, w) >= d.width
           /\ Pad(d.height, h) \in Nat /\ Pad(d.height, h) >= d.height
<1>1. Pad(d.width, w) \in Nat /\ Pad(d.width, w) >= d.width BY PadUp, SizeFacts
<1>2. Pad(d.height, h) \in Nat /\ Pad(d.height, h) >= d.height BY PadUp, SizeFacts
<1> QED BY <1>1, <1>2

\* What a camera asks for are positive paddings, and any margin and least size.
LEMMA PadFacts ==
    ASSUME NEW pad \in Padding
    PROVE  /\ pad.width \in Nat \ {0} /\ pad.height \in Nat \ {0} /\ pad.plane \in Nat \ {0}
           /\ pad.x \in Nat /\ pad.y \in Nat /\ pad.min_stride \in Nat /\ pad.min_scanline \in Nat
BY DEF Padding, CamPads

-----------------------------------------------------------------------------
\* The rows that the formats other than raw have.
LEMMA Shapes ==
    ASSUME NEW fmt \in Formats, NEW d \in Sizes
    PROVE  /\ fmt \in SemiPlanar \cup Venus \cup {"NV21_ADRENO"}
                => Pixels(fmt, d) = << <<d.width, d.height>>, <<d.width, d.height \div 2>> >>
           /\ fmt = "YV12" => Pixels(fmt, d) = << <<d.width, d.height>>,
                  <<d.width \div 2, d.height \div 2>>, <<d.width \div 2, d.height \div 2>> >>
           /\ fmt \in Planar422
                => Pixels(fmt, d) = << <<d.width, d.height>>, <<d.width, d.height>> >>
           /\ fmt = "Y_ONLY" => Pixels(fmt, d) = << <<d.width, d.height>> >>
BY DEF Pixels, SemiPlanar, Venus, Planar422

\* The arithmetic of mm_stream_calc_offset_preview() for NV12, NV21 and luma only.
LEMMA SemiPlanarFits ==
    ASSUME NEW s, s.pad \in Padding, s.fmt \in SemiPlanar \cup {"Y_ONLY"}, NEW d \in Sizes
    PROVE  Fits(PreviewSemiPlanar(s, d), Pixels(s.fmt, d))
<1> DEFINE stride == Pad(d.width, s.pad.width)
           rows == IF OfflineProc(s) THEN s.pad.height ELSE 2
           y == Plane(stride, Pad(d.height, rows))
           c == Plane(stride, Pad(d.height \div 2, rows))
<1>1. rows \in Nat \ {0} BY PadFacts
<1>2. stride \in Nat /\ stride >= d.width BY PadUp, PadFacts, SizeFacts
<1>3. Pad(d.height, rows) \in Nat /\ Pad(d.height, rows) >= d.height BY <1>1, PadUp, SizeFacts
<1>4. /\ Pad(d.height \div 2, rows) \in Nat
      /\ Pad(d.height \div 2, rows) >= d.height \div 2 BY <1>1, PadUp, SizeFacts
<1>5. PreviewSemiPlanar(s, d) = Layout(<<y, c>>) BY DEF PreviewSemiPlanar
<1> HIDE DEF stride, rows
<1>6. Room(y, d.width, d.height) BY <1>2, <1>3, PlaneRoom, SizeFacts
<1>7. Room(c, d.width, d.height \div 2) BY <1>2, <1>4, PlaneRoom, SizeFacts
<1>8. s.fmt \in Formats BY DEF Formats
<1> HIDE DEF y, c
<1>9. /\ Fits(Layout(<<y, c>>), << <<d.width, d.height>>, <<d.width, d.height \div 2>> >>)
      /\ Fits(Layout(<<y, c>>), << <<d.width, d.height>> >>)
  BY <1>6, <1>7, TwoPlanes, SizeFacts
<1> QED BY <1>5, <1>8, <1>9, Shapes

\* ... for NV16 and NV61, whose planes are alike, ...
LEMMA Row422Fits ==
    ASSUME NEW s, s.pad \in Padding, s.fmt \in Planar422, NEW d \in Sizes
    PROVE  Fits(Preview422(s, d), Pixels(s.fmt, d))
<1> DEFINE y == IF OfflineProc(s)
                THEN Plane(Pad(d.width, s.pad.width), Pad(d.height, s.pad.height))
                ELSE Plane(Pad(d.width, 16), d.height)
<1>1. Room(y, d.width, d.height)
  <2> s.pad.width \in Nat \ {0} /\ s.pad.height \in Nat \ {0} BY PadFacts
  <2>0. /\ Pad(d.width, s.pad.width) \in Nat /\ Pad(d.width, s.pad.width) >= d.width
        /\ Pad(d.height, s.pad.height) \in Nat /\ Pad(d.height, s.pad.height) >= d.height
    BY PaddedSides
  <2>1. Pad(d.width, 16) \in Nat /\ Pad(d.width, 16) >= d.width BY PadUp, SizeFacts
  <2>2. CASE OfflineProc(s) BY <2>0, <2>2, PlaneRoom, SizeFacts
  <2>3. CASE ~OfflineProc(s) BY <2>1, <2>3, PlaneRoom, SizeFacts
  <2> QED BY <2>2, <2>3
<1>2. Preview422(s, d) = Layout(<<y, y>>) BY DEF Preview422
<1>3. s.fmt \in Formats BY DEF Formats
<1> HIDE DEF y
<1>4. Fits(Layout(<<y, y>>), << <<d.width, d.height>>, <<d.width, d.height>> >>)
  BY <1>1, TwoPlanes, SizeFacts
<1> QED BY <1>2, <1>3, <1>4, Shapes

\* ... for the GPU, whose planes begin at pages, as a preview and as a postview, ...
LEMMA AdrenoFits ==
    ASSUME NEW s, s.pad \in Padding, s.fmt = "NV21_ADRENO", NEW d \in Sizes
    PROVE  /\ Fits(PreviewAdreno(s, d), Pixels(s.fmt, d))
           /\ Fits(PostViewAdreno(s, d), Pixels(s.fmt, d))
<1> DEFINE w == IF OfflineProc(s) THEN s.pad.width ELSE 32
           h == IF OfflineProc(s) THEN s.pad.height ELSE 32
           y == Grown(Plane(Pad(d.width, w), Pad(d.height, h)), 4096)
           c(a, b) == Grown(Plane(2 * Pad(d.width \div 2, a), Pad(d.height \div 2, b)), 4096)
<1>1. w \in Nat \ {0} /\ h \in Nat \ {0} BY PadFacts
<1>2. /\ PreviewAdreno(s, d) = Layout(<<y, c(32, 32)>>)
      /\ PostViewAdreno(s, d) = Layout(<<y, c(w, h)>>)
  BY DEF PreviewAdreno, PostViewAdreno
<1> HIDE DEF w, h
<1>3. Room(y, d.width, d.height)
  <2>1. /\ Pad(d.width, w) \in Nat /\ Pad(d.width, w) >= d.width
        /\ Pad(d.height, h) \in Nat /\ Pad(d.height, h) >= d.height
    BY <1>1, PadUp, SizeFacts
  <2> QED BY <2>1, GrownRoom, SizeFacts
<1>4. ASSUME NEW a \in Nat \ {0}, NEW b \in Nat \ {0}
      PROVE  Room(c(a, b), d.width, d.height \div 2)
  <2>1. /\ Pad(d.width \div 2, a) \in Nat /\ Pad(d.width \div 2, a) >= d.width \div 2
        /\ Pad(d.height \div 2, b) \in Nat /\ Pad(d.height \div 2, b) >= d.height \div 2
    BY PadUp, SizeFacts
  <2>2. 2 * Pad(d.width \div 2, a) \in Nat /\ 2 * Pad(d.width \div 2, a) >= d.width
    BY <2>1, SizeFacts
  <2> QED BY <2>1, <2>2, GrownRoom, SizeFacts
<1>5. Room(c(32, 32), d.width, d.height \div 2) /\ Room(c(w, h), d.width, d.height \div 2)
  BY <1>1, <1>4
<1>6. s.fmt \in Formats BY DEF Formats
<1> HIDE DEF y, c
<1>7. /\ Fits(Layout(<<y, c(32, 32)>>), << <<d.width, d.height>>, <<d.width, d.height \div 2>> >>)
      /\ Fits(Layout(<<y, c(w, h)>>), << <<d.width, d.height>>, <<d.width, d.height \div 2>> >>)
  BY <1>3, <1>5, TwoPlanes, SizeFacts
<1> QED BY <1>2, <1>6, <1>7, Shapes

\* ... and for YV12, whose chroma has half the padded rows.
LEMMA Yv12Fits ==
    ASSUME NEW s, s.pad \in Padding, s.fmt = "YV12", NEW d \in Sizes
    PROVE  Fits(PreviewYv12(s, d), Pixels(s.fmt, d))
<1> DEFINE y == YOfYv12(s, d)
           c == Plane(Pad(y.stride \div 2, 16), y.scanline \div 2)
<1>1. /\ y.stride \in Nat /\ y.stride >= d.width /\ y.scanline \in Nat /\ y.scanline >= d.height
      /\ y = Plane(y.stride, y.scanline)
  <2> s.pad.width \in Nat \ {0} /\ s.pad.height \in Nat \ {0} BY PadFacts
  <2>1. /\ Pad(d.width, s.pad.width) \in Nat /\ Pad(d.width, s.pad.width) >= d.width
        /\ Pad(d.height, s.pad.height) \in Nat /\ Pad(d.height, s.pad.height) >= d.height
    BY PaddedSides
  <2>2. /\ Pad(d.width, 16) \in Nat /\ Pad(d.width, 16) >= d.width
        /\ Pad(d.height, 2) \in Nat /\ Pad(d.height, 2) >= d.height
    BY PaddedSides
  <2> QED BY <2>1, <2>2 DEF YOfYv12, Plane
<1>2. PreviewYv12(s, d) = Layout(<<y, c, c>>) BY DEF PreviewYv12
<1> HIDE DEF y
<1>3. Room(y, d.width, d.height) BY <1>1, PlaneRoom, SizeFacts
<1>4. Room(c, d.width \div 2, d.height \div 2)
  <2>1. y.stride \div 2 \in Nat /\ y.stride \div 2 >= d.width \div 2 BY <1>1, SizeFacts
  <2>2. y.scanline \div 2 \in Nat /\ y.scanline \div 2 >= d.height \div 2 BY <1>1, SizeFacts
  <2>3. Pad(y.stride \div 2, 16) \in Nat /\ Pad(y.stride \div 2, 16) >= y.stride \div 2
    BY <2>1, PadUp
  <2>4. Pad(y.stride \div 2, 16) >= d.width \div 2 BY <2>1, <2>3, SizeFacts
  <2> QED BY <2>2, <2>3, <2>4, PlaneRoom, SizeFacts
<1>5. s.fmt \in Formats BY DEF Formats
<1> HIDE DEF c
<1>6. Fits(Layout(<<y, c, c>>), << <<d.width, d.height>>,
              <<d.width \div 2, d.height \div 2>>, <<d.width \div 2, d.height \div 2>> >>)
  BY <1>3, <1>4, ThreePlanes, SizeFacts
<1> QED BY <1>2, <1>5, <1>6, Shapes

-----------------------------------------------------------------------------
\* A larger rectangle is no smaller.
LEMMA ProductsGrow ==
    ASSUME NEW a \in Nat, NEW b \in Nat, NEW c \in Nat, NEW e \in Nat, a <= c, b <= e
    PROVE  a * b \in Nat /\ c * e \in Nat /\ a * b <= c * e
<1>1. PICK k \in Nat : c = a + k BY SMT
<1>2. PICK j \in Nat : e = b + j BY SMT
<1>3. c * e = a * b + a * j + k * b + k * j BY <1>1, <1>2
<1>4. a * b \in Nat /\ a * j \in Nat /\ k * b \in Nat /\ k * j \in Nat OBVIOUS
<1> QED BY <1>3, <1>4

\* The size of a frame of the video codec has room for both its planes.
LEMMA VenusSizeHolds ==
    ASSUME NEW w \in Nat, NEW h \in Nat
    PROVE  /\ VenusSize(w, h) \in Nat
           /\ Pad(w, 128) * Pad(h, 32) + Pad(w, 128) * Pad((h + 1) \div 2, 16)
                <= VenusSize(w, h)
<1> DEFINE a == Pad(w, 128) * Pad(h, 32)
           b == Pad(w, 128) * Pad((h + 1) \div 2, 16)
           n == a + b + 4096
<1>1. a \in Nat /\ b \in Nat
  <2> HIDE DEF a, b, n
  <2>1. Pad(w, 128) \in Nat /\ Pad(h, 32) \in Nat
    <3>1. Pad(w, 128) \in Nat BY PadUp
    <3>2. Pad(h, 32) \in Nat BY PadUp
    <3> QED BY <3>1, <3>2
  <2>2. (h + 1) \div 2 \in Nat OBVIOUS
  <2>3. Pad((h + 1) \div 2, 16) \in Nat BY <2>2, PadUp
  <2> QED BY <2>1, <2>3, ProductsGrow DEF a, b
<1>2. VenusSize(w, h) = Pad(n, 4096) BY DEF VenusSize, VenusY, VenusUV, Plane
<1> HIDE DEF a, b
<1>3. n \in Nat /\ a + b <= n BY <1>1
<1> HIDE DEF n
<1>4. Pad(n, 4096) \in Nat /\ Pad(n, 4096) >= n BY <1>3, PadUp
<1>5. a + b <= Pad(n, 4096) BY <1>1, <1>3, <1>4
<1> QED BY <1>2, <1>4, <1>5 DEF a, b

\* The second plane of such a frame takes what the first leaves: enough, if the frame
\* has room for both.
LEMMA VenusRoom ==
    ASSUME NEW d \in Sizes, NEW a \in Nat, NEW b \in Nat, a >= d.width, b >= d.height,
           NEW c, NEW size \in Nat, a * b + a * (d.height \div 2) <= size
    PROVE  /\ Fits(VenusLayout(Plane(a, b), Plane(a, c), size),
                   << <<d.width, d.height>>, <<d.width, d.height \div 2>> >>)
<1> DEFINE y == Plane(a, b)
           uv == [Plane(a, c) EXCEPT !.len = size - y.len]
<1>1. Room(y, d.width, d.height) BY PlaneRoom, SizeFacts
<1>2. Holds(uv, d.width, d.height \div 2)
  <2>1. (d.height \div 2 - 1) * a + d.width <= a * (d.height \div 2)
    BY RowsFit, SizeFacts
  <2>2. a * b \in Nat BY ProductsGrow
  <2>3. uv.offset = 0 /\ uv.stride = a /\ uv.len = size - a * b BY DEF Plane
  <2>4. a * (d.height \div 2) \in Nat /\ (d.height \div 2 - 1) * a \in Nat BY SizeFacts
  <2> HIDE DEF uv
  <2> QED BY <2>1, <2>2, <2>3, <2>4, SizeFacts DEF Holds
<1>3. PlaneStart(<<y, uv>>, 3) = size
  <2>1. uv.len = size - y.len /\ y.len \in Nat BY <1>1 DEF Plane, Room
  <2> HIDE DEF y, uv
  <2> QED BY <2>1 DEF PlaneStart
<1>4. VenusLayout(y, Plane(a, c), size) = [rc |-> 0, planes |-> <<y, uv>>, frame_len |-> size]
  BY DEF VenusLayout
<1> HIDE DEF y, uv
<1> DEFINE l == [rc |-> 0, planes |-> <<y, uv>>, frame_len |-> size]
<1>5. Holds(y, d.width, d.height) BY <1>1 DEF Room
<1>6. Fits(l, << <<d.width, d.height>>, <<d.width, d.height \div 2>> >>)
  BY <1>2, <1>3, <1>5 DEF Fits
<1> QED BY <1>4, <1>6 DEF y

\* It has if its size is that of the padded sides, ...
LEMMA VenusFits ==
    ASSUME NEW d \in Sizes, NEW a \in Nat, NEW b \in Nat, a >= d.width, b >= d.height, NEW c
    PROVE  Fits(VenusLayout(Plane(a, b), Plane(a, c), VenusSize(a, b)),
                << <<d.width, d.height>>, <<d.width, d.height \div 2>> >>)
<1> DEFINE size == VenusSize(a, b)
           h == (b + 1) \div 2
<1>1. h \in Nat /\ d.height \div 2 <= h BY SizeFacts
<1>2. size \in Nat /\ Pad(a, 128) * Pad(b, 32) + Pad(a, 128) * Pad(h, 16) <= size
  BY VenusSizeHolds
<1> HIDE DEF h, size
<1>3. /\ Pad(a, 128) \in Nat /\ a <= Pad(a, 128) /\ Pad(b, 32) \in Nat /\ b <= Pad(b, 32)
  BY PadUp
<1>4. Pad(h, 16) \in Nat /\ h <= Pad(h, 16) BY <1>1, PadUp
<1>5. a * b \in Nat /\ Pad(a, 128) * Pad(b, 32) \in Nat /\ a * b <= Pad(a, 128) * Pad(b, 32)
  BY <1>3, ProductsGrow
<1>6. d.height \div 2 <= Pad(h, 16) BY <1>1, <1>4, SizeFacts
<1>7. /\ a * (d.height \div 2) \in Nat /\ Pad(a, 128) * Pad(h, 16) \in Nat
      /\ a * (d.height \div 2) <= Pad(a, 128) * Pad(h, 16)
  BY <1>3, <1>4, <1>6, ProductsGrow, SizeFacts
<1>8. a * b + a * (d.height \div 2) <= size BY <1>2, <1>5, <1>7
<1> QED BY <1>2, <1>8, VenusRoom DEF size

\* ... or of the codec's own planes.
LEMMA VenusOwnFits ==
    ASSUME NEW d \in Sizes
    PROVE  Fits(VenusLayout(VenusY(d), VenusUV(d), VenusSize(d.width, d.height)),
                << <<d.width, d.height>>, <<d.width, d.height \div 2>> >>)
<1> DEFINE a == Pad(d.width, 128)
           b == Pad(d.height, 32)
           c == Pad((d.height + 1) \div 2, 16)
           size == VenusSize(d.width, d.height)
<1>1. a \in Nat /\ a >= d.width /\ b \in Nat /\ b >= d.height BY PaddedSides
<1>2. c \in Nat /\ d.height \div 2 <= c
  <2>1. (d.height + 1) \div 2 \in Nat /\ d.height \div 2 <= (d.height + 1) \div 2 BY SizeFacts
  <2> HIDE DEF c
  <2>2. c \in Nat /\ (d.height + 1) \div 2 <= c BY <2>1, PadUp DEF c
  <2> QED BY <2>1, <2>2, SizeFacts
<1>3. size \in Nat /\ a * b + a * c <= size BY VenusSizeHolds, SizeFacts
<1>4. VenusY(d) = Plane(a, b) /\ VenusUV(d) = Plane(a, c) BY DEF VenusY, VenusUV
<1> HIDE DEF a, b, c, size
<1>5. /\ a * b \in Nat /\ a * (d.height \div 2) \in Nat /\ a * c \in Nat
      /\ a * (d.height \div 2) <= a * c
  BY <1>1, <1>2, ProductsGrow, SizeFacts
<1>6. a * b + a * (d.height \div 2) <= size BY <1>3, <1>5
<1>7. Fits(VenusLayout(Plane(a, b), Plane(a, c), size),
                << <<d.width, d.height>>, <<d.width, d.height \div 2>> >>)
  BY <1>1, <1>3, <1>6, VenusRoom
<1> QED BY <1>4, <1>7 DEF size

-----------------------------------------------------------------------------
\* mm_stream_calc_offset_preview() for the formats of the codec.
LEMMA PreviewVenusFits ==
    ASSUME NEW s, s.pad \in Padding, s.fmt \in Venus, NEW d \in Sizes
    PROVE  Fits(PreviewVenus(s, d), Pixels(s.fmt, d))
<1>1. s.fmt \in Formats BY DEF Formats
<1>2. Pixels(s.fmt, d) = << <<d.width, d.height>>, <<d.width, d.height \div 2>> >>
  BY <1>1, Shapes
<1>3. CASE OfflineProc(s)
  <2> DEFINE a == Pad(d.width, s.pad.width)
             b == Pad(d.height, s.pad.height)
  <2> s.pad.width \in Nat \ {0} /\ s.pad.height \in Nat \ {0} BY PadFacts
  <2>1. a \in Nat /\ a >= d.width /\ b \in Nat /\ b >= d.height BY PaddedSides
  <2>2. PreviewVenus(s, d) = VenusLayout(Plane(a, b), Plane(a, b), VenusSize(a, b))
    BY <1>3 DEF PreviewVenus, Plane
  <2> HIDE DEF a, b
  <2> QED BY <2>1, <2>2, <1>2, VenusFits
<1>4. CASE ~OfflineProc(s)
  <2> DEFINE a == Pad(d.width, 128)
             b == Pad(d.height, 32)
             c == Pad((d.height + 1) \div 2, 16)
  <2>1. a \in Nat /\ a >= d.width /\ b \in Nat /\ b >= d.height BY PaddedSides
  <2>2. PreviewVenus(s, d) = VenusLayout(Plane(a, b), Plane(a, c), VenusSize(a, b))
    BY <1>4 DEF PreviewVenus, VenusY, VenusUV, Plane
  <2> HIDE DEF a, b, c
  <2> QED BY <2>1, <2>2, <1>2, VenusFits
<1> QED BY <1>3, <1>4

\* A preview in any format holds its pixels (mm_stream_calc_offset_preview()).
LEMMA PreviewFits ==
    ASSUME NEW s, s.pad \in Padding, s.fmt \in Formats, NEW d \in Sizes, Preview(s, d).rc = 0
    PROVE  Fits(Preview(s, d), Pixels(s.fmt, d))
<1>1. CASE s.fmt \in SemiPlanar \cup {"Y_ONLY"}
  <2>1. Preview(s, d) = PreviewSemiPlanar(s, d)
    BY <1>1 DEF Preview, SemiPlanar, YOnly, Planar422, Venus
  <2> QED BY <2>1, <1>1, SemiPlanarFits
<1>2. CASE s.fmt = "NV21_ADRENO"
  <2>1. Preview(s, d) = PreviewAdreno(s, d)
    BY <1>2 DEF Preview, SemiPlanar, YOnly, Planar422, Venus
  <2> QED BY <2>1, <1>2, AdrenoFits
<1>3. CASE s.fmt = "YV12"
  <2>1. Preview(s, d) = PreviewYv12(s, d)
    BY <1>3 DEF Preview, SemiPlanar, YOnly, Planar422, Venus
  <2> QED BY <2>1, <1>3, Yv12Fits
<1>4. CASE s.fmt \in Planar422
  <2>1. Preview(s, d) = Preview422(s, d)
    BY <1>4 DEF Preview, SemiPlanar, YOnly, Planar422, Venus
  <2> QED BY <2>1, <1>4, Row422Fits
<1>5. CASE s.fmt \in Venus
  <2>1. Preview(s, d) = PreviewVenus(s, d)
    BY <1>5 DEF Preview, SemiPlanar, YOnly, Planar422, Venus
  <2> QED BY <2>1, <1>5, PreviewVenusFits
<1>6. CASE s.fmt \in RawFormats
  <2>1. Preview(s, d) = Failed
    BY <1>6 DEF Preview, SemiPlanar, YOnly, Planar422, Venus, RawFormats
  <2> QED BY <2>1 DEF Failed
<1> QED BY <1>1, <1>2, <1>3, <1>4, <1>5, <1>6 DEF Formats

\* So does a postview (mm_stream_calc_offset_post_view()), but for the two that are
\* known to be short.
LEMMA PostViewFits ==
    ASSUME NEW s, s.pad \in Padding, s.fmt \in Formats, NEW d \in Sizes, PostView(s, d).rc = 0,
           ~(s.fmt = "YV12" \/ (s.fmt = "NV21_VENUS" /\ OfflineProc(s)))
    PROVE  Fits(PostView(s, d), Pixels(s.fmt, d))
<1>1. CASE s.fmt \in SemiPlanar \cup {"Y_ONLY"}
  <2>1. PostView(s, d) = PreviewSemiPlanar(s, d)
    BY <1>1 DEF PostView, SemiPlanar, YOnly, Planar422, Venus
  <2> QED BY <2>1, <1>1, SemiPlanarFits
<1>2. CASE s.fmt = "NV21_ADRENO"
  <2>1. PostView(s, d) = PostViewAdreno(s, d)
    BY <1>2 DEF PostView, SemiPlanar, YOnly, Planar422, Venus
  <2> QED BY <2>1, <1>2, AdrenoFits
<1>4. CASE s.fmt \in Planar422
  <2>1. PostView(s, d) = Preview422(s, d)
    BY <1>4 DEF PostView, SemiPlanar, YOnly, Planar422, Venus
  <2> QED BY <2>1, <1>4, Row422Fits
<1>5. CASE s.fmt = "NV12_VENUS"
  <2>1. PostView(s, d) = PreviewVenus(s, d)
    BY <1>5 DEF PostView, SemiPlanar, YOnly, Planar422, Venus, PostViewVenus, PreviewVenus
  <2> QED BY <2>1, <1>5, PreviewVenusFits DEF Venus
<1>6. CASE s.fmt = "NV21_VENUS"
  <2>1. PostView(s, d) = VenusLayout(VenusY(d), VenusUV(d), VenusSize(d.width, d.height))
    BY <1>6 DEF PostView, SemiPlanar, YOnly, Planar422, Venus, PostViewVenus
  <2>2. Pixels(s.fmt, d) = << <<d.width, d.height>>, <<d.width, d.height \div 2>> >>
    BY <1>6, Shapes DEF Venus
  <2> QED BY <2>1, <2>2, VenusOwnFits
<1>7. CASE s.fmt \in RawFormats
  <2>1. PostView(s, d) = Failed
    BY <1>7 DEF PostView, SemiPlanar, YOnly, Planar422, Venus, RawFormats
  <2> QED BY <2>1 DEF Failed
<1> QED BY <1>1, <1>2, <1>4, <1>5, <1>6, <1>7 DEF Formats, Venus

-----------------------------------------------------------------------------
\* The margin of a snapshot is a multiple of the padding of planes.
LEMMA MarginFacts ==
    ASSUME NEW pad \in Padding
    PROVE  /\ SnapshotMargin(pad).x \in Nat /\ SnapshotMargin(pad).y \in Nat
           /\ \E k \in Nat : SnapshotMargin(pad).x = k * pad.plane
           /\ \E k \in Nat : SnapshotMargin(pad).y = k * pad.plane
<1> pad.plane \in Nat \ {0} /\ pad.x \in Nat /\ pad.y \in Nat BY PadFacts
<1>1. SnapshotMargin(pad).x = Pad(pad.x, pad.plane) BY DEF SnapshotMargin
<1>2. SnapshotMargin(pad).y = Pad(pad.y, pad.plane) BY DEF SnapshotMargin
<1>3. Pad(pad.x, pad.plane) \in Nat /\ \E k \in Nat : Pad(pad.x, pad.plane) = k * pad.plane
  BY PadUp, PadMultiple
<1>4. Pad(pad.y, pad.plane) \in Nat /\ \E k \in Nat : Pad(pad.y, pad.plane) = k * pad.plane
  BY PadUp, PadMultiple
<1> QED BY <1>1, <1>2, <1>3, <1>4

\* The image lies behind the margin, and another margin behind the image is not needed.
LEMMA InsetRoom ==
    ASSUME NEW pad \in Padding, NEW stride \in Nat, NEW scan \in Nat,
           NEW row \in Nat, NEW rows \in Nat, rows > 0,
           row + SnapshotMargin(pad).x <= stride, rows + SnapshotMargin(pad).y <= scan
    PROVE  Room(Inset(Plane(stride, scan), pad), row, rows)
<1> DEFINE mx == SnapshotMargin(pad).x
           my == SnapshotMargin(pad).y
           pl == Inset(Plane(stride, scan), pad)
<1> pad.plane \in Nat \ {0} BY PadFacts
<1>1. mx \in Nat /\ my \in Nat BY MarginFacts
<1>2. PICK kx \in Nat : mx = kx * pad.plane BY MarginFacts
<1>3. PICK ky \in Nat : my = ky * pad.plane BY MarginFacts
<1>4. Pad(mx + stride * my, pad.plane) = mx + stride * my
  <2> DEFINE k == kx + stride * ky
  <2>1. k \in Nat /\ k * pad.plane = mx + stride * my BY <1>2, <1>3
  <2> HIDE DEF k, mx, my
  <2>2. Pad(k * pad.plane, pad.plane) = k * pad.plane BY <2>1, PadExact
  <2> QED BY <2>1, <2>2
<1>5. /\ pl.offset = mx + stride * my /\ pl.stride = stride
      /\ pl.len = Pad(stride * scan, pad.plane)
  BY <1>4 DEF Inset, Grown, Plane
<1> HIDE DEF mx, my, pl
<1>6. stride * scan \in Nat /\ (rows + my - 1) * stride + (row + mx) <= stride * scan
  <2> DEFINE r == row + mx
             n == rows + my
  <2>1. r \in Nat /\ n \in Nat /\ n > 0 BY <1>1
  <2>2. r <= stride /\ n <= scan BY DEF mx, my
  <2> HIDE DEF r, n
  <2>3. stride * scan \in Nat /\ (n - 1) * stride + r <= stride * scan BY <2>1, <2>2, RowsFit
  <2> QED BY <1>1, <2>3 DEF r, n
<1>7. Pad(stride * scan, pad.plane) \in Nat /\ stride * scan <= Pad(stride * scan, pad.plane)
  <2> DEFINE n == stride * scan
  <2> n \in Nat BY <1>6
  <2> HIDE DEF n
  <2> n <= Pad(n, pad.plane) /\ Pad(n, pad.plane) \in Nat BY PadUp
  <2> QED BY DEF n
<1>8. (rows + my - 1) * stride = stride * my + (rows - 1) * stride BY <1>1
<1>9. stride * my \in Nat /\ (rows - 1) * stride \in Nat BY <1>1
<1>10. mx + stride * my + (rows - 1) * stride + row <= Pad(stride * scan, pad.plane)
  BY <1>1, <1>6, <1>7, <1>8, <1>9
<1>11. row <= stride
  <2>1. row + mx <= stride BY DEF mx
  <2> QED BY <2>1, <1>1
<1> QED BY <1>5, <1>7, <1>10, <1>11 DEF Room, Holds, pl

\* The first plane of a snapshot has a margin on all sides of the image.
LEMMA SnapshotYFacts ==
    ASSUME NEW pad \in Padding, NEW d \in Sizes
    PROVE  LET y == SnapshotY(d, pad)
               m == SnapshotMargin(pad)
           IN  /\ y.stride \in Nat /\ d.width + 2 * m.x <= y.stride
               /\ y.scanline \in Nat /\ d.height + 2 * m.y <= y.scanline
               /\ y = Plane(y.stride, y.scanline)
<1> DEFINE m == SnapshotMargin(pad)
           w == d.width + 2 * m.x
           h == d.height + 2 * m.y
<1> pad.width \in Nat \ {0} /\ pad.height \in Nat \ {0} BY PadFacts
<1>1. w \in Nat /\ h \in Nat BY MarginFacts, SizeFacts
<1>2. SnapshotY(d, pad) = Plane(Pad(w, pad.width), Pad(h, pad.height)) BY DEF SnapshotY
<1> HIDE DEF w, h
<1>3. Pad(w, pad.width) \in Nat /\ w <= Pad(w, pad.width) BY <1>1, PadUp
<1>4. Pad(h, pad.height) \in Nat /\ h <= Pad(h, pad.height) BY <1>1, PadUp
<1> HIDE DEF m
<1> QED BY <1>2, <1>3, <1>4 DEF Plane, w, h, m

\* The planes of a snapshot, luma, interleaved chroma and chroma, have room for the
\* image inside the margin.
LEMMA SnapshotPlanes ==
    ASSUME NEW pad \in Padding, NEW d \in Sizes
    PROVE  LET y == SnapshotY(d, pad)
           IN  /\ Room(Inset(y, pad), d.width, d.height)
               /\ Room(Inset(Plane(y.stride, y.scanline \div 2), pad), d.width, d.height \div 2)
               /\ Room(Inset(Plane(Pad(y.stride \div 2, 16), y.scanline \div 2), pad),
                       d.width \div 2, d.height \div 2)
<1> DEFINE y == SnapshotY(d, pad)
           m == SnapshotMargin(pad)
           half == y.stride \div 2
<1>1. /\ y.stride \in Nat /\ d.width + 2 * m.x <= y.stride
      /\ y.scanline \in Nat /\ d.height + 2 * m.y <= y.scanline
      /\ y = Plane(y.stride, y.scanline)
  BY SnapshotYFacts
<1>2. m.x \in Nat /\ m.y \in Nat BY MarginFacts
<1> HIDE DEF y
<1>3. y.scanline \div 2 \in Nat /\ d.height \div 2 + m.y <= y.scanline \div 2
  BY <1>1, <1>2, SizeFacts
<1>4. half \in Nat /\ d.width \div 2 + m.x <= half BY <1>1, <1>2, SizeFacts
<1> HIDE DEF half
<1>5. Pad(half, 16) \in Nat /\ d.width \div 2 + m.x <= Pad(half, 16)
  <2>1. Pad(half, 16) \in Nat /\ half <= Pad(half, 16) BY <1>4, PadUp
  <2> QED BY <2>1, <1>2, <1>4, SizeFacts
<1>6. Room(Inset(Plane(y.stride, y.scanline), pad), d.width, d.height)
  <2>1. d.width + m.x <= y.stride /\ d.height + m.y <= y.scanline BY <1>1, <1>2, SizeFacts
  <2> QED BY <2>1, <1>1, InsetRoom, SizeFacts
<1>7. Room(Inset(Plane(y.stride, y.scanline \div 2), pad), d.width, d.height \div 2)
  <2>1. d.width + m.x <= y.stride BY <1>1, <1>2, SizeFacts
  <2> QED BY <2>1, <1>1, <1>3, InsetRoom, SizeFacts
<1>8. Room(Inset(Plane(Pad(half, 16), y.scanline \div 2), pad), d.width \div 2, d.height \div 2)
  BY <1>3, <1>5, InsetRoom, SizeFacts
<1> QED BY <1>1, <1>6, <1>7, <1>8 DEF y, half

\* A snapshot in any format holds its pixels (mm_stream_calc_offset_snapshot()).
LEMMA SnapshotFits ==
    ASSUME NEW fmt \in Formats, NEW pad \in Padding, NEW d \in Sizes, Snapshot(fmt, d, pad).rc = 0
    PROVE  Fits(Snapshot(fmt, d, pad), Pixels(fmt, d))
<1> DEFINE y == SnapshotY(d, pad)
           iy == Inset(y, pad)
           cb == Inset(Plane(y.stride, y.scanline \div 2), pad)
           c == Inset(Plane(Pad(y.stride \div 2, 16), y.scanline \div 2), pad)
<1>1. /\ Room(iy, d.width, d.height) /\ Room(cb, d.width, d.height \div 2)
      /\ Room(c, d.width \div 2, d.height \div 2)
  BY SnapshotPlanes
<1>2. /\ Snapshot(fmt, d, pad).rc = 0
      /\ fmt \in SemiPlanar \cup {"Y_ONLY"} => Snapshot(fmt, d, pad) = Layout(<<iy, cb>>)
      /\ fmt = "YV12" => Snapshot(fmt, d, pad) = Layout(<<iy, c, c>>)
      /\ fmt \in Planar422 => Snapshot(fmt, d, pad) = Layout(<<iy, iy>>)
      /\ fmt \in Venus => Snapshot(fmt, d, pad)
                            = VenusLayout(VenusY(d), VenusUV(d), VenusSize(d.width, d.height))
      /\ fmt \notin RawFormats /\ fmt # "NV21_ADRENO"
  BY DEF Snapshot, Snapshot420, SemiPlanar, YOnly, Planar422, Venus, Formats, RawFormats, Failed
<1> HIDE DEF iy, cb, c
<1>3. /\ Fits(Layout(<<iy, cb>>), << <<d.width, d.height>>, <<d.width, d.height \div 2>> >>)
      /\ Fits(Layout(<<iy, cb>>), << <<d.width, d.height>> >>)
  BY <1>1, TwoPlanes, SizeFacts
<1>4. Fits(Layout(<<iy, iy>>), << <<d.width, d.height>>, <<d.width, d.height>> >>)
  BY <1>1, TwoPlanes, SizeFacts
<1>5. Fits(Layout(<<iy, c, c>>), << <<d.width, d.height>>,
              <<d.width \div 2, d.height \div 2>>, <<d.width \div 2, d.height \div 2>> >>)
  BY <1>1, ThreePlanes, SizeFacts
<1>6. CASE fmt \in SemiPlanar BY <1>2, <1>3, <1>6, Shapes
<1>7. CASE fmt = "Y_ONLY" BY <1>2, <1>3, <1>7, Shapes
<1>8. CASE fmt = "YV12" BY <1>2, <1>5, <1>8, Shapes
<1>9. CASE fmt \in Planar422 BY <1>2, <1>4, <1>9, Shapes
<1>10. CASE fmt \in Venus BY <1>2, <1>10, Shapes, VenusOwnFits
<1> QED BY <1>2, <1>6, <1>7, <1>8, <1>9, <1>10 DEF Formats

-----------------------------------------------------------------------------
\* The bytes of a row as the stack lays them out, and as the format needs them.
RowLaid(fmt, w) ==
    CASE fmt \in {"RAW_YUV", "RAW_8"} -> Raw8(fmt, w)
      [] fmt \in {"PLAIN_16", "MIPI_14", "QCOM_14"} -> RawWide(fmt, w)
      [] OTHER -> RawPacked(fmt, w)

RowNeeded(fmt, w) ==
    CASE fmt = "RAW_8" -> w
      [] fmt \in {"RAW_YUV", "PLAIN_16"} -> 2 * w
      [] fmt = "QCOM_10" -> ((w + 5) \div 6) * 8
      [] fmt = "QCOM_12" -> ((w + 4) \div 5) * 8
      [] fmt = "QCOM_14" -> ((w + 3) \div 4) * 8
      [] fmt = "MIPI_10" -> ((w + 3) \div 4) * 5
      [] fmt = "MIPI_12" -> ((w + 1) \div 2) * 3
      [] fmt = "MIPI_14" -> ((w + 3) \div 4) * 7

\* A row of raw pixels is laid out with the bytes it needs, whatever its packing.
LEMMA RawRows ==
    ASSUME NEW fmt \in RawFormats, NEW w \in Nat
    PROVE  /\ RowLaid(fmt, w) \in Nat /\ RowNeeded(fmt, w) \in Nat
           /\ RowNeeded(fmt, w) <= RowLaid(fmt, w)
<1>1. CASE fmt = "RAW_8" BY <1>1 DEF RowLaid, RowNeeded, Raw8, Pad
<1>2. CASE fmt = "RAW_YUV" BY <1>2 DEF RowLaid, RowNeeded, Raw8, Pad
<1>3. CASE fmt = "PLAIN_16" BY <1>3 DEF RowLaid, RowNeeded, RawWide, Pad
<1>4. CASE fmt = "MIPI_14" BY <1>4 DEF RowLaid, RowNeeded, RawWide, Pad
<1>5. CASE fmt = "QCOM_14" BY <1>5 DEF RowLaid, RowNeeded, RawWide, Pad
<1>6. CASE fmt = "QCOM_10" BY <1>6 DEF RowLaid, RowNeeded, RawPacked, Pad
<1>7. CASE fmt = "QCOM_12" BY <1>7 DEF RowLaid, RowNeeded, RawPacked, Pad
<1>8. CASE fmt = "MIPI_10" BY <1>8 DEF RowLaid, RowNeeded, RawPacked, Pad
<1>9. CASE fmt = "MIPI_12" BY <1>9 DEF RowLaid, RowNeeded, RawPacked, Pad
<1> QED BY <1>1, <1>2, <1>3, <1>4, <1>5, <1>6, <1>7, <1>8, <1>9 DEF RawFormats

\* A raw format has one plane of such rows.
LEMMA RawShapes ==
    ASSUME NEW fmt \in RawFormats, NEW d \in Sizes
    PROVE  Pixels(fmt, d) = << <<RowNeeded(fmt, d.width), d.height>> >>
<1> USE DEF Pixels, RowNeeded, SemiPlanar, Venus, Planar422
<1> d.width \in Nat BY SizeFacts
<1>1. CASE fmt = "RAW_8" BY <1>1
<1>2. CASE fmt = "RAW_YUV" BY <1>2
<1>3. CASE fmt = "PLAIN_16" BY <1>3
<1>4. CASE fmt = "MIPI_14" BY <1>4
<1>5. CASE fmt = "QCOM_14" BY <1>5
<1>6. CASE fmt = "QCOM_10" BY <1>6
<1>7. CASE fmt = "QCOM_12" BY <1>7
<1>8. CASE fmt = "MIPI_10" BY <1>8
<1>9. CASE fmt = "MIPI_12" BY <1>9
<1> QED BY <1>1, <1>2, <1>3, <1>4, <1>5, <1>6, <1>7, <1>8, <1>9 DEF RawFormats

\* A raw frame holds its pixels (mm_stream_calc_offset_raw()).
LEMMA RawFits ==
    ASSUME NEW fmt \in Formats, NEW pad \in Padding, NEW d \in Sizes, Raw(fmt, d, pad).rc = 0
    PROVE  Fits(Raw(fmt, d, pad), Pixels(fmt, d))
<1> pad.width \in Nat \ {0} /\ pad.height \in Nat \ {0} /\ pad.plane \in Nat \ {0} BY PadFacts
<1>1. CASE fmt = "NV21"
  <2> DEFINE a == Pad(d.width, pad.width)
             b == Pad(d.height, pad.height)
             y == Grown(Plane(a, b), pad.plane)
             c == Grown(Plane(a, b \div 2), pad.plane)
  <2>1. a \in Nat /\ a >= d.width /\ b \in Nat /\ b >= d.height BY PaddedSides
  <2>2. Raw(fmt, d, pad) = Layout(<<y, c>>) BY <1>1 DEF Raw, RawNV21, Plane, RawFormats
  <2> HIDE DEF a, b
  <2>3. b \div 2 \in Nat /\ d.height \div 2 <= b \div 2 BY <2>1, SizeFacts
  <2>4. Room(y, d.width, d.height) BY <2>1, GrownRoom, SizeFacts
  <2>5. Room(c, d.width, d.height \div 2) BY <2>1, <2>3, GrownRoom, SizeFacts
  <2> HIDE DEF y, c
  <2>6. Fits(Layout(<<y, c>>), << <<d.width, d.height>>, <<d.width, d.height \div 2>> >>)
    BY <2>4, <2>5, TwoPlanes, SizeFacts
  <2> QED BY <1>1, <2>2, <2>6, Shapes DEF SemiPlanar
<1>2. CASE fmt \in RawFormats
  <2> DEFINE row == RowLaid(fmt, d.width)
             rows == Pad(d.height, pad.height)
             a == Grown(Plane(row, rows), pad.plane)
  <2>1. /\ row \in Nat /\ RowNeeded(fmt, d.width) \in Nat /\ RowNeeded(fmt, d.width) <= row
    BY <1>2, RawRows, SizeFacts
  <2>2. rows \in Nat /\ d.height <= rows BY PadUp, SizeFacts
  <2>3. Raw(fmt, d, pad) = Layout(<<a>>) BY <1>2 DEF Raw, RowLaid, RawFormats
  <2> HIDE DEF row, rows
  <2>4. Room(a, RowNeeded(fmt, d.width), d.height) BY <2>1, <2>2, GrownRoom, SizeFacts
  <2> HIDE DEF a
  <2>5. Fits(Layout(<<a>>), << <<RowNeeded(fmt, d.width), d.height>> >>)
    BY <2>1, <2>4, OnePlane, SizeFacts
  <2> QED BY <1>2, <2>3, <2>5, RawShapes
<1>3. CASE fmt # "NV21" /\ fmt \notin RawFormats
  <2> Raw(fmt, d, pad) = Failed BY <1>3 DEF Raw
  <2> QED BY DEF Failed
<1> QED BY <1>1, <1>2, <1>3

\* A video frame holds its pixels (mm_stream_calc_offset_video()).
LEMMA VideoFits ==
    ASSUME NEW fmt \in Formats, NEW d \in Sizes, Video(fmt, d).rc = 0
    PROVE  Fits(Video(fmt, d), Pixels(fmt, d))
<1> DEFINE y == Grown(Plane(d.width, d.height), 2048)
           c == Grown(Plane(d.width, d.height \div 2), 2048)
<1>1. Room(y, d.width, d.height) BY GrownRoom, SizeFacts
<1>2. Room(c, d.width, d.height \div 2) BY GrownRoom, SizeFacts
<1>3. /\ fmt \in {"NV12", "Y_ONLY"} => Video(fmt, d) = Layout(<<y, c>>)
      /\ fmt \in Venus => Video(fmt, d)
                            = VenusLayout(VenusY(d), VenusUV(d), VenusSize(d.width, d.height))
      /\ fmt \in {"NV12", "Y_ONLY"} \cup Venus
  BY DEF Video, YOnly, Venus, Formats, Failed, RawFormats, SemiPlanar, Planar422
<1> HIDE DEF y, c
<1>4. /\ Fits(Layout(<<y, c>>), << <<d.width, d.height>>, <<d.width, d.height \div 2>> >>)
      /\ Fits(Layout(<<y, c>>), << <<d.width, d.height>> >>)
  BY <1>1, <1>2, TwoPlanes, SizeFacts
<1>5. CASE fmt = "NV12" BY <1>3, <1>4, <1>5, Shapes DEF SemiPlanar
<1>6. CASE fmt = "Y_ONLY" BY <1>3, <1>4, <1>6, Shapes
<1>7. CASE fmt \in Venus BY <1>3, <1>7, Shapes, VenusOwnFits
<1> QED BY <1>3, <1>5, <1>6, <1>7

\* Metadata holds its bytes (mm_stream_calc_offset_metadata()).
LEMMA MetadataFits ==
    ASSUME NEW pad \in Padding, NEW d \in Sizes
    PROVE  Fits(Metadata(d, pad), << <<d.width, d.height>> >>)
<1> DEFINE m == Grown(Plane(d.width, d.height), pad.plane)
<1>1. Room(m, d.width, d.height) BY GrownRoom, PadFacts, SizeFacts
<1>2. Metadata(d, pad) = [rc |-> 0, planes |-> <<m>>, frame_len |-> m.len] BY DEF Metadata
<1> HIDE DEF m
<1>3. PlaneStart(<<m>>, 2) = m.len BY <1>1 DEF PlaneStart, Room
<1> QED BY <1>1, <1>2, <1>3 DEF Fits, Room

\* A frame for analysis holds its pixels, whatever least size is asked for
\* (mm_stream_calc_offset_analysis()).
LEMMA AnalysisFits ==
    ASSUME NEW fmt \in Formats, NEW pad \in Padding, NEW d \in Sizes, Analysis(fmt, d, pad).rc = 0
    PROVE  Fits(Analysis(fmt, d, pad), Pixels(fmt, d))
<1> DEFINE w == AtLeast(d.width, pad.min_stride)
           h == AtLeast(d.height, pad.min_scanline)
           a == Pad(w, pad.width)
           b == Pad(h, pad.height)
           e == Pad(a \div 2, 16)
           y == Grown(Plane(a, b), pad.plane)
           cb == Grown(Plane(a, b \div 2), pad.plane)
           c == Grown(Plane(e, b \div 2), pad.plane)
<1> pad.width \in Nat \ {0} /\ pad.height \in Nat \ {0} /\ pad.plane \in Nat \ {0} BY PadFacts
<1>1. w \in Nat /\ d.width <= w /\ h \in Nat /\ d.height <= h
  BY PadFacts, SizeFacts DEF AtLeast
<1>2. /\ fmt \in SemiPlanar => Analysis(fmt, d, pad) = Layout(<<y, cb>>)
      /\ fmt = "YV12" => Analysis(fmt, d, pad) = Layout(<<y, c, c>>)
      /\ fmt \in Planar422 => Analysis(fmt, d, pad) = Layout(<<y, y>>)
      /\ fmt = "Y_ONLY" => Analysis(fmt, d, pad) = Layout(<<y>>)
      /\ fmt \in Venus => Analysis(fmt, d, pad) = VenusLayout(VenusY(d), VenusUV(d),
                              VenusSize(VenusY(d).stride, VenusY(d).scanline))
      /\ fmt \in SemiPlanar \cup {"YV12", "Y_ONLY"} \cup Planar422 \cup Venus
  BY DEF Analysis, Analysis420, Plane, SemiPlanar, Planar422, YOnly, Venus, Formats,
         RawFormats, Failed
<1> HIDE DEF w, h
<1>3. a \in Nat /\ d.width <= a
  <2>1. a \in Nat /\ w <= a BY <1>1, PadUp
  <2> QED BY <2>1, <1>1, SizeFacts
<1>4. b \in Nat /\ d.height <= b
  <2>1. b \in Nat /\ h <= b BY <1>1, PadUp
  <2> QED BY <2>1, <1>1, SizeFacts
<1> HIDE DEF a, b
<1>5. b \div 2 \in Nat /\ d.height \div 2 <= b \div 2 BY <1>4, SizeFacts
<1>6. e \in Nat /\ d.width \div 2 <= e
  <2>1. a \div 2 \in Nat /\ d.width \div 2 <= a \div 2 BY <1>3, SizeFacts
  <2>2. e \in Nat /\ a \div 2 <= e BY <2>1, PadUp
  <2> QED BY <2>1, <2>2, SizeFacts
<1> HIDE DEF e
<1>7. Room(y, d.width, d.height) BY <1>3, <1>4, GrownRoom, SizeFacts
<1>8. Room(cb, d.width, d.height \div 2) BY <1>3, <1>5, GrownRoom, SizeFacts
<1>9. Room(c, d.width \div 2, d.height \div 2) BY <1>5, <1>6, GrownRoom, SizeFacts
<1> HIDE DEF y, cb, c
<1>10. CASE fmt \in SemiPlanar
  <2> Fits(Layout(<<y, cb>>), << <<d.width, d.height>>, <<d.width, d.height \div 2>> >>)
    BY <1>7, <1>8, TwoPlanes, SizeFacts
  <2> QED BY <1>2, <1>10, Shapes
<1>11. CASE fmt = "YV12"
  <2> Fits(Layout(<<y, c, c>>), << <<d.width, d.height>>,
              <<d.width \div 2, d.height \div 2>>, <<d.width \div 2, d.height \div 2>> >>)
    BY <1>7, <1>9, ThreePlanes, SizeFacts
  <2> QED BY <1>2, <1>11, Shapes
<1>12. CASE fmt \in Planar422
  <2> Fits(Layout(<<y, y>>), << <<d.width, d.height>>, <<d.width, d.height>> >>)
    BY <1>7, TwoPlanes, SizeFacts
  <2> QED BY <1>2, <1>12, Shapes
<1>13. CASE fmt = "Y_ONLY"
  <2> Fits(Layout(<<y>>), << <<d.width, d.height>> >>) BY <1>7, OnePlane, SizeFacts
  <2> QED BY <1>2, <1>13, Shapes
<1>14. CASE fmt \in Venus
  <2> DEFINE p == Pad(d.width, 128)
             q == Pad(d.height, 32)
             r == Pad((d.height + 1) \div 2, 16)
  <2>1. p \in Nat /\ p >= d.width /\ q \in Nat /\ q >= d.height BY PaddedSides
  <2>2. Analysis(fmt, d, pad) = VenusLayout(Plane(p, q), Plane(p, r), VenusSize(p, q))
    BY <1>2, <1>14 DEF VenusY, VenusUV, Plane
  <2> HIDE DEF p, q, r
  <2>3. Fits(VenusLayout(Plane(p, q), Plane(p, r), VenusSize(p, q)),
                << <<d.width, d.height>>, <<d.width, d.height \div 2>> >>)
    BY <2>1, VenusFits
  <2> QED BY <2>2, <2>3, <1>14, Shapes
<1> QED BY <1>2, <1>10, <1>11, <1>12, <1>13, <1>14

-----------------------------------------------------------------------------
(* The streams there are. *)

\* A stream of a sensor, of one that reprocesses, of one that does so offline.
IsSensor(s) == s.type \in Types /\ s.input = "DEFAULT"

IsReprocess(s) == s.type = "OFFLINE_PROC" /\ s.input \in Types /\ s.rotated = FALSE

IsOffline(s) ==
    /\ s.type = "OFFLINE_PROC" /\ s.input = "DEFAULT" /\ s.rotated = FALSE
    /\ s.fmt = "NV21" /\ s.inputPlanes = Snapshot("NV21", s.dim, s.pad)

SameStream(s, i) ==
    /\ i.type = s.type /\ i.fmt = s.fmt /\ i.dim = s.dim /\ i.pad = s.pad
    /\ i.rotated = s.rotated /\ i.input = s.input

\* What is known of a stream, and that telling it a layout changes nothing else.
LEMMA StreamKinds ==
    ASSUME NEW s \in Streams
    PROVE  /\ IsSensor(s) \/ IsReprocess(s) \/ IsOffline(s)
           /\ s.fmt \in Formats /\ s.dim \in Dims /\ s.pad \in Pads /\ s.planes = Failed
           /\ [s EXCEPT !.planes = Failed] = s
           /\ \A l : /\ SameStream(s, [s EXCEPT !.planes = l])
                     /\ [s EXCEPT !.planes = l].planes = l
                     /\ [s EXCEPT !.planes = l] # NoStream
                     /\ \A m : [[s EXCEPT !.planes = l] EXCEPT !.planes = m]
                                 = [s EXCEPT !.planes = m]
<1>1. PICK d \in Dims, p \in Pads :
        s \in {Sensor(t, f, d, p, r) : t \in Types, f \in Formats, r \in BOOLEAN}
               \cup {Reprocess(t, f, d, p) : t \in Types, f \in Formats} \cup {Offline(d, p)}
  BY DEF Streams
<1>2. ASSUME NEW t \in Types, NEW f \in Formats, NEW r \in BOOLEAN, s = Sensor(t, f, d, p, r)
      PROVE  IsSensor(s)
  BY <1>2 DEF Sensor, IsSensor
<1>3. ASSUME NEW t \in Types, NEW f \in Formats, s = Reprocess(t, f, d, p)
      PROVE  IsReprocess(s)
  BY <1>3 DEF Sensor, Reprocess, IsReprocess
<1>4. ASSUME s = Offline(d, p)
      PROVE  IsOffline(s)
  BY <1>4 DEF Sensor, Reprocess, Offline, IsOffline
<1> DEFINE rec(t, f, r, i, o, l) ==
             [type |-> t, fmt |-> f, dim |-> d, pad |-> p, rotated |-> r, input |-> i,
              offline |-> o, inputPlanes |-> l, planes |-> Failed]
           Explicit == \E f \in Formats : \E t, r, i, o, l : s = rec(t, f, r, i, o, l)
<1>5. Explicit
  <2>1. ASSUME NEW t \in Types, NEW f \in Formats, NEW r \in BOOLEAN, s = Sensor(t, f, d, p, r)
        PROVE  Explicit
    <3>1. s = rec(t, f, r, "DEFAULT", FALSE, Failed) BY <2>1 DEF Sensor
    <3> HIDE DEF rec
    <3> QED BY <3>1
  <2>2. ASSUME NEW t \in Types, NEW f \in Formats, s = Reprocess(t, f, d, p)
        PROVE  Explicit
    <3>1. s = rec("OFFLINE_PROC", f, FALSE, t, FALSE, Failed) BY <2>2 DEF Sensor, Reprocess
    <3> HIDE DEF rec
    <3> QED BY <3>1
  <2>3. ASSUME s = Offline(d, p)
        PROVE  Explicit
    <3>1. "NV21" \in Formats BY DEF Formats, SemiPlanar
    <3>2. s = rec("OFFLINE_PROC", "NV21", FALSE, "DEFAULT", TRUE, Snapshot("NV21", d, p))
      BY <2>3 DEF Sensor, Reprocess, Offline
    <3> HIDE DEF rec
    <3> QED BY <3>1, <3>2
  <2> QED BY <1>1, <2>1, <2>2, <2>3
<1>6. IsSensor(s) \/ IsReprocess(s) \/ IsOffline(s) BY <1>1, <1>2, <1>3, <1>4
<1>7. PICK f \in Formats : \E t, r, i, o, l : s = rec(t, f, r, i, o, l) BY <1>5
<1>11. PICK t, r, i, o, l : s = rec(t, f, r, i, o, l) BY <1>7
<1>8. s.fmt \in Formats /\ s.dim \in Dims /\ s.pad \in Pads /\ s.planes = Failed BY <1>11
<1>9. [s EXCEPT !.planes = Failed] = s BY <1>11
<1>10. ASSUME NEW x
       PROVE  /\ SameStream(s, [s EXCEPT !.planes = x])
              /\ [s EXCEPT !.planes = x].planes = x
              /\ [s EXCEPT !.planes = x] # NoStream
              /\ \A m : [[s EXCEPT !.planes = x] EXCEPT !.planes = m] = [s EXCEPT !.planes = m]
  BY <1>11 DEF SameStream, NoStream
<1> QED BY <1>6, <1>8, <1>9, <1>10

\* The frames there are have sides that can be halved.
LEMMA DimsAreSizes ==
    ASSUME NEW d \in Dims
    PROVE  d \in Sizes
BY StreamLayoutAssumption DEF Sizes

\* A rotated frame too.
LEMMA RotatedSize ==
    ASSUME NEW s, s.dim \in Dims
    PROVE  Rotated(s) \in Sizes
BY DimsAreSizes DEF Rotated, Sizes

\* What the planes of a stream have to hold.
PixelsOf(s) ==
    LET d == IF OfflineProc(s) THEN s.dim ELSE Rotated(s)
    IN IF "METADATA" \in {s.type, s.input} THEN << <<d.width, d.height>> >> ELSE Pixels(s.fmt, d)

\* mm_stream_calc_offset(): a stream of a sensor holds its pixels, ...
LEMMA SensorFits ==
    ASSUME NEW s \in Streams, IsSensor(s), CalcOffset(s).rc = 0
    PROVE  KnownShort(s) \/ Fits(CalcOffset(s), PixelsOf(s))
<1> DEFINE d == Rotated(s)
<1>1. s.fmt \in Formats /\ s.pad \in Padding /\ d \in Sizes
  BY StreamKinds, RotatedSize, StreamLayoutAssumption
<1>2. ~OfflineProc(s) /\ s.input = "DEFAULT" /\ s.type \in Types
  BY DEF IsSensor, OfflineProc, Types
<1> HIDE DEF d
<1>3. s.type # "METADATA" => PixelsOf(s) = Pixels(s.fmt, d) BY <1>2 DEF PixelsOf, d
<1>4. CASE s.type = "PREVIEW"
  <2> CalcOffset(s) = Preview(s, d) BY <1>4 DEF CalcOffset, d
  <2> QED BY <1>1, <1>3, <1>4, PreviewFits
<1>5. CASE s.type = "POSTVIEW"
  <2> CalcOffset(s) = PostView(s, d) BY <1>5 DEF CalcOffset, d
  <2> QED BY <1>1, <1>3, <1>5, PostViewFits DEF KnownShort
<1>6. CASE s.type \in {"SNAPSHOT", "CALLBACK"}
  <2> CalcOffset(s) = Snapshot(s.fmt, d, s.pad) BY <1>6 DEF CalcOffset, d
  <2> QED BY <1>1, <1>3, <1>6, SnapshotFits
<1>7. CASE s.type = "VIDEO"
  <2> CalcOffset(s) = Video(s.fmt, d) BY <1>7 DEF CalcOffset, d
  <2> QED BY <1>1, <1>3, <1>7, VideoFits
<1>8. CASE s.type = "RAW"
  <2> CalcOffset(s) = Raw(s.fmt, d, s.pad) BY <1>8 DEF CalcOffset, d
  <2> QED BY <1>1, <1>3, <1>8, RawFits
<1>9. CASE s.type = "ANALYSIS"
  <2> CalcOffset(s) = Analysis(s.fmt, d, s.pad) BY <1>9 DEF CalcOffset, d
  <2> QED BY <1>1, <1>3, <1>9, AnalysisFits
<1>10. CASE s.type = "METADATA"
  <2> CalcOffset(s) = Metadata(d, s.pad) BY <1>10 DEF CalcOffset, d
  <2> PixelsOf(s) = << <<d.width, d.height>> >> BY <1>2, <1>10 DEF PixelsOf, d
  <2> QED BY <1>1, <1>10, MetadataFits
<1> QED BY <1>2, <1>4, <1>5, <1>6, <1>7, <1>8, <1>9, <1>10 DEF Types

\* ... one that reprocesses is laid out as its input is (mm_stream_calc_offset_postproc()),
\* ...
LEMMA ReprocessFits ==
    ASSUME NEW s \in Streams, IsReprocess(s), CalcOffset(s).rc = 0
    PROVE  KnownShort(s) \/ Fits(CalcOffset(s), PixelsOf(s))
<1> DEFINE d == s.dim
<1>1. s.fmt \in Formats /\ s.pad \in Padding /\ d \in Sizes
  BY StreamKinds, DimsAreSizes, StreamLayoutAssumption
<1>2. OfflineProc(s) /\ s.input \in Types /\ s.type = "OFFLINE_PROC"
  BY DEF IsReprocess, OfflineProc
<1> HIDE DEF d
<1>3. CalcOffset(s) = PostProcLayout(s) BY <1>2 DEF CalcOffset
<1>4. s.input # "METADATA" => PixelsOf(s) = Pixels(s.fmt, d) BY <1>2 DEF PixelsOf, d
<1>5. CASE s.input = "PREVIEW"
  <2> CalcOffset(s) = Preview(s, d) BY <1>3, <1>5 DEF PostProcLayout, d
  <2> QED BY <1>1, <1>4, <1>5, PreviewFits
<1>6. CASE s.input = "POSTVIEW"
  <2> CalcOffset(s) = PostView(s, d) BY <1>3, <1>6 DEF PostProcLayout, d
  <2> QED BY <1>1, <1>4, <1>6, PostViewFits DEF KnownShort
<1>7. CASE s.input \in {"SNAPSHOT", "CALLBACK"}
  <2> CalcOffset(s) = Snapshot(s.fmt, d, s.pad) BY <1>3, <1>7 DEF PostProcLayout, d
  <2> QED BY <1>1, <1>4, <1>7, SnapshotFits
<1>8. CASE s.input = "VIDEO"
  <2> CalcOffset(s) = Video(s.fmt, d) BY <1>3, <1>8 DEF PostProcLayout, d
  <2> QED BY <1>1, <1>4, <1>8, VideoFits
<1>9. CASE s.input = "RAW"
  <2> CalcOffset(s) = Raw(s.fmt, d, s.pad) BY <1>3, <1>9 DEF PostProcLayout, d
  <2> QED BY <1>1, <1>4, <1>9, RawFits
<1>10. CASE s.input = "ANALYSIS"
  <2> CalcOffset(s) = Analysis(s.fmt, d, s.pad) BY <1>3, <1>10 DEF PostProcLayout, d
  <2> QED BY <1>1, <1>4, <1>10, AnalysisFits
<1>11. CASE s.input = "METADATA"
  <2> CalcOffset(s) = Metadata(d, s.pad) BY <1>3, <1>11 DEF PostProcLayout, d
  <2> PixelsOf(s) = << <<d.width, d.height>> >> BY <1>2, <1>11 DEF PixelsOf, d
  <2> QED BY <1>1, <1>11, MetadataFits
<1> QED BY <1>2, <1>5, <1>6, <1>7, <1>8, <1>9, <1>10, <1>11 DEF Types

\* ... and one that does so offline as the snapshot it is given.
LEMMA OfflineFits ==
    ASSUME NEW s \in Streams, IsOffline(s), CalcOffset(s).rc = 0
    PROVE  Fits(CalcOffset(s), PixelsOf(s))
<1> DEFINE d == s.dim
<1>1. s.fmt \in Formats /\ s.pad \in Padding /\ d \in Sizes
  BY StreamKinds, DimsAreSizes, StreamLayoutAssumption
<1>2. OfflineProc(s) /\ s.type = "OFFLINE_PROC" /\ s.input = "DEFAULT" /\ s.fmt = "NV21"
  BY DEF IsOffline, OfflineProc
<1>3. CalcOffset(s) = PostProcLayout(s) BY <1>2 DEF CalcOffset
<1>4. CalcOffset(s) = Snapshot("NV21", d, s.pad)
  BY <1>2, <1>3 DEF PostProcLayout, IsOffline, Failed
<1>5. PixelsOf(s) = Pixels("NV21", d) BY <1>2 DEF PixelsOf
<1> HIDE DEF d
<1> QED BY <1>1, <1>2, <1>4, <1>5, SnapshotFits

\* Every stream whose layout is computed holds its pixels.
LEMMA StreamsFit ==
    ASSUME NEW s \in Streams, CalcOffset(s).rc = 0
    PROVE  KnownShort(s) \/ Fits(CalcOffset(s), PixelsOf(s))
BY StreamKinds, SensorFits, ReprocessFits, OfflineFits

-----------------------------------------------------------------------------
(* The arithmetic of others. *)

\* sendPreviewCallback() finds the second plane where getBufDef() has it.
LEMMA ChromaFound ==
    ASSUME NEW s \in Streams, s.type = "PREVIEW", s.fmt \in SemiPlanar \cup Venus
    PROVE  CallbackChroma(CalcOffset(s).planes) = PlaneStart(CalcOffset(s).planes, 2)
<1> DEFINE d == Rotated(s)
<1>1. s.pad \in Padding /\ d \in Sizes BY StreamKinds, RotatedSize, StreamLayoutAssumption
<1>2. CalcOffset(s) = Preview(s, d) BY DEF CalcOffset
<1> HIDE DEF d
<1>3. ASSUME NEW a \in Nat, NEW b \in Nat, NEW c
      PROVE  CallbackChroma(<<Plane(a, b), c>>) = PlaneStart(<<Plane(a, b), c>>, 2)
  <2>1. a * b \in Nat BY ProductsGrow
  <2>2. PlaneStart(<<Plane(a, b), c>>, 2) = a * b BY <2>1 DEF PlaneStart, Plane
  <2> QED BY <2>2 DEF CallbackChroma, Plane
<1>4. ~OfflineProc(s) BY DEF OfflineProc
<1>5. CASE s.fmt \in SemiPlanar
  <2> DEFINE a == Pad(d.width, s.pad.width)
             b == Pad(d.height, 2)
             c == Plane(a, Pad(d.height \div 2, 2))
  <2> s.pad.width \in Nat \ {0} BY <1>1, PadFacts
  <2>1. a \in Nat /\ b \in Nat BY <1>1, PaddedSides
  <2>2. Preview(s, d).planes = <<Plane(a, b), c>>
    BY <1>4, <1>5 DEF Preview, PreviewSemiPlanar, Layout, SemiPlanar, YOnly, Planar422, Venus
  <2> HIDE DEF a, b, c
  <2> QED BY <1>2, <1>3, <2>1, <2>2
<1>6. CASE s.fmt \in Venus
  <2> DEFINE a == Pad(d.width, 128)
             b == Pad(d.height, 32)
             size == VenusSize(a, b)
             c == [VenusUV(d) EXCEPT !.len = size - Plane(a, b).len]
  <2>1. a \in Nat /\ b \in Nat BY <1>1, PaddedSides
  <2>2. Preview(s, d) = PreviewVenus(s, d)
    BY <1>6 DEF Preview, SemiPlanar, YOnly, Planar422, Venus
  <2>3. VenusY(d) = Plane(a, b) /\ Plane(a, b).stride = a /\ Plane(a, b).scanline = b
    BY DEF VenusY, Plane
  <2> HIDE DEF a, b
  <2>4. PreviewVenus(s, d) = VenusLayout(Plane(a, b), VenusUV(d), size)
    BY <1>4, <2>3 DEF PreviewVenus
  <2> HIDE DEF size
  <2>5. Preview(s, d).planes = <<Plane(a, b), c>> BY <2>2, <2>4 DEF VenusLayout
  <2> HIDE DEF c
  <2> QED BY <1>2, <1>3, <2>1, <2>5
<1> QED BY <1>5, <1>6

\* A packed row of raw frames is no longer than one of RAW16.
LEMMA LegacyRows ==
    ASSUME NEW w \in Nat
    PROVE  /\ Pad(w, 16) \in Nat /\ w <= Pad(w, 16)
           /\ (Pad(w, 12) * 8) \div 6 \in Nat /\ (Pad(w, 12) * 8) \div 6 <= 2 * Pad(w, 16)
BY DEF Pad

\* A packed pixel ends no later in its row than an unpacked one.
LEMMA LegacyPixel ==
    ASSUME NEW x \in Nat
    PROVE  /\ 8 * (x \div 6) + (10 * (x % 6)) \div 8 \in 0 .. 2 * x + 1
           /\ 8 * (x \div 6) + (10 * (x % 6) + 9) \div 8 \in 0 .. 2 * x + 1
<1> DEFINE q == x \div 6
           r == x % 6
<1>1. q \in Nat /\ r \in {0, 1, 2, 3, 4, 5} /\ x = 6 * q + r OBVIOUS
<1> HIDE DEF q, r
<1>2. /\ (10 * r) \div 8 \in 0 .. 2 * r + 1 /\ (10 * r + 9) \div 8 \in 0 .. 2 * r + 1
  BY <1>1
<1>3. 8 * q + (10 * r) \div 8 \in 0 .. 2 * x + 1 /\ 8 * q + (10 * r + 9) \div 8 \in 0 .. 2 * x + 1
  BY <1>1, <1>2
<1> QED BY <1>3 DEF q, r

\* So a byte that is read lies before all bytes that were written for later pixels.
LEMMA ReadBehindWrite ==
    ASSUME NEW p \in Nat, NEW row \in Nat, row <= 2 * p,
           NEW x \in Nat, NEW y \in Nat, NEW z \in Nat, NEW v \in Nat, x < p,
           v > y \/ (v = y /\ z > x), NEW byte \in 0 .. 2 * x + 1
    PROVE  y * row + byte < 2 * (v * p + z)
<1>1. y * row \in Nat /\ y * (2 * p) \in Nat /\ y * row <= y * (2 * p) BY ProductsGrow
<1>2. y * (2 * p) = 2 * (y * p) /\ y * p \in Nat OBVIOUS
<1>3. CASE v = y /\ z > x BY <1>1, <1>2, <1>3
<1>4. CASE v > y
  <2>1. PICK k \in Nat : v = y + 1 + k BY <1>4
  <2>2. v * p = y * p + p + k * p /\ k * p \in Nat BY <2>1
  <2> QED BY <1>1, <1>2, <2>2
<1> QED BY <1>3, <1>4

\* The conversion in place reads no byte that it has written.
LEMMA LegacyBehind ==
    ASSUME NEW w \in Nat, NEW x \in Nat, NEW y \in Nat, NEW z \in Nat, NEW v \in Nat, x < w,
           v > y \/ (v = y /\ z > x)
    PROVE  LegacyBytes(x, y, (Pad(w, 12) * 8) \div 6) \cap Raw16Bytes(z, v, w) = {}
<1> DEFINE p == Pad(w, 16)
           row == (Pad(w, 12) * 8) \div 6
           b == 8 * (x \div 6) + (10 * (x % 6)) \div 8
           c == 8 * (x \div 6) + (10 * (x % 6) + 9) \div 8
           first == 2 * (v * p + z)
<1>1. p \in Nat /\ w <= p /\ row \in Nat /\ row <= 2 * p BY LegacyRows
<1>2. b \in 0 .. 2 * x + 1 /\ c \in 0 .. 2 * x + 1 BY LegacyPixel
<1>3. LegacyBytes(x, y, row) = {y * row + b, y * row + c}
  <2> 8 * (x \div 6) \in Nat /\ (10 * (x % 6)) \div 8 \in Nat /\ (10 * (x % 6) + 9) \div 8 \in Nat
    OBVIOUS
  <2> HIDE DEF row
  <2> row \in Nat BY <1>1
  <2> y * row \in Nat OBVIOUS
  <2> QED BY DEF LegacyBytes
<1>4. Raw16Bytes(z, v, w) = {first, first + 1} BY DEF Raw16Bytes
<1> HIDE DEF p, row, b, c
<1>5. y * row + b < first /\ y * row + c < first
  <2> x < p BY <1>1
  <2> QED BY <1>1, <1>2, ReadBehindWrite
<1>6. y * row \in Nat /\ v * p \in Nat BY <1>1
<1> HIDE DEF first
<1>7. first \in Nat BY <1>1, <1>6 DEF first
<1>8. y * row + b \notin {first, first + 1} /\ y * row + c \notin {first, first + 1}
  BY <1>2, <1>5, <1>6, <1>7
<1> QED BY <1>3, <1>4, <1>8 DEF row

\* mm_stream_calc_lcm() of a padding and the JPEG's 4: the larger one.
LEMMA LcmOfFour ==
    ASSUME NEW p \in CamPads, p # 4
    PROVE  CalcLcm(p, 4) = IF p < 4 THEN 4 ELSE p
<1> DEFINE larger == IF p > 4 THEN p ELSE 4
           common == {m \in {larger * k : k \in 1 .. p * 4} : m % p = 0 /\ m % 4 = 0}
           least == CHOOSE m \in common : \A n \in common : m <= n
<1>1. p \in Nat \ {0} /\ larger \in Nat \ {0} /\ larger % p = 0 /\ larger % 4 = 0
  BY DEF CamPads
<1>2. CalcLcm(p, 4) = least
  <2>1. CalcLcm(p, 4) = CASE p < 1 /\ 4 < 1 -> 0
                          [] p < 1 /\ 4 >= 1 -> 4
                          [] 4 < 1 /\ p >= 1 -> p
                          [] OTHER -> least
    BY Zenon DEF CalcLcm
  <2> HIDE DEF least
  <2> QED BY <1>1, <2>1
<1>3. larger = IF p < 4 THEN 4 ELSE p BY <1>1
<1> HIDE DEF larger
<1>4. larger \in common
  <2>1. larger = larger * 1 /\ 1 \in 1 .. p * 4 BY <1>1
  <2> QED BY <1>1, <2>1
<1>5. \A n \in common : n \in Nat /\ larger <= n
  <2> SUFFICES ASSUME NEW k \in 1 .. p * 4 PROVE larger * k \in Nat /\ larger <= larger * k
    OBVIOUS
  <2>1. k \in Nat /\ 1 <= k BY <1>1
  <2>2. larger * 1 <= larger * k BY <1>1, <2>1, ProductsGrow
  <2> QED BY <1>1, <2>1, <2>2
<1> HIDE DEF common
<1>6. least \in common /\ \A n \in common : least <= n BY <1>4, <1>5
<1>7. least = larger
  <2> HIDE DEF least
  <2>1. least \in Nat /\ larger <= least /\ least <= larger BY <1>4, <1>5, <1>6
  <2> QED BY <1>1, <2>1
<1> QED BY <1>2, <1>3, <1>7

\* The padding a camera asks for, raised to the JPEG's, is one it could ask for, whole
\* blocks high and a multiple of both.
LEMMA RaisedPadding ==
    ASSUME NEW pad \in Padding
    PROVE  LET raised == JpegPadding(pad)
           IN  /\ raised \in Padding /\ raised.width = pad.width /\ raised.height % 16 = 0
               /\ raised.plane % 4 = 0 /\ raised.plane % pad.plane = 0
<1> DEFINE height == AtLeast(pad.height, 16)
           plane == IF pad.plane # 4 THEN CalcLcm(pad.plane, 4) ELSE pad.plane
           raised == [pad EXCEPT !.height = height, !.plane = plane]
<1>1. JpegPadding(pad) = raised BY DEF JpegPadding
<1>2. pad.height \in CamPads /\ pad.plane \in CamPads BY DEF Padding
<1>3. height \in CamPads /\ height % 16 = 0 BY <1>2 DEF AtLeast, CamPads
<1>4. plane = IF pad.plane < 4 THEN 4 ELSE pad.plane
  <2>1. CASE pad.plane = 4 BY <2>1
  <2>2. CASE pad.plane # 4 BY <1>2, <2>2, LcmOfFour
  <2> QED BY <2>1, <2>2
<1> HIDE DEF height, plane
<1>5. plane \in CamPads /\ plane % 4 = 0 /\ plane % pad.plane = 0
  BY <1>2, <1>4 DEF CamPads
<1>6. raised \in Padding /\ raised.width = pad.width /\ raised.height = height
      /\ raised.plane = plane
  BY <1>3, <1>5 DEF Padding
<1> HIDE DEF raised
<1> QED BY <1>1, <1>3, <1>5, <1>6

\* Padded to a multiple of q is padded to q.
LEMMA MultipleOfMultiple ==
    ASSUME NEW n \in Nat, NEW p \in Nat \ {0}, NEW q \in Nat \ {0}, p % q = 0
    PROVE  Pad(n, p) % q = 0
<1>1. PICK k \in Nat : Pad(n, p) = k * p BY PadMultiple
<1>2. PICK j \in Nat : p = j * q
  <2> p = q * (p \div q) /\ p \div q \in Nat BY SMT
  <2> QED OBVIOUS
<1>3. k * p = (k * j) * q /\ k * j \in Nat BY <1>2
<1>4. ((k * j) * q) % q = 0 BY <1>3, Divides
<1> QED BY <1>1, <1>3, <1>4

\* Padded to whole blocks and more is no less than padded to blocks.
LEMMA WholeBlocks ==
    ASSUME NEW h \in Nat, NEW n \in Nat, h <= n, NEW p \in Nat \ {0}, p % 16 = 0
    PROVE  Pad(h, 16) <= Pad(n, p)
<1>1. Pad(n, p) \in Nat /\ n <= Pad(n, p) BY PadUp
<1>2. Pad(n, p) % 16 = 0 BY MultipleOfMultiple
<1>3. Pad(h, 16) \in Nat /\ Pad(h, 16) < h + 16 BY PadUp
<1>4. Pad(h, 16) % 16 = 0 BY MultipleOfMultiple
<1> QED BY <1>1, <1>2, <1>3, <1>4

\* The encoder finds whole blocks at the end of a picture, aligned as it was asked.
LEMMA EncoderBlocks ==
    ASSUME NEW fmt \in SemiPlanar, NEW d \in Sizes, NEW pad \in Padding
    PROVE  LET planes == Snapshot(fmt, d, JpegPadding(pad)).planes
           IN  /\ planes[1].scanline >= Pad(d.height, 16)
               /\ planes[2].scanline >= Pad(d.height, 16) \div 2
               /\ \A i \in 1..2 :
                    /\ planes[i].stride % pad.width = 0
                    /\ \A p \in {pad.plane, 4} : planes[i].len % p = 0 /\ planes[i].offset % p = 0
<1> DEFINE raised == JpegPadding(pad)
           m == SnapshotMargin(raised)
           stride == Pad(d.width + 2 * m.x, raised.width)
           scan == Pad(d.height + 2 * m.y, raised.height)
           at == m.x + stride * m.y
           iy == Inset(Plane(stride, scan), raised)
           ic == Inset(Plane(stride, scan \div 2), raised)
<1>1. /\ raised \in Padding /\ raised.width = pad.width /\ raised.height % 16 = 0
      /\ raised.plane % 4 = 0 /\ raised.plane % pad.plane = 0
  BY RaisedPadding
<1>2. Snapshot(fmt, d, raised).planes = <<iy, ic>>
  <2> SnapshotY(d, raised) = Plane(stride, scan) BY DEF SnapshotY
  <2> HIDE DEF stride, scan, raised
  <2> Snapshot(fmt, d, raised) = Snapshot420(fmt, d, raised)
    BY DEF Snapshot, Planar422, Venus, SemiPlanar, YOnly
  <2> fmt # "YV12" BY DEF SemiPlanar
  <2> QED BY DEF Snapshot420, Layout, Plane
<1> HIDE DEF raised
<1>3. m.x \in Nat /\ m.y \in Nat BY <1>1, MarginFacts
<1>4. /\ raised.width \in Nat \ {0} /\ raised.height \in Nat \ {0} /\ raised.plane \in Nat \ {0}
      /\ pad.width \in Nat \ {0} /\ pad.plane \in Nat \ {0}
  BY <1>1, PadFacts
<1> HIDE DEF m
<1>5. stride \in Nat /\ stride % pad.width = 0
  <2> DEFINE n == d.width + 2 * m.x
  <2>1. n \in Nat BY <1>3, SizeFacts
  <2>2. pad.width % pad.width = 0 BY <1>4
  <2> HIDE DEF n
  <2>3. Pad(n, pad.width) \in Nat /\ Pad(n, pad.width) % pad.width = 0
    BY <1>4, <2>1, <2>2, PadUp, MultipleOfMultiple
  <2> QED BY <1>1, <2>3 DEF n
<1>6. scan \in Nat /\ Pad(d.height, 16) <= scan
  <2> DEFINE n == d.height + 2 * m.y
  <2>1. n \in Nat /\ d.height <= n BY <1>3, SizeFacts
  <2> HIDE DEF n
  <2>2. Pad(n, raised.height) \in Nat /\ Pad(d.height, 16) <= Pad(n, raised.height)
    BY <1>1, <1>4, <2>1, PadUp, WholeBlocks, SizeFacts
  <2> QED BY <2>2 DEF n
<1> HIDE DEF stride, scan
<1>7. scan \div 2 \in Nat /\ Pad(d.height, 16) \div 2 <= scan \div 2
  <2> Pad(d.height, 16) \in Nat BY PadUp, SizeFacts
  <2> QED BY <1>6
<1>8. at \in Nat BY <1>3, <1>5
<1>9. ASSUME NEW c \in Nat
      PROVE  LET i == Inset(Plane(stride, c), raised)
             IN  /\ i.stride = stride /\ i.scanline = c
                 /\ \A p \in {pad.plane, 4} : i.len % p = 0 /\ i.offset % p = 0
  <2> DEFINE i == Inset(Plane(stride, c), raised)
             n == stride * c
  <2>1. /\ i.stride = stride /\ i.scanline = c /\ i.len = Pad(n, raised.plane)
        /\ i.offset = Pad(at, raised.plane)
    BY DEF Inset, Grown, Plane, m
  <2>2. n \in Nat BY <1>5
  <2> HIDE DEF i, n, at
  <2>3. ASSUME NEW p \in {pad.plane, 4}
        PROVE  Pad(n, raised.plane) % p = 0 /\ Pad(at, raised.plane) % p = 0
    BY <1>1, <1>4, <1>8, <2>2, MultipleOfMultiple
  <2> QED BY <2>1, <2>3 DEF i
<1>10. /\ iy.stride = stride /\ iy.scanline = scan
       /\ \A p \in {pad.plane, 4} : iy.len % p = 0 /\ iy.offset % p = 0
  BY <1>6, <1>9
<1>11. /\ ic.stride = stride /\ ic.scanline = scan \div 2
       /\ \A p \in {pad.plane, 4} : ic.len % p = 0 /\ ic.offset % p = 0
  BY <1>7, <1>9
<1> HIDE DEF iy, ic
<1> QED BY <1>2, <1>5, <1>6, <1>7, <1>10, <1>11 DEF raised

-----------------------------------------------------------------------------
(* The invariant. *)

\* A stream has a layout when it is configured, or before if its buffers are deferred.
LaidOut(s) == configured \/ NeedDeferred(s.type, FALSE)

\* There is stream s: the shared info, the stack and the buffers have its one layout, or
\* none.
OneStream(s) ==
    /\ info = [s EXCEPT !.planes = IF LaidOut(s) THEN CalcOffset(s) ELSE Failed]
    /\ LaidOut(s) => CalcOffset(s).rc = 0
    /\ frames \in {Failed, CalcOffset(s)}

\* The inductive invariant: all who keep a layout keep that of the stack.
LayoutInv ==
    /\ configured \in BOOLEAN
    /\ \/ info = NoStream /\ configured = FALSE /\ frames = Failed
       \/ \E s \in Streams : OneStream(s)

\* The layout of a stream of a sensor does not depend on the one it has.
LEMMA SameLayout ==
    ASSUME NEW s, NEW i, SameStream(s, i), s.type # "OFFLINE_PROC"
    PROVE  CalcOffset(i) = CalcOffset(s)
<1> DEFINE d == Rotated(s)
<1> USE DEF SameStream
<1>1. Rotated(i) = d BY DEF Rotated
<1>2. OfflineProc(i) = OfflineProc(s) BY DEF OfflineProc
<1> HIDE DEF d
<1>3. YOfYv12(i, d) = YOfYv12(s, d) BY <1>2 DEF YOfYv12
<1>4. /\ PreviewSemiPlanar(i, d) = PreviewSemiPlanar(s, d)
      /\ PreviewAdreno(i, d) = PreviewAdreno(s, d) /\ PreviewYv12(i, d) = PreviewYv12(s, d)
      /\ Preview422(i, d) = Preview422(s, d) /\ PreviewVenus(i, d) = PreviewVenus(s, d)
  BY <1>2, <1>3 DEF PreviewSemiPlanar, PreviewAdreno, PreviewYv12, Preview422, PreviewVenus
<1>5. /\ PostViewAdreno(i, d) = PostViewAdreno(s, d) /\ PostViewYv12(i, d) = PostViewYv12(s, d)
      /\ PostViewVenus(i, d) = PostViewVenus(s, d)
  BY <1>2 DEF PostViewAdreno, PostViewYv12, PostViewVenus
<1>6. Preview(i, d) = Preview(s, d) BY <1>4 DEF Preview
<1>7. PostView(i, d) = PostView(s, d) BY <1>4, <1>5 DEF PostView
<1> QED BY <1>1, <1>6, <1>7 DEF CalcOffset, d

\* Where buffers are allocated early, the HAL computes the layout the stack computes.
LEMMA SameForHal ==
    ASSUME NEW s \in Streams, NeedDeferred(s.type, FALSE)
    PROVE  HalCalcOffset(s) = CalcOffset(s) /\ s.type # "OFFLINE_PROC"
BY DEF NeedDeferred, HalCalcOffset

\* No stream is there at first.
LEMMA InitInv == LayoutInit => LayoutInv
BY DEF LayoutInit, LayoutInv

\* QCameraStream::init() lays a stream out early, or not at all.
LEMMA InitStreamInv ==
    ASSUME LayoutInv, NEW s \in Streams, InitStream(s)
    PROVE  LayoutInv'
<1>1. configured = FALSE /\ frames = Failed
  <2>1. ASSUME NEW t \in Streams, OneStream(t)
        PROVE  info # NoStream
    BY <2>1, StreamKinds DEF OneStream
  <2> QED BY <2>1 DEF LayoutInv, InitStream
<1>2. configured' = FALSE /\ frames' = Failed BY <1>1 DEF InitStream
<1>3. CASE NeedDeferred(s.type, FALSE)
  <2>1. CalcOffset(s).rc = 0 /\ info' = [s EXCEPT !.planes = CalcOffset(s)]
    BY <1>3, SameForHal DEF InitStream
  <2>2. OneStream(s)' BY <1>2, <1>3, <2>1 DEF OneStream, LaidOut
  <2> QED BY <1>2, <2>2 DEF LayoutInv
<1>4. CASE ~NeedDeferred(s.type, FALSE)
  <2>1. info' = [s EXCEPT !.planes = Failed] BY <1>4, StreamKinds DEF InitStream
  <2>2. OneStream(s)' BY <1>2, <1>4, <2>1 DEF OneStream, LaidOut
  <2> QED BY <1>2, <2>2 DEF LayoutInv
<1> QED BY <1>3, <1>4

\* mm_stream_sync_info() lays out a stream that was not, and leaves alone one that was.
LEMMA SyncInfoInv ==
    ASSUME LayoutInv, SyncInfo
    PROVE  LayoutInv'
<1>1. PICK s \in Streams : OneStream(s) BY DEF LayoutInv, SyncInfo
<1>2. CalcOffset(info) = CalcOffset(s)
  <2>1. CASE NeedDeferred(s.type, FALSE)
    <3> SameStream(s, info) BY <1>1, StreamKinds DEF OneStream
    <3> QED BY <2>1, SameForHal, SameLayout
  <2>2. CASE ~NeedDeferred(s.type, FALSE)
    <3> info = s BY <1>1, <2>2, StreamKinds DEF OneStream, LaidOut, SyncInfo
    <3> QED OBVIOUS
  <2> QED BY <2>1, <2>2
<1>3. CalcOffset(s).rc = 0 /\ configured' = TRUE /\ frames' = frames BY <1>2 DEF SyncInfo
<1>4. info' = [s EXCEPT !.planes = CalcOffset(s)]
  <2>1. info' = [info EXCEPT !.planes = CalcOffset(s)] BY <1>2 DEF SyncInfo
  <2>2. PICK l : info = [s EXCEPT !.planes = l] BY <1>1 DEF OneStream
  <2> QED BY <2>1, <2>2, StreamKinds
<1>5. OneStream(s)' BY <1>1, <1>3, <1>4 DEF OneStream, LaidOut
<1> QED BY <1>3, <1>5 DEF LayoutInv

\* allocateBuffers() copies a layout that is final.
LEMMA AllocateBuffersInv ==
    ASSUME LayoutInv, AllocateBuffers
    PROVE  LayoutInv'
<1>1. PICK s \in Streams : OneStream(s) BY DEF LayoutInv, AllocateBuffers
<1>2. info' = info /\ configured' = configured BY DEF AllocateBuffers
<1>3. LaidOut(s)
  <2>1. PICK l : info = [s EXCEPT !.planes = l] BY <1>1 DEF OneStream
  <2>2. SameStream(s, info) BY <2>1, StreamKinds
  <2>3. info.type = s.type BY <2>2 DEF SameStream
  <2> QED BY <2>3 DEF AllocateBuffers, LaidOut
<1>4. frames' = CalcOffset(s)
  <2>1. info = [s EXCEPT !.planes = CalcOffset(s)] BY <1>1, <1>3 DEF OneStream
  <2>2. info.planes = CalcOffset(s) BY <2>1, StreamKinds
  <2> QED BY <2>2 DEF AllocateBuffers
<1>5. OneStream(s)' BY <1>1, <1>2, <1>4 DEF OneStream, LaidOut
<1> QED BY <1>2, <1>5 DEF LayoutInv

\* The shared info, the stack and the buffers have one layout of each stream, whoever
\* computed it first (QCameraStream::init(), mm_stream_sync_info(), allocateBuffers()).
THEOREM LayoutInvariance == LayoutSpec => []LayoutInv
<1>1. LayoutInit => LayoutInv BY InitInv
<1>2. LayoutInv /\ [LayoutNext]_layoutVars => LayoutInv'
  <2> SUFFICES ASSUME LayoutInv, [LayoutNext]_layoutVars PROVE LayoutInv' OBVIOUS
  <2>1. CASE \E s \in Streams : InitStream(s) BY <2>1, InitStreamInv
  <2>2. CASE SyncInfo BY <2>2, SyncInfoInv
  <2>3. CASE AllocateBuffers BY <2>3, AllocateBuffersInv
  <2>4. CASE UNCHANGED layoutVars
    BY <2>4 DEF LayoutInv, OneStream, LaidOut, layoutVars
  <2> QED BY <2>1, <2>2, <2>3, <2>4 DEF LayoutNext
<1> QED BY <1>1, <1>2, PTL DEF LayoutSpec

\* Buffers with the one layout of their stream are those every other part expects.
LEMMA InvFits == LayoutInv => LayoutsFit
<1> SUFFICES ASSUME LayoutInv, configured PROVE LayoutsFit BY DEF LayoutsFit
<1>1. PICK s \in Streams : OneStream(s) BY DEF LayoutInv
<1>2. /\ SameStream(s, info) /\ info.planes = CalcOffset(s) /\ CalcOffset(s).rc = 0
      /\ frames \in {Failed, CalcOffset(s)}
  <2>1. info = [s EXCEPT !.planes = CalcOffset(s)] BY <1>1 DEF OneStream, LaidOut
  <2>2. SameStream(s, info) /\ info.planes = CalcOffset(s) BY <2>1, StreamKinds
  <2>3. CalcOffset(s).rc = 0 /\ frames \in {Failed, CalcOffset(s)}
    BY <1>1 DEF OneStream, LaidOut
  <2> QED BY <2>2, <2>3
<1>3. /\ s.fmt \in Formats /\ s.dim \in Dims /\ s.pad \in Padding /\ Rotated(s) \in Sizes
      /\ s.dim \in Sizes
  BY StreamKinds, RotatedSize, DimsAreSizes, StreamLayoutAssumption
<1>4. Rotated(info) = Rotated(s) BY <1>2 DEF Rotated, SameStream
<1>5. frames.rc = 0 => frames = info.planes BY <1>2 DEF Failed
<1>6. PlanesHoldPixels
  <2>1. KnownShort(info) <=> KnownShort(s)
    BY <1>2 DEF KnownShort, SameStream, OfflineProc
  <2>2. PixelsOf(info) = PixelsOf(s) BY <1>2, <1>4 DEF PixelsOf, SameStream, OfflineProc
  <2>3. KnownShort(info) \/ Fits(info.planes, PixelsOf(info))
    BY <1>2, <2>1, <2>2, StreamsFit
  <2> QED BY <2>3 DEF PlanesHoldPixels, Fits, PixelsOf
<1>7. CallbackFindsChroma BY <1>2, ChromaFound DEF CallbackFindsChroma, SameStream
<1>8. EncoderHasBlocks
  <2> SUFFICES ASSUME info.fmt \in SemiPlanar PROVE EncoderHasBlocks BY DEF EncoderHasBlocks
  <2> info.dim \in Sizes /\ info.pad \in Padding BY <1>2, <1>3 DEF SameStream
  <2> QED BY EncoderBlocks DEF EncoderHasBlocks
<1>9. LegacyRawInPlace
  <2> SUFFICES ASSUME info.type = "RAW", info.fmt = "QCOM_10" PROVE InPlaceSafe(LegacyBytes)
    BY DEF LegacyRawInPlace
  <2> DEFINE d == Rotated(info)
             row == info.planes.planes[1].stride
  <2>1. d.width \in Nat /\ d.height \in Nat BY <1>3, <1>4, SizeFacts
  <2>2. row = (Pad(d.width, 12) * 8) \div 6
    <3> CalcOffset(s) = Raw("QCOM_10", d, s.pad) BY <1>2, <1>4 DEF CalcOffset, SameStream
    <3> HIDE DEF d
    <3> QED BY <1>2 DEF Raw, RawFormats, RawPacked, Layout, Grown, Plane
  <2> HIDE DEF d, row
  <2>3. \A x, z \in 0 .. d.width - 1, y, v \in 0 .. d.height - 1 :
           v > y \/ (v = y /\ z > x) => LegacyBytes(x, y, row) \cap Raw16Bytes(z, v, d.width) = {}
    <3> SUFFICES ASSUME NEW x \in 0 .. d.width - 1, NEW z \in 0 .. d.width - 1,
                        NEW y \in 0 .. d.height - 1, NEW v \in 0 .. d.height - 1,
                        v > y \/ (v = y /\ z > x)
                 PROVE  LegacyBytes(x, y, row) \cap Raw16Bytes(z, v, d.width) = {}
      OBVIOUS
    <3>1. x \in Nat /\ y \in Nat /\ z \in Nat /\ v \in Nat /\ x < d.width BY <2>1
    <3>2. LegacyBytes(x, y, (Pad(d.width, 12) * 8) \div 6) \cap Raw16Bytes(z, v, d.width) = {}
      BY <2>1, <3>1, LegacyBehind
    <3> QED BY <2>2, <3>2
  <2> QED BY <2>3 DEF InPlaceSafe, d, row
<1> QED BY <1>5, <1>6, <1>7, <1>8, <1>9 DEF LayoutsFit

\* Whatever the type, format, size and paddings of a stream: its buffers have the layout
\* of the stack, its planes hold the pixels and lie in the frame, and the preview
\* callback, the encoder and the conversion of raw frames find their bytes in it.
THEOREM Layouts == LayoutSpec => []LayoutsFit
BY LayoutInvariance, InvFits, PTL

=============================================================================
