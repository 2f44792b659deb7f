------------------------------ MODULE Convert ------------------------------
(***************************************************************************)
(* The conversions of pixels, samples and boxes: rgb_to_yuyv (v4l2.c), the *)
(* mono mix of audio_thread_func (kinect.c), the false colours of the      *)
(* panel's depth view and its picture in picture (mainwindow.cpp), and the *)
(* boxes that the skeleton tracker cuts out (tracker.cpp).  Bytes wrap at  *)
(* 256 where the code casts without a clamp.  x >> n is x \div 2^n, and    *)
(* Quotient is the division of C, which truncates towards zero.            *)
(***************************************************************************)
EXTENDS Integers

Byte == 0..255
Pixels == [r : Byte, g : Byte, b : Byte]
Smaller(x, y) == IF x < y THEN x ELSE y
Larger(x, y) == IF x < y THEN y ELSE x
Quotient(x, n) == IF x >= 0 THEN x \div n ELSE -((-x) \div n)

-----------------------------------------------------------------------------
(* rgb_to_yuyv *)

Luma(p) == (66 * p.r + 129 * p.g + 25 * p.b + 128) \div 256 + 16
ChromaU(p) == (-38 * p.r - 74 * p.g + 112 * p.b + 128) \div 256 + 128
ChromaV(p) == (112 * p.r - 94 * p.g - 18 * p.b + 128) \div 256 + 128

Clamp(x) == IF x < 0 THEN 0 ELSE IF x > 255 THEN 255 ELSE x

\* Two neighbours share the colour of the first.
Yuyv(p, q) ==
    <<Clamp(Luma(p)), Clamp(ChromaU(p)), Clamp(Luma(q)), Clamp(ChromaV(p))>>

\* Bytes read and written for the pair of pixels that begins at i
BytesRead(i) == (3 * i)..(3 * (i + 1) + 2)
BytesWritten(i) == (2 * i)..(2 * i + 3)

-----------------------------------------------------------------------------
(* One sample of the four microphones, 32 bits wide, to one of 16 bits *)

Upper(s) == s \div 65536
Mono(s0, s1, s2, s3) ==
    Quotient(Upper(s0) + Upper(s1) + Upper(s2) + Upper(s3), 4)

-----------------------------------------------------------------------------
(* depthToJET, readIR *)

Scaled(raw) == (raw * 255) \div 2048
Grey(raw) == Scaled(raw) % 256

Red(v) == IF v < 128 THEN 0 ELSE (v - 128) * 2
Green(v) == IF v < 64 THEN v * 4 ELSE IF v < 192 THEN 255 ELSE (255 - v) * 4
Blue(v) == IF v < 128 THEN (128 - v) * 2 ELSE 0

Jet(raw) == [r |-> Red(Grey(raw)) % 256, g |-> Green(Grey(raw)) % 256,
             b |-> Blue(Grey(raw)) % 256]

-----------------------------------------------------------------------------
(* Rectangles *)

Inside(box, width, height) ==
    /\ 0 <= box.x /\ 0 < box.w /\ box.x + box.w <= width
    /\ 0 <= box.y /\ 0 < box.h /\ box.y + box.h <= height

\* postprocessDetection: the corner of a detection and its extent, which the
\* network may put anywhere; small ones are dropped.
Detected(x1, y1, dx, dy, width, height) ==
    LET bx == Larger(0, x1)
        by == Larger(0, y1)
    IN  [x |-> bx, y |-> by, w |-> Smaller(width - bx, dx),
         h |-> Smaller(height - by, dy)]
Accepted(box) == box.w > 10 /\ box.h > 10

\* detectAndTrack cuts out the box and a quarter of it all around.
Expanded(box, width, height) ==
    LET e == Larger(box.w, box.h) \div 4
        ox == Larger(0, box.x - e)
        oy == Larger(0, box.y - e)
    IN  [x |-> ox, y |-> oy, w |-> Smaller(width - ox, box.w + e * 2),
         h |-> Smaller(height - oy, box.h + e * 2)]

\* readOverlay: the depth image, a third of the size, in the upper right corner
PictureInPicture(width, height) ==
    [x |-> width - width \div 3 - 10, y |-> 10,
     w |-> width \div 3, h |-> height \div 3]
=============================================================================
