--------------------------- MODULE Bounds_proofs ---------------------------
(***************************************************************************)
(* Bounds that the code relies on and never checks: the range of every     *)
(* conversion, for all the input it can get, and the time a motor command  *)
(* takes, for any number of status polls in between.                       *)
(***************************************************************************)
EXTENDS Convert, CommandServer, TLAPS

(* Waiting.  The status costs no time, so that only a motor command makes  *)
(* a connection wait; and one commander has one connection at most.        *)

Slow(connection) == connection.cmd # "STATUS"

Queued(c) == \E i \in 1..Len(backlog) : backlog[i].client = c
Served(c) == serving # <<>> /\ Head(serving).client = c

\* A commander's connection is a motor command's, and his patience lasts.
BacklogInv ==
    /\ \A i \in 1..Len(backlog) :
           Slow(backlog[i]) <=> backlog[i].client \in Commanders
    /\ \A i \in 1..Len(backlog) : Slow(backlog[i]) =>
           /\ backlog[i].client \in waiting
           /\ patience[backlog[i].client] = CommandTimeout
    /\ \A i, j \in 1..Len(backlog) :
           Slow(backlog[i]) /\ Slow(backlog[j]) => i = j

ServingInv ==
    serving # <<>> =>
        /\ Slow(Head(serving)) <=> Head(serving).client \in Commanders
        /\ ~Slow(Head(serving)) => left = 0
        /\ Slow(Head(serving)) =>
               /\ Head(serving).client \in waiting
               /\ patience[Head(serving).client] >= left + 1
               /\ \A i \in 1..Len(backlog) : ~Slow(backlog[i])

WaitingInv ==
    /\ \A c \in waiting \cap Commanders : Queued(c) \/ Served(c)
    /\ gaveUp \cap Commanders = {}

PatienceInv ==
    /\ TypeOK
    /\ alive /\ ~delayed => BacklogInv /\ ServingInv /\ WaitingInv

-----------------------------------------------------------------------------
\* The clamps of rgb_to_yuyv never act: luma keeps to 16..235 and chroma to
\* 16..240, the range the format asks for (v4l2.c:19-27).
THEOREM YuyvInRange ==
    ASSUME NEW p \in Pixels, NEW q \in Pixels
    PROVE  /\ Luma(p) \in 16..235 /\ ChromaU(p) \in 16..240
           /\ ChromaV(p) \in 16..240
           /\ Yuyv(p, q) = <<Luma(p), ChromaU(p), Luma(q), ChromaV(p)>>
<1>1. \A c \in Pixels : c.r \in Byte /\ c.g \in Byte /\ c.b \in Byte
  BY DEF Pixels
<1>2. ASSUME NEW c \in Pixels PROVE Luma(c) \in 16..235
  <2>1. \A r, g, b \in Byte :
            (66 * r + 129 * g + 25 * b + 128) \div 256 + 16 \in 16..235
    BY DEF Byte
  <2> QED
    BY <1>1, <2>1 DEF Luma
<1>3. ChromaU(p) \in 16..240
  <2>1. \A r, g, b \in Byte :
            (-38 * r - 74 * g + 112 * b + 128) \div 256 + 128 \in 16..240
    BY DEF Byte
  <2> QED
    BY <1>1, <2>1 DEF ChromaU
<1>4. ChromaV(p) \in 16..240
  <2>1. \A r, g, b \in Byte :
            (112 * r - 94 * g - 18 * b + 128) \div 256 + 128 \in 16..240
    BY DEF Byte
  <2> QED
    BY <1>1, <2>1 DEF ChromaV
<1>5. \A x \in 16..240 : Clamp(x) = x
  BY DEF Clamp
<1>6. Luma(p) \in 16..240 /\ Luma(q) \in 16..240
  BY <1>2
<1> QED
  BY <1>2, <1>3, <1>4, <1>5, <1>6 DEF Yuyv

\* A grey pixel has no colour in YUYV either.
THEOREM GreyStaysGrey ==
    ASSUME NEW p \in Pixels, p.r = p.g, p.g = p.b
    PROVE  ChromaU(p) = 128 /\ ChromaV(p) = 128
<1>1. p.r \in 0..255
  BY DEF Pixels, Byte
<1> QED
  BY <1>1 DEF ChromaU, ChromaV

\* The loop of rgb_to_yuyv, over an image with an even number of pixels, reads
\* and writes inside its buffers, and no two iterations write the same byte
\* (v4l2.c:15-28).
THEOREM PairsStayInside ==
    ASSUME NEW size \in Nat, size % 2 = 0,
           NEW i \in 0..(size - 1), i % 2 = 0,
           NEW j \in 0..(size - 1), j % 2 = 0, i < j
    PROVE  /\ BytesRead(j) \subseteq 0..(3 * size - 1)
           /\ BytesWritten(j) \subseteq 0..(2 * size - 1)
           /\ BytesWritten(i) \cap BytesWritten(j) = {}
<1>1. j + 2 <= size /\ i + 2 <= j
  OBVIOUS
<1>2. BytesRead(j) \subseteq 0..(3 * size - 1)
  BY <1>1 DEF BytesRead
<1>3. BytesWritten(j) \subseteq 0..(2 * size - 1)
  BY <1>1 DEF BytesWritten
<1>4. BytesWritten(i) \cap BytesWritten(j) = {}
  BY <1>1 DEF BytesWritten
<1> QED
  BY <1>2, <1>3, <1>4

\* The mono sample of audio_thread_func fits 16 bits and lies between the
\* quietest and the loudest of the four microphones (kinect.c:268-275).
THEOREM MonoIsAnAverage ==
    ASSUME NEW lo \in Int, NEW hi \in Int,
           NEW s0 \in Int, Upper(s0) \in lo..hi,
           NEW s1 \in Int, Upper(s1) \in lo..hi,
           NEW s2 \in Int, Upper(s2) \in lo..hi,
           NEW s3 \in Int, Upper(s3) \in lo..hi
    PROVE  Mono(s0, s1, s2, s3) \in lo..hi
<1> DEFINE sum == Upper(s0) + Upper(s1) + Upper(s2) + Upper(s3)
<1>1. sum \in (4 * lo)..(4 * hi)
  BY SMT
<1> HIDE DEF sum
<1>2. CASE sum >= 0
  <2>1. sum \div 4 \in lo..hi
    BY SMT, <1>1, <1>2
  <2> QED
    BY SMT, <1>2, <2>1 DEF Mono, Quotient, sum
<1>3. CASE sum < 0
  <2>1. -((-sum) \div 4) \in lo..hi
    BY SMT, <1>1, <1>3
  <2> QED
    BY SMT, <1>1, <1>3, <2>1 DEF Mono, Quotient, sum
<1> QED
  BY SMT, <1>1, <1>2, <1>3

\* Every 32-bit sample has an upper half of 16 bits.
THEOREM UpperFits ==
    ASSUME NEW s \in Int, -2147483648 <= s, s < 2147483648
    PROVE  Upper(s) \in Int /\ -32768 <= Upper(s) /\ Upper(s) < 32768
BY SMT DEF Upper

\* The depth of the camera has 11 bits: scaling it to a byte does not wrap, and
\* what is farther is brighter (mainwindow.cpp:194, 709).
THEOREM GreyDoesNotWrap ==
    ASSUME NEW near \in 0..2047, NEW far \in 0..2047, near <= far
    PROVE  /\ Grey(far) = Scaled(far) /\ Grey(far) \in 0..254
           /\ Grey(near) <= Grey(far)
<1>1. Scaled(far) \in 0..254 /\ Scaled(near) \in 0..254
  BY DEF Scaled
<1>2. Scaled(near) <= Scaled(far)
  BY DEF Scaled
<1> QED
  BY <1>1, <1>2 DEF Grey

\* The three colours do not wrap either, except that blue does at zero: what
\* has no depth is black and not blue (mainwindow.cpp:195-197).
THEOREM OnlyZeroWraps ==
    ASSUME NEW raw \in 0..2047
    PROVE  /\ Grey(raw) > 0 => Jet(raw) = [r |-> Red(Grey(raw)),
                                           g |-> Green(Grey(raw)),
                                           b |-> Blue(Grey(raw))]
           /\ Grey(raw) = 0 => Jet(raw) = [r |-> 0, g |-> 0, b |-> 0]
<1>1. Grey(raw) \in 0..254
  BY DEF Grey, Scaled
<1>2. \A v \in 0..254 : Red(v) % 256 = Red(v) /\ Green(v) % 256 = Green(v)
  BY DEF Red, Green
<1>3. \A v \in 1..254 : Blue(v) % 256 = Blue(v)
  BY DEF Blue
<1>4. Red(0) % 256 = 0 /\ Green(0) % 256 = 0 /\ Blue(0) % 256 = 0
  BY DEF Red, Green, Blue
<1>5. CASE Grey(raw) > 0
  BY <1>1, <1>2, <1>3, <1>5 DEF Jet
<1>6. CASE Grey(raw) = 0
  BY <1>4, <1>6 DEF Jet
<1> QED
  BY <1>1, <1>5, <1>6

\* Wherever the network puts a person, a box that is accepted and the region
\* cut out around it lie inside the image, so that OpenCV's check of the region
\* cannot fail (tracker.cpp:170-177, 246-252).
THEOREM BoxesStayInside ==
    ASSUME NEW width \in Nat, NEW height \in Nat,
           NEW x1 \in Int, NEW y1 \in Int, NEW dx \in Int, NEW dy \in Int,
           Accepted(Detected(x1, y1, dx, dy, width, height))
    PROVE  /\ Inside(Detected(x1, y1, dx, dy, width, height), width, height)
           /\ Inside(Expanded(Detected(x1, y1, dx, dy, width, height),
                              width, height), width, height)
<1> DEFINE d == Detected(x1, y1, dx, dy, width, height)
<1>1. /\ d.x \in Int /\ d.y \in Int /\ d.w \in Int /\ d.h \in Int
      /\ 0 <= d.x /\ 10 < d.w /\ d.x + d.w <= width
      /\ 0 <= d.y /\ 10 < d.h /\ d.y + d.h <= height
  BY DEF Detected, Accepted, Larger, Smaller
<1> HIDE DEF d
<1>2. Inside(d, width, height)
  BY <1>1 DEF Inside
<1> DEFINE e == Larger(d.w, d.h) \div 4
<1>3. e \in Nat
  BY <1>1 DEF Larger
<1> HIDE DEF e
<1>4. Inside(Expanded(d, width, height), width, height)
  BY <1>1, <1>3 DEF Expanded, Inside, Larger, Smaller, e
<1> QED
  BY <1>2, <1>4 DEF d

\* The depth picture fits into every image of at least 15 by 15 pixels
\* (mainwindow.cpp:728-731).
THEOREM PictureFits ==
    ASSUME NEW width \in Nat, width >= 15, NEW height \in Nat, height >= 15
    PROVE  Inside(PictureInPicture(width, height), width, height)
BY DEF Inside, PictureInPicture
-----------------------------------------------------------------------------
\* Every duration is a number, and what is not late leaves the client patient.
LEMMA LongestCommand ==
    ASSUME NEW cmd \in Commands, NEW work \in Work(cmd)
    PROVE  /\ work.time \in Nat /\ work.late \in BOOLEAN
           /\ ~work.late => work.time + 1 <= CommandTimeout
           /\ cmd = "STATUS" => work.time = 0
<1> USE DEF PauseTimes, ResumeTime, SpareUp, SpareDown, CommandTimeout
<1>1. \A t \in SetTilt : /\ t.time \in Nat /\ t.lost \in Nat
                         /\ t.time <= 7 + t.lost
  BY DEF SetTilt, Call
<1>2. \A a \in GetAccel : a.time \in Nat /\ a.time <= 11
  BY DEF GetAccel, Call
<1>3. CASE cmd = "STATUS"
  <2>1. work = [time |-> 0, late |-> FALSE]
    BY <1>3 DEF Work
  <2>2. work.time = 0
    BY <2>1
  <2>3. work.late \in BOOLEAN
    BY <2>1, Zenon
  <2> QED
    BY <2>2, <2>3
<1>4. CASE cmd = "ACCEL"
  <2>1. work \in Sense
    BY <1>4 DEF Work
  <2>2. PICK p \in PauseTimes, a \in GetAccel :
            work.time = p + a.time + 1 + ResumeTime /\ work.late = FALSE
    BY <2>1 DEF Sense
  <2>3. work.time = p + a.time + 1 + ResumeTime
    BY <2>2, Zenon
  <2>4. work.late \in BOOLEAN
    BY <2>2, Zenon
  <2>5. work.time \in Nat /\ work.time + 1 <= CommandTimeout
    BY <1>2, <2>3
  <2> QED
    BY <1>4, <2>4, <2>5
<1>5. CASE cmd = "TILT" /\ work \in Ascend
  <2>1. PICK p \in PauseTimes, t \in SetTilt :
            /\ work.time = p + t.time + 4 + ResumeTime
            /\ work.late = (t.lost > SpareUp)
    BY <1>5 DEF Ascend
  <2>2. work.time = p + t.time + 4 + ResumeTime
    BY <2>1, Zenon
  <2>3. work.late = (t.lost > SpareUp)
    BY <2>1, Zenon
  <2>4. work.time \in Nat
    BY <1>1, <2>2
  <2>5. ~(t.lost > SpareUp) => work.time + 1 <= CommandTimeout
    BY <1>1, <2>2
  <2>6. work.late \in BOOLEAN
    <3>1. CASE t.lost > SpareUp
      BY <2>3, <3>1, Zenon
    <3>2. CASE ~(t.lost > SpareUp)
      BY <2>3, <3>2, SMT
    <3> QED
      BY <3>1, <3>2, Zenon
  <2> QED
    BY <1>5, <2>3, <2>4, <2>5, <2>6, Zenon
<1>6. CASE cmd = "TILT" /\ work \in Descend
  <2>1. PICK p \in PauseTimes, r \in SetTilt, t \in SetTilt :
            /\ work.time = p + r.time + 6 + t.time + 4 + ResumeTime
            /\ work.late = (r.lost + t.lost > SpareDown)
    BY <1>6 DEF Descend
  <2>2. work.time = p + r.time + 6 + t.time + 4 + ResumeTime
    BY <2>1, Zenon
  <2>3. work.late = (r.lost + t.lost > SpareDown)
    BY <2>1, Zenon
  <2>4. work.time \in Nat
    BY <1>1, <2>2
  <2>5. ~(r.lost + t.lost > SpareDown) => work.time + 1 <= CommandTimeout
    BY <1>1, <2>2
  <2>6. work.late \in BOOLEAN
    <3>1. CASE r.lost + t.lost > SpareDown
      BY <2>3, <3>1, Zenon
    <3>2. CASE ~(r.lost + t.lost > SpareDown)
      BY <2>3, <3>2, SMT
    <3> QED
      BY <3>1, <3>2, Zenon
  <2> QED
    BY <1>6, <2>3, <2>4, <2>5, <2>6, Zenon
<1> QED
  BY <1>3, <1>4, <1>5, <1>6 DEF Commands, Work

LEMMA HeadServed ==
    ASSUME TypeOK, serving # <<>>
    PROVE  /\ Len(serving) = 1 /\ Head(serving) = serving[1]
           /\ Head(serving) \in Connection
<1>1. serving \in Seq(Connection) /\ Len(serving) <= 1
  BY DEF TypeOK
<1>2. Len(serving) \in Nat /\ Len(serving) # 0
  BY <1>1
<1>3. Len(serving) = 1
  <2>1. \A n \in Nat : n # 0 /\ n <= 1 => n = 1
    OBVIOUS
  <2> QED
    BY <1>1, <1>2, <2>1
<1>4. Head(serving) = serving[1] /\ serving[1] \in Connection
  BY <1>1, <1>3
<1> QED
  BY <1>3, <1>4

LEMMA ConnectKeeps ==
    ASSUME PatienceInv, NEW c \in Clients, NEW cmd \in Commands,
           NEW timeout \in 0..CommandTimeout, Connect(c, cmd, timeout),
           cmd # "STATUS" <=> c \in Commanders,
           cmd # "STATUS" => timeout = CommandTimeout,
           \A a, b \in Commanders : a = b
    PROVE  PatienceInv'
<1> DEFINE new == [client |-> c, cmd |-> cmd, open |-> TRUE]
<1>1. new \in Connection
  BY DEF Connection
<1>2. /\ alive /\ c \notin waiting /\ alive' = alive
      /\ backlog' = Append(backlog, new) /\ serving' = serving
      /\ waiting' = waiting \cup {c} /\ left' = left /\ gaveUp' = gaveUp
      /\ patience' = [patience EXCEPT ![c] = timeout]
      /\ delayed' = delayed
  BY DEF Connect
<1>3. TypeOK'
  BY <1>1, <1>2 DEF PatienceInv, TypeOK
<1> SUFFICES ASSUME ~delayed
             PROVE  BacklogInv' /\ ServingInv' /\ WaitingInv'
  BY <1>2, <1>3 DEF PatienceInv
<1> HIDE DEF new
<1>4. /\ backlog \in Seq(Connection)
      /\ Len(backlog') = Len(backlog) + 1
      /\ backlog'[Len(backlog) + 1] = new
      /\ \A i \in 1..Len(backlog) : backlog'[i] = backlog[i]
  BY <1>1, <1>2 DEF PatienceInv, TypeOK
<1>5. new.client = c /\ (Slow(new) <=> c \in Commanders)
  BY DEF new, Slow
<1>6. \A d \in Clients : d # c => patience'[d] = patience[d]
  BY <1>2 DEF PatienceInv, TypeOK
<1>7. patience'[c] = timeout
  BY <1>2 DEF PatienceInv, TypeOK
<1>8. \A i \in 1..Len(backlog) : backlog[i].client \in Clients
  <2>1. \A i \in 1..Len(backlog) : backlog[i] \in Connection
    BY <1>4
  <2> QED
    BY <2>1 DEF Connection
<1>9. c \in Commanders => \A i \in 1..Len(backlog) : ~Slow(backlog[i])
  BY <1>2, <1>8 DEF PatienceInv, BacklogInv
<1>10. BacklogInv'
  <2>1. \A i \in 1..Len(backlog') :
            i = Len(backlog) + 1 \/ i \in 1..Len(backlog)
    BY <1>4
  <2>2. \A i \in 1..Len(backlog') :
            Slow(backlog'[i]) <=> backlog'[i].client \in Commanders
    BY <1>2, <1>4, <1>5, <2>1 DEF PatienceInv, BacklogInv
  <2>3. ASSUME NEW i \in 1..Len(backlog'), Slow(backlog'[i])
        PROVE  /\ backlog'[i].client \in waiting'
               /\ patience'[backlog'[i].client] = CommandTimeout
    <3>1. CASE i = Len(backlog) + 1
      BY <1>2, <1>4, <1>5, <1>7, <2>3, <3>1
    <3>2. CASE i \in 1..Len(backlog)
      <4>1. backlog[i].client # c
        BY <1>2, <1>4, <2>3, <3>2 DEF PatienceInv, BacklogInv
      <4> QED
        BY <1>2, <1>4, <1>6, <1>8, <2>3, <3>2, <4>1
        DEF PatienceInv, BacklogInv
    <3> QED
      BY <2>1, <3>1, <3>2
  <2>4. ASSUME NEW i \in 1..Len(backlog'), NEW j \in 1..Len(backlog'),
               Slow(backlog'[i]), Slow(backlog'[j])
        PROVE  i = j
    <3>1. CASE i \in 1..Len(backlog) /\ j \in 1..Len(backlog)
      BY <1>2, <1>4, <2>4, <3>1 DEF PatienceInv, BacklogInv
    <3>2. CASE i = Len(backlog) + 1 /\ j = Len(backlog) + 1
      BY <3>2
    <3>3. CASE i = Len(backlog) + 1 /\ j \in 1..Len(backlog)
      BY <1>4, <1>5, <1>9, <2>4, <3>3
    <3>4. CASE j = Len(backlog) + 1 /\ i \in 1..Len(backlog)
      BY <1>4, <1>5, <1>9, <2>4, <3>4
    <3> QED
      BY <2>1, <3>1, <3>2, <3>3, <3>4
  <2> QED
    BY <2>2, <2>3, <2>4 DEF BacklogInv, Slow
<1>11. ServingInv'
  <2> SUFFICES ASSUME serving # <<>> PROVE ServingInv'
    BY <1>2 DEF ServingInv
  <2>1. Head(serving).client \in Clients
    BY HeadServed DEF PatienceInv, Connection
  <2>2. ServingInv
    BY <1>2 DEF PatienceInv
  <2>3. CASE ~Slow(Head(serving))
    BY <1>2, <2>2, <2>3 DEF ServingInv, Slow
  <2>4. CASE Slow(Head(serving))
    <3>1. /\ Head(serving).client \in waiting
          /\ Head(serving).client \in Commanders
          /\ patience[Head(serving).client] >= left + 1
          /\ \A i \in 1..Len(backlog) : ~Slow(backlog[i])
      BY <2>2, <2>4 DEF ServingInv
    <3>2. Head(serving).client # c /\ c \notin Commanders
      BY <1>2, <3>1
    <3>3. \A i \in 1..Len(backlog') : ~Slow(backlog'[i])
      BY <1>4, <1>5, <3>1, <3>2
    <3>4. patience'[Head(serving).client] >= left + 1
      BY <1>6, <2>1, <3>1, <3>2
    <3> QED
      BY <1>2, <2>4, <3>1, <3>3, <3>4 DEF ServingInv, Slow
  <2> QED
    BY <2>3, <2>4
<1>12. WaitingInv'
  <2>1. ASSUME NEW d \in waiting' \cap Commanders
        PROVE  Queued(d)' \/ Served(d)'
    <3>1. CASE d = c
      BY <1>4, <1>5, <3>1 DEF Queued
    <3>2. CASE d \in waiting
      BY <1>2, <1>4, <3>2 DEF Queued, Served, PatienceInv, WaitingInv
    <3> QED
      BY <1>2, <3>1, <3>2
  <2> QED
    BY <1>2, <2>1 DEF WaitingInv, PatienceInv
<1> QED
  BY <1>10, <1>11, <1>12

LEMMA GiveUpKeeps ==
    ASSUME PatienceInv, NEW c \in Clients, GiveUp(c)
    PROVE  PatienceInv'
<1>1. /\ c \in waiting /\ patience[c] = 0
      /\ waiting' = waiting \ {c} /\ gaveUp' = gaveUp \cup {c}
      /\ backlog' = [i \in DOMAIN backlog |-> Closed(c)[backlog[i]]]
      /\ serving' = [i \in DOMAIN serving |-> Closed(c)[serving[i]]]
      /\ alive' = alive /\ left' = left /\ patience' = patience
      /\ delayed' = delayed
  BY DEF GiveUp
<1>2. \A x \in Connection : /\ Closed(c)[x] \in Connection
                            /\ Closed(c)[x].client = x.client
                            /\ Closed(c)[x].cmd = x.cmd
  BY DEF Closed, Connection
<1>3. /\ backlog \in Seq(Connection) /\ serving \in Seq(Connection)
      /\ Len(serving) <= 1
  BY DEF PatienceInv, TypeOK
<1>4. /\ backlog' \in Seq(Connection) /\ Len(backlog') = Len(backlog)
      /\ \A i \in 1..Len(backlog) : /\ backlog'[i].client = backlog[i].client
                                    /\ backlog'[i].cmd = backlog[i].cmd
  <2>1. /\ DOMAIN backlog = 1..Len(backlog)
        /\ \A i \in 1..Len(backlog) : backlog[i] \in Connection
    BY <1>3
  <2>2. backlog' \in Seq(Connection) /\ Len(backlog') = Len(backlog)
    BY <1>1, <1>2, <1>3
  <2>3. \A i \in 1..Len(backlog) : backlog'[i] = Closed(c)[backlog[i]]
    BY <1>1, <2>1
  <2> QED
    BY <1>2, <2>1, <2>2, <2>3
<1>5. /\ serving' \in Seq(Connection) /\ Len(serving') = Len(serving)
      /\ serving # <<>> => /\ serving' # <<>>
                           /\ Head(serving').client = Head(serving).client
                           /\ Head(serving').cmd = Head(serving).cmd
      /\ serving = <<>> => serving' = <<>>
  <2>1. serving' \in Seq(Connection) /\ Len(serving') = Len(serving)
    BY <1>1, <1>2, <1>3
  <2>2. serving # <<>> => /\ serving'[1].client = serving[1].client
                          /\ serving'[1].cmd = serving[1].cmd
    BY <1>1, <1>2, <1>3
  <2> QED
    BY <1>3, <2>1, <2>2
<1>6. TypeOK'
  BY <1>1, <1>4, <1>5 DEF PatienceInv, TypeOK
<1>7. ASSUME alive, ~delayed PROVE c \notin Commanders
  <2>1. SUFFICES ASSUME c \in Commanders PROVE FALSE
    OBVIOUS
  <2>2. BacklogInv /\ ServingInv /\ WaitingInv
    BY <1>7 DEF PatienceInv
  <2>3. CASE Queued(c)
    BY <1>1, <2>1, <2>2, <2>3 DEF Queued, BacklogInv, CommandTimeout
  <2>4. CASE Served(c)
    BY <1>1, <2>1, <2>2, <2>4 DEF Served, ServingInv, PatienceInv, TypeOK
  <2> QED
    BY <1>1, <2>1, <2>2, <2>3, <2>4 DEF WaitingInv
<1>8. ASSUME alive, ~delayed PROVE BacklogInv' /\ ServingInv' /\ WaitingInv'
  <2>1. BacklogInv /\ ServingInv /\ WaitingInv
    BY <1>8 DEF PatienceInv
  <2>2. BacklogInv'
    <3>1. \A i \in 1..Len(backlog) : Slow(backlog[i]) => backlog[i].client # c
      BY <1>7, <1>8, <2>1 DEF BacklogInv
    <3>2. \A i \in 1..Len(backlog) :
              /\ backlog'[i].client = backlog[i].client
              /\ Slow(backlog[i])' <=> Slow(backlog[i])
      BY <1>4 DEF Slow
    <3>3. Len(backlog') = Len(backlog) /\ patience' = patience
      BY <1>1, <1>4
    <3>4. ASSUME NEW i \in 1..Len(backlog')
          PROVE  /\ Slow(backlog[i])' <=> backlog'[i].client \in Commanders
                 /\ Slow(backlog[i])' =>
                        /\ backlog'[i].client \in waiting'
                        /\ patience'[backlog'[i].client] = CommandTimeout
      <4>1. i \in 1..Len(backlog) /\ backlog'[i].client = backlog[i].client
        BY <3>2, <3>3
      <4>2. Slow(backlog[i]) <=> backlog[i].client \in Commanders
        BY <2>1, <4>1 DEF BacklogInv
      <4>3. Slow(backlog[i]) => /\ backlog[i].client \in waiting'
                                /\ patience[backlog[i].client] = CommandTimeout
        BY <1>1, <2>1, <3>1, <4>1 DEF BacklogInv
      <4> QED
        BY <3>2, <3>3, <4>1, <4>2, <4>3
    <3>5. \A i, j \in 1..Len(backlog') :
              Slow(backlog[i])' /\ Slow(backlog[j])' => i = j
      BY <2>1, <3>2, <3>3 DEF BacklogInv
    <3> QED
      BY <3>4, <3>5 DEF BacklogInv
  <2>3. ServingInv'
    BY <1>1, <1>4, <1>5, <1>7, <1>8, <2>1 DEF ServingInv, Slow
  <2>4. WaitingInv'
    <3>1. ASSUME NEW d \in waiting' \cap Commanders
          PROVE  Queued(d)' \/ Served(d)'
      <4>1. Queued(d) \/ Served(d)
        BY <1>1, <2>1 DEF WaitingInv
      <4>2. Queued(d) => Queued(d)'
        BY <1>4 DEF Queued
      <4>3. Served(d) => Served(d)'
        BY <1>5 DEF Served
      <4> QED
        BY <4>1, <4>2, <4>3
    <3>2. gaveUp' \cap Commanders = {}
      BY <1>1, <1>7, <1>8, <2>1 DEF WaitingInv
    <3> QED
      BY <3>1, <3>2 DEF WaitingInv
  <2> QED
    BY <2>2, <2>3, <2>4
<1> QED
  BY <1>1, <1>6, <1>8 DEF PatienceInv

LEMMA ServerKeeps ==
    ASSUME PatienceInv, Server
    PROVE  PatienceInv'
<1>1. /\ backlog \in Seq(Connection) /\ serving \in Seq(Connection)
      /\ Len(serving) <= 1
  BY DEF PatienceInv, TypeOK
<1>2. CASE Accept
  <2> DEFINE next == Head(backlog)
  <2>1. /\ alive /\ serving = <<>> /\ backlog # <<>>
        /\ serving' = <<next>> /\ backlog' = Tail(backlog)
        /\ \E work \in Work(next.cmd) :
               left' = work.time /\ delayed' = (delayed \/ work.late)
        /\ alive' = alive /\ patience' = patience
        /\ waiting' = waiting /\ gaveUp' = gaveUp
    BY <1>2 DEF Accept
  <2>2. /\ next = backlog[1] /\ next \in Connection
        /\ 1 \in 1..Len(backlog)
        /\ backlog' \in Seq(Connection) /\ Len(backlog') = Len(backlog) - 1
        /\ \A i \in 1..Len(backlog') : /\ i + 1 \in 1..Len(backlog)
                                       /\ backlog'[i] = backlog[i + 1]
    BY <1>1, <2>1
  <2> HIDE DEF next
  <2>3. /\ serving' # <<>> /\ Head(serving') = next
        /\ serving' \in Seq(Connection) /\ Len(serving') = 1
    BY <2>1, <2>2
  <2>4. /\ left' \in Nat /\ delayed' \in BOOLEAN
        /\ ~delayed' => ~delayed /\ left' + 1 <= CommandTimeout
        /\ ~Slow(next) => left' = 0
    <3>1. next.cmd \in Commands
      BY <2>2 DEF Connection
    <3>2. PICK work \in Work(next.cmd) :
              left' = work.time /\ delayed' = (delayed \/ work.late)
      BY <2>1
    <3>3. /\ work.time \in Nat
          /\ ~work.late => work.time + 1 <= CommandTimeout
          /\ next.cmd = "STATUS" => work.time = 0
      BY <3>1, LongestCommand
    <3>4. delayed' \in BOOLEAN
      BY <3>2
    <3>5. ~delayed' => ~delayed /\ ~work.late
      BY <3>2
    <3> QED
      BY <3>2, <3>3, <3>4, <3>5 DEF Slow
  <2>5. TypeOK'
    BY <2>1, <2>2, <2>3, <2>4 DEF PatienceInv, TypeOK
  <2> SUFFICES ASSUME ~delayed'
               PROVE  BacklogInv' /\ ServingInv' /\ WaitingInv'
    BY <2>5 DEF PatienceInv
  <2>6. BacklogInv /\ WaitingInv
    BY <2>1, <2>4 DEF PatienceInv
  <2>7. BacklogInv'
    <3>1. \A i \in 1..Len(backlog') :
              /\ Slow(backlog'[i]) <=> backlog'[i].client \in Commanders
              /\ Slow(backlog'[i]) =>
                     /\ backlog'[i].client \in waiting'
                     /\ patience'[backlog'[i].client] = CommandTimeout
      BY <2>1, <2>2, <2>6 DEF BacklogInv
    <3>2. ASSUME NEW i \in 1..Len(backlog'), NEW j \in 1..Len(backlog'),
                 Slow(backlog'[i]), Slow(backlog'[j])
          PROVE  i = j
      <4>1. i + 1 = j + 1
        BY <2>2, <2>6, <3>2 DEF BacklogInv
      <4> QED
        BY <4>1
    <3> QED
      BY <3>1, <3>2 DEF BacklogInv, Slow
  <2>8. ServingInv'
    <3>1. Slow(next) <=> next.client \in Commanders
      BY <2>2, <2>6 DEF BacklogInv
    <3>2. ASSUME Slow(next)
          PROVE  /\ next.client \in waiting
                 /\ patience[next.client] >= left' + 1
                 /\ \A i \in 1..Len(backlog') : ~Slow(backlog'[i])
      <4>1. /\ next.client \in waiting
            /\ patience[next.client] = CommandTimeout
        BY <2>2, <2>6, <3>2 DEF BacklogInv
      <4>2. ASSUME NEW i \in 1..Len(backlog'), Slow(backlog'[i]) PROVE FALSE
        <5>1. i + 1 = 1
          BY <2>2, <2>6, <3>2, <4>2 DEF BacklogInv
        <5> QED
          BY <5>1
      <4>3. patience[next.client] >= left' + 1
        BY <2>4, <4>1 DEF CommandTimeout
      <4> QED
        BY <4>1, <4>2, <4>3
    <3> QED
      BY <2>1, <2>3, <2>4, <3>1, <3>2 DEF ServingInv, Slow
  <2>9. WaitingInv'
    <3>1. ASSUME NEW c \in waiting' \cap Commanders
          PROVE  Queued(c)' \/ Served(c)'
      <4>1. PICK i \in 1..Len(backlog) : backlog[i].client = c
        BY <2>1, <2>6 DEF WaitingInv, Queued, Served
      <4>2. CASE i = 1
        BY <2>2, <2>3, <4>1, <4>2 DEF Served
      <4>3. CASE i # 1
        <5>1. i - 1 \in 1..Len(backlog') /\ backlog'[i - 1] = backlog[i]
          <6>1. i - 1 \in 1..Len(backlog') /\ (i - 1) + 1 = i
            BY <1>1, <2>2, <4>3
          <6> QED
            BY <2>2, <6>1
        <5> QED
          BY <4>1, <5>1 DEF Queued
      <4> QED
        BY <4>2, <4>3
    <3> QED
      BY <2>1, <2>6, <3>1 DEF WaitingInv
  <2> QED
    BY <2>7, <2>8, <2>9
<1>3. CASE Answer
  <2>1. /\ serving # <<>> /\ serving' = <<>>
        /\ waiting' = waiting \ {Head(serving).client}
        /\ backlog' = backlog /\ alive' = alive /\ left' = left
        /\ patience' = patience /\ gaveUp' = gaveUp /\ delayed' = delayed
    BY <1>3 DEF Answer
  <2>2. TypeOK'
    BY <2>1 DEF PatienceInv, TypeOK
  <2>3. ASSUME alive, ~delayed PROVE BacklogInv' /\ ServingInv' /\ WaitingInv'
    <3>1. BacklogInv /\ ServingInv /\ WaitingInv
      BY <2>3 DEF PatienceInv
    <3>2. ServingInv'
      BY <2>1 DEF ServingInv
    <3>3. BacklogInv'
      <4>1. ASSUME NEW i \in 1..Len(backlog), Slow(backlog[i])
            PROVE  backlog[i].client # Head(serving).client
        <5>1. ~Slow(Head(serving))
          BY <2>1, <3>1, <4>1 DEF ServingInv
        <5> QED
          BY <2>1, <3>1, <4>1, <5>1 DEF ServingInv, BacklogInv
      <4> QED
        BY <2>1, <3>1, <4>1 DEF BacklogInv, Slow
    <3>4. WaitingInv'
      BY <2>1, <3>1 DEF WaitingInv, Queued, Served
    <3> QED
      BY <3>2, <3>3, <3>4
  <2> QED
    BY <2>1, <2>2, <2>3 DEF PatienceInv
<1>4. CASE Killed
  <2>1. /\ alive' = FALSE /\ serving' = <<>> /\ backlog' = <<>>
        /\ waiting' = {} /\ left' = left /\ patience' = patience
        /\ gaveUp' = gaveUp /\ delayed' = delayed
    BY <1>4 DEF Killed
  <2>2. TypeOK'
    <3>1. backlog' \in Seq(Connection) /\ serving' \in Seq(Connection)
      BY <2>1
    <3>2. Len(serving') <= 1 /\ waiting' \in SUBSET Clients
      BY <2>1
    <3> QED
      BY <2>1, <3>1, <3>2 DEF PatienceInv, TypeOK
  <2> QED
    BY <2>1, <2>2 DEF PatienceInv
<1> QED
  BY <1>2, <1>3, <1>4 DEF Server

LEMMA TickKeeps ==
    ASSUME PatienceInv, Tick
    PROVE  PatienceInv'
<1>1. /\ serving # <<>> => left > 0
      /\ serving = <<>> => backlog = <<>>
      /\ \A c \in waiting : patience[c] > 0
      /\ left' = IF left > 0 THEN left - 1 ELSE 0
      /\ patience' = [c \in Clients |->
                          IF c \in waiting THEN patience[c] - 1 ELSE 0]
      /\ alive' = alive /\ backlog' = backlog /\ serving' = serving
      /\ waiting' = waiting /\ gaveUp' = gaveUp /\ delayed' = delayed
  BY DEF Tick
<1>2. /\ left \in Nat /\ patience \in [Clients -> 0..CommandTimeout]
      /\ waiting \subseteq Clients
  BY DEF PatienceInv, TypeOK
<1>3. TypeOK'
  <2>1. left' \in Nat
    BY <1>1, <1>2
  <2>2. patience' \in [Clients -> 0..CommandTimeout]
    <3>1. \A c \in waiting : patience[c] - 1 \in 0..CommandTimeout
      BY <1>1, <1>2 DEF CommandTimeout
    <3>2. 0 \in 0..CommandTimeout
      BY DEF CommandTimeout
    <3> QED
      BY <1>1, <3>1, <3>2
  <2> QED
    BY <1>1, <2>1, <2>2 DEF PatienceInv, TypeOK
<1>4. ASSUME alive, ~delayed PROVE BacklogInv' /\ ServingInv' /\ WaitingInv'
  <2>1. BacklogInv /\ ServingInv /\ WaitingInv
    BY <1>4 DEF PatienceInv
  <2>2. \A i \in 1..Len(backlog) : ~Slow(backlog[i])
    <3>1. CASE serving = <<>>
      BY <1>1, <3>1
    <3>2. CASE serving # <<>>
      BY <1>1, <2>1, <3>2 DEF ServingInv
    <3> QED
      BY <3>1, <3>2
  <2>3. BacklogInv'
    BY <1>1, <2>1, <2>2 DEF BacklogInv, Slow
  <2>4. ServingInv'
    <3>1. SUFFICES ASSUME serving # <<>> PROVE ServingInv'
      BY <1>1 DEF ServingInv
    <3>2. /\ left > 0 /\ left' = left - 1
          /\ Slow(Head(serving)) /\ Head(serving).client \in Commanders
          /\ Head(serving).client \in waiting
          /\ patience[Head(serving).client] >= left + 1
      BY <1>1, <1>2, <2>1, <3>1 DEF ServingInv
    <3>3. patience'[Head(serving).client] = patience[Head(serving).client] - 1
      BY <1>1, <1>2, <3>2
    <3>4. patience[Head(serving).client] \in Nat
      BY <1>2, <3>2 DEF CommandTimeout
    <3>5. patience'[Head(serving).client] >= left' + 1
      BY <1>2, <3>2, <3>3, <3>4
    <3> QED
      BY <1>1, <2>2, <3>2, <3>5 DEF ServingInv, Slow
  <2>5. WaitingInv'
    BY <1>1, <2>1 DEF WaitingInv, Queued, Served
  <2> QED
    BY <2>3, <2>4, <2>5
<1> QED
  BY <1>1, <1>3, <1>4 DEF PatienceInv

\* As long as one client at a time sends motor commands, however many others
\* ask for the status and give up, the inductive invariant of the queue holds:
\* a motor command waits for no other, and more patience is left than time,
\* until a tilt loses more to retries and time-outs than it can spare.
THEOREM PatienceInvariant ==
    ASSUME \A a, b \in Commanders : a = b
    PROVE  Spec => []PatienceInv
<1>1. Init => PatienceInv
  <2> SUFFICES ASSUME Init PROVE PatienceInv
    OBVIOUS
  <2>1. delayed \in BOOLEAN /\ alive \in BOOLEAN
    BY Zenon DEF Init
  <2>2. TypeOK
    BY <2>1 DEF Init, TypeOK, CommandTimeout
  <2> QED
    BY <2>2 DEF Init, PatienceInv, BacklogInv, ServingInv, WaitingInv
<1>2. PatienceInv /\ [Next]_vars => PatienceInv'
  <2> SUFFICES ASSUME PatienceInv, [Next]_vars PROVE PatienceInv'
    OBVIOUS
  <2>1. ASSUME NEW c \in Clients, Poll(c) PROVE PatienceInv'
    <3>1. c \notin Commanders /\ Connect(c, "STATUS", PollTimeout)
      BY <2>1, ClientsAssumption DEF Poll
    <3>2. "STATUS" \in Commands /\ PollTimeout \in 0..CommandTimeout
      BY DEF Commands, PollTimeout, CommandTimeout
    <3> QED
      BY <3>1, <3>2, ConnectKeeps
  <2>2. ASSUME NEW c \in Clients, Command(c) PROVE PatienceInv'
    <3>1. PICK cmd \in {"TILT", "ACCEL"} : Connect(c, cmd, CommandTimeout)
      BY <2>2 DEF Command
    <3>2. c \in Commanders /\ cmd \in Commands /\ cmd # "STATUS"
      BY <2>2 DEF Command, Commands
    <3>3. CommandTimeout \in 0..CommandTimeout
      BY DEF CommandTimeout
    <3> QED
      BY <3>1, <3>2, <3>3, ConnectKeeps
  <2>3. CASE UNCHANGED vars
    BY <2>3
    DEF vars, PatienceInv, TypeOK, BacklogInv, ServingInv, WaitingInv,
        Queued, Served, Slow
  <2> QED
    BY <2>1, <2>2, <2>3, GiveUpKeeps, ServerKeeps, TickKeeps DEF Next
<1> QED
  BY <1>1, <1>2, PTL DEF Spec

\* A motor command that queues behind no other one is answered within the 20
\* seconds the panel waits, for any number of clients that ask for the status,
\* unless a tilt has lost more to claim retries and USB time-outs than it can
\* spare, 7 s upwards and half a second downwards (motor.c:58-91 and 146-214,
\* kinect.c:298-330, socket.c:51-107, mainwindow.cpp:823).
THEOREM CommandsInTime ==
    ASSUME \A a, b \in Commanders : a = b
    PROVE  Spec => []TimelyUnlessDelayed
<1>1. PatienceInv => TimelyUnlessDelayed
  BY DEF PatienceInv, WaitingInv, TimelyUnlessDelayed
<1> QED
  BY PatienceInvariant, <1>1, PTL
=============================================================================
