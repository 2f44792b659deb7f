------------------------- MODULE ShmRestart_proofs -------------------------
(***************************************************************************)
(* A stream raises frames and never the zeroes of a segment in the making, *)
(* for any size of the ring and any number of segments.  What carries the  *)
(* proof: the slot behind write_idx holds a frame in every segment whose   *)
(* number is not 0, and in the one that the stream has found fresh.        *)
(***************************************************************************)
EXTENDS ShmRestart, TLAPS

Segment == [magic : BOOLEAN, w : BOOLEAN, writeIdx : Slots,
            seq : 0..(2 * SeqHalf - 1), filled : SUBSET Slots]
Behind(i) == (i + RingSize - 1) % RingSize
LastFilled(o) == Behind(object[o].writeIdx) \in object[o].filled

Refers ==
    /\ writerPC # "down" <=> mapped \in Objects
    /\ readerPC \notin {"none", "open"} <=> view \in Objects

WriterInv ==
    /\ writerPC = "advance" =>
           object[mapped].writeIdx \in object[mapped].filled
    /\ writerPC = "publish" => LastFilled(mapped)

SegmentInv == \A o \in Objects : object[o].seq # 0 => LastFilled(o)

ReaderInv ==
    ~disturbed =>
        /\ readerPC = "index" => LastFilled(view)
        /\ readerPC \in {"dims", "copy"} => idx \in object[view].filled
        /\ readerPC = "raise" => got

StreamInv == TypeOK /\ Refers /\ WriterInv /\ SegmentInv /\ ReaderInv

-----------------------------------------------------------------------------
LEMMA InRing == ASSUME NEW n \in Nat PROVE n % RingSize \in Slots
BY RestartAssumption DEF Slots

LEMMA Wraps == ASSUME NEW i \in Slots PROVE (i + RingSize) % RingSize = i
BY RestartAssumption DEF Slots

LEMMA StaysBelow == ASSUME NEW i \in Slots PROVE i % RingSize = i
BY RestartAssumption DEF Slots

\* The slot behind the one that follows i is i.
LEMMA BehindNext ==
    ASSUME NEW i \in Slots
    PROVE  Behind((i + 1) % RingSize) = i /\ Behind(i) \in Slots
<1>1. Behind(i) \in Slots
  BY RestartAssumption, InRing DEF Behind, Slots
<1>2. CASE i + 1 < RingSize
  BY <1>1, <1>2, RestartAssumption, StaysBelow, Wraps DEF Behind, Slots
<1>3. CASE i + 1 = RingSize
  <2>1. (i + 1) % RingSize = 0
    BY <1>3, RestartAssumption DEF Slots
  <2> QED
    BY <1>1, <1>3, <2>1, RestartAssumption, StaysBelow DEF Behind, Slots
<1> QED
  BY <1>1, <1>2, <1>3, RestartAssumption DEF Slots

LEMMA ZeroedIsASegment == Zeroed \in Segment /\ Zeroed.seq = 0
BY RestartAssumption DEF Zeroed, Segment, Slots

-----------------------------------------------------------------------------
LEMMA InitStream == Init => StreamInv
<1> SUFFICES ASSUME Init PROVE StreamInv
  OBVIOUS
<1>1. TypeOK
  <2>1. object \in [Objects -> Segment]
    BY ZeroedIsASegment DEF Init
  <2>2. 0 \in Slots /\ -1 \in -SeqHalf..(SeqHalf - 1)
    BY RestartAssumption DEF Slots
  <2> QED
    BY <2>1, <2>2 DEF Init, TypeOK, Segment
<1>2. Refers /\ WriterInv /\ SegmentInv /\ ReaderInv
  BY RestartAssumption, ZeroedIsASegment
  DEF Init, Refers, WriterInv, SegmentInv, ReaderInv
<1> QED
  BY <1>1, <1>2 DEF StreamInv

\* Collecting keeps what is referred to and zeroes the rest.
LEMMA Collecting ==
    ASSUME StreamInv, NEW refs, object' = Collected(refs)
    PROVE  /\ object' \in [Objects -> Segment]
           /\ \A o \in refs \cap Objects : object'[o] = object[o]
           /\ SegmentInv'
BY ZeroedIsASegment
DEF StreamInv, TypeOK, Collected, Segment, SegmentInv, LastFilled

\* A step of k4wd on its segment.
LEMMA Writing ==
    ASSUME StreamInv, NEW from, NEW to, NEW contents \in Segment,
           from # "down", WriterStep(from, to, contents)
    PROVE  /\ object' \in [Objects -> Segment] /\ mapped \in Objects
           /\ object' = [object EXCEPT ![mapped] = contents]
           /\ object'[mapped] = contents
           /\ \A o \in Objects \ {mapped} : object'[o] = object[o]
BY DEF StreamInv, TypeOK, Refers, WriterStep, Segment

LEMMA WriterKeeps == StreamInv /\ WriterRuns => StreamInv'
<1> SUFFICES ASSUME StreamInv, WriterRuns PROVE StreamInv'
  OBVIOUS
<1> DEFINE m == object[mapped]
<1>m. mapped \in Objects /\ m \in Segment
  BY DEF WriterRuns, Zero, SetMagic, SetDims, CopyIn, Advance, Publish,
     WriterStep, StreamInv, Refers, TypeOK, Segment
<1> USE <1>m DEF StreamInv, TypeOK, Refers, WriterInv, SegmentInv, ReaderInv,
                 LastFilled, WriterStep, reader, locals, iteration
<1>1. CASE Zero
  <2>1. /\ object' \in [Objects -> Segment] /\ object'[mapped] = Zeroed
        /\ \A o \in Objects \ {mapped} : object'[o] = object[o]
    BY <1>1, Writing, ZeroedIsASegment DEF Zero
  <2> QED
    BY <1>1, <2>1, ZeroedIsASegment DEF Zero, Segment
<1>2. CASE SetMagic
  <2>1. [m EXCEPT !.magic = TRUE] \in Segment
    BY DEF Segment
  <2>2. /\ object' \in [Objects -> Segment]
        /\ object'[mapped] = [m EXCEPT !.magic = TRUE]
        /\ \A o \in Objects \ {mapped} : object'[o] = object[o]
    BY <1>2, <2>1, Writing DEF SetMagic
  <2> QED
    BY <1>2, <2>2 DEF SetMagic, Segment
<1>3. CASE SetDims
  <2>1. [m EXCEPT !.w = TRUE] \in Segment
    BY DEF Segment
  <2>2. /\ object' \in [Objects -> Segment]
        /\ object'[mapped] = [m EXCEPT !.w = TRUE]
        /\ \A o \in Objects \ {mapped} : object'[o] = object[o]
    BY <1>3, <2>1, Writing DEF SetDims
  <2> QED
    BY <1>3, <2>2 DEF SetDims, Segment
<1>4. CASE CopyIn
  <2> DEFINE c == [m EXCEPT !.filled = @ \cup {m.writeIdx}]
  <2>1. c \in Segment
    BY DEF Segment
  <2>2. /\ object' \in [Objects -> Segment] /\ object'[mapped] = c
        /\ \A o \in Objects \ {mapped} : object'[o] = object[o]
    BY <1>4, <2>1, Writing DEF CopyIn
  <2> QED
    BY <1>4, <2>2 DEF CopyIn, Segment
<1>5. CASE Advance
  <2> DEFINE c == [m EXCEPT !.writeIdx = (@ + 1) % RingSize]
  <2>0. m.writeIdx \in Slots /\ (m.writeIdx + 1) % RingSize \in Slots
    BY InRing, RestartAssumption DEF Segment, Slots
  <2>1. c \in Segment
    BY <2>0 DEF Segment
  <2>2. /\ object' \in [Objects -> Segment] /\ object'[mapped] = c
        /\ \A o \in Objects \ {mapped} : object'[o] = object[o]
    BY <1>5, <2>1, Writing DEF Advance
  <2>3. Behind(object'[mapped].writeIdx) = m.writeIdx
    BY <2>0, <2>2, BehindNext DEF Segment
  <2>4. object'[mapped].filled = m.filled /\ m.writeIdx \in m.filled
    BY <1>5, <2>2 DEF Advance, Segment
  <2> QED
    BY <1>5, <2>2, <2>3, <2>4 DEF Advance, Segment
<1>6. CASE Publish
  <2> DEFINE c == [m EXCEPT !.seq = (@ + 1) % (2 * SeqHalf)]
  <2>1. c \in Segment
    BY RestartAssumption DEF Segment
  <2>2. /\ object' \in [Objects -> Segment] /\ object'[mapped] = c
        /\ \A o \in Objects \ {mapped} : object'[o] = object[o]
    BY <1>6, <2>1, Writing DEF Publish
  <2> QED
    BY <1>6, <2>2 DEF Publish, Segment
<1> QED
  BY <1>1, <1>2, <1>3, <1>4, <1>5, <1>6 DEF WriterRuns

\* k4wd starts, ends or crashes, and the panel removes names.
LEMMA LifeKeeps == StreamInv /\ DaemonLife => StreamInv'
<1> SUFFICES ASSUME StreamInv, DaemonLife PROVE StreamInv'
  OBVIOUS
<1> USE RestartAssumption
    DEF StreamInv, TypeOK, Refers, WriterInv, ReaderInv, reader, writer,
        locals, iteration
<1>1. CASE Start
  BY <1>1 DEF Start, SegmentInv, LastFilled
<1>2. ASSUME NEW n \in {None, name}, Ends(n) PROVE StreamInv'
  <2>1. /\ object' \in [Objects -> Segment] /\ SegmentInv'
        /\ view \in Objects => object'[view] = object[view]
    <3>1. object' = Collected({n, view})
      BY <1>2 DEF Ends
    <3>2. view \in {n, view}
      OBVIOUS
    <3> QED
      BY <3>1, <3>2, Collecting
  <2> QED
    BY <1>2, <2>1 DEF Ends, LastFilled, Segment
<1>3. CASE PanelRemoves
  <2>1. /\ object' \in [Objects -> Segment] /\ SegmentInv'
        /\ view \in Objects => object'[view] = object[view]
    BY <1>3, Collecting DEF PanelRemoves
  <2> QED
    BY <1>3, <2>1 DEF PanelRemoves, LastFilled, Segment
<1> QED
  BY <1>1, <1>2, <1>3 DEF DaemonLife, Exit, Crash

\* The application and the thread of the stream.
LEMMA ThreadKeeps == StreamInv /\ (Application \/ ThreadRuns) => StreamInv'
<1> SUFFICES ASSUME StreamInv, Application \/ ThreadRuns PROVE StreamInv'
  OBVIOUS
<1> USE RestartAssumption
    DEF StreamInv, TypeOK, Refers, WriterInv, ReaderInv, LastFilled,
        ReaderGoto, segments, writer, locals, iteration
<1>1. CASE Application
  BY <1>1 DEF Application, StartStream, StopStream, SegmentInv
<1>2. CASE End
  BY <1>2 DEF End, SegmentInv
<1>3. CASE Open
  BY <1>3 DEF Open, SegmentInv
<1>4. CASE TakeNumber
  <2>1. view \in Objects /\ object[view] \in Segment
    BY <1>4 DEF TakeNumber, Segment
  <2>2. object[view].seq \in 0..(2 * SeqHalf - 1) /\ object[view].seq # 0
    BY <1>4, <2>1 DEF TakeNumber, Fresh, Seen, Int32, Segment
  <2>3. Seen \in -SeqHalf..(SeqHalf - 1)
    BY <2>2 DEF Seen, Int32
  <2> QED
    BY <1>4, <2>1, <2>2, <2>3 DEF TakeNumber, SegmentInv
<1>5. ASSUME Unmap, UNCHANGED <<running, writer, lastSeq>>, readerPC' = "open"
      PROVE  StreamInv'
  <2>1. /\ object' \in [Objects -> Segment] /\ SegmentInv'
        /\ mapped \in Objects => object'[mapped] = object[mapped]
    <3>1. object' = Collected({name, mapped})
      BY <1>5 DEF Unmap
    <3>2. mapped \in {name, mapped}
      OBVIOUS
    <3> QED
      BY <3>1, <3>2, Collecting
  <2>2. 0 \in Slots
    BY DEF Slots
  <2> QED
    BY <1>5, <2>1, <2>2 DEF Unmap, Segment
<1>6. CASE NothingNew
  BY <1>5, <1>6 DEF NothingNew
<1>7. CASE ReadIndex
  <2>1. view \in Objects /\ object[view].writeIdx \in Slots
    BY <1>7 DEF ReadIndex
  <2>2. idx' = Behind(object[view].writeIdx) /\ idx' \in Slots
    BY <1>7, <2>1, BehindNext DEF ReadIndex, Behind
  <2> QED
    BY <1>7, <2>1, <2>2 DEF ReadIndex, SegmentInv
<1>8. CASE HasDims
  BY <1>8 DEF HasDims, SegmentInv
<1>9. CASE NoDims
  BY <1>5, <1>9 DEF NoDims
<1>10. CASE CopyOut
  <2>1. ~disturbed => got' = TRUE
    BY <1>10 DEF CopyOut
  <2>2. got' \in BOOLEAN
    BY <1>10 DEF CopyOut
  <2>3. /\ readerPC' = "raise" /\ view \in Objects
        /\ UNCHANGED <<name, object, running, writerPC, mapped, lastSeq, view,
                      idx, disturbed>>
    BY <1>10 DEF CopyOut
  <2> QED
    BY <2>1, <2>2, <2>3 DEF SegmentInv
<1>11. CASE Raised
  BY <1>5, <1>11 DEF Raised
<1> QED
  BY <1>1, <1>2, <1>3, <1>4, <1>6, <1>7, <1>8, <1>9, <1>10, <1>11
  DEF ThreadRuns

-----------------------------------------------------------------------------
\* The inductive invariant, for any ring, any numbers and any segments.
THEOREM StreamInvariant == Spec => []StreamInv
<1>1. StreamInv /\ [Next]_vars => StreamInv'
  <2> SUFFICES ASSUME StreamInv, [Next]_vars PROVE StreamInv'
    OBVIOUS
  <2>1. CASE Next
    BY <2>1, WriterKeeps, LifeKeeps, ThreadKeeps DEF Next
  <2>2. CASE UNCHANGED vars
    BY <2>2 DEF vars, segments, writer, reader, locals, iteration, StreamInv,
       TypeOK, Refers, WriterInv, SegmentInv, ReaderInv, LastFilled
  <2> QED
    BY <2>1, <2>2
<1> QED
  BY InitStream, <1>1, PTL DEF Spec

\* The variables keep to their types, and write_idx to the ring.
THEOREM StreamTyped == Spec => []TypeOK
<1>1. StreamInv => TypeOK
  BY DEF StreamInv
<1> QED
  BY StreamInvariant, <1>1, PTL

\* What a stream raises is a frame, unless k4wd zeroed the segment in the
\* middle of the iteration (shm.c:36, K4WDriver.cpp:98-116).
THEOREM RaisesFrames == Spec => []NoBlankFrames
<1>1. StreamInv => NoBlankFrames
  BY DEF StreamInv, NoBlankFrames, ReaderInv
<1> QED
  BY StreamInvariant, <1>1, PTL
=============================================================================
