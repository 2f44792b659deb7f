--------------------------- MODULE ShmRing_proofs ---------------------------
(***************************************************************************)
(* The ring implements the mailbox, for any number of slots, of readers    *)
(* and of frames.  What carries the proof: the slot k places behind        *)
(* write_idx holds the frame published k - 1 frames ago, and no slot holds *)
(* anything older than a round.                                            *)
(***************************************************************************)
EXTENDS ShmRing, TLAPS

\* The slot k places behind slot i, for k up to RingSize
Back(i, k) == IF i >= k THEN i - k ELSE i + RingSize - k

\* A half that was copied out of a slot where frame t had been published
Holds(half, t) ==
    /\ t <= half /\ half <= advanced + 1
    /\ advanced < t + RingSize - 1 => half = t

WriterInv ==
    /\ seq = IF writerPC = "publish" THEN advanced - 1 ELSE advanced
    /\ stamp = IF writerPC = "advance" THEN advanced + 1 ELSE advanced
    /\ writerPC \in {"copySecond", "setStamp", "advance"}
           => first[writeIdx] = advanced + 1
    /\ writerPC \in {"setStamp", "advance"} => second[writeIdx] = advanced + 1

InRound(half) == advanced < half + RingSize /\ half <= advanced + 1

SlotInv ==
    /\ \A i \in Slots : InRound(first[i]) /\ InRound(second[i])
    /\ \A k \in 1..(RingSize - 1) : k <= advanced + 1 =>
           /\ first[Back(writeIdx, k)] = advanced - k + 1
           /\ second[Back(writeIdx, k)] = advanced - k + 1

Holding == {"acquire", "copyFirst", "copySecond", "deliver"}

\* What a reader knows of the frame it has taken
Taken(r) ==
    readerPC[r] \in Holding =>
        /\ taken[r] <= advanced
        /\ delivered[r].taken <= taken[r] /\ lastSeq[r] <= taken[r]
        /\ readerPC[r] # "deliver" /\ advanced < taken[r] + RingSize - 1
               => idx[r] = Back(writeIdx, advanced - taken[r] + 1)
        /\ readerPC[r] \in {"copySecond", "deliver"}
               => Holds(copied[r][1], taken[r])
        /\ readerPC[r] = "deliver" => Holds(copied[r][2], taken[r])

\* What is known of the last frame it delivered
Delivered(r) ==
    LET d == delivered[r]
    IN  /\ d.seq <= lastSeq[r] /\ lastSeq[r] <= seq
        /\ d.taken <= advanced
        /\ d.first >= d.seq /\ d.second >= d.seq
        /\ ~d.lapped => /\ d.first = d.taken /\ d.second = d.taken
                        /\ d.stamp >= d.taken

\* A follower delivers one frame again only under the two numbers that follow.
Repeats(r) ==
    LET d == delivered[r]
    IN  r \in Followers =>
            /\ repeats[r] <= 2
            /\ repeats[r] >= 1 => d.seq >= d.taken - 1
            /\ repeats[r] = 2 => d.seq >= d.taken
            /\ readerPC[r] # "readSeq" =>
                   lastSeq[r] > d.seq /\ lastSeq[r] >= d.taken - 1

ReaderInv == \A r \in Readers : Taken(r) /\ Delivered(r) /\ Repeats(r)

RingInv == TypeOK /\ WriterInv /\ SlotInv /\ ReaderInv

-----------------------------------------------------------------------------
LEMMA Backwards ==
    ASSUME NEW i \in Slots, NEW k \in 1..(RingSize - 1)
    PROVE  Back(i, k) \in Slots /\ Back(i, k) # i
BY RingAssumption DEF Back, Slots

\* The slot after i, and what lies behind that.
LEMMA Forwards ==
    ASSUME NEW i \in Slots
    PROVE  /\ (i + 1) % RingSize \in Slots
           /\ RingSize > 1 => Back((i + 1) % RingSize, 1) = i
           /\ \A k \in 1..(RingSize - 1) :
                  Back((i + 1) % RingSize, k + 1) = Back(i, k)
<1>1. CASE i + 1 < RingSize
  <2>1. (i + 1) % RingSize = i + 1
    BY <1>1, RingAssumption DEF Slots
  <2> QED
    BY <1>1, <2>1, RingAssumption DEF Back, Slots
<1>2. CASE i + 1 = RingSize
  <2>1. (i + 1) % RingSize = 0
    BY <1>2, RingAssumption DEF Slots
  <2> QED
    BY <1>2, <2>1, RingAssumption DEF Back, Slots
<1> QED
  BY <1>1, <1>2, RingAssumption DEF Slots

\* The slot a reader goes to: the one before write_idx.
LEMMA Previous ==
    ASSUME NEW i \in Slots
    PROVE  /\ (i + RingSize - 1) % RingSize \in Slots
           /\ (i + RingSize - 1) % RingSize = Back(i, 1)
<1>1. CASE i >= 1
  <2>1. i - 1 \in 0..(RingSize - 1) /\ i + RingSize - 1 = (i - 1) + RingSize
    BY <1>1, RingAssumption DEF Slots
  <2>2. ((i - 1) + RingSize) % RingSize = i - 1
    BY <2>1, RingAssumption
  <2> QED
    BY <1>1, <2>1, <2>2, RingAssumption DEF Back, Slots
<1>2. CASE i = 0
  <2>1. (RingSize - 1) % RingSize = RingSize - 1
    BY RingAssumption
  <2> QED
    BY <1>2, <2>1, RingAssumption DEF Back, Slots
<1> QED
  BY <1>1, <1>2, RingAssumption DEF Slots

\* Every slot but i lies behind it.
LEMMA Around ==
    ASSUME NEW i \in Slots, NEW j \in Slots, i # j
    PROVE  \E k \in 1..(RingSize - 1) : j = Back(i, k)
<1>1. CASE j < i
  <2>1. i - j \in 1..(RingSize - 1) /\ j = Back(i, i - j)
    BY <1>1, RingAssumption DEF Back, Slots
  <2> QED
    BY <2>1
<1>2. CASE j > i
  <2>1. /\ i + RingSize - j \in 1..(RingSize - 1)
        /\ j = Back(i, i + RingSize - j)
    BY <1>2, RingAssumption DEF Back, Slots
  <2> QED
    BY <2>1
<1> QED
  BY <1>1, <1>2, RingAssumption DEF Slots

LEMMA SetHalf ==
    ASSUME NEW p \in Nat \X Nat, NEW n \in Nat
    PROVE  /\ [p EXCEPT ![1] = n] \in Nat \X Nat
           /\ [p EXCEPT ![2] = n] \in Nat \X Nat
           /\ [p EXCEPT ![1] = n][1] = n
           /\ [p EXCEPT ![2] = n][1] = p[1] /\ [p EXCEPT ![2] = n][2] = n
OBVIOUS

-----------------------------------------------------------------------------
LEMMA InitHolds == Init => RingInv
<1> SUFFICES ASSUME Init PROVE RingInv
  OBVIOUS
<1>1. TypeOK
  BY RingAssumption DEF Init, TypeOK, Slots, WriterPCs, ReaderPCs,
     Deliveries, NoDelivery
<1>2. WriterInv
  BY DEF Init, WriterInv
<1>3. SlotInv
  <2>1. \A i \in Slots : InRound(first[i]) /\ InRound(second[i])
    BY RingAssumption DEF Init, InRound
  <2>2. \A k \in 1..(RingSize - 1) : k <= advanced + 1 => k = 1
    BY RingAssumption DEF Init
  <2>3. RingSize > 1 => Back(writeIdx, 1) \in Slots
    BY RingAssumption, Backwards, <1>1 DEF TypeOK
  <2> QED
    BY <2>1, <2>2, <2>3, RingAssumption DEF SlotInv, Init
<1>4. ReaderInv
  BY RingAssumption DEF Init, ReaderInv, Taken, Delivered, Repeats, Holding,
     NoDelivery
<1> QED
  BY <1>1, <1>2, <1>3, <1>4 DEF RingInv

-----------------------------------------------------------------------------
(* The steps of the writer *)

LEMMA WriterTyped == TypeOK /\ WriterStep => TypeOK'
<1> SUFFICES ASSUME TypeOK, WriterStep PROVE TypeOK'
  OBVIOUS
<1> USE RingAssumption DEF TypeOK, readerVars, WriterGoto, WriterPCs
<1>1. CASE CopyInFirst
  BY <1>1 DEF CopyInFirst
<1>2. CASE CopyInSecond
  BY <1>2 DEF CopyInSecond
<1>3. CASE SetStamp
  BY <1>3 DEF SetStamp
<1>4. CASE AdvanceWriteIdx
  BY <1>4, Forwards DEF AdvanceWriteIdx
<1>5. CASE PublishSeq
  BY <1>5 DEF PublishSeq
<1> QED
  BY <1>1, <1>2, <1>3, <1>4, <1>5 DEF WriterStep

\* A copy goes into the slot that no number of frames behind leads to.
LEMMA CopyKeepsSlots ==
    ASSUME TypeOK, SlotInv, WriterInv, CopyInFirst \/ CopyInSecond
    PROVE  SlotInv'
<1>1. /\ writeIdx \in Slots /\ advanced \in Nat
      /\ first \in [Slots -> Nat] /\ second \in [Slots -> Nat]
      /\ UNCHANGED <<writeIdx, advanced>>
  BY DEF TypeOK, CopyInFirst, CopyInSecond
<1>2. InRound(advanced + 1)
  BY <1>1, RingAssumption DEF InRound
<1>3. \A i \in Slots : /\ first'[i] = first[i] \/ first'[i] = advanced + 1
                       /\ second'[i] = second[i] \/ second'[i] = advanced + 1
                       /\ i # writeIdx => /\ first'[i] = first[i]
                                          /\ second'[i] = second[i]
  BY <1>1 DEF CopyInFirst, CopyInSecond
<1>4. \A i \in Slots : InRound(first[i])' /\ InRound(second[i])'
  BY <1>1, <1>2, <1>3 DEF SlotInv, InRound
<1>5. ASSUME NEW k \in 1..(RingSize - 1), k <= advanced + 1
      PROVE  /\ first'[Back(writeIdx, k)] = advanced - k + 1
             /\ second'[Back(writeIdx, k)] = advanced - k + 1
  <2>1. Back(writeIdx, k) \in Slots /\ Back(writeIdx, k) # writeIdx
    BY <1>1, Backwards
  <2> QED
    BY <1>3, <1>5, <2>1 DEF SlotInv
<1>6. \A k \in 1..(RingSize - 1) : Back(writeIdx, k)' = Back(writeIdx, k)
  BY <1>1 DEF Back
<1> QED
  BY <1>1, <1>4, <1>5, <1>6 DEF SlotInv

\* write_idx moves on: what lay k places behind it lies k + 1 behind.
LEMMA AdvanceKeepsSlots ==
    ASSUME TypeOK, SlotInv, WriterInv, AdvanceWriteIdx
    PROVE  SlotInv'
<1>1. /\ writeIdx \in Slots /\ advanced \in Nat
      /\ first \in [Slots -> Nat] /\ second \in [Slots -> Nat]
      /\ UNCHANGED <<first, second>> /\ advanced' = advanced + 1
      /\ writeIdx' = (writeIdx + 1) % RingSize
      /\ first[writeIdx] = advanced + 1 /\ second[writeIdx] = advanced + 1
  BY DEF TypeOK, AdvanceWriteIdx, WriterInv, WriterGoto
<1>2. ASSUME NEW i \in Slots PROVE InRound(first[i])' /\ InRound(second[i])'
  <2>1. CASE i = writeIdx
    BY <1>1, <2>1, RingAssumption DEF InRound
  <2>2. CASE i # writeIdx
    <3>1. PICK k \in 1..(RingSize - 1) : i = Back(writeIdx, k)
      BY <1>1, <2>2, Around
    <3>2. CASE k <= advanced + 1
      BY <1>1, <3>1, <3>2, RingAssumption DEF SlotInv, InRound
    <3>3. CASE k > advanced + 1
      BY <1>1, <3>3, RingAssumption DEF SlotInv, InRound
    <3> QED
      BY <1>1, <3>2, <3>3, RingAssumption
  <2> QED
    BY <2>1, <2>2
<1>3. ASSUME NEW k \in 1..(RingSize - 1), k <= advanced' + 1
      PROVE  /\ first[Back(writeIdx', k)] = advanced' - k + 1
             /\ second[Back(writeIdx', k)] = advanced' - k + 1
  <2>1. CASE k = 1
    BY <1>1, <2>1, Forwards, RingAssumption
  <2>2. CASE k > 1
    <3>1. k - 1 \in 1..(RingSize - 1) /\ k - 1 <= advanced + 1
      BY <1>1, <1>3, <2>2, RingAssumption
    <3>2. Back(writeIdx', (k - 1) + 1) = Back(writeIdx, k - 1)
      BY <1>1, <3>1, Forwards
    <3>3. (k - 1) + 1 = k /\ advanced - (k - 1) + 1 = advanced' - k + 1
      BY <1>1, RingAssumption
    <3> QED
      BY <3>1, <3>2, <3>3 DEF SlotInv
  <2> QED
    BY <2>1, <2>2, RingAssumption
<1>4. \A k \in 1..(RingSize - 1) : Back(writeIdx, k)' = Back(writeIdx', k)
  BY DEF Back
<1> QED
  BY <1>1, <1>2, <1>3, <1>4 DEF SlotInv

\* What a reader knows stays true as the writer goes on.
LEMMA ReadersWait ==
    ASSUME RingInv, WriterStep, WriterInv'
    PROVE  ReaderInv'
<1> SUFFICES ASSUME NEW r \in Readers
             PROVE  Taken(r)' /\ Delivered(r)' /\ Repeats(r)'
  BY DEF ReaderInv
<1>1. /\ UNCHANGED readerVars /\ advanced \in Nat
      /\ taken[r] \in Nat /\ writeIdx \in Slots
      /\ seq \in Nat /\ seq' >= seq /\ seq' \in Nat /\ lastSeq[r] \in Int
      /\ delivered[r] \in Deliveries /\ copied[r] \in Nat \X Nat
  BY DEF RingInv, TypeOK, WriterStep, CopyInFirst, CopyInSecond, SetStamp,
     AdvanceWriteIdx, PublishSeq
<1>2. Taken(r) /\ Delivered(r) /\ Repeats(r)
  BY DEF RingInv, ReaderInv
<1>3. \/ /\ advanced' = advanced + 1
         /\ writeIdx' = (writeIdx + 1) % RingSize
      \/ UNCHANGED <<advanced, writeIdx>>
  BY DEF WriterStep, CopyInFirst, CopyInSecond, SetStamp, AdvanceWriteIdx,
     PublishSeq
<1>4. ASSUME NEW h \in Nat, Holds(h, taken[r]) PROVE Holds(h, taken[r])'
  BY <1>1, <1>3, <1>4, RingAssumption DEF Holds, readerVars
<1>5. ASSUME taken[r] <= advanced, advanced' < taken[r] + RingSize - 1,
             idx[r] = Back(writeIdx, advanced - taken[r] + 1)
      PROVE  idx[r] = Back(writeIdx', advanced' - taken[r] + 1)
  <2>1. CASE advanced' = advanced + 1 /\ writeIdx' = (writeIdx + 1) % RingSize
    <3>1. advanced - taken[r] + 1 \in 1..(RingSize - 1)
      BY <1>1, <1>5, <2>1, RingAssumption
    <3>2. advanced' - taken[r] + 1 = (advanced - taken[r] + 1) + 1
      BY <1>1, <2>1
    <3> QED
      BY <1>1, <1>5, <2>1, <3>1, <3>2, Forwards
  <2>2. CASE UNCHANGED <<advanced, writeIdx>>
    BY <1>5, <2>2
  <2> QED
    BY <1>3, <2>1, <2>2
<1>6. Back(writeIdx, advanced - taken[r] + 1)'
          = Back(writeIdx', advanced' - taken'[r] + 1)
  BY DEF Back
<1>7. advanced' \in Nat /\ advanced <= advanced'
  BY <1>1, <1>3
<1>8. Taken(r)'
  <2> SUFFICES ASSUME readerPC[r] \in Holding
               PROVE  Taken(r)'
    BY <1>1 DEF Taken, readerVars
  <2>1. /\ taken[r] <= advanced'
        /\ delivered[r].taken <= taken[r] /\ lastSeq[r] <= taken[r]
    BY <1>1, <1>2, <1>7 DEF Taken
  <2>2. readerPC[r] # "deliver" /\ advanced' < taken[r] + RingSize - 1
            => idx[r] = Back(writeIdx', advanced' - taken[r] + 1)
    BY <1>1, <1>2, <1>5, <1>7, RingAssumption DEF Taken
  <2>3. readerPC[r] \in {"copySecond", "deliver"}
            => Holds(copied[r][1], taken[r])'
    BY <1>1, <1>2, <1>4 DEF Taken, Holds, readerVars
  <2>4. readerPC[r] = "deliver" => Holds(copied[r][2], taken[r])'
    BY <1>1, <1>2, <1>4 DEF Taken, Holds, readerVars
  <2> QED
    BY <1>1, <1>6, <2>1, <2>2, <2>3, <2>4 DEF Taken, Holds, readerVars
<1>9. Delivered(r)' /\ Repeats(r)'
  BY <1>1, <1>2, <1>7 DEF Delivered, Repeats, readerVars, Deliveries
<1> QED
  BY <1>8, <1>9

LEMMA WriterKeeps == RingInv /\ WriterStep => RingInv'
<1> SUFFICES ASSUME RingInv, WriterStep PROVE RingInv'
  OBVIOUS
<1>1. TypeOK /\ WriterInv /\ SlotInv
  BY DEF RingInv
<1>2. TypeOK'
  BY <1>1, WriterTyped
<1>3. WriterInv'
  <2> USE <1>1 DEF TypeOK, WriterInv, WriterGoto
  <2>1. CASE CopyInFirst
    BY <2>1 DEF CopyInFirst
  <2>2. CASE CopyInSecond
    BY <2>2 DEF CopyInSecond
  <2>3. CASE SetStamp
    BY <2>3 DEF SetStamp
  <2>4. CASE AdvanceWriteIdx
    BY <2>4 DEF AdvanceWriteIdx
  <2>5. CASE PublishSeq
    BY <2>5 DEF PublishSeq
  <2> QED
    BY <2>1, <2>2, <2>3, <2>4, <2>5 DEF WriterStep
<1>4. SlotInv'
  <2>1. CASE SetStamp \/ PublishSeq
    <3>1. UNCHANGED <<first, second, writeIdx, advanced>>
      BY <2>1 DEF SetStamp, PublishSeq
    <3> QED
      BY <1>1, <3>1 DEF SlotInv, InRound, Back
  <2> QED
    BY <1>1, <2>1, CopyKeepsSlots, AdvanceKeepsSlots DEF WriterStep
<1> QED
  BY <1>2, <1>3, <1>4, ReadersWait DEF RingInv

-----------------------------------------------------------------------------
(* The steps of a reader *)

\* A reader writes nothing but its own variables.
LEMMA ReadersApart ==
    ASSUME TypeOK, NEW r \in Readers, ReaderStep(r)
    PROVE  /\ UNCHANGED <<segment, writerPC, advanced>>
           /\ \A q \in Readers : q # r =>
                  /\ readerPC'[q] = readerPC[q] /\ lastSeq'[q] = lastSeq[q]
                  /\ idx'[q] = idx[q] /\ copied'[q] = copied[q]
                  /\ taken'[q] = taken[q] /\ delivered'[q] = delivered[q]
                  /\ repeats'[q] = repeats[q]
<1> USE DEF TypeOK, ReaderGoto
<1>1. CASE ReadSeq(r)
  BY <1>1 DEF ReadSeq
<1>2. CASE Repaint(r)
  BY <1>2 DEF Repaint
<1>3. CASE ReadWriteIdx(r)
  BY <1>3 DEF ReadWriteIdx
<1>4. CASE AcquireFrame(r)
  BY <1>4 DEF AcquireFrame
<1>5. CASE SkipFrame(r)
  BY <1>5 DEF SkipFrame, ForgetLocals
<1>6. CASE CopyOutFirst(r)
  BY <1>6 DEF CopyOutFirst
<1>7. CASE CopyOutSecond(r)
  BY <1>7 DEF CopyOutSecond
<1>8. CASE Deliver(r)
  BY <1>8 DEF Deliver, ForgetLocals
<1> QED
  BY <1>1, <1>2, <1>3, <1>4, <1>5, <1>6, <1>7, <1>8 DEF ReaderStep

LEMMA ReaderTyped ==
    ASSUME TypeOK, NEW r \in Readers, ReaderStep(r)
    PROVE  TypeOK'
<1> USE RingAssumption DEF TypeOK, ReaderGoto, ReaderPCs, segment
<1>0. 0 \in Slots
  BY DEF Slots
<1>1. CASE ReadSeq(r)
  BY <1>1 DEF ReadSeq
<1>2. CASE Repaint(r)
  BY <1>2 DEF Repaint
<1>3. CASE ReadWriteIdx(r)
  BY <1>3, Previous DEF ReadWriteIdx
<1>4. CASE AcquireFrame(r)
  BY <1>4 DEF AcquireFrame
<1>5. CASE SkipFrame(r)
  BY <1>0, <1>5 DEF SkipFrame, ForgetLocals
<1>6. CASE CopyOutFirst(r)
  <2>1. [copied[r] EXCEPT ![1] = first[idx[r]]] \in Nat \X Nat
    BY SetHalf
  <2>2. copied' \in [Readers -> Nat \X Nat]
    BY <1>6, <2>1 DEF CopyOutFirst
  <2> QED
    BY <1>6, <2>2 DEF CopyOutFirst
<1>7. CASE CopyOutSecond(r)
  <2>1. [copied[r] EXCEPT ![2] = second[idx[r]]] \in Nat \X Nat
    BY SetHalf
  <2>2. copied' \in [Readers -> Nat \X Nat]
    BY <1>7, <2>1 DEF CopyOutSecond
  <2> QED
    BY <1>7, <2>2 DEF CopyOutSecond
<1>8. CASE Deliver(r)
  <2>1. delivered'[r] \in Deliveries
    BY <1>8 DEF Deliver, Deliveries
  <2>2. delivered' \in [Readers -> Deliveries]
    BY <1>8, <2>1 DEF Deliver
  <2>3. repeats' \in [Readers -> Nat]
    BY <1>8 DEF Deliver
  <2> QED
    BY <1>0, <1>8, <2>2, <2>3 DEF Deliver, ForgetLocals
<1> QED
  BY <1>1, <1>2, <1>3, <1>4, <1>5, <1>6, <1>7, <1>8 DEF ReaderStep

\* A half that is copied out now holds what the reader has taken.
LEMMA CopiedWhole ==
    ASSUME RingInv, NEW r \in Readers,
           readerPC[r] \in {"copyFirst", "copySecond"}
    PROVE  Holds(first[idx[r]], taken[r]) /\ Holds(second[idx[r]], taken[r])
<1>1. /\ idx[r] \in Slots /\ taken[r] \in Nat /\ advanced \in Nat
      /\ first \in [Slots -> Nat] /\ second \in [Slots -> Nat]
  BY DEF RingInv, TypeOK
<1>2. taken[r] <= advanced
  BY DEF RingInv, ReaderInv, Taken, Holding
<1>3. InRound(first[idx[r]]) /\ InRound(second[idx[r]])
  BY <1>1 DEF RingInv, SlotInv
<1>4. CASE advanced < taken[r] + RingSize - 1
  <2>1. /\ advanced - taken[r] + 1 \in 1..(RingSize - 1)
        /\ advanced - taken[r] + 1 <= advanced + 1
        /\ advanced - (advanced - taken[r] + 1) + 1 = taken[r]
    BY <1>1, <1>2, <1>4, RingAssumption
  <2>2. idx[r] = Back(writeIdx, advanced - taken[r] + 1)
    BY <1>4 DEF RingInv, ReaderInv, Taken, Holding
  <2>3. first[idx[r]] = taken[r] /\ second[idx[r]] = taken[r]
    BY <2>1, <2>2 DEF RingInv, SlotInv
  <2> QED
    BY <1>1, <1>2, <2>3 DEF Holds
<1>5. CASE advanced >= taken[r] + RingSize - 1
  BY <1>1, <1>3, <1>5, RingAssumption DEF Holds, InRound
<1> QED
  BY <1>1, <1>4, <1>5, RingAssumption

\* The others know what they knew.
LEMMA OthersKeep ==
    ASSUME RingInv, NEW r \in Readers, ReaderStep(r),
           NEW q \in Readers, q # r
    PROVE  Taken(q)' /\ Delivered(q)' /\ Repeats(q)'
<1>1. /\ UNCHANGED <<segment, writerPC, advanced>>
      /\ readerPC'[q] = readerPC[q] /\ lastSeq'[q] = lastSeq[q]
      /\ idx'[q] = idx[q] /\ copied'[q] = copied[q]
      /\ taken'[q] = taken[q] /\ delivered'[q] = delivered[q]
      /\ repeats'[q] = repeats[q]
  BY ReadersApart DEF RingInv
<1>2. Taken(q) /\ Delivered(q) /\ Repeats(q)
  BY DEF RingInv, ReaderInv
<1>3. Taken(q)'
  BY <1>1, <1>2 DEF Taken, Holds, Back, segment
<1>4. Delivered(q)' /\ Repeats(q)'
  BY <1>1, <1>2 DEF Delivered, Repeats, segment
<1> QED
  BY <1>3, <1>4

LEMMA ReaderKeepsItsOwn ==
    ASSUME RingInv, NEW r \in Readers, ReaderStep(r)
    PROVE  Taken(r)' /\ Delivered(r)' /\ Repeats(r)'
<1>1. Taken(r) /\ Delivered(r) /\ Repeats(r)
  BY DEF RingInv, ReaderInv
<1>2. /\ UNCHANGED <<segment, writerPC, advanced>>
      /\ writeIdx' = writeIdx /\ advanced' = advanced /\ seq' = seq
  BY ReadersApart DEF RingInv, segment
<1>3. /\ readerPC \in [Readers -> ReaderPCs] /\ readerPC[r] \in ReaderPCs
      /\ lastSeq \in [Readers -> Nat \cup {-1}] /\ lastSeq[r] \in Int
      /\ idx \in [Readers -> Slots] /\ idx[r] \in Slots
      /\ copied \in [Readers -> Nat \X Nat] /\ copied[r] \in Nat \X Nat
      /\ taken \in [Readers -> Nat] /\ taken[r] \in Nat
      /\ delivered \in [Readers -> Deliveries]
      /\ delivered[r] \in Deliveries
      /\ repeats \in [Readers -> Nat] /\ repeats[r] \in Nat
  BY DEF RingInv, TypeOK
<1>4. /\ writeIdx \in Slots /\ seq \in Nat /\ stamp \in Nat
      /\ advanced \in Nat /\ stamp >= advanced
      /\ first \in [Slots -> Nat] /\ second \in [Slots -> Nat]
      /\ seq <= advanced /\ seq >= advanced - 1
  BY DEF RingInv, TypeOK, WriterInv
<1> USE DEF ReaderGoto
<1>5. CASE ReadSeq(r)
  <2>1. /\ readerPC'[r] = "readIdx" /\ lastSeq'[r] = seq
        /\ seq # lastSeq[r]
        /\ UNCHANGED <<taken, delivered, repeats>>
    BY <1>3, <1>5 DEF ReadSeq
  <2> QED
    BY <1>1, <1>2, <1>3, <1>4, <2>1
       DEF Taken, Delivered, Repeats, Holding, Deliveries
<1>6. CASE Repaint(r)
  <2>1. /\ readerPC'[r] = "readIdx" /\ r \notin Followers
        /\ UNCHANGED <<lastSeq, taken, delivered, repeats>>
    BY <1>3, <1>6, RingAssumption DEF Repaint
  <2> QED
    BY <1>1, <1>2, <1>3, <1>4, <2>1
       DEF Taken, Delivered, Repeats, Holding, Deliveries
<1>7. CASE ReadWriteIdx(r)
  <2>1. /\ readerPC[r] = "readIdx" /\ readerPC'[r] = "acquire"
        /\ taken'[r] = advanced /\ idx'[r] = Back(writeIdx, 1)
        /\ UNCHANGED <<lastSeq, delivered, repeats>>
    BY <1>3, <1>4, <1>7, Previous DEF ReadWriteIdx
  <2>2. Back(writeIdx, advanced - taken[r] + 1)' = Back(writeIdx, 1)
    BY <1>2, <1>4, <2>1 DEF Back
  <2>3. Taken(r)'
    BY <1>1, <1>2, <1>3, <1>4, <2>1, <2>2
       DEF Taken, Delivered, Holding, Deliveries
  <2>4. Delivered(r)' /\ Repeats(r)'
    BY <1>1, <1>2, <1>3, <2>1 DEF Delivered, Repeats, Deliveries
  <2> QED
    BY <2>3, <2>4
<1>8. CASE AcquireFrame(r)
  <2>1. /\ readerPC[r] = "acquire" /\ readerPC'[r] = "copyFirst"
        /\ UNCHANGED <<lastSeq, idx, copied, taken, delivered, repeats>>
    BY <1>3, <1>8 DEF AcquireFrame
  <2>2. Taken(r)'
    BY <1>1, <1>2, <2>1 DEF Taken, Holding, Back
  <2> QED
    BY <1>1, <1>2, <2>1, <2>2 DEF Delivered, Repeats
<1>9. CASE SkipFrame(r)
  <2>1. /\ readerPC[r] = "acquire" /\ readerPC'[r] = "readSeq"
        /\ UNCHANGED <<lastSeq, delivered, repeats>>
    BY <1>3, <1>9 DEF SkipFrame
  <2> QED
    BY <1>1, <1>2, <2>1 DEF Taken, Delivered, Repeats, Holding
<1>10. CASE CopyOutFirst(r)
  <2>1. /\ readerPC[r] = "copyFirst" /\ readerPC'[r] = "copySecond"
        /\ copied'[r] = [copied[r] EXCEPT ![1] = first[idx[r]]]
        /\ UNCHANGED <<lastSeq, idx, taken, delivered, repeats>>
    BY <1>3, <1>10 DEF CopyOutFirst
  <2>2. copied'[r][1] = first[idx[r]] /\ Holds(first[idx[r]], taken[r])
    BY <1>3, <1>4, <2>1, SetHalf, CopiedWhole
  <2>3. Taken(r)'
    BY <1>1, <1>2, <2>1, <2>2 DEF Taken, Holding, Holds, Back
  <2> QED
    BY <1>1, <1>2, <2>1, <2>3 DEF Delivered, Repeats
<1>11. CASE CopyOutSecond(r)
  <2>1. /\ readerPC[r] = "copySecond" /\ readerPC'[r] = "deliver"
        /\ copied'[r] = [copied[r] EXCEPT ![2] = second[idx[r]]]
        /\ UNCHANGED <<lastSeq, idx, taken, delivered, repeats>>
    BY <1>3, <1>11 DEF CopyOutSecond
  <2>2. /\ copied'[r][1] = copied[r][1] /\ copied'[r][2] = second[idx[r]]
        /\ Holds(second[idx[r]], taken[r])
    BY <1>3, <1>4, <2>1, SetHalf, CopiedWhole
  <2>3. Taken(r)'
    BY <1>1, <1>2, <2>1, <2>2 DEF Taken, Holding, Holds, Back
  <2> QED
    BY <1>1, <1>2, <2>1, <2>3 DEF Delivered, Repeats
<1>12. CASE Deliver(r)
  <2>1. /\ readerPC[r] = "deliver" /\ readerPC'[r] = "readSeq"
        /\ lastSeq' = lastSeq
        /\ delivered'[r] =
               [first |-> copied[r][1], second |-> copied[r][2],
                stamp |-> stamp, seq |-> lastSeq[r], taken |-> taken[r],
                lapped |-> advanced >= taken[r] + RingSize - 1]
        /\ repeats'[r] = IF delivered[r].seq # -1
                            /\ taken[r] = delivered[r].taken
                         THEN repeats[r] + 1 ELSE 0
    BY <1>3, <1>12 DEF Deliver
  <2>2. /\ Holds(copied[r][1], taken[r]) /\ Holds(copied[r][2], taken[r])
        /\ lastSeq[r] <= taken[r] /\ taken[r] <= advanced
    BY <1>1, <2>1 DEF Taken, Holding
  <2>3. Taken(r)'
    BY <2>1 DEF Taken, Holding
  <2>4. Delivered(r)'
    <3>1. /\ delivered'[r].first = copied[r][1]
          /\ delivered'[r].second = copied[r][2]
          /\ delivered'[r].stamp = stamp /\ delivered'[r].seq = lastSeq[r]
          /\ delivered'[r].taken = taken[r]
      BY <2>1
    <3>6. ~delivered'[r].lapped => ~(advanced >= taken[r] + RingSize - 1)
      <4> DEFINE lapped == advanced >= taken[r] + RingSize - 1
      <4>1. delivered'[r] =
               [first |-> copied[r][1], second |-> copied[r][2],
                stamp |-> stamp, seq |-> lastSeq[r], taken |-> taken[r],
                lapped |-> lapped]
        BY <2>1
      <4> HIDE DEF lapped
      <4>2. delivered'[r].lapped = lapped
        BY <4>1
      <4> QED
        BY <4>2 DEF lapped
    <3>2. copied[r][1] \in Nat /\ copied[r][2] \in Nat
      BY <1>3
    <3>3. lastSeq[r] <= seq
      BY <1>1 DEF Delivered
    <3>4. /\ lastSeq[r] <= copied[r][1] /\ lastSeq[r] <= copied[r][2]
          /\ ~(advanced >= taken[r] + RingSize - 1)
                 => copied[r][1] = taken[r] /\ copied[r][2] = taken[r]
      BY <1>3, <1>4, <2>2, <3>2, RingAssumption DEF Holds
    <3>5. /\ lastSeq'[r] = lastSeq[r] /\ seq' = seq
          /\ advanced' = advanced /\ taken[r] <= advanced
          /\ stamp >= taken[r]
      BY <1>2, <1>3, <1>4, <2>1, <2>2
    <3> QED
      BY <3>1, <3>3, <3>4, <3>5, <3>6, <1>3 DEF Delivered
  <2>5. Repeats(r)'
    <3>1. /\ delivered'[r].seq = lastSeq[r]
          /\ delivered'[r].taken = taken[r]
      BY <2>1
    <3>2. delivered[r].seq \in Int /\ delivered[r].taken \in Nat
      BY <1>3 DEF Deliveries
    <3>3. CASE repeats'[r] = 0
      BY <2>1, <3>3 DEF Repeats
    <3>4. CASE /\ repeats'[r] = repeats[r] + 1
               /\ taken[r] = delivered[r].taken
      <4>1. readerPC[r] # "readSeq" /\ readerPC'[r] = "readSeq"
        BY <2>1
      <4>2. /\ lastSeq[r] \in Int /\ repeats[r] \in Nat
            /\ lastSeq[r] <= taken[r] /\ taken[r] \in Nat
        BY <1>3, <2>2
      <4> QED
        BY <1>1, <3>1, <3>2, <3>4, <4>1, <4>2 DEF Repeats
    <3> QED
      BY <2>1, <3>3, <3>4
  <2> QED
    BY <2>3, <2>4, <2>5
<1> QED
  BY <1>5, <1>6, <1>7, <1>8, <1>9, <1>10, <1>11, <1>12 DEF ReaderStep

LEMMA ReaderKeeps ==
    ASSUME RingInv, NEW r \in Readers, ReaderStep(r)
    PROVE  RingInv'
<1>1. UNCHANGED <<segment, writerPC, advanced>>
  BY ReadersApart DEF RingInv
<1>2. TypeOK'
  BY ReaderTyped DEF RingInv
<1>3. WriterInv' /\ SlotInv'
  BY <1>1 DEF RingInv, WriterInv, SlotInv, InRound, Back, segment
<1>4. ReaderInv'
  BY OthersKeep, ReaderKeepsItsOwn DEF ReaderInv
<1> QED
  BY <1>2, <1>3, <1>4 DEF RingInv

-----------------------------------------------------------------------------
(* The theorems *)

\* The inductive invariant of the ring, for any number of slots and readers.
THEOREM RingInvariant == Spec => []RingInv
<1>1. RingInv /\ [Next]_vars => RingInv'
  <2> SUFFICES ASSUME RingInv, [Next]_vars PROVE RingInv'
    OBVIOUS
  <2>1. CASE WriterStep
    BY <2>1, WriterKeeps
  <2>2. CASE \E r \in Readers : ReaderStep(r)
    BY <2>2, ReaderKeeps
  <2>3. CASE UNCHANGED vars
    BY <2>3 DEF vars, segment, readerVars, RingInv, TypeOK, WriterInv,
       SlotInv, InRound, Back, ReaderInv, Taken, Delivered, Repeats, Holds
  <2> QED
    BY <2>1, <2>2, <2>3 DEF Next
<1> QED
  BY <1>1, InitHolds, PTL DEF Spec

\* The variables of segment, writer and readers keep to their types.
THEOREM RingTyped == Spec => []TypeOK
BY RingInvariant, PTL DEF RingInv

\* A reader that is not lapped delivers a whole frame, the newest there was
\* when it read write_idx (shm.c:55).
THEOREM WholeFrames == Spec => []WholeUnlessLapped
<1>1. RingInv => WholeUnlessLapped
  BY DEF RingInv, ReaderInv, Delivered, WholeUnlessLapped
<1> QED
  BY <1>1, RingInvariant, PTL

\* No half of a delivered frame is older than its sequence number (shm.c:56).
THEOREM NeverOlder == Spec => []NeverOlderThanSeq
<1>1. RingInv => NeverOlderThanSeq
  BY DEF RingInv, ReaderInv, Delivered, NeverOlderThanSeq
<1> QED
  BY <1>1, RingInvariant, PTL

\* A frame delivered whole carries its own time stamp or a newer one
\* (K4WDriver.cpp:129).
THEOREM StampsNotOlder == Spec => []StampNotOlder
<1>1. RingInv => StampNotOlder
  BY DEF RingInv, ReaderInv, Delivered, StampNotOlder
<1> QED
  BY <1>1, RingInvariant, PTL

\* A follower delivers one frame three times at most (K4WDriver.cpp:98).
THEOREM ThreeTimes == Spec => []AtMostThreeTimes
<1>1. RingInv => AtMostThreeTimes
  BY DEF RingInv, ReaderInv, Repeats, AtMostThreeTimes, Readers
<1> QED
  BY <1>1, RingInvariant, PTL

\* What a reader shows does not go back while it is not lapped.
THEOREM Onwards == Spec => NeverBackwards
<1> DEFINE Step == \A r \in Readers :
           ~delivered[r].lapped /\ ~delivered'[r].lapped
               => delivered'[r].first >= delivered[r].second
<1>1. RingInv /\ RingInv' /\ [Next]_vars => [Step]_vars
  <2> SUFFICES ASSUME RingInv, RingInv', [Next]_vars, NEW q \in Readers,
                      ~delivered[q].lapped, ~delivered'[q].lapped
               PROVE  delivered'[q].first >= delivered[q].second
    OBVIOUS
  <2>1. /\ delivered[q].second = delivered[q].taken
        /\ delivered'[q].first = delivered'[q].taken
    BY DEF RingInv, ReaderInv, Delivered
  <2>2. delivered[q].taken \in Nat /\ delivered'[q].taken \in Nat
    BY DEF RingInv, TypeOK, Deliveries
  <2>3. CASE Deliver(q)
    <3>1. delivered'[q].taken = taken[q]
      BY <2>3 DEF Deliver, RingInv, TypeOK
    <3>2. delivered[q].taken <= taken[q]
      BY <2>3 DEF Deliver, ReaderGoto, RingInv, ReaderInv, Taken, Holding
    <3> QED
      BY <2>1, <3>1, <3>2, <2>2
  <2>4. CASE ~Deliver(q)
    <3>1. delivered'[q] = delivered[q]
      <4>1. CASE WriterStep
        BY <4>1 DEF WriterStep, CopyInFirst, CopyInSecond, SetStamp,
           AdvanceWriteIdx, PublishSeq, readerVars
      <4>2. ASSUME NEW r \in Readers, ReaderStep(r)
            PROVE  delivered'[q] = delivered[q]
        <5>1. CASE r # q
          BY <4>2, <5>1, ReadersApart DEF RingInv
        <5>2. CASE r = q
          BY <2>4, <4>2, <5>2 DEF ReaderStep, ReadSeq, Repaint, ReadWriteIdx,
             AcquireFrame, SkipFrame, CopyOutFirst, CopyOutSecond
        <5> QED
          BY <5>1, <5>2
      <4>3. CASE UNCHANGED vars
        BY <4>3 DEF vars, readerVars
      <4> QED
        BY <4>1, <4>2, <4>3 DEF Next
    <3> QED
      BY <2>1, <2>2, <3>1
  <2> QED
    BY <2>3, <2>4
<1> QED
  BY <1>1, RingInvariant, PTL DEF Spec, NeverBackwards

-----------------------------------------------------------------------------
(* The refinement.  A reader holds a frame of the mailbox from the reading *)
(* of write_idx on; the frame is published as write_idx moves.             *)

HeldBy(r) == IF readerPC[r] \in Holding THEN taken[r] ELSE -1
ShownBy(r) == <<delivered[r].first, delivered[r].second>>
HeldNow == [r \in Readers |-> HeldBy(r)]
ShownNow == [r \in Readers |-> ShownBy(r)]

\* The mailbox's step, in the terms of the ring.
MailboxStep ==
    \/ /\ advanced' = advanced + 1
       /\ UNCHANGED <<HeldNow, ShownNow>>
    \/ \E r \in Readers :
           /\ HeldNow[r] = -1
           /\ HeldNow' = [HeldNow EXCEPT ![r] = advanced]
           /\ UNCHANGED <<advanced, ShownNow>>
    \/ \E r \in Readers :
           /\ HeldNow[r] # -1
           /\ HeldNow' = [HeldNow EXCEPT ![r] = -1]
           /\ UNCHANGED <<advanced, ShownNow>>
    \/ \E r \in Readers :
           /\ HeldNow[r] # -1
           /\ \E halves \in Mailbox!Deliverable(HeldNow[r]) :
                  ShownNow' = [ShownNow EXCEPT ![r] = halves]
           /\ HeldNow' = [HeldNow EXCEPT ![r] = -1]
           /\ UNCHANGED advanced

LEMMA MailboxSteps ==
    MailboxStep \/ UNCHANGED <<advanced, HeldNow, ShownNow>>
        => [Mailbox!MailboxNext]_(Mailbox!mailboxVars)
BY DEF MailboxStep, HeldNow, ShownNow, HeldBy, ShownBy, Holding,
   Mailbox!MailboxNext, Mailbox!mailboxVars, Mailbox!PublishFrame,
   Mailbox!TakeLatest, Mailbox!GiveUp, Mailbox!DeliverFrame, Mailbox!None

\* What r does to its own entries decides what the step does to the mailbox.
LEMMA OnlyOwnEntries ==
    ASSUME TypeOK, NEW r \in Readers, ReaderStep(r)
    PROVE  /\ HeldNow' = [HeldNow EXCEPT ![r] = HeldBy(r)']
           /\ ShownNow' = [ShownNow EXCEPT ![r] = ShownBy(r)']
           /\ advanced' = advanced
BY ReadersApart DEF HeldNow, ShownNow, HeldBy, ShownBy

LEMMA WriterIsMailbox ==
    ASSUME RingInv, WriterStep
    PROVE  MailboxStep \/ UNCHANGED <<advanced, HeldNow, ShownNow>>
<1>1. UNCHANGED <<HeldNow, ShownNow>>
  BY DEF WriterStep, CopyInFirst, CopyInSecond, SetStamp, AdvanceWriteIdx,
     PublishSeq, readerVars, HeldNow, ShownNow, HeldBy, ShownBy
<1>2. advanced' = advanced + 1 \/ advanced' = advanced
  BY DEF WriterStep, CopyInFirst, CopyInSecond, SetStamp, AdvanceWriteIdx,
     PublishSeq
<1> QED
  BY <1>1, <1>2 DEF MailboxStep

LEMMA ReaderIsMailbox ==
    ASSUME RingInv, NEW r \in Readers, ReaderStep(r)
    PROVE  MailboxStep \/ UNCHANGED <<advanced, HeldNow, ShownNow>>
<1>1. /\ HeldNow' = [HeldNow EXCEPT ![r] = HeldBy(r)']
      /\ ShownNow' = [ShownNow EXCEPT ![r] = ShownBy(r)']
      /\ advanced' = advanced
  BY OnlyOwnEntries DEF RingInv
<1>2. HeldNow[r] = HeldBy(r) /\ ShownNow[r] = ShownBy(r)
  BY DEF HeldNow, ShownNow
<1>3. ASSUME HeldBy(r)' = HeldBy(r) PROVE HeldNow' = HeldNow
  BY <1>1, <1>2, <1>3 DEF HeldNow
<1>4. ASSUME ShownBy(r)' = ShownBy(r) PROVE ShownNow' = ShownNow
  BY <1>1, <1>2, <1>4 DEF ShownNow
<1>5. taken[r] \in Nat /\ advanced \in Nat
  BY DEF RingInv, TypeOK
<1> USE DEF RingInv, TypeOK, ReaderGoto
<1>6. CASE \/ ReadSeq(r) \/ Repaint(r) \/ AcquireFrame(r)
           \/ CopyOutFirst(r) \/ CopyOutSecond(r)
  <2>1. HeldBy(r)' = HeldBy(r) /\ ShownBy(r)' = ShownBy(r)
    BY <1>6 DEF ReadSeq, Repaint, AcquireFrame, CopyOutFirst, CopyOutSecond,
       HeldBy, ShownBy, Holding
  <2> QED
    BY <1>1, <1>3, <1>4, <2>1
<1>7. CASE ReadWriteIdx(r)
  <2>1. /\ HeldBy(r) = -1 /\ HeldBy(r)' = advanced
        /\ ShownBy(r)' = ShownBy(r)
    BY <1>7 DEF ReadWriteIdx, HeldBy, ShownBy, Holding
  <2> QED
    BY <1>1, <1>2, <1>4, <2>1 DEF MailboxStep
<1>8. CASE SkipFrame(r)
  <2>1. /\ HeldBy(r) # -1 /\ HeldBy(r)' = -1
        /\ ShownBy(r)' = ShownBy(r)
    BY <1>5, <1>8 DEF SkipFrame, HeldBy, ShownBy, Holding
  <2> QED
    BY <1>1, <1>2, <1>4, <2>1 DEF MailboxStep
<1>9. CASE Deliver(r)
  <2>1. /\ HeldBy(r) = taken[r] /\ HeldBy(r)' = -1
        /\ ShownBy(r)' = <<copied[r][1], copied[r][2]>>
    BY <1>9 DEF Deliver, HeldBy, ShownBy, Holding
  <2>2. /\ Holds(copied[r][1], taken[r]) /\ Holds(copied[r][2], taken[r])
        /\ copied[r][1] \in Nat /\ copied[r][2] \in Nat
    BY <1>9 DEF Deliver, ReaderInv, Taken, Holding
  <2>3. <<copied[r][1], copied[r][2]>> \in Mailbox!Deliverable(taken[r])
    BY <1>5, <2>2, RingAssumption DEF Mailbox!Deliverable, Holds
  <2>4. /\ HeldNow[r] = taken[r] /\ HeldNow[r] # -1
        /\ HeldNow' = [HeldNow EXCEPT ![r] = -1]
    BY <1>1, <1>2, <1>5, <2>1
  <2>5. \E halves \in Mailbox!Deliverable(HeldNow[r]) :
            ShownNow' = [ShownNow EXCEPT ![r] = halves]
    BY <1>1, <2>1, <2>3, <2>4
  <2> QED
    BY <1>1, <2>4, <2>5 DEF MailboxStep
<1> QED
  BY <1>6, <1>7, <1>8, <1>9 DEF ReaderStep

\* A segment implements the mailbox that holds the latest frame: every step of
\* k4w_shm_write_frame and of a reader is a step of the mailbox or none.
THEOREM IsAMailbox == Spec => ImplementsMailbox
<1>1. Init => Mailbox!MailboxInit
  BY DEF Init, NoDelivery, Mailbox!MailboxInit, Mailbox!None
<1>2. RingInv /\ [Next]_vars => [Mailbox!MailboxNext]_(Mailbox!mailboxVars)
  <2> SUFFICES ASSUME RingInv, [Next]_vars
               PROVE  MailboxStep \/ UNCHANGED <<advanced, HeldNow, ShownNow>>
    BY MailboxSteps
  <2>1. CASE UNCHANGED vars
    BY <2>1 DEF vars, readerVars, HeldNow, ShownNow, HeldBy, ShownBy
  <2> QED
    BY <2>1, WriterIsMailbox, ReaderIsMailbox DEF Next
<1> QED
  BY <1>1, <1>2, RingInvariant, PTL
     DEF Spec, ImplementsMailbox, Mailbox!MailboxSpec
=============================================================================
