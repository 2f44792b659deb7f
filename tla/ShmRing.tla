------------------------------- MODULE ShmRing -------------------------------
(***************************************************************************)
(* One shared-memory frame segment: k4w_shm_write_frame of shm.c in k4wd,  *)
(* and the processes that map the segment read-only and copy frames out of *)
(* it without a lock, while the writer goes on:                            *)
(*   Followers  wait for a new sequence number (the OpenNI2 driver's       *)
(*              streams, the GUI's microphone monitor)                     *)
(*   Peekers    take whatever is newest at each repaint (readRGB,          *)
(*              readDepth and readIR of the GUI)                           *)
(* A copy is two accesses, of the first and of the second half of a slot,  *)
(* so that it can be overtaken in the middle.  A frame is its number in    *)
(* the order of publication.                                               *)
(***************************************************************************)
EXTENDS Integers

CONSTANTS RingSize,  \* K4W_RING_SIZE, 3 in the code
          Followers, Peekers,
          MaxFrames  \* bound on the frames written, for TLC

ASSUME RingAssumption ==
    /\ RingSize \in Nat \ {0}
    /\ MaxFrames \in Nat
    /\ Followers \cap Peekers = {}

Readers == Followers \cup Peekers
Slots == 0..(RingSize - 1)

VARIABLES
    \* ---- the segment
    first, second, \* the halves of each slot
    writeIdx, seq, stamp,
    \* ---- the writer; advanced counts the frames write_idx has moved past
    writerPC, advanced,
    \* ---- the readers
    readerPC, lastSeq, idx, copied,
    taken,     \* value of advanced when the reader read write_idx
    delivered, \* the last frame delivered
    repeats    \* how often in a row the reader delivered the same frame again

segment == <<first, second, writeIdx, seq, stamp>>
readerVars == <<readerPC, lastSeq, idx, copied, taken, delivered, repeats>>
vars == <<segment, writerPC, advanced, readerVars>>

WriterPCs == {"copyFirst", "copySecond", "setStamp", "advance", "publish"}
ReaderPCs == {"readSeq", "readIdx", "acquire", "copyFirst", "copySecond",
              "deliver"}

\* What a reader hands to its application.  It was lapped if RingSize - 1 more
\* frames were published since it read write_idx.
Deliveries == [first : Nat, second : Nat, stamp : Nat, seq : Nat \cup {-1},
               taken : Nat, lapped : BOOLEAN]

\* Before the first delivery.
NoDelivery == [first |-> 0, second |-> 0, stamp |-> 0, seq |-> -1,
               taken |-> 0, lapped |-> FALSE]

\* The segment as k4w_shm_create leaves it: mapped, zeroed, magic set.
Init ==
    /\ first = [i \in Slots |-> 0] /\ second = [i \in Slots |-> 0]
    /\ writeIdx = 0 /\ seq = 0 /\ stamp = 0
    /\ writerPC = "copyFirst" /\ advanced = 0
    /\ readerPC = [r \in Readers |-> "readSeq"]
    /\ lastSeq = [r \in Readers |-> -1]
    /\ idx = [r \in Readers |-> 0]
    /\ copied = [r \in Readers |-> <<0, 0>>]
    /\ taken = [r \in Readers |-> 0]
    /\ delivered = [r \in Readers |-> NoDelivery]
    /\ repeats = [r \in Readers |-> 0]

-----------------------------------------------------------------------------
(* k4w_shm_write_frame *)

WriterGoto(from, to) == writerPC = from /\ writerPC' = to

\* memcpy into the slot write_idx points to
CopyInFirst ==
    /\ advanced < MaxFrames
    /\ WriterGoto("copyFirst", "copySecond")
    /\ first' = [first EXCEPT ![writeIdx] = advanced + 1]
    /\ UNCHANGED <<second, writeIdx, seq, stamp, advanced, readerVars>>

CopyInSecond ==
    /\ WriterGoto("copySecond", "setStamp")
    /\ second' = [second EXCEPT ![writeIdx] = advanced + 1]
    /\ UNCHANGED <<first, writeIdx, seq, stamp, advanced, readerVars>>

\* A stamp is the number of the frame it was taken for.
SetStamp ==
    /\ WriterGoto("setStamp", "advance")
    /\ stamp' = advanced + 1
    /\ UNCHANGED <<first, second, writeIdx, seq, advanced, readerVars>>

\* Mutant: the next frame overwrites this one.
AdvanceNowhere ==
    /\ WriterGoto("advance", "publish")
    /\ advanced' = advanced + 1
    /\ UNCHANGED <<first, second, writeIdx, seq, stamp, readerVars>>

AdvanceWriteIdx ==
    /\ WriterGoto("advance", "publish")
    /\ writeIdx' = (writeIdx + 1) % RingSize
    /\ advanced' = advanced + 1
    /\ UNCHANGED <<first, second, seq, stamp, readerVars>>

PublishSeq ==
    /\ WriterGoto("publish", "copyFirst")
    /\ seq' = seq + 1
    /\ UNCHANGED <<first, second, writeIdx, stamp, advanced, readerVars>>

-----------------------------------------------------------------------------
(* One iteration of a reader *)

ReaderGoto(r, from, to) ==
    /\ readerPC[r] = from
    /\ readerPC' = [readerPC EXCEPT ![r] = to]
    /\ UNCHANGED <<segment, writerPC, advanced>>

\* Mutant: every other sequence number is taken for an old one.
ReadSeqSkipsOne(r) ==
    /\ r \in Followers
    /\ seq > lastSeq[r] + 1
    /\ ReaderGoto(r, "readSeq", "readIdx")
    /\ lastSeq' = [lastSeq EXCEPT ![r] = seq]
    /\ UNCHANGED <<idx, copied, taken, delivered, repeats>>

\* Mutant: the sequence number is not compared with the last one.
ReadSeqAgain(r) ==
    /\ r \in Followers
    /\ seq >= 1
    /\ ReaderGoto(r, "readSeq", "readIdx")
    /\ lastSeq' = [lastSeq EXCEPT ![r] = seq]
    /\ UNCHANGED <<idx, copied, taken, delivered, repeats>>

\* if (seq == last_seq || seq < 1) sleep and retry; last_seq = seq.
ReadSeq(r) ==
    /\ r \in Followers
    /\ seq # lastSeq[r] /\ seq >= 1
    /\ ReaderGoto(r, "readSeq", "readIdx")
    /\ lastSeq' = [lastSeq EXCEPT ![r] = seq]
    /\ UNCHANGED <<idx, copied, taken, delivered, repeats>>

\* A repaint looks at no sequence number.
Repaint(r) ==
    /\ r \in Peekers
    /\ ReaderGoto(r, "readSeq", "readIdx")
    /\ UNCHANGED <<lastSeq, idx, copied, taken, delivered, repeats>>

\* Mutant: the slot being written is read, not the one before it.
ReadWriteIdxAsIs(r) ==
    /\ ReaderGoto(r, "readIdx", "acquire")
    /\ idx' = [idx EXCEPT ![r] = writeIdx]
    /\ taken' = [taken EXCEPT ![r] = advanced]
    /\ UNCHANGED <<lastSeq, copied, delivered, repeats>>

\* The slot before the one to be written next.
ReadWriteIdx(r) ==
    /\ ReaderGoto(r, "readIdx", "acquire")
    /\ idx' = [idx EXCEPT ![r] = (writeIdx + RingSize - 1) % RingSize]
    /\ taken' = [taken EXCEPT ![r] = advanced]
    /\ UNCHANGED <<lastSeq, copied, delivered, repeats>>

\* The locals of an iteration are gone at its end.
ForgetLocals(r) ==
    /\ idx' = [idx EXCEPT ![r] = 0]
    /\ copied' = [copied EXCEPT ![r] = <<0, 0>>]
    /\ taken' = [taken EXCEPT ![r] = 0]

AcquireFrame(r) ==
    /\ ReaderGoto(r, "acquire", "copyFirst")
    /\ UNCHANGED <<lastSeq, idx, copied, taken, delivered, repeats>>

\* Without a frame to copy into, this sequence number is never delivered.
SkipFrame(r) ==
    /\ ReaderGoto(r, "acquire", "readSeq")
    /\ ForgetLocals(r)
    /\ UNCHANGED <<lastSeq, delivered, repeats>>

CopyOutFirst(r) ==
    /\ ReaderGoto(r, "copyFirst", "copySecond")
    /\ copied' = [copied EXCEPT ![r][1] = first[idx[r]]]
    /\ UNCHANGED <<lastSeq, idx, taken, delivered, repeats>>

CopyOutSecond(r) ==
    /\ ReaderGoto(r, "copySecond", "deliver")
    /\ copied' = [copied EXCEPT ![r][2] = second[idx[r]]]
    /\ UNCHANGED <<lastSeq, idx, taken, delivered, repeats>>

\* The time stamp is read after the copy, then the frame is raised.
Deliver(r) ==
    /\ ReaderGoto(r, "deliver", "readSeq")
    /\ delivered' = [delivered EXCEPT ![r] =
           [first |-> copied[r][1], second |-> copied[r][2], stamp |-> stamp,
            seq |-> lastSeq[r], taken |-> taken[r],
            lapped |-> advanced >= taken[r] + RingSize - 1]]
    /\ repeats' = [repeats EXCEPT ![r] =
           IF delivered[r].seq # -1 /\ taken[r] = delivered[r].taken
           THEN @ + 1 ELSE 0]
    /\ ForgetLocals(r)
    /\ UNCHANGED lastSeq

-----------------------------------------------------------------------------
WriterStep == \/ CopyInFirst \/ CopyInSecond \/ SetStamp
              \/ AdvanceWriteIdx \/ PublishSeq

ReaderStep(r) == \/ ReadSeq(r) \/ Repaint(r) \/ ReadWriteIdx(r)
                 \/ AcquireFrame(r) \/ SkipFrame(r)
                 \/ CopyOutFirst(r) \/ CopyOutSecond(r) \/ Deliver(r)

Next == WriterStep \/ \E r \in Readers : ReaderStep(r)

Spec == Init /\ [][Next]_vars

\* Writer and followers keep running; nobody is obliged to repaint.
FairSpec == /\ Spec
            /\ WF_vars(WriterStep)
            /\ \A r \in Followers : WF_vars(ReaderStep(r))

-----------------------------------------------------------------------------
TypeOK ==
    /\ first \in [Slots -> Nat] /\ second \in [Slots -> Nat]
    /\ writeIdx \in Slots /\ seq \in Nat /\ stamp \in Nat
    /\ writerPC \in WriterPCs /\ advanced \in Nat
    /\ readerPC \in [Readers -> ReaderPCs]
    /\ lastSeq \in [Readers -> Nat \cup {-1}]
    /\ idx \in [Readers -> Slots]
    /\ copied \in [Readers -> Nat \X Nat]
    /\ taken \in [Readers -> Nat]
    /\ delivered \in [Readers -> Deliveries]
    /\ repeats \in [Readers -> Nat]

\* A reader that is not lapped delivers a whole frame, the newest there was
\* when it read write_idx: neither the frame being written next to it nor the
\* gap between write_idx and seq (shm.c:55-56) can tear it.
WholeUnlessLapped ==
    \A r \in Readers :
        LET d == delivered[r]
        IN  ~d.lapped => d.first = d.taken /\ d.second = d.taken

\* No half of a delivered frame, torn or not, is older than the sequence number
\* it is delivered under: write_idx moves before seq does (shm.c:55).
NeverOlderThanSeq ==
    \A r \in Readers :
        LET d == delivered[r] IN d.first >= d.seq /\ d.second >= d.seq

\* The time stamp of a frame delivered whole is its own or a newer one, though
\* it is read after the copy (K4WDriver.cpp:129).
StampNotOlder ==
    \A r \in Readers :
        LET d == delivered[r] IN ~d.lapped => d.stamp >= d.taken

\* A follower delivers one frame up to three times under different sequence
\* numbers, since write_idx is read later than seq and moves earlier; never
\* more often.
AtMostThreeTimes == \A r \in Followers : repeats[r] <= 2

\* What a reader shows never goes back in time while it is not lapped.
NeverBackwards ==
    [][\A r \in Readers :
           ~delivered[r].lapped /\ ~delivered'[r].lapped
               => delivered'[r].first >= delivered[r].second]_vars

\* The segment is a mailbox with room for RingSize - 1 missed publications.
Mailbox == INSTANCE FrameMailbox WITH
    Slack <- RingSize - 1,
    latest <- advanced,
    held <- [r \in Readers |->
                IF readerPC[r] \in {"acquire", "copyFirst", "copySecond",
                                    "deliver"}
                THEN taken[r] ELSE -1],
    shown <- [r \in Readers |-> <<delivered[r].first, delivered[r].second>>]

ImplementsMailbox == Mailbox!MailboxSpec

\* When the writer pauses, every follower has noticed the last frame.  Whether
\* it delivers it depends on acquireFrame (K4WDriver.cpp:101, 111).
FollowersCatchUp == \A r \in Followers : <>(lastSeq[r] = MaxFrames)
=============================================================================
