----------------------------- MODULE ShmRestart -----------------------------
(***************************************************************************)
(* The segment of ShmRing across the ends and starts of k4wd, and the      *)
(* thread of an OpenNI2 stream that reads it: k4w_shm_create re-uses and   *)
(* zeroes a segment that a crash left under its name, the thread opens the *)
(* name anew for every frame and compares sequence numbers as int.  What a *)
(* frame shows does not matter here, only whether a slot holds one.        *)
(***************************************************************************)
EXTENDS Integers

CONSTANTS
    Objects,  \* identities of segments, for one without a name as well
    None,
    RingSize, \* K4W_RING_SIZE
    SeqHalf   \* 2^31: from here on a sequence number is negative as an int

ASSUME RestartAssumption ==
    /\ None \notin Objects /\ RingSize \in Nat \ {0} /\ SeqHalf \in Nat \ {0}

VARIABLES
    name,     \* the object that /dev/shm/k4w_depth names, or None
    object,   \* contents of each object
    \* ---- k4wd
    writerPC,
    mapped,   \* the object it maps, or None
    \* ---- the stream
    running,  \* m_running
    readerPC, view, lastSeq, idx, got,
    disturbed \* history: a daemon zeroed the object since the thread looked

segments == <<name, object>>
writer == <<writerPC, mapped>>
iteration == <<view, idx, got, disturbed>>
locals == <<lastSeq, iteration>>
reader == <<running, readerPC, locals>>
vars == <<segments, writer, reader>>

Slots == 0..(RingSize - 1)
Zeroed == [magic |-> FALSE, w |-> FALSE, writeIdx |-> 0, seq |-> 0,
           filled |-> {}]

Int32(n) == IF n < SeqHalf THEN n ELSE n - 2 * SeqHalf

Init ==
    /\ name = None /\ object = [o \in Objects |-> Zeroed]
    /\ writerPC = "down" /\ mapped = None
    /\ running = FALSE /\ readerPC = "none" /\ lastSeq = -1
    /\ view = None /\ idx = 0 /\ got = FALSE /\ disturbed = FALSE

\* An object that nothing refers to is gone.
Collected(refs) == [o \in Objects |-> IF o \in refs THEN object[o] ELSE Zeroed]

-----------------------------------------------------------------------------
(* k4wd *)

\* shm_open with O_CREAT: the segment that has the name, or a new one
Start ==
    /\ writerPC = "down" /\ writerPC' = "zero"
    /\ IF name # None THEN mapped' = name /\ UNCHANGED name
       ELSE \E o \in Objects \ {view} : mapped' = o /\ name' = o
    /\ UNCHANGED <<object, reader>>

WriterStep(from, to, contents) ==
    /\ writerPC = from /\ writerPC' = to
    /\ object' = [object EXCEPT ![mapped] = contents]
    /\ UNCHANGED <<name, mapped>>

\* memset of the whole segment
Zero ==
    /\ WriterStep("zero", "setMagic", Zeroed)
    /\ disturbed' = (disturbed \/ view = mapped)
    /\ UNCHANGED <<running, readerPC, lastSeq, view, idx, got>>

SetMagic ==
    /\ WriterStep("setMagic", "setDims",
           [object[mapped] EXCEPT !.magic = TRUE])
    /\ UNCHANGED reader

SetDims ==
    /\ WriterStep("setDims", "copy", [object[mapped] EXCEPT !.w = TRUE])
    /\ UNCHANGED reader

\* k4w_shm_write_frame
CopyIn ==
    /\ WriterStep("copy", "advance",
           [object[mapped] EXCEPT !.filled = @ \cup {object[mapped].writeIdx}])
    /\ UNCHANGED reader

Advance ==
    /\ WriterStep("advance", "publish",
           [object[mapped] EXCEPT !.writeIdx = (@ + 1) % RingSize])
    /\ UNCHANGED reader

Publish ==
    /\ WriterStep("publish", "copy",
           [object[mapped] EXCEPT !.seq = (@ + 1) % (2 * SeqHalf)])
    /\ UNCHANGED reader

Ends(newName) ==
    /\ writerPC # "down" /\ writerPC' = "down"
    /\ name' = newName /\ mapped' = None
    /\ object' = Collected({newName, view})
    /\ UNCHANGED reader

\* k4w_kinect_stop unlinks the name; a crash leaves it.
Exit == writerPC = "copy" /\ Ends(None)
Crash == Ends(name)

\* The panel's reset and shutdown remove the name after a daemon they killed.
PanelRemoves ==
    /\ writerPC = "down" /\ name # None /\ name' = None
    /\ object' = Collected({view})
    /\ UNCHANGED <<writer, reader>>

-----------------------------------------------------------------------------
(* The stream: its application's start() and stop(), which waits for the   *)
(* thread, and one iteration of the thread                                 *)

StartStream ==
    /\ ~running /\ readerPC = "none"
    /\ running' = TRUE /\ readerPC' = "open"
    /\ UNCHANGED <<segments, writer, locals>>

StopStream ==
    /\ running /\ running' = FALSE
    /\ UNCHANGED <<segments, writer, readerPC, locals>>

ReaderGoto(from, to) ==
    /\ readerPC = from /\ readerPC' = to
    /\ UNCHANGED <<running, writer>>

\* munmap
Unmap ==
    /\ view' = None /\ idx' = 0 /\ got' = FALSE /\ disturbed' = FALSE
    /\ object' = Collected({name, mapped})
    /\ UNCHANGED name

\* while (m_running)
End ==
    /\ ~running /\ ReaderGoto("open", "none")
    /\ lastSeq' = -1
    /\ UNCHANGED <<segments, iteration>>

Open ==
    /\ running /\ name # None /\ ReaderGoto("open", "check")
    /\ view' = name
    /\ UNCHANGED <<segments, lastSeq, idx, got, disturbed>>

Seen == Int32(object[view].seq)

\* Mutant: only a greater number is a new one.
FreshGreater == object[view].magic /\ Seen > lastSeq /\ Seen >= 1

\* Mutant: a segment without a frame is not told apart.
FreshFromZero == object[view].magic /\ Seen # lastSeq

Fresh == object[view].magic /\ Seen # lastSeq /\ Seen >= 1

TakeNumber ==
    /\ readerPC = "check" /\ Fresh /\ ReaderGoto("check", "index")
    /\ lastSeq' = Seen
    /\ UNCHANGED <<segments, iteration>>

NothingNew ==
    /\ readerPC = "check" /\ ~Fresh /\ ReaderGoto("check", "open")
    /\ Unmap /\ UNCHANGED lastSeq

ReadIndex ==
    /\ ReaderGoto("index", "dims")
    /\ idx' = (object[view].writeIdx + RingSize - 1) % RingSize
    /\ UNCHANGED <<segments, lastSeq, view, got, disturbed>>

HasDims ==
    /\ readerPC = "dims" /\ object[view].w /\ ReaderGoto("dims", "copy")
    /\ UNCHANGED <<segments, locals>>

\* A width of zero drops the frame, whose number is used up.
NoDims ==
    /\ readerPC = "dims" /\ ~object[view].w /\ ReaderGoto("dims", "open")
    /\ Unmap /\ UNCHANGED lastSeq

CopyOut ==
    /\ ReaderGoto("copy", "raise")
    /\ got' = (idx \in object[view].filled)
    /\ UNCHANGED <<segments, lastSeq, view, idx, disturbed>>

\* raiseNewFrame has returned.
Raised ==
    /\ ReaderGoto("raise", "open")
    /\ Unmap /\ UNCHANGED lastSeq

-----------------------------------------------------------------------------
WriterRuns == \/ Zero \/ SetMagic \/ SetDims \/ CopyIn \/ Advance \/ Publish
DaemonLife == Start \/ Exit \/ Crash \/ PanelRemoves
Application == StartStream \/ StopStream
ThreadRuns == \/ End \/ Open \/ TakeNumber \/ NothingNew \/ ReadIndex
              \/ HasDims \/ NoDims \/ CopyOut \/ Raised

Next == WriterRuns \/ DaemonLife \/ Application \/ ThreadRuns

Spec == Init /\ [][Next]_vars

\* k4wd finishes what it began with a frame, the thread goes on.  No frame,
\* start or end is obliged to come.
FairSpec ==
    /\ Spec
    /\ WF_vars(Zero \/ SetMagic \/ SetDims \/ Advance \/ Publish)
    /\ WF_vars(ThreadRuns)

-----------------------------------------------------------------------------
\* The variables keep to their types, and the ring's index to the ring
\* (k4w_shm_write_frame, mainloop).
TypeOK ==
    /\ name \in Objects \cup {None} /\ mapped \in Objects \cup {None}
    /\ object \in [Objects -> [magic : BOOLEAN, w : BOOLEAN, writeIdx : Slots,
                               seq : 0..(2 * SeqHalf - 1),
                               filled : SUBSET Slots]]
    /\ writerPC \in {"down", "zero", "setMagic", "setDims", "copy", "advance",
                     "publish"}
    /\ running \in BOOLEAN
    /\ readerPC \in {"none", "open", "check", "index", "dims", "copy", "raise"}
    /\ lastSeq \in -SeqHalf..(SeqHalf - 1)
    /\ view \in Objects \cup {None} /\ idx \in Slots
    /\ got \in BOOLEAN /\ disturbed \in BOOLEAN

\* What a stream raises is a frame and never the zeroes of a segment in the
\* making, whatever k4wd left behind and started over (shm.c:36), unless it
\* started over in the middle of the iteration.
NoBlankFrames == readerPC = "raise" /\ ~disturbed => got

\* The number of the last frame of a daemon that waits for its camera
LastFrame == IF writerPC = "copy" THEN Int32(object[mapped].seq) ELSE 0

\* A stream follows k4wd through crashes and restarts, over segments left
\* behind and removed, and past the change of sign of the sequence number
\* (K4WDriver.cpp:98): when frames stop coming it has noticed the last one,
\* unless its number is not positive as an int.
StreamFollowsRestarts ==
    <>[](writerPC = "copy" /\ running)
        => <>[](LastFrame >= 1 => lastSeq = LastFrame)
=============================================================================
