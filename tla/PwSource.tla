------------------------------ MODULE PwSource ------------------------------
(***************************************************************************)
(* pw_source.c: the virtual camera in PipeWire.  PipeWire's own loop       *)
(* thread runs on_process, which copies the frame buffer to a consumer;    *)
(* main's thread sets the stream up, converts frames into the buffer and   *)
(* tears everything down, without the lock of the loop.  A frame is its    *)
(* number, and both copies go over the buffer's two halves one by one.     *)
(* One size is offered and so one is negotiated: on_param_changed sets     *)
(* what is set already.                                                    *)
(***************************************************************************)
EXTENDS Naturals

CONSTANT MaxPushed \* bound on the frames pushed in one run, for TLC

ASSUME PwAssumption == MaxPushed \in Nat \ {0}

VARIABLES
    pwLoop,   \* s_loop: "none", "made", "running"
    pwContext,
    pwStream, \* s_stream: "null", "live", or "freed": destroyed and not NULL
    pwBuffer, \* s_frame_buf: "none", "live", "freed"
    bufFirst, bufSecond, \* frames in the halves of the buffer
    pushed,   \* frames converted into the buffer
    \* ---- the loop thread
    loopPC,
    got,      \* frame in the first half it copied
    badRead,  \* history: it read the buffer when that was freed
    badCall,  \* history: it used the stream when that was not live
    torn      \* history: worst of "whole", "older" and "wrong", the second
              \* half of a frame compared with its first

pwObjects == <<pwLoop, pwContext, pwStream, pwBuffer>>
pwFrame == <<bufFirst, bufSecond, pushed>>
loopVars == <<loopPC, got, badRead, badCall, torn>>
pwVars == <<pwObjects, pwFrame, loopVars>>

PwInit ==
    /\ pwLoop = "none" /\ pwContext = FALSE
    /\ pwStream = "null" /\ pwBuffer = "none"
    /\ bufFirst = 0 /\ bufSecond = 0 /\ pushed = 0
    /\ loopPC = "idle" /\ got = 0
    /\ badRead = FALSE /\ badCall = FALSE /\ torn = "whole"

-----------------------------------------------------------------------------
(* k4w_pw_source_init: what is made before a failure is destroyed again,   *)
(* the buffer excepted, which waits for k4w_pw_source_stop.                *)

AllocateBuffer ==
    /\ pwBuffer' \in {"live", "none"}
    /\ bufFirst' = 0 /\ bufSecond' = 0 /\ pushed' = 0
    /\ UNCHANGED <<pwLoop, pwContext, pwStream, loopVars>>

\* Loop, context, core, stream: any of them may fail.
MakeObjects(made) ==
    /\ pwLoop' = IF made THEN "made" ELSE "none"
    /\ pwContext' = made
    /\ pwStream' = IF made THEN "live" ELSE "null"
    /\ UNCHANGED <<pwBuffer, pwFrame, loopVars>>

StartLoop ==
    /\ pwLoop' = "running"
    /\ UNCHANGED <<pwContext, pwStream, pwBuffer, pwFrame, loopVars>>

\* Mutant: the loop thread is not joined.
StopLoopAtOnce ==
    /\ pwLoop' = IF pwLoop = "none" THEN "none" ELSE "made"
    /\ UNCHANGED <<pwContext, pwStream, pwBuffer, pwFrame, loopVars>>

\* The loop thread is joined, so a call that is under way comes to its end.
StopLoop ==
    /\ pwLoop = "running" => loopPC = "idle"
    /\ pwLoop' = IF pwLoop = "none" THEN "none" ELSE "made"
    /\ UNCHANGED <<pwContext, pwStream, pwBuffer, pwFrame, loopVars>>

DestroyContext ==
    /\ pwContext' = FALSE
    /\ UNCHANGED <<pwLoop, pwStream, pwBuffer, pwFrame, loopVars>>

DestroyLoop ==
    /\ pwLoop' = "none"
    /\ UNCHANGED <<pwContext, pwStream, pwBuffer, pwFrame, loopVars>>

-----------------------------------------------------------------------------
(* k4w_pw_source_stop *)

DestroyStream ==
    /\ pwStream' = IF pwStream = "live" THEN "freed" ELSE pwStream
    /\ UNCHANGED <<pwLoop, pwContext, pwBuffer, pwFrame, loopVars>>

ForgetStream ==
    /\ pwStream' = "null"
    /\ UNCHANGED <<pwLoop, pwContext, pwBuffer, pwFrame, loopVars>>

FreeBuffer ==
    /\ pwBuffer' = "freed"
    /\ UNCHANGED <<pwLoop, pwContext, pwStream, pwFrame, loopVars>>

ForgetBuffer ==
    /\ pwBuffer' = "none"
    /\ bufFirst' = 0 /\ bufSecond' = 0 /\ pushed' = 0
    /\ badCall' = FALSE /\ torn' = "whole"
    /\ UNCHANGED <<pwLoop, pwContext, pwStream, loopPC, got, badRead>>

-----------------------------------------------------------------------------
(* k4w_pw_source_push_frame *)

Pushing == pwStream # "null" /\ pwBuffer # "none"

PushFirst ==
    /\ pushed < MaxPushed
    /\ IF Pushing THEN bufFirst' = pushed + 1 ELSE UNCHANGED bufFirst
    /\ UNCHANGED <<pwObjects, bufSecond, pushed, loopVars>>

\* Mutant: the rows are counted as if the buffer held half of them.
PushHalf ==
    /\ pushed' = IF Pushing THEN pushed + 1 ELSE pushed
    /\ UNCHANGED <<pwObjects, bufFirst, bufSecond, loopVars>>

PushSecond ==
    /\ IF Pushing THEN bufSecond' = pushed + 1 /\ pushed' = pushed + 1
       ELSE UNCHANGED <<bufSecond, pushed>>
    /\ UNCHANGED <<pwObjects, bufFirst, loopVars>>

-----------------------------------------------------------------------------
(* on_process, on the loop thread *)

LoopGoto(from, to) ==
    /\ loopPC = from /\ loopPC' = to
    /\ UNCHANGED <<pwObjects, pwFrame>>

UseStream == badCall' = (badCall \/ pwStream # "live")
ReadBuffer == badRead' = (badRead \/ pwBuffer = "freed")

\* Only a stream that is live has buffers to process.
Dequeue ==
    /\ pwLoop = "running" /\ pwStream = "live"
    /\ LoopGoto("idle", IF pwBuffer = "none" THEN "queue" ELSE "copyFirst")
    /\ UNCHANGED <<got, badRead, badCall, torn>>

CopyFirstHalf ==
    /\ LoopGoto("copyFirst", "copySecond")
    /\ got' = bufFirst
    /\ ReadBuffer
    /\ UNCHANGED <<badCall, torn>>

CopySecondHalf ==
    /\ LoopGoto("copySecond", "queue")
    /\ got' = 0
    /\ torn' = CASE bufSecond < got - 1 -> "wrong"
                 [] bufSecond = got - 1 /\ torn = "whole" -> "older"
                 [] OTHER -> torn
    /\ ReadBuffer
    /\ UNCHANGED badCall

Queue ==
    /\ LoopGoto("queue", "idle")
    /\ UseStream
    /\ UNCHANGED <<got, badRead, torn>>

LoopThread == Dequeue \/ CopyFirstHalf \/ CopySecondHalf \/ Queue

PwDies ==
    /\ pwLoop' = "none" /\ pwContext' = FALSE /\ pwStream' = "null"
    /\ pwBuffer' = "none" /\ loopPC' = "idle" /\ got' = 0
    /\ bufFirst' = 0 /\ bufSecond' = 0 /\ pushed' = 0
    /\ badRead' = FALSE /\ badCall' = FALSE /\ torn' = "whole"
=============================================================================
