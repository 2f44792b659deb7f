--------------------------- MODULE CommandThread ---------------------------
(***************************************************************************)
(* The command thread: socket_thread of main.c, k4w_socket_handle of       *)
(* socket.c, and the functions it calls around every motor command,        *)
(* k4w_kinect_audio_pause and k4w_kinect_audio_resume of kinect.c, with    *)
(* the opening and closing of the motor device of motor.c.                 *)
(***************************************************************************)
EXTENDS DaemonState

CmdGoto(from, to) == cmdPC = from /\ cmdPC' = to

CmdFrame ==
    /\ UNCHANGED <<gRunning, running, gAudioRunning>>
    /\ UNCHANGED <<mainVars, audioVars, stopAsked>>

CmdFlags == <<motorPaused, gAudioPaused, gAudioDropped>>
CmdAux == <<acked, mainParked, intrusions>>

\* A step that only moves the program counter.
CmdMoves == UNCHANGED <<CmdFlags, devices, polls, ops, CmdAux>> /\ CmdFrame

-----------------------------------------------------------------------------
(* socket_thread *)

\* while (g_running): one select, with a timeout of a second
CmdTop ==
    /\ IF gRunning THEN CmdGoto("top", "select") ELSE CmdGoto("top", "done")
    /\ CmdMoves

CmdSelectTimeout ==
    /\ CmdGoto("select", "top")
    /\ CmdMoves

CmdAccept ==
    /\ CmdGoto("select", "recv")
    /\ CmdMoves

\* A short message is dropped, STATUS is answered at once, and the motor
\* commands (TILT, LED, ACCEL, MOTOR_INFO) begin with a pause.
CmdReceive ==
    /\ \/ CmdGoto("recv", "top")
       \/ CmdGoto("recv", "reply")
       \/ CmdGoto("recv", "pause")
    /\ CmdMoves

CmdReply ==
    /\ CmdGoto("reply", "top")
    /\ CmdMoves

-----------------------------------------------------------------------------
(* k4w_kinect_audio_pause *)

CmdPause ==
    /\ CmdGoto("pause", "clearAck")
    /\ gAudioPaused' = TRUE
    /\ UNCHANGED <<motorPaused, gAudioDropped, devices, polls, ops, CmdAux>>
    /\ CmdFrame

\* The flag is cleared after the request is visible to the audio thread.
CmdClearAck ==
    /\ CmdGoto("clearAck", "setMotor")
    /\ gAudioDropped' = FALSE
    /\ UNCHANGED <<motorPaused, gAudioPaused, devices, polls, ops, CmdAux>>
    /\ CmdFrame

CmdSetMotor ==
    /\ CmdGoto("setMotor", "waitAck")
    /\ motorPaused' = TRUE
    /\ polls' = PausePolls
    /\ UNCHANGED <<gAudioPaused, gAudioDropped, devices, ops, CmdAux>>
    /\ CmdFrame

\* Mutant: the wait for the drop has no limit.
CmdWaitAckForever ==
    /\ gAudioDropped
    /\ CmdGoto("waitAck", "checkAck")
    /\ polls' = 0
    /\ UNCHANGED <<CmdFlags, devices, ops, CmdAux>>
    /\ CmdFrame

\* for (i < 60 && !g_audio_dropped): the wait ends without the drop, too.
CmdWaitAck ==
    /\ \/ /\ polls > 0 /\ ~gAudioDropped
          /\ CmdGoto("waitAck", "waitAck")
          /\ polls' = polls - 1
       \/ /\ polls = 0 \/ gAudioDropped
          /\ CmdGoto("waitAck", "checkAck")
          /\ polls' = 0
    /\ UNCHANGED <<CmdFlags, devices, ops, CmdAux>>
    /\ CmdFrame

\* Mutant: ALSA is closed whether or not the capture was dropped.
CmdCheckPcmOnly ==
    /\ acked' = (pcm # "null" /\ gAudioDropped)
    /\ IF pcm # "null" THEN CmdGoto("checkAck", "closePcm")
                       ELSE CmdGoto("checkAck", "stopSync")
    /\ UNCHANGED <<CmdFlags, devices, polls, ops, mainParked, intrusions>>
    /\ CmdFrame

\* if (g_pcm && g_audio_dropped)
CmdCheckAck ==
    /\ acked' = (pcm # "null" /\ gAudioDropped)
    /\ IF pcm # "null" /\ gAudioDropped
       THEN CmdGoto("checkAck", "closePcm")
       ELSE CmdGoto("checkAck", "stopSync")
    /\ UNCHANGED <<CmdFlags, devices, polls, ops, mainParked, intrusions>>
    /\ CmdFrame

CmdClosePcm ==
    /\ CmdGoto("closePcm", "nullPcm")
    /\ pcm' = "freed"
    /\ UNCHANGED <<CmdFlags, cardBound, syncOn, motorHeld, polls, ops, CmdAux>>
    /\ CmdFrame

\* Mutant: the audio thread is let go as soon as ALSA is closed.
CmdNullPcmUnpauses ==
    /\ CmdGoto("nullPcm", "stopSync")
    /\ pcm' = "null"
    /\ gAudioPaused' = FALSE
    /\ UNCHANGED <<motorPaused, gAudioDropped, cardBound, syncOn, motorHeld>>
    /\ UNCHANGED <<polls, ops, CmdAux>>
    /\ CmdFrame

CmdNullPcm ==
    /\ CmdGoto("nullPcm", "stopSync")
    /\ pcm' = "null"
    /\ UNCHANGED <<CmdFlags, cardBound, syncOn, motorHeld, polls, ops, CmdAux>>
    /\ CmdFrame

\* freenect_sync_stop().  A TILT below the current angle will call the motor
\* twice, every other command once.
CmdStopSync ==
    /\ CmdGoto("stopSync", "motorOpen")
    /\ syncOn' = FALSE
    /\ mainParked' = (mainPC \in {"loopTop", "checkPaused"})
    /\ ops' \in {1, 2}
    /\ UNCHANGED <<CmdFlags, pcm, cardBound, motorHeld, polls, acked,
                   intrusions>>
    /\ CmdFrame

-----------------------------------------------------------------------------
(* One call of k4w_motor_set_tilt, set_led, get_tilt or get_accel *)

NextMotorCall ==
    \/ ops = 2 /\ ops' = 1 /\ cmdPC' = "motorOpen"
    \/ ops # 2 /\ ops' = 0 /\ cmdPC' = "resume"

\* Every kernel driver is detached, the ALSA card with it, before the claim.
MotorOpen ==
    /\ CmdGoto("motorOpen", "motorMove")
    /\ cardBound' = FALSE
    /\ motorHeld' = TRUE
    /\ UNCHANGED <<CmdFlags, pcm, syncOn, polls, ops, CmdAux>>
    /\ CmdFrame

\* The device is not there, or five claims failed after the detaching.
MotorOpenFails ==
    /\ cmdPC = "motorOpen"
    /\ NextMotorCall
    /\ cardBound' \in {cardBound, FALSE}
    /\ UNCHANGED <<CmdFlags, pcm, syncOn, motorHeld, polls, CmdAux>>
    /\ CmdFrame

\* The transfers, whose results do not matter here, and motor_close_device.
MotorTransferAndClose ==
    /\ cmdPC = "motorMove"
    /\ NextMotorCall
    /\ motorHeld' = FALSE
    /\ UNCHANGED <<CmdFlags, pcm, cardBound, syncOn, polls, CmdAux>>
    /\ CmdFrame

-----------------------------------------------------------------------------
(* k4w_kinect_audio_resume *)

\* The history of the pause ends with it.
CmdResume ==
    /\ CmdGoto("resume", "rebind")
    /\ motorPaused' = FALSE
    /\ acked' = FALSE
    /\ mainParked' = FALSE
    /\ intrusions' = 0
    /\ UNCHANGED <<gAudioPaused, gAudioDropped, devices, polls, ops>>
    /\ CmdFrame

\* The interfaces are bound again, unless writing to sysfs fails.
CmdRebind ==
    /\ CmdGoto("rebind", "unpause")
    /\ cardBound' \in {cardBound, TRUE}
    /\ UNCHANGED <<CmdFlags, pcm, syncOn, motorHeld, polls, ops, CmdAux>>
    /\ CmdFrame

CmdUnpause ==
    /\ CmdGoto("unpause", "reply")
    /\ gAudioPaused' = FALSE
    /\ UNCHANGED <<motorPaused, gAudioDropped, devices, polls, ops, CmdAux>>
    /\ CmdFrame

-----------------------------------------------------------------------------
PauseSteps == \/ CmdPause \/ CmdClearAck \/ CmdSetMotor \/ CmdWaitAck
              \/ CmdCheckAck \/ CmdClosePcm \/ CmdNullPcm \/ CmdStopSync
MotorSteps == MotorOpen \/ MotorOpenFails \/ MotorTransferAndClose
ResumeSteps == CmdResume \/ CmdRebind \/ CmdUnpause

\* Everything the thread does by itself; a client decides when CmdAccept is.
CmdProgress == \/ CmdTop \/ CmdSelectTimeout \/ CmdReceive \/ CmdReply
               \/ PauseSteps \/ MotorSteps \/ ResumeSteps

CmdNext == CmdProgress \/ CmdAccept
=============================================================================
