------------------------------ MODULE PollLoop ------------------------------
(***************************************************************************)
(* The main thread: main() of main.c from k4w_kinect_init to its return,   *)
(* the polling loop k4w_kinect_run and the shutdown k4w_kinect_stop of     *)
(* kinect.c, and the signal handler, which interrupts it anywhere.         *)
(***************************************************************************)
EXTENDS DaemonState

MainGoto(from, to) == mainPC = from /\ mainPC' = to

MainFrame ==
    /\ UNCHANGED <<motorPaused, gAudioPaused, gAudioDropped>>
    /\ UNCHANGED <<pcm, cardBound, motorHeld, wasPaused, retry, polls, ops>>
    /\ UNCHANGED <<acked, mainParked, stopAsked>>

MainLocals == <<wasMotorPaused, consecutiveErrors, deviceOk>>

\* A step that only moves the program counter.
MainMoves ==
    /\ UNCHANGED <<gRunning, running, gAudioRunning, syncOn, MainLocals>>
    /\ UNCHANGED <<audioPC, cmdPC, intrusions>>
    /\ MainFrame

\* A call of freenect_sync_get_depth or _get_video: it opens the device if sync
\* does not hold it, and a call made while motor_paused is set is an intrusion.
SyncCall(ok) ==
    /\ syncOn' = (ok \/ syncOn)
    /\ intrusions' = IF motorPaused THEN intrusions + 1 ELSE intrusions

-----------------------------------------------------------------------------
(* Start-up *)

\* The Kinect answers the depth test and the SHM segments are created.  If it
\* never answers, each attempt ends with freenect_sync_stop; if a segment
\* cannot be created, main() returns 1 with sync on.
MainInit ==
    /\ \/ MainGoto("init", "setRunning") /\ syncOn' = TRUE
       \/ MainGoto("init", "failed") /\ syncOn' \in BOOLEAN
    /\ UNCHANGED <<gRunning, running, gAudioRunning, MainLocals, audioPC,
                   cmdPC, intrusions>>
    /\ MainFrame

\* The last thing k4w_kinect_init does, whatever a signal has done by then.
MainSetRunning ==
    /\ MainGoto("setRunning", "startAudio")
    /\ running' = TRUE
    /\ UNCHANGED <<gRunning, gAudioRunning, syncOn, MainLocals, audioPC,
                   cmdPC, intrusions>>
    /\ MainFrame

\* The audio thread is created unless audio is off or has nowhere to go.
MainStartAudio ==
    /\ MainGoto("startAudio", "startSocket")
    /\ audioPC' \in {"none", "rebind"}
    /\ UNCHANGED <<gRunning, running, gAudioRunning, syncOn, MainLocals,
                   cmdPC, intrusions>>
    /\ MainFrame

\* The command thread is created unless the socket could not be set up.
MainStartSocket ==
    /\ MainGoto("startSocket", "loopTop")
    /\ cmdPC' \in {"none", "top"}
    /\ UNCHANGED <<gRunning, running, gAudioRunning, syncOn, MainLocals,
                   audioPC,
                   intrusions>>
    /\ MainFrame

-----------------------------------------------------------------------------
(* k4w_kinect_run *)

MainLoopTop ==
    /\ IF running THEN MainGoto("loopTop", "checkPaused")
                  ELSE MainGoto("loopTop", "loopExit")
    /\ MainMoves

\* Mutant: motor_paused is not looked at.
MainNeverParks ==
    /\ MainGoto("checkPaused", "depth")
    /\ MainMoves

\* While motor_paused the loop only sleeps; afterwards it forgets its errors.
MainCheckPaused ==
    /\ \/ /\ motorPaused
          /\ MainGoto("checkPaused", "loopTop")
          /\ wasMotorPaused' = TRUE
          /\ UNCHANGED consecutiveErrors
       \/ /\ ~motorPaused
          /\ MainGoto("checkPaused", "depth")
          /\ wasMotorPaused' = FALSE
          /\ consecutiveErrors' =
                 IF wasMotorPaused THEN 0 ELSE consecutiveErrors
    /\ UNCHANGED <<gRunning, running, gAudioRunning, syncOn, deviceOk, audioPC,
                   cmdPC, intrusions>>
    /\ MainFrame

MainDepthOk ==
    /\ MainGoto("depth", "video")
    /\ SyncCall(TRUE)
    /\ consecutiveErrors' = 0
    /\ deviceOk' = TRUE
    /\ UNCHANGED <<gRunning, running, gAudioRunning, wasMotorPaused, audioPC,
                   cmdPC>>
    /\ MainFrame

\* Mutant: the error counter has no limit.
MainDepthErrorUnlimited ==
    /\ MainGoto("depth", "video")
    /\ SyncCall(FALSE)
    /\ consecutiveErrors' = consecutiveErrors + 1
    /\ UNCHANGED <<gRunning, running, gAudioRunning, wasMotorPaused, deviceOk,
                   audioPC, cmdPC>>
    /\ MainFrame

MainDepthError ==
    /\ consecutiveErrors < MaxErrors
    /\ MainGoto("depth", "video")
    /\ SyncCall(FALSE)
    /\ consecutiveErrors' = consecutiveErrors + 1
    /\ UNCHANGED <<gRunning, running, gAudioRunning, wasMotorPaused, deviceOk,
                   audioPC, cmdPC>>
    /\ MainFrame

\* The error that exceeds the limit: sync is stopped the first time only.
MainDeviceLost ==
    /\ consecutiveErrors = MaxErrors
    /\ MainGoto("depth", "loopTop")
    /\ syncOn' = (syncOn /\ ~deviceOk)
    /\ intrusions' = IF motorPaused THEN intrusions + 1 ELSE intrusions
    /\ deviceOk' = FALSE
    /\ consecutiveErrors' = 0
    /\ UNCHANGED <<gRunning, running, gAudioRunning, wasMotorPaused, audioPC,
                   cmdPC>>
    /\ MainFrame

MainVideo ==
    /\ MainGoto("video", "loopTop")
    /\ \E ok \in BOOLEAN : SyncCall(ok)
    /\ UNCHANGED <<gRunning, running, gAudioRunning, MainLocals, audioPC,
                   cmdPC>>
    /\ MainFrame

MainLoopExit ==
    /\ MainGoto("loopExit", "clearG")
    /\ syncOn' = FALSE
    /\ UNCHANGED <<gRunning, running, gAudioRunning, MainLocals, audioPC,
                   cmdPC, intrusions>>
    /\ MainFrame

-----------------------------------------------------------------------------
(* Shutdown *)

MainClearG ==
    /\ MainGoto("clearG", "stop")
    /\ gRunning' = FALSE
    /\ UNCHANGED <<running, gAudioRunning, syncOn, MainLocals, audioPC,
                   cmdPC, intrusions>>
    /\ MainFrame

MainStop ==
    /\ MainGoto("stop", "stopAudio")
    /\ running' = FALSE
    /\ UNCHANGED <<gRunning, gAudioRunning, syncOn, MainLocals, audioPC,
                   cmdPC, intrusions>>
    /\ MainFrame

\* Mutant: g_audio_running is left set.
MainStopForgetsAudio ==
    /\ MainGoto("stopAudio", "joinAudio")
    /\ MainMoves

MainStopAudio ==
    /\ MainGoto("stopAudio", "joinAudio")
    /\ gAudioRunning' = FALSE
    /\ UNCHANGED <<gRunning, running, syncOn, MainLocals, audioPC,
                   cmdPC, intrusions>>
    /\ MainFrame

\* pthread_join(g_audio_tid), skipped when the thread was never created.
MainJoinAudio ==
    /\ audioPC \in {"none", "done"}
    /\ MainGoto("joinAudio", "release")
    /\ MainMoves

\* Sync, V4L2, PulseAudio and the SHM segments, then the listening socket.
MainRelease ==
    /\ MainGoto("release", "joinCmd")
    /\ syncOn' = FALSE
    /\ UNCHANGED <<gRunning, running, gAudioRunning, MainLocals, audioPC,
                   cmdPC, intrusions>>
    /\ MainFrame

\* Mutant: the command thread is not waited for.
MainSkipsJoinCmd ==
    /\ MainGoto("joinCmd", "exited")
    /\ MainMoves

MainJoinCmd ==
    /\ cmdPC \in {"none", "done"}
    /\ MainGoto("joinCmd", "exited")
    /\ MainMoves

-----------------------------------------------------------------------------
\* sig_handler: SIGINT or SIGTERM, at any time until the process has ended.
Signal ==
    /\ mainPC \notin {"failed", "exited"}
    /\ gRunning' = FALSE
    /\ running' = FALSE
    /\ stopAsked' = (stopAsked \/ mainPC \notin {"init", "setRunning"})
    /\ UNCHANGED <<motorPaused, gAudioRunning, gAudioPaused, gAudioDropped>>
    /\ UNCHANGED <<devices, mainVars, audioVars, cmdVars>>
    /\ UNCHANGED <<acked, mainParked, intrusions>>

MainStart == \/ MainInit \/ MainSetRunning \/ MainStartAudio \/ MainStartSocket
MainPoll == \/ MainLoopTop \/ MainCheckPaused \/ MainDepthOk \/ MainDepthError
            \/ MainDeviceLost \/ MainVideo \/ MainLoopExit
MainShutdown == \/ MainClearG \/ MainStop \/ MainStopAudio \/ MainJoinAudio
                \/ MainRelease \/ MainJoinCmd

MainNext == MainStart \/ MainPoll \/ MainShutdown
=============================================================================
