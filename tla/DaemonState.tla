---------------------------- MODULE DaemonState ----------------------------
(***************************************************************************)
(* The state that the three threads of k4wd share, and the program counter *)
(* and locals of each thread.  The threads are in modules of their own:    *)
(*   PollLoop       main() and k4w_kinect_init/run/stop                    *)
(*   AudioThread    audio_thread_func                                      *)
(*   CommandThread  socket_thread, k4w_socket_handle, pause and resume     *)
(* and Daemon composes them.  A program counter names the statement that   *)
(* runs next; one action is one access to a shared variable or device.     *)
(***************************************************************************)
EXTENDS Naturals

CONSTANTS
    PausePolls,    \* waits for the drop in a pause (60 in the code)
    ReopenRetries, \* attempts to reopen ALSA (10 in the code)
    MaxErrors      \* depth errors in a row that are let pass (30)

ASSUME BoundsAssumption ==
    /\ PausePolls \in Nat
    /\ ReopenRetries \in Nat \ {0}
    /\ MaxErrors \in Nat

VARIABLES
    \* ---- flags that the threads use to signal each other
    gRunning,      \* g_running of main.c
    running,       \* g_state.running
    motorPaused,   \* g_state.motor_paused
    gAudioRunning, \* g_audio_running
    gAudioPaused,  \* g_audio_paused
    gAudioDropped, \* g_audio_dropped
    \* ---- devices
    pcm,           \* g_pcm: NULL, an open handle, or a handle already closed
    cardBound,     \* snd-usb-audio is bound: the Kinect's ALSA card exists
    syncOn,        \* freenect_sync holds the USB device
    motorHeld,     \* motor_open_device has claimed IF0 and IF1
    \* ---- main thread
    mainPC, wasMotorPaused, consecutiveErrors, deviceOk,
    \* ---- audio thread
    audioPC, wasPaused, retry,
    \* ---- command thread; ops counts the motor calls left in the handler
    cmdPC, polls, ops,
    \* ---- history, read by properties only
    acked,         \* this pause found the capture dropped and closed ALSA
    mainParked,    \* this pause stopped sync with the main loop at its top
    intrusions,    \* sync calls the main loop made since motor_paused was set
    stopAsked      \* a signal arrived after k4w_kinect_init had set running

flags    == <<gRunning, running, motorPaused, gAudioRunning, gAudioPaused,
              gAudioDropped>>
devices  == <<pcm, cardBound, syncOn, motorHeld>>
mainVars == <<mainPC, wasMotorPaused, consecutiveErrors, deviceOk>>
audioVars == <<audioPC, wasPaused, retry>>
cmdVars  == <<cmdPC, polls, ops>>
history  == <<acked, mainParked, intrusions, stopAsked>>
vars     == <<flags, devices, mainVars, audioVars, cmdVars, history>>

PcmStates == {"null", "open", "freed"}

StartPCs == {"init", "setRunning", "startAudio", "startSocket"}
LoopPCs  == {"loopTop", "checkPaused", "depth", "video"}
\* k4w_kinect_stop has cleared g_audio_running
StoppingPCs == {"joinAudio", "release", "joinCmd", "exited"}
MainPCs  == StartPCs \cup LoopPCs \cup StoppingPCs
              \cup {"failed", "loopExit", "clearG", "stop", "stopAudio"}

AudioStartPCs == {"rebind", "open", "configure", "setRunning"}
AudioExitPCs == {"exitCheck", "exitClose", "exitNull"}
AudioPCs == AudioStartPCs \cup AudioExitPCs
              \cup {"none", "loop", "check", "pausedBranch", "drop", "ack",
                    "resumeBranch", "closeOld", "nullOld", "reopen",
                    "reconfigure", "hasPcm", "read", "done"}

\* The audio thread is about to pass g_pcm to ALSA, or is inside ALSA with it.
AudioUsePCs == {"configure", "drop", "closeOld", "reconfigure", "read",
                "exitClose"}

\* Between the end of k4w_kinect_audio_pause and the start of its resume.
MotorSection == {"motorOpen", "motorMove"}
CmdPCs == MotorSection \cup
            {"none", "top", "select", "recv", "pause", "clearAck", "setMotor",
             "waitAck", "checkAck", "closePcm", "nullPcm", "stopSync",
             "resume", "rebind", "unpause", "reply", "done"}

FlagsTyped ==
    /\ gRunning \in BOOLEAN /\ running \in BOOLEAN /\ motorPaused \in BOOLEAN
    /\ gAudioRunning \in BOOLEAN /\ gAudioPaused \in BOOLEAN
    /\ gAudioDropped \in BOOLEAN
    /\ cardBound \in BOOLEAN /\ syncOn \in BOOLEAN /\ motorHeld \in BOOLEAN
    /\ wasMotorPaused \in BOOLEAN /\ deviceOk \in BOOLEAN
    /\ wasPaused \in BOOLEAN
    /\ acked \in BOOLEAN /\ mainParked \in BOOLEAN /\ stopAsked \in BOOLEAN

CountersTyped ==
    /\ pcm \in PcmStates
    /\ mainPC \in MainPCs /\ consecutiveErrors \in 0..MaxErrors
    /\ audioPC \in AudioPCs /\ retry \in 0..(ReopenRetries - 1)
    /\ cmdPC \in CmdPCs /\ polls \in 0..PausePolls /\ ops \in 0..2
    /\ intrusions \in Nat

TypeOK == FlagsTyped /\ CountersTyped
=============================================================================
