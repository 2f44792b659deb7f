------------------------------- MODULE Daemon -------------------------------
(***************************************************************************)
(* The k4wd process: its three threads, interleaved at every access to a   *)
(* shared flag or device, and the signals that stop it.  One USB device    *)
(* serves camera, microphone and motor, so every motor command must get    *)
(* the other two out of the way first, with three volatile flags and no    *)
(* lock; the properties say how far that hand-over can be relied on.       *)
(***************************************************************************)
EXTENDS AudioThread, PollLoop, CommandThread

Init ==
    /\ gRunning = TRUE /\ running = FALSE /\ motorPaused = FALSE
    /\ gAudioRunning = FALSE /\ gAudioPaused = FALSE /\ gAudioDropped = FALSE
    /\ pcm = "null" /\ cardBound \in BOOLEAN /\ syncOn = FALSE
    /\ motorHeld = FALSE
    /\ mainPC = "init" /\ wasMotorPaused = FALSE
    /\ consecutiveErrors = 0 /\ deviceOk = TRUE
    /\ audioPC = "none" /\ wasPaused = FALSE /\ retry = 0
    /\ cmdPC = "none" /\ polls = 0 /\ ops = 0
    /\ acked = FALSE /\ mainParked = FALSE /\ intrusions = 0
    /\ stopAsked = FALSE

Next == AudioNext \/ MainNext \/ CmdNext \/ Signal

\* Each thread is scheduled again and again, and every call it makes returns:
\* ALSA reads end with samples or an error, libusb transfers have timeouts,
\* and a client that connects sends its 8 bytes or closes (socket.c:33 has no
\* timeout of its own).  No client and no signal is ever obliged to come.
Fairness == /\ WF_vars(AudioNext)
            /\ WF_vars(MainNext)
            /\ WF_vars(CmdProgress)

Spec == Init /\ [][Next]_vars
FairSpec == Spec /\ Fairness

\* The process has ended.
Terminated == mainPC \in {"failed", "exited"}

Stopping == mainPC \in StoppingPCs

-----------------------------------------------------------------------------
(* Safety *)

\* Until shutdown clears g_audio_running, neither thread hands ALSA a handle
\* that is NULL or that the other thread has closed: the drop flag alone keeps
\* k4w_kinect_audio_pause (kinect.c:306) from closing the handle under a
\* capture, a drop or a reopening in the audio thread.
PcmNeverUsedAfterClose ==
    ~Stopping =>
        /\ audioPC \in AudioUsePCs => pcm = "open"
        /\ cmdPC = "closePcm" => pcm = "open" /\ audioPC \notin AudioUsePCs

\* Until shutdown, the audio thread never opens ALSA over a handle it still
\* has: neither the start nor the retries of the resume leak one.
NoHandleLeaked ==
    ~Stopping /\ audioPC \in {"open", "reopen"} => pcm = "null"

\* When the pause did see the drop and closed ALSA (kinect.c:306), ALSA stays
\* closed and the audio thread stays out of it for all of the motor calls, the
\* two of a descending tilt included.
AckedPauseKeepsAlsaClosed ==
    ~Stopping /\ acked /\ cmdPC \in MotorSection =>
        pcm = "null" /\ audioPC \notin AudioUsePCs

\* When the main loop was at its top as freenect_sync_stop was called
\* (kinect.c:313), sync stays stopped for all of the motor calls.
ParkedMainKeepsSyncStopped ==
    mainParked /\ cmdPC \in MotorSection => ~syncOn

\* However late the main loop notices motor_paused, it makes at most one depth
\* and one video call in that pause (kinect.c:437 and 465).
AtMostTwoIntrusions == motorPaused => intrusions <= 2

\* A shutdown, from the end of k4w_kinect_run to main()'s return 0, has closed
\* ALSA, sync and the motor, although the command thread is joined after
\* k4w_kinect_stop (main.c:141) and may have been in the middle of a command.
\* It says nothing of a start that fails: see FailedStartReleasesSync.
CleanShutdown == mainPC = "exited" => pcm = "null" /\ ~syncOn /\ ~motorHeld

\* PulseAudio and the SHM segments are torn down (kinect.c:525) only when the
\* audio thread can no longer write to them.
NoWriterAtRelease ==
    mainPC \in {"release", "joinCmd", "exited"} => audioPC \in {"none", "done"}

-----------------------------------------------------------------------------
(* Liveness *)

\* Every motor command is answered, whatever the audio thread does or does not
\* do: the wait for the drop is bounded (kinect.c:304).
CommandsAreAnswered == cmdPC = "pause" ~> cmdPC = "reply"

\* Once clients stop sending motor commands, the audio thread leaves the paused
\* state for good: a pause it notices late, or a drop it acknowledges late,
\* does not leave it waiting for ever.  After ten failed reopenings it goes on
\* without a handle (kinect.c:245-252), and this does not say otherwise.
AudioResumes ==
    <>[](cmdPC \in {"none", "top", "select", "recv", "reply", "done"})
        => <>[](audioPC = "done" \/ ~wasPaused)

\* The start-up of the audio thread is over, or will never begin.
AudioSettled == mainPC \notin StartPCs /\ audioPC \notin AudioStartPCs

\* A signal ends the process if the audio thread is past its start-up before
\* k4w_kinect_stop (kinect.c:511) tells it to stop.
StopWorksOnceAudioRuns ==
    stopAsked /\ AudioSettled /\ ~Stopping ~> mainPC = "exited"

-----------------------------------------------------------------------------
(* What one would expect, or a comment of kinect.c says, and is not so *)

\* The error path of a segment that cannot be created (kinect.c:373-386) does
\* not stop the sync that the depth test before it started.
FailedStartReleasesSync == mainPC = "failed" => ~syncOn

\* kinect.c:311 "Stop freenect_sync to release ALL USB interfaces on 02bb";
\* kinect.c:301 "Set motor_paused flag to stop main loop from re-opening
\* devices"
SyncStoppedForMotor == cmdPC \in MotorSection => ~syncOn

\* kinect.c:513 "Stop audio thread first"
StopEndsDaemon == stopAsked ~> mainPC = "exited"
=============================================================================
