----------------------------- MODULE Lifecycle -----------------------------
(***************************************************************************)
(* main() of k4wd from its start to its return, a crash anywhere in        *)
(* between, and the next start: the files and modules it makes, and the    *)
(* parts it sets up and tears down, composed in its order.  The polling of *)
(* the camera, audio and motor are Daemon's; the lock itself is PidLock's. *)
(***************************************************************************)
EXTENDS Firmware, PulseSink, V4l2Out, PwSource

VARIABLES
    mainAt, \* the statement of main() that comes next
    config, \* outputs that are enabled
    files,  \* of k4wd, in /tmp and /dev/shm
    made,   \* those this process made
    crashed \* history: a process of k4wd was killed

parts == <<firmwareVars, pulseVars, v4l2Vars, pwVars>>
lifeVars == <<parts, mainAt, config, files, made, crashed>>

Shm == {"depth", "video", "audio"}
Files == Shm \cup {"pid", "socket"}
Idle == {"off", "exited"}

LifeInit ==
    /\ FirmwareInit /\ mode = "absent"
    /\ PulseInit /\ V4l2Init /\ PwInit
    /\ mainAt = "off" /\ config = {} /\ files = {} /\ made = {}
    /\ crashed = FALSE

At(from, to) ==
    /\ mainAt = from /\ mainAt' = to
    /\ UNCHANGED crashed

FilesAre(s, t) == files' = s /\ made' = t /\ UNCHANGED <<parts, config>>
NoFiles == UNCHANGED <<files, made, config>>

-----------------------------------------------------------------------------
(* Start *)

\* Any Kinect may be plugged in by now; --setup-only takes no lock.
Begin ==
    /\ mainAt \in Idle /\ mainAt' \in {"lock", "setupOnly"}
    /\ mode' \in {"boot", "uac", "absent"}
    /\ attached' = attached /\ memory' = memory /\ expecting' = expecting
    /\ made' = {}
    /\ UNCHANGED <<launched, outOfStep, fwPC, uploadVars, cut, misled>>
    /\ UNCHANGED <<pulseVars, v4l2Vars, pwVars, config, files, crashed>>

Lock == At("lock", "setup") /\ FilesAre(files \cup {"pid"}, {"pid"})

SetupRuns ==
    /\ mainAt \in {"setup", "setupOnly"}
    /\ SetupStep
    /\ UNCHANGED <<pulseVars, v4l2Vars, pwVars>>
    /\ UNCHANGED <<mainAt, config, files, made, crashed>>

PlugDuringSetup ==
    /\ mainAt \in {"setup", "setupOnly"}
    /\ PlugUnplug
    /\ UNCHANGED <<pulseVars, v4l2Vars, pwVars>>
    /\ UNCHANGED <<mainAt, config, files, made, crashed>>

\* Nothing of the set-up is remembered; a bootloader starts the next upload
\* afresh.
ForgetSetup ==
    /\ mode' = "absent" /\ attached' = FALSE
    /\ memory' = {} /\ expecting' = 0 /\ launched' = FALSE
    /\ outOfStep' = FALSE /\ cut' = FALSE /\ misled' = FALSE
    /\ fwPC' = "probe" /\ held' = {} /\ fwResult' = "none"
    /\ offset' = 0 /\ addr' = 0 /\ page' = 0 /\ sent' = 0

\* The result of the set-up decides nothing; then k4w_config_load.
EndSetup ==
    /\ fwPC = "done"
    /\ \/ At("setup", "camera") /\ config' \in SUBSET {"audio", "v4l2"}
       \/ At("setupOnly", "exited") /\ UNCHANGED config
    /\ ForgetSetup
    /\ UNCHANGED <<pulseVars, v4l2Vars, pwVars, files, made>>

-----------------------------------------------------------------------------
(* k4w_kinect_init *)

\* Five attempts after a reset may all fail.
TryCamera ==
    /\ At("camera", "depth") \/ At("camera", "giveUp")
    /\ FilesAre(files, made)

MakeShm(name, then) ==
    At(name, then) /\ FilesAre(files \cup {name}, made \cup {name})

\* shm_open fails, or a later call does and the name is removed again.
ShmFails(name, then, destroyed) ==
    /\ At(name, then)
    /\ \E gone \in {destroyed, destroyed \cup {name}} :
           FilesAre(files \ gone, made)

MakeDepth == MakeShm("depth", "video") \/ ShmFails("depth", "giveUp", {})

\* Mutant: the depth segment is forgotten.
MakeVideoForgets ==
    MakeShm("video", "audio") \/ ShmFails("video", "giveUp", {})

MakeVideo ==
    MakeShm("video", "audio") \/ ShmFails("video", "giveUp", {"depth"})

\* Sound is played only if its segment was created.
MakeAudio ==
    \/ "audio" \in config /\ MakeShm("audio", "loadSink")
    \/ "audio" \in config /\ ShmFails("audio", "v4l2", {})
    \/ "audio" \notin config /\ At("audio", "v4l2") /\ FilesAre(files, made)

OpenSound ==
    /\ \/ At("loadSink", "loadRemap") /\ LoadNullSink(TRUE)
       \/ At("loadSink", "openSound") /\ LoadNullSink(FALSE)
       \/ At("loadRemap", "openSound") /\ LoadRemap
       \/ At("openSound", "v4l2") /\ OpenPulseStream
    /\ NoFiles /\ UNCHANGED <<firmwareVars, v4l2Vars, pwVars>>

OpenV4l2Device ==
    /\ At("v4l2", "pwBuffer")
    /\ IF "v4l2" \in config THEN OpenV4l2 ELSE UNCHANGED v4l2Vars
    /\ NoFiles /\ UNCHANGED <<firmwareVars, pulseVars, pwVars>>

-----------------------------------------------------------------------------
(* k4w_pw_source_init, whose result decides nothing, and k4w_socket_init *)

SetUpPw ==
    /\ \/ At("pwBuffer", "pwMake") /\ AllocateBuffer
       \/ At("pwMake", "pwStart") /\ MakeObjects(TRUE)
       \/ At("pwMake", "socket") /\ MakeObjects(FALSE)
       \/ At("pwStart", "pwConnect") /\ StartLoop
       \/ At("pwConnect", "socket") /\ UNCHANGED pwVars
       \/ At("pwConnect", "undo1") /\ DestroyStream
       \/ At("undo1", "undo2") /\ ForgetStream
       \/ At("undo2", "undo3") /\ StopLoop
       \/ At("undo3", "undo4") /\ DestroyContext
       \/ At("undo4", "socket") /\ DestroyLoop
    /\ NoFiles /\ UNCHANGED <<firmwareVars, pulseVars, v4l2Vars>>

\* socket() may fail, then bind() or listen(), after the old one is unlinked.
MakeSocket ==
    /\ At("socket", "run")
    /\ \/ FilesAre(files \cup {"socket"}, made \cup {"socket"})
       \/ FilesAre(files \ {"socket"}, made)
       \/ FilesAre(files, made)

-----------------------------------------------------------------------------
(* Running: a video frame goes to V4L2 and PipeWire. *)

VideoFrame ==
    /\ \/ At("run", "write") /\ QueryFormat /\ UNCHANGED pwVars
       \/ At("write", "push1") /\ WriteV4l2 /\ UNCHANGED pwVars
       \/ At("push1", "push2") /\ PushFirst /\ UNCHANGED v4l2Vars
       \/ /\ At("push1", "run") /\ pushed = MaxPushed
          /\ UNCHANGED <<v4l2Vars, pwVars>>
       \/ At("push2", "run") /\ PushSecond /\ UNCHANGED v4l2Vars
    /\ NoFiles /\ UNCHANGED <<firmwareVars, pulseVars>>

-----------------------------------------------------------------------------
(* k4w_pw_source_stop, k4w_kinect_stop and the rest of main() *)

\* Mutant: the buffer is freed while the loop thread still runs.
StopPwFreesFirst ==
    /\ \/ At("run", "stop1") /\ DestroyStream
       \/ At("stop1", "stop2") /\ ForgetStream
       \/ At("stop2", "stop3") /\ FreeBuffer
       \/ At("stop3", "stop4") /\ StopLoop
       \/ At("stop4", "release1") /\ DestroyLoop
    /\ NoFiles /\ UNCHANGED <<firmwareVars, pulseVars, v4l2Vars>>

StopPw ==
    /\ \/ At("run", "stop1") /\ DestroyStream
       \/ At("stop1", "stop2") /\ ForgetStream
       \/ At("stop2", "stop3") /\ DestroyContext
       \/ At("stop3", "stop4") /\ StopLoop
       \/ At("stop4", "stop5") /\ DestroyLoop
       \/ At("stop5", "stop6") /\ FreeBuffer
       \/ At("stop6", "release1") /\ ForgetBuffer
    /\ NoFiles /\ UNCHANGED <<firmwareVars, pulseVars, v4l2Vars>>

\* The audio thread has ended and sync is stopped (Daemon).
CloseOutputs ==
    /\ \/ At("release1", "release2") /\ CloseV4l2 /\ UNCHANGED pulseVars
       \/ At("release2", "destroyShm") /\ ClosePulse /\ UNCHANGED v4l2Vars
    /\ NoFiles /\ UNCHANGED <<firmwareVars, pwVars>>

\* Mutant: only segments of this process are destroyed, and never audio.
DestroyMadeShm ==
    /\ At("destroyShm", "closeSocket")
    /\ FilesAre(files \ (made \ {"audio", "pid", "socket"}), made)

\* All three names, made or not
DestroyShm ==
    At("destroyShm", "closeSocket") /\ FilesAre(files \ Shm, made)

CloseSocket ==
    /\ At("closeSocket", "release")
    /\ FilesAre(files \ ({"socket"} \cap made), made)

\* release_pid_lock, also after a failed k4w_kinect_init
Release ==
    /\ At("release", "exited") \/ At("giveUp", "exited")
    /\ files' = files \ {"pid"} /\ config' = {}
    /\ UNCHANGED <<parts, made>>

\* SIGKILL, SIGPIPE, or SIGSEGV, whose handler calls _exit
Crash ==
    /\ mainAt \notin Idle /\ mainAt' = "off"
    /\ crashed' = TRUE
    /\ made' = {} /\ config' = {} /\ UNCHANGED files
    /\ ForgetSetup /\ PulseDies /\ CloseV4l2 /\ PwDies

-----------------------------------------------------------------------------
MainStep ==
    \/ Lock \/ SetupRuns \/ EndSetup
    \/ TryCamera \/ MakeDepth \/ MakeVideo \/ MakeAudio
    \/ OpenSound \/ OpenV4l2Device \/ SetUpPw \/ MakeSocket
    \/ VideoFrame
    \/ StopPw \/ CloseOutputs \/ DestroyShm \/ CloseSocket \/ Release

PwLoopRuns ==
    /\ LoopThread
    /\ UNCHANGED <<firmwareVars, pulseVars, v4l2Vars>>
    /\ UNCHANGED <<mainAt, config, files, made, crashed>>

FormatIsSet ==
    /\ OtherProgramSetsFormat
    /\ UNCHANGED <<firmwareVars, pulseVars, pwVars>>
    /\ UNCHANGED <<mainAt, config, files, made, crashed>>

LifeNext == \/ Begin \/ MainStep \/ PwLoopRuns
            \/ PlugDuringSetup \/ FormatIsSet \/ Crash

LifeSpec == LifeInit /\ [][LifeNext]_lifeVars

\* main's thread and PipeWire's go on; nobody has to start k4wd.
FairLifeSpec ==
    LifeSpec /\ WF_lifeVars(MainStep) /\ WF_lifeVars(PwLoopRuns)

-----------------------------------------------------------------------------
MainPlaces == Idle \cup Shm \cup
    {"lock", "setup", "setupOnly", "camera", "giveUp", "loadSink",
     "loadRemap", "openSound", "v4l2", "pwBuffer", "pwMake", "pwStart",
     "pwConnect", "undo1", "undo2", "undo3", "undo4", "socket", "run",
     "write", "push1", "push2", "stop1", "stop2", "stop3", "stop4", "stop5",
     "stop6", "release1", "release2", "destroyShm", "closeSocket", "release"}

LifeTyped ==
    /\ FirmwareTyped
    /\ nullSinks \in 0..MaxModules /\ remaps \in 0..MaxModules
    /\ format \in Formats \cup {"none"} /\ queried \in Formats \cup {"none"}
    /\ pwLoop \in {"none", "made", "running"} /\ pwContext \in BOOLEAN
    /\ pwStream \in {"null", "live", "freed"}
    /\ pwBuffer \in {"none", "live", "freed"}
    /\ {bufFirst, bufSecond, pushed, got} \subseteq 0..MaxPushed
    /\ mainAt \in MainPlaces /\ config \subseteq {"audio", "v4l2"}
    /\ made \subseteq Files /\ files \subseteq Files

\* Whatever fails in k4w_kinect_init, and wherever main returns, no file of
\* this process stays behind (kinect.c:385 destroys the depth segment when the
\* video segment cannot be made, main.c:101 the lock). Null sinks and remap
\* sources pile up in the server only by a crash, or by a pactl that did not do
\* what it said (audio.c:58).
ExitLeavesNothing ==
    /\ mainAt = "exited" => files \cap made = {}
    /\ mainAt \in Idle /\ nullSinks + remaps > 0 => crashed \/ pactlFailed

\* One run that came as far as its socket and ended by itself has removed what
\* every crash before it left behind.
CleanRunRecovers ==
    mainAt = "exited" /\ "socket" \in made => files = {}

\* Every frame written to the V4L2 device is in the format it had then, unless
\* another program set that between the query and the write, or its driver
\* chose a format the code does not know (v4l2.c:114).
FramesFitDevice == ~misfit

\* PipeWire's thread never reads the frame buffer once it is freed, though
\* nothing is locked: the buffer outlives the loop (pw_source.c:206).
BufferOutlivesLoop == ~badRead

\* A consumer's frame mixes at most two frames that were pushed one after the
\* other, unless newer ones came in during the copy (pw_source.c:35).
TornByOneFrame == torn # "wrong"

\* PipeWire's thread uses a stream that is gone only while k4w_pw_source_stop
\* or a failed k4w_pw_source_init is at work (pw_source.c:198).
LateCallsOnlyInTeardown ==
    [][~badCall /\ badCall' =>
           mainAt \in {"undo1", "undo2", "stop1", "stop2", "stop3"}]_lifeVars

\* A start-up, a frame and a shutdown come to an end: no failing device, and no
\* consumer of PipeWire's, keeps main() from polling or from returning.
PhasesEnd ==
    mainAt \notin Idle \cup {"run"} ~> mainAt \in Idle \cup {"run"}
=============================================================================
