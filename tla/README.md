# A TLA+ model of kinect-for-linux

The project describes `k4wd`, the daemon that turns a "Kinect for Windows" into
webcams, a microphone and a motor, and the processes around it: the control
panel `k4w-ctl` and the OpenNI2 driver. Paths are relative to `src/`: the C files are
in `src/daemon/`, `K4WDriver.cpp` in `src/openni2/`, `mainwindow.cpp`, `tracker.cpp`
and the panel's `ctl/main.cpp` in `src/ctl/`.

`PROJECT.json` holds the same information for tools: the components, the runs,
the lines every definition was translated from (`map`), a mutant for every
property, the hazards, the departures found, the theorems.

## 1. Inventory

| Part | State it keeps | Operations | Talks to |
|---|---|---|---|
| main and signals (`main.c`) | `g_running`, the listening socket, the command thread | start, poll, stop; `sig_handler` | everything, through `g_state` and flags |
| pid lock (`main.c:46-80`) | `/tmp/k4w.pid` | `acquire_pid_lock`, `release_pid_lock` | other `k4wd` processes, whoever gets a dead one's pid; the panel and `k4wd.service` remove the file |
| camera polling (`kinect.c:332-535`) | `running`, error counter, `was_motor_paused`, `device_ok`, libfreenect_sync | `k4w_kinect_init`, `run`, `stop` | reads `motor_paused`; writes shared memory, V4L2, PipeWire |
| audio capture (`kinect.c:60-296`) | `g_pcm`, `g_audio_running`, `g_audio_dropped`, `was_paused` | start-up, read, drop, resume, exit | reads `g_audio_paused`; writes PulseAudio, shared memory |
| command socket (`main.c:25-44`, `socket.c`) | listening socket, one connection | accept, receive, pause/motor/resume, answer | flags of both loops; motor |
| motor (`motor.c`) | `g_motor_lock`, `g_motor_busy`, `g_current_tilt`, USB handle, two interfaces | set tilt, LED, get tilt, accelerometer | USB device shared with camera and microphone |
| shared-memory ring (`shm.c`) | a header (`write_idx`, `seq`, time stamp) and 3 slots per stream | create, write | readers in other processes, without a lock |
| OpenNI2 driver (`K4WDriver.cpp`) | `last_seq` per stream | two polling loops | maps the segments read-only |
| control panel (`mainwindow.cpp`) | `m_daemonOnline`, button states, poll thread, timers, command threads | reset, shutdown, tilt, status, repaint | socket, pid file, segments |
| firmware upload (`firmware.c`) | file, USB handle, interface; offset, address and page of the image | `k4w_firmware_setup`, `upload_uac_firmware` | the bootloader of the microphone |
| PipeWire source (`pw_source.c`) | `s_loop`, `s_context`, `s_stream`, `s_frame_buf` | set-up, push, `on_process`, stop | PipeWire's loop thread, without its lock |
| V4L2 output (`v4l2.c`) | the open device | choice of a format, query and write of each frame | the loopback device, which others may set |
| PulseAudio output (`audio.c`) | indices of two modules, a stream | load and unload with `pactl`, open, close | the PulseAudio server, which outlives k4wd |
| configuration (`config.c`) | which outputs are enabled | load | `main` |
| single instance of the panel (`ctl/main.cpp`) | `/tmp/kinect-for-linux.pid`, a local socket | ask, take over, remove | other starts of the panel |
| skeleton tracker (`tracker.cpp`) | boxes of detections | post-processing, drawing | nothing writes its segment |
| panel layout, installation | none | see `components` | |

**How they interact.** One USB device carries camera, microphone and motor. A
motor command therefore asks the audio thread (`g_audio_paused`, acknowledged by
`g_audio_dropped`) and the main loop (`motor_paused`) to let go of it, waits,
closes ALSA and sync itself, drives the motor, rebinds the audio driver and lets
both go on. There is no lock around any of this: three volatile flags, sleeps and
time-outs. Frames leave through a ring in shared memory, again without a lock.
The panel polls the status over the same socket that motor commands use, and
kills and restarts the daemon by its pid file. `main` sets the outputs up one after
the other, any of which may fail, and tears them down in its own order; what lies in
`/tmp`, `/dev/shm` and the PulseAudio server outlives a crash, and the next start, the
streams of OpenNI2 and the next panel find it there.

**What is hard here.** Interleavings of the three threads at every flag; a pause
whose wait times out and whose acknowledgement comes later; a signal in the middle
of a start or a motor command; readers overtaken while they copy; a claim of two
USB interfaces that succeeds by half, packets lost or short; a crash between two
file operations of the pid lock; status signals queued across a shutdown; clients
that give up on a server that still carries out their command; an upload whose
transfers fail or only seem to; a set-up that fails half-way; PipeWire's thread in a
buffer that is torn down; a segment zeroed under its readers; two panels that start or
end at once. `hazards` lists each at its line.

**What makes the parts correct.**

- Hand-over: nobody uses a closed ALSA handle or opens a second one; a pause that
  was acknowledged keeps the device free; the main loop's late calls are bounded;
  every command is answered and audio comes back; a signal ends the process, with
  everything released and after the threads that use it.
- Motor: whatever fails, nothing stays held; packets only with both interfaces; a
  refused tilt did not move the motor; a descent starts from zero.
- Ring: a reader that is not lapped gets a whole frame, the newest one, with its
  time stamp; never older than its number; followers notice the last frame.
- Pid lock: no more daemons than one and one for each file that others removed; the
  file names the daemon; a start is refused for a reason that can be named.
- Panel: it ends up showing what is true, and its buttons come back; there is one, and
  a second start finds it.
- Upload: no image with a hole is started, host and bootloader agree on what is a
  command, nothing stays open.
- Life of k4wd: an exit leaves nothing behind, a clean run removes what crashes left,
  PipeWire's thread never reads freed memory, every phase ends.
- Streams across restarts: frames, never zeroes; and they follow.
- Command server: a command is answered before its client gives up, unless retries and
  time-outs of the USB device cost it too much.

## 2. Modules

| Module | Models | Notes |
|---|---|---|
| `DaemonState` | shared flags, devices, program counters | constants and `TypeOK` |
| `AudioThread` | `audio_thread_func` | one action per access to a flag or to `g_pcm` |
| `PollLoop` | `main`, `k4w_kinect_init/run/stop`, `sig_handler` | joins are guards |
| `CommandThread` | `socket_thread`, `k4w_socket_handle`, `k4w_kinect_audio_pause/resume`, opening and closing of the motor | |
| `Daemon` | the composition of the three threads and signals | properties of the hand-over |
| `Daemon_proofs` | TLAPS proofs about `Daemon` | |
| `Motor` | the commands of `motor.c` between pause and resume | the motor itself is external |
| `Motor_proofs` | TLAPS proofs about `Motor` | |
| `FrameMailbox` | abstract: a mailbox of the latest frame | what `ShmRing` implements |
| `ShmRing`, `MCShmRing` | `k4w_shm_write_frame` and the readers | halves of a slot are copied one after the other |
| `PidLock`, `MCPidLock` | the pid file, one action per file operation | kills at any point, two users, reused pids, removals by others |
| `PidLock_proofs` | TLAPS proofs about `PidLock` | |
| `ShmRing_proofs` | TLAPS proofs about `ShmRing`, its refinement included | |
| `ShmRestart` | a segment across ends, crashes and starts of k4wd, and one OpenNI2 stream | a slot holds a frame or none |
| `ShmRestart_proofs` | TLAPS proofs about `ShmRestart` | |
| `Firmware` | `k4w_firmware_setup`, `upload_uac_firmware` | the bootloader is external |
| `PulseSink`, `V4l2Out`, `PwSource` | the outputs, one module each | servers, drivers and other programs are external |
| `Lifecycle` | `main()` from start to return with the upload and the outputs, crashes and the next start | extends the four modules above |
| `Lifecycle_proofs` | TLAPS proofs about `Firmware` and `Lifecycle` | |
| `GuiInstance` | `main()` of the panel, per file operation | ends with the destructors |
| `Convert` | conversions of pixels, samples and boxes | no run: the theorems hold for all inputs |
| `GuiDaemon` | the panel's status poll, reset, shutdown, tilt buttons | the daemon is external |
| `Gui_proofs` | TLAPS proofs about `GuiInstance` and `GuiDaemon` | the second by `INSTANCE` |
| `CommandServer`, `MCCommandServer` | sleeps, retries and USB time-outs of commands against the time-outs of clients | discrete time, half seconds |
| `Bounds_proofs` | TLAPS proofs about `Convert` and `CommandServer` | |

**State and code.** A program counter names the statement that runs next: `cmdPC =
"checkAck"` is the thread before `if (g_audio_dropped && g_pcm)` at `kinect.c:306`.
`pcm` has three values, because `g_pcm` is closed and set to NULL in two statements:
`"freed"` is a handle that is closed and still in the variable. `syncOn` is what
libfreenect_sync holds: any `freenect_sync_get_*` call may turn it on,
`freenect_sync_stop` turns it off. Accesses to the volatile flags are taken to be atomic
and seen by all threads in one order. The code asks for neither (the flags are not C11
atomics); between the accesses that matter lie sleeps and calls into the kernel. History
variables (`acked`, `mainParked`, `intrusions`, `stopAsked`; `delivered`, `exchanged`,
`tracked`; `quiet`, `overlapped`, `failed`, `removals`; `taken`, `repeats`; `gaveUp`,
`delayed`; `cut`, `misled`, `outOfStep`; `torn`, `badRead`, `badCall`, `misfit`,
`crashed`; `disturbed`; `overlap`, `answered`) are read by properties only, by other
history, or by a bound (`removals`).

**Data that is abstracted.** Pixels, samples, SHM contents and reply texts are left
out. A frame is its number. A tilt is an angle in half degrees. In `CommandThread`
a motor command is one or two openings of the device; its insides are `Motor`. The
firmware is counted in transfers of 512 bytes, a page in transfers too. In `Lifecycle`
a frame matters by its number (PipeWire) or its format (V4L2), a file by whether it is
there. In `ShmRestart` a slot of a segment holds a frame or not.

**Composition.** `Daemon` interleaves the three threads of k4wd. `Lifecycle` composes
the parts that main's thread sets up and tears down; camera, audio and motor appear in
it only as the time spent polling, and the pid file as a file, because `Daemon` and
`PidLock` have them in detail. `ShmRing` has the ring statement by statement with a
daemon that stays; `ShmRestart` has the daemon come and go and looks only at which slots
hold a frame.

**Mutants.** The operators whose comment begins with "Mutant" are not part of a
specification. Each replaces one action by a plausible mistake, and a property must
then fail.

## 3. Runs

| Run | Bounds | What it shows |
|---|---|---|
| `daemon` | 1 poll for the drop, 2 reopenings, 1 tolerated error | the safety properties of the three threads |
| `daemon_live` | 1 poll, 1 reopening, 0 tolerated errors | commands answered, audio resumes, a signal ends the process |
| `motor` | 2 degrees each way, 2 claim attempts | nothing is left held; descents; unassigned replies |
| `shm_ring` | 3 slots, 4 frames, a follower and a peeker | safety of readers, refinement of `FrameMailbox`, catching up |
| `shm_restart` | 2 segments, 3 slots, numbers of 6 values | a stream raises frames only and follows restarts |
| `pid_lock` | 3 pids, root and a user, 2 removals | how many daemons run, whom the file names, why a start is refused, somebody gets in |
| `lifecycle` | 3 transfers in pages of 2, 1 module of a kind, 2 pushed frames | the upload, what exits and crashes leave, the outputs, every phase ends |
| `gui_daemon` | 3 failures, 3 queued signals, 2 timers, 2 tilts | what the panel shows, its buttons |
| `gui_instance` | 3 processes | one panel that the next start finds; every start shows a window |
| `command_server` | 1 poller, 1 commander | commands are in time unless a tilt loses too much |
| `sync_stopped_for_motor`, `reset_comes_back` | as above, smaller | two departures, section 6 |

**Why the bounds are enough.** *daemon*: commands, signals and errors come without
limit; only the lengths of three counted loops are cut. With one poll the wait ends
both acknowledged and timed out; with two attempts the reopening fails once
and goes on; with one tolerated error the counter both lets an error pass and
overflows. The proofs lift these bounds for the properties they cover. *motor*:
two degrees give whole and half degrees on both sides of zero and arguments beyond
the limit, two claim attempts a retry and a last attempt; the motor may start
anywhere. *shm_ring*: the fourth frame overwrites the first, so a reader is lapped,
torn, and repeated; readers do not influence each other or the writer. *shm_restart*:
one segment is mapped by the stream while the other has its name; six numbers, three of
them negative as an int, let the number wrap within a run. *pid_lock*: one process that
runs, one that looks at it, one that interferes or has got a dead one's pid; any file of
either user may be there at the start; the second removal of a living daemon's file
shows that the count goes on. Only such removals are bounded. The run does not go on
from states where a call has failed, or where starts overlapped and something ended: no
property says anything of them or of what follows them (`MCPromised`), and each is a
history that stays; the proofs have no such bound.
*lifecycle*: a full page and a short last one; a module that leaks and its successor
refused; one frame in PipeWire's buffer and the next one pushed over it; crashes and
starts are not bounded. *gui_daemon*: three queued signals hold two from before a click
and one from after; two timers and tilts let one come late. *gui_instance*: an instance
that runs or ends, one that starts, one that interferes; any files may be there at the
start. *command_server*: the clients are the panel's poll thread and one motor command
at a time; every sleep, retry and USB time-out is there, in half seconds.

The largest run is `motor` (2.3 million states); the longest is `lifecycle` (543,000
states and a liveness property, two minutes). Type invariants other than `Daemon`'s are
not in a run: they are theorems, or parts of invariants that are (section 5).
`RefusedTiltNotSent`, `OneInstance`, which follows from `InstanceCanBeFound`, and the
other properties that only a theorem names hold in these runs too when they are added to
a configuration.

Runs that say `CHECK_DEADLOCK FALSE` are of systems that stop: the daemon exits, the
writer reaches its bound, the panel's poll is disabled, `k4wd` is killed.

## 4. Fairness

*Daemon.* Each thread is weakly fair as a whole: it is a thread of the operating
system, and its calls return. ALSA reads end with samples or an error, libusb
transfers have time-outs, sleeps end. `CmdProgress` excludes the accepting of a
connection, so nobody is obliged to send a command, but a client that connected
sends its 8 bytes or closes (`recv` at `socket.c:33` has no time-out; without this
assumption nothing after it could be promised). Signals are never obliged to come.
*ShmRing.* The writer and the followers keep running; the writer stops at its bound,
which stands for a daemon whose camera is paused. Nobody is obliged to repaint.
*GuiDaemon.* The poll thread and the event loop go on; a launched script, a timer
and a command thread come to an end. No click and no change of the daemon is fair.
*Lifecycle.* main's thread goes on, and so does PipeWire's, which `StopLoop` waits for; no
consumer, crash, start or unplugging is obliged to come. *ShmRestart.* k4wd finishes a
frame it began, and the thread of the stream goes on until `stop` ends it.
*GuiInstance.* What `main()` does goes on; nobody has to start or close a panel.
The other specifications are checked for safety only and have no fairness.

## 5. Proofs

The theorems hold for every value of the constants under the assumptions of the modules:
`PausePolls, MaxErrors \in Nat`, `ReopenRetries \in Nat \ {0}`; `MaxAngle, ClaimAttempts
\in Nat \ {0}`; `None \notin Processes`; `Processes` finite, `Root \in Users`,
`MaxRemovals \in Nat`; `RingSize \in Nat \ {0}` and disjoint sets of readers;
`ImageChunks \in Nat`, `PageChunks \in Nat \ {0}`; `MaxModules, MaxPushed \in Nat \
{0}`; `SeqHalf \in Nat \ {0}`, `None \notin Objects`; process identities that differ
from the three markers of `GuiInstance`; pollers and commanders that are different
clients. The theorems about `CommandServer` and `GuiDaemon` have hypotheses of their
own, given there.

**Daemon** (`Daemon_proofs`). None of the properties is inductive: that the command
thread does not close a handle in use rests on what a flag set long ago still
says about another thread. `IInv` states these agreements:

- `FlagsFollowCmd`: the command thread owns `motor_paused`, `g_audio_paused` and the
  motor, so their values follow from its program counter.
- `ThreadsCreated`: which threads can exist in which phase of the main thread.
- `DropMeansParked`: from the clearing of the flag to the end of the resume, a set
  `g_audio_dropped` means that the audio thread goes round its loop without touching
  ALSA. This is the heart: clearing the flag after the request (`kinect.c:300`) can
  only lose an acknowledgement, never keep a stale one.
- `PcmOwner`: which thread may hold `g_pcm` in which of its three states.
- `AckedMeansClosed`: what an acknowledged pause has achieved and keeps.
- `AudioKeepsRunning`: the audio thread leaves its loop only at shutdown.
- `NoThreadNoHandle`, `SyncFollowsMain`, `IntrusionsCounted`: what remains true in
  shutdown; where the main loop is when sync is stopped; how the intrusions add up.

The middle group (`DropMeansParked` to `AudioKeepsRunning`) is required up to the
clearing of `g_audio_running` only. `AudioKeepsIInv`, `MainKeepsIInv` and `CmdKeepsIInv`
prove the steps of each thread separately, action by action; `Agreements` is `Spec =>
[]IInv`; the theorems `TypeCorrect`, `NoUseAfterClose`, `NoLeak`, `AckedPause`,
`ParkedMain`, `FewIntrusions`, `ShutdownIsClean` and `ReleaseAfterJoin` follow from it.

Two theorems are about progress. `CmdStepsLeft`, `MainStepsLeft` and `AudioStepsLeft`
count the steps a thread has left at most. `CommandsComeCloser`: with every step of the
command thread a command gets closer to its answer, and no other thread takes it back.
`ThreadsComeToAnEnd`: once a signal has come, the main and the command thread get closer
to their end with every step, and so does the audio thread once it is told to stop. What
`CommandsAreAnswered` and `StopWorksOnceAudioRuns` add is that the threads go on, and do
not wait for each other.

**Motor** (`Motor_proofs`). `MInv` adds to the types what holds at each statement of a
call: which call fits the command (`CallFitsCommand`), what is held (`DeviceFollowsPC`),
that a call which fails has failed before its transfer (`FailedBeforeSending`), that a
local which is still unassigned was read incompletely (`UnassignedMeansIncomplete`), and
that a tilt which is about to be sent goes up or starts at zero while the handler's
angle is the motor's (`DescentPrepared`). The last rests on a lemma about `Clamped` and
`Truncated`, `NoDescentWithoutReset`. All properties of the run `motor` are theorems,
with two more: `MotorTypeCorrect`, `AllReleased`, `ExclusiveExchanges`,
`RefusalsAreHonest`, `ReadsAreHonest`, `TrackedDescent`.

**PidLock** (`PidLock_proofs`). `LInv` says, as long as no two starts overlapped and no
call failed:

- `OneAcquires`: one process at most is in `acquire_pid_lock`.
- `FileIsTheirs`, `FileIsNamed`: who is past the lock created the file, unless others
  removed one; the file of a daemon belongs to its user and names it.
- `ReadIsCurrent`: what was read is still true of the daemon whose file is there, and a
  start that did not recognise that daemon, because `kill` fails on root's processes, may
  not remove its file either. Only the sticky `/tmp` makes this so.
- `Counted`: the processes past the lock are no more than the removals, and one if the
  file is of such a process. It rests on the cardinality of finite sets: `SameCount`,
  `OneMore` and `OneLess` are its steps, by who gets past the lock or goes.

From it follow `DaemonsAreCounted`, `FileIsRight` and the action property
`RefusalIsRight`, whatever crashes leave, whoever gets the pids, and whichever user each
process runs as.

`SInv` is about starts that do overlap, as long as nothing ended, no call failed, and no
other program's pid and no other user's file was in the way (`quiet`): a start is
refused only because of a process that is there, and that one is not the last to give
up; hence `SomeoneRuns`.

**ShmRing** (`ShmRing_proofs`). `RingInv` counts from `write_idx` backwards: the slot k
places behind it holds the frame published k - 1 frames ago, for k below `RingSize`,
and no slot holds a frame older than a round (`SlotInv`). So a reader that took frame t
finds t in its slot until `RingSize - 1` more were published, and never anything older
(`Holds`, `CopiedWhole`). `Repeats` says under which numbers a follower can deliver a
frame once more. From it follow `WholeFrames`, `NeverOlder`, `ThreeTimes`,
`StampsNotOlder` and the action property `Onwards`. `IsAMailbox` is the refinement of
`FrameMailbox` by step simulation: moving `write_idx` publishes, reading it takes the
latest frame, a failing `acquireFrame` gives it up, raising delivers, everything else
stutters. All of it holds for any number of slots, readers and frames.

**ShmRestart** (`ShmRestart_proofs`). The slot behind `write_idx` holds a frame in every
segment whose number is not 0 (`SegmentInv`), and in the one the stream has found fresh
(`ReaderInv`), since a crash can come between any two statements but `write_idx` moves
after the copy and the number after that. Theorems: `StreamInvariant`, `StreamTyped`,
`RaisesFrames`.

**Firmware** (`Lifecycle_proofs`). `UploadInv`: what is held at each statement, that the
bootloader's memory is the prefix of the file sent so far (`PagesInv`), and what a
transfer that was misreported may have changed by the launch (`LaunchInv`). Theorems:
`NoHole`, `InStep`, `AllClosed`, `FailuresAreHarmless`, for images and pages of any
length.

**Lifecycle** (`Lifecycle_proofs`). `LifeInv` has a part for each thing that `main` sets
up, tied to where `main` is:

- `FilesInv`: which files this process can have made at each place, and which it has
  removed; a file is its own only from the statement that makes it.
- `ModulesInv`: an index that k4wd knows is of a loaded module, and without crashes and
  failing `pactl` there are no other modules of its own.
- `FormatInv`: what was queried is what the device has, unless another program set it.
- `ObjectsInv`: at which places PipeWire's thread can run, and that the stream and the
  buffer it uses are there; the buffer is freed at one place only, after the thread ended.
- `FrameInv`: the second half of the buffer is one frame behind the first at most.
- `UploadInv`, the invariant of the upload, which the steps of the others leave alone.

Each part but `FrameInv`, which needs `ObjectsInv`, is inductive by itself, so each has
a lemma of its own with one step per action (`FilesKept` to `UploadKept`). Theorems:
`LifeTypeCorrect`, `NothingStaysBehind`, `CleanRuns`, `FramesFit`, `BufferOutlives`,
`TornByOne`, `LateCalls` and `UploadsInLife`, which carries the properties of the upload
over to the composition. `StepsLeft` counts the steps of `main` until it polls or has
returned: `StepsBounded` gives the bound `4 * ImageChunks + 29`, and `MainComesCloser`
says that every step of `main` lowers the count and no other thread raises it. So
`PhasesEnd` rests on `main` going on, and on nothing else.

**GuiInstance** (`Gui_proofs`). `InstanceInv`: as long as no start met another
start or an end, one process takes the place at a time, from `bind` on the files are its
own, and a panel that ends has nobody waiting (`EndsUnasked`). Theorems: `InstanceTyped`,
`OnePanel`, `PanelIsFound`, and the action property `RequestsAreKept`: a start that is
not killed runs a panel or has asked one, and that one forgets it only by an overlap.

**GuiDaemon** (`Gui_proofs`, for constants as `GuiDaemon` assumes them,
`WindowConstants`). `ButtonInv` says what a disabled button waits for: while the panel
shows the daemon as online, shutdown is enabled, the tilt buttons are unless a tilt is
under way, and reset is unless it was used, which also switches the poll off for good.
Theorems: `NoButtonIsForgotten`, and the action property `ResetIsRemembered`: a reset
that was clicked offline waits until its button is back, and the timer brings it.

**CommandServer** (`Bounds_proofs`). `PatienceInv`: as long as the daemon lives, a motor
command is in the queue once at most with its patience untouched, and, as long as no
tilt lost more than it can spare (`~delayed`), a command being served has a tick more
patience than it still takes, and no commander gave up. The lemma `LongestCommand` adds
up what a command can take. `CommandsInTime` is `TimelyUnlessDelayed` for any number of
status polls, under the hypothesis that there is one commander at most. The panel
disables its tilt buttons until the last command was answered, unless the status turns
to online in between; two commands in a row can take longer (section 6).

**Convert** (`Bounds_proofs`). No invariant, but facts about all inputs: the clamps of
`rgb_to_yuyv` never act, pairs of pixels stay in their buffers, the mono mix fits its
16 bits, depth of 11 bits never wraps as grey and once as a colour, boxes and the picture in
picture lie in the frame.

**Only model-checked.** Every safety property of the passing runs is a theorem. Liveness
under fairness and ENABLED are out of the prover's reach: `CommandsAreAnswered`,
`AudioResumes`, `StopWorksOnceAudioRuns`, `ShowsDaemon`, `ButtonsComeBack`,
`ResetComesBackWhenOffline`, `StartsShowAWindow`, `PhasesEnd`, `FollowersCatchUp` and
`StreamFollowsRestarts` stay with TLC. For six of them the theorems above prove what does
not depend on fairness: that each step comes closer (`CommandsAreAnswered`,
`StopWorksOnceAudioRuns`, `PhasesEnd`), or that nothing is lost on the way
(`ButtonsComeBack`, `ResetComesBackWhenOffline`, `StartsShowAWindow`). That the
hypotheses of these theorems occur, and that the counts reach zero, is what the runs show.

## 6. Where the code and its comments differ

Two runs end in a counterexample; `findings` quotes the lines.

1. `SyncStoppedForMotor`: the main loop tests `motor_paused` at its top and calls the
   camera later; sync is opened again in the middle of a motor command. At most twice
   per pause (`AtMostTwoIntrusions`, proved), and never when the main loop was at its
   top as sync was stopped (`ParkedMainKeepsSyncStopped`, proved).
2. `ResetComesBack`: a reset disables the status poll for good and relies on
   `m_daemonOnline`, which only the poll updates. The daemon does not come back by the
   reset either: its script is joined with blanks and without quotes
   (`mainwindow.cpp:498-510`, `603`), and bash refuses `for d in ...; do` cut into words.

Six more are definitions without a run; added to the configuration of their module as
a property each gives its counterexample:

- `Daemon.StopEndsDaemon`: an audio thread that is still starting up sets
  `g_audio_running` after `k4w_kinect_stop` cleared it; the join never returns.
  Past the start-up a signal does end the process (`StopWorksOnceAudioRuns`).
- `Daemon.FailedStartReleasesSync`: the depth test of `k4w_kinect_init` starts
  freenect_sync, and when a segment cannot be made (`kinect.c:373-386`) nothing stops it
  before `main` returns 1. `CleanShutdown` therefore speaks of shutdowns only.
- `Motor.DescendsFromZero`: the reset before a descent is decided on the last reading,
  which starts as zero and may be missing or old. While it was right, the motor does
  descend from zero (`DescendsFromZeroWhileTracked`, proved).
- `CommandServer.CommandsBeatTheirTimeout`: the panel allows a motor command 20 s because
  it "takes ~8s" (`mainwindow.cpp:822`). Without any fault an ascending tilt takes 9 to
  13 s and a descending one 15 to 19 s, as long as the pause waits for the drop. Each
  claim that fails costs 1 s, up to five per opening (`motor.c:77-86`), and each packet
  that times out 2 s, four per call of a tilt. What is left is half a second for a
  descent that waited in vain for the drop, and 7 s for an ascent
  (`TimelyUnlessDelayed`, proved).
- `CommandServer.DetectionIsHarmless`: the poll gives up after 5 s, and the answer to
  its abandoned connection raises SIGPIPE in the daemon.
- `GuiInstance.FirstInstance`: a panel that ends removes the files of whichever panel is
  there, once in `main` and once in the destructor of its server up to four seconds
  later; a second panel then starts beside the first.

Others met while modelling have no run of their own. A drop that is acknowledged between
`kinect.c:299` and `300` is erased, and the pause waits its 3 s in vain. After such a
time-out the motor is driven with ALSA open (`305-306`). A second start that reads the
pid file between `main.c:47` and `73` sees it empty and removes it, so two daemons can
run; this is why the properties of `PidLock` speak of starts that did not overlap. The
panel's reset and shutdown and `k4wd.service:8` remove the pid file even if its daemon
lives on, and one more daemon can start (`DaemonsCounted`); a pid in a stale file that
some other program has by now refuses the start (`RefusedForAReason`); `kill` fails on
root's daemon, which a user's start then takes for dead, and is refused only because it
cannot remove its file. After ten reopenings that fail the audio thread goes on without
a handle (`kinect.c:245-252`): `AudioResumes` says that it leaves the paused state, not
that audio comes back. A frame for which `acquireFrame` fails is not delivered again
(`K4WDriver.cpp:101`, `111`): `FollowersCatchUp` says that it was noticed. After a
shutdown in the panel the reset button is disabled and the start button hidden
(`mainwindow.cpp:948` and `669`). A motor command behind a descending tilt can wait
longer than its 20 s (`mainwindow.cpp:822`).

## 7. Not modelled

*External, by what they may do:* the USB bus and the bootloader (after a set-up or a
crash the next upload starts afresh in it), the motor, the PulseAudio and PipeWire
servers, the V4L2 driver and the programs that set its format, the kernel. The format of
the V4L2 device is observed only while k4wd has it open. A format the code does not know
is sent RGB24 (`v4l2.c:126`), which `FramesFitDevice` excuses. PipeWire is offered one
size, so one is negotiated (`on_param_changed`).

*Assumed:* an application's callback returns within the 2000 ms that `stop()` of an
OpenNI2 stream waits (`K4WDriver.cpp:62`); otherwise two threads share its members. A
client sends its bytes or closes. `/tmp` is sticky, and its pid file is written by k4wd
only. In `CommandServer` what is neither a sleep, a retry nor a USB time-out takes no
time. Memory is not weakly ordered.

*In the model, with no property that forbids it:* the double close of ALSA possible
after the clearing of `g_audio_running` (`kinect.c:285`, `307`); a stream that skips a frame
whose number equals the last one of a daemon that crashed; a stream that stalls while its
number is negative as an int (about two years of frames); a camera that delivers depth
only and is never reset (`kinect.c:465`).

*Left out:* audio periods shorter than a slot (`kinect.c:277`), whose readers get the
tail of an older period; motor replies that come after their read timed out and shift
all later ones (`motor.c:198`), since what the endpoint does with a packet nobody read
is not known from the repository; the classes of OpenNI2's device and driver, whose
registering thread and `tryDevice` meet in a hash without a lock (`K4WDriver.cpp:296`)
if the runtime calls them so, which the repository does not say; recording, levels,
layout and dialogs of the panel; the neural networks and the drawing of the tracker;
installation scripts.

*Never runs:* `k4w_shm_read_frame`, `unbind_snd_usb_audio`, `processFrame` and
`onStartDaemon` are called by nothing (the start button is never visible), nothing
writes `/dev/shm/k4w_skeleton` that `updateFromSHM` reads, and the negotiated size never
differs from the one set (`pw_source.c:53`).

## 8. Plan

Written in this order: the hand-over (`DaemonState` to `Daemon`) and its proofs, `ShmRing`
with `FrameMailbox`, `Motor` and `PidLock` with their proofs, `GuiDaemon`,
`CommandServer`; then `Firmware`, the outputs and `Lifecycle`, `ShmRestart`,
`GuiInstance`, `Convert`, and the proofs about `ShmRing`, `Firmware`, `ShmRestart`,
`GuiInstance` and the overlapping starts of `PidLock`; then those about `Lifecycle`,
`CommandServer` and `GuiDaemon`, and the step counts.

What would come next, each of which needs facts from outside the repository: motor
replies out of step with their commands (a trace of the endpoint), the registration of
OpenNI2 devices (the runtime's calling rules), audio periods of several lengths (what
ALSA returns at a reopening). Within the repository: step counts for `AudioResumes`,
`FollowersCatchUp`, `StreamFollowsRestarts`, `ShowsDaemon` and the calls of `Motor`.
