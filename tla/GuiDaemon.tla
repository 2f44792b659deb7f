------------------------------ MODULE GuiDaemon ------------------------------
(***************************************************************************)
(* How the control panel (mainwindow.cpp) follows the daemon and restarts  *)
(* it: SensorPollThread asks for the status and emits daemonStatus, a      *)
(* queued signal; the GUI thread handles it, the clicks on reset, shutdown *)
(* and tilt, the 15-second timer of the reset, and the results of the      *)
(* threads that wait for a tilt.  The daemon is external: systemd or a     *)
(* user may start it, it may die or be busy at any time.                   *)
(***************************************************************************)
EXTENDS Naturals, Sequences

CONSTANTS
    FailThreshold, \* 3 in the code
    MaxQueue,      \* bound on daemonStatus signals not yet handled, for TLC
    MaxTimers,     \* bound on reset timers pending, for TLC
    MaxTilts       \* bound on tilt threads, for TLC

ASSUME GuiAssumption ==
    /\ FailThreshold \in Nat \ {0}
    /\ MaxQueue \in Nat \ {0} /\ MaxTimers \in Nat \ {0}
    /\ MaxTilts \in Nat \ {0}

VARIABLES
    daemon,      \* "up" answers; "busy" serves a motor command; "down"
    \* ---- SensorPollThread
    pollPC, pollEnabled, failCount,
    signals,     \* queue of daemonStatus signals
    \* ---- the GUI thread
    online,      \* m_daemonOnline
    resetOn, shutdownOn, tiltOn, \* buttons that can be clicked; the one that
                                 \* starts the daemon is never visible
    timers,      \* reset timers pending
    tilts        \* threads waiting for the reply to a TILT

poll == <<pollPC, pollEnabled, failCount, signals>>
buttons == <<resetOn, shutdownOn, tiltOn>>
gui == <<online, buttons, timers, tilts>>
vars == <<daemon, poll, gui>>

PollPCs == {"check", "connect", "write", "read"}

Init ==
    /\ daemon \in {"up", "down"}
    /\ pollPC = "check" /\ pollEnabled = TRUE /\ failCount = 0
    /\ signals = <<>>
    /\ online = FALSE
    /\ resetOn = TRUE /\ shutdownOn = TRUE /\ tiltOn = TRUE
    /\ timers = 0 /\ tilts = 0

-----------------------------------------------------------------------------
(* SensorPollThread::run.  failCount stops where it no longer matters. *)

PollGoto(from, to) ==
    /\ pollPC = from /\ pollPC' = to
    /\ UNCHANGED <<daemon, pollEnabled, gui>>

Room == Len(signals) < MaxQueue

OneMoreFailure ==
    failCount' = IF failCount < FailThreshold THEN failCount + 1 ELSE failCount

\* failCount++, and from the threshold on every failure is reported.
Fails ==
    /\ Room
    /\ OneMoreFailure
    /\ signals' = IF failCount' = FailThreshold THEN Append(signals, FALSE)
                  ELSE signals

PollCheck ==
    /\ pollEnabled
    /\ PollGoto("check", "connect")
    /\ UNCHANGED <<failCount, signals>>

\* A busy daemon lets clients wait in the queue of its listening socket.
PollConnect ==
    \/ /\ daemon # "down"
       /\ PollGoto("connect", "write")
       /\ UNCHANGED <<failCount, signals>>
    \/ /\ daemon = "down"
       /\ PollGoto("connect", "check")
       /\ Fails

\* A failure to write is counted and not reported.
PollWrite ==
    \/ /\ daemon # "down"
       /\ PollGoto("write", "read")
       /\ UNCHANGED <<failCount, signals>>
    \/ /\ daemon = "down"
       /\ PollGoto("write", "check")
       /\ OneMoreFailure
       /\ UNCHANGED signals

\* Mutant: only a change is reported.
PollAnsweredAfterFailures ==
    /\ daemon = "up"
    /\ Room
    /\ PollGoto("read", "check")
    /\ signals' = IF failCount = FailThreshold THEN Append(signals, TRUE)
                  ELSE signals
    /\ failCount' = 0

PollAnswered ==
    /\ daemon = "up"
    /\ Room
    /\ PollGoto("read", "check")
    /\ signals' = Append(signals, TRUE)
    /\ failCount' = 0

\* No answer within five seconds, or the connection is closed.
PollTimeout ==
    /\ daemon # "up"
    /\ PollGoto("read", "check")
    /\ Fails

-----------------------------------------------------------------------------
(* The GUI thread *)

\* Mutant: only a change to online is handled.
HandleOnlineOnly ==
    /\ signals # <<>>
    /\ signals' = Tail(signals)
    /\ IF Head(signals) /\ ~online
       THEN /\ online' = TRUE
            /\ resetOn' = TRUE /\ shutdownOn' = TRUE /\ tiltOn' = TRUE
       ELSE UNCHANGED <<online, buttons>>
    /\ UNCHANGED <<daemon, pollPC, pollEnabled, failCount, timers, tilts>>

\* Mutant: the tilt buttons are not given back.
HandleKeepsTilt ==
    /\ signals # <<>>
    /\ signals' = Tail(signals)
    /\ online' = Head(signals)
    /\ shutdownOn' = (Head(signals) /\ (shutdownOn \/ ~online))
    /\ resetOn' = (resetOn \/ (Head(signals) /\ ~online))
    /\ UNCHANGED <<daemon, pollPC, pollEnabled, failCount, timers>>
    /\ UNCHANGED <<tilts, tiltOn>>

\* The slot of daemonStatus acts on changes only.
HandleStatus ==
    /\ signals # <<>>
    /\ signals' = Tail(signals)
    /\ \/ /\ Head(signals) /\ ~online
          /\ online' = TRUE
          /\ resetOn' = TRUE /\ shutdownOn' = TRUE /\ tiltOn' = TRUE
       \/ /\ ~Head(signals) /\ online
          /\ online' = FALSE
          /\ shutdownOn' = FALSE
          /\ UNCHANGED <<resetOn, tiltOn>>
       \/ /\ Head(signals) = online
          /\ UNCHANGED <<online, buttons>>
    /\ UNCHANGED <<daemon, pollPC, pollEnabled, failCount, timers, tilts>>

\* The process named in /tmp/k4w.pid is sent SIGTERM and SIGKILL.  Without the
\* file, or without the right to signal a daemon of root's, kill fails and the
\* GUI goes on as if the daemon were gone.
KillDaemon == daemon' \in {daemon, "down"}

\* onResetDaemon, with the password given: the poll is disabled and the daemon
\* killed.  The script that should start it again is written without quotes
\* after bash -c (sudoStartDetached): bash takes "for" for a command, stops at
\* the "do" and runs nothing of it, and nobody looks at its result.
Reset ==
    /\ resetOn /\ timers < MaxTimers
    /\ resetOn' = FALSE /\ pollEnabled' = FALSE
    /\ KillDaemon
    /\ timers' = timers + 1
    /\ UNCHANGED <<pollPC, failCount, signals, online, shutdownOn, tiltOn>>
    /\ UNCHANGED tilts

\* Mutant: the condition is the wrong way round.
ResetTimerOnline ==
    /\ timers > 0
    /\ timers' = timers - 1
    /\ resetOn' = (resetOn \/ online)
    /\ UNCHANGED <<daemon, poll, online, shutdownOn, tiltOn, tilts>>

\* The single-shot timer of a reset, after 15 seconds
ResetTimer ==
    /\ timers > 0
    /\ timers' = timers - 1
    /\ resetOn' = (resetOn \/ ~online)
    /\ UNCHANGED <<daemon, poll, online, shutdownOn, tiltOn, tilts>>

\* onShutdownDaemon
Shutdown ==
    /\ shutdownOn
    /\ KillDaemon
    /\ online' = FALSE
    /\ resetOn' = FALSE /\ shutdownOn' = FALSE /\ tiltOn' = FALSE
    /\ UNCHANGED <<poll, timers, tilts>>

\* A click on "Aplicar Tilt" or "Reset 0": a thread sends the command.
Tilt ==
    /\ tiltOn /\ tilts < MaxTilts
    /\ tiltOn' = FALSE
    /\ tilts' = tilts + 1
    /\ UNCHANGED <<daemon, poll, online, resetOn, shutdownOn, timers>>

\* The thread has its reply, its error or its time-out.
TiltDone ==
    /\ tilts > 0
    /\ tilts' = tilts - 1
    /\ tiltOn' = TRUE
    /\ UNCHANGED <<daemon, poll, online, resetOn, shutdownOn, timers>>

-----------------------------------------------------------------------------
(* The daemon *)

\* A motor command begins or ends, or the daemon dies or is started by hand.
DaemonChanges ==
    /\ daemon' \in {"up", "busy", "down"} \ {daemon}
    /\ UNCHANGED <<poll, gui>>

PollStep == \/ PollCheck \/ PollConnect \/ PollWrite
            \/ PollAnswered \/ PollTimeout
Click == Reset \/ Shutdown \/ Tilt
Waited == TiltDone \/ ResetTimer

Next == PollStep \/ HandleStatus \/ Click \/ Waited \/ DaemonChanges

Spec == Init /\ [][Next]_vars

\* The poll thread and the event loop go on; timers and the threads of commands
\* come to an end.  Nobody has to click.
FairSpec ==
    /\ Spec
    /\ WF_vars(PollStep) /\ WF_vars(HandleStatus)
    /\ WF_vars(TiltDone) /\ WF_vars(ResetTimer)

-----------------------------------------------------------------------------
TypeOK ==
    /\ daemon \in {"up", "busy", "down"}
    /\ pollPC \in PollPCs /\ pollEnabled \in BOOLEAN
    /\ failCount \in 0..FailThreshold
    /\ signals \in Seq(BOOLEAN) /\ Len(signals) <= MaxQueue
    /\ online \in BOOLEAN
    /\ resetOn \in BOOLEAN /\ shutdownOn \in BOOLEAN
    /\ tiltOn \in BOOLEAN
    /\ timers \in 0..MaxTimers /\ tilts \in 0..MaxTilts

\* While the poll is on, the GUI ends up showing a daemon that stays up and
\* answers as online, unless the user keeps trying to shut it down: neither a
\* late or missing signal nor a shutdown whose kill failed leaves it wrong.
ShowsOnline ==
    <>[](daemon = "up" /\ pollEnabled) /\ <>[][~Shutdown]_vars => <>[]online

\* And one that stays down as offline, even if a status that was queued before
\* a shutdown is handled after it.
ShowsOffline ==
    <>[](daemon = "down" /\ pollEnabled) => <>[]~online

\* With the poll on, the panel ends up showing the daemon as it is, whichever
\* signals were queued before (mainwindow.cpp:273, 655).
ShowsDaemon == ShowsOnline /\ ShowsOffline

\* A panel whose user stops clicking gets all its buttons back from a daemon
\* that stays up, whatever was shut down, started elsewhere or tilted before
\* and in whatever order the results arrived (mainwindow.cpp:669, 1238).
ButtonsComeBack ==
    <>[](daemon = "up" /\ pollEnabled) /\ <>[][~Click]_vars
        => <>[](resetOn /\ shutdownOn /\ tiltOn)

\* A reset that is clicked while the GUI shows offline always gives the button
\* back, whatever becomes of the daemon.
ResetComesBackWhenOffline == timers > 0 /\ ~resetOn /\ ~online ~> resetOn

\* mainwindow.cpp:611 "Safety: re-enable reset button after 15s if daemon
\* doesn't come online"
ResetComesBack ==
    timers > 0 /\ ~resetOn /\ daemon = "down" ~> resetOn \/ daemon # "down"
=============================================================================
