---------------------------- MODULE Daemon_proofs ----------------------------
(***************************************************************************)
(* Proofs about Daemon for every value of PausePolls, ReopenRetries and    *)
(* MaxErrors.  The safety properties of Daemon follow from one inductive   *)
(* invariant, IInv, whose parts each state one agreement of the threads.   *)
(***************************************************************************)
EXTENDS Daemon, TLAPS

\* From the moment the drop flag is cleared to the end of the command, a set
\* flag can only mean a drop in this pause, or a late one of the pause before.
AckPCs == {"setMotor", "waitAck", "checkAck", "closePcm", "nullPcm",
           "stopSync", "motorOpen", "motorMove", "resume", "rebind",
           "unpause"}

MotorPausedPCs == {"waitAck", "checkAck", "closePcm", "nullPcm", "stopSync",
                   "motorOpen", "motorMove", "resume"}

\* The audio thread after its start-up and before its exit.
AudioLoopPCs ==
    AudioPCs \ (AudioStartPCs \cup AudioExitPCs \cup {"none", "done"})

\* The command thread owns the two pause flags and the motor.
FlagsFollowCmd ==
    /\ motorPaused <=> cmdPC \in MotorPausedPCs
    /\ gAudioPaused <=> cmdPC \in AckPCs \cup {"clearAck"}
    /\ motorHeld <=> cmdPC = "motorMove"

\* Threads exist only once the main thread has created them.
ThreadsCreated ==
    /\ mainPC \in {"init", "setRunning", "startAudio", "failed"} =>
           audioPC = "none"
    /\ mainPC \in StartPCs \cup {"failed"} => cmdPC = "none"
    /\ mainPC \in {"release", "joinCmd", "exited"} =>
           audioPC \in {"none", "done"}
    /\ mainPC = "exited" => cmdPC \in {"none", "done"}

\* The audio thread goes round its loop and touches nothing.
AudioParked == audioPC \in {"loop", "check", "pausedBranch"} /\ wasPaused

\* The hand-over: a set drop flag means that the audio thread is parked.
DropMeansParked ==
    gAudioDropped /\ cmdPC \in AckPCs => AudioParked

\* Who may hold which state of g_pcm.
PcmOwner ==
    /\ audioPC \in AudioUsePCs \cup {"ack", "setRunning"} => pcm = "open"
    /\ audioPC = "reopen" => pcm = "null"
    /\ audioPC = "nullOld" => pcm = "freed"
    /\ pcm = "freed" => audioPC = "nullOld" \/ cmdPC = "nullPcm"
    /\ cmdPC = "closePcm" => pcm = "open" /\ gAudioDropped
    /\ cmdPC = "nullPcm" => pcm = "freed" /\ gAudioDropped

\* What an acknowledged pause has achieved.
AckedMeansClosed ==
    acked => /\ cmdPC \in MotorPausedPCs \ {"waitAck", "checkAck"}
             /\ gAudioDropped
             /\ cmdPC \notin {"closePcm", "nullPcm"} => pcm = "null"

\* The audio thread leaves its loop only when shutdown tells it to.
AudioKeepsRunning ==
    /\ audioPC \in AudioLoopPCs => gAudioRunning
    /\ audioPC \notin AudioExitPCs

BeforeStop == /\ DropMeansParked /\ PcmOwner
              /\ AckedMeansClosed /\ AudioKeepsRunning

\* Without an audio thread there is no handle, shutdown or not.
NoThreadNoHandle ==
    /\ audioPC \in {"none", "done"} /\ cmdPC \notin {"closePcm", "nullPcm"}
         => pcm = "null"
    /\ audioPC \in {"none", "rebind", "open"}
         => pcm = "null" /\ cmdPC \notin {"closePcm", "nullPcm"}

ParkedPCs == MainPCs \ (StartPCs \cup {"failed", "depth", "video"})

SyncFollowsMain ==
    /\ mainParked => /\ cmdPC \in {"motorOpen", "motorMove", "resume"}
                     /\ ~syncOn
                     /\ mainPC \in ParkedPCs
    /\ mainPC \in {"joinCmd", "exited"} => ~syncOn

IntrusionsCounted ==
    /\ ~motorPaused \/ mainPC = "depth" => intrusions = 0
    /\ mainPC = "video" => intrusions <= 1
    /\ intrusions <= 2

IInv == /\ TypeOK
        /\ FlagsFollowCmd /\ ThreadsCreated
        /\ ~Stopping => BeforeStop
        /\ NoThreadNoHandle /\ SyncFollowsMain /\ IntrusionsCounted

(* Progress.  How many steps of its own each thread has left at most: the  *)
(* command thread until its next select, the other two once they are told  *)
(* to stop.                                                                *)

CmdStepsLeft ==
    CASE cmdPC \in {"none", "done"} -> 0
      [] cmdPC = "top" -> 1
      [] cmdPC = "reply" -> 2
      [] cmdPC = "unpause" -> 3
      [] cmdPC = "rebind" -> 4
      [] cmdPC = "resume" -> 5
      [] cmdPC = "motorMove" -> IF ops = 2 THEN 8 ELSE 6
      [] cmdPC = "motorOpen" -> IF ops = 2 THEN 9 ELSE 7
      [] cmdPC = "stopSync" -> 10
      [] cmdPC = "nullPcm" -> 11
      [] cmdPC = "closePcm" -> 12
      [] cmdPC = "checkAck" -> 13
      [] cmdPC = "waitAck" -> 14 + polls
      [] cmdPC = "setMotor" -> PausePolls + 15
      [] cmdPC = "clearAck" -> PausePolls + 16
      [] cmdPC = "pause" -> PausePolls + 17
      [] cmdPC = "recv" -> PausePolls + 18
      [] cmdPC = "select" -> PausePolls + 19

MainStepsLeft ==
    CASE mainPC \in {"failed", "exited"} -> 0
      [] mainPC = "joinCmd" -> 1
      [] mainPC = "release" -> 2
      [] mainPC = "joinAudio" -> 3
      [] mainPC = "stopAudio" -> 4
      [] mainPC = "stop" -> 5
      [] mainPC = "clearG" -> 6
      [] mainPC = "loopExit" -> 7
      [] mainPC = "loopTop" -> 8
      [] mainPC = "video" -> 9
      [] mainPC = "depth" -> 10
      [] mainPC = "checkPaused" -> 11

AudioStepsLeft ==
    CASE audioPC \in {"none", "done"} -> 0
      [] audioPC = "exitNull" -> 1
      [] audioPC = "exitClose" -> 2
      [] audioPC = "exitCheck" -> 3
      [] audioPC = "loop" -> 4
      [] audioPC \in {"read", "ack", "reconfigure"} -> 5
      [] audioPC \in {"hasPcm", "drop"} -> 6
      [] audioPC = "pausedBranch" -> 7
      [] audioPC = "reopen" -> 6 + (ReopenRetries - retry)
      [] audioPC = "nullOld" -> 7 + ReopenRetries
      [] audioPC = "closeOld" -> 8 + ReopenRetries
      [] audioPC = "resumeBranch" -> 9 + ReopenRetries
      [] audioPC = "check" -> 10 + ReopenRetries

\* The places of the command thread between a command and its answer
Answering == AckPCs \cup {"pause", "clearAck", "reply"}

\* Nobody takes the command thread back to where it was, and a command that
\* was begun is not left before its answer.
CommandCloser ==
    cmdPC \notin {"none", "done", "top"} =>
        /\ CmdStepsLeft' <= CmdStepsLeft
        /\ CmdNext => CmdStepsLeft' < CmdStepsLeft
        /\ cmdPC \in Answering \ {"reply"} => cmdPC' \in Answering

\* Once they are told to stop, neither does anybody the three threads.
MainCloser ==
    stopAsked /\ mainPC \notin StartPCs =>
        /\ MainStepsLeft' <= MainStepsLeft
        /\ MainNext => MainStepsLeft' < MainStepsLeft

AudioCloser ==
    ~gAudioRunning /\ AudioSettled =>
        /\ ~gAudioRunning' /\ AudioSettled'
        /\ AudioStepsLeft' <= AudioStepsLeft
        /\ AudioNext => AudioStepsLeft' < AudioStepsLeft

LastCommandCloser ==
    ~gRunning /\ mainPC \notin StartPCs =>
        /\ ~gRunning'
        /\ CmdStepsLeft' <= CmdStepsLeft
        /\ CmdNext => CmdStepsLeft' < CmdStepsLeft

StopAsked ==
    stopAsked => ~gRunning /\ ~running /\ mainPC \notin {"init", "setRunning"}

-----------------------------------------------------------------------------
(* Type correctness *)

\* The audio thread keeps every variable in its type.
LEMMA AudioKeepsTypes == TypeOK /\ AudioNext => TypeOK'
<1> SUFFICES ASSUME TypeOK, AudioNext PROVE TypeOK'
  OBVIOUS
<1> USE BoundsAssumption
<1> USE DEF TypeOK, FlagsTyped, CountersTyped, PcmStates, AudioPCs,
      AudioStartPCs, AudioExitPCs, AudioMoves, AudioFrame, AudioGoto,
      mainVars, cmdVars, history
<1>1. CASE AudioRebind
  <2>1. cardBound' \in BOOLEAN
    BY <1>1, Zenon DEF AudioRebind
  <2> QED
    BY <1>1, <2>1 DEF AudioRebind
<1>2. CASE AudioOpen
  BY <1>2 DEF AudioOpen
<1>3. CASE AudioConfigure
  BY <1>3 DEF AudioConfigure
<1>4. CASE AudioSetRunning
  <2>1. gAudioRunning' \in BOOLEAN
    BY <1>4, Zenon DEF AudioSetRunning
  <2>2. wasPaused' \in BOOLEAN
    BY <1>4, Zenon DEF AudioSetRunning
  <2> QED
    BY <1>4, <2>1, <2>2 DEF AudioSetRunning
<1>5. CASE AudioLoop
  BY <1>5 DEF AudioLoop
<1>6. CASE AudioCheck
  BY <1>6 DEF AudioCheck
<1>7. CASE AudioPausedBranch
  <2>1. wasPaused' \in BOOLEAN
    BY <1>7, Zenon DEF AudioPausedBranch
  <2> QED
    BY <1>7, <2>1 DEF AudioPausedBranch
<1>8. CASE AudioDrop
  BY <1>8 DEF AudioDrop
<1>9. CASE AudioAck
  <2>1. gAudioDropped' \in BOOLEAN
    BY <1>9, Zenon DEF AudioAck
  <2>2. wasPaused' \in BOOLEAN
    BY <1>9, Zenon DEF AudioAck
  <2> QED
    BY <1>9, <2>1, <2>2 DEF AudioAck
<1>10. CASE AudioResumeBranch
  BY <1>10 DEF AudioResumeBranch
<1>11. CASE AudioCloseOld
  BY <1>11 DEF AudioCloseOld
<1>12. CASE AudioNullOld
  BY <1>12 DEF AudioNullOld
<1>13. CASE AudioReopen
  <2>1. wasPaused' \in BOOLEAN
    BY <1>13, Zenon DEF AudioReopen
  <2> QED
    BY <1>13, <2>1 DEF AudioReopen
<1>14. CASE AudioReconfigure
  <2>1. wasPaused' \in BOOLEAN
    BY <1>14, Zenon DEF AudioReconfigure
  <2> QED
    BY <1>14, <2>1 DEF AudioReconfigure
<1>15. CASE AudioHasPcm
  BY <1>15 DEF AudioHasPcm
<1>16. CASE AudioRead
  BY <1>16 DEF AudioRead
<1>17. CASE AudioExitCheck
  BY <1>17 DEF AudioExitCheck
<1>18. CASE AudioExitClose
  BY <1>18 DEF AudioExitClose
<1>19. CASE AudioExitNull
  BY <1>19 DEF AudioExitNull
<1> QED
  BY <1>1, <1>2, <1>3, <1>4, <1>5, <1>6, <1>7, <1>8, <1>9, <1>10, <1>11,
     <1>12, <1>13, <1>14, <1>15, <1>16, <1>17, <1>18, <1>19 DEF AudioNext,
     AudioStart, AudioPause, AudioResume, AudioExit

\* The main thread keeps every variable in its type.
LEMMA MainKeepsTypes == TypeOK /\ MainNext => TypeOK'
<1> SUFFICES ASSUME TypeOK, MainNext PROVE TypeOK'
  OBVIOUS
<1> USE BoundsAssumption
<1> USE DEF TypeOK, FlagsTyped, CountersTyped, PcmStates, MainPCs, StartPCs,
      LoopPCs, StoppingPCs, AudioPCs, AudioStartPCs, CmdPCs, MainMoves,
      MainFrame, MainGoto, MainLocals, SyncCall
<1>1. CASE MainInit
  <2>1. syncOn' \in BOOLEAN
    BY <1>1, Zenon DEF MainInit
  <2> QED
    BY <1>1, <2>1 DEF MainInit
<1>2. CASE MainSetRunning
  <2>1. running' \in BOOLEAN
    BY <1>2, Zenon DEF MainSetRunning
  <2> QED
    BY <1>2, <2>1 DEF MainSetRunning
<1>3. CASE MainStartAudio
  BY <1>3 DEF MainStartAudio
<1>4. CASE MainStartSocket
  BY <1>4 DEF MainStartSocket
<1>5. CASE MainLoopTop
  BY <1>5 DEF MainLoopTop
<1>6. CASE MainCheckPaused
  <2>1. wasMotorPaused' \in BOOLEAN
    BY <1>6, Zenon DEF MainCheckPaused
  <2> QED
    BY <1>6, <2>1 DEF MainCheckPaused
<1>7. CASE MainDepthOk
  <2>1. syncOn' \in BOOLEAN
    BY <1>7, Zenon DEF MainDepthOk
  <2>2. deviceOk' \in BOOLEAN
    BY <1>7, Zenon DEF MainDepthOk
  <2> QED
    BY <1>7, <2>1, <2>2 DEF MainDepthOk
<1>8. CASE MainDepthError
  <2>1. syncOn' \in BOOLEAN
    BY <1>8, Zenon DEF MainDepthError
  <2> QED
    BY <1>8, <2>1 DEF MainDepthError
<1>9. CASE MainDeviceLost
  <2>1. syncOn' \in BOOLEAN
    BY <1>9, Zenon DEF MainDeviceLost
  <2>2. deviceOk' \in BOOLEAN
    BY <1>9, Zenon DEF MainDeviceLost
  <2> QED
    BY <1>9, <2>1, <2>2 DEF MainDeviceLost
<1>10. CASE MainVideo
  <2>1. syncOn' \in BOOLEAN
    BY <1>10, Zenon DEF MainVideo
  <2> QED
    BY <1>10, <2>1 DEF MainVideo
<1>11. CASE MainLoopExit
  <2>1. syncOn' \in BOOLEAN
    BY <1>11, Zenon DEF MainLoopExit
  <2> QED
    BY <1>11, <2>1 DEF MainLoopExit
<1>12. CASE MainClearG
  <2>1. gRunning' \in BOOLEAN
    BY <1>12, Zenon DEF MainClearG
  <2> QED
    BY <1>12, <2>1 DEF MainClearG
<1>13. CASE MainStop
  <2>1. running' \in BOOLEAN
    BY <1>13, Zenon DEF MainStop
  <2> QED
    BY <1>13, <2>1 DEF MainStop
<1>14. CASE MainStopAudio
  <2>1. gAudioRunning' \in BOOLEAN
    BY <1>14, Zenon DEF MainStopAudio
  <2> QED
    BY <1>14, <2>1 DEF MainStopAudio
<1>15. CASE MainJoinAudio
  BY <1>15 DEF MainJoinAudio
<1>16. CASE MainRelease
  <2>1. syncOn' \in BOOLEAN
    BY <1>16, Zenon DEF MainRelease
  <2> QED
    BY <1>16, <2>1 DEF MainRelease
<1>17. CASE MainJoinCmd
  BY <1>17 DEF MainJoinCmd
<1> QED
  BY <1>1, <1>2, <1>3, <1>4, <1>5, <1>6, <1>7, <1>8, <1>9, <1>10, <1>11,
     <1>12, <1>13, <1>14, <1>15, <1>16, <1>17 DEF MainNext, MainStart,
     MainPoll, MainShutdown

\* The command thread keeps every variable in its type.
LEMMA CmdKeepsTypes == TypeOK /\ CmdNext => TypeOK'
<1> SUFFICES ASSUME TypeOK, CmdNext PROVE TypeOK'
  OBVIOUS
<1> USE BoundsAssumption
<1> USE DEF TypeOK, FlagsTyped, CountersTyped, PcmStates, CmdPCs,
      MotorSection, CmdMoves, CmdFrame, CmdGoto, CmdFlags, CmdAux,
      NextMotorCall, devices, mainVars, audioVars
<1>1. CASE CmdTop
  BY <1>1 DEF CmdTop
<1>2. CASE CmdSelectTimeout
  BY <1>2 DEF CmdSelectTimeout
<1>3. CASE CmdReceive
  BY <1>3 DEF CmdReceive
<1>4. CASE CmdReply
  BY <1>4 DEF CmdReply
<1>5. CASE CmdPause
  <2>1. gAudioPaused' \in BOOLEAN
    BY <1>5, Zenon DEF CmdPause
  <2> QED
    BY <1>5, <2>1 DEF CmdPause
<1>6. CASE CmdClearAck
  <2>1. gAudioDropped' \in BOOLEAN
    BY <1>6, Zenon DEF CmdClearAck
  <2> QED
    BY <1>6, <2>1 DEF CmdClearAck
<1>7. CASE CmdSetMotor
  <2>1. motorPaused' \in BOOLEAN
    BY <1>7, Zenon DEF CmdSetMotor
  <2> QED
    BY <1>7, <2>1 DEF CmdSetMotor
<1>8. CASE CmdWaitAck
  BY <1>8 DEF CmdWaitAck
<1>9. CASE CmdCheckAck
  <2>1. acked' \in BOOLEAN
    BY <1>9, Zenon DEF CmdCheckAck
  <2> QED
    BY <1>9, <2>1 DEF CmdCheckAck
<1>10. CASE CmdClosePcm
  BY <1>10 DEF CmdClosePcm
<1>11. CASE CmdNullPcm
  BY <1>11 DEF CmdNullPcm
<1>12. CASE CmdStopSync
  <2>1. syncOn' \in BOOLEAN
    BY <1>12, Zenon DEF CmdStopSync
  <2>2. mainParked' \in BOOLEAN
    BY <1>12 DEF CmdStopSync
  <2> QED
    BY <1>12, <2>1, <2>2 DEF CmdStopSync
<1>13. CASE MotorOpen
  <2>1. cardBound' \in BOOLEAN
    BY <1>13, Zenon DEF MotorOpen
  <2>2. motorHeld' \in BOOLEAN
    BY <1>13, Zenon DEF MotorOpen
  <2> QED
    BY <1>13, <2>1, <2>2 DEF MotorOpen
<1>14. CASE MotorOpenFails
  <2>1. cardBound' \in BOOLEAN
    BY <1>14, Zenon DEF MotorOpenFails
  <2> QED
    BY <1>14, <2>1 DEF MotorOpenFails
<1>15. CASE MotorTransferAndClose
  <2>1. motorHeld' \in BOOLEAN
    BY <1>15, Zenon DEF MotorTransferAndClose
  <2> QED
    BY <1>15, <2>1 DEF MotorTransferAndClose
<1>16. CASE CmdResume
  <2>1. motorPaused' \in BOOLEAN
    BY <1>16, Zenon DEF CmdResume
  <2>2. acked' \in BOOLEAN
    BY <1>16, Zenon DEF CmdResume
  <2>3. mainParked' \in BOOLEAN
    BY <1>16, Zenon DEF CmdResume
  <2> QED
    BY <1>16, <2>1, <2>2, <2>3 DEF CmdResume
<1>17. CASE CmdRebind
  <2>1. cardBound' \in BOOLEAN
    BY <1>17, Zenon DEF CmdRebind
  <2> QED
    BY <1>17, <2>1 DEF CmdRebind
<1>18. CASE CmdUnpause
  <2>1. gAudioPaused' \in BOOLEAN
    BY <1>18, Zenon DEF CmdUnpause
  <2> QED
    BY <1>18, <2>1 DEF CmdUnpause
<1>19. CASE CmdAccept
  BY <1>19 DEF CmdAccept
<1> QED
  BY <1>1, <1>2, <1>3, <1>4, <1>5, <1>6, <1>7, <1>8, <1>9, <1>10, <1>11,
     <1>12, <1>13, <1>14, <1>15, <1>16, <1>17, <1>18, <1>19 DEF CmdNext,
     CmdProgress, PauseSteps, MotorSteps, ResumeSteps

\* A signal keeps every variable in its type.
LEMMA SignalKeepsTypes == TypeOK /\ Signal => TypeOK'
<1> SUFFICES ASSUME TypeOK, Signal PROVE TypeOK'
  OBVIOUS
<1> USE DEF TypeOK, Signal, devices, mainVars, audioVars, cmdVars
<1>1. FlagsTyped'
  <2>1. gRunning' \in BOOLEAN /\ running' \in BOOLEAN
    BY Zenon
  <2>2. stopAsked' \in BOOLEAN
    BY Zenon
  <2> QED
    BY <2>1, <2>2 DEF FlagsTyped
<1>2. CountersTyped'
  BY DEF CountersTyped
<1> QED
  BY <1>1, <1>2

\* The initial states have their types.
LEMMA InitTypes == Init => TypeOK
<1> SUFFICES ASSUME Init PROVE TypeOK
  OBVIOUS
<1>1. FlagsTyped
  BY Zenon DEF Init, FlagsTyped
<1>2. CountersTyped
  BY BoundsAssumption DEF Init, CountersTyped, PcmStates, MainPCs, StartPCs,
     AudioPCs, CmdPCs
<1> QED
  BY <1>1, <1>2 DEF TypeOK

\* Every variable of the daemon keeps to its type.
THEOREM TypeCorrect == Spec => []TypeOK
<1>1. TypeOK /\ [Next]_vars => TypeOK'
  <2> SUFFICES ASSUME TypeOK, [Next]_vars PROVE TypeOK'
    OBVIOUS
  <2>1. CASE AudioNext
    BY <2>1, AudioKeepsTypes
  <2>2. CASE MainNext
    BY <2>2, MainKeepsTypes
  <2>3. CASE CmdNext
    BY <2>3, CmdKeepsTypes
  <2>4. CASE Signal
    BY <2>4, SignalKeepsTypes
  <2>5. CASE UNCHANGED vars
    BY <2>5 DEF TypeOK, FlagsTyped, CountersTyped, vars, flags, devices,
                mainVars, audioVars, cmdVars, history
  <2> QED
    BY <2>1, <2>2, <2>3, <2>4, <2>5 DEF Next
<1> QED
  BY <1>1, InitTypes, PTL DEF Spec

-----------------------------------------------------------------------------
(* The inductive invariant *)

\* The audio thread keeps the agreements.
LEMMA AudioKeepsIInv == IInv /\ AudioNext => IInv'
<1> SUFFICES ASSUME IInv, AudioNext PROVE IInv'
  OBVIOUS
<1>t. TypeOK'
  BY AudioKeepsTypes DEF IInv
<1> USE DEF FlagsFollowCmd, ThreadsCreated, Stopping, BeforeStop,
      DropMeansParked, PcmOwner, AckedMeansClosed, AudioKeepsRunning,
      NoThreadNoHandle, SyncFollowsMain, IntrusionsCounted, AudioParked
<1> USE DEF IInv, TypeOK, FlagsTyped, CountersTyped, PcmStates, StartPCs,
      LoopPCs, StoppingPCs, MainPCs, AudioStartPCs, AudioExitPCs, AudioPCs,
      MotorSection, CmdPCs, AudioUsePCs, AckPCs, MotorPausedPCs,
      AudioLoopPCs, ParkedPCs
<1> USE DEF AudioMoves, AudioFrame, AudioGoto, mainVars, cmdVars, history
<1>1. CASE AudioRebind
  BY <1>t, <1>1 DEF AudioRebind
<1>2. CASE AudioOpen
  BY <1>t, <1>2 DEF AudioOpen
<1>3. CASE AudioConfigure
  BY <1>t, <1>3 DEF AudioConfigure
<1>4. CASE AudioSetRunning
  BY <1>t, <1>4 DEF AudioSetRunning
<1>5. CASE AudioLoop
  BY <1>t, <1>5 DEF AudioLoop
<1>6. CASE AudioCheck
  BY <1>t, <1>6 DEF AudioCheck
<1>7. CASE AudioPausedBranch
  BY <1>t, <1>7 DEF AudioPausedBranch
<1>8. CASE AudioDrop
  BY <1>t, <1>8 DEF AudioDrop
<1>9. CASE AudioAck
  BY <1>t, <1>9 DEF AudioAck
<1>10. CASE AudioResumeBranch
  BY <1>t, <1>10 DEF AudioResumeBranch
<1>11. CASE AudioCloseOld
  BY <1>t, <1>11 DEF AudioCloseOld
<1>12. CASE AudioNullOld
  BY <1>t, <1>12 DEF AudioNullOld
<1>13. CASE AudioReopen
  BY <1>t, <1>13 DEF AudioReopen
<1>14. CASE AudioReconfigure
  BY <1>t, <1>14 DEF AudioReconfigure
<1>15. CASE AudioHasPcm
  BY <1>t, <1>15 DEF AudioHasPcm
<1>16. CASE AudioRead
  BY <1>t, <1>16 DEF AudioRead
<1>17. CASE AudioExitCheck
  BY <1>t, <1>17 DEF AudioExitCheck
<1>18. CASE AudioExitClose
  BY <1>t, <1>18 DEF AudioExitClose
<1>19. CASE AudioExitNull
  BY <1>t, <1>19 DEF AudioExitNull
<1> QED
  BY <1>1, <1>2, <1>3, <1>4, <1>5, <1>6, <1>7, <1>8, <1>9, <1>10, <1>11,
     <1>12, <1>13, <1>14, <1>15, <1>16, <1>17, <1>18, <1>19 DEF AudioNext,
     AudioStart, AudioPause, AudioResume, AudioExit

\* The main thread keeps the agreements.
LEMMA MainKeepsIInv == IInv /\ MainNext => IInv'
<1> SUFFICES ASSUME IInv, MainNext PROVE IInv'
  OBVIOUS
<1>t. TypeOK'
  BY MainKeepsTypes DEF IInv
<1> USE DEF FlagsFollowCmd, ThreadsCreated, Stopping, BeforeStop,
      DropMeansParked, PcmOwner, AckedMeansClosed, AudioKeepsRunning,
      NoThreadNoHandle, SyncFollowsMain, IntrusionsCounted, AudioParked
<1> USE DEF IInv, TypeOK, FlagsTyped, CountersTyped, PcmStates, StartPCs,
      LoopPCs, StoppingPCs, MainPCs, AudioStartPCs, AudioExitPCs, AudioPCs,
      MotorSection, CmdPCs, AudioUsePCs, AckPCs, MotorPausedPCs,
      AudioLoopPCs, ParkedPCs
<1> USE DEF MainMoves, MainFrame, MainGoto, MainLocals, SyncCall
<1>1. CASE MainInit
  BY <1>t, <1>1 DEF MainInit
<1>2. CASE MainSetRunning
  BY <1>t, <1>2 DEF MainSetRunning
<1>3. CASE MainStartAudio
  BY <1>t, <1>3 DEF MainStartAudio
<1>4. CASE MainStartSocket
  BY <1>t, <1>4 DEF MainStartSocket
<1>5. CASE MainLoopTop
  BY <1>t, <1>5 DEF MainLoopTop
<1>6. CASE MainCheckPaused
  BY <1>t, <1>6 DEF MainCheckPaused
<1>7. CASE MainDepthOk
  BY <1>t, <1>7 DEF MainDepthOk
<1>8. CASE MainDepthError
  BY <1>t, <1>8 DEF MainDepthError
<1>9. CASE MainDeviceLost
  BY <1>t, <1>9 DEF MainDeviceLost
<1>10. CASE MainVideo
  BY <1>t, <1>10 DEF MainVideo
<1>11. CASE MainLoopExit
  BY <1>t, <1>11 DEF MainLoopExit
<1>12. CASE MainClearG
  BY <1>t, <1>12 DEF MainClearG
<1>13. CASE MainStop
  BY <1>t, <1>13 DEF MainStop
<1>14. CASE MainStopAudio
  BY <1>t, <1>14 DEF MainStopAudio
<1>15. CASE MainJoinAudio
  BY <1>t, <1>15 DEF MainJoinAudio
<1>16. CASE MainRelease
  BY <1>t, <1>16 DEF MainRelease
<1>17. CASE MainJoinCmd
  BY <1>t, <1>17 DEF MainJoinCmd
<1> QED
  BY <1>1, <1>2, <1>3, <1>4, <1>5, <1>6, <1>7, <1>8, <1>9, <1>10, <1>11,
     <1>12, <1>13, <1>14, <1>15, <1>16, <1>17 DEF MainNext, MainStart,
     MainPoll, MainShutdown

\* The command thread keeps the agreements.
LEMMA CmdKeepsIInv == IInv /\ CmdNext => IInv'
<1> SUFFICES ASSUME IInv, CmdNext PROVE IInv'
  OBVIOUS
<1>t. TypeOK'
  BY CmdKeepsTypes DEF IInv
<1> USE DEF FlagsFollowCmd, ThreadsCreated, Stopping, BeforeStop,
      DropMeansParked, PcmOwner, AckedMeansClosed, AudioKeepsRunning,
      NoThreadNoHandle, SyncFollowsMain, IntrusionsCounted, AudioParked
<1> USE DEF IInv, TypeOK, FlagsTyped, CountersTyped, PcmStates, StartPCs,
      LoopPCs, StoppingPCs, MainPCs, AudioStartPCs, AudioExitPCs, AudioPCs,
      MotorSection, CmdPCs, AudioUsePCs, AckPCs, MotorPausedPCs,
      AudioLoopPCs, ParkedPCs
<1> USE DEF CmdMoves, CmdFrame, CmdGoto, CmdFlags, CmdAux, NextMotorCall,
      devices, mainVars, audioVars
<1>1. CASE CmdTop
  BY <1>t, <1>1 DEF CmdTop
<1>2. CASE CmdSelectTimeout
  BY <1>t, <1>2 DEF CmdSelectTimeout
<1>3. CASE CmdReceive
  BY <1>t, <1>3 DEF CmdReceive
<1>4. CASE CmdReply
  BY <1>t, <1>4 DEF CmdReply
<1>5. CASE CmdPause
  BY <1>t, <1>5 DEF CmdPause
<1>6. CASE CmdClearAck
  BY <1>t, <1>6 DEF CmdClearAck
<1>7. CASE CmdSetMotor
  BY <1>t, <1>7 DEF CmdSetMotor
<1>8. CASE CmdWaitAck
  BY <1>t, <1>8 DEF CmdWaitAck
<1>9. CASE CmdCheckAck
  BY <1>t, <1>9 DEF CmdCheckAck
<1>10. CASE CmdClosePcm
  BY <1>t, <1>10 DEF CmdClosePcm
<1>11. CASE CmdNullPcm
  BY <1>t, <1>11 DEF CmdNullPcm
<1>12. CASE CmdStopSync
  BY <1>t, <1>12 DEF CmdStopSync
<1>13. CASE MotorOpen
  BY <1>t, <1>13 DEF MotorOpen
<1>14. CASE MotorOpenFails
  BY <1>t, <1>14 DEF MotorOpenFails
<1>15. CASE MotorTransferAndClose
  BY <1>t, <1>15 DEF MotorTransferAndClose
<1>16. CASE CmdResume
  BY <1>t, <1>16 DEF CmdResume
<1>17. CASE CmdRebind
  BY <1>t, <1>17 DEF CmdRebind
<1>18. CASE CmdUnpause
  BY <1>t, <1>18 DEF CmdUnpause
<1>19. CASE CmdAccept
  BY <1>t, <1>19 DEF CmdAccept
<1> QED
  BY <1>1, <1>2, <1>3, <1>4, <1>5, <1>6, <1>7, <1>8, <1>9, <1>10, <1>11,
     <1>12, <1>13, <1>14, <1>15, <1>16, <1>17, <1>18, <1>19 DEF CmdNext,
     CmdProgress, PauseSteps, MotorSteps, ResumeSteps

\* All the agreements of the threads hold for ever.
THEOREM Agreements == Spec => []IInv
<1>1. Init => IInv
  <2> SUFFICES ASSUME Init PROVE IInv
    OBVIOUS
  <2> USE DEF Init
  <2>1. TypeOK
    BY InitTypes
  <2>2. FlagsFollowCmd /\ ThreadsCreated /\ NoThreadNoHandle
    BY DEF FlagsFollowCmd, ThreadsCreated, NoThreadNoHandle, MotorPausedPCs,
           AckPCs, StartPCs
  <2>3. BeforeStop
    BY DEF BeforeStop, DropMeansParked, PcmOwner, AckedMeansClosed,
           AudioKeepsRunning, AudioUsePCs, AudioLoopPCs, AudioExitPCs
  <2>4. SyncFollowsMain /\ IntrusionsCounted
    BY DEF SyncFollowsMain, IntrusionsCounted
  <2> QED
    BY <2>1, <2>2, <2>3, <2>4 DEF IInv
<1>2. IInv /\ [Next]_vars => IInv'
  <2> SUFFICES ASSUME IInv, [Next]_vars PROVE IInv'
    OBVIOUS
  <2>1. CASE AudioNext
    BY <2>1, AudioKeepsIInv
  <2>2. CASE MainNext
    BY <2>2, MainKeepsIInv
  <2>3. CASE CmdNext
    BY <2>3, CmdKeepsIInv
  <2>4. CASE Signal
    BY <2>4, SignalKeepsTypes DEF Signal, devices, mainVars, audioVars,
       cmdVars, IInv, FlagsFollowCmd, ThreadsCreated, Stopping, BeforeStop,
       DropMeansParked, PcmOwner, AckedMeansClosed, AudioKeepsRunning,
       NoThreadNoHandle, SyncFollowsMain, IntrusionsCounted, AudioParked
  <2>5. CASE UNCHANGED vars
    <3> USE DEF vars, flags, devices, mainVars, audioVars, cmdVars, history
    <3>1. TypeOK'
      BY <2>5 DEF IInv, TypeOK, FlagsTyped, CountersTyped
    <3> QED
      BY <2>5, <3>1 DEF IInv, FlagsFollowCmd, ThreadsCreated, Stopping,
         BeforeStop, DropMeansParked, PcmOwner, AckedMeansClosed,
         AudioKeepsRunning, NoThreadNoHandle, SyncFollowsMain,
         IntrusionsCounted, AudioParked
  <2> QED
    BY <2>1, <2>2, <2>3, <2>4, <2>5 DEF Next
<1> QED
  BY <1>1, <1>2, PTL DEF Spec

-----------------------------------------------------------------------------
(* The safety properties of Daemon *)

\* Before shutdown no thread uses an ALSA handle the other has closed, and the
\* command thread never closes one that is in use (kinect.c:306).
THEOREM NoUseAfterClose == Spec => []PcmNeverUsedAfterClose
<1>1. IInv => PcmNeverUsedAfterClose
  BY DEF IInv, BeforeStop, PcmOwner, DropMeansParked, AudioParked,
         PcmNeverUsedAfterClose, AckPCs, AudioUsePCs
<1> QED
  BY <1>1, Agreements, PTL

\* Before shutdown no ALSA handle is lost by opening over it.
THEOREM NoLeak == Spec => []NoHandleLeaked
<1>1. IInv => NoHandleLeaked
  BY DEF IInv, BeforeStop, PcmOwner, NoThreadNoHandle, NoHandleLeaked
<1> QED
  BY <1>1, Agreements, PTL

\* An acknowledged pause keeps ALSA closed and the audio thread out of it
\* through all of the motor calls.
THEOREM AckedPause == Spec => []AckedPauseKeepsAlsaClosed
<1>1. IInv => AckedPauseKeepsAlsaClosed
  BY DEF IInv, BeforeStop, PcmOwner, DropMeansParked, AckedMeansClosed,
         AudioParked, AckedPauseKeepsAlsaClosed, AckPCs, MotorSection,
         AudioUsePCs
<1> QED
  BY <1>1, Agreements, PTL

\* Sync stays stopped in every pause that found the main loop at its top.
THEOREM ParkedMain == Spec => []ParkedMainKeepsSyncStopped
<1>1. IInv => ParkedMainKeepsSyncStopped
  BY DEF IInv, SyncFollowsMain, ParkedMainKeepsSyncStopped
<1> QED
  BY <1>1, Agreements, PTL

\* The main loop touches the device at most twice in any pause.
THEOREM FewIntrusions == Spec => []AtMostTwoIntrusions
<1>1. IInv => AtMostTwoIntrusions
  BY DEF IInv, IntrusionsCounted, AtMostTwoIntrusions
<1> QED
  BY <1>1, Agreements, PTL

\* A shutdown that has come to main's return 0 holds no device
\* (main.c:138-147).
THEOREM ShutdownIsClean == Spec => []CleanShutdown
<1>1. IInv => CleanShutdown
  BY DEF IInv, ThreadsCreated, NoThreadNoHandle, SyncFollowsMain,
         FlagsFollowCmd, CleanShutdown
<1> QED
  BY <1>1, Agreements, PTL

\* PulseAudio and shared memory outlive the thread that writes to them.
THEOREM ReleaseAfterJoin == Spec => []NoWriterAtRelease
<1>1. IInv => NoWriterAtRelease
  BY DEF IInv, ThreadsCreated, NoWriterAtRelease
<1> QED
  BY <1>1, Agreements, PTL
-----------------------------------------------------------------------------
(* Progress *)

LEMMA OthersLeaveCmd ==
    ASSUME AudioNext \/ MainNext \/ Signal \/ UNCHANGED vars,
           mainPC # "startSocket"
    PROVE  UNCHANGED cmdVars
<1> USE DEF cmdVars
<1>1. CASE AudioNext
  BY <1>1 DEF AudioNext, AudioStart, AudioPause, AudioResume, AudioExit,
     AudioRebind, AudioOpen, AudioConfigure, AudioSetRunning, AudioLoop,
     AudioCheck, AudioPausedBranch, AudioDrop, AudioAck, AudioResumeBranch,
     AudioCloseOld, AudioNullOld, AudioReopen, AudioReconfigure, AudioHasPcm,
     AudioRead, AudioExitCheck, AudioExitClose, AudioExitNull, AudioMoves,
     AudioFrame
<1>2. CASE MainNext
  <2>1. CASE MainStartSocket
    BY <2>1 DEF MainStartSocket, MainGoto
  <2>2. CASE \/ MainInit \/ MainSetRunning \/ MainStartAudio
             \/ MainLoopTop \/ MainCheckPaused \/ MainDepthOk
             \/ MainDepthError \/ MainDeviceLost \/ MainVideo
             \/ MainLoopExit \/ MainClearG \/ MainStop
             \/ MainStopAudio \/ MainJoinAudio \/ MainRelease
             \/ MainJoinCmd
    BY <2>2 DEF MainInit, MainSetRunning, MainStartAudio, MainLoopTop,
       MainCheckPaused, MainDepthOk, MainDepthError, MainDeviceLost,
       MainVideo, MainLoopExit, MainClearG, MainStop, MainStopAudio,
       MainJoinAudio, MainRelease, MainJoinCmd, MainMoves, MainFrame
  <2> QED
    BY <1>2, <2>1, <2>2 DEF MainNext, MainStart, MainPoll, MainShutdown
<1>3. CASE Signal \/ UNCHANGED vars
  BY <1>3 DEF Signal, vars
<1> QED
  BY <1>1, <1>2, <1>3

LEMMA CmdCloser ==
    ASSUME TypeOK, CmdNext, cmdPC # "top" \/ ~gRunning
    PROVE  /\ CmdStepsLeft' < CmdStepsLeft
           /\ cmdPC \in Answering \ {"reply"} => cmdPC' \in Answering
<1>1. /\ polls \in 0..PausePolls /\ ops \in 0..2 /\ PausePolls \in Nat
  BY BoundsAssumption DEF TypeOK, CountersTyped
<1> USE DEF CmdGoto, CmdStepsLeft, Answering, AckPCs
<1>2. CASE CmdTop
  BY <1>1, <1>2 DEF CmdTop, CmdMoves
<1>3. CASE CmdSelectTimeout
  BY <1>1, <1>3 DEF CmdSelectTimeout, CmdMoves
<1>4. CASE CmdAccept
  BY <1>1, <1>4 DEF CmdAccept, CmdMoves
<1>5. CASE CmdReceive
  BY <1>1, <1>5 DEF CmdReceive, CmdMoves
<1>6. CASE CmdReply
  BY <1>1, <1>6 DEF CmdReply, CmdMoves
<1>7. CASE CmdPause
  BY <1>1, <1>7 DEF CmdPause
<1>8. CASE CmdClearAck
  BY <1>1, <1>8 DEF CmdClearAck
<1>9. CASE CmdSetMotor
  BY <1>1, <1>9 DEF CmdSetMotor
<1>10. CASE CmdWaitAck
  BY <1>1, <1>10 DEF CmdWaitAck
<1>11. CASE CmdCheckAck
  BY <1>1, <1>11 DEF CmdCheckAck
<1>12. CASE CmdClosePcm
  BY <1>1, <1>12 DEF CmdClosePcm
<1>13. CASE CmdNullPcm
  BY <1>1, <1>13 DEF CmdNullPcm
<1>14. CASE CmdStopSync
  BY <1>1, <1>14 DEF CmdStopSync
<1>15. CASE MotorOpen
  BY <1>1, <1>15 DEF MotorOpen
<1>16. CASE MotorOpenFails
  BY <1>1, <1>16 DEF MotorOpenFails, NextMotorCall
<1>17. CASE MotorTransferAndClose
  BY <1>1, <1>17 DEF MotorTransferAndClose, NextMotorCall
<1>18. CASE CmdResume
  BY <1>1, <1>18 DEF CmdResume
<1>19. CASE CmdRebind
  BY <1>1, <1>19 DEF CmdRebind
<1>20. CASE CmdUnpause
  BY <1>1, <1>20 DEF CmdUnpause
<1> QED
  BY <1>2, <1>3, <1>4, <1>5, <1>6, <1>7, <1>8, <1>9, <1>10, <1>11, <1>12,
     <1>13, <1>14, <1>15, <1>16, <1>17, <1>18, <1>19, <1>20
  DEF CmdNext, CmdProgress, PauseSteps, MotorSteps, ResumeSteps

LEMMA AudioStepCloser ==
    ASSUME TypeOK, AudioNext, ~gAudioRunning, AudioSettled
    PROVE  /\ ~gAudioRunning' /\ AudioSettled'
           /\ AudioStepsLeft' < AudioStepsLeft
<1>1. /\ retry \in 0..(ReopenRetries - 1) /\ ReopenRetries \in Nat \ {0}
  BY BoundsAssumption DEF TypeOK, CountersTyped
<1>2. mainPC' = mainPC
  BY DEF AudioNext, AudioStart, AudioPause, AudioResume, AudioExit,
     AudioRebind, AudioOpen, AudioConfigure, AudioSetRunning, AudioLoop,
     AudioCheck, AudioPausedBranch, AudioDrop, AudioAck, AudioResumeBranch,
     AudioCloseOld, AudioNullOld, AudioReopen, AudioReconfigure, AudioHasPcm,
     AudioRead, AudioExitCheck, AudioExitClose, AudioExitNull, AudioMoves,
     AudioFrame, mainVars
<1>3. mainPC \notin StartPCs /\ audioPC \notin AudioStartPCs
  BY DEF AudioSettled
<1> USE DEF AudioGoto, AudioStepsLeft, AudioStartPCs
<1>4. ~AudioStart
  BY <1>3 DEF AudioStart, AudioRebind, AudioOpen, AudioConfigure,
     AudioSetRunning
<1>5. ASSUME audioPC' \notin AudioStartPCs, gAudioRunning' = gAudioRunning,
             AudioStepsLeft' < AudioStepsLeft
      PROVE  /\ ~gAudioRunning' /\ AudioSettled'
             /\ AudioStepsLeft' < AudioStepsLeft
  <2>1. ~gAudioRunning'
    BY <1>5
  <2>2. AudioSettled'
    BY <1>2, <1>3, <1>5 DEF AudioSettled
  <2> QED
    BY <1>5, <2>1, <2>2
<1>6. CASE AudioLoop
  <2>1. audioPC' \notin AudioStartPCs /\ gAudioRunning' = gAudioRunning
    BY <1>6 DEF AudioLoop, AudioMoves
  <2>2. AudioStepsLeft' < AudioStepsLeft
    BY <1>1, <1>6 DEF AudioLoop, AudioMoves
  <2> QED
    BY <1>5, <2>1, <2>2
<1>7. CASE AudioCheck
  <2>1. audioPC' \notin AudioStartPCs /\ gAudioRunning' = gAudioRunning
    BY <1>7 DEF AudioCheck, AudioMoves
  <2>2. AudioStepsLeft' < AudioStepsLeft
    BY <1>1, <1>7 DEF AudioCheck, AudioMoves
  <2> QED
    BY <1>5, <2>1, <2>2
<1>8. CASE AudioPausedBranch
  <2>1. audioPC' \notin AudioStartPCs /\ gAudioRunning' = gAudioRunning
    BY <1>8 DEF AudioPausedBranch
  <2>2. AudioStepsLeft' < AudioStepsLeft
    BY <1>1, <1>8 DEF AudioPausedBranch
  <2> QED
    BY <1>5, <2>1, <2>2
<1>9. CASE AudioDrop
  <2>1. audioPC' \notin AudioStartPCs /\ gAudioRunning' = gAudioRunning
    BY <1>9 DEF AudioDrop, AudioMoves
  <2>2. AudioStepsLeft' < AudioStepsLeft
    BY <1>1, <1>9 DEF AudioDrop, AudioMoves
  <2> QED
    BY <1>5, <2>1, <2>2
<1>10. CASE AudioAck
  <2>1. audioPC' \notin AudioStartPCs /\ gAudioRunning' = gAudioRunning
    BY <1>10 DEF AudioAck
  <2>2. AudioStepsLeft' < AudioStepsLeft
    BY <1>1, <1>10 DEF AudioAck
  <2> QED
    BY <1>5, <2>1, <2>2
<1>11. CASE AudioResumeBranch
  <2>1. audioPC' \notin AudioStartPCs /\ gAudioRunning' = gAudioRunning
    BY <1>11 DEF AudioResumeBranch
  <2>2. AudioStepsLeft' < AudioStepsLeft
    BY <1>1, <1>11 DEF AudioResumeBranch
  <2> QED
    BY <1>5, <2>1, <2>2
<1>12. CASE AudioCloseOld
  <2>1. audioPC' \notin AudioStartPCs /\ gAudioRunning' = gAudioRunning
    BY <1>12 DEF AudioCloseOld
  <2>2. AudioStepsLeft' < AudioStepsLeft
    BY <1>1, <1>12 DEF AudioCloseOld
  <2> QED
    BY <1>5, <2>1, <2>2
<1>13. CASE AudioNullOld
  <2>1. audioPC' \notin AudioStartPCs /\ gAudioRunning' = gAudioRunning
    BY <1>13 DEF AudioNullOld
  <2>2. AudioStepsLeft' < AudioStepsLeft
    BY <1>1, <1>13 DEF AudioNullOld
  <2> QED
    BY <1>5, <2>1, <2>2
<1>14. CASE AudioReopen
  <2>1. audioPC' \notin AudioStartPCs /\ gAudioRunning' = gAudioRunning
    BY <1>14 DEF AudioReopen
  <2>2. AudioStepsLeft' < AudioStepsLeft
    BY <1>1, <1>14 DEF AudioReopen
  <2> QED
    BY <1>5, <2>1, <2>2
<1>15. CASE AudioReconfigure
  <2>1. audioPC' \notin AudioStartPCs /\ gAudioRunning' = gAudioRunning
    BY <1>15 DEF AudioReconfigure
  <2>2. AudioStepsLeft' < AudioStepsLeft
    BY <1>1, <1>15 DEF AudioReconfigure
  <2> QED
    BY <1>5, <2>1, <2>2
<1>16. CASE AudioHasPcm
  <2>1. audioPC' \notin AudioStartPCs /\ gAudioRunning' = gAudioRunning
    BY <1>16 DEF AudioHasPcm, AudioMoves
  <2>2. AudioStepsLeft' < AudioStepsLeft
    BY <1>1, <1>16 DEF AudioHasPcm, AudioMoves
  <2> QED
    BY <1>5, <2>1, <2>2
<1>17. CASE AudioRead
  <2>1. audioPC' \notin AudioStartPCs /\ gAudioRunning' = gAudioRunning
    BY <1>17 DEF AudioRead, AudioMoves
  <2>2. AudioStepsLeft' < AudioStepsLeft
    BY <1>1, <1>17 DEF AudioRead, AudioMoves
  <2> QED
    BY <1>5, <2>1, <2>2
<1>18. CASE AudioExitCheck
  <2>1. audioPC' \notin AudioStartPCs /\ gAudioRunning' = gAudioRunning
    BY <1>18 DEF AudioExitCheck, AudioMoves
  <2>2. AudioStepsLeft' < AudioStepsLeft
    BY <1>1, <1>18 DEF AudioExitCheck, AudioMoves
  <2> QED
    BY <1>5, <2>1, <2>2
<1>19. CASE AudioExitClose
  <2>1. audioPC' \notin AudioStartPCs /\ gAudioRunning' = gAudioRunning
    BY <1>19 DEF AudioExitClose
  <2>2. AudioStepsLeft' < AudioStepsLeft
    BY <1>1, <1>19 DEF AudioExitClose
  <2> QED
    BY <1>5, <2>1, <2>2
<1>20. CASE AudioExitNull
  <2>1. audioPC' \notin AudioStartPCs /\ gAudioRunning' = gAudioRunning
    BY <1>20 DEF AudioExitNull
  <2>2. AudioStepsLeft' < AudioStepsLeft
    BY <1>1, <1>20 DEF AudioExitNull
  <2> QED
    BY <1>5, <2>1, <2>2
<1> QED
  BY <1>4, <1>6, <1>7, <1>8, <1>9, <1>10, <1>11, <1>12, <1>13, <1>14, <1>15,
     <1>16, <1>17, <1>18, <1>19, <1>20
  DEF AudioNext, AudioPause, AudioResume, AudioExit

LEMMA OthersLeaveAudio ==
    ASSUME MainNext \/ CmdNext \/ Signal \/ UNCHANGED vars,
           ~gAudioRunning, AudioSettled
    PROVE  ~gAudioRunning' /\ AudioSettled' /\ UNCHANGED audioVars
<1>1. mainPC \notin StartPCs /\ audioPC \notin AudioStartPCs
  BY DEF AudioSettled
<1> USE DEF audioVars
<1>2. CASE MainNext
  <2>1. ~MainStart
    BY <1>1 DEF MainStart, MainInit, MainSetRunning, MainStartAudio,
       MainStartSocket, MainGoto, StartPCs
  <2>2. /\ mainPC' \notin StartPCs /\ UNCHANGED audioVars
        /\ gAudioRunning' \in {gAudioRunning, FALSE}
    BY <1>2, <2>1 DEF MainNext, MainPoll, MainShutdown, MainLoopTop,
       MainCheckPaused, MainDepthOk, MainDepthError, MainDeviceLost,
       MainVideo, MainLoopExit, MainClearG, MainStop, MainStopAudio,
       MainJoinAudio, MainRelease, MainJoinCmd, MainMoves, MainFrame,
       MainGoto, StartPCs
  <2>3. ~gAudioRunning'
    BY <2>2
  <2> QED
    BY <1>1, <2>2, <2>3 DEF AudioSettled
<1>3. CASE CmdNext
  <2>1. UNCHANGED <<gAudioRunning, mainVars, audioVars>>
    BY <1>3 DEF CmdNext, CmdProgress, PauseSteps, MotorSteps, ResumeSteps,
       CmdTop, CmdSelectTimeout, CmdAccept, CmdReceive, CmdReply, CmdPause,
       CmdClearAck, CmdSetMotor, CmdWaitAck, CmdCheckAck, CmdClosePcm,
       CmdNullPcm, CmdStopSync, MotorOpen, MotorOpenFails,
       MotorTransferAndClose, CmdResume, CmdRebind, CmdUnpause, CmdMoves,
       CmdFrame
  <2> QED
    BY <1>1, <2>1 DEF AudioSettled, mainVars
<1>4. CASE Signal \/ UNCHANGED vars
  <2>1. UNCHANGED <<gAudioRunning, mainVars, audioVars>>
    BY <1>4 DEF Signal, vars, flags
  <2> QED
    BY <1>1, <2>1 DEF AudioSettled, mainVars
<1> QED
  BY <1>2, <1>3, <1>4

LEMMA OthersLeaveMain ==
    ASSUME AudioNext \/ CmdNext \/ UNCHANGED vars
    PROVE  UNCHANGED <<mainVars, gRunning, running, stopAsked>>
<1>1. CASE AudioNext
  BY <1>1 DEF history, AudioNext, AudioStart, AudioPause, AudioResume,
     AudioExit,
     AudioRebind, AudioOpen, AudioConfigure, AudioSetRunning, AudioLoop,
     AudioCheck, AudioPausedBranch, AudioDrop, AudioAck, AudioResumeBranch,
     AudioCloseOld, AudioNullOld, AudioReopen, AudioReconfigure, AudioHasPcm,
     AudioRead, AudioExitCheck, AudioExitClose, AudioExitNull, AudioMoves,
     AudioFrame
<1>2. CASE CmdNext
  BY <1>2 DEF CmdNext, CmdProgress, PauseSteps, MotorSteps, ResumeSteps,
     CmdTop, CmdSelectTimeout, CmdAccept, CmdReceive, CmdReply, CmdPause,
     CmdClearAck, CmdSetMotor, CmdWaitAck, CmdCheckAck, CmdClosePcm,
     CmdNullPcm, CmdStopSync, MotorOpen, MotorOpenFails,
     MotorTransferAndClose, CmdResume, CmdRebind, CmdUnpause, CmdMoves,
     CmdFrame
<1>3. CASE UNCHANGED vars
  BY <1>3 DEF vars, flags, history
<1> QED
  BY <1>1, <1>2, <1>3

LEMMA MainKeepsStopping ==
    ASSUME MainNext
    PROVE  /\ stopAsked' = stopAsked
           /\ ~gRunning => ~gRunning'
           /\ mainPC \notin {"init", "setRunning"} =>
                  /\ ~running => ~running'
                  /\ mainPC' \notin {"init", "setRunning"}
           /\ mainPC \notin StartPCs => mainPC' \notin StartPCs
<1> USE DEF MainMoves, MainFrame, MainGoto, StartPCs
<1>1. CASE MainStart
  BY <1>1 DEF MainStart, MainInit, MainSetRunning, MainStartAudio,
     MainStartSocket
<1>2. CASE MainPoll
  <2>1. /\ UNCHANGED <<stopAsked, gRunning, running>>
        /\ mainPC' \in {"loopTop", "checkPaused", "depth", "video",
                        "loopExit", "clearG"}
    BY <1>2 DEF MainPoll, MainLoopTop, MainCheckPaused, MainDepthOk,
       MainDepthError, MainDeviceLost, MainVideo, MainLoopExit
  <2> QED
    BY <2>1
<1>3. CASE MainShutdown
  BY <1>3 DEF MainShutdown, MainClearG, MainStop, MainStopAudio,
     MainJoinAudio, MainRelease, MainJoinCmd
<1> QED
  BY <1>1, <1>2, <1>3 DEF MainNext

LEMMA MainStepCloser ==
    ASSUME ~running, mainPC \notin StartPCs, MainNext
    PROVE  MainStepsLeft' < MainStepsLeft
<1> USE DEF MainGoto, MainStepsLeft
<1>1. ~MainStart
  BY DEF MainStart, MainInit, MainSetRunning, MainStartAudio,
     MainStartSocket, StartPCs
<1>2. CASE MainPoll
  <2>1. \/ mainPC = "loopTop" /\ mainPC' = "loopExit"
        \/ mainPC = "checkPaused" /\ mainPC' \in {"loopTop", "depth"}
        \/ mainPC = "depth" /\ mainPC' \in {"loopTop", "video"}
        \/ mainPC = "video" /\ mainPC' = "loopTop"
        \/ mainPC = "loopExit" /\ mainPC' = "clearG"
    BY <1>2 DEF MainPoll, MainLoopTop, MainCheckPaused, MainDepthOk,
       MainDepthError, MainDeviceLost, MainVideo, MainLoopExit
  <2> QED
    BY <2>1
<1>3. CASE MainShutdown
  BY <1>3 DEF MainShutdown, MainClearG, MainStop, MainStopAudio,
     MainJoinAudio, MainRelease, MainJoinCmd
<1> QED
  BY <1>1, <1>2, <1>3 DEF MainNext

LEMMA Counts ==
    ASSUME TypeOK
    PROVE  /\ CmdStepsLeft \in Nat
           /\ mainPC \notin StartPCs => MainStepsLeft \in Nat
           /\ audioPC \notin AudioStartPCs => AudioStepsLeft \in Nat
<1>1. /\ polls \in 0..PausePolls /\ PausePolls \in Nat
      /\ retry \in 0..(ReopenRetries - 1) /\ ReopenRetries \in Nat \ {0}
      /\ mainPC \in MainPCs /\ audioPC \in AudioPCs /\ cmdPC \in CmdPCs
  BY BoundsAssumption DEF TypeOK, CountersTyped
<1>2. CmdStepsLeft \in Nat
  BY <1>1 DEF CmdStepsLeft, CmdPCs, MotorSection
<1>3. mainPC \notin StartPCs => MainStepsLeft \in Nat
  BY <1>1 DEF MainStepsLeft, MainPCs, StartPCs, LoopPCs, StoppingPCs
<1>4. audioPC \notin AudioStartPCs => AudioStepsLeft \in Nat
  BY <1>1 DEF AudioStepsLeft, AudioPCs, AudioStartPCs, AudioExitPCs
<1> QED
  BY <1>2, <1>3, <1>4

\* A motor command comes closer to its answer with every step of its thread,
\* and no other thread and no signal sets it back: neither does an audio thread
\* that never acknowledges the pause. This is the well-founded half of
\* CommandsAreAnswered.
THEOREM CommandsComeCloser == Spec => [][CommandCloser]_vars
<1>1. TypeOK' => (CmdStepsLeft \in Nat)'
  BY Counts, PTL
<1>2. IInv /\ IInv' /\ [Next]_vars => [CommandCloser]_vars
  <2> SUFFICES ASSUME IInv, IInv', Next, cmdPC \notin {"none", "done", "top"}
               PROVE  /\ CmdStepsLeft' <= CmdStepsLeft
                      /\ CmdNext => CmdStepsLeft' < CmdStepsLeft
                      /\ cmdPC \in Answering \ {"reply"}
                             => cmdPC' \in Answering
    BY DEF CommandCloser
  <2>1. CmdStepsLeft \in Nat /\ CmdStepsLeft' \in Nat
    BY <1>1, Counts DEF IInv
  <2>2. ASSUME CmdNext
        PROVE  /\ CmdStepsLeft' < CmdStepsLeft
               /\ cmdPC \in Answering \ {"reply"} => cmdPC' \in Answering
    BY <2>2, CmdCloser DEF IInv
  <2>3. CASE CmdNext
    BY <2>1, <2>2, <2>3
  <2>4. CASE AudioNext \/ MainNext \/ Signal
    <3>1. mainPC # "startSocket"
      BY DEF IInv, ThreadsCreated, StartPCs
    <3>2. UNCHANGED cmdVars
      BY <2>4, <3>1, OthersLeaveCmd
    <3>3. CmdStepsLeft' = CmdStepsLeft /\ cmdPC' = cmdPC
      BY <3>2 DEF cmdVars, CmdStepsLeft
    <3> QED
      BY <2>1, <2>2, <3>3
  <2> QED
    BY <2>3, <2>4 DEF Next
<1> QED
  BY Agreements, <1>2, PTL DEF Spec

\* Once a signal has arrived, every step of the three threads brings the one
\* that makes it closer to its end, and the others do not take it back; for the
\* audio thread that is so from the moment it is told to stop, if its start-up
\* is over. This is the well-founded half of StopWorksOnceAudioRuns.
THEOREM ThreadsComeToAnEnd ==
    Spec => [][MainCloser /\ AudioCloser /\ LastCommandCloser]_vars
<1>1. TypeOK' => (/\ CmdStepsLeft \in Nat
                  /\ mainPC \notin StartPCs => MainStepsLeft \in Nat
                  /\ audioPC \notin AudioStartPCs => AudioStepsLeft \in Nat)'
  BY Counts, PTL
<1>2. Init => StopAsked
  BY DEF Init, StopAsked
<1>3. StopAsked /\ [Next]_vars => StopAsked'
  <2> SUFFICES ASSUME StopAsked, [Next]_vars, stopAsked'
               PROVE  /\ ~gRunning' /\ ~running'
                      /\ mainPC' \notin {"init", "setRunning"}
    BY DEF StopAsked
  <2>1. CASE Signal
    <3>1. ~gRunning' /\ ~running' /\ mainPC' = mainPC
      BY <2>1 DEF Signal, mainVars
    <3>2. stopAsked \/ mainPC \notin {"init", "setRunning"}
      BY <2>1 DEF Signal
    <3> QED
      BY <3>1, <3>2 DEF StopAsked
  <2>2. CASE AudioNext \/ CmdNext \/ UNCHANGED vars
    <3>1. /\ stopAsked' = stopAsked /\ gRunning' = gRunning
          /\ running' = running /\ mainPC' = mainPC
      BY <2>2, OthersLeaveMain DEF mainVars
    <3>2. ~gRunning /\ ~running /\ mainPC \notin {"init", "setRunning"}
      BY <3>1 DEF StopAsked
    <3> QED
      BY <3>1, <3>2
  <2>3. CASE MainNext
    <3>1. ~gRunning /\ ~running /\ mainPC \notin {"init", "setRunning"}
      BY <2>3, MainKeepsStopping DEF StopAsked
    <3> QED
      BY <2>3, <3>1, MainKeepsStopping
  <2> QED
    BY <2>1, <2>2, <2>3 DEF Next
<1>4. StopAsked /\ TypeOK /\ TypeOK' /\ [Next]_vars => [MainCloser]_vars
  <2> SUFFICES ASSUME StopAsked, TypeOK, TypeOK', Next,
                      stopAsked, mainPC \notin StartPCs
               PROVE  /\ MainStepsLeft' <= MainStepsLeft
                      /\ MainNext => MainStepsLeft' < MainStepsLeft
    BY DEF MainCloser
  <2>1. ASSUME MainNext PROVE MainStepsLeft' < MainStepsLeft
    BY <2>1, MainStepCloser DEF StopAsked
  <2>2. CASE MainNext
    <3>1. mainPC' \notin StartPCs
      BY <2>2, MainKeepsStopping
    <3>2. MainStepsLeft \in Nat /\ MainStepsLeft' \in Nat
      BY <1>1, <3>1, Counts
    <3> QED
      BY <2>1, <2>2, <3>2
  <2>3. CASE AudioNext \/ CmdNext \/ Signal
    <3>1. mainPC' = mainPC
      BY <2>3, OthersLeaveMain DEF mainVars, Signal
    <3>2. MainStepsLeft' = MainStepsLeft
      BY <3>1 DEF MainStepsLeft
    <3>3. MainStepsLeft \in Nat
      BY Counts
    <3> QED
      BY <2>1, <3>2, <3>3
  <2> QED
    BY <2>2, <2>3 DEF Next
<1>5. TypeOK /\ TypeOK' /\ [Next]_vars => [AudioCloser]_vars
  <2> SUFFICES ASSUME TypeOK, TypeOK', Next, ~gAudioRunning, AudioSettled
               PROVE  /\ ~gAudioRunning' /\ AudioSettled'
                      /\ AudioStepsLeft' <= AudioStepsLeft
                      /\ AudioNext => AudioStepsLeft' < AudioStepsLeft
    BY DEF AudioCloser
  <2>1. ASSUME AudioNext
        PROVE  /\ ~gAudioRunning' /\ AudioSettled'
               /\ AudioStepsLeft' < AudioStepsLeft
    BY <2>1, AudioStepCloser
  <2>2. CASE AudioNext
    <3>1. AudioStepsLeft \in Nat /\ AudioStepsLeft' \in Nat
      BY <1>1, <2>1, <2>2, Counts DEF AudioSettled
    <3> QED
      BY <2>1, <2>2, <3>1
  <2>3. CASE MainNext \/ CmdNext \/ Signal
    <3>1. ~gAudioRunning' /\ AudioSettled' /\ UNCHANGED audioVars
      BY <2>3, OthersLeaveAudio
    <3>2. AudioStepsLeft' = AudioStepsLeft
      BY <3>1 DEF AudioStepsLeft, audioVars
    <3>3. AudioStepsLeft \in Nat
      BY Counts DEF AudioSettled
    <3> QED
      BY <2>1, <3>1, <3>2, <3>3
  <2> QED
    BY <2>2, <2>3 DEF Next
<1>6. TypeOK /\ TypeOK' /\ [Next]_vars => [LastCommandCloser]_vars
  <2> SUFFICES ASSUME TypeOK, TypeOK', Next, ~gRunning,
                      mainPC \notin StartPCs
               PROVE  /\ ~gRunning'
                      /\ CmdStepsLeft' <= CmdStepsLeft
                      /\ CmdNext => CmdStepsLeft' < CmdStepsLeft
    BY DEF LastCommandCloser
  <2>1. ~gRunning'
    <3>1. CASE MainNext
      BY <3>1, MainKeepsStopping
    <3>2. CASE AudioNext \/ CmdNext
      BY <3>2, OthersLeaveMain
    <3>3. CASE Signal
      BY <3>3 DEF Signal
    <3> QED
      BY <3>1, <3>2, <3>3 DEF Next
  <2>2. ASSUME CmdNext PROVE CmdStepsLeft' < CmdStepsLeft
    BY <2>2, CmdCloser
  <2>3. CmdStepsLeft \in Nat /\ CmdStepsLeft' \in Nat
    BY <1>1, Counts
  <2>4. CASE CmdNext
    BY <2>1, <2>2, <2>3, <2>4
  <2>5. CASE AudioNext \/ MainNext \/ Signal
    <3>1. UNCHANGED cmdVars
      BY <2>5, OthersLeaveCmd DEF StartPCs
    <3>2. CmdStepsLeft' = CmdStepsLeft
      BY <3>1 DEF cmdVars, CmdStepsLeft
    <3> QED
      BY <2>1, <2>2, <2>3, <3>2
  <2> QED
    BY <2>4, <2>5 DEF Next
<1> QED
  <2>1. Spec => []StopAsked
    BY <1>2, <1>3, PTL DEF Spec
  <2> QED
    BY <2>1, <1>4, <1>5, <1>6, TypeCorrect, PTL DEF Spec
=============================================================================
