----------------------------- MODULE Gui_proofs -----------------------------
(***************************************************************************)
(* The control panel.  First, one panel at a time, for any number of       *)
(* processes: a process is a taker from the moment it decides to take the  *)
(* place until it has ended; only takers touch the files, and InstanceInv  *)
(* says that there is one of them.  Then, the window of a panel that runs: *)
(* ButtonInv says what each button that is disabled waits for.             *)
(***************************************************************************)
EXTENDS GuiInstance, Naturals, Sequences, TLAPS

CONSTANTS FailThreshold, MaxQueue, MaxTimers, MaxTilts
VARIABLES daemon, pollPC, pollEnabled, failCount, signals, online, resetOn,
          shutdownOn, tiltOn, timers, tilts

Window == INSTANCE GuiDaemon

\* What GuiDaemon assumes of its constants
WindowConstants ==
    /\ FailThreshold \in Nat \ {0} /\ MaxQueue \in Nat \ {0}
    /\ MaxTimers \in Nat \ {0} /\ MaxTilts \in Nat \ {0}

Takers == {"removePid", "removeServer", "bind", "writePid", "show", "run"}
          \cup Ending
Servers == {"writePid", "show", "run"} \cup Ending

OneTaker ==
    \A p, q \in Procs : pc[p] \in Takers /\ pc[q] \in Takers => p = q
StartsAlone ==
    \A p, q \in Procs :
        pc[p] \in Starting /\ pc[q] \in Starting \cup Ending => p = q
FilesInv ==
    \A p \in Procs :
        /\ pc[p] = "bind" => socket = None
        /\ pc[p] \in {"writePid", "show", "run"} => socket = p /\ p \in listens
        /\ pc[p] \in {"show", "run"} => pidFile = p

\* Nobody asks a panel that is about to end.
EndsUnasked == \A p \in Procs : pc[p] \in Ending => asked[p] = {}

ListensInv == \A p \in listens : pc[p] \in Servers

InstanceInv ==
    /\ TypeOK /\ ListensInv
    /\ ~overlap => OneTaker /\ StartsAlone /\ FilesInv /\ EndsUnasked

\* A start that does not come to run a panel has asked another one, and that
\* one does not forget it.
StartsEndWell ==
    \A p \in Procs :
        pc[p] \in Starting /\ pc'[p] \notin Starting =>
            pc'[p] \in {"run", "killed"} \/ \E q \in Procs : p \in asked'[q]

RequestsKept ==
    \A p, q \in Procs :
        p \in asked[q] /\ p \notin asked'[q] => p \in answered' \/ overlap'

\* What brings a disabled button back: the next change to online; for the tilt
\* buttons also the end of a command.  Only a reset switches the poll off.
ButtonInv ==
    /\ ~shutdownOn => ~online
    /\ ~tiltOn => ~online \/ tilts > 0
    /\ ~resetOn => ~online \/ ~pollEnabled
    /\ timers > 0 => ~pollEnabled

WindowInv == Window!TypeOK /\ ButtonInv

\* A reset that is clicked offline waits until its timer or a status gives the
\* button back: nothing else ends the wait.
ResetWaits == timers > 0 /\ ~resetOn /\ ~online
ResetRemembered ==
    ResetWaits => /\ ResetWaits' \/ resetOn'
                  /\ Window!ResetTimer => resetOn'

-----------------------------------------------------------------------------
LEMMA InitInstance == Init => InstanceInv
BY InstanceAssumption
DEF Init, InstanceInv, TypeOK, ListensInv, OneTaker, StartsAlone, FilesInv,
    EndsUnasked, PCs, Starting, Ending, Over, Takers

\* Every variable keeps its type in every step.
LEMMA TypedStep == TypeOK /\ ListensInv /\ Next => TypeOK' /\ ListensInv'
<1> SUFFICES ASSUME TypeOK, ListensInv, NEW p \in Procs,
                    Start(p) \/ Step(p) \/ Quit(p) \/ Crash(p)
             PROVE  TypeOK' /\ ListensInv'
  BY DEF Next
<1> USE InstanceAssumption
    DEF TypeOK, ListensInv, PCs, Starting, Ending, Over, Servers, Goto, files,
        history
<1>1. CASE Start(p)
  BY <1>1 DEF Start
<1>2. CASE ReadPid(p)
  BY <1>2 DEF ReadPid
<1>3. CASE Connect(p)
  BY <1>3 DEF Connect, Asks
<1>4. CASE RemovePid(p)
  BY <1>4 DEF RemovePid
<1>5. CASE RemoveServer(p)
  BY <1>5 DEF RemoveServer
<1>6. CASE Bind(p)
  BY <1>6 DEF Bind
<1>7. CASE WritePid(p)
  BY <1>7 DEF WritePid
<1>8. CASE Show(p)
  BY <1>8 DEF Show
<1>9. CASE Raise(p)
  BY <1>9 DEF Raise
<1>10. CASE RemovePidAtEnd(p)
  BY <1>10 DEF RemovePidAtEnd
<1>11. CASE RemoveSocketAtEnd(p)
  BY <1>11 DEF RemoveSocketAtEnd
<1>12. CASE CloseServer(p)
  BY <1>12 DEF CloseServer
<1>13. CASE Quit(p)
  BY <1>13 DEF Quit
<1>14. CASE Crash(p)
  BY <1>14 DEF Crash
<1> QED
  BY <1>1, <1>2, <1>3, <1>4, <1>5, <1>6, <1>7, <1>8, <1>9, <1>10, <1>11,
     <1>12, <1>13, <1>14 DEF Step

\* As long as nothing overlaps, one process at a time holds the place.
LEMMA AloneStep ==
    InstanceInv /\ Next /\ ~overlap' => OneTaker' /\ StartsAlone' /\ FilesInv'
<1> SUFFICES ASSUME InstanceInv, ~overlap', NEW p \in Procs,
                    Start(p) \/ Step(p) \/ Quit(p) \/ Crash(p)
             PROVE  OneTaker' /\ StartsAlone' /\ FilesInv'
  BY DEF Next
<1> USE InstanceAssumption
    DEF InstanceInv, TypeOK, ListensInv, OneTaker, StartsAlone, FilesInv,
        Takers, Servers, PCs, Starting, Ending, Over, Goto, files, history
<1>1. CASE Start(p)
  <2>1. ~overlap /\ \A q \in Procs \ {p} : pc[q] \notin Starting \cup Ending
    BY <1>1, Zenon DEF Start, Meets
  <2>2. pc' = [pc EXCEPT ![p] = "readPid"] /\ UNCHANGED <<files, listens>>
    BY <1>1 DEF Start
  <2>3. OneTaker' /\ FilesInv'
    BY <2>1, <2>2
  <2>4. StartsAlone'
    BY <2>1, <2>2
  <2> QED
    BY <2>3, <2>4
<1>2. CASE ReadPid(p)
  BY <1>2 DEF ReadPid, Alive
<1>3. CASE Connect(p)
  BY <1>3 DEF Connect, Asks
<1>4. CASE RemovePid(p)
  BY <1>4 DEF RemovePid
<1>5. CASE RemoveServer(p)
  BY <1>5 DEF RemoveServer
<1>6. CASE Bind(p)
  BY <1>6 DEF Bind
<1>7. CASE WritePid(p)
  BY <1>7 DEF WritePid
<1>8. CASE Show(p)
  BY <1>8 DEF Show
<1>9. CASE Raise(p)
  BY <1>9 DEF Raise
<1>10. CASE RemovePidAtEnd(p)
  BY <1>10 DEF RemovePidAtEnd
<1>11. CASE RemoveSocketAtEnd(p)
  BY <1>11 DEF RemoveSocketAtEnd
<1>12. CASE CloseServer(p)
  BY <1>12 DEF CloseServer
<1>13. CASE Quit(p)
  <2>1. ~overlap /\ \A q \in Procs \ {p} : pc[q] \notin Starting
    BY <1>13, Zenon DEF Quit, Meets
  <2>2. /\ pc[p] = "run" /\ pc' = [pc EXCEPT ![p] = "removePidAtEnd"]
        /\ UNCHANGED <<files, listens>>
    BY <1>13 DEF Quit
  <2>3. OneTaker' /\ FilesInv'
    BY <2>1, <2>2
  <2>4. StartsAlone'
    BY <2>1, <2>2
  <2> QED
    BY <2>3, <2>4
<1>14. CASE Crash(p)
  BY <1>14 DEF Crash
<1> QED
  BY <1>1, <1>2, <1>3, <1>4, <1>5, <1>6, <1>7, <1>8, <1>9, <1>10, <1>11,
     <1>12, <1>13, <1>14 DEF Step

\* As long as nothing overlaps, nobody asks a panel that ends: the one who
\* asks has started, and whoever has been asked by then does not end yet.
LEMMA UnaskedStep == InstanceInv /\ Next /\ ~overlap' => EndsUnasked'
<1> SUFFICES ASSUME InstanceInv, ~overlap', NEW p \in Procs,
                    Start(p) \/ Step(p) \/ Quit(p) \/ Crash(p)
             PROVE  EndsUnasked'
  BY DEF Next
<1> USE InstanceAssumption
    DEF InstanceInv, TypeOK, EndsUnasked, PCs, Starting, Ending, Over, Goto,
        files, history
<1>1. CASE Start(p)
  BY <1>1 DEF Start
<1>2. CASE ReadPid(p)
  BY <1>2 DEF ReadPid
<1>3. CASE Connect(p)
  <2>1. CASE socket \in listens /\ Asks(p, socket)
    <3>1. socket \in Procs /\ pc[socket] \notin Ending
      BY <1>3, <2>1 DEF Connect, Asks, StartsAlone
    <3>2. \A q \in Procs \ {socket} : asked'[q] = asked[q]
      BY <2>1, <3>1 DEF Asks
    <3> QED
      BY <1>3, <2>1, <3>1, <3>2 DEF Connect, Asks
  <2>2. CASE UNCHANGED asked
    BY <1>3, <2>2 DEF Connect, Asks
  <2> QED
    BY <1>3, <2>1, <2>2 DEF Connect
<1>4. CASE RemovePid(p)
  BY <1>4 DEF RemovePid
<1>5. CASE RemoveServer(p)
  BY <1>5 DEF RemoveServer
<1>6. CASE Bind(p)
  BY <1>6 DEF Bind
<1>7. CASE WritePid(p)
  BY <1>7 DEF WritePid
<1>8. CASE Show(p)
  BY <1>8 DEF Show
<1>9. CASE Raise(p)
  BY <1>9 DEF Raise
<1>10. CASE RemovePidAtEnd(p)
  BY <1>10 DEF RemovePidAtEnd
<1>11. CASE RemoveSocketAtEnd(p)
  BY <1>11 DEF RemoveSocketAtEnd
<1>12. CASE CloseServer(p)
  BY <1>12 DEF CloseServer
<1>13. CASE Quit(p)
  <2>1. ~overlap /\ asked[p] = {}
    BY <1>13, Zenon DEF Quit
  <2> QED
    BY <1>13, <2>1 DEF Quit
<1>14. CASE Crash(p)
  BY <1>14 DEF Crash
<1> QED
  BY <1>1, <1>2, <1>3, <1>4, <1>5, <1>6, <1>7, <1>8, <1>9, <1>10, <1>11,
     <1>12, <1>13, <1>14 DEF Step

\* The inductive invariant, for any number of processes.
THEOREM InstanceInvariant == Spec => []InstanceInv
<1>1. InstanceInv /\ [Next]_vars => InstanceInv'
  <2> SUFFICES ASSUME InstanceInv, [Next]_vars PROVE InstanceInv'
    OBVIOUS
  <2>1. CASE Next
    BY <2>1, TypedStep, AloneStep, UnaskedStep DEF InstanceInv
  <2>2. CASE UNCHANGED vars
    BY <2>2 DEF vars, files, history, InstanceInv, TypeOK, ListensInv,
       OneTaker, StartsAlone, FilesInv, EndsUnasked
  <2> QED
    BY <2>1, <2>2
<1> QED
  BY InitInstance, <1>1, PTL DEF Spec

\* The variables keep to their types, and only servers are asked.
THEOREM InstanceTyped == Spec => []TypeOK
<1>1. InstanceInv => TypeOK
  BY DEF InstanceInv
<1> QED
  BY InstanceInvariant, <1>1, PTL

\* Starts that meet no other start or end leave at most one panel running,
\* whatever crashed before and whoever has its pid by now (main.cpp:23-52).
THEOREM OnePanel == Spec => []OneInstance
<1>1. InstanceInv => OneInstance
  BY DEF InstanceInv, OneInstance, OneTaker, Takers
<1> QED
  BY InstanceInvariant, <1>1, PTL

\* And both files lead to it.
THEOREM PanelIsFound == Spec => []InstanceCanBeFound
<1>1. InstanceInv => InstanceCanBeFound
  BY DEF InstanceInv, InstanceCanBeFound, FilesInv
<1> QED
  BY InstanceInvariant, <1>1, PTL

-----------------------------------------------------------------------------
(* The safety half of StartsShowAWindow (main.cpp:27-36) *)

LEMMA StartEndsWell == InstanceInv /\ [Next]_vars => StartsEndWell
<1> SUFFICES ASSUME InstanceInv, [Next]_vars, NEW p \in Procs,
                    pc[p] \in Starting, pc'[p] \notin Starting
             PROVE  pc'[p] \in {"run", "killed"}
                    \/ \E q \in Procs : p \in asked'[q]
  BY DEF StartsEndWell
<1>1. PICK q \in Procs : Start(q) \/ Step(q) \/ Quit(q) \/ Crash(q)
  BY DEF Next, vars
<1> USE DEF InstanceInv, TypeOK, PCs, Starting, Ending, Over, Goto
<1>2. q = p
  BY <1>1 DEF Start, Step, Quit, Crash, ReadPid, Connect, Asks, RemovePid,
     RemoveServer, Bind, WritePid, Show, Raise, RemovePidAtEnd,
     RemoveSocketAtEnd, CloseServer
<1>3. CASE Connect(p)
  <2>1. socket \in listens /\ Asks(p, socket)
    BY <1>3 DEF Connect
  <2>2. socket \in Procs /\ p \in asked'[socket]
    BY <2>1 DEF Asks
  <2> QED
    BY <2>2
<1>4. CASE Show(p) \/ Crash(p)
  BY <1>4 DEF Show, Crash
<1> QED
  BY <1>1, <1>2, <1>3, <1>4 DEF Start, Step, Quit, ReadPid, RemovePid,
     RemoveServer, Bind, WritePid, Raise, RemovePidAtEnd, RemoveSocketAtEnd,
     CloseServer

LEMMA RequestKept == InstanceInv /\ [Next]_vars => RequestsKept
<1> SUFFICES ASSUME InstanceInv, [Next]_vars, NEW p \in Procs, NEW q \in Procs,
                    p \in asked[q], p \notin asked'[q]
             PROVE  p \in answered' \/ overlap'
  BY DEF RequestsKept
<1>1. PICK r \in Procs : Start(r) \/ Step(r) \/ Quit(r) \/ Crash(r)
  BY DEF Next, vars
<1> USE DEF InstanceInv, TypeOK
<1>2. CASE Raise(r)
  BY <1>2 DEF Raise
<1>3. CASE CloseServer(r)
  <2>1. r = q /\ pc[q] \in Ending
    BY <1>3 DEF CloseServer, Goto, Ending
  <2>2. overlap
    BY <2>1, Zenon DEF EndsUnasked
  <2> QED
    BY <1>3, <2>2 DEF CloseServer, history
<1>4. CASE Crash(r)
  <2>1. r = q
    BY <1>4 DEF Crash
  <2>2. asked[r] # {}
    BY <2>1
  <2> QED
    BY <1>4, <2>2, Zenon DEF Crash
<1>5. CASE Connect(r)
  BY <1>5 DEF Connect, Asks
<1> QED
  BY <1>1, <1>2, <1>3, <1>4, <1>5 DEF Start, Step, Quit, ReadPid, RemovePid,
     RemoveServer, Bind, WritePid, Show, RemovePidAtEnd, RemoveSocketAtEnd

\* Whoever starts the panel and is not killed runs it or has asked another to
\* show its window, and a request goes away unanswered only when a start or a
\* request met a start or an end: what StartsShowAWindow leaves to fairness
\* is that main() and the event loop go on.
THEOREM RequestsAreKept == Spec => [][StartsEndWell /\ RequestsKept]_vars
<1>1. InstanceInv /\ [Next]_vars => StartsEndWell /\ RequestsKept
  BY StartEndsWell, RequestKept
<1> QED
  BY InstanceInvariant, <1>1, PTL DEF Spec

-----------------------------------------------------------------------------
(* The window *)

\* The queue of signals keeps its bound, and the count of failures its own.
LEMMA PollTyped ==
    ASSUME WindowConstants, Window!TypeOK
    PROVE  /\ \A b \in BOOLEAN : Window!Room =>
                  /\ Append(signals, b) \in Seq(BOOLEAN)
                  /\ Len(Append(signals, b)) <= MaxQueue
           /\ Window!OneMoreFailure => failCount' \in 0..FailThreshold
<1>1. /\ signals \in Seq(BOOLEAN) /\ Len(signals) \in Nat
      /\ MaxQueue \in Nat /\ FailThreshold \in Nat
      /\ failCount \in 0..FailThreshold
  BY DEF WindowConstants, Window!TypeOK
<1>2. ASSUME NEW b \in BOOLEAN, Window!Room
      PROVE  /\ Append(signals, b) \in Seq(BOOLEAN)
             /\ Len(Append(signals, b)) <= MaxQueue
  <2>1. /\ Append(signals, b) \in Seq(BOOLEAN)
        /\ Len(Append(signals, b)) = Len(signals) + 1
    BY <1>1
  <2> QED
    BY <1>1, <1>2, <2>1 DEF Window!Room
<1>3. ASSUME Window!OneMoreFailure PROVE failCount' \in 0..FailThreshold
  BY <1>1, <1>3 DEF Window!OneMoreFailure
<1> QED
  BY <1>2, <1>3

LEMMA WindowTyped ==
    ASSUME WindowConstants, Window!TypeOK, Window!Next
    PROVE  Window!TypeOK'
<1> USE DEF Window!PollPCs, Window!gui, Window!poll, Window!buttons
<1>1. CASE Window!PollStep
  <2>1. /\ UNCHANGED <<daemon, pollEnabled, Window!gui>>
        /\ pollPC' \in Window!PollPCs
    BY <1>1 DEF Window!PollStep, Window!PollCheck, Window!PollConnect,
       Window!PollWrite, Window!PollAnswered, Window!PollTimeout,
       Window!PollGoto
  <2>2. \/ UNCHANGED failCount
        \/ Window!OneMoreFailure
        \/ failCount' = 0
    BY <1>1 DEF Window!PollStep, Window!PollCheck, Window!PollConnect,
       Window!PollWrite, Window!PollAnswered, Window!PollTimeout, Window!Fails
  <2>3. \/ UNCHANGED signals
        \/ Window!Room /\ signals' = Append(signals, TRUE)
        \/ Window!Room /\ signals' = Append(signals, FALSE)
    BY <1>1, Zenon DEF Window!PollStep, Window!PollCheck, Window!PollConnect,
       Window!PollWrite, Window!PollAnswered, Window!PollTimeout, Window!Fails
  <2>4. failCount' \in 0..FailThreshold
    BY <2>2, PollTyped DEF WindowConstants, Window!TypeOK
  <2>5. signals' \in Seq(BOOLEAN) /\ Len(signals') <= MaxQueue
    BY <2>3, PollTyped, Zenon DEF Window!TypeOK
  <2> QED
    BY <2>1, <2>4, <2>5, Zenon DEF Window!TypeOK
<1>2. CASE Window!HandleStatus
  <2>1. signals \in Seq(BOOLEAN) /\ signals # <<>> /\ Len(signals) <= MaxQueue
    BY <1>2 DEF Window!HandleStatus, Window!TypeOK
  <2>2. Tail(signals) \in Seq(BOOLEAN) /\ Len(Tail(signals)) = Len(signals) - 1
    BY <2>1
  <2>3. signals' \in Seq(BOOLEAN) /\ Len(signals') <= MaxQueue
    <3>1. signals' = Tail(signals)
      BY <1>2 DEF Window!HandleStatus
    <3>2. Len(signals) \in Nat /\ MaxQueue \in Nat
      BY <2>1 DEF WindowConstants
    <3> QED
      BY <2>1, <2>2, <3>1, <3>2
  <2>4. /\ online' \in BOOLEAN /\ resetOn' \in BOOLEAN
        /\ shutdownOn' \in BOOLEAN /\ tiltOn' \in BOOLEAN
    BY <1>2, Zenon DEF Window!HandleStatus, Window!TypeOK
  <2> QED
    BY <1>2, <2>3, <2>4, Zenon DEF Window!HandleStatus, Window!TypeOK
<1>3. CASE Window!Reset
  <2>1. timers' \in 0..MaxTimers
    BY <1>3 DEF Window!Reset, Window!TypeOK, WindowConstants
  <2> QED
    BY <1>3, <2>1, Zenon DEF Window!Reset, Window!TypeOK, Window!KillDaemon
<1>4. CASE Window!Shutdown
  BY <1>4 DEF Window!Shutdown, Window!TypeOK, Window!KillDaemon
<1>5. CASE Window!Tilt
  <2>1. tilts' \in 0..MaxTilts
    BY <1>5 DEF Window!Tilt, Window!TypeOK, WindowConstants
  <2> QED
    BY <1>5, <2>1, Zenon DEF Window!Tilt, Window!TypeOK
<1>6. CASE Window!TiltDone
  BY <1>6 DEF Window!TiltDone, Window!TypeOK, WindowConstants
<1>7. CASE Window!ResetTimer
  BY <1>7 DEF Window!ResetTimer, Window!TypeOK, WindowConstants
<1>8. CASE Window!DaemonChanges
  BY <1>8 DEF Window!DaemonChanges, Window!TypeOK
<1> QED
  BY <1>1, <1>2, <1>3, <1>4, <1>5, <1>6, <1>7, <1>8
  DEF Window!Next, Window!Click, Window!Waited

LEMMA ButtonsKeep ==
    ASSUME Window!TypeOK, ButtonInv, Window!Next
    PROVE  ButtonInv'
<1> USE DEF ButtonInv, Window!TypeOK, Window!gui, Window!buttons, Window!poll
<1>1. CASE Window!PollStep \/ Window!DaemonChanges
  <2>1. pollEnabled' = pollEnabled /\ UNCHANGED Window!gui
    BY <1>1 DEF Window!PollStep, Window!PollCheck, Window!PollConnect,
       Window!PollWrite, Window!PollAnswered, Window!PollTimeout,
       Window!PollGoto, Window!DaemonChanges
  <2> QED
    BY <2>1
<1>2. CASE Window!HandleStatus
  <2>1. pollEnabled' = pollEnabled /\ timers' = timers /\ tilts' = tilts
    BY <1>2 DEF Window!HandleStatus
  <2>2. \/ resetOn' = TRUE /\ shutdownOn' = TRUE /\ tiltOn' = TRUE
        \/ online' = FALSE
        \/ UNCHANGED <<online, resetOn, shutdownOn, tiltOn>>
    BY <1>2, Zenon DEF Window!HandleStatus
  <2> QED
    BY <2>1, <2>2
<1>3. CASE Window!Reset
  BY <1>3 DEF Window!Reset
<1>4. CASE Window!Shutdown
  BY <1>4 DEF Window!Shutdown
<1>5. CASE Window!Tilt
  BY <1>5 DEF Window!Tilt
<1>6. CASE Window!TiltDone
  BY <1>6 DEF Window!TiltDone
<1>7. CASE Window!ResetTimer
  BY <1>7 DEF Window!ResetTimer
<1> QED
  BY <1>1, <1>2, <1>3, <1>4, <1>5, <1>6, <1>7
  DEF Window!Next, Window!Click, Window!Waited

LEMMA WindowKeeps ==
    ASSUME WindowConstants, WindowInv, [Window!Next]_(Window!vars)
    PROVE  WindowInv'
<1>1. CASE Window!Next
  BY <1>1, WindowTyped, ButtonsKeep DEF WindowInv
<1>2. CASE UNCHANGED Window!vars
  BY <1>2 DEF WindowInv, ButtonInv, Window!TypeOK, Window!vars, Window!poll,
     Window!gui, Window!buttons
<1> QED
  BY <1>1, <1>2

\* In every order of clicks, signals, timers and replies, a panel that shows
\* the daemon as online can shut it down, tilt it unless a tilt is under way,
\* and reset it unless it was reset before (mainwindow.cpp:599-678, 948,
\* 1238): the safety half of ButtonsComeBack.
THEOREM NoButtonIsForgotten ==
    ASSUME WindowConstants PROVE Window!Spec => []WindowInv
<1>1. Window!Init => WindowInv
  <2> SUFFICES ASSUME Window!Init PROVE WindowInv
    OBVIOUS
  <2>1. signals \in Seq(BOOLEAN) /\ Len(signals) = 0
    BY DEF Window!Init
  <2>2. failCount \in 0..FailThreshold /\ Len(signals) <= MaxQueue
    BY <2>1 DEF Window!Init, WindowConstants
  <2>3. timers \in 0..MaxTimers /\ tilts \in 0..MaxTilts /\ ~(timers > 0)
    BY DEF Window!Init, WindowConstants
  <2> QED
    BY <2>1, <2>2, <2>3, Zenon
    DEF Window!Init, WindowInv, ButtonInv, Window!TypeOK, Window!PollPCs
<1>2. WindowInv /\ [Window!Next]_(Window!vars) => WindowInv'
  BY WindowKeeps
<1> QED
  BY <1>1, <1>2, PTL DEF Window!Spec

\* A reset that was clicked offline is not forgotten until its button comes
\* back, and its timer brings it (mainwindow.cpp:611-617): the safety half of
\* ResetComesBackWhenOffline.
THEOREM ResetIsRemembered ==
    ASSUME WindowConstants
    PROVE  Window!Spec => [][ResetRemembered]_(Window!vars)
<1>1. WindowInv /\ Window!Next => ResetRemembered
  <2> SUFFICES ASSUME WindowInv, Window!Next, ResetWaits
               PROVE  /\ ResetWaits' \/ resetOn'
                      /\ Window!ResetTimer => resetOn'
    BY DEF ResetRemembered
  <2> USE DEF ResetWaits, WindowInv, Window!TypeOK, Window!gui,
          Window!buttons, Window!poll
  <2>1. CASE Window!PollStep \/ Window!DaemonChanges
    <3>1. UNCHANGED Window!gui
      BY <2>1 DEF Window!PollStep, Window!PollCheck, Window!PollConnect,
         Window!PollWrite, Window!PollAnswered, Window!PollTimeout,
         Window!PollGoto, Window!DaemonChanges
    <3> QED
      BY <3>1 DEF Window!ResetTimer
  <2>2. CASE Window!HandleStatus
    <3>1. timers' = timers
      BY <2>2 DEF Window!HandleStatus
    <3>2. resetOn' = TRUE \/ UNCHANGED <<online, Window!buttons>>
      BY <2>2, Zenon DEF Window!HandleStatus
    <3>3. ~Window!ResetTimer
      BY <3>1 DEF Window!ResetTimer
    <3> QED
      BY <3>1, <3>2, <3>3
  <2>3. CASE Window!ResetTimer
    BY <2>3, Zenon DEF Window!ResetTimer
  <2>4. CASE Window!TiltDone
    BY <2>4 DEF Window!TiltDone, Window!ResetTimer
  <2>5. CASE Window!Click
    BY <2>5 DEF Window!Click, Window!Reset, Window!Shutdown, Window!Tilt,
       Window!ResetTimer
  <2> QED
    BY <2>1, <2>2, <2>3, <2>4, <2>5 DEF Window!Next, Window!Waited
<1> QED
  BY NoButtonIsForgotten, <1>1, PTL DEF Window!Spec
=============================================================================
