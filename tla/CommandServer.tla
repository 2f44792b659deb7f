---------------------------- MODULE CommandServer ----------------------------
(***************************************************************************)
(* The time commands take and the time their clients wait: socket_thread   *)
(* serves one connection after the other (main.c, socket.c), the GUI's     *)
(* status poll gives up after 5 seconds and its motor commands after 20    *)
(* (mainwindow.cpp).  A connection that was given up stays in the queue,   *)
(* and its command is still carried out; the answer to it raises SIGPIPE,  *)
(* which k4wd neither handles nor ignores.  Time passes in half seconds.   *)
(* What counts are the sleeps of the code, the retries of motor_open_device*)
(* and the time-outs of the USB transfers; all else is taken for instant.  *)
(***************************************************************************)
EXTENDS Naturals, Sequences

CONSTANTS Pollers,   \* threads that poll the status
          Commanders \* threads of tilt and sensor buttons

ASSUME ClientsAssumption == Pollers \cap Commanders = {}

Clients == Pollers \cup Commanders
Commands == {"STATUS", "TILT", "ACCEL"}

VARIABLES alive,    \* k4wd runs
          backlog,  \* connections that wait to be accepted
          serving,  \* <<>>, or the connection being handled
          left,     \* half seconds until its answer is sent
          patience, \* of each waiting client; 0 is the time-out
          waiting,  \* clients that wait for an answer
          gaveUp,   \* history: clients that timed out once while k4wd ran
          delayed   \* history: retries and USB time-outs cost a tilt more than
                    \* it had to spare

vars == <<alive, backlog, serving, left, patience, waiting, gaveUp, delayed>>

PollTimeout == 10
CommandTimeout == 40

\* k4w_kinect_audio_pause: up to 60 sleeps of 50 ms, and a second
PauseTimes == 2..8
ResumeTime == 6

\* What a call of motor.c takes: no time if the device cannot be opened, else
\* its sleeps and what it loses to claims that fail and packets that are late.
Call(sleeps, worst) ==
    {[time |-> 0, lost |-> 0]}
        \cup {[time |-> sleeps + l, lost |-> l] : l \in 0..worst}

\* k4w_motor_set_tilt: 100 ms to settle, 3 s to move, up to 200 ms for the
\* trailing reply, 100 ms to close; claims that fail four times before they
\* succeed cost 4 s, the packets 2 s each, claims that fail for good 5 s in all.
SetTilt == Call(7, 8 + 4 * 4)

\* k4w_motor_get_accel: 400 ms; 4 s of retries, and packets of 500 ms each
GetAccel == Call(1, 8 + 2)

\* The half seconds a tilt can lose and still be answered in 20 s: 7 s when it
\* ascends, half a second when it descends.
SpareUp == 14
SpareDown == 1

\* What k4w_socket_handle may take for each command, and whether that is a
\* tilt that lost more than it can spare.
Ascend == {[time |-> p + t.time + 4 + ResumeTime, late |-> t.lost > SpareUp] :
              p \in PauseTimes, t \in SetTilt}

\* Mutant: the motor is reset before the tilt and again after it.
DescendTwoResets ==
    {[time |-> p + 2 * (r.time + 6) + t.time + 4 + ResumeTime,
      late |-> r.lost + t.lost > SpareDown] :
        p \in PauseTimes, r \in SetTilt, t \in SetTilt}

\* A descent is preceded by a reset and 3 s to settle, whether or not the reset
\* succeeded.
Descend == {[time |-> p + r.time + 6 + t.time + 4 + ResumeTime,
             late |-> r.lost + t.lost > SpareDown] :
               p \in PauseTimes, r \in SetTilt, t \in SetTilt}

Sense == {[time |-> p + a.time + 1 + ResumeTime, late |-> FALSE] :
             p \in PauseTimes, a \in GetAccel}

Work(cmd) == CASE cmd = "STATUS" -> {[time |-> 0, late |-> FALSE]}
               [] cmd = "ACCEL" -> Sense
               [] cmd = "TILT" -> Ascend \cup Descend

Connection == [client : Clients, cmd : Commands, open : BOOLEAN]

Init ==
    /\ alive = TRUE
    /\ backlog = <<>> /\ serving = <<>> /\ left = 0
    /\ patience = [c \in Clients |-> 0]
    /\ waiting = {} /\ gaveUp = {} /\ delayed = FALSE

-----------------------------------------------------------------------------
Connect(c, cmd, timeout) ==
    /\ alive /\ c \notin waiting
    /\ backlog' = Append(backlog, [client |-> c, cmd |-> cmd, open |-> TRUE])
    /\ waiting' = waiting \cup {c}
    /\ patience' = [patience EXCEPT ![c] = timeout]
    /\ UNCHANGED <<alive, serving, left, gaveUp, delayed>>

Poll(c) == c \in Pollers /\ Connect(c, "STATUS", PollTimeout)

Command(c) ==
    /\ c \in Commanders
    /\ \E cmd \in {"TILT", "ACCEL"} : Connect(c, cmd, CommandTimeout)

\* What a client that goes leaves of a connection.
Closed(c) == [connection \in Connection |->
                 IF connection.client = c
                 THEN [connection EXCEPT !.open = FALSE] ELSE connection]

\* The read times out, and the client closes its socket.
GiveUp(c) ==
    /\ c \in waiting /\ patience[c] = 0
    /\ waiting' = waiting \ {c}
    /\ gaveUp' = gaveUp \cup {c}
    /\ backlog' = [i \in DOMAIN backlog |-> Closed(c)[backlog[i]]]
    /\ serving' = [i \in DOMAIN serving |-> Closed(c)[serving[i]]]
    /\ UNCHANGED <<alive, left, patience, delayed>>

-----------------------------------------------------------------------------
\* accept and recv; the command of a closed connection can still be read.
Accept ==
    /\ alive /\ serving = <<>> /\ backlog # <<>>
    /\ serving' = <<Head(backlog)>>
    /\ backlog' = Tail(backlog)
    /\ \E work \in Work(Head(backlog).cmd) :
           left' = work.time /\ delayed' = (delayed \/ work.late)
    /\ UNCHANGED <<alive, patience, waiting, gaveUp>>

\* send to a client that is still there
Answer ==
    /\ serving # <<>> /\ left = 0 /\ Head(serving).open
    /\ serving' = <<>>
    /\ waiting' = waiting \ {Head(serving).client}
    /\ UNCHANGED <<alive, backlog, left, patience, gaveUp, delayed>>

\* send to one that is gone: SIGPIPE ends k4wd, and every connection with it.
Killed ==
    /\ serving # <<>> /\ left = 0 /\ ~Head(serving).open
    /\ alive' = FALSE
    /\ serving' = <<>> /\ backlog' = <<>>
    /\ waiting' = {}
    /\ UNCHANGED <<left, patience, gaveUp, delayed>>

\* Half a second passes when nobody can do anything at once.
Tick ==
    /\ waiting # {} \/ serving # <<>>
    /\ serving # <<>> => left > 0
    /\ serving = <<>> => backlog = <<>>
    /\ \A c \in waiting : patience[c] > 0
    /\ left' = IF left > 0 THEN left - 1 ELSE 0
    /\ patience' = [c \in Clients |->
                        IF c \in waiting THEN patience[c] - 1 ELSE 0]
    /\ UNCHANGED <<alive, backlog, serving, waiting, gaveUp, delayed>>

Server == Accept \/ Answer \/ Killed

Next == \/ \E c \in Clients : Poll(c) \/ Command(c) \/ GiveUp(c)
        \/ Server \/ Tick

Spec == Init /\ [][Next]_vars

-----------------------------------------------------------------------------
TypeOK ==
    /\ alive \in BOOLEAN
    /\ backlog \in Seq(Connection) /\ serving \in Seq(Connection)
    /\ Len(serving) <= 1
    /\ left \in Nat
    /\ patience \in [Clients -> 0..CommandTimeout]
    /\ waiting \in SUBSET Clients /\ gaveUp \in SUBSET Clients
    /\ delayed \in BOOLEAN

\* A motor command that does not queue behind another one, whatever the status
\* poll does, is answered before its 20 seconds are over as long as no
\* descending tilt lost more than half a second to retries and USB time-outs
\* and no ascending one more than 7 s: even after a pause that waited its full
\* 3 s in vain, and a reading of the sensors whatever it lost; or the daemon is
\* gone already.
TimelyUnlessDelayed ==
    alive /\ ~delayed => gaveUp \cap Commanders = {}

\* mainwindow.cpp:822 "Motor commands take ~8s, use 20s read timeout": the 20 s
\* are enough for a command that does not queue behind another one.
CommandsBeatTheirTimeout ==
    alive => gaveUp \cap Commanders = {}

\* mainwindow.cpp:269 "Sensor Poll Thread - only for daemon detection, no
\* sensor data": it does not change what it detects.
DetectionIsHarmless == gaveUp \subseteq Pollers => alive
=============================================================================
