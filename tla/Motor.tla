-------------------------------- MODULE Motor --------------------------------
(***************************************************************************)
(* The motor commands of k4wd: k4w_socket_handle of socket.c between the   *)
(* pause and the resume of audio (modelled in CommandThread), and the      *)
(* calls it makes into motor.c, which open the USB device, claim two       *)
(* interfaces, exchange packets that may be lost, and close it again.      *)
(* The motor itself is external: it turns towards the last angle it was    *)
(* sent, in its own time.  Angles are in half degrees, the unit of the     *)
(* device; TILT arguments are in degrees.                                  *)
(***************************************************************************)
EXTENDS Integers

CONSTANTS MaxAngle,     \* 31 degrees in the code
          ClaimAttempts \* 5 in the code

ASSUME MotorAssumption ==
    /\ MaxAngle \in Nat \ {0}
    /\ ClaimAttempts \in Nat \ {0}

Commands == {"TILT", "LED", "ACCEL", "MOTOR_INFO"}
Calls == {"none", "reset", "tilt", "led", "accel", "info"}
TiltCalls == {"reset", "tilt"}
Interfaces == {0, 1}
Angles == (-2 * MaxAngle)..(2 * MaxAngle)
Degrees == (-MaxAngle - 1)..(MaxAngle + 1) \* arguments, one too large each way

\* The value of a local that no statement has assigned.
Undefined == 2 * MaxAngle + 1

VARIABLES
    pc, call,      \* the statement, and the call of motor.c it belongs to
    cmd, arg,
    attempt, result,
    locked, busy, handle, claimed, \* g_motor_lock, g_motor_busy, the device
    currentTilt,   \* g_current_tilt
    local,         \* the angle or the axes the handler passed by address
    reply,
    angle, goal,   \* the motor
    \* ---- history, read by properties only
    delivered,     \* the motor received the angle of this TILT
    exchanged,     \* the last exchange of this command was complete
    tracked        \* g_current_tilt and the motor have agreed so far

handler == <<call, cmd, arg, attempt, result, local, reply>>
device == <<locked, busy, handle, claimed>>
motor == <<angle, goal>>
history == <<delivered, exchanged, tracked>>
vars == <<pc, handler, device, currentTilt, motor, history>>

PCs == {"idle", "decide", "lock", "open", "claim", "send", "read", "close",
        "return"}
Replies == [cmd : Commands \cup {"none"}, ok : BOOLEAN,
            tilt : Angles \cup {Undefined},
            axes : {"zero", "read", "undefined"}]

\* The motor may stand anywhere when the daemon starts.
Init ==
    /\ pc = "idle" /\ call = "none" /\ cmd = "LED" /\ arg = 0
    /\ attempt = 0 /\ result = 0
    /\ locked = FALSE /\ busy = FALSE /\ handle = FALSE /\ claimed = {}
    /\ currentTilt = 0
    /\ local = Undefined
    /\ reply = [cmd |-> "none", ok |-> TRUE, tilt |-> 0, axes |-> "zero"]
    /\ angle \in Angles /\ goal = angle
    /\ delivered = FALSE /\ exchanged = FALSE /\ tracked = FALSE

Goto(from, to) == pc = from /\ pc' = to

\* (int) of a number of half degrees: towards zero
Truncated(half) == IF half >= 0 THEN half \div 2 ELSE -((-half) \div 2)

Clamped(degrees) == IF degrees > MaxAngle THEN MaxAngle
                    ELSE IF degrees < -MaxAngle THEN -MaxAngle ELSE degrees

\* The half degrees a call of k4w_motor_set_tilt sends.
Target == IF call = "reset" THEN 0 ELSE 2 * Clamped(arg)

-----------------------------------------------------------------------------
(* k4w_socket_handle *)

Receive(c, a) ==
    /\ pc = "idle"
    /\ cmd' = c /\ arg' = a
    /\ local' = Undefined
    /\ delivered' = FALSE /\ exchanged' = FALSE
    /\ \/ c = "TILT" /\ pc' = "decide" /\ UNCHANGED call
       \/ c = "LED" /\ pc' = "lock" /\ call' = "led"
       \/ c = "ACCEL" /\ pc' = "lock" /\ call' = "accel"
       \/ c = "MOTOR_INFO" /\ pc' = "lock" /\ call' = "info"
    /\ UNCHANGED <<attempt, result, reply, device, currentTilt, motor>>
    /\ UNCHANGED tracked

\* What the handler knows is what the motor does, in whole degrees.
InStep == currentTilt = angle /\ goal = angle /\ 2 * Truncated(angle) = angle

\* Mutant: the new angle is compared with zero.
DecideByZero ==
    /\ Goto("decide", "lock")
    /\ call' = IF arg < 0 THEN "reset" ELSE "tilt"
    /\ tracked' = InStep
    /\ UNCHANGED <<cmd, arg, attempt, result, local, reply>>
    /\ UNCHANGED <<device, currentTilt, motor, delivered, exchanged>>

\* if (cmd_arg < (int)k4w_motor_get_current_tilt()) reset to 0 first
Decide ==
    /\ Goto("decide", "lock")
    /\ call' = IF arg < Truncated(currentTilt) THEN "reset" ELSE "tilt"
    /\ tracked' = InStep
    /\ UNCHANGED <<cmd, arg, attempt, result, local, reply>>
    /\ UNCHANGED <<device, currentTilt, motor, delivered, exchanged>>

\* After the reset, whatever came of it, the angle itself; after every other
\* call the reply.  ACCEL is always ok, MOTOR_INFO unless the motor is busy.
Return ==
    /\ pc = "return"
    /\ \/ /\ call = "reset"
          /\ call' = "tilt" /\ pc' = "lock"
          /\ tracked' = (tracked /\ delivered /\ angle = goal)
          /\ delivered' = FALSE
          /\ UNCHANGED reply
       \/ /\ call # "reset"
          /\ call' = "none" /\ pc' = "idle"
          /\ reply' =
              [cmd |-> cmd,
               ok |-> CASE cmd = "ACCEL" -> TRUE
                        [] cmd = "MOTOR_INFO" -> ~busy
                        [] OTHER -> result = 0,
               tilt |-> CASE cmd = "LED" -> 0
                          [] cmd = "MOTOR_INFO" -> local
                          [] OTHER -> currentTilt,
               axes |-> IF cmd # "ACCEL" \/ result # 0 THEN "zero"
                        ELSE IF local = Undefined THEN "undefined" ELSE "read"]
          /\ UNCHANGED <<delivered, tracked>>
    /\ UNCHANGED <<cmd, arg, attempt, result, local, exchanged>>
    /\ UNCHANGED <<device, currentTilt, motor>>

-----------------------------------------------------------------------------
(* motor_open_device *)

\* pthread_mutex_lock, and the busy mark of a tilt
Lock ==
    /\ ~locked
    /\ Goto("lock", "open")
    /\ locked' = TRUE
    /\ busy' = (call \in TiltCalls)
    /\ UNCHANGED <<handler, handle, claimed, currentTilt, motor, history>>

\* Every early return of a call whose device could not be opened.
OpenFailed ==
    /\ pc' = "return"
    /\ result' = -1
    /\ locked' = FALSE /\ busy' = FALSE /\ handle' = FALSE

Open ==
    /\ pc = "open"
    /\ \/ /\ pc' = "claim"
          /\ handle' = TRUE
          /\ UNCHANGED <<result, locked, busy>>
       \/ OpenFailed
    /\ attempt' = 0
    /\ UNCHANGED <<call, cmd, arg, local, reply, claimed, currentTilt, motor>>
    /\ UNCHANGED history

\* One attempt to claim both; one alone is released before the next.
Claim ==
    /\ pc = "claim"
    /\ \E got \in SUBSET Interfaces :
        /\ claimed' = IF got = Interfaces THEN got ELSE {}
        /\ \/ /\ got = Interfaces
              /\ pc' = "send" /\ result' = 0
              /\ UNCHANGED <<locked, busy, handle, attempt>>
           \/ /\ got # Interfaces /\ attempt + 1 < ClaimAttempts
              /\ attempt' = attempt + 1
              /\ UNCHANGED <<pc, locked, busy, handle, result>>
           \/ /\ got # Interfaces /\ attempt + 1 = ClaimAttempts
              /\ OpenFailed
              /\ UNCHANGED attempt
    /\ UNCHANGED <<call, cmd, arg, local, reply, currentTilt, motor, history>>

-----------------------------------------------------------------------------
(* The exchanges of k4w_motor_set_tilt, set_led, get_tilt and get_accel *)

\* The transfer of a tilt, whose result nobody looks at, then three seconds.
SendTilt ==
    /\ call \in TiltCalls
    /\ Goto("send", "read")
    /\ delivered' \in BOOLEAN
    /\ goal' = IF delivered' THEN Target ELSE goal
    /\ UNCHANGED <<handler, device, currentTilt, angle, exchanged, tracked>>

SendLed ==
    /\ call = "led"
    /\ Goto("send", "close")
    /\ UNCHANGED <<handler, device, currentTilt, motor, history>>

\* A query that cannot be sent makes the call return an error.
SendQuery ==
    /\ call \in {"accel", "info"}
    /\ \/ Goto("send", "read") /\ UNCHANGED result
       \/ Goto("send", "close") /\ result' = -1
    /\ UNCHANGED <<call, cmd, arg, attempt, local, reply>>
    /\ UNCHANGED <<device, currentTilt, motor, history>>

\* The position after a tilt: a reading that is missing or short is ignored.
ReadTilt ==
    /\ call \in TiltCalls
    /\ Goto("read", "close")
    /\ exchanged' \in BOOLEAN
    /\ currentTilt' = IF exchanged' THEN angle ELSE currentTilt
    /\ UNCHANGED <<handler, device, motor, delivered, tracked>>

\* Mutant: the answer goes to g_current_tilt only.
ReadInfoInside ==
    /\ call = "info"
    /\ Goto("read", "close")
    /\ \/ exchanged' = TRUE /\ currentTilt' = angle /\ UNCHANGED result
       \/ result' = -1 /\ UNCHANGED <<exchanged, currentTilt>>
    /\ UNCHANGED <<call, cmd, arg, attempt, local, reply, device, motor>>
    /\ UNCHANGED <<delivered, tracked>>

\* A complete answer, a short one that leaves the caller's variable to
\* k4w_motor_get_tilt's last known angle, or none.
ReadInfo ==
    /\ call = "info"
    /\ Goto("read", "close")
    /\ \/ /\ exchanged' = TRUE
          /\ local' = angle /\ currentTilt' = angle
          /\ UNCHANGED result
       \/ /\ local' = currentTilt
          /\ UNCHANGED <<exchanged, result, currentTilt>>
       \/ /\ result' = -1
          /\ UNCHANGED <<exchanged, local, currentTilt>>
    /\ UNCHANGED <<call, cmd, arg, attempt, reply, device, motor>>
    /\ UNCHANGED <<delivered, tracked>>

\* Any angle in local stands for axes that were assigned.  A short answer
\* counts as a success, though they were not.
ReadAccel ==
    /\ call = "accel"
    /\ Goto("read", "close")
    /\ \/ exchanged' = TRUE /\ local' = 0 /\ UNCHANGED result
       \/ UNCHANGED <<exchanged, local, result>>
       \/ result' = -1 /\ UNCHANGED <<exchanged, local>>
    /\ UNCHANGED <<call, cmd, arg, attempt, reply, device, currentTilt, motor>>
    /\ UNCHANGED <<delivered, tracked>>

\* Mutant: an error in an exchange returns without closing the device.
CloseUnlessError ==
    /\ Goto("close", "return")
    /\ locked' = FALSE /\ busy' = FALSE
    /\ handle' = (handle /\ result # 0)
    /\ claimed' = IF result # 0 THEN claimed ELSE {}
    /\ UNCHANGED <<handler, currentTilt, motor, history>>

\* motor_close_device and the unlocking, on every way out of a call
Close ==
    /\ Goto("close", "return")
    /\ locked' = FALSE /\ busy' = FALSE /\ handle' = FALSE /\ claimed' = {}
    /\ UNCHANGED <<handler, currentTilt, motor, history>>

-----------------------------------------------------------------------------
\* The motor turns by half a degree towards its goal.
Turn ==
    /\ angle # goal
    /\ angle' = IF angle < goal THEN angle + 1 ELSE angle - 1
    /\ UNCHANGED <<pc, handler, device, currentTilt, goal, history>>

Exchange == \/ SendTilt \/ SendLed \/ SendQuery
            \/ ReadTilt \/ ReadInfo \/ ReadAccel

Next ==
    \/ \E a \in Degrees : Receive("TILT", a)
    \/ \E c \in Commands \ {"TILT"} : Receive(c, 0)
    \/ Decide \/ Lock \/ Open \/ Claim \/ Exchange \/ Close \/ Return
    \/ Turn

Spec == Init /\ [][Next]_vars

-----------------------------------------------------------------------------
HandlerTyped ==
    /\ pc \in PCs /\ call \in Calls /\ cmd \in Commands /\ arg \in Degrees
    /\ attempt \in 0..(ClaimAttempts - 1) /\ result \in {0, -1}
    /\ local \in Angles \cup {Undefined}
    /\ reply \in Replies

DeviceTyped ==
    /\ locked \in BOOLEAN /\ busy \in BOOLEAN /\ handle \in BOOLEAN
    /\ claimed \in SUBSET Interfaces

MotorTyped ==
    /\ currentTilt \in Angles /\ angle \in Angles /\ goal \in Angles
    /\ delivered \in BOOLEAN /\ exchanged \in BOOLEAN /\ tracked \in BOOLEAN

TypeOK == HandlerTyped /\ DeviceTyped /\ MotorTyped

\* However a call of motor.c ends - the device missing, a claim that succeeded
\* by half, an exchange that failed - it leaves nothing held: no handle, no
\* interface, no lock and no busy mark, so that the resume can bind the
\* audio driver again and the next command can lock.
NothingLeftHeld ==
    pc \in {"idle", "decide", "return"} =>
        ~locked /\ ~busy /\ ~handle /\ claimed = {}

\* Packets go out only with both interfaces claimed, under the lock.
ExchangesAreExclusive ==
    pc \in {"send", "read"} => locked /\ handle /\ claimed = Interfaces

\* While the handler's angle has matched a resting motor and the reset was
\* received and finished, the motor is never sent down from above zero: the
\* truncation in socket.c:57 loses nothing as long as angles are whole degrees.
DescendsFromZeroWhileTracked ==
    pc = "send" /\ call = "tilt" /\ tracked /\ Target < angle => angle = 0

\* A TILT that is answered not ok was never received by the motor, so a client
\* that repeats it does not move the motor twice (its reset may have moved it).
RefusedTiltNotSent ==
    pc = "idle" /\ reply.cmd = "TILT" /\ ~reply.ok => ~delivered

\* A reply carries an unassigned variable (socket.c:82 and 96) only after an
\* exchange that failed or was cut short.
UndefinedOnlyAfterUsbError ==
    pc = "idle" /\ (reply.tilt = Undefined \/ reply.axes = "undefined")
        => ~exchanged

\* socket.c:56 "K4W motor needs reset to 0° before descending"
DescendsFromZero ==
    pc = "send" /\ call = "tilt" /\ Target < angle => angle = 0
=============================================================================
