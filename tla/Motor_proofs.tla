---------------------------- MODULE Motor_proofs ----------------------------
(***************************************************************************)
(* Proofs about Motor for every range of angles and every number of        *)
(* attempts to claim the interfaces.  MInv says what holds at each         *)
(* statement of a call, and its parts are inductive together.              *)
(***************************************************************************)
EXTENDS Motor, TLAPS

\* The calls of motor.c belong to the command being handled.
CallFitsCommand ==
    /\ pc = "idle" => call = "none"
    /\ pc = "decide" => call = "none" /\ cmd = "TILT"
    /\ pc \notin {"idle", "decide"} =>
        \/ cmd = "TILT" /\ call \in TiltCalls
        \/ cmd = "LED" /\ call = "led" /\ pc # "read"
        \/ cmd = "ACCEL" /\ call = "accel"
        \/ cmd = "MOTOR_INFO" /\ call = "info"

\* What a call holds at each of its statements.
DeviceFollowsPC ==
    /\ pc \in {"idle", "decide", "lock", "return"} =>
           ~locked /\ ~busy /\ ~handle /\ claimed = {}
    /\ pc = "open" => locked /\ ~handle /\ claimed = {}
    /\ pc = "claim" => locked /\ handle /\ claimed = {}
    /\ pc \in {"send", "read", "close"} =>
           locked /\ handle /\ claimed = Interfaces

\* A call of k4w_motor_set_tilt that fails has failed before its transfer.
FailedBeforeSending ==
    /\ pc = "decide" => ~delivered
    /\ call \in TiltCalls =>
        /\ pc \in {"lock", "open", "claim", "send"} => ~delivered
        /\ pc \in {"send", "read", "close"} => result = 0
        /\ pc = "return" /\ result # 0 => ~delivered
    /\ RefusedTiltNotSent

\* A local that is still unassigned after the reading was read incompletely.
UnassignedMeansIncomplete ==
    /\ call \in {"accel", "info"} =>
        /\ pc \in {"lock", "open", "claim", "send", "read"} => ~exchanged
        /\ pc \in {"close", "return"} /\ local = Undefined => ~exchanged
    /\ UndefinedOnlyAfterUsbError

\* A tilt that is about to be sent goes up, or down from zero, while the
\* handler's angle is the motor's; a reset that was received aims at zero.
DescentPrepared ==
    /\ call = "reset" /\ delivered => goal = 0
    /\ call = "tilt" /\ tracked /\ pc \in {"lock", "open", "claim", "send"} =>
           angle = goal /\ (angle = 0 \/ angle <= 2 * Clamped(arg))

MInv == /\ TypeOK /\ CallFitsCommand /\ DeviceFollowsPC
        /\ FailedBeforeSending /\ UnassignedMeansIncomplete
        /\ DescentPrepared

-----------------------------------------------------------------------------
\* An argument is cut to an angle the device can be sent.
LEMMA ClampedFits ==
    ASSUME NEW a \in Int
    PROVE  /\ Clamped(a) \in -MaxAngle..MaxAngle
           /\ 2 * Clamped(a) \in Angles
  BY MotorAssumption DEF Clamped, Angles

\* An argument that is not below the whole degrees of the last angle does not
\* lead below that angle (socket.c:57), if it is whole.
LEMMA NoDescentWithoutReset ==
    ASSUME NEW a \in Int, NEW half \in Angles,
           2 * Truncated(half) = half, a >= Truncated(half)
    PROVE  half <= 2 * Clamped(a)
  <1> DEFINE t == Truncated(half)
  <1>1. t \in Int
    BY MotorAssumption DEF Truncated, Angles
  <1>2. t \in -MaxAngle..MaxAngle
    BY <1>1, MotorAssumption DEF Angles
  <1> HIDE DEF t
  <1>3. Clamped(a) >= t
    BY <1>1, <1>2, MotorAssumption DEF Clamped, t
  <1> QED
    BY <1>1, <1>3, ClampedFits DEF t

\* MInv holds wherever the motor stands when the daemon starts.
LEMMA MInvInit == Init => MInv
  <1> SUFFICES ASSUME Init PROVE MInv
    OBVIOUS
  <1>1. angle \in Angles /\ currentTilt \in Angles
    BY MotorAssumption DEF Init, Angles
  <1>2. reply \in Replies
    BY <1>1 DEF Init, Replies, Commands
  <1>3. TypeOK
    <2>1. HandlerTyped
      BY <1>2, MotorAssumption
      DEF Init, HandlerTyped, PCs, Calls, Commands, Degrees
    <2>2. DeviceTyped /\ MotorTyped
      BY <1>1, MotorAssumption DEF Init, DeviceTyped, MotorTyped, Angles
    <2> QED
      BY <2>1, <2>2 DEF TypeOK
  <1>4. /\ CallFitsCommand /\ DeviceFollowsPC /\ FailedBeforeSending
        /\ UnassignedMeansIncomplete /\ DescentPrepared
    BY <1>1 DEF Init, CallFitsCommand, DeviceFollowsPC, FailedBeforeSending,
       RefusedTiltNotSent, UnassignedMeansIncomplete,
       UndefinedOnlyAfterUsbError, DescentPrepared, TiltCalls, Undefined,
       Angles
  <1> QED
    BY <1>3, <1>4 DEF MInv

\* The handler is in step with the motor or not.
LEMMA InStepTyped == InStep \in BOOLEAN
  BY Zenon DEF InStep

\* Every step keeps the types.
LEMMA MotorKeepsTypes == TypeOK /\ [Next]_vars => TypeOK'
  <1> SUFFICES ASSUME TypeOK, [Next]_vars PROVE TypeOK'
    OBVIOUS
  <1> USE MotorAssumption
  <1> USE DEF TypeOK, HandlerTyped, DeviceTyped, MotorTyped, PCs, Calls,
          Commands, Goto, TiltCalls, handler, device, motor, history
  <1>1. ASSUME NEW c \in Commands, NEW a \in Degrees, Receive(c, a)
        PROVE  TypeOK'
    BY <1>1 DEF Receive
  <1>2. CASE Decide
    <2>1. HandlerTyped'
      BY <1>2 DEF Decide
    <2>2. DeviceTyped'
      BY <1>2 DEF Decide
    <2>3. MotorTyped'
      BY <1>2, InStepTyped DEF Decide
    <2> QED
      BY <2>1, <2>2, <2>3
  <1>3. CASE Return
    <2>1. reply' \in Replies
      <3>1. CASE call = "reset"
        BY <1>3, <3>1 DEF Return
      <3>2. CASE call # "reset"
        <4> DEFINE ok == CASE cmd = "ACCEL" -> TRUE
                           [] cmd = "MOTOR_INFO" -> ~busy
                           [] OTHER -> result = 0
                   tilt == CASE cmd = "LED" -> 0
                             [] cmd = "MOTOR_INFO" -> local
                             [] OTHER -> currentTilt
                   axes == IF cmd # "ACCEL" \/ result # 0 THEN "zero"
                           ELSE IF local = Undefined THEN "undefined"
                           ELSE "read"
        <4>1. reply' = [cmd |-> cmd, ok |-> ok, tilt |-> tilt, axes |-> axes]
          BY <1>3, <3>2 DEF Return
        <4>2. ok \in BOOLEAN
          BY Zenon DEF TypeOK
        <4>3. tilt \in Angles \cup {Undefined}
          BY DEF Angles
        <4>4. axes \in {"zero", "read", "undefined"}
          OBVIOUS
        <4> HIDE DEF ok, tilt, axes
        <4> QED
          BY <4>1, <4>2, <4>3, <4>4 DEF Replies
      <3> QED
        BY <3>1, <3>2
    <2>2. /\ pc' \in PCs /\ call' \in Calls /\ result' \in {0, -1}
          /\ UNCHANGED <<cmd, arg, attempt>>
      BY <1>3 DEF Return
    <2>3. local' \in Angles \cup {Undefined}
      BY <1>3 DEF Return
    <2>4. DeviceTyped'
      BY <1>3 DEF Return
    <2>5. MotorTyped'
      BY <1>3 DEF Return
    <2> QED
      BY <2>1, <2>2, <2>3, <2>4, <2>5
  <1>4. CASE Lock
    BY <1>4 DEF Lock
  <1>5. CASE Open
    <2>1. HandlerTyped'
      BY <1>5 DEF Open, OpenFailed
    <2>2. DeviceTyped'
      BY <1>5 DEF Open, OpenFailed
    <2>3. MotorTyped'
      BY <1>5 DEF Open, OpenFailed
    <2> QED
      BY <2>1, <2>2, <2>3
  <1>6. CASE Claim
    <2>1. HandlerTyped'
      BY <1>6 DEF Claim, OpenFailed
    <2>2. DeviceTyped'
      BY <1>6 DEF Claim, OpenFailed
    <2>3. MotorTyped'
      BY <1>6 DEF Claim, OpenFailed
    <2> QED
      BY <2>1, <2>2, <2>3
  <1>7. CASE SendTilt
    <2>1. Target \in Angles
      BY ClampedFits DEF Target, Degrees, Angles
    <2> QED
      BY <1>7, <2>1 DEF SendTilt
  <1>8. CASE SendLed
    BY <1>8 DEF SendLed
  <1>9. CASE SendQuery
    BY <1>9 DEF SendQuery
  <1>10. CASE ReadTilt
    BY <1>10 DEF ReadTilt
  <1>11. CASE ReadInfo
    BY <1>11 DEF ReadInfo
  <1>12. CASE ReadAccel
    <2>1. HandlerTyped'
      BY <1>12 DEF ReadAccel, Angles
    <2>2. DeviceTyped'
      BY <1>12 DEF ReadAccel, Angles
    <2>3. MotorTyped'
      BY <1>12 DEF ReadAccel, Angles
    <2> QED
      BY <2>1, <2>2, <2>3
  <1>13. CASE Close
    BY <1>13 DEF Close
  <1>14. CASE Turn
    BY <1>14 DEF Turn, Angles
  <1>15. CASE UNCHANGED vars
    BY <1>15 DEF vars
  <1> QED
    BY <1>1, <1>2, <1>3, <1>4, <1>5, <1>6, <1>7, <1>8,
       <1>9, <1>10, <1>11, <1>12, <1>13, <1>14, <1>15
    DEF Next, Exchange, Degrees

\* The mark of an unassigned local is not an angle.
LEMMA UndefinedIsNoAngle == Undefined \notin Angles
  BY MotorAssumption DEF Undefined, Angles

\* The motor can stand at zero.
LEMMA ZeroIsAngle == 0 \in Angles
  BY MotorAssumption DEF Angles

\* What k4w_socket_handle answers (socket.c:66-107).
LEMMA ReplyFields ==
    ASSUME Return, call # "reset"
    PROVE  /\ reply'.cmd = cmd
           /\ reply'.ok = CASE cmd = "ACCEL" -> TRUE
                            [] cmd = "MOTOR_INFO" -> ~busy
                            [] OTHER -> result = 0
           /\ reply'.tilt = CASE cmd = "LED" -> 0
                              [] cmd = "MOTOR_INFO" -> local
                              [] OTHER -> currentTilt
           /\ reply'.axes = IF cmd # "ACCEL" \/ result # 0 THEN "zero"
                            ELSE IF local = Undefined THEN "undefined"
                            ELSE "read"
  <1> DEFINE ok == CASE cmd = "ACCEL" -> TRUE
                     [] cmd = "MOTOR_INFO" -> ~busy
                     [] OTHER -> result = 0
             tilt == CASE cmd = "LED" -> 0
                       [] cmd = "MOTOR_INFO" -> local
                       [] OTHER -> currentTilt
             axes == IF cmd # "ACCEL" \/ result # 0 THEN "zero"
                     ELSE IF local = Undefined THEN "undefined" ELSE "read"
  <1>1. reply' = [cmd |-> cmd, ok |-> ok, tilt |-> tilt, axes |-> axes]
    BY Zenon DEF Return
  <1> HIDE DEF ok, tilt, axes
  <1>2. /\ reply'.cmd = cmd /\ reply'.ok = ok
        /\ reply'.tilt = tilt /\ reply'.axes = axes
    BY <1>1
  <1> QED
    BY <1>2, Zenon DEF ok, tilt, axes

\* Every step keeps the agreements between statement, device and motor.
LEMMA MotorKeepsMInv == MInv /\ [Next]_vars => MInv'
  <1> SUFFICES ASSUME MInv, [Next]_vars
               PROVE  /\ CallFitsCommand' /\ DeviceFollowsPC'
                      /\ FailedBeforeSending' /\ UnassignedMeansIncomplete'
                      /\ DescentPrepared'
    BY MotorKeepsTypes DEF MInv
  <1> USE DEF MInv, CallFitsCommand, DeviceFollowsPC, FailedBeforeSending,
          RefusedTiltNotSent, UnassignedMeansIncomplete,
          UndefinedOnlyAfterUsbError, DescentPrepared, Goto, TiltCalls,
          handler, device, motor, history
  <1>1. ASSUME NEW c \in Commands, NEW a \in Degrees, Receive(c, a)
        PROVE  CallFitsCommand' /\ DeviceFollowsPC' /\ FailedBeforeSending'
               /\ UnassignedMeansIncomplete' /\ DescentPrepared'
    BY <1>1 DEF Receive
  <1>2. CASE Decide
    <2>1. CallFitsCommand'
      BY <1>2 DEF Decide
    <2>2. DeviceFollowsPC'
      BY <1>2 DEF Decide
    <2>3. FailedBeforeSending'
      BY <1>2 DEF Decide
    <2>4. UnassignedMeansIncomplete'
      BY <1>2 DEF Decide
    <2>5. ASSUME call' = "tilt", tracked'
          PROVE  angle = goal /\ angle <= 2 * Clamped(arg)
      <3>1. arg \in Int /\ angle \in Angles /\ currentTilt \in Angles
        BY DEF TypeOK, HandlerTyped, MotorTyped, Degrees
      <3>2. Truncated(angle) \in Int
        BY <3>1, MotorAssumption DEF Truncated, Angles
      <3>3. InStep
        BY <1>2, <2>5, Zenon DEF Decide
      <3>4. ~(arg < Truncated(currentTilt))
        BY <1>2, <2>5 DEF Decide
      <3>5. arg >= Truncated(angle)
        BY <3>1, <3>2, <3>3, <3>4 DEF InStep
      <3> QED
        BY <3>1, <3>3, <3>5, NoDescentWithoutReset DEF InStep
    <2>6. /\ call' \in {"reset", "tilt"} /\ ~delivered /\ ~delivered'
          /\ arg' = arg /\ angle' = angle /\ goal' = goal
      BY <1>2 DEF Decide
    <2>7. DescentPrepared'
      BY <2>5, <2>6 DEF Clamped
    <2> QED
      BY <2>1, <2>2, <2>3, <2>4, <2>7
  <1>3. CASE Return
    <2>1. CASE call = "reset"
      BY <1>3, <2>1 DEF Return, TypeOK, MotorTyped
    <2>2. CASE call # "reset"
      <3>1. CallFitsCommand' /\ DeviceFollowsPC' /\ DescentPrepared'
        BY <1>3, <2>2 DEF Return
      <3>2. FailedBeforeSending'
        <4>1. reply'.cmd = cmd /\ (cmd = "TILT" => reply'.ok = (result = 0))
          BY <1>3, <2>2, ReplyFields, Zenon
        <4>2. pc = "return" /\ call' = "none" /\ pc' = "idle"
          BY <1>3, <2>2 DEF Return
        <4>3. delivered' = delivered
          BY <1>3, <2>2 DEF Return
        <4>4. ASSUME cmd = "TILT", ~reply'.ok PROVE ~delivered
          <5>1. result # 0
            BY <4>1, <4>4, Zenon
          <5> QED
            BY <4>2, <4>4, <5>1
        <4> QED
          BY <4>1, <4>2, <4>3, <4>4
      <3>3. UnassignedMeansIncomplete'
        <4>1. pc = "return" /\ call' = "none" /\ pc' = "idle"
          BY <1>3, <2>2 DEF Return
        <4>2. exchanged' = exchanged
          BY <1>3, <2>2 DEF Return
        <4>3. ASSUME reply'.tilt = Undefined PROVE ~exchanged
          <5>1. reply'.tilt = CASE cmd = "LED" -> 0
                                [] cmd = "MOTOR_INFO" -> local
                                [] OTHER -> currentTilt
            BY <1>3, <2>2, ReplyFields
          <5>2. cmd = "MOTOR_INFO" /\ local = Undefined
            BY <4>3, <5>1, UndefinedIsNoAngle, ZeroIsAngle
            DEF TypeOK, MotorTyped
          <5> QED
            BY <4>1, <5>2, <2>2
        <4>4. ASSUME reply'.axes = "undefined" PROVE ~exchanged
          <5>1. reply'.axes = IF cmd # "ACCEL" \/ result # 0 THEN "zero"
                              ELSE IF local = Undefined THEN "undefined"
                              ELSE "read"
            BY <1>3, <2>2, ReplyFields
          <5>2. cmd = "ACCEL" /\ local = Undefined
            BY <4>4, <5>1
          <5> QED
            BY <4>1, <5>2, <2>2
        <4> QED
          BY <4>1, <4>2, <4>3, <4>4
      <3> QED
        BY <3>1, <3>2, <3>3
    <2> QED
      BY <2>1, <2>2
  <1>4. CASE Lock
    BY <1>4 DEF Lock
  <1>5. CASE Open
    BY <1>5 DEF Open, OpenFailed
  <1>6. CASE Claim
    <2>1. CallFitsCommand'
      BY <1>6 DEF Claim, OpenFailed
    <2>2. DeviceFollowsPC'
      <3> PICK got \in SUBSET Interfaces :
              /\ claimed' = IF got = Interfaces THEN got ELSE {}
              /\ \/ /\ got = Interfaces
                    /\ pc' = "send"
                    /\ UNCHANGED <<locked, handle>>
                 \/ /\ got # Interfaces
                    /\ UNCHANGED <<pc, locked, handle>>
                 \/ /\ got # Interfaces
                    /\ OpenFailed
        BY <1>6 DEF Claim
      <3>1. CASE got = Interfaces
        BY <1>6, <3>1 DEF Claim
      <3>2. CASE got # Interfaces
        <4>1. pc = "claim" /\ claimed' = {}
          BY <1>6, <3>2 DEF Claim
        <4> QED
          BY <3>2, <4>1 DEF OpenFailed
      <3> QED
        BY <3>1, <3>2
    <2>3. FailedBeforeSending'
      BY <1>6 DEF Claim, OpenFailed
    <2>4. UnassignedMeansIncomplete'
      BY <1>6 DEF Claim, OpenFailed
    <2>5. DescentPrepared'
      BY <1>6 DEF Claim, OpenFailed
    <2> QED
      BY <2>1, <2>2, <2>3, <2>4, <2>5
  <1>7. CASE SendTilt
    BY <1>7 DEF SendTilt, Target
  <1>8. CASE SendLed
    BY <1>8 DEF SendLed
  <1>9. CASE SendQuery
    BY <1>9 DEF SendQuery
  <1>10. CASE ReadTilt
    BY <1>10 DEF ReadTilt
  <1>11. CASE ReadInfo
    <2>1. CallFitsCommand'
      BY <1>11 DEF ReadInfo, TypeOK, MotorTyped
    <2>2. DeviceFollowsPC'
      BY <1>11 DEF ReadInfo, TypeOK, MotorTyped
    <2>3. FailedBeforeSending'
      BY <1>11 DEF ReadInfo, TypeOK, MotorTyped
    <2>4. UnassignedMeansIncomplete'
      BY <1>11, UndefinedIsNoAngle DEF ReadInfo, TypeOK, MotorTyped
    <2>5. DescentPrepared'
      BY <1>11 DEF ReadInfo, TypeOK, MotorTyped
    <2> QED
      BY <2>1, <2>2, <2>3, <2>4, <2>5
  <1>12. CASE ReadAccel
    <2>1. CallFitsCommand'
      BY <1>12 DEF ReadAccel
    <2>2. DeviceFollowsPC'
      BY <1>12 DEF ReadAccel
    <2>3. FailedBeforeSending'
      BY <1>12 DEF ReadAccel
    <2>4. UnassignedMeansIncomplete'
      BY <1>12, UndefinedIsNoAngle, ZeroIsAngle DEF ReadAccel
    <2>5. DescentPrepared'
      BY <1>12 DEF ReadAccel
    <2> QED
      BY <2>1, <2>2, <2>3, <2>4, <2>5
  <1>13. CASE Close
    BY <1>13 DEF Close
  <1>14. CASE Turn
    BY <1>14 DEF Turn
  <1>15. CASE UNCHANGED vars
    BY <1>15 DEF vars
  <1> QED
    BY <1>1, <1>2, <1>3, <1>4, <1>5, <1>6, <1>7, <1>8,
       <1>9, <1>10, <1>11, <1>12, <1>13, <1>14, <1>15,
       MotorAssumption
    DEF Next, Exchange, Degrees, Commands

-----------------------------------------------------------------------------
\* MInv holds in every behaviour of the handler and motor.c (socket.c:51-107).
THEOREM StatementsAgree == Spec => []MInv
  <1> QED
    BY MInvInit, MotorKeepsMInv, PTL DEF Spec

\* Every variable keeps its type: angles stay in the range of the device,
\* whatever a client asks for (motor.c:147).
THEOREM MotorTypeCorrect == Spec => []TypeOK
  <1>1. MInv => TypeOK
    BY DEF MInv
  <1> QED
    BY <1>1, StatementsAgree, PTL

\* However a call of motor.c ends, it leaves nothing held.
THEOREM AllReleased == Spec => []NothingLeftHeld
  <1>1. MInv => NothingLeftHeld
    BY DEF MInv, DeviceFollowsPC, NothingLeftHeld
  <1> QED
    BY <1>1, StatementsAgree, PTL

\* Packets go out only with both interfaces claimed, under the lock
\* (motor.c:75-93), however many attempts that takes.
THEOREM ExclusiveExchanges == Spec => []ExchangesAreExclusive
  <1>1. MInv => ExchangesAreExclusive
    BY DEF MInv, DeviceFollowsPC, ExchangesAreExclusive
  <1> QED
    BY <1>1, StatementsAgree, PTL

\* A TILT that is answered not ok was never received by the motor.
THEOREM RefusalsAreHonest == Spec => []RefusedTiltNotSent
  <1>1. MInv => RefusedTiltNotSent
    BY DEF MInv, FailedBeforeSending
  <1> QED
    BY <1>1, StatementsAgree, PTL

\* A reply carries an unassigned variable only after an incomplete exchange.
THEOREM ReadsAreHonest == Spec => []UndefinedOnlyAfterUsbError
  <1>1. MInv => UndefinedOnlyAfterUsbError
    BY DEF MInv, UnassignedMeansIncomplete
  <1> QED
    BY <1>1, StatementsAgree, PTL

\* While the handler's angle is the motor's, the motor is never sent down from
\* above zero (socket.c:57), for any range of angles.
THEOREM TrackedDescent == Spec => []DescendsFromZeroWhileTracked
  <1>1. MInv => DescendsFromZeroWhileTracked
    <2> SUFFICES ASSUME MInv, pc = "send", call = "tilt", tracked,
                        Target < angle
                 PROVE  angle = 0
      BY DEF DescendsFromZeroWhileTracked
    <2>1. Target = 2 * Clamped(arg)
      BY DEF Target
    <2>2. angle \in Int /\ 2 * Clamped(arg) \in Int
      BY ClampedFits, MotorAssumption
      DEF MInv, TypeOK, HandlerTyped, MotorTyped, Angles, Degrees
    <2>3. angle = 0 \/ angle <= 2 * Clamped(arg)
      BY DEF MInv, DescentPrepared
    <2> QED
      BY <2>1, <2>2, <2>3
  <1> QED
    BY <1>1, StatementsAgree, PTL
=============================================================================
