-------------------------- MODULE MotorControler --------------------------
(***************************************************************************)
(* The state machine of class Motorcontroler, the only caller of the motor *)
(* driver.  A handler (motorcontroler.h:178-217) runs the transition of    *)
(* the current state and then, whether or not the state changed, the entry *)
(* action of the state it is in.  The entry action switches the belt, so   *)
(* motor \in RunningStates says that the belt moves, and reports the speed *)
(* to the tick timer with a SPEED_* pulse.                                 *)
(***************************************************************************)
EXTENDS Events

VARIABLES
    motor,         \* the current state, statePtr
    motorHistory   \* history_[]: the states saved for "error" and "speeds"

motorVars == <<motor, motorHistory>>

MotorStates == {"Idle", "Stop", "Normal", "Slow", "Stop_Error"}
RunningStates == {"Normal", "Slow"}

MotorInit ==
    /\ motor = "Idle"
    /\ motorHistory = [error |-> "none", speeds |-> "none"]

\* A variant of the transition in which MOTOR_START also leaves Stop_Error:
MotorAfter_StartsError(e) ==
    CASE e = "MOTOR_STOP_ERR" -> "Stop_Error"
      [] e \in {"MOTOR_START", "MOTOR_START_ERR"} /\ motor = "Stop_Error" ->
           motorHistory.error
      [] e = "MOTOR_NORMAL" /\ motor = "Idle" -> "Normal"
      [] e = "MOTOR_SLOW" /\ motor = "Normal" -> "Slow"
      [] e = "TIMER_MEASURE_OUT" /\ motor = "Slow" -> "Normal"
      [] e = "MOTOR_STOP" /\ motor \in RunningStates -> "Stop"
      [] e = "MOTOR_IDLE" /\ motor \in RunningStates -> "Idle"
      [] e = "MOTOR_START" /\ motor = "Stop" -> motorHistory.speeds
      [] OTHER -> motor

\* The state the transition for event e ends in; a state without a method of
\* its own for e ignores it.
MotorAfter(e) ==
    CASE e = "MOTOR_STOP_ERR" -> "Stop_Error"
      [] e = "MOTOR_START_ERR" /\ motor = "Stop_Error" -> motorHistory.error
      [] e = "MOTOR_NORMAL" /\ motor = "Idle" -> "Normal"
      [] e = "MOTOR_SLOW" /\ motor = "Normal" -> "Slow"
      [] e = "TIMER_MEASURE_OUT" /\ motor = "Slow" -> "Normal"
      [] e = "MOTOR_STOP" /\ motor \in RunningStates -> "Stop"
      [] e = "MOTOR_IDLE" /\ motor \in RunningStates -> "Idle"
      [] e = "MOTOR_START" /\ motor = "Stop" -> motorHistory.speeds
      [] OTHER -> motor

\* A variant of the entry action: Idle is not saved.
MotorEnter_ForgetsIdle(s) ==
    /\ motor' = s
    /\ motorHistory' =
         [error  |-> IF s \in {"Stop_Error", "Idle"} THEN motorHistory.error ELSE s,
          speeds |-> IF s \in RunningStates THEN s ELSE motorHistory.speeds]

\* The entry action of state s: every state but Stop_Error is saved as the
\* one to resume after an error, a speed also as the one MOTOR_START resumes.
MotorEnter(s) ==
    /\ motor' = s
    /\ motorHistory' =
         [error  |-> IF s = "Stop_Error" THEN motorHistory.error ELSE s,
          speeds |-> IF s \in RunningStates THEN s ELSE motorHistory.speeds]

\* The pulse the entry action of state s sends to the tick timer.  A variant
\* in which Stop_Error reports the speed the belt had:
MotorSpeed_KeepsSpeed(s) ==
    CASE s = "Normal" -> "SPEED_NORMAL"
      [] s = "Slow" -> "SPEED_SLOW"
      [] s = "Stop_Error" /\ motorHistory.error = "Normal" -> "SPEED_NORMAL"
      [] OTHER -> "SPEED_STOP"

MotorSpeed(s) ==
    CASE s = "Normal" -> "SPEED_NORMAL"
      [] s = "Slow" -> "SPEED_SLOW"
      [] OTHER -> "SPEED_STOP"

MotorHandle(e) == MotorEnter(MotorAfter(e))
MotorSent(e) == <<MotorSpeed(MotorAfter(e))>>
=============================================================================
