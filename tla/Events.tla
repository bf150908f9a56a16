------------------------------ MODULE Events ------------------------------
(***************************************************************************)
(* The events of the dispatcher that the belt's safety controllers post or *)
(* listen to, with the names of enum Event_Id less their _E_ID suffix.     *)
(* Events of enum Event_Id that none of the modelled listeners registers   *)
(* for are not listed: callListeners() finds no listener and drops them.   *)
(***************************************************************************)
EXTENDS Naturals, Sequences

\* The E-stop FSMs of one belt, by estop_nr: 1 watches the belt's own button,
\* 2 and 3 the buttons of the two other systems.
Systems == 1..3

EstopEvent == <<"ESTOP_THIS", "ESTOP_SYSTEM2", "ESTOP_SYSTEM3">>
ReleasedEvent == <<"ESTOP_RELEASED_THIS", "ESTOP_RELEASED_SYSTEM2",
                   "ESTOP_RELEASED_SYSTEM3">>
ResetEvent == <<"BUTTON_RESET", "BUTTON_RESET_SYSTEM2", "BUTTON_RESET_SYSTEM3">>

EstopEvents == {EstopEvent[n] : n \in Systems}
ReleasedEvents == {ReleasedEvent[n] : n \in Systems}
ResetEvents == {ResetEvent[n] : n \in Systems}
StartEvents == {"BUTTON_START", "BUTTON_START_INCOMING"}

\* Errors a person must acknowledge, as the components report them.
FaultEvents == {"ERR_LOST_PUK", "ERR_SLIDE_FULL", "ERR_TO_MANY_PUK",
                "ERR_UNDEFINED_PUK"}
\* The other reports Error_fsm listens to.
NoticeEvents == {"RDY_TAKING", "ERR_PUK_TOO_EARLY", "ERR_PUK_TOO_EARLY_OK"}

\* Commands of the puk state machines (and of the height sensor) to the motor,
\* and those of the error handling.
PukMotorEvents == {"MOTOR_NORMAL", "MOTOR_SLOW", "MOTOR_START", "MOTOR_STOP",
                   "MOTOR_IDLE", "TIMER_MEASURE_OUT"}
ErrMotorEvents == {"MOTOR_STOP_ERR", "MOTOR_START_ERR"}
MotorEvents == PukMotorEvents \cup ErrMotorEvents

SpeedEvents == {"SPEED_NORMAL", "SPEED_SLOW", "SPEED_STOP"}

\* Signals that set the whole lamp, and the one that only adds to it.
LampEvents == {"TRAFFIC_LIGHT_NORMAL", "TRAFFIC_LIGHT_UNACK_ERROR",
               "TRAFFIC_LIGHT_ACKED_ERROR", "TRAFFIC_LIGHT_RDY"}
LightEvents == LampEvents \cup {"TRAFFIC_LIGHT_NEW_PUK"}

\* Events whose listeners (Puk_control, none) lie outside these controllers.
OutwardEvents == {"ERR_OK", "RDY_TAKING_OK"}

\* What the interrupt handler, the serial receivers, the height sensor and
\* Puk_control put into the queue of the dispatcher from outside.
ExternalEvents == EstopEvents \cup ReleasedEvents \cup ResetEvents
                    \cup StartEvents \cup FaultEvents \cup NoticeEvents
                    \cup PukMotorEvents

Event == ExternalEvents \cup ErrMotorEvents \cup SpeedEvents \cup LightEvents
           \cup OutwardEvents \cup {"ESTOP_OK"}
=============================================================================
