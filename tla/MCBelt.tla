------------------------------ MODULE MCBelt ------------------------------
(***************************************************************************)
(* Inputs for model checking Belt: which pulses reach the dispatcher from  *)
(* outside in each run.                                                    *)
(***************************************************************************)
EXTENDS Belt

Buttons(S) == UNION {{EstopEvent[n], ReleasedEvent[n], ResetEvent[n]} : n \in S}

\* All three E-stop buttons with the two START signals, and a puk that makes
\* the belt run.
EstopInputs == Buttons(Systems) \cup StartEvents \cup {"MOTOR_NORMAL"}

\* Every error and every motor command, with the belt's own buttons.
ErrorInputs == Buttons({1}) \cup {"BUTTON_START"} \cup FaultEvents
                 \cup NoticeEvents \cup PukMotorEvents

\* The belt's own buttons and one puk.
OwnInputs == Buttons({1}) \cup {"BUTTON_START", "MOTOR_NORMAL"}
=============================================================================
