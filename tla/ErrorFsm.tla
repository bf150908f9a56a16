----------------------------- MODULE ErrorFsm -----------------------------
(***************************************************************************)
(* The state machine of class Error_fsm: which error the belt is held for  *)
(* and what it takes to let it go on.  As in Motorcontroler, every handler *)
(* (error_fsm.h:309-371) runs a transition and then the entry action of    *)
(* the state it is in, also when nothing changed.                          *)
(***************************************************************************)
EXTENDS Events

VARIABLES
    error,         \* the current state, statePtr
    errorHistory   \* history_: the state to return to after an E-stop

errorVars == <<error, errorHistory>>

\* Errors nobody has acknowledged yet; the state each report leads to.
Unacknowledged == {"Lost_Puk", "Slide_Full", "Puk_Too_Many", "Unknown_Puk"}
FaultState(e) ==
    CASE e = "ERR_LOST_PUK" -> "Lost_Puk"
      [] e = "ERR_SLIDE_FULL" -> "Slide_Full"
      [] e = "ERR_TO_MANY_PUK" -> "Puk_Too_Many"
      [] e = "ERR_UNDEFINED_PUK" -> "Unknown_Puk"

\* Early_Entry is a subclass of OK and inherits its transitions, but for
\* start(), which it overrides with nothing.
OkStates == {"OK", "Early_Entry"}
ErrorStates == OkStates \cup Unacknowledged
                 \cup {"Error_Acknowledged", "Rdy_Taking", "Estop_Active"}
\* States whose entry action saves them; Start is left in its entry action.
SavedStates == Unacknowledged
                 \cup {"OK", "Error_Acknowledged", "Rdy_Taking", "Start"}

\* The constructor enters OK once.
ErrorInit == error = "OK" /\ errorHistory = "OK"

\* The transition of START; Early_Entry ignores it.
Started ==
    CASE error = "Error_Acknowledged" -> "OK"
      [] error \in {"OK", "Rdy_Taking"} -> "Start"
      [] OTHER -> error

\* The state the transition for event e ends in.
ErrorAfter(e) ==
    CASE e \in FaultEvents /\ error \in OkStates -> FaultState(e)
      [] e = "RDY_TAKING" /\ error \in OkStates -> "Rdy_Taking"
      [] e = "ERR_PUK_TOO_EARLY" /\ error \in OkStates -> "Early_Entry"
      [] e = "ERR_PUK_TOO_EARLY_OK" /\ error = "Early_Entry" -> "OK"
      [] e = "BUTTON_RESET" /\ error \in Unacknowledged -> "Error_Acknowledged"
      [] e = "BUTTON_START" -> Started
      [] e \in EstopEvents -> "Estop_Active"
      [] e = "ESTOP_OK" /\ error = "Estop_Active" -> errorHistory
      [] OTHER -> error

\* Variants: Estop_Active saves itself like the other states; an error is
\* not saved.
ErrorEnter_SavesEstop(s) ==
    /\ error' = IF s = "Start" THEN "OK" ELSE s
    /\ errorHistory' = IF s # "Early_Entry" THEN s ELSE errorHistory

ErrorEnter_ForgetsError(s) ==
    /\ error' = IF s = "Start" THEN "OK" ELSE s
    /\ errorHistory' = IF s \in SavedStates \ Unacknowledged THEN s ELSE errorHistory

\* The entry action of state s; that of Start passes on to OK at once.
ErrorEnter(s) ==
    /\ error' = IF s = "Start" THEN "OK" ELSE s
    /\ errorHistory' = IF s \in SavedStates THEN s ELSE errorHistory

\* The pulses the entry action of state s sends.  A variant in which a full
\* slide shows the light of an acknowledged error:
EntrySent_WrongLight(s) ==
    CASE s = "OK" -> <<"TRAFFIC_LIGHT_NORMAL", "ERR_OK", "MOTOR_START_ERR">>
      [] s = "Early_Entry" -> <<"TRAFFIC_LIGHT_NEW_PUK", "MOTOR_STOP_ERR">>
      [] s = "Slide_Full" -> <<"MOTOR_STOP_ERR", "TRAFFIC_LIGHT_ACKED_ERROR">>
      [] s \in Unacknowledged -> <<"MOTOR_STOP_ERR", "TRAFFIC_LIGHT_UNACK_ERROR">>
      [] s = "Error_Acknowledged" -> <<"TRAFFIC_LIGHT_ACKED_ERROR">>
      [] s = "Rdy_Taking" -> <<"MOTOR_STOP_ERR", "TRAFFIC_LIGHT_RDY">>
      [] s = "Start" -> <<"MOTOR_START_ERR">>
      [] OTHER -> <<>>

EntrySent(s) ==
    CASE s = "OK" -> <<"TRAFFIC_LIGHT_NORMAL", "ERR_OK", "MOTOR_START_ERR">>
      [] s = "Early_Entry" -> <<"TRAFFIC_LIGHT_NEW_PUK", "MOTOR_STOP_ERR">>
      [] s \in Unacknowledged -> <<"MOTOR_STOP_ERR", "TRAFFIC_LIGHT_UNACK_ERROR">>
      [] s = "Error_Acknowledged" -> <<"TRAFFIC_LIGHT_ACKED_ERROR">>
      [] s = "Rdy_Taking" -> <<"MOTOR_STOP_ERR", "TRAFFIC_LIGHT_RDY">>
      [] s = "Start" -> <<"MOTOR_START_ERR">>
      [] OTHER -> <<>>

\* The pulses the transition itself sends, before the entry action.
TransitionSent(e) ==
    CASE e = "BUTTON_START" /\ error = "Error_Acknowledged" -> <<"ERR_OK">>
      [] e = "BUTTON_START" /\ error = "Rdy_Taking" -> <<"RDY_TAKING_OK">>
      [] OTHER -> <<>>

ErrorHandle(e) == ErrorEnter(ErrorAfter(e))
ErrorSent(e) == TransitionSent(e) \o EntrySent(ErrorAfter(e))
=============================================================================
