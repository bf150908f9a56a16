----------------------------- MODULE EstopFsm -----------------------------
(***************************************************************************)
(* The three Estop_fsm objects of a belt and the Estop_state_checker they  *)
(* share.  An FSM follows one E-stop button: pressed, released, reset, and *)
(* back to idle on START when the checker finds every FSM safe.            *)
(***************************************************************************)
EXTENDS Events

VARIABLES
    estop,   \* the state of each Estop_fsm
    saved    \* the flags of Estop_state_checker: TRUE if the FSM is safe

estopVars == <<estop, saved>>

EstopStates == {"Idle", "Full_stop", "Estop_released", "Reset"}

EstopInit ==
    /\ estop = [n \in Systems |-> "Idle"]
    /\ saved = [n \in Systems |-> TRUE]

\* A variant in which Estop_released counts as safe:
EstopMove_SafeTooSoon(n, s, t) ==
    IF estop[n] = s
    THEN /\ estop' = [estop EXCEPT ![n] = t]
         /\ saved' = [saved EXCEPT ![n] = t # "Full_stop"]
    ELSE UNCHANGED estopVars

\* FSM n goes from state s to state t if it is in s; t's constructor sets the
\* flag of the checker.  In any other state the event is ignored.
EstopMove(n, s, t) ==
    IF estop[n] = s
    THEN /\ estop' = [estop EXCEPT ![n] = t]
         /\ saved' = [saved EXCEPT ![n] = t \in {"Idle", "Reset"}]
    ELSE UNCHANGED estopVars

full_stop(n) == EstopMove(n, "Idle", "Full_stop")
estop_released(n) == EstopMove(n, "Full_stop", "Estop_released")
reset(n) == EstopMove(n, "Estop_released", "Reset")

\* The constructor of Full_stop stops the belt and asks for the red light.
\* A variant that only asks for the light:
FullStopSent_LightOnly(n) ==
    IF estop[n] = "Idle" THEN <<"TRAFFIC_LIGHT_UNACK_ERROR">> ELSE <<>>

FullStopSent(n) ==
    IF estop[n] = "Idle"
    THEN <<"MOTOR_STOP_ERR", "TRAFFIC_LIGHT_UNACK_ERROR">>
    ELSE <<>>

\* Estop_state_checker::transition_ok()
TransitionOk == \A n \in Systems : saved[n]

\* idle() of the three FSMs, called one after the other.  The flag of an FSM
\* in Reset or Idle is TRUE, so the answer of the checker stays the same.
idle ==
    /\ estop' = [n \in Systems |->
                   IF estop[n] = "Reset" /\ TransitionOk THEN "Idle" ELSE estop[n]]
    /\ saved' = [n \in Systems |->
                   saved[n] \/ (estop[n] = "Reset" /\ TransitionOk)]

\* A variant in which only the FSM of the belt's own button reports.
IdleSentBy_OwnOnly(n) ==
    IF n = 1 /\ estop[n] = "Reset" /\ TransitionOk THEN <<"ESTOP_OK">> ELSE <<>>

IdleSentBy(n) ==
    IF estop[n] = "Reset" /\ TransitionOk THEN <<"ESTOP_OK">> ELSE <<>>
IdleSent == IdleSentBy(1) \o IdleSentBy(2) \o IdleSentBy(3)
=============================================================================
