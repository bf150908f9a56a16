------------------------------- MODULE Belt -------------------------------
(***************************************************************************)
(* The safety controllers of one belt around the queue of the dispatcher.  *)
(*                                                                         *)
(* Interrupt handler, serial receivers, height sensor and Puk_control post *)
(* pulses into one FIFO channel; the dispatcher thread takes them out one  *)
(* by one and calls the listeners of each in the order they registered.    *)
(* All handlers run in that one thread.  Whatever a handler sends goes to  *)
(* the END of the same queue, behind pulses that are already there: that   *)
(* is where commands to the motor cross the buttons of the operators.      *)
(***************************************************************************)
EXTENDS MotorControler, ErrorFsm, EstopFsm, SignalLight

CONSTANTS
    Inputs,      \* the external events posted in this model
    MaxQueue     \* they are posted while fewer pulses than this are waiting

ASSUME InputsAssumption == Inputs \subseteq ExternalEvents
ASSUME MaxQueueAssumption == MaxQueue \in Nat

VARIABLES
    queue,     \* the pulses waiting in the channel of the dispatcher
    pressed,   \* the E-stop buttons, as their last posted edge left them
    step       \* how fast Tick_timer counts: follows the speed of the belt

vars == <<motorVars, errorVars, estopVars, lamp, queue, pressed, step>>

-----------------------------------------------------------------------------
\* The dispatcher has constructed everything.  The entry action of OK has run
\* in the constructor of Error_fsm; its first pulse is lost when the
\* dispatcher takes it before main() has constructed Signal_light.
StartupSent == EntrySent("OK")

Init ==
    /\ MotorInit /\ ErrorInit /\ EstopInit /\ LampInit
    /\ queue \in {StartupSent, Tail(StartupSent)}
    /\ pressed = [n \in Systems |-> FALSE]
    /\ step = "STOP"

-----------------------------------------------------------------------------
\* Pulses from outside.

Post(e) ==
    /\ e \in Inputs
    /\ Len(queue) < MaxQueue
    /\ queue' = Append(queue, e)
    /\ UNCHANGED <<motorVars, errorVars, estopVars, lamp, step>>

PressEstop(n) ==
    /\ ~ pressed[n]
    /\ Post(EstopEvent[n])
    /\ pressed' = [pressed EXCEPT ![n] = TRUE]

ReleaseEstop(n) ==
    /\ pressed[n]
    /\ Post(ReleasedEvent[n])
    /\ pressed' = [pressed EXCEPT ![n] = FALSE]

PostOther(e) ==
    /\ e \notin EstopEvents \cup ReleasedEvents
    /\ Post(e)
    /\ UNCHANGED pressed

-----------------------------------------------------------------------------
\* callListeners(): one pulse leaves the queue, and what the handlers of its
\* listeners send is queued in the order the handlers ran.

Receive(e, sent) ==
    /\ queue # <<>>
    /\ Head(queue) = e
    /\ queue' = Tail(queue) \o sent
    /\ UNCHANGED pressed

\* Listeners: Error_fsm, then the E-stop FSMs.
DispatchEstop(n) ==
    LET e == EstopEvent[n] IN
    /\ Receive(e, ErrorSent(e) \o FullStopSent(n))
    /\ ErrorHandle(e)
    /\ full_stop(n)
    /\ UNCHANGED <<motorVars, lamp, step>>

\* Listeners: the E-stop FSMs.
DispatchReleased(n) ==
    /\ Receive(ReleasedEvent[n], <<>>)
    /\ estop_released(n)
    /\ UNCHANGED <<motorVars, errorVars, lamp, step>>

\* Listeners: Error_fsm (the belt's own button only), then the E-stop FSMs.
DispatchOwnReset ==
    /\ Receive("BUTTON_RESET", ErrorSent("BUTTON_RESET"))
    /\ ErrorHandle("BUTTON_RESET")
    /\ reset(1)
    /\ UNCHANGED <<motorVars, lamp, step>>

DispatchOtherReset(n) ==
    /\ n # 1
    /\ Receive(ResetEvent[n], <<>>)
    /\ reset(n)
    /\ UNCHANGED <<motorVars, errorVars, lamp, step>>

\* Listeners: Error_fsm (the belt's own button only), then the E-stop FSMs.
DispatchOwnStart ==
    /\ Receive("BUTTON_START", ErrorSent("BUTTON_START") \o IdleSent)
    /\ ErrorHandle("BUTTON_START")
    /\ idle
    /\ UNCHANGED <<motorVars, lamp, step>>

DispatchIncomingStart ==
    /\ Receive("BUTTON_START_INCOMING", IdleSent)
    /\ idle
    /\ UNCHANGED <<motorVars, errorVars, lamp, step>>

\* Listener: Error_fsm.
DispatchReport(e) ==
    /\ Receive(e, ErrorSent(e))
    /\ ErrorHandle(e)
    /\ UNCHANGED <<motorVars, estopVars, lamp, step>>

\* Listener: Motorcontroler.
DispatchMotor(e) ==
    /\ Receive(e, MotorSent(e))
    /\ MotorHandle(e)
    /\ UNCHANGED <<errorVars, estopVars, lamp, step>>

\* Listener: Tick_timer.
TimerStep(e) ==
    CASE e = "SPEED_NORMAL" -> "FAST"
      [] e = "SPEED_SLOW" -> "SLOW"
      [] e = "SPEED_STOP" -> "STOP"

DispatchSpeed(e) ==
    /\ Receive(e, <<>>)
    /\ step' = TimerStep(e)
    /\ UNCHANGED <<motorVars, errorVars, estopVars, lamp>>

\* Listener: Signal_light.
DispatchLight(e) ==
    /\ Receive(e, <<>>)
    /\ LampHandle(e)
    /\ UNCHANGED <<motorVars, errorVars, estopVars, step>>

\* No listener among these controllers.
DispatchOutward(e) ==
    /\ Receive(e, <<>>)
    /\ UNCHANGED <<motorVars, errorVars, estopVars, lamp, step>>

Dispatch ==
    \/ \E n \in Systems : DispatchEstop(n)
    \/ \E n \in Systems : DispatchReleased(n)
    \/ DispatchOwnReset
    \/ \E n \in Systems : DispatchOtherReset(n)
    \/ DispatchOwnStart
    \/ DispatchIncomingStart
    \/ \E e \in FaultEvents \cup NoticeEvents \cup {"ESTOP_OK"} : DispatchReport(e)
    \/ \E e \in MotorEvents : DispatchMotor(e)
    \/ \E e \in SpeedEvents : DispatchSpeed(e)
    \/ \E e \in LightEvents : DispatchLight(e)
    \/ \E e \in OutwardEvents : DispatchOutward(e)

Next ==
    \/ \E n \in Systems : PressEstop(n)
    \/ \E n \in Systems : ReleaseEstop(n)
    \/ \E e \in Inputs : PostOther(e)
    \/ Dispatch

\* The dispatcher thread keeps taking pulses; nobody has to press a button.
Spec == Init /\ [][Next]_vars /\ WF_vars(Dispatch)

-----------------------------------------------------------------------------
\* Properties.

TypeOK ==
    /\ motor \in MotorStates
    /\ motorHistory \in
         [error : (MotorStates \ {"Stop_Error"}) \cup {"none"},
          speeds : RunningStates \cup {"none"}]
    /\ error \in ErrorStates
    /\ errorHistory \in SavedStates
    /\ estop \in [Systems -> EstopStates]
    /\ saved \in [Systems -> BOOLEAN]
    /\ lamp \in [lit : SUBSET Colours, blink : [Colours -> Rates]]
    /\ queue \in Seq(Event)
    /\ pressed \in [Systems -> BOOLEAN]
    /\ step \in {"STOP", "SLOW", "FAST"}

\* Some pulse of S waits in the queue.
Pending(S) == \E i \in DOMAIN queue : queue[i] \in S

\* The error the belt stands under: an E-stop only covers the one before it.
Standing == IF error = "Estop_Active" THEN errorHistory ELSE error

\* Error states in which the belt must stand still.
Holding == Unacknowledged \cup {"Error_Acknowledged", "Early_Entry", "Rdy_Taking"}

\* Once the SPEED_* pulses are delivered, Tick_timer counts at the speed of
\* the belt: timers of puks freeze while it stands (tick_timer.h:55-69).
TimerFollowsMotor ==
    ~ Pending(SpeedEvents) =>
        step = CASE motor = "Normal" -> "FAST"
                 [] motor = "Slow" -> "SLOW"
                 [] OTHER -> "STOP"

\* Once the commands of the error handling are delivered, a belt that stands
\* under an error stands still, whatever Puk_control or the operators sent,
\* through any number of E-stops (error_fsm.h:140-244).
ErrorStopsBelt == Standing \in Holding /\ ~ Pending(ErrMotorEvents) => motor = "Stop_Error"

\* Neither MOTOR_START_ERR nor MOTOR_START finds a history that was never
\* set, which they would copy over the vtable pointer of the state
\* (motorcontroler.h:63-66, 88-91).
HistoryDefined ==
    /\ motor = "Stop_Error" => motorHistory.error # "none"
    /\ "Stop" \in {motor, motorHistory.error} => motorHistory.speeds # "none"

\* Once the signals are delivered, an error nobody acknowledged blinks red.
LampShowsError ==
    Standing \in Unacknowledged /\ ~ Pending(LampEvents) => lamp.blink["red"] = "slow"

\* Error_fsm is in Estop_Active only while a button is being handled or the
\* ESTOP_OK that ends it is on its way: it cannot be left there for good.
EstopActiveBacked ==
    error = "Estop_Active" =>
        Pending({"ESTOP_OK"}) \/ \E n \in Systems : estop[n] # "Idle"

\* An error leaves only by RESET at the belt itself, which acknowledges it,
\* and then only by START at the belt itself; an E-stop between loses neither.
\* Nor does START get a belt going that waits for a puk to be taken back.
ErrorNotForgotten ==
    [][/\ Standing \in Unacknowledged /\ Standing' # Standing =>
            Head(queue) = "BUTTON_RESET" /\ Standing' = "Error_Acknowledged"
       /\ Standing = "Error_Acknowledged" /\ Standing' # Standing =>
            Head(queue) = "BUTTON_START" /\ Standing' = "OK"
       /\ error = "Early_Entry" /\ error' = "OK" =>
            Head(queue) = "ERR_PUK_TOO_EARLY_OK"]_vars

\* The E-stop FSMs and their checker implement the abstract interlock: they
\* return to Idle all together, when every one of them has been reset.
Interlock == INSTANCE EstopInterlock WITH
    System <- Systems,
    halted <- {n \in Systems : estop[n] # "Idle"},
    cleared <- {n \in Systems : estop[n] = "Reset"}
InterlockSpec == Interlock!Spec

\* A press that finds its FSM idle stops the belt, whatever else is waiting
\* in the queue before and after it.
PressStopsBelt ==
    \A n \in Systems :
        (Pending({EstopEvent[n]}) /\ estop[n] = "Idle") ~> (motor = "Stop_Error")

\* When every button has been dealt with Error_fsm leaves Estop_Active.
EstopResolved ==
    (error = "Estop_Active" /\ \A n \in Systems : estop[n] = "Idle")
        ~> (error # "Estop_Active")

-----------------------------------------------------------------------------
\* What the documents say and the code does not keep; see the README.

\* While an E-stop FSM is in Full_stop and everything has been delivered, the
\* belt stands still.
FullStopHoldsBelt ==
    queue = <<>> /\ (\E n \in Systems : estop[n] = "Full_stop")
        => motor \notin RunningStates
=============================================================================
