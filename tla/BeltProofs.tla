---------------------------- MODULE BeltProofs ----------------------------
(***************************************************************************)
(* Proofs about Belt for every set of inputs and every bound of the queue. *)
(***************************************************************************)
EXTENDS Belt, PulseQueues

-----------------------------------------------------------------------------
\* The pulses of the handlers.

\* Systems, element by element.
LEMMA SystemsAre == Systems = {1, 2, 3}
  BY DEF Systems

\* The families of events of the three buttons, by name.
LEMMA EventNames ==
    /\ EstopEvents = {"ESTOP_THIS", "ESTOP_SYSTEM2", "ESTOP_SYSTEM3"}
    /\ ReleasedEvents = {"ESTOP_RELEASED_THIS", "ESTOP_RELEASED_SYSTEM2",
                         "ESTOP_RELEASED_SYSTEM3"}
    /\ ResetEvents = {"BUTTON_RESET", "BUTTON_RESET_SYSTEM2",
                      "BUTTON_RESET_SYSTEM3"}
  <1>1. EstopEvents = {EstopEvent[1], EstopEvent[2], EstopEvent[3]}
    BY SystemsAre DEF EstopEvents
  <1>2. ReleasedEvents = {ReleasedEvent[1], ReleasedEvent[2], ReleasedEvent[3]}
    BY SystemsAre DEF ReleasedEvents
  <1>3. ResetEvents = {ResetEvent[1], ResetEvent[2], ResetEvent[3]}
    BY SystemsAre DEF ResetEvents
  <1> QED
    BY <1>1, <1>2, <1>3 DEF EstopEvent, ReleasedEvent, ResetEvent

\* The pulses the controllers send themselves; none of them comes from outside.
Internal == ErrMotorEvents \cup SpeedEvents \cup LightEvents \cup OutwardEvents
              \cup {"ESTOP_OK"}

\* Controllers and outside post different pulses.
LEMMA InternalEvents ==
    /\ Internal \subseteq Event
    /\ ExternalEvents \subseteq Event
    /\ Internal \cap ExternalEvents = {}
  BY EventNames DEF Internal, Event, ExternalEvents, StartEvents, FaultEvents,
     NoticeEvents, PukMotorEvents, ErrMotorEvents, SpeedEvents, LightEvents,
     LampEvents, OutwardEvents

\* EntrySent, one state after the other.
LEMMA EntrySentIs ==
    /\ EntrySent("OK") = <<"TRAFFIC_LIGHT_NORMAL", "ERR_OK", "MOTOR_START_ERR">>
    /\ EntrySent("Early_Entry") = <<"TRAFFIC_LIGHT_NEW_PUK", "MOTOR_STOP_ERR">>
    /\ \A s \in Unacknowledged :
         EntrySent(s) = <<"MOTOR_STOP_ERR", "TRAFFIC_LIGHT_UNACK_ERROR">>
    /\ EntrySent("Error_Acknowledged") = <<"TRAFFIC_LIGHT_ACKED_ERROR">>
    /\ EntrySent("Rdy_Taking") = <<"MOTOR_STOP_ERR", "TRAFFIC_LIGHT_RDY">>
    /\ EntrySent("Start") = <<"MOTOR_START_ERR">>
    /\ EntrySent("Estop_Active") = <<>>
  BY DEF EntrySent, Unacknowledged

\* TransitionSent sends at most one pulse, to Puk_control.
LEMMA TransitionSentIs ==
    ASSUME NEW e
    PROVE  TransitionSent(e) \in {<<"ERR_OK">>, <<"RDY_TAKING_OK">>, <<>>}
  BY DEF TransitionSent

\* What Error_fsm can enter.
Entered == ErrorStates \cup {"Start"}

\* An entry action sends pulses, but none to the tick timer.
LEMMA EntrySentUnheard ==
    ASSUME NEW s \in Entered
    PROVE  EntrySent(s) \in Seq(Internal \ SpeedEvents)
  <1> DEFINE U == Internal \ SpeedEvents
  <1>1. {"TRAFFIC_LIGHT_NORMAL", "ERR_OK", "MOTOR_START_ERR",
         "TRAFFIC_LIGHT_NEW_PUK", "MOTOR_STOP_ERR", "TRAFFIC_LIGHT_UNACK_ERROR",
         "TRAFFIC_LIGHT_ACKED_ERROR", "TRAFFIC_LIGHT_RDY"} \subseteq U
    BY DEF Internal, ErrMotorEvents, LightEvents, LampEvents, OutwardEvents, SpeedEvents
  <1> SUFFICES EntrySent(s) \in Seq(U)
    OBVIOUS
  <1> HIDE DEF U
  <1>2. CASE s = "OK"
    BY <1>1, <1>2, EntrySentIs, ShortSequences
  <1>3. CASE s = "Early_Entry"
    BY <1>1, <1>3, EntrySentIs, ShortSequences
  <1>4. CASE s \in Unacknowledged
    BY <1>1, <1>4, EntrySentIs, ShortSequences
  <1>5. CASE s \in {"Error_Acknowledged", "Start"}
    BY <1>1, <1>5, EntrySentIs, ShortSequences
  <1>6. CASE s \in {"Rdy_Taking", "Estop_Active"}
    BY <1>1, <1>6, EntrySentIs, ShortSequences
  <1> QED
    BY <1>2, <1>3, <1>4, <1>5, <1>6 DEF Entered, ErrorStates, OkStates

\* Nor does a transition.
LEMMA TransitionSentUnheard ==
    ASSUME NEW e
    PROVE  TransitionSent(e) \in Seq(Internal \ SpeedEvents)
  <1>1. {"ERR_OK", "RDY_TAKING_OK"} \subseteq Internal \ SpeedEvents
    BY DEF Internal, OutwardEvents, SpeedEvents
  <1> QED BY <1>1, TransitionSentIs, ShortSequences

\* An entry action sends pulses of the controllers.
LEMMA EntrySentType ==
    ASSUME NEW s \in Entered
    PROVE  EntrySent(s) \in Seq(Internal)
  BY EntrySentUnheard, SeqSubset

\* So does a transition.
LEMMA TransitionSentType ==
    ASSUME NEW e
    PROVE  TransitionSent(e) \in Seq(Internal)
  BY TransitionSentUnheard, SeqSubset

\* So does a handler of Error_fsm as a whole.
LEMMA ErrorSentType ==
    ASSUME NEW e, ErrorAfter(e) \in Entered
    PROVE  ErrorSent(e) \in Seq(Internal)
  BY EntrySentType, TransitionSentType, Concatenation DEF ErrorSent

\* The motor sends SPEED_* pulses.
LEMMA MotorSentType ==
    ASSUME NEW e
    PROVE  MotorSent(e) \in Seq(Internal)
  BY DEF MotorSent, MotorSpeed, Internal, SpeedEvents

\* The constructor of Full_stop sends pulses of the controllers.
LEMMA FullStopSentType ==
    ASSUME NEW n
    PROVE  FullStopSent(n) \in Seq(Internal)
  <1>1. {"MOTOR_STOP_ERR", "TRAFFIC_LIGHT_UNACK_ERROR"} \subseteq Internal
    BY DEF Internal, ErrMotorEvents, LightEvents, LampEvents
  <1>2. CASE estop[n] = "Idle"
    BY <1>1, <1>2, ShortSequences DEF FullStopSent
  <1>3. CASE estop[n] # "Idle"
    BY <1>3, ShortSequences DEF FullStopSent
  <1> QED BY <1>2, <1>3

\* START makes the E-stop FSMs send nothing but ESTOP_OK.
LEMMA IdleSentType ==
    /\ \A n \in Systems : IdleSentBy(n) \in Seq({"ESTOP_OK"})
    /\ IdleSent \in Seq({"ESTOP_OK"})
    /\ IdleSent \in Seq(Internal)
  <1>1. \A n \in Systems : IdleSentBy(n) \in Seq({"ESTOP_OK"})
    <2> TAKE n \in Systems
    <2>1. CASE estop[n] = "Reset" /\ TransitionOk
      BY <2>1, ShortSequences DEF IdleSentBy
    <2>2. CASE ~ (estop[n] = "Reset" /\ TransitionOk)
      BY <2>2, ShortSequences DEF IdleSentBy
    <2> QED BY <2>1, <2>2
  <1>2. IdleSent \in Seq({"ESTOP_OK"})
    BY <1>1, SystemsAre, Concatenation DEF IdleSent
  <1>3. {"ESTOP_OK"} \subseteq Internal
    BY DEF Internal
  <1> QED BY <1>1, <1>2, <1>3

-----------------------------------------------------------------------------
\* Steps of the queue.

\* What a dispatch does to the queue.
LEMMA ReceiveType ==
    ASSUME queue \in Seq(Event), NEW e, NEW s \in Seq(Internal), Receive(e, s)
    PROVE  /\ queue # <<>> /\ e = Head(queue) /\ e \in Event
           /\ queue' = Tail(queue) \o s /\ queue' \in Seq(Event)
           /\ s \in Seq(Event)
           /\ pressed' = pressed
  <1>1. s \in Seq(Event)
    BY InternalEvents, SeqSubset
  <1>2. Head(queue) \in Event
    BY DEF Receive
  <1> QED BY <1>1, <1>2, NextQueue DEF Receive

\* What a post does to the queue.
LEMMA PostType ==
    ASSUME queue \in Seq(Event), NEW e, Post(e)
    PROVE  /\ e \in ExternalEvents /\ e \in Event
           /\ queue' = Append(queue, e) /\ queue' \in Seq(Event)
           /\ UNCHANGED <<motorVars, errorVars, estopVars, lamp, step>>
  BY InputsAssumption, InternalEvents DEF Post

\* Whatever is posted, only the queue and the buttons change.
Posting ==
    /\ \E e \in ExternalEvents : queue' = Append(queue, e)
    /\ UNCHANGED <<motorVars, errorVars, estopVars, lamp, step>>

\* Buttons and other inputs only post.
LEMMA PostingStep ==
    ASSUME TypeOK,
           \/ \E n \in Systems : PressEstop(n)
           \/ \E n \in Systems : ReleaseEstop(n)
           \/ \E e \in Inputs : PostOther(e)
    PROVE  Posting /\ queue' \in Seq(Event) /\ pressed' \in [Systems -> BOOLEAN]
  <1>0. queue \in Seq(Event) /\ pressed \in [Systems -> BOOLEAN]
    BY DEF TypeOK
  <1>1. ASSUME NEW n \in Systems, PressEstop(n)
        PROVE  Posting /\ queue' \in Seq(Event) /\ pressed' \in [Systems -> BOOLEAN]
    <2>1. Post(EstopEvent[n])
      BY <1>1 DEF PressEstop
    <2> QED BY <1>0, <1>1, <2>1, PostType DEF PressEstop, Posting
  <1>2. ASSUME NEW n \in Systems, ReleaseEstop(n)
        PROVE  Posting /\ queue' \in Seq(Event) /\ pressed' \in [Systems -> BOOLEAN]
    <2>1. Post(ReleasedEvent[n])
      BY <1>2 DEF ReleaseEstop
    <2> QED BY <1>0, <1>2, <2>1, PostType DEF ReleaseEstop, Posting
  <1>3. ASSUME NEW e \in Inputs, PostOther(e)
        PROVE  Posting /\ queue' \in Seq(Event) /\ pressed' \in [Systems -> BOOLEAN]
    <2>1. Post(e)
      BY <1>3 DEF PostOther
    <2> QED BY <1>0, <1>3, <2>1, PostType DEF PostOther, Posting
  <1> QED BY <1>1, <1>2, <1>3

-----------------------------------------------------------------------------
\* The state machine of the errors.

\* The history is the error that stands, but for Early_Entry, which is not
\* saved, and for OK, under which the history may still be Start.
ErrorInv ==
    /\ error \in ErrorStates
    /\ errorHistory \in SavedStates
    /\ error \in OkStates => errorHistory \in {"OK", "Start"}
    /\ error \notin OkStates \cup {"Estop_Active"} => errorHistory = error

\* Transitions end in states of Error_fsm.
LEMMA ErrorAfterIn ==
    ASSUME ErrorInv, NEW e
    PROVE  ErrorAfter(e) \in Entered
  BY DEF ErrorInv, ErrorAfter, Started, FaultState, FaultEvents, Entered,
     ErrorStates, OkStates, SavedStates, Unacknowledged

\* Every handler of Error_fsm keeps its history in order.
LEMMA ErrorStep ==
    ASSUME ErrorInv, NEW e, ErrorHandle(e)
    PROVE  ErrorInv'
  BY DEF ErrorInv, ErrorHandle, ErrorEnter, ErrorAfter, Started, FaultState,
     FaultEvents, ErrorStates, OkStates, SavedStates, Unacknowledged

-----------------------------------------------------------------------------
\* The state machine of the motor and its history.

\* A motor event waits before the first MOTOR_STOP_ERR.
Prepared(q) ==
    \E j \in DOMAIN q :
        /\ q[j] \in MotorEvents
        /\ \A i \in DOMAIN q : i <= j => q[i] # "MOTOR_STOP_ERR"

\* A waiting motor event stays first when a pulse is appended.
LEMMA PreparedAppend ==
    ASSUME NEW T, NEW q \in Seq(T), NEW e \in T, Prepared(q)
    PROVE  Prepared(Append(q, e))
  <1>1. /\ DOMAIN q = 1..Len(q) /\ Len(q) \in Nat
        /\ DOMAIN Append(q, e) = 1..(Len(q) + 1)
        /\ \A i \in 1..Len(q) : Append(q, e)[i] = q[i]
    OBVIOUS
  <1> QED BY <1>1 DEF Prepared

\* It stays first until it is taken out.
LEMMA PreparedNext ==
    ASSUME NEW T, NEW q \in Seq(T), NEW s \in Seq(T), q # <<>>, Prepared(q),
           Head(q) \notin MotorEvents
    PROVE  Prepared(Tail(q) \o s)
  <1>1. PICK j \in DOMAIN q :
            /\ q[j] \in MotorEvents
            /\ \A i \in DOMAIN q : i <= j => q[i] # "MOTOR_STOP_ERR"
    BY DEF Prepared
  <1>2. j \in 1..Len(q) /\ j # 1 /\ j - 1 \in 1..(Len(q) - 1)
    BY <1>1, NextQueue
  <1>3. j - 1 \in DOMAIN (Tail(q) \o s) /\ (Tail(q) \o s)[j - 1] = q[j]
    BY <1>2, NextQueue
  <1>4. ASSUME NEW i \in DOMAIN (Tail(q) \o s), i <= j - 1
        PROVE  (Tail(q) \o s)[i] # "MOTOR_STOP_ERR"
    <2>1. i \in 1..(Len(q) - 1) /\ i + 1 \in DOMAIN q /\ i + 1 <= j
      BY <1>2, <1>4, NextQueue
    <2> QED BY <1>1, <2>1, NextQueue
  <1> QED BY <1>1, <1>3, <1>4 DEF Prepared

\* The history is set from the first motor event on, which MOTOR_STOP_ERR
\* never is; unless it stands in Stop_Error the motor is in the saved state;
\* and the speed is saved before the motor can be in Stop.
MotorInv ==
    /\ motor \in MotorStates
    /\ motorHistory \in
         [error : (MotorStates \ {"Stop_Error"}) \cup {"none"},
          speeds : RunningStates \cup {"none"}]
    /\ motorHistory.error = "none" => motor = "Idle"
    /\ motorHistory.error # "none" /\ motor # "Stop_Error"
         => motorHistory.error = motor
    /\ motorHistory.error \in RunningStates \cup {"Stop"}
         => motorHistory.speeds # "none"

MotorPrepared == motorHistory.error = "none" => Prepared(queue)

\* A handler of the motor keeps its history in order and sets it.
LEMMA MotorStep ==
    ASSUME MotorInv, NEW e \in MotorEvents, MotorHandle(e),
           motorHistory.error = "none" => e # "MOTOR_STOP_ERR"
    PROVE  MotorInv' /\ motorHistory.error' # "none"
  <1>1. MotorAfter(e) \in MotorStates
    BY DEF MotorInv, MotorAfter, MotorStates, RunningStates
  <1>2. MotorAfter(e) = "Stop_Error" => motorHistory.error # "none"
    BY DEF MotorInv, MotorAfter, MotorStates, RunningStates
  <1>3. MotorAfter(e) = "Stop" => motorHistory.speeds # "none"
    BY DEF MotorInv, MotorAfter, MotorStates, RunningStates
  <1>4. motor' = MotorAfter(e)
    BY DEF MotorHandle, MotorEnter
  <1>5. /\ motorHistory.error' = IF MotorAfter(e) = "Stop_Error"
                                 THEN motorHistory.error ELSE MotorAfter(e)
        /\ motorHistory.speeds' = IF MotorAfter(e) \in RunningStates
                                  THEN MotorAfter(e) ELSE motorHistory.speeds
        /\ motorHistory' = [error |-> motorHistory.error', speeds |-> motorHistory.speeds']
    BY DEF MotorHandle, MotorEnter
  <1> QED
    BY <1>1, <1>2, <1>3, <1>4, <1>5 DEF MotorInv, MotorStates, RunningStates

-----------------------------------------------------------------------------
\* The E-stop FSMs, the lamp and the step of the timers.

EstopInv == estop \in [Systems -> EstopStates] /\ saved \in [Systems -> BOOLEAN]

\* A move of one E-stop FSM is type correct.
LEMMA EstopMoveType ==
    ASSUME EstopInv, NEW n \in Systems, NEW s, NEW t \in EstopStates,
           EstopMove(n, s, t)
    PROVE  EstopInv'
  <1>1. ASSUME NEW b \in BOOLEAN
        PROVE  [saved EXCEPT ![n] = b] \in [Systems -> BOOLEAN]
    BY DEF EstopInv
  <1>2. (t \in {"Idle", "Reset"}) \in BOOLEAN
    OBVIOUS
  <1>3. CASE estop[n] = s
    <2>1. estop' \in [Systems -> EstopStates]
      BY <1>3 DEF EstopInv, EstopMove
    <2>2. saved' = [saved EXCEPT ![n] = t \in {"Idle", "Reset"}]
      BY <1>3 DEF EstopMove
    <2>3. saved' \in [Systems -> BOOLEAN]
      BY <1>1, <1>2, <2>2, Zenon
    <2> QED BY <2>1, <2>3 DEF EstopInv
  <1>4. CASE estop[n] # s
    BY <1>4 DEF EstopInv, EstopMove, estopVars
  <1> QED BY <1>3, <1>4

\* START keeps the E-stop FSMs type correct.
LEMMA IdleType ==
    ASSUME EstopInv, idle
    PROVE  EstopInv'
  <1>1. estop' \in [Systems -> EstopStates]
    BY DEF EstopInv, idle, EstopStates
  <1>2. saved' \in [Systems -> BOOLEAN]
    <2>1. \A n \in Systems : (saved[n] \/ (estop[n] = "Reset" /\ TransitionOk)) \in BOOLEAN
      OBVIOUS
    <2> QED BY <2>1 DEF idle
  <1> QED BY <1>1, <1>2 DEF EstopInv

LampType == [lit : SUBSET Colours, blink : [Colours -> Rates]]

\* Every handler of Signal_light keeps the lamp type correct.
LEMMA LampStep ==
    ASSUME lamp \in LampType, NEW e \in LightEvents, LampHandle(e)
    PROVE  lamp' \in LampType
  <1>1. ASSUME NEW lit \in SUBSET Colours, NEW c, NEW rate \in Rates
        PROVE  Blinking(lit, c, rate) \in LampType
    BY <1>1 DEF Blinking, LampType, Rates
  <1>2. Dark \in LampType
    BY DEF Dark, LampType, Rates
  <1>3. CASE e = "TRAFFIC_LIGHT_NORMAL"
    <2>1. lamp' = [Dark EXCEPT !.lit = {"green"}]
      BY <1>3 DEF LampHandle, LampAfter
    <2> QED BY <1>2, <2>1 DEF LampType, Colours
  <1>4. CASE e = "TRAFFIC_LIGHT_UNACK_ERROR"
    <2>1. lamp' = Blinking({"red"}, "red", "slow")
      BY <1>4 DEF LampHandle, LampAfter
    <2> QED BY <1>1, <2>1 DEF Colours, Rates
  <1>5. CASE e = "TRAFFIC_LIGHT_ACKED_ERROR"
    <2>1. lamp' = Blinking({}, "red", "fast")
      BY <1>5 DEF LampHandle, LampAfter
    <2> QED BY <1>1, <2>1 DEF Colours, Rates
  <1>6. CASE e = "TRAFFIC_LIGHT_RDY"
    <2>1. lamp' = Blinking({"green"}, "green", "slow")
      BY <1>6 DEF LampHandle, LampAfter
    <2> QED BY <1>1, <2>1 DEF Colours, Rates
  <1>7. CASE e = "TRAFFIC_LIGHT_NEW_PUK"
    <2>1. lamp' = [lamp EXCEPT !.blink["yellow"] = "slow"]
      BY <1>7 DEF LampHandle, LampAfter
    <2>2. lamp.lit \in SUBSET Colours /\ lamp.blink \in [Colours -> Rates]
      BY DEF LampType
    <2>3. lamp' = [lit |-> lamp.lit, blink |-> [lamp.blink EXCEPT !["yellow"] = "slow"]]
      BY <2>1 DEF LampType
    <2>4. [lamp.blink EXCEPT !["yellow"] = "slow"] \in [Colours -> Rates]
      BY <2>2 DEF Rates
    <2> QED BY <2>2, <2>3, <2>4 DEF LampType
  <1> QED
    BY <1>3, <1>4, <1>5, <1>6, <1>7 DEF LightEvents, LampEvents

\* Every SPEED_* pulse sets a step.
LEMMA TimerStepType ==
    ASSUME NEW e \in SpeedEvents
    PROVE  TimerStep(e) \in {"STOP", "SLOW", "FAST"}
  BY DEF SpeedEvents, TimerStep

-----------------------------------------------------------------------------
\* Type correctness.  It is inductive together with what keeps an unset
\* history from being restored.

TypeInv == TypeOK /\ MotorInv /\ MotorPrepared /\ ErrorInv

\* The dispatcher starts type correct, MOTOR_START_ERR being on its way.
LEMMA TypeInvInit == Init => TypeInv
  <1> SUFFICES ASSUME Init
               PROVE  TypeInv
    OBVIOUS
  <1>1. MotorInv /\ motorHistory.error = "none"
    BY DEF Init, MotorInit, MotorInv, MotorStates, RunningStates
  <1>2. ErrorInv
    BY DEF Init, ErrorInit, ErrorInv, ErrorStates, OkStates, SavedStates
  <1>3. EstopInv
    BY DEF Init, EstopInit, EstopInv, EstopStates
  <1>4. lamp \in LampType
    BY DEF Init, LampInit, Dark, LampType, Colours, Rates
  <1>5. StartupSent \in Seq(Event) /\ Tail(StartupSent) \in Seq(Event)
    <2>1. "OK" \in Entered
      BY DEF Entered, ErrorStates, OkStates
    <2>2. StartupSent \in Seq(Internal)
      BY <2>1, EntrySentType DEF StartupSent
    <2>3. StartupSent # <<>>
      BY EntrySentIs DEF StartupSent
    <2> QED BY <2>2, <2>3, InternalEvents, SeqSubset
  <1>6. Prepared(StartupSent) /\ Prepared(Tail(StartupSent))
    <2>1. StartupSent = <<"TRAFFIC_LIGHT_NORMAL", "ERR_OK", "MOTOR_START_ERR">>
      BY EntrySentIs DEF StartupSent
    <2>2. Tail(StartupSent) = <<"ERR_OK", "MOTOR_START_ERR">>
      BY <2>1
    <2> QED
      BY <2>1, <2>2 DEF Prepared, MotorEvents, ErrMotorEvents
  <1>7. queue \in {StartupSent, Tail(StartupSent)}
    BY DEF Init
  <1>8. queue \in Seq(Event) /\ MotorPrepared
    BY <1>5, <1>6, <1>7 DEF MotorPrepared
  <1>9. pressed \in [Systems -> BOOLEAN] /\ step \in {"STOP", "SLOW", "FAST"}
    BY DEF Init
  <1> QED
    BY <1>1, <1>2, <1>3, <1>4, <1>8, <1>9
       DEF TypeInv, TypeOK, MotorInv, ErrorInv, EstopInv, LampType

\* A dispatch that is not of a motor event keeps the motor as it is.
LEMMA MotorKept ==
    ASSUME queue \in Seq(Event), MotorInv, MotorPrepared, UNCHANGED motorVars,
           NEW e, NEW s \in Seq(Internal), Receive(e, s), e \notin MotorEvents
    PROVE  MotorInv' /\ MotorPrepared'
  <1>1. /\ queue # <<>> /\ e = Head(queue) /\ s \in Seq(Event)
        /\ queue' = Tail(queue) \o s
    BY ReceiveType
  <1>2. Prepared(queue) => Prepared(queue')
    BY <1>1, PreparedNext
  <1> QED BY <1>2 DEF MotorInv, MotorPrepared, motorVars

\* What a dispatch leaves to show once its queue and its component are typed.
LEMMA TypeParts ==
    ASSUME queue' \in Seq(Event), pressed' \in [Systems -> BOOLEAN],
           lamp' \in LampType, step' \in {"STOP", "SLOW", "FAST"},
           EstopInv', MotorInv', MotorPrepared', ErrorInv'
    PROVE  TypeInv'
  BY DEF TypeInv, TypeOK, MotorInv, ErrorInv, EstopInv, LampType

\* Events the motor does not listen to.
LEMMA NotMotorEvents ==
    /\ \A n \in Systems : /\ EstopEvent[n] \notin MotorEvents
                          /\ ReleasedEvent[n] \notin MotorEvents
                          /\ ResetEvent[n] \notin MotorEvents
    /\ "BUTTON_RESET" \notin MotorEvents /\ "BUTTON_START" \notin MotorEvents
    /\ "BUTTON_START_INCOMING" \notin MotorEvents
    /\ \A e \in FaultEvents \cup NoticeEvents \cup {"ESTOP_OK"} : e \notin MotorEvents
    /\ \A e \in SpeedEvents \cup LightEvents \cup OutwardEvents : e \notin MotorEvents
  BY SystemsAre DEF EstopEvent, ReleasedEvent, ResetEvent, MotorEvents,
     PukMotorEvents, ErrMotorEvents, FaultEvents, NoticeEvents, SpeedEvents,
     LightEvents, LampEvents, OutwardEvents

\* Every step keeps it so.
LEMMA TypeInvNext == TypeInv /\ [Next]_vars => TypeInv'
  <1> SUFFICES ASSUME TypeInv, [Next]_vars
               PROVE  TypeInv'
    OBVIOUS
  <1>0. /\ queue \in Seq(Event) /\ pressed \in [Systems -> BOOLEAN]
        /\ lamp \in LampType /\ step \in {"STOP", "SLOW", "FAST"}
        /\ EstopInv /\ MotorInv /\ MotorPrepared /\ ErrorInv
    BY DEF TypeInv, TypeOK, EstopInv, LampType
  <1>1. ASSUME Posting, queue' \in Seq(Event), pressed' \in [Systems -> BOOLEAN]
        PROVE  TypeInv'
    <2>1. PICK e \in ExternalEvents : queue' = Append(queue, e)
      BY <1>1 DEF Posting
    <2>2. e \in Event
      BY InternalEvents
    <2>3. MotorPrepared'
      BY <1>0, <1>1, <2>1, <2>2, PreparedAppend DEF MotorPrepared, Posting, motorVars
    <2> QED
      BY <1>0, <1>1, <2>3, TypeParts
         DEF Posting, motorVars, errorVars, estopVars, MotorInv, ErrorInv, EstopInv
  <1>2. ASSUME NEW n \in Systems, DispatchEstop(n)
        PROVE  TypeInv'
    <2> DEFINE e == EstopEvent[n]
               s == ErrorSent(e) \o FullStopSent(n)
    <2>1. s \in Seq(Internal)
      BY <1>0, ErrorAfterIn, ErrorSentType, FullStopSentType, Concatenation
    <2>2. Receive(e, s) /\ ErrorHandle(e) /\ full_stop(n)
      BY <1>2 DEF DispatchEstop
    <2>3. UNCHANGED <<motorVars, lamp, step>>
      BY <1>2 DEF DispatchEstop
    <2>4. MotorInv' /\ MotorPrepared'
      <3>1. e \notin MotorEvents
        BY NotMotorEvents
      <3> HIDE DEF e, s
      <3> QED BY <1>0, <2>1, <2>2, <2>3, <3>1, MotorKept
    <2>5. EstopInv'
      BY <1>0, <2>2, EstopMoveType DEF full_stop, EstopStates
    <2>6. ErrorInv'
      BY <1>0, <2>2, ErrorStep
    <2>7. queue' \in Seq(Event) /\ pressed' = pressed
      <3> HIDE DEF e, s
      <3> QED BY <1>0, <2>1, <2>2, ReceiveType
    <2> QED BY <1>0, <2>3, <2>4, <2>5, <2>6, <2>7, TypeParts
  <1>3. ASSUME NEW n \in Systems, DispatchReleased(n)
        PROVE  TypeInv'
    <2>1. Receive(ReleasedEvent[n], <<>>) /\ estop_released(n)
      BY <1>3 DEF DispatchReleased
    <2>2. UNCHANGED <<motorVars, errorVars, lamp, step>>
      BY <1>3 DEF DispatchReleased
    <2>3. <<>> \in Seq(Internal)
      BY ShortSequences
    <2>4. MotorInv' /\ MotorPrepared'
      BY <1>0, <2>1, <2>2, <2>3, MotorKept, NotMotorEvents
    <2>5. EstopInv'
      BY <1>0, <2>1, EstopMoveType DEF estop_released, EstopStates
    <2>6. queue' \in Seq(Event) /\ pressed' = pressed
      BY <1>0, <2>1, <2>3, ReceiveType
    <2> QED
      BY <1>0, <2>2, <2>4, <2>5, <2>6, TypeParts DEF ErrorInv, errorVars
  <1>4. ASSUME DispatchOwnReset
        PROVE  TypeInv'
    <2>1. Receive("BUTTON_RESET", ErrorSent("BUTTON_RESET")) /\ reset(1)
      BY <1>4 DEF DispatchOwnReset
    <2>2. ErrorHandle("BUTTON_RESET") /\ UNCHANGED <<motorVars, lamp, step>>
      BY <1>4 DEF DispatchOwnReset
    <2>3. ErrorSent("BUTTON_RESET") \in Seq(Internal)
      BY <1>0, ErrorAfterIn, ErrorSentType
    <2>4. MotorInv' /\ MotorPrepared'
      BY <1>0, <2>1, <2>2, <2>3, MotorKept, NotMotorEvents
    <2>5. EstopInv'
      BY <1>0, <2>1, SystemsAre, EstopMoveType DEF reset, EstopStates
    <2>6. ErrorInv'
      BY <1>0, <2>2, ErrorStep
    <2>7. queue' \in Seq(Event) /\ pressed' = pressed
      BY <1>0, <2>1, <2>3, ReceiveType
    <2> QED BY <1>0, <2>2, <2>4, <2>5, <2>6, <2>7, TypeParts
  <1>5. ASSUME NEW n \in Systems, DispatchOtherReset(n)
        PROVE  TypeInv'
    <2>1. Receive(ResetEvent[n], <<>>) /\ reset(n)
      BY <1>5 DEF DispatchOtherReset
    <2>2. UNCHANGED <<motorVars, errorVars, lamp, step>>
      BY <1>5 DEF DispatchOtherReset
    <2>3. <<>> \in Seq(Internal)
      BY ShortSequences
    <2>4. MotorInv' /\ MotorPrepared'
      BY <1>0, <2>1, <2>2, <2>3, MotorKept, NotMotorEvents
    <2>5. EstopInv'
      BY <1>0, <2>1, EstopMoveType DEF reset, EstopStates
    <2>6. queue' \in Seq(Event) /\ pressed' = pressed
      BY <1>0, <2>1, <2>3, ReceiveType
    <2> QED
      BY <1>0, <2>2, <2>4, <2>5, <2>6, TypeParts DEF ErrorInv, errorVars
  <1>6. ASSUME DispatchOwnStart
        PROVE  TypeInv'
    <2> DEFINE s == ErrorSent("BUTTON_START") \o IdleSent
    <2>1. Receive("BUTTON_START", s) /\ idle
      BY <1>6 DEF DispatchOwnStart
    <2>2. ErrorHandle("BUTTON_START") /\ UNCHANGED <<motorVars, lamp, step>>
      BY <1>6 DEF DispatchOwnStart
    <2>3. s \in Seq(Internal)
      BY <1>0, ErrorAfterIn, ErrorSentType, IdleSentType, Concatenation
    <2> HIDE DEF s
    <2>4. MotorInv' /\ MotorPrepared'
      BY <1>0, <2>1, <2>2, <2>3, MotorKept, NotMotorEvents
    <2>5. EstopInv'
      BY <1>0, <2>1, IdleType
    <2>6. ErrorInv'
      BY <1>0, <2>2, ErrorStep
    <2>7. queue' \in Seq(Event) /\ pressed' = pressed
      BY <1>0, <2>1, <2>3, ReceiveType
    <2> QED BY <1>0, <2>2, <2>4, <2>5, <2>6, <2>7, TypeParts
  <1>7. ASSUME DispatchIncomingStart
        PROVE  TypeInv'
    <2>1. Receive("BUTTON_START_INCOMING", IdleSent) /\ idle
      BY <1>7 DEF DispatchIncomingStart
    <2>2. UNCHANGED <<motorVars, errorVars, lamp, step>>
      BY <1>7 DEF DispatchIncomingStart
    <2>3. MotorInv' /\ MotorPrepared'
      BY <1>0, <2>1, <2>2, IdleSentType, MotorKept, NotMotorEvents
    <2>4. EstopInv'
      BY <1>0, <2>1, IdleType
    <2>5. queue' \in Seq(Event) /\ pressed' = pressed
      BY <1>0, <2>1, IdleSentType, ReceiveType
    <2> QED
      BY <1>0, <2>2, <2>3, <2>4, <2>5, TypeParts DEF ErrorInv, errorVars
  <1>8. ASSUME NEW e \in FaultEvents \cup NoticeEvents \cup {"ESTOP_OK"},
               DispatchReport(e)
        PROVE  TypeInv'
    <2>1. Receive(e, ErrorSent(e)) /\ ErrorHandle(e)
      BY <1>8 DEF DispatchReport
    <2>2. UNCHANGED <<motorVars, estopVars, lamp, step>>
      BY <1>8 DEF DispatchReport
    <2>3. ErrorSent(e) \in Seq(Internal)
      BY <1>0, ErrorAfterIn, ErrorSentType
    <2>4. MotorInv' /\ MotorPrepared'
      BY <1>0, <2>1, <2>2, <2>3, MotorKept, NotMotorEvents
    <2>5. ErrorInv'
      BY <1>0, <2>1, ErrorStep
    <2>6. queue' \in Seq(Event) /\ pressed' = pressed
      BY <1>0, <2>1, <2>3, ReceiveType
    <2> QED
      BY <1>0, <2>2, <2>4, <2>5, <2>6, TypeParts DEF EstopInv, estopVars
  <1>9. ASSUME NEW e \in MotorEvents, DispatchMotor(e)
        PROVE  TypeInv'
    <2>1. Receive(e, MotorSent(e)) /\ MotorHandle(e)
      BY <1>9 DEF DispatchMotor
    <2>2. UNCHANGED <<errorVars, estopVars, lamp, step>>
      BY <1>9 DEF DispatchMotor
    <2>3. queue # <<>> /\ e = Head(queue) /\ queue' \in Seq(Event) /\ pressed' = pressed
      BY <1>0, <2>1, MotorSentType, ReceiveType
    <2>4. motorHistory.error = "none" => e # "MOTOR_STOP_ERR"
      BY <1>0, <2>3, NextQueue DEF MotorPrepared, Prepared
    <2>5. MotorInv' /\ MotorPrepared'
      BY <1>0, <2>1, <2>4, MotorStep DEF MotorPrepared
    <2> QED
      BY <1>0, <2>2, <2>3, <2>5, TypeParts
         DEF ErrorInv, errorVars, EstopInv, estopVars
  <1>10. ASSUME NEW e \in SpeedEvents, DispatchSpeed(e)
         PROVE  TypeInv'
    <2>1. Receive(e, <<>>) /\ step' \in {"STOP", "SLOW", "FAST"}
      BY <1>10, TimerStepType DEF DispatchSpeed
    <2>2. UNCHANGED <<motorVars, errorVars, estopVars, lamp>>
      BY <1>10 DEF DispatchSpeed
    <2>3. <<>> \in Seq(Internal)
      BY ShortSequences
    <2>4. MotorInv' /\ MotorPrepared'
      BY <1>0, <2>1, <2>2, <2>3, MotorKept, NotMotorEvents
    <2>5. queue' \in Seq(Event) /\ pressed' = pressed
      BY <1>0, <2>1, <2>3, ReceiveType
    <2> QED
      BY <1>0, <2>1, <2>2, <2>4, <2>5, TypeParts
         DEF ErrorInv, errorVars, EstopInv, estopVars
  <1>11. ASSUME NEW e \in LightEvents, DispatchLight(e)
         PROVE  TypeInv'
    <2>1. Receive(e, <<>>) /\ lamp' \in LampType
      BY <1>0, <1>11, LampStep DEF DispatchLight
    <2>2. UNCHANGED <<motorVars, errorVars, estopVars, step>>
      BY <1>11 DEF DispatchLight
    <2>3. <<>> \in Seq(Internal)
      BY ShortSequences
    <2>4. MotorInv' /\ MotorPrepared'
      BY <1>0, <2>1, <2>2, <2>3, MotorKept, NotMotorEvents
    <2>5. queue' \in Seq(Event) /\ pressed' = pressed
      BY <1>0, <2>1, <2>3, ReceiveType
    <2> QED
      BY <1>0, <2>1, <2>2, <2>4, <2>5, TypeParts
         DEF ErrorInv, errorVars, EstopInv, estopVars
  <1>12. ASSUME NEW e \in OutwardEvents, DispatchOutward(e)
         PROVE  TypeInv'
    <2>1. Receive(e, <<>>)
      BY <1>12 DEF DispatchOutward
    <2>2. UNCHANGED <<motorVars, errorVars, estopVars, lamp, step>>
      BY <1>12 DEF DispatchOutward
    <2>3. <<>> \in Seq(Internal)
      BY ShortSequences
    <2>4. MotorInv' /\ MotorPrepared'
      BY <1>0, <2>1, <2>2, <2>3, MotorKept, NotMotorEvents
    <2>5. queue' \in Seq(Event) /\ pressed' = pressed
      BY <1>0, <2>1, <2>3, ReceiveType
    <2> QED
      BY <1>0, <2>2, <2>4, <2>5, TypeParts
         DEF ErrorInv, errorVars, EstopInv, estopVars
  <1>13. CASE UNCHANGED vars
    BY <1>0, <1>13, TypeParts
       DEF vars, motorVars, errorVars, estopVars, MotorInv, MotorPrepared,
           ErrorInv, EstopInv
  <1>14. CASE \/ \E n \in Systems : PressEstop(n)
              \/ \E n \in Systems : ReleaseEstop(n)
              \/ \E e \in Inputs : PostOther(e)
    BY <1>1, <1>14, PostingStep DEF TypeInv
  <1>15. CASE Dispatch
    BY <1>2, <1>3, <1>4, <1>5, <1>6, <1>7, <1>8, <1>9, <1>10, <1>11, <1>12, <1>15
       DEF Dispatch
  <1> QED BY <1>13, <1>14, <1>15 DEF Next

\* Every component stays in its states, and the motor's history is never
\* restored unset, for every set of inputs and every bound of the queue.
LEMMA TypeInvariant == Spec => []TypeInv
  BY TypeInvInit, TypeInvNext, PTL DEF Spec

\* Every state variable keeps its type (MotorControler, ErrorFsm, EstopFsm,
\* SignalLight and the queue of the dispatcher).
THEOREM TypeCorrect == Spec => []TypeOK
  <1>1. TypeInv => TypeOK
    BY DEF TypeInv
  <1> QED BY <1>1, TypeInvariant, PTL

\* MOTOR_START_ERR and MOTOR_START only restore a state that was saved.
THEOREM HistoryAlwaysDefined == Spec => []HistoryDefined
  <1>1. TypeInv => HistoryDefined
    BY DEF TypeInv, TypeOK, MotorInv, HistoryDefined, MotorStates, RunningStates
  <1> QED BY <1>1, TypeInvariant, PTL

-----------------------------------------------------------------------------
\* The shapes of a dispatch: to the motor, to the timer, to the lamp, to
\* Error_fsm (perhaps among others), or to none of them.

OtherLamps == LampEvents \ {"TRAFFIC_LIGHT_UNACK_ERROR"}

\* Nothing in s starts the belt, sets the timers or puts out the red light.
Quiet(s) == Free(s, {"MOTOR_START_ERR"} \cup SpeedEvents \cup OtherLamps)

ToError(e, s) ==
    /\ e \notin MotorEvents \cup SpeedEvents \cup LightEvents
    /\ \E t \in Seq(Internal) : s = ErrorSent(e) \o t /\ Quiet(t)
    /\ ErrorHandle(e)
    /\ UNCHANGED <<motorVars, lamp, step>>

ToOthers(e, s) ==
    /\ e \notin MotorEvents \cup SpeedEvents \cup LightEvents
    /\ Quiet(s)
    /\ UNCHANGED <<motorVars, errorVars, lamp, step>>

Shape(e, s) ==
    \/ e \in MotorEvents /\ DispatchMotor(e) /\ s = MotorSent(e)
    \/ e \in SpeedEvents /\ DispatchSpeed(e) /\ s = <<>>
    \/ e \in LightEvents /\ DispatchLight(e) /\ s = <<>>
    \/ ToError(e, s)
    \/ ToOthers(e, s)

\* Which events the motor, the timer and the lamp do not listen to.
LEMMA OtherEvents ==
    LET Heard == MotorEvents \cup SpeedEvents \cup LightEvents IN
    /\ \A n \in Systems : /\ EstopEvent[n] \notin Heard
                          /\ ReleasedEvent[n] \notin Heard
                          /\ ResetEvent[n] \notin Heard
    /\ {"BUTTON_RESET", "BUTTON_START", "BUTTON_START_INCOMING"} \cap Heard = {}
    /\ \A e \in FaultEvents \cup NoticeEvents \cup {"ESTOP_OK"} : e \notin Heard
    /\ \A e \in OutwardEvents : e \notin Heard
    /\ \A e \in ExternalEvents : e \notin SpeedEvents \cup LightEvents
    /\ "MOTOR_START_ERR" \notin ExternalEvents
  <1>1. \A n \in Systems : /\ EstopEvent[n] \notin SpeedEvents \cup LightEvents
                           /\ ReleasedEvent[n] \notin SpeedEvents \cup LightEvents
                           /\ ResetEvent[n] \notin SpeedEvents \cup LightEvents
    BY SystemsAre DEF EstopEvent, ReleasedEvent, ResetEvent, SpeedEvents,
       LightEvents, LampEvents
  <1>2. \A e \in FaultEvents \cup NoticeEvents \cup OutwardEvents
              \cup {"ESTOP_OK", "BUTTON_RESET", "BUTTON_START", "BUTTON_START_INCOMING"} :
            e \notin SpeedEvents \cup LightEvents
    BY DEF FaultEvents, NoticeEvents, OutwardEvents, SpeedEvents, LightEvents, LampEvents
  <1>3. "MOTOR_START_ERR" \notin ExternalEvents
    BY InternalEvents DEF Internal, ErrMotorEvents
  <1>4. \A e \in ExternalEvents : e \notin SpeedEvents \cup LightEvents
    BY InternalEvents DEF Internal
  <1> QED BY <1>1, <1>2, <1>3, <1>4, NotMotorEvents

\* Every dispatch has one of the shapes.
LEMMA DispatchShape ==
    ASSUME TypeInv, Dispatch
    PROVE  \E e \in Event, s \in Seq(Internal) : Receive(e, s) /\ Shape(e, s)
  <1> SUFFICES \E e, s : s \in Seq(Internal) /\ Receive(e, s) /\ Shape(e, s)
    <2>1. queue \in Seq(Event)
      BY DEF TypeInv, TypeOK
    <2> QED BY <2>1, ReceiveType
  <1>0. ErrorInv /\ <<>> \in Seq(Internal) /\ Quiet(<<>>)
    BY ShortSequences DEF TypeInv, Quiet, Free
  <1>d. \A e \in {"MOTOR_STOP_ERR", "TRAFFIC_LIGHT_UNACK_ERROR", "ESTOP_OK"} :
            e \notin {"MOTOR_START_ERR"} \cup SpeedEvents \cup OtherLamps
    BY DEF SpeedEvents, OtherLamps, LampEvents
  <1>a. \A n \in Systems : FullStopSent(n) \in Seq(Internal) /\ Quiet(FullStopSent(n))
    <2> TAKE n \in Systems
    <2>1. CASE estop[n] = "Idle"
      <3>1. FullStopSent(n) = <<"MOTOR_STOP_ERR", "TRAFFIC_LIGHT_UNACK_ERROR">>
        BY <2>1 DEF FullStopSent
      <3> QED BY <3>1, <1>d, FullStopSentType, FreeShort DEF Quiet
    <2>2. CASE estop[n] # "Idle"
      <3>1. FullStopSent(n) = <<>>
        BY <2>2 DEF FullStopSent
      <3> QED BY <3>1, <1>0
    <2> QED BY <2>1, <2>2
  <1>b. IdleSent \in Seq(Internal) /\ Quiet(IdleSent)
    <2>1. \A i \in DOMAIN IdleSent : IdleSent[i] = "ESTOP_OK"
      BY IdleSentType
    <2> QED BY <2>1, <1>d, IdleSentType DEF Quiet, Free
  <1>c. ASSUME NEW e, NEW t \in Seq(Internal), Quiet(t)
        PROVE  ErrorSent(e) \o t \in Seq(Internal) /\ ErrorSent(e) \o <<>> = ErrorSent(e)
    BY <1>0, <1>c, ErrorAfterIn, ErrorSentType, Concatenation
  <1>1. ASSUME NEW n \in Systems, DispatchEstop(n)
        PROVE  \E e, s : s \in Seq(Internal) /\ Receive(e, s) /\ Shape(e, s)
    <2>1. ToError(EstopEvent[n], ErrorSent(EstopEvent[n]) \o FullStopSent(n))
      BY <1>1, <1>a, OtherEvents DEF ToError, DispatchEstop
    <2>2. Receive(EstopEvent[n], ErrorSent(EstopEvent[n]) \o FullStopSent(n))
      BY <1>1 DEF DispatchEstop
    <2> QED BY <2>1, <2>2, <1>a, <1>c DEF Shape
  <1>2. ASSUME NEW n \in Systems, DispatchReleased(n)
        PROVE  \E e, s : s \in Seq(Internal) /\ Receive(e, s) /\ Shape(e, s)
    BY <1>0, <1>2, OtherEvents DEF Shape, ToOthers, DispatchReleased
  <1>3. ASSUME DispatchOwnReset
        PROVE  \E e, s : s \in Seq(Internal) /\ Receive(e, s) /\ Shape(e, s)
    <2>1. ToError("BUTTON_RESET", ErrorSent("BUTTON_RESET"))
      BY <1>0, <1>3, <1>c, OtherEvents DEF ToError, DispatchOwnReset
    <2> QED BY <1>0, <1>3, <1>c, <2>1 DEF Shape, DispatchOwnReset
  <1>4. ASSUME NEW n \in Systems, DispatchOtherReset(n)
        PROVE  \E e, s : s \in Seq(Internal) /\ Receive(e, s) /\ Shape(e, s)
    BY <1>0, <1>4, OtherEvents DEF Shape, ToOthers, DispatchOtherReset
  <1>5. ASSUME DispatchOwnStart
        PROVE  \E e, s : s \in Seq(Internal) /\ Receive(e, s) /\ Shape(e, s)
    <2>1. ToError("BUTTON_START", ErrorSent("BUTTON_START") \o IdleSent)
      BY <1>5, <1>b, OtherEvents DEF ToError, DispatchOwnStart
    <2>2. Receive("BUTTON_START", ErrorSent("BUTTON_START") \o IdleSent)
      BY <1>5 DEF DispatchOwnStart
    <2> QED BY <2>1, <2>2, <1>b, <1>c DEF Shape
  <1>6. ASSUME DispatchIncomingStart
        PROVE  \E e, s : s \in Seq(Internal) /\ Receive(e, s) /\ Shape(e, s)
    BY <1>b, <1>6, OtherEvents DEF Shape, ToOthers, DispatchIncomingStart
  <1>7. ASSUME NEW e \in FaultEvents \cup NoticeEvents \cup {"ESTOP_OK"},
               DispatchReport(e)
        PROVE  \E d, s : s \in Seq(Internal) /\ Receive(d, s) /\ Shape(d, s)
    <2>1. ToError(e, ErrorSent(e))
      BY <1>0, <1>7, <1>c, OtherEvents DEF ToError, DispatchReport
    <2> QED BY <1>0, <1>7, <1>c, <2>1 DEF Shape, DispatchReport
  <1>8. ASSUME NEW e \in MotorEvents, DispatchMotor(e)
        PROVE  \E d, s : s \in Seq(Internal) /\ Receive(d, s) /\ Shape(d, s)
    <2>1. Receive(e, MotorSent(e))
      BY <1>8 DEF DispatchMotor
    <2> QED BY <1>8, <2>1, MotorSentType DEF Shape
  <1>9. ASSUME NEW e \in SpeedEvents, DispatchSpeed(e)
        PROVE  \E d, s : s \in Seq(Internal) /\ Receive(d, s) /\ Shape(d, s)
    <2>1. Receive(e, <<>>)
      BY <1>9 DEF DispatchSpeed
    <2> QED BY <1>0, <1>9, <2>1 DEF Shape
  <1>10. ASSUME NEW e \in LightEvents, DispatchLight(e)
         PROVE  \E d, s : s \in Seq(Internal) /\ Receive(d, s) /\ Shape(d, s)
    <2>1. Receive(e, <<>>)
      BY <1>10 DEF DispatchLight
    <2> QED BY <1>0, <1>10, <2>1 DEF Shape
  <1>11. ASSUME NEW e \in OutwardEvents, DispatchOutward(e)
         PROVE  \E d, s : s \in Seq(Internal) /\ Receive(d, s) /\ Shape(d, s)
    BY <1>0, <1>11, OtherEvents DEF Shape, ToOthers, DispatchOutward
  <1> QED
    BY <1>1, <1>2, <1>3, <1>4, <1>5, <1>6, <1>7, <1>8, <1>9, <1>10, <1>11 DEF Dispatch

-----------------------------------------------------------------------------
\* What Error_fsm sends when it comes to stand under an error.

\* After a handler of Error_fsm the error that stands is the state it has
\* entered, or an E-stop covers the one that stood before.
LEMMA StandingStep ==
    ASSUME ErrorInv, NEW e, ErrorHandle(e), Standing' \in Holding
    PROVE  \/ ErrorAfter(e) = Standing' /\ Standing' # "Error_Acknowledged"
           \/ /\ ErrorAfter(e) = "Error_Acknowledged" /\ Standing \in Holding
              /\ Standing' = "Error_Acknowledged"
           \/ ErrorAfter(e) = "Estop_Active" /\ Standing' = Standing
  BY DEF ErrorInv, ErrorHandle, ErrorEnter, ErrorAfter, Started, FaultState,
     FaultEvents, Standing, Holding, Unacknowledged, OkStates, ErrorStates, SavedStates

\* The transition itself sends something only on the way to OK.
LEMMA NothingBefore ==
    ASSUME ErrorInv, NEW e, ErrorAfter(e) \in Holding \cup {"Estop_Active"}
    PROVE  ErrorSent(e) = EntrySent(ErrorAfter(e))
  <1>1. ~ (e = "BUTTON_START" /\ error \in {"Error_Acknowledged", "Rdy_Taking"})
    BY EventNames DEF ErrorAfter, Started, Holding, Unacknowledged, FaultEvents
  <1>2. TransitionSent(e) = <<>>
    BY <1>1 DEF TransitionSent
  <1>3. ErrorAfter(e) \in Entered
    BY ErrorAfterIn
  <1>4. EntrySent(ErrorAfter(e)) \in Seq(Internal)
    BY <1>3, EntrySentType
  <1>5. <<>> \o EntrySent(ErrorAfter(e)) = EntrySent(ErrorAfter(e))
    BY <1>4
  <1> QED BY <1>2, <1>5 DEF ErrorSent

\* Coming to stand under an error stops the belt.
LEMMA HoldingSent ==
    ASSUME ErrorInv, NEW e,
           ErrorAfter(e) \in Holding, ErrorAfter(e) # "Error_Acknowledged"
    PROVE  EndsWith(ErrorSent(e), "MOTOR_STOP_ERR", {"MOTOR_START_ERR"})
  <1>1. ErrorSent(e) \in {<<"MOTOR_STOP_ERR", "TRAFFIC_LIGHT_UNACK_ERROR">>,
                          <<"TRAFFIC_LIGHT_NEW_PUK", "MOTOR_STOP_ERR">>,
                          <<"MOTOR_STOP_ERR", "TRAFFIC_LIGHT_RDY">>}
    BY NothingBefore, EntrySentIs DEF Holding
  <1>2. \A a, b : DOMAIN <<a, b>> = {1, 2} /\ <<a, b>>[1] = a /\ <<a, b>>[2] = b
    OBVIOUS
  <1>3. CASE ErrorSent(e) = <<"TRAFFIC_LIGHT_NEW_PUK", "MOTOR_STOP_ERR">>
    BY <1>2, <1>3 DEF EndsWith
  <1>4. CASE ErrorSent(e) = <<"MOTOR_STOP_ERR", "TRAFFIC_LIGHT_UNACK_ERROR">>
    BY <1>2, <1>4 DEF EndsWith
  <1>5. CASE ErrorSent(e) = <<"MOTOR_STOP_ERR", "TRAFFIC_LIGHT_RDY">>
    BY <1>2, <1>5 DEF EndsWith
  <1> QED BY <1>1, <1>3, <1>4, <1>5

\* Coming to stand under a new error lights the lamp.
LEMMA UnacknowledgedSent ==
    ASSUME ErrorInv, NEW e, ErrorAfter(e) \in Unacknowledged
    PROVE  EndsWith(ErrorSent(e), "TRAFFIC_LIGHT_UNACK_ERROR", OtherLamps)
  <1>1. ErrorSent(e) = <<"MOTOR_STOP_ERR", "TRAFFIC_LIGHT_UNACK_ERROR">>
    BY NothingBefore, EntrySentIs DEF Holding
  <1>2. \A a, b : DOMAIN <<a, b>> = {1, 2} /\ <<a, b>>[1] = a /\ <<a, b>>[2] = b
    OBVIOUS
  <1> QED BY <1>1, <1>2 DEF EndsWith

-----------------------------------------------------------------------------
\* The belt stands still under an error.  Inductive: MOTOR_STOP_ERR has the
\* last word on the motor.

HoldInv ==
    Standing \in Holding =>
        Commanded(queue, "MOTOR_STOP_ERR", {"MOTOR_START_ERR"}, motor = "Stop_Error")

\* A stopped motor only listens to the error handling.
LEMMA StoppedMotor ==
    ASSUME NEW e \in MotorEvents, MotorHandle(e)
    PROVE  /\ e = "MOTOR_STOP_ERR" => motor' = "Stop_Error"
           /\ motor = "Stop_Error" /\ e # "MOTOR_START_ERR" => motor' = "Stop_Error"
  BY DEF MotorHandle, MotorEnter, MotorAfter, RunningStates

\* No step gives MOTOR_START_ERR the last word under an error.
LEMMA HoldInvNext ==
    ASSUME TypeInv, HoldInv, [Next]_vars
    PROVE  HoldInv'
  <1> SUFFICES ASSUME Standing' \in Holding
               PROVE  Commanded(queue', "MOTOR_STOP_ERR", {"MOTOR_START_ERR"},
                                motor' = "Stop_Error")
    BY DEF HoldInv
  <1>0. queue \in Seq(Event) /\ ErrorInv
    BY DEF TypeInv, TypeOK
  <1>1. CASE UNCHANGED vars
    BY <1>1 DEF vars, motorVars, errorVars, HoldInv, Standing
  <1>2. CASE \/ \E n \in Systems : PressEstop(n)
             \/ \E n \in Systems : ReleaseEstop(n)
             \/ \E e \in Inputs : PostOther(e)
    <2>1. Posting
      BY <1>2, PostingStep DEF TypeInv
    <2>2. PICK e \in ExternalEvents : queue' = Append(queue, e)
      BY <2>1 DEF Posting
    <2>3. Standing \in Holding /\ motor' = motor
      BY <2>1 DEF Posting, motorVars, errorVars, Standing
    <2>4. e \in Event /\ e \notin {"MOTOR_START_ERR"}
      BY InternalEvents, OtherEvents
    <2> QED BY <1>0, <2>2, <2>3, <2>4, CommandedAppend DEF HoldInv
  <1>3. CASE Dispatch
    <2>1. PICK e \in Event, s \in Seq(Internal) : Receive(e, s) /\ Shape(e, s)
      BY <1>3, DispatchShape
    <2>2. /\ queue # <<>> /\ e = Head(queue) /\ s \in Seq(Event)
          /\ queue' = Tail(queue) \o s
      BY <1>0, <2>1, ReceiveType
    <2>3. ASSUME Standing \in Holding, Free(s, {"MOTOR_START_ERR"}),
                 \/ e \in MotorEvents /\ MotorHandle(e)
                 \/ e \notin MotorEvents /\ motor' = motor
          PROVE  Commanded(queue', "MOTOR_STOP_ERR", {"MOTOR_START_ERR"},
                           motor' = "Stop_Error")
      <3>1. /\ e = "MOTOR_STOP_ERR" => motor' = "Stop_Error"
            /\ motor = "Stop_Error" /\ e \notin {"MOTOR_START_ERR"} => motor' = "Stop_Error"
        BY <2>3, StoppedMotor DEF MotorEvents, ErrMotorEvents
      <3> QED BY <1>0, <2>2, <2>3, <3>1, CommandedNext DEF HoldInv
    <2>4. CASE e \in MotorEvents /\ DispatchMotor(e) /\ s = MotorSent(e)
      <3>1. MotorHandle(e) /\ Standing' = Standing
        BY <2>4 DEF DispatchMotor, errorVars, Standing
      <3>2. Free(s, {"MOTOR_START_ERR"})
        BY <2>4, FreeShort DEF MotorSent, MotorSpeed
      <3> QED BY <2>3, <2>4, <3>1, <3>2
    <2>5. CASE \/ e \in SpeedEvents /\ DispatchSpeed(e) /\ s = <<>>
               \/ e \in LightEvents /\ DispatchLight(e) /\ s = <<>>
      <3>1. motor' = motor /\ Standing' = Standing
        BY <2>5 DEF DispatchSpeed, DispatchLight, motorVars, errorVars, Standing
      <3> QED BY <2>3, <2>5, <3>1, FreeShort, NotMotorEvents
    <2>6. CASE ToOthers(e, s)
      <3>1. e \notin MotorEvents /\ motor' = motor /\ Standing' = Standing
        BY <2>6 DEF ToOthers, motorVars, errorVars, Standing
      <3>2. Free(s, {"MOTOR_START_ERR"})
        BY <2>6, FreeMonotone DEF ToOthers, Quiet
      <3> QED BY <2>3, <3>1, <3>2
    <2>7. CASE ToError(e, s)
      <3>1. PICK t \in Seq(Internal) : s = ErrorSent(e) \o t /\ Quiet(t)
        BY <2>7 DEF ToError
      <3>2. Free(t, {"MOTOR_START_ERR"})
        BY <3>1, FreeMonotone DEF Quiet
      <3>3. ErrorSent(e) \in Seq(Internal)
        BY <1>0, ErrorAfterIn, ErrorSentType
      <3>4. ErrorHandle(e) /\ motor' = motor /\ e \notin MotorEvents
        BY <2>7 DEF ToError, motorVars
      <3>5. CASE ErrorAfter(e) = Standing' /\ Standing' # "Error_Acknowledged"
        <4>1. EndsWith(ErrorSent(e), "MOTOR_STOP_ERR", {"MOTOR_START_ERR"})
          BY <1>0, <3>5, HoldingSent
        <4>2. EndsWith(s, "MOTOR_STOP_ERR", {"MOTOR_START_ERR"})
          BY <3>1, <3>2, <3>3, <4>1, EndsWithConcatenation
        <4> QED BY <1>0, <2>2, <4>2, CommandedSent
      <3>6. CASE ErrorAfter(e) \in {"Error_Acknowledged", "Estop_Active"}
                 /\ Standing \in Holding
        <4>1. Free(ErrorSent(e), {"MOTOR_START_ERR"})
          BY <1>0, <3>6, NothingBefore, EntrySentIs, FreeShort DEF Holding
        <4>2. Free(s, {"MOTOR_START_ERR"})
          BY <3>1, <3>2, <3>3, <4>1, FreeConcatenation
        <4> QED BY <2>3, <3>4, <3>6, <4>2
      <3> QED BY <1>0, <3>4, <3>5, <3>6, StandingStep
    <2> QED BY <2>1, <2>4, <2>5, <2>6, <2>7 DEF Shape
  <1> QED BY <1>1, <1>2, <1>3 DEF Next

\* Once the commands of the error handling are delivered, a belt that stands
\* under an error stands still.
THEOREM ErrorAlwaysStopsBelt == Spec => []ErrorStopsBelt
  <1>1. Init => HoldInv
    BY DEF Init, ErrorInit, HoldInv, Standing, Holding, Unacknowledged
  <1>2. TypeInv /\ HoldInv /\ [Next]_vars => HoldInv'
    BY HoldInvNext
  <1>3. HoldInv => ErrorStopsBelt
    BY DEF HoldInv, ErrorStopsBelt, Commanded, EndsWith, Pending, ErrMotorEvents
  <1>4. Spec => []HoldInv
    BY <1>1, <1>2, TypeInvariant, PTL DEF Spec
  <1> QED BY <1>3, <1>4, PTL

-----------------------------------------------------------------------------
\* Tick_timer counts at the speed of the belt.  Inductive: the SPEED_* pulse
\* of the motor's state has the last word on the step.

TimerInv ==
    Commanded(queue, MotorSpeed(motor), SpeedEvents \ {MotorSpeed(motor)},
              step = TimerStep(MotorSpeed(motor)))

\* The reported speed depends on the motor's state only.
LEMMA MotorSpeedKept ==
    ASSUME motor' = motor
    PROVE  MotorSpeed(motor)' = MotorSpeed(motor)
  BY DEF MotorSpeed

\* The speed reported for the state the motor comes to.
LEMMA MotorSpeedIs ==
    ASSUME NEW t, motor' = t
    PROVE  MotorSpeed(motor)' = MotorSpeed(t)
  BY DEF MotorSpeed

\* Error_fsm never sends to the tick timer.
LEMMA ErrorSentNoSpeed ==
    ASSUME ErrorInv, NEW e
    PROVE  Free(ErrorSent(e), SpeedEvents)
  <1>1. ErrorAfter(e) \in Entered
    BY ErrorAfterIn
  <1>2. /\ TransitionSent(e) \in Seq(Internal \ SpeedEvents)
        /\ EntrySent(ErrorAfter(e)) \in Seq(Internal \ SpeedEvents)
    BY <1>1, EntrySentUnheard, TransitionSentUnheard
  <1>3. ErrorSent(e) \in Seq(Internal \ SpeedEvents)
    BY <1>2, Concatenation DEF ErrorSent
  <1> QED BY <1>3 DEF Free

\* No step takes the last word from the motor's speed.
LEMMA TimerInvNext ==
    ASSUME TypeInv, TimerInv, [Next]_vars
    PROVE  TimerInv'
  <1> DEFINE a == MotorSpeed(motor)
             B == SpeedEvents \ {a}
             done == step = TimerStep(a)
  <1>0. /\ queue \in Seq(Event) /\ Commanded(queue, a, B, done)
        /\ a \in SpeedEvents
    BY DEF TypeInv, TypeOK, TimerInv, MotorSpeed, SpeedEvents
  <1>a. ASSUME a' = a, Commanded(queue', a, B, step' = TimerStep(a))
        PROVE  TimerInv'
    BY <1>a DEF TimerInv
  <1>1. CASE UNCHANGED vars
    <2>1. a' = a /\ step' = step /\ queue' = queue
      BY <1>1, MotorSpeedKept DEF vars, motorVars
    <2> QED BY <1>0, <1>a, <2>1
  <1>2. CASE \/ \E n \in Systems : PressEstop(n)
             \/ \E n \in Systems : ReleaseEstop(n)
             \/ \E e \in Inputs : PostOther(e)
    <2>1. Posting
      BY <1>2, PostingStep DEF TypeInv
    <2>2. PICK e \in ExternalEvents : queue' = Append(queue, e)
      BY <2>1 DEF Posting
    <2>3. a' = a /\ step' = step
      BY <2>1, MotorSpeedKept DEF Posting, motorVars
    <2>4. e \in Event /\ e \notin B
      BY InternalEvents, OtherEvents
    <2> HIDE DEF a, B
    <2> QED BY <1>0, <1>a, <2>2, <2>3, <2>4, CommandedAppend
  <1>3. CASE Dispatch
    <2>1. PICK e \in Event, s \in Seq(Internal) : Receive(e, s) /\ Shape(e, s)
      BY <1>3, DispatchShape
    <2>2. /\ queue # <<>> /\ e = Head(queue) /\ s \in Seq(Event)
          /\ queue' = Tail(queue) \o s
      BY <1>0, <2>1, ReceiveType
    <2>3. ASSUME motor' = motor, Free(s, SpeedEvents),
                 \/ e \notin SpeedEvents /\ step' = step
                 \/ e \in SpeedEvents /\ step' = TimerStep(e)
          PROVE  TimerInv'
      <3>1. Free(s, B)
        BY <2>3, FreeMonotone
      <3>2. a' = a
        BY <2>3, MotorSpeedKept
      <3>3. e = a => step' = TimerStep(a)
        BY <1>0, <2>3
      <3>4. done /\ e \notin B => step' = TimerStep(a)
        BY <2>3
      <3> HIDE DEF a, B, done
      <3>5. Commanded(queue', a, B, step' = TimerStep(a))
        BY <1>0, <2>2, <3>1, <3>3, <3>4, CommandedNext
      <3> QED BY <1>a, <3>2, <3>5
    <2>4. CASE e \in MotorEvents /\ DispatchMotor(e) /\ s = MotorSent(e)
      <3>1. motor' = MotorAfter(e)
        BY <2>4 DEF DispatchMotor, MotorHandle, MotorEnter
      <3>2. a' = MotorSpeed(MotorAfter(e))
        BY <3>1, MotorSpeedIs
      <3>3. s = <<a'>>
        BY <2>4, <3>2 DEF MotorSent
      <3>4. EndsWith(s, a', SpeedEvents \ {a'})
        BY <3>3 DEF EndsWith
      <3>5. Commanded(queue', a', SpeedEvents \ {a'}, step' = TimerStep(a'))
        <4> HIDE DEF a
        <4> QED BY <1>0, <2>2, <3>4, CommandedSent
      <3> QED BY <3>5 DEF TimerInv
    <2>5. CASE e \in SpeedEvents /\ DispatchSpeed(e) /\ s = <<>>
      BY <2>3, <2>5, FreeShort DEF DispatchSpeed, motorVars
    <2>6. CASE e \in LightEvents /\ DispatchLight(e) /\ s = <<>>
      <3>1. e \notin SpeedEvents
        BY <2>6 DEF LightEvents, LampEvents, SpeedEvents
      <3>2. motor' = motor /\ step' = step /\ Free(s, SpeedEvents)
        BY <2>6, FreeShort DEF DispatchLight, motorVars
      <3> QED BY <2>3, <3>1, <3>2
    <2>7. CASE ToOthers(e, s)
      <3>1. Free(s, SpeedEvents)
        BY <2>7, FreeMonotone DEF ToOthers, Quiet
      <3>2. motor' = motor /\ step' = step /\ e \notin SpeedEvents
        BY <2>7 DEF ToOthers, motorVars
      <3> QED BY <2>3, <3>1, <3>2
    <2>8. CASE ToError(e, s)
      <3>1. PICK t \in Seq(Internal) : s = ErrorSent(e) \o t /\ Quiet(t)
        BY <2>8 DEF ToError
      <3>2. Free(t, SpeedEvents)
        BY <3>1, FreeMonotone DEF Quiet
      <3>3. ErrorSent(e) \in Seq(Internal) /\ Free(ErrorSent(e), SpeedEvents)
        BY ErrorAfterIn, ErrorSentType, ErrorSentNoSpeed DEF TypeInv
      <3>4. Free(s, SpeedEvents)
        BY <3>1, <3>2, <3>3, FreeConcatenation
      <3>5. motor' = motor /\ step' = step /\ e \notin SpeedEvents
        BY <2>8 DEF ToError, motorVars
      <3> QED BY <2>3, <3>4, <3>5
    <2> QED BY <2>1, <2>4, <2>5, <2>6, <2>7, <2>8 DEF Shape
  <1> QED BY <1>1, <1>2, <1>3 DEF Next

\* Once the SPEED_* pulses are delivered, the timers run at the belt's speed.
THEOREM TimerAlwaysFollowsMotor == Spec => []TimerFollowsMotor
  <1>1. ASSUME Init
        PROVE  TimerInv
    <2>1. MotorSpeed(motor) = "SPEED_STOP" /\ step = TimerStep("SPEED_STOP")
      BY <1>1 DEF Init, MotorInit, MotorSpeed, TimerStep
    <2>2. StartupSent = <<"TRAFFIC_LIGHT_NORMAL", "ERR_OK", "MOTOR_START_ERR">>
      BY EntrySentIs DEF StartupSent
    <2>3. Free(StartupSent, SpeedEvents) /\ Free(Tail(StartupSent), SpeedEvents)
      <3>1. Tail(StartupSent) = <<"ERR_OK", "MOTOR_START_ERR">>
        BY <2>2
      <3>2. \A a, b, c : DOMAIN <<a, b, c>> = {1, 2, 3} /\ <<a, b, c>>[1] = a
                /\ <<a, b, c>>[2] = b /\ <<a, b, c>>[3] = c
        OBVIOUS
      <3> QED BY <2>2, <3>1, <3>2, FreeShort DEF Free, SpeedEvents
    <2>4. Free(queue, SpeedEvents \ {MotorSpeed(motor)})
      BY <1>1, <2>3, FreeMonotone DEF Init
    <2> QED BY <2>1, <2>4 DEF TimerInv, Commanded
  <1>2. TypeInv /\ TimerInv /\ [Next]_vars => TimerInv'
    BY TimerInvNext
  <1>3. TimerInv => TimerFollowsMotor
    <2>1. MotorSpeed(motor) \in SpeedEvents
      BY DEF MotorSpeed, SpeedEvents
    <2>2. ~ Pending(SpeedEvents) /\ TimerInv => step = TimerStep(MotorSpeed(motor))
      BY <2>1 DEF TimerInv, Commanded, EndsWith, Pending
    <2> QED BY <2>2 DEF TimerFollowsMotor, MotorSpeed, TimerStep
  <1>4. Spec => []TimerInv
    BY <1>1, <1>2, TypeInvariant, PTL DEF Spec
  <1> QED BY <1>3, <1>4, PTL

-----------------------------------------------------------------------------
\* An unacknowledged error blinks red.  Inductive: TRAFFIC_LIGHT_UNACK_ERROR
\* has the last word on the lamp.

LampInv ==
    Standing \in Unacknowledged =>
        Commanded(queue, "TRAFFIC_LIGHT_UNACK_ERROR", OtherLamps,
                  lamp.blink["red"] = "slow")

\* TRAFFIC_LIGHT_NEW_PUK adds a light and leaves the others.
LEMMA RedLamp ==
    ASSUME lamp \in LampType, NEW e \in LightEvents, LampHandle(e)
    PROVE  /\ e = "TRAFFIC_LIGHT_UNACK_ERROR" => lamp'.blink["red"] = "slow"
           /\ lamp.blink["red"] = "slow" /\ e \notin OtherLamps
                => lamp'.blink["red"] = "slow"
  <1>1. CASE e = "TRAFFIC_LIGHT_UNACK_ERROR"
    <2>1. lamp' = Blinking({"red"}, "red", "slow")
      BY <1>1 DEF LampHandle, LampAfter
    <2> QED BY <2>1 DEF Blinking, Colours
  <1>2. CASE e = "TRAFFIC_LIGHT_NEW_PUK"
    <2>1. lamp' = [lamp EXCEPT !.blink["yellow"] = "slow"]
      BY <1>2 DEF LampHandle, LampAfter
    <2>2. lamp'.blink = [lamp.blink EXCEPT !["yellow"] = "slow"]
      BY <2>1 DEF LampType
    <2>3. lamp.blink \in [Colours -> Rates] /\ "red" \in Colours
      BY DEF LampType, Colours
    <2>4. lamp'.blink["red"] = lamp.blink["red"]
      BY <2>2, <2>3
    <2> QED BY <1>2, <2>4
  <1> QED BY <1>1, <1>2 DEF LightEvents, LampEvents, OtherLamps

\* No step takes the last word from the red light.
LEMMA LampInvNext ==
    ASSUME TypeInv, LampInv, [Next]_vars
    PROVE  LampInv'
  <1> SUFFICES ASSUME Standing' \in Unacknowledged
               PROVE  Commanded(queue', "TRAFFIC_LIGHT_UNACK_ERROR", OtherLamps,
                                lamp'.blink["red"] = "slow")
    BY DEF LampInv
  <1>0. queue \in Seq(Event) /\ ErrorInv /\ lamp \in LampType
    BY DEF TypeInv, TypeOK, LampType
  <1>1. CASE UNCHANGED vars
    BY <1>1 DEF vars, errorVars, LampInv, Standing
  <1>2. CASE \/ \E n \in Systems : PressEstop(n)
             \/ \E n \in Systems : ReleaseEstop(n)
             \/ \E e \in Inputs : PostOther(e)
    <2>1. Posting
      BY <1>2, PostingStep DEF TypeInv
    <2>2. PICK e \in ExternalEvents : queue' = Append(queue, e)
      BY <2>1 DEF Posting
    <2>3. Standing \in Unacknowledged /\ lamp' = lamp
      BY <2>1 DEF Posting, errorVars, Standing
    <2>4. e \in Event /\ e \notin OtherLamps
      BY InternalEvents, OtherEvents DEF OtherLamps, LightEvents
    <2> QED BY <1>0, <2>2, <2>3, <2>4, CommandedAppend DEF LampInv
  <1>3. CASE Dispatch
    <2>1. PICK e \in Event, s \in Seq(Internal) : Receive(e, s) /\ Shape(e, s)
      BY <1>3, DispatchShape
    <2>2. /\ queue # <<>> /\ e = Head(queue) /\ s \in Seq(Event)
          /\ queue' = Tail(queue) \o s
      BY <1>0, <2>1, ReceiveType
    <2>3. ASSUME Standing \in Unacknowledged, Free(s, OtherLamps),
                 \/ e \in LightEvents /\ LampHandle(e)
                 \/ e \notin LightEvents /\ lamp' = lamp
          PROVE  Commanded(queue', "TRAFFIC_LIGHT_UNACK_ERROR", OtherLamps,
                           lamp'.blink["red"] = "slow")
      <3>1. /\ e = "TRAFFIC_LIGHT_UNACK_ERROR" => lamp'.blink["red"] = "slow"
            /\ lamp.blink["red"] = "slow" /\ e \notin OtherLamps
                 => lamp'.blink["red"] = "slow"
        BY <1>0, <2>3, RedLamp DEF LightEvents, LampEvents
      <3> QED BY <1>0, <2>2, <2>3, <3>1, CommandedNext DEF LampInv
    <2>4. CASE e \in LightEvents /\ DispatchLight(e) /\ s = <<>>
      <3>1. LampHandle(e) /\ Standing' = Standing
        BY <2>4 DEF DispatchLight, errorVars, Standing
      <3> QED BY <2>3, <2>4, <3>1, FreeShort
    <2>5. CASE e \in MotorEvents /\ DispatchMotor(e) /\ s = MotorSent(e)
      <3>1. lamp' = lamp /\ Standing' = Standing
        BY <2>5 DEF DispatchMotor, errorVars, Standing
      <3>2. e \notin LightEvents
        BY <2>5, NotMotorEvents
      <3>3. Free(s, OtherLamps)
        BY <2>5, FreeShort DEF MotorSent, MotorSpeed, OtherLamps, LampEvents
      <3> QED BY <2>3, <3>1, <3>2, <3>3
    <2>6. CASE e \in SpeedEvents /\ DispatchSpeed(e) /\ s = <<>>
      <3>1. lamp' = lamp /\ Standing' = Standing
        BY <2>6 DEF DispatchSpeed, errorVars, Standing
      <3>2. e \notin LightEvents
        BY <2>6 DEF SpeedEvents, LightEvents, LampEvents
      <3> QED BY <2>3, <2>6, <3>1, <3>2, FreeShort
    <2>7. CASE ToOthers(e, s)
      <3>1. e \notin LightEvents /\ lamp' = lamp /\ Standing' = Standing
        BY <2>7 DEF ToOthers, errorVars, Standing
      <3>2. Free(s, OtherLamps)
        BY <2>7, FreeMonotone DEF ToOthers, Quiet
      <3> QED BY <2>3, <3>1, <3>2
    <2>8. CASE ToError(e, s)
      <3>1. PICK t \in Seq(Internal) : s = ErrorSent(e) \o t /\ Quiet(t)
        BY <2>8 DEF ToError
      <3>2. Free(t, OtherLamps)
        BY <3>1, FreeMonotone DEF Quiet
      <3>3. ErrorSent(e) \in Seq(Internal)
        BY <1>0, ErrorAfterIn, ErrorSentType
      <3>4. ErrorHandle(e) /\ lamp' = lamp /\ e \notin LightEvents
        BY <2>8 DEF ToError
      <3>5. CASE ErrorAfter(e) = Standing'
        <4>1. EndsWith(ErrorSent(e), "TRAFFIC_LIGHT_UNACK_ERROR", OtherLamps)
          BY <1>0, <3>5, UnacknowledgedSent
        <4>2. EndsWith(s, "TRAFFIC_LIGHT_UNACK_ERROR", OtherLamps)
          BY <3>1, <3>2, <3>3, <4>1, EndsWithConcatenation
        <4> QED BY <1>0, <2>2, <4>2, CommandedSent
      <3>6. CASE ErrorAfter(e) = "Estop_Active" /\ Standing' = Standing
        <4>1. ErrorSent(e) = <<>>
          BY <1>0, <3>6, NothingBefore, EntrySentIs
        <4>2. Free(s, OtherLamps)
          BY <3>1, <3>2, <3>3, <4>1, FreeShort, FreeConcatenation
        <4> QED BY <2>3, <3>4, <3>6, <4>2
      <3>7. Standing' \in Holding /\ Standing' # "Error_Acknowledged"
        BY DEF Holding, Unacknowledged
      <3> QED BY <1>0, <3>4, <3>5, <3>6, <3>7, StandingStep
    <2> QED BY <2>1, <2>4, <2>5, <2>6, <2>7, <2>8 DEF Shape
  <1> QED BY <1>1, <1>2, <1>3 DEF Next

\* Once the signals are delivered, an error nobody acknowledged blinks red.
THEOREM LampAlwaysShowsError == Spec => []LampShowsError
  <1>1. Init => LampInv
    BY DEF Init, ErrorInit, LampInv, Standing, Unacknowledged
  <1>2. TypeInv /\ LampInv /\ [Next]_vars => LampInv'
    BY LampInvNext
  <1>3. LampInv => LampShowsError
    BY DEF LampInv, LampShowsError, Commanded, EndsWith, Pending, LampEvents
  <1>4. Spec => []LampInv
    BY <1>1, <1>2, TypeInvariant, PTL DEF Spec
  <1> QED BY <1>3, <1>4, PTL

-----------------------------------------------------------------------------
\* Errors are not forgotten.

\* What a handler of Error_fsm does to the error that stands.
LEMMA NotForgottenStep ==
    ASSUME ErrorInv, NEW e, ErrorHandle(e)
    PROVE  /\ Standing \in Unacknowledged /\ Standing' # Standing =>
                e = "BUTTON_RESET" /\ Standing' = "Error_Acknowledged"
           /\ Standing = "Error_Acknowledged" /\ Standing' # Standing =>
                e = "BUTTON_START" /\ Standing' = "OK"
           /\ error = "Early_Entry" /\ error' = "OK" => e = "ERR_PUK_TOO_EARLY_OK"
  BY DEF ErrorInv, ErrorHandle, ErrorEnter, ErrorAfter, Started, FaultState,
     FaultEvents, Standing, Unacknowledged, OkStates, ErrorStates, SavedStates

\* An error is acknowledged only by RESET and left only by START at the belt.
THEOREM ErrorsAreNotForgotten == Spec => ErrorNotForgotten
  <1> DEFINE Kept ==
        /\ Standing \in Unacknowledged /\ Standing' # Standing =>
             Head(queue) = "BUTTON_RESET" /\ Standing' = "Error_Acknowledged"
        /\ Standing = "Error_Acknowledged" /\ Standing' # Standing =>
             Head(queue) = "BUTTON_START" /\ Standing' = "OK"
        /\ error = "Early_Entry" /\ error' = "OK" =>
             Head(queue) = "ERR_PUK_TOO_EARLY_OK"
  <1>1. TypeInv /\ [Next]_vars => [Kept]_vars
    <2> SUFFICES ASSUME TypeInv, [Next]_vars
                 PROVE  Kept \/ UNCHANGED vars
      OBVIOUS
    <2>0. ErrorInv /\ queue \in Seq(Event)
      BY DEF TypeInv, TypeOK
    <2>1. CASE \/ \E n \in Systems : PressEstop(n)
               \/ \E n \in Systems : ReleaseEstop(n)
               \/ \E e \in Inputs : PostOther(e)
      <3>1. Standing' = Standing /\ error' = error
        BY <2>1, PostingStep DEF TypeInv, Posting, errorVars, Standing
      <3> QED BY <3>1
    <2>2. CASE Dispatch
      <3>1. PICK e \in Event, s \in Seq(Internal) : Receive(e, s) /\ Shape(e, s)
        BY <2>2, DispatchShape
      <3>2. e = Head(queue)
        BY <2>0, <3>1, ReceiveType
      <3>3. CASE ToError(e, s)
        BY <2>0, <3>2, <3>3, NotForgottenStep DEF ToError
      <3>4. CASE ~ ToError(e, s)
        <4>1. Standing' = Standing /\ error' = error
          BY <3>1, <3>4 DEF Shape, DispatchMotor, DispatchSpeed, DispatchLight,
             ToOthers, errorVars, Standing
        <4> QED BY <4>1
      <3> QED BY <3>3, <3>4
    <2> QED BY <2>1, <2>2 DEF Next
  <1> QED BY <1>1, TypeInvariant, PTL DEF Spec, ErrorNotForgotten

-----------------------------------------------------------------------------
\* Error_fsm is never left in Estop_Active.

\* A button's FSM never falls back to Idle but by START.
LEMMA MoveKeepsBusy ==
    ASSUME EstopInv, NEW n \in Systems, NEW s, NEW t, t # "Idle",
           EstopMove(n, s, t), NEW m \in Systems, estop[m] # "Idle"
    PROVE  estop'[m] # "Idle"
  BY DEF EstopInv, EstopMove, estopVars

\* No step leaves Error_fsm alone in Estop_Active.
LEMMA BackedNext ==
    ASSUME TypeInv, EstopActiveBacked, [Next]_vars
    PROVE  EstopActiveBacked'
  <1> DEFINE Busy == \E n \in Systems : estop[n] # "Idle"
             E == {"ESTOP_OK"}
  <1> SUFFICES ASSUME error' = "Estop_Active"
               PROVE  Pending(E)' \/ Busy'
    BY DEF EstopActiveBacked
  <1>0. queue \in Seq(Event) /\ ErrorInv /\ EstopInv
    BY DEF TypeInv, TypeOK, EstopInv
  <1>a. error = "Estop_Active" => Pending(E) \/ Busy
    BY DEF EstopActiveBacked
  <1>b. ASSUME error = "Estop_Active", NEW e, NEW s \in Seq(Internal), Receive(e, s),
               e # "ESTOP_OK", Busy => Busy' \/ \E i \in DOMAIN s : s[i] \in E
        PROVE  Pending(E)' \/ Busy'
    <2>1. /\ queue # <<>> /\ e = Head(queue) /\ s \in Seq(Event)
          /\ queue' = Tail(queue) \o s
      BY <1>0, <1>b, ReceiveType
    <2>2. Pending(E) \/ (\E i \in DOMAIN s : s[i] \in E) => Pending(E)'
      BY <1>0, <1>b, <2>1, PendingNext DEF Pending
    <2> QED BY <1>a, <1>b, <2>2
  <1>c. ASSUME UNCHANGED estopVars
        PROVE  Busy' <=> Busy
    BY <1>c DEF estopVars
  <1>d. <<>> \in Seq(Internal)
    BY ShortSequences
  <1>e. ASSUME idle, Busy
        PROVE  Busy' \/ \E i \in DOMAIN IdleSent : IdleSent[i] \in E
    <2>1. PICK n \in Systems : estop[n] # "Idle"
      BY <1>e
    <2>2. CASE estop[n] = "Reset" /\ TransitionOk
      <3>1. IdleSentBy(n) = <<"ESTOP_OK">>
        BY <2>2 DEF IdleSentBy
      <3>2. Len(IdleSentBy(n)) = 1
        BY <3>1
      <3>3. Len(IdleSent) = Len(IdleSentBy(1)) + Len(IdleSentBy(2)) + Len(IdleSentBy(3))
        <4>1. /\ IdleSentBy(1) \in Seq({"ESTOP_OK"}) /\ IdleSentBy(2) \in Seq({"ESTOP_OK"})
              /\ IdleSentBy(3) \in Seq({"ESTOP_OK"})
          BY IdleSentType, SystemsAre
        <4> QED BY <4>1 DEF IdleSent
      <3>4. /\ Len(IdleSentBy(1)) \in Nat /\ Len(IdleSentBy(2)) \in Nat
            /\ Len(IdleSentBy(3)) \in Nat
        BY IdleSentType, SystemsAre
      <3>5. \/ Len(IdleSentBy(1)) = 1 \/ Len(IdleSentBy(2)) = 1
            \/ Len(IdleSentBy(3)) = 1
        <4>1. n = 1 \/ n = 2 \/ n = 3
          BY SystemsAre
        <4> QED BY <3>2, <4>1
      <3>6. Len(IdleSent) >= 1
        BY <3>3, <3>4, <3>5
      <3>7. 1 \in DOMAIN IdleSent /\ IdleSent[1] \in E
        BY <3>6, IdleSentType
      <3> QED BY <3>7
    <2>3. CASE ~ (estop[n] = "Reset" /\ TransitionOk)
      <3>1. estop'[n] = estop[n]
        BY <1>e, <2>3 DEF idle
      <3> QED BY <2>1, <3>1
    <2> QED BY <2>2, <2>3
  <1>1. CASE UNCHANGED vars
    BY <1>1, <1>a DEF vars, errorVars, estopVars, Pending
  <1>2. CASE \/ \E n \in Systems : PressEstop(n)
             \/ \E n \in Systems : ReleaseEstop(n)
             \/ \E e \in Inputs : PostOther(e)
    <2>1. Posting
      BY <1>2, PostingStep DEF TypeInv
    <2>2. PICK e \in ExternalEvents : queue' = Append(queue, e)
      BY <2>1 DEF Posting
    <2>3. Pending(E) => Pending(E)'
      BY <1>0, <2>2 DEF Pending
    <2>4. error' = error /\ (Busy' <=> Busy)
      BY <2>1, <1>c DEF Posting, errorVars
    <2> QED BY <1>a, <2>3, <2>4
  <1>3. ASSUME NEW n \in Systems, DispatchEstop(n)
        PROVE  Busy'
    <2>1. estop'[n] # "Idle"
      BY <1>0, <1>3 DEF DispatchEstop, full_stop, EstopMove, EstopInv, estopVars
    <2> QED BY <2>1
  <1>4. ASSUME NEW n \in Systems, DispatchReleased(n)
        PROVE  Pending(E)' \/ Busy'
    <2>1. Busy => Busy'
      BY <1>0, <1>4, MoveKeepsBusy DEF DispatchReleased, estop_released
    <2>2. error' = error /\ Receive(ReleasedEvent[n], <<>>) /\ ReleasedEvent[n] # "ESTOP_OK"
      BY <1>4, SystemsAre DEF DispatchReleased, errorVars, ReleasedEvent
    <2> QED BY <1>b, <1>d, <2>1, <2>2
  <1>5. ASSUME NEW n \in Systems, DispatchOtherReset(n)
        PROVE  Pending(E)' \/ Busy'
    <2>1. Busy => Busy'
      BY <1>0, <1>5, MoveKeepsBusy DEF DispatchOtherReset, reset
    <2>2. error' = error /\ Receive(ResetEvent[n], <<>>) /\ ResetEvent[n] # "ESTOP_OK"
      BY <1>5, SystemsAre DEF DispatchOtherReset, errorVars, ResetEvent
    <2> QED BY <1>b, <1>d, <2>1, <2>2
  <1>f. ASSUME NEW e, e \notin EstopEvents, ErrorHandle(e)
        PROVE  error = "Estop_Active" /\ e # "ESTOP_OK"
    BY <1>0, <1>f DEF ErrorInv, ErrorHandle, ErrorEnter, ErrorAfter, Started,
       FaultState, FaultEvents, OkStates, SavedStates, Unacknowledged
  <1>6. ASSUME DispatchOwnReset
        PROVE  Pending(E)' \/ Busy'
    <2>1. Busy => Busy'
      BY <1>0, <1>6, SystemsAre, MoveKeepsBusy DEF DispatchOwnReset, reset
    <2>2. error = "Estop_Active"
      BY <1>f, <1>6, EventNames DEF DispatchOwnReset
    <2>3. Receive("BUTTON_RESET", ErrorSent("BUTTON_RESET"))
      BY <1>6 DEF DispatchOwnReset
    <2>4. ErrorSent("BUTTON_RESET") \in Seq(Internal)
      BY <1>0, ErrorAfterIn, ErrorSentType
    <2> QED BY <1>b, <2>1, <2>2, <2>3, <2>4
  <1>7. ASSUME DispatchOwnStart
        PROVE  Pending(E)' \/ Busy'
    <2> DEFINE s == ErrorSent("BUTTON_START") \o IdleSent
    <2>1. idle /\ Receive("BUTTON_START", s)
      BY <1>7 DEF DispatchOwnStart
    <2>2. error = "Estop_Active"
      BY <1>f, <1>7, EventNames DEF DispatchOwnStart
    <2>3. ErrorSent("BUTTON_START") \in Seq(Internal) /\ s \in Seq(Internal)
      BY <1>0, ErrorAfterIn, ErrorSentType, IdleSentType, Concatenation
    <2>4. (\E i \in DOMAIN IdleSent : IdleSent[i] \in E)
            => \E i \in DOMAIN s : s[i] \in E
      <3>1. ASSUME NEW i \in DOMAIN IdleSent, IdleSent[i] \in E
            PROVE  \E j \in DOMAIN s : s[j] \in E
        <4>1. Len(ErrorSent("BUTTON_START")) + i \in DOMAIN s
                /\ s[Len(ErrorSent("BUTTON_START")) + i] = IdleSent[i]
          BY <2>3, <3>1, IdleSentType, Concatenation
        <4> QED BY <3>1, <4>1
      <3> QED BY <3>1
    <2>5. Busy => Busy' \/ \E i \in DOMAIN s : s[i] \in E
      BY <1>e, <2>1, <2>4
    <2> HIDE DEF s
    <2> QED BY <1>b, <2>1, <2>2, <2>3, <2>5
  <1>8. ASSUME DispatchIncomingStart
        PROVE  Pending(E)' \/ Busy'
    <2>1. idle /\ Receive("BUTTON_START_INCOMING", IdleSent) /\ error = "Estop_Active"
      BY <1>8 DEF DispatchIncomingStart, errorVars
    <2> QED BY <1>b, <1>e, <2>1, IdleSentType
  <1>9. ASSUME NEW e \in FaultEvents \cup NoticeEvents \cup {"ESTOP_OK"},
               DispatchReport(e)
        PROVE  Pending(E)' \/ Busy'
    <2>1. e \notin EstopEvents
      BY EventNames DEF FaultEvents, NoticeEvents
    <2>2. error = "Estop_Active" /\ e # "ESTOP_OK"
      BY <1>f, <1>9, <2>1 DEF DispatchReport
    <2>3. Receive(e, ErrorSent(e)) /\ (Busy' <=> Busy)
      BY <1>9, <1>c DEF DispatchReport
    <2>4. ErrorSent(e) \in Seq(Internal)
      BY <1>0, ErrorAfterIn, ErrorSentType
    <2> QED BY <1>b, <2>2, <2>3, <2>4
  <1>10. ASSUME NEW e \in MotorEvents, DispatchMotor(e)
         PROVE  Pending(E)' \/ Busy'
    <2>1. Receive(e, MotorSent(e)) /\ (Busy' <=> Busy) /\ error = "Estop_Active"
      BY <1>10, <1>c DEF DispatchMotor, errorVars
    <2>2. e # "ESTOP_OK"
      BY NotMotorEvents
    <2> QED BY <1>b, <2>1, <2>2, MotorSentType
  <1>11. ASSUME NEW e \in SpeedEvents \cup LightEvents \cup OutwardEvents,
                DispatchSpeed(e) \/ DispatchLight(e) \/ DispatchOutward(e)
         PROVE  Pending(E)' \/ Busy'
    <2>1. Receive(e, <<>>) /\ (Busy' <=> Busy) /\ error = "Estop_Active"
      BY <1>11, <1>c DEF DispatchSpeed, DispatchLight, DispatchOutward, errorVars
    <2>2. e # "ESTOP_OK"
      BY DEF SpeedEvents, LightEvents, LampEvents, OutwardEvents
    <2> QED BY <1>b, <1>d, <2>1, <2>2
  <1>12. CASE Dispatch
    <2> HIDE DEF Busy
    <2> QED
      BY <1>3, <1>4, <1>5, <1>6, <1>7, <1>8, <1>9, <1>10, <1>11, <1>12 DEF Dispatch
  <1> QED BY <1>1, <1>2, <1>12 DEF Next

\* Estop_Active is backed by a button that is being handled or by ESTOP_OK.
THEOREM EstopActiveAlwaysBacked == Spec => []EstopActiveBacked
  <1>1. Init => EstopActiveBacked
    BY DEF Init, ErrorInit, EstopActiveBacked
  <1>2. TypeInv /\ EstopActiveBacked /\ [Next]_vars => EstopActiveBacked'
    BY BackedNext
  <1> QED BY <1>1, <1>2, TypeInvariant, PTL DEF Spec

-----------------------------------------------------------------------------
\* The E-stop FSMs implement the interlock.  Inductive: the flags of the
\* checker mirror the states of the FSMs.

Halted == {n \in Systems : estop[n] # "Idle"}
Cleared == {n \in Systems : estop[n] = "Reset"}

SavedInv == \A n \in Systems : saved[n] <=> estop[n] \in {"Idle", "Reset"}

\* A move of one FSM.
LEMMA MoveStep ==
    ASSUME EstopInv, SavedInv, NEW n \in Systems, NEW s, NEW t \in EstopStates,
           EstopMove(n, s, t)
    PROVE  /\ SavedInv'
           /\ estop[n] = s => estop' = [estop EXCEPT ![n] = t]
           /\ estop[n] # s => estop' = estop
  <1>1. CASE estop[n] = s
    <2>1. /\ estop' = [estop EXCEPT ![n] = t]
          /\ saved' = [saved EXCEPT ![n] = t \in {"Idle", "Reset"}]
      BY <1>1 DEF EstopMove
    <2>2. ASSUME NEW m \in Systems
          PROVE  saved'[m] <=> estop'[m] \in {"Idle", "Reset"}
      <3>1. CASE m = n
        <4>1. estop'[m] = t
          BY <2>1, <3>1 DEF EstopInv
        <4>2. saved'[m] = (t \in {"Idle", "Reset"})
          BY <2>1, <3>1, Zenon DEF EstopInv
        <4> QED BY <4>1, <4>2
      <3>2. CASE m # n
        <4>1. estop'[m] = estop[m]
          BY <2>1, <3>2 DEF EstopInv
        <4>2. saved'[m] = saved[m]
          BY <2>1, <3>2, Zenon DEF EstopInv
        <4> QED BY <4>1, <4>2 DEF SavedInv
      <3> QED BY <3>1, <3>2
    <2> QED BY <1>1, <2>1, <2>2 DEF SavedInv
  <1>2. CASE estop[n] # s
    BY <1>2 DEF EstopMove, estopVars, SavedInv
  <1> QED BY <1>1, <1>2

\* START takes all FSMs to Idle together, or none.
LEMMA IdleStep ==
    ASSUME EstopInv, SavedInv, idle
    PROVE  /\ SavedInv'
           /\ \/ Cleared = Halted /\ Halted' = {} /\ Cleared' = {}
              \/ estop' = estop
  <1>1. CASE TransitionOk
    <2>1. \A n \in Systems : estop[n] \in {"Idle", "Reset"}
      BY <1>1 DEF TransitionOk, SavedInv
    <2>2. Cleared = Halted
      BY <2>1 DEF Cleared, Halted
    <2>3. \A n \in Systems : estop'[n] = "Idle"
      BY <1>1, <2>1 DEF idle
    <2>4. \A n \in Systems : saved'[n] = (saved[n] \/ (estop[n] = "Reset" /\ TransitionOk))
      BY DEF idle
    <2>5. \A n \in Systems : saved'[n]
      BY <1>1, <2>4 DEF TransitionOk
    <2> QED BY <2>2, <2>3, <2>5 DEF SavedInv, Halted, Cleared
  <1>2. CASE ~ TransitionOk
    <2>1. estop' = [n \in Systems |-> estop[n]]
      BY <1>2 DEF idle
    <2>2. estop' = estop
      BY <2>1 DEF EstopInv
    <2>3. \A n \in Systems : saved'[n] = (saved[n] \/ (estop[n] = "Reset" /\ TransitionOk))
      BY DEF idle
    <2>4. \A n \in Systems : saved'[n] <=> saved[n]
      BY <1>2, <2>3
    <2> QED BY <2>2, <2>4 DEF SavedInv
  <1> QED BY <1>1, <1>2

\* Every step is one of the interlock or leaves it alone.
LEMMA InterlockStep ==
    ASSUME TypeInv, SavedInv, [Next]_vars
    PROVE  SavedInv' /\ [Interlock!Next]_<<Halted, Cleared>>
  <1>0. EstopInv
    BY DEF TypeInv, TypeOK, EstopInv
  <1>1. ASSUME UNCHANGED estopVars
        PROVE  SavedInv' /\ UNCHANGED <<Halted, Cleared>>
    BY <1>1 DEF estopVars, SavedInv, Halted, Cleared
  <1>2. ASSUME estop' = estop
        PROVE  UNCHANGED <<Halted, Cleared>>
    BY <1>2 DEF Halted, Cleared
  <1>3. ASSUME NEW n \in Systems, full_stop(n)
        PROVE  SavedInv' /\ [Interlock!Next]_<<Halted, Cleared>>
    <2>1. /\ SavedInv'
          /\ estop[n] = "Idle" => estop' = [estop EXCEPT ![n] = "Full_stop"]
          /\ estop[n] # "Idle" => estop' = estop
      BY <1>0, <1>3, MoveStep DEF full_stop, EstopStates
    <2>2. CASE estop[n] = "Idle"
      <3>1. n \notin Halted /\ Halted' = Halted \cup {n} /\ Cleared' = Cleared
        BY <1>0, <2>1, <2>2 DEF Halted, Cleared, EstopInv
      <3> QED BY <2>1, <3>1 DEF Interlock!Next, Interlock!Halt, Halted, Cleared
    <2> QED BY <1>2, <2>1, <2>2
  <1>4. ASSUME NEW n \in Systems, estop_released(n)
        PROVE  SavedInv' /\ [Interlock!Next]_<<Halted, Cleared>>
    <2>1. /\ SavedInv'
          /\ estop[n] = "Full_stop" => estop' = [estop EXCEPT ![n] = "Estop_released"]
          /\ estop[n] # "Full_stop" => estop' = estop
      BY <1>0, <1>4, MoveStep DEF estop_released, EstopStates
    <2>2. CASE estop[n] = "Full_stop"
      BY <1>0, <2>1, <2>2 DEF Halted, Cleared, EstopInv
    <2> QED BY <1>2, <2>1, <2>2
  <1>5. ASSUME NEW n \in Systems, reset(n)
        PROVE  SavedInv' /\ [Interlock!Next]_<<Halted, Cleared>>
    <2>1. /\ SavedInv'
          /\ estop[n] = "Estop_released" => estop' = [estop EXCEPT ![n] = "Reset"]
          /\ estop[n] # "Estop_released" => estop' = estop
      BY <1>0, <1>5, MoveStep DEF reset, EstopStates
    <2>2. CASE estop[n] = "Estop_released"
      <3>1. n \in Halted \ Cleared /\ Cleared' = Cleared \cup {n} /\ Halted' = Halted
        BY <1>0, <2>1, <2>2 DEF Halted, Cleared, EstopInv
      <3> QED BY <2>1, <3>1 DEF Interlock!Next, Interlock!Clear, Halted, Cleared
    <2> QED BY <1>2, <2>1, <2>2
  <1>6. ASSUME idle
        PROVE  SavedInv' /\ [Interlock!Next]_<<Halted, Cleared>>
    <2>1. SavedInv'
      BY <1>0, <1>6, IdleStep
    <2>2. CASE Cleared = Halted /\ Halted' = {} /\ Cleared' = {}
      BY <2>1, <2>2 DEF Interlock!Next, Interlock!Resume, Halted, Cleared
    <2>3. CASE estop' = estop
      BY <1>2, <2>1, <2>3
    <2> QED BY <1>0, <1>6, <2>2, <2>3, IdleStep
  <1>7. CASE UNCHANGED vars
    BY <1>1, <1>7 DEF vars
  <1>8. CASE \/ \E n \in Systems : PressEstop(n)
             \/ \E n \in Systems : ReleaseEstop(n)
             \/ \E e \in Inputs : PostOther(e)
    BY <1>1, <1>8, PostingStep DEF TypeInv, Posting
  <1>9. CASE Dispatch
    <2>1. \/ \E n \in Systems : full_stop(n) \/ estop_released(n) \/ reset(n)
          \/ idle
          \/ UNCHANGED estopVars
      BY <1>9, SystemsAre
         DEF Dispatch, DispatchEstop, DispatchReleased, DispatchOwnReset,
             DispatchOtherReset, DispatchOwnStart, DispatchIncomingStart,
             DispatchReport, DispatchMotor, DispatchSpeed, DispatchLight,
             DispatchOutward
    <2> QED BY <1>1, <1>3, <1>4, <1>5, <1>6, <2>1
  <1> QED BY <1>7, <1>8, <1>9 DEF Next

\* The E-stop FSMs with their checker implement the abstract interlock.
THEOREM ImplementsInterlock == Spec => InterlockSpec
  <1>1. ASSUME Init
        PROVE  SavedInv /\ Interlock!Init
    BY <1>1 DEF Init, EstopInit, SavedInv, Interlock!Init
  <1>2. TypeInv /\ SavedInv /\ [Next]_vars =>
            SavedInv' /\ [Interlock!Next]_<<Halted, Cleared>>
    BY InterlockStep
  <1> QED
    BY <1>1, <1>2, TypeInvariant, PTL
       DEF Spec, InterlockSpec, Interlock!Spec, Halted, Cleared
=============================================================================
