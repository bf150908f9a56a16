----------------------------- MODULE PukControl -----------------------------
(***************************************************************************)
(* Class Puk_control with its Puk_fsm_dummy objects: the list of the puks  *)
(* on a belt, a state machine for each, and the timers that say a puk is   *)
(* lost.  On belts 1 and 2 an object stands for a puk, on belt 3 for a     *)
(* group of up to three.                                                   *)
(*                                                                         *)
(* An event does not name a puk: a handler offers it to the objects in the *)
(* order of the list, and the first whose state has a method for it takes  *)
(* it.  So does the pulse of a timer that has run out, which waits in the  *)
(* queue of the dispatcher while other handlers run.                       *)
(***************************************************************************)
EXTENDS Integers, FiniteSets, Sequences, SequencesExt

CONSTANTS
    SystemNumbers,   \* the belts the operator may name
    MaxPuks          \* so many puks arrive on each belt

ASSUME SystemNumbersAssumption == SystemNumbers \subseteq 1..3
ASSUME MaxPuksAssumption == MaxPuks \in [1..3 -> Nat]

VARIABLES
    SYSTEM_NUMBER,    \* which belt this is
    puk_list,         \* the objects, by age; id is the arrival that created it
    arrivals,         \* how many puks have arrived
    timers,           \* the timers that run
    expired,          \* the timers whose pulse waits in the queue
    accept_new_puk,
    sequence,         \* the state behind statePtr: which type is wanted next
    counter,          \* static variable of Puk_3
    motorIdle,        \* the last command posted to the motor is MOTOR_IDLE
    grants            \* SEND_REQUEST_OKs posted that no puk has answered yet

postVars == <<motorIdle, grants>>
vars == <<SYSTEM_NUMBER, puk_list, arrivals, timers, expired, accept_new_puk,
          sequence, counter, postVars>>

-----------------------------------------------------------------------------
\* Kinds of puks as far as they are treated differently: those belt 1 sorts
\* out, the two that make a sequence, and the others.  (The type an object
\* keeps is compared with once, on belt 2; the model lets the comparison fail
\* at will.)
PukTypes == {"sorted_out", "puk_hole", "puk_iron_core", "other"}

PukStates == {"Start", "Active", "In_Height_Measurement", "Sortout", "To_Switch",
              "To_Exit", "Transmit", "To_Next_Geme", "Error"}
GroupStates == {"Puk_1", "Puk_2", "Puk_3", "Switch_Open", "Exit_Belt_3"}
Collecting == {"Puk_1", "Puk_2", "Puk_3"}

\* A timer is known by what it is for (its pulse is TIMER_<kind>_OUT) and the
\* arrival it was started for; no two with the same run at once.
\* LostIn says in which state a puk takes the pulse and is lost.  A variant
\* with two states confused:
LostIn_Confused == [CREATE_PUK |-> "Start", TRANSMIT |-> "Start",
                    HEIGHT_MEASURE_DURATION |-> "Active",
                    HEIGHT_MEASURE_TO_RAMP |-> "To_Switch",
                    HEIGHT_MEASURE_TO_SWITCH |-> "To_Switch",
                    SWITCH_TO_EXIT |-> "To_Exit"]
LostIn == [CREATE_PUK |-> "Start", TRANSMIT |-> "Start",
           HEIGHT_MEASURE_DURATION |-> "Active",
           HEIGHT_MEASURE_TO_RAMP |-> "Sortout",
           HEIGHT_MEASURE_TO_SWITCH |-> "To_Switch",
           SWITCH_TO_EXIT |-> "To_Exit"]
TimerKinds == DOMAIN LostIn \cup {"NEW_PUK", "EXIT", "GROUP"}
Arrivals == UNION {1..MaxPuks[n] : n \in SystemNumbers}
Timers == [kind : TimerKinds, of : Arrivals]
Timer(kind, id) == [kind |-> kind, of |-> id]

\* entry_timer_id and transmit_timer_id are set for each puk that arrives.
entry_timer == Timer("NEW_PUK", arrivals)
transmit_timer == Timer("TRANSMIT", arrivals)

\* The first object of the list that is in one of the states S.
Found(S) == \E k \in DOMAIN puk_list : puk_list[k].state \in S
First(S) == CHOOSE k \in DOMAIN puk_list :
              /\ puk_list[k].state \in S
              /\ \A j \in 1..(k - 1) : puk_list[j].state \notin S

\* A handler posts pulses; those the properties speak of are commands to the
\* motor and grants to the neighbour.  More grants than puks are not counted.
MotorCommands == {"MOTOR_NORMAL", "MOTOR_SLOW", "MOTOR_STOP", "MOTOR_START",
                  "MOTOR_IDLE"}
Idles(pulses) ==
    \E k \in DOMAIN pulses :
        /\ pulses[k] = "MOTOR_IDLE"
        /\ \A j \in DOMAIN pulses : j > k => pulses[j] \notin MotorCommands
Commands(pulses) == \E k \in DOMAIN pulses : pulses[k] \in MotorCommands
Granted(pulses) == Cardinality({k \in DOMAIN pulses : pulses[k] = "SEND_REQUEST_OK"})
Post(pulses) ==
    LET more == grants + Granted(pulses)
    IN  /\ motorIdle' = \/ Idles(pulses)
                        \/ motorIdle /\ ~ Commands(pulses)
        /\ grants' = IF more > MaxPuks[SYSTEM_NUMBER] THEN grants ELSE more

Init ==
    /\ SYSTEM_NUMBER \in SystemNumbers
    /\ puk_list = <<>> /\ arrivals = 0
    /\ timers = {} /\ expired = <<>>
    /\ accept_new_puk = TRUE
    /\ sequence = "Idle" /\ counter = 0
    /\ motorIdle = TRUE /\ grants = 0     \* Motorcontroler starts in Idle

-----------------------------------------------------------------------------
\* Parts of the handlers.

\* new (this) s, for the k-th object.
Enter(k, s) == puk_list' = [puk_list EXCEPT ![k].state = s]

\* What SEND_REQUEST() posts when the list is empty or not.
RequestSent(empty) ==
    IF (SYSTEM_NUMBER = 2 /\ empty) \/ (SYSTEM_NUMBER = 3 /\ accept_new_puk)
    THEN <<"SEND_REQUEST_OK">> ELSE <<>>

\* A variant of Kill_Puk that counts one puk too many:
KillSent_OffByOne ==
    (IF Len(puk_list) = 2 THEN <<"MOTOR_IDLE">> ELSE <<>>)
      \o RequestSent(Len(puk_list) = 1)
KillSent ==
    (IF Len(puk_list) = 1 THEN <<"MOTOR_IDLE">> ELSE <<>>)
      \o RequestSent(Len(puk_list) = 1)

\* Kill_Puk and delete_puk(), after the handler has posted pulses; stop is
\* the timers it has stopped.
Kill(k, pulses, stop) ==
    /\ puk_list' = RemoveAt(puk_list, k)
    /\ timers' = timers \ (stop \cup (IF Len(puk_list) = 1 THEN {entry_timer} ELSE {}))
    /\ Post(pulses \o KillSent)

\* The sequence of types, check(): is this type the one wanted next?
Wanted == IF sequence = "Ohne_metall_2" THEN "puk_iron_core" ELSE "puk_hole"
NextInSequence ==
    CASE sequence = "Idle" -> "Ohne_metall_1"
      [] sequence = "Ohne_metall_1" -> "Ohne_metall_2"
      [] sequence = "Ohne_metall_2" -> "Idle"

\* No object took the event.
Unexpected ==
    /\ Post(IF SYSTEM_NUMBER = 3 THEN <<>> ELSE <<"ERR_TO_MANY_PUK">>)
    /\ UNCHANGED <<puk_list, timers, counter>>

\* What handlers of barriers and buttons leave alone.
Others == <<SYSTEM_NUMBER, arrivals, expired>>
Settings == <<accept_new_puk, sequence>>

-----------------------------------------------------------------------------
\* Puks arrive.

\* A puk is laid on belt 1; on the others one passes the entrance.
LIGHT_BARRIER_ENTRY_CLOSE ==
    /\ UNCHANGED <<SYSTEM_NUMBER, expired, Settings, counter>>
    /\ \/ /\ SYSTEM_NUMBER = 1
          /\ entry_timer \notin timers
          /\ arrivals < MaxPuks[SYSTEM_NUMBER]
          /\ arrivals' = arrivals + 1
          /\ puk_list' = Append(puk_list, [id |-> arrivals', state |-> "Start"])
          /\ timers' = timers \cup {Timer("CREATE_PUK", arrivals'), entry_timer'}
          /\ Post(<<"MOTOR_NORMAL">>)
       \/ /\ SYSTEM_NUMBER = 1
          /\ entry_timer \in timers
          /\ Post(<<"ERR_PUK_TOO_EARLY">>)
          /\ UNCHANGED <<arrivals, puk_list, timers>>
       \/ /\ SYSTEM_NUMBER # 1
          /\ timers' = timers \ {transmit_timer}
          /\ UNCHANGED <<arrivals, puk_list, postVars>>

\* Does the puk begin a new group on belt 3?
MayStartGroup == puk_list # <<>> => Last(puk_list).state = "Puk_3"

\* The neighbour has sent a puk: belt 2 lists it, belt 3 adds it to a group.
NEW_PUK ==
    LET id == arrivals + 1
        group == Timer("GROUP", id)
    IN
    /\ SYSTEM_NUMBER # 1
    /\ grants > 0 /\ arrivals < MaxPuks[SYSTEM_NUMBER]
    /\ arrivals' = id
    /\ grants' = grants - 1
    /\ UNCHANGED <<SYSTEM_NUMBER, expired, sequence, counter>>
    /\ \/ /\ SYSTEM_NUMBER = 2
          /\ puk_list' = Append(puk_list, [id |-> id, state |-> "Start"])
          /\ timers' = timers \cup {transmit_timer'}
          /\ motorIdle' = FALSE
          /\ UNCHANGED accept_new_puk
       \/ /\ SYSTEM_NUMBER = 3 /\ MayStartGroup
          /\ puk_list' = Append(puk_list, [id |-> id, state |-> "Puk_1"])
          /\ timers' = timers \cup {transmit_timer', group}
          /\ motorIdle' = FALSE
          /\ accept_new_puk' = FALSE
       \/ /\ SYSTEM_NUMBER = 3 /\ ~ MayStartGroup
          /\ accept_new_puk /\ Found({"Puk_1", "Puk_2"})
          /\ LET k == First({"Puk_1", "Puk_2"})
             IN  Enter(k, IF puk_list[k].state = "Puk_1" THEN "Puk_2" ELSE "Puk_3")
          /\ timers' = timers \cup {transmit_timer', group}
          /\ motorIdle' = FALSE
          /\ accept_new_puk' = FALSE
       \/ /\ SYSTEM_NUMBER = 3 /\ ~ MayStartGroup
          /\ ~ (accept_new_puk /\ Found({"Puk_1", "Puk_2"}))
          /\ timers' = timers \cup {transmit_timer'}
          /\ UNCHANGED <<puk_list, motorIdle, accept_new_puk>>

SEND_REQUEST ==
    /\ SYSTEM_NUMBER # 1
    /\ Post(RequestSent(puk_list = <<>>))
    /\ UNCHANGED <<puk_list, timers, Others, Settings, counter>>

\* The timers after the k-th puk has stopped its timer of one kind and started
\* one of another.  A variant that returns when there is nothing to stop:
Rewatch_IfRunning(k, from, to) ==
    IF Timer(from, puk_list[k].id) \in timers
    THEN (timers \ {Timer(from, puk_list[k].id)}) \cup {Timer(to, puk_list[k].id)}
    ELSE timers
Rewatch(k, from, to) ==
    (timers \ {Timer(from, puk_list[k].id)}) \cup {Timer(to, puk_list[k].id)}

LIGHT_BARRIER_ENTRY_OPEN ==
    /\ \/ /\ Found({"Start"})
          /\ LET k == First({"Start"})
             IN  /\ Enter(k, "Active")
                 /\ timers' = Rewatch(k, "CREATE_PUK", "HEIGHT_MEASURE_DURATION")
       \/ ~ Found({"Start"}) /\ UNCHANGED <<puk_list, timers>>
    /\ Post(IF SYSTEM_NUMBER = 1 THEN <<"ERR_PUK_TOO_EARLY_OK">> ELSE <<>>)
    /\ UNCHANGED <<Others, Settings, counter>>

-----------------------------------------------------------------------------
\* Puks on their way.  What stop_timer() returns is -1 when the timer has run
\* out; so a puk can be too early only while its timer runs.

HEIGHT_SENSOR_MEASURE_START ==
    /\ UNCHANGED <<Others, Settings>>
    /\ \/ /\ Found({"Active"})
          /\ LET k == First({"Active"})
                 own == Timer("HEIGHT_MEASURE_DURATION", puk_list[k].id)
             IN  /\ timers' = timers \ {own}
                 /\ \/ Enter(k, "In_Height_Measurement") /\ Post(<<"MOTOR_SLOW">>)
                    \/ own \in timers /\ Enter(k, "Error") /\ Post(<<"ERR_LOST_PUK">>)
          /\ UNCHANGED counter
       \/ ~ Found({"Active"}) /\ Unexpected

\* The puk measured is of this type, Height_Measurement::get_type().
IDENTIFIED_PUK(type) ==
    LET S == {"In_Height_Measurement"}
        k == First(S)
        To(s, kind) ==
            /\ Enter(k, s)
            /\ timers' = timers \cup {Timer(kind, puk_list[k].id)}
            /\ sequence' = IF type = Wanted THEN NextInSequence ELSE sequence
        out == \/ SYSTEM_NUMBER = 1 /\ type = "sorted_out"
               \/ SYSTEM_NUMBER = 2 /\ type # Wanted
    IN
    /\ Found(S)
    /\ \/ /\ SYSTEM_NUMBER = 2     \* not the type belt 1 has sent
          /\ Enter(k, "Error") /\ Post(<<"ERR_LOST_PUK">>)
          /\ UNCHANGED <<timers, sequence>>
       \/ /\ IF out THEN To("Sortout", "HEIGHT_MEASURE_TO_RAMP")
                    ELSE To("To_Switch", "HEIGHT_MEASURE_TO_SWITCH")
          /\ UNCHANGED <<postVars>>
    /\ UNCHANGED <<Others, accept_new_puk, counter>>

ERR_UNDEFINED_PUK ==
    /\ Found({"In_Height_Measurement"})
    /\ Enter(First({"In_Height_Measurement"}), "Error")
    /\ Post(<<"ERR_LOST_PUK">>)
    /\ UNCHANGED <<timers, Others, Settings, counter>>

\* The states that have a method for LIGHT_BARRIER_SWITCH_CLOSE.  A variant in
\* which a puk on its way to the ramp does not take it:
AtSwitch_NotSortout == {"To_Switch", "Puk_3"}
AtSwitch == {"Sortout", "To_Switch", "Puk_3"}

\* Variant: the counter is not reset.
CounterAfter_NoReset == counter + 1
CounterAfter == (counter + 1) % 2

LIGHT_BARRIER_SWITCH_CLOSE ==
    LET k == First(AtSwitch) IN
    /\ UNCHANGED <<Others, Settings>>
    /\ \/ /\ Found(AtSwitch) /\ puk_list[k].state = "Sortout"
          /\ UNCHANGED <<puk_list, timers, counter, postVars>>
       \/ /\ Found(AtSwitch) /\ puk_list[k].state = "To_Switch"
          /\ Enter(k, "To_Exit")
          /\ timers' = Rewatch(k, "HEIGHT_MEASURE_TO_SWITCH", "SWITCH_TO_EXIT")
          /\ Post(<<"SWITCH_OPEN">>)
          /\ UNCHANGED counter
       \/ /\ Found(AtSwitch) /\ puk_list[k].state = "Puk_3"
          /\ counter' = CounterAfter
          /\ IF counter = 1 THEN Enter(k, "Switch_Open") ELSE UNCHANGED puk_list
          /\ Post(<<"SWITCH_OPEN">>)
          /\ UNCHANGED timers
       \/ ~ Found(AtSwitch) /\ Unexpected

LIGHT_BARRIER_RAMP_OPEN ==
    /\ UNCHANGED <<Others, Settings, counter>>
    /\ \/ /\ Found({"Sortout"})
          /\ LET k == First({"Sortout"})
             IN  Kill(k, <<>>, {Timer("HEIGHT_MEASURE_TO_RAMP", puk_list[k].id)})
       \/ ~ Found({"Sortout"}) /\ Unexpected

LIGHT_BARRIER_EXIT_CLOSE ==
    LET S == {"To_Exit", "Switch_Open"}
        k == First(S)
        own == Timer("SWITCH_TO_EXIT", puk_list[k].id)
    IN
    /\ UNCHANGED <<Others, Settings, counter>>
    /\ \/ /\ Found(S) /\ puk_list[k].state = "To_Exit"
          /\ timers' = timers \ {own}
          /\ \/ Enter(k, "Transmit") /\ Post(<<"MOTOR_STOP", "SEND_WANT">>)
             \/ own \in timers /\ Enter(k, "Error") /\ Post(<<"MOTOR_STOP", "ERR_LOST_PUK">>)
       \/ /\ Found(S) /\ puk_list[k].state = "Switch_Open"
          /\ Enter(k, "Exit_Belt_3")
          /\ Post(<<"MOTOR_STOP", "TRAFFIC_LIGHT_NEW_PUK">>)
          /\ UNCHANGED timers
       \/ ~ Found(S) /\ Unexpected

\* The neighbour takes the puk.
SEND_OK ==
    /\ Found({"Transmit"})
    /\ LET k == First({"Transmit"}) IN
       /\ Enter(k, "To_Next_Geme")
       /\ timers' = timers \cup {Timer("EXIT", puk_list[k].id)}
    /\ Post(<<"MOTOR_START">>)
    /\ UNCHANGED <<Others, Settings, counter>>

\* An operator has taken the group from belt 3.
BUTTON_START ==
    /\ Found({"Exit_Belt_3"})
    /\ Kill(First({"Exit_Belt_3"}),
            <<"TRAFFIC_LIGHT_NORMAL", "TIMER_SWITCH_OUT", "MOTOR_START">>, {})
    /\ UNCHANGED <<Others, Settings, counter>>

\* Error_fsm is in OK again: one lost puk is forgotten.
ERR_OK ==
    /\ Found({"Error"})
    /\ Kill(First({"Error"}), <<>>, {})
    /\ UNCHANGED <<Others, Settings, counter>>

-----------------------------------------------------------------------------
\* Timers: Tick_timer posts the pulse, which is handled in its turn; nobody
\* does anything at TIMER_NEW_PUK_OUT.  Timers of one kind last equally long,
\* but for those of groups, and are started for one puk after the other: the
\* oldest runs out first.

Expire(t) ==
    /\ t.kind = "GROUP" \/ \A u \in timers : u.kind = t.kind => u.of >= t.of
    /\ timers' = timers \ {t}
    /\ expired' = IF t.kind = "NEW_PUK" THEN expired ELSE Append(expired, t)
    /\ UNCHANGED <<SYSTEM_NUMBER, puk_list, arrivals, Settings, counter, postVars>>

Receive(kinds) ==
    /\ expired # <<>> /\ Head(expired).kind \in kinds
    /\ expired' = Tail(expired)
    /\ UNCHANGED <<SYSTEM_NUMBER, arrivals, sequence, counter>>

\* The handlers of the timers for a puk that does not appear in time.
PukLost ==
    /\ Receive(DOMAIN LostIn)
    /\ LET S == {LostIn[Head(expired).kind]} IN
       \/ Found(S) /\ Enter(First(S), "Error") /\ Post(<<"ERR_LOST_PUK">>)
       \/ ~ Found(S) /\ UNCHANGED <<puk_list, postVars>>
    /\ UNCHANGED <<timers, accept_new_puk>>

TIMER_EXIT_OUT ==
    /\ Receive({"EXIT"})
    /\ \/ Found({"To_Next_Geme"}) /\ Kill(First({"To_Next_Geme"}), <<>>, {})
       \/ /\ ~ Found({"To_Next_Geme"})
          /\ UNCHANGED <<puk_list, timers, postVars>>
    /\ UNCHANGED accept_new_puk

TIMER_GROUP_OUT ==
    /\ Receive({"GROUP"})
    /\ \/ /\ Found(Collecting)
          /\ accept_new_puk' = TRUE
          /\ Post(<<"MOTOR_IDLE", "SEND_REQUEST_OK">>)
       \/ /\ ~ Found(Collecting)
          /\ UNCHANGED <<accept_new_puk, postVars>>
    /\ UNCHANGED <<puk_list, timers>>

DispatchTimer == PukLost \/ TIMER_EXIT_OUT \/ TIMER_GROUP_OUT

Next ==
    \/ LIGHT_BARRIER_ENTRY_CLOSE \/ SEND_REQUEST \/ NEW_PUK
    \/ LIGHT_BARRIER_ENTRY_OPEN
    \/ HEIGHT_SENSOR_MEASURE_START \/ ERR_UNDEFINED_PUK
    \/ \E type \in PukTypes : IDENTIFIED_PUK(type)
    \/ LIGHT_BARRIER_SWITCH_CLOSE \/ LIGHT_BARRIER_RAMP_OPEN
    \/ LIGHT_BARRIER_EXIT_CLOSE
    \/ SEND_OK \/ BUTTON_START \/ ERR_OK
    \/ \E t \in timers : Expire(t)
    \/ DispatchTimer

\* The dispatcher keeps taking pulses.
Spec == Init /\ [][Next]_vars /\ WF_vars(DispatchTimer)

-----------------------------------------------------------------------------
\* Properties.

Puk == [id : Arrivals, state : PukStates \cup GroupStates]

TypeOK ==
    /\ SYSTEM_NUMBER \in SystemNumbers
    /\ puk_list \in Seq(Puk)
    /\ arrivals \in {0} \cup Arrivals
    /\ timers \subseteq Timers
    /\ expired \in Seq(Timers)
    /\ accept_new_puk \in BOOLEAN
    /\ sequence \in {"Idle", "Ohne_metall_1", "Ohne_metall_2"}
    /\ counter \in 0..1
    /\ motorIdle \in BOOLEAN
    /\ grants \in {0} \cup Arrivals

\* How far along the belt a state is.
Place(s) ==
    CASE s \in {"Start", "Puk_1"} -> 1
      [] s \in {"Active", "Puk_2"} -> 2
      [] s \in {"In_Height_Measurement", "Puk_3"} -> 3
      [] s \in {"Sortout", "To_Switch", "Switch_Open"} -> 4
      [] s \in {"To_Exit", "Exit_Belt_3"} -> 5
      [] s = "Transmit" -> 6
      [] s = "To_Next_Geme" -> 7

\* Although no event names a puk, whatever the barriers and timers report, no
\* object gets ahead of an older one: each event goes to the puk in front
\* (Puk_control.cpp:267-430; a puk to be sorted out takes the event of the
\* barrier at the switch, puk_fsm_dummy.h:256).
NoOvertaking ==
    \A j, k \in DOMAIN puk_list :
        j < k /\ puk_list[j].state # "Error" /\ puk_list[k].state # "Error"
            => Place(puk_list[j].state) >= Place(puk_list[k].state)

Pending(kind) ==
    Cardinality({t \in timers : t.kind = kind})
      + Cardinality({k \in DOMAIN expired : expired[k].kind = kind})
PuksIn(s) == {k \in DOMAIN puk_list : puk_list[k].state = s}

\* For all puks that wait for a barrier there are as many timers, running or
\* with their pulse queued, although a pulse may hit another puk than its own
\* and a puk that comes late leaves its pulse behind: none is waited for in
\* vain.  Likewise for a group belt 3 does not add to (puk_fsm_dummy.h:127-412).
Watched ==
    /\ SYSTEM_NUMBER = 1 => Cardinality(PuksIn("Start")) <= Pending("CREATE_PUK")
    /\ \A kind \in DOMAIN LostIn \ {"CREATE_PUK", "TRANSMIT"} :
           Cardinality(PuksIn(LostIn[kind])) <= Pending(kind)
    /\ Cardinality(PuksIn("To_Next_Geme")) <= Pending("EXIT")
    /\ Found(Collecting) /\ ~ accept_new_puk => Pending("GROUP") > 0

\* Belts 1 and 2 are told to idle exactly while they have no puk.  Belt 3 is
\* told so when it has none, and else only while accept_new_puk stands: then
\* every request of the neighbour is granted.  The groups it idles under may be
\* complete, or past the switch (puk_fsm_dummy.h:132-145, 353-413).
IdleBeltWaits ==
    /\ puk_list = <<>> => motorIdle
    /\ motorIdle =>
           \/ puk_list = <<>>
           \/ SYSTEM_NUMBER = 3 /\ accept_new_puk

\* If every timer runs out in the end, every puk that waits for a barrier
\* appears there or is declared lost (puk_fsm_dummy.h:127-340).
WaitsForBarrier(id) ==
    \E k \in DOMAIN puk_list :
        /\ puk_list[k].id = id
        /\ puk_list[k].state \in {"Active", "Sortout", "To_Switch", "To_Exit"}
LostPukIsNoticed ==
    (\A t \in Timers : []<>(t \notin timers))
        => \A id \in Arrivals : WaitsForBarrier(id) ~> ~ WaitsForBarrier(id)

\* What the comment of the timer says: "If a Timer runs out a pulse message is
\* send: If the pulse message value is the timer id" (tick_timer.h:5-6).  So
\* a puk is declared lost only when its own timer has run out.
OwnTimerOnly ==
    [][\A k \in DOMAIN puk_list \cap DOMAIN puk_list' :
          /\ expired # <<>> /\ expired' = Tail(expired)
          /\ puk_list[k].state # "Error" /\ puk_list'[k].state = "Error"
          => Head(expired).of = puk_list[k].id]_vars
=============================================================================
