--------------------------- MODULE SwitchControl ---------------------------
(***************************************************************************)
(* Class Switch_control: the switch in front of the ramp, which is opened  *)
(* for a puk that goes on and closed by a timer.  While it is open it is a *)
(* listener of TIMER_SWITCH_OUT; it registers and removes itself from      *)
(* inside its handlers, that is, while the dispatcher walks through the    *)
(* list of listeners.                                                      *)
(*                                                                         *)
(* A pulse TIMER_SWITCH_OUT names no timer: it closes whatever opening it  *)
(* meets.                                                                  *)
(***************************************************************************)
EXTENDS Integers, Sequences, SequencesExt

VARIABLES
    switch,       \* the state behind statePtr
    listeners,    \* _listeners of the dispatcher, for the two events
    timed,        \* the timer timer_id runs
    others,       \* how many timers of the switch run that timer_id forgot
    strays        \* how many timers and pulses belong to no present opening

switchVars == <<switch, listeners, timed, others, strays>>

SwitchEvents == {"SWITCH_OPEN", "TIMER_SWITCH_OUT"}

-----------------------------------------------------------------------------
\* addListener() and remListeners(), which do not look at what the relock of
\* _init_mtx by the thread that holds it returns.

AddListener(ls, e) == [ls EXCEPT ![e] = Append(@, "Switch_control")]

\* The loop of remListeners() erases the element at i and still increments i:
\* the element behind an erased one is not looked at.
Remaining(list) ==
    LET step(acc, l) ==
            IF l = "Switch_control" /\ ~ acc.skip
            THEN [acc EXCEPT !.skip = TRUE]
            ELSE [skip |-> FALSE, kept |-> Append(acc.kept, l)]
    IN  FoldLeft(step, [skip |-> FALSE, kept |-> <<>>], list).kept
RemListeners(ls, e) == [ls EXCEPT ![e] = Remaining(@)]

\* The constructor of Switch_control has run start(): state Close.
SwitchInit ==
    /\ switch = "Close"
    /\ listeners = AddListener([e \in SwitchEvents |-> <<>>], "SWITCH_OPEN")
    /\ timed = FALSE /\ others = 0
    /\ strays = 0

\* start_timer() overwrites timer_id: a timer that still runs is forgotten.
start_timer ==
    /\ timed' = TRUE
    /\ others' = IF timed THEN others + 1 ELSE others

-----------------------------------------------------------------------------
\* Close::switch_open() and the constructor of Open, which then opens the
\* switch and starts the timer.
OpenSwitch ==
    /\ switch = "Close"
    /\ switch' = "Open"
    /\ listeners' = AddListener(listeners, "TIMER_SWITCH_OUT")
    /\ UNCHANGED <<timed, others, strays>>

\* Open::switch_open(): the next puk is there already.  Two variants, one
\* without stop_timer() and one without start_timer():
OpenAgain_KeepsTimer ==
    /\ switch = "Open"
    /\ start_timer
    /\ strays' = IF timed THEN strays ELSE strays + 1
    /\ UNCHANGED <<switch, listeners>>
OpenAgain_NoTimer ==
    /\ switch = "Open"
    /\ timed' = FALSE
    /\ UNCHANGED <<switch, listeners, others, strays>>

\* If the old timer has run out, its pulse waits in the queue.
OpenAgain ==
    /\ switch = "Open"
    /\ timed' = TRUE
    /\ strays' = IF timed THEN strays ELSE strays + 1
    /\ UNCHANGED <<switch, listeners, others>>

\* What timer_switch_out() leaves registered.  A variant that forgets one
\* remListeners():
ClosedListeners_KeepsOpen(ls) ==
    AddListener(RemListeners(ls, "TIMER_SWITCH_OUT"), "SWITCH_OPEN")
ClosedListeners(ls) ==
    AddListener(RemListeners(RemListeners(ls, "TIMER_SWITCH_OUT"), "SWITCH_OPEN"),
                "SWITCH_OPEN")

\* Open::timer_switch_out() and the constructor of Close, which then closes
\* the switch.
CloseSwitch ==
    /\ switch = "Open"
    /\ switch' = "Close"
    /\ listeners' = ClosedListeners(listeners)
    /\ UNCHANGED <<timed, others, strays>>

\* Nobody listens to TIMER_SWITCH_OUT while the switch is closed.
TimerUnheard ==
    /\ listeners["TIMER_SWITCH_OUT"] = <<>>
    /\ strays' = strays - 1
    /\ UNCHANGED <<switch, listeners, timed, others>>

\* A timer runs out: that of timer_id or one that was forgotten.
TimerOut ==
    /\ \/ timed /\ timed' = FALSE /\ UNCHANGED others
       \/ others > 0 /\ others' = others - 1 /\ UNCHANGED timed
    /\ UNCHANGED <<switch, listeners, strays>>

-----------------------------------------------------------------------------
\* The listeners fit the state, once each: no event is handled twice, and a
\* late pulse of a timer finds no one when the switch is closed.
Registered ==
    /\ listeners["SWITCH_OPEN"] = <<"Switch_control">>
    /\ listeners["TIMER_SWITCH_OUT"] =
           IF switch = "Open" THEN <<"Switch_control">> ELSE <<>>
=============================================================================
