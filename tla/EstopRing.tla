----------------------------- MODULE EstopRing -----------------------------
(***************************************************************************)
(* The E-stop of the whole plant.  Every belt has an Estop_fsm for each of *)
(* the three buttons; what an operator does at a belt reaches the other    *)
(* two as packets, START and RESET among them.  No belt passes on what it  *)
(* hears.                                                                  *)
(*                                                                         *)
(* A pulse is handled when it is posted: the dispatcher of a belt takes    *)
(* pulses in the order in which its buttons and its two receiving threads  *)
(* post them, and to handle them later would only be to press or to        *)
(* receive later.                                                          *)
(***************************************************************************)
EXTENDS SerialLink

CONSTANTS
    MaxPresses,    \* how often E-stop buttons are pressed
    MaxLine        \* RESET and START are pressed while fewer packets wait

ASSUME MaxPressesAssumption == MaxPresses \in Nat
ASSUME MaxLineAssumption == MaxLine \in Nat \ {0}

VARIABLES
    fsm,        \* the state of each Estop_fsm of each belt
    pressed,    \* the E-stop buttons that are pressed
    presses,    \* how often one has been pressed
    heard       \* the ports that heard of the last press all there was to hear

ringVars == <<fsm, pressed, presses, heard>>

FsmStates == {"Idle", "Full_stop", "Estop_released", "Reset"}
Own == 1

\* Which FSM follows the packets of a port: ESTOP_SYSTEM2 for com 1,
\* ESTOP_SYSTEM3 for com 2.
System(com) == IF com = 1 THEN 2 ELSE 3

RingInit ==
    /\ fsm = [b \in Belts |-> [n \in 1..3 |-> "Idle"]]
    /\ pressed = {} /\ presses = 0 /\ heard = Ports

-----------------------------------------------------------------------------
\* FSM n of belt b goes from s to t, if it is in s.
Move(b, n, s, t) == fsm' = IF fsm[b][n] = s THEN [fsm EXCEPT ![b][n] = t] ELSE fsm

\* START: the FSMs of a belt in Reset go to Idle if its checker finds all of
\* them safe.  A variant whose checker does not count Idle as safe:
Restart_AllReset(b) ==
    fsm' = IF \A n \in 1..3 : fsm[b][n] = "Reset"
           THEN [fsm EXCEPT ![b] = [n \in 1..3 |-> "Idle"]]
           ELSE fsm
Restart(b) ==
    fsm' = IF \A n \in 1..3 : fsm[b][n] \in {"Idle", "Reset"}
           THEN [fsm EXCEPT ![b] = [n \in 1..3 |-> "Idle"]]
           ELSE fsm

\* The FSM of the button behind a port, and the one that follows it there.
Leader(port) == fsm[Peer[port][1]][Own]
Follower(port) == fsm[port[1]][System(port[2])]

\* Nothing about the button is on the way to a port.  START is for all.
NoneOnTheWay(port) ==
    \A k \in DOMAIN lines[port] :
        lines[port][k].paket_typ \notin {"ESTOP", "RELEASED", "RESET"}

\* The press finds both FSMs in the state that takes it.
TakesPress(port) ==
    Leader(port) = "Idle" /\ Follower(port) = "Idle" /\ NoneOnTheWay(port)

\* A button is pressed again and again, in time or not.
ESTOP_THIS(b) ==
    \E lost \in SUBSET Hearing[b] :
        /\ b \notin pressed /\ presses < MaxPresses
        /\ pressed' = pressed \cup {b}
        /\ presses' = presses + 1
        /\ Move(b, Own, "Idle", "Full_stop")
        /\ Broadcast(b, "ESTOP", lost)
        /\ heard' = (heard \ Hearing[b])
                    \cup {port \in Hearing[b] \ lost : TakesPress(port)}

ESTOP_RELEASED_THIS(b) ==
    \E lost \in SUBSET Hearing[b] :
        /\ b \in pressed
        /\ pressed' = pressed \ {b}
        /\ Move(b, Own, "Full_stop", "Estop_released")
        /\ Broadcast(b, "RELEASED", lost)
        /\ heard' = heard \ lost
        /\ UNCHANGED presses

Running(b) == \A n \in 1..3 : fsm[b][n] = "Idle"

\* Operators press RESET at a belt whose button has to be dealt with, and START
\* while some belt stands, in time or not.
FewWait(b) == \A port \in Hearing[b] : Len(lines[port]) < MaxLine
ToReset(b) ==
    \/ fsm[b][Own] \in {"Full_stop", "Estop_released"}
    \/ \E port \in Hearing[b] : Follower(port) \in {"Full_stop", "Estop_released"}

BUTTON_RESET(b) ==
    \E lost \in SUBSET Hearing[b] :
        /\ FewWait(b) /\ ToReset(b)
        /\ Move(b, Own, "Estop_released", "Reset")
        /\ Broadcast(b, "RESET", lost)
        /\ heard' = heard \ lost
        /\ UNCHANGED <<pressed, presses>>

BUTTON_START(b) ==
    \E lost \in SUBSET Hearing[b] :
        /\ FewWait(b) /\ \E c \in Belts : ~ Running(c)
        /\ Restart(b)
        /\ Broadcast(b, "START", lost)
        /\ UNCHANGED <<pressed, presses, heard>>

\* What the receiving thread of a port posts.
HearStop(port) ==
    LET b == port[1]
        n == System(port[2])
    IN  /\ \/ Arrives(port, "ESTOP") /\ Move(b, n, "Idle", "Full_stop")
           \/ Arrives(port, "RELEASED") /\ Move(b, n, "Full_stop", "Estop_released")
           \/ Arrives(port, "RESET") /\ Move(b, n, "Estop_released", "Reset")
           \/ Arrives(port, "START") /\ Restart(b)
        /\ lines' = Consumed(port)
        /\ UNCHANGED <<failures, pressed, presses, heard>>

RingNext ==
    \/ \E b \in Belts : \/ ESTOP_THIS(b) \/ ESTOP_RELEASED_THIS(b)
                        \/ BUTTON_RESET(b) \/ BUTTON_START(b)
    \/ \E port \in Ports : HearStop(port)

-----------------------------------------------------------------------------
\* Idle and Reset differ by a START only, which may overtake a RESET.
Safe(s) == s \in {"Idle", "Reset"}
Agree(port) ==
    Follower(port) = Leader(port) \/ (Safe(Follower(port)) /\ Safe(Leader(port)))

\* A press that finds the FSMs of its button idle, and whose packets are not
\* lost, is followed: once a belt has heard all of it, its FSM is where that of
\* the button is, until the next press, whatever else happens in the plant and
\* whichever way START and RESET cross
\* (estop_fsm.h:65-178, serial_transmit.cpp:55-115, serial_receive.cpp:88-174).
BeltsAgree == \A port \in heard : NoneOnTheWay(port) => Agree(port)

\* What the design asks of every press: when the packets have arrived, all
\* belts stand until the button is pulled out and RESET is pressed.
AllBeltsStand ==
    Quiet => \A b, c \in Belts : fsm[b][Own] = "Full_stop" => ~ Running(c)

\* Once the buttons are left alone, all belts run again in the end, if no
\* packet was lost.
AllRestart ==
    [](failures = 0) => []<>(\A b \in Belts : Running(b) /\ b \notin pressed)
=============================================================================
