-------------------------- MODULE EstopInterlock --------------------------
(***************************************************************************)
(* What the E-stop handling of a belt promises, without its FSMs: a button *)
(* halts its system; a halted system is cleared by a reset of its own; and *)
(* the systems go back to work all at once, when every halted one has been *)
(* cleared (estop_state_checker.h: "Prueft ob eine Transition von State    *)
(* Estop Reset zu Idle ok ist").                                           *)
(***************************************************************************)
CONSTANT System
VARIABLES
    halted,    \* systems whose E-stop is being handled
    cleared    \* those among them that have been reset

Init == halted = {} /\ cleared = {}

Halt(n) ==
    /\ n \notin halted
    /\ halted' = halted \cup {n}
    /\ UNCHANGED cleared

Clear(n) ==
    /\ n \in halted \ cleared
    /\ cleared' = cleared \cup {n}
    /\ UNCHANGED halted

Resume ==
    /\ halted # {}
    /\ cleared = halted
    /\ halted' = {} /\ cleared' = {}

Next == (\E n \in System : Halt(n) \/ Clear(n)) \/ Resume

Spec == Init /\ [][Next]_<<halted, cleared>>
=============================================================================
