------------------------------ MODULE MCPortA ------------------------------
(***************************************************************************)
(* A small instance of PortA.  Two lights blink at a time at most; the     *)
(* third identity would be needed for a thread nobody stops.               *)
(***************************************************************************)
EXTENDS PortA

AllInputs == PortEvents
FewThreads == 1..3
=============================================================================
