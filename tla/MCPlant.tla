------------------------------ MODULE MCPlant ------------------------------
(***************************************************************************)
(* Small instances of Plant: E-stop buttons that are pressed while RESET   *)
(* and START are pressed often, or four puks, so that a second group       *)
(* begins on belt 3.                                                       *)
(***************************************************************************)
EXTENDS Plant

Stops == {"stops"}
StopsAndPuks == {"stops", "puks"}
=============================================================================
