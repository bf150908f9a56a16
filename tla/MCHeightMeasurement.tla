------------------------ MODULE MCHeightMeasurement ------------------------
(***************************************************************************)
(* A small instance of HeightMeasurement.  One reading stands for each     *)
(* band: an object that is too high, the top of a puk, a groove, a hole,   *)
(* and the belt where it is a little higher than it was at the start, so   *)
(* that a measurement may begin without a puk.  The bounds are scaled      *)
(* down, their order is kept.                                              *)
(***************************************************************************)
EXTENDS HeightMeasurement

SomePuks == {{2500, 3420}, {2500, 2600}}
NoPuks == {2100, 4010}
SomeGrounds == {4096}
AnyType == {puk_hole, UNDEFINED}
=============================================================================
