---------------------------- MODULE MCPukControl ----------------------------
(***************************************************************************)
(* A small instance of PukControl: each of the three belts.  Two puks meet *)
(* on belts 1 and 2; on belt 3 a fourth puk begins a second group.         *)
(***************************************************************************)
EXTENDS PukControl

AllBelts == 1..3
FewPuks == <<2, 2, 4>>
=============================================================================
