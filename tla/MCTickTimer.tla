---------------------------- MODULE MCTickTimer ----------------------------
(***************************************************************************)
(* A small instance of TickTimer: the belt moves two units a tick when it  *)
(* is fast and one when it is slow; one duration is a multiple of both and *)
(* one is not, as with 23 and 10 in the code.                              *)
(***************************************************************************)
EXTENDS TickTimer

FewDurations == {2, 3}
=============================================================================
