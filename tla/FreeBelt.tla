------------------------------ MODULE FreeBelt ------------------------------
(***************************************************************************)
(* What the requirements say of belt 2: a puk is handed over only when the *)
(* belt is free.                                                           *)
(***************************************************************************)
CONSTANT Puk
VARIABLE onBelt    \* the puks on the belt or handed over to it

Init == onBelt = {}

Take(p) == onBelt = {} /\ onBelt' = {p}
GiveUp == onBelt # {} /\ onBelt' = {}

Next == (\E p \in Puk : Take(p)) \/ GiveUp

Spec == Init /\ [][Next]_onBelt
=============================================================================
