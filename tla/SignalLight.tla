---------------------------- MODULE SignalLight ----------------------------
(***************************************************************************)
(* What the handlers of class Signal_light ask of the lamp.  Each handler  *)
(* but the one for TRAFFIC_LIGHT_NEW_PUK first clears the three lights and *)
(* stops the blink threads.  A blink thread toggles its light with a       *)
(* period of 1 s or 0.5 s; the threads themselves are not modelled here.   *)
(***************************************************************************)
EXTENDS Events

VARIABLE lamp    \* the steady lights and the blink thread of each colour

Colours == {"green", "yellow", "red"}
Rates == {"off", "slow", "fast"}

Dark == [lit |-> {}, blink |-> [c \in Colours |-> "off"]]
LampInit == lamp = Dark

Blinking(lit, c, rate) ==
    [lit |-> lit, blink |-> [d \in Colours |-> IF d = c THEN rate ELSE "off"]]

\* The lamp after the handler of event e.
LampAfter(e) ==
    CASE e = "TRAFFIC_LIGHT_NORMAL" -> [Dark EXCEPT !.lit = {"green"}]
      [] e = "TRAFFIC_LIGHT_UNACK_ERROR" -> Blinking({"red"}, "red", "slow")
      [] e = "TRAFFIC_LIGHT_ACKED_ERROR" -> Blinking({}, "red", "fast")
      [] e = "TRAFFIC_LIGHT_RDY" -> Blinking({"green"}, "green", "slow")
      [] e = "TRAFFIC_LIGHT_NEW_PUK" -> [lamp EXCEPT !.blink["yellow"] = "slow"]

LampHandle(e) == lamp' = LampAfter(e)
=============================================================================
