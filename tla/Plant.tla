------------------------------- MODULE Plant -------------------------------
(***************************************************************************)
(* The three belts and what they tell each other.  The packets of the      *)
(* E-stop and those of the hand-over share the lines and nothing else: no  *)
(* handler of one looks at what the other has changed.  A behaviour has    *)
(* the one or the other kind of traffic.                                   *)
(***************************************************************************)
EXTENDS EstopRing, Handover

CONSTANT Traffic    \* the kinds there may be
ASSUME TrafficAssumption == Traffic \subseteq {"stops", "puks"}

VARIABLE traffic    \* which kind

vars == <<traffic, linkVars, ringVars, pukVars>>

Init ==
    /\ traffic \in Traffic
    /\ LinesInit /\ RingInit /\ HandoverInit

Stop(A) == traffic = "stops" /\ A /\ UNCHANGED <<traffic, pukVars>>
Pass(A) == traffic = "puks" /\ A /\ UNCHANGED <<traffic, ringVars>>

Next == Stop(RingNext) \/ Pass(HandoverNext)

\* Packets arrive.  Somebody pulls out a button that was pressed, and presses
\* RESET and START at each belt again and again while a belt stands.
StopFairness ==
    /\ \A port \in Ports : WF_vars(Stop(HearStop(port)))
    /\ WF_vars(Stop(\E b \in Belts : ESTOP_RELEASED_THIS(b)))
    /\ \A b \in Belts : SF_vars(Stop(BUTTON_RESET(b)))
    /\ SF_vars(Stop(\E b \in Belts : BUTTON_START(b)))

\* The dispatchers and the receivers go on, timers run out, and puks do not
\* stop on belt 2.  All of this happens a bounded number of times.
PukFairness == WF_vars(Pass(GoesOn))

Spec == Init /\ [][Next]_vars /\ StopFairness /\ PukFairness

-----------------------------------------------------------------------------
TypeOK ==
    /\ traffic \in {"stops", "puks"}
    /\ \A port \in Ports : lines[port] \in Seq(Packets)
    /\ fsm \in [Belts -> [1..3 -> FsmStates]]
    /\ pressed \subseteq Belts /\ presses \in Nat /\ heard \subseteq Ports
    /\ \A b \in Belts : queue[b] \in Seq(Pulses) /\ puk_fifo[b] \in Seq(Puks)
    /\ place \in [Puks -> Places]
    /\ groups \in Seq(GroupStates) /\ group_timers \in Nat
    /\ accept_new_puk \in BOOLEAN /\ settled \in [Senders -> BOOLEAN]
    /\ failures \in 0..MaxFailures /\ dropped \subseteq Puks
=============================================================================
