----------------------------- MODULE SerialLink -----------------------------
(***************************************************************************)
(* The serial lines between the three belts.  Each belt has two, serial1   *)
(* and serial2, with a thread that reads packets and posts a pulse for     *)
(* each.  A line keeps the order of packets; the code neither acknowledges *)
(* nor repeats them.  Some writes may fail: nobody looks at what write()   *)
(* returns, the packet is lost.                                            *)
(*                                                                         *)
(* The cables are not part of the code.  It names the system behind ser1   *)
(* SYSTEM2 and the one behind ser2 SYSTEM3, whichever belt it is, passes   *)
(* puks on from ser1 of belt 1 and from ser2 of belt 2, and takes them     *)
(* from ser1: the cables below are the ones under which this makes sense.  *)
(***************************************************************************)
EXTENDS Integers, Sequences, FiniteSets, SequencesExt

CONSTANT MaxFailures    \* how many writes fail
ASSUME MaxFailuresAssumption == MaxFailures \in Nat

VARIABLES
    lines,      \* the packets on the way to each port
    failures    \* how many writes have failed

linkVars == <<lines, failures>>

Belts == 1..3
Ports == Belts \X {1, 2}
Peer == [port \in Ports |->
           CASE port = <<1, 1>> -> <<2, 1>> [] port = <<2, 1>> -> <<1, 1>>
             [] port = <<1, 2>> -> <<3, 2>> [] port = <<3, 2>> -> <<1, 2>>
             [] port = <<2, 2>> -> <<3, 1>> [] port = <<3, 1>> -> <<2, 2>>]

PaketTyp == {"PUK_ID", "RESET", "ESTOP", "RELEASED", "START", "REQUEST", "REQUEST_OK"}
NoPuk == 0
Packets == [paket_typ : PaketTyp, puk_id : Nat]
Packet(typ) == [paket_typ |-> typ, puk_id |-> NoPuk]
\* A puk's packet.  A variant whose payload has lost the id:
PukPacket_TypeOnly(p) == [paket_typ |-> "PUK_ID", puk_id |-> NoPuk]
PukPacket(p) == [paket_typ |-> "PUK_ID", puk_id |-> p]

LinesInit == lines = [port \in Ports |-> <<>>] /\ failures = 0

\* Packets to the ports of lost are not written.
Fail(lost) ==
    /\ failures + Cardinality(lost) <= MaxFailures
    /\ failures' = failures + Cardinality(lost)

\* write() of a packet to a port, which may fail.
Write(port, packet) ==
    \/ lines' = [lines EXCEPT ![Peer[port]] = Append(@, packet)] /\ Fail({})
    \/ UNCHANGED lines /\ Fail({Peer[port]})

\* The ports that hear belt b.
Hearing == [b \in Belts |-> {port \in Ports : Peer[port][1] = b}]

\* Both objects of class Serial_Transmit listen to the button and E-stop
\* events of their belt; the write of one may fail, or those of both.  A
\* variant in which one of them does not listen:
Broadcast_OnePort(b, typ, lost) ==
    /\ lines' = [port \in Ports |->
                    IF port \in Hearing[b] \ lost /\ Peer[port][2] = 1
                    THEN Append(lines[port], Packet(typ)) ELSE lines[port]]
    /\ Fail(lost)
Broadcast(b, typ, lost) ==
    /\ lines' = [port \in Ports |->
                    IF port \in Hearing[b] \ lost
                    THEN Append(lines[port], Packet(typ)) ELSE lines[port]]
    /\ Fail(lost)

\* The thread of a port reads the next packet.
Arrives(port, typ) ==
    lines[port] # <<>> /\ Head(lines[port]).paket_typ = typ
Consumed(port) == [lines EXCEPT ![port] = Tail(@)]

Quiet == \A port \in Ports : lines[port] = <<>>
=============================================================================
