---------------------------- MODULE RingProofs ----------------------------
(***************************************************************************)
(* Proofs about the E-stop of the whole plant, for every number of presses *)
(* and however many packets wait on the lines.                             *)
(***************************************************************************)
EXTENDS Plant, PulseQueues, FiniteSetTheorems

-----------------------------------------------------------------------------
\* The lines.

\* The cables, end by end.
LEMMA PeerIs ==
    /\ Ports = {<<1, 1>>, <<1, 2>>, <<2, 1>>, <<2, 2>>, <<3, 1>>, <<3, 2>>}
    /\ Peer[<<1, 1>>] = <<2, 1>> /\ Peer[<<2, 1>>] = <<1, 1>>
    /\ Peer[<<1, 2>>] = <<3, 2>> /\ Peer[<<3, 2>>] = <<1, 2>>
    /\ Peer[<<2, 2>>] = <<3, 1>> /\ Peer[<<3, 1>>] = <<2, 2>>
    /\ \A port \in Ports : Peer[port] \in Ports
  <1>1. Ports = {<<1, 1>>, <<1, 2>>, <<2, 1>>, <<2, 2>>, <<3, 1>>, <<3, 2>>}
    BY DEF Ports, Belts
  <1>2. /\ Peer[<<1, 1>>] = <<2, 1>> /\ Peer[<<2, 1>>] = <<1, 1>>
        /\ Peer[<<1, 2>>] = <<3, 2>> /\ Peer[<<3, 2>>] = <<1, 2>>
        /\ Peer[<<2, 2>>] = <<3, 1>> /\ Peer[<<3, 1>>] = <<2, 2>>
    BY <1>1 DEF Peer
  <1> QED BY <1>1, <1>2

\* The write of a packet fails for the ports of lost.
LEMMA FailIs ==
    ASSUME failures \in 0..MaxFailures, NEW lost \in SUBSET Ports, Fail(lost)
    PROVE  failures' \in 0..MaxFailures
  <1>1. IsFiniteSet(lost)
    <2>1. IsFiniteSet({1})
      BY FS_Singleton
    <2>2. IsFiniteSet({1} \cup {2})
      BY <2>1, FS_AddElement
    <2>3. IsFiniteSet(({1} \cup {2}) \cup {3})
      BY <2>2, FS_AddElement
    <2>4. {1, 2} = {1} \cup {2} /\ Belts = ({1} \cup {2}) \cup {3}
      BY DEF Belts
    <2>5. IsFiniteSet(Ports)
      BY <2>2, <2>3, <2>4, FS_Product DEF Ports
    <2> QED BY <2>5, FS_Subset
  <1>2. Cardinality(lost) \in Nat
    BY <1>1, FS_CardinalityType
  <1> QED BY <1>2, MaxFailuresAssumption DEF Fail

\* A packet is written to the lines of a belt, or some of them.
LEMMA BroadcastIs ==
    ASSUME lines \in [Ports -> Seq(Packets)], failures \in 0..MaxFailures, NEW b \in Belts,
           NEW typ \in PaketTyp, NEW lost \in SUBSET Hearing[b], Broadcast(b, typ, lost)
    PROVE  /\ lines' \in [Ports -> Seq(Packets)]
           /\ \A port \in Ports :
                  lines'[port] = IF Peer[port][1] = b /\ port \notin lost
                                 THEN Append(lines[port], Packet(typ)) ELSE lines[port]
           /\ failures' \in 0..MaxFailures
  <1>1. Hearing[b] = {port \in Ports : Peer[port][1] = b}
    BY DEF Hearing
  <1>2. Packet(typ) \in Packets
    BY DEF Packet, Packets, NoPuk
  <1>3. /\ lines' = [port \in Ports |-> IF port \in Hearing[b] \ lost
                                        THEN Append(lines[port], Packet(typ))
                                        ELSE lines[port]]
        /\ Fail(lost)
    BY DEF Broadcast
  <1>4. lines' \in [Ports -> Seq(Packets)]
    <2>1. ASSUME NEW port \in Ports
          PROVE  lines'[port] \in Seq(Packets)
      BY <1>2, <1>3
    <2> QED BY <1>3, <2>1
  <1>5. lost \in SUBSET Ports
    BY <1>1
  <1>6. failures' \in 0..MaxFailures
    BY <1>3, <1>5, FailIs
  <1> QED BY <1>1, <1>3, <1>4, <1>6

\* A packet is read from one line.
LEMMA ConsumedIs ==
    ASSUME NEW T, lines \in [Ports -> Seq(T)], NEW port \in Ports, lines[port] # <<>>
    PROVE  /\ Consumed(port) \in [Ports -> Seq(T)]
           /\ Consumed(port)[port] = Tail(lines[port])
           /\ \A other \in Ports \ {port} : Consumed(port)[other] = lines[other]
  <1>1. Tail(lines[port]) \in Seq(T)
    OBVIOUS
  <1> QED BY <1>1 DEF Consumed

-----------------------------------------------------------------------------
\* What is true of one line, from the belt whose button is followed to the
\* belt that follows it: own is the FSM there, f the one here, L what is on
\* the way.

\* A packet of a type is on the way.
Comes(L, typ) == \E k \in DOMAIN L : L[k].paket_typ = typ

\* Each press is told once, each release once.
OnceInv(L) ==
    \A typ \in {"ESTOP", "RELEASED"} : \A j, k \in DOMAIN L :
        L[j].paket_typ = typ /\ L[k].paket_typ = typ => j = k

\* The press comes first.
PressFirstInv(L) ==
    \A j, k \in DOMAIN L :
        L[j].paket_typ = "ESTOP" /\ L[k].paket_typ \in {"RELEASED", "RESET"} => j < k

\* The follower before the press, before the release, and after both.
FollowInv(own, f, L) ==
    /\ Comes(L, "ESTOP") => f = "Idle"
    /\ Comes(L, "RELEASED") /\ ~ Comes(L, "ESTOP") => f = "Full_stop"
    /\ ~ Comes(L, "ESTOP") /\ ~ Comes(L, "RELEASED") =>
           \/ f = own
           \/ Safe(own) /\ (Safe(f) \/ (f = "Estop_released" /\ Comes(L, "RESET")))

\* The RESET that counts is the one after the release.
ResetInv(own, L) ==
    /\ own = "Full_stop" => ~ Comes(L, "RELEASED")
    /\ Comes(L, "ESTOP") /\ ~ Comes(L, "RELEASED") => own = "Full_stop"
    /\ own # "Full_stop" =>
           \A j \in DOMAIN L : L[j].paket_typ = "RELEASED" =>
               (Safe(own) <=> \E k \in DOMAIN L : k > j /\ L[k].paket_typ = "RESET")
    /\ own = "Estop_released" /\ ~ Comes(L, "RELEASED") => ~ Comes(L, "RESET")

LinkInv(own, f, L) ==
    /\ own \in FsmStates /\ f \in FsmStates /\ L \in Seq(Packets)
    /\ OnceInv(L) /\ PressFirstInv(L)
    /\ FollowInv(own, f, L) /\ ResetInv(own, L)

\* A port that heard of the last press: its button's FSM took the press, too.
The(port) ==
    /\ LinkInv(Leader(port), Follower(port), lines[port])
    /\ Peer[port][1] \in pressed => Leader(port) = "Full_stop"

RingInv ==
    /\ lines \in [Ports -> Seq(Packets)] /\ failures \in 0..MaxFailures
    /\ fsm \in [Belts -> [1..3 -> FsmStates]]
    /\ pressed \subseteq Belts /\ presses \in Nat /\ heard \subseteq Ports
    /\ \A b \in Belts : fsm[b][Own] = "Full_stop" => b \in pressed
    /\ \A port \in heard : The(port)

\* What a packet adds to a line.
LEMMA ComesAppended ==
    ASSUME NEW L \in Seq(Packets), NEW e \in Packets
    PROVE  \A typ : Comes(Append(L, e), typ) <=> Comes(L, typ) \/ e.paket_typ = typ
  BY Appending DEF Comes

\* What a line loses with its first packet.
LEMMA ComesTail ==
    ASSUME NEW L \in Seq(Packets), L # <<>>
    PROVE  \A typ : Comes(L, typ) <=> Comes(Tail(L), typ) \/ Head(L).paket_typ = typ
  <1> DEFINE n == Len(L) - 1
  <1>1. /\ n \in Nat /\ DOMAIN L = 1..(n + 1) /\ DOMAIN Tail(L) = 1..n
        /\ \A k \in 1..n : Tail(L)[k] = L[k + 1]
        /\ Head(L) = L[1]
    BY TailElements
  <1> HIDE DEF n
  <1> TAKE typ
  <1>2. ASSUME Comes(L, typ)
        PROVE  Comes(Tail(L), typ) \/ Head(L).paket_typ = typ
    <2>1. PICK k \in 1..(n + 1) : L[k].paket_typ = typ
      BY <1>1, <1>2 DEF Comes
    <2>2. CASE k # 1
      <3>1. k - 1 \in 1..n /\ Tail(L)[k - 1] = L[k]
        BY <1>1, <2>2
      <3> QED BY <1>1, <2>1, <3>1 DEF Comes
    <2> QED BY <1>1, <2>1, <2>2
  <1>3. ASSUME Comes(Tail(L), typ)
        PROVE  Comes(L, typ)
    <2>1. PICK k \in 1..n : Tail(L)[k].paket_typ = typ
      BY <1>1, <1>3 DEF Comes
    <2>2. k + 1 \in DOMAIN L /\ L[k + 1] = Tail(L)[k]
      BY <1>1
    <2> QED BY <2>1, <2>2 DEF Comes
  <1>4. ASSUME Head(L).paket_typ = typ
        PROVE  Comes(L, typ)
    BY <1>1, <1>4 DEF Comes
  <1> QED BY <1>2, <1>3, <1>4

-----------------------------------------------------------------------------
\* What happens at the ends of a line.

\* A packet of one of the four types.
LEMMA PacketIs ==
    ASSUME NEW typ \in PaketTyp
    PROVE  Packet(typ) \in Packets /\ Packet(typ).paket_typ = typ
  BY DEF Packet, Packets, NoPuk

\* The button is pressed, and both FSMs take the press.
LEMMA LinkPress ==
    ASSUME NEW L \in Seq(Packets),
           ~ Comes(L, "ESTOP"), ~ Comes(L, "RELEASED"), ~ Comes(L, "RESET")
    PROVE  LinkInv("Full_stop", "Idle", Append(L, Packet("ESTOP")))
  <1> DEFINE e == Packet("ESTOP")
             r == Append(L, e)
             n == Len(L)
  <1>1. L \in Seq(Packets) /\ ~ Comes(L, "ESTOP") /\ ~ Comes(L, "RELEASED") /\ ~ Comes(L, "RESET")
    OBVIOUS
  <1>2. e \in Packets /\ e.paket_typ = "ESTOP"
    BY PacketIs DEF PaketTyp
  <1> HIDE DEF e
  <1>3. /\ r \in Seq(Packets) /\ n \in Nat /\ DOMAIN L = 1..n /\ DOMAIN r = 1..(n + 1)
        /\ r[n + 1].paket_typ = "ESTOP" /\ \A k \in 1..n : r[k] = L[k]
    BY <1>1, <1>2, Appending
  <1>4. /\ Comes(r, "ESTOP") /\ ~ Comes(r, "RELEASED") /\ ~ Comes(r, "RESET")
    BY <1>1, <1>2, ComesAppended
  <1> HIDE DEF r, n
  <1>5. \A k \in DOMAIN r : r[k].paket_typ = "ESTOP" => k = n + 1
    BY <1>1, <1>3 DEF Comes
  <1>6. OnceInv(r) /\ PressFirstInv(r)
    BY <1>3, <1>4, <1>5 DEF OnceInv, PressFirstInv, Comes
  <1>7. FollowInv("Full_stop", "Idle", r)
    BY <1>1, <1>4 DEF FollowInv
  <1>8. ResetInv("Full_stop", r)
    BY <1>4 DEF ResetInv
  <1> QED BY <1>1, <1>3, <1>6, <1>7, <1>8 DEF LinkInv, FsmStates, r, e

\* A packet that is neither ESTOP nor RELEASED leaves the order as it is.
LEMMA OrderAppended ==
    ASSUME NEW L \in Seq(Packets), NEW e \in Packets, OnceInv(L), PressFirstInv(L),
           e.paket_typ # "ESTOP",
           e.paket_typ = "RELEASED" => ~ Comes(L, "RELEASED")
    PROVE  OnceInv(Append(L, e)) /\ PressFirstInv(Append(L, e))
  <1> DEFINE r == Append(L, e)
             n == Len(L)
  <1>1. /\ n \in Nat /\ DOMAIN L = 1..n /\ DOMAIN r = 1..(n + 1)
        /\ r[n + 1] = e /\ \A k \in 1..n : r[k] = L[k]
    BY Appending
  <1> HIDE DEF r, n
  <1>2. OnceInv(r)
    <2> SUFFICES ASSUME NEW typ \in {"ESTOP", "RELEASED"},
                        NEW j \in 1..(n + 1), NEW k \in 1..(n + 1),
                        r[j].paket_typ = typ, r[k].paket_typ = typ
                 PROVE  j = k
      BY <1>1 DEF OnceInv
    <2>1. CASE j \in 1..n /\ k \in 1..n
      BY <1>1, <2>1 DEF OnceInv
    <2>2. CASE j = n + 1 /\ k \in 1..n
      BY <1>1, <2>2 DEF Comes
    <2>3. CASE j \in 1..n /\ k = n + 1
      BY <1>1, <2>3 DEF Comes
    <2> QED BY <1>1, <2>1, <2>2, <2>3
  <1>3. PressFirstInv(r)
    BY <1>1 DEF PressFirstInv
  <1> QED BY <1>2, <1>3 DEF r

\* The button is pulled out.
LEMMA LinkRelease ==
    ASSUME NEW f, NEW L, LinkInv("Full_stop", f, L)
    PROVE  LinkInv("Estop_released", f, Append(L, Packet("RELEASED")))
  <1> DEFINE e == Packet("RELEASED")
             r == Append(L, e)
             n == Len(L)
  <1>1. /\ L \in Seq(Packets) /\ f \in FsmStates /\ ~ Comes(L, "RELEASED")
        /\ OnceInv(L) /\ PressFirstInv(L) /\ FollowInv("Full_stop", f, L)
    BY DEF LinkInv, ResetInv
  <1>2. e \in Packets /\ e.paket_typ = "RELEASED"
    BY PacketIs DEF PaketTyp
  <1> HIDE DEF e
  <1>3. /\ r \in Seq(Packets) /\ n \in Nat /\ DOMAIN L = 1..n /\ DOMAIN r = 1..(n + 1)
        /\ r[n + 1].paket_typ = "RELEASED" /\ \A k \in 1..n : r[k] = L[k]
    BY <1>1, <1>2, Appending
  <1>4. Comes(r, "RELEASED") /\ (Comes(r, "ESTOP") <=> Comes(L, "ESTOP"))
    BY <1>1, <1>2, ComesAppended
  <1>5. OnceInv(r) /\ PressFirstInv(r)
    BY <1>1, <1>2, OrderAppended
  <1> HIDE DEF r, n
  <1>6. FollowInv("Estop_released", f, r)
    BY <1>1, <1>4 DEF FollowInv, Safe
  <1>7. ResetInv("Estop_released", r)
    BY <1>1, <1>3, <1>4 DEF ResetInv, Comes, Safe
  <1> QED BY <1>1, <1>3, <1>5, <1>6, <1>7 DEF LinkInv, FsmStates, r, e

\* RESET at the belt of the button.
LEMMA LinkReset ==
    ASSUME NEW own, NEW f, NEW L, LinkInv(own, f, L)
    PROVE  LinkInv(IF own = "Estop_released" THEN "Reset" ELSE own, f,
                   Append(L, Packet("RESET")))
  <1> DEFINE e == Packet("RESET")
             r == Append(L, e)
             n == Len(L)
             next == IF own = "Estop_released" THEN "Reset" ELSE own
  <1>1. /\ L \in Seq(Packets) /\ own \in FsmStates /\ f \in FsmStates
        /\ OnceInv(L) /\ PressFirstInv(L) /\ FollowInv(own, f, L)
        /\ ResetInv(own, L)
    BY DEF LinkInv
  <1>2. e \in Packets /\ e.paket_typ = "RESET"
    BY PacketIs DEF PaketTyp
  <1> HIDE DEF e
  <1>3. /\ r \in Seq(Packets) /\ n \in Nat /\ DOMAIN L = 1..n /\ DOMAIN r = 1..(n + 1)
        /\ r[n + 1].paket_typ = "RESET" /\ \A k \in 1..n : r[k] = L[k]
    BY <1>1, <1>2, Appending
  <1>4. /\ Comes(r, "RESET") /\ (Comes(r, "ESTOP") <=> Comes(L, "ESTOP"))
        /\ Comes(r, "RELEASED") <=> Comes(L, "RELEASED")
    BY <1>1, <1>2, ComesAppended
  <1>5. OnceInv(r) /\ PressFirstInv(r)
    BY <1>1, <1>2, OrderAppended
  <1> HIDE DEF r, n
  <1>6. FollowInv(next, f, r)
    BY <1>1, <1>4 DEF FollowInv, Safe
  <1>7. ResetInv(next, r)
    BY <1>1, <1>3, <1>4 DEF ResetInv, FsmStates, Safe
  <1>8. next \in FsmStates
    BY DEF FsmStates, LinkInv
  <1> QED BY <1>1, <1>3, <1>5, <1>6, <1>7, <1>8 DEF LinkInv, r, e

\* START at the belt of the button.
LEMMA LinkStart ==
    ASSUME NEW own, NEW f, NEW L, LinkInv(own, f, L)
    PROVE  LinkInv(own, f, Append(L, Packet("START")))
  <1> DEFINE e == Packet("START")
             r == Append(L, e)
             n == Len(L)
  <1>1. /\ L \in Seq(Packets) /\ own \in FsmStates /\ f \in FsmStates
        /\ OnceInv(L) /\ PressFirstInv(L) /\ FollowInv(own, f, L)
        /\ ResetInv(own, L)
    BY DEF LinkInv
  <1>2. e \in Packets /\ e.paket_typ = "START"
    BY PacketIs DEF PaketTyp
  <1> HIDE DEF e
  <1>3. /\ r \in Seq(Packets) /\ n \in Nat /\ DOMAIN L = 1..n /\ DOMAIN r = 1..(n + 1)
        /\ r[n + 1].paket_typ = "START" /\ \A k \in 1..n : r[k] = L[k]
    BY <1>1, <1>2, Appending
  <1>4. /\ Comes(r, "RESET") <=> Comes(L, "RESET")
        /\ Comes(r, "ESTOP") <=> Comes(L, "ESTOP")
        /\ Comes(r, "RELEASED") <=> Comes(L, "RELEASED")
    BY <1>1, <1>2, ComesAppended
  <1>5. OnceInv(r) /\ PressFirstInv(r)
    BY <1>1, <1>2, OrderAppended
  <1> HIDE DEF r, n
  <1>6. FollowInv(own, f, r)
    BY <1>1, <1>4 DEF FollowInv
  <1>7. ResetInv(own, r)
    BY <1>1, <1>3, <1>4 DEF ResetInv
  <1> QED BY <1>1, <1>3, <1>4, <1>5, <1>6, <1>7 DEF LinkInv, r, e

\* START lets an FSM that was reset go back to idle, at either end.
LEMMA LinkRestart ==
    ASSUME NEW own, NEW f, NEW L, LinkInv(own, f, L)
    PROVE  /\ Safe(own) => LinkInv("Idle", f, L)
           /\ Safe(f) => LinkInv(own, "Idle", L)
  <1>1. Safe(own) => LinkInv("Idle", f, L)
    BY DEF LinkInv, FsmStates, Safe, FollowInv, ResetInv
  <1>2. Safe(f) => LinkInv(own, "Idle", L)
    BY DEF LinkInv, FsmStates, Safe, FollowInv
  <1> QED BY <1>1, <1>2

\* What the follower makes of a packet.
Heard(f, typ) ==
    CASE typ = "ESTOP" /\ f = "Idle" -> "Full_stop"
      [] typ = "RELEASED" /\ f = "Full_stop" -> "Estop_released"
      [] typ = "RESET" /\ f = "Estop_released" -> "Reset"
      [] OTHER -> f

\* The line without its first packet: the order of the others, and the RESET
\* after a RELEASED that is still to come.
LEMMA OrderTail ==
    ASSUME NEW L \in Seq(Packets), L # <<>>, NEW own,
           OnceInv(L), PressFirstInv(L), ResetInv(own, L)
    PROVE  /\ OnceInv(Tail(L)) /\ PressFirstInv(Tail(L))
           /\ Head(L).paket_typ \in {"ESTOP", "RELEASED"} => ~ Comes(Tail(L), Head(L).paket_typ)
           /\ Head(L).paket_typ \in {"RELEASED", "RESET"} => ~ Comes(L, "ESTOP")
           /\ own # "Full_stop" =>
                 \A j \in DOMAIN Tail(L) : Tail(L)[j].paket_typ = "RELEASED" =>
                     (Safe(own) <=> \E k \in DOMAIN Tail(L) :
                                        k > j /\ Tail(L)[k].paket_typ = "RESET")
           /\ own # "Full_stop" /\ Head(L).paket_typ = "RELEASED" =>
                 (Safe(own) <=> Comes(Tail(L), "RESET"))
  <1> DEFINE r == Tail(L)
             n == Len(L) - 1
             typ == Head(L).paket_typ
  <1>1. /\ n \in Nat /\ DOMAIN L = 1..(n + 1) /\ DOMAIN r = 1..n
        /\ \A k \in 1..n : r[k] = L[k + 1]
        /\ typ = L[1].paket_typ
    BY TailElements
  <1> HIDE DEF r, n, typ
  <1>2. \A k \in 1..n : k + 1 \in 1..(n + 1) /\ k + 1 # 1
    BY <1>1
  <1>3. OnceInv(r)
    <2> SUFFICES ASSUME NEW t \in {"ESTOP", "RELEASED"}, NEW j \in 1..n, NEW k \in 1..n,
                        r[j].paket_typ = t, r[k].paket_typ = t
                 PROVE  j = k
      BY <1>1 DEF OnceInv
    <2>1. j + 1 = k + 1
      BY <1>1, <1>2 DEF OnceInv
    <2> QED BY <2>1, <1>1
  <1>4. PressFirstInv(r)
    <2> SUFFICES ASSUME NEW j \in 1..n, NEW k \in 1..n, r[j].paket_typ = "ESTOP",
                        r[k].paket_typ \in {"RELEASED", "RESET"}
                 PROVE  j < k
      BY <1>1 DEF PressFirstInv
    <2>1. j + 1 < k + 1
      BY <1>1, <1>2 DEF PressFirstInv
    <2> QED BY <2>1, <1>1
  <1>5. typ \in {"ESTOP", "RELEASED"} => ~ Comes(r, typ)
    <2> SUFFICES ASSUME typ \in {"ESTOP", "RELEASED"}, NEW k \in 1..n,
                        r[k].paket_typ = typ
                 PROVE  FALSE
      BY <1>1 DEF Comes
    <2>1. 1 \in DOMAIN L /\ k + 1 \in DOMAIN L /\ L[k + 1].paket_typ = typ
      BY <1>1
    <2>2. 1 = k + 1
      BY <1>1, <2>1 DEF OnceInv
    <2> QED BY <1>2, <2>2
  <1>6. typ \in {"RELEASED", "RESET"} => ~ Comes(L, "ESTOP")
    <2> SUFFICES ASSUME typ \in {"RELEASED", "RESET"}, NEW j \in 1..(n + 1),
                        L[j].paket_typ = "ESTOP"
                 PROVE  FALSE
      BY <1>1 DEF Comes
    <2>1. 1 \in DOMAIN L /\ j \in DOMAIN L /\ L[1].paket_typ \in {"RELEASED", "RESET"}
      BY <1>1
    <2>2. j < 1
      BY <2>1 DEF PressFirstInv
    <2> QED BY <1>1, <2>2
  <1>7. ASSUME own # "Full_stop", NEW j \in 1..n, r[j].paket_typ = "RELEASED"
        PROVE  Safe(own) <=> \E k \in 1..n : k > j /\ r[k].paket_typ = "RESET"
    <2>1. j + 1 \in DOMAIN L /\ L[j + 1].paket_typ = "RELEASED"
      BY <1>1, <1>7
    <2>2. Safe(own) <=> \E k \in DOMAIN L : k > j + 1 /\ L[k].paket_typ = "RESET"
      BY <1>7, <2>1 DEF ResetInv
    <2>3. ASSUME NEW k \in DOMAIN L, k > j + 1, L[k].paket_typ = "RESET"
          PROVE  \E m \in 1..n : m > j /\ r[m].paket_typ = "RESET"
      <3>1. k - 1 \in 1..n /\ k - 1 > j /\ r[k - 1] = L[k]
        BY <1>1, <2>3
      <3> QED BY <2>3, <3>1
    <2>4. ASSUME NEW m \in 1..n, m > j, r[m].paket_typ = "RESET"
          PROVE  \E k \in DOMAIN L : k > j + 1 /\ L[k].paket_typ = "RESET"
      <3>1. m + 1 \in DOMAIN L /\ m + 1 > j + 1 /\ L[m + 1] = r[m]
        BY <1>1, <2>4
      <3> QED BY <2>4, <3>1
    <2> QED BY <2>2, <2>3, <2>4
  <1>8. ASSUME own # "Full_stop", typ = "RELEASED"
        PROVE  Safe(own) <=> Comes(r, "RESET")
    <2>1. Safe(own) <=> \E k \in DOMAIN L : k > 1 /\ L[k].paket_typ = "RESET"
      <3>1. 1 \in DOMAIN L /\ L[1].paket_typ = "RELEASED"
        BY <1>1, <1>8
      <3> QED BY <1>8, <3>1 DEF ResetInv
    <2>2. ASSUME NEW k \in DOMAIN L, k > 1, L[k].paket_typ = "RESET"
          PROVE  Comes(r, "RESET")
      <3>1. k - 1 \in 1..n /\ r[k - 1] = L[k]
        BY <1>1, <2>2
      <3> QED BY <1>1, <2>2, <3>1 DEF Comes
    <2>3. ASSUME NEW m \in 1..n, r[m].paket_typ = "RESET"
          PROVE  \E k \in DOMAIN L : k > 1 /\ L[k].paket_typ = "RESET"
      <3>1. m + 1 \in DOMAIN L /\ m + 1 > 1 /\ L[m + 1] = r[m]
        BY <1>1, <2>3
      <3> QED BY <2>3, <3>1
    <2> QED BY <1>1, <2>1, <2>2, <2>3 DEF Comes
  <1> QED BY <1>1, <1>3, <1>4, <1>5, <1>6, <1>7, <1>8 DEF r, typ

\* The receiving thread takes a packet from the line.
LEMMA LinkHear ==
    ASSUME NEW own, NEW f, NEW L, LinkInv(own, f, L), L # <<>>
    PROVE  LinkInv(own, Heard(f, Head(L).paket_typ), Tail(L))
  <1> DEFINE r == Tail(L)
             typ == Head(L).paket_typ
             t == Heard(f, typ)
  <1>1. /\ L \in Seq(Packets) /\ own \in FsmStates /\ f \in FsmStates
        /\ OnceInv(L) /\ PressFirstInv(L) /\ FollowInv(own, f, L)
        /\ ResetInv(own, L)
    BY DEF LinkInv
  <1>2. r \in Seq(Packets) /\ typ \in PaketTyp
    <2>1. r \in Seq(Packets) /\ Head(L) \in Packets
      BY <1>1, TailElements
    <2> QED BY <2>1 DEF Packets
  <1>3. \A u : Comes(L, u) <=> Comes(r, u) \/ typ = u
    BY <1>1, ComesTail
  <1>4. /\ OnceInv(r) /\ PressFirstInv(r)
        /\ typ \in {"ESTOP", "RELEASED"} => ~ Comes(r, typ)
        /\ typ \in {"RELEASED", "RESET"} => ~ Comes(L, "ESTOP")
        /\ own # "Full_stop" =>
              \A j \in DOMAIN r : r[j].paket_typ = "RELEASED" =>
                  (Safe(own) <=> \E k \in DOMAIN r : k > j /\ r[k].paket_typ = "RESET")
        /\ own # "Full_stop" /\ typ = "RELEASED" => (Safe(own) <=> Comes(r, "RESET"))
    BY <1>1, OrderTail
  <1>5. t \in FsmStates
    BY <1>1 DEF Heard, FsmStates
  <1>6. /\ typ = "ESTOP" => f = "Idle" /\ t = "Full_stop"
        /\ typ = "RELEASED" => f = "Full_stop" /\ t = "Estop_released"
        /\ typ = "RESET" => t = IF f = "Estop_released" THEN "Reset" ELSE f
        /\ typ \notin {"ESTOP", "RELEASED", "RESET"} => t = f
    BY <1>1, <1>3, <1>4 DEF FollowInv, Heard
  <1> HIDE DEF r, typ, t
  <1>7. ResetInv(own, r)
    BY <1>1, <1>3, <1>4 DEF ResetInv, FsmStates, Safe
  <1>8. FollowInv(own, t, r)
    <2>1. CASE typ = "ESTOP"
      BY <1>1, <1>3, <1>4, <1>6, <2>1 DEF FollowInv, ResetInv
    <2>2. CASE typ = "RELEASED"
      BY <1>1, <1>3, <1>4, <1>6, <2>2 DEF FollowInv, ResetInv, FsmStates, Safe
    <2>3. CASE typ = "RESET"
      BY <1>1, <1>3, <1>4, <1>6, <2>3 DEF FollowInv, ResetInv, FsmStates, Safe
    <2>4. CASE typ \notin {"ESTOP", "RELEASED", "RESET"}
      BY <1>1, <1>3, <1>6, <2>4 DEF FollowInv
    <2> QED BY <2>1, <2>2, <2>3, <2>4
  <1> QED BY <1>1, <1>2, <1>3, <1>4, <1>5, <1>7, <1>8 DEF LinkInv, r, t, typ

-----------------------------------------------------------------------------
\* The steps.

\* A line goes from one belt to another; its follower is not the FSM of the
\* belt's own button, and no two lines have the same follower.
LEMMA LineEnds ==
    /\ \A port \in Ports :
          /\ Peer[port][1] \in Belts /\ port[1] \in Belts /\ Peer[port][1] # port[1]
          /\ System(port[2]) \in {2, 3}
    /\ \A port, other \in Ports :
          port[1] = other[1] /\ System(port[2]) = System(other[2]) => port = other
  BY PeerIs DEF System, Belts

\* No other FSM moves.
OnlyMoves(b, n) == \A c \in Belts, m \in 1..3 : c # b \/ m # n => fsm'[c][m] = fsm[c][m]

\* One FSM moves, if it is in the state the transition starts from.
LEMMA MoveIs ==
    ASSUME fsm \in [Belts -> [1..3 -> FsmStates]], NEW b \in Belts, NEW n \in 1..3,
           NEW s \in FsmStates, NEW t \in FsmStates, Move(b, n, s, t)
    PROVE  /\ fsm' \in [Belts -> [1..3 -> FsmStates]]
           /\ fsm'[b][n] = IF fsm[b][n] = s THEN t ELSE fsm[b][n]
           /\ OnlyMoves(b, n)
  <1>1. CASE fsm[b][n] = s
    <2>1. fsm' = [fsm EXCEPT ![b] = [fsm[b] EXCEPT ![n] = t]]
      BY <1>1 DEF Move
    <2>2. [fsm[b] EXCEPT ![n] = t] \in [1..3 -> FsmStates]
      OBVIOUS
    <2> QED BY <1>1, <2>1, <2>2 DEF OnlyMoves
  <1>2. CASE fsm[b][n] # s
    BY <1>2 DEF Move, OnlyMoves
  <1> QED BY <1>1, <1>2

\* START moves FSMs that are safe, to Idle.
LEMMA RestartIs ==
    ASSUME fsm \in [Belts -> [1..3 -> FsmStates]], NEW b \in Belts, Restart(b)
    PROVE  /\ fsm' \in [Belts -> [1..3 -> FsmStates]]
           /\ \A c \in Belts, m \in 1..3 :
                 \/ fsm'[c][m] = fsm[c][m]
                 \/ c = b /\ Safe(fsm[c][m]) /\ fsm'[c][m] = "Idle"
  <1>1. CASE \A n \in 1..3 : fsm[b][n] \in {"Idle", "Reset"}
    <2>1. fsm' = [fsm EXCEPT ![b] = [n \in 1..3 |-> "Idle"]]
      BY <1>1 DEF Restart
    <2>2. [n \in 1..3 |-> "Idle"] \in [1..3 -> FsmStates]
      BY DEF FsmStates
    <2> QED BY <1>1, <2>1, <2>2 DEF Safe
  <1>2. CASE ~ \A n \in 1..3 : fsm[b][n] \in {"Idle", "Reset"}
    BY <1>2 DEF Restart
  <1> QED BY <1>1, <1>2

\* The FSMs at the ends of a line, when one FSM moves.
LEMMA EndsMove ==
    ASSUME fsm \in [Belts -> [1..3 -> FsmStates]], NEW b \in Belts, NEW n \in 1..3,
           OnlyMoves(b, n),
           NEW port \in Ports
    PROVE  /\ Leader(port)' = fsm'[Peer[port][1]][Own]
           /\ Follower(port)' = fsm'[port[1]][System(port[2])]
           /\ b # Peer[port][1] \/ n # Own => Leader(port)' = Leader(port)
           /\ b # port[1] \/ n # System(port[2]) => Follower(port)' = Follower(port)
  <1>1. /\ Peer[port][1] \in Belts /\ port[1] \in Belts
        /\ Own \in 1..3 /\ System(port[2]) \in 1..3
    BY LineEnds DEF Own
  <1> QED BY <1>1 DEF Leader, Follower, OnlyMoves

\* START at b is harmless to a line whose packets stay.
LEMMA LinkRestartStep ==
    ASSUME RingInv, NEW b \in Belts, Restart(b), NEW port \in heard
    PROVE  /\ LinkInv(Leader(port)', Follower(port)', lines[port])
           /\ Peer[port][1] \in pressed => Leader(port)' = "Full_stop"
  <1> DEFINE own == Leader(port)
             f == Follower(port)
             ownNext == Leader(port)'
             fNext == Follower(port)'
             L == lines[port]
  <1>1. LinkInv(own, f, L) /\ (Peer[port][1] \in pressed => own = "Full_stop")
    BY DEF RingInv, The
  <1>2. /\ port \in Ports /\ Peer[port][1] \in Belts /\ port[1] \in Belts
        /\ Own \in 1..3 /\ System(port[2]) \in 1..3
    BY LineEnds DEF Own, RingInv
  <1>3. fsm \in [Belts -> [1..3 -> FsmStates]]
    BY DEF RingInv
  <1>4. /\ ownNext = own \/ (Safe(own) /\ ownNext = "Idle")
        /\ fNext = f \/ (Safe(f) /\ fNext = "Idle")
    BY <1>2, <1>3, RestartIs DEF Leader, Follower
  <1> HIDE DEF own, f, ownNext, fNext, L
  <1>5. LinkInv(ownNext, f, L)
    BY <1>1, <1>4, LinkRestart
  <1>6. LinkInv(ownNext, fNext, L)
    BY <1>4, <1>5, LinkRestart
  <1>7. Peer[port][1] \in pressed => ownNext = "Full_stop"
    BY <1>1, <1>4 DEF Safe
  <1> QED BY <1>6, <1>7 DEF ownNext, fNext, L

\* A button is pressed.
LEMMA PressStep ==
    ASSUME RingInv, NEW b \in Belts, ESTOP_THIS(b)
    PROVE  RingInv'
  <1>1. PICK lost \in SUBSET Hearing[b] :
           /\ b \notin pressed /\ pressed' = pressed \cup {b} /\ presses' = presses + 1
           /\ Move(b, Own, "Idle", "Full_stop") /\ Broadcast(b, "ESTOP", lost)
           /\ heard' = (heard \ Hearing[b])
                       \cup {port \in Hearing[b] \ lost : TakesPress(port)}
    BY DEF ESTOP_THIS
  <1>2. /\ lines \in [Ports -> Seq(Packets)] /\ failures \in 0..MaxFailures
        /\ fsm \in [Belts -> [1..3 -> FsmStates]]
        /\ pressed \subseteq Belts /\ presses \in Nat /\ heard \subseteq Ports
        /\ \A c \in Belts : fsm[c][Own] = "Full_stop" => c \in pressed
        /\ \A port \in heard : The(port)
    BY DEF RingInv
  <1>3. "ESTOP" \in PaketTyp /\ Own \in 1..3 /\ "Idle" \in FsmStates /\ "Full_stop" \in FsmStates
    BY DEF PaketTyp, Own, FsmStates
  <1>4. /\ lines' \in [Ports -> Seq(Packets)] /\ failures' \in 0..MaxFailures
        /\ \A port \in Ports :
               lines'[port] = IF Peer[port][1] = b /\ port \notin lost
                              THEN Append(lines[port], Packet("ESTOP")) ELSE lines[port]
    BY <1>1, <1>2, <1>3, BroadcastIs
  <1>5. /\ fsm' \in [Belts -> [1..3 -> FsmStates]]
        /\ fsm'[b][Own] = IF fsm[b][Own] = "Idle" THEN "Full_stop" ELSE fsm[b][Own]
        /\ OnlyMoves(b, Own)
    BY <1>1, <1>2, <1>3, MoveIs
  <1>6. Hearing[b] = {port \in Ports : Peer[port][1] = b}
    BY DEF Hearing
  <1>7. ASSUME NEW port \in heard'
        PROVE  The(port)'
    <2>1. port \in Ports /\ System(port[2]) # Own
      BY <1>1, <1>2, <1>6, LineEnds DEF Own
    <2>2. /\ Leader(port)' = fsm'[Peer[port][1]][Own]
          /\ b # Peer[port][1] => Leader(port)' = Leader(port)
          /\ Follower(port)' = Follower(port)
      BY <1>2, <1>3, <1>5, <2>1, EndsMove
    <2>3. CASE Peer[port][1] = b
      <3>1. port \notin lost /\ TakesPress(port)
        BY <1>1, <1>6, <2>1, <2>3
      <3>2. /\ Leader(port) = "Idle" /\ Follower(port) = "Idle"
            /\ lines[port] \in Seq(Packets) /\ ~ Comes(lines[port], "ESTOP")
            /\ ~ Comes(lines[port], "RELEASED") /\ ~ Comes(lines[port], "RESET")
        BY <1>2, <2>1, <3>1 DEF TakesPress, NoneOnTheWay, Comes
      <3>3. LinkInv("Full_stop", "Idle", Append(lines[port], Packet("ESTOP")))
        BY <3>2, LinkPress
      <3>4. Leader(port)' = "Full_stop"
        BY <1>5, <2>2, <2>3, <3>2 DEF Leader
      <3>5. lines'[port] = Append(lines[port], Packet("ESTOP"))
        BY <1>4, <2>1, <2>3, <3>1
      <3> QED BY <2>2, <3>2, <3>3, <3>4, <3>5 DEF The
    <2>4. CASE Peer[port][1] # b
      <3>1. /\ port \in heard /\ lines'[port] = lines[port]
            /\ Peer[port][1] \in pressed' => Peer[port][1] \in pressed
        BY <1>1, <1>4, <1>6, <2>1, <2>4
      <3> QED BY <1>2, <2>2, <2>4, <3>1 DEF The
    <2> QED BY <2>3, <2>4
  <1>8. /\ \A c \in Belts : fsm'[c][Own] = "Full_stop" => c \in pressed'
        /\ pressed' \subseteq Belts /\ presses' \in Nat /\ heard' \subseteq Ports
    BY <1>1, <1>2, <1>3, <1>5, <1>6 DEF OnlyMoves
  <1> QED BY <1>4, <1>5, <1>7, <1>8 DEF RingInv

\* A button is pulled out.
LEMMA ReleaseStep ==
    ASSUME RingInv, NEW b \in Belts, ESTOP_RELEASED_THIS(b)
    PROVE  RingInv'
  <1>1. PICK lost \in SUBSET Hearing[b] :
           /\ b \in pressed /\ pressed' = pressed \ {b} /\ presses' = presses
           /\ Move(b, Own, "Full_stop", "Estop_released")
           /\ Broadcast(b, "RELEASED", lost) /\ heard' = heard \ lost
    BY DEF ESTOP_RELEASED_THIS
  <1>2. /\ lines \in [Ports -> Seq(Packets)] /\ failures \in 0..MaxFailures
        /\ fsm \in [Belts -> [1..3 -> FsmStates]]
        /\ pressed \subseteq Belts /\ presses \in Nat /\ heard \subseteq Ports
        /\ \A c \in Belts : fsm[c][Own] = "Full_stop" => c \in pressed
        /\ \A port \in heard : The(port)
    BY DEF RingInv
  <1>3. /\ "RELEASED" \in PaketTyp /\ Own \in 1..3
        /\ "Full_stop" \in FsmStates /\ "Estop_released" \in FsmStates
    BY DEF PaketTyp, Own, FsmStates
  <1>4. /\ lines' \in [Ports -> Seq(Packets)] /\ failures' \in 0..MaxFailures
        /\ \A port \in Ports :
               lines'[port] = IF Peer[port][1] = b /\ port \notin lost
                              THEN Append(lines[port], Packet("RELEASED")) ELSE lines[port]
    BY <1>1, <1>2, <1>3, BroadcastIs
  <1>5. /\ fsm' \in [Belts -> [1..3 -> FsmStates]]
        /\ fsm'[b][Own] = IF fsm[b][Own] = "Full_stop" THEN "Estop_released" ELSE fsm[b][Own]
        /\ OnlyMoves(b, Own)
    BY <1>1, <1>2, <1>3, MoveIs
  <1>6. ASSUME NEW port \in heard'
        PROVE  The(port)'
    <2>1. /\ port \in Ports /\ port \in heard /\ port \notin lost
          /\ System(port[2]) # Own
      BY <1>1, <1>2, LineEnds DEF Own
    <2>2. /\ Leader(port)' = fsm'[Peer[port][1]][Own]
          /\ b # Peer[port][1] => Leader(port)' = Leader(port)
          /\ Follower(port)' = Follower(port)
      BY <1>2, <1>3, <1>5, <2>1, EndsMove
    <2>3. CASE Peer[port][1] = b
      <3>1. /\ Leader(port) = "Full_stop"
            /\ LinkInv(Leader(port), Follower(port), lines[port])
        BY <1>1, <1>2, <2>1, <2>3 DEF The
      <3>2. LinkInv("Full_stop", Follower(port), lines[port])
        BY <3>1
      <3>3. LinkInv("Estop_released", Follower(port), Append(lines[port], Packet("RELEASED")))
        BY <3>2, LinkRelease
      <3>4. Leader(port)' = "Estop_released"
        BY <1>5, <2>2, <2>3, <3>1 DEF Leader
      <3>5. lines'[port] = Append(lines[port], Packet("RELEASED"))
        BY <1>4, <2>1, <2>3
      <3>6. Peer[port][1] \notin pressed'
        BY <1>1, <2>3
      <3> QED BY <2>2, <3>3, <3>4, <3>5, <3>6 DEF The
    <2>4. CASE Peer[port][1] # b
      <3>1. /\ lines'[port] = lines[port]
            /\ Peer[port][1] \in pressed' => Peer[port][1] \in pressed
        BY <1>1, <1>4, <2>1, <2>4
      <3> QED BY <1>2, <2>1, <2>2, <2>4, <3>1 DEF The
    <2> QED BY <2>3, <2>4
  <1>7. /\ \A c \in Belts : fsm'[c][Own] = "Full_stop" => c \in pressed'
        /\ pressed' \subseteq Belts /\ presses' \in Nat /\ heard' \subseteq Ports
    BY <1>1, <1>2, <1>3, <1>5 DEF OnlyMoves
  <1> QED BY <1>4, <1>5, <1>6, <1>7 DEF RingInv

\* RESET is pressed at belt b.
LEMMA ResetStep ==
    ASSUME RingInv, NEW b \in Belts, BUTTON_RESET(b)
    PROVE  RingInv'
  <1>1. PICK lost \in SUBSET Hearing[b] :
           /\ pressed' = pressed /\ presses' = presses
           /\ Move(b, Own, "Estop_released", "Reset")
           /\ Broadcast(b, "RESET", lost) /\ heard' = heard \ lost
    BY DEF BUTTON_RESET
  <1>2. /\ lines \in [Ports -> Seq(Packets)] /\ failures \in 0..MaxFailures
        /\ fsm \in [Belts -> [1..3 -> FsmStates]]
        /\ pressed \subseteq Belts /\ presses \in Nat /\ heard \subseteq Ports
        /\ \A c \in Belts : fsm[c][Own] = "Full_stop" => c \in pressed
        /\ \A port \in heard : The(port)
    BY DEF RingInv
  <1>3. /\ "RESET" \in PaketTyp /\ Own \in 1..3
        /\ "Reset" \in FsmStates /\ "Estop_released" \in FsmStates
    BY DEF PaketTyp, Own, FsmStates
  <1>4. /\ lines' \in [Ports -> Seq(Packets)] /\ failures' \in 0..MaxFailures
        /\ \A port \in Ports :
               lines'[port] = IF Peer[port][1] = b /\ port \notin lost
                              THEN Append(lines[port], Packet("RESET")) ELSE lines[port]
    BY <1>1, <1>2, <1>3, BroadcastIs
  <1>5. /\ fsm' \in [Belts -> [1..3 -> FsmStates]]
        /\ fsm'[b][Own] = IF fsm[b][Own] = "Estop_released" THEN "Reset" ELSE fsm[b][Own]
        /\ OnlyMoves(b, Own)
    BY <1>1, <1>2, <1>3, MoveIs
  <1>6. ASSUME NEW port \in heard'
        PROVE  The(port)'
    <2>1. /\ port \in Ports /\ port \in heard /\ port \notin lost
          /\ System(port[2]) # Own
      BY <1>1, <1>2, LineEnds DEF Own
    <2>2. /\ Leader(port)' = fsm'[Peer[port][1]][Own]
          /\ b # Peer[port][1] => Leader(port)' = Leader(port)
          /\ Follower(port)' = Follower(port)
      BY <1>2, <1>3, <1>5, <2>1, EndsMove
    <2>3. /\ LinkInv(Leader(port), Follower(port), lines[port])
          /\ Peer[port][1] \in pressed => Leader(port) = "Full_stop"
      BY <1>2, <2>1 DEF The
    <2>4. CASE Peer[port][1] = b
      <3>1. LinkInv(IF Leader(port) = "Estop_released" THEN "Reset" ELSE Leader(port),
                    Follower(port), Append(lines[port], Packet("RESET")))
        BY <2>3, LinkReset
      <3>2. Leader(port)' = IF Leader(port) = "Estop_released" THEN "Reset" ELSE Leader(port)
        BY <1>5, <2>2, <2>4 DEF Leader
      <3>3. lines'[port] = Append(lines[port], Packet("RESET"))
        BY <1>4, <2>1, <2>4
      <3>4. Peer[port][1] \in pressed' => Leader(port)' = "Full_stop"
        BY <1>1, <2>3, <3>2
      <3> QED BY <2>2, <3>1, <3>2, <3>3, <3>4 DEF The
    <2>5. CASE Peer[port][1] # b
      <3>1. lines'[port] = lines[port] /\ pressed' = pressed
        BY <1>1, <1>4, <2>1, <2>5
      <3> QED BY <2>2, <2>3, <2>5, <3>1 DEF The
    <2> QED BY <2>4, <2>5
  <1>7. /\ \A c \in Belts : fsm'[c][Own] = "Full_stop" => c \in pressed'
        /\ pressed' \subseteq Belts /\ presses' \in Nat /\ heard' \subseteq Ports
    BY <1>1, <1>2, <1>3, <1>5 DEF OnlyMoves
  <1> QED BY <1>4, <1>5, <1>6, <1>7 DEF RingInv

\* The part of the invariant that is about buttons, when an FSM restarts.
LEMMA ButtonsRestart ==
    ASSUME RingInv, NEW b \in Belts, Restart(b), UNCHANGED <<pressed, presses, heard>>
    PROVE  /\ fsm' \in [Belts -> [1..3 -> FsmStates]]
           /\ \A c \in Belts : fsm'[c][Own] = "Full_stop" => c \in pressed'
           /\ pressed' \subseteq Belts /\ presses' \in Nat /\ heard' \subseteq Ports
  <1>1. /\ fsm \in [Belts -> [1..3 -> FsmStates]]
        /\ pressed \subseteq Belts /\ presses \in Nat /\ heard \subseteq Ports
        /\ \A c \in Belts : fsm[c][Own] = "Full_stop" => c \in pressed
    BY DEF RingInv
  <1>2. Own \in 1..3
    BY DEF Own
  <1>3. /\ fsm' \in [Belts -> [1..3 -> FsmStates]]
        /\ \A c \in Belts : fsm'[c][Own] = fsm[c][Own] \/ fsm'[c][Own] = "Idle"
    BY <1>1, <1>2, RestartIs
  <1> QED BY <1>1, <1>3

\* START is pressed at belt b.
LEMMA StartStep ==
    ASSUME RingInv, NEW b \in Belts, BUTTON_START(b)
    PROVE  RingInv'
  <1>1. PICK lost \in SUBSET Hearing[b] :
           /\ Restart(b) /\ Broadcast(b, "START", lost)
           /\ pressed' = pressed /\ presses' = presses /\ heard' = heard
    BY DEF BUTTON_START
  <1>2. /\ lines \in [Ports -> Seq(Packets)] /\ failures \in 0..MaxFailures
        /\ "START" \in PaketTyp /\ heard \subseteq Ports
    BY DEF RingInv, PaketTyp
  <1>3. /\ lines' \in [Ports -> Seq(Packets)] /\ failures' \in 0..MaxFailures
        /\ \A port \in Ports :
               lines'[port] = IF Peer[port][1] = b /\ port \notin lost
                              THEN Append(lines[port], Packet("START")) ELSE lines[port]
    BY <1>1, <1>2, BroadcastIs
  <1>4. ASSUME NEW port \in heard'
        PROVE  The(port)'
    <2> DEFINE own == Leader(port)'
               f == Follower(port)'
    <2>1. port \in heard /\ port \in Ports
      BY <1>1, <1>2
    <2>2. LinkInv(own, f, lines[port]) /\ (Peer[port][1] \in pressed => own = "Full_stop")
      BY <1>1, <2>1, LinkRestartStep
    <2> HIDE DEF own, f
    <2>3. LinkInv(own, f, Append(lines[port], Packet("START")))
      BY <2>2, LinkStart
    <2>4. LinkInv(own, f, lines'[port])
      BY <1>3, <2>1, <2>2, <2>3
    <2> QED BY <1>1, <2>2, <2>4 DEF The, own, f
  <1>5. /\ fsm' \in [Belts -> [1..3 -> FsmStates]]
        /\ \A c \in Belts : fsm'[c][Own] = "Full_stop" => c \in pressed'
        /\ pressed' \subseteq Belts /\ presses' \in Nat /\ heard' \subseteq Ports
    BY <1>1, ButtonsRestart
  <1> QED BY <1>3, <1>4, <1>5 DEF RingInv

\* A packet is read from a line.
LEMMA HearStep ==
    ASSUME RingInv, NEW port \in Ports, HearStop(port)
    PROVE  RingInv'
  <1> DEFINE b == port[1]
             n == System(port[2])
             typ == Head(lines[port]).paket_typ
  <1>1. /\ \/ typ = "ESTOP" /\ Move(b, n, "Idle", "Full_stop")
           \/ typ = "RELEASED" /\ Move(b, n, "Full_stop", "Estop_released")
           \/ typ = "RESET" /\ Move(b, n, "Estop_released", "Reset")
           \/ typ = "START" /\ Restart(b)
        /\ lines[port] # <<>> /\ lines' = Consumed(port)
        /\ failures' = failures /\ pressed' = pressed /\ presses' = presses /\ heard' = heard
    BY DEF HearStop, Arrives
  <1>2. /\ lines \in [Ports -> Seq(Packets)] /\ failures \in 0..MaxFailures
        /\ fsm \in [Belts -> [1..3 -> FsmStates]]
        /\ pressed \subseteq Belts /\ presses \in Nat /\ heard \subseteq Ports
        /\ \A c \in Belts : fsm[c][Own] = "Full_stop" => c \in pressed
        /\ \A other \in heard : The(other)
    BY DEF RingInv
  <1>3. /\ b \in Belts /\ n \in 1..3 /\ n # Own /\ Own \in 1..3
    BY LineEnds DEF Own
  <1>4. /\ lines' \in [Ports -> Seq(Packets)] /\ lines'[port] = Tail(lines[port])
        /\ \A other \in Ports \ {port} : lines'[other] = lines[other]
    BY <1>1, <1>2, ConsumedIs
  <1> HIDE DEF typ
  <1>5. CASE typ = "START" /\ Restart(b)
    <2>1. ASSUME NEW other \in heard'
          PROVE  The(other)'
      <3> DEFINE own == Leader(other)'
                 f == Follower(other)'
      <3>1. other \in heard /\ other \in Ports
        BY <1>1, <1>2
      <3>2. LinkInv(own, f, lines[other]) /\ (Peer[other][1] \in pressed => own = "Full_stop")
        BY <1>3, <1>5, <3>1, LinkRestartStep
      <3> HIDE DEF own, f
      <3>3. LinkInv(own, f, lines'[other])
        <4>1. CASE other = port
          <5>1. LinkInv(own, Heard(f, typ), Tail(lines[other]))
            BY <1>1, <3>2, <4>1, LinkHear DEF typ
          <5>2. Heard(f, typ) = f
            BY <1>5 DEF Heard
          <5> QED BY <1>4, <4>1, <5>1, <5>2
        <4>2. CASE other # port
          BY <1>4, <3>1, <3>2, <4>2
        <4> QED BY <4>1, <4>2
      <3> QED BY <1>1, <3>2, <3>3 DEF The, own, f
    <2>2. /\ fsm' \in [Belts -> [1..3 -> FsmStates]]
          /\ \A c \in Belts : fsm'[c][Own] = "Full_stop" => c \in pressed'
          /\ pressed' \subseteq Belts /\ presses' \in Nat /\ heard' \subseteq Ports
      BY <1>1, <1>3, <1>5, ButtonsRestart
    <2> QED BY <1>1, <1>2, <1>4, <2>1, <2>2 DEF RingInv
  <1>6. CASE ~ (typ = "START" /\ Restart(b))
    <2>1. /\ fsm' \in [Belts -> [1..3 -> FsmStates]]
          /\ fsm'[b][n] = Heard(fsm[b][n], typ)
          /\ OnlyMoves(b, n)
      <3>1. {"Idle", "Full_stop", "Estop_released", "Reset"} \subseteq FsmStates
        BY DEF FsmStates
      <3> HIDE DEF b, n
      <3>2. CASE typ = "ESTOP" /\ Move(b, n, "Idle", "Full_stop")
        BY <1>2, <1>3, <3>1, <3>2, MoveIs DEF Heard
      <3>3. CASE typ = "RELEASED" /\ Move(b, n, "Full_stop", "Estop_released")
        BY <1>2, <1>3, <3>1, <3>3, MoveIs DEF Heard
      <3>4. CASE typ = "RESET" /\ Move(b, n, "Estop_released", "Reset")
        BY <1>2, <1>3, <3>1, <3>4, MoveIs DEF Heard
      <3> QED BY <1>1, <1>6, <3>2, <3>3, <3>4
    <2>2. ASSUME NEW other \in heard'
          PROVE  The(other)'
      <3> DEFINE own == Leader(other)
                 f == Follower(other)
      <3>1. other \in heard /\ other \in Ports
        BY <1>1, <1>2
      <3>2. LinkInv(own, f, lines[other]) /\ (Peer[other][1] \in pressed => own = "Full_stop")
        BY <1>2, <3>1 DEF The
      <3>3. /\ Leader(other)' = own
            /\ Follower(other)' = fsm'[other[1]][System(other[2])]
            /\ b # other[1] \/ n # System(other[2]) => Follower(other)' = f
        <4> HIDE DEF b, n
        <4> QED BY <1>2, <1>3, <2>1, <3>1, EndsMove
      <3>4. CASE other = port
        <4>1. Follower(other)' = Heard(f, typ)
          BY <2>1, <3>3, <3>4 DEF Follower
        <4> HIDE DEF own, f
        <4>2. LinkInv(own, Heard(f, typ), Tail(lines[other]))
          BY <1>1, <3>2, <3>4, LinkHear DEF typ
        <4> QED BY <1>1, <1>4, <3>2, <3>3, <3>4, <4>1, <4>2 DEF The
      <3>5. CASE other # port
        <4>1. Follower(other)' = f
          BY <3>1, <3>3, <3>5, LineEnds
        <4> QED BY <1>1, <1>4, <3>1, <3>2, <3>3, <3>5, <4>1 DEF The
      <3> QED BY <3>4, <3>5
    <2>3. \A c \in Belts : fsm'[c][Own] = fsm[c][Own]
      <3> HIDE DEF b, n
      <3> QED BY <1>3, <2>1 DEF OnlyMoves
    <2> QED BY <1>1, <1>2, <1>4, <2>1, <2>2, <2>3 DEF RingInv
  <1> QED BY <1>5, <1>6

-----------------------------------------------------------------------------
\* The invariant of Plant that is about buttons: where the traffic is that of
\* the hand-over, nobody has pressed any.
StopInv ==
    /\ traffic \in {"stops", "puks"}
    /\ traffic = "stops" => RingInv
    /\ traffic = "puks" => RingInit

\* The invariant at the beginning,
LEMMA RingInvInit ==
    ASSUME LinesInit, RingInit
    PROVE  RingInv
  <1>1. /\ lines = [port \in Ports |-> <<>>] /\ failures = 0
        /\ fsm = [b \in Belts |-> [n \in 1..3 |-> "Idle"]]
        /\ pressed = {} /\ presses = 0 /\ heard = Ports
    BY DEF LinesInit, RingInit
  <1>2. "Idle" \in FsmStates /\ Own \in 1..3 /\ <<>> \in Seq(Packets)
    BY DEF FsmStates, Own
  <1>3. ASSUME NEW port \in Ports
        PROVE  The(port)
    <2>1. Leader(port) = "Idle" /\ Follower(port) = "Idle" /\ lines[port] = <<>>
      BY <1>1, <1>2, LineEnds DEF Leader, Follower
    <2>2. LinkInv("Idle", "Idle", <<>>)
      BY <1>2 DEF LinkInv, OnceInv, PressFirstInv, FollowInv, ResetInv, Comes
    <2> QED BY <1>1, <2>1, <2>2 DEF The
  <1> QED BY <1>1, <1>2, <1>3, MaxFailuresAssumption DEF RingInv

\* in every step of the plant,
LEMMA StopInvNext ==
    ASSUME StopInv, [Next]_vars
    PROVE  StopInv'
  <1>1. CASE Stop(RingNext)
    <2>1. traffic = "stops" /\ traffic' = traffic /\ RingNext /\ RingInv
      BY <1>1 DEF Stop, StopInv
    <2>2. CASE \E b \in Belts : \/ ESTOP_THIS(b) \/ ESTOP_RELEASED_THIS(b)
                                \/ BUTTON_RESET(b) \/ BUTTON_START(b)
      <3>1. PICK b \in Belts : \/ ESTOP_THIS(b) \/ ESTOP_RELEASED_THIS(b)
                               \/ BUTTON_RESET(b) \/ BUTTON_START(b)
        BY <2>2
      <3>2. RingInv'
        BY <2>1, <3>1, PressStep, ReleaseStep, ResetStep, StartStep
      <3> QED BY <2>1, <3>2 DEF StopInv
    <2>3. CASE \E port \in Ports : HearStop(port)
      BY <2>1, <2>3, HearStep DEF StopInv
    <2> QED BY <2>1, <2>2, <2>3 DEF RingNext
  <1>2. CASE Pass(HandoverNext)
    BY <1>2 DEF Pass, StopInv, RingInit, ringVars
  <1>3. CASE UNCHANGED vars
    <2>1. UNCHANGED <<traffic, lines, failures, fsm, pressed, presses, heard>>
      BY <1>3 DEF vars, ringVars, linkVars
    <2> QED BY <2>1 DEF StopInv, RingInit, RingInv, The, Leader, Follower
  <1> QED BY <1>1, <1>2, <1>3 DEF Next

\* and always.
LEMMA StopInvHolds == Spec => []StopInv
  <1>1. Init => StopInv
    BY RingInvInit, TrafficAssumption DEF Init, StopInv
  <1>2. StopInv /\ [Next]_vars => StopInv'
    BY StopInvNext
  <1> QED BY <1>1, <1>2, PTL DEF Spec

\* With nothing on the way the FSMs at both ends agree.
LEMMA NoneAgrees ==
    ASSUME StopInv
    PROVE  BeltsAgree
  <1> SUFFICES ASSUME NEW port \in heard, NoneOnTheWay(port)
               PROVE  Agree(port)
    BY DEF BeltsAgree
  <1>1. CASE traffic = "stops"
    <2> DEFINE own == Leader(port)
               f == Follower(port)
               L == lines[port]
    <2>1. LinkInv(own, f, L)
      BY <1>1 DEF StopInv, RingInv, The
    <2>2. ~ Comes(L, "ESTOP") /\ ~ Comes(L, "RELEASED") /\ ~ Comes(L, "RESET")
      BY DEF NoneOnTheWay, Comes
    <2> HIDE DEF own, f, L
    <2>3. f = own \/ (Safe(f) /\ Safe(own))
      BY <2>1, <2>2 DEF LinkInv, FollowInv
    <2> QED BY <2>3 DEF Agree, own, f
  <1>2. CASE traffic = "puks"
    <2>1. fsm = [b \in Belts |-> [n \in 1..3 |-> "Idle"]] /\ port \in Ports
      BY <1>2 DEF StopInv, RingInit
    <2>2. Leader(port) = "Idle" /\ Follower(port) = "Idle"
      BY <2>1, LineEnds DEF Leader, Follower, Own
    <2> QED BY <2>2 DEF Agree
  <1> QED BY <1>1, <1>2 DEF StopInv

\* However often buttons are pressed, released, reset and started, in whatever
\* order, and whichever writes fail: a belt that heard of the last press of a
\* button agrees with that button's belt as soon as it has read all of it
\* (estop_fsm.h:65-178).
THEOREM PlantAgrees == Spec => []BeltsAgree
  <1>1. StopInv => BeltsAgree
    BY NoneAgrees
  <1> QED BY <1>1, StopInvHolds, PTL
===========================================================================
