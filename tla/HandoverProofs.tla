-------------------------- MODULE HandoverProofs --------------------------
(***************************************************************************)
(* Proofs about the hand-over of puks, for every number of puks and of     *)
(* writes that fail; and the type of all variables of Plant.               *)
(***************************************************************************)
EXTENDS RingProofs, SequenceTheorems

-----------------------------------------------------------------------------
\* The inductive invariant.  What is said of sender b is about the line from
\* b to the next belt, and about its answers.

\* The packets that tell an id, and what a line of the hand-over carries.
IdPackets == {PukPacket(p) : p \in Puks}
Carried(port) ==
    IF port \in {<<2, 1>>, <<3, 1>>} THEN {Packet("REQUEST")} \cup IdPackets
    ELSE IF port \in {<<1, 1>>, <<2, 2>>} THEN {Packet("REQUEST_OK")}
    ELSE {}

Told(b) == lines[Back(b + 1)]
Answers(b) == lines[Onward(b)]

\* The belt after b can take a puk.
Clear(b) == IF b = 1 THEN On2 = {} ELSE accept_new_puk

\* It has said so, and b has not heard yet.
Granted(b) ==
    \/ Has(queue[b + 1], {"SEND_REQUEST_OK"})
    \/ Has(Answers(b), {Packet("REQUEST_OK")})
    \/ Has(queue[b], {"SEND_OK"})

TypeInv ==
    /\ lines \in [Ports -> Seq(Packets)]
    /\ \A port \in Ports : lines[port] \in Seq(Carried(port))
    /\ queue \in [Belts -> Seq(Pulses)]
    /\ puk_fifo \in [Belts -> Seq(Puks)]
    /\ place \in [Puks -> Places]
    /\ groups \in Seq(GroupStates) /\ group_timers \in Nat
    /\ accept_new_puk \in BOOLEAN /\ settled \in [Senders -> BOOLEAN]
    /\ failures \in 0..MaxFailures /\ dropped \subseteq Puks

\* One puk at most is at the exit, and then no other is on its way from it.
ExitInv(b) ==
    /\ \A p, q \in Puks : place[p] = Exit[b] /\ place[q] = Exit[b] => p = q
    /\ \A p \in Puks : place[p] = Exit[b] => settled[b]
    /\ settled[b] => ~ Has(Told(b), IdPackets) /\ puk_fifo[b + 1] = <<>>

\* At most one puk is on its way; where its id is, there is its NEW_PUK.
ComingInv(b) ==
    /\ Once(Told(b), IdPackets)
    /\ Has(Told(b), IdPackets) => puk_fifo[b + 1] = <<>>
    /\ Len(puk_fifo[b + 1]) <= 1
    /\ Once(queue[b + 1], {"NEW_PUK"})
    /\ puk_fifo[b + 1] # <<>> <=> Has(queue[b + 1], {"NEW_PUK"})

\* A puk comes, or may set out, only while the next belt can take it.
ClearInv(b) ==
    /\ Has(Told(b), IdPackets) \/ puk_fifo[b + 1] # <<>> => Clear(b)
    /\ settled[b] /\ Granted(b) => Clear(b)

PukInv ==
    /\ TypeInv
    /\ \A b \in Senders : ExitInv(b) /\ ComingInv(b) /\ ClearInv(b)
    /\ \A p, q \in On2 : p = q

-----------------------------------------------------------------------------
\* The queues.

\* What is posted.
Few == {<<>>} \cup {<<e>> : e \in Pulses}

\* At most one pulse is appended to a queue.
LEMMA FewIs ==
    ASSUME NEW q \in Seq(Pulses), NEW few \in Few
    PROVE  /\ q \o few \in Seq(Pulses)
           /\ \A e \in Pulses : Has(q \o few, {e}) <=> Has(q, {e}) \/ few = <<e>>
           /\ \A e \in Pulses : Once(q, {e}) /\ (few = <<e>> => ~ Has(q, {e})) =>
                                 Once(q \o few, {e})
  <1>1. CASE few = <<>>
    <2>1. q \o few = q
      BY <1>1
    <2> QED BY <1>1, <2>1
  <1>2. CASE few # <<>>
    <2>1. PICK x \in Pulses : few = <<x>>
      BY <1>2 DEF Few
    <2>2. q \o few = Append(q, x)
      BY <2>1
    <2>3. \A e : few = <<e>> <=> x \in {e}
      BY <2>1
    <2>4. Append(q, x) \in Seq(Pulses)
      OBVIOUS
    <2> HIDE DEF Few
    <2> QED BY <2>2, <2>3, <2>4, HasAppended
  <1> QED BY <1>1, <1>2

\* Pulses are posted at belt b.
LEMMA PostedIs ==
    ASSUME TypeInv, NEW b \in Belts, NEW few \in Few, queue' = Posted(b, few)
    PROVE  /\ queue' \in [Belts -> Seq(Pulses)]
           /\ \A c \in Belts \ {b} : queue'[c] = queue[c]
           /\ \A e \in Pulses : Has(queue'[b], {e}) <=> Has(queue[b], {e}) \/ few = <<e>>
           /\ \A e \in Pulses : Once(queue[b], {e}) /\ (few = <<e>> => ~ Has(queue[b], {e})) =>
                                 Once(queue'[b], {e})
  <1> DEFINE q == queue[b]
             r == q \o few
  <1>1. queue \in [Belts -> Seq(Pulses)] /\ q \in Seq(Pulses)
    BY DEF TypeInv
  <1>2. queue' = [queue EXCEPT ![b] = r]
    BY DEF Posted
  <1> HIDE DEF q
  <1>3. /\ r \in Seq(Pulses)
        /\ \A e \in Pulses : Has(r, {e}) <=> Has(q, {e}) \/ few = <<e>>
        /\ \A e \in Pulses : Once(q, {e}) /\ (few = <<e>> => ~ Has(q, {e})) => Once(r, {e})
    BY <1>1, FewIs
  <1> HIDE DEF r
  <1>4. /\ queue' \in [Belts -> Seq(Pulses)] /\ queue'[b] = r
        /\ \A c \in Belts \ {b} : queue'[c] = queue[c]
    BY <1>1, <1>2, <1>3
  <1> QED BY <1>3, <1>4 DEF q

\* A pulse is handled at belt b, and others are posted.
LEMMA HandledIs ==
    ASSUME TypeInv, NEW b \in Belts, NEW pulse \in Pulses, Receive(b, pulse),
           NEW few \in Few, queue' = Handled(b, few)
    PROVE  /\ queue' \in [Belts -> Seq(Pulses)]
           /\ \A c \in Belts \ {b} : queue'[c] = queue[c]
           /\ Has(queue[b], {pulse})
           /\ \A e \in Pulses : Has(queue'[b], {e}) => Has(queue[b], {e}) \/ few = <<e>>
           /\ \A e \in Pulses \ {pulse} : Has(queue[b], {e}) => Has(queue'[b], {e})
           /\ Once(queue[b], {pulse}) /\ few # <<pulse>> => ~ Has(queue'[b], {pulse})
           /\ \A e \in Pulses : Once(queue[b], {e}) /\ few # <<e>> => Once(queue'[b], {e})
  <1> DEFINE q == queue[b]
             t == Tail(q)
             r == t \o few
  <1>1. queue \in [Belts -> Seq(Pulses)] /\ q \in Seq(Pulses) /\ q # <<>> /\ Head(q) = pulse
    BY DEF TypeInv, Receive
  <1>2. queue' = [queue EXCEPT ![b] = r]
    BY DEF Handled
  <1> HIDE DEF q
  <1>3. /\ t \in Seq(Pulses)
        /\ \A e : Has(q, {e}) <=> Has(t, {e}) \/ pulse = e
        /\ \A e : Once(q, {e}) => Once(t, {e}) /\ (pulse = e => ~ Has(t, {e}))
    <2>1. t \in Seq(Pulses)
      BY <1>1
    <2> HIDE DEF t
    <2>2. \A e : pulse \in {e} <=> pulse = e
      OBVIOUS
    <2>3. \A e : /\ Has(q, {e}) <=> Has(Tail(q), {e}) \/ Head(q) \in {e}
                 /\ Once(q, {e}) => Once(Tail(q), {e}) /\ (Head(q) \in {e} => ~ Has(Tail(q), {e}))
      BY <1>1, HasTail
    <2> QED BY <1>1, <2>1, <2>2, <2>3 DEF t
  <1> HIDE DEF t
  <1>4. /\ r \in Seq(Pulses)
        /\ \A e \in Pulses : Has(r, {e}) <=> Has(t, {e}) \/ few = <<e>>
        /\ \A e \in Pulses : Once(t, {e}) /\ (few = <<e>> => ~ Has(t, {e})) => Once(r, {e})
    BY <1>3, FewIs
  <1> HIDE DEF r
  <1>5. /\ queue' \in [Belts -> Seq(Pulses)] /\ queue'[b] = r
        /\ \A c \in Belts \ {b} : queue'[c] = queue[c]
    BY <1>1, <1>2, <1>4
  <1> QED BY <1>3, <1>4, <1>5 DEF q

-----------------------------------------------------------------------------
\* The lines.

\* Where the ports of a link are.
LEMMA LinkIs ==
    /\ Senders \subseteq Belts /\ \A b \in Senders : b + 1 \in Belts
    /\ \A b \in Senders :
          /\ Onward(b) \in Ports /\ Back(b + 1) \in Ports
          /\ Peer[Onward(b)] = Back(b + 1) /\ Peer[Back(b + 1)] = Onward(b)
    /\ Back(2) = <<2, 1>> /\ Back(3) = <<3, 1>>
    /\ Onward(1) = <<1, 1>> /\ Onward(2) = <<2, 2>>
  BY PeerIs DEF Senders, Belts, Onward, Back

\* What the lines carry.
LEMMA CarriedIs ==
    /\ Carried(<<2, 1>>) = {Packet("REQUEST")} \cup IdPackets
    /\ Carried(<<3, 1>>) = {Packet("REQUEST")} \cup IdPackets
    /\ Carried(<<1, 1>>) = {Packet("REQUEST_OK")}
    /\ Carried(<<2, 2>>) = {Packet("REQUEST_OK")}
    /\ Carried(<<1, 2>>) = {} /\ Carried(<<3, 2>>) = {}
    /\ \A port \in Ports : Carried(port) \subseteq Packets
    /\ Packet("REQUEST") \notin IdPackets
    /\ \A e \in IdPackets : e.paket_typ = "PUK_ID" /\ e.puk_id \in Puks
    /\ Packet("REQUEST").paket_typ = "REQUEST" /\ Packet("REQUEST_OK").paket_typ = "REQUEST_OK"
  <1>1. IdPackets \subseteq Packets
    BY DEF IdPackets, PukPacket, Packets, PaketTyp, Puks
  <1>2. Packet("REQUEST") \in Packets /\ Packet("REQUEST_OK") \in Packets
    BY PacketIs DEF PaketTyp
  <1>3. /\ Packet("REQUEST") \notin IdPackets
        /\ \A e \in IdPackets : e.paket_typ = "PUK_ID" /\ e.puk_id \in Puks
        /\ Packet("REQUEST").paket_typ = "REQUEST" /\ Packet("REQUEST_OK").paket_typ = "REQUEST_OK"
    <2>1. /\ Packet("REQUEST").paket_typ = "REQUEST"
          /\ Packet("REQUEST_OK").paket_typ = "REQUEST_OK"
      BY PacketIs DEF PaketTyp
    <2>2. ASSUME NEW e \in IdPackets
          PROVE  e.paket_typ = "PUK_ID" /\ e.puk_id \in Puks
      <3>1. PICK p \in Puks : e = PukPacket(p)
        BY DEF IdPackets
      <3> QED BY <3>1 DEF PukPacket
    <2> QED BY <2>1, <2>2
  <1> HIDE DEF IdPackets
  <1> QED BY <1>1, <1>2, <1>3 DEF Carried

\* A packet is written, or the write fails.
LEMMA WriteIs ==
    ASSUME TypeInv, NEW port \in Ports, NEW packet \in Carried(Peer[port]),
           Write(port, packet)
    PROVE  /\ lines' \in [Ports -> Seq(Packets)] /\ failures' \in 0..MaxFailures
           /\ \A other \in Ports : lines'[other] \in Seq(Carried(other))
           /\ \A other \in Ports \ {Peer[port]} : lines'[other] = lines[other]
           /\ \A S : Has(lines'[Peer[port]], S) => Has(lines[Peer[port]], S) \/ packet \in S
           /\ \A S : Has(lines[Peer[port]], S) => Has(lines'[Peer[port]], S)
           /\ \A S : Once(lines[Peer[port]], S) /\ (packet \in S => ~ Has(lines[Peer[port]], S)) =>
                     Once(lines'[Peer[port]], S)
  <1> DEFINE to == Peer[port]
             C == Carried(to)
             old == lines[to]
             new == Append(old, packet)
  <1>1. /\ lines \in [Ports -> Seq(Packets)] /\ failures \in 0..MaxFailures
        /\ \A other \in Ports : lines[other] \in Seq(Carried(other))
        /\ to \in Ports /\ packet \in Packets
    BY PeerIs, CarriedIs DEF TypeInv
  <1>2. old \in Seq(C) /\ packet \in C
    BY <1>1
  <1>3. failures' \in 0..MaxFailures
    BY <1>1, FailIs DEF Write
  <1>4. CASE lines' = [lines EXCEPT ![to] = new]
    <2>1. new \in Seq(Packets)
      BY <1>1
    <2> HIDE DEF new
    <2>2. /\ lines' \in [Ports -> Seq(Packets)] /\ lines'[to] = new
          /\ \A other \in Ports \ {to} : lines'[other] = lines[other]
      BY <1>1, <1>4, <2>1
    <2> HIDE DEF C, old, to
    <2>3. /\ new \in Seq(C)
          /\ \A S : Has(new, S) <=> Has(old, S) \/ packet \in S
          /\ \A S : Once(old, S) /\ (packet \in S => ~ Has(old, S)) => Once(new, S)
      BY <1>2, Appending, HasAppended DEF new
    <2>4. \A other \in Ports : lines'[other] \in Seq(Carried(other))
      BY <1>1, <2>2, <2>3 DEF C
    <2> QED BY <1>1, <1>3, <2>2, <2>3, <2>4 DEF to, old
  <1>5. CASE lines' = lines
    BY <1>1, <1>3, <1>5
  <1> QED BY <1>4, <1>5 DEF Write

\* A packet is read.
LEMMA HeardIs ==
    ASSUME TypeInv, NEW port \in Ports, lines[port] # <<>>, lines' = Consumed(port)
    PROVE  /\ lines' \in [Ports -> Seq(Packets)]
           /\ \A other \in Ports : lines'[other] \in Seq(Carried(other))
           /\ \A other \in Ports \ {port} : lines'[other] = lines[other]
           /\ Head(lines[port]) \in Carried(port)
           /\ \A S : Has(lines[port], S) <=> Has(lines'[port], S) \/ Head(lines[port]) \in S
           /\ \A S : Once(lines[port], S) =>
                     /\ Once(lines'[port], S)
                     /\ Head(lines[port]) \in S => ~ Has(lines'[port], S)
  <1> DEFINE C == Carried(port)
             old == lines[port]
             new == Tail(old)
  <1>1. /\ lines \in [Ports -> Seq(Packets)]
        /\ \A other \in Ports : lines[other] \in Seq(Carried(other))
    BY DEF TypeInv
  <1>2. /\ lines' \in [Ports -> Seq(Packets)] /\ lines'[port] = new
        /\ \A other \in Ports \ {port} : lines'[other] = lines[other]
    BY <1>1, ConsumedIs
  <1>3. old \in Seq(C) /\ old # <<>>
    BY <1>1
  <1> HIDE DEF C, old
  <1>4. /\ new \in Seq(C) /\ Head(old) \in C
        /\ \A S : Has(old, S) <=> Has(new, S) \/ Head(old) \in S
        /\ \A S : Once(old, S) => Once(new, S) /\ (Head(old) \in S => ~ Has(new, S))
    BY <1>3, TailElements, HasTail
  <1> HIDE DEF new
  <1>5. \A other \in Ports : lines'[other] \in Seq(Carried(other))
    BY <1>1, <1>2, <1>4 DEF C
  <1> QED BY <1>2, <1>4, <1>5 DEF old, C

-----------------------------------------------------------------------------
\* The steps.

LinkInv2(b) == ExitInv(b) /\ ComingInv(b) /\ ClearInv(b)

\* A step that sends no puk on its way and lets none arrive keeps what is true
\* of a link, if it grants a puk to it only while the next belt is free.
LEMMA LinkKept ==
    ASSUME PukInv, NEW b \in Senders,
           \A p \in Puks : place'[p] = Exit[b] => place[p] = Exit[b],
           settled'[b] = settled[b], puk_fifo'[b + 1] = puk_fifo[b + 1],
           Has(Told(b)', IdPackets) => Has(Told(b), IdPackets),
           Once(Told(b), IdPackets) => Once(Told(b)', IdPackets),
           Has(queue'[b + 1], {"NEW_PUK"}) <=> Has(queue[b + 1], {"NEW_PUK"}),
           Once(queue[b + 1], {"NEW_PUK"}) => Once(queue'[b + 1], {"NEW_PUK"}),
           Clear(b) => Clear(b)',
           Granted(b)' => Granted(b) \/ Clear(b)'
    PROVE  LinkInv2(b)'
  <1>1. ExitInv(b) /\ ComingInv(b) /\ ClearInv(b)
    BY DEF PukInv
  <1>2. ExitInv(b)'
    BY <1>1 DEF ExitInv
  <1>3. ComingInv(b)'
    BY <1>1 DEF ComingInv
  <1>4. ClearInv(b)'
    BY <1>1 DEF ClearInv
  <1> QED BY <1>2, <1>3, <1>4 DEF LinkInv2

\* The same for a step that only handles and posts pulses: where SEND_OK and
\* NEW_PUK are not involved, and SEND_REQUEST_OK is posted by a free belt.
LEMMA PulsesKept ==
    ASSUME PukInv, NEW c \in Belts,
           \A b \in Belts \ {c} : queue'[b] = queue[b],
           Has(queue'[c], {"NEW_PUK"}) <=> Has(queue[c], {"NEW_PUK"}),
           Once(queue[c], {"NEW_PUK"}) => Once(queue'[c], {"NEW_PUK"}),
           Has(queue'[c], {"SEND_OK"}) => Has(queue[c], {"SEND_OK"}),
           c - 1 \in Senders =>
               (Has(queue'[c], {"SEND_REQUEST_OK"}) =>
                    Has(queue[c], {"SEND_REQUEST_OK"}) \/ Clear(c - 1)'),
           \A b \in Senders :
               /\ \A p \in Puks : place'[p] = Exit[b] => place[p] = Exit[b]
               /\ Clear(b) => Clear(b)',
           UNCHANGED <<lines, puk_fifo, settled>>
    PROVE  \A b \in Senders : LinkInv2(b)'
  <1> TAKE b \in Senders
  <1>1. b \in Belts /\ b + 1 \in Belts /\ (b + 1) - 1 = b
    BY LinkIs DEF Senders
  <1>2. Told(b)' = Told(b) /\ Answers(b)' = Answers(b)
    BY DEF Told, Answers
  <1>3. /\ Has(queue'[b + 1], {"NEW_PUK"}) <=> Has(queue[b + 1], {"NEW_PUK"})
        /\ Once(queue[b + 1], {"NEW_PUK"}) => Once(queue'[b + 1], {"NEW_PUK"})
        /\ Has(queue'[b], {"SEND_OK"}) => Has(queue[b], {"SEND_OK"})
        /\ Has(queue'[b + 1], {"SEND_REQUEST_OK"}) =>
               Has(queue[b + 1], {"SEND_REQUEST_OK"}) \/ Clear(b)'
    BY <1>1
  <1>4. Granted(b)' => Granted(b) \/ Clear(b)'
    BY <1>2, <1>3 DEF Granted
  <1>5. settled'[b] = settled[b] /\ puk_fifo'[b + 1] = puk_fifo[b + 1]
    OBVIOUS
  <1> QED BY <1>2, <1>3, <1>4, <1>5, LinkKept

\* What SEND_REQUEST() posts is an answer only where the belt is free.
LEMMA AnswerIs ==
    ASSUME NEW b \in Belts, NEW list, NEW accept
    PROVE  /\ Answer(b, list, accept) \in {<<>>, <<"SEND_REQUEST_OK">>}
           /\ Answer(b, list, accept) \in Few
           /\ Answer(b, list, accept) # <<>> =>
                  (b = 2 /\ list = {}) \/ (b = 3 /\ accept)
  BY DEF Answer, Few, Pulses

\* The hand-over before is over.
LEMMA SettleStep ==
    ASSUME PukInv, NEW b \in Senders, Settle(b)
    PROVE  PukInv' /\ UNCHANGED <<lines, place, puk_fifo>>
  <1>1. /\ ~ settled[b] /\ ~ UnderWay(b) /\ settled' = [settled EXCEPT ![b] = TRUE]
        /\ UNCHANGED <<lines, queue, place, puk_fifo, groups, group_timers, accept_new_puk,
                       failures, dropped>>
    BY DEF Settle, linkVars
  <1>2. TypeInv /\ \A p, q \in On2 : p = q
    BY DEF PukInv
  <1>3. settled \in [Senders -> BOOLEAN]
    BY <1>2 DEF TypeInv
  <1>4. TypeInv' /\ On2' = On2 /\ \A c \in Senders : Clear(c)' = Clear(c)
    BY <1>1, <1>2, <1>3 DEF TypeInv, On2, Clear
  <1>5. /\ ~ Has(Told(b), IdPackets) /\ ~ Has(queue[b + 1], {"NEW_PUK"})
        /\ ~ Granted(b)
    BY <1>1, LinkIs, CarriedIs DEF UnderWay, Has, Granted, Told, Answers
  <1>6. ASSUME NEW c \in Senders
        PROVE  LinkInv2(c)'
    <2>1. ExitInv(c) /\ ComingInv(c) /\ ClearInv(c)
      BY DEF PukInv
    <2>2. Told(c)' = Told(c) /\ Answers(c)' = Answers(c) /\ Granted(c)' = Granted(c)
      BY <1>1 DEF Told, Answers, Granted
    <2>3. CASE c = b
      <3>1. puk_fifo[b + 1] = <<>>
        BY <1>5, <2>1, <2>3 DEF ComingInv
      <3> QED BY <1>1, <1>3, <1>4, <1>5, <2>1, <2>2, <2>3, <3>1
              DEF ExitInv, ComingInv, ClearInv, LinkInv2
    <2>4. CASE c # b
      BY <1>1, <1>3, <1>4, <2>1, <2>2, <2>4 DEF ExitInv, ComingInv, ClearInv, LinkInv2
    <2> QED BY <2>3, <2>4
  <1> QED BY <1>1, <1>2, <1>4, <1>6 DEF PukInv, LinkInv2

\* A puk reaches the exit of belt b.
LEMMA ExitStep ==
    ASSUME PukInv, NEW b \in Senders, NEW p \in Puks, LIGHT_BARRIER_EXIT_CLOSE(b, p)
    PROVE  PukInv' /\ On2' = On2 /\ UNCHANGED <<lines, puk_fifo>>
  <1>1. /\ place[p] = (IF b = 1 THEN "belt1" ELSE "belt2")
        /\ \A o \in Puks : place[o] # Exit[b]
        /\ settled[b]
        /\ place' = [place EXCEPT ![p] = Exit[b]]
        /\ queue' = Posted(b, <<"SEND_WANT">>)
        /\ UNCHANGED <<lines, puk_fifo, groups, group_timers, accept_new_puk, settled,
                       failures, dropped>>
    BY DEF LIGHT_BARRIER_EXIT_CLOSE, linkVars
  <1>2. TypeInv /\ \A o, q \in On2 : o = q
    BY DEF PukInv
  <1>3. b \in Belts /\ <<"SEND_WANT">> \in Few /\ "SEND_WANT" \in Pulses
    BY DEF Senders, Belts, Few, Pulses
  <1>4. /\ queue' \in [Belts -> Seq(Pulses)]
        /\ \A c \in Belts \ {b} : queue'[c] = queue[c]
        /\ \A e \in Pulses \ {"SEND_WANT"} : Has(queue'[b], {e}) <=> Has(queue[b], {e})
        /\ \A e \in Pulses \ {"SEND_WANT"} : Once(queue[b], {e}) => Once(queue'[b], {e})
    BY <1>1, <1>2, <1>3, PostedIs
  <1>5. /\ place \in [Puks -> Places] /\ Exit[b] \in Places
        /\ Exit[1] = "exit1" /\ Exit[2] = "exit2" /\ b \in {1, 2}
    BY <1>2 DEF TypeInv, Exit, Places, Senders
  <1>6. /\ place' \in [Puks -> Places] /\ place'[p] = Exit[b]
        /\ \A o \in Puks \ {p} : place'[o] = place[o]
    BY <1>1, <1>5
  <1>7. TypeInv'
    BY <1>1, <1>2, <1>4, <1>6 DEF TypeInv
  <1>8. On2' = On2
    <2>1. place[p] \in {"belt2", "exit2", "leaves2"} <=>
              place'[p] \in {"belt2", "exit2", "leaves2"}
      BY <1>1, <1>5, <1>6
    <2> QED BY <1>6, <2>1 DEF On2
  <1>9. ASSUME NEW c \in Senders
        PROVE  LinkInv2(c)'
    <2>1. ExitInv(c) /\ ComingInv(c) /\ ClearInv(c)
      BY DEF PukInv
    <2>2. Told(c)' = Told(c) /\ Answers(c)' = Answers(c) /\ Clear(c)' = Clear(c)
      BY <1>1, <1>8 DEF Told, Answers, Clear
    <2>3. /\ {"NEW_PUK", "SEND_OK", "SEND_REQUEST_OK"} \subseteq Pulses \ {"SEND_WANT"}
          /\ c \in Belts /\ c + 1 \in Belts
      BY LinkIs DEF Pulses
    <2>4. /\ Has(queue'[c + 1], {"NEW_PUK"}) <=> Has(queue[c + 1], {"NEW_PUK"})
          /\ Once(queue[c + 1], {"NEW_PUK"}) => Once(queue'[c + 1], {"NEW_PUK"})
          /\ Has(queue'[c], {"SEND_OK"}) <=> Has(queue[c], {"SEND_OK"})
          /\ Has(queue'[c + 1], {"SEND_REQUEST_OK"}) <=> Has(queue[c + 1], {"SEND_REQUEST_OK"})
      BY <1>4, <2>3
    <2>5. Granted(c)' = Granted(c)
      BY <2>2, <2>4 DEF Granted
    <2>6. ExitInv(c)'
      <3>1. CASE c = b
        BY <1>1, <1>6, <2>1, <2>2, <3>1 DEF ExitInv
      <3>2. CASE c # b
        <4>1. Exit[c] # Exit[b]
          BY <1>5, <3>2 DEF Senders
        <4> QED BY <1>1, <1>6, <2>1, <2>2, <4>1 DEF ExitInv
      <3> QED BY <3>1, <3>2
    <2>7. ComingInv(c)' /\ ClearInv(c)'
      BY <1>1, <2>1, <2>2, <2>4, <2>5 DEF ComingInv, ClearInv
    <2> QED BY <2>6, <2>7 DEF LinkInv2
  <1> QED BY <1>1, <1>2, <1>7, <1>8, <1>9 DEF PukInv, LinkInv2

\* A puk leaves the list of belt 2.
LEMMA LeaveStep ==
    ASSUME PukInv, NEW p \in Puks, Removed(p) \/ TIMER_EXIT_OUT(p)
    PROVE  /\ PukInv' /\ p \in On2 /\ On2' = On2 \ {p}
           /\ UNCHANGED <<lines, puk_fifo>>
  <1> DEFINE few == Answer(2, On2 \ {p}, accept_new_puk)
  <1>1. /\ place[p] \in {"belt2", "leaves2"}
        /\ place' = [place EXCEPT ![p] = "gone"] \/ place' = [place EXCEPT ![p] = "sent3"]
        /\ queue' = Posted(2, few)
        /\ UNCHANGED <<lines, puk_fifo, groups, group_timers, accept_new_puk, settled,
                       failures, dropped>>
    BY DEF Removed, TIMER_EXIT_OUT, DeleteSent, linkVars
  <1>2. TypeInv /\ \A o, q \in On2 : o = q
    BY DEF PukInv
  <1>3. /\ few \in {<<>>, <<"SEND_REQUEST_OK">>} /\ few \in Few
        /\ few # <<>> => On2 \ {p} = {}
        /\ 2 \in Belts
    BY AnswerIs DEF Belts
  <1> HIDE DEF few
  <1>4. /\ queue' \in [Belts -> Seq(Pulses)]
        /\ \A c \in Belts \ {2} : queue'[c] = queue[c]
        /\ \A e \in Pulses : Has(queue'[2], {e}) <=> Has(queue[2], {e}) \/ few = <<e>>
        /\ \A e \in Pulses : Once(queue[2], {e}) /\ few # <<e>> => Once(queue'[2], {e})
    BY <1>1, <1>2, <1>3, PostedIs
  <1>5. /\ place \in [Puks -> Places] /\ place' \in [Puks -> Places]
        /\ place'[p] \in {"gone", "sent3"}
        /\ \A o \in Puks \ {p} : place'[o] = place[o]
    <2>1. place \in [Puks -> Places] /\ "gone" \in Places /\ "sent3" \in Places
      BY <1>2 DEF TypeInv, Places
    <2> QED BY <1>1, <2>1
  <1>6. TypeInv'
    BY <1>1, <1>2, <1>4, <1>5 DEF TypeInv
  <1>7. p \in On2 /\ On2' = On2 \ {p}
    <2>1. p \in On2
      BY <1>1 DEF On2
    <2>2. \A o \in Puks : o \in On2' <=> o \in On2 /\ o # p
      BY <1>5 DEF On2
    <2>3. On2' \subseteq Puks /\ On2 \subseteq Puks
      BY DEF On2
    <2> QED BY <2>1, <2>2, <2>3
  <1>8. \A c \in Senders : LinkInv2(c)'
    <2>1. {"NEW_PUK", "SEND_OK", "SEND_REQUEST_OK"} \subseteq Pulses
      BY DEF Pulses
    <2>2. /\ few # <<"NEW_PUK">> /\ few # <<"SEND_OK">>
          /\ few = <<"SEND_REQUEST_OK">> => On2' = {}
      BY <1>3, <1>7
    <2>3. /\ Has(queue'[2], {"NEW_PUK"}) <=> Has(queue[2], {"NEW_PUK"})
          /\ Once(queue[2], {"NEW_PUK"}) => Once(queue'[2], {"NEW_PUK"})
          /\ Has(queue'[2], {"SEND_OK"}) => Has(queue[2], {"SEND_OK"})
      BY <1>4, <2>1, <2>2
    <2>4. Has(queue'[2], {"SEND_REQUEST_OK"}) =>
              Has(queue[2], {"SEND_REQUEST_OK"}) \/ Clear(2 - 1)'
      <3>1. few = <<"SEND_REQUEST_OK">> => Clear(1)'
        BY <2>2 DEF Clear
      <3> QED BY <1>4, <2>1, <3>1
    <2>5. ASSUME NEW b \in Senders
          PROVE  /\ \A o \in Puks : place'[o] = Exit[b] => place[o] = Exit[b]
                 /\ Clear(b) => Clear(b)'
      <3>1. Exit[b] \in {"exit1", "exit2"}
        BY DEF Exit, Senders
      <3>2. Clear(b) => Clear(b)'
        BY <1>1, <1>7 DEF Clear
      <3> QED BY <1>5, <3>1, <3>2
    <2> QED BY <1>1, <1>3, <1>4, <2>3, <2>4, <2>5, PulsesKept
  <1> QED BY <1>1, <1>2, <1>6, <1>7, <1>8 DEF PukInv, LinkInv2

\* The groups stay groups when one goes on, and when one is taken.
LEMMA GroupsAre ==
    ASSUME groups \in Seq(GroupStates),
           \/ groups' = groups
           \/ \E s, t \in GroupStates : Goes(s, t)
           \/ \E k \in DOMAIN groups : groups' = RemoveAt(groups, k)
    PROVE  groups' \in Seq(GroupStates)
  <1>1. CASE groups' = groups
    BY <1>1
  <1>2. CASE \E s, t \in GroupStates : Goes(s, t)
    <2>1. PICK s, t \in GroupStates : Goes(s, t)
      BY <1>2
    <2>2. PICK first : groups' = [groups EXCEPT ![first] = t]
      BY <2>1 DEF Goes
    <2>3. CASE first \in DOMAIN groups
      BY <2>2, <2>3
    <2>4. CASE first \notin DOMAIN groups
      <3>1. groups' = groups
        BY <2>2, <2>4
      <3> QED BY <3>1
    <2> QED BY <2>3, <2>4
  <1>3. CASE \E k \in DOMAIN groups : groups' = RemoveAt(groups, k)
    <2>1. PICK k \in DOMAIN groups : groups' = RemoveAt(groups, k)
      BY <1>3
    <2> DEFINE n == Len(groups)
               left == SubSeq(groups, 1, k - 1)
               right == SubSeq(groups, k + 1, n)
    <2>2. n \in Nat /\ k \in 1..n
      OBVIOUS
    <2>3. left \in Seq(GroupStates) /\ right \in Seq(GroupStates)
      <3>1. \A i \in 1..(k - 1) : groups[i] \in GroupStates
        BY <2>2
      <3>2. \A i \in (k + 1)..n : groups[i] \in GroupStates
        BY <2>2
      <3> QED BY <2>2, <3>1, <3>2, SubSeqProperties
    <2>4. groups' = left \o right
      BY <2>1 DEF RemoveAt
    <2> HIDE DEF left, right
    <2> QED BY <2>3, <2>4
  <1> QED BY <1>1, <1>2, <1>3

\* A time of a group is over, or a group goes on or is taken from belt 3.
LEMMA GroupStep ==
    ASSUME PukInv, TIMER_GROUP_OUT \/ GroupPasses \/ GroupTaken
    PROVE  PukInv' /\ UNCHANGED <<lines, place, puk_fifo, dropped>>
  <1> DEFINE few == IF queue' = queue THEN <<>> ELSE Answer(3, On2, accept_new_puk')
  <1>1. /\ queue' = queue \/ queue' = Posted(3, Answer(3, On2, accept_new_puk'))
        /\ accept_new_puk' = TRUE \/ accept_new_puk' = accept_new_puk
        /\ \/ group_timers' = group_timers
           \/ group_timers > 0 /\ group_timers' = group_timers - 1
        /\ UNCHANGED <<lines, place, puk_fifo, settled, failures, dropped>>
    BY DEF TIMER_GROUP_OUT, GroupPasses, GroupTaken, DeleteSent, linkVars
  <1>2. TypeInv /\ \A o, q \in On2 : o = q
    BY DEF PukInv
  <1>3. /\ few \in {<<>>, <<"SEND_REQUEST_OK">>} /\ few \in Few
        /\ few # <<>> => accept_new_puk'
        /\ 3 \in Belts
    <2>1. <<>> \in Few
      BY DEF Few
    <2> QED BY <2>1, AnswerIs DEF Belts
  <1>4. queue' = Posted(3, few)
    <2>1. CASE queue' = queue
      <3>1. queue \in [Belts -> Seq(Pulses)] /\ few = <<>>
        BY <1>2, <2>1 DEF TypeInv
      <3>2. queue[3] \in Seq(Pulses)
        BY <1>3, <3>1
      <3>3. queue[3] \o <<>> = queue[3]
        BY <3>2
      <3>4. Posted(3, <<>>) = [queue EXCEPT ![3] = queue[3]]
        BY <3>3 DEF Posted
      <3> HIDE DEF few
      <3> QED BY <2>1, <3>1, <3>4
    <2>2. CASE queue' # queue
      BY <1>1, <2>2
    <2> QED BY <2>1, <2>2
  <1> HIDE DEF few
  <1>5. /\ queue' \in [Belts -> Seq(Pulses)]
        /\ \A c \in Belts \ {3} : queue'[c] = queue[c]
        /\ \A e \in Pulses : Has(queue'[3], {e}) <=> Has(queue[3], {e}) \/ few = <<e>>
        /\ \A e \in Pulses : Once(queue[3], {e}) /\ few # <<e>> => Once(queue'[3], {e})
    BY <1>2, <1>3, <1>4, PostedIs
  <1>6. groups' \in Seq(GroupStates) /\ group_timers' \in Nat /\ accept_new_puk' \in BOOLEAN
    <2>1. groups \in Seq(GroupStates) /\ group_timers \in Nat /\ accept_new_puk \in BOOLEAN
      BY <1>2 DEF TypeInv
    <2>2. \/ groups' = groups
          \/ \E s, t \in GroupStates : Goes(s, t)
          \/ \E k \in DOMAIN groups : groups' = RemoveAt(groups, k)
      <3>1. {"Puk_3", "Switch_Open", "Exit_Belt_3"} \subseteq GroupStates
        BY DEF GroupStates
      <3>2. CASE TIMER_GROUP_OUT
        BY <3>2 DEF TIMER_GROUP_OUT
      <3>3. CASE GroupPasses
        BY <3>1, <3>3 DEF GroupPasses
      <3>4. CASE GroupTaken
        BY <3>4 DEF GroupTaken
      <3> QED BY <3>2, <3>3, <3>4
    <2>3. groups' \in Seq(GroupStates)
      BY <2>1, <2>2, GroupsAre
    <2>4. group_timers' \in Nat
      BY <1>1, <2>1
    <2> QED BY <1>1, <2>1, <2>3, <2>4
  <1>7. TypeInv' /\ On2' = On2
    BY <1>1, <1>2, <1>5, <1>6 DEF TypeInv, On2
  <1>8. \A c \in Senders : LinkInv2(c)'
    <2>1. {"NEW_PUK", "SEND_OK", "SEND_REQUEST_OK"} \subseteq Pulses
      BY DEF Pulses
    <2>2. /\ few # <<"NEW_PUK">> /\ few # <<"SEND_OK">>
          /\ few = <<"SEND_REQUEST_OK">> => accept_new_puk'
      BY <1>3
    <2>3. /\ Has(queue'[3], {"NEW_PUK"}) <=> Has(queue[3], {"NEW_PUK"})
          /\ Once(queue[3], {"NEW_PUK"}) => Once(queue'[3], {"NEW_PUK"})
          /\ Has(queue'[3], {"SEND_OK"}) => Has(queue[3], {"SEND_OK"})
      BY <1>5, <2>1, <2>2
    <2>4. Has(queue'[3], {"SEND_REQUEST_OK"}) =>
              Has(queue[3], {"SEND_REQUEST_OK"}) \/ Clear(3 - 1)'
      <3>1. few = <<"SEND_REQUEST_OK">> => Clear(2)'
        BY <2>2 DEF Clear
      <3> QED BY <1>5, <2>1, <3>1
    <2>5. \A b \in Senders : /\ \A o \in Puks : place'[o] = Exit[b] => place[o] = Exit[b]
                             /\ Clear(b) => Clear(b)'
      BY <1>1, <1>7 DEF Clear
    <2> QED BY <1>1, <1>3, <1>5, <2>3, <2>4, <2>5, PulsesKept
  <1> QED BY <1>1, <1>2, <1>7, <1>8 DEF PukInv, LinkInv2

\* A request is answered, or not.
LEMMA RequestStep ==
    ASSUME PukInv, NEW c \in Belts \ {1}, SEND_REQUEST(c)
    PROVE  PukInv' /\ UNCHANGED <<lines, place, puk_fifo>>
  <1> DEFINE few == Answer(c, On2, accept_new_puk)
  <1>1. /\ Receive(c, "SEND_REQUEST") /\ queue' = Handled(c, few)
        /\ UNCHANGED <<lines, place, puk_fifo, groups, group_timers, accept_new_puk, settled,
                       failures, dropped>>
    BY DEF SEND_REQUEST, linkVars
  <1>2. TypeInv /\ \A o, q \in On2 : o = q
    BY DEF PukInv
  <1>3. /\ few \in {<<>>, <<"SEND_REQUEST_OK">>} /\ few \in Few
        /\ few # <<>> => (c = 2 /\ On2 = {}) \/ (c = 3 /\ accept_new_puk)
        /\ c \in Belts /\ c \in {2, 3}
    BY AnswerIs DEF Belts
  <1> HIDE DEF few
  <1>4. {"NEW_PUK", "SEND_OK", "SEND_REQUEST_OK", "SEND_REQUEST"} \subseteq Pulses
    BY DEF Pulses
  <1>5. /\ queue' \in [Belts -> Seq(Pulses)]
        /\ \A b \in Belts \ {c} : queue'[b] = queue[b]
        /\ \A e \in Pulses : Has(queue'[c], {e}) => Has(queue[c], {e}) \/ few = <<e>>
        /\ \A e \in Pulses \ {"SEND_REQUEST"} : Has(queue[c], {e}) => Has(queue'[c], {e})
        /\ \A e \in Pulses : Once(queue[c], {e}) /\ few # <<e>> => Once(queue'[c], {e})
    BY <1>1, <1>2, <1>3, <1>4, HandledIs
  <1>6. TypeInv' /\ On2' = On2
    BY <1>1, <1>2, <1>5 DEF TypeInv, On2
  <1>7. \A b \in Senders : LinkInv2(b)'
    <2>1. few # <<"NEW_PUK">> /\ few # <<"SEND_OK">>
      BY <1>3
    <2>2. /\ Has(queue'[c], {"NEW_PUK"}) <=> Has(queue[c], {"NEW_PUK"})
          /\ Once(queue[c], {"NEW_PUK"}) => Once(queue'[c], {"NEW_PUK"})
          /\ Has(queue'[c], {"SEND_OK"}) => Has(queue[c], {"SEND_OK"})
      BY <1>4, <1>5, <2>1
    <2>3. c - 1 \in Senders =>
              (Has(queue'[c], {"SEND_REQUEST_OK"}) =>
                   Has(queue[c], {"SEND_REQUEST_OK"}) \/ Clear(c - 1)')
      <3>1. few # <<>> => Clear(c - 1)'
        BY <1>1, <1>3, <1>6 DEF Clear
      <3>2. <<"SEND_REQUEST_OK">> # <<>>
        OBVIOUS
      <3>3. "SEND_REQUEST_OK" \in Pulses
        BY <1>4
      <3> HIDE DEF Clear
      <3>4. Has(queue'[c], {"SEND_REQUEST_OK"}) =>
                Has(queue[c], {"SEND_REQUEST_OK"}) \/ few = <<"SEND_REQUEST_OK">>
        BY <1>5, <3>3
      <3> QED BY <3>1, <3>2, <3>4
    <2>4. \A b \in Senders : /\ \A o \in Puks : place'[o] = Exit[b] => place[o] = Exit[b]
                             /\ Clear(b) => Clear(b)'
      BY <1>1, <1>6 DEF Clear
    <2> QED BY <1>1, <1>3, <1>5, <2>2, <2>3, <2>4, PulsesKept
  <1> QED BY <1>1, <1>2, <1>6, <1>7 DEF PukInv, LinkInv2

\* The ports of the two links are four.
LEMMA PortsApart ==
    ASSUME NEW b \in Senders, NEW d \in Senders
    PROVE  /\ Back(b + 1) # Onward(d)
           /\ b # d => Back(b + 1) # Back(d + 1) /\ Onward(b) # Onward(d)
  <1>1. b = 1 \/ b = 2
    BY DEF Senders
  <1>2. d = 1 \/ d = 2
    BY DEF Senders
  <1> QED BY <1>1, <1>2 DEF Back, Onward

\* A request is sent.
LEMMA WantStep ==
    ASSUME PukInv, NEW b \in Senders, SEND_WANT(b)
    PROVE  /\ PukInv' /\ UNCHANGED <<place, puk_fifo>>
           /\ \A S : Packet("REQUEST") \notin S => (Has(Told(1)', S) <=> Has(Told(1), S))
  <1> DEFINE packet == Packet("REQUEST")
             to == Back(b + 1)
  <1>1. /\ Receive(b, "SEND_WANT") /\ queue' = Handled(b, <<>>)
        /\ Write(Onward(b), packet)
        /\ UNCHANGED <<place, puk_fifo, groups, group_timers, accept_new_puk, settled, dropped>>
    BY DEF SEND_WANT
  <1>2. TypeInv /\ \A o, q \in On2 : o = q
    BY DEF PukInv
  <1>3. /\ b \in Belts /\ Onward(b) \in Ports /\ to \in Ports /\ Peer[Onward(b)] = to
        /\ packet \in Carried(to) /\ packet \notin IdPackets
    BY LinkIs, CarriedIs DEF Senders
  <1>4. /\ {"NEW_PUK", "SEND_OK", "SEND_REQUEST_OK"} \subseteq Pulses \ {"SEND_WANT"}
        /\ "SEND_WANT" \in Pulses /\ <<>> \in Few
        /\ \A e : <<e>> # <<>>
    BY DEF Pulses, Few
  <1> HIDE DEF packet, to
  <1>5. /\ queue' \in [Belts -> Seq(Pulses)]
        /\ \A c \in Belts \ {b} : queue'[c] = queue[c]
        /\ \A e \in Pulses : Has(queue'[b], {e}) => Has(queue[b], {e})
        /\ \A e \in Pulses \ {"SEND_WANT"} : Has(queue[b], {e}) => Has(queue'[b], {e})
        /\ \A e \in Pulses : Once(queue[b], {e}) => Once(queue'[b], {e})
    BY <1>1, <1>2, <1>3, <1>4, HandledIs
  <1>6. /\ lines' \in [Ports -> Seq(Packets)] /\ failures' \in 0..MaxFailures
        /\ \A other \in Ports : lines'[other] \in Seq(Carried(other))
        /\ \A other \in Ports \ {to} : lines'[other] = lines[other]
        /\ Has(lines'[to], IdPackets) => Has(lines[to], IdPackets)
        /\ Once(lines[to], IdPackets) => Once(lines'[to], IdPackets)
    BY <1>1, <1>2, <1>3, WriteIs
  <1>7. TypeInv' /\ On2' = On2
    BY <1>1, <1>2, <1>5, <1>6 DEF TypeInv, On2
  <1>8. ASSUME NEW d \in Senders
        PROVE  LinkInv2(d)'
    <2>1. /\ d \in Belts /\ d + 1 \in Belts /\ Back(d + 1) \in Ports /\ Onward(d) \in Ports
          /\ Onward(d) # to /\ (d # b => Back(d + 1) # to)
      BY LinkIs, PortsApart DEF to
    <2>2. /\ Has(Told(d)', IdPackets) => Has(Told(d), IdPackets)
          /\ Once(Told(d), IdPackets) => Once(Told(d)', IdPackets)
          /\ Answers(d)' = Answers(d)
      <3>1. CASE d = b
        BY <1>6, <2>1, <3>1 DEF Told, Answers, to
      <3>2. CASE d # b
        BY <1>6, <2>1, <3>2 DEF Told, Answers
      <3> QED BY <3>1, <3>2
    <2>3. /\ Has(queue'[d + 1], {"NEW_PUK"}) <=> Has(queue[d + 1], {"NEW_PUK"})
          /\ Once(queue[d + 1], {"NEW_PUK"}) => Once(queue'[d + 1], {"NEW_PUK"})
          /\ Has(queue'[d], {"SEND_OK"}) => Has(queue[d], {"SEND_OK"})
          /\ Has(queue'[d + 1], {"SEND_REQUEST_OK"}) => Has(queue[d + 1], {"SEND_REQUEST_OK"})
      BY <1>4, <1>5, <2>1
    <2>4. Granted(d)' => Granted(d)
      BY <2>2, <2>3 DEF Granted
    <2>5. Clear(d)' = Clear(d)
      BY <1>1, <1>7 DEF Clear
    <2> QED BY <1>1, <2>2, <2>3, <2>4, <2>5, LinkKept
  <1>9. ASSUME NEW S, packet \notin S
        PROVE  Has(Told(1)', S) <=> Has(Told(1), S)
    <2>1. CASE to = Back(2)
      <3>1. \A R : Has(lines'[to], R) => Has(lines[to], R) \/ packet \in R
        BY <1>1, <1>2, <1>3, WriteIs
      <3>2. \A R : Has(lines[to], R) => Has(lines'[to], R)
        BY <1>1, <1>2, <1>3, WriteIs
      <3> QED BY <1>9, <2>1, <3>1, <3>2 DEF Told
    <2>2. CASE to # Back(2)
      BY <1>6, <2>2, LinkIs DEF Told, Senders
    <2> QED BY <2>1, <2>2
  <1> QED BY <1>1, <1>2, <1>7, <1>8, <1>9 DEF PukInv, LinkInv2, packet

\* The answer passes from the queue of belt b + 1 to the line.
LEMMA GrantStep ==
    ASSUME PukInv, NEW b \in Senders, SEND_REQUEST_OK(b + 1)
    PROVE  PukInv' /\ UNCHANGED <<place, puk_fifo>> /\ Told(1)' = Told(1)
  <1> DEFINE packet == Packet("REQUEST_OK")
             to == Onward(b)
             c == b + 1
  <1>1. /\ Receive(c, "SEND_REQUEST_OK") /\ queue' = Handled(c, <<>>)
        /\ Write(Back(c), packet)
        /\ UNCHANGED <<place, puk_fifo, groups, group_timers, accept_new_puk, settled, dropped>>
    BY DEF SEND_REQUEST_OK
  <1>2. TypeInv /\ \A o, q \in On2 : o = q
    BY DEF PukInv
  <1>3. /\ c \in Belts /\ Back(c) \in Ports /\ to \in Ports /\ Peer[Back(c)] = to
        /\ packet \in Carried(to) /\ packet \notin IdPackets
    BY LinkIs, CarriedIs DEF Senders
  <1>4. /\ {"NEW_PUK", "SEND_OK"} \subseteq Pulses \ {"SEND_REQUEST_OK"}
        /\ "SEND_REQUEST_OK" \in Pulses /\ <<>> \in Few
        /\ \A e : <<e>> # <<>>
    BY DEF Pulses, Few
  <1> HIDE DEF packet, to, c
  <1>5. /\ queue' \in [Belts -> Seq(Pulses)] /\ Has(queue[c], {"SEND_REQUEST_OK"})
        /\ \A d \in Belts \ {c} : queue'[d] = queue[d]
        /\ \A e \in Pulses : Has(queue'[c], {e}) => Has(queue[c], {e})
        /\ \A e \in Pulses \ {"SEND_REQUEST_OK"} : Has(queue[c], {e}) => Has(queue'[c], {e})
        /\ \A e \in Pulses : Once(queue[c], {e}) => Once(queue'[c], {e})
    BY <1>1, <1>2, <1>3, <1>4, HandledIs
  <1>6. /\ lines' \in [Ports -> Seq(Packets)] /\ failures' \in 0..MaxFailures
        /\ \A other \in Ports : lines'[other] \in Seq(Carried(other))
        /\ \A other \in Ports \ {to} : lines'[other] = lines[other]
    BY <1>1, <1>2, <1>3, WriteIs
  <1>7. TypeInv' /\ On2' = On2
    BY <1>1, <1>2, <1>5, <1>6 DEF TypeInv, On2
  <1>8. ASSUME NEW d \in Senders
        PROVE  LinkInv2(d)'
    <2>1. /\ d \in Belts /\ d + 1 \in Belts /\ Back(d + 1) \in Ports /\ Onward(d) \in Ports
          /\ Back(d + 1) # to /\ (d # b => Onward(d) # to)
      BY LinkIs, PortsApart DEF to
    <2>2. Told(d)' = Told(d) /\ (d # b => Answers(d)' = Answers(d))
      BY <1>6, <2>1 DEF Told, Answers
    <2>3. /\ Has(queue'[d + 1], {"NEW_PUK"}) <=> Has(queue[d + 1], {"NEW_PUK"})
          /\ Once(queue[d + 1], {"NEW_PUK"}) => Once(queue'[d + 1], {"NEW_PUK"})
          /\ Has(queue'[d], {"SEND_OK"}) => Has(queue[d], {"SEND_OK"})
          /\ Has(queue'[d + 1], {"SEND_REQUEST_OK"}) => Has(queue[d + 1], {"SEND_REQUEST_OK"})
      BY <1>4, <1>5, <2>1
    <2>4. Granted(d)' => Granted(d)
      <3>1. CASE d = b
        BY <1>5, <3>1 DEF Granted, c
      <3>2. CASE d # b
        BY <2>2, <2>3, <3>2 DEF Granted
      <3> QED BY <3>1, <3>2
    <2>5. Clear(d)' = Clear(d)
      BY <1>1, <1>7 DEF Clear
    <2> QED BY <1>1, <2>2, <2>3, <2>4, <2>5, LinkKept
  <1>9. Told(1)' = Told(1)
    BY <1>6, LinkIs, PortsApart DEF Told, Senders, to
  <1> QED BY <1>1, <1>2, <1>7, <1>8, <1>9 DEF PukInv, LinkInv2

\* A puk leaves the exit of belt b, or there is none.
LEMMA SendStep ==
    ASSUME PukInv, NEW b \in Senders, SEND_OK(b)
    PROVE  /\ PukInv' /\ On2' = On2 /\ puk_fifo' = puk_fifo
           /\ \/ Told(1)' = Told(1)
              \/ /\ Clear(1) /\ ~ Has(Told(1), IdPackets) /\ puk_fifo[2] = <<>>
                 /\ \E p \in Puks : \A S : Has(Told(1)', S) =>
                                             Has(Told(1), S) \/ PukPacket(p) \in S
  <1> DEFINE to == Back(b + 1)
             There == \E p \in Puks : place[p] = Exit[b]
  <1>1. /\ Receive(b, "SEND_OK") /\ queue' = Handled(b, <<>>)
        /\ UNCHANGED <<puk_fifo, groups, group_timers, accept_new_puk, dropped>>
    BY DEF SEND_OK, linkVars
  <1>2. TypeInv /\ \A o, q \in On2 : o = q
    BY DEF PukInv
  <1>3. /\ b \in Belts /\ Onward(b) \in Ports /\ to \in Ports /\ Peer[Onward(b)] = to
        /\ IdPackets \subseteq Carried(to)
    BY LinkIs, CarriedIs DEF Senders
  <1>4. /\ {"NEW_PUK", "SEND_REQUEST_OK"} \subseteq Pulses \ {"SEND_OK"}
        /\ "SEND_OK" \in Pulses /\ <<>> \in Few
        /\ \A e : <<e>> # <<>>
    BY DEF Pulses, Few
  <1> HIDE DEF to
  <1>5. /\ queue' \in [Belts -> Seq(Pulses)] /\ Has(queue[b], {"SEND_OK"})
        /\ \A c \in Belts \ {b} : queue'[c] = queue[c]
        /\ \A e \in Pulses : Has(queue'[b], {e}) => Has(queue[b], {e})
        /\ \A e \in Pulses \ {"SEND_OK"} : Has(queue[b], {e}) => Has(queue'[b], {e})
        /\ \A e \in Pulses : Once(queue[b], {e}) => Once(queue'[b], {e})
    BY <1>1, <1>2, <1>3, <1>4, HandledIs
  <1>6. ASSUME NEW d \in Senders
        PROVE  /\ Has(queue'[d + 1], {"NEW_PUK"}) <=> Has(queue[d + 1], {"NEW_PUK"})
               /\ Once(queue[d + 1], {"NEW_PUK"}) => Once(queue'[d + 1], {"NEW_PUK"})
               /\ Has(queue'[d], {"SEND_OK"}) => Has(queue[d], {"SEND_OK"})
               /\ Has(queue'[d + 1], {"SEND_REQUEST_OK"}) => Has(queue[d + 1], {"SEND_REQUEST_OK"})
    BY <1>4, <1>5, <1>6, LinkIs
  <1>7. CASE ~ There
    <2>1. UNCHANGED <<lines, place, settled, failures>>
      BY <1>7 DEF SEND_OK, linkVars
    <2>2. TypeInv' /\ On2' = On2
      BY <1>1, <1>2, <1>5, <2>1 DEF TypeInv, On2
    <2>3. ASSUME NEW d \in Senders
          PROVE  LinkInv2(d)'
      <3>1. Told(d)' = Told(d) /\ Answers(d)' = Answers(d) /\ Clear(d)' = Clear(d)
        BY <1>1, <2>1, <2>2 DEF Told, Answers, Clear
      <3>2. Granted(d)' => Granted(d)
        BY <1>6, <3>1 DEF Granted
      <3> QED BY <1>1, <1>6, <2>1, <3>1, <3>2, LinkKept
    <2> QED BY <1>1, <1>2, <2>1, <2>2, <2>3 DEF PukInv, LinkInv2, Told
  <1>8. CASE There
    <2>1. PICK p \in Puks :
             /\ place[p] = Exit[b]
             /\ place' = [place EXCEPT ![p] = IF b = 1 THEN "sent2" ELSE "leaves2"]
             /\ Write(Onward(b), PukPacket(p))
             /\ settled' = [settled EXCEPT ![b] = FALSE]
      BY <1>8 DEF SEND_OK
    <2>2. PukPacket(p) \in IdPackets
      BY DEF IdPackets
    <2>3. ExitInv(b) /\ ComingInv(b) /\ ClearInv(b)
      BY DEF PukInv
    <2>4. settled[b] /\ ~ Has(lines[to], IdPackets) /\ puk_fifo[b + 1] = <<>>
      BY <2>1, <2>3 DEF ExitInv, Told, to
    <2>5. Clear(b)
      BY <1>5, <2>3, <2>4 DEF ClearInv, Granted
    <2>6. /\ lines' \in [Ports -> Seq(Packets)] /\ failures' \in 0..MaxFailures
          /\ \A other \in Ports : lines'[other] \in Seq(Carried(other))
          /\ \A other \in Ports \ {to} : lines'[other] = lines[other]
          /\ Once(lines[to], IdPackets) => Once(lines'[to], IdPackets)
      BY <1>2, <1>3, <2>1, <2>2, <2>4, WriteIs
    <2>7. /\ place \in [Puks -> Places] /\ settled \in [Senders -> BOOLEAN]
          /\ {"sent2", "leaves2"} \subseteq Places
          /\ Exit[1] = "exit1" /\ Exit[2] = "exit2" /\ b \in {1, 2}
      BY <1>2 DEF TypeInv, Places, Exit, Senders
    <2>8. /\ place' \in [Puks -> Places] /\ settled' \in [Senders -> BOOLEAN]
          /\ place'[p] = (IF b = 1 THEN "sent2" ELSE "leaves2")
          /\ \A o \in Puks \ {p} : place'[o] = place[o]
          /\ ~ settled'[b] /\ \A d \in Senders \ {b} : settled'[d] = settled[d]
      BY <2>1, <2>7
    <2>9. TypeInv'
      BY <1>1, <1>2, <1>5, <2>6, <2>8 DEF TypeInv
    <2>10. On2' = On2
      <3>1. place[p] \in {"belt2", "exit2", "leaves2"} <=>
                place'[p] \in {"belt2", "exit2", "leaves2"}
        BY <2>1, <2>7, <2>8
      <3> QED BY <2>8, <3>1 DEF On2
    <2>11. \A d \in Senders, o \in Puks : place'[o] = Exit[d] => place[o] = Exit[d] /\ o # p
      BY <2>7, <2>8 DEF Senders
    <2>12. LinkInv2(b)'
      <3>1. ExitInv(b)'
        BY <2>1, <2>3, <2>8, <2>11 DEF ExitInv
      <3>2. ComingInv(b)'
        BY <1>1, <1>6, <2>3, <2>4, <2>6 DEF ComingInv, Told, to
      <3>3. Clear(b)'
        BY <1>1, <2>5, <2>10 DEF Clear
      <3> QED BY <3>1, <3>2, <3>3 DEF ClearInv, LinkInv2
    <2>13. ASSUME NEW d \in Senders, d # b
           PROVE  LinkInv2(d)'
      <3>1. /\ Back(d + 1) \in Ports /\ Onward(d) \in Ports
            /\ Onward(d) # to /\ Back(d + 1) # to
        BY <2>13, LinkIs, PortsApart DEF to
      <3>2. Told(d)' = Told(d) /\ Answers(d)' = Answers(d)
        BY <2>6, <3>1 DEF Told, Answers
      <3>3. Granted(d)' => Granted(d)
        BY <1>6, <3>2 DEF Granted
      <3>4. Clear(d)' = Clear(d)
        BY <1>1, <2>10 DEF Clear
      <3> QED BY <1>1, <1>6, <2>8, <2>11, <2>13, <3>2, <3>3, <3>4, LinkKept
    <2>14. \A S : Has(lines'[to], S) => Has(lines[to], S) \/ PukPacket(p) \in S
      BY <1>2, <1>3, <2>1, <2>2, WriteIs
    <2>15. PukInv'
      BY <1>1, <1>2, <2>9, <2>10, <2>12, <2>13 DEF PukInv, LinkInv2
    <2>16. CASE b = 1
      BY <1>1, <2>4, <2>5, <2>10, <2>14, <2>15, <2>16 DEF Told, to
    <2>17. CASE b = 2
      <3>1. Back(1 + 1) \in Ports /\ Back(1 + 1) # to
        BY <2>17, LinkIs DEF to, Senders
      <3> QED BY <1>1, <2>6, <2>10, <2>15, <3>1 DEF Told
    <2> QED BY <2>7, <2>16, <2>17
  <1> QED BY <1>7, <1>8

\* A queue of one.
LEMMA SingleIs ==
    ASSUME NEW T, NEW q \in Seq(T), q # <<>>, Len(q) <= 1
    PROVE  /\ Tail(q) = <<>> /\ Head(q) \in T
           /\ \A x : Has(q, {x}) <=> x = Head(q)
  <1>1. Len(q) = 1
    <2> DEFINE n == Len(q)
    <2>1. n \in Nat \ {0} /\ n <= 1
      <3>1. n \in Nat \ {0}
        BY TailElements
      <3> QED BY <3>1
    <2> HIDE DEF n
    <2>2. n = 1
      BY <2>1
    <2> QED BY <2>2 DEF n
  <1>2. Tail(q) = <<>>
    <2> DEFINE t == Tail(q)
    <2>1. t \in Seq(T) /\ Len(t) = 0
      BY <1>1
    <2> HIDE DEF t
    <2>2. t = <<>>
      BY <2>1
    <2> QED BY <2>2 DEF t
  <1>3. Head(q) = q[1] /\ DOMAIN q = {1} /\ Head(q) \in T
    BY <1>1
  <1> QED BY <1>2, <1>3 DEF Has

\* A NEW_PUK is handled, and nothing is posted.
LEMMA NewPukHandledIs ==
    ASSUME TypeInv, NEW b \in Belts, Receive(b, "NEW_PUK"), queue' = Handled(b, <<>>)
    PROVE  /\ queue' \in [Belts -> Seq(Pulses)] /\ Has(queue[b], {"NEW_PUK"})
           /\ \A c \in Belts \ {b} : queue'[c] = queue[c]
           /\ \A e \in Pulses : Has(queue'[b], {e}) => Has(queue[b], {e})
           /\ Once(queue[b], {"NEW_PUK"}) => ~ Has(queue'[b], {"NEW_PUK"})
           /\ \A e \in Pulses : Once(queue[b], {e}) => Once(queue'[b], {e})
  <1>1. "NEW_PUK" \in Pulses /\ <<>> \in Few /\ \A e : <<e>> # <<>>
    BY DEF Pulses, Few
  <1> DEFINE new == "NEW_PUK"
             few == <<>>
  <1>2. new \in Pulses /\ few \in Few /\ \A e : few # <<e>>
    BY <1>1
  <1>3. Receive(b, new) /\ queue' = Handled(b, few)
    OBVIOUS
  <1> HIDE DEF new, few
  <1>4. /\ queue' \in [Belts -> Seq(Pulses)]
        /\ \A c \in Belts \ {b} : queue'[c] = queue[c]
        /\ Has(queue[b], {new})
        /\ \A e \in Pulses : Has(queue'[b], {e}) => Has(queue[b], {e}) \/ few = <<e>>
        /\ Once(queue[b], {new}) /\ few # <<new>> => ~ Has(queue'[b], {new})
        /\ \A e \in Pulses : Once(queue[b], {e}) /\ few # <<e>> => Once(queue'[b], {e})
    BY <1>2, <1>3, HandledIs
  <1> QED BY <1>2, <1>4 DEF new

\* The puk whose id waits is put on the list of belt 2.
LEMMA NewPuk2Step ==
    ASSUME PukInv, NewPuk2
    PROVE  /\ PukInv'
           /\ Clear(1) /\ puk_fifo[2] # <<>> /\ Len(puk_fifo[2]) <= 1
           /\ ~ Has(Told(1), IdPackets)
           /\ On2' = {Head(puk_fifo[2])} /\ puk_fifo'[2] = <<>> /\ lines' = lines
  <1> DEFINE p == Head(puk_fifo[2])
  <1>1. /\ Receive(2, "NEW_PUK") /\ queue' = Handled(2, <<>>)
        /\ place' = [place EXCEPT ![p] = "belt2"]
        /\ puk_fifo' = [puk_fifo EXCEPT ![2] = Tail(puk_fifo[2])]
        /\ UNCHANGED <<lines, groups, group_timers, accept_new_puk, settled, failures, dropped>>
    BY DEF NewPuk2, linkVars
  <1>2. TypeInv /\ ExitInv(1) /\ ComingInv(1) /\ ClearInv(1)
    BY DEF PukInv, Senders
  <1>3. /\ 2 \in Belts /\ 1 + 1 = 2 /\ {"SEND_OK", "SEND_REQUEST_OK"} \subseteq Pulses \ {"NEW_PUK"}
        /\ "NEW_PUK" \in Pulses /\ <<>> \in Few
        /\ \A e : <<e>> # <<>>
    BY DEF Belts, Pulses, Few
  <1>4. /\ queue' \in [Belts -> Seq(Pulses)] /\ Has(queue[2], {"NEW_PUK"})
        /\ \A c \in Belts \ {2} : queue'[c] = queue[c]
        /\ \A e \in Pulses : Has(queue'[2], {e}) => Has(queue[2], {e})
        /\ Once(queue[2], {"NEW_PUK"}) => ~ Has(queue'[2], {"NEW_PUK"})
        /\ \A e \in Pulses : Once(queue[2], {e}) => Once(queue'[2], {e})
    BY <1>1, <1>2, <1>3, NewPukHandledIs
  <1>5. puk_fifo[2] # <<>> /\ Len(puk_fifo[2]) <= 1
    BY <1>2, <1>4 DEF ComingInv
  <1>6. /\ puk_fifo \in [Belts -> Seq(Puks)] /\ puk_fifo[2] \in Seq(Puks)
        /\ place \in [Puks -> Places] /\ "belt2" \in Places
    BY <1>2, <1>3 DEF TypeInv, Places
  <1>7. Tail(puk_fifo[2]) = <<>> /\ p \in Puks
    BY <1>5, <1>6, SingleIs
  <1>8. /\ ~ Has(Told(1), IdPackets) /\ Clear(1) /\ ~ settled[1]
        /\ ~ Has(queue'[2], {"NEW_PUK"}) /\ Once(queue'[2], {"NEW_PUK"})
        /\ Once(Told(1), IdPackets)
    BY <1>2, <1>3, <1>4, <1>5 DEF ExitInv, ComingInv, ClearInv
  <1> HIDE DEF p
  <1>9. /\ puk_fifo' \in [Belts -> Seq(Puks)] /\ puk_fifo'[2] = <<>> /\ puk_fifo'[3] = puk_fifo[3]
        /\ place' \in [Puks -> Places] /\ place'[p] = "belt2"
        /\ \A o \in Puks \ {p} : place'[o] = place[o]
    <2>1. puk_fifo' = [puk_fifo EXCEPT ![2] = <<>>]
      BY <1>1, <1>7
    <2>2. <<>> \in Seq(Puks) /\ 2 \in Belts /\ 3 \in Belts
      BY DEF Belts
    <2>3. /\ puk_fifo' \in [Belts -> Seq(Puks)] /\ puk_fifo'[2] = <<>>
          /\ puk_fifo'[3] = puk_fifo[3]
      BY <1>6, <2>1, <2>2
    <2> QED BY <1>1, <1>6, <1>7, <2>3
  <1>10. TypeInv'
    BY <1>1, <1>2, <1>4, <1>9 DEF TypeInv
  <1>11. On2' = {p}
    <2>1. \A o \in Puks : place[o] \notin {"belt2", "exit2", "leaves2"}
      BY <1>8 DEF Clear, On2
    <2> QED BY <1>7, <1>9, <2>1 DEF On2
  <1>12. \A b \in Senders, o \in Puks : place'[o] = Exit[b] => place[o] = Exit[b]
    <2>1. \A b \in Senders : Exit[b] # "belt2"
      BY DEF Exit, Senders
    <2> QED BY <1>9, <2>1
  <1>13. LinkInv2(1)'
    <2>1. Told(1)' = Told(1)
      BY <1>1 DEF Told
    <2>2. ExitInv(1)'
      BY <1>1, <1>2, <1>12 , <1>8 DEF ExitInv, Senders
    <2>3. ComingInv(1)'
      BY <1>3, <1>8, <1>9, <2>1 DEF ComingInv
    <2>4. ClearInv(1)'
      BY <1>1, <1>3, <1>8, <1>9, <2>1 DEF ClearInv
    <2> QED BY <2>2, <2>3, <2>4 DEF LinkInv2
  <1>14. LinkInv2(2)'
    <2>1. 2 \in Senders /\ 2 + 1 = 3 /\ 3 \in Belts \ {2} /\ 2 # 1
      BY DEF Senders, Belts
    <2>2. Told(2)' = Told(2) /\ Answers(2)' = Answers(2) /\ Clear(2)' = Clear(2)
      BY <1>1 DEF Told, Answers, Clear
    <2>3. Has(queue'[2], {"SEND_OK"}) => Has(queue[2], {"SEND_OK"})
      BY <1>3, <1>4
    <2>4. Granted(2)' => Granted(2)
      BY <1>4, <2>1, <2>2, <2>3 DEF Granted
    <2> QED BY <1>1, <1>4, <1>9, <1>12, <2>1, <2>2, <2>4, LinkKept, ZenonT(30)
  <1> QED BY <1>1, <1>2, <1>5, <1>8, <1>9, <1>10, <1>11, <1>13, <1>14
          DEF PukInv, LinkInv2, Senders, p

\* Belt 3 takes the puk into a group, or drops it behind one that has passed the
\* switch.
LEMMA NewPuk3Step ==
    ASSUME PukInv, NewPuk3
    PROVE  /\ PukInv' /\ UNCHANGED <<lines, place>> /\ puk_fifo'[2] = puk_fifo[2]
           /\ \/ dropped' = dropped
              \/ groups # <<>> /\ Last(groups) \in {"Switch_Open", "Exit_Belt_3"}
  <1> DEFINE p == Head(puk_fifo[3])
             Growing == {k \in DOMAIN groups : groups[k] \in {"Puk_1", "Puk_2"}}
             begin == groups = <<>> \/ Last(groups) = "Puk_3"
             join == ~ begin /\ accept_new_puk /\ Growing # {}
             first == CHOOSE k \in Growing : \A j \in Growing : k <= j
  <1>1. /\ Receive(3, "NEW_PUK") /\ queue' = Handled(3, <<>>)
        /\ puk_fifo' = [puk_fifo EXCEPT ![3] = Tail(puk_fifo[3])]
        /\ groups' = IF begin THEN Append(groups, "Puk_1")
                     ELSE IF join THEN [groups EXCEPT ![first] = Grown(groups[first])]
                     ELSE groups
        /\ group_timers' = IF begin \/ join THEN group_timers + 1 ELSE group_timers
        /\ accept_new_puk' = IF begin \/ join THEN FALSE ELSE accept_new_puk
        /\ dropped' = IF begin \/ join THEN dropped ELSE dropped \cup {p}
        /\ UNCHANGED <<lines, place, settled, failures>>
    BY DEF NewPuk3, linkVars
  <1>2. /\ TypeInv /\ ExitInv(2) /\ ComingInv(2) /\ ClearInv(2)
        /\ \A o, q \in On2 : o = q
    BY DEF PukInv, Senders
  <1>3. /\ 3 \in Belts /\ 2 + 1 = 3 /\ {"SEND_OK", "SEND_REQUEST_OK"} \subseteq Pulses \ {"NEW_PUK"}
        /\ "NEW_PUK" \in Pulses /\ <<>> \in Few
        /\ \A e : <<e>> # <<>>
    BY DEF Belts, Pulses, Few
  <1>4. /\ queue' \in [Belts -> Seq(Pulses)] /\ Has(queue[3], {"NEW_PUK"})
        /\ \A c \in Belts \ {3} : queue'[c] = queue[c]
        /\ \A e \in Pulses : Has(queue'[3], {e}) => Has(queue[3], {e})
        /\ Once(queue[3], {"NEW_PUK"}) => ~ Has(queue'[3], {"NEW_PUK"})
        /\ \A e \in Pulses : Once(queue[3], {e}) => Once(queue'[3], {e})
    BY <1>1, <1>2, <1>3, NewPukHandledIs
  <1>5. /\ puk_fifo[3] # <<>> /\ Len(puk_fifo[3]) <= 1
        /\ ~ Has(Told(2), IdPackets) /\ accept_new_puk /\ ~ settled[2]
        /\ ~ Has(queue'[3], {"NEW_PUK"}) /\ Once(queue'[3], {"NEW_PUK"})
        /\ Once(Told(2), IdPackets)
    BY <1>2, <1>3, <1>4 DEF ExitInv, ComingInv, ClearInv, Clear
  <1>6. /\ puk_fifo \in [Belts -> Seq(Puks)] /\ puk_fifo[3] \in Seq(Puks)
        /\ groups \in Seq(GroupStates) /\ group_timers \in Nat
    BY <1>2, <1>3 DEF TypeInv
  <1>7. \/ dropped' = dropped
        \/ groups # <<>> /\ Last(groups) \in {"Switch_Open", "Exit_Belt_3"}
    <2>1. CASE begin \/ join
      BY <1>1, <2>1
    <2>2. CASE ~ begin /\ Growing = {}
      <3>1. /\ Len(groups) \in DOMAIN groups /\ groups[Len(groups)] \in GroupStates
            /\ Last(groups) = groups[Len(groups)]
        BY <1>6, <2>2 DEF Last
      <3>2. Last(groups) \notin {"Puk_1", "Puk_2", "Puk_3"}
        BY <2>2, <3>1
      <3> QED BY <2>2, <3>1, <3>2 DEF GroupStates
    <2> QED BY <1>5, <2>1, <2>2
  <1>8. groups' \in Seq(GroupStates)
    <2>1. {"Puk_1", "Puk_2", "Puk_3"} \subseteq GroupStates
      BY DEF GroupStates
    <2>2. CASE begin
      BY <1>1, <1>6, <2>1, <2>2
    <2>3. CASE join /\ ~ begin
      <3>1. groups' = [groups EXCEPT ![first] = Grown(groups[first])]
        BY <1>1, <2>3
      <3>2. Grown(groups[first]) \in GroupStates
        BY <2>1 DEF Grown
      <3> HIDE DEF first, begin, join, Growing
      <3>3. CASE first \in DOMAIN groups
        BY <1>6, <3>1, <3>2, <3>3
      <3>4. CASE first \notin DOMAIN groups
        <4>1. groups' = groups
          BY <1>6, <3>1, <3>4
        <4> QED BY <1>6, <4>1
      <3> QED BY <3>3, <3>4
    <2>4. CASE ~ join /\ ~ begin
      BY <1>1, <1>6, <2>4
    <2> QED BY <2>2, <2>3, <2>4
  <1>9. /\ accept_new_puk' \in BOOLEAN /\ group_timers' \in Nat /\ dropped' \subseteq Puks
    <2>1. accept_new_puk \in BOOLEAN /\ dropped \subseteq Puks
      BY <1>2 DEF TypeInv
    <2>2. p \in Puks
      BY <1>5, <1>6, SingleIs
    <2> HIDE DEF p, begin, join
    <2>3. CASE begin \/ join
      <3>1. accept_new_puk' = FALSE /\ group_timers' = group_timers + 1 /\ dropped' = dropped
        BY <1>1, <2>3
      <3>2. group_timers' \in Nat
        BY <1>6, <3>1
      <3> QED BY <2>1, <3>1, <3>2
    <2>4. CASE ~ (begin \/ join)
      BY <1>1, <1>6, <2>1, <2>2, <2>4
    <2> QED BY <2>3, <2>4
  <1> HIDE DEF begin, join, Growing, first
  <1>10. /\ puk_fifo' \in [Belts -> Seq(Puks)] /\ puk_fifo'[3] = <<>>
         /\ puk_fifo'[2] = puk_fifo[2]
    <2>1. puk_fifo' = [puk_fifo EXCEPT ![3] = <<>>]
      BY <1>1, <1>5, <1>6, SingleIs
    <2>2. <<>> \in Seq(Puks) /\ 3 \in Belts /\ 2 \in Belts
      BY DEF Belts
    <2> QED BY <1>6, <2>1, <2>2
  <1>11. TypeInv' /\ On2' = On2
    BY <1>1, <1>2, <1>4, <1>8, <1>9, <1>10 DEF TypeInv, On2
  <1>12. LinkInv2(2)'
    <2>1. Told(2)' = Told(2)
      BY <1>1 DEF Told
    <2>2. ExitInv(2)'
      BY <1>1, <1>2, <1>5 DEF ExitInv
    <2>3. ComingInv(2)'
      BY <1>3, <1>5, <1>10, <2>1 DEF ComingInv
    <2>4. ClearInv(2)'
      BY <1>1, <1>3, <1>5, <1>10, <2>1 DEF ClearInv
    <2> QED BY <2>2, <2>3, <2>4 DEF LinkInv2
  <1>13. LinkInv2(1)'
    <2>1. 1 \in Senders /\ 1 + 1 = 2 /\ {1, 2} \subseteq Belts \ {3}
      BY DEF Senders, Belts
    <2>2. Told(1)' = Told(1) /\ Answers(1)' = Answers(1) /\ Clear(1)' = Clear(1)
      BY <1>1, <1>11 DEF Told, Answers, Clear
    <2>3. Granted(1)' => Granted(1)
      BY <1>4, <2>1, <2>2 DEF Granted
    <2> QED BY <1>1, <1>4, <1>10, <2>1, <2>2, <2>3, LinkKept
  <1> QED BY <1>1, <1>2, <1>7, <1>10, <1>11, <1>12, <1>13 DEF PukInv, LinkInv2, Senders

\* A request or an answer arrives.
LEMMA HearPlainStep ==
    ASSUME PukInv, NEW port \in Ports, HearPuk(port),
           Head(lines[port]).paket_typ # "PUK_ID"
    PROVE  /\ PukInv' /\ UNCHANGED <<place, puk_fifo>>
           /\ lines[port] # <<>> /\ Head(lines[port]) \notin IdPackets
           /\ lines' = Consumed(port)
  <1> DEFINE c == port[1]
             head == Head(lines[port])
  <1>1. /\ lines[port] # <<>> /\ lines' = Consumed(port)
        /\ \/ head.paket_typ = "REQUEST" /\ queue' = Posted(c, <<"SEND_REQUEST">>)
           \/ head.paket_typ = "REQUEST_OK" /\ queue' = Posted(c, <<"SEND_OK">>)
        /\ UNCHANGED <<place, puk_fifo, groups, group_timers, accept_new_puk, settled,
                       failures, dropped>>
    BY DEF HearPuk, Arrives
  <1>2. TypeInv /\ \A o, q \in On2 : o = q
    BY DEF PukInv
  <1>3. /\ lines' \in [Ports -> Seq(Packets)]
        /\ \A other \in Ports : lines'[other] \in Seq(Carried(other))
        /\ \A other \in Ports \ {port} : lines'[other] = lines[other]
        /\ head \in Carried(port)
        /\ \A S : Has(lines[port], S) <=> Has(lines'[port], S) \/ head \in S
        /\ \A S : Once(lines[port], S) => Once(lines'[port], S)
    BY <1>1, <1>2, HeardIs
  <1>4. c \in Belts /\ head \notin IdPackets
    BY CarriedIs DEF Ports
  <1>5. PICK few \in {<<"SEND_REQUEST">>, <<"SEND_OK">>} :
          /\ queue' = Posted(c, few)
          /\ few = <<"SEND_OK">> => head.paket_typ = "REQUEST_OK"
    <2>1. <<"SEND_REQUEST">> # <<"SEND_OK">>
      OBVIOUS
    <2> QED BY <1>1, <2>1
  <1>6. /\ few \in Few /\ {"NEW_PUK", "SEND_OK", "SEND_REQUEST_OK"} \subseteq Pulses
        /\ few # <<"NEW_PUK">> /\ few # <<"SEND_REQUEST_OK">>
    BY <1>5 DEF Few, Pulses
  <1>7. /\ queue' \in [Belts -> Seq(Pulses)]
        /\ \A d \in Belts \ {c} : queue'[d] = queue[d]
        /\ \A e \in Pulses : Has(queue'[c], {e}) <=> Has(queue[c], {e}) \/ few = <<e>>
        /\ \A e \in Pulses : Once(queue[c], {e}) /\ few # <<e>> => Once(queue'[c], {e})
    BY <1>2, <1>4, <1>5, <1>6, PostedIs
  <1>8. TypeInv' /\ On2' = On2
    BY <1>1, <1>2, <1>3, <1>7 DEF TypeInv, On2
  <1>9. ASSUME NEW d \in Senders
        PROVE  LinkInv2(d)'
    <2>1. d \in Belts /\ d + 1 \in Belts /\ Back(d + 1) \in Ports /\ Onward(d) \in Ports
      BY LinkIs
    <2>2. /\ Has(Told(d)', IdPackets) => Has(Told(d), IdPackets)
          /\ Once(Told(d), IdPackets) => Once(Told(d)', IdPackets)
          /\ \A S : Has(Answers(d)', S) => Has(Answers(d), S)
      BY <1>3, <2>1 DEF Told, Answers
    <2>3. /\ Has(queue'[d + 1], {"NEW_PUK"}) <=> Has(queue[d + 1], {"NEW_PUK"})
          /\ Once(queue[d + 1], {"NEW_PUK"}) => Once(queue'[d + 1], {"NEW_PUK"})
          /\ Has(queue'[d + 1], {"SEND_REQUEST_OK"}) => Has(queue[d + 1], {"SEND_REQUEST_OK"})
      BY <1>6, <1>7, <2>1
    <2>4. Has(queue'[d], {"SEND_OK"}) =>
              Has(queue[d], {"SEND_OK"}) \/ Has(Answers(d), {Packet("REQUEST_OK")})
      <3>1. CASE few = <<"SEND_OK">> /\ c = d
        <4>1. head.paket_typ = "REQUEST_OK"
          BY <1>5, <3>1
        <4>2. port \in {<<1, 1>>, <<2, 2>>} /\ head = Packet("REQUEST_OK")
          <5>1. port \notin {<<1, 2>>, <<3, 2>>}
            BY <1>3, CarriedIs
          <5>2. port \notin {<<2, 1>>, <<3, 1>>}
            <6>1. \A e \in {Packet("REQUEST")} \cup IdPackets : e.paket_typ # "REQUEST_OK"
              BY CarriedIs
            <6> HIDE DEF head
            <6> QED BY <1>3, <4>1, <6>1, CarriedIs
          <5>3. port \in {<<1, 1>>, <<2, 2>>}
            BY <5>1, <5>2, PeerIs
          <5> QED BY <1>3, <5>3, CarriedIs
        <4>3. port = Onward(d)
          BY <3>1, <4>2, LinkIs DEF Senders
        <4>4. Has(lines[port], {head})
          BY <1>3
        <4> QED BY <4>2, <4>3, <4>4 DEF Answers
      <3>2. CASE ~ (few = <<"SEND_OK">> /\ c = d)
        BY <1>6, <1>7, <2>1, <3>2
      <3> QED BY <3>1, <3>2
    <2>5. Granted(d)' => Granted(d)
      BY <2>2, <2>3, <2>4 DEF Granted
    <2>6. Clear(d)' = Clear(d)
      BY <1>1, <1>8 DEF Clear
    <2>7. settled'[d] = settled[d] /\ puk_fifo'[d + 1] = puk_fifo[d + 1]
      BY <1>1
    <2> QED BY <1>1, <2>2, <2>3, <2>5, <2>6, <2>7, LinkKept
  <1> QED BY <1>1, <1>2, <1>4, <1>8, <1>9 DEF PukInv, LinkInv2

\* The id of a puk arrives.
LEMMA HearIdStep ==
    ASSUME PukInv, NEW port \in Ports, HearPuk(port),
           Head(lines[port]).paket_typ = "PUK_ID"
    PROVE  /\ PukInv' /\ place' = place
           /\ Head(lines[port]) \in IdPackets
           /\ \E b \in Senders :
                  /\ port = Back(b + 1)
                  /\ puk_fifo[b + 1] = <<>>
                  /\ puk_fifo' = [puk_fifo EXCEPT ![b + 1] = <<Head(lines[port]).puk_id>>]
           /\ lines[port] # <<>> /\ lines' = Consumed(port)
  <1> DEFINE head == Head(lines[port])
             id == head.puk_id
  <1>1. /\ lines[port] # <<>> /\ lines' = Consumed(port)
        /\ queue' = Posted(port[1], <<"NEW_PUK">>)
        /\ puk_fifo' = [puk_fifo EXCEPT ![port[1]] = Append(puk_fifo[port[1]], id)]
        /\ UNCHANGED <<place, groups, group_timers, accept_new_puk, settled,
                       failures, dropped>>
    BY DEF HearPuk, Arrives
  <1>2. TypeInv /\ \A o, q \in On2 : o = q
    BY DEF PukInv
  <1>3. /\ lines' \in [Ports -> Seq(Packets)]
        /\ \A other \in Ports : lines'[other] \in Seq(Carried(other))
        /\ \A other \in Ports \ {port} : lines'[other] = lines[other]
        /\ head \in Carried(port)
        /\ \A S : Has(lines[port], S) <=> Has(lines'[port], S) \/ head \in S
        /\ \A S : Once(lines[port], S) =>
                  Once(lines'[port], S) /\ (head \in S => ~ Has(lines'[port], S))
    BY <1>1, <1>2, HeardIs
  <1> HIDE DEF head
  <1>4. port \in {<<2, 1>>, <<3, 1>>} /\ head \in IdPackets /\ id \in Puks
    <2>1. head.paket_typ = "PUK_ID"
      BY DEF head
    <2>2. port \in {<<2, 1>>, <<3, 1>>}
      BY <1>3, <2>1, CarriedIs, PeerIs
    <2>3. head \in IdPackets
      BY <1>3, <2>1, <2>2, CarriedIs
    <2> QED BY <2>2, <2>3, CarriedIs
  <1> HIDE DEF id
  <1>5. PICK b \in Senders : port = Back(b + 1) /\ port[1] = b + 1
    <2>1. 1 \in Senders /\ 2 \in Senders /\ 1 + 1 = 2 /\ 2 + 1 = 3
      BY DEF Senders
    <2> QED BY <1>4, <2>1, LinkIs
  <1> DEFINE c == b + 1
  <1>6. /\ b \in Belts /\ c \in Belts /\ c = port[1]
        /\ <<"NEW_PUK">> \in Few
        /\ {"NEW_PUK", "SEND_OK", "SEND_REQUEST_OK"} \subseteq Pulses
    BY <1>5, LinkIs DEF Few, Pulses
  <1>7. ExitInv(b) /\ ComingInv(b) /\ ClearInv(b) /\ Told(b) = lines[port] /\ Told(b)' = lines'[port]
    BY <1>5 DEF PukInv, Told
  <1>8. /\ Has(Told(b), IdPackets) /\ puk_fifo[c] = <<>> /\ ~ settled[b] /\ Clear(b)
        /\ ~ Has(queue[c], {"NEW_PUK"})
        /\ ~ Has(Told(b)', IdPackets) /\ Once(Told(b)', IdPackets)
    BY <1>3, <1>4, <1>7 DEF ExitInv, ComingInv, ClearInv
  <1>9. /\ queue' \in [Belts -> Seq(Pulses)]
        /\ \A d \in Belts \ {c} : queue'[d] = queue[d]
        /\ \A e \in Pulses : Has(queue'[c], {e}) <=> Has(queue[c], {e}) \/ <<"NEW_PUK">> = <<e>>
        /\ \A e \in Pulses : Once(queue[c], {e}) /\ (<<"NEW_PUK">> = <<e>> => ~ Has(queue[c], {e})) =>
                              Once(queue'[c], {e})
    <2>1. queue' = Posted(c, <<"NEW_PUK">>)
      BY <1>1, <1>6
    <2> HIDE DEF c
    <2> QED BY <1>2, <1>6, <2>1, PostedIs
  <1>10. \A e \in Pulses : <<"NEW_PUK">> = <<e>> <=> e = "NEW_PUK"
    OBVIOUS
  <1>11. /\ puk_fifo \in [Belts -> Seq(Puks)] /\ <<id>> \in Seq(Puks)
         /\ puk_fifo' = [puk_fifo EXCEPT ![c] = <<id>>]
    <2>1. puk_fifo \in [Belts -> Seq(Puks)]
      BY <1>2 DEF TypeInv
    <2>2. Append(puk_fifo[c], id) = <<id>>
      BY <1>8
    <2>3. <<id>> \in Seq(Puks)
      BY <1>4
    <2>4. puk_fifo' = [puk_fifo EXCEPT ![c] = Append(puk_fifo[c], id)]
      BY <1>1, <1>6
    <2> HIDE DEF c
    <2>5. puk_fifo' = [puk_fifo EXCEPT ![c] = <<id>>]
      BY <2>2, <2>4
    <2> QED BY <2>1, <2>3, <2>5
  <1>12. /\ puk_fifo' \in [Belts -> Seq(Puks)] /\ puk_fifo'[c] = <<id>>
         /\ \A d \in Belts \ {c} : puk_fifo'[d] = puk_fifo[d]
    BY <1>6, <1>11
  <1> HIDE DEF c
  <1>13. TypeInv' /\ On2' = On2
    BY <1>1, <1>2, <1>3, <1>9, <1>12 DEF TypeInv, On2
  <1>14. LinkInv2(b)'
    <2>1. ExitInv(b)'
      BY <1>1, <1>7, <1>8 DEF ExitInv
    <2>2. Has(queue'[c], {"NEW_PUK"}) /\ Once(queue'[c], {"NEW_PUK"})
      BY <1>6, <1>7, <1>8, <1>9, <1>10 DEF ComingInv, c
    <2>3. <<id>> # <<>> /\ Len(<<id>>) = 1
      OBVIOUS
    <2>4. ComingInv(b)'
      BY <1>8, <1>12, <2>2, <2>3 DEF ComingInv, c
    <2>5. Clear(b)' = Clear(b) /\ settled' = settled
      BY <1>1, <1>13 DEF Clear
    <2>6. ClearInv(b)'
      BY <1>8, <2>5 DEF ClearInv
    <2> QED BY <2>1, <2>4, <2>6 DEF LinkInv2
  <1>15. ASSUME NEW d \in Senders, d # b
         PROVE  LinkInv2(d)'
    <2>1. /\ d \in Belts /\ d + 1 \in Belts /\ d + 1 # c
          /\ Back(d + 1) \in Ports /\ Onward(d) \in Ports
          /\ Back(d + 1) # port /\ Onward(d) # port
      BY <1>5, <1>15, LinkIs, PortsApart DEF c, Senders
    <2>2. Told(d)' = Told(d) /\ Answers(d)' = Answers(d)
      BY <1>3, <2>1 DEF Told, Answers
    <2>3. queue'[d + 1] = queue[d + 1] /\ puk_fifo'[d + 1] = puk_fifo[d + 1]
      BY <1>9, <1>12, <2>1
    <2>4. Has(queue'[d], {"SEND_OK"}) => Has(queue[d], {"SEND_OK"})
      BY <1>6, <1>9, <1>10, <2>1
    <2>5. Granted(d)' => Granted(d)
      BY <2>2, <2>3, <2>4 DEF Granted
    <2>6. Clear(d)' = Clear(d) /\ settled'[d] = settled[d]
      BY <1>1, <1>13 DEF Clear
    <2> QED BY <1>1, <2>2, <2>3, <2>5, <2>6, LinkKept
  <1>16. PukInv'
    BY <1>1, <1>2, <1>13, <1>14, <1>15 DEF PukInv, LinkInv2
  <1> QED BY <1>1, <1>4, <1>5, <1>8, <1>11, <1>16 DEF c, id, head

-----------------------------------------------------------------------------
\* The invariant of Plant that is about puks.

\* The invariant at the beginning,
LEMMA PukInvInit ==
    ASSUME LinesInit, HandoverInit
    PROVE  PukInv
  <1>1. /\ lines = [port \in Ports |-> <<>>]
        /\ queue = [b \in Belts |-> <<>>]
        /\ place = [p \in Puks |-> "belt1"]
        /\ puk_fifo = [b \in Belts |-> <<>>]
        /\ groups = <<>> /\ group_timers = 0 /\ accept_new_puk = TRUE
        /\ settled = [b \in Senders |-> TRUE]
        /\ failures = 0 /\ dropped = {}
    BY DEF LinesInit, HandoverInit
  <1>2. TypeInv
    <2>1. \A T : <<>> \in Seq(T)
      OBVIOUS
    <2>2. "belt1" \in Places /\ 0 \in 0..MaxFailures
      BY MaxFailuresAssumption DEF Places
    <2> QED BY <1>1, <2>1, <2>2 DEF TypeInv
  <1>3. On2 = {}
    BY <1>1 DEF On2
  <1>4. ASSUME NEW b \in Senders
        PROVE  LinkInv2(b)
    <2>1. /\ Told(b) = <<>> /\ Answers(b) = <<>> /\ puk_fifo[b + 1] = <<>>
          /\ queue[b] = <<>> /\ queue[b + 1] = <<>>
          /\ \A p \in Puks : place[p] = "belt1"
      BY <1>1, LinkIs DEF Told, Answers
    <2>2. \A S : ~ Has(<<>>, S) /\ Once(<<>>, S)
      BY DEF Has, Once
    <2>3. Exit[b] # "belt1"
      BY DEF Exit, Senders
    <2>4. ExitInv(b)
      BY <2>1, <2>2, <2>3 DEF ExitInv
    <2>5. ComingInv(b)
      BY <2>1, <2>2 DEF ComingInv
    <2>6. ClearInv(b)
      BY <2>1, <2>2 DEF ClearInv, Granted
    <2> QED BY <2>4, <2>5, <2>6 DEF LinkInv2
  <1> QED BY <1>1, <1>2, <1>3, <1>4 DEF PukInv, LinkInv2

\* and in every step of the hand-over.
LEMMA PukInvNext ==
    ASSUME PukInv, HandoverNext
    PROVE  PukInv'
  <1>1. CASE \E b \in Belts : Dispatch(b)
    <2>1. PICK b \in Belts : Dispatch(b)
      BY <1>1
    <2>2. b = 1 \/ b = 2 \/ b = 3
      BY DEF Belts
    <2>3. CASE b # 3 /\ (SEND_WANT(b) \/ SEND_OK(b))
      <3>1. b \in Senders
        BY <2>2, <2>3 DEF Senders
      <3> QED BY <2>3, <3>1, WantStep, SendStep
    <2>4. CASE b # 1 /\ SEND_REQUEST(b)
      BY <2>4, RequestStep
    <2>5. CASE b # 1 /\ SEND_REQUEST_OK(b)
      <3>1. PICK d \in Senders : b = d + 1
        BY <2>2, <2>5 DEF Senders
      <3> QED BY <2>5, <3>1, GrantStep
    <2>6. CASE NewPuk2
      BY <2>6, NewPuk2Step
    <2>7. CASE NewPuk3
      BY <2>7, NewPuk3Step
    <2> QED BY <2>1, <2>3, <2>4, <2>5, <2>6, <2>7 DEF Dispatch
  <1>2. CASE \E b \in Senders : Settle(b)
    BY <1>2, SettleStep
  <1>3. CASE \E p \in Puks : LIGHT_BARRIER_EXIT_CLOSE(1, p) \/ LIGHT_BARRIER_EXIT_CLOSE(2, p)
    <2>1. 1 \in Senders /\ 2 \in Senders
      BY DEF Senders
    <2> QED BY <1>3, <2>1, ExitStep
  <1>4. CASE \E p \in Puks : Removed(p) \/ TIMER_EXIT_OUT(p)
    BY <1>4, LeaveStep
  <1>5. CASE TIMER_GROUP_OUT \/ GroupPasses \/ GroupTaken
    BY <1>5, GroupStep
  <1>6. CASE \E port \in Ports : HearPuk(port)
    BY <1>6, HearPlainStep, HearIdStep
  <1> QED BY <1>1, <1>2, <1>3, <1>4, <1>5, <1>6 DEF HandoverNext, GoesOn

\* While the traffic is that of the E-stop nothing is handed over, and no packet
\* tells an id.
IdLike == {e \in Packets : e.puk_id # NoPuk}
NoIds == \A port \in Ports : ~ Has(lines[port], IdLike)

PassInv ==
    /\ traffic = "puks" => PukInv
    /\ traffic = "stops" => HandoverInit /\ NoIds

\* The packets of buttons tell no id.
LEMMA NoIdsBroadcast ==
    ASSUME lines \in [Ports -> Seq(Packets)], failures \in 0..MaxFailures, NoIds, NEW b \in Belts,
           NEW typ \in PaketTyp, NEW lost \in SUBSET Hearing[b], Broadcast(b, typ, lost)
    PROVE  NoIds'
  <1> DEFINE e == Packet(typ)
  <1>1. e \in Packets /\ e \notin IdLike
    BY PacketIs DEF Packet, IdLike
  <1>2. \A port \in Ports :
            lines'[port] = IF Peer[port][1] = b /\ port \notin lost
                           THEN Append(lines[port], e) ELSE lines[port]
    BY BroadcastIs
  <1> HIDE DEF e
  <1>3. ASSUME NEW port \in Ports
        PROVE  ~ Has(lines'[port], IdLike)
    <2> DEFINE L == lines[port]
    <2>1. L \in Seq(Packets) /\ ~ Has(L, IdLike)
      BY DEF NoIds
    <2>2. lines'[port] = Append(L, e) \/ lines'[port] = L
      BY <1>2
    <2> HIDE DEF L
    <2>3. ~ Has(Append(L, e), IdLike)
      BY <1>1, <2>1, HasAppended
    <2> QED BY <2>1, <2>2, <2>3
  <1> QED BY <1>3 DEF NoIds

\* A packet less tells no id either.
LEMMA NoIdsHeard ==
    ASSUME lines \in [Ports -> Seq(Packets)], NoIds, NEW port \in Ports,
           lines[port] # <<>>, lines' = Consumed(port)
    PROVE  NoIds'
  <1>1. /\ lines'[port] = Tail(lines[port])
        /\ \A other \in Ports \ {port} : lines'[other] = lines[other]
    BY ConsumedIs
  <1>2. ~ Has(lines'[port], IdLike)
    <2> DEFINE L == lines[port]
    <2>1. L \in Seq(Packets) /\ L # <<>> /\ ~ Has(L, IdLike) /\ lines'[port] = Tail(L)
      BY <1>1 DEF NoIds
    <2> HIDE DEF L
    <2> QED BY <2>1, HasTail
  <1> QED BY <1>1, <1>2 DEF NoIds

\* No step of the E-stop brings an id.
LEMMA NoIdsNext ==
    ASSUME RingInv, NoIds, RingNext
    PROVE  NoIds'
  <1>1. lines \in [Ports -> Seq(Packets)] /\ failures \in 0..MaxFailures
    BY DEF RingInv
  <1>2. CASE \E b \in Belts : \/ ESTOP_THIS(b) \/ ESTOP_RELEASED_THIS(b)
                              \/ BUTTON_RESET(b) \/ BUTTON_START(b)
    <2>1. PICK b \in Belts, typ \in {"ESTOP", "RELEASED", "RESET", "START"} :
              \E lost \in SUBSET Hearing[b] : Broadcast(b, typ, lost)
      BY <1>2 DEF ESTOP_THIS, ESTOP_RELEASED_THIS, BUTTON_RESET, BUTTON_START
    <2>2. typ \in PaketTyp
      BY DEF PaketTyp
    <2> QED BY <1>1, <2>1, <2>2, NoIdsBroadcast
  <1>3. CASE \E port \in Ports : HearStop(port)
    <2>1. PICK port \in Ports : lines[port] # <<>> /\ lines' = Consumed(port)
      BY <1>3 DEF HearStop, Arrives
    <2> QED BY <1>1, <2>1, NoIdsHeard
  <1> QED BY <1>2, <1>3 DEF RingNext

\* The invariant of Plant at the beginning,
LEMMA PassInvInit ==
    ASSUME Init
    PROVE  PassInv
  <1>1. LinesInit /\ HandoverInit
    BY DEF Init
  <1>2. PukInv
    BY <1>1, PukInvInit
  <1>3. NoIds
    <2>1. \A port \in Ports : lines[port] = <<>>
      BY <1>1 DEF LinesInit
    <2> QED BY <2>1 DEF NoIds, Has
  <1> QED BY <1>1, <1>2, <1>3 DEF PassInv

\* in every step,
LEMMA PassInvNext ==
    ASSUME StopInv, PassInv, [Next]_vars
    PROVE  PassInv'
  <1>1. CASE Stop(RingNext)
    <2>1. /\ traffic = "stops" /\ traffic' = traffic /\ RingNext /\ RingInv
          /\ HandoverInit /\ NoIds /\ UNCHANGED pukVars
      BY <1>1 DEF Stop, StopInv, PassInv
    <2>2. HandoverInit'
      BY <2>1 DEF HandoverInit, pukVars
    <2> QED BY <2>1, <2>2, NoIdsNext DEF PassInv
  <1>2. CASE Pass(HandoverNext)
    BY <1>2, PukInvNext DEF Pass, PassInv
  <1>3. CASE UNCHANGED vars
    <2>1. /\ traffic' = traffic /\ lines' = lines /\ queue' = queue /\ place' = place
          /\ puk_fifo' = puk_fifo /\ groups' = groups /\ group_timers' = group_timers
          /\ accept_new_puk' = accept_new_puk /\ settled' = settled
          /\ failures' = failures /\ dropped' = dropped
      BY <1>3 DEF vars, pukVars, linkVars
    <2>2. On2' = On2 /\ \A b : /\ Told(b)' = Told(b) /\ Answers(b)' = Answers(b)
      BY <2>1 DEF On2, Told, Answers
    <2>3. \A b : Clear(b)' = Clear(b) /\ Granted(b)' = Granted(b)
      BY <2>1, <2>2 DEF Clear, Granted
    <2>4. \A b \in Senders : LinkInv2(b) => LinkInv2(b)'
      BY <2>1, <2>2, <2>3 DEF LinkInv2, ExitInv, ComingInv, ClearInv
    <2>5. PukInv => PukInv'
      BY <2>1, <2>2, <2>4 DEF PukInv, LinkInv2, TypeInv
    <2> QED BY <2>1, <2>5 DEF PassInv, HandoverInit, NoIds
  <1> QED BY <1>1, <1>2, <1>3 DEF Next

\* and always.
LEMMA PassInvHolds == Spec => [](StopInv /\ PassInv)
  <1>1. Init => PassInv
    BY PassInvInit
  <1>2. StopInv /\ PassInv /\ [Next]_vars => PassInv'
    BY PassInvNext
  <1> QED BY <1>1, <1>2, StopInvHolds, PTL DEF Spec

\* Only the step that handles NEW_PUK at belt 3 drops a puk.
LEMMA OthersDropNone ==
    ASSUME HandoverNext
    PROVE  dropped' = dropped \/ NewPuk3
  <1>1. CASE \E b \in Belts : Dispatch(b)
    BY <1>1 DEF Dispatch, SEND_WANT, SEND_OK, SEND_REQUEST, SEND_REQUEST_OK, NewPuk2
  <1>2. CASE \E b \in Senders : Settle(b)
    BY <1>2 DEF Settle
  <1>3. CASE \E p \in Puks : LIGHT_BARRIER_EXIT_CLOSE(1, p) \/ LIGHT_BARRIER_EXIT_CLOSE(2, p)
    BY <1>3 DEF LIGHT_BARRIER_EXIT_CLOSE
  <1>4. CASE \E p \in Puks : Removed(p) \/ TIMER_EXIT_OUT(p)
    BY <1>4 DEF Removed, TIMER_EXIT_OUT
  <1>5. CASE TIMER_GROUP_OUT \/ GroupPasses \/ GroupTaken
    BY <1>5 DEF TIMER_GROUP_OUT, GroupPasses, GroupTaken
  <1>6. CASE \E port \in Ports : HearPuk(port)
    BY <1>6 DEF HearPuk
  <1> QED BY <1>1, <1>2, <1>3, <1>4, <1>5, <1>6 DEF HandoverNext, GoesOn

\* However the steps of the hand-over interleave, whatever packets are lost and
\* however many puks there are: a puk that comes to belt 3 and joins no group
\* there came behind one that has passed the switch.  Belt 3 is told of no puk
\* while it does not accept one, so a group that waits for its timer, or for
\* another puk, loses none (Puk_control.cpp:67-76, 210-261).
THEOREM PlantDropsBehindSwitch == Spec => DroppedBehindSwitch
  <1>1. ASSUME PassInv, [Next]_vars
        PROVE  [groups # <<>> /\ Last(groups) \in {"Switch_Open", "Exit_Belt_3"}]_dropped
    <2>1. CASE Stop(RingNext) \/ UNCHANGED vars
      BY <2>1 DEF Stop, vars, pukVars
    <2>2. CASE Pass(HandoverNext)
      <3>1. PukInv /\ HandoverNext
        BY <1>1, <2>2 DEF Pass, PassInv
      <3> QED BY <3>1, OthersDropNone, NewPuk3Step
    <2> QED BY <1>1, <2>1, <2>2 DEF Next
  <1> QED BY <1>1, PassInvHolds, PTL DEF Spec, DroppedBehindSwitch

\* The variables of the plant keep their types.  The proof needs that a NEW_PUK
\* is never handled without an id in puk_fifo: the code would read the front of
\* an empty std::queue (serial_receive.cpp:148).
THEOREM PlantTypeCorrect == Spec => []TypeOK
  <1>1. ASSUME StopInv, PassInv
        PROVE  TypeOK
    <2>1. /\ fsm \in [Belts -> [1..3 -> FsmStates]] /\ pressed \subseteq Belts
          /\ presses \in Nat /\ heard \subseteq Ports
      <3>1. CASE traffic = "stops"
        BY <1>1, <3>1 DEF StopInv, RingInv
      <3>2. CASE traffic = "puks"
        <4>1. "Idle" \in FsmStates
          BY DEF FsmStates
        <4> QED BY <1>1, <3>2, <4>1 DEF StopInv, RingInit
      <3> QED BY <1>1, <3>1, <3>2 DEF StopInv
    <2>2. CASE traffic = "puks"
      BY <1>1, <2>1, <2>2 DEF TypeOK, PassInv, PukInv, TypeInv
    <2>3. CASE traffic = "stops"
      <3>1. /\ lines \in [Ports -> Seq(Packets)] /\ failures \in 0..MaxFailures
            /\ HandoverInit
        BY <1>1, <2>3 DEF StopInv, RingInv, PassInv
      <3>2. \A T : <<>> \in Seq(T)
        OBVIOUS
      <3>3. "belt1" \in Places
        BY DEF Places
      <3> QED BY <2>1, <2>3, <3>1, <3>2, <3>3 DEF TypeOK, HandoverInit
    <2> QED BY <1>1, <2>2, <2>3 DEF StopInv
  <1> QED BY <1>1, PassInvHolds, PTL

-----------------------------------------------------------------------------
\* Belt 2 is handed one puk at a time: the refinement of FreeBelt.

Listed2 == On2 \cup Coming2

\* The puks a line tells of.
LEMMA TellsIs ==
    ASSUME NEW L \in Seq(Carried(<<2, 1>>)), NEW p \in Puks
    PROVE  (\E k \in DOMAIN L : L[k].puk_id = p) <=> Has(L, {PukPacket(p)})
  <1>1. \A k \in DOMAIN L : L[k] \in Carried(<<2, 1>>)
    OBVIOUS
  <1>2. \A e \in Carried(<<2, 1>>) : e.puk_id = p <=> e = PukPacket(p)
    <2>1. Packet("REQUEST").puk_id = 0 /\ p # 0
      BY DEF Packet, NoPuk, Puks
    <2>2. \A o \in Puks : PukPacket(o).puk_id = o
      BY DEF PukPacket
    <2>3. \A e \in IdPackets : e.puk_id = p <=> e = PukPacket(p)
      BY <2>2 DEF IdPackets
    <2>4. Packet("REQUEST") # PukPacket(p)
      BY <2>1, <2>2
    <2> QED BY <2>1, <2>3, <2>4, CarriedIs
  <1> QED BY <1>1, <1>2 DEF Has

\* What belt 2 will have, in a state and in the next one.
LEMMA ComingIs ==
    ASSUME TypeInv
    PROVE  Coming2 = {p \in Puks : Has(Told(1), {PukPacket(p)}) \/ Has(puk_fifo[2], {p})}
  <1>1. Told(1) = lines[<<2, 1>>] /\ <<2, 1>> \in Ports
    BY LinkIs, PeerIs DEF Told
  <1>2. Told(1) \in Seq(Carried(<<2, 1>>))
    BY <1>1 DEF TypeInv
  <1>3. \A p \in Puks : (\E k \in DOMAIN Told(1) : Told(1)[k].puk_id = p)
                            <=> Has(Told(1), {PukPacket(p)})
    BY <1>2, TellsIs
  <1>4. \A p : (\E k \in DOMAIN puk_fifo[2] : puk_fifo[2][k] = p) <=> Has(puk_fifo[2], {p})
    BY DEF Has
  <1> QED BY <1>1, <1>3, <1>4 DEF Coming2

\* The same after a step.
LEMMA ComingNextIs ==
    ASSUME TypeInv'
    PROVE  Coming2' = {p \in Puks : Has(Told(1)', {PukPacket(p)}) \/ Has(puk_fifo'[2], {p})}
  <1>1. Told(1)' = lines'[<<2, 1>>] /\ <<2, 1>> \in Ports
    BY LinkIs, PeerIs DEF Told
  <1>2. Told(1)' \in Seq(Carried(<<2, 1>>))
    BY <1>1 DEF TypeInv
  <1>3. \A p \in Puks : (\E k \in DOMAIN Told(1)' : Told(1)'[k].puk_id = p)
                            <=> Has(Told(1)', {PukPacket(p)})
    BY <1>2, TellsIs
  <1>4. \A p : (\E k \in DOMAIN puk_fifo'[2] : puk_fifo'[2][k] = p) <=> Has(puk_fifo'[2], {p})
    BY DEF Has
  <1> QED BY <1>1, <1>3, <1>4 DEF Coming2

\* A step that neither tells an id nor takes one.
LEMMA SameList ==
    ASSUME PukInv, PukInv', On2' = On2, puk_fifo'[2] = puk_fifo[2],
           \A p \in Puks : Has(Told(1)', {PukPacket(p)}) <=> Has(Told(1), {PukPacket(p)})
    PROVE  Listed2' = Listed2
  <1>1. Coming2' = Coming2
    BY ComingIs, ComingNextIs DEF PukInv
  <1> QED BY <1>1 DEF Listed2

\* What there is of ids in the invariant.
LEMMA IdsAre ==
    ASSUME NEW L, ~ Has(L, IdPackets), NEW p \in Puks
    PROVE  ~ Has(L, {PukPacket(p)})
  BY DEF Has, IdPackets

Refined == \/ Listed2' = Listed2
           \/ \E p \in Puks : Listed2 = {} /\ Listed2' = {p}
           \/ Listed2 # {} /\ Listed2' = {}

\* A puk is handed over from belt 1: Take.
LEMMA SendRefines ==
    ASSUME PukInv, NEW b \in Senders, SEND_OK(b)
    PROVE  Refined
  <1>1. PukInv' /\ On2' = On2 /\ puk_fifo' = puk_fifo
    BY SendStep
  <1>2. CASE Told(1)' = Told(1)
    BY <1>1, <1>2, SameList DEF Refined
  <1>3. CASE /\ Clear(1) /\ ~ Has(Told(1), IdPackets) /\ puk_fifo[2] = <<>>
             /\ \E p \in Puks : \A S : Has(Told(1)', S) => Has(Told(1), S) \/ PukPacket(p) \in S
    <2>1. PICK p \in Puks : \A S : Has(Told(1)', S) => Has(Told(1), S) \/ PukPacket(p) \in S
      BY <1>3
    <2>2. \A o : ~ Has(<<>>, {o})
      BY DEF Has
    <2>3. On2 = {}
      BY <1>3 DEF Clear
    <2>4. \A o \in Puks : ~ Has(Told(1), {PukPacket(o)})
      BY <1>3, IdsAre
    <2>5. Coming2 = {}
      BY <1>3, <2>2, <2>4, ComingIs DEF PukInv
    <2>6. \A o \in Puks : Has(Told(1)', {PukPacket(o)}) => o = p
      <3>1. \A o \in Puks : PukPacket(p) = PukPacket(o) => o = p
        BY DEF PukPacket
      <3> QED BY <2>1, <2>4, <3>1
    <2>7. Coming2' \subseteq {p}
      BY <1>1, <1>3, <2>2, <2>6, ComingNextIs DEF PukInv
    <2> QED BY <1>1, <2>3, <2>5, <2>7 DEF Refined, Listed2
  <1> QED BY <1>2, <1>3, SendStep

\* It is put on the list: a stutter.
LEMMA NewPuk2Refines ==
    ASSUME PukInv, NewPuk2
    PROVE  Refined
  <1> DEFINE q == puk_fifo[2]
  <1>1. /\ PukInv' /\ Clear(1) /\ q # <<>> /\ Len(q) <= 1
        /\ ~ Has(Told(1), IdPackets) /\ Told(1)' = Told(1)
        /\ On2' = {Head(q)} /\ puk_fifo'[2] = <<>>
    BY NewPuk2Step DEF Told
  <1>2. q \in Seq(Puks)
    BY DEF PukInv, TypeInv, Belts
  <1> HIDE DEF q
  <1>3. Head(q) \in Puks /\ \A o : Has(q, {o}) <=> o = Head(q)
    BY <1>1, <1>2, SingleIs
  <1>4. \A o \in Puks : ~ Has(Told(1), {PukPacket(o)})
    BY <1>1, IdsAre
  <1>5. Coming2 = {Head(q)}
    BY <1>3, <1>4, ComingIs DEF PukInv, q
  <1>6. Coming2' = {}
    <2>1. \A o : ~ Has(<<>>, {o})
      BY DEF Has
    <2> QED BY <1>1, <1>4, <2>1, ComingNextIs DEF PukInv
  <1> QED BY <1>1, <1>5, <1>6 DEF Refined, Listed2, Clear

\* Its id passes from the line to the queue of ids: a stutter.
LEMMA HearIdRefines ==
    ASSUME PukInv, NEW port \in Ports, HearPuk(port),
           Head(lines[port]).paket_typ = "PUK_ID"
    PROVE  Refined
  <1> DEFINE head == Head(lines[port])
             id == head.puk_id
  <1>1. /\ PukInv' /\ place' = place /\ head \in IdPackets
        /\ lines[port] # <<>> /\ lines' = Consumed(port)
    BY HearIdStep
  <1>2. PICK b \in Senders :
            /\ port = Back(b + 1) /\ puk_fifo[b + 1] = <<>>
            /\ puk_fifo' = [puk_fifo EXCEPT ![b + 1] = <<id>>]
    BY HearIdStep
  <1>3. /\ \A other \in Ports \ {port} : lines'[other] = lines[other]
        /\ \A S : Has(lines[port], S) <=> Has(lines'[port], S) \/ head \in S
        /\ \A S : Once(lines[port], S) => (head \in S => ~ Has(lines'[port], S))
    BY <1>1, HeardIs DEF PukInv
  <1>4. On2' = On2
    BY <1>1 DEF On2
  <1>5. puk_fifo \in [Belts -> Seq(Puks)] /\ 2 \in Belts /\ 3 \in Belts
    BY DEF PukInv, TypeInv, Belts
  <1>6. id \in Puks /\ head = PukPacket(id)
    BY <1>1 DEF IdPackets, PukPacket
  <1> HIDE DEF head, id
  <1>7. CASE b = 1
    <2>1. Told(1) = lines[port] /\ Told(1)' = lines'[port] /\ 1 + 1 = 2 /\ ComingInv(1)
      BY <1>2, <1>7 DEF Told, PukInv
    <2>2. \A o \in Puks : ~ Has(Told(1)', {PukPacket(o)})
      <3>1. ~ Has(lines'[port], IdPackets)
        BY <1>1, <1>3, <2>1 DEF ComingInv
      <3> QED BY <2>1, <3>1, IdsAre
    <2>3. \A o \in Puks : Has(Told(1), {PukPacket(o)}) <=> o = id
      <3>1. \A o \in Puks : PukPacket(id) = PukPacket(o) <=> o = id
        BY <1>6 DEF PukPacket
      <3>2. \A o \in Puks : head \in {PukPacket(o)} <=> o = id
        BY <1>6, <3>1
      <3> QED BY <1>3, <2>1, <2>2, <3>2
    <2>4. puk_fifo[2] = <<>> /\ puk_fifo'[2] = <<id>>
      BY <1>2, <1>5, <1>7, <2>1
    <2>5. \A o : ~ Has(<<>>, {o}) /\ (Has(<<id>>, {o}) <=> o = id)
      BY DEF Has
    <2>6. Coming2 = {id}
      BY <1>6, <2>3, <2>4, <2>5, ComingIs DEF PukInv
    <2>7. Coming2' = {id}
      BY <1>1, <1>6, <2>2, <2>4, <2>5, ComingNextIs DEF PukInv
    <2> QED BY <1>4, <2>6, <2>7 DEF Refined, Listed2
  <1>8. CASE b = 2
    <2>1. 2 + 1 = 3 /\ puk_fifo'[2] = puk_fifo[2]
      BY <1>2, <1>5, <1>8
    <2>2. Back(2) # port /\ Back(2) \in Ports /\ 1 + 1 = 2
      BY <1>2, <1>8, LinkIs DEF Senders
    <2>3. Told(1)' = Told(1)
      BY <1>3, <2>2 DEF Told
    <2> QED BY <1>1, <1>4, <2>1, <2>3, SameList DEF Refined
  <1> QED BY <1>7, <1>8 DEF Senders

\* A puk leaves the list of belt 2, and no other one comes yet: GiveUp.
LEMMA LeaveRefines ==
    ASSUME PukInv, NEW p \in Puks, Removed(p) \/ TIMER_EXIT_OUT(p)
    PROVE  Refined
  <1>1. /\ PukInv' /\ p \in On2 /\ On2' = On2 \ {p} /\ UNCHANGED <<lines, puk_fifo>>
    BY LeaveStep
  <1>2. \A o, q \in On2 : o = q
    BY DEF PukInv
  <1>3. ~ Has(Told(1), IdPackets) /\ puk_fifo[2] = <<>>
    <2>1. ClearInv(1) /\ 1 + 1 = 2
      BY DEF PukInv, Senders
    <2>2. ~ Clear(1)
      BY <1>1 DEF Clear
    <2> QED BY <2>1, <2>2 DEF ClearInv
  <1>4. \A o \in Puks : ~ Has(Told(1), {PukPacket(o)})
    BY <1>3, IdsAre
  <1>5. Coming2' = {}
    <2>1. \A o : ~ Has(<<>>, {o})
      BY DEF Has
    <2>2. Told(1)' = Told(1)
      BY <1>1 DEF Told
    <2> QED BY <1>1, <1>3, <1>4, <2>1, <2>2, ComingNextIs DEF PukInv
  <1> QED BY <1>1, <1>2, <1>5 DEF Refined, Listed2

\* A packet that tells no id arrives.
LEMMA HearPlainRefines ==
    ASSUME PukInv, NEW port \in Ports, HearPuk(port),
           Head(lines[port]).paket_typ # "PUK_ID"
    PROVE  Refined
  <1> DEFINE head == Head(lines[port])
  <1>1. /\ PukInv' /\ UNCHANGED <<place, puk_fifo>>
        /\ lines[port] # <<>> /\ head \notin IdPackets /\ lines' = Consumed(port)
    BY HearPlainStep
  <1>2. /\ \A other \in Ports \ {port} : lines'[other] = lines[other]
        /\ \A S : Has(lines[port], S) <=> Has(lines'[port], S) \/ head \in S
    BY <1>1, HeardIs DEF PukInv
  <1> HIDE DEF head
  <1>3. ASSUME NEW o \in Puks
        PROVE  Has(Told(1)', {PukPacket(o)}) <=> Has(Told(1), {PukPacket(o)})
    <2>1. head \notin {PukPacket(o)}
      BY <1>1 DEF IdPackets
    <2>2. Back(1 + 1) \in Ports
      BY LinkIs DEF Senders
    <2> QED BY <1>2, <2>1, <2>2 DEF Told
  <1>4. On2' = On2
    BY <1>1 DEF On2
  <1> QED BY <1>1, <1>3, <1>4, SameList DEF Refined

\* The other steps.
LEMMA HandoverRefines ==
    ASSUME PukInv, HandoverNext
    PROVE  Refined
  <1>1. ASSUME PukInv', On2' = On2, puk_fifo'[2] = puk_fifo[2], Told(1)' = Told(1)
        PROVE  Refined
    BY <1>1, SameList DEF Refined
  <1>2. ASSUME PukInv', UNCHANGED <<lines, place, puk_fifo>>
        PROVE  Refined
    BY <1>1, <1>2 DEF On2, Told
  <1>3. CASE \E b \in Belts : Dispatch(b)
    <2>1. PICK b \in Belts : Dispatch(b)
      BY <1>3
    <2>2. b = 1 \/ b = 2 \/ b = 3
      BY DEF Belts
    <2>3. CASE b # 3 /\ SEND_WANT(b)
      <3>1. b \in Senders
        BY <2>2, <2>3 DEF Senders
      <3>2. /\ PukInv' /\ UNCHANGED <<place, puk_fifo>>
            /\ \A S : Packet("REQUEST") \notin S => (Has(Told(1)', S) <=> Has(Told(1), S))
        BY <2>3, <3>1, WantStep
      <3>3. \A p \in Puks : Packet("REQUEST") \notin {PukPacket(p)}
        BY CarriedIs DEF IdPackets
      <3>4. On2' = On2
        BY <3>2 DEF On2
      <3> QED BY <3>2, <3>3, <3>4, SameList DEF Refined
    <2>4. CASE b # 3 /\ SEND_OK(b)
      <3>1. b \in Senders
        BY <2>2, <2>4 DEF Senders
      <3> QED BY <2>4, <3>1, SendRefines
    <2>5. CASE b # 1 /\ SEND_REQUEST(b)
      BY <1>2, <2>5, RequestStep
    <2>6. CASE b # 1 /\ SEND_REQUEST_OK(b)
      <3>1. PICK d \in Senders : b = d + 1
        BY <2>2, <2>6 DEF Senders
      <3>2. PukInv' /\ UNCHANGED <<place, puk_fifo>> /\ Told(1)' = Told(1)
        BY <2>6, <3>1, GrantStep
      <3>3. On2' = On2
        BY <3>2 DEF On2
      <3> QED BY <1>1, <3>2, <3>3
    <2>7. CASE NewPuk2
      BY <2>7, NewPuk2Refines
    <2>8. CASE NewPuk3
      <3>1. PukInv' /\ UNCHANGED <<lines, place>> /\ puk_fifo'[2] = puk_fifo[2]
        BY <2>8, NewPuk3Step
      <3>2. On2' = On2 /\ Told(1)' = Told(1)
        BY <3>1 DEF On2, Told
      <3> QED BY <1>1, <3>1, <3>2
    <2> QED BY <2>1, <2>3, <2>4, <2>5, <2>6, <2>7, <2>8 DEF Dispatch
  <1>4. CASE \E b \in Senders : Settle(b)
    BY <1>2, <1>4, SettleStep
  <1>5. CASE \E p \in Puks : LIGHT_BARRIER_EXIT_CLOSE(1, p) \/ LIGHT_BARRIER_EXIT_CLOSE(2, p)
    <2>1. 1 \in Senders /\ 2 \in Senders
      BY DEF Senders
    <2>2. PukInv' /\ On2' = On2 /\ UNCHANGED <<lines, puk_fifo>>
      BY <1>5, <2>1, ExitStep
    <2> QED BY <1>1, <2>2 DEF Told
  <1>6. CASE \E p \in Puks : Removed(p) \/ TIMER_EXIT_OUT(p)
    BY <1>6, LeaveRefines
  <1>7. CASE TIMER_GROUP_OUT \/ GroupPasses \/ GroupTaken
    BY <1>2, <1>7, GroupStep
  <1>8. CASE \E port \in Ports : HearPuk(port)
    BY <1>8, HearPlainRefines, HearIdRefines
  <1> QED BY <1>3, <1>4, <1>5, <1>6, <1>7, <1>8 DEF HandoverNext, GoesOn

\* While nothing is handed over the list is empty.
LEMMA NoneListed ==
    ASSUME HandoverInit, NoIds, lines \in [Ports -> Seq(Packets)]
    PROVE  Listed2 = {}
  <1>1. On2 = {}
    BY DEF On2, HandoverInit
  <1>2. puk_fifo[2] = <<>>
    BY DEF HandoverInit, Belts
  <1>3. lines[<<2, 1>>] \in Seq(Packets) /\ ~ Has(lines[<<2, 1>>], IdLike)
    BY PeerIs DEF NoIds
  <1>4. \A p \in Puks, k \in DOMAIN lines[<<2, 1>>] : lines[<<2, 1>>][k].puk_id # p
    <2>1. \A p \in Puks : p # NoPuk
      BY DEF Puks, NoPuk
    <2>2. \A k \in DOMAIN lines[<<2, 1>>] : lines[<<2, 1>>][k] \in Packets
      BY <1>3
    <2> QED BY <1>3, <2>1, <2>2 DEF Has, IdLike
  <1> QED BY <1>1, <1>2, <1>4 DEF Listed2, Coming2

NoneAtStops == traffic = "stops" => Listed2 = {}

\* The list is empty at the beginning.
LEMMA RefinedInit ==
    ASSUME Init
    PROVE  Listed2 = {}
  <1>1. HandoverInit /\ \A port \in Ports : lines[port] = <<>>
    BY DEF Init, LinesInit
  <1>2. On2 = {}
    BY <1>1 DEF On2, HandoverInit
  <1>3. puk_fifo[2] = <<>> /\ lines[<<2, 1>>] = <<>>
    BY <1>1, PeerIs DEF HandoverInit, Belts
  <1> QED BY <1>2, <1>3 DEF Coming2, Listed2

\* Every step of the plant is one of FreeBelt or a stutter.
LEMMA RefinedNext ==
    ASSUME StopInv, PassInv, NoneAtStops, NoneAtStops', [Next]_vars
    PROVE  Refined
  <1>1. CASE Stop(RingNext)
    BY <1>1 DEF Stop, NoneAtStops, Refined
  <1>2. CASE Pass(HandoverNext)
    BY <1>2, HandoverRefines DEF Pass, PassInv
  <1>3. CASE UNCHANGED vars
    <2>1. place' = place /\ lines' = lines /\ puk_fifo' = puk_fifo
      BY <1>3 DEF vars, pukVars, linkVars
    <2> QED BY <2>1 DEF Refined, Listed2, On2, Coming2
  <1> QED BY <1>1, <1>2, <1>3 DEF Next

\* Belt 1 hands a puk over only when belt 2 has none, and none is on its way
\* there: although belt 2 grants puks nobody has asked for, and counts a puk only
\* when it hears of it (Puk_control.cpp:67-76, 210-227, 229-243).  Whatever is
\* lost, with any number of puks, each step of the plant is a step of FreeBelt
\* or leaves its variable alone.
THEOREM PlantOneAtATime == Spec => OneAtATime
  <1>1. Init => Belt2!Init
    BY RefinedInit DEF Belt2!Init, Listed2
  <1>2. StopInv /\ PassInv => NoneAtStops
    BY NoneListed DEF NoneAtStops, StopInv, PassInv, RingInv
  <1>3. /\ StopInv /\ PassInv /\ NoneAtStops /\ NoneAtStops' /\ [Next]_vars
        => [Belt2!Next]_(On2 \cup Coming2)
    <2> SUFFICES ASSUME StopInv, PassInv, NoneAtStops, NoneAtStops', [Next]_vars
                 PROVE  [Belt2!Next]_(On2 \cup Coming2)
      OBVIOUS
    <2>1. Refined
      BY RefinedNext
    <2> QED BY <2>1 DEF Refined, Listed2, Belt2!Next, Belt2!Take, Belt2!GiveUp
  <1> QED BY <1>1, <1>2, <1>3, PassInvHolds, PTL DEF Spec, OneAtATime, Belt2!Spec
===========================================================================
