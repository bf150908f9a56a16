------------------------------ MODULE Handover ------------------------------
(***************************************************************************)
(* How a puk gets from belt 1 to belt 2 and from belt 2 to belt 3: the     *)
(* belt whose exit it has reached asks (REQUEST), the next one answers     *)
(* when it can take a puk (REQUEST_OK) and is told which puk comes         *)
(* (PUK_ID).  A belt that cannot take one does not answer; it answers,     *)
(* unasked, when a puk is deleted or the time of a group is over.          *)
(*                                                                         *)
(* Of the ways of a puk along its belt only what matters to the next belt  *)
(* is kept, and of belt 3 the groups with their barriers, which may report *)
(* at any time (PukControl has the rest).  A write that fails between      *)
(* header and data of a PUK_ID, which would garble the line, is left out.  *)
(***************************************************************************)
EXTENDS SerialLink

CONSTANT MaxPuks    \* puks laid on belt 1

ASSUME MaxPuksAssumption == MaxPuks \in Nat

VARIABLES
    queue,           \* the pulses waiting at each belt
    place,           \* where each puk is
    puk_fifo,        \* ids read from ser1 of each belt
    groups,          \* the states of the groups on belt 3
    group_timers,    \* how many of their timers run
    accept_new_puk,  \* of belt 3
    settled,         \* nothing of the last hand-over from this belt is under way
    dropped          \* puks that came to belt 3 and joined no group

pukVars == <<queue, place, puk_fifo, groups, group_timers, accept_new_puk,
             settled, dropped>>

Puks == 1..MaxPuks
Pulses == {"SEND_WANT", "SEND_OK", "SEND_REQUEST", "SEND_REQUEST_OK", "NEW_PUK"}
Senders == {1, 2}

\* The states of a puk: on belt 1, in Transmit there, handed over, on belt 2,
\* in Transmit or To_Next_Geme there, handed over to belt 3; or deleted.
Places == {"belt1", "exit1", "sent2", "belt2", "exit2", "leaves2", "sent3", "gone"}
Exit == <<"exit1", "exit2">>
On2 == {p \in Puks : place[p] \in {"belt2", "exit2", "leaves2"}}

\* The port through which a belt talks to the next, the one by which it talks
\* to the one before.
Onward(b) == IF b = 2 THEN <<2, 2>> ELSE <<b, 1>>
Back(b) == <<b, 1>>

HandoverInit ==
    /\ queue = [b \in Belts |-> <<>>]
    /\ place = [p \in Puks |-> "belt1"]
    /\ puk_fifo = [b \in Belts |-> <<>>]
    /\ groups = <<>> /\ group_timers = 0 /\ accept_new_puk = TRUE
    /\ settled = [b \in Senders |-> TRUE]
    /\ dropped = {}

-----------------------------------------------------------------------------
\* What SEND_REQUEST() posts at belt b when list is what is on belt 2.  A
\* variant that does not look at the list, and one that does not look at
\* accept_new_puk:
Answer_AnyList(b, list, accept) ==
    IF b = 2 \/ (b = 3 /\ accept) THEN <<"SEND_REQUEST_OK">> ELSE <<>>
Answer_Always(b, list, accept) ==
    IF (b = 2 /\ list = {}) \/ b = 3 THEN <<"SEND_REQUEST_OK">> ELSE <<>>
Answer(b, list, accept) ==
    IF (b = 2 /\ list = {}) \/ (b = 3 /\ accept) THEN <<"SEND_REQUEST_OK">> ELSE <<>>

\* What delete_puk() posts.  A variant that does not call SEND_REQUEST():
DeleteSent_Nothing(b, list, accept) == <<>>
DeleteSent(b, list, accept) == Answer(b, list, accept)

Receive(b, pulse) == queue[b] # <<>> /\ Head(queue[b]) = pulse
Handled(b, pulses) == [queue EXCEPT ![b] = Tail(@) \o pulses]
Posted(b, pulses) == [queue EXCEPT ![b] = @ \o pulses]

-----------------------------------------------------------------------------
\* Something that can make the next belt grant a puk to belt b, or has.
UnderWay(b) ==
    LET out == lines[Peer[Onward(b)]]
        in == lines[Onward(b)]
    IN  \/ \E k \in DOMAIN out : out[k].paket_typ \in {"REQUEST", "PUK_ID"}
        \/ \E k \in DOMAIN in : in[k].paket_typ = "REQUEST_OK"
        \/ \E k \in DOMAIN queue[b] : queue[b][k] \in {"SEND_WANT", "SEND_OK"}
        \/ \E k \in DOMAIN queue[b + 1] :
               queue[b + 1][k] \in {"SEND_REQUEST", "NEW_PUK", "SEND_REQUEST_OK"}

\* The next puk needs seconds from where it is to the exit, the packets of the
\* hand-over before it need milliseconds.
Settle(b) ==
    /\ ~ settled[b]
    /\ ~ UnderWay(b)
    /\ settled' = [settled EXCEPT ![b] = TRUE]
    /\ UNCHANGED <<linkVars, queue, place, puk_fifo, groups, group_timers, accept_new_puk,
                   dropped>>

\* A puk reaches the exit: its belt stops, so no other one gets there.  The
\* puks are numbered in the order in which belt 1 passes them on.
LIGHT_BARRIER_EXIT_CLOSE(b, p) ==
    /\ place[p] = (IF b = 1 THEN "belt1" ELSE "belt2")
    /\ b = 1 => \A o \in 1..(p - 1) : place[o] # "belt1"
    /\ \A o \in Puks : place[o] # Exit[b]
    /\ settled[b]
    /\ place' = [place EXCEPT ![p] = Exit[b]]
    /\ queue' = Posted(b, <<"SEND_WANT">>)
    /\ UNCHANGED <<linkVars, puk_fifo, groups, group_timers, accept_new_puk, settled,
                   dropped>>

\* A puk on belt 2 is sorted out, or lost and acknowledged.
Removed(p) ==
    /\ place[p] = "belt2"
    /\ place' = [place EXCEPT ![p] = "gone"]
    /\ queue' = Posted(2, DeleteSent(2, On2 \ {p}, accept_new_puk))
    /\ UNCHANGED <<linkVars, puk_fifo, groups, group_timers, accept_new_puk, settled,
                   dropped>>

\* TIMER_EXIT_OUT: the puk has left belt 2.  (On belt 1 SEND_REQUEST() does
\* nothing.)
TIMER_EXIT_OUT(p) ==
    /\ place[p] = "leaves2"
    /\ place' = [place EXCEPT ![p] = "sent3"]
    /\ queue' = Posted(2, DeleteSent(2, On2 \ {p}, accept_new_puk))
    /\ UNCHANGED <<linkVars, puk_fifo, groups, group_timers, accept_new_puk, settled,
                   dropped>>

-----------------------------------------------------------------------------
\* Pulses of Serial_Manager and Puk_control.

SEND_WANT(b) ==
    /\ Receive(b, "SEND_WANT")
    /\ queue' = Handled(b, <<>>)
    /\ Write(Onward(b), Packet("REQUEST"))
    /\ UNCHANGED <<place, puk_fifo, groups, group_timers, accept_new_puk, settled, dropped>>

SEND_REQUEST(b) ==
    /\ Receive(b, "SEND_REQUEST")
    /\ queue' = Handled(b, Answer(b, On2, accept_new_puk))
    /\ UNCHANGED <<linkVars, place, puk_fifo, groups, group_timers, accept_new_puk, settled,
                   dropped>>

SEND_REQUEST_OK(b) ==
    /\ Receive(b, "SEND_REQUEST_OK")
    /\ queue' = Handled(b, <<>>)
    /\ Write(Back(b), Packet("REQUEST_OK"))
    /\ UNCHANGED <<place, puk_fifo, groups, group_timers, accept_new_puk, settled, dropped>>

\* Transmit::send_ok() writes the packet at once; a SEND_WANT that is still in
\* the queue goes out after it.  Without a puk in Transmit nothing happens.
SEND_OK(b) ==
    /\ Receive(b, "SEND_OK")
    /\ queue' = Handled(b, <<>>)
    /\ IF \E p \in Puks : place[p] = Exit[b]
       THEN \E p \in Puks :
               /\ place[p] = Exit[b]
               /\ place' = [place EXCEPT ![p] = IF b = 1 THEN "sent2" ELSE "leaves2"]
               /\ Write(Onward(b), PukPacket(p))
               /\ settled' = [settled EXCEPT ![b] = FALSE]
       ELSE UNCHANGED <<linkVars, place, settled>>
    /\ UNCHANGED <<puk_fifo, groups, group_timers, accept_new_puk, dropped>>

\* NEW_PUK() of belt 2 lists the puk whose id waits in puk_fifo.
NewPuk2 ==
    /\ Receive(2, "NEW_PUK")
    /\ queue' = Handled(2, <<>>)
    /\ place' = [place EXCEPT ![Head(puk_fifo[2])] = "belt2"]
    /\ puk_fifo' = [puk_fifo EXCEPT ![2] = Tail(@)]
    /\ UNCHANGED <<linkVars, groups, group_timers, accept_new_puk, settled, dropped>>

\* The states of a group on belt 3 that have a method for the group's timer;
\* behind the switch there is none.
GroupStates == {"Puk_1", "Puk_2", "Puk_3", "Switch_Open", "Exit_Belt_3"}
Collecting == {"Puk_1", "Puk_2", "Puk_3"}

\* The first group of belt 3 in state s goes on to state t.
Goes(s, t) ==
    LET Found == {k \in DOMAIN groups : groups[k] = s}
        first == CHOOSE k \in Found : \A j \in Found : k <= j
    IN  Found # {} /\ groups' = [groups EXCEPT ![first] = t]

\* NEW_PUK() of belt 3 begins a group or adds the puk to the first group that
\* takes one; if none does, nobody knows of it.
Grown(g) == IF g = "Puk_1" THEN "Puk_2" ELSE "Puk_3"
NewPuk3 ==
    LET p == Head(puk_fifo[3])
        Growing == {k \in DOMAIN groups : groups[k] \in {"Puk_1", "Puk_2"}}
        begin == groups = <<>> \/ Last(groups) = "Puk_3"
        join == ~ begin /\ accept_new_puk /\ Growing # {}
        first == CHOOSE k \in Growing : \A j \in Growing : k <= j
    IN  /\ Receive(3, "NEW_PUK")
        /\ queue' = Handled(3, <<>>)
        /\ puk_fifo' = [puk_fifo EXCEPT ![3] = Tail(@)]
        /\ groups' = IF begin THEN Append(groups, "Puk_1")
                     ELSE IF join THEN [groups EXCEPT ![first] = Grown(@)]
                     ELSE groups
        /\ group_timers' = IF begin \/ join THEN group_timers + 1 ELSE group_timers
        /\ accept_new_puk' = IF begin \/ join THEN FALSE ELSE accept_new_puk
        /\ dropped' = IF begin \/ join THEN dropped ELSE dropped \cup {p}
        /\ UNCHANGED <<linkVars, place, settled>>

\* The pulse of a group's timer: a group that is not behind the switch takes
\* it, whichever it is.
TIMER_GROUP_OUT ==
    /\ group_timers > 0
    /\ group_timers' = group_timers - 1
    /\ IF \E k \in DOMAIN groups : groups[k] \in Collecting
       THEN accept_new_puk' = TRUE /\ queue' = Posted(3, Answer(3, On2, TRUE))
       ELSE UNCHANGED <<accept_new_puk, queue>>
    /\ UNCHANGED <<linkVars, place, puk_fifo, groups, settled, dropped>>

\* LIGHT_BARRIER_SWITCH_CLOSE of belt 3, the one that makes counter two, and
\* LIGHT_BARRIER_EXIT_CLOSE.
GroupPasses ==
    /\ Goes("Puk_3", "Switch_Open") \/ Goes("Switch_Open", "Exit_Belt_3")
    /\ UNCHANGED <<linkVars, queue, place, puk_fifo, group_timers, accept_new_puk,
                   settled, dropped>>

\* BUTTON_START of belt 3: an operator has taken the first group at the exit.
GroupTaken ==
    /\ \E k \in DOMAIN groups :
          /\ groups[k] = "Exit_Belt_3"
          /\ \A j \in 1..(k - 1) : groups[j] # "Exit_Belt_3"
          /\ groups' = RemoveAt(groups, k)
    /\ queue' = Posted(3, DeleteSent(3, On2, accept_new_puk))
    /\ UNCHANGED <<linkVars, place, puk_fifo, group_timers, accept_new_puk,
                   settled, dropped>>

\* The receiving thread of a port; the ids of ser2 are read by nobody.
HearPuk(port) ==
    LET b == port[1]
    IN  /\ \/ Arrives(port, "REQUEST") /\ queue' = Posted(b, <<"SEND_REQUEST">>)
              /\ UNCHANGED puk_fifo
           \/ Arrives(port, "REQUEST_OK") /\ queue' = Posted(b, <<"SEND_OK">>)
              /\ UNCHANGED puk_fifo
           \/ Arrives(port, "PUK_ID") /\ queue' = Posted(b, <<"NEW_PUK">>)
              /\ puk_fifo' = [puk_fifo EXCEPT ![b] = Append(@, Head(lines[port]).puk_id)]
        /\ lines' = Consumed(port)
        /\ UNCHANGED <<place, groups, group_timers, accept_new_puk, settled, failures, dropped>>

Dispatch(b) ==
    \/ b # 3 /\ (SEND_WANT(b) \/ SEND_OK(b))
    \/ b # 1 /\ (SEND_REQUEST(b) \/ SEND_REQUEST_OK(b))
    \/ b = 2 /\ NewPuk2
    \/ b = 3 /\ NewPuk3

\* What happens of itself, and what need not happen.
GoesOn ==
    \/ \E b \in Belts : Dispatch(b)
    \/ \E b \in Senders : Settle(b)
    \/ \E p \in Puks : LIGHT_BARRIER_EXIT_CLOSE(2, p) \/ Removed(p) \/ TIMER_EXIT_OUT(p)
    \/ TIMER_GROUP_OUT
    \/ \E port \in Ports : HearPuk(port)

HandoverNext ==
    \/ GoesOn
    \/ \E p \in Puks : LIGHT_BARRIER_EXIT_CLOSE(1, p)
    \/ GroupPasses
    \/ GroupTaken

-----------------------------------------------------------------------------
\* The puks belt 2 has or will have, as far as its link knows.
Coming2 ==
    {p \in Puks : \/ \E k \in DOMAIN lines[<<2, 1>>] : lines[<<2, 1>>][k].puk_id = p
                  \/ \E k \in DOMAIN puk_fifo[2] : puk_fifo[2][k] = p}

\* Belt 1 hands a puk over only when belt 2 is free, although belt 2 grants
\* puks nobody has asked for, and counts a puk only when it hears of it
\* (Puk_control.cpp:67-76, 210-227, 229-243).
Belt2 == INSTANCE FreeBelt WITH Puk <- Puks, onBelt <- On2 \cup Coming2
OneAtATime == Belt2!Spec

\* A puk never comes to a group that waits for its timer: belt 3 has granted it
\* when it could take one, and could not be asked for another meanwhile.  The
\* one group a puk may be dropped behind is one that has passed the switch
\* (Puk_control.cpp:210-261, puk_fsm_dummy.h:365-458).
DroppedBehindSwitch ==
    [][groups # <<>> /\ Last(groups) \in {"Switch_Open", "Exit_Belt_3"}]_dropped

\* A group waits in front of the switch when its timer runs out, where the
\* belt has carried it in the time of its three timers (8 s, the switch is 11 s
\* away): some group takes the pulse.
Heeded == group_timers > 0 => \E k \in DOMAIN groups : groups[k] \in Collecting

\* No puk waits at an exit for good, if no packet is lost and timers of groups
\* are heeded: the answer to a request that was refused comes later, unasked.
Served ==
    [](failures = 0 /\ Heeded) =>
        []<>(\A p \in Puks : place[p] \notin {"exit1", "exit2"})
=============================================================================
