---------------------------- MODULE PortAProofs ----------------------------
(***************************************************************************)
(* Proofs about port A: whatever pulses come in whatever order, however    *)
(* many wait, and wherever the blink threads are when they are destroyed.  *)
(***************************************************************************)
EXTENDS PortA, PulseQueues, FiniteSetTheorems

-----------------------------------------------------------------------------
\* The inductive invariant: what todo can be, and what is true of the lights,
\* the motor and the switch meanwhile.

Signals == LightEvents \ {"TRAFFIC_LIGHT_NEW_PUK"}

\* The rest of the handler of a signal, after all lights are cleared and while
\* the blink threads are commanded one after the other.
Ending ==
    IF signal = "TRAFFIC_LIGHT_NORMAL" THEN Set("GREEN")
    ELSE IF signal = "TRAFFIC_LIGHT_RDY" THEN Set("GREEN") \o Do("blink", "GREEN")
    ELSE IF signal = "TRAFFIC_LIGHT_UNACK_ERROR" THEN Set("RED") \o Do("blink", "RED")
    ELSE Do("blink", "RED")
Target == IF signal = "TRAFFIC_LIGHT_RDY" THEN "GREEN" ELSE "RED"
AfterYellow == stop_blink("GREEN") \o Ending
AfterRed == stop_blink("YELLOW") \o AfterYellow
Stops == stop_blink("RED") \o AfterRed

\* The handlers of the motor: what is left of them, from the last thing to the
\* first one.  Between Enter and Leave is clear_set().
Halt == Set("STOP_BIT")
Speed == IF commanded = "MOTOR_SLOW" THEN Set("SLOW_BIT") ELSE Clear("SLOW_BIT")
Leave == Do("unlock", "bo_mtx") \o Speed
GoRight == Set("RIGHT_BIT") \o Leave
NotLeft == Clear("LEFT_BIT") \o GoRight
Enter == Do("lock", "bo_mtx") \o NotLeft
Unstop == Clear("STOP_BIT") \o Enter
Go == Set("RIGHT_BIT") \o Unstop

\* The handlers of the switch.
TimerWork == Do("start_timer", "switch")
OpenWork == Set("OPEN_BIT") \o TimerWork
CloseWork == Clear("OPEN_BIT")

\* Colours without a thread; colours whose lights are as LitLights says; a
\* thread whose light the destructor has cleared.
Gone(C) == \A c \in C : bl_threads[c] = NoThread
Lit(C) == \A c \in C : c \in port => c \in Steady \/ bl_threads[c] # NoThread \/ c \in late
Dying(c) == bl_threads[c] # NoThread /\ (c \in port => c \in late)

\* What of the port a handler of the motor has set right already.
Going == commanded # "MOTOR_STOP" /\ "RIGHT_BIT" \in port
Unhalted == Going /\ "STOP_BIT" \notin port
Ahead == Unhalted /\ "LEFT_BIT" \notin port
MotorPhase ==
    \/ todo = Halt /\ commanded = "MOTOR_STOP"
    \/ todo = Go /\ commanded # "MOTOR_STOP"
    \/ todo = Unstop /\ Going
    \/ (todo = Enter \/ todo = NotLeft) /\ Unhalted
    \/ (todo = GoRight \/ todo = Leave \/ todo = Speed) /\ Ahead

SwitchPhase ==
    \/ (todo = OpenWork \/ todo = TimerWork) /\ switch = "Open"
    \/ todo = CloseWork /\ switch = "Close"

YellowPhase ==
    \/ todo = Do("blink", "YELLOW")
    \/ todo = stop_blink("YELLOW") \o Do("start", "YELLOW")
    \/ todo = Do("destroy", "YELLOW") \o Do("start", "YELLOW") /\ Dying("YELLOW")

ClearPhase ==
    \/ todo = Clear("RED") \o (Clear("YELLOW") \o (Clear("GREEN") \o Stops))
    \/ todo = Clear("YELLOW") \o (Clear("GREEN") \o Stops) /\ Lit({"RED"})
    \/ todo = Clear("GREEN") \o Stops /\ Lit({"RED", "YELLOW"})

StopPhase ==
    \/ todo = Stops
    \/ todo = Do("destroy", "RED") \o AfterRed /\ Dying("RED")
    \/ todo = Do("destroy", "YELLOW") \o AfterYellow /\ Dying("YELLOW") /\ Gone({"RED"})
    \/ todo = Do("destroy", "GREEN") \o Ending /\ Dying("GREEN") /\ Gone({"RED", "YELLOW"})

BlinkPhase ==
    /\ todo = Do("blink", Target) \/ todo = Do("start", Target)
    /\ signal # "TRAFFIC_LIGHT_NORMAL"
    /\ Gone(Colours) /\ Lit(Colours \ {Target})

LightPhase ==
    \/ todo = <<>> /\ Lit(Colours)
    \/ YellowPhase /\ Lit(Colours)
    \/ signal \in Signals /\ ClearPhase
    \/ signal \in Signals /\ StopPhase /\ Lit(Colours)
    \/ signal \in Signals /\ BlinkPhase

WorkInv == ((MotorPhase \/ SwitchPhase) /\ Lit(Colours)) \/ LightPhase

\* A thread that changes the port has read what is there, as it holds bo_mtx.
\* The dispatcher is not in the middle of a change when it does other things:
\* when clear_set() unlocks, for one.
ReadInv ==
    /\ DOMAIN read \subseteq {bo_mtx} \ {Unheld, Dead}
    /\ \A t \in DOMAIN read : read[t] = port
    /\ Dispatcher \in DOMAIN read => todo # <<>> /\ Head(todo).do \in {"set", "clear"}

\* The blink threads are those that Signal_light knows of.
ThreadsInv ==
    /\ \A t \in DOMAIN blinking : bl_threads[blinking[t].colour] = t
    /\ \A c \in Colours : bl_threads[c] # NoThread =>
           bl_threads[c] \in DOMAIN blinking /\ blinking[bl_threads[c]].colour = c

\* The bits are right unless the handler that changes them has yet to do so.
MotorRight ==
    /\ "STOP_BIT" \in port <=> commanded = "MOTOR_STOP"
    /\ commanded # "MOTOR_STOP" =>
           /\ "SLOW_BIT" \in port <=> commanded = "MOTOR_SLOW"
           /\ "RIGHT_BIT" \in port /\ "LEFT_BIT" \notin port
BitsInv ==
    /\ MotorPhase \/ MotorRight
    /\ todo # OpenWork /\ todo # CloseWork => ("OPEN_BIT" \in port <=> switch = "Open")

\* The timer of an opening; strays counts all the others, and their pulses.
Starting == todo = OpenWork \/ todo = TimerWork
TimedInv ==
    switch = "Open" /\ ~ Starting =>
        timed \/ \E k \in DOMAIN queue : queue[k] = "TIMER_SWITCH_OUT"

Count(q, e) == Cardinality({k \in DOMAIN q : q[k] = e})
One(x) == IF x THEN 1 ELSE 0
CountInv ==
    LET pulses == Count(queue, "TIMER_SWITCH_OUT")
    IN  IF switch = "Close" \/ Starting
        THEN pulses + others + One(timed) = strays
        ELSE pulses + others = strays + One(~ timed)

SwitchInv == DOMAIN listeners = SwitchEvents /\ Registered /\ TimedInv /\ CountInv
PortInv == WorkInv /\ ReadInv /\ ThreadsInv /\ BitsInv
Inv == TypeOK /\ PortInv /\ SwitchInv

-----------------------------------------------------------------------------
\* What todo consists of.

Whats == {"set", "clear", "lock", "unlock", "blink", "start", "destroy", "start_timer"}
Parts == Bits \cup {"switch", "bo_mtx"}
Ops == [do : Whats, of : Parts]

\* Sequences that begin with one thing to do.
LEMMA DoIs ==
    ASSUME NEW what \in Whats,
           NEW of \in Parts, NEW s \in Seq(Ops)
    PROVE  /\ Do(what, of) \in Seq(Ops) /\ Do(what, of) # <<>>
           /\ Head(Do(what, of)) = [do |-> what, of |-> of] /\ Tail(Do(what, of)) = <<>>
           /\ Do(what, of) \o s \in Seq(Ops) /\ Do(what, of) \o s # <<>>
           /\ Head(Do(what, of) \o s) = [do |-> what, of |-> of]
           /\ Tail(Do(what, of) \o s) = s
  <1> DEFINE op == [do |-> what, of |-> of]
             r == <<op>> \o s
  <1>1. op \in Ops
    BY DEF Ops
  <1> HIDE DEF op
  <1>2. /\ <<op>> \in Seq(Ops) /\ <<op>> # <<>> /\ Head(<<op>>) = op /\ Tail(<<op>>) = <<>>
        /\ Len(<<op>>) = 1 /\ <<op>>[1] = op
    BY <1>1
  <1>3. r \in Seq(Ops) /\ Len(r) = 1 + Len(s)
    BY <1>2, Concatenation
  <1>4. r[1] = op /\ \A k \in 1..Len(s) : r[1 + k] = s[k]
    BY <1>2, Concatenation
  <1>5. r # <<>> /\ Len(s) \in Nat
    <2>1. Len(s) \in Nat
      OBVIOUS
    <2> QED BY <1>3, <2>1
  <1>6. Head(r) = op
    BY <1>3, <1>4, <1>5, TailElements
  <1>7. Tail(r) = s
    <2> DEFINE t == Tail(r)
    <2>1. /\ t \in Seq(Ops) /\ DOMAIN t = 1..(Len(r) - 1)
          /\ \A k \in 1..(Len(r) - 1) : t[k] = r[k + 1]
      BY <1>3, <1>5, TailElements
    <2> HIDE DEF t, r
    <2>2. DOMAIN t = 1..Len(s) /\ \A k \in 1..Len(s) : t[k] = s[k]
      BY <1>3, <1>4, <1>5, <2>1
    <2>3. t = s
      BY <2>1, <2>2
    <2> QED BY <2>3 DEF t
  <1> QED BY <1>2, <1>3, <1>5, <1>6, <1>7 DEF Do, op, r

\* What can be done.
LEMMA WhatsAre ==
    /\ "set" \in Whats /\ "clear" \in Whats /\ "blink" \in Whats
    /\ "lock" \in Whats /\ "unlock" \in Whats
    /\ "start" \in Whats /\ "destroy" \in Whats /\ "start_timer" \in Whats
    /\ <<>> \in Seq(Ops)
  BY DEF Whats

\* Three parts may be joined either way.
LEMMA Joined ==
    ASSUME NEW r \in Seq(Ops), NEW s \in Seq(Ops), NEW t \in Seq(Ops)
    PROVE  (r \o s) \o t = r \o (s \o t)
  OBVIOUS

\* stop_blink() does nothing, or two things.
LEMMA StopBlinkIs ==
    ASSUME NEW c \in Colours, NEW s \in Seq(Ops)
    PROVE  /\ stop_blink(c) \in Seq(Ops) /\ stop_blink(c) \o s \in Seq(Ops)
           /\ bl_threads[c] = NoThread => stop_blink(c) \o s = s
           /\ bl_threads[c] # NoThread =>
                  stop_blink(c) \o s = Clear(c) \o (Do("destroy", c) \o s)
  <1> DEFINE a == Clear(c)
             d == Do("destroy", c)
  <1>1. a \in Seq(Ops) /\ d \in Seq(Ops) /\ c \in Bits
    BY DoIs, WhatsAre DEF Clear, Bits, Parts
  <1> HIDE DEF a, d
  <1>2. a \o d \in Seq(Ops) /\ (a \o d) \o s = a \o (d \o s) /\ (a \o d) \o s \in Seq(Ops)
    <2>1. (a \o d) \o s = a \o (d \o s)
      BY <1>1, Joined
    <2>2. a \o d \in Seq(Ops)
      BY <1>1, Concatenation
    <2>3. (a \o d) \o s \in Seq(Ops)
      BY <2>2, Concatenation
    <2> QED BY <2>1, <2>2, <2>3
  <1>3. <<>> \in Seq(Ops) /\ <<>> \o s = s
    OBVIOUS
  <1>4. CASE bl_threads[c] = NoThread
    BY <1>3, <1>4 DEF stop_blink
  <1>5. CASE bl_threads[c] # NoThread
    <2>1. stop_blink(c) = a \o d
      BY <1>5 DEF stop_blink, a, d
    <2> QED BY <1>2, <1>5, <2>1 DEF a, d
  <1> QED BY <1>4, <1>5

\* The colours.
LEMMA ColoursAre ==
    /\ Colours = {"GREEN", "YELLOW", "RED"} /\ Colours \subseteq Bits
    /\ "STOP_BIT" \in Bits \ Colours /\ "OPEN_BIT" \in Bits \ Colours
    /\ "STOP_BIT" # "OPEN_BIT" /\ Target \in {"GREEN", "RED"} /\ Target \in Colours
  BY DEF Colours, Bits, Target

\* The bits of the motor, and what else a handler speaks of.
MotorBits == {"RIGHT_BIT", "LEFT_BIT", "SLOW_BIT", "STOP_BIT"}

\* They are apart from the lights and from each other.
LEMMA PartsAre ==
    /\ Colours \subseteq Parts /\ MotorBits \subseteq Parts \ Colours /\ MotorBits \subseteq Bits
    /\ "OPEN_BIT" \in Bits \ (Colours \cup MotorBits) /\ "OPEN_BIT" \in Parts
    /\ {"switch", "bo_mtx"} \subseteq Parts \ Bits
  BY DEF Colours, Bits, MotorBits, Parts

\* What is left of the handler of a signal.
LEMMA EndingIs ==
    /\ Ending \in Seq(Ops) /\ Ending # <<>>
    /\ signal \in Signals =>
        \/ /\ signal = "TRAFFIC_LIGHT_NORMAL" /\ Tail(Ending) = <<>>
           /\ Head(Ending) = [do |-> "set", of |-> "GREEN"]
        \/ /\ signal \in {"TRAFFIC_LIGHT_RDY", "TRAFFIC_LIGHT_UNACK_ERROR"}
           /\ Head(Ending) = [do |-> "set", of |-> Target]
           /\ Tail(Ending) = Do("blink", Target)
        \/ signal = "TRAFFIC_LIGHT_ACKED_ERROR" /\ Ending = Do("blink", Target)
  <1> DEFINE green == "GREEN"
             red == "RED"
             g == Do("blink", green)
             r == Do("blink", red)
             setG == Do("set", green)
             setR == Do("set", red)
  <1>1. green \in Parts /\ red \in Parts
    BY DEF Bits, Colours, Parts
  <1> HIDE DEF green, red
  <1>2. g \in Seq(Ops) /\ r \in Seq(Ops) /\ r # <<>>
    <2>1. <<>> \in Seq(Ops)
      OBVIOUS
    <2> QED BY <1>1, <2>1, DoIs, WhatsAre
  <1>3. /\ setG \o g \in Seq(Ops) /\ Head(setG \o g) = [do |-> "set", of |-> green]
        /\ Tail(setG \o g) = g /\ setG \o g # <<>>
    <2> HIDE DEF g
    <2>0. "set" \in Whats
      BY WhatsAre
    <2>1. setG \o g \in Seq(Ops) /\ Tail(setG \o g) = g
      BY <1>1, <1>2, <2>0, DoIs, SMTT(30)
    <2>2. Head(setG \o g) = [do |-> "set", of |-> green]
      BY <1>1, <1>2, <2>0, DoIs
    <2>3. setG \o g # <<>>
      BY <1>1, <1>2, <2>0, DoIs
    <2> QED BY <2>1, <2>2, <2>3
  <1>4. /\ setR \o r \in Seq(Ops) /\ Head(setR \o r) = [do |-> "set", of |-> red]
        /\ Tail(setR \o r) = r /\ setR \o r # <<>>
    <2> HIDE DEF r
    <2>0. "set" \in Whats
      BY WhatsAre
    <2>1. setR \o r \in Seq(Ops) /\ Tail(setR \o r) = r
      BY <1>1, <1>2, <2>0, DoIs
    <2>2. Head(setR \o r) = [do |-> "set", of |-> red]
      BY <1>1, <1>2, <2>0, DoIs
    <2>3. setR \o r # <<>>
      BY <1>1, <1>2, <2>0, DoIs
    <2> QED BY <2>1, <2>2, <2>3
  <1>5. /\ Head(setG) = [do |-> "set", of |-> green] /\ Tail(setG) = <<>>
        /\ setG \in Seq(Ops) /\ setG # <<>>
    BY <1>1, <1>2, DoIs, WhatsAre
  <1>6. Ending = IF signal = "TRAFFIC_LIGHT_NORMAL" THEN setG
                 ELSE IF signal = "TRAFFIC_LIGHT_RDY" THEN setG \o g
                 ELSE IF signal = "TRAFFIC_LIGHT_UNACK_ERROR" THEN setR \o r
                 ELSE r
    BY DEF Ending, Set, green, red
  <1>t. Target = IF signal = "TRAFFIC_LIGHT_RDY" THEN green ELSE red
    BY DEF Target, green, red
  <1>g. green = "GREEN"
    BY DEF green
  <1>d. /\ signal = "TRAFFIC_LIGHT_RDY" => g = Do("blink", Target)
        /\ signal # "TRAFFIC_LIGHT_RDY" => r = Do("blink", Target)
    BY <1>t
  <1> HIDE DEF g, r, setG, setR
  <1>7. CASE signal = "TRAFFIC_LIGHT_NORMAL"
    BY <1>5, <1>6, <1>7, <1>g
  <1>8. CASE signal = "TRAFFIC_LIGHT_RDY"
    BY <1>2, <1>3, <1>6, <1>8, <1>t, <1>d
  <1>9. CASE signal = "TRAFFIC_LIGHT_UNACK_ERROR"
    BY <1>2, <1>4, <1>6, <1>9, <1>t, <1>d
  <1>10. CASE signal \notin {"TRAFFIC_LIGHT_NORMAL", "TRAFFIC_LIGHT_RDY",
                             "TRAFFIC_LIGHT_UNACK_ERROR"}
    BY <1>2, <1>6, <1>10, <1>d DEF Signals, LightEvents
  <1> QED BY <1>7, <1>8, <1>9, <1>10

\* What is left of it while threads are commanded.
LEMMA StopsAre ==
    /\ AfterYellow \in Seq(Ops) /\ AfterRed \in Seq(Ops) /\ Stops \in Seq(Ops)
    /\ \/ /\ bl_threads["RED"] # NoThread
          /\ Stops = Clear("RED") \o (Do("destroy", "RED") \o AfterRed)
       \/ /\ Gone({"RED"}) /\ bl_threads["YELLOW"] # NoThread
          /\ Stops = Clear("YELLOW") \o (Do("destroy", "YELLOW") \o AfterYellow)
       \/ /\ Gone({"RED", "YELLOW"}) /\ bl_threads["GREEN"] # NoThread
          /\ Stops = Clear("GREEN") \o (Do("destroy", "GREEN") \o Ending)
       \/ Gone(Colours) /\ Stops = Ending
    /\ Gone({"RED"}) => Stops = AfterRed
    /\ Gone({"RED", "YELLOW"}) => Stops = AfterYellow
    /\ Gone(Colours) => Stops = Ending
  <1>1. "RED" \in Colours /\ "YELLOW" \in Colours /\ "GREEN" \in Colours
    BY DEF Colours
  <1>2. /\ AfterYellow \in Seq(Ops)
        /\ bl_threads["GREEN"] = NoThread => AfterYellow = Ending
        /\ bl_threads["GREEN"] # NoThread =>
               AfterYellow = Clear("GREEN") \o (Do("destroy", "GREEN") \o Ending)
    BY <1>1, EndingIs, StopBlinkIs DEF AfterYellow
  <1>3. /\ AfterRed \in Seq(Ops)
        /\ bl_threads["YELLOW"] = NoThread => AfterRed = AfterYellow
        /\ bl_threads["YELLOW"] # NoThread =>
               AfterRed = Clear("YELLOW") \o (Do("destroy", "YELLOW") \o AfterYellow)
    BY <1>1, <1>2, StopBlinkIs DEF AfterRed
  <1>4. /\ Stops \in Seq(Ops)
        /\ bl_threads["RED"] = NoThread => Stops = AfterRed
        /\ bl_threads["RED"] # NoThread =>
               Stops = Clear("RED") \o (Do("destroy", "RED") \o AfterRed)
    BY <1>1, <1>3, StopBlinkIs DEF Stops
  <1>5. /\ Gone({"RED"}) <=> bl_threads["RED"] = NoThread
        /\ Gone({"RED", "YELLOW"}) <=> bl_threads["RED"] = NoThread /\ bl_threads["YELLOW"] = NoThread
        /\ Gone(Colours) <=> /\ bl_threads["RED"] = NoThread /\ bl_threads["YELLOW"] = NoThread
                             /\ bl_threads["GREEN"] = NoThread
    BY DEF Gone, Colours
  <1> QED BY <1>2, <1>3, <1>4, <1>5

\* What the phases speak of, where the handlers' variables are unchanged.
LEMMA SameWork ==
    ASSUME UNCHANGED <<bl_threads, signal>>
    PROVE  /\ Stops' = Stops /\ AfterRed' = AfterRed /\ AfterYellow' = AfterYellow
           /\ Ending' = Ending /\ Target' = Target /\ Steady' = Steady
           /\ \A c : stop_blink(c)' = stop_blink(c)
           /\ \A C : Gone(C)' = Gone(C)
  BY DEF Stops, AfterRed, AfterYellow, Ending, Target, Steady, stop_blink, Gone,
         Do, Set, Clear

-----------------------------------------------------------------------------
\* What comes next in each phase.
Next1(what, of, rest) ==
    todo # <<>> /\ Head(todo) = [do |-> what, of |-> of] /\ Tail(todo) = rest

\* A sequence in front of a known rest.
LEMMA Next1Part ==
    ASSUME NEW what \in Whats, NEW of \in Parts, NEW s \in Seq(Ops),
           todo = Do(what, of) \o s
    PROVE  Next1(what, of, s)
  <1> DEFINE q == Do(what, of) \o s
  <1>2. q # <<>>
    BY DoIs
  <1>3. Head(q) = [do |-> what, of |-> of]
    BY DoIs
  <1>4. Tail(q) = s
    BY DoIs
  <1>5. todo = q
    OBVIOUS
  <1> HIDE DEF q
  <1> QED BY <1>2, <1>3, <1>4, <1>5 DEF Next1

\* The same for a light.
LEMMA Next1Is ==
    ASSUME NEW what \in Whats, NEW of \in Colours, NEW s \in Seq(Ops),
           todo = Do(what, of) \o s
    PROVE  Next1(what, of, s)
  <1>1. of \in Parts
    BY PartsAre
  <1> QED BY <1>1, Next1Part

\* The last thing to do.
LEMMA Last1Part ==
    ASSUME NEW what \in Whats, NEW of \in Parts, todo = Do(what, of)
    PROVE  Next1(what, of, <<>>)
  <1> DEFINE q == Do(what, of)
  <1>1. <<>> \in Seq(Ops)
    OBVIOUS
  <1>2. q # <<>> /\ Head(q) = [do |-> what, of |-> of] /\ Tail(q) = <<>>
    BY <1>1, DoIs
  <1>3. todo = q
    OBVIOUS
  <1> HIDE DEF q
  <1> QED BY <1>2, <1>3 DEF Next1

\* The last thing to do with a light.
LEMMA Last1Is ==
    ASSUME NEW what \in Whats, NEW of \in Colours, todo = Do(what, of)
    PROVE  Next1(what, of, <<>>)
  <1>1. of \in Parts
    BY PartsAre
  <1> QED BY <1>1, Last1Part

\* Single things to do.
LEMMA DoType ==
    ASSUME NEW what \in Whats, NEW of \in Colours
    PROVE  /\ Do(what, of) \in Seq(Ops)
           /\ \A s \in Seq(Ops) : Do(what, of) \o s \in Seq(Ops)
  <1>1. of \in Parts /\ <<>> \in Seq(Ops)
    BY PartsAre
  <1>2. Do(what, of) \in Seq(Ops)
    BY <1>1, DoIs
  <1>3. ASSUME NEW s \in Seq(Ops)
        PROVE  Do(what, of) \o s \in Seq(Ops)
    BY <1>1, DoIs
  <1> QED BY <1>2, <1>3

\* The handler of TRAFFIC_LIGHT_NEW_PUK.
LEMMA YellowCases ==
    ASSUME YellowPhase
    PROVE  \/ Next1("blink", "YELLOW", <<>>)
           \/ bl_threads["YELLOW"] = NoThread /\ Next1("start", "YELLOW", <<>>)
           \/ /\ bl_threads["YELLOW"] # NoThread
              /\ Next1("clear", "YELLOW", Do("destroy", "YELLOW") \o Do("start", "YELLOW"))
           \/ Dying("YELLOW") /\ Next1("destroy", "YELLOW", Do("start", "YELLOW"))
  <1> DEFINE y == "YELLOW"
             s == Do("start", y)
             d == Do("destroy", y) \o s
  <1>1. y \in Colours
    BY DEF Colours
  <1> HIDE DEF y
  <1>2. s \in Seq(Ops) /\ d \in Seq(Ops)
    BY <1>1, DoType, WhatsAre
  <1>3. CASE todo = Do("blink", y)
    BY <1>1, <1>3, Last1Is, WhatsAre DEF y
  <1>4. CASE todo = stop_blink(y) \o s
    <2>1. CASE bl_threads[y] = NoThread
      <3>1. todo = s
        BY <1>1, <1>2, <1>4, <2>1, StopBlinkIs
      <3>2. Next1("start", y, <<>>)
        BY <1>1, <3>1, Last1Is, WhatsAre
      <3> QED BY <2>1, <3>2 DEF y
    <2>2. CASE bl_threads[y] # NoThread
      <3>1. todo = Clear(y) \o d
        BY <1>1, <1>2, <1>4, <2>2, StopBlinkIs
      <3>2. Next1("clear", y, d)
        BY <1>1, <1>2, <3>1, Next1Is, WhatsAre DEF Clear
      <3> QED BY <2>2, <3>2 DEF y
    <2> QED BY <2>1, <2>2
  <1>5. CASE todo = d /\ Dying(y)
    <2>1. Next1("destroy", y, s)
      BY <1>1, <1>2, <1>5, Next1Is, WhatsAre
    <2> QED BY <1>5, <2>1 DEF y
  <1> QED BY <1>3, <1>4, <1>5 DEF YellowPhase, y

\* clear_all_lights().
LEMMA ClearCases ==
    ASSUME ClearPhase
    PROVE  \/ Next1("clear", "RED", Clear("YELLOW") \o (Clear("GREEN") \o Stops))
           \/ Lit({"RED"}) /\ Next1("clear", "YELLOW", Clear("GREEN") \o Stops)
           \/ Lit({"RED", "YELLOW"}) /\ Next1("clear", "GREEN", Stops)
  <1> DEFINE r == "RED"
             y == "YELLOW"
             g == "GREEN"
             s == Clear(g) \o Stops
             t == Clear(y) \o s
  <1>1. r \in Colours /\ y \in Colours /\ g \in Colours /\ Stops \in Seq(Ops)
    BY StopsAre DEF Colours
  <1> HIDE DEF r, y, g
  <1>2. s \in Seq(Ops)
    BY <1>1, DoType, WhatsAre DEF Clear
  <1>3. t \in Seq(Ops)
    BY <1>1, <1>2, DoType, WhatsAre DEF Clear
  <1>4. CASE todo = Clear(r) \o t
    <2>1. Next1("clear", r, t)
      BY <1>1, <1>3, <1>4, Next1Is, WhatsAre DEF Clear
    <2> QED BY <2>1 DEF r, y, g
  <1>5. CASE todo = t /\ Lit({"RED"})
    <2>1. Next1("clear", y, s)
      BY <1>1, <1>2, <1>5, Next1Is, WhatsAre DEF Clear
    <2> QED BY <1>5, <2>1 DEF y, g
  <1>6. CASE todo = s /\ Lit({"RED", "YELLOW"})
    <2>1. Next1("clear", g, Stops)
      BY <1>1, <1>6, Next1Is, WhatsAre DEF Clear
    <2> QED BY <1>6, <2>1 DEF g
  <1> QED BY <1>4, <1>5, <1>6 DEF ClearPhase, r, y, g

\* stop_all_blinks() and what follows it.
LEMMA StopCases ==
    ASSUME StopPhase, signal \in Signals
    PROVE  \/ bl_threads["RED"] # NoThread /\ Next1("clear", "RED", Do("destroy", "RED") \o AfterRed)
           \/ /\ Gone({"RED"}) /\ bl_threads["YELLOW"] # NoThread
              /\ Next1("clear", "YELLOW", Do("destroy", "YELLOW") \o AfterYellow)
           \/ /\ Gone({"RED", "YELLOW"}) /\ bl_threads["GREEN"] # NoThread
              /\ Next1("clear", "GREEN", Do("destroy", "GREEN") \o Ending)
           \/ Dying("RED") /\ Next1("destroy", "RED", AfterRed)
           \/ Dying("YELLOW") /\ Gone({"RED"}) /\ Next1("destroy", "YELLOW", AfterYellow)
           \/ Dying("GREEN") /\ Gone({"RED", "YELLOW"}) /\ Next1("destroy", "GREEN", Ending)
           \/ /\ Gone(Colours) /\ signal = "TRAFFIC_LIGHT_NORMAL"
              /\ Next1("set", "GREEN", <<>>)
           \/ /\ Gone(Colours) /\ signal \in {"TRAFFIC_LIGHT_RDY", "TRAFFIC_LIGHT_UNACK_ERROR"}
              /\ Next1("set", Target, Do("blink", Target))
           \/ /\ Gone(Colours) /\ signal = "TRAFFIC_LIGHT_ACKED_ERROR"
              /\ todo = Do("blink", Target) /\ Next1("blink", Target, <<>>)
  <1> DEFINE r == "RED"
             y == "YELLOW"
             g == "GREEN"
             dr == Do("destroy", r) \o AfterRed
             dy == Do("destroy", y) \o AfterYellow
             dg == Do("destroy", g) \o Ending
  <1>1. /\ r \in Colours /\ y \in Colours /\ g \in Colours
        /\ AfterRed \in Seq(Ops) /\ AfterYellow \in Seq(Ops) /\ Ending \in Seq(Ops)
    BY StopsAre, EndingIs DEF Colours
  <1> HIDE DEF r, y, g
  <1>2. dr \in Seq(Ops) /\ dy \in Seq(Ops) /\ dg \in Seq(Ops)
    BY <1>1, DoType, WhatsAre
  <1>3. CASE todo = Stops
    <2>1. CASE bl_threads[r] # NoThread /\ Stops = Clear(r) \o dr
      <3>1. Next1("clear", r, dr)
        BY <1>1, <1>2, <1>3, <2>1, Next1Is, WhatsAre DEF Clear
      <3> QED BY <2>1, <3>1 DEF r
    <2>2. CASE Gone({r}) /\ bl_threads[y] # NoThread /\ Stops = Clear(y) \o dy
      <3>1. Next1("clear", y, dy)
        BY <1>1, <1>2, <1>3, <2>2, Next1Is, WhatsAre DEF Clear
      <3> QED BY <2>2, <3>1 DEF r, y
    <2>3. CASE Gone({r, y}) /\ bl_threads[g] # NoThread /\ Stops = Clear(g) \o dg
      <3>1. Next1("clear", g, dg)
        BY <1>1, <1>2, <1>3, <2>3, Next1Is, WhatsAre DEF Clear
      <3> QED BY <2>3, <3>1 DEF r, y, g
    <2>4. CASE Gone(Colours) /\ Stops = Ending
      <3>1. CASE signal = "TRAFFIC_LIGHT_NORMAL"
        <4>1. Next1("set", "GREEN", <<>>)
          BY <1>3, <2>4, <3>1, EndingIs DEF Next1
        <4> QED BY <2>4, <3>1, <4>1
      <3>2. CASE signal \in {"TRAFFIC_LIGHT_RDY", "TRAFFIC_LIGHT_UNACK_ERROR"}
        <4>1. Next1("set", Target, Do("blink", Target))
          BY <1>3, <2>4, <3>2, EndingIs DEF Next1
        <4> QED BY <2>4, <3>2, <4>1
      <3>3. CASE signal = "TRAFFIC_LIGHT_ACKED_ERROR"
        <4>1. todo = Do("blink", Target)
          BY <1>3, <2>4, <3>3, EndingIs
        <4>2. Next1("blink", Target, <<>>)
          BY <4>1, Last1Is, WhatsAre, ColoursAre
        <4> QED BY <2>4, <3>3, <4>1, <4>2
      <3> QED BY <3>1, <3>2, <3>3 DEF Signals, LightEvents
    <2> QED BY <2>1, <2>2, <2>3, <2>4, StopsAre DEF r, y, g
  <1>4. CASE todo = dr /\ Dying(r)
    <2>1. Next1("destroy", r, AfterRed)
      BY <1>1, <1>4, Next1Is, WhatsAre
    <2> QED BY <1>4, <2>1 DEF r
  <1>5. CASE todo = dy /\ Dying(y) /\ Gone({r})
    <2>1. Next1("destroy", y, AfterYellow)
      BY <1>1, <1>5, Next1Is, WhatsAre
    <2> QED BY <1>5, <2>1 DEF r, y
  <1>6. CASE todo = dg /\ Dying(g) /\ Gone({r, y})
    <2>1. Next1("destroy", g, Ending)
      BY <1>1, <1>6, Next1Is, WhatsAre
    <2> QED BY <1>6, <2>1 DEF r, y, g
  <1> QED BY <1>3, <1>4, <1>5, <1>6 DEF StopPhase, r, y, g

\* blink() of the light of the signal.
LEMMA BlinkCases ==
    ASSUME BlinkPhase
    PROVE  \/ Next1("blink", Target, <<>>) \/ Next1("start", Target, <<>>)
  <1>1. Target \in Colours
    BY ColoursAre
  <1> QED BY <1>1, Last1Is, WhatsAre DEF BlinkPhase

\* The handlers of the switch.
LEMMA CommandsAre ==
    /\ TimerWork # <<>> /\ Tail(TimerWork) = <<>>
    /\ Head(TimerWork) = [do |-> "start_timer", of |-> "switch"]
    /\ OpenWork # <<>> /\ Tail(OpenWork) = TimerWork
    /\ Head(OpenWork) = [do |-> "set", of |-> "OPEN_BIT"]
    /\ CloseWork # <<>> /\ Tail(CloseWork) = <<>>
    /\ Head(CloseWork) = [do |-> "clear", of |-> "OPEN_BIT"]
  <1> DEFINE o == "OPEN_BIT"
             w == "switch"
             st == "set"
             cl == "clear"
             ti == "start_timer"
  <1>1. o \in Parts /\ w \in Parts /\ st \in Whats /\ cl \in Whats /\ ti \in Whats
    BY PartsAre, WhatsAre
  <1>2. /\ TimerWork = Do(ti, w) /\ OpenWork = Do(st, o) \o TimerWork
        /\ CloseWork = Do(cl, o)
    BY DEF TimerWork, OpenWork, CloseWork, Set, Clear
  <1> HIDE DEF o, w, st, cl, ti
  <1>3. <<>> \in Seq(Ops)
    BY WhatsAre
  <1>4. Do(ti, w) \in Seq(Ops) /\ Do(ti, w) # <<>> /\ Tail(Do(ti, w)) = <<>>
    BY <1>1, <1>3, DoIs
  <1>5. Head(Do(ti, w)) = [do |-> ti, of |-> w]
    BY <1>1, <1>3, DoIs
  <1>8. Do(cl, o) # <<>> /\ Tail(Do(cl, o)) = <<>>
    BY <1>1, <1>3, DoIs
  <1>9. Head(Do(cl, o)) = [do |-> cl, of |-> o]
    BY <1>1, <1>3, DoIs
  <1> DEFINE t == Do(ti, w)
             q == Do(st, o) \o t
  <1> HIDE DEF t
  <1>10. q # <<>>
    BY <1>1, <1>4, DoIs DEF t
  <1>11. Head(q) = [do |-> st, of |-> o]
    BY <1>1, <1>4, DoIs DEF t
  <1>12. Tail(q) = t
    BY <1>1, <1>4, DoIs, ZenonT(30) DEF t
  <1>13. OpenWork = q /\ TimerWork = t
    BY <1>2 DEF t
  <1> HIDE DEF q
  <1>16. /\ TimerWork # <<>> /\ Tail(TimerWork) = <<>>
         /\ Head(TimerWork) = [do |-> "start_timer", of |-> "switch"]
    BY <1>2, <1>4, <1>5 DEF ti, w
  <1>17. /\ OpenWork # <<>> /\ Tail(OpenWork) = TimerWork
         /\ Head(OpenWork) = [do |-> "set", of |-> "OPEN_BIT"]
    BY <1>10, <1>11, <1>12, <1>13 DEF st, o
  <1>18. /\ CloseWork # <<>> /\ Tail(CloseWork) = <<>>
         /\ Head(CloseWork) = [do |-> "clear", of |-> "OPEN_BIT"]
    BY <1>2, <1>8, <1>9 DEF cl, o
  <1> QED BY <1>16, <1>17, <1>18

\* What is left of a handler of the motor are sequences of things to do.
LEMMA MotorType ==
    /\ Speed \in Seq(Ops) /\ Leave \in Seq(Ops) /\ GoRight \in Seq(Ops)
    /\ NotLeft \in Seq(Ops) /\ Enter \in Seq(Ops) /\ Unstop \in Seq(Ops)
  <1> DEFINE right == "RIGHT_BIT"
             left == "LEFT_BIT"
             slow == "SLOW_BIT"
             halt == "STOP_BIT"
             mtx == "bo_mtx"
             st == "set"
             cl == "clear"
             lo == "lock"
             un == "unlock"
  <1>1. /\ right \in Parts /\ left \in Parts /\ slow \in Parts /\ halt \in Parts /\ mtx \in Parts
        /\ st \in Whats /\ cl \in Whats /\ lo \in Whats /\ un \in Whats
    BY PartsAre, WhatsAre DEF MotorBits
  <1>2. /\ Speed \in {Do(st, slow), Do(cl, slow)} /\ Leave = Do(un, mtx) \o Speed
        /\ GoRight = Do(st, right) \o Leave /\ NotLeft = Do(cl, left) \o GoRight
        /\ Enter = Do(lo, mtx) \o NotLeft /\ Unstop = Do(cl, halt) \o Enter
    BY DEF Speed, Leave, GoRight, NotLeft, Enter, Unstop, Set, Clear
  <1>3. <<>> \in Seq(Ops)
    BY WhatsAre
  <1> HIDE DEF right, left, slow, halt, mtx, st, cl, lo, un
  <1>4. Speed \in Seq(Ops)
    BY <1>1, <1>2, <1>3, DoIs
  <1>5. Leave \in Seq(Ops)
    BY <1>1, <1>2, <1>4, DoIs
  <1>6. GoRight \in Seq(Ops)
    BY <1>1, <1>2, <1>5, DoIs
  <1>7. NotLeft \in Seq(Ops)
    BY <1>1, <1>2, <1>6, DoIs
  <1>8. Enter \in Seq(Ops)
    BY <1>1, <1>2, <1>7, DoIs
  <1>9. Unstop \in Seq(Ops)
    BY <1>1, <1>2, <1>8, DoIs
  <1> QED BY <1>4, <1>5, <1>6, <1>7, <1>8, <1>9

\* What comes next in each handler of the motor.
LEMMA MotorCases ==
    ASSUME MotorPhase
    PROVE  \/ commanded = "MOTOR_STOP" /\ Next1("set", "STOP_BIT", <<>>)
           \/ commanded # "MOTOR_STOP" /\ Next1("set", "RIGHT_BIT", Unstop)
           \/ Going /\ Next1("clear", "STOP_BIT", Enter)
           \/ Unhalted /\ Next1("lock", "bo_mtx", NotLeft)
           \/ Unhalted /\ Next1("clear", "LEFT_BIT", GoRight)
           \/ Ahead /\ Next1("set", "RIGHT_BIT", Leave)
           \/ Ahead /\ Next1("unlock", "bo_mtx", Speed)
           \/ Ahead /\ commanded = "MOTOR_SLOW" /\ Next1("set", "SLOW_BIT", <<>>)
           \/ Ahead /\ commanded # "MOTOR_SLOW" /\ Next1("clear", "SLOW_BIT", <<>>)
  <1> DEFINE right == "RIGHT_BIT"
             left == "LEFT_BIT"
             slow == "SLOW_BIT"
             halt == "STOP_BIT"
             mtx == "bo_mtx"
             st == "set"
             cl == "clear"
             lo == "lock"
             un == "unlock"
  <1>1. /\ right \in Parts /\ left \in Parts /\ slow \in Parts /\ halt \in Parts /\ mtx \in Parts
        /\ st \in Whats /\ cl \in Whats /\ lo \in Whats /\ un \in Whats
    BY PartsAre, WhatsAre DEF MotorBits
  <1>2. /\ Speed = IF commanded = "MOTOR_SLOW" THEN Do(st, slow) ELSE Do(cl, slow)
        /\ Leave = Do(un, mtx) \o Speed
        /\ GoRight = Do(st, right) \o Leave /\ NotLeft = Do(cl, left) \o GoRight
        /\ Enter = Do(lo, mtx) \o NotLeft /\ Unstop = Do(cl, halt) \o Enter
        /\ Go = Do(st, right) \o Unstop /\ Halt = Do(st, halt)
    BY DEF Speed, Leave, GoRight, NotLeft, Enter, Unstop, Go, Halt, Set, Clear
  <1> HIDE DEF right, left, slow, halt, mtx, st, cl, lo, un
  <1>3. CASE todo = Halt /\ commanded = "MOTOR_STOP"
    <2>1. Next1(st, halt, <<>>)
      BY <1>1, <1>2, <1>3, Last1Part
    <2> QED BY <1>3, <2>1 DEF st, halt
  <1>4. CASE todo = Go /\ commanded # "MOTOR_STOP"
    <2>1. Next1(st, right, Unstop)
      BY <1>1, <1>2, <1>4, MotorType, Next1Part
    <2> QED BY <1>4, <2>1 DEF st, right
  <1>5. CASE todo = Unstop /\ Going
    <2>1. Next1(cl, halt, Enter)
      BY <1>1, <1>2, <1>5, MotorType, Next1Part
    <2> QED BY <1>5, <2>1 DEF cl, halt
  <1>6. CASE todo = Enter /\ Unhalted
    <2>1. Next1(lo, mtx, NotLeft)
      BY <1>1, <1>2, <1>6, MotorType, Next1Part
    <2> QED BY <1>6, <2>1 DEF lo, mtx
  <1>7. CASE todo = NotLeft /\ Unhalted
    <2>1. Next1(cl, left, GoRight)
      BY <1>1, <1>2, <1>7, MotorType, Next1Part
    <2> QED BY <1>7, <2>1 DEF cl, left
  <1>8. CASE todo = GoRight /\ Ahead
    <2>1. Next1(st, right, Leave)
      BY <1>1, <1>2, <1>8, MotorType, Next1Part
    <2> QED BY <1>8, <2>1 DEF st, right
  <1>9. CASE todo = Leave /\ Ahead
    <2>1. Next1(un, mtx, Speed)
      BY <1>1, <1>2, <1>9, MotorType, Next1Part
    <2> QED BY <1>9, <2>1 DEF un, mtx
  <1>10. CASE todo = Speed /\ Ahead
    <2>1. CASE commanded = "MOTOR_SLOW"
      <3>1. Next1(st, slow, <<>>)
        BY <1>1, <1>2, <1>10, <2>1, Last1Part
      <3> QED BY <1>10, <2>1, <3>1 DEF st, slow
    <2>2. CASE commanded # "MOTOR_SLOW"
      <3>1. Next1(cl, slow, <<>>)
        BY <1>1, <1>2, <1>10, <2>2, Last1Part
      <3> QED BY <1>10, <2>2, <3>1 DEF cl, slow
    <2> QED BY <2>1, <2>2
  <1> QED BY <1>3, <1>4, <1>5, <1>6, <1>7, <1>8, <1>9, <1>10 DEF MotorPhase

\* The head of a handler of the motor.
LEMMA MotorHeads ==
    ASSUME MotorPhase
    PROVE  /\ todo # <<>> /\ Head(todo).do \in {"set", "clear", "lock", "unlock"}
           /\ Head(todo).of \in MotorBits \cup {"bo_mtx"}
  <1>1. ASSUME NEW what \in {"set", "clear", "lock", "unlock"},
               NEW of \in MotorBits \cup {"bo_mtx"}, NEW s, Next1(what, of, s)
        PROVE  /\ todo # <<>> /\ Head(todo).do \in {"set", "clear", "lock", "unlock"}
               /\ Head(todo).of \in MotorBits \cup {"bo_mtx"}
    BY <1>1 DEF Next1
  <1>2. {"RIGHT_BIT", "LEFT_BIT", "SLOW_BIT", "STOP_BIT", "bo_mtx"} \subseteq MotorBits \cup {"bo_mtx"}
    BY DEF MotorBits
  <1> QED BY <1>1, <1>2, MotorCases

\* The head of a handler of the switch.
LEMMA SwitchHeads ==
    ASSUME SwitchPhase
    PROVE  /\ todo # <<>> /\ Head(todo).do \in {"set", "clear", "start_timer"}
           /\ Head(todo).of \in {"OPEN_BIT", "switch"}
  BY CommandsAre DEF SwitchPhase

\* No handler of a light looks like one of the motor or the switch.
Coloured ==
    todo # <<>> => Head(todo) \in [do : {"set", "clear", "blink", "start", "destroy"}, of : Colours]

\* They are all of one of the three lights.
LEMMA LightHeads == LightPhase => Coloured
  <1>1. /\ "RED" \in Colours /\ "YELLOW" \in Colours /\ "GREEN" \in Colours
        /\ Target \in Colours
    BY ColoursAre
  <1>2. \A what \in {"set", "clear", "blink", "start", "destroy"}, of \in Colours :
            \A s : Next1(what, of, s) => Coloured
    BY DEF Next1, Coloured
  <1>4. CASE todo = <<>>
    BY <1>4 DEF Coloured
  <1>5. CASE YellowPhase
    BY <1>1, <1>2, <1>5, YellowCases
  <1>6. CASE ClearPhase
    BY <1>1, <1>2, <1>6, ClearCases
  <1>7. CASE signal \in Signals /\ StopPhase
    BY <1>1, <1>2, <1>7, StopCases
  <1>8. CASE BlinkPhase
    BY <1>1, <1>2, <1>8, BlinkCases
  <1> QED BY <1>4, <1>5, <1>6, <1>7, <1>8 DEF LightPhase

\* The phases exclude each other.
PhasesApart ==
    /\ LightPhase => ~ Starting /\ ~ MotorPhase /\ todo # OpenWork /\ todo # CloseWork
    /\ MotorPhase => ~ Starting /\ todo # OpenWork /\ todo # CloseWork
    /\ todo = OpenWork => todo # CloseWork
    /\ todo = TimerWork => todo # OpenWork /\ todo # CloseWork
    /\ todo = CloseWork => ~ Starting
    /\ todo = <<>> => ~ MotorPhase /\ ~ SwitchPhase

\* They do, whatever the state.
LEMMA Apart == PhasesApart
  <1> DEFINE H == Head(todo)
  <1>1. LightPhase => (todo # <<>> => H.of \in Colours)
    BY LightHeads DEF Coloured
  <1>2. /\ "OPEN_BIT" \notin Colours /\ "switch" \notin Colours /\ "bo_mtx" \notin Colours
        /\ "OPEN_BIT" \notin MotorBits \cup {"bo_mtx"} /\ "switch" \notin MotorBits \cup {"bo_mtx"}
        /\ \A b \in MotorBits : b \notin Colours
    BY DEF Colours, MotorBits
  <1>3. MotorPhase => todo # <<>> /\ H.of \in MotorBits \cup {"bo_mtx"}
    BY MotorHeads
  <1>4. todo = TimerWork => todo # <<>> /\ H.of = "switch"
    BY CommandsAre
  <1>5. todo = OpenWork => todo # <<>> /\ H.of = "OPEN_BIT" /\ H.do = "set"
    BY CommandsAre
  <1>6. todo = CloseWork => todo # <<>> /\ H.of = "OPEN_BIT" /\ H.do = "clear"
    BY CommandsAre
  <1>7. todo = <<>> => ~ SwitchPhase
    BY SwitchHeads
  <1> HIDE DEF H
  <1>8. LightPhase => ~ Starting /\ ~ MotorPhase /\ todo # OpenWork /\ todo # CloseWork
    BY <1>1, <1>2, <1>3, <1>4, <1>5, <1>6 DEF Starting
  <1>9. MotorPhase => ~ Starting /\ todo # OpenWork /\ todo # CloseWork
    BY <1>2, <1>3, <1>4, <1>5, <1>6 DEF Starting
  <1> QED BY <1>3, <1>4, <1>5, <1>6, <1>7, <1>8, <1>9 DEF Starting, PhasesApart

\* The same after a step.
LEMMA ApartNext == PhasesApart'
  BY Apart, PTL

-----------------------------------------------------------------------------
\* The registrations.

\* The greatest of one number.
LEMMA MaxOfOne == Max({1}) = 1
  BY DEF Max

\* remListeners() on a list of Switch_control alone.
LEMMA OneRemoved == Remaining(<<"Switch_control">>) = <<>>
  <1> DEFINE s == <<"Switch_control">>
             base == [skip |-> FALSE, kept |-> <<>>]
             step(acc, l) ==
                 IF l = "Switch_control" /\ ~ acc.skip
                 THEN [acc EXCEPT !.skip = TRUE]
                 ELSE [skip |-> FALSE, kept |-> Append(acc.kept, l)]
             F(f) == f = [t \in SUBSET (DOMAIN s) |->
                             IF t = {} THEN base ELSE step(f[t \ {Max(t)}], s[Max(t)])]
             it == CHOOSE f : F(f)
             w == [t \in SUBSET {1} |-> IF t = {} THEN base ELSE [skip |-> TRUE, kept |-> <<>>]]
  <1>1. Remaining(s) = it[DOMAIN s].kept
    BY DEF Remaining, FoldLeft, MapThenFoldSet
  <1>2. DOMAIN s = {1} /\ s[1] = "Switch_control"
    OBVIOUS
  <1>3. \A t \in SUBSET {1} : t = {} \/ t = {1}
    OBVIOUS
  <1>4. {1} \ {1} = {} /\ {} \in SUBSET {1} /\ {1} \in SUBSET {1} /\ {1} # {}
    OBVIOUS
  <1>5. step(base, "Switch_control") = [skip |-> TRUE, kept |-> <<>>]
    OBVIOUS
  <1>6. w[{}] = base /\ w[{1}] = [skip |-> TRUE, kept |-> <<>>]
    BY <1>4
  <1>7. ASSUME NEW t \in SUBSET {1}
        PROVE  w[t] = IF t = {} THEN base ELSE step(w[t \ {Max(t)}], s[Max(t)])
    <2>1. CASE t = {}
      BY <2>1, <1>6
    <2>2. CASE t = {1}
      <3>1. t \ {Max(t)} = {} /\ s[Max(t)] = "Switch_control" /\ t # {}
        BY <2>2, MaxOfOne, <1>2, <1>4
      <3> HIDE DEF w, base, step
      <3> QED BY <2>2, <3>1, <1>6, <1>5
    <2> QED BY <2>1, <2>2, <1>3
  <1>8. F(w)
    <2> DEFINE g == [t \in SUBSET {1} |->
                        IF t = {} THEN base ELSE step(w[t \ {Max(t)}], s[Max(t)])]
    <2>1. w = g
      <3>1. \A t \in SUBSET {1} : w[t] = g[t]
        BY <1>7
      <3> HIDE DEF base, step
      <3> QED BY <3>1
    <2>2. DOMAIN s = {1}
      BY <1>2
    <2> HIDE DEF w, base, step, s
    <2> QED BY <2>1, <2>2
  <1>9. F(it)
    <2> HIDE DEF F
    <2> QED BY <1>8
  <1>10. it[{}] = base
    <2> HIDE DEF base, step, it
    <2> QED BY <1>9, <1>2, <1>4
  <1>11. it[{1}] = step(it[{1} \ {Max({1})}], s[Max({1})])
    <2> HIDE DEF base, step, it
    <2> QED BY <1>9, <1>2, <1>4
  <1>12. it[{1}] = [skip |-> TRUE, kept |-> <<>>]
    <2> HIDE DEF base, step, it, s
    <2> QED BY <1>11, <1>10, <1>4, MaxOfOne, <1>2, <1>5
  <1> HIDE DEF it
  <1> QED BY <1>1, <1>2, <1>12

\* remListeners() on an empty list.
LEMMA NoneRemoved == Remaining(<<>>) = <<>>
  <1> DEFINE base == [skip |-> FALSE, kept |-> <<>>]
             step(acc, l) ==
                 IF l = "Switch_control" /\ ~ acc.skip
                 THEN [acc EXCEPT !.skip = TRUE]
                 ELSE [skip |-> FALSE, kept |-> Append(acc.kept, l)]
             F(f) == f = [t \in SUBSET (DOMAIN <<>>) |->
                             IF t = {} THEN base ELSE step(f[t \ {Max(t)}], <<>>[Max(t)])]
             it == CHOOSE f : F(f)
             w == [t \in SUBSET {} |-> base]
  <1>1. Remaining(<<>>) = it[DOMAIN <<>>].kept
    BY DEF Remaining, FoldLeft, MapThenFoldSet
  <1>2. DOMAIN <<>> = {}
    OBVIOUS
  <1>3. \A t \in SUBSET {} : t = {}
    OBVIOUS
  <1>4. F(w)
    <2> HIDE DEF base, step
    <2> QED BY <1>2, <1>3
  <1>5. F(it)
    <2> HIDE DEF F
    <2> QED BY <1>4
  <1>6. it[{}] = base
    <2> HIDE DEF base, step, it
    <2> QED BY <1>5, <1>2, <1>3
  <1> HIDE DEF it
  <1> QED BY <1>1, <1>2, <1>6

-----------------------------------------------------------------------------
\* Counting pulses.

\* Their number is one.
LEMMA CountType ==
    ASSUME NEW T, NEW q \in Seq(T), NEW e
    PROVE  Count(q, e) \in Nat /\ IsFiniteSet({k \in DOMAIN q : q[k] = e})
  <1> DEFINE K == {k \in DOMAIN q : q[k] = e}
  <1>1. DOMAIN q = 1..Len(q) /\ Len(q) \in Nat
    OBVIOUS
  <1>2. IsFiniteSet(1..Len(q))
    BY <1>1, FS_Interval
  <1>3. K \in SUBSET (1..Len(q))
    BY <1>1
  <1> HIDE DEF K
  <1>4. IsFiniteSet(K)
    BY <1>2, <1>3, FS_Subset
  <1>5. Cardinality(K) \in Nat
    BY <1>4, FS_CardinalityType
  <1> QED BY <1>4, <1>5 DEF Count, K

\* A pulse that is posted counts.
LEMMA CountAppended ==
    ASSUME NEW T, NEW q \in Seq(T), NEW f \in T, NEW e
    PROVE  Count(Append(q, f), e) = Count(q, e) + One(f = e)
  <1> DEFINE K == {k \in DOMAIN q : q[k] = e}
             n == Len(q)
             r == Append(q, f)
             J == {k \in DOMAIN r : r[k] = e}
  <1>1. /\ n \in Nat /\ DOMAIN q = 1..n /\ DOMAIN r = 1..(n + 1)
        /\ r[n + 1] = f /\ \A k \in 1..n : r[k] = q[k]
    BY Appending
  <1>2. IsFiniteSet(K) /\ Cardinality(K) \in Nat
    BY CountType DEF Count
  <1> HIDE DEF r, n
  <1>3. n + 1 \notin K
    BY <1>1
  <1>4. J = IF f = e THEN K \cup {n + 1} ELSE K
    BY <1>1
  <1> HIDE DEF J, K
  <1>5. Cardinality(K \cup {n + 1}) = Cardinality(K) + 1
    BY <1>2, <1>3, FS_AddElement
  <1>6. Count(r, e) = Cardinality(J) /\ Count(q, e) = Cardinality(K)
    BY DEF Count, J, K
  <1>7. Count(r, e) = Count(q, e) + One(f = e)
    BY <1>2, <1>4, <1>5, <1>6 DEF One
  <1> QED BY <1>7 DEF r

\* One that is taken does no longer.
LEMMA CountTail ==
    ASSUME NEW T, NEW q \in Seq(T), q # <<>>, NEW e
    PROVE  Count(q, e) = Count(Tail(q), e) + One(Head(q) = e)
  <1> DEFINE K == {k \in DOMAIN q : q[k] = e}
             n == Len(q) - 1
             r == Tail(q)
             J == {k \in DOMAIN r : r[k] = e}
             I == K \ {1}
             f == [k \in J |-> k + 1]
  <1>1. /\ n \in Nat /\ DOMAIN q = 1..(n + 1) /\ DOMAIN r = 1..n /\ r \in Seq(T)
        /\ Head(q) = q[1] /\ \A k \in 1..n : r[k] = q[k + 1]
    BY TailElements
  <1>2. IsFiniteSet(K) /\ Cardinality(K) \in Nat
    BY CountType DEF Count
  <1>3. IsFiniteSet(J) /\ Cardinality(J) \in Nat
    BY <1>1, CountType DEF Count
  <1> HIDE DEF r, n
  <1>4. \A k \in J : k \in Int /\ k + 1 \in I
    BY <1>1
  <1>5. \A i \in I : i - 1 \in J /\ i = (i - 1) + 1
    BY <1>1
  <1>6. f \in Bijection(J, I)
    <2> HIDE DEF J, I
    <2>1. f \in [J -> I]
      BY <1>4
    <2>2. \A a, b \in J : f[a] = f[b] => a = b
      BY <1>4
    <2>3. \A i \in I : \E k \in J : f[k] = i
      BY <1>5
    <2> QED BY <2>1, <2>2, <2>3 DEF Bijection, Injection, Surjection, IsInjective
  <1>7. Cardinality(I) = Cardinality(J)
    <2> HIDE DEF J, I, f
    <2>1. ExistsBijection(J, I)
      BY <1>6 DEF ExistsBijection
    <2> QED BY <1>3, <2>1, FS_Bijection
  <1>8. 1 \in K <=> Head(q) = e
    BY <1>1
  <1> HIDE DEF K, J
  <1>9. Cardinality(I) = IF 1 \in K THEN Cardinality(K) - 1 ELSE Cardinality(K)
    BY <1>2, FS_RemoveElement
  <1>10. Count(r, e) = Cardinality(J) /\ Count(q, e) = Cardinality(K)
    BY DEF Count, J, K
  <1>11. Count(q, e) = Count(r, e) + One(Head(q) = e)
    BY <1>2, <1>3, <1>7, <1>8, <1>9, <1>10 DEF One
  <1> QED BY <1>11 DEF r

-----------------------------------------------------------------------------
\* What a step keeps.

\* The bits of the motor and that of the switch.
MotorBitsKept == \A b \in MotorBits : b \in port' <=> b \in port
OpenBitKept == "OPEN_BIT" \in port' <=> "OPEN_BIT" \in port

\* What a handler of the motor has set right, where the motor's bits stay.
LEMMA MotorKept ==
    ASSUME MotorBitsKept, UNCHANGED commanded
    PROVE  /\ MotorRight => MotorRight'
           /\ (Going => Going') /\ (Unhalted => Unhalted') /\ (Ahead => Ahead')
           /\ Halt' = Halt /\ Speed' = Speed /\ Leave' = Leave /\ GoRight' = GoRight
           /\ NotLeft' = NotLeft /\ Enter' = Enter /\ Unstop' = Unstop /\ Go' = Go
           /\ todo' = todo /\ MotorPhase => MotorPhase'
  <1>1. /\ "STOP_BIT" \in port' <=> "STOP_BIT" \in port
        /\ "RIGHT_BIT" \in port' <=> "RIGHT_BIT" \in port
        /\ "LEFT_BIT" \in port' <=> "LEFT_BIT" \in port
        /\ "SLOW_BIT" \in port' <=> "SLOW_BIT" \in port
    BY DEF MotorBitsKept, MotorBits
  <1>2. MotorRight => MotorRight'
    BY <1>1 DEF MotorRight
  <1>3. (Going => Going') /\ (Unhalted => Unhalted') /\ (Ahead => Ahead')
    BY <1>1 DEF Going, Unhalted, Ahead
  <1>4. /\ Halt' = Halt /\ Speed' = Speed /\ Leave' = Leave /\ GoRight' = GoRight
        /\ NotLeft' = NotLeft /\ Enter' = Enter /\ Unstop' = Unstop /\ Go' = Go
    BY DEF Halt, Speed, Leave, GoRight, NotLeft, Enter, Unstop, Go, Set, Clear, Do
  <1>5. todo' = todo /\ MotorPhase => MotorPhase'
    BY <1>3, <1>4 DEF MotorPhase
  <1> QED BY <1>2, <1>3, <1>4, <1>5

\* The handlers of the switch are always the same.
LEMMA SwitchWorkKept ==
    /\ OpenWork' = OpenWork /\ CloseWork' = CloseWork /\ TimerWork' = TimerWork
    /\ todo' = todo => (Starting' <=> Starting)
  BY DEF OpenWork, TimerWork, CloseWork, Set, Clear, Do, Starting

\* The bits stay right where nobody touches them.
LEMMA BitsKept ==
    ASSUME BitsInv, UNCHANGED <<todo, commanded, switch>>, MotorBitsKept, OpenBitKept
    PROVE  BitsInv'
  <1>1. MotorPhase \/ MotorRight => (MotorPhase \/ MotorRight)'
    BY MotorKept
  <1> QED BY <1>1, SwitchWorkKept DEF BitsInv, OpenBitKept

\* Nobody does, for one, where the port is as it was.
LEMMA SamePort ==
    ASSUME port' = port
    PROVE  MotorBitsKept /\ OpenBitKept
  BY DEF MotorBitsKept, OpenBitKept

\* Nor where a light is switched.
LEMMA OtherBit ==
    ASSUME NEW c \in Colours, port' \subseteq port \cup {c}, port \subseteq port' \cup {c}
    PROVE  MotorBitsKept /\ OpenBitKept
  BY PartsAre DEF MotorBitsKept, OpenBitKept

\* Work to do stays so while the lights do, apart from the one whose thread is
\* about to be destroyed.
LEMMA WorkKept ==
    ASSUME WorkInv, UNCHANGED <<todo, bl_threads, signal, commanded, switch>>, MotorBitsKept,
           \A C \in SUBSET Colours : Lit(C) => Lit(C)',
           \A c \in Colours : (\E s : Next1("destroy", c, s)) /\ Dying(c) => Dying(c)'
    PROVE  WorkInv'
  <1> DEFINE r == "RED"
             y == "YELLOW"
             g == "GREEN"
  <1>1. /\ Stops' = Stops /\ AfterRed' = AfterRed /\ AfterYellow' = AfterYellow
        /\ Ending' = Ending /\ Target' = Target
        /\ stop_blink(y)' = stop_blink(y) /\ \A C : Gone(C)' = Gone(C)
    BY SameWork
  <1>2. MotorPhase => MotorPhase'
    BY MotorKept
  <1>3. Lit(Colours) => Lit(Colours)'
    OBVIOUS
  <1>4. SwitchPhase => SwitchPhase'
    BY SwitchWorkKept DEF SwitchPhase
  <1>5. /\ r \in Colours /\ y \in Colours /\ g \in Colours
        /\ AfterRed \in Seq(Ops) /\ AfterYellow \in Seq(Ops) /\ Ending \in Seq(Ops)
    BY StopsAre, EndingIs DEF Colours
  <1>6. YellowPhase => YellowPhase'
    <2> DEFINE s == Do("start", y)
    <2>1. s \in Seq(Ops)
      BY <1>5, DoType, WhatsAre
    <2> HIDE DEF s
    <2>2. ASSUME todo = Do("destroy", y) \o s, Dying(y)
          PROVE  Dying(y)'
      <3> HIDE DEF y
      <3>1. Next1("destroy", y, s)
        BY <1>5, <2>1, <2>2, Next1Is, WhatsAre
      <3> QED BY <1>5, <2>2, <3>1
    <2> QED BY <1>1, <2>2 DEF YellowPhase, s, Do
  <1>7. ClearPhase => ClearPhase'
    <2>1. {"RED"} \in SUBSET Colours /\ {"RED", "YELLOW"} \in SUBSET Colours
      BY DEF Colours
    <2>2. \A d : Clear(d)' = Clear(d)
      BY DEF Clear, Do
    <2>3. /\ Lit({"RED"}) => Lit({"RED"})'
          /\ Lit({"RED", "YELLOW"}) => Lit({"RED", "YELLOW"})'
      BY <2>1
    <2> QED BY <1>1, <2>2, <2>3 DEF ClearPhase
  <1>8. StopPhase => StopPhase'
    <2>1. ASSUME NEW c \in Colours, NEW s \in Seq(Ops), todo = Do("destroy", c) \o s, Dying(c)
          PROVE  Dying(c)'
      <3>1. Next1("destroy", c, s)
        BY <2>1, Next1Is, WhatsAre
      <3> QED BY <2>1, <3>1
    <2>2. todo = Stops => todo' = Stops'
      BY <1>1
    <2>3. ASSUME todo = Do("destroy", r) \o AfterRed, Dying(r)
          PROVE  (todo = Do("destroy", "RED") \o AfterRed /\ Dying("RED"))'
      <3>1. Dying(r)'
        BY <1>5, <2>1, <2>3
      <3> QED BY <1>1, <2>3, <3>1 DEF Do
    <2>4. ASSUME todo = Do("destroy", y) \o AfterYellow, Dying(y), Gone({r})
          PROVE  (todo = Do("destroy", "YELLOW") \o AfterYellow /\ Dying("YELLOW") /\ Gone({"RED"}))'
      <3>1. Dying(y)'
        BY <1>5, <2>1, <2>4
      <3> QED BY <1>1, <2>4, <3>1 DEF Do
    <2>5. ASSUME todo = Do("destroy", g) \o Ending, Dying(g), Gone({r, y})
          PROVE  (todo = Do("destroy", "GREEN") \o Ending /\ Dying("GREEN") /\ Gone({"RED", "YELLOW"}))'
      <3>1. Dying(g)'
        BY <1>5, <2>1, <2>5
      <3> QED BY <1>1, <2>5, <3>1 DEF Do
    <2> QED BY <2>2, <2>3, <2>4, <2>5 DEF StopPhase
  <1>9. BlinkPhase => BlinkPhase'
    <2>1. Colours \ {Target} \in SUBSET Colours
      OBVIOUS
    <2>2. Lit(Colours \ {Target}) => Lit(Colours \ {Target})'
      BY <1>1, <2>1
    <2>3. \A what : Do(what, Target)' = Do(what, Target)
      BY <1>1 DEF Do
    <2> QED BY <1>1, <2>2, <2>3 DEF BlinkPhase
  <1>10. LightPhase => LightPhase'
    BY <1>3, <1>6, <1>7, <1>8, <1>9 DEF LightPhase
  <1> QED BY <1>2, <1>3, <1>4, <1>10 DEF WorkInv

\* The lights, the port's other bits and the threads the handlers know of.
LEMMA LitKept ==
    ASSUME NEW C \in SUBSET Colours, Lit(C), UNCHANGED signal,
           \A c \in C : c \in port' => \/ c \in port /\ (c \in late => c \in late')
                                       \/ bl_threads[c] # NoThread,
           \A c \in C : bl_threads'[c] = bl_threads[c]
    PROVE  Lit(C)'
  BY DEF Lit, Steady

\* What the handlers of the switch count, where none of them does anything.
LEMMA SwitchKept ==
    ASSUME SwitchInv, UNCHANGED <<switchVars, queue>>, Starting' <=> Starting
    PROVE  SwitchInv'
  <1> DEFINE n(q) == Count(q, "TIMER_SWITCH_OUT")
  <1>1. /\ queue' = queue /\ switch' = switch /\ listeners' = listeners /\ timed' = timed
        /\ others' = others /\ strays' = strays
    BY DEF switchVars
  <1>2. Registered' /\ TimedInv' /\ DOMAIN listeners' = SwitchEvents
    BY <1>1 DEF SwitchInv, Registered, TimedInv
  <1>3. n(queue') = n(queue)
    BY <1>1
  <1>4. CountInv'
    <2> HIDE DEF n
    <2> SUFFICES CountInv /\ n(queue') = n(queue) =>
                 IF switch' = "Close" \/ Starting'
                 THEN n(queue') + others' + One(timed') = strays'
                 ELSE n(queue') + others' = strays' + One(~ timed')
      BY <1>3 DEF SwitchInv, CountInv, n
    <2> QED BY <1>1 DEF CountInv, One, n
  <1> QED BY <1>2, <1>4 DEF SwitchInv

\* A handler of a light, before and after a step of it.
LEMMA LightStep ==
    ASSUME BitsInv, SwitchInv, LightPhase, LightPhase', UNCHANGED <<switchVars, queue, commanded>>,
           MotorBitsKept, OpenBitKept
    PROVE  WorkInv' /\ BitsInv' /\ SwitchInv'
  <1>1. Starting' <=> Starting
    BY Apart, ApartNext DEF PhasesApart
  <1>2. SwitchInv'
    BY <1>1, SwitchKept
  <1>3. switch' = switch
    BY DEF switchVars
  <1>4. BitsInv'
    <2>1. MotorRight'
      BY Apart, MotorKept DEF PhasesApart, BitsInv
    <2> QED BY <1>3, <2>1, Apart, ApartNext DEF PhasesApart, BitsInv, OpenBitKept
  <1>5. WorkInv'
    BY DEF WorkInv
  <1> QED BY <1>2, <1>4, <1>5

\* Identities.
LEMMA ThreadsAre ==
    /\ NoThread \notin Threads /\ Unheld \notin Threads /\ Dead \notin Threads
    /\ Dispatcher \notin Threads /\ Dispatcher # Unheld /\ Dispatcher # Dead
    /\ Dispatcher # NoThread
  BY ThreadsAssumption DEF NoThread, Unheld, Dead, Dispatcher

-----------------------------------------------------------------------------
\* The steps.

\* A thread takes the mutex and reads the port.
LEMMA BeginKeeps ==
    ASSUME Inv, NEW t \in Threads \cup {Dispatcher}, BeginChange(t),
           t = Dispatcher => todo # <<>> /\ Head(todo).do \in {"set", "clear"},
           UNCHANGED <<switchVars, queue, todo, lampVars, signal, commanded>>
    PROVE  Inv'
  <1>1. /\ bo_mtx \in {Unheld, t} /\ t \notin DOMAIN read /\ bo_mtx' = t /\ port' = port /\ late' = late
        /\ read' = [u \in DOMAIN read \cup {t} |-> IF u = t THEN port ELSE read[u]]
    BY DEF BeginChange, MayLock
  <1>2. TypeOK /\ WorkInv /\ ReadInv /\ ThreadsInv /\ BitsInv /\ SwitchInv
    BY DEF Inv, PortInv
  <1>3. /\ todo' = todo /\ queue' = queue /\ signal' = signal /\ commanded' = commanded
        /\ bl_threads' = bl_threads /\ blinking' = blinking
        /\ switch' = switch /\ listeners' = listeners /\ timed' = timed
        /\ others' = others /\ strays' = strays
    BY DEF lampVars, switchVars
  <1>4. DOMAIN read = {}
    BY <1>1, <1>2 DEF ReadInv
  <1>5. DOMAIN read' = {t} /\ read'[t] = port
    BY <1>1, <1>4
  <1>6. ReadInv'
    BY <1>1, <1>3, <1>5, ThreadsAre DEF ReadInv
  <1>7. TypeOK'
    BY <1>1, <1>2, <1>3, <1>5 DEF TypeOK
  <1>8. WorkInv'
    <2>1. \A C \in SUBSET Colours : Lit(C) => Lit(C)'
      BY <1>1, <1>3, LitKept
    <2>2. \A c : Dying(c) => Dying(c)'
      BY <1>1, <1>3 DEF Dying
    <2> QED BY <1>1, <1>2, <1>3, <2>1, <2>2, SamePort, WorkKept
  <1>9. ThreadsInv'
    BY <1>2, <1>3 DEF ThreadsInv
  <1>11. BitsInv'
    BY <1>1, <1>2, <1>3, SamePort, BitsKept
  <1>12. SwitchInv'
    BY <1>2, <1>3, SwitchWorkKept, SwitchKept
  <1> QED BY <1>6, <1>7, <1>8, <1>9, <1>11, <1>12 DEF Inv, PortInv

\* A timer of the switch runs out.
LEMMA ExpireKeeps ==
    ASSUME Inv, Expire
    PROVE  Inv'
  <1> DEFINE out == "TIMER_SWITCH_OUT"
  <1>1. /\ queue' = Append(queue, out) /\ todo' = todo /\ signal' = signal
        /\ commanded' = commanded /\ bl_threads' = bl_threads /\ blinking' = blinking
        /\ port' = port /\ bo_mtx' = bo_mtx /\ read' = read /\ late' = late
        /\ switch' = switch /\ listeners' = listeners /\ strays' = strays
    BY DEF Expire, TimerOut, portVars, lampVars
  <1>2. \/ timed /\ timed' = FALSE /\ others' = others
        \/ others > 0 /\ others' = others - 1 /\ timed' = timed
    BY DEF Expire, TimerOut
  <1>3. TypeOK /\ WorkInv /\ ReadInv /\ ThreadsInv /\ BitsInv /\ SwitchInv
    BY DEF Inv, PortInv
  <1>5. /\ timed \in BOOLEAN /\ others \in Nat /\ strays \in Nat /\ queue \in Seq(PortEvents)
        /\ out \in PortEvents
    BY <1>3 DEF TypeOK, PortEvents, SwitchEvents
  <1> HIDE DEF out
  <1>6. queue' \in Seq(PortEvents) /\ timed' \in BOOLEAN /\ others' \in Nat
    <2>1. queue' \in Seq(PortEvents)
      BY <1>1, <1>5, Appending
    <2>2. timed' \in BOOLEAN
      BY <1>2, <1>5
    <2>3. others' \in Nat
      BY <1>2, <1>5
    <2> QED BY <2>1, <2>2, <2>3
  <1>7. TypeOK'
    BY <1>1, <1>3, <1>5, <1>6 DEF TypeOK
  <1>8. WorkInv'
    <2>1. \A C \in SUBSET Colours : Lit(C) => Lit(C)'
      BY <1>1, LitKept
    <2>2. \A c : Dying(c) => Dying(c)'
      BY <1>1 DEF Dying
    <2> QED BY <1>1, <1>3, <2>1, <2>2, SamePort, WorkKept
  <1>9. ReadInv' /\ ThreadsInv' /\ BitsInv'
    <2>1. BitsInv'
      BY <1>1, <1>3, SamePort, BitsKept
    <2> QED BY <1>1, <1>3, <2>1 DEF ReadInv, ThreadsInv
  <1>10. Starting' <=> Starting
    BY <1>1, SwitchWorkKept
  <1>11. Count(queue', out) = Count(queue, out) + 1 /\ Count(queue, out) \in Nat
    <2>1. Count(queue', out) = Count(queue, out) + One(out = out)
      BY <1>1, <1>5, CountAppended
    <2> QED BY <2>1, <1>5, CountType DEF One
  <1>12. TimedInv'
    <2>1. DOMAIN queue' = 1..(Len(queue) + 1) /\ queue'[Len(queue) + 1] = out /\ Len(queue) \in Nat
      BY <1>1, <1>5, Appending
    <2> QED BY <2>1 DEF TimedInv, out
  <1>13. CountInv'
    BY <1>1, <1>2, <1>3, <1>5, <1>10, <1>11 DEF SwitchInv, CountInv, One, out
  <1>14. SwitchInv'
    BY <1>1, <1>3, <1>12, <1>13 DEF SwitchInv, Registered
  <1> QED BY <1>7, <1>8, <1>9, <1>14 DEF Inv, PortInv

\* Somebody posts a pulse.
LEMMA PostKeeps ==
    ASSUME Inv, NEW e \in Inputs, Post(e)
    PROVE  Inv'
  <1> DEFINE out == "TIMER_SWITCH_OUT"
  <1>1. /\ queue' = Append(queue, e) /\ todo' = todo /\ signal' = signal
        /\ commanded' = commanded /\ bl_threads' = bl_threads /\ blinking' = blinking
        /\ port' = port /\ bo_mtx' = bo_mtx /\ read' = read /\ late' = late
        /\ switch' = switch /\ listeners' = listeners
        /\ timed' = timed /\ others' = others
        /\ strays' = strays + One(e = out)
    <2>1. strays' = IF e = "TIMER_SWITCH_OUT" THEN strays + 1 ELSE strays
      BY DEF Post
    <2>2. TypeOK
      BY DEF Inv
    <2>3. strays' = strays + One(e = out)
      BY <2>1, <2>2 DEF One, TypeOK
    <2> QED BY <2>3 DEF Post, portVars, lampVars
  <1>3. TypeOK /\ WorkInv /\ ReadInv /\ ThreadsInv /\ BitsInv /\ SwitchInv
    BY DEF Inv, PortInv
  <1>5. timed \in BOOLEAN /\ others \in Nat /\ strays \in Nat /\ queue \in Seq(PortEvents)
    BY <1>3 DEF TypeOK
  <1>e. e \in PortEvents
    BY InputsAssumption
  <1> HIDE DEF out
  <1>6. queue' \in Seq(PortEvents) /\ strays' \in Nat
    <2>1. queue' \in Seq(PortEvents)
      BY <1>1, <1>5, <1>e, Appending
    <2>2. strays' \in Nat
      BY <1>1, <1>5 DEF One
    <2> QED BY <2>1, <2>2
  <1>7. TypeOK'
    BY <1>1, <1>3, <1>5, <1>6 DEF TypeOK
  <1>8. WorkInv'
    <2>1. \A C \in SUBSET Colours : Lit(C) => Lit(C)'
      BY <1>1, LitKept
    <2>2. \A c : Dying(c) => Dying(c)'
      BY <1>1 DEF Dying
    <2> QED BY <1>1, <1>3, <2>1, <2>2, SamePort, WorkKept
  <1>9. ReadInv' /\ ThreadsInv' /\ BitsInv'
    <2>1. BitsInv'
      BY <1>1, <1>3, SamePort, BitsKept
    <2> QED BY <1>1, <1>3, <2>1 DEF ReadInv, ThreadsInv
  <1>10. Starting' <=> Starting
    BY <1>1, SwitchWorkKept
  <1>11. Count(queue', out) = Count(queue, out) + One(e = out) /\ Count(queue, out) \in Nat
    <2>1. Count(queue', out) = Count(queue, out) + One(e = out)
      BY <1>1, <1>5, <1>e, CountAppended
    <2> QED BY <2>1, <1>5, CountType
  <1>12. TimedInv'
    <2>1. /\ DOMAIN queue' = 1..(Len(queue) + 1) /\ Len(queue) \in Nat
          /\ DOMAIN queue = 1..Len(queue)
          /\ \A k \in 1..Len(queue) : queue'[k] = queue[k]
      BY <1>1, <1>5, <1>e, Appending
    <2>2. (\E k \in DOMAIN queue : queue[k] = out) => \E k \in DOMAIN queue' : queue'[k] = out
      BY <2>1
    <2> QED BY <1>1, <1>3, <1>10, <2>2 DEF TimedInv, SwitchInv, out
  <1>13. CountInv'
    <2> DEFINE x == e = out
    <2>1. CountInv
      BY <1>3 DEF SwitchInv
    <2> HIDE DEF x
    <2>2. /\ Count(queue', out) = Count(queue, out) + One(x) /\ Count(queue, out) \in Nat
          /\ strays' = strays + One(x) /\ One(x) \in Nat
      BY <1>1, <1>11 DEF x, One
    <2> DEFINE n == Count(queue, out)
               m == One(x)
               a == One(timed)
               b == One(~ timed)
    <2>3. One(timed') = a /\ One(~ timed') = b /\ a \in Nat /\ b \in Nat
      BY <1>1 DEF One
    <2>4. /\ switch = "Close" \/ Starting => n + others + a = strays
          /\ ~ (switch = "Close" \/ Starting) => n + others = strays + b
      BY <2>1 DEF CountInv, out
    <2> HIDE DEF a, b, n, m
    <2>5. /\ n \in Nat /\ m \in Nat /\ Count(queue', out) = n + m /\ strays' = strays + m
      BY <2>2 DEF n, m
    <2>6. /\ switch' = "Close" \/ Starting' => n + m + others' + a = strays'
          /\ ~ (switch' = "Close" \/ Starting') => n + m + others' = strays' + b
      <3>1. n + m + others' + a = n + others + a + m /\ n + m + others' = n + others + m
        BY <1>1, <1>5, <2>3, <2>5
      <3>2. strays' + b = strays + b + m
        BY <1>5, <2>3, <2>5
      <3> QED BY <1>1, <1>10, <2>4, <2>5, <3>1, <3>2
    <2>7. /\ switch' = "Close" \/ Starting' => Count(queue', out) + others' + One(timed') = strays'
          /\ ~ (switch' = "Close" \/ Starting') => Count(queue', out) + others' = strays' + One(~ timed')
      BY <2>3, <2>5, <2>6
    <2> QED BY <2>7 DEF CountInv, out
  <1>14. SwitchInv'
    BY <1>1, <1>3, <1>12, <1>13 DEF SwitchInv, Registered
  <1> QED BY <1>7, <1>8, <1>9, <1>14 DEF Inv, PortInv

\* A blink thread writes the port.
LEMMA BlinkWriteKeeps ==
    ASSUME Inv, NEW t \in Threads, BlinkWrite(t)
    PROVE  Inv'
  <1> DEFINE c == blinking[t].colour
             what == blinking[t].next
  <1>1. TypeOK /\ WorkInv /\ ReadInv /\ ThreadsInv /\ BitsInv /\ SwitchInv
    BY DEF Inv, PortInv
  <1>2. /\ t \in DOMAIN blinking /\ t \in DOMAIN read
        /\ port' = IF what = "set" THEN read[t] \cup {c} ELSE read[t] \ {c}
        /\ read' = [u \in DOMAIN read \ {t} |-> read[u]]
        /\ bo_mtx' = (IF bo_mtx = t THEN Unheld ELSE bo_mtx)
        /\ late' = IF /\ t # Dispatcher /\ what = "set"
                      /\ todo # <<>> /\ Head(todo) = [do |-> "destroy", of |-> c]
                   THEN late \cup {c} ELSE late \ {c}
        /\ blinking' = [blinking EXCEPT ![t].next = IF @ = "set" THEN "clear" ELSE "set"]
    BY DEF BlinkWrite, EndChange, Unlocked
  <1>3. /\ todo' = todo /\ queue' = queue /\ signal' = signal /\ commanded' = commanded
        /\ bl_threads' = bl_threads
        /\ switch' = switch /\ listeners' = listeners /\ timed' = timed
        /\ others' = others /\ strays' = strays
    BY DEF BlinkWrite, switchVars
  <1>4. c \in Colours /\ what \in {"set", "clear"} /\ bl_threads[c] = t /\ bl_threads[c] # NoThread
    BY <1>1, <1>2, ThreadsAre DEF TypeOK, ThreadsInv
  <1>5. read[t] = port /\ DOMAIN read' = {} /\ bo_mtx' = Unheld
    BY <1>1, <1>2 DEF ReadInv
  <1>6. /\ DOMAIN blinking' = DOMAIN blinking
        /\ \A u \in DOMAIN blinking : /\ blinking'[u].colour = blinking[u].colour
                                      /\ blinking'[u] \in [colour : Colours, hz : {500000, 1000000},
                                                           next : {"set", "clear"}]
    BY <1>1, <1>2 DEF TypeOK
  <1> HIDE DEF c, what
  <1>7. /\ port' \subseteq port \cup {c} /\ port \subseteq port' \cup {c}
        /\ late \subseteq late' \cup {c} /\ late' \subseteq late \cup {c}
    BY <1>2, <1>5
  <1>8. /\ late \subseteq Colours /\ port \subseteq Bits
    BY <1>1 DEF TypeOK
  <1>9. late' \subseteq Colours /\ port' \subseteq Bits
    BY <1>4, <1>7, <1>8 DEF Bits
  <1>10. TypeOK'
    <2>1. switch' \in {"Close", "Open"} /\ timed' \in BOOLEAN /\ others' \in Nat /\ strays' \in Nat
      BY <1>1, <1>3 DEF TypeOK
    <2>2. queue' \in Seq(PortEvents)
      BY <1>1, <1>3 DEF TypeOK
    <2>3. bl_threads' \in [Colours -> Threads \cup {NoThread}]
      BY <1>1, <1>3 DEF TypeOK
    <2>4. signal' \in LightEvents \cup {"none"} /\ commanded' \in MotorEvents
      BY <1>1, <1>3 DEF TypeOK
    <2>5. /\ DOMAIN read' \subseteq {bo_mtx'} /\ \A u \in DOMAIN read' : read'[u] \subseteq Bits
          /\ bo_mtx' \in Threads \cup {Dispatcher, Unheld, Dead}
      BY <1>2, <1>5
    <2>6. /\ DOMAIN blinking' \subseteq Threads
          /\ \A u \in DOMAIN blinking' : blinking'[u] \in [colour : Colours, hz : {500000, 1000000},
                                                           next : {"set", "clear"}]
      BY <1>1, <1>6 DEF TypeOK
    <2> QED BY <1>9, <2>1, <2>2, <2>3, <2>4, <2>5, <2>6 DEF TypeOK
  <1>11. WorkInv'
    <2>1. \A C \in SUBSET Colours : Lit(C) => Lit(C)'
      <3> SUFFICES ASSUME NEW C \in SUBSET Colours, Lit(C)
                   PROVE  Lit(C)'
        OBVIOUS
      <3>1. \A d \in C : d \in port' => \/ d \in port /\ (d \in late => d \in late')
                                        \/ bl_threads[d] # NoThread
        BY <1>4, <1>7
      <3> QED BY <1>3, <3>1, LitKept
    <2>2. ASSUME NEW d \in Colours, NEW s, Next1("destroy", d, s), Dying(d)
          PROVE  Dying(d)'
      <3>1. todo # <<>> /\ Head(todo) = [do |-> "destroy", of |-> d]
        BY <2>2 DEF Next1
      <3>2. bl_threads'[d] # NoThread
        BY <1>3, <2>2 DEF Dying
      <3>3. d \in port' => d \in late'
        <4>1. CASE d # c
          BY <1>7, <2>2, <4>1 DEF Dying
        <4>2. CASE d = c /\ what = "set"
          <5>1. t # Dispatcher
            BY ThreadsAre
          <5> QED BY <1>2, <3>1, <4>2, <5>1
        <4>3. CASE d = c /\ what # "set"
          BY <1>2, <4>3
        <4> QED BY <4>1, <4>2, <4>3
      <3> QED BY <3>2, <3>3 DEF Dying
    <2>3. MotorBitsKept
      BY <1>4, <1>7, OtherBit
    <2> QED BY <1>1, <1>3, <2>1, <2>2, <2>3, WorkKept
  <1>12. ReadInv'
    BY <1>5 DEF ReadInv
  <1>13. ThreadsInv'
    BY <1>1, <1>3, <1>6 DEF ThreadsInv
  <1>15. BitsInv'
    <2>1. MotorBitsKept /\ OpenBitKept
      BY <1>4, <1>7, OtherBit
    <2> QED BY <1>1, <1>3, <2>1, BitsKept
  <1>16. SwitchInv'
    <2>1. UNCHANGED <<switchVars, queue>>
      BY <1>3 DEF switchVars
    <2> QED BY <1>1, <1>3, <2>1, SwitchWorkKept, SwitchKept
  <1> QED BY <1>10, <1>11, <1>12, <1>13, <1>15, <1>16 DEF Inv, PortInv

\* What the dispatcher thread writes.
LEMMA Written ==
    ASSUME Inv, WritePort,
           NEW what \in Whats, NEW bit \in Bits, Head(todo) = [do |-> what, of |-> bit]
    PROVE  /\ port' = IF what = "set" THEN port \cup {bit} ELSE port \ {bit}
           /\ late' = late \ {bit} /\ DOMAIN read' = {} /\ bo_mtx' = Unheld
           /\ UNCHANGED <<switchVars, queue, bl_threads, blinking, signal, commanded>>
           /\ todo' = Tail(todo) /\ what \in {"set", "clear"}
           /\ \A C \in SUBSET Colours :
                  /\ Lit(C \ {bit}) /\ what = "clear" => Lit(C)'
                  /\ Lit(C) /\ bit \notin C => Lit(C)'
           /\ TypeOK' /\ ReadInv' /\ ThreadsInv'
  <1>1. TypeOK /\ ReadInv /\ ThreadsInv
    BY DEF Inv, PortInv
  <1>2. Head(todo).do = what /\ Head(todo).of = bit
    OBVIOUS
  <1>3. /\ Dispatcher \in DOMAIN read
        /\ port' = IF what = "set" THEN read[Dispatcher] \cup {bit} ELSE read[Dispatcher] \ {bit}
        /\ read' = [u \in DOMAIN read \ {Dispatcher} |-> read[u]]
        /\ bo_mtx' = (IF bo_mtx = Dispatcher THEN Unheld ELSE bo_mtx)
        /\ late' = late \ {bit} /\ todo' = Tail(todo) /\ what \in {"set", "clear"}
    BY <1>2 DEF WritePort, EndChange, Unlocked, Doing
  <1>4. /\ UNCHANGED <<switchVars, queue, bl_threads, blinking, signal, commanded>>
        /\ queue' = queue /\ signal' = signal /\ commanded' = commanded /\ blinking' = blinking
        /\ bl_threads' = bl_threads
        /\ switch' = switch /\ listeners' = listeners /\ timed' = timed
        /\ others' = others /\ strays' = strays
    BY DEF WritePort, switchVars, lampVars
  <1>5. read[Dispatcher] = port /\ DOMAIN read' = {} /\ bo_mtx' = Unheld
    BY <1>1, <1>3 DEF ReadInv
  <1>6. port' = IF what = "set" THEN port \cup {bit} ELSE port \ {bit}
    BY <1>3, <1>5
  <1>7. ReadInv' /\ ThreadsInv'
    BY <1>1, <1>4, <1>5 DEF ReadInv, ThreadsInv
  <1>8. TypeOK'
    <2>1. port' \subseteq Bits /\ late' \subseteq Colours
      BY <1>1, <1>3, <1>6 DEF TypeOK
    <2>2. switch' \in {"Close", "Open"} /\ timed' \in BOOLEAN /\ others' \in Nat /\ strays' \in Nat
      BY <1>1, <1>4 DEF TypeOK
    <2>3. queue' \in Seq(PortEvents)
      BY <1>1, <1>4 DEF TypeOK
    <2>4. bl_threads' \in [Colours -> Threads \cup {NoThread}]
      BY <1>1, <1>4 DEF TypeOK
    <2>5. signal' \in LightEvents \cup {"none"} /\ commanded' \in MotorEvents
      BY <1>1, <1>4 DEF TypeOK
    <2>6. /\ DOMAIN read' \subseteq {bo_mtx'} /\ \A u \in DOMAIN read' : read'[u] \subseteq Bits
          /\ bo_mtx' \in Threads \cup {Dispatcher, Unheld, Dead}
      BY <1>5
    <2>7. /\ DOMAIN blinking' \subseteq Threads
          /\ \A u \in DOMAIN blinking' : blinking'[u] \in [colour : Colours, hz : {500000, 1000000},
                                                           next : {"set", "clear"}]
      BY <1>1, <1>4 DEF TypeOK
    <2> QED BY <2>1, <2>2, <2>3, <2>4, <2>5, <2>6, <2>7 DEF TypeOK
  <1>9. Steady' = Steady
    BY <1>4 DEF Steady
  <1>10. ASSUME NEW C \in SUBSET Colours, Lit(C \ {bit}), what = "clear"
         PROVE  Lit(C)'
    BY <1>3, <1>4, <1>6, <1>9, <1>10 DEF Lit
  <1>11. ASSUME NEW C \in SUBSET Colours, Lit(C), bit \notin C
         PROVE  Lit(C)'
    BY <1>3, <1>4, <1>6, <1>9, <1>11 DEF Lit
  <1> QED BY <1>3, <1>4, <1>5, <1>6, <1>7, <1>8, <1>10, <1>11

\* A handler of a light that writes the port is such a handler afterwards.
LEMMA WriteLight ==
    ASSUME Inv, WritePort, LightPhase
    PROVE  LightPhase' /\ Head(todo).of \in Colours
  <1> DEFINE r == "RED"
             y == "YELLOW"
             g == "GREEN"
             cl == "clear"
             st == "set"
             op == Head(todo)
  <1>1. r \in Colours /\ y \in Colours /\ g \in Colours /\ Target \in Colours /\ Colours \subseteq Bits
    BY ColoursAre DEF Colours
  <1>2. cl \in Whats /\ st \in Whats
    BY WhatsAre
  <1>3. /\ UNCHANGED <<bl_threads, signal>> /\ todo # <<>> /\ todo' = Tail(todo)
        /\ op.do \in {"set", "clear"}
    BY DEF WritePort, Doing, lampVars
  <1>4. /\ Stops' = Stops /\ AfterRed' = AfterRed /\ AfterYellow' = AfterYellow
        /\ Ending' = Ending /\ Target' = Target /\ Steady' = Steady
        /\ stop_blink(y)' = stop_blink(y) /\ \A C : Gone(C)' = Gone(C)
    BY <1>3, SameWork
  <1>5. \A w, x : Do(w, x)' = Do(w, x) /\ Clear(x) = Do(cl, x) /\ Clear(x)' = Clear(x)
    BY DEF Clear, Do
  <1>6. ASSUME NEW what \in Whats, NEW of \in Colours, NEW s, Next1(what, of, s)
        PROVE  /\ op = [do |-> what, of |-> of] /\ of \in Bits /\ todo' = s
               /\ what = op.do /\ of = op.of
    BY <1>1, <1>3, <1>6 DEF Next1
  <1> HIDE DEF r, y, g, cl, st, op
  <1>7. ASSUME NEW c \in Colours, NEW s, Next1(cl, c, s)
        PROVE  /\ todo' = s /\ \A C \in SUBSET Colours : Lit(C \ {c}) => Lit(C)'
               /\ c \notin port' /\ op.of = c
    <2>1. op = [do |-> cl, of |-> c] /\ c \in Bits /\ todo' = s /\ op.of = c
      BY <1>2, <1>6, <1>7
    <2>2. /\ port' = IF cl = "set" THEN port \cup {c} ELSE port \ {c}
          /\ \A C \in SUBSET Colours : Lit(C \ {c}) /\ cl = "clear" => Lit(C)'
      BY <1>2, <2>1, Written DEF op
    <2> QED BY <2>1, <2>2 DEF cl
  <1>8. ASSUME NEW c \in Colours, NEW s, Next1(st, c, s)
        PROVE  /\ todo' = s /\ \A C \in SUBSET Colours : Lit(C) /\ c \notin C => Lit(C)'
               /\ op.of = c
    <2>1. op = [do |-> st, of |-> c] /\ c \in Bits /\ todo' = s /\ op.of = c
      BY <1>2, <1>6, <1>8
    <2>2. \A C \in SUBSET Colours : Lit(C) /\ c \notin C => Lit(C)'
      BY <1>2, <2>1, Written DEF op
    <2> QED BY <2>1, <2>2
  <1>9. ASSUME NEW C \in SUBSET Colours, NEW D \in SUBSET C, Lit(C)
        PROVE  Lit(D)
    BY <1>9 DEF Lit
  <1>10. ASSUME NEW c \in Colours, bl_threads[c] # NoThread, c \notin port'
         PROVE  Dying(c)'
    BY <1>3, <1>10 DEF Dying
  \* A destructor clears its light.
  <1>11. ASSUME NEW c \in Colours, NEW s, Next1(cl, c, s), Lit(Colours), bl_threads[c] # NoThread
         PROVE  todo' = s /\ Lit(Colours)' /\ Dying(c)' /\ op.of \in Colours
    BY <1>7, <1>9, <1>10, <1>11
  <1>12. CASE todo = <<>>
    BY <1>3, <1>12
  <1>13. CASE YellowPhase /\ Lit(Colours)
    <2>1. Next1(cl, y, Do("destroy", y) \o Do("start", y)) /\ bl_threads[y] # NoThread
      <3>1. ASSUME NEW what \in {"blink", "start", "destroy"}, NEW s
            PROVE  ~ Next1(what, y, s)
        BY <1>3 DEF Next1, op
      <3>2. /\ ~ Next1("blink", y, <<>>) /\ ~ Next1("start", y, <<>>)
            /\ ~ Next1("destroy", y, Do("start", y))
        BY <3>1
      <3> QED BY <1>13, <3>2, YellowCases DEF y, cl
    <2>2. todo' = Do("destroy", y) \o Do("start", y) /\ Lit(Colours)' /\ Dying(y)' /\ op.of \in Colours
      BY <1>1, <1>11, <1>13, <2>1
    <2>3. YellowPhase'
      BY <1>5, <2>2 DEF YellowPhase, y
    <2> QED BY <2>2, <2>3 DEF LightPhase, op
  <1>14. CASE signal \in Signals /\ ClearPhase
    <2>1. signal' \in Signals
      BY <1>3, <1>14 DEF Signals, LightEvents
    <2>2. CASE Next1(cl, r, Clear(y) \o (Clear(g) \o Stops))
      <3>1. Lit({r} \ {r})
        BY DEF Lit
      <3>2. todo' = Clear(y) \o (Clear(g) \o Stops) /\ Lit({r})' /\ op.of \in Colours
        BY <1>1, <1>7, <2>2, <3>1
      <3>3. ClearPhase'
        BY <1>4, <1>5, <3>2 DEF ClearPhase, r, y, g
      <3> QED BY <2>1, <3>2, <3>3 DEF LightPhase, op
    <2>3. CASE Next1(cl, y, Clear(g) \o Stops) /\ Lit({r})
      <3>1. Lit({r, y} \ {y})
        BY <2>3 DEF Lit
      <3>2. todo' = Clear(g) \o Stops /\ Lit({r, y})' /\ op.of \in Colours
        BY <1>1, <1>7, <2>3, <3>1
      <3>3. ClearPhase'
        BY <1>4, <1>5, <3>2 DEF ClearPhase, r, y, g
      <3> QED BY <2>1, <3>2, <3>3 DEF LightPhase, op
    <2>4. CASE Next1(cl, g, Stops) /\ Lit({r, y})
      <3>1. Lit(Colours \ {g})
        BY <2>4 DEF Lit, Colours, r, y, g
      <3>2. todo' = Stops /\ Lit(Colours)' /\ op.of \in Colours
        BY <1>1, <1>7, <2>4, <3>1
      <3>3. StopPhase'
        BY <1>4, <3>2 DEF StopPhase
      <3> QED BY <2>1, <3>2, <3>3 DEF LightPhase, op
    <2> QED BY <1>14, <2>2, <2>3, <2>4, ClearCases DEF r, y, g, cl
  <1>15. CASE signal \in Signals /\ StopPhase /\ Lit(Colours)
    <2>1. signal' \in Signals
      BY <1>3, <1>15 DEF Signals, LightEvents
    <2>2. CASE bl_threads[r] # NoThread /\ Next1(cl, r, Do("destroy", r) \o AfterRed)
      <3>1. todo' = Do("destroy", r) \o AfterRed /\ Lit(Colours)' /\ Dying(r)' /\ op.of \in Colours
        BY <1>1, <1>11, <1>15, <2>2
      <3>2. StopPhase'
        BY <1>4, <1>5, <3>1 DEF StopPhase, r
      <3> QED BY <2>1, <3>1, <3>2 DEF LightPhase, op
    <2>3. CASE /\ Gone({r}) /\ bl_threads[y] # NoThread
               /\ Next1(cl, y, Do("destroy", y) \o AfterYellow)
      <3>1. todo' = Do("destroy", y) \o AfterYellow /\ Lit(Colours)' /\ Dying(y)' /\ op.of \in Colours
        BY <1>1, <1>11, <1>15, <2>3
      <3>2. StopPhase'
        BY <1>4, <1>5, <2>3, <3>1 DEF StopPhase, r, y
      <3> QED BY <2>1, <3>1, <3>2 DEF LightPhase, op
    <2>4. CASE /\ Gone({r, y}) /\ bl_threads[g] # NoThread
               /\ Next1(cl, g, Do("destroy", g) \o Ending)
      <3>1. todo' = Do("destroy", g) \o Ending /\ Lit(Colours)' /\ Dying(g)' /\ op.of \in Colours
        BY <1>1, <1>11, <1>15, <2>4
      <3>2. StopPhase'
        BY <1>4, <1>5, <2>4, <3>1 DEF StopPhase, r, y, g
      <3> QED BY <2>1, <3>1, <3>2 DEF LightPhase, op
    <2>5. CASE signal = "TRAFFIC_LIGHT_NORMAL" /\ Next1(st, g, <<>>)
      <3>1. Lit(Colours \ {g})
        BY <1>15 DEF Lit
      <3>2. todo' = <<>> /\ Lit(Colours \ {g})' /\ op.of \in Colours
        BY <1>1, <1>8, <2>5, <3>1
      <3>3. Steady' = {g}
        BY <1>3, <2>5 DEF Steady, g
      <3>4. Lit(Colours)'
        BY <3>2, <3>3 DEF Lit
      <3> QED BY <3>2, <3>4 DEF LightPhase, op
    <2>6. CASE /\ Gone(Colours) /\ signal \in {"TRAFFIC_LIGHT_RDY", "TRAFFIC_LIGHT_UNACK_ERROR"}
               /\ Next1(st, Target, Do("blink", Target))
      <3> DEFINE t == Target
      <3>1. Lit(Colours \ {t})
        BY <1>15 DEF Lit
      <3> HIDE DEF t
      <3>2. t \in Colours /\ Next1(st, t, Do("blink", t))
        BY <1>1, <2>6 DEF t
      <3>3. Colours \ {t} \in SUBSET Colours /\ t \notin Colours \ {t}
        OBVIOUS
      <3>4. todo' = Do("blink", t) /\ op.of \in Colours
        BY <1>8, <3>2
      <3>5. \A C \in SUBSET Colours : Lit(C) /\ t \notin C => Lit(C)'
        BY <1>8, <3>2
      <3>6. t' = t
        BY <1>4 DEF t
      <3>7. Lit(Colours \ {t})'
        BY <3>1, <3>3, <3>5, <3>6
      <3>8. BlinkPhase'
        BY <1>3, <1>4, <1>5, <2>6, <3>4, <3>7 DEF BlinkPhase, t
      <3> QED BY <2>1, <3>4, <3>8 DEF LightPhase, op
    <2>7. ASSUME NEW what \in {"blink", "start", "destroy"}, NEW c, NEW s
          PROVE  ~ Next1(what, c, s)
      BY <1>3 DEF Next1, op
    <2>8. /\ ~ Next1("destroy", r, AfterRed) /\ ~ Next1("destroy", y, AfterYellow)
          /\ ~ Next1("destroy", g, Ending) /\ ~ Next1("blink", Target, <<>>)
      BY <2>7
    <2> QED BY <1>15, <2>2, <2>3, <2>4, <2>5, <2>6, <2>8, StopCases DEF r, y, g, cl, st
  <1>16. CASE BlinkPhase
    <2>1. ASSUME NEW what \in {"blink", "start", "destroy"}, NEW c, NEW s
          PROVE  ~ Next1(what, c, s)
      BY <1>3 DEF Next1, op
    <2>2. ~ Next1("blink", Target, <<>>) /\ ~ Next1("start", Target, <<>>)
      BY <2>1
    <2> QED BY <1>16, <2>2, BlinkCases
  <1> QED BY <1>12, <1>13, <1>14, <1>15, <1>16 DEF LightPhase

\* A handler of the motor that writes the port sets one more of its bits right.
LEMMA WriteMotor ==
    ASSUME Inv, WritePort, MotorPhase, Lit(Colours)
    PROVE  /\ MotorPhase' \/ (todo' = <<>> /\ MotorRight')
           /\ Lit(Colours)' /\ OpenBitKept /\ TypeOK' /\ ReadInv' /\ ThreadsInv'
  <1> DEFINE right == "RIGHT_BIT"
             left == "LEFT_BIT"
             slow == "SLOW_BIT"
             halt == "STOP_BIT"
             st == "set"
             cl == "clear"
             op == Head(todo)
  <1>1. /\ todo # <<>> /\ todo' = Tail(todo) /\ op.do \in {"set", "clear"}
        /\ commanded' = commanded
    BY DEF WritePort, Doing
  <1>2. /\ right \in MotorBits /\ left \in MotorBits /\ slow \in MotorBits /\ halt \in MotorBits
        /\ right # left /\ right # slow /\ right # halt /\ left # slow /\ left # halt /\ slow # halt
        /\ st # cl
    BY DEF MotorBits
  <1>3. /\ Leave' = Leave /\ GoRight' = GoRight /\ Enter' = Enter /\ Unstop' = Unstop
    BY <1>1 DEF Speed, Leave, GoRight, NotLeft, Enter, Unstop, Set, Clear, Do
  <1> HIDE DEF op, right, left, slow, halt, st, cl
  <1>4. ASSUME NEW what \in {st, cl}, NEW bit \in MotorBits, NEW s, Next1(what, bit, s)
        PROVE  /\ port' = IF what = st THEN port \cup {bit} ELSE port \ {bit}
               /\ todo' = s /\ Lit(Colours)' /\ OpenBitKept /\ TypeOK' /\ ReadInv' /\ ThreadsInv'
    <2>1. /\ what \in Whats /\ bit \in Bits /\ bit \notin Colours /\ Colours \in SUBSET Colours
          /\ bit # "OPEN_BIT"
      BY PartsAre, WhatsAre DEF st, cl
    <2>2. Head(todo) = [do |-> what, of |-> bit] /\ todo' = s
      BY <1>1, <1>4 DEF Next1
    <2>3. /\ port' = IF what = "set" THEN port \cup {bit} ELSE port \ {bit}
          /\ \A C \in SUBSET Colours : Lit(C) /\ bit \notin C => Lit(C)'
          /\ TypeOK' /\ ReadInv' /\ ThreadsInv'
      BY <2>1, <2>2, Written
    <2>4. OpenBitKept
      BY <2>1, <2>3 DEF OpenBitKept
    <2>5. Lit(Colours)'
      BY <2>1, <2>3
    <2> QED BY <2>2, <2>3, <2>4, <2>5 DEF st
  <1>5. CASE commanded = "MOTOR_STOP" /\ Next1(st, halt, <<>>)
    <2>1. /\ port' = port \cup {halt} /\ todo' = <<>>
          /\ Lit(Colours)' /\ OpenBitKept /\ TypeOK' /\ ReadInv' /\ ThreadsInv'
      BY <1>2, <1>4, <1>5
    <2>2. MotorRight'
      BY <1>1, <1>5, <2>1 DEF MotorRight, halt
    <2> QED BY <2>1, <2>2
  <1>6. CASE commanded # "MOTOR_STOP" /\ Next1(st, right, Unstop)
    <2>1. /\ port' = port \cup {right} /\ todo' = Unstop
          /\ Lit(Colours)' /\ OpenBitKept /\ TypeOK' /\ ReadInv' /\ ThreadsInv'
      BY <1>2, <1>4, <1>6
    <2>2. Going'
      BY <1>1, <1>6, <2>1 DEF Going, right
    <2> QED BY <1>3, <2>1, <2>2 DEF MotorPhase
  <1>7. CASE Going /\ Next1(cl, halt, Enter)
    <2>1. /\ port' = port \ {halt} /\ todo' = Enter
          /\ Lit(Colours)' /\ OpenBitKept /\ TypeOK' /\ ReadInv' /\ ThreadsInv'
      BY <1>2, <1>4, <1>7
    <2>2. Unhalted'
      BY <1>1, <1>2, <1>7, <2>1 DEF Going, Unhalted, right, halt
    <2> QED BY <1>3, <2>1, <2>2 DEF MotorPhase
  <1>8. CASE Unhalted /\ Next1(cl, left, GoRight)
    <2>1. /\ port' = port \ {left} /\ todo' = GoRight
          /\ Lit(Colours)' /\ OpenBitKept /\ TypeOK' /\ ReadInv' /\ ThreadsInv'
      BY <1>2, <1>4, <1>8
    <2>2. Ahead'
      BY <1>1, <1>2, <1>8, <2>1 DEF Going, Unhalted, Ahead, right, halt, left
    <2> QED BY <1>3, <2>1, <2>2 DEF MotorPhase
  <1>9. CASE Ahead /\ Next1(st, right, Leave)
    <2>1. /\ port' = port \cup {right} /\ todo' = Leave
          /\ Lit(Colours)' /\ OpenBitKept /\ TypeOK' /\ ReadInv' /\ ThreadsInv'
      BY <1>2, <1>4, <1>9
    <2>2. Ahead'
      BY <1>1, <1>2, <1>9, <2>1 DEF Going, Unhalted, Ahead, right, halt, left
    <2> QED BY <1>3, <2>1, <2>2 DEF MotorPhase
  <1>10. CASE Ahead /\ commanded = "MOTOR_SLOW" /\ Next1(st, slow, <<>>)
    <2>1. /\ port' = port \cup {slow} /\ todo' = <<>>
          /\ Lit(Colours)' /\ OpenBitKept /\ TypeOK' /\ ReadInv' /\ ThreadsInv'
      BY <1>2, <1>4, <1>10
    <2>2. MotorRight'
      BY <1>1, <1>2, <1>10, <2>1 DEF Going, Unhalted, Ahead, MotorRight, right, halt, left, slow
    <2> QED BY <2>1, <2>2
  <1>11. CASE Ahead /\ commanded # "MOTOR_SLOW" /\ Next1(cl, slow, <<>>)
    <2>1. /\ port' = port \ {slow} /\ todo' = <<>>
          /\ Lit(Colours)' /\ OpenBitKept /\ TypeOK' /\ ReadInv' /\ ThreadsInv'
      BY <1>2, <1>4, <1>11
    <2>2. MotorRight'
      BY <1>1, <1>2, <1>11, <2>1 DEF Going, Unhalted, Ahead, MotorRight, right, halt, left, slow
    <2> QED BY <2>1, <2>2
  <1>12. ~ Next1("lock", "bo_mtx", NotLeft) /\ ~ Next1("unlock", "bo_mtx", Speed)
    BY <1>1 DEF Next1, op
  <1> QED BY <1>5, <1>6, <1>7, <1>8, <1>9, <1>10, <1>11, <1>12, MotorCases
          DEF st, cl, right, left, slow, halt

\* The dispatcher thread writes the port.
LEMMA WriteKeeps ==
    ASSUME Inv, WritePort
    PROVE  Inv'
  <1> DEFINE op == Head(todo)
             o == "OPEN_BIT"
             st == "set"
             cl == "clear"
  <1>1. /\ todo # <<>> /\ todo' = Tail(todo) /\ op.do \in {"set", "clear"}
        /\ UNCHANGED <<switchVars, queue, bl_threads, blinking, signal, commanded>>
        /\ switch' = switch /\ commanded' = commanded
    BY DEF WritePort, Doing, lampVars, switchVars
  <1>2. TypeOK /\ WorkInv /\ BitsInv /\ SwitchInv
    BY DEF Inv, PortInv
  <1>3. o \in Bits /\ o \notin Colours /\ o \notin MotorBits /\ st \in Whats /\ cl \in Whats
    BY PartsAre, WhatsAre
  <1>4. /\ (Starting' <=> Starting) => SwitchInv'
        /\ (todo' = <<>>) /\ Lit(Colours)' => LightPhase'
    BY <1>1, <1>2, SwitchKept DEF LightPhase
  <1> HIDE DEF op, o, st, cl
  <1>5. CASE LightPhase
    <2> DEFINE what == op.do
               bit == op.of
    <2>1. /\ LightPhase' /\ bit \in Colours /\ bit \in Bits /\ what \in Whats
          /\ op = [do |-> what, of |-> bit]
      <3>1. op \in [do : {"set", "clear", "blink", "start", "destroy"}, of : Colours]
        BY <1>1, <1>5, LightHeads DEF Coloured, op
      <3>2. op = [do |-> what, of |-> bit] /\ what \in {"set", "clear", "blink", "start", "destroy"}
        BY <3>1
      <3> QED BY <1>5, <3>2, WriteLight, ColoursAre, WhatsAre DEF op
    <2> HIDE DEF what, bit
    <2>2. /\ port' = IF what = "set" THEN port \cup {bit} ELSE port \ {bit}
          /\ TypeOK' /\ ReadInv' /\ ThreadsInv'
      BY <2>1, Written DEF op
    <2>3. MotorBitsKept /\ OpenBitKept
      <3>1. port' \subseteq port \cup {bit} /\ port \subseteq port' \cup {bit}
        BY <2>2
      <3> QED BY <2>1, <3>1, OtherBit
    <2>4. WorkInv' /\ BitsInv' /\ SwitchInv'
      BY <1>1, <1>2, <1>5, <2>1, <2>3, LightStep
    <2> QED BY <2>2, <2>4 DEF Inv, PortInv
  <1>6. CASE MotorPhase /\ Lit(Colours)
    <2>1. /\ MotorPhase' \/ (todo' = <<>> /\ MotorRight')
          /\ Lit(Colours)' /\ OpenBitKept /\ TypeOK' /\ ReadInv' /\ ThreadsInv'
      BY <1>6, WriteMotor
    <2>2. MotorPhase' \/ LightPhase'
      BY <1>4, <2>1
    <2>3. ~ Starting /\ ~ Starting' /\ todo # OpenWork /\ todo # CloseWork
      BY <1>6, <2>2, Apart, ApartNext DEF PhasesApart
    <2>4. BitsInv'
      BY <1>1, <1>2, <2>1, <2>3 DEF BitsInv, OpenBitKept
    <2> QED BY <1>4, <2>1, <2>2, <2>3, <2>4 DEF Inv, PortInv, WorkInv
  \* The two commands of the switch that write the port.
  <1>7. ASSUME NEW what \in {st, cl}, op = [do |-> what, of |-> o], Lit(Colours)
        PROVE  /\ port' = IF what = "set" THEN port \cup {o} ELSE port \ {o}
               /\ Lit(Colours)' /\ TypeOK' /\ ReadInv' /\ ThreadsInv' /\ MotorBitsKept
    <2>1. what \in Whats /\ o \in Bits /\ o \notin Colours /\ Colours \in SUBSET Colours
      BY <1>3, <1>7
    <2>2. /\ port' = IF what = "set" THEN port \cup {o} ELSE port \ {o}
          /\ \A C \in SUBSET Colours : Lit(C) /\ o \notin C => Lit(C)'
          /\ TypeOK' /\ ReadInv' /\ ThreadsInv'
      BY <1>7, <2>1, Written DEF op
    <2>3. MotorBitsKept
      BY <1>3, <2>2 DEF MotorBitsKept
    <2> QED BY <1>7, <2>1, <2>2, <2>3
  <1>8. CASE SwitchPhase /\ Lit(Colours)
    <2>0. MotorBitsKept => MotorRight'
      <3>1. ~ MotorPhase
        BY <1>8, MotorHeads, SwitchHeads DEF MotorBits
      <3> QED BY <1>1, <1>2, <3>1, MotorKept DEF BitsInv
    <2>1. CASE todo = OpenWork /\ switch = "Open"
      <3>1. op = [do |-> st, of |-> o] /\ todo' = TimerWork
        BY <1>1, <2>1, CommandsAre DEF op, st, o
      <3>2. /\ port' = port \cup {o} /\ MotorBitsKept
            /\ Lit(Colours)' /\ TypeOK' /\ ReadInv' /\ ThreadsInv'
        BY <1>7, <1>8, <3>1 DEF st
      <3>3. Starting' /\ Starting /\ SwitchPhase'
        BY <1>1, <2>1, <3>1, SwitchWorkKept DEF Starting, SwitchPhase
      <3>4. o \in port' /\ switch' = "Open"
        BY <1>1, <2>1, <3>2
      <3>5. BitsInv'
        BY <2>0, <3>2, <3>4 DEF BitsInv, o
      <3> QED BY <1>4, <1>8, <3>2, <3>3, <3>5 DEF Inv, PortInv, WorkInv
    <2>2. CASE todo = CloseWork /\ switch = "Close"
      <3>1. op = [do |-> cl, of |-> o] /\ todo' = <<>>
        BY <1>1, <2>2, CommandsAre DEF op, cl, o
      <3>2. /\ port' = port \ {o} /\ MotorBitsKept
            /\ Lit(Colours)' /\ TypeOK' /\ ReadInv' /\ ThreadsInv'
        BY <1>7, <1>8, <3>1 DEF cl
      <3>3. LightPhase' /\ ~ Starting' /\ ~ Starting
        BY <1>4, <2>2, <3>1, <3>2, Apart, ApartNext DEF PhasesApart
      <3>4. o \notin port' /\ switch' # "Open"
        BY <1>1, <2>2, <3>2
      <3>5. BitsInv'
        BY <2>0, <3>2, <3>4 DEF BitsInv, o
      <3> QED BY <1>4, <3>2, <3>3, <3>5 DEF Inv, PortInv, WorkInv
    <2>3. todo # TimerWork
      BY <1>1, CommandsAre DEF op
    <2> QED BY <1>8, <2>1, <2>2, <2>3 DEF SwitchPhase
  <1> QED BY <1>2, <1>5, <1>6, <1>8 DEF WorkInv

\* What is kept where a handler of the motor goes on and nothing but the mutex
\* changes.
LEMMA AroundKeeps ==
    ASSUME Inv, MotorPhase, Lit(Colours), MotorPhase',
           UNCHANGED <<switchVars, queue, port, late, lampVars, signal, commanded>>, read' = read,
           bo_mtx' \in Threads \cup {Dispatcher, Unheld, Dead}, ReadInv'
    PROVE  Inv'
  <1>1. /\ switch' = switch /\ listeners' = listeners /\ timed' = timed
        /\ others' = others /\ strays' = strays
        /\ queue' = queue /\ signal' = signal /\ commanded' = commanded
        /\ port' = port /\ late' = late
        /\ bl_threads' = bl_threads /\ blinking' = blinking
    BY DEF switchVars, lampVars
  <1>2. TypeOK /\ WorkInv /\ ReadInv /\ ThreadsInv /\ BitsInv /\ SwitchInv
    BY DEF Inv, PortInv
  <1>3. TypeOK'
    <2>1. DOMAIN read' \subseteq {bo_mtx'} /\ \A t \in DOMAIN read' : read'[t] \subseteq Bits
      BY <1>2 DEF ReadInv, TypeOK
    <2> QED BY <1>1, <1>2, <2>1 DEF TypeOK
  <1>4. ThreadsInv'
    BY <1>1, <1>2 DEF ThreadsInv
  <1>5. Lit(Colours)'
    BY <1>1, LitKept
  <1>6. ~ Starting /\ ~ Starting' /\ todo # OpenWork /\ todo # CloseWork
    BY Apart, ApartNext DEF PhasesApart
  <1>7. SwitchInv'
    BY <1>1, <1>2, <1>6, SwitchKept
  <1>8. BitsInv'
    BY <1>1, <1>2, <1>6 DEF BitsInv
  <1> QED BY <1>3, <1>4, <1>5, <1>7, <1>8 DEF Inv, PortInv, WorkInv

\* clear_set() locks the mutex.
LEMMA LockAroundKeeps ==
    ASSUME Inv, LockAround
    PROVE  Inv'
  <1>1. /\ todo # <<>> /\ Head(todo).do = "lock" /\ todo' = Tail(todo)
        /\ bo_mtx \in {Unheld, Dispatcher} /\ bo_mtx' = Dispatcher
        /\ UNCHANGED <<switchVars, queue, port, late, lampVars, signal, commanded>>
        /\ commanded' = commanded /\ port' = port /\ read' = read
    BY DEF LockAround, Doing, MayLock
  <1>2. WorkInv /\ ReadInv
    BY DEF Inv, PortInv
  <1>3. MotorPhase /\ Lit(Colours)
    <2>1. ~ LightPhase /\ ~ SwitchPhase
      BY <1>1, LightHeads, SwitchHeads DEF Coloured
    <2> QED BY <1>2, <2>1 DEF WorkInv
  <1>4. Unhalted /\ todo' = NotLeft
    <2>1. ASSUME NEW what \in {"set", "clear", "unlock"}, NEW of, NEW s
          PROVE  ~ Next1(what, of, s)
      BY <1>1 DEF Next1
    <2>2. Unhalted /\ Next1("lock", "bo_mtx", NotLeft)
      BY <1>3, <2>1, MotorCases
    <2> QED BY <1>1, <2>2 DEF Next1
  <1>5. Unhalted' /\ NotLeft' = NotLeft
    <2>1. MotorBitsKept
      BY <1>1, SamePort
    <2> QED BY <1>1, <1>4, <2>1, MotorKept
  <1>6. MotorPhase'
    BY <1>4, <1>5 DEF MotorPhase
  <1>7. ReadInv'
    <2>1. Dispatcher \notin DOMAIN read
      BY <1>1, <1>2 DEF ReadInv
    <2>2. DOMAIN read = {}
      BY <1>1, <1>2, <2>1 DEF ReadInv
    <2> QED BY <1>1, <2>2 DEF ReadInv
  <1>8. bo_mtx' \in Threads \cup {Dispatcher, Unheld, Dead}
    BY <1>1
  <1> QED BY <1>1, <1>3, <1>6, <1>7, <1>8, AroundKeeps

\* clear_set() unlocks it, though it may hold it no longer.
LEMMA UnlockAroundKeeps ==
    ASSUME Inv, UnlockAround
    PROVE  Inv'
  <1>1. /\ todo # <<>> /\ Head(todo).do = "unlock" /\ todo' = Tail(todo)
        /\ bo_mtx' = (IF bo_mtx = Dispatcher THEN Unheld ELSE bo_mtx)
        /\ UNCHANGED <<switchVars, queue, port, late, lampVars, signal, commanded>>
        /\ commanded' = commanded /\ port' = port /\ read' = read
    BY DEF UnlockAround, Doing, Unlocked
  <1>2. WorkInv /\ ReadInv /\ TypeOK
    BY DEF Inv, PortInv
  <1>3. MotorPhase /\ Lit(Colours)
    <2>1. ~ LightPhase /\ ~ SwitchPhase
      BY <1>1, LightHeads, SwitchHeads DEF Coloured
    <2> QED BY <1>2, <2>1 DEF WorkInv
  <1>4. Ahead /\ todo' = Speed
    <2>1. ASSUME NEW what \in {"set", "clear", "lock"}, NEW of, NEW s
          PROVE  ~ Next1(what, of, s)
      BY <1>1 DEF Next1
    <2>2. Ahead /\ Next1("unlock", "bo_mtx", Speed)
      BY <1>3, <2>1, MotorCases
    <2> QED BY <1>1, <2>2 DEF Next1
  <1>5. Ahead' /\ Speed' = Speed
    <2>1. MotorBitsKept
      BY <1>1, SamePort
    <2> QED BY <1>1, <1>4, <2>1, MotorKept
  <1>6. MotorPhase'
    BY <1>4, <1>5 DEF MotorPhase
  <1>7. ReadInv'
    <2>1. Dispatcher \notin DOMAIN read
      BY <1>1, <1>2 DEF ReadInv
    <2>2. DOMAIN read \subseteq {bo_mtx'} \ {Unheld, Dead}
      BY <1>1, <1>2, <2>1 DEF ReadInv
    <2> QED BY <1>1, <1>2, <2>1, <2>2 DEF ReadInv
  <1>8. bo_mtx' \in Threads \cup {Dispatcher, Unheld, Dead}
    BY <1>1, <1>2 DEF TypeOK
  <1> QED BY <1>1, <1>3, <1>6, <1>7, <1>8, AroundKeeps

\* The dispatcher thread looks whether a thread blinks, stops it or not.
LEMMA DoBlinkKeeps ==
    ASSUME Inv, DoBlink
    PROVE  Inv'
  <1> DEFINE y == "YELLOW"
             t == Target
             bl == "blink"
             sta == "start"
             op == Head(todo)
  <1>1. /\ todo # <<>> /\ op.do = bl /\ todo' = blink(op.of) \o Tail(todo)
        /\ UNCHANGED <<switchVars, queue, bl_threads, blinking, signal, commanded>>
        /\ switch' = switch /\ listeners' = listeners /\ timed' = timed
        /\ others' = others /\ strays' = strays
        /\ queue' = queue /\ signal' = signal /\ commanded' = commanded
        /\ port' = port /\ bo_mtx' = bo_mtx /\ read' = read /\ late' = late
        /\ bl_threads' = bl_threads /\ blinking' = blinking
    BY DEF DoBlink, Doing, switchVars, portVars, lampVars
  <1>2. TypeOK /\ WorkInv /\ ReadInv /\ ThreadsInv /\ BitsInv /\ SwitchInv
    BY DEF Inv, PortInv
  <1>3. TypeOK'
    BY <1>1, <1>2 DEF TypeOK
  <1>4. ReadInv' /\ ThreadsInv'
    <2>1. Dispatcher \notin DOMAIN read
      BY <1>1, <1>2 DEF ReadInv
    <2> QED BY <1>1, <1>2, <2>1 DEF ReadInv, ThreadsInv
  <1>5. /\ Target' = Target /\ stop_blink(y)' = stop_blink(y) /\ \A C : Gone(C)' = Gone(C)
        /\ \A w, x : Do(w, x)' = Do(w, x)
    BY <1>1, SameWork DEF Do
  <1>6. \A C \in SUBSET Colours : Lit(C) => Lit(C)'
    BY <1>1, LitKept
  <1>7. y \in Colours /\ t \in Colours /\ bl \in Whats /\ sta \in Whats
    BY ColoursAre, WhatsAre DEF Colours
  <1> HIDE DEF y, t, bl, sta, op
  <1>8. Do(sta, y) \in Seq(Ops) /\ Do(sta, t) \in Seq(Ops)
    BY <1>7, DoType
  <1>9. ASSUME NEW c \in Colours, Next1(bl, c, <<>>), blink(c) \in Seq(Ops)
        PROVE  todo' = blink(c)
    <2>1. op.of = c /\ Tail(todo) = <<>>
      BY <1>9 DEF Next1, op
    <2>2. todo' = blink(c) \o <<>>
      BY <1>1, <2>1
    <2> QED BY <1>9, <2>2
  <1>10. LightPhase
    <2>1. ~ MotorPhase /\ ~ SwitchPhase
      <3>1. op.do = "blink"
        BY <1>1 DEF bl
      <3> QED BY <3>1, MotorHeads, SwitchHeads DEF op
    <2> QED BY <1>2, <2>1 DEF WorkInv
  <1>11. ASSUME YellowPhase, Lit(Colours)
         PROVE  LightPhase'
    <2>1. Next1(bl, y, <<>>)
      <3>1. ASSUME NEW what \in {"clear", "start", "destroy"}, NEW s
            PROVE  ~ Next1(what, y, s)
        BY <1>1 DEF Next1, op, bl
      <3>2. /\ ~ Next1("clear", y, Do("destroy", y) \o Do("start", y)) /\ ~ Next1("start", y, <<>>)
            /\ ~ Next1("destroy", y, Do("start", y))
        BY <3>1
      <3> QED BY <1>11, <3>2, YellowCases DEF y, bl
    <2>2. /\ stop_blink(y) \o Do(sta, y) \in Seq(Ops)
          /\ bl_threads[y] = NoThread => stop_blink(y) \o Do(sta, y) = Do(sta, y)
      BY <1>7, <1>8, StopBlinkIs
    <2>3. /\ blink(y) \in {stop_blink(y) \o Do(sta, y), <<>>}
          /\ blink(y) \in Seq(Ops)
      <3>1. blink(y) = stop_blink(y) \o Do(sta, y) \/ blink(y) = <<>>
        BY <2>2 DEF blink, sta, y
      <3>2. <<>> \in Seq(Ops)
        BY WhatsAre
      <3> QED BY <2>2, <3>1, <3>2
    <2>4. todo' = blink(y)
      BY <1>7, <1>9, <2>1, <2>3
    <2>5. Lit(Colours)'
      BY <1>6, <1>11
    <2>6. CASE todo' = <<>>
      BY <2>5, <2>6 DEF LightPhase
    <2>7. CASE todo' = stop_blink(y) \o Do(sta, y)
      <3>1. YellowPhase'
        BY <1>5, <2>7 DEF YellowPhase, y, sta
      <3> QED BY <2>5, <3>1 DEF LightPhase
    <2> QED BY <2>3, <2>4, <2>6, <2>7
  \* The light of a signal: no thread is left.
  <1>12. ASSUME Next1(bl, t, <<>>), Gone(Colours), Lit(Colours \ {t}), signal \in Signals,
                signal # "TRAFFIC_LIGHT_NORMAL"
         PROVE  LightPhase'
    <2>1. bl_threads["GREEN"] = NoThread /\ bl_threads[t] = NoThread
      BY <1>7, <1>12 DEF Gone, Colours
    <2>2. blink(t) = Do(sta, t)
      BY <2>1 DEF blink, sta
    <2>3. todo' = Do(sta, t)
      BY <1>7, <1>8, <1>9, <1>12, <2>2
    <2>4. t' = t
      BY <1>5 DEF t
    <2>5. Lit(Colours \ {t})'
      <3>1. Colours \ {t} \in SUBSET Colours
        OBVIOUS
      <3> QED BY <1>6, <1>12, <2>4, <3>1
    <2>6. BlinkPhase'
      BY <1>1, <1>5, <1>12, <2>3, <2>5 DEF BlinkPhase, t, sta
    <2>7. signal' \in Signals
      BY <1>1, <1>12 DEF Signals, LightEvents
    <2> QED BY <2>6, <2>7 DEF LightPhase
  <1>13. ASSUME signal \in Signals, StopPhase, Lit(Colours)
         PROVE  LightPhase'
    <2>1. ASSUME NEW what \in {"clear", "set", "destroy"}, NEW c, NEW s
          PROVE  ~ Next1(what, c, s)
      BY <1>1 DEF Next1, op, bl
    <2>2. /\ ~ Next1("clear", "RED", Do("destroy", "RED") \o AfterRed)
          /\ ~ Next1("clear", "YELLOW", Do("destroy", "YELLOW") \o AfterYellow)
          /\ ~ Next1("clear", "GREEN", Do("destroy", "GREEN") \o Ending)
          /\ ~ Next1("destroy", "RED", AfterRed) /\ ~ Next1("destroy", "YELLOW", AfterYellow)
          /\ ~ Next1("destroy", "GREEN", Ending)
          /\ ~ Next1("set", "GREEN", <<>>) /\ ~ Next1("set", Target, Do("blink", Target))
      BY <2>1
    <2>3. /\ Gone(Colours) /\ signal = "TRAFFIC_LIGHT_ACKED_ERROR"
          /\ Next1("blink", Target, <<>>)
      BY <1>13, <2>2, StopCases
    <2>4. Lit(Colours \ {t})
      BY <1>13 DEF Lit
    <2> QED BY <1>12, <1>13, <2>3, <2>4 DEF bl, t
  <1>14. ASSUME signal \in Signals, BlinkPhase
         PROVE  LightPhase'
    <2>1. ~ Next1("start", Target, <<>>)
      BY <1>1 DEF Next1, op, bl
    <2>2. Next1(bl, t, <<>>)
      BY <1>14, <2>1, BlinkCases DEF bl, t
    <2> QED BY <1>12, <1>14, <2>2 DEF BlinkPhase, t
  <1>15. ~ (signal \in Signals /\ ClearPhase)
    <2>1. ASSUME NEW c, NEW s
          PROVE  ~ Next1("clear", c, s)
      BY <1>1 DEF Next1, op, bl
    <2> QED BY <2>1, ClearCases
  <1>16. LightPhase'
    BY <1>1, <1>10, <1>11, <1>13, <1>14, <1>15 DEF LightPhase
  <1>17. WorkInv' /\ BitsInv' /\ SwitchInv'
    BY <1>1, <1>2, <1>10, <1>16, SamePort, LightStep
  <1> QED BY <1>3, <1>4, <1>17 DEF Inv, PortInv

\* start_timer().
LEMMA StartTimerKeeps ==
    ASSUME Inv, StartSwitchTimer
    PROVE  Inv'
  <1> DEFINE out == "TIMER_SWITCH_OUT"
             n == Count(queue, out)
             a == One(timed)
  <1>1. /\ todo # <<>> /\ Head(todo).do = "start_timer" /\ todo' = Tail(todo)
        /\ switch' = switch /\ listeners' = listeners /\ timed' = TRUE
        /\ others' = (IF timed THEN others + 1 ELSE others) /\ strays' = strays
        /\ queue' = queue /\ signal' = signal /\ commanded' = commanded
        /\ port' = port /\ bo_mtx' = bo_mtx /\ read' = read /\ late' = late
        /\ bl_threads' = bl_threads /\ blinking' = blinking
    BY DEF StartSwitchTimer, start_timer, Doing, portVars, lampVars
  <1>2. TypeOK /\ WorkInv /\ ReadInv /\ ThreadsInv /\ BitsInv /\ SwitchInv
    BY DEF Inv, PortInv
  <1>3. TypeOK'
    <2>1. others' \in Nat
      BY <1>1, <1>2 DEF TypeOK
    <2> QED BY <1>1, <1>2, <2>1 DEF TypeOK
  <1>4. ReadInv' /\ ThreadsInv'
    <2>1. Dispatcher \notin DOMAIN read
      BY <1>1, <1>2 DEF ReadInv
    <2> QED BY <1>1, <1>2, <2>1 DEF ReadInv, ThreadsInv
  <1>5. todo = TimerWork /\ switch = "Open" /\ Lit(Colours)
    <2>1. ~ LightPhase /\ ~ MotorPhase
      BY <1>1, LightHeads, MotorHeads DEF Coloured
    <2>2. todo \notin {OpenWork, CloseWork}
      BY <1>1, CommandsAre
    <2> QED BY <1>2, <2>1, <2>2 DEF WorkInv, SwitchPhase
  <1>6. todo' = <<>>
    BY <1>1, <1>5, CommandsAre
  <1>7. Lit(Colours)'
    BY <1>1, <1>5, LitKept
  <1>8. LightPhase' /\ WorkInv'
    BY <1>6, <1>7 DEF LightPhase, WorkInv
  <1>9. BitsInv'
    <2>1. ~ MotorPhase
      BY <1>5, Apart DEF PhasesApart, Starting
    <2>2. MotorRight'
      BY <1>1, <1>2, <2>1, SamePort, MotorKept DEF BitsInv
    <2>3. todo # OpenWork /\ todo # CloseWork
      BY <1>5, Apart DEF PhasesApart
    <2> QED BY <1>1, <1>2, <2>2, <2>3 DEF BitsInv
  <1>10. ~ Starting' /\ Starting
    BY <1>5, <1>8, ApartNext DEF PhasesApart, Starting
  <1>11. others' = others + a
    BY <1>1, <1>2 DEF One, TypeOK
  <1>12. n + others + a = strays
    BY <1>2, <1>10 DEF SwitchInv, CountInv
  <1>13. n + others' = strays' + One(~ timed')
    <2>1. n \in Nat /\ a \in Nat /\ others \in Nat /\ strays \in Nat
      <3>1. a \in Nat
        BY DEF One
      <3>2. queue \in Seq(PortEvents) /\ others \in Nat /\ strays \in Nat
        BY <1>2 DEF TypeOK
      <3> QED BY <3>1, <3>2, CountType
    <2>2. One(~ timed') = 0
      BY <1>1 DEF One
    <2> HIDE DEF n, a
    <2> QED BY <1>1, <1>11, <1>12, <2>1, <2>2
  <1>14. CountInv'
    <2>1. n' = n
      BY <1>1
    <2>2. ~ (switch' = "Close" \/ Starting')
      BY <1>1, <1>5, <1>10
    <2> QED BY <1>13, <2>1, <2>2 DEF CountInv
  <1>15. SwitchInv'
    BY <1>1, <1>2, <1>14 DEF SwitchInv, Registered, TimedInv
  <1> QED BY <1>3, <1>4, <1>8, <1>9, <1>15 DEF Inv, PortInv

\* While a colour does not blink there is an identity for its thread.
LEMMA SpareThread ==
    ASSUME TypeOK, ThreadsInv, NEW c \in Colours, bl_threads[c] = NoThread
    PROVE  \E t \in Threads : t \notin DOMAIN blinking
  <1> SUFFICES ASSUME \A t \in Threads : t \in DOMAIN blinking
               PROVE  FALSE
    OBVIOUS
  <1>1. PICK t, u, v \in Threads : t # u /\ u # v /\ t # v
    BY ThreadsAssumption
  <1> DEFINE col(x) == blinking[x].colour
  <1>2. ASSUME NEW x \in Threads
        PROVE  col(x) \in Colours /\ bl_threads[col(x)] = x /\ col(x) # c
    <2>1. blinking[x] \in [colour : Colours, hz : {500000, 1000000}, next : {"set", "clear"}]
      BY DEF TypeOK
    <2>2. col(x) \in Colours
      BY <2>1
    <2>3. bl_threads[col(x)] = x
      BY DEF ThreadsInv
    <2> QED BY <2>2, <2>3, ThreadsAre
  <1> HIDE DEF col
  <1>3. col(t) # col(u) /\ col(u) # col(v) /\ col(t) # col(v)
    BY <1>1, <1>2
  <1>4. \A x \in {col(t), col(u), col(v)} : x \in Colours /\ x # c
    BY <1>1, <1>2
  <1> QED BY <1>3, <1>4 DEF Colours

\* The dispatcher thread starts a blink thread.
LEMMA StartThreadKeeps ==
    ASSUME Inv, StartThread
    PROVE  Inv'
  <1> DEFINE y == "YELLOW"
             c == Head(todo).of
             t == CHOOSE u \in Threads : u \notin DOMAIN blinking
  <1>1. /\ todo # <<>> /\ Head(todo).do = "start" /\ todo' = Tail(todo)
        /\ bl_threads' = [bl_threads EXCEPT ![c] = t]
        /\ blinking' = [u \in DOMAIN blinking \cup {t} |->
                          IF u = t THEN [colour |-> c, hz |-> Hz, next |-> "set"]
                          ELSE blinking[u]]
        /\ UNCHANGED <<switchVars, queue, commanded>>
        /\ switch' = switch /\ listeners' = listeners /\ timed' = timed
        /\ others' = others /\ strays' = strays
        /\ queue' = queue /\ signal' = signal /\ commanded' = commanded
        /\ port' = port /\ bo_mtx' = bo_mtx /\ read' = read /\ late' = late
    BY DEF StartThread, Doing, switchVars, portVars
  <1>2. TypeOK /\ WorkInv /\ ReadInv /\ ThreadsInv /\ BitsInv /\ SwitchInv
    BY DEF Inv, PortInv
  <1> HIDE DEF c, t, y
  <1>3. LightPhase
    <2>1. ~ MotorPhase /\ ~ SwitchPhase
      BY <1>1, MotorHeads, SwitchHeads
    <2> QED BY <1>2, <2>1 DEF WorkInv
  \* The light is the yellow one or that of the signal.
  <1>4. /\ c \in Colours /\ bl_threads[c] = NoThread /\ Lit(Colours \ {c})
        /\ todo' = <<>>
    <2>1. CASE YellowPhase /\ Lit(Colours)
      <3>1. ASSUME NEW what \in {"clear", "blink", "destroy"}, NEW s
            PROVE  ~ Next1(what, y, s)
        BY <1>1 DEF Next1
      <3>2. /\ ~ Next1("clear", y, Do("destroy", y) \o Do("start", y)) /\ ~ Next1("blink", y, <<>>)
            /\ ~ Next1("destroy", y, Do("start", y))
        BY <3>1
      <3>3. bl_threads[y] = NoThread /\ Next1("start", y, <<>>)
        BY <2>1, <3>2, YellowCases DEF y
      <3>4. c = y /\ todo' = <<>>
        BY <1>1, <3>3 DEF Next1, c
      <3> QED BY <2>1, <3>3, <3>4 DEF y, Colours, Lit
    <2>2. CASE signal \in Signals /\ BlinkPhase
      <3>1. ~ Next1("blink", Target, <<>>)
        BY <1>1 DEF Next1
      <3>2. Next1("start", Target, <<>>)
        BY <2>2, <3>1, BlinkCases
      <3>3. c = Target /\ todo' = <<>>
        BY <1>1, <3>2 DEF Next1, c
      <3>4. Target \in Colours
        BY ColoursAre
      <3> QED BY <2>2, <3>3, <3>4 DEF BlinkPhase, Gone
    <2>3. ASSUME NEW what \in {"clear", "set", "blink", "destroy"}, NEW d, NEW s
          PROVE  ~ Next1(what, d, s)
      BY <1>1 DEF Next1
    <2>4. ~ ClearPhase
      BY <2>3, ClearCases
    <2>5. ~ (signal \in Signals /\ StopPhase)
      BY <2>3, StopCases
    <2> QED BY <1>1, <1>3, <2>1, <2>2, <2>4, <2>5 DEF LightPhase
  <1>5. t \in Threads /\ t \notin DOMAIN blinking /\ t # NoThread
    <2>1. \E u \in Threads : u \notin DOMAIN blinking
      BY <1>2, <1>4, SpareThread
    <2> QED BY <2>1, ThreadsAre DEF t
  <1>6. /\ DOMAIN bl_threads = Colours /\ bl_threads'[c] = t
        /\ \A d \in Colours \ {c} : bl_threads'[d] = bl_threads[d]
        /\ bl_threads' \in [Colours -> Threads \cup {NoThread}]
    BY <1>1, <1>2, <1>4, <1>5 DEF TypeOK
  <1>7. /\ DOMAIN blinking' = DOMAIN blinking \cup {t}
        /\ blinking'[t] = [colour |-> c, hz |-> Hz, next |-> "set"]
        /\ \A u \in DOMAIN blinking : blinking'[u] = blinking[u]
    BY <1>1, <1>5
  <1>8. TypeOK'
    <2> DEFINE R == [colour : Colours, hz : {500000, 1000000}, next : {"set", "clear"}]
    <2>1. Hz \in {500000, 1000000}
      BY DEF Hz
    <2>2. blinking'[t] \in R
      BY <1>4, <1>7, <2>1
    <2>3. DOMAIN blinking \subseteq Threads /\ \A u \in DOMAIN blinking : blinking[u] \in R
      BY <1>2 DEF TypeOK
    <2> HIDE DEF R
    <2>4. DOMAIN blinking' \subseteq Threads /\ \A u \in DOMAIN blinking' : blinking'[u] \in R
      BY <1>5, <1>7, <2>2, <2>3
    <2>5. /\ DOMAIN blinking' \subseteq Threads
          /\ \A u \in DOMAIN blinking' : blinking'[u] \in [colour : Colours, hz : {500000, 1000000},
                                                           next : {"set", "clear"}]
      BY <2>4 DEF R
    <2>6. switch' \in {"Close", "Open"} /\ timed' \in BOOLEAN /\ others' \in Nat /\ strays' \in Nat
      BY <1>1, <1>2 DEF TypeOK
    <2>7. queue' \in Seq(PortEvents)
      BY <1>1, <1>2 DEF TypeOK
    <2>8. signal' \in LightEvents \cup {"none"} /\ commanded' \in MotorEvents
      BY <1>1, <1>2 DEF TypeOK
    <2>9. /\ DOMAIN read' \subseteq {bo_mtx'} /\ \A u \in DOMAIN read' : read'[u] \subseteq Bits
          /\ bo_mtx' \in Threads \cup {Dispatcher, Unheld, Dead}
          /\ port' \subseteq Bits /\ late' \subseteq Colours
      BY <1>1, <1>2 DEF TypeOK
    <2> QED BY <1>6, <2>5, <2>6, <2>7, <2>8, <2>9 DEF TypeOK
  <1>9. ReadInv'
    <2>1. Dispatcher \notin DOMAIN read
      BY <1>1, <1>2 DEF ReadInv
    <2> QED BY <1>1, <1>2, <2>1 DEF ReadInv
  <1>10. ThreadsInv'
    <2>1. ASSUME NEW u \in DOMAIN blinking'
          PROVE  bl_threads'[blinking'[u].colour] = u
      <3>1. CASE u = t
        BY <1>6, <1>7, <3>1
      <3>2. CASE u # t
        <4>1. u \in DOMAIN blinking /\ blinking'[u] = blinking[u]
          BY <1>7, <2>1, <3>2
        <4>2. bl_threads[blinking[u].colour] = u /\ blinking[u].colour \in Colours /\ u \in Threads
          BY <1>2, <4>1 DEF ThreadsInv, TypeOK
        <4>3. blinking[u].colour # c
          BY <1>4, <4>2, ThreadsAre
        <4> QED BY <1>6, <4>1, <4>2, <4>3
      <3> QED BY <3>1, <3>2
    <2>2. ASSUME NEW d \in Colours, bl_threads'[d] # NoThread
          PROVE  bl_threads'[d] \in DOMAIN blinking' /\ blinking'[bl_threads'[d]].colour = d
      <3>1. CASE d = c
        BY <1>6, <1>7, <3>1
      <3>2. CASE d # c
        <4>1. bl_threads[d] \in DOMAIN blinking /\ blinking[bl_threads[d]].colour = d
          BY <1>2, <1>6, <2>2, <3>2 DEF ThreadsInv
        <4> QED BY <1>6, <1>7, <3>2, <4>1
      <3> QED BY <3>1, <3>2
    <2> QED BY <2>1, <2>2 DEF ThreadsInv
  <1>11. Lit(Colours)'
    <2>1. Steady' = Steady
      BY <1>1 DEF Steady
    <2> QED BY <1>1, <1>4, <1>5, <1>6, <2>1 DEF Lit
  <1>12. LightPhase'
    BY <1>4, <1>11 DEF LightPhase
  <1>13. WorkInv' /\ BitsInv' /\ SwitchInv'
    BY <1>1, <1>2, <1>3, <1>12, SamePort, LightStep
  <1> QED BY <1>8, <1>9, <1>10, <1>13 DEF Inv, PortInv

\* What is left to do once threads are gone, in any state and the next.
GoneStops ==
    /\ Gone({"RED"}) => Stops = AfterRed
    /\ Gone({"RED", "YELLOW"}) => Stops = AfterYellow
    /\ Gone(Colours) => Stops = Ending

\* It is so, whatever the state.
LEMMA StopsGone == GoneStops
  BY StopsAre DEF GoneStops

\* And after a step.
LEMMA StopsGoneNext == GoneStops'
  BY StopsGone, PTL

\* The dispatcher thread destroys a blink thread.
LEMMA DestroyThreadKeeps ==
    ASSUME Inv, DestroyThread
    PROVE  Inv'
  <1> DEFINE r == "RED"
             y == "YELLOW"
             g == "GREEN"
             de == "destroy"
             sta == "start"
             c == Head(todo).of
             gone == bl_threads[c]
  <1>1. /\ todo # <<>> /\ Head(todo).do = "destroy" /\ todo' = Tail(todo)
        /\ bl_threads' = [bl_threads EXCEPT ![c] = NoThread]
        /\ blinking' = [u \in DOMAIN blinking \ {gone} |-> blinking[u]]
        /\ read' = [u \in DOMAIN read \ {gone} |-> read[u]]
        /\ bo_mtx' = (IF bo_mtx = gone THEN Dead ELSE bo_mtx)
        /\ UNCHANGED <<switchVars, queue, commanded>>
        /\ switch' = switch /\ listeners' = listeners /\ timed' = timed
        /\ others' = others /\ strays' = strays
        /\ queue' = queue /\ signal' = signal /\ commanded' = commanded
        /\ port' = port /\ late' = late
    BY DEF DestroyThread, Doing, switchVars
  <1>2. TypeOK /\ WorkInv /\ ReadInv /\ ThreadsInv /\ BitsInv /\ SwitchInv
    BY DEF Inv, PortInv
  <1> HIDE DEF c, gone
  <1>3. LightPhase
    <2>1. ~ MotorPhase /\ ~ SwitchPhase
      BY <1>1, MotorHeads, SwitchHeads
    <2> QED BY <1>2, <2>1 DEF WorkInv
  <1>4. ~ (signal \in Signals /\ BlinkPhase) /\ ~ (signal \in Signals /\ ClearPhase)
    <2>1. ASSUME NEW what \in {"clear", "blink", "start"}, NEW d, NEW s
          PROVE  ~ Next1(what, d, s)
      BY <1>1 DEF Next1
    <2>2. ~ BlinkPhase
      BY <2>1, BlinkCases
    <2>3. ~ ClearPhase
      BY <2>1, ClearCases
    <2> QED BY <2>2, <2>3
  <1>5. Lit(Colours)
    BY <1>1, <1>3, <1>4 DEF LightPhase
  \* Which thread, and what comes next.
  <1>6. \/ /\ YellowPhase /\ Dying(y) /\ c = y /\ todo' = Do(sta, y)
        \/ /\ signal \in Signals /\ Dying(r) /\ c = r /\ todo' = AfterRed
        \/ /\ signal \in Signals /\ Dying(y) /\ c = y /\ Gone({r}) /\ todo' = AfterYellow
        \/ /\ signal \in Signals /\ Dying(g) /\ c = g /\ Gone({r, y}) /\ todo' = Ending
    <2>1. ASSUME NEW what \in {"clear", "blink", "start", "set"}, NEW d, NEW s
          PROVE  ~ Next1(what, d, s)
      BY <1>1 DEF Next1
    <2>2. ASSUME NEW d, NEW s, Next1(de, d, s)
          PROVE  c = d /\ todo' = s
      BY <1>1, <2>2 DEF Next1, c
    <2>3. ASSUME YellowPhase
          PROVE  Dying(y) /\ c = y /\ todo' = Do(sta, y)
      <3>1. Dying(y) /\ Next1(de, y, Do(sta, y))
        BY <2>1, <2>3, YellowCases
      <3> QED BY <2>2, <3>1
    <2>4. ASSUME signal \in Signals, StopPhase
          PROVE  \/ Dying(r) /\ Next1(de, r, AfterRed)
                 \/ Dying(y) /\ Gone({r}) /\ Next1(de, y, AfterYellow)
                 \/ Dying(g) /\ Gone({r, y}) /\ Next1(de, g, Ending)
      BY <2>1, <2>4, StopCases
    <2> QED BY <1>1, <1>3, <1>4, <2>2, <2>3, <2>4 DEF LightPhase
  <1>7. r \in Colours /\ y \in Colours /\ g \in Colours /\ de \in Whats /\ sta \in Whats
    BY WhatsAre DEF Colours
  <1>8. c \in Colours /\ Dying(c)
    BY <1>6, <1>7
  <1>9. gone # NoThread /\ gone \in Threads
    <2>1. bl_threads[c] \in Threads \cup {NoThread}
      BY <1>2, <1>8 DEF TypeOK
    <2> QED BY <1>8, <2>1 DEF Dying, gone
  <1>10. /\ bl_threads'[c] = NoThread /\ bl_threads' \in [Colours -> Threads \cup {NoThread}]
         /\ \A d \in Colours \ {c} : bl_threads'[d] = bl_threads[d]
    BY <1>1, <1>2, <1>8 DEF TypeOK
  <1>11. /\ DOMAIN blinking' = DOMAIN blinking \ {gone}
         /\ \A u \in DOMAIN blinking' : blinking'[u] = blinking[u]
    BY <1>1
  <1>12. TypeOK' /\ ReadInv'
    <2>1. DOMAIN read' = DOMAIN read \ {gone} /\ \A u \in DOMAIN read' : read'[u] = read[u]
      BY <1>1
    <2>0. Dispatcher \notin DOMAIN read
      BY <1>1, <1>2 DEF ReadInv
    <2>2. ReadInv'
      BY <1>1, <1>2, <2>0, <2>1 DEF ReadInv
    <2>3. /\ DOMAIN read' \subseteq {bo_mtx'} /\ \A u \in DOMAIN read' : read'[u] \subseteq Bits
          /\ bo_mtx' \in Threads \cup {Dispatcher, Unheld, Dead}
          /\ port' \subseteq Bits /\ late' \subseteq Colours
      BY <1>1, <1>2, <2>1, <2>2 DEF TypeOK, ReadInv
    <2>4. switch' \in {"Close", "Open"} /\ timed' \in BOOLEAN /\ others' \in Nat /\ strays' \in Nat
      BY <1>1, <1>2 DEF TypeOK
    <2>5. queue' \in Seq(PortEvents)
      BY <1>1, <1>2 DEF TypeOK
    <2>6. signal' \in LightEvents \cup {"none"} /\ commanded' \in MotorEvents
      BY <1>1, <1>2 DEF TypeOK
    <2>7. /\ DOMAIN blinking' \subseteq Threads
          /\ \A u \in DOMAIN blinking' : blinking'[u] \in [colour : Colours, hz : {500000, 1000000},
                                                           next : {"set", "clear"}]
      BY <1>2, <1>11 DEF TypeOK
    <2> QED BY <1>10, <2>2, <2>3, <2>4, <2>5, <2>6, <2>7 DEF TypeOK
  <1>13. ThreadsInv'
    <2>1. ASSUME NEW u \in DOMAIN blinking'
          PROVE  bl_threads'[blinking'[u].colour] = u
      <3>1. u \in DOMAIN blinking /\ u # gone /\ blinking'[u] = blinking[u]
        BY <1>11
      <3>2. bl_threads[blinking[u].colour] = u /\ blinking[u].colour \in Colours
        BY <1>2, <3>1 DEF ThreadsInv, TypeOK
      <3>3. blinking[u].colour # c
        BY <3>1, <3>2 DEF gone
      <3> QED BY <1>10, <3>1, <3>2, <3>3
    <2>2. ASSUME NEW d \in Colours, bl_threads'[d] # NoThread
          PROVE  bl_threads'[d] \in DOMAIN blinking' /\ blinking'[bl_threads'[d]].colour = d
      <3>1. d # c /\ bl_threads'[d] = bl_threads[d]
        BY <1>10, <2>2
      <3>2. bl_threads[d] \in DOMAIN blinking /\ blinking[bl_threads[d]].colour = d
        BY <1>2, <2>2, <3>1 DEF ThreadsInv
      <3>3. blinking[gone].colour = c
        BY <1>2, <1>8, <1>9 DEF ThreadsInv, gone
      <3> QED BY <1>11, <3>1, <3>2, <3>3
    <2> QED BY <2>1, <2>2 DEF ThreadsInv
  <1>14. Lit(Colours)'
    <2>1. Steady' = Steady
      BY <1>1 DEF Steady
    <2>2. \A d \in Colours : d \in port' => \/ d \in Steady' \/ bl_threads'[d] # NoThread
                                            \/ d \in late'
      BY <1>1, <1>5, <1>8, <1>10, <2>1 DEF Lit, Dying
    <2> QED BY <2>2 DEF Lit
  <1>15. Ending' = Ending /\ \A w, x : Do(w, x)' = Do(w, x)
    BY <1>1 DEF Ending, Set, Do
  <1>16. ASSUME NEW d \in Colours \ {c}
         PROVE  stop_blink(d)' = stop_blink(d)
    BY <1>10 DEF stop_blink, Clear, Do
  <1>17. LightPhase'
    <2>1. CASE c = y /\ todo' = Do(sta, y) /\ YellowPhase
      <3>1. Do(sta, y)' \in Seq(Ops)
        <4> HIDE DEF y, sta
        <4>1. Do(sta, y) \in Seq(Ops)
          BY <1>7, DoType
        <4> QED BY <1>15, <4>1 DEF y, sta
      <3>2. stop_blink(y)' = <<>>
        BY <1>10, <2>1 DEF stop_blink
      <3>3. stop_blink(y)' \o Do(sta, y) = Do(sta, y)
        BY <1>15, <3>1, <3>2
      <3>4. YellowPhase'
        BY <1>15, <2>1, <3>3 DEF YellowPhase
      <3> QED BY <1>14, <3>4 DEF LightPhase
    <2>2. signal \in Signals => signal' \in Signals
      BY <1>1 DEF Signals, LightEvents
    <2>3. ASSUME signal \in Signals, todo' = Stops'
          PROVE  LightPhase'
      <3>1. StopPhase'
        BY <2>3 DEF StopPhase
      <3> QED BY <1>14, <2>2, <2>3, <3>1 DEF LightPhase
    <2>4. CASE signal \in Signals /\ c = r /\ todo' = AfterRed
      <3>1. stop_blink(y)' = stop_blink(y) /\ stop_blink(g)' = stop_blink(g)
        BY <1>7, <1>16, <2>4
      <3>2. AfterRed' = AfterRed
        BY <1>15, <3>1 DEF AfterRed, AfterYellow
      <3>3. Gone({r})'
        BY <1>10, <2>4 DEF Gone
      <3> QED BY <2>3, <2>4, <3>2, <3>3, StopsGoneNext DEF GoneStops
    <2>5. CASE signal \in Signals /\ c = y /\ Gone({r}) /\ todo' = AfterYellow
      <3>1. stop_blink(g)' = stop_blink(g)
        BY <1>7, <1>16, <2>5
      <3>2. AfterYellow' = AfterYellow
        BY <1>15, <3>1 DEF AfterYellow
      <3>3. Gone({r, y})'
        BY <1>7, <1>10, <2>5 DEF Gone
      <3> QED BY <2>3, <2>5, <3>2, <3>3, StopsGoneNext DEF GoneStops
    <2>6. CASE signal \in Signals /\ c = g /\ Gone({r, y}) /\ todo' = Ending
      <3>1. Gone(Colours)'
        BY <1>7, <1>10, <2>6 DEF Gone, Colours
      <3> QED BY <1>15, <2>3, <2>6, <3>1, StopsGoneNext DEF GoneStops
    <2> QED BY <1>6, <2>1, <2>4, <2>5, <2>6
  <1>18. WorkInv' /\ BitsInv' /\ SwitchInv'
    BY <1>1, <1>2, <1>3, <1>17, SamePort, LightStep
  <1> QED BY <1>12, <1>13, <1>18 DEF Inv, PortInv

\* The state in which the dispatcher thread takes a pulse.
LEMMA Received ==
    ASSUME Inv, NEW e, Receive(e)
    PROVE  /\ todo = <<>> /\ LightPhase /\ Lit(Colours) /\ ~ Starting
           /\ MotorRight /\ MotorBitsKept /\ OpenBitKept
           /\ "OPEN_BIT" \in port <=> switch = "Open"
           /\ queue' \in Seq(PortEvents)
           /\ Count(queue, "TIMER_SWITCH_OUT") =
                  Count(queue', "TIMER_SWITCH_OUT") + One(e = "TIMER_SWITCH_OUT")
           /\ Count(queue', "TIMER_SWITCH_OUT") \in Nat
           /\ (\E k \in DOMAIN queue : queue[k] = "TIMER_SWITCH_OUT") =>
                  \/ e = "TIMER_SWITCH_OUT"
                  \/ \E k \in DOMAIN queue' : queue'[k] = "TIMER_SWITCH_OUT"
           /\ UNCHANGED <<portVars, lampVars>>
           /\ port' = port /\ bo_mtx' = bo_mtx /\ read' = read /\ late' = late
           /\ bl_threads' = bl_threads /\ blinking' = blinking
           /\ ReadInv' /\ ThreadsInv'
  <1> DEFINE out == "TIMER_SWITCH_OUT"
  <1>1. TypeOK /\ WorkInv /\ ReadInv /\ ThreadsInv /\ BitsInv
    BY DEF Inv, PortInv
  <1>2. /\ todo = <<>> /\ queue # <<>> /\ Head(queue) = e /\ queue' = Tail(queue)
        /\ UNCHANGED <<portVars, lampVars>>
        /\ port' = port /\ bo_mtx' = bo_mtx /\ read' = read /\ late' = late
        /\ bl_threads' = bl_threads /\ blinking' = blinking
    BY DEF Receive, portVars, lampVars
  <1>3. LightPhase /\ Lit(Colours)
    <2>1. ~ MotorPhase /\ ~ SwitchPhase
      BY <1>2, Apart DEF PhasesApart
    <2>2. LightPhase
      BY <1>1, <2>1 DEF WorkInv
    <2>3. \A what, of, s : ~ Next1(what, of, s)
      BY <1>2 DEF Next1
    <2>4. ~ ClearPhase /\ ~ BlinkPhase
      BY <2>3, ClearCases, BlinkCases
    <2> QED BY <2>2, <2>4 DEF LightPhase
  <1>4. ~ Starting /\ MotorRight /\ ("OPEN_BIT" \in port <=> switch = "Open")
    BY <1>1, <1>3, Apart DEF PhasesApart, BitsInv
  <1>5. queue \in Seq(PortEvents) /\ queue' \in Seq(PortEvents)
    <2>1. queue \in Seq(PortEvents)
      BY <1>1 DEF TypeOK
    <2> QED BY <1>2, <2>1, TailElements
  <1> HIDE DEF out
  <1>6. Count(queue, out) = Count(queue', out) + One(e = out) /\ Count(queue', out) \in Nat
    <2>1. Count(queue, out) = Count(Tail(queue), out) + One(Head(queue) = out)
      BY <1>2, <1>5, CountTail
    <2>2. Count(queue', out) \in Nat
      BY <1>5, CountType
    <2> QED BY <1>2, <2>1, <2>2
  <1>7. (\E k \in DOMAIN queue : queue[k] = out) => e = out \/ \E k \in DOMAIN queue' : queue'[k] = out
    <2>1. Has(queue, {out}) <=> Has(queue', {out}) \/ e \in {out}
      BY <1>2, <1>5, HasTail
    <2> QED BY <2>1 DEF Has
  <1>8. ReadInv' /\ ThreadsInv'
    <2>1. Dispatcher \notin DOMAIN read
      BY <1>1, <1>2 DEF ReadInv
    <2> QED BY <1>1, <1>2, <2>1 DEF ReadInv, ThreadsInv
  <1>9. MotorBitsKept /\ OpenBitKept
    BY <1>2, SamePort
  <1> QED BY <1>2, <1>3, <1>4, <1>5, <1>6, <1>7, <1>8, <1>9 DEF out

\* A pulse that is none of the switch leaves its handlers alone.
LEMMA OthersReceived ==
    ASSUME Inv, NEW e, Receive(e), e # "TIMER_SWITCH_OUT", UNCHANGED switchVars, ~ Starting'
    PROVE  SwitchInv'
  <1> DEFINE n(q) == Count(q, "TIMER_SWITCH_OUT")
  <1>1. /\ switch' = switch /\ listeners' = listeners /\ timed' = timed
        /\ others' = others /\ strays' = strays
    BY DEF switchVars
  <1>2. SwitchInv
    BY DEF Inv
  <1>3. /\ ~ Starting /\ n(queue) = n(queue') + One(FALSE) /\ n(queue') \in Nat
        /\ (\E k \in DOMAIN queue : queue[k] = "TIMER_SWITCH_OUT") =>
               \E k \in DOMAIN queue' : queue'[k] = "TIMER_SWITCH_OUT"
    <2>1. (e = "TIMER_SWITCH_OUT") = FALSE
      OBVIOUS
    <2> QED BY <2>1, Received
  <1>4. n(queue) = n(queue')
    <2> HIDE DEF n
    <2> QED BY <1>3 DEF One
  <1>5. Registered' /\ TimedInv' /\ DOMAIN listeners' = SwitchEvents
    BY <1>1, <1>2, <1>3 DEF SwitchInv, Registered, TimedInv
  <1>6. CountInv'
    <2>1. IF switch = "Close"
          THEN n(queue) + others + One(timed) = strays
          ELSE n(queue) + others = strays + One(~ timed)
      BY <1>2, <1>3 DEF SwitchInv, CountInv
    <2> HIDE DEF n
    <2>2. IF switch' = "Close" \/ Starting'
          THEN n(queue') + others' + One(timed') = strays'
          ELSE n(queue') + others' = strays' + One(~ timed')
      BY <1>1, <1>4, <2>1 DEF One
    <2> QED BY <2>2 DEF CountInv, n
  <1> QED BY <1>5, <1>6 DEF SwitchInv

\* What a handler of a light ends with, in any state and the next.
LEMMA EndingType == Ending \in Seq(Ops)
  BY EndingIs

\* And after a step.
LEMMA EndingNext == (Ending \in Seq(Ops))'
  BY EndingType, PTL

\* Joining three parts, where the two ways to begin have names.
LEMMA Reassociated ==
    ASSUME NEW r, NEW s, NEW t, NEW q, NEW v,
           r \in Seq(Ops), s \in Seq(Ops), t \in Seq(Ops), q = r \o s, v = s \o t
    PROVE  q \o t = r \o v /\ q \in Seq(Ops) /\ v \in Seq(Ops)
  BY Joined, Concatenation

\* The two ways to join seven parts are the same.
Chained(a, b, c, d, e, f, x) ==
    (((a \o b) \o c) \o ((d \o e) \o f)) \o x =
    a \o (b \o (c \o (d \o (e \o (f \o x)))))

\* They are for sequences.
LEMMA Chain ==
    ASSUME NEW a, NEW b, NEW c, NEW d, NEW e, NEW f, NEW x
    PROVE  (/\ a \in Seq(Ops) /\ b \in Seq(Ops) /\ c \in Seq(Ops) /\ d \in Seq(Ops)
            /\ e \in Seq(Ops) /\ f \in Seq(Ops) /\ x \in Seq(Ops)) =>
           Chained(a, b, c, d, e, f, x)
  <1> DEFINE ab == a \o b
             h == ab \o c
             de == d \o e
             u == de \o f
             hu == h \o u
             fx == f \o x
             efx == e \o fx
             v == d \o efx
             cv == c \o v
             bcv == b \o cv
  <1>1. ASSUME a \in Seq(Ops), b \in Seq(Ops), c \in Seq(Ops), d \in Seq(Ops),
               e \in Seq(Ops), f \in Seq(Ops), x \in Seq(Ops)
        PROVE  hu \o x = a \o bcv
    <2>a. a \in Seq(Ops)
      BY <1>1
    <2>b. b \in Seq(Ops)
      BY <1>1
    <2>c. c \in Seq(Ops)
      BY <1>1
    <2>d. d \in Seq(Ops)
      BY <1>1
    <2>e. e \in Seq(Ops)
      BY <1>1
    <2>f. f \in Seq(Ops)
      BY <1>1
    <2>x. x \in Seq(Ops)
      BY <1>1
    <2>0. /\ ab = a \o b /\ h = ab \o c /\ de = d \o e /\ u = de \o f /\ hu = h \o u
          /\ fx = f \o x /\ efx = e \o fx /\ v = d \o efx /\ cv = c \o v /\ bcv = b \o cv
      OBVIOUS
    <2> HIDE DEF ab, h, de, u, hu, fx, efx, v, cv, bcv
    <2>1. de \in Seq(Ops) /\ ab \in Seq(Ops)
      <3>1. de = d \o e
        BY <2>0
      <3>2. ab = a \o b
        BY <2>0
      <3>3. de \in Seq(Ops)
        BY <2>d, <2>e, <3>1, Concatenation
      <3>4. ab \in Seq(Ops)
        BY <2>a, <2>b, <3>2, Concatenation
      <3> QED BY <3>3, <3>4
    <2>2. u \o x = de \o fx /\ u \in Seq(Ops) /\ fx \in Seq(Ops)
      <3>1. u = de \o f /\ fx = f \o x
        BY <2>0
      <3> QED BY <2>1, <2>f, <2>x, <3>1, Reassociated, SMTT(30)
    <2>3. de \o fx = v /\ efx \in Seq(Ops)
      <3>1. de = d \o e /\ efx = e \o fx
        BY <2>0
      <3>2. de \o fx = d \o efx /\ efx \in Seq(Ops)
        BY <2>d, <2>e, <2>2, <3>1, Reassociated, SMTT(30)
      <3> QED BY <2>0, <3>2
    <2>4. v = u \o x /\ v = d \o efx
      BY <2>0, <2>2, <2>3
    <2>5. v \in Seq(Ops)
      BY <2>d, <2>3, <2>4, Concatenation
    <2>6. h \o v = ab \o cv /\ h \in Seq(Ops) /\ cv \in Seq(Ops)
      <3>1. h = ab \o c /\ cv = c \o v
        BY <2>0
      <3> QED BY <2>1, <2>c, <2>5, <3>1, Reassociated, SMTT(30)
    <2>7. ab \o cv = a \o bcv
      <3>1. ab = a \o b /\ bcv = b \o cv
        BY <2>0
      <3>2. cv \in Seq(Ops)
        BY <2>6
      <3> QED BY <2>a, <2>b, <3>1, <3>2, Reassociated
    <2>8. hu \o x = h \o v
      <3>1. hu = h \o u
        BY <2>0
      <3>2. u \in Seq(Ops)
        BY <2>2
      <3>3. h \in Seq(Ops)
        BY <2>6
      <3>4. v = u \o x
        BY <2>4
      <3> QED BY <2>x, <3>1, <3>2, <3>3, <3>4, Reassociated
    <2> QED BY <2>6, <2>7, <2>8
  <1> QED BY <1>1 DEF Chained

\* The two ways to join what starts the motor are the same.
MotorChained(a, b, c, d, e, f, x) ==
    ((a \o b) \o (((c \o d) \o e) \o f)) \o x =
    a \o (b \o (c \o (d \o (e \o (f \o x)))))

\* They are for sequences.
LEMMA MotorChain ==
    ASSUME NEW a, NEW b, NEW c, NEW d, NEW e, NEW f, NEW x
    PROVE  (/\ a \in Seq(Ops) /\ b \in Seq(Ops) /\ c \in Seq(Ops) /\ d \in Seq(Ops)
            /\ e \in Seq(Ops) /\ f \in Seq(Ops) /\ x \in Seq(Ops)) =>
           MotorChained(a, b, c, d, e, f, x)
  <1> DEFINE ab == a \o b
             cd == c \o d
             cde == cd \o e
             u == cde \o f
             abu == ab \o u
             fx == f \o x
             efx == e \o fx
             defx == d \o efx
             v == c \o defx
             bv == b \o v
  <1>1. ASSUME a \in Seq(Ops), b \in Seq(Ops), c \in Seq(Ops), d \in Seq(Ops),
               e \in Seq(Ops), f \in Seq(Ops), x \in Seq(Ops)
        PROVE  abu \o x = a \o bv
    <2>a. a \in Seq(Ops)
      BY <1>1
    <2>b. b \in Seq(Ops)
      BY <1>1
    <2>c. c \in Seq(Ops)
      BY <1>1
    <2>d. d \in Seq(Ops)
      BY <1>1
    <2>e. e \in Seq(Ops)
      BY <1>1
    <2>f. f \in Seq(Ops)
      BY <1>1
    <2>x. x \in Seq(Ops)
      BY <1>1
    <2>0. /\ ab = a \o b /\ cd = c \o d /\ cde = cd \o e /\ u = cde \o f /\ abu = ab \o u
          /\ fx = f \o x /\ efx = e \o fx /\ defx = d \o efx /\ v = c \o defx /\ bv = b \o v
      OBVIOUS
    <2> HIDE DEF ab, cd, cde, u, abu, fx, efx, defx, v, bv
    <2>1. cd \in Seq(Ops)
      BY <2>0, <2>c, <2>d, Concatenation
    <2>2. cde \in Seq(Ops)
      BY <2>0, <2>1, <2>e, Concatenation
    <2>3. u \o x = cde \o fx /\ u \in Seq(Ops) /\ fx \in Seq(Ops)
      <3>1. u = cde \o f /\ fx = f \o x
        BY <2>0
      <3> QED BY <2>2, <2>f, <2>x, <3>1, Reassociated, SMTT(30)
    <2>4. cde \o fx = cd \o efx /\ efx \in Seq(Ops)
      <3>1. cde = cd \o e /\ efx = e \o fx
        BY <2>0
      <3>2. fx \in Seq(Ops)
        BY <2>3
      <3> QED BY <2>1, <2>e, <3>1, <3>2, Reassociated, SMTT(30)
    <2>5. cd \o efx = v /\ defx \in Seq(Ops)
      <3>1. cd = c \o d /\ defx = d \o efx
        BY <2>0
      <3>2. efx \in Seq(Ops)
        BY <2>4
      <3>3. cd \o efx = c \o defx /\ defx \in Seq(Ops)
        BY <2>c, <2>d, <3>1, <3>2, Reassociated, SMTT(30)
      <3> QED BY <2>0, <3>3
    <2>6. v = u \o x
      BY <2>3, <2>4, <2>5
    <2>7. v \in Seq(Ops)
      <3>1. v = c \o defx
        BY <2>0
      <3>2. defx \in Seq(Ops)
        BY <2>5
      <3> QED BY <2>c, <3>1, <3>2, Concatenation
    <2>8. ab \o v = a \o bv /\ ab \in Seq(Ops)
      <3>1. ab = a \o b /\ bv = b \o v
        BY <2>0
      <3> QED BY <2>a, <2>b, <2>7, <3>1, Reassociated, SMTT(30)
    <2>9. abu \o x = ab \o v
      <3>1. abu = ab \o u
        BY <2>0
      <3>2. u \in Seq(Ops)
        BY <2>3
      <3>3. ab \in Seq(Ops)
        BY <2>8
      <3> QED BY <2>6, <2>x, <3>1, <3>2, <3>3, Reassociated, SMTT(30)
    <2> QED BY <2>8, <2>9
  <1> QED BY <1>1 DEF MotorChained

\* The speed, in any state and the next.
LEMMA SpeedType == Speed \in Seq(Ops)
  BY MotorType

\* And after a step.
LEMMA SpeedNext == (Speed \in Seq(Ops))'
  BY SpeedType, PTL

\* The entry actions of Motorcontroler are what MotorPhase speaks of.
LEMMA MotorWorkIs ==
    ASSUME NEW e \in MotorEvents, commanded' = e, todo' = MotorWork(e)
    PROVE  IF e = "MOTOR_STOP" THEN todo' = Halt' ELSE todo' = Go'
  <1> DEFINE right == Do("set", "RIGHT_BIT")
             unst == Do("clear", "STOP_BIT")
             lo == Do("lock", "bo_mtx")
             left == Do("clear", "LEFT_BIT")
             un == Do("unlock", "bo_mtx")
             x == Speed'
  <1>1. CASE e = "MOTOR_STOP"
    BY <1>1 DEF MotorWork, stop, Halt, Set, Do
  <1>2. CASE e # "MOTOR_STOP"
    <2>1. x = IF e = "MOTOR_SLOW" THEN go_slow ELSE go_fast
      BY DEF Speed, go_slow, go_fast, Set, Clear, Do
    <2>2. Go' = right \o (unst \o (lo \o (left \o (right \o (un \o x)))))
      BY DEF Go, Unstop, Enter, NotLeft, GoRight, Leave, Set, Clear, Do
    <2>3. /\ start = right \o unst
          /\ go_right = ((lo \o left) \o right) \o un
      BY DEF start, go_right, clear_set, Set, Clear
    <2>4. /\ right \in Seq(Ops) /\ unst \in Seq(Ops) /\ lo \in Seq(Ops) /\ left \in Seq(Ops)
          /\ un \in Seq(Ops)
      <3> DEFINE r == "RIGHT_BIT"
                 h == "STOP_BIT"
                 l == "LEFT_BIT"
                 m == "bo_mtx"
      <3>1. /\ r \in Parts /\ h \in Parts /\ l \in Parts /\ m \in Parts /\ <<>> \in Seq(Ops)
        BY PartsAre, WhatsAre DEF MotorBits
      <3> HIDE DEF r, h, l, m
      <3>2. \A w \in Whats, p \in Parts : Do(w, p) \in Seq(Ops)
        BY <3>1, DoIs
      <3>3. /\ Do("set", r) \in Seq(Ops) /\ Do("clear", h) \in Seq(Ops)
            /\ Do("lock", m) \in Seq(Ops) /\ Do("clear", l) \in Seq(Ops)
            /\ Do("unlock", m) \in Seq(Ops)
        BY <3>1, <3>2, WhatsAre
      <3> QED BY <3>3 DEF r, h, l, m
    <2>5. x \in Seq(Ops)
      BY SpeedNext
    <2> DEFINE u == ((lo \o left) \o right) \o un
    <2>6. todo' = ((right \o unst) \o u) \o x
      <3> HIDE DEF right, unst, u, x
      <3>1. start = right \o unst /\ go_right = u
        BY <2>3 DEF u
      <3>2. e \in {"MOTOR_NORMAL", "MOTOR_SLOW"}
        BY <1>2 DEF MotorEvents
      <3> QED BY <2>1, <3>1, <3>2 DEF MotorWork
    <2> HIDE DEF right, unst, lo, left, un, x
    <2>7. MotorChained(right, unst, lo, left, right, un, x)
      BY <2>4, <2>5, MotorChain
    <2>8. todo' = right \o (unst \o (lo \o (left \o (right \o (un \o x)))))
      BY <2>6, <2>7, Zenon DEF MotorChained, u
    <2>9. todo' = Go'
      BY <2>2, <2>8
    <2> QED BY <1>2, <2>9
  <1> QED BY <1>1, <1>2

\* The handlers of the motor.
LEMMA DispatchMotorKeeps ==
    ASSUME Inv, NEW e \in MotorEvents, DispatchMotor(e)
    PROVE  Inv'
  <1>1. Receive(e) /\ UNCHANGED <<switchVars, signal>> /\ commanded' = e /\ todo' = MotorWork(e)
    BY DEF DispatchMotor
  <1>2. /\ switch' = switch /\ listeners' = listeners /\ timed' = timed
        /\ others' = others /\ strays' = strays /\ signal' = signal
    BY <1>1 DEF switchVars
  <1>3. MotorPhase'
    <2>1. IF e = "MOTOR_STOP" THEN todo' = Halt' ELSE todo' = Go'
      BY <1>1, MotorWorkIs
    <2> QED BY <1>1, <2>1 DEF MotorPhase
  <1>4. e # "TIMER_SWITCH_OUT"
    BY DEF MotorEvents
  <1>5. /\ Lit(Colours) /\ ("OPEN_BIT" \in port <=> switch = "Open") /\ queue' \in Seq(PortEvents)
        /\ port' = port /\ bo_mtx' = bo_mtx /\ read' = read /\ late' = late
        /\ bl_threads' = bl_threads /\ blinking' = blinking
        /\ ReadInv' /\ ThreadsInv'
    BY <1>1, Received
  <1>6. Lit(Colours)'
    BY <1>2, <1>5, LitKept
  <1>7. WorkInv'
    BY <1>3, <1>6 DEF WorkInv
  <1>8. ~ Starting' /\ BitsInv'
    BY <1>2, <1>3, <1>5, ApartNext DEF PhasesApart, BitsInv
  <1>9. SwitchInv'
    BY <1>1, <1>4, <1>8, OthersReceived
  <1>10. TypeOK'
    <2>1. TypeOK
      BY DEF Inv
    <2>2. commanded' \in MotorEvents
      BY <1>1
    <2> QED BY <1>2, <1>5, <2>1, <2>2 DEF TypeOK
  <1> QED BY <1>5, <1>7, <1>8, <1>9, <1>10 DEF Inv, PortInv

\* The handlers of Signal_light.
LEMMA DispatchLightKeeps ==
    ASSUME Inv, NEW e \in LightEvents, DispatchLight(e)
    PROVE  Inv'
  <1> DEFINE r == Clear("RED")
             y == Clear("YELLOW")
             g == Clear("GREEN")
             sr == stop_blink("RED")
             sy == stop_blink("YELLOW")
             sg == stop_blink("GREEN")
  <1>1. /\ Receive(e) /\ UNCHANGED <<switchVars, commanded>> /\ todo' = LightWork(e)
        /\ signal' = IF e = "TRAFFIC_LIGHT_NEW_PUK" THEN signal ELSE e
    BY DEF DispatchLight
  <1>2. /\ switch' = switch /\ listeners' = listeners /\ timed' = timed
        /\ others' = others /\ strays' = strays /\ commanded' = commanded
    BY <1>1 DEF switchVars
  <1>3. e # "TIMER_SWITCH_OUT"
    BY DEF LightEvents
  <1>4. /\ Lit(Colours) /\ ("OPEN_BIT" \in port <=> switch = "Open") /\ queue' \in Seq(PortEvents)
        /\ MotorRight /\ MotorBitsKept
        /\ port' = port /\ bo_mtx' = bo_mtx /\ read' = read /\ late' = late
        /\ bl_threads' = bl_threads /\ blinking' = blinking
        /\ ReadInv' /\ ThreadsInv'
    BY <1>1, Received
  <1>5. LightPhase'
    <2>1. CASE e = "TRAFFIC_LIGHT_NEW_PUK"
      <3>1. todo' = Do("blink", "YELLOW") /\ signal' = signal
        BY <1>1, <2>1 DEF LightWork
      <3>2. Lit(Colours)'
        BY <1>4, <3>1, LitKept
      <3>3. YellowPhase'
        BY <3>1 DEF YellowPhase, Do
      <3> QED BY <3>2, <3>3 DEF LightPhase
    <2>2. CASE e # "TRAFFIC_LIGHT_NEW_PUK"
      <3>1. signal' = e /\ signal' \in Signals
        BY <1>1, <2>2 DEF Signals, LightEvents
      <3>2. /\ Ending' = IF e = "TRAFFIC_LIGHT_NORMAL" THEN Set("GREEN")
                         ELSE IF e = "TRAFFIC_LIGHT_RDY" THEN Set("GREEN") \o Do("blink", "GREEN")
                         ELSE IF e = "TRAFFIC_LIGHT_UNACK_ERROR" THEN Set("RED") \o Do("blink", "RED")
                         ELSE Do("blink", "RED")
            /\ \A c : stop_blink(c)' = stop_blink(c)
            /\ \A c : Clear(c)' = Clear(c)
        BY <1>4, <3>1 DEF Ending, stop_blink, Set, Clear, Do
      <3> DEFINE x == Ending'
      <3>3. todo' = (((r \o y) \o g) \o ((sr \o sy) \o sg)) \o x
        <4>1. /\ e = "TRAFFIC_LIGHT_NORMAL" => x = Set("GREEN")
              /\ e = "TRAFFIC_LIGHT_RDY" => x = Set("GREEN") \o Do("blink", "GREEN")
              /\ e = "TRAFFIC_LIGHT_UNACK_ERROR" => x = Set("RED") \o Do("blink", "RED")
              /\ e = "TRAFFIC_LIGHT_ACKED_ERROR" => x = Do("blink", "RED")
          BY <3>2
        <4> HIDE DEF x
        <4> DEFINE p == ((r \o y) \o g) \o ((sr \o sy) \o sg)
        <4>2. p = clear_all_lights \o stop_all_blinks
          BY DEF clear_all_lights, stop_all_blinks
        <4> HIDE DEF p
        <4>3. /\ e = "TRAFFIC_LIGHT_NORMAL" => todo' = p \o Set("GREEN")
              /\ e = "TRAFFIC_LIGHT_RDY" => todo' = p \o (Set("GREEN") \o Do("blink", "GREEN"))
              /\ e = "TRAFFIC_LIGHT_UNACK_ERROR" => todo' = p \o (Set("RED") \o Do("blink", "RED"))
              /\ e = "TRAFFIC_LIGHT_ACKED_ERROR" => todo' = p \o Do("blink", "RED")
          BY <1>1, <2>2, <4>2 DEF LightWork
        <4>4. e \in {"TRAFFIC_LIGHT_NORMAL", "TRAFFIC_LIGHT_RDY", "TRAFFIC_LIGHT_UNACK_ERROR",
                     "TRAFFIC_LIGHT_ACKED_ERROR"}
          BY <2>2 DEF LightEvents
        <4>5. todo' = p \o x
          BY <4>1, <4>3, <4>4
        <4> QED BY <4>5 DEF p
      <3>4. /\ r \in Seq(Ops) /\ y \in Seq(Ops) /\ g \in Seq(Ops)
            /\ sr \in Seq(Ops) /\ sy \in Seq(Ops) /\ sg \in Seq(Ops)
        BY ColoursAre, DoType, WhatsAre, StopBlinkIs DEF Clear
      <3>5. x \in Seq(Ops)
        BY EndingNext
      <3>6. Stops' = sr \o (sy \o (sg \o x))
        BY <3>2 DEF Stops, AfterRed, AfterYellow
      <3> HIDE DEF r, y, g, sr, sy, sg, x
      <3>7. todo' = r \o (y \o (g \o Stops'))
        <4>1. Chained(r, y, g, sr, sy, sg, x)
          BY <3>4, <3>5, Chain
        <4> QED BY <3>3, <3>6, <4>1, Zenon DEF Chained
      <3>8. ClearPhase'
        BY <3>2, <3>7 DEF ClearPhase, r, y, g
      <3> QED BY <3>1, <3>8 DEF LightPhase
    <2> QED BY <2>1, <2>2
  <1>6. ~ Starting' /\ BitsInv'
    <2>1. MotorRight'
      BY <1>2, <1>4, MotorKept
    <2> QED BY <1>2, <1>4, <1>5, <2>1, ApartNext DEF PhasesApart, BitsInv
  <1>7. SwitchInv'
    BY <1>1, <1>3, <1>6, OthersReceived
  <1>8. TypeOK'
    <2>1. TypeOK
      BY DEF Inv
    <2>2. signal' \in LightEvents \cup {"none"}
      <3>1. signal \in LightEvents \cup {"none"}
        BY <2>1 DEF TypeOK
      <3> QED BY <1>1, <3>1
    <2> QED BY <1>2, <1>4, <2>1, <2>2 DEF TypeOK
  <1> QED BY <1>4, <1>5, <1>6, <1>7, <1>8 DEF Inv, PortInv, WorkInv

\* The handlers of SWITCH_OPEN.
LEMMA DispatchSwitchOpenKeeps ==
    ASSUME Inv, DispatchSwitchOpen
    PROVE  Inv'
  <1> DEFINE e == "SWITCH_OPEN"
             out == "TIMER_SWITCH_OUT"
             n == Count(queue, out)
  <1>1. Receive(e) /\ signal' = signal /\ commanded' = commanded
    BY DEF DispatchSwitchOpen
  <1>2. e # out
    OBVIOUS
  <1>3. TypeOK /\ SwitchInv
    BY DEF Inv
  <1> HIDE DEF e
  <1>4. /\ todo = <<>> /\ Lit(Colours) /\ ~ Starting /\ LightPhase
        /\ ("OPEN_BIT" \in port <=> switch = "Open") /\ queue' \in Seq(PortEvents)
        /\ MotorRight /\ MotorBitsKept
        /\ port' = port /\ bo_mtx' = bo_mtx /\ read' = read /\ late' = late
        /\ bl_threads' = bl_threads /\ blinking' = blinking
        /\ ReadInv' /\ ThreadsInv'
    BY <1>1, Received
  <1>5. n = Count(queue', out) + One(e = out) /\ Count(queue', out) \in Nat
    BY <1>1, Received
  <1>6. Count(queue', out) = n /\ n \in Nat
    <2>1. One(e = out) = 0
      BY <1>2 DEF One
    <2> HIDE DEF n
    <2> QED BY <1>5, <2>1
  <1>7. Lit(Colours)'
    BY <1>1, <1>4, LitKept
  <1>8. timed \in BOOLEAN /\ others \in Nat /\ strays \in Nat
    BY <1>3 DEF TypeOK
  <1>9. /\ switch = "Close" => n + others + One(timed) = strays
        /\ switch # "Close" => n + others = strays + One(~ timed)
    BY <1>3, <1>4 DEF SwitchInv, CountInv
  <1> HIDE DEF n, out
  <1>10. CASE OpenSwitch /\ todo' = Set("OPEN_BIT") \o Do("start_timer", "switch")
    <2>1. /\ switch = "Close" /\ switch' = "Open" /\ timed' = timed
          /\ others' = others /\ strays' = strays
          /\ listeners' = AddListener(listeners, "TIMER_SWITCH_OUT")
      BY <1>10 DEF OpenSwitch
    <2>2. todo' = OpenWork'
      BY <1>10 DEF OpenWork, TimerWork, Set, Do
    <2>3. WorkInv'
      BY <1>7, <2>1, <2>2 DEF WorkInv, SwitchPhase
    <2>4. BitsInv' /\ Starting'
      <3>1. MotorRight'
        BY <1>1, <1>4, MotorKept
      <3> QED BY <2>2, <3>1, ApartNext DEF PhasesApart, BitsInv, Starting
    <2>5. DOMAIN listeners' = SwitchEvents /\ Registered'
      <3>1. /\ DOMAIN listeners = SwitchEvents /\ listeners["TIMER_SWITCH_OUT"] = <<>>
            /\ listeners["SWITCH_OPEN"] = <<"Switch_control">>
        BY <1>3, <2>1 DEF SwitchInv, Registered
      <3>2. Append(<<>>, "Switch_control") = <<"Switch_control">>
        OBVIOUS
      <3>3. /\ DOMAIN listeners' = SwitchEvents
            /\ listeners'["TIMER_SWITCH_OUT"] = Append(<<>>, "Switch_control")
            /\ listeners'["SWITCH_OPEN"] = listeners["SWITCH_OPEN"]
        BY <2>1, <3>1 DEF AddListener, SwitchEvents
      <3> QED BY <2>1, <3>1, <3>2, <3>3 DEF Registered
    <2>6. TimedInv'
      BY <2>4 DEF TimedInv
    <2>7. n + others' + One(timed') = strays'
      BY <1>9, <2>1
    <2>8. CountInv'
      BY <1>6, <2>4, <2>7 DEF CountInv, out
    <2>9. TypeOK'
      BY <1>1, <1>3, <1>4, <2>1 DEF TypeOK
    <2> QED BY <1>4, <2>3, <2>4, <2>5, <2>6, <2>8, <2>9 DEF Inv, PortInv, SwitchInv
  <1>11. CASE OpenAgain /\ todo' = <<>>
    <2>1. /\ switch = "Open" /\ switch' = switch /\ timed' = TRUE /\ others' = others
          /\ strays' = (IF timed THEN strays ELSE strays + 1) /\ listeners' = listeners
      BY <1>11 DEF OpenAgain
    <2>2. LightPhase' /\ WorkInv'
      BY <1>7, <1>11 DEF WorkInv, LightPhase
    <2>3. BitsInv' /\ ~ Starting'
      <3>1. MotorRight'
        BY <1>1, <1>4, MotorKept
      <3> QED BY <1>1, <1>4, <2>1, <2>2, <3>1, ApartNext DEF PhasesApart, BitsInv, Starting
    <2>4. Registered' /\ DOMAIN listeners' = SwitchEvents /\ TimedInv'
      BY <1>3, <2>1 DEF SwitchInv, Registered, TimedInv
    <2>5. n + others' = strays' + One(~ timed')
      <3>1. strays' = strays + One(~ timed)
        BY <1>8, <2>1 DEF One
      <3>2. One(~ timed') = 0 /\ One(~ timed) \in Nat
        BY <2>1 DEF One
      <3> DEFINE b == One(~ timed)
      <3>3. n + others = strays + b
        BY <1>9, <2>1
      <3> HIDE DEF b
      <3>4. strays' = strays + b /\ b \in Nat
        BY <3>1, <3>2 DEF b
      <3> QED BY <1>6, <1>8, <2>1, <3>2, <3>3, <3>4
    <2>6. CountInv'
      <3>1. ~ (switch' = "Close" \/ Starting')
        BY <2>1, <2>3
      <3> QED BY <1>6, <2>5, <3>1 DEF CountInv, out
    <2>7. TypeOK'
      <3>1. timed' \in BOOLEAN /\ others' \in Nat
        BY <1>8, <2>1
      <3>2. strays' \in Nat
        BY <1>8, <2>1
      <3> QED BY <1>1, <1>3, <1>4, <2>1, <3>1, <3>2 DEF TypeOK
    <2> QED BY <1>4, <2>2, <2>3, <2>4, <2>6, <2>7 DEF Inv, PortInv, SwitchInv
  <1> QED BY <1>10, <1>11 DEF DispatchSwitchOpen

\* What timer_switch_out() leaves registered.
LEMMA ClosedRegistered ==
    ASSUME DOMAIN listeners = SwitchEvents, listeners["SWITCH_OPEN"] = <<"Switch_control">>,
           listeners["TIMER_SWITCH_OUT"] = <<"Switch_control">>
    PROVE  /\ DOMAIN ClosedListeners(listeners) = SwitchEvents
           /\ ClosedListeners(listeners)["SWITCH_OPEN"] = <<"Switch_control">>
           /\ ClosedListeners(listeners)["TIMER_SWITCH_OUT"] = <<>>
  <1> DEFINE o == "SWITCH_OPEN"
             t == "TIMER_SWITCH_OUT"
             f == RemListeners(listeners, t)
             g == RemListeners(f, o)
             h == AddListener(g, o)
  <1>1. o \in SwitchEvents /\ t \in SwitchEvents /\ o # t
    BY DEF SwitchEvents
  <1> HIDE DEF o, t
  <1>2. DOMAIN f = SwitchEvents /\ f[t] = <<>> /\ f[o] = <<"Switch_control">>
    BY <1>1, OneRemoved DEF RemListeners, o, t
  <1>3. DOMAIN g = SwitchEvents /\ g[t] = <<>> /\ g[o] = <<>>
    <2> HIDE DEF f
    <2> QED BY <1>1, <1>2, OneRemoved DEF RemListeners
  <1>4. DOMAIN h = SwitchEvents /\ h[t] = <<>> /\ h[o] = Append(<<>>, "Switch_control")
    <2> HIDE DEF g
    <2> QED BY <1>1, <1>3 DEF AddListener
  <1>5. Append(<<>>, "Switch_control") = <<"Switch_control">>
    OBVIOUS
  <1>6. ClosedListeners(listeners) = h
    BY DEF ClosedListeners, o, t
  <1> HIDE DEF h
  <1> QED BY <1>4, <1>5, <1>6 DEF o, t

\* The handlers of TIMER_SWITCH_OUT.
LEMMA DispatchTimerKeeps ==
    ASSUME Inv, DispatchTimerSwitchOut
    PROVE  Inv'
  <1> DEFINE out == "TIMER_SWITCH_OUT"
             n == Count(queue, out)
             n1 == Count(queue', out)
  <1>1. Receive(out) /\ signal' = signal /\ commanded' = commanded
    BY DEF DispatchTimerSwitchOut
  <1>2. TypeOK /\ SwitchInv
    BY DEF Inv
  <1> HIDE DEF out
  <1>3. /\ todo = <<>> /\ Lit(Colours) /\ ~ Starting
        /\ ("OPEN_BIT" \in port <=> switch = "Open") /\ queue' \in Seq(PortEvents)
        /\ MotorRight /\ MotorBitsKept
        /\ port' = port /\ bo_mtx' = bo_mtx /\ read' = read /\ late' = late
        /\ bl_threads' = bl_threads /\ blinking' = blinking
        /\ ReadInv' /\ ThreadsInv'
    BY <1>1, Received
  <1>4. n = n1 + One(out = "TIMER_SWITCH_OUT") /\ n1 \in Nat
    BY <1>1, Received DEF out
  <1>5. n = n1 + 1
    BY <1>4 DEF One, out
  <1>6. Lit(Colours)'
    BY <1>1, <1>3, LitKept
  <1>7. timed \in BOOLEAN /\ others \in Nat /\ strays \in Nat /\ switch \in {"Close", "Open"}
    BY <1>2 DEF TypeOK
  <1>8. /\ switch = "Close" => n + others + One(timed) = strays
        /\ switch # "Close" => n + others = strays + One(~ timed)
    BY <1>2, <1>3 DEF SwitchInv, CountInv, out
  <1>9. One(timed) \in Nat /\ One(~ timed) \in Nat /\ One(timed) + One(~ timed) = 1
    BY DEF One
  <1> HIDE DEF n, n1
  <1>10. CASE listeners["TIMER_SWITCH_OUT"] = <<>>
    <2>1. /\ strays' = strays - 1 /\ switch' = switch /\ listeners' = listeners
          /\ timed' = timed /\ others' = others /\ todo' = <<>>
      BY <1>10 DEF DispatchTimerSwitchOut, TimerUnheard
    <2>2. switch = "Close"
      BY <1>2, <1>7, <1>10 DEF SwitchInv, Registered
    <2>3. LightPhase' /\ WorkInv'
      BY <1>6, <2>1 DEF WorkInv, LightPhase
    <2>4. BitsInv' /\ ~ Starting'
      <3>1. MotorRight'
        BY <1>1, <1>3, MotorKept
      <3> QED BY <1>1, <1>3, <2>1, <2>3, <3>1, ApartNext DEF PhasesApart, BitsInv
    <2>5. Registered' /\ DOMAIN listeners' = SwitchEvents /\ TimedInv'
      BY <1>2, <2>1, <2>2 DEF SwitchInv, Registered, TimedInv
    <2>6. n1 + others' + One(timed') = strays' /\ strays' \in Nat
      <3> DEFINE a == One(timed)
      <3>1. n + others + a = strays /\ a \in Nat /\ One(timed') = a
        BY <1>8, <1>9, <2>1, <2>2
      <3> HIDE DEF a
      <3> QED BY <1>4, <1>5, <1>7, <2>1, <3>1
    <2>7. CountInv'
      BY <2>1, <2>2, <2>6 DEF CountInv, n1, out
    <2>8. TypeOK'
      BY <1>1, <1>2, <1>3, <2>1, <2>6 DEF TypeOK
    <2> QED BY <1>3, <2>3, <2>4, <2>5, <2>7, <2>8 DEF Inv, PortInv, SwitchInv
  <1>11. CASE listeners["TIMER_SWITCH_OUT"] # <<>>
    <2>1. CloseSwitch /\ todo' = Clear("OPEN_BIT")
      BY <1>11 DEF DispatchTimerSwitchOut
    <2>2. /\ switch = "Open" /\ switch' = "Close" /\ listeners' = ClosedListeners(listeners)
          /\ timed' = timed /\ others' = others /\ strays' = strays
      BY <2>1 DEF CloseSwitch
    <2>3. todo' = CloseWork'
      BY <2>1 DEF CloseWork, Clear, Do
    <2>4. WorkInv'
      BY <1>6, <2>2, <2>3 DEF WorkInv, SwitchPhase
    <2>5. BitsInv' /\ ~ Starting'
      <3>1. MotorRight'
        BY <1>1, <1>3, MotorKept
      <3> QED BY <2>3, <3>1, ApartNext DEF PhasesApart, BitsInv
    <2>6. Registered' /\ DOMAIN listeners' = SwitchEvents /\ TimedInv'
      <3>1. /\ DOMAIN listeners = SwitchEvents /\ listeners["SWITCH_OPEN"] = <<"Switch_control">>
            /\ listeners["TIMER_SWITCH_OUT"] = <<"Switch_control">>
        BY <1>2, <2>2 DEF SwitchInv, Registered
      <3> QED BY <2>2, <3>1, ClosedRegistered DEF Registered, TimedInv
    <2>7. n1 + others' + One(timed') = strays'
      <3> DEFINE a == One(timed)
                 b == One(~ timed)
      <3>1. /\ n + others = strays + b /\ a \in Nat /\ b \in Nat /\ a + b = 1
            /\ One(timed') = a
        BY <1>8, <1>9, <2>2
      <3> HIDE DEF a, b
      <3> QED BY <1>4, <1>5, <1>7, <2>2, <3>1
    <2>8. CountInv'
      BY <2>2, <2>7 DEF CountInv, n1, out
    <2>9. TypeOK'
      BY <1>1, <1>2, <1>3, <2>2 DEF TypeOK
    <2> QED BY <1>3, <2>4, <2>5, <2>6, <2>8, <2>9 DEF Inv, PortInv, SwitchInv
  <1> QED BY <1>10, <1>11

-----------------------------------------------------------------------------
\* The theorems.

\* It holds when the program starts.
LEMMA InitInv == Init => Inv
  <1> SUFFICES ASSUME Init
               PROVE  Inv
    OBVIOUS
  <1>1. /\ queue = <<>> /\ todo = <<>> /\ port = {"STOP_BIT"} /\ commanded = "MOTOR_STOP"
        /\ bo_mtx = Unheld /\ read = <<>> /\ bl_threads = [c \in Colours |-> NoThread]
        /\ blinking = <<>> /\ signal = "none" /\ late = {}
        /\ switch = "Close" /\ timed = FALSE /\ others = 0 /\ strays = 0
        /\ listeners = AddListener([e \in SwitchEvents |-> <<>>], "SWITCH_OPEN")
    BY DEF Init, SwitchInit
  <1>2. DOMAIN <<>> = {} /\ <<>> \in Seq(PortEvents)
    OBVIOUS
  <1>3. TypeOK
    <2>1. timed \in BOOLEAN /\ commanded \in MotorEvents
      BY <1>1 DEF MotorEvents
    <2>2. port \subseteq Bits
      BY <1>1 DEF Bits
    <2> QED BY <1>1, <1>2, <2>1, <2>2 DEF TypeOK
  <1>4. "STOP_BIT" \notin Colours /\ "OPEN_BIT" # "STOP_BIT"
    BY DEF Colours
  <1>5. Lit(Colours)
    BY <1>1, <1>4 DEF Lit
  <1>6. LightPhase /\ WorkInv
    BY <1>1, <1>5 DEF LightPhase, WorkInv
  <1>7. ReadInv /\ ThreadsInv
    BY <1>1, <1>2 DEF ReadInv, ThreadsInv
  <1>8. BitsInv
    BY <1>1, <1>4 DEF BitsInv, MotorRight
  <1>9. ~ Starting
    BY <1>6, Apart DEF PhasesApart
  <1>10. DOMAIN listeners = SwitchEvents /\ Registered
    <2>1. Append(<<>>, "Switch_control") = <<"Switch_control">>
      OBVIOUS
    <2>2. /\ DOMAIN listeners = SwitchEvents /\ listeners["TIMER_SWITCH_OUT"] = <<>>
          /\ listeners["SWITCH_OPEN"] = Append(<<>>, "Switch_control")
      BY <1>1 DEF AddListener, SwitchEvents
    <2> QED BY <1>1, <2>1, <2>2 DEF Registered
  <1>11. TimedInv
    BY <1>1 DEF TimedInv
  <1>12. CountInv
    <2>1. {k \in DOMAIN queue : queue[k] = "TIMER_SWITCH_OUT"} = {}
      BY <1>1, <1>2
    <2>2. Count(queue, "TIMER_SWITCH_OUT") = 0
      BY <2>1, FS_EmptySet DEF Count
    <2>3. One(timed) = 0
      BY <1>1 DEF One
    <2> QED BY <1>1, <2>2, <2>3 DEF CountInv
  <1> QED BY <1>3, <1>6, <1>7, <1>8, <1>10, <1>11, <1>12 DEF Inv, PortInv, SwitchInv

\* A stuttering step.
LEMMA StutterKeeps ==
    ASSUME Inv, UNCHANGED vars
    PROVE  Inv'
  <1>1. /\ UNCHANGED <<switchVars, queue, todo, bl_threads, blinking, signal, commanded>>
        /\ switch' = switch /\ listeners' = listeners /\ timed' = timed
        /\ others' = others /\ strays' = strays
        /\ queue' = queue /\ signal' = signal /\ commanded' = commanded /\ todo' = todo
        /\ port' = port /\ bo_mtx' = bo_mtx /\ read' = read /\ late' = late
        /\ bl_threads' = bl_threads /\ blinking' = blinking
    BY DEF vars, switchVars, portVars, lampVars
  <1>2. TypeOK /\ WorkInv /\ ReadInv /\ ThreadsInv /\ BitsInv /\ SwitchInv
    BY DEF Inv, PortInv
  <1>3. TypeOK'
    BY <1>1, <1>2 DEF TypeOK
  <1>4. WorkInv'
    <2>1. \A C \in SUBSET Colours : Lit(C) => Lit(C)'
      BY <1>1, LitKept
    <2>2. \A c : Dying(c) => Dying(c)'
      BY <1>1 DEF Dying
    <2> QED BY <1>1, <1>2, <2>1, <2>2, SamePort, WorkKept
  <1>5. BitsInv'
    BY <1>1, <1>2, SamePort, BitsKept
  <1>6. ReadInv' /\ ThreadsInv'
    BY <1>1, <1>2 DEF ReadInv, ThreadsInv
  <1>7. SwitchInv'
    BY <1>1, <1>2, SwitchWorkKept, SwitchKept
  <1> QED BY <1>3, <1>4, <1>5, <1>6, <1>7 DEF Inv, PortInv

\* Every step keeps it.
LEMMA NextInv == Inv /\ [Next]_vars => Inv'
  <1> SUFFICES ASSUME Inv, [Next]_vars
               PROVE  Inv'
    OBVIOUS
  <1>1. CASE LockPort
    <2>1. /\ BeginChange(Dispatcher) /\ Dispatcher \in Threads \cup {Dispatcher}
          /\ todo # <<>> /\ Head(todo).do \in {"set", "clear"}
          /\ UNCHANGED <<switchVars, queue, todo, lampVars, signal, commanded>>
      BY <1>1 DEF LockPort, Doing
    <2> QED BY <2>1, BeginKeeps
  <1>2. ASSUME NEW t \in Threads, BlinkLock(t)
        PROVE  Inv'
    <2>1. /\ BeginChange(t) /\ t \in Threads \cup {Dispatcher} /\ t # Dispatcher
          /\ UNCHANGED <<switchVars, queue, todo, lampVars, signal, commanded>>
      BY <1>2, ThreadsAre DEF BlinkLock
    <2> QED BY <2>1, BeginKeeps
  <1>3. CASE WritePort
    BY <1>3, WriteKeeps
  <1>4. CASE DoBlink
    BY <1>4, DoBlinkKeeps
  <1>5. CASE StartThread
    BY <1>5, StartThreadKeeps
  <1>6. CASE DestroyThread
    BY <1>6, DestroyThreadKeeps
  <1>7. CASE StartSwitchTimer
    BY <1>7, StartTimerKeeps
  <1>8. CASE Dispatch
    BY <1>8, DispatchMotorKeeps, DispatchLightKeeps, DispatchSwitchOpenKeeps, DispatchTimerKeeps
       DEF Dispatch
  <1>9. ASSUME NEW t \in Threads, BlinkWrite(t)
        PROVE  Inv'
    BY <1>9, BlinkWriteKeeps
  <1>10. CASE Expire
    BY <1>10, ExpireKeeps
  <1>11. ASSUME NEW e \in Inputs, Post(e)
         PROVE  Inv'
    BY <1>11, PostKeeps
  <1>12. CASE UNCHANGED vars
    BY <1>12, StutterKeeps
  <1>13. CASE LockAround
    BY <1>13, LockAroundKeeps
  <1>14. CASE UnlockAround
    BY <1>14, UnlockAroundKeeps
  <1> QED BY <1>1, <1>2, <1>3, <1>4, <1>5, <1>6, <1>7, <1>8, <1>9, <1>10, <1>11, <1>12, <1>13, <1>14
          DEF Next, InsideHandler

\* The inductive invariant holds in every state that can be reached.
THEOREM PortInvariant == Spec => []Inv
  BY InitInv, NextInv, PTL DEF Spec

\* Every variable keeps its type; in particular the number of timers and
\* pulses that belong to no opening never falls below zero.
THEOREM PortTypeCorrect == Spec => []TypeOK
  <1>1. Inv => TypeOK
    BY DEF Inv
  <1> QED BY <1>1, PortInvariant, PTL

\* Switch_control is registered once, and for the events of its state, though
\* remListeners() skips an element behind each one it erases.
THEOREM SwitchRegistered == Spec => []Registered
  <1>1. Inv => Registered
    BY DEF Inv, SwitchInv
  <1> QED BY <1>1, PortInvariant, PTL

\* When a handler has run, what is set is what LitLights and PortFollows say.
LEMMA InvAtRest ==
    ASSUME Inv, AtRest
    PROVE  /\ LightPhase /\ Lit(Colours) /\ ~ Starting
           /\ MotorRight /\ ("OPEN_BIT" \in port <=> switch = "Open")
  <1>1. WorkInv /\ BitsInv /\ todo = <<>>
    BY DEF Inv, PortInv, AtRest
  <1>2. ~ MotorPhase /\ ~ SwitchPhase
    BY <1>1, Apart DEF PhasesApart
  <1>3. LightPhase
    BY <1>1, <1>2 DEF WorkInv
  <1>4. \A what, of, s : ~ Next1(what, of, s)
    BY <1>1 DEF Next1
  <1>5. ~ ClearPhase /\ ~ BlinkPhase
    BY <1>4, ClearCases, BlinkCases
  <1> QED BY <1>1, <1>3, <1>5, Apart DEF LightPhase, PhasesApart, BitsInv

\* An open switch is closed some day: no opening is ever without its timer or
\* a pulse that closes it, however often the switch is opened again.
THEOREM OpeningTimed == Spec => []OpenIsTimed
  <1>1. Inv => OpenIsTimed
    BY InvAtRest DEF OpenIsTimed, Inv, SwitchInv, TimedInv
  <1> QED BY <1>1, PortInvariant, PTL

\* The mutex protects every change of the byte, though clear_set() gives it up
\* after its first bit and unlocks it unheld: no handler's bit is lost to a
\* blink thread, wherever that thread is when it is destroyed.
THEOREM PortIsFollowed == Spec => []PortFollows
  <1>1. Inv => PortFollows
    BY InvAtRest DEF PortFollows, MotorRight
  <1> QED BY <1>1, PortInvariant, PTL

\* Signal_light knows every thread that blinks: none blinks for ever.
THEOREM OneBlinker == Spec => []OneBlinkerPerLight
  <1>1. Inv => OneBlinkerPerLight
    BY DEF Inv, PortInv, ThreadsInv, OneBlinkerPerLight
  <1> QED BY <1>1, PortInvariant, PTL

\* A light that nobody asked for is one set between the two halves of the
\* destructor of its thread.
THEOREM LightsExplained == Spec => []LitLights
  <1>1. Inv => LitLights
    BY InvAtRest DEF LitLights, Lit
  <1> QED BY <1>1, PortInvariant, PTL

\* Only TIMER_SWITCH_OUT closes the switch.
LEMMA OnlyTimerCloses ==
    ASSUME Inv, [Next]_vars, switch = "Open", switch' = "Close"
    PROVE  DispatchTimerSwitchOut
  <1>1. switch' # switch
    OBVIOUS
  <1>2. ~ LockPort /\ ~ WritePort /\ ~ DoBlink /\ ~ StartThread /\ ~ DestroyThread
    BY <1>1 DEF LockPort, WritePort, DoBlink, StartThread, DestroyThread, switchVars
  <1>3. ~ StartSwitchTimer /\ ~ LockAround /\ ~ UnlockAround
    BY <1>1 DEF StartSwitchTimer, LockAround, UnlockAround, switchVars
  <1>4. \A t \in Threads : ~ BlinkLock(t) /\ ~ BlinkWrite(t)
    BY <1>1 DEF BlinkLock, BlinkWrite, switchVars
  <1>5. ~ Expire /\ \A e \in Inputs : ~ Post(e)
    BY <1>1 DEF Expire, TimerOut, Post
  <1>6. /\ \A e \in MotorEvents : ~ DispatchMotor(e)
        /\ \A e \in LightEvents : ~ DispatchLight(e)
    BY <1>1 DEF DispatchMotor, DispatchLight, switchVars
  <1>7. ~ DispatchSwitchOpen
    BY DEF DispatchSwitchOpen, OpenSwitch, OpenAgain
  <1>8. ~ UNCHANGED vars
    BY <1>1 DEF vars, switchVars
  <1> QED BY <1>2, <1>3, <1>4, <1>5, <1>6, <1>7, <1>8 DEF Next, InsideHandler, Dispatch

\* A pulse in the queue is the timer's, or a stray is about.
LEMMA StrayOrTimer ==
    ASSUME Inv, DispatchTimerSwitchOut, switch = "Open"
    PROVE  ~ timed \/ strays > 0
  <1> DEFINE out == "TIMER_SWITCH_OUT"
             n == Count(queue, out)
             n1 == Count(queue', out)
  <1>1. Receive(out)
    BY DEF DispatchTimerSwitchOut
  <1>2. /\ n = n1 + One(out = "TIMER_SWITCH_OUT") /\ n1 \in Nat /\ ~ Starting
    BY <1>1, Received
  <1>3. n = n1 + 1
    BY <1>2 DEF One
  <1>4. n + others = strays + One(~ timed)
    BY <1>2 DEF Inv, SwitchInv, CountInv
  <1>5. others \in Nat /\ strays \in Nat
    BY DEF Inv, TypeOK
  <1> HIDE DEF n, n1
  <1>6. CASE timed
    <2>1. One(~ timed) = 0
      BY <1>6 DEF One
    <2>2. strays > 0
      BY <1>2, <1>3, <1>4, <1>5, <2>1
    <2> QED BY <2>2
  <1> QED BY <1>6

\* The switch does not close under a puk: it closes when the timer of its last
\* opening has run out, unless there is a pulse that belongs to no opening.
THEOREM SwitchClosesOnTime == Spec => ClosesOnTime
  <1>1. Inv /\ [Next]_vars => [switch = "Open" /\ switch' = "Close" => ~ timed \/ strays > 0]_vars
    BY OnlyTimerCloses, StrayOrTimer
  <1> QED BY <1>1, PortInvariant, PTL DEF Spec, ClosesOnTime
=============================================================================
