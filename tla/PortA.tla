------------------------------- MODULE PortA -------------------------------
(***************************************************************************)
(* Port A of the belt: one byte whose bits steer the motor, open the       *)
(* switch and light the lamp.  They are changed by reading the byte,       *)
(* changing it and writing it back, under the mutex bo_mtx, by the         *)
(* dispatcher thread and by one thread for each light that blinks.  The    *)
(* dispatcher thread starts the blink threads and destroys them wherever   *)
(* they are: one destroyed while it holds bo_mtx leaves it locked for ever.*)
(*                                                                         *)
(* The direction of the motor is changed by clear_set(), which locks the   *)
(* mutex around two changes that lock and unlock it themselves.  A mutex   *)
(* of QNX refuses both the relock by its owner and the unlock by another,  *)
(* and nobody looks at what they return.                                   *)
(*                                                                         *)
(* HAWThread::stop(), which sets a flag that the blink threads do not      *)
(* read, is left out.                                                      *)
(***************************************************************************)
EXTENDS SwitchControl

CONSTANTS
    Inputs,        \* the events posted from outside
    MaxQueue,      \* they are posted while fewer pulses than this wait,
    MaxOthers,     \* and SWITCH_OPEN while this few forgotten timers run
    Threads        \* identities of blink threads

Colours == {"GREEN", "YELLOW", "RED"}
Bits == {"RIGHT_BIT", "LEFT_BIT", "SLOW_BIT", "STOP_BIT", "OPEN_BIT"} \cup Colours
\* Each stands for the pulses that make Motorcontroler enter one of its states:
\* Stop, Idle and Stop_Error; Normal; Slow.
MotorEvents == {"MOTOR_STOP", "MOTOR_NORMAL", "MOTOR_SLOW"}
LightEvents == {"TRAFFIC_LIGHT_NORMAL", "TRAFFIC_LIGHT_UNACK_ERROR",
                "TRAFFIC_LIGHT_ACKED_ERROR", "TRAFFIC_LIGHT_RDY",
                "TRAFFIC_LIGHT_NEW_PUK"}
PortEvents == MotorEvents \cup LightEvents \cup SwitchEvents

ASSUME InputsAssumption == Inputs \subseteq PortEvents
ASSUME MaxQueueAssumption == MaxQueue \in Nat
ASSUME MaxOthersAssumption == MaxOthers \in Nat
\* There is an identity for one more thread, whatever blinks.
ASSUME ThreadsAssumption ==
    /\ Threads \subseteq Nat \ {0}
    /\ \E t, u, v \in Threads : t # u /\ u # v /\ t # v

VARIABLES
    queue,        \* the pulses waiting for the dispatcher
    todo,         \* what is left to do of the handler that runs
    port,         \* the bits that are set
    bo_mtx,       \* the thread that holds the mutex
    read,         \* what each thread that is changing the port has read
    bl_threads,   \* the blink thread of each colour, or NoThread
    blinking,     \* the threads there are: colour, rate, and what comes next
    signal,       \* the lamp signal handled last, TRAFFIC_LIGHT_NEW_PUK apart
    commanded,    \* the motor command handled last
    late          \* lights lit by a thread about to be destroyed

portVars == <<port, bo_mtx, read, late>>
lampVars == <<bl_threads, blinking>>
vars == <<switchVars, queue, todo, portVars, lampVars, signal, commanded>>

NoThread == 0
Dispatcher == -1
Unheld == -2
Dead == -3      \* a thread that has been destroyed

Init ==
    /\ SwitchInit
    /\ queue = <<>> /\ todo = <<>>
    /\ port = {"STOP_BIT"} /\ commanded = "MOTOR_STOP"
    /\ bo_mtx = Unheld /\ read = <<>>
    /\ bl_threads = [c \in Colours |-> NoThread]
    /\ blinking = <<>>
    /\ signal = "none" /\ late = {}

-----------------------------------------------------------------------------
\* What a handler does to the port and to threads, one thing after the other.
Do(what, of) == <<[do |-> what, of |-> of]>>
Set(bit) == Do("set", bit)
Clear(bit) == Do("clear", bit)

\* clear_set(): its own lock and unlock around clear_bit() and set_bit().
clear_set(c, s) == Do("lock", "bo_mtx") \o Clear(c) \o Set(s) \o Do("unlock", "bo_mtx")

\* The methods of Motor.
start == Set("RIGHT_BIT") \o Clear("STOP_BIT")
stop == Set("STOP_BIT")
go_right == clear_set("LEFT_BIT", "RIGHT_BIT")
go_fast == Clear("SLOW_BIT")
go_slow == Set("SLOW_BIT")

\* The entry actions of Motorcontroler.
MotorWork(e) ==
    CASE e = "MOTOR_STOP" -> stop
      [] e = "MOTOR_NORMAL" -> start \o go_right \o go_fast
      [] e = "MOTOR_SLOW" -> start \o go_right \o go_slow

clear_all_lights == Clear("RED") \o Clear("YELLOW") \o Clear("GREEN")

\* stop_blink(): the destructor of the blink thread switches its light off,
\* that of HAWThread then destroys it.  A variant that leaves the light alone:
stop_blink_StaysLit(c) ==
    IF bl_threads[c] = NoThread THEN <<>> ELSE Do("destroy", c)
stop_blink(c) ==
    IF bl_threads[c] = NoThread THEN <<>> ELSE Clear(c) \o Do("destroy", c)

\* A variant that forgets a colour:
stop_all_blinks_NotRed == stop_blink("YELLOW") \o stop_blink("GREEN")
stop_all_blinks == stop_blink("RED") \o stop_blink("YELLOW") \o stop_blink("GREEN")

\* The rate of the red light.
Hz == IF signal = "TRAFFIC_LIGHT_ACKED_ERROR" THEN 500000 ELSE 1000000

\* blink(): all its branches look at the green thread before they stop theirs.
blink(c) ==
    IF bl_threads["GREEN"] # NoThread THEN stop_blink(c) \o Do("start", c)
    ELSE IF \/ bl_threads[c] = NoThread
            \/ c = "RED" /\ blinking[bl_threads[c]].hz # Hz
    THEN Do("start", c)
    ELSE <<>>

\* The handlers of Signal_light.
LightWork(e) ==
    IF e = "TRAFFIC_LIGHT_NEW_PUK" THEN Do("blink", "YELLOW")
    ELSE clear_all_lights \o stop_all_blinks \o
         CASE e = "TRAFFIC_LIGHT_NORMAL" -> Set("GREEN")
           [] e = "TRAFFIC_LIGHT_RDY" -> Set("GREEN") \o Do("blink", "GREEN")
           [] e = "TRAFFIC_LIGHT_UNACK_ERROR" -> Set("RED") \o Do("blink", "RED")
           [] e = "TRAFFIC_LIGHT_ACKED_ERROR" -> Do("blink", "RED")

\* The lights a signal leaves on for good.
Steady == IF signal = "TRAFFIC_LIGHT_NORMAL" THEN {"GREEN"} ELSE {}

-----------------------------------------------------------------------------
\* set_bit() and clear_bit() of Hal_component: lock and read, then write and
\* unlock.  A thread waits for the mutex unless it is free or its own.  A
\* variant without the mutex:
MayLock_Always(t) == TRUE
MayLock(t) == bo_mtx \in {Unheld, t}

BeginChange(t) ==
    /\ MayLock(t)
    /\ t \notin DOMAIN read
    /\ bo_mtx' = t
    /\ read' = [u \in DOMAIN read \cup {t} |-> IF u = t THEN port ELSE read[u]]
    /\ UNCHANGED <<port, late>>

\* The mutex after an unlock by t, at the end of a change or of clear_set():
\* only its owner gives it up.  Two variants, one in which clear_bit() forgets
\* to unlock and one with a lock that anyone may open:
Unlocked_NotByClear(t, what) == IF what # "clear" /\ bo_mtx = t THEN Unheld ELSE bo_mtx
Unlocked_ByAnyone(t, what) == IF bo_mtx = Dead THEN Dead ELSE Unheld
Unlocked(t, what) == IF bo_mtx = t THEN Unheld ELSE bo_mtx

\* A light that a thread sets after the destructor has cleared it stays on.
EndChange(t, what, bit) ==
    /\ t \in DOMAIN read
    /\ port' = IF what = "set" THEN read[t] \cup {bit} ELSE read[t] \ {bit}
    /\ bo_mtx' = Unlocked(t, what)
    /\ read' = [u \in DOMAIN read \ {t} |-> read[u]]
    /\ late' = IF /\ t # Dispatcher /\ what = "set"
                  /\ todo # <<>> /\ Head(todo) = [do |-> "destroy", of |-> bit]
               THEN late \cup {bit} ELSE late \ {bit}

\* The dispatcher thread, inside a handler.
Doing(what) == todo # <<>> /\ Head(todo).do = what

LockPort ==
    /\ Doing("set") \/ Doing("clear")
    /\ BeginChange(Dispatcher)
    /\ UNCHANGED <<switchVars, queue, todo, lampVars, signal, commanded>>

WritePort ==
    /\ Doing("set") \/ Doing("clear")
    /\ EndChange(Dispatcher, Head(todo).do, Head(todo).of)
    /\ todo' = Tail(todo)
    /\ UNCHANGED <<switchVars, queue, lampVars, signal, commanded>>

\* The lock of clear_set() and, when clear_bit() has given the mutex up and
\* set_bit() has taken and given it up once more, its unlock.
LockAround ==
    /\ Doing("lock")
    /\ MayLock(Dispatcher)
    /\ bo_mtx' = Dispatcher
    /\ todo' = Tail(todo)
    /\ UNCHANGED <<switchVars, queue, port, read, late, lampVars, signal, commanded>>

UnlockAround ==
    /\ Doing("unlock")
    /\ bo_mtx' = Unlocked(Dispatcher, "unlock")
    /\ todo' = Tail(todo)
    /\ UNCHANGED <<switchVars, queue, port, read, late, lampVars, signal, commanded>>

DoBlink ==
    /\ Doing("blink")
    /\ todo' = blink(Head(todo).of) \o Tail(todo)
    /\ UNCHANGED <<switchVars, queue, portVars, lampVars, signal, commanded>>

StartThread ==
    LET c == Head(todo).of
        t == CHOOSE u \in Threads : u \notin DOMAIN blinking
    IN  /\ Doing("start")
        /\ bl_threads' = [bl_threads EXCEPT ![c] = t]
        /\ blinking' = [u \in DOMAIN blinking \cup {t} |->
                          IF u = t THEN [colour |-> c, hz |-> Hz, next |-> "set"]
                          ELSE blinking[u]]
        /\ todo' = Tail(todo)
        /\ UNCHANGED <<switchVars, queue, portVars, signal, commanded>>

\* ThreadDestroy(): whatever the thread has read is gone, the mutex is not.
DestroyThread ==
    LET c == Head(todo).of
        gone == bl_threads[c]
    IN  /\ Doing("destroy")
        /\ bl_threads' = [bl_threads EXCEPT ![c] = NoThread]
        /\ blinking' = [t \in DOMAIN blinking \ {gone} |-> blinking[t]]
        /\ read' = [t \in DOMAIN read \ {gone} |-> read[t]]
        /\ bo_mtx' = IF bo_mtx = gone THEN Dead ELSE bo_mtx
        /\ todo' = Tail(todo)
        /\ UNCHANGED <<switchVars, queue, port, late, signal, commanded>>

StartSwitchTimer ==
    /\ Doing("start_timer")
    /\ start_timer
    /\ todo' = Tail(todo)
    /\ UNCHANGED <<switch, listeners, strays, queue, portVars, lampVars, signal, commanded>>

-----------------------------------------------------------------------------
\* The dispatcher thread takes the next pulse.
Receive(e) ==
    /\ todo = <<>>
    /\ queue # <<>> /\ Head(queue) = e
    /\ queue' = Tail(queue)
    /\ UNCHANGED <<portVars, lampVars>>

DispatchMotor(e) ==
    /\ Receive(e)
    /\ commanded' = e
    /\ todo' = MotorWork(e)
    /\ UNCHANGED <<switchVars, signal>>

DispatchLight(e) ==
    /\ Receive(e)
    /\ signal' = IF e = "TRAFFIC_LIGHT_NEW_PUK" THEN signal ELSE e
    /\ todo' = LightWork(e)
    /\ UNCHANGED <<switchVars, commanded>>

DispatchSwitchOpen ==
    /\ Receive("SWITCH_OPEN")
    /\ \/ OpenSwitch /\ todo' = Set("OPEN_BIT") \o Do("start_timer", "switch")
       \/ OpenAgain /\ todo' = <<>>
    /\ UNCHANGED <<signal, commanded>>

DispatchTimerSwitchOut ==
    /\ Receive("TIMER_SWITCH_OUT")
    /\ IF listeners["TIMER_SWITCH_OUT"] = <<>>
       THEN TimerUnheard /\ todo' = <<>>
       ELSE CloseSwitch /\ todo' = Clear("OPEN_BIT")
    /\ UNCHANGED <<signal, commanded>>

-----------------------------------------------------------------------------
\* A blink thread: set, sleep, clear, sleep.
BlinkLock(t) ==
    /\ t \in DOMAIN blinking
    /\ BeginChange(t)
    /\ UNCHANGED <<switchVars, queue, todo, lampVars, signal, commanded>>

BlinkWrite(t) ==
    /\ t \in DOMAIN blinking
    /\ EndChange(t, blinking[t].next, blinking[t].colour)
    /\ blinking' = [blinking EXCEPT ![t].next = IF @ = "set" THEN "clear" ELSE "set"]
    /\ UNCHANGED <<switchVars, queue, todo, bl_threads, signal, commanded>>

\* The tick thread: a timer of the switch runs out.
Expire ==
    /\ TimerOut
    /\ queue' = Append(queue, "TIMER_SWITCH_OUT")
    /\ UNCHANGED <<todo, portVars, lampVars, signal, commanded>>

\* Other components post pulses.  While a handler runs nobody looks at the
\* queue, so that a pulse posted meanwhile might as well come after it.  A puk
\* that leaves belt 3 posts TIMER_SWITCH_OUT.
Post(e) ==
    /\ todo = <<>>
    /\ Len(queue) < MaxQueue
    /\ e = "SWITCH_OPEN" => others <= MaxOthers
    /\ queue' = Append(queue, e)
    /\ strays' = IF e = "TIMER_SWITCH_OUT" THEN strays + 1 ELSE strays
    /\ UNCHANGED <<switch, listeners, timed, others, todo, portVars, lampVars, signal, commanded>>

InsideHandler ==
    \/ LockPort \/ WritePort \/ LockAround \/ UnlockAround
    \/ DoBlink \/ StartThread \/ DestroyThread \/ StartSwitchTimer

Dispatch ==
    \/ \E e \in MotorEvents : DispatchMotor(e)
    \/ \E e \in LightEvents : DispatchLight(e)
    \/ DispatchSwitchOpen
    \/ DispatchTimerSwitchOut

Next ==
    \/ InsideHandler
    \/ Dispatch
    \/ \E t \in Threads : BlinkLock(t) \/ BlinkWrite(t)
    \/ Expire
    \/ \E e \in Inputs : Post(e)

\* The dispatcher thread runs while it can.  A mutex of QNX goes to the thread
\* that waits for it when it is unlocked, and a blink thread sleeps between
\* two changes: the dispatcher gets the mutex if it is free again and again.
\* A blink thread in a change finishes it, and a timer runs out.
Fairness ==
    /\ WF_vars(Dispatch \/ InsideHandler)
    /\ SF_vars(LockPort)
    /\ SF_vars(LockAround)
    /\ \A t \in Threads : WF_vars(BlinkWrite(t))
    /\ WF_vars(Expire)

Spec == Init /\ [][Next]_vars /\ Fairness

-----------------------------------------------------------------------------
TypeOK ==
    /\ switch \in {"Close", "Open"}
    /\ timed \in BOOLEAN /\ others \in Nat /\ strays \in Nat
    /\ queue \in Seq(PortEvents)
    /\ port \subseteq Bits
    /\ bo_mtx \in Threads \cup {Dispatcher, Unheld, Dead}
    /\ DOMAIN read \subseteq {bo_mtx} /\ \A t \in DOMAIN read : read[t] \subseteq Bits
    /\ bl_threads \in [Colours -> Threads \cup {NoThread}]
    /\ DOMAIN blinking \subseteq Threads
    /\ \A t \in DOMAIN blinking :
           blinking[t] \in [colour : Colours, hz : {500000, 1000000}, next : {"set", "clear"}]
    /\ signal \in LightEvents \cup {"none"}
    /\ commanded \in MotorEvents /\ late \subseteq Colours

AtRest == todo = <<>>

\* An open switch is closed some day: the timer of its last opening runs, or
\* a pulse that will close it is in the queue.
OpenIsTimed ==
    AtRest /\ switch = "Open" =>
        \/ timed
        \/ \E k \in DOMAIN queue : queue[k] = "TIMER_SWITCH_OUT"

\* The switch does not close before the timer of its last opening has run out,
\* unless a pulse that belongs to no opening is about: one posted by a puk that
\* leaves belt 3, or one that was queued when the switch was opened again.
ClosesOnTime ==
    [][switch = "Open" /\ switch' = "Close" => ~ timed \/ strays > 0]_vars

\* No change of the port is lost to a change of another bit, wherever
\* clear_set() gives the mutex up: after a handler, the motor and the switch
\* are as they were last told to be.
PortFollows ==
    AtRest =>
        /\ "STOP_BIT" \in port <=> commanded = "MOTOR_STOP"
        /\ commanded # "MOTOR_STOP" =>
               /\ "SLOW_BIT" \in port <=> commanded = "MOTOR_SLOW"
               /\ "RIGHT_BIT" \in port /\ "LEFT_BIT" \notin port
        /\ "OPEN_BIT" \in port <=> switch = "Open"

\* A light has one blink thread at most, and Signal_light can reach it: none
\* goes on blinking that no handler can stop.
OneBlinkerPerLight ==
    AtRest => \A t \in DOMAIN blinking : bl_threads[blinking[t].colour] = t

\* A light that is on was switched on by the last signal or is blinking; the
\* exception is one set between the two halves of the thread's destructor.
LitLights ==
    AtRest => \A c \in port \cap Colours :
        c \in Steady \/ bl_threads[c] # NoThread \/ c \in late

\* A stop of the motor that has been posted reaches the port, whatever blinks,
\* provided no thread is destroyed while it holds the mutex, which nothing in
\* the code rules out: then the dispatcher waits for ever (HAWThread.cpp:31).
StopPosted == \E k \in DOMAIN queue : queue[k] = "MOTOR_STOP"
StopReachesMotor == [](bo_mtx # Dead) => (StopPosted ~> "STOP_BIT" \in port)
=============================================================================
