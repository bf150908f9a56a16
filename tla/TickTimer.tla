----------------------------- MODULE TickTimer -----------------------------
(***************************************************************************)
(* Class Tick_timer: a list of timers that two threads share.  Handlers in *)
(* the dispatcher thread start, stop and read timers and set the speed;    *)
(* the tick thread wakes every 10 ms and, unless the belt stands, counts   *)
(* every timer down by the distance the belt moves in that time.           *)
(*                                                                         *)
(* The list is guarded by vector_access_mtx.  A thread that locks a mutex  *)
(* it holds already is told so by QNX (EDEADLK) and goes on, since no      *)
(* caller looks at the result; one unlock then frees the mutex.            *)
(***************************************************************************)
EXTENDS Integers, Sequences, SequencesExt

CONSTANTS
    Fast, Slow,    \* MOTOR_FAST_VALUE and MOTOR_SLOW_VALUE
    Durations,     \* the durations timers are started with
    MaxTimers      \* so many timers are started

ASSUME SpeedAssumption == Slow \in Nat \ {0} /\ Fast \in Nat /\ Slow <= Fast
ASSUME DurationAssumption ==
    /\ Durations \subseteq Nat \ {0}
    /\ \E longest \in Durations : \A d \in Durations : d <= longest
ASSUME MaxTimersAssumption == MaxTimers \in Nat

VARIABLES
    timers,    \* timer_vector; left is the member duration, which counts down
    lastId,    \* the static id of start_timer()
    lock,      \* who holds vector_access_mtx
    step,      \* the distance per tick
    tick,      \* what the tick thread is doing
    pos,       \* its loop variable i, counted from 1
    sent,      \* timers whose pulse has been sent
    stopped,   \* timers stop_timer() has taken from the list
    full       \* what would be left of each had every tick been a fast one

callVars == <<lastId, stopped>>
tickVars == <<tick, pos, sent>>
vars == <<timers, lock, step, full, callVars, tickVars>>

Ids == 1..MaxTimers
NoTimer == 0     \* the -1 of timer ids that were never set
Listed(id) == \E k \in DOMAIN timers : timers[k].id = id

Init ==
    /\ timers = <<>> /\ lastId = 0 /\ lock = "free"
    /\ step = 0
    /\ tick = "waiting" /\ pos = 1
    /\ sent = {} /\ stopped = {}
    /\ full = [id \in Ids |-> 0]

-----------------------------------------------------------------------------
\* The dispatcher thread.  Its calls hold the mutex throughout, so that each
\* is one step.

DispatcherMayLock == lock \in {"free", "dispatcher"}

start_timer(d) ==
    /\ lastId < MaxTimers
    /\ DispatcherMayLock
    /\ lastId' = lastId + 1
    /\ timers' = Append(timers, [id |-> lastId', left |-> d])
    /\ full' = [full EXCEPT ![lastId'] = d]
    /\ lock' = "free"
    /\ UNCHANGED <<step, stopped, tickVars>>

\* find_timer(), of a timer in the list.
find_timer(id) ==
    CHOOSE k \in DOMAIN timers :
        timers[k].id = id /\ \A j \in 1..(k - 1) : timers[j].id # id

\* stop_timer() of a timer in the list.
StopListed(id) ==
    /\ Listed(id)
    /\ DispatcherMayLock
    /\ timers' = RemoveAt(timers, find_timer(id))
    /\ stopped' = stopped \cup {id}
    /\ lock' = "free"
    /\ UNCHANGED <<lastId, step, full, tickVars>>

\* stop_timer() and get_duration() of a timer that has run out, was stopped
\* before or never started: they return without unlocking.
CallMissing(id) ==
    /\ ~ Listed(id)
    /\ DispatcherMayLock
    /\ lock' = "dispatcher"
    /\ UNCHANGED <<timers, step, full, callVars, tickVars>>

\* get_duration() of a timer in the list.  It reads the vector once more after
\* the unlock; its only caller asks no more than whether the timer exists.
GetListed(id) ==
    /\ Listed(id)
    /\ DispatcherMayLock
    /\ lock' = "free"
    /\ UNCHANGED <<timers, step, full, callVars, tickVars>>

\* SPEED_NORMAL(), SPEED_SLOW() and SPEED_STOP() do not lock.
SetSpeed(s) ==
    /\ step' = s
    /\ UNCHANGED <<timers, lock, full, callVars, tickVars>>

-----------------------------------------------------------------------------
\* The tick thread, execute().

\* A variant in which only a fast belt counts:
TickDue_FastOnly == step = Fast
TickDue == step # 0

Tick ==
    /\ tick = "waiting"
    /\ TickDue
    /\ tick' = "locking"
    /\ UNCHANGED <<timers, lock, step, full, callVars, pos, sent>>

\* A variant that does not wait for the mutex:
TickLock_Barging ==
    /\ tick = "locking"
    /\ tick' = "counting" /\ pos' = 1
    /\ full' = [id \in Ids |-> IF full[id] > Fast THEN full[id] - Fast ELSE 0]
    /\ UNCHANGED <<timers, lock, step, callVars, sent>>

TickLock ==
    /\ tick = "locking"
    /\ lock = "free"
    /\ lock' = "tick"
    /\ tick' = "counting" /\ pos' = 1
    /\ full' = [id \in Ids |-> IF full[id] > Fast THEN full[id] - Fast ELSE 0]
    /\ UNCHANGED <<timers, step, callVars, sent>>

\* Has a timer with so much left run out?  A variant that is off by one:
RunOut_Negative(left) == left < 0
RunOut(left) == left <= 0

\* One timer is counted down; the speed is read anew for each.
TickCount ==
    /\ tick = "counting" /\ pos <= Len(timers)
    /\ timers' = [timers EXCEPT ![pos].left = @ - step]
    /\ IF RunOut(timers[pos].left - step)
       THEN /\ sent' = sent \cup {timers[pos].id}
            /\ tick' = "erasing"
            /\ UNCHANGED pos
       ELSE /\ pos' = pos + 1
            /\ UNCHANGED <<tick, sent>>
    /\ UNCHANGED <<lock, step, full, callVars>>

\* The loop variable after an erase: it is incremented all the same, so that
\* the next timer is not counted in this tick.  A variant that starts over:
PosAfterErase_Restart == 1
PosAfterErase == pos + 1

TickErase ==
    /\ tick = "erasing"
    /\ timers' = RemoveAt(timers, pos)
    /\ pos' = PosAfterErase
    /\ tick' = "counting"
    /\ UNCHANGED <<lock, step, full, callVars, sent>>

TickUnlock ==
    /\ tick = "counting" /\ pos > Len(timers)
    /\ lock' = "free"
    /\ tick' = "waiting" /\ pos' = 1
    /\ UNCHANGED <<timers, step, full, callVars, sent>>

TickThread == Tick \/ TickLock \/ TickCount \/ TickErase \/ TickUnlock

Next ==
    \/ \E d \in Durations : start_timer(d)
    \/ \E id \in Ids : StopListed(id)
    \/ \E id \in Ids \cup {NoTimer} : CallMissing(id)
    \/ \E id \in Ids : GetListed(id)
    \/ \E s \in {0, Slow, Fast} : SetSpeed(s)
    \/ TickThread

\* The clock keeps ticking; nobody has to call.  QNX hands a mutex that is
\* unlocked to the thread that waits for it.
Spec == Init /\ [][Next]_vars /\ WF_vars(TickThread) /\ SF_vars(TickLock)

-----------------------------------------------------------------------------
\* Properties.

MaxDuration == CHOOSE d \in Durations : \A e \in Durations : e <= d

TypeOK ==
    /\ timers \in Seq([id : Ids, left : (1 - Fast)..MaxDuration])
    /\ lastId \in 0..MaxTimers
    /\ lock \in {"free", "dispatcher", "tick"}
    /\ step \in {0, Slow, Fast}
    /\ tick \in {"waiting", "locking", "counting", "erasing"}
    /\ pos \in 1..(2 * MaxTimers + 1)
    /\ sent \subseteq Ids /\ stopped \subseteq Ids
    /\ full \in [Ids -> 0..MaxDuration]

\* Every timer that was started is in the list once, or has sent its pulse, or
\* was stopped, and never two of these: the two threads lose no timer, and a
\* timer that stop_timer() found stays silent (tick_timer.cpp:36-56, 122-191).
OneFate ==
    \A id \in 1..lastId :
        LET places == {k \in DOMAIN timers : timers[k].id = id}
            dying == tick = "erasing" /\ pos \in places
        IN  \/ id \in sent /\ id \notin stopped /\ (places = {} \/ dying)
            \/ id \in stopped /\ id \notin sent /\ places = {}
            \/ id \notin sent \cup stopped /\ \E k \in places : places = {k}

\* A timer does not run out before the belt can have moved its duration: no
\* tick counts it twice, whatever the speed does meanwhile.
NeverEarly ==
    \A k \in DOMAIN timers : timers[k].left <= 0 => full[timers[k].id] = 0

\* While the belt moves and the dispatcher thread does not keep the mutex for
\* ever, every timer runs out or is stopped, although the speed changes, other
\* timers start and expire beside it and each erase skips one
\* (tick_timer.cpp:122-191).
RunsOutUnlessLeaked ==
    <>[](step # 0) /\ []<>(lock # "dispatcher")
        => \A id \in Ids : Listed(id) ~> ~ Listed(id)

\* What the comment of the class says: "If a Timer runs out a pulse message is
\* send" (tick_timer.h:4-5).  While the belt moves every timer runs out.  A call
\* for a timer that no longer exists keeps the mutex (tick_timer.cpp:49, 61), and
\* the tick thread waits until the next call that unlocks.
RunsOut ==
    <>[](step # 0) => \A id \in Ids : Listed(id) ~> ~ Listed(id)
=============================================================================
