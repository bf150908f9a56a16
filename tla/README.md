# A verification model of the ESEP sorting belts

The program under `src/project/ESEP/src` controls three conveyor belts (GEME 1, 2
and 3) that sort workpieces ("puks"). The same program runs on the QNX computer of each belt; the
operator types in which belt it is (`SYSTEM_NUMBER`). This directory models what
is hard about it in TLA+, checks small instances with TLC, and proves the most
important facts with TLAPS for every instance. Paths below are relative to
`src/project/ESEP/src`.

## 1. The system

### Threads and how they talk

Nearly everything runs in one thread per belt. `Dispatcher` (`lib/dispatcher/Dispatcher.cpp`)
owns a QNX channel; everybody posts pulses to it with `MsgSendPulse(3, -1, code, event)`,
all with the priority of the sender, so the channel is a FIFO queue. The dispatcher
thread takes one pulse at a time and calls the method of that event on every
registered listener, in the order of registration. Handlers do not call each other:
they post pulses, which go to the END of the same queue. So a handler's command
takes effect after everything that was already waiting. Most of the difficulty of the
program lies there.

| Component | State | Operations | Talks to |
|---|---|---|---|
| Dispatcher | listeners per event, queue, `_init_mtx` held while handlers run | `addListener`, `remListeners`, `waitPulse`, `callListeners` | everybody |
| Interrupt handler (`controller/ir_handler.cpp`) | last port value, debounce times | edges of light barriers and buttons to pulses | Dispatcher |
| `Motorcontroler` | state, two history slots | `MOTOR_*`, `TIMER_MEASURE_OUT` | motor driver, `SPEED_*` to the tick timer and the height sensor |
| `Error_fsm` | state, one history slot | error reports, RESET, START, ESTOP, `ESTOP_OK` | `MOTOR_*_ERR`, `TRAFFIC_LIGHT_*`, `ERR_OK` |
| three `Estop_fsm`, `Estop_state_checker` | state of each button's FSM, three flags | pressed, released, reset, START | `MOTOR_STOP_ERR`, red light, `ESTOP_OK` |
| `Signal_light` | three lights, a blink thread per colour | `TRAFFIC_LIGHT_*` | port, blink threads |
| `Tick_timer` | list of timers, lock, speed | start, stop, read a timer; 10 ms tick thread | `TIMER_*_OUT` pulses |
| `Puk_control`, `Puk_fsm_dummy` | list of puks, a state machine and a timer for each | light barriers, timers, hand-over | motor, error, switch, serial |
| Serial link (`lib/serial`) | ports, receiver thread per port, FIFO of puk ids | packets for E-stop, RESET, START, requests, puks | neighbours, Dispatcher |
| `Switch_control` | open or closed, a timer | `SWITCH_OPEN`, `TIMER_SWITCH_OUT` | switch, dispatcher registration |
| `Height_Measurement` | samples, last type, `is_stopped` | sampling thread, recognisers of types | `IDENTIFIED_PUK`, `ERR_UNDEFINED_PUK`, `TIMER_MEASURE_OUT` |
| Port access (`lib/hal`, `lib/HAWThread.cpp`) | port A, the mutex `bo_mtx` | set or clear a bit, clear one and set another; start or destroy a thread | motor, switch, lamp |

### What is hard about it

* Commands to the motor come from three sides (puks, errors, E-stops) and cross in
  the queue; the last one delivered wins, not the last one decided.
* State machines change state with placement `new` and restore a saved state by
  copying a saved vtable pointer: a history that was never set is undefined behaviour.
* `Error_fsm` has one history for all E-stops; each of the three E-stop FSMs sends an
  `ESTOP_OK` of its own.
* The tick thread shares the list of timers with the dispatcher thread; two of the three
  calls forget the unlock on one path. Expired timers may have their pulse still queued.
* A hand-over between belts is a request, a grant and a packet, with grants nobody
  asked for and refusals nobody hears of.
* START, RESET and the E-stops are broadcast over a ring of serial lines, on which nothing is acknowledged or repeated.
* Three actuators and up to two blink threads share one byte of a port, the motor's direction is changed under a
  lock inside the lock, and threads are destroyed wherever they happen to be.
* The measuring thread learns of a stop by a pulse, and its own pulses steer the belt it measures on.

`PROJECT.json` lists each hazard with its line under "hazards".

### What makes each component correct

* E-stop and errors: a press stops the belt; an error holds it until RESET and START at the
  belt; neither is forgotten; the belt comes back when everything has been dealt with.
* Motor: it restores only what was saved, and the timers follow it.
* Light: an unacknowledged error is visible.
* Tick timer: a timer counts neither early nor for ever, and a stopped one is silent.
* Puks: at most one hand-over into belt 2 at a time, no puk is lost without an error, the
  belt runs while a healthy puk is on it.
* Serial link: all systems agree on whether they are stopped, a puk is handed over to a free belt, and belt 3 has
  a group for it.
* Port and lamp: no bit is lost to another, no blink thread is left behind.
* Switch: open as long as its last puk needs, and never for ever.
* Height measurement: one report for each puk, in order, of the profile it had; the belt is slow
  only while it is measured.

## 2. Plan

The models, in the order of importance; all of them are there.

1. `Belt` and its components: motor, errors, E-stop, light around the queue; abstract
   specification `EstopInterlock`; runs `belt_*` and `full_stop_holds`.
2. `BeltProofs`: every safety property of those runs, for every set of inputs and any bound on the queue.
3. `TickTimer`: the list of timers with its lock, tick thread against dispatcher thread.
4. `PukControl`: the list of puks, the machine of a puk and of a group, and timers that
   expire while their pulse still waits, for all three belts.
5. `SwitchControl` and `PortA`: the switch, registration from inside a handler, and the three
   actuators and the blink threads on one port.
6. `SerialLink`, `EstopRing`, `Handover` and their composition `Plant`; abstract specification
   `FreeBelt`, "one puk at a time".
7. `PukTypes` and `HeightMeasurement`: how a puk is recognised, and the thread that does it on a
   belt that it slows down.
8. The proofs: every safety property that a run checks, each component in its own proof module (section 5).

Not planned any more: `PukControl` composed with `Belt` (the product is out of TLC's reach), and
inputs while `main()` is still constructing components.

## 3. Modules

| Module | Models |
|---|---|
| `Events` | the events the modelled listeners register for, by group |
| `MotorControler` | `Motorcontroler`: `motor`, `motorHistory`; `MotorHandle(e)` is a handler, `MotorSent(e)` its pulse |
| `ErrorFsm` | `Error_fsm`: `error`, `errorHistory`; `ErrorAfter` the transition, `ErrorEnter`/`EntrySent` the entry action that every handler runs |
| `EstopFsm` | three `Estop_fsm` and the checker: `estop`, `saved`; `full_stop`, `estop_released`, `reset`, `idle` |
| `SignalLight` | what `Signal_light` asks of the lamp: `lamp` |
| `Belt` | the queue, the buttons, `Tick_timer`'s speed, and one `Dispatch...` action per group of handlers that calls all listeners of the pulse in their order of registration |
| `EstopInterlock` | abstract: systems are halted, cleared, and resume all together |
| `MCBelt` | the sets of inputs for TLC |
| `TickTimer` | `Tick_timer`: `timers`, `lock`, `step`, the calls of the dispatcher thread, the tick thread in steps (`tick`, `pos`) |
| `MCTickTimer` | durations for TLC |
| `PukControl` | `Puk_control` and its `Puk_fsm_dummy` objects: `puk_list`, `timers` and `expired` (timers whose pulse is queued), one action per handler |
| `MCPukControl` | belts and numbers of puks for TLC |
| `SwitchControl` | `Switch_control` and its part in the dispatcher's `_listeners`; `strays` counts timers and pulses of no present opening |
| `PortA` | port A with `bo_mtx`, a handler of motor, switch or lamp in steps (`todo`), the nested lock of `clear_set()`, the blink threads |
| `MCPortA` | inputs and thread identities for TLC |
| `SerialLink` | `lines`: the packets on the way to each port; writes that fail |
| `EstopRing` | the E-stop FSMs of all three belts, the buttons and the packets between them |
| `FreeBelt` | abstract: a puk is handed over to a free belt only |
| `Handover` | request, grant and puk between the belts, the groups of belt 3 with their barriers; refines `FreeBelt` |
| `Plant` | `EstopRing` and `Handover` on the same lines |
| `MCPlant` | the two kinds of traffic, each for runs of its own |
| `PukTypes` | the recognisers of `Height_Measurement` as operators on a sequence of readings, and what they are to compute (`StepsOf`, `DigitsOf`) |
| `HeightMeasurement` | the measuring thread (`pc`), `MotorControler`, and the pulses between them |
| `MCHeightMeasurement` | readings for TLC |
| `PulseQueues` | lemmas on sequences: which pulse has the last word, what taking, appending and removing changes |
| `BeltProofs` | theorems about `Belt` |
| `TickTimerProofs` | theorems about `TickTimer` |
| `PukControlProofs` | theorems about `PukControl`, with the counting of objects, timers and pulses |
| `PortAProofs` | theorems about `PortA` and `SwitchControl` |
| `RingProofs`, `HandoverProofs` | theorems about `Plant`: the E-stop ring; the hand-over and its refinement |
| `HeightProofs` | theorems about `HeightMeasurement` and `PukTypes`, with the loops over samples |

State correspondence: `motor`, `error`, `estop[n]` are the states behind each
`statePtr` (the classes' names); `motorHistory`, `errorHistory` the saved vtable
pointers, "none" where nothing was saved; `saved[n]` the checker's flags; `queue` the
channel. A step of `Dispatch` is one iteration of `waitPulse()`: the handlers of all
listeners run in that thread without interruption, and only the end of the queue is
shared with other threads, so nothing smaller needs to interleave. The tick
thread reads `step` at any time, which no property of `Belt` depends on.

In `TickTimer` the interleaving is finer: `execute()` is split where the dispatcher
thread can come between (waiting, locking, each timer counted, each erase, unlock), since
`SPEED_*` handlers write `step` without the mutex. A call by the dispatcher is one step: it
runs under the mutex from beginning to end. `CallMissing` keeps the mutex, as the
code does; the dispatcher thread may lock what it holds already (QNX returns `EDEADLK` and nobody looks).
`full` is no variable of the code: it counts what the belt can have moved since each
timer was started. Ticks that pile up while the thread waits are not counted: the
model's next tick may come at any time.

In `PukControl` each handler is one step, as in `Belt`. Events of barriers, sensors and neighbours
may come at any time, so the time they wait in the queue makes no difference and is left out;
what waits is the pulse of a timer that has run out, since handlers that run meanwhile stop timers
that are no longer there. `timer_id` is not a variable: an object's timer is known by its kind and the object. Of what handlers
post, the properties need the last command to the motor (`motorIdle`) and the grants (`grants`): a
neighbour sends a puk only for a grant.

In `PortA` a handler is a list of things to do, `todo`; setting or clearing a bit takes two steps, lock and
read, write and unlock, between which another thread may run or be destroyed. Each start of the motor calls
`go_right()` and so `clear_set()` (`motorcontroler.h:107,121`, `hal_component.cpp:65`), which locks `bo_mtx`, calls
`clear_bit()` and `set_bit()`, which lock and unlock it themselves, and unlocks it: after the first bit it is free, and the
last unlock is that of a mutex nobody or another thread holds. QNX refuses a relock by the owner (`EDEADLK`) and an unlock by
anyone else (`EPERM`) and nobody looks at either: `MayLock`, `Unlocked`. `MOTOR_STOP`, `MOTOR_NORMAL` and `MOTOR_SLOW` stand for
the pulses that make `Motorcontroler` enter Stop, Idle or Stop_Error, Normal, and Slow. `Dead` is the owner of a mutex
whose thread was destroyed. `others` counts timers the switch has started and forgotten (0 unless a variant
keeps them). `late` marks a light set by a blink thread between the two halves of its destructor.

In `EstopRing` a pulse is handled when it is posted, and an FSM has lost its red light and motor commands, which
`Belt` has. A button is pressed again and again, whatever state its FSMs are in; `heard` is a ghost, the ports that have been
told of the last press all there was to tell: the press found both FSMs of its button in Idle with nothing about it on
the line, and none of its packets was lost. Both writes of a broadcast may fail, or one (`lost`).

In `Handover` the queues of the three belts are kept, because a grant may wait in one. A group of belt 3 collects
puks (`Puk_1` to `Puk_3`) until it has three, passes the switch (`Switch_Open`), waits at the exit (`Exit_Belt_3`) and is taken; as
in the code, a `NEW_PUK` that finds the last group behind the switch is dropped, and the group's timer is ignored there. Of what a puk
does on its belt only the places that the next belt can tell apart are kept; puks on belt 1 are sent in the
order of their numbers. `settled` is an assumption about the belt, not a variable: the next puk
reaches an exit when the packets of the hand-over before it have arrived. The cables (`Peer`) and the distance
of the puks are external to the code. `Plant` chooses in `Init` which kind of packets it
will see (`traffic`): the two kinds share the lines and nothing else, and no handler of one reads what the other
changes.

`PukTypes` multiplies the comparisons with the floating-point mean out to integers. In `HeightMeasurement` the
thread is split where another thread can come between: one sample, the question whether the belt stands,
the end of a measurement, the evaluation, its report. Four variables are ghosts: `said`, the reports of the measurement;
`standing`, the samples since the thread was told that the belt stands; and two that say how the motor may miss the end of a
measurement. `ignored`: the last `TIMER_MEASURE_OUT` was handled while a slow belt stood. `overtaken`: one was already in the
queue when the last `MOTOR_SLOW` was asked for. `Evaluate` may
give any type, because the arrays it reads have gone out of scope (undefined behaviour). The belt of the module
has one measuring thread and the motor; other puks ask for nothing meanwhile.

In `Belt`, what sends pulses from outside (interrupt handler, receivers, height sensor,
`Puk_control`) is the environment: it may post any event of `Inputs` at any time, except
that the edges of an E-stop button alternate. `pressed` is where the last edge left it.
`ERR_SLIDE_FULL` and `RDY_TAKING` are posted by the bench tests only
(`test/error_test.cpp`); they are among the inputs because `Error_fsm` handles them.

`Init` is the state when `main()` has constructed everything: the entry action of
state OK has run in the constructor of `Error_fsm`, and its first pulse may have been
taken from the queue before `Signal_light` listened.

Mutants: operators such as `MotorEnter_ForgetsIdle` stand next to the operator they vary and
are plausible bugs (a missing save, an early "safe" flag, a wrong light). Each
passing property is violated by one of them.

## 4. What TLC checks

| Run | Question | Result |
|---|---|---|
| `belt_estop` | all buttons of three systems in any order, one puk | holds (245,518 states) |
| `belt_errors` | all errors, notices and motor commands, own buttons | holds (451,784 states) |
| `full_stop_holds` | does an FSM in Full_stop hold the belt? | violated |
| `tick_timer` | handlers and the tick thread on one list of timers | holds (168,363 states) |
| `tick_blocked` | does every timer run out while the belt moves? | violated |
| `puk_control` | barriers, timers, sensor and neighbours in any order, on each belt | holds (333,501 states) |
| `wrong_puk` | is a puk declared lost by its own timer only? | violated |
| `port_a` | dispatcher and blink threads on one port, the switch with its timers | holds (788,750 states) |
| `plant` | presses repeated at any time, RESET and START at three belts; or four puks from belt 1 to belt 3; a packet lost | holds (1,252,180 states) |
| `plant_live` | the same without lost packets: do all belts run again, and are puks passed on? | holds (224,805 states) |
| `all_stand` | do all belts stand while a button is pressed? | violated |
| `height` | any profile of two kinds of puk under the sensor of a belt that slows down, stops and goes on | holds (1,247,318 states) |

Properties that hold:

* `EstopActiveBacked`, `EstopResolved`: `Error_fsm` is never left in `Estop_Active`
  for good; one START by anybody after all resets ends it.
* `InterlockSpec`: the three FSMs and the checker refine `EstopInterlock`, although each FSM
  asks the checker on its own while the flags change.
* `PressStopsBelt`: a press that finds its FSM idle leads to a stopped motor whatever
  is queued around it.
* `ErrorStopsBelt`, `ErrorNotForgotten`: through any number of E-stops.
* `HistoryDefined`, `TimerFollowsMotor`, `LampShowsError`.
* `OneFate`, `NeverEarly`, `RunsOutUnlessLeaked`: the two threads lose no timer, let none expire that
  `stop_timer()` found, and count none twice; each runs out unless the mutex is kept.

* `NoOvertaking`: events name no puk, yet no puk gets ahead of another: it holds because a
  puk to be sorted out takes the switch barrier's event (`puk_fsm_dummy.h:256`).
* `Watched`, `LostPukIsNoticed`: pulses may hit another puk than the one they were meant
  for, but there are always as many as puks that wait, so each is noticed in the end.
* `IdleBeltWaits`: belts 1 and 2 are told to idle exactly while they have no puk. Belt 3 also idles under groups, complete ones
  included (`Puk_3` takes `timer_group_out`, and the requirements have it wait so), or under one that has passed the switch when another
  takes the timer; but only while `accept_new_puk` stands, so that the next request is granted and the belt moves again.
* `Registered`: the switch is registered once for what its state handles, though `remListeners()` skips
  an element whenever it erases one. `OpenIsTimed`, `ClosesOnTime`: an open switch is closed, and not before the
  last timer has run out unless a stray `TIMER_SWITCH_OUT` is about (`strays`).
* `PortFollows`, `OneBlinkerPerLight`, `LitLights`: after each handler the port shows what was asked for, although `clear_set()`
  gives the mutex up between its two bits and unlocks it once too often: a blink thread that comes in between finishes its change of
  the port before the dispatcher's next one, because that locks again, and the stray unlock opens nothing the dispatcher does not own.
  A light can stay on for good if its thread sets it between `clear_bit()` and `ThreadDestroy()`; that case is exempted by `late`.
* `StopReachesMotor`: a stop is carried out if no blink thread is destroyed while it holds `bo_mtx`. Nothing in the code rules
  that out: then the dispatcher waits for ever (`HAWThread.cpp:31`), E-stops included. The run reaches such states, which is
  why it has to allow deadlock.
* `BeltsAgree`: a press that finds the FSMs of its button idle, and whose packets are not lost, is followed by every belt, in
  every order in which START and RESET of three belts arrive, whatever other buttons and other packets do. A START that overtakes a RESET leaves
  a belt in Reset until the next START, which is why the property takes Idle and Reset together. A press that comes too early is
  not followed: `AllBeltsStand` below. `AllRestart`: all belts run again in the end, also after presses that left them in different
  states, since RESET and START are broadcast as often as they are pressed; a packet that is lost is not repeated, so it assumes none is.
* `OneAtATime`: the hand-over to belt 2 refines `FreeBelt`, although belt 2 grants unasked each time it deletes a
  puk and registers a puk only when it hears of it. It rests on the distance of the puks: without `settled`, a second
  grant finds the next puk at the exit before the first has been registered.
* `DroppedBehindSwitch`: no puk comes to a group whose timer still has to run out. Behind a group that has passed the switch it is
  dropped (`Puk_control.cpp:246-261`, `is_state_3()` is FALSE there): the run has such behaviours, when the timer ran out but its
  `MOTOR_IDLE` was ignored by a motor in Stop, so that START carries the group past the switch before the next puk comes.
* `Served`: a refused request is answered later, by those unasked grants. It has two premises. No packet is lost: a lost one is never repeated, and
  the hand-over stops. And `Heeded`, some group is in a state that takes a timer while one runs: the timers of the first group run 2 s, 2 s and 4 s
  (`SHORT_DURATION`, `LONG_DURATION`, `tick_timer.h`) and the way to the switch takes 11 s (`HEIGHT_MEASURE_DURATION` and
  `HEIGHT_MEASURE_TO_SWITCH_DURATION`), at the same speed of the belt. A timer that no group takes leaves `accept_new_puk`
  FALSE, and belt 3 never grants again (`puk_fsm_dummy.h:430-458`).
* `PatternOfRuns`, `DigitsOfRuns`: the loops with their counters recognise the runs of the profile, for every
  sequence of up to six readings of the bands. `DigitsOfRuns` takes the bits modulo the width of an int: `1 << indexer`
  (`height_measurement.cpp:353`) is not bounded, and a code with more digits than that sets the bits of its
  first ones again. C leaves such a shift undefined; the model does what the processor does.
* `Reports`: one `TIMER_MEASURE_OUT` in each measurement and at most one answer, in order. A glitch of
  `MIN_LENGTH` to ten samples is announced and never answered: its puk, if one was waiting, stays `In_Height_Measurement`.
* `StandingSample`: once the thread has been told that the belt stands, it takes one more sample at most. While `SPEED_STOP` still waits the
  number has no bound, and the puk under the sensor gets longer (`height_measurement.cpp:243`).
* `SlowWhileMeasured`, `SlowEnds`: a belt that is slow, or will be when it goes on, has its release still to come, and gets it; but for the two ways
  in which the motor misses it. `ignored`: a motor in Stop_Error, or in Stop with the puk at the exit, has no method for `TIMER_MEASURE_OUT`.
  `overtaken`: it was queued before `MOTOR_SLOW`. Both are true only of the last release and the last `MOTOR_SLOW`: the belt then stays slow, with
  nothing under the sensor, until a later measurement is released in time (`height_measurement.cpp:127`).

What the documents say and the code does not keep (`findings`):

* `FullStopHoldsBelt`: the `ESTOP_OK` of one E-stop may be taken by `Error_fsm` for the end
  of the next (`error_fsm.h:72`); the belt runs with an FSM in `Full_stop`.
* `RunsOut`: after `stop_timer()` of a timer that has run out, the mutex stays locked and no timer
  counts until another call unlocks it (`tick_timer.cpp:50`).
* `OwnTimerOnly`: the pulse of a timer that ran out just as its puk was seen declares the next puk lost
  (`tick_timer.cpp:135`).
* `AllBeltsStand`: a button pressed again while its last RESET and a START are still on the way stops its own belt, but FSMs of other belts
  in Reset ignore it and run on, with nothing lost (`estop_fsm.h:165`). The button's own FSM ignores a press in Reset likewise.

One more is asked by no run: after a START in OK the history of `Error_fsm` is Start, whose entry sends no lamp signal; the next
E-stop ends with the red light still blinking (`error_fsm.h:246`).

Bounds. `MaxQueue` limits only what the environment may add: it posts while fewer than
`MaxQueue` pulses wait; handlers always post. Two is enough for an external event to be
queued behind another one and in front of what a handler sends, which is what every
trace of `Belt` needs; `belt_errors` also passes with three (8.3 million states, not kept because
of its length), and the theorems hold for any value. `belt_estop` leaves out the errors and `belt_errors` the two
other systems, since their products are too large together; the theorems cover both.
`tick_timer` starts four timers: two that expire in one tick, so that each
erase skips one, and a neighbour of each. Their durations, 2 and 3 steps of the slow belt, are a multiple
of the fast step (2) and none. `puk_control` has two puks on belts 1 and 2, so that a pulse can hit either, and four on
belt 3, where the third completes a group and the fourth begins another. `port_a` has two lights that blink and a third identity for a
thread nobody stops; one external pulse waits behind those of timers. `plant` has two presses, of one button or of two, so that a press can come before the
end of the last one and two buttons' packets cross on the lines of the third belt, RESET or START pressed while no packet of that belt waits;
four puks, of which the fourth begins a second group with the first anywhere on belt 3; and one write that fails. `plant_live` has the same without
the failure, as `AllRestart` and `Served` assume. `height` keeps the order
of the constants of `height_measurement.cpp` and scales them down (steps of 2 samples for 5, digits of 2 and 3 for 5 and 41, no cut-off,
at most 6 samples evaluated for 748, an int of 2 bits for 32): six samples are up to three steps, or three digits. Two
puks give two readings each, besides the belt itself and something too high. One stop and two pulses that wait are enough for a
`TIMER_MEASURE_OUT` to be overtaken or ignored; for more stops there are the theorems. `tick_blocked` needs one timer that was stopped and one that waits.

Fairness. `WF_vars(Dispatch)`: the dispatcher thread keeps taking pulses, which
`waitPulse()` does in an endless loop without blocking. Nobody has to press a button, and
no pulse from outside is ever assumed to come. `TickTimer` assumes `WF_vars(TickThread)`, the
periodic QNX timer, and `SF_vars(TickLock)`: the dispatcher thread may take the mutex again and
again, but each unlock hands it to the thread that waits. `PukControl` assumes
`WF_vars(DispatchTimer)`, the dispatcher thread again; that timers run out is a premise of
`LostPukIsNoticed`, since the belt may stand (`TickTimer` shows when they do). `PortA` assumes that the dispatcher
thread runs, that it gets the mutex if it is free again and again (`LockPort`, `LockAround`: QNX hands it to the thread that waits, and blink threads
sleep between changes), that a blink thread in a change finishes it, and that the switch's timer runs out. `Plant`
assumes that each receiving thread goes on (`HearStop`, `GoesOn`), and of the operators what `AllRestart` is about: a pressed
button is released in the end, and RESET (at each belt whose button some FSM still follows) and START are pressed again and again while a belt
stands; strong fairness, because they wait for packets to arrive and presses may come in between. A puk need not reach
the exit of belt 1, and nobody need take a group away. `HeightMeasurement` assumes that both threads run
and that a stopped belt is started again.

Deadlock is not checked in the runs of `PortA`, which stops when a thread dies with the mutex, and in those of `Plant`: the ring stops when
all presses are over and all belts run, the hand-over when all puks have been passed on or a packet was lost. All other passing runs check it.

## 5. What is proved

### The belt

`BeltProofs` proves, for every `Inputs \subseteq ExternalEvents` and every
`MaxQueue`:

| Theorem | Property |
|---|---|
| `TypeCorrect` | `[]TypeOK` |
| `HistoryAlwaysDefined` | `[]HistoryDefined` |
| `ErrorAlwaysStopsBelt` | `[]ErrorStopsBelt` |
| `TimerAlwaysFollowsMotor` | `[]TimerFollowsMotor` |
| `LampAlwaysShowsError` | `[]LampShowsError` |
| `ErrorsAreNotForgotten` | `ErrorNotForgotten` |
| `EstopActiveAlwaysBacked` | `[]EstopActiveBacked` |
| `ImplementsInterlock` | `InterlockSpec` |

None of the properties is inductive, because each speaks about a queue that has been emptied of
certain pulses. The argument is the same for three of them: *who has the last word*.
`Commanded(q, a, B, done)` says that either a pulse `a` waits in `q` with none of `B`
behind it, or `a` has already been done and none of `B` waits. For example, under an error
`MOTOR_STOP_ERR` has the last word over `MOTOR_START_ERR`; on the lamp the red signal
over the other signals; for the timer the last `SPEED_*` pulse in the queue is that of the
motor's present state. `PulseQueues` proves once how taking a pulse and appending others
changes the last word; each proof then looks at the actions that send pulses of `B`.

* `TypeInv` strengthens `TypeOK` with: Idle is saved before anything else is, a
  waiting `MOTOR_START_ERR` finds a history (`MotorInv`, `MotorPrepared`), and `error` is
  one of the states that may be current (`ErrorInv`).
* `ErrorStopsBelt`, `LampShowsError`, `TimerFollowsMotor` follow from `HoldInv`,
  `LampInv`, `TimerInv`, all of the last-word form.
* `EstopActiveBacked` is kept because every FSM that leaves Reset puts its `ESTOP_OK` in the queue in the same step.
* `ImplementsInterlock` needs `SavedInv`: a flag of the checker is FALSE exactly while its FSM
  is in `Full_stop` or `Estop_released`.

### The timers

`TickTimerProofs` proves, for any number of timers, every pair of speeds (`SpeedAssumption`) and every finite set of
durations (`DurationAssumption`):

| Theorem | Property |
|---|---|
| `TypeCorrect` | `[]TypeOK` |
| `EachTimerHasOneFate` | `[]OneFate` |
| `NoTimerRunsOutEarly` | `[]NeverEarly` |

* The list is only safe because `Owned`: the tick thread holds the mutex exactly while it counts or erases. A call of
  the dispatcher thread finds it outside of the loop, so the iterator (`pos`) stays inside the list.
* `OneFate` follows from `ListInv`, ids in the list differ, and `FateInv`: who has sent its pulse is not in the list but for
  the one timer that is being erased.
* `NeverEarly` speaks about timers that have run out; `CountInv` about those that still run: what is
  left is no less than what fast ticks alone would have left (`full`), and one tick more while the tick under way has not counted
  this timer yet.

### Puks

`PukControlProofs` proves, for each of the three belts and any number of puks:

| Theorem | Property |
|---|---|
| `PukTypeCorrect` | `[]TypeOK` |
| `NoPukOvertakes` | `[]NoOvertaking` |
| `EachPukIsWatched` | `[]Watched` |
| `OnlyWaitingBeltsIdle` | `[]IdleBeltWaits` |

The four are inductive together with `ListInv` (the objects of the list are in states of this belt, in the order
of their arrival) and `TimersInv` (a timer belongs to a place its puk has reached). `NoOvertaking` rests on how an event
finds its puk: the first object of the list in a state that takes it, which is the one in front since no object
overtakes. `Watched` compares two numbers for each kind of timer: puks that wait, and timers that run or
have run out with the pulse still queued. Each handler changes both by the same amount, or takes away only a pulse that
made an object leave the state. The lemmas count: removing an object, a pulse or a timer changes one
cardinality by one and the others not at all.

### The port, the lamp and the switch

`PortAProofs` proves, for any number of inputs, timers and queued pulses, with three different identities of
threads (`ThreadsAssumption`; two that blink and one nobody stops):

| Theorem | Property |
|---|---|
| `PortTypeCorrect` | `[]TypeOK` |
| `SwitchRegistered` | `[]Registered` |
| `OpeningTimed` | `[]OpenIsTimed` |
| `PortIsFollowed` | `[]PortFollows` |
| `OneBlinker` | `[]OneBlinkerPerLight` |
| `LightsExplained` | `[]LitLights` |
| `SwitchClosesOnTime` | `ClosesOnTime` |

`WorkInv` says what may be left of a handler (`todo` is always an end of one of the handlers of the code); `ReadInv`, that
whoever has read the port and not yet written it holds `bo_mtx`, so what was read is still there (a thread
destroyed in between leaves the mutex to `Dead`), and that the dispatcher is in no change when it reaches the stray unlock of `clear_set()`; `ThreadsInv`, that the blink threads
are those listed, one for each light at most; `BitsInv`, that the bits of motor and switch are what was asked for unless the
handler at work has yet to change them (`MotorPhase` says which of its bits a start of the motor has changed by then). For the lamp `WorkInv` says it, phase by phase of a signal's handler. `TimedInv` and `CountInv` count the pulses and timers of the switch:
an open switch has one more of them than there are strays.

### The plant

`RingProofs` and `HandoverProofs` prove, for the three belts and any number of presses, packets waiting, puks and failing writes:

| Theorem | Property |
|---|---|
| `PlantAgrees` | `[]BeltsAgree` |
| `PlantTypeCorrect` | `[]TypeOK` |
| `PlantDropsBehindSwitch` | `DroppedBehindSwitch` |
| `PlantOneAtATime` | `OneAtATime` (the hand-over implements `FreeBelt`) |

In the ring an FSM that is not at the button hears of it over one line. `RingInv` says of each line to a port in `heard` (`The`, `LinkInv`) which packets
may be between the two: press before release before the RESET that counts, press and release once, and an FSM that lags behind has the
packet it lacks on its way. With none of them on the line nobody lags, which is `BeltsAgree`. A port that misses a packet, or is told of a press
that its FSM or the button's does not take, leaves `heard`, and a later press that finds both idle and the line free takes it back: there `LinkInv`
begins anew.
For the hand-over `PukInv` says of each belt that sends puks: one puk at most is at the exit (`ExitInv`), one at most on its
way with its `NEW_PUK` (`ComingInv`), and as long as there is one, or a grant may find one, the next belt is clear
(`ClearInv`): belt 2 has no puk, `accept_new_puk` of belt 3 stands. `DroppedBehindSwitch` follows from the latter, since a last group in front of the
switch is complete, behind which a group begins, or takes the puk. `StopInv` and `PassInv` put both together by `traffic`; initial states map
to initial states of `FreeBelt`, and each step to a step or to none.

### The height measurement

`HeightProofs` proves, for any puks, readings, lengths and bounds that are in the order of the code's
(`LengthAssumption`), and whatever `Evaluate` finds in arrays that have gone out of scope:

| Theorem | Property |
|---|---|
| `HeightTypeCorrect` | `[]TypeOK` |
| `ReportsInOrder` | `[]Reports` |
| `OneSampleStanding` | `[]StandingSample` |
| `SlowForPuks` | `[]SlowWhileMeasured` |
| `PatternsAreSteps` | `[]PatternOfRuns` |
| `DigitsAreRead` | `[]DigitsOfRuns` |

* `TypeOK` contains that `evaluate_puk_type` returns a type of puk or `UNDEFINED`, so that its loops have to be typed.
  A loop is a function of the number of rounds; `LoopExists` shows that there is such a function,
  `EveryRound`, from a least counterexample (`LeastIs`), that what each round keeps holds of every round.
* `PatternOfRuns` is proved of the loop, for any samples: `RunSeen` says that `last` and `counter` describe the run that ends at
  this round, `StepsSeen` that the array holds, in order, the steps that are wide enough by now.
* `DigitsOfRuns` is proved of the loop as well: `DigitsRead` says that `last` and `counter` describe the run that goes
  on at this round, which begins at `i - counter + 1`, and `DigitsSeen` that `indexer` counts the digits that begin before it
  and `type` has the bits of those that are 1. The end of a run is the only place where digits are added (`DigitRead`): no digit
  before it means that it is the first one if it counts double (`FirstIs`). The last round ends a run in any case, at
  the sample before it, which is why the reference is of `Front(b)`. `ShortCodes` adds that a code with at most
  `INT_BITS` digits is read without any two of them sharing a bit; six samples have no third digit that is 1, so
  what happens to longer ones is left to the theorem.
* `LengthInv` bounds samples and debouncing by the number of rounds, `SaidInv` gives for each place of the
  thread what it has reported: an answer needs more samples than an unannounced or discarded measurement can have.
* `StandingSample` needs `StopHeard`: `SPEED_STOP` has the last word among the speed pulses while the belt stands, or the thread knows it
  (`is_stopped`). Then `StandInv`: after one sample counted the thread is not back at the next before it has heard of a speed, and
  it does not hear of one before the belt moves.
* `SlowWhileMeasured` is kept by `SlowInv`. `Released(B)` says that the measurement goes on or that `TIMER_MEASURE_OUT` is in the queue behind the last pulse of `B`
  if there is one: it is behind `HEIGHT_SENSOR_MEASURE_START` always, and behind `MOTOR_SLOW` unless that was `overtaken`. So when the motor
  becomes slow its release is still to come. `HistoryInv` says what the motor goes back to, for belts that are stopped in between.

### What rests on what

The proofs use no assumptions but the named ones of the modules, which TLC evaluates in the passing runs. `FiniteSetTheorems`
(cardinalities), `SequenceTheorems` (subsequences) and `WellFoundedInduction` (the least element of a set of numbers) are the prover's library.
Loops, which an induction scheme would handle elsewhere, rest on that least element.

Model-checked only: the liveness properties (`PressStopsBelt`, `EstopResolved`, `RunsOutUnlessLeaked`,
`LostPukIsNoticed`, `StopReachesMotor`, `AllRestart`, `Served`, `SlowEnds`), which need fairness and `ENABLED`.

## 6. Not modelled, and why

* The debouncing of the interrupt handler: wall-clock time; `Belt` assumes that every
  edge is posted once.
* `PukControl` composed with `Belt`: what `ERR_OK` does to puks while several are lost, `MOTOR_NORMAL` under an
  error, the light barrier under `Early_Entry`. The product is too large, and the events between the two are free inputs
  of each.
* Half a packet: `write()` of a `PUK_ID` is two calls; one that fails would put the receiver out of step.
* The types of puks in `Handover`: `get_puk_id()` of the link always gives id 0 (`Puk_control.cpp:109`), and the
  sequence of types is in `PukControl`.
* Of port access `go_left()`, which only test programs call, and wrappers that only read.
* The lamp of belt 3: `TRAFFIC_LIGHT_NORMAL` and `TRAFFIC_LIGHT_NEW_PUK`, which a group at the exit posts (`puk_fsm_dummy.h:436,447`), are inputs of `PortA`
  but not of `Belt`. The first, on a START, may hide an error nobody acknowledged.
* Startup: pulses from outside while `main()` is still constructing components.
* Real time: how long a puk needs, the 20 microseconds between two samples, the priorities of threads.
* In `PukTypes`, the limits of the arrays: `temp_array` has room for as many steps as there are samples, and a profile is compared
  in its first 15 entries. The calibration `_height_diff` is subtracted from the bounds (`height_measurement.cpp:413`)
  where the readings shift by the same sign; the model does what the code does.
* `puk_fsm.h` (replaced by `puk_fsm_dummy.h`) and the bench tests.
