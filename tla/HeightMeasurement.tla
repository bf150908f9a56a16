------------------------- MODULE HeightMeasurement -------------------------
(***************************************************************************)
(* Class Height_Measurement: the thread that samples the height sensor     *)
(* while a puk passes, with the belt it slows down.  At the fifth sample   *)
(* it reports HEIGHT_SENSOR_MEASURE_START, on which the state machine of   *)
(* the puk asks for MOTOR_SLOW; when the measurement is over it reports    *)
(* TIMER_MEASURE_OUT, on which Motorcontroler goes back to Normal, and     *)
(* then what it has recognised.  Each speed comes back to the thread as a  *)
(* SPEED_* pulse, from which it knows whether the belt stands.             *)
(*                                                                         *)
(* The two threads share last_type, is_stopped and the queue of pulses.    *)
(* A pulse of the thread may cross one for the motor; two ghosts say when  *)
(* the motor misses the end of a measurement, overtaken and ignored.       *)
(***************************************************************************)
EXTENDS MotorControler, PukTypes

CONSTANTS
    Puks,               \* puks, each the set of the readings it gives
    Others,             \* readings of the belt, and of what is not a puk
    Grounds,            \* of the sensor over the empty belt, at the start
    Garbled,            \* types that come out of an array that is not intact
    MAX_LENGTH,         \* so many samples are no puk
    MIN_LENGTH,         \* so many are the beginning of one
    MIN_ARRAY_LENGTH,   \* so few are too few to recognise it,
    MinError,           \* and so few too few to complain of it
    MaxGround,          \* so many samples of the belt are not the end yet
    MaxStops,           \* so often the belt is stopped,
    MaxQueue            \* while fewer pulses than this wait

Readings == (UNION Puks) \cup Others

ASSUME ReadingsAssumption == Readings \subseteq Nat /\ Grounds \subseteq Nat
ASSUME GarbledAssumption == Garbled \subseteq PukTypes \cup {UNDEFINED}
ASSUME LengthAssumption ==
    /\ {MAX_LENGTH, MIN_LENGTH, MIN_ARRAY_LENGTH, MinError} \subseteq Nat \ {0}
    /\ MIN_LENGTH <= MinError /\ MinError < MIN_ARRAY_LENGTH
ASSUME BoundsAssumption == {MaxGround, MaxStops, MaxQueue} \subseteq Nat

MAX_HEIGHT == 2200
GROUND_HEIGHT == 4000
INIT_HEIGHT == 4076

VARIABLES
    queue,              \* the pulses waiting for the dispatcher
    pc,                 \* where the measuring thread is
    readings,           \* what the sensor can read of that which it measures
    height_vector,      \* the samples of the measurement
    length_counter,
    ground_debouncer,
    last_type,
    is_stopped,
    height_diff,        \* _height_diff, how far the belt is off its height
    said,               \* what the thread has reported of this measurement
    standing,           \* samples since the thread was told the belt stands
    stops,              \* stops so far
    overtaken,          \* MOTOR_SLOW was asked for when TIMER_MEASURE_OUT waited
    ignored             \* the last TIMER_MEASURE_OUT came while the belt stood

threadVars == <<pc, readings, height_vector, length_counter, ground_debouncer, said>>
missedVars == <<overtaken, ignored>>
vars == <<motorVars, queue, threadVars, last_type, is_stopped, height_diff,
          standing, stops, missedVars>>

\* An average of four readings, rounded towards zero as the code does.
get_height_difference(r) == (r[1] + r[2] + r[3] + r[4]) \div 4 - INIT_HEIGHT

\* Error_fsm has sent MOTOR_START_ERR when it was constructed.
Init ==
    /\ MotorInit
    /\ queue = <<"MOTOR_START_ERR">> /\ pc = "poll" /\ readings = {}
    /\ height_vector = <<>> /\ length_counter = 0 /\ ground_debouncer = 0
    /\ last_type = 0 /\ is_stopped = FALSE
    /\ \E r \in [1..4 -> Grounds] : height_diff = get_height_difference(r)
    /\ said = <<>> /\ standing = 0 /\ stops = 0
    /\ overtaken = FALSE /\ ignored = FALSE

-----------------------------------------------------------------------------
\* The measuring thread.

Send(pulses) ==
    /\ Len(queue) < MaxQueue
    /\ queue' = queue \o pulses
    /\ said' = said \o pulses

Stands == motor \notin RunningStates

\* The pulse that tells the thread that the belt stands has been handled (the
\* motor tells it of every state it enters, but not of its first one).
Told == "SPEED_STOP" \notin Range(queue) /\ motorHistory.error # "none"

\* The loop of execute(): something higher than the belt is under the sensor.
Begin(level) ==
    /\ pc = "poll" /\ ~is_stopped
    /\ level < GROUND_HEIGHT + height_diff
    /\ \E puk \in Puks : level \in puk \cup Others /\ readings' = puk \cup Others
    /\ pc' = "sampling"
    /\ said' = <<>> /\ standing' = 0
    /\ UNCHANGED <<motorVars, queue, height_vector, length_counter,
                   ground_debouncer, last_type, is_stopped, height_diff,
                   stops, missedVars>>

\* A variant in which MAX_LENGTH samples are still a puk:
NoPuk_Longer(level) == length_counter + 1 > MAX_LENGTH \/ level <= MAX_HEIGHT

\* Too long or too high.
NoPuk(level) == length_counter + 1 >= MAX_LENGTH \/ level <= MAX_HEIGHT

\* A variant of Discard in which the samples are kept:
Discard_KeepsSamples(level) ==
    /\ NoPuk(level)
    /\ height_vector' = Append(height_vector, level)
    /\ UNCHANGED ground_debouncer
    /\ Send(<<"ERR_UNDEFINED_PUK">>)
    /\ pc' = "measured"

\* The samples are thrown away, and the measurement ends at once.
Discard(level) ==
    /\ NoPuk(level)
    /\ height_vector' = <<UNDEFINED>>
    /\ UNCHANGED ground_debouncer
    /\ Send(<<"ERR_UNDEFINED_PUK">>)
    /\ pc' = "measured"

\* A sample of the puk or of the belt.
Take(level) ==
    /\ ~NoPuk(level)
    /\ IF level >= GROUND_HEIGHT
       THEN /\ ground_debouncer' = ground_debouncer + 1
            /\ UNCHANGED height_vector
       ELSE /\ height_vector' = Append(height_vector, level)
            /\ UNCHANGED ground_debouncer
    /\ IF length_counter + 1 = MIN_LENGTH
       THEN Send(<<"HEIGHT_SENSOR_MEASURE_START">>)
       ELSE UNCHANGED <<queue, said>>
    /\ pc' = "sampled"

\* One round of get_height_array(), up to the question whether the belt stands.
Sample(level) ==
    /\ pc = "sampling" /\ level \in readings
    /\ Discard(level) \/ Take(level)
    /\ length_counter' = length_counter + 1
    /\ standing' = standing + (IF Stands /\ Told THEN 1 ELSE 0)
    /\ UNCHANGED <<motorVars, readings, last_type, is_stopped, height_diff,
                   stops, missedVars>>

\* A variant in which the thread does not wait for the belt:
MayGoOn_Standing == TRUE

\* The condition of the loop that waits while the belt stands.
MayGoOn == ~is_stopped

\* The end of a round: while the belt stands the thread waits.
EndRound ==
    /\ pc = "sampled" /\ MayGoOn
    /\ IF ground_debouncer <= MaxGround
       THEN pc' = "sampling" /\ UNCHANGED height_vector
       ELSE /\ pc' = "measured"
            /\ height_vector' =
                 IF height_vector = <<>> THEN <<UNDEFINED>> ELSE height_vector
    /\ UNCHANGED <<motorVars, queue, readings, length_counter,
                   ground_debouncer, said, last_type, is_stopped, height_diff,
                   standing, stops, missedVars>>

\* The variables of a measurement go out of scope.
Forget ==
    /\ readings' = {} /\ height_vector' = <<>>
    /\ length_counter' = 0 /\ ground_debouncer' = 0

\* A variant of Finish in which the belt is released only after what may be
\* a puk:
Finish_OnlyPuks ==
    /\ pc = "measured"
    /\ IF Len(height_vector) > MinError THEN Send(<<"TIMER_MEASURE_OUT">>)
       ELSE UNCHANGED <<queue, said>>
    /\ pc' = CASE Len(height_vector) >= MIN_ARRAY_LENGTH -> "evaluating"
               [] Len(height_vector) \in (MinError + 1)..(MIN_ARRAY_LENGTH - 1) -> "failed"
               [] OTHER -> "poll"
    /\ IF pc' = "evaluating"
       THEN UNCHANGED <<readings, height_vector, length_counter,
                      ground_debouncer>>
       ELSE Forget
    /\ UNCHANGED <<motorVars, last_type, is_stopped, height_diff, standing,
                   stops, missedVars>>

\* The measurement is over: the belt may run faster again.
Finish ==
    /\ pc = "measured"
    /\ Send(<<"TIMER_MEASURE_OUT">>)
    /\ pc' = CASE Len(height_vector) >= MIN_ARRAY_LENGTH -> "evaluating"
               [] Len(height_vector) \in (MinError + 1)..(MIN_ARRAY_LENGTH - 1) -> "failed"
               [] OTHER -> "poll"
    /\ IF pc' = "evaluating"
       THEN UNCHANGED <<readings, height_vector, length_counter,
                      ground_debouncer>>
       ELSE Forget
    /\ UNCHANGED <<motorVars, last_type, is_stopped, height_diff, standing,
                   stops, missedVars>>

\* The array points into a vector that get_height_array() has destroyed, and
\* filter_array() returns an array of its own frame: what is read there is not
\* defined: the samples if they are still intact, or whatever is found.
Evaluate ==
    /\ pc = "evaluating"
    /\ last_type' \in Garbled \cup {evaluate_puk_type(height_vector, height_diff)}
    /\ pc' = IF last_type' = UNDEFINED THEN "failed" ELSE "identified"
    /\ Forget
    /\ UNCHANGED <<motorVars, queue, said, is_stopped, height_diff, standing,
                   stops, missedVars>>

Answer ==
    /\ pc \in {"identified", "failed"}
    /\ Send(<<IF pc = "identified" THEN "IDENTIFIED_PUK" ELSE "ERR_UNDEFINED_PUK">>)
    /\ pc' = "poll"
    /\ UNCHANGED <<motorVars, readings, height_vector, length_counter,
                   ground_debouncer, last_type, is_stopped, height_diff,
                   standing, stops, missedVars>>

Measure ==
    \/ \E level \in Readings : Begin(level) \/ Sample(level)
    \/ EndRound \/ Finish \/ Answer

-----------------------------------------------------------------------------
\* The dispatcher thread.

Elsewhere == <<threadVars, last_type, height_diff, stops>>

\* What the belt does, or will do when it goes on: a speed or Idle.
Resumed == IF motor = "Stop_Error" THEN motorHistory.error ELSE motor
Speed == IF Resumed = "Stop" THEN motorHistory.speeds ELSE Resumed

DispatchMotor ==
    LET e == Head(queue) IN
    /\ e \in MotorEvents
    /\ MotorHandle(e)
    /\ queue' = Tail(queue) \o MotorSent(e)
    /\ standing' = IF motor' \in RunningStates THEN 0 ELSE standing
    /\ ignored' = IF e = "TIMER_MEASURE_OUT" THEN Stands /\ Speed = "Slow"
                  ELSE ignored
    /\ UNCHANGED <<is_stopped, overtaken, Elsewhere>>

\* SPEED_STOP(), SPEED_NORMAL(), SPEED_SLOW() of the measuring object.
DispatchSpeed ==
    /\ Head(queue) \in SpeedEvents
    /\ is_stopped' = (Head(queue) = "SPEED_STOP")
    /\ queue' = Tail(queue)
    /\ UNCHANGED <<motorVars, standing, missedVars, Elsewhere>>

\* A puk that is Active asks for the slow belt; if there is none, nobody does.
DispatchStart ==
    LET over == "TIMER_MEASURE_OUT" \in Range(queue) IN
    /\ Head(queue) = "HEIGHT_SENSOR_MEASURE_START"
    /\ \/ /\ queue' = Append(Tail(queue), "MOTOR_SLOW")
          /\ overtaken' = over
       \/ /\ queue' = Tail(queue)
          /\ overtaken' = (overtaken /\ over)
    /\ UNCHANGED <<motorVars, is_stopped, standing, ignored, Elsewhere>>

\* Puk_control and Error_fsm hear the result; neither concerns the belt here.
DispatchResult ==
    /\ Head(queue) \in {"IDENTIFIED_PUK", "ERR_UNDEFINED_PUK"}
    /\ queue' = Tail(queue)
    /\ UNCHANGED <<motorVars, is_stopped, standing, missedVars, Elsewhere>>

Dispatch ==
    /\ queue # <<>>
    /\ DispatchMotor \/ DispatchSpeed \/ DispatchStart \/ DispatchResult

-----------------------------------------------------------------------------
\* The rest of the belt: the first puk starts it; a puk at the exit stops it
\* until the neighbour takes it, an error until a person lets the belt go on.

Post(e) ==
    /\ Len(queue) < MaxQueue
    /\ queue' = Append(queue, e)
    /\ UNCHANGED <<motorVars, threadVars, last_type, is_stopped, height_diff,
                   standing, missedVars>>

Start == motor = "Idle" /\ queue = <<>> /\ Post("MOTOR_NORMAL") /\ UNCHANGED stops
Stop ==
    /\ stops < MaxStops /\ stops' = stops + 1
    /\ Post("MOTOR_STOP") \/ Post("MOTOR_STOP_ERR")
GoOn ==
    /\ queue = <<>>
    /\ \/ motor = "Stop" /\ Post("MOTOR_START")
       \/ motor = "Stop_Error" /\ Post("MOTOR_START_ERR")
    /\ UNCHANGED stops

Next == Measure \/ Evaluate \/ Dispatch \/ Start \/ Stop \/ GoOn

\* A step of Evaluate, whatever it computes.
Evaluated == pc = "evaluating" /\ pc' \in {"identified", "failed"}

\* Both threads run, and a stopped belt is started again.
Fairness ==
    /\ WF_vars(Measure) /\ WF_pc(Evaluated)
    /\ WF_vars(Dispatch)
    /\ WF_vars(GoOn)

Spec == Init /\ [][Next]_vars /\ Fairness

-----------------------------------------------------------------------------
\* Every variable has a value the code can give it; what is recognised is a
\* type of puk; a measurement has fewer than MAX_LENGTH samples.
TypeOK ==
    /\ motor \in MotorStates
    /\ queue \in Seq(Event \cup {"HEIGHT_SENSOR_MEASURE_START", "IDENTIFIED_PUK"})
    /\ pc \in {"poll", "sampling", "sampled", "measured", "evaluating",
              "identified", "failed"}
    /\ readings \subseteq Readings
    /\ height_vector \in Seq(Readings \cup {UNDEFINED})
    /\ length_counter \in 0..MAX_LENGTH
    /\ Len(height_vector) + ground_debouncer <= MAX_LENGTH
    /\ ground_debouncer \in 0..(MaxGround + 1)
    /\ last_type \in PukTypes \cup {0, UNDEFINED}
    /\ pc = "evaluating" =>
         evaluate_puk_type(height_vector, height_diff) \in PukTypes \cup {UNDEFINED}
    /\ is_stopped \in BOOLEAN /\ overtaken \in BOOLEAN /\ ignored \in BOOLEAN
    /\ height_diff \in Int /\ standing \in Nat /\ stops \in 0..MaxStops

\* The loop that recognises steps, with its counter and its array filled as it
\* goes, sees the sequence of classes each of which lasts for MINIMAL_WIDTH
\* samples (is_ic_or_hole()).
PatternOfRuns ==
    pc = "evaluating" =>
      Pattern(height_vector, height_diff) = StepsOf(Classes(height_vector, height_diff))

\* The loop that reads a bit code reads the runs of high and low samples, but
\* for the last sample, the first digit at double width.  From the INT_BITS-th
\* digit on it sets the bits of the first ones again (is_bit_code()).
DigitsOfRuns ==
    LET b == filter_array(height_vector)
    IN  pc = "evaluating" /\ b # <<>> =>
          Digits(b).type = {k % INT_BITS : k \in DigitsOf(Front(b))}

\* What the thread may have said when a measurement is over.
WholeReports ==
    LET S == "HEIGHT_SENSOR_MEASURE_START"
        O == "TIMER_MEASURE_OUT"
        E == "ERR_UNDEFINED_PUK"
    IN  {<<O>>, <<E, O>>, <<S, O>>, <<S, E, O>>, <<S, O, E>>, <<S, O, "IDENTIFIED_PUK">>}

\* However a measurement ends, the belt is released once, and of start and
\* answer there is at most one each; the type of a puk comes only after its
\* start and the release, ERR_UNDEFINED_PUK may also come before the release
\* and without a start (execute(), get_height_array()).
Reports ==
    IF pc = "poll" THEN said \in WholeReports \cup {<<>>}
    ELSE \E whole \in WholeReports : IsPrefix(said, whole)

\* Once the thread has been told that the belt stands it takes one more sample
\* at most, whatever stops and starts have crossed before.  How many it takes
\* while SPEED_STOP still waits is not bounded (the loop at the end of a round
\* in get_height_array(), is_stopped, the entry actions of Motorcontroler).
StandingSample == standing <= 1

\* A measurement whose start has been reported is not over yet.
Announced ==
    /\ pc \in {"sampling", "sampled", "measured"}
    /\ "HEIGHT_SENSOR_MEASURE_START" \in Range(said)

\* If the belt is slow, or will be when it goes on, its release is still to
\* come, unless it was missed in one of two ways: TIMER_MEASURE_OUT was handled
\* while the belt stood, or it was already waiting when MOTOR_SLOW was asked for
\* (Motorcontroler ignores what its state has no method for).
SlowWhileMeasured ==
    Speed = "Slow" =>
        overtaken \/ ignored \/ Announced \/ "TIMER_MEASURE_OUT" \in Range(queue)

\* A slow belt becomes fast again, whatever the sensor reads and however often
\* the belt is stopped in between, unless its release is missed in one of these
\* two ways.
SlowEnds == motor = "Slow" ~> motor = "Normal" \/ overtaken \/ ignored
=============================================================================
