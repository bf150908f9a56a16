-------------------------- MODULE TickTimerProofs --------------------------
(***************************************************************************)
(* Proofs about TickTimer for every set of durations, every pair of speeds *)
(* and any number of timers.                                               *)
(***************************************************************************)
EXTENDS TickTimer, PulseQueues

\* There is a longest duration.
LEMMA MaxDurationIs ==
    /\ MaxDuration \in Nat \ {0}
    /\ \A d \in Durations : d \in 1..MaxDuration
  <1>1. PICK longest \in Durations : \A d \in Durations : d <= longest
    BY DurationAssumption
  <1>2. MaxDuration \in Durations /\ \A d \in Durations : d <= MaxDuration
    BY <1>1 DEF MaxDuration
  <1> QED BY <1>2, DurationAssumption

\* find_timer() finds the timer.
LEMMA FindTimerFinds ==
    ASSUME timers \in Seq([id : Ids, left : Int]),
           \A j, k \in DOMAIN timers : timers[j].id = timers[k].id => j = k,
           NEW id, Listed(id)
    PROVE  find_timer(id) \in DOMAIN timers /\ timers[find_timer(id)].id = id
  <1>1. PICK k \in DOMAIN timers : timers[k].id = id
    BY DEF Listed
  <1>2. \A j \in 1..(k - 1) : j \in DOMAIN timers /\ timers[j].id # id
    BY <1>1
  <1> QED BY <1>1, <1>2 DEF find_timer

-----------------------------------------------------------------------------
\* The inductive invariant.

\* The tick thread holds the mutex while it walks through the list.
Owned == lock = "tick" <=> tick \in {"counting", "erasing"}

\* The k-th timer has sent its pulse and is about to leave the list.
Dying(k) == tick = "erasing" /\ k = pos

\* Each timer has its own id, in the order of the calls.
ListInv ==
    /\ Len(timers) <= lastId
    /\ tick = "erasing" => pos \in DOMAIN timers
    /\ \A k \in DOMAIN timers : timers[k].id <= lastId
    /\ \A j, k \in DOMAIN timers : timers[j].id = timers[k].id => j = k

\* Who has sent a pulse is not in the list but for the one that is dying.
FateInv ==
    /\ sent \cup stopped \subseteq 1..lastId
    /\ sent \cap stopped = {}
    /\ \A k \in DOMAIN timers : timers[k].id \notin stopped
    /\ \A k \in DOMAIN timers : timers[k].id \in sent <=> Dying(k)
    /\ \A id \in 1..lastId : id \in sent \cup stopped \/ Listed(id)

\* The tick that is under way has not counted the k-th timer yet.
Uncounted(k) == (tick = "counting" /\ k >= pos) \/ (tick = "erasing" /\ k > pos)

\* What is left of a timer is no less than fast ticks would have left of it.
CountInv ==
    \A k \in DOMAIN timers :
        /\ timers[k].left > 0 \/ Dying(k)
        /\ \/ full[timers[k].id] = 0
           \/ timers[k].left >= full[timers[k].id] + (IF Uncounted(k) THEN Fast ELSE 0)

Inv == TypeOK /\ Owned /\ ListInv /\ FateInv /\ CountInv

\* The invariant at the beginning.
LEMMA InvInit == Init => Inv
  <1> SUFFICES ASSUME Init PROVE Inv
    OBVIOUS
  <1> USE DEF Init
  <1>1. TypeOK
    BY MaxTimersAssumption, MaxDurationIs, SpeedAssumption DEF TypeOK, Ids
  <1>2. Owned /\ ListInv /\ FateInv /\ CountInv
    BY DEF Owned, ListInv, FateInv, CountInv, Dying, Uncounted
  <1> QED BY <1>1, <1>2 DEF Inv

\* What is in the list.
Entry == [id : Ids, left : (1 - Fast)..MaxDuration]

\* The list with its types.
LEMMA ListType ==
    ASSUME TypeOK
    PROVE  /\ timers \in Seq(Entry)
           /\ timers \in Seq([id : Ids, left : Int])
           /\ Len(timers) \in Nat /\ DOMAIN timers = 1..Len(timers)
           /\ \A k \in DOMAIN timers :
                  /\ timers[k] \in Entry
                  /\ timers[k].id \in Ids /\ timers[k].id \in Nat
                  /\ timers[k].left \in (1 - Fast)..MaxDuration /\ timers[k].left \in Int
                  /\ full[timers[k].id] \in Nat
  <1>1. timers \in Seq(Entry) /\ full \in [Ids -> 0..MaxDuration]
    BY DEF TypeOK, Entry
  <1>2. Entry \subseteq [id : Ids, left : Int]
    BY MaxDurationIs, SpeedAssumption DEF Entry
  <1>3. \A t \in Entry : /\ t.id \in Ids /\ t.id \in Nat
                         /\ t.left \in (1 - Fast)..MaxDuration /\ t.left \in Int
    BY MaxDurationIs, SpeedAssumption DEF Entry, Ids
  <1>4. \A id \in Ids : full[id] \in Nat
    BY <1>1, MaxDurationIs
  <1>5. /\ Len(timers) \in Nat /\ DOMAIN timers = 1..Len(timers)
        /\ \A k \in DOMAIN timers : timers[k] \in Entry
    BY <1>1
  <1>6. timers \in Seq([id : Ids, left : Int])
    BY <1>1, <1>2, SeqSubset
  <1> QED BY <1>1, <1>3, <1>4, <1>5, <1>6

\* A timer is started.
LEMMA StartStep ==
    ASSUME Inv, NEW d \in Durations, start_timer(d)
    PROVE  Inv'
  <1> DEFINE new == [id |-> lastId + 1, left |-> d]
  <1>1. /\ timers' = Append(timers, new)
        /\ lastId' = lastId + 1 /\ lastId + 1 \in Ids /\ lastId \in Nat
        /\ lock' = "free" /\ lock # "tick"
        /\ full' = [full EXCEPT ![lastId + 1] = d]
        /\ step' = step /\ tick' = tick /\ pos' = pos
        /\ sent' = sent /\ stopped' = stopped
    BY MaxTimersAssumption
       DEF Inv, TypeOK, Ids, start_timer, callVars, tickVars, DispatcherMayLock
  <1>2. TypeOK /\ Owned /\ ListInv /\ FateInv /\ CountInv
    BY DEF Inv
  <1>3. /\ new \in [id : Ids, left : (1 - Fast)..MaxDuration]
        /\ new.id = lastId + 1 /\ new.left = d /\ d \in 1..MaxDuration
    BY <1>1, MaxDurationIs, SpeedAssumption
  <1>4. /\ timers' \in Seq([id : Ids, left : (1 - Fast)..MaxDuration])
        /\ Len(timers') = Len(timers) + 1
        /\ DOMAIN timers' = 1..(Len(timers) + 1)
        /\ \A k \in DOMAIN timers : timers'[k] = timers[k]
        /\ timers'[Len(timers) + 1] = new
    BY <1>1, <1>2, <1>3, SMTT(30) DEF TypeOK
  <1> HIDE DEF new
  <1>5. /\ Len(timers) \in Nat /\ DOMAIN timers = 1..Len(timers)
        /\ \A k \in DOMAIN timers : timers[k].id \in Nat /\ timers[k].left \in Int
    BY <1>2, ListType, MaxDurationIs, SpeedAssumption DEF Ids
  <1>6. TypeOK'
    <2>1. full' \in [Ids -> 0..MaxDuration]
      BY <1>1, <1>2, <1>3 DEF TypeOK
    <2>2. lastId' \in 0..MaxTimers
      BY <1>1 DEF Ids
    <2> QED BY <1>1, <1>2, <1>4, <2>1, <2>2 DEF TypeOK
  <1>7. Owned' /\ tick \notin {"counting", "erasing"}
    BY <1>1, <1>2 DEF Owned
  <1>8. ListInv'
    <2>1. \A k \in DOMAIN timers : timers[k].id # new.id /\ timers[k].id <= lastId
      BY <1>1, <1>2, <1>3, <1>5 DEF ListInv
    <2> QED BY <1>1, <1>2, <1>3, <1>4, <1>5, <1>7, <2>1, SMTT(30) DEF ListInv
  <1>9. FateInv'
    <2>1. sent \cup stopped \subseteq 1..lastId /\ lastId + 1 \notin sent \cup stopped
      BY <1>1, <1>2 DEF FateInv
    <2>2. /\ \A k \in DOMAIN timers' : timers'[k].id \notin stopped'
          /\ \A k \in DOMAIN timers' : timers'[k].id \notin sent'
      BY <1>1, <1>2, <1>3, <1>4, <1>5, <1>7, <2>1 DEF FateInv, Dying
    <2>3. \A j \in 1..lastId' : j \in sent' \cup stopped' \/ Listed(j)'
      <3>1. \A j \in 1..lastId : Listed(j) => Listed(j)'
        BY <1>4, <1>5 DEF Listed
      <3>2. ASSUME NEW j, j = lastId + 1
            PROVE  Listed(j)'
        BY <1>3, <1>4, <1>5, <3>2 DEF Listed
      <3>3. \A j \in 1..lastId : j \in sent \cup stopped \/ Listed(j)
        BY <1>2 DEF FateInv
      <3> QED BY <1>1, <3>1, <3>2, <3>3
    <2> QED BY <1>1, <1>2, <1>7, <2>1, <2>2, <2>3 DEF FateInv, Dying
  <1>10. CountInv'
    <2>1. \A k \in DOMAIN timers : full'[timers[k].id] = full[timers[k].id]
      BY <1>1, <1>2, <1>3, <1>5, ListType, SMTT(30) DEF ListInv, TypeOK
    <2>2. full'[lastId + 1] = d
      BY <1>1, <1>2 DEF TypeOK
    <2> QED BY <1>1, <1>2, <1>3, <1>4, <1>5, <1>7, <2>1, <2>2
            DEF CountInv, Dying, Uncounted
  <1> QED BY <1>6, <1>7, <1>8, <1>9, <1>10 DEF Inv

\* The timer at i leaves the list: what the others are is unchanged.
LEMMA ListRemoval ==
    ASSUME Inv, NEW i \in DOMAIN timers, timers' = RemoveAt(timers, i)
    PROVE  /\ timers' \in Seq(Entry)
           /\ Len(timers) \in Nat /\ DOMAIN timers = 1..Len(timers)
           /\ Len(timers') = Len(timers) - 1 /\ DOMAIN timers' = 1..(Len(timers) - 1)
           /\ \A k \in DOMAIN timers' :
                  timers'[k] = timers[IF k < i THEN k ELSE k + 1]
           /\ \A j, k \in DOMAIN timers' :
                  timers'[j].id = timers'[k].id => j = k
           /\ \A k \in DOMAIN timers' :
                  /\ timers'[k].id # timers[i].id
                  /\ (IF k < i THEN k ELSE k + 1) \in DOMAIN timers \ {i}
           /\ \A id : Listed(id) /\ id # timers[i].id => Listed(id)'
  <1>0. TypeOK
    BY DEF Inv
  <1>1. /\ timers \in Seq(Entry)
        /\ Len(timers) \in Nat /\ DOMAIN timers = 1..Len(timers)
    BY <1>0, ListType
  <1>2. /\ timers' \in Seq(Entry)
        /\ Len(timers') = Len(timers) - 1 /\ DOMAIN timers' = 1..(Len(timers) - 1)
        /\ \A k \in DOMAIN timers' :
               timers'[k] = timers[IF k < i THEN k ELSE k + 1]
    BY <1>1, Removal, ZenonT(30)
  <1>3. \A k \in DOMAIN timers' : (IF k < i THEN k ELSE k + 1) \in DOMAIN timers \ {i}
    BY <1>1, <1>2
  <1>4. \A j, k \in DOMAIN timers : timers[j].id = timers[k].id => j = k
    BY DEF Inv, ListInv
  <1>5. \A k \in DOMAIN timers' : timers'[k].id # timers[i].id
    BY <1>2, <1>3, <1>4
  <1>6. ASSUME NEW j \in DOMAIN timers', NEW k \in DOMAIN timers',
               timers'[j].id = timers'[k].id
        PROVE  j = k
    <2>1. (IF j < i THEN j ELSE j + 1) = (IF k < i THEN k ELSE k + 1)
      BY <1>2, <1>3, <1>4, <1>6
    <2>2. j \in Int /\ k \in Int /\ i \in Int
      BY <1>1, <1>2
    <2> QED BY <2>1, <2>2
  <1>7. ASSUME NEW id, Listed(id), id # timers[i].id
        PROVE  Listed(id)'
    <2>1. PICK j \in DOMAIN timers : timers[j].id = id
      BY <1>7 DEF Listed
    <2> DEFINE k == IF j < i THEN j ELSE j - 1
    <2>2. j # i /\ j \in 1..Len(timers) /\ i \in 1..Len(timers)
      BY <1>1, <1>7, <2>1
    <2>3. k \in 1..(Len(timers) - 1) /\ j = IF k < i THEN k ELSE k + 1
      BY <1>1, <2>2
    <2> HIDE DEF k
    <2> QED BY <1>2, <2>1, <2>3 DEF Listed
  <1> QED BY <1>1, <1>2, <1>3, <1>5, <1>6, <1>7

\* A timer is stopped.
LEMMA StopStep ==
    ASSUME Inv, NEW id \in Ids, StopListed(id)
    PROVE  Inv'
  <1> DEFINE i == find_timer(id)
  <1>1. /\ timers' = RemoveAt(timers, i) /\ Listed(id)
        /\ stopped' = stopped \cup {id}
        /\ lock' = "free" /\ lock # "tick"
        /\ lastId' = lastId /\ full' = full
        /\ step' = step /\ tick' = tick /\ pos' = pos /\ sent' = sent
    BY DEF StopListed, tickVars, DispatcherMayLock
  <1>2. TypeOK /\ Owned /\ ListInv /\ FateInv /\ CountInv
    BY DEF Inv
  <1>3. i \in DOMAIN timers /\ timers[i].id = id
    BY <1>1, <1>2, FindTimerFinds, ListType DEF ListInv
  <1> HIDE DEF i
  <1>4. /\ timers' \in Seq(Entry)
        /\ Len(timers) \in Nat /\ DOMAIN timers = 1..Len(timers)
        /\ Len(timers') = Len(timers) - 1
        /\ \A k \in DOMAIN timers' : \E m \in DOMAIN timers : timers'[k] = timers[m]
        /\ \A j, k \in DOMAIN timers' : timers'[j].id = timers'[k].id => j = k
        /\ \A k \in DOMAIN timers' : timers'[k].id # id
        /\ \A j : Listed(j) /\ j # id => Listed(j)'
    <2>1. /\ \A k \in DOMAIN timers' :
                timers'[k] = timers[IF k < i THEN k ELSE k + 1]
          /\ \A k \in DOMAIN timers' : (IF k < i THEN k ELSE k + 1) \in DOMAIN timers
      BY <1>1, <1>3, ListRemoval
    <2> QED BY <1>1, <1>3, <2>1, ListRemoval
  <1>5. Owned' /\ tick \notin {"counting", "erasing"}
    BY <1>1, <1>2 DEF Owned
  <1>6. TypeOK'
    BY <1>1, <1>2, <1>4 DEF TypeOK, Entry
  <1>7. lastId \in Nat
    BY <1>2, MaxTimersAssumption DEF TypeOK
  <1>8. ListInv'
    BY <1>1, <1>2, <1>4, <1>5, <1>7 DEF ListInv
  <1>9. FateInv'
    <2>1. id \in 1..lastId /\ id \notin sent
      BY <1>2, <1>3, <1>5, <1>7 DEF ListInv, FateInv, Dying, Ids
    <2>2. \A k \in DOMAIN timers' : timers'[k].id \notin stopped' \cup sent'
      BY <1>1, <1>2, <1>4, <1>5 DEF FateInv, Dying
    <2>3. \A j \in 1..lastId' : j \in sent' \cup stopped' \/ Listed(j)'
      BY <1>1, <1>2, <1>4 DEF FateInv
    <2> QED BY <1>1, <1>2, <1>5, <2>1, <2>2, <2>3 DEF FateInv, Dying
  <1>10. CountInv'
    BY <1>1, <1>2, <1>4, <1>5 DEF CountInv, Dying, Uncounted
  <1> QED BY <1>5, <1>6, <1>8, <1>9, <1>10 DEF Inv

\* Calls that do not change the list, and changes of the speed.
LEMMA QuietStep ==
    ASSUME Inv,
           \/ \E id \in Ids \cup {NoTimer} : CallMissing(id)
           \/ \E id \in Ids : GetListed(id)
           \/ \E s \in {0, Slow, Fast} : SetSpeed(s)
           \/ UNCHANGED vars
    PROVE  Inv'
  <1>1. /\ timers' = timers /\ lastId' = lastId /\ full' = full
        /\ tick' = tick /\ pos' = pos /\ sent' = sent /\ stopped' = stopped
        /\ step' \in {0, Slow, Fast}
        /\ lock' \in {"free", "dispatcher", "tick"}
        /\ lock' = "tick" <=> lock = "tick"
    BY DEF Inv, TypeOK, CallMissing, GetListed, SetSpeed, vars, callVars, tickVars,
           DispatcherMayLock
  <1>2. TypeOK' /\ Owned' /\ ListInv'
    BY <1>1 DEF Inv, TypeOK, Owned, ListInv
  <1>3. FateInv' /\ CountInv'
    BY <1>1 DEF Inv, FateInv, CountInv, Dying, Uncounted, Listed
  <1> QED BY <1>2, <1>3 DEF Inv

-----------------------------------------------------------------------------
\* The tick thread.

\* The tick thread wakes up.
LEMMA TickStep ==
    ASSUME Inv, Tick
    PROVE  Inv'
  <1>1. /\ tick = "waiting" /\ tick' = "locking"
        /\ UNCHANGED <<timers, lock, step, full, lastId, stopped, pos, sent>>
    BY DEF Tick, callVars
  <1>2. TypeOK' /\ Owned' /\ ListInv'
    BY <1>1 DEF Inv, TypeOK, Owned, ListInv
  <1>3. FateInv' /\ CountInv'
    BY <1>1 DEF Inv, FateInv, CountInv, Dying, Uncounted, Listed
  <1> QED BY <1>2, <1>3 DEF Inv

\* The tick thread gets the mutex.
LEMMA TickLockStep ==
    ASSUME Inv, TickLock
    PROVE  Inv'
  <1>1. /\ tick = "locking" /\ tick' = "counting" /\ pos' = 1
        /\ lock' = "tick"
        /\ full' = [id \in Ids |-> IF full[id] > Fast THEN full[id] - Fast ELSE 0]
        /\ UNCHANGED <<timers, step, lastId, stopped, sent>>
    BY DEF TickLock, callVars
  <1>2. TypeOK /\ Owned /\ ListInv /\ FateInv /\ CountInv
    BY DEF Inv
  <1>3. /\ full \in [Ids -> 0..MaxDuration] /\ full' \in [Ids -> 0..MaxDuration]
    BY <1>1, <1>2, MaxDurationIs, SpeedAssumption DEF TypeOK
  <1>4. TypeOK' /\ Owned' /\ ListInv'
    BY <1>1, <1>2, <1>3, MaxTimersAssumption DEF TypeOK, Owned, ListInv
  <1>5. FateInv'
    BY <1>1, <1>2 DEF FateInv, Dying, Listed
  <1>6. CountInv'
    <2> SUFFICES ASSUME NEW k \in DOMAIN timers
                 PROVE  /\ timers[k].left > 0
                        /\ \/ full'[timers[k].id] = 0
                           \/ timers[k].left >= full'[timers[k].id] + Fast
      BY <1>1, SpeedAssumption, ListType, <1>2 DEF CountInv, Dying, Uncounted
    <2>1. timers[k].id \in Ids /\ timers[k].left \in Int
      BY <1>2, ListType, MaxDurationIs, SpeedAssumption
    <2>2. /\ timers[k].left > 0
          /\ full[timers[k].id] = 0 \/ timers[k].left >= full[timers[k].id]
      BY <1>1, <1>2, <1>3, <2>1 DEF CountInv, Dying, Uncounted
    <2> QED BY <1>1, <1>3, <2>1, <2>2, SpeedAssumption
  <1> QED BY <1>4, <1>5, <1>6 DEF Inv

\* It counts one timer down.
LEMMA TickCountStep ==
    ASSUME Inv, TickCount
    PROVE  Inv'
  <1> DEFINE counted == timers[pos].left - step
  <1>1. /\ tick = "counting" /\ pos <= Len(timers)
        /\ timers' = [timers EXCEPT ![pos].left = counted]
        /\ IF counted <= 0
           THEN sent' = sent \cup {timers[pos].id} /\ tick' = "erasing" /\ pos' = pos
           ELSE pos' = pos + 1 /\ tick' = tick /\ sent' = sent
        /\ UNCHANGED <<lock, step, full, lastId, stopped>>
    BY DEF TickCount, callVars, RunOut
  <1>2. TypeOK /\ Owned /\ ListInv /\ FateInv /\ CountInv
    BY DEF Inv
  <1>3. /\ Len(timers) \in Nat /\ DOMAIN timers = 1..Len(timers)
        /\ \A k \in DOMAIN timers :
               /\ timers[k] \in Entry
               /\ timers[k].id \in Ids /\ timers[k].left \in (1 - Fast)..MaxDuration
    BY <1>2, ListType
  <1>4. pos \in DOMAIN timers
    BY <1>1, <1>2, <1>3 DEF TypeOK
  <1>5. timers[pos].left > 0 /\ counted \in (1 - Fast)..MaxDuration
    <2>1. timers[pos].left > 0
      BY <1>1, <1>2, <1>4 DEF CountInv, Dying
    <2>2. step \in {0, Slow, Fast}
      BY <1>2 DEF TypeOK
    <2>3. timers[pos].left \in (1 - Fast)..MaxDuration
      BY <1>3, <1>4
    <2> QED BY <2>1, <2>2, <2>3, SpeedAssumption, MaxDurationIs
  <1>6. /\ timers' \in Seq(Entry)
        /\ Len(timers') = Len(timers) /\ DOMAIN timers' = DOMAIN timers
        /\ \A k \in DOMAIN timers : timers'[k].id = timers[k].id
        /\ \A k \in DOMAIN timers \ {pos} : timers'[k] = timers[k]
        /\ timers'[pos].left = counted
    <2>1. timers' = [timers EXCEPT ![pos] = [timers[pos] EXCEPT !.left = counted]]
      BY <1>1
    <2>2. timers[pos] \in Entry /\ [timers[pos] EXCEPT !.left = counted] \in Entry
      BY <1>3, <1>4, <1>5 DEF Entry
    <2> HIDE DEF counted
    <2>3. /\ timers' \in Seq(Entry)
          /\ Len(timers') = Len(timers) /\ DOMAIN timers' = DOMAIN timers
          /\ \A k \in DOMAIN timers \ {pos} : timers'[k] = timers[k]
          /\ timers'[pos] = [timers[pos] EXCEPT !.left = counted]
      BY <1>2, <1>3, <1>4, <2>1, <2>2, ListType
    <2>4. timers'[pos].left = counted /\ timers'[pos].id = timers[pos].id
      BY <2>2, <2>3 DEF Entry
    <2> QED BY <2>3, <2>4
  <1> HIDE DEF counted
  <1>7. Owned'
    BY <1>1, <1>2 DEF Owned
  <1>8. TypeOK'
    <2>1. pos + 1 \in 1..(2 * MaxTimers + 1)
      BY <1>1, <1>2, <1>3, MaxTimersAssumption, SMTT(30) DEF TypeOK, ListInv
    <2> QED BY <1>1, <1>2, <1>3, <1>4, <1>6, <2>1, SMTT(30) DEF TypeOK, Entry
  <1>9. ListInv'
    BY <1>1, <1>2, <1>4, <1>6 DEF ListInv
  <1>10. FateInv'
    <2>1. \A j : Listed(j) => Listed(j)'
      BY <1>6 DEF Listed
    <2>2. timers[pos].id \in 1..lastId /\ timers[pos].id \notin stopped
      <3>1. timers[pos].id \in 1..MaxTimers
        BY <1>3, <1>4 DEF Ids
      <3>2. timers[pos].id <= lastId
        BY <1>2, <1>4 DEF ListInv
      <3>3. timers[pos].id \notin stopped
        BY <1>2, <1>4 DEF FateInv
      <3>4. lastId \in 0..MaxTimers
        BY <1>2 DEF TypeOK
      <3> QED BY <3>1, <3>2, <3>3, <3>4, MaxTimersAssumption
    <2>3. \A k \in DOMAIN timers : timers[k].id \in sent' <=> (k = pos /\ counted <= 0)
      BY <1>1, <1>2, <1>4 DEF FateInv, ListInv, Dying
    <2> QED BY <1>1, <1>2, <1>6, <2>1, <2>2, <2>3 DEF FateInv, Dying
  <1>11. CountInv'
    <2> SUFFICES ASSUME NEW k \in DOMAIN timers
                 PROVE  /\ timers'[k].left > 0 \/ Dying(k)'
                        /\ \/ full[timers[k].id] = 0
                           \/ timers'[k].left >= full[timers[k].id]
                                + (IF Uncounted(k)' THEN Fast ELSE 0)
      BY <1>1, <1>6 DEF CountInv
    <2>1. /\ pos \in Nat /\ k \in Nat /\ full[timers[k].id] \in Int
          /\ timers[k].left \in Int /\ step \in 0..Fast /\ Fast \in Nat
          /\ counted \in Int /\ counted = timers[pos].left - step
      <3>1. step \in 0..Fast /\ Fast \in Nat /\ pos \in Nat
        BY <1>2, SpeedAssumption DEF TypeOK
      <3>2. /\ full[timers[k].id] \in Int /\ timers[k].left \in Int
            /\ timers[pos].left \in Int
        BY <1>2, <1>4, ListType
      <3> QED BY <1>3, <3>1, <3>2 DEF counted
    <2>2. CASE k = pos
      <3>1. ~ Uncounted(k)' /\ timers'[k].left = counted
        BY <1>1, <1>6, <2>1, <2>2 DEF Uncounted
      <3>2. full[timers[k].id] = 0 \/ timers[k].left >= full[timers[k].id] + Fast
        BY <1>1, <1>2, <2>1, <2>2, SMTT(30) DEF CountInv, Uncounted
      <3>3. counted > 0 \/ Dying(k)'
        BY <1>1, <2>1, <2>2 DEF Dying
      <3> QED BY <2>1, <2>2, <3>1, <3>2, <3>3
    <2>3. CASE k # pos
      <3>1. timers'[k] = timers[k] /\ timers[k].left > 0
        BY <1>1, <1>2, <1>6, <2>3 DEF CountInv, Dying
      <3>2. Uncounted(k)' <=> Uncounted(k)
        BY <1>1, <2>1, <2>3 DEF Uncounted
      <3> QED BY <1>2, <3>1, <3>2 DEF CountInv
    <2> QED BY <2>2, <2>3
  <1> QED BY <1>7, <1>8, <1>9, <1>10, <1>11 DEF Inv

\* It erases a timer that has run out.
LEMMA TickEraseStep ==
    ASSUME Inv, TickErase
    PROVE  Inv'
  <1>1. /\ tick = "erasing" /\ tick' = "counting"
        /\ timers' = RemoveAt(timers, pos) /\ pos' = pos + 1
        /\ UNCHANGED <<lock, step, full, lastId, stopped, sent>>
    BY DEF TickErase, callVars, PosAfterErase
  <1>2. TypeOK /\ Owned /\ ListInv /\ FateInv /\ CountInv
    BY DEF Inv
  <1>3. pos \in DOMAIN timers
    BY <1>1, <1>2 DEF ListInv
  <1>4. /\ timers' \in Seq(Entry)
        /\ Len(timers) \in Nat /\ DOMAIN timers = 1..Len(timers)
        /\ Len(timers') = Len(timers) - 1 /\ DOMAIN timers' = 1..(Len(timers) - 1)
        /\ \A k \in DOMAIN timers' : timers'[k] = timers[IF k < pos THEN k ELSE k + 1]
        /\ \A j, k \in DOMAIN timers' : timers'[j].id = timers'[k].id => j = k
        /\ \A k \in DOMAIN timers' :
               /\ timers'[k].id # timers[pos].id
               /\ (IF k < pos THEN k ELSE k + 1) \in DOMAIN timers \ {pos}
        /\ \A id : Listed(id) /\ id # timers[pos].id => Listed(id)'
    BY <1>1, <1>3, ListRemoval
  <1>5. TypeOK'
    <2>1. pos + 1 \in 1..(2 * MaxTimers + 1)
      BY <1>2, <1>3, <1>4, MaxTimersAssumption, SMTT(30) DEF TypeOK, ListInv
    <2> QED BY <1>1, <1>2, <1>4, <2>1 DEF TypeOK, Entry
  <1>6. Owned' /\ ListInv'
    <2>1. lastId \in Nat
      BY <1>2, MaxTimersAssumption DEF TypeOK
    <2> QED BY <1>1, <1>2, <1>4, <2>1 DEF Owned, ListInv
  <1>7. FateInv'
    <2>1. timers[pos].id \in sent
      BY <1>1, <1>2, <1>3 DEF FateInv, Dying
    <2>2. \A k \in DOMAIN timers' : timers'[k].id \notin sent \cup stopped
      BY <1>1, <1>2, <1>4 DEF FateInv, Dying
    <2>3. \A id \in 1..lastId : id \in sent \cup stopped \/ Listed(id)'
      BY <1>2, <1>4, <2>1 DEF FateInv
    <2> QED BY <1>1, <1>2, <2>2, <2>3 DEF FateInv, Dying
  <1>8. CountInv'
    <2> SUFFICES ASSUME NEW k \in DOMAIN timers'
                 PROVE  /\ timers'[k].left > 0
                        /\ \/ full[timers'[k].id] = 0
                           \/ timers'[k].left >= full[timers'[k].id]
                                + (IF Uncounted(k)' THEN Fast ELSE 0)
      BY <1>1 DEF CountInv
    <2> DEFINE m == IF k < pos THEN k ELSE k + 1
    <2>1. m \in DOMAIN timers \ {pos} /\ timers'[k] = timers[m]
      BY <1>4
    <2>2. Uncounted(k)' => Uncounted(m)
      BY <1>1, <1>2, <1>4 DEF Uncounted, TypeOK
    <2>3. timers[m].id \in Ids /\ full[timers[m].id] \in Int /\ timers[m].left \in Int
      <3> HIDE DEF m
      <3> QED BY <1>2, <2>1, ListType
    <2> HIDE DEF m
    <2> QED BY <1>2, <2>1, <2>2, <2>3, SpeedAssumption DEF CountInv, Dying
  <1> QED BY <1>5, <1>6, <1>7, <1>8 DEF Inv

\* It releases the mutex.
LEMMA TickUnlockStep ==
    ASSUME Inv, TickUnlock
    PROVE  Inv'
  <1>1. /\ tick = "counting" /\ pos > Len(timers)
        /\ lock' = "free" /\ tick' = "waiting" /\ pos' = 1
        /\ UNCHANGED <<timers, step, full, lastId, stopped, sent>>
    BY DEF TickUnlock, callVars
  <1>2. TypeOK' /\ Owned' /\ ListInv'
    BY <1>1, MaxTimersAssumption DEF Inv, TypeOK, Owned, ListInv
  <1>3. FateInv'
    BY <1>1 DEF Inv, FateInv, Dying, Listed
  <1>4. CountInv'
    <2>1. \A k \in DOMAIN timers : ~ Uncounted(k) /\ ~ Dying(k)
      BY <1>1, ListType DEF Inv, TypeOK, Uncounted, Dying
    <2> QED BY <1>1, <2>1 DEF Inv, CountInv, Uncounted, Dying
  <1> QED BY <1>2, <1>3, <1>4 DEF Inv

\* The invariant in every step,
LEMMA InvNext == Inv /\ [Next]_vars => Inv'
  <1> SUFFICES ASSUME Inv, [Next]_vars PROVE Inv'
    OBVIOUS
  <1>1. CASE \E d \in Durations : start_timer(d)
    BY <1>1, StartStep
  <1>2. CASE \E id \in Ids : StopListed(id)
    BY <1>2, StopStep
  <1>3. CASE TickThread
    BY <1>3, TickStep, TickLockStep, TickCountStep, TickEraseStep, TickUnlockStep
       DEF TickThread
  <1>4. CASE \/ \E id \in Ids \cup {NoTimer} : CallMissing(id)
             \/ \E id \in Ids : GetListed(id)
             \/ \E s \in {0, Slow, Fast} : SetSpeed(s)
             \/ UNCHANGED vars
    BY <1>4, QuietStep
  <1> QED BY <1>1, <1>2, <1>3, <1>4 DEF Next

\* and always.
LEMMA Invariant == Spec => []Inv
  <1> QED BY InvInit, InvNext, PTL DEF Spec

-----------------------------------------------------------------------------
\* Every variable keeps its type (tick_timer.cpp).
THEOREM TypeCorrect == Spec => []TypeOK
  <1>1. Inv => TypeOK
    BY DEF Inv
  <1> QED BY Invariant, <1>1, PTL

\* Two threads lose no timer, and one that was stopped stays silent: each is in
\* the list once, or has sent its pulse, or was stopped (tick_timer.cpp:36-56,
\* 122-191).
THEOREM EachTimerHasOneFate == Spec => []OneFate
  <1>1. Inv => OneFate
    <2> SUFFICES ASSUME Inv, NEW id \in 1..lastId
                 PROVE  LET places == {k \in DOMAIN timers : timers[k].id = id}
                            dying == tick = "erasing" /\ pos \in places
                        IN  \/ id \in sent /\ id \notin stopped /\ (places = {} \/ dying)
                            \/ id \in stopped /\ id \notin sent /\ places = {}
                            \/ /\ id \notin sent \cup stopped
                               /\ \E k \in places : places = {k}
      BY DEF OneFate
    <2> DEFINE places == {k \in DOMAIN timers : timers[k].id = id}
    <2>1. CASE id \in sent
      BY <2>1 DEF Inv, FateInv, Dying
    <2>2. CASE id \in stopped
      BY <2>2 DEF Inv, FateInv
    <2>3. CASE id \notin sent \cup stopped
      <3>1. PICK k \in DOMAIN timers : timers[k].id = id
        BY <2>3 DEF Inv, FateInv, Listed
      <3>2. places = {k}
        BY <3>1 DEF Inv, ListInv
      <3> QED BY <2>3, <3>2
    <2> QED BY <2>1, <2>2, <2>3
  <1> QED BY Invariant, <1>1, PTL

\* No timer runs out before the belt can have moved its duration: no tick counts
\* one twice, although an erase moves the others up (tick_timer.cpp:122-191).
THEOREM NoTimerRunsOutEarly == Spec => []NeverEarly
  <1>1. Inv => NeverEarly
    <2> SUFFICES ASSUME Inv, NEW k \in DOMAIN timers, timers[k].left <= 0
                 PROVE  full[timers[k].id] = 0
      BY DEF NeverEarly
    <2>1. /\ timers[k].id \in Ids /\ timers[k].left \in Int
          /\ full[timers[k].id] \in Nat
      BY ListType, MaxDurationIs, SpeedAssumption DEF Inv, TypeOK
    <2> QED BY <2>1, SpeedAssumption DEF Inv, CountInv
  <1> QED BY Invariant, <1>1, PTL
=============================================================================
