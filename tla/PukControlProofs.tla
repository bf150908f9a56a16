-------------------------- MODULE PukControlProofs --------------------------
(***************************************************************************)
(* What holds of PukControl on every belt and for any number of puks.      *)
(*                                                                         *)
(* The invariants the runs check are inductive together with two facts:    *)
(* the objects on a belt are in states of that belt and in the order of    *)
(* their arrivals, and a puk has a timer only for a place it has been at.  *)
(***************************************************************************)
EXTENDS PukControl, PulseQueues, FiniteSetTheorems

\* The states an object of this belt may be in.
Ours == IF SYSTEM_NUMBER = 3 THEN GroupStates ELSE PukStates

\* What the objects of the list have in common.
ListInv ==
    /\ \A k \in DOMAIN puk_list : puk_list[k].state \in Ours /\ puk_list[k].id <= arrivals
    /\ \A j, k \in DOMAIN puk_list : j < k => puk_list[j].id < puk_list[k].id

\* The state in which a puk is watched by a timer.
Guards == [CREATE_PUK |-> "Start", HEIGHT_MEASURE_DURATION |-> "Active",
           HEIGHT_MEASURE_TO_RAMP |-> "Sortout",
           HEIGHT_MEASURE_TO_SWITCH |-> "To_Switch",
           SWITCH_TO_EXIT |-> "To_Exit", EXIT |-> "To_Next_Geme"]

\* A puk has timers of places it has reached only.
Reached(p, T) ==
    \A t \in T : t.of = p.id /\ t.kind \in DOMAIN Guards =>
                 \/ p.state = "Error"
                 \/ Place(Guards[t.kind]) <= Place(p.state)
TimersInv ==
    /\ IsFiniteSet(timers)
    /\ \A t \in timers : t.of <= arrivals
    /\ \A k \in DOMAIN puk_list : Reached(puk_list[k], timers)

Inv == TypeOK /\ ListInv /\ NoOvertaking /\ TimersInv /\ Watched /\ IdleBeltWaits

-----------------------------------------------------------------------------
\* Counting.

One(P) == IF P THEN 1 ELSE 0

\* How many objects are in state s, how many pulses of a kind wait, how many
\* timers of a kind run.
Num(l, s) == Cardinality({k \in DOMAIN l : l[k].state = s})
Waiting(q, kind) == Cardinality({k \in DOMAIN q : q[k].kind = kind})
Running(T, kind) == Cardinality({t \in T : t.kind = kind})

\* Some places of a sequence are a finite number.
LEMMA PlacesFinite ==
    ASSUME NEW n \in Nat, NEW K \in SUBSET (1..n)
    PROVE  IsFiniteSet(K) /\ Cardinality(K) \in Nat
  <1>1. IsFiniteSet(1..n)
    BY FS_Interval
  <1>2. IsFiniteSet(K)
    BY <1>1, FS_Subset
  <1> QED BY <1>2, FS_CardinalityType

\* When the i-th element goes, those behind it move up: it alone is missing
\* from any count.
LEMMA Dropped ==
    ASSUME NEW n \in Nat, NEW i \in 1..(n + 1), NEW K \in SUBSET (1..(n + 1)),
           NEW J \in SUBSET (1..n),
           \A k \in 1..n : k \in J <=> (IF k < i THEN k ELSE k + 1) \in K
    PROVE  Cardinality(K) = Cardinality(J) + One(i \in K)
  <1> DEFINE I == K \ {i}
             f == [k \in J |-> IF k < i THEN k ELSE k + 1]
  <1>1. /\ IsFiniteSet(K) /\ Cardinality(K) \in Nat
        /\ IsFiniteSet(J) /\ Cardinality(J) \in Nat
    <2> DEFINE m == n + 1
    <2>1. m \in Nat /\ K \in SUBSET (1..m)
      OBVIOUS
    <2> HIDE DEF m
    <2>2. IsFiniteSet(K) /\ Cardinality(K) \in Nat
      BY <2>1, PlacesFinite
    <2>3. IsFiniteSet(J) /\ Cardinality(J) \in Nat
      BY PlacesFinite
    <2> QED BY <2>2, <2>3
  <1>2. ASSUME NEW k \in J PROVE f[k] \in I /\ f[k] = IF k < i THEN k ELSE k + 1
    BY <1>2
  <1>3. ASSUME NEW m \in I PROVE \E k \in J : f[k] = m
    <2>1. CASE m < i
      <3>1. m \in 1..n /\ m \in J
        BY <2>1
      <3> QED BY <2>1, <3>1
    <2>2. CASE ~ (m < i)
      <3>1. m - 1 \in 1..n /\ ~ (m - 1 < i) /\ (m - 1) + 1 = m
        BY <2>2
      <3>2. m - 1 \in J
        BY <3>1
      <3> QED BY <3>1, <3>2
    <2> QED BY <2>1, <2>2
  <1>4. \A a, b \in J : f[a] = f[b] => a = b
    OBVIOUS
  <1>5. f \in Bijection(J, I)
    <2>1. f \in [J -> I]
      BY <1>2
    <2> HIDE DEF I, f
    <2> QED BY <1>3, <1>4, <2>1 DEF Bijection, Injection, Surjection, IsInjective
  <1> HIDE DEF f
  <1>6. ExistsBijection(J, I)
    BY <1>5 DEF ExistsBijection
  <1> HIDE DEF I
  <1>7. Cardinality(I) = Cardinality(J)
    BY <1>1, <1>6, FS_Bijection
  <1>8. Cardinality(I) = IF i \in K THEN Cardinality(K) - 1 ELSE Cardinality(K)
    BY <1>1, FS_RemoveElement DEF I
  <1> QED BY <1>1, <1>7, <1>8 DEF One

-----------------------------------------------------------------------------
\* Lists of objects.

AllStates == PukStates \cup GroupStates

\* An object is an id and a state.
LEMMA PukIs ==
    ASSUME NEW p \in Puk
    PROVE  p.id \in Arrivals /\ p.state \in AllStates
  BY DEF Puk, AllStates

\* One object gets into state s.
Gets(l, k, s, r) == r = [l EXCEPT ![k].state = s]

\* The list after one object got into state s: only its state has changed.
LEMMA Entered ==
    ASSUME NEW l \in Seq(Puk), NEW k \in DOMAIN l, NEW s \in AllStates, NEW r,
           Gets(l, k, s, r)
    PROVE  /\ r \in Seq(Puk) /\ Len(r) = Len(l)
           /\ DOMAIN r = DOMAIN l /\ DOMAIN l = 1..Len(l) /\ Len(l) \in Nat
           /\ \A j \in DOMAIN l : /\ r[j].id = l[j].id
                                  /\ r[j].state = IF j = k THEN s ELSE l[j].state
  <1> DEFINE p == [l[k] EXCEPT !.state = s]
  <1>1. r = [l EXCEPT ![k] = p]
    BY DEF Gets
  <1>2. l[k] \in Puk
    OBVIOUS
  <1>3. p \in Puk /\ p.id = l[k].id /\ p.state = s
    BY <1>2 DEF Puk, AllStates
  <1> HIDE DEF p
  <1>4. /\ r \in Seq(Puk) /\ Len(r) = Len(l) /\ DOMAIN r = DOMAIN l /\ DOMAIN l = 1..Len(l)
        /\ Len(l) \in Nat
        /\ \A j \in DOMAIN l : r[j] = IF j = k THEN p ELSE l[j]
    BY <1>1, <1>3
  <1> QED BY <1>3, <1>4

\* Some number of objects is in a state.
LEMMA NumType ==
    ASSUME NEW l \in Seq(Puk)
    PROVE  \A t : Num(l, t) \in Nat
  <1> SUFFICES ASSUME NEW t PROVE Num(l, t) \in Nat
    OBVIOUS
  <1>1. DOMAIN l = 1..Len(l) /\ Len(l) \in Nat
    OBVIOUS
  <1>2. {k \in DOMAIN l : l[k].state = t} \in SUBSET (1..Len(l))
    BY <1>1
  <1> QED BY <1>1, <1>2, PlacesFinite DEF Num

\* Then one more is in s and one less where it was.
LEMMA NumEntered ==
    ASSUME NEW l \in Seq(Puk), NEW k \in DOMAIN l, NEW s \in AllStates, NEW r,
           Gets(l, k, s, r), l[k].state # s
    PROVE  \A t : /\ Num(l, t) \in Nat /\ Num(r, t) \in Nat
                  /\ Num(r, t) = Num(l, t) - One(t = l[k].state) + One(t = s)
  <1> DEFINE a == l[k].state
  <1>1. /\ DOMAIN r = DOMAIN l /\ DOMAIN l = 1..Len(l) /\ Len(l) \in Nat
        /\ \A j \in DOMAIN l : r[j].state = IF j = k THEN s ELSE l[j].state
    BY Entered
  <1> SUFFICES ASSUME NEW t
               PROVE  /\ Num(l, t) \in Nat /\ Num(r, t) \in Nat
                      /\ Num(r, t) = Num(l, t) - One(t = a) + One(t = s)
    OBVIOUS
  <1> DEFINE K == {j \in DOMAIN l : l[j].state = t}
             J == {j \in DOMAIN r : r[j].state = t}
  <1>2. /\ IsFiniteSet(K) /\ Cardinality(K) \in Nat
        /\ IsFiniteSet(J) /\ Cardinality(J) \in Nat
    BY <1>1, PlacesFinite
  <1>3. k \in K <=> t = a
    OBVIOUS
  <1>4. J = IF t = s THEN K \cup {k} ELSE K \ {k}
    BY <1>1
  <1>5. Num(l, t) = Cardinality(K) /\ Num(r, t) = Cardinality(J)
    BY DEF Num
  <1>6. t = s => t # a
    OBVIOUS
  <1> HIDE DEF J, K, a
  <1>7. /\ Cardinality(K \cup {k}) = IF k \in K THEN Cardinality(K) ELSE Cardinality(K) + 1
        /\ Cardinality(K \ {k}) = IF k \in K THEN Cardinality(K) - 1 ELSE Cardinality(K)
    BY <1>2, FS_AddElement, FS_RemoveElement
  <1> QED BY <1>2, <1>3, <1>4, <1>5, <1>6, <1>7 DEF One

\* An object is appended: one more is in its state.
LEMMA NumAppended ==
    ASSUME NEW l \in Seq(Puk), NEW p \in Puk
    PROVE  \A t : /\ Num(l, t) \in Nat /\ Num(Append(l, p), t) \in Nat
                  /\ Num(Append(l, p), t) = Num(l, t) + One(t = p.state)
  <1> DEFINE r == Append(l, p)
             n == Len(l)
  <1>1. /\ n \in Nat /\ DOMAIN l = 1..n /\ DOMAIN r = 1..(n + 1)
        /\ r[n + 1] = p /\ \A j \in 1..n : r[j] = l[j]
    BY Appending
  <1> HIDE DEF r, n
  <1> SUFFICES ASSUME NEW t
               PROVE  /\ Num(l, t) \in Nat /\ Num(r, t) \in Nat
                      /\ Num(r, t) = Num(l, t) + One(t = p.state)
    BY DEF r
  <1> DEFINE K == {j \in DOMAIN l : l[j].state = t}
             J == {j \in DOMAIN r : r[j].state = t}
  <1>2. IsFiniteSet(K) /\ Cardinality(K) \in Nat
    BY <1>1, PlacesFinite
  <1>3. n + 1 \notin K
    BY <1>1
  <1>4. J = IF t = p.state THEN K \cup {n + 1} ELSE K
    BY <1>1
  <1>5. Num(l, t) = Cardinality(K) /\ Num(r, t) = Cardinality(J)
    BY DEF Num
  <1> HIDE DEF J, K
  <1>6. Cardinality(K \cup {n + 1}) = Cardinality(K) + 1
    BY <1>2, <1>3, FS_AddElement
  <1> QED BY <1>2, <1>4, <1>5, <1>6 DEF One

\* An object is deleted: one less is in its state.
LEMMA NumRemoved ==
    ASSUME NEW l \in Seq(Puk), NEW k \in DOMAIN l
    PROVE  \A t : /\ Num(l, t) \in Nat /\ Num(RemoveAt(l, k), t) \in Nat
                  /\ Num(l, t) = Num(RemoveAt(l, k), t) + One(t = l[k].state)
  <1> DEFINE r == RemoveAt(l, k)
             n == Len(l) - 1
  <1>1. /\ n \in Nat /\ DOMAIN l = 1..(n + 1) /\ DOMAIN r = 1..n /\ k \in 1..(n + 1)
        /\ \A j \in 1..n : r[j] = l[IF j < k THEN j ELSE j + 1]
    <2>1. k \in 1..Len(l) /\ DOMAIN l = 1..Len(l) /\ Len(l) \in Nat
      OBVIOUS
    <2> QED BY <2>1, Removal, SMTT(30)
  <1> HIDE DEF r, n
  <1> SUFFICES ASSUME NEW t
               PROVE  /\ Num(l, t) \in Nat /\ Num(r, t) \in Nat
                      /\ Num(l, t) = Num(r, t) + One(t = l[k].state)
    BY DEF r
  <1> DEFINE K == {j \in DOMAIN l : l[j].state = t}
             J == {j \in DOMAIN r : r[j].state = t}
             m == n + 1
  <1>2. m \in Nat /\ K \in SUBSET (1..m) /\ J \in SUBSET (1..n)
    BY <1>1
  <1>3. \A j \in 1..n : j \in J <=> (IF j < k THEN j ELSE j + 1) \in K
    BY <1>1
  <1>4. k \in K <=> t = l[k].state
    OBVIOUS
  <1>5. Num(l, t) = Cardinality(K) /\ Num(r, t) = Cardinality(J)
    BY DEF Num
  <1> HIDE DEF J, K
  <1>6. Cardinality(K) = Cardinality(J) + One(k \in K)
    BY <1>1, <1>2, <1>3, Dropped, ZenonT(30)
  <1> HIDE DEF m
  <1>7. Cardinality(K) \in Nat /\ Cardinality(J) \in Nat
    BY <1>1, <1>2, PlacesFinite
  <1> QED BY <1>4, <1>5, <1>6, <1>7 DEF One

-----------------------------------------------------------------------------
\* Timers that run and pulses that wait.

\* A timer is stopped.
LEMMA RunningStopped ==
    ASSUME NEW T, IsFiniteSet(T), NEW x
    PROVE  /\ IsFiniteSet(T \ {x})
           /\ \A kind : /\ Running(T, kind) \in Nat /\ Running(T \ {x}, kind) \in Nat
                        /\ Running(T, kind) =
                             Running(T \ {x}, kind) + One(x \in T /\ x.kind = kind)
  <1>1. IsFiniteSet(T \ {x})
    BY FS_RemoveElement
  <1> SUFFICES ASSUME NEW kind
               PROVE  /\ Running(T, kind) \in Nat /\ Running(T \ {x}, kind) \in Nat
                      /\ Running(T, kind) =
                             Running(T \ {x}, kind) + One(x \in T /\ x.kind = kind)
    BY <1>1
  <1> DEFINE K == {t \in T : t.kind = kind}
             J == {t \in T \ {x} : t.kind = kind}
  <1>2. K \in SUBSET T /\ J = K \ {x} /\ (x \in K <=> x \in T /\ x.kind = kind)
    OBVIOUS
  <1>3. Running(T, kind) = Cardinality(K) /\ Running(T \ {x}, kind) = Cardinality(J)
    BY DEF Running
  <1> HIDE DEF K, J
  <1>4. IsFiniteSet(K)
    BY <1>2, FS_Subset
  <1>5. Cardinality(K) \in Nat
    BY <1>4, FS_CardinalityType
  <1>6. /\ Cardinality(K \ {x}) = IF x \in K THEN Cardinality(K) - 1 ELSE Cardinality(K)
        /\ IsFiniteSet(K \ {x})
    BY <1>4, FS_RemoveElement
  <1>7. Cardinality(J) \in Nat
    BY <1>2, <1>6, FS_CardinalityType
  <1> QED BY <1>2, <1>3, <1>5, <1>6, <1>7 DEF One

\* A timer is started.
LEMMA RunningStarted ==
    ASSUME NEW T, IsFiniteSet(T), NEW x
    PROVE  /\ IsFiniteSet(T \cup {x})
           /\ \A kind : /\ Running(T, kind) \in Nat /\ Running(T \cup {x}, kind) \in Nat
                        /\ Running(T \cup {x}, kind) =
                             Running(T, kind) + One(x \notin T /\ x.kind = kind)
  <1>1. IsFiniteSet(T \cup {x})
    BY FS_AddElement
  <1> SUFFICES ASSUME NEW kind
               PROVE  /\ Running(T, kind) \in Nat /\ Running(T \cup {x}, kind) \in Nat
                      /\ Running(T \cup {x}, kind) =
                             Running(T, kind) + One(x \notin T /\ x.kind = kind)
    BY <1>1
  <1> DEFINE K == {t \in T : t.kind = kind}
             J == {t \in T \cup {x} : t.kind = kind}
  <1>2. /\ K \in SUBSET T /\ (x \in K <=> x \in T /\ x.kind = kind)
        /\ J = IF x.kind = kind THEN K \cup {x} ELSE K
    OBVIOUS
  <1>3. Running(T, kind) = Cardinality(K) /\ Running(T \cup {x}, kind) = Cardinality(J)
    BY DEF Running
  <1> HIDE DEF K, J
  <1>4. IsFiniteSet(K)
    BY <1>2, FS_Subset
  <1>5. Cardinality(K) \in Nat
    BY <1>4, FS_CardinalityType
  <1>6. Cardinality(K \cup {x}) = IF x \in K THEN Cardinality(K) ELSE Cardinality(K) + 1
    BY <1>4, FS_AddElement
  <1> QED BY <1>2, <1>3, <1>5, <1>6 DEF One

\* A timer runs out and its pulse is appended.
LEMMA WaitingAppended ==
    ASSUME NEW q \in Seq(Timers), NEW t \in Timers
    PROVE  \A kind : /\ Waiting(q, kind) \in Nat /\ Waiting(Append(q, t), kind) \in Nat
                     /\ Waiting(Append(q, t), kind) = Waiting(q, kind) + One(t.kind = kind)
  <1> DEFINE r == Append(q, t)
             n == Len(q)
  <1>1. /\ n \in Nat /\ DOMAIN q = 1..n /\ DOMAIN r = 1..(n + 1)
        /\ r[n + 1] = t /\ \A j \in 1..n : r[j] = q[j]
    BY Appending
  <1> HIDE DEF r, n
  <1> SUFFICES ASSUME NEW kind
               PROVE  /\ Waiting(q, kind) \in Nat /\ Waiting(r, kind) \in Nat
                      /\ Waiting(r, kind) = Waiting(q, kind) + One(t.kind = kind)
    BY DEF r
  <1> DEFINE K == {j \in DOMAIN q : q[j].kind = kind}
             J == {j \in DOMAIN r : r[j].kind = kind}
  <1>2. IsFiniteSet(K) /\ Cardinality(K) \in Nat
    BY <1>1, PlacesFinite
  <1>3. n + 1 \notin K
    BY <1>1
  <1>4. J = IF t.kind = kind THEN K \cup {n + 1} ELSE K
    BY <1>1
  <1>5. Waiting(q, kind) = Cardinality(K) /\ Waiting(r, kind) = Cardinality(J)
    BY DEF Waiting
  <1> HIDE DEF J, K
  <1>6. Cardinality(K \cup {n + 1}) = Cardinality(K) + 1
    BY <1>2, <1>3, FS_AddElement
  <1> QED BY <1>2, <1>4, <1>5, <1>6 DEF One

\* The first pulse is taken from the queue.
LEMMA WaitingTail ==
    ASSUME NEW q \in Seq(Timers), q # <<>>
    PROVE  \A kind : /\ Waiting(q, kind) \in Nat /\ Waiting(Tail(q), kind) \in Nat
                     /\ Waiting(q, kind) = Waiting(Tail(q), kind) + One(Head(q).kind = kind)
  <1> DEFINE r == Tail(q)
             n == Len(q) - 1
             m == n + 1
  <1>1. /\ n \in Nat /\ m \in Nat /\ m = n + 1 /\ DOMAIN q = 1..m /\ DOMAIN r = 1..n
        /\ Head(q) = q[1] /\ \A j \in 1..n : r[j] = q[j + 1]
    BY TailElements
  <1> HIDE DEF r, n
  <1> SUFFICES ASSUME NEW kind
               PROVE  /\ Waiting(q, kind) \in Nat /\ Waiting(r, kind) \in Nat
                      /\ Waiting(q, kind) = Waiting(r, kind) + One(Head(q).kind = kind)
    BY DEF r
  <1> DEFINE K == {j \in DOMAIN q : q[j].kind = kind}
             J == {j \in DOMAIN r : r[j].kind = kind}
  <1>2. K \in SUBSET (1..m) /\ K \in SUBSET (1..(n + 1)) /\ J \in SUBSET (1..n) /\ 1 \in 1..(n + 1)
    BY <1>1
  <1>3. \A j \in 1..n : j \in J <=> (IF j < 1 THEN j ELSE j + 1) \in K
    BY <1>1
  <1>4. 1 \in K <=> Head(q).kind = kind
    BY <1>1
  <1>5. Waiting(q, kind) = Cardinality(K) /\ Waiting(r, kind) = Cardinality(J)
    BY DEF Waiting
  <1> HIDE DEF J, K
  <1>6. Cardinality(K) = Cardinality(J) + One(1 \in K)
    BY <1>1, <1>2, <1>3, Dropped, SMTT(30)
  <1> HIDE DEF m
  <1>7. Cardinality(K) \in Nat /\ Cardinality(J) \in Nat
    BY <1>1, <1>2, PlacesFinite
  <1> QED BY <1>4, <1>5, <1>6, <1>7 DEF One

\* What Pending and PuksIn count.
LEMMA PendingIs ==
    \A kind : Pending(kind) = Running(timers, kind) + Waiting(expired, kind)
  BY DEF Pending, Running, Waiting

\* The same in the next state.
LEMMA PendingNextIs ==
    \A kind : Pending(kind)' = Running(timers', kind) + Waiting(expired', kind)
  BY DEF Pending, Running, Waiting

\* And the objects in a state, now and in the next state.
LEMMA PuksInIs ==
    \A s : /\ Cardinality(PuksIn(s)) = Num(puk_list, s)
           /\ Cardinality(PuksIn(s))' = Num(puk_list', s)
  BY DEF PuksIn, Num

-----------------------------------------------------------------------------
\* The first object in one of some states.

\* First(S) is in one of the states S and no object before it is.
LEMMA FirstIs ==
    ASSUME puk_list \in Seq(Puk), NEW S, Found(S)
    PROVE  /\ First(S) \in DOMAIN puk_list /\ puk_list[First(S)].state \in S
           /\ \A j \in DOMAIN puk_list : j < First(S) => puk_list[j].state \notin S
  <1> DEFINE K == {k \in DOMAIN puk_list : puk_list[k].state \in S}
  <1>1. DOMAIN puk_list = 1..Len(puk_list) /\ Len(puk_list) \in Nat
    OBVIOUS
  <1>2. K \in SUBSET Nat /\ K # {}
    BY <1>1 DEF Found
  <1>3. \A k : k \in K <=> k \in DOMAIN puk_list /\ puk_list[k].state \in S
    OBVIOUS
  <1> HIDE DEF K
  <1>4. PICK k \in K : \A j \in K : k <= j
    BY <1>2, LeastIs
  <1>5. \A j \in 1..(k - 1) : j \in DOMAIN puk_list /\ ~ (k <= j)
    BY <1>1, <1>3, <1>4
  <1>6. \E i \in DOMAIN puk_list : /\ puk_list[i].state \in S
                                   /\ \A j \in 1..(i - 1) : puk_list[j].state \notin S
    BY <1>3, <1>4, <1>5
  <1>7. /\ First(S) \in DOMAIN puk_list /\ puk_list[First(S)].state \in S
        /\ \A j \in 1..(First(S) - 1) : puk_list[j].state \notin S
    BY <1>6 DEF First
  <1> HIDE DEF First
  <1> QED BY <1>1, <1>7

-----------------------------------------------------------------------------
\* Places along the belt.

\* They are numbered.
LEMMA PlaceIs ==
    /\ Place("Start") = 1 /\ Place("Puk_1") = 1
    /\ Place("Active") = 2 /\ Place("Puk_2") = 2
    /\ Place("In_Height_Measurement") = 3 /\ Place("Puk_3") = 3
    /\ Place("Sortout") = 4 /\ Place("To_Switch") = 4 /\ Place("Switch_Open") = 4
    /\ Place("To_Exit") = 5 /\ Place("Exit_Belt_3") = 5
    /\ Place("Transmit") = 6 /\ Place("To_Next_Geme") = 7
  BY DEF Place

\* Every state but Error has a place.
LEMMA PlaceType ==
    \A s \in AllStates \ {"Error"} : Place(s) \in 1..7
  BY PlaceIs DEF AllStates, PukStates, GroupStates

\* From state a an object in front of the others in states S goes on to s: no
\* other state of this belt has the place of a, or it is in S.
Onward(S, a, s) ==
    \/ s = "Error"
    \/ /\ Place(s) = Place(a) + 1 /\ a # "Error"
       /\ \A t \in Ours \ {"Error"} : Place(t) = Place(a) => t \in S

\* Arrivals are counted.
LEMMA NumbersAre == Arrivals \subseteq Int /\ {0} \cup Arrivals \subseteq Int
  BY MaxPuksAssumption, SystemNumbersAssumption DEF Arrivals

\* The list after it has.
LEMMA Advanced ==
    ASSUME TypeOK, ListInv, NoOvertaking, NEW S, Found(S), NEW s \in Ours,
           Enter(First(S), s), SYSTEM_NUMBER' = SYSTEM_NUMBER,
           arrivals' \in {arrivals, arrivals + 1},
           Onward(S, puk_list[First(S)].state, s)
    PROVE  /\ puk_list' \in Seq(Puk) /\ ListInv' /\ NoOvertaking'
           /\ puk_list # <<>> /\ puk_list' # <<>>
           /\ DOMAIN puk_list' = DOMAIN puk_list
  <1> DEFINE k == First(S)
             a == puk_list[k].state
  <1>1. puk_list \in Seq(Puk)
    BY DEF TypeOK
  <1>2. /\ k \in DOMAIN puk_list /\ a \in S
        /\ \A j \in DOMAIN puk_list : j < k => puk_list[j].state \notin S
    BY <1>1, FirstIs
  <1>3. Gets(puk_list, k, s, puk_list')
    BY DEF Enter, Gets
  <1>4. Onward(S, a, s)
    OBVIOUS
  <1>5. s \in AllStates /\ Ours \subseteq AllStates
    BY DEF Ours, AllStates
  <1> HIDE DEF k
  <1>6. /\ puk_list' \in Seq(Puk) /\ Len(puk_list') = Len(puk_list)
        /\ DOMAIN puk_list' = DOMAIN puk_list
        /\ DOMAIN puk_list = 1..Len(puk_list) /\ Len(puk_list) \in Nat
        /\ \A j \in DOMAIN puk_list :
              /\ puk_list'[j].id = puk_list[j].id
              /\ puk_list'[j].state = IF j = k THEN s ELSE puk_list[j].state
    BY <1>1, <1>2, <1>3, <1>5, Entered
  <1>7. Ours' = Ours
    BY DEF Ours
  <1>8. ListInv'
    <2>1. \A j \in DOMAIN puk_list : puk_list[j].id <= arrivals'
      <3>1. \A j \in DOMAIN puk_list : puk_list[j] \in Puk
        BY <1>1
      <3>2. \A j \in DOMAIN puk_list : puk_list[j].id \in Int /\ arrivals \in Int
        BY <3>1, NumbersAre, PukIs DEF TypeOK
      <3> QED BY <3>2 DEF ListInv
    <2> QED BY <1>6, <1>7, <2>1 DEF ListInv
  <1>9. ASSUME NEW i \in DOMAIN puk_list, NEW j \in DOMAIN puk_list, i < j,
               puk_list'[i].state # "Error", puk_list'[j].state # "Error"
        PROVE  Place(puk_list'[i].state) >= Place(puk_list'[j].state)
    <2> DEFINE b == puk_list[i].state
               c == puk_list[j].state
    <2>0. b \in Ours /\ c \in Ours /\ a \in Ours
      BY <1>2 DEF ListInv
    <2>1. /\ (b # "Error" => Place(b) \in 1..7) /\ (c # "Error" => Place(c) \in 1..7)
          /\ (a # "Error" => Place(a) \in 1..7)
      BY <2>0, <1>5, PlaceType
    <2>2. b # "Error" /\ c # "Error" => Place(b) >= Place(c)
      BY <1>9 DEF NoOvertaking
    <2>3. CASE i = k
      <3>1. puk_list'[i].state = s /\ puk_list'[j].state = c /\ b = a /\ c # "Error"
        BY <1>6, <1>9, <2>3
      <3>2. Place(s) = Place(a) + 1 /\ a # "Error"
        BY <1>4, <1>9, <3>1 DEF Onward
      <3> HIDE DEF b, c, a
      <3> QED BY <2>1, <2>2, <3>1, <3>2
    <2>4. CASE j = k
      <3>1. puk_list'[j].state = s /\ puk_list'[i].state = b /\ c = a /\ b # "Error"
        BY <1>6, <1>9, <2>4
      <3>2. /\ Place(s) = Place(a) + 1 /\ a # "Error"
            /\ \A t \in Ours \ {"Error"} : Place(t) = Place(a) => t \in S
        BY <1>4, <1>9, <3>1 DEF Onward
      <3>3. b \notin S
        BY <1>2, <1>9, <2>4
      <3> HIDE DEF b, c, a
      <3>4. Place(b) # Place(a)
        BY <2>0, <3>1, <3>2, <3>3
      <3> QED BY <2>1, <2>2, <3>1, <3>2, <3>4
    <2>5. CASE i # k /\ j # k
      BY <1>6, <1>9, <2>2, <2>5
    <2> QED BY <2>3, <2>4, <2>5
  <1>10. NoOvertaking'
    BY <1>6, <1>9 DEF NoOvertaking
  <1>11. puk_list # <<>> /\ puk_list' # <<>>
    <2>1. Len(puk_list) # 0 /\ Len(puk_list') # 0
      BY <1>2, <1>6
    <2> QED BY <1>1, <1>6, <2>1
  <1> QED BY <1>6, <1>8, <1>10, <1>11

\* The list after an object has been deleted.
LEMMA Deleted ==
    ASSUME TypeOK, ListInv, NoOvertaking, NEW k \in DOMAIN puk_list,
           puk_list' = RemoveAt(puk_list, k),
           SYSTEM_NUMBER' = SYSTEM_NUMBER, arrivals' = arrivals
    PROVE  /\ puk_list' \in Seq(Puk) /\ ListInv' /\ NoOvertaking'
           /\ puk_list # <<>> /\ (puk_list' = <<>> <=> Len(puk_list) = 1)
           /\ \A j \in DOMAIN puk_list' : \E i \in DOMAIN puk_list : puk_list'[j] = puk_list[i]
  <1> DEFINE n == Len(puk_list) - 1
             At(j) == IF j < k THEN j ELSE j + 1
  <1>1. puk_list \in Seq(Puk)
    BY DEF TypeOK
  <1>2. k \in 1..Len(puk_list)
    BY <1>1
  <1>3. /\ puk_list' \in Seq(Puk) /\ Len(puk_list) \in Nat
        /\ DOMAIN puk_list = 1..Len(puk_list) /\ Len(puk_list') = Len(puk_list) - 1
        /\ DOMAIN puk_list' = 1..(Len(puk_list) - 1)
        /\ \A j \in 1..(Len(puk_list) - 1) : puk_list'[j] = puk_list[IF j < k THEN j ELSE j + 1]
    <2>1. \A j : puk_list[IF j < k THEN j ELSE j + 1] = IF j < k THEN puk_list[j] ELSE puk_list[j + 1]
      OBVIOUS
    <2> QED BY <1>1, <1>2, <2>1, Removal
  <1>4. /\ n \in Nat /\ DOMAIN puk_list = 1..(n + 1) /\ DOMAIN puk_list' = 1..n
        /\ k \in 1..(n + 1)
        /\ \A j \in 1..n : puk_list'[j] = puk_list[At(j)]
    BY <1>2, <1>3
  <1> HIDE DEF n
  <1>5. /\ \A j \in 1..n : At(j) \in 1..(n + 1)
        /\ \A i, j \in 1..n : i < j => At(i) < At(j)
    BY <1>4
  <1> HIDE DEF At
  <1>6. Ours' = Ours
    BY DEF Ours
  <1>7. ListInv'
    BY <1>4, <1>5, <1>6 DEF ListInv
  <1>8. NoOvertaking'
    BY <1>4, <1>5 DEF NoOvertaking
  <1>9. puk_list # <<>> /\ (puk_list' = <<>> <=> Len(puk_list) = 1)
    <2>1. /\ puk_list = <<>> <=> Len(puk_list) = 0
          /\ puk_list' = <<>> <=> Len(puk_list') = 0
      BY <1>1, <1>3
    <2> QED BY <1>2, <1>3, <2>1
  <1> QED BY <1>3, <1>4, <1>5, <1>7, <1>8, <1>9

\* The list after a puk has arrived.
LEMMA Arrived ==
    ASSUME TypeOK, ListInv, NoOvertaking, NEW p \in Puk,
           puk_list' = Append(puk_list, p), arrivals' = arrivals + 1,
           p.id = arrivals', p.state \in Ours, Place(p.state) = 1, p.state # "Error",
           SYSTEM_NUMBER' = SYSTEM_NUMBER
    PROVE  /\ puk_list' \in Seq(Puk) /\ ListInv' /\ NoOvertaking' /\ puk_list' # <<>>
           /\ \A j \in DOMAIN puk_list' :
                 \/ puk_list'[j] = p
                 \/ j \in DOMAIN puk_list /\ puk_list'[j] = puk_list[j]
  <1> DEFINE n == Len(puk_list)
  <1>1. puk_list \in Seq(Puk) /\ arrivals \in Int
    BY MaxPuksAssumption, SystemNumbersAssumption DEF TypeOK, Arrivals
  <1>2. /\ puk_list' \in Seq(Puk) /\ n \in Nat
        /\ DOMAIN puk_list = 1..n /\ DOMAIN puk_list' = 1..(n + 1)
        /\ \A j \in 1..n : puk_list'[j] = puk_list[j]
        /\ puk_list'[n + 1] = p
    BY <1>1, Appending
  <1>3. puk_list' # <<>>
    BY <1>2
  <1> HIDE DEF n
  <1>4. \A j \in 1..(n + 1) : (j \in 1..n \/ j = n + 1) /\ ~ (n + 1 < j)
    BY <1>2
  <1>5. Ours' = Ours
    BY DEF Ours
  <1>6. \A j \in 1..n : /\ puk_list[j].state \in Ours /\ puk_list[j].id \in Int
                        /\ puk_list[j].id <= arrivals
    <2>1. \A j \in 1..n : puk_list[j] \in Puk
      BY <1>1, <1>2
    <2>2. Arrivals \subseteq Int
      BY MaxPuksAssumption, SystemNumbersAssumption DEF Arrivals
    <2> QED BY <1>2, <2>1, <2>2, PukIs DEF ListInv
  <1>7. ListInv'
    <2>1. \A j \in 1..(n + 1) : puk_list'[j].state \in Ours /\ puk_list'[j].id <= arrivals'
      BY <1>1, <1>2, <1>4, <1>6
    <2>2. \A i, j \in 1..(n + 1) : i < j => puk_list'[i].id < puk_list'[j].id
      <3> SUFFICES ASSUME NEW i \in 1..(n + 1), NEW j \in 1..(n + 1), i < j
                   PROVE  puk_list'[i].id < puk_list'[j].id
        OBVIOUS
      <3>1. i \in 1..n
        BY <1>4
      <3>2. CASE j \in 1..n
        BY <1>2, <3>1, <3>2 DEF ListInv
      <3>3. CASE j = n + 1
        BY <1>1, <1>2, <1>6, <3>1, <3>3
      <3> QED BY <1>4, <3>2, <3>3
    <2> QED BY <1>2, <1>5, <2>1, <2>2 DEF ListInv
  <1>8. NoOvertaking'
    <2> SUFFICES ASSUME NEW i \in 1..(n + 1), NEW j \in 1..(n + 1), i < j,
                        puk_list'[i].state # "Error", puk_list'[j].state # "Error"
                 PROVE  Place(puk_list'[i].state) >= Place(puk_list'[j].state)
      BY <1>2 DEF NoOvertaking
    <2>1. i \in 1..n
      BY <1>4
    <2>2. CASE j \in 1..n
      BY <1>2, <2>1, <2>2 DEF NoOvertaking
    <2>3. CASE j = n + 1
      <3>1. puk_list[i].state \in AllStates \ {"Error"}
        BY <1>2, <1>6, <2>1 DEF Ours, AllStates
      <3>2. Place(puk_list[i].state) \in 1..7
        BY <3>1, PlaceType
      <3> QED BY <1>2, <2>1, <2>3, <3>2
    <2> QED BY <1>4, <2>2, <2>3
  <1> QED BY <1>2, <1>3, <1>4, <1>7, <1>8

-----------------------------------------------------------------------------
\* Keeping watch.

\* The kinds of timers that watch something.
Watching == DOMAIN Guards \cup {"GROUP"}

\* On belts 2 and 3 no timer watches a puk in Start.
Relevant(g) == g = "CREATE_PUK" => SYSTEM_NUMBER = 1

\* Watched in the words of the lemmas on counting.
Watch(kind) == Running(timers, kind) + Waiting(expired, kind)
WatchInv ==
    /\ \A g \in DOMAIN Guards : Relevant(g) => Num(puk_list, Guards[g]) <= Watch(g)
    /\ Found(Collecting) /\ ~ accept_new_puk => Watch("GROUP") > 0

\* The guards one by one.
LEMMA GuardsAre ==
    /\ DOMAIN Guards = {"CREATE_PUK", "HEIGHT_MEASURE_DURATION", "HEIGHT_MEASURE_TO_RAMP",
                        "HEIGHT_MEASURE_TO_SWITCH", "SWITCH_TO_EXIT", "EXIT"}
    /\ Guards["CREATE_PUK"] = "Start"
    /\ Guards["HEIGHT_MEASURE_DURATION"] = "Active"
    /\ Guards["HEIGHT_MEASURE_TO_RAMP"] = "Sortout"
    /\ Guards["HEIGHT_MEASURE_TO_SWITCH"] = "To_Switch"
    /\ Guards["SWITCH_TO_EXIT"] = "To_Exit"
    /\ Guards["EXIT"] = "To_Next_Geme"
  BY DEF Guards

\* And the states in which their pulses are taken.
LEMMA LostInIs ==
    /\ DOMAIN LostIn = {"CREATE_PUK", "TRANSMIT", "HEIGHT_MEASURE_DURATION",
                        "HEIGHT_MEASURE_TO_RAMP", "HEIGHT_MEASURE_TO_SWITCH", "SWITCH_TO_EXIT"}
    /\ \A g \in DOMAIN Guards \ {"EXIT"} : LostIn[g] = Guards[g]
    /\ LostIn["TRANSMIT"] = "Start"
  BY DEF LostIn, Guards

\* The two ways to say it agree.
Agrees == Watched <=> WatchInv

\* The definition the runs check and the one the lemmas use say the same.
LEMMA WatchedIs == Agrees
  <1>1. /\ \A kind : Pending(kind) = Watch(kind)
        /\ \A s : Cardinality(PuksIn(s)) = Num(puk_list, s)
    BY PendingIs, PuksInIs DEF Watch
  <1>2. WatchInv <=>
          /\ SYSTEM_NUMBER = 1 => Num(puk_list, "Start") <= Watch("CREATE_PUK")
          /\ \A g \in {"HEIGHT_MEASURE_DURATION", "HEIGHT_MEASURE_TO_RAMP",
                       "HEIGHT_MEASURE_TO_SWITCH", "SWITCH_TO_EXIT"} :
                 Num(puk_list, Guards[g]) <= Watch(g)
          /\ Num(puk_list, "To_Next_Geme") <= Watch("EXIT")
          /\ Found(Collecting) /\ ~ accept_new_puk => Watch("GROUP") > 0
    BY GuardsAre DEF WatchInv, Relevant
  <1>3. Watched <=>
          /\ SYSTEM_NUMBER = 1 => Num(puk_list, "Start") <= Watch("CREATE_PUK")
          /\ \A g \in DOMAIN LostIn \ {"CREATE_PUK", "TRANSMIT"} :
                 Num(puk_list, LostIn[g]) <= Watch(g)
          /\ Num(puk_list, "To_Next_Geme") <= Watch("EXIT")
          /\ Found(Collecting) /\ ~ accept_new_puk => Watch("GROUP") > 0
    BY <1>1 DEF Watched
  <1>4. /\ DOMAIN LostIn \ {"CREATE_PUK", "TRANSMIT"} =
             {"HEIGHT_MEASURE_DURATION", "HEIGHT_MEASURE_TO_RAMP",
              "HEIGHT_MEASURE_TO_SWITCH", "SWITCH_TO_EXIT"}
        /\ \A g \in DOMAIN LostIn \ {"CREATE_PUK", "TRANSMIT"} : LostIn[g] = Guards[g]
    BY LostInIs, GuardsAre
  <1> QED BY <1>2, <1>3, <1>4 DEF Agrees

\* So they do in the next state.
LEMMA WatchedNextIs == Agrees'
  BY WatchedIs, PTL

\* Timers of one kind at most are stopped, one may be started.
LEMMA TimersChanged ==
    ASSUME NEW T, IsFiniteSet(T), NEW U, IsFiniteSet(U), NEW x, NEW to,
           \A t \in T \ U : t.kind \in Watching => t = x,
           to \in Watching => \E y \in U \ T : y.kind = to
    PROVE  \A kind \in Watching :
              /\ Running(T, kind) \in Nat /\ Running(U, kind) \in Nat
              /\ Running(U, kind) >= Running(T, kind) - One(kind = x.kind) + One(kind = to)
  <1> SUFFICES ASSUME NEW kind \in Watching
               PROVE  /\ Running(T, kind) \in Nat /\ Running(U, kind) \in Nat
                      /\ Running(U, kind) >=
                           Running(T, kind) - One(kind = x.kind) + One(kind = to)
    OBVIOUS
  <1> DEFINE A == {t \in T : t.kind = kind}
             B == {t \in U : t.kind = kind}
             C == A \ {x}
  <1>1. A \in SUBSET T /\ B \in SUBSET U /\ C \in SUBSET B
    OBVIOUS
  <1>2. x \in A => kind = x.kind
    OBVIOUS
  <1>3. kind = to => \E y \in B : y \notin A
    OBVIOUS
  <1>4. Running(T, kind) = Cardinality(A) /\ Running(U, kind) = Cardinality(B)
    BY DEF Running
  <1> HIDE DEF A, B
  <1>5. /\ IsFiniteSet(A) /\ Cardinality(A) \in Nat
        /\ IsFiniteSet(B) /\ Cardinality(B) \in Nat
    <2>1. IsFiniteSet(A) /\ IsFiniteSet(B)
      BY <1>1, FS_Subset
    <2> QED BY <2>1, FS_CardinalityType
  <1>6. /\ Cardinality(C) = IF x \in A THEN Cardinality(A) - 1 ELSE Cardinality(A)
        /\ IsFiniteSet(C)
    BY <1>5, FS_RemoveElement
  <1>7. C \subseteq A
    OBVIOUS
  <1> HIDE DEF C
  <1>8. CASE kind = to
    <2>1. PICK y \in B : y \notin A
      BY <1>3, <1>8
    <2>2. Cardinality(C \cup {y}) = Cardinality(C) + 1
      BY <1>6, <1>7, <2>1, FS_AddElement
    <2>3. C \cup {y} \in SUBSET B
      BY <1>1, <2>1
    <2>4. Cardinality(C \cup {y}) <= Cardinality(B)
      BY <1>5, <2>3, FS_Subset
    <2> QED BY <1>2, <1>4, <1>5, <1>6, <1>8, <2>2, <2>4 DEF One
  <1>9. CASE kind # to
    <2>1. Cardinality(C) <= Cardinality(B)
      BY <1>1, <1>5, FS_Subset
    <2> QED BY <1>2, <1>4, <1>5, <1>6, <1>9, <2>1 DEF One
  <1> QED BY <1>8, <1>9

\* A guarded state is a state with a place.
LEMMA GuardPlaces ==
    \A g \in DOMAIN Guards : /\ Guards[g] \in AllStates \ {"Error"} /\ Place(Guards[g]) \in 1..7
                             /\ g # "GROUP" /\ g # "none" /\ g \in TimerKinds
  <1>1. \A g \in DOMAIN Guards : Guards[g] \in AllStates \ {"Error"}
    BY GuardsAre DEF AllStates, PukStates
  <1>2. \A g \in DOMAIN Guards : g # "GROUP" /\ g # "none" /\ g \in TimerKinds
    BY GuardsAre, LostInIs DEF TimerKinds
  <1> QED BY <1>1, <1>2, PlaceType

\* Whatever watches is kept up with: a puk that leaves a state gives up the
\* timer of it at most, and one that gets into a state gets its timer.
NumMoves(a, s) ==
    \A t \in AllStates :
           /\ Num(puk_list, t) \in Nat /\ Num(puk_list', t) \in Nat
           /\ Num(puk_list', t) <= Num(puk_list, t) - One(t = a) + One(t = s)
WatchMoves(from, to) ==
    \A g \in Watching :
        /\ Watch(g) \in Nat /\ Watch(g)' \in Nat
        /\ Watch(g)' >= Watch(g) - One(g = from) + One(g = to)

\* Then every guarded state is watched in the next state as in this one.
LEMMA StillWatched ==
    ASSUME WatchInv, NEW a, NEW s, NEW from, NEW to,
           SYSTEM_NUMBER' = SYSTEM_NUMBER, NumMoves(a, s), WatchMoves(from, to),
           \A g \in DOMAIN Guards :
               Relevant(g) => (Guards[g] = s => g = to) /\ (g = from => Guards[g] = a)
    PROVE  \A g \in DOMAIN Guards : Relevant(g)' => Num(puk_list', Guards[g]) <= Watch(g)'
  <1> SUFFICES ASSUME NEW g \in DOMAIN Guards, Relevant(g)'
               PROVE  Num(puk_list', Guards[g]) <= Watch(g)'
    OBVIOUS
  <1> DEFINE n == Num(puk_list, Guards[g])
             m == Num(puk_list', Guards[g])
             w == Watch(g)
             v == Watch(g)'
             isA == Guards[g] = a
             isS == Guards[g] = s
             isFrom == g = from
             isTo == g = to
  <1>1. Relevant(g) /\ g \in Watching
    BY DEF Relevant, Watching
  <1>2. n \in Nat /\ m \in Nat /\ w \in Nat /\ v \in Nat /\ n <= w
    BY <1>1, GuardPlaces DEF WatchInv, NumMoves, WatchMoves
  <1>3. m <= n - One(isA) + One(isS) /\ v >= w - One(isFrom) + One(isTo)
    BY <1>1, GuardPlaces DEF NumMoves, WatchMoves
  <1>4. (isS => isTo) /\ (isFrom => isA)
    BY <1>1
  <1> HIDE DEF n, m, w, v, isA, isS, isFrom, isTo
  <1>5. m <= v
    BY <1>2, <1>3, <1>4 DEF One
  <1> QED BY <1>5 DEF m, v

\* So many timers are finitely many, too.
LEMMA FiniteChanged ==
    ASSUME NEW T, IsFiniteSet(T), NEW U, NEW x, NEW y, U \subseteq T \cup {x, y}
    PROVE  IsFiniteSet(U)
  <1>1. IsFiniteSet(T \cup {x})
    BY FS_AddElement
  <1>2. IsFiniteSet((T \cup {x}) \cup {y})
    BY <1>1, FS_AddElement
  <1>3. U \in SUBSET ((T \cup {x}) \cup {y})
    OBVIOUS
  <1> QED BY <1>2, <1>3, FS_Subset

\* The timers change while no pulse of one comes or goes.
LEMMA WatchChanged ==
    ASSUME TypeOK, TimersInv, NEW x, NEW to, IsFiniteSet(timers'), expired' = expired,
           \A t \in timers \ timers' : t.kind \in Watching => t = x,
           to \in Watching => \E y \in timers' \ timers : y.kind = to
    PROVE  WatchMoves(x.kind, to)
  <1> SUFFICES ASSUME NEW g \in Watching
               PROVE  /\ Watch(g) \in Nat /\ Watch(g)' \in Nat
                      /\ Watch(g)' >= Watch(g) - One(g = x.kind) + One(g = to)
    BY DEF WatchMoves
  <1> DEFINE r == Running(timers, g)
             q == Running(timers', g)
             w == Waiting(expired, g)
             isX == g = x.kind
             isTo == g = to
  <1>1. r \in Nat /\ q \in Nat /\ q >= r - One(isX) + One(isTo)
    <2>1. IsFiniteSet(timers)
      BY DEF TimersInv
    <2> QED BY <2>1, TimersChanged
  <1>2. w \in Nat
    <2>1. expired \in Seq(Timers)
      BY DEF TypeOK
    <2>2. DOMAIN expired = 1..Len(expired) /\ Len(expired) \in Nat
      BY <2>1
    <2>3. {k \in DOMAIN expired : expired[k].kind = g} \in SUBSET (1..Len(expired))
      BY <2>2
    <2> QED BY <2>2, <2>3, PlacesFinite DEF Waiting
  <1>3. Watch(g) = r + w /\ Watch(g)' = q + w
    BY DEF Watch
  <1> HIDE DEF r, q, w, isX, isTo
  <1>4. r + w \in Nat /\ q + w \in Nat /\ q + w >= (r + w) - One(isX) + One(isTo)
    BY <1>1, <1>2 DEF One
  <1> QED BY <1>3, <1>4 DEF isX, isTo

\* No two objects have an id in common.
LEMMA IdsDiffer ==
    ASSUME TypeOK, ListInv, NEW j \in DOMAIN puk_list, NEW k \in DOMAIN puk_list,
           puk_list[j].id = puk_list[k].id
    PROVE  j = k
  <1>1. DOMAIN puk_list = 1..Len(puk_list) /\ Len(puk_list) \in Nat
    BY DEF TypeOK
  <1>2. \A i \in DOMAIN puk_list : puk_list[i].id \in Int
    <2>1. \A i \in DOMAIN puk_list : puk_list[i] \in Puk
      BY DEF TypeOK
    <2> QED BY <2>1, PukIs, NumbersAre
  <1>3. ~ (j < k) /\ ~ (k < j)
    BY <1>2 DEF ListInv
  <1> QED BY <1>1, <1>3

\* What every step keeps of list and timers.
ListsInv == /\ puk_list \in Seq(Puk) /\ timers \subseteq Timers
            /\ ListInv /\ NoOvertaking /\ TimersInv /\ Watched

\* A puk moves from state a to s: it may stop the timer that watched it there
\* and start the one that watches it here.
Moves(S, a, s, id, from, to) ==
    /\ Found(S) /\ a = puk_list[First(S)].state /\ id = puk_list[First(S)].id
    /\ Enter(First(S), s) /\ s \in Ours /\ a # s /\ Onward(S, a, s)
    /\ UNCHANGED <<SYSTEM_NUMBER, arrivals, accept_new_puk>>
    /\ from # "GROUP"
    /\ \A g \in DOMAIN Guards :
          (g = from => Guards[g] = a) /\ (Relevant(g) /\ Guards[g] = s => g = to)
    /\ \/ to = "none" /\ timers' \subseteq timers
       \/ /\ to \in DOMAIN Guards /\ Guards[to] = s
          /\ Timer(to, id) \in timers' /\ timers' \subseteq timers \cup {Timer(to, id)}
    /\ s \in Collecting => a \in Collecting

\* The timer it starts is new.
LEMMA NewTimer ==
    ASSUME TypeOK, ListInv, TimersInv, NEW S, NEW a, NEW s, NEW id, NEW from, NEW to,
           Moves(S, a, s, id, from, to), to # "none"
    PROVE  /\ to \in DOMAIN Guards /\ Timer(to, id) \in Timers
           /\ Timer(to, id) \in timers' \ timers
  <1> DEFINE k == First(S)
             mine == Timer(to, id)
  <1>1. /\ Found(S) /\ a = puk_list[k].state /\ id = puk_list[k].id
        /\ s \in Ours /\ Onward(S, a, s)
        /\ to \in DOMAIN Guards /\ Guards[to] = s /\ mine \in timers'
    BY DEF Moves
  <1>2. puk_list \in Seq(Puk)
    BY DEF TypeOK
  <1>3. k \in DOMAIN puk_list
    BY <1>1, <1>2, FirstIs
  <1> HIDE DEF k
  <1>4. id \in Arrivals
    <2>1. puk_list[k] \in Puk
      BY <1>2, <1>3
    <2> QED BY <1>1, <2>1, PukIs
  <1>5. to \in TimerKinds /\ s # "Error"
    BY <1>1, GuardPlaces
  <1>6. mine \in Timers /\ mine.kind = to /\ mine.of = id
    BY <1>4, <1>5 DEF Timer, Timers
  <1>7. Place(s) = Place(a) + 1 /\ a # "Error" /\ Place(a) \in 1..7
    <2>1. Place(s) = Place(a) + 1 /\ a # "Error"
      BY <1>1, <1>5 DEF Onward
    <2>2. a \in AllStates
      BY <1>1, <1>3 DEF ListInv, Ours, AllStates
    <2> QED BY <2>1, <2>2, PlaceType
  <1> HIDE DEF mine
  <1>8. ASSUME mine \in timers PROVE FALSE
    <2>1. Place(s) <= Place(a)
      BY <1>1, <1>3, <1>6, <1>7, <1>8 DEF TimersInv, Reached
    <2> QED BY <1>7, <2>1
  <1> QED BY <1>1, <1>6, <1>8 DEF mine

\* So what watches keeps up when no pulse comes or goes.
LEMMA MovesWatch ==
    ASSUME TypeOK, ListInv, TimersInv, NEW S, NEW a, NEW s, NEW id, NEW from, NEW to,
           Moves(S, a, s, id, from, to), expired' = expired,
           \A t \in timers \ timers' : t.kind \in Watching => t = Timer(from, id)
    PROVE  WatchMoves(from, to)
  <1> DEFINE mine == Timer(to, id)
             old == Timer(from, id)
  <1>1. /\ to \in Watching => to # "none"
        /\ timers' \subseteq timers \cup {mine, mine}
    BY GuardPlaces DEF Watching, Moves
  <1>2. to # "none" => mine \in timers' \ timers
    BY NewTimer
  <1>3. mine.kind = to /\ old.kind = from
    BY DEF Timer
  <1>4. IsFiniteSet(timers)
    BY DEF TimersInv
  <1>5. \A t \in timers \ timers' : t.kind \in Watching => t = old
    OBVIOUS
  <1> HIDE DEF mine, old
  <1>6. IsFiniteSet(timers')
    BY <1>1, <1>4, FiniteChanged
  <1>7. to \in Watching => \E y \in timers' \ timers : y.kind = to
    BY <1>1, <1>2, <1>3
  <1>8. WatchMoves(old.kind, to)
    BY <1>5, <1>6, <1>7, WatchChanged
  <1> QED BY <1>3, <1>8

\* What such a move keeps.
LEMMA Moving ==
    ASSUME TypeOK, ListInv, NoOvertaking, TimersInv, Watched,
           NEW S, NEW a, NEW s, NEW id, NEW from, NEW to, Moves(S, a, s, id, from, to), WatchMoves(from, to)
    PROVE  ListsInv' /\ puk_list # <<>> /\ puk_list' # <<>>
  <1> DEFINE k == First(S)
             mine == Timer(to, id)
  <1>1. /\ Found(S) /\ a = puk_list[k].state /\ id = puk_list[k].id
        /\ Enter(k, s) /\ s \in Ours /\ a # s /\ Onward(S, a, s)
        /\ SYSTEM_NUMBER' = SYSTEM_NUMBER /\ arrivals' = arrivals
        /\ accept_new_puk' = accept_new_puk
    BY DEF Moves
  <1>2. /\ from # "GROUP"
        /\ \A g \in DOMAIN Guards : /\ g = from => Guards[g] = a
                                    /\ Relevant(g) /\ Guards[g] = s => g = to
        /\ \/ to = "none" /\ timers' \subseteq timers
           \/ /\ to \in DOMAIN Guards /\ Guards[to] = s
              /\ mine \in timers' /\ timers' \subseteq timers \cup {mine}
        /\ s \in Collecting => a \in Collecting
    BY DEF Moves
  <1>3. puk_list \in Seq(Puk) /\ timers \subseteq Timers /\ s \in AllStates
    BY <1>1 DEF TypeOK, Ours, AllStates
  <1>4. k \in DOMAIN puk_list /\ a \in S
    BY <1>1, <1>3, FirstIs
  <1>5. /\ puk_list' \in Seq(Puk) /\ ListInv' /\ NoOvertaking'
        /\ puk_list # <<>> /\ puk_list' # <<>> /\ DOMAIN puk_list' = DOMAIN puk_list
    BY <1>1, Advanced
  <1>6. Gets(puk_list, k, s, puk_list')
    BY <1>1 DEF Enter, Gets
  <1> HIDE DEF k
  <1>7. \A j \in DOMAIN puk_list :
           /\ puk_list'[j].id = puk_list[j].id
           /\ puk_list'[j].state = IF j = k THEN s ELSE puk_list[j].state
    BY <1>3, <1>4, <1>6, Entered
  <1>8. \A t : /\ Num(puk_list, t) \in Nat /\ Num(puk_list', t) \in Nat
               /\ Num(puk_list', t) = Num(puk_list, t) - One(t = a) + One(t = s)
    BY <1>1, <1>3, <1>4, <1>6, NumEntered
  <1>9. id \in Arrivals /\ id <= arrivals
    <2>1. puk_list[k] \in Puk
      BY <1>3, <1>4
    <2> QED BY <1>1, <1>4, <2>1, PukIs DEF ListInv
  <1>10. mine.kind = to /\ mine.of = id
    BY DEF Timer
  <1>11. to \in DOMAIN Guards => mine \in Timers
    BY NewTimer, GuardPlaces
  <1> HIDE DEF mine
  <1>12. timers' \subseteq Timers /\ IsFiniteSet(timers')
    <2>1. timers' \subseteq timers \cup {mine, mine}
      BY <1>2
    <2>2. IsFiniteSet(timers)
      BY DEF TimersInv
    <2>3. IsFiniteSet(timers')
      BY <2>1, <2>2, FiniteChanged
    <2> QED BY <1>2, <1>3, <1>11, <2>3
  <1>13. ASSUME NEW t \in timers' PROVE t \in timers \/ (t = mine /\ to \in DOMAIN Guards)
    BY <1>2, <1>13
  <1>14. \A t \in timers' : t.of <= arrivals'
    BY <1>1, <1>9, <1>10, <1>13 DEF TimersInv
  <1>15. ASSUME NEW j \in DOMAIN puk_list, NEW t \in timers', t.of = puk_list[j].id,
                t.kind \in DOMAIN Guards, puk_list'[j].state # "Error"
         PROVE  Place(Guards[t.kind]) <= Place(puk_list'[j].state)
    <2> DEFINE g == t.kind
               b == puk_list[j].state
    <2>0. Place(Guards[g]) \in 1..7
      BY <1>15, GuardPlaces
    <2>1. CASE t \in timers
      <3>1. b = "Error" \/ Place(Guards[g]) <= Place(b)
        BY <1>15, <2>1 DEF TimersInv, Reached
      <3>2. CASE j = k
        <4>1. puk_list'[j].state = s /\ b = a /\ s # "Error"
          BY <1>1, <1>7, <1>15, <3>2
        <4>2. Place(s) = Place(a) + 1 /\ a # "Error"
          BY <1>1, <4>1 DEF Onward
        <4>3. a \in AllStates
          BY <1>1, <1>4 DEF ListInv, Ours, AllStates
        <4>4. Place(a) \in 1..7
          BY <4>2, <4>3, PlaceType
        <4> HIDE DEF g, b
        <4>5. Place(Guards[g]) <= Place(s)
          BY <2>0, <3>1, <4>1, <4>2, <4>4
        <4> QED BY <4>1, <4>5 DEF g
      <3>3. CASE j # k
        BY <1>7, <1>15, <3>1, <3>3
      <3> QED BY <3>2, <3>3
    <2>2. CASE t = mine /\ to \in DOMAIN Guards
      <3>1. j = k
        BY <1>1, <1>4, <1>10, <1>15, <2>2, IdsDiffer
      <3>2. Guards[t.kind] = s /\ puk_list'[j].state = s
        BY <1>2, <1>7, <1>10, <2>2, <3>1, GuardPlaces
      <3> QED BY <2>0, <3>2
    <2> QED BY <1>13, <2>1, <2>2
  <1>16. TimersInv'
    <2>1. \A j \in DOMAIN puk_list : Reached(puk_list'[j], timers')
      BY <1>7, <1>15 DEF Reached
    <2> QED BY <1>5, <1>12, <1>14, <2>1 DEF TimersInv
  <1>17. WatchInv
    BY WatchedIs DEF Agrees
  <1>18. \A g \in DOMAIN Guards : Relevant(g)' => Num(puk_list', Guards[g]) <= Watch(g)'
    <2>1. NumMoves(a, s)
      BY <1>8 DEF One, NumMoves
    <2>2. \A g \in DOMAIN Guards :
             Relevant(g) => (Guards[g] = s => g = to) /\ (g = from => Guards[g] = a)
      BY <1>2
    <2> QED BY <1>1, <1>17, <2>1, <2>2, StillWatched
  <1>19. Found(Collecting)' /\ ~ accept_new_puk' => Watch("GROUP")' > 0
    <2>1. Found(Collecting)' => Found(Collecting)
      <3>1. ASSUME NEW j \in DOMAIN puk_list, puk_list'[j].state \in Collecting
            PROVE  \E i \in DOMAIN puk_list : puk_list[i].state \in Collecting
        BY <1>1, <1>2, <1>4, <1>7, <3>1
      <3> QED BY <1>5, <3>1 DEF Found
    <2>2. "GROUP" \in Watching /\ to # "GROUP"
      BY <1>2, GuardPlaces DEF Watching
    <2>3. Watch("GROUP") \in Nat /\ Watch("GROUP")' \in Nat /\ Watch("GROUP")' >= Watch("GROUP")
      BY <1>2, <2>2 DEF One, WatchMoves
    <2> QED BY <1>1, <1>17, <2>1, <2>3 DEF WatchInv
  <1>20. Watched'
    <2>1. WatchInv'
      BY <1>18, <1>19 DEF WatchInv
    <2> QED BY <2>1, WatchedNextIs DEF Agrees
  <1> QED BY <1>5, <1>12, <1>16, <1>20 DEF ListsInv

\* An object in state a is deleted; the timer that watched it may stop.
Deletes(k, a, from) ==
    /\ k \in DOMAIN puk_list /\ a = puk_list[k].state /\ puk_list' = RemoveAt(puk_list, k)
    /\ UNCHANGED <<SYSTEM_NUMBER, arrivals, accept_new_puk>>
    /\ timers' \subseteq timers
    /\ from # "GROUP"
    /\ \A g \in DOMAIN Guards : g = from => Guards[g] = a

\* What deleting an object keeps.
LEMMA Deleting ==
    ASSUME TypeOK, ListInv, NoOvertaking, TimersInv, Watched,
           NEW k, NEW a, NEW from, Deletes(k, a, from), WatchMoves(from, "none")
    PROVE  /\ ListsInv' /\ puk_list # <<>>
           /\ puk_list' = <<>> <=> Len(puk_list) = 1
  <1>1. /\ k \in DOMAIN puk_list /\ a = puk_list[k].state
        /\ puk_list' = RemoveAt(puk_list, k)
        /\ SYSTEM_NUMBER' = SYSTEM_NUMBER /\ arrivals' = arrivals
        /\ accept_new_puk' = accept_new_puk
        /\ timers' \subseteq timers /\ from # "GROUP"
        /\ \A g \in DOMAIN Guards : g = from => Guards[g] = a
    BY DEF Deletes
  <1>2. puk_list \in Seq(Puk) /\ timers \subseteq Timers
    BY DEF TypeOK
  <1>3. /\ puk_list' \in Seq(Puk) /\ ListInv' /\ NoOvertaking'
        /\ puk_list # <<>> /\ (puk_list' = <<>> <=> Len(puk_list) = 1)
        /\ \A j \in DOMAIN puk_list' : \E i \in DOMAIN puk_list : puk_list'[j] = puk_list[i]
    BY <1>1, Deleted
  <1>4. NumMoves(a, "none")
    <2>1. \A t : /\ Num(puk_list, t) \in Nat /\ Num(puk_list', t) \in Nat
                 /\ Num(puk_list, t) = Num(puk_list', t) + One(t = a)
      BY <1>1, <1>2, NumRemoved
    <2> QED BY <2>1 DEF NumMoves, One
  <1>5. TimersInv'
    <2>1. IsFiniteSet(timers')
      BY <1>1, FS_Subset DEF TimersInv
    <2>2. \A t \in timers' : t.of <= arrivals'
      BY <1>1 DEF TimersInv
    <2>3. \A j \in DOMAIN puk_list' : Reached(puk_list'[j], timers')
      BY <1>1, <1>3 DEF TimersInv, Reached
    <2> QED BY <2>1, <2>2, <2>3 DEF TimersInv
  <1>6. WatchInv
    BY WatchedIs DEF Agrees
  <1>7. \A g \in DOMAIN Guards : Relevant(g)' => Num(puk_list', Guards[g]) <= Watch(g)'
    <2>1. \A g \in DOMAIN Guards :
             Relevant(g) => (Guards[g] = "none" => g = "none") /\ (g = from => Guards[g] = a)
      <3>1. "none" \notin AllStates
        BY DEF AllStates, PukStates, GroupStates
      <3> QED BY <1>1, <3>1, GuardPlaces
    <2> QED BY <1>1, <1>4, <1>6, <2>1, StillWatched
  <1>8. Found(Collecting)' /\ ~ accept_new_puk' => Watch("GROUP")' > 0
    <2>1. Found(Collecting)' => Found(Collecting)
      BY <1>3 DEF Found
    <2>2. "GROUP" \in Watching
      BY DEF Watching
    <2>3. Watch("GROUP") \in Nat /\ Watch("GROUP")' \in Nat /\ Watch("GROUP")' >= Watch("GROUP")
      BY <1>1, <2>2 DEF One, WatchMoves
    <2> QED BY <1>1, <1>6, <2>1, <2>3 DEF WatchInv
  <1>9. Watched'
    <2>1. WatchInv'
      BY <1>7, <1>8 DEF WatchInv
    <2> QED BY <2>1, WatchedNextIs DEF Agrees
  <1> QED BY <1>1, <1>2, <1>3, <1>5, <1>9 DEF ListsInv

\* The list stays, no timer that watches is stopped without its pulse: what
\* the step keeps.
Stays ==
    /\ puk_list' = puk_list /\ SYSTEM_NUMBER' = SYSTEM_NUMBER /\ arrivals' = arrivals
    /\ timers' \subseteq timers

\* What a step keeps that leaves the list alone.
LEMMA Staying ==
    ASSUME TypeOK, ListInv, NoOvertaking, TimersInv, Watched, Stays,
           NEW from, WatchMoves(from, "none"),
           \A g \in DOMAIN Guards : g = from => Num(puk_list, Guards[g]) = 0,
           Found(Collecting) /\ ~ accept_new_puk' => ~ accept_new_puk /\ from # "GROUP"
    PROVE  ListsInv'
  <1>1. /\ puk_list' = puk_list /\ SYSTEM_NUMBER' = SYSTEM_NUMBER /\ arrivals' = arrivals
        /\ timers' \subseteq timers
    BY DEF Stays
  <1>2. puk_list \in Seq(Puk) /\ timers \subseteq Timers
    BY DEF TypeOK
  <1>3. ListInv'
    BY <1>1 DEF ListInv, Ours
  <1>4. NoOvertaking'
    BY <1>1 DEF NoOvertaking
  <1>5. TimersInv'
    <2>1. IsFiniteSet(timers')
      BY <1>1, FS_Subset DEF TimersInv
    <2>2. \A t \in timers' : t.of <= arrivals'
      BY <1>1 DEF TimersInv
    <2>3. \A j \in DOMAIN puk_list' : Reached(puk_list'[j], timers')
      BY <1>1 DEF TimersInv, Reached
    <2> QED BY <2>1, <2>2, <2>3 DEF TimersInv
  <1>6. WatchInv
    BY WatchedIs DEF Agrees
  <1>7. ASSUME NEW g \in DOMAIN Guards, Relevant(g)'
        PROVE  Num(puk_list', Guards[g]) <= Watch(g)'
    <2> DEFINE n == Num(puk_list, Guards[g])
               w == Watch(g)
               v == Watch(g)'
    <2>1. Num(puk_list', Guards[g]) = n
      BY <1>1
    <2>2. Relevant(g) /\ g \in Watching /\ g # "none"
      BY <1>1, <1>7, GuardPlaces DEF Relevant, Watching
    <2>3. n <= w /\ n \in Nat /\ w \in Nat /\ v \in Nat /\ v >= w - One(g = from)
      <3>1. One(g = "none") = 0
        BY <2>2 DEF One
      <3>2. /\ w \in Nat /\ v \in Nat
            /\ v >= w - One(g = from) + One(g = "none")
        BY <2>2 DEF WatchMoves
      <3>3. One(g = from) \in Int
        BY DEF One
      <3>4. n <= w
        BY <1>6, <1>7, <2>2 DEF WatchInv
      <3>5. n \in Nat
        BY <1>2, NumType
      <3> HIDE DEF n, w, v
      <3> QED BY <3>1, <3>2, <3>3, <3>4, <3>5
    <2>4. g = from => n = 0
      OBVIOUS
    <2> HIDE DEF n, w, v
    <2>5. n <= v
      <3>1. CASE g = from
        BY <2>3, <2>4, <3>1
      <3>2. CASE g # from
        BY <2>3, <3>2 DEF One
      <3> QED BY <3>1, <3>2
    <2> QED BY <2>1, <2>5 DEF v
  <1>8. Found(Collecting)' /\ ~ accept_new_puk' => Watch("GROUP")' > 0
    <2>1. Found(Collecting)' => Found(Collecting)
      BY <1>1 DEF Found
    <2>2. "GROUP" \in Watching
      BY DEF Watching
    <2>3. /\ Watch("GROUP") \in Nat /\ Watch("GROUP")' \in Nat
          /\ from # "GROUP" => Watch("GROUP")' >= Watch("GROUP")
      BY <2>2 DEF One, WatchMoves
    <2> QED BY <1>6, <2>1, <2>3 DEF WatchInv
  <1>9. Watched'
    <2>1. WatchInv'
      BY <1>7, <1>8 DEF WatchInv
    <2> QED BY <2>1, WatchedNextIs DEF Agrees
  <1> QED BY <1>1, <1>2, <1>3, <1>4, <1>5, <1>9 DEF ListsInv

-----------------------------------------------------------------------------
\* Puks that arrive.

\* Timers x and y start for the puk that arrives.
Starts(x, y) ==
    /\ arrivals' = arrivals + 1 /\ arrivals' \in Arrivals
    /\ SYSTEM_NUMBER' = SYSTEM_NUMBER /\ expired' = expired
    /\ timers' = timers \cup {x, y}
    /\ x.of = arrivals' /\ y.of = arrivals' /\ x \in Timers /\ y \in Timers
    /\ x.kind \in {"CREATE_PUK", "GROUP", "TRANSMIT"} /\ y.kind \in {"NEW_PUK", "TRANSMIT"}

\* What starting the timers of a new puk keeps.
LEMMA StartsKeeps ==
    ASSUME TypeOK, TimersInv, NEW x, NEW y, Starts(x, y)
    PROVE  /\ timers' \subseteq Timers /\ IsFiniteSet(timers')
           /\ \A t \in timers' : t.of <= arrivals'
           /\ WatchMoves("none", x.kind)
           /\ \A p \in Puk : p.id <= arrivals /\ Reached(p, timers) => Reached(p, timers')
           /\ \A p : p.id = arrivals' /\ Place(p.state) = 1 => Reached(p, timers')
  <1>1. /\ arrivals' = arrivals + 1 /\ arrivals' \in Arrivals /\ expired' = expired
        /\ timers' = timers \cup {x, y}
        /\ x.of = arrivals' /\ y.of = arrivals' /\ x \in Timers /\ y \in Timers
        /\ x.kind \in {"CREATE_PUK", "GROUP", "TRANSMIT"} /\ y.kind \in {"NEW_PUK", "TRANSMIT"}
    BY DEF Starts
  <1>2. /\ arrivals \in Int /\ timers \subseteq Timers /\ IsFiniteSet(timers)
        /\ \A t \in timers : t.of <= arrivals
    BY NumbersAre DEF TypeOK, TimersInv
  <1>3. \A t \in timers : t.of \in Int
    BY <1>2, NumbersAre DEF Timers
  <1>4. x \notin timers
    BY <1>1, <1>2
  <1>5. timers' \subseteq Timers /\ \A t \in timers' : t.of <= arrivals'
    BY <1>1, <1>2, <1>3
  <1>6. IsFiniteSet(timers')
    BY <1>1, <1>2, FiniteChanged
  <1>7. WatchMoves("none", x.kind)
    <2> DEFINE none == Timer("none", 0)
    <2>1. none.kind = "none"
      BY DEF Timer
    <2> HIDE DEF none
    <2>2. /\ x.kind \in Watching => \E z \in timers' \ timers : z.kind = x.kind
          /\ \A t \in timers \ timers' : t.kind \in Watching => t = none
      BY <1>1, <1>4
    <2>3. WatchMoves(none.kind, x.kind)
      BY <1>1, <1>6, <2>2, WatchChanged
    <2> QED BY <2>1, <2>3
  <1>8. ASSUME NEW p \in Puk, p.id <= arrivals, Reached(p, timers)
        PROVE  Reached(p, timers')
    <2>1. p.id \in Int
      BY PukIs, NumbersAre
    <2>2. p.id # arrivals'
      BY <1>1, <1>2, <1>8, <2>1
    <2> QED BY <1>1, <1>8, <2>2 DEF Reached
  <1>9. ASSUME NEW p, p.id = arrivals', Place(p.state) = 1
        PROVE  Reached(p, timers')
    <2>1. \A t \in timers : t.of # p.id
      BY <1>1, <1>2, <1>9
    <2>2. y.kind \notin DOMAIN Guards /\ (x.kind \in DOMAIN Guards => x.kind = "CREATE_PUK")
      BY <1>1, GuardsAre
    <2>3. Place(Guards["CREATE_PUK"]) = 1
      BY GuardsAre, PlaceIs
    <2> QED BY <1>1, <1>9, <2>1, <2>2, <2>3 DEF Reached
  <1> QED BY <1>5, <1>6, <1>7, <1>8, <1>9

\* An object for the puk is appended to the list.
Appends(p, x) ==
    /\ p \in Puk /\ p.id = arrivals' /\ puk_list' = Append(puk_list, p)
    /\ \/ SYSTEM_NUMBER = 1 /\ p.state = "Start" /\ x.kind = "CREATE_PUK"
          /\ accept_new_puk' = accept_new_puk
       \/ SYSTEM_NUMBER = 2 /\ p.state = "Start" /\ accept_new_puk' = accept_new_puk
       \/ SYSTEM_NUMBER = 3 /\ p.state = "Puk_1" /\ x.kind = "GROUP"

\* What appending its object keeps.
LEMMA Appends1 ==
    ASSUME TypeOK, ListInv, NoOvertaking, TimersInv, Watched,
           NEW p, NEW x, NEW y, Starts(x, y), Appends(p, x)
    PROVE  ListsInv' /\ puk_list' # <<>>
  <1>1. /\ p \in Puk /\ p.id = arrivals' /\ puk_list' = Append(puk_list, p)
        /\ p.state \in {"Start", "Puk_1"} /\ p.state \in Ours
        /\ p.state = "Start" => accept_new_puk' = accept_new_puk
        /\ p.state = "Start" => SYSTEM_NUMBER = 2 \/ x.kind = "CREATE_PUK"
        /\ p.state = "Puk_1" => x.kind = "GROUP"
    BY DEF Appends, Ours, PukStates, GroupStates
  <1>2. /\ arrivals' = arrivals + 1 /\ SYSTEM_NUMBER' = SYSTEM_NUMBER
        /\ timers' \subseteq Timers /\ IsFiniteSet(timers')
        /\ \A t \in timers' : t.of <= arrivals'
        /\ WatchMoves("none", x.kind)
        /\ \A q \in Puk : q.id <= arrivals /\ Reached(q, timers) => Reached(q, timers')
        /\ Place(p.state) = 1 => Reached(p, timers')
    BY <1>1, StartsKeeps DEF Starts
  <1>3. Place(p.state) = 1 /\ p.state # "Error"
    BY <1>1, PlaceIs
  <1>4. /\ puk_list' \in Seq(Puk) /\ ListInv' /\ NoOvertaking' /\ puk_list' # <<>>
        /\ \A j \in DOMAIN puk_list' :
              \/ puk_list'[j] = p
              \/ j \in DOMAIN puk_list /\ puk_list'[j] = puk_list[j]
    BY <1>1, <1>2, <1>3, Arrived
  <1>5. puk_list \in Seq(Puk)
    BY DEF TypeOK
  <1>6. TimersInv'
    <2>1. \A j \in DOMAIN puk_list : /\ puk_list[j] \in Puk /\ puk_list[j].id <= arrivals
                                     /\ Reached(puk_list[j], timers)
      BY <1>5 DEF ListInv, TimersInv
    <2>2. \A j \in DOMAIN puk_list' : Reached(puk_list'[j], timers')
      BY <1>2, <1>3, <1>4, <2>1
    <2> QED BY <1>2, <2>2 DEF TimersInv
  <1>7. NumMoves("none", p.state)
    <2>1. \A t : /\ Num(puk_list, t) \in Nat /\ Num(puk_list', t) \in Nat
                 /\ Num(puk_list', t) = Num(puk_list, t) + One(t = p.state)
      BY <1>1, <1>5, NumAppended
    <2>2. "none" \notin AllStates
      BY DEF AllStates, PukStates, GroupStates
    <2> QED BY <2>1, <2>2 DEF NumMoves, One
  <1>8. WatchInv
    BY WatchedIs DEF Agrees
  <1>9. \A g \in DOMAIN Guards : Relevant(g)' => Num(puk_list', Guards[g]) <= Watch(g)'
    <2>1. \A g \in DOMAIN Guards :
             Relevant(g) => (Guards[g] = p.state => g = x.kind) /\ (g = "none" => Guards[g] = "none")
      BY <1>1, GuardsAre DEF Relevant
    <2> QED BY <1>2, <1>7, <1>8, <2>1, StillWatched
  <1>10. Found(Collecting)' /\ ~ accept_new_puk' => Watch("GROUP")' > 0
    <2> DEFINE w == Watch("GROUP")
               v == Watch("GROUP")'
    <2>1. /\ w \in Nat /\ v \in Nat /\ v >= w
          /\ x.kind = "GROUP" => v >= w + 1
      BY <1>2 DEF WatchMoves, Watching, One
    <2>2. CASE p.state = "Puk_1"
      <3>1. x.kind = "GROUP"
        BY <1>1, <2>2
      <3> HIDE DEF w, v
      <3>2. v > 0
        BY <2>1, <3>1
      <3> QED BY <3>2 DEF v
    <2>3. CASE p.state = "Start"
      <3>1. Found(Collecting)' => Found(Collecting)
        BY <1>4, <2>3 DEF Found, Collecting
      <3>2. Found(Collecting) /\ ~ accept_new_puk => w > 0
        BY <1>8 DEF WatchInv
      <3>3. accept_new_puk' = accept_new_puk
        BY <1>1, <2>3
      <3> HIDE DEF w, v
      <3>4. w > 0 => v > 0
        BY <2>1
      <3> QED BY <3>1, <3>2, <3>3, <3>4 DEF v
    <2> QED BY <1>1, <2>2, <2>3
  <1>11. Watched'
    <2>1. WatchInv'
      BY <1>9, <1>10 DEF WatchInv
    <2> QED BY <2>1, WatchedNextIs DEF Agrees
  <1> QED BY <1>2, <1>4, <1>6, <1>11 DEF ListsInv

\* The list stays, or the first object in Puk_1 or Puk_2 counts the puk.
Joins(x) ==
    \/ /\ puk_list' = puk_list
       /\ accept_new_puk' = accept_new_puk
    \/ /\ SYSTEM_NUMBER = 3 /\ x.kind = "GROUP" /\ Found({"Puk_1", "Puk_2"})
       /\ LET k == First({"Puk_1", "Puk_2"})
          IN  Enter(k, IF puk_list[k].state = "Puk_1" THEN "Puk_2" ELSE "Puk_3")

\* What counting it in keeps.
LEMMA Joining ==
    ASSUME TypeOK, ListInv, NoOvertaking, TimersInv, Watched,
           NEW x, NEW y, Starts(x, y), Joins(x), SYSTEM_NUMBER # 1
    PROVE  ListsInv' /\ (puk_list' = <<>> <=> puk_list = <<>>)
  <1> DEFINE S == {"Puk_1", "Puk_2"}
             k == First(S)
             a == puk_list[k].state
             s == IF a = "Puk_1" THEN "Puk_2" ELSE "Puk_3"
  <1>1. /\ arrivals' = arrivals + 1 /\ SYSTEM_NUMBER' = SYSTEM_NUMBER
        /\ timers' \subseteq Timers /\ IsFiniteSet(timers')
        /\ \A t \in timers' : t.of <= arrivals'
        /\ WatchMoves("none", x.kind)
        /\ \A q \in Puk : q.id <= arrivals /\ Reached(q, timers) => Reached(q, timers')
    BY StartsKeeps DEF Starts
  <1>2. puk_list \in Seq(Puk) /\ arrivals \in Int
    BY NumbersAre DEF TypeOK
  <1>3. \A j \in DOMAIN puk_list :
           /\ puk_list[j] \in Puk /\ puk_list[j].id <= arrivals /\ puk_list[j].id \in Int
           /\ Reached(puk_list[j], timers')
    <2>1. \A j \in DOMAIN puk_list : puk_list[j] \in Puk /\ puk_list[j].id <= arrivals
                                     /\ Reached(puk_list[j], timers)
      BY <1>2 DEF ListInv, TimersInv
    <2> QED BY <1>1, <2>1, PukIs, NumbersAre
  <1>4. WatchInv
    BY WatchedIs DEF Agrees
  <1>5. CASE puk_list' = puk_list /\ accept_new_puk' = accept_new_puk
    <2>1. ListInv'
      BY <1>1, <1>2, <1>3, <1>5 DEF ListInv, Ours
    <2>2. NoOvertaking'
      BY <1>5 DEF NoOvertaking
    <2>3. TimersInv'
      BY <1>1, <1>3, <1>5 DEF TimersInv
    <2>4. NumMoves("none", "none")
      BY <1>2, <1>5, NumType DEF NumMoves, One
    <2>5. \A g \in DOMAIN Guards : Relevant(g)' => Num(puk_list', Guards[g]) <= Watch(g)'
      <3>1. "none" \notin AllStates
        BY DEF AllStates, PukStates, GroupStates
      <3>2. \A g \in DOMAIN Guards :
             Relevant(g) => (Guards[g] = "none" => g = x.kind) /\ (g = "none" => Guards[g] = "none")
        BY <3>1, GuardPlaces
      <3> QED BY <1>1, <1>4, <2>4, <3>2, StillWatched
    <2>6. Found(Collecting)' /\ ~ accept_new_puk' => Watch("GROUP")' > 0
      <3> DEFINE w == Watch("GROUP")
                 v == Watch("GROUP")'
      <3>1. w \in Nat /\ v \in Nat /\ v >= w
        BY <1>1 DEF WatchMoves, Watching, One
      <3>2. Found(Collecting)' /\ ~ accept_new_puk' => w > 0
        BY <1>4, <1>5 DEF WatchInv, Found
      <3> HIDE DEF w, v
      <3>3. w > 0 => v > 0
        BY <3>1
      <3> QED BY <3>2, <3>3 DEF v
    <2>7. WatchInv'
      BY <2>5, <2>6 DEF WatchInv
    <2>8. Watched'
      BY <2>7, WatchedNextIs DEF Agrees
    <2> QED BY <1>1, <1>2, <1>5, <2>1, <2>2, <2>3, <2>8 DEF ListsInv
  <1>6. CASE SYSTEM_NUMBER = 3 /\ x.kind = "GROUP" /\ Found(S) /\ Enter(k, s)
    <2>1. k \in DOMAIN puk_list /\ a \in S
      BY <1>2, <1>6, FirstIs
    <2>2. s \in Ours /\ s \in AllStates /\ a # s /\ Onward(S, a, s) /\ a # "Error"
      BY <1>6, <2>1, PlaceIs DEF Ours, AllStates, GroupStates, Onward
    <2>3. /\ puk_list' \in Seq(Puk) /\ ListInv' /\ NoOvertaking'
          /\ puk_list # <<>> /\ puk_list' # <<>> /\ DOMAIN puk_list' = DOMAIN puk_list
      BY <1>1, <1>6, <2>2, Advanced
    <2>4. Gets(puk_list, k, s, puk_list')
      BY <1>6 DEF Enter, Gets
    <2>5. Place(s) = Place(a) + 1 /\ Place(a) \in 1..7
      BY <2>1, PlaceIs
    <2>6. \A g \in DOMAIN Guards : Guards[g] # s
      BY <2>1, GuardsAre
    <2> HIDE DEF k, a, s, S
    <2>7. \A j \in DOMAIN puk_list :
             /\ puk_list'[j].id = puk_list[j].id
             /\ puk_list'[j].state = IF j = k THEN s ELSE puk_list[j].state
      BY <1>2, <2>1, <2>2, <2>4, Entered
    <2>8. TimersInv'
      <3>1. ASSUME NEW j \in DOMAIN puk_list, NEW t \in timers', t.of = puk_list[j].id,
                   t.kind \in DOMAIN Guards, puk_list'[j].state # "Error"
            PROVE  Place(Guards[t.kind]) <= Place(puk_list'[j].state)
        <4> DEFINE g == Guards[t.kind]
        <4>1. CASE j = k
          <5>1. Place(g) <= Place(a) /\ Place(g) \in 1..7
            BY <1>3, <2>2, <3>1, <4>1, GuardPlaces DEF Reached, a
          <5> HIDE DEF g
          <5>2. Place(g) <= Place(s)
            BY <2>5, <5>1
          <5> QED BY <2>7, <4>1, <5>2 DEF g
        <4>2. CASE j # k
          BY <1>3, <2>7, <3>1, <4>2 DEF Reached
        <4> QED BY <4>1, <4>2
      <3>2. \A j \in DOMAIN puk_list : Reached(puk_list'[j], timers')
        BY <2>7, <3>1 DEF Reached
      <3> QED BY <1>1, <2>3, <3>2 DEF TimersInv
    <2>9. NumMoves(a, s)
      <3>1. \A t : /\ Num(puk_list, t) \in Nat /\ Num(puk_list', t) \in Nat
                   /\ Num(puk_list', t) = Num(puk_list, t) - One(t = a) + One(t = s)
        BY <1>2, <2>1, <2>2, <2>4, NumEntered DEF a
      <3> QED BY <3>1 DEF NumMoves, One
    <2>10. \A g \in DOMAIN Guards : Relevant(g)' => Num(puk_list', Guards[g]) <= Watch(g)'
      <3>1. \A g \in DOMAIN Guards :
             Relevant(g) => (Guards[g] = s => g = x.kind) /\ (g = "none" => Guards[g] = a)
        BY <2>6, GuardPlaces
      <3> QED BY <1>1, <1>4, <2>9, <3>1, StillWatched
    <2>11. Watch("GROUP")' > 0
      <3> DEFINE w == Watch("GROUP")
                 v == Watch("GROUP")'
      <3>1. w \in Nat /\ v \in Nat /\ v >= w + 1
        BY <1>1, <1>6 DEF WatchMoves, Watching, One
      <3> HIDE DEF w, v
      <3>2. v > 0
        BY <3>1
      <3> QED BY <3>2 DEF v
    <2>12. WatchInv'
      BY <2>10, <2>11 DEF WatchInv
    <2>13. Watched'
      BY <2>12, WatchedNextIs DEF Agrees
    <2> QED BY <1>1, <2>3, <2>8, <2>13 DEF ListsInv
  <1> QED BY <1>5, <1>6 DEF Joins

-----------------------------------------------------------------------------
\* What is posted to the motor and to the neighbour.

\* The pulses that are posted.
Sent == MotorCommands \cup
        {"SEND_REQUEST_OK", "SEND_WANT", "SWITCH_OPEN", "TIMER_SWITCH_OUT",
         "TRAFFIC_LIGHT_NEW_PUK", "TRAFFIC_LIGHT_NORMAL", "ERR_TO_MANY_PUK",
         "ERR_PUK_TOO_EARLY", "ERR_PUK_TOO_EARLY_OK", "ERR_LOST_PUK"}

\* The numbers the model counts with.
LEMMA CountsAre ==
    ASSUME TypeOK
    PROVE  /\ MaxPuks[SYSTEM_NUMBER] \in Nat /\ 1..MaxPuks[SYSTEM_NUMBER] \subseteq Arrivals
           /\ Arrivals \subseteq Nat /\ grants \in Nat /\ arrivals \in Nat
  BY MaxPuksAssumption, SystemNumbersAssumption DEF TypeOK, Arrivals

\* Posting leaves both as they should be.
LEMMA PostIs ==
    ASSUME TypeOK, NEW pulses \in Seq(Sent), Post(pulses)
    PROVE  /\ motorIdle' \in BOOLEAN /\ grants' \in {0} \cup Arrivals
           /\ motorIdle' => Idles(pulses) \/ motorIdle
           /\ Idles(pulses) => motorIdle'
           /\ ~ Commands(pulses) => (motorIdle' <=> motorIdle \/ Idles(pulses))
           /\ Commands(pulses) /\ ~ Idles(pulses) => ~ motorIdle'
  <1> DEFINE more == grants + Granted(pulses)
             most == MaxPuks[SYSTEM_NUMBER]
  <1>1. /\ motorIdle' = \/ Idles(pulses)
                        \/ motorIdle /\ ~ Commands(pulses)
        /\ grants' = IF more > most THEN grants ELSE more
    BY DEF Post
  <1>2. Granted(pulses) \in Nat
    <2>1. DOMAIN pulses = 1..Len(pulses) /\ Len(pulses) \in Nat
      OBVIOUS
    <2>2. {k \in DOMAIN pulses : pulses[k] = "SEND_REQUEST_OK"} \in SUBSET (1..Len(pulses))
      BY <2>1
    <2> QED BY <2>1, <2>2, PlacesFinite DEF Granted
  <1>3. /\ most \in Nat /\ 1..most \subseteq Arrivals /\ grants \in Nat
        /\ grants \in {0} \cup Arrivals
    BY CountsAre DEF TypeOK
  <1>4. more \in Nat
    BY <1>2, <1>3
  <1> HIDE DEF more, most
  <1>5. grants' \in {0} \cup Arrivals
    <2>1. CASE more > most
      BY <1>1, <1>3, <2>1
    <2>2. CASE ~ (more > most)
      <3>1. more = 0 \/ more \in 1..most
        BY <1>3, <1>4, <2>2
      <3> QED BY <1>1, <1>3, <2>2, <3>1
    <2> QED BY <2>1, <2>2
  <1>6. Idles(pulses) \in BOOLEAN /\ motorIdle \in BOOLEAN /\ Commands(pulses) \in BOOLEAN
    BY DEF Idles, Commands, TypeOK
  <1>7. motorIdle' \in BOOLEAN
    BY <1>1, <1>6
  <1> QED BY <1>1, <1>5, <1>6, <1>7

\* Pulses that are no command do not idle the belt, and of two commands the
\* later counts.
LEMMA IdlesShort ==
    /\ ~ Idles(<<>>) /\ ~ Commands(<<>>)
    /\ \A e : e \notin MotorCommands => ~ Idles(<<e>>) /\ ~ Commands(<<e>>)
    /\ \A e : e # "MOTOR_IDLE" => ~ Idles(<<e>>)
    /\ \A e, f : e # "MOTOR_IDLE" /\ f # "MOTOR_IDLE" => ~ Idles(<<e, f>>)
    /\ \A e, f, g : e # "MOTOR_IDLE" /\ f # "MOTOR_IDLE" /\ g # "MOTOR_IDLE" =>
                    ~ Idles(<<e, f, g>>)
    /\ \A e \in MotorCommands : Commands(<<e>>)
    /\ Idles(<<"MOTOR_IDLE">>)
    /\ \A e : e \notin MotorCommands => Idles(<<"MOTOR_IDLE", e>>)
  BY DEF Idles, Commands, MotorCommands

\* Pulses after which others follow that are no command.
LEMMA IdlesLonger ==
    ASSUME NEW p \in Seq(Sent), NEW r \in Seq(Sent)
    PROVE  /\ p \o r \in Seq(Sent)
           /\ Idles(r) => Idles(p \o r)
           /\ (\A k \in DOMAIN r : r[k] # "MOTOR_IDLE") /\ ~ Idles(p) => ~ Idles(p \o r)
  <1> DEFINE n == Len(p)
             m == Len(r)
             q == p \o r
  <1>1. /\ n \in Nat /\ m \in Nat /\ DOMAIN p = 1..n /\ DOMAIN r = 1..m
        /\ DOMAIN q = 1..(n + m) /\ q \in Seq(Sent)
        /\ \A i \in 1..n : q[i] = p[i]
        /\ \A i \in 1..m : q[n + i] = r[i]
    BY Concatenation
  <1> HIDE DEF n, m, q
  <1>2. \A j \in 1..(n + m) : \/ j \in 1..n
                              \/ j - n \in 1..m /\ j = n + (j - n)
    BY <1>1
  <1>3. ASSUME Idles(r) PROVE Idles(q)
    <2>1. PICK k \in 1..m : /\ r[k] = "MOTOR_IDLE"
                            /\ \A j \in 1..m : j > k => r[j] \notin MotorCommands
      BY <1>1, <1>3 DEF Idles
    <2>2. n + k \in 1..(n + m) /\ q[n + k] = "MOTOR_IDLE"
      BY <1>1, <2>1
    <2>3. ASSUME NEW j \in 1..(n + m), j > n + k
          PROVE  q[j] \notin MotorCommands
      <3>1. j - n \in 1..m /\ j - n > k /\ j = n + (j - n)
        BY <1>1, <2>3
      <3>2. q[j] = r[j - n]
        BY <1>1, <3>1
      <3> QED BY <2>1, <3>1, <3>2
    <2> QED BY <1>1, <2>2, <2>3 DEF Idles
  <1>4. ASSUME \A k \in DOMAIN r : r[k] # "MOTOR_IDLE", Idles(q) PROVE Idles(p)
    <2>1. PICK k \in 1..(n + m) : /\ q[k] = "MOTOR_IDLE"
                                  /\ \A j \in 1..(n + m) : j > k => q[j] \notin MotorCommands
      BY <1>1, <1>4 DEF Idles
    <2>2. k \in 1..n
      BY <1>1, <1>2, <1>4, <2>1, ZenonT(30)
    <2>3. \A j \in 1..n : j \in 1..(n + m)
      BY <1>1
    <2> QED BY <1>1, <2>1, <2>2, <2>3 DEF Idles
  <1> QED BY <1>1, <1>3, <1>4 DEF q

\* The last object that is deleted idles the belt, no other does.
LEMMA KillSentIs ==
    ASSUME NEW pulses \in Seq(Sent)
    PROVE  /\ pulses \o KillSent \in Seq(Sent)
           /\ Len(puk_list) = 1 => Idles(pulses \o KillSent)
           /\ Len(puk_list) # 1 /\ ~ Idles(pulses) => ~ Idles(pulses \o KillSent)
  <1> DEFINE one == Len(puk_list) = 1
             r == RequestSent(one)
  <1>1. r = <<>> \/ r = <<"SEND_REQUEST_OK">>
    BY DEF RequestSent
  <1>2. KillSent = (IF one THEN <<"MOTOR_IDLE">> ELSE <<>>) \o r
    BY DEF KillSent
  <1> HIDE DEF one, r
  <1>3. "SEND_REQUEST_OK" \notin MotorCommands
    BY DEF MotorCommands
  <1>4. r \in Seq(Sent) /\ \A k \in DOMAIN r : r[k] = "SEND_REQUEST_OK"
    <2>1. CASE r = <<>>
      BY <2>1
    <2>2. CASE r = <<"SEND_REQUEST_OK">>
      BY <2>2 DEF Sent
    <2> QED BY <1>1, <2>1, <2>2
  <1>5. CASE one
    <2> DEFINE idle == <<"MOTOR_IDLE">>
    <2>1. idle \in Seq(Sent) /\ EndsWith(idle, "MOTOR_IDLE", MotorCommands)
      <3>1. idle \in Seq(Sent) /\ DOMAIN idle = {1} /\ idle[1] = "MOTOR_IDLE"
        BY DEF Sent, MotorCommands
      <3> HIDE DEF idle
      <3> QED BY <3>1 DEF EndsWith
    <2>2. KillSent = idle \o r
      BY <1>2, <1>5
    <2>3. Free(r, MotorCommands)
      BY <1>3, <1>4 DEF Free
    <2> HIDE DEF idle
    <2>4. KillSent \in Seq(Sent)
      BY <1>4, <2>1, <2>2, Concatenation
    <2>5. EndsWith(KillSent, "MOTOR_IDLE", MotorCommands)
      BY <1>4, <2>1, <2>2, <2>3, EndsWithConcatenation
    <2>6. Idles(KillSent)
      BY <2>5 DEF EndsWith, Idles
    <2> QED BY <1>5, <2>4, <2>6, IdlesLonger DEF one
  <1>6. CASE ~ one
    <2>1. KillSent = r
      BY <1>2, <1>4, <1>6
    <2>2. KillSent \in Seq(Sent) /\ \A k \in DOMAIN KillSent : KillSent[k] # "MOTOR_IDLE"
      BY <1>4, <2>1
    <2> QED BY <1>6, <2>2, IdlesLonger DEF one
  <1> QED BY <1>5, <1>6

-----------------------------------------------------------------------------
\* What the actions keep.

\* The rest of TypeOK.
RestOK ==
    /\ SYSTEM_NUMBER \in SystemNumbers
    /\ arrivals \in {0} \cup Arrivals
    /\ expired \in Seq(Timers)
    /\ accept_new_puk \in BOOLEAN
    /\ sequence \in {"Idle", "Ohne_metall_1", "Ohne_metall_2"}
    /\ counter \in 0..1
    /\ motorIdle \in BOOLEAN
    /\ grants \in {0} \cup Arrivals

\* What is left to show of a step.
LEMMA InvIs ==
    ASSUME ListsInv', RestOK', IdleBeltWaits'
    PROVE  Inv'
  <1>1. TypeOK'
    BY DEF TypeOK, RestOK, ListsInv
  <1> QED BY <1>1 DEF Inv, ListsInv

\* The parts of the invariant.
LEMMA InvParts ==
    ASSUME Inv
    PROVE  /\ TypeOK /\ ListInv /\ NoOvertaking /\ TimersInv /\ Watched /\ IdleBeltWaits
           /\ RestOK /\ puk_list \in Seq(Puk) /\ timers \subseteq Timers
  BY DEF Inv, TypeOK, RestOK

\* A puk that moves idles no belt.
LEMMA MoveKeeps ==
    ASSUME Inv, NEW S, NEW a, NEW s, NEW id, NEW from, NEW to,
           Moves(S, a, s, id, from, to), WatchMoves(from, to),
           motorIdle' => motorIdle, RestOK'
    PROVE  Inv'
  <1>1. ListsInv' /\ puk_list # <<>> /\ puk_list' # <<>>
    BY InvParts, Moving
  <1>2. SYSTEM_NUMBER' = SYSTEM_NUMBER /\ accept_new_puk' = accept_new_puk
    BY DEF Moves
  <1>3. IdleBeltWaits'
    BY <1>1, <1>2, InvParts DEF IdleBeltWaits
  <1> QED BY <1>1, <1>3, InvIs

\* Nor does a step that leaves the list alone.
LEMMA StayKeeps ==
    ASSUME Inv, Stays, NEW from, WatchMoves(from, "none"),
           \A g \in DOMAIN Guards : g = from => Num(puk_list, Guards[g]) = 0,
           from # "GROUP" \/ ~ Found(Collecting),
           accept_new_puk' = accept_new_puk, motorIdle' <=> motorIdle, RestOK'
    PROVE  Inv'
  <1>1. ListsInv'
    BY InvParts, Staying
  <1>2. SYSTEM_NUMBER' = SYSTEM_NUMBER /\ puk_list' = puk_list
    BY DEF Stays
  <1>3. IdleBeltWaits'
    BY <1>1, <1>2, InvParts DEF IdleBeltWaits
  <1> QED BY <1>1, <1>3, InvIs

\* No timer that watches is stopped or started.
LEMMA NothingWatched ==
    ASSUME Inv, timers' \subseteq timers, expired' = expired,
           \A t \in timers \ timers' : t.kind \notin Watching
    PROVE  WatchMoves("none", "none")
  <1> DEFINE none == Timer("none", 0)
  <1>1. none.kind = "none"
    BY DEF Timer
  <1> HIDE DEF none
  <1>2. IsFiniteSet(timers')
    BY InvParts, FS_Subset DEF TimersInv
  <1>3. "none" \notin Watching
    BY GuardPlaces DEF Watching
  <1>4. WatchMoves(none.kind, "none")
    BY <1>2, <1>3, InvParts, WatchChanged
  <1> QED BY <1>1, <1>4

\* A step that does nothing but post.
LEMMA PostKeeps ==
    ASSUME Inv, Stays, timers' \subseteq timers, expired' = expired,
           \A t \in timers \ timers' : t.kind \notin Watching,
           accept_new_puk' = accept_new_puk, motorIdle' <=> motorIdle, RestOK'
    PROVE  Inv'
  <1>1. WatchMoves("none", "none")
    BY NothingWatched
  <1>2. \A g \in DOMAIN Guards : g = "none" => Num(puk_list, Guards[g]) = 0
    BY GuardPlaces
  <1> QED BY <1>1, <1>2, StayKeeps

\* An object that is deleted idles the belt if it was the last.
LEMMA DeleteKeeps ==
    ASSUME Inv, NEW k, NEW a, NEW from, Deletes(k, a, from), WatchMoves(from, "none"),
           Len(puk_list) = 1 => motorIdle',
           Len(puk_list) # 1 => (motorIdle' => motorIdle), RestOK'
    PROVE  Inv'
  <1>1. /\ ListsInv' /\ puk_list # <<>>
        /\ puk_list' = <<>> <=> Len(puk_list) = 1
    BY InvParts, Deleting
  <1>2. SYSTEM_NUMBER' = SYSTEM_NUMBER /\ accept_new_puk' = accept_new_puk
    BY DEF Deletes
  <1>3. IdleBeltWaits'
    BY <1>1, <1>2, InvParts DEF IdleBeltWaits
  <1> QED BY <1>1, <1>3, InvIs

\* Posting one pulse that is no command, one command, or nothing.
PostTypes == motorIdle' \in BOOLEAN /\ grants' \in {0} \cup Arrivals

\* A pulse that is no command leaves the motor as it was told to be.
LEMMA PostQuiet ==
    ASSUME TypeOK, NEW e \in Sent \ MotorCommands, Post(<<e>>)
    PROVE  PostTypes /\ (motorIdle' <=> motorIdle)
  <1> DEFINE p == <<e>>
  <1>1. p \in Seq(Sent) /\ Post(p)
    OBVIOUS
  <1>2. ~ Idles(p) /\ ~ Commands(p)
    BY IdlesShort
  <1> HIDE DEF p
  <1> QED BY <1>1, <1>2, PostIs DEF PostTypes

\* After a command other than MOTOR_IDLE the belt does not idle.
LEMMA PostCommand ==
    ASSUME TypeOK, NEW e \in MotorCommands \ {"MOTOR_IDLE"}, Post(<<e>>)
    PROVE  PostTypes /\ ~ motorIdle'
  <1> DEFINE p == <<e>>
  <1>1. p \in Seq(Sent) /\ Post(p)
    BY DEF Sent
  <1>2. ~ Idles(p) /\ Commands(p)
    BY IdlesShort
  <1> HIDE DEF p
  <1> QED BY <1>1, <1>2, PostIs DEF PostTypes

\* Posting nothing changes nothing.
LEMMA PostNothing ==
    ASSUME TypeOK, Post(<<>>)
    PROVE  PostTypes /\ (motorIdle' <=> motorIdle)
  <1> DEFINE p == <<>>
  <1>1. p \in Seq(Sent) /\ Post(p)
    OBVIOUS
  <1>2. ~ Idles(p) /\ ~ Commands(p)
    BY IdlesShort
  <1> HIDE DEF p
  <1> QED BY <1>1, <1>2, PostIs DEF PostTypes

\* A puk is laid on belt 1, or one passes the entrance of another.
LEMMA EntryCloseKeeps ==
    ASSUME Inv, LIGHT_BARRIER_ENTRY_CLOSE
    PROVE  Inv'
  <1>1. /\ SYSTEM_NUMBER' = SYSTEM_NUMBER /\ expired' = expired /\ counter' = counter
        /\ accept_new_puk' = accept_new_puk /\ sequence' = sequence
    BY DEF LIGHT_BARRIER_ENTRY_CLOSE, Settings
  <1>2. CASE /\ SYSTEM_NUMBER = 1 /\ arrivals < MaxPuks[SYSTEM_NUMBER]
             /\ arrivals' = arrivals + 1
             /\ puk_list' = Append(puk_list, [id |-> arrivals', state |-> "Start"])
             /\ timers' = timers \cup {Timer("CREATE_PUK", arrivals'), entry_timer'}
             /\ Post(<<"MOTOR_NORMAL">>)
    <2> DEFINE x == Timer("CREATE_PUK", arrivals')
               y == entry_timer'
               p == [id |-> arrivals', state |-> "Start"]
    <2>1. arrivals' \in Arrivals
      BY <1>2, CountsAre, InvParts
    <2>2. y = Timer("NEW_PUK", arrivals')
      BY DEF entry_timer
    <2>3. "CREATE_PUK" \in TimerKinds /\ "NEW_PUK" \in TimerKinds
      BY LostInIs DEF TimerKinds
    <2>4. /\ x \in Timers /\ x.kind = "CREATE_PUK" /\ x.of = arrivals'
          /\ y \in Timers /\ y.kind = "NEW_PUK" /\ y.of = arrivals'
      BY <2>1, <2>2, <2>3 DEF Timer, Timers
    <2>5. p \in Puk /\ p.id = arrivals' /\ p.state = "Start"
      BY <2>1 DEF Puk, PukStates
    <2>6. puk_list' = Append(puk_list, p) /\ timers' = timers \cup {x, y}
      BY <1>2
    <2> HIDE DEF x, y, p
    <2>7. Starts(x, y)
      BY <1>1, <1>2, <2>1, <2>4, <2>6 DEF Starts
    <2>8. Appends(p, x)
      BY <1>1, <1>2, <2>4, <2>5, <2>6 DEF Appends
    <2>9. ListsInv' /\ puk_list' # <<>>
      BY <2>7, <2>8, InvParts, Appends1
    <2>10. PostTypes /\ ~ motorIdle'
      BY <1>2, InvParts, PostCommand DEF MotorCommands
    <2>11. IdleBeltWaits'
      BY <2>9, <2>10 DEF IdleBeltWaits
    <2>12. RestOK'
      BY <1>1, <2>1, <2>10, InvParts DEF RestOK, PostTypes
    <2> QED BY <2>9, <2>11, <2>12, InvIs
  <1>3. CASE Post(<<"ERR_PUK_TOO_EARLY">>) /\ UNCHANGED <<arrivals, puk_list, timers>>
    <2>1. Stays /\ timers' \subseteq timers /\ timers' = timers
      BY <1>1, <1>3 DEF Stays
    <2>2. PostTypes /\ (motorIdle' <=> motorIdle)
      BY <1>3, InvParts, PostQuiet DEF Sent, MotorCommands
    <2>3. RestOK'
      BY <1>1, <1>3, <2>2, InvParts DEF RestOK, PostTypes
    <2> QED BY <1>1, <2>1, <2>2, <2>3, PostKeeps
  <1>4. CASE /\ timers' = timers \ {transmit_timer}
             /\ UNCHANGED <<arrivals, puk_list, postVars>>
    <2>1. Stays /\ timers' \subseteq timers
      BY <1>1, <1>4 DEF Stays
    <2>2. \A t \in timers \ timers' : t.kind \notin Watching
      BY <1>4, GuardsAre DEF transmit_timer, Timer, Watching
    <2>3. RestOK' /\ motorIdle' = motorIdle
      BY <1>1, <1>4, InvParts DEF RestOK, postVars
    <2> QED BY <1>1, <2>1, <2>2, <2>3, PostKeeps
  <1> QED BY <1>2, <1>3, <1>4 DEF LIGHT_BARRIER_ENTRY_CLOSE

\* One grant less.
LEMMA OneLess ==
    ASSUME TypeOK, grants > 0
    PROVE  grants - 1 \in {0} \cup Arrivals
  <1>1. grants \in Arrivals /\ grants \in Nat
    BY CountsAre DEF TypeOK
  <1>2. PICK n \in SystemNumbers : grants \in 1..MaxPuks[n] /\ MaxPuks[n] \in Nat
    BY <1>1, MaxPuksAssumption, SystemNumbersAssumption DEF Arrivals
  <1>3. grants - 1 = 0 \/ grants - 1 \in 1..MaxPuks[n]
    BY <1>1, <1>2
  <1> QED BY <1>3 DEF Arrivals

\* A puk comes from the neighbour.
LEMMA NewPukKeeps ==
    ASSUME Inv, NEW_PUK
    PROVE  Inv'
  <1> DEFINE id == arrivals + 1
             x == Timer("GROUP", id)
             y == transmit_timer'
  <1>1. /\ SYSTEM_NUMBER # 1 /\ grants > 0 /\ arrivals < MaxPuks[SYSTEM_NUMBER]
        /\ arrivals' = id /\ grants' = grants - 1
        /\ SYSTEM_NUMBER' = SYSTEM_NUMBER /\ expired' = expired
        /\ sequence' = sequence /\ counter' = counter
    BY DEF NEW_PUK
  <1>2. id \in Arrivals /\ arrivals' = arrivals + 1
    BY <1>1, CountsAre, InvParts
  <1>3. y = Timer("TRANSMIT", id)
    BY <1>1 DEF transmit_timer
  <1>4. "GROUP" \in TimerKinds /\ "TRANSMIT" \in TimerKinds
    BY LostInIs DEF TimerKinds
  <1>5. /\ x \in Timers /\ x.kind = "GROUP" /\ x.of = id
        /\ y \in Timers /\ y.kind = "TRANSMIT" /\ y.of = id
    BY <1>2, <1>3, <1>4 DEF Timer, Timers
  <1>6. grants' \in {0} \cup Arrivals
    BY <1>1, InvParts, OneLess
  <1>7. ASSUME accept_new_puk' \in BOOLEAN, motorIdle' \in BOOLEAN PROVE RestOK'
    BY <1>1, <1>2, <1>6, <1>7, InvParts DEF RestOK
  <1>8. CASE /\ SYSTEM_NUMBER = 2
             /\ puk_list' = Append(puk_list, [id |-> id, state |-> "Start"])
             /\ timers' = timers \cup {y}
             /\ motorIdle' = FALSE /\ accept_new_puk' = accept_new_puk
    <2> DEFINE p == [id |-> id, state |-> "Start"]
    <2>1. p \in Puk /\ p.id = arrivals' /\ p.state = "Start"
      BY <1>1, <1>2 DEF Puk, PukStates
    <2>2. puk_list' = Append(puk_list, p) /\ timers' = timers \cup {y, y}
      BY <1>8
    <2> HIDE DEF x, y, p, id
    <2>3. Starts(y, y)
      BY <1>1, <1>2, <1>5, <2>2 DEF Starts
    <2>4. Appends(p, y)
      BY <1>8, <2>1, <2>2 DEF Appends
    <2>5. ListsInv' /\ puk_list' # <<>>
      BY <2>3, <2>4, InvParts, Appends1
    <2>6. IdleBeltWaits'
      BY <1>8, <2>5 DEF IdleBeltWaits
    <2>7. RestOK'
      BY <1>7, <1>8, InvParts DEF RestOK
    <2> QED BY <2>5, <2>6, <2>7, InvIs
  <1>9. CASE /\ SYSTEM_NUMBER = 3
             /\ puk_list' = Append(puk_list, [id |-> id, state |-> "Puk_1"])
             /\ timers' = timers \cup {y, x}
             /\ motorIdle' = FALSE /\ accept_new_puk' = FALSE
    <2> DEFINE p == [id |-> id, state |-> "Puk_1"]
    <2>1. p \in Puk /\ p.id = arrivals' /\ p.state = "Puk_1"
      BY <1>1, <1>2 DEF Puk, GroupStates
    <2>2. puk_list' = Append(puk_list, p) /\ timers' = timers \cup {x, y}
      BY <1>9
    <2> HIDE DEF x, y, p, id
    <2>3. Starts(x, y)
      BY <1>1, <1>2, <1>5, <2>2 DEF Starts
    <2>4. Appends(p, x)
      BY <1>5, <1>9, <2>1, <2>2 DEF Appends
    <2>5. ListsInv' /\ puk_list' # <<>>
      BY <2>3, <2>4, InvParts, Appends1
    <2>6. IdleBeltWaits'
      BY <1>9, <2>5 DEF IdleBeltWaits
    <2>7. RestOK'
      BY <1>7, <1>9
    <2> QED BY <2>5, <2>6, <2>7, InvIs
  <1>10. CASE /\ SYSTEM_NUMBER = 3 /\ Found({"Puk_1", "Puk_2"})
              /\ LET k == First({"Puk_1", "Puk_2"})
                 IN  Enter(k, IF puk_list[k].state = "Puk_1" THEN "Puk_2" ELSE "Puk_3")
              /\ timers' = timers \cup {y, x}
              /\ motorIdle' = FALSE /\ accept_new_puk' = FALSE
    <2>1. timers' = timers \cup {x, y}
      BY <1>10
    <2> HIDE DEF x, y, id
    <2>2. Joins(x)
      BY <1>5, <1>10 DEF Joins
    <2>3. Starts(x, y)
      BY <1>1, <1>2, <1>5, <2>1 DEF Starts
    <2>4. ListsInv' /\ (puk_list' = <<>> <=> puk_list = <<>>)
      BY <1>1, <2>2, <2>3, InvParts, Joining
    <2>5. puk_list # <<>>
      BY <1>10, InvParts DEF Found
    <2>6. IdleBeltWaits'
      BY <1>10, <2>4, <2>5 DEF IdleBeltWaits
    <2>7. RestOK'
      BY <1>7, <1>10
    <2> QED BY <2>4, <2>6, <2>7, InvIs
  <1>11. CASE /\ timers' = timers \cup {y}
              /\ UNCHANGED <<puk_list, motorIdle, accept_new_puk>>
    <2>1. timers' = timers \cup {y, y}
      BY <1>11
    <2> HIDE DEF x, y, id
    <2>2. Joins(y)
      BY <1>11 DEF Joins
    <2>3. Starts(y, y)
      BY <1>1, <1>2, <1>5, <2>1 DEF Starts
    <2>4. ListsInv'
      BY <1>1, <2>2, <2>3, InvParts, Joining
    <2>5. IdleBeltWaits'
      BY <1>1, <1>11, InvParts DEF IdleBeltWaits
    <2>6. RestOK'
      BY <1>7, <1>11, InvParts DEF RestOK
    <2> QED BY <2>4, <2>5, <2>6, InvIs
  <1> QED BY <1>8, <1>9, <1>10, <1>11 DEF NEW_PUK

\* The neighbour asks for a place.
LEMMA SendRequestKeeps ==
    ASSUME Inv, SEND_REQUEST
    PROVE  Inv'
  <1>1. /\ Post(RequestSent(puk_list = <<>>))
        /\ SYSTEM_NUMBER' = SYSTEM_NUMBER /\ arrivals' = arrivals /\ expired' = expired
        /\ puk_list' = puk_list /\ timers' = timers
        /\ accept_new_puk' = accept_new_puk /\ sequence' = sequence /\ counter' = counter
    BY DEF SEND_REQUEST, Others, Settings
  <1>2. RequestSent(puk_list = <<>>) \in {<<>>, <<"SEND_REQUEST_OK">>}
    BY DEF RequestSent
  <1>3. PostTypes /\ (motorIdle' <=> motorIdle)
    <2>1. CASE RequestSent(puk_list = <<>>) = <<>>
      BY <1>1, <2>1, InvParts, PostNothing
    <2>2. CASE RequestSent(puk_list = <<>>) = <<"SEND_REQUEST_OK">>
      <3>1. "SEND_REQUEST_OK" \in Sent \ MotorCommands
        BY DEF Sent, MotorCommands
      <3> QED BY <1>1, <2>2, <3>1, InvParts, PostQuiet
    <2> QED BY <1>2, <2>1, <2>2
  <1>4. Stays /\ timers' \subseteq timers
    BY <1>1 DEF Stays
  <1>5. RestOK'
    BY <1>1, <1>3, InvParts DEF RestOK, PostTypes
  <1> QED BY <1>1, <1>3, <1>4, <1>5, PostKeeps

\* Posting one pulse that is no command, or nothing, as the belt may be.
LEMMA PostMaybe ==
    ASSUME TypeOK, NEW p, NEW e \in Sent \ MotorCommands, p \in {<<>>, <<e>>}, Post(p)
    PROVE  PostTypes /\ (motorIdle' <=> motorIdle)
  <1>1. CASE p = <<>>
    BY <1>1, PostNothing
  <1>2. CASE p = <<e>>
    BY <1>2, PostQuiet
  <1> QED BY <1>1, <1>2

\* Where the first object in some states is, and on which belts.
LEMMA FoundIs ==
    ASSUME Inv, NEW S, Found(S)
    PROVE  /\ First(S) \in DOMAIN puk_list /\ puk_list[First(S)].state \in S
           /\ puk_list[First(S)].state \in Ours
           /\ puk_list[First(S)].state \in PukStates => Ours = PukStates /\ SYSTEM_NUMBER # 3
           /\ puk_list[First(S)].state \in GroupStates => Ours = GroupStates /\ SYSTEM_NUMBER = 3
           /\ puk_list # <<>>
  <1>1. First(S) \in DOMAIN puk_list /\ puk_list[First(S)].state \in S
    BY InvParts, FirstIs
  <1> HIDE DEF First
  <1>2. puk_list[First(S)].state \in Ours
    BY <1>1, InvParts DEF ListInv
  <1>3. \A s \in PukStates : s \notin GroupStates
    BY DEF PukStates, GroupStates
  <1>4. puk_list # <<>>
    BY <1>1
  <1> QED BY <1>1, <1>2, <1>3, <1>4 DEF Ours

\* A puk has passed the entrance.
LEMMA EntryOpenKeeps ==
    ASSUME Inv, LIGHT_BARRIER_ENTRY_OPEN
    PROVE  Inv'
  <1> DEFINE S == {"Start"}
             k == First(S)
             id == puk_list[k].id
             old == Timer("CREATE_PUK", id)
             mine == Timer("HEIGHT_MEASURE_DURATION", id)
  <1>1. /\ SYSTEM_NUMBER' = SYSTEM_NUMBER /\ arrivals' = arrivals /\ expired' = expired
        /\ accept_new_puk' = accept_new_puk /\ sequence' = sequence /\ counter' = counter
        /\ Post(IF SYSTEM_NUMBER = 1 THEN <<"ERR_PUK_TOO_EARLY_OK">> ELSE <<>>)
    BY DEF LIGHT_BARRIER_ENTRY_OPEN, Others, Settings
  <1>2. PostTypes /\ (motorIdle' <=> motorIdle)
    <2> DEFINE p == IF SYSTEM_NUMBER = 1 THEN <<"ERR_PUK_TOO_EARLY_OK">> ELSE <<>>
    <2>1. "ERR_PUK_TOO_EARLY_OK" \in Sent \ MotorCommands
      BY DEF Sent, MotorCommands
    <2>2. p \in {<<>>, <<"ERR_PUK_TOO_EARLY_OK">>} /\ Post(p)
      BY <1>1
    <2> HIDE DEF p
    <2> QED BY <2>1, <2>2, InvParts, PostMaybe
  <1>3. RestOK'
    BY <1>1, <1>2, InvParts DEF RestOK, PostTypes
  <1>4. CASE /\ Found(S) /\ Enter(k, "Active")
             /\ timers' = (timers \ {old}) \cup {mine}
    <2>1. puk_list[k].state = "Start" /\ Ours = PukStates
      BY <1>4, FoundIs DEF PukStates
    <2>2. Onward(S, "Start", "Active")
      BY <2>1, PlaceIs DEF Onward, PukStates
    <2>3. \A g \in DOMAIN Guards :
            /\ g = "CREATE_PUK" => Guards[g] = "Start"
            /\ Relevant(g) /\ Guards[g] = "Active" => g = "HEIGHT_MEASURE_DURATION"
      BY GuardsAre
    <2>4. /\ "HEIGHT_MEASURE_DURATION" \in DOMAIN Guards
          /\ Guards["HEIGHT_MEASURE_DURATION"] = "Active"
          /\ mine \in timers' /\ timers' \subseteq timers \cup {mine}
      BY <1>4, GuardsAre
    <2>5. "Active" \in Ours /\ "Active" \notin Collecting
      BY <2>1 DEF PukStates, Collecting
    <2>6. Moves(S, "Start", "Active", id, "CREATE_PUK", "HEIGHT_MEASURE_DURATION")
      BY <1>1, <1>4, <2>1, <2>2, <2>3, <2>4, <2>5 DEF Moves
    <2>7. \A t \in timers \ timers' : t = old
      BY <1>4
    <2> HIDE DEF S, id
    <2>8. WatchMoves("CREATE_PUK", "HEIGHT_MEASURE_DURATION")
      BY <1>1, <2>6, <2>7, InvParts, MovesWatch
    <2> QED BY <1>2, <1>3, <2>6, <2>8, MoveKeeps
  <1>5. CASE UNCHANGED <<puk_list, timers>>
    <2>1. Stays /\ timers' \subseteq timers /\ timers' = timers
      BY <1>1, <1>5 DEF Stays
    <2> QED BY <1>1, <1>2, <1>3, <2>1, PostKeeps
  <1> QED BY <1>4, <1>5 DEF LIGHT_BARRIER_ENTRY_OPEN, Rewatch

\* No puk was expected there.
LEMMA UnexpectedKeeps ==
    ASSUME Inv, Unexpected, UNCHANGED Others, UNCHANGED Settings
    PROVE  Inv'
  <1>1. /\ SYSTEM_NUMBER' = SYSTEM_NUMBER /\ arrivals' = arrivals /\ expired' = expired
        /\ accept_new_puk' = accept_new_puk /\ sequence' = sequence /\ counter' = counter
        /\ puk_list' = puk_list /\ timers' = timers
        /\ Post(IF SYSTEM_NUMBER = 3 THEN <<>> ELSE <<"ERR_TO_MANY_PUK">>)
    BY DEF Unexpected, Others, Settings
  <1>2. PostTypes /\ (motorIdle' <=> motorIdle)
    <2> DEFINE p == IF SYSTEM_NUMBER = 3 THEN <<>> ELSE <<"ERR_TO_MANY_PUK">>
    <2>1. "ERR_TO_MANY_PUK" \in Sent \ MotorCommands
      BY DEF Sent, MotorCommands
    <2>2. p \in {<<>>, <<"ERR_TO_MANY_PUK">>} /\ Post(p)
      BY <1>1
    <2> HIDE DEF p
    <2> QED BY <2>1, <2>2, InvParts, PostMaybe
  <1>3. RestOK'
    BY <1>1, <1>2, InvParts DEF RestOK, PostTypes
  <1>4. Stays /\ timers' \subseteq timers
    BY <1>1 DEF Stays
  <1> QED BY <1>1, <1>2, <1>3, <1>4, PostKeeps

\* A puk is lost where it is.
LEMMA Losing ==
    ASSUME Inv, NEW S, Found(S), puk_list[First(S)].state \in PukStates \ {"Error"},
           Enter(First(S), "Error"), NEW from, from # "GROUP",
           SYSTEM_NUMBER' = SYSTEM_NUMBER, arrivals' = arrivals,
           accept_new_puk' = accept_new_puk, timers' \subseteq timers,
           \A g \in DOMAIN Guards : g = from => Guards[g] = puk_list[First(S)].state
    PROVE  Moves(S, puk_list[First(S)].state, "Error", puk_list[First(S)].id, from, "none")
  <1> DEFINE a == puk_list[First(S)].state
             id == puk_list[First(S)].id
  <1>1. Ours = PukStates
    BY FoundIs
  <1>2. "Error" \in Ours /\ "Error" \notin Collecting /\ a # "Error"
    BY <1>1 DEF PukStates, Collecting
  <1>3. Onward(S, a, "Error")
    BY DEF Onward
  <1>4. \A g \in DOMAIN Guards : Guards[g] # "Error"
    BY GuardPlaces
  <1>5. a = puk_list[First(S)].state /\ id = puk_list[First(S)].id
    OBVIOUS
  <1> HIDE DEF a, id
  <1>6. \A g \in DOMAIN Guards : g = from => Guards[g] = a
    BY <1>5
  <1>7. Moves(S, a, "Error", id, from, "none")
    BY <1>2, <1>3, <1>4, <1>5, <1>6 DEF Moves
  <1> QED BY <1>5, <1>7

\* A puk gets to the height sensor.
LEMMA MeasureStartKeeps ==
    ASSUME Inv, HEIGHT_SENSOR_MEASURE_START
    PROVE  Inv'
  <1> DEFINE S == {"Active"}
             k == First(S)
             id == puk_list[k].id
             own == Timer("HEIGHT_MEASURE_DURATION", id)
             kind == "HEIGHT_MEASURE_DURATION"
  <1>1. UNCHANGED Others /\ UNCHANGED Settings
    BY DEF HEIGHT_SENSOR_MEASURE_START
  <1>2. /\ SYSTEM_NUMBER' = SYSTEM_NUMBER /\ arrivals' = arrivals /\ expired' = expired
        /\ accept_new_puk' = accept_new_puk /\ sequence' = sequence
    BY <1>1 DEF Others, Settings
  <1>3. CASE /\ Found(S) /\ timers' = timers \ {own} /\ counter' = counter
             /\ \/ Enter(k, "In_Height_Measurement") /\ Post(<<"MOTOR_SLOW">>)
                \/ Enter(k, "Error") /\ Post(<<"ERR_LOST_PUK">>)
    <2>1. puk_list[k].state = "Active" /\ Ours = PukStates
      BY <1>3, FoundIs DEF PukStates
    <2>2. \A g \in DOMAIN Guards :
            /\ g = kind => Guards[g] = "Active"
            /\ Guards[g] # "In_Height_Measurement"
      BY GuardsAre
    <2>3. timers' \subseteq timers /\ \A t \in timers \ timers' : t = own
      BY <1>3
    <2>4. CASE Enter(k, "In_Height_Measurement") /\ Post(<<"MOTOR_SLOW">>)
      <3>1. Onward(S, "Active", "In_Height_Measurement")
        BY <2>1, PlaceIs DEF Onward, PukStates
      <3>2. "In_Height_Measurement" \in Ours /\ "In_Height_Measurement" \notin Collecting
        BY <2>1 DEF PukStates, Collecting
      <3>3. Moves(S, "Active", "In_Height_Measurement", id, kind, "none")
        BY <1>2, <1>3, <2>1, <2>2, <2>3, <2>4, <3>1, <3>2 DEF Moves
      <3>4. PostTypes /\ ~ motorIdle'
        BY <2>4, InvParts, PostCommand DEF MotorCommands
      <3>5. RestOK'
        BY <1>2, <1>3, <3>4, InvParts DEF RestOK, PostTypes
      <3> HIDE DEF S, id
      <3>6. WatchMoves(kind, "none")
        BY <1>2, <2>3, <3>3, InvParts, MovesWatch
      <3> QED BY <3>3, <3>4, <3>5, <3>6, MoveKeeps
    <2>5. CASE Enter(k, "Error") /\ Post(<<"ERR_LOST_PUK">>)
      <3>1. PostTypes /\ (motorIdle' <=> motorIdle)
        BY <2>5, InvParts, PostQuiet DEF Sent, MotorCommands
      <3>2. RestOK'
        BY <1>2, <1>3, <3>1, InvParts DEF RestOK, PostTypes
      <3>3. puk_list[k].state \in PukStates \ {"Error"}
        BY <2>1 DEF PukStates
      <3> HIDE DEF S
      <3>4. Moves(S, puk_list[k].state, "Error", id, kind, "none")
        BY <1>2, <1>3, <2>1, <2>2, <2>3, <2>5, <3>3, Losing
      <3> HIDE DEF id
      <3>5. WatchMoves(kind, "none")
        BY <1>2, <2>3, <3>4, InvParts, MovesWatch
      <3> QED BY <3>1, <3>2, <3>4, <3>5, MoveKeeps
    <2> QED BY <1>3, <2>4, <2>5
  <1>4. CASE Unexpected
    BY <1>1, <1>4, UnexpectedKeeps
  <1> QED BY <1>3, <1>4 DEF HEIGHT_SENSOR_MEASURE_START

\* The profile of a puk is that of no type.
LEMMA UndefinedKeeps ==
    ASSUME Inv, ERR_UNDEFINED_PUK
    PROVE  Inv'
  <1> DEFINE S == {"In_Height_Measurement"}
             k == First(S)
             id == puk_list[k].id
  <1>1. /\ Found(S) /\ Enter(k, "Error") /\ Post(<<"ERR_LOST_PUK">>)
        /\ SYSTEM_NUMBER' = SYSTEM_NUMBER /\ arrivals' = arrivals /\ expired' = expired
        /\ accept_new_puk' = accept_new_puk /\ sequence' = sequence /\ counter' = counter
        /\ timers' = timers
    BY DEF ERR_UNDEFINED_PUK, Others, Settings
  <1>2. puk_list[k].state \in PukStates \ {"Error"}
    BY <1>1, FoundIs DEF PukStates
  <1>3. "none" # "GROUP" /\ \A g \in DOMAIN Guards : g # "none"
    BY GuardPlaces
  <1>4. PostTypes /\ (motorIdle' <=> motorIdle)
    BY <1>1, InvParts, PostQuiet DEF Sent, MotorCommands
  <1>5. RestOK'
    BY <1>1, <1>4, InvParts DEF RestOK, PostTypes
  <1> HIDE DEF S
  <1>6. Moves(S, puk_list[k].state, "Error", id, "none", "none")
    BY <1>1, <1>2, <1>3, Losing
  <1>7. WatchMoves("none", "none")
    BY <1>1, NothingWatched
  <1> QED BY <1>4, <1>5, <1>6, <1>7, MoveKeeps

\* The type of a puk is known: it goes to the ramp or to the switch, or it is
\* not the one belt 1 has sent.
LEMMA IdentifiedKeeps ==
    ASSUME Inv, NEW type \in PukTypes, IDENTIFIED_PUK(type)
    PROVE  Inv'
  <1> DEFINE S == {"In_Height_Measurement"}
             k == First(S)
             a == "In_Height_Measurement"
             id == puk_list[k].id
             To(s, kind) == Enter(k, s) /\ timers' = timers \cup {Timer(kind, id)}
  <1>1. /\ SYSTEM_NUMBER' = SYSTEM_NUMBER /\ arrivals' = arrivals /\ expired' = expired
        /\ accept_new_puk' = accept_new_puk /\ counter' = counter /\ Found(S)
        /\ \/ /\ Enter(k, "Error") /\ Post(<<"ERR_LOST_PUK">>)
              /\ UNCHANGED <<timers, sequence>>
           \/ /\ \/ To("Sortout", "HEIGHT_MEASURE_TO_RAMP")
                 \/ To("To_Switch", "HEIGHT_MEASURE_TO_SWITCH")
              /\ sequence' = IF type = Wanted THEN NextInSequence ELSE sequence
              /\ UNCHANGED postVars
    BY DEF IDENTIFIED_PUK, Others
  <1>2. puk_list[k].state = a /\ a \in PukStates \ {"Error"} /\ Ours = PukStates
    BY <1>1, FoundIs DEF PukStates
  <1>3. "none" # "GROUP" /\ \A g \in DOMAIN Guards : g # "none"
    BY GuardPlaces
  <1>4. CASE Enter(k, "Error") /\ Post(<<"ERR_LOST_PUK">>) /\ UNCHANGED <<timers, sequence>>
    <2>1. PostTypes /\ (motorIdle' <=> motorIdle)
      BY <1>4, InvParts, PostQuiet DEF Sent, MotorCommands
    <2>2. RestOK'
      BY <1>1, <1>4, <2>1, InvParts DEF RestOK, PostTypes
    <2> HIDE DEF S
    <2>3. Moves(S, puk_list[k].state, "Error", id, "none", "none")
      BY <1>1, <1>2, <1>3, <1>4, Losing
    <2>4. WatchMoves("none", "none")
      BY <1>1, <1>4, NothingWatched
    <2> QED BY <2>1, <2>2, <2>3, <2>4, MoveKeeps
  <1>5. ASSUME NEW s, NEW kind,
               \/ s = "Sortout" /\ kind = "HEIGHT_MEASURE_TO_RAMP"
               \/ s = "To_Switch" /\ kind = "HEIGHT_MEASURE_TO_SWITCH",
               To(s, kind), sequence' = IF type = Wanted THEN NextInSequence ELSE sequence,
               UNCHANGED postVars
        PROVE  Inv'
    <2> DEFINE mine == Timer(kind, id)
    <2>1. Onward(S, a, s)
      BY <1>2, <1>5, PlaceIs DEF Onward, PukStates
    <2>2. s \in Ours /\ s \notin Collecting /\ s # a
      BY <1>2, <1>5 DEF PukStates, Collecting
    <2>3. /\ kind \in DOMAIN Guards /\ Guards[kind] = s
          /\ mine \in timers' /\ timers' \subseteq timers \cup {mine}
      BY <1>5, GuardsAre
    <2>4. \A g \in DOMAIN Guards : g # "none" /\ (Guards[g] = s => g = kind)
      BY <1>5, <1>3, GuardsAre
    <2>5. Moves(S, a, s, id, "none", kind)
      BY <1>1, <1>2, <1>3, <1>5, <2>1, <2>2, <2>3, <2>4 DEF Moves
    <2>6. \A t \in timers \ timers' : t.kind \in Watching => t = Timer("none", id)
      BY <1>5
    <2> HIDE DEF S, id, a
    <2>7. WatchMoves("none", kind)
      BY <1>1, <2>5, <2>6, InvParts, MovesWatch
    <2>8. RestOK'
      <3>1. sequence' \in {"Idle", "Ohne_metall_1", "Ohne_metall_2"}
        BY <1>5, InvParts DEF RestOK, NextInSequence
      <3> QED BY <1>1, <1>5, <3>1, InvParts DEF RestOK, postVars
    <2>9. motorIdle' => motorIdle
      BY <1>5 DEF postVars
    <2> QED BY <2>5, <2>7, <2>8, <2>9, MoveKeeps
  <1> QED BY <1>1, <1>4, <1>5

\* A puk gets to the switch.
LEMMA SwitchCloseKeeps ==
    ASSUME Inv, LIGHT_BARRIER_SWITCH_CLOSE
    PROVE  Inv'
  <1> DEFINE k == First(AtSwitch)
             id == puk_list[k].id
             from == "HEIGHT_MEASURE_TO_SWITCH"
             to == "SWITCH_TO_EXIT"
             old == Timer(from, id)
             mine == Timer(to, id)
  <1>1. UNCHANGED Others /\ UNCHANGED Settings
    BY DEF LIGHT_BARRIER_SWITCH_CLOSE
  <1>2. /\ SYSTEM_NUMBER' = SYSTEM_NUMBER /\ arrivals' = arrivals /\ expired' = expired
        /\ accept_new_puk' = accept_new_puk /\ sequence' = sequence
    BY <1>1 DEF Others, Settings
  <1>3. CASE UNCHANGED <<puk_list, timers, counter, postVars>>
    <2>1. Stays /\ timers' \subseteq timers /\ timers' = timers
      BY <1>2, <1>3 DEF Stays
    <2>2. RestOK' /\ (motorIdle' <=> motorIdle)
      BY <1>2, <1>3, InvParts DEF RestOK, postVars
    <2> QED BY <1>2, <2>1, <2>2, PostKeeps
  <1>4. CASE /\ Found(AtSwitch) /\ puk_list[k].state = "To_Switch"
             /\ Enter(k, "To_Exit")
             /\ timers' = (timers \ {old}) \cup {mine}
             /\ Post(<<"SWITCH_OPEN">>) /\ counter' = counter
    <2>1. Ours = PukStates
      BY <1>4, FoundIs DEF PukStates
    <2>2. Onward(AtSwitch, "To_Switch", "To_Exit")
      BY <2>1, PlaceIs DEF Onward, PukStates, AtSwitch
    <2>3. \A g \in DOMAIN Guards :
            (g = from => Guards[g] = "To_Switch") /\ (Guards[g] = "To_Exit" => g = to)
      BY GuardsAre
    <2>4. /\ to \in DOMAIN Guards /\ Guards[to] = "To_Exit"
          /\ mine \in timers' /\ timers' \subseteq timers \cup {mine}
      BY <1>4, GuardsAre
    <2>5. "To_Exit" \in Ours /\ "To_Exit" \notin Collecting
      BY <2>1 DEF PukStates, Collecting
    <2>6. Moves(AtSwitch, "To_Switch", "To_Exit", id, from, to)
      BY <1>2, <1>4, <2>1, <2>2, <2>3, <2>4, <2>5 DEF Moves
    <2>7. \A t \in timers \ timers' : t = old
      BY <1>4
    <2>8. PostTypes /\ (motorIdle' <=> motorIdle)
      BY <1>4, InvParts, PostQuiet DEF Sent, MotorCommands
    <2>9. RestOK'
      BY <1>2, <1>4, <2>8, InvParts DEF RestOK, PostTypes
    <2> HIDE DEF id
    <2>10. WatchMoves(from, to)
      BY <1>2, <2>6, <2>7, InvParts, MovesWatch
    <2> QED BY <2>6, <2>8, <2>9, <2>10, MoveKeeps
  <1>5. CASE /\ Found(AtSwitch) /\ puk_list[k].state = "Puk_3"
             /\ counter' = CounterAfter
             /\ IF counter = 1 THEN Enter(k, "Switch_Open") ELSE UNCHANGED puk_list
             /\ Post(<<"SWITCH_OPEN">>) /\ timers' = timers
    <2>1. Ours = GroupStates
      BY <1>5, FoundIs DEF GroupStates
    <2>2. PostTypes /\ (motorIdle' <=> motorIdle)
      BY <1>5, InvParts, PostQuiet DEF Sent, MotorCommands
    <2>3. RestOK'
      <3>1. counter' \in 0..1
        BY <1>5, InvParts DEF RestOK, CounterAfter
      <3> QED BY <1>2, <2>2, <3>1, InvParts DEF RestOK, PostTypes
    <2>4. WatchMoves("none", "none")
      BY <1>2, <1>5, NothingWatched
    <2>5. CASE Enter(k, "Switch_Open")
      <3>1. Onward(AtSwitch, "Puk_3", "Switch_Open")
        BY <2>1, PlaceIs DEF Onward, GroupStates, AtSwitch
      <3>2. \A g \in DOMAIN Guards : g # "none" /\ Guards[g] # "Switch_Open"
        BY GuardsAre
      <3>3. "Switch_Open" \in Ours /\ "Switch_Open" \notin Collecting
        BY <2>1 DEF GroupStates, Collecting
      <3>4. Moves(AtSwitch, "Puk_3", "Switch_Open", id, "none", "none")
        BY <1>2, <1>5, <2>5, <3>1, <3>2, <3>3 DEF Moves
      <3> QED BY <2>2, <2>3, <2>4, <3>4, MoveKeeps
    <2>6. CASE puk_list' = puk_list
      <3>1. Stays /\ timers' \subseteq timers
        BY <1>2, <1>5, <2>6 DEF Stays
      <3> QED BY <1>2, <1>5, <2>2, <2>3, <3>1, PostKeeps
    <2> QED BY <1>5, <2>5, <2>6
  <1>6. CASE Unexpected
    BY <1>1, <1>6, UnexpectedKeeps
  <1> QED BY <1>3, <1>4, <1>5, <1>6 DEF LIGHT_BARRIER_SWITCH_CLOSE, Rewatch

\* Two pulses of which none idles the belt.
LEMMA PostTwo ==
    ASSUME TypeOK, NEW e \in Sent \ {"MOTOR_IDLE"}, NEW f \in Sent \ {"MOTOR_IDLE"},
           Post(<<e, f>>)
    PROVE  PostTypes /\ (motorIdle' => motorIdle)
  <1> DEFINE p == <<e, f>>
  <1>1. p \in Seq(Sent) /\ Post(p)
    OBVIOUS
  <1>2. ~ Idles(p)
    BY IdlesShort
  <1> HIDE DEF p
  <1> QED BY <1>1, <1>2, PostIs DEF PostTypes

\* A puk gets to the end of the belt, on belt 3 a group.
LEMMA ExitCloseKeeps ==
    ASSUME Inv, LIGHT_BARRIER_EXIT_CLOSE
    PROVE  Inv'
  <1> DEFINE S == {"To_Exit", "Switch_Open"}
             k == First(S)
             id == puk_list[k].id
             kind == "SWITCH_TO_EXIT"
             own == Timer(kind, id)
  <1>1. UNCHANGED Others /\ UNCHANGED Settings /\ counter' = counter
    BY DEF LIGHT_BARRIER_EXIT_CLOSE
  <1>2. /\ SYSTEM_NUMBER' = SYSTEM_NUMBER /\ arrivals' = arrivals /\ expired' = expired
        /\ accept_new_puk' = accept_new_puk /\ sequence' = sequence
    BY <1>1 DEF Others, Settings
  <1>3. {"MOTOR_STOP", "SEND_WANT", "ERR_LOST_PUK", "TRAFFIC_LIGHT_NEW_PUK"}
            \subseteq Sent \ {"MOTOR_IDLE"}
    BY DEF Sent, MotorCommands
  <1>4. CASE /\ Found(S) /\ puk_list[k].state = "To_Exit" /\ timers' = timers \ {own}
             /\ \/ Enter(k, "Transmit") /\ Post(<<"MOTOR_STOP", "SEND_WANT">>)
                \/ Enter(k, "Error") /\ Post(<<"MOTOR_STOP", "ERR_LOST_PUK">>)
    <2>1. "To_Exit" \in PukStates \ {"Error"} /\ Ours = PukStates
      BY <1>4, FoundIs DEF PukStates
    <2>2. \A g \in DOMAIN Guards :
            (g = kind => Guards[g] = "To_Exit") /\ Guards[g] # "Transmit"
      BY GuardsAre
    <2>3. timers' \subseteq timers /\ \A t \in timers \ timers' : t = own
      BY <1>4
    <2>4. PostTypes /\ (motorIdle' => motorIdle)
      BY <1>3, <1>4, InvParts, PostTwo
    <2>5. RestOK'
      BY <1>1, <1>2, <2>4, InvParts DEF RestOK, PostTypes
    <2>6. CASE Enter(k, "Transmit")
      <3>1. Onward(S, "To_Exit", "Transmit")
        BY <2>1, PlaceIs DEF Onward, PukStates
      <3>2. "Transmit" \in Ours /\ "Transmit" \notin Collecting
        BY <2>1 DEF PukStates, Collecting
      <3>3. Moves(S, "To_Exit", "Transmit", id, kind, "none")
        BY <1>2, <1>4, <2>2, <2>3, <2>6, <3>1, <3>2 DEF Moves
      <3> HIDE DEF S, id
      <3>4. WatchMoves(kind, "none")
        BY <1>2, <2>3, <3>3, InvParts, MovesWatch
      <3> QED BY <2>4, <2>5, <3>3, <3>4, MoveKeeps
    <2>7. CASE Enter(k, "Error")
      <3>1. puk_list[k].state \in PukStates \ {"Error"}
        BY <1>4, <2>1
      <3> HIDE DEF S
      <3>2. Moves(S, puk_list[k].state, "Error", id, kind, "none")
        BY <1>2, <1>4, <2>2, <2>3, <2>7, <3>1, Losing
      <3> HIDE DEF id
      <3>3. WatchMoves(kind, "none")
        BY <1>2, <2>3, <3>2, InvParts, MovesWatch
      <3> QED BY <2>4, <2>5, <3>2, <3>3, MoveKeeps
    <2> QED BY <1>4, <2>6, <2>7
  <1>5. CASE /\ Found(S) /\ puk_list[k].state = "Switch_Open"
             /\ Enter(k, "Exit_Belt_3")
             /\ Post(<<"MOTOR_STOP", "TRAFFIC_LIGHT_NEW_PUK">>) /\ timers' = timers
    <2>1. Ours = GroupStates
      BY <1>5, FoundIs DEF GroupStates
    <2>2. Onward(S, "Switch_Open", "Exit_Belt_3")
      BY <2>1, PlaceIs DEF Onward, GroupStates
    <2>3. \A g \in DOMAIN Guards : g # "none" /\ Guards[g] # "Exit_Belt_3"
      BY GuardsAre
    <2>4. "Exit_Belt_3" \in Ours /\ "Exit_Belt_3" \notin Collecting
      BY <2>1 DEF GroupStates, Collecting
    <2>5. Moves(S, "Switch_Open", "Exit_Belt_3", id, "none", "none")
      BY <1>2, <1>5, <2>2, <2>3, <2>4 DEF Moves
    <2>6. WatchMoves("none", "none")
      BY <1>2, <1>5, NothingWatched
    <2>7. PostTypes /\ (motorIdle' => motorIdle)
      BY <1>3, <1>5, InvParts, PostTwo
    <2>8. RestOK'
      BY <1>1, <1>2, <2>7, InvParts DEF RestOK, PostTypes
    <2> HIDE DEF S
    <2> QED BY <2>5, <2>6, <2>7, <2>8, MoveKeeps
  <1>6. CASE Unexpected
    BY <1>1, <1>6, UnexpectedKeeps
  <1> QED BY <1>4, <1>5, <1>6 DEF LIGHT_BARRIER_EXIT_CLOSE

\* The neighbour takes a puk.
LEMMA SendOkKeeps ==
    ASSUME Inv, SEND_OK
    PROVE  Inv'
  <1> DEFINE S == {"Transmit"}
             k == First(S)
             id == puk_list[k].id
             mine == Timer("EXIT", id)
  <1>1. /\ SYSTEM_NUMBER' = SYSTEM_NUMBER /\ arrivals' = arrivals /\ expired' = expired
        /\ accept_new_puk' = accept_new_puk /\ sequence' = sequence /\ counter' = counter
        /\ Found(S) /\ Enter(k, "To_Next_Geme") /\ timers' = timers \cup {mine}
        /\ Post(<<"MOTOR_START">>)
    BY DEF SEND_OK, Others, Settings
  <1>2. puk_list[k].state = "Transmit" /\ Ours = PukStates
    BY <1>1, FoundIs DEF PukStates
  <1>3. Onward(S, "Transmit", "To_Next_Geme")
    BY <1>2, PlaceIs DEF Onward, PukStates
  <1>4. \A g \in DOMAIN Guards : g # "none" /\ (Guards[g] = "To_Next_Geme" => g = "EXIT")
    BY GuardsAre
  <1>5. /\ "EXIT" \in DOMAIN Guards /\ Guards["EXIT"] = "To_Next_Geme"
        /\ mine \in timers' /\ timers' \subseteq timers \cup {mine}
    BY <1>1, GuardsAre
  <1>6. "To_Next_Geme" \in Ours /\ "To_Next_Geme" \notin Collecting
    BY <1>2 DEF PukStates, Collecting
  <1>7. Moves(S, "Transmit", "To_Next_Geme", id, "none", "EXIT")
    BY <1>1, <1>2, <1>3, <1>4, <1>5, <1>6 DEF Moves
  <1>8. \A t \in timers \ timers' : t.kind \in Watching => t = Timer("none", id)
    BY <1>1
  <1>9. PostTypes /\ ~ motorIdle'
    BY <1>1, InvParts, PostCommand DEF MotorCommands
  <1>10. RestOK'
    BY <1>1, <1>9, InvParts DEF RestOK, PostTypes
  <1> HIDE DEF S, id
  <1>11. WatchMoves("none", "EXIT")
    BY <1>1, <1>7, <1>8, InvParts, MovesWatch
  <1> QED BY <1>7, <1>9, <1>10, <1>11, MoveKeeps

\* What Kill_Puk stops besides the timers of the puk watches nothing.
LEMMA KillStops ==
    ASSUME NEW k, NEW pulses, NEW stop, Kill(k, pulses, stop)
    PROVE  /\ timers' \subseteq timers
           /\ \A t \in timers \ timers' : t.kind \in Watching => t \in stop
  <1>1. timers' = timers \ (stop \cup (IF Len(puk_list) = 1 THEN {entry_timer} ELSE {}))
    BY DEF Kill
  <1>2. entry_timer.kind \notin Watching
    BY GuardsAre DEF entry_timer, Timer, Watching
  <1> QED BY <1>1, <1>2

\* Kill_Puk keeps what there is to keep.
LEMMA Killing ==
    ASSUME Inv, NEW k \in DOMAIN puk_list, NEW pulses \in Seq(Sent), ~ Idles(pulses),
           NEW stop, Kill(k, pulses, stop), NEW from, from # "GROUP",
           \A g \in DOMAIN Guards : g = from => Guards[g] = puk_list[k].state,
           WatchMoves(from, "none"), expired' \in Seq(Timers),
           UNCHANGED <<SYSTEM_NUMBER, arrivals, accept_new_puk, sequence, counter>>
    PROVE  Inv'
  <1> DEFINE a == puk_list[k].state
             p == pulses \o KillSent
  <1>1. Post(p) /\ puk_list' = RemoveAt(puk_list, k)
    BY DEF Kill
  <1>2. timers' \subseteq timers
    BY KillStops
  <1>3. /\ p \in Seq(Sent)
        /\ Len(puk_list) = 1 => Idles(p)
        /\ Len(puk_list) # 1 => ~ Idles(p)
    BY KillSentIs
  <1> HIDE DEF p
  <1>4. /\ PostTypes /\ (motorIdle' => Idles(p) \/ motorIdle)
        /\ Idles(p) => motorIdle'
    BY <1>1, <1>3, InvParts, PostIs DEF PostTypes
  <1>5. a = puk_list[k].state
    OBVIOUS
  <1>6. \A g \in DOMAIN Guards : g = from => Guards[g] = a
    BY <1>5
  <1> HIDE DEF a
  <1>7. Deletes(k, a, from)
    BY <1>1, <1>2, <1>5, <1>6 DEF Deletes
  <1>8. RestOK'
    BY <1>4, InvParts DEF RestOK, PostTypes
  <1>9. /\ Len(puk_list) = 1 => motorIdle'
        /\ Len(puk_list) # 1 => (motorIdle' => motorIdle)
    BY <1>3, <1>4
  <1> QED BY <1>7, <1>8, <1>9, DeleteKeeps

\* A puk leaves by the ramp.
LEMMA RampOpenKeeps ==
    ASSUME Inv, LIGHT_BARRIER_RAMP_OPEN
    PROVE  Inv'
  <1> DEFINE S == {"Sortout"}
             k == First(S)
             kind == "HEIGHT_MEASURE_TO_RAMP"
             own == Timer(kind, puk_list[k].id)
  <1>1. UNCHANGED Others /\ UNCHANGED Settings /\ counter' = counter
    BY DEF LIGHT_BARRIER_RAMP_OPEN
  <1>2. /\ UNCHANGED <<SYSTEM_NUMBER, arrivals, accept_new_puk, sequence, counter>>
        /\ expired' = expired
    BY <1>1 DEF Others, Settings
  <1>3. CASE Found(S) /\ Kill(k, <<>>, {own})
    <2>1. k \in DOMAIN puk_list /\ puk_list[k].state = "Sortout"
      BY <1>3, FoundIs
    <2>2. /\ timers' \subseteq timers
          /\ \A t \in timers \ timers' : t.kind \in Watching => t = own
      BY <1>3, KillStops
    <2>3. own.kind = kind /\ "none" \notin Watching
      BY GuardPlaces DEF Timer, Watching
    <2>4. \A g \in DOMAIN Guards : g = kind => Guards[g] = puk_list[k].state
      BY <2>1, GuardsAre
    <2>5. IsFiniteSet(timers')
      BY <2>2, InvParts, FS_Subset DEF TimersInv
    <2>6. expired' \in Seq(Timers)
      BY <1>2, InvParts DEF RestOK
    <2> HIDE DEF own, S
    <2>7. WatchMoves(own.kind, "none")
      BY <1>2, <2>2, <2>3, <2>5, InvParts, WatchChanged
    <2>8. WatchMoves(kind, "none")
      BY <2>3, <2>7
    <2>9. <<>> \in Seq(Sent) /\ ~ Idles(<<>>)
      BY IdlesShort
    <2> QED BY <1>2, <1>3, <2>1, <2>4, <2>6, <2>8, <2>9, Killing
  <1>4. CASE Unexpected
    BY <1>1, <1>4, UnexpectedKeeps
  <1> QED BY <1>3, <1>4 DEF LIGHT_BARRIER_RAMP_OPEN

\* A puk is deleted that no timer watches.
LEMMA KillingUnwatched ==
    ASSUME Inv, NEW S, Found(S), NEW pulses \in Seq(Sent), ~ Idles(pulses),
           Kill(First(S), pulses, {}), UNCHANGED Others, UNCHANGED Settings,
           counter' = counter
    PROVE  Inv'
  <1> DEFINE k == First(S)
  <1>1. k \in DOMAIN puk_list
    BY FoundIs
  <1>2. Kill(k, pulses, {})
    OBVIOUS
  <1> HIDE DEF k
  <1>3. /\ UNCHANGED <<SYSTEM_NUMBER, arrivals, accept_new_puk, sequence, counter>>
        /\ expired' = expired
    BY DEF Others, Settings
  <1>4. timers' \subseteq timers /\ \A t \in timers \ timers' : t.kind \notin Watching
    BY <1>2, KillStops
  <1>5. WatchMoves("none", "none")
    BY <1>3, <1>4, NothingWatched
  <1>6. "none" # "GROUP" /\ \A g \in DOMAIN Guards : g = "none" => Guards[g] = puk_list[k].state
    BY GuardPlaces
  <1>7. expired' \in Seq(Timers)
    BY <1>3, InvParts DEF RestOK
  <1> QED BY <1>1, <1>2, <1>3, <1>5, <1>6, <1>7, Killing

\* A group is taken from belt 3.
LEMMA StartKeeps ==
    ASSUME Inv, BUTTON_START
    PROVE  Inv'
  <1> DEFINE p == <<"TRAFFIC_LIGHT_NORMAL", "TIMER_SWITCH_OUT", "MOTOR_START">>
             S == {"Exit_Belt_3"}
  <1>1. /\ Found(S) /\ Kill(First(S), p, {})
        /\ UNCHANGED Others /\ UNCHANGED Settings /\ counter' = counter
    BY DEF BUTTON_START
  <1>2. p \in Seq(Sent)
    BY DEF Sent, MotorCommands
  <1>3. ~ Idles(p)
    BY IdlesShort
  <1> HIDE DEF p, S
  <1> QED BY <1>1, <1>2, <1>3, KillingUnwatched

\* A lost puk is forgotten.
LEMMA ErrOkKeeps ==
    ASSUME Inv, ERR_OK
    PROVE  Inv'
  <1> DEFINE S == {"Error"}
  <1>1. /\ Found(S) /\ Kill(First(S), <<>>, {})
        /\ UNCHANGED Others /\ UNCHANGED Settings /\ counter' = counter
    BY DEF ERR_OK
  <1>2. <<>> \in Seq(Sent) /\ ~ Idles(<<>>)
    BY IdlesShort
  <1> HIDE DEF S
  <1> QED BY <1>1, <1>2, KillingUnwatched

\* How many pulses wait, and how many timers run.
LEMMA WatchNumbers ==
    ASSUME TypeOK, TimersInv
    PROVE  \A g : Waiting(expired, g) \in Nat /\ Running(timers, g) \in Nat
  <1> SUFFICES ASSUME NEW g PROVE Waiting(expired, g) \in Nat /\ Running(timers, g) \in Nat
    OBVIOUS
  <1>1. DOMAIN expired = 1..Len(expired) /\ Len(expired) \in Nat
    BY DEF TypeOK
  <1>2. {k \in DOMAIN expired : expired[k].kind = g} \in SUBSET (1..Len(expired))
    BY <1>1
  <1>3. Waiting(expired, g) \in Nat
    BY <1>1, <1>2, PlacesFinite DEF Waiting
  <1>4. IsFiniteSet({t \in timers : t.kind = g})
    BY FS_Subset DEF TimersInv
  <1> QED BY <1>3, <1>4, FS_CardinalityType DEF Running

\* A timer that runs out watches on by its pulse.
LEMMA ExpireKeeps ==
    ASSUME Inv, NEW t \in timers, Expire(t)
    PROVE  Inv'
  <1>1. /\ timers' = timers \ {t}
        /\ expired' = IF t.kind = "NEW_PUK" THEN expired ELSE Append(expired, t)
        /\ SYSTEM_NUMBER' = SYSTEM_NUMBER /\ arrivals' = arrivals /\ puk_list' = puk_list
        /\ accept_new_puk' = accept_new_puk /\ sequence' = sequence /\ counter' = counter
        /\ motorIdle' = motorIdle /\ grants' = grants
    BY DEF Expire, Settings, postVars
  <1>2. t \in Timers /\ expired \in Seq(Timers) /\ IsFiniteSet(timers)
    BY InvParts DEF RestOK, TimersInv
  <1>3. Stays
    BY <1>1 DEF Stays
  <1>4. RestOK'
    BY <1>1, <1>2, InvParts DEF RestOK
  <1>5. "none" # "GROUP" /\ \A g \in DOMAIN Guards : g # "none"
    BY GuardPlaces
  <1>6. WatchMoves("none", "none")
    <2> SUFFICES ASSUME NEW g \in Watching
                 PROVE  /\ Watch(g) \in Nat /\ Watch(g)' \in Nat
                        /\ Watch(g)' >= Watch(g) - One(g = "none") + One(g = "none")
      BY DEF WatchMoves
    <2> DEFINE r == Running(timers, g)
               q == Running(timers', g)
               w == Waiting(expired, g)
               v == Waiting(expired', g)
               isT == t.kind = g
    <2>1. r \in Nat /\ q \in Nat /\ r = q + One(isT)
      <3>1. /\ Running(timers, g) \in Nat /\ Running(timers \ {t}, g) \in Nat
            /\ Running(timers, g) =
                 Running(timers \ {t}, g) + One(t \in timers /\ t.kind = g)
        BY <1>2, RunningStopped
      <3> QED BY <1>1, <3>1 DEF One
    <2>2. w \in Nat
      BY InvParts, WatchNumbers
    <2>3. v \in Nat /\ v = w + One(isT)
      <3>1. CASE t.kind = "NEW_PUK"
        <4>1. "NEW_PUK" \notin Watching
          BY GuardsAre DEF Watching
        <4>2. ~ isT
          BY <3>1, <4>1
        <4>3. v = w
          BY <1>1, <3>1
        <4> HIDE DEF v, w, isT
        <4> QED BY <2>2, <4>2, <4>3 DEF One
      <3>2. CASE t.kind # "NEW_PUK"
        <4>1. /\ Waiting(Append(expired, t), g) \in Nat
              /\ Waiting(Append(expired, t), g) = Waiting(expired, g) + One(t.kind = g)
          BY <1>2, WaitingAppended
        <4> QED BY <1>1, <3>2, <4>1
      <3> QED BY <3>1, <3>2
    <2>4. Watch(g) = r + w /\ Watch(g)' = q + v
      BY DEF Watch
    <2>5. One(g = "none") = 0
      BY <1>5 DEF One, Watching
    <2> HIDE DEF r, q, w, v, isT
    <2>6. One(isT) \in Int
      BY DEF One
    <2> QED BY <2>1, <2>2, <2>3, <2>4, <2>5, <2>6
  <1>7. motorIdle' <=> motorIdle
    BY <1>1
  <1> QED BY <1>1, <1>3, <1>4, <1>5, <1>6, <1>7, StayKeeps

\* A pulse that is taken watches no longer.
LEMMA PulseTaken ==
    ASSUME Inv, expired # <<>>, expired' = Tail(expired), timers' \subseteq timers,
           \A t \in timers \ timers' : t.kind \notin Watching
    PROVE  WatchMoves(Head(expired).kind, "none") /\ expired' \in Seq(Timers)
  <1> DEFINE kind == Head(expired).kind
             none == Timer("none", 0)
  <1>1. expired \in Seq(Timers) /\ IsFiniteSet(timers)
    BY InvParts DEF RestOK, TimersInv
  <1>2. expired' \in Seq(Timers)
    BY <1>1
  <1>3. none.kind = "none" /\ "none" \notin Watching
    BY GuardPlaces DEF Timer, Watching
  <1>4. \A t \in timers \ timers' : t.kind \in Watching => t = none
    OBVIOUS
  <1> HIDE DEF none, kind
  <1>5. IsFiniteSet(timers')
    BY <1>1, FS_Subset
  <1>6. \A g \in Watching :
            /\ Running(timers, g) \in Nat /\ Running(timers', g) \in Nat
            /\ Running(timers', g) >=
                 Running(timers, g) - One(g = none.kind) + One(g = "none")
    BY <1>1, <1>3, <1>4, <1>5, TimersChanged
  <1>7. WatchMoves(kind, "none")
    <2> SUFFICES ASSUME NEW g \in Watching
                 PROVE  /\ Watch(g) \in Nat /\ Watch(g)' \in Nat
                        /\ Watch(g)' >= Watch(g) - One(g = kind) + One(g = "none")
      BY DEF WatchMoves
    <2> DEFINE r == Running(timers, g)
               q == Running(timers', g)
               w == Waiting(expired, g)
               v == Waiting(expired', g)
               isT == g = kind
    <2>1. One(g = "none") = 0 /\ One(g = none.kind) = 0
      BY <1>3 DEF One
    <2>2. r \in Nat /\ q \in Nat /\ q >= r
      <3>1. r \in Nat /\ q \in Nat /\ q >= r - One(g = none.kind) + One(g = "none")
        BY <1>6
      <3> HIDE DEF r, q
      <3> QED BY <2>1, <3>1
    <2>3. w \in Nat /\ v \in Nat /\ w = v + One(isT)
      <3>1. /\ Waiting(expired, g) \in Nat /\ Waiting(Tail(expired), g) \in Nat
            /\ Waiting(expired, g) = Waiting(Tail(expired), g) + One(Head(expired).kind = g)
        BY <1>1, WaitingTail
      <3>2. isT <=> Head(expired).kind = g
        BY DEF kind
      <3> HIDE DEF isT
      <3>3. One(isT) = One(Head(expired).kind = g)
        BY <3>2 DEF One
      <3> QED BY <3>1, <3>3
    <2>4. Watch(g) = r + w /\ Watch(g)' = q + v
      BY DEF Watch
    <2> HIDE DEF r, q, w, v, isT
    <2>5. One(isT) \in Int
      BY DEF One
    <2>6. /\ Watch(g) \in Nat /\ Watch(g)' \in Nat
          /\ Watch(g)' >= Watch(g) - One(isT) + One(g = "none")
      BY <2>1, <2>2, <2>3, <2>4, <2>5
    <2> QED BY <2>6 DEF isT
  <1> QED BY <1>2, <1>7 DEF kind

\* No object is in a state.
LEMMA NotFound ==
    ASSUME NEW s, ~ Found({s})
    PROVE  Num(puk_list, s) = 0
  <1>1. {k \in DOMAIN puk_list : puk_list[k].state = s} = {}
    BY DEF Found
  <1> QED BY <1>1, FS_EmptySet DEF Num

\* A puk that does not appear in time is lost: with it goes the pulse.
LEMMA PukLostKeeps ==
    ASSUME Inv, PukLost
    PROVE  Inv'
  <1> DEFINE kind == Head(expired).kind
             s == LostIn[kind]
             S == {s}
             k == First(S)
  <1>1. /\ expired # <<>> /\ expired' = Tail(expired) /\ kind \in DOMAIN LostIn
        /\ SYSTEM_NUMBER' = SYSTEM_NUMBER /\ arrivals' = arrivals
        /\ sequence' = sequence /\ counter' = counter
        /\ timers' = timers /\ accept_new_puk' = accept_new_puk
        /\ \/ Found(S) /\ Enter(k, "Error") /\ Post(<<"ERR_LOST_PUK">>)
           \/ ~ Found(S) /\ UNCHANGED <<puk_list, postVars>>
    BY DEF PukLost, Receive
  <1>2. timers' \subseteq timers /\ \A t \in timers \ timers' : t.kind \notin Watching
    BY <1>1
  <1>3. WatchMoves(kind, "none") /\ expired' \in Seq(Timers)
    BY <1>1, <1>2, PulseTaken
  <1> HIDE DEF kind
  <1>4. kind # "GROUP" /\ s \in PukStates \ {"Error"}
    BY <1>1, LostInIs, GuardsAre DEF PukStates
  <1>5. \A g \in DOMAIN Guards : g = kind => Guards[g] = s
    BY <1>1, LostInIs, GuardsAre
  <1>6. CASE Found(S) /\ Enter(k, "Error") /\ Post(<<"ERR_LOST_PUK">>)
    <2>1. puk_list[k].state = s
      BY <1>6, FoundIs
    <2>2. PostTypes /\ (motorIdle' <=> motorIdle)
      BY <1>6, InvParts, PostQuiet DEF Sent, MotorCommands
    <2>3. RestOK'
      BY <1>1, <1>3, <2>2, InvParts DEF RestOK, PostTypes
    <2> HIDE DEF s, S
    <2>4. Moves(S, puk_list[k].state, "Error", puk_list[k].id, kind, "none")
      BY <1>1, <1>2, <1>4, <1>5, <1>6, <2>1, Losing
    <2> QED BY <1>3, <2>2, <2>3, <2>4, MoveKeeps
  <1>7. CASE ~ Found(S) /\ UNCHANGED <<puk_list, postVars>>
    <2>1. Num(puk_list, s) = 0
      BY <1>7, NotFound
    <2>2. Stays
      BY <1>1, <1>7 DEF Stays
    <2>3. RestOK' /\ (motorIdle' <=> motorIdle)
      BY <1>1, <1>3, <1>7, InvParts DEF RestOK, postVars
    <2> HIDE DEF s, S
    <2>4. \A g \in DOMAIN Guards : g = kind => Num(puk_list, Guards[g]) = 0
      BY <1>5, <2>1
    <2> QED BY <1>1, <1>3, <1>4, <2>2, <2>3, <2>4, StayKeeps
  <1> QED BY <1>1, <1>6, <1>7

\* A puk has left the belt, or is gone already.
LEMMA ExitOutKeeps ==
    ASSUME Inv, TIMER_EXIT_OUT
    PROVE  Inv'
  <1> DEFINE S == {"To_Next_Geme"}
             k == First(S)
  <1>1. /\ expired # <<>> /\ expired' = Tail(expired) /\ Head(expired).kind = "EXIT"
        /\ UNCHANGED <<SYSTEM_NUMBER, arrivals, accept_new_puk, sequence, counter>>
        /\ \/ Found(S) /\ Kill(k, <<>>, {})
           \/ ~ Found(S) /\ UNCHANGED <<puk_list, timers, postVars>>
    BY DEF TIMER_EXIT_OUT, Receive
  <1>2. timers' \subseteq timers /\ \A t \in timers \ timers' : t.kind \notin Watching
    BY <1>1, KillStops
  <1>3. WatchMoves("EXIT", "none") /\ expired' \in Seq(Timers)
    BY <1>1, <1>2, PulseTaken
  <1>4. \A g \in DOMAIN Guards : g = "EXIT" => Guards[g] = "To_Next_Geme"
    BY GuardsAre
  <1>5. CASE Found(S) /\ Kill(k, <<>>, {})
    <2>1. k \in DOMAIN puk_list /\ puk_list[k].state = "To_Next_Geme"
      BY <1>5, FoundIs
    <2>2. \A g \in DOMAIN Guards : g = "EXIT" => Guards[g] = puk_list[k].state
      BY <1>4, <2>1
    <2>3. <<>> \in Seq(Sent) /\ ~ Idles(<<>>)
      BY IdlesShort
    <2> HIDE DEF S
    <2> QED BY <1>1, <1>3, <1>5, <2>1, <2>2, <2>3, Killing
  <1>6. CASE ~ Found(S) /\ UNCHANGED <<puk_list, timers, postVars>>
    <2>1. Num(puk_list, "To_Next_Geme") = 0
      BY <1>6, NotFound
    <2>2. Stays
      BY <1>1, <1>6 DEF Stays
    <2>3. RestOK' /\ (motorIdle' <=> motorIdle)
      BY <1>1, <1>3, <1>6, InvParts DEF RestOK, postVars
    <2>4. \A g \in DOMAIN Guards : g = "EXIT" => Num(puk_list, Guards[g]) = 0
      BY <1>4, <2>1
    <2> QED BY <1>1, <1>3, <2>2, <2>3, <2>4, StayKeeps
  <1> QED BY <1>1, <1>5, <1>6

\* A group that got no more puks waits for the next, the belt idle.
LEMMA GroupOutKeeps ==
    ASSUME Inv, TIMER_GROUP_OUT
    PROVE  Inv'
  <1>1. /\ expired # <<>> /\ expired' = Tail(expired) /\ Head(expired).kind = "GROUP"
        /\ SYSTEM_NUMBER' = SYSTEM_NUMBER /\ arrivals' = arrivals
        /\ sequence' = sequence /\ counter' = counter
        /\ puk_list' = puk_list /\ timers' = timers
    BY DEF TIMER_GROUP_OUT, Receive
  <1>2. timers' \subseteq timers /\ \A t \in timers \ timers' : t.kind \notin Watching
    BY <1>1
  <1>3. WatchMoves("GROUP", "none") /\ expired' \in Seq(Timers)
    BY <1>1, <1>2, PulseTaken
  <1>4. Stays
    BY <1>1 DEF Stays
  <1>5. \A g \in DOMAIN Guards : g = "GROUP" => Num(puk_list, Guards[g]) = 0
    BY GuardPlaces
  <1>6. CASE /\ Found(Collecting) /\ accept_new_puk' = TRUE
             /\ Post(<<"MOTOR_IDLE", "SEND_REQUEST_OK">>)
    <2> DEFINE p == <<"MOTOR_IDLE", "SEND_REQUEST_OK">>
    <2>1. p \in Seq(Sent) /\ Post(p)
      BY <1>6 DEF Sent, MotorCommands
    <2>2. Idles(p)
      BY IdlesShort DEF MotorCommands
    <2> HIDE DEF p
    <2>3. PostTypes /\ motorIdle'
      BY <2>1, <2>2, InvParts, PostIs DEF PostTypes
    <2>4. RestOK'
      BY <1>1, <1>3, <1>6, <2>3, InvParts DEF RestOK, PostTypes
    <2>5. ListsInv'
      BY <1>3, <1>4, <1>5, <1>6, InvParts, Staying
    <2>6. SYSTEM_NUMBER = 3
      <3>1. Collecting \subseteq GroupStates
        BY DEF Collecting, GroupStates
      <3> QED BY <1>6, <3>1, FoundIs
    <2>7. IdleBeltWaits'
      BY <1>1, <1>6, <2>3, <2>6 DEF IdleBeltWaits
    <2> QED BY <2>4, <2>5, <2>7, InvIs
  <1>7. CASE ~ Found(Collecting) /\ UNCHANGED <<accept_new_puk, postVars>>
    <2>1. RestOK' /\ (motorIdle' <=> motorIdle)
      BY <1>1, <1>3, <1>7, InvParts DEF RestOK, postVars
    <2> QED BY <1>3, <1>4, <1>5, <1>7, <2>1, StayKeeps
  <1> QED BY <1>6, <1>7 DEF TIMER_GROUP_OUT

-----------------------------------------------------------------------------
\* The invariant.

\* It holds at the start.
LEMMA InitInv ==
    ASSUME Init
    PROVE  Inv
  <1>1. TypeOK
    BY DEF Init, TypeOK
  <1>2. ListInv /\ NoOvertaking
    BY DEF Init, ListInv, NoOvertaking
  <1>3. TimersInv
    BY FS_EmptySet DEF Init, TimersInv
  <1>4. Watched
    <2>1. ~ Found(Collecting) /\ \A s : ~ Found({s})
      BY DEF Init, Found
    <2>2. \A s : Num(puk_list, s) = 0
      BY <2>1, NotFound
    <2>3. WatchInv
      <3>1. \A g : Waiting(expired, g) \in Nat /\ Running(timers, g) \in Nat
        BY <1>1, <1>3, WatchNumbers
      <3>2. \A g : Watch(g) \in Nat
        BY <3>1 DEF Watch
      <3> QED BY <2>1, <2>2, <3>2 DEF WatchInv
    <2> QED BY <2>3, WatchedIs DEF Agrees
  <1>5. IdleBeltWaits
    BY DEF Init, IdleBeltWaits
  <1> QED BY <1>1, <1>2, <1>3, <1>4, <1>5 DEF Inv

\* No step breaks it.
LEMMA NextInv ==
    ASSUME Inv, [Next]_vars
    PROVE  Inv'
  <1>1. CASE LIGHT_BARRIER_ENTRY_CLOSE
    BY <1>1, EntryCloseKeeps
  <1>2. CASE SEND_REQUEST
    BY <1>2, SendRequestKeeps
  <1>3. CASE NEW_PUK
    BY <1>3, NewPukKeeps
  <1>4. CASE LIGHT_BARRIER_ENTRY_OPEN
    BY <1>4, EntryOpenKeeps
  <1>5. CASE HEIGHT_SENSOR_MEASURE_START
    BY <1>5, MeasureStartKeeps
  <1>6. CASE ERR_UNDEFINED_PUK
    BY <1>6, UndefinedKeeps
  <1>7. ASSUME NEW type \in PukTypes, IDENTIFIED_PUK(type) PROVE Inv'
    BY <1>7, IdentifiedKeeps
  <1>8. CASE LIGHT_BARRIER_SWITCH_CLOSE
    BY <1>8, SwitchCloseKeeps
  <1>9. CASE LIGHT_BARRIER_RAMP_OPEN
    BY <1>9, RampOpenKeeps
  <1>10. CASE LIGHT_BARRIER_EXIT_CLOSE
    BY <1>10, ExitCloseKeeps
  <1>11. CASE SEND_OK
    BY <1>11, SendOkKeeps
  <1>12. CASE BUTTON_START
    BY <1>12, StartKeeps
  <1>13. CASE ERR_OK
    BY <1>13, ErrOkKeeps
  <1>14. ASSUME NEW t \in timers, Expire(t) PROVE Inv'
    BY <1>14, ExpireKeeps
  <1>15. CASE PukLost
    BY <1>15, PukLostKeeps
  <1>16. CASE TIMER_EXIT_OUT
    BY <1>16, ExitOutKeeps
  <1>17. CASE TIMER_GROUP_OUT
    BY <1>17, GroupOutKeeps
  <1>18. CASE UNCHANGED vars
    <2>1. /\ SYSTEM_NUMBER' = SYSTEM_NUMBER /\ arrivals' = arrivals /\ expired' = expired
          /\ puk_list' = puk_list /\ timers' = timers
          /\ accept_new_puk' = accept_new_puk /\ sequence' = sequence
          /\ counter' = counter /\ motorIdle' = motorIdle /\ grants' = grants
      BY <1>18 DEF vars, postVars
    <2>2. Stays /\ timers' \subseteq timers /\ (motorIdle' <=> motorIdle)
      BY <2>1 DEF Stays
    <2>3. RestOK'
      BY <2>1, InvParts DEF RestOK
    <2> QED BY <2>1, <2>2, <2>3, PostKeeps
  <1> QED BY <1>1, <1>2, <1>3, <1>4, <1>5, <1>6, <1>7, <1>8, <1>9, <1>10, <1>11, <1>12,
             <1>13, <1>14, <1>15, <1>16, <1>17, <1>18 DEF Next, DispatchTimer

-----------------------------------------------------------------------------
\* The theorems.

\* The invariant of puk control, which the others are parts of: the objects
\* are in states of their belt and in the order of arrivals, timers are of
\* places reached, and what the runs check holds (class Puk_control).
THEOREM PukInvariant == Spec => []Inv
  <1>1. Init => Inv
    BY InitInv
  <1>2. Inv /\ [Next]_vars => Inv'
    BY NextInv
  <1> QED BY <1>1, <1>2, PTL DEF Spec

\* The variables have their types for any number of puks.
THEOREM PukTypeCorrect == Spec => []TypeOK
  <1>1. Inv => TypeOK
    BY DEF Inv
  <1> QED BY <1>1, PukInvariant, PTL

\* No object gets ahead of an older one (Puk_control.cpp:267-430).
THEOREM NoPukOvertakes == Spec => []NoOvertaking
  <1>1. Inv => NoOvertaking
    BY DEF Inv
  <1> QED BY <1>1, PukInvariant, PTL

\* For all puks that wait for a barrier there are as many timers, running or
\* with their pulse queued (puk_fsm_dummy.h:127-412).
THEOREM EachPukIsWatched == Spec => []Watched
  <1>1. Inv => Watched
    BY DEF Inv
  <1> QED BY <1>1, PukInvariant, PTL

\* Belts 1 and 2 are told to idle exactly while they have no puk, belt 3 when
\* it has none and else only while accept_new_puk stands
\* (puk_fsm_dummy.h:132-145, 353-413).
THEOREM OnlyWaitingBeltsIdle == Spec => []IdleBeltWaits
  <1>1. Inv => IdleBeltWaits
    BY DEF Inv
  <1> QED BY <1>1, PukInvariant, PTL
============================================================================
