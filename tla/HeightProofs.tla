---------------------------- MODULE HeightProofs ----------------------------
(***************************************************************************)
(* What holds of HeightMeasurement for any puks, any readings and any      *)
(* lengths: what is recognised is a type of puk, and what the measuring    *)
(* thread reports and the motor does fit together.                         *)
(***************************************************************************)
EXTENDS HeightMeasurement, PulseQueues, FiniteSetTheorems, SequenceTheorems

-----------------------------------------------------------------------------
\* Loops over an array, which the model writes as functions of the number of
\* rounds.

\* What holds before the loop and is kept by every round holds of every round:
\* K is the numbers of rounds of which it holds.
LEMMA EveryRound ==
    ASSUME NEW n \in Nat, NEW K, 0 \in K, \A i \in 1..n : i - 1 \in K => i \in K
    PROVE  \A i \in 0..n : i \in K
  <1> DEFINE Bad == {i \in 0..n : i \notin K}
  <1> SUFFICES ASSUME Bad # {} PROVE FALSE
    OBVIOUS
  <1>1. Bad \in SUBSET Nat
    OBVIOUS
  <1>2. \A i : i \in Bad <=> i \in 0..n /\ i \notin K
    OBVIOUS
  <1> HIDE DEF Bad
  <1>3. PICK k \in Bad : \A j \in Bad : k <= j
    BY <1>1, LeastIs
  <1>4. k \in 1..n /\ k - 1 \in 0..n /\ ~ (k <= k - 1)
    BY <1>2, <1>3
  <1>5. k - 1 \in K
    BY <1>2, <1>3, <1>4
  <1> QED BY <1>2, <1>3, <1>4, <1>5

\* f[i] is what a loop has computed after i rounds that begins with start; G[i]
\* is the i-th round.
Computes(f, n, S, start, G) ==
    /\ f \in [0..n -> S]
    /\ f[0] = start
    /\ \A i \in 1..n : f[i] = G[i][f[i - 1]]

\* A loop computes something.
LEMMA LoopExists ==
    ASSUME NEW n \in Nat, NEW S, NEW start \in S, NEW G \in [1..n -> [S -> S]]
    PROVE  \E f : Computes(f, n, S, start, G)
  <1> DEFINE Loop(m, f) == f[0] = start /\ \A i \in 1..m : f[i] = G[i][f[i - 1]]
             K == {m \in 0..n : \E f \in [0..m -> S] : Loop(m, f)}
  <1>1. 0 \in K
    <2> DEFINE f == [i \in 0..0 |-> start]
    <2>1. f \in [0..0 -> S] /\ Loop(0, f)
      OBVIOUS
    <2> HIDE DEF f
    <2> QED BY <2>1
  <1>2. ASSUME NEW i \in 1..n, i - 1 \in K PROVE i \in K
    <2>1. PICK f \in [0..(i - 1) -> S] : Loop(i - 1, f)
      BY <1>2
    <2> DEFINE v == G[i][f[i - 1]]
               g == [j \in 0..i |-> IF j = i THEN v ELSE f[j]]
    <2>2. i - 1 \in 0..(i - 1) /\ f[i - 1] \in S /\ G[i] \in [S -> S]
      OBVIOUS
    <2>3. v \in S
      BY <2>2
    <2>4. \A j \in 0..i : j # i => j \in 0..(i - 1)
      OBVIOUS
    <2> HIDE DEF v
    <2>5. g \in [0..i -> S] /\ g[i] = v /\ \A j \in 0..(i - 1) : g[j] = f[j]
      BY <2>3, <2>4
    <2> HIDE DEF g
    <2>6. Loop(i, g)
      <3>1. g[0] = start
        BY <2>1, <2>5
      <3>2. ASSUME NEW j \in 1..i PROVE g[j] = G[j][g[j - 1]]
        <4>1. CASE j = i
          BY <2>5, <4>1 DEF v
        <4>2. CASE j # i
          <5>1. j \in 1..(i - 1) /\ j \in 0..(i - 1) /\ j - 1 \in 0..(i - 1)
            BY <4>2
          <5> QED BY <2>1, <2>5, <5>1
        <4> QED BY <4>1, <4>2
      <3> QED BY <3>1, <3>2
    <2>7. i \in 0..n
      OBVIOUS
    <2> HIDE DEF Loop
    <2> QED BY <2>5, <2>6, <2>7
  <1> HIDE DEF K
  <1>3. n \in K
    <2>1. n \in 0..n
      OBVIOUS
    <2> QED BY <1>1, <1>2, <2>1, EveryRound
  <1> QED BY <1>3 DEF K, Computes

\* What a loop that keeps the results of its rounds in S computes is in S.
LEMMA LoopTyped ==
    ASSUME NEW n \in Nat, NEW S, NEW f, f[0] \in S,
           \A i \in 1..n : f[i - 1] \in S => f[i] \in S
    PROVE  f[n] \in S
  <1> DEFINE K == {i \in 0..n : f[i] \in S}
  <1>1. 0 \in K /\ \A i \in 1..n : i - 1 \in K => i \in K
    OBVIOUS
  <1>2. \A i \in K : f[i] \in S
    OBVIOUS
  <1>3. n \in 0..n
    OBVIOUS
  <1> HIDE DEF K
  <1> QED BY <1>1, <1>2, <1>3, EveryRound

-----------------------------------------------------------------------------
\* What the recognisers compute.

\* A sum of numbers is a number.
LEMMA TotalTyped ==
    ASSUME NEW a \in Seq(Int)
    PROVE  Total(a) \in Int
  <1> DEFINE n == Len(a)
             G == [i \in 1..n |-> [s \in Int |-> s + a[i]]]
             sum[i \in 0..n] == IF i = 0 THEN 0 ELSE sum[i - 1] + a[i]
  <1>1. n \in Nat /\ DOMAIN a = 1..n /\ \A i \in 1..n : a[i] \in Int
    OBVIOUS
  <1>2. Total(a) = sum[n]
    BY DEF Total
  <1> HIDE DEF n
  <1>3. G \in [1..n -> [Int -> Int]]
    BY <1>1
  <1>4. \A i \in 1..n, s \in Int : G[i][s] = s + a[i]
    BY <1>1
  <1> HIDE DEF G
  <1>5. PICK f : Computes(f, n, Int, 0, G)
    <2>1. 0 \in Int
      OBVIOUS
    <2> QED BY <1>1, <1>3, <2>1, LoopExists
  <1>6. \A i \in 1..n : i - 1 \in 0..n /\ i # 0 /\ i \in 0..n
    BY <1>1
  <1>7. f = [i \in 0..n |-> IF i = 0 THEN 0 ELSE f[i - 1] + a[i]]
    <2>1. f[0] = 0 /\ \A i \in 1..n : f[i] = f[i - 1] + a[i]
      BY <1>4, <1>5, <1>6 DEF Computes
    <2>2. \A i \in 0..n : f[i] = IF i = 0 THEN 0 ELSE f[i - 1] + a[i]
      BY <1>1, <2>1
    <2> QED BY <1>5, <2>2 DEF Computes
  <1>8. sum = [i \in 0..n |-> IF i = 0 THEN 0 ELSE sum[i - 1] + a[i]]
    BY <1>7
  <1> HIDE DEF sum
  <1>9. sum[0] = 0 /\ \A i \in 1..n : sum[i] = sum[i - 1] + a[i]
    BY <1>1, <1>8
  <1>10. \A i \in 1..n : sum[i - 1] \in Int => sum[i] \in Int
    BY <1>1, <1>9
  <1>11. sum[0] \in Int
    BY <1>9
  <1>12. sum[n] \in Int
    BY <1>1, <1>10, <1>11, LoopTyped, Zenon
  <1> QED BY <1>2, <1>12

\* What is kept are elements that were to be kept.
LEMMA KeptTyped ==
    ASSUME NEW T, NEW U, NEW a \in Seq(T), NEW keep,
           \A i \in DOMAIN a : keep[i] => a[i] \in U
    PROVE  Kept(a, keep) \in Seq(U)
  <1> DEFINE n == Len(a)
             G == [i \in 1..n |->
                     [s \in Seq(U) |-> IF keep[i] THEN Append(s, a[i]) ELSE s]]
             kept[i \in 0..n] ==
                 CASE i = 0 -> <<>>
                   [] i > 0 /\ keep[i] -> Append(kept[i - 1], a[i])
                   [] OTHER -> kept[i - 1]
  <1>1. n \in Nat /\ DOMAIN a = 1..n
    OBVIOUS
  <1>2. Kept(a, keep) = kept[n]
    BY DEF Kept
  <1> HIDE DEF n
  <1>3. \A i \in 1..n, s \in Seq(U) : keep[i] => Append(s, a[i]) \in Seq(U)
    BY <1>1
  <1>4. G \in [1..n -> [Seq(U) -> Seq(U)]]
    BY <1>3
  <1>5. \A i \in 1..n, s \in Seq(U) :
            G[i][s] = IF keep[i] THEN Append(s, a[i]) ELSE s
    OBVIOUS
  <1> HIDE DEF G
  <1>6. PICK f : Computes(f, n, Seq(U), <<>>, G)
    <2>1. <<>> \in Seq(U)
      OBVIOUS
    <2> QED BY <1>1, <1>4, <2>1, LoopExists
  <1>7. \A i \in 1..n : i - 1 \in 0..n /\ i > 0 /\ i # 0 /\ i \in 0..n
    BY <1>1
  <1>8. f = [i \in 0..n |->
               CASE i = 0 -> <<>>
                 [] i > 0 /\ keep[i] -> Append(f[i - 1], a[i])
                 [] OTHER -> f[i - 1]]
    <2>1. f \in [0..n -> Seq(U)] /\ f[0] = <<>>
      BY <1>6 DEF Computes
    <2>2. \A i \in 1..n : f[i] = IF keep[i] THEN Append(f[i - 1], a[i]) ELSE f[i - 1]
      <3>1. \A i \in 1..n : f[i] = G[i][f[i - 1]] /\ f[i - 1] \in Seq(U)
        BY <1>6, <1>7 DEF Computes
      <3> QED BY <1>5, <3>1
    <2>3. ASSUME NEW i \in 0..n
          PROVE  f[i] = CASE i = 0 -> <<>>
                          [] i > 0 /\ keep[i] -> Append(f[i - 1], a[i])
                          [] OTHER -> f[i - 1]
      <3>1. CASE i = 0
        BY <2>1, <3>1
      <3>2. CASE i \in 1..n /\ keep[i]
        BY <1>7, <2>2, <3>2
      <3>3. CASE i \in 1..n /\ ~ keep[i]
        BY <1>7, <2>2, <3>3
      <3> QED BY <1>1, <3>1, <3>2, <3>3
    <2> QED BY <2>1, <2>3
  <1>9. kept = [i \in 0..n |->
                  CASE i = 0 -> <<>>
                    [] i > 0 /\ keep[i] -> Append(kept[i - 1], a[i])
                    [] OTHER -> kept[i - 1]]
    BY <1>8
  <1> HIDE DEF kept
  <1>10. kept[0] \in Seq(U)
    <2>1. kept[0] = <<>>
      BY <1>1, <1>9
    <2> QED BY <2>1
  <1>11. \A i \in 1..n :
            kept[i] = IF keep[i] THEN Append(kept[i - 1], a[i]) ELSE kept[i - 1]
    BY <1>7, <1>9
  <1>12. kept[n] \in Seq(U)
    <2>1. ASSUME NEW i \in 1..n, kept[i - 1] \in Seq(U)
          PROVE  kept[i] \in Seq(U)
      <3>1. keep[i] => Append(kept[i - 1], a[i]) \in Seq(U)
        BY <1>3, <2>1
      <3> QED BY <1>11, <2>1, <3>1
    <2> QED BY <1>1, <1>10, <2>1, LoopTyped, Zenon
  <1> QED BY <1>2, <1>12

\* What is left of the samples that a bit code is read from: high and low ones.
LEMMA FilterTyped ==
    ASSUME NEW a \in Seq(Int)
    PROVE  filter_array(a) \in Seq(0..1)
  <1> DEFINE raw == Inner(a, CUT_OFF_FRONT, 0)
             near == [i \in DOMAIN raw |-> Near(raw[i], Mean(a), 5)]
             kept == Kept(raw, near)
             min == CHOOSE m \in ToSet(kept) : \A x \in ToSet(kept) : m <= x
             max == CHOOSE m \in ToSet(kept) : \A x \in ToSet(kept) : x <= m
             high == [i \in DOMAIN kept |-> IF 2 * kept[i] < max + min THEN 1 ELSE 0]
  <1>1. raw \in Seq(Int)
    BY CutOffAssumption DEF Inner
  <1>2. filter_array(a) = IF 10 * Len(kept) < 8 * Len(raw) THEN <<>> ELSE high
    BY DEF filter_array
  <1> HIDE DEF raw, near
  <1>3. kept \in Seq(Int)
    BY <1>1, KeptTyped
  <1>4. DOMAIN kept = 1..Len(kept) /\ Len(kept) \in Nat
    BY <1>3
  <1> HIDE DEF kept, min, max
  <1>5. high \in [1..Len(kept) -> 0..1]
    BY <1>4
  <1> HIDE DEF high
  <1>6. high \in Seq(0..1)
    BY <1>4, <1>5
  <1> QED BY <1>2, <1>6

\* What is recognised is a type of puk or UNDEFINED.
LEMMA RecognisedTyped ==
    ASSUME NEW a \in Seq(Int), NEW diff
    PROVE  evaluate_puk_type(a, diff) \in PukTypes \cup {UNDEFINED}
  <1>1. is_little_or_normal(a) \in PukTypes \cup {UNDEFINED}
    BY DEF is_little_or_normal, PukTypes
  <1>2. is_ic_or_hole(a, diff) \in PukTypes \cup {UNDEFINED}
    BY DEF is_ic_or_hole, PukTypes
  <1>3. is_bit_code(a) \in PukTypes \cup {UNDEFINED}
    <2>1. \A type : Code(type) \in 0..31
      BY DEF Code
    <2> QED BY <2>1 DEF is_bit_code, PukTypes, BitCodes
  <1>4. Total(a) \in Int /\ Len(a) \in Nat
    BY TotalTyped
  <1>5. Total(a) > MIN_HEIGHT * Len(a) \/ Total(a) <= MIN_HEIGHT * Len(a)
    BY <1>4 DEF MIN_HEIGHT
  <1> QED BY <1>1, <1>2, <1>3, <1>5 DEF evaluate_puk_type

-----------------------------------------------------------------------------
\* Profiles: the loop of is_ic_or_hole() recognises the steps.

\* The classes that are kept are three.
LEMMA ClassesTyped ==
    ASSUME NEW a \in Seq(Int), NEW diff \in Int
    PROVE  Classes(a, diff) \in Seq(0..2)
  <1> DEFINE mean == Mean(a)
             inner == Inner(a, CUT_OFF_FRONT + EXTRA_CUT_OFF, EXTRA_CUT_OFF)
             class == [i \in DOMAIN inner |-> Class(inner[i], mean, diff)]
             keep == [i \in DOMAIN class |-> class[i] # Unclear]
  <1>1. inner \in Seq(Int)
    BY CutOffAssumption DEF Inner
  <1>2. Classes(a, diff) = Kept(class, keep)
    BY DEF Classes
  <1> HIDE DEF inner, mean
  <1>3. \A x : Class(x, mean, diff) \in 0..2 \cup {Unclear}
    BY DEF Class, Unclear
  <1>4. DOMAIN inner = 1..Len(inner) /\ Len(inner) \in Nat
    BY <1>1
  <1>5. class \in Seq(0..2 \cup {Unclear})
    BY <1>3, <1>4
  <1>6. \A i \in DOMAIN class : class[i] \in 0..2 \cup {Unclear}
    BY <1>3
  <1> HIDE DEF class
  <1>7. \A i \in DOMAIN class : keep[i] => class[i] \in 0..2
    BY <1>6
  <1> HIDE DEF keep
  <1> QED BY <1>2, <1>5, <1>7, KeptTyped

\* The loop after n elements of s: the variables last and counter describe the
\* run of equal elements that ends there,
RunSeen(s, n, acc) ==
    /\ n = 0 => acc.last = -1 /\ acc.counter = 0
    /\ n > 0 => /\ acc.last = s[n]
                /\ acc.counter \in 1..n
                /\ \A j \in (n - acc.counter + 1)..n : s[j] = s[n]
                /\ n - acc.counter > 0 => s[n - acc.counter] # s[n]

\* and the array has the steps that have lasted long enough by then.
Seen(s, n) == {i \in StepStarts(s) : i + MINIMAL_WIDTH - 1 <= n}
StepsSeen(s, n, temp) ==
    /\ IsFiniteSet(Seen(s, n)) /\ Len(temp) = Cardinality(Seen(s, n))
    /\ \A i \in Seen(s, n) : Rank(s, i) \in 1..Len(temp) /\ temp[Rank(s, i)] = s[i]
    /\ \A k \in 1..Len(temp) : \E i \in Seen(s, n) : Rank(s, i) = k

Accs == [last : Int, counter : Nat, temp : Seq(Int)]
LoopSeen(s, n, acc) == acc \in Accs /\ RunSeen(s, n, acc) /\ StepsSeen(s, n, acc.temp)

\* A run that has just become wide enough is one that begins a step, and the
\* other way round.
LEMMA StepBegins ==
    ASSUME NEW s \in Seq(Int), NEW n \in 1..Len(s), NEW acc, RunSeen(s, n, acc)
    PROVE  acc.counter = MINIMAL_WIDTH <=> n - MINIMAL_WIDTH + 1 \in StepStarts(s)
  <1> DEFINE W == MINIMAL_WIDTH
             c == acc.counter
             i == n - W + 1
  <1>1. /\ c \in 1..n /\ \A j \in (n - c + 1)..n : s[j] = s[n]
        /\ n - c > 0 => s[n - c] # s[n]
    BY DEF RunSeen
  <1>2. n \in Nat /\ W \in Nat \ {0} /\ i \in Int /\ n <= Len(s) /\ Len(s) \in Nat
        /\ DOMAIN s = 1..Len(s) /\ i + W - 1 = n /\ n > 0
    BY WidthAssumption
  <1>3. i \in StepStarts(s) <=> /\ i \in 1..Len(s)
                                /\ i = 1 \/ s[i - 1] # s[i]
                                /\ \A j \in i..n : s[j] = s[i]
    BY <1>2 DEF StepStarts
  <1>4. i = n - W + 1
    OBVIOUS
  <1> HIDE DEF c, i, W
  <1>5. ASSUME c = W PROVE i \in StepStarts(s)
    <2>1. i \in 1..Len(s) /\ i = n - c + 1 /\ i - 1 = n - c /\ i <= n
      BY <1>1, <1>2, <1>4, <1>5
    <2>2. \A j \in i..n : s[j] = s[n]
      BY <1>1, <2>1
    <2>3. s[i] = s[n]
      BY <1>2, <2>1, <2>2
    <2>4. i = 1 \/ s[i - 1] # s[i]
      BY <1>1, <1>2, <2>1, <2>3
    <2> QED BY <1>3, <2>1, <2>2, <2>3, <2>4
  <1>6. ASSUME i \in StepStarts(s) PROVE c = W
    <2>1. i \in 1..n /\ \A j \in i..n : s[j] = s[i]
      BY <1>2, <1>3, <1>4, <1>6
    <2>2. s[n] = s[i]
      BY <1>2, <2>1
    <2>3. ~ (c < W)
      <3> SUFFICES ASSUME c < W PROVE FALSE
        OBVIOUS
      <3>1. n - c \in i..n /\ n - c > 0
        BY <1>1, <1>2, <1>4, <2>1
      <3> QED BY <1>1, <2>1, <2>2, <3>1
    <2>4. ~ (c > W)
      <3> SUFFICES ASSUME c > W PROVE FALSE
        OBVIOUS
      <3>1. i - 1 \in (n - c + 1)..n /\ i # 1
        BY <1>1, <1>2, <1>4, <2>1
      <3> QED BY <1>1, <1>3, <1>6, <2>2, <3>1
    <2> QED BY <1>1, <1>2, <2>3, <2>4
  <1> QED BY <1>5, <1>6 DEF c, i, W

\* A round keeps what the variables last and counter say.
LEMMA RunKept ==
    ASSUME NEW s \in Seq(0..2), NEW n \in 1..Len(s), NEW acc \in Accs,
           RunSeen(s, n - 1, acc)
    PROVE  RunSeen(s, n, Round(acc, s[n])) /\ Round(acc, s[n]) \in Accs
  <1> DEFINE c == IF acc.last = s[n] THEN acc.counter + 1 ELSE 1
             new == Round(acc, s[n])
             m == n - 1
  <1>1. n \in Nat /\ m \in Nat /\ n = m + 1 /\ s[n] \in 0..2 /\ n > 0
    OBVIOUS
  <1>2. acc.last \in Int /\ acc.counter \in Nat /\ acc.temp \in Seq(Int)
    BY DEF Accs
  <1>3. /\ new = [last |-> s[n], counter |-> c,
                  temp |-> IF c = MINIMAL_WIDTH THEN Append(acc.temp, s[n]) ELSE acc.temp]
    BY DEF Round
  <1>4. c \in Nat
    BY <1>2
  <1>5. /\ m = 0 => acc.last = -1 /\ acc.counter = 0
        /\ m > 0 => /\ acc.last = s[m]
                    /\ acc.counter \in 1..m
                    /\ \A j \in (m - acc.counter + 1)..m : s[j] = s[m]
                    /\ m - acc.counter > 0 => s[m - acc.counter] # s[m]
    BY DEF RunSeen
  <1>6. new \in Accs
    <2> HIDE DEF c
    <2>1. Append(acc.temp, s[n]) \in Seq(Int) /\ s[n] \in Int
      BY <1>1, <1>2
    <2> QED BY <1>2, <1>3, <1>4, <2>1 DEF Accs
  <1>7. new.last = s[n] /\ new.counter = c
    BY <1>3
  <1> HIDE DEF new, m
  <1>8. CASE acc.last = s[n]
    <2>1. m > 0 /\ s[m] = s[n] /\ c = acc.counter + 1
      BY <1>1, <1>5, <1>8
    <2> DEFINE k == acc.counter
    <2>2. /\ k \in 1..m /\ n - c = m - k /\ c \in 1..n
          /\ \A j \in (m - k + 1)..m : s[j] = s[m]
          /\ m - k > 0 => s[m - k] # s[m]
      BY <1>1, <1>5, <2>1
    <2> HIDE DEF c, k
    <2>3. ASSUME NEW j \in (n - c + 1)..n
          PROVE  s[j] = s[n]
      <3>1. j = n \/ j \in (m - k + 1)..m
        BY <1>1, <2>2
      <3> QED BY <2>1, <2>2, <3>1
    <2>4. n - c > 0 => s[n - c] # s[n]
      BY <2>1, <2>2
    <2> QED BY <1>1, <1>6, <1>7, <2>2, <2>3, <2>4 DEF RunSeen, new
  <1>9. CASE acc.last # s[n]
    <2>1. c = 1 /\ c \in 1..n /\ n - c = m
      BY <1>1, <1>9
    <2>2. m > 0 => s[m] # s[n]
      BY <1>5, <1>9
    <2> HIDE DEF c
    <2>3. \A j \in (n - c + 1)..n : j = n
      BY <1>1, <2>1
    <2> QED BY <1>1, <1>6, <1>7, <2>1, <2>2, <2>3 DEF RunSeen, new
  <1> QED BY <1>8, <1>9

\* A round adds the step that has become wide enough, if there is one.
LEMMA StepsKept ==
    ASSUME NEW s \in Seq(0..2), NEW n \in 1..Len(s), NEW acc \in Accs,
           RunSeen(s, n - 1, acc), StepsSeen(s, n - 1, acc.temp)
    PROVE  StepsSeen(s, n, Round(acc, s[n]).temp)
  <1> DEFINE W == MINIMAL_WIDTH
             i == n - W + 1
             m == n - 1
             new == Round(acc, s[n])
             old == Seen(s, m)
             now == Seen(s, n)
             temp == acc.temp
  <1>1. /\ n \in Nat /\ m \in Nat /\ n = m + 1 /\ W \in Nat \ {0} /\ i \in Int
        /\ i + W - 1 = n /\ s \in Seq(Int) /\ n <= Len(s) /\ DOMAIN s = 1..Len(s) /\ Len(s) \in Nat
    BY WidthAssumption
  <1>2. RunSeen(s, n, new)
    BY RunKept
  <1>3. new.counter = W <=> i \in StepStarts(s)
    BY <1>1, <1>2, StepBegins
  <1>4. new.temp = IF new.counter = W THEN Append(temp, s[n]) ELSE temp
    BY DEF Round
  <1>5. StepStarts(s) \in SUBSET Nat
    BY <1>1 DEF StepStarts
  <1>6. /\ \A j : j \in old <=> j \in StepStarts(s) /\ j + W - 1 <= m
        /\ \A j : j \in now <=> j \in StepStarts(s) /\ j + W - 1 <= n
    BY DEF Seen
  <1>7. /\ IsFiniteSet(old) /\ Len(temp) = Cardinality(old) /\ temp \in Seq(Int)
        /\ \A j \in old : Rank(s, j) \in 1..Len(temp) /\ temp[Rank(s, j)] = s[j]
        /\ \A k \in 1..Len(temp) : \E j \in old : Rank(s, j) = k
    BY DEF StepsSeen, Accs
  <1>8. i \in StepStarts(s) => s[i] = s[n]
    BY <1>1 DEF StepStarts
  <1>9. Rank(s, i) = Cardinality({j \in StepStarts(s) : j <= i})
    BY DEF Rank
  <1> HIDE DEF W, i, m, new, old, now, temp
  <1>10. \A j \in Nat : /\ (j + W - 1 <= n <=> j + W - 1 <= m \/ j = i)
                        /\ (j + W - 1 <= n <=> j <= i)
                        /\ ~ (i + W - 1 <= m)
    BY <1>1
  <1>11. CASE new.counter # W
    <2>1. i \notin StepStarts(s) /\ new.temp = temp
      BY <1>3, <1>4, <1>11
    <2>2. now = old
      BY <1>5, <1>6, <1>10, <2>1
    <2> QED BY <1>7, <2>1, <2>2 DEF StepsSeen, new, now
  <1>12. CASE new.counter = W
    <2>1. i \in StepStarts(s) /\ new.temp = Append(temp, s[n])
      BY <1>3, <1>4, <1>12
    <2>2. now = old \cup {i} /\ i \notin old
      BY <1>5, <1>6, <1>10, <2>1
    <2>3. now = {j \in StepStarts(s) : j <= i}
      BY <1>5, <1>6, <1>10
    <2>4. IsFiniteSet(now) /\ Cardinality(now) = Cardinality(old) + 1
      BY <1>7, <2>2, FS_AddElement
    <2>5. Rank(s, i) = Len(temp) + 1
      BY <1>7, <1>9, <2>3, <2>4
    <2>6. s[n] \in Int
      BY <1>1
    <2> DEFINE longer == Append(temp, s[n])
    <2>7. /\ Len(longer) = Len(temp) + 1 /\ longer[Len(temp) + 1] = s[n]
          /\ \A k \in 1..Len(temp) : longer[k] = temp[k]
          /\ Len(temp) \in Nat
      BY <1>7, <2>6
    <2> HIDE DEF longer
    <2>8. ASSUME NEW j \in now
          PROVE  Rank(s, j) \in 1..Len(longer) /\ longer[Rank(s, j)] = s[j]
      <3>1. CASE j \in old
        BY <1>7, <2>7, <3>1
      <3>2. CASE j = i
        BY <1>8, <2>1, <2>5, <2>7, <3>2
      <3> QED BY <2>2, <3>1, <3>2
    <2>9. ASSUME NEW k \in 1..Len(longer)
          PROVE  \E j \in now : Rank(s, j) = k
      <3>1. k \in 1..Len(temp) \/ k = Len(temp) + 1
        BY <2>7
      <3>2. old \subseteq now /\ i \in now
        BY <2>2
      <3> QED BY <1>7, <2>5, <3>1, <3>2
    <2>10. new.temp = longer
      BY <2>1 DEF longer
    <2>11. Len(longer) = Cardinality(now)
      BY <1>7, <2>4, <2>7
    <2> QED BY <2>4, <2>8, <2>9, <2>10, <2>11 DEF StepsSeen, new, now
  <1> QED BY <1>11, <1>12

\* What the loop has seen after the last element are the steps.
LEMMA AllSeen ==
    ASSUME NEW s \in Seq(0..2), NEW temp \in Seq(Int), StepsSeen(s, Len(s), temp)
    PROVE  temp = StepsOf(s)
  <1> DEFINE N == StepStarts(s)
             Nth(k) == CHOOSE i \in N : Rank(s, i) = k
  <1>1. Seen(s, Len(s)) = N
    BY DEF Seen, StepStarts
  <1>2. /\ Len(temp) = Cardinality(N)
        /\ \A i \in N : temp[Rank(s, i)] = s[i]
        /\ \A k \in 1..Len(temp) : \E i \in N : Rank(s, i) = k
    BY <1>1 DEF StepsSeen
  <1>3. StepsOf(s) = [k \in 1..Cardinality(N) |-> s[Nth(k)]]
    BY DEF StepsOf
  <1> HIDE DEF N
  <1>4. ASSUME NEW k \in 1..Len(temp)
        PROVE  temp[k] = s[Nth(k)]
    <2>1. Nth(k) \in N /\ Rank(s, Nth(k)) = k
      BY <1>2
    <2> HIDE DEF Nth
    <2> QED BY <1>2, <2>1
  <1> HIDE DEF Nth
  <1>5. DOMAIN temp = 1..Len(temp) /\ temp = [k \in DOMAIN temp |-> temp[k]]
    OBVIOUS
  <1> QED BY <1>2, <1>3, <1>4, <1>5

\* The pattern that is compared with the profiles is the sequence of steps.
LEMMA PatternIsSteps ==
    ASSUME NEW a \in Seq(Int), NEW diff \in Int
    PROVE  Pattern(a, diff) = StepsOf(Classes(a, diff))
  <1> DEFINE s == Classes(a, diff)
             n == Len(s)
             start == [last |-> -1, counter |-> 0, temp |-> <<>>]
             G == [i \in 1..n |-> [x \in Accs |-> Round(x, s[i])]]
             acc[i \in 0..n] == IF i = 0 THEN start ELSE Round(acc[i - 1], s[i])
  <1>1. s \in Seq(0..2)
    BY ClassesTyped
  <1>2. Pattern(a, diff) = acc[n].temp
    BY DEF Pattern
  <1> HIDE DEF s
  <1>3. n \in Nat /\ \A i \in 1..n : s[i] \in 0..2
    BY <1>1
  <1>4. start \in Accs /\ RunSeen(s, 0, start)
    <2>1. <<>> \in Seq(Int) /\ -1 \in Int
      OBVIOUS
    <2> QED BY <2>1 DEF Accs, RunSeen
  <1>5. StepsSeen(s, 0, start.temp)
    <2>1. Seen(s, 0) = {}
      <3>1. \A i \in DOMAIN s : i \in Nat \ {0}
        BY <1>1
      <3>2. \A i \in Nat \ {0} : ~ (i + MINIMAL_WIDTH - 1 <= 0)
        BY WidthAssumption
      <3> QED BY <3>1, <3>2 DEF Seen, StepStarts
    <2>2. Len(start.temp) = 0 /\ 1..0 = {}
      OBVIOUS
    <2> HIDE DEF start
    <2> QED BY <2>1, <2>2, FS_EmptySet DEF StepsSeen
  <1> HIDE DEF n, start
  <1>6. \A i \in 1..n, x \in Accs : Round(x, s[i]) \in Accs
    <2> SUFFICES ASSUME NEW i \in 1..n, NEW x \in Accs
                 PROVE  Round(x, s[i]) \in Accs
      OBVIOUS
    <2>1. s[i] \in Int
      BY <1>3
    <2>2. x.temp \in Seq(Int) /\ x.counter \in Nat
      BY DEF Accs
    <2>3. Append(x.temp, s[i]) \in Seq(Int)
      BY <2>1, <2>2
    <2> DEFINE c == IF x.last = s[i] THEN x.counter + 1 ELSE 1
               temp == IF c = MINIMAL_WIDTH THEN Append(x.temp, s[i]) ELSE x.temp
    <2>4. c \in Nat /\ temp \in Seq(Int)
      BY <2>2, <2>3
    <2>5. Round(x, s[i]) = [last |-> s[i], counter |-> c, temp |-> temp]
      BY DEF Round
    <2> HIDE DEF c, temp
    <2> QED BY <2>1, <2>4, <2>5 DEF Accs
  <1>7. G \in [1..n -> [Accs -> Accs]]
    BY <1>6
  <1>8. \A i \in 1..n, x \in Accs : G[i][x] = Round(x, s[i])
    OBVIOUS
  <1> HIDE DEF G
  <1>9. PICK f : Computes(f, n, Accs, start, G)
    BY <1>3, <1>4, <1>7, LoopExists
  <1>10. \A i \in 1..n : i - 1 \in 0..n /\ i # 0 /\ i \in 0..n
    BY <1>3
  <1>11. f = [i \in 0..n |-> IF i = 0 THEN start ELSE Round(f[i - 1], s[i])]
    <2>1. f \in [0..n -> Accs] /\ f[0] = start
      BY <1>9 DEF Computes
    <2>2. \A i \in 1..n : f[i] = Round(f[i - 1], s[i])
      BY <1>8, <1>9, <1>10 DEF Computes
    <2>3. ASSUME NEW i \in 0..n
          PROVE  f[i] = IF i = 0 THEN start ELSE Round(f[i - 1], s[i])
      <3>1. CASE i = 0
        BY <2>1, <3>1
      <3>2. CASE i \in 1..n
        BY <1>10, <2>2, <3>2
      <3> QED BY <1>3, <3>1, <3>2
    <2> QED BY <2>1, <2>3
  <1>12. acc = [i \in 0..n |-> IF i = 0 THEN start ELSE Round(acc[i - 1], s[i])]
    BY <1>11
  <1> HIDE DEF acc
  <1> DEFINE K == {i \in 0..n : LoopSeen(s, i, acc[i])}
  <1>13. 0 \in K
    <2>1. acc[0] = start
      BY <1>3, <1>12
    <2> QED BY <1>3, <1>4, <1>5, <2>1 DEF LoopSeen
  <1>14. ASSUME NEW i \in 1..n, i - 1 \in K
         PROVE  i \in K
    <2>1. acc[i] = Round(acc[i - 1], s[i])
      BY <1>10, <1>12
    <2>2. LoopSeen(s, i - 1, acc[i - 1])
      BY <1>14
    <2>3. acc[i - 1] \in Accs /\ RunSeen(s, i - 1, acc[i - 1])
          /\ StepsSeen(s, i - 1, acc[i - 1].temp) /\ i \in 1..Len(s)
      BY <2>2 DEF LoopSeen, n
    <2>4. LoopSeen(s, i, Round(acc[i - 1], s[i]))
      BY <1>1, <2>3, RunKept, StepsKept DEF LoopSeen
    <2> QED BY <1>10, <2>1, <2>4
  <1>15. n \in 0..n /\ \A i \in K : LoopSeen(s, i, acc[i])
    BY <1>3
  <1> HIDE DEF K
  <1>16. LoopSeen(s, n, acc[n])
    BY <1>3, <1>13, <1>14, <1>15, EveryRound
  <1>17. acc[n].temp \in Seq(Int) /\ StepsSeen(s, Len(s), acc[n].temp)
    BY <1>16 DEF LoopSeen, Accs, n
  <1>18. acc[n].temp = StepsOf(s)
    BY <1>1, <1>17, AllSeen
  <1> QED BY <1>2, <1>18 DEF s

-----------------------------------------------------------------------------
\* Bit codes: the loop of is_bit_code() reads the digits.

\* A run of r: c equal elements that begin at p.
IsRun(r, p, c) ==
    /\ p \in 1..Len(r) /\ c \in Nat \ {0} /\ p + c - 1 \in 1..Len(r)
    /\ \A j \in p..(p + c - 1) : r[j] = r[p]
    /\ p > 1 => r[p - 1] # r[p]

\* It ends before e, the first element that differs or the end of r.
Ends(r, e) == e = Len(r) + 1 \/ (e \in 2..Len(r) /\ r[e] # r[e - 1])

\* How wide it is, and where the next one begins.
LEMMA RunIs ==
    ASSUME NEW r \in Seq(0..1), NEW p, NEW c, IsRun(r, p, c), Ends(r, p + c)
    PROVE  /\ p \in RunStarts(r) /\ RunWidth(r, p) = c
           /\ \A j \in RunStarts(r) : j < p + c <=> j < p \/ j = p
  <1>1. /\ Len(r) \in Nat /\ DOMAIN r = 1..Len(r) /\ p \in 1..Len(r) /\ c \in Nat \ {0}
        /\ p \in Nat \ {0} /\ p + c - 1 \in 1..Len(r)
        /\ \A j \in p..(p + c - 1) : r[j] = r[p]
        /\ p > 1 => r[p - 1] # r[p]
    BY DEF IsRun
  <1>2. p \in RunStarts(r)
    BY <1>1 DEF RunStarts
  <1>3. RunWidth(r, p) = c
    <2> DEFINE K == {j \in p..Len(r) : \A k \in p..j : r[k] = r[p]}
    <2>1. ASSUME NEW j \in p..(p + c - 1)
          PROVE  j \in K
      <3>1. j \in p..Len(r) /\ \A k \in p..j : k \in p..(p + c - 1)
        BY <1>1
      <3> QED BY <1>1, <3>1
    <2>2. ASSUME NEW j \in K
          PROVE  j \in p..(p + c - 1)
      <3>1. j \in p..Len(r) /\ \A k \in p..j : r[k] = r[p]
        OBVIOUS
      <3> HIDE DEF K
      <3>2. ASSUME j > p + c - 1 PROVE FALSE
        <4>1. p + c \in p..j /\ p + c - 1 \in p..(p + c - 1) /\ p + c # Len(r) + 1
          BY <1>1, <3>1, <3>2
        <4>2. r[p + c] = r[p] /\ r[p + c - 1] = r[p]
          BY <1>1, <3>1, <4>1
        <4>3. r[p + c] # r[p + c - 1]
          BY <1>1, <4>1 DEF Ends
        <4> QED BY <4>2, <4>3
      <3> QED BY <1>1, <3>1, <3>2
    <2> HIDE DEF K
    <2>3. K = p..(p + c - 1)
      BY <2>1, <2>2
    <2>4. Cardinality(p..(p + c - 1)) = c
      BY <1>1, FS_Interval
    <2> QED BY <2>3, <2>4 DEF RunWidth, K
  <1>4. ASSUME NEW j \in RunStarts(r), j < p + c, ~ (j < p), j # p
        PROVE  FALSE
    <2>1. j \in 1..Len(r) /\ (j = 1 \/ r[j - 1] # r[j])
      BY <1>1 DEF RunStarts
    <2>2. j \in p..(p + c - 1) /\ j - 1 \in p..(p + c - 1) /\ j # 1
      BY <1>1, <1>4, <2>1
    <2> QED BY <1>1, <2>1, <2>2
  <1>5. \A j \in RunStarts(r) : j \in Nat
    BY <1>1 DEF RunStarts
  <1> QED BY <1>1, <1>2, <1>3, <1>4, <1>5

\* The first digit is the one before which there is none.
LEMMA FirstIs ==
    ASSUME NEW r \in Seq(0..1), NEW p \in RunStarts(r)
    PROVE  /\ (\A j \in DigitStarts(r) : ~ (j < p)) =>
                 (Doubled(r, p) > NarrowDigit <=> IsFirst(r, p))
           /\ \A j \in DigitStarts(r) : j < p => ~ IsFirst(r, p)
           /\ IsFirst(r, p) => Doubled(r, p) > NarrowDigit
           /\ RunWidth(r, p) > NarrowDigit => Doubled(r, p) > NarrowDigit
  <1> DEFINE Lead == {j \in RunStarts(r) : Doubled(r, j) > NarrowDigit}
  <1>1. RunStarts(r) \in SUBSET Nat
    BY DEF RunStarts
  <1>2. \A j : j \in Lead <=> j \in RunStarts(r) /\ Doubled(r, j) > NarrowDigit
    OBVIOUS
  <1>3. \A i : IsFirst(r, i) <=> i \in Lead /\ \A j \in Lead : i <= j
    BY DEF IsFirst
  <1>4. ASSUME NEW j \in RunStarts(r)
        PROVE  RunWidth(r, j) \in Nat /\ Doubled(r, j) \in Nat
               /\ (RunWidth(r, j) > NarrowDigit => Doubled(r, j) > NarrowDigit)
    <2>1. j \in Int /\ Len(r) \in Int
      BY <1>1
    <2>2. IsFiniteSet(j..Len(r))
      BY <2>1, FS_Interval
    <2>3. IsFiniteSet({i \in j..Len(r) : \A k \in j..i : r[k] = r[j]})
      BY <2>2, FS_Subset
    <2>4. RunWidth(r, j) \in Nat
      BY <2>3, FS_CardinalityType DEF RunWidth
    <2> DEFINE w == RunWidth(r, j)
    <2>5. Doubled(r, j) = 2 * (w + 1) /\ w \in Nat
      BY <2>4 DEF Doubled
    <2> HIDE DEF w
    <2>6. 2 * (w + 1) \in Nat /\ (w > NarrowDigit => 2 * (w + 1) > NarrowDigit)
      BY <2>5, DigitAssumption
    <2> QED BY <2>4, <2>5, <2>6 DEF w
  <1>5. \A j : j \in DigitStarts(r) <=>
            j \in RunStarts(r) /\ (IsFirst(r, j) \/ RunWidth(r, j) > NarrowDigit)
    BY DEF DigitStarts
  <1> HIDE DEF Lead
  <1>6. \A j \in DigitStarts(r) : j \in Lead /\ j \in Nat
    BY <1>1, <1>2, <1>3, <1>4, <1>5
  <1>7. \A j \in DigitStarts(r) : j < p => ~ IsFirst(r, p)
    BY <1>1, <1>3, <1>6
  <1>8. ASSUME \A j \in DigitStarts(r) : ~ (j < p), Doubled(r, p) > NarrowDigit
        PROVE  IsFirst(r, p)
    <2>1. p \in Lead /\ Lead \in SUBSET Nat
      BY <1>1, <1>2, <1>8
    <2>2. PICK i \in Lead : \A j \in Lead : i <= j
      BY <2>1, LeastIs
    <2>3. i \in DigitStarts(r)
      BY <1>2, <1>3, <1>5, <2>2
    <2>4. i = p
      BY <1>8, <2>1, <2>2, <2>3
    <2> QED BY <1>3, <2>2, <2>4
  <1> QED BY <1>2, <1>3, <1>4, <1>7, <1>8

\* The digits of r that begin before e are recognised: how many they are, and the
\* bits of those that are 1.
Before(r, e) == {j \in DigitStarts(r) : j < e}
DigitsSeen(r, e, indexer, type) ==
    /\ IsFiniteSet(Before(r, e)) /\ indexer = Cardinality(Before(r, e))
    /\ \A k : k \in type <=> \E j \in Ones(r) : j < e /\ k = Position(r, j) % INT_BITS

DigitAccs == [last : 0..1, counter : Nat, type : SUBSET Nat, indexer : Nat]

\* What Digit computes.
LEMMA DigitIs ==
    ASSUME NEW acc \in DigitAccs
    PROVE  LET width == IF acc.indexer = 0 THEN (acc.counter + 1) * 2 ELSE acc.counter
           IN  /\ Digit(acc) \in DigitAccs
               /\ width > WideDigit =>
                    Digit(acc).type = acc.type \cup {acc.indexer % INT_BITS}
               /\ ~ (width > WideDigit) => Digit(acc).type = acc.type
               /\ width > NarrowDigit => Digit(acc).indexer = acc.indexer + 1
               /\ ~ (width > NarrowDigit) => Digit(acc).indexer = acc.indexer
  <1> DEFINE width == IF acc.indexer = 0 THEN (acc.counter + 1) * 2 ELSE acc.counter
             type == IF width > WideDigit
                     THEN acc.type \cup {acc.indexer % INT_BITS} ELSE acc.type
             indexer == IF width > NarrowDigit THEN acc.indexer + 1 ELSE acc.indexer
  <1>1. /\ acc.last \in 0..1 /\ acc.counter \in Nat
        /\ acc.type \in SUBSET Nat /\ acc.indexer \in Nat
    BY DEF DigitAccs
  <1>2. acc.indexer % INT_BITS \in Nat
    BY <1>1, IntAssumption
  <1>3. Digit(acc) = [acc EXCEPT !.type = type, !.indexer = indexer]
    BY DEF Digit
  <1>4. type \in SUBSET Nat /\ indexer \in Nat
    <2> HIDE DEF width
    <2> QED BY <1>1, <1>2
  <1> HIDE DEF type, indexer
  <1>5. Digit(acc) \in DigitAccs /\ Digit(acc).type = type /\ Digit(acc).indexer = indexer
    BY <1>3, <1>4 DEF DigitAccs
  <1> HIDE DEF width
  <1>6. /\ width > WideDigit => type = acc.type \cup {acc.indexer % INT_BITS}
        /\ ~ (width > WideDigit) => type = acc.type
        /\ width > NarrowDigit => indexer = acc.indexer + 1
        /\ ~ (width > NarrowDigit) => indexer = acc.indexer
    BY DEF type, indexer
  <1> QED BY <1>5, <1>6 DEF width

\* At the end of a run Digit recognises the digit it is, if it is one.
LEMMA DigitRead ==
    ASSUME NEW r \in Seq(0..1), NEW p, NEW acc \in DigitAccs,
           IsRun(r, p, acc.counter), Ends(r, p + acc.counter),
           DigitsSeen(r, p, acc.indexer, acc.type)
    PROVE  DigitsSeen(r, p + acc.counter, Digit(acc).indexer, Digit(acc).type)
  <1> DEFINE c == acc.counter
             x == acc.indexer
             e == p + c
             w == IF x = 0 THEN (c + 1) * 2 ELSE c
             new == Digit(acc)
             bit == x % INT_BITS
  <1>1. /\ p \in RunStarts(r) /\ RunWidth(r, p) = c
        /\ \A j \in RunStarts(r) : j < e <=> j < p \/ j = p
    BY RunIs
  <1>2. Doubled(r, p) = (c + 1) * 2
    <2>1. c \in Nat
      BY DEF DigitAccs
    <2> QED BY <1>1, <2>1 DEF Doubled
  <1>3. /\ IsFiniteSet(Before(r, p)) /\ x = Cardinality(Before(r, p)) /\ x \in Nat
        /\ \A k : k \in acc.type <=>
                    \E j \in Ones(r) : j < p /\ k = Position(r, j) % INT_BITS
    BY DEF DigitsSeen, DigitAccs
  <1>4. x = 0 <=> \A j \in DigitStarts(r) : ~ (j < p)
    <2>1. x = 0 <=> Before(r, p) = {}
      BY <1>3, FS_EmptySet
    <2> QED BY <2>1 DEF Before
  <1>5. /\ x = 0 => (Doubled(r, p) > NarrowDigit <=> IsFirst(r, p))
        /\ x # 0 => ~ IsFirst(r, p)
        /\ RunWidth(r, p) > NarrowDigit => Doubled(r, p) > NarrowDigit
    BY <1>1, <1>4, FirstIs
  <1>6. /\ p \in DigitStarts(r) <=> IsFirst(r, p) \/ c > NarrowDigit
        /\ p \in Ones(r) <=> /\ p \in DigitStarts(r)
                             /\ IsFirst(r, p) => (c + 1) * 2 > WideDigit
                             /\ ~ IsFirst(r, p) => c > WideDigit
        /\ Ones(r) \subseteq DigitStarts(r) /\ DigitStarts(r) \subseteq RunStarts(r)
    BY <1>1, <1>2 DEF DigitStarts, Ones
  <1>7. (w > NarrowDigit <=> p \in DigitStarts(r)) /\ (w > WideDigit <=> p \in Ones(r))
    <2>1. c \in Nat /\ (c + 1) * 2 \in Nat
      BY DEF DigitAccs
    <2>2. \A v \in Nat : v > WideDigit => v > NarrowDigit
      BY DigitAssumption
    <2>3. CASE x = 0
      <3>1. w = (c + 1) * 2
        BY <2>3
      <3> HIDE DEF w, c, x
      <3> QED BY <1>1, <1>2, <1>5, <1>6, <2>1, <2>2, <2>3, <3>1
    <2>4. CASE x # 0
      <3>1. w = c
        BY <2>4
      <3> HIDE DEF w, c, x
      <3> QED BY <1>1, <1>2, <1>5, <1>6, <2>1, <2>2, <2>4, <3>1
    <2> QED BY <2>3, <2>4
  <1>8. /\ w > WideDigit => new.type = acc.type \cup {bit}
        /\ ~ (w > WideDigit) => new.type = acc.type
        /\ w > NarrowDigit => new.indexer = x + 1
        /\ ~ (w > NarrowDigit) => new.indexer = x
    BY DigitIs
  <1>9. Position(r, p) = x
    BY <1>3 DEF Position, Before
  <1>10. p \in Int /\ ~ (p < p)
    BY <1>1 DEF RunStarts
  <1>11. \A j : /\ j \in Before(r, p) <=> j \in DigitStarts(r) /\ j < p
                /\ j \in Before(r, e) <=> j \in DigitStarts(r) /\ j < e
    BY DEF Before
  <1>12. \A j \in DigitStarts(r) : j < e <=> j < p \/ j = p
    BY <1>1, <1>6
  <1> HIDE DEF c, x, w, e, new, bit
  <1>13. IsFiniteSet(Before(r, e)) /\ new.indexer = Cardinality(Before(r, e))
    <2>1. CASE p \in DigitStarts(r)
      <3>1. Before(r, e) = Before(r, p) \cup {p} /\ p \notin Before(r, p)
        BY <1>10, <1>11, <1>12, <2>1
      <3> QED BY <1>3, <1>7, <1>8, <2>1, <3>1, FS_AddElement
    <2>2. CASE p \notin DigitStarts(r)
      <3>1. Before(r, e) = Before(r, p)
        BY <1>11, <1>12, <2>2
      <3> QED BY <1>3, <1>7, <1>8, <2>2, <3>1
    <2> QED BY <2>1, <2>2
  <1>14. ASSUME NEW k
         PROVE  k \in new.type <=>
                    \E j \in Ones(r) : j < e /\ k = Position(r, j) % INT_BITS
    <2>1. bit = Position(r, p) % INT_BITS
      BY <1>9 DEF bit
    <2>2. k \in acc.type <=>
              \E j \in Ones(r) : j < p /\ k = Position(r, j) % INT_BITS
      BY <1>3
    <2>3. \A j \in Ones(r) : j < e <=> j < p \/ j = p
      BY <1>6, <1>12
    <2>4. CASE p \in Ones(r)
      <3>1. k \in new.type <=> k \in acc.type \/ k = Position(r, p) % INT_BITS
        BY <1>7, <1>8, <2>1, <2>4
      <3> QED BY <2>2, <2>3, <2>4, <3>1
    <2>5. CASE p \notin Ones(r)
      <3>1. new.type = acc.type
        BY <1>7, <1>8, <2>5
      <3> QED BY <2>2, <2>3, <2>5, <3>1
    <2> QED BY <2>4, <2>5
  <1> QED BY <1>13, <1>14 DEF DigitsSeen, e, new, c

\* The loop after i of the Len(r) + 1 rounds: the variables last and counter
\* describe the run that goes on there, and the digits before it are recognised.
DigitsRead(r, i, acc) ==
    /\ acc \in DigitAccs
    /\ i = 0 => /\ acc.counter = 0 /\ (r # <<>> => acc.last = r[1])
                /\ DigitsSeen(r, 1, acc.indexer, acc.type)
    /\ i > 0 => /\ acc.last = r[i]
                /\ IsRun(r, i - acc.counter + 1, acc.counter)
                /\ DigitsSeen(r, i - acc.counter + 1, acc.indexer, acc.type)

\* The last sample is not looked at.
LEMMA FrontIs ==
    ASSUME NEW s \in Seq(0..1), s # <<>>
    PROVE  /\ Front(s) \in Seq(0..1) /\ Len(Front(s)) = Len(s) - 1
           /\ Len(s) \in Nat \ {0} /\ \A i \in 1..Len(s) : s[i] \in 0..1
           /\ \A i \in 1..(Len(s) - 1) : Front(s)[i] = s[i]
  <1>1. Len(s) \in Nat \ {0}
    OBVIOUS
  <1> DEFINE n == Len(s) - 1
  <1>2. Front(s) = SubSeq(s, 1, n) /\ n \in Nat /\ 1 \in Int
    BY <1>1 DEF Front
  <1>3. \A i \in 1..n : s[i] \in 0..1 /\ 1 + i - 1 = i
    BY <1>1
  <1> HIDE DEF n
  <1>4. /\ SubSeq(s, 1, n) \in Seq(0..1)
        /\ Len(SubSeq(s, 1, n)) = IF 1 <= n THEN n - 1 + 1 ELSE 0
        /\ \A i \in 1..(n - 1 + 1) : SubSeq(s, 1, n)[i] = s[1 + i - 1]
    BY <1>2, <1>3, SubSeqProperties
  <1>5. \A i \in 1..Len(s) : s[i] \in 0..1
    OBVIOUS
  <1>6. Len(SubSeq(s, 1, n)) = n /\ \A i \in 1..n : SubSeq(s, 1, n)[i] = s[i]
    BY <1>2, <1>3, <1>4
  <1> QED BY <1>1, <1>2, <1>4, <1>5, <1>6 DEF n

\* What a round computes.
LEMMA DigitRoundIs ==
    ASSUME NEW s \in Seq(0..1), NEW i \in 1..Len(s), NEW acc \in DigitAccs
    PROVE  /\ DigitRound(s, acc, i) \in DigitAccs
           /\ s[i] = acc.last /\ i # Len(s) =>
                DigitRound(s, acc, i) = [acc EXCEPT !.counter = @ + 1]
           /\ ~ (s[i] = acc.last /\ i # Len(s)) =>
                /\ DigitRound(s, acc, i).last = s[i]
                /\ DigitRound(s, acc, i).counter = 1
                /\ DigitRound(s, acc, i).type = Digit(acc).type
                /\ DigitRound(s, acc, i).indexer = Digit(acc).indexer
  <1>1. Digit(acc) \in DigitAccs
    BY DigitIs
  <1> DEFINE d == Digit(acc)
             on == [acc EXCEPT !.counter = @ + 1]
             next == [d EXCEPT !.last = s[i], !.counter = 1]
  <1>2. s[i] \in 0..1
    OBVIOUS
  <1>3. DigitRound(s, acc, i) = IF s[i] = acc.last /\ i # Len(s) THEN on ELSE next
    BY DEF DigitRound
  <1>4. on \in DigitAccs
    BY DEF DigitAccs
  <1> HIDE DEF d
  <1>5. d \in DigitAccs
    BY <1>1 DEF d
  <1>6. next \in DigitAccs /\ next.last = s[i] /\ next.counter = 1
        /\ next.type = d.type /\ next.indexer = d.indexer
    BY <1>2, <1>5 DEF DigitAccs
  <1> HIDE DEF on, next
  <1> QED BY <1>3, <1>4, <1>6 DEF d, on

\* A round keeps it, but for the last one,
LEMMA ReadKept ==
    ASSUME NEW s \in Seq(0..1), NEW i \in 1..(Len(s) - 1), NEW acc,
           DigitsRead(Front(s), i - 1, acc)
    PROVE  DigitsRead(Front(s), i, DigitRound(s, acc, i))
  <1> DEFINE r == Front(s)
             new == DigitRound(s, acc, i)
             c == acc.counter
             m == i - 1
             p == m - c + 1
  <1>1. s # <<>> /\ Len(s) \in Nat /\ i \in Nat \ {0} /\ i \in 1..Len(s) /\ i # Len(s)
    OBVIOUS
  <1>2. r \in Seq(0..1) /\ Len(r) = Len(s) - 1 /\ r[i] = s[i] /\ r # <<>>
        /\ i \in 1..Len(r) /\ Len(r) \in Nat
    BY <1>1, FrontIs
  <1>3. acc \in DigitAccs
    BY DEF DigitsRead
  <1>4. c \in Nat /\ acc.indexer \in Nat /\ m \in Nat /\ i = m + 1
    BY <1>1, <1>3 DEF DigitAccs
  <1>5. /\ m = 0 => c = 0 /\ acc.last = r[1] /\ DigitsSeen(r, 1, acc.indexer, acc.type)
        /\ m > 0 => /\ acc.last = r[m] /\ IsRun(r, p, c)
                    /\ DigitsSeen(r, p, acc.indexer, acc.type)
    BY <1>2 DEF DigitsRead
  <1>6. new \in DigitAccs
    BY <1>1, <1>3, DigitRoundIs
  <1>7. CASE s[i] = acc.last
    <2>1. new = [acc EXCEPT !.counter = c + 1]
      BY <1>1, <1>3, <1>7, DigitRoundIs
    <2>2. new.last = acc.last /\ new.counter = c + 1
          /\ new.type = acc.type /\ new.indexer = acc.indexer
      BY <1>3, <2>1 DEF DigitAccs
    <2> HIDE DEF r, new, c, m
    <2>3. i - new.counter + 1 = p
      BY <1>4, <2>2
    <2>4. CASE m = 0
      <3>1. p = 1 /\ new.counter = 1 /\ i = 1
        BY <1>4, <1>5, <2>2, <2>4
      <3>2. IsRun(r, 1, 1)
        BY <1>2, <3>1 DEF IsRun
      <3> QED BY <1>2, <1>5, <1>6, <1>7, <2>2, <2>3, <2>4, <3>1, <3>2 DEF DigitsRead, r, new
    <2>5. CASE m > 0
      <3>1. r[i] = r[m] /\ m = p + c - 1 /\ i = p + (c + 1) - 1
        <4>1. r[i] = r[m]
          BY <1>2, <1>5, <1>7, <2>5
        <4>2. m = p + c - 1 /\ i = p + (c + 1) - 1
          BY <1>4
        <4> QED BY <4>1, <4>2
      <3> HIDE DEF p
      <3>2. /\ p \in 1..Len(r) /\ c \in Nat \ {0}
            /\ \A j \in p..m : r[j] = r[p]
            /\ p > 1 => r[p - 1] # r[p]
        BY <1>5, <2>5, <3>1 DEF IsRun
      <3>3. m \in p..m
        BY <1>4, <3>1, <3>2
      <3>4. ASSUME NEW j \in p..i PROVE r[j] = r[p]
        <4>1. j = i \/ j \in p..m
          BY <1>4, <3>2
        <4> QED BY <3>1, <3>2, <3>3, <4>1
      <3>5. IsRun(r, p, c + 1)
        <4>1. c + 1 \in Nat \ {0} /\ p + (c + 1) - 1 \in 1..Len(r)
          BY <1>2, <1>4, <3>1
        <4>2. \A j \in p..(p + (c + 1) - 1) : r[j] = r[p]
          BY <3>1, <3>4
        <4> QED BY <3>2, <4>1, <4>2 DEF IsRun
      <3>6. new.last = r[i] /\ i > 0
        BY <1>1, <1>2, <1>7, <2>2
      <3>7. IsRun(r, i - new.counter + 1, new.counter)
            /\ DigitsSeen(r, i - new.counter + 1, new.indexer, new.type)
        BY <1>5, <2>2, <2>3, <2>5, <3>5
      <3>8. ~ (i = 0)
        BY <3>6
      <3> QED BY <1>6, <3>6, <3>7, <3>8 DEF DigitsRead, r, new
    <2> QED BY <1>4, <2>4, <2>5
  <1>8. CASE s[i] # acc.last
    <2>1. new.last = s[i] /\ new.counter = 1
          /\ new.type = Digit(acc).type /\ new.indexer = Digit(acc).indexer
      BY <1>1, <1>3, <1>8, DigitRoundIs
    <2> HIDE DEF r, new, c, m
    <2>2. m > 0
      BY <1>2, <1>4, <1>5, <1>8
    <2>3. r[i - 1] # r[i] /\ i \in 2..Len(r) /\ p + c = i
      BY <1>2, <1>4, <1>5, <1>8, <2>2
    <2>4. Ends(r, p + c)
      BY <2>3 DEF Ends
    <2> HIDE DEF p
    <2>5. DigitsSeen(r, i, Digit(acc).indexer, Digit(acc).type)
      BY <1>2, <1>3, <1>5, <2>2, <2>3, <2>4, DigitRead DEF c
    <2>6. IsRun(r, i, 1)
      <3>1. i \in 1..Len(r) /\ i + 1 - 1 = i /\ \A j \in i..i : j = i
        BY <1>2
      <3> QED BY <2>3, <3>1 DEF IsRun
    <2>7. i - new.counter + 1 = i /\ i > 0 /\ ~ (i = 0)
      BY <1>4, <2>1
    <2> QED BY <1>2, <1>6, <2>1, <2>5, <2>6, <2>7 DEF DigitsRead, r, new
  <1> QED BY <1>7, <1>8

\* which ends the last run.
LEMMA AllRead ==
    ASSUME NEW s \in Seq(0..1), s # <<>>, NEW acc,
           DigitsRead(Front(s), Len(s) - 1, acc)
    PROVE  DigitRound(s, acc, Len(s)).type = {k % INT_BITS : k \in DigitsOf(Front(s))}
  <1> DEFINE r == Front(s)
             n == Len(s)
             m == n - 1
             type == DigitRound(s, acc, n).type
  <1>1. r \in Seq(0..1) /\ Len(r) = m /\ n \in Nat \ {0} /\ m \in Nat /\ n = m + 1
    BY FrontIs
  <1>2. acc \in DigitAccs
    BY DEF DigitsRead
  <1>3. type = Digit(acc).type
    BY <1>1, <1>2, DigitRoundIs
  <1>4. \A k : k \in {l % INT_BITS : l \in DigitsOf(r)} <=>
                  \E j \in Ones(r) : k = Position(r, j) % INT_BITS
    BY DEF DigitsOf
  <1>5. \A j \in Ones(r) : j \in 1..m
    BY <1>1 DEF Ones, DigitStarts, RunStarts
  <1>6. type \in SUBSET Nat
    BY <1>1, <1>2, DigitRoundIs DEF DigitAccs
  <1> HIDE DEF type, m, n
  <1>7. \A k : k \in type <=> \E j \in Ones(r) : k = Position(r, j) % INT_BITS
    <2>1. CASE m = 0
      <3>1. acc.counter = 0 /\ DigitsSeen(r, 1, acc.indexer, acc.type)
        BY <2>1 DEF DigitsRead, m, n
      <3>2. Ones(r) = {} /\ Before(r, 1) = {}
        <4>1. RunStarts(r) = {}
          BY <1>1, <2>1 DEF RunStarts
        <4> QED BY <4>1 DEF Ones, Before, DigitStarts
      <3>3. acc.indexer = 0 /\ \A k : k \notin acc.type
        BY <3>1, <3>2, FS_EmptySet DEF DigitsSeen
      <3>4. ~ ((acc.counter + 1) * 2 > WideDigit)
        BY <3>1, DigitAssumption
      <3>5. Digit(acc).type = acc.type
        BY <1>2, <3>3, <3>4, DigitIs
      <3> QED BY <1>3, <3>2, <3>3, <3>5
    <2>2. CASE m > 0
      <3> DEFINE p == m - acc.counter + 1
      <3>1. IsRun(r, p, acc.counter) /\ DigitsSeen(r, p, acc.indexer, acc.type)
        BY <2>2 DEF DigitsRead, m, n
      <3>2. p + acc.counter = n /\ Ends(r, p + acc.counter)
        BY <1>1, <1>2 DEF Ends, DigitAccs
      <3> HIDE DEF p
      <3>3. DigitsSeen(r, n, Digit(acc).indexer, Digit(acc).type)
        BY <1>1, <1>2, <3>1, <3>2, DigitRead
      <3>4. \A j \in Ones(r) : j < n
        BY <1>1, <1>5
      <3> QED BY <1>3, <3>3, <3>4 DEF DigitsSeen
    <2> QED BY <1>1, <2>1, <2>2
  <1>8. type = {l % INT_BITS : l \in DigitsOf(r)}
    BY <1>4, <1>7
  <1> QED BY <1>8 DEF type, n

\* The bits that the loop sets are those of the digits that are 1, as far as the
\* width of an int goes.
LEMMA DigitsAre ==
    ASSUME NEW s \in Seq(0..1), s # <<>>
    PROVE  Digits(s).type = {k % INT_BITS : k \in DigitsOf(Front(s))}
  <1> DEFINE n == Len(s)
             r == Front(s)
             start == [last |-> s[1], counter |-> 0, type |-> {}, indexer |-> 0]
             G == [i \in 1..n |-> [x \in DigitAccs |-> DigitRound(s, x, i)]]
             acc[i \in 0..n] == IF i = 0 THEN start ELSE DigitRound(s, acc[i - 1], i)
             m == n - 1
  <1>1. n \in Nat \ {0} /\ n \in Nat /\ m \in Nat /\ n = m + 1
        /\ r \in Seq(0..1) /\ Len(r) = m /\ s[1] \in 0..1 /\ (r # <<>> => r[1] = s[1])
    <2>1. n \in Nat \ {0} /\ r \in Seq(0..1) /\ Len(r) = n - 1
          /\ (\A i \in 1..n : s[i] \in 0..1) /\ (\A i \in 1..m : r[i] = s[i])
      BY FrontIs
    <2> HIDE DEF n, r
    <2>2. 1 \in 1..n /\ (r # <<>> => 1 \in 1..m)
      BY <2>1
    <2> QED BY <2>1, <2>2
  <1>2. Digits(s) = acc[n]
    BY DEF Digits
  <1>3. start \in DigitAccs
    BY <1>1 DEF DigitAccs
  <1>4. DigitsRead(r, 0, start)
    <2>1. \A j \in RunStarts(r) : ~ (j < 1)
      BY <1>1 DEF RunStarts
    <2>2. Before(r, 1) = {} /\ \A j \in Ones(r) : ~ (j < 1)
      BY <2>1 DEF Before, Ones, DigitStarts
    <2>3. DigitsSeen(r, 1, 0, {})
      BY <2>2, FS_EmptySet DEF DigitsSeen
    <2> HIDE DEF r
    <2> QED BY <1>1, <1>3, <2>3 DEF DigitsRead
  <1> HIDE DEF start
  <1>5. \A i \in 1..n, x \in DigitAccs : DigitRound(s, x, i) \in DigitAccs
    BY DigitRoundIs
  <1>6. G \in [1..n -> [DigitAccs -> DigitAccs]]
    BY <1>5
  <1>7. \A i \in 1..n, x \in DigitAccs : G[i][x] = DigitRound(s, x, i)
    OBVIOUS
  <1> HIDE DEF G, n, r
  <1>8. PICK f : Computes(f, n, DigitAccs, start, G)
    BY <1>1, <1>3, <1>6, LoopExists
  <1>9. \A i \in 1..n : i - 1 \in 0..n /\ i # 0 /\ i \in 0..n
    BY <1>1
  <1>10. f = [i \in 0..n |-> IF i = 0 THEN start ELSE DigitRound(s, f[i - 1], i)]
    <2>1. f \in [0..n -> DigitAccs] /\ f[0] = start
      BY <1>8 DEF Computes
    <2>2. \A i \in 1..n : f[i] = DigitRound(s, f[i - 1], i)
      BY <1>7, <1>8, <1>9 DEF Computes
    <2>3. ASSUME NEW i \in 0..n
          PROVE  f[i] = IF i = 0 THEN start ELSE DigitRound(s, f[i - 1], i)
      <3>1. CASE i = 0
        BY <2>1, <3>1
      <3>2. CASE i \in 1..n
        BY <1>9, <2>2, <3>2
      <3> QED BY <1>1, <3>1, <3>2
    <2> QED BY <2>1, <2>3
  <1>11. acc = [i \in 0..n |-> IF i = 0 THEN start ELSE DigitRound(s, acc[i - 1], i)]
    BY <1>10
  <1> HIDE DEF acc
  <1>12. acc[0] = start /\ \A i \in 1..n : acc[i] = DigitRound(s, acc[i - 1], i)
    BY <1>1, <1>9, <1>11
  <1> DEFINE K == {i \in 0..m : DigitsRead(r, i, acc[i])}
  <1>13. 0 \in K
    BY <1>1, <1>4, <1>12
  <1>14. ASSUME NEW i \in 1..m, i - 1 \in K
         PROVE  i \in K
    <2>1. i \in 1..n /\ i \in 0..m /\ i \in 1..(Len(s) - 1)
      BY <1>1 DEF n
    <2>2. DigitsRead(r, i - 1, acc[i - 1])
      BY <1>14
    <2>3. DigitsRead(r, i, DigitRound(s, acc[i - 1], i))
      BY <2>1, <2>2, ReadKept DEF r
    <2> QED BY <1>12, <2>1, <2>3
  <1>15. m \in 0..m /\ n \in 1..n /\ n - 1 = m /\ \A i \in K : DigitsRead(r, i, acc[i])
    BY <1>1
  <1> HIDE DEF K, m
  <1>16. DigitsRead(r, m, acc[m])
    BY <1>1, <1>13, <1>14, <1>15, EveryRound
  <1>17. acc[n] = DigitRound(s, acc[m], n)
    BY <1>12, <1>15
  <1> QED BY <1>2, <1>15, <1>16, <1>17, AllRead DEF n, r

\* Of a code with no more digits than an int has bits, each digit has a bit of its
\* own (height_measurement.cpp:337-378).
THEOREM ShortCodes ==
    ASSUME NEW s \in Seq(0..1), s # <<>>,
           Cardinality(DigitStarts(Front(s))) <= INT_BITS
    PROVE  Digits(s).type = DigitsOf(Front(s))
  <1> DEFINE r == Front(s)
             D == DigitStarts(r)
  <1>1. Len(r) \in Nat /\ D \subseteq 1..Len(r) /\ Ones(r) \subseteq D
    <2>1. r \in Seq(0..1)
      BY FrontIs
    <2> QED BY <2>1 DEF DigitStarts, RunStarts, Ones
  <1>2. IsFiniteSet(D) /\ Cardinality(D) \in Nat
    <2>1. IsFiniteSet(1..Len(r))
      BY <1>1, FS_Interval
    <2> QED BY <1>1, <2>1, FS_Subset, FS_CardinalityType
  <1>3. Cardinality(D) <= INT_BITS
    OBVIOUS
  <1>4. \A i : Position(r, i) = Cardinality({j \in D : j < i})
    BY DEF Position
  <1>5. DigitsOf(r) = {Position(r, i) : i \in Ones(r)}
    BY DEF DigitsOf
  <1> HIDE DEF D, r
  <1>6. ASSUME NEW i \in D
        PROVE  Position(r, i) \in 0..(INT_BITS - 1)
    <2> DEFINE B == {j \in D : j < i}
    <2>1. B \subseteq D /\ i \notin B /\ B \cup {i} \subseteq D
      BY <1>1
    <2>2. Position(r, i) = Cardinality(B)
      BY <1>4
    <2> HIDE DEF B
    <2>3. IsFiniteSet(B) /\ Cardinality(B) \in Nat
      BY <1>2, <2>1, FS_Subset, FS_CardinalityType
    <2>4. Cardinality(B \cup {i}) = Cardinality(B) + 1
      BY <2>1, <2>3, FS_AddElement
    <2>5. Cardinality(B \cup {i}) <= Cardinality(D)
      BY <1>2, <2>1, FS_Subset
    <2> QED BY <1>2, <1>3, <2>2, <2>3, <2>4, <2>5, IntAssumption
  <1>7. ASSUME NEW i \in Ones(r)
        PROVE  Position(r, i) % INT_BITS = Position(r, i)
    <2>1. Position(r, i) \in 0..(INT_BITS - 1)
      BY <1>1, <1>6
    <2> QED BY <2>1, IntAssumption
  <1>8. {k % INT_BITS : k \in DigitsOf(r)} = DigitsOf(r)
    BY <1>5, <1>7
  <1> QED BY <1>8, DigitsAre DEF r, D

-----------------------------------------------------------------------------
\* The inductive invariant.

Sensor == {"HEIGHT_SENSOR_MEASURE_START", "IDENTIFIED_PUK"}
Pulses == Event \cup Sensor

\* A round has counted every sample it has stored or skipped, and the array is
\* empty while nothing is measured.
LengthInv ==
    /\ pc \in {"sampling", "sampled"} =>
         /\ Len(height_vector) + ground_debouncer <= length_counter
         /\ length_counter < MAX_LENGTH
    /\ pc = "sampling" => ground_debouncer <= MaxGround
    /\ pc \in {"poll", "identified", "failed"} =>
         height_vector = <<>> /\ length_counter = 0 /\ ground_debouncer = 0

\* What has been reported when the thread is at pc, and how much it has
\* measured then.
SaidInv ==
    LET S == "HEIGHT_SENSOR_MEASURE_START"
        O == "TIMER_MEASURE_OUT"
        E == "ERR_UNDEFINED_PUK"
    IN  /\ pc \in {"sampling", "sampled"} =>
             said = IF length_counter < MIN_LENGTH THEN <<>> ELSE <<S>>
        /\ pc = "measured" =>
             /\ said \in {<<>>, <<S>>, <<E>>, <<S, E>>}
             /\ said # <<S>> => Len(height_vector) <= MinError
        /\ pc \in {"evaluating", "identified", "failed"} => said = <<S, O>>
        /\ pc = "poll" => said \in WholeReports \cup {<<>>}

\* The state the motor is in or goes back to is one it saves, with its speed.
HistoryInv ==
    /\ motor \in MotorStates
    /\ motor # "Stop_Error" => motorHistory.error \in {"none", motor}
    /\ Resumed \in {"Idle", "Stop", "Normal", "Slow"}
    /\ Resumed \in RunningStates => motorHistory.speeds = Resumed
    /\ Resumed = "Stop" => motorHistory.speeds \in RunningStates

\* The first command makes the motor save a state.
MotorInv ==
    /\ HistoryInv
    /\ motorHistory.error = "none" =>
         motor = "Idle" /\ queue # <<>> /\ Head(queue) = "MOTOR_START_ERR"

\* Of a belt that stands the thread knows it or will hear of it.
StopHeard ==
    Stands /\ motorHistory.error # "none" =>
        Commanded(queue, "SPEED_STOP", SpeedEvents, is_stopped)

\* The thread takes no second sample before it has heard that the belt moves,
\* which it does not hear before the belt moves.
StandInv ==
    /\ standing \in 0..1
    /\ standing = 1 => /\ Stands /\ is_stopped /\ pc # "sampling"
                       /\ Free(queue, {"SPEED_NORMAL", "SPEED_SLOW"})

\* The measurement goes on, or the pulse that ends it comes after the last of B.
Released(B) == Announced \/ Commanded(queue, "TIMER_MEASURE_OUT", B, TRUE)

\* The release comes behind the start that asks for the slow belt, and behind
\* MOTOR_SLOW unless it has been overtaken; so if the belt is slow the release
\* is still to come, or it has been ignored.
SlowInv ==
    /\ Released({"HEIGHT_SENSOR_MEASURE_START"})
    /\ overtaken \/ Released({"MOTOR_SLOW"})
    /\ Speed = "Slow" =>
         overtaken \/ ignored \/ Announced \/ ~ Free(queue, {"TIMER_MEASURE_OUT"})

Inv ==
    /\ TypeOK
    /\ LengthInv /\ SaidInv /\ StandInv
    /\ MotorInv /\ StopHeard /\ SlowInv

-----------------------------------------------------------------------------
\* The queue.

\* The bounds are numbers in their order.
LEMMA Bounds ==
    /\ MAX_LENGTH \in Nat \ {0} /\ MIN_LENGTH \in Nat \ {0}
    /\ MIN_ARRAY_LENGTH \in Nat \ {0} /\ MinError \in Nat \ {0}
    /\ MIN_LENGTH <= MinError /\ MinError < MIN_ARRAY_LENGTH
    /\ MaxGround \in Nat /\ MaxStops \in Nat /\ MaxQueue \in Nat
  BY LengthAssumption, BoundsAssumption

\* What is sampled can be evaluated.
LEMMA SamplesEvaluated ==
    ASSUME NEW a \in Seq(Readings \cup {UNDEFINED}), NEW diff
    PROVE  evaluate_puk_type(a, diff) \in PukTypes \cup {UNDEFINED}
  <1>1. Readings \cup {UNDEFINED} \subseteq Int
    BY ReadingsAssumption DEF UNDEFINED
  <1>2. a \in Seq(Int)
    BY <1>1, SeqSubset
  <1> QED BY <1>2, RecognisedTyped

\* What the dispatcher leaves of a queue without pulses of B, and what is
\* appended to one.
LEMMA FreeTail ==
    ASSUME NEW T, NEW q \in Seq(T), q # <<>>, NEW B, Free(q, B)
    PROVE  Head(q) \notin B /\ Free(Tail(q), B)
  BY TailElements DEF Free

LEMMA FreeAppended ==
    ASSUME NEW T, NEW q \in Seq(T), NEW e \in T, NEW B, Free(q, B), e \notin B
    PROVE  Free(Append(q, e), B)
  BY Appending DEF Free

\* A pulse that is in a queue.
LEMMA InQueue ==
    ASSUME NEW q, NEW a
    PROVE  a \in Range(q) <=> ~ Free(q, {a})
  BY DEF Range, Free

\* A pulse that has the last word on B is in the queue, and if it is not the
\* next one, behind the next.
LEMMA LastWordWaits ==
    ASSUME NEW T, NEW q \in Seq(T), q # <<>>, NEW a, NEW B,
           Commanded(q, a, B, TRUE), Head(q) \in B, Head(q) # a
    PROVE  ~ Free(q, {a})
  <1>1. Head(q) = q[1] /\ 1 \in DOMAIN q
    BY TailElements
  <1>2. EndsWith(q, a, B)
    BY <1>1 DEF Commanded, Free
  <1> QED BY <1>2 DEF EndsWith, Free

\* Behind a pulse that is not the next one there is the same.
LEMMA StillWaits ==
    ASSUME NEW T, NEW q \in Seq(T), q # <<>>, NEW a, ~ Free(q, {a}), Head(q) # a
    PROVE  ~ Free(Tail(q), {a})
  <1>1. PICK i \in DOMAIN q : q[i] = a
    BY DEF Free
  <1>2. i # 1 /\ i - 1 \in DOMAIN Tail(q) /\ Tail(q)[i - 1] = q[i]
    BY <1>1, TailElements
  <1> QED BY <1>1, <1>2 DEF Free

\* What is in a queue stays in it when others are appended.
LEMMA WaitsOn ==
    ASSUME NEW T, NEW q \in Seq(T), NEW t \in Seq(T), NEW a, ~ Free(q, {a})
    PROVE  ~ Free(q \o t, {a})
  <1>1. PICK i \in DOMAIN q : q[i] = a
    BY DEF Free
  <1>2. i \in DOMAIN (q \o t) /\ (q \o t)[i] = a
    BY <1>1, Concatenation
  <1> QED BY <1>2 DEF Free

\* A pulse is appended to a sequence as a sequence of one pulse.
LEMMA OnePulse ==
    ASSUME NEW T, NEW q \in Seq(T), NEW e \in T
    PROVE  q \o <<e>> = Append(q, e)
  OBVIOUS

\* Sequences with the same elements are the same.
LEMMA SameElements ==
    ASSUME NEW T, NEW s \in Seq(T), NEW t \in Seq(T), Len(s) = Len(t),
           \A i \in 1..Len(s) : s[i] = t[i]
    PROVE  s = t
  OBVIOUS

\* What has been reported grows by one pulse.
LEMMA ShortReports ==
    ASSUME NEW T, NEW a \in T, NEW b \in T, NEW c \in T
    PROVE  <<>> \o <<a>> = <<a>> /\ <<a>> \o <<b>> = <<a, b>>
           /\ <<a, b>> \o <<c>> = <<a, b, c>>
  <1> DEFINE two == <<a>> \o <<b>>
             pair == <<a, b>>
             three == <<a, b>> \o <<c>>
             triple == <<a, b, c>>
  <1>1. two \in Seq(T) /\ Len(two) = 2 /\ two[1] = a /\ two[2] = b
    OBVIOUS
  <1>2. pair \in Seq(T) /\ Len(pair) = 2 /\ pair[1] = a /\ pair[2] = b
    OBVIOUS
  <1>3. three \in Seq(T) /\ Len(three) = 3 /\ three[1] = a /\ three[2] = b /\ three[3] = c
    OBVIOUS
  <1>4. triple \in Seq(T) /\ Len(triple) = 3 /\ triple[1] = a /\ triple[2] = b /\ triple[3] = c
    OBVIOUS
  <1>5. <<>> \o <<a>> = <<a>>
    OBVIOUS
  <1> HIDE DEF two, pair, three, triple
  <1>6. (\A i \in 1..2 : two[i] = pair[i]) /\ (\A i \in 1..3 : three[i] = triple[i])
    BY <1>1, <1>2, <1>3, <1>4
  <1>7. two = pair
    BY <1>1, <1>2, <1>6, SameElements
  <1>8. three = triple
    BY <1>3, <1>4, <1>6, SameElements
  <1> QED BY <1>5, <1>7, <1>8 DEF two, pair, three, triple

\* What the pulses are, spelled out.
LEMMA PulseSets ==
    /\ MotorEvents = {"MOTOR_NORMAL", "MOTOR_SLOW", "MOTOR_START", "MOTOR_STOP",
                      "MOTOR_IDLE", "TIMER_MEASURE_OUT", "MOTOR_STOP_ERR",
                      "MOTOR_START_ERR"}
    /\ SpeedEvents = {"SPEED_NORMAL", "SPEED_SLOW", "SPEED_STOP"}
    /\ MotorEvents \subseteq Pulses /\ SpeedEvents \subseteq Pulses
    /\ {"HEIGHT_SENSOR_MEASURE_START", "IDENTIFIED_PUK",
        "ERR_UNDEFINED_PUK"} \subseteq Pulses
  <1>1. ErrMotorEvents \subseteq Event /\ PukMotorEvents \subseteq Event
    BY DEF Event, ExternalEvents
  <1>2. "ERR_UNDEFINED_PUK" \in Event
    BY DEF Event, ExternalEvents, FaultEvents
  <1> QED BY <1>1, <1>2 DEF MotorEvents, PukMotorEvents, ErrMotorEvents, SpeedEvents,
             Pulses, Sensor, Event

-----------------------------------------------------------------------------
\* Initially.

LEMMA Initially == Init => Inv
  <1> SUFFICES ASSUME Init PROVE Inv
    OBVIOUS
  <1>1. /\ motor = "Idle" /\ motorHistory = [error |-> "none", speeds |-> "none"]
        /\ queue = <<"MOTOR_START_ERR">> /\ pc = "poll" /\ readings = {}
        /\ height_vector = <<>> /\ length_counter = 0 /\ ground_debouncer = 0
        /\ last_type = 0 /\ is_stopped = FALSE /\ said = <<>> /\ standing = 0
        /\ stops = 0 /\ overtaken = FALSE /\ ignored = FALSE
    BY DEF Init, MotorInit
  <1>2. "MOTOR_START_ERR" \in Pulses
    BY PulseSets
  <1>3. queue \in Seq(Pulses)
    BY <1>1, <1>2
  <1>4. TypeOK
    <2>1. height_diff \in Int
      <3>1. PICK r \in [1..4 -> Grounds] : height_diff = get_height_difference(r)
        BY DEF Init
      <3>2. r[1] \in Nat /\ r[2] \in Nat /\ r[3] \in Nat /\ r[4] \in Nat
        <4>1. \A i \in 1..4 : r[i] \in Nat
          BY ReadingsAssumption
        <4> QED BY <4>1
      <3>3. (r[1] + r[2] + r[3] + r[4]) \div 4 \in Int
        BY <3>2
      <3> HIDE DEF get_height_difference
      <3>4. get_height_difference(r) \in Int
        BY <3>3 DEF get_height_difference, INIT_HEIGHT
      <3> QED BY <3>1, <3>4
    <2>2. queue \in Seq(Event \cup {"HEIGHT_SENSOR_MEASURE_START", "IDENTIFIED_PUK"})
      BY <1>3 DEF Pulses, Sensor
    <2>3. motor \in MotorStates
      BY <1>1 DEF MotorStates
    <2>4. /\ length_counter \in 0..MAX_LENGTH
          /\ Len(height_vector) + ground_debouncer <= MAX_LENGTH
          /\ ground_debouncer \in 0..(MaxGround + 1)
          /\ stops \in 0..MaxStops
      BY <1>1, Bounds
    <2>5. /\ pc \in {"poll", "sampling", "sampled", "measured", "evaluating",
                    "identified", "failed"}
          /\ pc # "evaluating"
      BY <1>1
    <2>6. /\ readings \subseteq Readings
          /\ height_vector \in Seq(Readings \cup {UNDEFINED})
          /\ last_type \in PukTypes \cup {0, UNDEFINED}
          /\ standing \in Nat
      BY <1>1
    <2>7. is_stopped \in BOOLEAN /\ overtaken \in BOOLEAN /\ ignored \in BOOLEAN
      BY <1>1
    <2> QED BY <2>1, <2>2, <2>3, <2>4, <2>5, <2>6, <2>7 DEF TypeOK
  <1>5. LengthInv /\ SaidInv /\ StandInv
    BY <1>1 DEF LengthInv, SaidInv, StandInv
  <1>6. MotorInv /\ StopHeard
    <2>1. queue # <<>> /\ Head(queue) = "MOTOR_START_ERR"
      BY <1>1
    <2>2. Resumed = "Idle" /\ motorHistory.error = "none"
      BY <1>1 DEF Resumed
    <2> QED BY <1>1, <2>1, <2>2
            DEF MotorInv, HistoryInv, StopHeard, MotorStates, RunningStates
  <1>7. SlowInv
    <2>1. /\ Free(queue, {"HEIGHT_SENSOR_MEASURE_START"}) /\ Free(queue, {"MOTOR_SLOW"})
      BY <1>1 DEF Free
    <2>2. Speed # "Slow"
      BY <1>1 DEF Speed, Resumed
    <2> QED BY <2>1, <2>2 DEF SlowInv, Released, Commanded
  <1> QED BY <1>4, <1>5, <1>6, <1>7 DEF Inv

-----------------------------------------------------------------------------
\* The belt, as the pulses reach it.

\* The motor goes back to what it has saved.  It becomes slow only by
\* MOTOR_SLOW, and misses a release only while it stands.
LEMMA MotorHistories ==
    ASSUME HistoryInv, NEW e \in MotorEvents, MotorHandle(e),
           motorHistory.error = "none" => motor = "Idle" /\ e = "MOTOR_START_ERR"
    PROVE  /\ HistoryInv' /\ motorHistory'.error # "none"
           /\ Speed' = "Slow" => Speed = "Slow" \/ e = "MOTOR_SLOW"
           /\ e = "TIMER_MEASURE_OUT" /\ Speed' = "Slow" => Stands /\ Speed = "Slow"
  <1> DEFINE s == MotorAfter(e)
  <1>1. /\ motor' = s
        /\ motorHistory'.error = IF s = "Stop_Error" THEN motorHistory.error ELSE s
        /\ motorHistory'.speeds = IF s \in RunningStates THEN s ELSE motorHistory.speeds
    BY DEF MotorHandle, MotorEnter
  <1>2. /\ motor \in {"Idle", "Stop", "Normal", "Slow", "Stop_Error"}
        /\ motor # "Stop_Error" => motorHistory.error \in {"none", motor}
        /\ Resumed = IF motor = "Stop_Error" THEN motorHistory.error ELSE motor
        /\ Resumed \in {"Idle", "Stop", "Normal", "Slow"}
        /\ Resumed \in {"Normal", "Slow"} => motorHistory.speeds = Resumed
        /\ Resumed = "Stop" => motorHistory.speeds \in {"Normal", "Slow"}
        /\ Speed = IF Resumed = "Stop" THEN motorHistory.speeds ELSE Resumed
    BY DEF HistoryInv, Resumed, Speed, MotorStates, RunningStates
  <1>3. e \in {"MOTOR_NORMAL", "MOTOR_SLOW", "MOTOR_START", "MOTOR_STOP", "MOTOR_IDLE",
               "TIMER_MEASURE_OUT", "MOTOR_STOP_ERR", "MOTOR_START_ERR"}
    BY PulseSets
  <1>4. s \in {"Idle", "Stop", "Normal", "Slow", "Stop_Error"}
    BY <1>2, <1>3 DEF MotorAfter, RunningStates
  <1>5. CASE s = "Stop_Error"
    <2>1. motorHistory'.error = Resumed /\ motorHistory'.error # "none"
      BY <1>1, <1>2, <1>5 DEF MotorAfter, RunningStates
    <2>2. /\ motor' = "Stop_Error" /\ motorHistory'.speeds = motorHistory.speeds
      BY <1>1, <1>5 DEF RunningStates
    <2>3. Resumed' = Resumed /\ Speed' = Speed
      BY <2>1, <2>2 DEF Resumed, Speed
    <2>4. e = "TIMER_MEASURE_OUT" => Stands
      BY <1>2, <1>5 DEF MotorAfter, Stands, RunningStates
    <2>5. HistoryInv'
      BY <1>2, <2>2, <2>3 DEF HistoryInv, MotorStates, RunningStates
    <2> QED BY <2>1, <2>3, <2>4, <2>5
  <1>6. CASE s # "Stop_Error"
    <2>1. /\ motor' = s /\ motorHistory'.error = s
          /\ motorHistory'.speeds = IF s \in {"Normal", "Slow"} THEN s ELSE motorHistory.speeds
      BY <1>1, <1>6 DEF RunningStates
    <2>2. Resumed' = s
      BY <1>6, <2>1 DEF Resumed
    <2>3. s = "Stop" => motorHistory.speeds \in {"Normal", "Slow"} /\ Speed = motorHistory.speeds
      BY <1>2, <1>3 DEF MotorAfter, RunningStates
    <2>4. HistoryInv'
      BY <1>4, <1>6, <2>1, <2>2, <2>3 DEF HistoryInv, MotorStates, RunningStates
    <2>5. Speed' = IF s = "Stop" THEN motorHistory.speeds ELSE s
      BY <2>1, <2>2 DEF Speed
    <2>6. s = "Slow" => Speed = "Slow" \/ e = "MOTOR_SLOW"
      BY <1>2, <1>3 DEF MotorAfter, RunningStates
    <2>7. e = "TIMER_MEASURE_OUT" /\ s = "Slow" => FALSE
      BY <1>2 DEF MotorAfter, RunningStates
    <2>8. e = "TIMER_MEASURE_OUT" /\ s = "Stop" => Stands
      BY <1>2 DEF MotorAfter, RunningStates, Stands
    <2> HIDE DEF s
    <2>9. motorHistory'.error # "none"
      BY <1>4, <2>1
    <2> QED BY <2>3, <2>4, <2>5, <2>6, <2>7, <2>8, <2>9
  <1> QED BY <1>5, <1>6

\* The motor, its history and the queue without a new speed in it.
LEMMA MotorKept ==
    ASSUME motorVars' = motorVars
    PROVE  /\ motor' = motor /\ motorHistory' = motorHistory
           /\ Resumed' = Resumed /\ Speed' = Speed /\ (Stands' <=> Stands)
           /\ HistoryInv => HistoryInv'
  <1>1. motor' = motor /\ motorHistory' = motorHistory
    BY DEF motorVars
  <1>2. Resumed' = Resumed
    BY <1>1 DEF Resumed
  <1>3. Speed' = Speed
    BY <1>1, <1>2 DEF Speed
  <1>4. Stands' <=> Stands
    BY <1>1 DEF Stands
  <1>5. HistoryInv => HistoryInv'
    BY <1>1, <1>2 DEF HistoryInv
  <1> QED BY <1>1, <1>2, <1>3, <1>4, <1>5

\* A pulse is appended that does not report a speed.
LEMMA AppendKeeps ==
    ASSUME Inv, NEW e \in Pulses, e \notin SpeedEvents,
           queue' = Append(queue, e), UNCHANGED <<motorVars, is_stopped>>
    PROVE  queue' \in Seq(Pulses) /\ MotorInv' /\ StopHeard'
  <1>1. queue \in Seq(Pulses)
    BY DEF Inv, TypeOK, Pulses, Sensor
  <1>2. queue' \in Seq(Pulses)
    BY <1>1
  <1>3. queue # <<>> => queue' # <<>> /\ Head(queue') = Head(queue)
    BY <1>1
  <1>4. /\ motor' = motor /\ motorHistory' = motorHistory /\ is_stopped' = is_stopped
        /\ (Stands' <=> Stands) /\ (HistoryInv => HistoryInv')
    BY MotorKept
  <1>5. MotorInv'
    BY <1>3, <1>4 DEF Inv, MotorInv
  <1>6. StopHeard'
    <2> SUFFICES ASSUME Stands', motorHistory'.error # "none"
                 PROVE  Commanded(queue', "SPEED_STOP", SpeedEvents, is_stopped')
      BY DEF StopHeard
    <2>1. Commanded(queue, "SPEED_STOP", SpeedEvents, is_stopped)
      BY <1>4 DEF Inv, StopHeard
    <2>2. Commanded(Append(queue, e), "SPEED_STOP", SpeedEvents, is_stopped)
      BY <1>1, <2>1, CommandedAppend
    <2> QED BY <1>4, <2>2
  <1> QED BY <1>2, <1>5, <1>6

\* Nothing happens to the queue.
LEMMA WaitKeeps ==
    ASSUME Inv, UNCHANGED <<motorVars, queue, is_stopped>>
    PROVE  queue' \in Seq(Pulses) /\ MotorInv' /\ StopHeard'
  <1>1. queue \in Seq(Pulses)
    BY DEF Inv, TypeOK, Pulses, Sensor
  <1>2. /\ motor' = motor /\ motorHistory' = motorHistory /\ queue' = queue
        /\ is_stopped' = is_stopped /\ (Stands' <=> Stands) /\ (HistoryInv => HistoryInv')
    BY MotorKept
  <1>3. MotorInv' /\ StopHeard'
    BY <1>2 DEF Inv, MotorInv, StopHeard
  <1> QED BY <1>1, <1>2, <1>3

\* The motor follows a command and reports its speed.
LEMMA MotorStep ==
    ASSUME Inv, DispatchMotor, queue # <<>>
    PROVE  /\ queue' \in Seq(Pulses) /\ MotorInv' /\ StopHeard'
           /\ Head(queue) \in MotorEvents
           /\ \E speed \in SpeedEvents : /\ queue' = Tail(queue) \o <<speed>>
                                         /\ Stands' => speed = "SPEED_STOP"
           /\ Speed' = "Slow" => Speed = "Slow" \/ Head(queue) = "MOTOR_SLOW"
           /\ Head(queue) = "TIMER_MEASURE_OUT" /\ Speed' = "Slow" => ignored'
           /\ Head(queue) # "TIMER_MEASURE_OUT" => ignored' = ignored
  <1> DEFINE e == Head(queue)
             s == MotorAfter(e)
             speed == MotorSpeed(s)
  <1>1. queue \in Seq(Pulses)
    BY DEF Inv, TypeOK, Pulses, Sensor
  <1>2. /\ e \in MotorEvents /\ MotorHandle(e)
        /\ queue' = Tail(queue) \o <<speed>> /\ motor' = s
        /\ ignored' = IF e = "TIMER_MEASURE_OUT" THEN Stands /\ Speed = "Slow" ELSE ignored
    BY DEF DispatchMotor, MotorSent, MotorHandle, MotorEnter
  <1>3. /\ HistoryInv
        /\ motorHistory.error = "none" => motor = "Idle" /\ e = "MOTOR_START_ERR"
    BY DEF Inv, MotorInv
  <1>4. speed \in SpeedEvents /\ (Stands' => speed = "SPEED_STOP")
    BY <1>2, PulseSets DEF MotorSpeed, Stands, RunningStates
  <1> HIDE DEF e, s, speed
  <1>5. /\ HistoryInv' /\ motorHistory'.error # "none"
        /\ Speed' = "Slow" => Speed = "Slow" \/ e = "MOTOR_SLOW"
        /\ e = "TIMER_MEASURE_OUT" /\ Speed' = "Slow" => Stands /\ Speed = "Slow"
    BY <1>2, <1>3, MotorHistories
  <1>6. Tail(queue) \in Seq(Pulses) /\ <<speed>> \in Seq(Pulses)
    BY <1>1, <1>4, PulseSets, TailElements, ShortSequences
  <1>7. queue' \in Seq(Pulses)
    BY <1>2, <1>6, Concatenation
  <1>8. MotorInv'
    BY <1>5 DEF MotorInv
  <1>9. StopHeard'
    <2> SUFFICES ASSUME Stands'
                 PROVE  Commanded(queue', "SPEED_STOP", SpeedEvents, is_stopped')
      BY DEF StopHeard
    <2>1. EndsWith(<<speed>>, "SPEED_STOP", SpeedEvents)
      <3>1. <<speed>>[1] = "SPEED_STOP" /\ DOMAIN <<speed>> = {1}
        BY <1>4
      <3> QED BY <3>1 DEF EndsWith
    <2> QED BY <1>1, <1>2, <1>6, <2>1, CommandedSent
  <1>10. e = "TIMER_MEASURE_OUT" /\ Speed' = "Slow" => ignored'
    BY <1>2, <1>5
  <1>11. e # "TIMER_MEASURE_OUT" => ignored' = ignored
    BY <1>2
  <1> QED BY <1>2, <1>4, <1>5, <1>7, <1>8, <1>9, <1>10, <1>11 DEF e

\* Any other pulse leaves the queue, and at most MOTOR_SLOW is appended; the
\* thread hears of a stop.
LEMMA OtherStep ==
    ASSUME Inv, queue # <<>>, Head(queue) \notin MotorEvents, motorVars' = motorVars,
           NEW s \in {<<>>, <<"MOTOR_SLOW">>}, queue' = Tail(queue) \o s,
           Head(queue) = "SPEED_STOP" => is_stopped',
           is_stopped /\ Head(queue) \notin SpeedEvents => is_stopped'
    PROVE  queue' \in Seq(Pulses) /\ MotorInv' /\ StopHeard'
  <1>1. queue \in Seq(Pulses)
    BY DEF Inv, TypeOK, Pulses, Sensor
  <1>2. s \in Seq(Pulses) /\ Free(s, SpeedEvents)
    <2>1. "MOTOR_SLOW" \in Pulses /\ "MOTOR_SLOW" \notin SpeedEvents
      BY PulseSets
    <2> QED BY <2>1, ShortSequences, FreeShort
  <1>3. queue' \in Seq(Pulses)
    BY <1>1, <1>2, NextQueue
  <1>4. /\ motor' = motor /\ motorHistory' = motorHistory
        /\ (Stands' <=> Stands) /\ (HistoryInv => HistoryInv')
    BY MotorKept
  <1>5. MotorInv' /\ motorHistory.error # "none"
    <2>1. Head(queue) # "MOTOR_START_ERR"
      BY PulseSets
    <2> QED BY <1>4, <2>1 DEF Inv, MotorInv
  <1>6. StopHeard'
    <2> SUFFICES ASSUME Stands'
                 PROVE  Commanded(queue', "SPEED_STOP", SpeedEvents, is_stopped')
      BY DEF StopHeard
    <2>1. Commanded(queue, "SPEED_STOP", SpeedEvents, is_stopped)
      BY <1>4, <1>5 DEF Inv, StopHeard
    <2> QED BY <1>1, <1>2, <2>1, CommandedNext
  <1> QED BY <1>3, <1>5, <1>6

-----------------------------------------------------------------------------
\* The slow belt.

\* The thread posts a pulse that is not its last one, or the belt is commanded.
LEMMA SlowAppended ==
    ASSUME Inv, NEW e \in Pulses, queue' = Append(queue, e), motorVars' = motorVars,
           UNCHANGED missedVars, Announced => Announced',
           e \in {"HEIGHT_SENSOR_MEASURE_START", "MOTOR_SLOW"} => Announced'
    PROVE  SlowInv'
  <1>1. queue \in Seq(Pulses)
    BY DEF Inv, TypeOK, Pulses, Sensor
  <1>2. /\ Speed' = Speed /\ overtaken' = overtaken /\ ignored' = ignored
    BY MotorKept DEF missedVars
  <1>3. ASSUME NEW B, B \subseteq {"HEIGHT_SENSOR_MEASURE_START", "MOTOR_SLOW"}, Released(B)
        PROVE  Released(B)'
    <2>1. CASE Announced'
      BY <2>1 DEF Released
    <2>2. CASE ~ Announced'
      <3>1. e \notin B /\ Commanded(queue, "TIMER_MEASURE_OUT", B, TRUE)
        BY <1>3, <2>2 DEF Released
      <3> QED BY <1>1, <3>1, CommandedAppend DEF Released
    <2> QED BY <2>1, <2>2
  <1>4. Free(queue', {"TIMER_MEASURE_OUT"}) => Free(queue, {"TIMER_MEASURE_OUT"})
    <2>1. queue' = queue \o <<e>> /\ <<e>> \in Seq(Pulses)
      BY <1>1, OnePulse
    <2> QED BY <1>1, <2>1, WaitsOn
  <1>5. Released({"HEIGHT_SENSOR_MEASURE_START"})'
    BY <1>3 DEF Inv, SlowInv
  <1>6. overtaken' \/ Released({"MOTOR_SLOW"})'
    BY <1>2, <1>3 DEF Inv, SlowInv
  <1> QED BY <1>2, <1>4, <1>5, <1>6 DEF Inv, SlowInv

\* A measurement ends: the release has the last word.
LEMMA SlowReleased ==
    ASSUME Inv, queue' = Append(queue, "TIMER_MEASURE_OUT")
    PROVE  SlowInv'
  <1>1. queue \in Seq(Pulses) /\ "TIMER_MEASURE_OUT" \in Pulses
    BY PulseSets DEF Inv, TypeOK, Pulses, Sensor
  <1>2. /\ DOMAIN queue' = 1..(Len(queue) + 1) /\ Len(queue) \in Nat
        /\ queue'[Len(queue) + 1] = "TIMER_MEASURE_OUT"
    BY <1>1, Appending
  <1>3. \A B : EndsWith(queue', "TIMER_MEASURE_OUT", B)
    BY <1>2 DEF EndsWith
  <1>4. ~ Free(queue', {"TIMER_MEASURE_OUT"})
    BY <1>2 DEF Free
  <1> QED BY <1>3, <1>4 DEF SlowInv, Released, Commanded

\* Nothing is asked of the belt.
LEMMA SlowKept ==
    ASSUME SlowInv, UNCHANGED <<queue, motorVars, missedVars>>, Announced => Announced'
    PROVE  SlowInv'
  <1>1. /\ queue' = queue /\ Speed' = Speed /\ overtaken' = overtaken
        /\ ignored' = ignored
    BY MotorKept DEF missedVars
  <1>2. \A B : Released(B) => Commanded(queue', "TIMER_MEASURE_OUT", B, TRUE) \/ Announced'
    BY <1>1 DEF Released
  <1> QED BY <1>1, <1>2 DEF SlowInv, Released

\* The release is the last word on B, whatever is dispatched.
LEMMA ReleasedNext ==
    ASSUME NEW q \in Seq(Pulses), q # <<>>, NEW t \in Seq(Pulses), NEW B, Free(t, B),
           Released(B), queue = q, queue' = Tail(q) \o t, Announced => Announced'
    PROVE  Released(B)'
  <1>1. CASE Announced
    BY <1>1 DEF Released
  <1>2. CASE Commanded(queue, "TIMER_MEASURE_OUT", B, TRUE)
    <2>1. Commanded(Tail(q) \o t, "TIMER_MEASURE_OUT", B, TRUE)
      BY <1>2, CommandedNext
    <2> QED BY <2>1 DEF Released
  <1> QED BY <1>1, <1>2 DEF Released

\* The belt becomes slow in a measurement, or its release is behind MOTOR_SLOW;
\* it is still slow after its release when this was ignored.
LEMMA SlowCommanded ==
    ASSUME Inv, DispatchMotor, queue # <<>>, Announced => Announced'
    PROVE  SlowInv'
  <1> DEFINE e == Head(queue)
             O == "TIMER_MEASURE_OUT"
  <1>1. queue \in Seq(Pulses)
    BY DEF Inv, TypeOK, Pulses, Sensor
  <1>2. PICK speed \in SpeedEvents : queue' = Tail(queue) \o <<speed>>
    BY MotorStep
  <1>3. /\ Speed' = "Slow" => Speed = "Slow" \/ e = "MOTOR_SLOW"
        /\ e = O /\ Speed' = "Slow" => ignored'
        /\ e # O => ignored' = ignored
    BY MotorStep
  <1>4. overtaken' = overtaken
    BY DEF DispatchMotor
  <1>5. /\ <<speed>> \in Seq(Pulses) /\ Tail(queue) \in Seq(Pulses)
        /\ Free(<<speed>>, {"HEIGHT_SENSOR_MEASURE_START"}) /\ Free(<<speed>>, {"MOTOR_SLOW"})
    <2>1. /\ speed \in Pulses
          /\ speed \notin {"HEIGHT_SENSOR_MEASURE_START"} /\ speed \notin {"MOTOR_SLOW"}
      BY PulseSets
    <2> QED BY <1>1, <2>1, TailElements, ShortSequences, FreeShort
  <1> HIDE DEF e
  <1>6. Released({"HEIGHT_SENSOR_MEASURE_START"})'
    BY <1>1, <1>2, <1>5, ReleasedNext DEF Inv, SlowInv
  <1>7. overtaken' \/ Released({"MOTOR_SLOW"})'
    BY <1>1, <1>2, <1>4, <1>5, ReleasedNext DEF Inv, SlowInv
  <1>8. ASSUME Speed' = "Slow"
        PROVE  overtaken' \/ ignored' \/ Announced' \/ ~ Free(queue', {O})
    <2>1. ASSUME e # O, ~ Free(queue, {O})
          PROVE  ~ Free(queue', {O})
      BY <1>1, <1>2, <1>5, <2>1, StillWaits, WaitsOn DEF e
    <2>2. CASE e = O
      BY <1>3, <1>8, <2>2
    <2>3. CASE e = "MOTOR_SLOW"
      <3>1. overtaken \/ Released({"MOTOR_SLOW"})
        BY DEF Inv, SlowInv
      <3>2. CASE Commanded(queue, O, {"MOTOR_SLOW"}, TRUE)
        <4>1. ~ Free(queue, {O})
          BY <1>1, <2>3, <3>2, LastWordWaits DEF e
        <4> QED BY <2>1, <2>3, <4>1
      <3> QED BY <1>4, <3>1, <3>2 DEF Released
    <2>4. CASE e # O /\ e # "MOTOR_SLOW"
      <3>1. Speed = "Slow"
        BY <1>3, <1>8, <2>4
      <3>2. overtaken \/ ignored \/ Announced \/ ~ Free(queue, {O})
        BY <3>1 DEF Inv, SlowInv
      <3>3. ignored' = ignored
        BY <1>3, <2>4
      <3> QED BY <1>4, <2>1, <2>4, <3>2, <3>3
    <2> QED BY <2>2, <2>3, <2>4
  <1> QED BY <1>6, <1>7, <1>8 DEF SlowInv

\* The start of a measurement asks for the slow belt.
LEMMA SlowAsked ==
    ASSUME Inv, DispatchStart, queue # <<>>, Announced => Announced'
    PROVE  SlowInv'
  <1> DEFINE O == "TIMER_MEASURE_OUT"
             S == "HEIGHT_SENSOR_MEASURE_START"
             over == O \in Range(queue)
  <1>1. queue \in Seq(Pulses) /\ Tail(queue) \in Seq(Pulses)
    BY TailElements DEF Inv, TypeOK, Pulses, Sensor
  <1>2. /\ Head(queue) = S /\ ignored' = ignored /\ motorVars' = motorVars
        /\ \/ queue' = Append(Tail(queue), "MOTOR_SLOW") /\ overtaken' = over
           \/ queue' = Tail(queue) /\ overtaken' = (overtaken /\ over)
    BY DEF DispatchStart
  <1>3. over <=> ~ Free(queue, {O})
    BY InQueue
  <1> HIDE DEF over
  <1>4. PICK t \in {<<>>, <<"MOTOR_SLOW">>} :
            /\ queue' = Tail(queue) \o t
            /\ t = <<>> => overtaken' = (overtaken /\ over)
            /\ t # <<>> => overtaken' = over
    <2>1. "MOTOR_SLOW" \in Pulses
      BY PulseSets
    <2>2. Tail(queue) \o <<>> = Tail(queue)
      BY <1>1
    <2>3. Tail(queue) \o <<"MOTOR_SLOW">> = Append(Tail(queue), "MOTOR_SLOW")
      BY <1>1, <2>1, OnePulse
    <2>4. <<"MOTOR_SLOW">> # <<>>
      OBVIOUS
    <2> QED BY <1>2, <2>2, <2>3, <2>4
  <1>5. t \in Seq(Pulses) /\ Free(t, {S}) /\ (t = <<>> => Free(t, {"MOTOR_SLOW"}))
    <2>1. "MOTOR_SLOW" \in Pulses /\ "MOTOR_SLOW" \notin {S}
      BY PulseSets
    <2> QED BY <2>1, ShortSequences, FreeShort
  <1>6. over => ~ Free(queue', {O})
    BY <1>1, <1>2, <1>3, <1>4, <1>5, StillWaits, WaitsOn
  <1>7. Announced \/ over
    <2> SUFFICES ASSUME ~ Announced PROVE over
      OBVIOUS
    <2>1. Commanded(queue, O, {S}, TRUE)
      BY DEF Inv, SlowInv, Released
    <2>2. Head(queue) \in {S} /\ Head(queue) # O
      BY <1>2
    <2> QED BY <1>1, <1>3, <2>1, <2>2, LastWordWaits
  <1>8. Released({S})'
    BY <1>1, <1>4, <1>5, ReleasedNext DEF Inv, SlowInv
  <1>9. overtaken' \/ Released({"MOTOR_SLOW"})'
    <2>1. CASE Announced
      BY <2>1 DEF Released
    <2>2. CASE over /\ t # <<>>
      BY <1>4, <2>2
    <2>3. CASE over /\ t = <<>>
      <3>1. overtaken' = (overtaken /\ over) /\ Free(t, {"MOTOR_SLOW"})
        BY <1>4, <1>5, <2>3
      <3>2. overtaken \/ Released({"MOTOR_SLOW"})
        BY DEF Inv, SlowInv
      <3>3. Released({"MOTOR_SLOW"}) => Released({"MOTOR_SLOW"})'
        BY <1>1, <1>4, <1>5, <3>1, ReleasedNext
      <3> QED BY <2>3, <3>1, <3>2, <3>3
    <2> QED BY <1>7, <2>1, <2>2, <2>3
  <1> QED BY <1>6, <1>7, <1>8, <1>9 DEF SlowInv

\* No other pulse concerns the belt.
LEMMA SlowPassed ==
    ASSUME Inv, queue # <<>>, Head(queue) # "TIMER_MEASURE_OUT", queue' = Tail(queue),
           UNCHANGED <<motorVars, missedVars>>, Announced => Announced'
    PROVE  SlowInv'
  <1>1. queue \in Seq(Pulses) /\ Tail(queue) \in Seq(Pulses)
    BY TailElements DEF Inv, TypeOK, Pulses, Sensor
  <1>2. queue' = Tail(queue) \o <<>> /\ <<>> \in Seq(Pulses)
    BY <1>1
  <1>3. Free(<<>>, {"HEIGHT_SENSOR_MEASURE_START"}) /\ Free(<<>>, {"MOTOR_SLOW"})
    BY FreeShort
  <1>4. Released({"HEIGHT_SENSOR_MEASURE_START"})'
    BY <1>1, <1>2, <1>3, ReleasedNext DEF Inv, SlowInv
  <1>5. /\ Speed' = Speed /\ overtaken' = overtaken /\ ignored' = ignored
    BY MotorKept DEF missedVars
  <1>6. overtaken' \/ Released({"MOTOR_SLOW"})'
    BY <1>1, <1>2, <1>3, <1>5, ReleasedNext DEF Inv, SlowInv
  <1>7. Free(queue', {"TIMER_MEASURE_OUT"}) => Free(queue, {"TIMER_MEASURE_OUT"})
    BY <1>1, StillWaits
  <1> QED BY <1>4, <1>5, <1>6, <1>7 DEF Inv, SlowInv

LEMMA SlowDispatched ==
    ASSUME Inv, Dispatch, threadVars' = threadVars
    PROVE  SlowInv'
  <1>1. Announced => Announced'
    BY DEF Announced, threadVars
  <1>2. queue # <<>>
    BY DEF Dispatch
  <1>3. CASE DispatchMotor
    BY <1>1, <1>2, <1>3, SlowCommanded
  <1>4. CASE DispatchStart
    BY <1>1, <1>2, <1>4, SlowAsked
  <1>5. CASE DispatchSpeed \/ DispatchResult
    <2>1. Head(queue) # "TIMER_MEASURE_OUT" /\ queue' = Tail(queue)
      BY <1>5, PulseSets DEF DispatchSpeed, DispatchResult
    <2>2. motorVars' = motorVars /\ missedVars' = missedVars
      BY <1>5 DEF DispatchSpeed, DispatchResult
    <2> QED BY <1>1, <1>2, <2>1, <2>2, SlowPassed
  <1> QED BY <1>3, <1>4, <1>5 DEF Dispatch

-----------------------------------------------------------------------------
\* The standing belt.

\* A pulse that is not of a speed says no speed.
LEMMA NoSpeedAppended ==
    ASSUME NEW q \in Seq(Pulses), NEW e \in Pulses \ SpeedEvents,
           Free(q, {"SPEED_NORMAL", "SPEED_SLOW"})
    PROVE  Free(Append(q, e), {"SPEED_NORMAL", "SPEED_SLOW"})
  <1> DEFINE B == {"SPEED_NORMAL", "SPEED_SLOW"}
  <1>1. e \in Pulses /\ e \notin B
    BY PulseSets
  <1>2. Free(q, B)
    OBVIOUS
  <1> HIDE DEF B
  <1>3. Free(Append(q, e), B)
    BY <1>1, <1>2, FreeAppended
  <1> QED BY <1>3 DEF B

\* A belt that stands, with no pulse for the thread on its way.
LEMMA StandKept ==
    ASSUME Inv, standing' = standing, UNCHANGED <<motorVars, is_stopped>>,
           pc' # "sampling" \/ standing = 0,
           queue' = queue \/ \E e \in Pulses \ SpeedEvents : queue' = Append(queue, e)
    PROVE  StandInv'
  <1>1. queue \in Seq(Pulses)
    BY DEF Inv, TypeOK, Pulses, Sensor
  <1>2. (Stands' <=> Stands) /\ is_stopped' = is_stopped
    BY MotorKept
  <1>3. Free(queue, {"SPEED_NORMAL", "SPEED_SLOW"}) =>
            Free(queue', {"SPEED_NORMAL", "SPEED_SLOW"})
    <2>1. CASE queue' = queue
      BY <2>1
    <2>2. CASE \E e \in Pulses \ SpeedEvents : queue' = Append(queue, e)
      BY <1>1, <2>2, NoSpeedAppended
    <2> QED BY <2>1, <2>2
  <1> QED BY <1>2, <1>3 DEF Inv, StandInv

\* What the dispatcher does while a belt stands.
LEMMA StandDispatched ==
    ASSUME Inv, Dispatch, threadVars' = threadVars
    PROVE  StandInv'
  <1> DEFINE B == {"SPEED_NORMAL", "SPEED_SLOW"}
  <1>1. queue \in Seq(Pulses) /\ queue # <<>> /\ Tail(queue) \in Seq(Pulses)
    BY TailElements DEF Inv, TypeOK, Pulses, Sensor, Dispatch
  <1>2. pc' = pc
    BY DEF threadVars
  <1>3. /\ standing \in 0..1
        /\ standing = 1 => Stands /\ is_stopped /\ pc # "sampling" /\ Free(queue, B)
    BY DEF Inv, StandInv
  <1>4. standing = 1 => Head(queue) \notin B /\ Free(Tail(queue), B)
    BY <1>1, <1>3, FreeTail
  <1>5. CASE DispatchMotor
    <2>1. /\ standing' = IF Stands' THEN standing ELSE 0
          /\ is_stopped' = is_stopped
      BY <1>5 DEF DispatchMotor, Stands
    <2>2. PICK speed \in SpeedEvents : /\ queue' = Tail(queue) \o <<speed>>
                                       /\ Stands' => speed = "SPEED_STOP"
      BY <1>1, <1>5, MotorStep
    <2>3. standing' = 1 => Free(queue', B)
      <3> SUFFICES ASSUME standing' = 1 PROVE Free(queue', B)
        OBVIOUS
      <3>1. Stands' /\ standing = 1
        BY <2>1
      <3>2. speed \in Pulses /\ speed \notin B
        BY <2>2, <3>1, PulseSets
      <3>3. <<speed>> \in Seq(Pulses) /\ Free(<<speed>>, B)
        BY <3>2, ShortSequences, FreeShort
      <3> QED BY <1>1, <1>4, <2>2, <3>1, <3>3, FreeConcatenation
    <2>4. standing' \in 0..1 /\ (standing' = 1 => Stands' /\ standing = 1)
      BY <1>3, <2>1
    <2> QED BY <1>2, <1>3, <2>1, <2>3, <2>4 DEF StandInv
  <1>6. CASE DispatchSpeed
    <2>1. /\ standing' = standing /\ motorVars' = motorVars /\ queue' = Tail(queue)
          /\ Head(queue) \in SpeedEvents
          /\ is_stopped' = (Head(queue) = "SPEED_STOP")
      BY <1>6 DEF DispatchSpeed
    <2>2. Stands' <=> Stands
      BY <2>1, MotorKept
    <2>3. standing = 1 => Head(queue) = "SPEED_STOP"
      BY <1>4, <2>1, PulseSets
    <2> QED BY <1>2, <1>3, <1>4, <2>1, <2>2, <2>3 DEF StandInv
  <1>7. CASE DispatchStart \/ DispatchResult
    <2>1. /\ standing' = standing /\ motorVars' = motorVars /\ is_stopped' = is_stopped
          /\ queue' = Tail(queue) \/ queue' = Append(Tail(queue), "MOTOR_SLOW")
      BY <1>7 DEF DispatchStart, DispatchResult
    <2>2. Stands' <=> Stands
      BY <2>1, MotorKept
    <2>3. standing = 1 => Free(queue', B)
      <3>1. "MOTOR_SLOW" \in Pulses \ SpeedEvents
        BY PulseSets
      <3>2. CASE queue' = Tail(queue)
        BY <1>4, <3>2
      <3>3. CASE queue' = Append(Tail(queue), "MOTOR_SLOW")
        BY <1>1, <1>4, <3>1, <3>3, NoSpeedAppended
      <3> QED BY <2>1, <3>2, <3>3
    <2> QED BY <1>2, <1>3, <2>1, <2>2, <2>3 DEF StandInv
  <1> QED BY <1>5, <1>6, <1>7 DEF Dispatch

-----------------------------------------------------------------------------
\* Every step keeps the invariant.

\* What the belt does keeps TypeOK.
LEMMA BeltTyped ==
    ASSUME TypeOK, UNCHANGED <<threadVars, last_type, height_diff>>,
           MotorInv', queue' \in Seq(Pulses), is_stopped' \in BOOLEAN, standing' \in Nat,
           overtaken' \in BOOLEAN, ignored' \in BOOLEAN, stops' \in 0..MaxStops
    PROVE  TypeOK'
  <1>1. motor' \in MotorStates
    BY DEF MotorInv, HistoryInv
  <1>2. queue' \in Seq(Event \cup {"HEIGHT_SENSOR_MEASURE_START", "IDENTIFIED_PUK"})
    BY DEF Pulses, Sensor
  <1>3. /\ pc' = pc /\ readings' = readings /\ height_vector' = height_vector
        /\ length_counter' = length_counter /\ ground_debouncer' = ground_debouncer
        /\ last_type' = last_type /\ height_diff' = height_diff
    BY DEF threadVars
  <1> QED BY <1>1, <1>2, <1>3 DEF TypeOK

\* What the belt does changes nothing the measurement knows.
LEMMA BeltMeasures ==
    ASSUME LengthInv, SaidInv, threadVars' = threadVars
    PROVE  LengthInv' /\ SaidInv' /\ (Announced => Announced')
  <1>1. /\ pc' = pc /\ height_vector' = height_vector /\ said' = said
        /\ length_counter' = length_counter /\ ground_debouncer' = ground_debouncer
    BY DEF threadVars
  <1> QED BY <1>1 DEF LengthInv, SaidInv, Announced

LEMMA Dispatched ==
    ASSUME Inv, Dispatch
    PROVE  Inv'
  <1>1. threadVars' = threadVars
    BY DEF Dispatch, DispatchMotor, DispatchSpeed, DispatchStart, DispatchResult, Elsewhere
  <1>2. last_type' = last_type /\ height_diff' = height_diff /\ stops' = stops
    BY DEF Dispatch, DispatchMotor, DispatchSpeed, DispatchStart, DispatchResult, Elsewhere
  <1>3. queue # <<>> /\ queue \in Seq(Pulses)
    BY DEF Dispatch, Inv, TypeOK, Pulses, Sensor
  <1>4. queue' \in Seq(Pulses) /\ MotorInv' /\ StopHeard'
    <2>1. CASE DispatchMotor
      BY <1>3, <2>1, MotorStep
    <2>2. CASE DispatchSpeed
      <3>1. Head(queue) \in SpeedEvents /\ Head(queue) \notin MotorEvents
        BY <2>2, PulseSets DEF DispatchSpeed
      <3>2. motorVars' = motorVars /\ queue' = Tail(queue) \o <<>>
        BY <1>3, <2>2, TailElements DEF DispatchSpeed
      <3>3. Head(queue) = "SPEED_STOP" => is_stopped'
        BY <2>2 DEF DispatchSpeed
      <3> QED BY <1>3, <3>1, <3>2, <3>3, OtherStep
    <2>3. CASE DispatchStart \/ DispatchResult
      <3>1. Head(queue) \notin MotorEvents /\ Head(queue) # "SPEED_STOP"
        BY <2>3, PulseSets DEF DispatchStart, DispatchResult
      <3>2. /\ motorVars' = motorVars /\ is_stopped' = is_stopped
            /\ queue' = Tail(queue) \/ queue' = Append(Tail(queue), "MOTOR_SLOW")
        BY <2>3 DEF DispatchStart, DispatchResult
      <3>3. PICK s \in {<<>>, <<"MOTOR_SLOW">>} : queue' = Tail(queue) \o s
        <4>1. "MOTOR_SLOW" \in Pulses /\ Tail(queue) \in Seq(Pulses)
          BY <1>3, PulseSets, TailElements
        <4>2. Tail(queue) \o <<>> = Tail(queue)
          BY <4>1
        <4>3. Tail(queue) \o <<"MOTOR_SLOW">> = Append(Tail(queue), "MOTOR_SLOW")
          BY <4>1, OnePulse
        <4> QED BY <3>2, <4>2, <4>3
      <3> QED BY <1>3, <3>1, <3>2, <3>3, OtherStep
    <2> QED BY <2>1, <2>2, <2>3 DEF Dispatch
  <1>5. is_stopped' \in BOOLEAN /\ overtaken' \in BOOLEAN /\ ignored' \in BOOLEAN
    <2>1. is_stopped \in BOOLEAN /\ overtaken \in BOOLEAN /\ ignored \in BOOLEAN
      BY DEF Inv, TypeOK
    <2>2. CASE DispatchMotor
      BY <2>1, <2>2 DEF DispatchMotor
    <2>3. CASE DispatchSpeed
      BY <2>1, <2>3 DEF DispatchSpeed, missedVars
    <2>4. CASE DispatchStart
      <3> DEFINE over == "TIMER_MEASURE_OUT" \in Range(queue)
      <3>1. /\ is_stopped' = is_stopped /\ ignored' = ignored
            /\ overtaken' = over \/ overtaken' = (overtaken /\ over)
        BY <2>4 DEF DispatchStart
      <3>2. over \in BOOLEAN
        OBVIOUS
      <3> HIDE DEF over
      <3>3. overtaken' \in BOOLEAN
        BY <2>1, <3>1, <3>2, Zenon
      <3> QED BY <2>1, <3>1, <3>3
    <2>5. CASE DispatchResult
      BY <2>1, <2>5 DEF DispatchResult, missedVars
    <2> QED BY <2>2, <2>3, <2>4, <2>5 DEF Dispatch
  <1>6. StandInv'
    BY <1>1, StandDispatched
  <1>7. standing' \in Nat /\ stops' \in 0..MaxStops
    BY <1>2, <1>6 DEF StandInv, Inv, TypeOK
  <1>8. TypeOK'
    BY <1>1, <1>2, <1>4, <1>5, <1>7, BeltTyped DEF Inv
  <1>9. LengthInv' /\ SaidInv'
    BY <1>1, BeltMeasures DEF Inv
  <1>10. SlowInv'
    BY <1>1, SlowDispatched
  <1> QED BY <1>4, <1>6, <1>8, <1>9, <1>10 DEF Inv

\* The first puk, one at the exit, an error, or a person.
LEMMA Posted ==
    ASSUME Inv, Start \/ Stop \/ GoOn
    PROVE  Inv'
  <1>1. PICK e \in {"MOTOR_NORMAL", "MOTOR_STOP", "MOTOR_START", "MOTOR_STOP_ERR",
                    "MOTOR_START_ERR"} : Post(e)
    BY DEF Start, Stop, GoOn
  <1>2. /\ threadVars' = threadVars /\ last_type' = last_type
        /\ height_diff' = height_diff /\ missedVars' = missedVars
        /\ is_stopped' = is_stopped /\ standing' = standing
        /\ motorVars' = motorVars /\ queue' = Append(queue, e)
    BY <1>1 DEF Post
  <1>3. /\ e \in Pulses /\ e \notin SpeedEvents
        /\ e \notin {"HEIGHT_SENSOR_MEASURE_START", "MOTOR_SLOW"}
    BY <1>1, PulseSets
  <1>4. queue' \in Seq(Pulses) /\ MotorInv' /\ StopHeard'
    BY <1>2, <1>3, AppendKeeps
  <1>5. stops' \in 0..MaxStops
    BY Bounds DEF Start, Stop, GoOn, Inv, TypeOK
  <1>6. StandInv'
    <2>1. pc' = pc
      BY <1>2 DEF threadVars
    <2>2. pc' # "sampling" \/ standing = 0
      BY <2>1 DEF Inv, StandInv
    <2> QED BY <1>2, <1>3, <2>2, StandKept
  <1>7. TypeOK'
    <2>1. /\ is_stopped' \in BOOLEAN /\ standing' \in Nat
          /\ overtaken' \in BOOLEAN /\ ignored' \in BOOLEAN
      BY <1>2 DEF Inv, TypeOK, missedVars
    <2> QED BY <1>2, <1>4, <1>5, <2>1, BeltTyped DEF Inv
  <1>8. LengthInv' /\ SaidInv' /\ (Announced => Announced')
    BY <1>2, BeltMeasures DEF Inv
  <1>9. SlowInv'
    BY <1>2, <1>3, <1>8, SlowAppended
  <1> QED BY <1>4, <1>6, <1>7, <1>8, <1>9 DEF Inv

\* What the thread does keeps TypeOK.
LEMMA ThreadTyped ==
    ASSUME TypeOK, UNCHANGED <<motorVars, is_stopped, height_diff, stops, missedVars>>,
           queue' \in Seq(Pulses), standing' \in Nat,
           pc' \in {"poll", "sampling", "sampled", "measured", "evaluating",
                    "identified", "failed"},
           readings' \subseteq Readings,
           height_vector' \in Seq(Readings \cup {UNDEFINED}),
           length_counter' \in 0..MAX_LENGTH,
           Len(height_vector') + ground_debouncer' <= MAX_LENGTH,
           ground_debouncer' \in 0..(MaxGround + 1),
           last_type' \in PukTypes \cup {0, UNDEFINED}
    PROVE  TypeOK'
  <1>1. queue' \in Seq(Event \cup {"HEIGHT_SENSOR_MEASURE_START", "IDENTIFIED_PUK"})
    BY DEF Pulses, Sensor
  <1>2. /\ motor' = motor /\ is_stopped' = is_stopped /\ height_diff' = height_diff
        /\ stops' = stops /\ overtaken' = overtaken /\ ignored' = ignored
    BY DEF motorVars, missedVars
  <1>3. evaluate_puk_type(height_vector', height_diff') \in PukTypes \cup {UNDEFINED}
    BY SamplesEvaluated
  <1> QED BY <1>1, <1>2, <1>3 DEF TypeOK

\* The thread posts one pulse.
LEMMA Sent ==
    ASSUME Inv, NEW e \in {"HEIGHT_SENSOR_MEASURE_START", "TIMER_MEASURE_OUT",
                           "IDENTIFIED_PUK", "ERR_UNDEFINED_PUK"},
           Send(<<e>>), UNCHANGED <<motorVars, is_stopped>>
    PROVE  /\ e \in Pulses
           /\ queue' = Append(queue, e) /\ said' = said \o <<e>>
           /\ e \notin SpeedEvents
           /\ queue' \in Seq(Pulses) /\ MotorInv' /\ StopHeard'
  <1>1. e \in Pulses /\ e \notin SpeedEvents
    BY PulseSets
  <1>2. queue \in Seq(Pulses)
    BY DEF Inv, TypeOK, Pulses, Sensor
  <1>3. queue' = Append(queue, e) /\ said' = said \o <<e>>
    BY <1>1, <1>2, OnePulse DEF Send
  <1> QED BY <1>1, <1>3, AppendKeeps

LEMMA Begun ==
    ASSUME Inv, NEW level, Begin(level)
    PROVE  Inv'
  <1>1. /\ pc = "poll" /\ ~ is_stopped /\ pc' = "sampling" /\ said' = <<>>
        /\ motorVars' = motorVars /\ queue' = queue /\ height_vector' = height_vector
        /\ length_counter' = length_counter /\ ground_debouncer' = ground_debouncer
        /\ last_type' = last_type /\ is_stopped' = is_stopped
        /\ height_diff' = height_diff /\ standing' = 0 /\ stops' = stops
        /\ missedVars' = missedVars
    BY DEF Begin
  <1>2. readings' \subseteq Readings
    <2>1. PICK puk \in Puks : readings' = puk \cup Others
      BY DEF Begin
    <2> DEFINE all == UNION Puks
    <2>2. Readings = all \cup Others
      BY DEF Readings
    <2>3. \A x \in puk : x \in all
      OBVIOUS
    <2> HIDE DEF all
    <2> QED BY <2>1, <2>2, <2>3
  <1>3. height_vector = <<>> /\ length_counter = 0 /\ ground_debouncer = 0
    BY <1>1 DEF Inv, LengthInv
  <1>4. queue' \in Seq(Pulses) /\ MotorInv' /\ StopHeard'
    BY <1>1, WaitKeeps
  <1>5. TypeOK'
    <2>1. /\ standing' \in Nat
          /\ height_vector' \in Seq(Readings \cup {UNDEFINED})
          /\ length_counter' \in 0..MAX_LENGTH
          /\ Len(height_vector') + ground_debouncer' <= MAX_LENGTH
          /\ ground_debouncer' \in 0..(MaxGround + 1)
          /\ last_type' \in PukTypes \cup {0, UNDEFINED}
      BY <1>1 DEF Inv, TypeOK
    <2> QED BY <1>1, <1>2, <1>4, <2>1, ThreadTyped DEF Inv
  <1>6. LengthInv' /\ SaidInv'
    BY <1>1, <1>3, Bounds DEF LengthInv, SaidInv
  <1>7. StandInv'
    BY <1>1 DEF StandInv
  <1>8. SlowInv'
    <2>1. ~ Announced
      BY <1>1 DEF Announced
    <2> QED BY <1>1, <2>1, SlowKept DEF Inv
  <1> QED BY <1>4, <1>5, <1>6, <1>7, <1>8 DEF Inv

\* A sample is taken, or ends the measurement.
LEMMA Sampled ==
    ASSUME Inv, NEW level, Sample(level)
    PROVE  Inv'
  <1> DEFINE S == "HEIGHT_SENSOR_MEASURE_START"
             E == "ERR_UNDEFINED_PUK"
  <1>1. /\ pc = "sampling" /\ motorVars' = motorVars /\ is_stopped' = is_stopped
        /\ readings' = readings /\ last_type' = last_type /\ stops' = stops
        /\ height_diff' = height_diff /\ length_counter' = length_counter + 1
        /\ missedVars' = missedVars
        /\ Discard(level) \/ Take(level)
    BY DEF Sample
  <1>2. /\ readings \subseteq Readings /\ height_vector \in Seq(Readings \cup {UNDEFINED})
        /\ length_counter \in Nat /\ ground_debouncer \in Nat
        /\ last_type \in PukTypes \cup {0, UNDEFINED}
    BY Bounds DEF Inv, TypeOK
  <1>3. /\ Len(height_vector) \in Nat
        /\ Len(height_vector) + ground_debouncer <= length_counter
        /\ length_counter < MAX_LENGTH /\ ground_debouncer <= MaxGround
    BY <1>1, <1>2 DEF Inv, LengthInv
  <1>4. said = IF length_counter < MIN_LENGTH THEN <<>> ELSE <<S>>
    BY <1>1 DEF Inv, SaidInv
  <1>5. queue \in Seq(Pulses)
    BY DEF Inv, TypeOK, Pulses, Sensor
  <1>6. /\ standing' \in 0..1 /\ pc' # "sampling" /\ (Stands' <=> Stands)
        /\ standing' = 1 => Stands /\ is_stopped /\ Free(queue, {"SPEED_NORMAL", "SPEED_SLOW"})
    <2>1. standing = 0
      BY <1>1 DEF Inv, StandInv
    <2>2. standing' = standing + (IF Stands /\ Told THEN 1 ELSE 0)
      BY DEF Sample
    <2>3. pc' # "sampling"
      BY <1>1 DEF Discard, Take
    <2>4. Stands' <=> Stands
      BY <1>1, MotorKept
    <2>5. standing' \in 0..1 /\ (standing' = 1 => Stands /\ Told)
      BY <2>1, <2>2
    <2>6. ASSUME Stands, Told
          PROVE  is_stopped /\ Free(queue, {"SPEED_NORMAL", "SPEED_SLOW"})
      <3>1. motorHistory.error # "none" /\ Free(queue, {"SPEED_STOP"})
        BY <2>6, InQueue DEF Told
      <3>2. Commanded(queue, "SPEED_STOP", SpeedEvents, is_stopped)
        BY <2>6, <3>1 DEF Inv, StopHeard
      <3>3. is_stopped /\ Free(queue, SpeedEvents)
        BY <3>1, <3>2 DEF Commanded, EndsWith, Free
      <3> QED BY <3>3, PulseSets, FreeMonotone
    <2> QED BY <2>3, <2>4, <2>5, <2>6
  <1>7. CASE Discard(level)
    <2>1. /\ height_vector' = <<UNDEFINED>> /\ ground_debouncer' = ground_debouncer
          /\ Send(<<E>>) /\ pc' = "measured"
      BY <1>7 DEF Discard
    <2>2. /\ said' = said \o <<E>> /\ queue' \in Seq(Pulses) /\ MotorInv' /\ StopHeard'
          /\ queue' = Append(queue, E) /\ E \in Pulses /\ E \notin SpeedEvents
      BY <1>1, <2>1, Sent
    <2>3. said' = IF length_counter < MIN_LENGTH THEN <<E>> ELSE <<S, E>>
      <3>1. S \in Pulses /\ E \in Pulses
        BY PulseSets
      <3>2. <<>> \o <<E>> = <<E>> /\ <<S>> \o <<E>> = <<S, E>>
        BY <3>1, ShortReports
      <3> QED BY <1>4, <2>2, <3>2
    <2>4. /\ height_vector' \in Seq(Readings \cup {UNDEFINED})
          /\ Len(height_vector') = 1
      BY <2>1
    <2>5. TypeOK'
      <3>1. /\ length_counter' \in 0..MAX_LENGTH
            /\ Len(height_vector') + ground_debouncer' <= MAX_LENGTH
            /\ ground_debouncer' \in 0..(MaxGround + 1)
        BY <1>1, <1>2, <1>3, <2>1, <2>4, Bounds
      <3> QED BY <1>1, <1>2, <1>6, <2>1, <2>2, <2>4, <3>1, ThreadTyped DEF Inv
    <2>6. LengthInv'
      BY <2>1 DEF LengthInv
    <2>7. SaidInv'
      BY <2>1, <2>3, <2>4, Bounds DEF SaidInv
    <2>8. Announced => Announced'
      <3>1. Announced => ~ (length_counter < MIN_LENGTH)
        BY <1>4 DEF Announced, Range
      <3>2. S \in Range(<<S, E>>)
        BY DEF Range
      <3> QED BY <2>1, <2>3, <3>1, <3>2 DEF Announced
    <2>9. SlowInv'
      BY <1>1, <2>2, <2>8, SlowAppended
    <2>10. StandInv'
      BY <1>1, <1>5, <1>6, <2>2, FreeAppended, PulseSets DEF StandInv
    <2> QED BY <2>2, <2>5, <2>6, <2>7, <2>9, <2>10 DEF Inv
  <1>8. CASE Take(level)
    <2>1. /\ ~ NoPuk(level) /\ pc' = "sampled"
          /\ \/ /\ ground_debouncer' = ground_debouncer + 1
                /\ height_vector' = height_vector
             \/ /\ height_vector' = Append(height_vector, level)
                /\ ground_debouncer' = ground_debouncer
          /\ IF length_counter + 1 = MIN_LENGTH THEN Send(<<S>>)
             ELSE queue' = queue /\ said' = said
      BY <1>8 DEF Take
    <2>2. level \in Readings
      BY <1>2, <1>8 DEF Sample
    <2>3. length_counter' < MAX_LENGTH /\ length_counter' \in Nat
      BY <1>1, <1>2, <2>1, Bounds DEF NoPuk
    <2>4. /\ height_vector' \in Seq(Readings \cup {UNDEFINED})
          /\ Len(height_vector') \in Nat /\ ground_debouncer' \in 0..(MaxGround + 1)
          /\ Len(height_vector') + ground_debouncer' <= length_counter'
      <3>1. /\ Append(height_vector, level) \in Seq(Readings \cup {UNDEFINED})
            /\ Len(Append(height_vector, level)) = Len(height_vector) + 1
        BY <1>2, <2>2
      <3>2. CASE height_vector' = height_vector /\ ground_debouncer' = ground_debouncer + 1
        BY <1>1, <1>2, <1>3, <3>2, Bounds
      <3>3. CASE /\ height_vector' = Append(height_vector, level)
                 /\ ground_debouncer' = ground_debouncer
        BY <1>1, <1>2, <1>3, <3>1, <3>3, Bounds
      <3> QED BY <2>1, <3>2, <3>3
    <2>5. queue' \in Seq(Pulses) /\ MotorInv' /\ StopHeard'
      BY <1>1, <2>1, Sent, WaitKeeps
    <2>6. TypeOK'
      <3>1. /\ length_counter' \in 0..MAX_LENGTH
            /\ Len(height_vector') + ground_debouncer' <= MAX_LENGTH
        BY <2>3, <2>4, Bounds
      <3> QED BY <1>1, <1>2, <1>6, <2>1, <2>4, <2>5, <3>1, ThreadTyped DEF Inv
    <2>7. LengthInv'
      BY <2>1, <2>3, <2>4 DEF LengthInv
    <2>8. said' = IF length_counter' < MIN_LENGTH THEN <<>> ELSE <<S>>
      <3>1. CASE length_counter + 1 = MIN_LENGTH
        <4>1. said = <<>> /\ said' = said \o <<S>>
          BY <1>1, <1>2, <1>4, <2>1, <3>1, Sent, Bounds
        <4> QED BY <1>1, <3>1, <4>1, Bounds
      <3>2. CASE length_counter + 1 # MIN_LENGTH
        BY <1>1, <1>2, <1>4, <2>1, <3>2, Bounds
      <3> QED BY <3>1, <3>2
    <2>9. SaidInv'
      BY <2>1, <2>8 DEF SaidInv
    <2>10. queue' = queue \/ (queue' = Append(queue, S) /\ length_counter + 1 = MIN_LENGTH)
      BY <1>1, <2>1, Sent
    <2>11. Announced \/ length_counter + 1 = MIN_LENGTH => Announced'
      <3>1. Announced => ~ (length_counter < MIN_LENGTH)
        BY <1>4 DEF Announced, Range
      <3>2. Announced \/ length_counter + 1 = MIN_LENGTH => said' = <<S>>
        BY <1>1, <1>2, <2>8, <3>1, Bounds
      <3>3. S \in Range(<<S>>)
        BY DEF Range
      <3> QED BY <2>1, <3>2, <3>3 DEF Announced
    <2>12. S \in Pulses /\ S \notin SpeedEvents
      BY PulseSets
    <2>13. SlowInv'
      <3>1. CASE queue' = queue
        BY <1>1, <2>11, <3>1, SlowKept DEF Inv
      <3>2. CASE queue' = Append(queue, S) /\ length_counter + 1 = MIN_LENGTH
        BY <1>1, <2>11, <2>12, <3>2, SlowAppended
      <3> QED BY <2>10, <3>1, <3>2
    <2>14. StandInv'
      <3>1. S \in Pulses \ SpeedEvents
        BY <2>12
      <3>2. ASSUME standing' = 1
            PROVE  Free(queue', {"SPEED_NORMAL", "SPEED_SLOW"})
        <4>1. Free(queue, {"SPEED_NORMAL", "SPEED_SLOW"})
          BY <1>6, <3>2
        <4>2. Free(Append(queue, S), {"SPEED_NORMAL", "SPEED_SLOW"})
          BY <1>5, <3>1, <4>1, NoSpeedAppended
        <4> QED BY <2>10, <4>1, <4>2
      <3>3. is_stopped' = is_stopped
        BY <1>1
      <3> QED BY <1>6, <3>2, <3>3 DEF StandInv
    <2> QED BY <2>5, <2>6, <2>7, <2>9, <2>13, <2>14 DEF Inv
  <1> QED BY <1>1, <1>7, <1>8

LEMMA RoundEnded ==
    ASSUME Inv, EndRound
    PROVE  Inv'
  <1>1. /\ pc = "sampled" /\ ~ is_stopped /\ motorVars' = motorVars /\ queue' = queue
        /\ readings' = readings /\ length_counter' = length_counter
        /\ ground_debouncer' = ground_debouncer /\ said' = said
        /\ last_type' = last_type /\ is_stopped' = is_stopped /\ stops' = stops
        /\ height_diff' = height_diff /\ standing' = standing /\ missedVars' = missedVars
        /\ \/ /\ ground_debouncer <= MaxGround /\ pc' = "sampling"
              /\ height_vector' = height_vector
           \/ /\ pc' = "measured"
              /\ height_vector' = IF height_vector = <<>> THEN <<UNDEFINED>>
                                  ELSE height_vector
    BY DEF EndRound, MayGoOn
  <1>2. /\ readings \subseteq Readings /\ height_vector \in Seq(Readings \cup {UNDEFINED})
        /\ length_counter \in Nat /\ ground_debouncer \in 0..(MaxGround + 1)
        /\ last_type \in PukTypes \cup {0, UNDEFINED} /\ Len(height_vector) \in Nat
        /\ Len(height_vector) + ground_debouncer <= length_counter
        /\ length_counter < MAX_LENGTH
    BY <1>1, Bounds DEF Inv, TypeOK, LengthInv
  <1>3. /\ height_vector' \in Seq(Readings \cup {UNDEFINED})
        /\ Len(height_vector') \in Nat
        /\ height_vector' = height_vector \/ (Len(height_vector') = 1 /\ height_vector = <<>>)
    <2>1. CASE height_vector' = height_vector
      BY <1>2, <2>1
    <2>2. CASE height_vector' = <<UNDEFINED>> /\ height_vector = <<>>
      BY <2>2
    <2> QED BY <1>1, <2>1, <2>2
  <1>4. queue' \in Seq(Pulses) /\ MotorInv' /\ StopHeard'
    BY <1>1, WaitKeeps
  <1>5. TypeOK'
    <2>1. /\ length_counter' \in 0..MAX_LENGTH
          /\ ground_debouncer' \in 0..(MaxGround + 1)
          /\ Len(height_vector') + ground_debouncer' <= MAX_LENGTH
      <3>1. CASE height_vector' = height_vector
        BY <1>1, <1>2, <3>1, Bounds
      <3>2. CASE Len(height_vector') = 1 /\ height_vector = <<>>
        BY <1>1, <1>2, <3>2, Bounds
      <3> QED BY <1>3, <3>1, <3>2
    <2>2. standing' \in Nat
      BY <1>1 DEF Inv, TypeOK
    <2> QED BY <1>1, <1>2, <1>3, <1>4, <2>1, <2>2, ThreadTyped DEF Inv
  <1>6. LengthInv'
    <2>1. CASE pc' = "sampling"
      BY <1>1, <1>2, <2>1 DEF LengthInv
    <2>2. CASE pc' = "measured"
      BY <2>2 DEF LengthInv
    <2> QED BY <1>1, <2>1, <2>2
  <1>7. SaidInv'
    <2> DEFINE S == "HEIGHT_SENSOR_MEASURE_START"
    <2>1. said = IF length_counter < MIN_LENGTH THEN <<>> ELSE <<S>>
      BY <1>1 DEF Inv, SaidInv
    <2>2. CASE pc' = "sampling"
      BY <1>1, <2>1, <2>2 DEF SaidInv
    <2>3. CASE pc' = "measured"
      <3>1. said' = <<>> \/ said' = <<S>>
        BY <1>1, <2>1
      <3>2. said' # <<S>> => Len(height_vector') <= MinError
        <4>1. ASSUME length_counter < MIN_LENGTH
              PROVE  Len(height_vector') <= MinError
          <5>1. CASE height_vector' = height_vector
            BY <1>2, <4>1, <5>1, Bounds
          <5>2. CASE Len(height_vector') = 1
            BY <5>2, Bounds
          <5> QED BY <1>3, <5>1, <5>2
        <4> QED BY <1>1, <2>1, <4>1
      <3> QED BY <2>3, <3>1, <3>2 DEF SaidInv
    <2> QED BY <1>1, <2>2, <2>3
  <1>8. StandInv'
    <2>1. standing = 0
      BY <1>1 DEF Inv, StandInv
    <2> QED BY <1>1, <2>1, StandKept
  <1>9. SlowInv'
    <2>1. Announced => Announced'
      BY <1>1 DEF Announced
    <2> QED BY <1>1, <2>1, SlowKept DEF Inv
  <1> QED BY <1>4, <1>5, <1>6, <1>7, <1>8, <1>9 DEF Inv

LEMMA Finished ==
    ASSUME Inv, Finish
    PROVE  Inv'
  <1> DEFINE S == "HEIGHT_SENSOR_MEASURE_START"
             O == "TIMER_MEASURE_OUT"
             E == "ERR_UNDEFINED_PUK"
  <1>1. /\ pc = "measured" /\ motorVars' = motorVars /\ last_type' = last_type
        /\ is_stopped' = is_stopped /\ height_diff' = height_diff
        /\ standing' = standing /\ stops' = stops /\ Send(<<O>>)
        /\ missedVars' = missedVars
        /\ pc' = CASE Len(height_vector) >= MIN_ARRAY_LENGTH -> "evaluating"
                   [] Len(height_vector) \in (MinError + 1)..(MIN_ARRAY_LENGTH - 1) -> "failed"
                   [] OTHER -> "poll"
        /\ IF pc' = "evaluating"
           THEN UNCHANGED <<readings, height_vector, length_counter, ground_debouncer>>
           ELSE Forget
    BY DEF Finish
  <1>2. /\ readings \subseteq Readings /\ height_vector \in Seq(Readings \cup {UNDEFINED})
        /\ length_counter \in 0..MAX_LENGTH /\ ground_debouncer \in 0..(MaxGround + 1)
        /\ last_type \in PukTypes \cup {0, UNDEFINED} /\ Len(height_vector) \in Nat
        /\ Len(height_vector) + ground_debouncer <= MAX_LENGTH
    BY DEF Inv, TypeOK
  <1>3. pc' \in {"evaluating", "failed", "poll"}
    BY <1>1
  <1>4. /\ O \in Pulses \ SpeedEvents /\ queue' = Append(queue, O) /\ said' = said \o <<O>>
        /\ queue' \in Seq(Pulses) /\ MotorInv' /\ StopHeard'
    BY <1>1, Sent
  <1>5. /\ pc' = "evaluating" => UNCHANGED <<readings, height_vector, length_counter,
                                             ground_debouncer>>
        /\ pc' # "evaluating" => /\ readings' = {} /\ height_vector' = <<>>
                                 /\ length_counter' = 0 /\ ground_debouncer' = 0
    BY <1>1 DEF Forget
  <1>7. TypeOK'
    <2>1. /\ readings' \subseteq Readings
          /\ height_vector' \in Seq(Readings \cup {UNDEFINED})
          /\ length_counter' \in 0..MAX_LENGTH
          /\ Len(height_vector') + ground_debouncer' <= MAX_LENGTH
          /\ ground_debouncer' \in 0..(MaxGround + 1)
      <3>1. CASE pc' = "evaluating"
        BY <1>2, <1>5, <3>1
      <3>2. CASE pc' # "evaluating"
        BY <1>5, <3>2, Bounds
      <3> QED BY <3>1, <3>2
    <2>2. standing' \in Nat /\ last_type' \in PukTypes \cup {0, UNDEFINED}
      BY <1>1, <1>2 DEF Inv, TypeOK
    <2> QED BY <1>1, <1>3, <1>4, <2>1, <2>2, ThreadTyped DEF Inv
  <1>8. LengthInv'
    BY <1>3, <1>5 DEF LengthInv
  <1>9. SaidInv'
    <2>1. /\ said \in {<<>>, <<S>>, <<E>>, <<S, E>>}
          /\ said # <<S>> => Len(height_vector) <= MinError
      BY <1>1 DEF Inv, SaidInv
    <2>2. CASE said = <<S>>
      <3>1. S \in Pulses /\ O \in Pulses
        BY PulseSets
      <3>2. <<S>> \o <<O>> = <<S, O>>
        BY <3>1, ShortReports
      <3>3. said' = <<S, O>>
        BY <1>4, <2>2, <3>2
      <3> QED BY <1>3, <3>3 DEF SaidInv, WholeReports
    <2>3. CASE said # <<S>>
      <3>1. pc' = "poll"
        BY <1>1, <1>2, <2>1, <2>3, Bounds
      <3>2. S \in Pulses /\ O \in Pulses /\ E \in Pulses
        BY PulseSets
      <3>3. <<>> \o <<O>> = <<O>> /\ <<E>> \o <<O>> = <<E, O>>
            /\ <<S, E>> \o <<O>> = <<S, E, O>>
        BY <3>2, ShortReports
      <3>4. said' \in {<<O>>, <<E, O>>, <<S, E, O>>}
        BY <1>4, <2>1, <2>3, <3>3
      <3> QED BY <3>1, <3>4 DEF SaidInv, WholeReports
    <2> QED BY <2>2, <2>3
  <1>10. StandInv'
    <2>1. pc' # "sampling"
      BY <1>3
    <2> QED BY <1>1, <1>4, <2>1, StandKept
  <1>11. SlowInv'
    BY <1>4, SlowReleased
  <1> QED BY <1>4, <1>7, <1>8, <1>9, <1>10, <1>11 DEF Inv

LEMMA EvaluatedStep ==
    ASSUME Inv, Evaluate
    PROVE  Inv'
  <1>1. /\ pc = "evaluating" /\ pc' \in {"identified", "failed"}
        /\ motorVars' = motorVars /\ queue' = queue /\ said' = said
        /\ is_stopped' = is_stopped /\ height_diff' = height_diff
        /\ standing' = standing /\ stops' = stops /\ missedVars' = missedVars
        /\ readings' = {} /\ height_vector' = <<>>
        /\ length_counter' = 0 /\ ground_debouncer' = 0
    BY DEF Evaluate, Forget
  <1>2. last_type' \in PukTypes \cup {0, UNDEFINED}
    <2>1. evaluate_puk_type(height_vector, height_diff) \in PukTypes \cup {UNDEFINED}
      BY <1>1 DEF Inv, TypeOK
    <2>2. last_type' \in Garbled \cup {evaluate_puk_type(height_vector, height_diff)}
      BY DEF Evaluate
    <2> QED BY <2>1, <2>2, GarbledAssumption
  <1>3. queue' \in Seq(Pulses) /\ MotorInv' /\ StopHeard'
    BY <1>1, WaitKeeps
  <1>4. TypeOK'
    <2>1. standing' \in Nat
      BY <1>1 DEF Inv, TypeOK
    <2>2. /\ readings' \subseteq Readings
          /\ height_vector' \in Seq(Readings \cup {UNDEFINED})
          /\ length_counter' \in 0..MAX_LENGTH
          /\ Len(height_vector') + ground_debouncer' <= MAX_LENGTH
          /\ ground_debouncer' \in 0..(MaxGround + 1)
      BY <1>1, Bounds
    <2> QED BY <1>1, <1>2, <1>3, <2>1, <2>2, ThreadTyped DEF Inv
  <1>5. LengthInv' /\ SaidInv'
    BY <1>1 DEF Inv, LengthInv, SaidInv
  <1>6. StandInv'
    <2>1. pc' # "sampling"
      BY <1>1
    <2> QED BY <1>1, <2>1, StandKept
  <1>7. SlowInv'
    <2>1. ~ Announced
      BY <1>1 DEF Announced
    <2> QED BY <1>1, <2>1, SlowKept DEF Inv
  <1> QED BY <1>3, <1>4, <1>5, <1>6, <1>7 DEF Inv

LEMMA Answered ==
    ASSUME Inv, Answer
    PROVE  Inv'
  <1> DEFINE S == "HEIGHT_SENSOR_MEASURE_START"
             O == "TIMER_MEASURE_OUT"
             e == IF pc = "identified" THEN "IDENTIFIED_PUK" ELSE "ERR_UNDEFINED_PUK"
  <1>1. /\ pc \in {"identified", "failed"} /\ pc' = "poll" /\ Send(<<e>>)
        /\ motorVars' = motorVars /\ readings' = readings
        /\ height_vector' = height_vector /\ length_counter' = length_counter
        /\ ground_debouncer' = ground_debouncer /\ last_type' = last_type
        /\ is_stopped' = is_stopped /\ height_diff' = height_diff
        /\ standing' = standing /\ stops' = stops /\ missedVars' = missedVars
    BY DEF Answer
  <1>2. e \in {"IDENTIFIED_PUK", "ERR_UNDEFINED_PUK"}
    OBVIOUS
  <1> HIDE DEF e
  <1>3. /\ e \in Pulses \ SpeedEvents /\ queue' = Append(queue, e) /\ said' = said \o <<e>>
        /\ queue' \in Seq(Pulses) /\ MotorInv' /\ StopHeard'
    BY <1>1, <1>2, Sent
  <1>4. TypeOK'
    <2>1. standing' \in Nat
      BY <1>1 DEF Inv, TypeOK
    <2>2. /\ readings' \subseteq Readings
          /\ height_vector' \in Seq(Readings \cup {UNDEFINED})
          /\ length_counter' \in 0..MAX_LENGTH
          /\ Len(height_vector') + ground_debouncer' <= MAX_LENGTH
          /\ ground_debouncer' \in 0..(MaxGround + 1)
          /\ last_type' \in PukTypes \cup {0, UNDEFINED}
      BY <1>1 DEF Inv, TypeOK
    <2> QED BY <1>1, <1>3, <2>1, <2>2, ThreadTyped DEF Inv
  <1>5. LengthInv'
    BY <1>1 DEF Inv, LengthInv
  <1>6. SaidInv'
    <2>1. said = <<S, O>>
      BY <1>1 DEF Inv, SaidInv
    <2>2. S \in Pulses /\ O \in Pulses
      BY PulseSets
    <2>3. said' = <<S, O, e>>
      BY <1>3, <2>1, <2>2, ShortReports
    <2>4. said' \in WholeReports
      BY <1>2, <2>3 DEF WholeReports
    <2> QED BY <1>1, <2>4 DEF SaidInv
  <1>7. StandInv'
    <2>1. pc' # "sampling"
      BY <1>1
    <2> QED BY <1>1, <1>3, <2>1, StandKept
  <1>8. SlowInv'
    <2>1. ~ Announced
      BY <1>1 DEF Announced
    <2>2. e \notin {S, "MOTOR_SLOW"}
      BY <1>2
    <2> QED BY <1>1, <1>3, <2>1, <2>2, SlowAppended
  <1> QED BY <1>3, <1>4, <1>5, <1>6, <1>7, <1>8 DEF Inv

\* Every step keeps the invariant.
LEMMA NextInv == Inv /\ [Next]_vars => Inv'
  <1> SUFFICES ASSUME Inv, [Next]_vars PROVE Inv'
    OBVIOUS
  <1>1. ASSUME NEW level \in Readings, Begin(level) PROVE Inv'
    BY <1>1, Begun
  <1>2. ASSUME NEW level \in Readings, Sample(level) PROVE Inv'
    BY <1>2, Sampled
  <1>3. CASE EndRound
    BY <1>3, RoundEnded
  <1>4. CASE Finish
    BY <1>4, Finished
  <1>5. CASE Answer
    BY <1>5, Answered
  <1>6. CASE Evaluate
    BY <1>6, EvaluatedStep
  <1>7. CASE Dispatch
    BY <1>7, Dispatched
  <1>8. CASE Start \/ Stop \/ GoOn
    BY <1>8, Posted
  <1>9. CASE UNCHANGED vars
    <2>1. /\ threadVars' = threadVars /\ last_type' = last_type /\ missedVars' = missedVars
          /\ height_diff' = height_diff /\ is_stopped' = is_stopped
          /\ motorVars' = motorVars /\ queue' = queue
          /\ standing' = standing /\ stops' = stops /\ pc' = pc
      BY <1>9 DEF vars, threadVars
    <2>2. queue' \in Seq(Pulses) /\ MotorInv' /\ StopHeard'
      BY <2>1, WaitKeeps
    <2>3. /\ is_stopped' \in BOOLEAN /\ standing' \in Nat /\ stops' \in 0..MaxStops
          /\ overtaken' \in BOOLEAN /\ ignored' \in BOOLEAN
      BY <2>1 DEF Inv, TypeOK, missedVars
    <2>4. TypeOK'
      BY <2>1, <2>2, <2>3, BeltTyped DEF Inv
    <2>5. LengthInv' /\ SaidInv' /\ (Announced => Announced')
      BY <2>1, BeltMeasures DEF Inv
    <2>7. StandInv'
      <3>1. pc' # "sampling" \/ standing = 0
        BY <2>1 DEF Inv, StandInv
      <3> QED BY <2>1, <3>1, StandKept
    <2>6. SlowInv'
      BY <2>1, <2>5, SlowKept DEF Inv
    <2> QED BY <2>2, <2>4, <2>5, <2>6, <2>7 DEF Inv
  <1> QED BY <1>1, <1>2, <1>3, <1>4, <1>5, <1>6, <1>7, <1>8, <1>9 DEF Next, Measure

\* The inductive invariant holds of every behaviour.
THEOREM HeightInvariant == Spec => []Inv
  <1>1. Init => Inv
    BY Initially
  <1>2. Inv /\ [Next]_vars => Inv'
    BY NextInv
  <1> QED BY <1>1, <1>2, PTL DEF Spec

\* The variables have their types, and what is recognised is a type of puk,
\* whatever the sensor reads (height_measurement.cpp:108-310).
THEOREM HeightTypeCorrect == Spec => []TypeOK
  <1>1. Inv => TypeOK
    BY DEF Inv
  <1> QED BY <1>1, HeightInvariant, PTL

\* A measurement releases the belt once, and reports one start and one answer at
\* most; a type comes only after both, ERR_UNDEFINED_PUK also before the release
\* and without a start (height_measurement.cpp:108-281).
THEOREM ReportsInOrder == Spec => []Reports
  <1> DEFINE S == "HEIGHT_SENSOR_MEASURE_START"
             O == "TIMER_MEASURE_OUT"
             E == "ERR_UNDEFINED_PUK"
  <1>1. ASSUME NEW whole, whole \in {<<S, O>>, <<S, E, O>>, <<E, O>>}
        PROVE  /\ whole = <<S, O>> =>
                    IsPrefix(<<>>, whole) /\ IsPrefix(<<S>>, whole) /\ IsPrefix(<<S, O>>, whole)
               /\ whole = <<S, E, O>> => IsPrefix(<<S, E>>, whole)
               /\ whole = <<E, O>> => IsPrefix(<<E>>, whole)
    BY <1>1 DEF IsPrefix
  <1>2. Inv => Reports
    <2> SUFFICES ASSUME Inv, pc # "poll"
                 PROVE  \E whole \in WholeReports : IsPrefix(said, whole)
      BY DEF Inv, SaidInv, Reports
    <2>1. said \in {<<>>, <<S>>, <<S, O>>, <<E>>, <<S, E>>}
      BY DEF Inv, SaidInv, TypeOK
    <2>2. {<<S, O>>, <<S, E, O>>, <<E, O>>} \subseteq WholeReports
      BY DEF WholeReports
    <2> HIDE DEF S, E, O
    <2> QED BY <1>1, <2>1, <2>2
  <1> QED BY <1>2, HeightInvariant, PTL

\* Of a belt that stands at most one sample is taken once SPEED_STOP has been
\* handled, whatever crosses (height_measurement.cpp:169-182 and 242-245,
\* motorcontroler.h:57-126).
THEOREM OneSampleStanding == Spec => []StandingSample
  <1>1. Inv => StandingSample
    BY DEF Inv, StandInv, StandingSample
  <1> QED BY <1>1, HeightInvariant, PTL

\* A belt that is slow, or will be when it goes on, has its release still to
\* come, unless MOTOR_SLOW was asked for behind it or it was handled while the
\* belt stood (height_measurement.cpp:108-281, motorcontroler.h:57-217,
\* puk_fsm_dummy.h:170-180).
THEOREM SlowForPuks == Spec => []SlowWhileMeasured
  <1>1. Inv => SlowWhileMeasured
    BY InQueue DEF Inv, SlowInv, SlowWhileMeasured
  <1> QED BY <1>1, HeightInvariant, PTL

\* The loop of is_ic_or_hole(), with its counter and its array, recognises the
\* steps of any profile (height_measurement.cpp:401-470).
THEOREM PatternsAreSteps == Spec => []PatternOfRuns
  <1>1. ASSUME TypeOK
        PROVE  Pattern(height_vector, height_diff) = StepsOf(Classes(height_vector, height_diff))
    <2>1. Readings \cup {UNDEFINED} \subseteq Int
      BY ReadingsAssumption DEF UNDEFINED
    <2>2. height_vector \in Seq(Readings \cup {UNDEFINED}) /\ height_diff \in Int
      BY <1>1 DEF TypeOK
    <2>3. height_vector \in Seq(Int)
      BY <2>1, <2>2, SeqSubset
    <2> QED BY <2>2, <2>3, PatternIsSteps
  <1>2. Inv => PatternOfRuns
    BY <1>1 DEF Inv, PatternOfRuns
  <1> QED BY <1>2, HeightInvariant, PTL

\* The loop of is_bit_code(), with its counter, the doubled first run and the last
\* sample that is not looked at, reads the digits of any code, as far as the bits
\* of an int go (height_measurement.cpp:312-378).
THEOREM DigitsAreRead == Spec => []DigitsOfRuns
  <1>1. ASSUME TypeOK, filter_array(height_vector) # <<>>
        PROVE  LET b == filter_array(height_vector)
               IN  Digits(b).type = {k % INT_BITS : k \in DigitsOf(Front(b))}
    <2>1. Readings \cup {UNDEFINED} \subseteq Int
      BY ReadingsAssumption DEF UNDEFINED
    <2>2. height_vector \in Seq(Readings \cup {UNDEFINED})
      BY <1>1 DEF TypeOK
    <2>3. filter_array(height_vector) \in Seq(0..1)
      BY <2>1, <2>2, SeqSubset, FilterTyped
    <2> QED BY <1>1, <2>3, DigitsAre
  <1>2. Inv => DigitsOfRuns
    BY <1>1 DEF Inv, DigitsOfRuns
  <1> QED BY <1>2, HeightInvariant, PTL
============================================================================
