------------------------------ MODULE PukTypes ------------------------------
(***************************************************************************)
(* How Height_Measurement recognises the type of a puk from the heights    *)
(* sampled while it passed.  Heights are the readings of the sensor: the   *)
(* higher the puk, the lower the reading.  Comparisons with a mean, which  *)
(* the code computes in floating point, are multiplied out.                *)
(*                                                                         *)
(* The code stores what it recognises in an array padded with END, of      *)
(* which it compares the first PROFILE_LENGTH entries; here a pattern is   *)
(* the sequence before the padding, and equal if it is the same sequence.  *)
(***************************************************************************)
EXTENDS Integers, Sequences, FiniteSets, TLC, SequencesExt

CONSTANTS
    CUT_OFF_FRONT,      \* samples skipped in front,
    EXTRA_CUT_OFF,      \* and, for profiles, skipped in addition at both ends
    MINIMAL_WIDTH,      \* samples that make a step of a profile
    NarrowDigit,        \* a digit of a bit code has more samples than this,
    WideDigit,          \* a digit 1 more than this
    INT_BITS            \* the width of an int

ASSUME CutOffAssumption == CUT_OFF_FRONT \in Nat /\ EXTRA_CUT_OFF \in Nat
ASSUME WidthAssumption == MINIMAL_WIDTH \in Nat \ {0}
ASSUME DigitAssumption ==
    NarrowDigit \in Nat \ {0} /\ WideDigit \in Nat /\ NarrowDigit < WideDigit
ASSUME IntAssumption == INT_BITS \in Nat \ {0}

UNDEFINED == 1576
puk_normal == 40
puk_litte_one == 41
puk_iron_core == 42
puk_hole == 43
BitCodes == 0..31
PukTypes == BitCodes \cup {puk_normal, puk_litte_one, puk_iron_core, puk_hole}

MIN_HEIGHT == 3000    \* a mean above it is no puk

Total(a) ==
    LET sum[i \in 0..Len(a)] == IF i = 0 THEN 0 ELSE sum[i - 1] + a[i]
    IN  sum[Len(a)]

\* The mean as a fraction, and two comparisons: mean < bound, and
\* (x - mean) / mean < percent / 100.
Mean(a) == [sum |-> Total(a), n |-> Len(a)]
Below(mean, bound) == mean.sum < bound * mean.n
Near(x, mean, percent) == 100 * mean.n * x < (100 + percent) * mean.sum

\* The samples between the parts cut off.
Inner(a, front, back) == SubSeq(a, front + 1, Len(a) - back)

\* The elements of a that are kept, in their order.
Kept(a, keep) ==
    LET kept[i \in 0..Len(a)] ==
            CASE i = 0 -> <<>>
              [] i > 0 /\ keep[i] -> Append(kept[i - 1], a[i])
              [] OTHER -> kept[i - 1]
    IN  kept[Len(a)]

-----------------------------------------------------------------------------
\* Flat puks.

is_little_or_normal(a) ==
    LET mean == Mean(a)
        flat == {i \in (CUT_OFF_FRONT + 1)..Len(a) : Near(a[i], mean, 2)}
        late == {i \in flat : Len(a) \div 2 < i - 1}
        mittle_value == IF late = {} THEN 0
                        ELSE a[CHOOSE i \in late : \A j \in late : i <= j]
        isFlat == 100 * (Cardinality(flat) + CUT_OFF_FRONT) >= 94 * Len(a)
    IN  CASE isFlat /\ Below(mean, 2900) /\ mittle_value > 2700 ->
               puk_litte_one
          [] isFlat /\ Below(mean, 2600) /\ mittle_value <= 2700 ->
               puk_normal
          [] OTHER -> UNDEFINED

-----------------------------------------------------------------------------
\* Profiles: top, groove and hole, each seen for at least MINIMAL_WIDTH
\* samples.

Unclear == 9    \* a sample between the bands, or far above the mean: skipped

Class(x, mean, diff) ==
    CASE ~Near(x, mean, 25) -> Unclear
      [] x < 2600 - diff -> 2
      [] 2635 - diff < x /\ x < 2750 - diff -> 1
      [] 3400 - diff < x /\ x < 3800 - diff -> 0
      [] OTHER -> Unclear

Classes(a, diff) ==
    LET mean == Mean(a)
        inner == Inner(a, CUT_OFF_FRONT + EXTRA_CUT_OFF, EXTRA_CUT_OFF)
        class == [i \in DOMAIN inner |-> Class(inner[i], mean, diff)]
    IN  Kept(class, [i \in DOMAIN class |-> class[i] # Unclear])

\* One round of the loop: last, counter and the part of temp_array in use.  A
\* variant in which the counter goes on when the class changes:
Round_NeverReset(acc, c) ==
    LET counter == acc.counter + 1
    IN  [last |-> c, counter |-> counter,
         temp |-> IF counter = MINIMAL_WIDTH THEN Append(acc.temp, c) ELSE acc.temp]

Round(acc, c) ==
    LET counter == IF acc.last = c THEN acc.counter + 1 ELSE 1
    IN  [last |-> c, counter |-> counter,
         temp |-> IF counter = MINIMAL_WIDTH THEN Append(acc.temp, c) ELSE acc.temp]

Pattern(a, diff) ==
    LET classes == Classes(a, diff)
        acc[i \in 0..Len(classes)] ==
            IF i = 0 THEN [last |-> -1, counter |-> 0, temp |-> <<>>]
            ELSE Round(acc[i - 1], classes[i])
    IN  acc[Len(classes)].temp

IronCoreProfiles ==
    {<<2,1,2,0,2,1,2>>, <<2,1,0,2,1,2>>, <<2,1,2,1,2,0,2,1,2>>,
     <<2,1,2,1,0,2,1,2>>, <<1,2,1,2,0,2,1,2>>, <<1,2,1,0,2,1,2>>,
     <<2,1,2,0,2,1,2,1,2>>, <<2,1,0,2,1,2,1,2>>, <<2,1,2,0,2,1>>,
     <<2,1,0,2,1>>, <<1,2,1,2,0,2,1,2,1>>, <<2,1,2,0,2,1,2,1>>,
     <<2,1,0,1,2,1,2>>, <<2,1,2,0,2>>, <<2,2,0,2,1,2>>, <<2,2,0,2,2>>,
     <<2,0,2,1,2>>, <<2,1,2,1,0,1,2,1,2>>, <<2,1,2,0,2,2>>, <<2,0,2,2>>,
     <<2,2,0,2>>}
HoleProfiles == {<<2,0,2>>, <<1,2,0,2,1>>, <<1,2,0,2>>, <<2,0,2,1>>}

is_ic_or_hole(a, diff) ==
    LET pattern == Pattern(a, diff)
    IN  CASE pattern \in IronCoreProfiles -> puk_iron_core
          [] pattern \in HoleProfiles -> puk_hole
          [] OTHER -> UNDEFINED

-----------------------------------------------------------------------------
\* Bit codes: digits of different width, read from the samples near the mean.

\* 1 for the higher half of the samples, 0 for the lower; empty when too many
\* samples are far above the mean.
filter_array(a) ==
    LET mean == Mean(a)
        raw == Inner(a, CUT_OFF_FRONT, 0)
        kept == Kept(raw, [i \in DOMAIN raw |-> Near(raw[i], mean, 5)])
        min == CHOOSE m \in ToSet(kept) : \A x \in ToSet(kept) : m <= x
        max == CHOOSE m \in ToSet(kept) : \A x \in ToSet(kept) : x <= m
    IN  IF 10 * Len(kept) < 8 * Len(raw) THEN <<>>
        ELSE [i \in DOMAIN kept |-> IF 2 * kept[i] < max + min THEN 1 ELSE 0]

\* The end of a run of counter equal samples.  Until a digit is found, runs count
\* double.  type is the set of bits that are set; 1 << indexer shifts by what
\* indexer is modulo the width of an int (undefined in C; what the machine does).
Digit(acc) ==
    LET width == IF acc.indexer = 0 THEN (acc.counter + 1) * 2 ELSE acc.counter
    IN  [acc EXCEPT
           !.type = IF width > WideDigit THEN @ \cup {acc.indexer % INT_BITS} ELSE @,
           !.indexer = IF width > NarrowDigit THEN @ + 1 ELSE @]

\* One round of the loop over the filtered samples b.  A variant in which the
\* sample that ends a run is not counted into the next one:
DigitRound_FromZero(b, acc, i) ==
    IF b[i] = acc.last /\ i # Len(b)
    THEN [acc EXCEPT !.counter = @ + 1]
    ELSE [Digit(acc) EXCEPT !.last = b[i], !.counter = 0]

\* The last sample ends a run whether or not it is equal, and is not counted.
DigitRound(b, acc, i) ==
    IF b[i] = acc.last /\ i # Len(b)
    THEN [acc EXCEPT !.counter = @ + 1]
    ELSE [Digit(acc) EXCEPT !.last = b[i], !.counter = 1]

Digits(b) ==
    LET acc[i \in 0..Len(b)] ==
            IF i = 0 THEN [last |-> b[1], counter |-> 0, type |-> {}, indexer |-> 0]
            ELSE DigitRound(b, acc[i - 1], i)
    IN  acc[Len(b)]

\* (type >> 4) & 0x1F
Code(type) ==
    LET bit(k) == IF k \in type THEN 1 ELSE 0
    IN  bit(4) + 2 * bit(5) + 4 * bit(6) + 8 * bit(7) + 16 * bit(8)

\* A type of MAX_PUK_VALUE, 1 << 10, or more is none.
is_bit_code(a) ==
    LET b == filter_array(a)
        type == Digits(b).type
    IN  IF b = <<>> \/ \E k \in type : k >= 10 THEN UNDEFINED ELSE Code(type)

-----------------------------------------------------------------------------
evaluate_puk_type(a, diff) ==
    LET flat == is_little_or_normal(a)
        profile == is_ic_or_hole(a, diff)
    IN  CASE Total(a) > MIN_HEIGHT * Len(a) -> UNDEFINED
          [] Total(a) <= MIN_HEIGHT * Len(a) ->
               IF flat # UNDEFINED THEN flat
               ELSE IF profile # UNDEFINED THEN profile
               ELSE is_bit_code(a)

-----------------------------------------------------------------------------
\* What the loops are meant to compute.

\* Where a step of a profile begins: an element that differs from the one before
\* and stays for MINIMAL_WIDTH samples.
StepStarts(s) ==
    {i \in DOMAIN s :
        /\ i = 1 \/ s[i - 1] # s[i]
        /\ i + MINIMAL_WIDTH - 1 <= Len(s)
        /\ \A j \in i..(i + MINIMAL_WIDTH - 1) : s[j] = s[i]}
Rank(s, i) == Cardinality({j \in StepStarts(s) : j <= i})

\* The steps of a profile, in the order in which they begin.
StepsOf(s) ==
    LET Nth(k) == CHOOSE i \in StepStarts(s) : Rank(s, i) = k
    IN  [k \in 1..Cardinality(StepStarts(s)) |-> s[Nth(k)]]

\* The runs of equal elements, by their first element.
RunStarts(s) == {i \in DOMAIN s : i = 1 \/ s[i - 1] # s[i]}
RunWidth(s, i) == Cardinality({j \in i..Len(s) : \A k \in i..j : s[k] = s[i]})

\* A bit code begins with the first run that is a digit when it counts double;
\* the digits after that are the runs wider than NarrowDigit.
Doubled(s, i) == 2 * (RunWidth(s, i) + 1)
IsFirst(s, i) ==
    LET lead == {j \in RunStarts(s) : Doubled(s, j) > NarrowDigit}
    IN  i \in lead /\ \A j \in lead : i <= j
DigitStarts(s) == {i \in RunStarts(s) : IsFirst(s, i) \/ RunWidth(s, i) > NarrowDigit}
Position(s, i) == Cardinality({j \in DigitStarts(s) : j < i})

\* The positions of the digits that are 1.
Ones(s) ==
    {i \in DigitStarts(s) :
        (IF IsFirst(s, i) THEN Doubled(s, i) ELSE RunWidth(s, i)) > WideDigit}
DigitsOf(s) == {Position(s, i) : i \in Ones(s)}
=============================================================================
