---------------------------- MODULE PulseQueues ----------------------------
(***************************************************************************)
(* Facts about a FIFO queue of pulses from which one is taken while others *)
(* are appended: which pulse has the last word.                            *)
(***************************************************************************)
EXTENDS Integers, Sequences, SequencesExt, WellFoundedInduction, TLAPS

\* None of B is in q.
Free(q, B) == \A i \in DOMAIN q : q[i] \notin B

\* An a is in q and none of B comes after it.
EndsWith(q, a, B) ==
    \E i \in DOMAIN q : q[i] = a /\ \A j \in DOMAIN q : j > i => q[j] \notin B

\* The last word on what a component does: a has been delivered and done, or
\* waits in the queue, and none of B, which would undo it, comes after it.
Commanded(q, a, B, done) == EndsWith(q, a, B) \/ (done /\ Free(q, B))

\* The elements of Tail(q) \o s.
LEMMA NextQueue ==
    ASSUME NEW T, NEW q \in Seq(T), NEW s \in Seq(T), q # <<>>
    PROVE  /\ Tail(q) \o s \in Seq(T)
           /\ Len(q) \in Nat \ {0}
           /\ Len(s) \in Nat
           /\ DOMAIN q = 1..Len(q)
           /\ DOMAIN s = 1..Len(s)
           /\ DOMAIN (Tail(q) \o s) = 1..(Len(q) - 1 + Len(s))
           /\ \A i \in 1..(Len(q) - 1) : (Tail(q) \o s)[i] = q[i + 1]
           /\ \A i \in 1..Len(s) : (Tail(q) \o s)[Len(q) - 1 + i] = s[i]
           /\ Head(q) = q[1]
  OBVIOUS

\* The elements of s \o t.
LEMMA Concatenation ==
    ASSUME NEW T, NEW s \in Seq(T), NEW t \in Seq(T)
    PROVE  /\ s \o t \in Seq(T)
           /\ Len(s) \in Nat /\ Len(t) \in Nat
           /\ DOMAIN s = 1..Len(s)
           /\ DOMAIN t = 1..Len(t)
           /\ Len(s \o t) = Len(s) + Len(t)
           /\ DOMAIN (s \o t) = 1..(Len(s) + Len(t))
           /\ \A i \in 1..Len(s) : (s \o t)[i] = s[i]
           /\ \A i \in 1..Len(t) : (s \o t)[Len(s) + i] = t[i]
  OBVIOUS

\* Widening the pulses of a sequence.
LEMMA SeqSubset ==
    ASSUME NEW S, NEW T, S \subseteq T, NEW s \in Seq(S)
    PROVE  s \in Seq(T)
  OBVIOUS

\* The handlers send at most three pulses.
LEMMA ShortSequences ==
    ASSUME NEW T
    PROVE  /\ <<>> \in Seq(T)
           /\ \A a \in T : <<a>> \in Seq(T)
           /\ \A a, b \in T : <<a, b>> \in Seq(T)
           /\ \A a, b, c \in T : <<a, b, c>> \in Seq(T)
  OBVIOUS

\* When short sequences are free of B.
LEMMA FreeShort ==
    ASSUME NEW B
    PROVE  /\ Free(<<>>, B)
           /\ \A a : a \notin B => Free(<<a>>, B)
           /\ \A a, b : a \notin B /\ b \notin B => Free(<<a, b>>, B)
  BY DEF Free

\* Being free of more is being free of less.
LEMMA FreeMonotone ==
    ASSUME NEW q, NEW B, NEW C, C \subseteq B, Free(q, B)
    PROVE  Free(q, C)
  BY DEF Free

\* Free parts make a free whole.
LEMMA FreeConcatenation ==
    ASSUME NEW T, NEW s \in Seq(T), NEW t \in Seq(T), NEW B,
           Free(s, B), Free(t, B)
    PROVE  Free(s \o t, B)
  <1> SUFFICES ASSUME NEW i \in DOMAIN (s \o t)
               PROVE  (s \o t)[i] \notin B
    BY DEF Free
  <1>1. CASE i \in 1..Len(s)
    BY <1>1, Concatenation DEF Free
  <1>2. CASE i \notin 1..Len(s)
    <2>1. i - Len(s) \in 1..Len(t) /\ i = Len(s) + (i - Len(s))
      BY <1>2, Concatenation
    <2> QED BY <2>1, Concatenation DEF Free
  <1> QED BY <1>1, <1>2

\* What is appended does not undo the last word.
LEMMA EndsWithConcatenation ==
    ASSUME NEW T, NEW s \in Seq(T), NEW t \in Seq(T), NEW a, NEW B,
           EndsWith(s, a, B), Free(t, B)
    PROVE  EndsWith(s \o t, a, B)
  <1>1. PICK i \in DOMAIN s : s[i] = a /\ \A j \in DOMAIN s : j > i => s[j] \notin B
    BY DEF EndsWith
  <1>2. i \in DOMAIN (s \o t) /\ (s \o t)[i] = a
    BY <1>1, Concatenation
  <1>3. ASSUME NEW j \in DOMAIN (s \o t), j > i
        PROVE  (s \o t)[j] \notin B
    <2>1. CASE j \in 1..Len(s)
      BY <1>1, <1>3, <2>1, Concatenation
    <2>2. CASE j \notin 1..Len(s)
      <3>1. j - Len(s) \in 1..Len(t) /\ j = Len(s) + (j - Len(s))
        BY <2>2, Concatenation
      <3> QED BY <3>1, Concatenation DEF Free
    <2> QED BY <2>1, <2>2
  <1> QED BY <1>2, <1>3 DEF EndsWith

\* One pulse is taken out, s is appended.
LEMMA CommandedNext ==
    ASSUME NEW T, NEW q \in Seq(T), NEW s \in Seq(T), q # <<>>,
           NEW a, NEW B, NEW done, NEW doneNext,
           Commanded(q, a, B, done), Free(s, B),
           Head(q) = a => doneNext,
           done /\ Head(q) \notin B => doneNext
    PROVE  Commanded(Tail(q) \o s, a, B, doneNext)
  <1> DEFINE r == Tail(q) \o s
  <1>1. ASSUME Free(q, B) \/ \A j \in DOMAIN q : j > 1 => q[j] \notin B
        PROVE  Free(r, B)
    <2> SUFFICES ASSUME NEW i \in DOMAIN r
                 PROVE  r[i] \notin B
      BY DEF Free
    <2>1. CASE i \in 1..(Len(q) - 1)
      <3>1. i + 1 \in DOMAIN q /\ i + 1 > 1 /\ r[i] = q[i + 1]
        BY <2>1, NextQueue
      <3> QED BY <3>1, <1>1 DEF Free
    <2>2. CASE i \notin 1..(Len(q) - 1)
      <3>1. i - (Len(q) - 1) \in 1..Len(s) /\ i = Len(q) - 1 + (i - (Len(q) - 1))
        BY <2>2, NextQueue
      <3> QED BY <3>1, NextQueue DEF Free
    <2> QED BY <2>1, <2>2
  <1>2. CASE done /\ Free(q, B)
    <2>1. Head(q) \notin B
      BY <1>2, NextQueue DEF Free
    <2> QED BY <1>1, <1>2, <2>1 DEF Commanded
  <1>3. CASE EndsWith(q, a, B)
    <2>1. PICK i \in DOMAIN q : q[i] = a /\ \A j \in DOMAIN q : j > i => q[j] \notin B
      BY <1>3 DEF EndsWith
    <2>2. CASE i = 1
      BY <2>1, <2>2, <1>1, NextQueue DEF Commanded
    <2>3. CASE i # 1
      <3>1. i - 1 \in 1..(Len(q) - 1) /\ i - 1 \in DOMAIN r /\ r[i - 1] = a
        BY <2>1, <2>3, NextQueue
      <3>2. ASSUME NEW j \in DOMAIN r, j > i - 1
            PROVE  r[j] \notin B
        <4>1. CASE j \in 1..(Len(q) - 1)
          <5>1. j + 1 \in DOMAIN q /\ j + 1 > i /\ r[j] = q[j + 1]
            BY <4>1, <3>1, <3>2, NextQueue
          <5> QED BY <5>1, <2>1
        <4>2. CASE j \notin 1..(Len(q) - 1)
          <5>1. j - (Len(q) - 1) \in 1..Len(s) /\ j = Len(q) - 1 + (j - (Len(q) - 1))
            BY <4>2, NextQueue
          <5> QED BY <5>1, NextQueue DEF Free
        <4> QED BY <4>1, <4>2
      <3> QED BY <3>1, <3>2 DEF Commanded, EndsWith
    <2> QED BY <2>2, <2>3
  <1> QED BY <1>2, <1>3 DEF Commanded

\* A pulse that is not in B is appended.
LEMMA CommandedAppend ==
    ASSUME NEW T, NEW q \in Seq(T), NEW e \in T, NEW a, NEW B, NEW done,
           Commanded(q, a, B, done), e \notin B
    PROVE  Commanded(Append(q, e), a, B, done)
  <1> DEFINE r == Append(q, e)
  <1>0. /\ DOMAIN q = 1..Len(q) /\ Len(q) \in Nat
        /\ DOMAIN r = 1..(Len(q) + 1)
        /\ \A i \in 1..Len(q) : r[i] = q[i]
        /\ r[Len(q) + 1] = e
    OBVIOUS
  <1>1. CASE done /\ Free(q, B)
    BY <1>0, <1>1 DEF Commanded, Free
  <1>2. CASE EndsWith(q, a, B)
    BY <1>0, <1>2 DEF Commanded, EndsWith
  <1> QED BY <1>1, <1>2 DEF Commanded

\* The last word is in what is appended.
LEMMA CommandedSent ==
    ASSUME NEW T, NEW q \in Seq(T), NEW s \in Seq(T), q # <<>>,
           NEW a, NEW B, NEW done, EndsWith(s, a, B)
    PROVE  Commanded(Tail(q) \o s, a, B, done)
  <1> DEFINE r == Tail(q) \o s
  <1>1. PICK i \in DOMAIN s : s[i] = a /\ \A j \in DOMAIN s : j > i => s[j] \notin B
    BY DEF EndsWith
  <1>2. Len(q) - 1 + i \in DOMAIN r /\ r[Len(q) - 1 + i] = a
    BY <1>1, NextQueue
  <1>3. ASSUME NEW j \in DOMAIN r, j > Len(q) - 1 + i
        PROVE  r[j] \notin B
    <2>1. /\ j - (Len(q) - 1) \in DOMAIN s
          /\ j - (Len(q) - 1) > i
          /\ j = Len(q) - 1 + (j - (Len(q) - 1))
      BY <1>3, NextQueue
    <2>2. r[j] = s[j - (Len(q) - 1)]
      BY <2>1, NextQueue
    <2> QED BY <1>1, <2>1, <2>2
  <1> QED BY <1>2, <1>3 DEF Commanded, EndsWith

\* A pulse of S keeps waiting unless it is the one taken out.
LEMMA PendingNext ==
    ASSUME NEW T, NEW q \in Seq(T), NEW s \in Seq(T), q # <<>>, NEW S,
           \/ (\E i \in DOMAIN q : q[i] \in S) /\ Head(q) \notin S
           \/ \E i \in DOMAIN s : s[i] \in S
    PROVE  \E i \in DOMAIN (Tail(q) \o s) : (Tail(q) \o s)[i] \in S
  <1>1. CASE (\E i \in DOMAIN q : q[i] \in S) /\ Head(q) \notin S
    <2>1. PICK i \in DOMAIN q : q[i] \in S
      BY <1>1
    <2>2. i - 1 \in 1..(Len(q) - 1) /\ i = (i - 1) + 1
      BY <1>1, <2>1, NextQueue
    <2>3. i - 1 \in DOMAIN (Tail(q) \o s) /\ (Tail(q) \o s)[i - 1] = q[i]
      BY <2>2, NextQueue
    <2> QED BY <2>1, <2>3
  <1>2. CASE \E i \in DOMAIN s : s[i] \in S
    <2>1. PICK i \in DOMAIN s : s[i] \in S
      BY <1>2
    <2>2. Len(q) - 1 + i \in DOMAIN (Tail(q) \o s) /\ (Tail(q) \o s)[Len(q) - 1 + i] = s[i]
      BY <2>1, NextQueue
    <2> QED BY <2>1, <2>2
  <1> QED BY <1>1, <1>2

-----------------------------------------------------------------------------
\* Queues at whose ends something happens.

\* The elements of Append(s, e).
LEMMA Appending ==
    ASSUME NEW T, NEW s \in Seq(T), NEW e \in T
    PROVE  /\ Append(s, e) \in Seq(T)
           /\ Len(s) \in Nat
           /\ DOMAIN s = 1..Len(s)
           /\ DOMAIN Append(s, e) = 1..(Len(s) + 1)
           /\ \A k \in 1..Len(s) : Append(s, e)[k] = s[k]
           /\ Append(s, e)[Len(s) + 1] = e
  OBVIOUS

\* The elements of Tail(s).
LEMMA TailElements ==
    ASSUME NEW T, NEW s \in Seq(T), s # <<>>
    PROVE  /\ Tail(s) \in Seq(T)
           /\ Len(s) \in Nat \ {0}
           /\ DOMAIN s = 1..Len(s)
           /\ DOMAIN Tail(s) = 1..(Len(s) - 1)
           /\ \A k \in 1..(Len(s) - 1) : Tail(s)[k] = s[k + 1]
           /\ Head(s) = s[1] /\ Head(s) \in T
  OBVIOUS

\* One of S is in q; no two are.
Has(q, S) == \E k \in DOMAIN q : q[k] \in S
Once(q, S) == \A j, k \in DOMAIN q : q[j] \in S /\ q[k] \in S => j = k

\* What an appended element changes.
LEMMA HasAppended ==
    ASSUME NEW T, NEW q \in Seq(T), NEW e \in T, NEW S
    PROVE  /\ Has(Append(q, e), S) <=> Has(q, S) \/ e \in S
           /\ Once(q, S) /\ (e \in S => ~ Has(q, S)) => Once(Append(q, e), S)
  <1> DEFINE r == Append(q, e)
             n == Len(q)
  <1>1. /\ n \in Nat /\ DOMAIN q = 1..n /\ DOMAIN r = 1..(n + 1)
        /\ r[n + 1] = e /\ \A k \in 1..n : r[k] = q[k]
    BY Appending
  <1> HIDE DEF r, n
  <1>2. Has(r, S) <=> Has(q, S) \/ e \in S
    BY <1>1 DEF Has
  <1>3. ASSUME Once(q, S), e \in S => ~ Has(q, S),
               NEW j \in 1..(n + 1), NEW k \in 1..(n + 1), r[j] \in S, r[k] \in S
        PROVE  j = k
    <2>1. CASE j \in 1..n /\ k \in 1..n
      BY <1>1, <1>3, <2>1 DEF Once
    <2>2. CASE j = n + 1 \/ k = n + 1
      BY <1>1, <1>3, <2>2 DEF Has
    <2> QED BY <1>1, <2>1, <2>2
  <1> QED BY <1>1, <1>2, <1>3 DEF Once, r

\* What the first element leaves behind.
LEMMA HasTail ==
    ASSUME NEW T, NEW q \in Seq(T), q # <<>>, NEW S
    PROVE  /\ Has(q, S) <=> Has(Tail(q), S) \/ Head(q) \in S
           /\ Once(q, S) => Once(Tail(q), S) /\ (Head(q) \in S => ~ Has(Tail(q), S))
  <1> DEFINE r == Tail(q)
             n == Len(q) - 1
  <1>1. /\ n \in Nat /\ DOMAIN q = 1..(n + 1) /\ DOMAIN r = 1..n
        /\ Head(q) = q[1] /\ \A k \in 1..n : r[k] = q[k + 1]
    BY TailElements
  <1> HIDE DEF r, n
  <1>2. \A k \in 1..n : k + 1 \in 1..(n + 1) /\ k + 1 # 1
    BY <1>1
  <1>3. ASSUME Has(q, S)
        PROVE  Has(r, S) \/ Head(q) \in S
    <2>1. PICK k \in 1..(n + 1) : q[k] \in S
      BY <1>1, <1>3 DEF Has
    <2>2. CASE k # 1
      <3>1. k - 1 \in 1..n /\ r[k - 1] = q[k]
        BY <1>1, <2>2
      <3> QED BY <1>1, <2>1, <3>1 DEF Has
    <2> QED BY <1>1, <2>1, <2>2
  <1>4. Has(r, S) \/ Head(q) \in S => Has(q, S)
    BY <1>1, <1>2, SMTT(30) DEF Has
  <1>5. ASSUME Once(q, S), NEW j \in 1..n, NEW k \in 1..n, r[j] \in S, r[k] \in S
        PROVE  j = k
    <2>1. j + 1 = k + 1
      BY <1>1, <1>2, <1>5 DEF Once
    <2> QED BY <2>1, <1>1
  <1>6. Once(q, S) /\ Head(q) \in S => ~ Has(r, S)
    BY <1>1, <1>2 DEF Once, Has
  <1> QED BY <1>1, <1>3, <1>4, <1>5, <1>6 DEF Once, r

-----------------------------------------------------------------------------
\* Lists from whose middle an element is taken.

\* The elements of RemoveAt(s, i): those behind the i-th move up.
LEMMA Removal ==
    ASSUME NEW T, NEW s \in Seq(T), NEW i \in 1..Len(s)
    PROVE  /\ RemoveAt(s, i) \in Seq(T)
           /\ Len(s) \in Nat
           /\ DOMAIN s = 1..Len(s)
           /\ Len(RemoveAt(s, i)) = Len(s) - 1
           /\ DOMAIN RemoveAt(s, i) = 1..(Len(s) - 1)
           /\ \A k \in 1..(Len(s) - 1) :
                  RemoveAt(s, i)[k] = IF k < i THEN s[k] ELSE s[k + 1]
  <1> DEFINE front == SubSeq(s, 1, i - 1)
             back == SubSeq(s, i + 1, Len(s))
  <1>1. /\ front \in Seq(T) /\ Len(front) = i - 1
        /\ \A k \in 1..(i - 1) : front[k] = s[k]
    OBVIOUS
  <1>2. /\ back \in Seq(T) /\ Len(back) = Len(s) - i
        /\ \A k \in 1..(Len(s) - i) : back[k] = s[i + k]
    OBVIOUS
  <1>3. RemoveAt(s, i) = front \o back
    BY DEF RemoveAt
  <1> HIDE DEF front, back
  <1>4. /\ RemoveAt(s, i) \in Seq(T)
        /\ Len(RemoveAt(s, i)) = Len(s) - 1
        /\ DOMAIN RemoveAt(s, i) = 1..(Len(s) - 1)
    <2>1. /\ front \o back \in Seq(T)
          /\ Len(front \o back) = Len(front) + Len(back)
      BY <1>1, <1>2, Concatenation
    <2>2. Len(front) + Len(back) = Len(s) - 1
      BY <1>1, <1>2
    <2> QED BY <1>3, <2>1, <2>2
  <1>5. ASSUME NEW k \in 1..(Len(s) - 1)
        PROVE  RemoveAt(s, i)[k] = IF k < i THEN s[k] ELSE s[k + 1]
    <2>1. CASE k < i
      BY <1>1, <1>2, <1>3, <2>1, Concatenation
    <2>2. CASE ~ (k < i)
      <3>0. Len(s) \in Nat /\ i \in Nat /\ k \in Nat /\ Len(front) = i - 1 /\ Len(back) = Len(s) - i
        BY <1>1, <1>2
      <3>1. k - (i - 1) \in 1..Len(back) /\ k = Len(front) + (k - (i - 1))
        BY <2>2, <3>0
      <3>2. RemoveAt(s, i)[k] = back[k - (i - 1)]
        BY <1>1, <1>2, <1>3, <3>1, Concatenation
      <3> QED BY <1>2, <2>2, <3>1, <3>2
    <2> QED BY <2>1, <2>2
  <1> QED BY <1>4, <1>5

-----------------------------------------------------------------------------
\* The first place with a property.

\* A set of numbers that is not empty has a least one.
LEMMA LeastIs ==
    ASSUME NEW K \in SUBSET Nat, K # {}
    PROVE  \E k \in K : \A j \in K : k <= j
  <1>1. PICK k \in K : \A j \in K : ~ (<<j, k>> \in OpToRel(<, Nat))
    BY NatLessThanWellFounded, WFMin
  <1>2. \A j \in K : ~ (j < k)
    BY <1>1 DEF OpToRel
  <1>3. \A j \in K : j \in Nat /\ k \in Nat
    OBVIOUS
  <1> QED BY <1>2, <1>3
============================================================================
