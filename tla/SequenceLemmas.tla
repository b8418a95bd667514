---------------------------- MODULE SequenceLemmas ----------------------------
(***************************************************************************)
(* Facts about natural numbers and sequences that the proofs share: the    *)
(* least element of a set, induction over a set of numbers, and what the   *)
(* library's operators on sequences return.                                *)
(***************************************************************************)
EXTENDS Integers, Sequences, FiniteSetsExt, SequencesExt, WellFoundedInduction,
        SequenceTheorems, TLAPS

-----------------------------------------------------------------------------
\* Natural numbers.

NatLess == {ss \in Nat \X Nat : ss[1] < ss[2]}

\* The order of the natural numbers is well founded, stated without an operator as
\* a parameter.
LEMMA NatLessWellFounded == IsWellFoundedOn(NatLess, Nat)
BY NatLessThanWellFounded, Zenon DEF OpToRel, NatLess

\* Induction: a set that has 0 and with each number the next one has them all.
LEMMA NatSetInduction ==
    ASSUME NEW T, 0 \in T, \A n \in Nat : n \in T => n + 1 \in T
    PROVE  Nat \subseteq T
<1> SUFFICES ASSUME Nat \ T # {} PROVE FALSE
  OBVIOUS
<1>1. PICK x \in Nat \ T : \A y \in Nat \ T : <<y, x>> \notin NatLess
  BY NatLessWellFounded, WFMin
<1>2. x - 1 \in Nat /\ <<x - 1, x>> \in NatLess /\ x = (x - 1) + 1
  BY <1>1 DEF NatLess
<1> QED BY <1>1, <1>2

\* A set of natural numbers that is not empty has a least element, which is what
\* Min chooses.
LEMMA MinOfNats ==
    ASSUME NEW S \in SUBSET Nat, S # {}
    PROVE  Min(S) \in S /\ \A y \in S : Min(S) <= y
<1>0. S \subseteq Nat
  OBVIOUS
<1>1. PICK x \in S : \A y \in S : <<y, x>> \notin NatLess
  BY <1>0, NatLessWellFounded, WFMin
<1>2. ASSUME NEW y \in S PROVE x <= y
  <2>1. x \in Nat /\ y \in Nat /\ (y < x => <<y, x>> \in NatLess)
    BY <1>0 DEF NatLess
  <2> QED BY <1>1, <2>1
<1> QED BY <1>1, <1>2 DEF Min


\* A multiple of N strictly between -N and N is zero.
LEMMA SmallMultipleOf ==
    ASSUME NEW N \in Nat, N > 0, NEW k \in Int, k * N > -N, k * N < N
    PROVE  k = 0
<1>1. CASE k >= 1
  <2>1. (k - 1) * N >= 0
    BY <1>1
  <2>2. k * N = (k - 1) * N + N
    OBVIOUS
  <2> QED BY <2>1, <2>2
<1>2. CASE k <= -1
  <2>1. (-1 - k) * N >= 0
    BY <1>2
  <2>2. (-1 - k) * N = -N - k * N
    OBVIOUS
  <2>3. k * N \in Int
    OBVIOUS
  <2> QED BY <2>1, <2>2, <2>3
<1> QED BY <1>1, <1>2

\* Numbers less than N apart are told apart by their remainders.
LEMMA ModNear ==
    ASSUME NEW N \in Nat, N > 0, NEW a \in Int, NEW b \in Int, a % N = b % N,
           a - b < N, b - a < N
    PROVE  a = b
<1>1. a = (a \div N) * N + (a % N) /\ a \div N \in Int /\ a % N \in Int
  OBVIOUS
<1>2. b = (b \div N) * N + (b % N) /\ b \div N \in Int /\ b % N \in Int
  OBVIOUS
<1> DEFINE k == (a \div N) - (b \div N)
<1>3. k \in Int
  BY <1>1, <1>2
<1>4. k * N = (a \div N) * N - (b \div N) * N
  BY <1>1, <1>2
<1>5. k * N = a - b
  BY <1>1, <1>2, <1>4
<1> HIDE DEF k
<1>6. k = 0
  BY <1>3, <1>5, SmallMultipleOf
<1> QED BY <1>5, <1>6

\* Remainders may be taken before an addition.
LEMMA ModShift ==
    ASSUME NEW N \in Nat, N > 0, NEW a \in Int, NEW i \in Int
    PROVE  ((a % N) + i) % N = (a + i) % N
<1> DEFINE q == a \div N
           r == a % N
           x == r + i
           y == a + i
<1>1. a = q * N + r /\ q \in Int /\ r \in Int
  OBVIOUS
<1> HIDE DEF q, r
<1>2. x = (x \div N) * N + (x % N) /\ x \div N \in Int /\ x % N \in 0..(N - 1)
  BY <1>1
<1>3. y = (y \div N) * N + (y % N) /\ y \div N \in Int /\ y % N \in 0..(N - 1)
  OBVIOUS
<1>4. y - x = q * N
  BY <1>1
<1> DEFINE k == (x \div N) + q - (y \div N)
<1>5. k \in Int /\ k * N = (x \div N) * N + q * N - (y \div N) * N
  BY <1>1, <1>2, <1>3
<1>6. k * N = (y % N) - (x % N)
  BY <1>1, <1>2, <1>3, <1>4, <1>5
<1> HIDE DEF k
<1>7. k * N > -N /\ k * N < N
  BY <1>2, <1>3, <1>6
<1>8. k = 0
  BY <1>5, <1>7, SmallMultipleOf
<1>9. y % N = x % N
  BY <1>2, <1>3, <1>6, <1>8
<1> QED BY <1>9 DEF r

\* The distance of two numbers less than N apart is the distance of their remainders.
LEMMA ModDistance ==
    ASSUME NEW N \in Nat, N > 0, NEW a \in Int, NEW b \in Int, b <= a, a - b < N
    PROVE  ((a % N) - (b % N)) % N = a - b
<1> DEFINE q == a \div N
           r == a % N
           p == b \div N
           t == b % N
           x == r - t
           d == a - b
<1>1. a = q * N + r /\ q \in Int /\ r \in Int /\ b = p * N + t /\ p \in Int /\ t \in Int
  OBVIOUS
<1> HIDE DEF q, r, p, t
<1>2. x = (x \div N) * N + (x % N) /\ x \div N \in Int /\ x % N \in 0..(N - 1)
  BY <1>1
<1> DEFINE k == (x \div N) + q - p
<1>3. k \in Int /\ k * N = (x \div N) * N + q * N - p * N
  BY <1>1, <1>2
<1>4. k * N = d - (x % N)
  <2>1. q * N \in Int /\ p * N \in Int /\ (x \div N) * N \in Int
    BY <1>1, <1>2
  <2>2. d = q * N + r - p * N - t
    BY <1>1, <2>1
  <2> HIDE DEF k, d
  <2> QED BY <1>1, <1>2, <1>3, <2>1, <2>2
<1> HIDE DEF k
<1>5. k * N > -N /\ k * N < N
  BY <1>2, <1>4
<1>6. k = 0
  BY <1>3, <1>5, SmallMultipleOf
<1>7. x % N = d
  <2>1. x % N \in Int /\ d \in Int /\ k * N = 0
    BY <1>2, <1>6
  <2> HIDE DEF x, d
  <2> QED BY <1>4, <2>1
<1> QED BY <1>7 DEF r, t
-----------------------------------------------------------------------------
\* Sequences.

\* The elements of a sequence are what stands at its places.
LEMMA RangeIs ==
    ASSUME NEW S, NEW s \in Seq(S)
    PROVE  \A x : x \in Range(s) <=> \E i \in 1 .. Len(s) : s[i] = x
BY LenProperties DEF Range

\* RemoveAt takes one place out.
LEMMA RemoveAtIs ==
    ASSUME NEW S, NEW s \in Seq(S), NEW i \in 1 .. Len(s)
    PROVE  /\ RemoveAt(s, i) \in Seq(S)
           /\ Len(RemoveAt(s, i)) = Len(s) - 1
           /\ \A j \in 1 .. Len(s) - 1 :
                RemoveAt(s, i)[j] = IF j < i THEN s[j] ELSE s[j + 1]
<1> DEFINE a == SubSeq(s, 1, i - 1)
           b == SubSeq(s, i + 1, Len(s))
<1>1. /\ a \in Seq(S) /\ Len(a) = i - 1
      /\ \A j \in 1 .. i - 1 : a[j] = s[j]
  BY SubSeqProperties
<1>2. /\ b \in Seq(S) /\ Len(b) = Len(s) - i
      /\ \A j \in 1 .. Len(s) - i : b[j] = s[j + i]
  BY SubSeqProperties
<1>3. RemoveAt(s, i) = a \o b
  BY DEF RemoveAt
<1> HIDE DEF a, b
<1>4. /\ a \o b \in Seq(S) /\ Len(a \o b) = Len(s) - 1
      /\ \A j \in 1 .. Len(s) - 1 : (a \o b)[j] = IF j <= i - 1 THEN a[j] ELSE b[j - (i - 1)]
  <2>1. /\ a \o b \in Seq(S) /\ Len(a \o b) = Len(a) + Len(b)
        /\ \A j \in 1 .. Len(a) + Len(b) :
             (a \o b)[j] = IF j <= Len(a) THEN a[j] ELSE b[j - Len(a)]
    BY <1>1, <1>2, ConcatProperties, Zenon
  <2>2. Len(a) + Len(b) = Len(s) - 1 /\ Len(a) = i - 1
    BY <1>1, <1>2
  <2> QED BY <2>1, <2>2
<1>5. ASSUME NEW j \in 1 .. Len(s) - 1
      PROVE  (a \o b)[j] = IF j < i THEN s[j] ELSE s[j + 1]
  <2>0. Len(s) \in Nat /\ i \in Nat /\ j \in Nat
    BY LenProperties
  <2>1. CASE j < i
    BY <1>1, <1>4, <2>1
  <2>2. CASE j >= i
    <3>1. /\ j - (i - 1) \in 1 .. Len(s) - i /\ (j - (i - 1)) + i = j + 1
          /\ ~(j <= i - 1) /\ ~(j < i)
      BY <2>2
    <3>2. (a \o b)[j] = b[j - (i - 1)]
      BY <1>4, <3>1
    <3>3. b[j - (i - 1)] = s[(j - (i - 1)) + i]
      BY <1>2, <3>1
    <3> QED BY <3>1, <3>2, <3>3
  <2>3. j < i \/ j >= i
    BY <2>0
  <2> QED BY <2>1, <2>2, <2>3, Zenon
<1> QED BY <1>3, <1>4, <1>5

\* RemoveFirst takes out the first place that holds e, if there is one.
LEMMA RemoveFirstIs ==
    ASSUME NEW S, NEW s \in Seq(S), NEW e
    PROVE  \/ e \notin Range(s) /\ RemoveFirst(s, e) = s
           \/ \E i \in 1 .. Len(s) : s[i] = e /\ RemoveFirst(s, e) = RemoveAt(s, i)
<1>1. CASE e \notin Range(s)
  BY <1>1, RangeIs DEF RemoveFirst
<1>2. CASE e \in Range(s)
  <2> DEFINE I == {i \in 1 .. Len(s) : s[i] = e}
  <2>1. I # {} /\ I \in SUBSET Nat
    BY <1>2, RangeIs
  <2>2. Min(I) \in I
    BY <2>1, MinOfNats
  <2>3. RemoveFirst(s, e) = RemoveAt(s, Min(I))
    BY <2>1 DEF RemoveFirst, SelectInSeq
  <2> QED BY <2>2, <2>3
<1> QED BY <1>1, <1>2

\* InsertAt puts e at a place and moves the rest up.
LEMMA InsertAtIs ==
    ASSUME NEW S, NEW s \in Seq(S), NEW e \in S, NEW i \in 1 .. Len(s) + 1
    PROVE  /\ InsertAt(s, i, e) \in Seq(S)
           /\ Len(InsertAt(s, i, e)) = Len(s) + 1
           /\ \A j \in 1 .. Len(s) + 1 :
                InsertAt(s, i, e)[j] = IF j < i THEN s[j] ELSE IF j = i THEN e ELSE s[j - 1]
<1> DEFINE a == SubSeq(s, 1, i - 1)
           b == SubSeq(s, i, Len(s))
           m == <<e>>
<1>1. /\ a \in Seq(S) /\ Len(a) = i - 1
      /\ \A j \in 1 .. i - 1 : a[j] = s[j]
  BY SubSeqProperties
<1>2. /\ b \in Seq(S) /\ Len(b) = Len(s) - i + 1
      /\ \A j \in 1 .. Len(s) - i + 1 : b[j] = s[j + i - 1]
  BY SubSeqProperties
<1>3. m \in Seq(S) /\ Len(m) = 1 /\ m[1] = e
  OBVIOUS
<1>4. InsertAt(s, i, e) = (a \o m) \o b
  BY DEF InsertAt
<1> HIDE DEF a, b, m
<1>5. /\ a \o m \in Seq(S) /\ Len(a \o m) = i
      /\ \A j \in 1 .. i : (a \o m)[j] = IF j <= i - 1 THEN a[j] ELSE m[j - (i - 1)]
  <2>1. /\ a \o m \in Seq(S) /\ Len(a \o m) = Len(a) + Len(m)
        /\ \A j \in 1 .. Len(a) + Len(m) :
             (a \o m)[j] = IF j <= Len(a) THEN a[j] ELSE m[j - Len(a)]
    BY <1>1, <1>3, ConcatProperties, Zenon
  <2>2. Len(a) + Len(m) = i /\ Len(a) = i - 1
    BY <1>1, <1>3
  <2> QED BY <2>1, <2>2
<1>6. /\ (a \o m) \o b \in Seq(S) /\ Len((a \o m) \o b) = Len(s) + 1
      /\ \A j \in 1 .. Len(s) + 1 :
           ((a \o m) \o b)[j] = IF j <= i THEN (a \o m)[j] ELSE b[j - i]
  <2> DEFINE c == a \o m
  <2>0. c \in Seq(S) /\ Len(c) = i
    BY <1>5
  <2> HIDE DEF c
  <2>1. /\ c \o b \in Seq(S) /\ Len(c \o b) = Len(c) + Len(b)
        /\ \A j \in 1 .. Len(c) + Len(b) :
             (c \o b)[j] = IF j <= Len(c) THEN c[j] ELSE b[j - Len(c)]
    BY <2>0, <1>2, ConcatProperties, Zenon
  <2>2. Len(c) + Len(b) = Len(s) + 1
    BY <1>2, <2>0
  <2> QED BY <2>0, <2>1, <2>2 DEF c
<1> QED BY <1>1, <1>2, <1>3, <1>4, <1>5, <1>6

\* Appending to the second of two sequences is appending to both.
LEMMA ConcatAppend ==
    ASSUME NEW S, NEW s \in Seq(S), NEW q \in Seq(S), NEW x \in S
    PROVE  /\ s \o Append(q, x) = Append(s \o q, x)
           /\ s \o q \in Seq(S) /\ Append(q, x) \in Seq(S)
<1> DEFINE y == <<x>>
<1>1. y \in Seq(S) /\ s \o q \in Seq(S) /\ Append(q, x) \in Seq(S)
  OBVIOUS
<1>2. Append(q, x) = q \o y /\ Append(s \o q, x) = (s \o q) \o y
  BY <1>1, AppendIsConcat
<1> HIDE DEF y
<1>3. (s \o q) \o y = s \o (q \o y)
  BY <1>1, ConcatAssociative
<1> QED BY <1>1, <1>2, <1>3

=============================================================================
