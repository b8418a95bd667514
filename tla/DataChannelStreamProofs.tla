----------------------- MODULE DataChannelStreamProofs -----------------------
(***************************************************************************)
(* For any number of messages of any number of fragments and any circle of *)
(* stream sequence numbers: when the fragments of one message do not       *)
(* overtake each other, whatever else does, an ordered channel delivers    *)
(* the messages in order, each whole and once, and neither kind of channel *)
(* keeps back a message that has arrived.                                  *)
(***************************************************************************)
EXTENDS DataChannelStream, SequenceLemmas, FiniteSetTheorems

\* The first a fragments of message m.
Part(m, a) == [f \in 1..a |-> <<m, f>>]

\* What the buffer knows of message m: the a fragments that are no longer in flight.
Entry(pending, flight, m) ==
    \E a \in 0..FragmentCounts[m] :
        /\ \A f \in 1..FragmentCounts[m] : <<m, f>> \in flight <=> f > a
        /\ a = 0 => SsnOf(m) \notin DOMAIN pending
        /\ a > 0 => /\ SsnOf(m) \in DOMAIN pending
                    /\ pending[SsnOf(m)] = [payload |-> Part(m, a),
                                            complete |-> a = FragmentCounts[m]]

\* The buffer holds what has arrived of the messages U, and nothing else.
Holds(pending, flight, U) ==
    /\ \A m \in U : Entry(pending, flight, m)
    /\ \A ssn \in DOMAIN pending : \E m \in U : ssn = SsnOf(m)

Delivered == {m \in 1..sent : \E i \in 1..Len(delivered) : delivered[i] = Whole(m)}
Undelivered == (1..sent) \ Delivered

\* Messages within half the circle of each other.
Window(U) ==
    /\ U \subseteq DOMAIN FragmentCounts
    /\ \A m, k \in U : m - k < MaxOutstanding

ChannelInv ==
    /\ unordered \in BOOLEAN /\ sent \in 0..Len(FragmentCounts)
    /\ \A c \in inFlight : \E m \in Undelivered : \E f \in 1..FragmentCounts[m] : c = <<m, f>>
    /\ delivered \in Seq({Whole(m) : m \in 1..sent})
    /\ \A i, j \in 1..Len(delivered) : delivered[i] = delivered[j] => i = j
    /\ Window(Undelivered)
    /\ \A m \in Undelivered : \E c \in inFlight : c[1] <= m

BufferInv ==
    /\ buffer = [mNextSsn |-> buffer.mNextSsn, mPending |-> buffer.mPending]
    /\ Holds(buffer.mPending, inFlight, Undelivered)

\* An ordered channel has delivered the first messages; the next one is on its way.
OrderedInv ==
    ~unordered =>
        /\ Len(delivered) <= sent
        /\ \A i \in 1..Len(delivered) : delivered[i] = Whole(i)
        /\ buffer.mNextSsn = SsnOf(Len(delivered) + 1)

\* An unordered channel has delivered every message that is not on its way.
UnorderedInv == unordered => \A m \in Undelivered : \E c \in inFlight : c[1] = m

StreamInv == ChannelInv /\ BufferInv /\ OrderedInv /\ UnorderedInv
-----------------------------------------------------------------------------
\* Messages and stream sequence numbers.

\* A message that is sent has at least one fragment.
LEMMA CountIs ==
    ASSUME NEW m \in DOMAIN FragmentCounts
    PROVE  FragmentCounts[m] \in Nat /\ FragmentCounts[m] > 0 /\ m \in Nat /\ m > 0
<1>1. FragmentCounts \in Seq(Nat \ {0})
  BY StreamAssumption
<1>2. DOMAIN FragmentCounts = 1..Len(FragmentCounts) /\ Len(FragmentCounts) \in Nat
  BY <1>1, LenProperties
<1>3. FragmentCounts[m] \in Nat \ {0}
  BY <1>1, <1>2, ElementOfSeq
<1> QED BY <1>2, <1>3

\* A message is known by its first fragment.
LEMMA WholeIs ==
    ASSUME NEW m \in DOMAIN FragmentCounts
    PROVE  /\ Whole(m) = Part(m, FragmentCounts[m])
           /\ Whole(m)[1][1] = m
<1>1. 1 \in 1..FragmentCounts[m]
  BY CountIs
<1>2. Whole(m)[1] = <<m, 1>>
  BY <1>1 DEF Whole
<1> QED BY <1>2 DEF Whole, Part

\* Messages of one window have different stream sequence numbers.
LEMMA SsnDistinct ==
    ASSUME NEW m \in Nat, NEW k \in Nat, m - k < MaxOutstanding, k - m < MaxOutstanding,
           SsnOf(m) = SsnOf(k)
    PROVE  m = k
<1>1. /\ SsnCount \in Nat /\ SsnCount > 0 /\ MaxOutstanding \in Nat
      /\ MaxOutstanding <= SsnCount /\ FirstSsn \in Int
  BY SsnAssumption, StreamAssumption
<1> DEFINE a == FirstSsn + m - 1
           b == FirstSsn + k - 1
<1>2. a \in Int /\ b \in Int /\ a - b < SsnCount /\ b - a < SsnCount
  BY <1>1
<1>3. a % SsnCount = b % SsnCount
  BY DEF SsnOf
<1> HIDE DEF a, b
<1>4. a = b
  BY <1>1, <1>2, <1>3, ModNear
<1> QED BY <1>1, <1>4 DEF a, b

\* The stream sequence numbers after that of message m belong to the messages after it.
LEMMA SsnFollows ==
    ASSUME NEW m \in Nat, NEW i \in Nat
    PROVE  /\ (SsnOf(m) + i) % SsnCount = SsnOf(m + i)
           /\ SsnOf(m) \in 0..(SsnCount - 1)
<1>1. SsnCount \in Nat /\ SsnCount > 0 /\ FirstSsn \in Int
  BY SsnAssumption, StreamAssumption
<1> DEFINE a == FirstSsn + m - 1
<1>2. a \in Int /\ i \in Int /\ a + i = FirstSsn + (m + i) - 1
  BY <1>1
<1>3. SsnOf(m) = a % SsnCount /\ SsnOf(m + i) = (a + i) % SsnCount
  <2>1. SsnOf(m) = a % SsnCount /\ SsnOf(m + i) = (FirstSsn + (m + i) - 1) % SsnCount
    BY DEF SsnOf
  <2> HIDE DEF a
  <2> QED BY <1>2, <2>1
<1> HIDE DEF a
<1>4. ((a % SsnCount) + i) % SsnCount = (a + i) % SsnCount
  BY <1>1, <1>2, ModShift
<1>5. a % SsnCount \in 0..(SsnCount - 1)
  BY <1>1, <1>2
<1> QED BY <1>3, <1>4, <1>5

\* A stream sequence number of the window is not taken for one that has passed.
LEMMA NotBefore ==
    ASSUME NEW m \in Nat, NEW k \in Nat, k <= m, m - k < MaxOutstanding
    PROVE  ~SsnBefore(SsnOf(m), SsnOf(k))
<1>1. /\ SsnCount \in Nat /\ SsnCount > 0 /\ MaxOutstanding \in Nat
      /\ MaxOutstanding <= SsnCount \div 2 /\ SsnCount \div 2 <= SsnCount /\ FirstSsn \in Int
  BY SsnAssumption, StreamAssumption
<1> DEFINE a == FirstSsn + m - 1
           b == FirstSsn + k - 1
<1>2. a \in Int /\ b \in Int /\ b <= a /\ a - b < SsnCount /\ a - b < SsnCount \div 2
  BY <1>1
<1>3. SsnOf(m) = a % SsnCount /\ SsnOf(k) = b % SsnCount
  BY DEF SsnOf
<1> HIDE DEF a, b
<1>4. ((a % SsnCount) - (b % SsnCount)) % SsnCount = a - b
  BY <1>1, <1>2, ModDistance
<1> QED BY <1>1, <1>2, <1>3, <1>4 DEF SsnBefore
-----------------------------------------------------------------------------
\* The buffer.

OldEntry(p, ssn) ==
    IF ssn \in DOMAIN p THEN p[ssn] ELSE [payload |-> <<>>, complete |-> FALSE]

NewEntry(p, ssn, isFirst, isLast, data) ==
    [payload |-> Append(IF isFirst THEN <<>> ELSE OldEntry(p, ssn).payload, data),
     complete |-> OldEntry(p, ssn).complete \/ isLast]

\* Accumulate changes the entry of one message.
LEMMA AccumulateIs ==
    ASSUME NEW next, NEW p, NEW ssn, NEW isFirst, NEW isLast, NEW data
    PROVE  Accumulate([mNextSsn |-> next, mPending |-> p], ssn, isFirst, isLast, data)
             = [mNextSsn |-> next,
                mPending |-> [s \in DOMAIN p \cup {ssn} |->
                                IF s = ssn THEN NewEntry(p, ssn, isFirst, isLast, data)
                                ELSE p[s]]]
<1> DEFINE buf == [mNextSsn |-> next, mPending |-> p]
           q == [s \in DOMAIN p \cup {ssn} |->
                   IF s = ssn THEN NewEntry(p, ssn, isFirst, isLast, data) ELSE p[s]]
<1>1. Accumulate(buf, ssn, isFirst, isLast, data) = [buf EXCEPT !.mPending = q]
  BY DEF Accumulate, NewEntry, OldEntry
<1> HIDE DEF q
<1>2. [buf EXCEPT !.mPending = q] = [mNextSsn |-> next, mPending |-> q]
  OBVIOUS
<1> QED BY <1>1, <1>2 DEF q

\* A buffer, a buffer without some entries, the stream sequence numbers of a set of
\* messages, and a buffer after fragment f of message m.
Buf(next, p) == [mNextSsn |-> next, mPending |-> p]
Without(p, ssns) == [s \in (DOMAIN p) \ ssns |-> p[s]]
SsnsOf(D, ssns) == \A x : x \in ssns <=> \E m \in D : x = SsnOf(m)
Joined(next, p, m, f) ==
    Accumulate(Buf(next, p), SsnOf(m), f = 1, f = FragmentCounts[m], <<m, f>>)

\* A fragment that comes in its turn completes what the buffer holds of its message.
LEMMA AccumulateHolds ==
    ASSUME NEW next, NEW p, NEW flight, NEW U, NEW m \in U, NEW f \in 1..FragmentCounts[m],
           Window(U), Holds(p, flight, U), <<m, f>> \in flight,
           \A g \in 1..FragmentCounts[m] : <<m, g>> \in flight => f <= g
    PROVE  /\ Joined(next, p, m, f) = Buf(next, Joined(next, p, m, f).mPending)
           /\ Holds(Joined(next, p, m, f).mPending, flight \ {<<m, f>>}, U)
<1> DEFINE ssn == SsnOf(m)
           n == FragmentCounts[m]
           acc == Accumulate([mNextSsn |-> next, mPending |-> p], ssn, f = 1, f = n, <<m, f>>)
           q == acc.mPending
           rest == flight \ {<<m, f>>}
<1>1. n \in Nat /\ n > 0 /\ m \in Nat
  BY CountIs DEF Window
<1>2. PICK a \in 0..n :
         /\ \A g \in 1..n : <<m, g>> \in flight <=> g > a
         /\ a = 0 => ssn \notin DOMAIN p
         /\ a > 0 => ssn \in DOMAIN p /\ p[ssn] = [payload |-> Part(m, a), complete |-> a = n]
  BY DEF Holds, Entry
<1>3. f = a + 1
  <2>1. f > a
    BY <1>2
  <2>2. a + 1 \in 1..n
    BY <1>1, <2>1
  <2>3. <<m, a + 1>> \in flight
    BY <1>2, <2>2
  <2> QED BY <1>1, <2>1, <2>2, <2>3
<1> DEFINE new == NewEntry(p, ssn, f = 1, f = n, <<m, f>>)
<1>4. /\ acc = [mNextSsn |-> next, mPending |-> q]
      /\ DOMAIN q = DOMAIN p \cup {ssn}
      /\ \A s \in DOMAIN p \ {ssn} : q[s] = p[s]
      /\ q[ssn] = new
  <2> DEFINE r == [s \in DOMAIN p \cup {ssn} |-> IF s = ssn THEN new ELSE p[s]]
  <2>1. acc = [mNextSsn |-> next, mPending |-> r]
    <3> DEFINE is1 == f = 1
               isn == f = n
               x == <<m, f>>
    <3> HIDE DEF is1, isn, x, ssn
    <3>1. Accumulate([mNextSsn |-> next, mPending |-> p], ssn, is1, isn, x)
            = [mNextSsn |-> next,
               mPending |-> [s \in DOMAIN p \cup {ssn} |->
                               IF s = ssn THEN NewEntry(p, ssn, is1, isn, x) ELSE p[s]]]
      BY AccumulateIs
    <3> QED BY <3>1 DEF is1, isn, x
  <2> HIDE DEF acc, r, new, ssn
  <2>2. q = r
    BY <2>1
  <2>3. DOMAIN r = DOMAIN p \cup {ssn} /\ (\A s \in DOMAIN p \ {ssn} : r[s] = p[s])
        /\ r[ssn] = new
    BY DEF r
  <2> QED BY <2>1, <2>2, <2>3
<1> HIDE DEF q, acc
<1>5. q[ssn] = [payload |-> Part(m, f), complete |-> f = n]
  <2> DEFINE old == OldEntry(p, ssn)
  <2>1. old.complete = FALSE
    <3>1. CASE a = 0
      BY <1>2, <3>1 DEF OldEntry
    <3>2. CASE a > 0
      <4>1. old = [payload |-> Part(m, a), complete |-> a = n]
        BY <1>2, <3>2 DEF OldEntry
      <4>2. (a = n) = FALSE
        BY <1>1, <1>3
      <4> HIDE DEF old
      <4>3. old = [payload |-> Part(m, a), complete |-> FALSE]
        BY <4>1, <4>2, Zenon
      <4> QED BY <4>3
    <3>3. a = 0 \/ a > 0
      BY <1>1
    <3> QED BY <3>1, <3>2, <3>3, Zenon
  <2>2. Append(IF f = 1 THEN <<>> ELSE old.payload, <<m, f>>) = Part(m, f)
    <3>1. CASE f = 1
      BY <3>1 DEF Part
    <3>2. CASE f # 1
      <4>1. old.payload = Part(m, a)
        BY <1>2, <1>3, <3>2 DEF OldEntry
      <4> DEFINE x == <<m, a + 1>>
                 s == [g \in 1..a |-> <<m, g>>]
      <4>2. Append(s, x) = [g \in 1..(a + 1) |-> <<m, g>>]
        OBVIOUS
      <4> QED BY <1>3, <3>2, <4>1, <4>2 DEF Part
    <3> QED BY <3>1, <3>2
  <2> DEFINE pay == Append(IF f = 1 THEN <<>> ELSE old.payload, <<m, f>>)
             isLast == f = n
  <2>3. new = [payload |-> pay, complete |-> old.complete \/ isLast]
    BY DEF NewEntry
  <2>4. (old.complete \/ isLast) = isLast
    BY <2>1
  <2> HIDE DEF old, pay, new
  <2>5. new = [payload |-> Part(m, f), complete |-> isLast]
    BY <2>2, <2>3, <2>4, Zenon DEF pay
  <2> QED BY <1>4, <2>5
<1>6. \A k \in U : Entry(q, rest, k)
  <2> SUFFICES ASSUME NEW k \in U PROVE Entry(q, rest, k)
    OBVIOUS
  <2>1. CASE k = m
    <3>1. \A g \in 1..n : <<m, g>> \in rest <=> g > f
      <4>1. \A g \in 1..n : <<m, g>> = <<m, f>> <=> g = f
        OBVIOUS
      <4> QED BY <1>1, <1>2, <1>3, <4>1
    <3>2. f \in 0..n /\ f > 0 /\ ssn \in DOMAIN q
      BY <1>1, <1>4
    <3> HIDE DEF rest
    <3> QED BY <1>5, <2>1, <3>1, <3>2 DEF Entry
  <2>2. CASE k # m
    <3>1. k \in Nat /\ SsnOf(k) # ssn
      BY <1>1, <2>2, SsnDistinct, CountIs DEF Window
    <3>2. \A g : <<k, g>> \in rest <=> <<k, g>> \in flight
      BY <2>2
    <3>3. SsnOf(k) \in DOMAIN q <=> SsnOf(k) \in DOMAIN p
      BY <1>4, <3>1
    <3>4. SsnOf(k) \in DOMAIN p => q[SsnOf(k)] = p[SsnOf(k)]
      BY <1>4, <3>1
    <3>5. Entry(p, flight, k)
      BY DEF Holds
    <3> HIDE DEF rest, ssn
    <3> QED BY <3>2, <3>3, <3>4, <3>5 DEF Entry
  <2> QED BY <2>1, <2>2
<1>7. \A s \in DOMAIN q : \E k \in U : s = SsnOf(k)
  BY <1>4 DEF Holds
<1>8. Holds(q, rest, U)
  BY <1>6, <1>7 DEF Holds
<1> QED BY <1>4, <1>8 DEF q, acc, Joined, Buf

\* Erase takes entries out.
LEMMA EraseIs ==
    ASSUME NEW next, NEW p, NEW ssns
    PROVE  Erase(Buf(next, p), ssns) = Buf(next, Without(p, ssns))
<1> DEFINE buf == [mNextSsn |-> next, mPending |-> p]
           q == [s \in (DOMAIN p) \ ssns |-> p[s]]
<1>1. Erase(buf, ssns) = [buf EXCEPT !.mPending = q]
  BY DEF Erase
<1> HIDE DEF q
<1>2. [buf EXCEPT !.mPending = q] = [mNextSsn |-> next, mPending |-> q]
  OBVIOUS
<1> QED BY <1>1, <1>2 DEF Buf, Without, q

\* Erasing the entries of messages that are delivered leaves the others alone.
LEMMA EraseHolds ==
    ASSUME NEW p, NEW flight, NEW U, NEW D, NEW ssns,
           Window(U), Holds(p, flight, U), D \subseteq U, SsnsOf(D, ssns)
    PROVE  Holds(Without(p, ssns), flight, U \ D)
<1> DEFINE q == Without(p, ssns)
<1>1. DOMAIN q = (DOMAIN p) \ ssns /\ \A s \in DOMAIN q : q[s] = p[s]
  BY DEF Without
<1> HIDE DEF q
<1> USE DEF SsnsOf
<1>2. \A m \in U \ D : SsnOf(m) \notin ssns
  <2> SUFFICES ASSUME NEW m \in U \ D, NEW k \in D, SsnOf(m) = SsnOf(k) PROVE FALSE
    OBVIOUS
  <2>1. m \in Nat /\ k \in Nat /\ m - k < MaxOutstanding /\ k - m < MaxOutstanding
    BY CountIs DEF Window
  <2> QED BY <2>1, SsnDistinct
<1>3. \A m \in U \ D : Entry(q, flight, m)
  <2> SUFFICES ASSUME NEW m \in U \ D PROVE Entry(q, flight, m)
    OBVIOUS
  <2>1. Entry(p, flight, m) /\ SsnOf(m) \notin ssns
    BY <1>2 DEF Holds
  <2>2. SsnOf(m) \in DOMAIN q <=> SsnOf(m) \in DOMAIN p
    BY <1>1, <2>1
  <2>3. SsnOf(m) \in DOMAIN p => q[SsnOf(m)] = p[SsnOf(m)]
    BY <1>1, <2>2
  <2> QED BY <2>1, <2>2, <2>3 DEF Entry
<1>4. \A s \in DOMAIN q : \E m \in U \ D : s = SsnOf(m)
  <2> SUFFICES ASSUME NEW s \in DOMAIN q PROVE \E m \in U \ D : s = SsnOf(m)
    OBVIOUS
  <2>1. s \in DOMAIN p /\ s \notin ssns
    BY <1>1
  <2>2. PICK m \in U : s = SsnOf(m)
    BY <2>1 DEF Holds
  <2> QED BY <2>1, <2>2
<1> QED BY <1>3, <1>4 DEF Holds, q

\* What a complete entry says of its message: all of it has arrived.
LEMMA CompleteIs ==
    ASSUME NEW buf, NEW flight, NEW m \in DOMAIN FragmentCounts,
           Entry(buf.mPending, flight, m)
    PROVE  /\ Complete(buf, SsnOf(m)) =>
                 /\ buf.mPending[SsnOf(m)].payload = Whole(m)
                 /\ \A f \in 1..FragmentCounts[m] : <<m, f>> \notin flight
           /\ ~Complete(buf, SsnOf(m)) =>
                 \E f \in 1..FragmentCounts[m] : <<m, f>> \in flight
<1> DEFINE n == FragmentCounts[m]
           p == buf.mPending
           ssn == SsnOf(m)
<1>1. n \in Nat /\ n > 0
  BY CountIs
<1>2. PICK a \in 0..n :
         /\ \A f \in 1..n : <<m, f>> \in flight <=> f > a
         /\ a = 0 => ssn \notin DOMAIN p
         /\ a > 0 => ssn \in DOMAIN p /\ p[ssn] = [payload |-> Part(m, a), complete |-> a = n]
  BY DEF Entry
<1> HIDE DEF p, ssn
<1>3. CASE a = n
  <2>1. (a = n) = TRUE
    BY <1>3
  <2>2. ssn \in DOMAIN p /\ p[ssn] = [payload |-> Part(m, n), complete |-> TRUE]
    <3>1. ssn \in DOMAIN p /\ p[ssn] = [payload |-> Part(m, a), complete |-> a = n]
      BY <1>1, <1>2, <1>3
    <3> QED BY <1>3, <2>1, <3>1, Zenon
  <2>3. p[ssn].payload = Part(m, n) /\ p[ssn].complete = TRUE
    BY <2>2
  <2>4. Complete(buf, ssn)
    BY <2>2, <2>3 DEF Complete, p
  <2>5. p[ssn].payload = Whole(m)
    BY <2>3, WholeIs
  <2> QED BY <1>1, <1>2, <1>3, <2>4, <2>5 DEF p, ssn
<1>4. CASE a # n
  <2>1. (a = n) = FALSE /\ a < n
    BY <1>1, <1>4
  <2>2. <<m, n>> \in flight /\ n \in 1..n
    BY <1>1, <1>2, <2>1
  <2>3. ~Complete(buf, ssn)
    <3>1. CASE a = 0
      BY <1>2, <3>1 DEF Complete, p
    <3>2. CASE a # 0
      <4>1. p[ssn] = [payload |-> Part(m, a), complete |-> a = n]
        BY <1>1, <1>2, <3>2
      <4>2. p[ssn] = [payload |-> Part(m, a), complete |-> FALSE]
        BY <2>1, <4>1, Zenon
      <4>3. p[ssn].complete = FALSE
        BY <4>2
      <4> QED BY <4>3 DEF Complete, p
    <3> QED BY <3>1, <3>2
  <2> QED BY <2>2, <2>3 DEF ssn
<1> QED BY <1>3, <1>4

\* The loop of receive() walks over the complete messages at the front, all of them and
\* no other: it stops at the first that is not complete.
LEMMA DrainCountIs ==
    ASSUME NEW buf, NEW flight, NEW d \in Nat, NEW s \in Nat, d <= s,
           Window((d + 1)..s), Holds(buf.mPending, flight, (d + 1)..s),
           buf.mNextSsn = SsnOf(d + 1)
    PROVE  /\ DrainCount(buf) \in 0..(s - d)
           /\ \A i \in 1..DrainCount(buf) : Complete(buf, SsnOf(d + i))
           /\ d + DrainCount(buf) < s => ~Complete(buf, SsnOf(d + DrainCount(buf) + 1))
<1> DEFINE P == DOMAIN buf.mPending
           K == Cardinality(P)
           U == (d + 1)..s
           ok(i) == Complete(buf, (buf.mNextSsn + i) % SsnCount)
<1>1. ASSUME NEW i \in Nat PROVE (buf.mNextSsn + i) % SsnCount = SsnOf(d + 1 + i)
  BY <1>1, SsnFollows
<1>2. IsFiniteSet(P) /\ K \in Nat /\ K <= s - d
  <2> DEFINE img == {SsnOf(m) : m \in U}
             g == [m \in U |-> SsnOf(m)]
  <2>1. P \subseteq img
    BY DEF Holds
  <2>2. g \in Surjection(U, img)
    BY DEF Surjection
  <2>3. IsFiniteSet(U) /\ Cardinality(U) = s - d
    <3>1. d + 1 \in Int /\ s \in Int
      OBVIOUS
    <3> HIDE DEF U
    <3>2. IsFiniteSet(U) /\ Cardinality(U) = IF d + 1 > s THEN 0 ELSE s - (d + 1) + 1
      BY <3>1, FS_Interval DEF U
    <3> QED BY <3>2
  <2> HIDE DEF img, g, U, P
  <2>4. IsFiniteSet(img) /\ Cardinality(img) <= s - d
    BY <2>2, <2>3, FS_Surjection
  <2>5. IsFiniteSet(P) /\ Cardinality(P) <= Cardinality(img)
    BY <2>1, <2>4, FS_Subset
  <2>6. Cardinality(P) \in Nat /\ Cardinality(img) \in Nat
    BY <2>4, <2>5, FS_CardinalityType
  <2> QED BY <2>4, <2>5, <2>6
<1> HIDE DEF P
<1>3. \E n \in 0..K : (\A i \in 0..(n - 1) : ok(i)) /\ (n < K => ~ok(n))
  <2> HIDE DEF ok
  <2> DEFINE T == {n \in Nat : n = K \/ ~ok(n)}
  <2>1. T \in SUBSET Nat /\ K \in T
    BY <1>2
  <2>2. Min(T) \in T /\ \A y \in T : Min(T) <= y
    BY <2>1, MinOfNats
  <2> DEFINE n == Min(T)
  <2>3. n \in 0..K /\ (n = K \/ ~ok(n))
    BY <1>2, <2>1, <2>2
  <2> HIDE DEF n
  <2>4. ASSUME NEW i \in 0..(n - 1) PROVE ok(i)
    <3>1. i \in Nat /\ i < n
      BY <2>3
    <3>2. i \notin T
      BY <2>2, <2>3, <3>1 DEF n
    <3> QED BY <3>1, <3>2
  <2> QED BY <1>2, <2>3, <2>4
<1> DEFINE n == DrainCount(buf)
<1>4. n \in 0..K /\ (\A i \in 0..(n - 1) : ok(i)) /\ (n < K => ~ok(n))
  BY <1>3 DEF DrainCount, P
<1> HIDE DEF n
<1>5. n \in Nat /\ n <= s - d
  BY <1>2, <1>4
<1>6. ASSUME NEW i \in 1..n PROVE Complete(buf, SsnOf(d + i))
  <2>1. i - 1 \in 0..(n - 1) /\ i - 1 \in Nat /\ d + 1 + (i - 1) = d + i
    BY <1>5
  <2>2. ok(i - 1)
    BY <1>4, <2>1
  <2> QED BY <1>1, <2>1, <2>2
<1>7. ASSUME d + n < s PROVE ~Complete(buf, SsnOf(d + n + 1))
  <2>1. CASE n < K
    <3>1. ~ok(n) /\ d + 1 + n = d + n + 1
      BY <1>4, <1>5, <2>1
    <3> QED BY <1>1, <1>5, <3>1
  <2>2. CASE ~(n < K)
    <3> SUFFICES ASSUME Complete(buf, SsnOf(d + n + 1)) PROVE FALSE
      OBVIOUS
    <3> DEFINE I == 1..(n + 1)
               g == [i \in I |-> SsnOf(d + i)]
    <3>1. n = K
      BY <1>2, <1>4, <2>2
    <3>2. ASSUME NEW i \in I PROVE SsnOf(d + i) \in P
      <4>1. i \in 1..n \/ i = n + 1
        BY <1>5
      <4>2. CASE i \in 1..n
        BY <1>6, <4>2 DEF Complete, P
      <4>3. CASE i = n + 1
        <5>1. d + i = d + n + 1
          BY <1>5, <4>3
        <5> QED BY <5>1 DEF Complete, P
      <4> QED BY <4>1, <4>2, <4>3
    <3>3. ASSUME NEW i \in I, NEW j \in I, SsnOf(d + i) = SsnOf(d + j) PROVE i = j
      <4>1. i \in Nat /\ j \in Nat /\ d + i \in U /\ d + j \in U
        BY <1>5, <1>7
      <4>2. d + i \in Nat /\ d + j \in Nat
        BY <4>1
      <4>3. (d + i) - (d + j) < MaxOutstanding /\ (d + j) - (d + i) < MaxOutstanding
        BY <4>1 DEF Window
      <4> DEFINE x == d + i
                 y == d + j
      <4> HIDE DEF x, y
      <4>4. x = y
        BY <3>3, <4>2, <4>3, SsnDistinct DEF x, y
      <4> QED BY <4>1, <4>4 DEF x, y
    <3>4. g \in Injection(I, P)
      <4>1. g \in [I -> P]
        BY <3>2
      <4>2. \A i \in I : g[i] = SsnOf(d + i)
        OBVIOUS
      <4> HIDE DEF g, I
      <4>3. \A i, j \in I : g[i] = g[j] => i = j
        BY <3>3, <4>2
      <4> QED BY <4>1, <4>3 DEF Injection, IsInjective
    <3>5. IsFiniteSet(I) /\ Cardinality(I) = n + 1
      <4>1. 1 \in Int /\ n + 1 \in Int /\ n + 1 >= 1
        BY <1>5
      <4> DEFINE b == n + 1
      <4> HIDE DEF b
      <4>2. IsFiniteSet(1..b) /\ Cardinality(1..b) = IF 1 > b THEN 0 ELSE b - 1 + 1
        BY <4>1, FS_Interval DEF b
      <4> QED BY <1>5, <4>1, <4>2 DEF b
    <3> HIDE DEF I, g
    <3>6. Cardinality(I) <= K
      BY <1>2, <3>4, FS_Injection
    <3> QED BY <1>5, <3>1, <3>5, <3>6
  <2> QED BY <2>1, <2>2
<1> QED BY <1>5, <1>6, <1>7 DEF n

\* What receive() returns when it walks over the n messages after message d, of s: they are
\* complete, and the buffer keeps the rest, q, and waits for the next one.
Drained(next, p, flight, d, s, n, q) ==
    /\ Drain([mNextSsn |-> next, mPending |-> p]) =
          [buf |-> [mNextSsn |-> SsnOf(d + n + 1), mPending |-> q],
           out |-> [i \in 1..n |-> Whole(d + i)]]
    /\ Holds(q, flight, (d + n + 1)..s)
    /\ \A m \in (d + 1)..(d + n) : \A f \in 1..FragmentCounts[m] : <<m, f>> \notin flight
    /\ d + n < s => \E f \in 1..FragmentCounts[d + n + 1] : <<d + n + 1, f>> \in flight

\* On an ordered channel receive() returns the complete messages at the front, all of them.
LEMMA DrainIs ==
    ASSUME NEW next, NEW p, NEW flight, NEW d \in Nat, NEW s \in Nat, d <= s,
           Window((d + 1)..s), Holds(p, flight, (d + 1)..s), next = SsnOf(d + 1)
    PROVE  \E n \in 0..(s - d) : \E q : Drained(next, p, flight, d, s, n, q)
<1> DEFINE buf == [mNextSsn |-> next, mPending |-> p]
           U == (d + 1)..s
           n == DrainCount(buf)
           ssn(i) == (buf.mNextSsn + i - 1) % SsnCount
           ssns == {ssn(i) : i \in 1..n}
           D == (d + 1)..(d + n)
<1>1. buf.mNextSsn = next /\ buf.mPending = p
  OBVIOUS
<1>2. /\ n \in 0..(s - d)
      /\ \A i \in 1..n : Complete(buf, SsnOf(d + i))
      /\ d + n < s => ~Complete(buf, SsnOf(d + n + 1))
  BY <1>1, DrainCountIs
<1>3. Drain(buf) = [buf |-> [Erase(buf, ssns) EXCEPT !.mNextSsn = (@ + n) % SsnCount],
                    out |-> [i \in 1..n |-> p[ssn(i)].payload]]
  BY <1>1 DEF Drain
<1> HIDE DEF n
<1>4. n \in Nat /\ n <= s - d
  BY <1>2
<1>5. ASSUME NEW i \in 1..n PROVE ssn(i) = SsnOf(d + i)
  <2>1. i - 1 \in Nat /\ d + 1 \in Nat /\ d + 1 + (i - 1) = d + i
    BY <1>4
  <2>2. (SsnOf(d + 1) + (i - 1)) % SsnCount = SsnOf(d + 1 + (i - 1))
    BY <2>1, SsnFollows
  <2>3. next + i - 1 = next + (i - 1)
    <3>1. next \in 0..(SsnCount - 1) /\ SsnCount \in Nat
      BY <2>1, SsnFollows, SsnAssumption
    <3> QED BY <1>4, <3>1
  <2> QED BY <1>1, <2>1, <2>2, <2>3
<1>6. \A x : x \in ssns <=> \E m \in D : x = SsnOf(m)
  <2>1. ASSUME NEW i \in 1..n PROVE \E m \in D : ssn(i) = SsnOf(m)
    <3>1. d + i \in D
      BY <1>4
    <3> QED BY <1>5, <3>1
  <2>2. ASSUME NEW m \in D PROVE \E i \in 1..n : ssn(i) = SsnOf(m)
    <3>1. m - d \in 1..n /\ d + (m - d) = m
      BY <1>4
    <3> QED BY <1>5, <3>1
  <2> QED BY <2>1, <2>2
<1>7. D \in SUBSET U /\ U \ D = (d + n + 1)..s
  BY <1>4
<1> DEFINE new == Erase(buf, ssns)
           q == Without(p, ssns)
<1>8. new = [mNextSsn |-> next, mPending |-> q] /\ Holds(q, flight, (d + n + 1)..s)
  <2>1. Window(U) /\ Holds(p, flight, U) /\ D \subseteq U
    BY <1>7
  <2>2. SsnsOf(D, ssns)
    BY <1>6 DEF SsnsOf
  <2> HIDE DEF ssns, D, U, n
  <2>3. Holds(q, flight, U \ D)
    BY <2>1, <2>2, EraseHolds
  <2>4. Erase(Buf(next, p), ssns) = Buf(next, q)
    BY EraseIs
  <2> QED BY <1>7, <2>3, <2>4 DEF Buf
<1> HIDE DEF q
<1>9. [new EXCEPT !.mNextSsn = (@ + n) % SsnCount] =
         [mNextSsn |-> SsnOf(d + n + 1), mPending |-> q]
  <2>1. (next + n) % SsnCount = SsnOf(d + n + 1)
    <3>1. d + 1 \in Nat /\ d + 1 + n = d + n + 1
      BY <1>4
    <3> QED BY <1>4, <3>1, SsnFollows
  <2> HIDE DEF new
  <2>2. new.mNextSsn = next
    BY <1>8
  <2> QED BY <1>8, <2>1, <2>2
<1>10. ASSUME NEW m \in U
       PROVE  /\ m \in DOMAIN FragmentCounts
              /\ Complete(buf, SsnOf(m)) => p[SsnOf(m)].payload = Whole(m)
                    /\ \A f \in 1..FragmentCounts[m] : <<m, f>> \notin flight
              /\ ~Complete(buf, SsnOf(m)) => \E f \in 1..FragmentCounts[m] : <<m, f>> \in flight
  <2>1. m \in DOMAIN FragmentCounts /\ Entry(buf.mPending, flight, m)
    BY <1>1 DEF Window, Holds
  <2> HIDE DEF buf
  <2> QED BY <1>1, <2>1, CompleteIs
<1>11. [i \in 1..n |-> p[ssn(i)].payload] = [i \in 1..n |-> Whole(d + i)]
  <2> SUFFICES ASSUME NEW i \in 1..n PROVE p[ssn(i)].payload = Whole(d + i)
    BY Zenon
  <2>1. d + i \in U
    BY <1>4
  <2> QED BY <1>2, <1>5, <1>10, <2>1
<1>12. ASSUME NEW m \in D PROVE \A f \in 1..FragmentCounts[m] : <<m, f>> \notin flight
  <2>1. m - d \in 1..n /\ d + (m - d) = m /\ m \in U
    BY <1>4
  <2> QED BY <1>2, <1>10, <2>1
<1>13. ASSUME d + n < s
       PROVE  \E f \in 1..FragmentCounts[d + n + 1] : <<d + n + 1, f>> \in flight
  <2>1. d + n + 1 \in U
    BY <1>4, <1>13
  <2> QED BY <1>2, <1>10, <1>13, <2>1
<1>14. Drain(buf) = [buf |-> [mNextSsn |-> SsnOf(d + n + 1), mPending |-> q],
                     out |-> [i \in 1..n |-> Whole(d + i)]]
  BY <1>3, <1>9, <1>11
<1> HIDE DEF buf
<1>15. \E r : /\ Drain(buf) = [buf |-> [mNextSsn |-> SsnOf(d + n + 1), mPending |-> r],
                              out |-> [i \in 1..n |-> Whole(d + i)]]
              /\ Holds(r, flight, (d + n + 1)..s)
  BY <1>8, <1>14
<1> QED BY <1>2, <1>12, <1>13, <1>15 DEF buf, Drained
-----------------------------------------------------------------------------
\* The steps.

\* Two messages are different sequences.
LEMMA WholeDistinct ==
    ASSUME NEW m \in DOMAIN FragmentCounts, NEW k \in DOMAIN FragmentCounts, Whole(m) = Whole(k)
    PROVE  m = k
  BY WholeIs

\* Messages that were sent, and what is in flight of them.
LEMMA SentIs ==
    ASSUME ChannelInv
    PROVE  /\ Len(FragmentCounts) \in Nat /\ DOMAIN FragmentCounts = 1..Len(FragmentCounts)
           /\ sent \in Nat /\ 1..sent \subseteq DOMAIN FragmentCounts
           /\ Len(delivered) \in Nat
           /\ \A c \in inFlight : c[1] \in Undelivered /\ c[1] \in Nat
<1>1. FragmentCounts \in Seq(Nat \ {0})
  BY StreamAssumption
<1>2. Len(FragmentCounts) \in Nat /\ DOMAIN FragmentCounts = 1..Len(FragmentCounts)
  BY <1>1, LenProperties
<1>3. sent \in Nat /\ sent <= Len(FragmentCounts)
  BY <1>2 DEF ChannelInv
<1>4. Len(delivered) \in Nat
  BY LenProperties DEF ChannelInv
<1>5. \A c \in inFlight : c[1] \in Undelivered
  BY DEF ChannelInv
<1> QED BY <1>2, <1>3, <1>4, <1>5 DEF Undelivered

\* An ordered channel has delivered the first messages and no other.
LEMMA OrderedUndelivered ==
    ASSUME StreamInv, ~unordered
    PROVE  Undelivered = (Len(delivered) + 1)..sent
<1> DEFINE d == Len(delivered)
<1>1. /\ d \in Nat /\ sent \in Nat /\ d <= sent /\ 1..sent \subseteq DOMAIN FragmentCounts
      /\ \A i \in 1..d : delivered[i] = Whole(i)
  BY SentIs DEF StreamInv, OrderedInv
<1> HIDE DEF d
<1>2. ASSUME NEW m \in 1..sent
      PROVE  (\E i \in 1..d : delivered[i] = Whole(m)) <=> m <= d
  <2>1. ASSUME m <= d PROVE \E i \in 1..d : delivered[i] = Whole(m)
    <3>1. m \in 1..d
      BY <1>1, <2>1
    <3> QED BY <1>1, <3>1
  <2>2. ASSUME NEW i \in 1..d, delivered[i] = Whole(m) PROVE m <= d
    <3>1. i \in 1..sent /\ Whole(i) = Whole(m)
      BY <1>1, <2>2
    <3>2. i = m
      BY <1>1, <3>1, WholeDistinct
    <3> QED BY <3>2
  <2> QED BY <2>1, <2>2
<1>3. Undelivered = {m \in 1..sent : ~(m <= d)}
  BY <1>2 DEF Undelivered, Delivered, d
<1> QED BY <1>1, <1>3 DEF d

\* The channel at its start.
LEMMA StreamInvInit == Init => StreamInv
<1> SUFFICES ASSUME Init PROVE StreamInv
  OBVIOUS
<1>1. /\ unordered \in BOOLEAN /\ sent = 0 /\ inFlight = {} /\ delivered = <<>>
      /\ Len(delivered) = 0 /\ buffer = [mNextSsn |-> FirstSsn, mPending |-> <<>>]
  BY StreamAssumption DEF Init, NewReceiveBuffer
<1>2. Undelivered = {}
  BY <1>1 DEF Undelivered
<1>3. ChannelInv
  <2>1. sent \in 0..Len(FragmentCounts)
    <3>1. FragmentCounts \in Seq(Nat \ {0})
      BY StreamAssumption
    <3> QED BY <1>1, <3>1, LenProperties
  <2>2. delivered \in Seq({Whole(m) : m \in 1..sent})
    BY <1>1
  <2> QED BY <1>1, <1>2, <2>1, <2>2 DEF ChannelInv, Window
<1>4. BufferInv
  <2>1. buffer.mPending = <<>> /\ DOMAIN <<>> = {}
    BY <1>1
  <2> QED BY <1>1, <1>2, <2>1 DEF BufferInv, Holds
<1>5. OrderedInv
  <2>1. SsnOf(1) = FirstSsn
    BY SsnAssumption, StreamAssumption DEF SsnOf
  <2> QED BY <1>1, <2>1 DEF OrderedInv
<1> QED BY <1>2, <1>3, <1>4, <1>5 DEF StreamInv, UnorderedInv

\* Oldest is the first message of which something is in flight.
LEMMA OldestIs ==
    ASSUME ChannelInv, inFlight # {}
    PROVE  Oldest \in Nat /\ \A c \in inFlight : Oldest <= c[1]
<1> DEFINE S == {c[1] : c \in inFlight}
<1>1. S \in SUBSET Nat /\ S # {}
  BY SentIs
<1>2. Min(S) \in S /\ \A y \in S : Min(S) <= y
  BY <1>1, MinOfNats
<1>3. \E m \in S : \A c \in inFlight : m <= c[1]
  BY <1>2
<1>4. Oldest \in S /\ \A c \in inFlight : Oldest <= c[1]
  BY <1>3 DEF Oldest
<1> QED BY <1>1, <1>4

\* A message that is sent is not delivered yet, and close enough to those that are not.
LEMMA SendStep ==
    ASSUME StreamInv, sendMessageNow
    PROVE  StreamInv'
<1> DEFINE x == sent + 1
           U == Undelivered
           new == Fragments(x)
<1>1. /\ sent < Len(FragmentCounts) /\ (inFlight # {} => sent + 1 - Oldest < MaxOutstanding)
      /\ sent' = x /\ inFlight' = inFlight \cup new
      /\ unordered' = unordered /\ buffer' = buffer /\ delivered' = delivered
  BY DEF sendMessageNow
<1>2. ChannelInv
  BY DEF StreamInv
<1>3. /\ sent \in Nat /\ x \in Nat /\ x \in DOMAIN FragmentCounts /\ Len(delivered) \in Nat
      /\ 1..sent \subseteq DOMAIN FragmentCounts /\ 1..x = 1..sent \cup {x} /\ x \notin 1..sent
      /\ \A c \in inFlight : c[1] \in U /\ c[1] \in Nat
  BY <1>1, <1>2, SentIs
<1>4. FragmentCounts[x] \in Nat /\ FragmentCounts[x] > 0
  BY <1>3, CountIs
<1>5. \A m \in U : m \in Nat /\ m \in 1..sent /\ x - m < MaxOutstanding /\ m < x
  <2> SUFFICES ASSUME NEW m \in U
               PROVE  m \in Nat /\ m \in 1..sent /\ x - m < MaxOutstanding /\ m < x
    OBVIOUS
  <2>1. m \in 1..sent
    BY DEF Undelivered
  <2>2. PICK c \in inFlight : c[1] <= m
    BY <1>2 DEF ChannelInv
  <2>3. Oldest \in Nat /\ Oldest <= c[1] /\ c[1] \in Nat
    BY <1>2, <1>3, OldestIs
  <2>4. sent + 1 - Oldest < MaxOutstanding /\ MaxOutstanding \in Nat
    BY <1>1, StreamAssumption
  <2> QED BY <1>3, <2>1, <2>2, <2>3, <2>4
<1> HIDE DEF x
<1>6. Undelivered' = U \cup {x}
  <2>1. ASSUME NEW i \in 1..Len(delivered) PROVE delivered[i] # Whole(x)
    <3>1. PICK m \in 1..sent : delivered[i] = Whole(m)
      <4>1. delivered \in Seq({Whole(m) : m \in 1..sent})
        BY <1>2 DEF ChannelInv
      <4>2. delivered[i] \in {Whole(m) : m \in 1..sent}
        BY <4>1, ElementOfSeq
      <4> QED BY <4>2
    <3> QED BY <1>3, <3>1, WholeDistinct
  <2> QED BY <1>1, <1>3, <2>1 DEF Undelivered, Delivered
<1> HIDE DEF U
<1>7. \A m, f : <<m, f>> \in new <=> m = x /\ f \in 1..FragmentCounts[x]
  BY DEF Fragments
<1>8. \A c \in new : \E f \in 1..FragmentCounts[x] : c = <<x, f>>
  BY DEF Fragments
<1>9. <<x, 1>> \in new /\ <<x, 1>>[1] = x
  BY <1>4, <1>7
<1> HIDE DEF new
<1>10. Window(U \cup {x})
  <2>1. U \subseteq DOMAIN FragmentCounts /\ (\A m, k \in U : m - k < MaxOutstanding)
    BY <1>2 DEF ChannelInv, Window, U
  <2>2. MaxOutstanding \in Nat /\ MaxOutstanding > 0
    BY StreamAssumption
  <2>3. \A m \in U : m - x < MaxOutstanding /\ x - m < MaxOutstanding
    BY <1>3, <1>5, <2>2
  <2>4. x - x < MaxOutstanding
    BY <1>3, <2>2
  <2> QED BY <1>3, <2>1, <2>3, <2>4 DEF Window
<1>11. ChannelInv'
  <2>1. \A c \in inFlight' : \E m \in Undelivered' : \E f \in 1..FragmentCounts[m] : c = <<m, f>>
    <3>1. \A c \in inFlight : \E m \in U : \E f \in 1..FragmentCounts[m] : c = <<m, f>>
      BY <1>2 DEF ChannelInv, U
    <3> QED BY <1>1, <1>6, <1>8, <3>1
  <2>2. delivered' \in Seq({Whole(m) : m \in 1..sent'})
    <3> DEFINE S == {Whole(m) : m \in 1..sent}
               T == {Whole(m) : m \in 1..x}
    <3>1. S \subseteq T /\ delivered \in Seq(S)
      BY <1>2, <1>3 DEF ChannelInv
    <3>2. delivered \in Seq(T)
      <4> HIDE DEF S, T
      <4> QED BY <3>1
    <3> QED BY <1>1, <3>2
  <2>3. \A m \in Undelivered' : \E c \in inFlight' : c[1] <= m
    <3>1. \A m \in U : \E c \in inFlight : c[1] <= m
      BY <1>2 DEF ChannelInv, U
    <3>2. <<x, 1>>[1] <= x
      BY <1>3
    <3> QED BY <1>1, <1>6, <1>9, <3>1, <3>2
  <2>4. sent' \in 0..Len(FragmentCounts)
    BY <1>1, <1>2, <1>3, SentIs DEF x
  <2>5. Window(Undelivered')
    BY <1>6, <1>10
  <2>6. \A i, j \in 1..Len(delivered') : delivered'[i] = delivered'[j] => i = j
    BY <1>1, <1>2 DEF ChannelInv
  <2>7. unordered' \in BOOLEAN
    BY <1>1, <1>2 DEF ChannelInv
  <2> QED BY <2>1, <2>2, <2>3, <2>4, <2>5, <2>6, <2>7 DEF ChannelInv, Window
<1>12. BufferInv'
  <2> DEFINE p == buffer.mPending
  <2>1. Holds(p, inFlight, U) /\ buffer = [mNextSsn |-> buffer.mNextSsn, mPending |-> p]
    BY DEF StreamInv, BufferInv, U
  <2> HIDE DEF p
  <2>2. SsnOf(x) \notin DOMAIN p
    <3> SUFFICES ASSUME SsnOf(x) \in DOMAIN p PROVE FALSE
      OBVIOUS
    <3>1. PICK m \in U : SsnOf(x) = SsnOf(m)
      BY <2>1 DEF Holds
    <3>2. m \in Nat /\ m # x /\ x - m < MaxOutstanding /\ m - x < MaxOutstanding
      <4>1. MaxOutstanding \in Nat /\ MaxOutstanding > 0
        BY StreamAssumption
      <4>2. m \in Nat /\ m < x /\ x - m < MaxOutstanding /\ x \in Nat
        BY <1>3, <1>5
      <4> QED BY <4>1, <4>2
    <3> QED BY <1>3, <3>1, <3>2, SsnDistinct
  <2>3. Entry(p, inFlight', x)
    <3>1. \A f \in 1..FragmentCounts[x] : <<x, f>> \in inFlight' <=> f > 0
      BY <1>1, <1>4, <1>7
    <3>2. 0 \in 0..FragmentCounts[x]
      BY <1>4
    <3> QED BY <2>2, <3>1, <3>2 DEF Entry
  <2>4. \A m \in U : Entry(p, inFlight', m)
    <3> SUFFICES ASSUME NEW m \in U PROVE Entry(p, inFlight', m)
      OBVIOUS
    <3>1. Entry(p, inFlight, m) /\ m # x
      BY <1>3, <1>5, <2>1 DEF Holds
    <3>2. \A f : <<m, f>> \in inFlight' <=> <<m, f>> \in inFlight
      BY <1>1, <1>7, <3>1
    <3> QED BY <3>1, <3>2 DEF Entry
  <2>5. Holds(p, inFlight', U \cup {x})
    BY <2>1, <2>3, <2>4 DEF Holds
  <2>6. buffer' = buffer /\ p = buffer.mPending
    BY <1>1 DEF p
  <2>7. Holds(buffer'.mPending, inFlight', Undelivered')
    BY <1>6, <2>5, <2>6
  <2>8. buffer' = [mNextSsn |-> buffer'.mNextSsn, mPending |-> buffer'.mPending]
    BY <2>1, <2>6
  <2> QED BY <2>7, <2>8 DEF BufferInv, Holds, Entry
<1>13. OrderedInv'
  BY <1>1, <1>3 DEF StreamInv, OrderedInv, x
<1>14. UnorderedInv'
  <2> SUFFICES ASSUME unordered' PROVE \A m \in Undelivered' : \E c \in inFlight' : c[1] = m
    BY DEF UnorderedInv
  <2>1. \A m \in U : \E c \in inFlight : c[1] = m
    BY <1>1 DEF StreamInv, UnorderedInv, U
  <2> QED BY <1>1, <1>6, <1>9, <2>1
<1> QED BY <1>11, <1>12, <1>13, <1>14 DEF StreamInv

\* The messages of a set.
WholeOf(D) == {Whole(m) : m \in D}

\* What a step that delivers the messages D, as the sequence out, makes of the channel:
\* nothing of them is in flight, and of the rest of the messages something older is.
LEMMA DeliverStep ==
    ASSUME NEW D, NEW out, NEW rest, ChannelInv, D \subseteq Undelivered, out \in Seq(WholeOf(D)),
           \A m \in D : \E i \in 1..Len(out) : out[i] = Whole(m),
           \A i, j \in 1..Len(out) : out[i] = out[j] => i = j,
           \A m \in D : \A f \in 1..FragmentCounts[m] : <<m, f>> \notin rest,
           \A m \in Undelivered \ D : \E x \in rest : x[1] <= m,
           unordered' = unordered, sent' = sent, rest \subseteq inFlight, inFlight' = rest,
           delivered' = delivered \o out
    PROVE  /\ ChannelInv' /\ Undelivered' = Undelivered \ D
           /\ Len(delivered') = Len(delivered) + Len(out)
           /\ \A i \in 1..Len(delivered) : delivered'[i] = delivered[i]
           /\ \A i \in 1..Len(out) : delivered'[Len(delivered) + i] = out[i]
<1> DEFINE M == {Whole(m) : m \in 1..sent}
           U == Undelivered
           a == Len(delivered)
           b == Len(out)
<1>1. /\ sent \in Nat /\ 1..sent \subseteq DOMAIN FragmentCounts /\ a \in Nat
      /\ delivered \in Seq(M) /\ D \subseteq 1..sent
  BY SentIs DEF ChannelInv, Undelivered
<1>2. out \in Seq(M) /\ b \in Nat
  <2> DEFINE N == {Whole(m) : m \in D}
  <2>1. N \subseteq M /\ out \in Seq(N)
    BY <1>1 DEF WholeOf
  <2> HIDE DEF N, M
  <2> QED BY <2>1, LenProperties
<1>3. /\ delivered' \in Seq(M) /\ Len(delivered') = a + b
      /\ \A i \in 1..a : delivered'[i] = delivered[i]
      /\ \A i \in 1..b : delivered'[a + i] = out[i]
  <2> HIDE DEF M
  <2> QED BY <1>1, <1>2
<1>4. \A i \in 1..(a + b) : i \in 1..a \/ \E j \in 1..b : i = a + j
  <2> SUFFICES ASSUME NEW i \in 1..(a + b), i \notin 1..a PROVE \E j \in 1..b : i = a + j
    OBVIOUS
  <2>1. i - a \in 1..b /\ i = a + (i - a)
    BY <1>1, <1>2
  <2> QED BY <2>1
<1>5. \A i \in 1..b : \E m \in D : out[i] = Whole(m)
  <2> SUFFICES ASSUME NEW i \in 1..b PROVE \E m \in D : out[i] = Whole(m)
    OBVIOUS
  <2>1. out[i] \in {Whole(m) : m \in D}
    BY ElementOfSeq DEF WholeOf
  <2> QED BY <2>1
<1>6. \A i \in 1..a, j \in 1..b : delivered[i] # out[j]
  <2> SUFFICES ASSUME NEW i \in 1..a, NEW j \in 1..b, delivered[i] = out[j] PROVE FALSE
    OBVIOUS
  <2>1. PICK m \in D : out[j] = Whole(m)
    BY <1>5
  <2> QED BY <2>1 DEF Undelivered, Delivered
<1>7. \A i, j \in 1..Len(delivered') : delivered'[i] = delivered'[j] => i = j
  <2> SUFFICES ASSUME NEW i \in 1..(a + b), NEW j \in 1..(a + b), delivered'[i] = delivered'[j]
               PROVE  i = j
    BY <1>3
  <2>1. CASE i \in 1..a /\ j \in 1..a
    BY <1>3, <2>1 DEF ChannelInv
  <2>2. CASE i \in 1..a /\ j \notin 1..a
    <3>1. PICK k \in 1..b : j = a + k
      BY <1>4, <2>2
    <3> QED BY <1>3, <1>6, <2>2, <3>1
  <2>3. CASE i \notin 1..a /\ j \in 1..a
    <3>1. PICK k \in 1..b : i = a + k
      BY <1>4, <2>3
    <3> QED BY <1>3, <1>6, <2>3, <3>1
  <2>4. CASE i \notin 1..a /\ j \notin 1..a
    <3>1. PICK k \in 1..b : i = a + k
      BY <1>4, <2>4
    <3>2. PICK l \in 1..b : j = a + l
      BY <1>4, <2>4
    <3>3. out[k] = out[l]
      BY <1>3, <3>1, <3>2
    <3> QED BY <3>1, <3>2, <3>3
  <2> QED BY <2>1, <2>2, <2>3, <2>4
<1> HIDE DEF M
<1>8. Undelivered' = U \ D
  <2>1. ASSUME NEW m \in 1..sent
        PROVE  (\E i \in 1..Len(delivered') : delivered'[i] = Whole(m))
                 <=> m \in D \/ \E i \in 1..a : delivered[i] = Whole(m)
    <3>1. ASSUME NEW i \in 1..(a + b), delivered'[i] = Whole(m)
          PROVE  m \in D \/ \E j \in 1..a : delivered[j] = Whole(m)
      <4>1. CASE i \in 1..a
        BY <1>3, <3>1, <4>1
      <4>2. CASE i \notin 1..a
        <5>1. PICK j \in 1..b : i = a + j
          BY <1>4, <4>2
        <5>2. PICK k \in D : out[j] = Whole(k)
          BY <1>5
        <5>3. Whole(m) = Whole(k) /\ m \in DOMAIN FragmentCounts /\ k \in DOMAIN FragmentCounts
          BY <1>1, <1>3, <3>1, <5>1, <5>2
        <5> QED BY <5>3, WholeDistinct
      <4> QED BY <4>1, <4>2
    <3>2. ASSUME m \in D PROVE \E i \in 1..(a + b) : delivered'[i] = Whole(m)
      <4>1. PICK j \in 1..b : out[j] = Whole(m)
        BY <3>2
      <4>2. a + j \in 1..(a + b) /\ delivered'[a + j] = Whole(m)
        BY <1>1, <1>2, <1>3, <4>1
      <4> QED BY <4>2
    <3>3. ASSUME NEW i \in 1..a, delivered[i] = Whole(m)
          PROVE  i \in 1..(a + b) /\ delivered'[i] = Whole(m)
      BY <1>1, <1>2, <1>3, <3>3
    <3> HIDE DEF a, b
    <3> QED BY <1>3, <3>1, <3>2, <3>3
  <2> DEFINE X == {m \in 1..sent : \E i \in 1..Len(delivered') : delivered'[i] = Whole(m)}
             Y == {m \in 1..sent : \E i \in 1..a : delivered[i] = Whole(m)}
  <2>2. \A m \in 1..sent : m \in X <=> m \in D \/ m \in Y
    BY <2>1
  <2>3. Undelivered' = (1..sent) \ X /\ U = (1..sent) \ Y
    BY DEF Undelivered, Delivered
  <2> HIDE DEF X, Y, U
  <2> QED BY <2>2, <2>3
<1> HIDE DEF U
<1>9. \A x \in inFlight' : \E m \in U \ D : \E f \in 1..FragmentCounts[m] : x = <<m, f>>
  <2> SUFFICES ASSUME NEW x \in rest
               PROVE  \E m \in U \ D : \E f \in 1..FragmentCounts[m] : x = <<m, f>>
    OBVIOUS
  <2>1. PICK m \in U : \E f \in 1..FragmentCounts[m] : x = <<m, f>>
    BY DEF ChannelInv, U
  <2>2. m \notin D
    BY <2>1
  <2> QED BY <2>1, <2>2
<1>10. Window(U \ D)
  BY DEF ChannelInv, Window, U
<1>11. unordered' \in BOOLEAN /\ sent' \in 0..Len(FragmentCounts)
  BY DEF ChannelInv
<1>12. delivered' \in Seq({Whole(m) : m \in 1..sent'})
  BY <1>3 DEF M
<1>13. \A m \in Undelivered' : \E x \in inFlight' : x[1] <= m
  BY <1>8 DEF U
<1>14. \A x \in inFlight' : \E m \in Undelivered' : \E f \in 1..FragmentCounts[m] : x = <<m, f>>
  BY <1>8, <1>9
<1>15. Window(Undelivered')
  BY <1>8, <1>10
<1>16. ChannelInv'
  BY <1>7, <1>11, <1>12, <1>13, <1>14, <1>15 DEF ChannelInv, Window
<1> QED BY <1>3, <1>8, <1>16 DEF U

\* A fragment that arrives: what it completes is delivered, the rest is kept.
LEMMA ReceiveStep ==
    ASSUME NEW c \in inFlight, StreamInv, InOrderFragments, ReceiveFragment(c)
    PROVE  StreamInv'
<1> DEFINE U == Undelivered
           d == Len(delivered)
           next == buffer.mNextSsn
           p == buffer.mPending
           rest == inFlight \ {c}
<1>1. ChannelInv /\ BufferInv /\ OrderedInv /\ UnorderedInv
  BY DEF StreamInv
<1>0. PICK m \in U : \E f \in 1..FragmentCounts[m] : c = <<m, f>>
  BY <1>1 DEF ChannelInv
<1>2. PICK f \in 1..FragmentCounts[m] : c = <<m, f>>
  BY <1>0
<1>3. /\ sent \in Nat /\ d \in Nat /\ Window(U) /\ U \subseteq DOMAIN FragmentCounts
      /\ Holds(p, inFlight, U) /\ buffer = Buf(next, p)
  BY <1>1, SentIs DEF ChannelInv, BufferInv, Window, Buf
<1> DEFINE r == receive(buffer, SsnOf(m), f = 1, f = FragmentCounts[m], unordered, c)
           acc == Joined(next, p, m, f)
           q == acc.mPending
<1>4. /\ buffer' = r.buf /\ delivered' = delivered \o r.out /\ inFlight' = rest
      /\ unordered' = unordered /\ sent' = sent
      /\ \A x \in inFlight : x[1] = m => f <= x[2]
  <2>1. c[1] = m /\ c[2] = f
    BY <1>2
  <2> QED BY <2>1 DEF ReceiveFragment
<1>5. acc = Buf(next, q) /\ Holds(q, rest, U)
  <2>1. <<m, f>> \in inFlight /\ rest = inFlight \ {<<m, f>>}
    BY <1>2
  <2>2. \A g \in 1..FragmentCounts[m] : <<m, g>> \in inFlight => f <= g
    BY <1>4
  <2> HIDE DEF U, next, p, rest
  <2> QED BY <1>3, <2>1, <2>2, AccumulateHolds
<1>6. r = IF ~unordered /\ SsnBefore(SsnOf(m), next) THEN [buf |-> buffer, out |-> <<>>]
          ELSE IF ~unordered THEN Drain(acc)
          ELSE IF Complete(acc, SsnOf(m))
               THEN [buf |-> Erase(acc, {SsnOf(m)}), out |-> <<acc.mPending[SsnOf(m)].payload>>]
          ELSE [buf |-> acc, out |-> <<>>]
  BY <1>2, <1>3 DEF receive, Joined
<1>7. CASE ~unordered
  <2>1. /\ d <= sent /\ next = SsnOf(d + 1) /\ U = (d + 1)..sent
        /\ \A i \in 1..d : delivered[i] = Whole(i)
    BY <1>1, <1>7, OrderedUndelivered DEF OrderedInv, StreamInv
  <2>2. ~SsnBefore(SsnOf(m), next)
    <3> DEFINE k == d + 1
    <3>1. k \in Nat /\ k \in U /\ m \in Nat /\ k <= m
      BY <1>3, <2>1
    <3>2. m - k < MaxOutstanding
      BY <1>3, <3>1 DEF Window
    <3> HIDE DEF k
    <3>3. ~SsnBefore(SsnOf(m), SsnOf(k))
      BY <3>1, <3>2, NotBefore
    <3> QED BY <2>1, <3>3 DEF k
  <2>3. r = Drain(Buf(next, q))
    BY <1>5, <1>6, <1>7, <2>2
  <2>4. PICK n \in 0..(sent - d) : \E s : Drained(next, q, rest, d, sent, n, s)
    <3>1. Window((d + 1)..sent) /\ Holds(q, rest, (d + 1)..sent)
      BY <1>3, <1>5, <2>1
    <3> HIDE DEF q, rest, next, d
    <3> QED BY <1>3, <2>1, <3>1, DrainIs
  <2>0. PICK s : Drained(next, q, rest, d, sent, n, s)
    BY <2>4
  <2>5. /\ Drain([mNextSsn |-> next, mPending |-> q]) =
              [buf |-> [mNextSsn |-> SsnOf(d + n + 1), mPending |-> s],
               out |-> [i \in 1..n |-> Whole(d + i)]]
        /\ Holds(s, rest, (d + n + 1)..sent)
        /\ \A k \in (d + 1)..(d + n) : \A g \in 1..FragmentCounts[k] : <<k, g>> \notin rest
        /\ d + n < sent => \E g \in 1..FragmentCounts[d + n + 1] : <<d + n + 1, g>> \in rest
    BY <2>0 DEF Drained
  <2> DEFINE D == (d + 1)..(d + n)
             out == [i \in 1..n |-> Whole(d + i)]
             new == [mNextSsn |-> SsnOf(d + n + 1), mPending |-> s]
  <2>6. buffer' = new /\ delivered' = delivered \o out
    <3>1. r = [buf |-> new, out |-> out]
      BY <2>3, <2>5 DEF Buf
    <3> HIDE DEF r, new, out
    <3> QED BY <1>4, <3>1
  <2>7. n \in Nat /\ d + n <= sent /\ D \subseteq U /\ U \ D = (d + n + 1)..sent
    BY <1>3, <2>1, <2>5
  <2>8. /\ out \in Seq(WholeOf(D)) /\ Len(out) = n
        /\ \A i \in 1..n : out[i] = Whole(d + i)
    <3>1. \A i \in 1..n : d + i \in D
      BY <1>3, <2>7
    <3> QED BY <2>7, <3>1 DEF WholeOf
  <2>9. \A k \in D : \E i \in 1..Len(out) : out[i] = Whole(k)
    <3> SUFFICES ASSUME NEW k \in D PROVE \E i \in 1..n : out[i] = Whole(k)
      BY <2>8
    <3>1. k - d \in 1..n /\ d + (k - d) = k
      BY <1>3, <2>7
    <3> QED BY <2>8, <3>1
  <2>10. \A i, j \in 1..Len(out) : out[i] = out[j] => i = j
    <3> SUFFICES ASSUME NEW i \in 1..n, NEW j \in 1..n, out[i] = out[j] PROVE i = j
      BY <2>8
    <3> DEFINE x == d + i
               y == d + j
    <3>1. x \in DOMAIN FragmentCounts /\ y \in DOMAIN FragmentCounts
      BY <1>3, <2>7
    <3>2. Whole(x) = Whole(y)
      BY <2>8
    <3> HIDE DEF x, y
    <3>3. x = y
      BY <3>1, <3>2, WholeDistinct
    <3> QED BY <1>3, <3>3 DEF x, y
  <2>11. \A k \in U \ D : \E x \in rest : x[1] <= k
    <3> SUFFICES ASSUME NEW k \in (d + n + 1)..sent PROVE \E x \in rest : x[1] <= k
      BY <2>7
    <3>1. d + n < sent /\ d + n + 1 <= k
      BY <1>3, <2>7
    <3>2. PICK g \in 1..FragmentCounts[d + n + 1] : <<d + n + 1, g>> \in rest
      BY <2>5, <3>1
    <3> DEFINE y == <<d + n + 1, g>>
    <3>3. y[1] <= k /\ y \in rest
      BY <3>1, <3>2
    <3> QED BY <3>3
  <2>12. \A k \in D : \A g \in 1..FragmentCounts[k] : <<k, g>> \notin rest
    BY <2>5
  <2>13. /\ ChannelInv' /\ Undelivered' = U \ D /\ Len(delivered') = d + Len(out)
         /\ \A i \in 1..d : delivered'[i] = delivered[i]
         /\ \A i \in 1..Len(out) : delivered'[d + i] = out[i]
    <3>1. rest \subseteq inFlight
      OBVIOUS
    <3> HIDE DEF D, out, r, rest
    <3>2. /\ ChannelInv /\ D \subseteq U /\ out \in Seq(WholeOf(D)) /\ rest \subseteq inFlight
          /\ unordered' = unordered /\ sent' = sent /\ inFlight' = rest
          /\ delivered' = delivered \o out
      <4>1. ChannelInv /\ D \subseteq U /\ rest \subseteq inFlight
        BY <1>1, <2>7, <3>1, Zenon
      <4>2. out \in Seq(WholeOf(D))
        BY <2>8
      <4> QED BY <1>1, <1>4, <2>6, <4>1, <4>2
    <3> QED BY <2>9, <2>10, <2>11, <2>12, <3>2, DeliverStep, SMTT(30)
  <2>14. BufferInv'
    <3>1. buffer'.mPending = s /\ buffer'.mNextSsn = SsnOf(d + n + 1)
      BY <2>6
    <3>2. Holds(buffer'.mPending, inFlight', Undelivered')
      BY <1>4, <2>5, <2>7, <2>13, <3>1
    <3>3. buffer' = [mNextSsn |-> buffer'.mNextSsn, mPending |-> buffer'.mPending]
      BY <2>6, <3>1
    <3> QED BY <3>2, <3>3 DEF BufferInv, Holds, Entry
  <2>15. OrderedInv'
    <3>1. Len(delivered') = d + n /\ buffer'.mNextSsn = SsnOf(Len(delivered') + 1)
      BY <2>6, <2>8, <2>13
    <3>2. \A i \in 1..(d + n) : delivered'[i] = Whole(i)
      <4> SUFFICES ASSUME NEW i \in 1..(d + n) PROVE delivered'[i] = Whole(i)
        OBVIOUS
      <4>1. CASE i \in 1..d
        BY <2>1, <2>13, <4>1
      <4>2. CASE i \notin 1..d
        <5>1. i - d \in 1..n /\ d + (i - d) = i
          BY <1>3, <2>7, <4>2
        <5> QED BY <2>8, <2>13, <5>1
      <4> QED BY <4>1, <4>2
    <3> QED BY <1>4, <2>7, <3>1, <3>2 DEF OrderedInv
  <2>16. UnorderedInv'
    BY <1>4, <1>7 DEF UnorderedInv
  <2> QED BY <2>13, <2>14, <2>15, <2>16 DEF StreamInv
<1>8. CASE unordered
  <2> DEFINE ssn == SsnOf(m)
             done == Complete(acc, ssn)
  <2>1. Entry(q, rest, m) /\ m \in DOMAIN FragmentCounts
    BY <1>3, <1>5 DEF Holds
  <2>2. /\ done => q[ssn].payload = Whole(m) /\ \A g \in 1..FragmentCounts[m] : <<m, g>> \notin rest
        /\ ~done => \E g \in 1..FragmentCounts[m] : <<m, g>> \in rest
    <3> HIDE DEF acc, rest
    <3> QED BY <2>1, CompleteIs
  <2>3. \A k \in U \ {m} : \E x \in rest : x[1] = k
    <3> SUFFICES ASSUME NEW k \in U \ {m} PROVE \E x \in rest : x[1] = k
      OBVIOUS
    <3>1. PICK x \in inFlight : x[1] = k
      BY <1>1, <1>8 DEF UnorderedInv
    <3>2. x # c
      BY <1>2, <3>1
    <3> QED BY <3>1, <3>2
  <2>4. OrderedInv'
    BY <1>4, <1>8 DEF OrderedInv
  <2>5. CASE done
    <3> DEFINE D == {m}
               out == <<Whole(m)>>
               s == Without(q, {ssn})
    <3>1. r.buf = Erase(acc, {ssn}) /\ r.out = <<q[ssn].payload>>
      <4> DEFINE b == Erase(acc, {ssn})
                 o == <<q[ssn].payload>>
      <4>1. r = [buf |-> b, out |-> o]
        BY <1>6, <1>8, <2>5
      <4> HIDE DEF b, o, r
      <4>2. r.buf = b /\ r.out = o
        BY <4>1
      <4> QED BY <4>2 DEF b, o
    <3>2. buffer' = Buf(next, s) /\ delivered' = delivered \o out
      <4>1. Erase(Buf(next, q), {ssn}) = Buf(next, s)
        <5> HIDE DEF next, q, ssn
        <5> QED BY EraseIs
      <4> QED BY <1>4, <1>5, <2>2, <2>5, <3>1, <4>1
    <3>3. Holds(s, rest, U \ D)
      <4>1. SsnsOf(D, {ssn}) /\ D \subseteq U
        BY DEF SsnsOf
      <4> DEFINE ssns == {ssn}
      <4> HIDE DEF D, ssns, q, rest, U
      <4> QED BY <1>3, <1>5, <4>1, EraseHolds DEF ssns
    <3>4. /\ out \in Seq(WholeOf(D)) /\ Len(out) = 1 /\ out[1] = Whole(m)
          /\ D \subseteq U
      BY DEF WholeOf
    <3>5. /\ \A k \in D : \E i \in 1..Len(out) : out[i] = Whole(k)
          /\ \A i, j \in 1..Len(out) : out[i] = out[j] => i = j
          /\ \A k \in D : \A g \in 1..FragmentCounts[k] : <<k, g>> \notin rest
      BY <2>2, <2>5, <3>4
    <3>6. \A k \in U \ D : \E x \in rest : x[1] <= k
      <4>1. \A k \in U : k \in Nat
        BY <1>3, CountIs
      <4> QED BY <2>3, <4>1
    <3>7. ChannelInv' /\ Undelivered' = U \ D
      <4>1. rest \subseteq inFlight
        OBVIOUS
      <4> HIDE DEF D, out, r, rest
      <4>2. /\ ChannelInv /\ D \subseteq U /\ out \in Seq(WholeOf(D)) /\ rest \subseteq inFlight
            /\ unordered' = unordered /\ sent' = sent /\ inFlight' = rest
            /\ delivered' = delivered \o out
        BY <1>1, <1>4, <3>2, <3>4, <4>1
      <4> QED BY <3>5, <3>6, <4>2, DeliverStep
    <3>8. BufferInv'
      <4> HIDE DEF s, D
      <4>1. buffer'.mPending = s /\ buffer'.mNextSsn = next
        BY <3>2 DEF Buf
      <4>2. Holds(buffer'.mPending, inFlight', Undelivered')
        BY <1>4, <3>3, <3>7, <4>1
      <4>3. buffer' = [mNextSsn |-> buffer'.mNextSsn, mPending |-> buffer'.mPending]
        BY <3>2, <4>1 DEF Buf
      <4> QED BY <4>2, <4>3 DEF BufferInv, Holds, Entry
    <3>9. UnorderedInv'
      BY <1>4, <2>3, <3>7 DEF UnorderedInv
    <3> QED BY <2>4, <3>7, <3>8, <3>9 DEF StreamInv
  <2>6. CASE ~done
    <3> DEFINE D == {}
               out == <<>>
    <3>1. r.buf = acc /\ r.out = <<>>
      <4>1. r = [buf |-> acc, out |-> <<>>]
        BY <1>6, <1>8, <2>6
      <4> HIDE DEF acc, r
      <4> QED BY <4>1
    <3>2. buffer' = Buf(next, q) /\ delivered' = delivered \o out
      BY <1>4, <1>5, <3>1
    <3>3. /\ out \in Seq(WholeOf(D)) /\ Len(out) = 0 /\ D \subseteq U
          /\ U \ D = U
      OBVIOUS
    <3>4. \A k \in U : \E x \in rest : x[1] = k
      <4>1. PICK g \in 1..FragmentCounts[m] : <<m, g>> \in rest
        BY <2>2, <2>6
      <4>2. <<m, g>>[1] = m
        OBVIOUS
      <4> QED BY <2>3, <4>1, <4>2
    <3>5. /\ \A k \in D : \E i \in 1..Len(out) : out[i] = Whole(k)
          /\ \A i, j \in 1..Len(out) : out[i] = out[j] => i = j
          /\ \A k \in D : \A g \in 1..FragmentCounts[k] : <<k, g>> \notin rest
      BY <3>3
    <3>6. \A k \in U \ D : \E x \in rest : x[1] <= k
      <4>1. \A k \in U : k \in Nat
        BY <1>3, CountIs
      <4> QED BY <3>4, <4>1
    <3>7. ChannelInv' /\ Undelivered' = U \ D
      <4>1. rest \subseteq inFlight
        OBVIOUS
      <4> HIDE DEF D, out, r, rest
      <4>2. /\ ChannelInv /\ D \subseteq U /\ out \in Seq(WholeOf(D)) /\ rest \subseteq inFlight
            /\ unordered' = unordered /\ sent' = sent /\ inFlight' = rest
            /\ delivered' = delivered \o out
        BY <1>1, <1>4, <3>2, <3>3, <4>1
      <4> QED BY <3>5, <3>6, <4>2, DeliverStep
    <3>8. BufferInv'
      <4> HIDE DEF q
      <4>1. buffer'.mPending = q /\ buffer'.mNextSsn = next
        BY <3>2 DEF Buf
      <4>2. Holds(buffer'.mPending, inFlight', Undelivered')
        BY <1>4, <1>5, <3>3, <3>7, <4>1
      <4>3. buffer' = [mNextSsn |-> buffer'.mNextSsn, mPending |-> buffer'.mPending]
        BY <3>2, <4>1 DEF Buf
      <4> QED BY <4>2, <4>3 DEF BufferInv, Holds, Entry
    <3>9. UnorderedInv'
      BY <1>4, <3>4, <3>7 DEF UnorderedInv
    <3> QED BY <2>4, <3>7, <3>8, <3>9 DEF StreamInv
  <2> QED BY <2>5, <2>6
<1> QED BY <1>7, <1>8

\* Every step keeps the invariant.
LEMMA StreamInvNext ==
    ASSUME StreamInv, InOrderFragments, [Next]_vars
    PROVE  StreamInv'
<1>1. CASE sendMessageNow
  BY <1>1, SendStep
<1>2. ASSUME NEW c \in inFlight, ReceiveFragment(c) PROVE StreamInv'
  BY <1>2, ReceiveStep
<1>3. CASE UNCHANGED vars
  <2>1. /\ unordered' = unordered /\ sent' = sent /\ inFlight' = inFlight /\ buffer' = buffer
        /\ delivered' = delivered
    BY <1>3 DEF vars
  <2>2. Undelivered' = Undelivered
    BY <2>1 DEF Undelivered, Delivered
  <2>3. ChannelInv'
    BY <2>1, <2>2 DEF StreamInv, ChannelInv, Window
  <2>4. BufferInv'
    BY <2>1, <2>2 DEF StreamInv, BufferInv, Holds, Entry
  <2>5. OrderedInv'
    BY <2>1 DEF StreamInv, OrderedInv
  <2>6. UnorderedInv'
    BY <2>1, <2>2 DEF StreamInv, UnorderedInv
  <2> QED BY <2>3, <2>4, <2>5, <2>6 DEF StreamInv
<1> QED BY <1>1, <1>2, <1>3 DEF Next
-----------------------------------------------------------------------------
\* What the buffer holds is at every moment what has arrived of the messages that are not
\* delivered, mNextSsn is the number of the first of them, and what has not arrived of them
\* is the only thing that holds one back.
THEOREM ReassemblyInvariant == InOrderFragments => (Spec => []StreamInv)
<1> SUFFICES ASSUME InOrderFragments PROVE Spec => []StreamInv
  OBVIOUS
<1>1. Init => StreamInv
  BY StreamInvInit
<1>2. StreamInv /\ [Next]_vars => StreamInv'
  BY StreamInvNext
<1> QED BY <1>1, <1>2, PTL DEF Spec

\* When the fragments of one message arrive in their order, DataChannelReceiveBuffer::receive
\* hands the messages of an ordered channel to the listener as they were sent, none left out
\* and none twice, whichever message overtakes another and wherever the SSN wraps.
THEOREM MessagesInOrder == InOrderFragments => (Spec => []OrderedDelivery)
<1>1. StreamInv => OrderedDelivery
  BY DEF StreamInv, OrderedInv, OrderedDelivery
<1> QED BY <1>1, ReassemblyInvariant, PTL

\* receive() keeps nothing back and delivers nothing twice: once no fragment of a message (on
\* an ordered channel, or of one before it) is on its way, the listener has had it.
THEOREM ArrivedIsDelivered == InOrderFragments => (Spec => []ArrivedMeansDelivered)
<1>1. ASSUME StreamInv PROVE ArrivedMeansDelivered
  <2>1. ChannelInv /\ UnorderedInv
    BY <1>1 DEF StreamInv
  <2>2. sent \in Nat /\ 1..sent \subseteq DOMAIN FragmentCounts
    BY <2>1, SentIs
  <2>3. ASSUME NEW m \in 1..sent, \A c \in inFlight : c[1] > m \/ (unordered /\ c[1] # m)
        PROVE  Contains(delivered, Whole(m))
    <3>1. m \notin Undelivered
      <4> SUFFICES ASSUME m \in Undelivered PROVE FALSE
        OBVIOUS
      <4>1. CASE unordered
        <5>1. PICK c \in inFlight : c[1] = m
          BY <2>1, <4>1 DEF UnorderedInv
        <5> QED BY <2>2, <2>3, <5>1
      <4>2. CASE ~unordered
        <5>1. PICK c \in inFlight : c[1] <= m
          BY <2>1 DEF ChannelInv
        <5>2. c[1] \in Nat
          BY <2>1, SentIs
        <5> QED BY <2>2, <2>3, <4>2, <5>1, <5>2
      <4> QED BY <4>1, <4>2
    <3> QED BY <3>1 DEF Undelivered, Delivered, Contains
  <2>4. ASSUME NEW i \in 1..Len(delivered), NEW j \in 1..Len(delivered),
               delivered[i][1][1] = delivered[j][1][1]
        PROVE  i = j
    <3>1. \A k \in 1..Len(delivered) : \E m \in 1..sent : delivered[k] = Whole(m)
      <4> SUFFICES ASSUME NEW k \in 1..Len(delivered) PROVE \E m \in 1..sent : delivered[k] = Whole(m)
        OBVIOUS
      <4>1. delivered \in Seq({Whole(m) : m \in 1..sent})
        BY <2>1 DEF ChannelInv
      <4>2. delivered[k] \in {Whole(m) : m \in 1..sent}
        BY <4>1, ElementOfSeq
      <4> QED BY <4>2
    <3>2. PICK m \in 1..sent : delivered[i] = Whole(m)
      BY <3>1
    <3>3. PICK k \in 1..sent : delivered[j] = Whole(k)
      BY <3>1
    <3>4. m = k
      BY <2>2, <2>4, <3>2, <3>3, WholeIs
    <3>5. delivered[i] = delivered[j]
      BY <3>2, <3>3, <3>4
    <3> QED BY <2>1, <3>5 DEF ChannelInv
  <2> QED BY <2>3, <2>4 DEF ArrivedMeansDelivered
<1> QED BY <1>1, ReassemblyInvariant, PTL

\* A payload that receive() returns is a message that was sent, all of its fragments in their
\* order: it joins fragments of two messages, or some fragments of one, only when fragments of
\* one message overtake each other.
THEOREM MessagesAreWhole == InOrderFragments => (Spec => []DeliveredMessagesAreWhole)
<1>1. ASSUME StreamInv PROVE DeliveredMessagesAreWhole
  <2> SUFFICES ASSUME NEW k \in 1..Len(delivered) PROVE \E m \in 1..sent : delivered[k] = Whole(m)
    BY DEF DeliveredMessagesAreWhole
  <2>1. delivered \in Seq({Whole(m) : m \in 1..sent})
    BY <1>1 DEF StreamInv, ChannelInv
  <2>2. delivered[k] \in {Whole(m) : m \in 1..sent}
    BY <2>1, ElementOfSeq
  <2> QED BY <2>2
<1> QED BY <1>1, ReassemblyInvariant, PTL
=============================================================================
