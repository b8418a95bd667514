-------------------------- MODULE TwccFeedbackProofs --------------------------
(***************************************************************************)
(* Proofs about transport wide congestion control: the probing of          *)
(* RtpExtensionSourceTWCC, and the ring of SubscribePacketHistory.         *)
(***************************************************************************)
EXTENDS TwccFeedback, SequenceLemmas

\* What the proof needs to know of the state beside the property: the clock is a
\* natural number, the tasks are times, and mIsProbing is a flag.
SourceType ==
    [next : Int, connected : BOOLEAN, probing : BOOLEAN, padded : Int, start : Int, end : Int]
ProbingTypeOK == now \in Nat /\ source \in SourceType

\* The inductive invariant.
ProbingInv == ProbingTypeOK /\ ProbingEnds

\* A source that has just been made does not probe.
LEMMA ProbingInvInit == Init => ProbingInv
BY DEF Init, ProbingInv, ProbingTypeOK, ProbingEnds, SourceType, NewSource, NoTask

\* Every step keeps the invariant; time only goes on when no task is due.
LEMMA ProbingInvNext == ProbingInv /\ [Next]_vars => ProbingInv'
<1> SUFFICES ASSUME ProbingInv, [Next]_vars PROVE ProbingInv'
  OBVIOUS
<1> USE DEF ProbingInv, ProbingTypeOK, ProbingEnds
<1>1. CASE onPeerConnected
  <2>1. now + StartProbing \in Int
    BY FeedbackAssumption
  <2>2. source' \in SourceType
    BY <1>1, <2>1, Zenon DEF onPeerConnected, SourceType
  <2> QED BY <1>1, <2>2 DEF onPeerConnected, SourceType
<1>2. CASE onStartProbing
  <2>1. now + ProbeDuration \in Int /\ now + PeriodicProbing \in Int /\ 0 \in Int
    BY FeedbackAssumption
  <2>2. source' \in SourceType
    BY <1>2, <2>1, Zenon DEF onStartProbing, SourceType
  <2> QED BY <1>2, <2>2, FeedbackAssumption DEF onStartProbing, SourceType
<1>3. CASE onEndProbing
  <2>1. NoTask \in Int
    BY DEF NoTask
  <2>2. source' \in SourceType
    BY <1>3, <2>1, Zenon DEF onEndProbing, SourceType
  <2> QED BY <1>3, <2>2 DEF onEndProbing, SourceType
<1>4. CASE SendPacket
  <2>1. source.next \in Int /\ (source.next + 1) % SeqRange \in Int
    BY TwccAssumption DEF SourceType
  <2>2. PICK padded \in Int :
          source' = [source EXCEPT !.next = (source.next + 1) % SeqRange, !.padded = padded]
    <3>1. source.padded \in Int /\ source.padded + 1 \in Int
      BY DEF SourceType
    <3>2. CASE getPadding(Sizes[sent + 1]) = 120
      BY <1>4, <3>1, <3>2, Zenon DEF SendPacket
    <3>3. CASE getPadding(Sizes[sent + 1]) # 120
      BY <1>4, <3>1, <3>3, Zenon DEF SendPacket
    <3> QED BY <3>2, <3>3
  <2>3. now' = now
    BY <1>4 DEF SendPacket
  <2> QED BY <2>1, <2>2, <2>3 DEF SourceType
<1>5. CASE \E i \in DOMAIN reports : onReceivedRtcpPacket(i)
  <2>1. NoTask \in Int
    BY DEF NoTask
  <2>2. /\ source' = source \/ source' = [source EXCEPT !.probing = FALSE, !.end = NoTask]
        /\ now' = now
    BY <1>5, Zenon DEF onReceivedRtcpPacket, StopProbing
  <2>3. source' \in SourceType
    BY <2>1, <2>2, Zenon DEF SourceType
  <2> QED BY <2>2, <2>3 DEF SourceType
<1>6. CASE Tick
  BY <1>6 DEF Tick, Due, NoTask, SourceType
<1>7. CASE UNCHANGED <<now, source>>
  BY <1>7
<1> QED
  BY <1>1, <1>2, <1>3, <1>4, <1>5, <1>6, <1>7
     DEF Next, RunResponder, LoseReport, DelayReport, ResendPacket, LosePacket, DelayPacket,
         onMediaPacket, vars

\* While padding is sent the task that ends it (mTaskEndProbing) is pending and not
\* overdue, whatever onStartProbing, onEndProbing, a report that calls probing off
\* and the clock do in between: the padding cannot go on for ever.
THEOREM PaddingEnds == Spec => []ProbingEnds
<1>1. ProbingInv => ProbingEnds
  BY DEF ProbingInv
<1> QED BY ProbingInvInit, ProbingInvNext, <1>1, PTL DEF Spec

-----------------------------------------------------------------------------
\* The ring of SubscribePacketHistory.

\* The list of a history is a ring that holds the packets lo .. hi - 1, each in its
\* slot, and nothing else.
Slots == 0 .. MaxPacketCount - 1
Packet == [seq : Int, time : Int]
Ring(list, lo, hi) ==
    /\ list \in [Slots -> Packet]
    /\ lo \in Int /\ hi \in Int /\ lo <= hi /\ hi <= lo + MaxPacketCount
    /\ \A s \in lo .. hi - 1 : list[SlotOf(s)].seq = s
    /\ \A i \in Slots : list[i] # NoPacket => \E s \in lo .. hi - 1 : SlotOf(s) = i

\* A slot is a place in the list, and packets less than a ring apart have different ones.
LEMMA SlotFacts ==
    ASSUME NEW s \in Int, NEW t \in Int
    PROVE  /\ SlotOf(s) \in Slots
           /\ s - t < MaxPacketCount /\ t - s < MaxPacketCount /\ SlotOf(s) = SlotOf(t) => s = t
<1>1. MaxPacketCount \in Nat /\ MaxPacketCount > 0
  BY TwccAssumption
<1>2. SlotOf(s) \in Slots
  BY <1>1 DEF SlotOf, Slots
<1>3. ASSUME s - t < MaxPacketCount, t - s < MaxPacketCount, SlotOf(s) = SlotOf(t)
      PROVE  s = t
  BY <1>1, <1>3, ModNear DEF SlotOf
<1> QED BY <1>2, <1>3

\* Packets leave the ring at its beginning.
LEMMA RingClear ==
    ASSUME NEW list, NEW lo, NEW hi, NEW n \in Nat, NEW rest,
           Ring(list, lo, hi), n <= hi - lo,
           rest = [i \in DOMAIN list |->
                     IF i \in {SlotOf(s) : s \in lo .. lo + n - 1} THEN NoPacket ELSE list[i]]
    PROVE  Ring(rest, lo + n, hi)
<1>0. MaxPacketCount \in Nat /\ MaxPacketCount > 0
  BY TwccAssumption
<1>1. DOMAIN list = Slots /\ lo \in Int /\ hi \in Int /\ lo <= hi /\ hi <= lo + MaxPacketCount
  BY DEF Ring
<1>2. NoPacket \in Packet
  BY DEF NoPacket, Packet
<1>3. rest \in [Slots -> Packet]
  BY <1>1, <1>2 DEF Ring
<1>4. ASSUME NEW s \in lo + n .. hi - 1 PROVE rest[SlotOf(s)].seq = s
  <2>1. s \in Int /\ s \in lo .. hi - 1 /\ SlotOf(s) \in Slots
    BY <1>1, SlotFacts
  <2>2. SlotOf(s) \notin {SlotOf(t) : t \in lo .. lo + n - 1}
    <3> SUFFICES ASSUME NEW t \in lo .. lo + n - 1, SlotOf(s) = SlotOf(t) PROVE FALSE
      OBVIOUS
    <3>1. t \in Int /\ s - t < MaxPacketCount /\ t - s < MaxPacketCount /\ s # t
      BY <1>0, <1>1
    <3> QED BY <2>1, <3>1, SlotFacts
  <2> QED BY <1>1, <2>1, <2>2 DEF Ring
<1>5. ASSUME NEW i \in Slots, rest[i] # NoPacket
      PROVE  \E s \in lo + n .. hi - 1 : SlotOf(s) = i
  <2>1. i \notin {SlotOf(s) : s \in lo .. lo + n - 1} /\ list[i] # NoPacket
    BY <1>1, <1>5
  <2>2. PICK s \in lo .. hi - 1 : SlotOf(s) = i
    BY <2>1 DEF Ring
  <2>3. s \notin lo .. lo + n - 1
    BY <2>1, <2>2
  <2> QED BY <1>1, <2>2, <2>3
<1> QED BY <1>0, <1>1, <1>3, <1>4, <1>5 DEF Ring

\* The list with a packet in its slot.
Put(list, s, time) == [list EXCEPT ![SlotOf(s)] = [seq |-> s, time |-> time]]

\* A packet joins the ring at its end or before its first one.
LEMMA RingPut ==
    ASSUME NEW list, NEW lo, NEW hi, NEW s, NEW time \in Int,
           Ring(list, lo, hi), hi - lo < MaxPacketCount, s = hi \/ s = lo - 1
    PROVE  /\ list[SlotOf(s)] = NoPacket
           /\ s = hi => Ring(Put(list, s, time), lo, hi + 1)
           /\ s = lo - 1 => Ring(Put(list, s, time), lo - 1, hi)
<1> DEFINE from == IF s = hi THEN lo ELSE lo - 1
           to == IF s = hi THEN hi + 1 ELSE hi
           rest == Put(list, s, time)
<1>0. MaxPacketCount \in Nat /\ MaxPacketCount > 0
  BY TwccAssumption
<1>1. DOMAIN list = Slots /\ lo \in Int /\ hi \in Int /\ lo <= hi /\ s \in Int
  BY DEF Ring
<1>2. /\ from \in Int /\ to \in Int /\ from <= to /\ to <= from + MaxPacketCount
      /\ \A t \in from .. to - 1 : t = s \/ t \in lo .. hi - 1
      /\ \A t \in lo .. hi - 1 : t \in from .. to - 1
      /\ s \in from .. to - 1
  BY <1>0, <1>1
<1>3. ASSUME NEW t \in lo .. hi - 1 PROVE SlotOf(t) # SlotOf(s)
  <2>1. t \in Int /\ s - t < MaxPacketCount /\ t - s < MaxPacketCount /\ s # t
    BY <1>0, <1>1
  <2> QED BY <1>1, <2>1, SlotFacts
<1>4. SlotOf(s) \in Slots
  BY <1>1, SlotFacts
<1>5. list[SlotOf(s)] = NoPacket
  BY <1>3, <1>4 DEF Ring
<1>6. rest \in [Slots -> Packet]
  BY <1>1 DEF Ring, Packet, Put
<1>7. \A i \in Slots : rest[i] = IF i = SlotOf(s) THEN [seq |-> s, time |-> time] ELSE list[i]
  BY <1>1 DEF Ring, Put
<1> HIDE DEF from, to, rest
<1>8. ASSUME NEW t \in from .. to - 1 PROVE rest[SlotOf(t)].seq = t
  <2>1. SlotOf(t) \in Slots
    BY <1>2, SlotFacts
  <2>2. CASE t = s
    BY <1>4, <1>7, <2>2
  <2>3. CASE t \in lo .. hi - 1
    BY <1>3, <1>7, <2>1, <2>3 DEF Ring
  <2> QED BY <1>2, <2>2, <2>3
<1>9. ASSUME NEW i \in Slots, rest[i] # NoPacket PROVE \E t \in from .. to - 1 : SlotOf(t) = i
  <2>1. CASE i = SlotOf(s)
    BY <1>2, <2>1
  <2>2. CASE i # SlotOf(s)
    <3>1. PICK t \in lo .. hi - 1 : SlotOf(t) = i
      BY <1>7, <1>9, <2>2 DEF Ring
    <3> QED BY <1>2, <3>1
  <2> QED BY <2>1, <2>2
<1>10. Ring(rest, from, to)
  BY <1>2, <1>6, <1>8, <1>9 DEF Ring
<1> QED BY <1>1, <1>5, <1>10 DEF rest, from, to

\* The times in the list are those of packets that arrived since the last report.
Timely(list, first, time) ==
    \A i \in Slots : list[i].time = 0 \/ list[i].time \in first .. time

\* The fields of a history.
SubShape(s) ==
    s = [started |-> s.started, list |-> s.list, mMinSeq |-> s.mMinSeq, mMaxSeq |-> s.mMaxSeq,
         ext |-> s.ext, lastPacket |-> s.lastPacket, lastGenerated |-> s.lastGenerated,
         aborted |-> s.aborted, hung |-> s.hung]

\* A history whose ring begins at lo (while packets are put before the first one
\* mMinSeq is not lo yet), at the given time.
SubCore(s, lo, time) ==
    /\ SubShape(s)
    /\ Ring(s.list, lo, s.mMaxSeq)
    /\ Timely(s.list, s.lastGenerated, time)
    /\ s.lastGenerated \in Int /\ s.lastGenerated <= time
    /\ s.ext \in [base : Int, at : Int, last : Int]
    /\ s.aborted = FALSE /\ s.hung = FALSE

\* A history between two operations.
SubInv(s, time) ==
    /\ SubCore(s, s.mMinSeq, time)
    /\ s.started = TRUE \/ s.mMinSeq = s.mMaxSeq

\* What the operations on the ring leave alone.
SameSub(s, t) ==
    s.lastGenerated = t.lastGenerated /\ s.started = t.started

\* advance takes packets out at the beginning.
LEMMA AdvanceOK ==
    ASSUME NEW s, NEW n \in Nat, NEW time \in Int, SubInv(s, time),
           n <= s.mMaxSeq - s.mMinSeq
    PROVE  /\ SubInv(advance(s, n), time) /\ SameSub(advance(s, n), s)
           /\ advance(s, n).mMinSeq = s.mMinSeq + n /\ advance(s, n).mMaxSeq = s.mMaxSeq
<1> DEFINE lo == s.mMinSeq
           rest == [i \in DOMAIN s.list |->
                      IF i \in {SlotOf(q) : q \in lo .. lo + n - 1} THEN NoPacket ELSE s.list[i]]
           a == advance(s, n)
<1>1. SubShape(s) /\ Ring(s.list, lo, s.mMaxSeq) /\ lo \in Int /\ s.mMaxSeq \in Int
  BY DEF SubInv, SubCore, Ring
<1>2. a = [started |-> s.started, list |-> rest, mMinSeq |-> lo + n, mMaxSeq |-> s.mMaxSeq,
           ext |-> s.ext, lastPacket |-> s.lastPacket, lastGenerated |-> s.lastGenerated,
           aborted |-> s.aborted, hung |-> s.hung]
  <2>1. a = [s EXCEPT !.list = rest, !.mMinSeq = lo + n]
    BY DEF advance
  <2> HIDE DEF rest, lo, a
  <2> QED BY <1>1, <2>1 DEF SubShape
<1>3. Ring(rest, lo + n, s.mMaxSeq)
  <2>1. rest = [i \in DOMAIN s.list |->
                  IF i \in {SlotOf(q) : q \in lo .. lo + n - 1} THEN NoPacket ELSE s.list[i]]
    OBVIOUS
  <2> HIDE DEF rest
  <2> QED BY <1>1, <2>1, RingClear
<1>4. DOMAIN s.list = Slots
  BY <1>1 DEF Ring
<1>5. Timely(rest, s.lastGenerated, time)
  <2>1. NoPacket.time = 0
    BY DEF NoPacket
  <2> SUFFICES ASSUME NEW i \in Slots
               PROVE  rest[i].time = 0 \/ rest[i].time \in s.lastGenerated .. time
    BY DEF Timely
  <2>2. rest[i] = NoPacket \/ rest[i] = s.list[i]
    BY <1>4
  <2>3. s.list[i].time = 0 \/ s.list[i].time \in s.lastGenerated .. time
    BY DEF SubInv, SubCore, Timely
  <2> QED BY <2>1, <2>2, <2>3
<1> HIDE DEF rest
<1>6. SubShape(a) /\ a.list = rest /\ a.mMinSeq = lo + n /\ a.mMaxSeq = s.mMaxSeq
      /\ a.ext = s.ext /\ a.lastGenerated = s.lastGenerated /\ a.started = s.started
      /\ a.aborted = s.aborted /\ a.hung = s.hung
  <2> HIDE DEF lo, a
  <2> QED BY <1>2 DEF SubShape
<1> HIDE DEF a
<1>7. SubCore(a, a.mMinSeq, time)
  BY <1>3, <1>5, <1>6 DEF SubInv, SubCore
<1>8. a.started = TRUE \/ a.mMinSeq = a.mMaxSeq
  BY <1>1, <1>6 DEF SubInv
<1> QED BY <1>6, <1>7, <1>8 DEF SubInv, SameSub, a

\* a is the history s with a packet q more at the end or before the first one lo.
Added(a, s, lo, q, time) ==
    /\ SubShape(a) /\ SameSub(a, s)
    /\ a.mMinSeq = s.mMinSeq /\ a.mMaxSeq = s.mMaxSeq /\ a.ext = s.ext
    /\ a.aborted = FALSE /\ a.hung = FALSE
    /\ q = s.mMaxSeq => Ring(a.list, lo, s.mMaxSeq + 1)
    /\ q = lo - 1 => Ring(a.list, lo - 1, s.mMaxSeq)
    /\ Timely(a.list, a.lastGenerated, time)

\* A packet put into the slot at either end of the ring finds it free.
LEMMA AddOK ==
    ASSUME NEW s, NEW lo, NEW time \in Int, NEW q, NEW t \in Int,
           SubCore(s, lo, time), s.mMaxSeq - lo < MaxPacketCount, q = s.mMaxSeq \/ q = lo - 1,
           t = 0 \/ t \in s.lastGenerated .. time
    PROVE  Added(AddPacket(s, q, t), s, lo, q, time)
<1> DEFINE a == AddPacket(s, q, t)
           rest == Put(s.list, q, t)
<1>1. SubShape(s) /\ Ring(s.list, lo, s.mMaxSeq) /\ Timely(s.list, s.lastGenerated, time)
      /\ s.aborted = FALSE /\ s.hung = FALSE
  BY DEF SubCore
<1>2. /\ s.list[SlotOf(q)] = NoPacket
      /\ q = s.mMaxSeq => Ring(rest, lo, s.mMaxSeq + 1)
      /\ q = lo - 1 => Ring(rest, lo - 1, s.mMaxSeq)
  BY <1>1, RingPut
<1>3. a = [started |-> s.started, list |-> rest, mMinSeq |-> s.mMinSeq, mMaxSeq |-> s.mMaxSeq,
           ext |-> s.ext, lastPacket |-> s.lastPacket, lastGenerated |-> s.lastGenerated,
           aborted |-> s.aborted, hung |-> s.hung]
  BY <1>1, <1>2 DEF AddPacket, PacketAt, SubShape, Put
<1>4. Timely(rest, s.lastGenerated, time)
  <2> SUFFICES ASSUME NEW i \in Slots
               PROVE  rest[i].time = 0 \/ rest[i].time \in s.lastGenerated .. time
    BY DEF Timely
  <2>1. rest[i] = [seq |-> q, time |-> t] \/ rest[i] = s.list[i]
    BY <1>1 DEF Ring, Put
  <2>2. s.list[i].time = 0 \/ s.list[i].time \in s.lastGenerated .. time
    BY <1>1 DEF Timely
  <2> QED BY <2>1, <2>2
<1> HIDE DEF rest
<1>5. SubShape(a) /\ a.list = rest /\ a.mMinSeq = s.mMinSeq /\ a.mMaxSeq = s.mMaxSeq
      /\ a.ext = s.ext /\ a.lastGenerated = s.lastGenerated /\ a.started = s.started
      /\ a.aborted = s.aborted /\ a.hung = s.hung
  <2> HIDE DEF a
  <2> QED BY <1>3 DEF SubShape
<1> HIDE DEF a
<1>6. SameSub(a, s)
  BY <1>5 DEF SameSub
<1> QED BY <1>1, <1>2, <1>4, <1>5, <1>6 DEF a, Added

\* One more packet at the end, whether or not the ring is full.
LEMMA AppendOK ==
    ASSUME NEW s, NEW time \in Int, NEW t \in Int, SubInv(s, time), s.started = TRUE,
           t = 0 \/ t \in s.lastGenerated .. time
    PROVE  LET a == AppendPacket(s, s.mMaxSeq, t)
           IN  SubInv(a, time) /\ SameSub(a, s) /\ a.mMaxSeq = s.mMaxSeq + 1
<1> DEFINE room == IF s.mMaxSeq - s.mMinSeq = MaxPacketCount THEN advance(s, 1) ELSE s
           b == AddPacket(room, s.mMaxSeq, t)
           a == AppendPacket(s, s.mMaxSeq, t)
<1>0. MaxPacketCount \in Nat /\ MaxPacketCount > 0
  BY TwccAssumption
<1>1. s.mMinSeq \in Int /\ s.mMaxSeq \in Int /\ s.mMinSeq <= s.mMaxSeq
      /\ s.mMaxSeq <= s.mMinSeq + MaxPacketCount
  BY DEF SubInv, SubCore, Ring
<1>2. /\ SubInv(room, time) /\ SameSub(room, s) /\ room.mMaxSeq = s.mMaxSeq
      /\ room.mMaxSeq - room.mMinSeq < MaxPacketCount
  <2>1. CASE s.mMaxSeq - s.mMinSeq = MaxPacketCount
    <3>1. SubInv(advance(s, 1), time) /\ SameSub(advance(s, 1), s)
          /\ advance(s, 1).mMinSeq = s.mMinSeq + 1 /\ advance(s, 1).mMaxSeq = s.mMaxSeq
      BY <1>0, <2>1, AdvanceOK
    <3> QED BY <1>0, <1>1, <2>1, <3>1
  <2>2. CASE s.mMaxSeq - s.mMinSeq # MaxPacketCount
    BY <1>0, <1>1, <2>2 DEF SameSub
  <2> QED BY <2>1, <2>2
<1> HIDE DEF room
<1>3. SubCore(room, room.mMinSeq, time) /\ room.lastGenerated = s.lastGenerated
  BY <1>2 DEF SubInv, SameSub
<1>4. /\ SubShape(b) /\ SameSub(b, room)
      /\ b.mMinSeq = room.mMinSeq /\ b.mMaxSeq = room.mMaxSeq /\ b.ext = room.ext
      /\ b.aborted = FALSE /\ b.hung = FALSE
      /\ Ring(b.list, room.mMinSeq, room.mMaxSeq + 1)
      /\ Timely(b.list, b.lastGenerated, time)
  <2>1. b = AddPacket(room, room.mMaxSeq, t)
    BY <1>2
  <2>2. t = 0 \/ t \in room.lastGenerated .. time
    BY <1>3
  <2> HIDE DEF b
  <2>3. Added(AddPacket(room, room.mMaxSeq, t), room, room.mMinSeq, room.mMaxSeq, time)
    BY <1>2, <1>3, <2>2, AddOK
  <2> QED BY <2>1, <2>3 DEF Added
<1>5. a = [b EXCEPT !.mMaxSeq = b.mMaxSeq + 1]
  BY DEF AppendPacket, room
<1> HIDE DEF a, b
<1>6. SubShape(a) /\ a.list = b.list /\ a.mMinSeq = b.mMinSeq /\ a.mMaxSeq = b.mMaxSeq + 1
      /\ a.ext = b.ext /\ a.lastGenerated = b.lastGenerated /\ a.started = b.started
      /\ a.aborted = b.aborted /\ a.hung = b.hung
  BY <1>4, <1>5 DEF SubShape
<1>7. SubCore(a, a.mMinSeq, time) /\ SameSub(a, s) /\ a.started = TRUE
  BY <1>2, <1>3, <1>4, <1>6 DEF SubCore, SameSub
<1> QED BY <1>2, <1>4, <1>6, <1>7 DEF SubInv, a

\* The turns of the loop that adds packets at the end.
LEMMA ForwardWalkIs ==
    ASSUME NEW s, NEW seq, NEW time, seq - s.mMaxSeq + 1 \in Nat
    PROVE  /\ ForwardWalk(s, seq, time)[0] = s
           /\ \A i \in 1..(seq - s.mMaxSeq + 1) :
                 ForwardWalk(s, seq, time)[i] = AppendPacket(ForwardWalk(s, seq, time)[i - 1], s.mMaxSeq + i - 1, TimeIn(s.mMaxSeq + i - 1, seq, time))
<1> DEFINE len == seq - s.mMaxSeq + 1
           base == s
           Turn(g, i) == IF i = 0 THEN base ELSE AppendPacket(g[i - 1], s.mMaxSeq + i - 1, TimeIn(s.mMaxSeq + i - 1, seq, time))
           Eq(g, n) == g = [i \in 0..n |-> Turn(g, i)]
           T == {n \in Nat : \E g : Eq(g, n)}
<1>1. 0 \in T
  <2>1. Eq([i \in 0..0 |-> base], 0)
    OBVIOUS
  <2> QED BY <2>1
<1>2. ASSUME NEW n \in Nat, n \in T PROVE n + 1 \in T
  <2>1. PICK g : Eq(g, n)
    BY <1>2
  <2> DEFINE h == [i \in 0..(n + 1) |->
                     IF i = n + 1 THEN AppendPacket(g[n], s.mMaxSeq + (n + 1) - 1, TimeIn(s.mMaxSeq + (n + 1) - 1, seq, time)) ELSE g[i]]
  <2>2. ASSUME NEW i \in 0..(n + 1) PROVE h[i] = Turn(h, i)
    <3>1. CASE i = n + 1
      <4>1. h[n + 1] = AppendPacket(g[n], s.mMaxSeq + (n + 1) - 1, TimeIn(s.mMaxSeq + (n + 1) - 1, seq, time)) /\ h[n] = g[n] /\ (n + 1) - 1 = n /\ n + 1 # 0
        OBVIOUS
      <4> HIDE DEF h
      <4> QED BY <3>1, <4>1
    <3>2. CASE i # n + 1
      <4>1. i \in 0..n /\ h[i] = g[i] /\ (i # 0 => h[i - 1] = g[i - 1])
        BY <3>2
      <4>2. g[i] = Turn(g, i)
        BY <2>1, <4>1
      <4> HIDE DEF h
      <4> QED BY <4>1, <4>2
    <3> QED BY <3>1, <3>2
  <2>3. h = [i \in 0..(n + 1) |-> h[i]]
    OBVIOUS
  <2> HIDE DEF h
  <2>4. Eq(h, n + 1)
    BY <2>2, <2>3, Zenon
  <2> QED BY <2>4
<1>3. Nat \subseteq T
  <2> HIDE DEF T
  <2> QED BY <1>1, <1>2, NatSetInduction
<1>4. len \in Nat /\ \E g : Eq(g, len)
  <2>1. len \in Nat
    OBVIOUS
  <2> HIDE DEF len
  <2> QED BY <1>3, <2>1
<1> DEFINE w == ForwardWalk(s, seq, time)
<1>5. w = CHOOSE g : Eq(g, len)
  BY DEF ForwardWalk
<1>6. Eq(w, len)
  BY <1>4, <1>5, Zenon
<1> HIDE DEF w, base, len
<1>7. \A i \in 0..len : w[i] = Turn(w, i)
  BY <1>6
<1>8. 0 \in 0..len /\ \A i \in 1..len : i \in 0..len /\ i # 0
  BY <1>4
<1> QED BY <1>7, <1>8 DEF w, base, len

\* The turns of the loop that adds packets before the first one.
LEMMA BackwardWalkIs ==
    ASSUME NEW s, NEW seq, NEW time, s.mMinSeq - seq \in Nat
    PROVE  /\ BackwardWalk(s, seq, time)[0] = s
           /\ \A i \in 1..(s.mMinSeq - seq) :
                 BackwardWalk(s, seq, time)[i] = AddPacket(BackwardWalk(s, seq, time)[i - 1], s.mMinSeq - i, TimeIn(s.mMinSeq - i, seq, time))
<1> DEFINE len == s.mMinSeq - seq
           base == s
           Turn(g, i) == IF i = 0 THEN base ELSE AddPacket(g[i - 1], s.mMinSeq - i, TimeIn(s.mMinSeq - i, seq, time))
           Eq(g, n) == g = [i \in 0..n |-> Turn(g, i)]
           T == {n \in Nat : \E g : Eq(g, n)}
<1>1. 0 \in T
  <2>1. Eq([i \in 0..0 |-> base], 0)
    OBVIOUS
  <2> QED BY <2>1
<1>2. ASSUME NEW n \in Nat, n \in T PROVE n + 1 \in T
  <2>1. PICK g : Eq(g, n)
    BY <1>2
  <2> DEFINE h == [i \in 0..(n + 1) |->
                     IF i = n + 1 THEN AddPacket(g[n], s.mMinSeq - (n + 1), TimeIn(s.mMinSeq - (n + 1), seq, time)) ELSE g[i]]
  <2>2. ASSUME NEW i \in 0..(n + 1) PROVE h[i] = Turn(h, i)
    <3>1. CASE i = n + 1
      <4>1. h[n + 1] = AddPacket(g[n], s.mMinSeq - (n + 1), TimeIn(s.mMinSeq - (n + 1), seq, time)) /\ h[n] = g[n] /\ (n + 1) - 1 = n /\ n + 1 # 0
        OBVIOUS
      <4> HIDE DEF h
      <4> QED BY <3>1, <4>1
    <3>2. CASE i # n + 1
      <4>1. i \in 0..n /\ h[i] = g[i] /\ (i # 0 => h[i - 1] = g[i - 1])
        BY <3>2
      <4>2. g[i] = Turn(g, i)
        BY <2>1, <4>1
      <4> HIDE DEF h
      <4> QED BY <4>1, <4>2
    <3> QED BY <3>1, <3>2
  <2>3. h = [i \in 0..(n + 1) |-> h[i]]
    OBVIOUS
  <2> HIDE DEF h
  <2>4. Eq(h, n + 1)
    BY <2>2, <2>3, Zenon
  <2> QED BY <2>4
<1>3. Nat \subseteq T
  <2> HIDE DEF T
  <2> QED BY <1>1, <1>2, NatSetInduction
<1>4. len \in Nat /\ \E g : Eq(g, len)
  <2>1. len \in Nat
    OBVIOUS
  <2> HIDE DEF len
  <2> QED BY <1>3, <2>1
<1> DEFINE w == BackwardWalk(s, seq, time)
<1>5. w = CHOOSE g : Eq(g, len)
  BY DEF BackwardWalk
<1>6. Eq(w, len)
  BY <1>4, <1>5, Zenon
<1> HIDE DEF w, base, len
<1>7. \A i \in 0..len : w[i] = Turn(w, i)
  BY <1>6
<1>8. 0 \in 0..len /\ \A i \in 1..len : i \in 0..len /\ i # 0
  BY <1>4
<1> QED BY <1>7, <1>8 DEF w, base, len

\* A packet beyond the end: those before it are missing so far.
LEMMA ForwardOK ==
    ASSUME NEW s, NEW time \in Int, NEW seq \in Int, SubInv(s, time), s.started = TRUE,
           seq >= s.mMaxSeq, s.lastGenerated <= time
    PROVE  SubInv(ExtendForward(s, seq, time), time)
           /\ SameSub(ExtendForward(s, seq, time), s)
<1> DEFINE max == s.mMaxSeq
           n == seq - max + 1
           w == ForwardWalk(s, seq, time)
           T == {k \in Nat : k <= n => /\ SubInv(w[k], time) /\ SameSub(w[k], s)
                                       /\ w[k].mMaxSeq = max + k}
<1>1. max \in Int /\ n \in Nat /\ s.lastGenerated \in Int
  BY DEF SubInv, SubCore, Ring
<1>2. /\ w[0] = s
      /\ \A k \in 1..n : w[k] = AppendPacket(w[k - 1], max + k - 1, TimeIn(max + k - 1, seq, time))
  BY <1>1, ForwardWalkIs
<1> HIDE DEF w, n
<1>3. 0 \in T
  BY <1>1, <1>2 DEF SameSub
<1>4. ASSUME NEW k \in Nat, k \in T PROVE k + 1 \in T
  <2> SUFFICES ASSUME k + 1 <= n
               PROVE  /\ SubInv(w[k + 1], time) /\ SameSub(w[k + 1], s)
                      /\ w[k + 1].mMaxSeq = max + (k + 1)
    OBVIOUS
  <2> DEFINE u == w[k]
             t == TimeIn(u.mMaxSeq, seq, time)
  <2>1. SubInv(u, time) /\ SameSub(u, s) /\ u.mMaxSeq = max + k
    BY <1>1, <1>4
  <2>2. k + 1 \in 1..n /\ (k + 1) - 1 = k /\ max + (k + 1) - 1 = max + k
    BY <1>1
  <2>3. w[k + 1] = AppendPacket(u, u.mMaxSeq, t)
    BY <1>2, <2>1, <2>2
  <2>4. u.started = TRUE /\ u.lastGenerated = s.lastGenerated
    BY <2>1 DEF SameSub
  <2>5. t \in Int /\ (t = 0 \/ t \in u.lastGenerated .. time)
    BY <1>1, <2>4 DEF TimeIn
  <2> HIDE DEF u, t
  <2> DEFINE a == AppendPacket(u, u.mMaxSeq, t)
  <2>6. SubInv(a, time) /\ SameSub(a, u) /\ a.mMaxSeq = u.mMaxSeq + 1
    BY <2>1, <2>4, <2>5, AppendOK
  <2> HIDE DEF a
  <2>7. SameSub(a, s) /\ a.mMaxSeq = max + (k + 1)
    BY <1>1, <2>1, <2>6 DEF SameSub
  <2>8. w[k + 1] = a
    BY <2>3 DEF a
  <2> QED BY <2>6, <2>7, <2>8
<1>5. Nat \subseteq T
  <2> HIDE DEF T
  <2> QED BY <1>3, <1>4, NatSetInduction
<1>6. SubInv(w[n], time) /\ SameSub(w[n], s)
  BY <1>1, <1>5
<1> QED BY <1>6 DEF ExtendForward, w, n

\* A packet before the first one, if the ring can hold it.
LEMMA BackwardOK ==
    ASSUME NEW s, NEW time \in Int, NEW seq \in Int, SubInv(s, time), s.started = TRUE,
           seq < s.mMinSeq, s.mMaxSeq - seq <= MaxPacketCount, s.lastGenerated <= time
    PROVE  SubInv(ExtendBackward(s, seq, time), time)
           /\ SameSub(ExtendBackward(s, seq, time), s)
<1> DEFINE min == s.mMinSeq
           max == s.mMaxSeq
           n == min - seq
           w == BackwardWalk(s, seq, time)
           T == {k \in Nat : k <= n => /\ SubCore(w[k], min - k, time) /\ SameSub(w[k], s)
                                       /\ w[k].mMaxSeq = max}
<1>0. MaxPacketCount \in Nat /\ MaxPacketCount > 0
  BY TwccAssumption
<1>1. min \in Int /\ max \in Int /\ n \in Nat /\ s.lastGenerated \in Int
  BY DEF SubInv, SubCore, Ring
<1>2. /\ w[0] = s
      /\ \A k \in 1..n : w[k] = AddPacket(w[k - 1], min - k, TimeIn(min - k, seq, time))
  BY <1>1, BackwardWalkIs
<1> HIDE DEF w, n
<1>3. 0 \in T
  <2>1. min - 0 = min
    BY <1>1
  <2> QED BY <1>1, <1>2, <2>1 DEF SameSub, SubInv
<1>4. ASSUME NEW k \in Nat, k \in T PROVE k + 1 \in T
  <2> SUFFICES ASSUME k + 1 <= n
               PROVE  /\ SubCore(w[k + 1], min - (k + 1), time) /\ SameSub(w[k + 1], s)
                      /\ w[k + 1].mMaxSeq = max
    OBVIOUS
  <2> DEFINE u == w[k]
             lo == min - k
             q == min - (k + 1)
             t == TimeIn(q, seq, time)
  <2>1. SubCore(u, lo, time) /\ SameSub(u, s) /\ u.mMaxSeq = max
    BY <1>1, <1>4
  <2>2. k + 1 \in 1..n /\ (k + 1) - 1 = k /\ q = lo - 1 /\ max - lo < MaxPacketCount
    BY <1>0, <1>1 DEF n
  <2>3. w[k + 1] = AddPacket(u, q, t)
    BY <1>2, <2>2
  <2>4. u.started = TRUE /\ u.lastGenerated = s.lastGenerated
    BY <2>1 DEF SameSub
  <2>5. t \in Int /\ (t = 0 \/ t \in u.lastGenerated .. time)
    BY <1>1, <2>4 DEF TimeIn
  <2> HIDE DEF u, t, q, lo
  <2> DEFINE a == AddPacket(u, q, t)
  <2>6. Added(a, u, lo, q, time)
    BY <2>1, <2>2, <2>5, AddOK
  <2> HIDE DEF a
  <2>7. SameSub(a, s) /\ a.mMaxSeq = max /\ a.lastGenerated = u.lastGenerated
    BY <2>1, <2>6 DEF SameSub, Added
  <2>8. SubCore(a, q, time)
    BY <2>1, <2>2, <2>6, <2>7 DEF SubCore, Added
  <2>9. w[k + 1] = a
    BY <2>3 DEF a
  <2> QED BY <2>7, <2>8, <2>9 DEF q
<1>5. Nat \subseteq T
  <2> HIDE DEF T
  <2> QED BY <1>3, <1>4, NatSetInduction
<1> DEFINE b == w[n]
           a == [b EXCEPT !.mMinSeq = seq]
<1>6. SubCore(b, seq, time) /\ SameSub(b, s)
  <2>1. min - n = seq
    BY <1>1 DEF n
  <2> QED BY <1>1, <1>5, <2>1
<1>7. ExtendBackward(s, seq, time) = a
  BY DEF ExtendBackward, w, n
<1> HIDE DEF b
<1>8. SubShape(a) /\ a.list = b.list /\ a.mMinSeq = seq /\ a.mMaxSeq = b.mMaxSeq
      /\ a.ext = b.ext /\ a.lastGenerated = b.lastGenerated /\ a.started = b.started
      /\ a.aborted = b.aborted /\ a.hung = b.hung
  BY <1>6 DEF SubShape, SubCore
<1> HIDE DEF a
<1>9. SubCore(a, a.mMinSeq, time) /\ SameSub(a, s) /\ a.started = TRUE
  BY <1>6, <1>8 DEF SubCore, SameSub
<1> QED BY <1>7, <1>9 DEF SubInv

\* An extended sequence number is a number.
LEMMA ExtendIs ==
    ASSUME NEW ev \in [base : Int, at : Int, last : Int], NEW src \in Int, NEW time \in Int,
           NEW mod \in Int
    PROVE  /\ extend(ev, src, time, mod).ev \in [base : Int, at : Int, last : Int]
           /\ extend(ev, src, time, mod).value \in Int
<1> DEFINE e == IF ev.base = 0 THEN [ev EXCEPT !.base = mod, !.at = time] ELSE ev
<1>1. e \in [base : Int, at : Int, last : Int]
  OBVIOUS
<1>2. \/ extend(ev, src, time, mod) = [ev |-> [e EXCEPT !.last = src], value |-> e.base + src]
      \/ extend(ev, src, time, mod)
            = [ev |-> [e EXCEPT !.base = e.base + mod, !.at = time, !.last = src],
               value |-> (e.base + mod) + src]
      \/ extend(ev, src, time, mod) = [ev |-> e, value |-> e.base - mod + src]
  <2>1. [e EXCEPT !.base = e.base + mod, !.at = time, !.last = src].base = e.base + mod
    BY <1>1
  <2> HIDE DEF e
  <2>2. CASE e.last = -1
    BY <2>2 DEF extend, e
  <2>3. CASE e.last # -1
    BY <2>1, <2>3 DEF extend, e
  <2> QED BY <2>2, <2>3
<1> HIDE DEF e
<1>3. e.base \in Int /\ e.base + src \in Int /\ (e.base + mod) + src \in Int
      /\ e.base - mod + src \in Int
  BY <1>1
<1>4. /\ [e EXCEPT !.last = src] \in [base : Int, at : Int, last : Int]
      /\ [e EXCEPT !.base = e.base + mod, !.at = time, !.last = src]
            \in [base : Int, at : Int, last : Int]
  <2> DEFINE b == e.base + mod
  <2>1. b \in Int
    BY <1>3
  <2> HIDE DEF b
  <2>2. [e EXCEPT !.base = b, !.at = time, !.last = src] \in [base : Int, at : Int, last : Int]
    BY <1>1, <2>1
  <2>3. [e EXCEPT !.last = src] \in [base : Int, at : Int, last : Int]
    BY <1>1
  <2> QED BY <2>2, <2>3 DEF b
<1> DEFINE x == extend(ev, src, time, mod)
<1> HIDE DEF x
<1>5. CASE x = [ev |-> [e EXCEPT !.last = src], value |-> e.base + src]
  BY <1>3, <1>4, <1>5 DEF x
<1>6. CASE x = [ev |-> [e EXCEPT !.base = e.base + mod, !.at = time, !.last = src],
                value |-> (e.base + mod) + src]
  BY <1>3, <1>4, <1>6 DEF x
<1>7. CASE x = [ev |-> e, value |-> e.base - mod + src]
  BY <1>1, <1>3, <1>7 DEF x
<1> QED BY <1>2, <1>5, <1>6, <1>7 DEF x

\* A ring without packets, and one with its first packet.
LEMMA RingFirst ==
    ASSUME NEW list, NEW seq \in Int, NEW time \in Int,
           list \in [Slots -> Packet], \A i \in Slots : list[i] = NoPacket
    PROVE  Ring(Put(list, seq, time), seq, seq + 1)
<1>0. MaxPacketCount \in Nat /\ MaxPacketCount > 0
  BY TwccAssumption
<1>1. Ring(list, seq, seq)
  BY <1>0 DEF Ring
<1>2. seq - seq < MaxPacketCount
  BY <1>0
<1>3. seq = seq => Ring(Put(list, seq, time), seq, seq + 1)
  BY <1>1, <1>2, RingPut
<1> QED BY <1>3

\* An empty range means an empty ring.
LEMMA RingEmpty ==
    ASSUME NEW list, NEW lo, Ring(list, lo, lo)
    PROVE  list \in [Slots -> Packet] /\ \A i \in Slots : list[i] = NoPacket
BY DEF Ring

\* A packet that is in the ring already gets a time.
LEMMA RingTouch ==
    ASSUME NEW list, NEW lo, NEW hi, NEW s \in lo .. hi - 1, NEW time \in Int, Ring(list, lo, hi)
    PROVE  Ring([list EXCEPT ![SlotOf(s)].time = time], lo, hi)
<1> DEFINE rest == [list EXCEPT ![SlotOf(s)].time = time]
           p == [seq |-> s, time |-> time]
<1>1. /\ list \in [Slots -> Packet] /\ lo \in Int /\ hi \in Int /\ s \in Int
      /\ list[SlotOf(s)].seq = s /\ SlotOf(s) \in Slots
  BY SlotFacts DEF Ring
<1>2. list[SlotOf(s)] \in Packet
  BY <1>1
<1>3. rest = [list EXCEPT ![SlotOf(s)] = p]
  <2>1. [list[SlotOf(s)] EXCEPT !.time = time] = p
    BY <1>1, <1>2 DEF Packet
  <2> HIDE DEF p
  <2> QED BY <2>1, Zenon
<1> HIDE DEF rest
<1>4. rest \in [Slots -> Packet]
      /\ \A i \in Slots : rest[i] = IF i = SlotOf(s) THEN p ELSE list[i]
  <2>1. p \in Packet
    BY <1>1 DEF Packet
  <2> HIDE DEF p
  <2> QED BY <1>1, <1>3, <2>1
<1>5. ASSUME NEW t \in lo .. hi - 1 PROVE rest[SlotOf(t)].seq = t
  <2>1. SlotOf(t) \in Slots /\ list[SlotOf(t)].seq = t
    BY <1>1, SlotFacts DEF Ring
  <2> QED BY <1>1, <1>4, <2>1
<1>6. ASSUME NEW i \in Slots, rest[i] # NoPacket PROVE \E t \in lo .. hi - 1 : SlotOf(t) = i
  <2>1. CASE i = SlotOf(s)
    BY <2>1
  <2>2. CASE i # SlotOf(s)
    BY <1>4, <1>6, <2>2 DEF Ring
  <2> QED BY <2>1, <2>2
<1>7. lo <= hi /\ hi <= lo + MaxPacketCount
  BY DEF Ring
<1> QED BY <1>1, <1>4, <1>5, <1>6, <1>7 DEF Ring, rest

\* A history with other values in the fields the invariant does not look at.
LEMMA OtherFields ==
    ASSUME NEW s, NEW time, NEW ext \in [base : Int, at : Int, last : Int], NEW last,
           SubInv(s, time)
    PROVE  /\ SubInv([s EXCEPT !.ext = ext], time)
           /\ SubInv([s EXCEPT !.lastPacket = last], time)
<1> DEFINE a == [s EXCEPT !.ext = ext]
           b == [s EXCEPT !.lastPacket = last]
<1>0. SubShape(s)
  BY DEF SubInv, SubCore
<1>1. SubShape(a) /\ a.list = s.list /\ a.mMinSeq = s.mMinSeq /\ a.mMaxSeq = s.mMaxSeq
      /\ a.ext = ext /\ a.lastGenerated = s.lastGenerated /\ a.started = s.started
      /\ a.aborted = s.aborted /\ a.hung = s.hung
  BY <1>0 DEF SubShape
<1>2. SubShape(b) /\ b.list = s.list /\ b.mMinSeq = s.mMinSeq /\ b.mMaxSeq = s.mMaxSeq
      /\ b.ext = s.ext /\ b.lastGenerated = s.lastGenerated /\ b.started = s.started
      /\ b.aborted = s.aborted /\ b.hung = s.hung
  BY <1>0 DEF SubShape
<1> HIDE DEF a, b
<1>3. SubInv(a, time)
  BY <1>1 DEF SubInv, SubCore
<1>4. SubInv(b, time)
  BY <1>2 DEF SubInv, SubCore
<1> QED BY <1>3, <1>4 DEF a, b

Begun(b, seq, time) ==
    [b EXCEPT !.started = TRUE, !.mMinSeq = seq, !.mMaxSeq = seq + 1,
              !.list = Put(b.list, seq, time)]

\* The history after its first packet, or after the reset that follows a silence.
LEMMA FirstOK ==
    ASSUME NEW b, NEW time \in Int, NEW seq \in Int,
           SubShape(b), b.list \in [Slots -> Packet], \A i \in Slots : b.list[i] = NoPacket,
           b.lastGenerated \in Int, b.lastGenerated <= time,
           b.ext \in [base : Int, at : Int, last : Int], b.aborted = FALSE, b.hung = FALSE
    PROVE  SubInv(Begun(b, seq, time), time)
           /\ Begun(b, seq, time).lastGenerated = b.lastGenerated
<1> DEFINE list == Put(b.list, seq, time)
           r == Begun(b, seq, time)
<1>1. Ring(list, seq, seq + 1)
  BY RingFirst
<1>2. Timely(list, b.lastGenerated, time)
  <2>1. NoPacket.time = 0 /\ time \in b.lastGenerated .. time
    BY DEF NoPacket
  <2> SUFFICES ASSUME NEW i \in Slots
               PROVE  list[i].time = 0 \/ list[i].time \in b.lastGenerated .. time
    BY DEF Timely
  <2>2. list[i] = NoPacket \/ list[i] = [seq |-> seq, time |-> time]
    BY DEF Put
  <2> HIDE DEF list
  <2> QED BY <2>1, <2>2
<1> HIDE DEF list
<1>3. SubShape(r) /\ r.list = list /\ r.mMinSeq = seq /\ r.mMaxSeq = seq + 1
      /\ r.ext = b.ext /\ r.lastGenerated = b.lastGenerated /\ r.started = TRUE
      /\ r.aborted = b.aborted /\ r.hung = b.hung
  <2> DEFINE end == seq + 1
  <2>1. r = [b EXCEPT !.started = TRUE, !.mMinSeq = seq, !.mMaxSeq = end, !.list = list]
    BY DEF list, Begun
  <2> HIDE DEF r, end
  <2>2. SubShape(r) /\ r.list = list /\ r.mMinSeq = seq /\ r.mMaxSeq = end
        /\ r.ext = b.ext /\ r.lastGenerated = b.lastGenerated /\ r.started = TRUE
        /\ r.aborted = b.aborted /\ r.hung = b.hung
    BY <2>1 DEF SubShape
  <2> QED BY <2>2 DEF end
<1> HIDE DEF r
<1>4. SubInv(r, time) /\ r.lastGenerated = b.lastGenerated
  BY <1>1, <1>2, <1>3 DEF SubInv, SubCore
<1> QED BY <1>4 DEF r

\* A packet that is in the range already, missing so far or received before.
LEMMA TouchOK ==
    ASSUME NEW b, NEW time \in Int, NEW seq \in b.mMinSeq .. b.mMaxSeq - 1, SubInv(b, time)
    PROVE  LET r == [b EXCEPT !.list[SlotOf(seq)].time = time]
           IN  SubInv(r, time) /\ r.lastGenerated = b.lastGenerated
<1> DEFINE list == [b.list EXCEPT ![SlotOf(seq)].time = time]
           r == [b EXCEPT !.list[SlotOf(seq)].time = time]
<1>0. SubShape(b) /\ b.list \in [Slots -> Packet] /\ b.lastGenerated \in Int
      /\ b.lastGenerated <= time /\ Timely(b.list, b.lastGenerated, time)
  BY DEF SubInv, SubCore, Ring
<1>1. Ring(list, b.mMinSeq, b.mMaxSeq)
  BY RingTouch DEF SubInv, SubCore
<1>2. Timely(list, b.lastGenerated, time)
  <2> SUFFICES ASSUME NEW i \in Slots
               PROVE  list[i].time = 0 \/ list[i].time \in b.lastGenerated .. time
    BY DEF Timely
  <2>1. b.list[i].time = 0 \/ b.list[i].time \in b.lastGenerated .. time
    BY <1>0 DEF Timely
  <2>2. b.list[i] \in Packet
    BY <1>0
  <2>3. CASE i = SlotOf(seq)
    <3>1. list[i] = [b.list[i] EXCEPT !.time = time]
      BY <1>0, <2>3
    <3>2. list[i].time = time
      BY <2>2, <3>1 DEF Packet
    <3> QED BY <1>0, <3>2
  <2>4. CASE i # SlotOf(seq)
    BY <1>0, <2>1, <2>4
  <2> QED BY <2>3, <2>4
<1> HIDE DEF list
<1>3. SubShape(r) /\ r.list = list /\ r.mMinSeq = b.mMinSeq /\ r.mMaxSeq = b.mMaxSeq
      /\ r.ext = b.ext /\ r.lastGenerated = b.lastGenerated /\ r.started = b.started
      /\ r.aborted = b.aborted /\ r.hung = b.hung
  BY <1>0 DEF SubShape, list
<1> HIDE DEF r
<1>4. SubInv(r, time) /\ r.lastGenerated = b.lastGenerated
  BY <1>1, <1>2, <1>3 DEF SubInv, SubCore
<1> QED BY <1>4 DEF r

\* A packet arrives, whatever its number: the ring stays exact and no assertion fails.
LEMMA SaveOK ==
    ASSUME NEW s, NEW seq16 \in Int, NEW time \in Int, SubInv(s, time)
    PROVE  LET r == saveIncomingPacket(s, seq16, time)
           IN  SubInv(r, time) /\ r.lastGenerated = s.lastGenerated
<1> DEFINE x == extend(s.ext, seq16, time, SeqRange)
           seq == x.value
           a == [s EXCEPT !.ext = x.ev]
           silent == /\ a.started /\ a.lastPacket # 0 /\ time - a.lastPacket >= ResetDelay
                     /\ seq > a.mMaxSeq + MaxPacketCount \div 8
           c == IF silent THEN freeEverything(a) ELSE a
           b == [c EXCEPT !.lastPacket = time]
           r == saveIncomingPacket(s, seq16, time)
<1>0. MaxPacketCount \in Nat /\ MaxPacketCount > 0 /\ SeqRange \in Int
  BY TwccAssumption
<1>1. x.ev \in [base : Int, at : Int, last : Int] /\ seq \in Int
  BY <1>0, ExtendIs DEF SubInv, SubCore
<1>2. SubInv(a, time) /\ a.lastGenerated = s.lastGenerated
  <2> HIDE DEF x
  <2>1. SubInv(a, time)
    BY <1>1, OtherFields
  <2>2. a.lastGenerated = s.lastGenerated
    BY DEF SubInv, SubCore, SubShape
  <2> QED BY <2>1, <2>2
<1>3. r = IF ~b.started \/ b.mMinSeq = b.mMaxSeq
          THEN Begun(b, seq, time)
          ELSE IF \/ seq + MaxPacketCount \div 4 < b.mMinSeq
                  \/ seq > b.mMaxSeq + MaxPacketCount \div 4 THEN b
          ELSE IF seq >= b.mMaxSeq THEN ExtendForward(b, seq, time)
          ELSE IF seq < b.mMinSeq
          THEN IF b.mMaxSeq - seq > MaxPacketCount THEN b ELSE ExtendBackward(b, seq, time)
          ELSE [b EXCEPT !.list[SlotOf(seq)].time = time]
  BY DEF saveIncomingPacket, Put, Begun
<1>4. /\ SubShape(b) /\ b.list \in [Slots -> Packet]
      /\ b.lastGenerated \in Int /\ b.lastGenerated <= time
      /\ b.ext \in [base : Int, at : Int, last : Int] /\ b.aborted = FALSE /\ b.hung = FALSE
      /\ b.lastGenerated = s.lastGenerated
      /\ SubInv(b, time) \/ (b.started = FALSE /\ \A i \in Slots : b.list[i] = NoPacket)
  <2> HIDE DEF x, seq, a
  <2>1. CASE ~silent
    <3>1. SubInv(b, time)
      BY <1>1, <1>2, <2>1, OtherFields
    <3>2. b.lastGenerated = a.lastGenerated
      BY <1>2, <2>1 DEF SubInv, SubCore, SubShape
    <3> HIDE DEF b
    <3> QED BY <1>2, <3>1, <3>2 DEF SubInv, SubCore, Ring
  <2>2. CASE silent
    <3> HIDE DEF silent
    <3> DEFINE list == [i \in DOMAIN a.list |-> NoPacket]
    <3>1. SubShape(a) /\ DOMAIN a.list = Slots
      BY <1>2 DEF SubInv, SubCore, Ring
    <3>2. NoPacket \in Packet
      BY DEF NoPacket, Packet
    <3>3. list \in [Slots -> Packet] /\ \A i \in Slots : list[i] = NoPacket
      BY <3>1, <3>2
    <3>4. c = [a EXCEPT !.started = FALSE, !.list = list]
      BY <2>2 DEF freeEverything
    <3> HIDE DEF list, c
    <3>6. SubShape(c) /\ c.list = list /\ c.started = FALSE /\ c.ext = a.ext
          /\ c.lastGenerated = a.lastGenerated /\ c.aborted = a.aborted /\ c.hung = a.hung
      BY <3>1, <3>4 DEF SubShape
    <3>5. SubShape(b) /\ b.list = list /\ b.started = FALSE /\ b.ext = a.ext
          /\ b.lastGenerated = a.lastGenerated /\ b.aborted = a.aborted /\ b.hung = a.hung
      BY <3>6 DEF SubShape
    <3> HIDE DEF b
    <3> QED BY <1>2, <3>3, <3>5 DEF SubInv, SubCore
  <2> QED BY <2>1, <2>2
<1> HIDE DEF x, seq, a, silent, c, b, r
<1>5. CASE ~b.started \/ b.mMinSeq = b.mMaxSeq
  <2>1. \A i \in Slots : b.list[i] = NoPacket
    <3>1. CASE SubInv(b, time)
      <4>1. b.mMinSeq = b.mMaxSeq
        BY <1>5, <3>1 DEF SubInv
      <4> QED BY <3>1, <4>1, RingEmpty DEF SubInv, SubCore
    <3> QED BY <1>4, <3>1
  <2>2. r = Begun(b, seq, time)
    BY <1>3, <1>5
  <2>3. SubInv(Begun(b, seq, time), time) /\ Begun(b, seq, time).lastGenerated = b.lastGenerated
    BY <1>1, <1>4, <2>1, FirstOK
  <2> QED BY <1>4, <2>2, <2>3 DEF r
<1>6. CASE ~(~b.started \/ b.mMinSeq = b.mMaxSeq)
  <2>1. SubInv(b, time)
    BY <1>4, <1>6
  <2>2. b.started = TRUE /\ b.mMinSeq \in Int /\ b.mMaxSeq \in Int
    BY <1>6, <2>1 DEF SubInv, SubCore, Ring
  <2>3. CASE r = b
    BY <1>4, <2>1, <2>3 DEF r
  <2>4. CASE seq >= b.mMaxSeq /\ r = ExtendForward(b, seq, time)
    <3>1. SubInv(ExtendForward(b, seq, time), time) /\ SameSub(ExtendForward(b, seq, time), b)
      BY <1>1, <1>4, <2>1, <2>2, <2>4, ForwardOK
    <3>2. SubInv(r, time) /\ r.lastGenerated = b.lastGenerated
      BY <2>4, <3>1 DEF SameSub
    <3> QED BY <1>4, <3>2 DEF r
  <2>5. CASE seq < b.mMinSeq /\ b.mMaxSeq - seq <= MaxPacketCount
             /\ r = ExtendBackward(b, seq, time)
    <3>1. SubInv(ExtendBackward(b, seq, time), time) /\ SameSub(ExtendBackward(b, seq, time), b)
      BY <1>1, <1>4, <2>1, <2>2, <2>5, BackwardOK
    <3>2. SubInv(r, time) /\ r.lastGenerated = b.lastGenerated
      BY <2>5, <3>1 DEF SameSub
    <3> QED BY <1>4, <3>2 DEF r
  <2>6. CASE seq \in b.mMinSeq .. b.mMaxSeq - 1
             /\ r = [b EXCEPT !.list[SlotOf(seq)].time = time]
    BY <1>4, <2>1, <2>6, TouchOK DEF r
  <2> QED BY <1>0, <1>1, <1>3, <1>6, <2>2, <2>3, <2>4, <2>5, <2>6
<1> QED BY <1>5, <1>6

-----------------------------------------------------------------------------
\* The loop of generate.

PeekStart(from) == [received |-> <<>>, deltas |-> <<>>, time |-> from, stop |-> FALSE]

\* The turns of the loops that look for a run of deltas.
LEMMA PeekWalkIs ==
    ASSUME NEW s, NEW from, NEW most \in Nat, NEW lo, NEW hi
    PROVE  /\ PeekWalk(s, from, most, lo, hi)[0] = PeekStart(from)
           /\ \A i \in 1..(most) :
                 PeekWalk(s, from, most, lo, hi)[i] = PeekStep(s, PeekWalk(s, from, most, lo, hi)[i - 1], s.mMinSeq + i - 1, lo, hi)
<1> DEFINE len == most
           base == PeekStart(from)
           Turn(g, i) == IF i = 0 THEN base ELSE PeekStep(s, g[i - 1], s.mMinSeq + i - 1, lo, hi)
           Eq(g, n) == g = [i \in 0..n |-> Turn(g, i)]
           T == {n \in Nat : \E g : Eq(g, n)}
<1>1. 0 \in T
  <2>1. Eq([i \in 0..0 |-> base], 0)
    OBVIOUS
  <2> QED BY <2>1
<1>2. ASSUME NEW n \in Nat, n \in T PROVE n + 1 \in T
  <2>1. PICK g : Eq(g, n)
    BY <1>2
  <2> DEFINE h == [i \in 0..(n + 1) |->
                     IF i = n + 1 THEN PeekStep(s, g[n], s.mMinSeq + (n + 1) - 1, lo, hi) ELSE g[i]]
  <2>2. ASSUME NEW i \in 0..(n + 1) PROVE h[i] = Turn(h, i)
    <3>1. CASE i = n + 1
      <4>1. h[n + 1] = PeekStep(s, g[n], s.mMinSeq + (n + 1) - 1, lo, hi) /\ h[n] = g[n] /\ (n + 1) - 1 = n /\ n + 1 # 0
        OBVIOUS
      <4> HIDE DEF h
      <4> QED BY <3>1, <4>1
    <3>2. CASE i # n + 1
      <4>1. i \in 0..n /\ h[i] = g[i] /\ (i # 0 => h[i - 1] = g[i - 1])
        BY <3>2
      <4>2. g[i] = Turn(g, i)
        BY <2>1, <4>1
      <4> HIDE DEF h
      <4> QED BY <4>1, <4>2
    <3> QED BY <3>1, <3>2
  <2>3. h = [i \in 0..(n + 1) |-> h[i]]
    OBVIOUS
  <2> HIDE DEF h
  <2>4. Eq(h, n + 1)
    BY <2>2, <2>3, Zenon
  <2> QED BY <2>4
<1>3. Nat \subseteq T
  <2> HIDE DEF T
  <2> QED BY <1>1, <1>2, NatSetInduction
<1>4. len \in Nat /\ \E g : Eq(g, len)
  <2>1. len \in Nat
    OBVIOUS
  <2> HIDE DEF len
  <2> QED BY <1>3, <2>1
<1> DEFINE w == PeekWalk(s, from, most, lo, hi)
<1>5. w = CHOOSE g : Eq(g, len)
  BY DEF PeekWalk, PeekStart
<1>6. Eq(w, len)
  BY <1>4, <1>5, Zenon
<1> HIDE DEF w, base, len
<1>7. \A i \in 0..len : w[i] = Turn(w, i)
  BY <1>6
<1>8. 0 \in 0..len /\ \A i \in 1..len : i \in 0..len /\ i # 0
  BY <1>4
<1> QED BY <1>7, <1>8 DEF w, base, len

\* The times that a report is relative to: at most a reference unit before the packets.
Since(s) == s.lastGenerated - RefUnit

\* A run of n packets, all of which are in the history.
RunInv(run, s, n, time) ==
    /\ run = [received |-> run.received, deltas |-> run.deltas, time |-> run.time, stop |-> run.stop]
    /\ run.received \in Seq(BOOLEAN)
    /\ Len(run.received) <= n /\ s.mMinSeq + Len(run.received) <= s.mMaxSeq
    /\ run.time \in Since(s) .. time

\* With deltas this wide nothing stops a run but its end.
Wide(lo, hi) ==
    lo \in Int /\ hi \in Int /\ lo <= -(RefUnit + GenerateInterval) /\ hi >= RefUnit + GenerateInterval

\* After k turns that nothing has stopped.
Unstopped(run, s, k) ==
    /\ s.mMinSeq + k <= s.mMaxSeq => run.stop = FALSE /\ Len(run.received) = k
    /\ s.mMinSeq + k > s.mMaxSeq => Len(run.received) = s.mMaxSeq - s.mMinSeq

\* One turn.
LEMMA PeekStepOK ==
    ASSUME NEW s, NEW time \in Int, NEW k \in Nat, NEW run, NEW lo, NEW hi,
           SubInv(s, time), time - s.lastGenerated <= GenerateInterval,
           RunInv(run, s, k, time)
    PROVE  LET r == PeekStep(s, run, s.mMinSeq + k, lo, hi)
           IN  /\ RunInv(r, s, k + 1, time)
               /\ Wide(lo, hi) /\ Unstopped(run, s, k) => Unstopped(r, s, k + 1)
<1> DEFINE q == s.mMinSeq + k
           t == s.list[SlotOf(q)].time
           r == PeekStep(s, run, q, lo, hi)
           n == Len(run.received)
<1>0. RefUnit \in Nat /\ GenerateInterval \in Nat
  BY TwccAssumption
<1>1. /\ s.mMinSeq \in Int /\ s.mMaxSeq \in Int /\ s.mMinSeq <= s.mMaxSeq /\ q \in Int
      /\ s.lastGenerated \in Int /\ SlotOf(q) \in Slots
      /\ t = 0 \/ t \in s.lastGenerated .. time
  BY SlotFacts DEF SubInv, SubCore, Ring, Timely
<1>2. n \in Nat /\ n <= k /\ s.mMinSeq + n <= s.mMaxSeq /\ run.received \in Seq(BOOLEAN)
      /\ run.time \in Since(s) .. time /\ Since(s) \in Int
  BY <1>0, <1>1 DEF RunInv, Since
<1>3. r = IF run.stop \/ q >= s.mMaxSeq THEN [run EXCEPT !.stop = TRUE]
          ELSE IF t = 0 THEN [run EXCEPT !.received = Append(@, FALSE)]
          ELSE IF t >= run.time + lo /\ t <= run.time + hi
          THEN [run EXCEPT !.received = Append(@, TRUE), !.time = t,
                           !.deltas = Append(@, t - run.time)]
          ELSE [run EXCEPT !.stop = TRUE]
  BY DEF PeekStep, PacketAt
<1>4. ASSUME r = [run EXCEPT !.stop = TRUE]
      PROVE  RunInv(r, s, k + 1, time) /\ r.received = run.received
  <2> HIDE DEF r
  <2>1. r.received = run.received /\ r.time = run.time
        /\ r = [received |-> r.received, deltas |-> r.deltas, time |-> r.time, stop |-> r.stop]
    BY <1>4 DEF RunInv
  <2> QED BY <1>1, <1>2, <2>1 DEF RunInv
<1>5. ASSUME NEW f \in BOOLEAN, ~(run.stop \/ q >= s.mMaxSeq), r.received = Append(run.received, f),
             r = [received |-> r.received, deltas |-> r.deltas, time |-> r.time, stop |-> r.stop],
             r.time \in Since(s) .. time
      PROVE  RunInv(r, s, k + 1, time) /\ Len(r.received) = n + 1
  <2> HIDE DEF r
  <2>1. Append(run.received, f) \in Seq(BOOLEAN) /\ Len(Append(run.received, f)) = n + 1
    BY <1>2
  <2>2. s.mMinSeq + (n + 1) <= s.mMaxSeq /\ n + 1 <= k + 1
    <3>1. s.mMinSeq + k < s.mMaxSeq
      BY <1>1, <1>5
    <3> HIDE DEF n
    <3> DEFINE first == s.mMinSeq
               end == s.mMaxSeq
    <3>2. first \in Int /\ end \in Int /\ n \in Nat /\ n <= k /\ first + k < end
      BY <1>1, <1>2, <3>1
    <3> HIDE DEF first, end
    <3>3. first + (n + 1) <= end /\ n + 1 <= k + 1
      BY <3>2
    <3> QED BY <3>3 DEF first, end
  <2> QED BY <1>5, <2>1, <2>2 DEF RunInv
<1>6. CASE run.stop \/ q >= s.mMaxSeq
  <2>1. r = [run EXCEPT !.stop = TRUE]
    BY <1>3, <1>6
  <2>2. RunInv(r, s, k + 1, time) /\ r.received = run.received
    BY <1>4, <2>1
  <2> HIDE DEF r
  <2>3. ASSUME Unstopped(run, s, k) PROVE Unstopped(r, s, k + 1)
    <3>1. CASE s.mMinSeq + k > s.mMaxSeq
      BY <1>1, <2>2, <2>3, <3>1 DEF Unstopped
    <3>2. CASE s.mMinSeq + k <= s.mMaxSeq
      <4>1. run.stop = FALSE /\ n = k
        BY <2>3, <3>2 DEF Unstopped
      <4>2. s.mMinSeq + k = s.mMaxSeq
        BY <1>1, <1>6, <3>2, <4>1
      <4> QED BY <1>1, <2>2, <4>1, <4>2 DEF Unstopped
    <3> QED BY <1>1, <3>1, <3>2
  <2> QED BY <2>2, <2>3 DEF r
<1>7. CASE ~(run.stop \/ q >= s.mMaxSeq)
  <2>0. s.mMinSeq + k < s.mMaxSeq
    BY <1>1, <1>7
  <2>1. CASE t = 0
    <3>1. r = [run EXCEPT !.received = Append(@, FALSE)]
      BY <1>3, <1>7, <2>1
    <3> DEFINE x == Append(run.received, FALSE)
    <3>2. r = [run EXCEPT !.received = x]
      BY <3>1
    <3>3. r.received = x /\ r.time = run.time /\ r.stop = run.stop
          /\ r = [received |-> r.received, deltas |-> r.deltas, time |-> r.time, stop |-> r.stop]
      <4> HIDE DEF r, x
      <4> QED BY <3>2 DEF RunInv
    <3>4. RunInv(r, s, k + 1, time) /\ Len(r.received) = n + 1
      BY <1>2, <1>5, <1>7, <3>3
    <3> HIDE DEF r, x
    <3>5. ASSUME Unstopped(run, s, k) PROVE Unstopped(r, s, k + 1)
      <4>1. run.stop = FALSE /\ n = k
        BY <1>1, <2>0, <3>5 DEF Unstopped
      <4>2. r.stop = FALSE /\ Len(r.received) = k + 1 /\ ~(s.mMinSeq + (k + 1) > s.mMaxSeq)
        BY <1>1, <2>0, <3>3, <3>4, <4>1
      <4> QED BY <4>2 DEF Unstopped
    <3> QED BY <3>4, <3>5 DEF r
  <2>2. CASE t # 0 /\ t >= run.time + lo /\ t <= run.time + hi
    <3> DEFINE x == Append(run.received, TRUE)
               d == Append(run.deltas, t - run.time)
    <3>2. r = [run EXCEPT !.received = x, !.time = t, !.deltas = d]
      BY <1>3, <1>7, <2>2
    <3>3. r.received = x /\ r.time = t /\ r.stop = run.stop
          /\ r = [received |-> r.received, deltas |-> r.deltas, time |-> r.time, stop |-> r.stop]
      <4> HIDE DEF r, x, d, t
      <4> QED BY <3>2 DEF RunInv
    <3>6. t \in Since(s) .. time
      BY <1>0, <1>1, <2>2 DEF Since
    <3>4. RunInv(r, s, k + 1, time) /\ Len(r.received) = n + 1
      BY <1>5, <1>7, <3>3, <3>6
    <3> HIDE DEF r, x, d, t
    <3>5. ASSUME Unstopped(run, s, k) PROVE Unstopped(r, s, k + 1)
      <4>1. run.stop = FALSE /\ n = k
        BY <1>1, <2>0, <3>5 DEF Unstopped
      <4>2. r.stop = FALSE /\ Len(r.received) = k + 1 /\ ~(s.mMinSeq + (k + 1) > s.mMaxSeq)
        BY <1>1, <2>0, <3>3, <3>4, <4>1
      <4> QED BY <4>2 DEF Unstopped
    <3> QED BY <3>4, <3>5 DEF r
  <2>3. CASE t # 0 /\ ~(t >= run.time + lo /\ t <= run.time + hi)
    <3>1. r = [run EXCEPT !.stop = TRUE]
      BY <1>3, <1>7, <2>3
    <3>2. RunInv(r, s, k + 1, time)
      BY <1>4, <3>1
    <3>3. ~Wide(lo, hi)
      <4> SUFFICES ASSUME Wide(lo, hi) PROVE FALSE
        OBVIOUS
      <4> DEFINE u == run.time
                 g == s.lastGenerated
      <4>1. u \in Int /\ g - RefUnit <= u /\ u <= time /\ g \in Int
        BY <1>0, <1>1, <1>2 DEF Since
      <4>2. t \in Int /\ g <= t /\ t <= time /\ time - g <= GenerateInterval
        BY <1>1, <2>3
      <4>3. lo \in Int /\ hi \in Int /\ lo <= -(RefUnit + GenerateInterval)
            /\ hi >= RefUnit + GenerateInterval
        BY DEF Wide
      <4>4. ~(t >= u + lo /\ t <= u + hi)
        BY <2>3
      <4> HIDE DEF u, g, t
      <4> QED BY <1>0, <4>1, <4>2, <4>3, <4>4
    <3> QED BY <3>2, <3>3
  <2> QED BY <2>1, <2>2, <2>3
<1> QED BY <1>6, <1>7

\* The run that is found: it is in the history, and a wide one is as long as can be.
LEMMA PeekOK ==
    ASSUME NEW s, NEW time \in Int, NEW from \in Int, NEW most \in Nat, NEW lo, NEW hi,
           SubInv(s, time), time - s.lastGenerated <= GenerateInterval,
           from \in Since(s) .. time
    PROVE  /\ RunInv(PeekRun(s, from, most, lo, hi), s, most, time)
           /\ Wide(lo, hi) => Unstopped(PeekRun(s, from, most, lo, hi), s, most)
<1> DEFINE w == PeekWalk(s, from, most, lo, hi)
           T == {k \in Nat : k <= most => /\ RunInv(w[k], s, k, time)
                                          /\ Wide(lo, hi) => Unstopped(w[k], s, k)}
<1>0. s.mMinSeq \in Int /\ s.mMaxSeq \in Int /\ s.mMinSeq <= s.mMaxSeq
  BY DEF SubInv, SubCore, Ring
<1>1. /\ w[0] = PeekStart(from)
      /\ \A k \in 1..most : w[k] = PeekStep(s, w[k - 1], s.mMinSeq + k - 1, lo, hi)
  BY PeekWalkIs
<1> HIDE DEF w
<1>2. 0 \in T
  <2>1. <<>> \in Seq(BOOLEAN) /\ Len(<<>>) = 0
    OBVIOUS
  <2>2. w[0].received = <<>> /\ w[0].time = from /\ w[0].stop = FALSE
        /\ w[0] = [received |-> w[0].received, deltas |-> w[0].deltas, time |-> w[0].time,
                   stop |-> w[0].stop]
    BY <1>1 DEF PeekStart
  <2>3. RunInv(w[0], s, 0, time)
    BY <1>0, <2>1, <2>2 DEF RunInv
  <2>4. Unstopped(w[0], s, 0)
    BY <1>0, <2>1, <2>2 DEF Unstopped
  <2> QED BY <2>3, <2>4
<1>3. ASSUME NEW k \in Nat, k \in T PROVE k + 1 \in T
  <2> SUFFICES ASSUME k + 1 <= most
               PROVE  /\ RunInv(w[k + 1], s, k + 1, time)
                      /\ Wide(lo, hi) => Unstopped(w[k + 1], s, k + 1)
    OBVIOUS
  <2>1. RunInv(w[k], s, k, time) /\ (Wide(lo, hi) => Unstopped(w[k], s, k))
    <3>1. k <= most
      OBVIOUS
    <3> QED BY <1>3, <3>1, Zenon
  <2>2. k + 1 \in 1..most /\ (k + 1) - 1 = k /\ s.mMinSeq + (k + 1) - 1 = s.mMinSeq + k
    BY <1>0
  <2>3. w[k + 1] = PeekStep(s, w[k], s.mMinSeq + k, lo, hi)
    BY <1>1, <2>2
  <2> QED BY <2>1, <2>3, PeekStepOK
<1>4. Nat \subseteq T
  <2> HIDE DEF T
  <2> QED BY <1>2, <1>3, NatSetInduction
<1>5. RunInv(w[most], s, most, time) /\ (Wide(lo, hi) => Unstopped(w[most], s, most))
  <2>1. most <= most /\ most \in T
    BY <1>4
  <2> QED BY <2>1, Zenon
<1> QED BY <1>5 DEF PeekRun, w

\* What peekNotReceivedRun chooses exists: the run ends at a packet that was received or
\* with the history.
LEMMA NotReceivedRun ==
    ASSUME NEW s, NEW time \in Int, SubInv(s, time), s.mMinSeq < s.mMaxSeq,
           PacketAt(s, s.mMinSeq).time = 0
    PROVE  peekNotReceivedRun(s) \in 1 .. s.mMaxSeq - s.mMinSeq
<1> DEFINE min == s.mMinSeq
           max == s.mMaxSeq
           Got(q) == PacketAt(s, q).time # 0
           S == {n \in 1 .. max - min : min + n = max \/ Got(min + n)}
           m == Min(S)
<1>1. min \in Int /\ max \in Int /\ max - min \in 1 .. max - min
  BY DEF SubInv, SubCore, Ring
<1>2. max - min \in S /\ S \in SUBSET Nat
  <2> HIDE DEF Got
  <2> QED BY <1>1
<1>3. m \in S /\ \A y \in S : m <= y
  <2> HIDE DEF S
  <2> QED BY <1>2, MinOfNats
<1> HIDE DEF m
<1>4. ASSUME NEW q \in min .. min + m - 1 PROVE ~Got(q)
  <2>1. m \in 1 .. max - min
    BY <1>3
  <2>2. CASE q = min
    BY <2>2
  <2>3. CASE q # min
    <3> HIDE DEF Got, min, max
    <3>1. q - min \in 1 .. max - min /\ q - min < m /\ q - min \in Int /\ min + (q - min) = q
      BY <1>1, <2>1, <2>3
    <3>2. q - min \notin S
      BY <1>1, <1>3, <2>1, <3>1
    <3> QED BY <3>1, <3>2
  <2> QED BY <2>2, <2>3
<1>5. m \in 1 .. max - min /\ (min + m = max \/ Got(min + m))
  BY <1>3
<1>6. \E n \in 1 .. max - min :
         /\ \A q \in min .. min + n - 1 : PacketAt(s, q).time = 0
         /\ min + n = max \/ PacketAt(s, min + n).time # 0
  BY <1>4, <1>5
<1> QED BY <1>6 DEF peekNotReceivedRun

\* The reference time is less than a unit before the packet.
LEMMA ReferenceTime ==
    ASSUME NEW t \in Int, NEW r \in Nat, r > 0
    PROVE  (t \div r) * r \in Int /\ t - r <= (t \div r) * r /\ (t \div r) * r <= t
<1>1. t = (t \div r) * r + (t % r) /\ t \div r \in Int /\ t % r \in 0 .. (r - 1)
  OBVIOUS
<1> DEFINE x == (t \div r) * r
<1>2. x \in Int /\ t = x + (t % r)
  BY <1>1
<1> HIDE DEF x
<1>3. t - r <= x /\ x <= t
  BY <1>1, <1>2
<1> QED BY <1>2, <1>3 DEF x

\* The state of the loop: the history that is left, and the time the next delta is
\* relative to.
GenInv(acc, time) ==
    /\ acc = [sub |-> acc.sub, b |-> acc.b, time |-> acc.time, out |-> acc.out]
    /\ SubInv(acc.sub, time)
    /\ acc.time = 0 \/ acc.time \in Since(acc.sub) .. time

\* The history has lost n packets at its beginning.
Shrunk(s, t, n) ==
    /\ s.mMaxSeq = t.mMaxSeq /\ s.lastGenerated = t.lastGenerated
    /\ s.mMinSeq = t.mMinSeq + n

\* A step that takes n packets out, and perhaps flushes.
LEMMA TakeOK ==
    ASSUME NEW acc, NEW time \in Int, NEW next, NEW n \in Nat, GenInv(acc, time),
           n <= acc.sub.mMaxSeq - acc.sub.mMinSeq,
           next = [sub |-> next.sub, b |-> next.b, time |-> next.time, out |-> next.out],
           next.sub = advance(acc.sub, n),
           next.time = 0 \/ next.time \in Since(acc.sub) .. time
    PROVE  /\ GenInv(next, time) /\ Shrunk(next.sub, acc.sub, n)
           /\ GenInv(Flush(next), time) /\ Shrunk(Flush(next).sub, acc.sub, n)
<1> DEFINE f == Flush(next)
           s == acc.sub
           a == advance(s, n)
<1>1. SubInv(s, time)
  BY DEF GenInv
<1>2. /\ SubInv(a, time) /\ SameSub(a, s)
      /\ a.mMinSeq = s.mMinSeq + n /\ a.mMaxSeq = s.mMaxSeq
  <2> HIDE DEF s
  <2>1. n <= s.mMaxSeq - s.mMinSeq
    BY DEF s
  <2> QED BY <1>1, <2>1, AdvanceOK
<1>3. next.sub = a
  OBVIOUS
<1> HIDE DEF a
<1>4. Since(next.sub) = Since(s)
  BY <1>2, <1>3 DEF Since, SameSub
<1>5. GenInv(next, time) /\ Shrunk(next.sub, s, n)
  BY <1>2, <1>3, <1>4 DEF GenInv, Shrunk, SameSub
<1>6. f.sub = next.sub /\ f.time = 0
      /\ f = [sub |-> f.sub, b |-> f.b, time |-> f.time, out |-> f.out]
  <2> DEFINE out == Append(next.out, Generate(next.b))
  <2>1. f = [next EXCEPT !.out = out, !.b = NewBuilder, !.time = 0]
    BY DEF Flush
  <2> HIDE DEF f, out
  <2> QED BY <2>1
<1> HIDE DEF f
<1>7. GenInv(f, time) /\ Shrunk(f.sub, s, n)
  BY <1>5, <1>6 DEF GenInv, Shrunk
<1> QED BY <1>5, <1>7 DEF f

\* One turn of the loop: while there are packets some of them leave, and the case in
\* which the loop would turn for ever does not arise.
LEMMA GenerateStepOK ==
    ASSUME NEW acc, NEW time \in Int, GenInv(acc, time),
           time - acc.sub.lastGenerated <= GenerateInterval
    PROVE  /\ GenInv(GenerateStep(acc), time)
           /\ \E n \in Nat : /\ Shrunk(GenerateStep(acc).sub, acc.sub, n)
                             /\ n = 0 => acc.sub.mMinSeq = acc.sub.mMaxSeq
<1> DEFINE s == acc.sub
           head == PacketAt(s, s.mMinSeq)
           n == peekNotReceivedRun(s)
           ref == (head.time \div RefUnit) * RefUnit
           from == IF acc.time = 0 THEN ref ELSE acc.time
           a == [acc EXCEPT !.time = from, !.b.ref = IF acc.time = 0 THEN from ELSE @]
           small == peekSmallDeltaRun(s, from)
           large == peekLargeDeltaRun(s, from)
           Enough(run, most) == Len(run.received) = most
                                  \/ s.mMinSeq + Len(run.received) = s.mMaxSeq
           next == IF head.time = 0
                   THEN [acc EXCEPT !.b = addNotReceivedRun(@, s.mMinSeq, n),
                                    !.sub = advance(@, n)]
                   ELSE IF Enough(small, SmallRun)
                   THEN TakeRun(a, small, addSmallDeltaRun(a.b, s.mMinSeq, small))
                   ELSE IF Enough(large, LargeRun)
                   THEN TakeRun(a, large, addLargeDeltaRun(a.b, s.mMinSeq, large))
                   ELSE IF ~BuilderEmpty(a.b) THEN Flush(a)
                   ELSE [a EXCEPT !.sub.hung = TRUE]
           r == GenerateStep(acc)
<1>0. /\ RefUnit \in Nat /\ RefUnit > 0 /\ GenerateInterval \in Nat
      /\ SmallRun \in Nat /\ SmallRun > 0 /\ LargeRun \in Nat /\ LargeRun > 0
      /\ LargeMax \in Nat /\ Quantum \in Nat /\ RefUnit + GenerateInterval <= LargeMax
  BY TwccAssumption
<1>1. /\ SubInv(s, time) /\ s.hung = FALSE /\ s.lastGenerated \in Int /\ s.lastGenerated <= time
      /\ s.mMinSeq \in Int /\ s.mMaxSeq \in Int /\ s.mMinSeq <= s.mMaxSeq
      /\ Timely(s.list, s.lastGenerated, time)
  BY DEF GenInv, SubInv, SubCore, Ring
<1>2. r = IF s.hung \/ s.mMinSeq >= s.mMaxSeq THEN acc
          ELSE IF BuilderSize(next.b) >= MaxFeedbackSize THEN Flush(next) ELSE next
  BY DEF GenerateStep
<1>3. CASE s.mMinSeq >= s.mMaxSeq
  <2>1. r = acc
    BY <1>2, <1>3
  <2>2. s.mMinSeq = s.mMaxSeq
    BY <1>1, <1>3
  <2>3. Shrunk(s, s, 0)
    BY <1>1 DEF Shrunk
  <2> QED BY <2>1, <2>2, <2>3
<1>4. CASE s.mMinSeq < s.mMaxSeq
  <2>1. r = Flush(next) \/ r = next
    <3> HIDE DEF next
    <3> QED BY <1>1, <1>2, <1>4
  <2>2. \E k \in Nat :
          /\ k > 0 /\ k <= s.mMaxSeq - s.mMinSeq
          /\ next = [sub |-> next.sub, b |-> next.b, time |-> next.time, out |-> next.out]
          /\ next.sub = advance(s, k)
          /\ next.time = 0 \/ next.time \in Since(s) .. time
    <3>1. CASE head.time = 0
      <4>1. n \in 1 .. s.mMaxSeq - s.mMinSeq
        <5> HIDE DEF s
        <5> QED BY <1>1, <1>4, <3>1, NotReceivedRun
      <4> DEFINE b == addNotReceivedRun(acc.b, s.mMinSeq, n)
                 t == advance(s, n)
      <4>2. next = [acc EXCEPT !.b = b, !.sub = t]
        BY <3>1
      <4> HIDE DEF next, b, t, n
      <4>3. next.sub = t /\ next.time = acc.time
            /\ next = [sub |-> next.sub, b |-> next.b, time |-> next.time, out |-> next.out]
        BY <4>2 DEF GenInv
      <4>4. acc.time = 0 \/ acc.time \in Since(s) .. time
        BY DEF GenInv
      <4> QED BY <1>1, <4>1, <4>3, <4>4 DEF t
    <3>2. CASE head.time # 0
      <4>1. head.time \in Int /\ s.lastGenerated <= head.time /\ head.time <= time
        <5> DEFINE i == SlotOf(s.mMinSeq)
        <5>1. i \in Slots /\ head = s.list[i]
          BY <1>1, SlotFacts DEF PacketAt
        <5> HIDE DEF i, head
        <5>2. s.list[i].time = 0 \/ s.list[i].time \in s.lastGenerated .. time
          BY <1>1, <5>1 DEF Timely
        <5>3. head.time # 0
          BY <3>2
        <5>4. head.time \in s.lastGenerated .. time
          BY <5>1, <5>2, <5>3
        <5> DEFINE u == head.time
                   g == s.lastGenerated
        <5>5. u \in g .. time /\ g \in Int
          BY <1>1, <5>4
        <5> HIDE DEF u, g
        <5>6. u \in Int /\ g <= u /\ u <= time
          BY <5>5
        <5> QED BY <5>6 DEF u, g
      <4>2. from \in Int /\ from \in Since(s) .. time
        <5>1. ref \in Int /\ head.time - RefUnit <= ref /\ ref <= head.time
          <6> HIDE DEF head
          <6> QED BY <1>0, <4>1, ReferenceTime
        <5>2. ref \in Since(s) .. time
          <6> HIDE DEF ref, head
          <6> QED BY <1>0, <1>1, <4>1, <5>1 DEF Since
        <5>3. Since(s) \in Int
          <6> HIDE DEF s, ref, head
          <6> QED BY <1>0, <1>1 DEF Since
        <5>4. acc.time = 0 \/ acc.time \in Since(s) .. time
          BY DEF GenInv
        <5> HIDE DEF ref
        <5> QED BY <5>2, <5>3, <5>4
      <4> HIDE DEF from, head
      <4>3. RunInv(small, s, SmallRun, time)
        <5> HIDE DEF s
        <5>1. time - s.lastGenerated <= GenerateInterval
          BY DEF s
        <5> QED BY <1>0, <1>1, <4>2, <5>1, PeekOK DEF peekSmallDeltaRun
      <4>4. RunInv(large, s, LargeRun, time) /\ Unstopped(large, s, LargeRun)
        <5> HIDE DEF s
        <5>1. time - s.lastGenerated <= GenerateInterval
          BY DEF s
        <5> DEFINE lo == -LargeMax - Quantum
        <5>2. Wide(lo, LargeMax)
          BY <1>0 DEF Wide
        <5> HIDE DEF lo
        <5>3. RunInv(PeekRun(s, from, LargeRun, lo, LargeMax), s, LargeRun, time)
              /\ Unstopped(PeekRun(s, from, LargeRun, lo, LargeMax), s, LargeRun)
          BY <1>0, <1>1, <4>2, <5>1, <5>2, PeekOK
        <5> QED BY <5>3 DEF peekLargeDeltaRun, lo
      <4>5. Enough(large, LargeRun)
        BY <1>0, <1>1, <4>4 DEF Unstopped
      <4> DEFINE c == [acc.b EXCEPT !.ref = IF acc.time = 0 THEN from ELSE @]
      <4>6. a = [sub |-> s, b |-> c, time |-> from, out |-> acc.out]
        <5>1. a = [acc EXCEPT !.time = from, !.b = c]
          BY Zenon
        <5> HIDE DEF a, c
        <5> QED BY <5>1 DEF GenInv
      <4> HIDE DEF c, a
      <4>7. ASSUME NEW run, NEW most \in Nat, NEW b, most > 0, RunInv(run, s, most, time),
                   Enough(run, most), next = TakeRun(a, run, b)
            PROVE  \E k \in Nat :
                      /\ k > 0 /\ k <= s.mMaxSeq - s.mMinSeq
                      /\ next = [sub |-> next.sub, b |-> next.b, time |-> next.time,
                                 out |-> next.out]
                      /\ next.sub = advance(s, k)
                      /\ next.time = 0 \/ next.time \in Since(s) .. time
        <5> DEFINE k == Len(run.received)
                   t == advance(s, k)
        <5>1. k \in Nat /\ s.mMinSeq + k <= s.mMaxSeq /\ run.time \in Since(s) .. time
          BY <4>7 DEF RunInv
        <5>2. k > 0 /\ k <= s.mMaxSeq - s.mMinSeq
          <6>1. k = most \/ s.mMinSeq + k = s.mMaxSeq
            BY <4>7
          <6> HIDE DEF k
          <6> QED BY <1>1, <1>4, <4>7, <5>1, <6>1
        <5>3. next = [a EXCEPT !.b = b, !.sub = t, !.time = run.time]
          <6>1. a.sub = s
            BY <4>6
          <6> HIDE DEF next
          <6> QED BY <4>7, <6>1 DEF TakeRun
        <5> HIDE DEF t, k, next
        <5>4. next.sub = t /\ next.time = run.time
              /\ next = [sub |-> next.sub, b |-> next.b, time |-> next.time, out |-> next.out]
          BY <4>6, <5>3
        <5> QED BY <5>1, <5>2, <5>4 DEF t
      <4>8. CASE Enough(small, SmallRun)
        <5> DEFINE b == addSmallDeltaRun(a.b, s.mMinSeq, small)
        <5>1. next = TakeRun(a, small, b)
          BY <3>2, <4>8
        <5> HIDE DEF next, small, b
        <5> QED BY <1>0, <4>3, <4>7, <4>8, <5>1
      <4>9. CASE ~Enough(small, SmallRun)
        <5> DEFINE b == addLargeDeltaRun(a.b, s.mMinSeq, large)
        <5>1. next = TakeRun(a, large, b)
          BY <3>2, <4>5, <4>9
        <5> HIDE DEF next, small, large, b
        <5> QED BY <1>0, <4>4, <4>5, <4>7, <5>1
      <4> QED BY <4>8, <4>9
    <3> QED BY <3>1, <3>2
  <2>3. PICK k \in Nat :
          /\ k > 0 /\ k <= s.mMaxSeq - s.mMinSeq
          /\ next = [sub |-> next.sub, b |-> next.b, time |-> next.time, out |-> next.out]
          /\ next.sub = advance(s, k)
          /\ next.time = 0 \/ next.time \in Since(s) .. time
    BY <2>2
  <2> HIDE DEF next, r
  <2>4. /\ GenInv(next, time) /\ Shrunk(next.sub, s, k)
        /\ GenInv(Flush(next), time) /\ Shrunk(Flush(next).sub, s, k)
    BY <2>3, TakeOK
  <2>5. GenInv(r, time) /\ Shrunk(r.sub, s, k) /\ k # 0
    BY <2>1, <2>3, <2>4
  <2> QED BY <2>5 DEF r
<1> QED BY <1>1, <1>3, <1>4

GenerateStart(s) == [sub |-> s, b |-> NewBuilder, time |-> 0, out |-> <<>>]

\* The turns of the loop.
LEMMA GenerateWalkIs ==
    ASSUME NEW s, MaxTurns(s) \in Nat
    PROVE  /\ GenerateWalk(s)[0] = GenerateStart(s)
           /\ \A i \in 1..(MaxTurns(s)) :
                 GenerateWalk(s)[i] = GenerateStep(GenerateWalk(s)[i - 1])
<1> DEFINE len == MaxTurns(s)
           base == GenerateStart(s)
           Turn(g, i) == IF i = 0 THEN base ELSE GenerateStep(g[i - 1])
           Eq(g, n) == g = [i \in 0..n |-> Turn(g, i)]
           T == {n \in Nat : \E g : Eq(g, n)}
<1>1. 0 \in T
  <2>1. Eq([i \in 0..0 |-> base], 0)
    OBVIOUS
  <2> QED BY <2>1
<1>2. ASSUME NEW n \in Nat, n \in T PROVE n + 1 \in T
  <2>1. PICK g : Eq(g, n)
    BY <1>2
  <2> DEFINE h == [i \in 0..(n + 1) |->
                     IF i = n + 1 THEN GenerateStep(g[n]) ELSE g[i]]
  <2>2. ASSUME NEW i \in 0..(n + 1) PROVE h[i] = Turn(h, i)
    <3>1. CASE i = n + 1
      <4>1. h[n + 1] = GenerateStep(g[n]) /\ h[n] = g[n] /\ (n + 1) - 1 = n /\ n + 1 # 0
        OBVIOUS
      <4> HIDE DEF h
      <4> QED BY <3>1, <4>1
    <3>2. CASE i # n + 1
      <4>1. i \in 0..n /\ h[i] = g[i] /\ (i # 0 => h[i - 1] = g[i - 1])
        BY <3>2
      <4>2. g[i] = Turn(g, i)
        BY <2>1, <4>1
      <4> HIDE DEF h
      <4> QED BY <4>1, <4>2
    <3> QED BY <3>1, <3>2
  <2>3. h = [i \in 0..(n + 1) |-> h[i]]
    OBVIOUS
  <2> HIDE DEF h
  <2>4. Eq(h, n + 1)
    BY <2>2, <2>3, Zenon
  <2> QED BY <2>4
<1>3. Nat \subseteq T
  <2> HIDE DEF T
  <2> QED BY <1>1, <1>2, NatSetInduction
<1>4. len \in Nat /\ \E g : Eq(g, len)
  <2>1. len \in Nat
    OBVIOUS
  <2> HIDE DEF len
  <2> QED BY <1>3, <2>1
<1> DEFINE w == GenerateWalk(s)
<1>5. w = CHOOSE g : Eq(g, len)
  BY DEF GenerateWalk, GenerateStart
<1>6. Eq(w, len)
  BY <1>4, <1>5, Zenon
<1> HIDE DEF w, base, len
<1>7. \A i \in 0..len : w[i] = Turn(w, i)
  BY <1>6
<1>8. 0 \in 0..len /\ \A i \in 1..len : i \in 0..len /\ i # 0
  BY <1>4
<1> QED BY <1>7, <1>8 DEF w, base, len

\* A report takes every packet out of the history.
LEMMA FeedbackOK ==
    ASSUME NEW s, NEW time \in Int, SubInv(s, time), time - s.lastGenerated <= GenerateInterval
    PROVE  LET r == GenerateFeedback(s, time).sub
           IN  SubInv(r, time) /\ r.lastGenerated = time
<1> DEFINE min == s.mMinSeq
           max == s.mMaxSeq
           n == MaxTurns(s)
           w == GenerateWalk(s)
           Left(k) == w[k].sub.mMinSeq = max \/ w[k].sub.mMinSeq >= min + k
           P(k) == /\ GenInv(w[k], time) /\ Left(k)
                   /\ w[k].sub.mMaxSeq = max /\ w[k].sub.lastGenerated = s.lastGenerated
           T == {k \in Nat : k <= n => P(k)}
<1>0. min \in Int /\ max \in Int /\ min <= max
  BY DEF SubInv, SubCore, Ring
<1>1. n \in Nat /\ min + n > max
  BY <1>0 DEF MaxTurns
<1>2. w[0] = GenerateStart(s) /\ \A k \in 1..n : w[k] = GenerateStep(w[k - 1])
  BY <1>1, GenerateWalkIs
<1> HIDE DEF w, n
<1>3. 0 \in T
  <2>1. w[0].sub = s /\ w[0].time = 0
        /\ w[0] = [sub |-> w[0].sub, b |-> w[0].b, time |-> w[0].time, out |-> w[0].out]
    BY <1>2 DEF GenerateStart
  <2>2. GenInv(w[0], time)
    BY <2>1 DEF GenInv
  <2> QED BY <1>0, <2>1, <2>2
<1>4. ASSUME NEW k \in Nat, k \in T PROVE k + 1 \in T
  <2> SUFFICES ASSUME k + 1 <= n PROVE P(k + 1)
    OBVIOUS
  <2>1. P(k)
    <3>1. k <= n
      BY <1>1
    <3> HIDE DEF P
    <3> QED BY <1>4, <3>1
  <2>2. k + 1 \in 1..n /\ (k + 1) - 1 = k
    BY <1>1
  <2>3. w[k + 1] = GenerateStep(w[k])
    BY <1>2, <2>2
  <2> DEFINE u == w[k]
             v == w[k + 1]
  <2>4. GenInv(u, time) /\ time - u.sub.lastGenerated <= GenerateInterval
    BY <2>1
  <2> HIDE DEF u, v
  <2>5. v = GenerateStep(u)
    BY <2>3 DEF u, v
  <2>6. PICK m \in Nat : Shrunk(v.sub, u.sub, m) /\ (m = 0 => u.sub.mMinSeq = u.sub.mMaxSeq)
    BY <2>4, <2>5, GenerateStepOK
  <2>7. GenInv(v, time)
    BY <2>4, <2>5, GenerateStepOK
  <2>8. /\ v.sub.mMaxSeq = max /\ v.sub.lastGenerated = s.lastGenerated
        /\ v.sub.mMinSeq = u.sub.mMinSeq + m
    BY <2>1, <2>6 DEF Shrunk, u
  <2>9. /\ u.sub.mMinSeq \in Int /\ v.sub.mMinSeq \in Int /\ v.sub.mMinSeq <= max
        /\ u.sub.mMaxSeq = max /\ (u.sub.mMinSeq = max \/ u.sub.mMinSeq >= min + k)
    <3>1. u.sub.mMinSeq \in Int
      BY <2>4 DEF GenInv, SubInv, SubCore, Ring
    <3>2. v.sub.mMinSeq \in Int /\ v.sub.mMinSeq <= v.sub.mMaxSeq
      BY <2>7 DEF GenInv, SubInv, SubCore, Ring
    <3> QED BY <2>1, <2>8, <3>1, <3>2 DEF u
  <2>10. v.sub.mMinSeq = max \/ v.sub.mMinSeq >= min + (k + 1)
    BY <1>0, <2>6, <2>8, <2>9
  <2> QED BY <2>7, <2>8, <2>10 DEF v
<1>5. P(n)
  <2>1. Nat \subseteq T
    <3> HIDE DEF T
    <3> QED BY <1>3, <1>4, NatSetInduction
  <2>2. n \in T /\ n <= n
    BY <1>1, <2>1
  <2> HIDE DEF P
  <2> QED BY <2>2
<1> DEFINE d == w[n].sub
           r == [d EXCEPT !.lastGenerated = time]
<1>6. SubInv(d, time) /\ d.mMinSeq = d.mMaxSeq /\ SubShape(d)
  <2>1. SubInv(d, time) /\ d.mMaxSeq = max /\ (d.mMinSeq = max \/ d.mMinSeq >= min + n)
    BY <1>5 DEF GenInv
  <2>2. d.mMinSeq \in Int /\ d.mMinSeq <= d.mMaxSeq /\ SubShape(d)
    BY <2>1 DEF SubInv, SubCore, Ring
  <2> HIDE DEF d
  <2> QED BY <1>0, <1>1, <2>1, <2>2
<1>7. GenerateFeedback(s, time).sub = r
  BY DEF GenerateFeedback, w, n
<1> HIDE DEF d
<1>8. \A i \in Slots : d.list[i] = NoPacket
  BY <1>6, RingEmpty DEF SubInv, SubCore
<1>9. SubShape(r) /\ r.list = d.list /\ r.mMinSeq = d.mMinSeq /\ r.mMaxSeq = d.mMaxSeq
      /\ r.ext = d.ext /\ r.lastGenerated = time /\ r.started = d.started
      /\ r.aborted = d.aborted /\ r.hung = d.hung
  BY <1>6 DEF SubShape
<1> HIDE DEF r
<1>10. Timely(r.list, time, time)
  BY <1>8, <1>9 DEF Timely, NoPacket
<1>11. SubInv(r, time)
  BY <1>6, <1>9, <1>10 DEF SubInv, SubCore
<1> QED BY <1>7, <1>9, <1>11

-----------------------------------------------------------------------------
\* The inductive invariant: the history is in order, no packet of it is older than the
\* last report, and that one is at most GenerateInterval old.
HistoryInv ==
    /\ now \in Int
    /\ source.next \in Int
    /\ \A m \in net : m.seq \in Int
    /\ SubInv(sub, now)
    /\ now - sub.lastGenerated <= GenerateInterval

\* A history that has just been made is empty.
LEMMA HistoryInvInit == Init => HistoryInv
<1> SUFFICES ASSUME Init PROVE HistoryInv
  OBVIOUS
<1>0. MaxPacketCount \in Nat /\ MaxPacketCount > 0 /\ GenerateInterval \in Nat
      /\ GenerateInterval > 0
  BY TwccAssumption
<1> DEFINE list == [i \in 0 .. MaxPacketCount - 1 |-> NoPacket]
<1>1. NoPacket \in Packet /\ NoPacket.time = 0
  BY DEF NoPacket, Packet
<1>2. list \in [Slots -> Packet] /\ \A i \in Slots : list[i] = NoPacket
  BY <1>1 DEF Slots
<1>3. now = 1 /\ source.next \in Int /\ net = {}
  BY DEF Init, NewSource
<1>4. sub.list = list /\ sub.mMinSeq = 0 /\ sub.mMaxSeq = 0 /\ sub.ext = NewExtendedValue
      /\ sub.lastGenerated = 0 /\ sub.aborted = FALSE /\ sub.hung = FALSE /\ SubShape(sub)
  <2> HIDE DEF list
  <2> QED BY DEF Init, NewSubscribeHistory, SubShape, list
<1> HIDE DEF list
<1>5. Ring(list, 0, 0)
  BY <1>0, <1>2 DEF Ring
<1>6. NewExtendedValue \in [base : Int, at : Int, last : Int]
  BY DEF NewExtendedValue
<1>7. Timely(list, 0, 1)
  BY <1>1, <1>2 DEF Timely
<1>8. SubInv(sub, now)
  BY <1>3, <1>4, <1>5, <1>6, <1>7 DEF SubInv, SubCore
<1> QED BY <1>0, <1>3, <1>4, <1>8 DEF HistoryInv

\* Time goes on.
LEMMA LaterOK ==
    ASSUME NEW s, NEW time \in Int, SubInv(s, time)
    PROVE  SubInv(s, time + 1)
<1>1. SubCore(s, s.mMinSeq, time) /\ s.lastGenerated \in Int
  BY DEF SubInv, SubCore
<1>2. Timely(s.list, s.lastGenerated, time + 1)
  <2> SUFFICES ASSUME NEW i \in Slots
               PROVE  s.list[i].time = 0 \/ s.list[i].time \in s.lastGenerated .. time + 1
    BY DEF Timely
  <2>1. s.list[i].time = 0 \/ s.list[i].time \in s.lastGenerated .. time
    BY <1>1 DEF SubCore, Timely
  <2> DEFINE t == s.list[i].time
             g == s.lastGenerated
  <2>2. g \in Int /\ (t = 0 \/ t \in g .. time)
    BY <1>1, <2>1
  <2> HIDE DEF t, g
  <2>3. t = 0 \/ t \in g .. time + 1
    BY <2>2
  <2> QED BY <2>3 DEF t, g
<1>3. s.lastGenerated <= time + 1
  BY <1>1 DEF SubCore
<1> QED BY <1>1, <1>2, <1>3 DEF SubInv, SubCore

\* Every step keeps the invariant.
LEMMA HistoryInvNext == HistoryInv /\ [Next]_vars => HistoryInv'
<1> SUFFICES ASSUME HistoryInv, [Next]_vars PROVE HistoryInv'
  OBVIOUS
<1> USE DEF HistoryInv
<1>0. SeqRange \in Nat /\ SeqRange > 0
  BY TwccAssumption
<1>1. CASE onPeerConnected \/ onStartProbing \/ onEndProbing
  <2>1. UNCHANGED <<now, net, sub>>
    BY <1>1 DEF onPeerConnected, onStartProbing, onEndProbing
  <2>2. source'.next = source.next \/ source'.next \in Int
    <3>1. CASE onPeerConnected
      BY <3>1 DEF onPeerConnected
    <3>2. CASE onStartProbing
      BY <3>2 DEF onStartProbing
    <3>3. CASE onEndProbing
      BY <3>3 DEF onEndProbing
    <3> QED BY <1>1, <3>1, <3>2, <3>3
  <2> QED BY <2>1, <2>2
<1>2. CASE SendPacket
  <2>1. UNCHANGED <<now, sub>>
    BY <1>2 DEF SendPacket
  <2>2. source'.next \in Int
    BY <1>0, <1>2 DEF SendPacket
  <2>3. \A m \in net' : m.seq \in Int
    BY <1>2 DEF SendPacket
  <2> QED BY <2>1, <2>2, <2>3
<1>3. CASE RunResponder
  <2>1. sub' = GenerateFeedback(sub, now).sub /\ UNCHANGED <<now, net, source>>
    BY <1>3 DEF RunResponder
  <2>2. SubInv(sub', now) /\ sub'.lastGenerated = now
    BY <2>1, FeedbackOK
  <2>3. GenerateInterval \in Nat
    BY TwccAssumption
  <2> QED BY <2>1, <2>2, <2>3
<1>4. CASE \E i \in DOMAIN reports : onReceivedRtcpPacket(i)
  <2>1. UNCHANGED <<now, net, sub>>
    BY <1>4 DEF onReceivedRtcpPacket
  <2>2. source'.next = source.next \/ source'.next \in Int
    BY <1>4 DEF onReceivedRtcpPacket, StopProbing
  <2> QED BY <2>1, <2>2
<1>5. CASE Tick
  <2>1. now' = now + 1 /\ UNCHANGED <<net, sub, source>> /\ ~isTimeToGenerate(sub, now)
    BY <1>5 DEF Tick
  <2>2. SubInv(sub, now + 1)
    BY LaterOK
  <2>3. sub.lastGenerated \in Int /\ GenerateInterval \in Nat
    BY TwccAssumption DEF SubInv, SubCore
  <2>4. (now + 1) - sub.lastGenerated <= GenerateInterval
    BY <2>1, <2>3 DEF isTimeToGenerate
  <2> QED BY <2>1, <2>2, <2>4
<1>6. ASSUME NEW p \in Packets, ResendPacket(p) PROVE HistoryInv'
  <2>1. UNCHANGED <<now, sub, source>>
    BY <1>6 DEF ResendPacket
  <2>2. p % SeqRange \in Int
    BY <1>0 DEF Packets
  <2>3. \A m \in net' : m.seq \in Int
    BY <1>6, <2>2 DEF ResendPacket
  <2> QED BY <2>1, <2>3
<1>7. ASSUME NEW m \in net, LosePacket(m) \/ DelayPacket(m) PROVE HistoryInv'
  <2>1. UNCHANGED <<now, sub, source>>
    BY <1>7 DEF LosePacket, DelayPacket
  <2>2. \A q \in net' : q \in net \/ q = [m EXCEPT !.at = now + Delay, !.delayed = TRUE]
    BY <1>7 DEF LosePacket, DelayPacket
  <2>3. [m EXCEPT !.at = now + Delay, !.delayed = TRUE].seq = m.seq
    OBVIOUS
  <2>4. \A q \in net' : q.seq \in Int
    BY <2>2, <2>3
  <2> QED BY <2>1, <2>4
<1>8. ASSUME NEW m \in net, onMediaPacket(m) PROVE HistoryInv'
  <2>1. sub' = saveIncomingPacket(sub, m.seq, now) /\ net' = net \ {m} /\ UNCHANGED <<now, source>>
    BY <1>8 DEF onMediaPacket
  <2>2. SubInv(sub', now) /\ sub'.lastGenerated = sub.lastGenerated
    BY <2>1, SaveOK
  <2> QED BY <2>1, <2>2
<1>9. CASE (\E i \in DOMAIN reports : LoseReport(i) \/ DelayReport(i)) \/ UNCHANGED vars
  BY <1>9 DEF LoseReport, DelayReport, vars
<1> QED
  BY <1>1, <1>2, <1>3, <1>4, <1>5, <1>6, <1>7, <1>8, <1>9 DEF Next

\* The ring of SubscribePacketHistory holds exactly the packets of mMinSeq .. mMaxSeq - 1,
\* each in its slot, none of its assertions fails and the loop of generate always ends,
\* whatever packets arrive late, twice or not at all and however their numbers jump.
THEOREM HistoryExact == Spec => []RingExact
<1>1. HistoryInv => RingExact
  <2> SUFFICES ASSUME HistoryInv PROVE RingExact
    OBVIOUS
  <2>1. ~sub.aborted /\ ~sub.hung /\ Ring(sub.list, sub.mMinSeq, sub.mMaxSeq)
    BY DEF HistoryInv, SubInv, SubCore
  <2> QED BY <2>1 DEF RingExact, Ring, PacketAt
<1> QED BY HistoryInvInit, HistoryInvNext, <1>1, PTL DEF Spec
=============================================================================
