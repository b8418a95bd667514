---------------------------- MODULE TwccSubscribe ----------------------------
(***************************************************************************)
(* The receiver's half of transport wide congestion control:               *)
(* SubscribePacketHistory and its Builder, src/src/twcc_subscribe.cpp.     *)
(*                                                                         *)
(* sub is the history: when each packet arrived, in a ring of              *)
(* MaxPacketCount slots that holds mMinSeq .. mMaxSeq - 1 (extended        *)
(* sequence numbers); time 0 is "not received".  An assertion that fails   *)
(* ends the process: sub.aborted; a loop that makes no progress: sub.hung. *)
(***************************************************************************)
EXTENDS ExtendedValue, Sequences, SequencesExt

CONSTANTS
    SeqRange,          \* number of sequence numbers, 2^16
    MaxPacketCount,    \* kMaxPacketCount, 2048
    ResetDelay,        \* kNoPacketsResetDelayMicros, 2 s
    GenerateInterval,  \* kGenerateIntervalMicros, 100 ms
    Quantum,           \* the unit of a delta, 250 us
    RefUnit,           \* kReferenceTimeUnits, 64 ms
    RefCount,          \* number of reference times, 2^24
    SmallMax,          \* kMaxSmallDeltaMicros, 255 quanta
    LargeMax,          \* kMaxLargeDeltaMicros, 32767 quanta
    SmallRun,          \* packets in a chunk of small deltas, 14
    LargeRun,          \* packets in a chunk of large deltas, 7
    MaxFeedbackSize    \* kMaxPacketSize, 1000 bytes

ASSUME TwccAssumption ==
    /\ MaxPacketCount \in Nat \ {0} /\ \E k \in 0 .. 16 : MaxPacketCount = 2 ^ k
    /\ SeqRange \in Nat \ {0} /\ SeqRange % MaxPacketCount = 0
    /\ Quantum \in Nat \ {0} /\ RefUnit \in Nat /\ SmallMax \in Nat /\ LargeMax \in Nat
    /\ RefUnit > SmallMax /\ LargeMax > SmallMax /\ RefCount \in Nat \ {0}
    /\ GenerateInterval \in Nat \ {0} /\ RefUnit + GenerateInterval <= LargeMax
    /\ SmallRun \in Nat \ {0} /\ LargeRun \in Nat \ {0}

NoPacket == [seq |-> -1, time |-> 0]
NewSubscribeHistory ==
    [started |-> FALSE, list |-> [i \in 0 .. MaxPacketCount - 1 |-> NoPacket],
     mMinSeq |-> 0, mMaxSeq |-> 0, ext |-> NewExtendedValue,
     lastPacket |-> 0, lastGenerated |-> 0, aborted |-> FALSE, hung |-> FALSE]

SlotOf(seq) == seq % MaxPacketCount
PacketAt(sub, seq) == sub.list[SlotOf(seq)]

\* Mutated: the packets stay in their slots.
advanceKeepsPackets(sub, count) == [sub EXCEPT !.mMinSeq = @ + count]

\* deleteMinPacket, and advance which does it count times.
advance(sub, count) ==
    LET gone == {SlotOf(s) : s \in sub.mMinSeq .. sub.mMinSeq + count - 1}
    IN [sub EXCEPT !.list = [i \in DOMAIN @ |-> IF i \in gone THEN NoPacket ELSE @[i]],
                   !.mMinSeq = @ + count]

\* Puts a packet (time 0: one that is missing so far) into a free slot.
AddPacket(sub, seq, time) ==
    IF PacketAt(sub, seq) # NoPacket THEN [sub EXCEPT !.aborted = TRUE]
    ELSE [sub EXCEPT !.list[SlotOf(seq)] = [seq |-> seq, time |-> time]]

freeEverything(sub) ==
    [sub EXCEPT !.started = FALSE, !.list = [i \in DOMAIN @ |-> NoPacket]]

\* One more packet at the end; the oldest one makes room for it.
AppendPacket(sub, seq, time) ==
    LET room == IF sub.mMaxSeq - sub.mMinSeq = MaxPacketCount THEN advance(sub, 1) ELSE sub
    IN [AddPacket(room, seq, time) EXCEPT !.mMaxSeq = @ + 1]

\* In a loop up to seq, the packets before it are missing.
TimeIn(q, seq, now) == IF q = seq THEN now ELSE 0

\* ForwardWalk(sub, seq, now)[k]: k packets were added at the end.
ForwardWalk(sub, seq, now) ==
    LET walk[k \in 0 .. seq - sub.mMaxSeq + 1] ==
            IF k = 0 THEN sub
            ELSE AppendPacket(walk[k - 1], sub.mMaxSeq + k - 1,
                              TimeIn(sub.mMaxSeq + k - 1, seq, now))
    IN  walk

ExtendForward(sub, seq, now) == ForwardWalk(sub, seq, now)[seq - sub.mMaxSeq + 1]

\* BackwardWalk(sub, seq, now)[k]: k packets were added before the first one.
BackwardWalk(sub, seq, now) ==
    LET walk[k \in 0 .. sub.mMinSeq - seq] ==
            IF k = 0 THEN sub
            ELSE AddPacket(walk[k - 1], sub.mMinSeq - k, TimeIn(sub.mMinSeq - k, seq, now))
    IN  walk

ExtendBackward(sub, seq, now) ==
    [BackwardWalk(sub, seq, now)[sub.mMinSeq - seq] EXCEPT !.mMinSeq = seq]

\* now is relative to mBaseTimeMicros.
saveIncomingPacket(sub0, seq16, now) ==
    LET e == extend(sub0.ext, seq16, now, SeqRange)
        seq == e.value
        a == [sub0 EXCEPT !.ext = e.ev]
        silent == /\ a.started /\ a.lastPacket # 0 /\ now - a.lastPacket >= ResetDelay
                  /\ seq > a.mMaxSeq + MaxPacketCount \div 8
        b == [(IF silent THEN freeEverything(a) ELSE a) EXCEPT !.lastPacket = now]
    IN IF ~b.started \/ b.mMinSeq = b.mMaxSeq
       THEN [b EXCEPT !.started = TRUE, !.mMinSeq = seq, !.mMaxSeq = seq + 1,
                      !.list[SlotOf(seq)] = [seq |-> seq, time |-> now]]
       ELSE IF \/ seq + MaxPacketCount \div 4 < b.mMinSeq
               \/ seq > b.mMaxSeq + MaxPacketCount \div 4 THEN b
       ELSE IF seq >= b.mMaxSeq THEN ExtendForward(b, seq, now)
       ELSE IF seq < b.mMinSeq
       THEN IF b.mMaxSeq - seq > MaxPacketCount THEN b ELSE ExtendBackward(b, seq, now)
       ELSE [b EXCEPT !.list[SlotOf(seq)].time = now]

-----------------------------------------------------------------------------
\* The feedback message.  A chunk is a run of packets that did not arrive or a
\* vector of statuses; deltas holds the times of those that did.

NewBuilder == [base |-> 0, count |-> 0, ref |-> 0, chunks |-> <<>>, deltas |-> <<>>]

\* empty and size: 2 bytes for a chunk, 1 or 2 for a delta.
BuilderEmpty(b) == b.chunks = <<>>
BuilderSize(b) ==
    FoldLeft(LAMBDA n, d : n + (IF d.large THEN 2 ELSE 1), 6 + 2 * Len(b.chunks), b.deltas)

\* initBaseSeq is part of each add.
AddChunk(b, first, chunk, deltas) ==
    [b EXCEPT !.base = IF b.count = 0 THEN first % SeqRange ELSE @,
              !.count = @ + Len(chunk), !.chunks = Append(@, chunk), !.deltas = @ \o deltas]

addNotReceivedRun(b, first, count) ==
    AddChunk(b, first, [k \in 1 .. count |-> "no"], <<>>)

\* C++ division: towards zero.
Trunc(d) == IF d >= 0 THEN d \div Quantum ELSE -((-d) \div Quantum)

AddDeltaRun(b, first, run, large) ==
    AddChunk(b, first,
             [k \in DOMAIN run.received |->
                IF ~run.received[k] THEN "no" ELSE IF large THEN "large" ELSE "small"],
             [k \in DOMAIN run.deltas |-> [large |-> large, value |-> Trunc(run.deltas[k])]])

addSmallDeltaRun(b, first, run) == AddDeltaRun(b, first, run, FALSE)
addLargeDeltaRun(b, first, run) == AddDeltaRun(b, first, run, TRUE)

-----------------------------------------------------------------------------
\* generate.

\* peekNotReceivedRun; a ring never holds the 8191 packets that end a run.
peekNotReceivedRun(sub) ==
    CHOOSE n \in 1 .. sub.mMaxSeq - sub.mMinSeq :
        /\ \A s \in sub.mMinSeq .. sub.mMinSeq + n - 1 : PacketAt(sub, s).time = 0
        /\ sub.mMinSeq + n = sub.mMaxSeq \/ PacketAt(sub, sub.mMinSeq + n).time # 0

\* One turn of peekSmallDeltaRun or peekLargeDeltaRun, at the packet seq.
PeekStep(sub, acc, seq, lo, hi) ==
    LET t == PacketAt(sub, seq).time
    IN IF acc.stop \/ seq >= sub.mMaxSeq THEN [acc EXCEPT !.stop = TRUE]
       ELSE IF t = 0 THEN [acc EXCEPT !.received = Append(@, FALSE)]
       ELSE IF t >= acc.time + lo /\ t <= acc.time + hi
       THEN [acc EXCEPT !.received = Append(@, TRUE), !.time = t,
                        !.deltas = Append(@, t - acc.time)]
       ELSE [acc EXCEPT !.stop = TRUE]

\* PeekWalk(sub, from, most, lo, hi)[k]: the packets from the oldest on whose time is
\* between lo and hi after the one before, when k were looked at.
PeekWalk(sub, from, most, lo, hi) ==
    LET walk[k \in 0 .. most] ==
            IF k = 0
            THEN [received |-> <<>>, deltas |-> <<>>, time |-> from, stop |-> FALSE]
            ELSE PeekStep(sub, walk[k - 1], sub.mMinSeq + k - 1, lo, hi)
    IN  walk

PeekRun(sub, from, most, lo, hi) == PeekWalk(sub, from, most, lo, hi)[most]

peekSmallDeltaRun(sub, from) == PeekRun(sub, from, SmallRun, 0, SmallMax)
peekLargeDeltaRun(sub, from) == PeekRun(sub, from, LargeRun, -LargeMax - Quantum, LargeMax)

\* Builder::generate: the reference time in its units, cut to 24 bits.
Generate(b) == [b EXCEPT !.ref = (@ \div RefUnit) % RefCount]

Flush(acc) == [acc EXCEPT !.out = Append(@, Generate(acc.b)), !.b = NewBuilder, !.time = 0]

\* A run goes into the message and out of the history.
TakeRun(acc, run, b) ==
    [acc EXCEPT !.b = b,
                !.sub = advance(@, Len(run.received)), !.time = run.time]

\* One turn of the loop.
GenerateStep(acc) ==
    LET sub == acc.sub
        head == PacketAt(sub, sub.mMinSeq)
        n == peekNotReceivedRun(sub)
        time == IF acc.time = 0 THEN (head.time \div RefUnit) * RefUnit ELSE acc.time
        a == [acc EXCEPT !.time = time, !.b.ref = IF acc.time = 0 THEN time ELSE @]
        small == peekSmallDeltaRun(sub, time)
        large == peekLargeDeltaRun(sub, time)
        Enough(run, most) == Len(run.received) = most
                             \/ sub.mMinSeq + Len(run.received) = sub.mMaxSeq
        next == IF head.time = 0
                THEN [acc EXCEPT !.b = addNotReceivedRun(@, sub.mMinSeq, n),
                                 !.sub = advance(@, n)]
                ELSE IF Enough(small, SmallRun) THEN TakeRun(a, small, addSmallDeltaRun(a.b, sub.mMinSeq, small))
                ELSE IF Enough(large, LargeRun) THEN TakeRun(a, large, addLargeDeltaRun(a.b, sub.mMinSeq, large))
                ELSE IF ~BuilderEmpty(a.b) THEN Flush(a)
                ELSE [a EXCEPT !.sub.hung = TRUE]
    IN IF sub.hung \/ sub.mMinSeq >= sub.mMaxSeq THEN acc
       ELSE IF BuilderSize(next.b) >= MaxFeedbackSize THEN Flush(next) ELSE next

\* isTimeToGenerate
isTimeToGenerate(sub, now) == now - sub.lastGenerated >= GenerateInterval

\* Turns of the loop that empty the history: one that adds nothing flushes.
MaxTurns(sub) == 2 * (sub.mMaxSeq - sub.mMinSeq) + 1

\* GenerateWalk(sub)[k]: after k turns.
GenerateWalk(sub) ==
    LET walk[k \in 0 .. MaxTurns(sub)] ==
            IF k = 0 THEN [sub |-> sub, b |-> NewBuilder, time |-> 0, out |-> <<>>]
            ELSE GenerateStep(walk[k - 1])
    IN  walk

\* The messages, and the history after them.
GenerateFeedback(sub, now) ==
    LET done == GenerateWalk(sub)[MaxTurns(sub)]
    IN [sub |-> [done.sub EXCEPT !.lastGenerated = now],
        out |-> IF BuilderEmpty(done.b) THEN done.out ELSE Append(done.out, Generate(done.b))]
=============================================================================
