----------------------------- MODULE JitterBuffer -----------------------------
(***************************************************************************)
(* JitterBuffer, src/src/jitter_buffer.cpp: the packets of one received    *)
(* track, put back in order, kept for mLength and given to the            *)
(* depacketizer a frame at a time; what is missing is asked for once,      *)
(* after NackDelay, and given up when its frame is due.                    *)
(*                                                                         *)
(* jb is the object.  items is mItemList, a ring of mCapacity slots (NoItem*)
(* is nullptr); the packets mMinSeq .. mMaxSeq - 1 are in it.  Time is in  *)
(* milliseconds, the resolution diff_millis gives it.  An assertion that   *)
(* fails ends the process: aborted says which, of a slot that should be    *)
(* free ("slot") or of the kinds of a frame's packets ("kinds").          *)
(***************************************************************************)
EXTENDS RtpDepacketizer, ExtendedValue, FiniteSets

CONSTANTS
    NackDelay,   \* mNackDelay
    ResetDelay,  \* kNoPacketsResetDelay, 2000 ms
    HasNack,     \* mTrack->hasNack()
    SeqRange,      \* number of RTP sequence numbers, 2^16
    TsRange        \* number of RTP timestamps, 2^32; one per millisecond here

ASSUME JitterAssumption ==
    /\ NackDelay \in Nat /\ ResetDelay \in Nat
    /\ HasNack \in BOOLEAN
    /\ SeqRange \in Nat \ {0} /\ TsRange \in Nat \ {0}

Infinity == 1000000   \* time_point::max()
Overflown == Infinity + 1   \* see BeforeBase

NoItem == [received |-> FALSE, nackNeeded |-> FALSE, kind |-> "none", seq |-> -1, ts |-> 0,
           dequeue |-> 0, request |-> 0, abandon |-> 0, marker |-> FALSE, payload |-> <<>>]

EmptyRing(capacity) == [i \in 0 .. capacity - 1 |-> NoItem]

\* length is what onCandidateDtlsConnected computed from the round trip time, and
\* capacity a power of 2, kJitterBufferSize: 4096.
NewJitterBuffer(capacity, length) ==
    [mCapacity |-> capacity, mLength |-> length, started |-> FALSE, items |-> EmptyRing(capacity),
     mMinSeq |-> 0, mMaxSeq |-> 0, seqExt |-> NewExtendedValue, tsExt |-> NewExtendedValue,
     baseTime |-> 0, baseTs |-> 0, lastPacket |-> 0, lastFrameTs |-> -1,
     depacketizer |-> NewDepacketizer, aborted |-> "no"]

Slot(jb, seq) == seq % jb.mCapacity
At(jb, seq) == jb.items[Slot(jb, seq)]

newLostItem(seq, request, abandon) ==
    [NoItem EXCEPT !.nackNeeded = TRUE, !.kind = "Standalone", !.seq = seq,
                   !.dequeue = Infinity, !.request = request, !.abandon = abandon]

\* freeEverything: mMinSeq and mMaxSeq stay.
freeEverything(jb) ==
    [jb EXCEPT !.started = FALSE, !.items = EmptyRing(jb.mCapacity),
               !.lastFrameTs = -1]

deleteItemList(jb, from, to) ==
    [jb EXCEPT !.items = [i \in DOMAIN @ |->
        IF \E seq \in from .. to : Slot(jb, seq) = i THEN NoItem ELSE @[i]]]

\* Drops the item at the head.
DropHead(jb) == [deleteItemList(jb, jb.mMinSeq, jb.mMinSeq) EXCEPT !.mMinSeq = @ + 1]

-----------------------------------------------------------------------------
\* consume.

\* Lost items in the slots of "gap", the new one at seq: every slot must be free.
Fill(jb, gap, item) ==
    LET seqs == gap \cup {item.seq}
    IN IF \E s \in seqs : At(jb, s) # NoItem \/ (\E t \in seqs \ {s} : Slot(jb, t) = Slot(jb, s))
       THEN [jb EXCEPT !.aborted = "slot"]
       ELSE [jb EXCEPT !.items = [i \in DOMAIN @ |->
               IF i = Slot(jb, item.seq) THEN item
               ELSE IF \E s \in gap : Slot(jb, s) = i
                    THEN newLostItem(CHOOSE s \in gap : Slot(jb, s) = i, item.request, item.abandon)
                    ELSE @[i]]]

\* A packet that only seems to start a frame continues the one before it, and so
\* does the next packet if this one is part of the same frame.
JoinNeighbours(jb, item) ==
    LET prev == At(jb, item.seq - 1)
        kind == IF /\ item.kind = "Start" /\ jb.mMinSeq < item.seq
                   /\ prev.ts = item.ts /\ prev.kind \in {"Start", "Middle"}
                THEN "Middle" ELSE item.kind
        next == At(jb, item.seq + 1)
        joinNext == /\ kind \in {"Start", "Middle"} /\ item.seq + 1 < jb.mMaxSeq
                    /\ next.ts = item.ts /\ next.kind = "Start"
    IN [jb EXCEPT !.items = [i \in DOMAIN @ |->
          IF i = Slot(jb, item.seq) THEN [@[i] EXCEPT !.kind = kind]
          ELSE IF joinNext /\ i = Slot(jb, item.seq + 1) THEN [@[i] EXCEPT !.kind = "Middle"]
          ELSE @[i]]]

\* The item of a packet into the ring: before the head, behind the end, or where
\* an item already is (lost, or received before).
Place(jb, item) ==
    LET seq == item.seq
    IN IF seq < jb.mMinSeq
       THEN [Fill(jb, seq + 1 .. jb.mMinSeq - 1, item) EXCEPT !.mMinSeq = seq]
       ELSE IF seq >= jb.mMaxSeq
       THEN [Fill(jb, jb.mMaxSeq .. seq - 1, item) EXCEPT !.mMaxSeq = seq + 1]
       ELSE [jb EXCEPT !.items[Slot(jb, seq)] = item]

\* Mutated: one more packet is let in behind the end.
WouldExceedLater(jb, seq) ==
    \/ seq < jb.mMinSeq /\ seq + jb.mCapacity < jb.mMaxSeq
    \/ seq >= jb.mMaxSeq /\ seq > jb.mMinSeq + jb.mCapacity + 1

\* The ring would have to hold too many packets.  The packet mMinSeq + mCapacity
\* passes, although its slot is that of the head.
WouldExceed(jb, seq) ==
    \/ seq < jb.mMinSeq /\ seq + jb.mCapacity < jb.mMaxSeq
    \/ seq >= jb.mMaxSeq /\ seq > jb.mMinSeq + jb.mCapacity

\* Too far before the head, or behind the end, to be looked at.
OutOfRange(jb, seq) ==
    \/ seq + jb.mCapacity \div 4 <= jb.mMinSeq
    \/ seq >= jb.mMaxSeq + jb.mCapacity \div 4

\* The first packet, after a reset too: it sets the range and the time base.
Begin(jb, seq, ts, now) ==
    [jb EXCEPT !.started = TRUE, !.mMinSeq = seq, !.mMaxSeq = seq, !.baseTime = now,
               !.baseTs = ts]

\* After a silence the buffer starts again, unless the stream continues.
ResetIfSilent(jb, seq, now) ==
    IF /\ jb.started /\ now - jb.lastPacket >= ResetDelay
       /\ seq >= jb.mMaxSeq + jb.mCapacity \div 8
    THEN [freeEverything(jb) EXCEPT !.depacketizer = ResetDepacketizer(@)]
    ELSE jb

\* When a packet older than the time base is due.  The difference of the
\* timestamps is unsigned, and the sum with the time base overflows: what comes
\* of it is 65 years ahead at 90 kHz and 97 years ago at 48 kHz.  Of either
\* diff_millis keeps 32 bits, and these are ten and eight days ahead: the packet
\* is not due.  Only where the times themselves are compared, in getTimeoutMillis,
\* the second one lies in the past.
BeforeBase(codec) == IF codec = "Opus" THEN Overflown ELSE Infinity

\* The item of a received packet.
newItem(jb, codec, packet, seq, ts, now) ==
    LET due == IF ts >= jb.baseTs THEN jb.baseTime + (ts - jb.baseTs) + jb.mLength
               ELSE BeforeBase(codec)
    IN [received |-> TRUE, nackNeeded |-> FALSE,
        kind |-> getPacketKind(codec, packet.payload, packet.marker),
        seq |-> seq, ts |-> ts, dequeue |-> due, request |-> now + NackDelay,
        abandon |-> due, marker |-> packet.marker, payload |-> packet.payload]

PlaceAndJoin(jb, item) ==
    LET placed == Place(jb, item)
    IN IF placed.aborted # "no" THEN placed ELSE JoinNeighbours(placed, item)

\* The packet seq, if the range leaves room for it.
Enqueue(jb, codec, packet, seq, ts, now) ==
    LET begun == IF jb.started THEN jb ELSE Begin(jb, seq, ts, now)
    IN IF jb.started /\ (OutOfRange(jb, seq) \/ WouldExceed(jb, seq)) THEN jb
       ELSE PlaceAndJoin(begun, newItem(begun, codec, packet, seq, ts, now))

\* packet: what RtpPacket::fromUdpPacket made of the datagram.  On the RTX SSRC
\* the original sequence number comes first in the payload.
consume(jb0, codec, packet, now) ==
    LET seqE == extend(jb0.seqExt, packet.seq, now, SeqRange)
        tsE == extend(jb0.tsExt, packet.ts, now, TsRange)
        jb == [jb0 EXCEPT !.seqExt = seqE.ev, !.tsExt = tsE.ev]
    IN IF jb0.lastFrameTs > tsE.value THEN jb
       ELSE Enqueue([ResetIfSilent(jb, seqE.value, now) EXCEPT !.lastPacket = now],
                    codec, packet, seqE.value, tsE.value, now)

-----------------------------------------------------------------------------
\* processNack: the sequence numbers to ask for; each is asked for once.

NackStep(acc, seq, now) ==
    LET item == At(acc.jb, seq)
    IN IF acc.stop THEN acc
       ELSE IF item.request <= now
       THEN IF item.received \/ ~item.nackNeeded THEN acc
            ELSE [acc EXCEPT !.jb.items[Slot(acc.jb, seq)].nackNeeded = FALSE,
                             !.nacks = Append(@, item.seq % SeqRange)]
       ELSE [acc EXCEPT !.stop = item.abandon <= now]

processNack(jb, now) ==
    IF ~jb.started \/ ~HasNack THEN [jb |-> jb, nacks |-> <<>>, stop |-> FALSE]
    ELSE FoldLeft(LAMBDA acc, k : NackStep(acc, jb.mMinSeq + k - 1, now),
                  [jb |-> jb, nacks |-> <<>>, stop |-> FALSE],
                  [k \in 1 .. jb.mMaxSeq - jb.mMinSeq |-> k])

-----------------------------------------------------------------------------
\* processDeque.

\* findMultiPacketSequence: where the frame that starts at the head ends.
FirstNotMiddle(jb) ==
    LET tail == jb.mMinSeq + 1 .. jb.mMaxSeq - 1
        stops == {s \in tail : ~At(jb, s).received \/ At(jb, s).kind # "Middle"}
    IN IF stops = {} THEN jb.mMaxSeq
       ELSE CHOOSE s \in stops : \A t \in stops : s <= t

SequenceResult(jb) ==
    LET s == FirstNotMiddle(jb)
    IN IF s = jb.mMaxSeq \/ ~At(jb, s).received THEN "Gap"
       ELSE IF At(jb, s).kind = "End" THEN "Complete"
       ELSE "Abandoned"

\* Mutated: a later frame is not looked for.
findNextToDequeueNever(jb, now) == FALSE

\* Whether a frame behind the one at the head is due.
findNextToDequeue(jb, now) ==
    \E s \in jb.mMinSeq + 1 .. jb.mMaxSeq - 1 :
        /\ At(jb, s).received
        /\ At(jb, s).ts > At(jb, jb.mMinSeq).ts
        /\ At(jb, s).dequeue <= now

\* The items from .. to leave the ring, and what was extracted is appended, unless
\* time would go backwards.
GiveOut(acc, from, to, ts, ex) ==
    LET jb == acc.jb
        appended == ex.frames # <<>> /\ jb.lastFrameTs <= ts
        gone == [deleteItemList(jb, from, to) EXCEPT !.mMinSeq = to + 1, !.depacketizer = ex.d]
    IN [acc EXCEPT
          !.jb = IF appended THEN [gone EXCEPT !.lastFrameTs = ts] ELSE gone,
          !.frames = IF appended
                     THEN @ \o [i \in DOMAIN ex.frames |->
                                  [ts |-> ts, data |-> ex.frames[i]]]
                     ELSE @]

Packets(jb, from, to) == [k \in 1 .. to - from + 1 |-> At(jb, from + k - 1)]

Deliver(acc, codec, from, to) ==
    LET list == Packets(acc.jb, from, to)
    IN GiveOut(acc, from, to, list[1].ts, extract(codec, acc.jb.depacketizer, list))

\* What is asserted of a complete sequence: the packets, looked at again, are of the
\* kinds by which it was found.  A packet that consume has joined to the one before
\* it is not.
KindsAgree(codec, list) ==
    \A i \in DOMAIN list :
        getPacketKind(codec, list[i].payload, list[i].marker) =
            (IF i = 1 THEN "Start" ELSE IF i = Len(list) THEN "End" ELSE "Middle")

DeliverSequence(acc, codec, from, to) ==
    IF KindsAgree(codec, Packets(acc.jb, from, to)) THEN Deliver(acc, codec, from, to)
    ELSE [acc EXCEPT !.jb.aborted = "kinds", !.stop = TRUE]

\* One turn of the loop.
DequeStep(acc, codec, now) ==
    LET jb == acc.jb
        head == At(jb, jb.mMinSeq)
        end == FirstNotMiddle(jb)
    IN IF acc.stop \/ jb.mMinSeq >= jb.mMaxSeq THEN acc
       ELSE IF head.received /\ head.dequeue <= now
       THEN IF head.kind = "Standalone"
            THEN Deliver(acc, codec, jb.mMinSeq, jb.mMinSeq)
            ELSE IF head.kind = "Start"
            THEN CASE SequenceResult(jb) = "Complete" ->
                        DeliverSequence(acc, codec, jb.mMinSeq, end)
                   [] SequenceResult(jb) = "Gap" ->
                        IF findNextToDequeue(jb, now) THEN [acc EXCEPT !.jb = DropHead(jb)]
                        ELSE [acc EXCEPT !.stop = TRUE]
                   [] OTHER ->
                        [acc EXCEPT !.jb = [deleteItemList(jb, jb.mMinSeq, end)
                                              EXCEPT !.mMinSeq = end + 1]]
            ELSE [acc EXCEPT !.jb = DropHead(jb)]
       ELSE IF ~head.received /\ head.abandon <= now THEN [acc EXCEPT !.jb = DropHead(jb)]
       ELSE [acc EXCEPT !.stop = TRUE]

processDeque(jb, codec, now) ==
    IF ~jb.started THEN [jb |-> jb, frames |-> <<>>, stop |-> FALSE]
    ELSE FoldLeft(LAMBDA acc, k : DequeStep(acc, codec, now),
                  [jb |-> jb, frames |-> <<>>, stop |-> FALSE],
                  [k \in 1 .. jb.mMaxSeq - jb.mMinSeq |-> k])

-----------------------------------------------------------------------------
\* getTimeoutMillis: how long the event loop may sleep.  The scan takes the first
\* received item, the first missing one that is not asked for yet and the first
\* missing one, and ends at an item that has nothing to do before the default.

MinOf(S) == CHOOSE x \in S : \A y \in S : x <= y

\* Mutated: the scan ends behind the first received item.
ScannedShort(jb, now, default) ==
    LET all == jb.mMinSeq .. jb.mMaxSeq - 1
        First(P(_)) == {s \in all : P(At(jb, s)) /\ \A t \in all : t < s => ~P(At(jb, t))}
        Reached(s) == \A t \in all : t < s => ~At(jb, t).received
    IN [dequeue |-> {s \in First(LAMBDA i : i.received) : Reached(s)},
        request |-> {s \in First(LAMBDA i : ~i.received /\ i.nackNeeded) : Reached(s)},
        abandon |-> {s \in First(LAMBDA i : ~i.received) : Reached(s)}]

Scanned(jb, now, default) ==
    LET all == jb.mMinSeq .. jb.mMaxSeq - 1
        Late(t) == t > now + default /\ t # Overflown
        Idle(s) == /\ Late(At(jb, s).dequeue) /\ Late(At(jb, s).request)
                   /\ Late(At(jb, s).abandon)
        First(P(_)) == {s \in all : P(At(jb, s)) /\ \A t \in all : t < s => ~P(At(jb, t))}
        Reached(s) == \A t \in all : t < s => ~Idle(t)
    IN [dequeue |-> {s \in First(LAMBDA i : i.received) : Reached(s)},
        request |-> {s \in First(LAMBDA i : ~i.received /\ i.nackNeeded) : Reached(s)},
        abandon |-> {s \in First(LAMBDA i : ~i.received) : Reached(s)}]

getTimeoutMillis(jb, now, default) ==
    LET found == Scanned(jb, now, default)
    IN IF ~jb.started THEN default
       ELSE MinOf({default}
                  \cup {At(jb, s).dequeue - now : s \in found.dequeue}
                  \cup (IF HasNack
                        THEN {At(jb, s).request - now : s \in found.request}
                             \cup {At(jb, s).abandon - now : s \in found.abandon}
                        ELSE {}))
=============================================================================
