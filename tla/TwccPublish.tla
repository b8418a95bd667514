----------------------------- MODULE TwccPublish -----------------------------
(***************************************************************************)
(* The sender's half of transport wide congestion control:                 *)
(* PublishPacketHistory (src/src/twcc_publish.cpp) and what                *)
(* RtpExtensionSourceTWCC::onReceivedRtcpPacket makes of a feedback        *)
(* message.                                                                *)
(*                                                                         *)
(* pub is the history: a ring of the packets mMinSeq .. mMaxSeq (modulo    *)
(* SeqRange), and what is computed from it.  Bandwidths are in bytes per   *)
(* unit of time; the smoothing filters are left out, the last value counts.*)
(***************************************************************************)
EXTENDS TwccSubscribe, FiniteSetsExt

CONSTANTS
    MaxHistoryCount,                    \* kMaxPacketCount of this file, 2048
    ActualMinPackets, ActualMinTime,    \* kActualCalculateMinPackets, ...MinMicros
    TrendMinPackets, TrendMinTime,      \* kTrendCalculateMinPackets, ...MinMicros
    ProbeMinPackets, ProbeMinTime,      \* kProbeCalculateMinPackets, ...MinMicros
    ProbeMinPacketCount, ProbeMinDuration, \* kProbeMinPacketCount, ...DurationMicros
    OverusingSince, OverusingCount      \* kOverusingSinceMicros, kOverusingCount

ASSUME PublishAssumption ==
    MaxHistoryCount \in Nat \ {0} /\ SeqRange % MaxHistoryCount = 0

NoEntry == [seq |-> 0, sent |-> 0, padding |-> 0, size |-> 0, audio |-> FALSE,
            status |-> "no", present |-> FALSE, time |-> 0,
            checked |-> FALSE, asLost |-> FALSE, nacks |-> 0]

\* LastPacketInfo
NoLast == [seq |-> 0, sent |-> 0]

NewPublishHistory ==
    [started |-> FALSE, list |-> [i \in 0 .. MaxHistoryCount - 1 |-> NoEntry],
     mMinSeq |-> 0, mMaxSeq |-> 0, lossPercent |-> 0, actual |-> 0, probe |-> 0,
     instant |-> "normal", smoothed |-> "normal", since |-> -1, overuses |-> 0,
     lastActual |-> NoLast, lastProbe |-> NoLast, lastTrend |-> NoLast]

getPacketCount(pub) ==
    IF pub.started THEN ((pub.mMaxSeq - pub.mMinSeq) % SeqRange) + 1 ELSE 0

Index(seq) == seq % MaxHistoryCount
Entry(pub, seq) == pub.list[Index(seq)]

\* The packets of the history from seq back to the oldest one.
Backwards(pub, seq) ==
    [k \in 1 .. ((seq - pub.mMinSeq) % SeqRange) + 1 |-> Entry(pub, (seq - k + 1) % SeqRange)]

\* Whether get(seq) finds the packet.
Known(pub, seq) ==
    pub.started /\ (seq - pub.mMinSeq) % SeqRange <= (pub.mMaxSeq - pub.mMinSeq) % SeqRange

\* Mutated: the slot of an older packet is taken over as it is.
StepMaxKeepsOld(pub) ==
    LET max == (pub.mMaxSeq + 1) % SeqRange
    IN [pub EXCEPT !.mMinSeq = IF getPacketCount(pub) = MaxHistoryCount
                               THEN (@ + 1) % SeqRange ELSE @,
                   !.mMaxSeq = max]

\* One turn of the loop that moves mMaxSeq on.
StepMax(pub) ==
    LET max == (pub.mMaxSeq + 1) % SeqRange
    IN [pub EXCEPT !.mMinSeq = IF getPacketCount(pub) = MaxHistoryCount
                               THEN (@ + 1) % SeqRange ELSE @,
                   !.mMaxSeq = max, !.list[Index(max)] = NoEntry]

saveOutgoingPacket(pub, seq, padding, size, audio, now) ==
    LET room == IF pub.started
                THEN FoldLeft(LAMBDA p, k : StepMax(p), pub,
                              [k \in 1 .. ((seq - pub.mMaxSeq - 1) % SeqRange) + 1 |-> k])
                ELSE [pub EXCEPT !.started = TRUE, !.mMinSeq = seq, !.mMaxSeq = seq]
    IN [room EXCEPT !.list[Index(seq)] =
          [@ EXCEPT !.seq = seq, !.padding = padding, !.size = size, !.audio = audio,
                    !.sent = now]]

-----------------------------------------------------------------------------
\* update.

\* findMostRecentReceivedPacket: the place in Backwards(pub, mMaxSeq), or 0.
MostRecent(pub) ==
    LET all == Backwards(pub, pub.mMaxSeq)
        found == {k \in DOMAIN all : all[k].status # "no"}
    IN IF ~pub.started \/ found = {} THEN 0 ELSE Min(found)

\* From the most recent received packet back to one that was looked at before.
MarkLost(pub, max) ==
    LET back == Backwards(pub, max.seq)
        checked == {k \in DOMAIN back : back[k].checked}
        n == IF checked = {} THEN Len(back) ELSE Min(checked) - 1
        slots == {Index((max.seq - k + 1) % SeqRange) : k \in 1 .. n}
    IN [pub EXCEPT !.list = [i \in DOMAIN @ |->
          IF i \in slots
          THEN [@[i] EXCEPT !.checked = TRUE, !.asLost = @ \/ pub.list[i].status = "no"]
          ELSE @[i]]]

isEnough(last, max, minPackets, minTime) ==
    (max.seq - last.seq) % SeqRange >= minPackets /\ max.sent - last.sent >= minTime

SumOf(list, Value(_)) == FoldLeft(LAMBDA n, e : n + Value(e), 0, list)

\* The packets of "back" up to the one that gives enough, if one does.
Until(back, Enough(_)) ==
    LET ends == {k \in DOMAIN back : Enough(k)}
    IN IF ends = {} THEN back ELSE SubSeq(back, 1, Min(ends))

\* The loss is computed, and then the bandwidth if there is enough to do so.
calculateBandwidthActual(pub, max) ==
    LET all == Backwards(pub, pub.mMaxSeq)
        lost == SumOf(all, LAMBDA e : IF e.asLost THEN 1 ELSE 0)
        nacked == SumOf(all, LAMBDA e : e.nacks)
        percent == (100 * Max({lost, nacked})) \div Len(all)
        Present(list) == SelectSeq(list, LAMBDA e : e.present)
        back == Backwards(pub, max.seq)
        items == Present(Until(back, LAMBDA k :
                   /\ back[k].present /\ max.time - back[k].time >= ActualMinTime
                   /\ Len(Present(SubSeq(back, 1, k))) >= ActualMinPackets))
        times == {items[k].time : k \in DOMAIN items}
        duration == Max(times) - Min(times)
        a == [pub EXCEPT !.lossPercent = Min({percent, 100})]
    IN IF Len(all) < ActualMinPackets THEN [ok |-> FALSE, pub |-> pub]
       ELSE IF Len(items) < ActualMinPackets \/ duration < ActualMinTime
       THEN [ok |-> FALSE, pub |-> a]
       ELSE [ok |-> TRUE, pub |-> [a EXCEPT
              !.actual = SumOf(items, LAMBDA e : e.size) \div duration]]

\* calcualteBandwidthProbe: the longest span of packets, most of them with
\* padding, that ends at the last one with padding.
calculateBandwidthProbe(pub) ==
    LET all == Backwards(pub, pub.mMaxSeq)
        padded == {k \in DOMAIN all : all[k].padding > 0}
        end == Min(padded)
        Counted(k) == {j \in end .. k : all[j].padding > 0 \/ ~all[j].audio}
        Paddeds(k) == {j \in end .. k : all[j].padding > 0}
        Good(k) == /\ Cardinality(Paddeds(k)) >= ProbeMinPacketCount
                   /\ Cardinality(Paddeds(k)) >= (Cardinality(Counted(k)) * 8) \div 10
                   /\ all[end].time - all[k].time >= ProbeMinDuration
        starts == {k \in padded : Good(k)}
        start == Max(starts)
        span == SubSeq(all, end, start)
    IN IF Len(all) < ProbeMinPackets \/ padded = {} \/ starts = {}
       THEN [ok |-> FALSE, pub |-> pub]
       ELSE [ok |-> TRUE, pub |-> [pub EXCEPT
              !.probe = SumOf(span, LAMBDA e : e.size + e.padding)
                        \div (all[end].time - all[start].time)]]

\* calculateSlope: how the delay of the packets, compared with the one before,
\* goes with the time; "none" when there is no spread in time.
calculateSlope(list) ==
    LET n == Len(list)
        x == SumOf(list, LAMBDA e : e.x)
        y == SumOf(list, LAMBDA e : e.y)
        num == n * SumOf(list, LAMBDA e : e.x * e.y) - x * y
        den == n * SumOf(list, LAMBDA e : e.x * e.x) - x * x
    IN IF den = 0 THEN "none"
       ELSE IF 10 * num >= den THEN "overuse"          \* kSlopeThreshold, 0.1
       ELSE IF 10 * num <= -den THEN "underuse" ELSE "normal"

\* A new slope: an overuse has to last before it counts.
TrendResult(pub, slope, now) ==
    LET since == IF pub.since = -1 THEN now ELSE pub.since
        overuses == IF pub.since = -1 THEN 1 ELSE pub.overuses + 1
        lasting == now - since >= OverusingSince /\ overuses >= OverusingCount
    IN IF slope = "overuse"
       THEN [pub EXCEPT !.since = since, !.overuses = overuses, !.instant = slope,
                        !.smoothed = IF lasting THEN slope ELSE @,
                        !.probe = IF lasting THEN 0 ELSE @]
       ELSE [pub EXCEPT !.since = -1, !.overuses = 0, !.instant = slope, !.smoothed = slope]

calculateBandwidthTrend(pub, max, now) ==
    LET back == Backwards(pub, max.seq)
        Pair(k) == k < Len(back) /\ back[k].present /\ back[k + 1].present
        pairs(n) == {k \in 1 .. n : Pair(k)}
        used == {k \in pairs(Len(back)) :
                   \A j \in pairs(Len(back)) : j < k =>
                       ~(max.time - back[j].time >= TrendMinTime
                         /\ Cardinality(pairs(j)) >= TrendMinPackets)}
        ks == SetToSortSeq(used, LAMBDA a, b : a > b)
        items == [i \in DOMAIN ks |->
                    LET c == back[ks[i]]
                        p == back[ks[i] + 1]
                    IN [x |-> c.sent, y |-> (c.time - p.time) - (c.sent - p.sent)]]
        slope == calculateSlope(items)
    IN IF Len(items) < TrendMinPackets \/ slope = "none" THEN [ok |-> FALSE, pub |-> pub]
       ELSE [ok |-> TRUE, pub |-> TrendResult(pub, slope, now)]

\* Each estimate is made when there is enough since the last one, and remembers
\* where it ended when it came to a result.
MarkOf(max) == [seq |-> max.seq, sent |-> max.sent]

UpdateActual(pub, max) ==
    LET r == calculateBandwidthActual(pub, max)
    IN IF ~isEnough(pub.lastActual, max, ActualMinPackets, ActualMinTime) THEN pub
       ELSE IF r.ok THEN [r.pub EXCEPT !.lastActual = MarkOf(max)] ELSE r.pub

UpdateProbe(pub, max) ==
    LET r == calculateBandwidthProbe(pub)
    IN IF ~isEnough(pub.lastProbe, max, ProbeMinPackets, ProbeMinTime) THEN pub
       ELSE IF r.ok THEN [r.pub EXCEPT !.lastProbe = MarkOf(max)] ELSE r.pub

UpdateTrend(pub, max, now) ==
    LET r == calculateBandwidthTrend(pub, max, now)
    IN IF ~isEnough(pub.lastTrend, max, TrendMinPackets, TrendMinTime) THEN pub
       ELSE IF r.ok THEN [r.pub EXCEPT !.lastTrend = MarkOf(max)] ELSE r.pub

update(pub, now) ==
    LET k == MostRecent(pub)
        max == Backwards(pub, pub.mMaxSeq)[k]
    IN IF k = 0 THEN pub
       ELSE UpdateTrend(UpdateProbe(UpdateActual(MarkLost(pub, max), max), max), max, now)

shouldStopProbing(pub) == pub.lossPercent >= 10 \/ pub.instant = "overuse"

-----------------------------------------------------------------------------
\* onReceivedRtcpPacket.

\* The statuses, one for each packet the message counts; only the last chunk may
\* have room for more.
Statuses(m) ==
    SubSeq(FoldLeft(LAMBDA list, chunk : list \o chunk, <<>>, m.chunks), 1, m.count)

\* The place of the i-th packet's delta among the deltas.
DeltaIndex(statuses, i) == Cardinality({j \in 1 .. i : statuses[j] # "no"})

\* Mutated: every time is relative to the reference time.
ResolveFromReference(acc, m, statuses, i) ==
    LET seq == (m.base + i - 1) % SeqRange
        delta == Quantum * m.deltas[DeltaIndex(statuses, i)].value
    IN IF statuses[i] = "no" \/ ~Known(acc.pub, seq) THEN acc
       ELSE [acc EXCEPT !.pub.list[Index(seq)] =
               [@ EXCEPT !.status = statuses[i], !.present = TRUE,
                         !.time = RefUnit * m.ref + delta]]

\* The status and the time of the i-th packet; acc.prev is the time of the one
\* before it, -1 when there was none or the history no longer knows it.
Resolve(acc, m, statuses, i) ==
    LET seq == (m.base + i - 1) % SeqRange
        delta == Quantum * m.deltas[DeltaIndex(statuses, i)].value
        time == (IF acc.prev = -1 THEN RefUnit * m.ref ELSE acc.prev) + delta
    IN IF statuses[i] = "no" THEN acc
       ELSE IF Known(acc.pub, seq)
       THEN [acc EXCEPT !.prev = time,
                        !.pub.list[Index(seq)] = [@ EXCEPT !.status = statuses[i],
                                                           !.present = TRUE, !.time = time]]
       ELSE [acc EXCEPT !.prev = -1]

ApplyFeedback(pub, m, now) ==
    LET statuses == Statuses(m)
    IN update(FoldLeft(LAMBDA acc, i : Resolve(acc, m, statuses, i),
                       [pub |-> pub, prev |-> -1], [i \in 1 .. m.count |-> i]).pub, now)
=============================================================================
