---------------------------- MODULE TwccFeedback ----------------------------
(***************************************************************************)
(* Transport wide congestion control end to end: the publisher numbers     *)
(* and records its packets (RtpExtensionSourceTWCC), the subscriber        *)
(* records when they arrive (RtpResponderTWCC) and reports it every        *)
(* GenerateInterval, the publisher estimates loss, bandwidth and trend     *)
(* from the reports, and probes.                                           *)
(*                                                                         *)
(* The network loses packets and reports and lets them overtake each       *)
(* other.  A packet that is sent again keeps its number, because the       *)
(* extension is copied into the retransmission.                            *)
(***************************************************************************)
EXTENDS TwccPublish

CONSTANTS
    StartProbing,       \* kStartProbingTimeout, 10 s
    PeriodicProbing,    \* kPeriodicProbingTimeout, 5 s
    ProbeDuration,      \* kProbeDuration, 1 s
    Sizes,              \* the payload sizes of the packets, in the order they are sent
    SendGap,            \* time between two packets
    Delay,              \* how much longer a packet takes that others overtake
    ReportDelay,        \* and a report
    SentHistory,        \* how many packets back one can be sent again (SendRtpHistory)
    MaxFaults           \* bound: packets lost, delayed and sent again, reports lost and delayed

ASSUME FeedbackAssumption ==
    /\ StartProbing \in Nat \ {0} /\ ProbeDuration \in Nat \ {0}
    /\ PeriodicProbing \in Nat /\ PeriodicProbing > ProbeDuration
    /\ SendGap \in Nat \ {0} /\ Delay \in Nat \ {0} /\ SentHistory < SeqRange
    /\ ReportDelay \in Nat \ {0} /\ MaxFaults \in Nat

VARIABLES
    now,       \* the time; the subscriber's base time is 0
    sent,      \* packets sent so far
    source,    \* mNextPacketSEQ, mIsConnected, mIsProbing, and the tasks
    pub,       \* the publisher's history
    net,       \* packets on their way
    faults,    \* how many there were
    missed,    \* history: the packets of reports that were lost or overtaken
    cuts,      \* history: how many deltas the time of a packet was summed from, or Broken
    sub,       \* the subscriber's history
    reports,   \* reports on their way, in the order they were sent
    arrivals   \* for each packet: when it arrived, whether it was overtaken and whether
               \* the subscriber took it

vars == <<now, sent, source, pub, net, faults, missed, cuts, sub, reports, arrivals>>

Packets == 1 .. Len(Sizes)

NoTask == -1
Broken == -1

\* start, end: when the tasks mTaskStartProbing and mTaskEndProbing are due.
NewSource == [next |-> 1, connected |-> FALSE, probing |-> FALSE, padded |-> 0,
              start |-> NoTask, end |-> NoTask]

Init ==
    /\ now = 1 /\ sent = 0 /\ source = NewSource /\ pub = NewPublishHistory
    /\ net = {} /\ faults = 0 /\ missed = {} /\ cuts = [p \in Packets |-> 0]
    /\ sub = NewSubscribeHistory /\ reports = <<>>
    /\ arrivals = [p \in Packets |-> {}]

\* onPeerConnected is called for every DTLS connection; the first one counts.
onPeerConnected ==
    /\ ~source.connected
    /\ source' = [source EXCEPT !.connected = TRUE, !.start = now + StartProbing]
    /\ UNCHANGED <<now, sent, pub, net, faults, missed, cuts, sub, reports, arrivals>>

Due(task) == task # NoTask /\ task <= now

onStartProbing ==
    /\ Due(source.start)
    /\ source' = [source EXCEPT !.probing = TRUE, !.padded = 0,
                                !.end = now + ProbeDuration, !.start = now + PeriodicProbing]
    /\ UNCHANGED <<now, sent, pub, net, faults, missed, cuts, sub, reports, arrivals>>

onEndProbing ==
    /\ Due(source.end)
    /\ source' = [source EXCEPT !.probing = FALSE, !.end = NoTask]
    /\ UNCHANGED <<now, sent, pub, net, faults, missed, cuts, sub, reports, arrivals>>

\* getPadding for a video packet.
getPadding(size) == IF ~source.probing THEN 0 ELSE IF size < 500 THEN 50 ELSE 120

\* SendPacer::sendImpl: onBeforeGeneratingRtpPacket gives the number,
\* onBeforeSendingRtpPacket records it.
SendPacket ==
    LET p == sent + 1
        padding == getPadding(Sizes[p])
    IN /\ source.connected /\ sent < Len(Sizes) /\ now >= 1 + SendGap * sent
       /\ sent' = p
       /\ source' = [source EXCEPT !.next = (@ + 1) % SeqRange,
                                   !.padded = IF padding = 120 THEN @ + 1 ELSE @]
       /\ pub' = saveOutgoingPacket(pub, source.next, padding, Sizes[p], FALSE, now)
       /\ net' = net \cup {[p |-> p, seq |-> source.next, at |-> now, delayed |-> FALSE]}
       /\ UNCHANGED <<now, faults, missed, cuts, sub, reports, arrivals>>

\* A NACK for a packet that is missing: onPacketWasNacked, and the packet again.
ResendPacket(p) ==
    LET seq == p % SeqRange
    IN /\ p < sent /\ sent - p <= SentHistory /\ arrivals[p] = {} /\ faults < MaxFaults
       /\ faults' = faults + 1
       /\ pub' = IF Known(pub, seq) THEN [pub EXCEPT !.list[Index(seq)].nacks = @ + 1] ELSE pub
       /\ net' = net \cup {[p |-> p, seq |-> seq, at |-> now, delayed |-> FALSE]}
       /\ UNCHANGED <<now, sent, source, missed, cuts, sub, reports, arrivals>>

LosePacket(m) ==
    /\ faults < MaxFaults /\ m.at = now /\ ~m.delayed
    /\ faults' = faults + 1
    /\ net' = net \ {m}
    /\ UNCHANGED <<now, sent, source, pub, missed, cuts, sub, reports, arrivals>>

DelayPacket(m) ==
    /\ faults < MaxFaults /\ m.at = now /\ ~m.delayed
    /\ faults' = faults + 1
    /\ net' = (net \ {m}) \cup {[m EXCEPT !.at = now + Delay, !.delayed = TRUE]}
    /\ UNCHANGED <<now, sent, source, pub, missed, cuts, sub, reports, arrivals>>

\* RtpResponderTWCC::onMediaPacket
onMediaPacket(m) ==
    /\ m.at = now
    /\ net' = net \ {m}
    /\ sub' = saveIncomingPacket(sub, m.seq, now)
    /\ arrivals' = [arrivals EXCEPT ![m.p] = @ \cup
                      {[time |-> now, late |-> \E q \in Packets : q > m.p /\ arrivals[q] # {},
                        kept |-> \E i \in DOMAIN sub.list : sub'.list[i] # sub.list[i]]}]
    /\ UNCHANGED <<now, sent, source, pub, faults, missed, cuts, reports>>

\* RtpResponderTWCC::run, in every turn of the loop.
RunResponder ==
    LET made == GenerateFeedback(sub, now)
    IN /\ isTimeToGenerate(sub, now)
       /\ sub' = made.sub
       /\ reports' = reports \o [i \in DOMAIN made.out |->
                                   [m |-> made.out[i], at |-> now, delayed |-> FALSE]]
       /\ UNCHANGED <<now, sent, source, pub, net, faults, missed, cuts, arrivals>>

\* Which packet a number stands for: the last one that had it.
PacketOf(seq) == Max({p \in Packets : p <= sent /\ p % SeqRange = seq})

\* The packets that a report is about.
PacketsIn(m) == {PacketOf((m.base + i - 1) % SeqRange) : i \in 1 .. m.count}

LoseReport(i) ==
    /\ faults < MaxFaults /\ reports[i].at = now /\ ~reports[i].delayed
    /\ faults' = faults + 1
    /\ missed' = missed \cup PacketsIn(reports[i].m)
    /\ reports' = RemoveAt(reports, i)
    /\ UNCHANGED <<now, sent, source, pub, net, cuts, sub, arrivals>>

DelayReport(i) ==
    /\ faults < MaxFaults /\ reports[i].at = now /\ ~reports[i].delayed
    /\ faults' = faults + 1
    /\ reports' = [reports EXCEPT ![i].at = now + ReportDelay, ![i].delayed = TRUE]
    /\ UNCHANGED <<now, sent, source, pub, net, missed, cuts, sub, arrivals>>

\* Mutated: probing is called off, but the flag stays.
StopProbingLater(s, stop) == IF s.probing /\ stop THEN [s EXCEPT !.end = NoTask] ELSE s

\* Probing ends early when it does harm.
StopProbing(s, stop) ==
    IF s.probing /\ stop THEN [s EXCEPT !.probing = FALSE, !.end = NoTask] ELSE s

\* The deltas that the time of each packet of a report is the sum of.  The sum starts at
\* the reference time, and again, wrongly, after a packet that the history has dropped.
CutsOf(m) ==
    LET statuses == Statuses(m)
        received == {i \in DOMAIN statuses : statuses[i] # "no"}
        SeqAt(i) == (m.base + i - 1) % SeqRange
        known == {i \in received : Known(pub, SeqAt(i))}
    IN [p \in {PacketOf(SeqAt(i)) : i \in known} |->
          LET i == CHOOSE k \in known : PacketOf(SeqAt(k)) = p
          IN IF \E j \in received \ known : j < i THEN Broken ELSE DeltaIndex(statuses, i)]

\* Reports that are due come in the order they were sent.
onReceivedRtcpPacket(i) ==
    /\ reports[i].at = now /\ \A j \in 1 .. i - 1 : reports[j].at > now
    /\ reports' = RemoveAt(reports, i)
    /\ missed' = missed \cup UNION {PacketsIn(reports[j].m) : j \in 1 .. i - 1}
    /\ cuts' = CutsOf(reports[i].m) @@ cuts
    /\ pub' = ApplyFeedback(pub, reports[i].m, now)
    /\ source' = StopProbing(source, shouldStopProbing(pub'))
    /\ UNCHANGED <<now, sent, net, faults, sub, arrivals>>

\* Bound: the end of time, when the last report has been sent.
MaxTime == 1 + SendGap * Len(Sizes) + Delay + GenerateInterval

Tick ==
    /\ source.connected /\ now < MaxTime
    /\ ~Due(source.start) /\ ~Due(source.end)
    /\ ~isTimeToGenerate(sub, now)
    /\ sent = Len(Sizes) \/ now < 1 + SendGap * sent
    /\ \A m \in net : m.at > now
    /\ \A i \in DOMAIN reports : reports[i].at > now
    /\ now' = now + 1
    /\ UNCHANGED <<sent, source, pub, net, faults, missed, cuts, sub, reports, arrivals>>

Next ==
    \/ onPeerConnected \/ onStartProbing \/ onEndProbing
    \/ SendPacket \/ RunResponder \/ Tick
    \/ \E i \in DOMAIN reports : LoseReport(i) \/ DelayReport(i) \/ onReceivedRtcpPacket(i)
    \/ \E p \in Packets : ResendPacket(p)
    \/ \E m \in net : LosePacket(m) \/ DelayPacket(m) \/ onMediaPacket(m)

Spec == Init /\ [][Next]_vars

-----------------------------------------------------------------------------
\* Properties.

\* The ring of the subscriber holds what its range says, each packet in its slot,
\* and no assertion fails, whatever arrives late, twice or not at all.
RingExact ==
    /\ ~sub.aborted /\ ~sub.hung
    /\ sub.started =>
         LET range == sub.mMinSeq .. sub.mMaxSeq - 1
         IN /\ \A s \in range : PacketAt(sub, s).seq = s
            /\ \A i \in DOMAIN sub.list :
                 sub.list[i] # NoPacket => \E s \in range : SlotOf(s) = i

\* The entries of the history.
Recorded == IF pub.started THEN {Entry(pub, s) : s \in {q \in 0 .. SeqRange - 1 : Known(pub, q)}}
            ELSE {}

\* A time the publisher has for a packet is a time at which this packet arrived, but for
\* what each delta since the reference time loses when it is cut to whole quanta and for
\* the laps of the 24 bits that this time has.  Not so when the report came so late that
\* the history had dropped packets in front of it: RtpExtensionSourceTWCC adds the next
\* delta to the reference time then.
ReportedTimesAreReal ==
    \A e \in Recorded :
        LET p == PacketOf(e.seq)
            rounding == (Quantum - 1) * cuts[p]
        IN e.present /\ cuts[p] # Broken =>
               \E a \in arrivals[p], r \in -rounding .. rounding :
                   (a.time - e.time - r) % (RefUnit * RefCount) = 0

\* A packet counts as lost only if it arrived after a later one, or so far from the
\* others that the subscriber refused it, or if a report about it was lost or overtaken
\* by a later one.  The last is not what the publisher means to count: MarkLost looks at
\* a packet once, and a report that comes late does not take its mark back.
CountedLostWasLate ==
    \A e \in Recorded :
        e.asLost => \/ PacketOf(e.seq) \in missed
                    \/ \A a \in arrivals[PacketOf(e.seq)] : a.late \/ ~a.kept

\* While padding is sent there is a task that ends it.
ProbingEnds == source.probing => source.end >= now
=============================================================================
