----------------------------- MODULE RtcpReports -----------------------------
(***************************************************************************)
(* The RTCP reports from which both ends measure the round trip time:      *)
(* PeerCandidate::sendPublishReports and sendSubscribeReports with their   *)
(* handlers, src/src/peer_candidate.cpp, and the two report histories.     *)
(*                                                                         *)
(* The publisher sends a Sender Report (SR) for every track; the subscriber*)
(* answers it in its next Receiver Report (RR) with the time it kept it,   *)
(* and sends a Receiver Reference Time Report (RRTR) along, which the      *)
(* publisher answers in its next DLRR.  SenderReportsHistory and           *)
(* ReceiverReferenceTimeReportsHistory are the same code: one definition.  *)
(*                                                                         *)
(* Every RTCP packet has the SRTCP index of its packet source, and the     *)
(* receiver refuses an index it has seen from the same SSRC.  The          *)
(* publisher's DLRRs come from a source of their own that has the SSRC of  *)
(* the first track, whose SRs have used the index already: a DLRR is only  *)
(* accepted when that SR was lost or is late.                              *)
(***************************************************************************)
EXTENDS Integers, Sequences, SequencesExt

CONSTANTS
    ReportTracks,     \* SSRCs of the tracks that are published
    FirstTrack,       \* the track offered first: the publisher's control source has its SSRC
    ControlSsrc,      \* SSRC of the subscriber's control packet source
    ReportsInterval,  \* kReportsInterval, 5 s
    MaxReports,       \* kMaxHistory, 16
    MaxRtrrQueue,     \* kMaxRtrrQueueSize, 100
    MaxDlrr,          \* kMaxDlrrResponseSize, 25
    MarkerRange       \* number of NTP middle markers, 2^32

ASSUME ReportsAssumption ==
    /\ FirstTrack \in ReportTracks
    /\ ReportsInterval \in Nat \ {0} /\ MaxReports \in Nat \ {0}
    /\ MaxRtrrQueue \in Nat \ {0} /\ MaxDlrr \in Nat \ {0} /\ MarkerRange \in Nat \ {0}

NoRtt == -1      \* std::nullopt
NoReport == [ntp |-> 0, when |-> -1, travel |-> 0]

\* Filter<float>, with a factor of 0.2, on integers.
NewFilter == [value |-> NoRtt, updated |-> -1]
updateFilter(f, value, now) ==
    [value |-> IF f.value = NoRtt THEN value ELSE (4 * f.value + value) \div 5,
     updated |-> now]

NewPublisher(first) ==
    [next |-> first, history |-> [s \in ReportTracks |-> <<>>], queue |-> <<>>,
     index |-> [s \in ReportTracks |-> 0], control |-> 0, seen |-> {},
     filter |-> NewFilter, last |-> [rtt |-> NoRtt, travel |-> 0]]
NewSubscriber(first) ==
    [next |-> first, sr |-> [s \in ReportTracks |-> NoReport],
     history |-> [s \in {ControlSsrc} |-> <<>>], control |-> 0, seen |-> {},
     filter |-> NewFilter, last |-> [rtt |-> NoRtt, travel |-> 0]]

-----------------------------------------------------------------------------
\* RtcpPacketSource::getNextSequence
getNextIndex(last) == last + 1

\* SrtpConnection::unprotectReceiveControl at the end x: the replay window of the SSRC
\* (module ReplayProtection shows that it is exact).
Fresh(x, m) == <<m.ssrc, m.index>> \notin x.seen
Seen(x, m) == [x EXCEPT !.seen = @ \cup {<<m.ssrc, m.index>>}]

\* NTP time and the middle 32 of its 64 bits.  The clock starts at 1, so that no
\* marker is 0, the value for "no report yet".
getNtpTime(now) == now + 1
getNtpTimeMiddleMarker(ntp) == ntp % MarkerRange

\* SenderReportsHistory::save
saveReport(list, now) ==
    Append(IF Len(list) >= MaxReports THEN Tail(list) ELSE list,
           [ntp |-> getNtpTime(now), sent |-> now])

\* The first report with this marker, 0 when there is none.
FindReport(list, marker) ==
    SelectInSeq(list, LAMBDA r : getNtpTimeMiddleMarker(r.ntp) = marker)


\* SenderReportsHistory::calculateRtt: the report is forgotten, so an SR answered
\* twice is measured once.  "now - received" is the round trip already; the code
\* doubles it.
calculateRtt(list, marker, delay, now) ==
    LET i == FindReport(list, marker)
        received == list[i].sent + delay
    IN IF i = 0 THEN [list |-> list, rtt |-> NoRtt]
       ELSE [list |-> RemoveAt(list, i),
             rtt |-> IF now >= received THEN 2 * (now - received) ELSE NoRtt]

\* What one answered report changes at an end: x is its record, travel how long the
\* report was on its way, m the datagram that brings the answer.
Measured(x, ssrc, marker, delay, travel, m, now) ==
    LET c == calculateRtt(x.history[ssrc], marker, delay, now)
    IN IF c.rtt = NoRtt THEN [x EXCEPT !.history[ssrc] = c.list]
       ELSE [x EXCEPT !.history[ssrc] = c.list,
                      !.filter = updateFilter(@, c.rtt, now),
                      !.last = [rtt |-> c.rtt, travel |-> travel + (now - m.sent)]]

-----------------------------------------------------------------------------
\* The publisher.

\* sendPublishReports: an SR for every track, and one DLRR for the RRTRs that wait.
SenderReports(pub, now) ==
    {[kind |-> "sr", ssrc |-> s, index |-> getNextIndex(pub.index[s]),
      ntp |-> getNtpTime(now), sent |-> now] : s \in ReportTracks}

Dlrr(pub, now) ==
    LET n == IF Len(pub.queue) < MaxDlrr THEN Len(pub.queue) ELSE MaxDlrr
    IN IF n = 0 THEN {}
       ELSE {[kind |-> "dlrr", ssrc |-> FirstTrack, index |-> getNextIndex(pub.control),
              sent |-> now,
              blocks |-> [i \in 1 .. n |->
                            [ssrc |-> pub.queue[i].ssrc,
                             marker |-> getNtpTimeMiddleMarker(pub.queue[i].ntp),
                             delay |-> now - pub.queue[i].when,
                             travel |-> pub.queue[i].travel]]]}

sendPublishReports(pub, now) ==
    [pub EXCEPT !.next = now + ReportsInterval,
                !.history = [s \in ReportTracks |-> saveReport(@[s], now)],
                !.index = [s \in ReportTracks |-> getNextIndex(@[s])],
                !.control = IF pub.queue = <<>> THEN @ ELSE getNextIndex(@),
                !.queue = IF Len(@) <= MaxDlrr THEN <<>>
                          ELSE SubSeq(@, MaxDlrr + 1, Len(@))]

\* onReceivedControlMessage_RR
onReceivedRR(pub, m, now) ==
    FoldLeft(LAMBDA acc, b : Measured(acc, b.ssrc, b.marker, b.delay, b.travel, m, now),
             pub, m.blocks)

\* onReceivedControlMessage_RRTR: the newest of each SSRC waits for its answer.
onReceivedRRTR(pub, m, now) ==
    LET rrtr == [ssrc |-> m.ssrc, ntp |-> m.ntp, when |-> now, travel |-> now - m.sent]
        i == SelectInSeq(pub.queue, LAMBDA r : r.ssrc = m.ssrc)
        room == IF Len(pub.queue) >= MaxRtrrQueue THEN Tail(pub.queue) ELSE pub.queue
    IN [pub EXCEPT !.queue = IF i # 0 THEN [@ EXCEPT ![i] = rrtr] ELSE Append(room, rrtr)]

\* The subscriber's compound packet, its parts in their order.
onReceivedRtcpFromSubscriber(pub, m, now) ==
    IF Fresh(pub, m) THEN onReceivedRRTR(onReceivedRR(Seen(pub, m), m, now), m, now) ELSE pub

-----------------------------------------------------------------------------
\* The subscriber.

\* sendSubscribeReports: one RR with a block for every track, and the RRTR.
Block(sub, s, now) ==
    LET r == sub.sr[s]
    IN IF r = NoReport THEN [ssrc |-> s, marker |-> 0, delay |-> 0, travel |-> 0]
       ELSE [ssrc |-> s, marker |-> getNtpTimeMiddleMarker(r.ntp),
             delay |-> now - r.when, travel |-> r.travel]

ReceiverReport(sub, now) ==
    LET tracks == SetToSeq(ReportTracks)
    IN [kind |-> "rr", ssrc |-> ControlSsrc, index |-> getNextIndex(sub.control),
        ntp |-> getNtpTime(now), sent |-> now,
        blocks |-> [i \in DOMAIN tracks |-> Block(sub, tracks[i], now)]]

sendSubscribeReports(sub, now) ==
    [sub EXCEPT !.next = now + ReportsInterval,
                !.control = getNextIndex(@),
                !.history[ControlSsrc] = saveReport(@, now)]

\* onReceivedControlMessage_SR
onReceivedSR(sub, m, now) ==
    [sub EXCEPT !.sr[m.ssrc] = [ntp |-> m.ntp, when |-> now, travel |-> now - m.sent]]

\* onReceivedControlMessage_DLRR: the blocks of this subscriber; its history knows
\* no other SSRC.
onReceivedDLRR(sub, m, now) ==
    FoldLeft(LAMBDA acc, b :
               IF b.marker = 0 \/ b.ssrc \notin DOMAIN acc.history THEN acc
               ELSE Measured(acc, b.ssrc, b.marker, b.delay, b.travel, m, now),
             sub, m.blocks)

onReceivedRtcpFromPublisher(sub, m, now) ==
    IF ~Fresh(sub, m) THEN sub
    ELSE IF m.kind = "sr" THEN onReceivedSR(Seen(sub, m), m, now)
    ELSE onReceivedDLRR(Seen(sub, m), m, now)

-----------------------------------------------------------------------------

\* The last measurement is twice the time that the report and the answer spent on
\* the network, however long the peer kept the report, whatever was lost, repeated
\* or overtaken, and the filter stays within what was measured.
Doubled(x, transit) ==
    x.last.rtt # NoRtt =>
        /\ x.last.rtt = 2 * x.last.travel
        /\ x.filter.value \in 0 .. 4 * transit
=============================================================================
