------------------------------ MODULE MediaPath ------------------------------
(***************************************************************************)
(* One media track from the publisher's frames to the subscriber's frames: *)
(* packetizer, SendPacer and SendRtpHistory at the sender; a network that  *)
(* delays, reorders and loses; the jitter buffer and the depacketizer at   *)
(* the receiver; NACKs and retransmissions (RTX) between them.             *)
(*                                                                         *)
(* Both ends are event loops that sleep until something is due: time does  *)
(* not pass while a paced packet is due, nor beyond the receiver's timeout.*)
(* The SRTP layer (module SrtpConnection) drops a second copy of the same  *)
(* datagram, so the network does not duplicate.                            *)
(***************************************************************************)
EXTENDS JitterBuffer, RtcpReports

CONSTANTS
    Frames,       \* Frames[name]: frames that are published, in order,
                  \* each a sequence of units
    Envs,         \* what is published (frames), what a connection negotiated (codec,
                  \* extensions, probing and the overhead of SRTP), the capacity and
                  \* the length of its jitter buffer and its network: the longest
                  \* time a datagram is on its way (transit) and how many are lost
                  \* (losses); report turns of both ends (pubPhase, subPhase)
    FirstSeq,     \* the RTP sequence number of the first packet
    FirstTs,      \* the RTP timestamp of the first frame
    FrameGap,     \* time between two frames
    Spread,       \* pacing: a frame's packets are sent over this time
    MaxHistory,   \* kMaxHistory, 512
    HasRtx,       \* getRtxPayloadId() > 0
    DefaultTimeout \* kDefaultTimeoutMillis, 100

ASSUME MediaAssumption ==
    /\ FrameGap \in Nat \ {0} /\ Spread \in Nat /\ MaxHistory \in Nat \ {0}
    /\ HasRtx \in BOOLEAN /\ DefaultTimeout \in Nat \ {0}
    /\ \A e \in Envs : \E k \in 0 .. 16 : e.capacity = 2 ^ k

VARIABLES
    now,        \* the time, in milliseconds
    sender,     \* published: frames so far; source: the RtpPacketSource;
                \* csd: the packetizer's parameter sets; queue: SendPacer::mQueue;
                \* history: SendRtpHistory's list, newest first
    env,        \* the environment of this connection
    net,        \* the datagrams on their way
    losses,     \* datagrams lost so far
    jb,         \* the receiver's jitter buffer
    ran,        \* when the receiver's loop ran last
    settled,    \* whether that turn, for a timeout, changed nothing
    wakeAt,     \* when it runs again at the latest
    delivered,  \* the frames given to the subscriber
    pub, sub    \* what both ends keep for their RTCP reports

reporting == <<pub, sub>>
vars == <<now, sender, env, net, losses, jb, ran, settled, wakeAt, delivered, reporting>>

NewSource == [count |-> 0, rollover |-> 0, seq |-> (FirstSeq - 1) % SeqRange]

Published == Frames[env.frames]

Init ==
    /\ now = 0
    /\ sender = [published |-> 0, source |-> NewSource, csd |-> setCodecSpecificData(<<>>),
                 queue |-> <<>>, history |-> <<>>]
    /\ env \in Envs
    /\ net = {} /\ losses = 0
    /\ jb = NewJitterBuffer(env.capacity, env.length) /\ ran = 0 /\ settled = TRUE /\ wakeAt = DefaultTimeout
    /\ delivered = <<>>
    /\ pub = NewPublisher(env.pubPhase) /\ sub = NewSubscriber(env.subPhase)

-----------------------------------------------------------------------------
\* The sender.

\* RtpPacketSource::getNextSequence
getNextSequence(s) ==
    LET seq == (s.seq + 1) % SeqRange
    IN [count |-> s.count + 1, seq |-> seq,
        rollover |-> IF s.count + 1 > 1 /\ seq = 0 THEN s.rollover + 1 ELSE s.rollover]

\* RtpPacket::generate
GeneratePacket(p) ==
    [kind |-> "rtp", rtx |-> FALSE, seq |-> p.seq, osn |-> 0, ts |-> p.ts, marker |-> p.marker,
     payload |-> p.payload, sent |-> now]

\* generateRtx: the original sequence number goes before the payload, the packet
\* has a sequence number of the RTX SSRC, which the receiver does not use.
generateRtx(p) == [GeneratePacket(p) EXCEPT !.rtx = TRUE, !.seq = 0, !.osn = p.seq]

\* fromUdpPacket takes the padding off, and consume the original sequence number.
fromUdpPacket(m) == IF m.rtx THEN [m EXCEPT !.seq = m.osn, !.osn = 0] ELSE m

\* SendRtpHistory::save
save(history, p) ==
    <<p>> \o (IF Len(history) >= MaxHistory THEN SubSeq(history, 1, MaxHistory - 1)
              ELSE history)

\* SendRtpHistory::find
find(history, seq) == {i \in DOMAIN history : history[i].seq = seq}

\* Mutated: a packet is not saved when it is sent.
sendImplUnsaved(s, packets) == s

\* SendPacer::sendImpl for each of the packets, on the sender s; what goes out is
\* added to the network by the callers.
sendImpl(s, packets) ==
    IF HasNack \/ HasRtx
    THEN [s EXCEPT !.history = FoldLeft(LAMBDA h, p : save(h, p), @, packets)]
    ELSE s

Sent(packets) == {GeneratePacket(packets[i]) : i \in DOMAIN packets}

\* The packets of a frame with their sequence numbers and the sender after it.
Numbered(s, packets, ts) ==
    FoldLeft(LAMBDA acc, p :
               LET src == getNextSequence(acc.source)
               IN [source |-> src,
                   list |-> Append(acc.list,
                     [seq |-> src.seq, rollover |-> src.rollover, ts |-> ts,
                      marker |-> p.marker, payload |-> p.payload,
                      wire |-> WireSize(env, p)])],
             [source |-> s.source, list |-> <<>>], packets)

QueuedPackets(queue) == [i \in DOMAIN queue |-> queue[i].packet]

\* The packets of a frame: flush what the pacer still holds of this track, then
\* send at once or pace.
SendPackets(s, list) ==
    LET flushed == QueuedPackets(s.queue)
        atOnce == Len(list) = 1 \/ Spread = 0
        out == IF atOnce THEN flushed \o list ELSE flushed
        paced == IF atOnce THEN <<>>
                 ELSE [i \in DOMAIN list |->
                         [when |-> now + (Spread * (i - 1)) \div Len(list),
                          packet |-> list[i]]]
    IN /\ sender' = sendImpl([s EXCEPT !.queue = paced], out)
       /\ net' = net \cup Sent(out)

\* PeerCandidate::run for a frame.
PublishFrame ==
    LET n == sender.published + 1
    IN /\ sender.published < Len(Published)
       /\ now = FrameGap * sender.published
       /\ \E made \in {generate(env.codec, sender.csd, Published[n], env)} :
          \E numbered \in {Numbered(sender, made.packets, (FirstTs + now) % TsRange)} :
             SendPackets([sender EXCEPT !.published = n, !.source = numbered.source,
                                        !.csd = made.csd],
                         numbered.list)
       /\ UNCHANGED <<now, env, losses, jb, ran, settled, wakeAt, delivered, reporting>>

PacerDue == sender.queue # <<>> /\ sender.queue[1].when <= now

\* SendPacer::run
PacerRun ==
    LET due == SelectSeq(sender.queue, LAMBDA q : q.when <= now)
        out == QueuedPackets(due)
    IN /\ PacerDue
       /\ sender' = sendImpl([sender EXCEPT !.queue = SelectSeq(@, LAMBDA q : q.when > now)],
                             out)
       /\ net' = net \cup Sent(out)
       /\ UNCHANGED <<now, env, losses, jb, ran, settled, wakeAt, delivered, reporting>>

NackSpan == 16

\* compressNackList: pid and the bits for the NackSpan that follow it.
compressNackList(list) ==
    FoldLeft(LAMBDA acc, seq :
               LET k == Len(acc)
                   gap == (seq - acc[k].pid) % SeqRange
               IN IF acc # <<>> /\ gap <= NackSpan
                  THEN [acc EXCEPT ![k].blp = @ \cup {gap - 1}]
                  ELSE Append(acc, [kind |-> "nack", pid |-> seq, blp |-> {}, sent |-> now]),
             <<>>, list)

\* sendNacks: the packets that ask for a list of numbers.
sendNacks(list) == IF HasNack THEN compressNackList(list) ELSE <<>>

\* onReceivedControlMessage_NACK: what of the history it asks for is sent again.
ReceiveNack(m) ==
    LET seqs == {m.pid} \cup {(m.pid + b + 1) % SeqRange : b \in m.blp}
        Again(p) == IF HasRtx THEN generateRtx(p) ELSE GeneratePacket(p)
        again == {Again(sender.history[CHOOSE i \in find(sender.history, q) :
                          \A j \in find(sender.history, q) : i <= j])
                  : q \in {x \in seqs : find(sender.history, x) # {}}}
    IN /\ m \in net /\ m.kind = "nack"
       /\ net' = (net \ {m}) \cup again
       /\ UNCHANGED <<now, sender, env, losses, jb, ran, settled, wakeAt, delivered, reporting>>

-----------------------------------------------------------------------------
\* A failed assertion: the receiver is gone, and with it the behaviour.
Running == jb.aborted = "no"
Abort(why) ==
    /\ jb' = [jb EXCEPT !.aborted = why]
    /\ UNCHANGED <<now, sender, env, net, losses, ran, settled, wakeAt, delivered>>

\* The receiver: one turn of the network thread's loop, after the packets (if
\* any) of this turn were consumed: NACKs, then frames, then the next timeout.
Loop(jb1, arrived, out) ==
    \E nacked \in {processNack(jb1, now)} :
    \E dequed \in {processDeque(nacked.jb, env.codec, now)} :
    LET nacks == sendNacks(nacked.nacks)
        timeout == getTimeoutMillis(dequed.jb, now, DefaultTimeout)
    IN IF dequed.jb.aborted # "no" THEN Abort(dequed.jb.aborted) ELSE
       /\ jb' = dequed.jb
       /\ net' = (net \ arrived) \cup {nacks[i] : i \in DOMAIN nacks} \cup out
       /\ delivered' = delivered \o dequed.frames
       /\ ran' = now
       /\ settled' = (arrived = {} /\ jb' = jb)
       /\ wakeAt' = now + (IF timeout < 0 THEN 0 ELSE timeout)
       /\ UNCHANGED <<now, sender, env, losses>>

\* The loop wakes up for a datagram.
ReceiveRtp(m) ==
    /\ Running /\ m \in net /\ m.kind = "rtp"
    /\ \E jb1 \in {consume(jb, env.codec, fromUdpPacket(m), now)} :
          IF jb1.aborted # "no" THEN Abort(jb1.aborted)
          ELSE Loop(jb1, {m}, {})
    /\ UNCHANGED reporting

\* The loop wakes up after its timeout.
LoopTimeout ==
    /\ Running /\ now >= wakeAt
    /\ ~(settled /\ ran = now)   \* one more turn would change nothing either
    /\ Loop(jb, {}, {}) /\ UNCHANGED reporting

-----------------------------------------------------------------------------
\* RTCP reports: PeerConnection::sendReports at either end, while it is connected,
\* and onReceivedControlPacket for what comes of it.

PublisherReports ==
    /\ now = pub.next
    /\ pub' = sendPublishReports(pub, now)
    /\ net' = net \cup SenderReports(pub, now) \cup Dlrr(pub, now)
    /\ UNCHANGED <<now, sender, env, losses, jb, ran, settled, wakeAt, delivered, sub>>

SubscriberReports ==
    /\ Running /\ now = sub.next
    /\ sub' = sendSubscribeReports(sub, now)
    /\ Loop(jb, {}, {ReceiverReport(sub, now)})
    /\ UNCHANGED pub

ReceiveFromSubscriber(m) ==
    /\ m \in net /\ m.kind = "rr"
    /\ pub' = onReceivedRtcpFromSubscriber(pub, m, now)
    /\ net' = net \ {m}
    /\ UNCHANGED <<now, sender, env, losses, jb, ran, settled, wakeAt, delivered, sub>>

ReceiveFromPublisher(m) ==
    /\ Running /\ m \in net /\ m.kind \in {"sr", "dlrr"}
    /\ sub' = onReceivedRtcpFromPublisher(sub, m, now)
    /\ Loop(jb, {m}, {})
    /\ UNCHANGED pub

-----------------------------------------------------------------------------
\* The network and the clock.

Lose(m) ==
    /\ Running /\ losses < env.losses
    /\ m \in net /\ (m.kind = "rtp" => ~m.rtx) /\ m.kind # "nack"
    /\ losses' = losses + 1
    /\ net' = net \ {m}
    /\ UNCHANGED <<now, sender, env, jb, ran, settled, wakeAt, delivered, reporting>>

LastFrameTime == FrameGap * (Len(Published) - 1)

\* Bound: time ends when the last frame has had the time to be delivered.
MaxTime == LastFrameTime + env.length + 2 * env.transit + NackDelay + 2

Tick ==
    /\ Running /\ now < MaxTime
    /\ now < wakeAt \/ (settled /\ ran = now)
    /\ ~PacerDue /\ now \notin {pub.next, sub.next}
    /\ sender.published < Len(Published) => now < FrameGap * sender.published
    /\ \A m \in net : now - m.sent < env.transit
    /\ now' = now + 1
    /\ UNCHANGED <<sender, env, net, losses, jb, ran, settled, wakeAt, delivered, reporting>>

Next ==
    \/ PublishFrame \/ PacerRun \/ LoopTimeout \/ Tick
    \/ PublisherReports \/ SubscriberReports
    \/ \E m \in net : \/ ReceiveNack(m) \/ ReceiveRtp(m) \/ Lose(m)
                      \/ ReceiveFromSubscriber(m) \/ ReceiveFromPublisher(m)

Spec == Init /\ [][Next]_vars

-----------------------------------------------------------------------------
\* Properties.

\* Every item of the range is in its slot, and the other slots are free, while slots
\* are used again and packets come that the ring has no room for.  The assertion that
\* a new packet finds its slot free fails for one packet only, the one mCapacity
\* behind the head: it is let in (jitter_buffer.cpp:224) and its slot is the head's.
RingExact ==
    LET range == jb.mMinSeq .. jb.mMaxSeq - 1
    IN /\ jb.started =>
             /\ \A s \in range : At(jb, s).seq = s
             /\ \A i \in DOMAIN jb.items :
                   jb.items[i] # NoItem => \E s \in range : Slot(jb, s) = i
       /\ jb.aborted = "slot" =>
             \E m \in net : /\ m.kind = "rtp"
                            /\ (fromUdpPacket(m).seq - jb.mMinSeq) % SeqRange
                                  = jb.mCapacity % SeqRange

\* Adjacent pieces of one unit are one piece.
Merge(pieces) ==
    FoldLeft(LAMBDA acc, q :
               LET k == Len(acc)
               IN IF acc # <<>> /\ acc[k].unit = q.unit /\ acc[k].from + acc[k].len = q.from
                  THEN [acc EXCEPT ![k].len = @ + q.len]
                  ELSE Append(acc, q),
             <<>>, pieces)

\* The parameter sets that are in force for the n-th frame.
ParamsFor(n) ==
    LET units == FoldLeft(LAMBDA us, k : us \o Published[k], <<>>, [k \in 1 .. n |-> k])
        csd == setCodecSpecificData(units)
        types == ParamTypes(env.codec)
    IN [i \in DOMAIN types |-> csd[types[i]]]

IsNalus == env.codec \in {"H264", "H265"}

\* Where a depacketizer sees the start of a frame of NALUs; delimiters and SEI may
\* come before it, and are sent as packets of their own.
StartOf(units) ==
    SelectInSeq(units, LAMBDA u : IsKeyFrameNalu(u) \/ (u.type = "SLICE" /\ u.first))
FromStart(units) == SubSeq(units, StartOf(units), Len(units))

\* The units of the n-th frame that are sent in its packets.
SentUnits(n) == SelectSeq(Published[n], LAMBDA u : ~IsParameterNalu(u) /\ u.type # "TD")

\* What the subscriber should be given for the n-th frame: its units from its start
\* on, a key frame behind the parameter sets.  Audio is cut off at the
\* largest payload.
Expected(n) ==
    LET units == SentUnits(n)
        key == \E i \in DOMAIN units : IsKeyFrameNalu(units[i])
        nalus == IF key THEN ParamsFor(n) \o FromStart(units) ELSE FromStart(units)
        all == IF IsNalus THEN nalus ELSE units
    IN [i \in DOMAIN all |->
          IF env.codec = "Opus" /\ all[i].size > kMaxPayloadSize
          THEN Piece(all[i], 0, kMaxPayloadSize) ELSE Whole(all[i])]

\* AV1 frames that do not survive the way.  A packet that ends one OBU and begins
\* another is read as one OBU (depacketizer_av1.cpp:128); the later pieces of an OBU
\* with layer ids claim a byte too many (packetizer_av1.cpp:168); a later packet with
\* a frame OBU is taken for a start (depacketizer_av1.cpp:203): the frame is abandoned,
\* or fails the assertion of its packets' kinds.
Misread(n) ==
    /\ env.codec = "AV1"
    /\ LET packets == AV1(Published[n], env)
       IN \E i \in DOMAIN packets :
            LET p == packets[i].payload
            IN \/ p.Z /\ Len(p.elems) > 1
               \/ \E j \in DOMAIN p.elems : p.elems[j].claim > p.elems[j].bytes
               \/ i > 1 /\ IsFrameStartAV1(p)

\* Frames of NALUs with a delimiter or SEI in front: the packet with the start is
\* joined to that packet (jitter_buffer.cpp:287), and nothing starts the frame.
LedIn(n) == IsNalus /\ StartOf(SentUnits(n)) > 1

\* Nothing comes out before the first key frame.
BeforeKey(n) ==
    IsNalus /\ \A k \in 1 .. n :
        LedIn(k) \/ ~IsKeyFrameNalu(SentUnits(k)[1])

\* The published frame that a delivered one comes from.
FrameOf(d) ==
    CHOOSE n \in DOMAIN Published :
        \E i \in DOMAIN Published[n], k \in DOMAIN d.data :
            Published[n][i] = d.data[k].unit /\ ~IsParameterNalu(d.data[k].unit)

\* What the subscriber is given is one published frame, all of it: the packets of
\* two frames are never mixed and no part is missing, the AV1 frames above apart.
WholeFrames ==
    \A k \in DOMAIN delivered :
        \E n \in 1 .. sender.published :
            \/ Merge(delivered[k].data) = Expected(n)
            \/ n = FrameOf(delivered[k]) /\ Misread(n)

\* The buffer is longer than a loss, its NACK and its retransmission take: the
\* next packet shows the gap, after the NACK delay the request goes out and the
\* packet comes back.
LongEnough == env.length >= Spread + NackDelay + 3 * env.transit

\* Frames come out in the order they were published, and when the buffer is long
\* enough a packet lost once is asked for, sent again and put in its place in time:
\* no frame between two delivered ones is missing.
FramesInOrder ==
    \A k \in 1 .. Len(delivered) - 1 :
        LET this == FrameOf(delivered[k])
            next == FrameOf(delivered[k + 1])
        IN this <= next /\ (LongEnough => \A n \in this + 1 .. next - 1 : Misread(n) \/ LedIn(n))

\* A packet older than the first one that arrived: it is never due, and nothing
\* behind it comes out (jitter_buffer.cpp:172).
Stalled ==
    \E s \in jb.mMinSeq .. jb.mMaxSeq - 1 : At(jb, s).received /\ At(jb, s).ts < jb.baseTs

\* Over a network that delays and reorders but loses nothing, every frame is
\* delivered, whole, however its packets were aggregated, fragmented and cut: unless
\* a packet of an earlier frame came after the first one and stalls the buffer, or it
\* is full.  A frame that starts behind a delimiter or SEI is not delivered, and none
\* before the first key frame that is.
LosslessDelivery ==
    (/\ now = MaxTime /\ losses = 0 /\ env.length > Spread + env.transit
     /\ ~Stalled /\ env.capacity >= Len(sender.history)) =>
        \A n \in DOMAIN Published :
            LET whole == \E k \in DOMAIN delivered : Merge(delivered[k].data) = Expected(n)
            IN Misread(n) \/ (whole <=> ~LedIn(n) /\ ~BeforeKey(n))

\* A video packet as it is sent first, with its header, extensions, padding and the
\* overhead of SRTP, takes up no more than kMaxPayloadSize bytes, whatever the frame's
\* size; at most one more when it begins with an AV1 OBU that has layer ids, since
\* packetizer_av1.cpp:101 reserves four bytes where five are written.  Audio is not
\* claimed: only its payload is cut off at that size.
FitsPacket ==
    env.codec # "Opus" =>
        \A i \in DOMAIN sender.history :
            LET p == sender.history[i]
                layered == env.codec = "AV1" /\ p.payload.elems[1].data.unit.layer
            IN p.wire <= kMaxPayloadSize + (IF layered THEN 1 ELSE 0)


\* The loop does not sleep past the time a missing packet should be asked for.
NacksOnTime ==
    jb.started /\ HasNack =>
        \A s \in jb.mMinSeq .. jb.mMaxSeq - 1 :
            ~At(jb, s).received /\ At(jb, s).nackNeeded => At(jb, s).request >= now

\* The packets from .. to of the ring are all of one frame.
Complete(from, to) ==
    \A s \in from .. to :
        /\ At(jb, s).received
        /\ At(jb, s).kind = (IF from = to THEN "Standalone" ELSE IF s = from THEN "Start"
                             ELSE IF s = to THEN "End" ELSE "Middle")

\* Once everything in the buffer is due, no complete frame is left in it, whatever is
\* missing before it (a buffer that is Stalled holds something that is not due).
NothingDueIsLeft ==
    LET range == jb.mMinSeq .. jb.mMaxSeq - 1
    IN (/\ jb.started /\ Running
        /\ \A s \in range : At(jb, s).received => At(jb, s).dequeue <= ran)
       => \A from, to \in range : from <= to => ~Complete(from, to)
=============================================================================
