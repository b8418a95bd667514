---------------------------- MODULE SctpSession -----------------------------
(***************************************************************************)
(* Two SctpSession objects, src/src/sctp/sctp_session.cpp, that talk to    *)
(* each other over DTLS datagrams which may be lost or overtake each       *)
(* other.  (DTLS discards duplicated records; SCTP's own retransmissions   *)
(* still make the peer see the same chunk twice.)                          *)
(*                                                                         *)
(* ss[e] holds the fields of endpoint e's session under their names in     *)
(* sctp_session.h, and the queue that PeerCandidate keeps for messages     *)
(* whose channel is not open yet.  Handlers are operators that map a       *)
(* session to <<new session, packets sent, listener calls>>.  Sizes are    *)
(* counted in fragments of kMaxFragmentPayload bytes, verification tags    *)
(* are the endpoints' names, random and hence different.                   *)
(***************************************************************************)
EXTENDS DataChannelReceiveBuffer, SequencesExt

CONSTANTS
    A, B,                 \* the endpoints: A is the DTLS client
    TsnCount,             \* transmission sequence numbers, 2^32 in the code
    GapCount,             \* offsets of the gap blocks of a SACK, 2^16 in the code
    InitialTsn,           \* InitialTsn[e]: mInitialTsn, random in the code
    Labels,               \* Labels[e]: the data channels e is created with
    InitRwnd,             \* kInitRwnd, in fragments
    OutOfOrderCap,        \* 1024 in the code
    MaxInitRetransmits,   \* kMaxInitRetransmits, 8 in the code
    MaxMessageSize,       \* mMaxMessageSize, in fragments
    SendQueueCap,         \* PeerCandidate's limit on queued messages, 64 in the code
    Sizes,                \* message sizes the application uses, in fragments
    MaxMessages,          \* bound: MaxMessages[e], messages e's application sends
    MaxLosses,            \* bound: datagrams lost
    MaxPremature,         \* bound: timers that expire while datagrams are in flight
    ResetStreams,         \* streams that an external peer may ask to reset
    Destroyable           \* endpoints whose session may be destroyed

Endpoints == {A, B}
None == "none"   \* verification tag 0
Idle == -1       \* a timer that is not armed

ASSUME SctpAssumption ==
    /\ A # B /\ None \notin Endpoints
    /\ TsnCount \in Nat /\ TsnCount > 1 /\ GapCount \in Nat \ {0}
    /\ InitialTsn \in [Endpoints -> 0..(TsnCount - 1)]
    /\ \A n \in {InitRwnd, OutOfOrderCap, MaxInitRetransmits, MaxMessageSize,
                 SendQueueCap, MaxLosses, MaxPremature} : n \in Nat
    /\ Destroyable \subseteq Endpoints
    /\ Labels \in [Endpoints -> Seq(STRING)]
    /\ Sizes \subseteq Nat \ {0}

VARIABLES
    ss,        \* ss[e]: the session of endpoint e
    net,       \* datagrams in flight
    events,    \* history: events[e], the calls made to e's listener
    received,  \* history: received[e], TSNs of DATA that e's session processed
    queued,    \* history: queued[e], messages that e's application has sent
    losses,    \* history: datagrams lost
    premature  \* history: timers that expired while datagrams were in flight

vars == <<ss, net, events, received, queued, losses, premature>>

Peer(e) == IF e = A THEN B ELSE A

-----------------------------------------------------------------------------
\* Arithmetic on TSNs.

TsnAdd(t, n) == (t + n) % TsnCount

\* static_cast<int32_t>(a - b) <= 0
TsnAtOrBefore(a, b) == a = b \/ (a - b) % TsnCount >= TsnCount \div 2

-----------------------------------------------------------------------------
\* Datagrams.  tag is the verification tag, None standing for 0.

Init_(e)          == [to |-> Peer(e), tag |-> None, type |-> "INIT", from |-> e]
InitAck(e, tag)   == [to |-> Peer(e), tag |-> tag, type |-> "INIT_ACK", from |-> e]
CookieEcho(e)     == [to |-> Peer(e), tag |-> Peer(e), type |-> "COOKIE_ECHO"]
CookieAck(e, tag) == [to |-> Peer(e), tag |-> tag, type |-> "COOKIE_ACK"]
Data(e, s, chunk) == [to |-> Peer(e), tag |-> s.mPeerTag, type |-> "DATA", chunk |-> chunk]

\* onReceiveData drops a packet whose verification tag is not the one it
\* expects: 0 for INIT, its own otherwise.
TagAccepted(p) == p.tag = IF p.type = "INIT" THEN None ELSE p.to

-----------------------------------------------------------------------------
\* Sending DATA.

DataChannel(label, stream, state, buffer) ==
    [label |-> label, streamId |-> stream, state |-> state,
     receiveBuffer |-> buffer, sendSsn |-> 0]

\* Payloads(chunks)[i]: the payload of the first i chunks.
Payloads(chunks) ==
    LET sum[i \in 0..Len(chunks)] == IF i = 0 THEN 0 ELSE sum[i - 1] + chunks[i].size
    IN  sum

Payload(chunks) == Payloads(chunks)[Len(chunks)]

\* Mutated: the retransmission timer is not started for the first chunk.
TransmitWithoutTimer(s, chunks) ==
    [s EXCEPT !.mCurrentTsn = TsnAdd(@, Len(chunks)),
              !.mSentChunks = @ \o chunks,
              !.mFlightSize = @ + Payload(chunks)]

\* Appends chunks to mSentChunks and accounts for them; T3 is started when
\* nothing was outstanding.
Transmit(s, chunks) ==
    [s EXCEPT !.mCurrentTsn = TsnAdd(@, Len(chunks)),
              !.mSentChunks = @ \o chunks,
              !.mFlightSize = @ + Payload(chunks),
              !.t3Rtx = @ \/ s.mSentChunks = <<>>]

DataPackets(e, s, chunks) == {Data(e, s, c) : c \in ToSet(chunks)}

\* A DCEP message: one complete chunk with SSN 0.
DcepChunk(s, stream, kind, label) ==
    [tsn |-> s.mCurrentTsn, streamId |-> stream, ssn |-> 0, kind |-> kind,
     first |-> TRUE, last |-> TRUE, size |-> 1, data |-> label]

\* The first channel of that label, or 0.
ChannelByLabel(s, label) ==
    SelectInSeq(s.mDataChannels, LAMBDA ch : ch.label = label)

ChannelByStream(s, stream) ==
    SelectInSeq(s.mDataChannels, LAMBDA ch : ch.streamId = stream)

\* The fragments of msg on channel ch: consecutive TSNs, one SSN.
FragmentsOf(s, ch, msg) ==
    [f \in 1..msg.size |->
        [tsn |-> TsnAdd(s.mCurrentTsn, f - 1), streamId |-> ch.streamId,
         ssn |-> ch.sendSsn, kind |-> "user", first |-> f = 1,
         last |-> f = msg.size, size |-> 1, data |-> <<msg.id, f>>]]

\* sendMessageNow on the i-th channel.
sendMessageNow(e, s, i, msg) ==
    LET chunks == FragmentsOf(s, s.mDataChannels[i], msg)
        sent == [s EXCEPT !.mDataChannels[i].sendSsn = NextSsn(@)]
    IN  <<Transmit(sent, chunks), DataPackets(e, s, chunks)>>

FitsWindow(s, msg) == s.mFlightSize + msg.size <= s.mPeerRwnd

CanSendOn(s, label) ==
    LET i == ChannelByLabel(s, label)
    IN  i # 0 /\ s.mDataChannels[i].state = "kOpen"

isChannelOpen(s, label) ==
    \E i \in DOMAIN s.mDataChannels :
        s.mDataChannels[i].label = label /\ s.mDataChannels[i].state = "kOpen"

\* send(): the message is thrown away unless the association and the channel
\* are open and it is within the peer's limit; it waits in mPendingSend when it
\* does not fit the peer's window (an empty message always fits and is left out
\* of Sizes).  dropped is a history of what was thrown away.
send(e, s, msg) ==
    IF s.mState # "Established" \/ ~CanSendOn(s, msg.label)
          \/ (MaxMessageSize > 0 /\ msg.size > MaxMessageSize)
    THEN <<[s EXCEPT !.dropped = @ \cup {msg.id}], {}>>
    ELSE IF ~FitsWindow(s, msg)
    THEN <<[s EXCEPT !.mPendingSend = Append(@, msg)], {}>>
    ELSE sendMessageNow(e, s, ChannelByLabel(s, msg.label), msg)

\* One turn of the loop over mDataSendQueue; w is a session and its packets.
OpenStep(e, label, w, msg) ==
    LET r == send(e, w[1], msg)
    IN  IF msg.label = label THEN <<r[1], w[2] \cup r[2]>>
        ELSE <<[w[1] EXCEPT !.mDataSendQueue = Append(@, msg)], w[2]>>

\* OpenWalk(e, label, r, queue)[k]: the first k messages of the queue are looked at.
OpenWalk(e, label, r, queue) ==
    LET walk[k \in 0..Len(queue)] ==
            IF k = 0 THEN <<[r[1] EXCEPT !.mDataSendQueue = <<>>], r[2]>>
            ELSE OpenStep(e, label, walk[k - 1], queue[k])
    IN  walk

\* PeerCandidate::onSctpDataChannelOpen: passes the call on, then sends what was
\* queued for the channel and keeps the rest.
onSctpDataChannelOpen(e, r, label) ==
    LET queue == r[1].mDataSendQueue
        end == OpenWalk(e, label, r, queue)[Len(queue)]
    IN  <<end[1], end[2], <<<<"open", label>>>>>>

\* One turn of the loop of transmitPending; w.stop is its break.
PendingStep(e, w, msg) ==
    LET r == sendMessageNow(e, w.s, ChannelByLabel(w.s, msg.label), msg)
    IN  IF w.stop THEN w
        ELSE IF ~CanSendOn(w.s, msg.label)
        THEN [w EXCEPT !.s = [w.s EXCEPT !.mPendingSend = Tail(@)]]
        ELSE IF ~FitsWindow(w.s, msg) THEN [w EXCEPT !.stop = TRUE]
        ELSE [s |-> [r[1] EXCEPT !.mPendingSend = Tail(@)],
              out |-> w.out \cup r[2], stop |-> FALSE]

\* PendingWalk(e, s)[k]: after k turns.
PendingWalk(e, s) ==
    LET walk[k \in 0..Len(s.mPendingSend)] ==
            IF k = 0 THEN [s |-> s, out |-> {}, stop |-> FALSE]
            ELSE PendingStep(e, walk[k - 1], s.mPendingSend[k])
    IN  walk

\* transmitPending: from the front of the queue, until one does not fit.
\* Messages whose channel is gone are dropped.
transmitPending(e, s) ==
    LET end == PendingWalk(e, s)[Len(s.mPendingSend)]
    IN  <<end.s, end.out>>

-----------------------------------------------------------------------------
\* Receiving.

\* The offsets within the gap blocks that sendSack makes of the sorted offsets "full".
\* An offset is cut to 16 bits, and one joins the block of the one before it when it
\* then is the next one; a block that wraps around covers nothing.
GapOffsets(full) ==
    LET Joined(p, o) == /\ p < o /\ \A q \in full : ~(p < q /\ q < o)
                        /\ o % GapCount = (p + 1) % GapCount
        IsBlock(a, b) == /\ a <= b
                         /\ \A c \in full : a <= c /\ c < b => \E d \in full : Joined(c, d)
                         /\ \A c \in full : ~Joined(c, a) /\ ~Joined(b, c)
        Covered(a, b) == IF IsBlock(a, b) THEN (a % GapCount)..(b % GapCount) ELSE {}
    IN  UNION {Covered(a, b) : a \in full, b \in full}

\* sendSack: the cumulative TSN and gap blocks for what lies beyond it.
Sack(e, s) ==
    [to |-> Peer(e), tag |-> s.mPeerTag, type |-> "SACK",
     cumTsn |-> s.mPeerCumulativeTsn,
     gaps |-> GapOffsets({(t - s.mPeerCumulativeTsn) % TsnCount :
                              t \in s.mPeerOutOfOrderTsns})]

isDuplicate(s, tsn) ==
    TsnAtOrBefore(tsn, s.mPeerCumulativeTsn) \/ tsn \in s.mPeerOutOfOrderTsns

\* Mutated: the cumulative TSN jumps to the newest TSN, over the gap.
RecordTsnOverGap(s, tsn) == [s EXCEPT !.mPeerCumulativeTsn = tsn]

\* Advances the cumulative TSN over everything consecutive, or remembers the
\* TSN as out of order; beyond the cap the numerically lowest is forgotten.
RecordTsn(s, tsn) ==
    LET cum == s.mPeerCumulativeTsn
        ooo == s.mPeerOutOfOrderTsns
        run == {n \in 1..Cardinality(ooo) : \A i \in 1..n : TsnAdd(tsn, i) \in ooo}
        all == ooo \cup {tsn}
        lowest == CHOOSE t \in all : \A u \in all : t <= u
    IN  IF tsn = TsnAdd(cum, 1)
        THEN [s EXCEPT !.mPeerCumulativeTsn = TsnAdd(tsn, Cardinality(run)),
                       !.mPeerOutOfOrderTsns = @ \ {TsnAdd(tsn, i) : i \in run}]
        ELSE [s EXCEPT !.mPeerOutOfOrderTsns =
                            IF Cardinality(all) > OutOfOrderCap
                            THEN all \ {lowest} ELSE all]

\* The user-message branch of onReceiveDataChunk; data for an unknown stream is
\* dropped after having been acknowledged.
ReceiveUserData(s, c) ==
    LET i == ChannelByStream(s, c.streamId)
        ch == s.mDataChannels[i]
        r == receive(ch.receiveBuffer, c.ssn, c.first, c.last, FALSE, c.data)
    IN  IF i = 0 THEN <<s, {}, <<>>>>
        ELSE <<[s EXCEPT !.mDataChannels[i].receiveBuffer = r.buf], {},
               [n \in DOMAIN r.out |-> <<"message", ch.label, r.out[n]>>]>>

\* DCEP ACK: the first channel of the stream that is being opened is open now.
ReceiveDcepAck(e, s, c) ==
    LET i == SelectInSeq(s.mDataChannels,
                 LAMBDA ch : ch.streamId = c.streamId /\ ch.state = "kOpening")
    IN  IF i = 0 THEN <<s, {}, <<>>>>
        ELSE onSctpDataChannelOpen(e,
                <<[s EXCEPT !.mDataChannels[i].state = "kOpen",
                            !.mDataChannels[i].receiveBuffer = consumeSsn(@, c.ssn)],
                  {}>>, s.mDataChannels[i].label)

\* DCEP OPEN: a new channel in the list, and an ACK.
ReceiveDcepOpen(e, s, c) ==
    LET buffer == consumeSsn(NewReceiveBuffer, c.ssn)
        added == [s EXCEPT !.mDataChannels =
                      Append(@, DataChannel(c.data, c.streamId, "kOpen", buffer))]
        ack == <<DcepChunk(added, c.streamId, "ack", c.data)>>
    IN  onSctpDataChannelOpen(e,
            <<Transmit(added, ack), DataPackets(e, added, ack)>>, c.data)

onReceiveDataChunk(e, s, c) ==
    LET t == RecordTsn(s, c.tsn)
        r == CASE c.kind = "user" -> ReceiveUserData(t, c)
               [] c.kind = "ack"  -> ReceiveDcepAck(e, t, c)
               [] c.kind = "open" -> ReceiveDcepOpen(e, t, c)
               [] OTHER           -> <<t, {}, <<>>>>   \* any other protocol
    IN  IF isDuplicate(s, c.tsn) THEN <<s, {Sack(e, s)}, <<>>>>
        ELSE <<r[1], r[2] \cup {Sack(e, t)}, r[3]>>

AckedBy(c, p) ==
    \/ TsnAtOrBefore(c.tsn, p.cumTsn)
    \/ ((c.tsn - p.cumTsn) % TsnCount) % GapCount \in p.gaps

\* Mutated: only the cumulatively acknowledged chunks leave mFlightSize.
onReceiveSackLeaks(e, s, p) ==
    LET acked == SelectSeq(s.mSentChunks, LAMBDA c : AckedBy(c, p))
        left  == SelectSeq(s.mSentChunks, LAMBDA c : ~AckedBy(c, p))
        size  == Cardinality({c \in ToSet(acked) : TsnAtOrBefore(c.tsn, p.cumTsn)})
        t == [s EXCEPT !.mPeerRwnd = InitRwnd,
                       !.mSentChunks = left,
                       !.mFlightSize = IF @ >= size THEN @ - size ELSE 0,
                       !.t3Rtx = left # <<>> /\ (@ \/ acked # <<>>)]
        r == transmitPending(e, t)
    IN  IF acked = <<>> THEN <<t, {}, <<>>>> ELSE <<r[1], r[2], <<>>>>

\* Mutated: what waits for the window is not looked at again.
onReceiveSackForgetsPending(e, s, p) ==
    LET acked == SelectSeq(s.mSentChunks, LAMBDA c : AckedBy(c, p))
        left  == SelectSeq(s.mSentChunks, LAMBDA c : ~AckedBy(c, p))
        size  == Payload(acked)
    IN  <<[s EXCEPT !.mPeerRwnd = InitRwnd,
                    !.mSentChunks = left,
                    !.mFlightSize = IF @ >= size THEN @ - size ELSE 0,
                    !.t3Rtx = left # <<>> /\ (@ \/ acked # <<>>)], {}, <<>>>>

\* One turn of the loops over mSentChunks: an acknowledged chunk is taken out and
\* its payload leaves mFlightSize.
SackStep(p, w, c) ==
    IF AckedBy(c, p)
    THEN [left |-> w.left, acked |-> TRUE,
          flight |-> IF w.flight >= c.size THEN w.flight - c.size ELSE 0]
    ELSE [w EXCEPT !.left = Append(@, c)]

\* SackWalk(s, p)[i]: the first i chunks are looked at.
SackWalk(s, p) ==
    LET walk[i \in 0..Len(s.mSentChunks)] ==
            IF i = 0 THEN [left |-> <<>>, acked |-> FALSE, flight |-> s.mFlightSize]
            ELSE SackStep(p, walk[i - 1], s.mSentChunks[i])
    IN  walk

\* The new window, then everything acknowledged by the cumulative TSN or a gap
\* block leaves mSentChunks; T3 stops or starts over, and what waits is sent.
onReceiveSack(e, s, p) ==
    LET w == SackWalk(s, p)[Len(s.mSentChunks)]
        t == [s EXCEPT !.mPeerRwnd = InitRwnd,
                       !.mSentChunks = w.left,
                       !.mFlightSize = w.flight,
                       !.t3Rtx = w.left # <<>> /\ (@ \/ w.acked)]
        r == transmitPending(e, t)
    IN  IF ~w.acked THEN <<t, {}, <<>>>> ELSE <<r[1], r[2], <<>>>>

\* Outgoing SSN reset: closes the first channel of the stream and answers; the
\* answer is ignored by its receiver, so it is left out.
onReceiveReconfig(s, stream) ==
    LET i == ChannelByStream(s, stream)
    IN  IF i = 0 THEN <<s, {}, <<>>>>
        ELSE <<[s EXCEPT !.mDataChannels = RemoveAt(@, i)], {},
               <<<<"close", s.mDataChannels[i].label>>>>>>

-----------------------------------------------------------------------------
\* The four-way handshake.

sendInit(e, s, iteration) ==
    IF iteration > MaxInitRetransmits
    THEN <<[s EXCEPT !.t1Init = Idle], {}, <<>>>>
    ELSE <<[s EXCEPT !.mState = "CookieWait", !.t1Init = iteration + 1],
           {Init_(e)}, <<>>>>

\* Mutated: COOKIE_ECHO is sent once, without its timer.
sendCookieEchoOnce(e, s, iteration) == <<s, {CookieEcho(e)}, <<>>>>

sendCookieEcho(e, s, iteration) ==
    IF iteration > MaxInitRetransmits
    THEN <<[s EXCEPT !.t1Cookie = Idle], {}, <<>>>>
    ELSE <<[s EXCEPT !.t1Cookie = iteration + 1], {CookieEcho(e)}, <<>>>>

\* onReceiveInit takes over the peer's window and initial TSN in every state
\* and answers with a cookie.
onReceiveInit(e, s, p) ==
    <<[s EXCEPT !.mPeerRwnd = InitRwnd,
                !.mPeerCumulativeTsn = TsnAdd(InitialTsn[p.from], -1)],
      {InitAck(e, p.from)}, <<>>>>

onReceiveInitAck(e, s, p) ==
    IF s.mState # "CookieWait" THEN <<s, {}, <<>>>>
    ELSE sendCookieEcho(e, [s EXCEPT !.mPeerTag = p.from,
                                     !.mPeerRwnd = InitRwnd,
                                     !.mPeerCumulativeTsn = TsnAdd(InitialTsn[p.from], -1),
                                     !.t1Init = Idle,
                                     !.mState = "CookieEchoed"], 0)

\* The cookie carries the tag of the peer that sent INIT.  An expired cookie is
\* dropped, like a lost one.
onReceiveCookieEcho(e, s) == <<s, {CookieAck(e, Peer(e))}, <<>>>>

\* onAssociationEstablished: DCEP OPEN for every channel in the list.
onAssociationEstablished(e, s) ==
    LET opens == [i \in DOMAIN s.mDataChannels |->
                    [DcepChunk(s, s.mDataChannels[i].streamId, "open",
                               s.mDataChannels[i].label)
                        EXCEPT !.tsn = TsnAdd(@, i - 1)]]
        opening == [s EXCEPT !.mDataChannels =
                        [i \in DOMAIN @ |-> [@[i] EXCEPT !.state = "kOpening"]]]
    IN  IF opens = <<>> THEN <<s, {}, <<>>>>
        ELSE <<Transmit(opening, opens), DataPackets(e, s, opens), <<>>>>

onReceiveCookieAck(e, s) ==
    IF s.mState # "CookieEchoed" THEN <<s, {}, <<>>>>
    ELSE onAssociationEstablished(e, [s EXCEPT !.t1Cookie = Idle,
                                               !.mState = "Established"])

-----------------------------------------------------------------------------

\* isSetupActive decides the parity of the stream ids.
FirstStreamId(e) == IF e = A THEN 0 ELSE 1

NewSession(e) ==
    [mState |-> "New", mPeerTag |-> None, mPeerRwnd |-> 0,
     mCurrentTsn |-> InitialTsn[e], mPeerCumulativeTsn |-> 0,
     mPeerOutOfOrderTsns |-> {}, mSentChunks |-> <<>>, mPendingSend |-> <<>>,
     mDataSendQueue |-> <<>>, dropped |-> {}, mFlightSize |-> 0,
     t1Init |-> Idle, t1Cookie |-> Idle, t3Rtx |-> FALSE,
     mDataChannels |-> [i \in DOMAIN Labels[e] |->
         DataChannel(Labels[e][i], FirstStreamId(e) + 2 * (i - 1), "kNone",
                     NewReceiveBuffer)]]

Init ==
    /\ ss = [e \in Endpoints |-> NewSession(e)]
    /\ net = {}
    /\ events = [e \in Endpoints |-> <<>>]
    /\ received = [e \in Endpoints |-> {}]
    /\ queued = [e \in Endpoints |-> <<>>]
    /\ losses = 0
    /\ premature = 0

\* Takes over the outcome r of a handler run by endpoint e, in which the
\* datagrams gone were consumed.
Apply(e, r, gone) ==
    /\ ss' = [ss EXCEPT ![e] = r[1]]
    /\ net' = (net \ gone) \cup r[2]
    /\ events' = [events EXCEPT ![e] = @ \o r[3]]

\* DTLS has completed at this end and start() was called.
Alive(e) == ss[e].mState \notin {"New", "Destroyed"}

start(e) ==
    /\ ss[e].mState = "New"
    /\ Apply(e, sendInit(e, ss[e], 0), {})
    /\ UNCHANGED <<received, queued, losses, premature>>

\* A timer expires: when everything sent has been received or lost, or too
\* early, with answers still on their way.
Expires ==
    /\ net = {} \/ premature < MaxPremature
    /\ premature' = IF net = {} THEN premature ELSE premature + 1

T1Init(e) ==
    /\ Expires
    /\ ss[e].t1Init # Idle
    /\ Apply(e, sendInit(e, ss[e], ss[e].t1Init), {})
    /\ UNCHANGED <<received, queued, losses>>

T1Cookie(e) ==
    /\ Expires
    /\ ss[e].t1Cookie # Idle
    /\ Apply(e, sendCookieEcho(e, ss[e], ss[e].t1Cookie), {})
    /\ UNCHANGED <<received, queued, losses>>

\* retransmitOldest: sends the front chunk again and restarts the timer.
retransmitOldest(e) ==
    /\ Expires
    /\ ss[e].t3Rtx
    /\ LET s == ss[e]
       IN  IF s.mSentChunks = <<>>
           THEN Apply(e, <<[s EXCEPT !.t3Rtx = FALSE], {}, <<>>>>, {})
           ELSE Apply(e, <<s, {Data(e, s, Head(s.mSentChunks))}, <<>>>>, {})
    /\ UNCHANGED <<received, queued, losses>>

\* onReceiveData: verification tag, then the handler of the chunk.
Handle(e, s, p) ==
    IF ~TagAccepted(p) THEN <<s, {}, <<>>>>
    ELSE CASE p.type = "INIT" -> onReceiveInit(e, s, p)
           [] p.type = "INIT_ACK" -> onReceiveInitAck(e, s, p)
           [] p.type = "COOKIE_ECHO" -> onReceiveCookieEcho(e, s)
           [] p.type = "COOKIE_ACK" -> onReceiveCookieAck(e, s)
           [] p.type = "DATA" -> onReceiveDataChunk(e, s, p.chunk)
           [] p.type = "SACK" -> onReceiveSack(e, s, p)

onReceiveData(e, type) ==
    /\ Alive(e)
    /\ \E p \in net :
        /\ p.to = e /\ p.type = type
        /\ Apply(e, Handle(e, ss[e], p), {p})
        /\ received' = IF type = "DATA" /\ TagAccepted(p)
                       THEN [received EXCEPT ![e] = @ \cup {p.chunk.tsn}] ELSE received
    /\ UNCHANGED <<queued, losses, premature>>

\* A RECONFIG request of a peer that closes one of its streams.
ReceiveReconfig(e, stream) ==
    /\ Alive(e)
    /\ ChannelByStream(ss[e], stream) # 0
    /\ Apply(e, onReceiveReconfig(ss[e], stream), {})
    /\ UNCHANGED <<received, queued, losses, premature>>

\* PeerCandidate::sendDataChannelMessage: queued until the channel is open,
\* the oldest message giving way when the queue is full.
sendDataChannelMessage(e, label, size) ==
    /\ ss[e].mState # "Destroyed"
    /\ Len(queued[e]) < MaxMessages[e]
    /\ LET s == ss[e]
           msg == [id |-> Len(queued[e]) + 1, label |-> label, size |-> size]
           queue == Append(s.mDataSendQueue, msg)
           kept == IF Len(queue) > SendQueueCap THEN Tail(queue) ELSE queue
           r == send(e, s, msg)
       IN  /\ Apply(e, IF isChannelOpen(s, label)
                       THEN <<r[1], r[2], <<>>>>
                       ELSE <<[s EXCEPT !.mDataSendQueue = kept], {}, <<>>>>, {})
           /\ queued' = [queued EXCEPT ![e] = Append(@, msg)]
    /\ UNCHANGED <<received, losses, premature>>

\* CloseCalls(channels)[i]: the listener calls for the first i channels, of which
\* the open ones are closed.
CloseCalls(channels) ==
    LET calls[i \in 0..Len(channels)] ==
            IF i = 0 THEN <<>>
            ELSE IF channels[i].state = "kOpen"
                 THEN Append(calls[i - 1], <<"close", channels[i].label>>)
                 ELSE calls[i - 1]
    IN  calls

\* ~SctpSession: closes the open channels; the timers die with the scheduler.
Destroy(e) ==
    /\ e \in Destroyable /\ ss[e].mState # "Destroyed"
    /\ Apply(e, <<[NewSession(e) EXCEPT !.mState = "Destroyed"], {},
                  CloseCalls(ss[e].mDataChannels)[Len(ss[e].mDataChannels)]>>, {})
    /\ UNCHANGED <<received, queued, losses, premature>>

\* The network loses a datagram, or it reaches an endpoint without a session.
Lose(p) ==
    /\ losses < MaxLosses
    /\ net' = net \ {p}
    /\ losses' = losses + 1
    /\ UNCHANGED <<ss, events, received, queued, premature>>

Types == {"INIT", "INIT_ACK", "COOKIE_ECHO", "COOKIE_ACK", "DATA", "SACK"}
AllLabels == UNION {ToSet(Labels[e]) : e \in Endpoints}

Next ==
    \/ \E e \in Endpoints :
        \/ start(e) \/ T1Init(e) \/ T1Cookie(e) \/ retransmitOldest(e) \/ Destroy(e)
        \/ \E type \in Types : onReceiveData(e, type)
        \/ \E stream \in ResetStreams : ReceiveReconfig(e, stream)
        \/ \E label \in AllLabels, size \in Sizes : sendDataChannelMessage(e, label, size)
    \/ \E p \in net : Lose(p)

Spec == Init /\ [][Next]_vars

Waiting(e, type) == Alive(e) /\ \E p \in net : p.to = e /\ p.type = type
Arrives(e, type) == \E p \in net : p.to = e /\ p.type = type /\ p \notin net'

\* DTLS completes at both ends, datagrams do not wait for ever, and an armed
\* timer expires.  The scheduler runs a timer at its time whatever is in flight;
\* it is Expires that disables it now and then, hence the strong form.  The
\* condition on datagrams is WF_vars(onReceiveData(e, type)) written out, losses
\* being finite.  Applications, resets and losses are not forced.
Fairness ==
    \A e \in Endpoints :
        /\ WF_vars(start(e))
        /\ SF_vars(T1Init(e) \/ T1Cookie(e)) /\ SF_vars(retransmitOldest(e))
        /\ \A type \in Types :
              []<>(~Waiting(e, type)) \/ []<><<Arrives(e, type)>>_vars

FairSpec == Spec /\ Fairness

-----------------------------------------------------------------------------

SentTsns(e) == {c.tsn : c \in ToSet(ss[e].mSentChunks)}

\* TSNs that e has given to a chunk so far.
AssignedTsns(e) ==
    {TsnAdd(InitialTsn[e], n) :
        n \in 0..(((ss[e].mCurrentTsn - InitialTsn[e]) % TsnCount) - 1)}

\* A listener call that hands over a message, and the number of the message.
IsMessage(v) == v[1] = "message"
MessageId(v) == v[3][1][1]

\* mFlightSize is the payload of the chunks in mSentChunks: acknowledging by
\* the cumulative TSN and by gap blocks never counts a chunk twice, however
\* SACKs overtake each other, so the send window never leaks.
FlightMatchesSent ==
    \A e \in Endpoints :
        ss[e].mFlightSize = Payload(ss[e].mSentChunks)

\* T3 runs exactly while a chunk is unacknowledged: no order of sending,
\* acknowledging and expiring leaves a chunk that nothing will retransmit.
T3ArmedIffUnacked ==
    \A e \in Endpoints : ss[e].t3Rtx <=> ss[e].mSentChunks # <<>>

\* A chunk leaves mSentChunks only when the peer has processed it: no stale,
\* reordered or repeated SACK, and no restart of the handshake, acknowledges
\* data that never arrived.
AckedWasReceived ==
    \A e \in Endpoints :
        ss[e].mState # "Destroyed" =>
            (AssignedTsns(e) \ SentTsns(e)) \subseteq received[Peer(e)]

\* A listener gets the peer's messages in the order in which they were passed
\* to send, each at most once, although chunks are lost, repeated and overtake
\* each other and some messages wait for the window.  It is claimed for messages
\* of one size: send only compares a message with the room that is left, so a
\* smaller one does not queue behind a larger one that waits in mPendingSend.
InOrderOnce ==
    \A e \in Endpoints : \A i, j \in DOMAIN events[e] :
        i < j /\ IsMessage(events[e][i]) /\ IsMessage(events[e][j]) =>
            MessageId(events[e][i]) < MessageId(events[e][j])

\* A message that waits for the peer's window always has an unacknowledged chunk
\* ahead of it: transmitPending only runs when something is acknowledged, so a
\* message waiting behind nothing would wait for ever.
NoStrandedPending ==
    \A e \in Endpoints : ss[e].mPendingSend # <<>> => ss[e].mSentChunks # <<>>

\* Somebody ended the session or closed a stream.
TornDown == \E e \in Endpoints :
    ss[e].mState = "Destroyed" \/ \E i \in DOMAIN events[e] : events[e][i][1] = "close"

\* Both associations come up, although packets of the handshake are lost or sent
\* twice and both sides initiate at the same time.
HandshakeCompletes ==
    <>TornDown \/ <>[](\A e \in Endpoints : ss[e].mState = "Established")

\* Every channel opens at both ends and every chunk is acknowledged in the end;
\* no message stays queued for want of window.
EverythingAcknowledged ==
    \/ <>TornDown
    \/ <>[](\A e \in Endpoints :
            /\ ss[e].mSentChunks = <<>> /\ ss[e].mPendingSend = <<>>
            /\ \A l \in AllLabels : isChannelOpen(ss[e], l))

-----------------------------------------------------------------------------
\* What the comments and tests say, refuted by what the code does.

\* "SSN 0 consumed by DATA_CHANNEL_OPEN/ACK ... First user message at SSN 1 must
\* be delivered immediately": once every chunk is acknowledged, every message
\* sent on the open channel has reached the other listener.
AcknowledgedMeansDelivered ==
    \A e \in Endpoints :
        (ss[e].mSentChunks = <<>> /\ ss[e].mPendingSend = <<>>
                                  /\ ss[e].mDataSendQueue = <<>>) =>
            \A m \in DOMAIN queued[e] \ ss[e].dropped :
                \E v \in ToSet(events[Peer(e)]) : IsMessage(v) /\ MessageId(v) = m

=============================================================================
