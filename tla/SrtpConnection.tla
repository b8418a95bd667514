--------------------------- MODULE SrtpConnection ---------------------------
(***************************************************************************)
(* src/src/srtp_connection.cpp with one media channel (one ssrc and        *)
(* payload type) and one control channel (one ssrc), fed by the sequence   *)
(* numbers of src/src/rtp_packet_source.cpp and rtcp_packet_source.cpp     *)
(* over a network that loses, reorders and duplicates packets.             *)
(*                                                                         *)
(* A media packet only carries the low 16 bits of its index; both ends     *)
(* must agree on the rest, the rollover count, or decryption fails.        *)
(* Packets are named here by their full index n: the sender encrypts n     *)
(* with rollover n \div SeqCount.  A control packet carries its whole      *)
(* index, at a place that depends on the profile.                          *)
(***************************************************************************)
EXTENDS SrtpCrypto

CONSTANTS
    SeqCount,       \* sequence numbers, 2^16 in the code
    Size,           \* replay window, 2048 in the code
    Low, High,      \* the 0x1000 and 0xF000 of the rollover test
    FirstIndex,     \* index of the first packet sent
    LastIndex,      \* bound: index of the last packet sent
    MaxDelay,       \* bound: a packet is overtaken by fewer than this many
    MaxLoss,        \* the network never loses more than this many in a row
    MaxReconnects,  \* bound: times the connection is lost and restored
    IndexCount,     \* values of the control window, 2^32 in the code
    ControlSources, \* the RtcpPacketSources of the channel's ssrc
    MaxControl      \* bound: control packets of each source

ASSUME SrtpAssumption ==
    /\ SeqCount \in Nat /\ Size \in Nat \ {0} /\ MaxReconnects \in Nat
    /\ Size + Size \div 4 < SeqCount
    /\ Low \in Nat /\ High \in Nat
    /\ Low < High /\ High < SeqCount
    \* The window and the step it may take are narrow against the rollover test.
    /\ Size \div 4 <= Low /\ Size + Size \div 4 <= SeqCount - High
    /\ Size + Size \div 4 <= High - Low
    /\ FirstIndex \in 0..(SeqCount - 1)
    /\ LastIndex \in Nat /\ FirstIndex <= LastIndex
    \* No packet is late, and no loss long, by almost a whole lap.
    /\ MaxDelay \in Nat /\ MaxDelay + Size <= SeqCount
    /\ MaxLoss \in Nat /\ MaxLoss + Size <= SeqCount
    /\ IndexCount \in Nat /\ Size + Size \div 4 < IndexCount
    \* An SRTCP index has 31 bits, a value of the window 32.
    /\ MaxControl \in Nat /\ MaxControl + Size \div 4 < IndexCount

None == -1   \* an empty std::optional

VARIABLES
    mProfileId,     \* the SRTP profile that DTLS selected
    isSetupActive,  \* whether the peer, in its answer, made itself the DTLS client
    mAllocated, mCurMax, mStorage,  \* ChannelValue::replayProtection
    rolloverCount,   \* ChannelValue::rolloverCount
    lastSequence16,  \* ChannelValue::lastSequence16, or None
    nextIndex,       \* sender: index of the next packet
    delivered,       \* history: indexes decrypted since the channel was made
    reconnects,      \* history: calls of onPeerConnected after the first
    controlSent,     \* peer: RtcpPacketSource::mNextSequence of each source
    cAllocated, cCurMax, cStorage,  \* replayProtection of the control channel
    controlGot       \* history: <<source, index>> of the control packets accepted

channel == <<mAllocated, mCurMax, mStorage, rolloverCount, lastSequence16>>
control == <<controlSent, cAllocated, cCurMax, cStorage, controlGot>>
negotiated == <<mProfileId, isSetupActive>>
vars == <<negotiated, channel, nextIndex, delivered, reconnects, control>>

Seq16(n) == n % SeqCount
Roc(n) == n \div SeqCount

\* The replay window of the channel.  Its two history variables are the
\* receiver's rollover count and the packets that were really decrypted.
RP == INSTANCE ReplayProtection WITH
        MaxPossibleValue <- SeqCount - 1,
        MaxLap <- LastIndex,
        MaxAccepted <- LastIndex + 2,
        lap <- rolloverCount,
        accepted <- {<<Roc(n), Seq16(n)>> : n \in delivered}

\* The replay window of the control channel.
RC == INSTANCE ReplayProtection WITH
        MaxPossibleValue <- IndexCount - 1,
        MaxLap <- 0,
        MaxAccepted <- MaxControl,
        mAllocated <- cAllocated, mCurMax <- cCurMax, mStorage <- cStorage,
        lap <- 0,
        accepted <- controlGot

-----------------------------------------------------------------------------
\* Keys and packets.

\* SrtpConnection::create: the DTLS client's key material and the server's; the end
\* whose peer is active is the server.
create(profile, active) ==
    createCrypto(profile, IF active THEN "server" ELSE "client",
                          IF active THEN "client" ELSE "server")

Local == create(mProfileId, isSetupActive)

\* The peer has the other role.
Peer == create(mProfileId, ~isSetupActive)

\* Packets with and without a header extension; every packet has a payload.
MediaPacket(n) ==
    [header |-> [ssrc |-> "media", seq |-> Seq16(n), ext |-> IF n % 2 = 0 THEN NoExtension ELSE 1],
     payload |-> <<n>>, size |-> 1 + (n % 3)]

ControlPacket(source, i) == [ssrc |-> "control", body |-> <<source, i>>, size |-> 4 * i]

\* A peer may leave a control packet unencrypted.
PeerEncrypts(i) == i % 2 = 1

MediaWire(n) == protectSendMedia(Peer, MediaPacket(n), Roc(n))
ControlWire(source, i) == protectSendControl(Peer, ControlPacket(source, i), i, PeerEncrypts(i))

\* Mutated: the digest of a control packet is taken to be as long as that of media.
getControlSequenceNumberMediaDigest(wire) ==
    FromEnd(wire, IF mProfileId \in GCM THEN 4
                  ELSE 4 + getMediaProtectionOverhead(mProfileId))

\* getControlSequenceNumber: the trailer, whose index the caller takes.
getControlSequenceNumber(wire) ==
    FromEnd(wire, IF mProfileId \in GCM THEN 4 ELSE 4 + 10)

-----------------------------------------------------------------------------
\* The rollover estimate of unprotectReceiveMedia.

\* Mutated: only a rollover from the very last sequence number is seen.
CrossesForwardMissesEdge(seq) ==
    lastSequence16 # None /\ lastSequence16 >= SeqCount - 1 /\ seq <= Low

CrossesBack(seq) ==
    lastSequence16 # None /\ lastSequence16 <= Low /\ seq >= High

CrossesForward(seq) ==
    lastSequence16 # None /\ lastSequence16 >= High /\ seq <= Low

EstimatedRollover(seq) ==
    IF CrossesBack(seq) THEN (IF rolloverCount > 0 THEN rolloverCount - 1 ELSE 0)
    ELSE IF CrossesForward(seq) THEN rolloverCount + 1
    ELSE rolloverCount

\* Mutated: the new rollover is used but not stored.
TrackRolloverForgets(seq) ==
    /\ lastSequence16' = IF CrossesBack(seq) THEN lastSequence16 ELSE seq
    /\ UNCHANGED rolloverCount

\* lastSequence16 and rolloverCount are updated before the packet is
\* decrypted, so also by a packet that then fails to decrypt.
TrackRollover(seq) ==
    /\ rolloverCount' = IF ~CrossesBack(seq) /\ CrossesForward(seq)
                        THEN rolloverCount + 1 ELSE rolloverCount
    /\ lastSequence16' = IF CrossesBack(seq) THEN lastSequence16 ELSE seq

-----------------------------------------------------------------------------

Init ==
    /\ mProfileId \in Profiles /\ isSetupActive \in BOOLEAN
    /\ RP!rpInit
    /\ controlSent = [s \in ControlSources |-> 0]
    /\ RC!rpInit
    /\ controlGot = {}
    /\ rolloverCount = 0
    /\ lastSequence16 = None
    /\ nextIndex = FirstIndex
    /\ delivered = {}
    /\ reconnects = 0

\* Packets the network may still deliver, in any order and any number of times.
InFlight == {n \in FirstIndex..(nextIndex - 1) : nextIndex - n <= MaxDelay}

\* What the receiver makes of media packet n.
Unprotected(n) == unprotectReceiveMedia(Local, MediaWire(n), EstimatedRollover(Seq16(n)))

\* The two channels share nothing but the reset: media and control are explored one
\* at a time.

\* RtpPacketSource::getNextSequence.  The stream starts long before its first
\* rollover: the receiver's channel has seen a packet of the lap before it.  Of the
\* last MaxLoss packets one has arrived and was decrypted.
Send ==
    /\ nextIndex <= LastIndex
    /\ \A source \in ControlSources : controlSent[source] = 0
    /\ Seq16(nextIndex) = 0 => delivered # {}
    /\ delivered # {} => \E n \in delivered : nextIndex - n <= MaxLoss
    /\ nextIndex' = nextIndex + 1
    /\ UNCHANGED <<negotiated, channel, delivered, reconnects, control>>

\* unprotectReceiveMedia, success path.
ReceiveMedia(n) ==
    /\ n \in InFlight
    /\ RP!canProceed(Seq16(n))
    /\ Unprotected(n) # Refused
    /\ TrackRollover(Seq16(n))
    /\ RP!set(Seq16(n))
    /\ delivered' = delivered \cup {n}
    /\ UNCHANGED <<negotiated, nextIndex, reconnects, control>>

\* unprotectReceiveMedia, "Error decrypting media".
ReceiveUndecryptable(n) ==
    /\ n \in InFlight
    /\ RP!canProceed(Seq16(n))
    /\ Unprotected(n) = Refused
    /\ TrackRollover(Seq16(n))
    /\ UNCHANGED <<negotiated, mAllocated, mCurMax, mStorage, nextIndex, delivered, reconnects,
                   control>>

\* RtcpPacketSource::getNextSequence: the first index is 1.  Every source counts for
\* itself, also when two have the same ssrc.
SendControl(source) ==
    /\ controlSent[source] < MaxControl
    /\ nextIndex = FirstIndex
    /\ controlSent' = [controlSent EXCEPT ![source] = @ + 1]
    /\ UNCHANGED <<negotiated, channel, nextIndex, delivered, reconnects,
                   cAllocated, cCurMax, cStorage, controlGot>>

\* unprotectReceiveControl, for packet i of a source.  A packet that does not decrypt
\* changes nothing.
ReceiveControl(source, i) ==
    LET wire == ControlWire(source, i)
        index == getControlSequenceNumber(wire).index
    IN /\ i <= controlSent[source]
       /\ RC!canProceed(index)
       /\ unprotectReceiveControl(Local, wire) # Refused
       /\ RC!set(index)
       /\ controlGot' = controlGot \cup {<<source, index>>}
       /\ UNCHANGED <<negotiated, channel, nextIndex, delivered, reconnects, controlSent>>

\* SrtpConnection::onPeerConnected: mSrtpInMap.clear(); the next packet makes
\* a new ChannelValue in ensureSrtpChannel.
onPeerConnected ==
    /\ reconnects < MaxReconnects
    /\ reconnects' = reconnects + 1
    /\ mAllocated' = FALSE /\ cAllocated' = FALSE
    /\ mCurMax' = 0 /\ cCurMax' = 0
    /\ mStorage' = [b \in DOMAIN mStorage |-> FALSE]
    /\ cStorage' = [b \in DOMAIN cStorage |-> FALSE]
    /\ rolloverCount' = 0
    /\ lastSequence16' = None
    /\ delivered' = {} /\ controlGot' = {}
    /\ UNCHANGED <<negotiated, nextIndex, controlSent>>

Next ==
    \/ Send
    \/ \E n \in FirstIndex..LastIndex : ReceiveMedia(n) \/ ReceiveUndecryptable(n)
    \/ \E source \in ControlSources :
          SendControl(source) \/ \E i \in 1..MaxControl : ReceiveControl(source, i)
    \/ onPeerConnected

Spec == Init /\ [][Next]_vars

-----------------------------------------------------------------------------

\* The channel implements the replay window whose notion of "the same packet" is the
\* full index: rolloverCount moves exactly when the window rolls over, and set() is
\* never called for a packet that the window's own invariants do not cover.
ImplementsReplayWindow == RP!Spec

\* Every packet the replay window lets through is decrypted to what the peer sent,
\* whatever profile and DTLS roles were negotiated and whatever was lost, late or
\* duplicated around the rollover (the channel not having been reset: a reset forgets
\* the rollover count, and what comes after the first rollover is refused).
MediaReadable ==
    reconnects = 0 =>
        \A n \in InFlight :
            RP!canProceed(Seq16(n)) => Unprotected(n) = MediaPacket(n)

\* The index of a control packet is read from the right place, so a packet that is new
\* to the window is decrypted to what the peer sent, and of the packets that share an
\* index, and so an IV, one is accepted.
ControlReadable ==
    /\ \A source \in ControlSources : \A i \in 1..controlSent[source] :
          LET wire == ControlWire(source, i)
          IN /\ getControlSequenceNumber(wire) = Trailer(i, PeerEncrypts(i))
             /\ unprotectReceiveControl(Local, wire) = ControlPacket(source, i)
    /\ \A a, b \in controlGot : a[2] = b[2] => a = b
=============================================================================
