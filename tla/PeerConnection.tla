--------------------------- MODULE PeerConnection ---------------------------
(***************************************************************************)
(* The life of one connection: PeerConnection, src/src/peer_connection.cpp,*)
(* and its PeerCandidates, src/src/peer_candidate.cpp.                     *)
(*                                                                         *)
(* Application threads call setOffer, setAnswer, publish*, send* and       *)
(* close under mMutex; everything else runs on the connection's worker     *)
(* thread, one handler per action.  setConnectionState changes the state   *)
(* under mMutex and calls the listener afterwards without it, so the       *)
(* application can act in between: toNotify is the call that is due.       *)
(*                                                                         *)
(* Timers count down in ticks; a task of the LoopScheduler runs when it    *)
(* has reached 0.  Offers and answers are those of module Sdp.             *)
(* mTaskKeepAliveTimeout does not occur: only onKeepAliveTimeout submits   *)
(* that task, and nothing else calls it.                                   *)
(***************************************************************************)
EXTENDS Sdp, FiniteSets

CONSTANTS
    Offers,         \* what the application offers
    Styles,         \* how the peer answers, see Sdp
    Candidates,     \* the hosts that answers name
    Family,         \* Family[c]: the address family of c
    ConnectTimeout, \* kConnectTimeout, 5000 ms
    LostTimeout,    \* kConnectionLostTimeout, 5000 ms
    AppThreads,     \* application threads that call close()
    MaxMessages,    \* bound: data channel messages sent
    MaxFrames,      \* bound: frames published or requested
    MaxTransactions,\* bound: STUN requests waiting for an answer
    PromptPeer      \* TRUE: the network loses nothing and the peer answers at once

ASSUME PeerAssumption ==
    /\ IsFiniteSet(Candidates) /\ Candidates # {} /\ None \notin Candidates
    /\ Family \in [Candidates -> {"IPv4", "IPv6"}]
    /\ \A offer \in Offers, style \in Styles :
          parse(offer, Answer(offer, style)).hostList \in Seq(Candidates)
    /\ \A offer \in Offers : \A i \in DOMAIN offer.media : validateMediaItem(offer.media[i])
    /\ MaxFrames \in Nat /\ MaxTransactions \in Nat \ {0}
    /\ ConnectTimeout \in Nat \ {0} /\ LostTimeout \in Nat \ {0}
    /\ MaxMessages \in Nat /\ PromptPeer \in BOOLEAN

Idle == -1       \* a task that is not scheduled

VARIABLES
    mDirection,
    mSdpOffer, mSdpAnswer,  \* <<>>, or the offer and the answer
    mIsStarted,
    mTrackEntryList,  \* the tracks of the answer, until the worker ends
    mDataChannelsNegotiated, mDataChannelMaxMessageSize,
    mIsQuit, mConnectionState,
    toNotify,         \* the state the listener is about to be told, or None
    lastTold,         \* history: the state the listener was told last
    thread,           \* where networkThreadWorkerFunc is
    mConnectingCandidateList, mSelectedCandidate,
    cand,             \* cand[c]: the PeerCandidate for host c
    jitterBuffers,    \* whether the tracks have jitter buffers
    mDataSendQueue,   \* data channel messages not yet taken by the worker
    mFrameSendQueue,  \* frames, and requests for key frames, not yet taken
    accepted,         \* history: number of messages accepted from the application
    handedOver,       \* history: messages passed to the selected candidate
    published,        \* history: number of frames accepted
    framesOut,        \* history: frames passed to the selected candidate
    closer            \* closer[t]: where thread t is in close()

negotiated == <<mDataChannelsNegotiated, mDataChannelMaxMessageSize>>
sdp == <<mDirection, mSdpOffer, mSdpAnswer, mIsStarted, negotiated>>
tracks == mTrackEntryList
conn == <<mIsQuit, mConnectionState, toNotify>>
candidates == <<mConnectingCandidateList, mSelectedCandidate, cand>>
messages == <<mDataSendQueue, accepted, handedOver>>
frames == <<mFrameSendQueue, published, framesOut>>
data == <<messages, frames>>
vars == <<sdp, tracks, conn, lastTold, thread, candidates, jitterBuffers, data, closer>>

LC == INSTANCE ConnectionLifecycle WITH state <- lastTold

Terminal == LC!Terminal

\* A candidate that does not exist (yet, or any more).
Gone ==
    [alive |-> FALSE, start |-> Idle, connectTimeout |-> Idle,
     lostTimeout |-> Idle, restoreTimeout |-> Idle, requesting |-> FALSE,
     transactions |-> 0, mSentUseCandidate |-> FALSE,
     mDtlsState |-> "Inactive", hasSsl |-> FALSE, mIsConnected |-> FALSE]

\* The hosts of a family start 100 ms, a tick, after one another, IPv4 and IPv6
\* side by side.
ConnectDelay(c) ==
    LET hosts == mSdpAnswer[1].hostList
        place == SelectInSeq(hosts, LAMBDA h : h = c)
    IN  Cardinality({i \in DOMAIN hosts : i < place /\ Family[hosts[i]] = Family[c]})

\* The constructor schedules startConnecting.
NewCandidate(c) == [Gone EXCEPT !.alive = TRUE, !.start = ConnectDelay(c)]

Init ==
    /\ mDirection \in {"Publish", "Subscribe"}
    /\ mSdpOffer = <<>> /\ mSdpAnswer = <<>> /\ mIsStarted = FALSE
    /\ mTrackEntryList = <<>>
    /\ mDataChannelsNegotiated = FALSE /\ mDataChannelMaxMessageSize = 0
    /\ mIsQuit = FALSE
    /\ mConnectionState = "Inactive" /\ lastTold = "Inactive"
    /\ toNotify = None
    /\ thread = "none"
    /\ mConnectingCandidateList = {} /\ mSelectedCandidate = None
    /\ cand = [c \in Candidates |-> Gone]
    /\ jitterBuffers = FALSE
    /\ mDataSendQueue = <<>> /\ accepted = 0 /\ handedOver = <<>>
    /\ mFrameSendQueue = <<>> /\ published = 0 /\ framesOut = <<>>
    /\ closer = [t \in AppThreads |-> "idle"]

-----------------------------------------------------------------------------
\* The connection state.

\* Mutated: a final state can be left.
setConnectionStateEscapes(state) ==
    IF mConnectionState = state THEN UNCHANGED conn
    ELSE /\ mConnectionState' = state
         /\ mIsQuit' = (mIsQuit \/ state = "Failed")
         /\ toNotify' = state

\* The part of setConnectionState under mMutex.
setConnectionState(state) ==
    IF mConnectionState = state \/ mConnectionState \in Terminal
    THEN UNCHANGED conn
    ELSE /\ mConnectionState' = state
         /\ mIsQuit' = (mIsQuit \/ state = "Failed")
         /\ toNotify' = state

\* The part under mListenerMutex, on the worker thread.
NotifyListener ==
    /\ toNotify # None
    /\ lastTold' = toNotify
    /\ toNotify' = None
    /\ UNCHANGED <<sdp, tracks, mIsQuit, mConnectionState, thread, candidates, jitterBuffers,
                   data, closer>>

-----------------------------------------------------------------------------
\* Application threads.

setOffer(offer) ==
    /\ offer.direction = mDirection
    /\ ~mIsQuit                       \* asserted by the code
    /\ mSdpOffer = <<>> /\ ~mIsStarted
    /\ Generable(offer)
    /\ mSdpOffer' = <<offer>>
    /\ UNCHANGED <<mDirection, mSdpAnswer, mIsStarted, negotiated, tracks,
                   conn, lastTold, thread, candidates, jitterBuffers, data, closer>>

\* Packetizer::make and Depacketizer::make know the codec.
CanMake(track) == isVideoCodec(track.codec) \/ isAudioCodec(track.codec)

\* parsePublishAnswer or parseSubscribeAnswer, then setAnswer.  They look at the
\* connection's direction only, so the answer may be to an offer of the other one.
\* It is kept without an offer, and when an error is returned; the tracks also when
\* only making a packetizer or depacketizer fails.  The thread starts only here.
setAnswer(offer, answer) ==
    LET paired == mSdpOffer # <<>> /\ mSdpOffer[1].direction = answer.direction
        both == mSdpOffer[1].data /\ answer.hasDataChannel
        starts == paired /\ \A i \in DOMAIN answer.trackList : CanMake(answer.trackList[i])
    IN  /\ ~mIsQuit                   \* asserted by the code
        /\ ~mIsStarted /\ mSdpAnswer = <<>>
        /\ mSdpOffer \in {<<>>, <<offer>>} \/ offer.direction # mDirection
        /\ ~answer.error
        /\ mSdpAnswer' = <<answer>>
        /\ mTrackEntryList' = IF paired THEN answer.trackList ELSE mTrackEntryList
        /\ mDataChannelsNegotiated' = IF paired THEN both ELSE mDataChannelsNegotiated
        /\ mDataChannelMaxMessageSize' =
               IF paired /\ both THEN Min({kSctpMaxMessageSize, answer.maxMessageSize})
               ELSE mDataChannelMaxMessageSize
        /\ mIsStarted' = starts
        /\ thread' = IF starts THEN "starting" ELSE thread
        /\ UNCHANGED <<mDirection, mSdpOffer, conn, lastTold, candidates, jitterBuffers,
                       data, closer>>

\* sendDataChannelText and sendDataChannelBinary; a maximum of 0 is no limit.
sendDataChannel(size) ==
    /\ mDataChannelsNegotiated
    /\ mDataChannelMaxMessageSize > 0 => size <= mDataChannelMaxMessageSize
    /\ accepted < MaxMessages
    /\ accepted' = accepted + 1
    /\ mDataSendQueue' = Append(mDataSendQueue, accepted + 1)
    /\ UNCHANGED <<sdp, tracks, conn, lastTold, thread, candidates, jitterBuffers, handedOver,
                   frames, closer>>

\* publishVideoFrame, publishAudioFrame, setVideoCodecSpecificData and
\* updateVideoSimulcastLayer of a publisher, requestPictureLossIndicator of a
\* subscriber.  Anything but a connected state swallows the call.
QueueFrame(t) ==
    /\ mConnectionState = "Connected" /\ t \in DOMAIN mTrackEntryList
    /\ published < MaxFrames
    /\ published' = published + 1
    /\ mFrameSendQueue' = Append(mFrameSendQueue, published + 1)
    /\ UNCHANGED <<sdp, tracks, conn, lastTold, thread, candidates, jitterBuffers, messages,
                   framesOut, closer>>

ThreadTaken == \E t \in AppThreads : closer[t] \in {"joining", "joined"}

\* Mutated: returns without waiting for the worker thread.
closeNoJoin(t) ==
    /\ closer[t] = "idle"
    /\ mIsQuit' = (mIsQuit \/ mIsStarted)
    /\ closer' = [closer EXCEPT ![t] = IF mIsStarted /\ ~ThreadTaken
                                       THEN "joined" ELSE "returned"]
    /\ UNCHANGED <<sdp, tracks, mConnectionState, toNotify, lastTold, thread, candidates,
                   jitterBuffers, data>>

\* Mutated: joins the thread without telling it to stop.
closeNoQuit(t) ==
    /\ closer[t] = "idle"
    /\ closer' = [closer EXCEPT ![t] = IF mIsStarted /\ ~ThreadTaken
                                       THEN "joining" ELSE "returned"]
    /\ UNCHANGED <<sdp, tracks, conn, lastTold, thread, candidates, jitterBuffers, data>>

\* close() up to the join: the caller that finds mThread joins it, any other
\* returns at once.
close(t) ==
    /\ closer[t] = "idle"
    /\ mIsQuit' = (mIsQuit \/ mIsStarted)
    /\ closer' = [closer EXCEPT ![t] = IF mIsStarted /\ ~ThreadTaken
                                       THEN "joining" ELSE "returned"]
    /\ UNCHANGED <<sdp, tracks, mConnectionState, toNotify, lastTold, thread, candidates,
                   jitterBuffers, data>>

closeJoined(t) ==
    /\ closer[t] = "joining" /\ thread = "exited"
    /\ closer' = [closer EXCEPT ![t] = "joined"]
    /\ UNCHANGED <<sdp, tracks, conn, lastTold, thread, candidates, jitterBuffers, data>>

-----------------------------------------------------------------------------
\* The worker thread: beginning and end.

\* startConnecting, up to its listener call ...
StartThread ==
    /\ thread = "starting"
    /\ thread' = "creating"
    /\ setConnectionState("Connecting")
    /\ UNCHANGED <<sdp, tracks, lastTold, candidates, jitterBuffers, data, closer>>

\* ... and the rest: one candidate for every host.
startConnecting ==
    /\ thread = "creating" /\ toNotify = None
    /\ thread' = "running"
    /\ mFrameSendQueue' = <<>>
    /\ mConnectingCandidateList' = ToSet(mSdpAnswer[1].hostList)
    /\ cand' = [c \in Candidates |-> IF c \in ToSet(mSdpAnswer[1].hostList)
                                     THEN NewCandidate(c) ELSE Gone]
    /\ UNCHANGED <<sdp, tracks, conn, lastTold, mSelectedCandidate, jitterBuffers, messages,
                   published, framesOut, closer>>

\* The loop runs handlers one at a time; it is in no listener call.
Running == thread = "running" /\ toNotify = None

\* The loop stops at its next look at mIsQuit and mConnectionState.
Quitting == mIsQuit \/ mConnectionState \in Terminal

ExitLoop ==
    /\ Running /\ Quitting
    /\ thread' = "exiting"
    /\ mConnectingCandidateList' = {} /\ mSelectedCandidate' = None
    /\ cand' = [c \in Candidates |-> Gone]
    /\ jitterBuffers' = FALSE /\ mTrackEntryList' = <<>>
    /\ setConnectionState("Closed")
    /\ UNCHANGED <<sdp, lastTold, data, closer>>

ThreadExit ==
    /\ thread = "exiting" /\ toNotify = None
    /\ thread' = "exited"
    /\ UNCHANGED <<sdp, tracks, conn, lastTold, candidates, jitterBuffers, data, closer>>

\* Mutated: the queue is emptied although there is nobody to pass it to.
TakenMessagesAlways == mDataSendQueue

\* Messages wait until there is a candidate to send them.
TakenMessages == IF mSelectedCandidate = None THEN <<>> ELSE mDataSendQueue

\* The loop takes the queues and passes them to the selected candidate.  Frames
\* are taken whether there is one or not.
PassOn ==
    /\ Running /\ ~Quitting
    /\ TakenMessages # <<>> \/ mFrameSendQueue # <<>>
    /\ mDataSendQueue' = IF TakenMessages = <<>> THEN mDataSendQueue ELSE <<>>
    /\ mFrameSendQueue' = <<>>
    /\ handedOver' = IF mSelectedCandidate = None THEN handedOver
                     ELSE handedOver \o TakenMessages
    /\ framesOut' = IF mSelectedCandidate = None THEN framesOut
                    ELSE framesOut \o mFrameSendQueue
    /\ UNCHANGED <<sdp, tracks, conn, lastTold, thread, candidates, jitterBuffers, accepted,
                   published, closer>>

-----------------------------------------------------------------------------
\* What PeerConnection does when a candidate reports.  k is the candidate's new
\* record.

Update(c, k) == cand' = [cand EXCEPT ![c] = k]

\* Mutated: the other candidates go on connecting.
onCandidateIceConnectedKeepsOthers(c, k) ==
    /\ mSelectedCandidate' = c
    /\ mConnectingCandidateList' = mConnectingCandidateList \ {c}
    /\ Update(c, k)

\* The candidate is selected; the others are destroyed, with their tasks.
onCandidateIceConnected(c, k) ==
    /\ mSelectedCandidate' = IF c \in mConnectingCandidateList THEN c ELSE mSelectedCandidate
    /\ mConnectingCandidateList' = {}
    /\ cand' = [d \in Candidates |->
                    IF d = c THEN k
                    ELSE IF d \in mConnectingCandidateList THEN Gone ELSE cand[d]]

onCandidateConnecting ==
    /\ setConnectionState("Connecting")
    /\ jitterBuffers' = FALSE

onCandidateDtlsConnected ==
    /\ setConnectionState("Connected")
    /\ jitterBuffers' = (mDirection = "Subscribe")

onCandidateDtlsDisconnected(c, graceful) ==
    IF mSelectedCandidate = c
    THEN setConnectionState(IF graceful THEN "Closed" ELSE "Failed")
    ELSE UNCHANGED conn

\* A candidate that is still connecting is destroyed; when none is left, or the
\* candidate was already the selected one, the connection has failed.
onCandidateFailedToConnect(c, k) ==
    /\ mConnectingCandidateList' = mConnectingCandidateList \ {c}
    /\ Update(c, IF c \in mConnectingCandidateList THEN Gone ELSE k)
    /\ IF mConnectingCandidateList \ {c} = {}
       THEN setConnectionState("Failed") ELSE UNCHANGED conn
    /\ UNCHANGED <<mSelectedCandidate, jitterBuffers>>

-----------------------------------------------------------------------------
\* The handlers of a candidate.

Handler(c) ==
    /\ Running /\ cand[c].alive
    /\ UNCHANGED <<sdp, tracks, lastTold, thread, data, closer>>

\* onReceivedFromRemote: the peer lives.  The first time, and after a loss, the
\* connection is reported and jitter buffers are made.
onReceivedFromRemote(c, k) ==
    /\ Update(c, [k EXCEPT !.lostTimeout = LostTimeout,
                           !.connectTimeout = Idle, !.restoreTimeout = Idle,
                           !.mIsConnected = TRUE])
    /\ IF k.mIsConnected THEN UNCHANGED <<conn, jitterBuffers>>
       ELSE onCandidateDtlsConnected
    /\ UNCHANGED <<mConnectingCandidateList, mSelectedCandidate>>

\* IceAgent: a request is remembered until it is answered or has expired.
Requested(k) == [k EXCEPT !.transactions = Min({@ + 1, MaxTransactions})]

\* PeerCandidate::startConnecting, after its delay.
startCandidate(c) ==
    /\ Handler(c)
    /\ cand[c].start = 0
    /\ Update(c, Requested([cand[c] EXCEPT !.start = Idle, !.connectTimeout = ConnectTimeout,
                                           !.requesting = TRUE]))
    /\ onCandidateConnecting
    /\ UNCHANGED <<mConnectingCandidateList, mSelectedCandidate>>

\* sendStunBindingRequest and sendStunBindingResponse repeat until DTLS talks.
RepeatStunRequest(c) ==
    /\ Handler(c)
    /\ cand[c].requesting /\ cand[c].transactions < MaxTransactions
    /\ Update(c, Requested(cand[c]))
    /\ UNCHANGED <<conn, jitterBuffers, mConnectingCandidateList, mSelectedCandidate>>

\* forgetExpiredTransactions: requests or answers were lost.
forgetExpiredTransactions(c, n) ==
    /\ Handler(c) /\ ~PromptPeer
    /\ n < cand[c].transactions
    /\ Update(c, [cand[c] EXCEPT !.transactions = n])
    /\ UNCHANGED <<conn, jitterBuffers, mConnectingCandidateList, mSelectedCandidate>>

\* The request whose answer has come.
forgetTransaction(k) == [k EXCEPT !.transactions = @ - 1]

\* What is wrong with an answer of the peer, if anything.
Faults == IF PromptPeer THEN {None} ELSE {None, "errorCode", "fingerprint", "integrity"}

verifyResponseMessage(fault) == fault \notin {"fingerprint", "integrity"}

\* The first good answer: the candidate is chosen and asks again, with
\* USE-CANDIDATE.  Later ones are a sign of life once DTLS is up.
onVerifiedResponse(c, k) ==
    IF ~k.mSentUseCandidate
    THEN /\ onCandidateIceConnected(c, Requested([k EXCEPT !.mSentUseCandidate = TRUE,
                                                           !.mDtlsState = "Activating"]))
         /\ UNCHANGED <<conn, jitterBuffers>>
    ELSE IF k.mDtlsState = "Completed" THEN onReceivedFromRemote(c, k)
    ELSE /\ Update(c, k)
         /\ UNCHANGED <<conn, jitterBuffers, mConnectingCandidateList, mSelectedCandidate>>

\* The STUN_RESPONSE branch of onReceivedStunMessage.  The transaction is
\* forgotten before the answer is verified.
onReceivedStunMessage(c, fault) ==
    /\ Handler(c)
    /\ cand[c].transactions > 0
    /\ LET k == forgetTransaction(cand[c])
       IN  IF fault # "errorCode" /\ verifyResponseMessage(fault)
           THEN onVerifiedResponse(c, k)
           ELSE /\ Update(c, k)
                /\ UNCHANGED <<conn, jitterBuffers, mConnectingCandidateList,
                               mSelectedCandidate>>

\* The end of run(): the SSL object is made, unless the private key is invalid.
PrepareDtls(c, keyOk) ==
    /\ Handler(c)
    /\ cand[c].mDtlsState = "Activating" /\ ~cand[c].hasSsl
    /\ IF keyOk
       THEN /\ Update(c, [cand[c] EXCEPT !.hasSsl = TRUE])
            /\ UNCHANGED <<conn, jitterBuffers, mConnectingCandidateList,
                           mSelectedCandidate>>
       ELSE onCandidateFailedToConnect(c, [cand[c] EXCEPT !.mDtlsState = "Failed"])

\* onReceivedDtlsMessage during the handshake, which goes on, completes (with
\* the certificate of the answer) or fails.
DtlsHandshake(c, outcome) ==
    /\ Handler(c)
    /\ cand[c].mDtlsState = "Activating" /\ cand[c].hasSsl
    /\ LET k == [cand[c] EXCEPT !.requesting = FALSE]
       IN  CASE outcome = "wantRead" ->
                  /\ Update(c, k)
                  /\ UNCHANGED <<conn, jitterBuffers, mConnectingCandidateList,
                                 mSelectedCandidate>>
             [] outcome = "success" ->
                  onReceivedFromRemote(c, [k EXCEPT !.mDtlsState = "Completed"])
             [] outcome = "error" ->
                  onCandidateFailedToConnect(c, [k EXCEPT !.mDtlsState = "Failed",
                                                          !.hasSsl = FALSE,
                                                          !.connectTimeout = Idle])

\* onReceivedDtlsMessage afterwards: close_notify, or an error.
DtlsDisconnected(c, graceful) ==
    /\ Handler(c)
    /\ cand[c].mDtlsState = "Completed"
    /\ onCandidateDtlsDisconnected(c, graceful)
    /\ Update(c, [cand[c] EXCEPT !.requesting = FALSE])
    /\ UNCHANGED <<jitterBuffers, mConnectingCandidateList, mSelectedCandidate>>

\* onReceivedMediaPacket and onReceivedControlPacket: mSrtpConnection exists.
ReceiveRtc(c) ==
    /\ Handler(c)
    /\ cand[c].mDtlsState = "Completed"
    /\ onReceivedFromRemote(c, cand[c])

\* The task of startConnecting and onConnectionLostTimeout.
ConnectTimeoutExpired(c) ==
    /\ Handler(c)
    /\ cand[c].connectTimeout = 0
    /\ onCandidateFailedToConnect(c, [cand[c] EXCEPT !.connectTimeout = Idle])

\* Mutated: no time limit for getting the connection back.
onConnectionLostTimeoutNoLimit(c) ==
    /\ Handler(c)
    /\ cand[c].lostTimeout = 0
    /\ Update(c, Requested([cand[c] EXCEPT !.lostTimeout = Idle, !.mIsConnected = FALSE,
                                           !.restoreTimeout = ConnectTimeout]))
    /\ onCandidateConnecting
    /\ UNCHANGED <<mConnectingCandidateList, mSelectedCandidate>>

\* Nothing came from the peer: back to connecting, and ask whether it lives.
onConnectionLostTimeout(c) ==
    /\ Handler(c)
    /\ cand[c].lostTimeout = 0
    /\ Update(c, Requested([cand[c] EXCEPT !.lostTimeout = Idle, !.mIsConnected = FALSE,
                                           !.connectTimeout = ConnectTimeout,
                                           !.restoreTimeout = ConnectTimeout]))
    /\ onCandidateConnecting
    /\ UNCHANGED <<mConnectingCandidateList, mSelectedCandidate>>

\* sendConnectionRestoreRequest again.  The connect timeout was submitted first
\* with the same delay, so it runs first.
RestoreTimeoutExpired(c) ==
    /\ Handler(c)
    /\ cand[c].restoreTimeout = 0 /\ cand[c].connectTimeout # 0
    /\ Update(c, Requested([cand[c] EXCEPT !.restoreTimeout = ConnectTimeout]))
    /\ UNCHANGED <<conn, jitterBuffers, mConnectingCandidateList, mSelectedCandidate>>

-----------------------------------------------------------------------------
\* Time.

Timers(c) == {cand[c].start, cand[c].connectTimeout, cand[c].lostTimeout,
              cand[c].restoreTimeout}

Less(t) == IF t = Idle THEN Idle ELSE t - 1

\* A tick passes when no task is due and the loop is not about to stop.
Tick ==
    /\ Running /\ ~Quitting
    /\ \A c \in Candidates : 0 \notin Timers(c)
    /\ PromptPeer => \A c \in Candidates : cand[c].transactions = 0
    /\ cand' = [c \in Candidates |->
                  [cand[c] EXCEPT !.start = Less(@), !.connectTimeout = Less(@),
                                  !.lostTimeout = Less(@), !.restoreTimeout = Less(@)]]
    /\ UNCHANGED <<sdp, tracks, conn, lastTold, thread, mConnectingCandidateList,
                   mSelectedCandidate, jitterBuffers, data, closer>>

-----------------------------------------------------------------------------

TimerStep(c) ==
    \/ startCandidate(c) \/ ConnectTimeoutExpired(c)
    \/ onConnectionLostTimeout(c) \/ RestoreTimeoutExpired(c)

Outcomes == {"wantRead", "success", "error"}

PacketStep(c) ==
    \/ RepeatStunRequest(c)
    \/ \E n \in 0..MaxTransactions : forgetExpiredTransactions(c, n)
    \/ \E fault \in Faults : onReceivedStunMessage(c, fault)
    \/ \E ok \in BOOLEAN : PrepareDtls(c, ok) \/ DtlsDisconnected(c, ok)
    \/ \E outcome \in Outcomes : DtlsHandshake(c, outcome)
    \/ ReceiveRtc(c)

WorkerStep ==
    NotifyListener \/ StartThread \/ startConnecting \/ ExitLoop \/ ThreadExit

MessageSizes == {1, kSctpMaxMessageSize + 1}

AppStep ==
    \/ \E offer \in Offers :
          \/ setOffer(offer)
          \/ \E style \in Styles : setAnswer(offer, parse(offer, Answer(offer, style)))
    \/ \E size \in MessageSizes : sendDataChannel(size)
    \/ \E t \in DOMAIN mTrackEntryList : QueueFrame(t)
    \/ \E t \in AppThreads : close(t) \/ closeJoined(t)

Next ==
    \/ AppStep \/ WorkerStep \/ PassOn \/ Tick
    \/ \E c \in Candidates : TimerStep(c) \/ PacketStep(c)

Spec == Init /\ [][Next]_vars

\* The worker thread is scheduled, listeners return, due tasks run and time
\* passes.  Nothing is assumed of the application, the peer or the network.
Fairness ==
    /\ WF_vars(WorkerStep) /\ WF_vars(PassOn) /\ WF_vars(Tick)
    /\ \A c \in Candidates : WF_vars(TimerStep(c))
    /\ \A t \in AppThreads : WF_vars(closeJoined(t))

FairSpec == Spec /\ Fairness

-----------------------------------------------------------------------------

\* Whatever the peer takes of the offer, and however it orders its lines, the
\* tracks of a started connection are the ones that were offered: each has a
\* codec, payload and RTX payload of its own media section, and no two share an
\* SSRC.  A publisher sends on the SSRCs it announced for the section (on SSRC 0,
\* which it did not announce, when the peer declines an offered simulcast), a
\* subscriber listens to the ones the peer announced for it.
TracksAsOffered ==
    mTrackEntryList # <<>> =>
    LET sections == generate(mSdpOffer[1]) IN
    \A t \in DOMAIN mTrackEntryList :
        LET track == mTrackEntryList[t]
            i == SelectInSeq(sections, LAMBDA s : s.mediaId = track.media)
            formats == ToSet(sections[i].formats)
        IN  /\ \E f \in formats : f.pt = track.payloadId /\ f.codec = track.codec
                                 /\ f.profile = track.profile
            /\ track.rtxPayloadId # 0 =>
                 \E f \in formats : f.pt = track.rtxPayloadId /\ f.apt = track.payloadId
            /\ IF mDirection = "Subscribe"
               THEN track.ssrc = PeerSsrc(i) /\ track.rtxSsrc \in {0, PeerSsrc(i) + 1}
               ELSE IF track.layer = None
               THEN track.ssrc = sections[i].ssrc /\ track.rtxSsrc \in {0, sections[i].rtx}
               ELSE \E layer \in ToSet(sections[i].layer) :
                      layer = [name |-> track.layer, ssrc |-> track.ssrc, rtx |-> track.rtxSsrc]
            /\ \A u \in DOMAIN mTrackEntryList \ {t} : mTrackEntryList[u].ssrc # track.ssrc

\* Every candidate that is alive is either in the connecting list or the selected
\* one, and while one is selected no other can still report that it connects,
\* connected or failed.
OneVoice ==
    \A c \in Candidates :
        cand[c].alive <=> \/ mSelectedCandidate = c
                          \/ mSelectedCandidate = None /\ c \in mConnectingCandidateList

\* onCandidateReceivedMediaPacket uses trackEntry.jitterBuffer without looking:
\* the jitter buffers exist from the moment a candidate counts as connected
\* until it no longer does, also when a late start, a loss or a reconnection
\* comes in between.
JitterBuffersWhileConnected ==
    \A c \in Candidates : mDirection = "Subscribe" /\ cand[c].mIsConnected => jitterBuffers

\* While the connection is being made, a task is scheduled that will end the
\* attempt, and while it stands, one that will notice its loss.
WatchdogArmed ==
    (thread = "running" /\ ~Quitting) =>
        \/ /\ mConnectionState = "Connecting"
           /\ \E c \in Candidates : cand[c].start # Idle \/ cand[c].connectTimeout # Idle
        \/ /\ mConnectionState = "Connected"
           /\ cand[mSelectedCandidate].lostTimeout # Idle

\* When close() has joined the worker thread nothing is left of the connection:
\* no candidate, no listener call still to come, and a final state.
QuietAfterJoin ==
    (\E t \in AppThreads : closer[t] = "joined") =>
        /\ \A c \in Candidates : ~cand[c].alive
        /\ toNotify = None /\ lastTold \in Terminal

\* Data channel messages and frames that the application was told were accepted
\* stay in order and are not lost between the threads, whether messages are sent
\* before or after a candidate is selected; the frame queue, which the loop
\* takes unconditionally, never holds a frame that nobody can send.
NoMessageLost ==
    /\ handedOver \o mDataSendQueue = [i \in 1..accepted |-> i]
    /\ framesOut \o mFrameSendQueue = [i \in 1..published |-> i]

\* What the listener sees is the life of a connection: no final state is left or
\* preceded by nothing, and "If the re-connection fails, so will the overall
\* connection state", so connecting always ends.
ImplementsLifecycle == LC!Spec

\* close() returns, whatever the peer, the network and the timers do.
CloseReturns == \A t \in AppThreads : closer[t] = "joining" ~> closer[t] = "joined"

-----------------------------------------------------------------------------
\* What the documentation says, refuted by what the code does.

\* "The peer connection will maintain connectivity using STUN probe requests if
\* no media is flowing": with a peer that answers everything the connection is
\* never taken for lost.
MaintainsConnectivity == \A c \in Candidates : cand[c].lostTimeout # 0

=============================================================================
