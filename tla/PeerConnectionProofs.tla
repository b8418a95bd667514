------------------------ MODULE PeerConnectionProofs ------------------------
(***************************************************************************)
(* For any number of hosts, application threads, offers and answers: one   *)
(* candidate speaks for the connection, jitter buffers and watchdogs are   *)
(* there while they are needed, close() leaves nothing behind, nothing     *)
(* accepted is lost between the threads, and the listener sees a life of   *)
(* ConnectionLifecycle.                                                    *)
(***************************************************************************)
EXTENDS PeerConnection, SequenceLemmas, FiniteSetTheorems

Timer == Nat \cup {Idle}
DtlsStates == {"Inactive", "Activating", "Completed", "Failed"}

\* The fields of a PeerCandidate.
CandidateType ==
    [alive : BOOLEAN, start : Timer, connectTimeout : Timer, lostTimeout : Timer,
     restoreTimeout : Timer, requesting : BOOLEAN, transactions : Nat,
     mSentUseCandidate : BOOLEAN, mDtlsState : DtlsStates, hasSsl : BOOLEAN,
     mIsConnected : BOOLEAN]

\* A candidate that has not started has asked nothing; DTLS begins with the candidate's
\* choice; a connection that stands has a task that notices its loss.
CandidateInv(k) ==
    /\ k \in CandidateType
    /\ ~k.alive => k = Gone
    /\ k.start # Idle => ~k.requesting /\ k.transactions = 0 /\ ~k.mSentUseCandidate
    /\ ~k.mSentUseCandidate => k.mDtlsState = "Inactive"
    /\ k.lostTimeout # Idle \/ k.restoreTimeout # Idle => k.mSentUseCandidate
    /\ k.mIsConnected => k.mDtlsState = "Completed" /\ k.lostTimeout # Idle

\* The connecting list, the selected candidate and the candidates that exist.
SelectionInv ==
    /\ cand \in [Candidates -> CandidateType]
    /\ \A c \in Candidates : CandidateInv(cand[c])
    /\ mConnectingCandidateList \subseteq Candidates
    /\ mSelectedCandidate \in Candidates \cup {None}
    /\ mSelectedCandidate # None => mConnectingCandidateList = {}
    /\ OneVoice
    /\ \A c \in Candidates : cand[c].mSentUseCandidate <=> mSelectedCandidate = c

\* The worker thread, the connection state and what the listener knows of it.
LifeInv ==
    /\ thread \in {"none", "starting", "creating", "running", "exiting", "exited"}
    /\ mConnectionState \in LC!ConnectionStates
    /\ mIsStarted <=> thread # "none"
    /\ mIsStarted => /\ mSdpAnswer # <<>>
                     /\ mSdpAnswer[1].hostList \in Seq(Candidates)
                     /\ mSdpAnswer[1].hostList # <<>>
    /\ toNotify = None => lastTold = mConnectionState
    /\ toNotify # None => /\ toNotify = mConnectionState
                          /\ \/ lastTold = "Inactive" /\ toNotify = "Connecting"
                             \/ lastTold = "Connecting" /\ toNotify = "Connected"
                             \/ lastTold = "Connected" /\ toNotify = "Connecting"
                             \/ lastTold \in {"Connecting", "Connected"} /\ toNotify \in Terminal
    /\ thread \in {"none", "starting"} => mConnectionState = "Inactive" /\ toNotify = None
    /\ thread = "creating" => mConnectionState = "Connecting"
    /\ thread = "running" => mConnectionState # "Inactive"
    /\ thread \in {"exiting", "exited"} => mConnectionState \in Terminal
    /\ thread = "exited" => toNotify = None
    /\ thread # "running" => /\ \A c \in Candidates : ~cand[c].alive
                             /\ mConnectingCandidateList = {} /\ mSelectedCandidate = None
    /\ \A t \in AppThreads : closer[t] = "joined" => thread = "exited"

\* While the connection is being made there is somebody to make it, who has a time
\* limit and is not connected; when it is made it is the selected candidate's.
WatchInv ==
    /\ (thread = "running" /\ mConnectionState = "Connecting") =>
          /\ mSelectedCandidate # None \/ mConnectingCandidateList # {}
          /\ \A c \in Candidates : cand[c].alive =>
                /\ ~cand[c].mIsConnected
                /\ cand[c].start # Idle \/ cand[c].connectTimeout # Idle
    /\ (thread = "running" /\ mConnectionState = "Connected") =>
          mSelectedCandidate # None /\ cand[mSelectedCandidate].mIsConnected

\* The queues between the threads.
HandOverInv ==
    /\ mDataSendQueue \in Seq(Nat) /\ handedOver \in Seq(Nat) /\ accepted \in Nat
    /\ mFrameSendQueue \in Seq(Nat) /\ framesOut \in Seq(Nat) /\ published \in Nat
    /\ NoMessageLost
    /\ thread \in {"none", "starting", "creating"} => mFrameSendQueue = <<>>
    /\ (thread = "running" /\ mFrameSendQueue # <<>>) => mSelectedCandidate # None

PeerInv == SelectionInv /\ LifeInv /\ WatchInv /\ JitterBuffersWhileConnected /\ HandOverInv
-----------------------------------------------------------------------------
\* Records.

\* A candidate that does not exist is a candidate record at rest.
LEMMA GoneIs ==
    /\ Gone \in CandidateType /\ CandidateInv(Gone)
    /\ ~Gone.alive /\ Gone.start = Idle /\ ~Gone.mSentUseCandidate /\ ~Gone.mIsConnected
<1>1. ~Gone.alive /\ Gone.start = Idle /\ ~Gone.mSentUseCandidate /\ ~Gone.mIsConnected
      /\ Gone.mDtlsState = "Inactive"
      /\ Gone.lostTimeout = Idle /\ Gone.restoreTimeout = Idle
  BY DEF Gone
<1>2. Gone \in CandidateType
  <2>1. Idle \in Timer /\ 0 \in Nat /\ "Inactive" \in DtlsStates /\ FALSE \in BOOLEAN
    BY DEF Timer, Idle, DtlsStates
  <2> HIDE DEF Timer, DtlsStates
  <2> QED BY <2>1, Zenon DEF Gone, CandidateType
<1> QED BY <1>1, <1>2 DEF CandidateInv

\* Remembering a request changes nothing else.
LEMMA RequestedIs ==
    ASSUME NEW k \in CandidateType
    PROVE  /\ Requested(k) \in CandidateType
           /\ \A f \in {"alive", "start", "connectTimeout", "lostTimeout", "restoreTimeout",
                        "requesting", "mSentUseCandidate", "mDtlsState", "hasSsl",
                        "mIsConnected"} : Requested(k)[f] = k[f]
<1> DEFINE n == Min({k.transactions + 1, MaxTransactions})
<1>1. n \in Nat
  <2>1. k.transactions \in Nat
    BY DEF CandidateType
  <2>2. {k.transactions + 1, MaxTransactions} \in SUBSET Nat
    BY <2>1, PeerAssumption
  <2> QED BY <2>2, MinOfNats
<1>2. Requested(k) = [k EXCEPT !.transactions = n]
  BY DEF Requested
<1> HIDE DEF n
<1>3. Requested(k) \in CandidateType
  BY <1>1, <1>2, Zenon DEF CandidateType
<1>4. \A f \in {"alive", "start", "connectTimeout", "lostTimeout", "restoreTimeout",
                "requesting", "mSentUseCandidate", "mDtlsState", "hasSsl",
                "mIsConnected"} : Requested(k)[f] = k[f]
  BY <1>2, Zenon DEF CandidateType
<1> QED BY <1>3, <1>4
-----------------------------------------------------------------------------
\* The application and the worker thread.

\* A connection that was only made.
LEMMA PeerInvInit == Init => PeerInv
<1> SUFFICES ASSUME Init PROVE PeerInv
  OBVIOUS
<1>1. \A c \in Candidates : cand[c] = Gone
  BY DEF Init
<1>2. SelectionInv
  <2>1. cand \in [Candidates -> CandidateType]
    BY GoneIs DEF Init
  <2>2. mConnectingCandidateList = {} /\ mSelectedCandidate = None
    BY DEF Init
  <2> QED BY <1>1, <2>1, <2>2, GoneIs, PeerAssumption DEF SelectionInv, OneVoice
<1>3. LifeInv
  BY <1>1, GoneIs DEF Init, LifeInv, LC!ConnectionStates, None
<1>4. WatchInv /\ JitterBuffersWhileConnected
  BY <1>1, GoneIs DEF Init, WatchInv, JitterBuffersWhileConnected
<1>5. HandOverInv
  <2>1. <<>> \o <<>> = [i \in 1..0 |-> i] /\ <<>> \in Seq(Nat)
    OBVIOUS
  <2> QED BY <2>1 DEF Init, HandOverInv, NoMessageLost
<1> QED BY <1>2, <1>3, <1>4, <1>5 DEF PeerInv

\* setOffer stores the offer.
LEMMA setOfferStep ==
    ASSUME PeerInv, NEW offer, setOffer(offer)
    PROVE  PeerInv'
<1> USE DEF setOffer, conn, candidates, data, messages, frames
<1>1. SelectionInv'
  BY DEF PeerInv, SelectionInv, OneVoice
<1>2. LifeInv'
  BY DEF PeerInv, LifeInv
<1>3. WatchInv' /\ JitterBuffersWhileConnected'
  BY DEF PeerInv, WatchInv, JitterBuffersWhileConnected
<1>4. HandOverInv'
  BY DEF PeerInv, HandOverInv, NoMessageLost
<1> QED BY <1>1, <1>2, <1>3, <1>4 DEF PeerInv

\* setAnswer starts the worker thread with an answer that names a host.
LEMMA setAnswerStep ==
    ASSUME PeerInv, NEW offer \in Offers, NEW style \in Styles,
           setAnswer(offer, parse(offer, Answer(offer, style)))
    PROVE  PeerInv'
<1> DEFINE answer == parse(offer, Answer(offer, style))
<1>1. answer.hostList \in Seq(Candidates)
  BY PeerAssumption
<1>2. ~answer.error => answer.hostList # <<>>
  BY DEF parse, ParsedAnswer
<1> HIDE DEF answer
<1> DEFINE starts == /\ mSdpOffer # <<>> /\ mSdpOffer[1].direction = answer.direction
                     /\ \A i \in DOMAIN answer.trackList : CanMake(answer.trackList[i])
<1>3. /\ mSdpAnswer' = <<answer>> /\ ~answer.error /\ ~mIsStarted
      /\ mIsStarted' = starts
      /\ thread' = IF starts THEN "starting" ELSE thread
      /\ UNCHANGED <<mDirection, conn, lastTold, candidates, jitterBuffers, data, closer>>
  BY DEF setAnswer, answer
<1> HIDE DEF starts
<1>4. thread = "none"
  BY <1>3 DEF PeerInv, LifeInv
<1> USE DEF conn, candidates, data, messages, frames
<1>5. SelectionInv'
  BY <1>3 DEF PeerInv, SelectionInv, OneVoice
<1>6. mSdpAnswer'[1].hostList = answer.hostList /\ mSdpAnswer' # <<>>
  BY <1>3
<1>7. LifeInv'
  BY <1>1, <1>2, <1>3, <1>4, <1>6 DEF PeerInv, LifeInv
<1>8. WatchInv' /\ JitterBuffersWhileConnected'
  BY <1>3, <1>4 DEF PeerInv, WatchInv, JitterBuffersWhileConnected
<1>9. HandOverInv'
  BY <1>3, <1>4 DEF PeerInv, HandOverInv, NoMessageLost
<1> QED BY <1>5, <1>7, <1>8, <1>9 DEF PeerInv

UpTo(n) == [i \in 1..n |-> i]

\* A number appended to the numbers 1 to n continues them.
LEMMA AppendNext ==
    ASSUME NEW s \in Seq(Nat), NEW q \in Seq(Nat), NEW n \in Nat, s \o q = UpTo(n)
    PROVE  s \o Append(q, n + 1) = UpTo(n + 1)
<1> DEFINE f == [i \in 1..n |-> i]
<1>1. n + 1 \in Nat
  OBVIOUS
<1>2. s \o Append(q, n + 1) = Append(s \o q, n + 1)
  BY <1>1, ConcatAppend, SMTT(30)
<1>3. s \o q = f /\ f \in Seq(Nat) /\ Len(f) = n
  BY DEF UpTo
<1>4. Append(f, n + 1) = [i \in 1..(n + 1) |-> i]
  <2>1. /\ Append(f, n + 1) \in Seq(Nat) /\ Len(Append(f, n + 1)) = n + 1
        /\ \A i \in 1..n : Append(f, n + 1)[i] = f[i]
        /\ Append(f, n + 1)[n + 1] = n + 1
    BY <1>1, <1>3, AppendProperties
  <2>2. \A i \in 1..(n + 1) : Append(f, n + 1)[i] = i
    BY <2>1
  <2>3. DOMAIN Append(f, n + 1) = 1..(n + 1)
        /\ Append(f, n + 1) = [i \in DOMAIN Append(f, n + 1) |-> Append(f, n + 1)[i]]
    BY <2>1, LenProperties
  <2> HIDE DEF f
  <2> QED BY <2>2, <2>3
<1> QED BY <1>2, <1>3, <1>4 DEF UpTo

\* A message that is accepted joins the queue.
LEMMA sendDataChannelStep ==
    ASSUME PeerInv, NEW size, sendDataChannel(size)
    PROVE  PeerInv'
<1>1. /\ accepted' = accepted + 1 /\ mDataSendQueue' = Append(mDataSendQueue, accepted + 1)
      /\ UNCHANGED <<sdp, tracks, conn, lastTold, thread, candidates, jitterBuffers, handedOver,
                     frames, closer>>
  BY DEF sendDataChannel
<1> USE DEF sdp, conn, candidates, frames
<1>2. SelectionInv'
  BY <1>1 DEF PeerInv, SelectionInv, OneVoice
<1>3. LifeInv'
  BY <1>1 DEF PeerInv, LifeInv
<1>4. WatchInv' /\ JitterBuffersWhileConnected'
  BY <1>1 DEF PeerInv, WatchInv, JitterBuffersWhileConnected
<1>5. handedOver \o Append(mDataSendQueue, accepted + 1) = [i \in 1..(accepted + 1) |-> i]
      /\ Append(mDataSendQueue, accepted + 1) \in Seq(Nat) /\ accepted + 1 \in Nat
  <2>1. /\ handedOver \in Seq(Nat) /\ mDataSendQueue \in Seq(Nat) /\ accepted \in Nat
        /\ handedOver \o mDataSendQueue = UpTo(accepted)
    BY DEF PeerInv, HandOverInv, NoMessageLost, UpTo
  <2>2. accepted + 1 \in Nat
    BY <2>1
  <2>3. handedOver \o Append(mDataSendQueue, accepted + 1) = UpTo(accepted + 1)
    BY <2>1, AppendNext
  <2>4. Append(mDataSendQueue, accepted + 1) \in Seq(Nat)
    BY <2>1
  <2> QED BY <2>2, <2>3, <2>4 DEF UpTo
<1>6. HandOverInv'
  BY <1>1, <1>5 DEF PeerInv, HandOverInv, NoMessageLost
<1> QED BY <1>2, <1>3, <1>4, <1>6 DEF PeerInv

\* A frame joins the queue only while the connection stands, so somebody is selected.
LEMMA QueueFrameStep ==
    ASSUME PeerInv, NEW t, QueueFrame(t)
    PROVE  PeerInv'
<1>1. /\ mConnectionState = "Connected"
      /\ published' = published + 1 /\ mFrameSendQueue' = Append(mFrameSendQueue, published + 1)
      /\ UNCHANGED <<sdp, tracks, conn, lastTold, thread, candidates, jitterBuffers, messages,
                     framesOut, closer>>
  BY DEF QueueFrame
<1> USE DEF sdp, conn, candidates, messages
<1>2. SelectionInv'
  BY <1>1 DEF PeerInv, SelectionInv, OneVoice
<1>3. LifeInv'
  BY <1>1 DEF PeerInv, LifeInv
<1>4. WatchInv' /\ JitterBuffersWhileConnected'
  BY <1>1 DEF PeerInv, WatchInv, JitterBuffersWhileConnected
<1>5. framesOut \o Append(mFrameSendQueue, published + 1) = [i \in 1..(published + 1) |-> i]
      /\ Append(mFrameSendQueue, published + 1) \in Seq(Nat) /\ published + 1 \in Nat
  <2>1. /\ framesOut \in Seq(Nat) /\ mFrameSendQueue \in Seq(Nat) /\ published \in Nat
        /\ framesOut \o mFrameSendQueue = UpTo(published)
    BY DEF PeerInv, HandOverInv, NoMessageLost, UpTo
  <2>2. published + 1 \in Nat
    BY <2>1
  <2>3. framesOut \o Append(mFrameSendQueue, published + 1) = UpTo(published + 1)
    BY <2>1, AppendNext
  <2>4. Append(mFrameSendQueue, published + 1) \in Seq(Nat)
    BY <2>1
  <2> QED BY <2>2, <2>3, <2>4 DEF UpTo
<1>6. thread \notin {"none", "starting", "creating"}
  BY <1>1 DEF PeerInv, LifeInv
<1>7. thread = "running" => mSelectedCandidate # None
  BY <1>1 DEF PeerInv, WatchInv
<1>8. HandOverInv'
  BY <1>1, <1>5, <1>6, <1>7 DEF PeerInv, HandOverInv, NoMessageLost
<1> QED BY <1>2, <1>3, <1>4, <1>8 DEF PeerInv

\* close() only tells the worker to stop, and returns from the join when it has.
LEMMA closeStep ==
    ASSUME PeerInv, NEW t \in AppThreads, close(t) \/ closeJoined(t)
    PROVE  PeerInv'
<1>1. /\ UNCHANGED <<sdp, tracks, mConnectionState, toNotify, lastTold, thread, candidates,
                     jitterBuffers, data>>
      /\ \A u \in AppThreads : closer'[u] = "joined" => closer[u] = "joined" \/ thread = "exited"
  <2>1. CASE close(t)
    BY <2>1 DEF close
  <2>2. CASE closeJoined(t)
    BY <2>2 DEF closeJoined, conn
  <2> QED BY <2>1, <2>2
<1> USE DEF sdp, candidates, data, messages, frames
<1>2. SelectionInv'
  BY <1>1 DEF PeerInv, SelectionInv, OneVoice
<1>3. LifeInv'
  BY <1>1 DEF PeerInv, LifeInv
<1>4. WatchInv' /\ JitterBuffersWhileConnected'
  BY <1>1 DEF PeerInv, WatchInv, JitterBuffersWhileConnected
<1>5. HandOverInv'
  BY <1>1 DEF PeerInv, HandOverInv, NoMessageLost
<1> QED BY <1>2, <1>3, <1>4, <1>5 DEF PeerInv
\* The listener is told what it was due to be told.
LEMMA NotifyListenerStep ==
    ASSUME PeerInv, NotifyListener
    PROVE  PeerInv'
<1>1. /\ toNotify # None /\ lastTold' = toNotify /\ toNotify' = None
      /\ UNCHANGED <<sdp, tracks, mIsQuit, mConnectionState, thread, candidates, jitterBuffers,
                     data, closer>>
  BY DEF NotifyListener
<1> USE DEF sdp, candidates, data, messages, frames
<1>2. SelectionInv'
  BY <1>1 DEF PeerInv, SelectionInv, OneVoice
<1>3. LifeInv'
  BY <1>1 DEF PeerInv, LifeInv
<1>4. WatchInv' /\ JitterBuffersWhileConnected'
  BY <1>1 DEF PeerInv, WatchInv, JitterBuffersWhileConnected
<1>5. HandOverInv'
  BY <1>1 DEF PeerInv, HandOverInv, NoMessageLost
<1> QED BY <1>2, <1>3, <1>4, <1>5 DEF PeerInv

\* The thread begins: the first state the listener is told is Connecting.
LEMMA StartThreadStep ==
    ASSUME PeerInv, StartThread
    PROVE  PeerInv'
<1>1. /\ thread = "starting" /\ thread' = "creating" /\ setConnectionState("Connecting")
      /\ UNCHANGED <<sdp, tracks, lastTold, candidates, jitterBuffers, data, closer>>
  BY DEF StartThread
<1>2. mConnectionState = "Inactive" /\ toNotify = None /\ lastTold = "Inactive"
  BY <1>1 DEF PeerInv, LifeInv
<1>3. mConnectionState' = "Connecting" /\ toNotify' = "Connecting"
  BY <1>1, <1>2 DEF setConnectionState, Terminal, LC!Terminal
<1> USE DEF sdp, candidates, data, messages, frames
<1>4. SelectionInv'
  BY <1>1 DEF PeerInv, SelectionInv, OneVoice
<1>5. LifeInv'
  BY <1>1, <1>2, <1>3 DEF PeerInv, LifeInv, LC!ConnectionStates, None
<1>6. WatchInv' /\ JitterBuffersWhileConnected'
  BY <1>1 DEF PeerInv, WatchInv, JitterBuffersWhileConnected
<1>7. HandOverInv'
  BY <1>1 DEF PeerInv, HandOverInv, NoMessageLost
<1> QED BY <1>4, <1>5, <1>6, <1>7 DEF PeerInv

\* The thread ends with its last listener call.
LEMMA ThreadExitStep ==
    ASSUME PeerInv, ThreadExit
    PROVE  PeerInv'
<1>1. /\ thread = "exiting" /\ thread' = "exited" /\ toNotify = None
      /\ UNCHANGED <<sdp, tracks, conn, lastTold, candidates, jitterBuffers, data, closer>>
  BY DEF ThreadExit
<1> USE DEF sdp, conn, candidates, data, messages, frames
<1>2. SelectionInv'
  BY <1>1 DEF PeerInv, SelectionInv, OneVoice
<1>3. LifeInv'
  BY <1>1 DEF PeerInv, LifeInv
<1>4. WatchInv' /\ JitterBuffersWhileConnected'
  BY <1>1 DEF PeerInv, WatchInv, JitterBuffersWhileConnected
<1>5. HandOverInv'
  BY <1>1 DEF PeerInv, HandOverInv, NoMessageLost
<1> QED BY <1>2, <1>3, <1>4, <1>5 DEF PeerInv

\* A new candidate waits for its turn and has done nothing else.
LEMMA NewCandidateIs ==
    ASSUME NEW c \in Candidates, mSdpAnswer[1].hostList \in Seq(Candidates)
    PROVE  LET k == NewCandidate(c)
           IN /\ k \in CandidateType /\ CandidateInv(k)
              /\ k.alive /\ k.start # Idle /\ ~k.mSentUseCandidate /\ ~k.mIsConnected
<1> DEFINE hosts == mSdpAnswer[1].hostList
           before == {i \in DOMAIN hosts : i < SelectInSeq(hosts, LAMBDA h : h = c)
                                           /\ Family[hosts[i]] = Family[c]}
<1>1. DOMAIN hosts = 1..Len(hosts) /\ Len(hosts) \in Nat
  BY LenProperties
<1>2. IsFiniteSet(1..Len(hosts))
  BY <1>1, FS_Interval
<1>3. IsFiniteSet(before)
  <2>1. before \subseteq 1..Len(hosts)
    BY <1>1
  <2> HIDE DEF before
  <2> QED BY <1>2, <2>1, FS_Subset
<1>4. ConnectDelay(c) \in Nat
  <2>1. ConnectDelay(c) = Cardinality(before)
    BY DEF ConnectDelay
  <2> HIDE DEF before
  <2> QED BY <1>3, <2>1, FS_CardinalityType
<1> DEFINE d == ConnectDelay(c)
           k == NewCandidate(c)
<1>5. k = [Gone EXCEPT !.alive = TRUE, !.start = d]
  BY DEF NewCandidate
<1> HIDE DEF d
<1>6. d \in Timer /\ TRUE \in BOOLEAN /\ d # Idle
  BY <1>4 DEF d, Timer, Idle
<1> HIDE DEF k
<1>7. k \in CandidateType
  <2>1. Gone \in CandidateType
    BY GoneIs
  <2> HIDE DEF Timer, DtlsStates
  <2> QED BY <1>5, <1>6, <2>1, Zenon DEF CandidateType
<1>8. /\ k.alive /\ k.start = d /\ ~k.mSentUseCandidate /\ ~k.mIsConnected
      /\ ~k.requesting /\ k.transactions = 0 /\ k.mDtlsState = "Inactive"
      /\ k.lostTimeout = Idle /\ k.restoreTimeout = Idle
  BY <1>5 DEF Gone
<1>9. CandidateInv(k)
  BY <1>7, <1>8 DEF CandidateInv
<1> QED BY <1>6, <1>7, <1>8, <1>9 DEF k

\* One candidate for every host, none selected.
LEMMA startConnectingStep ==
    ASSUME PeerInv, startConnecting
    PROVE  PeerInv'
<1> DEFINE hosts == mSdpAnswer[1].hostList
           H == ToSet(hosts)
<1>1. /\ thread = "creating" /\ toNotify = None /\ thread' = "running"
      /\ mFrameSendQueue' = <<>> /\ mConnectingCandidateList' = H
      /\ cand' = [c \in Candidates |-> IF c \in H THEN NewCandidate(c) ELSE Gone]
      /\ UNCHANGED <<sdp, tracks, conn, lastTold, mSelectedCandidate, jitterBuffers, messages,
                     published, framesOut, closer>>
  BY DEF startConnecting
<1>2. /\ hosts \in Seq(Candidates) /\ hosts # <<>> /\ mConnectionState = "Connecting"
      /\ mSelectedCandidate = None /\ mIsStarted /\ lastTold = "Connecting"
  BY <1>1 DEF PeerInv, LifeInv
<1>3. H \subseteq Candidates /\ H # {}
  <2> HIDE DEF hosts
  <2>1. DOMAIN hosts = 1..Len(hosts) /\ Len(hosts) \in Nat /\ Len(hosts) # 0
    BY <1>2
  <2>2. \A i \in DOMAIN hosts : hosts[i] \in Candidates
    BY <1>2
  <2>3. H = {hosts[i] : i \in DOMAIN hosts}
    BY DEF ToSet
  <2>4. 1 \in DOMAIN hosts
    BY <2>1
  <2> QED BY <2>2, <2>3, <2>4
<1> HIDE DEF H
<1>4. ASSUME NEW c \in Candidates
      PROVE  /\ cand'[c] \in CandidateType /\ CandidateInv(cand'[c])
             /\ cand'[c].alive <=> c \in H
             /\ cand'[c].alive => cand'[c].start # Idle
             /\ ~cand'[c].mSentUseCandidate /\ ~cand'[c].mIsConnected
  <2>1. CASE c \in H
    <3>1. cand'[c] = NewCandidate(c)
      BY <1>1, <2>1
    <3> QED BY <1>2, <2>1, <3>1, NewCandidateIs
  <2>2. CASE c \notin H
    <3>1. cand'[c] = Gone
      BY <1>1, <2>2
    <3> QED BY <2>2, <3>1, GoneIs
  <2> QED BY <2>1, <2>2
<1>5. cand' \in [Candidates -> CandidateType]
  <2>1. cand' = [c \in Candidates |-> cand'[c]]
    BY <1>1
  <2> QED BY <1>4, <2>1
<1> USE DEF sdp, conn, messages
<1>6. SelectionInv'
  BY <1>1, <1>2, <1>3, <1>4, <1>5, PeerAssumption DEF SelectionInv, OneVoice
<1>7. LifeInv'
  BY <1>1, <1>2 DEF PeerInv, LifeInv
<1>8. WatchInv' /\ JitterBuffersWhileConnected'
  BY <1>1, <1>2, <1>3, <1>4 DEF WatchInv, JitterBuffersWhileConnected
<1>9. HandOverInv'
  BY <1>1 DEF PeerInv, HandOverInv, NoMessageLost
<1> QED BY <1>6, <1>7, <1>8, <1>9 DEF PeerInv

\* The loop ends: every candidate is destroyed, and the state is final.
LEMMA ExitLoopStep ==
    ASSUME PeerInv, ExitLoop
    PROVE  PeerInv'
<1>1. /\ thread = "running" /\ toNotify = None /\ thread' = "exiting"
      /\ mConnectingCandidateList' = {} /\ mSelectedCandidate' = None
      /\ cand' = [c \in Candidates |-> Gone] /\ setConnectionState("Closed")
      /\ UNCHANGED <<sdp, lastTold, data, closer>>
  BY DEF ExitLoop, Running
<1>2. \A c \in Candidates : cand'[c] = Gone
  BY <1>1
<1>3. cand' \in [Candidates -> CandidateType]
  BY <1>1, GoneIs
<1> USE DEF sdp, data, messages, frames
<1>4. SelectionInv'
  BY <1>1, <1>2, <1>3, GoneIs, PeerAssumption DEF SelectionInv, OneVoice
<1>5. /\ mConnectionState' \in Terminal /\ mConnectionState' \in LC!ConnectionStates
      /\ toNotify' = None => lastTold = mConnectionState'
      /\ toNotify' # None => toNotify' = mConnectionState'
                             /\ lastTold \in {"Connecting", "Connected"} /\ toNotify' \in Terminal
  BY <1>1 DEF PeerInv, LifeInv, setConnectionState, Terminal, LC!Terminal, LC!ConnectionStates,
     conn, None
<1>6. LifeInv'
  BY <1>1, <1>2, <1>5, GoneIs DEF PeerInv, LifeInv
<1>7. WatchInv' /\ JitterBuffersWhileConnected'
  BY <1>1, <1>2, GoneIs DEF WatchInv, JitterBuffersWhileConnected
<1>8. HandOverInv'
  BY <1>1 DEF PeerInv, HandOverInv, NoMessageLost
<1> QED BY <1>4, <1>6, <1>7, <1>8 DEF PeerInv
\* Moving the whole queue behind what was handed over keeps the order.
LEMMA ConcatMoved ==
    ASSUME NEW s \in Seq(Nat), NEW q \in Seq(Nat)
    PROVE  /\ s \o q \in Seq(Nat)
           /\ (s \o q) \o <<>> = s \o q
  OBVIOUS

\* The loop passes on what the selected candidate can send; no frame waits without one.
LEMMA PassOnStep ==
    ASSUME PeerInv, PassOn
    PROVE  PeerInv'
<1>1. /\ thread = "running"
      /\ mDataSendQueue' = IF TakenMessages = <<>> THEN mDataSendQueue ELSE <<>>
      /\ mFrameSendQueue' = <<>>
      /\ handedOver' = IF mSelectedCandidate = None THEN handedOver
                       ELSE handedOver \o TakenMessages
      /\ framesOut' = IF mSelectedCandidate = None THEN framesOut
                      ELSE framesOut \o mFrameSendQueue
      /\ UNCHANGED <<sdp, tracks, conn, lastTold, thread, candidates, jitterBuffers, accepted,
                     published, closer>>
  BY DEF PassOn, Running
<1> USE DEF sdp, conn, candidates
<1>2. SelectionInv'
  BY <1>1 DEF PeerInv, SelectionInv, OneVoice
<1>3. LifeInv'
  BY <1>1 DEF PeerInv, LifeInv
<1>4. WatchInv' /\ JitterBuffersWhileConnected'
  BY <1>1 DEF PeerInv, WatchInv, JitterBuffersWhileConnected
<1>5. HandOverInv'
  <2> DEFINE both == handedOver \o mDataSendQueue
             out == framesOut \o mFrameSendQueue
  <2>1. /\ handedOver \in Seq(Nat) /\ mDataSendQueue \in Seq(Nat) /\ accepted \in Nat
        /\ framesOut \in Seq(Nat) /\ mFrameSendQueue \in Seq(Nat) /\ published \in Nat
        /\ both = UpTo(accepted) /\ out = UpTo(published)
        /\ mFrameSendQueue # <<>> => mSelectedCandidate # None
    BY <1>1 DEF PeerInv, HandOverInv, NoMessageLost, UpTo
  <2>2. both \in Seq(Nat) /\ both \o <<>> = both
    BY <2>1, ConcatMoved
  <2>3. out \in Seq(Nat) /\ out \o <<>> = out
    BY <2>1, ConcatMoved
  <2>4. /\ handedOver' \o mDataSendQueue' = both
        /\ handedOver' \in Seq(Nat) /\ mDataSendQueue' \in Seq(Nat)
    <3>1. CASE TakenMessages = <<>>
      <4>1. handedOver' = handedOver
        <5>1. handedOver \o <<>> = handedOver
          BY <2>1
        <5> QED BY <1>1, <3>1, <5>1
      <4> QED BY <1>1, <2>1, <3>1, <4>1
    <3>2. CASE TakenMessages # <<>>
      <4>1. mSelectedCandidate # None /\ TakenMessages = mDataSendQueue
        BY <3>2 DEF TakenMessages
      <4>2. handedOver' = both /\ mDataSendQueue' = <<>>
        BY <1>1, <3>2, <4>1
      <4>3. <<>> \in Seq(Nat)
        OBVIOUS
      <4> HIDE DEF both
      <4> QED BY <2>2, <4>2, <4>3
    <3> QED BY <3>1, <3>2
  <2>5. framesOut' \o mFrameSendQueue' = out /\ framesOut' \in Seq(Nat)
    <3>1. CASE mSelectedCandidate = None
      <4>1. mFrameSendQueue = <<>>
        BY <2>1, <3>1
      <4> QED BY <1>1, <2>1, <3>1, <4>1
    <3>2. CASE mSelectedCandidate # None
      <4>1. framesOut' = out /\ mFrameSendQueue' = <<>>
        BY <1>1, <3>2
      <4> HIDE DEF out
      <4> QED BY <2>3, <4>1
    <3> QED BY <3>1, <3>2
  <2> HIDE DEF both, out
  <2>6. NoMessageLost'
    BY <1>1, <2>1, <2>4, <2>5 DEF NoMessageLost, UpTo
  <2>7. <<>> \in Seq(Nat)
    OBVIOUS
  <2> QED BY <1>1, <2>1, <2>4, <2>5, <2>6, <2>7 DEF HandOverInv
<1> QED BY <1>2, <1>3, <1>4, <1>5 DEF PeerInv

\* A tick brings every scheduled task nearer and schedules or cancels none.
LEMMA TickStep ==
    ASSUME PeerInv, Tick
    PROVE  PeerInv'
<1>1. /\ \A c \in Candidates : 0 \notin Timers(c)
      /\ cand' = [c \in Candidates |->
                    [cand[c] EXCEPT !.start = Less(@), !.connectTimeout = Less(@),
                                    !.lostTimeout = Less(@), !.restoreTimeout = Less(@)]]
      /\ UNCHANGED <<sdp, tracks, conn, lastTold, thread, mConnectingCandidateList,
                     mSelectedCandidate, jitterBuffers, data, closer>>
  BY DEF Tick
<1>2. ASSUME NEW c \in Candidates
      PROVE  /\ cand'[c] \in CandidateType /\ CandidateInv(cand'[c])
             /\ \A f \in {"alive", "requesting", "transactions", "mSentUseCandidate",
                          "mDtlsState", "hasSsl", "mIsConnected"} : cand'[c][f] = cand[c][f]
             /\ cand'[c].start = Idle <=> cand[c].start = Idle
             /\ cand'[c].connectTimeout = Idle <=> cand[c].connectTimeout = Idle
             /\ cand'[c].lostTimeout = Idle <=> cand[c].lostTimeout = Idle
  <2> DEFINE k == cand[c]
             s == Less(k.start)
             ct == Less(k.connectTimeout)
             lt == Less(k.lostTimeout)
             rt == Less(k.restoreTimeout)
             n == cand'[c]
  <2>1. k \in CandidateType /\ CandidateInv(k)
    BY DEF PeerInv, SelectionInv
  <2>2. n = [k EXCEPT !.start = s, !.connectTimeout = ct, !.lostTimeout = lt,
                      !.restoreTimeout = rt]
    BY <1>1
  <2>3. /\ k.start \in Timer /\ k.connectTimeout \in Timer /\ k.lostTimeout \in Timer
        /\ k.restoreTimeout \in Timer
    BY <2>1 DEF CandidateType
  <2>4. /\ k.start # 0 /\ k.connectTimeout # 0 /\ k.lostTimeout # 0 /\ k.restoreTimeout # 0
    BY <1>1 DEF Timers
  <2>5. ASSUME NEW t \in Timer, t # 0
        PROVE  Less(t) \in Timer /\ (Less(t) = Idle <=> t = Idle)
    BY <2>5 DEF Less, Timer, Idle
  <2>6. /\ s \in Timer /\ (s = Idle <=> k.start = Idle)
        /\ ct \in Timer /\ (ct = Idle <=> k.connectTimeout = Idle)
        /\ lt \in Timer /\ (lt = Idle <=> k.lostTimeout = Idle)
        /\ rt \in Timer /\ (rt = Idle <=> k.restoreTimeout = Idle)
    BY <2>3, <2>4, <2>5
  <2>7. k = Gone => s = Idle /\ ct = Idle /\ lt = Idle /\ rt = Idle
    BY <2>6 DEF Gone
  <2> HIDE DEF s, ct, lt, rt, n, k
  <2>8. n \in CandidateType
    BY <2>1, <2>2, <2>6, Zenon DEF CandidateType
  <2>9. n.start = s /\ n.connectTimeout = ct /\ n.lostTimeout = lt /\ n.restoreTimeout = rt
    BY <2>1, <2>2 DEF CandidateType
  <2>10. \A f \in {"alive", "requesting", "transactions", "mSentUseCandidate",
                   "mDtlsState", "hasSsl", "mIsConnected"} : n[f] = k[f]
    BY <2>1, <2>2, Zenon DEF CandidateType
  <2>11. k = Gone => n = Gone
    <3> SUFFICES ASSUME k = Gone PROVE n = Gone
      OBVIOUS
    <3>1. n = [Gone EXCEPT !.start = Idle, !.connectTimeout = Idle, !.lostTimeout = Idle,
                           !.restoreTimeout = Idle]
      BY <2>2, <2>7
    <3> QED BY <3>1, Zenon DEF Gone
  <2>12. CandidateInv(n)
    BY <2>1, <2>6, <2>8, <2>9, <2>10, <2>11 DEF CandidateInv
  <2>13. n = cand'[c] /\ k = cand[c]
    BY DEF n, k
  <2> QED BY <2>6, <2>8, <2>9, <2>10, <2>12, <2>13, Zenon
<1>3. cand' \in [Candidates -> CandidateType]
  <2>1. cand' = [c \in Candidates |-> cand'[c]]
    BY <1>1
  <2> QED BY <1>2, <2>1
<1>4. \A c \in Candidates :
         /\ cand'[c].alive = cand[c].alive /\ cand'[c].mIsConnected = cand[c].mIsConnected
         /\ cand'[c].mSentUseCandidate = cand[c].mSentUseCandidate
  BY <1>2
<1> USE DEF sdp, conn, data, messages, frames
<1>5. SelectionInv'
  <2>1. OneVoice'
    BY <1>1, <1>4 DEF PeerInv, SelectionInv, OneVoice
  <2>2. \A c \in Candidates : CandidateInv(cand'[c])
    BY <1>2
  <2>3. \A c \in Candidates : cand'[c].mSentUseCandidate <=> mSelectedCandidate' = c
    BY <1>1, <1>4 DEF PeerInv, SelectionInv
  <2> QED BY <1>1, <1>3, <2>1, <2>2, <2>3 DEF PeerInv, SelectionInv
<1>6. LifeInv'
  BY <1>1, <1>4 DEF PeerInv, LifeInv
<1>7. WatchInv'
  <2>1. \A c \in Candidates :
           /\ cand'[c].start = Idle <=> cand[c].start = Idle
           /\ cand'[c].connectTimeout = Idle <=> cand[c].connectTimeout = Idle
    BY <1>2
  <2>2. UNCHANGED <<thread, mConnectionState, mSelectedCandidate, mConnectingCandidateList>>
        /\ mSelectedCandidate \in Candidates \cup {None}
    BY <1>1 DEF PeerInv, SelectionInv
  <2>3. WatchInv
    BY DEF PeerInv
  <2> QED BY <1>4, <2>1, <2>2, <2>3 DEF WatchInv
<1>8. JitterBuffersWhileConnected'
  BY <1>1, <1>4 DEF PeerInv, JitterBuffersWhileConnected
<1>9. HandOverInv'
  BY <1>1 DEF PeerInv, HandOverInv, NoMessageLost
<1> QED BY <1>5, <1>6, <1>7, <1>8, <1>9 DEF PeerInv
-----------------------------------------------------------------------------
\* What every handler of a candidate has in common.

\* What a handler may do to the connection state: leave it, or report a change that the
\* listener, told everything so far, may be told next.
ReportLegal ==
    /\ mConnectionState' \in LC!ConnectionStates /\ mConnectionState' # "Inactive"
    /\ toNotify' = None => lastTold = mConnectionState'
    /\ toNotify' # None => /\ toNotify' = mConnectionState'
                           /\ \/ lastTold = "Connecting" /\ toNotify' = "Connected"
                              \/ lastTold = "Connected" /\ toNotify' = "Connecting"
                              \/ lastTold \in {"Connecting", "Connected"} /\ toNotify' \in Terminal

\* setConnectionState on the running worker reports legally and leaves no final state.
LEMMA setConnectionStateIs ==
    ASSUME PeerInv, Running, NEW s \in LC!ConnectionStates \ {"Inactive"}, setConnectionState(s)
    PROVE  /\ ReportLegal
           /\ mConnectionState' = IF mConnectionState \in Terminal THEN mConnectionState ELSE s
<1>1. /\ mConnectionState \in LC!ConnectionStates /\ mConnectionState # "Inactive"
      /\ toNotify = None /\ lastTold = mConnectionState
  BY DEF PeerInv, LifeInv, Running
<1> QED BY <1>1 DEF setConnectionState, ReportLegal, conn, Terminal, LC!Terminal,
     LC!ConnectionStates, None

\* A handler that does not touch the state reports nothing.
LEMMA NoReport ==
    ASSUME PeerInv, Running, UNCHANGED conn
    PROVE  ReportLegal /\ mConnectionState' = mConnectionState
  BY DEF PeerInv, LifeInv, Running, ReportLegal, conn

\* The parts of the invariant a handler cannot disturb.
LEMMA HandlerStep ==
    ASSUME PeerInv, NEW c \in Candidates, Handler(c), ReportLegal,
           SelectionInv', WatchInv', JitterBuffersWhileConnected',
           mSelectedCandidate # None => mSelectedCandidate' # None
    PROVE  PeerInv'
<1>1. /\ thread = "running" /\ toNotify = None
      /\ UNCHANGED <<sdp, tracks, lastTold, thread, data, closer>>
  BY DEF Handler, Running
<1> USE DEF sdp, data, messages, frames
<1>2. LifeInv'
  BY <1>1 DEF PeerInv, LifeInv, ReportLegal
<1>3. HandOverInv'
  BY <1>1 DEF PeerInv, HandOverInv, NoMessageLost
<1> QED BY <1>2, <1>3 DEF PeerInv

\* A candidate whose record changes goes on as what it was, connecting or selected.
LEMMA UpdateSelection ==
    ASSUME SelectionInv, NEW c \in Candidates, NEW k,
           cand[c].alive, CandidateInv(k), k.alive,
           k.mSentUseCandidate = cand[c].mSentUseCandidate,
           Update(c, k), UNCHANGED <<mConnectingCandidateList, mSelectedCandidate>>
    PROVE  /\ SelectionInv'
           /\ cand'[c] = k /\ \A d \in Candidates \ {c} : cand'[d] = cand[d]
<1>1. cand \in [Candidates -> CandidateType] /\ k \in CandidateType
  BY DEF SelectionInv, CandidateInv
<1>2. cand' = [cand EXCEPT ![c] = k]
  BY DEF Update
<1>3. cand'[c] = k /\ \A d \in Candidates \ {c} : cand'[d] = cand[d]
  BY <1>1, <1>2
<1>4. cand' \in [Candidates -> CandidateType]
  BY <1>1, <1>2
<1>5. \A d \in Candidates : CandidateInv(cand'[d])
  BY <1>3 DEF SelectionInv
<1>6. OneVoice'
  BY <1>3 DEF SelectionInv, OneVoice
<1>7. \A d \in Candidates : cand'[d].mSentUseCandidate <=> mSelectedCandidate' = d
  BY <1>3 DEF SelectionInv
<1> QED BY <1>3, <1>4, <1>5, <1>6, <1>7 DEF SelectionInv

\* A candidate that was chosen is the selected one, and nobody else is alive.
LEMMA ChosenIs ==
    ASSUME SelectionInv, NEW c \in Candidates, cand[c].mSentUseCandidate
    PROVE  /\ mSelectedCandidate = c /\ mConnectingCandidateList = {}
           /\ \A d \in Candidates \ {c} :
                 ~cand[d].alive /\ ~cand[d].mSentUseCandidate /\ ~cand[d].mIsConnected
<1>1. mSelectedCandidate = c
  BY DEF SelectionInv
<1>2. mSelectedCandidate # None
  BY <1>1, PeerAssumption
<1>3. \A d \in Candidates \ {c} : ~cand[d].alive
  BY <1>1, <1>2 DEF SelectionInv, OneVoice
<1>4. \A d \in Candidates \ {c} : cand[d] = Gone
  BY <1>3 DEF SelectionInv, CandidateInv
<1> QED BY <1>1, <1>2, <1>3, <1>4, GoneIs DEF SelectionInv

\* Nobody is connected while no candidate was chosen.
LEMMA ConnectedIsChosen ==
    ASSUME SelectionInv, NEW c \in Candidates, cand[c].mIsConnected
    PROVE  cand[c].mSentUseCandidate
  BY DEF SelectionInv, CandidateInv

\* A record that changes without a change of the connection.
LEMMA QuietUpdate ==
    ASSUME PeerInv, NEW c \in Candidates, NEW k, Handler(c),
           CandidateInv(k), k.alive,
           k.mSentUseCandidate = cand[c].mSentUseCandidate,
           k.mIsConnected = cand[c].mIsConnected,
           cand[c].start # Idle => k.start # Idle,
           cand[c].connectTimeout # Idle => k.connectTimeout # Idle,
           Update(c, k),
           UNCHANGED <<conn, jitterBuffers, mConnectingCandidateList, mSelectedCandidate>>
    PROVE  PeerInv'
<1>1. cand[c].alive /\ Running /\ UNCHANGED <<mDirection, thread>>
  BY DEF Handler, sdp
<1>2. SelectionInv' /\ cand'[c] = k /\ \A d \in Candidates \ {c} : cand'[d] = cand[d]
  BY <1>1, UpdateSelection DEF PeerInv
<1>3. ReportLegal /\ mConnectionState' = mConnectionState
  BY <1>1, NoReport
<1>4. WatchInv'
  <2>1. \A d \in Candidates :
           /\ cand'[d].alive = cand[d].alive /\ cand'[d].mIsConnected = cand[d].mIsConnected
           /\ cand[d].start # Idle => cand'[d].start # Idle
           /\ cand[d].connectTimeout # Idle => cand'[d].connectTimeout # Idle
    <3>1. cand[c].alive = k.alive
      <4>1. cand[c].alive \in BOOLEAN /\ k.alive \in BOOLEAN
        BY DEF PeerInv, SelectionInv, CandidateInv, CandidateType
      <4> QED BY <1>1, <4>1
    <3> QED BY <1>2, <3>1
  <2>2. mSelectedCandidate # None => mSelectedCandidate \in Candidates
    BY DEF PeerInv, SelectionInv
  <2> QED BY <1>1, <1>3, <2>1, <2>2 DEF PeerInv, WatchInv
<1>5. JitterBuffersWhileConnected'
  BY <1>1, <1>2 DEF PeerInv, JitterBuffersWhileConnected
<1> QED BY <1>2, <1>3, <1>4, <1>5, HandlerStep

\* A candidate that starts, or has lost its peer, takes the connection back to connecting
\* with a time limit.  When it was not yet chosen nobody else is connected.
LEMMA ConnectingUpdate ==
    ASSUME PeerInv, NEW c \in Candidates, NEW k, Handler(c),
           CandidateInv(k), k.alive,
           k.mSentUseCandidate = cand[c].mSentUseCandidate,
           ~k.mIsConnected, k.connectTimeout # Idle,
           Update(c, k), onCandidateConnecting,
           UNCHANGED <<mConnectingCandidateList, mSelectedCandidate>>
    PROVE  PeerInv'
<1>1. cand[c].alive /\ Running /\ UNCHANGED <<mDirection, thread>> /\ thread = "running"
  BY DEF Handler, sdp, Running
<1>2. SelectionInv' /\ cand'[c] = k /\ \A d \in Candidates \ {c} : cand'[d] = cand[d]
  BY <1>1, UpdateSelection DEF PeerInv
<1>3. /\ ReportLegal
      /\ mConnectionState' = IF mConnectionState \in Terminal THEN mConnectionState
                             ELSE "Connecting"
  <2>1. "Connecting" \in LC!ConnectionStates \ {"Inactive"} /\ setConnectionState("Connecting")
    BY DEF LC!ConnectionStates, onCandidateConnecting
  <2> QED BY <1>1, <2>1, setConnectionStateIs
<1>4. mSelectedCandidate = c \/ (mSelectedCandidate = None /\ c \in mConnectingCandidateList)
  BY <1>1 DEF PeerInv, SelectionInv, OneVoice
<1>5. \A d \in Candidates \ {c} : cand[d].alive =>
           ~cand[d].mIsConnected /\ mConnectionState # "Connected"
  <2> SUFFICES ASSUME NEW d \in Candidates \ {c}, cand[d].alive
               PROVE  ~cand[d].mIsConnected /\ mConnectionState # "Connected"
    OBVIOUS
  <2>1. mSelectedCandidate = None
    BY <1>4 DEF PeerInv, SelectionInv, OneVoice
  <2>2. ~cand[d].mSentUseCandidate
    BY <2>1, PeerAssumption DEF PeerInv, SelectionInv
  <2> QED BY <1>1, <2>1, <2>2, ConnectedIsChosen DEF PeerInv, WatchInv
<1>6. \A d \in Candidates : ~cand'[d].mIsConnected
  <2> SUFFICES ASSUME NEW d \in Candidates \ {c} PROVE ~cand[d].mIsConnected
    BY <1>2
  <2>1. ~cand[d].alive => cand[d] = Gone
    BY DEF PeerInv, SelectionInv, CandidateInv
  <2> QED BY <1>5, <2>1, GoneIs
<1>7. WatchInv'
  <2>1. mConnectionState' # "Connected"
    BY <1>3 DEF Terminal, LC!Terminal
  <2>2. ASSUME mConnectionState' = "Connecting", NEW d \in Candidates, cand'[d].alive
        PROVE  cand'[d].start # Idle \/ cand'[d].connectTimeout # Idle
    <3>1. CASE d = c
      BY <1>2, <3>1
    <3>2. CASE d # c
      <4>1. cand'[d] = cand[d] /\ cand[d].alive
        BY <1>2, <2>2, <3>2
      <4>2. mConnectionState \in {"Connecting"}
        <5>1. mConnectionState # "Connected"
          BY <1>5, <3>2, <4>1
        <5>2. mConnectionState \in LC!ConnectionStates /\ mConnectionState # "Inactive"
          BY <1>1 DEF PeerInv, LifeInv
        <5> QED BY <1>3, <2>2, <5>1, <5>2 DEF LC!ConnectionStates, Terminal, LC!Terminal
      <4> QED BY <1>1, <4>1, <4>2 DEF PeerInv, WatchInv
    <3> QED BY <3>1, <3>2
  <2>3. mSelectedCandidate' # None \/ mConnectingCandidateList' # {}
    BY <1>4, PeerAssumption
  <2> QED BY <1>6, <2>1, <2>2, <2>3 DEF WatchInv
<1>8. JitterBuffersWhileConnected'
  BY <1>6 DEF JitterBuffersWhileConnected
<1> QED BY <1>2, <1>3, <1>7, <1>8, HandlerStep
\* The peer was heard: the selected candidate is connected, its loss will be noticed, and
\* a subscriber has its jitter buffers.
LEMMA ReceivedUpdate ==
    ASSUME PeerInv, NEW c \in Candidates, NEW k, Handler(c),
           CandidateInv(k), k.alive, k.mDtlsState = "Completed",
           k.mSentUseCandidate = cand[c].mSentUseCandidate,
           k.mIsConnected = cand[c].mIsConnected,
           onReceivedFromRemote(c, k)
    PROVE  PeerInv'
<1> DEFINE n == [k EXCEPT !.lostTimeout = LostTimeout, !.connectTimeout = Idle,
                          !.restoreTimeout = Idle, !.mIsConnected = TRUE]
<1>1. /\ cand[c].alive /\ Running /\ thread = "running"
      /\ UNCHANGED <<mDirection, thread, mConnectingCandidateList, mSelectedCandidate>>
      /\ Update(c, n)
      /\ IF k.mIsConnected THEN UNCHANGED <<conn, jitterBuffers>>
         ELSE onCandidateDtlsConnected
  BY DEF Handler, sdp, Running, onReceivedFromRemote
<1>2. CandidateInv(n) /\ n.alive /\ n.mSentUseCandidate = k.mSentUseCandidate /\ n.mIsConnected
  <2>1. k \in CandidateType
    BY DEF CandidateInv
  <2>2. LostTimeout \in Timer /\ Idle \in Timer /\ TRUE \in BOOLEAN /\ LostTimeout # Idle
    BY PeerAssumption DEF Timer, Idle
  <2>3. n \in CandidateType
    BY <2>1, <2>2, Zenon DEF CandidateType
  <2>4. \A f \in {"alive", "start", "requesting", "transactions", "mSentUseCandidate",
                  "mDtlsState"} : n[f] = k[f]
    BY <2>1, Zenon DEF CandidateType
  <2>5. n.lostTimeout = LostTimeout /\ n.mIsConnected = TRUE
    BY <2>1 DEF CandidateType
  <2> HIDE DEF n
  <2> QED BY <2>2, <2>3, <2>4, <2>5 DEF CandidateInv
<1> HIDE DEF n
<1>3. SelectionInv' /\ cand'[c] = n /\ \A d \in Candidates \ {c} : cand'[d] = cand[d]
  BY <1>1, <1>2, UpdateSelection DEF PeerInv
<1>4. cand[c].mSentUseCandidate
  BY DEF CandidateInv
<1>5. /\ mSelectedCandidate = c
      /\ \A d \in Candidates \ {c} : ~cand[d].alive /\ ~cand[d].mIsConnected
  BY <1>4, ChosenIs DEF PeerInv
<1>6. mSelectedCandidate # None
  BY <1>5, PeerAssumption
<1>7. ReportLegal /\ mConnectionState' # "Connecting" /\ (mDirection = "Subscribe" => jitterBuffers')
  <2>1. CASE k.mIsConnected
    <3>1. ReportLegal /\ mConnectionState' = mConnectionState /\ UNCHANGED jitterBuffers
      BY <1>1, <2>1, NoReport
    <3>2. mConnectionState # "Connecting"
      BY <1>1, <2>1 DEF PeerInv, WatchInv
    <3> QED BY <2>1, <3>1, <3>2 DEF PeerInv, JitterBuffersWhileConnected
  <2>2. CASE ~k.mIsConnected
    <3>1. setConnectionState("Connected") /\ jitterBuffers' = (mDirection = "Subscribe")
      BY <1>1, <2>2 DEF onCandidateDtlsConnected
    <3>2. "Connected" \in LC!ConnectionStates \ {"Inactive"}
      BY DEF LC!ConnectionStates
    <3>3. /\ ReportLegal
          /\ mConnectionState' = IF mConnectionState \in Terminal THEN mConnectionState
                                 ELSE "Connected"
      BY <1>1, <3>1, <3>2, setConnectionStateIs
    <3> QED BY <3>1, <3>3 DEF Terminal, LC!Terminal
  <2> QED BY <2>1, <2>2
<1>8. WatchInv'
  BY <1>1, <1>2, <1>3, <1>5, <1>6, <1>7 DEF WatchInv
<1>9. JitterBuffersWhileConnected'
  BY <1>1, <1>7 DEF JitterBuffersWhileConnected
<1> QED BY <1>1, <1>3, <1>6, <1>7, <1>8, <1>9, HandlerStep

\* A candidate fails: a connecting one disappears, and with the last one, or the selected
\* one, the connection has failed.
LEMMA FailedUpdate ==
    ASSUME PeerInv, NEW c \in Candidates, NEW k, Handler(c),
           CandidateInv(k), k.alive,
           k.mSentUseCandidate = cand[c].mSentUseCandidate,
           k.mIsConnected = cand[c].mIsConnected,
           onCandidateFailedToConnect(c, k)
    PROVE  PeerInv'
<1> DEFINE n == IF c \in mConnectingCandidateList THEN Gone ELSE k
           rest == mConnectingCandidateList \ {c}
<1>1. /\ cand[c].alive /\ Running /\ thread = "running"
      /\ UNCHANGED <<mDirection, thread, mSelectedCandidate, jitterBuffers>>
      /\ mConnectingCandidateList' = rest
      /\ cand' = [cand EXCEPT ![c] = n]
      /\ IF rest = {} THEN setConnectionState("Failed") ELSE UNCHANGED conn
  BY DEF Handler, sdp, Running, onCandidateFailedToConnect, Update
<1>2. cand \in [Candidates -> CandidateType]
  BY DEF PeerInv, SelectionInv
<1>3. cand'[c] = n /\ \A d \in Candidates \ {c} : cand'[d] = cand[d]
  BY <1>1, <1>2
<1>4. CandidateInv(n) /\ n \in CandidateType
  BY GoneIs DEF CandidateInv
<1>5. c \in mConnectingCandidateList => mSelectedCandidate = None
  BY DEF PeerInv, SelectionInv
<1>6. c \notin mConnectingCandidateList => mSelectedCandidate = c
  BY <1>1 DEF PeerInv, SelectionInv, OneVoice
<1>7. n.mIsConnected => cand[c].mIsConnected
  BY GoneIs
<1>8. SelectionInv'
  <2>1. cand' \in [Candidates -> CandidateType]
    BY <1>1, <1>2, <1>4
  <2>2. \A d \in Candidates : CandidateInv(cand'[d])
    BY <1>3, <1>4 DEF PeerInv, SelectionInv
  <2>3. OneVoice'
    <3>1. \A d \in Candidates \ {c} : d \in rest <=> d \in mConnectingCandidateList
      OBVIOUS
    <3>2. CASE c \in mConnectingCandidateList
      <4>1. ~n.alive /\ c \notin rest /\ mSelectedCandidate = None
        BY <1>5, <3>2, GoneIs
      <4> HIDE DEF n, rest
      <4>2. mSelectedCandidate' # c
        BY <1>1, <4>1, PeerAssumption
      <4> QED BY <1>1, <1>3, <3>1, <4>1, <4>2 DEF PeerInv, SelectionInv, OneVoice
    <3>3. CASE c \notin mConnectingCandidateList
      <4>1. n.alive /\ mSelectedCandidate = c
        BY <1>6, <3>3
      <4> HIDE DEF n, rest
      <4> QED BY <1>1, <1>3, <3>1, <4>1 DEF PeerInv, SelectionInv, OneVoice
    <3> QED BY <3>2, <3>3
  <2>4. ASSUME NEW d \in Candidates
        PROVE  cand'[d].mSentUseCandidate <=> mSelectedCandidate' = d
    <3>1. CASE d # c
      BY <1>1, <1>3, <3>1 DEF PeerInv, SelectionInv
    <3>2. CASE d = c /\ c \in mConnectingCandidateList
      BY <1>1, <1>3, <1>5, <3>2, GoneIs, PeerAssumption
    <3>3. CASE d = c /\ c \notin mConnectingCandidateList
      BY <1>1, <1>3, <3>3 DEF PeerInv, SelectionInv
    <3> QED BY <3>1, <3>2, <3>3
  <2> QED BY <1>1, <2>1, <2>2, <2>3, <2>4 DEF PeerInv, SelectionInv
<1> HIDE DEF n
<1>9. ReportLegal /\ (rest = {} => mConnectionState' \in Terminal)
                  /\ (rest # {} => mConnectionState' = mConnectionState)
  <2>1. CASE rest = {}
    <3>1. "Failed" \in LC!ConnectionStates \ {"Inactive"}
      BY DEF LC!ConnectionStates
    <3>2. /\ ReportLegal
          /\ mConnectionState' = IF mConnectionState \in Terminal THEN mConnectionState
                                 ELSE "Failed"
      BY <1>1, <2>1, <3>1, setConnectionStateIs
    <3> QED BY <2>1, <3>2 DEF Terminal, LC!Terminal
  <2>2. CASE rest # {}
    BY <1>1, <2>2, NoReport
  <2> QED BY <2>1, <2>2
<1>10. WatchInv'
  <2>1. CASE rest = {}
    <3>1. mConnectionState' \notin {"Connecting", "Connected"}
      BY <1>9, <2>1 DEF Terminal, LC!Terminal
    <3> QED BY <3>1 DEF WatchInv
  <2>2. CASE rest # {}
    <3>1. mSelectedCandidate = None /\ c \in mConnectingCandidateList
      BY <1>6, <2>2, PeerAssumption DEF PeerInv, SelectionInv
    <3>2. cand'[c] = Gone
      BY <1>3, <3>1 DEF n
    <3>3. mConnectionState # "Connected"
      BY <1>1, <3>1 DEF PeerInv, WatchInv
    <3> QED BY <1>1, <1>3, <1>9, <2>2, <3>2, <3>3, GoneIs DEF PeerInv, WatchInv
  <2> QED BY <2>1, <2>2
<1>11. JitterBuffersWhileConnected'
  BY <1>1, <1>3, <1>7 DEF PeerInv, JitterBuffersWhileConnected
<1> QED BY <1>1, <1>8, <1>9, <1>10, <1>11, HandlerStep

\* The first candidate that gets a good answer is chosen and the others are destroyed; it
\* keeps its time limit.
LEMMA ChosenUpdate ==
    ASSUME PeerInv, NEW c \in Candidates, NEW k, Handler(c),
           CandidateInv(k), k.alive, k.mSentUseCandidate, ~k.mIsConnected,
           ~cand[c].mSentUseCandidate, cand[c].start = Idle,
           k.connectTimeout = cand[c].connectTimeout,
           onCandidateIceConnected(c, k), UNCHANGED <<conn, jitterBuffers>>
    PROVE  PeerInv'
<1>1. /\ cand[c].alive /\ Running /\ thread = "running" /\ UNCHANGED <<mDirection, thread>>
      /\ cand' = [d \in Candidates |->
                    IF d = c THEN k
                    ELSE IF d \in mConnectingCandidateList THEN Gone ELSE cand[d]]
      /\ mSelectedCandidate' = IF c \in mConnectingCandidateList THEN c ELSE mSelectedCandidate
      /\ mConnectingCandidateList' = {}
  BY DEF Handler, sdp, Running, onCandidateIceConnected
<1>2. mSelectedCandidate = None /\ c \in mConnectingCandidateList
  BY <1>1 DEF PeerInv, SelectionInv, OneVoice
<1>3. mSelectedCandidate' = c /\ c # None
  BY <1>1, <1>2, PeerAssumption
<1>4. cand'[c] = k
  BY <1>1
<1>5. ASSUME NEW d \in Candidates \ {c} PROVE cand'[d] = Gone
  <2>1. CASE d \in mConnectingCandidateList
    BY <1>1, <2>1
  <2>2. CASE d \notin mConnectingCandidateList
    <3>1. ~cand[d].alive
      BY <1>2, <2>2, PeerAssumption DEF PeerInv, SelectionInv, OneVoice
    <3>2. cand[d] = Gone
      BY <3>1 DEF PeerInv, SelectionInv, CandidateInv
    <3> QED BY <1>1, <2>2, <3>2
  <2> QED BY <2>1, <2>2
<1>6. SelectionInv'
  <2>1. k \in CandidateType
    BY DEF CandidateInv
  <2>2. \A d \in Candidates : cand'[d] \in CandidateType
    BY <1>4, <1>5, <2>1, GoneIs
  <2>3. cand' \in [Candidates -> CandidateType]
    <3>1. cand' = [d \in Candidates |-> cand'[d]]
      BY <1>1
    <3> QED BY <2>2, <3>1
  <2>4. \A d \in Candidates : CandidateInv(cand'[d])
    BY <1>4, <1>5, GoneIs
  <2>5. OneVoice'
    BY <1>1, <1>3, <1>4, <1>5, GoneIs DEF OneVoice
  <2>6. \A d \in Candidates : cand'[d].mSentUseCandidate <=> mSelectedCandidate' = d
    BY <1>3, <1>4, <1>5, GoneIs
  <2> QED BY <1>1, <1>3, <2>3, <2>4, <2>5, <2>6 DEF SelectionInv
<1>7. ReportLegal /\ mConnectionState' = mConnectionState
  BY <1>1, NoReport
<1>8. WatchInv'
  <2>1. mConnectionState # "Connected"
    BY <1>1, <1>2 DEF PeerInv, WatchInv
  <2>2. mConnectionState = "Connecting" => k.connectTimeout # Idle
    BY <1>1 DEF PeerInv, WatchInv
  <2> QED BY <1>3, <1>4, <1>5, <1>7, <2>1, <2>2, GoneIs DEF WatchInv
<1>9. JitterBuffersWhileConnected'
  BY <1>4, <1>5, GoneIs DEF JitterBuffersWhileConnected
<1> QED BY <1>3, <1>6, <1>7, <1>8, <1>9, HandlerStep
-----------------------------------------------------------------------------
\* The handlers.

\* startConnecting of a candidate, after its delay.
LEMMA startCandidateStep ==
    ASSUME PeerInv, NEW c \in Candidates, startCandidate(c)
    PROVE  PeerInv'
<1> DEFINE k == cand[c]
           m == [k EXCEPT !.start = Idle, !.connectTimeout = ConnectTimeout,
                          !.requesting = TRUE]
           n == Requested(m)
<1>1. /\ Handler(c) /\ k.alive /\ Update(c, n) /\ onCandidateConnecting
      /\ UNCHANGED <<mConnectingCandidateList, mSelectedCandidate>> /\ k.start = 0
  BY DEF startCandidate, Handler
<1>2. k \in CandidateType /\ CandidateInv(k)
  BY DEF PeerInv, SelectionInv
<1>3. ~k.mSentUseCandidate /\ k.mDtlsState = "Inactive" /\ ~k.mIsConnected
  BY <1>1, <1>2 DEF CandidateInv, Idle
<1>4. ConnectTimeout \in Timer /\ Idle \in Timer /\ TRUE \in BOOLEAN /\ ConnectTimeout # Idle
  BY PeerAssumption DEF Timer, Idle
<1> HIDE DEF k
<1>5. m \in CandidateType
  BY <1>2, <1>4, Zenon DEF CandidateType
<1>6. \A f \in {"alive", "lostTimeout", "restoreTimeout", "mSentUseCandidate", "mDtlsState",
                "mIsConnected"} : m[f] = k[f]
  BY <1>2, Zenon DEF CandidateType
<1>7. m.start = Idle /\ m.connectTimeout = ConnectTimeout
  BY <1>2 DEF CandidateType
<1> HIDE DEF m
<1>8. /\ n \in CandidateType
      /\ \A f \in {"alive", "start", "connectTimeout", "lostTimeout", "restoreTimeout",
                   "mSentUseCandidate", "mDtlsState", "mIsConnected"} : n[f] = m[f]
  BY <1>5, RequestedIs
<1> HIDE DEF n
<1>9. CandidateInv(n) /\ n.alive /\ ~n.mIsConnected /\ n.connectTimeout # Idle
      /\ n.mSentUseCandidate = k.mSentUseCandidate
  BY <1>1, <1>2, <1>3, <1>4, <1>6, <1>7, <1>8 DEF CandidateInv
<1> QED BY <1>1, <1>9, ConnectingUpdate DEF k

\* The peer was not heard for kConnectionLostTimeout.
LEMMA onConnectionLostTimeoutStep ==
    ASSUME PeerInv, NEW c \in Candidates, onConnectionLostTimeout(c)
    PROVE  PeerInv'
<1> DEFINE k == cand[c]
           m == [k EXCEPT !.lostTimeout = Idle, !.mIsConnected = FALSE,
                          !.connectTimeout = ConnectTimeout,
                          !.restoreTimeout = ConnectTimeout]
           n == Requested(m)
<1>1. /\ Handler(c) /\ k.alive /\ Update(c, n) /\ onCandidateConnecting
      /\ UNCHANGED <<mConnectingCandidateList, mSelectedCandidate>> /\ k.lostTimeout = 0
  BY DEF onConnectionLostTimeout, Handler
<1>2. k \in CandidateType /\ CandidateInv(k)
  BY DEF PeerInv, SelectionInv
<1>3. ConnectTimeout \in Timer /\ Idle \in Timer /\ FALSE \in BOOLEAN /\ ConnectTimeout # Idle
  BY PeerAssumption DEF Timer, Idle
<1> HIDE DEF k
<1>4. m \in CandidateType
  BY <1>2, <1>3, Zenon DEF CandidateType
<1>5. \A f \in {"alive", "start", "requesting", "transactions", "mSentUseCandidate",
                "mDtlsState"} : m[f] = k[f]
  BY <1>2, Zenon DEF CandidateType
<1>6. m.connectTimeout = ConnectTimeout /\ ~m.mIsConnected
  BY <1>2 DEF CandidateType
<1> HIDE DEF m
<1>7. /\ n \in CandidateType
      /\ \A f \in {"alive", "start", "connectTimeout", "requesting", "mSentUseCandidate",
                   "mDtlsState", "mIsConnected"} : n[f] = m[f]
  BY <1>4, RequestedIs
<1> HIDE DEF n
<1>8. CandidateInv(n) /\ n.alive /\ ~n.mIsConnected /\ n.connectTimeout # Idle
      /\ n.mSentUseCandidate = k.mSentUseCandidate
  <2>1. k.mSentUseCandidate /\ k.start = Idle
    BY <1>1, <1>2 DEF CandidateInv, Idle
  <2> QED BY <1>1, <1>3, <1>5, <1>6, <1>7, <2>1 DEF CandidateInv
<1> QED BY <1>1, <1>8, ConnectingUpdate DEF k
\* A request is repeated until DTLS talks.
LEMMA RepeatStunRequestStep ==
    ASSUME PeerInv, NEW c \in Candidates, RepeatStunRequest(c)
    PROVE  PeerInv'
<1> DEFINE k == cand[c]
           n == Requested(k)
<1>1. /\ Handler(c) /\ k.alive /\ k.requesting /\ Update(c, n)
      /\ UNCHANGED <<conn, jitterBuffers, mConnectingCandidateList, mSelectedCandidate>>
  BY DEF RepeatStunRequest, Handler
<1>2. k \in CandidateType /\ CandidateInv(k)
  BY DEF PeerInv, SelectionInv
<1> HIDE DEF k
<1>3. /\ n \in CandidateType
      /\ \A f \in {"alive", "start", "connectTimeout", "lostTimeout", "restoreTimeout",
                   "mSentUseCandidate", "mDtlsState", "mIsConnected"} : n[f] = k[f]
  BY <1>2, RequestedIs
<1> HIDE DEF n
<1>4. CandidateInv(n)
  BY <1>1, <1>2, <1>3 DEF CandidateInv
<1> QED BY <1>1, <1>3, <1>4, QuietUpdate DEF k

\* Forgetting requests touches nothing else.
LEMMA ForgottenIs ==
    ASSUME NEW k, CandidateInv(k), NEW m \in Nat, m < k.transactions
    PROVE  LET n == [k EXCEPT !.transactions = m]
           IN  /\ CandidateInv(n) /\ n.start = Idle /\ (k.alive => n.alive)
               /\ \A f \in {"alive", "start", "connectTimeout", "lostTimeout",
                            "restoreTimeout", "requesting", "mSentUseCandidate",
                            "mDtlsState", "hasSsl", "mIsConnected"} : n[f] = k[f]
<1> DEFINE n == [k EXCEPT !.transactions = m]
<1>1. k \in CandidateType
  BY DEF CandidateInv
<1>2. k.start = Idle /\ k.alive
  <2>1. k.transactions \in Nat /\ k.transactions # 0
    BY <1>1 DEF CandidateType
  <2>2. Gone.transactions = 0
    BY DEF Gone
  <2>3. k.alive \in BOOLEAN
    BY <1>1 DEF CandidateType
  <2> QED BY <2>1, <2>2, <2>3 DEF CandidateInv
<1>3. n \in CandidateType
  BY <1>1, Zenon DEF CandidateType
<1>4. \A f \in {"alive", "start", "connectTimeout", "lostTimeout", "restoreTimeout",
                "requesting", "mSentUseCandidate", "mDtlsState", "hasSsl",
                "mIsConnected"} : n[f] = k[f]
  BY <1>1, Zenon DEF CandidateType
<1> HIDE DEF n
<1>5. CandidateInv(n)
  BY <1>2, <1>3, <1>4 DEF CandidateInv
<1>6. n.start = Idle /\ (k.alive => n.alive)
  BY <1>2, <1>4
<1> QED BY <1>4, <1>5, <1>6 DEF n

\* Requests or their answers were lost.
LEMMA forgetExpiredTransactionsStep ==
    ASSUME PeerInv, NEW c \in Candidates, NEW m \in 0..MaxTransactions,
           forgetExpiredTransactions(c, m)
    PROVE  PeerInv'
<1> DEFINE k == cand[c]
           n == [k EXCEPT !.transactions = m]
<1>1. /\ Handler(c) /\ k.alive /\ m < k.transactions /\ Update(c, n)
      /\ UNCHANGED <<conn, jitterBuffers, mConnectingCandidateList, mSelectedCandidate>>
  BY DEF forgetExpiredTransactions, Handler
<1>2. CandidateInv(k) /\ m \in Nat
  BY PeerAssumption DEF PeerInv, SelectionInv
<1> HIDE DEF k
<1>3. /\ CandidateInv(n) /\ n.alive
      /\ \A f \in {"start", "connectTimeout", "mSentUseCandidate", "mIsConnected"} : n[f] = k[f]
  BY <1>1, <1>2, ForgottenIs
<1> HIDE DEF n
<1> QED BY <1>1, <1>3, QuietUpdate DEF k

\* An answer to a request, good or refused: the first good one chooses the candidate.
LEMMA onReceivedStunMessageStep ==
    ASSUME PeerInv, NEW c \in Candidates, NEW fault, onReceivedStunMessage(c, fault)
    PROVE  PeerInv'
<1> DEFINE k == cand[c]
           m == forgetTransaction(k)
<1>1. Handler(c) /\ k.alive /\ k.transactions > 0
  BY DEF onReceivedStunMessage, Handler
<1>2. CandidateInv(k) /\ k \in CandidateType
  BY DEF PeerInv, SelectionInv
<1>3. \/ onVerifiedResponse(c, m)
      \/ /\ Update(c, m)
         /\ UNCHANGED <<conn, jitterBuffers, mConnectingCandidateList, mSelectedCandidate>>
  BY DEF onReceivedStunMessage
<1> HIDE DEF k
<1>4. /\ CandidateInv(m) /\ m.alive /\ m.start = Idle /\ k.start = Idle
      /\ \A f \in {"start", "connectTimeout", "mSentUseCandidate", "mIsConnected"} : m[f] = k[f]
  <2>1. k.transactions \in Nat
    BY <1>2 DEF CandidateType
  <2>2. k.transactions - 1 \in Nat /\ k.transactions - 1 < k.transactions
    BY <1>1, <2>1
  <2>3. m = [k EXCEPT !.transactions = k.transactions - 1]
    BY DEF forgetTransaction
  <2> DEFINE t == k.transactions - 1
  <2> HIDE DEF t, m
  <2>4. t \in Nat /\ t < k.transactions /\ m = [k EXCEPT !.transactions = t]
    BY <2>2, <2>3 DEF t
  <2>5. /\ CandidateInv(m) /\ m.start = Idle /\ (k.alive => m.alive)
        /\ \A f \in {"start", "connectTimeout", "mSentUseCandidate", "mIsConnected"} :
              m[f] = k[f]
    BY <1>2, <2>4, ForgottenIs
  <2> QED BY <1>1, <2>5
<1> HIDE DEF m
<1>5. ASSUME Update(c, m),
             UNCHANGED <<conn, jitterBuffers, mConnectingCandidateList, mSelectedCandidate>>
      PROVE  PeerInv'
  BY <1>1, <1>4, <1>5, QuietUpdate DEF k
<1>6. CASE onVerifiedResponse(c, m)
  <2>1. CASE ~m.mSentUseCandidate
    <3> DEFINE a == [m EXCEPT !.mSentUseCandidate = TRUE, !.mDtlsState = "Activating"]
               n == Requested(a)
    <3>1. onCandidateIceConnected(c, n) /\ UNCHANGED <<conn, jitterBuffers>>
      BY <1>6, <2>1 DEF onVerifiedResponse
    <3>2. m \in CandidateType /\ TRUE \in BOOLEAN /\ "Activating" \in DtlsStates
          /\ ~m.mIsConnected
      BY <1>4, <2>1 DEF CandidateInv, DtlsStates
    <3>3. a \in CandidateType
      BY <3>2, Zenon DEF CandidateType
    <3>4. \A f \in {"alive", "start", "connectTimeout", "mIsConnected"} : a[f] = m[f]
      BY <3>2, Zenon DEF CandidateType
    <3>5. a.mSentUseCandidate
      BY <3>2 DEF CandidateType
    <3> HIDE DEF a
    <3>6. /\ n \in CandidateType
          /\ \A f \in {"alive", "start", "connectTimeout", "mSentUseCandidate",
                       "mIsConnected"} : n[f] = a[f]
      BY <3>3, RequestedIs
    <3> HIDE DEF n
    <3>7. CandidateInv(n) /\ n.alive /\ n.mSentUseCandidate /\ ~n.mIsConnected
          /\ n.connectTimeout = k.connectTimeout
      BY <1>4, <3>2, <3>4, <3>5, <3>6 DEF CandidateInv
    <3>8. ~k.mSentUseCandidate
      BY <1>4, <2>1
    <3> QED BY <1>1, <1>4, <3>1, <3>7, <3>8, ChosenUpdate DEF k
  <2>2. CASE m.mSentUseCandidate /\ m.mDtlsState = "Completed"
    <3>1. onReceivedFromRemote(c, m)
      BY <1>6, <2>2 DEF onVerifiedResponse
    <3> QED BY <1>1, <1>4, <2>2, <3>1, ReceivedUpdate DEF k
  <2>3. CASE m.mSentUseCandidate /\ m.mDtlsState # "Completed"
    <3>1. /\ Update(c, m)
          /\ UNCHANGED <<conn, jitterBuffers, mConnectingCandidateList, mSelectedCandidate>>
      BY <1>6, <2>3 DEF onVerifiedResponse
    <3> QED BY <1>5, <3>1
  <2> QED BY <2>1, <2>2, <2>3
<1> QED BY <1>3, <1>5, <1>6
\* The SSL object is made, or the private key is not valid.
LEMMA PrepareDtlsStep ==
    ASSUME PeerInv, NEW c \in Candidates, NEW keyOk, PrepareDtls(c, keyOk)
    PROVE  PeerInv'
<1> DEFINE k == cand[c]
           made == [k EXCEPT !.hasSsl = TRUE]
           failed == [k EXCEPT !.mDtlsState = "Failed"]
<1>1. Handler(c) /\ k.alive /\ k.mDtlsState = "Activating"
  BY DEF PrepareDtls, Handler
<1>2. CandidateInv(k) /\ k \in CandidateType
  BY DEF PeerInv, SelectionInv
<1>3. \/ /\ Update(c, made)
         /\ UNCHANGED <<conn, jitterBuffers, mConnectingCandidateList, mSelectedCandidate>>
      \/ onCandidateFailedToConnect(c, failed)
  BY DEF PrepareDtls
<1> HIDE DEF k
<1>4. /\ made \in CandidateType
      /\ \A f \in {"alive", "start", "connectTimeout", "lostTimeout", "restoreTimeout",
                   "requesting", "transactions", "mSentUseCandidate", "mDtlsState",
                   "mIsConnected"} : made[f] = k[f]
  <2>1. TRUE \in BOOLEAN
    OBVIOUS
  <2> QED BY <1>2, <2>1, Zenon DEF CandidateType
<1>5. /\ failed \in CandidateType
      /\ \A f \in {"alive", "start", "connectTimeout", "lostTimeout", "restoreTimeout",
                   "requesting", "transactions", "mSentUseCandidate", "mIsConnected"} :
            failed[f] = k[f]
  <2>1. "Failed" \in DtlsStates
    BY DEF DtlsStates
  <2> QED BY <1>2, <2>1, Zenon DEF CandidateType
<1>6. k.mSentUseCandidate /\ ~k.mIsConnected
  BY <1>1, <1>2 DEF CandidateInv
<1> HIDE DEF made, failed
<1>7. CandidateInv(made)
  BY <1>1, <1>2, <1>4 DEF CandidateInv
<1>8. CandidateInv(failed)
  BY <1>1, <1>2, <1>5, <1>6 DEF CandidateInv
<1>9. CASE /\ Update(c, made)
           /\ UNCHANGED <<conn, jitterBuffers, mConnectingCandidateList, mSelectedCandidate>>
  BY <1>1, <1>4, <1>7, <1>9, QuietUpdate DEF k
<1>10. CASE onCandidateFailedToConnect(c, failed)
  BY <1>1, <1>5, <1>8, <1>10, FailedUpdate DEF k
<1> QED BY <1>3, <1>9, <1>10

\* A candidate whose requests stop is otherwise the same.
LEMMA SilentIs ==
    ASSUME NEW k, CandidateInv(k), k.alive
    PROVE  LET n == [k EXCEPT !.requesting = FALSE]
           IN  /\ CandidateInv(n) /\ n \in CandidateType
               /\ \A f \in {"alive", "start", "connectTimeout", "lostTimeout",
                            "restoreTimeout", "transactions", "mSentUseCandidate",
                            "mDtlsState", "hasSsl", "mIsConnected"} : n[f] = k[f]
<1> DEFINE n == [k EXCEPT !.requesting = FALSE]
<1>1. k \in CandidateType /\ FALSE \in BOOLEAN
  BY DEF CandidateInv
<1>2. n \in CandidateType
  BY <1>1, Zenon DEF CandidateType
<1>3. \A f \in {"alive", "start", "connectTimeout", "lostTimeout", "restoreTimeout",
                "transactions", "mSentUseCandidate", "mDtlsState", "hasSsl",
                "mIsConnected"} : n[f] = k[f]
  BY <1>1, Zenon DEF CandidateType
<1>4. ~n.requesting
  BY <1>1 DEF CandidateType
<1> HIDE DEF n
<1>5. CandidateInv(n)
  BY <1>2, <1>3, <1>4 DEF CandidateInv
<1> QED BY <1>2, <1>3, <1>5 DEF n

\* The handshake goes on, completes, or fails.
LEMMA DtlsHandshakeStep ==
    ASSUME PeerInv, NEW c \in Candidates, NEW outcome \in Outcomes, DtlsHandshake(c, outcome)
    PROVE  PeerInv'
<1> DEFINE k == cand[c]
           m == [k EXCEPT !.requesting = FALSE]
           up == [m EXCEPT !.mDtlsState = "Completed"]
           down == [m EXCEPT !.mDtlsState = "Failed", !.hasSsl = FALSE, !.connectTimeout = Idle]
<1>1. Handler(c) /\ k.alive /\ k.mDtlsState = "Activating"
  BY DEF DtlsHandshake, Handler
<1>2. CandidateInv(k)
  BY DEF PeerInv, SelectionInv
<1>3. \/ /\ Update(c, m)
         /\ UNCHANGED <<conn, jitterBuffers, mConnectingCandidateList, mSelectedCandidate>>
      \/ onReceivedFromRemote(c, up)
      \/ onCandidateFailedToConnect(c, down)
  BY DEF DtlsHandshake, Outcomes
<1> HIDE DEF k
<1>4. /\ CandidateInv(m) /\ m \in CandidateType
      /\ \A f \in {"alive", "start", "connectTimeout", "mSentUseCandidate", "mDtlsState",
                   "mIsConnected"} : m[f] = k[f]
  BY <1>1, <1>2, SilentIs
<1> HIDE DEF m
<1>5. m.mSentUseCandidate /\ ~m.mIsConnected /\ m.alive
  BY <1>1, <1>4 DEF CandidateInv
<1>6. /\ up \in CandidateType /\ up.mDtlsState = "Completed"
      /\ \A f \in {"alive", "start", "connectTimeout", "lostTimeout", "restoreTimeout",
                   "requesting", "transactions", "mSentUseCandidate", "mIsConnected"} :
            up[f] = m[f]
  <2>1. "Completed" \in DtlsStates
    BY DEF DtlsStates
  <2>2. up \in CandidateType
    BY <1>4, <2>1, Zenon DEF CandidateType
  <2>3. up.mDtlsState = "Completed"
    BY <1>4 DEF CandidateType
  <2> QED BY <1>4, <2>2, <2>3, Zenon DEF CandidateType
<1>7. /\ down \in CandidateType
      /\ \A f \in {"alive", "start", "lostTimeout", "restoreTimeout",
                   "requesting", "transactions", "mSentUseCandidate", "mIsConnected"} :
            down[f] = m[f]
  <2>1. "Failed" \in DtlsStates /\ FALSE \in BOOLEAN /\ Idle \in Timer
    BY DEF DtlsStates, Timer
  <2>2. down \in CandidateType
    BY <1>4, <2>1, Zenon DEF CandidateType
  <2> QED BY <1>4, <2>2, Zenon DEF CandidateType
<1> HIDE DEF up, down
<1>8. CandidateInv(up)
  BY <1>4, <1>5, <1>6 DEF CandidateInv
<1>9. CandidateInv(down)
  BY <1>4, <1>5, <1>7 DEF CandidateInv
<1>10. CASE /\ Update(c, m)
            /\ UNCHANGED <<conn, jitterBuffers, mConnectingCandidateList, mSelectedCandidate>>
  BY <1>1, <1>4, <1>5, <1>10, QuietUpdate DEF k
<1>11. CASE onReceivedFromRemote(c, up)
  BY <1>1, <1>4, <1>5, <1>6, <1>8, <1>11, ReceivedUpdate DEF k
<1>12. CASE onCandidateFailedToConnect(c, down)
  BY <1>1, <1>4, <1>5, <1>7, <1>9, <1>12, FailedUpdate DEF k
<1> QED BY <1>3, <1>10, <1>11, <1>12

\* The peer ended DTLS: the candidate is the selected one, so the connection ends.
LEMMA DtlsDisconnectedStep ==
    ASSUME PeerInv, NEW c \in Candidates, NEW graceful, DtlsDisconnected(c, graceful)
    PROVE  PeerInv'
<1> DEFINE k == cand[c]
           n == [k EXCEPT !.requesting = FALSE]
           s == IF graceful THEN "Closed" ELSE "Failed"
<1>1. /\ Handler(c) /\ k.alive /\ k.mDtlsState = "Completed" /\ Update(c, n)
      /\ onCandidateDtlsDisconnected(c, graceful)
      /\ UNCHANGED <<jitterBuffers, mConnectingCandidateList, mSelectedCandidate>>
      /\ Running /\ UNCHANGED mDirection
  BY DEF DtlsDisconnected, Handler, sdp
<1>2. CandidateInv(k)
  BY DEF PeerInv, SelectionInv
<1>3. mSelectedCandidate = c
  BY <1>1, <1>2, ChosenIs DEF PeerInv, CandidateInv
<1> HIDE DEF k
<1>4. /\ CandidateInv(n)
      /\ \A f \in {"alive", "mSentUseCandidate", "mIsConnected"} : n[f] = k[f]
  BY <1>1, <1>2, SilentIs
<1> HIDE DEF n
<1>5. SelectionInv' /\ cand'[c] = n /\ \A d \in Candidates \ {c} : cand'[d] = cand[d]
  BY <1>1, <1>4, UpdateSelection DEF PeerInv, k
<1>6. ReportLegal /\ mConnectionState' \in Terminal
  <2>1. setConnectionState(s)
    BY <1>1, <1>3 DEF onCandidateDtlsDisconnected
  <2>2. s \in LC!ConnectionStates \ {"Inactive"} /\ s \in Terminal
    BY DEF LC!ConnectionStates, Terminal, LC!Terminal
  <2> HIDE DEF s
  <2> QED BY <1>1, <2>1, <2>2, setConnectionStateIs
<1>7. WatchInv'
  BY <1>6 DEF WatchInv, Terminal, LC!Terminal
<1>8. JitterBuffersWhileConnected'
  BY <1>1, <1>4, <1>5 DEF PeerInv, JitterBuffersWhileConnected, k
<1> QED BY <1>1, <1>5, <1>6, <1>7, <1>8, HandlerStep

\* A media or control packet is a sign of life.
LEMMA ReceiveRtcStep ==
    ASSUME PeerInv, NEW c \in Candidates, ReceiveRtc(c)
    PROVE  PeerInv'
<1> DEFINE k == cand[c]
<1>1. Handler(c) /\ k.alive /\ k.mDtlsState = "Completed" /\ onReceivedFromRemote(c, k)
  BY DEF ReceiveRtc, Handler
<1>2. CandidateInv(k)
  BY DEF PeerInv, SelectionInv
<1> QED BY <1>1, <1>2, ReceivedUpdate

\* The time limit of an attempt to connect.
LEMMA ConnectTimeoutExpiredStep ==
    ASSUME PeerInv, NEW c \in Candidates, ConnectTimeoutExpired(c)
    PROVE  PeerInv'
<1> DEFINE k == cand[c]
           n == [k EXCEPT !.connectTimeout = Idle]
<1>1. Handler(c) /\ k.alive /\ onCandidateFailedToConnect(c, n)
  BY DEF ConnectTimeoutExpired, Handler
<1>2. CandidateInv(k) /\ k \in CandidateType
  BY DEF PeerInv, SelectionInv
<1> HIDE DEF k
<1>3. /\ n \in CandidateType
      /\ \A f \in {"alive", "start", "lostTimeout", "restoreTimeout", "requesting",
                   "transactions", "mSentUseCandidate", "mDtlsState", "mIsConnected"} :
            n[f] = k[f]
  <2>1. Idle \in Timer
    BY DEF Timer
  <2> QED BY <1>2, <2>1, Zenon DEF CandidateType
<1> HIDE DEF n
<1>4. CandidateInv(n)
  BY <1>1, <1>2, <1>3 DEF CandidateInv
<1> QED BY <1>1, <1>3, <1>4, FailedUpdate DEF k

\* The request to restore the connection goes out again.
LEMMA RestoreTimeoutExpiredStep ==
    ASSUME PeerInv, NEW c \in Candidates, RestoreTimeoutExpired(c)
    PROVE  PeerInv'
<1> DEFINE k == cand[c]
           m == [k EXCEPT !.restoreTimeout = ConnectTimeout]
           n == Requested(m)
<1>1. /\ Handler(c) /\ k.alive /\ k.restoreTimeout = 0 /\ Update(c, n)
      /\ UNCHANGED <<conn, jitterBuffers, mConnectingCandidateList, mSelectedCandidate>>
  BY DEF RestoreTimeoutExpired, Handler
<1>2. CandidateInv(k) /\ k \in CandidateType
  BY DEF PeerInv, SelectionInv
<1>3. k.mSentUseCandidate /\ k.start = Idle
  BY <1>1, <1>2 DEF CandidateInv, Idle
<1> HIDE DEF k
<1>4. /\ m \in CandidateType
      /\ \A f \in {"alive", "start", "connectTimeout", "lostTimeout", "mSentUseCandidate",
                   "mDtlsState", "mIsConnected"} : m[f] = k[f]
  <2>1. ConnectTimeout \in Timer
    BY PeerAssumption DEF Timer
  <2> QED BY <1>2, <2>1, Zenon DEF CandidateType
<1> HIDE DEF m
<1>5. /\ n \in CandidateType
      /\ \A f \in {"alive", "start", "connectTimeout", "lostTimeout", "mSentUseCandidate",
                   "mDtlsState", "mIsConnected"} : n[f] = m[f]
  BY <1>4, RequestedIs
<1> HIDE DEF n
<1>6. CandidateInv(n) /\ n.alive
  BY <1>1, <1>2, <1>3, <1>4, <1>5 DEF CandidateInv
<1>7. /\ n.mSentUseCandidate = k.mSentUseCandidate /\ n.mIsConnected = k.mIsConnected
      /\ n.start = k.start /\ n.connectTimeout = k.connectTimeout
  BY <1>4, <1>5
<1> QED BY <1>1, <1>6, <1>7, QuietUpdate DEF k
-----------------------------------------------------------------------------
\* The theorems.

\* Every step of the connection preserves the invariant.
LEMMA PeerInvNext == PeerInv /\ [Next]_vars => PeerInv'
<1> SUFFICES ASSUME PeerInv, [Next]_vars PROVE PeerInv'
  OBVIOUS
<1>1. CASE UNCHANGED vars
  <2> USE <1>1 DEF vars, sdp, conn, candidates, data, messages, frames
  <2>1. SelectionInv'
    BY DEF PeerInv, SelectionInv, OneVoice
  <2>2. LifeInv'
    BY DEF PeerInv, LifeInv
  <2>3. WatchInv' /\ JitterBuffersWhileConnected'
    BY DEF PeerInv, WatchInv, JitterBuffersWhileConnected
  <2>4. HandOverInv'
    BY DEF PeerInv, HandOverInv, NoMessageLost
  <2> QED BY <2>1, <2>2, <2>3, <2>4 DEF PeerInv
<1>2. CASE AppStep
  <2>1. ASSUME NEW offer \in Offers, setOffer(offer) PROVE PeerInv'
    BY <2>1, setOfferStep
  <2>2. ASSUME NEW offer \in Offers, NEW style \in Styles,
               setAnswer(offer, parse(offer, Answer(offer, style)))
        PROVE  PeerInv'
    BY <2>2, setAnswerStep
  <2>3. ASSUME NEW size \in MessageSizes, sendDataChannel(size) PROVE PeerInv'
    BY <2>3, sendDataChannelStep
  <2>4. ASSUME NEW t \in DOMAIN mTrackEntryList, QueueFrame(t) PROVE PeerInv'
    BY <2>4, QueueFrameStep
  <2>5. ASSUME NEW t \in AppThreads, close(t) \/ closeJoined(t) PROVE PeerInv'
    BY <2>5, closeStep
  <2> QED BY <1>2, <2>1, <2>2, <2>3, <2>4, <2>5, Zenon DEF AppStep
<1>3. CASE WorkerStep
  BY <1>3, NotifyListenerStep, StartThreadStep, startConnectingStep, ExitLoopStep,
     ThreadExitStep DEF WorkerStep
<1>4. CASE PassOn
  BY <1>4, PassOnStep
<1>5. CASE Tick
  BY <1>5, TickStep
<1>6. ASSUME NEW c \in Candidates, TimerStep(c) PROVE PeerInv'
  BY <1>6, startCandidateStep, ConnectTimeoutExpiredStep, onConnectionLostTimeoutStep,
     RestoreTimeoutExpiredStep DEF TimerStep
<1>7. ASSUME NEW c \in Candidates, PacketStep(c) PROVE PeerInv'
  <2>1. ASSUME NEW n \in 0..MaxTransactions, forgetExpiredTransactions(c, n) PROVE PeerInv'
    BY <2>1, forgetExpiredTransactionsStep
  <2>2. ASSUME NEW fault \in Faults, onReceivedStunMessage(c, fault) PROVE PeerInv'
    BY <2>2, onReceivedStunMessageStep
  <2>3. ASSUME NEW ok \in BOOLEAN, PrepareDtls(c, ok) PROVE PeerInv'
    BY <2>3, PrepareDtlsStep
  <2>4. ASSUME NEW ok \in BOOLEAN, DtlsDisconnected(c, ok) PROVE PeerInv'
    BY <2>4, DtlsDisconnectedStep
  <2>5. ASSUME NEW outcome \in Outcomes, DtlsHandshake(c, outcome) PROVE PeerInv'
    BY <2>5, DtlsHandshakeStep
  <2>6. CASE RepeatStunRequest(c)
    BY <2>6, RepeatStunRequestStep
  <2>7. CASE ReceiveRtc(c)
    BY <2>7, ReceiveRtcStep
  <2> QED BY <1>7, <2>1, <2>2, <2>3, <2>4, <2>5, <2>6, <2>7, Zenon DEF PacketStep
<1> QED BY <1>1, <1>2, <1>3, <1>4, <1>5, <1>6, <1>7 DEF Next

\* The inductive invariant of the connection: candidates, worker thread, listener, time
\* limits and queues fit together after every step of every thread.
THEOREM ConnectionInvariant == Spec => []PeerInv
  BY PeerInvInit, PeerInvNext, PTL DEF Spec

\* OneVoice for any number of hosts: a candidate that was given up never reports again,
\* since onCandidateIceConnected and onCandidateFailedToConnect destroy it.
THEOREM OneCandidateSpeaks == Spec => []OneVoice
<1>1. PeerInv => OneVoice
  BY DEF PeerInv, SelectionInv
<1> QED BY <1>1, ConnectionInvariant, PTL

\* JitterBuffersWhileConnected for any number of hosts and reconnections: the media path
\* never looks for a jitter buffer that onCandidateConnecting took away.
THEOREM JitterBuffersReady == Spec => []JitterBuffersWhileConnected
<1>1. PeerInv => JitterBuffersWhileConnected
  BY DEF PeerInv
<1> QED BY <1>1, ConnectionInvariant, PTL

\* WatchdogArmed for any time limits: while the loop runs, the connect timeout or the
\* connection lost timeout is scheduled, whatever was cancelled and restarted before.
THEOREM AlwaysWatched == Spec => []WatchdogArmed
<1>1. ASSUME PeerInv PROVE WatchdogArmed
  <2> SUFFICES ASSUME thread = "running", ~Quitting
               PROVE  \/ /\ mConnectionState = "Connecting"
                         /\ \E c \in Candidates :
                               cand[c].start # Idle \/ cand[c].connectTimeout # Idle
                      \/ /\ mConnectionState = "Connected"
                         /\ cand[mSelectedCandidate].lostTimeout # Idle
    BY DEF WatchdogArmed
  <2>1. mConnectionState \in {"Connecting", "Connected"}
    BY <1>1 DEF PeerInv, LifeInv, Quitting, LC!ConnectionStates, Terminal, LC!Terminal
  <2>2. CASE mConnectionState = "Connecting"
    <3>1. mSelectedCandidate # None \/ mConnectingCandidateList # {}
      BY <1>1, <2>2 DEF PeerInv, WatchInv
    <3>2. PICK c \in Candidates : cand[c].alive
      BY <1>1, <3>1 DEF PeerInv, SelectionInv, OneVoice
    <3>3. cand[c].start # Idle \/ cand[c].connectTimeout # Idle
      BY <1>1, <2>2, <3>2 DEF PeerInv, WatchInv
    <3> QED BY <2>2, <3>3
  <2>3. CASE mConnectionState = "Connected"
    <3>1. mSelectedCandidate \in Candidates /\ cand[mSelectedCandidate].mIsConnected
      BY <1>1, <2>3 DEF PeerInv, WatchInv, SelectionInv
    <3> QED BY <1>1, <2>3, <3>1 DEF PeerInv, SelectionInv, CandidateInv
  <2> QED BY <2>1, <2>2, <2>3
<1> QED BY <1>1, ConnectionInvariant, PTL

\* QuietAfterJoin for any number of threads in close(): the join in close() returns after
\* the last listener call and the last candidate.
THEOREM NothingAfterJoin == Spec => []QuietAfterJoin
<1>1. PeerInv => QuietAfterJoin
  BY DEF PeerInv, LifeInv, QuietAfterJoin
<1> QED BY <1>1, ConnectionInvariant, PTL

\* NoMessageLost for any number of messages and frames: the queues that
\* networkThreadWorkerFunc swaps out lose and reorder nothing.
THEOREM MessagesHandedOver == Spec => []NoMessageLost
<1>1. PeerInv => NoMessageLost
  BY DEF PeerInv, HandOverInv
<1> QED BY <1>1, ConnectionInvariant, PTL

\* The safety part of ImplementsLifecycle: every call of the listener is a step of
\* ConnectionLifecycle, and nothing else changes what it knows.
THEOREM ListenerSeesLifecycle == Spec => LC!Init /\ [][LC!Next]_lastTold
<1>1. Init => LC!Init
  BY DEF Init, LC!Init
<1>2. ASSUME PeerInv, [Next]_vars PROVE [LC!Next]_lastTold
  <2>1. CASE NotifyListener
    <3>1. toNotify # None /\ lastTold' = toNotify
      BY <2>1 DEF NotifyListener
    <3> QED BY <1>2, <3>1 DEF PeerInv, LifeInv, Terminal, LC!Next, LC!Start, LC!Connect,
         LC!Disconnect, LC!End
  <2>2. CASE ~NotifyListener
    <3>1. CASE AppStep
      BY <3>1 DEF AppStep, setOffer, setAnswer, sendDataChannel, QueueFrame, close, closeJoined
    <3>2. CASE WorkerStep
      BY <2>2, <3>2 DEF WorkerStep, StartThread, startConnecting, ExitLoop, ThreadExit
    <3>3. CASE PassOn \/ Tick
      BY <3>3 DEF PassOn, Tick
    <3>4. ASSUME NEW c \in Candidates, TimerStep(c) \/ PacketStep(c) PROVE UNCHANGED lastTold
      <4>1. Handler(c)
        BY <3>4 DEF TimerStep, PacketStep, startCandidate, ConnectTimeoutExpired,
           onConnectionLostTimeout, RestoreTimeoutExpired, RepeatStunRequest,
           forgetExpiredTransactions, onReceivedStunMessage, PrepareDtls, DtlsDisconnected,
           DtlsHandshake, ReceiveRtc
      <4> QED BY <4>1 DEF Handler
    <3>5. CASE UNCHANGED vars
      BY <3>5 DEF vars
    <3> QED BY <1>2, <3>1, <3>2, <3>3, <3>4, <3>5 DEF Next
  <2> QED BY <2>1, <2>2
<1> QED BY <1>1, <1>2, ConnectionInvariant, PTL DEF Spec

=============================================================================
