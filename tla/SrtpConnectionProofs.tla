------------------------ MODULE SrtpConnectionProofs ------------------------
(***************************************************************************)
(* For every profile, every number of sources and every size of the        *)
(* window: a receiver finds the fields of a control packet where the peer  *)
(* put them, decrypts it, and accepts one packet of those that share an    *)
(* index.                                                                  *)
(***************************************************************************)
EXTENDS SrtpConnection, SequenceLemmas, FiniteSetTheorems

-----------------------------------------------------------------------------
\* The wire.

\* The recursion that counts the bytes of a wire's fields has a solution.
LEMMA BytesIs ==
    ASSUME NEW wire, Len(wire) \in Nat
    PROVE  Bytes(wire) = [i \in 0..Len(wire) |->
                            IF i = 0 THEN 0 ELSE Bytes(wire)[i - 1] + wire[i].size]
<1> DEFINE Eq(g, n) == g = [i \in 0..n |-> IF i = 0 THEN 0 ELSE g[i - 1] + wire[i].size]
           T == {n \in Nat : \E g : Eq(g, n)}
<1>1. 0 \in T
  <2>1. Eq([i \in 0..0 |-> 0], 0)
    OBVIOUS
  <2> QED BY <2>1
<1>2. ASSUME NEW n \in Nat, n \in T PROVE n + 1 \in T
  <2>1. PICK g : Eq(g, n)
    BY <1>2
  <2> DEFINE h == [i \in 0..(n + 1) |-> IF i = n + 1 THEN g[n] + wire[n + 1].size ELSE g[i]]
  <2>2. ASSUME NEW i \in 0..(n + 1)
        PROVE  h[i] = IF i = 0 THEN 0 ELSE h[i - 1] + wire[i].size
    <3>1. CASE i = n + 1
      BY <3>1
    <3>2. CASE i # n + 1
      <4>1. i \in 0..n /\ h[i] = g[i]
        BY <3>2
      <4>2. g[i] = IF i = 0 THEN 0 ELSE g[i - 1] + wire[i].size
        BY <2>1, <4>1
      <4>3. i # 0 => h[i - 1] = g[i - 1]
        BY <4>1
      <4> QED BY <4>1, <4>2, <4>3
    <3> QED BY <3>1, <3>2
  <2>3. h = [i \in 0..(n + 1) |-> h[i]]
    OBVIOUS
  <2> HIDE DEF h
  <2>4. Eq(h, n + 1)
    BY <2>2, <2>3
  <2> QED BY <2>4
<1>3. Nat \subseteq T
  <2> HIDE DEF T
  <2> QED BY <1>1, <1>2, NatSetInduction
<1>4. \E g : Eq(g, Len(wire))
  BY <1>3
<1>5. Bytes(wire) = CHOOSE g : Eq(g, Len(wire))
  BY DEF Bytes
<1> QED BY <1>4, <1>5

\* The bytes of the fields of a control packet, counted from its end.
LEMMA FourFields ==
    ASSUME NEW a, NEW b, NEW c, NEW d,
           a.size \in Nat, b.size \in Nat, c.size \in Nat, d.size \in Nat,
           b.size > 0, c.size > 0, d.size > 0
    PROVE  LET wire == <<a, b, c, d>>
           IN /\ FromEnd(wire, d.size) = d.value
              /\ FromEnd(wire, c.size + d.size) = c.value
<1> DEFINE wire == <<a, b, c, d>>
<1>1. /\ Len(wire) = 4 /\ DOMAIN wire = 1..4
      /\ wire[1] = a /\ wire[2] = b /\ wire[3] = c /\ wire[4] = d
  OBVIOUS
<1> HIDE DEF wire
<1> DEFINE B == Bytes(wire)
<1>2. B = [i \in 0..4 |-> IF i = 0 THEN 0 ELSE B[i - 1] + wire[i].size]
  <2>1. Len(wire) \in Nat
    BY <1>1
  <2>2. B = [i \in 0..Len(wire) |-> IF i = 0 THEN 0 ELSE B[i - 1] + wire[i].size]
    BY <2>1, BytesIs, Zenon
  <2> QED BY <1>1, <2>2
<1> HIDE DEF B
<1>3. B[0] = 0 /\ B[1] = B[0] + a.size /\ B[2] = B[1] + b.size
      /\ B[3] = B[2] + c.size /\ B[4] = B[3] + d.size
  BY <1>1, <1>2
<1>4. /\ B[1] = a.size /\ B[2] = a.size + b.size /\ B[3] = a.size + b.size + c.size
      /\ B[4] = a.size + b.size + c.size + d.size
  BY <1>3
<1> DEFINE starts(o) == {i \in 1..4 : B[4] - B[i - 1] = o}
<1>5. starts(d.size) = {4}
  BY <1>3, <1>4
<1>6. starts(c.size + d.size) = {3}
  BY <1>3, <1>4
<1>7. \A o : FromEnd(wire, o) = IF starts(o) = {} THEN NoField
                                ELSE wire[CHOOSE i \in starts(o) : TRUE].value
  BY <1>1 DEF FromEnd, WireLength, B
<1> HIDE DEF starts
<1>8. /\ FromEnd(wire, d.size) = wire[4].value
      /\ FromEnd(wire, c.size + d.size) = wire[3].value
  BY <1>5, <1>6, <1>7
<1> QED BY <1>1, <1>8 DEF wire
\* What was encrypted with a key and an IV is decrypted with the same ones.
LEMMA DecryptEncrypt ==
    ASSUME NEW key, NEW iv, NEW body
    PROVE  Decrypt(key, iv, Encrypt(key, iv, body)) = body
BY DEF Decrypt, Encrypt

\* The two ends have opposite DTLS roles, so the keys one end sends with are those
\* the other receives with.
LEMMA KeysMatch ==
    ASSUME isSetupActive \in BOOLEAN
    PROVE  /\ Local.receiveRtp = Peer.sendRtp /\ Local.receiveRtcp = Peer.sendRtcp
           /\ Local.profile = mProfileId /\ Peer.profile = mProfileId
BY DEF Local, Peer, create, createCrypto

\* getControlSequenceNumber and unprotectReceiveControl on a packet of the peer, for
\* each profile and whether or not the peer encrypted it.
LEMMA ControlPacketReadable ==
    ASSUME mProfileId \in Profiles, isSetupActive \in BOOLEAN,
           NEW source, NEW i \in Nat \ {0}
    PROVE  /\ getControlSequenceNumber(ControlWire(source, i)) = Trailer(i, PeerEncrypts(i))
           /\ unprotectReceiveControl(Local, ControlWire(source, i)) = ControlPacket(source, i)
<1> DEFINE v == Peer.sendRtcp
           e == PeerEncrypts(i)
           p == ControlPacket(source, i)
           iv == ControlIV(v, p.ssrc, i)
           trailer == Trailer(i, e)
           body == IF e THEN Encrypt(v.key, iv, p.body) ELSE p.body
           wire == ControlWire(source, i)
           f1 == Field(p.ssrc, 8)
           f2 == Field(body, 4 * i)
           ft == Field(trailer, 4)
<1>1. Local.receiveRtcp = v /\ Local.profile = mProfileId /\ Peer.profile = mProfileId
  BY KeysMatch
<1>2. p = [ssrc |-> "control", body |-> <<source, i>>, size |-> 4 * i]
  BY DEF ControlPacket
<1>3. trailer.index = i /\ trailer.encrypted = e
  BY DEF Trailer
<1>4. f1.value = p.ssrc /\ f2.value = body /\ f2.size = 4 * i
  BY DEF Field
<1>5. ASSUME NEW w, w[1] = f1, w[2] = f2
      PROVE  ControlBody(v, w, trailer) = p.body
  <2>1. w[1].value = p.ssrc /\ w[2].value = body
    BY <1>4, <1>5, Zenon
  <2>2. e => Decrypt(v.key, iv, body) = p.body
    BY DecryptEncrypt
  <2> QED BY <1>3, <2>1, <2>2 DEF ControlBody
<1>6. CASE mProfileId \in GCM
  <2> DEFINE tag == Digest(v.key, iv, <<p.ssrc, trailer, p.body>>, 16)
             fg == Field(tag, 16)
  <2>1. wire = <<f1, f2, fg, ft>>
    BY <1>1, <1>2, <1>6 DEF ControlWire, protectSendControl, protectSendControlGCM,
       kRTCP_HeaderSize, kRTCP_TrailerSize, kAESGCM_TagSize
  <2>2. wire[1] = f1 /\ wire[2] = f2
    BY <2>1
  <2>3. FromEnd(wire, 4) = trailer /\ FromEnd(wire, 20) = tag
    <3>1. f1.size = 8 /\ f2.size = 4 * i /\ fg.size = 16 /\ ft.size = 4
          /\ fg.value = tag /\ ft.value = trailer
      BY DEF Field
    <3> HIDE DEF f1, f2, fg, ft, tag, trailer, wire
    <3>2. FromEnd(<<f1, f2, fg, ft>>, 4) = trailer /\ FromEnd(<<f1, f2, fg, ft>>, 16 + 4) = tag
      <4>1. /\ FromEnd(<<f1, f2, fg, ft>>, ft.size) = ft.value
            /\ FromEnd(<<f1, f2, fg, ft>>, fg.size + ft.size) = fg.value
        BY <3>1, FourFields
      <4> QED BY <3>1, <4>1
    <3> QED BY <2>1, <3>2
  <2>4. getControlSequenceNumber(wire) = trailer
    BY <1>6, <2>3 DEF getControlSequenceNumber
  <2>5. unprotectReceiveControl(Local, wire) = unprotectReceiveControlGCM(Local, wire)
    BY <1>1, <1>6 DEF unprotectReceiveControl
  <2>6. ControlBody(v, wire, trailer) = p.body
    BY <1>5, <2>2
  <2> HIDE DEF trailer, tag, wire, body, p
  <2>7. unprotectReceiveControlGCM(Local, wire)
           = [ssrc |-> p.ssrc, body |-> p.body, size |-> 4 * i]
    BY <1>1, <1>3, <1>4, <2>2, <2>3, <2>6 DEF unprotectReceiveControlGCM, kRTCP_TrailerSize,
       kAESGCM_TagSize, tag
  <2> QED BY <1>2, <2>4, <2>5, <2>7 DEF trailer, wire, p
<1>7. CASE mProfileId \notin GCM
  <2> DEFINE tag == Digest(v.auth, <<>>, <<p.ssrc, body, trailer>>, 10)
             fg == Field(tag, 10)
  <2>1. wire = <<f1, f2, ft, fg>>
    BY <1>1, <1>2, <1>7 DEF ControlWire, protectSendControl, protectSendControlCM,
       kRTCP_HeaderSize, kRTCP_TrailerSize, ControlDigestSize
  <2>2. wire[1] = f1 /\ wire[2] = f2
    BY <2>1
  <2>3. FromEnd(wire, 14) = trailer /\ FromEnd(wire, 10) = tag
    <3>1. f1.size = 8 /\ f2.size = 4 * i /\ fg.size = 10 /\ ft.size = 4
          /\ fg.value = tag /\ ft.value = trailer
      BY DEF Field
    <3> HIDE DEF f1, f2, fg, ft, tag, trailer, wire
    <3>2. FromEnd(<<f1, f2, ft, fg>>, 10) = tag /\ FromEnd(<<f1, f2, ft, fg>>, 4 + 10) = trailer
      <4>1. /\ FromEnd(<<f1, f2, ft, fg>>, fg.size) = fg.value
            /\ FromEnd(<<f1, f2, ft, fg>>, ft.size + fg.size) = ft.value
        BY <3>1, FourFields
      <4> QED BY <3>1, <4>1
    <3> QED BY <2>1, <3>2
  <2>4. getControlSequenceNumber(wire) = trailer
    BY <1>7, <2>3 DEF getControlSequenceNumber
  <2>5. unprotectReceiveControl(Local, wire) = unprotectReceiveControlCM(Local, wire)
    BY <1>1, <1>7 DEF unprotectReceiveControl
  <2>6. ControlBody(v, wire, trailer) = p.body
    BY <1>5, <2>2
  <2> HIDE DEF trailer, tag, wire, body, p
  <2>7. unprotectReceiveControlCM(Local, wire)
           = [ssrc |-> p.ssrc, body |-> p.body, size |-> 4 * i]
    BY <1>1, <1>3, <1>4, <2>2, <2>3, <2>6 DEF unprotectReceiveControlCM, kRTCP_TrailerSize,
       ControlDigestSize, tag
  <2> QED BY <1>2, <2>4, <2>5, <2>7 DEF trailer, wire, p
<1> QED BY <1>6, <1>7
-----------------------------------------------------------------------------
\* The window of the control channel.

\* The proofs of the replay window, for the control channel: an index never rolls
\* over, and what was accepted is the set of indexes.
RW == INSTANCE ReplayProtectionProofs WITH
        MaxPossibleValue <- IndexCount - 1,
        MaxLap <- 0,
        MaxAccepted <- MaxControl + 1,
        mAllocated <- cAllocated, mCurMax <- cCurMax, mStorage <- cStorage,
        lap <- 0,
        accepted <- {<<0, g[2]>> : g \in controlGot}

\* Inductive invariant of the control channel: the window is exact, its indexes are
\* ones the peer has used, and one packet of each was accepted.
ControlInv ==
    /\ mProfileId \in Profiles
    /\ isSetupActive \in BOOLEAN
    /\ controlSent \in [ControlSources -> 0..MaxControl]
    /\ controlGot \subseteq ControlSources \X (1..MaxControl)
    /\ cCurMax <= MaxControl
    /\ RW!IndInv
    /\ \A a, b \in controlGot : a[2] = b[2] => a = b

\* The window's assumptions hold for the control channel.
LEMMA ControlWindowAssumption == RW!ReplayAssumption
BY SrtpAssumption DEF RW!ReplayAssumption

\* The window has room: no more indexes are accepted than the peer has used.
LEMMA FewAccepted ==
    ASSUME controlGot \subseteq ControlSources \X (1..MaxControl)
    PROVE  Cardinality({<<0, g[2]>> : g \in controlGot}) < MaxControl + 1
<1> DEFINE A == {<<0, g[2]>> : g \in controlGot}
           P == {0} \X (1..MaxControl)
<1>1. A \subseteq P
  OBVIOUS
<1>2. IsFiniteSet({0}) /\ Cardinality({0}) = 1
  BY FS_Singleton
<1>3. IsFiniteSet(1..MaxControl) /\ Cardinality(1..MaxControl) = MaxControl
  <2>1. MaxControl \in Nat
    BY SrtpAssumption
  <2> QED BY <2>1, FS_Interval
<1>4. IsFiniteSet(P) /\ Cardinality(P) = 1 * MaxControl
  <2>1. IsFiniteSet({0} \X (1..MaxControl))
        /\ Cardinality({0} \X (1..MaxControl)) = Cardinality({0}) * Cardinality(1..MaxControl)
    BY <1>2, <1>3, FS_Product, Zenon
  <2> QED BY <1>2, <1>3, <2>1, Zenon DEF P
<1>5. IsFiniteSet(A) /\ Cardinality(A) \in Nat /\ Cardinality(A) <= Cardinality(P)
  <2> HIDE DEF A, P
  <2> QED BY <1>1, <1>4, FS_Subset, FS_CardinalityType
<1> QED BY <1>4, <1>5, SrtpAssumption

\* An empty window is exact.
LEMMA ControlInvInit == Init => ControlInv
<1> SUFFICES ASSUME Init PROVE ControlInv
  OBVIOUS
<1>1. controlGot = {} /\ cCurMax = 0
  BY DEF Init, RC!rpInit
<1>2. RW!Init
  BY <1>1 DEF Init, RC!rpInit, RW!Init, RW!rpInit, RC!StorageBits, RW!StorageBits
<1>3. RW!IndInv
  BY <1>2, ControlWindowAssumption, RW!InitEstablishes
<1>4. controlSent \in [ControlSources -> 0..MaxControl]
  BY SrtpAssumption DEF Init
<1> QED BY <1>1, <1>3, <1>4, SrtpAssumption DEF Init, ControlInv

\* unprotectReceiveControl is a step of the window, for an index it has not seen.
LEMMA ReceiveControlStep ==
    ASSUME ControlInv, NEW source \in ControlSources, NEW i \in 1..MaxControl,
           ReceiveControl(source, i)
    PROVE  ControlInv'
<1> USE SrtpAssumption
<1>0. i \in Nat \ {0} /\ i \in RW!Values
  BY DEF RW!Values
<1>1. getControlSequenceNumber(ControlWire(source, i)).index = i
  BY <1>0, ControlPacketReadable DEF ControlInv, Trailer
<1>2. /\ RC!canProceed(i) /\ RC!set(i)
      /\ controlGot' = controlGot \cup {<<source, i>>}
      /\ UNCHANGED <<negotiated, controlSent>>
  BY <1>1 DEF ReceiveControl
<1>3. /\ controlGot \subseteq ControlSources \X (1..MaxControl)
      /\ cCurMax \in Nat /\ cCurMax <= MaxControl /\ RW!IndInv
  BY DEF ControlInv, RW!IndInv, RW!TypeOK, RW!Values
<1>4. RW!canProceed(i) /\ RW!set(i)
  BY <1>2 DEF RC!canProceed, RW!canProceed, RC!set, RW!set,
     RC!AheadPlain, RW!AheadPlain, RC!AheadAcrossRollover, RW!AheadAcrossRollover,
     RC!BehindInWindow, RW!BehindInWindow, RC!isSet, RW!isSet, RC!BitOf, RW!BitOf,
     RC!StorageBits, RW!StorageBits, RC!MaxDistanceForward, RW!MaxDistanceForward,
     RC!getRolloverForwardDistance, RW!getRolloverForwardDistance,
     RC!setFirst, RW!setFirst, RC!setAhead, RW!setAhead, RC!setBehind, RW!setBehind,
     RC!setForward, RW!setForward, RC!Passed, RW!Passed
<1>5. ~ RW!AheadAcrossRollover(i)
  BY <1>0, <1>3 DEF RW!AheadAcrossRollover, RW!getRolloverForwardDistance,
     RW!MaxDistanceForward
<1>6. RW!PacketOf(i) = <<0, i>>
  BY <1>5 DEF RW!PacketOf
<1>7. {<<0, g[2]>> : g \in controlGot'} = {<<0, g[2]>> : g \in controlGot} \cup {<<0, i>>}
  <2> DEFINE C == controlGot \cup {<<source, i>>}
  <2>1. {<<0, g[2]>> : g \in C} = {<<0, g[2]>> : g \in controlGot} \cup {<<0, i>>}
    <3>1. <<source, i>>[2] = i
      OBVIOUS
    <3> QED BY <3>1, Zenon
  <2>2. controlGot' = C
    BY <1>2
  <2> QED BY <2>1, <2>2
<1>8. RW!Accept(i)
  <2>1. \A S : RW!Cardinality(S) = Cardinality(S)
    BY DEF RW!Cardinality, Cardinality
  <2>2. RW!Cardinality({<<0, g[2]>> : g \in controlGot}) < MaxControl + 1
    BY <1>3, <2>1, FewAccepted
  <2> QED BY <1>4, <1>6, <1>7, <2>2 DEF RW!Accept
<1>9. RW!IndInv'
  BY <1>0, <1>3, <1>8, ControlWindowAssumption, RW!StepPreserves DEF RW!Next
<1>10. <<0, i>> \notin {<<0, g[2]>> : g \in controlGot}
  BY <1>0, <1>3, <1>4, <1>6, ControlWindowAssumption, RW!ExactRefusesReplays DEF RW!NoReplay
<1>11. \A g \in controlGot : g[2] # i
  BY <1>10
<1>12. \A a, b \in controlGot' : a[2] = b[2] => a = b
  BY <1>2, <1>11 DEF ControlInv
<1>13. cCurMax' <= MaxControl
  BY <1>3, <1>4 DEF RW!set, RW!setFirst, RW!setAhead, RW!setBehind, RW!setForward
<1>14. controlGot' \subseteq ControlSources \X (1..MaxControl)
  BY <1>2, <1>3
<1> QED BY <1>2, <1>9, <1>12, <1>13, <1>14 DEF ControlInv, negotiated

\* Every other step leaves the window alone or makes a new one.
LEMMA ControlInvNext == ControlInv /\ [Next]_vars => ControlInv'
<1> SUFFICES ASSUME ControlInv, [Next]_vars PROVE ControlInv'
  OBVIOUS
<1> USE DEF negotiated, control
<1>1. CASE UNCHANGED control /\ UNCHANGED negotiated
  BY <1>1 DEF ControlInv, RW!IndInv, RW!TypeOK, RW!WindowExact, RW!NothingNewer, RW!isSet
<1>2. ASSUME NEW source \in ControlSources, SendControl(source) PROVE ControlInv'
  <2>1. controlSent' \in [ControlSources -> 0..MaxControl]
    BY <1>2, SrtpAssumption DEF SendControl, ControlInv
  <2>2. UNCHANGED <<negotiated, cAllocated, cCurMax, cStorage, controlGot>>
    BY <1>2 DEF SendControl
  <2> QED BY <2>1, <2>2
          DEF ControlInv, RW!IndInv, RW!TypeOK, RW!WindowExact, RW!NothingNewer, RW!isSet
<1>3. CASE onPeerConnected
  <2>1. /\ cAllocated' = FALSE /\ cCurMax' = 0 /\ controlGot' = {}
        /\ cStorage' = [b \in 0..(RW!StorageBits - 1) |-> FALSE]
        /\ UNCHANGED <<negotiated, controlSent>>
    BY <1>3 DEF onPeerConnected, ControlInv, RW!IndInv, RW!TypeOK
  <2>2. RW!TypeOK'
    <3>1. cStorage' \in [0..(RW!StorageBits - 1) -> BOOLEAN]
      BY <2>1
    <3>2. cCurMax' \in RW!Values
      BY <2>1, SrtpAssumption DEF RW!Values
    <3>3. cAllocated' \in BOOLEAN
      BY <2>1
    <3>4. {<<0, g[2]>> : g \in controlGot'} \subseteq Nat \X RW!Values
      BY <2>1
    <3> QED BY <3>1, <3>2, <3>3, <3>4 DEF RW!TypeOK
  <2>3. RW!IndInv'
    BY <2>1, <2>2 DEF RW!IndInv, RW!WindowExact, RW!NothingNewer
  <2> QED BY <2>1, <2>3, SrtpAssumption DEF ControlInv
<1>4. CASE Send
  BY <1>1, <1>4 DEF Send
<1>5. ASSUME NEW n \in FirstIndex..LastIndex, ReceiveMedia(n) \/ ReceiveUndecryptable(n)
      PROVE  ControlInv'
  BY <1>1, <1>5 DEF ReceiveMedia, ReceiveUndecryptable
<1>6. CASE UNCHANGED vars
  BY <1>1, <1>6 DEF vars
<1> QED BY <1>2, <1>3, <1>4, <1>5, <1>6, ReceiveControlStep DEF Next

\* The window of the control channel stays exact: canProceed refuses exactly the
\* indexes that were accepted or are too old.
THEOREM ControlWindowExact == Spec => []ControlInv
BY ControlInvInit, ControlInvNext, PTL DEF Spec

\* Every control packet the peer sends, under every profile, role and source, has its
\* index read from the right place and decrypts to what was sent, and one packet of
\* those that share an index is accepted.
THEOREM ControlPacketsReadable == Spec => []ControlReadable
<1>1. ControlInv => ControlReadable
  <2> SUFFICES ASSUME ControlInv PROVE ControlReadable
    OBVIOUS
  <2>1. ASSUME NEW source \in ControlSources, NEW i \in 1..controlSent[source]
        PROVE  /\ getControlSequenceNumber(ControlWire(source, i)) = Trailer(i, PeerEncrypts(i))
               /\ unprotectReceiveControl(Local, ControlWire(source, i))
                     = ControlPacket(source, i)
    <3>1. i \in Nat \ {0}
      BY SrtpAssumption DEF ControlInv
    <3> QED BY <3>1, ControlPacketReadable DEF ControlInv
  <2> QED BY <2>1 DEF ControlReadable, ControlInv
<1> QED BY <1>1, ControlWindowExact, PTL
-----------------------------------------------------------------------------
\* Media.

\* The tag of a media packet is found at its end, and the packet is long enough.
LEMMA ThreeFields ==
    ASSUME NEW a, NEW b, NEW c, a.size \in Nat, b.size \in Nat, c.size \in Nat,
           b.size > 0, c.size > 0
    PROVE  LET wire == <<a, b, c>>
           IN /\ FromEnd(wire, c.size) = c.value
              /\ WireLength(wire) = a.size + b.size + c.size
<1> DEFINE wire == <<a, b, c>>
<1>1. /\ Len(wire) = 3 /\ DOMAIN wire = 1..3
      /\ wire[1] = a /\ wire[2] = b /\ wire[3] = c
  OBVIOUS
<1> HIDE DEF wire
<1> DEFINE B == Bytes(wire)
<1>2. B = [i \in 0..3 |-> IF i = 0 THEN 0 ELSE B[i - 1] + wire[i].size]
  BY <1>1, BytesIs
<1> HIDE DEF B
<1>3. B[0] = 0 /\ B[1] = B[0] + a.size /\ B[2] = B[1] + b.size /\ B[3] = B[2] + c.size
  BY <1>1, <1>2
<1>4. B[1] = a.size /\ B[2] = a.size + b.size /\ B[3] = a.size + b.size + c.size
  BY <1>3
<1> DEFINE starts(o) == {i \in 1..3 : B[3] - B[i - 1] = o}
<1>5. starts(c.size) = {3}
  BY <1>3, <1>4
<1>6. \A o : FromEnd(wire, o) = IF starts(o) = {} THEN NoField
                                ELSE wire[CHOOSE i \in starts(o) : TRUE].value
  BY <1>1 DEF FromEnd, WireLength, B
<1> HIDE DEF starts
<1>7. FromEnd(wire, c.size) = wire[3].value
  BY <1>5, <1>6
<1>8. WireLength(wire) = B[3]
  BY <1>1 DEF WireLength, B
<1> QED BY <1>1, <1>4, <1>7, <1>8 DEF wire

\* A media packet that the two ends protect and unprotect with the same rollover
\* count is read as it was sent.
LEMMA MediaPacketReadable ==
    ASSUME mProfileId \in Profiles, isSetupActive \in BOOLEAN, NEW n \in Nat,
           EstimatedRollover(Seq16(n)) = Roc(n)
    PROVE  Unprotected(n) = MediaPacket(n)
<1> DEFINE v == Peer.sendRtp
           p == MediaPacket(n)
           h == p.header
           iv == MediaIV(v, h, Roc(n))
           cipher == Encrypt(v.key, iv, p.payload)
           wire == MediaWire(n)
           size == getMediaProtectionOverhead(mProfileId)
           f1 == Field(h, HeaderSize(h))
           f2 == Field(cipher, p.size)
<1>1. Local.receiveRtp = v /\ Local.profile = mProfileId /\ Peer.profile = mProfileId
  BY KeysMatch
<1>2. /\ p = [header |-> h, payload |-> p.payload, size |-> p.size]
      /\ p.size \in Nat /\ p.size > 0 /\ p.size # 0
      /\ h.ext = NoExtension \/ h.ext = 1
  BY DEF MediaPacket
<1>3. HeaderSize(h) \in Nat
  BY <1>2 DEF HeaderSize, NoExtension
<1>4. size \in Nat /\ size > 0 /\ (mProfileId \in GCM => size = 16)
  BY DEF getMediaProtectionOverhead, Profiles, GCM, CM, kAESGCM_TagSize
<1>5. Decrypt(v.key, iv, cipher) = p.payload
  BY DecryptEncrypt
<1>6. Unprotected(n) = unprotectReceiveMedia(Local, wire, Roc(n))
  BY DEF Unprotected
<1>7. ASSUME NEW digest, wire = <<f1, f2, Field(digest, size)>>
      PROVE  /\ wire[1].value = h /\ wire[2].value = cipher /\ wire[2].size = p.size
             /\ FromEnd(wire, size) = digest /\ MediaFits(Local, wire)
  <2> DEFINE f3 == Field(digest, size)
  <2>1. f1.value = h /\ f2.value = cipher /\ f3.value = digest
        /\ f1.size = HeaderSize(h) /\ f2.size = p.size /\ f3.size = size
    BY DEF Field
  <2> HIDE DEF f1, f2, f3, h, p, cipher, wire, size
  <2>2. wire[1] = f1 /\ wire[2] = f2
    BY <1>7 DEF f3
  <2>3. /\ FromEnd(<<f1, f2, f3>>, f3.size) = f3.value
        /\ WireLength(<<f1, f2, f3>>) = f1.size + f2.size + f3.size
    BY <1>2, <1>3, <1>4, <2>1, ThreeFields
  <2>4. FromEnd(wire, size) = digest /\ WireLength(wire) = HeaderSize(h) + p.size + size
    BY <1>7, <2>1, <2>3 DEF f3
  <2>5. MediaFits(Local, wire)
    BY <1>1, <1>2, <1>3, <1>4, <2>1, <2>2, <2>4 DEF MediaFits, size
  <2> QED BY <2>1, <2>2, <2>4, <2>5
<1>8. CASE mProfileId \in GCM
  <2> DEFINE digest == Digest(v.key, iv, <<h, p.payload>>, 16)
  <2>1. wire = <<f1, f2, Field(digest, size)>>
    BY <1>1, <1>2, <1>8 DEF MediaWire, protectSendMedia, protectSendMediaGCM, ProtectWith,
       kAESGCM_TagSize
  <2>2. unprotectReceiveMedia(Local, wire, Roc(n)) = unprotectReceiveMediaGCM(Local, wire, Roc(n))
    BY <1>1, <1>8 DEF unprotectReceiveMedia
  <2>3. /\ wire[1].value = h /\ wire[2].value = cipher /\ wire[2].size = p.size
        /\ FromEnd(wire, size) = digest /\ MediaFits(Local, wire)
    BY <1>7, <2>1
  <2> HIDE DEF wire, cipher, p, h, size
  <2>4. unprotectReceiveMediaGCM(Local, wire, Roc(n))
          = [header |-> h, payload |-> p.payload, size |-> p.size]
    BY <1>1, <1>4, <1>5, <1>8, <2>3 DEF unprotectReceiveMediaGCM, kAESGCM_TagSize
  <2> QED BY <1>2, <1>6, <2>2, <2>4 DEF p
<1>9. CASE mProfileId \notin GCM
  <2> DEFINE digest == Digest(v.auth, <<>>, <<h, cipher, Roc(n)>>, size)
  <2>1. wire = <<f1, f2, Field(digest, size)>>
    BY <1>1, <1>2, <1>9 DEF MediaWire, protectSendMedia, protectSendMediaCM, ProtectWith
  <2>2. unprotectReceiveMedia(Local, wire, Roc(n)) = unprotectReceiveMediaCM(Local, wire, Roc(n))
    BY <1>1, <1>9 DEF unprotectReceiveMedia
  <2>3. /\ wire[1].value = h /\ wire[2].value = cipher /\ wire[2].size = p.size
        /\ FromEnd(wire, size) = digest /\ MediaFits(Local, wire)
    BY <1>7, <2>1
  <2> HIDE DEF wire, cipher, p, h
  <2>4. unprotectReceiveMediaCM(Local, wire, Roc(n))
          = [header |-> h, payload |-> p.payload, size |-> p.size]
    BY <1>1, <1>5, <2>3 DEF unprotectReceiveMediaCM
  <2> QED BY <1>2, <1>6, <2>2, <2>4 DEF p
<1> QED BY <1>8, <1>9
\* The index of the newest packet of the window.
Newest == rolloverCount * SeqCount + mCurMax

\* Inductive invariant of a media channel that was not reset: it knows the index of
\* its newest packet, and lastSequence16 lies in the window, in the same lap.
ChannelInv ==
    /\ delivered \subseteq FirstIndex..(nextIndex - 1)
    /\ rolloverCount \in Nat
    /\ mCurMax \in 0..(SeqCount - 1)
    /\ mAllocated \in BOOLEAN
    /\ mAllocated <=> delivered # {}
    /\ ~mAllocated => /\ lastSequence16 = None
                      /\ rolloverCount = 0
                      /\ nextIndex <= SeqCount
    /\ mAllocated => /\ Newest \in delivered
                     /\ \A n \in delivered : n <= Newest
                     /\ nextIndex - Newest <= MaxLoss + 1 \/ nextIndex - Newest <= MaxDelay
                     /\ lastSequence16 \in 0..mCurMax
                     /\ mCurMax - lastSequence16 < Size

MediaInv ==
    /\ mProfileId \in Profiles
    /\ isSetupActive \in BOOLEAN
    /\ nextIndex \in FirstIndex..(LastIndex + 1)
    /\ reconnects \in Nat
    /\ reconnects = 0 => ChannelInv
\* An index is its rollover count and its sequence number.
LEMMA IndexParts ==
    ASSUME NEW n \in Nat
    PROVE  /\ n = Roc(n) * SeqCount + Seq16(n)
           /\ Roc(n) \in Nat /\ Seq16(n) \in 0..(SeqCount - 1)
<1>1. SeqCount \in Nat /\ SeqCount > 0
  BY SrtpAssumption
<1>2. n = (n \div SeqCount) * SeqCount + (n % SeqCount)
      /\ n \div SeqCount \in Nat /\ n % SeqCount \in 0..(SeqCount - 1)
  BY <1>1
<1> QED BY <1>2 DEF Roc, Seq16

\* Two indexes less than a lap apart, told apart by their sequence numbers.
LEMMA SameLap ==
    ASSUME NEW q \in Int, NEW r \in Int, NEW x \in Int, NEW lo \in Int, NEW hi \in Int,
           q * SeqCount - r * SeqCount = x, lo <= x, x <= hi, -SeqCount < lo, hi < SeqCount
    PROVE  q = r
<1> DEFINE k == q - r
<1>1. SeqCount \in Nat /\ SeqCount > 0 /\ k \in Int
  BY SrtpAssumption
<1>2. k * SeqCount = x
  BY <1>1
<1> HIDE DEF k
<1>3. k = 0
  BY <1>1, <1>2, RW!SmallMultiple
<1> QED BY <1>3 DEF k

\* The window lets a packet through only within less than a lap of the newest one, so
\* its sequence number tells its lap, and the rollover test agrees.
LEMMA ProceedingIndex ==
    ASSUME MediaInv, reconnects = 0, NEW n \in InFlight, RP!canProceed(Seq16(n))
    PROVE  /\ EstimatedRollover(Seq16(n)) = Roc(n)
           /\ ~CrossesBack(Seq16(n))
           /\ \/ ~mAllocated /\ Roc(n) = 0 /\ ~CrossesForward(Seq16(n))
              \/ /\ mAllocated /\ RP!AheadPlain(Seq16(n))
                 /\ Roc(n) = rolloverCount /\ ~CrossesForward(Seq16(n))
              \/ /\ mAllocated /\ RP!AheadAcrossRollover(Seq16(n))
                 /\ Roc(n) = rolloverCount + 1 /\ CrossesForward(Seq16(n))
              \/ /\ mAllocated /\ RP!BehindInWindow(Seq16(n))
                 /\ Roc(n) = rolloverCount /\ ~CrossesForward(Seq16(n))
<1> USE SrtpAssumption
<1> DEFINE s == Seq16(n)
           q == Roc(n)
           c == mCurMax
           r == rolloverCount
           l == lastSequence16
           D == Size \div 4
           Lag == IF MaxLoss >= MaxDelay THEN MaxLoss ELSE MaxDelay
<1>0. ChannelInv
  BY DEF MediaInv
<1>1. /\ n \in Nat /\ nextIndex \in Nat /\ n < nextIndex /\ nextIndex - n <= MaxDelay
      /\ c \in 0..(SeqCount - 1) /\ r \in Nat /\ D \in Nat
  BY <1>0 DEF MediaInv, ChannelInv, InFlight
<1>2. n = q * SeqCount + s /\ q \in Nat /\ s \in 0..(SeqCount - 1)
  BY <1>1, IndexParts
<1>3. CASE ~mAllocated
  <2>1. l = None /\ r = 0 /\ n < SeqCount
    BY <1>0, <1>1, <1>3 DEF ChannelInv
  <2>2. q * SeqCount - 0 * SeqCount = n - s /\ 0 <= n - s /\ n - s <= SeqCount - 1
    <3>1. q * SeqCount \in Nat
      BY <1>2
    <3> QED BY <1>1, <1>2, <2>1, <3>1
  <2>3. q = 0
    <3>1. n - s \in Int /\ -SeqCount < 0 /\ SeqCount - 1 < SeqCount
      BY <1>1, <1>2
    <3> HIDE DEF q, s
    <3> QED BY <1>2, <2>2, <3>1, SameLap
  <2>4. ~CrossesBack(s) /\ ~CrossesForward(s)
    BY <2>1 DEF CrossesBack, CrossesForward
  <2> QED BY <1>3, <2>1, <2>3, <2>4 DEF EstimatedRollover
<1>4. CASE mAllocated
  <2>1. /\ Newest = r * SeqCount + c /\ Newest \in Nat /\ Newest < nextIndex
        /\ nextIndex - Newest <= MaxLoss + 1 \/ nextIndex - Newest <= MaxDelay
        /\ l \in 0..c /\ c - l < Size /\ l # None
    <3>1. l # None
      BY <1>0, <1>1, <1>4 DEF ChannelInv, None
    <3> QED BY <1>0, <1>1, <1>4, <3>1 DEF ChannelInv, Newest
  <2>2. /\ q * SeqCount - r * SeqCount = (n - Newest) - (s - c)
        /\ n - Newest <= Lag /\ n - Newest > -MaxDelay /\ n - Newest \in Int
    BY <1>1, <1>2, <2>1
  <2>3. CASE RP!AheadPlain(s)
    <3>1. s > c /\ s - c <= D
      BY <2>3 DEF RP!AheadPlain, RP!MaxDistanceForward
    <3>2. q = r
      <4> DEFINE x == (n - Newest) - (s - c)
      <4>1. x \in Int /\ -MaxDelay - D < x /\ x < Lag
        BY <1>1, <1>2, <2>2, <3>1
      <4>2. /\ -MaxDelay - D + 1 \in Int /\ -MaxDelay - D + 1 <= x /\ x <= Lag
            /\ -SeqCount < -MaxDelay - D + 1 /\ Lag < SeqCount /\ Lag \in Int
        BY <1>1, <4>1
      <4>3. q * SeqCount - r * SeqCount = x
        BY <2>2
      <4> HIDE DEF x, q, r, D, Lag
      <4> QED BY <1>1, <1>2, <4>1, <4>2, <4>3, SameLap
    <3>3. ~CrossesBack(s) /\ ~CrossesForward(s)
      BY <1>1, <1>2, <2>1, <3>1 DEF CrossesBack, CrossesForward
    <3> QED BY <1>4, <2>3, <3>2, <3>3 DEF EstimatedRollover
  <2>4. CASE RP!AheadAcrossRollover(s)
    <3>1. s < c /\ SeqCount - c + s <= D
      BY <1>1, <1>2, <2>4 DEF RP!AheadAcrossRollover, RP!MaxDistanceForward,
         RP!getRolloverForwardDistance
    <3>2. q = r + 1
      <4> DEFINE x == (n - Newest) - (s - c) - SeqCount
      <4>1. x \in Int /\ -MaxDelay - D < x /\ x < Lag
        BY <1>1, <1>2, <2>2, <3>1
      <4>2. /\ -MaxDelay - D + 1 \in Int /\ -MaxDelay - D + 1 <= x /\ x <= Lag
            /\ -SeqCount < -MaxDelay - D + 1 /\ Lag < SeqCount /\ Lag \in Int
        BY <1>1, <4>1
      <4>3. q * SeqCount - (r + 1) * SeqCount = x
        <5>1. (r + 1) * SeqCount = r * SeqCount + SeqCount /\ r * SeqCount \in Nat
              /\ q * SeqCount \in Nat
          BY <1>1, <1>2
        <5> QED BY <1>1, <1>2, <2>2, <5>1
      <4>4. r + 1 \in Int
        BY <1>1
      <4> HIDE DEF x, q, r, D, Lag
      <4> QED BY <1>1, <1>2, <4>1, <4>2, <4>3, <4>4, SameLap
    <3>3. ~CrossesBack(s) /\ CrossesForward(s)
      BY <1>1, <1>2, <2>1, <3>1 DEF CrossesBack, CrossesForward
    <3> QED BY <1>4, <2>4, <3>2, <3>3 DEF EstimatedRollover
  <2>5. CASE RP!BehindInWindow(s)
    <3>1. s < c /\ c - s < Size
      BY <2>5 DEF RP!BehindInWindow
    <3>2. q = r
      <4> DEFINE x == (n - Newest) - (s - c)
      <4>1. x \in Int /\ -MaxDelay < x /\ x < Lag + Size
        BY <1>1, <1>2, <2>2, <3>1
      <4>2. /\ -MaxDelay + 1 \in Int /\ -MaxDelay + 1 <= x /\ x <= Lag + Size - 1
            /\ -SeqCount < -MaxDelay + 1 /\ Lag + Size - 1 < SeqCount
            /\ Lag + Size - 1 \in Int
        BY <1>1, <4>1
      <4>3. q * SeqCount - r * SeqCount = x
        BY <2>2
      <4> HIDE DEF x, q, r, D, Lag
      <4> QED BY <1>1, <1>2, <4>1, <4>2, <4>3, SameLap
    <3>3. ~CrossesBack(s) /\ ~CrossesForward(s)
      BY <1>1, <1>2, <2>1, <3>1 DEF CrossesBack, CrossesForward
    <3> QED BY <1>4, <2>5, <3>2, <3>3 DEF EstimatedRollover
  <2> QED BY <1>4, <2>3, <2>4, <2>5 DEF RP!canProceed
<1> QED BY <1>3, <1>4
\* A channel that has seen nothing.
LEMMA MediaInvInit == Init => MediaInv
<1> SUFFICES ASSUME Init PROVE MediaInv
  OBVIOUS
<1> USE SrtpAssumption
<1>1. /\ ~mAllocated /\ mAllocated \in BOOLEAN /\ mCurMax = 0 /\ delivered = {}
      /\ lastSequence16 = None /\ rolloverCount = 0 /\ nextIndex = FirstIndex /\ reconnects = 0
  BY DEF Init, RP!rpInit
<1>2. ChannelInv
  BY <1>1 DEF ChannelInv
<1>3. nextIndex \in FirstIndex..(LastIndex + 1)
  BY <1>1
<1> QED BY <1>1, <1>2, <1>3 DEF MediaInv, Init

\* A packet that is let through is decrypted, and it becomes the newest one or stays
\* behind it in the window.
LEMMA ReceiveMediaStep ==
    ASSUME MediaInv, NEW n, ReceiveMedia(n)
    PROVE  MediaInv'
<1> USE SrtpAssumption
<1>1. /\ n \in InFlight /\ RP!canProceed(Seq16(n)) /\ TrackRollover(Seq16(n))
      /\ RP!set(Seq16(n)) /\ delivered' = delivered \cup {n}
      /\ mProfileId' = mProfileId /\ isSetupActive' = isSetupActive
      /\ nextIndex' = nextIndex /\ reconnects' = reconnects
  BY DEF ReceiveMedia, negotiated
<1>2. SUFFICES ASSUME reconnects = 0 PROVE ChannelInv'
  BY <1>1 DEF MediaInv
<1> DEFINE s == Seq16(n)
<1>3. ChannelInv
  BY <1>2 DEF MediaInv
<1>4. /\ n \in Nat /\ nextIndex \in Nat /\ n \in FirstIndex..(nextIndex - 1)
      /\ n = Roc(n) * SeqCount + s /\ Roc(n) \in Nat /\ s \in 0..(SeqCount - 1)
  BY <1>1, IndexParts DEF MediaInv, InFlight
<1>5. /\ ~CrossesBack(s)
      /\ \/ ~mAllocated /\ Roc(n) = 0 /\ ~CrossesForward(s)
         \/ /\ mAllocated /\ RP!AheadPlain(s)
            /\ Roc(n) = rolloverCount /\ ~CrossesForward(s)
         \/ /\ mAllocated /\ RP!AheadAcrossRollover(s)
            /\ Roc(n) = rolloverCount + 1 /\ CrossesForward(s)
         \/ /\ mAllocated /\ RP!BehindInWindow(s)
            /\ Roc(n) = rolloverCount /\ ~CrossesForward(s)
  BY <1>1, <1>2, ProceedingIndex
<1>6. /\ lastSequence16' = s /\ rolloverCount' = Roc(n) /\ rolloverCount' \in Nat
      /\ delivered' \subseteq FirstIndex..(nextIndex - 1) /\ delivered' # {}
  <2>1. lastSequence16' = s
    BY <1>1, <1>5 DEF TrackRollover
  <2>2. rolloverCount' = Roc(n)
    BY <1>1, <1>3, <1>5 DEF TrackRollover, ChannelInv
  <2> QED BY <1>1, <1>3, <1>4, <2>1, <2>2 DEF ChannelInv
<1>7. rolloverCount \in Nat /\ mCurMax \in 0..(SeqCount - 1)
  BY <1>3 DEF ChannelInv
<1>8. CASE ~mAllocated
  <2>1. mAllocated' = TRUE /\ mCurMax' = s
    BY <1>1, <1>8 DEF RP!set, RP!setFirst, RP!setAhead, RP!setBehind
  <2>2. delivered' = {n}
    BY <1>1, <1>3, <1>8 DEF ChannelInv
  <2>3. Newest' = n
    BY <1>4, <1>6, <2>1 DEF Newest
  <2>4. nextIndex' - Newest' <= MaxLoss + 1 \/ nextIndex' - Newest' <= MaxDelay
    <3>1. nextIndex - n <= MaxDelay
      BY <1>1 DEF InFlight
    <3> QED BY <1>1, <2>3, <3>1
  <2> QED BY <1>1, <1>4, <1>6, <2>1, <2>2, <2>3, <2>4 DEF ChannelInv
<1>9. CASE mAllocated /\ (RP!AheadPlain(s) \/ RP!AheadAcrossRollover(s))
  <2>1. mAllocated' = mAllocated /\ mCurMax' = s
    <3>1. ~RP!BehindInWindow(s)
      BY <1>4, <1>7, <1>9 DEF RP!AheadPlain, RP!BehindInWindow
    <3>2. RP!setAhead(s)
      BY <1>1, <1>9, <3>1 DEF RP!set, RP!setFirst, RP!setBehind
    <3> QED BY <3>2 DEF RP!setAhead, RP!setForward
  <2>2. Newest' = n
    BY <1>4, <1>6, <2>1 DEF Newest
  <2>3. Newest < n
    <3>1. CASE Roc(n) = rolloverCount
      BY <1>4, <1>5, <1>7, <1>9, <3>1 DEF Newest, RP!AheadPlain, RP!BehindInWindow
    <3>2. CASE Roc(n) = rolloverCount + 1
      <4>1. Roc(n) * SeqCount = rolloverCount * SeqCount + SeqCount
            /\ rolloverCount * SeqCount \in Nat
        BY <1>7, <3>2
      <4> QED BY <1>4, <1>7, <4>1 DEF Newest
    <3> QED BY <1>5, <1>9, <3>1, <3>2
  <2>4. Newest \in Nat /\ \A k \in delivered : k <= Newest /\ k \in Nat
    BY <1>3, <1>4, <1>7, <1>9 DEF ChannelInv, Newest
  <2>5. \A k \in delivered' : k <= Newest'
    BY <1>1, <1>4, <2>2, <2>3, <2>4
  <2>6. nextIndex' - Newest' <= MaxLoss + 1 \/ nextIndex' - Newest' <= MaxDelay
    BY <1>1, <1>3, <1>4, <1>9, <2>2, <2>3, <2>4 DEF ChannelInv
  <2> QED BY <1>1, <1>3, <1>4, <1>6, <1>9, <2>1, <2>2, <2>5, <2>6 DEF ChannelInv
<1>10. CASE mAllocated /\ RP!BehindInWindow(s)
  <2>1. mAllocated' = mAllocated /\ mCurMax' = mCurMax
    <3>1. ~RP!AheadPlain(s) /\ ~RP!AheadAcrossRollover(s)
      BY <1>4, <1>7, <1>10 DEF RP!AheadPlain, RP!BehindInWindow
    <3>2. RP!setBehind(s)
      BY <1>1, <1>10, <3>1 DEF RP!set, RP!setFirst, RP!setAhead
    <3> QED BY <3>2 DEF RP!setBehind
  <2>2. s < mCurMax /\ mCurMax - s < Size /\ ~RP!AheadAcrossRollover(s) /\ ~RP!AheadPlain(s)
    BY <1>4, <1>7, <1>10 DEF RP!BehindInWindow, RP!AheadPlain
  <2>3. Roc(n) = rolloverCount
    BY <1>5, <1>10, <2>2
  <2>4. Newest' = Newest /\ n < Newest
    BY <1>4, <1>6, <1>7, <2>1, <2>2, <2>3 DEF Newest
  <2>5. /\ Newest \in delivered
        /\ nextIndex - Newest <= MaxLoss + 1 \/ nextIndex - Newest <= MaxDelay
        /\ \A k \in delivered : k <= Newest
    BY <1>3, <1>10 DEF ChannelInv
  <2>6. \A k \in delivered' : k <= Newest'
    <3>1. Newest \in Nat
      BY <1>7 DEF Newest
    <3> QED BY <1>1, <1>4, <2>4, <2>5, <3>1
  <2> QED BY <1>1, <1>3, <1>4, <1>6, <1>7, <1>10, <2>1, <2>2, <2>4, <2>5, <2>6 DEF ChannelInv
<1> QED BY <1>5, <1>8, <1>9, <1>10

\* No packet that is let through is undecryptable, and nothing else but the reset
\* touches the channel.
LEMMA MediaInvNext == MediaInv /\ [Next]_vars => MediaInv'
<1> SUFFICES ASSUME MediaInv, [Next]_vars PROVE MediaInv'
  OBVIOUS
<1> USE SrtpAssumption
<1>1. CASE UNCHANGED <<negotiated, channel, nextIndex, delivered, reconnects>>
  BY <1>1 DEF negotiated, channel, MediaInv, ChannelInv, Newest
<1>2. CASE Send
  <2>1. /\ nextIndex <= LastIndex /\ nextIndex' = nextIndex + 1
        /\ Seq16(nextIndex) = 0 => delivered # {}
        /\ delivered # {} => \E n \in delivered : nextIndex - n <= MaxLoss
        /\ UNCHANGED <<negotiated, channel, delivered, reconnects>>
    BY <1>2 DEF Send
  <2>2. nextIndex' \in FirstIndex..(LastIndex + 1) /\ nextIndex \in Nat
    BY <2>1 DEF MediaInv
  <2>3. ASSUME reconnects = 0 PROVE ChannelInv'
    <3>1. ChannelInv
      BY <2>3 DEF MediaInv
    <3>2. ~mAllocated => nextIndex' <= SeqCount
      <4> SUFFICES ASSUME ~mAllocated, nextIndex = SeqCount PROVE FALSE
        BY <2>1, <2>2, <3>1 DEF ChannelInv
      <4>1. Seq16(nextIndex) = 0
        BY DEF Seq16
      <4> QED BY <2>1, <3>1, <4>1 DEF ChannelInv
    <3>3. mAllocated => nextIndex' - Newest <= MaxLoss + 1
      <4> SUFFICES ASSUME mAllocated PROVE nextIndex' - Newest <= MaxLoss + 1
        OBVIOUS
      <4>1. PICK n \in delivered : nextIndex - n <= MaxLoss
        BY <2>1, <3>1 DEF ChannelInv
      <4>2. n <= Newest /\ Newest \in delivered /\ delivered \subseteq FirstIndex..(nextIndex - 1)
        BY <3>1 DEF ChannelInv
      <4>3. n \in Nat /\ Newest \in Nat
        BY <2>2, <4>2
      <4> QED BY <2>1, <2>2, <4>1, <4>2, <4>3
    <3>4. delivered' \subseteq FirstIndex..(nextIndex' - 1)
      BY <2>1, <2>2, <3>1 DEF ChannelInv
    <3>5. Newest' = Newest
      BY <2>1 DEF Newest, channel
    <3> QED BY <2>1, <3>1, <3>2, <3>3, <3>4, <3>5 DEF ChannelInv, channel
  <2> QED BY <2>1, <2>2, <2>3 DEF MediaInv, negotiated
<1>3. ASSUME NEW n, ReceiveUndecryptable(n) PROVE MediaInv'
  <2>1. /\ n \in InFlight /\ RP!canProceed(Seq16(n)) /\ Unprotected(n) = Refused
        /\ UNCHANGED <<negotiated, nextIndex, reconnects>>
    BY <1>3 DEF ReceiveUndecryptable
  <2>2. reconnects # 0
    <3> SUFFICES ASSUME reconnects = 0 PROVE FALSE
      OBVIOUS
    <3>1. n \in Nat
      BY <2>1 DEF InFlight, MediaInv
    <3>2. Unprotected(n) = MediaPacket(n)
      BY <2>1, <3>1, ProceedingIndex, MediaPacketReadable DEF MediaInv
    <3>3. MediaPacket(n) # Refused
      BY DEF MediaPacket, Refused
    <3> QED BY <2>1, <3>2, <3>3
  <2> QED BY <2>1, <2>2 DEF MediaInv, negotiated
<1>4. ASSUME NEW source, SendControl(source) \/ \E i \in 1..MaxControl : ReceiveControl(source, i)
      PROVE  MediaInv'
  BY <1>1, <1>4 DEF SendControl, ReceiveControl
<1>5. CASE onPeerConnected
  <2>1. reconnects' # 0 /\ reconnects' \in Nat /\ UNCHANGED <<negotiated, nextIndex>>
    BY <1>5 DEF onPeerConnected, MediaInv
  <2> QED BY <2>1 DEF MediaInv, negotiated
<1>6. CASE UNCHANGED vars
  BY <1>1, <1>6 DEF vars
<1> QED BY <1>2, <1>3, <1>4, <1>5, <1>6, ReceiveMediaStep DEF Next

\* Every media packet that the replay window lets through is decrypted to what the
\* peer sent, over any number of rollovers.
THEOREM MediaPacketsReadable == Spec => []MediaReadable
<1>1. MediaInv => MediaReadable
  <2> SUFFICES ASSUME MediaInv, reconnects = 0, NEW n \in InFlight, RP!canProceed(Seq16(n))
               PROVE  Unprotected(n) = MediaPacket(n)
    BY DEF MediaReadable
  <2>1. n \in Nat
    BY SrtpAssumption DEF InFlight, MediaInv
  <2> QED BY <2>1, ProceedingIndex, MediaPacketReadable DEF MediaInv
<1>2. Spec => []MediaInv
  BY MediaInvInit, MediaInvNext, PTL DEF Spec
<1> QED BY <1>1, <1>2, PTL
\* The window of the channel has room for every packet of the stream.
LEMMA FewDelivered ==
    ASSUME delivered \subseteq 0..LastIndex
    PROVE  Cardinality({<<Roc(k), Seq16(k)>> : k \in delivered}) < LastIndex + 2
<1> DEFINE A == {<<Roc(k), Seq16(k)>> : k \in delivered}
           f == [k \in 0..LastIndex |-> <<Roc(k), Seq16(k)>>]
           B == {f[k] : k \in 0..LastIndex}
<1>0. LastIndex \in Nat
  BY SrtpAssumption
<1>1. A \subseteq B
  OBVIOUS
<1>2. IsFiniteSet(0..LastIndex) /\ Cardinality(0..LastIndex) = LastIndex + 1
  BY <1>0, FS_Interval
<1>3. f \in Surjection(0..LastIndex, B)
  BY DEF Surjection
<1> HIDE DEF A, B, f
<1>4. IsFiniteSet(B) /\ Cardinality(B) <= Cardinality(0..LastIndex)
  BY <1>2, <1>3, FS_Surjection
<1>5. IsFiniteSet(A) /\ Cardinality(A) <= Cardinality(B)
  BY <1>1, <1>4, FS_Subset
<1>6. Cardinality(A) \in Nat /\ Cardinality(B) \in Nat
  BY <1>4, <1>5, FS_CardinalityType
<1> QED BY <1>0, <1>2, <1>4, <1>5, <1>6 DEF A

\* unprotectReceiveMedia is a step of the replay window whose packets are full indexes.
LEMMA ReceiveMediaAccepts ==
    ASSUME MediaInv, reconnects = 0, NEW n \in FirstIndex..LastIndex, ReceiveMedia(n)
    PROVE  RP!Next
<1> USE SrtpAssumption
<1> DEFINE s == Seq16(n)
           A == {<<Roc(k), Seq16(k)>> : k \in delivered}
<1>1. /\ n \in InFlight /\ RP!canProceed(s) /\ TrackRollover(s) /\ RP!set(s)
      /\ delivered' = delivered \cup {n}
  BY DEF ReceiveMedia
<1>2. n \in Nat /\ s \in 0..(SeqCount - 1) /\ s \in RP!Values
  BY IndexParts DEF RP!Values
<1>3. ChannelInv
  BY DEF MediaInv
<1>4. RP!PacketOf(s) = <<Roc(n), s>> /\ rolloverCount' = Roc(n)
  <2>1. rolloverCount \in Nat /\ mCurMax \in 0..(SeqCount - 1)
        /\ (~mAllocated => rolloverCount = 0)
    BY <1>3 DEF ChannelInv
  <2>2. RP!AheadPlain(s) => ~RP!AheadAcrossRollover(s)
    BY <1>2, <2>1 DEF RP!AheadPlain, RP!AheadAcrossRollover
  <2>3. RP!BehindInWindow(s) => ~RP!AheadAcrossRollover(s)
    BY DEF RP!BehindInWindow
  <2> QED BY <1>1, <2>1, <2>2, <2>3, ProceedingIndex DEF RP!PacketOf, TrackRollover
<1>5. Roc(n) <= LastIndex
  <2>1. n = Roc(n) * SeqCount + s /\ Roc(n) \in Nat /\ n <= LastIndex
    BY <1>2, IndexParts
  <2>2. Roc(n) * SeqCount >= Roc(n)
    <3>1. Roc(n) * SeqCount = Roc(n) * (SeqCount - 1) + Roc(n)
      BY <2>1
    <3>2. Roc(n) * (SeqCount - 1) >= 0 /\ Roc(n) * (SeqCount - 1) \in Int
      BY <2>1
    <3> QED BY <2>1, <3>1, <3>2
  <2> QED BY <1>2, <2>1, <2>2
<1>6. Cardinality(A) < LastIndex + 2
  <2>1. delivered \subseteq 0..LastIndex
    BY <1>3 DEF ChannelInv, MediaInv
  <2> QED BY <2>1, FewDelivered
<1>7. \A S : RP!Cardinality(S) = Cardinality(S)
  BY DEF RP!Cardinality, Cardinality
<1>8. {<<Roc(k), Seq16(k)>> : k \in delivered'} = A \cup {<<Roc(n), s>>}
  <2>1. {<<Roc(k), Seq16(k)>> : k \in delivered \cup {n}} = A \cup {<<Roc(n), s>>}
    BY Zenon
  <2> QED BY <1>1, <2>1
<1>9. <<Roc(n), s>>[1] = Roc(n)
  OBVIOUS
<1>10. RP!Accept(s)
  <2> HIDE DEF s
  <2>1. RP!Cardinality(A) < LastIndex + 2
    BY <1>6, <1>7
  <2> QED BY <1>1, <1>4, <1>5, <1>8, <1>9, <2>1 DEF RP!Accept
<1> QED BY <1>2, <1>10 DEF RP!Next

\* While the channel is not reset it implements the replay window whose notion of
\* "the same packet" is the full index: the 16 bits a packet carries, with the
\* rollover count the receiver keeps, name the packet the peer sent.
THEOREM ChannelIsReplayWindow == Spec /\ [](reconnects = 0) => ImplementsReplayWindow
<1>1. Init => RP!Init
  <2> SUFFICES ASSUME Init PROVE RP!Init
    OBVIOUS
  <2>1. delivered = {} /\ rolloverCount = 0 /\ RP!rpInit
    BY DEF Init
  <2>2. {<<Roc(k), Seq16(k)>> : k \in delivered} = {}
    BY <2>1
  <2> QED BY <2>1, <2>2 DEF RP!Init
<1>2. MediaInv /\ reconnects = 0 /\ (reconnects = 0)' /\ [Next]_vars => [RP!Next]_(RP!vars)
  <2> SUFFICES ASSUME MediaInv, reconnects = 0, reconnects' = 0, [Next]_vars
               PROVE  [RP!Next]_(RP!vars)
    OBVIOUS
  <2>1. CASE UNCHANGED <<channel, delivered>>
    BY <2>1 DEF channel, RP!vars
  <2>2. ASSUME NEW n \in FirstIndex..LastIndex, ReceiveUndecryptable(n) PROVE FALSE
    <3>1. n \in InFlight /\ RP!canProceed(Seq16(n)) /\ Unprotected(n) = Refused
      BY <2>2 DEF ReceiveUndecryptable
    <3>2. n \in Nat
      BY SrtpAssumption
    <3>3. Unprotected(n) = MediaPacket(n)
      BY <3>1, <3>2, ProceedingIndex, MediaPacketReadable DEF MediaInv
    <3>4. MediaPacket(n) # Refused
      BY DEF MediaPacket, Refused
    <3> QED BY <3>1, <3>3, <3>4
  <2>3. CASE Send
    BY <2>1, <2>3 DEF Send
  <2>4. ASSUME NEW source, SendControl(source) \/ \E i \in 1..MaxControl : ReceiveControl(source, i)
        PROVE  [RP!Next]_(RP!vars)
    BY <2>1, <2>4 DEF SendControl, ReceiveControl
  <2>5. ~onPeerConnected
    BY DEF onPeerConnected
  <2>6. CASE UNCHANGED vars
    BY <2>1, <2>6 DEF vars
  <2> QED BY <2>2, <2>3, <2>4, <2>5, <2>6, ReceiveMediaAccepts DEF Next
<1>3. Spec => []MediaInv
  BY MediaInvInit, MediaInvNext, PTL DEF Spec
<1> QED BY <1>1, <1>2, <1>3, PTL DEF Spec, ImplementsReplayWindow, RP!Spec

=============================================================================
