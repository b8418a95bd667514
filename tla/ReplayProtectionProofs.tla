----------------------- MODULE ReplayProtectionProofs -----------------------
(***************************************************************************)
(* For every circle of values and every window size that ReplayAssumption  *)
(* allows: the bit map inside the window is exactly the set of accepted    *)
(* packets, hence no packet is accepted twice and no fresh late packet is  *)
(* dropped.  The number of bits need not divide the circle, because the    *)
(* code never looks back across a rollover.                                *)
(***************************************************************************)
EXTENDS ReplayProtection, TLAPS

\* The bit map is at least as long as the window.
LEMMA StorageCoversWindow ==
    StorageBits \in Nat /\ StorageBits > 0 /\ Size <= StorageBits
BY ReplayAssumption DEF StorageBits

\* A multiple of B strictly between -B and B is zero.
LEMMA SmallMultiple ==
    ASSUME NEW B \in Nat, B > 0, NEW k \in Int, k * B > -B, k * B < B
    PROVE  k = 0
<1>1. CASE k >= 1
    <2>1. (k - 1) * B >= 0
        BY <1>1
    <2>2. k * B = (k - 1) * B + B
        OBVIOUS
    <2> QED BY <2>1, <2>2
<1>2. CASE k <= -1
    <2>1. (-1 - k) * B >= 0
        BY <1>2
    <2>2. (-1 - k) * B = -B - k * B
        OBVIOUS
    <2>3. k * B \in Int
        OBVIOUS
    <2> QED BY <2>1, <2>2, <2>3
<1> QED BY <1>1, <1>2

\* Two values closer than the number of bits own different bits.
LEMMA DistinctBits ==
    ASSUME NEW a \in Nat, NEW b \in Nat, a < b, b - a < StorageBits
    PROVE  BitOf(a) # BitOf(b)
<1> DEFINE B == StorageBits
<1>1. B \in Nat /\ B > 0
    BY StorageCoversWindow
<1> HIDE DEF B
<1>2. a = (a \div B) * B + (a % B) /\ a \div B \in Int /\ a % B \in Int
    BY <1>1
<1>3. b = (b \div B) * B + (b % B) /\ b \div B \in Int /\ b % B \in Int
    BY <1>1
<1>4. SUFFICES ASSUME a % B = b % B PROVE FALSE
    BY DEF BitOf, B
<1> DEFINE k == (b \div B) - (a \div B)
<1>5. k \in Int
    BY <1>2, <1>3
<1>6. k * B = (b \div B) * B - (a \div B) * B
    BY <1>1, <1>2, <1>3
<1>7. k * B = b - a
    BY <1>1, <1>2, <1>3, <1>4, <1>6
<1>8. k * B > -B /\ k * B < B
    BY <1>1, <1>7 DEF B
<1> HIDE DEF k
<1>9. k = 0
    BY <1>1, <1>5, <1>8, SmallMultiple
<1> QED BY <1>1, <1>7, <1>9

\* Every value has its bit inside the map.
LEMMA BitInMap ==
    ASSUME NEW v \in Nat
    PROVE  BitOf(v) \in 0..(StorageBits - 1)
BY StorageCoversWindow DEF BitOf

\* A window without a bit map is exact.
LEMMA InitEstablishes == Init => IndInv
<1> SUFFICES ASSUME Init PROVE IndInv
    OBVIOUS
<1>1. ~mAllocated /\ mAllocated \in BOOLEAN /\ accepted = {} /\ lap = 0 /\ mCurMax = 0
    BY DEF Init, rpInit
<1>2. mStorage \in [0..(StorageBits - 1) -> BOOLEAN]
    BY DEF Init, rpInit
<1>3. TypeOK
    BY <1>1, <1>2, ReplayAssumption DEF TypeOK, Values
<1> QED BY <1>1, <1>3 DEF IndInv, WindowExact, NothingNewer

\* Setting the first value.
LEMMA FirstPreserves ==
    ASSUME IndInv, NEW v \in Values, Accept(v), setFirst(v)
    PROVE  IndInv'
<1> USE ReplayAssumption
<1>1. v \in Nat /\ BitOf(v) \in 0..(StorageBits - 1)
    BY BitInMap DEF Values
<1>2. /\ mAllocated' = TRUE /\ mCurMax' = v
      /\ lap' = lap /\ accepted' = {<<lap, v>>}
      /\ mStorage' = [b \in 0..(StorageBits - 1) |-> b = BitOf(v)]
    BY DEF Accept, setFirst, PacketOf, IndInv, NothingNewer, TypeOK
<1>3. TypeOK'
    BY <1>1, <1>2 DEF IndInv, TypeOK, Values
<1>4. WindowExact'
    <2> SUFFICES ASSUME NEW u \in Values, u <= v, v - u < Size
                 PROVE  mStorage'[BitOf(u)] <=> u = v
        BY <1>2 DEF WindowExact, isSet
    <2>1. u \in Nat /\ BitOf(u) \in 0..(StorageBits - 1)
        BY BitInMap DEF Values
    <2>2. u # v => BitOf(u) # BitOf(v)
        BY <1>1, <2>1, DistinctBits, StorageCoversWindow
    <2> QED BY <1>2, <2>1, <2>2
<1>5. NothingNewer'
    BY <1>2 DEF NothingNewer, Values
<1> QED BY <1>3, <1>4, <1>5 DEF IndInv

\* Moving mCurMax forward, with or without a rollover.
LEMMA AheadPreserves ==
    ASSUME IndInv, NEW v \in Values, Accept(v), setAhead(v)
    PROVE  IndInv'
<1> USE ReplayAssumption
<1>1. v \in Nat /\ BitOf(v) \in 0..(StorageBits - 1)
    BY BitInMap DEF Values
<1>2. /\ mAllocated /\ mAllocated' = mAllocated /\ mCurMax' = v
      /\ lap' = PacketOf(v)[1]
      /\ accepted' = accepted \cup {<<lap', v>>}
      /\ mStorage' = [b \in 0..(StorageBits - 1) |->
                        \/ b = BitOf(v)
                        \/ mStorage[b] /\ \A u \in Passed(v) : BitOf(u) # b]
    BY DEF Accept, setAhead, setForward, PacketOf, IndInv, TypeOK
<1>3. mCurMax \in Nat /\ lap \in Nat /\ mCurMax <= MaxPossibleValue
    BY DEF IndInv, TypeOK, Values
<1>4. \/ AheadPlain(v) /\ lap' = lap
      \/ AheadAcrossRollover(v) /\ lap' = lap + 1
    BY <1>2, <1>3 DEF setAhead, AheadPlain, AheadAcrossRollover, PacketOf, Values
<1>5. TypeOK'
    <2>1. mStorage' \in [0..(StorageBits - 1) -> BOOLEAN]
        BY <1>2 DEF IndInv, TypeOK
    <2>2. lap' \in Nat
        BY <1>3, <1>4
    <2> QED BY <1>2, <2>1, <2>2 DEF IndInv, TypeOK
<1>6. WindowExact'
    <2> SUFFICES ASSUME NEW u \in Values, u <= v, v - u < Size
                 PROVE  mStorage'[BitOf(u)] <=> <<lap', u>> \in accepted'
        BY <1>2 DEF WindowExact, isSet
    <2>1. u \in Nat /\ BitOf(u) \in 0..(StorageBits - 1)
        BY BitInMap DEF Values
    <2>2. CASE u = v
        BY <1>2, <2>1, <2>2
    <2>3. CASE u # v
        <3>1. BitOf(u) # BitOf(v)
            BY <1>1, <2>1, <2>3, DistinctBits, StorageCoversWindow
        <3>2. <<lap', u>> \in accepted' <=> <<lap', u>> \in accepted
            BY <1>2, <2>3
        <3>3. CASE u \in Passed(v)
            <4>1. ~ mStorage'[BitOf(u)]
                BY <1>2, <2>1, <3>1, <3>3
            <4>2. <<lap', u>> \notin accepted
                BY <1>3, <1>4, <3>3
                   DEF Passed, AheadPlain, AheadAcrossRollover, IndInv, NothingNewer, Values
            <4> QED BY <3>2, <4>1, <4>2
        <3>4. CASE u \notin Passed(v)
            <4>1. lap' = lap /\ AheadPlain(v) /\ u <= mCurMax /\ mCurMax - u < Size
                BY <1>1, <1>3, <1>4, <2>1, <2>3, <3>4
                   DEF Passed, AheadPlain, AheadAcrossRollover,
                       getRolloverForwardDistance, MaxDistanceForward, Values
            <4>2. \A w \in Passed(v) : BitOf(w) # BitOf(u)
                <5> TAKE w \in Passed(v)
                <5>1. w \in Nat /\ u < w /\ w < v
                    BY <1>1, <1>3, <2>1, <4>1 DEF Passed, AheadPlain
                <5> QED BY <1>1, <2>1, <5>1, DistinctBits, StorageCoversWindow
            <4>3. mStorage'[BitOf(u)] <=> mStorage[BitOf(u)]
                BY <1>2, <2>1, <3>1, <4>2 DEF IndInv, TypeOK
            <4>4. mStorage[BitOf(u)] <=> <<lap, u>> \in accepted
                BY <1>2, <4>1 DEF IndInv, WindowExact, isSet
            <4> QED BY <3>2, <4>1, <4>3, <4>4
        <3> QED BY <3>3, <3>4
    <2> QED BY <2>2, <2>3
<1>7. NothingNewer'
    <2> SUFFICES ASSUME NEW p \in accepted'
                 PROVE  p[1] < lap' \/ (p[1] = lap' /\ p[2] <= v)
        BY <1>2 DEF NothingNewer
    <2>1. CASE p = <<lap', v>>
        BY <1>1, <2>1
    <2>2. CASE p \in accepted
        <3>1. p[1] \in Nat /\ p[2] \in Nat
            BY <2>2 DEF IndInv, TypeOK, Values
        <3>2. p[1] < lap \/ (p[1] = lap /\ p[2] <= mCurMax)
            BY <2>2 DEF IndInv, NothingNewer
        <3> QED BY <1>1, <1>3, <1>4, <3>1, <3>2 DEF AheadPlain, AheadAcrossRollover
    <2> QED BY <1>2, <2>1, <2>2
<1> QED BY <1>5, <1>6, <1>7 DEF IndInv

\* Filling in a late value of the current lap.
LEMMA BehindPreserves ==
    ASSUME IndInv, NEW v \in Values, Accept(v), setBehind(v)
    PROVE  IndInv'
<1> USE ReplayAssumption
<1>1. v \in Nat /\ BitOf(v) \in 0..(StorageBits - 1)
    BY BitInMap DEF Values
<1>2. /\ mAllocated /\ mAllocated' = mAllocated /\ mCurMax' = mCurMax
      /\ lap' = lap /\ accepted' = accepted \cup {<<lap, v>>}
      /\ mStorage' = [mStorage EXCEPT ![BitOf(v)] = TRUE]
      /\ v < mCurMax /\ mCurMax - v < Size
    BY DEF Accept, setBehind, BehindInWindow, PacketOf
<1>3. mCurMax \in Nat /\ lap \in Nat
    BY DEF IndInv, TypeOK, Values
<1>4. TypeOK'
    BY <1>1, <1>2 DEF IndInv, TypeOK
<1>5. WindowExact'
    <2> SUFFICES ASSUME NEW u \in Values, u <= mCurMax, mCurMax - u < Size
                 PROVE  mStorage'[BitOf(u)] <=> <<lap, u>> \in accepted'
        BY <1>2 DEF WindowExact, isSet
    <2>1. u \in Nat /\ BitOf(u) \in 0..(StorageBits - 1)
        BY BitInMap DEF Values
    <2>2. mStorage[BitOf(u)] <=> <<lap, u>> \in accepted
        BY <1>2 DEF IndInv, WindowExact, isSet
    <2>3. CASE u = v
        BY <1>2, <2>1, <2>3 DEF IndInv, TypeOK
    <2>4. CASE u # v
        <3>1. BitOf(u) # BitOf(v)
            BY <1>1, <1>2, <1>3, <2>1, <2>4, DistinctBits, StorageCoversWindow
        <3> QED BY <1>2, <2>1, <2>2, <2>4, <3>1 DEF IndInv, TypeOK
    <2> QED BY <2>3, <2>4
<1>6. NothingNewer'
    BY <1>1, <1>2, <1>3 DEF IndInv, NothingNewer
<1> QED BY <1>4, <1>5, <1>6 DEF IndInv

\* A new window.
LEMMA RenewPreserves ==
    ASSUME IndInv, Renew
    PROVE  IndInv'
<1>1. /\ mAllocated' = FALSE /\ mCurMax' = 0 /\ lap' = 0 /\ accepted' = {}
      /\ mStorage' = [b \in 0..(StorageBits - 1) |-> FALSE]
    BY DEF Renew, IndInv, TypeOK
<1>2. mStorage' \in [0..(StorageBits - 1) -> BOOLEAN]
    BY <1>1
<1>3. mAllocated' \in BOOLEAN /\ accepted' \subseteq (Nat \X Values)
    BY <1>1
<1>4. mCurMax' \in Values /\ lap' \in Nat
    BY <1>1, ReplayAssumption DEF Values
<1>5. TypeOK'
    BY <1>2, <1>3, <1>4 DEF TypeOK
<1> QED BY <1>1, <1>5 DEF IndInv, WindowExact, NothingNewer

\* Every step of the window keeps the bit map exact.
LEMMA StepPreserves == IndInv /\ [Next]_vars => IndInv'
<1> SUFFICES ASSUME IndInv, [Next]_vars PROVE IndInv'
    OBVIOUS
<1>1. CASE UNCHANGED vars
    BY <1>1 DEF vars, IndInv, TypeOK, WindowExact, NothingNewer, isSet
<1>2. ASSUME NEW v \in Values, Accept(v) PROVE IndInv'
    BY <1>2, FirstPreserves, AheadPreserves, BehindPreserves DEF Accept, set
<1> QED BY <1>1, <1>2, RenewPreserves DEF Next

\* The bit map of replay_protection.cpp stays exact in every reachable state,
\* for every circle of values and every window size.
THEOREM WindowStaysExact == Spec => []IndInv
BY InitEstablishes, StepPreserves, PTL DEF Spec

\* The fields of the window keep their types; in particular mCurMax never
\* leaves 0..mMaxPossibleValue when it rolls over.
THEOREM TypeCorrect == Spec => []TypeOK
<1>1. IndInv => TypeOK
    BY DEF IndInv
<1> QED BY <1>1, WindowStaysExact, PTL

\* An exact bit map refuses every packet that was accepted.
LEMMA ExactRefusesReplays == IndInv => NoReplay
<1> SUFFICES ASSUME IndInv, NEW v \in Values, canProceed(v)
             PROVE  PacketOf(v) \notin accepted
    BY DEF NoReplay
<1> USE ReplayAssumption
<1>1. mCurMax \in Nat /\ lap \in Nat /\ v \in Nat
    BY DEF IndInv, TypeOK, Values
<1>2. CASE ~mAllocated
    BY <1>2 DEF IndInv, NothingNewer
<1>3. CASE mAllocated /\ AheadPlain(v)
    <2>1. PacketOf(v) = <<lap, v>> /\ v > mCurMax
        BY <1>1, <1>3 DEF PacketOf, AheadPlain, AheadAcrossRollover
    <2> QED BY <1>1, <2>1 DEF IndInv, NothingNewer
<1>4. CASE mAllocated /\ AheadAcrossRollover(v)
    <2>1. PacketOf(v) = <<lap + 1, v>>
        BY <1>4 DEF PacketOf
    <2> QED BY <1>1, <2>1 DEF IndInv, NothingNewer
<1>5. CASE mAllocated /\ BehindInWindow(v) /\ ~isSet(v)
    <2>1. PacketOf(v) = <<lap, v>>
        BY <1>5 DEF PacketOf, BehindInWindow
    <2> QED BY <1>1, <1>5, <2>1 DEF IndInv, WindowExact, BehindInWindow
<1> QED BY <1>2, <1>3, <1>4, <1>5 DEF canProceed

\* canProceed never lets an already accepted packet through.
THEOREM ReplayNeverAccepted == Spec => []NoReplay
BY ExactRefusesReplays, WindowStaysExact, PTL

\* A bit left over from an older value never hides a fresh late packet.
THEOREM FreshNeverDropped == Spec => []LateFreshPacketProceeds
<1>1. IndInv => LateFreshPacketProceeds
    <2> SUFFICES ASSUME IndInv, NEW v \in Values, mAllocated,
                        BehindInWindow(v), <<lap, v>> \notin accepted
                 PROVE  canProceed(v)
        BY DEF LateFreshPacketProceeds
    <2>1. v <= mCurMax /\ mCurMax - v < Size
        BY DEF BehindInWindow, IndInv, TypeOK, Values
    <2> QED BY <2>1 DEF IndInv, WindowExact, canProceed
<1> QED BY <1>1, WindowStaysExact, PTL

\* An accepted packet never rewinds the newest value and never moves it by more
\* than a quarter of the window, rollover included.
THEOREM NewestNeverRewinds == Spec => MaxOnlyAdvances
<1> DEFINE Advances == (mAllocated /\ mAllocated') =>
                         \/ mCurMax' = mCurMax
                         \/ AheadPlain(mCurMax') /\ lap' = lap
                         \/ AheadAcrossRollover(mCurMax') /\ lap' = lap + 1
<1>1. IndInv /\ [Next]_vars => [Advances]_vars
    <2> SUFFICES ASSUME IndInv, Next PROVE Advances
        OBVIOUS
    <2>1. CASE Renew
        BY <2>1 DEF Renew
    <2>2. ASSUME NEW v \in Values, Accept(v) PROVE Advances
        <3>1. CASE setFirst(v)
            BY <3>1 DEF setFirst
        <3>2. CASE setBehind(v)
            BY <3>2 DEF setBehind
        <3>3. CASE setAhead(v)
            <4>1. mCurMax' = v /\ mAllocated
                BY <3>3 DEF setAhead, setForward
            <4>2. lap' = IF AheadAcrossRollover(v) THEN lap + 1 ELSE lap
                BY <2>2, <4>1 DEF Accept, PacketOf
            <4> QED BY <3>3, <4>1, <4>2 DEF setAhead
        <3> QED BY <2>2, <3>1, <3>2, <3>3 DEF Accept, set
    <2> QED BY <2>1, <2>2 DEF Next
<1> QED BY <1>1, WindowStaysExact, PTL DEF Spec, MaxOnlyAdvances

=============================================================================
