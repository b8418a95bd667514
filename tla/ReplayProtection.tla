-------------------------- MODULE ReplayProtection --------------------------
(***************************************************************************)
(* The sliding replay window of src/src/replay_protection.cpp.  One object *)
(* guards one SRTP channel: SrtpConnection asks canProceed(value) before   *)
(* it decrypts a packet and calls set(value) once decryption succeeded.    *)
(*                                                                         *)
(* mCurMax is the newest value set so far; mStorage is a bit map in which  *)
(* value v owns bit v % (8 * mStorageSize).  Values live on a circle of    *)
(* mMaxPossibleValue + 1 points, but the code only ever looks back to      *)
(* values numerically below mCurMax, i.e. not across a rollover.           *)
(*                                                                         *)
(* Two history variables that are not in the code say what "the same       *)
(* packet" means: lap counts the rollovers of mCurMax, and accepted holds  *)
(* the <<lap, value>> of every packet that was set.                        *)
(***************************************************************************)
EXTENDS Integers, FiniteSets

CONSTANTS
    MaxPossibleValue,  \* mMaxPossibleValue, 2^16 - 1 or 2^32 - 1 in the code
    Size,              \* mSize, 2048 in the code
    MaxLap,            \* bound: rollovers explored
    MaxAccepted        \* bound: packets accepted

ASSUME ReplayAssumption ==
    /\ MaxPossibleValue \in Nat
    /\ Size \in Nat \ {0}
    /\ Size + Size \div 4 <= MaxPossibleValue
    /\ MaxLap \in Nat
    /\ MaxAccepted \in Nat

VARIABLES
    mAllocated,  \* mStorage != nullptr, i.e. some value has been set
    mCurMax,
    mStorage,    \* the bit map: a function from bit positions to BOOLEAN
    lap,         \* history: number of times mCurMax has rolled over
    accepted     \* history: the <<lap, value>> pairs that were set

rpVars == <<mAllocated, mCurMax, mStorage>>
vars == <<mAllocated, mCurMax, mStorage, lap, accepted>>

Values == 0..MaxPossibleValue

\* Bits in the map: mStorageSize bytes, the size rounded up to whole bytes.
StorageBits == 8 * ((Size + 7) \div 8)

MaxDistanceForward == Size \div 4

\* isSet, setImpl and clearImpl all address byte (v / 8) % mStorageSize, bit
\* v & 7: together, bit v modulo the number of bits.
BitOf(v) == v % StorageBits

isSet(v) == mStorage[BitOf(v)]

\* How far v lies ahead of mCurMax when the way there crosses the rollover.
getRolloverForwardDistance(v) == MaxPossibleValue - mCurMax + 1 + v

AheadPlain(v) == v > mCurMax /\ v - mCurMax <= MaxDistanceForward

AheadAcrossRollover(v) ==
    v < mCurMax /\ getRolloverForwardDistance(v) <= MaxDistanceForward

BehindInWindow(v) ==
    /\ v < mCurMax
    /\ ~AheadAcrossRollover(v)
    /\ mCurMax - v < Size

canProceed(v) ==
    \/ ~mAllocated
    \/ AheadPlain(v)
    \/ AheadAcrossRollover(v)
    \/ BehindInWindow(v) /\ ~isSet(v)

\* The values strictly between mCurMax and v that setForward walks over.
Passed(v) ==
    IF v > mCurMax THEN (mCurMax + 1)..(v - 1)
                   ELSE ((mCurMax + 1)..MaxPossibleValue) \cup (0..(v - 1))

\* Mutated forms of setForward and setBehind, used to test the properties.

\* Walks over the values in between without clearing their bits.
setForwardKeepsBits(v) ==
    /\ mCurMax' = v
    /\ mStorage' = [mStorage EXCEPT ![BitOf(v)] = TRUE]

\* Clears up to and including the new value, after setting it.
setForwardClearsLast(v) ==
    /\ mCurMax' = v
    /\ mStorage' = [b \in DOMAIN mStorage |->
                       mStorage[b] /\ \A u \in Passed(v) \cup {v} : BitOf(u) # b]

\* Rewinds mCurMax to a late value.
setBehindRewinds(v) ==
    /\ mAllocated
    /\ BehindInWindow(v)
    /\ mStorage' = [mStorage EXCEPT ![BitOf(v)] = TRUE]
    /\ mCurMax' = v
    /\ UNCHANGED mAllocated

\* Clears the bit of every value passed over, then sets the bit of v.
setForward(v) ==
    /\ mCurMax' = v
    /\ mStorage' = [b \in DOMAIN mStorage |->
                       \/ b = BitOf(v)
                       \/ mStorage[b] /\ \A u \in Passed(v) : BitOf(u) # b]

setFirst(v) ==
    /\ ~mAllocated
    /\ mAllocated' = TRUE
    /\ mCurMax' = v
    /\ mStorage' = [b \in DOMAIN mStorage |-> b = BitOf(v)]

setAhead(v) ==
    /\ mAllocated
    /\ AheadPlain(v) \/ AheadAcrossRollover(v)
    /\ setForward(v)
    /\ UNCHANGED mAllocated

setBehind(v) ==
    /\ mAllocated
    /\ BehindInWindow(v)
    /\ mStorage' = [mStorage EXCEPT ![BitOf(v)] = TRUE]
    /\ UNCHANGED <<mAllocated, mCurMax>>

\* ReplayProtection::set; the caller guarantees canProceed(v), which set()
\* asserts on entry.
set(v) == setFirst(v) \/ setAhead(v) \/ setBehind(v)

\* The packet that value v denotes: a value ahead across the rollover belongs
\* to the next lap.
PacketOf(v) ==
    <<IF mAllocated /\ AheadAcrossRollover(v) THEN lap + 1 ELSE lap, v>>

-----------------------------------------------------------------------------

rpInit ==
    /\ mAllocated = FALSE
    /\ mCurMax = 0
    /\ mStorage = [b \in 0..(StorageBits - 1) |-> FALSE]

Init ==
    /\ rpInit
    /\ lap = 0
    /\ accepted = {}

\* One authentic packet: canProceed(v) said yes, decryption worked, set(v).
Accept(v) ==
    /\ canProceed(v)
    /\ PacketOf(v)[1] <= MaxLap
    /\ Cardinality(accepted) < MaxAccepted
    /\ set(v)
    /\ lap' = PacketOf(v)[1]
    /\ accepted' = accepted \cup {PacketOf(v)}

\* SrtpConnection::onPeerConnected clears the map of channels; the next packet
\* gets a new window.
Renew ==
    /\ mAllocated
    /\ mAllocated' = FALSE
    /\ mCurMax' = 0
    /\ mStorage' = [b \in DOMAIN mStorage |-> FALSE]
    /\ lap' = 0
    /\ accepted' = {}

Next == Renew \/ \E v \in Values : Accept(v)

Spec == Init /\ [][Next]_vars

-----------------------------------------------------------------------------

\* Types of the object's fields and of the two history variables.
TypeOK ==
    /\ mAllocated \in BOOLEAN
    /\ mCurMax \in Values
    /\ mStorage \in [0..(StorageBits - 1) -> BOOLEAN]
    /\ lap \in Nat
    /\ accepted \subseteq (Nat \X Values)

\* canProceed never lets a packet through that was already accepted, whatever
\* the order packets arrive in and however often the values have rolled over
\* and the bits of the map have been reused.
NoReplay == \A v \in Values : canProceed(v) => PacketOf(v) \notin accepted

\* A late packet of the current lap inside the window is let through exactly
\* when it is new: a bit left over from an older value that shares the same
\* position never makes canProceed drop a fresh packet.
LateFreshPacketProceeds ==
    \A v \in Values :
        (mAllocated /\ BehindInWindow(v) /\ <<lap, v>> \notin accepted)
            => canProceed(v)

\* While a window lives its newest value only moves forward, and by no more than
\* a quarter of the window: an accepted packet never rewinds mCurMax.
MaxOnlyAdvances ==
    [][(mAllocated /\ mAllocated') =>
            \/ mCurMax' = mCurMax
            \/ AheadPlain(mCurMax') /\ lap' = lap
            \/ AheadAcrossRollover(mCurMax') /\ lap' = lap + 1]_vars

\* Inductive strengthening: inside the window the bit map is exactly the set
\* of accepted packets of the current lap, and nothing newer than mCurMax was
\* ever accepted.
WindowExact ==
    \A v \in Values :
        (mAllocated /\ v <= mCurMax /\ mCurMax - v < Size)
            => (isSet(v) <=> <<lap, v>> \in accepted)

NothingNewer ==
    /\ ~mAllocated => accepted = {}
    /\ \A p \in accepted : p[1] < lap \/ (p[1] = lap /\ p[2] <= mCurMax)

IndInv == TypeOK /\ WindowExact /\ NothingNewer

=============================================================================
