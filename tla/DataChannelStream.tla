------------------------- MODULE DataChannelStream --------------------------
(***************************************************************************)
(* One data channel stream: SctpSession::sendMessageNow cuts messages into *)
(* fragments, the chunk layer below delivers every fragment once but in    *)
(* any order, and DataChannelReceiveBuffer puts the messages back          *)
(* together.  Fragment f of message m is the pair <<m, f>>.                *)
(***************************************************************************)
EXTENDS DataChannelReceiveBuffer, SequencesExt

CONSTANTS
    FragmentCounts,   \* FragmentCounts[m]: fragments of the m-th message
    FirstSsn,         \* mNextSsn and sendSsn when the model starts
    Modes,            \* values of DataChannel::unordered to consider
    MaxOutstanding,   \* bound: messages on their way at once
    InOrderFragments  \* TRUE: fragments of one message do not overtake

ASSUME StreamAssumption ==
    /\ FragmentCounts \in Seq(Nat \ {0})
    /\ FirstSsn \in 0..(SsnCount - 1)
    /\ Modes \subseteq BOOLEAN /\ InOrderFragments \in BOOLEAN
    /\ MaxOutstanding \in 1..(SsnCount \div 2)

VARIABLES
    unordered,  \* DataChannel::unordered, fixed when the channel is made
    sent,       \* number of messages handed to sendMessageNow
    inFlight,   \* fragments sent and not yet received
    buffer,     \* the receiver's DataChannelReceiveBuffer
    delivered   \* history: the messages handed to the listener, in order

vars == <<unordered, sent, inFlight, buffer, delivered>>

SsnOf(m) == (FirstSsn + m - 1) % SsnCount

Fragments(m) == {<<m, f>> : f \in 1..FragmentCounts[m]}
Whole(m) == [f \in 1..FragmentCounts[m] |-> <<m, f>>]

Init ==
    /\ unordered \in Modes
    /\ sent = 0
    /\ inFlight = {}
    /\ buffer = [NewReceiveBuffer EXCEPT !.mNextSsn = FirstSsn]
    /\ delivered = <<>>

\* The oldest message of which a fragment is still on its way.
Oldest == CHOOSE m \in {c[1] : c \in inFlight} : \A c \in inFlight : m <= c[1]

\* sendMessageNow: all fragments of the next message, with the next SSN.
sendMessageNow ==
    /\ sent < Len(FragmentCounts)
    /\ inFlight # {} => sent + 1 - Oldest < MaxOutstanding
    /\ sent' = sent + 1
    /\ inFlight' = inFlight \cup Fragments(sent + 1)
    /\ UNCHANGED <<unordered, buffer, delivered>>

\* The user-data branch of SctpSession::onReceiveDataChunk.
ReceiveFragment(c) ==
    /\ c \in inFlight
    /\ InOrderFragments => \A d \in inFlight : d[1] = c[1] => c[2] <= d[2]
    /\ LET m == c[1]
           r == receive(buffer, SsnOf(m), c[2] = 1, c[2] = FragmentCounts[m],
                        unordered, c)
       IN  /\ buffer' = r.buf
           /\ delivered' = delivered \o r.out
    /\ inFlight' = inFlight \ {c}
    /\ UNCHANGED <<unordered, sent>>

Next == sendMessageNow \/ \E c \in inFlight : ReceiveFragment(c)

Spec == Init /\ [][Next]_vars

-----------------------------------------------------------------------------

\* On an ordered channel the listener sees the messages in the order in which
\* they were sent, each once and none left out, also while the SSN wraps.
OrderedDelivery ==
    ~unordered => \A i \in 1..Len(delivered) : delivered[i] = Whole(i)

\* Nothing is held back, forgotten or delivered twice: as soon as no fragment of messages 1..m
\* is on its way, message m has been delivered (on an unordered channel:
\* whenever its own fragments have all arrived).
ArrivedMeansDelivered ==
    /\ \A m \in 1..sent :
        (\A c \in inFlight : c[1] > m \/ (unordered /\ c[1] # m))
            => Contains(delivered, Whole(m))
    /\ \A i, j \in 1..Len(delivered) : delivered[i][1][1] = delivered[j][1][1] => i = j

\* "all consecutive complete messages": what the listener gets is a whole
\* message, all its fragments in their order.
DeliveredMessagesAreWhole ==
    \A i \in 1..Len(delivered) : \E m \in 1..sent : delivered[i] = Whole(m)

=============================================================================
