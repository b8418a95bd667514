---------------------- MODULE DataChannelReceiveBuffer ----------------------
(***************************************************************************)
(* The reassembly buffer of one data channel,                              *)
(* src/src/sctp/data_channel_receive_buffer.cpp, as operators on a buffer  *)
(* value: [mNextSsn, mPending], mPending being a partial function from     *)
(* stream sequence numbers (SSN) to pending messages.                      *)
(*                                                                         *)
(* A fragment's payload is an opaque value; a message is the sequence of   *)
(* the payloads that were joined.                                          *)
(***************************************************************************)
EXTENDS Integers, Sequences, FiniteSets, TLC

CONSTANT SsnCount   \* stream sequence numbers, 2^16 in the code

ASSUME SsnAssumption == SsnCount \in Nat /\ SsnCount > 1

NextSsn(ssn) == (ssn + 1) % SsnCount

\* static_cast<int16_t>(a - b) < 0
SsnBefore(a, b) == (a - b) % SsnCount >= SsnCount \div 2

NewReceiveBuffer == [mNextSsn |-> 0, mPending |-> <<>>]

consumeSsn(buf, ssn) ==
    IF ssn = buf.mNextSsn THEN [buf EXCEPT !.mNextSsn = NextSsn(ssn)] ELSE buf

Complete(buf, ssn) == ssn \in DOMAIN buf.mPending /\ buf.mPending[ssn].complete

\* Fragments are joined in the order in which they arrive: a first fragment
\* restarts the payload, a last one completes the message whatever came before.
Accumulate(buf, ssn, isFirst, isLast, data) ==
    LET old == IF ssn \in DOMAIN buf.mPending
               THEN buf.mPending[ssn]
               ELSE [payload |-> <<>>, complete |-> FALSE]
        new == [payload  |-> Append(IF isFirst THEN <<>> ELSE old.payload, data),
                complete |-> old.complete \/ isLast]
    IN  [buf EXCEPT !.mPending = [s \in DOMAIN @ \cup {ssn} |-> IF s = ssn THEN new ELSE @[s]]]

Erase(buf, ssns) ==
    [buf EXCEPT !.mPending = [s \in (DOMAIN @) \ ssns |-> @[s]]]

\* The SSNs that the loop at the end of receive() walks over: the longest run
\* of complete messages that starts at mNextSsn.
DrainCount(buf) ==
    CHOOSE n \in 0..Cardinality(DOMAIN buf.mPending) :
        /\ \A i \in 0..(n - 1) : Complete(buf, (buf.mNextSsn + i) % SsnCount)
        /\ n < Cardinality(DOMAIN buf.mPending) =>
              ~Complete(buf, (buf.mNextSsn + n) % SsnCount)

Drain(buf) ==
    LET n == DrainCount(buf)
        ssn(i) == (buf.mNextSsn + i - 1) % SsnCount
        ssns == {ssn(i) : i \in 1..n}
    IN  [buf |-> [Erase(buf, ssns) EXCEPT !.mNextSsn = (@ + n) % SsnCount],
         out |-> [i \in 1..n |-> buf.mPending[ssn(i)].payload]]

\* Mutated: the SSN is compared without regard to its wraparound.
receiveNoWrap(buf, ssn, isFirst, isLast, unordered, data) ==
    LET acc == Accumulate(buf, ssn, isFirst, isLast, data)
    IN  IF ~unordered /\ ssn < buf.mNextSsn THEN [buf |-> buf, out |-> <<>>]
        ELSE IF ~unordered THEN Drain(acc)
        ELSE IF Complete(acc, ssn)
             THEN [buf |-> Erase(acc, {ssn}), out |-> <<acc.mPending[ssn].payload>>]
        ELSE [buf |-> acc, out |-> <<>>]

\* Mutated: an ordered message is delivered as soon as it is complete.
receiveIgnoresOrder(buf, ssn, isFirst, isLast, unordered, data) ==
    LET acc == Accumulate(buf, ssn, isFirst, isLast, data)
    IN  IF Complete(acc, ssn)
        THEN [buf |-> Erase(acc, {ssn}), out |-> <<acc.mPending[ssn].payload>>]
        ELSE [buf |-> acc, out |-> <<>>]

\* receive(): the new buffer and the list of messages it returns.
receive(buf, ssn, isFirst, isLast, unordered, data) ==
    LET acc == Accumulate(buf, ssn, isFirst, isLast, data)
    IN  IF ~unordered /\ SsnBefore(ssn, buf.mNextSsn) THEN [buf |-> buf, out |-> <<>>]
        ELSE IF ~unordered THEN Drain(acc)
        ELSE IF Complete(acc, ssn)
             THEN [buf |-> Erase(acc, {ssn}), out |-> <<acc.mPending[ssn].payload>>]
        ELSE [buf |-> acc, out |-> <<>>]

=============================================================================
