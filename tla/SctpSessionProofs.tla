-------------------------- MODULE SctpSessionProofs --------------------------
(***************************************************************************)
(* For any number of messages, channels and losses: the accounts of an     *)
(* SctpSession's sender are right after every handler.  mFlightSize is the *)
(* payload of mSentChunks, T3 runs exactly while a chunk is unacknowledged *)
(* and, if no message is larger than the peer's window, no message waits   *)
(* in mPendingSend behind nothing.                                         *)
(*                                                                         *)
(* What a session does with its accounts does not depend on what arrives:  *)
(* every handler preserves SessionInv, whatever datagram it is given.      *)
(*                                                                         *)
(* What a sender takes for acknowledged has reached the peer: AckInv is    *)
(* about both sessions and the datagrams between them, and holds while     *)
(* fewer than half the circle of TSNs were given out.                      *)
(*                                                                         *)
(* What a listener is told comes in the order of sending, each message     *)
(* once: OrderInv follows the messages of each endpoint, those that wait,  *)
(* those that were given an SSN, in the datagrams and in the peer's        *)
(* receive buffer, for one channel that is not reset.                      *)
(***************************************************************************)
EXTENDS SctpSession, SequenceLemmas, FiniteSetTheorems

\* A sequence of something; a sequence of records whose sizes are in N.
IsSeq(q) == \E S : q \in Seq(S)
Sized(q, N) == IsSeq(q) /\ \A i \in 1..Len(q) : q[i].size \in N
-----------------------------------------------------------------------------
\* Sequences.

\* What a sequence is.
LEMMA SeqIs ==
    ASSUME NEW q, IsSeq(q)
    PROVE  Len(q) \in Nat /\ DOMAIN q = 1..Len(q)
BY LenProperties DEF IsSeq

\* A function on 1..n is a sequence.
LEMMA FunctionIsSeq ==
    ASSUME NEW n \in Nat, NEW q, q = [i \in 1..n |-> q[i]]
    PROVE  IsSeq(q) /\ Len(q) = n
<1> DEFINE S == {q[i] : i \in 1..n}
<1>1. q \in [1..n -> S]
  OBVIOUS
<1> HIDE DEF S
<1>2. q \in Seq(S) /\ Len(q) = n
  BY <1>1
<1> QED BY <1>2 DEF IsSeq

\* Two sequences, one after the other.
LEMMA ConcatIs ==
    ASSUME NEW q, NEW r, IsSeq(q), IsSeq(r)
    PROVE  /\ IsSeq(q \o r) /\ Len(q \o r) = Len(q) + Len(r)
           /\ \A i \in 1..Len(q) : (q \o r)[i] = q[i]
           /\ \A i \in 1..Len(r) : (q \o r)[Len(q) + i] = r[i]
<1>1. PICK S : q \in Seq(S)
  BY DEF IsSeq
<1>2. PICK T : r \in Seq(T)
  BY DEF IsSeq
<1> DEFINE X == S \cup T
<1>3. q \in Seq(X) /\ r \in Seq(X)
  BY <1>1, <1>2
<1> HIDE DEF X
<1>4. q \o r \in Seq(X)
  BY <1>3
<1>5. IsSeq(q \o r)
  BY <1>4 DEF IsSeq
<1> QED BY <1>3, <1>5

\* A sequence and one more.
LEMMA AppendIs ==
    ASSUME NEW q, NEW x, IsSeq(q)
    PROVE  /\ IsSeq(Append(q, x)) /\ Len(Append(q, x)) = Len(q) + 1
           /\ \A i \in 1..Len(q) : Append(q, x)[i] = q[i]
           /\ Append(q, x)[Len(q) + 1] = x
<1>1. PICK S : q \in Seq(S)
  BY DEF IsSeq
<1> DEFINE X == S \cup {x}
<1>2. q \in Seq(X) /\ x \in X
  BY <1>1
<1> HIDE DEF X
<1>3. Append(q, x) \in Seq(X)
  BY <1>2
<1>4. IsSeq(Append(q, x))
  BY <1>3 DEF IsSeq
<1> QED BY <1>2, <1>4

\* A sequence without its head.
LEMMA TailIs ==
    ASSUME NEW q, IsSeq(q), q # <<>>
    PROVE  /\ IsSeq(Tail(q)) /\ Len(Tail(q)) = Len(q) - 1 /\ Len(q) > 0
           /\ \A i \in 1..(Len(q) - 1) : Tail(q)[i] = q[i + 1]
<1>1. PICK S : q \in Seq(S)
  BY DEF IsSeq
<1>2. Tail(q) \in Seq(S)
  BY <1>1
<1>3. IsSeq(Tail(q))
  BY <1>2 DEF IsSeq
<1> QED BY <1>1, <1>3

\* The empty sequence is the one of length 0.
LEMMA EmptyIs ==
    ASSUME NEW q, IsSeq(q)
    PROVE  IsSeq(<<>>) /\ Len(<<>>) = 0 /\ (q = <<>> <=> Len(q) = 0)
<1>1. PICK S : q \in Seq(S)
  BY DEF IsSeq
<1>2. <<>> \in Seq({})
  OBVIOUS
<1> QED BY <1>1, <1>2, EmptySeq DEF IsSeq

\* The sizes of joined sequences.
LEMMA SizedIs ==
    ASSUME NEW N, NEW q, Sized(q, N)
    PROVE  /\ \A r : Sized(r, N) => Sized(q \o r, N)
           /\ \A x : x.size \in N => Sized(Append(q, x), N)
           /\ q # <<>> => Sized(Tail(q), N)
<1>0. IsSeq(q) /\ Len(q) \in Nat
  BY SeqIs DEF Sized
<1>1. ASSUME NEW r, Sized(r, N) PROVE Sized(q \o r, N)
  <2>1. IsSeq(r) /\ Len(r) \in Nat
    BY <1>1, SeqIs DEF Sized
  <2>2. ASSUME NEW i \in 1..(Len(q) + Len(r)) PROVE (q \o r)[i].size \in N
    <3>1. CASE i \in 1..Len(q)
      BY <1>0, <2>1, <3>1, ConcatIs DEF Sized
    <3>2. CASE i \notin 1..Len(q)
      <4>1. i - Len(q) \in 1..Len(r) /\ i = Len(q) + (i - Len(q))
        BY <1>0, <2>1, <3>2
      <4>2. (q \o r)[i] = r[i - Len(q)]
        BY <1>0, <2>1, <4>1, ConcatIs
      <4> QED BY <1>1, <4>1, <4>2 DEF Sized
    <3> QED BY <3>1, <3>2
  <2> QED BY <1>0, <2>1, <2>2, ConcatIs DEF Sized
<1>2. ASSUME NEW x, x.size \in N PROVE Sized(Append(q, x), N)
  <2>1. ASSUME NEW i \in 1..(Len(q) + 1) PROVE Append(q, x)[i].size \in N
    <3>1. i \in 1..Len(q) \/ i = Len(q) + 1
      BY <1>0
    <3> QED BY <1>0, <1>2, <3>1, AppendIs DEF Sized
  <2> QED BY <1>0, <2>1, AppendIs DEF Sized
<1>3. ASSUME q # <<>> PROVE Sized(Tail(q), N)
  <2>1. IsSeq(Tail(q)) /\ Len(Tail(q)) = Len(q) - 1
    BY <1>0, <1>3, TailIs
  <2>2. ASSUME NEW i \in 1..(Len(q) - 1) PROVE Tail(q)[i].size \in N
    <3>1. Tail(q)[i] = q[i + 1] /\ i + 1 \in 1..Len(q)
      BY <1>0, <1>3, TailIs
    <3> QED BY <3>1 DEF Sized
  <2> QED BY <2>1, <2>2 DEF Sized
<1> QED BY <1>1, <1>2, <1>3
-----------------------------------------------------------------------------
\* The payload of a list of chunks.

\* The recursion that sums up the sizes has a solution.
LEMMA PayloadsIs ==
    ASSUME NEW q, IsSeq(q)
    PROVE  Payloads(q) = [i \in 0..Len(q) |->
                            IF i = 0 THEN 0 ELSE Payloads(q)[i - 1] + q[i].size]
<1> DEFINE Eq(g, n) == g = [i \in 0..n |-> IF i = 0 THEN 0 ELSE g[i - 1] + q[i].size]
           T == {n \in Nat : \E g : Eq(g, n)}
<1>1. 0 \in T
  <2>1. Eq([i \in 0..0 |-> 0], 0)
    OBVIOUS
  <2> QED BY <2>1
<1>2. ASSUME NEW n \in Nat, n \in T PROVE n + 1 \in T
  <2>1. PICK g : Eq(g, n)
    BY <1>2
  <2> DEFINE h == [i \in 0..(n + 1) |-> IF i = n + 1 THEN g[n] + q[n + 1].size ELSE g[i]]
  <2>2. ASSUME NEW i \in 0..(n + 1)
        PROVE  h[i] = IF i = 0 THEN 0 ELSE h[i - 1] + q[i].size
    <3>1. CASE i = n + 1
      BY <3>1
    <3>2. CASE i # n + 1
      <4>1. i \in 0..n /\ h[i] = g[i] /\ (i # 0 => h[i - 1] = g[i - 1])
        BY <3>2
      <4>2. g[i] = IF i = 0 THEN 0 ELSE g[i - 1] + q[i].size
        BY <2>1, <4>1
      <4> QED BY <4>1, <4>2
    <3> QED BY <3>1, <3>2
  <2>3. h = [i \in 0..(n + 1) |-> h[i]]
    OBVIOUS
  <2> HIDE DEF h
  <2>4. Eq(h, n + 1)
    BY <2>2, <2>3
  <2> QED BY <2>4
<1>3. Nat \subseteq T
  <2> HIDE DEF T
  <2> QED BY <1>1, <1>2, NatSetInduction
<1>4. \E g : Eq(g, Len(q))
  BY <1>3, SeqIs
<1>5. Payloads(q) = CHOOSE g : Eq(g, Len(q))
  BY DEF Payloads
<1> QED BY <1>4, <1>5

\* The payload grows by the size of each chunk and never shrinks.
LEMMA PayloadSteps ==
    ASSUME NEW q, Sized(q, Nat)
    PROVE  /\ Payloads(q)[0] = 0
           /\ \A i \in 1..Len(q) : Payloads(q)[i] = Payloads(q)[i - 1] + q[i].size
           /\ \A i \in 0..Len(q) : Payloads(q)[i] \in Nat /\ Payloads(q)[i] <= Payload(q)
           /\ Payload(q) \in Nat
<1> DEFINE P == Payloads(q)
           n == Len(q)
           T == {i \in Nat : i <= n => P[i] \in Nat}
           S == {k \in Nat : k <= n => P[n - k] <= P[n]}
<1>1. n \in Nat /\ IsSeq(q)
  BY SeqIs DEF Sized
<1>2. /\ P[0] = 0
      /\ \A i \in 1..n : P[i] = P[i - 1] + q[i].size
  <2>1. P = [i \in 0..n |-> IF i = 0 THEN 0 ELSE P[i - 1] + q[i].size]
    BY <1>1, PayloadsIs
  <2> HIDE DEF P
  <2> QED BY <1>1, <2>1
<1> HIDE DEF P
<1>3. \A i \in 1..n : q[i].size \in Nat
  BY DEF Sized
<1>4. Nat \subseteq T
  <2>1. 0 \in T
    BY <1>2
  <2>2. ASSUME NEW i \in Nat, i \in T PROVE i + 1 \in T
    <3> SUFFICES ASSUME i + 1 <= n PROVE P[i + 1] \in Nat
      OBVIOUS
    <3>1. i + 1 \in 1..n /\ P[i] \in Nat /\ (i + 1) - 1 = i
      BY <1>1, <2>2
    <3> QED BY <1>2, <1>3, <3>1
  <2> HIDE DEF T
  <2> QED BY <2>1, <2>2, NatSetInduction
<1>5. \A i \in 0..n : P[i] \in Nat
  BY <1>1, <1>4
<1>6. Nat \subseteq S
  <2>1. 0 \in S
    BY <1>1, <1>5
  <2>2. ASSUME NEW k \in Nat, k \in S PROVE k + 1 \in S
    <3> SUFFICES ASSUME k + 1 <= n PROVE P[n - (k + 1)] <= P[n]
      OBVIOUS
    <3>1. n - k \in 1..n /\ (n - k) - 1 = n - (k + 1) /\ n - (k + 1) \in 0..n /\ P[n - k] <= P[n]
      BY <1>1, <2>2
    <3>2. P[n - k] = P[n - (k + 1)] + q[n - k].size
      BY <1>2, <3>1
    <3>3. P[n - (k + 1)] \in Nat /\ q[n - k].size \in Nat /\ P[n] \in Nat
      BY <1>1, <1>3, <1>5, <3>1
    <3> QED BY <3>1, <3>2, <3>3
  <2> HIDE DEF S
  <2> QED BY <2>1, <2>2, NatSetInduction
<1>7. ASSUME NEW i \in 0..n PROVE P[i] <= P[n]
  <2>1. n - i \in Nat /\ n - i <= n /\ n - (n - i) = i
    BY <1>1
  <2>2. n - i \in S
    BY <1>6, <2>1
  <2>3. P[n - (n - i)] <= P[n]
    BY <2>1, <2>2
  <2> QED BY <2>1, <2>3
<1>8. n \in 0..n
  BY <1>1
<1> QED BY <1>2, <1>5, <1>7, <1>8 DEF P, Payload

\* The payload of two lists is that of the one and that of the other.
LEMMA PayloadConcat ==
    ASSUME NEW q, NEW r, Sized(q, Nat), Sized(r, Nat)
    PROVE  Payload(q \o r) = Payload(q) + Payload(r)
<1> DEFINE s == q \o r
           P == Payloads(q)
           R == Payloads(r)
           S == Payloads(s)
           a == Len(q)
           b == Len(r)
           T == {i \in Nat : i <= a => S[i] = P[i]}
           U == {i \in Nat : i <= b => S[a + i] = P[a] + R[i]}
<1>1. /\ a \in Nat /\ b \in Nat /\ IsSeq(q) /\ IsSeq(r)
      /\ Len(s) = a + b
      /\ \A i \in 1..a : s[i] = q[i]
      /\ \A i \in 1..b : s[a + i] = r[i]
  BY SeqIs, ConcatIs DEF Sized
<1>2. Sized(s, Nat)
  BY SizedIs
<1> HIDE DEF s
<1>3. /\ P[0] = 0 /\ R[0] = 0 /\ S[0] = 0
      /\ \A i \in 1..a : P[i] = P[i - 1] + q[i].size
      /\ \A i \in 1..b : R[i] = R[i - 1] + r[i].size
      /\ \A i \in 1..Len(s) : S[i] = S[i - 1] + s[i].size
      /\ \A i \in 0..a : P[i] \in Nat
      /\ \A i \in 0..b : R[i] \in Nat
  BY <1>2, PayloadSteps
<1> HIDE DEF P, R, S, a, b
<1>4. Nat \subseteq T
  <2>1. 0 \in T
    BY <1>3
  <2>2. ASSUME NEW i \in Nat, i \in T PROVE i + 1 \in T
    <3> SUFFICES ASSUME i + 1 <= a PROVE S[i + 1] = P[i + 1]
      OBVIOUS
    <3>1. i + 1 \in 1..a /\ i + 1 \in 1..Len(s) /\ S[i] = P[i] /\ (i + 1) - 1 = i
      BY <1>1, <2>2
    <3> QED BY <1>1, <1>3, <3>1
  <2> HIDE DEF T
  <2> QED BY <2>1, <2>2, NatSetInduction
<1>5. S[a] = P[a]
  BY <1>1, <1>4
<1>6. Nat \subseteq U
  <2>1. 0 \in U
    <3>1. a + 0 = a /\ P[a] \in Nat
      BY <1>1, <1>3
    <3> QED BY <1>3, <1>5, <3>1
  <2>2. ASSUME NEW i \in Nat, i \in U PROVE i + 1 \in U
    <3> SUFFICES ASSUME i + 1 <= b PROVE S[a + (i + 1)] = P[a] + R[i + 1]
      OBVIOUS
    <3>1. /\ i + 1 \in 1..b /\ a + (i + 1) \in 1..Len(s) /\ S[a + i] = P[a] + R[i]
          /\ (i + 1) - 1 = i /\ (a + (i + 1)) - 1 = a + i /\ i \in 0..b /\ a \in 0..a
      BY <1>1, <2>2
    <3>2. S[a + (i + 1)] = S[a + i] + s[a + (i + 1)].size
      BY <1>3, <3>1
    <3>3. s[a + (i + 1)] = r[i + 1] /\ R[i + 1] = R[i] + r[i + 1].size
      BY <1>1, <1>3, <3>1
    <3>4. P[a] \in Nat /\ R[i] \in Nat
      BY <1>3, <3>1
    <3>5. r[i + 1].size \in Nat
      BY <3>1 DEF Sized, b
    <3> HIDE DEF P, R, S, a, b
    <3> QED BY <3>1, <3>2, <3>3, <3>4, <3>5
  <2> HIDE DEF U
  <2> QED BY <2>1, <2>2, NatSetInduction
<1>7. S[a + b] = P[a] + R[b]
  BY <1>1, <1>6
<1>8. Payload(s) = S[a + b] /\ Payload(q) = P[a] /\ Payload(r) = R[b]
  BY <1>1 DEF Payload, S, P, R, a, b
<1> QED BY <1>7, <1>8 DEF s

\* The payload of no chunks, of one, and of one more.
LEMMA PayloadAppend ==
    ASSUME NEW q, NEW x, Sized(q, Nat), x.size \in Nat
    PROVE  Payload(Append(q, x)) = Payload(q) + x.size /\ Payload(<<>>) = 0
<1> DEFINE y == <<x>>
           e == <<>>
<1>1. IsSeq(e) /\ Len(e) = 0 /\ IsSeq(y) /\ Len(y) = 1 /\ y[1] = x
  <2>1. IsSeq(e) /\ Len(e) = 0
    BY EmptyIs DEF Sized
  <2>2. IsSeq(Append(e, x)) /\ Len(Append(e, x)) = 0 + 1 /\ Append(e, x)[0 + 1] = x
    <3> HIDE DEF e
    <3> QED BY <2>1, AppendIs
  <2>3. Append(e, x) = y
    OBVIOUS
  <2> HIDE DEF e, y
  <2> QED BY <2>1, <2>2, <2>3
<1>2. Append(q, x) = q \o y
  <2>1. PICK S : q \in Seq(S)
    BY DEF Sized, IsSeq
  <2> DEFINE X == S \cup {x}
  <2>2. q \in Seq(X) /\ x \in X
    BY <2>1
  <2> HIDE DEF X
  <2> QED BY <2>2, AppendIsConcat
<1> HIDE DEF y, e
<1>3. Sized(y, Nat) /\ Sized(e, Nat)
  BY <1>1 DEF Sized
<1>4. Payload(y) = x.size
  <2>1. 1 \in 1..Len(y) /\ 1 - 1 = 0
    BY <1>1
  <2>2. Payloads(y)[1] = Payloads(y)[0] + y[1].size /\ Payloads(y)[0] = 0
    BY <1>3, <2>1, PayloadSteps
  <2> QED BY <1>1, <2>2 DEF Payload
<1>5. Payload(e) = 0
  BY <1>1, <1>3, PayloadSteps DEF Payload
<1>6. Payload(q \o y) = Payload(q) + x.size
  BY <1>3, <1>4, PayloadConcat
<1> QED BY <1>2, <1>5, <1>6 DEF e
-----------------------------------------------------------------------------
\* The loops.

\* The loop of onReceiveSack has a result.
LEMMA SackWalkIs ==
    ASSUME NEW s, NEW p, IsSeq(s.mSentChunks)
    PROVE  /\ SackWalk(s, p)[0] = [left |-> <<>>, acked |-> FALSE, flight |-> s.mFlightSize]
           /\ \A i \in 1..Len(s.mSentChunks) :
                 SackWalk(s, p)[i] = SackStep(p, SackWalk(s, p)[i - 1], s.mSentChunks[i])
<1> DEFINE q == s.mSentChunks
           base == [left |-> <<>>, acked |-> FALSE, flight |-> s.mFlightSize]
           Turn(g, i) == IF i = 0 THEN base ELSE SackStep(p, g[i - 1], q[i])
           Eq(g, n) == g = [i \in 0..n |-> Turn(g, i)]
           T == {n \in Nat : \E g : Eq(g, n)}
<1>1. 0 \in T
  <2>1. Eq([i \in 0..0 |-> base], 0)
    OBVIOUS
  <2> QED BY <2>1
<1>2. ASSUME NEW n \in Nat, n \in T PROVE n + 1 \in T
  <2>1. PICK g : Eq(g, n)
    BY <1>2
  <2> DEFINE h == [i \in 0..(n + 1) |-> IF i = n + 1 THEN SackStep(p, g[n], q[n + 1]) ELSE g[i]]
  <2>2. ASSUME NEW i \in 0..(n + 1) PROVE h[i] = Turn(h, i)
    <3>1. CASE i = n + 1
      BY <3>1
    <3>2. CASE i # n + 1
      <4>1. i \in 0..n /\ h[i] = g[i] /\ (i # 0 => h[i - 1] = g[i - 1])
        BY <3>2
      <4>2. g[i] = Turn(g, i)
        BY <2>1, <4>1
      <4> HIDE DEF h
      <4> QED BY <4>1, <4>2
    <3> QED BY <3>1, <3>2
  <2>3. h = [i \in 0..(n + 1) |-> h[i]]
    OBVIOUS
  <2> HIDE DEF h
  <2>4. Eq(h, n + 1)
    BY <2>2, <2>3, Zenon
  <2> QED BY <2>4
<1>3. Nat \subseteq T
  <2> HIDE DEF T
  <2> QED BY <1>1, <1>2, NatSetInduction
<1>4. \E g : Eq(g, Len(q))
  BY <1>3, SeqIs
<1> DEFINE w == SackWalk(s, p)
<1>5. w = CHOOSE g : Eq(g, Len(q))
  BY DEF SackWalk
<1>6. Eq(w, Len(q))
  BY <1>4, <1>5, Zenon
<1> HIDE DEF w, base
<1>7. \A i \in 0..Len(q) : w[i] = Turn(w, i)
  BY <1>6
<1>8. 0 \in 0..Len(q) /\ \A i \in 1..Len(q) : i \in 0..Len(q) /\ i # 0
  BY SeqIs
<1> QED BY <1>7, <1>8 DEF w, base

\* The loop of transmitPending has a result.
LEMMA PendingWalkIs ==
    ASSUME NEW e, NEW s, IsSeq(s.mPendingSend)
    PROVE  /\ PendingWalk(e, s)[0] = [s |-> s, out |-> {}, stop |-> FALSE]
           /\ \A i \in 1..Len(s.mPendingSend) :
                 PendingWalk(e, s)[i] = PendingStep(e, PendingWalk(e, s)[i - 1], s.mPendingSend[i])
<1> DEFINE q == s.mPendingSend
           base == [s |-> s, out |-> {}, stop |-> FALSE]
           Turn(g, i) == IF i = 0 THEN base ELSE PendingStep(e, g[i - 1], q[i])
           Eq(g, n) == g = [i \in 0..n |-> Turn(g, i)]
           T == {n \in Nat : \E g : Eq(g, n)}
<1>1. 0 \in T
  <2>1. Eq([i \in 0..0 |-> base], 0)
    OBVIOUS
  <2> QED BY <2>1
<1>2. ASSUME NEW n \in Nat, n \in T PROVE n + 1 \in T
  <2>1. PICK g : Eq(g, n)
    BY <1>2
  <2> DEFINE h == [i \in 0..(n + 1) |-> IF i = n + 1 THEN PendingStep(e, g[n], q[n + 1]) ELSE g[i]]
  <2>2. ASSUME NEW i \in 0..(n + 1) PROVE h[i] = Turn(h, i)
    <3>1. CASE i = n + 1
      BY <3>1
    <3>2. CASE i # n + 1
      <4>1. i \in 0..n /\ h[i] = g[i] /\ (i # 0 => h[i - 1] = g[i - 1])
        BY <3>2
      <4>2. g[i] = Turn(g, i)
        BY <2>1, <4>1
      <4> HIDE DEF h
      <4> QED BY <4>1, <4>2
    <3> QED BY <3>1, <3>2
  <2>3. h = [i \in 0..(n + 1) |-> h[i]]
    OBVIOUS
  <2> HIDE DEF h
  <2>4. Eq(h, n + 1)
    BY <2>2, <2>3, Zenon
  <2> QED BY <2>4
<1>3. Nat \subseteq T
  <2> HIDE DEF T
  <2> QED BY <1>1, <1>2, NatSetInduction
<1>4. \E g : Eq(g, Len(q))
  BY <1>3, SeqIs
<1> DEFINE w == PendingWalk(e, s)
<1>5. w = CHOOSE g : Eq(g, Len(q))
  BY DEF PendingWalk
<1>6. Eq(w, Len(q))
  BY <1>4, <1>5, Zenon
<1> HIDE DEF w, base
<1>7. \A i \in 0..Len(q) : w[i] = Turn(w, i)
  BY <1>6
<1>8. 0 \in 0..Len(q) /\ \A i \in 1..Len(q) : i \in 0..Len(q) /\ i # 0
  BY SeqIs
<1> QED BY <1>7, <1>8 DEF w, base

OpenStart(r) == <<[r[1] EXCEPT !.mDataSendQueue = <<>>], r[2]>>

\* The loop of PeerCandidate::onSctpDataChannelOpen has a result.
LEMMA OpenWalkIs ==
    ASSUME NEW e, NEW label, NEW r, NEW queue, IsSeq(queue)
    PROVE  /\ OpenWalk(e, label, r, queue)[0] = OpenStart(r)
           /\ \A i \in 1..Len(queue) :
                 OpenWalk(e, label, r, queue)[i] = OpenStep(e, label, OpenWalk(e, label, r, queue)[i - 1], queue[i])
<1> DEFINE q == queue
           base == OpenStart(r)
           Turn(g, i) == IF i = 0 THEN base ELSE OpenStep(e, label, g[i - 1], q[i])
           Eq(g, n) == g = [i \in 0..n |-> Turn(g, i)]
           T == {n \in Nat : \E g : Eq(g, n)}
<1>1. 0 \in T
  <2>1. Eq([i \in 0..0 |-> base], 0)
    OBVIOUS
  <2> QED BY <2>1
<1>2. ASSUME NEW n \in Nat, n \in T PROVE n + 1 \in T
  <2>1. PICK g : Eq(g, n)
    BY <1>2
  <2> DEFINE h == [i \in 0..(n + 1) |-> IF i = n + 1 THEN OpenStep(e, label, g[n], q[n + 1]) ELSE g[i]]
  <2>2. ASSUME NEW i \in 0..(n + 1) PROVE h[i] = Turn(h, i)
    <3>1. CASE i = n + 1
      BY <3>1
    <3>2. CASE i # n + 1
      <4>1. i \in 0..n /\ h[i] = g[i] /\ (i # 0 => h[i - 1] = g[i - 1])
        BY <3>2
      <4>2. g[i] = Turn(g, i)
        BY <2>1, <4>1
      <4> HIDE DEF h
      <4> QED BY <4>1, <4>2
    <3> QED BY <3>1, <3>2
  <2>3. h = [i \in 0..(n + 1) |-> h[i]]
    OBVIOUS
  <2> HIDE DEF h
  <2>4. Eq(h, n + 1)
    BY <2>2, <2>3, Zenon
  <2> QED BY <2>4
<1>3. Nat \subseteq T
  <2> HIDE DEF T
  <2> QED BY <1>1, <1>2, NatSetInduction
<1>4. \E g : Eq(g, Len(q))
  BY <1>3, SeqIs
<1> DEFINE w == OpenWalk(e, label, r, queue)
<1>5. w = CHOOSE g : Eq(g, Len(q))
  BY DEF OpenWalk, OpenStart
<1>6. Eq(w, Len(q))
  BY <1>4, <1>5, Zenon
<1> HIDE DEF w, base
<1>7. \A i \in 0..Len(q) : w[i] = Turn(w, i)
  BY <1>6
<1>8. 0 \in 0..Len(q) /\ \A i \in 1..Len(q) : i \in 0..Len(q) /\ i # 0
  BY SeqIs
<1> QED BY <1>7, <1>8 DEF w, base
-----------------------------------------------------------------------------
\* The invariant.

Fields ==
    {"mState", "mPeerTag", "mPeerRwnd", "mCurrentTsn", "mPeerCumulativeTsn",
     "mPeerOutOfOrderTsns", "mSentChunks", "mPendingSend", "mDataSendQueue", "dropped",
     "mFlightSize", "t1Init", "t1Cookie", "t3Rtx", "mDataChannels"}

\* Sizes of chunks, and of messages that send() does not refuse.
Positive == Nat \ {0}
Sendable == {n \in Sizes : MaxMessageSize = 0 \/ n <= MaxMessageSize}

\* No message that send() takes is larger than the peer's whole window.
WindowFits == \A n \in Sendable : n <= InitRwnd

\* What Accounts reads of a session.
Read == {"mSentChunks", "mPendingSend", "mDataSendQueue", "mFlightSize", "t3Rtx", "mState",
         "mPeerRwnd", "t1Init"}

Accounts(s) ==
    /\ DOMAIN s = Fields
    /\ Sized(s.mSentChunks, Positive)
    /\ Sized(s.mPendingSend, Sendable) /\ Sized(s.mDataSendQueue, Sizes)
    /\ IsSeq(s.mDataChannels)
    /\ s.mFlightSize = Payload(s.mSentChunks)
    /\ s.t3Rtx = (s.mSentChunks # <<>>)
    /\ s.mState \in {"CookieEchoed", "Established"} => s.mPeerRwnd = InitRwnd
    /\ s.t1Init # Idle => s.mState = "CookieWait"

NotStranded(s) == WindowFits /\ s.mPendingSend # <<>> => s.mSentChunks # <<>>

SessionInv(s) == Accounts(s) /\ NotStranded(s)

SctpInv == DOMAIN ss = Endpoints /\ \A e \in Endpoints : SessionInv(ss[e])
-----------------------------------------------------------------------------
\* Sending.

\* A session that differs in other fields.
LEMMA SameAccounts ==
    ASSUME NEW s, NEW t, Accounts(s), DOMAIN t = Fields, IsSeq(t.mDataChannels),
           \A f \in Read : t[f] = s[f]
    PROVE  Accounts(t) /\ (NotStranded(s) => NotStranded(t))
<1>1. /\ t.mSentChunks = s.mSentChunks /\ t.mPendingSend = s.mPendingSend
      /\ t.mDataSendQueue = s.mDataSendQueue /\ t.mFlightSize = s.mFlightSize
      /\ t.t3Rtx = s.t3Rtx /\ t.mState = s.mState /\ t.mPeerRwnd = s.mPeerRwnd
      /\ t.t1Init = s.t1Init
  BY DEF Read
<1>2. Accounts(t)
  BY <1>1, Zenon DEF Accounts
<1>3. NotStranded(s) => NotStranded(t)
  BY <1>1, Zenon DEF NotStranded
<1> QED BY <1>2, <1>3

\* A channel that changes leaves the list a list.
LEMMA ExceptIsSeq ==
    ASSUME NEW q, NEW i, NEW x, IsSeq(q)
    PROVE  IsSeq([q EXCEPT ![i] = x])
<1> DEFINE r == [q EXCEPT ![i] = x]
<1>1. Len(q) \in Nat /\ DOMAIN q = 1..Len(q)
  BY SeqIs
<1>2. r = [j \in 1..Len(q) |-> r[j]]
  BY <1>1
<1> HIDE DEF r
<1>3. IsSeq(r)
  BY <1>1, <1>2, FunctionIsSeq
<1> QED BY <1>3 DEF r

\* The sizes of chunks are numbers.
LEMMA ChunksAreSized ==
    ASSUME NEW q, Sized(q, Positive)
    PROVE  Sized(q, Nat) /\ (q # <<>> => Payload(q) > 0)
<1>1. Sized(q, Nat)
  BY DEF Sized, Positive
<1>2. ASSUME q # <<>> PROVE Payload(q) > 0
  <2>1. Len(q) \in Nat /\ Len(q) # 0
    BY <1>2, EmptyIs, SeqIs DEF Sized
  <2>2. 1 \in 1..Len(q) /\ 1 \in 0..Len(q) /\ 1 - 1 = 0
    BY <2>1
  <2>3. Payloads(q)[1] = 0 + q[1].size /\ Payloads(q)[1] <= Payload(q) /\ Payload(q) \in Nat
    BY <1>1, <2>2, PayloadSteps
  <2>4. q[1].size \in Nat /\ q[1].size > 0
    BY <2>2 DEF Sized, Positive
  <2> QED BY <2>3, <2>4
<1> QED BY <1>1, <1>2

\* Transmit accounts for the chunks and starts T3.
LEMMA TransmitIs ==
    ASSUME NEW s, NEW chunks, Accounts(s), Sized(chunks, Positive), chunks # <<>>
    PROVE  /\ Accounts(Transmit(s, chunks))
           /\ Transmit(s, chunks).mSentChunks # <<>>
           /\ \A f \in Fields \ {"mCurrentTsn", "mSentChunks", "mFlightSize", "t3Rtx"} :
                 Transmit(s, chunks)[f] = s[f]
<1> DEFINE t == Transmit(s, chunks)
           q == s.mSentChunks \o chunks
           z == s.mFlightSize + Payload(chunks)
           b == s.t3Rtx \/ s.mSentChunks = <<>>
<1>0. DOMAIN s = Fields
  BY DEF Accounts
<1>1. /\ DOMAIN t = Fields /\ t.mSentChunks = q /\ t.mFlightSize = z /\ t.t3Rtx = b
      /\ \A f \in Fields \ {"mCurrentTsn", "mSentChunks", "mFlightSize", "t3Rtx"} : t[f] = s[f]
  BY <1>0 DEF Transmit, Fields
<1>2. Sized(s.mSentChunks, Positive) /\ s.mFlightSize = Payload(s.mSentChunks)
      /\ IsSeq(s.mSentChunks) /\ IsSeq(chunks)
  BY DEF Accounts, Sized
<1> HIDE DEF t
<1>3. Sized(q, Positive)
  BY <1>2, SizedIs
<1>4. z = Payload(q)
  BY <1>2, ChunksAreSized, PayloadConcat
<1>5. q # <<>>
  <2>1. Len(q) = Len(s.mSentChunks) + Len(chunks) /\ IsSeq(q)
    BY <1>2, ConcatIs
  <2>2. Len(chunks) \in Nat /\ Len(chunks) # 0 /\ Len(s.mSentChunks) \in Nat
    BY <1>2, SeqIs, EmptyIs
  <2>3. Len(q) # 0
    BY <2>1, <2>2
  <2> HIDE DEF q
  <2> QED BY <2>1, <2>3, EmptyIs
<1>6. b = TRUE /\ (q # <<>>) = TRUE
  <2>1. s.t3Rtx = (s.mSentChunks # <<>>)
    BY DEF Accounts
  <2>2. b
    BY <2>1
  <2> QED BY <1>5, <2>2
<1> HIDE DEF q, z, b
<1>7. /\ t.mPendingSend = s.mPendingSend /\ t.mDataSendQueue = s.mDataSendQueue
      /\ t.mState = s.mState /\ t.mPeerRwnd = s.mPeerRwnd /\ t.t1Init = s.t1Init
      /\ t.mDataChannels = s.mDataChannels
  BY <1>1 DEF Fields
<1>8. t.t3Rtx = (t.mSentChunks # <<>>)
  BY <1>1, <1>6
<1>9. Accounts(t)
  <2>1. /\ Sized(t.mSentChunks, Positive) /\ t.mFlightSize = Payload(t.mSentChunks)
        /\ DOMAIN t = Fields
    BY <1>1, <1>3, <1>4
  <2> QED BY <1>7, <1>8, <2>1, Zenon DEF Accounts
<1> QED BY <1>1, <1>5, <1>9 DEF t

\* The fragments of a message.
LEMMA FragmentsAre ==
    ASSUME NEW s, NEW ch, NEW msg, msg.size \in Positive
    PROVE  Sized(FragmentsOf(s, ch, msg), Positive) /\ FragmentsOf(s, ch, msg) # <<>>
<1> DEFINE q == FragmentsOf(s, ch, msg)
           n == msg.size
<1>1. n \in Nat /\ n > 0
  BY DEF Positive
<1>2. q = [i \in 1..n |-> q[i]]
  BY DEF FragmentsOf
<1>6. \A i \in 1..n : q[i].size = 1
  BY DEF FragmentsOf
<1> HIDE DEF q, n
<1>3. IsSeq(q) /\ Len(q) = n
  BY <1>1, <1>2, FunctionIsSeq
<1>4. q # <<>>
  BY <1>1, <1>3, EmptyIs
<1>5. Sized(q, Positive)
  BY <1>3, <1>6 DEF Sized, Positive
<1> QED BY <1>4, <1>5 DEF q

\* What sendMessageNow changes.
LEMMA SendNowIs ==
    ASSUME NEW e, NEW s, NEW i, NEW msg, Accounts(s), msg.size \in Positive
    PROVE  /\ Accounts(sendMessageNow(e, s, i, msg)[1])
           /\ sendMessageNow(e, s, i, msg)[1].mSentChunks # <<>>
           /\ sendMessageNow(e, s, i, msg)[1].mPendingSend = s.mPendingSend
           /\ sendMessageNow(e, s, i, msg)[1].mPeerRwnd = s.mPeerRwnd
<1> DEFINE chunks == FragmentsOf(s, s.mDataChannels[i], msg)
           sent == [s EXCEPT !.mDataChannels[i].sendSsn = NextSsn(@)]
           ch == s.mDataChannels
           x == [ch[i] EXCEPT !.sendSsn = NextSsn(@)]
           t == Transmit(sent, chunks)
<1>1. sendMessageNow(e, s, i, msg)[1] = t
  BY DEF sendMessageNow
<1>2. Sized(chunks, Positive) /\ chunks # <<>>
  BY FragmentsAre
<1>3. DOMAIN s = Fields /\ IsSeq(ch)
  BY DEF Accounts
<1>4. DOMAIN sent = Fields /\ (\A f \in Fields \ {"mDataChannels"} : sent[f] = s[f])
      /\ sent.mDataChannels = [ch EXCEPT ![i] = x]
  BY <1>3 DEF Fields
<1> HIDE DEF sent, chunks, ch, x
<1>5. IsSeq(sent.mDataChannels)
  BY <1>3, <1>4, ExceptIsSeq
<1>6. \A f \in Read : sent[f] = s[f]
  BY <1>4 DEF Read, Fields
<1>7. Accounts(sent)
  BY <1>4, <1>5, <1>6, SameAccounts
<1>8. /\ Accounts(t) /\ t.mSentChunks # <<>>
      /\ \A f \in Fields \ {"mCurrentTsn", "mSentChunks", "mFlightSize", "t3Rtx"} : t[f] = sent[f]
  BY <1>2, <1>7, TransmitIs
<1> HIDE DEF t
<1>9. t.mPendingSend = sent.mPendingSend /\ t.mPeerRwnd = sent.mPeerRwnd
  BY <1>8 DEF Fields
<1> QED BY <1>1, <1>6, <1>8, <1>9 DEF Read

WithPending(s, q) == [s EXCEPT !.mPendingSend = q]
WithQueue(s, q) == [s EXCEPT !.mDataSendQueue = q]

\* Another list of messages that wait for the window, or for their channel.
LEMMA QueuesChange ==
    ASSUME NEW s, NEW q, Accounts(s)
    PROVE  /\ Sized(q, Sendable) => Accounts(WithPending(s, q))
           /\ Sized(q, Sizes) => Accounts(WithQueue(s, q))
           /\ WithPending(s, q).mPendingSend = q
           /\ \A f \in Fields \ {"mPendingSend"} : WithPending(s, q)[f] = s[f]
           /\ WithQueue(s, q).mDataSendQueue = q
           /\ \A f \in Fields \ {"mDataSendQueue"} : WithQueue(s, q)[f] = s[f]
<1> DEFINE t == WithPending(s, q)
           u == WithQueue(s, q)
<1>1. DOMAIN s = Fields
  BY DEF Accounts
<1>2. DOMAIN t = Fields /\ t.mPendingSend = q /\ \A f \in Fields \ {"mPendingSend"} : t[f] = s[f]
  BY <1>1 DEF Fields, WithPending
<1>3. DOMAIN u = Fields /\ u.mDataSendQueue = q /\ \A f \in Fields \ {"mDataSendQueue"} : u[f] = s[f]
  BY <1>1 DEF Fields, WithQueue
<1> HIDE DEF t, u
<1>4. ASSUME Sized(q, Sendable) PROVE Accounts(t)
  <2>1. /\ t.mSentChunks = s.mSentChunks /\ t.mDataSendQueue = s.mDataSendQueue
        /\ t.mFlightSize = s.mFlightSize /\ t.mDataChannels = s.mDataChannels
        /\ t.t3Rtx = s.t3Rtx /\ t.mState = s.mState /\ t.mPeerRwnd = s.mPeerRwnd
        /\ t.t1Init = s.t1Init
    BY <1>2 DEF Fields
  <2>2. t.mPendingSend = q /\ DOMAIN t = Fields
    BY <1>2
  <2> QED BY <1>4, <2>1, <2>2, Zenon DEF Accounts
<1>5. ASSUME Sized(q, Sizes) PROVE Accounts(u)
  <2>1. /\ u.mSentChunks = s.mSentChunks /\ u.mPendingSend = s.mPendingSend
        /\ u.mFlightSize = s.mFlightSize /\ u.mDataChannels = s.mDataChannels
        /\ u.t3Rtx = s.t3Rtx /\ u.mState = s.mState /\ u.mPeerRwnd = s.mPeerRwnd
        /\ u.t1Init = s.t1Init
    BY <1>3 DEF Fields
  <2>2. u.mDataSendQueue = q /\ DOMAIN u = Fields
    BY <1>3
  <2> QED BY <1>5, <2>1, <2>2, Zenon DEF Accounts
<1> QED BY <1>2, <1>3, <1>4, <1>5 DEF t, u

\* A message that does not fit although it fits the whole window has chunks ahead of it.
LEMMA NoRoomMeansSent ==
    ASSUME NEW s, NEW msg, Accounts(s), WindowFits, msg.size \in Sendable,
           s.mPeerRwnd = InitRwnd, ~FitsWindow(s, msg)
    PROVE  s.mSentChunks # <<>>
<1> SUFFICES ASSUME s.mSentChunks = <<>> PROVE FALSE
  OBVIOUS
<1>1. s.mFlightSize = Payload(<<>>) /\ Sized(<<>>, Positive)
  BY DEF Accounts
<1>2. Payload(<<>>) = 0
  <2> DEFINE e == <<>>
  <2>1. Sized(e, Nat) /\ IsSeq(e)
    BY <1>1, ChunksAreSized DEF Sized
  <2>2. Len(e) = 0
    BY <2>1, EmptyIs
  <2> HIDE DEF e
  <2>3. Payload(e) = 0
    BY <2>1, <2>2, PayloadSteps DEF Payload
  <2> QED BY <2>3 DEF e
<1>3. msg.size \in Nat /\ msg.size <= InitRwnd /\ InitRwnd \in Nat
  BY SctpAssumption DEF WindowFits, Sendable
<1> QED BY <1>1, <1>2, <1>3 DEF FitsWindow

\* send(): a message that has to wait waits behind something.
LEMMA SendIs ==
    ASSUME NEW e, NEW s, NEW msg, SessionInv(s), msg.size \in Sizes
    PROVE  SessionInv(send(e, s, msg)[1])
<1> DEFINE refused == s.mState # "Established" \/ ~CanSendOn(s, msg.label)
                         \/ (MaxMessageSize > 0 /\ msg.size > MaxMessageSize)
           r == send(e, s, msg)
<1>0. Accounts(s) /\ NotStranded(s) /\ DOMAIN s = Fields
  BY DEF SessionInv, Accounts
<1>1. CASE refused
  <2> DEFINE t == [s EXCEPT !.dropped = @ \cup {msg.id}]
  <2>1. r[1] = t
    BY <1>1 DEF send
  <2>2. DOMAIN t = Fields /\ (\A f \in Read : t[f] = s[f]) /\ t.mDataChannels = s.mDataChannels
    BY <1>0 DEF Fields, Read
  <2> HIDE DEF t, r
  <2>3. IsSeq(t.mDataChannels)
    BY <1>0, <2>2 DEF Accounts
  <2> QED BY <1>0, <2>1, <2>2, <2>3, SameAccounts DEF SessionInv, r
<1>2. ASSUME ~refused PROVE msg.size \in Sendable /\ s.mPeerRwnd = InitRwnd
  <2>1. msg.size \in Nat /\ MaxMessageSize \in Nat
    BY SctpAssumption
  <2> QED BY <1>0, <1>2, <2>1 DEF Sendable, Accounts
<1>3. CASE ~refused /\ ~FitsWindow(s, msg)
  <2> DEFINE q == Append(s.mPendingSend, msg)
             t == WithPending(s, q)
  <2>1. r[1] = t
    BY <1>3 DEF send, WithPending
  <2>2. Sized(q, Sendable)
    BY <1>0, <1>2, <1>3, SizedIs DEF Accounts
  <2> HIDE DEF q
  <2>3. Accounts(t) /\ t.mSentChunks = s.mSentChunks
    BY <1>0, <2>2, QueuesChange DEF Fields
  <2>4. WindowFits => s.mSentChunks # <<>>
    BY <1>0, <1>2, <1>3, NoRoomMeansSent
  <2> HIDE DEF t, r
  <2> QED BY <2>1, <2>3, <2>4 DEF SessionInv, NotStranded, r
<1>4. CASE ~refused /\ FitsWindow(s, msg)
  <2> DEFINE i == ChannelByLabel(s, msg.label)
             t == sendMessageNow(e, s, i, msg)[1]
  <2>1. r = sendMessageNow(e, s, i, msg)
    BY <1>4 DEF send
  <2>2. msg.size \in Positive
    BY SctpAssumption DEF Positive
  <2> HIDE DEF i
  <2>3. Accounts(t) /\ t.mSentChunks # <<>>
    BY <1>0, <2>2, SendNowIs
  <2> HIDE DEF t
  <2>4. SessionInv(t)
    BY <2>3 DEF SessionInv, NotStranded
  <2> QED BY <2>1, <2>4 DEF t
<1> QED BY <1>1, <1>3, <1>4

\* Opening a channel: what waited for it is sent, the rest waits on.
LEMMA OpenIs ==
    ASSUME NEW e, NEW r, NEW label, SessionInv(r[1])
    PROVE  SessionInv(onSctpDataChannelOpen(e, r, label)[1])
<1> DEFINE queue == r[1].mDataSendQueue
           n == Len(queue)
           W == OpenWalk(e, label, r, queue)
           T == {k \in Nat : k <= n => SessionInv(W[k][1])}
<1>1. Sized(queue, Sizes) /\ IsSeq(queue) /\ n \in Nat
  BY SeqIs DEF SessionInv, Accounts, Sized
<1>2. /\ W[0] = OpenStart(r)
      /\ \A k \in 1..n : W[k] = OpenStep(e, label, W[k - 1], queue[k])
  <2> HIDE DEF queue
  <2> QED BY <1>1, OpenWalkIs
<1>3. onSctpDataChannelOpen(e, r, label)[1] = W[n][1]
  BY DEF onSctpDataChannelOpen
<1> HIDE DEF W, queue, n
<1>4. 0 \in T
  <2> DEFINE s == r[1]
             none == <<>>
             t == WithQueue(s, none)
  <2>1. IsSeq(none) /\ Len(none) = 0
    BY <1>1, EmptyIs
  <2> HIDE DEF none
  <2>2. Sized(none, Sizes)
    BY <2>1 DEF Sized
  <2>6. Accounts(s)
    BY DEF SessionInv
  <2> HIDE DEF s
  <2>3. Accounts(t) /\ t.mPendingSend = s.mPendingSend /\ t.mSentChunks = s.mSentChunks
    <3>1. Accounts(t) /\ \A f \in Fields \ {"mDataSendQueue"} : t[f] = s[f]
      BY <2>2, <2>6, QueuesChange
    <3> HIDE DEF t
    <3> QED BY <3>1 DEF Fields
  <2> HIDE DEF t
  <2>4. SessionInv(t)
    BY <2>3 DEF SessionInv, NotStranded, s
  <2>5. W[0][1] = t
    BY <1>2 DEF t, s, none, OpenStart, WithQueue
  <2> QED BY <2>4, <2>5
<1>5. ASSUME NEW k \in Nat, k \in T PROVE k + 1 \in T
  <2> SUFFICES ASSUME k + 1 <= n PROVE SessionInv(W[k + 1][1])
    OBVIOUS
  <2> DEFINE w == W[k]
             msg == queue[k + 1]
             s == w[1]
  <2>1. k + 1 \in 1..n /\ SessionInv(s) /\ (k + 1) - 1 = k
    BY <1>1, <1>5
  <2>2. W[k + 1] = OpenStep(e, label, w, msg) /\ msg.size \in Sizes
    BY <1>1, <1>2, <2>1 DEF Sized, n
  <2> HIDE DEF w, msg
  <2>3. CASE msg.label = label
    <3>1. W[k + 1][1] = send(e, s, msg)[1]
      BY <2>2, <2>3 DEF OpenStep
    <3> HIDE DEF s
    <3> QED BY <2>1, <2>2, <3>1, SendIs
  <2>4. CASE msg.label # label
    <3> DEFINE q == Append(s.mDataSendQueue, msg)
               t == WithQueue(s, q)
    <3>1. W[k + 1][1] = t
      BY <2>2, <2>4 DEF OpenStep, WithQueue
    <3> HIDE DEF s
    <3>2. Sized(q, Sizes)
      BY <2>1, <2>2, SizedIs DEF SessionInv, Accounts
    <3> HIDE DEF q
    <3>3. Accounts(t) /\ t.mPendingSend = s.mPendingSend /\ t.mSentChunks = s.mSentChunks
      <4>1. Accounts(s)
        BY <2>1 DEF SessionInv
      <4>2. Accounts(t) /\ \A f \in Fields \ {"mDataSendQueue"} : t[f] = s[f]
        BY <3>2, <4>1, QueuesChange
      <4> HIDE DEF t
      <4> QED BY <4>2 DEF Fields
    <3> HIDE DEF t
    <3> QED BY <2>1, <3>1, <3>3 DEF SessionInv, NotStranded
  <2> QED BY <2>3, <2>4
<1>6. Nat \subseteq T
  <2> HIDE DEF T
  <2> QED BY <1>4, <1>5, NatSetInduction
<1> QED BY <1>1, <1>3, <1>6

\* The loop of transmitPending with m messages left in the queue.
PendingOK(w, m) ==
    /\ DOMAIN w = {"s", "out", "stop"} /\ Accounts(w.s) /\ w.s.mPeerRwnd = InitRwnd
    /\ \/ w.stop = FALSE /\ Len(w.s.mPendingSend) = m
       \/ w.stop = TRUE /\ (WindowFits => w.s.mSentChunks # <<>>)

\* One turn sends a message, drops it, or stops behind chunks that are on their way.
LEMMA PendingTurn ==
    ASSUME NEW e, NEW w, NEW m \in Nat, NEW msg, PendingOK(w, m), m > 0, msg.size \in Sendable
    PROVE  PendingOK(PendingStep(e, w, msg), m - 1)
<1> DEFINE v == PendingStep(e, w, msg)
           s == w.s
           q == s.mPendingSend
           i == ChannelByLabel(s, msg.label)
           r == sendMessageNow(e, s, i, msg)
<1>0. v = IF w.stop THEN w
          ELSE IF ~CanSendOn(s, msg.label)
          THEN [w EXCEPT !.s = [s EXCEPT !.mPendingSend = Tail(@)]]
          ELSE IF ~FitsWindow(s, msg) THEN [w EXCEPT !.stop = TRUE]
          ELSE [s |-> [r[1] EXCEPT !.mPendingSend = Tail(@)],
                out |-> w.out \cup r[2], stop |-> FALSE]
  BY DEF PendingStep
<1>1. DOMAIN w = {"s", "out", "stop"} /\ Accounts(s) /\ s.mPeerRwnd = InitRwnd
  BY DEF PendingOK
<1> HIDE DEF v, s
<1>2. CASE w.stop = TRUE
  <2>1. v = w
    BY <1>0, <1>2
  <2> QED BY <1>2, <2>1 DEF PendingOK, v
<1>3. CASE w.stop = FALSE
  <2>1. Len(q) = m /\ Sized(q, Sendable) /\ IsSeq(q)
    BY <1>1, <1>3 DEF PendingOK, Accounts, Sized, s
  <2>2. q # <<>>
    BY <2>1, EmptyIs
  <2>3. Sized(Tail(q), Sendable) /\ Len(Tail(q)) = m - 1
    BY <2>1, <2>2, SizedIs, TailIs
  <2> DEFINE rest == Tail(q)
  <2>4. CASE ~CanSendOn(s, msg.label)
    <3> DEFINE t == WithPending(s, rest)
    <3>1. v = [w EXCEPT !.s = t]
      <4>1. v = [w EXCEPT !.s = [s EXCEPT !.mPendingSend = Tail(@)]]
        BY <1>0, <1>3, <2>4
      <4>2. t = [s EXCEPT !.mPendingSend = Tail(@)]
        BY <1>1 DEF WithPending
      <4> QED BY <4>1, <4>2
    <3> HIDE DEF rest
    <3>2. Accounts(t) /\ t.mPendingSend = rest /\ \A f \in Fields \ {"mPendingSend"} : t[f] = s[f]
      BY <1>1, <2>3, QueuesChange DEF rest
    <3> HIDE DEF t
    <3>3. t.mPeerRwnd = InitRwnd
      BY <1>1, <3>2 DEF Fields
    <3>4. DOMAIN v = {"s", "out", "stop"} /\ v.s = t /\ v.stop = w.stop
      BY <1>1, <3>1
    <3>5. Len(v.s.mPendingSend) = m - 1 /\ v.stop = FALSE
      BY <1>3, <2>3, <3>2, <3>4 DEF rest
    <3> QED BY <3>2, <3>3, <3>4, <3>5 DEF PendingOK, v
  <2>5. CASE CanSendOn(s, msg.label) /\ ~FitsWindow(s, msg)
    <3>1. v = [w EXCEPT !.stop = TRUE]
      BY <1>0, <1>3, <2>5
    <3>2. DOMAIN v = {"s", "out", "stop"} /\ v.s = s /\ v.stop = TRUE
      BY <1>1, <3>1 DEF s
    <3>3. WindowFits => s.mSentChunks # <<>>
      BY <1>1, <2>5, NoRoomMeansSent
    <3> QED BY <1>1, <3>2, <3>3 DEF PendingOK, v
  <2>6. CASE CanSendOn(s, msg.label) /\ FitsWindow(s, msg)
    <3> DEFINE u == r[1]
               t == WithPending(u, rest)
    <3> HIDE DEF i
    <3>1. Accounts(u) /\ u.mPendingSend = q /\ u.mPeerRwnd = InitRwnd
      <4>1. msg.size \in Positive
        BY SctpAssumption DEF Positive, Sendable
      <4> QED BY <1>1, <4>1, SendNowIs
    <3> HIDE DEF u
    <3>2. v = [s |-> t, out |-> w.out \cup r[2], stop |-> FALSE]
      <4>1. v = [s |-> [u EXCEPT !.mPendingSend = Tail(@)], out |-> w.out \cup r[2], stop |-> FALSE]
        BY <1>0, <1>3, <2>6 DEF u, i
      <4>2. t = [u EXCEPT !.mPendingSend = Tail(@)]
        BY <3>1 DEF WithPending
      <4> QED BY <4>1, <4>2
    <3> HIDE DEF rest, r
    <3>3. Accounts(t) /\ t.mPendingSend = rest /\ \A f \in Fields \ {"mPendingSend"} : t[f] = u[f]
      BY <2>3, <3>1, QueuesChange DEF rest
    <3> HIDE DEF t
    <3>4. t.mPeerRwnd = InitRwnd
      BY <3>1, <3>3 DEF Fields
    <3>5. DOMAIN v = {"s", "out", "stop"} /\ v.s = t /\ v.stop = FALSE
      BY <3>2
    <3>6. Len(v.s.mPendingSend) = m - 1
      BY <2>3, <3>3, <3>5 DEF rest
    <3> QED BY <3>3, <3>4, <3>5, <3>6 DEF PendingOK, v
  <2> QED BY <2>4, <2>5, <2>6
<1> QED BY <1>2, <1>3 DEF PendingOK

\* transmitPending leaves nothing waiting that nothing will wake.
LEMMA PendingIs ==
    ASSUME NEW e, NEW s, Accounts(s), s.mPeerRwnd = InitRwnd
    PROVE  SessionInv(transmitPending(e, s)[1])
<1> DEFINE q == s.mPendingSend
           n == Len(q)
           W == PendingWalk(e, s)
           T == {k \in Nat : k <= n => PendingOK(W[k], n - k)}
<1>1. Sized(q, Sendable) /\ IsSeq(q) /\ n \in Nat
  BY SeqIs DEF Accounts, Sized
<1>2. /\ W[0] = [s |-> s, out |-> {}, stop |-> FALSE]
      /\ \A k \in 1..n : W[k] = PendingStep(e, W[k - 1], q[k])
  BY <1>1, PendingWalkIs
<1>3. transmitPending(e, s)[1] = W[n].s
  BY DEF transmitPending
<1> HIDE DEF W
<1>4. 0 \in T
  <2>1. DOMAIN W[0] = {"s", "out", "stop"} /\ W[0].s = s /\ W[0].stop = FALSE
    BY <1>2
  <2>2. n - 0 = n
    BY <1>1
  <2> QED BY <2>1, <2>2 DEF PendingOK
<1> HIDE DEF q, n
<1>5. ASSUME NEW k \in Nat, k \in T PROVE k + 1 \in T
  <2> SUFFICES ASSUME k + 1 <= n PROVE PendingOK(W[k + 1], n - (k + 1))
    OBVIOUS
  <2> DEFINE m == n - k
             w == W[k]
             msg == q[k + 1]
  <2>1. k + 1 \in 1..n /\ (k + 1) - 1 = k /\ m \in Nat /\ m > 0 /\ m - 1 = n - (k + 1)
    BY <1>1
  <2>2. PendingOK(w, m)
    BY <1>1, <1>5
  <2>3. W[k + 1] = PendingStep(e, w, msg) /\ msg.size \in Sendable
    BY <1>1, <1>2, <2>1 DEF Sized, n
  <2> HIDE DEF m, w, msg
  <2>4. PendingOK(PendingStep(e, w, msg), m - 1)
    BY <2>1, <2>2, <2>3, PendingTurn
  <2> QED BY <2>1, <2>3, <2>4
<1>6. Nat \subseteq T
  <2> HIDE DEF T
  <2> QED BY <1>4, <1>5, NatSetInduction
<1> DEFINE w == W[n]
<1>7. PendingOK(w, 0)
  <2>1. n \in Nat /\ n <= n /\ n - n = 0
    BY <1>1
  <2> QED BY <1>6, <2>1
<1> HIDE DEF w
<1>8. SessionInv(w.s)
  <2>1. Accounts(w.s) /\ IsSeq(w.s.mPendingSend)
    BY <1>7 DEF PendingOK, Accounts, Sized
  <2>2. NotStranded(w.s)
    BY <1>7, <2>1, EmptyIs DEF PendingOK, NotStranded
  <2> QED BY <2>1, <2>2 DEF SessionInv
<1> QED BY <1>3, <1>8 DEF w

\* The loop of onReceiveSack after i chunks.
SackOK(s, w, i) ==
    /\ DOMAIN w = {"left", "acked", "flight"} /\ Sized(w.left, Positive)
    /\ w.flight = Payload(s.mSentChunks) - Payloads(s.mSentChunks)[i] + Payload(w.left)
    /\ Len(w.left) <= i
    /\ w.acked = TRUE \/ (w.acked = FALSE /\ Len(w.left) = i)

\* One turn takes a chunk out together with its payload, or keeps both.
LEMMA SackTurn ==
    ASSUME NEW s, NEW p, NEW w, NEW i \in 0..(Len(s.mSentChunks) - 1), Accounts(s), SackOK(s, w, i)
    PROVE  SackOK(s, SackStep(p, w, s.mSentChunks[i + 1]), i + 1)
<1> DEFINE q == s.mSentChunks
           c == q[i + 1]
           P == Payloads(q)
           v == SackStep(p, w, c)
           k == w.left
           k2 == Append(k, c)
<1>1. Sized(q, Positive) /\ Sized(q, Nat) /\ Len(q) \in Nat
  BY ChunksAreSized, SeqIs DEF Accounts, Sized
<1>2. i + 1 \in 1..Len(q) /\ i \in 0..Len(q) /\ i + 1 \in 0..Len(q) /\ (i + 1) - 1 = i /\ i \in Nat
  BY <1>1
<1>3. c.size \in Positive /\ c.size \in Nat
  BY <1>1, <1>2 DEF Sized, Positive
<1> DEFINE z == c.size
           flight == IF w.flight >= z THEN w.flight - z ELSE 0
<1>0. v = IF AckedBy(c, p) THEN [left |-> k, acked |-> TRUE, flight |-> flight]
          ELSE [w EXCEPT !.left = k2]
  BY DEF SackStep, SackOK
<1>4. /\ P[i + 1] = P[i] + z /\ P[i] \in Nat /\ P[i + 1] \in Nat /\ P[i + 1] <= Payload(q)
      /\ Payload(q) \in Nat
  <2> HIDE DEF q
  <2> QED BY <1>1, <1>2, PayloadSteps
<1>5. /\ Sized(k, Positive) /\ Sized(k, Nat) /\ Payload(k) \in Nat /\ Len(k) \in Nat /\ Len(k) <= i
      /\ w.flight = Payload(q) - P[i] + Payload(k) /\ DOMAIN w = {"left", "acked", "flight"}
      /\ IsSeq(k)
  BY ChunksAreSized, PayloadSteps, SeqIs DEF SackOK, Sized
<1> HIDE DEF v, c, k2, P, k, z, q
<1>6. CASE AckedBy(c, p)
  <2>1. flight = Payload(q) - P[i + 1] + Payload(k)
    <3>1. z \in Nat
      BY <1>3 DEF z
    <3>2. w.flight >= z /\ w.flight - z = Payload(q) - P[i + 1] + Payload(k)
      BY <1>4, <1>5, <3>1
    <3> QED BY <3>2
  <2> HIDE DEF flight
  <2>2. v = [left |-> k, acked |-> TRUE, flight |-> flight]
    BY <1>0, <1>6
  <2>3. /\ DOMAIN v = {"left", "acked", "flight"} /\ v.left = k /\ v.acked = TRUE
        /\ v.flight = flight
    BY <2>2
  <2>4. Len(k) <= i + 1
    BY <1>2, <1>5
  <2>5. SackOK(s, v, i + 1)
    BY <1>5, <2>1, <2>3, <2>4 DEF SackOK, P, q
  <2> QED BY <2>5 DEF v, c, q
<1>7. CASE ~AckedBy(c, p)
  <2> HIDE DEF flight
  <2>1. v = [w EXCEPT !.left = k2]
    BY <1>0, <1>7
  <2>2. /\ DOMAIN v = {"left", "acked", "flight"} /\ v.left = k2 /\ v.acked = w.acked
        /\ v.flight = w.flight
    BY <1>5, <2>1
  <2>3. Sized(k2, Positive) /\ Len(k2) = Len(k) + 1
    BY <1>3, <1>5, SizedIs, AppendIs DEF k2
  <2>4. Payload(k2) = Payload(k) + z
    BY <1>3, <1>5, PayloadAppend DEF k2, z
  <2>5. v.flight = Payload(q) - P[i + 1] + Payload(k2)
    <3>1. z \in Nat
      BY <1>3 DEF z
    <3> QED BY <1>4, <1>5, <2>2, <2>4, <3>1
  <2>6. Len(k2) <= i + 1
    BY <1>2, <1>5, <2>3
  <2>7. v.acked = TRUE \/ (v.acked = FALSE /\ Len(k2) = i + 1)
    BY <2>2, <2>3 DEF SackOK, k
  <2>8. SackOK(s, v, i + 1)
    BY <2>2, <2>3, <2>5, <2>6, <2>7 DEF SackOK, P, q
  <2> QED BY <2>8 DEF v, c, q
<1> QED BY <1>6, <1>7

\* The end of that loop, and the session before transmitPending.
SackEnd(s, p) == SackWalk(s, p)[Len(s.mSentChunks)]

AfterSack(s, p) ==
    [s EXCEPT !.mPeerRwnd = InitRwnd, !.mSentChunks = SackEnd(s, p).left,
              !.mFlightSize = SackEnd(s, p).flight,
              !.t3Rtx = SackEnd(s, p).left # <<>> /\ (s.t3Rtx \/ SackEnd(s, p).acked)]

\* What leaves mSentChunks leaves mFlightSize.
LEMMA AfterSackIs ==
    ASSUME NEW s, NEW p, SessionInv(s)
    PROVE  /\ Accounts(AfterSack(s, p)) /\ AfterSack(s, p).mPeerRwnd = InitRwnd
           /\ AfterSack(s, p).mSentChunks = SackEnd(s, p).left
           /\ \A f \in Fields \ {"mPeerRwnd", "mSentChunks", "mFlightSize", "t3Rtx"} :
                 AfterSack(s, p)[f] = s[f]
           /\ \/ SackEnd(s, p).acked = TRUE
              \/ SackEnd(s, p).acked = FALSE /\ NotStranded(AfterSack(s, p))
<1> DEFINE q == s.mSentChunks
           n == Len(q)
           W == SackWalk(s, p)
           T == {i \in Nat : i <= n => SackOK(s, W[i], i)}
<1>0. Accounts(s) /\ NotStranded(s) /\ DOMAIN s = Fields
  BY DEF SessionInv, Accounts
<1>1. Sized(q, Positive) /\ Sized(q, Nat) /\ IsSeq(q) /\ n \in Nat
  BY <1>0, ChunksAreSized, SeqIs DEF Accounts, Sized
<1>2. /\ W[0] = [left |-> <<>>, acked |-> FALSE, flight |-> s.mFlightSize]
      /\ \A i \in 1..n : W[i] = SackStep(p, W[i - 1], q[i])
  BY <1>1, SackWalkIs
<1> HIDE DEF W
<1>3. 0 \in T
  <2> DEFINE none == <<>>
             w == W[0]
  <2>1. IsSeq(none) /\ Len(none) = 0
    BY <1>1, EmptyIs
  <2>2. DOMAIN w = {"left", "acked", "flight"} /\ w.left = none /\ w.acked = FALSE
        /\ w.flight = s.mFlightSize
    BY <1>2
  <2> HIDE DEF none, w
  <2>3. Sized(none, Positive) /\ Sized(none, Nat)
    BY <2>1 DEF Sized
  <2>4. Payload(none) = 0
    BY <2>1, <2>3, PayloadSteps DEF Payload
  <2>5. Payloads(q)[0] = 0 /\ Payload(q) \in Nat
    BY <1>1, PayloadSteps
  <2>6. w.flight = Payload(q) - Payloads(q)[0] + Payload(none)
    BY <1>0, <2>2, <2>4, <2>5 DEF Accounts
  <2>7. SackOK(s, w, 0)
    BY <2>1, <2>2, <2>3, <2>6 DEF SackOK
  <2> QED BY <2>7 DEF w
<1>4. ASSUME NEW i \in Nat, i \in T PROVE i + 1 \in T
  <2> SUFFICES ASSUME i + 1 <= n PROVE SackOK(s, W[i + 1], i + 1)
    OBVIOUS
  <2> DEFINE w == W[i]
  <2>1. i + 1 \in 1..n /\ (i + 1) - 1 = i /\ i \in 0..(n - 1) /\ SackOK(s, w, i)
    BY <1>1, <1>4
  <2>2. W[i + 1] = SackStep(p, w, q[i + 1])
    BY <1>2, <2>1
  <2> HIDE DEF w
  <2>3. SackOK(s, SackStep(p, w, q[i + 1]), i + 1)
    BY <1>0, <2>1, SackTurn
  <2> QED BY <2>2, <2>3
<1>5. Nat \subseteq T
  <2> HIDE DEF T
  <2> QED BY <1>3, <1>4, NatSetInduction
<1> DEFINE w == W[n]
           left == w.left
           armed == left # <<>> /\ (s.t3Rtx \/ w.acked)
           t == [s EXCEPT !.mPeerRwnd = InitRwnd, !.mSentChunks = left,
                          !.mFlightSize = w.flight, !.t3Rtx = armed]
<1>6. SackOK(s, w, n)
  BY <1>1, <1>5
<1>7. w = SackEnd(s, p) /\ t = AfterSack(s, p)
  BY DEF AfterSack, SackEnd, W
<1> HIDE DEF w
<1>8. /\ DOMAIN t = Fields /\ t.mPeerRwnd = InitRwnd /\ t.mSentChunks = left
      /\ t.mFlightSize = w.flight /\ t.t3Rtx = armed
      /\ \A f \in Fields \ {"mPeerRwnd", "mSentChunks", "mFlightSize", "t3Rtx"} : t[f] = s[f]
  BY <1>0 DEF Fields
<1> HIDE DEF t
<1>9. /\ Sized(left, Positive) /\ IsSeq(left) /\ Len(left) \in Nat /\ Len(left) <= n
      /\ w.acked = TRUE \/ (w.acked = FALSE /\ Len(left) = n)
  BY <1>6, SeqIs DEF SackOK, Sized
<1>10. w.flight = Payload(left)
  <2>1. w.flight = Payload(q) - Payload(q) + Payload(left)
    BY <1>6 DEF SackOK, Payload
  <2>2. Payload(q) \in Nat /\ Payload(left) \in Nat
    BY <1>1, <1>9, ChunksAreSized, PayloadSteps
  <2> QED BY <2>1, <2>2
<1> HIDE DEF left
<1>11. armed = (left # <<>>)
  <2>1. left # <<>> => q # <<>>
    BY <1>1, <1>9, EmptyIs
  <2>2. s.t3Rtx = (q # <<>>)
    BY <1>0 DEF Accounts
  <2>3. CASE left # <<>>
    BY <2>1, <2>2, <2>3
  <2>4. CASE left = <<>>
    BY <2>4
  <2> QED BY <2>3, <2>4
<1> HIDE DEF armed
<1>12. /\ t.mPendingSend = s.mPendingSend /\ t.mDataSendQueue = s.mDataSendQueue
       /\ t.mState = s.mState /\ t.t1Init = s.t1Init /\ t.mDataChannels = s.mDataChannels
  BY <1>8 DEF Fields
<1>13. Accounts(t)
  <2>1. /\ Sized(t.mSentChunks, Positive) /\ t.mFlightSize = Payload(t.mSentChunks)
        /\ DOMAIN t = Fields /\ t.mPeerRwnd = InitRwnd
    BY <1>8, <1>9, <1>10
  <2>2. t.t3Rtx = (t.mSentChunks # <<>>)
    BY <1>8, <1>11
  <2> QED BY <1>0, <1>12, <2>1, <2>2, Zenon DEF Accounts
<1>14. ASSUME w.acked = FALSE PROVE NotStranded(t)
  <2>1. left = <<>> => q = <<>>
    BY <1>1, <1>9, <1>14, EmptyIs
  <2> QED BY <1>0, <1>8, <1>12, <2>1 DEF NotStranded
<1>15. w.left = left
  BY DEF left
<1> QED BY <1>7, <1>8, <1>9, <1>13, <1>14, <1>15

\* onReceiveSack: room that comes free is used.
LEMMA SackIs ==
    ASSUME NEW e, NEW s, NEW p, SessionInv(s)
    PROVE  SessionInv(onReceiveSack(e, s, p)[1])
<1> DEFINE t == AfterSack(s, p)
           w == SackEnd(s, p)
           r == onReceiveSack(e, s, p)
<1>1. r[1] = IF ~w.acked THEN t ELSE transmitPending(e, t)[1]
  BY DEF onReceiveSack, AfterSack, SackEnd
<1>2. /\ Accounts(t) /\ t.mPeerRwnd = InitRwnd
      /\ w.acked = TRUE \/ (w.acked = FALSE /\ NotStranded(t))
  BY AfterSackIs
<1> HIDE DEF t, w, r
<1>3. CASE w.acked = FALSE
  <2>1. r[1] = t /\ NotStranded(t)
    BY <1>1, <1>2, <1>3
  <2> QED BY <1>2, <2>1 DEF SessionInv, r
<1>4. CASE w.acked = TRUE
  <2>1. SessionInv(transmitPending(e, t)[1])
    BY <1>2, PendingIs
  <2>2. r[1] = transmitPending(e, t)[1]
    BY <1>1, <1>4
  <2> QED BY <2>1, <2>2 DEF r
<1> QED BY <1>2, <1>3, <1>4
-----------------------------------------------------------------------------
\* The handlers.

\* A session whose state, window or handshake timer changes within what Accounts allows.
LEMMA OtherFields ==
    ASSUME NEW s, NEW t, SessionInv(s), DOMAIN t = Fields, IsSeq(t.mDataChannels),
           \A f \in {"mSentChunks", "mPendingSend", "mDataSendQueue", "mFlightSize", "t3Rtx"} :
                t[f] = s[f],
           t.mState \in {"CookieEchoed", "Established"} => t.mPeerRwnd = InitRwnd,
           t.t1Init # Idle => t.mState = "CookieWait"
    PROVE  SessionInv(t)
<1>1. /\ t.mSentChunks = s.mSentChunks /\ t.mPendingSend = s.mPendingSend
      /\ t.mDataSendQueue = s.mDataSendQueue /\ t.mFlightSize = s.mFlightSize
      /\ t.t3Rtx = s.t3Rtx
  OBVIOUS
<1>2. Accounts(t)
  BY <1>1, Zenon DEF SessionInv, Accounts
<1>3. NotStranded(t)
  BY <1>1, Zenon DEF SessionInv, NotStranded
<1> QED BY <1>2, <1>3 DEF SessionInv

\* A session whose channels and bookkeeping change.
LEMMA OtherChannels ==
    ASSUME NEW s, NEW t, SessionInv(s), DOMAIN t = Fields, IsSeq(t.mDataChannels),
           \A f \in Read : t[f] = s[f]
    PROVE  SessionInv(t)
BY SameAccounts DEF SessionInv

\* Receiving a TSN.
LEMMA RecordIs ==
    ASSUME NEW s, NEW tsn, SessionInv(s)
    PROVE  SessionInv(RecordTsn(s, tsn))
<1> DEFINE t == RecordTsn(s, tsn)
<1>1. DOMAIN s = Fields /\ IsSeq(s.mDataChannels)
  BY DEF SessionInv, Accounts
<1>2. \E c, o : t = [s EXCEPT !.mPeerCumulativeTsn = c, !.mPeerOutOfOrderTsns = o]
  <2> DEFINE cum == s.mPeerCumulativeTsn
             ooo == s.mPeerOutOfOrderTsns
             run == {n \in 1..Cardinality(ooo) : \A i \in 1..n : TsnAdd(tsn, i) \in ooo}
             all == ooo \cup {tsn}
             lowest == CHOOSE x \in all : \A u \in all : x <= u
             c1 == TsnAdd(tsn, Cardinality(run))
             o1 == ooo \ {TsnAdd(tsn, i) : i \in run}
             o2 == IF Cardinality(all) > OutOfOrderCap THEN all \ {lowest} ELSE all
  <2>1. t = IF tsn = TsnAdd(cum, 1)
            THEN [s EXCEPT !.mPeerCumulativeTsn = c1, !.mPeerOutOfOrderTsns = o1]
            ELSE [s EXCEPT !.mPeerOutOfOrderTsns = o2]
    BY DEF RecordTsn
  <2> HIDE DEF t, c1, o1, o2
  <2>2. [s EXCEPT !.mPeerOutOfOrderTsns = o2]
            = [s EXCEPT !.mPeerCumulativeTsn = cum, !.mPeerOutOfOrderTsns = o2]
    BY <1>1 DEF Fields
  <2> QED BY <2>1, <2>2
<1>3. PICK c, o : t = [s EXCEPT !.mPeerCumulativeTsn = c, !.mPeerOutOfOrderTsns = o]
  BY <1>2
<1>4. DOMAIN t = Fields /\ t.mDataChannels = s.mDataChannels /\ \A f \in Read : t[f] = s[f]
  BY <1>1, <1>3 DEF Fields, Read
<1> HIDE DEF t
<1>5. SessionInv(t)
  BY <1>1, <1>4, OtherChannels
<1> QED BY <1>5 DEF t

\* DATA with a user message.
LEMMA UserDataIs ==
    ASSUME NEW s, NEW c, SessionInv(s)
    PROVE  SessionInv(ReceiveUserData(s, c)[1])
<1> DEFINE i == ChannelByStream(s, c.streamId)
           q == s.mDataChannels
           b == receive(q[i].receiveBuffer, c.ssn, c.first, c.last, FALSE, c.data).buf
           x == [q[i] EXCEPT !.receiveBuffer = b]
           t == [s EXCEPT !.mDataChannels[i].receiveBuffer = b]
           r == ReceiveUserData(s, c)
<1>1. r[1] = IF i = 0 THEN s ELSE t
  BY DEF ReceiveUserData
<1>2. DOMAIN s = Fields /\ IsSeq(q)
  BY DEF SessionInv, Accounts
<1> HIDE DEF i, b, r
<1>3. DOMAIN t = Fields /\ t.mDataChannels = [q EXCEPT ![i] = x] /\ \A f \in Read : t[f] = s[f]
  BY <1>2 DEF Fields, Read
<1> HIDE DEF q, x, t
<1>4. IsSeq(t.mDataChannels)
  BY <1>2, <1>3, ExceptIsSeq
<1>5. SessionInv(t)
  BY <1>3, <1>4, OtherChannels
<1> QED BY <1>1, <1>5 DEF r

\* DCEP ACK.
LEMMA DcepAckIs ==
    ASSUME NEW e, NEW s, NEW c, SessionInv(s)
    PROVE  SessionInv(ReceiveDcepAck(e, s, c)[1])
<1> DEFINE i == SelectInSeq(s.mDataChannels,
                    LAMBDA ch : ch.streamId = c.streamId /\ ch.state = "kOpening")
           q == s.mDataChannels
           x == [q[i] EXCEPT !.state = "kOpen", !.receiveBuffer = consumeSsn(@, c.ssn)]
           t == [s EXCEPT !.mDataChannels[i].state = "kOpen",
                          !.mDataChannels[i].receiveBuffer = consumeSsn(@, c.ssn)]
           w == <<t, {}>>
           label == q[i].label
           r == ReceiveDcepAck(e, s, c)
<1>1. r = IF i = 0 THEN <<s, {}, <<>>>> ELSE onSctpDataChannelOpen(e, w, label)
  BY DEF ReceiveDcepAck
<1>2. DOMAIN s = Fields /\ IsSeq(q)
  BY DEF SessionInv, Accounts
<1> HIDE DEF i, r
<1>3. DOMAIN t = Fields /\ (\A f \in Read : t[f] = s[f]) /\ DOMAIN t.mDataChannels = DOMAIN q
      /\ t.mDataChannels = [j \in DOMAIN q |-> t.mDataChannels[j]]
  BY <1>2 DEF Fields, Read
<1> HIDE DEF t, label
<1>4. IsSeq(t.mDataChannels)
  <2> DEFINE u == t.mDataChannels
  <2>1. Len(q) \in Nat /\ DOMAIN q = 1..Len(q)
    BY <1>2, SeqIs
  <2>2. u = [j \in 1..Len(q) |-> u[j]]
    BY <1>3, <2>1
  <2> HIDE DEF u
  <2>3. IsSeq(u)
    BY <2>1, <2>2, FunctionIsSeq
  <2> QED BY <2>3 DEF u
<1>5. SessionInv(t)
  BY <1>3, <1>4, OtherChannels
<1>6. w[1] = t
  OBVIOUS
<1> HIDE DEF w
<1>7. SessionInv(onSctpDataChannelOpen(e, w, label)[1])
  BY <1>5, <1>6, OpenIs
<1> QED BY <1>1, <1>7 DEF r

\* DCEP OPEN.
LEMMA DcepOpenIs ==
    ASSUME NEW e, NEW s, NEW c, SessionInv(s)
    PROVE  SessionInv(ReceiveDcepOpen(e, s, c)[1])
<1> DEFINE ch == DataChannel(c.data, c.streamId, "kOpen", consumeSsn(NewReceiveBuffer, c.ssn))
           q == Append(s.mDataChannels, ch)
           added == [s EXCEPT !.mDataChannels = q]
           a == DcepChunk(added, c.streamId, "ack", c.data)
           ack == <<a>>
           t == Transmit(added, ack)
           w == <<t, DataPackets(e, added, ack)>>
           label == c.data
<1>1. ReceiveDcepOpen(e, s, c) = onSctpDataChannelOpen(e, w, label)
  BY DEF ReceiveDcepOpen
<1>2. DOMAIN s = Fields /\ IsSeq(s.mDataChannels) /\ Accounts(s)
  BY DEF SessionInv, Accounts
<1> HIDE DEF ch
<1>3. IsSeq(q)
  BY <1>2, AppendIs
<1> HIDE DEF q
<1>4. DOMAIN added = Fields /\ added.mDataChannels = q /\ \A f \in Read : added[f] = s[f]
  BY <1>2 DEF Fields, Read
<1>8. a.size = 1
  BY DEF DcepChunk
<1> HIDE DEF added, a
<1>5. Accounts(added)
  BY <1>2, <1>3, <1>4, SameAccounts
<1>6. Sized(ack, Positive) /\ ack # <<>>
  <2> DEFINE none == <<>>
  <2>1. Sized(none, Positive)
    BY <1>2, EmptyIs DEF Sized
  <2>2. Append(none, a) = ack
    OBVIOUS
  <2>4. ack # <<>>
    OBVIOUS
  <2> HIDE DEF none, ack
  <2>3. Sized(Append(none, a), Positive)
    BY <1>8, <2>1, SizedIs DEF Positive
  <2> QED BY <2>2, <2>3, <2>4
<1> HIDE DEF ack
<1>7. Accounts(t) /\ t.mSentChunks # <<>>
  BY <1>5, <1>6, TransmitIs
<1>9. w[1] = t
  OBVIOUS
<1> HIDE DEF t, w, label
<1>10. SessionInv(w[1])
  BY <1>7, <1>9 DEF SessionInv, NotStranded
<1>11. SessionInv(onSctpDataChannelOpen(e, w, label)[1])
  BY <1>10, OpenIs
<1> QED BY <1>1, <1>11

\* A DATA chunk of any kind.
LEMMA DataChunkIs ==
    ASSUME NEW e, NEW s, NEW c, SessionInv(s)
    PROVE  SessionInv(onReceiveDataChunk(e, s, c)[1])
<1> DEFINE t == RecordTsn(s, c.tsn)
           r == onReceiveDataChunk(e, s, c)
           u == ReceiveUserData(t, c)
           a == ReceiveDcepAck(e, t, c)
           o == ReceiveDcepOpen(e, t, c)
           tsn == c.tsn
<1>1. r[1] = s \/ r[1] = u[1] \/ r[1] = a[1] \/ r[1] = o[1] \/ r[1] = t
  <2> DEFINE v == CASE c.kind = "user" -> u [] c.kind = "ack" -> a [] c.kind = "open" -> o
                    [] OTHER -> <<t, {}, <<>>>>
  <2>1. r = IF isDuplicate(s, c.tsn) THEN <<s, {Sack(e, s)}, <<>>>>
            ELSE <<v[1], v[2] \cup {Sack(e, t)}, v[3]>>
    BY DEF onReceiveDataChunk
  <2>2. v = u \/ v = a \/ v = o \/ v[1] = t
    <3> HIDE DEF u, a, o, t
    <3> QED OBVIOUS
  <2> HIDE DEF v, u, a, o, t, r
  <2> QED BY <2>1, <2>2
<1> HIDE DEF r
<1>2. SessionInv(t)
  <2> HIDE DEF tsn
  <2>1. SessionInv(RecordTsn(s, tsn))
    BY RecordIs
  <2> QED BY <2>1 DEF tsn
<1> HIDE DEF t
<1>3. SessionInv(u[1]) /\ SessionInv(a[1]) /\ SessionInv(o[1])
  BY <1>2, UserDataIs, DcepAckIs, DcepOpenIs
<1> QED BY <1>1, <1>2, <1>3 DEF r

\* A stream that the peer resets.
LEMMA ReconfigIs ==
    ASSUME NEW s, NEW stream, SessionInv(s)
    PROVE  SessionInv(onReceiveReconfig(s, stream)[1])
<1> DEFINE i == ChannelByStream(s, stream)
           q == s.mDataChannels
           t == [s EXCEPT !.mDataChannels = RemoveAt(@, i)]
           r == onReceiveReconfig(s, stream)
           I == {j \in 1..Len(q) : q[j].streamId = stream}
<1>1. r[1] = IF i = 0 THEN s ELSE t
  BY DEF onReceiveReconfig
<1>2. DOMAIN s = Fields /\ IsSeq(q) /\ Len(q) \in Nat
  BY SeqIs DEF SessionInv, Accounts
<1>3. i = IF I # {} THEN Min(I) ELSE 0
  BY DEF ChannelByStream, SelectInSeq
<1> HIDE DEF r, i
<1>4. ASSUME i # 0 PROVE i \in 1..Len(q)
  <2>1. I # {} /\ i = Min(I)
    BY <1>3, <1>4
  <2>2. I \in SUBSET Nat
    BY <1>2
  <2> HIDE DEF I
  <2>3. i \in I
    BY <2>1, <2>2, MinOfNats
  <2> QED BY <2>3 DEF I
<1>5. DOMAIN t = Fields /\ t.mDataChannels = RemoveAt(q, i) /\ \A f \in Read : t[f] = s[f]
  BY <1>2 DEF Fields, Read
<1> HIDE DEF t, q
<1>6. ASSUME i # 0 PROVE IsSeq(t.mDataChannels)
  <2>1. PICK S : q \in Seq(S)
    BY <1>2 DEF IsSeq
  <2>2. RemoveAt(q, i) \in Seq(S)
    BY <1>4, <1>6, <2>1, RemoveAtIs
  <2> QED BY <1>5, <2>2 DEF IsSeq
<1>7. i # 0 => SessionInv(t)
  BY <1>5, <1>6, OtherChannels
<1> QED BY <1>1, <1>7 DEF r

\* INIT and its retransmission.
LEMMA SendInitIs ==
    ASSUME NEW e, NEW s, NEW n, SessionInv(s), s.mState \in {"New", "CookieWait"}
    PROVE  SessionInv(sendInit(e, s, n)[1])
<1> DEFINE t == [s EXCEPT !.t1Init = Idle]
           u == [s EXCEPT !.mState = "CookieWait", !.t1Init = n + 1]
           r == sendInit(e, s, n)
<1>1. r[1] = t \/ r[1] = u
  BY DEF sendInit
<1>2. DOMAIN s = Fields /\ IsSeq(s.mDataChannels)
      /\ (s.mState \in {"CookieEchoed", "Established"} => s.mPeerRwnd = InitRwnd)
  BY DEF SessionInv, Accounts
<1>3. /\ DOMAIN t = Fields /\ t.mDataChannels = s.mDataChannels /\ t.t1Init = Idle
      /\ t.mState = s.mState /\ t.mPeerRwnd = s.mPeerRwnd
      /\ \A f \in {"mSentChunks", "mPendingSend", "mDataSendQueue", "mFlightSize", "t3Rtx"} :
            t[f] = s[f]
  BY <1>2 DEF Fields
<1>4. /\ DOMAIN u = Fields /\ u.mDataChannels = s.mDataChannels /\ u.mState = "CookieWait"
      /\ \A f \in {"mSentChunks", "mPendingSend", "mDataSendQueue", "mFlightSize", "t3Rtx"} :
            u[f] = s[f]
  BY <1>2 DEF Fields
<1> HIDE DEF t, u, r
<1>5. SessionInv(t)
  BY <1>2, <1>3, OtherFields
<1>6. SessionInv(u)
  BY <1>2, <1>4, OtherFields
<1> QED BY <1>1, <1>5, <1>6 DEF r

\* COOKIE_ECHO and its retransmission.
LEMMA SendCookieEchoIs ==
    ASSUME NEW e, NEW s, NEW n, SessionInv(s)
    PROVE  SessionInv(sendCookieEcho(e, s, n)[1])
<1> DEFINE r == sendCookieEcho(e, s, n)
<1>1. \E x : r[1] = [s EXCEPT !.t1Cookie = x]
  <2>1. r[1] = [s EXCEPT !.t1Cookie = Idle] \/ r[1] = [s EXCEPT !.t1Cookie = n + 1]
    BY DEF sendCookieEcho
  <2> HIDE DEF r
  <2> QED BY <2>1
<1>2. PICK x : r[1] = [s EXCEPT !.t1Cookie = x]
  BY <1>1
<1> DEFINE t == [s EXCEPT !.t1Cookie = x]
<1>3. DOMAIN s = Fields /\ IsSeq(s.mDataChannels)
  BY DEF SessionInv, Accounts
<1>4. DOMAIN t = Fields /\ t.mDataChannels = s.mDataChannels /\ \A f \in Read : t[f] = s[f]
  BY <1>3 DEF Fields, Read
<1>5. r[1] = t
  BY <1>2
<1> HIDE DEF r, t
<1>6. SessionInv(t)
  BY <1>3, <1>4, OtherChannels
<1> QED BY <1>5, <1>6 DEF r

\* INIT from the peer.
LEMMA InitIs ==
    ASSUME NEW e, NEW s, NEW p, SessionInv(s)
    PROVE  SessionInv(onReceiveInit(e, s, p)[1])
<1> DEFINE t == [s EXCEPT !.mPeerRwnd = InitRwnd,
                          !.mPeerCumulativeTsn = TsnAdd(InitialTsn[p.from], -1)]
<1>1. onReceiveInit(e, s, p)[1] = t
  BY DEF onReceiveInit
<1>2. DOMAIN s = Fields /\ IsSeq(s.mDataChannels) /\ (s.t1Init # Idle => s.mState = "CookieWait")
  BY DEF SessionInv, Accounts
<1>3. /\ DOMAIN t = Fields /\ t.mDataChannels = s.mDataChannels /\ t.t1Init = s.t1Init
      /\ t.mState = s.mState /\ t.mPeerRwnd = InitRwnd
      /\ \A f \in {"mSentChunks", "mPendingSend", "mDataSendQueue", "mFlightSize", "t3Rtx"} :
            t[f] = s[f]
  BY <1>2 DEF Fields
<1> HIDE DEF t
<1>4. SessionInv(t)
  BY <1>2, <1>3, OtherFields
<1> QED BY <1>1, <1>4

\* INIT_ACK from the peer.
LEMMA InitAckIs ==
    ASSUME NEW e, NEW s, NEW p, SessionInv(s)
    PROVE  SessionInv(onReceiveInitAck(e, s, p)[1])
<1> DEFINE t == [s EXCEPT !.mPeerTag = p.from, !.mPeerRwnd = InitRwnd,
                          !.mPeerCumulativeTsn = TsnAdd(InitialTsn[p.from], -1),
                          !.t1Init = Idle, !.mState = "CookieEchoed"]
           r == onReceiveInitAck(e, s, p)
<1>1. r[1] = s \/ r = sendCookieEcho(e, t, 0)
  BY DEF onReceiveInitAck
<1>2. DOMAIN s = Fields /\ IsSeq(s.mDataChannels)
  BY DEF SessionInv, Accounts
<1>3. /\ DOMAIN t = Fields /\ t.mDataChannels = s.mDataChannels /\ t.t1Init = Idle
      /\ t.mPeerRwnd = InitRwnd
      /\ \A f \in {"mSentChunks", "mPendingSend", "mDataSendQueue", "mFlightSize", "t3Rtx"} :
            t[f] = s[f]
  BY <1>2 DEF Fields
<1> HIDE DEF t, r
<1>4. SessionInv(t)
  BY <1>2, <1>3, OtherFields
<1>5. SessionInv(sendCookieEcho(e, t, 0)[1])
  BY <1>4, SendCookieEchoIs
<1> QED BY <1>1, <1>5 DEF r

\* The association is up: DCEP OPEN for every channel.
LEMMA EstablishedIs ==
    ASSUME NEW e, NEW s, SessionInv(s)
    PROVE  SessionInv(onAssociationEstablished(e, s)[1])
<1> DEFINE q == s.mDataChannels
           opens == [i \in DOMAIN q |->
                       [DcepChunk(s, q[i].streamId, "open", q[i].label)
                          EXCEPT !.tsn = TsnAdd(@, i - 1)]]
           opening == [s EXCEPT !.mDataChannels =
                          [i \in DOMAIN @ |-> [@[i] EXCEPT !.state = "kOpening"]]]
           t == Transmit(opening, opens)
           r == onAssociationEstablished(e, s)
<1>1. r[1] = IF opens = <<>> THEN s ELSE t
  BY DEF onAssociationEstablished
<1>2. DOMAIN s = Fields /\ IsSeq(q) /\ Accounts(s) /\ Len(q) \in Nat /\ DOMAIN q = 1..Len(q)
  BY SeqIs DEF SessionInv, Accounts
<1>3. opens = [i \in 1..Len(q) |-> opens[i]]
  BY <1>2
<1>4. \A i \in 1..Len(q) : opens[i].size = 1
  BY <1>2 DEF DcepChunk
<1>5. DOMAIN opening = Fields /\ \A f \in Read : opening[f] = s[f]
  BY <1>2 DEF Fields, Read
<1>6. opening.mDataChannels = [i \in 1..Len(q) |-> opening.mDataChannels[i]]
  BY <1>2 DEF Fields
<1> HIDE DEF opens, opening, r
<1>7. Sized(opens, Positive)
  <2>1. IsSeq(opens) /\ Len(opens) = Len(q)
    BY <1>2, <1>3, FunctionIsSeq
  <2> QED BY <1>4, <2>1 DEF Sized, Positive
<1>8. IsSeq(opening.mDataChannels)
  <2> DEFINE u == opening.mDataChannels
             n == Len(q)
  <2>1. u = [i \in 1..n |-> u[i]] /\ n \in Nat
    BY <1>2, <1>6
  <2> HIDE DEF u, n
  <2>2. IsSeq(u)
    BY <2>1, FunctionIsSeq
  <2> QED BY <2>2 DEF u
<1>9. Accounts(opening)
  BY <1>2, <1>5, <1>8, SameAccounts
<1>10. ASSUME opens # <<>> PROVE SessionInv(t)
  <2>1. Accounts(t) /\ t.mSentChunks # <<>>
    BY <1>7, <1>9, <1>10, TransmitIs
  <2> HIDE DEF t
  <2> QED BY <2>1 DEF SessionInv, NotStranded
<1> QED BY <1>1, <1>10 DEF r

\* COOKIE_ACK from the peer.
LEMMA CookieAckIs ==
    ASSUME NEW e, NEW s, SessionInv(s)
    PROVE  SessionInv(onReceiveCookieAck(e, s)[1])
<1> DEFINE t == [s EXCEPT !.t1Cookie = Idle, !.mState = "Established"]
           r == onReceiveCookieAck(e, s)
<1>1. IF s.mState # "CookieEchoed" THEN r[1] = s ELSE r = onAssociationEstablished(e, t)
  BY DEF onReceiveCookieAck
<1> HIDE DEF r
<1>2. DOMAIN s = Fields /\ IsSeq(s.mDataChannels) /\ (s.t1Init # Idle => s.mState = "CookieWait")
      /\ (s.mState \in {"CookieEchoed", "Established"} => s.mPeerRwnd = InitRwnd)
  BY DEF SessionInv, Accounts
<1>3. /\ DOMAIN t = Fields /\ t.mDataChannels = s.mDataChannels /\ t.t1Init = s.t1Init
      /\ t.mPeerRwnd = s.mPeerRwnd
      /\ \A f \in {"mSentChunks", "mPendingSend", "mDataSendQueue", "mFlightSize", "t3Rtx"} :
            t[f] = s[f]
  BY <1>2 DEF Fields
<1> HIDE DEF t
<1>4. ASSUME s.mState = "CookieEchoed" PROVE SessionInv(t)
  <2>1. t.t1Init = Idle /\ t.mPeerRwnd = InitRwnd
    BY <1>2, <1>3, <1>4
  <2> QED BY <1>2, <1>3, <2>1, OtherFields
<1>5. ASSUME s.mState = "CookieEchoed" PROVE SessionInv(onAssociationEstablished(e, t)[1])
  BY <1>4, <1>5, EstablishedIs
<1> QED BY <1>1, <1>5 DEF r

\* A new session.
LEMMA NewSessionIs ==
    ASSUME NEW e \in Endpoints
    PROVE  SessionInv(NewSession(e)) /\ SessionInv([NewSession(e) EXCEPT !.mState = "Destroyed"])
<1> DEFINE s == NewSession(e)
           t == [s EXCEPT !.mState = "Destroyed"]
           q == s.mDataChannels
           labels == Labels[e]
           none == <<>>
<1>1. labels \in Seq(STRING) /\ Len(labels) \in Nat /\ DOMAIN labels = 1..Len(labels)
  BY SctpAssumption
<1>2. q = [i \in 1..Len(labels) |-> q[i]]
  BY <1>1 DEF NewSession
<1>3. DOMAIN s = Fields
  BY DEF NewSession, Fields
<1>4. /\ s.mSentChunks = none /\ s.mPendingSend = none /\ s.mDataSendQueue = none
      /\ s.mFlightSize = 0 /\ s.t3Rtx = FALSE /\ s.mState = "New" /\ s.t1Init = Idle
  BY DEF NewSession
<1> HIDE DEF s, labels
<1>5. DOMAIN t = Fields /\ t.mState = "Destroyed" /\ \A f \in Fields \ {"mState"} : t[f] = s[f]
  BY <1>3 DEF Fields
<1> HIDE DEF t
<1>6. IsSeq(q)
  <2> DEFINE n == Len(labels)
  <2>1. n \in Nat /\ q = [i \in 1..n |-> q[i]]
    BY <1>1, <1>2
  <2> HIDE DEF q, n
  <2> QED BY <2>1, FunctionIsSeq
<1>7. IsSeq(none) /\ Len(none) = 0
  BY <1>6, EmptyIs
<1>8. (s.mSentChunks # <<>>) = FALSE
  BY <1>4
<1>9. s.mPendingSend = <<>>
  BY <1>4
<1> HIDE DEF none
<1>10. Sized(none, Nat) /\ Sized(none, Positive) /\ Sized(none, Sendable) /\ Sized(none, Sizes)
  BY <1>7 DEF Sized
<1>11. Payload(none) = 0
  BY <1>7, <1>10, PayloadSteps DEF Payload
<1>12. Accounts(s)
  <2>1. s.mState \notin {"CookieEchoed", "Established"} /\ s.mFlightSize = Payload(s.mSentChunks)
    BY <1>4, <1>11
  <2>2. s.t3Rtx = (s.mSentChunks # <<>>)
    BY <1>4, <1>8
  <2>3. /\ Sized(s.mSentChunks, Positive) /\ Sized(s.mPendingSend, Sendable)
        /\ Sized(s.mDataSendQueue, Sizes)
    BY <1>4, <1>10
  <2> QED BY <1>3, <1>4, <1>6, <2>1, <2>2, <2>3, Zenon DEF Accounts
<1>13. SessionInv(s)
  BY <1>9, <1>12 DEF SessionInv, NotStranded
<1>14. SessionInv(t)
  <2>1. /\ t.mDataChannels = q /\ t.t1Init = Idle
        /\ \A f \in {"mSentChunks", "mPendingSend", "mDataSendQueue", "mFlightSize", "t3Rtx"} :
              t[f] = s[f]
    BY <1>4, <1>5 DEF Fields
  <2> QED BY <1>5, <1>6, <1>13, <2>1, OtherFields
<1> QED BY <1>13, <1>14 DEF s, t

\* onReceiveData: whatever arrives.
LEMMA HandleIs ==
    ASSUME NEW e, NEW s, NEW p, SessionInv(s), p.type \in Types
    PROVE  SessionInv(Handle(e, s, p)[1])
<1> DEFINE r == Handle(e, s, p)
           c == p.chunk
<1>1. \/ r = <<s, {}, <<>>>> \/ r = onReceiveInit(e, s, p) \/ r = onReceiveInitAck(e, s, p)
      \/ r = onReceiveCookieEcho(e, s) \/ r = onReceiveCookieAck(e, s)
      \/ r = onReceiveDataChunk(e, s, c) \/ r = onReceiveSack(e, s, p)
  BY DEF Handle, Types
<1>2. onReceiveCookieEcho(e, s)[1] = s
  BY DEF onReceiveCookieEcho
<1> HIDE DEF r, c
<1>3. /\ SessionInv(onReceiveInit(e, s, p)[1]) /\ SessionInv(onReceiveInitAck(e, s, p)[1])
      /\ SessionInv(onReceiveCookieAck(e, s)[1]) /\ SessionInv(onReceiveDataChunk(e, s, c)[1])
      /\ SessionInv(onReceiveSack(e, s, p)[1])
  BY InitIs, InitAckIs, CookieAckIs, DataChunkIs, SackIs
<1>4. r[1] = s => SessionInv(r[1])
  BY Zenon
<1> QED BY <1>1, <1>2, <1>3, <1>4 DEF r
-----------------------------------------------------------------------------
\* The actions.

\* One session changes.
LEMMA OneChanges ==
    ASSUME SctpInv, NEW e \in Endpoints, NEW x, SessionInv(x), ss' = [ss EXCEPT ![e] = x]
    PROVE  SctpInv'
<1>1. DOMAIN ss' = Endpoints
  BY DEF SctpInv
<1>2. ASSUME NEW f \in Endpoints PROVE SessionInv(ss'[f])
  <2>1. ss'[f] = IF f = e THEN x ELSE ss[f]
    BY DEF SctpInv
  <2> QED BY <2>1 DEF SctpInv
<1> QED BY <1>1, <1>2 DEF SctpInv, SessionInv, Accounts, NotStranded

\* New sessions keep their accounts.
LEMMA SctpInvInit == Init => SctpInv
<1> SUFFICES ASSUME Init PROVE SctpInv
  OBVIOUS
<1>1. DOMAIN ss = Endpoints
  BY DEF Init
<1>2. ASSUME NEW e \in Endpoints PROVE SessionInv(ss[e])
  <2>1. ss[e] = NewSession(e)
    BY DEF Init
  <2> QED BY <2>1, NewSessionIs
<1> QED BY <1>1, <1>2 DEF SctpInv

\* start and the handshake's timers.
LEMMA HandshakeStep ==
    ASSUME SctpInv, NEW e \in Endpoints, start(e) \/ T1Init(e) \/ T1Cookie(e)
    PROVE  SctpInv'
<1> DEFINE s == ss[e]
<1>0. SessionInv(s) /\ (s.t1Init # Idle => s.mState = "CookieWait")
  BY DEF SctpInv, SessionInv, Accounts
<1>1. CASE start(e)
  <2>1. SessionInv(sendInit(e, s, 0)[1])
    <3>1. s.mState = "New"
      BY <1>1 DEF start
    <3> HIDE DEF s
    <3> QED BY <1>0, <3>1, SendInitIs
  <2> DEFINE x == sendInit(e, s, 0)[1]
  <2>2. ss' = [ss EXCEPT ![e] = x]
    BY <1>1 DEF start, Apply
  <2> HIDE DEF x
  <2> QED BY <2>1, <2>2, OneChanges DEF x
<1>2. CASE T1Init(e)
  <2> DEFINE n == s.t1Init
             x == sendInit(e, s, n)[1]
  <2>1. SessionInv(x)
    <3>1. s.mState = "CookieWait"
      BY <1>0, <1>2 DEF T1Init
    <3> HIDE DEF s, n
    <3> QED BY <1>0, <3>1, SendInitIs
  <2>2. ss' = [ss EXCEPT ![e] = x]
    BY <1>2 DEF T1Init, Apply
  <2> HIDE DEF x
  <2> QED BY <2>1, <2>2, OneChanges
<1>3. CASE T1Cookie(e)
  <2> DEFINE n == s.t1Cookie
             x == sendCookieEcho(e, s, n)[1]
  <2>1. SessionInv(x)
    <3> HIDE DEF s, n
    <3> QED BY <1>0, SendCookieEchoIs
  <2>2. ss' = [ss EXCEPT ![e] = x]
    BY <1>3 DEF T1Cookie, Apply
  <2> HIDE DEF x
  <2> QED BY <2>1, <2>2, OneChanges
<1> QED BY <1>1, <1>2, <1>3

\* T3 only expires with a chunk to send again, which changes nothing in the session.
LEMMA RetransmitStep ==
    ASSUME SctpInv, NEW e \in Endpoints, retransmitOldest(e)
    PROVE  SctpInv'
<1> DEFINE s == ss[e]
<1>0. SessionInv(s) /\ s.t3Rtx = (s.mSentChunks # <<>>)
  BY DEF SctpInv, SessionInv, Accounts
<1>1. s.t3Rtx
  BY DEF retransmitOldest
<1>2. s.mSentChunks # <<>>
  BY <1>0, <1>1
<1>3. ss' = [ss EXCEPT ![e] = s]
  BY <1>2 DEF retransmitOldest, Apply
<1> HIDE DEF s
<1> QED BY <1>0, <1>3, OneChanges

\* A datagram arrives.
LEMMA ReceiveStep ==
    ASSUME SctpInv, NEW e \in Endpoints, NEW type \in Types, onReceiveData(e, type)
    PROVE  SctpInv'
<1>1. PICK p \in net : p.type = type /\ Apply(e, Handle(e, ss[e], p), {p})
  BY DEF onReceiveData
<1> DEFINE s == ss[e]
           x == Handle(e, s, p)[1]
<1>2. ss' = [ss EXCEPT ![e] = x]
  BY <1>1 DEF Apply
<1>3. SessionInv(s)
  BY DEF SctpInv
<1> HIDE DEF s
<1>4. SessionInv(x)
  BY <1>1, <1>3, HandleIs
<1> HIDE DEF x
<1> QED BY <1>2, <1>4, OneChanges

\* The peer resets a stream.
LEMMA ReconfigStep ==
    ASSUME SctpInv, NEW e \in Endpoints, NEW stream, ReceiveReconfig(e, stream)
    PROVE  SctpInv'
<1> DEFINE s == ss[e]
           x == onReceiveReconfig(s, stream)[1]
<1>1. ss' = [ss EXCEPT ![e] = x]
  BY DEF ReceiveReconfig, Apply
<1>2. SessionInv(s)
  BY DEF SctpInv
<1> HIDE DEF s
<1>3. SessionInv(x)
  BY <1>2, ReconfigIs
<1> HIDE DEF x
<1> QED BY <1>1, <1>3, OneChanges

\* The application sends a message: to the session, or to the queue of its channel.
LEMMA MessageStep ==
    ASSUME SctpInv, NEW e \in Endpoints, NEW label, NEW size \in Sizes,
           sendDataChannelMessage(e, label, size)
    PROVE  SctpInv'
<1> DEFINE s == ss[e]
           msg == [id |-> Len(queued[e]) + 1, label |-> label, size |-> size]
           queue == Append(s.mDataSendQueue, msg)
           kept == IF Len(queue) > SendQueueCap THEN Tail(queue) ELSE queue
           x == send(e, s, msg)[1]
           y == WithQueue(s, kept)
<1>1. ss' = [ss EXCEPT ![e] = IF isChannelOpen(s, label) THEN x ELSE y]
  <2>1. PICK r : Apply(e, r, {}) /\ r = IF isChannelOpen(s, label)
                       THEN <<x, send(e, s, msg)[2], <<>>>>
                       ELSE <<[s EXCEPT !.mDataSendQueue = kept], {}, <<>>>>
    BY DEF sendDataChannelMessage
  <2> HIDE DEF kept, x, msg
  <2>2. r[1] = IF isChannelOpen(s, label) THEN x ELSE y
    BY <2>1 DEF WithQueue
  <2> QED BY <2>1, <2>2 DEF Apply
<1>2. SessionInv(s) /\ Accounts(s) /\ Sized(s.mDataSendQueue, Sizes)
  BY DEF SctpInv, SessionInv, Accounts
<1>3. msg.size \in Sizes
  OBVIOUS
<1> HIDE DEF s, msg
<1>4. SessionInv(x)
  BY <1>2, <1>3, SendIs
<1>5. Sized(queue, Sizes) /\ queue # <<>>
  <2>1. Sized(queue, Sizes) /\ IsSeq(queue) /\ Len(queue) = Len(s.mDataSendQueue) + 1
    BY <1>2, <1>3, SizedIs, AppendIs DEF Sized
  <2>2. Len(s.mDataSendQueue) \in Nat
    BY <1>2, SeqIs DEF Sized
  <2> HIDE DEF queue
  <2> QED BY <2>1, <2>2, EmptyIs
<1> HIDE DEF queue
<1>6. Sized(kept, Sizes)
  BY <1>5, SizedIs
<1> HIDE DEF kept
<1>7. SessionInv(y)
  <2>1. Accounts(y) /\ \A f \in Fields \ {"mDataSendQueue"} : y[f] = s[f]
    BY <1>2, <1>6, QueuesChange
  <2> HIDE DEF y
  <2>2. y.mPendingSend = s.mPendingSend /\ y.mSentChunks = s.mSentChunks
    BY <2>1 DEF Fields
  <2> QED BY <1>2, <2>1, <2>2 DEF SessionInv, NotStranded
<1> DEFINE z == IF isChannelOpen(s, label) THEN x ELSE y
<1>8. SessionInv(z) /\ ss' = [ss EXCEPT ![e] = z]
  <2> HIDE DEF x, y
  <2> QED BY <1>1, <1>4, <1>7
<1> HIDE DEF z
<1> QED BY <1>8, OneChanges

\* A session ends.
LEMMA DestroyStep ==
    ASSUME SctpInv, NEW e \in Endpoints, Destroy(e)
    PROVE  SctpInv'
<1> DEFINE x == [NewSession(e) EXCEPT !.mState = "Destroyed"]
<1>1. SessionInv(x)
  BY NewSessionIs
<1>2. ss' = [ss EXCEPT ![e] = x]
  BY DEF Destroy, Apply
<1> HIDE DEF x
<1> QED BY <1>1, <1>2, OneChanges

\* Sessions that do not change keep their accounts.
LEMMA SessionsStay == SctpInv /\ UNCHANGED ss => SctpInv'
BY DEF SctpInv, SessionInv, Accounts, NotStranded

\* Every step keeps the accounts.
LEMMA SctpInvNext == SctpInv /\ [Next]_vars => SctpInv'
<1> SUFFICES ASSUME SctpInv, [Next]_vars PROVE SctpInv'
  OBVIOUS
<1>1. CASE UNCHANGED vars
  BY <1>1, SessionsStay DEF vars
<1>2. ASSUME NEW p \in net, Lose(p) PROVE SctpInv'
  BY <1>2, SessionsStay DEF Lose
<1>3. ASSUME NEW e \in Endpoints,
             start(e) \/ T1Init(e) \/ T1Cookie(e) \/ retransmitOldest(e) \/ Destroy(e)
      PROVE  SctpInv'
  BY <1>3, HandshakeStep, RetransmitStep, DestroyStep
<1>4. ASSUME NEW e \in Endpoints, NEW type \in Types, onReceiveData(e, type) PROVE SctpInv'
  BY <1>4, ReceiveStep
<1>5. ASSUME NEW e \in Endpoints, NEW stream \in ResetStreams, ReceiveReconfig(e, stream)
      PROVE  SctpInv'
  BY <1>5, ReconfigStep
<1>6. ASSUME NEW e \in Endpoints, NEW label \in AllLabels, NEW size \in Sizes,
             sendDataChannelMessage(e, label, size)
      PROVE  SctpInv'
  BY <1>6, MessageStep
<1> QED BY <1>1, <1>2, <1>3, <1>4, <1>5, <1>6 DEF Next
-----------------------------------------------------------------------------

\* The sender's accounts are right in every reachable state, whatever the network
\* and the peer do.
THEOREM SessionInvariant == Spec => []SctpInv
BY SctpInvInit, SctpInvNext, PTL DEF Spec

\* mFlightSize is the payload of mSentChunks: onReceiveSack never takes a chunk's
\* payload out twice or leaves it in, and the subtraction never has to be clipped
\* at zero.
THEOREM FlightAccounted == Spec => []FlightMatchesSent
<1>1. SctpInv => FlightMatchesSent
  BY DEF SctpInv, SessionInv, Accounts, FlightMatchesSent
<1> QED BY <1>1, SessionInvariant, PTL

\* T3 is armed exactly while mSentChunks holds a chunk: startT3Rtx is only called
\* when the list was empty and stopped only by the SACK that empties it, which is
\* enough.
THEOREM T3WhileUnacked == Spec => []T3ArmedIffUnacked
<1>1. SctpInv => T3ArmedIffUnacked
  <2> SUFFICES ASSUME SctpInv, NEW e \in Endpoints
               PROVE  ss[e].t3Rtx <=> ss[e].mSentChunks # <<>>
    BY DEF T3ArmedIffUnacked
  <2>1. ss[e].t3Rtx = (ss[e].mSentChunks # <<>>)
    BY DEF SctpInv, SessionInv, Accounts
  <2> QED BY <2>1
<1> QED BY <1>1, SessionInvariant, PTL

\* If no message that send() takes is larger than the peer's whole window, a message
\* in mPendingSend always has an unacknowledged chunk ahead of it, whose SACK makes
\* transmitPending run again.
THEOREM NothingStranded == WindowFits => (Spec => []NoStrandedPending)
<1>1. WindowFits /\ SctpInv => NoStrandedPending
  BY DEF SctpInv, SessionInv, NotStranded, NoStrandedPending
<1> SUFFICES ASSUME WindowFits PROVE Spec => []NoStrandedPending
  OBVIOUS
<1>2. SctpInv => NoStrandedPending
  BY <1>1
<1> QED BY <1>2, SessionInvariant, PTL
-----------------------------------------------------------------------------
\* What is acknowledged.

\* The first m TSNs of x, and k TSNs from c on.
First(x, m) == {TsnAdd(InitialTsn[x], j) : j \in 0..(m - 1)}
New(c, k) == {TsnAdd(c, j) : j \in 0..(k - 1)}

\* The TSNs in a list of chunks.
TsnsIn(q) == {q[i].tsn : i \in 1..Len(q)}

\* How many TSNs x has given out, as far as the numbers tell.
Issued(x, s) == (s.mCurrentTsn - InitialTsn[x]) % TsnCount

\* cum is the last of the first TSNs of x, of which n are given out and all up to
\* cum are in rc; none of them is in ooo.
UpTo(x, cum, ooo, n, rc) ==
    \E m \in 0..n : /\ cum = TsnAdd(InitialTsn[x], m - 1)
                    /\ First(x, m) \subseteq rc /\ ooo \cap First(x, m) = {}

\* What a SACK for x acknowledges is in rc, its gap offsets as long as they reach over
\* all that is given out.
SackTrue(x, cum, gaps, n, rc) ==
    \E m \in 0..n :
        /\ cum = TsnAdd(InitialTsn[x], m - 1) /\ First(x, m) \subseteq rc
        /\ n - m < GapCount =>
              \A d \in gaps : d \in Nat /\ TsnAdd(InitialTsn[x], (m - 1) + d) \in rc

\* x as a sender, its session being s and rc what its peer has received.
SenderInv(x, s, rc) ==
    /\ s.mCurrentTsn \in 0..(TsnCount - 1)
    /\ s.mPeerTag \in {None, Peer(x)}
    /\ TsnsIn(s.mSentChunks) \subseteq First(x, Issued(x, s))
    /\ First(x, Issued(x, s)) \ TsnsIn(s.mSentChunks) \subseteq rc

\* A datagram p in flight, of which x is the sender or, for a SACK, the receiver.
PacketInv(x, s, p, rc) ==
    /\ p.type = "DATA" /\ p.to = Peer(x) =>
          /\ p.chunk.tsn \in First(x, Issued(x, s))
          /\ p.tag = Peer(x) => s.mPeerTag = Peer(x)
    /\ p.type = "SACK" /\ p.to = x => SackTrue(x, p.cumTsn, p.gaps, Issued(x, s), rc)

\* The peer has heard of x: x knows its tag, or is about to.
Met(x, s, nt) ==
    s.mPeerTag = Peer(x) \/ \E p \in nt : p.type = "INIT_ACK" /\ p.to = x

\* The peer's session r as a receiver of what x sends.
ReceiverInv(x, s, r, nt, rc) ==
    /\ r.mPeerOutOfOrderTsns \subseteq rc \cap First(x, Issued(x, s))
    /\ Met(x, s, nt) => UpTo(x, r.mPeerCumulativeTsn, r.mPeerOutOfOrderTsns, Issued(x, s), rc)

PairInv(x, s, r, nt, rc) ==
    s.mState # "Destroyed" =>
        /\ SenderInv(x, s, rc)
        /\ \A p \in nt : PacketInv(x, s, p, rc)
        /\ r.mState # "Destroyed" => ReceiverInv(x, s, r, nt, rc)

\* INIT and INIT_ACK come from the other endpoint.
Addressed(nt) == \A p \in nt : p.type \in {"INIT", "INIT_ACK"} => p.from = Peer(p.to)

\* A session that is gone has no timer and nothing to send again.
Still(s) == s.mState = "Destroyed" => s.t1Cookie = Idle /\ s.mSentChunks = <<>>

AckInv ==
    /\ DOMAIN received = Endpoints /\ Addressed(net)
    /\ \A x \in Endpoints :
          Still(ss[x]) /\ PairInv(x, ss[x], ss[Peer(x)], net, received[Peer(x)])

\* No session has given out half of the circle of TSNs, and the next step of none
\* gives out as much.
Half == TsnCount \div 2

HalfCircle ==
    \A e \in Endpoints : ss[e].mState # "Destroyed" =>
        /\ Issued(e, ss[e]) < Half
        /\ Len(ss[e].mDataChannels) + (InitRwnd + 1) <= Half

\* The gap offsets of every SACK in flight reach over all that its receiver has given
\* out.
Reaches(s, p) == (s.mCurrentTsn - p.cumTsn) % TsnCount <= GapCount

GapsReach ==
    \A e \in Endpoints : ss[e].mState # "Destroyed" =>
        \A p \in net : p.type = "SACK" /\ p.to = e => Reaches(ss[e], p)

-----------------------------------------------------------------------------
\* Arithmetic on TSNs.

\* The circle.
LEMMA Circle == TsnCount \in Nat /\ TsnCount > 1 /\ TsnCount > 0
BY SctpAssumption

\* The first TSN of an endpoint.
LEMMA InitialIs ==
    ASSUME NEW x \in Endpoints
    PROVE  InitialTsn[x] \in Int /\ InitialTsn[x] \in 0..(TsnCount - 1)
BY SctpAssumption

\* TsnAdd gives a TSN.
LEMMA AddIs ==
    ASSUME NEW t \in Int, NEW n \in Int
    PROVE  TsnAdd(t, n) \in 0..(TsnCount - 1)
BY Circle DEF TsnAdd

\* The constants, and what TsnAdd gives.
LEMMA TsnFacts ==
    /\ TsnCount \in Nat /\ TsnCount > 1 /\ InitRwnd \in Nat
    /\ \A x \in Endpoints : InitialTsn[x] \in 0..(TsnCount - 1) /\ InitialTsn[x] \in Int
    /\ \A t \in Int, n \in Int : TsnAdd(t, n) \in 0..(TsnCount - 1)
    /\ \A t \in 0..(TsnCount - 1) : TsnAdd(t, 0) = t
<1>1. TsnCount \in Nat /\ TsnCount > 1 /\ InitRwnd \in Nat
  BY SctpAssumption
<1>2. \A x \in Endpoints : InitialTsn[x] \in 0..(TsnCount - 1) /\ InitialTsn[x] \in Int
  BY SctpAssumption
<1>3. \A t \in Int, n \in Int : TsnAdd(t, n) \in 0..(TsnCount - 1)
  BY <1>1 DEF TsnAdd
<1>4. \A t \in 0..(TsnCount - 1) : TsnAdd(t, 0) = t
  BY <1>1 DEF TsnAdd
<1> QED BY <1>1, <1>2, <1>3, <1>4

\* Half of the circle.
LEMMA HalfFacts == Half \in Nat /\ Half + Half <= TsnCount /\ Half < TsnCount
<1>1. TsnCount \in Nat /\ TsnCount > 1
  BY SctpAssumption
<1> QED BY <1>1 DEF Half

\* Adding twice.
LEMMA AddAdd ==
    ASSUME NEW t \in Int, NEW a \in Int, NEW b \in Int
    PROVE  TsnAdd(TsnAdd(t, a), b) = TsnAdd(t, a + b)
<1> DEFINE N == TsnCount
           u == t + a
<1>1. N \in Nat /\ N > 0 /\ u \in Int
  BY TsnFacts
<1>2. ((u % N) + b) % N = (u + b) % N
  <2> HIDE DEF N, u
  <2> QED BY <1>1, ModShift
<1>3. u + b = t + (a + b)
  OBVIOUS
<1> QED BY <1>2, <1>3 DEF TsnAdd

\* TSNs less than the whole circle apart are different.
LEMMA AddInjective ==
    ASSUME NEW t \in Int, NEW a \in Int, NEW b \in Int, TsnAdd(t, a) = TsnAdd(t, b),
           a - b < TsnCount, b - a < TsnCount
    PROVE  a = b
<1> DEFINE N == TsnCount
           u == t + a
           v == t + b
<1>1. N \in Nat /\ N > 0 /\ u \in Int /\ v \in Int /\ u - v < N /\ v - u < N
  BY TsnFacts
<1>2. u % N = v % N
  BY DEF TsnAdd
<1>3. u = v
  <2> HIDE DEF N, u, v
  <2> QED BY <1>1, <1>2, ModNear
<1> QED BY <1>3

\* The next TSN is the one after those given out.
LEMMA CurrentIs ==
    ASSUME NEW x \in Endpoints, NEW s, s.mCurrentTsn \in 0..(TsnCount - 1)
    PROVE  /\ Issued(x, s) \in 0..(TsnCount - 1)
           /\ s.mCurrentTsn = TsnAdd(InitialTsn[x], Issued(x, s))
<1> DEFINE N == TsnCount
           c == s.mCurrentTsn
           i == InitialTsn[x]
           d == c - i
<1>0. N \in Nat /\ N > 1 /\ c \in 0..(N - 1) /\ i \in 0..(N - 1)
  BY TsnFacts
<1>1. N \in Nat /\ N > 0 /\ c \in 0..(N - 1) /\ i \in 0..(N - 1) /\ d \in Int /\ i \in Int
  <2> HIDE DEF N, c, i
  <2> QED BY <1>0
<1>2. d % N \in 0..(N - 1)
  <2> HIDE DEF d, N, c, i
  <2> QED BY <1>1
<1>3. ((d % N) + i) % N = (d + i) % N
  <2> HIDE DEF N, d, c, i
  <2> QED BY <1>1, ModShift
<1>4. d + i = c /\ c % N = c
  <2> HIDE DEF N, c, i
  <2> QED BY <1>1
<1>5. i + (d % N) = (d % N) + i
  <2> HIDE DEF N, d, i
  <2> QED BY <1>1, <1>2
<1> QED BY <1>2, <1>3, <1>4, <1>5 DEF Issued, TsnAdd

\* Giving out k more.
LEMMA IssueMore ==
    ASSUME NEW x \in Endpoints, NEW s, NEW t, NEW k \in Nat,
           s.mCurrentTsn \in 0..(TsnCount - 1),
           t.mCurrentTsn = TsnAdd(s.mCurrentTsn, k), Issued(x, s) + k < TsnCount
    PROVE  /\ t.mCurrentTsn \in 0..(TsnCount - 1)
           /\ Issued(x, t) = Issued(x, s) + k
           /\ First(x, Issued(x, t)) = First(x, Issued(x, s)) \cup New(s.mCurrentTsn, k)
<1> DEFINE n == Issued(x, s)
           m == Issued(x, t)
           c == s.mCurrentTsn
           i == InitialTsn[x]
<1>1. n \in 0..(TsnCount - 1) /\ c = TsnAdd(i, n) /\ i \in Int /\ c \in Int
  <2>1. n \in 0..(TsnCount - 1) /\ c = TsnAdd(i, n)
    BY CurrentIs
  <2>2. i \in 0..(TsnCount - 1) /\ TsnCount \in Nat
    BY TsnFacts
  <2> HIDE DEF n, i
  <2> QED BY <2>1, <2>2
<1>2. t.mCurrentTsn \in 0..(TsnCount - 1)
  <2> HIDE DEF n, i
  <2>1. TsnAdd(c, k) \in 0..(TsnCount - 1)
    <3> HIDE DEF c
    <3> QED BY <1>1, TsnFacts
  <2> QED BY <2>1
<1>3. m \in 0..(TsnCount - 1) /\ t.mCurrentTsn = TsnAdd(i, m)
  BY <1>2, CurrentIs
<1>4. t.mCurrentTsn = TsnAdd(i, n + k)
  <2> HIDE DEF n, m, i
  <2> QED BY <1>1, AddAdd
<1> HIDE DEF n, m, c, i
<1>5. m = n + k
  <2>3. n + k < TsnCount /\ TsnCount \in Nat
    BY TsnFacts DEF n
  <2>1. m \in Int /\ n + k \in Int /\ m - (n + k) < TsnCount /\ (n + k) - m < TsnCount
    BY <1>1, <1>3, <2>3
  <2>2. TsnAdd(i, m) = TsnAdd(i, n + k)
    BY <1>3, <1>4
  <2> DEFINE a == n + k
  <2> HIDE DEF a
  <2> QED BY <1>1, <2>1, <2>2, AddInjective DEF a
<1>6. ASSUME NEW y PROVE y \in First(x, n + k) <=> y \in First(x, n) \cup New(c, k)
  <2>1. ASSUME y \in First(x, n + k) PROVE y \in First(x, n) \cup New(c, k)
    <3>1. PICK j \in 0..((n + k) - 1) : y = TsnAdd(i, j)
      BY <2>1 DEF First, i
    <3>2. CASE j < n
      <4>1. j \in 0..(n - 1)
        BY <1>1, <3>2
      <4> QED BY <3>1, <4>1 DEF First, i
    <3>3. CASE j >= n
      <4>1. j - n \in 0..(k - 1) /\ n + (j - n) = j /\ j - n \in Int /\ n \in Int
        BY <1>1, <3>3
      <4>2. TsnAdd(c, j - n) = TsnAdd(i, j)
        BY <1>1, <4>1, AddAdd
      <4> QED BY <3>1, <4>1, <4>2 DEF New
    <3> QED BY <1>1, <3>2, <3>3
  <2>2. ASSUME y \in First(x, n) PROVE y \in First(x, n + k)
    <3>1. PICK j \in 0..(n - 1) : y = TsnAdd(i, j)
      BY <2>2 DEF First, i
    <3>2. j \in 0..((n + k) - 1)
      BY <1>1
    <3> QED BY <3>1, <3>2 DEF First, i
  <2>3. ASSUME y \in New(c, k) PROVE y \in First(x, n + k)
    <3>1. PICK j \in 0..(k - 1) : y = TsnAdd(c, j)
      BY <2>3 DEF New
    <3>2. n + j \in 0..((n + k) - 1) /\ TsnAdd(c, j) = TsnAdd(i, n + j)
      BY <1>1, AddAdd
    <3> QED BY <3>1, <3>2 DEF First, i
  <2> QED BY <2>1, <2>2, <2>3
<1> QED BY <1>2, <1>5, <1>6 DEF n, m, c

\* k TSNs and l more are k + l.
LEMMA NewNew ==
    ASSUME NEW c \in Int, NEW k \in Nat, NEW l \in Nat
    PROVE  New(c, k + l) = New(c, k) \cup New(TsnAdd(c, k), l)
<1>1. ASSUME NEW y \in New(c, k + l) PROVE y \in New(c, k) \cup New(TsnAdd(c, k), l)
  <2>1. PICK j \in 0..((k + l) - 1) : y = TsnAdd(c, j)
    BY <1>1 DEF New
  <2>2. CASE j < k
    <3>1. j \in 0..(k - 1)
      BY <2>2
    <3> QED BY <2>1, <3>1 DEF New
  <2>3. CASE j >= k
    <3>1. j - k \in 0..(l - 1) /\ k + (j - k) = j
      BY <2>3
    <3>2. TsnAdd(TsnAdd(c, k), j - k) = TsnAdd(c, j)
      BY <3>1, AddAdd
    <3> QED BY <2>1, <3>1, <3>2 DEF New
  <2> QED BY <2>2, <2>3
<1>2. ASSUME NEW y \in New(c, k) PROVE y \in New(c, k + l)
  <2>1. PICK j \in 0..(k - 1) : y = TsnAdd(c, j)
    BY <1>2 DEF New
  <2>2. j \in 0..((k + l) - 1)
    OBVIOUS
  <2> QED BY <2>1, <2>2 DEF New
<1>3. ASSUME NEW y \in New(TsnAdd(c, k), l) PROVE y \in New(c, k + l)
  <2>1. PICK j \in 0..(l - 1) : y = TsnAdd(TsnAdd(c, k), j)
    BY <1>3 DEF New
  <2>2. k + j \in 0..((k + l) - 1) /\ TsnAdd(TsnAdd(c, k), j) = TsnAdd(c, k + j)
    BY AddAdd
  <2> QED BY <2>1, <2>2 DEF New
<1> QED BY <1>1, <1>2, <1>3
-----------------------------------------------------------------------------
\* Sending gives out TSNs.

\* The TSNs of joined lists.
LEMMA TsnsJoin ==
    ASSUME NEW q, NEW r, IsSeq(q), IsSeq(r)
    PROVE  TsnsIn(q \o r) = TsnsIn(q) \cup TsnsIn(r)
<1> DEFINE a == Len(q)
           b == Len(r)
           j == q \o r
<1>1. /\ a \in Nat /\ b \in Nat /\ Len(j) = a + b
      /\ \A i \in 1..a : j[i] = q[i]
      /\ \A i \in 1..b : j[a + i] = r[i]
  BY SeqIs, ConcatIs
<1> HIDE DEF j, a, b
<1>2. ASSUME NEW y \in TsnsIn(j) PROVE y \in TsnsIn(q) \cup TsnsIn(r)
  <2>1. PICK i \in 1..(a + b) : y = j[i].tsn
    BY <1>1, <1>2 DEF TsnsIn
  <2>2. CASE i <= a
    <3>1. i \in 1..a /\ y = q[i].tsn
      BY <1>1, <2>1, <2>2
    <3> QED BY <3>1 DEF TsnsIn, a
  <2>3. CASE i > a
    <3>1. i - a \in 1..b /\ a + (i - a) = i
      BY <1>1, <2>3
    <3>2. y = r[i - a].tsn
      BY <1>1, <2>1, <3>1
    <3> QED BY <3>1, <3>2 DEF TsnsIn, b
  <2> QED BY <1>1, <2>2, <2>3
<1>3. ASSUME NEW y \in TsnsIn(q) PROVE y \in TsnsIn(j)
  <2>1. PICK i \in 1..a : y = q[i].tsn
    BY <1>3 DEF TsnsIn, a
  <2>2. i \in 1..(a + b) /\ y = j[i].tsn
    BY <1>1, <2>1
  <2> QED BY <1>1, <2>2 DEF TsnsIn
<1>4. ASSUME NEW y \in TsnsIn(r) PROVE y \in TsnsIn(j)
  <2>1. PICK i \in 1..b : y = r[i].tsn
    BY <1>4 DEF TsnsIn, b
  <2>2. a + i \in 1..(a + b) /\ y = j[a + i].tsn
    BY <1>1, <2>1
  <2> QED BY <1>1, <2>2 DEF TsnsIn
<1> QED BY <1>2, <1>3, <1>4 DEF j

\* Chunks are not empty, so there are no more of them than payload.
LEMMA PayloadAtLeast ==
    ASSUME NEW q, Sized(q, Positive)
    PROVE  Len(q) <= Payload(q) /\ Payload(q) \in Nat /\ Len(q) \in Nat
<1> DEFINE P == Payloads(q)
           n == Len(q)
           T == {i \in Nat : i <= n => i <= P[i]}
<1>1. n \in Nat /\ Sized(q, Nat)
  BY ChunksAreSized, SeqIs DEF Sized
<1>2. /\ P[0] = 0 /\ Payload(q) \in Nat
      /\ \A i \in 1..n : P[i] = P[i - 1] + q[i].size
      /\ \A i \in 0..n : P[i] \in Nat
  BY <1>1, PayloadSteps
<1>3. \A i \in 1..n : q[i].size \in Nat /\ q[i].size > 0
  BY DEF Sized, Positive
<1> HIDE DEF P, n
<1>4. 0 \in T
  BY <1>2
<1>5. ASSUME NEW i \in Nat, i \in T PROVE i + 1 \in T
  <2>1. ASSUME i + 1 <= n PROVE i + 1 <= P[i + 1]
    <3>1. i + 1 \in 1..n /\ i \in 0..n /\ (i + 1) - 1 = i /\ i <= P[i]
      BY <1>1, <1>5, <2>1
    <3>2. P[i + 1] = P[i] + q[i + 1].size /\ P[i] \in Nat
      BY <1>2, <3>1
    <3>3. q[i + 1].size \in Nat /\ q[i + 1].size > 0
      BY <1>3, <3>1
    <3> QED BY <3>1, <3>2, <3>3
  <2> QED BY <2>1
<1>6. Nat \subseteq T
  <2> HIDE DEF T
  <2> QED BY <1>4, <1>5, NatSetInduction
<1>7. n <= P[n]
  BY <1>1, <1>6
<1> QED BY <1>1, <1>2, <1>7 DEF P, n, Payload

\* Packets that carry DATA of e, with a tag and with TSNs in S.
OnlyData(e, tag, S, out) ==
    \A p \in out : p.type = "DATA" /\ p.to = Peer(e) /\ p.tag = tag /\ p.chunk.tsn \in S

\* What a session remembers of its peer.
Kept(s, t) ==
    /\ t.mPeerTag = s.mPeerTag /\ t.mState = s.mState
    /\ t.mPeerCumulativeTsn = s.mPeerCumulativeTsn
    /\ t.mPeerOutOfOrderTsns = s.mPeerOutOfOrderTsns

\* e's session s becomes t by sending k chunks in the packets out.
Grew(e, s, t, out, k) ==
    /\ k \in Nat
    /\ t.mCurrentTsn = TsnAdd(s.mCurrentTsn, k)
    /\ TsnsIn(t.mSentChunks) = TsnsIn(s.mSentChunks) \cup New(s.mCurrentTsn, k)
    /\ Kept(s, t)
    /\ OnlyData(e, s.mPeerTag, New(s.mCurrentTsn, k), out)

\* They fit the peer's window.
Windowed(s, t, k) ==
    /\ s.mFlightSize + k <= t.mFlightSize
    /\ k = 0 \/ s.mFlightSize + k <= InitRwnd

Grows(e, s, t, out) == \E k : Grew(e, s, t, out, k) /\ Windowed(s, t, k)

\* mFlightSize is a number.
LEMMA FlightIs ==
    ASSUME NEW s, Accounts(s)
    PROVE  s.mFlightSize \in Nat
<1>1. Sized(s.mSentChunks, Positive) /\ s.mFlightSize = Payload(s.mSentChunks)
  BY DEF Accounts
<1> DEFINE q == s.mSentChunks
<1>2. Sized(q, Positive) /\ s.mFlightSize = Payload(q)
  BY <1>1
<1> HIDE DEF q
<1> QED BY <1>2, PayloadAtLeast

IsTsn(t) == t \in 0..(TsnCount - 1)

\* A TSN is a number and stays one.
LEMMA TsnIs ==
    ASSUME NEW t, IsTsn(t)
    PROVE  t \in Int /\ TsnAdd(t, 0) = t /\ \A k \in Int : IsTsn(TsnAdd(t, k))
BY TsnFacts DEF IsTsn

\* No TSN is given out.
LEMMA GrewNothing ==
    ASSUME NEW e, NEW s, NEW t, IsTsn(s.mCurrentTsn), Kept(s, t),
           t.mCurrentTsn = s.mCurrentTsn, t.mSentChunks = s.mSentChunks
    PROVE  Grew(e, s, t, {}, 0)
<1> DEFINE c == s.mCurrentTsn
<1>1. TsnAdd(c, 0) = c
  <2>1. IsTsn(c)
    OBVIOUS
  <2> HIDE DEF c
  <2> QED BY <2>1, TsnIs
<1>2. New(c, 0) = {}
  BY DEF New
<1> HIDE DEF c
<1>3. OnlyData(e, s.mPeerTag, New(c, 0), {})
  BY DEF OnlyData
<1>4. t.mCurrentTsn = TsnAdd(s.mCurrentTsn, 0)
      /\ TsnsIn(t.mSentChunks) = TsnsIn(s.mSentChunks) \cup New(s.mCurrentTsn, 0)
  BY <1>1, <1>2 DEF c
<1> QED BY <1>3, <1>4 DEF Grew, c

\* One after the other.
LEMMA GrewTwice ==
    ASSUME NEW e, NEW s, NEW t, NEW u, NEW o, NEW o2, NEW k, NEW l, IsTsn(s.mCurrentTsn),
           Grew(e, s, t, o, k), Grew(e, t, u, o2, l)
    PROVE  Grew(e, s, u, o \cup o2, k + l)
<1> DEFINE c == s.mCurrentTsn
           d == t.mCurrentTsn
<1>1. k \in Nat /\ l \in Nat /\ d = TsnAdd(c, k) /\ u.mCurrentTsn = TsnAdd(d, l) /\ Kept(s, t)
      /\ Kept(t, u)
  BY DEF Grew
<1>2. TsnsIn(t.mSentChunks) = TsnsIn(s.mSentChunks) \cup New(c, k)
      /\ TsnsIn(u.mSentChunks) = TsnsIn(t.mSentChunks) \cup New(d, l)
  BY DEF Grew
<1>3. OnlyData(e, s.mPeerTag, New(c, k), o) /\ OnlyData(e, t.mPeerTag, New(d, l), o2)
  BY DEF Grew
<1>4. Kept(s, u) /\ t.mPeerTag = s.mPeerTag
  BY <1>1 DEF Kept
<1>5. c \in Int
  BY TsnIs
<1> HIDE DEF c, d
<1>10. k \in Int /\ l \in Int
  BY <1>1
<1>11. TsnAdd(d, l) = TsnAdd(c, k + l)
  BY <1>1, <1>5, <1>10, AddAdd
<1>12. New(c, k + l) = New(c, k) \cup New(d, l)
  BY <1>1, <1>5, NewNew
<1>6. TsnAdd(d, l) = TsnAdd(c, k + l) /\ New(c, k + l) = New(c, k) \cup New(d, l)
  BY <1>11, <1>12
<1>7. TsnsIn(u.mSentChunks) = TsnsIn(s.mSentChunks) \cup New(c, k + l)
  BY <1>2, <1>6
<1>8. OnlyData(e, s.mPeerTag, New(c, k + l), o \cup o2)
  BY <1>3, <1>4, <1>6 DEF OnlyData
<1>9. k + l \in Nat /\ u.mCurrentTsn = TsnAdd(c, k + l)
  BY <1>1, <1>6
<1> QED BY <1>4, <1>7, <1>8, <1>9 DEF Grew, c

\* One after the other, within the window.
LEMMA GrowsTwice ==
    ASSUME NEW e, NEW s, NEW t, NEW u, NEW o, NEW o2, IsTsn(s.mCurrentTsn),
           s.mFlightSize \in Nat, t.mFlightSize \in Nat, u.mFlightSize \in Nat,
           Grows(e, s, t, o), Grows(e, t, u, o2)
    PROVE  Grows(e, s, u, o \cup o2)
<1>1. PICK k : Grew(e, s, t, o, k) /\ Windowed(s, t, k)
  BY DEF Grows
<1>2. PICK l : Grew(e, t, u, o2, l) /\ Windowed(t, u, l)
  BY DEF Grows
<1>3. Grew(e, s, u, o \cup o2, k + l)
  BY <1>1, <1>2, GrewTwice
<1>4. k \in Nat /\ l \in Nat
  BY <1>1, <1>2 DEF Grew
<1>5. Windowed(s, u, k + l)
  <2> DEFINE a == s.mFlightSize
             b == t.mFlightSize
             c == u.mFlightSize
  <2>1. a \in Nat /\ b \in Nat /\ c \in Nat /\ InitRwnd \in Nat
    BY TsnFacts
  <2>2. /\ a + k <= b /\ (k = 0 \/ a + k <= InitRwnd)
        /\ b + l <= c /\ (l = 0 \/ b + l <= InitRwnd)
    BY <1>1, <1>2 DEF Windowed
  <2> HIDE DEF a, b, c
  <2>3. a + (k + l) <= c
    BY <1>4, <2>1, <2>2
  <2>4. k + l = 0 \/ a + (k + l) <= InitRwnd
    BY <1>4, <2>1, <2>2
  <2> QED BY <2>3, <2>4 DEF Windowed, a, c
<1> QED BY <1>3, <1>5 DEF Grows

\* The session after a Grows has a TSN to give out next.
LEMMA GrowsTsn ==
    ASSUME NEW e, NEW s, NEW t, NEW o, IsTsn(s.mCurrentTsn), Grows(e, s, t, o)
    PROVE  IsTsn(t.mCurrentTsn) /\ Kept(s, t)
<1>1. PICK k : Grew(e, s, t, o, k)
  BY DEF Grows
<1> DEFINE c == s.mCurrentTsn
<1>2. k \in Nat /\ t.mCurrentTsn = TsnAdd(c, k) /\ Kept(s, t) /\ IsTsn(c)
  BY <1>1 DEF Grew
<1> HIDE DEF c
<1>3. IsTsn(TsnAdd(c, k))
  BY <1>2, TsnIs
<1> QED BY <1>2, <1>3

\* Nothing is sent.
LEMMA GrowsNothing ==
    ASSUME NEW e, NEW s, NEW t, IsTsn(s.mCurrentTsn), Kept(s, t), s.mFlightSize \in Nat,
           t.mCurrentTsn = s.mCurrentTsn, t.mSentChunks = s.mSentChunks,
           t.mFlightSize = s.mFlightSize
    PROVE  Grows(e, s, t, {})
<1>1. Grew(e, s, t, {}, 0)
  BY GrewNothing
<1>2. Windowed(s, t, 0)
  BY DEF Windowed
<1> QED BY <1>1, <1>2 DEF Grows

\* The packets of a list of chunks.
LEMMA PacketsAre ==
    ASSUME NEW e, NEW s, NEW q, IsSeq(q)
    PROVE  OnlyData(e, s.mPeerTag, TsnsIn(q), DataPackets(e, s, q))
<1>1. ASSUME NEW p \in DataPackets(e, s, q)
      PROVE  p.type = "DATA" /\ p.to = Peer(e) /\ p.tag = s.mPeerTag /\ p.chunk.tsn \in TsnsIn(q)
  <2>1. PICK c \in ToSet(q) : p = Data(e, s, c)
    BY <1>1 DEF DataPackets
  <2>2. PICK i \in 1..Len(q) : c = q[i]
    BY SeqIs DEF ToSet
  <2>3. p.type = "DATA" /\ p.to = Peer(e) /\ p.tag = s.mPeerTag /\ p.chunk = c
    BY <2>1 DEF Data
  <2> QED BY <2>2, <2>3 DEF TsnsIn
<1> QED BY <1>1 DEF OnlyData

\* Transmit gives out the TSNs of the chunks.
LEMMA TransmitGrew ==
    ASSUME NEW e, NEW s, NEW b, NEW chunks, Accounts(s), IsTsn(s.mCurrentTsn),
           Sized(chunks, Positive), chunks # <<>>,
           TsnsIn(chunks) = New(s.mCurrentTsn, Len(chunks)), b.mPeerTag = s.mPeerTag
    PROVE  /\ Grew(e, s, Transmit(s, chunks), DataPackets(e, b, chunks), Len(chunks))
           /\ s.mFlightSize + Len(chunks) <= Transmit(s, chunks).mFlightSize
<1> DEFINE t == Transmit(s, chunks)
           k == Len(chunks)
<1>1. DOMAIN s = Fields /\ IsSeq(s.mSentChunks) /\ IsSeq(chunks)
  BY DEF Accounts, Sized
<1>2. /\ t.mCurrentTsn = TsnAdd(s.mCurrentTsn, k) /\ t.mSentChunks = s.mSentChunks \o chunks
      /\ t.mFlightSize = s.mFlightSize + Payload(chunks)
  BY <1>1 DEF Transmit, Fields
<1>3. \A f \in Fields \ {"mCurrentTsn", "mSentChunks", "mFlightSize", "t3Rtx"} : t[f] = s[f]
  BY TransmitIs
<1> HIDE DEF t
<1>4. Kept(s, t)
  BY <1>3 DEF Kept, Fields
<1>5. TsnsIn(t.mSentChunks) = TsnsIn(s.mSentChunks) \cup New(s.mCurrentTsn, k)
  <2> DEFINE q == s.mSentChunks
  <2>1. IsSeq(q) /\ t.mSentChunks = q \o chunks
    BY <1>1, <1>2
  <2> HIDE DEF q
  <2>2. TsnsIn(q \o chunks) = TsnsIn(q) \cup TsnsIn(chunks)
    BY <1>1, <2>1, TsnsJoin
  <2> QED BY <2>1, <2>2 DEF q
<1>6. OnlyData(e, s.mPeerTag, New(s.mCurrentTsn, k), DataPackets(e, b, chunks))
  <2>1. OnlyData(e, b.mPeerTag, TsnsIn(chunks), DataPackets(e, b, chunks))
    BY <1>1, PacketsAre
  <2> QED BY <2>1
<1>7. k \in Nat /\ k <= Payload(chunks) /\ Payload(chunks) \in Nat
  BY PayloadAtLeast
<1>8. s.mFlightSize \in Nat
  BY FlightIs
<1>9. s.mFlightSize + k <= t.mFlightSize
  BY <1>2, <1>7, <1>8
<1>10. Grew(e, s, t, DataPackets(e, b, chunks), k)
  BY <1>2, <1>4, <1>5, <1>6, <1>7 DEF Grew
<1> QED BY <1>9, <1>10 DEF t

\* The TSNs of the fragments of a message.
LEMMA FragmentTsns ==
    ASSUME NEW s, NEW ch, NEW msg, msg.size \in Positive
    PROVE  /\ Len(FragmentsOf(s, ch, msg)) = msg.size
           /\ TsnsIn(FragmentsOf(s, ch, msg)) = New(s.mCurrentTsn, msg.size)
<1> DEFINE q == FragmentsOf(s, ch, msg)
           n == msg.size
           c == s.mCurrentTsn
<1>1. n \in Nat /\ n > 0
  BY DEF Positive
<1>2. q = [i \in 1..n |-> q[i]]
  BY DEF FragmentsOf
<1>3. \A i \in 1..n : q[i].tsn = TsnAdd(c, i - 1)
  BY DEF FragmentsOf
<1> HIDE DEF q, n, c
<1>4. Len(q) = n
  BY <1>1, <1>2, FunctionIsSeq
<1>5. ASSUME NEW y \in TsnsIn(q) PROVE y \in New(c, n)
  <2>1. PICK i \in 1..n : y = TsnAdd(c, i - 1)
    BY <1>3, <1>4, <1>5 DEF TsnsIn
  <2>2. i - 1 \in 0..(n - 1)
    BY <1>1
  <2> QED BY <2>1, <2>2 DEF New
<1>6. ASSUME NEW y \in New(c, n) PROVE y \in TsnsIn(q)
  <2>1. PICK j \in 0..(n - 1) : y = TsnAdd(c, j)
    BY <1>6 DEF New
  <2>2. j + 1 \in 1..n /\ (j + 1) - 1 = j
    BY <1>1
  <2>3. y = q[j + 1].tsn
    BY <1>3, <2>1, <2>2
  <2> QED BY <1>4, <2>2, <2>3 DEF TsnsIn
<1> QED BY <1>4, <1>5, <1>6 DEF q, n, c

\* sendMessageNow gives out one TSN for each fragment.
LEMMA SendNowGrew ==
    ASSUME NEW e, NEW s, NEW i, NEW msg, Accounts(s), IsTsn(s.mCurrentTsn), msg.size \in Positive
    PROVE  /\ Grew(e, s, sendMessageNow(e, s, i, msg)[1], sendMessageNow(e, s, i, msg)[2], msg.size)
           /\ s.mFlightSize + msg.size <= sendMessageNow(e, s, i, msg)[1].mFlightSize
<1> DEFINE ch == s.mDataChannels
           chunks == FragmentsOf(s, ch[i], msg)
           sent == [s EXCEPT !.mDataChannels[i].sendSsn = NextSsn(@)]
           x == [ch[i] EXCEPT !.sendSsn = NextSsn(@)]
           t == Transmit(sent, chunks)
           out == DataPackets(e, s, chunks)
           n == msg.size
<1>1. sendMessageNow(e, s, i, msg)[1] = t /\ sendMessageNow(e, s, i, msg)[2] = out
  BY DEF sendMessageNow
<1>2. Sized(chunks, Positive) /\ chunks # <<>>
  BY FragmentsAre
<1>3. Len(chunks) = n /\ TsnsIn(chunks) = New(s.mCurrentTsn, n)
  <2> DEFINE d == ch[i]
  <2> HIDE DEF d
  <2>1. Len(FragmentsOf(s, d, msg)) = n /\ TsnsIn(FragmentsOf(s, d, msg)) = New(s.mCurrentTsn, n)
    BY FragmentTsns
  <2> QED BY <2>1 DEF d
<1>4. DOMAIN s = Fields /\ IsSeq(ch)
  BY DEF Accounts
<1>5. DOMAIN sent = Fields /\ (\A f \in Fields \ {"mDataChannels"} : sent[f] = s[f])
      /\ sent.mDataChannels = [ch EXCEPT ![i] = x]
  BY <1>4 DEF Fields
<1>6. n \in Nat
  BY DEF Positive
<1> HIDE DEF sent, chunks, ch, x, n
<1>7. IsSeq(sent.mDataChannels)
  BY <1>4, <1>5, ExceptIsSeq
<1>8. \A f \in Read : sent[f] = s[f]
  BY <1>5 DEF Read, Fields
<1>9. Accounts(sent)
  BY <1>5, <1>7, <1>8, SameAccounts
<1>10. /\ sent.mCurrentTsn = s.mCurrentTsn /\ sent.mSentChunks = s.mSentChunks
       /\ sent.mPeerTag = s.mPeerTag /\ Kept(s, sent) /\ sent.mFlightSize = s.mFlightSize
  BY <1>5 DEF Fields, Kept
<1>11. Grew(e, s, sent, {}, 0)
  BY <1>10, GrewNothing
<1>12. Grew(e, sent, t, out, n) /\ s.mFlightSize + n <= t.mFlightSize
  <2>1. /\ TsnsIn(chunks) = New(sent.mCurrentTsn, Len(chunks)) /\ IsTsn(sent.mCurrentTsn)
        /\ s.mPeerTag = sent.mPeerTag
    BY <1>3, <1>10
  <2>2. /\ Grew(e, sent, t, out, Len(chunks))
        /\ sent.mFlightSize + Len(chunks) <= t.mFlightSize
    BY <1>2, <1>9, <2>1, TransmitGrew
  <2> HIDE DEF t, out
  <2> QED BY <1>3, <1>10, <2>2
<1> HIDE DEF t, out
<1>13. Grew(e, s, t, {} \cup out, 0 + n)
  BY <1>11, <1>12, GrewTwice
<1>14. {} \cup out = out /\ 0 + n = n
  BY <1>6
<1> QED BY <1>1, <1>12, <1>13, <1>14 DEF n

\* The same for a session with other lists of waiting messages.
LEMMA QueuesGrowNothing ==
    ASSUME NEW e, NEW s, NEW q, Accounts(s), IsTsn(s.mCurrentTsn)
    PROVE  Grows(e, s, WithPending(s, q), {}) /\ Grows(e, s, WithQueue(s, q), {})
<1> DEFINE t == WithPending(s, q)
           u == WithQueue(s, q)
<1>1. (\A f \in Fields \ {"mPendingSend"} : t[f] = s[f])
      /\ (\A f \in Fields \ {"mDataSendQueue"} : u[f] = s[f])
  BY QueuesChange
<1>2. s.mFlightSize \in Nat
  BY FlightIs
<1> HIDE DEF t, u
<1>3. /\ Kept(s, t) /\ t.mCurrentTsn = s.mCurrentTsn /\ t.mSentChunks = s.mSentChunks
      /\ t.mFlightSize = s.mFlightSize
  BY <1>1 DEF Fields, Kept
<1>4. /\ Kept(s, u) /\ u.mCurrentTsn = s.mCurrentTsn /\ u.mSentChunks = s.mSentChunks
      /\ u.mFlightSize = s.mFlightSize
  BY <1>1 DEF Fields, Kept
<1>5. Grows(e, s, t, {})
  BY <1>2, <1>3, GrowsNothing
<1>6. Grows(e, s, u, {})
  BY <1>2, <1>4, GrowsNothing
<1> QED BY <1>5, <1>6 DEF t, u

\* send() stays within the window.
LEMMA SendGrows ==
    ASSUME NEW e, NEW s, NEW msg, SessionInv(s), IsTsn(s.mCurrentTsn), msg.size \in Sizes
    PROVE  Grows(e, s, send(e, s, msg)[1], send(e, s, msg)[2])
<1> DEFINE refused == s.mState # "Established" \/ ~CanSendOn(s, msg.label)
                         \/ (MaxMessageSize > 0 /\ msg.size > MaxMessageSize)
           r == send(e, s, msg)
<1>0. Accounts(s) /\ DOMAIN s = Fields /\ s.mFlightSize \in Nat
  BY FlightIs DEF SessionInv, Accounts
<1>1. CASE refused
  <2> DEFINE t == [s EXCEPT !.dropped = @ \cup {msg.id}]
  <2>1. r[1] = t /\ r[2] = {}
    BY <1>1 DEF send
  <2>2. \A f \in Fields \ {"dropped"} : t[f] = s[f]
    BY <1>0 DEF Fields
  <2> HIDE DEF t, r
  <2>3. /\ Kept(s, t) /\ t.mCurrentTsn = s.mCurrentTsn /\ t.mSentChunks = s.mSentChunks
        /\ t.mFlightSize = s.mFlightSize
    BY <2>2 DEF Fields, Kept
  <2>4. Grows(e, s, t, {})
    BY <1>0, <2>3, GrowsNothing
  <2> QED BY <2>1, <2>4 DEF r
<1>2. CASE ~refused /\ ~FitsWindow(s, msg)
  <2> DEFINE q == Append(s.mPendingSend, msg)
             t == WithPending(s, q)
  <2>1. r[1] = t /\ r[2] = {}
    BY <1>2 DEF send, WithPending
  <2> HIDE DEF q, r
  <2>2. Grows(e, s, t, {})
    BY <1>0, QueuesGrowNothing
  <2> QED BY <2>1, <2>2 DEF r
<1>3. CASE ~refused /\ FitsWindow(s, msg)
  <2> DEFINE i == ChannelByLabel(s, msg.label)
             t == sendMessageNow(e, s, i, msg)[1]
             o == sendMessageNow(e, s, i, msg)[2]
             n == msg.size
  <2>1. r[1] = t /\ r[2] = o
    BY <1>3 DEF send
  <2>2. n \in Positive /\ n \in Nat
    BY SctpAssumption DEF Positive
  <2>3. s.mFlightSize + n <= InitRwnd
    BY <1>0, <1>3 DEF FitsWindow, Accounts
  <2> HIDE DEF i
  <2>4. Grew(e, s, t, o, n) /\ s.mFlightSize + n <= t.mFlightSize
    BY <1>0, <2>2, SendNowGrew
  <2> HIDE DEF t, o, n, r
  <2>5. Windowed(s, t, n)
    BY <2>3, <2>4 DEF Windowed
  <2>6. Grows(e, s, t, o)
    BY <2>4, <2>5 DEF Grows
  <2> QED BY <2>1, <2>6 DEF r
<1> QED BY <1>1, <1>2, <1>3

\* The loop of PeerCandidate::onSctpDataChannelOpen, which started from r.
Opened(e, r, w) ==
    SessionInv(w[1]) /\ \E o : w[2] = r[2] \cup o /\ Grows(e, r[1], w[1], o)

\* One turn sends a message or keeps it.
LEMMA OpenTurn ==
    ASSUME NEW e, NEW label, NEW r, NEW w, NEW msg, SessionInv(r[1]), IsTsn(r[1].mCurrentTsn),
           Opened(e, r, w), msg.size \in Sizes
    PROVE  Opened(e, r, OpenStep(e, label, w, msg))
<1> DEFINE s == w[1]
           b == r[1]
           v == OpenStep(e, label, w, msg)
<1>1. SessionInv(s)
  BY DEF Opened
<1>2. PICK o : w[2] = r[2] \cup o /\ Grows(e, b, s, o)
  BY DEF Opened
<1>3. IsTsn(s.mCurrentTsn) /\ Accounts(s) /\ Accounts(b)
  BY <1>1, <1>2, GrowsTsn DEF SessionInv
<1>4. v = IF msg.label = label THEN <<send(e, s, msg)[1], w[2] \cup send(e, s, msg)[2]>>
          ELSE <<[s EXCEPT !.mDataSendQueue = Append(@, msg)], w[2]>>
  BY DEF OpenStep
<1>5. ASSUME NEW t, NEW o2, SessionInv(t), Grows(e, s, t, o2), v[1] = t, v[2] = w[2] \cup o2
      PROVE  Opened(e, r, v)
  <2>1. b.mFlightSize \in Nat /\ s.mFlightSize \in Nat /\ t.mFlightSize \in Nat
    BY <1>3, <1>5, FlightIs DEF SessionInv
  <2> HIDE DEF v, s, b
  <2>2. Grows(e, b, t, o \cup o2)
    BY <1>2, <1>5, <2>1, GrowsTwice DEF b
  <2>3. v[2] = r[2] \cup (o \cup o2)
    BY <1>2, <1>5
  <2> QED BY <1>5, <2>2, <2>3 DEF Opened, b
<1> HIDE DEF v, s, b
<1>6. CASE msg.label = label
  <2> DEFINE t == send(e, s, msg)[1]
             o2 == send(e, s, msg)[2]
  <2>1. SessionInv(t) /\ Grows(e, s, t, o2)
    BY <1>1, <1>3, SendIs, SendGrows
  <2> HIDE DEF t, o2
  <2>2. v[1] = t /\ v[2] = w[2] \cup o2
    BY <1>4, <1>6 DEF t, o2
  <2> QED BY <1>5, <2>1, <2>2 DEF v
<1>7. CASE msg.label # label
  <2> DEFINE q == Append(s.mDataSendQueue, msg)
             t == WithQueue(s, q)
  <2>1. v[1] = t /\ v[2] = w[2]
    BY <1>4, <1>7 DEF WithQueue
  <2>2. Sized(q, Sizes)
    BY <1>3, SizedIs DEF Accounts
  <2> HIDE DEF q
  <2>3. Accounts(t) /\ Grows(e, s, t, {}) /\ \A f \in Fields \ {"mDataSendQueue"} : t[f] = s[f]
    BY <1>3, <2>2, QueuesChange, QueuesGrowNothing
  <2> HIDE DEF t
  <2>4. t.mPendingSend = s.mPendingSend /\ t.mSentChunks = s.mSentChunks
    BY <2>3 DEF Fields
  <2>5. SessionInv(t)
    BY <1>1, <2>3, <2>4 DEF SessionInv, NotStranded
  <2>6. v[2] = w[2] \cup {}
    BY <2>1
  <2> QED BY <1>5, <2>1, <2>3, <2>5, <2>6 DEF v
<1> QED BY <1>6, <1>7 DEF v

\* Opening a channel sends what waited for it, within the window.
LEMMA OpenGrows ==
    ASSUME NEW e, NEW r, NEW label, SessionInv(r[1]), IsTsn(r[1].mCurrentTsn)
    PROVE  \E o : /\ onSctpDataChannelOpen(e, r, label)[2] = r[2] \cup o
                  /\ Grows(e, r[1], onSctpDataChannelOpen(e, r, label)[1], o)
<1> DEFINE queue == r[1].mDataSendQueue
           n == Len(queue)
           W == OpenWalk(e, label, r, queue)
           T == {k \in Nat : k <= n => Opened(e, r, W[k])}
<1>1. Sized(queue, Sizes) /\ IsSeq(queue) /\ n \in Nat
  BY SeqIs DEF SessionInv, Accounts, Sized
<1>2. /\ W[0] = OpenStart(r)
      /\ \A k \in 1..n : W[k] = OpenStep(e, label, W[k - 1], queue[k])
  <2> HIDE DEF queue
  <2> QED BY <1>1, OpenWalkIs
<1>3. onSctpDataChannelOpen(e, r, label)[1] = W[n][1]
      /\ onSctpDataChannelOpen(e, r, label)[2] = W[n][2]
  BY DEF onSctpDataChannelOpen
<1> HIDE DEF W, queue, n
<1>4. 0 \in T
  <2> DEFINE s == r[1]
             none == <<>>
             t == WithQueue(s, none)
  <2>1. IsSeq(none) /\ Len(none) = 0
    BY <1>1, EmptyIs
  <2>5. W[0][1] = t /\ W[0][2] = r[2]
    BY <1>2 DEF OpenStart, WithQueue
  <2> HIDE DEF none
  <2>2. Sized(none, Sizes)
    BY <2>1 DEF Sized
  <2>6. Accounts(s) /\ NotStranded(s) /\ IsTsn(s.mCurrentTsn)
    BY DEF SessionInv
  <2> HIDE DEF s
  <2>3. Accounts(t) /\ Grows(e, s, t, {}) /\ \A f \in Fields \ {"mDataSendQueue"} : t[f] = s[f]
    BY <2>2, <2>6, QueuesChange, QueuesGrowNothing
  <2> HIDE DEF t
  <2>7. t.mPendingSend = s.mPendingSend /\ t.mSentChunks = s.mSentChunks
    BY <2>3 DEF Fields
  <2>4. SessionInv(t)
    BY <2>3, <2>6, <2>7 DEF SessionInv, NotStranded
  <2>8. W[0][2] = r[2] \cup {}
    BY <2>5
  <2>9. Opened(e, r, W[0])
    BY <2>3, <2>4, <2>5, <2>8 DEF Opened, s
  <2> QED BY <2>9
<1>5. ASSUME NEW k \in Nat, k \in T PROVE k + 1 \in T
  <2>0. ASSUME k + 1 <= n PROVE Opened(e, r, W[k + 1])
    <3> DEFINE w == W[k]
               msg == queue[k + 1]
    <3>1. k + 1 \in 1..n /\ Opened(e, r, w) /\ (k + 1) - 1 = k
      BY <1>1, <1>5, <2>0
    <3>2. W[k + 1] = OpenStep(e, label, w, msg) /\ msg.size \in Sizes
      BY <1>1, <1>2, <3>1 DEF Sized, n
    <3> HIDE DEF w, msg
    <3>3. Opened(e, r, OpenStep(e, label, w, msg))
      BY <3>1, <3>2, OpenTurn
    <3> QED BY <3>2, <3>3
  <2> QED BY <2>0
<1>6. Nat \subseteq T
  <2> HIDE DEF T
  <2> QED BY <1>4, <1>5, NatSetInduction
<1>7. Opened(e, r, W[n])
  BY <1>1, <1>6
<1> QED BY <1>3, <1>7 DEF Opened

\* One turn of transmitPending stays within the window.
LEMMA PendingTurnGrows ==
    ASSUME NEW e, NEW b, NEW w, NEW m \in Nat, NEW msg, Accounts(b), IsTsn(b.mCurrentTsn),
           PendingOK(w, m), m > 0, msg.size \in Sendable, Grows(e, b, w.s, w.out)
    PROVE  Grows(e, b, PendingStep(e, w, msg).s, PendingStep(e, w, msg).out)
<1> DEFINE v == PendingStep(e, w, msg)
           s == w.s
           q == s.mPendingSend
           rest == Tail(q)
           i == ChannelByLabel(s, msg.label)
           r == sendMessageNow(e, s, i, msg)
<1>0. v = IF w.stop THEN w
          ELSE IF ~CanSendOn(s, msg.label)
          THEN [w EXCEPT !.s = [s EXCEPT !.mPendingSend = Tail(@)]]
          ELSE IF ~FitsWindow(s, msg) THEN [w EXCEPT !.stop = TRUE]
          ELSE [s |-> [r[1] EXCEPT !.mPendingSend = Tail(@)],
                out |-> w.out \cup r[2], stop |-> FALSE]
  BY DEF PendingStep
<1>1. /\ DOMAIN w = {"s", "out", "stop"} /\ Accounts(s) /\ s.mPeerRwnd = InitRwnd
      /\ w.stop = TRUE \/ w.stop = FALSE
  BY DEF PendingOK
<1>2. IsTsn(s.mCurrentTsn) /\ b.mFlightSize \in Nat /\ s.mFlightSize \in Nat
  BY <1>1, GrowsTsn, FlightIs
<1>3. Accounts(v.s)
  <2>1. PendingOK(v, m - 1)
    BY PendingTurn
  <2> QED BY <2>1 DEF PendingOK
<1>4. v.s.mFlightSize \in Nat
  BY <1>3, FlightIs
<1>5. ASSUME NEW o, Grows(e, s, v.s, o), v.out = w.out \cup o
      PROVE  Grows(e, b, v.s, v.out)
  <2> HIDE DEF v
  <2>1. Grows(e, b, v.s, w.out \cup o)
    BY <1>2, <1>4, <1>5, GrowsTwice
  <2> QED BY <1>5, <2>1
<1> HIDE DEF v, s
<1>6. CASE w.stop = TRUE \/ (w.stop = FALSE /\ CanSendOn(s, msg.label) /\ ~FitsWindow(s, msg))
  <2>1. v.s = w.s /\ v.out = w.out
    BY <1>0, <1>1, <1>6
  <2> QED BY <2>1 DEF v
<1>7. CASE w.stop = FALSE /\ ~CanSendOn(s, msg.label)
  <2> DEFINE t == WithPending(s, rest)
  <2>1. v = [w EXCEPT !.s = [s EXCEPT !.mPendingSend = Tail(@)]]
    BY <1>0, <1>7
  <2>2. t = [s EXCEPT !.mPendingSend = Tail(@)]
    BY <1>1 DEF WithPending
  <2> HIDE DEF rest
  <2>3. Grows(e, s, t, {})
    BY <1>1, <1>2, QueuesGrowNothing
  <2> HIDE DEF t
  <2>4. v.s = t /\ v.out = w.out \cup {}
    BY <1>1, <2>1, <2>2
  <2> QED BY <1>5, <2>3, <2>4 DEF v
<1>8. CASE w.stop = FALSE /\ CanSendOn(s, msg.label) /\ FitsWindow(s, msg)
  <2> DEFINE u == r[1]
             o == r[2]
             t == WithPending(u, rest)
             n == msg.size
  <2> HIDE DEF i
  <2>1. n \in Positive /\ n \in Nat
    BY SctpAssumption DEF Positive, Sendable
  <2>2. Accounts(u) /\ u.mPendingSend = q /\ Grew(e, s, u, o, n)
        /\ s.mFlightSize + n <= u.mFlightSize
    BY <1>1, <1>2, <2>1, SendNowIs, SendNowGrew
  <2>3. s.mFlightSize + n <= InitRwnd
    BY <1>1, <1>8 DEF FitsWindow
  <2> HIDE DEF u, o, n
  <2>4. v = [s |-> t, out |-> w.out \cup o, stop |-> FALSE]
    <3>1. v = [s |-> [u EXCEPT !.mPendingSend = Tail(@)], out |-> w.out \cup o, stop |-> FALSE]
      BY <1>0, <1>8 DEF u, o, i
    <3>2. t = [u EXCEPT !.mPendingSend = Tail(@)]
      BY <2>2 DEF WithPending
    <3> QED BY <3>1, <3>2
  <2> HIDE DEF rest, r
  <2>5. Grows(e, s, u, o)
    <3>1. Windowed(s, u, n)
      BY <2>2, <2>3 DEF Windowed
    <3> QED BY <2>2, <3>1 DEF Grows
  <2>6. Grows(e, u, t, {})
    <3>1. IsTsn(u.mCurrentTsn)
      BY <1>2, <2>5, GrowsTsn
    <3> QED BY <2>2, <3>1, QueuesGrowNothing
  <2> HIDE DEF t
  <2>7. v.s = t /\ v.out = w.out \cup o
    BY <2>4
  <2>8. u.mFlightSize \in Nat /\ t.mFlightSize \in Nat
    BY <1>4, <2>2, <2>7, FlightIs
  <2>9. Grows(e, s, t, o \cup {})
    BY <1>2, <2>5, <2>6, <2>8, GrowsTwice
  <2>10. o \cup {} = o
    OBVIOUS
  <2>11. Grows(e, s, v.s, o)
    BY <2>7, <2>9, <2>10
  <2> QED BY <1>5, <2>7, <2>11 DEF v
<1> QED BY <1>1, <1>6, <1>7, <1>8

\* transmitPending stays within the window.
LEMMA PendingGrows ==
    ASSUME NEW e, NEW s, Accounts(s), s.mPeerRwnd = InitRwnd, IsTsn(s.mCurrentTsn)
    PROVE  Grows(e, s, transmitPending(e, s)[1], transmitPending(e, s)[2])
<1> DEFINE q == s.mPendingSend
           n == Len(q)
           W == PendingWalk(e, s)
           T == {k \in Nat : k <= n => PendingOK(W[k], n - k) /\ Grows(e, s, W[k].s, W[k].out)}
<1>1. Sized(q, Sendable) /\ IsSeq(q) /\ n \in Nat
  BY SeqIs DEF Accounts, Sized
<1>2. /\ W[0] = [s |-> s, out |-> {}, stop |-> FALSE]
      /\ \A k \in 1..n : W[k] = PendingStep(e, W[k - 1], q[k])
  BY <1>1, PendingWalkIs
<1>3. transmitPending(e, s)[1] = W[n].s /\ transmitPending(e, s)[2] = W[n].out
  BY DEF transmitPending
<1> HIDE DEF W
<1>4. 0 \in T
  <2>1. DOMAIN W[0] = {"s", "out", "stop"} /\ W[0].s = s /\ W[0].stop = FALSE /\ W[0].out = {}
    BY <1>2
  <2>2. n - 0 = n
    BY <1>1
  <2>3. Grows(e, s, s, {})
    BY FlightIs, GrowsNothing DEF Kept
  <2> QED BY <2>1, <2>2, <2>3 DEF PendingOK
<1> HIDE DEF q, n
<1>5. ASSUME NEW k \in Nat, k \in T PROVE k + 1 \in T
  <2>0. ASSUME k + 1 <= n
        PROVE  PendingOK(W[k + 1], n - (k + 1)) /\ Grows(e, s, W[k + 1].s, W[k + 1].out)
    <3> DEFINE m == n - k
               w == W[k]
               msg == q[k + 1]
    <3>1. k + 1 \in 1..n /\ (k + 1) - 1 = k /\ m \in Nat /\ m > 0 /\ m - 1 = n - (k + 1)
      BY <1>1, <2>0
    <3>2. PendingOK(w, m) /\ Grows(e, s, w.s, w.out)
      BY <1>1, <1>5, <2>0
    <3>3. W[k + 1] = PendingStep(e, w, msg) /\ msg.size \in Sendable
      BY <1>1, <1>2, <3>1 DEF Sized, n
    <3> HIDE DEF m, w, msg
    <3>4. PendingOK(PendingStep(e, w, msg), m - 1)
          /\ Grows(e, s, PendingStep(e, w, msg).s, PendingStep(e, w, msg).out)
      BY <3>1, <3>2, <3>3, PendingTurn, PendingTurnGrows
    <3> QED BY <3>1, <3>3, <3>4
  <2> QED BY <2>0
<1>6. Nat \subseteq T
  <2> HIDE DEF T
  <2> QED BY <1>4, <1>5, NatSetInduction
<1>7. Grows(e, s, W[n].s, W[n].out)
  BY <1>1, <1>6
<1> QED BY <1>3, <1>7
-----------------------------------------------------------------------------
\* Acknowledging.

\* A SACK p covers a TSN.
AckTsn(t, p) ==
    TsnAtOrBefore(t, p.cumTsn) \/ ((t - p.cumTsn) % TsnCount) % GapCount \in p.gaps

\* The TSNs of a list and one more.
LEMMA TsnsAppend ==
    ASSUME NEW q, NEW x, IsSeq(q)
    PROVE  \A y : y \in TsnsIn(Append(q, x)) <=> y \in TsnsIn(q) \/ y = x.tsn
<1> DEFINE r == Append(q, x)
           n == Len(q)
<1>1. /\ n \in Nat /\ Len(r) = n + 1 /\ r[n + 1] = x
      /\ \A i \in 1..n : r[i] = q[i]
  BY SeqIs, AppendIs
<1> HIDE DEF r, n
<1>2. ASSUME NEW y \in TsnsIn(r) PROVE y \in TsnsIn(q) \/ y = x.tsn
  <2>1. PICK i \in 1..(n + 1) : y = r[i].tsn
    BY <1>1, <1>2 DEF TsnsIn
  <2>2. i \in 1..n \/ i = n + 1
    BY <1>1
  <2> QED BY <1>1, <2>1, <2>2 DEF TsnsIn, n
<1>3. ASSUME NEW y \in TsnsIn(q) PROVE y \in TsnsIn(r)
  <2>1. PICK i \in 1..n : y = q[i].tsn
    BY <1>3 DEF TsnsIn, n
  <2>2. i \in 1..(n + 1) /\ y = r[i].tsn
    BY <1>1, <2>1
  <2> QED BY <1>1, <2>2 DEF TsnsIn
<1>4. x.tsn \in TsnsIn(r)
  <2>1. n + 1 \in 1..(n + 1) /\ x.tsn = r[n + 1].tsn
    BY <1>1
  <2> QED BY <1>1, <2>1 DEF TsnsIn
<1> QED BY <1>2, <1>3, <1>4 DEF r

\* The loop of onReceiveSack after i chunks: what it keeps.
SackLeft(q, p, w, i) ==
    /\ DOMAIN w = {"left", "acked", "flight"} /\ IsSeq(w.left)
    /\ \A y : y \in TsnsIn(w.left) <=> \E j \in 1..i : y = q[j].tsn /\ ~AckTsn(y, p)

\* One turn.
LEMMA SackLeftTurn ==
    ASSUME NEW q, NEW p, NEW w, NEW i \in Nat, SackLeft(q, p, w, i)
    PROVE  SackLeft(q, p, SackStep(p, w, q[i + 1]), i + 1)
<1> DEFINE c == q[i + 1]
           k == w.left
           v == SackStep(p, w, c)
<1>0. /\ AckTsn(c.tsn, p) => v.left = k /\ DOMAIN v = {"left", "acked", "flight"}
      /\ ~AckTsn(c.tsn, p) => v.left = Append(k, c) /\ DOMAIN v = {"left", "acked", "flight"}
  BY DEF SackStep, SackLeft, AckedBy, AckTsn
<1>1. /\ IsSeq(k)
      /\ \A y : y \in TsnsIn(k) <=> \E j \in 1..i : y = q[j].tsn /\ ~AckTsn(y, p)
  BY DEF SackLeft
<1>2. \A j : j \in 1..(i + 1) <=> j \in 1..i \/ j = i + 1
  OBVIOUS
<1> HIDE DEF v, k
<1>3. CASE AckTsn(c.tsn, p)
  <2>1. ASSUME NEW y
        PROVE  (\E j \in 1..i : y = q[j].tsn /\ ~AckTsn(y, p))
                  <=> (\E j \in 1..(i + 1) : y = q[j].tsn /\ ~AckTsn(y, p))
    BY <1>2, <1>3
  <2> HIDE DEF c
  <2>2. SackLeft(q, p, v, i + 1)
    BY <1>0, <1>1, <1>3, <2>1 DEF SackLeft
  <2> QED BY <2>2 DEF v, c
<1>4. CASE ~AckTsn(c.tsn, p)
  <2>1. ASSUME NEW y
        PROVE  ((\E j \in 1..i : y = q[j].tsn /\ ~AckTsn(y, p)) \/ y = c.tsn)
                  <=> (\E j \in 1..(i + 1) : y = q[j].tsn /\ ~AckTsn(y, p))
    BY <1>2, <1>4
  <2> HIDE DEF c
  <2>2. IsSeq(Append(k, c)) /\ \A y : y \in TsnsIn(Append(k, c)) <=> y \in TsnsIn(k) \/ y = c.tsn
    BY <1>1, AppendIs, TsnsAppend
  <2>3. SackLeft(q, p, v, i + 1)
    BY <1>0, <1>1, <1>4, <2>1, <2>2 DEF SackLeft
  <2> QED BY <2>3 DEF v, c
<1> QED BY <1>3, <1>4

\* onReceiveSack keeps exactly the chunks that the SACK does not cover.
LEMMA SackKeeps ==
    ASSUME NEW s, NEW p, IsSeq(s.mSentChunks)
    PROVE  TsnsIn(SackEnd(s, p).left) = {y \in TsnsIn(s.mSentChunks) : ~AckTsn(y, p)}
<1> DEFINE q == s.mSentChunks
           n == Len(q)
           W == SackWalk(s, p)
           T == {i \in Nat : i <= n => SackLeft(q, p, W[i], i)}
<1>1. IsSeq(q) /\ n \in Nat
  BY SeqIs
<1>2. /\ W[0] = [left |-> <<>>, acked |-> FALSE, flight |-> s.mFlightSize]
      /\ \A i \in 1..n : W[i] = SackStep(p, W[i - 1], q[i])
  BY <1>1, SackWalkIs
<1> HIDE DEF W
<1>3. 0 \in T
  <2> DEFINE none == <<>>
             w == W[0]
  <2>1. IsSeq(none) /\ Len(none) = 0
    BY <1>1, EmptyIs
  <2>2. DOMAIN w = {"left", "acked", "flight"} /\ w.left = none
    BY <1>2
  <2> HIDE DEF none, w
  <2>3. TsnsIn(none) = {}
    BY <2>1 DEF TsnsIn
  <2>4. SackLeft(q, p, w, 0)
    BY <2>1, <2>2, <2>3 DEF SackLeft
  <2> QED BY <2>4 DEF w
<1> HIDE DEF q, n
<1>4. ASSUME NEW i \in Nat, i \in T PROVE i + 1 \in T
  <2>0. ASSUME i + 1 <= n PROVE SackLeft(q, p, W[i + 1], i + 1)
    <3> DEFINE w == W[i]
    <3>1. i + 1 \in 1..n /\ (i + 1) - 1 = i /\ SackLeft(q, p, w, i)
      BY <1>1, <1>4, <2>0
    <3>2. W[i + 1] = SackStep(p, w, q[i + 1])
      BY <1>2, <3>1
    <3> HIDE DEF w
    <3>3. SackLeft(q, p, SackStep(p, w, q[i + 1]), i + 1)
      BY <3>1, SackLeftTurn
    <3> QED BY <3>2, <3>3
  <2> QED BY <2>0
<1>5. Nat \subseteq T
  <2> HIDE DEF T
  <2> QED BY <1>3, <1>4, NatSetInduction
<1>6. SackLeft(q, p, W[n], n)
  BY <1>1, <1>5
<1>7. SackEnd(s, p) = W[n]
  BY DEF SackEnd, W, q, n
<1>8. \A y : y \in TsnsIn(W[n].left) <=> \E j \in 1..n : y = q[j].tsn /\ ~AckTsn(y, p)
  BY <1>6 DEF SackLeft
<1>9. \A y : y \in TsnsIn(q) <=> \E j \in 1..n : y = q[j].tsn
  BY DEF TsnsIn, n
<1> QED BY <1>7, <1>8, <1>9 DEF q

\* TSNs of x are as far apart as their places.
LEMMA PlacesApart ==
    ASSUME NEW x \in Endpoints, NEW j \in Int, NEW l \in Int, l <= j, j - l < TsnCount
    PROVE  (TsnAdd(InitialTsn[x], j) - TsnAdd(InitialTsn[x], l)) % TsnCount = j - l
<1> DEFINE I == InitialTsn[x]
           N == TsnCount
           a == I + j
           b == I + l
<1>1. I \in Int /\ N \in Nat /\ N > 0
  BY InitialIs, Circle
<1>2. a \in Int /\ b \in Int /\ b <= a /\ a - b < N /\ a - b = j - l
  <2> HIDE DEF I
  <2> QED BY <1>1
<1>3. ((a % N) - (b % N)) % N = a - b
  <2> HIDE DEF a, b, N
  <2> QED BY <1>1, <1>2, ModDistance
<1>4. TsnAdd(I, j) = a % N /\ TsnAdd(I, l) = b % N
  BY DEF TsnAdd
<1> HIDE DEF a, b, I, N
<1>5. (TsnAdd(I, j) - TsnAdd(I, l)) % N = j - l
  BY <1>2, <1>3, <1>4
<1> QED BY <1>5 DEF I, N

\* A TSN of x is before a later one, less than half of the circle ahead.
LEMMA PlacesInOrder ==
    ASSUME NEW x \in Endpoints, NEW j \in Int, NEW l \in Int, j <= l, l - j < Half
    PROVE  TsnAtOrBefore(TsnAdd(InitialTsn[x], j), TsnAdd(InitialTsn[x], l))
<1> DEFINE I == InitialTsn[x]
           N == TsnCount
           H == Half
           u == TsnAdd(I, j)
           v == TsnAdd(I, l)
<1>1. I \in Int /\ N \in Nat /\ N > 0 /\ H \in Nat /\ H + H <= N /\ H < N
  BY InitialIs, Circle, HalfFacts
<1>2. u \in 0..(N - 1) /\ v \in 0..(N - 1)
  <2> HIDE DEF I
  <2> QED BY <1>1, AddIs
<1>3. l - j < N
  <2> HIDE DEF N, H
  <2> QED BY <1>1 DEF H
<1>4. (v - u) % N = l - j
  BY <1>3, PlacesApart
<1>5. CASE u = v
  BY <1>5 DEF TsnAtOrBefore
<1>6. CASE u # v
  <2>0. TsnCount \div 2 = H
    BY DEF Half
  <2> HIDE DEF u, v, I, N, H
  <2>1. CASE v > u
    <3>1. (v - u) % N = v - u
      BY <1>1, <1>2, <2>1
    <3>2. u - v + N \in 0..(N - 1) /\ u - v \in Int
      BY <1>1, <1>2, <2>1
    <3>3. (u - v) % N = (u - v) + N
      BY <1>1, <1>2, <2>1
    <3>4. (u - v) % N >= H
      BY <1>1, <1>2, <1>4, <3>1, <3>3 DEF H
    <3> QED BY <2>0, <3>4 DEF TsnAtOrBefore, u, v, I, N
  <2>2. CASE v < u
    <3>1. (v - u) % N = (v - u) + N
      BY <1>1, <1>2, <2>2
    <3>2. (u - v) % N = u - v
      BY <1>1, <1>2, <2>2
    <3>3. (u - v) % N >= H
      BY <1>1, <1>2, <1>4, <3>1, <3>2 DEF H
    <3> QED BY <2>0, <3>3 DEF TsnAtOrBefore, u, v, I, N
  <2> QED BY <1>2, <1>6, <2>1, <2>2
<1> QED BY <1>5, <1>6

\* A later TSN of x, less than half of the circle ahead, is not before an earlier one.
LEMMA PlacesNotBack ==
    ASSUME NEW x \in Endpoints, NEW j \in Int, NEW l \in Int, l < j, j - l < Half
    PROVE  ~TsnAtOrBefore(TsnAdd(InitialTsn[x], j), TsnAdd(InitialTsn[x], l))
<1> DEFINE I == InitialTsn[x]
           N == TsnCount
           H == Half
           u == TsnAdd(I, j)
           v == TsnAdd(I, l)
<1>1. I \in Int /\ N \in Nat /\ N > 0 /\ H \in Nat /\ H < N
  BY InitialIs, Circle, HalfFacts
<1>2. j - l < N /\ l - j < N
  <2> HIDE DEF N, H
  <2> QED BY <1>1 DEF H
<1>3. (u - v) % N = j - l
  BY <1>2, PlacesApart
<1>4. u # v
  <2>1. ASSUME u = v PROVE j = l
    <3> HIDE DEF I, N, H
    <3> QED BY <1>1, <1>2, <2>1, AddInjective DEF N
  <2> QED BY <2>1
<1>5. TsnCount \div 2 = H
  BY DEF Half
<1>6. ~((u - v) % N >= H)
  <2> HIDE DEF u, v, N, H
  <2> QED BY <1>1, <1>3 DEF H
<1> QED BY <1>4, <1>5, <1>6 DEF TsnAtOrBefore

\* A true SACK covers nothing that was not received, as long as less than half of the
\* circle is given out and its gap offsets reach over what is.
LEMMA CoveredIsReceived ==
    ASSUME NEW x \in Endpoints, NEW p, NEW n \in Nat, NEW rc, n < Half,
           SackTrue(x, p.cumTsn, p.gaps, n, rc), NEW y \in First(x, n), AckTsn(y, p),
           (TsnAdd(InitialTsn[x], n) - p.cumTsn) % TsnCount <= GapCount
    PROVE  y \in rc
<1> DEFINE I == InitialTsn[x]
           cum == p.cumTsn
           N == TsnCount
           H == Half
           G == GapCount
<1>0. I \in Int /\ N \in Nat /\ N > 0 /\ G \in Nat /\ G > 0
  BY InitialIs, Circle, SctpAssumption
<1>00. H \in Nat /\ H < N /\ n < H
  BY HalfFacts
<1>1. PICK j \in 0..(n - 1) : y = TsnAdd(I, j)
  BY DEF First
<1>2. PICK m \in 0..n : /\ cum = TsnAdd(I, m - 1) /\ First(x, m) \subseteq rc
                        /\ n - m < G => \A d \in p.gaps :
                              d \in Nat /\ TsnAdd(I, (m - 1) + d) \in rc
  BY DEF SackTrue
<1> DEFINE l == m - 1
<1>3. l \in Int /\ j \in Int /\ n \in Int /\ l < n /\ n - l < N /\ j < n
  <2> HIDE DEF N, H
  <2> QED BY <1>0, <1>00
<1>4. n - l <= G
  <2>1. (TsnAdd(I, n) - TsnAdd(I, l)) % N = n - l
    <3> HIDE DEF l
    <3> QED BY <1>3, PlacesApart
  <2> QED BY <1>2, <2>1
<1>5. CASE j < m
  <2>1. j \in 0..(m - 1)
    BY <1>5
  <2>2. y \in First(x, m)
    BY <1>1, <2>1 DEF First
  <2> QED BY <1>2, <2>2
<1>6. CASE j >= m
  <2>1. l < j /\ j - l < H /\ j - l < N /\ j - l < G /\ j - l \in Nat
    <3> HIDE DEF N, H, G
    <3> QED BY <1>0, <1>00, <1>3, <1>4, <1>6
  <2>2. ~TsnAtOrBefore(y, cum)
    <3>1. ~TsnAtOrBefore(TsnAdd(I, j), TsnAdd(I, l))
      <4> HIDE DEF l
      <4> QED BY <1>3, <2>1, PlacesNotBack
    <3> QED BY <1>1, <1>2, <3>1
  <2>3. (y - cum) % N = j - l
    <3>1. (TsnAdd(I, j) - TsnAdd(I, l)) % N = j - l
      <4> HIDE DEF l
      <4> QED BY <1>3, <2>1, PlacesApart
    <3> QED BY <1>1, <1>2, <3>1
  <2>4. (j - l) % G = j - l
    <3> DEFINE d == j - l
    <3>1. d \in Nat /\ d < G
      BY <2>1
    <3> HIDE DEF d, G
    <3>2. d % G = d
      BY <1>0, <3>1
    <3> QED BY <3>2 DEF d
  <2>5. j - l \in p.gaps
    BY <2>2, <2>3, <2>4 DEF AckTsn
  <2>6. n - m < G /\ (m - 1) + (j - l) = j
    <3> HIDE DEF G
    <3> QED BY <1>0, <1>3, <1>4
  <2>7. TsnAdd(I, (m - 1) + (j - l)) \in rc
    BY <1>2, <2>5, <2>6
  <2> QED BY <1>1, <2>6, <2>7
<1> QED BY <1>5, <1>6

\* Offsets that fit are acknowledged as they are: the blocks fill no gap.
LEMMA GapsExact ==
    ASSUME NEW full, \A d \in full : d \in Nat /\ d < GapCount
    PROVE  GapOffsets(full) \subseteq full
<1> DEFINE G == GapCount
<1>1. G \in Nat /\ G > 0
  BY SctpAssumption
<1>2. ASSUME NEW g \in GapOffsets(full) PROVE g \in full
  <2>1. PICK a \in full, b \in full :
          /\ g \in (a % G)..(b % G) /\ a <= b
          /\ \A c \in full : a <= c /\ c < b =>
                \E d \in full : c < d /\ d % G = (c + 1) % G
    <3> DEFINE Joined(p, o) == /\ p < o /\ \A q \in full : ~(p < q /\ q < o)
                               /\ o % GapCount = (p + 1) % GapCount
               IsBlock(a, b) == /\ a <= b
                                /\ \A c \in full : a <= c /\ c < b => \E d \in full : Joined(c, d)
                                /\ \A c \in full : ~Joined(c, a) /\ ~Joined(b, c)
               Covered(a, b) == IF IsBlock(a, b) THEN (a % GapCount)..(b % GapCount) ELSE {}
    <3>1. g \in UNION {Covered(a, b) : a \in full, b \in full}
      BY <1>2 DEF GapOffsets
    <3>2. PICK a \in full, b \in full : g \in Covered(a, b)
      <4> HIDE DEF Covered
      <4> QED BY <3>1
    <3>3. IsBlock(a, b) /\ g \in (a % G)..(b % G)
      <4> HIDE DEF IsBlock
      <4> QED BY <3>2
    <3>4. \A c \in full : a <= c /\ c < b => \E d \in full : Joined(c, d)
      <4> HIDE DEF Joined
      <4> QED BY <3>3
    <3>5. \A c \in full : a <= c /\ c < b => \E d \in full : c < d /\ d % G = (c + 1) % G
      BY <3>4
    <3> QED BY <3>3, <3>5
  <2> HIDE DEF G
  <2>2. a \in Nat /\ b \in Nat /\ a % G = a /\ b % G = b /\ g \in a..b
    <3>1. a \in Nat /\ b \in Nat /\ a < G /\ b < G
      BY DEF G
    <3>2. a % G = a /\ b % G = b
      BY <1>1, <3>1
    <3> QED BY <2>1, <3>1, <3>2
  <2> DEFINE T == {k \in Nat : a + k <= b => a + k \in full}
  <2>3. 0 \in T
    BY <2>2
  <2>4. ASSUME NEW k \in Nat, k \in T PROVE k + 1 \in T
    <3>1. SUFFICES ASSUME a + (k + 1) <= b PROVE a + (k + 1) \in full
      OBVIOUS
    <3> DEFINE c == a + k
    <3>2. c \in full /\ a <= c /\ c < b /\ c \in Nat /\ a + (k + 1) = c + 1
      BY <2>2, <2>4, <3>1
    <3> HIDE DEF c
    <3>3. PICK d \in full : c < d /\ d % G = (c + 1) % G
      BY <2>1, <3>2
    <3>4. d \in Nat /\ d < G
      BY DEF G
    <3>5. d % G = d /\ (c + 1) % G = c + 1
      <4>1. c + 1 \in Nat /\ c + 1 < G
        BY <1>1, <3>2, <3>3, <3>4
      <4> QED BY <1>1, <3>4, <4>1
    <3> QED BY <3>2, <3>3, <3>5
  <2>5. Nat \subseteq T
    <3> HIDE DEF T
    <3> QED BY <2>3, <2>4, NatSetInduction
  <2>6. g - a \in Nat /\ a + (g - a) = g /\ g <= b
    BY <2>2
  <2>7. g - a \in T
    BY <2>5, <2>6
  <2> QED BY <2>6, <2>7
<1> QED BY <1>2

\* The gap blocks of a SACK are what the session remembers.
LEMMA SackIsTrue ==
    ASSUME NEW e, NEW x \in Endpoints, NEW s, NEW n \in 0..(TsnCount - 1), NEW rc,
           UpTo(x, s.mPeerCumulativeTsn, s.mPeerOutOfOrderTsns, n, rc),
           s.mPeerOutOfOrderTsns \subseteq rc \cap First(x, n)
    PROVE  SackTrue(x, Sack(e, s).cumTsn, Sack(e, s).gaps, n, rc)
<1> DEFINE cum == s.mPeerCumulativeTsn
           ooo == s.mPeerOutOfOrderTsns
           full == {(t - cum) % TsnCount : t \in ooo}
           gaps == GapOffsets(full)
           N == TsnCount
           G == GapCount
           I == InitialTsn[x]
<1>1. Sack(e, s).cumTsn = cum /\ Sack(e, s).gaps = gaps
  BY DEF Sack
<1>2. N \in Nat /\ N > 0 /\ I \in Int /\ G \in Nat /\ G > 0 /\ n \in 0..(N - 1)
  BY Circle, InitialIs, SctpAssumption
<1>3. PICK m \in 0..n : /\ cum = TsnAdd(I, m - 1)
                        /\ First(x, m) \subseteq rc /\ ooo \cap First(x, m) = {}
  BY DEF UpTo
<1> HIDE DEF gaps, cum, ooo
<1>4. ASSUME n - m < G, NEW d \in gaps PROVE d \in Nat /\ TsnAdd(I, (m - 1) + d) \in rc
  <2>1. ASSUME NEW t \in ooo
        PROVE  \E l \in Nat : /\ l < G /\ (t - cum) % N = l
                              /\ TsnAdd(I, (m - 1) + l) = t /\ t \in rc
    <3>1. t \in rc /\ t \in First(x, n) /\ t \notin First(x, m)
      BY <1>3, <2>1 DEF ooo
    <3>2. PICK j \in 0..(n - 1) : t = TsnAdd(I, j)
      BY <3>1 DEF First
    <3>3. j >= m
      <4>1. ASSUME j < m PROVE FALSE
        <5>1. j \in 0..(m - 1)
          BY <4>1
        <5> QED BY <3>1, <3>2, <5>1 DEF First
      <4> QED BY <4>1
    <3> DEFINE k == m - 1
               l == j - k
    <3>4. /\ k \in Int /\ j \in Int /\ k <= j /\ j - k < N
          /\ l \in Nat /\ l < G /\ k + l = j
      <4> HIDE DEF N, G, I
      <4> QED BY <1>2, <1>4, <3>3
    <3>5. (TsnAdd(I, j) - TsnAdd(I, k)) % N = l
      <4> HIDE DEF k
      <4> QED BY <3>4, PlacesApart
    <3>6. (t - cum) % N = l
      BY <1>3, <3>2, <3>5
    <3> HIDE DEF l
    <3>7. TsnAdd(I, (m - 1) + l) = t
      BY <3>2, <3>4
    <3> QED BY <3>1, <3>4, <3>6, <3>7
  <2> HIDE DEF I, N, G
  <2>2. \A g \in full : g \in Nat /\ g < G
    BY <2>1 DEF N
  <2>3. d \in full
    <3> HIDE DEF full
    <3>1. gaps \subseteq full
      BY <2>2, GapsExact DEF gaps, G
    <3> QED BY <1>4, <3>1
  <2>4. PICK t \in ooo : d = (t - cum) % N
    BY <2>3 DEF N
  <2> QED BY <2>1, <2>4
<1>5. SackTrue(x, cum, gaps, n, rc)
  BY <1>3, <1>4 DEF SackTrue
<1> QED BY <1>1, <1>5

\* The consecutive TSNs after tsn that arrived before it.
RunAfter(ooo, tsn) ==
    {n \in 1..Cardinality(ooo) : \A i \in 1..n : TsnAdd(tsn, i) \in ooo}

\* The first n TSNs are different, and finitely many.
LEMMA FirstIs ==
    ASSUME NEW x \in Endpoints, NEW n \in 0..(TsnCount - 1)
    PROVE  /\ IsFiniteSet(First(x, n))
           /\ \A j \in 0..n : TsnAdd(InitialTsn[x], j) \in First(x, n) => j < n
<1> DEFINE I == InitialTsn[x]
           N == TsnCount
<1>1. I \in Int /\ N \in Nat /\ N > 1 /\ n \in 0..(N - 1)
  BY InitialIs, Circle
<1>2. First(x, n) \subseteq 0..(N - 1)
  <2> HIDE DEF I, N
  <2>1. ASSUME NEW y \in First(x, n) PROVE y \in 0..(N - 1)
    <3>1. PICK j \in 0..(n - 1) : y = TsnAdd(I, j)
      BY DEF First, I
    <3>2. j \in Int
      BY <1>1
    <3> QED BY <1>1, <3>1, <3>2, AddIs DEF N
  <2> QED BY <2>1
<1>3. IsFiniteSet(First(x, n))
  <2> HIDE DEF N
  <2>1. 0 \in Int /\ N - 1 \in Int
    BY <1>1
  <2>2. IsFiniteSet(0..(N - 1))
    BY <2>1, FS_Interval
  <2> QED BY <1>2, <2>2, FS_Subset
<1>4. ASSUME NEW j \in 0..n, TsnAdd(I, j) \in First(x, n) PROVE j < n
  <2>1. PICK l \in 0..(n - 1) : TsnAdd(I, j) = TsnAdd(I, l)
    BY <1>4 DEF First
  <2> HIDE DEF I, N
  <2>2. j \in Int /\ l \in Int /\ j - l < N /\ l - j < N
    BY <1>1
  <2>3. j = l
    BY <1>1, <2>1, <2>2, AddInjective DEF N
  <2> QED BY <1>1, <2>3
<1> QED BY <1>3, <1>4

\* The run has no holes.
LEMMA RunIs ==
    ASSUME NEW ooo, NEW tsn, IsFiniteSet(ooo)
    PROVE  /\ Cardinality(RunAfter(ooo, tsn)) \in Nat
           /\ \A i \in 1..Cardinality(RunAfter(ooo, tsn)) :
                 TsnAdd(tsn, i) \in ooo /\ i \in RunAfter(ooo, tsn)
<1> DEFINE run == RunAfter(ooo, tsn)
           N == Cardinality(ooo)
           K == Cardinality(run)
<1>1. N \in Nat
  BY FS_CardinalityType
<1>2. run \subseteq 1..N
  BY DEF RunAfter
<1>3. \A b \in Nat : IsFiniteSet(1..b) /\ Cardinality(1..b) = b
  <2>1. ASSUME NEW b \in Nat PROVE IsFiniteSet(1..b) /\ Cardinality(1..b) = b
    <3>1. IsFiniteSet(1..b) /\ Cardinality(1..b) = IF 1 <= b THEN b - 1 + 1 ELSE 0
      BY FS_Interval
    <3>2. (IF 1 <= b THEN b - 1 + 1 ELSE 0) = b
      OBVIOUS
    <3> QED BY <3>1, <3>2
  <2> QED BY <2>1
<1>4. IsFiniteSet(run)
  <2> HIDE DEF run, N
  <2>1. IsFiniteSet(1..N)
    BY <1>1, <1>3
  <2> QED BY <1>2, <2>1, FS_Subset
<1>5. K \in Nat
  <2> HIDE DEF run
  <2> QED BY <1>4, FS_CardinalityType
<1>6. ASSUME NEW i \in 1..K PROVE TsnAdd(tsn, i) \in ooo /\ i \in RunAfter(ooo, tsn)
  <2>1. ASSUME i \notin run PROVE FALSE
    <3>1. run \subseteq 1..(i - 1)
      <4>1. ASSUME NEW n \in run PROVE n \in 1..(i - 1)
        <5>1. n \in 1..N /\ \A l \in 1..n : TsnAdd(tsn, l) \in ooo
          BY DEF RunAfter
        <5>2. ASSUME n >= i PROVE FALSE
          <6>1. i \in 1..N /\ \A l \in 1..i : l \in 1..n
            BY <1>1, <1>5, <5>1, <5>2
          <6>2. i \in run
            BY <5>1, <6>1 DEF RunAfter
          <6> QED BY <2>1, <6>2
        <5> HIDE DEF N, K
        <5> QED BY <1>1, <1>5, <5>1, <5>2
      <4> QED BY <4>1
    <3> DEFINE b == i - 1
    <3>2. b \in Nat
      <4> HIDE DEF K
      <4> QED BY <1>5
    <3>3. IsFiniteSet(1..b) /\ Cardinality(1..b) = b
      BY <1>3, <3>2
    <3>4. Cardinality(run) <= Cardinality(1..b)
      <4> HIDE DEF run, b
      <4> QED BY <3>1, <3>3, FS_Subset DEF b
    <3>5. K <= b
      BY <3>3, <3>4
    <3> HIDE DEF K
    <3> QED BY <1>5, <3>5
  <2>2. i \in RunAfter(ooo, tsn)
    BY <2>1
  <2>3. i \in 1..i
    <3> HIDE DEF K
    <3> QED BY <1>5
  <2> QED BY <2>2, <2>3 DEF RunAfter
<1> QED BY <1>5, <1>6

\* What is left out of order when the run after tsn is not any more.
WithoutRun(ooo, tsn) == ooo \ {TsnAdd(tsn, i) : i \in RunAfter(ooo, tsn)}

\* The cumulative TSN only advances over what has arrived, and all of it is forgotten.
LEMMA RecordAdvances ==
    ASSUME NEW x \in Endpoints, NEW n \in 0..(TsnCount - 1), NEW rc, NEW cum, NEW ooo, NEW tsn,
           UpTo(x, cum, ooo, n, rc), ooo \subseteq rc \cap First(x, n), tsn \in First(x, n),
           tsn = TsnAdd(cum, 1), tsn \notin ooo
    PROVE  UpTo(x, TsnAdd(tsn, Cardinality(RunAfter(ooo, tsn))), WithoutRun(ooo, tsn), n,
                rc \cup {tsn})
<1> DEFINE I == InitialTsn[x]
           N == TsnCount
           K == Cardinality(RunAfter(ooo, tsn))
<1>1. I \in Int /\ N \in Nat /\ N > 1 /\ n \in 0..(N - 1)
  BY InitialIs, Circle
<1>2. PICK m \in 0..n : /\ cum = TsnAdd(I, m - 1)
                        /\ First(x, m) \subseteq rc /\ ooo \cap First(x, m) = {}
  BY DEF UpTo
<1>3. IsFiniteSet(ooo)
  <2>1. IsFiniteSet(First(x, n)) /\ ooo \subseteq First(x, n)
    BY FirstIs
  <2> QED BY <2>1, FS_Subset
<1>4. K \in Nat /\ \A i \in 1..K : TsnAdd(tsn, i) \in ooo /\ i \in RunAfter(ooo, tsn)
  BY <1>3, RunIs
<1> HIDE DEF I, N, K
<1>5. tsn = TsnAdd(I, m) /\ m \in Int
  <2>1. m - 1 \in Int /\ (m - 1) + 1 = m /\ m \in Int
    BY <1>1
  <2>2. TsnAdd(TsnAdd(I, m - 1), 1) = TsnAdd(I, (m - 1) + 1)
    BY <1>1, <2>1, AddAdd
  <2> QED BY <1>2, <2>1, <2>2
<1>6. m < n
  BY <1>2, <1>5, FirstIs DEF I
<1>7. ASSUME NEW i \in Nat PROVE TsnAdd(tsn, i) = TsnAdd(I, m + i)
  <2>1. TsnAdd(TsnAdd(I, m), i) = TsnAdd(I, m + i)
    BY <1>1, <1>5, AddAdd
  <2> QED BY <1>5, <2>1
<1>8. m + K < n
  <2>1. ASSUME m + K >= n PROVE FALSE
    <3>1. n - m \in 1..K /\ n - m \in Nat /\ m + (n - m) = n /\ n \in 0..n
      BY <1>1, <1>4, <1>5, <1>6, <2>1
    <3>2. TsnAdd(tsn, n - m) = TsnAdd(I, n)
      BY <1>7, <3>1
    <3>3. TsnAdd(I, n) \in First(x, n)
      BY <1>4, <3>1, <3>2
    <3>4. n < n
      BY <3>1, <3>3, FirstIs DEF I
    <3> QED BY <1>1, <3>4
  <2> QED BY <1>1, <1>4, <1>5, <2>1
<1> DEFINE l == (m + K) + 1
<1>9. l \in 0..n /\ l - 1 = m + K
  BY <1>1, <1>4, <1>5, <1>6, <1>8
<1>10. TsnAdd(tsn, K) = TsnAdd(I, l - 1)
  BY <1>4, <1>7, <1>9
<1>11. ASSUME NEW y \in First(x, l) PROVE y \in rc \cup {tsn} /\ y \notin WithoutRun(ooo, tsn)
  <2>1. PICK j \in 0..(l - 1) : y = TsnAdd(I, j)
    BY DEF First, I
  <2>2. CASE j < m
    <3>1. j \in 0..(m - 1)
      BY <1>5, <1>9, <2>2
    <3>2. y \in First(x, m)
      BY <2>1, <3>1 DEF First, I
    <3> QED BY <1>2, <3>2 DEF WithoutRun
  <2>3. CASE j = m
    BY <1>5, <2>1, <2>3 DEF WithoutRun
  <2>4. CASE j > m
    <3>1. j - m \in 1..K /\ j - m \in Nat /\ m + (j - m) = j
      BY <1>4, <1>5, <1>9, <2>4
    <3>2. /\ TsnAdd(tsn, j - m) = y /\ TsnAdd(tsn, j - m) \in ooo
          /\ j - m \in RunAfter(ooo, tsn)
      BY <1>4, <1>7, <2>1, <3>1
    <3> QED BY <3>2 DEF WithoutRun
  <2> QED BY <1>5, <1>9, <2>2, <2>3, <2>4
<1> HIDE DEF l
<1>12. UpTo(x, TsnAdd(tsn, K), WithoutRun(ooo, tsn), n, rc \cup {tsn})
  BY <1>9, <1>10, <1>11 DEF UpTo, I
<1> QED BY <1>12 DEF K

\* Receiving a TSN of x.
LEMMA RecordKeeps ==
    ASSUME NEW x \in Endpoints, NEW n \in 0..(TsnCount - 1), NEW rc, NEW s, NEW tsn,
           DOMAIN s = Fields, UpTo(x, s.mPeerCumulativeTsn, s.mPeerOutOfOrderTsns, n, rc),
           s.mPeerOutOfOrderTsns \subseteq rc \cap First(x, n), tsn \in First(x, n),
           ~isDuplicate(s, tsn), n < Half
    PROVE  /\ UpTo(x, RecordTsn(s, tsn).mPeerCumulativeTsn,
                   RecordTsn(s, tsn).mPeerOutOfOrderTsns, n, rc \cup {tsn})
           /\ RecordTsn(s, tsn).mPeerOutOfOrderTsns \subseteq (rc \cup {tsn}) \cap First(x, n)
<1> DEFINE t == RecordTsn(s, tsn)
           cum == s.mPeerCumulativeTsn
           ooo == s.mPeerOutOfOrderTsns
           run == RunAfter(ooo, tsn)
           all == ooo \cup {tsn}
           lowest == CHOOSE y \in all : \A u \in all : y <= u
           c1 == TsnAdd(tsn, Cardinality(run))
           o1 == ooo \ {TsnAdd(tsn, i) : i \in run}
           o2 == IF Cardinality(all) > OutOfOrderCap THEN all \ {lowest} ELSE all
<1>1. t = IF tsn = TsnAdd(cum, 1)
          THEN [s EXCEPT !.mPeerCumulativeTsn = c1, !.mPeerOutOfOrderTsns = o1]
          ELSE [s EXCEPT !.mPeerOutOfOrderTsns = o2]
  BY DEF RecordTsn, RunAfter
<1>2. o1 \subseteq ooo /\ o2 \subseteq ooo \cup {tsn}
  OBVIOUS
<1>3. ASSUME tsn = TsnAdd(cum, 1) PROVE UpTo(x, c1, o1, n, rc \cup {tsn})
  <2> DEFINE a == cum
             b == ooo
  <2>1. /\ UpTo(x, a, b, n, rc) /\ b \subseteq rc \cap First(x, n) /\ tsn = TsnAdd(a, 1)
        /\ tsn \notin b
    BY <1>3 DEF isDuplicate
  <2>2. o1 = WithoutRun(b, tsn) /\ c1 = TsnAdd(tsn, Cardinality(RunAfter(b, tsn)))
    BY DEF WithoutRun
  <2> HIDE DEF a, b, o1, c1
  <2>3. UpTo(x, TsnAdd(tsn, Cardinality(RunAfter(b, tsn))), WithoutRun(b, tsn), n, rc \cup {tsn})
    BY <2>1, RecordAdvances
  <2> QED BY <2>2, <2>3
<1>4. UpTo(x, cum, o2, n, rc \cup {tsn})
  <2> DEFINE I == InitialTsn[x]
  <2>1. PICK m \in 0..n : /\ cum = TsnAdd(I, m - 1)
                          /\ First(x, m) \subseteq rc /\ ooo \cap First(x, m) = {}
    BY DEF UpTo
  <2>2. ASSUME tsn \in First(x, m) PROVE FALSE
    <3>1. PICK j \in 0..(m - 1) : tsn = TsnAdd(I, j)
      BY <2>2 DEF First
    <3> DEFINE l == m - 1
    <3>2. j \in Int /\ l \in Int /\ j <= l /\ l - j < Half
      <4>1. Half \in Nat /\ n < Half /\ n \in Nat
        BY HalfFacts
      <4> QED BY <4>1
    <3>3. TsnAtOrBefore(TsnAdd(I, j), TsnAdd(I, l))
      <4> HIDE DEF l
      <4> QED BY <3>2, PlacesInOrder
    <3> QED BY <2>1, <3>1, <3>3 DEF isDuplicate
  <2>3. o2 \cap First(x, m) = {}
    <3> HIDE DEF o2
    <3> QED BY <1>2, <2>1, <2>2
  <2> HIDE DEF o2
  <2>4. First(x, m) \subseteq rc \cup {tsn}
    BY <2>1
  <2> QED BY <2>1, <2>3, <2>4 DEF UpTo
<1> HIDE DEF t, c1, o1, o2
<1>5. CASE tsn = TsnAdd(cum, 1)
  <2>1. t = [s EXCEPT !.mPeerCumulativeTsn = c1, !.mPeerOutOfOrderTsns = o1]
    BY <1>1, <1>5
  <2>2. /\ t.mPeerCumulativeTsn = c1 /\ t.mPeerOutOfOrderTsns = o1
    BY <2>1 DEF Fields
  <2>3. t.mPeerOutOfOrderTsns \subseteq (rc \cup {tsn}) \cap First(x, n)
    BY <1>2, <2>2
  <2>4. UpTo(x, t.mPeerCumulativeTsn, t.mPeerOutOfOrderTsns, n, rc \cup {tsn})
    BY <1>3, <1>5, <2>2
  <2> QED BY <2>3, <2>4 DEF t
<1>6. CASE tsn # TsnAdd(cum, 1)
  <2>1. t = [s EXCEPT !.mPeerOutOfOrderTsns = o2]
    BY <1>1, <1>6
  <2>2. /\ t.mPeerCumulativeTsn = cum /\ t.mPeerOutOfOrderTsns = o2
    BY <2>1 DEF Fields
  <2>3. t.mPeerOutOfOrderTsns \subseteq (rc \cup {tsn}) \cap First(x, n)
    BY <1>2, <2>2
  <2>4. UpTo(x, t.mPeerCumulativeTsn, t.mPeerOutOfOrderTsns, n, rc \cup {tsn})
    BY <1>4, <2>2
  <2> QED BY <2>3, <2>4 DEF t
<1> QED BY <1>5, <1>6
-----------------------------------------------------------------------------
\* The steps of one endpoint, as the sender x of a pair and as its receiver.

\* x's session s becomes t, k TSNs are given out and those in G acknowledged.
SenderMove(x, s, t, out, nt, rc, k, G) ==
    /\ k \in Nat /\ k <= Half /\ G \subseteq rc
    /\ t.mCurrentTsn = TsnAdd(s.mCurrentTsn, k)
    /\ TsnsIn(t.mSentChunks) = (TsnsIn(s.mSentChunks) \ G) \cup New(s.mCurrentTsn, k)
    /\ \A p \in out :
          /\ p.to = Peer(x)
          /\ p.type = "DATA" =>
                /\ p.tag = s.mPeerTag
                /\ p.chunk.tsn \in TsnsIn(s.mSentChunks) \cup New(s.mCurrentTsn, k)
    /\ \/ t.mPeerTag = s.mPeerTag
       \/ t.mPeerTag = Peer(x) /\ \E p \in nt : p.type = "INIT_ACK" /\ p.to = x

\* The session r of x's peer becomes t; s is x's own.
ReceiverMove(x, s, r, t, out, rc) ==
    /\ t.mPeerOutOfOrderTsns \subseteq rc \cap First(x, Issued(x, s))
    /\ \/ /\ t.mPeerCumulativeTsn = r.mPeerCumulativeTsn
          /\ t.mPeerOutOfOrderTsns = r.mPeerOutOfOrderTsns
       \/ UpTo(x, t.mPeerCumulativeTsn, t.mPeerOutOfOrderTsns, Issued(x, s), rc)
    /\ \A p \in out :
          /\ p.to = x
          /\ p.type = "INIT_ACK" =>
                UpTo(x, t.mPeerCumulativeTsn, t.mPeerOutOfOrderTsns, Issued(x, s), rc)
          /\ p.type = "SACK" => SackTrue(x, p.cumTsn, p.gaps, Issued(x, s), rc)

\* There are two endpoints.
LEMMA PeerIs ==
    ASSUME NEW x \in Endpoints
    PROVE  Peer(x) \in Endpoints /\ Peer(x) # x /\ Peer(Peer(x)) = x /\ None # x
           /\ \A y \in Endpoints : y = x \/ y = Peer(x)
BY SctpAssumption DEF Peer, Endpoints

\* More TSNs given out, or more of them received.
LEMMA UpToMore ==
    ASSUME NEW x, NEW cum, NEW ooo, NEW n \in Nat, NEW m \in Nat, n <= m,
           NEW rc, NEW rd, rc \subseteq rd
    PROVE  UpTo(x, cum, ooo, n, rc) => UpTo(x, cum, ooo, m, rd)
<1> SUFFICES ASSUME UpTo(x, cum, ooo, n, rc) PROVE UpTo(x, cum, ooo, m, rd)
  OBVIOUS
<1>1. PICK i \in 0..n : /\ cum = TsnAdd(InitialTsn[x], i - 1)
                        /\ First(x, i) \subseteq rc /\ ooo \cap First(x, i) = {}
  BY DEF UpTo
<1>2. i \in 0..m /\ First(x, i) \subseteq rd
  BY <1>1
<1> QED BY <1>1, <1>2 DEF UpTo

LEMMA SackTrueMore ==
    ASSUME NEW x, NEW cum, NEW gaps, NEW n \in Nat, NEW m \in Nat, n <= m,
           NEW rc, NEW rd, rc \subseteq rd
    PROVE  SackTrue(x, cum, gaps, n, rc) => SackTrue(x, cum, gaps, m, rd)
<1> SUFFICES ASSUME SackTrue(x, cum, gaps, n, rc) PROVE SackTrue(x, cum, gaps, m, rd)
  OBVIOUS
<1>1. PICK i \in 0..n :
        /\ cum = TsnAdd(InitialTsn[x], i - 1) /\ First(x, i) \subseteq rc
        /\ n - i < GapCount =>
              \A d \in gaps : d \in Nat /\ TsnAdd(InitialTsn[x], (i - 1) + d) \in rc
  BY DEF SackTrue
<1>2. i \in 0..m /\ First(x, i) \subseteq rd
  BY <1>1
<1>3. ASSUME m - i < GapCount PROVE n - i < GapCount
  <2>1. GapCount \in Nat
    BY SctpAssumption
  <2> QED BY <1>3, <2>1
<1>4. m - i < GapCount =>
        \A d \in gaps : d \in Nat /\ TsnAdd(InitialTsn[x], (i - 1) + d) \in rd
  BY <1>1, <1>3
<1> QED BY <1>1, <1>2, <1>4 DEF SackTrue

\* A step of the sender keeps the pair right.
LEMMA SenderStep ==
    ASSUME NEW x \in Endpoints, NEW s, NEW r, NEW nt, NEW rc, NEW t, NEW out, NEW k, NEW G, NEW nu,
           PairInv(x, s, r, nt, rc), s.mState # "Destroyed", Issued(x, s) < Half,
           SenderMove(x, s, t, out, nt, rc, k, G), nu \subseteq nt \cup out
    PROVE  PairInv(x, t, r, nu, rc)
<1> DEFINE n == Issued(x, s)
           m == Issued(x, t)
           y == Peer(x)
           c == s.mCurrentTsn
           F == First(x, n)
           E == First(x, m)
<1>1. y # x
  BY PeerIs
<1>2. SenderInv(x, s, rc) /\ (\A p \in nt : PacketInv(x, s, p, rc))
      /\ (r.mState # "Destroyed" => ReceiverInv(x, s, r, nt, rc))
  BY DEF PairInv
<1>3. k \in Nat /\ k <= Half /\ t.mCurrentTsn = TsnAdd(c, k) /\ c \in 0..(TsnCount - 1)
  BY <1>2 DEF SenderMove, SenderInv
<1>4. n \in Nat /\ n + k < TsnCount
  <2>1. n \in 0..(TsnCount - 1)
    BY <1>3, CurrentIs
  <2>2. n < Half /\ Half \in Nat /\ Half + Half <= TsnCount /\ TsnCount \in Nat
    BY HalfFacts, Circle
  <2> HIDE DEF n
  <2> QED BY <1>3, <2>1, <2>2
<1>5. t.mCurrentTsn \in 0..(TsnCount - 1) /\ m = n + k /\ E = F \cup New(c, k)
  BY <1>3, <1>4, IssueMore
<1>6. m \in Nat /\ n <= m
  <2> HIDE DEF n, m
  <2> QED BY <1>3, <1>4, <1>5
<1>7. s.mPeerTag \in {None, y} /\ t.mPeerTag \in {None, y}
      /\ (s.mPeerTag = y => t.mPeerTag = y)
  BY <1>2 DEF SenderInv, SenderMove
<1>8. SenderInv(x, t, rc)
  <2>1. TsnsIn(s.mSentChunks) \subseteq F /\ F \ TsnsIn(s.mSentChunks) \subseteq rc
    BY <1>2 DEF SenderInv
  <2>2. TsnsIn(t.mSentChunks) = (TsnsIn(s.mSentChunks) \ G) \cup New(c, k) /\ G \subseteq rc
    BY DEF SenderMove
  <2> HIDE DEF F, E, c
  <2>3. TsnsIn(t.mSentChunks) \subseteq E /\ E \ TsnsIn(t.mSentChunks) \subseteq rc
    BY <1>5, <2>1, <2>2
  <2> QED BY <1>5, <1>7, <2>3 DEF SenderInv, E
<1>9. ASSUME NEW p \in nu PROVE PacketInv(x, t, p, rc)
  <2>1. CASE p \in nt
    <3>1. PacketInv(x, s, p, rc)
      BY <1>2, <2>1
    <3>2. ASSUME p.type = "DATA", p.to = y
          PROVE  p.chunk.tsn \in E /\ (p.tag = y => t.mPeerTag = y)
      <4>1. p.chunk.tsn \in F /\ (p.tag = y => s.mPeerTag = y)
        BY <3>1, <3>2 DEF PacketInv
      <4> HIDE DEF E, F, y
      <4> QED BY <1>5, <1>7, <4>1
    <3>3. ASSUME p.type = "SACK", p.to = x PROVE SackTrue(x, p.cumTsn, p.gaps, m, rc)
      <4>1. SackTrue(x, p.cumTsn, p.gaps, n, rc)
        BY <3>1, <3>3 DEF PacketInv
      <4> HIDE DEF n, m
      <4> QED BY <1>4, <1>6, <4>1, SackTrueMore
    <3> QED BY <3>2, <3>3 DEF PacketInv
  <2>2. CASE p \in out
    <3>1. /\ p.to = y
          /\ p.type = "DATA" => p.tag = s.mPeerTag
                                /\ p.chunk.tsn \in TsnsIn(s.mSentChunks) \cup New(c, k)
      BY <2>2 DEF SenderMove
    <3>2. TsnsIn(s.mSentChunks) \subseteq F
      BY <1>2 DEF SenderInv
    <3>3. p.type = "DATA" => p.chunk.tsn \in E /\ (p.tag = y => t.mPeerTag = y)
      <4> HIDE DEF E, F, y, c
      <4> QED BY <1>5, <1>7, <3>1, <3>2
    <3> QED BY <1>1, <3>1, <3>3 DEF PacketInv
  <2> QED BY <2>1, <2>2
<1>10. ASSUME r.mState # "Destroyed" PROVE ReceiverInv(x, t, r, nu, rc)
  <2>1. /\ r.mPeerOutOfOrderTsns \subseteq rc \cap F
        /\ Met(x, s, nt) => UpTo(x, r.mPeerCumulativeTsn, r.mPeerOutOfOrderTsns, n, rc)
    BY <1>2, <1>10 DEF ReceiverInv
  <2>2. Met(x, t, nu) => Met(x, s, nt)
    <3>1. ASSUME NEW p \in nu, p.type = "INIT_ACK", p.to = x PROVE Met(x, s, nt)
      <4>1. p \notin out
        BY <1>1, <3>1 DEF SenderMove
      <4> QED BY <3>1, <4>1 DEF Met
    <3>2. t.mPeerTag = y => Met(x, s, nt)
      BY DEF SenderMove, Met
    <3> QED BY <3>1, <3>2 DEF Met
  <2>3. UpTo(x, r.mPeerCumulativeTsn, r.mPeerOutOfOrderTsns, n, rc)
           => UpTo(x, r.mPeerCumulativeTsn, r.mPeerOutOfOrderTsns, m, rc)
    <3> HIDE DEF n, m
    <3> QED BY <1>4, <1>6, UpToMore
  <2>4. r.mPeerOutOfOrderTsns \subseteq rc \cap E
    <3> HIDE DEF E, F
    <3> QED BY <1>5, <2>1
  <2> QED BY <2>1, <2>2, <2>3, <2>4 DEF ReceiverInv
<1> QED BY <1>8, <1>9, <1>10 DEF PairInv

\* A step of the receiver keeps the pair right.
LEMMA ReceiverStep ==
    ASSUME NEW x \in Endpoints, NEW s, NEW r, NEW nt, NEW rc, NEW t, NEW out, NEW nu, NEW rd,
           PairInv(x, s, r, nt, rc), rc \subseteq rd, nu \subseteq nt \cup out,
           t.mState # "Destroyed" => r.mState # "Destroyed",
           s.mState # "Destroyed" => ReceiverMove(x, s, r, t, out, rd)
    PROVE  PairInv(x, s, t, nu, rd)
<1>0. SUFFICES ASSUME s.mState # "Destroyed"
               PROVE  /\ SenderInv(x, s, rd)
                      /\ \A p \in nu : PacketInv(x, s, p, rd)
                      /\ t.mState # "Destroyed" => ReceiverInv(x, s, t, nu, rd)
  BY DEF PairInv
<1> DEFINE n == Issued(x, s)
<1>1. Peer(x) # x
  BY PeerIs
<1>2. SenderInv(x, s, rc) /\ (\A p \in nt : PacketInv(x, s, p, rc))
      /\ (r.mState # "Destroyed" => ReceiverInv(x, s, r, nt, rc))
  BY <1>0 DEF PairInv
<1>3. ReceiverMove(x, s, r, t, out, rd)
  BY <1>0
<1>4. n \in Nat /\ n <= n
  <2>1. n \in 0..(TsnCount - 1)
    BY <1>2, CurrentIs DEF SenderInv
  <2> HIDE DEF n
  <2> QED BY <2>1
<1>5. SenderInv(x, s, rd)
  BY <1>2 DEF SenderInv
<1>6. ASSUME NEW p \in nu PROVE PacketInv(x, s, p, rd)
  <2>1. CASE p \in nt
    <3>1. PacketInv(x, s, p, rc)
      BY <1>2, <2>1
    <3>2. ASSUME p.type = "SACK", p.to = x PROVE SackTrue(x, p.cumTsn, p.gaps, n, rd)
      <4>1. SackTrue(x, p.cumTsn, p.gaps, n, rc)
        BY <3>1, <3>2 DEF PacketInv
      <4> HIDE DEF n
      <4> QED BY <1>4, <4>1, SackTrueMore
    <3> QED BY <3>1, <3>2 DEF PacketInv
  <2>2. CASE p \in out
    <3>1. p.to = x /\ (p.type = "SACK" => SackTrue(x, p.cumTsn, p.gaps, n, rd))
      BY <1>3, <2>2 DEF ReceiverMove
    <3> QED BY <1>1, <3>1 DEF PacketInv
  <2> QED BY <2>1, <2>2
<1>7. ASSUME t.mState # "Destroyed" PROVE ReceiverInv(x, s, t, nu, rd)
  <2>1. Met(x, s, nt) => UpTo(x, r.mPeerCumulativeTsn, r.mPeerOutOfOrderTsns, n, rc)
    BY <1>2, <1>7 DEF ReceiverInv
  <2>2. /\ t.mPeerOutOfOrderTsns \subseteq rd \cap First(x, n)
        /\ \/ /\ t.mPeerCumulativeTsn = r.mPeerCumulativeTsn
              /\ t.mPeerOutOfOrderTsns = r.mPeerOutOfOrderTsns
           \/ UpTo(x, t.mPeerCumulativeTsn, t.mPeerOutOfOrderTsns, n, rd)
        /\ \A p \in out : p.type = "INIT_ACK" =>
              UpTo(x, t.mPeerCumulativeTsn, t.mPeerOutOfOrderTsns, n, rd)
    BY <1>3 DEF ReceiverMove
  <2>3. ASSUME Met(x, s, nu)
        PROVE  UpTo(x, t.mPeerCumulativeTsn, t.mPeerOutOfOrderTsns, n, rd)
    <3>1. Met(x, s, nt) \/ \E p \in out : p.type = "INIT_ACK"
      BY <2>3 DEF Met
    <3>2. UpTo(x, r.mPeerCumulativeTsn, r.mPeerOutOfOrderTsns, n, rc)
             => UpTo(x, r.mPeerCumulativeTsn, r.mPeerOutOfOrderTsns, n, rd)
      <4> HIDE DEF n
      <4> QED BY <1>4, UpToMore
    <3> QED BY <2>1, <2>2, <3>1, <3>2
  <2> QED BY <2>2, <2>3 DEF ReceiverInv
<1> QED BY <1>5, <1>6, <1>7
-----------------------------------------------------------------------------
\* What each handler does to the two pairs.  e's session is s and its peer's r; rs is
\* what the peer has received of e, ro what e had received of the peer before the step
\* and rc after it.

Context(e, s, r, nt, rs, ro) ==
    /\ SessionInv(s) /\ s.mState # "Destroyed"
    /\ Issued(e, s) < Half /\ Len(s.mDataChannels) + (InitRwnd + 1) <= Half
    /\ r.mState # "Destroyed" => Issued(Peer(e), r) < Half
    /\ Addressed(nt)
    /\ PairInv(e, s, r, nt, rs) /\ PairInv(Peer(e), r, s, nt, ro)

Outcome(e, s, t, out, r, nt, rs, rc) ==
    /\ Addressed(out) /\ t.mState # "Destroyed"
    /\ \E k, G : SenderMove(e, s, t, out, nt, rs, k, G)
    /\ r.mState # "Destroyed" => ReceiverMove(Peer(e), r, s, t, out, rc)

\* Two sessions that agree on the peer and on the next TSN.
Same(s, t) ==
    /\ t.mPeerTag = s.mPeerTag /\ t.mCurrentTsn = s.mCurrentTsn
    /\ t.mPeerCumulativeTsn = s.mPeerCumulativeTsn
    /\ t.mPeerOutOfOrderTsns = s.mPeerOutOfOrderTsns

\* What the context gives.
LEMMA ContextIs ==
    ASSUME NEW e \in Endpoints, NEW s, NEW r, NEW nt, NEW rs, NEW ro, Context(e, s, r, nt, rs, ro)
    PROVE  /\ Accounts(s) /\ DOMAIN s = Fields /\ IsTsn(s.mCurrentTsn) /\ SenderInv(e, s, rs)
           /\ Issued(e, s) \in Nat
           /\ InitRwnd + 1 <= Half /\ Len(s.mDataChannels) <= Half
           /\ r.mState # "Destroyed" => /\ ReceiverInv(Peer(e), r, s, nt, ro)
                                        /\ Issued(Peer(e), r) \in 0..(TsnCount - 1)
<1>1. Accounts(s) /\ DOMAIN s = Fields /\ IsSeq(s.mDataChannels)
  BY DEF Context, SessionInv, Accounts
<1>2. SenderInv(e, s, rs)
  BY DEF Context, PairInv
<1>3. IsTsn(s.mCurrentTsn)
  BY <1>2 DEF SenderInv, IsTsn
<1>4. Issued(e, s) \in Nat
  <2>1. Issued(e, s) \in 0..(TsnCount - 1)
    BY <1>2, CurrentIs DEF SenderInv
  <2> QED BY <2>1
<1>5. InitRwnd + 1 <= Half /\ Len(s.mDataChannels) <= Half
  <2> DEFINE l == Len(s.mDataChannels)
  <2>1. l \in Nat /\ Half \in Nat /\ InitRwnd \in Nat
    BY <1>1, SeqIs, HalfFacts, SctpAssumption
  <2>2. l + (InitRwnd + 1) <= Half
    BY DEF Context
  <2> HIDE DEF l
  <2>3. InitRwnd + 1 <= Half /\ l <= Half
    BY <2>1, <2>2
  <2> QED BY <2>3 DEF l
<1>6. ASSUME r.mState # "Destroyed"
      PROVE  ReceiverInv(Peer(e), r, s, nt, ro) /\ Issued(Peer(e), r) \in 0..(TsnCount - 1)
  <2> DEFINE y == Peer(e)
  <2>1. y \in Endpoints
    BY PeerIs
  <2>2. ReceiverInv(y, r, s, nt, ro) /\ SenderInv(y, r, ro)
    BY <1>6 DEF Context, PairInv
  <2> HIDE DEF y
  <2>3. Issued(y, r) \in 0..(TsnCount - 1)
    BY <2>1, <2>2, CurrentIs DEF SenderInv
  <2> QED BY <2>2, <2>3 DEF y
<1> QED BY <1>1, <1>2, <1>3, <1>4, <1>5, <1>6

\* The receiver's side when only DATA or packets of the handshake are sent.
LEMMA HearsNothing ==
    ASSUME NEW e \in Endpoints, NEW s, NEW r, NEW nt, NEW rs, NEW ro, NEW rc, NEW t, NEW out,
           Context(e, s, r, nt, rs, ro), ro \subseteq rc, Same(s, t) \/ Kept(s, t),
           \A p \in out : p.to = Peer(e) /\ p.type \notin {"INIT_ACK", "SACK"},
           r.mState # "Destroyed"
    PROVE  ReceiverMove(Peer(e), r, s, t, out, rc)
<1>1. ReceiverInv(Peer(e), r, s, nt, ro)
  BY ContextIs
<1>2. t.mPeerCumulativeTsn = s.mPeerCumulativeTsn
      /\ t.mPeerOutOfOrderTsns = s.mPeerOutOfOrderTsns
  BY DEF Same, Kept
<1>3. t.mPeerOutOfOrderTsns \subseteq rc \cap First(Peer(e), Issued(Peer(e), r))
  BY <1>1, <1>2 DEF ReceiverInv
<1> QED BY <1>2, <1>3 DEF ReceiverMove

\* Nothing is acknowledged or given out; chunks may be sent again.
LEMMA QuietOutcome ==
    ASSUME NEW e \in Endpoints, NEW s, NEW r, NEW nt, NEW rs, NEW ro, NEW rc, NEW t, NEW out,
           Context(e, s, r, nt, rs, ro), ro \subseteq rc, Same(s, t),
           t.mSentChunks = s.mSentChunks, t.mState # "Destroyed",
           \A p \in out : /\ p.to = Peer(e) /\ p.type \notin {"INIT_ACK", "SACK"}
                          /\ p.type = "INIT" => p.from = e
                          /\ p.type = "DATA" => p.tag = s.mPeerTag
                                                /\ p.chunk.tsn \in TsnsIn(s.mSentChunks)
    PROVE  Outcome(e, s, t, out, r, nt, rs, rc)
<1> DEFINE c == s.mCurrentTsn
           q == s.mSentChunks
<1>1. IsTsn(c) /\ Half \in Nat
  BY ContextIs, HalfFacts
<1> HIDE DEF c
<1>2. TsnAdd(c, 0) = c
  BY <1>1, TsnIs
<1>3. New(c, 0) = {} /\ 0 \in Nat /\ 0 <= Half
  BY <1>1 DEF New
<1>4. t.mCurrentTsn = c /\ t.mPeerTag = s.mPeerTag /\ t.mSentChunks = q
  BY DEF Same, c
<1>5. TsnsIn(t.mSentChunks) = (TsnsIn(q) \ {}) \cup New(c, 0)
  BY <1>3, <1>4
<1>6. \A p \in out : p.to = Peer(e) /\ (p.type = "DATA" =>
                        p.tag = s.mPeerTag /\ p.chunk.tsn \in TsnsIn(q) \cup New(c, 0))
  OBVIOUS
<1>7. SenderMove(e, s, t, out, nt, rs, 0, {})
  BY <1>2, <1>3, <1>4, <1>5, <1>6 DEF SenderMove, c
<1>8. Addressed(out)
  BY PeerIs DEF Addressed
<1>9. r.mState # "Destroyed" => ReceiverMove(Peer(e), r, s, t, out, rc)
  BY HearsNothing
<1> QED BY <1>7, <1>8, <1>9 DEF Outcome

\* Chunks are acknowledged, then new ones sent.
LEMMA SentOutcome ==
    ASSUME NEW e \in Endpoints, NEW s, NEW r, NEW nt, NEW rs, NEW ro, NEW rc, NEW b, NEW t, NEW out,
           NEW k, NEW G, Context(e, s, r, nt, rs, ro), ro \subseteq rc, Same(s, b),
           b.mState # "Destroyed", G \subseteq rs,
           TsnsIn(b.mSentChunks) = TsnsIn(s.mSentChunks) \ G, Grew(e, b, t, out, k), k <= Half
    PROVE  Outcome(e, s, t, out, r, nt, rs, rc)
<1> DEFINE c == s.mCurrentTsn
           q == s.mSentChunks
<1>1. /\ k \in Nat /\ t.mCurrentTsn = TsnAdd(c, k)
      /\ TsnsIn(t.mSentChunks) = (TsnsIn(q) \ G) \cup New(c, k)
      /\ OnlyData(e, s.mPeerTag, New(c, k), out) /\ Kept(b, t)
  BY DEF Grew, Same
<1>2. Same(s, t) \/ Kept(s, t) \/ t.mPeerTag = s.mPeerTag
  BY <1>1 DEF Same, Kept
<1>3. /\ t.mPeerTag = s.mPeerTag /\ t.mState # "Destroyed"
      /\ t.mPeerCumulativeTsn = s.mPeerCumulativeTsn
      /\ t.mPeerOutOfOrderTsns = s.mPeerOutOfOrderTsns
  BY <1>1 DEF Same, Kept
<1>4. \A p \in out : /\ p.to = Peer(e) /\ p.type = "DATA" /\ p.tag = s.mPeerTag
                     /\ p.chunk.tsn \in TsnsIn(q) \cup New(c, k)
  BY <1>1 DEF OnlyData
<1>5. SenderMove(e, s, t, out, nt, rs, k, G)
  <2> HIDE DEF c, q
  <2>1. /\ t.mCurrentTsn = TsnAdd(s.mCurrentTsn, k)
        /\ TsnsIn(t.mSentChunks) = (TsnsIn(s.mSentChunks) \ G) \cup New(s.mCurrentTsn, k)
    BY <1>1 DEF c, q
  <2>2. \A p \in out : /\ p.to = Peer(e) /\ p.tag = s.mPeerTag
                       /\ p.chunk.tsn \in TsnsIn(s.mSentChunks) \cup New(s.mCurrentTsn, k)
    BY <1>4 DEF c, q
  <2> QED BY <1>1, <1>3, <2>1, <2>2 DEF SenderMove
<1>6. Addressed(out)
  BY <1>4 DEF Addressed
<1>7. ASSUME r.mState # "Destroyed" PROVE ReceiverMove(Peer(e), r, s, t, out, rc)
  <2>1. ReceiverInv(Peer(e), r, s, nt, ro)
    BY <1>7, ContextIs
  <2>2. t.mPeerOutOfOrderTsns \subseteq rc \cap First(Peer(e), Issued(Peer(e), r))
    BY <1>3, <2>1 DEF ReceiverInv
  <2> QED BY <1>3, <1>4, <2>2 DEF ReceiverMove
<1> QED BY <1>3, <1>5, <1>6, <1>7 DEF Outcome

\* New chunks are sent, none is acknowledged.
LEMMA GrownOutcome ==
    ASSUME NEW e \in Endpoints, NEW s, NEW r, NEW nt, NEW rs, NEW ro, NEW rc, NEW b, NEW t, NEW out,
           NEW k, Context(e, s, r, nt, rs, ro), ro \subseteq rc, Same(s, b),
           b.mState # "Destroyed", b.mSentChunks = s.mSentChunks, Grew(e, b, t, out, k), k <= Half
    PROVE  Outcome(e, s, t, out, r, nt, rs, rc)
<1> DEFINE G == {}
<1>1. G \subseteq rs /\ TsnsIn(b.mSentChunks) = TsnsIn(s.mSentChunks) \ G
  OBVIOUS
<1> HIDE DEF G
<1> QED BY <1>1, SentOutcome

\* Within the window is less than half of the circle.
LEMMA GrowsLittle ==
    ASSUME NEW e, NEW s, NEW t, NEW out, Grows(e, s, t, out), s.mFlightSize \in Nat
    PROVE  \E k : Grew(e, s, t, out, k) /\ k <= InitRwnd
<1>1. PICK k : Grew(e, s, t, out, k) /\ Windowed(s, t, k)
  BY DEF Grows
<1>2. k \in Nat /\ InitRwnd \in Nat
  BY <1>1, SctpAssumption DEF Grew
<1>3. k <= InitRwnd
  <2> DEFINE a == s.mFlightSize
  <2>1. a \in Nat /\ (k = 0 \/ a + k <= InitRwnd)
    BY <1>1 DEF Windowed
  <2> HIDE DEF a
  <2> QED BY <1>2, <2>1
<1> QED BY <1>1, <1>3

\* sendInit.
LEMMA SendInitOutcome ==
    ASSUME NEW e \in Endpoints, NEW s, NEW r, NEW nt, NEW rs, NEW ro, NEW n,
           Context(e, s, r, nt, rs, ro)
    PROVE  Outcome(e, s, sendInit(e, s, n)[1], sendInit(e, s, n)[2], r, nt, rs, ro)
<1> DEFINE h == sendInit(e, s, n)
           t == h[1]
           out == h[2]
           u == [s EXCEPT !.t1Init = Idle]
           v == [s EXCEPT !.mState = "CookieWait", !.t1Init = n + 1]
<1>1. (t = u /\ out = {}) \/ (t = v /\ out = {Init_(e)})
  BY DEF sendInit
<1>2. DOMAIN s = Fields /\ s.mState # "Destroyed"
  BY ContextIs DEF Context
<1>3. /\ Same(s, u) /\ u.mSentChunks = s.mSentChunks /\ u.mState = s.mState
      /\ Same(s, v) /\ v.mSentChunks = s.mSentChunks /\ v.mState = "CookieWait"
  BY <1>2 DEF Fields, Same
<1>4. \A p \in {Init_(e)} : p.to = Peer(e) /\ p.type = "INIT" /\ p.from = e
  BY DEF Init_
<1> HIDE DEF h, u, v
<1>5. Same(s, t) /\ t.mSentChunks = s.mSentChunks /\ t.mState # "Destroyed"
  BY <1>1, <1>2, <1>3
<1>6. \A p \in out : p.to = Peer(e) /\ p.type = "INIT" /\ p.from = e
  BY <1>1, <1>4
<1> HIDE DEF t, out
<1>7. Outcome(e, s, t, out, r, nt, rs, ro)
  BY <1>5, <1>6, QuietOutcome
<1> QED BY <1>7 DEF t, out, h

\* sendCookieEcho, whatever is known of the peer.
LEMMA CookieEchoSent ==
    ASSUME NEW e, NEW s, NEW n, DOMAIN s = Fields
    PROVE  /\ \A f \in Fields \ {"t1Cookie"} : sendCookieEcho(e, s, n)[1][f] = s[f]
           /\ \A p \in sendCookieEcho(e, s, n)[2] : p.to = Peer(e) /\ p.type = "COOKIE_ECHO"
<1> DEFINE h == sendCookieEcho(e, s, n)
           u == [s EXCEPT !.t1Cookie = Idle]
           v == [s EXCEPT !.t1Cookie = n + 1]
<1>1. (h[1] = u /\ h[2] = {}) \/ (h[1] = v /\ h[2] = {CookieEcho(e)})
  BY DEF sendCookieEcho
<1>2. \A f \in Fields \ {"t1Cookie"} : u[f] = s[f] /\ v[f] = s[f]
  BY DEF Fields
<1>3. \A p \in {CookieEcho(e)} : p.to = Peer(e) /\ p.type = "COOKIE_ECHO"
  BY DEF CookieEcho
<1> HIDE DEF h, u, v
<1> QED BY <1>1, <1>2, <1>3 DEF h

LEMMA CookieEchoOutcome ==
    ASSUME NEW e \in Endpoints, NEW s, NEW r, NEW nt, NEW rs, NEW ro, NEW n,
           Context(e, s, r, nt, rs, ro)
    PROVE  Outcome(e, s, sendCookieEcho(e, s, n)[1], sendCookieEcho(e, s, n)[2], r, nt, rs, ro)
<1> DEFINE t == sendCookieEcho(e, s, n)[1]
           out == sendCookieEcho(e, s, n)[2]
<1>1. DOMAIN s = Fields /\ s.mState # "Destroyed"
  BY ContextIs DEF Context
<1>2. /\ \A f \in Fields \ {"t1Cookie"} : t[f] = s[f]
      /\ \A p \in out : p.to = Peer(e) /\ p.type = "COOKIE_ECHO"
  BY <1>1, CookieEchoSent
<1> HIDE DEF t, out
<1>3. Same(s, t) /\ t.mSentChunks = s.mSentChunks /\ t.mState = s.mState
  BY <1>2 DEF Fields, Same
<1>4. Outcome(e, s, t, out, r, nt, rs, ro)
  BY <1>1, <1>2, <1>3, QuietOutcome
<1> QED BY <1>4 DEF t, out

\* A packet that changes nothing, and COOKIE_ECHO, which is answered.
LEMMA NothingOutcome ==
    ASSUME NEW e \in Endpoints, NEW s, NEW r, NEW nt, NEW rs, NEW ro, NEW rc,
           Context(e, s, r, nt, rs, ro), ro \subseteq rc
    PROVE  Outcome(e, s, s, {}, r, nt, rs, rc)
<1>1. Same(s, s) /\ s.mState # "Destroyed"
  BY DEF Same, Context
<1> QED BY <1>1, QuietOutcome

LEMMA CookieEchoArrives ==
    ASSUME NEW e \in Endpoints, NEW s, NEW r, NEW nt, NEW rs, NEW ro,
           Context(e, s, r, nt, rs, ro)
    PROVE  Outcome(e, s, onReceiveCookieEcho(e, s)[1], onReceiveCookieEcho(e, s)[2], r, nt, rs, ro)
<1> DEFINE out == {CookieAck(e, Peer(e))}
<1>1. onReceiveCookieEcho(e, s)[1] = s /\ onReceiveCookieEcho(e, s)[2] = out
  BY DEF onReceiveCookieEcho
<1>2. \A p \in out : p.to = Peer(e) /\ p.type = "COOKIE_ACK"
  BY DEF CookieAck
<1>3. Same(s, s) /\ s.mState # "Destroyed"
  BY DEF Same, Context
<1> HIDE DEF out
<1>4. Outcome(e, s, s, out, r, nt, rs, ro)
  BY <1>2, <1>3, QuietOutcome
<1> QED BY <1>1, <1>4

\* A stream that is reset.
LEMMA ReconfigOutcome ==
    ASSUME NEW e \in Endpoints, NEW s, NEW r, NEW nt, NEW rs, NEW ro, NEW stream,
           Context(e, s, r, nt, rs, ro)
    PROVE  Outcome(e, s, onReceiveReconfig(s, stream)[1], onReceiveReconfig(s, stream)[2],
                   r, nt, rs, ro)
<1> DEFINE i == ChannelByStream(s, stream)
           q == RemoveAt(s.mDataChannels, i)
           u == [s EXCEPT !.mDataChannels = q]
           h == onReceiveReconfig(s, stream)
           t == h[1]
<1>1. (t = s \/ t = u) /\ h[2] = {}
  BY DEF onReceiveReconfig
<1>2. DOMAIN s = Fields /\ s.mState # "Destroyed"
  BY ContextIs DEF Context
<1> HIDE DEF i, q, h
<1>3. /\ Same(s, u) /\ u.mSentChunks = s.mSentChunks /\ u.mState = s.mState
      /\ Same(s, s)
  BY <1>2 DEF Fields, Same
<1> HIDE DEF u
<1>4. Same(s, t) /\ t.mSentChunks = s.mSentChunks /\ t.mState # "Destroyed"
  BY <1>1, <1>2, <1>3
<1> HIDE DEF t
<1>5. Outcome(e, s, t, {}, r, nt, rs, ro)
  BY <1>4, QuietOutcome
<1> QED BY <1>1, <1>5 DEF t, h

\* retransmitOldest.
LEMMA RetransmitOutcome ==
    ASSUME NEW e \in Endpoints, NEW s, NEW r, NEW nt, NEW rs, NEW ro,
           Context(e, s, r, nt, rs, ro)
    PROVE  /\ s.mSentChunks = <<>> => Outcome(e, s, [s EXCEPT !.t3Rtx = FALSE], {}, r, nt, rs, ro)
           /\ s.mSentChunks # <<>> =>
                 Outcome(e, s, s, {Data(e, s, Head(s.mSentChunks))}, r, nt, rs, ro)
<1> DEFINE t == [s EXCEPT !.t3Rtx = FALSE]
           q == s.mSentChunks
           c == Head(q)
           out == {Data(e, s, c)}
<1>1. DOMAIN s = Fields /\ s.mState # "Destroyed" /\ IsSeq(q)
  BY ContextIs DEF Context, Accounts, Sized
<1>2. Same(s, t) /\ t.mSentChunks = s.mSentChunks /\ t.mState = s.mState /\ Same(s, s)
  BY <1>1 DEF Fields, Same
<1> HIDE DEF t
<1>3. Outcome(e, s, t, {}, r, nt, rs, ro)
  BY <1>1, <1>2, QuietOutcome
<1>4. ASSUME q # <<>> PROVE c.tsn \in TsnsIn(q)
  <2> HIDE DEF q
  <2>1. PICK S : q \in Seq(S)
    BY <1>1 DEF IsSeq
  <2>2. c = q[1] /\ 1 \in 1..Len(q)
    BY <1>4, <2>1
  <2> QED BY <2>2 DEF TsnsIn
<1>5. ASSUME q # <<>> PROVE Outcome(e, s, s, out, r, nt, rs, ro)
  <2>1. \A p \in out : /\ p.to = Peer(e) /\ p.type = "DATA" /\ p.tag = s.mPeerTag
                       /\ p.chunk.tsn \in TsnsIn(s.mSentChunks)
    BY <1>4, <1>5 DEF Data
  <2> HIDE DEF out, q
  <2> QED BY <1>1, <1>2, <2>1, QuietOutcome
<1> QED BY <1>3, <1>5 DEF t

\* A message that the application sends, or that waits for its channel.
LEMMA MessageOutcome ==
    ASSUME NEW e \in Endpoints, NEW s, NEW r, NEW nt, NEW rs, NEW ro, NEW msg, NEW q,
           Context(e, s, r, nt, rs, ro), msg.size \in Sizes
    PROVE  /\ Outcome(e, s, send(e, s, msg)[1], send(e, s, msg)[2], r, nt, rs, ro)
           /\ Outcome(e, s, WithQueue(s, q), {}, r, nt, rs, ro)
<1>1. SessionInv(s) /\ Accounts(s) /\ DOMAIN s = Fields /\ s.mState # "Destroyed"
      /\ IsTsn(s.mCurrentTsn) /\ InitRwnd + 1 <= Half /\ Same(s, s)
  BY ContextIs DEF Context, Same
<1> DEFINE t == send(e, s, msg)[1]
           out == send(e, s, msg)[2]
<1>2. Grows(e, s, t, out)
  BY <1>1, SendGrows
<1>3. s.mFlightSize \in Nat
  BY <1>1, FlightIs
<1> HIDE DEF t, out
<1>4. PICK k : Grew(e, s, t, out, k) /\ k <= InitRwnd
  BY <1>2, <1>3, GrowsLittle
<1>5. k <= Half
  <2>1. k \in Nat /\ InitRwnd \in Nat /\ Half \in Nat
    BY <1>4, SctpAssumption, HalfFacts DEF Grew
  <2> QED BY <1>1, <1>4, <2>1
<1>6. Outcome(e, s, t, out, r, nt, rs, ro)
  BY <1>1, <1>4, <1>5, GrownOutcome
<1> DEFINE u == WithQueue(s, q)
<1>7. \A f \in Fields \ {"mDataSendQueue"} : u[f] = s[f]
  BY <1>1, QueuesChange
<1> HIDE DEF u
<1>8. Same(s, u) /\ u.mSentChunks = s.mSentChunks /\ u.mState = s.mState
  BY <1>7 DEF Same, Fields
<1>9. Outcome(e, s, u, {}, r, nt, rs, ro)
  BY <1>1, <1>8, QuietOutcome
<1> QED BY <1>6, <1>9 DEF t, out, u

\* Nothing of x is received yet.
LEMMA UpToStart ==
    ASSUME NEW x, NEW ooo, NEW n \in Nat, NEW rc
    PROVE  UpTo(x, TsnAdd(InitialTsn[x], -1), ooo, n, rc)
<1>1. 0 \in 0..n /\ 0 - 1 = -1
  OBVIOUS
<1>2. First(x, 0) = {}
  BY DEF First
<1> QED BY <1>1, <1>2 DEF UpTo

\* The receiver's side when the handshake starts over.
LEMMA StartsOver ==
    ASSUME NEW e \in Endpoints, NEW s, NEW r, NEW nt, NEW rs, NEW ro, NEW t, NEW out,
           Context(e, s, r, nt, rs, ro), r.mState # "Destroyed",
           t.mPeerCumulativeTsn = TsnAdd(InitialTsn[Peer(e)], -1),
           t.mPeerOutOfOrderTsns = s.mPeerOutOfOrderTsns,
           \A p \in out : p.to = Peer(e) /\ p.type # "SACK"
    PROVE  ReceiverMove(Peer(e), r, s, t, out, ro)
<1> DEFINE y == Peer(e)
           n == Issued(y, r)
<1>1. ReceiverInv(y, r, s, nt, ro) /\ n \in 0..(TsnCount - 1)
  BY ContextIs
<1>2. t.mPeerOutOfOrderTsns \subseteq ro \cap First(y, n)
  BY <1>1 DEF ReceiverInv
<1>3. UpTo(y, t.mPeerCumulativeTsn, t.mPeerOutOfOrderTsns, n, ro)
  <2>1. n \in Nat /\ t.mPeerCumulativeTsn = TsnAdd(InitialTsn[y], -1)
    BY <1>1
  <2> HIDE DEF n, y
  <2> QED BY <2>1, UpToStart
<1> QED BY <1>2, <1>3 DEF ReceiverMove

\* The sender's side of a step that sends no DATA.
LEMMA SendsNothing ==
    ASSUME NEW e \in Endpoints, NEW s, NEW r, NEW nt, NEW rs, NEW ro, NEW t, NEW out,
           Context(e, s, r, nt, rs, ro), t.mCurrentTsn = s.mCurrentTsn,
           t.mSentChunks = s.mSentChunks,
           \A p \in out : p.to = Peer(e) /\ p.type # "DATA",
           \/ t.mPeerTag = s.mPeerTag
           \/ t.mPeerTag = Peer(e) /\ \E p \in nt : p.type = "INIT_ACK" /\ p.to = e
    PROVE  \E k, G : SenderMove(e, s, t, out, nt, rs, k, G)
<1> DEFINE c == s.mCurrentTsn
           q == s.mSentChunks
           G == {}
<1>1. IsTsn(c) /\ Half \in Nat
  BY ContextIs, HalfFacts
<1> HIDE DEF c
<1>2. TsnAdd(c, 0) = c
  BY <1>1, TsnIs
<1>3. New(c, 0) = {} /\ 0 \in Nat /\ 0 <= Half /\ G \subseteq rs
  BY <1>1 DEF New
<1>4. t.mCurrentTsn = TsnAdd(c, 0) /\ TsnsIn(t.mSentChunks) = (TsnsIn(q) \ G) \cup New(c, 0)
  BY <1>2, <1>3 DEF c
<1> HIDE DEF G
<1>5. SenderMove(e, s, t, out, nt, rs, 0, G)
  BY <1>3, <1>4 DEF SenderMove, c
<1> QED BY <1>5

\* INIT arrives.
LEMMA InitOutcome ==
    ASSUME NEW e \in Endpoints, NEW s, NEW r, NEW nt, NEW rs, NEW ro, NEW p \in nt,
           Context(e, s, r, nt, rs, ro), p.to = e, p.type = "INIT"
    PROVE  Outcome(e, s, onReceiveInit(e, s, p)[1], onReceiveInit(e, s, p)[2], r, nt, rs, ro)
<1> DEFINE h == onReceiveInit(e, s, p)
           cum == TsnAdd(InitialTsn[Peer(e)], -1)
           t == [s EXCEPT !.mPeerRwnd = InitRwnd, !.mPeerCumulativeTsn = cum]
           out == {InitAck(e, Peer(e))}
<1>1. p.from = Peer(e)
  BY DEF Context, Addressed
<1>2. h[1] = t /\ h[2] = out
  BY <1>1 DEF onReceiveInit
<1>3. DOMAIN s = Fields /\ s.mState # "Destroyed"
  BY ContextIs DEF Context
<1> HIDE DEF cum, h
<1>4. /\ t.mCurrentTsn = s.mCurrentTsn /\ t.mSentChunks = s.mSentChunks
      /\ t.mPeerTag = s.mPeerTag /\ t.mState = s.mState /\ t.mPeerCumulativeTsn = cum
      /\ t.mPeerOutOfOrderTsns = s.mPeerOutOfOrderTsns
  BY <1>3 DEF Fields
<1>5. \A x \in out : x.to = Peer(e) /\ x.type = "INIT_ACK" /\ x.from = e
  BY DEF InitAck
<1> HIDE DEF t, out
<1>6. \E k, G : SenderMove(e, s, t, out, nt, rs, k, G)
  <2>1. \A x \in out : x.to = Peer(e) /\ x.type # "DATA"
    BY <1>5
  <2> QED BY <1>4, <2>1, SendsNothing
<1>7. r.mState # "Destroyed" => ReceiverMove(Peer(e), r, s, t, out, ro)
  <2>1. \A x \in out : x.to = Peer(e) /\ x.type # "SACK"
    BY <1>5
  <2>2. t.mPeerCumulativeTsn = TsnAdd(InitialTsn[Peer(e)], -1)
    BY <1>4 DEF cum
  <2> QED BY <1>4, <2>1, <2>2, StartsOver
<1>8. Addressed(out)
  BY <1>5, PeerIs DEF Addressed
<1>9. Outcome(e, s, t, out, r, nt, rs, ro)
  BY <1>3, <1>4, <1>6, <1>7, <1>8 DEF Outcome
<1> QED BY <1>2, <1>9 DEF h

\* INIT_ACK arrives.
LEMMA InitAckOutcome ==
    ASSUME NEW e \in Endpoints, NEW s, NEW r, NEW nt, NEW rs, NEW ro, NEW p \in nt,
           Context(e, s, r, nt, rs, ro), p.to = e, p.type = "INIT_ACK"
    PROVE  Outcome(e, s, onReceiveInitAck(e, s, p)[1], onReceiveInitAck(e, s, p)[2], r, nt, rs, ro)
<1> DEFINE h == onReceiveInitAck(e, s, p)
           cum == TsnAdd(InitialTsn[Peer(e)], -1)
           b == [s EXCEPT !.mPeerTag = Peer(e), !.mPeerRwnd = InitRwnd,
                          !.mPeerCumulativeTsn = cum, !.t1Init = Idle,
                          !.mState = "CookieEchoed"]
           g == sendCookieEcho(e, b, 0)
           t == g[1]
           out == g[2]
<1>1. p.from = Peer(e)
  BY DEF Context, Addressed
<1>2. (h[1] = s /\ h[2] = {}) \/ h = g
  BY <1>1 DEF onReceiveInitAck
<1>3. DOMAIN s = Fields
  BY ContextIs
<1> HIDE DEF cum, h
<1>4. /\ DOMAIN b = Fields /\ b.mCurrentTsn = s.mCurrentTsn /\ b.mSentChunks = s.mSentChunks
      /\ b.mPeerTag = Peer(e) /\ b.mState = "CookieEchoed" /\ b.mPeerCumulativeTsn = cum
      /\ b.mPeerOutOfOrderTsns = s.mPeerOutOfOrderTsns
  BY <1>3 DEF Fields
<1> HIDE DEF b
<1>5. /\ \A f \in Fields \ {"t1Cookie"} : t[f] = b[f]
      /\ \A x \in out : x.to = Peer(e) /\ x.type = "COOKIE_ECHO"
  BY <1>4, CookieEchoSent
<1> HIDE DEF g, t, out
<1>6. /\ t.mCurrentTsn = s.mCurrentTsn /\ t.mSentChunks = s.mSentChunks
      /\ t.mPeerTag = Peer(e) /\ t.mState # "Destroyed" /\ t.mPeerCumulativeTsn = cum
      /\ t.mPeerOutOfOrderTsns = s.mPeerOutOfOrderTsns
  BY <1>4, <1>5 DEF Fields
<1>7. \E k, G : SenderMove(e, s, t, out, nt, rs, k, G)
  <2>1. \A x \in out : x.to = Peer(e) /\ x.type # "DATA"
    BY <1>5
  <2> QED BY <1>6, <2>1, SendsNothing
<1>8. r.mState # "Destroyed" => ReceiverMove(Peer(e), r, s, t, out, ro)
  <2>1. \A x \in out : x.to = Peer(e) /\ x.type # "SACK"
    BY <1>5
  <2>2. t.mPeerCumulativeTsn = TsnAdd(InitialTsn[Peer(e)], -1)
    BY <1>6 DEF cum
  <2> QED BY <1>6, <2>1, <2>2, StartsOver
<1>9. Addressed(out)
  BY <1>5 DEF Addressed
<1>10. Outcome(e, s, t, out, r, nt, rs, ro)
  BY <1>6, <1>7, <1>8, <1>9 DEF Outcome
<1>11. Outcome(e, s, s, {}, r, nt, rs, ro)
  BY NothingOutcome
<1> QED BY <1>2, <1>10, <1>11 DEF h, t, out

\* COOKIE_ACK arrives: DCEP OPEN is sent for every channel.
LEMMA EstablishedGrew ==
    ASSUME NEW e, NEW s, SessionInv(s), IsTsn(s.mCurrentTsn)
    PROVE  \E k : /\ k <= Len(s.mDataChannels)
                  /\ Grew(e, s, onAssociationEstablished(e, s)[1],
                          onAssociationEstablished(e, s)[2], k)
<1> DEFINE q == s.mDataChannels
           n == Len(q)
           opens == [i \in DOMAIN q |->
                       [DcepChunk(s, q[i].streamId, "open", q[i].label)
                          EXCEPT !.tsn = TsnAdd(@, i - 1)]]
           opening == [s EXCEPT !.mDataChannels =
                          [i \in DOMAIN @ |-> [@[i] EXCEPT !.state = "kOpening"]]]
           t == Transmit(opening, opens)
           out == DataPackets(e, s, opens)
           h == onAssociationEstablished(e, s)
           c == s.mCurrentTsn
<1>1. IF opens = <<>> THEN h[1] = s /\ h[2] = {} ELSE h[1] = t /\ h[2] = out
  BY DEF onAssociationEstablished
<1>2. DOMAIN s = Fields /\ IsSeq(q) /\ Accounts(s) /\ n \in Nat /\ DOMAIN q = 1..n
  BY SeqIs DEF SessionInv, Accounts
<1>3. opens = [i \in 1..n |-> opens[i]]
  BY <1>2
<1>4. \A i \in 1..n : opens[i].size = 1 /\ opens[i].tsn = TsnAdd(c, i - 1)
  BY <1>2 DEF DcepChunk
<1>5. DOMAIN opening = Fields /\ \A f \in Fields \ {"mDataChannels"} : opening[f] = s[f]
  BY <1>2 DEF Fields
<1>6. opening.mDataChannels = [i \in 1..n |-> opening.mDataChannels[i]]
  BY <1>2 DEF Fields
<1> HIDE DEF opens, opening, h, n
<1>7. Sized(opens, Positive) /\ Len(opens) = n
  <2>1. IsSeq(opens) /\ Len(opens) = n
    BY <1>2, <1>3, FunctionIsSeq
  <2> QED BY <1>4, <2>1 DEF Sized, Positive
<1>8. IsSeq(opening.mDataChannels)
  <2> DEFINE u == opening.mDataChannels
  <2>1. u = [i \in 1..n |-> u[i]] /\ n \in Nat
    BY <1>2, <1>6
  <2> HIDE DEF u
  <2>2. IsSeq(u)
    BY <2>1, FunctionIsSeq
  <2> QED BY <2>2 DEF u
<1>9. Accounts(opening)
  <2>1. \A f \in Read : opening[f] = s[f]
    BY <1>5 DEF Read, Fields
  <2> QED BY <1>2, <1>5, <1>8, <2>1, SameAccounts
<1>10. /\ opening.mPeerTag = s.mPeerTag /\ opening.mState = s.mState
       /\ opening.mPeerCumulativeTsn = s.mPeerCumulativeTsn
       /\ opening.mPeerOutOfOrderTsns = s.mPeerOutOfOrderTsns
       /\ opening.mCurrentTsn = c /\ opening.mSentChunks = s.mSentChunks
  BY <1>5 DEF Fields
<1>11. TsnsIn(opens) = New(c, n)
  <2> HIDE DEF c
  <2>1. ASSUME NEW y \in TsnsIn(opens) PROVE y \in New(c, n)
    <3>1. PICK i \in 1..n : y = opens[i].tsn
      BY <1>7 DEF TsnsIn
    <3>2. i - 1 \in 0..(n - 1) /\ y = TsnAdd(c, i - 1)
      BY <1>2, <1>4, <3>1
    <3> QED BY <3>2 DEF New
  <2>2. ASSUME NEW y \in New(c, n) PROVE y \in TsnsIn(opens)
    <3>1. PICK j \in 0..(n - 1) : y = TsnAdd(c, j)
      BY DEF New
    <3>2. j + 1 \in 1..n /\ (j + 1) - 1 = j
      BY <1>2
    <3>3. y = opens[j + 1].tsn
      BY <1>4, <3>1, <3>2
    <3> QED BY <1>7, <3>2, <3>3 DEF TsnsIn
  <2> QED BY <2>1, <2>2
<1>12. CASE opens = <<>>
  <2>1. Kept(s, s)
    BY DEF Kept
  <2>2. Grew(e, s, s, {}, 0)
    BY <2>1, GrewNothing
  <2>3. 0 <= n
    BY <1>2
  <2> QED BY <1>1, <1>12, <2>2, <2>3 DEF h, n
<1>13. CASE opens # <<>>
  <2>1. Grew(e, opening, t, out, n)
    <3>1. TsnsIn(opens) = New(opening.mCurrentTsn, Len(opens)) /\ IsTsn(opening.mCurrentTsn)
      BY <1>7, <1>10, <1>11
    <3>2. Grew(e, opening, Transmit(opening, opens), DataPackets(e, s, opens), Len(opens))
      BY <1>7, <1>9, <1>10, <1>13, <3>1, TransmitGrew
    <3> QED BY <1>7, <3>2
  <2> HIDE DEF t, out
  <2>2. Grew(e, s, t, out, n)
    BY <1>10, <2>1 DEF Grew, Kept
  <2>3. n <= n
    BY <1>2
  <2> QED BY <1>1, <1>13, <2>2, <2>3 DEF h, n
<1> QED BY <1>12, <1>13

LEMMA CookieAckOutcome ==
    ASSUME NEW e \in Endpoints, NEW s, NEW r, NEW nt, NEW rs, NEW ro,
           Context(e, s, r, nt, rs, ro)
    PROVE  Outcome(e, s, onReceiveCookieAck(e, s)[1], onReceiveCookieAck(e, s)[2], r, nt, rs, ro)
<1> DEFINE b == [s EXCEPT !.t1Cookie = Idle, !.mState = "Established"]
           h == onReceiveCookieAck(e, s)
           g == onAssociationEstablished(e, b)
           t == g[1]
           out == g[2]
<1>1. IF s.mState # "CookieEchoed" THEN h[1] = s /\ h[2] = {} ELSE h = g
  BY DEF onReceiveCookieAck
<1> HIDE DEF h
<1>2. DOMAIN s = Fields /\ IsSeq(s.mDataChannels) /\ (s.t1Init # Idle => s.mState = "CookieWait")
      /\ (s.mState \in {"CookieEchoed", "Established"} => s.mPeerRwnd = InitRwnd)
      /\ SessionInv(s) /\ IsTsn(s.mCurrentTsn) /\ Len(s.mDataChannels) <= Half
  BY ContextIs DEF Context, Accounts
<1>3. /\ DOMAIN b = Fields /\ b.mDataChannels = s.mDataChannels /\ b.t1Init = s.t1Init
      /\ b.mPeerRwnd = s.mPeerRwnd /\ b.mState = "Established" /\ Same(s, b)
      /\ \A f \in {"mSentChunks", "mPendingSend", "mDataSendQueue", "mFlightSize", "t3Rtx"} :
            b[f] = s[f]
  BY <1>2 DEF Fields, Same
<1> HIDE DEF b
<1>4. CASE s.mState # "CookieEchoed"
  BY <1>1, <1>4, NothingOutcome DEF h
<1>5. CASE s.mState = "CookieEchoed"
  <2>1. b.t1Init = Idle /\ b.mPeerRwnd = InitRwnd
    BY <1>2, <1>3, <1>5
  <2>2. SessionInv(b) /\ IsTsn(b.mCurrentTsn)
    BY <1>2, <1>3, <2>1, OtherFields DEF Same
  <2>3. PICK k : k <= Len(b.mDataChannels) /\ Grew(e, b, t, out, k)
    BY <2>2, EstablishedGrew
  <2> HIDE DEF t, out
  <2>4. k <= Half
    <3> DEFINE n == Len(s.mDataChannels)
    <3>1. n \in Nat /\ k \in Nat /\ Half \in Nat /\ n <= Half /\ k <= n
      BY <1>2, <1>3, <2>3, SeqIs, HalfFacts DEF Grew
    <3> HIDE DEF n
    <3> QED BY <3>1
  <2>5. b.mState # "Destroyed" /\ b.mSentChunks = s.mSentChunks
    BY <1>3
  <2>6. Outcome(e, s, t, out, r, nt, rs, ro)
    BY <1>3, <2>3, <2>4, <2>5, GrownOutcome
  <2> QED BY <1>1, <1>5, <2>6 DEF h, t, out
<1> QED BY <1>4, <1>5

\* RecordTsn changes what is remembered of the peer's TSNs only.
LEMMA RecordFields ==
    ASSUME NEW s, NEW tsn, DOMAIN s = Fields
    PROVE  \A f \in Fields \ {"mPeerCumulativeTsn", "mPeerOutOfOrderTsns"} :
              RecordTsn(s, tsn)[f] = s[f]
<1> DEFINE t == RecordTsn(s, tsn)
<1>1. \E c, o : \/ t = [s EXCEPT !.mPeerCumulativeTsn = c, !.mPeerOutOfOrderTsns = o]
                \/ t = [s EXCEPT !.mPeerOutOfOrderTsns = o]
  <2> DEFINE cum == s.mPeerCumulativeTsn
             ooo == s.mPeerOutOfOrderTsns
             run == {n \in 1..Cardinality(ooo) : \A i \in 1..n : TsnAdd(tsn, i) \in ooo}
             all == ooo \cup {tsn}
             lowest == CHOOSE x \in all : \A u \in all : x <= u
             c1 == TsnAdd(tsn, Cardinality(run))
             o1 == ooo \ {TsnAdd(tsn, i) : i \in run}
             o2 == IF Cardinality(all) > OutOfOrderCap THEN all \ {lowest} ELSE all
  <2>1. t = IF tsn = TsnAdd(cum, 1)
            THEN [s EXCEPT !.mPeerCumulativeTsn = c1, !.mPeerOutOfOrderTsns = o1]
            ELSE [s EXCEPT !.mPeerOutOfOrderTsns = o2]
    BY DEF RecordTsn
  <2> HIDE DEF t, c1, o1, o2
  <2> QED BY <2>1
<1>2. PICK c, o : \/ t = [s EXCEPT !.mPeerCumulativeTsn = c, !.mPeerOutOfOrderTsns = o]
                  \/ t = [s EXCEPT !.mPeerOutOfOrderTsns = o]
  BY <1>1
<1> HIDE DEF t
<1>3. \A f \in Fields \ {"mPeerCumulativeTsn", "mPeerOutOfOrderTsns"} : t[f] = s[f]
  BY <1>2 DEF Fields
<1> QED BY <1>3 DEF t

\* DATA is answered with a SACK, after what it causes to be sent.
LEMMA AnsweredOutcome ==
    ASSUME NEW e \in Endpoints, NEW s, NEW r, NEW nt, NEW rs, NEW ro, NEW rc, NEW b, NEW t, NEW o,
           NEW k, Context(e, s, r, nt, rs, ro),
           b.mCurrentTsn = s.mCurrentTsn, b.mPeerTag = s.mPeerTag,
           b.mSentChunks = s.mSentChunks, b.mState # "Destroyed",
           Grew(e, b, t, o, k), k <= Half,
           r.mState # "Destroyed" =>
              /\ UpTo(Peer(e), b.mPeerCumulativeTsn, b.mPeerOutOfOrderTsns,
                      Issued(Peer(e), r), rc)
              /\ b.mPeerOutOfOrderTsns \subseteq rc \cap First(Peer(e), Issued(Peer(e), r))
    PROVE  Outcome(e, s, t, o \cup {Sack(e, b)}, r, nt, rs, rc)
<1> DEFINE c == s.mCurrentTsn
           q == s.mSentChunks
           G == {}
           y == Peer(e)
           a == Sack(e, b)
           out == o \cup {a}
           n == Issued(y, r)
<1>1. /\ k \in Nat /\ t.mCurrentTsn = TsnAdd(c, k)
      /\ TsnsIn(t.mSentChunks) = TsnsIn(q) \cup New(c, k)
      /\ OnlyData(e, s.mPeerTag, New(c, k), o) /\ Kept(b, t)
  BY DEF Grew
<1>2. /\ t.mPeerTag = s.mPeerTag /\ t.mState # "Destroyed"
      /\ t.mPeerCumulativeTsn = b.mPeerCumulativeTsn
      /\ t.mPeerOutOfOrderTsns = b.mPeerOutOfOrderTsns
  BY <1>1 DEF Kept
<1>3. a.to = y /\ a.type = "SACK"
  BY DEF Sack
<1>4. \A p \in o : /\ p.to = y /\ p.type = "DATA" /\ p.tag = s.mPeerTag
                   /\ p.chunk.tsn \in TsnsIn(q) \cup New(c, k)
  BY <1>1 DEF OnlyData
<1>5. G \subseteq rs /\ TsnsIn(t.mSentChunks) = (TsnsIn(q) \ G) \cup New(c, k)
  BY <1>1
<1> HIDE DEF G, a
<1>6. SenderMove(e, s, t, out, nt, rs, k, G)
  <2> HIDE DEF c, q
  <2>1. /\ t.mCurrentTsn = TsnAdd(s.mCurrentTsn, k)
        /\ TsnsIn(t.mSentChunks) = (TsnsIn(s.mSentChunks) \ G) \cup New(s.mCurrentTsn, k)
    BY <1>1, <1>5 DEF c, q
  <2>2. \A p \in out : /\ p.to = Peer(e)
                       /\ p.type = "DATA" =>
                             /\ p.tag = s.mPeerTag
                             /\ p.chunk.tsn \in TsnsIn(s.mSentChunks) \cup New(s.mCurrentTsn, k)
    BY <1>3, <1>4 DEF c, q
  <2> HIDE DEF out
  <2> QED BY <1>1, <1>2, <1>5, <2>1, <2>2 DEF SenderMove
<1>7. Addressed(out)
  BY <1>3, <1>4 DEF Addressed
<1>8. ASSUME r.mState # "Destroyed" PROVE ReceiverMove(y, r, s, t, out, rc)
  <2>1. y \in Endpoints /\ n \in 0..(TsnCount - 1)
    <3>1. n \in 0..(TsnCount - 1)
      BY <1>8, ContextIs
    <3> HIDE DEF n
    <3> QED BY <3>1, PeerIs
  <2> HIDE DEF y, n
  <2>2. /\ UpTo(y, b.mPeerCumulativeTsn, b.mPeerOutOfOrderTsns, n, rc)
        /\ b.mPeerOutOfOrderTsns \subseteq rc \cap First(y, n)
    BY <1>8 DEF y, n
  <2>3. SackTrue(y, a.cumTsn, a.gaps, n, rc)
    BY <2>1, <2>2, SackIsTrue DEF a
  <2>4. \A p \in out : /\ p.to = y
                       /\ p.type # "INIT_ACK"
                       /\ p.type = "SACK" => SackTrue(y, p.cumTsn, p.gaps, n, rc)
    BY <1>3, <1>4, <2>3
  <2> HIDE DEF out
  <2> QED BY <1>2, <2>2, <2>4 DEF ReceiverMove, n
<1>9. Outcome(e, s, t, out, r, nt, rs, rc)
  BY <1>2, <1>6, <1>7, <1>8 DEF Outcome
<1> QED BY <1>9 DEF a

\* DATA with a user message makes nothing be sent.
LEMMA UserDataGrew ==
    ASSUME NEW e, NEW s, NEW c, SessionInv(s), IsTsn(s.mCurrentTsn)
    PROVE  Grew(e, s, ReceiveUserData(s, c)[1], ReceiveUserData(s, c)[2], 0)
<1> DEFINE i == ChannelByStream(s, c.streamId)
           q == s.mDataChannels
           b == receive(q[i].receiveBuffer, c.ssn, c.first, c.last, FALSE, c.data).buf
           t == [s EXCEPT !.mDataChannels[i].receiveBuffer = b]
           r == ReceiveUserData(s, c)
<1>1. (r[1] = s \/ r[1] = t) /\ r[2] = {}
  BY DEF ReceiveUserData
<1>2. DOMAIN s = Fields
  BY DEF SessionInv, Accounts
<1> HIDE DEF i, b, r
<1>3. Kept(s, s) /\ Kept(s, t) /\ t.mCurrentTsn = s.mCurrentTsn /\ t.mSentChunks = s.mSentChunks
  BY <1>2 DEF Fields, Kept
<1> HIDE DEF t
<1>4. Grew(e, s, s, {}, 0) /\ Grew(e, s, t, {}, 0)
  BY <1>3, GrewNothing
<1> QED BY <1>1, <1>4 DEF r

\* DCEP ACK: what waited for the channel is sent.
LEMMA DcepAckGrew ==
    ASSUME NEW e, NEW s, NEW c, SessionInv(s), IsTsn(s.mCurrentTsn)
    PROVE  \E k : k <= InitRwnd + 1
                  /\ Grew(e, s, ReceiveDcepAck(e, s, c)[1], ReceiveDcepAck(e, s, c)[2], k)
<1> DEFINE i == SelectInSeq(s.mDataChannels,
                    LAMBDA ch : ch.streamId = c.streamId /\ ch.state = "kOpening")
           q == s.mDataChannels
           t == [s EXCEPT !.mDataChannels[i].state = "kOpen",
                          !.mDataChannels[i].receiveBuffer = consumeSsn(@, c.ssn)]
           w == <<t, {}>>
           label == q[i].label
           r == ReceiveDcepAck(e, s, c)
           g == onSctpDataChannelOpen(e, w, label)
<1>1. (r[1] = s /\ r[2] = {}) \/ r = g
  BY DEF ReceiveDcepAck
<1>2. DOMAIN s = Fields /\ IsSeq(q)
  BY DEF SessionInv, Accounts
<1>0. InitRwnd \in Nat
  BY SctpAssumption
<1> HIDE DEF i, r
<1>3. DOMAIN t = Fields /\ (\A f \in Read : t[f] = s[f]) /\ DOMAIN t.mDataChannels = DOMAIN q
      /\ t.mDataChannels = [j \in DOMAIN q |-> t.mDataChannels[j]]
  BY <1>2 DEF Fields, Read
<1>30. Kept(s, t) /\ t.mCurrentTsn = s.mCurrentTsn /\ t.mSentChunks = s.mSentChunks
  BY <1>2 DEF Fields, Kept
<1> HIDE DEF t, label
<1>4. IsSeq(t.mDataChannels)
  <2> DEFINE u == t.mDataChannels
  <2>1. Len(q) \in Nat /\ DOMAIN q = 1..Len(q)
    BY <1>2, SeqIs
  <2>2. u = [j \in 1..Len(q) |-> u[j]]
    BY <1>3, <2>1
  <2> HIDE DEF u
  <2>3. IsSeq(u)
    BY <2>1, <2>2, FunctionIsSeq
  <2> QED BY <2>3 DEF u
<1>5. SessionInv(t) /\ IsTsn(t.mCurrentTsn)
  BY <1>3, <1>30, <1>4, OtherChannels
<1>50. t.mFlightSize \in Nat
  BY <1>5, FlightIs DEF SessionInv
<1>6. w[1] = t /\ w[2] = {}
  OBVIOUS
<1> HIDE DEF w
<1>7. \E o : g[2] = w[2] \cup o /\ Grows(e, w[1], g[1], o)
  <2>1. SessionInv(w[1]) /\ IsTsn(w[1].mCurrentTsn)
    BY <1>5, <1>6
  <2> QED BY <2>1, OpenGrows
<1> HIDE DEF g
<1>8. PICK o : g[2] = w[2] \cup o /\ Grows(e, w[1], g[1], o)
  BY <1>7
<1>9. PICK k : Grew(e, t, g[1], o, k) /\ k <= InitRwnd
  BY <1>50, <1>6, <1>8, GrowsLittle
<1>10. Grew(e, s, t, {}, 0) /\ Grew(e, s, s, {}, 0)
  <2>1. Kept(s, s)
    BY DEF Kept
  <2> QED BY <1>30, <2>1, GrewNothing
<1>11. Grew(e, s, g[1], {} \cup o, 0 + k)
  BY <1>9, <1>10, GrewTwice
<1>12. k \in Nat /\ 0 + k <= InitRwnd + 1 /\ 0 <= InitRwnd + 1
  <2>1. k \in Nat
    BY <1>9 DEF Grew
  <2> QED BY <1>0, <1>9, <2>1
<1>13. g[2] = {} \cup o
  BY <1>6, <1>8
<1>14. Grew(e, s, g[1], g[2], 0 + k)
  BY <1>11, <1>13
<1>15. CASE r = g
  BY <1>12, <1>14, <1>15 DEF r
<1>16. CASE r[1] = s /\ r[2] = {}
  BY <1>10, <1>12, <1>16 DEF r
<1> QED BY <1>1, <1>15, <1>16

\* DCEP OPEN: the ACK, and what waited for the channel.
LEMMA DcepOpenGrew ==
    ASSUME NEW e, NEW s, NEW c, SessionInv(s), IsTsn(s.mCurrentTsn)
    PROVE  \E k : k <= InitRwnd + 1
                  /\ Grew(e, s, ReceiveDcepOpen(e, s, c)[1], ReceiveDcepOpen(e, s, c)[2], k)
<1> DEFINE ch == DataChannel(c.data, c.streamId, "kOpen", consumeSsn(NewReceiveBuffer, c.ssn))
           q == Append(s.mDataChannels, ch)
           added == [s EXCEPT !.mDataChannels = q]
           a == DcepChunk(added, c.streamId, "ack", c.data)
           ack == <<a>>
           t == Transmit(added, ack)
           d == DataPackets(e, added, ack)
           w == <<t, d>>
           label == c.data
           g == onSctpDataChannelOpen(e, w, label)
           cur == s.mCurrentTsn
<1>0. InitRwnd \in Nat
  BY SctpAssumption
<1>1. ReceiveDcepOpen(e, s, c) = g
  BY DEF ReceiveDcepOpen
<1>2. DOMAIN s = Fields /\ IsSeq(s.mDataChannels) /\ Accounts(s)
  BY DEF SessionInv, Accounts
<1> HIDE DEF ch
<1>3. IsSeq(q)
  BY <1>2, AppendIs
<1> HIDE DEF q
<1>4. DOMAIN added = Fields /\ added.mDataChannels = q /\ \A f \in Read : added[f] = s[f]
  BY <1>2 DEF Fields, Read
<1>40. Kept(s, added) /\ added.mCurrentTsn = cur /\ added.mSentChunks = s.mSentChunks
  BY <1>2 DEF Fields, Kept
<1>8. a.size = 1 /\ a.tsn = added.mCurrentTsn
  BY DEF DcepChunk
<1> HIDE DEF added, a
<1>5. Accounts(added)
  BY <1>2, <1>3, <1>4, SameAccounts
<1>6. Sized(ack, Positive) /\ ack # <<>> /\ Len(ack) = 1 /\ ack[1] = a
  <2> DEFINE none == <<>>
  <2>1. Sized(none, Positive)
    BY <1>2, EmptyIs DEF Sized
  <2>2. Append(none, a) = ack
    OBVIOUS
  <2>4. ack # <<>> /\ Len(ack) = 1 /\ ack[1] = a
    OBVIOUS
  <2> HIDE DEF none, ack
  <2>3. Sized(Append(none, a), Positive)
    BY <1>8, <2>1, SizedIs DEF Positive
  <2> QED BY <2>2, <2>3, <2>4
<1> HIDE DEF ack
<1>60. TsnsIn(ack) = New(cur, Len(ack)) /\ IsTsn(cur)
  <2>1. TsnsIn(ack) = {cur}
    BY <1>40, <1>6, <1>8 DEF TsnsIn
  <2>2. IsTsn(cur)
    OBVIOUS
  <2> HIDE DEF cur
  <2>3. TsnAdd(cur, 0) = cur
    BY <2>2, TsnIs
  <2>4. New(cur, 1) = {cur}
    BY <2>3 DEF New
  <2> QED BY <1>6, <2>1, <2>2, <2>4
<1>7. Accounts(t) /\ t.mSentChunks # <<>>
  BY <1>5, <1>6, TransmitIs
<1>70. Grew(e, added, t, d, 1)
  <2>1. Grew(e, added, Transmit(added, ack), DataPackets(e, added, ack), Len(ack))
    BY <1>5, <1>6, <1>40, <1>60, TransmitGrew
  <2> QED BY <1>6, <2>1
<1>9. w[1] = t /\ w[2] = d
  OBVIOUS
<1> HIDE DEF t, w, label, d
<1>71. Grew(e, s, t, d, 1)
  BY <1>40, <1>70 DEF Grew, Kept
<1>72. IsTsn(t.mCurrentTsn)
  <2> HIDE DEF cur
  <2>1. t.mCurrentTsn = TsnAdd(cur, 1)
    BY <1>71 DEF Grew, cur
  <2> QED BY <1>60, <2>1, TsnIs
<1>10. SessionInv(w[1]) /\ IsTsn(w[1].mCurrentTsn)
  BY <1>7, <1>72, <1>9 DEF SessionInv, NotStranded
<1>11. \E o : g[2] = w[2] \cup o /\ Grows(e, w[1], g[1], o)
  BY <1>10, OpenGrows
<1> HIDE DEF g
<1>12. PICK o : g[2] = w[2] \cup o /\ Grows(e, w[1], g[1], o)
  BY <1>11
<1>13. t.mFlightSize \in Nat
  BY <1>7, FlightIs
<1>14. PICK k : Grew(e, t, g[1], o, k) /\ k <= InitRwnd
  BY <1>12, <1>13, <1>9, GrowsLittle
<1>15. Grew(e, s, g[1], d \cup o, 1 + k)
  BY <1>14, <1>71, GrewTwice
<1>16. k \in Nat /\ 1 + k <= InitRwnd + 1
  <2>1. k \in Nat
    BY <1>14 DEF Grew
  <2> QED BY <1>0, <1>14, <2>1
<1>17. g[2] = d \cup o
  BY <1>12, <1>9
<1>18. Grew(e, s, g[1], g[2], 1 + k)
  BY <1>15, <1>17
<1> QED BY <1>1, <1>16, <1>18

\* What a new DATA chunk makes be sent.
LEMMA NewDataGrew ==
    ASSUME NEW e, NEW s, NEW c, SessionInv(s), IsTsn(RecordTsn(s, c.tsn).mCurrentTsn),
           ~isDuplicate(s, c.tsn)
    PROVE  \E o, k : /\ onReceiveDataChunk(e, s, c)[2] = o \cup {Sack(e, RecordTsn(s, c.tsn))}
                     /\ Grew(e, RecordTsn(s, c.tsn), onReceiveDataChunk(e, s, c)[1], o, k)
                     /\ k <= InitRwnd + 1
<1> DEFINE tsn == c.tsn
           b == RecordTsn(s, tsn)
           h == onReceiveDataChunk(e, s, c)
           u == ReceiveUserData(b, c)
           a == ReceiveDcepAck(e, b, c)
           d == ReceiveDcepOpen(e, b, c)
           v == CASE c.kind = "user" -> u [] c.kind = "ack" -> a [] c.kind = "open" -> d
                    [] OTHER -> <<b, {}, <<>>>>
           sack == Sack(e, b)
<1>1. h = <<v[1], v[2] \cup {sack}, v[3]>>
  BY DEF onReceiveDataChunk
<1>2. v = u \/ v = a \/ v = d \/ (v[1] = b /\ v[2] = {})
  <2> HIDE DEF u, a, d, b
  <2> QED OBVIOUS
<1>3. SessionInv(b) /\ IsTsn(b.mCurrentTsn)
  <2>1. IsTsn(b.mCurrentTsn)
    OBVIOUS
  <2> HIDE DEF tsn
  <2> QED BY <2>1, RecordIs
<1>4. InitRwnd \in Nat /\ 0 <= InitRwnd + 1
  BY SctpAssumption
<1> HIDE DEF b, v, h, sack
<1>5. h[1] = v[1] /\ h[2] = v[2] \cup {sack}
  BY <1>1
<1>6. \E k : k <= InitRwnd + 1 /\ Grew(e, b, v[1], v[2], k)
  <2>1. Grew(e, b, u[1], u[2], 0)
    BY <1>3, UserDataGrew
  <2>2. \E k : k <= InitRwnd + 1 /\ Grew(e, b, a[1], a[2], k)
    BY <1>3, DcepAckGrew
  <2>3. \E k : k <= InitRwnd + 1 /\ Grew(e, b, d[1], d[2], k)
    BY <1>3, DcepOpenGrew
  <2>4. Grew(e, b, b, {}, 0)
    <3>1. Kept(b, b)
      BY DEF Kept
    <3> QED BY <1>3, <3>1, GrewNothing
  <2> HIDE DEF u, a, d
  <2>5. CASE v = u
    BY <1>4, <2>1, <2>5
  <2>6. CASE v = a
    BY <2>2, <2>6
  <2>7. CASE v = d
    BY <2>3, <2>7
  <2>8. CASE v[1] = b /\ v[2] = {}
    BY <1>4, <2>4, <2>8
  <2> QED BY <1>2, <2>5, <2>6, <2>7, <2>8
<1>7. PICK k : k <= InitRwnd + 1 /\ Grew(e, b, v[1], v[2], k)
  BY <1>6
<1>8. h[2] = v[2] \cup {sack} /\ Grew(e, b, h[1], v[2], k) /\ k <= InitRwnd + 1
  BY <1>5, <1>7
<1> HIDE DEF tsn
<1>9. \E o, l : h[2] = o \cup {sack} /\ Grew(e, b, h[1], o, l) /\ l <= InitRwnd + 1
  BY <1>8
<1> QED BY <1>9 DEF h, sack, b, tsn

\* What e knows of its peer when DATA with its tag arrives.
LEMMA DataIsExpected ==
    ASSUME NEW e \in Endpoints, NEW s, NEW r, NEW nt, NEW rs, NEW ro, NEW p \in nt,
           Context(e, s, r, nt, rs, ro), p.to = e, p.type = "DATA", p.tag = e,
           r.mState # "Destroyed"
    PROVE  /\ UpTo(Peer(e), s.mPeerCumulativeTsn, s.mPeerOutOfOrderTsns,
                   Issued(Peer(e), r), ro)
           /\ s.mPeerOutOfOrderTsns \subseteq ro \cap First(Peer(e), Issued(Peer(e), r))
           /\ p.chunk.tsn \in First(Peer(e), Issued(Peer(e), r))
<1> DEFINE y == Peer(e)
<1>1. Peer(y) = e
  BY PeerIs
<1>2. PacketInv(y, r, p, ro) /\ ReceiverInv(y, r, s, nt, ro)
  BY DEF Context, PairInv
<1> HIDE DEF y
<1>3. p.chunk.tsn \in First(y, Issued(y, r)) /\ r.mPeerTag = Peer(y)
  BY <1>1, <1>2 DEF PacketInv
<1>4. Met(y, r, nt)
  BY <1>3 DEF Met
<1> QED BY <1>2, <1>3, <1>4 DEF ReceiverInv, y

\* DATA arrives.
LEMMA DataOutcome ==
    ASSUME NEW e \in Endpoints, NEW s, NEW r, NEW nt, NEW rs, NEW ro, NEW p \in nt,
           Context(e, s, r, nt, rs, ro), p.to = e, p.type = "DATA", p.tag = e
    PROVE  Outcome(e, s, onReceiveDataChunk(e, s, p.chunk)[1],
                   onReceiveDataChunk(e, s, p.chunk)[2], r, nt, rs, ro \cup {p.chunk.tsn})
<1> DEFINE c == p.chunk
           tsn == c.tsn
           y == Peer(e)
           n == Issued(y, r)
           h == onReceiveDataChunk(e, s, c)
           b == RecordTsn(s, tsn)
           rc == ro \cup {tsn}
<1>1. DOMAIN s = Fields /\ s.mState # "Destroyed" /\ SessionInv(s) /\ IsTsn(s.mCurrentTsn)
      /\ InitRwnd + 1 <= Half
  BY ContextIs DEF Context
<1>2. Half \in Nat /\ InitRwnd \in Nat
  BY HalfFacts, SctpAssumption
<1>3. y \in Endpoints
  BY PeerIs
<1>4. ASSUME r.mState # "Destroyed"
      PROVE  /\ n \in 0..(TsnCount - 1) /\ n < Half
             /\ UpTo(y, s.mPeerCumulativeTsn, s.mPeerOutOfOrderTsns, n, ro)
             /\ s.mPeerOutOfOrderTsns \subseteq ro \cap First(y, n) /\ tsn \in First(y, n)
  <2>1. n < Half
    BY <1>4 DEF Context
  <2> QED BY <1>4, <2>1, ContextIs, DataIsExpected
<1>5. CASE isDuplicate(s, c.tsn)
  <2>1. h[1] = s /\ h[2] = {} \cup {Sack(e, s)}
    BY <1>5 DEF onReceiveDataChunk
  <2>2. Kept(s, s)
    BY DEF Kept
  <2>3. Grew(e, s, s, {}, 0) /\ 0 <= Half
    BY <1>1, <1>2, <2>2, GrewNothing
  <2>4. ASSUME r.mState # "Destroyed"
        PROVE  /\ UpTo(y, s.mPeerCumulativeTsn, s.mPeerOutOfOrderTsns, n, rc)
               /\ s.mPeerOutOfOrderTsns \subseteq rc \cap First(y, n)
    <3>1. /\ n \in 0..(TsnCount - 1) /\ n < Half
          /\ UpTo(y, s.mPeerCumulativeTsn, s.mPeerOutOfOrderTsns, n, ro)
          /\ s.mPeerOutOfOrderTsns \subseteq ro \cap First(y, n)
      BY <1>4, <2>4
    <3> HIDE DEF y, n, tsn
    <3>2. ro \subseteq rc /\ n \in Nat /\ n <= n
      BY <3>1
    <3> HIDE DEF rc
    <3> QED BY <3>1, <3>2, UpToMore
  <2> HIDE DEF rc, h
  <2>5. Outcome(e, s, s, {} \cup {Sack(e, s)}, r, nt, rs, rc)
    BY <1>1, <2>3, <2>4, AnsweredOutcome
  <2> QED BY <2>1, <2>5 DEF h, rc
<1>6. CASE ~isDuplicate(s, c.tsn)
  <2>1. \A f \in Fields \ {"mPeerCumulativeTsn", "mPeerOutOfOrderTsns"} : b[f] = s[f]
    <3> HIDE DEF tsn
    <3> QED BY <1>1, RecordFields
  <2>2. /\ b.mCurrentTsn = s.mCurrentTsn /\ b.mPeerTag = s.mPeerTag
        /\ b.mSentChunks = s.mSentChunks /\ b.mState = s.mState
    <3> HIDE DEF b
    <3> QED BY <2>1 DEF Fields
  <2>3. \E o, k : h[2] = o \cup {Sack(e, b)} /\ Grew(e, b, h[1], o, k) /\ k <= InitRwnd + 1
    <3>1. IsTsn(RecordTsn(s, c.tsn).mCurrentTsn)
      BY <1>1, <2>2
    <3> HIDE DEF c
    <3> QED BY <1>1, <1>6, <3>1, NewDataGrew
  <2> HIDE DEF h
  <2>4. ASSUME r.mState # "Destroyed"
        PROVE  /\ UpTo(y, b.mPeerCumulativeTsn, b.mPeerOutOfOrderTsns, n, rc)
               /\ b.mPeerOutOfOrderTsns \subseteq rc \cap First(y, n)
    <3>1. /\ n \in 0..(TsnCount - 1) /\ n < Half
          /\ UpTo(y, s.mPeerCumulativeTsn, s.mPeerOutOfOrderTsns, n, ro)
          /\ s.mPeerOutOfOrderTsns \subseteq ro \cap First(y, n) /\ tsn \in First(y, n)
      BY <1>4, <2>4
    <3>2. ~isDuplicate(s, tsn)
      BY <1>6
    <3> HIDE DEF y, n, tsn
    <3> QED BY <1>1, <1>3, <3>1, <3>2, RecordKeeps
  <2> HIDE DEF b, rc
  <2>5. PICK o, k : h[2] = o \cup {Sack(e, b)} /\ Grew(e, b, h[1], o, k) /\ k <= InitRwnd + 1
    BY <2>3
  <2>6. k <= Half
    <3>1. k \in Nat
      BY <2>5 DEF Grew
    <3> QED BY <1>1, <1>2, <2>5, <3>1
  <2>7. Outcome(e, s, h[1], o \cup {Sack(e, b)}, r, nt, rs, rc)
    BY <1>1, <2>2, <2>4, <2>5, <2>6, AnsweredOutcome
  <2>8. Outcome(e, s, h[1], h[2], r, nt, rs, rc)
    BY <2>5, <2>7
  <2> QED BY <2>8 DEF h, rc
<1> QED BY <1>5, <1>6

\* SACK arrives.
LEMMA SackOutcome ==
    ASSUME NEW e \in Endpoints, NEW s, NEW r, NEW nt, NEW rs, NEW ro, NEW p \in nt,
           Context(e, s, r, nt, rs, ro), p.to = e, p.type = "SACK", Reaches(s, p)
    PROVE  Outcome(e, s, onReceiveSack(e, s, p)[1], onReceiveSack(e, s, p)[2], r, nt, rs, ro)
<1> DEFINE h == onReceiveSack(e, s, p)
           b == AfterSack(s, p)
           acked == SackEnd(s, p).acked
           g == transmitPending(e, b)
           n == Issued(e, s)
           S == TsnsIn(s.mSentChunks)
           G == {y \in S : AckTsn(y, p)}
<1>1. IF ~acked THEN h[1] = b /\ h[2] = {} ELSE h[1] = g[1] /\ h[2] = g[2]
  BY DEF onReceiveSack, AfterSack, SackEnd
<1>2. DOMAIN s = Fields /\ s.mState # "Destroyed" /\ SessionInv(s) /\ IsTsn(s.mCurrentTsn)
      /\ InitRwnd + 1 <= Half /\ n \in Nat /\ n < Half /\ IsSeq(s.mSentChunks)
  BY ContextIs DEF Context, Accounts, Sized
<1>3. /\ Accounts(b) /\ b.mPeerRwnd = InitRwnd /\ b.mSentChunks = SackEnd(s, p).left
      /\ \A f \in Fields \ {"mPeerRwnd", "mSentChunks", "mFlightSize", "t3Rtx"} : b[f] = s[f]
      /\ acked = TRUE \/ acked = FALSE
  BY <1>2, AfterSackIs, Zenon
<1>4. TsnsIn(b.mSentChunks) = S \ G
  <2>1. TsnsIn(SackEnd(s, p).left) = {y \in S : ~AckTsn(y, p)}
    BY <1>2, SackKeeps
  <2> HIDE DEF b, S
  <2> QED BY <1>3, <2>1
<1> HIDE DEF b, h, acked
<1>5. Same(s, b) /\ b.mState = s.mState /\ IsTsn(b.mCurrentTsn)
  BY <1>2, <1>3 DEF Same, Fields
<1>6. G \subseteq rs
  <2>1. S \subseteq First(e, n)
    BY ContextIs DEF SenderInv
  <2>2. SackTrue(e, p.cumTsn, p.gaps, n, rs)
    BY <1>2 DEF Context, PairInv, PacketInv
  <2>3. (TsnAdd(InitialTsn[e], n) - p.cumTsn) % TsnCount <= GapCount
    <3>1. s.mCurrentTsn = TsnAdd(InitialTsn[e], n)
      BY <1>2, CurrentIs DEF IsTsn
    <3> QED BY <3>1 DEF Reaches
  <2> HIDE DEF S, n
  <2>4. ASSUME NEW y \in S, AckTsn(y, p) PROVE y \in rs
    BY <1>2, <2>1, <2>2, <2>3, <2>4, CoveredIsReceived
  <2> QED BY <2>4
<1>7. \E k : k <= Half /\ Grew(e, b, h[1], h[2], k)
  <2>1. Half \in Nat /\ InitRwnd \in Nat /\ 0 <= Half
    BY HalfFacts, SctpAssumption
  <2>2. Grew(e, b, b, {}, 0)
    <3>1. Kept(b, b)
      BY DEF Kept
    <3> QED BY <1>5, <3>1, GrewNothing
  <2>3. Grows(e, b, g[1], g[2])
    BY <1>3, <1>5, PendingGrows
  <2> HIDE DEF g
  <2>4. b.mFlightSize \in Nat
    BY <1>3, FlightIs
  <2>5. PICK k : Grew(e, b, g[1], g[2], k) /\ k <= InitRwnd
    BY <2>3, <2>4, GrowsLittle
  <2>6. k <= Half
    <3>1. k \in Nat
      BY <2>5 DEF Grew
    <3> HIDE DEF n
    <3> QED BY <1>2, <2>1, <2>5, <3>1
  <2>7. CASE acked = TRUE
    BY <1>1, <2>5, <2>6, <2>7
  <2>8. CASE acked = FALSE
    BY <1>1, <2>1, <2>2, <2>8
  <2> QED BY <1>3, <2>7, <2>8
<1>8. PICK k : k <= Half /\ Grew(e, b, h[1], h[2], k)
  BY <1>7
<1> HIDE DEF G
<1>9. Outcome(e, s, h[1], h[2], r, nt, rs, ro)
  BY <1>2, <1>4, <1>5, <1>6, <1>8, SentOutcome
<1> QED BY <1>9 DEF h

\* Whatever arrives.
LEMMA HandleOutcome ==
    ASSUME NEW e \in Endpoints, NEW s, NEW r, NEW nt, NEW rs, NEW ro, NEW rc, NEW p \in nt,
           Context(e, s, r, nt, rs, ro), p.to = e, p.type \in Types,
           p.type = "SACK" => Reaches(s, p),
           rc = IF p.type = "DATA" /\ TagAccepted(p) THEN ro \cup {p.chunk.tsn} ELSE ro
    PROVE  Outcome(e, s, Handle(e, s, p)[1], Handle(e, s, p)[2], r, nt, rs, rc)
<1> DEFINE h == Handle(e, s, p)
<1>1. CASE ~TagAccepted(p)
  <2>1. h[1] = s /\ h[2] = {} /\ rc = ro
    BY <1>1 DEF Handle
  <2> HIDE DEF h
  <2>2. Outcome(e, s, s, {}, r, nt, rs, ro)
    BY NothingOutcome
  <2> QED BY <2>1, <2>2 DEF h
<1>2. CASE TagAccepted(p) /\ p.type = "DATA"
  <2>1. h = onReceiveDataChunk(e, s, p.chunk) /\ rc = ro \cup {p.chunk.tsn} /\ p.tag = e
    BY <1>2 DEF Handle, TagAccepted
  <2> HIDE DEF h
  <2> QED BY <1>2, <2>1, DataOutcome DEF h
<1>3. CASE TagAccepted(p) /\ p.type # "DATA"
  <2>1. rc = ro
    BY <1>3
  <2>2. \/ p.type = "INIT" /\ h = onReceiveInit(e, s, p)
        \/ p.type = "INIT_ACK" /\ h = onReceiveInitAck(e, s, p)
        \/ h = onReceiveCookieEcho(e, s) \/ h = onReceiveCookieAck(e, s)
        \/ p.type = "SACK" /\ h = onReceiveSack(e, s, p)
    BY <1>3 DEF Handle, Types
  <2> HIDE DEF h
  <2>3. Outcome(e, s, h[1], h[2], r, nt, rs, ro)
    BY <2>2, InitOutcome, InitAckOutcome, CookieEchoArrives, CookieAckOutcome, SackOutcome
  <2> QED BY <2>1, <2>3 DEF h
<1> QED BY <1>1, <1>2, <1>3
-----------------------------------------------------------------------------
\* The actions.

\* What AckInv says of the next state.
LEMMA AckInvNextIs ==
    ASSUME DOMAIN received' = Endpoints, Addressed(net'),
           \A x \in Endpoints :
              /\ Still(ss'[x])
              /\ PairInv(x, ss'[x], ss'[Peer(x)], net', received'[Peer(x)])
    PROVE  AckInv'
BY DEF AckInv, Addressed, Still, PairInv, SenderInv, PacketInv, ReceiverInv, Met, SackTrue, UpTo,
       Issued, TsnsIn, First, TsnAdd, Peer, Endpoints, Idle, None

\* A live session finds its context.
LEMMA ContextHolds ==
    ASSUME SctpInv, HalfCircle, AckInv, NEW e \in Endpoints, ss[e].mState # "Destroyed"
    PROVE  Context(e, ss[e], ss[Peer(e)], net, received[Peer(e)], received[e])
<1> DEFINE y == Peer(e)
<1>1. y \in Endpoints /\ Peer(y) = e
  BY PeerIs
<1>2. PairInv(e, ss[e], ss[y], net, received[y]) /\ PairInv(y, ss[y], ss[e], net, received[e])
      /\ Addressed(net)
  BY <1>1 DEF AckInv
<1>3. SessionInv(ss[e]) /\ Issued(e, ss[e]) < Half
      /\ Len(ss[e].mDataChannels) + (InitRwnd + 1) <= Half
  BY DEF SctpInv, HalfCircle
<1>4. ss[y].mState # "Destroyed" => Issued(y, ss[y]) < Half
  BY <1>1 DEF HalfCircle
<1> QED BY <1>2, <1>3, <1>4 DEF Context

\* A session moves.
LEMMA OneMoves ==
    ASSUME SctpInv, HalfCircle, AckInv, NEW e \in Endpoints, NEW t, NEW out,
           ss[e].mState # "Destroyed", ss' = [ss EXCEPT ![e] = t], net' \subseteq net \cup out,
           DOMAIN received' = Endpoints, received'[Peer(e)] = received[Peer(e)],
           received[e] \subseteq received'[e],
           Outcome(e, ss[e], t, out, ss[Peer(e)], net, received[Peer(e)], received'[e])
    PROVE  AckInv'
<1> DEFINE y == Peer(e)
           s == ss[e]
           r == ss[y]
           rs == received[y]
           rc == received[e]
           rd == received'[e]
           nu == net'
<1>1. y \in Endpoints /\ y # e /\ Peer(y) = e /\ \A x \in Endpoints : x = e \/ x = y
  BY PeerIs
<1>2. ss'[e] = t /\ ss'[y] = r
  BY <1>1 DEF SctpInv
<1>3. PairInv(e, s, r, net, rs) /\ PairInv(y, r, s, net, rc) /\ Addressed(net) /\ Still(r)
  BY <1>1 DEF AckInv
<1>4. Issued(e, s) < Half
  BY DEF HalfCircle
<1>5. /\ Addressed(out) /\ t.mState # "Destroyed"
      /\ \E k, G : SenderMove(e, s, t, out, net, rs, k, G)
      /\ r.mState # "Destroyed" => ReceiverMove(y, r, s, t, out, rd)
  BY DEF Outcome
<1>6. nu \subseteq net \cup out /\ rc \subseteq rd /\ received'[y] = rs /\ s.mState # "Destroyed"
  OBVIOUS
<1> HIDE DEF y, s, r, rs, rc, rd, nu
<1>7. PICK k, G : SenderMove(e, s, t, out, net, rs, k, G)
  BY <1>5
<1>8. PairInv(e, t, r, nu, rs)
  BY <1>3, <1>4, <1>6, <1>7, SenderStep
<1>9. PairInv(y, r, t, nu, rd)
  <2>1. y \in Endpoints /\ PairInv(y, r, s, net, rc) /\ rc \subseteq rd /\ nu \subseteq net \cup out
    BY <1>1, <1>3, <1>6
  <2>2. /\ t.mState # "Destroyed" => s.mState # "Destroyed"
        /\ r.mState # "Destroyed" => ReceiverMove(y, r, s, t, out, rd)
    BY <1>5, <1>6
  <2>3. CASE r.mState = "Destroyed"
    BY <2>3 DEF PairInv
  <2>4. CASE r.mState # "Destroyed"
    <3>1. ReceiverMove(y, r, s, t, out, rd)
      BY <2>2, <2>4
    <3> QED BY <2>1, <2>2, <3>1, ReceiverStep
  <2> QED BY <2>3, <2>4
<1>10. Addressed(nu)
  BY <1>3, <1>5, <1>6 DEF Addressed
<1>11. Still(t) /\ Still(r)
  BY <1>3, <1>5 DEF Still
<1>12. PairInv(e, ss'[e], ss'[Peer(e)], net', received'[Peer(e)]) /\ Still(ss'[e])
  BY <1>2, <1>6, <1>8, <1>11 DEF y, nu
<1>13. PairInv(y, ss'[y], ss'[Peer(y)], net', received'[Peer(y)]) /\ Still(ss'[y])
  BY <1>1, <1>2, <1>9, <1>11 DEF nu, rd
<1>14. Addressed(net')
  BY <1>10 DEF nu
<1>15. \A x \in Endpoints : Still(ss'[x])
                            /\ PairInv(x, ss'[x], ss'[Peer(x)], net', received'[Peer(x)])
  BY <1>1, <1>12, <1>13
<1> QED BY <1>14, <1>15, AckInvNextIs

\* A handler that receives no DATA is applied.
LEMMA AppliedMoves ==
    ASSUME SctpInv, HalfCircle, AckInv, NEW e \in Endpoints, NEW h, NEW gone,
           ss[e].mState # "Destroyed", Apply(e, h, gone), received' = received,
           Outcome(e, ss[e], h[1], h[2], ss[Peer(e)], net, received[Peer(e)], received[e])
    PROVE  AckInv'
<1> DEFINE t == h[1]
           out == h[2]
<1>1. ss' = [ss EXCEPT ![e] = t] /\ net' = (net \ gone) \cup out
  BY DEF Apply
<1>2. net' \subseteq net \cup out /\ DOMAIN received = Endpoints
  BY <1>1 DEF AckInv
<1>3. Outcome(e, ss[e], t, out, ss[Peer(e)], net, received[Peer(e)], received'[e])
  OBVIOUS
<1> HIDE DEF t, out
<1> QED BY <1>1, <1>2, <1>3, OneMoves

\* start and the handshake's timers.
LEMMA HandshakeAck ==
    ASSUME SctpInv, HalfCircle, AckInv, NEW e \in Endpoints, start(e) \/ T1Init(e) \/ T1Cookie(e)
    PROVE  AckInv'
<1> DEFINE s == ss[e]
           r == ss[Peer(e)]
           rs == received[Peer(e)]
           ro == received[e]
<1>0. (s.t1Init # Idle => s.mState = "CookieWait") /\ Still(s)
  BY DEF SctpInv, SessionInv, Accounts, AckInv
<1>1. s.mState # "Destroyed"
  BY <1>0 DEF start, T1Init, T1Cookie, Still
<1>2. Context(e, s, r, net, rs, ro)
  BY <1>1, ContextHolds
<1>3. received' = received
  BY DEF start, T1Init, T1Cookie
<1>4. PICK h, n : /\ Apply(e, h, {})
                  /\ h = sendInit(e, s, n) \/ h = sendCookieEcho(e, s, n)
  BY DEF start, T1Init, T1Cookie
<1>5. Outcome(e, s, h[1], h[2], r, net, rs, ro)
  <2> HIDE DEF s, r, rs, ro
  <2> QED BY <1>2, <1>4, SendInitOutcome, CookieEchoOutcome
<1> QED BY <1>1, <1>3, <1>4, <1>5, AppliedMoves

\* T3 expires.
LEMMA RetransmitAck ==
    ASSUME SctpInv, HalfCircle, AckInv, NEW e \in Endpoints, retransmitOldest(e)
    PROVE  AckInv'
<1> DEFINE s == ss[e]
           r == ss[Peer(e)]
           rs == received[Peer(e)]
           ro == received[e]
           h == <<s, {Data(e, s, Head(s.mSentChunks))}, <<>>>>
<1>0. s.t3Rtx = (s.mSentChunks # <<>>) /\ Still(s)
  BY DEF SctpInv, SessionInv, Accounts, AckInv
<1>00. s.t3Rtx
  BY DEF retransmitOldest
<1>1. s.mSentChunks # <<>> /\ s.mState # "Destroyed"
  BY <1>0, <1>00 DEF Still
<1>2. Context(e, s, r, net, rs, ro)
  BY <1>1, ContextHolds
<1>3. received' = received /\ Apply(e, h, {})
  BY <1>1 DEF retransmitOldest
<1>4. h[1] = s /\ h[2] = {Data(e, s, Head(s.mSentChunks))}
  OBVIOUS
<1> HIDE DEF h
<1>5. Outcome(e, s, h[1], h[2], r, net, rs, ro)
  <2> HIDE DEF s, r, rs, ro
  <2>1. Outcome(e, s, s, {Data(e, s, Head(s.mSentChunks))}, r, net, rs, ro)
    BY <1>1, <1>2, RetransmitOutcome
  <2> QED BY <1>4, <2>1
<1> QED BY <1>1, <1>3, <1>5, AppliedMoves

\* A datagram arrives.
LEMMA ReceiveAck ==
    ASSUME SctpInv, HalfCircle, GapsReach, AckInv, NEW e \in Endpoints, NEW type \in Types,
           onReceiveData(e, type)
    PROVE  AckInv'
<1> DEFINE s == ss[e]
           r == ss[Peer(e)]
           rs == received[Peer(e)]
           ro == received[e]
<1>1. PICK p \in net : /\ p.to = e /\ p.type = type /\ Apply(e, Handle(e, ss[e], p), {p})
                       /\ received' = IF type = "DATA" /\ TagAccepted(p)
                             THEN [received EXCEPT ![e] = @ \cup {p.chunk.tsn}] ELSE received
  BY DEF onReceiveData
<1> DEFINE h == Handle(e, s, p)
           t == h[1]
           out == h[2]
           rc == IF p.type = "DATA" /\ TagAccepted(p) THEN ro \cup {p.chunk.tsn} ELSE ro
<1>2. s.mState # "Destroyed"
  BY DEF onReceiveData, Alive
<1>3. Context(e, s, r, net, rs, ro)
  BY <1>2, ContextHolds
<1>4. ss' = [ss EXCEPT ![e] = t] /\ net' \subseteq net \cup out
  BY <1>1 DEF Apply
<1>5. /\ DOMAIN received' = Endpoints /\ received'[e] = rc
      /\ received'[Peer(e)] = rs
  <2>1. DOMAIN received = Endpoints /\ Peer(e) \in Endpoints /\ Peer(e) # e
    BY PeerIs DEF AckInv
  <2> QED BY <1>1, <2>1
<1>6. ro \subseteq rc
  OBVIOUS
<1>7. Outcome(e, s, t, out, r, net, rs, rc)
  <2>1. p.to = e /\ p.type \in Types
    BY <1>1
  <2>2. rc = IF p.type = "DATA" /\ TagAccepted(p) THEN ro \cup {p.chunk.tsn} ELSE ro
    OBVIOUS
  <2>3. p.type = "SACK" => Reaches(s, p)
    BY <1>2, <2>1 DEF GapsReach
  <2> HIDE DEF s, r, rs, ro, rc
  <2> QED BY <1>3, <2>1, <2>2, <2>3, HandleOutcome
<1> HIDE DEF t, out, rc, h
<1>8. Outcome(e, ss[e], t, out, ss[Peer(e)], net, received[Peer(e)], received'[e])
  BY <1>5, <1>7
<1>9. received[e] \subseteq received'[e]
  BY <1>5, <1>6
<1> QED BY <1>2, <1>4, <1>5, <1>8, <1>9, OneMoves

\* The peer resets a stream.
LEMMA ReconfigAck ==
    ASSUME SctpInv, HalfCircle, AckInv, NEW e \in Endpoints, NEW stream, ReceiveReconfig(e, stream)
    PROVE  AckInv'
<1> DEFINE s == ss[e]
           r == ss[Peer(e)]
           rs == received[Peer(e)]
           ro == received[e]
           h == onReceiveReconfig(s, stream)
<1>1. s.mState # "Destroyed" /\ received' = received /\ Apply(e, h, {})
  BY DEF ReceiveReconfig, Alive
<1>2. Context(e, s, r, net, rs, ro)
  BY <1>1, ContextHolds
<1>3. Outcome(e, s, h[1], h[2], r, net, rs, ro)
  <2> HIDE DEF s, r, rs, ro
  <2> QED BY <1>2, ReconfigOutcome
<1> HIDE DEF h
<1> QED BY <1>1, <1>3, AppliedMoves

\* The application sends a message.
LEMMA MessageAck ==
    ASSUME SctpInv, HalfCircle, AckInv, NEW e \in Endpoints, NEW label, NEW size \in Sizes,
           sendDataChannelMessage(e, label, size)
    PROVE  AckInv'
<1> DEFINE s == ss[e]
           r == ss[Peer(e)]
           rs == received[Peer(e)]
           ro == received[e]
           msg == [id |-> Len(queued[e]) + 1, label |-> label, size |-> size]
           queue == Append(s.mDataSendQueue, msg)
           kept == IF Len(queue) > SendQueueCap THEN Tail(queue) ELSE queue
           x == send(e, s, msg)
<1>1. PICK h : Apply(e, h, {}) /\ h = IF isChannelOpen(s, label)
                       THEN <<x[1], x[2], <<>>>>
                       ELSE <<[s EXCEPT !.mDataSendQueue = kept], {}, <<>>>>
  BY DEF sendDataChannelMessage
<1>2. s.mState # "Destroyed" /\ received' = received
  BY DEF sendDataChannelMessage
<1>3. msg.size \in Sizes
  OBVIOUS
<1>4. Context(e, s, r, net, rs, ro)
  BY <1>2, ContextHolds
<1> HIDE DEF kept, msg
<1>5. (h[1] = x[1] /\ h[2] = x[2]) \/ (h[1] = WithQueue(s, kept) /\ h[2] = {})
  <2> HIDE DEF x
  <2> QED BY <1>1 DEF WithQueue
<1>6. Outcome(e, s, h[1], h[2], r, net, rs, ro)
  <2> HIDE DEF s, r, rs, ro
  <2>1. Outcome(e, s, x[1], x[2], r, net, rs, ro) /\ Outcome(e, s, WithQueue(s, kept), {}, r, net, rs, ro)
    BY <1>3, <1>4, MessageOutcome
  <2> HIDE DEF x
  <2> QED BY <1>5, <2>1
<1> HIDE DEF x
<1> QED BY <1>1, <1>2, <1>6, AppliedMoves

\* A session ends.
LEMMA DestroyAck ==
    ASSUME SctpInv, AckInv, NEW e \in Endpoints, Destroy(e)
    PROVE  AckInv'
<1> DEFINE y == Peer(e)
           t == [NewSession(e) EXCEPT !.mState = "Destroyed"]
           r == ss[y]
<1>1. y \in Endpoints /\ y # e /\ Peer(y) = e /\ \A x \in Endpoints : x = e \/ x = y
  BY PeerIs
<1>2. ss' = [ss EXCEPT ![e] = t] /\ received' = received /\ net' = net
  BY DEF Destroy, Apply
<1>3. t.mState = "Destroyed" /\ t.t1Cookie = Idle /\ t.mSentChunks = <<>>
  BY DEF NewSession
<1> HIDE DEF t
<1>4. ss'[e] = t /\ ss'[y] = r
  BY <1>1, <1>2 DEF SctpInv
<1>5. PairInv(y, r, ss[e], net, received[e]) /\ Still(r) /\ Addressed(net)
      /\ DOMAIN received = Endpoints
  BY <1>1 DEF AckInv
<1> HIDE DEF y, r
<1>6. PairInv(y, r, t, net, received[e])
  BY <1>3, <1>5 DEF PairInv
<1>7. PairInv(e, t, r, net, received[y]) /\ Still(t)
  BY <1>3 DEF PairInv, Still
<1>8. PairInv(e, ss'[e], ss'[Peer(e)], net', received'[Peer(e)]) /\ Still(ss'[e])
  BY <1>2, <1>4, <1>7 DEF y
<1>9. PairInv(y, ss'[y], ss'[Peer(y)], net', received'[Peer(y)]) /\ Still(ss'[y])
  BY <1>1, <1>2, <1>4, <1>5, <1>6
<1>10. \A x \in Endpoints : Still(ss'[x])
                            /\ PairInv(x, ss'[x], ss'[Peer(x)], net', received'[Peer(x)])
  BY <1>1, <1>8, <1>9
<1>11. Addressed(net') /\ DOMAIN received' = Endpoints
  BY <1>2, <1>5
<1> QED BY <1>10, <1>11, AckInvNextIs

\* The network loses a datagram, or nothing happens.
LEMMA LossAck ==
    ASSUME AckInv, ss' = ss, received' = received, net' \subseteq net
    PROVE  AckInv'
<1>1. ASSUME NEW x \in Endpoints
      PROVE  Still(ss'[x]) /\ PairInv(x, ss'[x], ss'[Peer(x)], net', received'[Peer(x)])
  <2> DEFINE s == ss[x]
             r == ss[Peer(x)]
             rc == received[Peer(x)]
             nt == net
             nu == net'
  <2>1. Still(s) /\ PairInv(x, s, r, nt, rc) /\ nu \subseteq nt
    BY DEF AckInv
  <2> HIDE DEF s, r, rc, nt, nu
  <2>2. Met(x, s, nu) => Met(x, s, nt)
    BY <2>1 DEF Met
  <2>3. PairInv(x, s, r, nu, rc)
    BY <2>1, <2>2 DEF PairInv, ReceiverInv
  <2> QED BY <2>1, <2>3 DEF s, r, rc, nu
<1>2. Addressed(net') /\ DOMAIN received' = Endpoints
  <2> DEFINE nt == net
             nu == net'
  <2>1. Addressed(nt) /\ nu \subseteq nt /\ DOMAIN received = Endpoints
    BY DEF AckInv
  <2> HIDE DEF nt, nu
  <2>2. Addressed(nu)
    BY <2>1 DEF Addressed
  <2> QED BY <2>1, <2>2 DEF nu
<1> QED BY <1>1, <1>2, AckInvNextIs

\* Every step keeps what is acknowledged received.
LEMMA AckInvNext == SctpInv /\ HalfCircle /\ GapsReach /\ AckInv /\ [Next]_vars => AckInv'
<1> SUFFICES ASSUME SctpInv, HalfCircle, GapsReach, AckInv, [Next]_vars PROVE AckInv'
  OBVIOUS
<1>1. CASE UNCHANGED vars
  BY <1>1, LossAck DEF vars
<1>2. ASSUME NEW p \in net, Lose(p) PROVE AckInv'
  <2>1. ss' = ss /\ received' = received /\ net' \subseteq net
    BY <1>2 DEF Lose
  <2> QED BY <2>1, LossAck
<1>3. ASSUME NEW e \in Endpoints,
             start(e) \/ T1Init(e) \/ T1Cookie(e) \/ retransmitOldest(e) \/ Destroy(e)
      PROVE  AckInv'
  BY <1>3, HandshakeAck, RetransmitAck, DestroyAck
<1>4. ASSUME NEW e \in Endpoints, NEW type \in Types, onReceiveData(e, type) PROVE AckInv'
  BY <1>4, ReceiveAck
<1>5. ASSUME NEW e \in Endpoints, NEW stream \in ResetStreams, ReceiveReconfig(e, stream)
      PROVE  AckInv'
  BY <1>5, ReconfigAck
<1>6. ASSUME NEW e \in Endpoints, NEW label \in AllLabels, NEW size \in Sizes,
             sendDataChannelMessage(e, label, size)
      PROVE  AckInv'
  BY <1>6, MessageAck
<1> QED BY <1>1, <1>2, <1>3, <1>4, <1>5, <1>6 DEF Next

\* Two new sessions, and nothing sent.
LEMMA AckInvInit == Init => AckInv
<1> SUFFICES ASSUME Init PROVE AckInv
  OBVIOUS
<1>1. DOMAIN received = Endpoints /\ Addressed(net) /\ net = {}
  BY DEF Init, Addressed
<1>2. ASSUME NEW x \in Endpoints
      PROVE  Still(ss[x]) /\ PairInv(x, ss[x], ss[Peer(x)], net, received[Peer(x)])
  <2> DEFINE y == Peer(x)
             s == ss[x]
             r == ss[y]
             rc == received[y]
             I == InitialTsn[x]
  <2>1. y \in Endpoints /\ y # None
    <3>1. y \in Endpoints
      BY PeerIs
    <3> HIDE DEF y
    <3> QED BY <3>1, PeerIs
  <2>2. s = NewSession(x) /\ r = NewSession(y)
    BY <2>1 DEF Init
  <2>3. /\ s.mState = "New" /\ s.mCurrentTsn = I /\ s.mPeerTag = None /\ s.mSentChunks = <<>>
        /\ r.mPeerOutOfOrderTsns = {}
    BY <2>2 DEF NewSession
  <2>4. I \in 0..(TsnCount - 1) /\ I \in Int /\ TsnCount \in Nat /\ TsnCount > 0
    BY InitialIs, Circle
  <2> HIDE DEF s, r, rc, I
  <2>5. (I - I) % TsnCount = 0
    <3>1. I - I = 0
      BY <2>4
    <3>2. 0 % TsnCount = 0
      BY <2>4
    <3> QED BY <3>1, <3>2
  <2>6. Issued(x, s) = 0 /\ First(x, Issued(x, s)) = {}
    <3>1. Issued(x, s) = 0
      BY <2>3, <2>5 DEF Issued, I
    <3>2. First(x, 0) = {}
      BY DEF First
    <3> QED BY <3>1, <3>2
  <2>7. TsnsIn(s.mSentChunks) = {}
    <3> DEFINE q == <<>>
    <3>1. Len(q) = 0
      OBVIOUS
    <3> HIDE DEF q
    <3>2. TsnsIn(q) = {}
      BY <3>1 DEF TsnsIn
    <3> QED BY <2>3, <3>2 DEF q
  <2>8. SenderInv(x, s, rc)
    BY <2>3, <2>4, <2>6, <2>7 DEF SenderInv
  <2>9. ~Met(x, s, net)
    BY <1>1, <2>1, <2>3 DEF Met
  <2>10. ReceiverInv(x, s, r, net, rc)
    BY <2>3, <2>9 DEF ReceiverInv
  <2>11. PairInv(x, s, r, net, rc) /\ Still(s)
    BY <1>1, <2>3, <2>8, <2>10 DEF PairInv, Still
  <2> QED BY <2>11 DEF s, r, rc
<1> QED BY <1>1, <1>2 DEF AckInv

\* The invariant says what AckedWasReceived says.
LEMMA AckInvSuffices == SctpInv /\ AckInv => AckedWasReceived
<1> SUFFICES ASSUME SctpInv, AckInv, NEW e \in Endpoints, ss[e].mState # "Destroyed"
             PROVE  (AssignedTsns(e) \ SentTsns(e)) \subseteq received[Peer(e)]
  BY DEF AckedWasReceived
<1> DEFINE q == ss[e].mSentChunks
<1>1. SenderInv(e, ss[e], received[Peer(e)])
  BY DEF AckInv, PairInv
<1>2. AssignedTsns(e) = First(e, Issued(e, ss[e]))
  BY DEF AssignedTsns, First, Issued
<1>3. IsSeq(q)
  BY DEF SctpInv, SessionInv, Accounts, Sized
<1>4. SentTsns(e) = {c.tsn : c \in ToSet(q)}
  BY DEF SentTsns
<1>5. {c.tsn : c \in ToSet(q)} = TsnsIn(q)
  <2> HIDE DEF q
  <2>1. Len(q) \in Nat /\ DOMAIN q = 1..Len(q)
    BY <1>3, SeqIs
  <2> QED BY <2>1 DEF ToSet, TsnsIn
<1> QED BY <1>1, <1>2, <1>4, <1>5 DEF SenderInv

\* A chunk leaves mSentChunks only when the peer's session has processed it: no SACK,
\* however late, and no INIT or INIT_ACK that makes onReceiveInit or onReceiveInitAck
\* take over the first TSN again, acknowledges what never arrived.  It holds as long as
\* two things are so, and the code ensures neither.  No session has given out half of the
\* circle of TSNs, 2^31: a SACK that is older than that tells nothing,
\* static_cast<int32_t> taking it for a new one.  And no SACK is more than 2^16 TSNs
\* behind what its receiver has given out: sendSack and onReceiveSack cut gap offsets to
\* 16 bits, so that a gap block would also cover the chunk 2^16 further on.  kInitRwnd,
\* 131072 bytes, leaves room for as many chunks in flight when they are of one byte.
THEOREM AcknowledgedArrived == Spec /\ []HalfCircle /\ []GapsReach => []AckedWasReceived
<1>1. Spec => []SctpInv
  BY SessionInvariant
<1>2. Spec /\ []HalfCircle /\ []GapsReach /\ []SctpInv => []AckInv
  BY AckInvInit, AckInvNext, PTL DEF Spec
<1> QED BY <1>1, <1>2, AckInvSuffices, PTL
-----------------------------------------------------------------------------
\* What the listener is told.

\* One channel, which one endpoint is created with; messages of one size; fewer of them
\* than there are SSNs; and no stream is reset.
Owner == CHOOSE e \in Endpoints : Labels[e] # <<>>
Label == Labels[Owner][1]
Stream == FirstStreamId(Owner)
Size == CHOOSE n : n \in Sizes

OneChannel == \E e \in Endpoints : Len(Labels[e]) = 1 /\ Labels[Peer(e)] = <<>>
OneSize == \E n : Sizes = {n}
FewMessages == \A e \in Endpoints : MaxMessages[e] \in Nat /\ MaxMessages[e] < SsnCount
OneStream == OneChannel /\ OneSize /\ FewMessages /\ ResetStreams = {}

\* What became of the messages of an endpoint: h.ids are those that were given an SSN, in the
\* order of the SSNs; all others up to h.last wait for the window or are gone, and the ones
\* that wait are after h.sent.
Rising(h) ==
    /\ IsSeq(h.ids) /\ h.sent \in Nat /\ h.last \in Nat /\ h.sent <= h.last
    /\ \A i \in 1..Len(h.ids) :
          /\ h.ids[i] \in Nat /\ h.ids[i] <= h.sent
          /\ \A j \in 1..Len(h.ids) : i < j => h.ids[i] < h.ids[j]

\* Messages that wait, in ascending order, after lo and up to hi.
Waits(q, lo, hi) ==
    /\ IsSeq(q)
    /\ \A i \in 1..Len(q) :
          /\ q[i].label = Label /\ q[i].size = Size
          /\ q[i].id \in Nat /\ lo < q[i].id /\ q[i].id <= hi
          /\ \A j \in 1..Len(q) : i < j => q[i].id < q[j].id

\* A chunk of the stream: its SSN tells which message it is part of.
ChunkOf(c, ids) ==
    /\ c.streamId = Stream
    /\ \/ c.kind = "user" /\ c.ssn \in 0..(Len(ids) - 1) /\ c.data[1] = ids[c.ssn + 1]
       \/ c.kind \in {"open", "ack"} /\ c.ssn = 0 /\ c.data = Label

ChunksOf(q, ids) == \A i \in 1..Len(q) : ChunkOf(q[i], ids)

OnStream(q) ==
    \A i \in 1..Len(q) :
        q[i] = [label |-> Label, streamId |-> Stream, state |-> q[i].state,
                receiveBuffer |-> q[i].receiveBuffer, sendSsn |-> q[i].sendSsn]
NoneOpen(q) == \A i \in 1..Len(q) : q[i].state # "kOpen"

\* The channel and the chunks of a sender that has given SSNs to ids.
Holds(s, ids) ==
    /\ OnStream(s.mDataChannels)
    /\ IF s.mDataChannels = <<>> THEN Len(ids) = 0
       ELSE s.mDataChannels[1].sendSsn = Len(ids)
    /\ \A i \in 1..Len(s.mSentChunks) : ChunkOf(s.mSentChunks[i], ids)

\* The messages that wait for the window, which with the sent ones are at most c.
Line(s, h, c) ==
    /\ Rising(h) /\ Holds(s, h.ids) /\ Waits(s.mPendingSend, h.sent, h.last)
    /\ Len(h.ids) + Len(s.mPendingSend) <= c

\* They wait because there is no room.
NoRoom(s) == s.mFlightSize + Size > InitRwnd
WaitForRoom(s) == s.mPendingSend # <<>> => s.mPeerRwnd = InitRwnd /\ NoRoom(s)

\* A sender that was given m messages; some wait for the channel to open.
SendInv(s, h, m) ==
    /\ Line(s, h, m - Len(s.mDataSendQueue)) /\ WaitForRoom(s)
    /\ Waits(s.mDataSendQueue, h.last, m) /\ h.last <= m
    /\ s.mDataSendQueue # <<>> => NoneOpen(s.mDataChannels)

\* A receive buffer: under an SSN there are only pieces of its message, and what was told
\* has SSNs before mNextSsn.
PendingOf(f, ids) ==
    \A n \in DOMAIN f :
        /\ n \in 0..(Len(ids) - 1)
        /\ f[n] = [payload |-> f[n].payload, complete |-> f[n].complete]
        /\ IsSeq(f[n].payload) /\ f[n].payload # <<>> /\ f[n].payload[1][1] = ids[n + 1]

ToldUpTo(ev, ids, n) ==
    \A i \in 1..Len(ev) : IsMessage(ev[i]) =>
        \E k \in 1..Len(ids) : k <= n /\ MessageId(ev[i]) = ids[k]

BufferInv(b, ev, ids) ==
    /\ b = [mNextSsn |-> b.mNextSsn, mPending |-> b.mPending]
    /\ b.mNextSsn \in 0..(SsnCount - 1)
    /\ PendingOf(b.mPending, ids) /\ ToldUpTo(ev, ids, b.mNextSsn)

HearInv(s, ev, ids) ==
    IF s.mDataChannels = <<>> THEN \A i \in 1..Len(ev) : ~IsMessage(ev[i])
    ELSE BufferInv(s.mDataChannels[1].receiveBuffer, ev, ids)

Told(ev) ==
    /\ IsSeq(ev)
    /\ \A i, j \in 1..Len(ev) :
          i < j /\ IsMessage(ev[i]) /\ IsMessage(ev[j]) => MessageId(ev[i]) < MessageId(ev[j])

\* The datagrams of nt that carry DATA from x.
Carries(x, nt, ids) == \A p \in nt : p.type = "DATA" /\ p.to = Peer(x) => ChunkOf(p.chunk, ids)

\* From x, whose session is s, to its peer, whose session is r: nt is in flight, ev was told
\* and m messages were given to x.
WayInv(x, s, r, nt, ev, m, h) ==
    /\ Rising(h) /\ Len(h.ids) <= m /\ Carries(x, nt, h.ids) /\ ChunksOf(s.mSentChunks, h.ids)
    /\ s.mState # "Destroyed" => SendInv(s, h, m)
    /\ r.mState # "Destroyed" => HearInv(r, ev, h.ids)

OrderInv ==
    /\ DOMAIN events = Endpoints /\ DOMAIN queued = Endpoints
    /\ \A x \in Endpoints :
          /\ Told(events[x]) /\ IsSeq(queued[x]) /\ Len(queued[x]) <= MaxMessages[x]
          /\ \E h : WayInv(x, ss[x], ss[Peer(x)], net, events[Peer(x)], Len(queued[x]), h)
-----------------------------------------------------------------------------
\* Sequences that get longer.

Extends(f, g) == Len(f) <= Len(g) /\ \A i \in 1..Len(f) : g[i] = f[i]

\* What a chunk, a sender and a receiver have to do with ids they have with more of them.
LEMMA ChunkOfMore ==
    ASSUME NEW f, NEW g, IsSeq(f), IsSeq(g), Extends(f, g), NEW c, ChunkOf(c, f)
    PROVE  ChunkOf(c, g)
<1>1. Len(f) \in Nat /\ Len(g) \in Nat /\ Len(f) <= Len(g)
  BY SeqIs DEF Extends
<1>2. ASSUME c.ssn \in 0..(Len(f) - 1)
      PROVE  c.ssn \in 0..(Len(g) - 1) /\ g[c.ssn + 1] = f[c.ssn + 1]
  <2>1. c.ssn \in 0..(Len(g) - 1) /\ c.ssn + 1 \in 1..Len(f)
    BY <1>1, <1>2
  <2> QED BY <2>1 DEF Extends
<1> QED BY <1>2 DEF ChunkOf

LEMMA HearMore ==
    ASSUME NEW f, NEW g, IsSeq(f), IsSeq(g), Extends(f, g), NEW s, NEW ev, HearInv(s, ev, f)
    PROVE  HearInv(s, ev, g)
<1> DEFINE b == s.mDataChannels[1].receiveBuffer
<1>0. Len(f) \in Nat /\ Len(g) \in Nat /\ Len(f) <= Len(g)
  BY SeqIs DEF Extends
<1>1. CASE s.mDataChannels = <<>>
  BY <1>1 DEF HearInv
<1>2. CASE s.mDataChannels # <<>>
  <2>1. BufferInv(b, ev, f)
    BY <1>2 DEF HearInv
  <2> HIDE DEF b
  <2>2. PendingOf(b.mPending, g)
    <3> DEFINE P == b.mPending
    <3>1. PendingOf(P, f)
      BY <2>1 DEF BufferInv
    <3> HIDE DEF P
    <3>2. ASSUME NEW n \in DOMAIN P
          PROVE  n \in 0..(Len(g) - 1) /\ g[n + 1] = f[n + 1]
      <4>1. n \in 0..(Len(f) - 1)
        BY <3>1 DEF PendingOf
      <4>2. n + 1 \in 1..Len(f) /\ n \in 0..(Len(g) - 1)
        BY <1>0, <4>1
      <4> QED BY <4>2 DEF Extends
    <3>3. PendingOf(P, g)
      BY <3>1, <3>2 DEF PendingOf
    <3> QED BY <3>3 DEF P
  <2>3. ToldUpTo(ev, g, b.mNextSsn)
    <3> DEFINE n == b.mNextSsn
    <3>1. ToldUpTo(ev, f, n)
      BY <2>1 DEF BufferInv
    <3> HIDE DEF n
    <3>2. \A k \in 1..Len(f) : k \in 1..Len(g) /\ g[k] = f[k]
      BY <1>0 DEF Extends
    <3>3. ToldUpTo(ev, g, n)
      BY <3>1, <3>2 DEF ToldUpTo
    <3> QED BY <3>3 DEF n
  <2>4. BufferInv(b, ev, g)
    BY <2>1, <2>2, <2>3 DEF BufferInv
  <2> QED BY <1>2, <2>4 DEF HearInv, b
<1> QED BY <1>1, <1>2

LEMMA CarriesMore ==
    ASSUME NEW f, NEW g, IsSeq(f), IsSeq(g), Extends(f, g), NEW x, NEW nt, Carries(x, nt, f)
    PROVE  Carries(x, nt, g)
BY ChunkOfMore DEF Carries

\* One more message is given an SSN.
LEMMA RisingMore ==
    ASSUME NEW h, Rising(h), NEW k \in Nat, NEW n \in Nat, h.sent < k, k <= n
    PROVE  /\ Rising([ids |-> Append(h.ids, k), sent |-> k, last |-> n])
           /\ Extends(h.ids, Append(h.ids, k)) /\ IsSeq(Append(h.ids, k))
           /\ Len(Append(h.ids, k)) = Len(h.ids) + 1
<1> DEFINE f == h.ids
           g == Append(f, k)
           r == [ids |-> g, sent |-> k, last |-> n]
<1>1. IsSeq(f) /\ Len(f) \in Nat /\ h.sent \in Nat
  BY SeqIs DEF Rising
<1>2. IsSeq(g) /\ Len(g) = Len(f) + 1 /\ (\A i \in 1..Len(f) : g[i] = f[i]) /\ g[Len(f) + 1] = k
  <2> HIDE DEF f
  <2> QED BY <1>1, AppendIs
<1>3. \A i \in 1..Len(f) : f[i] \in Nat /\ f[i] <= h.sent
                           /\ \A j \in 1..Len(f) : i < j => f[i] < f[j]
  BY DEF Rising
<1> HIDE DEF f, g
<1>4. ASSUME NEW i \in 1..Len(g)
      PROVE  /\ g[i] \in Nat /\ g[i] <= k
             /\ \A j \in 1..Len(g) : i < j => g[i] < g[j]
  <2>1. CASE i = Len(f) + 1
    BY <1>1, <1>2, <2>1
  <2>2. CASE i \in 1..Len(f)
    <3>1. g[i] = f[i] /\ f[i] \in Nat /\ f[i] <= h.sent /\ f[i] < k
      BY <1>1, <1>2, <1>3, <2>2
    <3>2. ASSUME NEW j \in 1..Len(g), i < j PROVE g[i] < g[j]
      <4>1. CASE j = Len(f) + 1
        BY <1>2, <3>1, <4>1
      <4>2. CASE j \in 1..Len(f)
        BY <1>2, <1>3, <2>2, <3>1, <3>2, <4>2
      <4> QED BY <1>1, <1>2, <4>1, <4>2
    <3> QED BY <1>1, <3>1, <3>2
  <2> QED BY <1>1, <1>2, <2>1, <2>2
<1>5. Rising(r)
  BY <1>2, <1>4 DEF Rising
<1>6. Extends(f, g)
  BY <1>1, <1>2 DEF Extends
<1> QED BY <1>2, <1>5, <1>6 DEF f, g

\* The one channel is the first in the list.
LEMMA FirstChannel ==
    ASSUME NEW s, IsSeq(s.mDataChannels), OnStream(s.mDataChannels)
    PROVE  /\ ChannelByLabel(s, Label) = IF s.mDataChannels = <<>> THEN 0 ELSE 1
           /\ ChannelByStream(s, Stream) = IF s.mDataChannels = <<>> THEN 0 ELSE 1
<1> DEFINE q == s.mDataChannels
           L == {i \in 1..Len(q) : q[i].label = Label}
           S == {i \in 1..Len(q) : q[i].streamId = Stream}
           I == 1..Len(q)
<1>1. Len(q) \in Nat /\ (q = <<>> <=> Len(q) = 0)
  BY SeqIs, EmptyIs
<1>2. L = I /\ S = I
  <2>1. \A i \in 1..Len(q) :
           q[i] = [label |-> Label, streamId |-> Stream, state |-> q[i].state,
                   receiveBuffer |-> q[i].receiveBuffer, sendSsn |-> q[i].sendSsn]
    BY DEF OnStream
  <2> HIDE DEF q
  <2>2. ASSUME NEW i \in 1..Len(q) PROVE q[i].label = Label /\ q[i].streamId = Stream
    <3> DEFINE c == q[i]
    <3>1. c = [label |-> Label, streamId |-> Stream, state |-> c.state,
               receiveBuffer |-> c.receiveBuffer, sendSsn |-> c.sendSsn]
      BY <2>1
    <3> HIDE DEF c
    <3>2. c.label = Label /\ c.streamId = Stream
      BY <3>1
    <3> QED BY <3>2 DEF c
  <2> QED BY <2>2
<1>3. ChannelByLabel(s, Label) = (IF L # {} THEN Min(L) ELSE 0)
      /\ ChannelByStream(s, Stream) = (IF S # {} THEN Min(S) ELSE 0)
  BY DEF ChannelByLabel, ChannelByStream, SelectInSeq
<1> HIDE DEF L, S, q
<1>4. CASE q = <<>>
  BY <1>1, <1>2, <1>3, <1>4 DEF q
<1>5. CASE q # <<>>
  <2>1. 1 \in I /\ I # {} /\ I \in SUBSET Nat /\ \A i \in I : 1 <= i
    BY <1>1, <1>5
  <2> HIDE DEF I
  <2>2. Min(I) \in I /\ Min(I) <= 1
    BY <2>1, MinOfNats
  <2>3. Min(I) = 1
    <3> DEFINE x == Min(I)
    <3>1. x \in I /\ x <= 1
      BY <2>2
    <3> HIDE DEF x
    <3>2. x \in Nat /\ 1 <= x
      BY <2>1, <3>1
    <3>3. x = 1
      BY <3>1, <3>2
    <3> QED BY <3>3 DEF x
  <2> QED BY <1>2, <1>3, <1>5, <2>1, <2>3 DEF q
<1> QED BY <1>4, <1>5

-----------------------------------------------------------------------------
\* Sending, on the one channel.

\* What sending does not touch.
Quiet(s, t) ==
    /\ t.mState = s.mState /\ t.mPeerRwnd = s.mPeerRwnd /\ t.mDataSendQueue = s.mDataSendQueue
    /\ IsSeq(t.mDataChannels) /\ Len(t.mDataChannels) = Len(s.mDataChannels)
    /\ \A i \in 1..Len(s.mDataChannels) :
          /\ t.mDataChannels[i].state = s.mDataChannels[i].state
          /\ t.mDataChannels[i].receiveBuffer = s.mDataChannels[i].receiveBuffer

\* The DATA among the datagrams that e sends.
Brings(e, out, ids) ==
    \A p \in out : p.type = "DATA" => p.to = Peer(e) /\ ChunkOf(p.chunk, ids)

\* The chunks of one sequence, then of another.
LEMMA ChunksJoin ==
    ASSUME NEW q, NEW r, IsSeq(q), IsSeq(r), NEW ids, ChunksOf(q, ids), ChunksOf(r, ids)
    PROVE  ChunksOf(q \o r, ids)
<1> DEFINE w == q \o r
<1>1. /\ IsSeq(w) /\ Len(w) = Len(q) + Len(r)
      /\ \A i \in 1..Len(q) : w[i] = q[i]
      /\ \A i \in 1..Len(r) : w[Len(q) + i] = r[i]
  BY ConcatIs
<1>2. Len(q) \in Nat /\ Len(r) \in Nat
  BY SeqIs
<1> HIDE DEF w
<1>3. ASSUME NEW i \in 1..Len(w) PROVE ChunkOf(w[i], ids)
  <2>1. CASE i \in 1..Len(q)
    BY <1>1, <2>1 DEF ChunksOf
  <2>2. CASE i \notin 1..Len(q)
    <3> DEFINE j == i - Len(q)
    <3>1. j \in 1..Len(r) /\ Len(q) + j = i
      BY <1>1, <1>2, <2>2
    <3> HIDE DEF j
    <3>2. w[i] = r[j]
      BY <1>1, <3>1
    <3> QED BY <3>1, <3>2 DEF ChunksOf
  <2> QED BY <2>1, <2>2
<1>4. ChunksOf(w, ids)
  BY <1>3 DEF ChunksOf
<1> QED BY <1>4 DEF w

\* Datagrams of chunks.
LEMMA PacketsBring ==
    ASSUME NEW e, NEW s, NEW q, IsSeq(q), NEW ids, ChunksOf(q, ids)
    PROVE  Brings(e, DataPackets(e, s, q), ids)
<1>1. Len(q) \in Nat /\ DOMAIN q = 1..Len(q)
  BY SeqIs
<1>2. ASSUME NEW p \in DataPackets(e, s, q)
      PROVE  p.to = Peer(e) /\ ChunkOf(p.chunk, ids)
  <2>1. PICK c \in ToSet(q) : p = Data(e, s, c)
    BY DEF DataPackets
  <2>2. \E i \in 1..Len(q) : c = q[i]
    BY <1>1 DEF ToSet
  <2>3. PICK i \in 1..Len(q) : c = q[i]
    BY <2>2
  <2>4. p.to = Peer(e) /\ p.chunk = c
    BY <2>1 DEF Data
  <2> QED BY <2>3, <2>4 DEF ChunksOf
<1> QED BY <1>2 DEF Brings

\* Chunks of the stream are transmitted.
LEMMA TransmitHolds ==
    ASSUME NEW s, NEW ids, NEW chunks, Accounts(s), Sized(chunks, Positive), chunks # <<>>,
           Holds(s, ids), ChunksOf(chunks, ids)
    PROVE  /\ Holds(Transmit(s, chunks), ids) /\ Quiet(s, Transmit(s, chunks))
           /\ Transmit(s, chunks).mPendingSend = s.mPendingSend
           /\ s.mFlightSize <= Transmit(s, chunks).mFlightSize
<1> DEFINE t == Transmit(s, chunks)
           q == s.mSentChunks \o chunks
<1>1. /\ Accounts(t)
      /\ \A f \in Fields \ {"mCurrentTsn", "mSentChunks", "mFlightSize", "t3Rtx"} : t[f] = s[f]
  BY TransmitIs
<1>2. DOMAIN s = Fields /\ IsSeq(s.mSentChunks) /\ IsSeq(chunks) /\ IsSeq(s.mDataChannels)
      /\ Sized(s.mSentChunks, Positive) /\ s.mFlightSize = Payload(s.mSentChunks)
  BY DEF Accounts, Sized
<1>3. t.mSentChunks = q /\ t.mFlightSize = s.mFlightSize + Payload(chunks)
  BY <1>2 DEF Transmit, Fields
<1> HIDE DEF t
<1>4. /\ t.mDataChannels = s.mDataChannels /\ t.mState = s.mState /\ t.mPeerRwnd = s.mPeerRwnd
      /\ t.mDataSendQueue = s.mDataSendQueue /\ t.mPendingSend = s.mPendingSend
  BY <1>1 DEF Fields
<1>5. ChunksOf(s.mSentChunks, ids)
  BY DEF Holds, ChunksOf
<1>6. ChunksOf(q, ids)
  BY <1>2, <1>5, ChunksJoin
<1> HIDE DEF q
<1>7. Holds(t, ids)
  BY <1>3, <1>4, <1>6 DEF Holds, ChunksOf
<1>8. Quiet(s, t)
  BY <1>2, <1>4 DEF Quiet
<1>9. s.mFlightSize <= t.mFlightSize
  <2>1. Payload(chunks) \in Nat /\ Payload(s.mSentChunks) \in Nat
    BY <1>2, ChunksAreSized, PayloadSteps
  <2> QED BY <1>2, <1>3, <2>1
<1> QED BY <1>4, <1>7, <1>8, <1>9 DEF t

\* The fragments of the next message.
LEMMA FragmentsOfIds ==
    ASSUME NEW s, NEW ch, NEW msg, NEW ids, IsSeq(ids), msg.size \in Positive,
           ch.streamId = Stream, ch.sendSsn = Len(ids)
    PROVE  ChunksOf(FragmentsOf(s, ch, msg), Append(ids, msg.id))
<1> DEFINE q == FragmentsOf(s, ch, msg)
           g == Append(ids, msg.id)
           n == Len(ids)
<1>1. Len(q) = msg.size
  BY FragmentTsns
<1>2. \A i \in 1..msg.size : /\ q[i].streamId = Stream /\ q[i].kind = "user" /\ q[i].ssn = n
                             /\ q[i].data[1] = msg.id
  BY DEF FragmentsOf
<1>3. n \in Nat /\ Len(g) = n + 1 /\ g[n + 1] = msg.id
  BY SeqIs, AppendIs
<1> HIDE DEF q, g, n
<1>4. n \in 0..(Len(g) - 1)
  BY <1>3
<1>5. \A i \in 1..Len(q) : ChunkOf(q[i], g)
  BY <1>1, <1>2, <1>3, <1>4 DEF ChunkOf
<1> QED BY <1>5 DEF q, g, ChunksOf

LEMMA AppendExtends ==
    ASSUME NEW q, IsSeq(q), NEW x
    PROVE  /\ IsSeq(Append(q, x)) /\ Extends(q, Append(q, x))
           /\ Len(q) \in Nat /\ Len(Append(q, x)) = Len(q) + 1
<1>1. Len(q) \in Nat
  BY SeqIs
<1>2. /\ IsSeq(Append(q, x)) /\ Len(Append(q, x)) = Len(q) + 1
      /\ \A i \in 1..Len(q) : Append(q, x)[i] = q[i]
  BY AppendIs
<1> QED BY <1>1, <1>2 DEF Extends

\* The channel counts one more message.
LEMMA CountsOneMore ==
    ASSUME NEW s, NEW ids, NEW x, IsSeq(ids), Accounts(s), Holds(s, ids), s.mDataChannels # <<>>,
           Len(ids) + 1 < SsnCount
    PROVE  LET t == [s EXCEPT !.mDataChannels[1].sendSsn = NextSsn(@)]
           IN  /\ Accounts(t) /\ Holds(t, Append(ids, x)) /\ Quiet(s, t)
               /\ t.mPendingSend = s.mPendingSend /\ t.mFlightSize = s.mFlightSize
<1> DEFINE q == s.mDataChannels
           c == q[1]
           y == [c EXCEPT !.sendSsn = NextSsn(@)]
           r == [q EXCEPT ![1] = y]
           t == [s EXCEPT !.mDataChannels[1].sendSsn = NextSsn(@)]
           g == Append(ids, x)
<1>1. DOMAIN s = Fields /\ IsSeq(q) /\ Len(q) \in Nat /\ DOMAIN q = 1..Len(q) /\ Len(q) # 0
  BY SeqIs, EmptyIs DEF Accounts
<1>2. DOMAIN t = Fields /\ (\A f \in Fields \ {"mDataChannels"} : t[f] = s[f])
      /\ t.mDataChannels = r
  BY <1>1 DEF Fields
<1> HIDE DEF t
<1>3. IsSeq(ids) /\ IsSeq(g) /\ Extends(ids, g) /\ Len(ids) \in Nat /\ Len(g) = Len(ids) + 1
  BY AppendExtends
<1>4. OnStream(q) /\ c.sendSsn = Len(ids)
  BY DEF Holds
<1>5. c = [label |-> Label, streamId |-> Stream, state |-> c.state,
           receiveBuffer |-> c.receiveBuffer, sendSsn |-> c.sendSsn]
  BY <1>1, <1>4 DEF OnStream
<1>6. NextSsn(c.sendSsn) = Len(g)
  <2> DEFINE n == Len(ids)
  <2>1. SsnCount \in Nat /\ n \in Nat /\ n + 1 < SsnCount
    BY <1>3, SsnAssumption
  <2> HIDE DEF n
  <2>2. (n + 1) % SsnCount = n + 1
    BY <2>1
  <2>3. NextSsn(n) = n + 1
    BY <2>2 DEF NextSsn
  <2> QED BY <1>3, <1>4, <2>3 DEF n
<1> HIDE DEF q, c, g
<1>7. y = [label |-> Label, streamId |-> Stream, state |-> c.state,
           receiveBuffer |-> c.receiveBuffer, sendSsn |-> Len(g)]
  BY <1>5, <1>6
<1> HIDE DEF y
<1>8. IsSeq(r) /\ Len(r) = Len(q) /\ r[1] = y /\ \A i \in 1..Len(q) : i # 1 => r[i] = q[i]
  <2>1. r = [i \in 1..Len(q) |-> r[i]]
    BY <1>1
  <2>2. r[1] = y /\ \A i \in 1..Len(q) : i # 1 => r[i] = q[i]
    BY <1>1
  <2> HIDE DEF r
  <2> QED BY <1>1, <2>1, <2>2, FunctionIsSeq
<1> HIDE DEF r
<1>9. OnStream(r) /\ r # <<>> /\ r[1].sendSsn = Len(g)
  <2>1. ASSUME NEW i \in 1..Len(r)
        PROVE  r[i] = [label |-> Label, streamId |-> Stream, state |-> r[i].state,
                       receiveBuffer |-> r[i].receiveBuffer, sendSsn |-> r[i].sendSsn]
    <3>1. CASE i = 1
      BY <1>7, <1>8, <3>1
    <3>2. CASE i # 1
      BY <1>4, <1>8, <3>2 DEF OnStream
    <3> QED BY <3>1, <3>2
  <2>2. r # <<>>
    BY <1>1, <1>8, EmptyIs
  <2> QED BY <1>7, <1>8, <2>1, <2>2 DEF OnStream
<1>10. /\ t.mSentChunks = s.mSentChunks /\ t.mState = s.mState /\ t.mPeerRwnd = s.mPeerRwnd
       /\ t.mDataSendQueue = s.mDataSendQueue /\ t.mPendingSend = s.mPendingSend
       /\ t.mFlightSize = s.mFlightSize
  BY <1>2 DEF Fields
<1>11. Accounts(t)
  <2>1. \A f \in Read : t[f] = s[f]
    BY <1>2 DEF Read, Fields
  <2> QED BY <1>2, <1>8, <2>1, SameAccounts
<1>12. Holds(t, g)
  <2>1. \A i \in 1..Len(s.mSentChunks) : ChunkOf(s.mSentChunks[i], ids)
    BY DEF Holds
  <2>2. \A i \in 1..Len(s.mSentChunks) : ChunkOf(s.mSentChunks[i], g)
    BY <1>3, <2>1, ChunkOfMore
  <2> QED BY <1>2, <1>9, <1>10, <2>2 DEF Holds
<1>13. Quiet(s, t)
  <2>1. \A i \in 1..Len(q) : r[i].state = q[i].state /\ r[i].receiveBuffer = q[i].receiveBuffer
    <3>1. y.state = c.state /\ y.receiveBuffer = c.receiveBuffer
      BY <1>7
    <3> QED BY <1>8, <3>1 DEF c
  <2> QED BY <1>2, <1>8, <1>10, <2>1 DEF Quiet, q
<1> QED BY <1>10, <1>11, <1>12, <1>13 DEF t, g

\* Quiet twice.
LEMMA QuietTwice ==
    ASSUME NEW s, NEW t, NEW u, Quiet(s, t), Quiet(t, u)
    PROVE  Quiet(s, u)
BY DEF Quiet

\* sendMessageNow gives the message the next SSN.
LEMMA SendNowHolds ==
    ASSUME NEW e, NEW s, NEW msg, NEW ids, Accounts(s), msg.size \in Positive, IsSeq(ids),
           Holds(s, ids), s.mDataChannels # <<>>, Len(ids) + 1 < SsnCount
    PROVE  LET t == sendMessageNow(e, s, 1, msg)[1]
               out == sendMessageNow(e, s, 1, msg)[2]
               g == Append(ids, msg.id)
           IN  /\ Accounts(t) /\ Holds(t, g) /\ Quiet(s, t) /\ Brings(e, out, g)
               /\ t.mPendingSend = s.mPendingSend /\ s.mFlightSize <= t.mFlightSize
<1> DEFINE ch == s.mDataChannels[1]
           chunks == FragmentsOf(s, ch, msg)
           b == [s EXCEPT !.mDataChannels[1].sendSsn = NextSsn(@)]
           t == Transmit(b, chunks)
           out == DataPackets(e, s, chunks)
           g == Append(ids, msg.id)
<1>1. sendMessageNow(e, s, 1, msg)[1] = t /\ sendMessageNow(e, s, 1, msg)[2] = out
  BY DEF sendMessageNow
<1>2. /\ Accounts(b) /\ Holds(b, g) /\ Quiet(s, b)
      /\ b.mPendingSend = s.mPendingSend /\ b.mFlightSize = s.mFlightSize
  BY CountsOneMore
<1> HIDE DEF b
<1>3. ch.streamId = Stream /\ ch.sendSsn = Len(ids)
  <2>1. Len(s.mDataChannels) \in Nat /\ Len(s.mDataChannels) # 0
    BY SeqIs, EmptyIs DEF Accounts
  <2>2. OnStream(s.mDataChannels) /\ ch.sendSsn = Len(ids)
    BY DEF Holds
  <2>3. ch = [label |-> Label, streamId |-> Stream, state |-> ch.state,
              receiveBuffer |-> ch.receiveBuffer, sendSsn |-> ch.sendSsn]
    BY <2>1, <2>2 DEF OnStream
  <2> HIDE DEF ch
  <2> QED BY <2>2, <2>3
<1> HIDE DEF ch
<1>4. ChunksOf(chunks, g)
  BY <1>3, FragmentsOfIds
<1>5. Sized(chunks, Positive) /\ chunks # <<>> /\ IsSeq(chunks)
  BY FragmentsAre DEF Sized
<1> HIDE DEF chunks, g
<1>6. /\ Accounts(t) /\ Holds(t, g) /\ Quiet(b, t) /\ t.mPendingSend = b.mPendingSend
      /\ b.mFlightSize <= t.mFlightSize
  BY <1>2, <1>4, <1>5, TransmitIs, TransmitHolds
<1>7. Brings(e, out, g)
  BY <1>4, <1>5, PacketsBring
<1> HIDE DEF t, out
<1>8. Quiet(s, t)
  BY <1>2, <1>6, QuietTwice
<1> QED BY <1>1, <1>2, <1>6, <1>7, <1>8 DEF g

-----------------------------------------------------------------------------
\* Messages that wait.

\* One more message waits behind the others.
LEMMA WaitsMore ==
    ASSUME NEW q, NEW lo \in Nat, NEW hi \in Nat, lo <= hi, Waits(q, lo, hi), NEW x,
           x.label = Label, x.size = Size, x.id \in Nat, hi < x.id
    PROVE  Waits(Append(q, x), lo, x.id)
<1> DEFINE r == Append(q, x)
           n == Len(q)
<1>1. IsSeq(q)
  BY DEF Waits
<1>2. n \in Nat /\ IsSeq(r) /\ Len(r) = n + 1 /\ (\A i \in 1..n : r[i] = q[i]) /\ r[n + 1] = x
  BY <1>1, SeqIs, AppendIs
<1>3. \A i \in 1..n : /\ q[i].label = Label /\ q[i].size = Size
                      /\ q[i].id \in Nat /\ lo < q[i].id /\ q[i].id <= hi
                      /\ \A j \in 1..n : i < j => q[i].id < q[j].id
  BY DEF Waits
<1> HIDE DEF r, n
<1>4. ASSUME NEW i \in 1..Len(r)
      PROVE  /\ r[i].label = Label /\ r[i].size = Size
             /\ r[i].id \in Nat /\ lo < r[i].id /\ r[i].id <= x.id
             /\ \A j \in 1..Len(r) : i < j => r[i].id < r[j].id
  <2>1. CASE i = n + 1
    BY <1>2, <2>1
  <2>2. CASE i \in 1..n
    <3>1. r[i] = q[i]
      BY <1>2, <2>2
    <3>2. /\ r[i].label = Label /\ r[i].size = Size
          /\ r[i].id \in Nat /\ lo < r[i].id /\ r[i].id < x.id
      <4>1. /\ q[i].label = Label /\ q[i].size = Size
            /\ q[i].id \in Nat /\ lo < q[i].id /\ q[i].id <= hi
        BY <1>3, <2>2
      <4> QED BY <3>1, <4>1
    <3>3. ASSUME NEW j \in 1..Len(r), i < j PROVE r[i].id < r[j].id
      <4>1. CASE j = n + 1
        BY <1>2, <3>2, <4>1
      <4>2. CASE j \in 1..n
        <5>1. r[j] = q[j]
          BY <1>2, <4>2
        <5> QED BY <1>3, <2>2, <3>1, <3>3, <4>2, <5>1
      <4> QED BY <1>2, <4>1, <4>2
    <3> QED BY <3>2, <3>3
  <2> QED BY <1>2, <2>1, <2>2
<1>5. Waits(r, lo, x.id)
  BY <1>2, <1>4 DEF Waits
<1> QED BY <1>5 DEF r

\* The first of them no longer waits.
LEMMA WaitsLess ==
    ASSUME NEW q, NEW lo \in Nat, NEW hi \in Nat, Waits(q, lo, hi), q # <<>>
    PROVE  /\ q[1].label = Label /\ q[1].size = Size
           /\ q[1].id \in Nat /\ lo < q[1].id /\ q[1].id <= hi
           /\ Waits(Tail(q), q[1].id, hi) /\ Waits(Tail(q), lo, hi)
<1> DEFINE r == Tail(q)
           n == Len(q)
<1>1. IsSeq(q)
  BY DEF Waits
<1>2. n \in Nat /\ n > 0 /\ IsSeq(r) /\ Len(r) = n - 1 /\ \A i \in 1..(n - 1) : r[i] = q[i + 1]
  BY <1>1, SeqIs, TailIs
<1>3. \A i \in 1..n : /\ q[i].label = Label /\ q[i].size = Size
                      /\ q[i].id \in Nat /\ lo < q[i].id /\ q[i].id <= hi
                      /\ \A j \in 1..n : i < j => q[i].id < q[j].id
  BY DEF Waits
<1> HIDE DEF r, n
<1>4. 1 \in 1..n
  BY <1>2
<1>5. ASSUME NEW i \in 1..Len(r)
      PROVE  /\ r[i].label = Label /\ r[i].size = Size
             /\ r[i].id \in Nat /\ lo < r[i].id /\ q[1].id < r[i].id /\ r[i].id <= hi
             /\ \A j \in 1..Len(r) : i < j => r[i].id < r[j].id
  <2>1. i \in 1..(n - 1) /\ i + 1 \in 1..n /\ 1 < i + 1
    BY <1>2
  <2>2. r[i] = q[i + 1]
    BY <1>2, <2>1
  <2>3. ASSUME NEW j \in 1..Len(r), i < j PROVE r[i].id < r[j].id
    <3>1. j \in 1..(n - 1) /\ j + 1 \in 1..n /\ i + 1 < j + 1
      BY <1>2, <2>3
    <3>2. r[j] = q[j + 1]
      BY <1>2, <3>1
    <3> QED BY <1>3, <2>1, <2>2, <3>1, <3>2
  <2> QED BY <1>3, <1>4, <2>1, <2>2, <2>3
<1>6. Waits(r, q[1].id, hi) /\ Waits(r, lo, hi)
  BY <1>2, <1>5 DEF Waits
<1> QED BY <1>3, <1>4, <1>6 DEF r

\* Nothing waits.
LEMMA NothingWaits == \A lo, hi : Waits(<<>>, lo, hi)
<1> DEFINE q == <<>>
<1>1. IsSeq(q) /\ Len(q) = 0
  <2>1. q \in Seq(Nat) /\ Len(q) = 0
    OBVIOUS
  <2> HIDE DEF q
  <2> QED BY <2>1 DEF IsSeq
<1> HIDE DEF q
<1>2. \A lo, hi : Waits(q, lo, hi)
  BY <1>1 DEF Waits
<1> QED BY <1>2 DEF q
-----------------------------------------------------------------------------
\* send().

\* e goes from s to t and sends out: what was given an SSN before is h, now it is g.
Sends(e, s, t, out, h, g, c) ==
    /\ Line(t, g, c) /\ WaitForRoom(t) /\ h.last <= g.last
    /\ Extends(h.ids, g.ids) /\ Brings(e, out, g.ids) /\ Quiet(s, t)

LEMMA ExtendsSelf ==
    ASSUME NEW f, IsSeq(f)
    PROVE  Extends(f, f)
BY SeqIs DEF Extends

LEMMA ExtendsTwice ==
    ASSUME NEW f, NEW g, NEW k, IsSeq(f), IsSeq(g), IsSeq(k), Extends(f, g), Extends(g, k)
    PROVE  Extends(f, k)
<1>1. Len(f) \in Nat /\ Len(g) \in Nat /\ Len(k) \in Nat
  BY SeqIs
<1>2. Len(f) <= Len(g) /\ Len(g) <= Len(k) /\ (\A i \in 1..Len(f) : g[i] = f[i])
      /\ \A i \in 1..Len(g) : k[i] = g[i]
  BY DEF Extends
<1>3. \A i \in 1..Len(f) : i \in 1..Len(g)
  BY <1>1, <1>2
<1>4. Len(f) <= Len(k) /\ \A i \in 1..Len(f) : k[i] = f[i]
  BY <1>1, <1>2, <1>3
<1> QED BY <1>4 DEF Extends

LEMMA BringsMore ==
    ASSUME NEW e, NEW out, NEW f, NEW g, IsSeq(f), IsSeq(g), Extends(f, g), Brings(e, out, f)
    PROVE  Brings(e, out, g)
BY ChunkOfMore DEF Brings

\* Line and WaitForRoom depend on these fields only.
LEMMA SameLine ==
    ASSUME NEW s, NEW t, NEW h, t.mDataChannels = s.mDataChannels,
           t.mSentChunks = s.mSentChunks, t.mPendingSend = s.mPendingSend,
           t.mPeerRwnd = s.mPeerRwnd, t.mFlightSize = s.mFlightSize
    PROVE  /\ \A c : Line(s, h, c) => Line(t, h, c)
           /\ WaitForRoom(s) => WaitForRoom(t)
BY DEF Line, Holds, WaitForRoom, NoRoom

\* The numbers of a line.
LEMMA LineIs ==
    ASSUME NEW s, NEW h, NEW c \in Int, Line(s, h, c)
    PROVE  /\ Rising(h) /\ IsSeq(h.ids) /\ Len(h.ids) \in Nat /\ h.sent \in Nat /\ h.last \in Nat
           /\ h.sent <= h.last /\ Holds(s, h.ids) /\ Waits(s.mPendingSend, h.sent, h.last)
           /\ IsSeq(s.mPendingSend) /\ Len(s.mPendingSend) \in Nat
           /\ Len(h.ids) + Len(s.mPendingSend) <= c /\ c \in Nat
<1>1. /\ Rising(h) /\ Holds(s, h.ids) /\ Waits(s.mPendingSend, h.sent, h.last)
      /\ Len(h.ids) + Len(s.mPendingSend) <= c
  BY DEF Line
<1>2. IsSeq(h.ids) /\ h.sent \in Nat /\ h.last \in Nat /\ h.sent <= h.last
  BY <1>1 DEF Rising
<1>3. IsSeq(s.mPendingSend)
  BY <1>1 DEF Waits
<1>4. Len(h.ids) \in Nat /\ Len(s.mPendingSend) \in Nat
  BY <1>2, <1>3, SeqIs
<1>5. c \in Nat
  <2> DEFINE a == Len(h.ids)
             b == Len(s.mPendingSend)
  <2>1. a \in Nat /\ b \in Nat /\ a + b <= c
    BY <1>1, <1>4
  <2> HIDE DEF a, b
  <2> QED BY <2>1
<1> QED BY <1>1, <1>2, <1>3, <1>4, <1>5

\* A message goes into the line, or is given the next SSN, or is dropped.
LEMMA SendLine ==
    ASSUME NEW e, NEW s, NEW h, NEW c \in Int, NEW msg, SessionInv(s), Line(s, h, c),
           WaitForRoom(s), c + 1 < SsnCount, msg.label = Label, msg.size = Size, Size \in Sizes,
           msg.id \in Nat, h.last < msg.id
    PROVE  \E g : /\ Sends(e, s, send(e, s, msg)[1], send(e, s, msg)[2], h, g, c + 1)
                  /\ g.last <= msg.id
<1> DEFINE refused == s.mState # "Established" \/ ~CanSendOn(s, msg.label)
                         \/ (MaxMessageSize > 0 /\ msg.size > MaxMessageSize)
           r == send(e, s, msg)
           d == c + 1
<1>0. Accounts(s) /\ DOMAIN s = Fields /\ IsSeq(s.mDataChannels)
  BY DEF SessionInv, Accounts
<1>1. /\ Rising(h) /\ IsSeq(h.ids) /\ Len(h.ids) \in Nat /\ h.sent \in Nat /\ h.last \in Nat
      /\ h.sent <= h.last /\ Holds(s, h.ids) /\ Waits(s.mPendingSend, h.sent, h.last)
      /\ IsSeq(s.mPendingSend) /\ Len(s.mPendingSend) \in Nat
      /\ Len(h.ids) + Len(s.mPendingSend) <= c /\ c \in Nat
  BY LineIs
<1>2. /\ d \in Int /\ SsnCount \in Nat /\ d < SsnCount
      /\ Len(h.ids) + Len(s.mPendingSend) <= d /\ Len(h.ids) + (Len(s.mPendingSend) + 1) <= d
      /\ (Len(h.ids) + 1) + 0 <= d /\ Len(h.ids) + 1 < SsnCount
  <2> DEFINE a == Len(h.ids)
             b == Len(s.mPendingSend)
  <2>1. a \in Nat /\ b \in Nat /\ a + b <= c /\ SsnCount \in Nat
    BY <1>1, SsnAssumption
  <2> HIDE DEF a, b
  <2>2. /\ d \in Int /\ d < SsnCount /\ a + b <= d /\ a + (b + 1) <= d
        /\ (a + 1) + 0 <= d /\ a + 1 < SsnCount
    BY <2>1
  <2> QED BY <2>1, <2>2 DEF a, b
<1>3. CASE refused
  <2> DEFINE t == [s EXCEPT !.dropped = @ \cup {msg.id}]
  <2>1. r[1] = t /\ r[2] = {}
    BY <1>3 DEF send
  <2>2. \A f \in Fields \ {"dropped"} : t[f] = s[f]
    BY <1>0 DEF Fields
  <2> HIDE DEF t, r
  <2>3. /\ t.mDataChannels = s.mDataChannels /\ t.mSentChunks = s.mSentChunks
        /\ t.mPendingSend = s.mPendingSend /\ t.mPeerRwnd = s.mPeerRwnd
        /\ t.mFlightSize = s.mFlightSize /\ t.mState = s.mState
        /\ t.mDataSendQueue = s.mDataSendQueue
    BY <2>2 DEF Fields
  <2>4. Line(s, h, d)
    <3> HIDE DEF d
    <3> QED BY <1>1, <1>2 DEF Line
  <2> HIDE DEF d
  <2>5. Line(t, h, d) /\ WaitForRoom(t)
    BY <2>3, <2>4, SameLine
  <2>6. Quiet(s, t)
    BY <1>0, <2>3 DEF Quiet
  <2>7. Extends(h.ids, h.ids) /\ Brings(e, {}, h.ids) /\ h.last <= h.last /\ h.last <= msg.id
    BY <1>1, ExtendsSelf DEF Brings
  <2>8. Sends(e, s, t, {}, h, h, d)
    BY <2>5, <2>6, <2>7 DEF Sends
  <2> QED BY <2>1, <2>7, <2>8 DEF r, d
<1>4. ASSUME ~refused PROVE s.mPeerRwnd = InitRwnd /\ s.mDataChannels # <<>>
                            /\ ChannelByLabel(s, msg.label) = 1
  <2>1. s.mPeerRwnd = InitRwnd
    BY <1>0, <1>4 DEF Accounts
  <2>2. ChannelByLabel(s, Label) # 0
    BY <1>4 DEF CanSendOn
  <2>3. ChannelByLabel(s, Label) = IF s.mDataChannels = <<>> THEN 0 ELSE 1
    BY <1>0, <1>1, FirstChannel DEF Holds
  <2> QED BY <2>1, <2>2, <2>3
<1>5. InitRwnd \in Nat /\ Size \in Nat /\ Size \in Positive /\ s.mFlightSize \in Nat
  BY <1>0, SctpAssumption, FlightIs DEF Positive
<1>6. CASE ~refused /\ ~FitsWindow(s, msg)
  <2> DEFINE q == Append(s.mPendingSend, msg)
             t == WithPending(s, q)
             g == [ids |-> h.ids, sent |-> h.sent, last |-> msg.id]
  <2>1. r[1] = t /\ r[2] = {}
    BY <1>6 DEF send, WithPending
  <2>2. Waits(q, h.sent, msg.id)
    BY <1>1, WaitsMore
  <2>3. IsSeq(q) /\ Len(q) = Len(s.mPendingSend) + 1
    BY <1>1, AppendIs
  <2> HIDE DEF q, r
  <2>4. t.mPendingSend = q /\ \A f \in Fields \ {"mPendingSend"} : t[f] = s[f]
    BY <1>0, QueuesChange
  <2> HIDE DEF t
  <2>5. /\ t.mDataChannels = s.mDataChannels /\ t.mSentChunks = s.mSentChunks
        /\ t.mPeerRwnd = s.mPeerRwnd /\ t.mFlightSize = s.mFlightSize /\ t.mState = s.mState
        /\ t.mDataSendQueue = s.mDataSendQueue
    BY <2>4 DEF Fields
  <2>6. g.ids = h.ids /\ g.sent = h.sent /\ g.last = msg.id
    OBVIOUS
  <2> HIDE DEF g
  <2>7. Rising(g)
    <3>1. h.sent <= msg.id
      BY <1>1
    <3> QED BY <1>1, <2>6, <3>1 DEF Rising
  <2>8. Line(t, g, d)
    <3>1. Len(g.ids) + Len(t.mPendingSend) <= d
      BY <1>1, <1>2, <2>3, <2>4, <2>6
    <3>2. Holds(t, g.ids)
      BY <1>1, <2>5, <2>6 DEF Holds
    <3>3. Waits(t.mPendingSend, g.sent, g.last)
      BY <2>2, <2>4, <2>6
    <3> HIDE DEF d
    <3> QED BY <2>7, <3>1, <3>2, <3>3 DEF Line
  <2>9. WaitForRoom(t)
    <3>1. s.mFlightSize + Size > InitRwnd
      BY <1>4, <1>5, <1>6 DEF FitsWindow
    <3> QED BY <1>4, <1>6, <2>5, <3>1 DEF WaitForRoom, NoRoom
  <2>10. Quiet(s, t)
    BY <1>0, <2>5 DEF Quiet
  <2>11. Extends(h.ids, g.ids) /\ Brings(e, {}, g.ids) /\ h.last <= g.last /\ g.last <= msg.id
    BY <1>1, <2>6, ExtendsSelf DEF Brings
  <2> HIDE DEF d
  <2>12. Sends(e, s, t, {}, h, g, d)
    BY <2>8, <2>9, <2>10, <2>11 DEF Sends
  <2> QED BY <2>1, <2>11, <2>12 DEF r, d
<1>7. CASE ~refused /\ FitsWindow(s, msg)
  <2> DEFINE t == sendMessageNow(e, s, 1, msg)[1]
             out == sendMessageNow(e, s, 1, msg)[2]
             f == Append(h.ids, msg.id)
             g == [ids |-> f, sent |-> msg.id, last |-> msg.id]
  <2>1. r[1] = t /\ r[2] = out
    BY <1>4, <1>7 DEF send
  <2>2. s.mPendingSend = <<>>
    <3>1. s.mFlightSize + Size <= InitRwnd
      BY <1>4, <1>5, <1>7 DEF FitsWindow
    <3>2. ~(s.mFlightSize + Size > InitRwnd)
      BY <1>5, <3>1
    <3> QED BY <3>2 DEF WaitForRoom, NoRoom
  <2>3. /\ Holds(t, f) /\ Quiet(s, t) /\ Brings(e, out, f)
        /\ t.mPendingSend = s.mPendingSend
    <3>1. Len(h.ids) + 1 < SsnCount
      BY <1>2
    <3>2. s.mDataChannels # <<>> /\ msg.size \in Positive
      BY <1>4, <1>5, <1>7
    <3> QED BY <1>0, <1>1, <3>1, <3>2, SendNowHolds
  <2> HIDE DEF t, out, r
  <2>4. Rising(g) /\ Extends(h.ids, f) /\ IsSeq(f) /\ Len(f) = Len(h.ids) + 1
    <3>1. h.sent < msg.id /\ msg.id <= msg.id
      BY <1>1
    <3> QED BY <1>1, <3>1, RisingMore
  <2>5. g.ids = f /\ g.sent = msg.id /\ g.last = msg.id
    OBVIOUS
  <2> HIDE DEF g, f
  <2>6. Line(t, g, d)
    <3>1. Len(t.mPendingSend) = 0
      BY <1>1, <2>2, <2>3, EmptyIs
    <3>2. Len(g.ids) + Len(t.mPendingSend) <= d
      BY <1>1, <1>2, <2>4, <2>5, <3>1
    <3>3. Waits(t.mPendingSend, g.sent, g.last)
      BY <2>2, <2>3, NothingWaits
    <3> HIDE DEF d
    <3> QED BY <2>3, <2>4, <2>5, <3>2, <3>3 DEF Line
  <2>7. WaitForRoom(t)
    BY <2>2, <2>3 DEF WaitForRoom
  <2>8. h.last <= g.last /\ g.last <= msg.id
    BY <1>1, <2>5
  <2> HIDE DEF d
  <2>9. Sends(e, s, t, out, h, g, d)
    BY <2>3, <2>4, <2>5, <2>6, <2>7, <2>8 DEF Sends
  <2> QED BY <2>1, <2>8, <2>9 DEF r, d
<1> QED BY <1>3, <1>6, <1>7

-----------------------------------------------------------------------------
\* The channel opens: what waited for it is sent.

LEMMA SendsTwice ==
    ASSUME NEW e, NEW s, NEW t, NEW u, NEW o, NEW o2, NEW h, NEW g, NEW k, NEW c \in Int,
           NEW d \in Int, Rising(h), Sends(e, s, t, o, h, g, c), Sends(e, t, u, o2, g, k, d)
    PROVE  Sends(e, s, u, o \cup o2, h, k, d)
<1>1. IsSeq(h.ids) /\ IsSeq(g.ids) /\ IsSeq(k.ids) /\ h.last \in Nat /\ g.last \in Nat
      /\ k.last \in Nat
  BY DEF Sends, Line, Rising
<1>2. Extends(h.ids, k.ids)
  BY <1>1, ExtendsTwice DEF Sends
<1>3. Brings(e, o, k.ids) /\ Brings(e, o2, k.ids)
  BY <1>1, BringsMore DEF Sends
<1>4. Brings(e, o \cup o2, k.ids)
  BY <1>3 DEF Brings
<1>5. Quiet(s, u)
  BY QuietTwice DEF Sends
<1>6. h.last <= g.last /\ g.last <= k.last /\ Line(u, k, d) /\ WaitForRoom(u)
  BY DEF Sends
<1>7. h.last <= k.last
  BY <1>1, <1>6
<1> QED BY <1>2, <1>4, <1>5, <1>6, <1>7 DEF Sends

\* After k turns of the loop over q, which began at b.
OpenLine(e, b, r, w, h, q, m, c, k) ==
    /\ SessionInv(w[1])
    /\ \E o, g : /\ w[2] = r[2] \cup o /\ Sends(e, b, w[1], o, h, g, c + k) /\ g.last <= m
                 /\ \A i \in 1..Len(q) : k < i => g.last < q[i].id

LEMMA OpenLineTurn ==
    ASSUME NEW e, NEW b, NEW r, NEW w, NEW h, NEW q, NEW c \in Int, NEW k \in Nat,
           NEW lo \in Nat, NEW m \in Nat, Rising(h), Waits(q, lo, m), k + 1 \in 1..Len(q),
           Size \in Sizes, c + (k + 1) < SsnCount, OpenLine(e, b, r, w, h, q, m, c, k)
    PROVE  OpenLine(e, b, r, OpenStep(e, Label, w, q[k + 1]), h, q, m, c, k + 1)
<1> DEFINE msg == q[k + 1]
           s == w[1]
           v == OpenStep(e, Label, w, msg)
           t == send(e, s, msg)[1]
           out == send(e, s, msg)[2]
           d == c + k
<1>1. \A i \in 1..Len(q) : /\ q[i].label = Label /\ q[i].size = Size
                           /\ q[i].id \in Nat /\ q[i].id <= m
                           /\ \A j \in 1..Len(q) : i < j => q[i].id < q[j].id
  BY DEF Waits
<1>2. msg.label = Label /\ msg.size = Size /\ msg.id \in Nat /\ msg.id <= m
  BY <1>1
<1>3. v = <<t, w[2] \cup out>>
  BY <1>2 DEF OpenStep
<1>4. PICK o, g : /\ w[2] = r[2] \cup o /\ Sends(e, b, s, o, h, g, d)
                  /\ \A i \in 1..Len(q) : k < i => g.last < q[i].id
  BY DEF OpenLine
<1>5. SessionInv(s) /\ d \in Int /\ d + 1 < SsnCount /\ d + 1 \in Int /\ d + 1 = c + (k + 1)
  <2>1. SsnCount \in Nat
    BY SsnAssumption
  <2> QED BY <2>1 DEF OpenLine
<1>6. g.last < msg.id /\ Line(s, g, d) /\ WaitForRoom(s)
  BY <1>4 DEF Sends
<1>7. SessionInv(t)
  BY <1>2, <1>5, SendIs
<1> HIDE DEF s, d
<1>8. \E f : Sends(e, s, t, out, g, f, d + 1) /\ f.last <= msg.id
  BY <1>2, <1>5, <1>6, SendLine
<1> HIDE DEF t, out, v, msg
<1>9. PICK f : Sends(e, s, t, out, g, f, d + 1) /\ f.last <= msg.id
  BY <1>8
<1>10. Sends(e, b, t, o \cup out, h, f, d + 1)
  BY <1>4, <1>5, <1>9, SendsTwice
<1>11. ASSUME NEW i \in 1..Len(q), k + 1 < i PROVE f.last < q[i].id
  <2>1. f.last \in Nat
    BY <1>9 DEF Sends, Line, Rising
  <2>2. msg.id < q[i].id /\ q[i].id \in Nat
    BY <1>1, <1>11 DEF msg
  <2> QED BY <1>2, <1>9, <2>1, <2>2
<1>12. v[1] = t /\ v[2] = r[2] \cup (o \cup out)
  BY <1>3, <1>4
<1>13. f.last <= m
  <2>1. f.last \in Nat
    BY <1>9 DEF Sends, Line, Rising
  <2> QED BY <1>2, <1>9, <2>1
<1>14. OpenLine(e, b, r, v, h, q, m, c, k + 1)
  BY <1>5, <1>7, <1>10, <1>11, <1>12, <1>13 DEF OpenLine
<1> QED BY <1>14 DEF v, msg

\* onSctpDataChannelOpen empties the queue.
LEMMA OpenSends ==
    ASSUME NEW e, NEW r, NEW h, NEW m \in Nat, SessionInv(r[1]), Size \in Sizes, m < SsnCount,
           Line(r[1], h, m - Len(r[1].mDataSendQueue)), WaitForRoom(r[1]),
           Waits(r[1].mDataSendQueue, h.last, m), h.last <= m
    PROVE  LET x == onSctpDataChannelOpen(e, r, Label)
           IN  /\ \E o, g : /\ x[2] = r[2] \cup o /\ g.last <= m
                            /\ Sends(e, WithQueue(r[1], <<>>), x[1], o, h, g, m)
               /\ x[3] = <<<<"open", Label>>>>
<1> DEFINE q == r[1].mDataSendQueue
           n == Len(q)
           c == m - n
           W == OpenWalk(e, Label, r, q)
           x == onSctpDataChannelOpen(e, r, Label)
           s == r[1]
           none == <<>>
           b == WithQueue(s, none)
           T == {k \in Nat : k <= n => OpenLine(e, b, r, W[k], h, q, m, c, k)}
<1>1. Accounts(s) /\ IsSeq(q) /\ n \in Nat /\ c \in Int /\ c + n = m
  <2>1. Accounts(s) /\ IsSeq(q)
    BY DEF SessionInv, Accounts, Sized
  <2>2. n \in Nat
    BY <2>1, SeqIs
  <2> HIDE DEF n
  <2> QED BY <2>1, <2>2
<1>2. /\ W[0] = OpenStart(r)
      /\ \A k \in 1..n : W[k] = OpenStep(e, Label, W[k - 1], q[k])
  <2> HIDE DEF q
  <2> QED BY <1>1, OpenWalkIs
<1>3. x[1] = W[n][1] /\ x[2] = W[n][2] /\ x[3] = <<<<"open", Label>>>>
  BY DEF onSctpDataChannelOpen
<1>4. Line(s, h, c) /\ WaitForRoom(s) /\ Waits(q, h.last, m)
  OBVIOUS
<1> HIDE DEF W, q, n, x, c
<1>5. Rising(h) /\ h.last \in Nat /\ IsSeq(h.ids)
  BY <1>1, <1>4, LineIs
<1>6. 0 \in T
  <2>1. IsSeq(none) /\ Len(none) = 0
    BY <1>1, EmptyIs
  <2> HIDE DEF none
  <2>2. Sized(none, Sizes)
    BY <2>1 DEF Sized
  <2>6. Accounts(s) /\ NotStranded(s) /\ IsSeq(s.mDataChannels)
    BY DEF SessionInv, Accounts
  <2> HIDE DEF s
  <2>3. /\ Accounts(b) /\ b.mPendingSend = s.mPendingSend /\ b.mSentChunks = s.mSentChunks
        /\ b.mDataChannels = s.mDataChannels /\ b.mPeerRwnd = s.mPeerRwnd
        /\ b.mFlightSize = s.mFlightSize
    <3>1. Accounts(b) /\ \A f \in Fields \ {"mDataSendQueue"} : b[f] = s[f]
      BY <2>2, <2>6, QueuesChange
    <3> HIDE DEF b
    <3> QED BY <3>1 DEF Fields
  <2> HIDE DEF b
  <2>4. SessionInv(b)
    BY <2>3, <2>6 DEF SessionInv, NotStranded
  <2>5. W[0][1] = b /\ W[0][2] = r[2] \cup {}
    BY <1>2 DEF b, s, none, OpenStart, WithQueue
  <2>7. Line(b, h, c) /\ WaitForRoom(b)
    BY <1>4, <2>3, SameLine
  <2>8. Quiet(b, b)
    BY <2>3, <2>6 DEF Quiet
  <2>9. Extends(h.ids, h.ids) /\ Brings(e, {}, h.ids) /\ h.last <= h.last
    BY <1>5, ExtendsSelf DEF Brings
  <2>10. Sends(e, b, b, {}, h, h, c)
    BY <2>7, <2>8, <2>9 DEF Sends
  <2>11. \A i \in 1..Len(q) : h.last < q[i].id
    BY <1>4 DEF Waits
  <2>12. c + 0 = c
    BY <1>1
  <2>13. OpenLine(e, b, r, W[0], h, q, m, c, 0)
    BY <2>4, <2>5, <2>10, <2>11, <2>12 DEF OpenLine
  <2> QED BY <2>13
<1> HIDE DEF b
<1>7. ASSUME NEW k \in Nat, k \in T PROVE k + 1 \in T
  <2> SUFFICES ASSUME k + 1 <= n PROVE OpenLine(e, b, r, W[k + 1], h, q, m, c, k + 1)
    OBVIOUS
  <2>1. k + 1 \in 1..n /\ OpenLine(e, b, r, W[k], h, q, m, c, k) /\ (k + 1) - 1 = k
    BY <1>1, <1>7
  <2>2. W[k + 1] = OpenStep(e, Label, W[k], q[k + 1])
    BY <1>2, <2>1
  <2>3. c + (k + 1) < SsnCount
    BY <1>1, <2>1, SsnAssumption
  <2>4. k + 1 \in 1..Len(q)
    BY <2>1 DEF n
  <2> QED BY <1>1, <1>4, <1>5, <2>1, <2>2, <2>3, <2>4, OpenLineTurn
<1>8. Nat \subseteq T
  <2> HIDE DEF T
  <2> QED BY <1>6, <1>7, NatSetInduction
<1>9. OpenLine(e, b, r, W[n], h, q, m, c, n)
  BY <1>1, <1>8
<1>10. PICK o, g : W[n][2] = r[2] \cup o /\ Sends(e, b, W[n][1], o, h, g, m) /\ g.last <= m
  BY <1>1, <1>9 DEF OpenLine
<1> QED BY <1>3, <1>10 DEF x, b, s, none

-----------------------------------------------------------------------------
\* There is room: what waited for it is sent.

\* After k turns of the loop over q, which began at b.
PendLine(e, b, w, h, q, c, k) ==
    /\ \E g : /\ Line(w.s, g, c) /\ g.last = h.last /\ Extends(h.ids, g.ids)
              /\ Brings(e, w.out, g.ids) /\ Quiet(b, w.s)
    /\ \/ w.stop = TRUE /\ WaitForRoom(w.s)
       \/ /\ w.stop = FALSE /\ Len(w.s.mPendingSend) = Len(q) - k
          /\ \A i \in 1..(Len(q) - k) : w.s.mPendingSend[i] = q[k + i]

\* The first message of the line is gone.
LEMMA LineLess ==
    ASSUME NEW s, NEW c \in Int, NEW g, NEW h, Accounts(s), s.mPendingSend # <<>>, Rising(g),
           g.ids = h.ids \/ g.ids = Append(h.ids, s.mPendingSend[1].id),
           g.sent \in {h.sent, s.mPendingSend[1].id}, g.last = h.last, Rising(h),
           Holds(s, g.ids), Waits(s.mPendingSend, h.sent, h.last),
           Len(h.ids) + Len(s.mPendingSend) <= c
    PROVE  LET t == WithPending(s, Tail(s.mPendingSend))
           IN  /\ Accounts(t) /\ Line(t, g, c) /\ Quiet(s, t)
               /\ t.mPendingSend = Tail(s.mPendingSend)
<1> DEFINE q == s.mPendingSend
           rest == Tail(q)
           t == WithPending(s, rest)
<1>1. IsSeq(q) /\ Sized(q, Sendable) /\ IsSeq(s.mDataChannels)
  BY DEF Accounts, Sized
<1>2. Sized(rest, Sendable) /\ IsSeq(rest) /\ Len(rest) = Len(q) - 1 /\ Len(q) \in Nat
  BY <1>1, SizedIs, TailIs, SeqIs
<1>3. IsSeq(h.ids) /\ h.sent \in Nat /\ h.last \in Nat /\ Len(h.ids) \in Nat
  BY SeqIs DEF Rising
<1>4. Waits(rest, g.sent, g.last)
  BY <1>3, WaitsLess
<1>5. Len(g.ids) <= Len(h.ids) + 1 /\ Len(g.ids) \in Nat
  <2>1. Len(Append(h.ids, q[1].id)) = Len(h.ids) + 1
    BY <1>3, AppendIs
  <2> QED BY <1>3, <2>1
<1> HIDE DEF rest
<1>6. Accounts(t) /\ t.mPendingSend = rest /\ \A f \in Fields \ {"mPendingSend"} : t[f] = s[f]
  BY <1>2, QueuesChange
<1> HIDE DEF t
<1>7. /\ t.mDataChannels = s.mDataChannels /\ t.mSentChunks = s.mSentChunks
      /\ t.mState = s.mState /\ t.mPeerRwnd = s.mPeerRwnd /\ t.mDataSendQueue = s.mDataSendQueue
  BY <1>6 DEF Fields
<1>8. Len(g.ids) + Len(rest) <= c
  <2> DEFINE a == Len(h.ids)
             b == Len(q)
             d == Len(g.ids)
             y == Len(rest)
  <2>1. a \in Nat /\ b \in Nat /\ d \in Nat /\ d <= a + 1 /\ y = b - 1 /\ a + b <= c
    BY <1>2, <1>3, <1>5
  <2> HIDE DEF a, b, d, y
  <2>2. d + y <= c
    BY <2>1
  <2> QED BY <2>2 DEF d, y
<1>9. Line(t, g, c)
  BY <1>4, <1>6, <1>7, <1>8 DEF Line, Holds
<1>10. Quiet(s, t)
  BY <1>1, <1>7 DEF Quiet
<1> QED BY <1>6, <1>9, <1>10 DEF t, rest

LEMMA PendLineTurn ==
    ASSUME NEW e, NEW b, NEW w, NEW h, NEW q, NEW c \in Int, NEW k \in Nat, Rising(h), IsSeq(q),
           k + 1 \in 1..Len(q), c < SsnCount, q[k + 1].size \in Sendable,
           PendingOK(w, Len(q) - k), PendLine(e, b, w, h, q, c, k)
    PROVE  PendLine(e, b, PendingStep(e, w, q[k + 1]), h, q, c, k + 1)
<1> DEFINE msg == q[k + 1]
           v == PendingStep(e, w, msg)
           s == w.s
           p == s.mPendingSend
           i == ChannelByLabel(s, msg.label)
           r == sendMessageNow(e, s, i, msg)
           n == Len(q)
<1>0. v = IF w.stop THEN w
          ELSE IF ~CanSendOn(s, msg.label)
          THEN [w EXCEPT !.s = [s EXCEPT !.mPendingSend = Tail(@)]]
          ELSE IF ~FitsWindow(s, msg) THEN [w EXCEPT !.stop = TRUE]
          ELSE [s |-> [r[1] EXCEPT !.mPendingSend = Tail(@)],
                out |-> w.out \cup r[2], stop |-> FALSE]
  BY DEF PendingStep
<1>1. DOMAIN w = {"s", "out", "stop"} /\ Accounts(s) /\ s.mPeerRwnd = InitRwnd
      /\ IsSeq(s.mDataChannels)
  BY DEF PendingOK, Accounts
<1>2. PICK g : /\ Line(s, g, c) /\ g.last = h.last /\ Extends(h.ids, g.ids)
               /\ Brings(e, w.out, g.ids) /\ Quiet(b, s)
  BY DEF PendLine
<1>3. /\ Rising(g) /\ IsSeq(g.ids) /\ Len(g.ids) \in Nat /\ g.sent \in Nat /\ g.last \in Nat
      /\ g.sent <= g.last /\ Holds(s, g.ids) /\ Waits(p, g.sent, g.last)
      /\ IsSeq(p) /\ Len(p) \in Nat
      /\ Len(g.ids) + Len(p) <= c /\ c \in Nat
  BY <1>2, LineIs
<1>4. IsSeq(h.ids) /\ n \in Nat /\ n - k \in Nat /\ n - k > 0 /\ (n - k) - 1 = n - (k + 1)
  BY SeqIs DEF Rising
<1> HIDE DEF v
<1>5. CASE w.stop = TRUE
  <2>1. v = w /\ WaitForRoom(w.s)
    BY <1>0, <1>5 DEF PendLine
  <2>2. PendLine(e, b, v, h, q, c, k + 1)
    BY <1>2, <1>5, <2>1 DEF PendLine
  <2> QED BY <2>2 DEF v
<1>6. CASE w.stop = FALSE
  <2>1. Len(p) = n - k /\ \A j \in 1..(n - k) : p[j] = q[k + j]
    BY <1>6 DEF PendLine
  <2>2. p # <<>> /\ p[1] = msg
    <3> HIDE DEF n, p
    <3>1. 1 \in 1..(n - k) /\ Len(p) # 0
      BY <1>4, <2>1
    <3>2. p # <<>>
      BY <1>3, <3>1, EmptyIs
    <3> QED BY <2>1, <3>1, <3>2
  <2>3. /\ msg.label = Label /\ msg.size = Size /\ msg.id \in Nat /\ g.sent < msg.id
        /\ msg.id <= g.last
    BY <1>3, <2>2, WaitsLess
  <2> DEFINE rest == Tail(p)
  <2>4. Len(rest) = n - (k + 1) /\ \A j \in 1..(n - (k + 1)) : rest[j] = q[(k + 1) + j]
    <3>1. Len(rest) = Len(p) - 1 /\ \A j \in 1..(Len(p) - 1) : rest[j] = p[j + 1]
      BY <1>3, <2>2, TailIs
    <3>2. Len(rest) = n - (k + 1)
      BY <1>4, <2>1, <3>1
    <3>3. ASSUME NEW j \in 1..(n - (k + 1)) PROVE rest[j] = q[(k + 1) + j]
      <4> HIDE DEF n, p
      <4>1. j \in 1..(Len(p) - 1) /\ j + 1 \in 1..(n - k) /\ k + (j + 1) = (k + 1) + j
        BY <1>4, <2>1
      <4> QED BY <2>1, <3>1, <4>1
    <3> QED BY <3>2, <3>3
  <2>5. CASE ~CanSendOn(s, msg.label)
    <3> DEFINE t == WithPending(s, rest)
    <3>1. v = [w EXCEPT !.s = t]
      <4>1. v = [w EXCEPT !.s = [s EXCEPT !.mPendingSend = Tail(@)]]
        BY <1>0, <1>6, <2>5
      <4>2. t = [s EXCEPT !.mPendingSend = Tail(@)]
        BY <1>1 DEF WithPending
      <4> QED BY <4>1, <4>2
    <3>2. Line(t, g, c) /\ Quiet(s, t) /\ t.mPendingSend = rest
      BY <1>1, <1>3, <2>2, LineLess
    <3> HIDE DEF t, rest, p
    <3>3. v.s = t /\ v.stop = FALSE /\ v.out = w.out
      BY <1>1, <1>6, <3>1
    <3>4. Quiet(b, t)
      BY <1>2, <3>2, QuietTwice
    <3> HIDE DEF s, n
    <3>5. Len(t.mPendingSend) = n - (k + 1)
          /\ \A j \in 1..(n - (k + 1)) : t.mPendingSend[j] = q[(k + 1) + j]
      BY <2>4, <3>2
    <3>6. PendLine(e, b, v, h, q, c, k + 1)
      BY <1>2, <3>2, <3>3, <3>4, <3>5 DEF PendLine, n
    <3> QED BY <3>6 DEF v
  <2>6. CASE CanSendOn(s, msg.label) /\ ~FitsWindow(s, msg)
    <3>1. v = [w EXCEPT !.stop = TRUE]
      BY <1>0, <1>6, <2>6
    <3>2. v.s = s /\ v.stop = TRUE /\ v.out = w.out
      BY <1>1, <3>1 DEF s
    <3>3. WaitForRoom(s)
      <4>1. InitRwnd \in Nat /\ Size \in Nat /\ s.mFlightSize \in Nat
        BY <1>1, <2>3, SctpAssumption, FlightIs DEF Sendable
      <4>2. s.mFlightSize + Size > InitRwnd
        BY <1>1, <2>3, <2>6, <4>1 DEF FitsWindow
      <4> QED BY <1>1, <4>2 DEF WaitForRoom, NoRoom
    <3>4. PendLine(e, b, v, h, q, c, k + 1)
      BY <1>2, <3>2, <3>3 DEF PendLine
    <3> QED BY <3>4 DEF v
  <2>7. CASE CanSendOn(s, msg.label) /\ FitsWindow(s, msg)
    <3> DEFINE u == sendMessageNow(e, s, 1, msg)[1]
               out == sendMessageNow(e, s, 1, msg)[2]
               t == WithPending(u, rest)
               f == Append(g.ids, msg.id)
               x == [ids |-> f, sent |-> msg.id, last |-> g.last]
    <3>1. i = 1 /\ s.mDataChannels # <<>>
      <4>1. ChannelByLabel(s, Label) # 0
        BY <2>3, <2>7 DEF CanSendOn
      <4>2. ChannelByLabel(s, Label) = IF s.mDataChannels = <<>> THEN 0 ELSE 1
        BY <1>1, <1>3, FirstChannel DEF Holds
      <4> QED BY <2>3, <4>1, <4>2
    <3>2. /\ Accounts(u) /\ Holds(u, f) /\ Quiet(s, u) /\ Brings(e, out, f) /\ u.mPendingSend = p
      <4>1. msg.size \in Positive
        BY SctpAssumption DEF Positive, Sendable
      <4>2. Len(g.ids) + 1 < SsnCount
        <5> DEFINE a == Len(g.ids)
                   d == Len(p)
        <5>1. a \in Nat /\ d \in Nat /\ a + d <= c /\ d # 0 /\ SsnCount \in Nat
          <6>1. a \in Nat /\ a + d <= c /\ SsnCount \in Nat
            BY <1>3, SsnAssumption
          <6>2. IsSeq(p) /\ p # <<>>
            BY <1>3, <2>2
          <6> HIDE DEF p
          <6>3. d \in Nat /\ d # 0
            BY <6>2, SeqIs, EmptyIs
          <6> QED BY <6>1, <6>3
        <5> HIDE DEF a, d
        <5>2. a + 1 < SsnCount
          BY <5>1
        <5> QED BY <5>2 DEF a
      <4> DEFINE ids == g.ids
      <4>3. Accounts(s) /\ IsSeq(ids) /\ Holds(s, ids) /\ Len(ids) + 1 < SsnCount
            /\ s.mPendingSend = p
        BY <1>1, <1>3, <4>2
      <4>4. f = Append(ids, msg.id)
        OBVIOUS
      <4> HIDE DEF ids, f
      <4> QED BY <3>1, <4>1, <4>3, <4>4, SendNowHolds
    <3>3. v = [s |-> t, out |-> w.out \cup out, stop |-> FALSE]
      <4>1. v = [s |-> [u EXCEPT !.mPendingSend = Tail(@)], out |-> w.out \cup out, stop |-> FALSE]
        BY <1>0, <1>6, <2>7, <3>1
      <4> HIDE DEF u, out
      <4>2. t = [u EXCEPT !.mPendingSend = Tail(@)]
        BY <3>2 DEF WithPending
      <4> QED BY <4>1, <4>2
    <3> HIDE DEF u, out
    <3>4. Rising(x) /\ Extends(g.ids, f) /\ IsSeq(f)
      BY <1>3, <2>3, RisingMore
    <3>5. x.ids = f /\ x.sent = msg.id /\ x.last = g.last
      OBVIOUS
    <3> HIDE DEF x
    <3>6. Line(t, x, c) /\ Quiet(u, t) /\ t.mPendingSend = rest
      BY <1>3, <2>2, <3>2, <3>4, <3>5, LineLess
    <3> HIDE DEF t, rest, p
    <3>7. v.s = t /\ v.stop = FALSE /\ v.out = w.out \cup out
      BY <3>3
    <3>8. Quiet(b, t)
      BY <1>2, <3>2, <3>6, QuietTwice
    <3>9. Extends(h.ids, x.ids)
      BY <1>2, <1>3, <1>4, <3>4, <3>5, ExtendsTwice
    <3>10. Brings(e, v.out, x.ids)
      <4>1. Brings(e, w.out, f)
        BY <1>2, <1>3, <3>4, BringsMore
      <4> QED BY <3>2, <3>5, <3>7, <4>1 DEF Brings
    <3> HIDE DEF s, n
    <3>11. Len(t.mPendingSend) = n - (k + 1)
          /\ \A j \in 1..(n - (k + 1)) : t.mPendingSend[j] = q[(k + 1) + j]
      BY <2>4, <3>6
    <3>12. PendLine(e, b, v, h, q, c, k + 1)
      BY <1>2, <3>5, <3>6, <3>7, <3>8, <3>9, <3>10, <3>11 DEF PendLine, n
    <3> QED BY <3>12 DEF v
  <2> QED BY <2>5, <2>6, <2>7
<1> QED BY <1>5, <1>6 DEF PendLine

\* transmitPending: from the front, until one has to wait on.
LEMMA PendingSends ==
    ASSUME NEW e, NEW s, NEW h, NEW c \in Int, Accounts(s), s.mPeerRwnd = InitRwnd,
           Line(s, h, c), c < SsnCount
    PROVE  \E g : /\ Sends(e, s, transmitPending(e, s)[1], transmitPending(e, s)[2], h, g, c)
                  /\ g.last = h.last
<1> DEFINE q == s.mPendingSend
           n == Len(q)
           W == PendingWalk(e, s)
           T == {k \in Nat : k <= n => PendingOK(W[k], n - k) /\ PendLine(e, s, W[k], h, q, c, k)}
<1>1. Sized(q, Sendable) /\ IsSeq(q) /\ n \in Nat /\ IsSeq(s.mDataChannels)
  BY SeqIs DEF Accounts, Sized
<1>2. /\ W[0] = [s |-> s, out |-> {}, stop |-> FALSE]
      /\ \A k \in 1..n : W[k] = PendingStep(e, W[k - 1], q[k])
  BY <1>1, PendingWalkIs
<1>3. transmitPending(e, s)[1] = W[n].s /\ transmitPending(e, s)[2] = W[n].out
  BY DEF transmitPending
<1>4. Rising(h) /\ IsSeq(h.ids) /\ h.last \in Nat
  BY LineIs
<1> HIDE DEF W
<1>5. 0 \in T
  <2>1. /\ DOMAIN W[0] = {"s", "out", "stop"} /\ W[0].s = s /\ W[0].stop = FALSE
        /\ W[0].out = {}
    BY <1>2
  <2>2. n - 0 = n /\ \A i \in 1..n : 0 + i = i
    BY <1>1
  <2>3. PendingOK(W[0], n - 0)
    BY <2>1, <2>2 DEF PendingOK
  <2>4. Quiet(s, s) /\ Extends(h.ids, h.ids) /\ Brings(e, {}, h.ids)
    BY <1>1, <1>4, ExtendsSelf DEF Quiet, Brings
  <2>5. PendLine(e, s, W[0], h, q, c, 0)
    BY <2>1, <2>2, <2>4 DEF PendLine
  <2> QED BY <2>3, <2>5
<1> HIDE DEF q, n
<1>6. ASSUME NEW k \in Nat, k \in T PROVE k + 1 \in T
  <2> SUFFICES ASSUME k + 1 <= n
               PROVE  /\ PendingOK(W[k + 1], n - (k + 1))
                      /\ PendLine(e, s, W[k + 1], h, q, c, k + 1)
    OBVIOUS
  <2> DEFINE m == n - k
             w == W[k]
             msg == q[k + 1]
  <2>1. k + 1 \in 1..n /\ (k + 1) - 1 = k /\ m \in Nat /\ m > 0 /\ m - 1 = n - (k + 1)
    BY <1>1
  <2>2. PendingOK(w, m) /\ PendLine(e, s, w, h, q, c, k)
    BY <1>1, <1>6
  <2>3. W[k + 1] = PendingStep(e, w, msg) /\ msg.size \in Sendable
    BY <1>1, <1>2, <2>1 DEF Sized, n
  <2>4. PendLine(e, s, PendingStep(e, w, msg), h, q, c, k + 1)
    BY <1>1, <1>4, <2>1, <2>2, <2>3, PendLineTurn DEF n
  <2> HIDE DEF m, w, msg
  <2>5. PendingOK(PendingStep(e, w, msg), m - 1)
    BY <2>1, <2>2, <2>3, PendingTurn
  <2> QED BY <2>1, <2>3, <2>4, <2>5
<1>7. Nat \subseteq T
  <2> HIDE DEF T
  <2> QED BY <1>5, <1>6, NatSetInduction
<1> DEFINE w == W[n]
           t == w.s
<1>8. PendLine(e, s, w, h, q, c, n)
  BY <1>1, <1>7
<1> HIDE DEF w
<1>9. PICK g : /\ Line(t, g, c) /\ g.last = h.last /\ Extends(h.ids, g.ids)
               /\ Brings(e, w.out, g.ids) /\ Quiet(s, t)
  BY <1>8 DEF PendLine
<1>10. WaitForRoom(t)
  <2>1. n - n = 0
    BY <1>1
  <2>2. WaitForRoom(t) \/ Len(t.mPendingSend) = 0
    BY <1>8, <2>1 DEF PendLine, n
  <2>3. IsSeq(t.mPendingSend)
    BY <1>9, LineIs
  <2> HIDE DEF t
  <2>4. ASSUME Len(t.mPendingSend) = 0 PROVE WaitForRoom(t)
    BY <2>3, <2>4, EmptyIs DEF WaitForRoom
  <2> QED BY <2>2, <2>4
<1>11. h.last <= g.last
  BY <1>4, <1>9
<1>12. Sends(e, s, t, w.out, h, g, c)
  BY <1>9, <1>10, <1>11 DEF Sends
<1> QED BY <1>3, <1>9, <1>12 DEF w

-----------------------------------------------------------------------------
\* Steps that deliver nothing.

\* The receive buffer of the channel is left alone.
Hush(s, t) ==
    /\ IsSeq(t.mDataChannels) /\ (t.mDataChannels = <<>> <=> s.mDataChannels = <<>>)
    /\ s.mDataChannels # <<>> =>
          t.mDataChannels[1].receiveBuffer = s.mDataChannels[1].receiveBuffer

\* A sender that had given SSNs to h.ids becomes t and sends out.
Moves(e, t, out, h, m) ==
    \E g : SendInv(t, g, m) /\ Extends(h.ids, g.ids) /\ Brings(e, out, g.ids)

LEMMA QuietIsHush ==
    ASSUME NEW s, NEW t, IsSeq(s.mDataChannels), Quiet(s, t)
    PROVE  Hush(s, t)
<1> DEFINE q == s.mDataChannels
           r == t.mDataChannels
<1>1. IsSeq(q) /\ IsSeq(r) /\ Len(r) = Len(q) /\ Len(q) \in Nat
      /\ \A i \in 1..Len(q) : r[i].receiveBuffer = q[i].receiveBuffer
  BY SeqIs DEF Quiet
<1> HIDE DEF q, r
<1>2. r = <<>> <=> q = <<>>
  BY <1>1, EmptyIs
<1>3. ASSUME q # <<>> PROVE r[1].receiveBuffer = q[1].receiveBuffer
  <2>1. Len(q) # 0
    BY <1>1, <1>3, EmptyIs
  <2>2. 1 \in 1..Len(q)
    BY <1>1, <2>1
  <2> QED BY <1>1, <2>2
<1> QED BY <1>1, <1>2, <1>3 DEF Hush, q, r

LEMMA HushTwice ==
    ASSUME NEW s, NEW t, NEW u, Hush(s, t), Hush(t, u)
    PROVE  Hush(s, u)
BY DEF Hush

\* The numbers of a sender.
LEMMA SendInvIs ==
    ASSUME NEW s, NEW h, NEW m \in Nat, Accounts(s), SendInv(s, h, m)
    PROVE  /\ IsSeq(s.mDataSendQueue) /\ Len(s.mDataSendQueue) \in Nat
           /\ m - Len(s.mDataSendQueue) \in Int /\ Rising(h) /\ IsSeq(h.ids)
           /\ Len(h.ids) \in Nat /\ Len(h.ids) <= m /\ Holds(s, h.ids) /\ h.last \in Nat
<1> DEFINE n == Len(s.mDataSendQueue)
           c == m - n
<1>1. IsSeq(s.mDataSendQueue) /\ n \in Nat
  BY SeqIs DEF Accounts, Sized
<1> HIDE DEF n
<1>2. c \in Int /\ Line(s, h, c)
  BY <1>1 DEF SendInv, n
<1>3. /\ Rising(h) /\ IsSeq(h.ids) /\ Len(h.ids) \in Nat /\ h.sent \in Nat /\ h.last \in Nat
      /\ h.sent <= h.last /\ Holds(s, h.ids) /\ Waits(s.mPendingSend, h.sent, h.last)
      /\ IsSeq(s.mPendingSend) /\ Len(s.mPendingSend) \in Nat
      /\ Len(h.ids) + Len(s.mPendingSend) <= c /\ c \in Nat
  <2> HIDE DEF c
  <2> QED BY <1>2, LineIs
<1>4. Len(h.ids) <= m
  <2> DEFINE a == Len(h.ids)
             b == Len(s.mPendingSend)
  <2>1. a \in Nat /\ b \in Nat /\ a + b <= m - n
    BY <1>3
  <2> HIDE DEF a, b
  <2>2. a <= m
    BY <1>1, <2>1
  <2> QED BY <2>2 DEF a
<1> QED BY <1>1, <1>2, <1>3, <1>4 DEF n

\* Nothing of a sender changes, or only its window, to kInitRwnd.
LEMMA Elsewhere ==
    ASSUME NEW e, NEW s, NEW t, NEW out, NEW h, NEW m \in Nat, Accounts(s), SendInv(s, h, m),
           t.mDataChannels = s.mDataChannels, t.mSentChunks = s.mSentChunks,
           t.mPendingSend = s.mPendingSend, t.mDataSendQueue = s.mDataSendQueue,
           t.mFlightSize = s.mFlightSize, t.mPeerRwnd \in {s.mPeerRwnd, InitRwnd},
           Brings(e, out, h.ids)
    PROVE  Moves(e, t, out, h, m) /\ Hush(s, t)
<1>1. IsSeq(h.ids) /\ Extends(h.ids, h.ids)
  BY SendInvIs, ExtendsSelf
<1>2. WaitForRoom(t)
  BY DEF SendInv, WaitForRoom, NoRoom
<1>3. SendInv(t, h, m)
  BY <1>2 DEF SendInv, Line, Holds
<1>4. Hush(s, t)
  BY DEF Hush, Accounts
<1> QED BY <1>1, <1>3, <1>4 DEF Moves

LEMMA NoData ==
    ASSUME NEW e, NEW out, NEW ids, \A p \in out : p.type # "DATA"
    PROVE  Brings(e, out, ids)
BY DEF Brings

\* Sending is a move.
LEMMA SendsMove ==
    ASSUME NEW e, NEW b, NEW t, NEW out, NEW h, NEW g, NEW m \in Nat, IsSeq(b.mDataChannels),
           Sends(e, b, t, out, h, g, m - Len(b.mDataSendQueue)), g.last = h.last,
           Waits(b.mDataSendQueue, h.last, m), h.last <= m,
           b.mDataSendQueue # <<>> => NoneOpen(b.mDataChannels)
    PROVE  Moves(e, t, out, h, m) /\ Hush(b, t)
<1>1. /\ t.mDataSendQueue = b.mDataSendQueue /\ Len(t.mDataChannels) = Len(b.mDataChannels)
      /\ \A i \in 1..Len(b.mDataChannels) : t.mDataChannels[i].state = b.mDataChannels[i].state
  BY DEF Sends, Quiet
<1>2. NoneOpen(b.mDataChannels) => NoneOpen(t.mDataChannels)
  BY <1>1 DEF NoneOpen
<1>3. Line(t, g, m - Len(t.mDataSendQueue)) /\ WaitForRoom(t)
  BY <1>1 DEF Sends
<1>4. SendInv(t, g, m)
  BY <1>1, <1>2, <1>3 DEF SendInv
<1>5. Hush(b, t)
  BY QuietIsHush DEF Sends
<1> QED BY <1>4, <1>5 DEF Moves, Sends
-----------------------------------------------------------------------------
\* SACK.

\* After i chunks: what is left was sent, and nothing is gone before one is acknowledged.
SackFrom(q, f, w, i) ==
    /\ DOMAIN w = {"left", "acked", "flight"} /\ IsSeq(w.left)
    /\ \A j \in 1..Len(w.left) : \E k \in 1..i : w.left[j] = q[k]
    /\ w.acked = TRUE \/ (w.acked = FALSE /\ w.flight = f)

LEMMA SackFromTurn ==
    ASSUME NEW q, NEW f, NEW p, NEW w, NEW i \in Nat, SackFrom(q, f, w, i)
    PROVE  SackFrom(q, f, SackStep(p, w, q[i + 1]), i + 1)
<1> DEFINE c == q[i + 1]
           k == w.left
           v == SackStep(p, w, c)
<1>0. /\ AckedBy(c, p) => v.left = k /\ DOMAIN v = {"left", "acked", "flight"} /\ v.acked = TRUE
      /\ ~AckedBy(c, p) => /\ v.left = Append(k, c) /\ DOMAIN v = {"left", "acked", "flight"}
                           /\ v.acked = w.acked /\ v.flight = w.flight
  BY DEF SackStep, SackFrom
<1>1. /\ IsSeq(k) /\ Len(k) \in Nat
      /\ \A j \in 1..Len(k) : \E n \in 1..i : k[j] = q[n]
      /\ w.acked = TRUE \/ (w.acked = FALSE /\ w.flight = f)
  BY SeqIs DEF SackFrom
<1>2. i + 1 \in 1..(i + 1) /\ \A n \in 1..i : n \in 1..(i + 1)
  OBVIOUS
<1> HIDE DEF v, k
<1>3. CASE AckedBy(c, p)
  <2>1. SackFrom(q, f, v, i + 1)
    BY <1>0, <1>1, <1>2, <1>3 DEF SackFrom
  <2> QED BY <2>1 DEF v
<1>4. CASE ~AckedBy(c, p)
  <2> DEFINE l == Append(k, c)
  <2>1. IsSeq(l) /\ Len(l) = Len(k) + 1 /\ (\A j \in 1..Len(k) : l[j] = k[j]) /\ l[Len(k) + 1] = c
    BY <1>1, AppendIs
  <2> HIDE DEF l
  <2>2. ASSUME NEW j \in 1..Len(l) PROVE \E n \in 1..(i + 1) : l[j] = q[n]
    <3>1. CASE j = Len(k) + 1
      BY <1>2, <2>1, <3>1
    <3>2. CASE j \in 1..Len(k)
      BY <1>1, <1>2, <2>1, <3>2
    <3> QED BY <1>1, <2>1, <3>1, <3>2
  <2>3. v.left = l /\ DOMAIN v = {"left", "acked", "flight"}
        /\ (v.acked = TRUE \/ (v.acked = FALSE /\ v.flight = f))
    BY <1>0, <1>1, <1>4 DEF l
  <2>4. SackFrom(q, f, v, i + 1)
    BY <2>1, <2>2, <2>3 DEF SackFrom
  <2> QED BY <2>4 DEF v
<1> QED BY <1>3, <1>4

LEMMA SackEndFrom ==
    ASSUME NEW s, NEW p, IsSeq(s.mSentChunks)
    PROVE  SackFrom(s.mSentChunks, s.mFlightSize, SackEnd(s, p), Len(s.mSentChunks))
<1> DEFINE q == s.mSentChunks
           n == Len(q)
           f == s.mFlightSize
           W == SackWalk(s, p)
           T == {i \in Nat : i <= n => SackFrom(q, f, W[i], i)}
<1>1. IsSeq(q) /\ n \in Nat
  BY SeqIs
<1>2. /\ W[0] = [left |-> <<>>, acked |-> FALSE, flight |-> f]
      /\ \A i \in 1..n : W[i] = SackStep(p, W[i - 1], q[i])
  BY <1>1, SackWalkIs
<1> HIDE DEF W
<1>3. 0 \in T
  <2> DEFINE none == <<>>
             w == W[0]
  <2>1. IsSeq(none) /\ Len(none) = 0
    BY <1>1, EmptyIs
  <2>2. DOMAIN w = {"left", "acked", "flight"} /\ w.left = none /\ w.acked = FALSE /\ w.flight = f
    BY <1>2
  <2> HIDE DEF none, w
  <2>3. SackFrom(q, f, w, 0)
    BY <2>1, <2>2 DEF SackFrom
  <2> QED BY <2>3 DEF w
<1> HIDE DEF q, n, f
<1>4. ASSUME NEW i \in Nat, i \in T PROVE i + 1 \in T
  <2>0. ASSUME i + 1 <= n PROVE SackFrom(q, f, W[i + 1], i + 1)
    <3> DEFINE w == W[i]
    <3>1. i + 1 \in 1..n /\ (i + 1) - 1 = i /\ SackFrom(q, f, w, i)
      BY <1>1, <1>4, <2>0
    <3>2. W[i + 1] = SackStep(p, w, q[i + 1])
      BY <1>2, <3>1
    <3> HIDE DEF w
    <3>3. SackFrom(q, f, SackStep(p, w, q[i + 1]), i + 1)
      BY <3>1, SackFromTurn
    <3> QED BY <3>2, <3>3
  <2> QED BY <2>0
<1>5. Nat \subseteq T
  <2> HIDE DEF T
  <2> QED BY <1>3, <1>4, NatSetInduction
<1>6. SackFrom(q, f, W[n], n)
  BY <1>1, <1>5
<1> QED BY <1>6 DEF SackEnd, W, q, n, f

\* onReceiveSack.
LEMMA SackMoves ==
    ASSUME NEW e, NEW s, NEW p, NEW h, NEW m \in Nat, SessionInv(s), SendInv(s, h, m), m < SsnCount
    PROVE  /\ Moves(e, onReceiveSack(e, s, p)[1], onReceiveSack(e, s, p)[2], h, m)
           /\ Hush(s, onReceiveSack(e, s, p)[1]) /\ onReceiveSack(e, s, p)[3] = <<>>
<1> DEFINE b == AfterSack(s, p)
           w == SackEnd(s, p)
           r == onReceiveSack(e, s, p)
           n == Len(s.mDataSendQueue)
           c == m - n
<1>0. Accounts(s) /\ IsSeq(s.mSentChunks) /\ IsSeq(s.mDataChannels) /\ DOMAIN s = Fields
  BY DEF SessionInv, Accounts, Sized
<1>1. r = IF ~w.acked THEN <<b, {}, <<>>>>
          ELSE <<transmitPending(e, b)[1], transmitPending(e, b)[2], <<>>>>
  BY DEF onReceiveSack, AfterSack, SackEnd
<1>2. SackFrom(s.mSentChunks, s.mFlightSize, w, Len(s.mSentChunks))
  BY <1>0, SackEndFrom
<1>3. /\ Accounts(b) /\ b.mPeerRwnd = InitRwnd /\ b.mSentChunks = w.left
      /\ \A f \in Fields \ {"mPeerRwnd", "mSentChunks", "mFlightSize", "t3Rtx"} : b[f] = s[f]
  BY AfterSackIs
<1>4. b.mFlightSize = w.flight
  BY <1>0 DEF AfterSack, Fields
<1> HIDE DEF b, w, r
<1>5. /\ b.mDataChannels = s.mDataChannels /\ b.mPendingSend = s.mPendingSend
      /\ b.mDataSendQueue = s.mDataSendQueue
  BY <1>3 DEF Fields
<1>6. /\ n \in Nat /\ c \in Int /\ Rising(h) /\ IsSeq(h.ids) /\ Holds(s, h.ids)
      /\ Line(s, h, c) /\ WaitForRoom(s) /\ Waits(s.mDataSendQueue, h.last, m) /\ h.last <= m
      /\ (s.mDataSendQueue # <<>> => NoneOpen(s.mDataChannels)) /\ h.last \in Nat
  BY <1>0, SendInvIs DEF SendInv
<1>7. c < SsnCount
  <2> HIDE DEF n
  <2> QED BY <1>6, SsnAssumption
<1> HIDE DEF c
<1>8. Holds(b, h.ids)
  <2>1. \A j \in 1..Len(w.left) : \E k \in 1..Len(s.mSentChunks) : w.left[j] = s.mSentChunks[k]
    BY <1>2 DEF SackFrom
  <2>2. \A k \in 1..Len(s.mSentChunks) : ChunkOf(s.mSentChunks[k], h.ids)
    BY <1>6 DEF Holds
  <2>3. \A j \in 1..Len(w.left) : ChunkOf(w.left[j], h.ids)
    BY <2>1, <2>2
  <2> QED BY <1>3, <1>5, <1>6, <2>3 DEF Holds
<1>9. Line(b, h, c)
  BY <1>5, <1>6, <1>8 DEF Line
<1>10. Hush(s, b)
  BY <1>0, <1>5 DEF Hush
<1>11. CASE w.acked = FALSE
  <2>1. r[1] = b /\ r[2] = {} /\ r[3] = <<>>
    BY <1>1, <1>11
  <2>2. b.mFlightSize = s.mFlightSize
    BY <1>2, <1>4, <1>11 DEF SackFrom
  <2>3. WaitForRoom(b)
    BY <1>3, <1>5, <1>6, <2>2 DEF WaitForRoom, NoRoom
  <2>4. SendInv(b, h, m)
    BY <1>5, <1>6, <1>9, <2>3 DEF SendInv, c, n
  <2>5. Extends(h.ids, h.ids) /\ Brings(e, {}, h.ids)
    BY <1>6, ExtendsSelf DEF Brings
  <2>6. Moves(e, b, {}, h, m)
    BY <2>4, <2>5 DEF Moves
  <2> QED BY <1>10, <2>1, <2>6 DEF r
<1>12. CASE w.acked = TRUE
  <2> DEFINE t == transmitPending(e, b)[1]
             out == transmitPending(e, b)[2]
  <2>1. r[1] = t /\ r[2] = out /\ r[3] = <<>>
    BY <1>1, <1>12
  <2>2. PICK g : Sends(e, b, t, out, h, g, c) /\ g.last = h.last
    BY <1>3, <1>6, <1>7, <1>9, PendingSends
  <2> HIDE DEF t, out
  <2>3. Sends(e, b, t, out, h, g, m - Len(b.mDataSendQueue))
    BY <1>5, <2>2 DEF c, n
  <2>4. Moves(e, t, out, h, m) /\ Hush(b, t)
    BY <1>0, <1>5, <1>6, <2>2, <2>3, SendsMove
  <2>5. Hush(s, t)
    BY <1>10, <2>4, HushTwice
  <2> QED BY <2>1, <2>4, <2>5 DEF r
<1> QED BY <1>2, <1>11, <1>12 DEF SackFrom

-----------------------------------------------------------------------------
\* The handshake, and retransmission.

\* e goes from s to r[1] and sends r[2], without telling the listener anything.
Silent(e, s, r, h, m) == Moves(e, r[1], r[2], h, m) /\ Hush(s, r[1]) /\ r[3] = <<>>

\* Only other fields change.
LEMMA ElsewhereSilent ==
    ASSUME NEW e, NEW s, NEW r, NEW h, NEW m \in Nat, SessionInv(s), SendInv(s, h, m),
           \A f \in {"mSentChunks", "mPendingSend", "mDataSendQueue", "mFlightSize",
                     "mDataChannels"} : r[1][f] = s[f],
           r[1].mPeerRwnd \in {s.mPeerRwnd, InitRwnd}, r[3] = <<>>,
           \A p \in r[2] : p.type # "DATA"
    PROVE  Silent(e, s, r, h, m)
<1> DEFINE t == r[1]
           out == r[2]
<1>1. Accounts(s)
  BY DEF SessionInv
<1>2. Brings(e, out, h.ids)
  BY NoData
<1>3. /\ t.mDataChannels = s.mDataChannels /\ t.mSentChunks = s.mSentChunks
      /\ t.mPendingSend = s.mPendingSend /\ t.mDataSendQueue = s.mDataSendQueue
      /\ t.mFlightSize = s.mFlightSize /\ t.mPeerRwnd \in {s.mPeerRwnd, InitRwnd}
  OBVIOUS
<1> HIDE DEF t, out
<1>4. Moves(e, t, out, h, m) /\ Hush(s, t)
  BY <1>1, <1>2, <1>3, Elsewhere
<1> QED BY <1>4 DEF Silent, t, out

LEMMA SameSilent ==
    ASSUME NEW e, NEW s, NEW h, NEW m \in Nat, SessionInv(s), SendInv(s, h, m)
    PROVE  Silent(e, s, <<s, {}, <<>>>>, h, m)
BY ElsewhereSilent

LEMMA SendInitSilent ==
    ASSUME NEW e, NEW s, NEW n, NEW h, NEW m \in Nat, SessionInv(s), SendInv(s, h, m)
    PROVE  Silent(e, s, sendInit(e, s, n), h, m)
<1> DEFINE r == sendInit(e, s, n)
           u == [s EXCEPT !.t1Init = Idle]
           v == [s EXCEPT !.mState = "CookieWait", !.t1Init = n + 1]
<1>1. r = <<u, {}, <<>>>> \/ r = <<v, {Init_(e)}, <<>>>>
  BY DEF sendInit
<1>2. DOMAIN s = Fields
  BY DEF SessionInv, Accounts
<1>3. \A f \in Fields \ {"mState", "t1Init"} : u[f] = s[f] /\ v[f] = s[f]
  BY <1>2 DEF Fields
<1>4. \A p \in {Init_(e)} : p.type # "DATA"
  BY DEF Init_
<1> HIDE DEF u, v, r
<1>5. /\ \A f \in Fields \ {"mState", "t1Init"} : r[1][f] = s[f]
      /\ r[3] = <<>> /\ \A p \in r[2] : p.type # "DATA"
  BY <1>1, <1>3, <1>4
<1>6. /\ \A f \in {"mSentChunks", "mPendingSend", "mDataSendQueue", "mFlightSize",
                   "mDataChannels"} : r[1][f] = s[f]
      /\ r[1].mPeerRwnd = s.mPeerRwnd
  BY <1>5 DEF Fields
<1> QED BY <1>5, <1>6, ElsewhereSilent DEF r

LEMMA CookieEchoIs ==
    ASSUME NEW e, NEW s, NEW n, DOMAIN s = Fields
    PROVE  /\ \A f \in Fields \ {"t1Cookie"} : sendCookieEcho(e, s, n)[1][f] = s[f]
           /\ (\A p \in sendCookieEcho(e, s, n)[2] : p.type # "DATA")
           /\ sendCookieEcho(e, s, n)[3] = <<>>
<1>1. sendCookieEcho(e, s, n)[3] = <<>>
  BY DEF sendCookieEcho
<1> QED BY <1>1, CookieEchoSent

LEMMA SendCookieEchoSilent ==
    ASSUME NEW e, NEW s, NEW n, NEW h, NEW m \in Nat, SessionInv(s), SendInv(s, h, m)
    PROVE  Silent(e, s, sendCookieEcho(e, s, n), h, m)
<1> DEFINE r == sendCookieEcho(e, s, n)
<1>1. DOMAIN s = Fields
  BY DEF SessionInv, Accounts
<1>2. /\ \A f \in Fields \ {"t1Cookie"} : r[1][f] = s[f]
      /\ r[3] = <<>> /\ \A p \in r[2] : p.type # "DATA"
  BY <1>1, CookieEchoIs
<1> HIDE DEF r
<1>3. /\ \A f \in {"mSentChunks", "mPendingSend", "mDataSendQueue", "mFlightSize",
                   "mDataChannels"} : r[1][f] = s[f]
      /\ r[1].mPeerRwnd = s.mPeerRwnd
  BY <1>2 DEF Fields
<1> QED BY <1>2, <1>3, ElsewhereSilent DEF r

LEMMA InitSilent ==
    ASSUME NEW e, NEW s, NEW p, NEW h, NEW m \in Nat, SessionInv(s), SendInv(s, h, m)
    PROVE  Silent(e, s, onReceiveInit(e, s, p), h, m)
<1> DEFINE r == onReceiveInit(e, s, p)
           cum == TsnAdd(InitialTsn[p.from], -1)
           t == [s EXCEPT !.mPeerRwnd = InitRwnd, !.mPeerCumulativeTsn = cum]
           a == InitAck(e, p.from)
<1>1. r = <<t, {a}, <<>>>> /\ a.type # "DATA"
  BY DEF onReceiveInit, InitAck
<1>2. DOMAIN s = Fields
  BY DEF SessionInv, Accounts
<1> HIDE DEF cum, a, r
<1>3. /\ \A f \in {"mSentChunks", "mPendingSend", "mDataSendQueue", "mFlightSize",
                   "mDataChannels"} : t[f] = s[f]
      /\ t.mPeerRwnd = InitRwnd
  BY <1>2 DEF Fields
<1> HIDE DEF t
<1>4. r[1] = t /\ r[3] = <<>> /\ \A x \in r[2] : x.type # "DATA"
  BY <1>1
<1> QED BY <1>3, <1>4, ElsewhereSilent DEF r

LEMMA InitAckSilent ==
    ASSUME NEW e, NEW s, NEW p, NEW h, NEW m \in Nat, SessionInv(s), SendInv(s, h, m)
    PROVE  Silent(e, s, onReceiveInitAck(e, s, p), h, m)
<1> DEFINE r == onReceiveInitAck(e, s, p)
           cum == TsnAdd(InitialTsn[p.from], -1)
           b == [s EXCEPT !.mPeerTag = p.from, !.mPeerRwnd = InitRwnd,
                          !.mPeerCumulativeTsn = cum, !.t1Init = Idle,
                          !.mState = "CookieEchoed"]
           g == sendCookieEcho(e, b, 0)
<1>1. r = <<s, {}, <<>>>> \/ r = g
  BY DEF onReceiveInitAck
<1>2. DOMAIN s = Fields
  BY DEF SessionInv, Accounts
<1> HIDE DEF cum
<1>3. /\ DOMAIN b = Fields
      /\ \A f \in {"mSentChunks", "mPendingSend", "mDataSendQueue", "mFlightSize",
                   "mDataChannels"} : b[f] = s[f]
      /\ b.mPeerRwnd = InitRwnd
  BY <1>2 DEF Fields
<1> HIDE DEF b, r
<1>4. /\ \A f \in Fields \ {"t1Cookie"} : g[1][f] = b[f]
      /\ g[3] = <<>> /\ \A x \in g[2] : x.type # "DATA"
  BY <1>3, CookieEchoIs
<1> HIDE DEF g
<1>5. /\ \A f \in {"mSentChunks", "mPendingSend", "mDataSendQueue", "mFlightSize",
                   "mDataChannels"} : g[1][f] = s[f]
      /\ g[1].mPeerRwnd = InitRwnd
  BY <1>3, <1>4 DEF Fields
<1>6. Silent(e, s, g, h, m)
  BY <1>4, <1>5, ElsewhereSilent
<1> QED BY <1>1, <1>6, SameSilent DEF r

LEMMA CookieEchoSilent ==
    ASSUME NEW e, NEW s, NEW h, NEW m \in Nat, SessionInv(s), SendInv(s, h, m)
    PROVE  Silent(e, s, onReceiveCookieEcho(e, s), h, m)
<1> DEFINE a == CookieAck(e, Peer(e))
           r == <<s, {a}, <<>>>>
<1>1. a.type # "DATA" /\ onReceiveCookieEcho(e, s) = r
  BY DEF CookieAck, onReceiveCookieEcho
<1> HIDE DEF a
<1>2. r[1] = s /\ r[3] = <<>> /\ \A x \in r[2] : x.type # "DATA"
  BY <1>1
<1> HIDE DEF r
<1>3. Silent(e, s, r, h, m)
  BY <1>2, ElsewhereSilent
<1> QED BY <1>1, <1>3

\* The front chunk again.
LEMMA RetransmitSilent ==
    ASSUME NEW e, NEW s, NEW h, NEW m \in Nat, SessionInv(s), SendInv(s, h, m)
    PROVE  /\ Silent(e, s, <<[s EXCEPT !.t3Rtx = FALSE], {}, <<>>>>, h, m)
           /\ s.mSentChunks # <<>> =>
                 Silent(e, s, <<s, {Data(e, s, Head(s.mSentChunks))}, <<>>>>, h, m)
<1>0. Accounts(s) /\ DOMAIN s = Fields /\ IsSeq(s.mSentChunks)
  BY DEF SessionInv, Accounts, Sized
<1>1. Silent(e, s, <<[s EXCEPT !.t3Rtx = FALSE], {}, <<>>>>, h, m)
  <2> DEFINE t == [s EXCEPT !.t3Rtx = FALSE]
             r == <<t, {}, <<>>>>
  <2>1. \A f \in Fields \ {"t3Rtx"} : t[f] = s[f]
    BY <1>0 DEF Fields
  <2> HIDE DEF t
  <2>2. r[1] = t /\ r[2] = {} /\ r[3] = <<>>
    OBVIOUS
  <2> HIDE DEF r
  <2>3. /\ \A f \in {"mSentChunks", "mPendingSend", "mDataSendQueue", "mFlightSize",
                     "mDataChannels"} : r[1][f] = s[f]
        /\ r[1].mPeerRwnd = s.mPeerRwnd
    BY <2>1, <2>2 DEF Fields
  <2>4. Silent(e, s, r, h, m)
    BY <2>2, <2>3, ElsewhereSilent
  <2> QED BY <2>4 DEF r, t
<1>2. ASSUME s.mSentChunks # <<>>
      PROVE  Silent(e, s, <<s, {Data(e, s, Head(s.mSentChunks))}, <<>>>>, h, m)
  <2> DEFINE c == Head(s.mSentChunks)
             p == Data(e, s, c)
             out == {p}
  <2>1. c = s.mSentChunks[1] /\ 1 \in 1..Len(s.mSentChunks)
    <3>1. Len(s.mSentChunks) \in Nat /\ Len(s.mSentChunks) # 0
      BY <1>0, <1>2, SeqIs, EmptyIs
    <3> QED BY <3>1
  <2>2. Holds(s, h.ids)
    BY <1>0, SendInvIs
  <2>3. ChunkOf(c, h.ids)
    BY <2>1, <2>2 DEF Holds
  <2> HIDE DEF c
  <2>4. p.to = Peer(e) /\ p.chunk = c
    BY DEF Data
  <2> HIDE DEF p
  <2>5. Brings(e, out, h.ids)
    BY <2>3, <2>4 DEF Brings
  <2> HIDE DEF out
  <2>6. Moves(e, s, out, h, m) /\ Hush(s, s)
    BY <1>0, <2>5, Elsewhere
  <2> DEFINE r == <<s, out, <<>>>>
  <2>7. r[1] = s /\ r[2] = out /\ r[3] = <<>>
    OBVIOUS
  <2> HIDE DEF r
  <2>8. Silent(e, s, r, h, m)
    BY <2>6, <2>7 DEF Silent
  <2> QED BY <2>8 DEF r, out, p, c
<1> QED BY <1>1, <1>2

\* The association is up: DCEP OPEN on the stream for every channel, none is open now.
LEMMA EstablishedSilent ==
    ASSUME NEW e, NEW s, NEW h, NEW m \in Nat, SessionInv(s), SendInv(s, h, m)
    PROVE  Silent(e, s, onAssociationEstablished(e, s), h, m)
<1> DEFINE q == s.mDataChannels
           n == Len(q)
           opens == [i \in DOMAIN q |->
                       [DcepChunk(s, q[i].streamId, "open", q[i].label)
                          EXCEPT !.tsn = TsnAdd(@, i - 1)]]
           opening == [s EXCEPT !.mDataChannels =
                          [i \in DOMAIN @ |-> [@[i] EXCEPT !.state = "kOpening"]]]
           u == opening.mDataChannels
           t == Transmit(opening, opens)
           out == DataPackets(e, s, opens)
           r == onAssociationEstablished(e, s)
<1>1. r = IF opens = <<>> THEN <<s, {}, <<>>>> ELSE <<t, out, <<>>>>
  BY DEF onAssociationEstablished
<1>2. DOMAIN s = Fields /\ IsSeq(q) /\ Accounts(s) /\ n \in Nat /\ DOMAIN q = 1..n
  BY SeqIs DEF SessionInv, Accounts
<1>3. opens = [i \in 1..n |-> opens[i]]
  BY <1>2
<1>4. \A i \in 1..n : /\ opens[i].size = 1 /\ opens[i].streamId = q[i].streamId
                      /\ opens[i].kind = "open" /\ opens[i].ssn = 0 /\ opens[i].data = q[i].label
  BY <1>2 DEF DcepChunk
<1>5. DOMAIN opening = Fields /\ \A f \in Fields \ {"mDataChannels"} : opening[f] = s[f]
  BY <1>2 DEF Fields
<1>6. u = [i \in 1..n |-> u[i]] /\ \A i \in 1..n : u[i] = [q[i] EXCEPT !.state = "kOpening"]
  BY <1>2 DEF Fields
<1> HIDE DEF opens, opening, r, n
<1>7. IsSeq(opens) /\ Len(opens) = n /\ Sized(opens, Positive)
  <2>1. IsSeq(opens) /\ Len(opens) = n
    BY <1>2, <1>3, FunctionIsSeq
  <2> QED BY <1>4, <2>1 DEF Sized, Positive
<1> HIDE DEF u
<1>8. IsSeq(u) /\ Len(u) = n
  BY <1>2, <1>6, FunctionIsSeq
<1>9. Accounts(opening)
  <2>1. \A f \in Read : opening[f] = s[f]
    BY <1>5 DEF Read, Fields
  <2>2. IsSeq(opening.mDataChannels)
    BY <1>8 DEF u
  <2> QED BY <1>2, <1>5, <2>1, <2>2, SameAccounts
<1>10. /\ opening.mSentChunks = s.mSentChunks /\ opening.mPendingSend = s.mPendingSend
       /\ opening.mDataSendQueue = s.mDataSendQueue /\ opening.mFlightSize = s.mFlightSize
       /\ opening.mPeerRwnd = s.mPeerRwnd
  BY <1>5 DEF Fields
<1>11. /\ Holds(s, h.ids) /\ Rising(h) /\ IsSeq(h.ids) /\ OnStream(q)
  BY <1>2, SendInvIs DEF Holds
<1>12. \A i \in 1..n : q[i] = [label |-> Label, streamId |-> Stream, state |-> q[i].state,
                               receiveBuffer |-> q[i].receiveBuffer, sendSsn |-> q[i].sendSsn]
  BY <1>11 DEF OnStream, n
<1>13. ASSUME NEW i \in 1..n
       PROVE  /\ q[i].label = Label /\ q[i].streamId = Stream
              /\ u[i] = [label |-> Label, streamId |-> Stream, state |-> "kOpening",
                         receiveBuffer |-> q[i].receiveBuffer, sendSsn |-> q[i].sendSsn]
  <2> DEFINE c == q[i]
             d == u[i]
  <2>1. /\ c = [label |-> Label, streamId |-> Stream, state |-> c.state,
                receiveBuffer |-> c.receiveBuffer, sendSsn |-> c.sendSsn]
        /\ d = [c EXCEPT !.state = "kOpening"]
    BY <1>6, <1>12
  <2> HIDE DEF c, d
  <2>2. /\ c.label = Label /\ c.streamId = Stream
        /\ d = [label |-> Label, streamId |-> Stream, state |-> "kOpening",
                receiveBuffer |-> c.receiveBuffer, sendSsn |-> c.sendSsn]
    BY <2>1
  <2> QED BY <2>2 DEF c, d
<1>14. \A i \in 1..n : /\ u[i].state = "kOpening" /\ u[i].receiveBuffer = q[i].receiveBuffer
                       /\ u[i].sendSsn = q[i].sendSsn
  <2>1. ASSUME NEW i \in 1..n
        PROVE  /\ u[i].state = "kOpening" /\ u[i].receiveBuffer = q[i].receiveBuffer
               /\ u[i].sendSsn = q[i].sendSsn
    <3> DEFINE d == u[i]
               x == q[i].receiveBuffer
               y == q[i].sendSsn
    <3>1. d = [label |-> Label, streamId |-> Stream, state |-> "kOpening",
               receiveBuffer |-> x, sendSsn |-> y]
      BY <1>13
    <3> HIDE DEF d, x, y
    <3>2. d.state = "kOpening" /\ d.receiveBuffer = x /\ d.sendSsn = y
      BY <3>1
    <3> QED BY <3>2 DEF d, x, y
  <2> QED BY <2>1
<1>15. OnStream(u)
  BY <1>8, <1>13, <1>14 DEF OnStream
<1>16. q = <<>> <=> u = <<>>
  BY <1>2, <1>8, EmptyIs DEF n
<1>17. q # <<>> => 1 \in 1..n
  <2>1. q # <<>> => n # 0
    BY <1>2, EmptyIs DEF n
  <2> QED BY <1>2, <2>1
<1>18. Holds(opening, h.ids)
  <2>1. IF u = <<>> THEN Len(h.ids) = 0 ELSE u[1].sendSsn = Len(h.ids)
    BY <1>11, <1>14, <1>16, <1>17 DEF Holds
  <2>2. \A i \in 1..Len(s.mSentChunks) : ChunkOf(s.mSentChunks[i], h.ids)
    BY <1>11 DEF Holds
  <2> QED BY <1>10, <1>15, <2>1, <2>2 DEF Holds, u
<1>19. ChunksOf(opens, h.ids)
  <2>1. ASSUME NEW i \in 1..Len(opens) PROVE ChunkOf(opens[i], h.ids)
    <3> DEFINE c == opens[i]
    <3>1. i \in 1..n
      BY <1>7
    <3>2. q[i].label = Label /\ q[i].streamId = Stream
      BY <1>13, <3>1
    <3>3. c.streamId = Stream /\ c.kind = "open" /\ c.ssn = 0 /\ c.data = Label
      BY <1>4, <3>1, <3>2
    <3> HIDE DEF c
    <3>4. ChunkOf(c, h.ids)
      BY <3>3 DEF ChunkOf
    <3> QED BY <3>4 DEF c
  <2> QED BY <2>1 DEF ChunksOf
<1>20. Brings(e, out, h.ids)
  BY <1>7, <1>19, PacketsBring
<1>21. CASE opens = <<>>
  BY <1>1, <1>21, SameSilent DEF r
<1>22. CASE opens # <<>>
  <2>1. /\ Holds(t, h.ids) /\ Quiet(opening, t) /\ t.mPendingSend = opening.mPendingSend
        /\ opening.mFlightSize <= t.mFlightSize
    BY <1>7, <1>9, <1>18, <1>19, <1>22, TransmitHolds
  <2>2. t.mFlightSize \in Nat /\ s.mFlightSize \in Nat
    BY <1>2, <1>7, <1>9, <1>22, TransmitIs, FlightIs
  <2> HIDE DEF t, out
  <2>3. /\ t.mPeerRwnd = s.mPeerRwnd /\ t.mDataSendQueue = s.mDataSendQueue
        /\ t.mPendingSend = s.mPendingSend /\ s.mFlightSize <= t.mFlightSize
    BY <1>10, <2>1 DEF Quiet
  <2>4. WaitForRoom(t)
    <3>1. WaitForRoom(s)
      BY DEF SendInv
    <3>2. ASSUME s.mPendingSend # <<>> PROVE t.mPeerRwnd = InitRwnd /\ NoRoom(t)
      <4>1. s.mPeerRwnd = InitRwnd /\ s.mFlightSize + Size > InitRwnd /\ Size \in Nat
        <5>1. Waits(s.mPendingSend, h.sent, h.last) /\ Sized(s.mPendingSend, Sendable)
          BY <1>2 DEF SendInv, Line, Accounts
        <5>2. IsSeq(s.mPendingSend) /\ Len(s.mPendingSend) \in Nat /\ Len(s.mPendingSend) # 0
          BY <3>2, <5>1, SeqIs, EmptyIs DEF Sized
        <5>3. 1 \in 1..Len(s.mPendingSend)
          BY <5>2
        <5>4. Size \in Sizes
          BY <5>1, <5>3 DEF Waits, Sized, Sendable
        <5> QED BY <3>1, <3>2, <5>4, SctpAssumption DEF WaitForRoom, NoRoom
      <4>2. t.mFlightSize + Size > InitRwnd
        BY <2>2, <2>3, <4>1, SctpAssumption
      <4> QED BY <2>3, <4>1, <4>2 DEF NoRoom
    <3> QED BY <2>3, <3>2 DEF WaitForRoom
  <2>5. Line(t, h, m - Len(t.mDataSendQueue))
    BY <2>1, <2>3 DEF SendInv, Line
  <2>6. NoneOpen(t.mDataChannels)
    <3>1. \A i \in 1..Len(u) : t.mDataChannels[i].state = u[i].state
      BY <2>1 DEF Quiet, u
    <3>2. Len(t.mDataChannels) = n
      BY <1>8, <2>1 DEF Quiet, u
    <3> QED BY <1>8, <1>14, <3>1, <3>2 DEF NoneOpen
  <2>7. SendInv(t, h, m)
    BY <2>3, <2>4, <2>5, <2>6 DEF SendInv
  <2>8. Hush(s, opening)
    BY <1>8, <1>14, <1>16, <1>17 DEF Hush, u
  <2>9. Hush(opening, t)
    BY <1>8, <2>1, QuietIsHush DEF u
  <2>10. Hush(s, t)
    BY <2>8, <2>9, HushTwice
  <2>11. Moves(e, t, out, h, m)
    BY <1>11, <1>20, <2>7, ExtendsSelf DEF Moves, out
  <2>12. r[1] = t /\ r[2] = out /\ r[3] = <<>>
    BY <1>1, <1>22
  <2>13. Silent(e, s, r, h, m)
    BY <2>10, <2>11, <2>12 DEF Silent
  <2> QED BY <2>13 DEF r
<1> QED BY <1>21, <1>22

LEMMA CookieAckSilent ==
    ASSUME NEW e, NEW s, NEW h, NEW m \in Nat, SessionInv(s), SendInv(s, h, m)
    PROVE  Silent(e, s, onReceiveCookieAck(e, s), h, m)
<1> DEFINE b == [s EXCEPT !.t1Cookie = Idle, !.mState = "Established"]
           r == onReceiveCookieAck(e, s)
           g == onAssociationEstablished(e, b)
<1>1. IF s.mState # "CookieEchoed" THEN r = <<s, {}, <<>>>> ELSE r = g
  BY DEF onReceiveCookieAck
<1> HIDE DEF r
<1>2. DOMAIN s = Fields /\ IsSeq(s.mDataChannels) /\ (s.t1Init # Idle => s.mState = "CookieWait")
      /\ (s.mState \in {"CookieEchoed", "Established"} => s.mPeerRwnd = InitRwnd)
  BY DEF SessionInv, Accounts
<1>3. /\ DOMAIN b = Fields /\ b.mDataChannels = s.mDataChannels /\ b.t1Init = s.t1Init
      /\ b.mPeerRwnd = s.mPeerRwnd
      /\ \A f \in {"mSentChunks", "mPendingSend", "mDataSendQueue", "mFlightSize", "t3Rtx"} :
            b[f] = s[f]
  BY <1>2 DEF Fields
<1> HIDE DEF b
<1>4. CASE s.mState # "CookieEchoed"
  BY <1>1, <1>4, SameSilent DEF r
<1>5. CASE s.mState = "CookieEchoed"
  <2>1. b.t1Init = Idle /\ b.mPeerRwnd = InitRwnd
    BY <1>2, <1>3, <1>5
  <2>2. SessionInv(b)
    BY <1>2, <1>3, <2>1, OtherFields
  <2>3. WaitForRoom(b)
    BY <1>3 DEF SendInv, WaitForRoom, NoRoom
  <2>4. SendInv(b, h, m)
    BY <1>3, <2>3 DEF SendInv, Line, Holds
  <2>5. Silent(e, b, g, h, m)
    BY <2>2, <2>4, EstablishedSilent
  <2> HIDE DEF g
  <2>6. Hush(s, b)
    BY <1>2, <1>3 DEF Hush
  <2>7. Silent(e, s, g, h, m)
    BY <2>5, <2>6, HushTwice DEF Silent
  <2> QED BY <1>1, <1>5, <2>7 DEF r
<1> QED BY <1>4, <1>5

-----------------------------------------------------------------------------
\* The receive buffer.

NoMessages(more) == IsSeq(more) /\ \A i \in 1..Len(more) : ~IsMessage(more[i])

\* Calls without a message change nothing.
LEMMA NothingTold ==
    ASSUME NEW ev, NEW more, Told(ev), NoMessages(more)
    PROVE  /\ Told(ev \o more)
           /\ \A s, ids : HearInv(s, ev, ids) => HearInv(s, ev \o more, ids)
<1> DEFINE w == ev \o more
<1>1. IsSeq(ev) /\ IsSeq(more) /\ Len(ev) \in Nat /\ Len(more) \in Nat
  BY SeqIs DEF Told, NoMessages
<1>2. /\ IsSeq(w) /\ Len(w) = Len(ev) + Len(more)
      /\ \A i \in 1..Len(ev) : w[i] = ev[i]
      /\ \A i \in 1..Len(more) : w[Len(ev) + i] = more[i]
  BY <1>1, ConcatIs
<1> HIDE DEF w
<1>3. ASSUME NEW i \in 1..Len(w), IsMessage(w[i]) PROVE i \in 1..Len(ev) /\ w[i] = ev[i]
  <2>1. CASE i \in 1..Len(ev)
    BY <1>2, <2>1
  <2>2. CASE i \notin 1..Len(ev)
    <3> DEFINE j == i - Len(ev)
    <3>1. j \in 1..Len(more) /\ Len(ev) + j = i
      BY <1>1, <1>2, <2>2
    <3> HIDE DEF j
    <3>2. w[i] = more[j]
      BY <1>2, <3>1
    <3> QED BY <1>3, <3>1, <3>2 DEF NoMessages
  <2> QED BY <2>1, <2>2
<1>4. Told(w)
  BY <1>2, <1>3 DEF Told
<1>5. ASSUME NEW s, NEW ids, HearInv(s, ev, ids) PROVE HearInv(s, w, ids)
  <2>1. CASE s.mDataChannels = <<>>
    BY <1>3, <1>5, <2>1 DEF HearInv
  <2>2. CASE s.mDataChannels # <<>>
    <3> DEFINE b == s.mDataChannels[1].receiveBuffer
    <3>1. BufferInv(b, ev, ids)
      BY <1>5, <2>2 DEF HearInv
    <3> HIDE DEF b
    <3>2. ToldUpTo(w, ids, b.mNextSsn)
      BY <1>3, <3>1 DEF BufferInv, ToldUpTo
    <3>3. BufferInv(b, w, ids)
      BY <3>1, <3>2 DEF BufferInv
    <3> QED BY <2>2, <3>3 DEF HearInv, b
  <2> QED BY <2>1, <2>2
<1> QED BY <1>4, <1>5 DEF w

\* A session whose channel has the same buffer.
LEMMA HushHears ==
    ASSUME NEW s, NEW t, NEW ev, NEW ids, Hush(s, t), HearInv(s, ev, ids)
    PROVE  HearInv(t, ev, ids)
<1>1. CASE s.mDataChannels = <<>>
  BY <1>1 DEF Hush, HearInv
<1>2. CASE s.mDataChannels # <<>>
  <2>1. BufferInv(s.mDataChannels[1].receiveBuffer, ev, ids)
    BY <1>2 DEF HearInv
  <2>2. t.mDataChannels # <<>>
        /\ t.mDataChannels[1].receiveBuffer = s.mDataChannels[1].receiveBuffer
    BY <1>2 DEF Hush
  <2> QED BY <2>1, <2>2 DEF HearInv
<1> QED BY <1>1, <1>2

\* consumeSsn of SSN 0.
LEMMA ConsumeHears ==
    ASSUME NEW b, NEW ev, NEW ids, BufferInv(b, ev, ids)
    PROVE  BufferInv(consumeSsn(b, 0), ev, ids)
<1> DEFINE P == b.mPending
           n == b.mNextSsn
           c == [mNextSsn |-> 1, mPending |-> P]
<1>1. b = [mNextSsn |-> n, mPending |-> P] /\ n \in 0..(SsnCount - 1) /\ PendingOf(P, ids)
      /\ ToldUpTo(ev, ids, n)
  BY DEF BufferInv
<1>2. NextSsn(0) = 1 /\ 1 \in 0..(SsnCount - 1)
  BY SsnAssumption DEF NextSsn
<1> HIDE DEF n, P
<1>3. CASE n = 0
  <2>1. consumeSsn(b, 0) = c
    BY <1>1, <1>2, <1>3 DEF consumeSsn
  <2>2. c.mNextSsn = 1 /\ c.mPending = P
    OBVIOUS
  <2> HIDE DEF c
  <2>3. c = [mNextSsn |-> c.mNextSsn, mPending |-> c.mPending]
    BY <2>2 DEF c
  <2>4. ToldUpTo(ev, ids, 1)
    <3>1. \A k \in 1..Len(ids) : ~(k <= 0)
      OBVIOUS
    <3> QED BY <1>1, <1>3, <3>1 DEF ToldUpTo
  <2>5. BufferInv(c, ev, ids)
    BY <1>1, <1>2, <2>2, <2>3, <2>4 DEF BufferInv
  <2> QED BY <2>1, <2>5
<1>4. CASE n # 0
  <2>1. consumeSsn(b, 0) = b
    BY <1>4 DEF consumeSsn, n
  <2> QED BY <2>1
<1> QED BY <1>3, <1>4

\* A fragment joins the message of its SSN.
LEMMA AccumulateHears ==
    ASSUME NEW b, NEW ids, NEW ssn, NEW first, NEW last, NEW data, IsSeq(ids),
           b = [mNextSsn |-> b.mNextSsn, mPending |-> b.mPending], PendingOf(b.mPending, ids),
           ssn \in 0..(Len(ids) - 1), data[1] = ids[ssn + 1]
    PROVE  LET a == Accumulate(b, ssn, first, last, data)
           IN  /\ a = [mNextSsn |-> b.mNextSsn, mPending |-> a.mPending]
               /\ PendingOf(a.mPending, ids)
<1> DEFINE P == b.mPending
           n == b.mNextSsn
           none == <<>>
           old == IF ssn \in DOMAIN P THEN P[ssn] ELSE [payload |-> none, complete |-> FALSE]
           before == IF first THEN none ELSE old.payload
           done == old.complete \/ last
           new == [payload |-> Append(before, data), complete |-> done]
           Q == [s \in DOMAIN P \cup {ssn} |-> IF s = ssn THEN new ELSE P[s]]
           a == Accumulate(b, ssn, first, last, data)
<1>0. b = [mNextSsn |-> n, mPending |-> P] /\ PendingOf(P, ids)
  OBVIOUS
<1>1. a = [b EXCEPT !.mPending = Q]
  BY DEF Accumulate
<1>2. IsSeq(before)
  <2>1. IsSeq(none)
    BY EmptyIs
  <2>2. ssn \in DOMAIN P => IsSeq(P[ssn].payload)
    BY <1>0 DEF PendingOf
  <2> HIDE DEF P, none
  <2> QED BY <2>1, <2>2
<1>3. before = none \/ (ssn \in DOMAIN P /\ before = P[ssn].payload)
  <2> HIDE DEF P, none
  <2> QED OBVIOUS
<1> HIDE DEF n, P
<1>4. a = [mNextSsn |-> n, mPending |-> Q]
  <2> HIDE DEF Q, a
  <2> QED BY <1>0, <1>1
<1> HIDE DEF a
<1> DEFINE x == Append(before, data)
<1>5. IsSeq(x) /\ x # <<>> /\ x[1][1] = ids[ssn + 1]
  <2>1. /\ IsSeq(x) /\ Len(x) = Len(before) + 1 /\ (\A i \in 1..Len(before) : x[i] = before[i])
        /\ x[Len(before) + 1] = data /\ Len(before) \in Nat
    <3> HIDE DEF before
    <3> QED BY <1>2, AppendIs, SeqIs
  <2> HIDE DEF x, before
  <2>2. x # <<>>
    <3>1. Len(x) # 0
      BY <2>1
    <3> QED BY <2>1, <3>1, EmptyIs
  <2>3. CASE before = none
    <3>1. Len(before) = 0
      BY <1>2, <2>3, EmptyIs
    <3>2. x[1] = data
      BY <2>1, <3>1
    <3> QED BY <2>1, <2>2, <3>2
  <2>4. CASE before # none
    <3>1. Len(before) # 0
      BY <1>2, <2>4, EmptyIs
    <3>2. 1 \in 1..Len(before)
      BY <2>1, <3>1
    <3>3. x[1] = before[1] /\ before = P[ssn].payload /\ ssn \in DOMAIN P
      BY <1>3, <2>1, <2>4, <3>2
    <3>4. P[ssn].payload[1][1] = ids[ssn + 1]
      BY <1>0, <3>3 DEF PendingOf
    <3> QED BY <2>1, <2>2, <3>3, <3>4
  <2> QED BY <2>3, <2>4
<1> HIDE DEF x, done
<1>6. new.payload = x /\ new = [payload |-> new.payload, complete |-> new.complete]
  BY DEF x
<1> HIDE DEF new, none, old, before
<1>7. DOMAIN Q = DOMAIN P \cup {ssn} /\ Q[ssn] = new /\ \A s \in DOMAIN P : s # ssn => Q[s] = P[s]
  OBVIOUS
<1> HIDE DEF Q
<1>8. ASSUME NEW s \in DOMAIN Q
      PROVE  /\ s \in 0..(Len(ids) - 1)
             /\ Q[s] = [payload |-> Q[s].payload, complete |-> Q[s].complete]
             /\ IsSeq(Q[s].payload) /\ Q[s].payload # <<>> /\ Q[s].payload[1][1] = ids[s + 1]
  <2>1. CASE s = ssn
    BY <1>5, <1>6, <1>7, <2>1
  <2>2. CASE s # ssn
    BY <1>0, <1>7, <2>2 DEF PendingOf
  <2> QED BY <2>1, <2>2
<1>9. PendingOf(Q, ids)
  BY <1>8 DEF PendingOf
<1>10. a.mPending = Q
  BY <1>4
<1> QED BY <1>4, <1>9, <1>10 DEF a, n

\* The loop at the end of receive() ends: all it walks over is complete.
LEMMA DrainIs ==
    ASSUME NEW a, IsFiniteSet(DOMAIN a.mPending)
    PROVE  /\ DrainCount(a) \in Nat
           /\ \A i \in 0..(DrainCount(a) - 1) : Complete(a, (a.mNextSsn + i) % SsnCount)
<1> DEFINE C == Cardinality(DOMAIN a.mPending)
           Done(i) == Complete(a, (a.mNextSsn + i) % SsnCount)
           Is(n) == /\ \A i \in 0..(n - 1) : Done(i)
                    /\ n < C => ~Done(n)
           S == {n \in 0..C : n = C \/ ~Done(n)}
<1>1. C \in Nat
  BY FS_CardinalityType
<1>2. DrainCount(a) = CHOOSE n \in 0..C : Is(n)
  BY DEF DrainCount
<1> HIDE DEF C, Done
<1>3. S \in SUBSET Nat /\ S # {}
  BY <1>1
<1> DEFINE n == Min(S)
<1>4. n \in S /\ \A y \in S : n <= y
  <2> HIDE DEF S
  <2> QED BY <1>3, MinOfNats
<1> HIDE DEF n
<1>5. n \in 0..C /\ Is(n)
  BY <1>1, <1>4
<1>6. \E k \in 0..C : Is(k)
  BY <1>5
<1> DEFINE d == CHOOSE k \in 0..C : Is(k)
<1>7. d \in 0..C /\ Is(d)
  BY <1>6, Zenon
<1> HIDE DEF d
<1>8. d \in Nat /\ \A i \in 0..(d - 1) : Done(i)
  BY <1>1, <1>7
<1> QED BY <1>2, <1>8 DEF d, Done

\* SSNs that are complete are SSNs of messages, so that the loop passes no message.
LEMMA DrainStays ==
    ASSUME NEW N \in 0..(SsnCount - 1), NEW n \in Nat, NEW L \in Nat, L < SsnCount,
           \A i \in 0..(n - 1) : (N + i) % SsnCount \in 0..(L - 1)
    PROVE  /\ N + n < SsnCount
           /\ \A i \in 0..(n - 1) : (N + i) % SsnCount = N + i /\ N + i < L
<1> DEFINE T == {i \in Nat : i < n => N + i < L}
<1>0. SsnCount \in Nat /\ N \in Nat /\ N < SsnCount
  BY SsnAssumption
<1>1. \A x \in Nat : x < SsnCount => x % SsnCount = x
  BY <1>0
<1>2. 0 \in T
  <2>1. ASSUME 0 < n PROVE N + 0 < L
    <3>1. 0 \in 0..(n - 1) /\ N + 0 = N
      BY <1>0, <2>1
    <3>2. (N + 0) % SsnCount = N
      BY <1>0, <1>1, <3>1
    <3>3. N \in 0..(L - 1)
      BY <3>1, <3>2
    <3> QED BY <1>0, <3>3
  <2> QED BY <2>1
<1>3. ASSUME NEW i \in Nat, i \in T PROVE i + 1 \in T
  <2>1. ASSUME i + 1 < n PROVE N + (i + 1) < L
    <3> DEFINE x == N + (i + 1)
    <3>1. N + i < L /\ i + 1 \in 0..(n - 1)
      BY <1>3, <2>1
    <3>2. x \in Nat /\ x <= L /\ x < SsnCount
      BY <1>0, <3>1
    <3>3. x % SsnCount \in 0..(L - 1)
      BY <3>1
    <3> HIDE DEF x
    <3>4. x \in 0..(L - 1)
      BY <1>1, <3>2, <3>3
    <3>5. x < L
      BY <3>4
    <3> QED BY <3>5 DEF x
  <2> QED BY <2>1
<1>4. Nat \subseteq T
  <2> HIDE DEF T
  <2> QED BY <1>2, <1>3, NatSetInduction
<1>5. ASSUME NEW i \in 0..(n - 1) PROVE (N + i) % SsnCount = N + i /\ N + i < L
  <2> DEFINE x == N + i
  <2>1. i \in Nat /\ i < n /\ N + i < L
    BY <1>4
  <2>2. x \in Nat /\ x < SsnCount /\ x < L
    BY <1>0, <2>1
  <2> HIDE DEF x
  <2>3. x % SsnCount = x
    BY <1>1, <2>2
  <2> QED BY <2>2, <2>3 DEF x
<1>6. N + n < SsnCount
  <2>1. CASE n = 0
    BY <1>0, <2>1
  <2>2. CASE n # 0
    <3>1. n - 1 \in Nat /\ n - 1 < n
      BY <2>2
    <3>2. N + (n - 1) < L
      BY <1>4, <3>1
    <3> QED BY <1>0, <3>2
  <2> QED BY <2>1, <2>2
<1> QED BY <1>5, <1>6

\* New calls hand over the messages with the SSNs from mNextSsn on.
LEMMA ToldMore ==
    ASSUME NEW h, NEW ev, NEW more, NEW N \in Nat, NEW n \in Nat, Rising(h), Told(ev),
           ToldUpTo(ev, h.ids, N), IsSeq(more), Len(more) = n,
           \A i \in 1..n : /\ IsMessage(more[i]) /\ N + i \in 1..Len(h.ids)
                           /\ MessageId(more[i]) = h.ids[N + i]
    PROVE  Told(ev \o more) /\ ToldUpTo(ev \o more, h.ids, N + n)
<1> DEFINE w == ev \o more
           f == h.ids
           l == Len(ev)
<1>1. IsSeq(ev) /\ l \in Nat /\ Len(f) \in Nat
  BY SeqIs DEF Told, Rising
<1>2. /\ IsSeq(w) /\ Len(w) = l + n
      /\ \A i \in 1..l : w[i] = ev[i]
      /\ \A i \in 1..n : w[l + i] = more[i]
  <2>1. /\ IsSeq(w) /\ Len(w) = Len(ev) + Len(more)
        /\ \A i \in 1..Len(ev) : w[i] = ev[i]
        /\ \A i \in 1..Len(more) : w[Len(ev) + i] = more[i]
    <3>1. IsSeq(more) /\ IsSeq(ev)
      BY <1>1
    <3> QED BY <3>1, ConcatIs
  <2> HIDE DEF w
  <2> QED BY <2>1
<1>3. \A i \in 1..Len(f) : f[i] \in Nat /\ \A j \in 1..Len(f) : i < j => f[i] < f[j]
  BY DEF Rising
<1>30. /\ \A i, j \in 1..l : i < j /\ IsMessage(ev[i]) /\ IsMessage(ev[j])
                                => MessageId(ev[i]) < MessageId(ev[j])
       /\ \A i \in 1..l : IsMessage(ev[i]) => \E k \in 1..Len(f) : k <= N /\ MessageId(ev[i]) = f[k]
       /\ \A i \in 1..n : N + i \in 1..Len(f) /\ MessageId(more[i]) = f[N + i]
  BY DEF Told, ToldUpTo
<1> HIDE DEF w, f, l
<1>4. ASSUME NEW i \in 1..Len(w), ~(i \in 1..l)
      PROVE  \E x \in 1..n : i = l + x /\ w[i] = more[x]
  <2> DEFINE x == i - l
  <2>1. x \in 1..n /\ i = l + x
    BY <1>1, <1>2, <1>4
  <2> HIDE DEF x
  <2> QED BY <1>2, <2>1
<1>5. ASSUME NEW i \in 1..Len(w), NEW j \in 1..Len(w), i < j, IsMessage(w[i]), IsMessage(w[j])
      PROVE  MessageId(w[i]) < MessageId(w[j])
  <2>1. CASE j \in 1..l
    <3>1. i \in 1..l
      BY <1>1, <1>5, <2>1
    <3> QED BY <1>2, <1>30, <1>5, <2>1, <3>1
  <2>2. CASE ~(j \in 1..l)
    <3>1. PICK y \in 1..n : j = l + y /\ w[j] = more[y]
      BY <1>4, <2>2
    <3>2. N + y \in 1..Len(f) /\ MessageId(w[j]) = f[N + y]
      BY <1>30, <3>1
    <3>3. CASE i \in 1..l
      <4>0. w[i] = ev[i] /\ IsMessage(ev[i])
        BY <1>2, <1>5, <3>3
      <4>1. PICK k \in 1..Len(f) : k <= N /\ MessageId(w[i]) = f[k]
        BY <1>30, <3>3, <4>0
      <4>2. k < N + y
        BY <4>1
      <4> QED BY <1>3, <3>2, <4>1, <4>2
    <3>4. CASE ~(i \in 1..l)
      <4>1. PICK x \in 1..n : i = l + x /\ w[i] = more[x]
        BY <1>4, <3>4
      <4>2. N + x \in 1..Len(f) /\ MessageId(more[x]) = f[N + x]
        BY <1>30
      <4>20. MessageId(w[i]) = f[N + x]
        BY <4>1, <4>2
      <4>3. N + x < N + y
        BY <1>1, <1>5, <3>1, <4>1
      <4> QED BY <1>3, <3>2, <4>2, <4>20, <4>3
    <3> QED BY <3>3, <3>4
  <2> QED BY <2>1, <2>2
<1>6. Told(w)
  BY <1>2, <1>5 DEF Told
<1>7. ASSUME NEW i \in 1..Len(w), IsMessage(w[i])
      PROVE  \E k \in 1..Len(f) : k <= N + n /\ MessageId(w[i]) = f[k]
  <2>1. CASE i \in 1..l
    <3>0. w[i] = ev[i] /\ IsMessage(ev[i])
      BY <1>2, <1>7, <2>1
    <3>1. PICK k \in 1..Len(f) : k <= N /\ MessageId(w[i]) = f[k]
      BY <1>30, <2>1, <3>0
    <3>2. k <= N + n
      BY <3>1
    <3> QED BY <3>1, <3>2
  <2>2. CASE ~(i \in 1..l)
    <3>1. PICK x \in 1..n : i = l + x /\ w[i] = more[x]
      BY <1>4, <2>2
    <3>2. N + x \in 1..Len(f) /\ N + x <= N + n /\ MessageId(w[i]) = f[N + x]
      BY <1>30, <3>1
    <3> QED BY <3>2
  <2> QED BY <2>1, <2>2
<1>8. ToldUpTo(w, f, N + n)
  BY <1>7 DEF ToldUpTo
<1> QED BY <1>6, <1>8 DEF w, f

\* receive() of a fragment of the stream.
LEMMA BufferHears ==
    ASSUME NEW b, NEW ev, NEW h, NEW c, NEW label, Rising(h), Told(ev), BufferInv(b, ev, h.ids),
           Len(h.ids) < SsnCount, c.ssn \in 0..(Len(h.ids) - 1), c.data[1] = h.ids[c.ssn + 1]
    PROVE  LET r == receive(b, c.ssn, c.first, c.last, FALSE, c.data)
               more == [n \in DOMAIN r.out |-> <<"message", label, r.out[n]>>]
           IN  /\ IsSeq(more) /\ Told(ev \o more) /\ BufferInv(r.buf, ev \o more, h.ids)
<1> DEFINE ids == h.ids
           ssn == c.ssn
           L == Len(ids)
           N == b.mNextSsn
           a == Accumulate(b, ssn, c.first, c.last, c.data)
           P == a.mPending
           r == receive(b, ssn, c.first, c.last, FALSE, c.data)
           more == [n \in DOMAIN r.out |-> <<"message", label, r.out[n]>>]
<1>1. r = IF SsnBefore(ssn, N) THEN [buf |-> b, out |-> <<>>] ELSE Drain(a)
  BY DEF receive
<1>2. IsSeq(ids) /\ L \in Nat /\ SsnCount \in Nat /\ SsnCount > 1
  BY SeqIs, SsnAssumption DEF Rising
<1>3. /\ b = [mNextSsn |-> N, mPending |-> b.mPending] /\ N \in 0..(SsnCount - 1)
      /\ PendingOf(b.mPending, ids) /\ ToldUpTo(ev, ids, N)
  BY DEF BufferInv
<1>4. a = [mNextSsn |-> N, mPending |-> P] /\ PendingOf(P, ids)
  <2>1. ssn \in 0..(Len(ids) - 1) /\ c.data[1] = ids[ssn + 1]
    OBVIOUS
  <2> HIDE DEF ids, ssn
  <2> QED BY <1>2, <1>3, <2>1, AccumulateHears
<1> HIDE DEF r, a
<1>5. CASE SsnBefore(ssn, N)
  <2>1. r.buf = b /\ r.out = <<>>
    BY <1>1, <1>5
  <2>2. more = [i \in 1..0 |-> more[i]]
    <3>1. DOMAIN r.out = 1..0
      <4> DEFINE none == r.out
      <4>1. IsSeq(none) /\ Len(none) = 0
        BY <1>2, <2>1, EmptyIs
      <4> HIDE DEF none
      <4>2. DOMAIN none = 1..0
        BY <4>1, SeqIs
      <4> QED BY <4>2 DEF none
    <3> QED BY <3>1
  <2> HIDE DEF more
  <2>3. IsSeq(more) /\ Len(more) = 0
    BY <2>2, FunctionIsSeq
  <2>4. N \in Nat /\ N + 0 = N
    BY <1>2, <1>3
  <2>5. Told(ev \o more) /\ ToldUpTo(ev \o more, ids, N + 0)
    <3>1. \A i \in 1..0 : /\ IsMessage(more[i]) /\ N + i \in 1..Len(h.ids)
                          /\ MessageId(more[i]) = h.ids[N + i]
      OBVIOUS
    <3>2. 0 \in Nat
      OBVIOUS
    <3> HIDE DEF N
    <3> QED BY <1>3, <2>3, <2>4, <3>1, <3>2, ToldMore
  <2>6. BufferInv(b, ev \o more, ids)
    BY <1>3, <2>4, <2>5 DEF BufferInv
  <2> QED BY <2>1, <2>3, <2>5, <2>6 DEF more, r
<1>6. CASE ~SsnBefore(ssn, N)
  <2> DEFINE n == DrainCount(a)
             at(i) == (N + i - 1) % SsnCount
             ssns == {at(i) : i \in 1..n}
             Q == [s \in (DOMAIN P) \ ssns |-> P[s]]
             out == [i \in 1..n |-> P[at(i)].payload]
             buf == [mNextSsn |-> (N + n) % SsnCount, mPending |-> Q]
  <2>1. a.mNextSsn = N /\ a.mPending = P
    BY <1>4
  <2>2. IsFiniteSet(DOMAIN P)
    <3>1. DOMAIN P \subseteq 0..(L - 1)
      BY <1>4 DEF PendingOf
    <3>2. IsFiniteSet(0..(L - 1))
      BY <1>2, FS_Interval
    <3> QED BY <3>1, <3>2, FS_Subset
  <2>3. n \in Nat /\ \A i \in 0..(n - 1) : Complete(a, (N + i) % SsnCount)
    BY <2>1, <2>2, DrainIs
  <2>4. r.buf = buf /\ r.out = out
    <3>1. r = [buf |-> [Erase(a, ssns) EXCEPT !.mNextSsn = (@ + n) % SsnCount],
               out |-> [i \in 1..n |-> a.mPending[at(i)].payload]]
      BY <1>1, <1>6, <2>1 DEF Drain
    <3> HIDE DEF n, ssns, at
    <3>2. Erase(a, ssns) = [a EXCEPT !.mPending = Q]
      BY <2>1 DEF Erase
    <3> HIDE DEF Q, P, N
    <3>3. [Erase(a, ssns) EXCEPT !.mNextSsn = (@ + n) % SsnCount] = buf
      BY <1>4, <3>2
    <3> QED BY <2>1, <3>1, <3>3
  <2> HIDE DEF n, P
  <2>5. \A i \in 0..(n - 1) : (N + i) % SsnCount \in DOMAIN P /\ (N + i) % SsnCount \in 0..(L - 1)
    BY <1>4, <2>1, <2>3 DEF Complete, PendingOf
  <2>6. N + n < SsnCount /\ \A i \in 0..(n - 1) : (N + i) % SsnCount = N + i /\ N + i < L
    <3>1. L < SsnCount
      OBVIOUS
    <3> HIDE DEF N, L
    <3> QED BY <1>2, <1>3, <2>3, <2>5, <3>1, DrainStays
  <2>7. N \in Nat /\ N + n \in 0..(SsnCount - 1) /\ (N + n) % SsnCount = N + n
    <3> DEFINE x == N + n
    <3>1. N \in Nat
      BY <1>2, <1>3
    <3> HIDE DEF N
    <3>2. x \in Nat /\ x < SsnCount
      BY <2>3, <2>6, <3>1
    <3> HIDE DEF x
    <3>3. x \in 0..(SsnCount - 1) /\ x % SsnCount = x
      BY <1>2, <3>2
    <3> QED BY <3>1, <3>3 DEF x
  <2>8. ASSUME NEW i \in 1..n
        PROVE  at(i) = N + (i - 1) /\ at(i) \in DOMAIN P /\ N + i \in 1..L
    <3>1. i - 1 \in 0..(n - 1) /\ N + i - 1 = N + (i - 1)
      BY <2>3, <2>7
    <3>2. (N + (i - 1)) % SsnCount = N + (i - 1) /\ N + (i - 1) < L
      BY <2>6, <3>1
    <3>3. at(i) \in DOMAIN P
      BY <2>5, <3>1
    <3>4. N + i \in 1..L
      <4>1. N \in Nat /\ L \in Nat /\ i \in Nat /\ i > 0 /\ N + (i - 1) < L
        BY <1>2, <2>3, <2>7, <3>2
      <4> HIDE DEF N, L
      <4> QED BY <4>1
    <3> QED BY <3>1, <3>2, <3>3, <3>4
  <2> HIDE DEF at
  <2>9. ASSUME NEW i \in 1..n PROVE out[i][1][1] = ids[N + i]
    <3> DEFINE s == at(i)
    <3>1. s \in DOMAIN P /\ s + 1 = N + i
      BY <2>7, <2>8
    <3>2. out[i] = P[s].payload
      OBVIOUS
    <3> HIDE DEF s, out
    <3>3. P[s].payload[1][1] = ids[s + 1]
      BY <1>4, <3>1 DEF PendingOf
    <3> QED BY <3>1, <3>2, <3>3
  <2>10. DOMAIN out = 1..n
    OBVIOUS
  <2> HIDE DEF out
  <2>11. more = [i \in 1..n |-> more[i]] /\ \A i \in 1..n : more[i] = <<"message", label, out[i]>>
    BY <2>4, <2>10
  <2> HIDE DEF more
  <2>12. IsSeq(more) /\ Len(more) = n
    BY <2>3, <2>11, FunctionIsSeq
  <2>13. \A i \in 1..n : IsMessage(more[i]) /\ MessageId(more[i]) = out[i][1][1]
    <3>1. ASSUME NEW i \in 1..n PROVE IsMessage(more[i]) /\ MessageId(more[i]) = out[i][1][1]
      <4> DEFINE y == more[i]
                 z == out[i]
      <4>1. y = <<"message", label, z>>
        BY <2>11
      <4> HIDE DEF y, z
      <4>2. y[1] = "message" /\ y[3] = z
        BY <4>1
      <4>3. IsMessage(y) /\ MessageId(y) = z[1][1]
        BY <4>2 DEF IsMessage, MessageId
      <4> QED BY <4>3 DEF y, z
    <3> QED BY <3>1
  <2>14. Told(ev \o more) /\ ToldUpTo(ev \o more, ids, N + n)
    <3>1. \A i \in 1..n : /\ IsMessage(more[i]) /\ N + i \in 1..Len(h.ids)
                          /\ MessageId(more[i]) = h.ids[N + i]
      BY <2>8, <2>9, <2>13
    <3> HIDE DEF N
    <3> QED BY <1>3, <2>3, <2>7, <2>12, <3>1, ToldMore
  <2>15. PendingOf(Q, ids)
    <3> HIDE DEF ssns
    <3>1. DOMAIN Q \subseteq DOMAIN P /\ \A s \in DOMAIN Q : Q[s] = P[s]
      OBVIOUS
    <3> HIDE DEF Q
    <3> QED BY <1>4, <3>1 DEF PendingOf
  <2> HIDE DEF Q
  <2>16. buf.mNextSsn = N + n /\ buf.mPending = Q
    BY <2>7
  <2>17. buf = [mNextSsn |-> buf.mNextSsn, mPending |-> buf.mPending]
    OBVIOUS
  <2> HIDE DEF buf
  <2>18. BufferInv(buf, ev \o more, ids)
    BY <2>7, <2>14, <2>15, <2>16, <2>17 DEF BufferInv
  <2> QED BY <2>4, <2>12, <2>14, <2>18 DEF more, r
<1> QED BY <1>5, <1>6

-----------------------------------------------------------------------------
\* DATA.

\* A handler of e, whose peer gave SSNs to ids: what its listener was told, and is told now.
Tells(e, r, h, m, ev, ids) ==
    Moves(e, r[1], r[2], h, m) /\ Told(ev \o r[3]) /\ HearInv(r[1], ev \o r[3], ids)

LEMMA SilentTells ==
    ASSUME NEW e, NEW s, NEW r, NEW h, NEW m, NEW ev, NEW ids, Silent(e, s, r, h, m), Told(ev),
           HearInv(s, ev, ids)
    PROVE  Tells(e, r, h, m, ev, ids)
<1>1. Moves(e, r[1], r[2], h, m) /\ Hush(s, r[1]) /\ r[3] = <<>>
  BY DEF Silent
<1>2. NoMessages(r[3])
  <2> DEFINE none == r[3]
  <2>1. IsSeq(none) /\ Len(none) = 0
    BY <1>1, EmptyIs DEF Hush
  <2> HIDE DEF none
  <2>2. NoMessages(none)
    BY <2>1 DEF NoMessages
  <2> QED BY <2>2 DEF none
<1>3. HearInv(r[1], ev, ids)
  BY <1>1, HushHears
<1> QED BY <1>1, <1>2, <1>3, NothingTold DEF Tells

\* The state and the buffer of a channel change.
ChannelIs(st, b, n) ==
    [label |-> Label, streamId |-> Stream, state |-> st, receiveBuffer |-> b, sendSsn |-> n]

Rechannelled(s, t, i, st, b) ==
    /\ i \in 1..Len(s.mDataChannels) /\ DOMAIN t = Fields
    /\ \A f \in Fields \ {"mDataChannels"} : t[f] = s[f]
    /\ t.mDataChannels = [s.mDataChannels EXCEPT
                             ![i] = ChannelIs(st, b, s.mDataChannels[i].sendSsn)]

LEMMA ChannelChanges ==
    ASSUME NEW s, NEW t, NEW ids, NEW i, NEW st, NEW b, SessionInv(s), Holds(s, ids),
           Rechannelled(s, t, i, st, b)
    PROVE  /\ SessionInv(t) /\ Holds(t, ids) /\ IsSeq(t.mDataChannels)
           /\ Len(t.mDataChannels) = Len(s.mDataChannels)
           /\ t.mDataChannels[i].receiveBuffer = b /\ t.mDataChannels[i].state = st
           /\ \A j \in 1..Len(s.mDataChannels) : j # i => t.mDataChannels[j] = s.mDataChannels[j]
           /\ s.mDataChannels # <<>> /\ t.mDataChannels # <<>>
<1> DEFINE q == s.mDataChannels
           r == t.mDataChannels
           n == q[i].sendSsn
           y == ChannelIs(st, b, n)
<1>0. /\ i \in 1..Len(q) /\ DOMAIN t = Fields /\ r = [q EXCEPT ![i] = y]
      /\ \A f \in Fields \ {"mDataChannels"} : t[f] = s[f]
  BY DEF Rechannelled
<1>1. IsSeq(q) /\ Len(q) \in Nat /\ DOMAIN q = 1..Len(q)
  BY SeqIs DEF SessionInv, Accounts
<1>2. y.label = Label /\ y.streamId = Stream /\ y.state = st /\ y.receiveBuffer = b /\ y.sendSsn = n
      /\ y = [label |-> Label, streamId |-> Stream, state |-> y.state,
              receiveBuffer |-> y.receiveBuffer, sendSsn |-> y.sendSsn]
  BY DEF ChannelIs
<1> HIDE DEF q, r, y
<1>4. IsSeq(r) /\ Len(r) = Len(q) /\ r[i] = y /\ \A j \in 1..Len(q) : j # i => r[j] = q[j]
  <2>1. r = [j \in 1..Len(q) |-> r[j]]
    BY <1>0, <1>1
  <2>2. r[i] = y /\ \A j \in 1..Len(q) : j # i => r[j] = q[j]
    BY <1>0, <1>1
  <2> QED BY <1>1, <2>1, <2>2, FunctionIsSeq
<1>5. q # <<>> /\ r # <<>> /\ 1 \in 1..Len(q)
  <2>1. Len(q) # 0 /\ 1 \in 1..Len(q)
    BY <1>0, <1>1
  <2> QED BY <1>1, <1>4, <2>1, EmptyIs
<1>6. OnStream(q) /\ q[1].sendSsn = Len(ids)
  BY <1>5 DEF Holds, q
<1>7. OnStream(r)
  <2>1. ASSUME NEW j \in 1..Len(r)
        PROVE  r[j] = [label |-> Label, streamId |-> Stream, state |-> r[j].state,
                       receiveBuffer |-> r[j].receiveBuffer, sendSsn |-> r[j].sendSsn]
    <3>1. CASE j = i
      BY <1>2, <1>4, <3>1
    <3>2. CASE j # i
      BY <1>4, <1>6, <3>2 DEF OnStream
    <3> QED BY <3>1, <3>2
  <2> QED BY <2>1 DEF OnStream
<1>8. r[1].sendSsn = Len(ids)
  <2>1. CASE i = 1
    BY <1>2, <1>4, <1>6, <2>1
  <2>2. CASE i # 1
    BY <1>4, <1>5, <1>6, <2>2
  <2> QED BY <2>1, <2>2
<1>9. t.mSentChunks = s.mSentChunks /\ \A f \in Read : t[f] = s[f]
  BY <1>0 DEF Fields, Read
<1>10. SessionInv(t)
  BY <1>0, <1>4, <1>9, OtherChannels DEF r
<1>11. Holds(t, ids)
  <2>1. \A j \in 1..Len(s.mSentChunks) : ChunkOf(s.mSentChunks[j], ids)
    BY DEF Holds
  <2> QED BY <1>5, <1>7, <1>8, <1>9, <2>1 DEF Holds, r
<1> QED BY <1>2, <1>4, <1>5, <1>10, <1>11 DEF q, r

\* What is left of a sender when its channels change.
LEMMA SameSender ==
    ASSUME NEW s, NEW t, NEW h, NEW m, SendInv(s, h, m), Holds(t, h.ids),
           \A f \in {"mPendingSend", "mDataSendQueue", "mFlightSize", "mPeerRwnd"} : t[f] = s[f]
    PROVE  /\ Line(t, h, m - Len(t.mDataSendQueue)) /\ WaitForRoom(t)
           /\ Waits(t.mDataSendQueue, h.last, m) /\ h.last <= m
<1>1. /\ t.mPendingSend = s.mPendingSend /\ t.mDataSendQueue = s.mDataSendQueue
      /\ t.mFlightSize = s.mFlightSize /\ t.mPeerRwnd = s.mPeerRwnd
  OBVIOUS
<1> QED BY <1>1 DEF SendInv, Line, WaitForRoom, NoRoom

LEMMA UserDataTells ==
    ASSUME NEW e, NEW s, NEW c, NEW h, NEW k, NEW m \in Nat, NEW ev, SessionInv(s),
           SendInv(s, h, m), HearInv(s, ev, k.ids), Rising(k), Told(ev), Len(k.ids) < SsnCount,
           ChunkOf(c, k.ids), c.kind = "user"
    PROVE  Tells(e, ReceiveUserData(s, c), h, m, ev, k.ids)
<1> DEFINE q == s.mDataChannels
           i == ChannelByStream(s, c.streamId)
           b == q[1].receiveBuffer
           Got(j) == receive(q[j].receiveBuffer, c.ssn, c.first, c.last, FALSE, c.data)
           On(j) == <<[s EXCEPT !.mDataChannels[j].receiveBuffer = Got(j).buf], {},
                      [n \in DOMAIN Got(j).out |-> <<"message", q[j].label, Got(j).out[n]>>]>>
           x == receive(b, c.ssn, c.first, c.last, FALSE, c.data)
           t == [s EXCEPT !.mDataChannels[1].receiveBuffer = x.buf]
           more == [n \in DOMAIN x.out |-> <<"message", q[1].label, x.out[n]>>]
           r == ReceiveUserData(s, c)
<1>0. Accounts(s) /\ DOMAIN s = Fields /\ IsSeq(q) /\ Len(q) \in Nat /\ DOMAIN q = 1..Len(q)
  BY SeqIs DEF SessionInv, Accounts
<1>1. r = IF i = 0 THEN <<s, {}, <<>>>> ELSE On(i)
  BY DEF ReceiveUserData
<1>2. /\ c.streamId = Stream /\ c.ssn \in 0..(Len(k.ids) - 1) /\ c.data[1] = k.ids[c.ssn + 1]
  BY DEF ChunkOf
<1>3. Rising(h) /\ IsSeq(h.ids) /\ Holds(s, h.ids) /\ OnStream(q)
  BY <1>0, SendInvIs DEF Holds
<1>4. i = IF q = <<>> THEN 0 ELSE 1
  BY <1>0, <1>2, <1>3, FirstChannel
<1>5. CASE q = <<>>
  <2>1. r = <<s, {}, <<>>>>
    BY <1>1, <1>4, <1>5
  <2>2. Silent(e, s, r, h, m)
    BY <2>1, SameSilent
  <2> QED BY <2>2, SilentTells
<1>6. CASE q # <<>>
  <2>1. r = <<t, {}, more>>
    <3> HIDE DEF i, r, On
    <3>1. r = On(1)
      BY <1>1, <1>4, <1>6
    <3> QED BY <3>1 DEF On
  <2> HIDE DEF r, i
  <2>2. BufferInv(b, ev, k.ids)
    BY <1>6 DEF HearInv
  <2>3. IsSeq(more) /\ Told(ev \o more) /\ BufferInv(x.buf, ev \o more, k.ids)
    <3> HIDE DEF b
    <3> QED BY <1>2, <2>2, BufferHears
  <2> HIDE DEF more, x
  <2> DEFINE y == x.buf
             c1 == q[1]
  <2>4. 1 \in 1..Len(q)
    <3>1. Len(q) # 0
      BY <1>0, <1>6, EmptyIs
    <3> QED BY <1>0, <3>1
  <2>5. c1 = ChannelIs(c1.state, c1.receiveBuffer, c1.sendSsn)
    BY <1>3, <2>4 DEF OnStream, ChannelIs
  <2>6. DOMAIN t = Fields /\ (\A f \in Fields \ {"mDataChannels"} : t[f] = s[f])
        /\ t.mDataChannels = [q EXCEPT ![1] = [c1 EXCEPT !.receiveBuffer = y]]
    BY <1>0, <2>4 DEF Fields
  <2> HIDE DEF t, y, c1
  <2>7. [c1 EXCEPT !.receiveBuffer = y] = ChannelIs(c1.state, y, c1.sendSsn)
    BY <2>5 DEF ChannelIs
  <2>8. t.mDataChannels = [q EXCEPT ![1] = ChannelIs(c1.state, y, q[1].sendSsn)]
    BY <2>6, <2>7 DEF c1
  <2>9. /\ Holds(t, h.ids) /\ IsSeq(t.mDataChannels) /\ Len(t.mDataChannels) = Len(q)
        /\ t.mDataChannels[1].receiveBuffer = y /\ t.mDataChannels[1].state = c1.state
        /\ \A j \in 1..Len(q) : j # 1 => t.mDataChannels[j] = q[j]
        /\ t.mDataChannels # <<>>
    <3>1. Rechannelled(s, t, 1, c1.state, y)
      BY <2>4, <2>6, <2>8 DEF Rechannelled
    <3> QED BY <1>3, <3>1, ChannelChanges
  <2>10. \A f \in {"mPendingSend", "mDataSendQueue", "mFlightSize", "mPeerRwnd"} : t[f] = s[f]
    BY <2>6 DEF Fields
  <2>11. /\ Line(t, h, m - Len(t.mDataSendQueue)) /\ WaitForRoom(t)
         /\ Waits(t.mDataSendQueue, h.last, m) /\ h.last <= m
    BY <2>9, <2>10, SameSender
  <2>12. t.mDataSendQueue # <<>> => NoneOpen(t.mDataChannels)
    <3>1. \A j \in 1..Len(q) : t.mDataChannels[j].state = q[j].state
      BY <2>9 DEF c1
    <3>2. t.mDataSendQueue = s.mDataSendQueue
      BY <2>10
    <3>3. s.mDataSendQueue # <<>> => NoneOpen(q)
      BY DEF SendInv
    <3> QED BY <2>9, <3>1, <3>2, <3>3 DEF NoneOpen
  <2>13. SendInv(t, h, m)
    BY <2>11, <2>12 DEF SendInv
  <2>14. Moves(e, t, {}, h, m)
    <3>1. Brings(e, {}, h.ids) /\ Extends(h.ids, h.ids)
      BY <1>3, ExtendsSelf DEF Brings
    <3> QED BY <2>13, <3>1 DEF Moves
  <2>15. HearInv(t, ev \o more, k.ids)
    BY <2>3, <2>9 DEF HearInv, y
  <2>16. r[1] = t /\ r[2] = {} /\ r[3] = more
    BY <2>1
  <2>17. Tells(e, r, h, m, ev, k.ids)
    BY <2>3, <2>14, <2>15, <2>16 DEF Tells
  <2> QED BY <2>17 DEF r
<1> QED BY <1>5, <1>6

\* The channel opens on a state b, of which out was sent already.
LEMMA OpenTells ==
    ASSUME NEW e, NEW w, NEW h, NEW m \in Nat, NEW ev, NEW ids, SessionInv(w[1]), Size \in Sizes,
           m < SsnCount, Line(w[1], h, m - Len(w[1].mDataSendQueue)), WaitForRoom(w[1]),
           Waits(w[1].mDataSendQueue, h.last, m), h.last <= m, Brings(e, w[2], h.ids),
           Told(ev), HearInv(w[1], ev, ids)
    PROVE  Tells(e, onSctpDataChannelOpen(e, w, Label), h, m, ev, ids)
<1> DEFINE r == onSctpDataChannelOpen(e, w, Label)
           none == <<>>
           s == w[1]
           b == WithQueue(s, none)
           t == r[1]
<1>1. /\ \E o, g : /\ r[2] = w[2] \cup o /\ g.last <= m /\ Sends(e, b, t, o, h, g, m)
      /\ r[3] = <<<<"open", Label>>>>
  BY OpenSends
<1>2. Accounts(s) /\ IsSeq(s.mDataChannels) /\ DOMAIN s = Fields
  BY DEF SessionInv, Accounts
<1>3. b.mDataSendQueue = none /\ b.mDataChannels = s.mDataChannels
  <2> HIDE DEF none, s
  <2>1. b.mDataSendQueue = none /\ \A f \in Fields \ {"mDataSendQueue"} : b[f] = s[f]
    BY <1>2, QueuesChange
  <2> HIDE DEF b
  <2> QED BY <2>1 DEF Fields
<1>4. PICK o, g : r[2] = w[2] \cup o /\ g.last <= m /\ Sends(e, b, t, o, h, g, m)
  BY <1>1
<1> HIDE DEF r, b, t
<1>5. /\ Line(t, g, m) /\ WaitForRoom(t) /\ Extends(h.ids, g.ids) /\ Brings(e, o, g.ids)
      /\ t.mDataSendQueue = none /\ Quiet(b, t)
  BY <1>3, <1>4 DEF Sends, Quiet
<1>6. IsSeq(h.ids) /\ IsSeq(g.ids)
  BY <1>5 DEF Line, Rising
<1>7. Brings(e, r[2], g.ids)
  <2>1. Brings(e, w[2], g.ids)
    BY <1>5, <1>6, BringsMore
  <2> QED BY <1>4, <1>5, <2>1 DEF Brings
<1>8. IsSeq(none) /\ Len(none) = 0 /\ m - Len(none) = m
  <2>1. IsSeq(none) /\ Len(none) = 0
    BY <1>2, EmptyIs
  <2> QED BY <2>1
<1>9. SendInv(t, g, m)
  <2>1. Waits(none, g.last, m)
    BY NothingWaits
  <2>2. t.mDataSendQueue = <<>>
    BY <1>5 DEF none
  <2> HIDE DEF none
  <2> QED BY <1>4, <1>5, <1>8, <2>1, <2>2 DEF SendInv
<1>10. Moves(e, t, r[2], h, m)
  BY <1>5, <1>7, <1>9 DEF Moves
<1>11. Hush(b, t)
  BY <1>2, <1>3, <1>5, QuietIsHush
<1>12. Hush(s, t)
  BY <1>3, <1>11 DEF Hush
<1>13. HearInv(t, ev, ids)
  BY <1>12, HushHears
<1>14. NoMessages(r[3])
  <2> DEFINE call == <<"open", Label>>
             more == <<call>>
  <2>1. ~IsMessage(call)
    BY DEF IsMessage
  <2> HIDE DEF call
  <2>2. more = [i \in 1..1 |-> more[i]] /\ more[1] = call
    OBVIOUS
  <2>3. r[3] = more
    BY <1>1 DEF call
  <2> HIDE DEF more
  <2>4. IsSeq(more) /\ Len(more) = 1
    BY <2>2, FunctionIsSeq
  <2>5. NoMessages(more)
    BY <2>1, <2>2, <2>4 DEF NoMessages
  <2> QED BY <2>3, <2>5
<1>15. Told(ev \o r[3]) /\ HearInv(t, ev \o r[3], ids)
  BY <1>13, <1>14, NothingTold
<1> QED BY <1>10, <1>15 DEF Tells, r, t

\* DCEP ACK: a channel of the stream is open now, and SSN 0 is consumed.
LEMMA DcepAckTells ==
    ASSUME NEW e, NEW s, NEW c, NEW h, NEW k, NEW m \in Nat, NEW ev, SessionInv(s),
           SendInv(s, h, m), HearInv(s, ev, k.ids), Told(ev), m < SsnCount, Size \in Sizes,
           ChunkOf(c, k.ids), c.kind = "ack"
    PROVE  Tells(e, ReceiveDcepAck(e, s, c), h, m, ev, k.ids)
<1> DEFINE q == s.mDataChannels
           I == {j \in 1..Len(q) : q[j].streamId = c.streamId /\ q[j].state = "kOpening"}
           i == SelectInSeq(q, LAMBDA ch : ch.streamId = c.streamId /\ ch.state = "kOpening")
           t == [s EXCEPT !.mDataChannels[i].state = "kOpen",
                          !.mDataChannels[i].receiveBuffer = consumeSsn(@, c.ssn)]
           w == <<t, {}>>
           r == ReceiveDcepAck(e, s, c)
           none == <<>>
<1>0. Accounts(s) /\ DOMAIN s = Fields /\ IsSeq(q) /\ Len(q) \in Nat /\ DOMAIN q = 1..Len(q)
  BY SeqIs DEF SessionInv, Accounts
<1>1. r = IF i = 0 THEN <<s, {}, none>> ELSE onSctpDataChannelOpen(e, w, q[i].label)
  BY DEF ReceiveDcepAck
<1>2. c.ssn = 0
  BY DEF ChunkOf
<1>3. Rising(h) /\ IsSeq(h.ids) /\ Holds(s, h.ids) /\ OnStream(q)
  BY <1>0, SendInvIs DEF Holds
<1>4. i = IF I # {} THEN Min(I) ELSE 0
  BY DEF SelectInSeq
<1> HIDE DEF i, r, none
<1>5. CASE i = 0
  <2>1. r = <<s, {}, none>>
    BY <1>1, <1>5
  <2>2. Silent(e, s, r, h, m)
    BY <2>1, SameSilent DEF none
  <2>3. Tells(e, r, h, m, ev, k.ids)
    BY <2>2, SilentTells
  <2> QED BY <2>3 DEF r
<1>6. CASE i # 0
  <2>1. i \in 1..Len(q)
    <3>1. I # {} /\ i = Min(I)
      BY <1>4, <1>6
    <3>2. I \in SUBSET Nat /\ I \subseteq 1..Len(q)
      BY <1>0
    <3> HIDE DEF I
    <3>3. Min(I) \in I
      BY <3>1, <3>2, MinOfNats
    <3> QED BY <3>1, <3>2, <3>3
  <2> DEFINE ch == q[i]
             old == ch.receiveBuffer
             y == consumeSsn(old, 0)
  <2>2. ch = ChannelIs(ch.state, old, ch.sendSsn)
    BY <1>3, <2>1 DEF OnStream, ChannelIs
  <2>3. DOMAIN t = Fields /\ (\A f \in Fields \ {"mDataChannels"} : t[f] = s[f])
        /\ t.mDataChannels = [q EXCEPT ![i] = [ch EXCEPT !.state = "kOpen", !.receiveBuffer = y]]
    <3> DEFINE a == [s EXCEPT !.mDataChannels[i].state = "kOpen"]
               b == [ch EXCEPT !.state = "kOpen"]
    <3>1. DOMAIN a = Fields /\ (\A f \in Fields \ {"mDataChannels"} : a[f] = s[f])
          /\ a.mDataChannels = [q EXCEPT ![i] = b]
      BY <1>0, <2>1 DEF Fields
    <3>2. t = [a EXCEPT !.mDataChannels[i].receiveBuffer = consumeSsn(@, c.ssn)]
      OBVIOUS
    <3> HIDE DEF a, t
    <3>3. b.receiveBuffer = old
      <4> HIDE DEF ch
      <4>1. b = ChannelIs("kOpen", old, ch.sendSsn)
        BY <2>2 DEF ChannelIs
      <4> QED BY <4>1 DEF ChannelIs
    <3> DEFINE q2 == a.mDataChannels
               d == [b EXCEPT !.receiveBuffer = y]
    <3>4. q2[i] = b /\ DOMAIN q2 = DOMAIN q /\ \A j \in DOMAIN q : j # i => q2[j] = q[j]
      <4> HIDE DEF b
      <4> QED BY <1>0, <2>1, <3>1
    <3>5. /\ DOMAIN t = Fields /\ (\A f \in Fields \ {"mDataChannels"} : t[f] = a[f])
          /\ t.mDataChannels =
                [q2 EXCEPT ![i] = [q2[i] EXCEPT !.receiveBuffer =
                                      consumeSsn(q2[i].receiveBuffer, c.ssn)]]
      BY <3>1, <3>2 DEF Fields
    <3> HIDE DEF q2, b
    <3>6. t.mDataChannels = [q EXCEPT ![i] = d]
      <4>1. t.mDataChannels = [q2 EXCEPT ![i] = d]
        <5> DEFINE z == consumeSsn(b.receiveBuffer, c.ssn)
        <5>1. z = y
          <6> HIDE DEF y
          <6>1. y = consumeSsn(old, 0)
            BY DEF y
          <6> QED BY <1>2, <3>3, <6>1
        <5>2. t.mDataChannels = [q2 EXCEPT ![i] = [q2[i] EXCEPT !.receiveBuffer =
                                             consumeSsn(q2[i].receiveBuffer, c.ssn)]]
          BY <3>5
        <5>3. t.mDataChannels = [q2 EXCEPT ![i] = [b EXCEPT !.receiveBuffer = z]]
          BY <3>4, <5>2
        <5> HIDE DEF z, y
        <5> QED BY <5>1, <5>3
      <4>2. q2 = [q EXCEPT ![i] = b]
        BY <3>1 DEF q2
      <4> HIDE DEF d
      <4> QED BY <4>1, <4>2
    <3> QED BY <3>1, <3>5, <3>6 DEF b
  <2> HIDE DEF t, ch
  <2>4. [ch EXCEPT !.state = "kOpen", !.receiveBuffer = y] = ChannelIs("kOpen", y, ch.sendSsn)
    <3> DEFINE st == ch.state
               n == ch.sendSsn
    <3>1. ch = ChannelIs(st, old, n)
      BY <2>2
    <3> HIDE DEF y, old, st, n
    <3> DEFINE b == [ch EXCEPT !.state = "kOpen"]
    <3>2. [ch EXCEPT !.state = "kOpen", !.receiveBuffer = y] = ChannelIs("kOpen", y, n)
      <4>1. b = ChannelIs("kOpen", old, n)
        BY <3>1 DEF ChannelIs
      <4>2. [ch EXCEPT !.state = "kOpen", !.receiveBuffer = y] = [b EXCEPT !.receiveBuffer = y]
        OBVIOUS
      <4> HIDE DEF b
      <4>3. [b EXCEPT !.receiveBuffer = y] = ChannelIs("kOpen", y, n)
        BY <4>1 DEF ChannelIs
      <4> QED BY <4>2, <4>3
    <3> QED BY <3>2 DEF n
  <2> HIDE DEF y
  <2>5. Rechannelled(s, t, i, "kOpen", y)
    BY <2>1, <2>3, <2>4 DEF Rechannelled, ch
  <2>6. /\ SessionInv(t) /\ Holds(t, h.ids) /\ IsSeq(t.mDataChannels)
        /\ Len(t.mDataChannels) = Len(q)
        /\ t.mDataChannels[i].receiveBuffer = y
        /\ \A j \in 1..Len(q) : j # i => t.mDataChannels[j] = q[j]
        /\ q # <<>> /\ t.mDataChannels # <<>>
    BY <1>3, <2>5, ChannelChanges
  <2>7. \A f \in {"mPendingSend", "mDataSendQueue", "mFlightSize", "mPeerRwnd"} : t[f] = s[f]
    BY <2>3 DEF Fields
  <2>8. /\ Line(t, h, m - Len(t.mDataSendQueue)) /\ WaitForRoom(t)
        /\ Waits(t.mDataSendQueue, h.last, m) /\ h.last <= m
    BY <2>6, <2>7, SameSender
  <2>9. HearInv(t, ev, k.ids)
    <3>1. BufferInv(q[1].receiveBuffer, ev, k.ids)
      BY <2>6 DEF HearInv
    <3>2. 1 \in 1..Len(q)
      BY <1>0, <2>1
    <3>3. CASE i = 1
      <4>1. BufferInv(y, ev, k.ids)
        BY <3>1, <3>3, ConsumeHears DEF y, old, ch
      <4> QED BY <2>6, <3>3, <4>1 DEF HearInv
    <3>4. CASE i # 1
      <4>1. t.mDataChannels[1] = q[1]
        BY <2>6, <3>2, <3>4
      <4> QED BY <2>6, <3>1, <4>1 DEF HearInv
    <3> QED BY <3>3, <3>4
  <2>10. w[1] = t /\ w[2] = {}
    OBVIOUS
  <2>11. q[i].label = Label
    <3>1. ch.label = Label
      BY <2>2 DEF ChannelIs
    <3> QED BY <3>1 DEF ch
  <2>12. r = onSctpDataChannelOpen(e, w, Label)
    BY <1>1, <1>6, <2>11
  <2> HIDE DEF w
  <2>13. Brings(e, w[2], h.ids)
    BY <2>10 DEF Brings
  <2>14. Tells(e, r, h, m, ev, k.ids)
    BY <2>6, <2>8, <2>9, <2>10, <2>12, <2>13, OpenTells
  <2> QED BY <2>14 DEF r
<1> QED BY <1>5, <1>6

\* DCEP OPEN: one more channel of the stream, and the ACK.
LEMMA DcepOpenTells ==
    ASSUME NEW e, NEW s, NEW c, NEW h, NEW k, NEW m \in Nat, NEW ev, SessionInv(s),
           SendInv(s, h, m), HearInv(s, ev, k.ids), Told(ev), m < SsnCount, Size \in Sizes,
           ChunkOf(c, k.ids), c.kind = "open"
    PROVE  Tells(e, ReceiveDcepOpen(e, s, c), h, m, ev, k.ids)
<1> DEFINE y == consumeSsn(NewReceiveBuffer, 0)
           ch == ChannelIs("kOpen", y, 0)
           q == s.mDataChannels
           p == Append(q, ch)
           b == [s EXCEPT !.mDataChannels = p]
           a == DcepChunk(b, Stream, "ack", Label)
           ack == <<a>>
           t == Transmit(b, ack)
           d == DataPackets(e, b, ack)
           w == <<t, d>>
           r == ReceiveDcepOpen(e, s, c)
           n == Len(q)
<1>0. c.ssn = 0 /\ c.streamId = Stream /\ c.data = Label
  BY DEF ChunkOf
<1>1. r = onSctpDataChannelOpen(e, w, Label)
  BY <1>0 DEF ReceiveDcepOpen, DataChannel, ChannelIs
<1>2. DOMAIN s = Fields /\ IsSeq(q) /\ Accounts(s) /\ n \in Nat
  BY SeqIs DEF SessionInv, Accounts
<1>3. Rising(h) /\ IsSeq(h.ids) /\ Holds(s, h.ids) /\ OnStream(q)
  BY <1>2, SendInvIs DEF Holds
<1> HIDE DEF ch, r
<1>4. IsSeq(p) /\ Len(p) = n + 1 /\ (\A i \in 1..n : p[i] = q[i]) /\ p[n + 1] = ch
  BY <1>2, AppendIs
<1> HIDE DEF p
<1>5. DOMAIN b = Fields /\ b.mDataChannels = p /\ \A f \in Fields \ {"mDataChannels"} : b[f] = s[f]
  BY <1>2 DEF Fields
<1>6. a.size = 1 /\ a.streamId = Stream /\ a.kind = "ack" /\ a.ssn = 0 /\ a.data = Label
  BY DEF DcepChunk
<1> HIDE DEF b, a
<1>7. SessionInv(b) /\ Accounts(b)
  <2>1. \A f \in Read : b[f] = s[f]
    BY <1>5 DEF Read, Fields
  <2>2. SessionInv(b)
    BY <1>4, <1>5, <2>1, OtherChannels
  <2> QED BY <2>2 DEF SessionInv
<1>8. Sized(ack, Positive) /\ IsSeq(ack) /\ ack # <<>> /\ Len(ack) = 1 /\ ack[1] = a
  <2> DEFINE none == <<>>
  <2>1. Sized(none, Positive)
    BY <1>2, EmptyIs DEF Sized
  <2>2. Append(none, a) = ack
    OBVIOUS
  <2>4. ack # <<>> /\ Len(ack) = 1 /\ ack[1] = a
    OBVIOUS
  <2> HIDE DEF none, ack
  <2>3. Sized(Append(none, a), Positive)
    BY <1>6, <2>1, SizedIs DEF Positive
  <2> QED BY <2>2, <2>3, <2>4 DEF Sized
<1> HIDE DEF ack
<1>9. ChunksOf(ack, h.ids)
  BY <1>6, <1>8 DEF ChunksOf, ChunkOf
<1>10. ch.sendSsn = 0 /\ ch.receiveBuffer = y
       /\ ch = [label |-> Label, streamId |-> Stream, state |-> ch.state,
                receiveBuffer |-> ch.receiveBuffer, sendSsn |-> ch.sendSsn]
  BY DEF ch, ChannelIs
<1> HIDE DEF y
<1>11. OnStream(p)
  <2>1. ASSUME NEW i \in 1..Len(p)
        PROVE  p[i] = [label |-> Label, streamId |-> Stream, state |-> p[i].state,
                       receiveBuffer |-> p[i].receiveBuffer, sendSsn |-> p[i].sendSsn]
    <3>1. CASE i = n + 1
      BY <1>4, <1>10, <3>1
    <3>2. CASE i \in 1..n
      BY <1>3, <1>4, <3>2 DEF OnStream
    <3> QED BY <1>2, <1>4, <3>1, <3>2
  <2> QED BY <2>1 DEF OnStream
<1>12. p # <<>>
  <2>1. Len(p) # 0
    BY <1>2, <1>4
  <2> QED BY <1>4, <2>1, EmptyIs
<1>13. IF q = <<>> THEN p[1] = ch ELSE p[1] = q[1]
  <2>1. CASE q = <<>>
    <3>1. n = 0
      BY <1>2, <2>1, EmptyIs
    <3>2. p[1] = ch
      BY <1>4, <3>1
    <3> QED BY <2>1, <3>2
  <2>2. CASE q # <<>>
    <3>1. n # 0
      BY <1>2, <2>2, EmptyIs
    <3>2. 1 \in 1..n
      BY <1>2, <3>1
    <3> QED BY <1>4, <2>2, <3>2
  <2> QED BY <2>1, <2>2
<1>14. Holds(b, h.ids)
  <2>1. p[1].sendSsn = Len(h.ids)
    BY <1>3, <1>10, <1>13 DEF Holds
  <2>2. b.mSentChunks = s.mSentChunks
    BY <1>5 DEF Fields
  <2>3. \A i \in 1..Len(s.mSentChunks) : ChunkOf(s.mSentChunks[i], h.ids)
    BY <1>3 DEF Holds
  <2> QED BY <1>5, <1>11, <1>12, <2>1, <2>2, <2>3 DEF Holds
<1>15. HearInv(b, ev, k.ids)
  <2>1. CASE q = <<>>
    <3>1. \A i \in 1..Len(ev) : ~IsMessage(ev[i])
      BY <2>1 DEF HearInv
    <3> DEFINE v == NewReceiveBuffer
               none == <<>>
    <3>2. /\ v.mNextSsn = 0 /\ v.mPending = none
          /\ v = [mNextSsn |-> v.mNextSsn, mPending |-> v.mPending]
      BY DEF NewReceiveBuffer
    <3>3. DOMAIN none = {}
      OBVIOUS
    <3> HIDE DEF v, none
    <3>4. PendingOf(none, k.ids)
      BY <3>3 DEF PendingOf
    <3>5. 0 \in 0..(SsnCount - 1)
      BY SsnAssumption
    <3>6. BufferInv(v, ev, k.ids)
      BY <3>1, <3>2, <3>4, <3>5 DEF BufferInv, ToldUpTo
    <3>7. BufferInv(y, ev, k.ids)
      BY <3>6, ConsumeHears DEF y, v
    <3> QED BY <1>5, <1>10, <1>12, <1>13, <2>1, <3>7 DEF HearInv
  <2>2. CASE q # <<>>
    <3>1. BufferInv(q[1].receiveBuffer, ev, k.ids)
      BY <2>2 DEF HearInv
    <3> QED BY <1>5, <1>12, <1>13, <2>2, <3>1 DEF HearInv
  <2> QED BY <2>1, <2>2
<1>16. /\ Holds(t, h.ids) /\ Quiet(b, t) /\ t.mPendingSend = b.mPendingSend
       /\ b.mFlightSize <= t.mFlightSize
  BY <1>7, <1>8, <1>9, <1>14, TransmitHolds
<1>17. /\ Accounts(t) /\ t.mSentChunks # <<>> /\ t.mFlightSize \in Nat /\ b.mFlightSize \in Nat
  BY <1>7, <1>8, TransmitIs, FlightIs
<1>18. Brings(e, d, h.ids)
  BY <1>8, <1>9, PacketsBring
<1> HIDE DEF t, d
<1>19. SessionInv(t)
  BY <1>17 DEF SessionInv, NotStranded
<1>20. /\ t.mPendingSend = s.mPendingSend /\ t.mDataSendQueue = s.mDataSendQueue
       /\ t.mPeerRwnd = s.mPeerRwnd /\ s.mFlightSize <= t.mFlightSize
       /\ s.mFlightSize = b.mFlightSize
  <2>1. /\ b.mPendingSend = s.mPendingSend /\ b.mDataSendQueue = s.mDataSendQueue
        /\ b.mPeerRwnd = s.mPeerRwnd /\ b.mFlightSize = s.mFlightSize
    BY <1>5 DEF Fields
  <2> QED BY <1>16, <2>1 DEF Quiet
<1>21. WaitForRoom(t)
  <2>1. WaitForRoom(s) /\ InitRwnd \in Nat /\ Size \in Nat /\ s.mFlightSize \in Nat
    BY <1>17, <1>20, SctpAssumption DEF SendInv
  <2>2. s.mFlightSize + Size > InitRwnd => t.mFlightSize + Size > InitRwnd
    BY <1>17, <1>20, <2>1
  <2> QED BY <1>20, <2>1, <2>2 DEF WaitForRoom, NoRoom
<1>22. /\ Line(t, h, m - Len(t.mDataSendQueue))
       /\ Waits(t.mDataSendQueue, h.last, m) /\ h.last <= m
  BY <1>16, <1>20 DEF SendInv, Line
<1>23. HearInv(t, ev, k.ids)
  <2>1. Hush(b, t)
    BY <1>4, <1>5, <1>16, QuietIsHush
  <2> QED BY <1>15, <2>1, HushHears
<1>24. w[1] = t /\ w[2] = d
  OBVIOUS
<1> HIDE DEF w
<1>25. Tells(e, r, h, m, ev, k.ids)
  BY <1>1, <1>18, <1>19, <1>21, <1>22, <1>23, <1>24, OpenTells
<1> QED BY <1>25 DEF r

\* A chunk of the stream arrives.
LEMMA DataTells ==
    ASSUME NEW e, NEW s, NEW c, NEW h, NEW k, NEW m \in Nat, NEW ev, SessionInv(s),
           SendInv(s, h, m), HearInv(s, ev, k.ids), Rising(k), Told(ev), m < SsnCount,
           Len(k.ids) < SsnCount, Size \in Sizes, ChunkOf(c, k.ids)
    PROVE  Tells(e, onReceiveDataChunk(e, s, c), h, m, ev, k.ids)
<1> DEFINE tsn == c.tsn
           b == RecordTsn(s, tsn)
           r == onReceiveDataChunk(e, s, c)
           u == ReceiveUserData(b, c)
           a == ReceiveDcepAck(e, b, c)
           d == ReceiveDcepOpen(e, b, c)
           v == CASE c.kind = "user" -> u [] c.kind = "ack" -> a [] c.kind = "open" -> d
                    [] OTHER -> <<b, {}, <<>>>>
           dup == isDuplicate(s, tsn)
           none == <<>>
<1>1. r = IF dup THEN <<s, {Sack(e, s)}, none>> ELSE <<v[1], v[2] \cup {Sack(e, b)}, v[3]>>
  BY DEF onReceiveDataChunk
<1>2. DOMAIN s = Fields /\ Accounts(s)
  BY DEF SessionInv, Accounts
<1>3. SessionInv(b) /\ \A f \in Fields \ {"mPeerCumulativeTsn", "mPeerOutOfOrderTsns"} : b[f] = s[f]
  <2> HIDE DEF tsn
  <2> QED BY <1>2, RecordIs, RecordFields
<1>4. \A x : Sack(e, x).type # "DATA"
  BY DEF Sack
<1>5. c.kind \in {"user", "ack", "open"}
  BY DEF ChunkOf
<1> HIDE DEF b, r, dup
<1>6. /\ b.mDataChannels = s.mDataChannels /\ b.mSentChunks = s.mSentChunks
      /\ b.mPendingSend = s.mPendingSend /\ b.mDataSendQueue = s.mDataSendQueue
      /\ b.mFlightSize = s.mFlightSize /\ b.mPeerRwnd = s.mPeerRwnd
  BY <1>3 DEF Fields
<1>7. SendInv(b, h, m)
  <2>1. WaitForRoom(b)
    BY <1>6 DEF SendInv, WaitForRoom, NoRoom
  <2> QED BY <1>6, <2>1 DEF SendInv, Line, Holds
<1>8. HearInv(b, ev, k.ids)
  BY <1>6 DEF HearInv
<1>9. CASE dup
  <2> DEFINE ack == Sack(e, s)
             x == <<s, {ack}, none>>
  <2>1. ack.type # "DATA" /\ r = x
    BY <1>1, <1>4, <1>9
  <2> HIDE DEF ack
  <2>2. x[1] = s /\ x[3] = <<>> /\ \A p \in x[2] : p.type # "DATA"
    BY <2>1
  <2> HIDE DEF x
  <2>3. Silent(e, s, x, h, m)
    BY <2>2, ElsewhereSilent
  <2> QED BY <2>1, <2>3, SilentTells DEF r
<1>10. CASE ~dup
  <2>1. Tells(e, v, h, m, ev, k.ids)
    <3>1. CASE c.kind = "user"
      <4>1. Tells(e, u, h, m, ev, k.ids)
        BY <1>3, <1>7, <1>8, <3>1, UserDataTells
      <4> HIDE DEF u
      <4> QED BY <3>1, <4>1
    <3>2. CASE c.kind = "ack"
      <4>1. Tells(e, a, h, m, ev, k.ids)
        BY <1>3, <1>7, <1>8, <3>2, DcepAckTells
      <4> HIDE DEF a, u
      <4>2. v = a
        BY <3>2
      <4> QED BY <4>1, <4>2
    <3>3. CASE c.kind = "open"
      <4>1. Tells(e, d, h, m, ev, k.ids)
        BY <1>3, <1>7, <1>8, <3>3, DcepOpenTells
      <4> HIDE DEF d, a, u
      <4>2. v = d
        BY <3>3
      <4> QED BY <4>1, <4>2
    <3> QED BY <1>5, <3>1, <3>2, <3>3
  <2> HIDE DEF v
  <2> DEFINE ack == Sack(e, b)
  <2>2. ack.type # "DATA"
    BY <1>4
  <2> HIDE DEF ack
  <2>3. r[1] = v[1] /\ r[2] = v[2] \cup {ack} /\ r[3] = v[3]
    BY <1>1, <1>10 DEF ack
  <2>4. PICK g : SendInv(v[1], g, m) /\ Extends(h.ids, g.ids) /\ Brings(e, v[2], g.ids)
    BY <2>1 DEF Tells, Moves
  <2>5. Brings(e, v[2] \cup {ack}, g.ids)
    BY <2>2, <2>4 DEF Brings
  <2>6. Moves(e, r[1], r[2], h, m)
    BY <2>3, <2>4, <2>5 DEF Moves
  <2>7. Tells(e, r, h, m, ev, k.ids)
    BY <2>1, <2>3, <2>6 DEF Tells
  <2> QED BY <2>7 DEF r
<1> QED BY <1>9, <1>10

\* onReceiveData.
LEMMA HandleTells ==
    ASSUME NEW e, NEW s, NEW p, NEW h, NEW k, NEW m \in Nat, NEW ev, SessionInv(s),
           SendInv(s, h, m), HearInv(s, ev, k.ids), Rising(k), Told(ev), m < SsnCount,
           Len(k.ids) < SsnCount, Size \in Sizes, p.type \in Types,
           p.type = "DATA" => ChunkOf(p.chunk, k.ids)
    PROVE  Tells(e, Handle(e, s, p), h, m, ev, k.ids)
<1> DEFINE r == Handle(e, s, p)
           r1 == onReceiveInit(e, s, p)
           r2 == onReceiveInitAck(e, s, p)
           r3 == onReceiveCookieEcho(e, s)
           r4 == onReceiveCookieAck(e, s)
           r5 == onReceiveDataChunk(e, s, p.chunk)
           r6 == onReceiveSack(e, s, p)
           r7 == <<s, {}, <<>>>>
<1>1. \/ r = r1 \/ r = r2 \/ r = r3 \/ r = r4 \/ (r = r5 /\ p.type = "DATA") \/ r = r6 \/ r = r7
  <2> HIDE DEF r1, r2, r3, r4, r5, r6, r7
  <2>1. r = IF ~TagAccepted(p) THEN r7
            ELSE CASE p.type = "INIT" -> r1 [] p.type = "INIT_ACK" -> r2
                   [] p.type = "COOKIE_ECHO" -> r3 [] p.type = "COOKIE_ACK" -> r4
                   [] p.type = "DATA" -> r5 [] p.type = "SACK" -> r6
    BY DEF Handle, r1, r2, r3, r4, r5, r6, r7
  <2> QED BY <2>1 DEF Types
<1>2. Silent(e, s, r1, h, m) /\ Silent(e, s, r2, h, m)
  BY InitSilent, InitAckSilent
<1>3. Silent(e, s, r3, h, m) /\ Silent(e, s, r4, h, m)
  BY CookieEchoSilent, CookieAckSilent
<1>4. Silent(e, s, r6, h, m)
  BY SackMoves DEF Silent
<1>5. Silent(e, s, r7, h, m)
  BY SameSilent
<1>6. p.type = "DATA" => Tells(e, r5, h, m, ev, k.ids)
  BY DataTells
<1> HIDE DEF r, r1, r2, r3, r4, r5, r6, r7
<1>7. Tells(e, r, h, m, ev, k.ids)
  BY <1>1, <1>2, <1>3, <1>4, <1>5, <1>6, SilentTells
<1> QED BY <1>7 DEF r

-----------------------------------------------------------------------------
\* The actions and what the listeners are told.

\* The bounds of the instance, and what the invariant says of an endpoint.
LEMMA OrderIs ==
    ASSUME OneStream, OrderInv, NEW e \in Endpoints
    PROVE  /\ Told(events[e]) /\ IsSeq(queued[e]) /\ Len(queued[e]) \in Nat
           /\ Len(queued[e]) <= MaxMessages[e] /\ MaxMessages[e] \in Nat
           /\ MaxMessages[e] < SsnCount /\ SsnCount \in Nat /\ Len(queued[e]) < SsnCount
           /\ Size \in Sizes /\ Sizes = {Size}
           /\ \E h : WayInv(e, ss[e], ss[Peer(e)], net, events[Peer(e)], Len(queued[e]), h)
<1> DEFINE m == Len(queued[e])
           M == MaxMessages[e]
<1>1. Told(events[e]) /\ IsSeq(queued[e]) /\ m <= M
      /\ \E h : WayInv(e, ss[e], ss[Peer(e)], net, events[Peer(e)], m, h)
  BY DEF OrderInv
<1>2. m \in Nat
  BY <1>1, SeqIs
<1>3. M \in Nat /\ M < SsnCount /\ SsnCount \in Nat
  BY SsnAssumption DEF OneStream, FewMessages
<1>4. Size \in Sizes /\ Sizes = {Size}
  BY DEF OneStream, OneSize, Size
<1> HIDE DEF m, M
<1>5. m < SsnCount
  BY <1>1, <1>2, <1>3
<1> QED BY <1>1, <1>2, <1>3, <1>4, <1>5 DEF m, M

\* The invariant in the next state.
LEMMA OrderInvNextIs ==
    ASSUME DOMAIN events' = Endpoints, DOMAIN queued' = Endpoints,
           \A x \in Endpoints :
              /\ Told(events'[x]) /\ IsSeq(queued'[x]) /\ Len(queued'[x]) <= MaxMessages[x]
              /\ \E h : WayInv(x, ss'[x], ss'[Peer(x)], net', events'[Peer(x)],
                               Len(queued'[x]), h)
    PROVE  OrderInv'
BY DEF OrderInv, Told, IsSeq, WayInv, Rising, Carries, ChunksOf, ChunkOf, SendInv, Line, Holds,
       OnStream, Waits, WaitForRoom, NoRoom, NoneOpen, HearInv, BufferInv, PendingOf, ToldUpTo,
       IsMessage, MessageId, Label, Stream, Size, Owner, FirstStreamId, Peer, Endpoints

\* A sender moves.
LEMMA WayMoves ==
    ASSUME NEW e, NEW s, NEW t, NEW r, NEW nt, NEW nu, NEW out, NEW ev, NEW m, NEW n \in Nat,
           NEW h, WayInv(e, s, r, nt, ev, m, h), Accounts(t), Moves(e, t, out, h, n),
           nu \subseteq nt \cup out
    PROVE  \E g : WayInv(e, t, r, nu, ev, n, g)
<1>1. PICK g : SendInv(t, g, n) /\ Extends(h.ids, g.ids) /\ Brings(e, out, g.ids)
  BY DEF Moves
<1>2. Rising(g) /\ IsSeq(g.ids) /\ Len(g.ids) <= n /\ Holds(t, g.ids)
  BY <1>1, SendInvIs
<1>3. IsSeq(h.ids) /\ Carries(e, nt, h.ids) /\ (r.mState # "Destroyed" => HearInv(r, ev, h.ids))
  BY DEF WayInv, Rising
<1> DEFINE f == h.ids
           k == g.ids
<1>4. IsSeq(f) /\ IsSeq(k) /\ Extends(f, k) /\ Carries(e, nt, f) /\ Brings(e, out, k)
      /\ (r.mState # "Destroyed" => HearInv(r, ev, f))
  BY <1>1, <1>2, <1>3
<1>5. ChunksOf(t.mSentChunks, k)
  BY <1>2 DEF Holds, ChunksOf
<1> HIDE DEF f, k
<1>6. Carries(e, nt, k) /\ (r.mState # "Destroyed" => HearInv(r, ev, k))
  BY <1>4, CarriesMore, HearMore
<1>7. Carries(e, nu, k)
  BY <1>4, <1>6 DEF Carries, Brings
<1>8. WayInv(e, t, r, nu, ev, n, g)
  BY <1>1, <1>2, <1>5, <1>6, <1>7 DEF WayInv, k
<1> QED BY <1>8

\* A receiver moves: what it sends is for the other end.
LEMMA WayHears ==
    ASSUME NEW e \in Endpoints, NEW s, NEW t, NEW r, NEW nt, NEW nu, NEW out, NEW ids, NEW ev,
           NEW ew, NEW m, NEW k, WayInv(Peer(e), r, s, nt, ev, m, k), Brings(e, out, ids),
           nu \subseteq nt \cup out, t.mState # "Destroyed" => HearInv(t, ew, k.ids)
    PROVE  WayInv(Peer(e), r, t, nu, ew, m, k)
<1>1. Peer(Peer(e)) = e /\ Peer(e) # e
  BY PeerIs
<1>2. Carries(Peer(e), nu, k.ids)
  BY <1>1 DEF WayInv, Carries, Brings
<1> QED BY <1>2 DEF WayInv

\* One session changes.
LEMMA OneWay ==
    ASSUME OneStream, SctpInv, OrderInv, NEW e \in Endpoints, NEW t, ss' = [ss EXCEPT ![e] = t],
           DOMAIN events' = Endpoints, events'[Peer(e)] = events[Peer(e)], Told(events'[e]),
           DOMAIN queued' = Endpoints, queued'[Peer(e)] = queued[Peer(e)],
           IsSeq(queued'[e]), Len(queued'[e]) <= MaxMessages[e],
           \E g : WayInv(e, t, ss[Peer(e)], net', events[Peer(e)], Len(queued'[e]), g),
           \E k : WayInv(Peer(e), ss[Peer(e)], t, net', events'[e], Len(queued[Peer(e)]), k)
    PROVE  OrderInv'
<1> DEFINE y == Peer(e)
<1>1. y \in Endpoints /\ y # e /\ Peer(y) = e /\ \A x \in Endpoints : x = e \/ x = y
  BY PeerIs
<1>2. ss'[e] = t /\ ss'[y] = ss[y]
  BY <1>1 DEF SctpInv
<1>3. Told(events[y]) /\ IsSeq(queued[y]) /\ Len(queued[y]) <= MaxMessages[y]
  BY <1>1, OrderIs
<1>4. \E g : WayInv(e, ss'[e], ss'[Peer(e)], net', events'[Peer(e)], Len(queued'[e]), g)
  BY <1>2
<1>5. /\ \E g : WayInv(y, ss'[y], ss'[Peer(y)], net', events'[Peer(y)], Len(queued'[y]), g)
      /\ Told(events'[y]) /\ IsSeq(queued'[y]) /\ Len(queued'[y]) <= MaxMessages[y]
  BY <1>1, <1>2, <1>3
<1> HIDE DEF y
<1>6. ASSUME NEW x \in Endpoints
      PROVE  /\ Told(events'[x]) /\ IsSeq(queued'[x]) /\ Len(queued'[x]) <= MaxMessages[x]
             /\ \E g : WayInv(x, ss'[x], ss'[Peer(x)], net', events'[Peer(x)],
                              Len(queued'[x]), g)
  <2>1. CASE x = e
    BY <1>4, <2>1
  <2>2. CASE x = y
    BY <1>5, <2>2
  <2> QED BY <1>1, <2>1, <2>2
<1> QED BY <1>6, OrderInvNextIs

\* What a live session answers with r.
Answers(e, s, r, m, n, ev, nt) ==
    \A h, k :
        /\ SendInv(s, h, m) /\ Rising(k) /\ Len(k.ids) < SsnCount
        /\ HearInv(s, ev, k.ids) /\ Carries(Peer(e), nt, k.ids)
        => Tells(e, r, h, n, ev, k.ids)

\* A handler is applied.
LEMMA AppliedTells ==
    ASSUME OneStream, SctpInv, SctpInv', OrderInv, NEW e \in Endpoints, NEW r, NEW gone,
           ss[e].mState # "Destroyed", Apply(e, r, gone),
           DOMAIN queued' = Endpoints, queued'[Peer(e)] = queued[Peer(e)],
           IsSeq(queued'[e]), Len(queued'[e]) <= MaxMessages[e],
           Answers(e, ss[e], r, Len(queued[e]), Len(queued'[e]), events[e], net)
    PROVE  OrderInv'
<1> DEFINE y == Peer(e)
           s == ss[e]
           t == r[1]
           out == r[2]
           m == Len(queued[e])
           n == Len(queued'[e])
           ev == events[e]
           ew == events[e] \o r[3]
           nu == net'
<1>1. y \in Endpoints /\ y # e /\ Peer(y) = e
  BY PeerIs
<1>2. ss' = [ss EXCEPT ![e] = t] /\ nu \subseteq net \cup out
  BY DEF Apply
<1>3. DOMAIN events' = Endpoints /\ events'[e] = ew /\ events'[y] = events[y]
  BY <1>1 DEF Apply, OrderInv
<1>4. n \in Nat
  BY SeqIs
<1>5. Accounts(t)
  <2>1. ss'[e] = t
    BY <1>2 DEF SctpInv
  <2>2. Accounts(ss'[e])
    BY DEF SctpInv, SessionInv, Accounts, NotStranded
  <2> QED BY <2>1, <2>2
<1>6. PICK h : WayInv(e, s, ss[y], net, events[y], m, h)
  BY OrderIs
<1>7. PICK k : WayInv(y, ss[y], s, net, ev, Len(queued[y]), k)
  BY <1>1, OrderIs
<1>8. SendInv(s, h, m)
  BY <1>6 DEF WayInv
<1>9. Rising(k) /\ Len(k.ids) <= Len(queued[y]) /\ HearInv(s, ev, k.ids) /\ Carries(y, net, k.ids)
  BY <1>7 DEF WayInv
<1>10. Len(k.ids) < SsnCount
  <2> DEFINE a == Len(k.ids)
             b == Len(queued[y])
  <2>1. a \in Nat /\ a <= b
    BY <1>9, SeqIs DEF Rising
  <2>2. b \in Nat /\ b < SsnCount /\ SsnCount \in Nat
    BY <1>1, OrderIs
  <2> HIDE DEF a, b
  <2>3. a < SsnCount
    BY <2>1, <2>2
  <2> QED BY <2>3 DEF a
<1>11. Tells(e, r, h, n, ev, k.ids)
  BY <1>8, <1>9, <1>10 DEF Answers
<1>12. Moves(e, t, out, h, n) /\ Told(ew) /\ HearInv(t, ew, k.ids)
  BY <1>11 DEF Tells
<1> HIDE DEF s, t, out, m, n, ev, ew, nu
<1>13. \E g : WayInv(e, t, ss[y], nu, events[y], n, g)
  BY <1>2, <1>4, <1>5, <1>6, <1>12, WayMoves
<1>14. WayInv(y, ss[y], t, nu, ew, Len(queued[y]), k)
  <2>1. \E ids : Brings(e, out, ids)
    BY <1>12 DEF Moves
  <2>2. PICK ids : Brings(e, out, ids)
    BY <2>1
  <2>3. WayInv(Peer(e), ss[y], t, nu, ew, Len(queued[y]), k)
    BY <1>2, <1>7, <1>12, <2>2, WayHears
  <2> QED BY <2>3
<1>15. \E g : WayInv(e, t, ss[Peer(e)], net', events[Peer(e)], Len(queued'[e]), g)
  BY <1>13 DEF nu, n
<1>16. \E g : WayInv(Peer(e), ss[Peer(e)], t, net', events'[e], Len(queued[Peer(e)]), g)
  BY <1>3, <1>14 DEF nu
<1>17. Told(events'[e]) /\ events'[Peer(e)] = events[Peer(e)]
  BY <1>3, <1>12
<1> QED BY <1>2, <1>3, <1>15, <1>16, <1>17, OneWay

\* A session answers without a message.
LEMMA SilentAnswers ==
    ASSUME NEW e, NEW s, NEW r, NEW m, NEW ev, NEW nt, Told(ev),
           \A h : SendInv(s, h, m) => Silent(e, s, r, h, m)
    PROVE  Answers(e, s, r, m, m, ev, nt)
BY SilentTells DEF Answers

\* The timers of a session that has ended send nothing but its chunks.
LEMMA EndedWay ==
    ASSUME OneStream, SctpInv, OrderInv, NEW e \in Endpoints, NEW r, ss[e].mState = "Destroyed",
           Apply(e, r, {}), queued' = queued, r[3] = <<>>, r[1].mState = "Destroyed",
           r[1].mSentChunks = ss[e].mSentChunks,
           \A ids : ChunksOf(ss[e].mSentChunks, ids) => Brings(e, r[2], ids)
    PROVE  OrderInv'
<1> DEFINE y == Peer(e)
           s == ss[e]
           t == r[1]
           out == r[2]
           nu == net'
<1>1. y \in Endpoints /\ y # e /\ Peer(y) = e
  BY PeerIs
<1>2. ss' = [ss EXCEPT ![e] = t] /\ nu \subseteq net \cup out
  BY DEF Apply
<1>3. /\ DOMAIN events' = Endpoints /\ events'[y] = events[y]
      /\ events'[e] = events[e] \o <<>>
  BY <1>1 DEF Apply, OrderInv
<1>4. Told(events[e]) /\ IsSeq(queued[e]) /\ Len(queued[e]) <= MaxMessages[e]
      /\ DOMAIN queued = Endpoints
  BY OrderIs DEF OrderInv
<1>5. events'[e] = events[e]
  <2>1. PICK S : events[e] \in Seq(S)
    BY <1>4 DEF Told, IsSeq
  <2> QED BY <1>3, <2>1
<1>6. PICK h : WayInv(e, s, ss[y], net, events[y], Len(queued[e]), h)
  BY OrderIs
<1>7. PICK k : WayInv(y, ss[y], s, net, events[e], Len(queued[y]), k)
  BY <1>1, OrderIs
<1>8. t.mState = "Destroyed" /\ t.mSentChunks = s.mSentChunks /\ Brings(e, out, h.ids)
  BY <1>6 DEF WayInv
<1> HIDE DEF s, t, out, nu
<1>9. Carries(e, nu, h.ids)
  BY <1>2, <1>6, <1>8 DEF WayInv, Carries, Brings
<1>10. WayInv(e, t, ss[y], nu, events[y], Len(queued[e]), h)
  BY <1>6, <1>8, <1>9 DEF WayInv
<1>11. WayInv(Peer(e), ss[y], t, nu, events[e], Len(queued[y]), k)
  BY <1>2, <1>7, <1>8, WayHears
<1>12. \E g : WayInv(e, t, ss[Peer(e)], net', events[Peer(e)], Len(queued'[e]), g)
  BY <1>10 DEF nu
<1>13. \E g : WayInv(Peer(e), ss[Peer(e)], t, net', events'[e], Len(queued[Peer(e)]), g)
  BY <1>5, <1>11 DEF nu
<1> QED BY <1>2, <1>3, <1>4, <1>5, <1>12, <1>13, OneWay

\* start and the handshake's timers.
LEMMA HandshakeOrder ==
    ASSUME OneStream, SctpInv, SctpInv', OrderInv, NEW e \in Endpoints,
           start(e) \/ T1Init(e) \/ T1Cookie(e)
    PROVE  OrderInv'
<1> DEFINE s == ss[e]
           m == Len(queued[e])
<1>1. queued' = queued
  BY DEF start, T1Init, T1Cookie
<1>2. SessionInv(s) /\ DOMAIN s = Fields /\ (s.t1Init # Idle => s.mState = "CookieWait")
  BY DEF SctpInv, SessionInv, Accounts
<1>3. PICK h, n : /\ Apply(e, h, {})
                  /\ \/ h = sendInit(e, s, n) /\ s.mState # "Destroyed"
                     \/ h = sendCookieEcho(e, s, n)
  BY <1>2 DEF start, T1Init, T1Cookie
<1>4. /\ Told(events[e]) /\ m \in Nat /\ DOMAIN queued = Endpoints
      /\ IsSeq(queued[e]) /\ Len(queued[e]) <= MaxMessages[e]
  BY OrderIs DEF OrderInv
<1>5. CASE s.mState # "Destroyed"
  <2>1. ASSUME NEW g, SendInv(s, g, m) PROVE Silent(e, s, h, g, m)
    <3> HIDE DEF s, m
    <3> QED BY <1>2, <1>3, <1>4, <2>1, SendInitSilent, SendCookieEchoSilent
  <2>2. Answers(e, s, h, m, m, events[e], net)
    <3> HIDE DEF s, m
    <3> QED BY <1>4, <2>1, SilentAnswers
  <2>3. Answers(e, ss[e], h, Len(queued[e]), Len(queued'[e]), events[e], net)
    BY <1>1, <2>2
  <2> QED BY <1>1, <1>3, <1>4, <1>5, <2>3, AppliedTells
<1>6. CASE s.mState = "Destroyed"
  <2> DEFINE t == h[1]
             out == h[2]
  <2>1. h = sendCookieEcho(e, s, n)
    BY <1>3, <1>6
  <2>2. (\A f \in Fields \ {"t1Cookie"} : t[f] = s[f]) /\ h[3] = <<>>
        /\ \A p \in out : p.type # "DATA"
    <3> HIDE DEF s
    <3> QED BY <1>2, <2>1, CookieEchoIs
  <2>3. t.mState = "Destroyed" /\ t.mSentChunks = s.mSentChunks
    BY <1>6, <2>2 DEF Fields
  <2>4. \A ids : Brings(e, out, ids)
    BY <2>2, NoData
  <2> HIDE DEF t, out
  <2>5. h[1].mState = "Destroyed" /\ h[1].mSentChunks = ss[e].mSentChunks
        /\ (\A ids : Brings(e, h[2], ids)) /\ h[3] = <<>>
    BY <2>2, <2>3, <2>4 DEF t, out
  <2> QED BY <1>1, <1>3, <1>6, <2>5, EndedWay
<1> QED BY <1>5, <1>6

\* T3 expires.
LEMMA RetransmitOrder ==
    ASSUME OneStream, SctpInv, SctpInv', OrderInv, NEW e \in Endpoints, retransmitOldest(e)
    PROVE  OrderInv'
<1> DEFINE s == ss[e]
           m == Len(queued[e])
           c == Head(s.mSentChunks)
           d == Data(e, s, c)
           r == <<s, {d}, <<>>>>
<1>1. SessionInv(s) /\ s.t3Rtx = (s.mSentChunks # <<>>) /\ IsSeq(s.mSentChunks)
  BY DEF SctpInv, SessionInv, Accounts, Sized
<1>2. s.t3Rtx /\ queued' = queued
  BY DEF retransmitOldest
<1>3. s.mSentChunks # <<>>
  BY <1>1, <1>2
<1>4. Apply(e, r, {})
  BY <1>3 DEF retransmitOldest
<1>5. /\ Told(events[e]) /\ m \in Nat /\ DOMAIN queued = Endpoints
      /\ IsSeq(queued[e]) /\ Len(queued[e]) <= MaxMessages[e]
  BY OrderIs DEF OrderInv
<1>6. CASE s.mState # "Destroyed"
  <2>1. ASSUME NEW g, SendInv(s, g, m) PROVE Silent(e, s, r, g, m)
    <3> HIDE DEF s, m
    <3> QED BY <1>1, <1>3, <1>5, <2>1, RetransmitSilent
  <2> HIDE DEF r
  <2>2. Answers(e, s, r, m, m, events[e], net)
    <3> HIDE DEF s, m
    <3> QED BY <1>5, <2>1, SilentAnswers
  <2>3. Answers(e, ss[e], r, Len(queued[e]), Len(queued'[e]), events[e], net)
    BY <1>2, <2>2
  <2> QED BY <1>2, <1>4, <1>5, <1>6, <2>3, AppliedTells
<1>7. CASE s.mState = "Destroyed"
  <2>1. r[1] = s /\ r[2] = {d} /\ r[3] = <<>>
    OBVIOUS
  <2>2. d.to = Peer(e) /\ d.chunk = c
    <3> HIDE DEF c, s
    <3> QED BY DEF Data
  <2>3. \A ids : ChunksOf(s.mSentChunks, ids) => Brings(e, {d}, ids)
    <3> DEFINE q == s.mSentChunks
    <3>1. c = q[1] /\ 1 \in 1..Len(q)
      <4>1. PICK S : q \in Seq(S)
        BY <1>1 DEF IsSeq
      <4> QED BY <1>3, <4>1
    <3> HIDE DEF d, c, q
    <3>2. \A ids : ChunksOf(q, ids) => Brings(e, {d}, ids)
      BY <2>2, <3>1 DEF ChunksOf, Brings
    <3> QED BY <3>2 DEF q
  <2> HIDE DEF d, r
  <2>4. r[1].mState = "Destroyed" /\ r[1].mSentChunks = ss[e].mSentChunks /\ r[3] = <<>>
        /\ \A ids : ChunksOf(ss[e].mSentChunks, ids) => Brings(e, r[2], ids)
    BY <1>7, <2>1, <2>3
  <2> QED BY <1>2, <1>4, <1>7, <2>4, EndedWay
<1> QED BY <1>6, <1>7

\* A datagram arrives.
LEMMA ReceiveOrder ==
    ASSUME OneStream, SctpInv, SctpInv', OrderInv, NEW e \in Endpoints, NEW type \in Types,
           onReceiveData(e, type)
    PROVE  OrderInv'
<1> DEFINE s == ss[e]
           m == Len(queued[e])
           ev == events[e]
<1>1. PICK p \in net : p.to = e /\ p.type = type /\ Apply(e, Handle(e, s, p), {p})
  BY DEF onReceiveData
<1> DEFINE r == Handle(e, s, p)
<1>2. s.mState # "Destroyed" /\ queued' = queued
  BY DEF onReceiveData, Alive
<1>3. /\ Told(ev) /\ m \in Nat /\ DOMAIN queued = Endpoints /\ IsSeq(queued[e])
      /\ Len(queued[e]) <= MaxMessages[e] /\ m < SsnCount /\ Size \in Sizes
  BY OrderIs DEF OrderInv
<1>4. SessionInv(s) /\ p.type \in Types /\ Peer(Peer(e)) = e
  BY <1>1, PeerIs DEF SctpInv
<1>5. ASSUME NEW h, NEW k, SendInv(s, h, m), Rising(k), Len(k.ids) < SsnCount,
             HearInv(s, ev, k.ids), Carries(Peer(e), net, k.ids)
      PROVE  Tells(e, r, h, m, ev, k.ids)
  <2>1. p.type = "DATA" => ChunkOf(p.chunk, k.ids)
    BY <1>1, <1>4, <1>5 DEF Carries
  <2> HIDE DEF s, m, ev
  <2> QED BY <1>3, <1>4, <1>5, <2>1, HandleTells
<1> HIDE DEF r
<1>6. Answers(e, s, r, m, m, ev, net)
  BY <1>5 DEF Answers
<1>7. Apply(e, r, {p})
  BY <1>1 DEF r
<1>8. Answers(e, ss[e], r, Len(queued[e]), Len(queued'[e]), events[e], net)
  BY <1>2, <1>6
<1> QED BY <1>2, <1>3, <1>7, <1>8, AppliedTells

\* A message for the channel while it is open: nothing waits for it to open.
LEMMA OpenMessageSilent ==
    ASSUME NEW e, NEW s, NEW h, NEW m \in Nat, NEW msg, SessionInv(s), SendInv(s, h, m),
           m + 1 < SsnCount, Size \in Sizes, msg.label = Label, msg.size = Size, msg.id = m + 1,
           isChannelOpen(s, Label)
    PROVE  Silent(e, s, <<send(e, s, msg)[1], send(e, s, msg)[2], <<>>>>, h, m + 1)
<1> DEFINE t == send(e, s, msg)[1]
           out == send(e, s, msg)[2]
           none == <<>>
           n == m + 1
<1>1. IsSeq(s.mDataChannels) /\ DOMAIN s.mDataChannels = 1..Len(s.mDataChannels)
  BY SeqIs DEF SessionInv, Accounts
<1>2. s.mDataSendQueue = none
  BY <1>1 DEF isChannelOpen, SendInv, NoneOpen
<1>3. Len(none) = 0 /\ IsSeq(none)
  BY <1>1, EmptyIs
<1>4. Line(s, h, m) /\ WaitForRoom(s) /\ h.last <= m /\ h.last \in Nat
  <2>1. Line(s, h, m - Len(s.mDataSendQueue)) /\ WaitForRoom(s) /\ h.last <= m
    BY DEF SendInv
  <2>2. h.last \in Nat
    BY SendInvIs DEF SessionInv
  <2> HIDE DEF none
  <2>3. m - Len(s.mDataSendQueue) = m
    BY <1>2, <1>3
  <2> QED BY <2>1, <2>2, <2>3
<1>5. h.last < msg.id /\ msg.id \in Nat /\ m \in Int
  BY <1>4
<1>6. \E g : Sends(e, s, t, out, h, g, m + 1) /\ g.last <= msg.id
  BY <1>4, <1>5, SendLine
<1> HIDE DEF t, out, none
<1>7. PICK g : Sends(e, s, t, out, h, g, n) /\ g.last <= n
  BY <1>6
<1>8. t.mDataSendQueue = none /\ Line(t, g, n) /\ WaitForRoom(t) /\ Quiet(s, t)
      /\ Extends(h.ids, g.ids) /\ Brings(e, out, g.ids)
  BY <1>2, <1>7 DEF Sends, Quiet
<1>9. SendInv(t, g, n)
  <2>1. n - Len(t.mDataSendQueue) = n
    BY <1>3, <1>8
  <2>2. Waits(t.mDataSendQueue, g.last, n)
    BY <1>8, NothingWaits DEF none
  <2>3. t.mDataSendQueue = <<>>
    BY <1>8 DEF none
  <2> QED BY <1>7, <1>8, <2>1, <2>2, <2>3 DEF SendInv
<1>10. Moves(e, t, out, h, n) /\ Hush(s, t)
  BY <1>1, <1>8, <1>9, QuietIsHush DEF Moves
<1> DEFINE r == <<t, out, <<>>>>
<1>11. r[1] = t /\ r[2] = out /\ r[3] = <<>>
  OBVIOUS
<1> HIDE DEF r, n
<1>12. Silent(e, s, r, h, n)
  BY <1>10, <1>11 DEF Silent
<1> QED BY <1>12 DEF r, t, out, n

\* A message for the channel while it is not open joins those that wait for it; the oldest
\* of them may have to go.
LEMMA QueuedMessageSilent ==
    ASSUME NEW e, NEW s, NEW h, NEW m \in Nat, NEW msg, SessionInv(s), SendInv(s, h, m),
           msg.label = Label, msg.size = Size, msg.id = m + 1, ~isChannelOpen(s, Label),
           NEW kept,
           kept \in {Append(s.mDataSendQueue, msg), Tail(Append(s.mDataSendQueue, msg))}
    PROVE  Silent(e, s, <<WithQueue(s, kept), {}, <<>>>>, h, m + 1)
<1> DEFINE q == s.mDataSendQueue
           queue == Append(q, msg)
           t == WithQueue(s, kept)
           n == m + 1
<1>1. /\ IsSeq(s.mDataChannels) /\ DOMAIN s.mDataChannels = 1..Len(s.mDataChannels)
      /\ Accounts(s) /\ IsSeq(q) /\ Len(q) \in Nat
  BY SeqIs DEF SessionInv, Accounts, Sized
<1>2. /\ Line(s, h, m - Len(q)) /\ WaitForRoom(s) /\ Waits(q, h.last, m) /\ h.last <= m
      /\ h.last \in Nat /\ Holds(s, h.ids) /\ IsSeq(h.ids)
  BY <1>1, SendInvIs DEF SendInv
<1>3. msg.id \in Nat /\ m < msg.id /\ n = msg.id
  OBVIOUS
<1>4. IsSeq(queue) /\ Len(queue) = Len(q) + 1
  <2> HIDE DEF q
  <2> QED BY <1>1, AppendIs
<1> HIDE DEF q
<1>5. Waits(queue, h.last, n)
  BY <1>2, <1>3, WaitsMore
<1>6. queue # <<>> /\ n \in Nat
  <2> DEFINE d == queue
  <2>1. IsSeq(d) /\ Len(d) = Len(q) + 1
    BY <1>4
  <2> HIDE DEF d
  <2>2. d # <<>>
    BY <1>1, <2>1, EmptyIs
  <2> QED BY <2>2 DEF d
<1> HIDE DEF queue, n
<1>7. Waits(Tail(queue), h.last, n) /\ IsSeq(Tail(queue)) /\ Len(Tail(queue)) = Len(queue) - 1
  BY <1>2, <1>4, <1>5, <1>6, WaitsLess, TailIs
<1>8. kept = queue \/ kept = Tail(queue)
  BY DEF queue, q
<1>9. Waits(kept, h.last, n) /\ Len(kept) \in Nat /\ Len(kept) <= Len(q) + 1
  <2> DEFINE rest == Tail(queue)
  <2>1. /\ Waits(rest, h.last, n) /\ IsSeq(rest) /\ Len(rest) = Len(queue) - 1
        /\ Len(rest) \in Nat /\ kept \in {queue, rest}
    BY <1>7, <1>8, SeqIs
  <2> HIDE DEF rest
  <2>2. CASE kept = queue
    BY <1>1, <1>4, <1>5, <2>2
  <2>3. CASE kept = rest
    BY <1>1, <1>4, <2>1, <2>3
  <2> QED BY <2>1, <2>2, <2>3
<1>10. t.mDataSendQueue = kept /\ \A f \in Fields \ {"mDataSendQueue"} : t[f] = s[f]
  BY <1>1, QueuesChange
<1> HIDE DEF t
<1>11. /\ t.mDataChannels = s.mDataChannels /\ t.mSentChunks = s.mSentChunks
       /\ t.mPendingSend = s.mPendingSend /\ t.mPeerRwnd = s.mPeerRwnd
       /\ t.mFlightSize = s.mFlightSize
  BY <1>10 DEF Fields
<1>12. Line(t, h, n - Len(kept)) /\ WaitForRoom(t)
  <2> DEFINE a == Len(q)
             b == Len(kept)
             c == m - a
             d == n - b
             u == Len(h.ids)
             v == Len(s.mPendingSend)
  <2>1. c \in Int /\ d \in Int /\ c <= d
    <3> HIDE DEF a, b
    <3>1. a \in Nat /\ b \in Nat /\ b <= a + 1 /\ n = m + 1
      BY <1>1, <1>9 DEF a, b, n
    <3> QED BY <3>1
  <2>2. Line(s, h, c)
    BY <1>2
  <2> HIDE DEF c, d
  <2>3. u \in Nat /\ v \in Nat /\ u + v <= c
    BY <2>1, <2>2, LineIs
  <2> HIDE DEF u, v
  <2>4. u + v <= d
    BY <2>1, <2>3
  <2>5. Line(s, h, d)
    BY <2>2, <2>4 DEF Line, u, v
  <2>6. Line(t, h, d) /\ WaitForRoom(t)
    BY <1>2, <1>11, <2>5, SameLine
  <2> QED BY <2>6 DEF d
<1>13. NoneOpen(t.mDataChannels)
  <2> DEFINE z == s.mDataChannels
  <2>1. \A i \in 1..Len(z) : ~(z[i].label = Label /\ z[i].state = "kOpen")
    BY <1>1 DEF isChannelOpen
  <2>2. OnStream(z)
    BY <1>2 DEF Holds
  <2> HIDE DEF z
  <2>3. ASSUME NEW i \in 1..Len(z) PROVE z[i].label = Label
    <3> DEFINE c == z[i]
    <3>1. c = [label |-> Label, streamId |-> Stream, state |-> c.state,
               receiveBuffer |-> c.receiveBuffer, sendSsn |-> c.sendSsn]
      BY <2>2 DEF OnStream
    <3> HIDE DEF c
    <3>2. c.label = Label
      BY <3>1
    <3> QED BY <3>2 DEF c
  <2>4. NoneOpen(z)
    BY <2>1, <2>3 DEF NoneOpen
  <2> QED BY <1>11, <2>4 DEF z
<1>14. h.last <= n
  BY <1>2, <1>3
<1>15. SendInv(t, h, n)
  BY <1>9, <1>10, <1>12, <1>13, <1>14 DEF SendInv
<1>16. Extends(h.ids, h.ids)
  BY <1>2, ExtendsSelf
<1> DEFINE out == {}
<1>17. Brings(e, out, h.ids)
  BY DEF Brings
<1> HIDE DEF out
<1>18. Moves(e, t, out, h, n) /\ Hush(s, t)
  BY <1>1, <1>11, <1>15, <1>16, <1>17 DEF Moves, Hush
<1> DEFINE r == <<t, out, <<>>>>
<1>19. r[1] = t /\ r[2] = out /\ r[3] = <<>>
  OBVIOUS
<1> HIDE DEF r
<1>20. Silent(e, s, r, h, n)
  BY <1>18, <1>19 DEF Silent
<1> QED BY <1>20 DEF r, t, out, n

\* The one endpoint with a channel, and its label.
LEMMA OwnerIs ==
    ASSUME OneStream
    PROVE  /\ Owner \in Endpoints /\ Len(Labels[Owner]) = 1 /\ Labels[Peer(Owner)] = <<>>
           /\ AllLabels \subseteq {Label}
<1>1. PICK e \in Endpoints : Len(Labels[e]) = 1 /\ Labels[Peer(e)] = <<>>
  BY DEF OneStream, OneChannel
<1>2. \A x \in Endpoints : IsSeq(Labels[x])
  BY SctpAssumption DEF IsSeq
<1>3. Labels[e] # <<>>
  BY <1>1, <1>2, EmptyIs
<1>4. \A x \in Endpoints : x = e \/ x = Peer(e)
  BY PeerIs
<1>5. Owner \in Endpoints /\ Labels[Owner] # <<>>
  BY <1>3 DEF Owner
<1>6. Owner = e
  BY <1>1, <1>4, <1>5
<1>7. ASSUME NEW x \in AllLabels PROVE x = Label
  <2>1. PICK y \in Endpoints : x \in ToSet(Labels[y])
    BY <1>7 DEF AllLabels
  <2>2. PICK i \in DOMAIN Labels[y] : x = Labels[y][i]
    BY <2>1 DEF ToSet
  <2>3. DOMAIN Labels[y] = 1..Len(Labels[y])
    BY <1>2, SeqIs
  <2>4. y = e
    <3>1. CASE y = Peer(e)
      <4>1. Len(Labels[y]) = 0
        BY <1>1, <1>2, <3>1, EmptyIs
      <4>2. i \in 1..0
        BY <2>3, <4>1
      <4> QED BY <4>2
    <3> QED BY <1>4, <3>1
  <2>5. i = 1
    <3>1. i \in 1..1
      BY <1>1, <2>3, <2>4
    <3> QED BY <3>1
  <2> QED BY <1>6, <2>2, <2>4, <2>5 DEF Label
<1> QED BY <1>1, <1>5, <1>6, <1>7

\* The application sends a message.
LEMMA MessageOrder ==
    ASSUME OneStream, SctpInv, SctpInv', OrderInv, NEW e \in Endpoints, NEW label \in AllLabels,
           NEW size \in Sizes, sendDataChannelMessage(e, label, size)
    PROVE  OrderInv'
<1> DEFINE s == ss[e]
           m == Len(queued[e])
           msg == [id |-> m + 1, label |-> label, size |-> size]
           queue == Append(s.mDataSendQueue, msg)
           kept == IF Len(queue) > SendQueueCap THEN Tail(queue) ELSE queue
           x == send(e, s, msg)
           r1 == <<x[1], x[2], <<>>>>
           r2 == <<WithQueue(s, kept), {}, <<>>>>
<1>1. /\ Told(events[e]) /\ m \in Nat /\ DOMAIN queued = Endpoints /\ IsSeq(queued[e])
      /\ MaxMessages[e] \in Nat /\ MaxMessages[e] < SsnCount /\ SsnCount \in Nat
      /\ Size \in Sizes /\ Sizes = {Size}
  BY OrderIs DEF OrderInv
<1>2. SessionInv(s) /\ Peer(e) # e /\ Peer(e) \in Endpoints
  BY PeerIs DEF SctpInv
<1>3. msg.label = Label /\ msg.size = Size /\ msg.id = m + 1 /\ label = Label
  BY <1>1, OwnerIs
<1>4. s.mState # "Destroyed" /\ m < MaxMessages[e]
      /\ queued' = [queued EXCEPT ![e] = Append(@, msg)]
  BY DEF sendDataChannelMessage
<1>5. PICK r : Apply(e, r, {}) /\ r = IF isChannelOpen(s, label) THEN r1 ELSE r2
  BY DEF sendDataChannelMessage, WithQueue
<1>6. kept \in {queue, Tail(queue)}
  OBVIOUS
<1> HIDE DEF msg, x
<1>7. /\ DOMAIN queued' = Endpoints /\ queued'[Peer(e)] = queued[Peer(e)]
      /\ queued'[e] = Append(queued[e], msg)
  BY <1>1, <1>2, <1>4
<1>8. IsSeq(queued'[e]) /\ Len(queued'[e]) = m + 1
  <2> DEFINE q == queued[e]
  <2>1. IsSeq(q)
    BY <1>1
  <2> HIDE DEF q
  <2>2. IsSeq(Append(q, msg)) /\ Len(Append(q, msg)) = Len(q) + 1
    BY <2>1, AppendIs
  <2> QED BY <1>7, <2>2 DEF q
<1>9. m + 1 <= MaxMessages[e] /\ m + 1 < SsnCount
  <2> DEFINE M == MaxMessages[e]
  <2>1. M \in Nat /\ M < SsnCount /\ m < M
    BY <1>1, <1>4
  <2> HIDE DEF M, m
  <2>2. m + 1 <= M /\ m + 1 < SsnCount
    BY <1>1, <2>1
  <2> QED BY <2>2 DEF M
<1> HIDE DEF s, m, queue, kept
<1>10. ASSUME NEW h, SendInv(s, h, m) PROVE Silent(e, s, r, h, m + 1)
  <2>1. CASE isChannelOpen(s, Label)
    <3>1. Silent(e, s, r1, h, m + 1)
      BY <1>1, <1>2, <1>3, <1>9, <1>10, <2>1, OpenMessageSilent DEF x
    <3> HIDE DEF r1, r2
    <3> QED BY <1>3, <1>5, <2>1, <3>1
  <2>2. CASE ~isChannelOpen(s, Label)
    <3>1. Silent(e, s, r2, h, m + 1)
      BY <1>1, <1>2, <1>3, <1>6, <1>10, <2>2, QueuedMessageSilent DEF queue
    <3> HIDE DEF r1, r2
    <3> QED BY <1>3, <1>5, <2>2, <3>1
  <2> QED BY <2>1, <2>2
<1> HIDE DEF r1, r2
<1>11. Answers(e, s, r, m, m + 1, events[e], net)
  BY <1>1, <1>10, SilentTells DEF Answers
<1>12. Answers(e, ss[e], r, Len(queued[e]), Len(queued'[e]), events[e], net)
  BY <1>8, <1>11 DEF s, m
<1>13. Len(queued'[e]) <= MaxMessages[e]
  BY <1>8, <1>9
<1>14. ss[e].mState # "Destroyed"
  BY <1>4 DEF s
<1> QED BY <1>5, <1>7, <1>8, <1>12, <1>13, <1>14, AppliedTells

\* The listener calls of a session that ends.
LEMMA CloseCallsIs ==
    ASSUME NEW q, IsSeq(q)
    PROVE  /\ CloseCalls(q)[0] = <<>>
           /\ \A i \in 1..Len(q) :
                 CloseCalls(q)[i] = IF q[i].state = "kOpen"
                                    THEN Append(CloseCalls(q)[i - 1], <<"close", q[i].label>>)
                                    ELSE CloseCalls(q)[i - 1]
<1> DEFINE base == <<>>
           Step(g, c) == IF c.state = "kOpen" THEN Append(g, <<"close", c.label>>) ELSE g
           Turn(g, i) == IF i = 0 THEN base ELSE Step(g[i - 1], q[i])
           Eq(g, n) == g = [i \in 0..n |-> Turn(g, i)]
           T == {n \in Nat : \E g : Eq(g, n)}
<1> DEFINE w == CloseCalls(q)
<1>5. w = CHOOSE g : Eq(g, Len(q))
  BY DEF CloseCalls
<1> HIDE DEF Step, base
<1>1. 0 \in T
  <2>1. Eq([i \in 0..0 |-> base], 0)
    OBVIOUS
  <2> QED BY <2>1
<1>2. ASSUME NEW n \in Nat, n \in T PROVE n + 1 \in T
  <2>1. PICK g : Eq(g, n)
    BY <1>2
  <2> DEFINE h == [i \in 0..(n + 1) |-> IF i = n + 1 THEN Step(g[n], q[n + 1]) ELSE g[i]]
  <2>2. ASSUME NEW i \in 0..(n + 1) PROVE h[i] = Turn(h, i)
    <3>1. CASE i = n + 1
      BY <3>1
    <3>2. CASE i # n + 1
      <4>1. i \in 0..n /\ h[i] = g[i] /\ (i # 0 => h[i - 1] = g[i - 1])
        BY <3>2
      <4>2. g[i] = Turn(g, i)
        BY <2>1, <4>1
      <4> HIDE DEF h
      <4> QED BY <4>1, <4>2
    <3> QED BY <3>1, <3>2
  <2>3. h = [i \in 0..(n + 1) |-> h[i]]
    OBVIOUS
  <2> HIDE DEF h
  <2>4. Eq(h, n + 1)
    BY <2>2, <2>3, Zenon
  <2> QED BY <2>4
<1>3. Nat \subseteq T
  <2> HIDE DEF T
  <2> QED BY <1>1, <1>2, NatSetInduction
<1>4. \E g : Eq(g, Len(q))
  BY <1>3, SeqIs
<1>6. Eq(w, Len(q))
  BY <1>4, <1>5, Zenon
<1> HIDE DEF w
<1>7. \A i \in 0..Len(q) : w[i] = Turn(w, i)
  BY <1>6
<1>8. 0 \in 0..Len(q) /\ \A i \in 1..Len(q) : i \in 0..Len(q) /\ i # 0
  BY SeqIs
<1>9. w[0] = base /\ \A i \in 1..Len(q) : w[i] = Step(w[i - 1], q[i])
  BY <1>7, <1>8
<1> QED BY <1>9 DEF w, base, Step

\* None of them hands over a message.
LEMMA CloseCallsTell ==
    ASSUME NEW q, IsSeq(q)
    PROVE  NoMessages(CloseCalls(q)[Len(q)])
<1> DEFINE w == CloseCalls(q)
           n == Len(q)
           T == {i \in Nat : i <= n => NoMessages(w[i])}
<1>1. n \in Nat
  BY SeqIs
<1>2. /\ w[0] = <<>>
      /\ \A i \in 1..n : w[i] = w[i - 1] \/ w[i] = Append(w[i - 1], <<"close", q[i].label>>)
  BY CloseCallsIs
<1> HIDE DEF w, n
<1>3. 0 \in T
  <2> DEFINE none == <<>>
  <2>1. IsSeq(none) /\ Len(none) = 0 /\ w[0] = none
    BY <1>2, EmptyIs
  <2> HIDE DEF none
  <2>2. NoMessages(none)
    BY <2>1 DEF NoMessages
  <2> QED BY <2>1, <2>2
<1>4. ASSUME NEW i \in Nat, i \in T PROVE i + 1 \in T
  <2>0. ASSUME i + 1 <= n PROVE NoMessages(w[i + 1])
    <3> DEFINE v == w[i]
               c == <<"close", q[i + 1].label>>
               z == Append(v, c)
    <3>1. i + 1 \in 1..n /\ (i + 1) - 1 = i /\ NoMessages(v)
      BY <1>1, <1>4, <2>0
    <3>2. w[i + 1] = v \/ w[i + 1] = z
      BY <1>2, <3>1
    <3>3. ~IsMessage(c)
      BY DEF IsMessage
    <3>4. IsSeq(v) /\ Len(v) \in Nat /\ \A j \in 1..Len(v) : ~IsMessage(v[j])
      BY <3>1, SeqIs DEF NoMessages
    <3> HIDE DEF v, c
    <3>5. /\ IsSeq(z) /\ Len(z) = Len(v) + 1 /\ z[Len(v) + 1] = c
          /\ \A j \in 1..Len(v) : z[j] = v[j]
      BY <3>4, AppendIs
    <3> HIDE DEF z
    <3>6. NoMessages(z)
      <4>1. ASSUME NEW j \in 1..Len(z) PROVE ~IsMessage(z[j])
        <5>1. j \in 1..Len(v) \/ j = Len(v) + 1
          BY <3>4, <3>5
        <5> QED BY <3>3, <3>4, <3>5, <5>1
      <4> QED BY <3>5, <4>1 DEF NoMessages
    <3> QED BY <3>1, <3>2, <3>6
  <2> QED BY <2>0
<1>5. Nat \subseteq T
  <2> HIDE DEF T
  <2> QED BY <1>3, <1>4, NatSetInduction
<1>6. NoMessages(w[n])
  BY <1>1, <1>5
<1> QED BY <1>6 DEF w, n

\* A session ends.
LEMMA DestroyOrder ==
    ASSUME OneStream, SctpInv, OrderInv, NEW e \in Endpoints, Destroy(e)
    PROVE  OrderInv'
<1> DEFINE y == Peer(e)
           s == ss[e]
           t == [NewSession(e) EXCEPT !.mState = "Destroyed"]
           q == s.mDataChannels
           more == CloseCalls(q)[Len(q)]
           none == <<>>
<1>1. y \in Endpoints /\ y # e /\ Peer(y) = e
  BY PeerIs
<1>2. Apply(e, <<t, {}, more>>, {}) /\ queued' = queued
  BY DEF Destroy
<1> HIDE DEF more
<1>3. t.mState = "Destroyed" /\ t.mSentChunks = none
  BY DEF NewSession
<1> HIDE DEF t
<1>4. ss' = [ss EXCEPT ![e] = t] /\ net' = net /\ events' = [events EXCEPT ![e] = @ \o more]
  BY <1>2 DEF Apply
<1>5. /\ DOMAIN events' = Endpoints /\ events'[y] = events[y] /\ events'[e] = events[e] \o more
      /\ DOMAIN queued = Endpoints
  BY <1>1, <1>4 DEF OrderInv
<1>6. Told(events[e]) /\ IsSeq(queued[e]) /\ Len(queued[e]) <= MaxMessages[e]
  BY OrderIs
<1>7. NoMessages(more)
  <2>1. IsSeq(q)
    BY DEF SctpInv, SessionInv, Accounts
  <2> HIDE DEF q
  <2> QED BY <2>1, CloseCallsTell DEF more
<1>8. Told(events'[e])
  BY <1>5, <1>6, <1>7, NothingTold
<1>9. PICK h : WayInv(e, s, ss[y], net, events[y], Len(queued[e]), h)
  BY OrderIs
<1>10. PICK k : WayInv(y, ss[y], s, net, events[e], Len(queued[y]), k)
  BY <1>1, OrderIs
<1>11. Len(none) = 0
  OBVIOUS
<1> HIDE DEF none, s
<1>12. ChunksOf(t.mSentChunks, h.ids)
  BY <1>3, <1>11 DEF ChunksOf
<1>13. WayInv(e, t, ss[y], net, events[y], Len(queued[e]), h)
  BY <1>3, <1>9, <1>12 DEF WayInv
<1>14. WayInv(y, ss[y], t, net, events'[e], Len(queued[y]), k)
  BY <1>3, <1>10 DEF WayInv
<1>15. \E g : WayInv(e, t, ss[Peer(e)], net', events[Peer(e)], Len(queued'[e]), g)
  BY <1>2, <1>4, <1>13
<1>16. \E g : WayInv(Peer(e), ss[Peer(e)], t, net', events'[e], Len(queued[Peer(e)]), g)
  BY <1>4, <1>14
<1> QED BY <1>2, <1>4, <1>5, <1>6, <1>8, <1>15, <1>16, OneWay

\* The network loses a datagram, or nothing happens.
LEMMA LossOrder ==
    ASSUME OrderInv, ss' = ss, events' = events, queued' = queued, net' \subseteq net
    PROVE  OrderInv'
<1>1. ASSUME NEW x \in Endpoints
      PROVE  /\ Told(events'[x]) /\ IsSeq(queued'[x]) /\ Len(queued'[x]) <= MaxMessages[x]
             /\ \E h : WayInv(x, ss'[x], ss'[Peer(x)], net', events'[Peer(x)],
                              Len(queued'[x]), h)
  <2> DEFINE s == ss[x]
             r == ss[Peer(x)]
             ev == events[Peer(x)]
             m == Len(queued[x])
             nt == net
             nu == net'
  <2>1. PICK h : WayInv(x, s, r, nt, ev, m, h)
    BY DEF OrderInv
  <2>2. nu \subseteq nt
    OBVIOUS
  <2> HIDE DEF s, r, ev, m, nt, nu
  <2>3. WayInv(x, s, r, nu, ev, m, h)
    BY <2>1, <2>2 DEF WayInv, Carries
  <2>4. \E g : WayInv(x, ss'[x], ss'[Peer(x)], net', events'[Peer(x)], Len(queued'[x]), g)
    BY <2>3 DEF s, r, ev, m, nu
  <2>5. Told(events[x]) /\ IsSeq(queued[x]) /\ Len(queued[x]) <= MaxMessages[x]
    BY DEF OrderInv
  <2> QED BY <2>4, <2>5
<1>2. DOMAIN events' = Endpoints /\ DOMAIN queued' = Endpoints
  BY DEF OrderInv
<1> QED BY <1>1, <1>2, OrderInvNextIs

\* Every step keeps the order.
LEMMA OrderInvNext == OneStream /\ SctpInv /\ SctpInv' /\ OrderInv /\ [Next]_vars => OrderInv'
<1> SUFFICES ASSUME OneStream, SctpInv, SctpInv', OrderInv, [Next]_vars PROVE OrderInv'
  OBVIOUS
<1>1. CASE UNCHANGED vars
  BY <1>1, LossOrder DEF vars
<1>2. ASSUME NEW p \in net, Lose(p) PROVE OrderInv'
  <2>1. ss' = ss /\ events' = events /\ queued' = queued /\ net' \subseteq net
    BY <1>2 DEF Lose
  <2> QED BY <2>1, LossOrder
<1>3. ASSUME NEW e \in Endpoints,
             start(e) \/ T1Init(e) \/ T1Cookie(e) \/ retransmitOldest(e) \/ Destroy(e)
      PROVE  OrderInv'
  BY <1>3, HandshakeOrder, RetransmitOrder, DestroyOrder
<1>4. ASSUME NEW e \in Endpoints, NEW type \in Types, onReceiveData(e, type) PROVE OrderInv'
  BY <1>4, ReceiveOrder
<1>5. ASSUME NEW e \in Endpoints, NEW stream \in ResetStreams, ReceiveReconfig(e, stream)
      PROVE  OrderInv'
  BY <1>5 DEF OneStream
<1>6. ASSUME NEW e \in Endpoints, NEW label \in AllLabels, NEW size \in Sizes,
             sendDataChannelMessage(e, label, size)
      PROVE  OrderInv'
  BY <1>6, MessageOrder
<1> QED BY <1>1, <1>2, <1>3, <1>4, <1>5, <1>6 DEF Next

\* The channels of a new session: the owner's one, or none.
LEMMA NewChannels ==
    ASSUME OneStream, NEW x \in Endpoints
    PROVE  /\ IsSeq(NewSession(x).mDataChannels) /\ OnStream(NewSession(x).mDataChannels)
           /\ \A i \in 1..Len(NewSession(x).mDataChannels) :
                 /\ NewSession(x).mDataChannels[i].sendSsn = 0
                 /\ NewSession(x).mDataChannels[i].receiveBuffer = NewReceiveBuffer
<1> DEFINE labels == Labels[x]
           n == Len(labels)
           q == NewSession(x).mDataChannels
           Ch(i) == DataChannel(labels[i], FirstStreamId(x) + 2 * (i - 1), "kNone",
                                NewReceiveBuffer)
<1>1. IsSeq(labels) /\ n \in Nat /\ DOMAIN labels = 1..n
  <2>1. labels \in Seq(STRING)
    BY SctpAssumption
  <2> QED BY <2>1, SeqIs DEF IsSeq
<1>2. q = [i \in 1..n |-> Ch(i)]
  BY <1>1 DEF NewSession
<1>3. n = 0 \/ (n = 1 /\ x = Owner)
  <2>1. x = Owner \/ x = Peer(Owner)
    BY OwnerIs, PeerIs
  <2>2. CASE x = Owner
    BY <2>2, OwnerIs
  <2>3. CASE x = Peer(Owner)
    <3>1. labels = <<>>
      BY <2>3, OwnerIs
    <3> HIDE DEF labels
    <3> QED BY <1>1, <3>1, EmptyIs
  <2> QED BY <2>1, <2>2, <2>3
<1>4. IsSeq(q) /\ Len(q) = n
  <2> HIDE DEF q, Ch, n
  <2>1. q = [i \in 1..n |-> q[i]]
    BY <1>2
  <2> QED BY <1>1, <2>1, FunctionIsSeq
<1>5. ASSUME NEW i \in 1..n PROVE q[i] = ChannelIs("kNone", NewReceiveBuffer, 0)
  <2>1. i = 1 /\ x = Owner
    <3> HIDE DEF n
    <3> QED BY <1>1, <1>3, <1>5
  <2>2. FirstStreamId(x) + 2 * (1 - 1) = Stream /\ labels[1] = Label
    <3>1. FirstStreamId(x) \in Int /\ FirstStreamId(x) = Stream /\ labels[1] = Label
      BY <2>1 DEF FirstStreamId, Stream, Label
    <3> QED BY <3>1
  <2>3. q[i] = Ch(i)
    <3> HIDE DEF Ch, q, n
    <3> QED BY <1>2, <1>5
  <2>4. Ch(1) = ChannelIs("kNone", NewReceiveBuffer, 0)
    BY <2>2 DEF DataChannel, ChannelIs
  <2> QED BY <2>1, <2>3, <2>4
<1> HIDE DEF q, n
<1>6. ASSUME NEW i \in 1..Len(q)
      PROVE  /\ q[i] = [label |-> Label, streamId |-> Stream, state |-> q[i].state,
                        receiveBuffer |-> q[i].receiveBuffer, sendSsn |-> q[i].sendSsn]
             /\ q[i].sendSsn = 0 /\ q[i].receiveBuffer = NewReceiveBuffer
  <2> DEFINE c == q[i]
  <2>1. c = ChannelIs("kNone", NewReceiveBuffer, 0)
    BY <1>4, <1>5
  <2> HIDE DEF c
  <2>2. /\ c = [label |-> Label, streamId |-> Stream, state |-> c.state,
                receiveBuffer |-> c.receiveBuffer, sendSsn |-> c.sendSsn]
        /\ c.sendSsn = 0 /\ c.receiveBuffer = NewReceiveBuffer
    BY <2>1 DEF ChannelIs
  <2> QED BY <2>2 DEF c
<1>7. OnStream(q)
  BY <1>6 DEF OnStream
<1> QED BY <1>4, <1>6, <1>7 DEF q

\* Two new sessions: nothing was sent and nothing told.
LEMMA OrderInvInit == OneStream /\ Init => OrderInv
<1> SUFFICES ASSUME OneStream, Init PROVE OrderInv
  OBVIOUS
<1> DEFINE none == <<>>
           h == [ids |-> none, sent |-> 0, last |-> 0]
<1>1. IsSeq(none) /\ Len(none) = 0
  <2>1. none \in Seq({}) /\ Len(none) = 0
    OBVIOUS
  <2> QED BY <2>1 DEF IsSeq
<1>2. h.ids = none /\ h.sent = 0 /\ h.last = 0
  OBVIOUS
<1>3. /\ DOMAIN events = Endpoints /\ DOMAIN queued = Endpoints /\ net = {}
      /\ \A x \in Endpoints : events[x] = none /\ queued[x] = none /\ ss[x] = NewSession(x)
  BY DEF Init
<1>4. \A lo, hi : Waits(none, lo, hi)
  BY NothingWaits
<1> HIDE DEF none, h
<1>5. Rising(h) /\ Told(none)
  BY <1>1, <1>2 DEF Rising, Told
<1>6. ASSUME NEW s, NEW x \in Endpoints, s = NewSession(x)
      PROVE  SendInv(s, h, 0) /\ HearInv(s, none, none)
  <2> DEFINE q == s.mDataChannels
  <2>1. s.mSentChunks = none /\ s.mPendingSend = none /\ s.mDataSendQueue = none
    BY <1>6 DEF NewSession, none
  <2>2. IsSeq(q) /\ OnStream(q)
        /\ \A i \in 1..Len(q) : q[i].sendSsn = 0 /\ q[i].receiveBuffer = NewReceiveBuffer
    BY <1>6, NewChannels
  <2> HIDE DEF q
  <2>3. q # <<>> => 1 \in 1..Len(q)
    BY <2>2, SeqIs, EmptyIs
  <2>4. Holds(s, h.ids)
    <3>1. \A i \in 1..Len(s.mSentChunks) : ChunkOf(s.mSentChunks[i], h.ids)
      BY <1>1, <2>1
    <3>2. IF q = <<>> THEN Len(h.ids) = 0 ELSE q[1].sendSsn = Len(h.ids)
      BY <1>1, <1>2, <2>2, <2>3
    <3> QED BY <2>2, <3>1, <3>2 DEF Holds, q
  <2>5. Line(s, h, 0 - Len(s.mDataSendQueue)) /\ WaitForRoom(s)
    <3>1. Waits(s.mPendingSend, h.sent, h.last) /\ Len(h.ids) = 0 /\ Len(s.mPendingSend) = 0
          /\ Len(s.mDataSendQueue) = 0
      BY <1>1, <1>2, <1>4, <2>1
    <3>2. s.mPendingSend = <<>>
      BY <2>1 DEF none
    <3>3. Len(h.ids) + Len(s.mPendingSend) <= 0 - Len(s.mDataSendQueue)
      BY <3>1
    <3> QED BY <1>5, <2>4, <3>1, <3>2, <3>3 DEF Line, WaitForRoom
  <2>6. SendInv(s, h, 0)
    <3>1. s.mDataSendQueue = <<>>
      BY <2>1 DEF none
    <3> QED BY <1>2, <1>4, <2>1, <2>5, <3>1 DEF SendInv
  <2>7. HearInv(s, none, none)
    <3> DEFINE b == NewReceiveBuffer
    <3>1. b = [mNextSsn |-> 0, mPending |-> none]
      BY DEF NewReceiveBuffer, none
    <3>2. DOMAIN none = {}
      <4>1. DOMAIN none = 1..0
        BY <1>1, SeqIs
      <4> QED BY <4>1
    <3> HIDE DEF b
    <3>3. b.mNextSsn = 0 /\ b.mPending = none
          /\ b = [mNextSsn |-> b.mNextSsn, mPending |-> b.mPending]
      BY <3>1
    <3>4. 0 \in 0..(SsnCount - 1)
      BY SsnAssumption
    <3>5. PendingOf(none, none) /\ ToldUpTo(none, none, 0)
      BY <1>1, <3>2 DEF PendingOf, ToldUpTo
    <3>6. BufferInv(b, none, none)
      BY <3>3, <3>4, <3>5 DEF BufferInv
    <3>7. q # <<>> => q[1].receiveBuffer = b
      BY <2>2, <2>3 DEF b
    <3> QED BY <1>1, <3>6, <3>7 DEF HearInv, q
  <2> QED BY <2>6, <2>7
<1>7. ASSUME NEW x \in Endpoints
      PROVE  /\ Told(events[x]) /\ IsSeq(queued[x]) /\ Len(queued[x]) <= MaxMessages[x]
             /\ \E g : WayInv(x, ss[x], ss[Peer(x)], net, events[Peer(x)], Len(queued[x]), g)
  <2> DEFINE s == ss[x]
             r == ss[Peer(x)]
  <2>1. Peer(x) \in Endpoints
    BY PeerIs
  <2>2. s = NewSession(x) /\ r = NewSession(Peer(x))
    BY <1>3, <2>1
  <2> HIDE DEF s, r
  <2>3. SendInv(s, h, 0) /\ HearInv(r, none, h.ids)
    BY <1>2, <1>6, <2>1, <2>2
  <2>4. s.mSentChunks = none
    BY <2>2 DEF NewSession, none
  <2>5. ChunksOf(s.mSentChunks, h.ids) /\ Carries(x, {}, h.ids) /\ Len(h.ids) <= 0
    BY <1>1, <1>2, <2>4 DEF ChunksOf, Carries
  <2>6. WayInv(x, s, r, {}, none, 0, h)
    BY <1>5, <2>3, <2>5 DEF WayInv
  <2>7. events[Peer(x)] = none /\ Len(queued[x]) = 0 /\ net = {}
    BY <1>1, <1>3, <2>1
  <2>8. WayInv(x, ss[x], ss[Peer(x)], net, events[Peer(x)], Len(queued[x]), h)
    BY <2>6, <2>7 DEF s, r
  <2>9. Len(queued[x]) <= MaxMessages[x]
    BY <2>7 DEF OneStream, FewMessages
  <2> QED BY <1>1, <1>3, <1>5, <2>8, <2>9
<1> QED BY <1>3, <1>7 DEF OrderInv

\* The invariant says what InOrderOnce says.
LEMMA OrderInvSuffices == OrderInv => InOrderOnce
<1> SUFFICES ASSUME OrderInv, NEW e \in Endpoints, NEW i \in DOMAIN events[e],
                    NEW j \in DOMAIN events[e], i < j, IsMessage(events[e][i]),
                    IsMessage(events[e][j])
             PROVE  MessageId(events[e][i]) < MessageId(events[e][j])
  BY DEF InOrderOnce
<1> DEFINE ev == events[e]
<1>1. Told(ev) /\ IsSeq(ev)
  BY DEF OrderInv, Told
<1>2. DOMAIN ev = 1..Len(ev)
  BY <1>1, SeqIs
<1> HIDE DEF ev
<1>3. i \in 1..Len(ev) /\ j \in 1..Len(ev) /\ IsMessage(ev[i]) /\ IsMessage(ev[j])
  BY <1>2 DEF ev
<1>4. MessageId(ev[i]) < MessageId(ev[j])
  BY <1>1, <1>3 DEF Told
<1> QED BY <1>4 DEF ev

\* A listener is told the peer's messages in the order in which the application gave them to
\* sendDataChannelMessage, and none twice: fragments that are lost, sent again and overtake
\* each other, an INIT or an OPEN that comes late, messages that wait for the window and
\* others that wait for the channel to open change nothing of it.  It holds for one channel
\* whose messages have one size, because send() lets a smaller message overtake a larger one
\* that waits; for fewer messages than there are SSNs, 2^16 in the code, because a fragment
\* that is later than that is taken for one of a new message; and as long as no stream is
\* reset, which takes away a channel with its receive buffer.
THEOREM DeliveredInOrder == OneStream => (Spec => []InOrderOnce)
<1>1. Spec => []SctpInv
  BY SessionInvariant
<1>2. ASSUME OneStream PROVE Spec /\ []SctpInv => []OrderInv
  <2>1. Init => OrderInv
    BY <1>2, OrderInvInit
  <2>2. SctpInv /\ SctpInv' /\ OrderInv /\ [Next]_vars => OrderInv'
    BY <1>2, OrderInvNext
  <2> QED BY <2>1, <2>2, PTL DEF Spec
<1>3. OneStream => (Spec /\ []SctpInv => []OrderInv)
  BY <1>2
<1> QED BY <1>1, <1>3, OrderInvSuffices, PTL

=============================================================================
