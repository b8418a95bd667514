--------------------------- MODULE SchedulerProofs ---------------------------
(***************************************************************************)
(* Proofs about the schedulers: a cancelled task does not run, a scope     *)
(* that is gone has no tasks left, and no wakeup is missed.                *)
(***************************************************************************)
EXTENDS Scheduler, SequenceLemmas

-----------------------------------------------------------------------------
\* The inductive invariant.

Tasks == 1 .. made
TaskType == [when : Nat, by : Threads, scoped : BOOLEAN]

\* What each variable is.
TypeOK ==
    /\ kind \in {"thread", "loop"} /\ now \in Nat /\ made \in 0 .. MaxTasks
    /\ task \in [1 .. MaxTasks -> TaskType \cup {<<>>}]
    /\ \A t \in Tasks : task[t] \in TaskType
    /\ queue \in Seq(Tasks)
    /\ worker \in {"top", "asleep", "due", "running", "ended"}
    /\ sleep \in [head : Nat, until : Nat]
    /\ running \in 0 .. made /\ completed \subseteq Tasks
    /\ pc \in [Threads -> {"idle", "notify", "cancel", "forget", "close"}]
    /\ target \in [Threads -> 0 .. made]
    /\ waiters \subseteq Threads
    /\ scope \in [alive : BOOLEAN, submitted : SUBSET Tasks, holder : SUBSET Threads]
    /\ quit \in BOOLEAN /\ cancelled \subseteq Tasks /\ replaced \subseteq Tasks

Unique(q) == \A i, j \in 1 .. Len(q) : i # j => q[i] # q[j]
Sorted(q, tasks) == \A i, j \in 1 .. Len(q) : i < j => tasks[q[i]].when <= tasks[q[j]].when

\* The queue is sorted and holds a task once, and a task is in one place only: the
\* queue, Worker's hands, or among those that are done with.
QueueInv ==
    /\ Unique(queue) /\ Sorted(queue, task)
    /\ \A t \in Range(queue) : t # running /\ t \notin completed /\ t \notin cancelled
    /\ running \notin completed
    /\ kind = "thread" => running \notin cancelled

\* Where Worker is when it holds no task, and when it is busy as a caller.
WorkerInv ==
    /\ kind = "thread" => worker # "due"
    /\ worker \in {"asleep", "due", "ended"} => running = 0
    /\ kind = "loop" /\ worker = "top" => running = 0
    /\ pc[Worker] # "idle" => worker \in (IF kind = "thread" THEN {"running"} ELSE {"top", "running"})

\* A thread that waits in cancelImpl waits for a task of its own that Worker runs or
\* has completed, and only until it is completed, or it is stranded: that takes a
\* task that was updated, and the scope never waits for one.
CancelInv ==
    /\ kind = "loop" => ~quit
    /\ \A c \in Threads : pc[c] = "cancel" =>
         /\ kind = "thread" /\ c \in Clients /\ target[c] \in Tasks
         /\ task[target[c]].by = c
         /\ target[c] \notin Range(queue)
         /\ target[c] = running \/ target[c] \in completed \/ Stranded(c)
    /\ \A c \in Threads : pc[c] # "cancel" => target[c] = 0
    /\ \A c \in waiters :
         \/ c = Worker /\ kind = "thread" /\ worker = "asleep"
         \/ pc[c] = "cancel" /\ target[c] \notin completed
    /\ \A c \in Clients : quit \/ kind = "loop" => pc[c] = "idle"
    /\ pc[Worker] \in (IF kind = "thread" THEN {"idle", "notify"} ELSE {"idle", "forget", "close"})

\* Who holds the scope's mutex and why; every scoped task that can still run is one
\* the scope knows, but for one that was updated while it ran.
ScopeInv ==
    /\ \A c \in scope.holder :
         /\ scope.holder = {c}
         /\ pc[c] \in (IF scope.alive THEN {"notify"} ELSE {"close", "cancel"})
         /\ kind = "thread" => c = ScopeUser
    /\ \A c \in Threads : pc[c] = "close" => c \in scope.holder /\ ~scope.alive
    /\ ~scope.alive /\ ScopeFree => scope.submitted = {}
    /\ \A t \in scope.submitted : task[t].scoped /\ t \notin replaced
    /\ \A t \in Tasks : task[t].scoped /\ kind = "thread" => task[t].by = ScopeUser
    /\ \A t \in Tasks :
         /\ task[t].scoped
         /\ \/ t \in Range(queue)
            \/ kind = "thread" /\ running = t /\ worker = "running" /\ t \notin replaced
         => t \in scope.submitted

\* The task that Worker sleeps on is still queued unless it was cancelled or updated.
\* A sleep ends in time for every task, or somebody is about to end it, or a stranded
\* canceller is there to take the notification.
SleepInv ==
    /\ kind = "thread" /\ worker # "asleep" => sleep.head = 0
    /\ worker = "asleep" /\ kind = "thread" /\ sleep.head # 0 =>
         /\ sleep.head \in Tasks /\ sleep.until = task[sleep.head].when
         /\ sleep.head \in Range(queue) \cup cancelled \cup replaced
         /\ sleep.head \notin completed
    /\ worker = "asleep" /\ (kind = "thread" => Worker \in waiters) =>
         \/ sleep.until <= now
         \/ \A t \in Range(queue) : sleep.until <= task[t].when
         \/ \E c \in Threads : pc[c] = "notify" \/ Stranded(c)

SchedulerInv == TypeOK /\ QueueInv /\ WorkerInv /\ CancelInv /\ ScopeInv /\ SleepInv

-----------------------------------------------------------------------------
\* The queue.

\* std::find and erase: exactly the task is gone, and the order is kept.
LEMMA EraseIs ==
    ASSUME NEW S, NEW q \in Seq(S), NEW tasks, NEW t, Unique(q), Sorted(q, tasks)
    PROVE  LET r == RemoveFirst(q, t)
           IN /\ r \in Seq(S) /\ Unique(r) /\ Sorted(r, tasks)
              /\ \A x : x \in Range(r) <=> x \in Range(q) /\ x # t
<1> DEFINE r == RemoveFirst(q, t)
<1>1. CASE t \notin Range(q) /\ r = q
  BY <1>1
<1>2. ASSUME NEW k \in 1 .. Len(q), q[k] = t, r = RemoveAt(q, k)
      PROVE  /\ r \in Seq(S) /\ Unique(r) /\ Sorted(r, tasks)
             /\ \A x : x \in Range(r) <=> x \in Range(q) /\ x # t
  <2> HIDE DEF r
  <2>0. Len(q) \in Nat
    BY LenProperties
  <2>1. /\ r \in Seq(S) /\ Len(r) = Len(q) - 1
        /\ \A j \in 1 .. Len(q) - 1 : r[j] = IF j < k THEN q[j] ELSE q[j + 1]
    BY <1>2, RemoveAtIs, Zenon
  <2> USE <2>0
  <2>2. Unique(r)
    <3> SUFFICES ASSUME NEW i \in 1 .. Len(r), NEW j \in 1 .. Len(r), i # j
                 PROVE  r[i] # r[j]
      BY DEF Unique
    <3>1. /\ {i, i + 1, j, j + 1} \subseteq 1 .. Len(q)
          /\ r[i] = IF i < k THEN q[i] ELSE q[i + 1]
          /\ r[j] = IF j < k THEN q[j] ELSE q[j + 1]
      BY <2>1
    <3> QED BY <2>1, <3>1 DEF Unique
  <2>3. Sorted(r, tasks)
    <3> SUFFICES ASSUME NEW i \in 1 .. Len(r), NEW j \in 1 .. Len(r), i < j
                 PROVE  tasks[r[i]].when <= tasks[r[j]].when
      BY DEF Sorted
    <3>1. /\ {i, i + 1, j, j + 1} \subseteq 1 .. Len(q)
          /\ r[i] = IF i < k THEN q[i] ELSE q[i + 1]
          /\ r[j] = IF j < k THEN q[j] ELSE q[j + 1]
      BY <2>1
    <3> DEFINE a == IF i < k THEN i ELSE i + 1
               b == IF j < k THEN j ELSE j + 1
    <3>2. a \in 1 .. Len(q) /\ b \in 1 .. Len(q) /\ a < b /\ r[i] = q[a] /\ r[j] = q[b]
      BY <2>1, <3>1
    <3> HIDE DEF a, b
    <3> QED BY <3>2 DEF Sorted
  <2>4. ASSUME NEW x, x \in Range(r) PROVE x \in Range(q) /\ x # t
    <3>1. PICK j \in 1 .. Len(q) - 1 : r[j] = x
      BY <2>1, <2>4, RangeIs
    <3>2. PICK i \in 1 .. Len(q) : i # k /\ q[i] = x
      <4>1. {j, j + 1} \subseteq 1 .. Len(q) /\ r[j] = IF j < k THEN q[j] ELSE q[j + 1]
        BY <2>1, <3>1
      <4> QED BY <3>1, <4>1
    <3> QED BY <1>2, <3>2, RangeIs DEF Unique
  <2>5. ASSUME NEW x, x \in Range(q), x # t PROVE x \in Range(r)
    <3>1. PICK j \in 1 .. Len(q) : q[j] = x
      BY <2>5, RangeIs
    <3>2. CASE j < k
      <4>1. j \in 1 .. Len(r) /\ r[j] = x
        BY <2>1, <3>1, <3>2
      <4> QED BY <2>1, <4>1, RangeIs
    <3>3. CASE j > k
      <4>1. j - 1 \in 1 .. Len(r) /\ r[j - 1] = x
        BY <2>1, <3>1, <3>3
      <4> QED BY <2>1, <4>1, RangeIs
    <3> QED BY <1>2, <2>1, <2>5, <3>1, <3>2, <3>3
  <2> QED BY <2>1, <2>2, <2>3, <2>4, <2>5
<1>3. (t \notin Range(q) /\ r = q) \/ \E k \in 1 .. Len(q) : q[k] = t /\ r = RemoveAt(q, k)
  BY RemoveFirstIs
<1> QED BY <1>1, <1>2, <1>3

\* Insertion at upper_bound: exactly the task is new, and the order is kept.
LEMMA InsertIs ==
    ASSUME TypeOK, NEW q \in Seq(Tasks), Unique(q), Sorted(q, task), NEW when \in Nat,
           NEW tasks, made + 1 <= MaxTasks,
           \A t \in Tasks : tasks[t] = task[t], tasks[made + 1].when = when
    PROVE  LET r == Insert(q, made + 1, when)
           IN /\ r \in Seq(1 .. made + 1) /\ Unique(r) /\ Sorted(r, tasks)
              /\ \A x : x \in Range(r) <=> x \in Range(q) \/ x = made + 1
<1> DEFINE I == {i \in 1 .. Len(q) : task[q[i]].when > when}
           J == I \cup {Len(q) + 1}
           k == Min(J)
           r == Insert(q, made + 1, when)
<1>0. Len(q) \in Nat /\ made \in Nat /\ \A i \in 1 .. Len(q) : q[i] \in Tasks
  BY LenProperties, ElementOfSeq DEF TypeOK
<1>1. k \in J /\ \A i \in J : k <= i
  <2>1. J \in SUBSET Nat /\ J # {}
    BY <1>0
  <2> QED BY <2>1, MinOfNats
<1>2. k \in 1 .. Len(q) + 1 /\ r = InsertAt(q, k, made + 1)
  BY <1>0, <1>1 DEF Insert, UpperBound
<1> HIDE DEF k, r
<1>3. \A i \in 1 .. Len(q) : task[q[i]].when \in Nat
  BY <1>0 DEF TypeOK, TaskType
<1>4. \A i \in 1 .. Len(q) : i < k => task[q[i]].when <= when
  BY <1>0, <1>1, <1>2, <1>3
<1>5. \A i \in 1 .. Len(q) : k <= i => when <= task[q[i]].when
  <2>1. CASE k = Len(q) + 1
    BY <1>0, <2>1
  <2>2. CASE k \in I
    BY <1>0, <1>2, <1>3, <2>2 DEF Sorted
  <2> QED BY <1>1, <2>1, <2>2
<1>6. q \in Seq(1 .. made + 1)
  <2>1. Tasks \subseteq 1 .. made + 1
    BY <1>0 DEF Tasks
  <2> QED BY <2>1, SeqMonotonic
<1>7. /\ r \in Seq(1 .. made + 1) /\ Len(r) = Len(q) + 1
      /\ \A j \in 1 .. Len(q) + 1 :
           r[j] = IF j < k THEN q[j] ELSE IF j = k THEN made + 1 ELSE q[j - 1]
  <2>1. made + 1 \in 1 .. made + 1
    BY <1>0
  <2> DEFINE n == InsertAt(q, k, made + 1)
  <2>2. /\ n \in Seq(1 .. made + 1) /\ Len(n) = Len(q) + 1
        /\ \A j \in 1 .. Len(q) + 1 :
             n[j] = IF j < k THEN q[j] ELSE IF j = k THEN made + 1 ELSE q[j - 1]
    <3>1. k \in 1 .. Len(q) + 1
      BY <1>2
    <3>2. ASSUME NEW S, NEW e \in S, q \in Seq(S)
          PROVE  /\ InsertAt(q, k, e) \in Seq(S) /\ Len(InsertAt(q, k, e)) = Len(q) + 1
                 /\ \A j \in 1 .. Len(q) + 1 : InsertAt(q, k, e)[j] =
                      IF j < k THEN q[j] ELSE IF j = k THEN e ELSE q[j - 1]
      BY <3>1, <3>2, InsertAtIs
    <3> QED BY <2>1, <3>2, <1>6
  <2> QED BY <1>2, <2>2
<1>8. \A i \in 1 .. Len(q) : q[i] # made + 1 /\ tasks[q[i]] = task[q[i]]
  BY <1>0 DEF Tasks
<1>9. ASSUME NEW j \in 1 .. Len(q) + 1
      PROVE  \/ j < k /\ j \in 1 .. Len(q) /\ r[j] = q[j]
             \/ j = k /\ r[j] = made + 1
             \/ j > k /\ j - 1 \in 1 .. Len(q) /\ r[j] = q[j - 1]
  <2>1. r[j] = IF j < k THEN q[j] ELSE IF j = k THEN made + 1 ELSE q[j - 1]
    BY <1>7
  <2>2. j < k \/ j = k \/ j > k
    BY <1>0, <1>2
  <2>3. (j < k => j \in 1 .. Len(q)) /\ (j > k => j - 1 \in 1 .. Len(q) /\ ~(j < k) /\ j # k)
    BY <1>0, <1>2
  <2>4. j = k => ~(j < k)
    BY <1>0, <1>2
  <2> QED BY <2>1, <2>2, <2>3, <2>4, Zenon
<1>10. Unique(r) /\ Sorted(r, tasks)
  <2> SUFFICES ASSUME NEW i \in 1 .. Len(r), NEW j \in 1 .. Len(r), i < j
               PROVE  r[i] # r[j] /\ tasks[r[i]].when <= tasks[r[j]].when
    <3>1. \A i, j \in 1 .. Len(r) : i # j => i < j \/ j < i
      BY <1>0, <1>7
    <3> QED BY <3>1 DEF Unique, Sorted
  <2>0. /\ i \in 1 .. Len(q) + 1 /\ j \in 1 .. Len(q) + 1
        /\ i \in Nat /\ j \in Nat /\ k \in Nat
    BY <1>0, <1>2, <1>7
  <2>1. CASE i < k /\ j < k
    <3>1. /\ i \in 1 .. Len(q) /\ j \in 1 .. Len(q)
          /\ r[i] = q[i] /\ r[j] = q[j]
      BY <1>9, <2>0, <2>1
    <3> QED BY <1>8, <3>1, <2>0 DEF Unique, Sorted
  <2>2. CASE i < k /\ j = k
    <3>1. i \in 1 .. Len(q) /\ r[i] = q[i] /\ r[j] = made + 1
      BY <1>9, <2>0, <2>2
    <3>2. /\ task[q[i]].when <= when /\ q[i] # made + 1 /\ tasks[q[i]] = task[q[i]]
      BY <1>4, <1>8, <2>2, <3>1
    <3> QED BY <3>1, <3>2
  <2>3. CASE i < k /\ j > k
    <3>1. /\ i \in 1 .. Len(q) /\ j - 1 \in 1 .. Len(q) /\ i < j - 1
          /\ r[i] = q[i] /\ r[j] = q[j - 1]
      BY <1>0, <1>2, <1>9, <2>0, <2>3
    <3> QED BY <1>8, <3>1 DEF Unique, Sorted
  <2>4. CASE i = k /\ j > k
    <3>1. j - 1 \in 1 .. Len(q) /\ r[j] = q[j - 1] /\ r[i] = made + 1 /\ k <= j - 1
      BY <1>9, <2>0, <2>4
    <3>2. /\ when <= task[q[j - 1]].when /\ q[j - 1] # made + 1
          /\ tasks[q[j - 1]] = task[q[j - 1]]
      BY <1>5, <1>8, <3>1
    <3> QED BY <3>1, <3>2
  <2>5. CASE i > k
    <3>0. i - 1 < j - 1 /\ j > k
      BY <2>0, <2>5
    <3>1. /\ i - 1 \in 1 .. Len(q) /\ j - 1 \in 1 .. Len(q)
          /\ r[i] = q[i - 1] /\ r[j] = q[j - 1]
      BY <1>9, <2>0, <2>5, <3>0
    <3> QED BY <1>8, <2>0, <3>0, <3>1 DEF Unique, Sorted
  <2> QED BY <2>0, <2>1, <2>2, <2>3, <2>4, <2>5
<1>11. ASSUME NEW x, x \in Range(r) PROVE x \in Range(q) \/ x = made + 1
  <2>1. PICK j \in 1 .. Len(q) + 1 : r[j] = x
    BY <1>7, <1>11, RangeIs
  <2> QED BY <1>9, <2>1, RangeIs
<1>12. ASSUME NEW x, x \in Range(q) PROVE x \in Range(r)
  <2>1. PICK j \in 1 .. Len(q) : q[j] = x
    BY <1>12, RangeIs
  <2>2. CASE j < k
    <3>1. j \in 1 .. Len(r) /\ r[j] = x
      BY <1>0, <1>7, <2>1, <2>2
    <3> QED BY <1>7, <3>1, RangeIs
  <2>3. CASE k <= j
    <3>1. j + 1 \in 1 .. Len(q) + 1 /\ j + 1 > k /\ (j + 1) - 1 = j
      BY <1>0, <1>2, <2>1, <2>3
    <3>2. r[j + 1] = q[(j + 1) - 1]
      BY <1>0, <1>2, <1>9, <3>1
    <3>3. j + 1 \in 1 .. Len(r) /\ r[j + 1] = x
      BY <1>7, <2>1, <3>1, <3>2
    <3> QED BY <1>7, <3>3, RangeIs
  <2> QED BY <1>0, <1>2, <2>1, <2>2, <2>3
<1>13. made + 1 \in Range(r)
  <2>1. k \in 1 .. Len(r) /\ r[k] = made + 1
    BY <1>0, <1>2, <1>7
  <2> QED BY <1>7, <2>1, RangeIs
<1> QED BY <1>7, <1>10, <1>11, <1>12, <1>13 DEF r

\* The head is the task that is due first; without it the order is kept.
LEMMA TailIs ==
    ASSUME NEW S, NEW q \in Seq(S), q # <<>>, NEW tasks, Unique(q), Sorted(q, tasks),
           \A t \in S : tasks[t].when \in Nat
    PROVE  /\ Head(q) \in S /\ Head(q) \in Range(q)
           /\ \A t \in Range(q) : tasks[Head(q)].when <= tasks[t].when
           /\ Tail(q) \in Seq(S) /\ Unique(Tail(q)) /\ Sorted(Tail(q), tasks)
           /\ \A x : x \in Range(Tail(q)) <=> x \in Range(q) /\ x # Head(q)
<1> DEFINE r == Tail(q)
<1>1. /\ Len(q) \in Nat \ {0} /\ Head(q) = q[1] /\ 1 \in 1 .. Len(q)
      /\ \A i \in 1 .. Len(q) : q[i] \in S
  BY LenProperties, EmptySeq, ElementOfSeq
<1>2. /\ r \in Seq(S) /\ Len(r) = Len(q) - 1
      /\ \A i \in 1 .. Len(q) - 1 : r[i] = q[i + 1]
  BY HeadTailProperties
<1> HIDE DEF r
<1>3. Unique(r) /\ Sorted(r, tasks)
  <2>1. \A i \in 1 .. Len(r) : i + 1 \in 1 .. Len(q) /\ r[i] = q[i + 1]
    BY <1>1, <1>2
  <2>2. \A i, j \in 1 .. Len(r) : (i # j => i + 1 # j + 1) /\ (i < j => i + 1 < j + 1)
    BY <1>1, <1>2
  <2>3. Unique(r)
    BY <2>1, <2>2 DEF Unique
  <2>4. Sorted(r, tasks)
    BY <2>1, <2>2 DEF Sorted
  <2> QED BY <2>3, <2>4
<1>4. Head(q) \in Range(q)
  BY <1>1, RangeIs
<1>5. ASSUME NEW t \in Range(q) PROVE tasks[Head(q)].when <= tasks[t].when
  <2>1. PICK i \in 1 .. Len(q) : q[i] = t
    BY RangeIs
  <2> QED BY <1>1, <2>1 DEF Sorted
<1>6. ASSUME NEW x, x \in Range(r) PROVE x \in Range(q) /\ x # Head(q)
  <2>1. PICK i \in 1 .. Len(q) - 1 : r[i] = x
    BY <1>2, <1>6, RangeIs
  <2>2. i + 1 \in 1 .. Len(q) /\ q[i + 1] = x
    BY <1>1, <1>2, <2>1
  <2> QED BY <1>1, <2>2, RangeIs DEF Unique
<1>7. ASSUME NEW x, x \in Range(q), x # Head(q) PROVE x \in Range(r)
  <2>1. PICK i \in 1 .. Len(q) : q[i] = x
    BY <1>7, RangeIs
  <2>2. i - 1 \in 1 .. Len(r) /\ r[i - 1] = x
    BY <1>1, <1>2, <1>7, <2>1
  <2> QED BY <1>2, <2>2, RangeIs
<1> QED BY <1>1, <1>2, <1>3, <1>4, <1>5, <1>6, <1>7 DEF r

-----------------------------------------------------------------------------
\* The invariant is kept.

\* A scheduler that has just been made has nothing queued and nobody waiting.
LEMMA InvInit == Init => SchedulerInv
<1> SUFFICES ASSUME Init PROVE SchedulerInv
  OBVIOUS
<1> USE DEF Init
<1>1. TypeOK
  <2>1. made \in 0 .. MaxTasks /\ running \in 0 .. made /\ 0 \in 0 .. made
    BY SchedulerAssumption
  <2>2. queue \in Seq(Tasks)
    BY EmptySeq
  <2>3. task \in [1 .. MaxTasks -> TaskType \cup {<<>>}]
    BY Zenon
  <2>4. \A t \in Tasks : task[t] \in TaskType
    BY DEF Tasks
  <2>5. pc \in [Threads -> {"idle", "notify", "cancel", "forget", "close"}]
    BY Zenon
  <2>6. target \in [Threads -> 0 .. made]
    BY <2>1, Zenon
  <2>7. scope \in [alive : BOOLEAN, submitted : SUBSET Tasks, holder : SUBSET Threads]
    BY Zenon
  <2>8. sleep \in [head : Nat, until : Nat]
    BY DEF NoSleep
  <2> QED BY <2>1, <2>2, <2>3, <2>4, <2>5, <2>6, <2>7, <2>8 DEF TypeOK
<1>2. Range(queue) = {} /\ Len(queue) = 0
  BY DEF Range
<1>3. QueueInv
  BY <1>2 DEF QueueInv, Unique, Sorted
<1>4. WorkerInv
  BY <1>2 DEF WorkerInv, Threads
<1>5. CancelInv
  BY <1>2 DEF CancelInv, Stranded, Threads
<1>6. ScopeInv
  BY <1>2 DEF ScopeInv, ScopeFree, Tasks
<1>7. SleepInv
  BY <1>2 DEF SleepInv, Stranded, NoSleep
<1> QED BY <1>1, <1>3, <1>4, <1>5, <1>6, <1>7 DEF SchedulerInv

\* What is in the queue is a task with a time.
LEMMA QueuedAreTasks ==
    ASSUME TypeOK
    PROVE  /\ \A t \in Range(queue) : t \in Tasks /\ t # 0
           /\ \A t \in Tasks : task[t].when \in Nat
<1>1. \A t \in Range(queue) : t \in Tasks
  BY RangeIs, ElementOfSeq DEF TypeOK
<1> QED BY <1>1 DEF TypeOK, TaskType, Tasks

\* While Worker sleeps nobody waits for a task that runs, so that notify_one wakes
\* Worker unless somebody is stranded.
LEMMA NotifyOneWakesWorker ==
    ASSUME SchedulerInv, worker = "asleep", NEW left \in NotifyOne
    PROVE  left = {} \/ \E c \in Threads : Stranded(c)
<1>1. \A c \in waiters : c = Worker \/ (c \in Threads /\ Stranded(c))
  <2> SUFFICES ASSUME NEW c \in waiters, c # Worker PROVE c \in Threads /\ Stranded(c)
    OBVIOUS
  <2>1. c \in Threads /\ pc[c] = "cancel" /\ target[c] \notin completed
    BY DEF SchedulerInv, CancelInv, TypeOK
  <2>2. running = 0 /\ target[c] # 0
    BY <2>1 DEF SchedulerInv, CancelInv, WorkerInv, Tasks
  <2> QED BY <2>1, <2>2 DEF SchedulerInv, CancelInv
<1> QED BY <1>1 DEF NotifyOne

\* notify_one at the end of submit, after the mutex is unlocked.
LEMMA NotifyStep ==
    ASSUME SchedulerInv, NEW c \in Threads, notify(c)
    PROVE  SchedulerInv'
<1> USE DEF SchedulerInv, notify
<1>1. TypeOK'
  <2>1. waiters' \subseteq Threads
    BY DEF TypeOK, NotifyOne
  <2>2. pc' \in [Threads -> {"idle", "notify", "cancel", "forget", "close"}]
    BY DEF TypeOK
  <2>3. scope' \in [alive : BOOLEAN, submitted : SUBSET Tasks, holder : SUBSET Threads]
    BY DEF TypeOK
  <2> QED BY <2>1, <2>2, <2>3 DEF TypeOK, Tasks
<1>2. QueueInv'
  BY DEF QueueInv
<1>3. WorkerInv'
  BY DEF WorkerInv, TypeOK, Threads
<1>4. CancelInv'
  BY DEF CancelInv, Stranded, TypeOK, Threads, NotifyOne, Tasks
<1>5. ScopeInv'
  BY DEF ScopeInv, ScopeFree, TypeOK, Threads, Tasks
<1>6. SleepInv'
  <2> SUFFICES ASSUME worker = "asleep" PROVE SleepInv'
    BY DEF SleepInv, Stranded
  <2>1. kind = "thread" /\ (waiters' = {} \/ \E d \in Threads : Stranded(d))
    BY NotifyOneWakesWorker DEF CancelInv, TypeOK, Threads
  <2>2. \A d \in Threads : Stranded(d) => Stranded(d)'
    BY DEF Stranded, TypeOK
  <2> QED BY <2>1, <2>2 DEF SleepInv, Tasks
<1> QED BY <1>1, <1>2, <1>3, <1>4, <1>5, <1>6

\* The end of ScopedScheduler::cancelImpl: the scope forgets the task.
LEMMA ForgetStep ==
    ASSUME SchedulerInv, NEW c \in Threads, forget(c)
    PROVE  SchedulerInv'
<1> USE DEF SchedulerInv, forget
<1>1. TypeOK'
  BY DEF TypeOK, Tasks
<1>2. QueueInv'
  BY DEF QueueInv
<1>3. WorkerInv'
  BY DEF WorkerInv, TypeOK, Threads
<1>4. CancelInv'
  BY DEF CancelInv, Stranded, TypeOK, Threads, Tasks
<1>5. ScopeInv'
  BY DEF ScopeInv, QueueInv, ScopeFree, TypeOK, Threads, Tasks
<1>6. SleepInv'
  BY DEF SleepInv, Stranded, TypeOK, Threads, Tasks
<1> QED BY <1>1, <1>2, <1>3, <1>4, <1>5, <1>6

\* ~ScopedScheduler takes the scope's mutex and begins to cancel.
LEMMA DestroyScopeStep ==
    ASSUME SchedulerInv, NEW c \in Threads, destroyScope(c)
    PROVE  SchedulerInv'
<1> USE DEF SchedulerInv, destroyScope, MayCall, UsesScope
<1>1. TypeOK'
  BY DEF TypeOK, Tasks
<1>2. QueueInv'
  BY DEF QueueInv
<1>3. WorkerInv'
  BY SchedulerAssumption DEF WorkerInv, TypeOK, Threads
<1>4. CancelInv'
  BY SchedulerAssumption DEF CancelInv, Stranded, TypeOK, Threads, Tasks
<1>5. ScopeInv'
  BY DEF ScopeInv, ScopeFree, TypeOK, Threads, Tasks
<1>6. SleepInv'
  BY DEF SleepInv, Stranded, TypeOK, Threads, Tasks
<1> QED BY <1>1, <1>2, <1>3, <1>4, <1>5, <1>6

\* ~ThreadScheduler, when nobody uses it any more.
LEMMA DestroySchedulerStep ==
    ASSUME SchedulerInv, destroyScheduler
    PROVE  SchedulerInv'
<1> USE DEF SchedulerInv, destroyScheduler
<1>1. TypeOK'
  BY DEF TypeOK, Tasks, NotifyOne
<1>2. QueueInv'
  BY DEF QueueInv
<1>3. WorkerInv'
  BY DEF WorkerInv, TypeOK, Threads
<1>4. CancelInv'
  BY DEF CancelInv, Stranded, TypeOK, Threads, Tasks, NotifyOne
<1>5. ScopeInv'
  BY DEF ScopeInv, ScopeFree, TypeOK, Threads, Tasks
<1>6. SleepInv'
  <2>1. \A d \in Threads : Stranded(d) => Stranded(d)'
    BY DEF Stranded
  <2>2. waiters' = {} \/ (\E d \in Threads : Stranded(d)) \/ worker # "asleep"
    BY NotifyOneWakesWorker
  <2> QED BY <2>1, <2>2 DEF SleepInv, Tasks
<1> QED BY <1>1, <1>2, <1>3, <1>4, <1>5, <1>6

\* The event loop's sleep is over.
LEMMA LoopWakesStep ==
    ASSUME SchedulerInv, loopWakes
    PROVE  SchedulerInv'
<1> USE DEF SchedulerInv, loopWakes
<1>1. TypeOK'
  BY DEF TypeOK, Tasks, NoSleep
<1>2. QueueInv'
  BY DEF QueueInv
<1>3. WorkerInv'
  BY DEF WorkerInv, TypeOK, Threads
<1>4. CancelInv'
  BY DEF CancelInv, Stranded, TypeOK, Threads, Tasks
<1>5. ScopeInv'
  BY DEF ScopeInv, ScopeFree, TypeOK, Threads, Tasks
<1>6. SleepInv'
  BY DEF SleepInv, Stranded
<1> QED BY <1>1, <1>2, <1>3, <1>4, <1>5, <1>6

\* A task returns; the thread still holds it.
LEMMA TaskReturnsStep ==
    ASSUME SchedulerInv, taskReturns
    PROVE  SchedulerInv'
<1> USE DEF SchedulerInv, taskReturns
<1>1. TypeOK'
  BY DEF TypeOK, Tasks
<1>2. QueueInv'
  BY QueuedAreTasks DEF QueueInv, TypeOK, Tasks
<1>3. WorkerInv'
  BY DEF WorkerInv, TypeOK, Threads
<1>4. CancelInv'
  BY DEF CancelInv, Stranded, TypeOK, Threads, Tasks
<1>5. ScopeInv'
  BY DEF ScopeInv, ScopeFree, TypeOK, Threads, Tasks
<1>6. SleepInv'
  BY DEF SleepInv, Stranded
<1> QED BY <1>1, <1>2, <1>3, <1>4, <1>5, <1>6

\* Time passes.
LEMMA TickStep ==
    ASSUME SchedulerInv, Tick
    PROVE  SchedulerInv'
<1> USE DEF SchedulerInv, Tick
<1>1. TypeOK'
  BY DEF TypeOK, Tasks
<1>2. QueueInv'
  BY DEF QueueInv
<1>3. WorkerInv'
  BY DEF WorkerInv
<1>4. CancelInv'
  BY DEF CancelInv, Stranded, Tasks
<1>5. ScopeInv'
  BY DEF ScopeInv, ScopeFree, Tasks
<1>6. SleepInv'
  BY DEF SleepInv, Stranded, TypeOK, Tasks
<1> QED BY <1>1, <1>2, <1>3, <1>4, <1>5, <1>6

\* What Worker does when it takes the head of the queue.
LEMMA TakeIs ==
    ASSUME SchedulerInv, Due(queue), Take
    PROVE  /\ running' \in Tasks /\ running' \in Range(queue) /\ worker' = "running"
           /\ queue' \in Seq(Tasks) /\ Unique(queue') /\ Sorted(queue', task)
           /\ \A x : x \in Range(queue') <=> x \in Range(queue) /\ x # running'
<1>1. queue \in Seq(Tasks) /\ queue # <<>> /\ Unique(queue) /\ Sorted(queue, task)
  BY DEF SchedulerInv, TypeOK, QueueInv, Due
<1>2. \A t \in Tasks : task[t].when \in Nat
  BY QueuedAreTasks DEF SchedulerInv
<1> QED BY <1>1, <1>2, TailIs DEF Take

\* LoopScheduler::run takes the front task when it is due.
LEMMA LoopRunStep ==
    ASSUME SchedulerInv, loopRun
    PROVE  SchedulerInv'
<1> USE DEF SchedulerInv, loopRun
<1>1. CASE Due(queue)
  <2>0. Take
    BY <1>1
  <2> USE <1>1, <2>0, TakeIs
  <2>1. TypeOK'
    BY DEF TypeOK, Tasks
  <2>2. QueueInv'
    BY DEF QueueInv
  <2>3. WorkerInv'
    BY DEF WorkerInv, TypeOK, Threads
  <2>4. CancelInv'
    BY DEF CancelInv, Stranded, TypeOK, Threads, Tasks
  <2>5. ScopeInv'
    BY DEF ScopeInv, ScopeFree, TypeOK, Threads, Tasks
  <2>6. SleepInv'
    BY DEF SleepInv, Stranded
  <2> QED BY <2>1, <2>2, <2>3, <2>4, <2>5, <2>6
<1>2. CASE ~Due(queue)
  <2> USE <1>2
  <2>1. TypeOK'
    BY DEF TypeOK, Tasks
  <2>2. QueueInv'
    BY DEF QueueInv
  <2>3. WorkerInv'
    BY DEF WorkerInv, TypeOK, Threads
  <2>4. CancelInv'
    BY DEF CancelInv, Stranded, TypeOK, Threads, Tasks
  <2>5. ScopeInv'
    BY DEF ScopeInv, ScopeFree, TypeOK, Threads, Tasks
  <2>6. SleepInv'
    BY DEF SleepInv, Stranded
  <2> QED BY <2>1, <2>2, <2>3, <2>4, <2>5, <2>6
<1> QED BY <1>1, <1>2

\* A whole number of milliseconds, rounded down, is not too long.
LEMMA RoundedDown ==
    ASSUME NEW d \in Int
    PROVE  d \div Milli \in Int /\ (d \div Milli) * Milli <= d
BY SchedulerAssumption

\* The event loop sleeps for what getTimeoutMillis returned.
LEMMA LoopSleepStep ==
    ASSUME SchedulerInv, loopSleep
    PROVE  SchedulerInv'
<1> USE DEF SchedulerInv, loopSleep
<1>0. queue # <<>> =>
        /\ Head(queue) \in Tasks /\ task[Head(queue)].when \in Nat
        /\ \A t \in Range(queue) : task[Head(queue)].when <= task[t].when
  BY TailIs, QueuedAreTasks DEF TypeOK, QueueInv
<1> DEFINE when == task[Head(queue)].when
           millis == (when - now) \div Milli
<1>a. queue # <<>> =>
        /\ sleep'.until \in Nat /\ (sleep'.until <= now \/ sleep'.until <= when)
        /\ sleep' = [head |-> Head(queue), until |-> sleep'.until]
  <2> SUFFICES ASSUME queue # <<>>
               PROVE  /\ sleep'.until \in Nat /\ (sleep'.until <= now \/ sleep'.until <= when)
                      /\ sleep' = [head |-> Head(queue), until |-> sleep'.until]
    OBVIOUS
  <2>1. millis \in Int /\ millis * Milli <= when - now
    <3>1. when - now \in Int
      BY <1>0 DEF TypeOK
    <3> QED BY <3>1, RoundedDown, Zenon
  <2>2. millis > 0 => millis * Milli \in Nat
    <3> HIDE DEF millis
    <3>1. ASSUME NEW n \in Nat, NEW m \in Nat PROVE n * m \in Nat
      OBVIOUS
    <3> QED BY <2>1, <3>1, SchedulerAssumption
  <2> HIDE DEF millis, when
  <2>3. sleep' = [head |-> Head(queue),
                  until |-> IF millis <= 0 THEN now ELSE now + millis * Milli]
    BY DEF millis, when
  <2>4. now \in Nat /\ when \in Nat
    BY <1>0 DEF TypeOK, when
  <2> QED BY <2>1, <2>2, <2>3, <2>4
<1>b. queue = <<>> => sleep' = [head |-> 0, until |-> now + IdleWait] /\ now + IdleWait \in Nat
  BY SchedulerAssumption DEF TypeOK
<1> HIDE DEF millis, when
<1>1. TypeOK'
  <2>1. sleep' \in [head : Nat, until : Nat]
    <3>1. CASE queue = <<>>
      BY <1>b, <3>1
    <3>2. CASE queue # <<>>
      BY <1>0, <1>a, <3>2 DEF Tasks
    <3> QED BY <3>1, <3>2
  <2> QED BY <2>1 DEF TypeOK, Tasks
<1>2. QueueInv'
  BY DEF QueueInv
<1>3. WorkerInv'
  BY DEF WorkerInv, TypeOK, Threads
<1>4. CancelInv'
  BY DEF CancelInv, Stranded, TypeOK, Threads, Tasks
<1>5. ScopeInv'
  BY DEF ScopeInv, ScopeFree, TypeOK, Threads, Tasks
<1>6. SleepInv'
  <2>1. CASE queue = <<>>
    BY <2>1 DEF SleepInv, Stranded, Range
  <2>2. CASE queue # <<>>
    <3>1. /\ kind' = "loop" /\ now' = now /\ queue' = queue /\ task' = task
          /\ now \in Nat /\ \A t \in Range(queue) : task[t].when \in Nat
      BY QueuedAreTasks DEF TypeOK
    <3>2. sleep'.until <= now \/ \A t \in Range(queue) : sleep'.until <= task[t].when
      BY <1>0, <1>a, <2>2, <3>1 DEF when
    <3> QED BY <3>1, <3>2 DEF SleepInv, Stranded
  <2> QED BY <2>1, <2>2
<1> QED BY <1>1, <1>2, <1>3, <1>4, <1>5, <1>6

\* cancelImpl by a thread that may cancel the task keeps the invariant: it waits only
\* for the task that Worker holds.
LEMMA CancelImplStep ==
    ASSUME SchedulerInv, NEW c \in Threads, NEW t \in Tasks \ cancelled,
           NEW after, cancelImpl(c, t, after),
           \/ pc[c] = "close" /\ after = "close"
           \/ MayCall(c) /\ after \in {"idle", "forget"},
           kind = "thread" => c \in Clients /\ task[t].by = c,
           task[t].scoped => t \in scope.submitted,
           UNCHANGED <<kind, now, made, task, worker, sleep, running, completed, scope, quit,
                       replaced>>
    PROVE  SchedulerInv'
<1> DEFINE wait == kind = "thread" /\ ~InQueue(t) /\ ~Expired(t)
<1> USE DEF SchedulerInv
<1>1. /\ queue' = RemoveFirst(queue, t)
      /\ cancelled' = IF wait THEN cancelled ELSE cancelled \cup {t}
      /\ pc' = [pc EXCEPT ![c] = IF wait THEN "cancel" ELSE after]
      /\ target' = IF wait THEN [target EXCEPT ![c] = t] ELSE target
      /\ waiters' = IF wait THEN waiters \cup {c} ELSE waiters
  BY DEF cancelImpl
<1>2. /\ queue' \in Seq(Tasks) /\ Unique(queue') /\ Sorted(queue', task)
      /\ \A x : x \in Range(queue') <=> x \in Range(queue) /\ x # t
  BY <1>1, EraseIs DEF TypeOK, QueueInv
<1>3. pc[c] \in {"idle", "close"} /\ target[c] = 0 /\ t # 0 /\ after \in {"idle", "forget", "close"}
  BY DEF MayCall, CancelInv, Stranded, Tasks
<1>4. wait =>
        \/ t = running
        \/ /\ t = sleep.head /\ kind = "thread" /\ worker = "asleep" /\ t \in replaced
           /\ ~task[t].scoped /\ running = 0
  <2> SUFFICES ASSUME wait, t # running
               PROVE  /\ t = sleep.head /\ kind = "thread" /\ worker = "asleep" /\ t \in replaced
                      /\ ~task[t].scoped /\ running = 0
    OBVIOUS
  <2>1. \A d \in Threads : target[d] # t
    BY <1>3 DEF wait, CancelInv
  <2>2. t = sleep.head /\ kind = "thread" /\ worker = "asleep"
    BY <1>3, <2>1 DEF wait, Expired, SleepInv
  <2>3. t \in replaced
    BY <1>3, <2>2 DEF wait, InQueue, SleepInv
  <2>4. ~task[t].scoped
    BY <2>3 DEF ScopeInv
  <2> QED BY <2>2, <2>3, <2>4 DEF WorkerInv
<1>4a. wait => t \notin Range(queue) /\ t \notin completed
  BY <1>3, <1>4 DEF wait, InQueue, QueueInv, SleepInv
<1>5. ~wait /\ kind = "thread" => t # running
  BY DEF Expired, InQueue, QueueInv
<1> HIDE DEF wait
<1>6. TypeOK'
  <2>1. pc' \in [Threads -> {"idle", "notify", "cancel", "forget", "close"}]
    BY <1>1, <1>3 DEF TypeOK
  <2>2. target' \in [Threads -> 0 .. made] /\ waiters' \subseteq Threads
    BY <1>1 DEF TypeOK, Tasks
  <2>3. cancelled' \subseteq Tasks
    BY <1>1 DEF TypeOK
  <2> QED BY <1>2, <2>1, <2>2, <2>3 DEF TypeOK, Tasks
<1>7. QueueInv'
  BY <1>1, <1>2, <1>4, <1>5 DEF QueueInv
<1>8. WorkerInv'
  BY <1>1, <1>3, SchedulerAssumption DEF WorkerInv, MayCall, TypeOK, Threads
<1>9. kind = "loop" => c = Worker
  BY <1>3, SchedulerAssumption DEF MayCall, CancelInv, Stranded, Threads, TypeOK
<1>10. ~quit
  BY SchedulerAssumption DEF MayCall, CancelInv, Stranded, Threads, TypeOK
<1>11. wait => kind = "thread"
  BY DEF wait
<1>12. CancelInv'
  <2>1. /\ \A d \in Threads : d # c => pc'[d] = pc[d] /\ target'[d] = target[d]
        /\ pc'[c] = (IF wait THEN "cancel" ELSE after) /\ target'[c] = (IF wait THEN t ELSE 0)
    BY <1>1, <1>3 DEF TypeOK
  <2>2. \A d \in Threads : d # c /\ Stranded(d) => Stranded(d)'
    BY <2>1 DEF Stranded
  <2>3. wait => target'[c] = running \/ Stranded(c)'
    BY <1>4, <1>4a, <2>1 DEF Stranded
  <2>4. \A d \in Threads : pc'[d] = "cancel" =>
          /\ kind' = "thread" /\ d \in Clients /\ target'[d] \in Tasks'
          /\ task'[target'[d]].by = d
          /\ target'[d] \notin Range(queue')
          /\ target'[d] = running' \/ target'[d] \in completed' \/ Stranded(d)'
    <3> TAKE d \in Threads
    <3>1. CASE d = c
      BY <1>2, <1>3, <1>4a, <1>11, <2>1, <2>3, <3>1 DEF Tasks
    <3>2. CASE d # c
      BY <1>2, <2>1, <2>2, <3>2 DEF CancelInv, Tasks
    <3> QED BY <3>1, <3>2
  <2>5. /\ kind' = "loop" => ~quit'
        /\ \A d \in Threads : pc'[d] # "cancel" => target'[d] = 0
        /\ \A d \in Clients : quit' \/ kind' = "loop" => pc'[d] = "idle"
        /\ pc'[Worker] \in (IF kind' = "thread" THEN {"idle", "notify"} ELSE {"idle", "forget", "close"})
    BY <1>3, <1>9, <1>10, <1>11, <2>1, SchedulerAssumption DEF CancelInv, Threads
  <2>6. \A d \in waiters' :
         \/ d = Worker /\ kind' = "thread" /\ worker' = "asleep"
         \/ pc'[d] = "cancel" /\ target'[d] \notin completed'
    BY <1>1, <1>3, <1>4a, <2>1 DEF CancelInv, TypeOK
  <2> QED BY <2>4, <2>5, <2>6 DEF CancelInv
<1>13. ScopeInv'
  BY <1>1, <1>2, <1>3, <1>11 DEF ScopeInv, ScopeFree, TypeOK, Threads, Tasks, MayCall
<1>14. SleepInv'
  <2> SUFFICES ASSUME worker = "asleep" PROVE SleepInv'
    BY DEF SleepInv, Stranded
  <2>1. \A d \in Threads : (pc[d] = "notify" => pc'[d] = "notify") /\ (Stranded(d) => Stranded(d)')
    BY <1>1, <1>3 DEF TypeOK, Stranded
  <2>2. wait => Stranded(c)'
    BY <1>1, <1>3, <1>4, <1>4a DEF Stranded, WorkerInv, TypeOK
  <2>3. Worker \in waiters' => Worker \in waiters \/ \E d \in Threads : Stranded(d)'
    BY <1>1, <2>2
  <2>4. /\ kind = "thread" /\ sleep.head # 0 =>
             sleep.head \in Range(queue') \cup cancelled' \cup replaced
    BY <1>1, <1>2, <1>4a DEF SleepInv
  <2>5. \/ ~(kind = "thread" => Worker \in waiters')
        \/ sleep.until <= now
        \/ \A u \in Range(queue') : sleep.until <= task[u].when
        \/ \E d \in Threads : pc'[d] = "notify" \/ Stranded(d)'
    BY <1>2, <2>1, <2>3 DEF SleepInv
  <2> QED BY <2>4, <2>5 DEF SleepInv, Tasks
<1> QED BY <1>6, <1>7, <1>8, <1>12, <1>13, <1>14

\* Task::cancel.
LEMMA CancelStep ==
    ASSUME SchedulerInv, NEW c \in Threads, NEW t \in Tasks, cancel(c, t)
    PROVE  SchedulerInv'
<1>1. t \in Tasks \ cancelled /\ task[t].by = c /\ ~(kind = "thread" /\ c = Worker) /\ MayCall(c)
  BY DEF cancel, Handles, Tasks
<1>2. kind = "thread" => c \in Clients /\ task[t].by = c
  BY <1>1 DEF Threads
<1>3. CASE task[t].scoped
  <2>1. t \in scope.submitted
    BY <1>3 DEF cancel
  <2> QED BY <1>1, <1>2, <1>3, <2>1, CancelImplStep DEF cancel
<1>4. CASE ~task[t].scoped
  BY <1>1, <1>2, <1>4, CancelImplStep DEF cancel
<1> QED BY <1>3, <1>4

\* ~ScopedScheduler cancels the next task of its list.
LEMMA CloseNextStep ==
    ASSUME SchedulerInv, NEW c \in Threads, closeNext(c)
    PROVE  SchedulerInv'
<1> DEFINE left == {t \in scope.submitted : t \notin cancelled}
<1>0. pc[c] = "close" /\ c \in scope.holder /\ ~scope.alive
  BY DEF closeNext, SchedulerInv, ScopeInv
<1>1. CASE left # {}
  <2>1. left \in SUBSET Nat /\ left \in SUBSET Tasks
    BY DEF SchedulerInv, TypeOK, Tasks
  <2>2. Min(left) \in left
    BY <1>1, <2>1, MinOfNats
  <2>3. Min(left) \in Tasks \ cancelled /\ task[Min(left)].scoped /\ Min(left) \in scope.submitted
    BY <2>1, <2>2 DEF SchedulerInv, ScopeInv
  <2>4. /\ cancelImpl(c, Min(left), "close")
        /\ UNCHANGED <<kind, now, made, task, worker, sleep, running, completed, scope, quit,
                       replaced>>
    BY <1>1 DEF closeNext
  <2>5. kind = "thread" => c \in Clients /\ task[Min(left)].by = c
    BY <1>0, <2>3, SchedulerAssumption DEF SchedulerInv, ScopeInv
  <2> QED BY <1>0, <2>3, <2>4, <2>5, CancelImplStep
<1>2. CASE left = {}
  <2> USE DEF SchedulerInv
  <2>0. /\ scope' = [scope EXCEPT !.submitted = {}, !.holder = {}]
        /\ pc' = [pc EXCEPT ![c] = "idle"]
        /\ UNCHANGED <<queue, cancelled, target, waiters>>
        /\ UNCHANGED <<kind, now, made, task, worker, sleep, running, completed, quit, replaced>>
    BY <1>2 DEF closeNext
  <2>1. TypeOK'
    BY <2>0 DEF TypeOK, Tasks
  <2>2. QueueInv'
    BY <2>0 DEF QueueInv
  <2>3. WorkerInv'
    BY <2>0 DEF WorkerInv, TypeOK, Threads
  <2>4. CancelInv'
    BY <1>0, <2>0 DEF CancelInv, Stranded, TypeOK, Threads, Tasks
  <2>5. ScopeInv'
    BY <1>0, <1>2, <2>0 DEF ScopeInv, QueueInv, ScopeFree, TypeOK, Threads, Tasks
  <2>6. SleepInv'
    BY <1>0, <2>0 DEF SleepInv, Stranded, TypeOK, Tasks
  <2> QED BY <2>1, <2>2, <2>3, <2>4, <2>5, <2>6
<1> QED BY <1>1, <1>2

\* cancelImpl wakes up: the task is completed, or it waits again.
LEMMA CancelWakesStep ==
    ASSUME SchedulerInv, NEW c \in Threads, cancelWakes(c)
    PROVE  SchedulerInv'
<1> DEFINE t == target[c]
           done == quit \/ t \in completed
<1> USE DEF SchedulerInv
<1>0. /\ pc[c] = "cancel" /\ c \notin waiters /\ kind = "thread" /\ c \in Clients /\ ~quit
      /\ t \in Tasks /\ task[t].by = c /\ c # Worker
  BY SchedulerAssumption DEF cancelWakes, CancelInv
<1>u. UNCHANGED <<kind, now, made, task, queue, worker, sleep, running, completed, scope, quit,
                  replaced>>
  BY DEF cancelWakes
<1>1. CASE done
  <2>0. PICK next \in {"close", "forget", "idle"} :
          /\ pc' = [pc EXCEPT ![c] = next]
          /\ next = "close" <=> c \in scope.holder
          /\ target' = [target EXCEPT ![c] = 0]
          /\ cancelled' = cancelled \cup {t} /\ waiters' = waiters
    BY <1>1 DEF cancelWakes
  <2>00. t \in completed /\ t # running
    BY <1>0, <1>1 DEF QueueInv
  <2> HIDE DEF done
  <2>1. TypeOK'
    <3>1. pc' \in [Threads -> {"idle", "notify", "cancel", "forget", "close"}]
      BY <2>0 DEF TypeOK
    <3>2. target' \in [Threads -> 0 .. made]
      BY <2>0 DEF TypeOK
    <3>3. cancelled' \subseteq Tasks
      BY <1>0, <2>0 DEF TypeOK
    <3> QED BY <1>u, <2>0, <3>1, <3>2, <3>3 DEF TypeOK, Tasks
  <2>2. QueueInv'
    BY <1>u, <2>0, <2>00 DEF QueueInv
  <2>3. WorkerInv'
    BY <1>0, <1>u, <2>0 DEF WorkerInv, TypeOK, Threads
  <2>4. CancelInv'
    <3>1. /\ pc'[c] # "cancel" /\ target'[c] = 0 /\ pc'[Worker] = pc[Worker]
          /\ \A d \in Threads : d # c => pc'[d] = pc[d] /\ target'[d] = target[d]
      BY <1>0, <2>0 DEF TypeOK, Threads
    <3> QED BY <1>0, <1>u, <2>0, <3>1 DEF CancelInv, Stranded, TypeOK, Threads, Tasks
  <2>5. ScopeInv'
    BY <1>0, <1>u, <2>0 DEF ScopeInv, ScopeFree, TypeOK, Threads, Tasks
  <2>6. SleepInv'
    <3>1. \A d \in Threads : pc[d] = "notify" => pc'[d] = "notify"
      BY <1>0, <2>0 DEF TypeOK
    <3>2. \A d \in Threads : Stranded(d) => Stranded(d)'
      BY <1>0, <1>u, <2>0, <2>00 DEF TypeOK, Stranded
    <3> QED BY <1>u, <2>0, <3>1, <3>2 DEF SleepInv, Tasks
  <2> QED BY <2>1, <2>2, <2>3, <2>4, <2>5, <2>6
<1>2. CASE ~done
  <2>0. waiters' = waiters \cup {c} /\ UNCHANGED <<pc, target, cancelled>> /\ t \notin completed
    BY <1>0, <1>2 DEF cancelWakes
  <2> HIDE DEF done
  <2>1. TypeOK'
    BY <1>u, <2>0 DEF TypeOK, Tasks
  <2>2. QueueInv'
    BY <1>u, <2>0 DEF QueueInv
  <2>3. WorkerInv'
    BY <1>u, <2>0 DEF WorkerInv
  <2>4. CancelInv'
    BY <1>0, <1>u, <2>0 DEF CancelInv, Stranded, Tasks
  <2>5. ScopeInv'
    BY <1>u, <2>0 DEF ScopeInv, ScopeFree, Tasks
  <2>6. SleepInv'
    BY <1>0, <1>u, <2>0 DEF SleepInv, Stranded, Tasks
  <2> QED BY <2>1, <2>2, <2>3, <2>4, <2>5, <2>6
<1> QED BY <1>1, <1>2

\* The top of threadFunc's loop: the last task is completed and those who wait are told,
\* then the thread takes the front task, sleeps or ends.
LEMMA ThreadTopStep ==
    ASSUME SchedulerInv, threadTop
    PROVE  SchedulerInv'
<1> DEFINE head == IF queue = <<>> THEN 0 ELSE Head(queue)
           told == IF running # 0 THEN {} ELSE waiters
<1> USE DEF SchedulerInv
<1>0. /\ kind = "thread" /\ worker = "top" /\ pc[Worker] = "idle"
      /\ completed' = completed \cup ({running} \ {0})
      /\ UNCHANGED <<kind, now, made, task, pc, target, scope, quit, cancelled, replaced>>
  BY DEF threadTop, WorkerInv
\* Nobody is left waiting but who is stranded.
<1>1. told \subseteq Threads /\ \A c \in told : pc[c] = "cancel" /\ target[c] \notin completed'
  BY <1>0 DEF CancelInv, TypeOK
<1>2. \A c \in Threads : pc[c] = "cancel" =>
        target[c] \in completed' \/ (Stranded(c) /\ target[c] \notin completed' /\ target[c] # 0)
  BY <1>0 DEF CancelInv, Stranded, Tasks
<1>3. \A t \in Range(queue) : t \in Tasks /\ t # 0 /\ t \notin completed'
  BY <1>0, QueuedAreTasks DEF QueueInv
<1>4. completed' \subseteq Tasks
  BY <1>0 DEF TypeOK, Tasks
<1>5. CASE quit
  <2>0. worker' = "ended" /\ running' = 0 /\ waiters' = told /\ UNCHANGED <<queue, sleep>>
    BY <1>1, <1>5 DEF threadTop
  <2>1. TypeOK'
    BY <1>0, <1>1, <1>4, <2>0 DEF TypeOK, Tasks
  <2>2. QueueInv'
    BY <1>0, <1>3, <1>4, <2>0 DEF QueueInv, TypeOK, Tasks
  <2>3. WorkerInv'
    BY <1>0, <2>0 DEF WorkerInv
  <2>4. CancelInv'
    BY <1>0, <1>1, <1>2, <2>0 DEF CancelInv, Stranded, Tasks
  <2>5. ScopeInv'
    BY <1>0, <2>0 DEF ScopeInv, ScopeFree, Tasks
  <2>6. SleepInv'
    BY <1>0, <2>0 DEF SleepInv
  <2> QED BY <2>1, <2>2, <2>3, <2>4, <2>5, <2>6
<1>6. CASE ~quit /\ Due(queue)
  <2>0. Take /\ waiters' = told /\ UNCHANGED sleep
    BY <1>1, <1>6 DEF threadTop
  <2>00. /\ running' \in Tasks /\ running' \in Range(queue) /\ worker' = "running"
         /\ queue' \in Seq(Tasks) /\ Unique(queue') /\ Sorted(queue', task)
         /\ \A x : x \in Range(queue') <=> x \in Range(queue) /\ x # running'
    BY <1>6, <2>0, TakeIs
  <2>1. TypeOK'
    BY <1>0, <1>1, <1>4, <2>0, <2>00 DEF TypeOK, Tasks
  <2>2. QueueInv'
    BY <1>0, <1>3, <2>00 DEF QueueInv
  <2>3. WorkerInv'
    BY <1>0, <2>00 DEF WorkerInv
  <2>4. CancelInv'
    BY <1>0, <1>1, <1>2, <2>0, <2>00 DEF CancelInv, Stranded, Tasks
  <2>5. ScopeInv'
    BY <1>0, <2>00 DEF ScopeInv, ScopeFree, Tasks
  <2>6. SleepInv'
    BY <1>0, <2>0, <2>00 DEF SleepInv
  <2> QED BY <2>1, <2>2, <2>3, <2>4, <2>5, <2>6
<1>7. CASE ~quit /\ ~Due(queue)
  <2>0. /\ worker' = "asleep" /\ running' = 0 /\ waiters' = told \cup {Worker} /\ queue' = queue
        /\ sleep' = [head |-> head,
                     until |-> IF head = 0 THEN now + IdleWait ELSE task[head].when]
    BY <1>1, <1>7 DEF threadTop
  <2>00. queue # <<>> =>
           /\ head \in Tasks /\ head # 0 /\ task[head].when \in Nat /\ head \in Range(queue)
           /\ \A t \in Range(queue) : task[head].when <= task[t].when
    BY TailIs, QueuedAreTasks DEF TypeOK, QueueInv, Tasks
  <2>1. TypeOK'
    <3>1. sleep' \in [head : Nat, until : Nat]
      <4>1. CASE queue = <<>>
        BY <2>0, <4>1, SchedulerAssumption DEF TypeOK
      <4>2. CASE queue # <<>>
        BY <2>0, <2>00, <4>2 DEF TypeOK, Tasks
      <4> QED BY <4>1, <4>2
    <3> QED BY <1>0, <1>1, <1>4, <2>0, <3>1 DEF TypeOK, Tasks, Threads
  <2>2. QueueInv'
    BY <1>0, <1>3, <1>4, <2>0 DEF QueueInv, TypeOK, Tasks
  <2>3. WorkerInv'
    BY <1>0, <2>0 DEF WorkerInv
  <2>4. CancelInv'
    BY <1>0, <1>1, <1>2, <2>0 DEF CancelInv, Stranded, Tasks
  <2>5. ScopeInv'
    BY <1>0, <2>0 DEF ScopeInv, ScopeFree, Tasks
  <2>6. SleepInv'
    <3>1. CASE queue = <<>>
      BY <1>0, <2>0, <3>1 DEF SleepInv, Stranded, Range
    <3>2. CASE queue # <<>>
      BY <1>0, <1>3, <2>0, <2>00, <3>2 DEF SleepInv, Tasks
    <3> QED BY <3>1, <3>2
  <2> QED BY <2>1, <2>2, <2>3, <2>4, <2>5, <2>6
<1> QED BY <1>5, <1>6, <1>7 DEF threadTop

\* The thread wakes from its wait on the condition variable.
LEMMA ThreadWakesStep ==
    ASSUME SchedulerInv, threadWakes
    PROVE  SchedulerInv'
<1> USE DEF SchedulerInv
<1>0. /\ kind = "thread" /\ worker = "asleep" /\ running = 0
      /\ UNCHANGED <<kind, now, made, task, completed, pc, target, scope, quit, cancelled,
                     replaced>>
  BY DEF threadWakes, WorkerInv
<1>1. pc[Worker] = "idle"
  BY <1>0 DEF WorkerInv
<1>2. CASE ~WaitOver /\ now < sleep.until
  <2>0. waiters' = waiters \cup {Worker} /\ UNCHANGED <<queue, worker, sleep, running>>
    BY <1>2 DEF threadWakes
  <2>1. TypeOK'
    BY <1>0, <2>0 DEF TypeOK, Tasks, Threads
  <2>2. QueueInv'
    BY <1>0, <2>0 DEF QueueInv
  <2>3. WorkerInv'
    BY <1>0, <2>0 DEF WorkerInv
  <2>4. CancelInv'
    BY <1>0, <2>0 DEF CancelInv, Stranded, Tasks
  <2>5. ScopeInv'
    BY <1>0, <2>0 DEF ScopeInv, ScopeFree, Tasks
  <2>6. SleepInv'
    <3>1. CASE queue = <<>>
      BY <1>0, <2>0, <3>1 DEF SleepInv, Stranded, Range, Tasks
    <3>2. CASE queue # <<>>
      <4>1. /\ Head(queue) \in Tasks /\ Head(queue) # 0
            /\ \A t \in Range(queue) : task[Head(queue)].when <= task[t].when
        BY <3>2, TailIs, QueuedAreTasks DEF TypeOK, QueueInv, Tasks
      <4>2. sleep.head = Head(queue)
        BY <1>2, <3>2 DEF WaitOver
      <4> QED BY <1>0, <2>0, <4>1, <4>2 DEF SleepInv, Stranded, Tasks
    <3> QED BY <3>1, <3>2
  <2> QED BY <2>1, <2>2, <2>3, <2>4, <2>5, <2>6
<1>3. CASE ~(~WaitOver /\ now < sleep.until)
  <2>0. /\ waiters' = waiters \ {Worker} /\ sleep' = NoSleep
        /\ IF quit THEN worker' = "ended" /\ UNCHANGED <<queue, running>>
           ELSE IF Due(queue) THEN Take
           ELSE worker' = "top" /\ UNCHANGED <<queue, running>>
    BY <1>3 DEF threadWakes
  <2>00. sleep' \in [head : Nat, until : Nat]
    BY <2>0 DEF NoSleep
  <2>a. waiters' \subseteq Threads /\ \A c \in waiters' : pc[c] = "cancel" /\ target[c] \notin completed
    BY <1>0, <2>0 DEF CancelInv, TypeOK
  <2>1. CASE Take /\ Due(queue)
    <3>0. /\ running' \in Tasks /\ running' \in Range(queue) /\ worker' = "running"
          /\ queue' \in Seq(Tasks) /\ Unique(queue') /\ Sorted(queue', task)
          /\ \A x : x \in Range(queue') <=> x \in Range(queue) /\ x # running'
      BY <2>1, TakeIs
    <3>1. TypeOK'
      BY <1>0, <2>a, <2>00, <3>0 DEF TypeOK, Tasks
    <3>2. QueueInv'
      BY <1>0, <3>0 DEF QueueInv
    <3>3. WorkerInv'
      BY <1>0, <3>0 DEF WorkerInv
    <3>4. CancelInv'
      BY <1>0, <2>a, <3>0 DEF CancelInv, Stranded, TypeOK, Tasks
    <3>5. ScopeInv'
      BY <1>0, <3>0 DEF ScopeInv, ScopeFree, Tasks
    <3>6. SleepInv'
      BY <1>0, <2>0, <3>0 DEF SleepInv, NoSleep
    <3> QED BY <3>1, <3>2, <3>3, <3>4, <3>5, <3>6
  <2>2. CASE worker' \in {"ended", "top"} /\ UNCHANGED <<queue, running>>
    <3>1. TypeOK'
      BY <1>0, <2>a, <2>00, <2>2 DEF TypeOK, Tasks
    <3>2. QueueInv'
      BY <1>0, <2>2 DEF QueueInv
    <3>3. WorkerInv'
      BY <1>0, <1>1, <2>2 DEF WorkerInv
    <3>4. CancelInv'
      BY <1>0, <2>a, <2>2 DEF CancelInv, Stranded, TypeOK, Tasks
    <3>5. ScopeInv'
      BY <1>0, <2>2 DEF ScopeInv, ScopeFree, Tasks
    <3>6. SleepInv'
      BY <1>0, <2>0, <2>2 DEF SleepInv, NoSleep
    <3> QED BY <3>1, <3>2, <3>3, <3>4, <3>5, <3>6
  <2> QED BY <2>0, <2>1, <2>2
<1> QED BY <1>2, <1>3

\* What submit and update add to the tasks and the queue.
LEMMA EnqueueIs ==
    ASSUME SchedulerInv, NEW q \in Seq(Tasks), Unique(q), Sorted(q, task), NEW c \in Threads,
           NEW delay \in Delays, NEW scoped \in BOOLEAN, Enqueue(q, c, delay, scoped)
    PROVE  /\ made' = made + 1 /\ made' \in 0 .. MaxTasks /\ Tasks' = Tasks \cup {made'}
           /\ made' \notin Tasks
           /\ task' \in [1 .. MaxTasks -> TaskType \cup {<<>>}]
           /\ \A t \in Tasks : task'[t] = task[t]
           /\ task'[made'] \in TaskType /\ task'[made'].by = c /\ task'[made'].scoped = scoped
           /\ queue' \in Seq(Tasks') /\ Unique(queue') /\ Sorted(queue', task')
           /\ \A x : x \in Range(queue') <=> x \in Range(q) \/ x = made'
<1> DEFINE new == [when |-> now + delay, by |-> c, scoped |-> scoped]
<1>1. /\ made \in Nat /\ made < MaxTasks /\ made' = made + 1
      /\ task' = [task EXCEPT ![made + 1] = new] /\ queue' = Insert(q, made + 1, now + delay)
      /\ now + delay \in Nat
  BY SchedulerAssumption DEF SchedulerInv, TypeOK, Enqueue
<1>2. new \in TaskType /\ new.when = now + delay /\ new.by = c /\ new.scoped = scoped
  BY <1>1 DEF TaskType
<1> HIDE DEF new
<1>3. /\ task' \in [1 .. MaxTasks -> TaskType \cup {<<>>}]
      /\ \A t \in Tasks : task'[t] = task[t]
      /\ task'[made + 1] = new
  BY <1>1, <1>2, SchedulerAssumption DEF SchedulerInv, TypeOK, Tasks
<1>4. Tasks' = 1 .. made + 1 /\ Tasks' = Tasks \cup {made + 1} /\ made + 1 \notin Tasks
  BY <1>1 DEF Tasks
<1>5. /\ queue' \in Seq(1 .. made + 1) /\ Unique(queue') /\ Sorted(queue', task')
      /\ \A x : x \in Range(queue') <=> x \in Range(q) \/ x = made + 1
  <2>1. made + 1 <= MaxTasks
    BY <1>1, SchedulerAssumption
  <2>2. TypeOK /\ task'[made + 1].when = now + delay
    BY <1>2, <1>3 DEF SchedulerInv
  <2>3. ASSUME NEW tasks, \A t \in Tasks : tasks[t] = task[t],
               tasks[made + 1].when = now + delay
        PROVE  LET r == Insert(q, made + 1, now + delay)
               IN /\ r \in Seq(1 .. made + 1) /\ Unique(r) /\ Sorted(r, tasks)
                  /\ \A x : x \in Range(r) <=> x \in Range(q) \/ x = made + 1
    BY <1>1, <2>1, <2>2, <2>3, InsertIs
  <2> QED BY <1>1, <1>3, <2>2, <2>3
<1> QED BY <1>1, <1>2, <1>3, <1>4, <1>5, SchedulerAssumption

\* A thread that calls the scheduler is not in the middle of another call, and in a
\* LoopScheduler it is the thread that runs the loop, which is awake.
LEMMA CallerIs ==
    ASSUME SchedulerInv, NEW c \in Threads, MayCall(c)
    PROVE  /\ pc[c] = "idle" /\ target[c] = 0 /\ ~quit /\ c \notin scope.holder
           /\ kind = "loop" => c = Worker /\ worker \in {"top", "running"}
           /\ kind = "thread" /\ c = Worker => worker = "running"
           /\ c \notin waiters \/ (c = Worker /\ worker = "asleep")
BY DEF SchedulerInv, CancelInv, Stranded, ScopeInv, MayCall, TypeOK

\* submit, of either scheduler and of a scope.
LEMMA SubmitStep ==
    ASSUME SchedulerInv, NEW c \in Threads, NEW delay \in Delays, NEW scoped \in BOOLEAN,
           submit(c, delay, scoped)
    PROVE  SchedulerInv'
<1> USE DEF SchedulerInv
<1>0. /\ MayCall(c) /\ (scoped => UsesScope(c) /\ ScopeFree)
      /\ Enqueue(queue, c, delay, scoped)
      /\ pc' = IF kind = "thread" THEN [pc EXCEPT ![c] = "notify"] ELSE pc
      /\ UNCHANGED <<kind, now, worker, sleep, running, completed, target, waiters, quit,
                     cancelled, replaced>>
  BY DEF submit
<1>1. /\ made' = made + 1 /\ made' \in 0 .. MaxTasks /\ Tasks' = Tasks \cup {made'}
      /\ made' \notin Tasks
      /\ task' \in [1 .. MaxTasks -> TaskType \cup {<<>>}]
      /\ \A t \in Tasks : task'[t] = task[t]
      /\ task'[made'] \in TaskType /\ task'[made'].by = c /\ task'[made'].scoped = scoped
      /\ queue' \in Seq(Tasks') /\ Unique(queue') /\ Sorted(queue', task')
      /\ \A x : x \in Range(queue') <=> x \in Range(queue) \/ x = made'
  BY <1>0, EnqueueIs DEF TypeOK, QueueInv
<1>2. /\ pc[c] = "idle" /\ target[c] = 0 /\ ~quit /\ c \notin scope.holder
      /\ kind = "loop" => c = Worker /\ worker \in {"top", "running"}
      /\ kind = "thread" /\ c = Worker => worker = "running"
  BY <1>0, CallerIs
<1>3. ~scoped => scope' = scope
  BY DEF submit
<1>4. scoped =>
        /\ scope' = [scope EXCEPT !.submitted = {t \in scope.submitted : ~Expired(t)} \cup {made'},
                                  !.holder = IF kind = "thread" THEN {c} ELSE {}]
        /\ scope.alive /\ (kind = "thread" => c = ScopeUser) /\ scope.holder = {}
  BY <1>0, <1>1 DEF submit, UsesScope, ScopeFree
<1>5. /\ scope'.alive = scope.alive
      /\ scoped => scope'.submitted = {t \in scope.submitted : ~Expired(t)} \cup {made'}
      /\ scoped => scope'.holder = IF kind = "thread" THEN {c} ELSE {}
      /\ scope' \in [alive : BOOLEAN, submitted : SUBSET Tasks', holder : SUBSET Threads]
  <2>1. CASE ~scoped
    BY <1>1, <1>3, <2>1 DEF TypeOK
  <2>2. CASE scoped
    <3> DEFINE sub == {t \in scope.submitted : ~Expired(t)} \cup {made'}
               hold == IF kind = "thread" THEN {c} ELSE {}
    <3>1. scope' = [scope EXCEPT !.submitted = sub, !.holder = hold]
      BY <1>4, <2>2
    <3>2. sub \in SUBSET Tasks' /\ hold \in SUBSET Threads
      BY <1>1 DEF TypeOK
    <3>3. scope \in [alive : BOOLEAN, submitted : SUBSET Tasks, holder : SUBSET Threads]
      BY DEF TypeOK
    <3> HIDE DEF sub, hold
    <3>4. scope'.alive = scope.alive /\ scope'.submitted = sub /\ scope'.holder = hold
      BY <3>1, <3>3
    <3>5. scope' \in [alive : BOOLEAN, submitted : SUBSET Tasks', holder : SUBSET Threads]
      BY <3>1, <3>2, <3>3
    <3> QED BY <3>4, <3>5 DEF sub, hold
  <2> QED BY <2>1, <2>2
<1>6. /\ pc' \in [Threads -> {"idle", "notify", "cancel", "forget", "close"}]
      /\ \A d \in Threads : d # c => pc'[d] = pc[d]
      /\ pc'[c] = IF kind = "thread" THEN "notify" ELSE "idle"
  BY <1>0, <1>2 DEF TypeOK
<1>7. TypeOK'
  <2>1. target' \in [Threads -> 0 .. made']
    BY <1>0, <1>1 DEF TypeOK
  <2>2. \A t \in Tasks' : task'[t] \in TaskType
    BY <1>1 DEF TypeOK
  <2> QED BY <1>0, <1>1, <1>5, <1>6, <2>1, <2>2 DEF TypeOK, Tasks
<1>8. QueueInv'
  <2>1. made' # running /\ made' \notin completed /\ made' \notin cancelled
    BY <1>1 DEF TypeOK, Tasks
  <2> QED BY <1>0, <1>1, <2>1 DEF QueueInv
<1>9. WorkerInv'
  BY <1>0, <1>2, <1>6, SchedulerAssumption DEF WorkerInv, Threads
<1>10. CancelInv'
  <2>1. c = Worker \/ c \in Clients
    BY DEF Threads
  <2> QED BY <1>0, <1>1, <1>2, <1>6, <2>1, SchedulerAssumption DEF CancelInv, Stranded, TypeOK, Threads
<1>11. ScopeInv'
  <2>1. \A d \in scope'.holder :
          /\ scope'.holder = {d}
          /\ pc'[d] \in (IF scope'.alive THEN {"notify"} ELSE {"close", "cancel"})
          /\ kind' = "thread" => d = ScopeUser
    BY <1>0, <1>2, <1>3, <1>4, <1>5, <1>6 DEF ScopeInv, TypeOK
  <2>2. \A d \in Threads : pc'[d] = "close" => d \in scope'.holder /\ ~scope'.alive
    BY <1>2, <1>3, <1>4, <1>5, <1>6 DEF ScopeInv
  <2>3. ~scope'.alive /\ scope'.holder = {} => scope'.submitted = {}
    BY <1>3, <1>4, <1>5 DEF ScopeInv, ScopeFree
  <2>4. \A t \in scope'.submitted : task'[t].scoped /\ t \notin replaced'
    BY <1>0, <1>1, <1>3, <1>5 DEF ScopeInv, TypeOK
  <2>5. \A t \in Tasks' : task'[t].scoped /\ kind' = "thread" => task'[t].by = ScopeUser
    BY <1>0, <1>1, <1>4 DEF ScopeInv
  <2>6. ASSUME NEW t \in Tasks', task'[t].scoped,
               \/ t \in Range(queue')
               \/ kind' = "thread" /\ running' = t /\ worker' = "running" /\ t \notin replaced'
        PROVE  t \in scope'.submitted
    <3>1. CASE t = made'
      BY <1>1, <1>5, <2>6, <3>1
    <3>2. CASE t \in Tasks
      <4>1. t \in scope.submitted /\ ~Expired(t)
        BY <1>0, <1>1, <2>6, <3>2 DEF ScopeInv, Expired, InQueue
      <4> QED BY <1>3, <1>5, <4>1
    <3> QED BY <1>1, <3>1, <3>2
  <2> QED BY <2>1, <2>2, <2>3, <2>4, <2>5, <2>6 DEF ScopeInv, ScopeFree
<1>12. SleepInv'
  BY <1>0, <1>1, <1>2, <1>6 DEF SleepInv, Stranded, TypeOK
<1> QED BY <1>7, <1>8, <1>9, <1>10, <1>11, <1>12

\* update: another task takes the place of this one, which may be running.
LEMMA UpdateStep ==
    ASSUME SchedulerInv, NEW c \in Threads, NEW t \in Tasks, NEW delay \in Delays,
           update(c, t, delay)
    PROVE  SchedulerInv'
<1> DEFINE scoped == task[t].scoped
           q == RemoveFirst(queue, t)
<1> USE DEF SchedulerInv
<1>0. /\ MayCall(c) /\ task[t].by = c
      /\ scoped => scope.alive /\ ScopeFree /\ t \in scope.submitted
      /\ Enqueue(q, c, delay, scoped)
      /\ waiters' \subseteq waiters /\ replaced' = replaced \cup {t}
      /\ UNCHANGED <<kind, now, worker, sleep, running, completed, pc, target, quit, cancelled>>
  BY DEF update, Handles, NotifyOne
<1>a. scoped \in BOOLEAN
  BY DEF TypeOK, TaskType
<1>b. /\ q \in Seq(Tasks) /\ Unique(q) /\ Sorted(q, task)
      /\ \A x : x \in Range(q) <=> x \in Range(queue) /\ x # t
  BY EraseIs DEF TypeOK, QueueInv
<1> HIDE DEF scoped, q
<1>1. /\ made' = made + 1 /\ made' \in 0 .. MaxTasks /\ Tasks' = Tasks \cup {made'}
      /\ made' \notin Tasks
      /\ task' \in [1 .. MaxTasks -> TaskType \cup {<<>>}]
      /\ \A u \in Tasks : task'[u] = task[u]
      /\ task'[made'] \in TaskType /\ task'[made'].by = c /\ task'[made'].scoped = scoped
      /\ queue' \in Seq(Tasks') /\ Unique(queue') /\ Sorted(queue', task')
      /\ \A x : x \in Range(queue') <=> x \in Range(q) \/ x = made'
  BY <1>0, <1>a, <1>b, EnqueueIs
<1>2. /\ pc[c] = "idle" /\ target[c] = 0 /\ ~quit /\ c \notin scope.holder
      /\ kind = "loop" => c = Worker /\ worker \in {"top", "running"}
      /\ kind = "thread" /\ c = Worker => worker = "running"
  BY <1>0, CallerIs
<1>3. ~scoped => scope' = scope
  BY DEF update, scoped
<1>5. /\ scope'.alive = scope.alive /\ scope'.holder = scope.holder
      /\ scoped =>
           scope'.submitted = ({u \in scope.submitted : ~Expired(u)} \ {t}) \cup {made'}
      /\ scope' \in [alive : BOOLEAN, submitted : SUBSET Tasks', holder : SUBSET Threads]
  <2>1. CASE ~scoped
    BY <1>1, <1>3, <2>1 DEF TypeOK
  <2>2. CASE scoped
    <3> DEFINE sub == ({u \in scope.submitted : ~Expired(u)} \ {t}) \cup {made'}
    <3>1. scope' = [scope EXCEPT !.submitted = sub]
      BY <1>1, <2>2 DEF update, scoped, KeepSubmitted
    <3>2. sub \in SUBSET Tasks'
      BY <1>1 DEF TypeOK
    <3>3. scope \in [alive : BOOLEAN, submitted : SUBSET Tasks, holder : SUBSET Threads]
      BY DEF TypeOK
    <3> HIDE DEF sub
    <3>4. scope'.alive = scope.alive /\ scope'.submitted = sub /\ scope'.holder = scope.holder
      BY <3>1, <3>3
    <3>5. scope' \in [alive : BOOLEAN, submitted : SUBSET Tasks', holder : SUBSET Threads]
      BY <3>1, <3>2, <3>3
    <3> QED BY <3>4, <3>5 DEF sub
  <2> QED BY <2>1, <2>2
<1>7. TypeOK'
  <2>1. target' \in [Threads -> 0 .. made']
    BY <1>0, <1>1 DEF TypeOK
  <2>2. \A u \in Tasks' : task'[u] \in TaskType
    BY <1>1 DEF TypeOK
  <2>3. /\ running' \in 0 .. made' /\ completed' \subseteq Tasks'
        /\ cancelled' \subseteq Tasks' /\ replaced' \subseteq Tasks'
    BY <1>0, <1>1 DEF TypeOK, Tasks
  <2>4. /\ kind' \in {"thread", "loop"} /\ now' \in Nat
        /\ worker' \in {"top", "asleep", "due", "running", "ended"}
        /\ sleep' \in [head : Nat, until : Nat] /\ waiters' \subseteq Threads
        /\ quit' \in BOOLEAN
        /\ pc' \in [Threads -> {"idle", "notify", "cancel", "forget", "close"}]
    BY <1>0 DEF TypeOK
  <2> QED BY <1>1, <1>5, <2>1, <2>2, <2>3, <2>4 DEF TypeOK
<1>8. QueueInv'
  <2>1. made' # running /\ made' \notin completed /\ made' \notin cancelled
    BY <1>1 DEF TypeOK, Tasks
  <2> QED BY <1>0, <1>b, <1>1, <2>1 DEF QueueInv
<1>9. WorkerInv'
  BY <1>0 DEF WorkerInv
<1>10. CancelInv'
  <2>1. \A d \in Threads : pc[d] = "cancel" => target[d] \in Tasks /\ target[d] \notin Range(queue')
    BY <1>b, <1>1 DEF CancelInv
  <2>2. \A d \in Threads : Stranded(d) => Stranded(d)'
    BY <1>0, <1>1, <2>1 DEF Stranded
  <2> QED BY <1>0, <1>1, <2>1, <2>2 DEF CancelInv, TypeOK
<1>11. ScopeInv'
  <2>1. \A d \in scope'.holder :
          /\ scope'.holder = {d}
          /\ pc'[d] \in (IF scope'.alive THEN {"notify"} ELSE {"close", "cancel"})
          /\ kind' = "thread" => d = ScopeUser
    BY <1>0, <1>5 DEF ScopeInv
  <2>2. \A d \in Threads : pc'[d] = "close" => d \in scope'.holder /\ ~scope'.alive
    BY <1>0, <1>5 DEF ScopeInv
  <2>3. ~scope'.alive /\ scope'.holder = {} => scope'.submitted = {}
    BY <1>0, <1>3, <1>5 DEF ScopeInv, ScopeFree
  <2>4. \A u \in scope'.submitted : task'[u].scoped /\ u \notin replaced'
    BY <1>0, <1>1, <1>3, <1>5 DEF ScopeInv, TypeOK, scoped
  <2>5. \A u \in Tasks' : task'[u].scoped /\ kind' = "thread" => task'[u].by = ScopeUser
    BY <1>0, <1>1 DEF ScopeInv, scoped
  <2>6. ASSUME NEW u \in Tasks', task'[u].scoped,
               \/ u \in Range(queue')
               \/ kind' = "thread" /\ running' = u /\ worker' = "running" /\ u \notin replaced'
        PROVE  u \in scope'.submitted
    <3>1. CASE u = made'
      BY <1>1, <1>5, <2>6, <3>1
    <3>2. CASE u \in Tasks
      <4>1. u \in scope.submitted /\ ~Expired(u) /\ u # t
        BY <1>0, <1>b, <1>1, <2>6, <3>2 DEF ScopeInv, Expired, InQueue
      <4> QED BY <1>3, <1>5, <4>1
    <3> QED BY <1>1, <3>1, <3>2
  <2> QED BY <2>1, <2>2, <2>3, <2>4, <2>5, <2>6 DEF ScopeInv, ScopeFree
<1>12. SleepInv'
  <2>1. CASE kind = "thread" /\ worker = "asleep"
    <3>1. waiters' = {} \/ \E d \in Threads : Stranded(d)
      BY <2>1, NotifyOneWakesWorker DEF update
    <3>2. \A d \in Threads : Stranded(d) => Stranded(d)'
      BY <1>0, <1>1 DEF Stranded, CancelInv
    <3>3. sleep.head # 0 => sleep.head \in Range(queue') \cup cancelled' \cup replaced'
      BY <1>0, <1>b, <1>1, <2>1 DEF SleepInv
    <3> QED BY <1>0, <1>1, <2>1, <3>1, <3>2, <3>3 DEF SleepInv
  <2>2. CASE ~(kind = "thread" /\ worker = "asleep")
    BY <1>0, <1>2, <2>2 DEF SleepInv, Stranded, TypeOK
  <2> QED BY <2>1, <2>2
<1> QED BY <1>7, <1>8, <1>9, <1>10, <1>11, <1>12

\* Every step keeps the invariant.
LEMMA InvNext == SchedulerInv /\ [Next]_vars => SchedulerInv'
<1> SUFFICES ASSUME SchedulerInv, [Next]_vars PROVE SchedulerInv'
  OBVIOUS
<1>1. CASE Next
  BY <1>1, SubmitStep, CancelStep, UpdateStep, DestroyScopeStep, NotifyStep, ForgetStep,
     CancelWakesStep, CloseNextStep, DestroySchedulerStep, ThreadTopStep, ThreadWakesStep,
     LoopSleepStep, LoopWakesStep, LoopRunStep, TaskReturnsStep, TickStep
     DEF Next, Continue, Work, Tasks
<1>2. CASE UNCHANGED vars
  BY <1>2 DEF vars, SchedulerInv, TypeOK, QueueInv, WorkerInv, CancelInv, Stranded, ScopeInv, SleepInv,
              ScopeFree, Tasks
<1> QED BY <1>1, <1>2

-----------------------------------------------------------------------------
\* The theorems.

\* The invariant holds for any number of threads, tasks and delays.
THEOREM SchedulerInvariant == Spec => []SchedulerInv
BY InvInit, InvNext, PTL DEF Spec

\* After cancelImpl has returned the task is not in mTaskQueue, and a ThreadScheduler
\* does not run it: whoever cancels may free what the task uses.
THEOREM CancelIsFinal == Spec => []NoRunAfterCancel
<1>1. SchedulerInv => NoRunAfterCancel
  BY DEF SchedulerInv, QueueInv, NoRunAfterCancel, InQueue
<1> QED BY <1>1, SchedulerInvariant, PTL

\* When ~ScopedScheduler has returned none of its tasks is queued, and none runs in a
\* ThreadScheduler but one that was updated while it ran.
THEOREM ScopeEndsQuiet == Spec => []ScopeQuiet
<1>1. SchedulerInv => ScopeQuiet
  BY DEF SchedulerInv, ScopeInv, ScopeQuiet, InQueue, Tasks
<1> QED BY <1>1, SchedulerInvariant, PTL

\* wait_for in threadFunc and the event loop never sleep past the first task without
\* somebody being about to notify: notify_one can reach a thread in cancelImpl instead
\* only if that thread is stranded, because nobody else waits there while Worker sleeps.
THEOREM NoMissedWakeup == Spec => []WakesInTime
<1>1. SchedulerInv => WakesInTime
  <2> SUFFICES ASSUME SchedulerInv, worker = "asleep", queue # <<>>,
                      kind = "thread" => Worker \in waiters
               PROVE  \/ sleep.until <= now \/ sleep.until <= task[Head(queue)].when
                      \/ \E c \in Threads : pc[c] = "notify" \/ Stranded(c)
    BY DEF WakesInTime
  <2>1. Head(queue) \in Range(queue)
    BY TailIs, QueuedAreTasks DEF SchedulerInv, TypeOK, QueueInv
  <2> QED BY <2>1 DEF SchedulerInv, SleepInv, Stranded
<1> QED BY <1>1, SchedulerInvariant, PTL
=============================================================================
