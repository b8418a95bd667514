------------------------------ MODULE Scheduler ------------------------------
(***************************************************************************)
(* The schedulers of src/src/scheduler.cpp.                                *)
(*                                                                         *)
(* kind "thread": a ThreadScheduler, whose own thread (Worker) runs the    *)
(* tasks while other threads (Clients) submit, update and cancel them;     *)
(* they meet at mMutex, which is held for one action, and at mCondVar.     *)
(* kind "loop": a LoopScheduler, where everything is done by the thread    *)
(* that runs the event loop (Worker), from a task or between two.          *)
(* On top of it a ScopedScheduler, which cancels its tasks when it is      *)
(* destroyed.                                                              *)
(*                                                                         *)
(* How they are used is part of the model: a task is updated and cancelled *)
(* by the thread that submitted it, and a task of a ThreadScheduler does   *)
(* not cancel tasks or use the scope: it would wait for itself.            *)
(***************************************************************************)
EXTENDS Integers, Sequences, FiniteSets, FiniteSetsExt, SequencesExt

CONSTANTS
    Clients, Worker,   \* the threads
    ScopeUser,         \* the client that uses the scope of a ThreadScheduler
    Delays,            \* delays of tasks
    Milli,             \* units of time in a millisecond, what the event loop waits in
    IdleWait,          \* how long to wait when there is no task, 60 s
    MaxTasks,          \* bound: tasks created
    MaxTime            \* bound: the end of time

ASSUME SchedulerAssumption ==
    /\ Worker \notin Clients /\ ScopeUser \in Clients /\ Delays \subseteq Nat /\ Milli \in Nat \ {0}
    /\ IdleWait \in Nat /\ MaxTasks \in Nat /\ MaxTime \in Nat

VARIABLES
    kind,      \* "thread" or "loop"
    now,
    made,      \* number of TaskImpls made: 1 .. made
    task,      \* for each: mWhen, who submitted it, and whether through the scope
    queue,     \* mTaskQueue
    worker,    \* what Worker does: "top", "asleep", "due", "running", "ended"
    sleep,     \* the head it waits for (0: none), and until when
    running,   \* the task Worker holds, or 0
    completed, \* the tasks with mIsCompleted
    pc,        \* what each thread does: "idle", "notify", "cancel", "forget", "close"
    target,    \* the task it does it to, or 0
    waiters,   \* the threads that wait on mCondVar and have not been notified
    scope,     \* the ScopedScheduler: alive, mSubmitted, who holds mMutex ({}: nobody)
    quit,      \* mIsQuit
    cancelled, \* the tasks whose cancellation has returned
    replaced   \* the tasks that were updated

vars == <<kind, now, made, task, queue, worker, sleep, running, completed, pc, target,
          waiters, scope, quit, cancelled, replaced>>

Threads == Clients \cup {Worker}
NoSleep == [head |-> 0, until |-> 0]

Init ==
    /\ kind \in {"thread", "loop"}
    /\ now = 0 /\ made = 0 /\ queue = <<>> /\ task = [t \in 1 .. MaxTasks |-> <<>>]
    /\ worker = "top" /\ sleep = NoSleep /\ running = 0 /\ completed = {}
    /\ pc = [c \in Threads |-> "idle"] /\ target = [c \in Threads |-> 0]
    /\ waiters = {} /\ quit = FALSE /\ cancelled = {} /\ replaced = {}
    /\ scope = [alive |-> TRUE, submitted |-> {}, holder |-> {}]

-----------------------------------------------------------------------------
\* Helpers.

\* std::upper_bound: the place of the first task that is due later, or the end.
UpperBound(q, when) == Min({i \in 1 .. Len(q) : task[q[i]].when > when} \cup {Len(q) + 1})

Insert(q, t, when) == InsertAt(q, UpperBound(q, when), t)

InQueue(t) == t \in Range(queue)

\* The last reference to a task is gone: its weak_ptr has expired.  While it waits,
\* threadFunc holds the head that it waits for, also when that was updated meanwhile.
Expired(t) ==
    /\ ~InQueue(t) /\ t # running /\ \A c \in Threads : target[c] # t
    /\ ~(kind = "thread" /\ t = sleep.head)

\* notify_one and notify_all: what is left of the waiters.
NotifyOne == IF waiters = {} THEN {{}} ELSE {waiters \ {c} : c \in waiters}

\* Which threads can call the scheduler now.
MayCall(c) ==
    /\ pc[c] = "idle"
    /\ IF kind = "loop" THEN c = Worker /\ worker \in {"top", "running"}
       ELSE c = Worker => worker = "running"
    /\ ~quit

\* Which thread uses the scope.
UsesScope(c) == scope.alive /\ (kind = "thread" => c = ScopeUser)

\* The scope's mMutex is free.
ScopeFree == scope.holder = {}

\* Which tasks thread c cancels and updates.
Handles(c) == {t \in 1 .. made : task[t].by = c /\ ~(kind = "thread" /\ c = Worker)}

-----------------------------------------------------------------------------
\* submit, cancel, update; the destructors.

\* The new task is in the queue.
Enqueue(q, c, delay, scoped) ==
    /\ made < MaxTasks /\ now + delay <= MaxTime
    /\ made' = made + 1
    /\ task' = [task EXCEPT ![made + 1] = [when |-> now + delay, by |-> c, scoped |-> scoped]]
    /\ queue' = Insert(q, made + 1, now + delay)

\* ThreadScheduler::submit and LoopScheduler::submit, and ScopedScheduler::submit,
\* which holds its mutex meanwhile and lets go of the tasks that have expired.
submit(c, delay, scoped) ==
    /\ MayCall(c)
    /\ scoped => UsesScope(c) /\ ScopeFree
    /\ Enqueue(queue, c, delay, scoped)
    /\ scope' = IF scoped
                THEN [scope EXCEPT
                        !.submitted = {t \in @ : ~Expired(t)} \cup {made + 1},
                        !.holder = IF kind = "thread" THEN {c} ELSE {}]
                ELSE scope
    /\ pc' = IF kind = "thread" THEN [pc EXCEPT ![c] = "notify"] ELSE pc
    /\ UNCHANGED <<kind, now, worker, sleep, running, completed, target, waiters, quit,
                   cancelled, replaced>>

\* notify_one, after the mutex is unlocked.
notify(c) ==
    /\ pc[c] = "notify"
    /\ waiters' \in NotifyOne
    /\ pc' = [pc EXCEPT ![c] = "idle"]
    /\ scope' = [scope EXCEPT !.holder = @ \ {c}]
    /\ UNCHANGED <<kind, now, made, task, queue, worker, sleep, running, completed, target,
                   quit, cancelled, replaced>>

\* Mutated: the task is not waited for.
cancelImplAtOnce(c, t, after) ==
    /\ queue' = RemoveFirst(queue, t)
    /\ cancelled' = cancelled \cup {t}
    /\ pc' = [pc EXCEPT ![c] = after]
    /\ UNCHANGED <<target, waiters>>

\* cancelImpl, by a thread that goes on with "after": the task is erased, or else
\* waited for, if there is still a reference to it.
cancelImpl(c, t, after) ==
    LET wait == kind = "thread" /\ ~InQueue(t) /\ ~Expired(t)
    IN /\ queue' = RemoveFirst(queue, t)
       /\ cancelled' = IF wait THEN cancelled ELSE cancelled \cup {t}
       /\ pc' = [pc EXCEPT ![c] = IF wait THEN "cancel" ELSE after]
       /\ target' = IF wait THEN [target EXCEPT ![c] = t] ELSE target
       /\ waiters' = IF wait THEN waiters \cup {c} ELSE waiters

\* Task::cancelHelper, and TaskImpl::cancel of the three kinds of task.
cancel(c, t) ==
    /\ MayCall(c) /\ t \in Handles(c) \ cancelled
    /\ IF task[t].scoped THEN scope.alive /\ t \in scope.submitted ELSE ~Expired(t)
    /\ cancelImpl(c, t, IF task[t].scoped THEN "forget" ELSE "idle")
    /\ UNCHANGED <<kind, now, made, task, worker, sleep, running, completed, scope, quit, replaced>>

\* The end of ScopedScheduler::cancelImpl.
forget(c) ==
    /\ pc[c] = "forget" /\ ScopeFree
    /\ pc' = [pc EXCEPT ![c] = "idle"]
    /\ scope' = [scope EXCEPT !.submitted = @ \ cancelled]
    /\ UNCHANGED <<kind, now, made, task, queue, worker, sleep, running, completed, target,
                   waiters, quit, cancelled, replaced>>

\* A thread in cancelImpl is notified.
cancelWakes(c) ==
    LET t == target[c]
        done == quit \/ t \in completed
    IN /\ pc[c] = "cancel" /\ c \notin waiters
       /\ IF done
          THEN /\ pc' = [pc EXCEPT ![c] = IF c \in scope.holder THEN "close"
                                          ELSE IF task[t].scoped THEN "forget" ELSE "idle"]
               /\ target' = [target EXCEPT ![c] = 0]
               /\ cancelled' = cancelled \cup {t}
               /\ UNCHANGED waiters
          ELSE /\ waiters' = waiters \cup {c}
               /\ UNCHANGED <<pc, target, cancelled>>
       /\ UNCHANGED <<kind, now, made, task, queue, worker, sleep, running, completed, scope,
                      quit, replaced>>

\* Mutated: the scope does not learn of the new task.
KeepSubmittedOld(t) == {u \in scope.submitted : ~Expired(u)} \ {t}

\* mSubmitted when t is replaced by the next task.
KeepSubmitted(t) == ({u \in scope.submitted : ~Expired(u)} \ {t}) \cup {made + 1}

\* update of a task that has not expired; it may be running, and then runs again.
update(c, t, delay) ==
    LET scoped == task[t].scoped
    IN /\ MayCall(c) /\ t \in Handles(c) \ cancelled /\ ~Expired(t)
       /\ scoped => scope.alive /\ ScopeFree /\ t \in scope.submitted
       /\ Enqueue(RemoveFirst(queue, t), c, delay, scoped)
       /\ scope' = IF scoped THEN [scope EXCEPT !.submitted = KeepSubmitted(t)] ELSE scope
       /\ waiters' \in IF kind = "thread" THEN NotifyOne ELSE {waiters}
       /\ replaced' = replaced \cup {t}
       /\ UNCHANGED <<kind, now, worker, sleep, running, completed, pc, target, quit, cancelled>>

\* ~ScopedScheduler: mMutex is held while the tasks are cancelled one by one.
destroyScope(c) ==
    /\ MayCall(c) /\ UsesScope(c) /\ ScopeFree
    /\ scope' = [scope EXCEPT !.holder = {c}, !.alive = FALSE]
    /\ pc' = [pc EXCEPT ![c] = "close"]
    /\ UNCHANGED <<kind, now, made, task, queue, worker, sleep, running, completed, target,
                   waiters, quit, cancelled, replaced>>

closeNext(c) ==
    LET left == {t \in scope.submitted : t \notin cancelled}
    IN /\ pc[c] = "close"
       /\ IF left # {}
          THEN cancelImpl(c, Min(left), "close") /\ UNCHANGED scope
          ELSE /\ scope' = [scope EXCEPT !.submitted = {}, !.holder = {}]
               /\ pc' = [pc EXCEPT ![c] = "idle"]
               /\ UNCHANGED <<queue, cancelled, target, waiters>>
       /\ UNCHANGED <<kind, now, made, task, worker, sleep, running, completed, quit, replaced>>

\* ~ThreadScheduler, when nobody uses it any more; the caller then joins Worker.
destroyScheduler ==
    /\ kind = "thread" /\ ~quit /\ ~scope.alive
    /\ \A c \in Clients : pc[c] = "idle"
    /\ quit' = TRUE
    /\ waiters' \in NotifyOne
    /\ UNCHANGED <<kind, now, made, task, queue, worker, sleep, running, completed, pc, target,
                   scope, cancelled, replaced>>

-----------------------------------------------------------------------------
\* Worker.

Due(q) == q # <<>> /\ task[Head(q)].when <= now

\* The head of the queue is taken out to be run.
Take ==
    /\ worker' = "running" /\ running' = Head(queue) /\ queue' = Tail(queue)

\* threadFunc, from the top of the loop to the wait or to the task: the last task
\* is completed and everybody who waits is told.
threadTop ==
    LET head == IF queue = <<>> THEN 0 ELSE Head(queue)
        told == IF running # 0 THEN {} ELSE waiters
    IN /\ kind = "thread" /\ worker = "top"
       /\ completed' = IF running # 0 THEN completed \cup {running} ELSE completed
       /\ \/ /\ quit
             /\ worker' = "ended" /\ running' = 0
             /\ waiters' = told
             /\ UNCHANGED <<queue, sleep>>
          \/ /\ ~quit /\ Due(queue)
             /\ Take
             /\ waiters' = told
             /\ UNCHANGED sleep
          \/ /\ ~quit /\ ~Due(queue)
             /\ worker' = "asleep" /\ running' = 0
             /\ sleep' = [head |-> head,
                          until |-> IF head = 0 THEN now + IdleWait ELSE task[head].when]
             /\ waiters' = told \cup {Worker}
             /\ UNCHANGED queue
       /\ UNCHANGED <<kind, now, made, task, pc, target, scope, quit, cancelled, replaced>>

\* Mutated: only the time that the head is due counts.
WaitOverWhenDue == quit \/ Due(queue)

\* What wait_for waits for.
WaitOver == quit \/ (IF queue = <<>> THEN 0 ELSE Head(queue)) # sleep.head \/ Due(queue)

\* wait_for ends, or its condition does not hold and it goes on.
threadWakes ==
    /\ kind = "thread" /\ worker = "asleep"
    /\ Worker \notin waiters \/ now >= sleep.until
    /\ IF ~WaitOver /\ now < sleep.until
       THEN /\ waiters' = waiters \cup {Worker}
            /\ UNCHANGED <<queue, worker, sleep, running>>
       ELSE /\ waiters' = waiters \ {Worker}
            /\ sleep' = NoSleep
            /\ IF quit THEN worker' = "ended" /\ UNCHANGED <<queue, running>>
               ELSE IF Due(queue) THEN Take
               ELSE worker' = "top" /\ UNCHANGED <<queue, running>>
    /\ UNCHANGED <<kind, now, made, task, completed, pc, target, scope, quit, cancelled, replaced>>

\* The event loop waits for at most getTimeoutMillis.
loopSleep ==
    LET millis == (task[Head(queue)].when - now) \div Milli
    IN /\ kind = "loop" /\ worker = "top" /\ pc[Worker] = "idle"
       /\ worker' = "asleep"
       /\ sleep' = [head |-> IF queue = <<>> THEN 0 ELSE Head(queue),
                    until |-> IF queue = <<>> THEN now + IdleWait
                              ELSE IF millis <= 0 THEN now ELSE now + millis * Milli]
       /\ UNCHANGED <<kind, now, made, task, queue, running, completed, pc, target, waiters, scope,
                      quit, cancelled, replaced>>

\* It is time, or there was an event.
loopWakes ==
    /\ kind = "loop" /\ worker = "asleep"
    /\ worker' = "due" /\ sleep' = NoSleep
    /\ UNCHANGED <<kind, now, made, task, queue, running, completed, pc, target, waiters, scope,
                   quit, cancelled, replaced>>

\* LoopScheduler::run
loopRun ==
    /\ kind = "loop" /\ worker = "due"
    /\ IF Due(queue) THEN Take ELSE worker' = "top" /\ UNCHANGED <<queue, running>>
    /\ UNCHANGED <<kind, now, made, task, sleep, completed, pc, target, waiters, scope, quit,
                   cancelled, replaced>>

\* mFunc returns; a ThreadScheduler keeps the task until it has mMutex again.
taskReturns ==
    /\ worker = "running" /\ pc[Worker] = "idle"
    /\ worker' = IF kind = "loop" THEN "due" ELSE "top"
    /\ running' = IF kind = "loop" THEN 0 ELSE running
    /\ UNCHANGED <<kind, now, made, task, queue, sleep, completed, pc, target, waiters, scope,
                   quit, cancelled, replaced>>

Tick ==
    /\ now < MaxTime
    /\ now' = now + 1
    /\ UNCHANGED <<kind, made, task, queue, worker, sleep, running, completed, pc, target, waiters,
                   scope, quit, cancelled, replaced>>

\* What a thread does on its own once it has begun.
Continue(c) == notify(c) \/ forget(c) \/ cancelWakes(c) \/ closeNext(c)
Work == threadTop \/ threadWakes \/ loopSleep \/ loopWakes \/ loopRun \/ taskReturns

Next ==
    \/ \E c \in Threads :
         \/ \E d \in Delays, scoped \in BOOLEAN : submit(c, d, scoped)
         \/ \E t \in 1 .. made : cancel(c, t) \/ \E d \in Delays : update(c, t, d)
         \/ destroyScope(c) \/ Continue(c)
    \/ destroyScheduler \/ Work \/ Tick

Spec ==
    /\ Init /\ [][Next]_vars
    /\ WF_vars(Tick) /\ WF_vars(Work)
    /\ \A c \in Threads : WF_vars(Continue(c))

-----------------------------------------------------------------------------
\* Properties.

\* A thread that waits in cancelImpl for a task that will never run: it kept the
\* handle of a task it had updated and cancelled it while Worker slept on that task.
\* Nothing in the repository does: the callers of update keep what it returns.
Stranded(c) ==
    /\ pc[c] = "cancel"
    /\ target[c] \in replaced /\ ~task[target[c]].scoped
    /\ target[c] # running /\ target[c] \notin completed

\* A task whose cancellation has returned will not run, and with a ThreadScheduler
\* it does not run any more either.
NoRunAfterCancel ==
    \A t \in cancelled : ~InQueue(t) /\ (kind = "thread" => ~(worker = "running" /\ running = t))

\* Once a ScopedScheduler is gone none of its tasks will run, and with a
\* ThreadScheduler none is running, but for one that was updated while it ran.
ScopeQuiet ==
    ~scope.alive /\ ScopeFree =>
        \A t \in 1 .. made : task[t].scoped =>
            /\ ~InQueue(t)
            /\ kind = "thread" /\ t \notin replaced => ~(worker = "running" /\ running = t)

\* No wakeup is missed: a thread that sleeps past the time of the first task is
\* about to be notified, unless a stranded canceller, which waits on the same
\* condition variable, can take its notifications.
WakesInTime ==
    worker = "asleep" /\ queue # <<>> /\ (kind = "thread" => Worker \in waiters) =>
        \/ sleep.until <= now \/ sleep.until <= task[Head(queue)].when
        \/ \E c \in Threads : pc[c] = "notify" \/ Stranded(c)

\* Every cancellation returns, but for one through the handle of an updated task that
\* Worker still held: that is the only way to wait for ever, and a scope never does.
\* Every task is run or cancelled, however the threads meet at mCondVar, unless a
\* stranded canceller takes the notifications that are for Worker.
EveryTaskEnds ==
    /\ \A c \in Threads : (pc[c] = "cancel") ~> (pc[c] # "cancel" \/ Stranded(c))
    /\ \A t \in 1 .. MaxTasks :
         InQueue(t) ~> (~InQueue(t) \/ quit \/ \E c \in Threads : Stranded(c))
=============================================================================
