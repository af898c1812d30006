----------------------------- MODULE KernelSema -----------------------------
(***************************************************************************)
(* The counting semaphore of libkernel (sceKernel*Sema), from             *)
(* libkernel/Semaphore/src/Semaphore.cpp: one semaphore, any number of     *)
(* guest threads calling it.  Every call runs under the semaphore's mutex, *)
(* so a call is one action, but for two: a wait that blocks (it gives the  *)
(* mutex up inside the condition variable) and a signal, whose walk over   *)
(* the queue is kept as a loop, one action per waiter visited.             *)
(***************************************************************************)
EXTENDS Integers, Sequences, FiniteSets

CONSTANTS Threads,      \* the guest threads
          MaxCount,     \* the `max' given to sceKernelCreateSema
          Priorities,   \* the priorities a waiting thread may have
          MaxCancels,   \* bound on cancelGeneration
          NoThread      \* the value of `mutex' while nobody holds it

ASSUME ThreadsAssumption == IsFiniteSet(Threads) /\ NoThread \notin Threads
ASSUME CountAssumption == MaxCount \in Nat \ {0}
ASSUME PriorityAssumption == Priorities \subseteq Int /\ 0 \in Priorities
ASSUME CancelAssumption == MaxCancels \in Nat

VARIABLES
    tokenCount, initCount, priorityQueue, deleted, waiterCount,
    queue,             \* KernelSemaPrivate::queue, as a sequence of threads
    cancelGeneration,
    freed,             \* `delete sem' was executed
    mutex, it,         \* the holder of the mutex and the cursor of its loop
    asleep,            \* threads blocked in the condition variable
    pc,                \* where each thread is: idle, signal, wait or delete
    waiter,            \* each thread's KernelSemaWaiter and its wait arguments
    result             \* what the last blocked wait to end returned, on any thread

semaphore == <<tokenCount, initCount, priorityQueue, deleted, waiterCount,
               queue, cancelGeneration, freed>>
vars == <<semaphore, mutex, it, asleep, pc, waiter, result>>

Waiters == [need: 1..MaxCount, priority: Priorities, timed: BOOLEAN,
            released: BOOLEAN, generation: 0..MaxCancels]

\* KernelSemaWaiter has no content outside a wait.
NoWaiter == [need |-> 1, priority |-> 0, timed |-> FALSE, released |-> FALSE,
             generation |-> 0]

Results == {"none", "OK", "EACCES", "ECANCELED", "ETIMEDOUT"}

-----------------------------------------------------------------------------
\* std::list insertion before, and erasure of, the i-th element.
InsertBefore(q, i, t) ==
    [j \in 1..(Len(q) + 1) |-> IF j < i THEN q[j]
                               ELSE IF j = i THEN t ELSE q[j - 1]]

Erase(q, i) == [j \in 1..(Len(q) - 1) |-> IF j < i THEN q[j] ELSE q[j + 1]]

Queued(t) == \E i \in 1..Len(queue) : queue[i] = t

\* Mutation: a new waiter goes before those of the same priority.
IsPlaceForAhead(i, p) ==
    /\ i \in 1..(Len(queue) + 1)
    /\ IF priorityQueue
         THEN /\ \A j \in 1..(i - 1) : waiter[queue[j]].priority < p
              /\ i <= Len(queue) => waiter[queue[i]].priority >= p
         ELSE i = Len(queue) + 1

\* The place a new waiter takes: behind everybody, or in a priority queue
\* before the first waiter whose priority value is greater (less urgent).
IsPlaceFor(i, p) ==
    /\ i \in 1..(Len(queue) + 1)
    /\ IF priorityQueue
         THEN /\ \A j \in 1..(i - 1) : waiter[queue[j]].priority <= p
              /\ i <= Len(queue) => waiter[queue[i]].priority > p
         ELSE i = Len(queue) + 1

\* Mutation: the deleter waits for an empty queue, not for the waiters to leave.
MayReturnEmptyQueue(t) ==
    IF pc[t] = "delete"
      THEN queue = <<>>
      ELSE \/ waiter[t].released
           \/ deleted
           \/ cancelGeneration # waiter[t].generation

\* The predicates of the two waits on the condition variable: the one of
\* sceKernelWaitSema and the one of sceKernelDeleteSema.
MayReturn(t) ==
    IF pc[t] = "delete"
      THEN waiterCount = 0
      ELSE \/ waiter[t].released
           \/ deleted
           \/ cancelGeneration # waiter[t].generation

\* The value sceKernelWaitSema returns once it stops waiting: a token that was
\* handed over wins over a deletion, a cancellation and an elapsed timeout.
WaitResult(t) ==
    IF waiter[t].released THEN "OK"
    ELSE IF deleted THEN "EACCES"
    ELSE IF cancelGeneration # waiter[t].generation THEN "ECANCELED"
    ELSE "ETIMEDOUT"

\* Mutation: one sleeper, any, is woken.
NotifyOne ==
    IF asleep = {} THEN asleep' = {} ELSE \E t \in asleep : asleep' = asleep \ {t}

NotifyAll == asleep' = {}

\* Mutation: the deleter does not notify the waiters before it sleeps.
NotifyAllThenWaitSilent(t) ==
    asleep' = IF waiterCount = 0 THEN asleep ELSE asleep \cup {t}

\* sceKernelDeleteSema wakes everybody and sleeps, if there is whom to wait for.
NotifyAllThenWait(t) == asleep' = IF waiterCount = 0 THEN {} ELSE {t}

\* Mutation: the waiter's node stays in the list.
RemoveWaiterNot(t) == queue' = queue

\* The destructor of WaiterGuard: list::remove, if the waiter is still there.
RemoveWaiter(t) ==
    IF Queued(t) /\ ~waiter[t].released
      THEN \E i \in 1..Len(queue) : queue[i] = t /\ queue' = Erase(queue, i)
      ELSE queue' = queue

\* A call may start while the object exists and the mutex is free.
Enter(t) == pc[t] = "idle" /\ mutex = NoThread /\ ~freed

-----------------------------------------------------------------------------
\* sceKernelCreateSema.
Init ==
    /\ initCount \in 0..MaxCount
    /\ tokenCount = initCount
    /\ priorityQueue \in BOOLEAN
    /\ deleted = FALSE
    /\ waiterCount = 0
    /\ queue = <<>>
    /\ cancelGeneration = 0
    /\ freed = FALSE
    /\ mutex = NoThread
    /\ it = 0
    /\ asleep = {}
    /\ pc = [t \in Threads |-> "idle"]
    /\ waiter = [t \in Threads |-> NoWaiter]
    /\ result = "none"

\* sceKernelPollSema; it looks at neither the queue nor `deleted'.
Poll(t, need) ==
    /\ Enter(t)
    /\ tokenCount >= need
    /\ tokenCount' = tokenCount - need
    /\ UNCHANGED <<initCount, priorityQueue, deleted, waiterCount, queue,
                   cancelGeneration, freed, mutex, it, asleep, pc, waiter,
                   result>>

\* sceKernelSignalSema up to its loop; more tokens than max is EINVAL.
Signal(t, count) ==
    /\ Enter(t)
    /\ count <= MaxCount - tokenCount
    /\ tokenCount' = tokenCount + count
    /\ mutex' = t
    /\ it' = 1
    /\ pc' = [pc EXCEPT ![t] = "signal"]
    /\ UNCHANGED <<initCount, priorityQueue, deleted, waiterCount, queue,
                   cancelGeneration, freed, asleep, waiter, result>>

\* Mutation: the loop ends at the first waiter that cannot be served.
PassOverEnds(t) ==
    /\ pc[t] = "signal"
    /\ it <= Len(queue)
    /\ waiter[queue[it]].need > tokenCount
    /\ it' = Len(queue) + 1
    /\ UNCHANGED <<semaphore, mutex, asleep, pc, waiter, result>>

\* A waiter that was handed its tokens.
Released(w) == [w EXCEPT !.released = TRUE]

\* One round of the loop, on a waiter that needs more than is left ...
PassOver(t) ==
    /\ pc[t] = "signal"
    /\ it <= Len(queue)
    /\ waiter[queue[it]].need > tokenCount
    /\ it' = it + 1
    /\ UNCHANGED <<semaphore, mutex, asleep, pc, waiter, result>>

\* ... and on one that can be served: it gets its tokens and leaves the queue.
HandOver(t) ==
    /\ pc[t] = "signal"
    /\ it <= Len(queue)
    /\ waiter[queue[it]].need <= tokenCount
    /\ tokenCount' = tokenCount - waiter[queue[it]].need
    /\ waiter' = [waiter EXCEPT ![queue[it]] = Released(@)]
    /\ queue' = Erase(queue, it)
    /\ UNCHANGED <<initCount, priorityQueue, deleted, waiterCount,
                   cancelGeneration, freed, mutex, it, asleep, pc, result>>

\* The end of sceKernelSignalSema.
SignalDone(t) ==
    /\ pc[t] = "signal"
    /\ it > Len(queue)
    /\ NotifyAll
    /\ mutex' = NoThread
    /\ it' = 0
    /\ pc' = [pc EXCEPT ![t] = "idle"]
    /\ UNCHANGED <<semaphore, waiter, result>>

\* sceKernelWaitSema that does not block: EACCES once deleted, OK otherwise.
WaitAtOnce(t, need) ==
    /\ Enter(t)
    /\ deleted \/ tokenCount >= need
    /\ tokenCount' = IF deleted THEN tokenCount ELSE tokenCount - need
    /\ UNCHANGED <<initCount, priorityQueue, deleted, waiterCount, queue,
                   cancelGeneration, freed, mutex, it, asleep, pc, waiter,
                   result>>

\* sceKernelWaitSema that does: it queues itself and sleeps.
Block(t, need, prio, timed) ==
    /\ Enter(t)
    /\ ~deleted
    /\ tokenCount < need
    /\ \E i \in 1..(Len(queue) + 1) :
          IsPlaceFor(i, prio) /\ queue' = InsertBefore(queue, i, t)
    /\ waiter' = [waiter EXCEPT ![t] =
                    [need |-> need, priority |-> prio, timed |-> timed,
                     released |-> FALSE, generation |-> cancelGeneration]]
    /\ waiterCount' = waiterCount + 1
    /\ asleep' = asleep \cup {t}
    /\ pc' = [pc EXCEPT ![t] = "wait"]
    /\ UNCHANGED <<tokenCount, initCount, priorityQueue, deleted,
                   cancelGeneration, freed, mutex, it, result>>

\* A notified thread whose predicate is false goes back to sleep.
SleepAgain(t) ==
    /\ pc[t] \in {"wait", "delete"} /\ mutex = NoThread
    /\ t \notin asleep
    /\ ~MayReturn(t)
    /\ asleep' = asleep \cup {t}
    /\ UNCHANGED <<semaphore, mutex, it, pc, waiter, result>>

\* The wait ends, notified with a true predicate or by its deadline; then the
\* WaiterGuard's destructor runs.
WaitReturn(t) ==
    /\ pc[t] = "wait" /\ mutex = NoThread
    /\ (t \notin asleep /\ MayReturn(t)) \/ waiter[t].timed
    /\ result' = WaitResult(t)
    /\ waiterCount' = waiterCount - 1
    /\ RemoveWaiter(t)
    /\ waiter' = [waiter EXCEPT ![t] = NoWaiter]
    /\ NotifyAll
    /\ pc' = [pc EXCEPT ![t] = "idle"]
    /\ UNCHANGED <<tokenCount, initCount, priorityQueue, deleted,
                   cancelGeneration, freed, mutex, it>>

\* sceKernelCancelSema; a negative count restores the initial one.
Cancel(t, count) ==
    /\ Enter(t)
    /\ cancelGeneration < MaxCancels
    /\ count <= MaxCount
    /\ tokenCount' = IF count < 0 THEN initCount ELSE count
    /\ queue' = <<>>
    /\ cancelGeneration' = cancelGeneration + 1
    /\ NotifyAll
    /\ UNCHANGED <<initCount, priorityQueue, deleted, waiterCount, freed,
                   mutex, it, pc, waiter, result>>

\* sceKernelDeleteSema: mark, wake everybody, then sleep until the last waiter
\* has left.  A guest deletes a semaphore once.
Delete(t) ==
    /\ Enter(t)
    /\ ~deleted
    /\ deleted' = TRUE
    /\ NotifyAllThenWait(t)
    /\ pc' = [pc EXCEPT ![t] = "delete"]
    /\ UNCHANGED <<tokenCount, initCount, priorityQueue, waiterCount, queue,
                   cancelGeneration, freed, mutex, it, waiter, result>>

DeleteDone(t) ==
    /\ pc[t] = "delete" /\ mutex = NoThread
    /\ t \notin asleep
    /\ MayReturn(t)
    /\ freed' = TRUE
    /\ pc' = [pc EXCEPT ![t] = "idle"]
    /\ UNCHANGED <<tokenCount, initCount, priorityQueue, deleted, waiterCount,
                   queue, cancelGeneration, mutex, it, asleep, waiter, result>>

Call(t) ==
    \/ \E need \in 1..MaxCount :
          \/ Poll(t, need)
          \/ WaitAtOnce(t, need)
          \/ \E prio \in Priorities, timed \in BOOLEAN :
                Block(t, need, prio, timed)
    \/ \E count \in 1..MaxCount : Signal(t, count)
    \/ \E count \in -1..MaxCount : Cancel(t, count)
    \/ Delete(t)

Loop(t) == PassOver(t) \/ HandOver(t) \/ SignalDone(t)

Resume(t) == SleepAgain(t) \/ WaitReturn(t) \/ DeleteDone(t)

Next == \E t \in Threads : Call(t) \/ Loop(t) \/ Resume(t)

Spec == Init /\ [][Next]_vars

\* A thread that holds the mutex runs on.  A thread that may leave its wait, by
\* its predicate or its deadline, gets the mutex in the end, although others
\* take it again and again.
FairSpec == /\ Spec
            /\ \A t \in Threads : /\ WF_vars(Loop(t))
                                  /\ SF_vars(WaitReturn(t))
                                  /\ SF_vars(DeleteDone(t))

-----------------------------------------------------------------------------
TypeOK ==
    /\ tokenCount \in 0..MaxCount
    /\ initCount \in 0..MaxCount
    /\ priorityQueue \in BOOLEAN
    /\ deleted \in BOOLEAN
    /\ waiterCount \in Int
    /\ queue \in Seq(Threads)
    /\ cancelGeneration \in 0..MaxCancels
    /\ freed \in BOOLEAN
    /\ mutex \in Threads \cup {NoThread}
    /\ it \in Nat
    /\ asleep \subseteq Threads
    /\ pc \in [Threads -> {"idle", "signal", "wait", "delete"}]
    /\ waiter \in [Threads -> Waiters]
    /\ result \in Results

\* Whenever the mutex is free, every queued waiter needs more tokens than there
\* are: no call leaves behind a waiter that the tokens at hand would serve.
\* (sceKernelSignalSema walks the queue once, in order, and polls, timeouts and
\* cancellations change both sides of the comparison behind its back.)
NoServableWaiter ==
    mutex = NoThread =>
        \A i \in 1..Len(queue) : waiter[queue[i]].need > tokenCount

\* The queue holds, once each, exactly the threads that block in
\* sceKernelWaitSema, were given nothing and were not cancelled: an entry is a
\* pointer into a live stack frame, and no blocked waiter is forgotten.
QueueIsBlockedThreads ==
    /\ \A i, j \in 1..Len(queue) : queue[i] = queue[j] => i = j
    /\ \A t \in Threads :
          Queued(t) <=> /\ pc[t] = "wait"
                        /\ ~waiter[t].released
                        /\ waiter[t].generation = cancelGeneration

\* The semaphore is freed only when no thread is left inside a wait or the
\* deletion, so no destructor of a WaiterGuard touches freed memory.
FreedIsQuiet ==
    freed => \A t \in Threads : pc[t] = "idle"

\* Nobody who needs at least as much is served past an earlier queued waiter.
NoOvertaking ==
    [][\A i, j \in 1..Len(queue) :
          (i < j /\ ~waiter[queue[j]].released /\ waiter'[queue[j]].released)
             => waiter[queue[i]].need > waiter[queue[j]].need]_vars

\* A wait that was handed its tokens returns OK, however a cancellation, the
\* deletion or its deadline races it, and a blocked wait returns OK only then.
OutcomeIsHandOver ==
    [][\A t \in Threads :
          (pc[t] = "wait" /\ pc'[t] = "idle")
             => (result' = "OK" <=> waiter[t].released)]_vars

\* The semaphore is a TokenPool.  A signal is its Put and a Serve for each
\* hand-over of the loop: while the loop runs nobody takes a token, and the
\* waiters it serves are the first of the line that fit.
Pool == INSTANCE TokenPool WITH
    Clients   <- Threads,
    Limit     <- MaxCount,
    Urgencies <- Priorities,
    pool      <- tokenCount,
    line      <- queue,
    request   <- [t \in Threads |->
                    [need    |-> waiter[t].need,
                     urgency |-> IF priorityQueue THEN waiter[t].priority ELSE 0]],
    inside    <- {t \in Threads : pc[t] = "wait"},
    holds     <- {t \in Threads : pc[t] = "wait" /\ waiter[t].released},
    answer    <- IF result = "none" THEN "none"
                 ELSE IF result = "OK" THEN "granted" ELSE "refused",
    closed    <- deleted,
    gone      <- freed

\* Whatever the threads do, sceKernel*Sema behaves as a TokenPool: tokens are
\* neither lost nor made, nobody barges in past a waiter that fits, waiters of
\* equal priority are served as they came, and a wait says OK iff it was served.
ImplementsTokenPool == Pool!Spec

\* A blocked wait that was served, cancelled, timed or outlived by the
\* semaphore ends: no notification is lost.
WaitEnds ==
    \A t \in Threads :
        (pc[t] = "wait" /\ (MayReturn(t) \/ waiter[t].timed)) ~> pc[t] = "idle"

\* sceKernelDeleteSema ends, however many threads block on the semaphore.
DeleteEnds == \A t \in Threads : pc[t] = "delete" ~> freed
=============================================================================
