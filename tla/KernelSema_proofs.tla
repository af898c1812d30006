-------------------------- MODULE KernelSema_proofs --------------------------
(***************************************************************************)
(* Proofs about KernelSema, for any threads, limit and priorities.         *)
(***************************************************************************)
EXTENDS KernelSema, TLAPS, SequenceTheorems, FiniteSetTheorems

\* Membership in a list, and a list without repetitions.
In(u, q) == \E i \in 1..Len(q) : q[i] = u
Distinct(q) == \A i, j \in 1..Len(q) : q[i] = q[j] => i = j

\* What list::erase leaves.
LEMMA EraseFacts ==
    ASSUME NEW S, NEW q \in Seq(S), NEW i \in 1..Len(q)
    PROVE  /\ Erase(q, i) \in Seq(S)
           /\ Len(Erase(q, i)) = Len(q) - 1
           /\ \A j \in 1..(Len(q) - 1) :
                Erase(q, i)[j] = IF j < i THEN q[j] ELSE q[j + 1]
           /\ Distinct(q) =>
                /\ Distinct(Erase(q, i))
                /\ \A u : In(u, Erase(q, i)) <=> In(u, q) /\ u # q[i]
<1>1. /\ Erase(q, i) \in Seq(S)
      /\ Len(Erase(q, i)) = Len(q) - 1
      /\ \A j \in 1..(Len(q) - 1) :
           Erase(q, i)[j] = IF j < i THEN q[j] ELSE q[j + 1]
  <2>1. Len(q) \in Nat /\ q \in [1..Len(q) -> S]
    BY LenProperties
  <2>2. Len(q) - 1 \in Nat
    BY <2>1
  <2>3. \A j \in 1..(Len(q) - 1) : (IF j < i THEN q[j] ELSE q[j + 1]) \in S
    BY <2>1
  <2>4. Erase(q, i) \in Seq(S)
    BY <2>2, <2>3, IsASeq DEF Erase
  <2> QED BY <2>2, <2>4 DEF Erase
<1>2. ASSUME Distinct(q)
      PROVE  /\ Distinct(Erase(q, i))
             /\ \A u : In(u, Erase(q, i)) <=> In(u, q) /\ u # q[i]
  <2> USE <1>2
  <2> DEFINE r == Erase(q, i)
             New(j) == IF j < i THEN j ELSE j - 1
             Old(j) == IF j < i THEN j ELSE j + 1
  <2>1. Len(q) \in Nat
    BY LenProperties
  <2>2. /\ Len(r) = Len(q) - 1
        /\ \A j \in 1..(Len(q) - 1) : r[j] = IF j < i THEN q[j] ELSE q[j + 1]
    BY <1>1
  <2> HIDE DEF r
  <2>3. \A j \in 1..Len(r) : Old(j) \in 1..Len(q) /\ Old(j) # i /\ r[j] = q[Old(j)]
    BY <2>1, <2>2
  <2>4. \A j \in 1..Len(q) : j # i => New(j) \in 1..Len(r) /\ Old(New(j)) = j
    BY <2>1, <2>2
  <2>5. \A j, k \in 1..Len(r) : Old(j) = Old(k) => j = k
    BY <2>1, <2>2
  <2> HIDE DEF Old, New
  <2>6. Distinct(r)
    BY <2>3, <2>5 DEF Distinct
  <2>7. ASSUME NEW u, In(u, r)
        PROVE  In(u, q) /\ u # q[i]
    BY <2>3, <2>7 DEF In, Distinct
  <2>8. ASSUME NEW u, In(u, q), u # q[i]
        PROVE  In(u, r)
    BY <2>3, <2>4, <2>8 DEF In
  <2> QED BY <2>6, <2>7, <2>8 DEF r
<1> QED BY <1>1, <1>2

\* What list::insert leaves.
LEMMA InsertFacts ==
    ASSUME NEW S, NEW q \in Seq(S), NEW i \in 1..(Len(q) + 1), NEW t \in S
    PROVE  /\ InsertBefore(q, i, t) \in Seq(S)
           /\ Len(InsertBefore(q, i, t)) = Len(q) + 1
           /\ \A j \in 1..(Len(q) + 1) :
                InsertBefore(q, i, t)[j] = IF j < i THEN q[j]
                                           ELSE IF j = i THEN t ELSE q[j - 1]
           /\ \A u : In(u, InsertBefore(q, i, t)) <=> In(u, q) \/ u = t
           /\ Distinct(q) /\ ~In(t, q) => Distinct(InsertBefore(q, i, t))
<1>1. /\ InsertBefore(q, i, t) \in Seq(S)
      /\ Len(InsertBefore(q, i, t)) = Len(q) + 1
      /\ \A j \in 1..(Len(q) + 1) :
           InsertBefore(q, i, t)[j] = IF j < i THEN q[j]
                                      ELSE IF j = i THEN t ELSE q[j - 1]
  <2>1. Len(q) \in Nat /\ q \in [1..Len(q) -> S]
    BY LenProperties
  <2>2. Len(q) + 1 \in Nat
    BY <2>1
  <2>3. \A j \in 1..(Len(q) + 1) :
           (IF j < i THEN q[j] ELSE IF j = i THEN t ELSE q[j - 1]) \in S
    BY <2>1
  <2>4. InsertBefore(q, i, t) \in Seq(S)
    BY <2>2, <2>3, IsASeq DEF InsertBefore
  <2> QED BY <2>2, <2>4 DEF InsertBefore
<1>2. /\ \A u : In(u, InsertBefore(q, i, t)) <=> In(u, q) \/ u = t
      /\ Distinct(q) /\ ~In(t, q) => Distinct(InsertBefore(q, i, t))
  <2> DEFINE r == InsertBefore(q, i, t)
             New(j) == IF j < i THEN j ELSE j + 1
             Old(j) == IF j < i THEN j ELSE j - 1
  <2>1. Len(q) \in Nat
    BY LenProperties
  <2>2. /\ Len(r) = Len(q) + 1
        /\ \A j \in 1..(Len(q) + 1) :
             r[j] = IF j < i THEN q[j] ELSE IF j = i THEN t ELSE q[j - 1]
    BY <1>1
  <2> HIDE DEF r
  <2>3. r[i] = t /\ i \in 1..Len(r)
    BY <2>1, <2>2
  <2>4. \A j \in 1..Len(r) : j # i => Old(j) \in 1..Len(q) /\ r[j] = q[Old(j)]
    BY <2>1, <2>2
  <2>5. \A j \in 1..Len(q) :
           New(j) \in 1..Len(r) /\ New(j) # i /\ Old(New(j)) = j
    BY <2>1, <2>2
  <2>6. \A j, k \in 1..Len(r) : j # i /\ k # i /\ Old(j) = Old(k) => j = k
    BY <2>1, <2>2
  <2> HIDE DEF Old, New
  <2>7. ASSUME Distinct(q), ~In(t, q)
        PROVE  Distinct(r)
    BY <2>3, <2>4, <2>6, <2>7 DEF Distinct, In
  <2>8. ASSUME NEW u
        PROVE  In(u, r) <=> In(u, q) \/ u = t
    BY <2>3, <2>4, <2>5 DEF In
  <2> QED BY <2>7, <2>8 DEF r
<1> QED BY <1>1, <1>2

-----------------------------------------------------------------------------
\* The signaller, and nobody else, holds the mutex between steps, with its
\* cursor inside the queue or just behind it.
Holder ==
    /\ \A t \in Threads : pc[t] = "signal" <=> mutex = t
    /\ mutex # NoThread => it \in 1..(Len(queue) + 1)

\* The loop invariant of sceKernelSignalSema: the waiters its cursor passed need
\* more than is left.
Scanned ==
    \A i \in 1..Len(queue) :
        (mutex = NoThread \/ i < it) => waiter[queue[i]].need > tokenCount

\* No wait was begun in a generation that is yet to come.
Generations == \A t \in Threads : waiter[t].generation <= cancelGeneration

IInv == TypeOK /\ Holder /\ Scanned /\ QueueIsBlockedThreads /\ Generations

LEMMA ReleasedWaiter ==
    ASSUME NEW w \in Waiters
    PROVE  /\ Released(w) \in Waiters
           /\ Released(w).released
           /\ Released(w).need = w.need
           /\ Released(w).priority = w.priority
           /\ Released(w).generation = w.generation
           /\ Released(w).timed = w.timed
BY DEF Released, Waiters

LEMMA SpendTokens ==
    ASSUME NEW a \in 0..MaxCount, NEW b \in 1..MaxCount, b <= a
    PROVE  a - b \in 0..MaxCount
BY CountAssumption

\* What one hand-over does, without the shape of its definition.
LEMMA HandOverFacts ==
    ASSUME TypeOK, Holder, NEW t \in Threads, HandOver(t)
    PROVE  /\ mutex = t
           /\ it \in 1..Len(queue)
           /\ queue[it] \in Threads
           /\ waiter[queue[it]].need \in 1..MaxCount
           /\ waiter[queue[it]].need <= tokenCount
           /\ tokenCount' \in 0..MaxCount
           /\ tokenCount' = tokenCount - waiter[queue[it]].need
           /\ waiter' = [waiter EXCEPT ![queue[it]] = Released(@)]
           /\ \A u \in Threads : /\ waiter'[u].need = waiter[u].need
                                 /\ waiter'[u].priority = waiter[u].priority
                                 /\ waiter'[u].generation = waiter[u].generation
                                 /\ waiter'[u].released <=>
                                      waiter[u].released \/ u = queue[it]
           /\ queue' \in Seq(Threads)
           /\ Len(queue') = Len(queue) - 1
           /\ \A j \in 1..(Len(queue) - 1) :
                queue'[j] = IF j < it THEN queue[j] ELSE queue[j + 1]
<1>1. /\ pc[t] = "signal"
      /\ it <= Len(queue)
      /\ waiter[queue[it]].need <= tokenCount
      /\ tokenCount' = tokenCount - waiter[queue[it]].need
      /\ waiter' = [waiter EXCEPT ![queue[it]] = Released(@)]
      /\ queue' = Erase(queue, it)
  BY DEF HandOver
<1>2. mutex = t /\ it \in 1..Len(queue)
  BY <1>1, LenProperties, ThreadsAssumption DEF TypeOK, Holder
<1>3. queue[it] \in Threads
  BY <1>2, ElementOfSeq DEF TypeOK
<1>4. waiter[queue[it]].need \in 1..MaxCount
  BY <1>3 DEF TypeOK, Waiters
<1>5. /\ queue' \in Seq(Threads)
      /\ Len(queue') = Len(queue) - 1
      /\ \A j \in 1..(Len(queue) - 1) :
           queue'[j] = IF j < it THEN queue[j] ELSE queue[j + 1]
  <2>1. queue \in Seq(Threads) /\ it \in 1..Len(queue) /\ queue' = Erase(queue, it)
    BY <1>1, <1>2 DEF TypeOK
  <2> QED BY <2>1, EraseFacts
<1>6. \A u \in Threads :
         /\ u # queue[it] => waiter'[u] = waiter[u]
         /\ u = queue[it] => waiter'[u] = Released(waiter[u])
  BY <1>1, <1>3 DEF TypeOK
<1>7. \A u \in Threads : waiter[u] \in Waiters
  BY DEF TypeOK
<1>8. \A u \in Threads : /\ waiter'[u].need = waiter[u].need
                         /\ waiter'[u].priority = waiter[u].priority
                         /\ waiter'[u].generation = waiter[u].generation
                         /\ waiter'[u].released <=>
                              waiter[u].released \/ u = queue[it]
  BY <1>6, <1>7, ReleasedWaiter
<1>9. tokenCount' \in 0..MaxCount
  BY <1>1, <1>4, SpendTokens DEF TypeOK
<1> QED BY <1>1, <1>2, <1>3, <1>4, <1>5, <1>8, <1>9

\* What a thread that blocks does to the queue: it joins.
LEMMA BlockFacts ==
    ASSUME TypeOK, NEW t \in Threads, NEW need \in 1..MaxCount,
           NEW prio \in Priorities, NEW timed \in BOOLEAN,
           Block(t, need, prio, timed)
    PROVE  /\ queue' \in Seq(Threads)
           /\ \A u : In(u, queue') <=> In(u, queue) \/ u = t
           /\ Distinct(queue) /\ ~In(t, queue) => Distinct(queue')
<1>1. PICK k \in 1..(Len(queue) + 1) : queue' = InsertBefore(queue, k, t)
  BY DEF Block
<1>2. queue \in Seq(Threads)
  BY DEF TypeOK
<1>3. queue' \in Seq(Threads)
  BY <1>1, <1>2, InsertFacts
<1>4. /\ \A u : In(u, queue') <=> In(u, queue) \/ u = t
      /\ Distinct(queue) /\ ~In(t, queue) => Distinct(queue')
  BY <1>1, <1>2, InsertFacts
<1> QED BY <1>3, <1>4

\* What a thread whose wait ends does to the queue: its entry, if any, goes.
LEMMA ReturnFacts ==
    ASSUME TypeOK, QueueIsBlockedThreads, NEW t \in Threads, WaitReturn(t)
    PROVE  /\ queue' \in Seq(Threads)
           /\ \A u : In(u, queue') <=> In(u, queue) /\ u # t
           /\ Distinct(queue')
<1>0. queue \in Seq(Threads) /\ Distinct(queue)
  BY DEF TypeOK, QueueIsBlockedThreads, Distinct
<1>1. CASE Queued(t)
  <2>1. ~waiter[t].released
    BY <1>1 DEF QueueIsBlockedThreads
  <2>2. PICK k \in 1..Len(queue) : queue[k] = t /\ queue' = Erase(queue, k)
    BY <1>1, <2>1 DEF WaitReturn, RemoveWaiter
  <2> QED BY <1>0, <2>2, EraseFacts
<1>2. CASE ~Queued(t)
  BY <1>0, <1>2 DEF WaitReturn, RemoveWaiter, Queued, In
<1> QED BY <1>1, <1>2

\* The inductive invariant holds for ever.
LEMMA Invariance == Spec => []IInv
<1>1. Init => IInv
  <2> SUFFICES ASSUME Init PROVE IInv
    OBVIOUS
  <2> USE CountAssumption, PriorityAssumption, CancelAssumption, ThreadsAssumption
  <2>1. TypeOK
    <3>1. NoWaiter \in Waiters
      BY DEF Waiters, NoWaiter
    <3>2. <<>> \in Seq(Threads)
      OBVIOUS
    <3>3. result \in Results
      BY DEF Init, Results
    <3>4. waiter \in [Threads -> Waiters]
      BY <3>1 DEF Init
    <3>5. queue \in Seq(Threads) /\ asleep \subseteq Threads
      BY <3>2 DEF Init
    <3>6. pc \in [Threads -> {"idle", "signal", "wait", "delete"}]
      BY DEF Init
    <3>7. mutex \in Threads \cup {NoThread} /\ it \in Nat /\ waiterCount \in Int
      BY DEF Init
    <3>8. tokenCount \in 0..MaxCount /\ initCount \in 0..MaxCount /\ cancelGeneration \in 0..MaxCancels
      BY DEF Init
    <3>9. priorityQueue \in BOOLEAN /\ deleted \in BOOLEAN /\ freed \in BOOLEAN
      BY DEF Init
    <3> QED BY <3>3, <3>4, <3>5, <3>6, <3>7, <3>8, <3>9 DEF TypeOK
  <2>2. Holder
    BY DEF Init, Holder
  <2>3. Scanned /\ QueueIsBlockedThreads
    BY DEF Init, Scanned, QueueIsBlockedThreads, Queued
  <2>4. Generations
    BY DEF Init, Generations, NoWaiter
  <2> QED BY <2>1, <2>2, <2>3, <2>4 DEF IInv
<1>2. IInv /\ [Next]_vars => TypeOK'
  <2> SUFFICES ASSUME IInv, [Next]_vars PROVE TypeOK'
    OBVIOUS
  <2> USE CountAssumption, PriorityAssumption, CancelAssumption, ThreadsAssumption
          DEF IInv, TypeOK, Waiters
  <2>1. CASE UNCHANGED vars
    BY <2>1 DEF vars, semaphore
  <2>2. ASSUME NEW t \in Threads, NEW need \in 1..MaxCount,
               Poll(t, need) \/ WaitAtOnce(t, need)
        PROVE  TypeOK'
    BY <2>2 DEF Poll, WaitAtOnce
  <2>3. ASSUME NEW t \in Threads, NEW need \in 1..MaxCount,
               NEW prio \in Priorities, NEW timed \in BOOLEAN,
               Block(t, need, prio, timed)
        PROVE  TypeOK'
    <3>1. queue' \in Seq(Threads)
      BY <2>3, InsertFacts DEF Block
    <3> QED BY <2>3, <3>1 DEF Block
  <2>4. ASSUME NEW t \in Threads, NEW count \in 1..MaxCount, Signal(t, count)
        PROVE  TypeOK'
    BY <2>4 DEF Signal
  <2>5. ASSUME NEW t \in Threads, NEW count \in -1..MaxCount, Cancel(t, count)
        PROVE  TypeOK'
    BY <2>5 DEF Cancel, NotifyAll
  <2>6. ASSUME NEW t \in Threads, Delete(t)
        PROVE  TypeOK'
    BY <2>6 DEF Delete, NotifyAllThenWait
  <2>7. ASSUME NEW t \in Threads, PassOver(t) \/ SignalDone(t)
        PROVE  TypeOK'
    <3>1. CASE PassOver(t)
      BY <3>1 DEF PassOver, semaphore
    <3>2. CASE SignalDone(t)
      BY <3>2 DEF SignalDone, NotifyAll, semaphore
    <3> QED BY <2>7, <3>1, <3>2
  <2>8. ASSUME NEW t \in Threads, HandOver(t)
        PROVE  TypeOK'
    <3>1. /\ queue' \in Seq(Threads)
          /\ queue[it] \in Threads
          /\ tokenCount' \in 0..MaxCount
          /\ waiter' = [waiter EXCEPT ![queue[it]] = Released(@)]
      BY <2>8, HandOverFacts
    <3>3. waiter' \in [Threads -> Waiters]
      BY <3>1, ReleasedWaiter
    <3>4. UNCHANGED <<initCount, priorityQueue, deleted, waiterCount,
                      cancelGeneration, freed, mutex, it, asleep, pc, result>>
      BY <2>8 DEF HandOver
    <3> QED BY <3>1, <3>3, <3>4
  <2>9. ASSUME NEW t \in Threads, WaitReturn(t)
        PROVE  TypeOK'
    <3>1. queue' \in Seq(Threads)
      BY <2>9, EraseFacts DEF WaitReturn, RemoveWaiter
    <3> QED BY <2>9, <3>1 DEF WaitReturn, NotifyAll, NoWaiter, WaitResult, Results
  <2>10. ASSUME NEW t \in Threads, SleepAgain(t) \/ DeleteDone(t)
         PROVE  TypeOK'
    BY <2>10 DEF SleepAgain, DeleteDone, semaphore
  <2> QED
    BY <2>1, <2>2, <2>3, <2>4, <2>5, <2>6, <2>7, <2>8, <2>9, <2>10
       DEF Next, Call, Loop, Resume
<1>3. IInv /\ [Next]_vars => Holder'
  <2> SUFFICES ASSUME IInv, [Next]_vars PROVE Holder'
    OBVIOUS
  <2> USE ThreadsAssumption DEF IInv, TypeOK, Holder
  <2>1. CASE UNCHANGED vars
    BY <2>1 DEF vars, semaphore
  <2>2. ASSUME NEW t \in Threads, NEW need \in 1..MaxCount,
               Poll(t, need) \/ WaitAtOnce(t, need)
        PROVE  Holder'
    BY <2>2 DEF Poll, WaitAtOnce, Enter
  <2>3. ASSUME NEW t \in Threads, NEW need \in 1..MaxCount,
               NEW prio \in Priorities, NEW timed \in BOOLEAN,
               Block(t, need, prio, timed)
        PROVE  Holder'
    BY <2>3 DEF Block, Enter
  <2>4. ASSUME NEW t \in Threads, NEW count \in 1..MaxCount, Signal(t, count)
        PROVE  Holder'
    BY <2>4, LenProperties DEF Signal, Enter
  <2>5. ASSUME NEW t \in Threads, NEW count \in -1..MaxCount, Cancel(t, count)
        PROVE  Holder'
    BY <2>5 DEF Cancel, Enter
  <2>6. ASSUME NEW t \in Threads, Delete(t)
        PROVE  Holder'
    BY <2>6 DEF Delete, Enter
  <2>7. ASSUME NEW t \in Threads, PassOver(t)
        PROVE  Holder'
    BY <2>7, LenProperties DEF PassOver, semaphore
  <2>8. ASSUME NEW t \in Threads, SignalDone(t)
        PROVE  Holder'
    BY <2>8 DEF SignalDone
  <2>9. ASSUME NEW t \in Threads, HandOver(t)
        PROVE  Holder'
    <3>1. UNCHANGED <<mutex, it, pc>>
      BY <2>9 DEF HandOver
    <3> QED BY <2>9, <3>1, HandOverFacts
  <2>10. ASSUME NEW t \in Threads, WaitReturn(t) \/ SleepAgain(t) \/ DeleteDone(t)
         PROVE  Holder'
    BY <2>10 DEF WaitReturn, SleepAgain, DeleteDone, semaphore
  <2> QED
    BY <2>1, <2>2, <2>3, <2>4, <2>5, <2>6, <2>7, <2>8, <2>9, <2>10
       DEF Next, Call, Loop, Resume
<1>4. IInv /\ [Next]_vars => Generations'
  <2> SUFFICES ASSUME IInv, [Next]_vars PROVE Generations'
    OBVIOUS
  <2>0. \A u \in Threads : waiter[u] \in Waiters /\ waiter[u].generation \in Nat
    BY DEF IInv, TypeOK, Waiters
  <2> USE <2>0, CancelAssumption DEF IInv, TypeOK, Generations
  <2>1. CASE UNCHANGED vars
    BY <2>1 DEF vars, semaphore
  <2>2. ASSUME NEW t \in Threads, NEW need \in 1..MaxCount,
               Poll(t, need) \/ WaitAtOnce(t, need)
        PROVE  Generations'
    BY <2>2 DEF Poll, WaitAtOnce
  <2>3. ASSUME NEW t \in Threads, NEW need \in 1..MaxCount,
               NEW prio \in Priorities, NEW timed \in BOOLEAN,
               Block(t, need, prio, timed)
        PROVE  Generations'
    BY <2>3 DEF Block
  <2>4. ASSUME NEW t \in Threads, NEW count \in 1..MaxCount, Signal(t, count)
        PROVE  Generations'
    BY <2>4 DEF Signal
  <2>5. ASSUME NEW t \in Threads, NEW count \in -1..MaxCount, Cancel(t, count)
        PROVE  Generations'
    BY <2>5 DEF Cancel
  <2>6. ASSUME NEW t \in Threads,
               Delete(t) \/ PassOver(t) \/ SignalDone(t)
                  \/ SleepAgain(t) \/ DeleteDone(t)
        PROVE  Generations'
    BY <2>6 DEF Delete, PassOver, SignalDone, SleepAgain, DeleteDone, semaphore
  <2>7. ASSUME NEW t \in Threads, HandOver(t)
        PROVE  Generations'
    <3>1. UNCHANGED cancelGeneration
      BY <2>7 DEF HandOver
    <3>2. \A u \in Threads : waiter'[u].generation = waiter[u].generation
      BY <2>7, HandOverFacts
    <3> QED BY <3>1, <3>2
  <2>8. ASSUME NEW t \in Threads, WaitReturn(t)
        PROVE  Generations'
    BY <2>8 DEF WaitReturn, NoWaiter
  <2> QED
    BY <2>1, <2>2, <2>3, <2>4, <2>5, <2>6, <2>7, <2>8
       DEF Next, Call, Loop, Resume
<1>5. IInv /\ [Next]_vars => Scanned'
  <2> SUFFICES ASSUME IInv, [Next]_vars PROVE Scanned'
    OBVIOUS
  <2>0. /\ Len(queue) \in Nat
        /\ \A i \in 1..Len(queue) : queue[i] \in Threads
        /\ \A u \in Threads : waiter[u] \in Waiters /\ waiter[u].need \in Nat
        /\ tokenCount \in Nat /\ it \in Nat
        /\ waiter \in [Threads -> Waiters]
    BY CountAssumption, LenProperties, ElementOfSeq DEF IInv, TypeOK, Waiters
  <2> USE <2>0, ThreadsAssumption, CountAssumption DEF Scanned
  <2>11. mutex = NoThread =>
            \A u \in Threads : In(u, queue) => waiter[u].need > tokenCount
    BY DEF IInv, In
  <2>12. ASSUME queue' \in Seq(Threads),
                \A u \in Threads : In(u, queue') => waiter'[u].need > tokenCount'
         PROVE  Scanned'
    BY <2>12, LenProperties, ElementOfSeq DEF In
  <2>1. CASE UNCHANGED vars
    BY <2>1 DEF vars, semaphore, IInv
  <2>2. ASSUME NEW t \in Threads, NEW need \in 1..MaxCount,
               Poll(t, need) \/ WaitAtOnce(t, need)
        PROVE  Scanned'
    BY <2>2 DEF Poll, WaitAtOnce, IInv
  <2>3. ASSUME NEW t \in Threads, NEW need \in 1..MaxCount,
               NEW prio \in Priorities, NEW timed \in BOOLEAN,
               Block(t, need, prio, timed)
        PROVE  Scanned'
    <3>1. /\ pc[t] = "idle" /\ mutex = NoThread
          /\ tokenCount < need /\ tokenCount' = tokenCount
          /\ waiter'[t].need = need
          /\ \A u \in Threads \ {t} : waiter'[u] = waiter[u]
      BY <2>3 DEF Block, Enter
    <3>2. \A u \in Threads : In(u, queue') => waiter'[u].need > tokenCount'
      BY <2>3, <3>1, <2>11, BlockFacts DEF IInv
    <3> QED BY <2>3, <3>2, <2>12, BlockFacts DEF IInv
  <2>4. ASSUME NEW t \in Threads, NEW count \in 1..MaxCount, Signal(t, count)
        PROVE  Scanned'
    BY <2>4 DEF Signal
  <2>5. ASSUME NEW t \in Threads, NEW count \in -1..MaxCount, Cancel(t, count)
        PROVE  Scanned'
    BY <2>5 DEF Cancel
  <2>6. ASSUME NEW t \in Threads, PassOver(t)
        PROVE  Scanned'
    BY <2>6 DEF PassOver, semaphore, Holder, IInv
  <2>7. ASSUME NEW t \in Threads, SignalDone(t)
        PROVE  Scanned'
    BY <2>7 DEF SignalDone, semaphore, IInv
  <2>8. ASSUME NEW t \in Threads, HandOver(t)
        PROVE  Scanned'
    <3>1. UNCHANGED <<mutex, it>> /\ mutex # NoThread
      BY <2>8, HandOverFacts DEF HandOver, IInv
    <3>2. \A u \in Threads : waiter'[u].need = waiter[u].need
      BY <2>8, HandOverFacts DEF IInv
    <3>3. /\ tokenCount' <= tokenCount /\ tokenCount' \in Int
          /\ it \in 1..Len(queue)
          /\ Len(queue') = Len(queue) - 1
          /\ \A j \in 1..(Len(queue) - 1) : j < it => queue'[j] = queue[j]
      BY <2>8, HandOverFacts DEF IInv
    <3> QED BY <3>1, <3>2, <3>3 DEF IInv
  <2>9. ASSUME NEW t \in Threads, WaitReturn(t)
        PROVE  Scanned'
    <3>1. /\ mutex = NoThread /\ tokenCount' = tokenCount
          /\ \A u \in Threads \ {t} : waiter'[u] = waiter[u]
      BY <2>9 DEF WaitReturn
    <3>2. \A u \in Threads : In(u, queue') => waiter'[u].need > tokenCount'
      BY <2>9, <3>1, <2>11, ReturnFacts DEF IInv
    <3> QED BY <2>9, <3>2, <2>12, ReturnFacts DEF IInv
  <2>10. ASSUME NEW t \in Threads, Delete(t) \/ SleepAgain(t) \/ DeleteDone(t)
         PROVE  Scanned'
    BY <2>10 DEF Delete, SleepAgain, DeleteDone, semaphore, IInv
  <2> QED
    BY <2>1, <2>2, <2>3, <2>4, <2>5, <2>6, <2>7, <2>8, <2>9, <2>10
       DEF Next, Call, Loop, Resume
<1>6. IInv /\ [Next]_vars => QueueIsBlockedThreads'
  <2> SUFFICES ASSUME IInv, [Next]_vars PROVE QueueIsBlockedThreads'
    OBVIOUS
  <2> DEFINE Blocked(u) == /\ pc[u] = "wait"
                           /\ ~waiter[u].released
                           /\ waiter[u].generation = cancelGeneration
  <2>a. QueueIsBlockedThreads <=>
           Distinct(queue) /\ \A u \in Threads : In(u, queue) <=> Blocked(u)
    BY DEF QueueIsBlockedThreads, Queued, In, Distinct
  <2>b. QueueIsBlockedThreads' <=>
           Distinct(queue') /\ \A u \in Threads : In(u, queue') <=> Blocked(u)'
    BY DEF QueueIsBlockedThreads, Queued, In, Distinct
  <2>c. /\ waiter \in [Threads -> Waiters]
        /\ pc \in [Threads -> {"idle", "signal", "wait", "delete"}]
        /\ \A u \in Threads : waiter[u].generation \in Nat
        /\ cancelGeneration \in Nat
        /\ queue \in Seq(Threads)
    BY CancelAssumption DEF IInv, TypeOK, Waiters
  <2>d. Distinct(queue) /\ \A u \in Threads : In(u, queue) <=> Blocked(u)
    BY <2>a DEF IInv
  <2>1. ASSUME UNCHANGED <<queue, waiter, cancelGeneration>>,
               \A u \in Threads : pc'[u] = "wait" <=> pc[u] = "wait"
        PROVE  QueueIsBlockedThreads'
    BY <2>1, <2>b, <2>d
  <2>2. CASE UNCHANGED vars
    BY <2>1, <2>2 DEF vars, semaphore
  <2>3. ASSUME NEW t \in Threads, NEW n \in 1..MaxCount,
               Poll(t, n) \/ WaitAtOnce(t, n) \/ Signal(t, n)
        PROVE  QueueIsBlockedThreads'
    BY <2>c, <2>1, <2>3 DEF Poll, WaitAtOnce, Signal, Enter
  <2>4. ASSUME NEW t \in Threads,
               \/ Delete(t) \/ PassOver(t) \/ SignalDone(t)
               \/ SleepAgain(t) \/ DeleteDone(t)
        PROVE  QueueIsBlockedThreads'
    BY <2>c, <2>1, <2>4
       DEF Delete, PassOver, SignalDone, SleepAgain, DeleteDone, Enter, semaphore
  <2>5. ASSUME NEW t \in Threads, NEW need \in 1..MaxCount,
               NEW prio \in Priorities, NEW timed \in BOOLEAN,
               Block(t, need, prio, timed)
        PROVE  QueueIsBlockedThreads'
    <3>1. /\ pc[t] = "idle" /\ pc'[t] = "wait"
          /\ cancelGeneration' = cancelGeneration
          /\ ~waiter'[t].released
          /\ waiter'[t].generation = cancelGeneration
          /\ \A u \in Threads \ {t} : waiter'[u] = waiter[u] /\ pc'[u] = pc[u]
      BY <2>c, <2>5 DEF Block, Enter
    <3>2. ~In(t, queue)
      BY <2>d, <3>1
    <3>3. /\ \A u : In(u, queue') <=> In(u, queue) \/ u = t
          /\ Distinct(queue')
      BY <2>5, <2>d, <3>2, BlockFacts DEF IInv
    <3> QED BY <2>b, <2>d, <3>1, <3>3
  <2>6. ASSUME NEW t \in Threads, NEW count \in -1..MaxCount, Cancel(t, count)
        PROVE  QueueIsBlockedThreads'
    <3>1. /\ queue' = <<>> /\ cancelGeneration' = cancelGeneration + 1
          /\ UNCHANGED <<waiter, pc>>
      BY <2>6 DEF Cancel
    <3>2. \A u \in Threads : waiter[u].generation # cancelGeneration'
      BY <2>c, <3>1 DEF IInv, Generations
    <3>3. Distinct(queue') /\ \A u : ~In(u, queue')
      BY <3>1 DEF Distinct, In
    <3> QED BY <2>b, <3>1, <3>2, <3>3
  <2>7. ASSUME NEW t \in Threads, HandOver(t)
        PROVE  QueueIsBlockedThreads'
    <3>1. UNCHANGED <<pc, cancelGeneration>>
      BY <2>7 DEF HandOver
    <3>2. /\ it \in 1..Len(queue)
          /\ queue' = Erase(queue, it)
          /\ \A u \in Threads : /\ waiter'[u].generation = waiter[u].generation
                                /\ waiter'[u].released <=>
                                     waiter[u].released \/ u = queue[it]
      BY <2>7, HandOverFacts DEF IInv, HandOver
    <3>3. /\ \A u : In(u, queue') <=> In(u, queue) /\ u # queue[it]
          /\ Distinct(queue')
      BY <2>c, <2>d, <3>2, EraseFacts
    <3> QED BY <2>b, <2>d, <3>1, <3>2, <3>3
  <2>8. ASSUME NEW t \in Threads, WaitReturn(t)
        PROVE  QueueIsBlockedThreads'
    <3>1. /\ cancelGeneration' = cancelGeneration /\ pc'[t] = "idle"
          /\ \A u \in Threads \ {t} : waiter'[u] = waiter[u] /\ pc'[u] = pc[u]
      BY <2>c, <2>8 DEF WaitReturn
    <3>2. /\ \A u : In(u, queue') <=> In(u, queue) /\ u # t
          /\ Distinct(queue')
      BY <2>8, ReturnFacts DEF IInv
    <3> QED BY <2>b, <2>d, <3>1, <3>2
  <2> QED
    BY <2>2, <2>3, <2>4, <2>5, <2>6, <2>7, <2>8 DEF Next, Call, Loop, Resume
<1>7. IInv /\ [Next]_vars => IInv'
  BY <1>2, <1>3, <1>4, <1>5, <1>6 DEF IInv
<1> QED BY <1>1, <1>7, PTL DEF Spec

-----------------------------------------------------------------------------
\* The state of sceKernel*Sema is well typed; above all the token count stays
\* between zero and the maximum.
THEOREM TypeCorrect == Spec => []TypeOK
<1>1. IInv => TypeOK
  BY DEF IInv
<1> QED BY <1>1, Invariance, PTL

\* No call leaves a waiter queued that the remaining tokens would serve.
THEOREM NobodyServableIsLeft == Spec => []NoServableWaiter
<1>1. IInv => NoServableWaiter
  BY DEF IInv, Scanned, NoServableWaiter
<1> QED BY <1>1, Invariance, PTL

\* The queue holds exactly the blocked, unserved, uncancelled waits.
THEOREM QueueEntriesAreLive == Spec => []QueueIsBlockedThreads
<1>1. IInv => QueueIsBlockedThreads
  BY DEF IInv
<1> QED BY <1>1, Invariance, PTL

-----------------------------------------------------------------------------
\* The threads inside sceKernelWaitSema.
Waiting == {t \in Threads : pc[t] = "wait"}

\* waiterCount counts them, the deleter is alone, and nothing runs once freed.
CountInv ==
    /\ waiterCount = Cardinality(Waiting)
    /\ \A t, u \in Threads : pc[t] = "delete" /\ pc[u] = "delete" => t = u
    /\ \A t \in Threads : pc[t] = "delete" => deleted
    /\ FreedIsQuiet

\* The count of waiters holds in every reachable state, too.
LEMMA Counting == Spec => []CountInv
<1>1. Init => CountInv
  <2> SUFFICES ASSUME Init PROVE CountInv
    OBVIOUS
  <2>1. Waiting = {}
    BY DEF Init, Waiting
  <2> QED BY <2>1, FS_EmptySet DEF Init, CountInv, FreedIsQuiet
<1>2. IInv /\ CountInv /\ [Next]_vars => CountInv'
  <2> SUFFICES ASSUME IInv, CountInv, [Next]_vars PROVE CountInv'
    OBVIOUS
  <2>0. /\ pc \in [Threads -> {"idle", "signal", "wait", "delete"}]
        /\ IsFiniteSet(Waiting) /\ Cardinality(Waiting) \in Nat
        /\ \A t \in Threads : pc[t] = "signal" <=> mutex = t
        /\ NoThread \notin Threads
    BY ThreadsAssumption, FS_Subset, FS_CardinalityType
       DEF IInv, TypeOK, Waiting, Holder
  <2> USE <2>0 DEF CountInv, FreedIsQuiet
  <2>1. ASSUME UNCHANGED <<waiterCount, freed>>, deleted => deleted',
               Waiting' = Waiting, freed => UNCHANGED pc,
               \A u \in Threads : pc'[u] = "delete" => pc[u] = "delete"
        PROVE  CountInv'
    BY <2>1
  <2>2. CASE UNCHANGED vars
    BY <2>1, <2>2 DEF vars, semaphore, Waiting
  <2>3. ASSUME NEW t \in Threads, NEW n \in 1..MaxCount,
               Poll(t, n) \/ WaitAtOnce(t, n) \/ Signal(t, n)
        PROVE  CountInv'
    BY <2>1, <2>3 DEF Poll, WaitAtOnce, Signal, Enter, Waiting
  <2>4. ASSUME NEW t \in Threads, PassOver(t) \/ SignalDone(t) \/ SleepAgain(t)
        PROVE  CountInv'
    BY <2>1, <2>4 DEF PassOver, SignalDone, SleepAgain, semaphore, Waiting
  <2>5. ASSUME NEW t \in Threads, HandOver(t)
        PROVE  CountInv'
    BY <2>1, <2>5 DEF HandOver, Waiting
  <2>6. ASSUME NEW t \in Threads, NEW count \in -1..MaxCount, Cancel(t, count)
        PROVE  CountInv'
    BY <2>1, <2>6 DEF Cancel, Waiting
  <2>7. ASSUME NEW t \in Threads, NEW need \in 1..MaxCount,
               NEW prio \in Priorities, NEW timed \in BOOLEAN,
               Block(t, need, prio, timed)
        PROVE  CountInv'
    <3>1. /\ ~freed /\ pc[t] = "idle" /\ pc' = [pc EXCEPT ![t] = "wait"]
          /\ waiterCount' = waiterCount + 1 /\ UNCHANGED <<freed, deleted>>
      BY <2>7 DEF Block, Enter
    <3>2. Waiting' = Waiting \cup {t} /\ t \notin Waiting
      BY <3>1 DEF Waiting
    <3>3. Cardinality(Waiting') = Cardinality(Waiting) + 1
      BY <3>2, FS_AddElement
    <3> QED BY <3>1, <3>3
  <2>8. ASSUME NEW t \in Threads, WaitReturn(t)
        PROVE  CountInv'
    <3>1. /\ pc[t] = "wait" /\ pc' = [pc EXCEPT ![t] = "idle"]
          /\ waiterCount' = waiterCount - 1 /\ UNCHANGED <<freed, deleted>>
      BY <2>8 DEF WaitReturn
    <3>2. Waiting' = Waiting \ {t} /\ t \in Waiting
      BY <3>1 DEF Waiting
    <3>3. Cardinality(Waiting') = Cardinality(Waiting) - 1
      BY <3>2, FS_RemoveElement
    <3> QED BY <3>1, <3>3
  <2>9. ASSUME NEW t \in Threads, Delete(t)
        PROVE  CountInv'
    <3>1. /\ ~freed /\ ~deleted /\ deleted' /\ pc[t] = "idle"
          /\ pc' = [pc EXCEPT ![t] = "delete"] /\ UNCHANGED <<freed, waiterCount>>
      BY <2>9 DEF Delete, Enter
    <3>2. Waiting' = Waiting
      BY <3>1 DEF Waiting
    <3> QED BY <3>1, <3>2
  <2>10. ASSUME NEW t \in Threads, DeleteDone(t)
         PROVE  CountInv'
    <3>1. /\ pc[t] = "delete" /\ mutex = NoThread /\ waiterCount = 0
          /\ pc' = [pc EXCEPT ![t] = "idle"] /\ UNCHANGED <<deleted, waiterCount>>
      BY <2>10 DEF DeleteDone, MayReturn
    <3>2. Waiting = {}
      BY <3>1, FS_EmptySet
    <3>3. Waiting' = Waiting
      BY <3>1 DEF Waiting
    <3>4. \A u \in Threads : pc'[u] = "idle"
      BY <3>1, <3>2 DEF Waiting
    <3> QED BY <3>1, <3>3, <3>4
  <2> QED
    BY <2>2, <2>3, <2>4, <2>5, <2>6, <2>7, <2>8, <2>9, <2>10
       DEF Next, Call, Loop, Resume
<1> QED BY <1>1, <1>2, Invariance, PTL DEF Spec

\* The semaphore is freed only when no thread is inside any of its calls.
THEOREM FreedOnlyWhenQuiet == Spec => []FreedIsQuiet
<1>1. CountInv => FreedIsQuiet
  BY DEF CountInv
<1> QED BY <1>1, Counting, PTL

\* Tokens are handed over in queue order: nobody who needs at least as much is
\* served past an earlier waiter.
THEOREM ServedInOrder == Spec => NoOvertaking
<1> DEFINE Overtaken(i, j) ==
      (i < j /\ ~waiter[queue[j]].released /\ waiter'[queue[j]].released)
         => waiter[queue[i]].need > waiter[queue[j]].need
<1>1. ASSUME IInv, [Next]_vars, NEW i \in 1..Len(queue), NEW j \in 1..Len(queue)
      PROVE  Overtaken(i, j)
  <2>0. /\ \A k \in 1..Len(queue) : queue[k] \in Threads
        /\ \A u \in Threads : waiter[u].need \in Nat
        /\ Len(queue) \in Nat /\ waiter \in [Threads -> Waiters]
        /\ tokenCount \in Nat
    BY <1>1, CountAssumption, LenProperties, ElementOfSeq
       DEF IInv, TypeOK, Waiters
  <2>1. ASSUME NEW t \in Threads, HandOver(t)
        PROVE  Overtaken(i, j)
    <3>1. /\ it \in 1..Len(queue)
          /\ waiter[queue[it]].need <= tokenCount
          /\ \A u \in Threads : waiter'[u].released <=>
                                    waiter[u].released \/ u = queue[it]
      BY <1>1, <2>1, HandOverFacts DEF IInv
    <3>2. \A k \in 1..Len(queue) : queue[k] = queue[it] => k = it
      BY <1>1, <3>1 DEF IInv, QueueIsBlockedThreads
    <3>3. i < it => waiter[queue[i]].need > tokenCount
      BY <1>1 DEF IInv, Scanned
    <3> QED BY <2>0, <3>1, <3>2, <3>3
  <2>2. ASSUME \A u \in Threads : waiter'[u].released => waiter[u].released
        PROVE  Overtaken(i, j)
    BY <2>0, <2>2
  <2>3. ASSUME NEW t \in Threads, ~HandOver(t), Call(t) \/ Loop(t) \/ Resume(t)
        PROVE  \A u \in Threads : waiter'[u].released => waiter[u].released
    <3>1. CASE Call(t)
      BY <2>0, <3>1 DEF Call, Poll, WaitAtOnce, Block, Signal, Cancel, Delete
    <3>2. CASE Loop(t)
      BY <2>0, <2>3, <3>2 DEF Loop, PassOver, SignalDone
    <3>3. CASE Resume(t)
      BY <2>0, <3>3 DEF Resume, SleepAgain, WaitReturn, DeleteDone, NoWaiter
    <3> QED BY <2>3, <3>1, <3>2, <3>3
  <2>4. CASE UNCHANGED vars
    BY <2>2, <2>4 DEF vars
  <2> QED BY <1>1, <2>1, <2>2, <2>3, <2>4 DEF Next
<1>2. IInv /\ [Next]_vars =>
         [\A i, j \in 1..Len(queue) : Overtaken(i, j)]_vars
  BY <1>1
<1> QED BY <1>2, Invariance, PTL DEF Spec, NoOvertaking

\* A blocked wait returns OK exactly when its tokens were handed over.
THEOREM HandOverIsOutcome == Spec => OutcomeIsHandOver
<1>1. ASSUME TypeOK, [Next]_vars, NEW t \in Threads,
             pc[t] = "wait", pc'[t] = "idle"
      PROVE  result' = "OK" <=> waiter[t].released
  <2>1. PICK u \in Threads : Call(u) \/ Loop(u) \/ Resume(u)
    BY <1>1 DEF Next, vars
  <2>2. ASSUME ~WaitReturn(u)
        PROVE  FALSE
    <3> USE <1>1 DEF TypeOK
    <3>1. CASE Call(u)
      BY <3>1 DEF Call, Poll, WaitAtOnce, Block, Signal, Cancel, Delete, Enter
    <3>2. CASE Loop(u)
      BY <3>2 DEF Loop, PassOver, HandOver, SignalDone
    <3>3. CASE Resume(u)
      BY <2>2, <3>3 DEF Resume, SleepAgain, DeleteDone
    <3> QED BY <2>1, <3>1, <3>2, <3>3
  <2>3. WaitReturn(u) /\ u = t
    BY <1>1, <2>2 DEF WaitReturn, TypeOK
  <2> QED BY <2>3 DEF WaitReturn, WaitResult
<1>2. TypeOK /\ [Next]_vars =>
        [\A t \in Threads : (pc[t] = "wait" /\ pc'[t] = "idle")
            => (result' = "OK" <=> waiter[t].released)]_vars
  BY <1>1
<1> QED BY <1>2, TypeCorrect, PTL DEF Spec, OutcomeIsHandOver

-----------------------------------------------------------------------------
(* KernelSema implements TokenPool: its initial states are initial states  *)
(* of the pool, and each of its steps is a step of the pool or leaves the  *)
(* pool as it was.                                                         *)

\* The request and the clients of the pool, as the refinement mapping has them.
Asked == [t \in Threads |->
            [need    |-> waiter[t].need,
             urgency |-> IF priorityQueue THEN waiter[t].priority ELSE 0]]
Served == {t \in Threads : pc[t] = "wait" /\ waiter[t].released}
Answered == IF result = "none" THEN "none"
            ELSE IF result = "OK" THEN "granted" ELSE "refused"

\* What the pool sees of the semaphore.
Seen == <<tokenCount, queue, Asked, Waiting, Served, Answered, deleted, freed>>

LEMMA SeenIsPool == Seen = Pool!poolVars /\ Seen' = (Pool!poolVars)'
BY DEF Seen, Asked, Served, Answered, Waiting, Pool!poolVars

\* Each step of the semaphore is a step of the pool, or leaves it as it was.
LEMMA StepIsPoolStep ==
    ASSUME IInv, CountInv, Next
    PROVE  [Pool!Next]_Seen
\* What holds whenever a thread starts or resumes a call: the mutex is free, so
\* no request in the line could be served.
<1>1. ASSUME mutex = NoThread
      PROVE  Pool!Settled
  <2> USE <1>1
  <2>1. \A i \in 1..Len(queue) : queue[i] \in Threads
    BY ElementOfSeq DEF IInv, TypeOK
  <2>2. \A i \in 1..Len(queue) : waiter[queue[i]].need \in Int /\ tokenCount \in Int
    BY <2>1 DEF IInv, TypeOK, Waiters
  <2>3. \A i \in 1..Len(queue) : waiter[queue[i]].need > tokenCount
    BY DEF IInv, Scanned
  <2> QED BY <2>1, <2>2, <2>3 DEF Pool!Settled, Pool!Fits
<1>2. ASSUME NEW t \in Threads, Call(t)
      PROVE  [Pool!Next]_Seen
  <2> USE <1>2
  <2>1. Enter(t)
    BY DEF Call, Poll, WaitAtOnce, Block, Signal, Cancel, Delete
  <2>2. Pool!Settled /\ ~freed
    BY <2>1, <1>1 DEF Enter
  <2>3. SUFFICES ASSUME ~ UNCHANGED Seen
                 PROVE  Pool!Calm
    BY <2>2 DEF Pool!Next
  <2> USE DEF Waiting, Served, Asked, Answered
  <2>4. ASSUME NEW need \in 1..MaxCount, Poll(t, need)
        PROVE  Pool!Calm
    <3>1. Pool!Take(need)
      BY <2>4 DEF Poll, Pool!Take, IInv, TypeOK
    <3> QED BY <3>1 DEF Pool!Calm
  <2>5. ASSUME NEW need \in 1..MaxCount, WaitAtOnce(t, need)
        PROVE  Pool!Calm
    <3>1. ~deleted
      BY <2>3, <2>5 DEF WaitAtOnce, Seen
    <3>2. Pool!Take(need)
      BY <2>5, <3>1 DEF WaitAtOnce, Pool!Take, IInv, TypeOK
    <3> QED BY <3>2 DEF Pool!Calm
  <2>6. ASSUME NEW count \in 1..MaxCount, Signal(t, count)
        PROVE  Pool!Calm
    <3>1. pc[t] = "idle" /\ pc' = [pc EXCEPT ![t] = "signal"]
      BY <2>1, <2>6 DEF Signal, Enter
    <3>2. UNCHANGED <<Waiting, Served, Asked, Answered>>
      BY <2>6, <3>1 DEF Signal, IInv, TypeOK
    <3>3. Pool!Put(count)
      BY <2>6, <3>2 DEF Signal, Pool!Put
    <3> QED BY <3>3 DEF Pool!Calm
  <2>7. ASSUME NEW count \in -1..MaxCount, Cancel(t, count)
        PROVE  Pool!Calm
    <3>1. PICK n \in 0..MaxCount : tokenCount' = n
      BY <2>7, CountAssumption DEF Cancel, IInv, TypeOK
    <3>2. Pool!Reset(n)
      BY <2>7, <3>1 DEF Cancel, Pool!Reset
    <3> QED BY <3>2 DEF Pool!Calm
  <2>8. CASE Delete(t)
    <3>1. pc[t] = "idle" /\ pc' = [pc EXCEPT ![t] = "delete"]
      BY <2>1, <2>8 DEF Delete, Enter
    <3>2. UNCHANGED <<Waiting, Served, Asked, Answered>>
      BY <2>8, <3>1 DEF Delete, IInv, TypeOK
    <3>3. Pool!Close
      BY <2>8, <3>2 DEF Delete, Pool!Close
    <3> QED BY <3>3 DEF Pool!Calm
  <2>9. ASSUME NEW need \in 1..MaxCount, NEW prio \in Priorities,
               NEW timed \in BOOLEAN, Block(t, need, prio, timed)
        PROVE  Pool!Calm
    <3> DEFINE r == [need |-> need, urgency |-> IF priorityQueue THEN prio ELSE 0]
               w == [need |-> need, priority |-> prio, timed |-> timed,
                     released |-> FALSE, generation |-> cancelGeneration]
    <3>0. /\ r \in Pool!Requests
          /\ waiter \in [Threads -> Waiters] /\ tokenCount \in Nat
          /\ pc \in [Threads -> {"idle", "signal", "wait", "delete"}]
          /\ Len(queue) \in Nat
          /\ \A i \in 1..Len(queue) : queue[i] \in Threads
      BY PriorityAssumption, CountAssumption, LenProperties, ElementOfSeq
         DEF Pool!Requests, IInv, TypeOK
    <3>1. /\ ~deleted /\ need > tokenCount
          /\ waiter' = [waiter EXCEPT ![t] = w]
          /\ pc[t] = "idle" /\ pc' = [pc EXCEPT ![t] = "wait"]
          /\ UNCHANGED <<tokenCount, deleted, freed, result, priorityQueue>>
      BY <2>1, <2>9, <3>0 DEF Block, Enter
    <3>2. /\ Asked' = [Asked EXCEPT ![t] = r]
          /\ Waiting' = Waiting \cup {t} /\ t \notin Waiting
          /\ Served' = Served
      BY <3>0, <3>1
    <3>3. PICK i \in 1..(Len(queue) + 1) :
                IsPlaceFor(i, prio) /\ queue' = InsertBefore(queue, i, t)
      BY <2>9 DEF Block
    <3>4. /\ \A j \in 1..(i - 1) : Asked[queue[j]].urgency <= r.urgency
          /\ i - 1 < Len(queue) => Asked[queue[(i - 1) + 1]].urgency > r.urgency
      BY <3>0, <3>3 DEF IsPlaceFor
    <3>5. queue' = Pool!Joined(i - 1, t)
      BY <3>0, <3>3 DEF InsertBefore, Pool!Joined
    <3>6. \E n \in 0..Len(queue) :
                /\ \A j \in 1..n : Asked[queue[j]].urgency <= r.urgency
                /\ n < Len(queue) => Asked[queue[n + 1]].urgency > r.urgency
                /\ queue' = Pool!Joined(n, t)
      <4>1. i - 1 \in 0..Len(queue)
        BY <3>0
      <4> QED BY <3>4, <3>5, <4>1
    <3>7. PICK q \in Pool!Requests : q = r
      BY <3>0
    <3>8. Pool!Join(t, q)
      BY <3>1, <3>2, <3>6, <3>7 DEF Pool!Join
    <3> QED BY <3>8 DEF Pool!Calm
  <2> QED BY <2>4, <2>5, <2>6, <2>7, <2>8, <2>9 DEF Call
\* The loop of a signal: a hand-over serves the first of the line that fits,
\* the rest of it the pool does not see.
<1>3. ASSUME NEW t \in Threads, Loop(t)
      PROVE  [Pool!Next]_Seen
  <2> USE <1>3
  <2> USE DEF Waiting, Served, Asked, Answered
  <2>1. CASE PassOver(t)
    BY <2>1 DEF PassOver, semaphore, Seen
  <2>2. CASE SignalDone(t)
    <3>1. pc[t] = "signal" /\ pc' = [pc EXCEPT ![t] = "idle"]
      BY <2>2 DEF SignalDone
    <3>2. UNCHANGED <<Waiting, Served, Asked, Answered>>
      BY <2>2, <3>1 DEF SignalDone, semaphore, IInv, TypeOK
    <3> QED BY <2>2, <3>2 DEF SignalDone, semaphore, Seen
  <2>3. CASE HandOver(t)
    <3>1. /\ it \in 1..Len(queue)
          /\ queue[it] \in Threads
          /\ waiter[queue[it]].need <= tokenCount
          /\ \A u \in Threads : /\ waiter'[u].need = waiter[u].need
                                /\ waiter'[u].priority = waiter[u].priority
                                /\ waiter'[u].released <=>
                                     waiter[u].released \/ u = queue[it]
      BY <2>3, HandOverFacts DEF IInv
    <3>2. /\ tokenCount' = tokenCount - waiter[queue[it]].need
          /\ queue' = Erase(queue, it)
          /\ UNCHANGED <<priorityQueue, deleted, freed, pc, result>>
      BY <2>3 DEF HandOver
    <3>3. pc[queue[it]] = "wait"
      BY <3>1 DEF IInv, QueueIsBlockedThreads, Queued
    <3>4. Asked' = Asked /\ Waiting' = Waiting /\ Served' = Served \cup {queue[it]}
      BY <3>1, <3>2, <3>3
    <3>5. \A j \in 1..(it - 1) : /\ queue[j] \in Threads
                                  /\ waiter[queue[j]].need > tokenCount
      <4>1. \A j \in 1..(it - 1) : j \in 1..Len(queue) /\ j < it
        BY <3>1, LenProperties DEF IInv, TypeOK
      <4> QED BY <4>1, ElementOfSeq DEF IInv, TypeOK, Scanned
    <3>6. /\ Asked[queue[it]].need = waiter[queue[it]].need
          /\ Pool!Fits(queue[it])
      BY <3>1 DEF Pool!Fits
    <3>7. \A u \in Threads : waiter[u].need \in Int /\ tokenCount \in Int
      BY DEF IInv, TypeOK, Waiters
    <3>8. \A j \in 1..(it - 1) : ~Pool!Fits(queue[j])
      BY <3>5, <3>7 DEF Pool!Fits
    <3>9. queue' = Pool!Departed(it)
      BY <3>2 DEF Erase, Pool!Departed
    <3>10. UNCHANGED <<Asked, Waiting, Answered, deleted, freed>>
      BY <3>2, <3>4
    <3> HIDE DEF Waiting, Served, Asked, Answered
    <3>11. Pool!Serve
      BY <3>1, <3>2, <3>4, <3>6, <3>8, <3>9, <3>10
         DEF Pool!Serve, Waiting, Served, Asked, Answered
    <3> QED BY <3>11 DEF Pool!Next
  <2> QED BY <2>1, <2>2, <2>3 DEF Loop
\* The end of a wait is an answer, and the end of the deletion the pool's end.
<1>4. ASSUME NEW t \in Threads, Resume(t)
      PROVE  [Pool!Next]_Seen
  <2> USE <1>4
  <2> USE DEF Waiting, Served, Asked, Answered
  <2>0. mutex = NoThread /\ pc[t] # "idle"
    BY DEF Resume, SleepAgain, WaitReturn, DeleteDone
  <2>1. Pool!Settled /\ ~freed
    BY <2>0, <1>1 DEF CountInv, FreedIsQuiet
  <2>2. CASE SleepAgain(t)
    BY <2>2 DEF SleepAgain, semaphore, Seen
  <2>3. CASE DeleteDone(t)
    <3>1. /\ pc[t] = "delete" /\ waiterCount = 0
          /\ pc' = [pc EXCEPT ![t] = "idle"]
          /\ UNCHANGED <<tokenCount, queue, waiter, priorityQueue, deleted, result>>
          /\ freed' = TRUE
      BY <2>3 DEF DeleteDone, MayReturn
    <3>2. Waiting = {}
      BY <3>1, ThreadsAssumption, FS_Subset, FS_EmptySet DEF CountInv
    <3>3. UNCHANGED <<Waiting, Served, Asked, Answered>>
      BY <3>1 DEF IInv, TypeOK
    <3>4. deleted
      BY <3>1 DEF CountInv
    <3>5. Pool!Leave
      BY <3>1, <3>2, <3>3, <3>4 DEF Pool!Leave
    <3> QED BY <2>1, <3>5 DEF Pool!Next, Pool!Calm
  <2>4. CASE WaitReturn(t)
    <3>0. /\ waiter \in [Threads -> Waiters]
          /\ pc \in [Threads -> {"idle", "signal", "wait", "delete"}]
      BY DEF IInv, TypeOK
    <3>1. /\ pc[t] = "wait" /\ pc' = [pc EXCEPT ![t] = "idle"]
          /\ waiter' = [waiter EXCEPT ![t] = NoWaiter]
          /\ result' = WaitResult(t)
          /\ UNCHANGED <<tokenCount, priorityQueue, deleted, freed>>
      BY <2>4 DEF WaitReturn
    <3>2. /\ t \in Waiting /\ Waiting' = Waiting \ {t}
          /\ Served' = Served \ {t}
      BY <3>0, <3>1
    <3>3. Answered' = IF t \in Served THEN "granted" ELSE "refused"
      BY <3>1 DEF WaitResult
    <3>4. Asked' = [Asked EXCEPT ![t] = Pool!NoRequest]
      BY <3>0, <3>1 DEF NoWaiter, Pool!NoRequest
    <3>5. Queued(t) => ~waiter[t].released
      BY DEF IInv, QueueIsBlockedThreads
    <3>6. IF \E i \in 1..Len(queue) : queue[i] = t
            THEN \E i \in 1..Len(queue) : queue[i] = t /\ queue' = Pool!Departed(i)
            ELSE queue' = queue
      BY <2>4, <3>5 DEF WaitReturn, RemoveWaiter, Queued, Erase, Pool!Departed
    <3>7. Pool!Answer(t)
      BY <3>1, <3>2, <3>3, <3>4, <3>6 DEF Pool!Answer
    <3> QED BY <2>1, <3>7 DEF Pool!Next, Pool!Calm
  <2> QED BY <2>2, <2>3, <2>4 DEF Resume
<1> QED BY <1>2, <1>3, <1>4 DEF Next

\* The kernel semaphore implements the token pool: what any number of threads
\* does with it, a TokenPool could do.
THEOREM SemaphoreIsTokenPool == Spec => ImplementsTokenPool
<1>1. Init => Pool!Init
  <2> SUFFICES ASSUME Init PROVE Pool!Init
    OBVIOUS
  <2>1. Asked = [t \in Threads |-> Pool!NoRequest]
    BY DEF Init, Asked, NoWaiter, Pool!NoRequest
  <2>2. Waiting = {} /\ Served = {} /\ Answered = "none"
    BY DEF Init, Waiting, Served, Answered
  <2>3. tokenCount \in 0..MaxCount /\ queue = <<>> /\ deleted = FALSE /\ freed = FALSE
    BY DEF Init
  <2> QED BY <2>1, <2>2, <2>3 DEF Pool!Init, Asked, Waiting, Served, Answered
<1>2. IInv /\ CountInv /\ [Next]_vars => [Pool!Next]_(Pool!poolVars)
  <2> SUFFICES ASSUME IInv, CountInv, [Next]_vars
               PROVE  [Pool!Next]_Seen
    BY SeenIsPool
  <2>1. CASE UNCHANGED vars
    BY <2>1 DEF vars, semaphore, Seen, Asked, Served, Answered, Waiting
  <2>2. CASE Next
    BY <2>2, StepIsPoolStep
  <2> QED BY <2>1, <2>2
<1> QED BY <1>1, <1>2, Counting, Invariance, PTL
        DEF Spec, ImplementsTokenPool, Pool!Spec
=============================================================================
