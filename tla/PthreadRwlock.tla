---------------------------- MODULE PthreadRwlock ----------------------------
(***************************************************************************)
(* The read-write locks of scePthread and of pthread, from                 *)
(* libkernel/Pthread/src/Rwlock.cpp.  The guest keeps a pointer to the lock*)
(* in a slot of its memory; a null slot gets its lock on first use, by     *)
(* compare-and-swap, a destroyed one holds 1.  Each lock has a mutex, under*)
(* which every change but its creation is made, and a condition variable.  *)
(* A thread counts its read locks, of all locks together: while the count  *)
(* is not zero it may read although a writer waits.                        *)
(* The guest unlocks what it holds and destroys a lock only while no other *)
(* thread is inside a call on it.                                          *)
(***************************************************************************)
EXTENDS Integers, FiniteSets

CONSTANTS Threads, NoThread,
          Slots,          \* the guest's PthreadRwlock variables
          Locks,          \* the PthreadRwlockPrivate objects there may be
          Null, Destroyed,
          MaxReads,       \* bound on the read locks of one thread on one slot
          DestroyHeld     \* does the guest destroy locks that are held?

Write == -1

VARIABLES
    slot,           \* what each slot holds
    allocated,      \* the objects created and not deleted
    lock,           \* _writer, _readers and _waitingWriters of each object
    readLocksHeld,  \* the thread-local counter
    pc,             \* idle, create, enter or wait
    call,           \* the slot, kind and manner of each thread's call, and its lock
    asleep,         \* the threads blocked in the condition variable of their lock
    holds           \* what each thread holds of each slot: Write, or so many reads

shared == <<slot, allocated, lock>>
vars == <<shared, readLocksHeld, pc, call, asleep, holds>>

Calls == [slot : Slots, write : BOOLEAN, manner : {"block", "timed", "try"},
          lock : Locks \cup {Null}]

NewLock == [writer |-> NoThread, readers |-> 0, waitingWriters |-> 0]

Step(t, to) == pc' = [pc EXCEPT ![t] = to]

Waiters(l) == {t \in Threads : pc[t] = "wait" /\ call[t].lock = l}

\* TimedWait::Condition::NotifyAll.
NotifyAll(l) == asleep' = asleep \ Waiters(l)

ReaderMayEnter(t, l) ==
    /\ lock[l].writer = NoThread
    /\ lock[l].waitingWriters = 0 \/ readLocksHeld[t] # 0

WriterMayEnter(l) == lock[l].writer = NoThread /\ lock[l].readers = 0

MayEnter(t) ==
    IF call[t].write THEN WriterMayEnter(call[t].lock) ELSE ReaderMayEnter(t, call[t].lock)

\* scePthreadRwlockUnlock, and every other call, finds the lock of a slot.
IsLock(s) == slot[s] \in Locks

-----------------------------------------------------------------------------
Init ==
    /\ slot = [s \in Slots |-> Null]
    /\ allocated = {}
    /\ lock = [l \in Locks |-> NewLock]
    /\ readLocksHeld = [t \in Threads |-> 0]
    /\ pc = [t \in Threads |-> "idle"]
    /\ call = [t \in Threads |-> [slot |-> CHOOSE s \in Slots : TRUE, write |-> FALSE,
                                  manner |-> "try", lock |-> Null]]
    /\ asleep = {}
    /\ holds = [t \in Threads |-> [s \in Slots |-> 0]]

\* A lock call loads its slot (RequireRwlock).  The guest does not lock what it
\* holds for writing, nor write what it holds for reading.
Begin(t, c) ==
    /\ pc[t] = "idle" /\ slot[c.slot] # Destroyed
    /\ IF c.write THEN holds[t][c.slot] = 0 ELSE holds[t][c.slot] \in 0..(MaxReads - 1)
    /\ c.lock = slot[c.slot]
    /\ call' = [call EXCEPT ![t] = c]
    /\ Step(t, IF IsLock(c.slot) THEN "enter" ELSE "create")
    /\ UNCHANGED <<shared, readLocksHeld, asleep, holds>>

\* Mutation: the new lock is stored whatever the slot holds by now.
CreatesStore(s) == TRUE

\* The compare-and-swap of the first use.
Creates(s) == slot[s] = Null

\* ... a null slot gets a new lock, unless another thread was faster: then the
\* new lock is deleted and the other's is used.
Create(t) ==
    /\ pc[t] = "create"
    /\ LET s == call[t].slot IN
          IF Creates(s)
            THEN \E l \in Locks \ allocated :
                    /\ slot' = [slot EXCEPT ![s] = l]
                    /\ allocated' = allocated \cup {l}
                    /\ lock' = [lock EXCEPT ![l] = NewLock]
                    /\ call' = [call EXCEPT ![t].lock = l]
                    /\ Step(t, "enter")
            ELSE /\ call' = [call EXCEPT ![t].lock = IF IsLock(s) THEN slot[s] ELSE Null]
                 /\ Step(t, IF IsLock(s) THEN "enter" ELSE "idle")
                 /\ UNCHANGED shared
    /\ UNCHANGED <<readLocksHeld, asleep, holds>>

\* EnterRead and EnterWrite; a writer that waited is no longer counted.
Enter(t) ==
    /\ LET l == call[t].lock
           waited == IF pc[t] = "wait" /\ call[t].write THEN 1 ELSE 0 IN
       lock' = [lock EXCEPT ![l] =
           [writer         |-> IF call[t].write THEN t ELSE @.writer,
            readers        |-> IF call[t].write THEN @.readers ELSE @.readers + 1,
            waitingWriters |-> @.waitingWriters - waited]]
    /\ readLocksHeld' = [readLocksHeld EXCEPT ![t] = IF call[t].write THEN @ ELSE @ + 1]
    /\ holds' = [holds EXCEPT ![t][call[t].slot] =
           IF call[t].write THEN Write ELSE @ + 1]
    /\ Step(t, "idle")
    /\ UNCHANGED <<slot, allocated, call>>

\* Under the lock's mutex: the thread enters, ...
EnterAtOnce(t) ==
    /\ pc[t] = "enter" /\ MayEnter(t)
    /\ Enter(t)
    /\ UNCHANGED asleep

\* ... is refused (EBUSY), ...
Refuse(t) ==
    /\ pc[t] = "enter" /\ ~MayEnter(t) /\ call[t].manner = "try"
    /\ Step(t, "idle")
    /\ UNCHANGED <<shared, readLocksHeld, call, asleep, holds>>

\* ... or waits, and a writer is counted.
Wait(t) ==
    /\ pc[t] = "enter" /\ ~MayEnter(t) /\ call[t].manner # "try"
    /\ lock' = IF call[t].write
                 THEN [lock EXCEPT ![call[t].lock].waitingWriters = @ + 1]
                 ELSE lock
    /\ asleep' = asleep \cup {t}
    /\ Step(t, "wait")
    /\ UNCHANGED <<slot, allocated, readLocksHeld, call, holds>>

\* A notified thread, or one whose deadline has passed, finds its condition met.
EnterAfterWait(t) ==
    /\ pc[t] = "wait" /\ MayEnter(t)
    /\ t \notin asleep \/ call[t].manner = "timed"
    /\ Enter(t)
    /\ asleep' = asleep \ {t}

SleepAgain(t) ==
    /\ pc[t] = "wait" /\ ~MayEnter(t) /\ t \notin asleep
    /\ asleep' = asleep \cup {t}
    /\ UNCHANGED <<shared, readLocksHeld, pc, call, holds>>

\* Mutation: a writer that gives up tells nobody.
GiveUpNotifyNot(l) == asleep' = asleep

GiveUpNotify(l) == NotifyAll(l)

\* ETIMEDOUT; readers that a writer held back are told that it has left.
TimeOut(t) ==
    /\ pc[t] = "wait" /\ ~MayEnter(t) /\ call[t].manner = "timed"
    /\ IF call[t].write
         THEN /\ lock' = [lock EXCEPT ![call[t].lock].waitingWriters = @ - 1]
              /\ GiveUpNotify(call[t].lock)
         ELSE asleep' = asleep \ {t} /\ UNCHANGED lock
    /\ Step(t, "idle")
    /\ UNCHANGED <<slot, allocated, readLocksHeld, call, holds>>

\* A read unlock counts the thread's read locks down.
CountedDown(t) == IF readLocksHeld[t] # 0 THEN readLocksHeld[t] - 1 ELSE 0

\* scePthreadRwlockUnlock by a holder; the last reader and a writer notify.
Unlock(t, s) ==
    /\ pc[t] = "idle" /\ holds[t][s] # 0 /\ IsLock(s)
    /\ LET l == slot[s] IN
       IF lock[l].writer = t
         THEN /\ lock' = [lock EXCEPT ![l].writer = NoThread]
              /\ NotifyAll(l)
              /\ UNCHANGED readLocksHeld
         ELSE /\ lock[l].writer = NoThread /\ lock[l].readers # 0
              /\ lock' = [lock EXCEPT ![l].readers = @ - 1]
              /\ IF lock[l].readers = 1 THEN NotifyAll(l) ELSE UNCHANGED asleep
              /\ readLocksHeld' = [readLocksHeld EXCEPT ![t] = CountedDown(t)]
    /\ holds' = [holds EXCEPT ![t][s] = IF @ = Write THEN 0 ELSE @ - 1]
    /\ UNCHANGED <<slot, allocated, pc, call>>

\* scePthreadRwlockDestroy: a lock that is held is not deleted and leaks; its
\* holders can no longer unlock it (EINVAL).
Destroy(t, s) ==
    /\ pc[t] = "idle" /\ IsLock(s)
    /\ \A u \in Threads : pc[u] # "idle" => call[u].slot # s
    /\ LET l == slot[s]
           free == lock[l].writer = NoThread /\ lock[l].readers = 0 IN
          /\ free \/ DestroyHeld
          /\ slot' = [slot EXCEPT ![s] = Destroyed]
          /\ allocated' = IF free THEN allocated \ {l} ELSE allocated
    /\ holds' = [u \in Threads |-> [holds[u] EXCEPT ![s] = 0]]
    /\ UNCHANGED <<lock, readLocksHeld, pc, call, asleep>>

\* scePthreadRwlockInit of a slot that has no lock.
InitLock(t, s) ==
    /\ pc[t] = "idle" /\ ~IsLock(s)
    /\ \A u \in Threads : pc[u] # "idle" => call[u].slot # s
    /\ \E l \in Locks \ allocated :
          /\ slot' = [slot EXCEPT ![s] = l]
          /\ allocated' = allocated \cup {l}
          /\ lock' = [lock EXCEPT ![l] = NewLock]
    /\ UNCHANGED <<readLocksHeld, pc, call, asleep, holds>>

Next == \E t \in Threads :
    \/ \E c \in Calls : Begin(t, c)
    \/ Create(t) \/ EnterAtOnce(t) \/ Refuse(t) \/ Wait(t)
    \/ EnterAfterWait(t) \/ SleepAgain(t) \/ TimeOut(t)
    \/ \E s \in Slots : Unlock(t, s) \/ Destroy(t, s) \/ InitLock(t, s)

Spec == Init /\ [][Next]_vars

-----------------------------------------------------------------------------
TypeOK ==
    /\ slot \in [Slots -> Locks \cup {Null, Destroyed}]
    /\ allocated \subseteq Locks
    /\ lock \in [Locks -> [writer : Threads \cup {NoThread}, readers : Nat,
                           waitingWriters : Nat]]
    /\ readLocksHeld \in [Threads -> Nat]
    /\ pc \in [Threads -> {"idle", "create", "enter", "wait"}]
    /\ call \in [Threads -> Calls]
    /\ asleep \subseteq Threads
    /\ holds \in [Threads -> [Slots -> Write..MaxReads]]
    \* Only the lock of a slot can be waited for.
    /\ \A t \in Threads : pc[t] \in {"enter", "wait"} => slot[call[t].slot] = call[t].lock

\* A slot excludes, from its very first use: whoever writes is alone.
Exclusion ==
    \A s \in Slots, t, u \in Threads :
        holds[t][s] = Write /\ holds[u][s] # 0 => t = u

\* Nobody sleeps on a condition that is met: each change that admits a sleeper
\* notifies it, also the leaving of a writer that held readers back.
NoMissedNotify ==
    \A t \in asleep : ~MayEnter(t)

\* A waiting writer is not overtaken for ever: a thread that holds no read lock
\* at all does not read past it.
WaitingWriterHoldsBackNewReaders ==
    [][\A t \in Threads :
          (pc[t] \in {"enter", "wait"} /\ ~call[t].write /\ pc'[t] = "idle"
             /\ holds'[t] # holds[t] /\ lock[call[t].lock].waitingWriters # 0)
           => \E s \in Slots : holds[t][s] > 0]_vars
=============================================================================
