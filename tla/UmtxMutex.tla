----------------------------- MODULE UmtxMutex -----------------------------
(***************************************************************************)
(* The umutex and ucond operations of _umtx_op, from                       *)
(* libkernel/SyncOnAddress/src/SyncOnAddress.cpp: the owner word of one    *)
(* mutex and the has-waiters word of one condition variable, both in guest *)
(* memory, and the queue of sleeping threads of each, every one under its  *)
(* bucket's mutex.  Changes of the owner word are not made under it, so    *)
(* that the steps of an unlock, and the two halves of a failed attempt to  *)
(* lock, interleave with other threads.                                    *)
(***************************************************************************)
EXTENDS Integers, Sequences, FiniteSets, SequencesExt

CONSTANTS Threads, NoThread, TimedCalls  \* TimedCalls: which calls may have a deadline

CallNames == {"lock", "wait", "cv", "wake"}

VARIABLES
    owner, contested,   \* the owner word: its thread id and UMUTEX_CONTESTED
    queue,              \* the waiters under &mutex->owner
    hasWaiters,         \* UserCondition::hasWaiters
    cvQueue,            \* the waiters under the condition's address
    pc,                 \* where each thread is in its call
    call, timed,        \* its call, and whether that has a deadline
    several,            \* WaiterCount(key) > 1, as an unlock has read it
    cvWoken,            \* the waiters of the condition that were signalled
    granted             \* the threads whose last lock call returned 0

word == <<owner, contested>>
cv == <<hasWaiters, cvQueue, cvWoken>>
args == <<call, timed>>
vars == <<word, queue, cv, pc, args, several, granted>>

Step(t, to) == pc' = [pc EXCEPT ![t] = to]

\* The mutex's bucket is held from a failed attempt to the sleep that follows it.
BucketFree == \A t \in Threads : pc[t] # "mark"

Unowned == owner = NoThread

\* What follows an unlock: the end of the call, or the sleep of a condition wait.
AfterUnlock(t) == IF call[t] = "cv" THEN "cvSleep" ELSE "idle"

-----------------------------------------------------------------------------
Init ==
    /\ owner = NoThread /\ contested = FALSE
    /\ queue = <<>>
    /\ hasWaiters = FALSE /\ cvQueue = <<>> /\ cvWoken = {}
    /\ pc = [t \in Threads |-> "idle"]
    /\ call = [t \in Threads |-> "lock"]
    /\ timed = [t \in Threads |-> FALSE]
    /\ several = [t \in Threads |-> FALSE]
    /\ granted = {}

\* UMTX_OP_MUTEX_LOCK, or UMTX_OP_MUTEX_WAIT, which waits but does not acquire.
Begin(t, c, d) ==
    /\ pc[t] = "idle" /\ t \notin granted
    /\ c \in {"lock", "wait"} /\ (d => c \in TimedCalls)
    /\ call' = [call EXCEPT ![t] = c]
    /\ timed' = [timed EXCEPT ![t] = d]
    /\ Step(t, "try")
    /\ UNCHANGED <<word, queue, cv, several, granted>>

\* TryAcquireMutex: free, contested or not, or already the caller's.
MayAcquire(t) == Unowned \/ owner = t

\* The compare-and-swap succeeds; the contested bit stays as it is.
Acquire(t) ==
    /\ pc[t] = "try" /\ BucketFree /\ call[t] = "lock"
    /\ MayAcquire(t)
    /\ owner' = t
    /\ granted' = granted \cup {t}
    /\ Step(t, "idle")
    /\ UNCHANGED <<contested, queue, cv, args, several>>

\* UMTX_OP_MUTEX_WAIT finds the mutex free.
FoundFree(t) ==
    /\ pc[t] = "try" /\ BucketFree /\ call[t] = "wait"
    /\ Unowned
    /\ Step(t, "returned")
    /\ UNCHANGED <<word, queue, cv, args, several, granted>>

\* The attempt fails, under the bucket's mutex, ...
Fail(t) ==
    /\ pc[t] = "try" /\ BucketFree
    /\ ~Unowned /\ owner # t
    /\ Step(t, "mark")
    /\ UNCHANGED <<word, queue, cv, args, several, granted>>

\* ... and MarkContested marks the owner there is by then, if any.  The thread
\* queues and sleeps, which releases the bucket.
MarkAndSleep(t) ==
    /\ pc[t] = "mark"
    /\ contested' = (contested \/ ~Unowned)
    /\ queue' = Append(queue, t)
    /\ Step(t, "asleep")
    /\ UNCHANGED <<owner, cv, args, several, granted>>

\* queue.erase(position).
LeaveQueue(t) == \E p \in DOMAIN queue : queue[p] = t /\ queue' = RemoveAt(queue, p)

\* The deadline passes while the thread is still queued: ETIMEDOUT.
TimeOut(t) ==
    /\ pc[t] = "asleep" /\ BucketFree /\ timed[t]
    /\ LeaveQueue(t)
    /\ Step(t, "idle")
    /\ UNCHANGED <<word, cv, args, several, granted>>

\* A woken thread tries again, or returns from UMTX_OP_MUTEX_WAIT.
Woken(t) ==
    /\ pc[t] = "woken"
    /\ Step(t, IF call[t] = "lock" THEN "try" ELSE "returned")
    /\ UNCHANGED <<word, queue, cv, args, several, granted>>

\* UMTX_OP_MUTEX_TRYLOCK: by any thread, and by one that UMTX_OP_MUTEX_WAIT told
\* that the mutex is free.
Trylock(t) ==
    /\ pc[t] \in {"idle", "returned"}
    /\ IF MayAcquire(t)
         THEN owner' = t /\ granted' = granted \cup {t}
         ELSE UNCHANGED <<owner, granted>>
    /\ Step(t, "idle")
    /\ UNCHANGED <<contested, queue, cv, args, several>>

-----------------------------------------------------------------------------
\* UMTX_OP_MUTEX_UNLOCK finds the caller the owner (EPERM otherwise).
Unlock(t) ==
    /\ pc[t] = "idle" /\ owner = t
    /\ call' = [call EXCEPT ![t] = "lock"]
    /\ granted' = granted \ {t}
    /\ Step(t, "unlockCount")
    /\ UNCHANGED <<word, queue, cv, timed, several>>

\* WaiterCount, in a critical section of its own, ...
Count(t) ==
    /\ pc[t] = "unlockCount" /\ BucketFree
    /\ several' = [several EXCEPT ![t] = Len(queue) > 1]
    /\ Step(t, "unlockStore")
    /\ UNCHANGED <<word, queue, cv, args, granted>>

\* ... the store that frees the mutex, ...
Store(t) ==
    /\ pc[t] = "unlockStore"
    /\ owner' = NoThread /\ contested' = several[t]
    /\ Step(t, "unlockWake")
    /\ UNCHANGED <<queue, cv, args, several, granted>>

\* Mutation: an unlock wakes nobody when it stored UMUTEX_UNOWNED.
WakesOneIfContested(t) == contested

\* Does WakeAddress(key, 1, false) look at the queue?  Always.
WakesOne(t) == TRUE

\* ... and WakeAddress for the first waiter.
WakeFirst(t) ==
    /\ pc[t] = "unlockWake" /\ BucketFree
    /\ IF queue = <<>> \/ ~WakesOne(t)
         THEN Step(t, AfterUnlock(t)) /\ UNCHANGED queue
         ELSE /\ pc' = [pc EXCEPT ![t] = AfterUnlock(t), ![Head(queue)] = "woken"]
              /\ queue' = Tail(queue)
    /\ UNCHANGED <<word, cv, args, several, granted>>

\* UMTX_OP_MUTEX_WAKE returns at once while the mutex is owned, ...
MutexWake(t) ==
    /\ pc[t] = "idle"
    /\ Unowned
    /\ call' = [call EXCEPT ![t] = "wake"]
    /\ Step(t, "wakeCount")
    /\ UNCHANGED <<word, queue, cv, timed, several, granted>>

\* ... counts the waiters, ...
WakeCount(t) ==
    /\ pc[t] = "wakeCount" /\ BucketFree
    /\ several' = [several EXCEPT ![t] = Len(queue) > 1]
    /\ Step(t, "wakeClear")
    /\ UNCHANGED <<word, queue, cv, args, granted>>

\* Mutation: the mutex is made unowned whoever has it by now.
ClearsStore(t) == ~several[t]

\* The compare-and-swap succeeds on UMUTEX_CONTESTED alone.
Clears(t) == ~several[t] /\ Unowned

\* ... clears the contested bit unless several wait, then wakes one.
WakeClear(t) ==
    /\ pc[t] = "wakeClear"
    /\ IF Clears(t) THEN owner' = NoThread /\ contested' = FALSE ELSE UNCHANGED word
    /\ Step(t, "unlockWake")
    /\ UNCHANGED <<queue, cv, args, several, granted>>

-----------------------------------------------------------------------------
\* UMTX_OP_CV_WAIT queues the caller before it unlocks the mutex.
CvWait(t, d) ==
    /\ pc[t] = "idle" /\ (d => "cv" \in TimedCalls)
    /\ call' = [call EXCEPT ![t] = "cv"]
    /\ timed' = [timed EXCEPT ![t] = d]
    /\ hasWaiters' = TRUE
    /\ cvQueue' = Append(cvQueue, t)
    /\ cvWoken' = cvWoken \ {t}
    /\ granted' = granted \ {t}
    /\ Step(t, IF owner = t THEN "unlockCount" ELSE "cvRefused")
    /\ UNCHANGED <<word, queue, several>>

\* Mutation: the flag is cleared by whoever leaves.
CvFlagAfterCleared(q) == FALSE

\* hasWaiters once the queue is q: whoever empties it clears the flag.
CvFlagAfter(q) == IF q = <<>> THEN FALSE ELSE hasWaiters

CvLeaveQueue(t) ==
    \E p \in DOMAIN cvQueue :
        /\ cvQueue[p] = t
        /\ cvQueue' = RemoveAt(cvQueue, p)
        /\ hasWaiters' = CvFlagAfter(RemoveAt(cvQueue, p))

\* The caller did not own the mutex: EPERM, and off the queue unless a signal
\* was faster.
CvRefuse(t) ==
    /\ pc[t] = "cvRefused"
    /\ IF t \in cvWoken THEN UNCHANGED <<cvQueue, hasWaiters>> ELSE CvLeaveQueue(t)
    /\ Step(t, "idle")
    /\ UNCHANGED <<word, queue, cvWoken, args, several, granted>>

\* The wait ends: signalled, or by its deadline (ETIMEDOUT).
CvReturn(t) ==
    /\ pc[t] = "cvSleep"
    /\ IF t \in cvWoken THEN UNCHANGED <<cvQueue, hasWaiters>>
                        ELSE timed[t] /\ CvLeaveQueue(t)
    /\ Step(t, "idle")
    /\ UNCHANGED <<word, queue, cvWoken, args, several, granted>>

\* UMTX_OP_CV_SIGNAL and UMTX_OP_CV_BROADCAST.
CvWake(t, all) ==
    /\ pc[t] = "idle"
    /\ LET left == IF all \/ cvQueue = <<>> THEN <<>> ELSE Tail(cvQueue) IN
          /\ cvQueue' = left
          /\ hasWaiters' = CvFlagAfter(left)
          /\ cvWoken' = cvWoken \cup (Range(cvQueue) \ Range(left))
    /\ UNCHANGED <<word, queue, pc, args, several, granted>>

Next == \E t \in Threads :
    \/ \E d \in BOOLEAN : CvWait(t, d) \/ \E c \in CallNames : Begin(t, c, d)
    \/ Acquire(t) \/ FoundFree(t) \/ Fail(t) \/ MarkAndSleep(t) \/ TimeOut(t) \/ Woken(t)
    \/ Trylock(t) \/ Unlock(t) \/ Count(t) \/ Store(t) \/ WakeFirst(t)
    \/ MutexWake(t) \/ WakeCount(t) \/ WakeClear(t)
    \/ CvRefuse(t) \/ CvReturn(t) \/ \E all \in BOOLEAN : CvWake(t, all)

Spec == Init /\ [][Next]_vars

-----------------------------------------------------------------------------
TypeOK ==
    /\ owner \in Threads \cup {NoThread} /\ contested \in BOOLEAN
    /\ queue \in Seq(Threads) /\ cvQueue \in Seq(Threads)
    /\ hasWaiters \in BOOLEAN /\ cvWoken \subseteq Threads
    /\ pc \in [Threads -> {"idle", "try", "mark", "asleep", "woken", "returned",
                           "unlockCount", "unlockStore", "unlockWake",
                           "wakeCount", "wakeClear", "cvRefused", "cvSleep"}]
    /\ call \in [Threads -> CallNames] /\ timed \in [Threads -> BOOLEAN]
    /\ several \in [Threads -> BOOLEAN]
    /\ granted \subseteq Threads
    \* The entries of the queue are the sleepers' own, once each.
    /\ IsInjective(queue) /\ IsInjective(cvQueue)
    /\ Range(queue) = {t \in Threads : pc[t] = "asleep"}

\* A thread that was granted the mutex has it until it unlocks: the store of an
\* unlock and the compare-and-swap of UMTX_OP_MUTEX_WAKE hit nobody else's.
GrantedIsOwner ==
    \A t \in Threads :
        t \in granted \/ pc[t] \in {"unlockCount", "unlockStore"} => owner = t

\* No wakeup is lost: while the mutex is free and no thread is inside a call that
\* could still do so, nobody sleeps for it for good.
NoStrandedWaiter ==
    (Unowned /\ \A t \in Threads :
                   pc[t] \in {"idle", "cvSleep"} \/ (pc[t] = "asleep" /\ ~timed[t]))
      => \A t \in Threads : pc[t] # "asleep"

\* A condition wait lets go of the mutex and becomes reachable by a signal at
\* once: from the unlock on it is queued or was signalled, and the flag that
\* tells a signaller to call the kernel is set while anybody is queued.
CvWaiterIsReachable ==
    /\ \A t \in Threads :
          pc[t] \in {"unlockCount", "unlockStore", "unlockWake", "cvSleep"} /\ call[t] = "cv"
            => t \in Range(cvQueue) \cup cvWoken
    /\ cvQueue # <<>> => hasWaiters
=============================================================================
