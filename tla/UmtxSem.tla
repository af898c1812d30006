------------------------------ MODULE UmtxSem -------------------------------
(***************************************************************************)
(* The semaphore operations of _umtx_op, UMTX_OP_SEM_WAIT and SEM_WAKE,    *)
(* from libkernel/SyncOnAddress/src/SyncOnAddress.cpp, and the guest code  *)
(* they are made for: a guest takes from and adds to the count itself and  *)
(* calls the kernel to sleep, and to wake when hasWaiters says so.         *)
(***************************************************************************)
EXTENDS Integers, Sequences, FiniteSets, SequencesExt

CONSTANTS Threads, MaxCount   \* MaxCount: bound on the count

VARIABLES
    count, hasWaiters,  \* UserSemaphore, in guest memory
    queue,              \* the sleepers, under the bucket's mutex
    pc,                 \* idle, wait, asleep, woken, posted or wake
    timed               \* which sleepers have a deadline

vars == <<count, hasWaiters, queue, pc, timed>>

\* The bucket's mutex is held from the flag to the sleep.
BucketFree == \A t \in Threads : pc[t] # "marked"

Step(t, to) == pc' = [pc EXCEPT ![t] = to]

Init ==
    /\ count \in 0..MaxCount /\ hasWaiters = FALSE
    /\ queue = <<>>
    /\ pc = [t \in Threads |-> "idle"]
    /\ timed = {}

\* The guest takes a token, or calls the kernel to wait for one; after a wait
\* that succeeded it tries again.
Take(t) ==
    /\ pc[t] \in {"idle", "woken"} /\ count > 0
    /\ count' = count - 1
    /\ Step(t, "idle")
    /\ UNCHANGED <<hasWaiters, queue, timed>>

MustWait(t) ==
    /\ pc[t] \in {"idle", "woken"} /\ count = 0
    /\ Step(t, "wait")
    /\ UNCHANGED <<count, hasWaiters, queue, timed>>

\* Mutation: only the first waiter sets the flag.
MarkWaitingFirst(t) ==
    /\ pc[t] = "wait" /\ BucketFree
    /\ hasWaiters' = (queue = <<>>)
    /\ Step(t, "marked")
    /\ UNCHANGED <<count, queue, timed>>

\* SemWait's ready(), under the bucket's mutex: the flag is set first.  A post
\* that comes after it sees the flag; the count is read after it.
MarkWaiting(t) ==
    /\ pc[t] = "wait" /\ BucketFree
    /\ hasWaiters' = TRUE
    /\ Step(t, "marked")
    /\ UNCHANGED <<count, queue, timed>>

\* The count is not zero.
WaitAtOnce(t) ==
    /\ pc[t] = "marked" /\ count > 0
    /\ Step(t, "woken")
    /\ UNCHANGED <<count, hasWaiters, queue, timed>>

\* The count is zero: the thread sleeps, which releases the bucket's mutex.
Sleep(t, d) ==
    /\ pc[t] = "marked" /\ count = 0
    /\ queue' = Append(queue, t)
    /\ timed' = IF d THEN timed \cup {t} ELSE timed \ {t}
    /\ Step(t, "asleep")
    /\ UNCHANGED <<count, hasWaiters>>

\* queue.erase(position).
LeaveQueue(t) == \E p \in DOMAIN queue : queue[p] = t /\ queue' = RemoveAt(queue, p)

\* ETIMEDOUT; the flag stays as it is.
TimeOut(t) ==
    /\ pc[t] = "asleep" /\ t \in timed /\ BucketFree
    /\ LeaveQueue(t)
    /\ Step(t, "idle")
    /\ UNCHANGED <<count, hasWaiters, timed>>

\* The guest adds a token, ...
Post(t) ==
    /\ pc[t] = "idle" /\ count < MaxCount
    /\ count' = count + 1
    /\ Step(t, "posted")
    /\ UNCHANGED <<hasWaiters, queue, timed>>

\* ... reads the flag ...
PostRead(t) ==
    /\ pc[t] = "posted"
    /\ Step(t, IF hasWaiters THEN "wake" ELSE "idle")
    /\ UNCHANGED <<count, hasWaiters, queue, timed>>

\* WakeSemaphoreLocked clears the flag with the last waiter only, and does
\* nothing at all when nobody waits.
FlagAfterWake == IF Len(queue) = 1 THEN FALSE ELSE hasWaiters

\* ... and wakes the first sleeper: UMTX_OP_SEM_WAKE.
Wake(t) ==
    /\ pc[t] = "wake" /\ BucketFree
    /\ hasWaiters' = FlagAfterWake
    /\ IF queue = <<>>
         THEN Step(t, "idle") /\ UNCHANGED queue
         ELSE /\ pc' = [pc EXCEPT ![t] = "idle", ![Head(queue)] = "woken"]
              /\ queue' = Tail(queue)
    /\ UNCHANGED <<count, timed>>

\* One step of one thread.
Does(t) ==
    \/ Take(t) \/ MustWait(t) \/ MarkWaiting(t) \/ WaitAtOnce(t) \/ TimeOut(t)
    \/ \E d \in BOOLEAN : Sleep(t, d)
    \/ Post(t) \/ PostRead(t) \/ Wake(t)

Next == \E t \in Threads : Does(t)

Spec == Init /\ [][Next]_vars

-----------------------------------------------------------------------------
TypeOK ==
    /\ count \in 0..MaxCount /\ hasWaiters \in BOOLEAN
    /\ queue \in Seq(Threads) /\ timed \subseteq Threads
    /\ pc \in [Threads -> {"idle", "wait", "marked", "asleep", "woken", "posted", "wake"}]
    \* The entries of the queue are the sleepers' own, once each.
    /\ IsInjective(queue)
    /\ Range(queue) = {t \in Threads : pc[t] = "asleep"}

\* No post is lost: tokens and sleepers are never left together while no thread
\* is inside a call, though a post and a wait take several steps each.
NoStrandedSleeper ==
    (count > 0 /\ \A t \in Threads :
                     pc[t] = "idle" \/ (pc[t] = "asleep" /\ t \notin timed))
      => queue = <<>>
=============================================================================
