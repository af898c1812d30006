------------------------------ MODULE ParkingLot ------------------------------
(***************************************************************************)
(* The parking lot behind guest mutexes on a Windows host, from            *)
(* libkernel/Time/include/TimedWait.hpp and Time/TimedWait.cpp, as         *)
(* Pthread/src/Mutex.cpp and Cond.cpp use it.                              *)
(*                                                                         *)
(* A thread that finds a mutex taken parks in the bucket of its address    *)
(* and looks once more before it sleeps.  An unlock frees the mutex and,   *)
(* in a second step, wakes the first thread parked for it, unless it reads *)
(* that the bucket is empty.  Mutexes that hash alike share a bucket.      *)
(*                                                                         *)
(* A thread that parks may be delivered a guest exception there.  Its      *)
(* handler then calls in, with a waiter of its own, while the call it      *)
(* interrupted stays in the bucket and does not go on.                     *)
(***************************************************************************)
EXTENDS Integers, Sequences, FiniteSets, SequencesExt

CONSTANTS Parkers,       \* the guest's threads
          Interrupted,   \* those of them that exceptions are delivered to
          Mutexes,       \* mutexes of one bucket
          None           \* no call, no mutex

VARIABLES
    holder,      \* per mutex: the call that has the native mutex
    bucket,      \* ParkBucket: its list
    parked,      \*   and its counter, which is read without the lock
    signaled,    \* the calls whose waiter's event is set
    pc,          \* none, counted, queued, asleep, leave, retry, last, cancel, unpark, wake
    key,         \* the mutex each call parks for or frees
    timed        \* has the call a deadline?

lot  == <<bucket, parked, signaled>>
call == <<pc, key, timed>>
vars == <<holder, lot, call>>

\* What a thread does by itself, and what it does in a handler.
Calls == (Parkers \X {"thread"}) \cup (Interrupted \X {"handler"})

Thread(c) == c[1]
Handler(t) == <<t, "handler">>

Free(m) == holder[m] = None
Holds(c, m) == holder[m] = c
OwnedByThread(t, m) == ~Free(m) /\ Thread(holder[m]) = t

Queued(c) == Contains(bucket, c)
Unlinked(c) == RemoveFirst(bucket, c)

\* AlertableWait and DrainApcs: where exceptions are delivered to a parked thread.
Deliverable(t) == pc[<<t, "thread">>] \in {"queued", "asleep", "retry", "last"}

\* Is the handler at work, as far as this module sees it?
Busy(c) == pc[c] # "none" \/ \E m \in Mutexes : Holds(c, m)

Goes(c) ==
    IF c[2] = "handler" THEN Deliverable(Thread(c)) \/ Busy(c)
    ELSE Thread(c) \in Interrupted => ~Busy(Handler(Thread(c)))

At(c, stage) == Goes(c) /\ pc[c] = stage
Step(c, to) == pc' = [pc EXCEPT ![c] = to] /\ UNCHANGED <<key, timed>>
Ends(c) ==
    /\ pc' = [pc EXCEPT ![c] = "none"]
    /\ key' = [key EXCEPT ![c] = None]
    /\ timed' = [timed EXCEPT ![c] = FALSE]

Init ==
    /\ holder = [m \in Mutexes |-> None]
    /\ bucket = <<>> /\ parked = 0 /\ signaled = {}
    /\ pc = [c \in Calls |-> "none"]
    /\ key = [c \in Calls |-> None]
    /\ timed = [c \in Calls |-> FALSE]

-----------------------------------------------------------------------------
(* Locking.                                                                *)

\* A free mutex is taken: by a spin, or by the native lock of a condition wait.
Take(c, m) ==
    /\ At(c, "none") /\ Free(m)
    /\ holder' = [holder EXCEPT ![m] = c]
    /\ UNCHANGED <<lot, call>>

\* ParkAcquire after its spins: BeginPark counts the waiter ...
BeginPark(c, m, deadline) ==
    /\ At(c, "none") /\ ~Free(m) /\ ~OwnedByThread(Thread(c), m)
    /\ parked' = parked + 1
    /\ pc' = [pc EXCEPT ![c] = "counted"]
    /\ key' = [key EXCEPT ![c] = m]
    /\ timed' = [timed EXCEPT ![c] = deadline]
    /\ UNCHANGED <<holder, bucket, signaled>>

\* ... and puts it at the end of the list.
Enqueue(c) ==
    /\ At(c, "counted")
    /\ bucket' = Append(bucket, c)
    /\ Step(c, "queued")
    /\ UNCHANGED <<holder, parked, signaled>>

\* Mutation: it goes to sleep without the second look.
SleepUnseeing(c) ==
    /\ At(c, "queued")
    /\ Step(c, "asleep")
    /\ UNCHANGED <<holder, lot>>

\* The second look.
LookAgain(c) ==
    /\ At(c, "queued")
    /\ IF Free(key[c])
         THEN holder' = [holder EXCEPT ![key[c]] = c] /\ Step(c, "cancel")
         ELSE Step(c, "asleep") /\ UNCHANGED holder
    /\ UNCHANGED lot

\* LeavePark and ReleaseParked: a waiter that was woken meanwhile takes the event.
Leaves(c) ==
    /\ bucket' = Unlinked(c)
    /\ signaled' = signaled \ {c}
    /\ parked' = parked - 1

\* CancelPark, with the mutex.
CancelPark(c) ==
    /\ At(c, "cancel")
    /\ Leaves(c)
    /\ Ends(c)
    /\ UNCHANGED holder

\* FinishPark, woken.
Woken(c) ==
    /\ At(c, "asleep") /\ c \in signaled
    /\ Leaves(c)
    /\ Step(c, "retry")
    /\ UNCHANGED holder

\* FinishPark at its deadline: out of time, with the event not set ...
Deadline(c) ==
    /\ At(c, "asleep") /\ timed[c] /\ c \notin signaled
    /\ Step(c, "leave")
    /\ UNCHANGED <<holder, lot>>

\* ... but a waiter that is not queued any more was woken all the same.
Leave(c) ==
    /\ At(c, "leave")
    /\ Leaves(c)
    /\ Step(c, IF Queued(c) THEN "last" ELSE "retry")
    /\ UNCHANGED holder

\* A woken thread that finds the mutex taken again parks again.
Retry(c) ==
    /\ At(c, "retry")
    /\ IF Free(key[c])
         THEN holder' = [holder EXCEPT ![key[c]] = c] /\ Ends(c) /\ UNCHANGED parked
         ELSE parked' = parked + 1 /\ Step(c, "counted") /\ UNCHANGED holder
    /\ UNCHANGED <<bucket, signaled>>

LastTry(c) ==
    /\ At(c, "last")
    /\ holder' = IF Free(key[c]) THEN [holder EXCEPT ![key[c]] = c] ELSE holder
    /\ Ends(c)
    /\ UNCHANGED lot

-----------------------------------------------------------------------------
(* Unlocking.                                                              *)

\* The native unlock of scePthreadMutexUnlock or of a condition wait.
Unlock(c, m) ==
    /\ At(c, "none") /\ Holds(c, m)
    /\ holder' = [holder EXCEPT ![m] = None]
    /\ pc' = [pc EXCEPT ![c] = "unpark"]
    /\ key' = [key EXCEPT ![c] = m]
    /\ UNCHANGED <<lot, timed>>

\* Unpark: the counter is read without the lock ...
Look(c) ==
    /\ At(c, "unpark")
    /\ IF parked = 0 THEN Ends(c) ELSE Step(c, "wake")
    /\ UNCHANGED <<holder, lot>>

\* ... and the first waiter of this mutex is unlinked and its event set.
Unpark(c) ==
    /\ At(c, "wake")
    /\ LET first == SelectInSeq(bucket, LAMBDA w : key[w] = key[c]) IN
          IF first = 0 THEN UNCHANGED <<bucket, signaled>>
          ELSE /\ bucket' = RemoveAt(bucket, first)
               /\ signaled' = signaled \cup {bucket[first]}
    /\ Ends(c)
    /\ UNCHANGED <<holder, parked>>

-----------------------------------------------------------------------------
Next == \E c \in Calls :
    \/ \E m \in Mutexes : Take(c, m) \/ Unlock(c, m) \/ \E d \in BOOLEAN : BeginPark(c, m, d)
    \/ Enqueue(c) \/ LookAgain(c) \/ CancelPark(c) \/ Woken(c) \/ Deadline(c) \/ Leave(c)
    \/ Retry(c) \/ LastTry(c) \/ Look(c) \/ Unpark(c)

Spec == Init /\ [][Next]_vars

-----------------------------------------------------------------------------
\* While a mutex is free and somebody sleeps for it, a wake is on its way: an
\* unlock is about to wake, or a thread that was woken has yet to try.  So no
\* wakeup falls between the counter, the list, a deadline and a second look.
WakeIsOnItsWay ==
    \A m \in Mutexes :
        (Free(m) /\ \E c \in Calls : pc[c] = "asleep" /\ Queued(c) /\ key[c] = m)
          => \E d \in Calls : /\ key[d] = m
                              /\ d \in signaled \/ pc[d] \in {"unpark", "wake", "retry"}

\* Not so for the thread a wake is meant for: it may be in a handler that waits
\* for what a thread asleep on the free mutex would do.
WakeIsNotHeldByHandler ==
    \A m \in Mutexes :
        (Free(m) /\ \E c \in Calls : pc[c] = "asleep" /\ Queued(c) /\ key[c] = m)
          => \E d \in Calls : /\ key[d] = m /\ Goes(d)
                              /\ d \in signaled \/ pc[d] \in {"unpark", "wake", "retry"}
=============================================================================
