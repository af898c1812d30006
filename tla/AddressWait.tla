---------------------------- MODULE AddressWait -----------------------------
(***************************************************************************)
(* Waiting on an address: sceKernelSyncOnAddressWait and Wake and the wait *)
(* and wake operations of _umtx_op, from                                   *)
(* libkernel/SyncOnAddress/src/SyncOnAddress.cpp.  Words of guest memory   *)
(* are written by anybody at any time; the queue of sleepers of a word is  *)
(* kept under the mutex of the word's bucket.  The guest threads of this   *)
(* model follow the protocol these calls are made for: who writes a word   *)
(* then wakes those that wait on it.                                       *)
(***************************************************************************)
EXTENDS Integers, Sequences, FiniteSets, SequencesExt

CONSTANTS Threads, Words, Values,
          Counts      \* the counts a wake is called with

VARIABLES
    value,     \* the words
    waiters,   \* WaiterBucket::waiters: the queue of each word
    woken,     \* the threads whose AddressWaiter::woken is set
    pc,        \* idle, asleep, or wrote: a word was written and not yet woken
    wait,      \* the word, the expected value and the deadline of each wait
    toWake,    \* the words a thread has written or still has to wake
    result     \* what the wait returned that has just ended, if one has

vars == <<value, waiters, woken, pc, wait, toWake, result>>

Waits == [word : Words, expected : Values, timed : BOOLEAN]

NoWait == CHOOSE w \in Waits : TRUE

Least(n, m) == IF n < m THEN n ELSE m

\* Mutation: the loop ends with the first waiter.
WakenByOne(q, count) == Least(Len(q), 1)

\* How many of q WakeAddressLocked wakes: up to count, but at least one.
WakenBy(q, count) == Least(Len(q), IF count < 1 THEN 1 ELSE count)

Init ==
    /\ value \in [Words -> Values]
    /\ waiters = [a \in Words |-> <<>>]
    /\ woken = {}
    /\ pc = [t \in Threads |-> "idle"]
    /\ wait = [t \in Threads |-> NoWait]
    /\ toWake = [t \in Threads |-> {}]
    /\ result = "none"

\* EAGAIN: the word does not hold the expected value.
WaitDiffers(t, w) ==
    /\ pc[t] = "idle"
    /\ value[w.word] # w.expected
    /\ result' = "EAGAIN"
    /\ UNCHANGED <<value, waiters, woken, pc, wait, toWake>>

\* The word holds the expected value: the thread queues and sleeps.
WaitSleeps(t, w) ==
    /\ pc[t] = "idle"
    /\ value[w.word] = w.expected
    /\ waiters' = [waiters EXCEPT ![w.word] = Append(@, t)]
    /\ wait' = [wait EXCEPT ![t] = w]
    /\ pc' = [pc EXCEPT ![t] = "asleep"]
    /\ UNCHANGED <<value, woken, toWake>>

WaitResult(t) == IF t \in woken THEN "OK" ELSE "ETIMEDOUT"

\* A wait that was not woken takes its own entry off the queue.
LeaveQueue(t) ==
    IF t \in woken
      THEN UNCHANGED waiters
      ELSE LET a == wait[t].word IN
           \E p \in DOMAIN waiters[a] :
               /\ waiters[a][p] = t
               /\ waiters' = [waiters EXCEPT ![a] = RemoveAt(@, p)]

\* The wait ends: woken, or by its deadline.
WaitReturns(t) ==
    /\ pc[t] = "asleep"
    /\ t \in woken \/ wait[t].timed
    /\ LeaveQueue(t)
    /\ result' = WaitResult(t)
    /\ wait' = [wait EXCEPT ![t] = NoWait]
    /\ woken' = woken \ {t}
    /\ pc' = [pc EXCEPT ![t] = "idle"]
    /\ UNCHANGED <<value, toWake>>

\* A guest thread writes some words; it has to wake their waiters.
Write(t, words, v) ==
    /\ pc[t] = "idle"
    /\ value' = [a \in Words |-> IF a \in words THEN v ELSE value[a]]
    /\ toWake' = [toWake EXCEPT ![t] = words]
    /\ pc' = [pc EXCEPT ![t] = "wrote"]
    /\ UNCHANGED <<waiters, woken, wait>>

WakeUp(a, count) ==
    LET n == WakenBy(waiters[a], count) IN
    /\ waiters' = [waiters EXCEPT ![a] = SubSeq(@, n + 1, Len(@))]
    /\ woken' = woken \cup Range(SubSeq(waiters[a], 1, n))

\* sceKernelSyncOnAddressWake or UMTX_OP_WAKE for INT_MAX threads, and one
\* address of the list of UMTX_OP_NWAKE_PRIVATE.
WakeAll(t, a) ==
    /\ pc[t] = "wrote" /\ a \in toWake[t]
    /\ WakeUp(a, Cardinality(Threads))
    /\ toWake' = [toWake EXCEPT ![t] = @ \ {a}]
    /\ pc' = [pc EXCEPT ![t] = IF toWake[t] = {a} THEN "idle" ELSE "wrote"]
    /\ UNCHANGED <<value, wait>>

\* A wake of so many threads by somebody who wrote nothing.
WakeSome(t, a, count) ==
    /\ pc[t] = "idle"
    /\ WakeUp(a, count)
    /\ UNCHANGED <<value, pc, wait, toWake>>

\* One step of one thread.
Does(t) ==
    \/ \E w \in Waits : WaitDiffers(t, w)
    \/ WaitReturns(t)
    \/ /\ \/ \E w \in Waits : WaitSleeps(t, w)
          \/ \E words \in SUBSET Words \ {{}}, v \in Values : Write(t, words, v)
          \/ \E a \in Words : WakeAll(t, a) \/ \E n \in Counts : WakeSome(t, a, n)
       /\ result' = "none"

Next == \E t \in Threads : Does(t)

Spec == Init /\ [][Next]_vars

-----------------------------------------------------------------------------
TypeOK ==
    /\ value \in [Words -> Values]
    /\ waiters \in [Words -> Seq(Threads)]
    /\ \A a \in Words : Len(waiters[a]) <= Cardinality(Threads)
    /\ woken \subseteq Threads
    /\ pc \in [Threads -> {"idle", "asleep", "wrote"}]
    /\ wait \in [Threads -> Waits]
    /\ toWake \in [Threads -> SUBSET Words]
    /\ result \in {"none", "OK", "EAGAIN", "ETIMEDOUT"}

\* No write is missed: a thread sleeps on an old value only while the thread
\* that wrote the new one is still on its way to wake it.
NoMissedWrite ==
    \A t \in Threads :
        (pc[t] = "asleep" /\ t \notin woken /\ value[wait[t].word] # wait[t].expected)
          => \E u \in Threads : wait[t].word \in toWake[u]

=============================================================================
