----------------------------- MODULE UmtxRwlock -----------------------------
(***************************************************************************)
(* The urwlock operations of _umtx_op, from                                *)
(* libkernel/SyncOnAddress/src/SyncOnAddress.cpp: a lock whose state word  *)
(* lies in guest memory, changed by compare-and-swap, and two queues of    *)
(* sleeping threads, one under the key &state for the readers and one under*)
(* &blockedWriters for the writers.  The two keys lie in different buckets *)
(* and no thread holds both bucket mutexes.  What a thread does under one  *)
(* bucket mutex is one action: it changes the state word at most once, and *)
(* the queue and the blocked count only there.                             *)
(***************************************************************************)
EXTENDS Integers, Sequences, FiniteSets, SequencesExt

CONSTANTS Threads,        \* the guest threads
          MaxReaders,     \* URWLOCK_MAX_READERS
          PreferReaders   \* the values of URWLOCK_PREFER_READER in the flags

Kinds == {"read", "write"}

ASSUME ThreadsAssumption == IsFiniteSet(Threads)
ASSUME ReadersAssumption == MaxReaders \in Nat \ {0}
ASSUME FlagsAssumption == PreferReaders \subseteq BOOLEAN

VARIABLES
    state,         \* the state word: owner, readers and the two waiter bits
    preferReader,  \* URWLOCK_PREFER_READER of UserRwlock::flags
    blocked,       \* blockedReaders and blockedWriters
    queue,         \* the waiters of each key, first come first
    pc,            \* idle, try, asleep, woken, timedOut, wakeRead or wakeWrite
    call,          \* the arguments of each thread's lock call
    holds,         \* what each thread has locked: none, read or write
    gaveUp         \* has a waiter timed out that a wake may have relied on?

vars == <<state, preferReader, blocked, queue, pc, call, holds, gaveUp>>

Calls == [kind : Kinds, prefer : BOOLEAN, timed : BOOLEAN]

-----------------------------------------------------------------------------
\* The lock is free for a call, as its ready() decides.
Free(c) ==
    IF c.kind = "write"
      THEN ~state.owner /\ state.readers = 0
      ELSE ~state.owner /\ (preferReader \/ c.prefer \/ ~state.waiters["write"])

Full == state.readers = MaxReaders

WithWaiterBit(k, b) == [state EXCEPT !.waiters[k] = b]

\* Mutation: readers are woken only when no writer was ever in the way.
WakesNoReaders(s) ==
    IF s.readers # 0 THEN "idle"
    ELSE IF s.waiters["write"] THEN "wakeWrite"
    ELSE "idle"

\* The queue an unlock leaving the state s wakes: WakeAddress is called for one
\* writer or for every reader, or not at all.
Wakes(s) ==
    IF s.readers # 0 THEN "idle"
    ELSE IF s.waiters["write"] /\ (~preferReader \/ ~s.waiters["read"]) THEN "wakeWrite"
    ELSE IF s.waiters["read"] THEN "wakeRead"
    ELSE "idle"

Step(t, to) == pc' = [pc EXCEPT ![t] = to]

-----------------------------------------------------------------------------
Init ==
    /\ state = [owner |-> FALSE, readers |-> 0, waiters |-> [k \in Kinds |-> FALSE]]
    /\ preferReader \in PreferReaders
    /\ blocked = [k \in Kinds |-> 0]
    /\ queue = [k \in Kinds |-> <<>>]
    /\ pc = [t \in Threads |-> "idle"]
    /\ call = [t \in Threads |-> [kind |-> "read", prefer |-> FALSE, timed |-> FALSE]]
    /\ holds = [t \in Threads |-> "none"]
    /\ gaveUp = FALSE

\* UMTX_OP_RW_RDLOCK and UMTX_OP_RW_WRLOCK by a thread that holds nothing: the
\* arguments are read and the deadline is fixed.
Begin(t, c) ==
    /\ pc[t] = "idle" /\ holds[t] = "none"
    /\ c.prefer => c.kind = "read"
    /\ call' = [call EXCEPT ![t] = c]
    /\ Step(t, "try")
    /\ UNCHANGED <<state, preferReader, blocked, queue, holds, gaveUp>>

\* ready() finds the lock free and its compare-and-swap takes it.
Enter(t) ==
    /\ pc[t] = "try" /\ Free(call[t])
    /\ \/ call[t].kind = "write" /\ state' = [state EXCEPT !.owner = TRUE]
       \/ /\ call[t].kind = "read" /\ ~Full
          /\ state' = [state EXCEPT !.readers = @ + 1]
    /\ holds' = [holds EXCEPT ![t] = call[t].kind]
    /\ Step(t, "idle")
    /\ UNCHANGED <<preferReader, blocked, queue, call, gaveUp>>

\* EAGAIN: the count of readers is full.
TooManyReaders(t) ==
    /\ pc[t] = "try" /\ Free(call[t])
    /\ call[t].kind = "read" /\ Full
    /\ Step(t, "idle")
    /\ UNCHANGED <<state, preferReader, blocked, queue, call, holds, gaveUp>>

\* The lock is taken: the thread sets its waiter bit, counts itself and queues.
\* An unlock that comes after the bit was set wakes the queue under the bucket's
\* mutex, which the thread holds until it sleeps.
Block(t) ==
    /\ pc[t] = "try" /\ ~Free(call[t])
    /\ LET k == call[t].kind IN
          /\ state' = WithWaiterBit(k, TRUE)
          /\ blocked' = [blocked EXCEPT ![k] = @ + 1]
          /\ queue' = [queue EXCEPT ![k] = Append(@, t)]
    /\ Step(t, "asleep")
    /\ UNCHANGED <<preferReader, call, holds, gaveUp>>

\* The deadline passes and nobody has taken the thread off its queue.  A sleeping
\* writer, and a sleeping reader of a lock that prefers readers, may be the one
\* an unlock chose to wake in place of the other queue.
TimeOut(t) ==
    /\ pc[t] = "asleep" /\ call[t].timed
    /\ \E i \in DOMAIN queue[call[t].kind] :
          /\ queue[call[t].kind][i] = t
          /\ queue' = [queue EXCEPT ![call[t].kind] = RemoveAt(@, i)]
    /\ Step(t, "timedOut")
    /\ gaveUp' = (gaveUp \/ call[t].kind = "write" \/ preferReader)
    /\ UNCHANGED <<state, preferReader, blocked, call, holds>>

\* Mutation: the bit is cleared by whoever leaves.
ClearsBitAlways(t, left) == TRUE

\* Only a writer or a woken reader that leaves nobody blocked clears its bit: a
\* reader that timed out leaves URWLOCK_READ_WAITERS set.
ClearsBit(t, left) == left = 0 /\ (call[t].kind = "write" \/ pc[t] = "woken")

\* Back under the bucket's mutex, in a critical section of its own, the thread
\* is no longer blocked.  A woken thread then tries again.
Leave(t) ==
    /\ pc[t] \in {"woken", "timedOut"}
    /\ LET k == call[t].kind IN
          /\ blocked' = [blocked EXCEPT ![k] = @ - 1]
          /\ state' = IF ClearsBit(t, blocked[k] - 1) THEN WithWaiterBit(k, FALSE) ELSE state
    /\ Step(t, IF pc[t] = "woken" THEN "try" ELSE "idle")
    /\ UNCHANGED <<preferReader, queue, call, holds, gaveUp>>

\* UMTX_OP_RW_UNLOCK by a holder: the compare-and-swap ...
Unlock(t) ==
    /\ pc[t] = "idle" /\ holds[t] # "none"
    /\ LET next == IF state.owner THEN [state EXCEPT !.owner = FALSE]
                                  ELSE [state EXCEPT !.readers = @ - 1] IN
          /\ state' = next
          /\ Step(t, Wakes(next))
    /\ holds' = [holds EXCEPT ![t] = "none"]
    /\ UNCHANGED <<preferReader, blocked, queue, call, gaveUp>>

\* ... and, under the queue's bucket mutex, its WakeAddress for one writer ...
WakeWriter(t) ==
    /\ pc[t] = "wakeWrite"
    /\ IF queue["write"] = <<>>
         THEN Step(t, "idle") /\ UNCHANGED queue
         ELSE /\ pc' = [pc EXCEPT ![t] = "idle", ![Head(queue["write"])] = "woken"]
              /\ queue' = [queue EXCEPT !["write"] = Tail(@)]
    /\ UNCHANGED <<state, preferReader, blocked, call, holds, gaveUp>>

\* ... or for all readers.
WakeReaders(t) ==
    /\ pc[t] = "wakeRead"
    /\ pc' = [u \in Threads |-> IF u = t THEN "idle"
                                ELSE IF u \in Range(queue["read"]) THEN "woken" ELSE pc[u]]
    /\ queue' = [queue EXCEPT !["read"] = <<>>]
    /\ UNCHANGED <<state, preferReader, blocked, call, holds, gaveUp>>

Next == \E t \in Threads :
    \/ \E c \in Calls : Begin(t, c)
    \/ Enter(t) \/ TooManyReaders(t) \/ Block(t) \/ TimeOut(t) \/ Leave(t)
    \/ Unlock(t) \/ WakeWriter(t) \/ WakeReaders(t)

Spec == Init /\ [][Next]_vars

-----------------------------------------------------------------------------
TypeOK ==
    /\ state \in [owner : BOOLEAN, readers : 0..MaxReaders, waiters : [Kinds -> BOOLEAN]]
    /\ preferReader \in PreferReaders
    /\ blocked \in [Kinds -> Nat]
    /\ queue \in [Kinds -> Seq(Threads)]
    /\ pc \in [Threads -> {"idle", "try", "asleep", "woken", "timedOut",
                           "wakeRead", "wakeWrite"}]
    /\ call \in [Threads -> Calls]
    /\ holds \in [Threads -> Kinds \cup {"none"}]
    /\ gaveUp \in BOOLEAN

Holders(k) == {t \in Threads : holds[t] = k}

\* The state word tells who is in: one writer alone, or the readers it counts.
Exclusion ==
    /\ state.owner <=> Holders("write") # {}
    /\ Cardinality(Holders("write")) <= 1
    /\ state.readers = Cardinality(Holders("read"))
    /\ state.owner => state.readers = 0

\* Nobody sleeps without its waiter bit: however often others set and clear it,
\* each unlock sees that there is a queue to wake.
SleeperHasBit ==
    \A k \in Kinds : queue[k] # <<>> => state.waiters[k]

\* While the lock is free and no thread is inside a call that could still wake
\* somebody, nobody sleeps for good.
WaitersGoOn ==
    (~state.owner /\ state.readers = 0
        /\ \A t \in Threads : pc[t] = "idle" \/ (pc[t] = "asleep" /\ ~call[t].timed))
      => \A t \in Threads : pc[t] = "idle"

\* No wakeup is lost unless somebody an unlock may have chosen to wake gave up.
NoStrandedWaiter == ~gaveUp => WaitersGoOn

=============================================================================
