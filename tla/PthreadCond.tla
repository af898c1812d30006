----------------------------- MODULE PthreadCond -----------------------------
(***************************************************************************)
(* A guest mutex and a guest condition variable with thread cancellation,  *)
(* from libkernel/Pthread/src/Mutex.cpp and Cond.cpp, include/Cancel.hpp   *)
(* and the cancellation part of Thread.cpp.                                *)
(*                                                                         *)
(* A mutex is a native mutex, the owner the code goes by and, when it is   *)
(* recursive, a count of levels.  A wait gives up every level, sleeps in   *)
(* the condition, locks the mutex anew and brings the levels back.  Before *)
(* it sleeps it registers, so that scePthreadCancel can wake it.           *)
(*                                                                         *)
(* The guest uses them for a pool of tokens: posts are made under the      *)
(* mutex and signalled, a consumer waits while there is none.  A thread    *)
(* that is exiting runs its cleanup handlers, which may do all that too.   *)
(***************************************************************************)
EXTENDS Integers, FiniteSets

CONSTANTS Threads, NoThread,
          Recursive,      \* is the mutex recursive?
          MaxCount,       \* bound on the levels of a recursive mutex
          MaxTokens,      \* bound on the tokens in the pool
          MaxCancels      \* bound on the calls of scePthreadCancel

ASSUME ThreadsAssumption == IsFiniteSet(Threads) /\ NoThread \notin Threads
ASSUME BoundsAssumption == /\ Recursive \in BOOLEAN
                           /\ MaxCount \in Nat \ {0} /\ MaxTokens \in Nat /\ MaxCancels \in Nat

VARIABLES
    native,         \* who holds _mtx or _rmtx
    owner, count,   \* _owner and _count
    pc,             \* idle, check, asleep, relock, locked, finish, cancel, gone
    previousCount,  \* the levels each waiting thread gave up
    timedOut,       \* has its wait ended by its deadline?
    sleeping,       \* the threads the condition has not notified yet
    cancelWait,     \* per thread: none, or the wait it has registered
    cancelPending, enabled, exiting,
    target,         \* whom each calling thread cancels
    cancels,        \* the calls of scePthreadCancel so far
    tokens,         \* the guest's pool
    consuming,      \* the threads that have decided to take a token
    owesSignal      \* the threads that have posted and not signalled yet

mutex  == <<native, owner, count>>
cancel == <<cancelWait, cancelPending, enabled, exiting, target, cancels>>
guest  == <<tokens, consuming, owesSignal>>
vars   == <<mutex, pc, previousCount, timedOut, sleeping, cancel, guest>>

Step(t, to) == pc' = [pc EXCEPT ![t] = to]

Holds(t) == pc[t] = "idle" /\ owner = t

\* ThreadCancel::Requested.
Requested(t) == cancelPending[t] /\ enabled[t] /\ ~exiting[t]

\* Condition::NotifyOne and NotifyAll.
NotifyOne == IF sleeping = {} THEN UNCHANGED sleeping
                              ELSE \E t \in sleeping : sleeping' = sleeping \ {t}
NotifyAll == sleeping' = {}

Init ==
    /\ native = NoThread /\ owner = NoThread /\ count = 0
    /\ pc = [t \in Threads |-> "idle"]
    /\ previousCount = [t \in Threads |-> 0]
    /\ timedOut = [t \in Threads |-> FALSE]
    /\ sleeping = {}
    /\ cancelWait = [t \in Threads |-> "none"]
    /\ cancelPending = [t \in Threads |-> FALSE]
    /\ enabled = [t \in Threads |-> TRUE]
    /\ exiting = [t \in Threads |-> FALSE]
    /\ target = [t \in Threads |-> t]
    /\ cancels = 0
    /\ tokens = 0 /\ consuming = {} /\ owesSignal = {}

-----------------------------------------------------------------------------
(* The mutex.                                                              *)

\* acquireMutex: a free mutex is taken, a recursive one also by its owner.
Lock(t) ==
    /\ pc[t] = "idle" /\ t \notin owesSignal
    /\ IF owner = t THEN Recursive /\ count < MaxCount ELSE native = NoThread
    /\ native' = t /\ owner' = t
    /\ count' = IF Recursive THEN count + 1 ELSE count
    /\ UNCHANGED <<pc, previousCount, timedOut, sleeping, cancel, guest>>

Released == ~Recursive \/ count = 1

\* scePthreadMutexUnlock; the last level of a recursive mutex frees it.
Unlock(t) ==
    /\ Holds(t) /\ t \notin consuming
    /\ owner' = IF Released THEN NoThread ELSE owner
    /\ native' = IF Released THEN NoThread ELSE native
    /\ count' = IF Recursive THEN count - 1 ELSE count
    /\ UNCHANGED <<pc, previousCount, timedOut, sleeping, cancel, guest>>

-----------------------------------------------------------------------------
(* The condition variable.                                                 *)

\* Mutation: a wait that finds no request does not register.
RegistersIfRequested(t) == IF Requested(t) THEN "running" ELSE "none"

\* BeginWait: the registration says whether the thread was exiting.
Registers(t) == IF exiting[t] THEN "exiting" ELSE "running"

\* waitUntil up to its wait: the mutex has no owner and no levels any more but
\* is natively still held; the wait is registered.
BeginWait(t) ==
    /\ Holds(t) /\ t \in consuming /\ tokens = 0
    /\ owner' = NoThread /\ count' = 0
    /\ previousCount' = [previousCount EXCEPT ![t] = count]
    /\ cancelWait' = [cancelWait EXCEPT ![t] = Registers(t)]
    /\ Step(t, "check")
    /\ UNCHANGED <<native, timedOut, sleeping, cancelPending, enabled, exiting, target, cancels, guest>>

\* ThreadCancel::Wait: a requested thread does not sleep ...
WaitNot(t) ==
    /\ pc[t] = "check" /\ Requested(t)
    /\ cancelWait' = [cancelWait EXCEPT ![t] = "none"]
    /\ Step(t, "locked")
    /\ UNCHANGED <<mutex, previousCount, timedOut, sleeping, cancelPending, enabled,
                   exiting, target, cancels, guest>>

\* ... another one releases the mutex and sleeps.
Sleep(t) ==
    /\ pc[t] = "check" /\ ~Requested(t)
    /\ native' = NoThread
    /\ sleeping' = sleeping \cup {t}
    /\ Step(t, "asleep")
    /\ UNCHANGED <<owner, count, previousCount, timedOut, cancel, guest>>

\* WaitLock::lock: a thread that was notified is no longer registered; then it
\* needs the mutex.
Wake(t) ==
    /\ pc[t] = "asleep" /\ t \notin sleeping
    /\ cancelWait' = [cancelWait EXCEPT ![t] = "none"]
    /\ Step(t, "relock")
    /\ UNCHANGED <<mutex, previousCount, timedOut, sleeping, cancelPending, enabled,
                   exiting, target, cancels, guest>>

\* Condition::waitSignalUntil at the deadline: the waiter leaves the queue.
LeftQueue(t) == sleeping \ {t}

\* The same at the deadline of a timed wait.
WakeAtDeadline(t) ==
    /\ pc[t] = "asleep" /\ t \in sleeping
    /\ sleeping' = LeftQueue(t)
    /\ timedOut' = [timedOut EXCEPT ![t] = TRUE]
    /\ cancelWait' = [cancelWait EXCEPT ![t] = "none"]
    /\ Step(t, "relock")
    /\ UNCHANGED <<mutex, previousCount, cancelPending, enabled, exiting, target,
                   cancels, guest>>

Relock(t) ==
    /\ pc[t] = "relock" /\ native = NoThread
    /\ native' = t
    /\ Step(t, "locked")
    /\ UNCHANGED <<owner, count, previousCount, timedOut, sleeping, cancel, guest>>

Restored(t) == previousCount[t]

\* waitUntil after its wait: the mutex is the thread's again, with its levels.
Restore(t) ==
    /\ pc[t] = "locked"
    /\ owner' = t /\ count' = Restored(t)
    /\ Step(t, "finish")
    /\ UNCHANGED <<native, previousCount, timedOut, sleeping, cancel, guest>>

\* Mutation: a canceled waiter does not forward a wake.
ForwardNot == UNCHANGED sleeping

Forward == NotifyOne

\* waitUntil's locals end with it.
Returns(t) ==
    /\ previousCount' = [previousCount EXCEPT ![t] = 0]
    /\ timedOut' = [timedOut EXCEPT ![t] = FALSE]
    /\ Step(t, "idle")

\* finishWait: a canceled waiter forwards a wake and exits, holding the mutex ...
FinishCanceled(t) ==
    /\ pc[t] = "finish" /\ Requested(t)
    /\ Forward
    /\ exiting' = [exiting EXCEPT ![t] = TRUE]
    /\ consuming' = consuming \ {t}
    /\ Returns(t)
    /\ UNCHANGED <<mutex, cancelWait, cancelPending, enabled,
                   target, cancels, tokens, owesSignal>>

\* ... another one returns; after a timeout the guest gives up.
Finish(t) ==
    /\ pc[t] = "finish" /\ ~Requested(t)
    /\ consuming' = IF timedOut[t] THEN consuming \ {t} ELSE consuming
    /\ Returns(t)
    /\ UNCHANGED <<mutex, sleeping, cancel, tokens, owesSignal>>

-----------------------------------------------------------------------------
(* Cancellation.                                                           *)

\* scePthreadCancel marks its target ...
Cancel(c, t) ==
    /\ pc[c] = "idle" /\ c \notin owesSignal /\ cancels < MaxCancels
    /\ cancelPending' = [cancelPending EXCEPT ![t] = TRUE]
    /\ target' = [target EXCEPT ![c] = t]
    /\ cancels' = cancels + 1
    /\ Step(c, "cancel")
    /\ UNCHANGED <<mutex, previousCount, timedOut, sleeping, cancelWait, enabled, exiting, guest>>

\* Mutation: the wait of an exiting thread holds the canceler too.
CancelDoneUnregistered(t) == cancelWait[t] = "none"

CancelDone(t) == cancelWait[t] \in {"none", "exiting"}

\* ... and notifies the condition it waits in ...
CancelNotify(c) ==
    /\ pc[c] = "cancel" /\ ~CancelDone(target[c])
    /\ NotifyAll
    /\ UNCHANGED <<mutex, pc, previousCount, timedOut, cancel, guest>>

\* ... until the wait is over.
CancelReturn(c) ==
    /\ pc[c] = "cancel" /\ CancelDone(target[c])
    /\ target' = [target EXCEPT ![c] = c]
    /\ Step(c, "idle")
    /\ UNCHANGED <<mutex, previousCount, timedOut, sleeping, cancelWait, cancelPending,
                   enabled, exiting, cancels, guest>>

\* scePthreadSetcancelstate.
Setcancelstate(t) ==
    /\ pc[t] = "idle" /\ t \notin consuming \cup owesSignal
    /\ enabled' = [enabled EXCEPT ![t] = ~@]
    /\ UNCHANGED <<mutex, pc, previousCount, timedOut, sleeping, cancelWait,
                   cancelPending, exiting, target, cancels, guest>>

\* scePthreadTestcancel, and scePthreadExit of the guest's own accord.
Exit(t) ==
    /\ pc[t] = "idle" /\ t \notin consuming \cup owesSignal
    /\ ~exiting[t]
    /\ exiting' = [exiting EXCEPT ![t] = TRUE]
    /\ UNCHANGED <<mutex, pc, previousCount, timedOut, sleeping, cancelWait,
                   cancelPending, enabled, target, cancels, guest>>

\* The handlers of an exiting thread have unlocked the mutex; it ends.
End(t) ==
    /\ pc[t] = "idle" /\ exiting[t] /\ owner # t /\ t \notin owesSignal
    /\ Step(t, "gone")
    /\ UNCHANGED <<mutex, previousCount, timedOut, sleeping, cancel, guest>>

-----------------------------------------------------------------------------
(* The guest's pool.                                                       *)

Consume(t) ==
    /\ Holds(t) /\ t \notin consuming \cup owesSignal
    /\ consuming' = consuming \cup {t}
    /\ UNCHANGED <<mutex, pc, previousCount, timedOut, sleeping, cancel, tokens, owesSignal>>

Take(t) ==
    /\ Holds(t) /\ t \in consuming /\ tokens > 0
    /\ tokens' = tokens - 1
    /\ consuming' = consuming \ {t}
    /\ UNCHANGED <<mutex, pc, previousCount, timedOut, sleeping, cancel, owesSignal>>

Post(t) ==
    /\ Holds(t) /\ t \notin consuming \cup owesSignal /\ tokens < MaxTokens
    /\ tokens' = tokens + 1
    /\ owesSignal' = owesSignal \cup {t}
    /\ UNCHANGED <<mutex, pc, previousCount, timedOut, sleeping, cancel, consuming>>

\* scePthreadCondSignal, with or without the mutex.
Signal(t) ==
    /\ pc[t] = "idle" /\ t \in owesSignal
    /\ NotifyOne
    /\ owesSignal' = owesSignal \ {t}
    /\ UNCHANGED <<mutex, pc, previousCount, timedOut, cancel, tokens, consuming>>

\* scePthreadCondBroadcast, and scePthreadCondSignalto of a waiter.
Broadcast(t) ==
    /\ pc[t] = "idle" /\ t \in owesSignal
    /\ NotifyAll
    /\ owesSignal' = owesSignal \ {t}
    /\ UNCHANGED <<mutex, pc, previousCount, timedOut, cancel, tokens, consuming>>

-----------------------------------------------------------------------------
Next == \E t \in Threads :
    \/ Lock(t) \/ Unlock(t)
    \/ BeginWait(t) \/ WaitNot(t) \/ Sleep(t) \/ Wake(t) \/ WakeAtDeadline(t)
    \/ Relock(t) \/ Restore(t) \/ FinishCanceled(t) \/ Finish(t)
    \/ \E u \in Threads : Cancel(t, u)
    \/ CancelNotify(t) \/ CancelReturn(t)
    \/ Setcancelstate(t) \/ Exit(t) \/ End(t)
    \/ Consume(t) \/ Take(t) \/ Post(t) \/ Signal(t) \/ Broadcast(t)

Spec == Init /\ [][Next]_vars

-----------------------------------------------------------------------------
TypeOK ==
    /\ {native, owner} \subseteq Threads \cup {NoThread}
    /\ count \in 0..MaxCount
    /\ pc \in [Threads -> {"idle", "check", "asleep", "relock", "locked", "finish",
                           "cancel", "gone"}]
    /\ previousCount \in [Threads -> 0..MaxCount]
    /\ timedOut \in [Threads -> BOOLEAN]
    /\ sleeping \subseteq {t \in Threads : pc[t] = "asleep"}
    /\ cancelWait \in [Threads -> {"none", "running", "exiting"}]
    /\ {cancelPending, enabled, exiting} \subseteq [Threads -> BOOLEAN]
    /\ target \in [Threads -> Threads]
    /\ cancels \in 0..MaxCancels
    /\ tokens \in 0..MaxTokens
    /\ consuming \subseteq Threads /\ owesSignal \subseteq Threads

\* The consumers that will look at the pool again without being notified.
Awake == {t \in consuming : t \notin sleeping /\ ~(pc[t] # "idle" /\ timedOut[t])}

\* No signal is lost to a canceled or timed-out waiter: as long as a consumer
\* sleeps, there is for each token a consumer on its way or a signal to come.
NoStrandedToken ==
    sleeping # {} => Cardinality(Awake) + Cardinality(owesSignal) >= tokens

\* A canceled thread is not left asleep: a request that comes between its check
\* and its sleep still has its canceler at work until the thread was notified.
CanceledIsWoken ==
    \A t \in sleeping : Requested(t) =>
        \E c \in Threads : pc[c] = "cancel" /\ target[c] = t /\ ~CancelDone(t)

\* scePthreadCancel can return: who keeps a canceler in its loop will be notified
\* and then leave, and does not wait as an exiting thread, which no request ends.
CancelerIsFreed ==
    \A c \in Threads : pc[c] = "cancel" /\ ~CancelDone(target[c]) =>
        ~exiting[target[c]] /\ pc[target[c]] \in {"check", "asleep"}
=============================================================================
