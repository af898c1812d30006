# AnyPS5: a TLA+ model of the runtime's concurrent core

AnyPS5 turns PlayStation 5 executables into native programs. The conversion itself happens offline; what runs beside a
ported program is a set of re-implemented system libraries (`src/core/libs/prx`), called by all the program's guest
threads at once. This directory models that concurrent core: the kernel objects guest threads synchronise with
(`libkernel`), the event queues they wait on, the life of the threads themselves, and the submission queues and the draw
pipeline of the graphics driver (`libSceAgcDriver`).
The modules are translated from the source; `PROJECT.json` gives the lines behind every definition.

Paths below are relative to `src/core/libs/prx/`.

## 1. The system

### 1.1 What is modelled

| Component | State it keeps | Operations | Who it interacts with |
|---|---|---|---|
| kernel semaphore, `libkernel/Semaphore` | token count, waiter list (pointers to stack frames), cancel generation, deleted flag | create, poll, signal, wait, timed wait, cancel, delete | one mutex and condition variable per object, shared by waiters, signallers and the deleter |
| event flag, `libkernel/EventFlag` | pattern, list of waiter nodes on stacks, cancel generation, handle registry | create, open, close, delete, set, clear, cancel, poll, wait | a call resolves its handle in the registry, then locks the flag: two steps |
| address waits and `_umtx_op`, `libkernel/SyncOnAddress` | buckets of sleeper queues keyed by address; the words themselves are guest memory | wait/wake on an address; semaphore, mutex, condition variable and rwlock operations | guest code changes the words without any lock, by compare-and-swap |
| scePthread read-write lock, `libkernel/Pthread/src/Rwlock.cpp` | writer, readers, waiting writers, a pointer in guest memory, a thread-local count of read locks | first use, lock, try, timed lock, unlock, destroy, init | a mutex and a condition variable per lock; the thread-local counter spans all locks |
| scePthread mutex, condition variable, cancellation, `Mutex.cpp`, `Cond.cpp`, `Thread.cpp` | native mutex, owner, levels; sleepers; the wait each thread has registered for its canceler | lock, unlock, wait, timed wait, signal, broadcast, cancel, set cancel state, exit | a canceler loops until its target has left its wait; an exiting thread runs handlers that may wait again |
| guest thread life, `Thread.cpp` | reference count and flags of a record, the registry, joined records kept per handle storage, retired and spare stacks | create, finish, join, timed join, detach, reuse of storage and stacks | every call holds a reference; the host system ends threads on its own time |
| parking lot (Windows), `libkernel/Time/TimedWait.cpp` | buckets of parked waiters, each with a counter; an event per waiter; waiters for calls that handlers make | park, look again, cancel, finish, unpark | the counter is read without the bucket's lock; guest exceptions are delivered to a thread that is parked |
| event queues, `libkernel/Equeue/Equeue.cpp` | the list of events, each triggered or not, with completions behind it and a deadline; the table of handles | add, trigger, delete, wait (for ever, for a time, not at all), create, delete; timers | one mutex and condition variable per queue; the system's components trigger, the title waits |
| kqueues that watch kqueues, `Equeue/src/Kqueue.cpp`, `Socket/src/Udp.cpp` | the wakers registered with each queue, the count of activations, what a cleared watch has seen | edit a knote, consume, close; gather, look again, poll, drain, release | two mutexes, never both held by one who changes the inner queue, and a host poll under neither |
| AGC submission queues, `libSceAgcDriver/Execution/src/Driver` | pending submissions per queue, completion counters, flip and order holds, the commit pipeline | submit, suspend point, flip, wait idle, execute, block on a label, complete, defer, commit, fail, stop | one worker per queue, a committer, the title's threads; one mutex and one condition variable, several atomics outside it |
| AGC idle write-back, `Queues/QueueWorker.cpp` | pending results, running workers, `idleEpoch` | wait with and without deadline, bump and notify, store | the last worker that stops running notifies without the mutex |

| AGC draw pipeline and finisher, `Execution/src/Driver/Draw/DrawPipeline.cpp` | the finisher's jobs and its error, the queue of commits and its error, who waits for room | hand a draw over, queue a commit, ask for a pending label or an overlap, drain, settle, stop | the graphics queue's worker, the finisher and the committer, each a thread |

Nobody calls across these components while holding their locks: an event flag does not use a kernel semaphore and the
`_umtx_op` objects have separate keys. They meet in the guest, which is why each is checked for itself, with the guest
around it where its protocol matters (`UmtxSem`, `AddressWait`, `PthreadCond`).

### 1.2 What is hard about it

- Deadlines that pass while a wake, a set, a signal or a grant is already on its way (all the waits).
- Lists of pointers into other threads' stacks: an entry must go exactly when its wait ends.
- Objects deleted while threads are leaving them: the deleter shares their condition variable.
- Words of guest memory that change under the kernel's hands: check, mark, queue, sleep are separate steps.
- Cancellation that arrives between a check and a sleep, or makes a thread exit that had just been signalled.
- Thread-local and lock-free bookkeeping that stands for something else (`readLocksHeld`, `runningWorkers`, `idleEpoch`).
- Submissions that complete out of order, two order holds and a flip hold that must not wait for each other.
- Failure and shutdown in the middle of all that.
- One notification for several sleepers, of whom the one it wakes may not be the one that needs it (event queues).
- Writes that travel from one thread's queue to another's while a third asks where they are (draw pipeline).

`PROJECT.json` lists these as hazards at the lines where they bite, with the properties that guard them.

### 1.3 What is not modelled

| Component | Why |
|---|---|
| the rest of `Time/TimedWait.cpp` (sleeps, sleeps ended by a counter, deferral of signals) | planned; its condition variable is used by what it promises |
| timers, barriers, once, thread-specific data, pthread semaphores; asynchronous files | planned, see section 6 |
| libkernel memory, files, sockets, modules and system calls | conversions around host calls, bookkeeping under one lock, the host's dynamic linker |
| AGC deferred labels and GPU completion | planned; depends on what Vulkan's fences and semaphores promise |
| AGC driver graphics (draws, textures, caches, Vulkan) | properties are equalities of pixels and bytes over a device's memory |
| shader recompiler, image decoders | pure functions on large inputs |
| relinker, NID patcher, host allocator | offline or build-time tools, a heap shim |
| video output, user-level threads library, job manager | planned as far as the budget of runs allows |
| other system libraries | about four hundred, mostly stubs or thin conversions to host libraries |
| web demo, scripts and documents | nothing that runs beside a ported program |

## 2. The modules

What a thread does while it holds a mutex is one action, since nobody sees the states between; where the code lets go of
the mutex, changes a word without one, or notifies after unlocking, there is a step of its own. A wait on a condition
variable is asleep until it is notified; it may also end by its deadline, and, where the code's loop allows it, for no
reason. Data is abstract: threads, words, labels and handles are model values, deadlines are "may have passed".

| Module | Stands for | State and actions |
|---|---|---|
| `TokenPool` | nothing in the code: what a counting semaphore promises | a pool, a line of requests, and who has been served; whenever a request fits it is served before anything else |
| `KernelSema` | `Semaphore.cpp`, `Semaphore.hpp` | `queue` is the waiter list, `waiter` the stack frames; a signal walks the list in steps (`Loop`), the rest of each call is one action |
| `EventFlag` | `EventFlag.cpp` | `resolved` is the step between registry and flag; `Walk` is the walk of a set over its waiters |
| `AddressWait` | `SyncOnAddress.cpp` waits and wakes | words are written at any time; `WakenBy` is who a wake takes off the queue |
| `UmtxSem` | `_umtx_op` semaphore operations | the guest's own takes and posts are part of the module; mark, count and sleep are separate |
| `UmtxMutex` | `_umtx_op` umutex and ucond | an unlock is count, store, wake; a failed lock is try, mark and sleep |
| `UmtxRwlock` | `_umtx_op` urwlock | one compare-and-swap per action; leaving a queue and clearing its bit are separate |
| `PthreadRwlock` | `Rwlock.cpp` | creation by compare-and-swap on the slot, `readLocksHeld` per thread, destroy and init |
| `PthreadCond` | `Mutex.cpp`, `Cond.cpp`, `Cancel.hpp`, part of `Thread.cpp` | a pool of tokens stands for the guest's use; `check`, `asleep`, `relock`, `finish` are the stages of a wait |
| `ParkingLot` | the parking lot of `TimedWait.cpp` and `TimedWait.hpp`, as `Mutex.cpp` and `Cond.cpp` use it | a thread and the handler that interrupts it are two calls, of which the second holds up the first; each half of `BeginPark`, `Unpark` and an unlock is a step |
| `GuestThread` | the rest of `Thread.cpp` used here, `Pthread.hpp` | `references` as counted by the code; each call's stages are named in `pc`; a stack is `owning`, `retired` or spare |
| `SubmissionQueues` | `QueueWorker.cpp`, `Submission.cpp`, `Lifecycle.cpp`, `WaitMemory.cpp`, parts of `PacketExecution.cpp`, `PacketMemory.cpp`, `DrawPipeline.cpp` | a submission is at most one wait, one flip and one label store; stages in `pc` per worker and `titlePc` per title thread |
| `IdleStore` | the idle write-back in `QueueWorker.cpp` | the graphics worker's steps under the mutex, one by one, against the others' steps without it |
| `EventQueue` | `Equeue.cpp` | one critical section of `m_mutex` per action; a wait is a turn (`Scan`) per time it is woken; `Walk` is `CollectTriggered`; `log` is a history of each completion event |
| `KqueueWatch` | `Equeue.cpp` (`WaitForDescriptors` and around it), `Kqueue.cpp`, `Udp.cpp` | `holder` has the outer mutex while it goes through the inner one; `latched` is whose waker has something to read |
| `DrawPipeline` | `DrawPipeline.cpp` and its callers in `PacketExecution.cpp`, `PacketMemory.cpp`, `Lifecycle.cpp` | `plan` is what the worker has left to do in its packet, an exception replaces it; `latest` is the last write to each place in packet order |
| `KernelSema_proofs`, `EventFlag_proofs`, `UmtxRwlock_proofs`, `SyncOnAddress_proofs`, `Queues_proofs`, `DrawPipeline_proofs`, `Pthread_proofs`, `SubmissionQueues_proofs` | | theorems and their lemmas (section 5) |
| `MCKernelSema`, `MCEventFlag`, `MCUmtx`, `MCUmtxRwlock`, `MCPthreadRwlock`, `MCPthread`, `MCEventQueue`, `MCQueues`, `MCSubmissionQueues` | | constants and symmetry for TLC. `MCUmtx`, `MCPthread`, `MCEventQueue` and `MCQueues` check components that share nothing side by side: a variable `part` says which one a behaviour shows, the others rest |

A definition whose comment begins "Mutation:" is a plausible bug; it is not part of any specification and serves to show
that the property it is paired with in `PROJECT.json` can fail.

### Abstractions worth knowing

- `EventFlag`: names, attribute validation and the open count's limits are left out.
- `UmtxSem`, `AddressWait`, `PthreadCond`: the guest follows the protocol the calls are made for (who writes, wakes).
- `PthreadRwlock`: destroy only while no thread is inside a call on the lock; a thread that has loaded the slot and not
  yet locked the mutex when another destroys it would use freed memory (`Rwlock.cpp:77`), which the guest must not do.
- `ParkingLot` is the Windows build. The spins before parking are one attempt, and leaving the bucket and its counter are
  one step (an `Unpark` in between reads a counter that is too high and finds nobody). A handler that waits for something
  other than a mutex is a handler that takes no step. Exceptions are delivered where `docs/dev/debt/libkernel.md:254` and
  `DrainApcs` have them; a handler in a handler is left out.
- `GuestThread` is the Linux build. Callers are threads whose own records play no part (no self-join). Reaping, a
  creation up to the start of the guest code, and each section under the join mutex are one action each. Deleting a
  record is a step of its own after its last reference, so that a look-up can find it with a count of zero. The limit of
  the spare stacks is a free choice of which to keep. A canceled joiner keeps its reference for ever: it exits by
  `longjmp` past the destructor (`Thread.cpp:1286-1289`), so the record stays; `docs/dev/debt/libkernel.md:261` admits
  skipped unwinding, and `RecordsAreCounted` counts that reference to the caller.
- `SubmissionQueues`: a notification belongs to the critical section before it; the order holds poll every millisecond
  and need none. The question `AwaitsTitle` (asked without the mutex) and the answer `NoteAwaitingTitle` are separate.
  Left out: REWIND tails, flips by the CPU out of order, GPU completion and `completionsPending`, rendering waits, the
  finisher, `worker.queued` (which `stop` may zero during an order hold, `QueueWorker.cpp:297`, harmlessly), diagnostics.
- `EventQueue`: EV_DISPATCH, the at-most-once reports of kevent, descriptors and files as sources, and timers of period
  zero are left out. Times are "may have passed"; the number of expirations in `data` is left out.
- `KqueueWatch`: the watch is there from the start and taken away at most once; adding one while two threads sleep on the
  outer queue meets finding 4's single notification. `AddKqueueKnote` that races with the closing of the watched queue can
  leave a watch on a closed queue (`Kqueue.cpp:299-326` against `649-669`).
- `DrawPipeline`: a write is a number and a place; a label's bytes are known beforehand, a draw's are not. A packet's
  question whether it may run beside the finisher is asked at one moment; a wait that is not satisfied is left to
  `SubmissionQueues`; draws' own reads, indirect draws and dispatches are a "load" or an "other" packet. The threads exist
  from the start, `enqueue` is never reached once `closing` is set, and the finisher is enabled.
- `IdleStore`: no completion label is ever pending and nothing fails.

The type invariants of modules whose run does not list `TypeOK` describe the variables; the runs are spent on the rest.

## 3. The runs

| Run | Bounds | What holds |
|---|---|---|
| `sema_safety` | 3 threads, 2 tokens, 2 priorities, 1 cancellation | `NoServableWaiter`: no call leaves a waiter the tokens would serve; `QueueIsBlockedThreads`: an entry for exactly each blocked thread; `FreedIsQuiet`: freed only when nobody is left inside; `ImplementsTokenPool`: every behaviour is one of `TokenPool`, so nobody is overtaken and OK is returned exactly by who got tokens |
| `sema_live` | 3 threads, 1 token, 1 priority | `WaitEnds`, `DeleteEnds`, under fairness |
| `event_flag` | 3 threads, 2 bits, 2 wait modes (any of the bits, clearing those; all of the bits, clearing everything), 1 opened handle | `NoMissedSet`, `ListIsWaiters`, `DeliveryMeetsCondition`, `DeletedIsQuiet`, `TimeoutKeepsDelivery` |
| `umtx` | rwlock: 4 threads, at most 2 readers, both preferences; mutex and condition variable: 3 threads, any call with a deadline; waits: 3 threads, 2 words, 2 values, a semaphore of 2 | `SleeperHasBit`, `NoStrandedWaiter` (unless somebody gave up) of the rwlock; `GrantedIsOwner`, `MutexWaiterIsNotStranded`, `CvWaiterIsReachable`; `NoMissedWrite`; `NoStrandedSleeper` of the semaphore |
| `umtx_rwlock_timeout` | 4 threads | `WaitersGoOn` is **violated** (finding 1) |
| `queues_and_rwlock` | event queues: 3 threads, 2 events, arrays of 1 and 2, 1 completion that waits, 3 triggers; the same with timers; a watched kqueue: 2 threads, 1 user knote, 2 activations; rwlock: 3 threads, 2 slots, 2 objects | `NoStrandedWaiter`, `NoCompletionIsLost`; `NoMissedActivation`; `RwlockExcludes` from the first use on, `NoMissedNotify` |
| `equeue_timer` | 2 threads, a repeating timer | `TimersAreWatched` is **violated** (finding 4) |
| `pthread_rwlock_destroy_held` | 1 slot, locks destroyed while held | `WaitingWriterHoldsBackNewReaders` is **violated** (finding 2) |
| `pthread_cond_and_life` | 3 threads, recursive mutex of 2 levels, 1 token, 2 cancellations; 2 callers, 3 records, 1 storage, 2 stacks; 2 threads with their handlers, 2 mutexes of one bucket | `NoStrandedToken`, `CanceledIsWoken`, `CancelerIsFreed`; `RecordsAreCounted`, `JoinerIsWoken`, `StacksAreNotShared`; `WakeIsOnItsWay` |
| `agc_submissions` | 2 title threads, 2 queues, 5 programs, 3 submissions, a pipeline of 2, failure and shutdown | `CompletedIsDone`, `NoLostWakeup`, `NoOrderDeadlock`, `RunsInOrder`, `FlipsInOrder` |
| `agc_idle_store` | 1 compute queue, 2 submissions | `ResultsAreStored` is **violated** (finding 3) |
| `draw_pipeline` | 1 place, 4 commits, 1 error, 2 jobs, 2 commits queued | `CommitsInOrder`, `ReadsSeeLatest`, `NobodySleepsInVain`, `JobsEndWithSubmission`; `WorkerGoesOn`, under fairness |

**Why the bounds are enough.** Three threads are the least for the interesting meetings here: a waiter, one that
overtakes or replaces it, and one that signals, cancels or deletes. The urwlock needs a fourth: a reader and a writer
asleep, a holder, and a thread between its look at the state and its sleep. Two bits are the least for a condition that
is met partly; two words or slots for what belongs to another key; two priorities for an order. With one storage and
three records a joined record is displaced by another's join and recycled by a third's creation; with two stacks the third
thread runs on a used one. Three submissions are the least for one that completes out of order between two others on
two queues. Three waiters on an event queue are one that is woken, one that leaves and one that is left; a watched
kqueue needs two activations, one seen and one not, and was also run once with two user knotes (3 million states), as
the event queue was with four triggers. Four commits fill both of the pipeline's queues. For `SubmissionQueues`, 3
queues with 4 submissions and 1 title were also run once (6.8 million states, no violation), and for `ParkingLot` 3
threads, one of them with a handler (1.8 million states up to symmetry, no violation). Bounds that cut a counter are
`MaxCount`, `MaxCancels`, `MaxTokens`, `MaxReads`, `MaxSubmissions`, `Depth`, `MaxTriggers`, `MaxActivations`,
`MaxWrites`, `MaxErrors`, and the numbers of `Records`, `Locks` and `Stacks`. Symmetry is used only in runs of safety
properties, over sets the modules never order.

**Deadlock checking** is off where the system may really stop: after the object is deleted, when the guest has made all
the calls a bound allows, when everybody waits for the guest, or after a failure or shutdown.

**Fairness.** `sema_live` and `draw_pipeline` use it. The first's `FairSpec` asks weak fairness of a thread that holds the mutex (`Loop`), and
strong fairness of a waiter that may return (`WaitReturn`) and of the deleter that may finish (`DeleteDone`), because both
need the mutex, which others take and release again and again; native mutexes and condition variables
give every contender its turn in the end, and a woken thread checks its predicate under the mutex. Nothing is assumed of
a guest thread that is not inside a call: it need never signal. So the property is that a wait which has been served,
cancelled, outlived or timed ends, not that every wait does. In `DrawPipeline`, weak fairness of the worker while it has a
packet, of the finisher and of the committer: each is a host thread whose next step, once possible, stays possible until it
is taken. No fairness is asked between packets, so nothing makes the title submit or stop.

## 4. Findings

1. `umtx_rwlock_timeout`, a code bug (`SyncOnAddress.cpp:739`): a writer that times out leaves the queue and clears
   `URWLOCK_WRITE_WAITERS` in two critical sections, without waking anyone. An unlock between them wakes the empty
   writers' queue and no reader, and a reader stays asleep on a free lock.
2. `pthread_rwlock_destroy_held`, code against test (`Rwlock.cpp:47`): a read lock destroyed while held is never counted
   down from the thread's `readLocksHeld`, so the thread passes waiting writers of every lock from then on.
3. `agc_idle_store`, a code bug (`QueueWorker.cpp:247`): `idleEpoch` is raised and notified without the mutex, so
   the notification can fall between the graphics worker's look and its wait; pending results then stay unstored while
   every queue is idle, until the title submits again.

4. `equeue_timer`, a code bug (`Equeue.cpp:537`): `AddEvent` wakes one of the queue's sleepers, and a sleeper watches only
   the timers it knew when it went to sleep. If the one that is woken leaves because its own time is over, another that
   waits without a deadline sleeps over a timer that fires again and again.

Other outcomes of the same single notification, seen with the model and without a run: a level user event, which stays
triggered after it was reported, wakes one of several sleepers (`Equeue.cpp:566`); a descriptor added while two threads
sleep is polled by one of them; in arrays too small for both, an event may stay behind a level event for ever; and of two timers that come due at once, the
thread that collects the first into an array of one may leave the other to sleepers that nobody wakes for it.

`docs/dev/ARCHITECTURE.md:148` says an exception thrown by a commit "is rethrown on the worker at its next enqueue or
drain". `DrawPipeline::Drain` returns at once when nothing is queued (`DrawPipeline.cpp:466`), also when the exception is
unreported: `DrawPipeline` has the property `DrainRethrows`, which its specification does not satisfy. `WorkerGoesOn` and
the driver's own failure flag, which the committer sets first, make that harmless.

In `ParkingLot`, `WakeIsOnItsWay` holds but `WakeIsNotHeldByHandler`, which the module also states, does not. `Unpark`
wakes the first waiter in the bucket, also when its thread is running a guest exception's handler. If that handler locks
the same mutex, its own waiter stands behind the one it interrupted and sleeps although the mutex is free; if it waits for
something else, the threads behind it sleep until it returns. `docs/dev/debt/libkernel.md:254` warns of locks the host
holds across such a handler; a wake held across it is not mentioned.

Also met while modelling, and without a run: `DrawFinisher::Enqueue` takes the error of a job (`DrawPipeline.cpp:182`)
while later jobs are still queued, and these then run although one before them failed; `MutexUnlock` stores the owner
word plainly (`SyncOnAddress.cpp:547`) and can wipe a contested mark set since it counted the waiters (harmless for
`NoStrandedWaiter`, whose wake comes after the store); the last timed-out reader leaves `URWLOCK_READ_WAITERS` set
(`SyncOnAddress.cpp:776` reads it); `RecycleJoinedThread` runs after the new thread was started, so that a thread joined
at once may find its own record recycled instead of kept (a later join answers ESRCH from the registry instead of from
the record).

## 5. The proofs

TLAPS checks these for every set of threads and every value of the other constants that the named assumptions admit:
the run shows a property on a small instance, the theorem everywhere. Each of them follows from an inductive invariant,
which TLC also finds to hold on the run's instance. The assumptions (`ASSUME`, in the module that
declares the constants) say that threads are finitely many where they are counted, that the value for "none" is not one
of them, that bounds are numbers and that sets to choose from are not empty; the pipeline's depths are at least 1, since
a depth of 0 turns it off.

| Module | Theorem | Property | For every |
|---|---|---|---|
| `KernelSema_proofs` | `TypeCorrect` | `TypeOK` | threads, limit, priorities, cancellations |
| | `NobodyServableIsLeft` | `NoServableWaiter` | |
| | `QueueEntriesAreLive` | `QueueIsBlockedThreads` | |
| | `FreedOnlyWhenQuiet` | `FreedIsQuiet` | |
| | `ServedInOrder` | `NoOvertaking`, in no run | |
| | `HandOverIsOutcome` | `OutcomeIsHandOver`, in no run | |
| | `SemaphoreIsTokenPool` | `ImplementsTokenPool` (refinement) | |
| `EventFlag_proofs` | `NobodyMissesASet` | `NoMissedSet` | threads, bits, wait modes, handles, cancellations |
| | `ListLinksTheWaiters` | `ListIsWaiters` | |
| | `DeliveriesAreReal` | `DeliveryMeetsCondition` | |
| | `DeletionIsFinal` | `DeletedIsQuiet` | |
| | `DeliveryBeatsTimeout` | `TimeoutKeepsDelivery` (action property) | |
| `UmtxRwlock_proofs` | `LockExcludes` | `Exclusion`, in no run | threads, readers, preferences |
| | `SleepersAreSeen` | `SleeperHasBit` | |
| | `NoWaiterIsStranded` | `NoStrandedWaiter` | |
| `SyncOnAddress_proofs` | `GrantedStaysOwner` | `GrantedIsOwner` | threads, words, values, wake counts, semaphore limit |
| | `NoMutexWakeIsLost` | `MutexWaiterIsNotStranded` | |
| | `CvWaitersAreReachable` | `CvWaiterIsReachable` | |
| | `NoWriteIsMissed` | `NoMissedWrite` | |
| | `NoPostIsLost` | `NoStrandedSleeper` | |
| `Queues_proofs` | `NoActivationIsMissed` | `NoMissedActivation` | threads, knotes, activations |
| | `WritersAreAlone` | `RwlockExcludes` | threads, slots, lock objects, nested reads |
| | `NoNotifyIsMissed` | `NoMissedNotify` | |
| | `CompletionsAreReported` | `NoCompletionIsLost` | threads, events of every kind, array sizes, completions that wait, triggers |
| | `NobodySleepsOverEvents` | `NoStrandedWaiter`, of queues of edge and completion events | |
| `DrawPipeline_proofs` | `NoJobOutlivesItsSubmission` | `JobsEndWithSubmission` | places, depths of both queues, writes, errors |
| | `SleepersHaveReason` | `NobodySleepsInVain` | |
| | `CommitsKeepPacketOrder` | `CommitsInOrder` | |
| | `ReadsSeeTheLastWrite` | `ReadsSeeLatest` | |
| `Pthread_proofs` | `TokensAreNotStranded` | `NoStrandedToken` | threads, levels, tokens, cancellations, recursive or not |
| | `CanceledAreWoken` | `CanceledIsWoken` | |
| | `CancelersAreFreed` | `CancelerIsFreed` | |
| | `ReferencesAreExact` | `RecordsAreCounted` | callers, records, storages, stacks |
| | `JoinersAreWoken` | `JoinerIsWoken` | |
| | `StacksBelongToOne` | `StacksAreNotShared` | |
| | `WakesAreOnTheirWay` | `WakeIsOnItsWay` | threads, interrupted threads, mutexes of a bucket |
| `SubmissionQueues_proofs` | `CompletedHasFinished` | `CompletedIsDone` | queues, titles, labels, programs, submissions, depth, failures, stops |
| | `WakeupsAreNotLost` | `NoLostWakeup` | |
| | `SubmissionsRunInOrder` | `RunsInOrder` (action property) | |
| | `FlipsComeInOrder` | `FlipsInOrder` (action property) | |
| | `OrderNeverDeadlocks` | `NoOrderDeadlock` | |

**`KernelSema_proofs`.** The inductive invariant `IInv` joins
`TypeOK` with: `Holder`, the mutex is held between steps by the one thread that walks the queue; `QueueIsBlockedThreads`,
which the walk needs to know whom it serves; `Scanned`, the waiters the walk has passed need more tokens than are left;
and `Generations`, no waiter is ahead of the cancel generation. `NoServableWaiter` alone is not inductive: in the middle
of a walk it is false, and `Scanned` says how far it is true. List lemmas (`EraseFacts`, `InsertFacts`) carry the
queue through each step; each conjunct has a case per action. `FreedOnlyWhenQuiet` needs a count besides: `waiterCount` is
the number of threads inside a wait (`CountInv`). `ServedInOrder` holds because a waiter is served only by the walk, which
has passed all those before it.

The refinement is proved on top of that: under the mapping `Pool`, which reads the pool off `tokenCount`, the line off `queue`, and who was served off `released`, each
step of the semaphore is a step of `TokenPool` or changes nothing of it. The invariants above are what makes the
mapping work: `Scanned` says that a hand-over serves the first request that fits, and `NoServableWaiter` that whenever another
call begins nothing in the line fits.

**`EventFlag_proofs`.** The same shape as the semaphore's, with one difference: a delivery may clear bits and so take
away what a waiter was passed over for, never add any. `LessMeetsLess` states it, and with it `Scanned` survives
deliveries. `DeletionIsFinal` needs that whoever is inside a deletion has marked the flag.

**`UmtxRwlock_proofs`.** `IInv` joins `TypeOK`, `CallersHoldNothing`, `BlockedCounted` (the blocked counts are the threads
on their way into or out
of a sleep), `QueuedAreAsleep`, `Exclusion` and `SleeperHasBit`. `SleeperHasBit` needs `BlockedCounted`: a waiter bit is
cleared by the last who leaves, and who is last is read off the count. For `NoWaiterIsStranded` the second invariant `WakeIInv`
names who is on his way: while the lock is free, either a thread that will take it, or a wake for the queue an unlock looks
at first, and for the other queue a wake or the first queue's thread, which will unlock in turn. It holds as long as nobody
gave up, which is the condition of the property and of finding 1.

**`SyncOnAddress_proofs`.** Three invariants, one for each part of `MCUmtx` that is not the rwlock. `MutexIInv`: a thread
between its failed attempt and its sleep sees an owner, or a thread that is about to wake (`MutexWakeIsDue`); a thread inside
`UMTX_OP_CV_WAIT` is queued or signalled, and the flag is set while the queue is not empty (`CvQueued`). `WaitIInv`: the queue
of a word holds its sleepers that were not woken, each once, and only a thread between its write and its wake has anything
left to wake. `SemIInv`: while somebody sleeps on a semaphore, each token of the count is carried by a post before its wake
or a woken thread before its retry; that is a count, `Cardinality(Carriers)`, and not one witness, because one post must not
answer for two sleepers.

**`Queues_proofs`.** `WatchIInv`: a wait that registers its waker with both queues keeps the outer mutex and found nothing of
the outer queue's own when it began (`Registering`), and one in the poll is on both lists or was latched (`OnTheLists`).
`RwlockIInv`: a lock object belongs to one slot (`Allocated`) and says what the threads hold of it, the readers by a count
of nested reads (`LockSaysWhoHolds`); a call keeps its slot from being destroyed (`Inside`); `waitingWriters` counts the writers that wait
(`WritersCounted`), without which a reader could be kept out by a writer who is gone.

For the event queue, `WalkFacts` says what `CollectTriggered` does with a list of any length: each event of the list it
leaves is one it was given, what that one held is what was reported of it followed by what is left (`From`), and a walk that
reports nothing leaves nothing triggered. It is an induction over the list: `Walk` and `Reported` are recursive
functions, `WalkUnfolds` and `ToldUnfolds` give their recursions, and `UpTo`, which stands in for the library's induction
theorem, comes from its well-founded order on the numbers. `QueueIInv` joins the types, the list's shape (`Good`: one entry per
event, at most `kMaxPendingEvents` behind the one shown, nothing behind one that is not triggered) and the account of each
completion event (`Accounted`), whose numbers are at most the number of triggers so far, so that the next one is later than all.
`NobodySleepsOverEvents` counts: while somebody sleeps, at least as many threads are awake as the events hold completions
(`EnoughAwake`). A trigger adds one and wakes one; a turn of a wait takes one thread away and at least one completion, or
leaves none. The property itself is not inductive, since one awake thread with a small array leaves the rest behind. The theorem
assumes that each event is cleared by its report (`Consumed`, which the constants of the run's first queue satisfy): a level
event keeps a second sleeper asleep (section 4), and of timers several may become triggered with one notification.

**`DrawPipeline_proofs`.** `PlanInv` describes what the worker may have left to do, stage by stage (`Follows`), and what it has
made sure of on the way (`JobsAreOver`, `ReadIsClear`). `PlanStep` shows that every step keeps it and does one of eight things
to the queues (`QueueStep`): a commit is asked for, becomes a job or an item, a job becomes an item, an item becomes memory,
a head leaves, or nothing. The order and the reads are then proved from those eight cases alone, the sleepers from the
actions. `SleepInv` counts the waiters and says that who sleeps on room has `resumeAt` set for it: the committer notifies
only at that mark. `OrderInv` puts the numbers of the commits that are done, of the items, of the jobs and of the packet in
one ascending line, where the head of a queue that is about to leave it does not count twice (`OpenJobs`, `OpenItems`).
`ReadInv` says that what is queued to a place lies between what the place holds and its last write, and that the last write
is done, in a queue, or still the packet's; with the order this gives that the first queue in which `PendingLabel` and
`Overlaps` find a place holds its last write, at the back.

**`Pthread_proofs`.** Three invariants, one for each part of `MCPthread`. `CondIInv`: a waiter holds the native mutex without
owning it on its way into its sleep and out of it (`MutexIsWhole`), so that no token is posted between its look at the pool
and its sleep, and a wait is registered for cancellation exactly until its sleep is over (`WaitIsRegistered`);
`NoStrandedToken` is then a count that each step keeps: a canceled waiter that leaves the consumers forwards its wake to
one that sleeps. `LifeIInv`: the creator's reference is in one place, with a joiner, a detacher, a storage or not yet
claimed (`OneShare`), a thread has one sleeping joiner at most (`OneSleeper`), and whoever is mapped has a stack of its own
(`StacksApart`). `ReferencesAreExact` follows step by step: the count is the cardinality of the holders, the thread's own share
and the creator's, and each step moves one caller in or out of the first or ends one of the others. `ParkIInv`: a waiter
is in the bucket at most once, only between its entry and its leave, and not once it was signalled (`ListedOnce`); the counter that
`Unpark` reads without the lock is the number of those who have begun to park and not left (`Counted`), so that zero
means that nobody is in the list; who found the mutex free at its second look still has it when it leaves
(`CancelHolds`). That `SelectInSeq` finds a waiter of the mutex when there is one needs that a set of numbers that is not
empty has a least element (`LeastIsIn`, from the library's `WFMin`).

**`SubmissionQueues_proofs`.** One inductive invariant, `SubIInv`, for the five theorems. `SerialsInv`: a serial is in one
place at a time (`Places`: done, in the pipeline, in a worker's hands or in a queue's list), and serials ascend from the
pipeline through the graphics worker's hands to its list, and from each other worker's hands to its list (`Ascends`).
`Marking` shows that `MarkCompleted`, which moves `completed` over what was completed out of order up to the first gap, adds
exactly the serial it is called with to what counts as done. `WordsInv`: until the driver halts, the words the holds are
decided by say what the workers are at (`OrderWords`), `runningWorkers` counts the busy ones, the list of uncommitted serials
is the pipeline's in ascending order, so that its first is its least, and the flips' two counters are the flips that have not
run and those whose work is open (`FlipsCounted`). `SubmissionsRunInOrder` and `FlipsComeInOrder` read the guards through these
words. Once the driver halts the words may lie (a dropped submission leaves them as they are), which is why the properties
say nothing about them then. `OrderNeverDeadlocks` goes: a graphics worker held by the order is held by another worker that
is at an earlier submission without a wait and so is itself held, by an earlier submission of the graphics queue; but the
earliest of those is the one in the graphics worker's hands, which is later than both. The wakeups are kept as part of the
invariant: each step either changes no condition somebody sleeps for or notifies (`SleepersStep`).

**Only model-checked.** Out of the prover's reach: liveness (`WaitEnds`, `DeleteEnds`, `WorkerGoesOn`, and what the findings
refute). Not proved: `EventQueue`'s `NoStrandedWaiter` of the queue with timers, which holds on the run's instance only because
its arrays have room for every event. Nothing is assumed besides the constants' assumptions; what the proofs cite about
sequences, functions and finite sets is a lemma proved here or a theorem of TLAPS' library.

## 6. Plan

Done, in this order: semaphore, event flag, `_umtx_op` rwlock, mutex and condition variable,
address waits and user semaphore, scePthread rwlock, scePthread mutex and condition variable, AGC submission queues and
idle write-back, guest thread life, the semaphore's abstract specification and its refinement, draw
pipeline, event queues and watched kqueues, parking lot; proofs as in section 5.

Next, by importance:

1. An abstract reader-writer lock implemented by `UmtxRwlock` and by `PthreadRwlock`.
2. The rest of `TimedWait`: the condition variable, so that what the other modules assume of it is shown, and the sleep
   that `WakeChangeSleepers` ends; the deferral of signals.
3. Video output's flip events on top of `EventQueue`; barrier, once, thread-specific data; user-level reader-writer lock;
   asynchronous files.
4. Deferred labels and GPU completion, with `completionsPending` in `IdleStore` and `SubmissionQueues`.

New components share runs with existing ones where they share no state, as in `MCQueues`.

## 7. Running it

`tlc -config MCKernelSema.cfg MCKernelSema.tla` and likewise for each run (the module and configuration of each are in
`PROJECT.json`; `sema_live` runs `KernelSema` with `MCKernelSemaLive.cfg`, `agc_idle_store` runs `IdleStore`,
`draw_pipeline` runs `DrawPipeline`); `tlapm` on each module whose name ends in
`_proofs` checks its theorems. The largest runs take about three minutes on two cores.
