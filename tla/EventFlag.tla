------------------------------ MODULE EventFlag ------------------------------
(***************************************************************************)
(* The event flag of libkernel (sceKernel*EventFlag), from                 *)
(* libkernel/EventFlag/src/EventFlag.cpp: one flag, the handle of its      *)
(* creator, the handles under which it was opened, and the guest threads   *)
(* that call it.  A call first resolves its handle in the registry, which  *)
(* keeps the flag alive, and only then takes the flag's mutex; the two are *)
(* separate actions.  Under the mutex a call is one action, but for a wait *)
(* that blocks and for the walk of sceKernelSetEventFlag over the waiters. *)
(***************************************************************************)
EXTENDS Integers, Sequences, FiniteSets

CONSTANTS Threads,      \* the guest threads
          Bits,         \* the bits of the pattern
          WaitModes,    \* the wait modes used: [match, clear]
          Creator,      \* the handle sceKernelCreateEventFlag returned
          Opens,        \* the handles sceKernelOpenEventFlag may return
          MaxCancels,   \* bound on _cancelGeneration
          NoThread, NoHandle

ASSUME ThreadsAssumption == NoThread \notin Threads
ASSUME ModesAssumption == WaitModes # {}
ASSUME CancelsAssumption == MaxCancels \in Nat
\* sceKernelCreateEventFlag and sceKernelOpenEventFlag hand out each handle once.
ASSUME HandlesAssumption == Creator \notin Opens /\ NoHandle \notin Opens \cup {Creator}

Handles == Opens \cup {Creator}

VARIABLES
    pattern, multipleWaiters, shared, deleted, waiters, cancelGeneration,
    list,              \* the WaiterNode list, head first, as a sequence of threads
    eventFlagRegistry, \* the handles that resolve to the flag
    opened,            \* the handles sceKernelOpenEventFlag has returned so far
    mutex, it,         \* the holder of the flag's mutex and its place in the list
    asleep,            \* threads blocked in the condition variable
    pc,                \* idle, resolved, set, wait, delete or retire
    entry,             \* the handle each thread's call resolved
    node,              \* each blocked thread's WaiterNode and wait arguments
    result             \* what the wait returned that has just ended, if one has

flag == <<pattern, multipleWaiters, shared, deleted, waiters, cancelGeneration,
          list>>
registry == <<eventFlagRegistry, opened>>
vars == <<flag, registry, mutex, it, asleep, pc, entry, node, result>>

Nodes == [bits: SUBSET Bits, mode: WaitModes, satisfied: BOOLEAN,
          resultPattern: SUBSET Bits, generation: 0..MaxCancels, timed: BOOLEAN]

\* WaiterNode has no content outside a wait.
NoNode == [bits |-> {}, mode |-> CHOOSE m \in WaitModes : TRUE,
           satisfied |-> FALSE, resultPattern |-> {}, generation |-> 0,
           timed |-> FALSE]

-----------------------------------------------------------------------------
IsSatisfied(have, bits, mode) ==
    IF mode.match = "AND" THEN bits \subseteq have ELSE bits \cap have # {}

\* Consume, and the same three lines in sceKernelSetEventFlag: what is left of
\* the pattern once a wait for bits was met.
Consume(have, bits, mode) ==
    CASE mode.clear = "all"     -> {}
      [] mode.clear = "pattern" -> have \ bits
      [] OTHER                  -> have

\* A flag made without EVF_ATTR_MULTI takes one waiter.
MayWait == multipleWaiters \/ waiters = 0

\* removeWaiter.
Erase(q, i) == [j \in 1..(Len(q) - 1) |-> IF j < i THEN q[j] ELSE q[j + 1]]

\* Mutation: the first waiter is unlinked, not the one that leaves.
RemoveWaiterHead(t) == list' = Tail(list)

RemoveWaiter(t) == \E i \in 1..Len(list) : list[i] = t /\ list' = Erase(list, i)

\* The predicates of the two waits on the condition variable.
MayReturn(t) ==
    IF pc[t] = "delete"
      THEN waiters = 0
      ELSE \/ deleted
           \/ cancelGeneration # node[t].generation
           \/ node[t].satisfied

\* Mutation: an elapsed deadline is reported before a delivery.
WaitResultTimeoutFirst(t) ==
    IF deleted THEN "EACCES"
    ELSE IF cancelGeneration # node[t].generation THEN "ECANCELED"
    ELSE IF node[t].timed THEN "ETIMEDOUT"
    ELSE "OK"

\* What sceKernelWaitEventFlag returns once it stops waiting.  A deletion and a
\* cancellation come before a delivery, a delivery before the deadline.
WaitResult(t) ==
    IF deleted THEN "EACCES"
    ELSE IF cancelGeneration # node[t].generation THEN "ECANCELED"
    ELSE IF node[t].satisfied THEN "OK"
    ELSE "ETIMEDOUT"

\* pushWaiter and the count, as a wait begins.
Enlist(t) == list' = Append(list, t) /\ waiters' = waiters + 1

Step(t, to) == pc' = [pc EXCEPT ![t] = to]

\* A call that has resolved its handle takes the mutex.
Locked(t) == pc[t] = "resolved" /\ mutex = NoThread

-----------------------------------------------------------------------------
\* sceKernelCreateEventFlag.
Init ==
    /\ pattern \in SUBSET Bits
    /\ multipleWaiters \in BOOLEAN /\ shared \in BOOLEAN
    /\ deleted = FALSE /\ waiters = 0 /\ cancelGeneration = 0
    /\ list = <<>>
    /\ eventFlagRegistry = {Creator} /\ opened = {}
    /\ mutex = NoThread /\ it = 0
    /\ asleep = {}
    /\ pc = [t \in Threads |-> "idle"]
    /\ entry = [t \in Threads |-> NoHandle]
    /\ node = [t \in Threads |-> NoNode]
    /\ result = "none"

\* sceKernelOpenEventFlag, with the flag's own name: the registry is locked and
\* the flag found while it is shared, not deleted and its creator registered.
Open(t, h) ==
    /\ pc[t] = "idle" /\ mutex = NoThread
    /\ Creator \in eventFlagRegistry /\ shared /\ ~deleted
    /\ h \in Opens \ opened
    /\ eventFlagRegistry' = eventFlagRegistry \cup {h}
    /\ opened' = opened \cup {h}
    /\ UNCHANGED <<flag, mutex, it, asleep, pc, entry, node>>

\* ResolveEventFlag, the first thing every other call does.
Resolve(t, h) ==
    /\ pc[t] = "idle"
    /\ h \in eventFlagRegistry
    /\ entry' = [entry EXCEPT ![t] = h]
    /\ Step(t, "resolved")
    /\ UNCHANGED <<flag, registry, mutex, it, asleep, node>>

\* A call that changes nothing.  There is one for every handle: the creator's
\* cannot be closed and an opened one not deleted (EPERM); others find the flag
\* deleted, single-waiter and waited for, or their condition not met.
Refuse(t) ==
    /\ pc[t] = "resolved"
    /\ Step(t, "idle")
    /\ entry' = [entry EXCEPT ![t] = NoHandle]
    /\ UNCHANGED <<flag, registry, mutex, it, asleep, node>>

\* sceKernelCloseEventFlag; a handle somebody else closed meanwhile is ESRCH.
Close(t) ==
    /\ pc[t] = "resolved"
    /\ entry[t] \in Opens \cap eventFlagRegistry
    /\ eventFlagRegistry' = eventFlagRegistry \ {entry[t]}
    /\ Step(t, "idle")
    /\ entry' = [entry EXCEPT ![t] = NoHandle]
    /\ UNCHANGED <<flag, opened, mutex, it, asleep, node>>

\* sceKernelClearEventFlag keeps the bits of its argument.
Clear(t, keep) ==
    /\ Locked(t) /\ ~deleted
    /\ pattern' = pattern \cap keep
    /\ Step(t, "idle")
    /\ entry' = [entry EXCEPT ![t] = NoHandle]
    /\ UNCHANGED <<multipleWaiters, shared, deleted, waiters, cancelGeneration,
                   list, registry, mutex, it, asleep, node>>

\* sceKernelPollEventFlag, and sceKernelWaitEventFlag whose condition is met at
\* once: the bits are consumed on the spot.
Take(t, bits, mode) ==
    /\ Locked(t) /\ ~deleted
    /\ MayWait
    /\ IsSatisfied(pattern, bits, mode)
    /\ pattern' = Consume(pattern, bits, mode)
    /\ Step(t, "idle")
    /\ entry' = [entry EXCEPT ![t] = NoHandle]
    /\ UNCHANGED <<multipleWaiters, shared, deleted, waiters, cancelGeneration,
                   list, registry, mutex, it, asleep, node>>

\* Mutation: the walk starts behind the head of the list.
SetSkipsHead(t, bits) ==
    /\ Locked(t) /\ ~deleted
    /\ pattern' = pattern \cup bits
    /\ mutex' = t /\ it' = 2
    /\ Step(t, "set")
    /\ UNCHANGED <<multipleWaiters, shared, deleted, waiters, cancelGeneration,
                   list, registry, asleep, entry, node>>

\* sceKernelSetEventFlag up to its walk over the waiters.
Set(t, bits) ==
    /\ Locked(t) /\ ~deleted
    /\ pattern' = pattern \cup bits
    /\ mutex' = t /\ it' = 1
    /\ Step(t, "set")
    /\ UNCHANGED <<multipleWaiters, shared, deleted, waiters, cancelGeneration,
                   list, registry, asleep, entry, node>>

\* Mutation: the pattern is delivered as it is after its bits were cleared.
DeliveredAfterClear(n) ==
    [n EXCEPT !.satisfied = TRUE,
              !.resultPattern = Consume(pattern, n.bits, n.mode)]

\* A waiter whose condition a set has met.
Delivered(n) == [n EXCEPT !.satisfied = TRUE, !.resultPattern = pattern]

\* One round of the walk: a waiter not satisfied so far gets the pattern as it is
\* now, and its bits are cleared before the next one is looked at ...
Deliver(t) ==
    /\ pc[t] = "set" /\ it <= Len(list)
    /\ LET n == node[list[it]] IN
          /\ ~n.satisfied /\ IsSatisfied(pattern, n.bits, n.mode)
          /\ pattern' = Consume(pattern, n.bits, n.mode)
          /\ node' = [node EXCEPT ![list[it]] = Delivered(@)]
    /\ it' = it + 1
    /\ UNCHANGED <<multipleWaiters, shared, deleted, waiters, cancelGeneration,
                   list, registry, mutex, asleep, pc, entry>>

\* ... or is passed over.
PassOver(t) ==
    /\ pc[t] = "set" /\ it <= Len(list)
    /\ LET n == node[list[it]] IN
          n.satisfied \/ ~IsSatisfied(pattern, n.bits, n.mode)
    /\ it' = it + 1
    /\ UNCHANGED <<flag, registry, mutex, asleep, pc, entry, node>>

SetDone(t) ==
    /\ pc[t] = "set" /\ it > Len(list)
    /\ asleep' = {}
    /\ mutex' = NoThread /\ it' = 0
    /\ Step(t, "idle")
    /\ entry' = [entry EXCEPT ![t] = NoHandle]
    /\ UNCHANGED <<flag, registry, node>>

\* sceKernelCancelEventFlag: the pattern is replaced and every wait begun so far
\* is cancelled; the waiters unlink themselves when they run.
Cancel(t, bits) ==
    /\ Locked(t) /\ ~deleted
    /\ cancelGeneration < MaxCancels
    /\ pattern' = bits
    /\ cancelGeneration' = cancelGeneration + 1
    /\ asleep' = {}
    /\ Step(t, "idle")
    /\ entry' = [entry EXCEPT ![t] = NoHandle]
    /\ UNCHANGED <<multipleWaiters, shared, deleted, waiters, list, registry,
                   mutex, it, node>>

\* sceKernelWaitEventFlag that blocks; a single-waiter flag refuses a second one.
Block(t, bits, mode, timed) ==
    /\ Locked(t) /\ ~deleted
    /\ MayWait
    /\ ~IsSatisfied(pattern, bits, mode)
    /\ Enlist(t)
    /\ node' = [node EXCEPT ![t] =
                  [bits |-> bits, mode |-> mode, satisfied |-> FALSE,
                   resultPattern |-> {}, generation |-> cancelGeneration,
                   timed |-> timed]]
    /\ asleep' = asleep \cup {t}
    /\ Step(t, "wait")
    /\ UNCHANGED <<pattern, multipleWaiters, shared, deleted, cancelGeneration,
                   registry, mutex, it, entry>>

\* A notified thread whose predicate is false goes back to sleep.
SleepAgain(t) ==
    /\ pc[t] \in {"wait", "delete"} /\ mutex = NoThread
    /\ t \notin asleep
    /\ ~MayReturn(t)
    /\ asleep' = asleep \cup {t}
    /\ UNCHANGED <<flag, registry, mutex, it, pc, entry, node>>

\* The wait ends, notified with a true predicate or by its deadline; then the
\* WaiterGuard's destructor runs.
WaitReturn(t) ==
    /\ pc[t] = "wait" /\ mutex = NoThread
    /\ (t \notin asleep /\ MayReturn(t)) \/ node[t].timed
    /\ result' = WaitResult(t)
    /\ RemoveWaiter(t)
    /\ waiters' = waiters - 1
    /\ asleep' = {}
    /\ node' = [node EXCEPT ![t] = NoNode]
    /\ Step(t, "idle")
    /\ entry' = [entry EXCEPT ![t] = NoHandle]
    /\ UNCHANGED <<pattern, multipleWaiters, shared, deleted, cancelGeneration,
                   registry, mutex, it>>

\* Mutation: a second deletion is let in.
DeleteAgain(t) ==
    /\ Locked(t) /\ entry[t] = Creator
    /\ deleted' = TRUE
    /\ asleep' = IF waiters = 0 THEN {} ELSE {t}
    /\ Step(t, "delete")
    /\ UNCHANGED <<pattern, multipleWaiters, shared, waiters, cancelGeneration,
                   list, registry, mutex, it, entry, node>>

\* sceKernelDeleteEventFlag: only the creator's handle, and only once.  It wakes
\* everybody and sleeps until the last waiter has left ...
Delete(t) ==
    /\ Locked(t) /\ entry[t] = Creator
    /\ ~deleted
    /\ deleted' = TRUE
    /\ asleep' = IF waiters = 0 THEN {} ELSE {t}
    /\ Step(t, "delete")
    /\ UNCHANGED <<pattern, multipleWaiters, shared, waiters, cancelGeneration,
                   list, registry, mutex, it, entry, node>>

\* ... gives the mutex up ...
DeleteWaited(t) ==
    /\ pc[t] = "delete" /\ mutex = NoThread
    /\ t \notin asleep
    /\ MayReturn(t)
    /\ Step(t, "retire")
    /\ UNCHANGED <<flag, registry, mutex, it, asleep, entry, node>>

\* ... and takes the handle out of the registry (RetireEventFlag).
Retire(t) ==
    /\ pc[t] = "retire"
    /\ eventFlagRegistry' = eventFlagRegistry \ {Creator}
    /\ Step(t, "idle")
    /\ entry' = [entry EXCEPT ![t] = NoHandle]
    /\ UNCHANGED <<flag, opened, mutex, it, asleep, node>>

Call(t) ==
    \/ \E h \in Handles : Open(t, h) \/ Resolve(t, h)
    \/ Refuse(t) \/ Close(t) \/ Delete(t)
    \/ \E bits \in SUBSET Bits : Clear(t, bits) \/ Set(t, bits) \/ Cancel(t, bits)
    \/ \E bits \in SUBSET Bits \ {{}}, mode \in WaitModes :
          \/ Take(t, bits, mode)
          \/ \E timed \in BOOLEAN : Block(t, bits, mode, timed)

Walk(t) == Deliver(t) \/ PassOver(t) \/ SetDone(t)

Resume(t) == SleepAgain(t) \/ DeleteWaited(t) \/ Retire(t)

Next == \E t \in Threads :
    \/ (Call(t) \/ Walk(t) \/ Resume(t)) /\ result' = "none"
    \/ WaitReturn(t)

Spec == Init /\ [][Next]_vars

-----------------------------------------------------------------------------
TypeOK ==
    /\ pattern \in SUBSET Bits
    /\ multipleWaiters \in BOOLEAN /\ shared \in BOOLEAN /\ deleted \in BOOLEAN
    /\ waiters \in Nat
    /\ cancelGeneration \in 0..MaxCancels
    /\ list \in Seq(Threads)
    /\ eventFlagRegistry \subseteq Handles /\ opened \subseteq Opens
    /\ mutex \in Threads \cup {NoThread} /\ it \in Nat
    /\ asleep \subseteq Threads
    /\ pc \in [Threads -> {"idle", "resolved", "set", "wait", "delete", "retire"}]
    /\ entry \in [Threads -> Handles \cup {NoHandle}]
    /\ node \in [Threads -> Nodes]
    /\ result \in {"none", "OK", "EACCES", "ECANCELED", "ETIMEDOUT"}

\* Whenever the mutex is free, no waiter of the current generation sleeps on a
\* condition the pattern meets: sceKernelSetEventFlag's one walk, which clears
\* bits as it goes, misses nobody, and nobody can begin to wait too late.
NoMissedSet ==
    mutex = NoThread =>
        \A t \in Threads :
            (pc[t] = "wait" /\ ~node[t].satisfied
                /\ node[t].generation = cancelGeneration)
              => ~IsSatisfied(pattern, node[t].bits, node[t].mode)

\* The list links the nodes of exactly the threads that are inside a wait, once
\* each, and _waiters counts them; a single-waiter flag has at most one.
ListIsWaiters ==
    /\ \A i, j \in 1..Len(list) : list[i] = list[j] => i = j
    /\ \A t \in Threads : (\E i \in 1..Len(list) : list[i] = t) <=> pc[t] = "wait"
    /\ waiters = Len(list)
    /\ ~multipleWaiters => waiters <= 1

\* A delivery is real: the pattern a satisfied waiter will report meets the
\* condition it waited for, whatever the walk cleared before and after it.
DeliveryMeetsCondition ==
    \A t \in Threads :
        node[t].satisfied
          => IsSatisfied(node[t].resultPattern, node[t].bits, node[t].mode)

\* Deletion is final: one thread deletes, and once the creator's handle is
\* retired nobody waits, nor will wait, on what is left of the flag, although
\* threads that resolved a handle before may still come.
DeletedIsQuiet ==
    /\ \A t, u \in Threads :
          pc[t] \in {"delete", "retire"} /\ pc[u] \in {"delete", "retire"} => t = u
    /\ (Creator \notin eventFlagRegistry \/ \E t \in Threads : pc[t] = "retire")
          => deleted /\ \A t \in Threads : pc[t] # "wait"

\* A timeout never swallows a delivery: a wait to which a set has given bits
\* reports them even when its deadline has passed, unless it was cancelled or
\* the flag deleted.
TimeoutKeepsDelivery ==
    [][\A t \in Threads :
          (pc[t] = "wait" /\ pc'[t] = "idle" /\ node[t].satisfied)
             => result' # "ETIMEDOUT"]_vars
=============================================================================
