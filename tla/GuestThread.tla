----------------------------- MODULE GuestThread -----------------------------
(***************************************************************************)
(* The life of a guest thread's record and of its stack, from              *)
(* libkernel/Pthread/src/Thread.cpp on Linux: scePthreadCreate, the        *)
(* thread's end, join, detach, and the records kept until a handle's       *)
(* storage is used again.                                                  *)
(*                                                                         *)
(* A record is counted: two references are born with it, its own thread's  *)
(* and its creator's, and a call that uses it takes one under the registry *)
(* lock.  The creator's goes with a detach; a join leaves it with the      *)
(* storage of the handle.  The stack of a joined thread is free when       *)
(* pthread_join returns, that of a detached one when the system no longer  *)
(* lists the thread.                                                       *)
(*                                                                         *)
(* The callers are threads whose own records play no part.  A handle may   *)
(* be used after its record has gone; the memory of a record is not given  *)
(* to another.                                                             *)
(***************************************************************************)
EXTENDS Integers, FiniteSets

CONSTANTS Callers, Records, Storages, Stacks, None

VARIABLES
    runner,         \* a record's thread: none, run, notify, release, leave, gone
    registered,     \* the records in the registry
    references,     \* how often each record is referenced
    finished, detached, joined, joining,    \* flags, as sets of records
    handleStorage,  \* where each record's handle was stored
    joinedThreads,  \* per storage, the joined record kept for it
    runsOn,         \* the stack each record's thread was started on
    owning,         \* the records whose guestStack is set
    retired,        \* the records whose stack is in retiredStacks
    spareStacks,    \* the stacks ready for the next thread
    pc, arg,        \* where each caller is, and in which record's call
    asleep          \* the callers a join condition has not notified yet

record == <<runner, registered, references, handleStorage, joinedThreads>>
flags  == <<finished, detached, joined, joining>>
stack  == <<runsOn, owning, retired, spareStacks>>
caller == <<pc, arg, asleep>>
vars   == <<record, flags, stack, caller>>

Made == {r \in Records : runner[r] # "none"}

Step(c, to)     == pc' = [pc EXCEPT ![c] = to] /\ UNCHANGED <<arg, asleep>>
Call(c, r, to)  == /\ pc' = [pc EXCEPT ![c] = to] /\ arg' = [arg EXCEPT ![c] = r]
                   /\ asleep' = asleep \ {c}
Return(c)       == Call(c, None, "idle")

\* LockRegisteredGuestThread and Retain both succeed.
CanRetain(r) == r \in registered /\ references[r] # 0

Retain(r)  == references' = [references EXCEPT ![r] = @ + 1]
Release(r) == references' = [references EXCEPT ![r] = @ - 1]

Init ==
    /\ runner = [r \in Records |-> "none"]
    /\ registered = {}
    /\ references = [r \in Records |-> 0]
    /\ finished = {} /\ detached = {} /\ joined = {} /\ joining = {}
    /\ handleStorage = [r \in Records |-> None]
    /\ joinedThreads = [s \in Storages |-> None]
    /\ runsOn = [r \in Records |-> None]
    /\ owning = {} /\ retired = {} /\ spareStacks = {}
    /\ pc = [c \in Callers |-> "idle"]
    /\ arg = [c \in Callers |-> None]
    /\ asleep = {}

\* CollectFinishedStack: the stacks become spare, or go back to the system,
\* as those do that were spare for longest; the limit is abstracted.
Collect(stacks) == spareStacks' \in SUBSET (spareStacks \cup stacks)

-----------------------------------------------------------------------------
(* scePthreadCreate.                                                       *)

\* Mutation: a finished record is taken for a thread that is gone.
HostThreadGoneFinished(r) == r \in finished

\* The system no longer lists the record's thread.
HostThreadGone(r) == runner[r] = "gone"

\* ReapRetiredStacks.
Reap(c) ==
    LET ready == {r \in retired : HostThreadGone(r)}
    IN  /\ pc[c] = "idle"
        /\ retired' = retired \ ready
        /\ Collect({runsOn[r] : r \in ready})
        /\ Step(c, "create")
        /\ UNCHANGED <<record, flags, runsOn, owning>>

\* The stacks that are mapped and not spare.
InUse == {runsOn[r] : r \in owning \cup retired}

\* A stack, spare or newly mapped, a record in the registry, a native thread
\* that is detached if need be; then the handle is stored and the guest code
\* let go.  A failure on the way ends the program and is left out.
Create(c, r, s, k, detach) ==
    /\ pc[c] = "create" /\ runner[r] = "none"
    /\ k \notin InUse
    /\ runner' = [runner EXCEPT ![r] = "run"]
    /\ registered' = registered \cup {r}
    /\ references' = [references EXCEPT ![r] = 2]
    /\ handleStorage' = [handleStorage EXCEPT ![r] = s]
    /\ runsOn' = [runsOn EXCEPT ![r] = k]
    /\ spareStacks' = spareStacks \ {k}
    /\ IF detach
       THEN /\ detached' = detached \cup {r} /\ retired' = retired \cup {r}
            /\ UNCHANGED owning
            /\ Call(c, r, "recycleDetached")
       ELSE /\ owning' = owning \cup {r}
            /\ UNCHANGED <<detached, retired>>
            /\ Call(c, r, "recycle")
    /\ UNCHANGED <<joinedThreads, finished, joined, joining>>

\* RecycleJoinedThread: whatever is kept for this storage goes, the thread
\* just started too if it has been joined meanwhile.
Recycle(c) ==
    LET s == handleStorage[arg[c]]
        kept == joinedThreads[s]
    IN  /\ pc[c] \in {"recycle", "recycleDetached"}
        /\ joinedThreads' = [joinedThreads EXCEPT ![s] = None]
        /\ IF kept = None THEN UNCHANGED references ELSE Release(kept)
        /\ IF pc[c] = "recycle" THEN Return(c) ELSE Step(c, "disown")
        /\ UNCHANGED <<runner, registered, handleStorage, flags, stack>>

\* The reference of the creator of a thread that was born detached.
Disown(c) ==
    /\ pc[c] = "disown"
    /\ Release(arg[c]) /\ Return(c)
    /\ UNCHANGED <<runner, registered, handleStorage, joinedThreads, flags, stack>>

-----------------------------------------------------------------------------
(* The thread itself.                                                      *)

RunnerStep(r, from, to) == runner[r] = from /\ runner' = [runner EXCEPT ![r] = to]

JoinersOf(r) == {c \in Callers : arg[c] = r /\ pc[c] = "asleep"}

\* Mutation: the joiners are notified before the flag is set.
FinishNotifiesFirst(r) ==
    /\ \/ /\ RunnerStep(r, "run", "notify")
          /\ asleep' = asleep \ JoinersOf(r) /\ UNCHANGED finished
       \/ /\ RunnerStep(r, "notify", "release")
          /\ finished' = finished \cup {r} /\ UNCHANGED asleep
    /\ UNCHANGED <<registered, references, handleStorage, joinedThreads, detached, joined, joining,
                   stack, pc, arg>>

\* finishThread: the flag under the join mutex, then the notification.
Finish(r) ==
    /\ \/ /\ RunnerStep(r, "run", "notify")
          /\ finished' = finished \cup {r} /\ UNCHANGED asleep
       \/ /\ RunnerStep(r, "notify", "release")
          /\ asleep' = asleep \ JoinersOf(r) /\ UNCHANGED finished
    /\ UNCHANGED <<registered, references, handleStorage, joinedThreads, detached, joined, joining,
                   stack, pc, arg>>

\* The guard of StartNativeThread gives the thread's own reference back.
ReleaseSelf(r) ==
    /\ RunnerStep(r, "release", "leave")
    /\ Release(r)
    /\ UNCHANGED <<registered, handleStorage, joinedThreads, flags, stack, caller>>

\* The native thread has run off its stack.
Leave(r) ==
    /\ RunnerStep(r, "leave", "gone")
    /\ UNCHANGED <<registered, references, handleStorage, joinedThreads, flags, stack, caller>>

\* ~PthreadPrivate, by whoever gave the last reference back.
Delete(r) ==
    /\ r \in registered /\ references[r] = 0
    /\ registered' = registered \ {r}
    /\ UNCHANGED <<runner, references, handleStorage, joinedThreads, flags, stack, caller>>

-----------------------------------------------------------------------------
(* Join and detach.                                                        *)

\* The first part of JoinThread: is there a thread to join at all?
JoinLook(c, r) ==
    /\ pc[c] = "idle" /\ CanRetain(r)
    /\ Retain(r)
    /\ Call(c, r, IF r \in detached \cup joined THEN "drop" ELSE "looked")
    /\ UNCHANGED <<runner, registered, handleStorage, joinedThreads, flags, stack>>

\* Its reference is given back before the cancellation point between the parts.
JoinCheck(c) ==
    /\ pc[c] = "looked"
    /\ Release(arg[c])
    /\ \/ Step(c, "claim")
       \/ Call(c, None, "exited")
    /\ UNCHANGED <<runner, registered, handleStorage, joinedThreads, flags, stack>>

\* The wait loop, under the join mutex.  A thread that has finished is joined;
\* a deadline may have passed; a canceled caller exits by a jump past its
\* reference's destructor; or the caller sleeps.
JoinLoop(c, r) ==
    \/ /\ r \in finished
       /\ joining' = joining \ {r} /\ joined' = joined \cup {r}
       /\ Call(c, r, "join")
    \/ /\ r \notin finished
       /\ joining' = joining \ {r} /\ UNCHANGED joined
       /\ Call(c, r, "drop")
    \/ /\ r \notin finished \/ pc[c] = "asleep"
       /\ joining' = joining \ {r} /\ UNCHANGED joined
       /\ Call(c, r, "exited")
    \/ /\ r \notin finished
       /\ joining' = joining \cup {r} /\ UNCHANGED joined
       /\ pc' = [pc EXCEPT ![c] = "asleep"] /\ arg' = [arg EXCEPT ![c] = r]
       /\ asleep' = asleep \cup {c}

\* Mutation: it is not asked again whether the thread was detached or joined.
JoinClaimUnasked(c) ==
    LET r == arg[c]
    IN  /\ pc[c] = "claim"
        /\ IF ~CanRetain(r) THEN Return(c) /\ UNCHANGED <<references, joined, joining>>
           ELSE Retain(r) /\ JoinLoop(c, r)
        /\ UNCHANGED <<runner, registered, handleStorage, joinedThreads, finished, detached, stack>>

\* The second part: the record may have gone or been claimed meanwhile.
JoinClaim(c) ==
    LET r == arg[c]
    IN  /\ pc[c] = "claim"
        /\ IF ~CanRetain(r) THEN Return(c) /\ UNCHANGED <<references, joined, joining>>
           ELSE /\ Retain(r)
                /\ IF r \in detached \cup joined \cup joining
                   THEN Step(c, "drop") /\ UNCHANGED <<joined, joining>>
                   ELSE JoinLoop(c, r)
        /\ UNCHANGED <<runner, registered, handleStorage, joinedThreads, finished, detached, stack>>

\* The sleep ends: notified, at the deadline, by a cancellation or for no reason.
JoinAwake(c) ==
    /\ pc[c] = "asleep"
    /\ JoinLoop(c, arg[c])
    /\ UNCHANGED <<record, finished, detached, stack>>

\* pthread_join returns when the thread has left its stack, which is free then.
HostJoin(c) ==
    LET r == arg[c]
    IN  /\ pc[c] = "join" /\ runner[r] = "gone"
        /\ owning' = owning \ {r}
        /\ IF r \in owning THEN Collect({runsOn[r]}) ELSE UNCHANGED spareStacks
        /\ Step(c, "retain")
        /\ UNCHANGED <<record, flags, runsOn, retired>>

\* RetainJoinedThread: the creator's reference is kept for the storage.
RetainJoined(c) ==
    LET r == arg[c]
        s == handleStorage[r]
        kept == joinedThreads[s]
    IN  /\ pc[c] = "retain"
        /\ IF kept \in {None, r} THEN UNCHANGED references ELSE Release(kept)
        /\ joinedThreads' = [joinedThreads EXCEPT ![s] = r]
        /\ Step(c, "drop")
        /\ UNCHANGED <<runner, registered, handleStorage, flags, stack>>

\* scePthreadDetach's checks, under the registry lock and the join mutex.
Detach(c, r) ==
    /\ pc[c] = "idle" /\ CanRetain(r)
    /\ Retain(r)
    /\ IF r \in joined \cup detached \cup joining
       THEN Call(c, r, "drop") /\ UNCHANGED detached
       ELSE Call(c, r, "detach") /\ detached' = detached \cup {r}
    /\ UNCHANGED <<runner, registered, handleStorage, joinedThreads, finished, joined, joining, stack>>

\* pthread_detach and RetireGuestStack.
Retire(c) ==
    LET r == arg[c]
    IN  /\ pc[c] = "detach"
        /\ owning' = owning \ {r}
        /\ retired' = IF r \in owning THEN retired \cup {r} ELSE retired
        /\ Step(c, "unref")
        /\ UNCHANGED <<record, flags, runsOn, spareStacks>>

\* Detach gives the creator's reference back, before its own.
DetachRelease(c) ==
    /\ pc[c] = "unref"
    /\ Release(arg[c]) /\ Step(c, "drop")
    /\ UNCHANGED <<runner, registered, handleStorage, joinedThreads, flags, stack>>

\* The call returns: its GuestThreadReference goes.
Drop(c) ==
    /\ pc[c] = "drop"
    /\ Release(arg[c]) /\ Return(c)
    /\ UNCHANGED <<runner, registered, handleStorage, joinedThreads, flags, stack>>

-----------------------------------------------------------------------------

Next ==
    \/ \E c \in Callers :
        \/ Reap(c) \/ Recycle(c) \/ Disown(c)
        \/ \E r \in Records, s \in Storages, k \in Stacks, detach \in BOOLEAN : Create(c, r, s, k, detach)
        \/ \E r \in Records : JoinLook(c, r) \/ Detach(c, r)
        \/ JoinCheck(c) \/ JoinClaim(c) \/ JoinAwake(c) \/ HostJoin(c) \/ RetainJoined(c)
        \/ Retire(c) \/ DetachRelease(c) \/ Drop(c)
    \/ \E r \in Records : Finish(r) \/ ReleaseSelf(r) \/ Leave(r) \/ Delete(r)

Spec == Init /\ [][Next]_vars

-----------------------------------------------------------------------------

\* The calls that hold a reference of their own, for good if the caller has
\* exited out of a join.
Holders(r) == {c \in Callers : /\ arg[c] = r
                               /\ pc[c] \in {"looked", "asleep", "join", "retain", "detach", "unref",
                                             "drop", "exited"}}

\* The creator's reference: nobody has joined or detached the thread, or who
\* did has not passed the reference on, or it is kept for the storage.
CreatorsShare(r) ==
    \/ r \notin detached \cup joined
    \/ \E c \in Callers : arg[c] = r /\ pc[c] \in {"join", "retain", "detach", "unref",
                                                   "recycleDetached", "disown"}
    \/ \E s \in Storages : joinedThreads[s] = r

\* Whatever the order in which a thread ends, is joined and detached and its
\* handle's storage is used again, a record's count is the number of those who
\* may still use it: nobody touches a record that is deleted, and none stays
\* that nobody can reach, but for those a canceled joiner left behind.
RecordsAreCounted ==
    \A r \in Made :
        references[r] = Cardinality(Holders(r))
                        + (IF runner[r] \in {"run", "notify", "release"} THEN 1 ELSE 0)
                        + (IF CreatorsShare(r) THEN 1 ELSE 0)

\* A joiner never sleeps on when its thread has finished and notified.
JoinerIsWoken ==
    \A c \in asleep : runner[arg[c]] \in {"run", "notify"}

\* A thread that has not left its stack is the only one on it, and the stack is
\* neither spare nor given back to the system.
StacksAreNotShared ==
    \A r \in Made : runner[r] # "gone" =>
        /\ r \in owning \cup retired
        /\ runsOn[r] \notin spareStacks
        /\ \A q \in (owning \cup retired) \ {r} : runsOn[q] # runsOn[r]

=============================================================================
