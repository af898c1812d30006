------------------------------ MODULE MCQueues ------------------------------
(***************************************************************************)
(* Queues and locks of libkernel that share nothing, side by side for TLC: *)
(* the two event queues of MCEventQueue, a kqueue that watches another     *)
(* (KqueueWatch) and the scePthread read-write lock.  A behaviour is one   *)
(* of them; the other parts' variables hold nothing or stay as they begin. *)
(***************************************************************************)
EXTENDS MCEventQueue

CONSTANTS Watchers, Notes, ClearedNotes, MaxActivations, Nobody,
          NoThread, Slots, Locks, Null, Destroyed, MaxReads, DestroyHeld

ASSUME WatchersAssumption == Nobody \notin Watchers /\ MaxActivations \in Nat
ASSUME ThreadsAssumption == IsFiniteSet(Threads) /\ NoThread \notin Threads
ASSUME LocksAssumption == Slots # {} /\ Null \notin Locks /\ Destroyed \notin Locks \cup {Null}
ASSUME ReadsAssumption == MaxReads \in Nat

VARIABLES
    raised, enabled, activations, innerClosed, innerPollers, clears, watching, watch, own,
    outerClosed, outerPollers, holder, watchPc, timed, latched,
    slot, allocated, lock, readLocksHeld, pc, call, asleep, holds

Watch == INSTANCE KqueueWatch WITH Threads <- Watchers, pc <- watchPc
Rwlock == INSTANCE PthreadRwlock

watchVars == <<raised, enabled, activations, innerClosed, innerPollers, clears, watching,
               watch, own, outerClosed, outerPollers, holder, watchPc, timed, latched>>
rwlockVars == <<slot, allocated, lock, readLocksHeld, pc, call, asleep, holds>>

NoWatch ==
    /\ raised = 0 /\ enabled = 0 /\ activations = 0 /\ innerClosed = 0 /\ innerPollers = 0
    /\ clears = 0 /\ watching = 0 /\ watch = 0 /\ own = 0 /\ outerClosed = 0
    /\ outerPollers = 0 /\ holder = 0 /\ watchPc = 0 /\ timed = 0 /\ latched = 0
NoRwlock ==
    /\ slot = 0 /\ allocated = 0 /\ lock = 0 /\ readLocksHeld = 0 /\ pc = 0 /\ call = 0
    /\ asleep = 0 /\ holds = 0

QueuesInit ==
    \/ PartsInit /\ NoWatch /\ NoRwlock
    \/ part = "watch" /\ Init /\ Watch!Init /\ NoRwlock
    \/ part = "rwlock" /\ Init /\ NoWatch /\ Rwlock!Init

QueuesNext ==
    \/ PartsNext /\ UNCHANGED <<watchVars, rwlockVars>>
    \/ part = "watch" /\ Watch!Next /\ UNCHANGED <<part, vars, rwlockVars>>
    \/ part = "rwlock" /\ Rwlock!Next /\ UNCHANGED <<part, vars, watchVars>>

QueuesSpec == QueuesInit /\ [][QueuesNext]_<<part, vars, watchVars, rwlockVars>>

NoMissedActivation == part = "watch" => Watch!NoMissedActivation
RwlockExcludes == part = "rwlock" => Rwlock!Exclusion
NoMissedNotify == part = "rwlock" => Rwlock!NoMissedNotify

Symmetries == Symmetry \cup Permutations(Locks)
=============================================================================
