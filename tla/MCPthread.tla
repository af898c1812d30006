------------------------------ MODULE MCPthread ------------------------------
(***************************************************************************)
(* Three parts of the guest threads, checked side by side on small sets: a *)
(* behaviour is one of PthreadCond, of GuestThread or of ParkingLot, with  *)
(* the other two at rest.  They share no state here.                       *)
(***************************************************************************)
EXTENDS PthreadCond, TLC

CONSTANTS Callers, Records, Storages, Stacks, None,
          Parkers, Interrupted, Mutexes

\* The callers and the parked threads are finitely many, and None is no record,
\* mutex or call.
ASSUME PartsAssumption ==
    /\ IsFiniteSet(Callers) /\ IsFiniteSet(Parkers) /\ Interrupted \subseteq Parkers
    /\ None \notin Records \cup Mutexes \cup (Parkers \X {"thread", "handler"})

VARIABLES
    part,           \* which of the three this behaviour shows
    runner, registered, references, finished, detached, joined, joining, handleStorage,
    joinedThreads, runsOn, owning, retired, spareStacks, callerPc, arg, asleep,
    holder, bucket, parked, signaled, parkPc, key, timed

Life == INSTANCE GuestThread WITH pc <- callerPc
Park == INSTANCE ParkingLot WITH pc <- parkPc

lifeVars == <<runner, registered, references, finished, detached, joined, joining, handleStorage,
              joinedThreads, runsOn, owning, retired, spareStacks, callerPc, arg, asleep>>
parkVars == <<holder, bucket, parked, signaled, parkPc, key, timed>>

PartsInit == part \in {"cond", "life", "park"} /\ Init /\ Life!Init /\ Park!Init

PartsNext ==
    \/ part = "cond" /\ Next /\ UNCHANGED <<part, lifeVars, parkVars>>
    \/ part = "life" /\ Life!Next /\ UNCHANGED <<part, vars, parkVars>>
    \/ part = "park" /\ Park!Next /\ UNCHANGED <<part, vars, lifeVars>>

PartsSpec == PartsInit /\ [][PartsNext]_<<part, vars, lifeVars, parkVars>>

RecordsAreCounted == Life!RecordsAreCounted
JoinerIsWoken == Life!JoinerIsWoken
StacksAreNotShared == Life!StacksAreNotShared
WakeIsOnItsWay == Park!WakeIsOnItsWay

\* The parts share model values: the threads of PthreadCond are the records of
\* GuestThread, and the callers of GuestThread are the threads of ParkingLot.  So
\* two sets of permutations serve all of them.
Symmetry == Permutations(Threads) \cup Permutations(Parkers)
=============================================================================
