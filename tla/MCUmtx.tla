------------------------------- MODULE MCUmtx -------------------------------
(***************************************************************************)
(* The parts of SyncOnAddress.cpp, checked side by side on small sets of   *)
(* threads: a behaviour is one of UmtxRwlock, one of UmtxMutex, or one of  *)
(* AddressWait and UmtxSem, whose calls the threads use by turns; the      *)
(* other parts are at rest.  Words, semaphores, mutexes and locks have     *)
(* different keys, so that none's state is touched by another's calls.     *)
(***************************************************************************)
EXTENDS UmtxRwlock, TLC

CONSTANTS Lockers, NoThread, TimedCalls, Words, Values, Counts, MaxCount

ASSUME LockersAssumption == IsFiniteSet(Lockers) /\ NoThread \notin Lockers
ASSUME WordsAssumption == Words # {} /\ Values # {} /\ Counts \subseteq Int /\ MaxCount \in Nat

VARIABLES
    part,           \* which of them this behaviour shows
    owner, contested, mutexQueue, hasWaiters, cvQueue, mutexPc, mutexCall, timed, several,
    cvWoken, granted,
    value, waiters, woken, waitPc, wait, toWake, result,
    count, semHasWaiters, semQueue, semPc, semTimed

Mutex == INSTANCE UmtxMutex WITH
    Threads <- Lockers, queue <- mutexQueue, pc <- mutexPc, call <- mutexCall
Wait == INSTANCE AddressWait WITH Threads <- Lockers, pc <- waitPc
Sem == INSTANCE UmtxSem WITH
    Threads <- Lockers, hasWaiters <- semHasWaiters, queue <- semQueue, pc <- semPc,
    timed <- semTimed

mutexVars == <<owner, contested, mutexQueue, hasWaiters, cvQueue, mutexPc, mutexCall, timed,
               several, cvWoken, granted>>
waitVars == <<value, waiters, woken, waitPc, wait, toWake, result>>
semVars == <<count, semHasWaiters, semQueue, semPc, semTimed>>

\* A part at rest: the lock as it begins, the others with nothing in their variables.
NoMutex ==
    /\ owner = 0 /\ contested = 0 /\ mutexQueue = 0 /\ hasWaiters = 0 /\ cvQueue = 0
    /\ mutexPc = 0 /\ mutexCall = 0 /\ timed = 0 /\ several = 0 /\ cvWoken = 0
    /\ granted = 0
NoWaits ==
    /\ value = 0 /\ waiters = 0 /\ woken = 0 /\ waitPc = 0 /\ wait = 0
    /\ toWake = 0 /\ result = 0 /\ count = 0 /\ semHasWaiters = 0 /\ semQueue = 0
    /\ semPc = 0 /\ semTimed = 0

PartsInit ==
    /\ Init
    /\ \/ part = "rwlock" /\ NoMutex /\ NoWaits
       \/ part = "mutex" /\ Mutex!Init /\ NoWaits /\ ~preferReader
       \/ part = "wait" /\ Wait!Init /\ Sem!Init /\ NoMutex /\ ~preferReader

PartsNext ==
    \/ part = "rwlock" /\ Next /\ UNCHANGED <<part, mutexVars, waitVars, semVars>>
    \/ part = "mutex" /\ Mutex!Next /\ UNCHANGED <<part, vars, waitVars, semVars>>
    \/ /\ part = "wait"
       /\ \E t \in Lockers :
             \/ semPc[t] = "idle" /\ Wait!Does(t) /\ UNCHANGED semVars
             \/ waitPc[t] = "idle" /\ Sem!Does(t) /\ UNCHANGED waitVars
       /\ UNCHANGED <<part, vars, mutexVars>>

PartsSpec == PartsInit /\ [][PartsNext]_<<part, vars, mutexVars, waitVars, semVars>>

GrantedIsOwner == part = "mutex" => Mutex!GrantedIsOwner
MutexWaiterIsNotStranded == part = "mutex" => Mutex!NoStrandedWaiter
CvWaiterIsReachable == part = "mutex" => Mutex!CvWaiterIsReachable
NoMissedWrite == part = "wait" => Wait!NoMissedWrite
NoStrandedSleeper == part = "wait" => Sem!NoStrandedSleeper

\* The threads of the lock that the other parts have too are interchangeable.
Symmetry == Permutations(Lockers)
=============================================================================
