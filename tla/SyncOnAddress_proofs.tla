------------------------- MODULE SyncOnAddress_proofs -------------------------
(***************************************************************************)
(* Proofs about the parts of SyncOnAddress.cpp that MCUmtx puts side by    *)
(* side, for any threads, words, values, counts and deadlines: the umutex  *)
(* and the ucond (UmtxMutex), the address waits (AddressWait) and the      *)
(* usem (UmtxSem).                                                         *)
(***************************************************************************)
EXTENDS MCUmtx, UmtxRwlock_proofs

(* The umutex and the ucond.                                               *)

\* The owner word is the lock's: nobody who is letting go of it still counts as
\* granted, so that the store of an unlock hits its own thread.
Owners ==
    /\ Mutex!GrantedIsOwner
    /\ \A t \in Lockers : mutexPc[t] \in {"unlockCount", "unlockStore"} => t \notin granted

\* A wake is on its way while the mutex is free: a thread between its failed
\* attempt and its sleep holds the bucket, so that the wake of the unlock it
\* missed comes after its sleep; and for every sleeper there is a thread that
\* will wake or take the mutex.
MutexWakeIsDue ==
    /\ \A t \in Lockers :
          mutexPc[t] = "mark" =>
             owner # NoThread \/ \E u \in Lockers : mutexPc[u] = "unlockWake"
    /\ (owner = NoThread /\ mutexQueue # <<>>) =>
          \E t \in Lockers : mutexPc[t] \in {"try", "mark", "woken", "returned", "unlockWake"}

\* The queue of the condition holds the threads inside UMTX_OP_CV_WAIT that were
\* not signalled, and the flag is set while there is one.  (The last conjunct: a
\* thread on its way to a wake without an unlock is not one of them.)
CvPlaces == {"unlockCount", "unlockStore", "unlockWake", "cvSleep", "cvRefused"}
CvQueued ==
    /\ \A t \in Lockers : mutexPc[t] \in CvPlaces /\ mutexCall[t] = "cv"
                             => t \in Range(cvQueue) \cup cvWoken
    /\ \A t \in Range(cvQueue) :
          mutexPc[t] \in CvPlaces /\ mutexCall[t] = "cv" /\ t \notin cvWoken
    /\ cvQueue # <<>> => hasWaiters
    /\ \A t \in Lockers : mutexPc[t] \in {"wakeCount", "wakeClear"} => mutexCall[t] # "cv"

MutexIInv == Mutex!TypeOK /\ Owners /\ MutexWakeIsDue /\ CvQueued

\* The invariant of the umutex and the ucond holds in every reachable state.
LEMMA MutexInvariance == PartsSpec => [](part = "mutex" => MutexIInv)
<1> USE LockersAssumption
<1>0. \A q, i : /\ Mutex!Range(q) = Range(q) /\ Mutex!IsInjective(q) = IsInjective(q)
                /\ Mutex!RemoveAt(q, i) = RemoveAt(q, i)
  BY DEF Mutex!Range, Range, Mutex!IsInjective, IsInjective, Mutex!RemoveAt, RemoveAt
<1>1. Mutex!Init => MutexIInv
  <2> SUFFICES ASSUME Mutex!Init PROVE MutexIInv
    OBVIOUS
  <2>1. Range(<<>>) = {} /\ IsInjective(<<>>) /\ <<>> \in Seq(Lockers)
    BY DEF Range, IsInjective
  <2>2. Mutex!TypeOK
    BY <1>0, <2>1 DEF Mutex!Init, Mutex!TypeOK, Mutex!CallNames
  <2> QED BY <2>1, <2>2 DEF Mutex!Init, MutexIInv, Owners, MutexWakeIsDue, CvQueued, Mutex!GrantedIsOwner, CvPlaces
<1>2. ASSUME MutexIInv, Mutex!Next
      PROVE  MutexIInv'
  <2> USE <1>2 DEF MutexIInv
  <2>0. /\ mutexQueue \in Seq(Lockers) /\ IsInjective(mutexQueue)
        /\ cvQueue \in Seq(Lockers) /\ IsInjective(cvQueue)
        /\ Range(mutexQueue) = {t \in Lockers : mutexPc[t] = "asleep"}
    BY <1>0 DEF Mutex!TypeOK
  <2>Begin. ASSUME NEW t \in Lockers, NEW c \in Mutex!CallNames, NEW d \in BOOLEAN, Mutex!Begin(t, c, d)
    PROVE  MutexIInv'
    <3> USE <2>Begin DEF Mutex!Begin, Mutex!Step, Mutex!word, Mutex!cv, Mutex!args
    <3>1. Mutex!TypeOK'
      BY DEF Mutex!TypeOK, Mutex!CallNames
    <3>2. Owners'
      BY DEF Mutex!TypeOK, Owners, Mutex!GrantedIsOwner
    <3>3. MutexWakeIsDue'
      BY DEF Mutex!TypeOK, MutexWakeIsDue
    <3>4. CvQueued'
      BY <2>0 DEF Mutex!TypeOK, CvQueued, CvPlaces
    <3> QED BY <3>1, <3>2, <3>3, <3>4
  <2>Acquire. ASSUME NEW t \in Lockers, Mutex!Acquire(t)
    PROVE  MutexIInv'
    <3> USE <2>Acquire DEF Mutex!Acquire, Mutex!Step, Mutex!word, Mutex!cv, Mutex!args, Mutex!MayAcquire, Mutex!Unowned
    <3>1. Mutex!TypeOK'
      BY DEF Mutex!TypeOK, Mutex!CallNames
    <3>2. Owners'
      BY DEF Mutex!TypeOK, Owners, Mutex!GrantedIsOwner
    <3>3. MutexWakeIsDue'
      BY DEF Mutex!TypeOK, MutexWakeIsDue
    <3>4. CvQueued'
      BY <2>0 DEF Mutex!TypeOK, CvQueued, CvPlaces
    <3> QED BY <3>1, <3>2, <3>3, <3>4
  <2>FoundFree. ASSUME NEW t \in Lockers, Mutex!FoundFree(t)
    PROVE  MutexIInv'
    <3> USE <2>FoundFree DEF Mutex!FoundFree, Mutex!Step, Mutex!word, Mutex!cv, Mutex!args, Mutex!Unowned
    <3>1. Mutex!TypeOK'
      BY DEF Mutex!TypeOK, Mutex!CallNames
    <3>2. Owners'
      BY DEF Mutex!TypeOK, Owners, Mutex!GrantedIsOwner
    <3>3. MutexWakeIsDue'
      BY DEF Mutex!TypeOK, MutexWakeIsDue
    <3>4. CvQueued'
      BY <2>0 DEF Mutex!TypeOK, CvQueued, CvPlaces
    <3> QED BY <3>1, <3>2, <3>3, <3>4
  <2>Fail. ASSUME NEW t \in Lockers, Mutex!Fail(t)
    PROVE  MutexIInv'
    <3> USE <2>Fail DEF Mutex!Fail, Mutex!Step, Mutex!word, Mutex!cv, Mutex!args, Mutex!Unowned
    <3>1. Mutex!TypeOK'
      BY DEF Mutex!TypeOK, Mutex!CallNames
    <3>2. Owners'
      BY DEF Mutex!TypeOK, Owners, Mutex!GrantedIsOwner
    <3>3. MutexWakeIsDue'
      BY DEF Mutex!TypeOK, MutexWakeIsDue
    <3>4. CvQueued'
      BY <2>0 DEF Mutex!TypeOK, CvQueued, CvPlaces
    <3> QED BY <3>1, <3>2, <3>3, <3>4
  <2>Woken. ASSUME NEW t \in Lockers, Mutex!Woken(t)
    PROVE  MutexIInv'
    <3> USE <2>Woken DEF Mutex!Woken, Mutex!Step, Mutex!word, Mutex!cv, Mutex!args
    <3>1. Mutex!TypeOK'
      BY DEF Mutex!TypeOK, Mutex!CallNames
    <3>2. Owners'
      BY DEF Mutex!TypeOK, Owners, Mutex!GrantedIsOwner
    <3>3. MutexWakeIsDue'
      BY DEF Mutex!TypeOK, MutexWakeIsDue
    <3>4. CvQueued'
      BY <2>0 DEF Mutex!TypeOK, CvQueued, CvPlaces
    <3> QED BY <3>1, <3>2, <3>3, <3>4
  <2>Trylock. ASSUME NEW t \in Lockers, Mutex!Trylock(t)
    PROVE  MutexIInv'
    <3> USE <2>Trylock DEF Mutex!Trylock, Mutex!Step, Mutex!word, Mutex!cv, Mutex!args, Mutex!MayAcquire, Mutex!Unowned
    <3>1. Mutex!TypeOK'
      BY DEF Mutex!TypeOK, Mutex!CallNames
    <3>2. Owners'
      BY DEF Mutex!TypeOK, Owners, Mutex!GrantedIsOwner
    <3>3. MutexWakeIsDue'
      BY DEF Mutex!TypeOK, MutexWakeIsDue
    <3>4. CvQueued'
      BY <2>0 DEF Mutex!TypeOK, CvQueued, CvPlaces
    <3> QED BY <3>1, <3>2, <3>3, <3>4
  <2>Unlock. ASSUME NEW t \in Lockers, Mutex!Unlock(t)
    PROVE  MutexIInv'
    <3> USE <2>Unlock DEF Mutex!Unlock, Mutex!Step, Mutex!word, Mutex!cv, Mutex!args
    <3>1. Mutex!TypeOK'
      BY DEF Mutex!TypeOK, Mutex!CallNames
    <3>2. Owners'
      BY DEF Mutex!TypeOK, Owners, Mutex!GrantedIsOwner
    <3>3. MutexWakeIsDue'
      BY DEF Mutex!TypeOK, MutexWakeIsDue
    <3>4. CvQueued'
      BY <2>0 DEF Mutex!TypeOK, CvQueued, CvPlaces
    <3> QED BY <3>1, <3>2, <3>3, <3>4
  <2>Count. ASSUME NEW t \in Lockers, Mutex!Count(t)
    PROVE  MutexIInv'
    <3> USE <2>Count DEF Mutex!Count, Mutex!Step, Mutex!word, Mutex!cv, Mutex!args
    <3>1. Mutex!TypeOK'
      BY DEF Mutex!TypeOK, Mutex!CallNames
    <3>2. Owners'
      BY DEF Mutex!TypeOK, Owners, Mutex!GrantedIsOwner
    <3>3. MutexWakeIsDue'
      BY DEF Mutex!TypeOK, MutexWakeIsDue
    <3>4. CvQueued'
      BY <2>0 DEF Mutex!TypeOK, CvQueued, CvPlaces
    <3> QED BY <3>1, <3>2, <3>3, <3>4
  <2>Store. ASSUME NEW t \in Lockers, Mutex!Store(t)
    PROVE  MutexIInv'
    <3> USE <2>Store DEF Mutex!Store, Mutex!Step, Mutex!word, Mutex!cv, Mutex!args
    <3>1. Mutex!TypeOK'
      BY DEF Mutex!TypeOK, Mutex!CallNames
    <3>2. Owners'
      BY DEF Mutex!TypeOK, Owners, Mutex!GrantedIsOwner
    <3>3. MutexWakeIsDue'
      BY DEF Mutex!TypeOK, MutexWakeIsDue
    <3>4. CvQueued'
      BY <2>0 DEF Mutex!TypeOK, CvQueued, CvPlaces
    <3> QED BY <3>1, <3>2, <3>3, <3>4
  <2>MutexWake. ASSUME NEW t \in Lockers, Mutex!MutexWake(t)
    PROVE  MutexIInv'
    <3> USE <2>MutexWake DEF Mutex!MutexWake, Mutex!Step, Mutex!word, Mutex!cv, Mutex!args, Mutex!Unowned
    <3>1. Mutex!TypeOK'
      BY DEF Mutex!TypeOK, Mutex!CallNames
    <3>2. Owners'
      BY DEF Mutex!TypeOK, Owners, Mutex!GrantedIsOwner
    <3>3. MutexWakeIsDue'
      BY DEF Mutex!TypeOK, MutexWakeIsDue
    <3>4. CvQueued'
      BY <2>0 DEF Mutex!TypeOK, CvQueued, CvPlaces
    <3> QED BY <3>1, <3>2, <3>3, <3>4
  <2>WakeCount. ASSUME NEW t \in Lockers, Mutex!WakeCount(t)
    PROVE  MutexIInv'
    <3> USE <2>WakeCount DEF Mutex!WakeCount, Mutex!Step, Mutex!word, Mutex!cv, Mutex!args
    <3>1. Mutex!TypeOK'
      BY DEF Mutex!TypeOK, Mutex!CallNames
    <3>2. Owners'
      BY DEF Mutex!TypeOK, Owners, Mutex!GrantedIsOwner
    <3>3. MutexWakeIsDue'
      BY DEF Mutex!TypeOK, MutexWakeIsDue
    <3>4. CvQueued'
      BY <2>0 DEF Mutex!TypeOK, CvQueued, CvPlaces
    <3> QED BY <3>1, <3>2, <3>3, <3>4
  <2>WakeClear. ASSUME NEW t \in Lockers, Mutex!WakeClear(t)
    PROVE  MutexIInv'
    <3> USE <2>WakeClear DEF Mutex!WakeClear, Mutex!Step, Mutex!word, Mutex!cv, Mutex!args, Mutex!Clears, Mutex!Unowned
    <3>1. Mutex!TypeOK'
      BY DEF Mutex!TypeOK, Mutex!CallNames
    <3>2. Owners'
      BY DEF Mutex!TypeOK, Owners, Mutex!GrantedIsOwner
    <3>3. MutexWakeIsDue'
      BY DEF Mutex!TypeOK, MutexWakeIsDue
    <3>4. CvQueued'
      BY <2>0 DEF Mutex!TypeOK, CvQueued, CvPlaces
    <3> QED BY <3>1, <3>2, <3>3, <3>4
  <2>MarkAndSleep. ASSUME NEW t \in Lockers, Mutex!MarkAndSleep(t)
    PROVE  MutexIInv'
    <3> USE <2>MarkAndSleep DEF Mutex!MarkAndSleep, Mutex!Step, Mutex!cv, Mutex!args, Mutex!Unowned
    <3>1. /\ mutexQueue' \in Seq(Lockers) /\ IsInjective(mutexQueue')
          /\ Range(mutexQueue') = Range(mutexQueue) \cup {t}
      BY <2>0, QueueFacts
    <3>2. Mutex!TypeOK'
      BY <1>0, <2>0, <3>1 DEF Mutex!TypeOK
    <3>3. Owners'
      BY DEF Mutex!TypeOK, Owners, Mutex!GrantedIsOwner
    <3>4. MutexWakeIsDue'
      BY DEF Mutex!TypeOK, MutexWakeIsDue
    <3>5. CvQueued'
      BY <2>0 DEF Mutex!TypeOK, CvQueued, CvPlaces
    <3> QED BY <3>2, <3>3, <3>4, <3>5
  <2>TimeOut. ASSUME NEW t \in Lockers, Mutex!TimeOut(t)
    PROVE  MutexIInv'
    <3> USE <2>TimeOut DEF Mutex!TimeOut, Mutex!Step, Mutex!word, Mutex!cv, Mutex!args
    <3>1. /\ mutexQueue' \in Seq(Lockers) /\ IsInjective(mutexQueue')
          /\ Range(mutexQueue') = Range(mutexQueue) \ {t}
          /\ mutexQueue # <<>>
      BY <1>0, <2>0, QueueFacts DEF Mutex!LeaveQueue
    <3>2. Mutex!TypeOK'
      BY <1>0, <2>0, <3>1 DEF Mutex!TypeOK
    <3>3. Owners'
      BY DEF Mutex!TypeOK, Owners, Mutex!GrantedIsOwner
    <3>4. MutexWakeIsDue'
      BY <3>1 DEF Mutex!TypeOK, MutexWakeIsDue
    <3>5. CvQueued'
      BY <2>0 DEF Mutex!TypeOK, CvQueued, CvPlaces
    <3> QED BY <3>2, <3>3, <3>4, <3>5
  <2>WakeFirst. ASSUME NEW t \in Lockers, Mutex!WakeFirst(t)
    PROVE  MutexIInv'
    <3> USE <2>WakeFirst DEF Mutex!WakeFirst, Mutex!Step, Mutex!word, Mutex!cv, Mutex!args, Mutex!AfterUnlock, Mutex!WakesOne
    <3>1. CASE mutexQueue = <<>>
      <4>1. Mutex!TypeOK'
        BY <3>1 DEF Mutex!TypeOK
      <4>0. \A v \in Lockers : mutexPc'[v] = IF v = t THEN Mutex!AfterUnlock(t) ELSE mutexPc[v]
        BY <3>1 DEF Mutex!TypeOK
      <4>2. Owners'
        BY <3>1, <4>0 DEF Owners, Mutex!GrantedIsOwner
      <4>4. CvQueued'
        BY <2>0, <3>1, <4>0, QueueFacts DEF CvQueued, CvPlaces
      <4>3. MutexWakeIsDue'
        BY <3>1 DEF Mutex!TypeOK, MutexWakeIsDue, Mutex!BucketFree
      <4> QED BY <4>1, <4>2, <4>3, <4>4
    <3>2. CASE mutexQueue # <<>>
      <4> DEFINE u == Head(mutexQueue)
      <4>1. /\ u \in Lockers /\ mutexPc[u] = "asleep" /\ u # t
            /\ mutexQueue' \in Seq(Lockers) /\ IsInjective(mutexQueue')
            /\ Range(mutexQueue') = Range(mutexQueue) \ {u}
        <5>1. /\ u \in Range(mutexQueue) /\ Tail(mutexQueue) \in Seq(Lockers)
              /\ IsInjective(Tail(mutexQueue)) /\ Range(Tail(mutexQueue)) = Range(mutexQueue) \ {u}
          BY <2>0, <3>2, QueueFacts
        <5>2. mutexQueue' = Tail(mutexQueue) /\ mutexPc[t] = "unlockWake"
          BY <3>2
        <5> QED BY <2>0, <5>1, <5>2
      <4>2. \A v \in Lockers : mutexPc'[v] = IF v = u THEN "woken" ELSE IF v = t THEN Mutex!AfterUnlock(t) ELSE mutexPc[v]
        BY <3>2, <4>1 DEF Mutex!TypeOK
      <4>3. Mutex!TypeOK'
        <5>1. mutexPc' \in [Lockers -> {"idle", "try", "mark", "asleep", "woken", "returned",
                           "unlockCount", "unlockStore", "unlockWake",
                           "wakeCount", "wakeClear", "cvRefused", "cvSleep"}]
          BY <3>2 DEF Mutex!TypeOK
        <5>2. Range(mutexQueue') = {v \in Lockers : mutexPc'[v] = "asleep"}
          BY <2>0, <4>1, <4>2
        <5> QED BY <1>0, <2>0, <4>1, <5>1, <5>2 DEF Mutex!TypeOK
      <4> HIDE DEF u
      <4>4. Owners'
        BY <4>1, <4>2 DEF Owners, Mutex!GrantedIsOwner
      <4>5. MutexWakeIsDue'
        BY <4>1, <4>2 DEF MutexWakeIsDue, Mutex!BucketFree
      <4>6. CvQueued'
        BY <2>0, <4>1, <4>2, QueueFacts DEF CvQueued, CvPlaces
      <4> QED BY <4>3, <4>4, <4>5, <4>6
    <3> QED BY <3>1, <3>2
  <2>CvWait. ASSUME NEW t \in Lockers, NEW d \in BOOLEAN, Mutex!CvWait(t, d)
    PROVE  MutexIInv'
    <3> USE <2>CvWait DEF Mutex!CvWait, Mutex!Step, Mutex!word
    <3>1. t \notin Range(cvQueue)
      BY DEF CvQueued, CvPlaces
    <3>2. /\ cvQueue' \in Seq(Lockers) /\ IsInjective(cvQueue')
          /\ Range(cvQueue') = Range(cvQueue) \cup {t} /\ Range(cvQueue) \subseteq Lockers
      BY <2>0, <3>1, QueueFacts
    <3>3. Mutex!TypeOK'
      BY <1>0, <2>0, <3>2 DEF Mutex!TypeOK, Mutex!CallNames
    <3>4. Owners'
      BY DEF Mutex!TypeOK, Owners, Mutex!GrantedIsOwner
    <3>5. MutexWakeIsDue'
      BY DEF Mutex!TypeOK, MutexWakeIsDue
    <3>6. CvQueued'
      BY <3>1, <3>2 DEF Mutex!TypeOK, CvQueued, CvPlaces
    <3> QED BY <3>3, <3>4, <3>5, <3>6
  <2>Leave. ASSUME NEW t \in Lockers, Mutex!CvRefuse(t) \/ Mutex!CvReturn(t)
    PROVE  MutexIInv'
    <3>0. /\ mutexPc[t] \in {"cvRefused", "cvSleep"} /\ mutexPc' = [mutexPc EXCEPT ![t] = "idle"]
          /\ UNCHANGED <<owner, contested, mutexQueue, cvWoken, mutexCall, timed, several, granted>>
          /\ \/ t \in cvWoken /\ UNCHANGED <<cvQueue, hasWaiters>>
             \/ Mutex!CvLeaveQueue(t)
      BY <2>Leave DEF Mutex!CvRefuse, Mutex!CvReturn, Mutex!Step, Mutex!word, Mutex!args
    <3>1. /\ cvQueue' \in Seq(Lockers) /\ IsInjective(cvQueue')
          /\ Range(cvQueue') = Range(cvQueue) \ {t} /\ Range(cvQueue) \subseteq Lockers
          /\ cvQueue' # <<>> => cvQueue # <<>>
          /\ hasWaiters' = (hasWaiters /\ cvQueue' # <<>>) \/ (hasWaiters' = hasWaiters /\ cvQueue' = cvQueue)
      <4>1. CASE t \in cvWoken /\ UNCHANGED <<cvQueue, hasWaiters>>
        BY <2>0, <4>1, QueueFacts DEF CvQueued
      <4>2. CASE Mutex!CvLeaveQueue(t)
        <5>1. PICK p \in DOMAIN cvQueue :
                 /\ cvQueue[p] = t /\ cvQueue' = RemoveAt(cvQueue, p)
                 /\ hasWaiters' = Mutex!CvFlagAfter(RemoveAt(cvQueue, p))
          BY <1>0, <4>2 DEF Mutex!CvLeaveQueue
        <5>2. hasWaiters' = IF cvQueue' = <<>> THEN FALSE ELSE hasWaiters
          BY <5>1 DEF Mutex!CvFlagAfter
        <5>3. /\ cvQueue # <<>> /\ Range(cvQueue) \subseteq Lockers
              /\ RemoveAt(cvQueue, p) \in Seq(Lockers) /\ IsInjective(RemoveAt(cvQueue, p))
              /\ Range(RemoveAt(cvQueue, p)) = Range(cvQueue) \ {t}
          BY <2>0, <5>1, QueueFacts
        <5>4. hasWaiters' = (hasWaiters /\ cvQueue' # <<>>)
          BY <5>2 DEF Mutex!TypeOK
        <5> QED BY <5>1, <5>3, <5>4
      <4> QED BY <3>0, <4>1, <4>2
    <3>2. Mutex!TypeOK'
      BY <1>0, <2>0, <3>0, <3>1 DEF Mutex!TypeOK
    <3>3. Owners'
      BY <3>0 DEF Mutex!TypeOK, Owners, Mutex!GrantedIsOwner
    <3>4. MutexWakeIsDue'
      BY <3>0 DEF Mutex!TypeOK, MutexWakeIsDue
    <3>5. CvQueued'
      BY <3>0, <3>1 DEF Mutex!TypeOK, CvQueued, CvPlaces
    <3> QED BY <3>2, <3>3, <3>4, <3>5
  <2>CvWake. ASSUME NEW t \in Lockers, NEW all \in BOOLEAN, Mutex!CvWake(t, all)
    PROVE  MutexIInv'
    <3> DEFINE left == IF all \/ cvQueue = <<>> THEN <<>> ELSE Tail(cvQueue)
    <3>0. /\ cvQueue' = left /\ hasWaiters' = Mutex!CvFlagAfter(left)
          /\ cvWoken' = cvWoken \cup (Range(cvQueue) \ Range(left))
          /\ UNCHANGED <<owner, contested, mutexQueue, mutexPc, mutexCall, timed, several, granted>>
      BY <1>0, <2>CvWake DEF Mutex!CvWake, Mutex!word, Mutex!args
    <3>1. /\ left \in Seq(Lockers) /\ IsInjective(left) /\ Range(left) \subseteq Range(cvQueue)
          /\ Range(cvQueue) \subseteq Lockers
          /\ left # <<>> => cvQueue # <<>>
      <4>1. Range(<<>>) = {} /\ IsInjective(<<>>) /\ <<>> \in Seq(Lockers)
        BY DEF Range, IsInjective
      <4> QED BY <2>0, <4>1, QueueFacts
    <3>2. hasWaiters' = IF left = <<>> THEN FALSE ELSE hasWaiters
      BY <3>0 DEF Mutex!CvFlagAfter
    <3> HIDE DEF left
    <3>3. Mutex!TypeOK'
      <4>1. cvWoken' \subseteq Lockers
        <5>1. cvWoken \subseteq Lockers
          BY DEF Mutex!TypeOK
        <5> QED BY <3>0, <3>1, <5>1
      <4>2. hasWaiters' \in BOOLEAN
        BY <3>2 DEF Mutex!TypeOK
      <4> QED BY <1>0, <2>0, <3>0, <3>1, <4>1, <4>2 DEF Mutex!TypeOK
    <3>4. Owners' /\ MutexWakeIsDue'
      BY <3>0 DEF Owners, Mutex!GrantedIsOwner, MutexWakeIsDue
    <3>5. CvQueued'
      <4>1. \A u \in Range(cvQueue) \cup cvWoken : u \in Range(cvQueue') \cup cvWoken'
        BY <3>0
      <4>2. \A u \in Range(cvQueue') : u \in Range(cvQueue) /\ u \notin cvWoken'
        BY <3>0, <3>1 DEF CvQueued
      <4>3. cvQueue' # <<>> => hasWaiters'
        <5>1. ASSUME left # <<>> PROVE hasWaiters /\ hasWaiters' = hasWaiters
          BY <3>1, <3>2, <5>1 DEF CvQueued
        <5> QED BY <3>0, <5>1
      <4> QED BY <3>0, <4>1, <4>2, <4>3 DEF CvQueued
    <3> QED BY <3>3, <3>4, <3>5
  <2> QED
    BY <2>Begin, <2>Acquire, <2>FoundFree, <2>Fail, <2>Woken, <2>Trylock, <2>Unlock, <2>Count,
       <2>Store, <2>MutexWake, <2>WakeCount, <2>WakeClear, <2>MarkAndSleep, <2>TimeOut,
       <2>WakeFirst, <2>CvWait, <2>Leave, <2>CvWake
       DEF Mutex!Next
<1>3. PartsInit => (part = "mutex" => MutexIInv)
  BY <1>1 DEF PartsInit
<1>4. (part = "mutex" => MutexIInv) /\ [PartsNext]_<<part, vars, mutexVars, waitVars, semVars>>
         => (part = "mutex" => MutexIInv)'
  <2> SUFFICES ASSUME part = "mutex", MutexIInv,
                      [PartsNext]_<<part, vars, mutexVars, waitVars, semVars>>
               PROVE  MutexIInv'
    BY DEF PartsNext
  <2>1. CASE Mutex!Next
    BY <1>2, <2>1
  <2>2. CASE UNCHANGED mutexVars
    BY <2>2 DEF mutexVars, MutexIInv, Mutex!TypeOK, Owners, Mutex!GrantedIsOwner, MutexWakeIsDue, CvQueued
  <2> QED BY <2>1, <2>2 DEF PartsNext
<1> QED BY <1>3, <1>4, PTL DEF PartsSpec

\* Whatever the stores of an unlock, the compare-and-swaps of the locks and
\* UMTX_OP_MUTEX_WAKE interleave with: a thread that was granted the mutex is its
\* owner until it unlocks.
THEOREM GrantedStaysOwner == PartsSpec => []GrantedIsOwner
<1>1. (part = "mutex" => MutexIInv) => GrantedIsOwner
  BY DEF MutexIInv, Owners, GrantedIsOwner
<1> QED BY <1>1, MutexInvariance, PTL

\* No wake of a umutex is lost: while it is free and nobody is inside a call,
\* nobody sleeps for it for good.
THEOREM NoMutexWakeIsLost == PartsSpec => []MutexWaiterIsNotStranded
<1>1. (part = "mutex" => MutexIInv) => MutexWaiterIsNotStranded
  <2> SUFFICES ASSUME MutexIInv, Mutex!Unowned, NEW t \in Lockers, mutexPc[t] = "asleep",
                      \A u \in Lockers : mutexPc[u] \in {"idle", "cvSleep", "asleep"}
               PROVE  FALSE
    BY DEF MutexWaiterIsNotStranded, Mutex!NoStrandedWaiter
  <2>1. mutexQueue # <<>>
    BY DEF MutexIInv, Mutex!TypeOK, Mutex!Range
  <2> QED BY <2>1 DEF MutexIInv, MutexWakeIsDue, Mutex!Unowned
<1> QED BY <1>1, MutexInvariance, PTL

\* From the unlock in UMTX_OP_CV_WAIT on a thread is queued or was signalled, and
\* hasWaiters is set while anybody is queued.
THEOREM CvWaitersAreReachable == PartsSpec => []CvWaiterIsReachable
<1>1. (part = "mutex" => MutexIInv) => CvWaiterIsReachable
  BY DEF MutexIInv, CvQueued, CvPlaces, CvWaiterIsReachable, Mutex!CvWaiterIsReachable,
         Mutex!Range, Range
<1> QED BY <1>1, MutexInvariance, PTL

-----------------------------------------------------------------------------
(* The address waits.                                                      *)

\* A queue whose first n sleepers are taken.
LEMMA TakenFromFront ==
    ASSUME NEW S, NEW q \in Seq(S), IsInjective(q), NEW n \in 0..Len(q)
    PROVE  LET first == SubSeq(q, 1, n)
               rest == SubSeq(q, n + 1, Len(q))
           IN  /\ rest \in Seq(S) /\ IsInjective(rest)
               /\ Len(rest) = Len(q) - n
               /\ Range(first) \subseteq Range(q)
               /\ Range(rest) = Range(q) \ Range(first)
<1> DEFINE first == SubSeq(q, 1, n)
           rest == SubSeq(q, n + 1, Len(q))
<1>1. /\ Len(q) \in Nat /\ DOMAIN q = 1..Len(q)
      /\ \A i \in 1..Len(q) : q[i] \in S
      /\ \A i, j \in 1..Len(q) : q[i] = q[j] => i = j
  BY LenProperties, ElementOfSeq DEF IsInjective
<1>2. /\ first \in Seq(S) /\ Len(first) = n
      /\ \A i \in 1..n : first[i] = q[i]
  BY <1>1, SubSeqProperties
<1>3. /\ rest \in Seq(S) /\ Len(rest) = Len(q) - n
      /\ \A i \in 1..(Len(q) - n) : rest[i] = q[n + i]
  <2>1. \A i \in (n + 1)..Len(q) : q[i] \in S
    <3>1. \A i \in (n + 1)..Len(q) : i \in 1..Len(q)
      BY <1>1
    <3> QED BY <1>1, <3>1
  <2>2. /\ rest \in Seq(S)
        /\ Len(rest) = IF n + 1 <= Len(q) THEN Len(q) - (n + 1) + 1 ELSE 0
        /\ \A i \in 1..(Len(q) - (n + 1) + 1) : rest[i] = q[(n + 1) + i - 1]
    <3>1. n + 1 \in Int /\ Len(q) \in Int
      BY <1>1
    <3> QED BY <2>1, <3>1, SubSeqProperties
  <2> HIDE DEF rest
  <2>3. /\ Len(q) - (n + 1) + 1 = Len(q) - n
        /\ \A i \in 1..(Len(q) - n) : (n + 1) + i - 1 = n + i
        /\ n + 1 <= Len(q) \/ Len(q) - n = 0
    <3>1. n \in Int /\ Len(q) \in Int /\ n <= Len(q)
      BY <1>1
    <3> HIDE DEF rest, first
    <3> QED BY <3>1
  <2> QED BY <2>2, <2>3
<1>4. DOMAIN first = 1..n /\ DOMAIN rest = 1..(Len(q) - n)
  BY <1>2, <1>3, LenProperties
<1> HIDE DEF first, rest
<1>5. /\ \A i \in 1..n : i \in 1..Len(q)
      /\ \A i \in 1..(Len(q) - n) : n + i \in 1..Len(q) /\ n + i \notin 1..n
      /\ \A i \in 1..Len(q) : i \in 1..n \/ (i - n \in 1..(Len(q) - n) /\ n + (i - n) = i)
      /\ \A i, j \in 1..(Len(q) - n) : n + i = n + j => i = j
  BY <1>1
<1>6. IsInjective(rest)
  BY <1>1, <1>3, <1>4, <1>5 DEF IsInjective
<1>7. Range(first) \subseteq Range(q)
  BY <1>1, <1>2, <1>4, <1>5 DEF Range
<1>8. ASSUME NEW u \in Range(rest) PROVE u \in Range(q) \ Range(first)
  <2>1. PICK i \in 1..(Len(q) - n) : u = q[n + i]
    BY <1>3, <1>4 DEF Range
  <2>2. u \in Range(q)
    BY <1>1, <1>5, <2>1 DEF Range
  <2>3. ASSUME NEW j \in 1..n, u = first[j] PROVE FALSE
    BY <1>1, <1>2, <1>5, <2>1, <2>3
  <2> QED BY <1>4, <2>2, <2>3 DEF Range
<1>9. ASSUME NEW u \in Range(q) \ Range(first) PROVE u \in Range(rest)
  <2>1. PICK i \in 1..Len(q) : u = q[i]
    BY <1>1 DEF Range
  <2>2. i \notin 1..n
    BY <1>2, <1>4, <2>1 DEF Range
  <2>3. i - n \in 1..(Len(q) - n) /\ rest[i - n] = u
    BY <1>3, <1>5, <2>1, <2>2
  <2> QED BY <1>4, <2>3 DEF Range
<1> QED BY <1>3, <1>6, <1>7, <1>8, <1>9 DEF first, rest

\* The threads that sleep on a word and were not woken.
Sleepers(a) == {t \in Lockers : waitPc[t] = "asleep" /\ t \notin woken /\ wait[t].word = a}

\* Whoever sleeps is in the queue of its word, so that a wake reaches it, and
\* only a thread between its write and its wake has anything left to wake.
WaitIInv ==
    /\ Wait!TypeOK /\ Wait!NoMissedWrite
    /\ \A t \in Lockers : waitPc[t] # "wrote" => toWake[t] = {}
    /\ \A t \in woken : waitPc[t] = "asleep"
    /\ \A a \in Words : IsInjective(waiters[a]) /\ Range(waiters[a]) = Sleepers(a)

\* The invariant of the address waits holds in every reachable state.
LEMMA WaitInvariance == PartsSpec => [](part = "wait" => WaitIInv)
<1> USE LockersAssumption, WordsAssumption
<1>0. /\ \A q, i : Wait!Range(q) = Range(q) /\ Wait!RemoveAt(q, i) = RemoveAt(q, i)
      /\ \A X : Wait!Cardinality(X) = Cardinality(X)
      /\ Wait!NoWait \in Wait!Waits
      /\ \A w \in Wait!Waits : w.word \in Words
  <2>1. [word |-> CHOOSE a \in Words : TRUE, expected |-> CHOOSE v \in Values : TRUE,
         timed |-> TRUE] \in Wait!Waits
    BY DEF Wait!Waits
  <2>2. \A X : Wait!Cardinality(X) = Cardinality(X)
    BY Zenon DEF Wait!Cardinality, Cardinality
  <2> QED BY <2>1, <2>2 DEF Wait!Range, Range, Wait!RemoveAt, RemoveAt, Wait!NoWait, Wait!Waits
<1>1. ASSUME Wait!Init PROVE WaitIInv
  <2>1. Range(<<>>) = {} /\ IsInjective(<<>>) /\ <<>> \in Seq(Lockers) /\ Len(<<>>) = 0
    BY DEF Range, IsInjective
  <2>2. Cardinality(Lockers) \in Nat
    BY FS_CardinalityType
  <2>3. Wait!TypeOK
    BY <1>0, <1>1, <2>1, <2>2 DEF Wait!Init, Wait!TypeOK
  <2> QED BY <1>1, <2>1, <2>3 DEF Wait!Init, WaitIInv, Wait!NoMissedWrite, Sleepers
<1>2. ASSUME NEW q \in Seq(Lockers), IsInjective(q)
      PROVE  Len(q) <= Cardinality(Lockers)
  <2>1. Len(q) \in Nat /\ q \in [1..Len(q) -> Lockers]
    BY LenProperties
  <2>2. q \in Injection(1..Len(q), Lockers)
    BY <1>2, <2>1 DEF IsInjective, Injection
  <2>3. Cardinality(1..Len(q)) <= Cardinality(Lockers)
    BY <2>2, FS_Injection
  <2>4. Cardinality(1..Len(q)) = Len(q)
    <3>1. \A n \in Nat : Cardinality(1..n) = n
      BY FS_Interval
    <3> QED BY <2>1, <3>1
  <2> QED BY <2>3, <2>4
\* What a wake of some sleepers of a word leaves.
<1>3. ASSUME WaitIInv, NEW a \in Words, NEW n \in Int, Wait!WakeUp(a, n)
      PROVE  /\ waiters' \in [Words -> Seq(Lockers)] /\ woken' \subseteq Lockers
             /\ \A b \in Words : Len(waiters'[b]) <= Cardinality(Lockers)
             /\ \A b \in Words : IsInjective(waiters'[b])
                                 /\ Range(waiters'[b]) = Sleepers(b) \ woken'
             /\ woken \subseteq woken' /\ \A t \in woken' : waitPc[t] = "asleep"
             /\ n = Cardinality(Lockers) /\ Lockers # {} => Range(waiters'[a]) = {}
  <2> DEFINE q == waiters[a]
             k == Wait!WakenBy(q, n)
             first == SubSeq(q, 1, k)
             rest == SubSeq(q, k + 1, Len(q))
  <2>1. /\ q \in Seq(Lockers) /\ IsInjective(q) /\ Range(q) = Sleepers(a) /\ Len(q) \in Nat
        /\ waiters' = [waiters EXCEPT ![a] = rest] /\ woken' = woken \cup Range(first)
    BY <1>0, <1>3, LenProperties DEF WaitIInv, Wait!TypeOK, Wait!WakeUp
  <2>2. k \in 0..Len(q)
    BY <2>1 DEF Wait!WakenBy, Wait!Least
  <2> HIDE DEF k
  <2>3. /\ rest \in Seq(Lockers) /\ IsInjective(rest) /\ Len(rest) = Len(q) - k
        /\ Range(first) \subseteq Range(q) /\ Range(rest) = Range(q) \ Range(first)
    BY <2>1, <2>2, TakenFromFront
  <2> HIDE DEF q, first, rest
  <2>4. Range(first) \subseteq Sleepers(a) /\ Sleepers(a) \subseteq Lockers /\ woken \subseteq Lockers
    BY <1>3, <2>1, <2>3 DEF Sleepers, WaitIInv, Wait!TypeOK
  <2>5. waiters' \in [Words -> Seq(Lockers)] /\ woken' \subseteq Lockers
    BY <1>3, <2>1, <2>3, <2>4 DEF WaitIInv, Wait!TypeOK
  <2>6. ASSUME NEW b \in Words
        PROVE  IsInjective(waiters'[b]) /\ Range(waiters'[b]) = Sleepers(b) \ woken'
    <3>1. \A t \in Sleepers(b) : t \notin woken
      BY DEF Sleepers
    <3>2. CASE b = a
      BY <1>3, <2>1, <2>3, <3>1, <3>2 DEF WaitIInv, Wait!TypeOK
    <3>3. CASE b # a
      <4>1. waiters'[b] = waiters[b]
        BY <1>3, <2>1, <3>3 DEF WaitIInv, Wait!TypeOK
      <4>2. Sleepers(b) \cap Range(first) = {}
        BY <2>4, <3>3 DEF Sleepers
      <4>3. IsInjective(waiters[b]) /\ Range(waiters[b]) = Sleepers(b)
        BY <1>3 DEF WaitIInv
      <4> QED BY <2>1, <3>1, <4>1, <4>2, <4>3
    <3> QED BY <3>2, <3>3
  <2>7. \A b \in Words : Len(waiters'[b]) <= Cardinality(Lockers)
    <3>1. \A b \in Words : waiters'[b] \in Seq(Lockers)
      BY <2>5
    <3> QED BY <1>2, <2>6, <3>1
  <2>8. woken \subseteq woken' /\ \A t \in woken' : waitPc[t] = "asleep"
    BY <1>3, <2>1, <2>4 DEF WaitIInv, Sleepers
  <2>9. ASSUME n = Cardinality(Lockers), Lockers # {}
        PROVE  Range(waiters'[a]) = {}
    <3>1. Cardinality(Lockers) \in Nat /\ Cardinality(Lockers) # 0
      BY <2>9, FS_CardinalityType, FS_EmptySet
    <3>2. Len(q) <= Cardinality(Lockers)
      BY <1>2, <2>1
    <3>3. k = Len(q)
      BY <2>1, <2>9, <3>1, <3>2 DEF Wait!WakenBy, Wait!Least, k
    <3>4. rest = <<>>
      BY <2>1, <2>3, <3>3, EmptySeq
    <3>5. waiters'[a] = <<>>
      BY <1>3, <2>1, <3>4 DEF WaitIInv, Wait!TypeOK
    <3> QED BY <3>5 DEF Range
  <2> QED BY <2>5, <2>6, <2>7, <2>8, <2>9
<1>4. ASSUME WaitIInv, NEW t \in Lockers, Wait!Does(t)
      PROVE  WaitIInv'
  <2> USE <1>4 DEF WaitIInv
  <2>0. /\ t \in woken => waitPc[t] = "asleep"
        /\ \A b \in Words : /\ waiters[b] \in Seq(Lockers) /\ IsInjective(waiters[b])
                            /\ Range(waiters[b]) = Sleepers(b)
    BY DEF Wait!TypeOK
  <2>1. CASE UNCHANGED <<value, waiters, woken, waitPc, wait, toWake>> /\ result' = "EAGAIN"
    BY <2>1 DEF Wait!TypeOK, Wait!NoMissedWrite, Sleepers
  <2>2. ASSUME NEW w \in Wait!Waits, Wait!WaitSleeps(t, w), result' = "none"
        PROVE  WaitIInv'
    <3> DEFINE a == w.word
               r == Append(waiters[a], t)
    <3>1. /\ a \in Words /\ t \notin woken /\ t \notin Sleepers(a)
          /\ \A b \in Words : Sleepers(b)' = IF b = a THEN Sleepers(b) \cup {t} ELSE Sleepers(b)
      BY <1>0, <2>0, <2>2 DEF Wait!WaitSleeps, Wait!TypeOK, Sleepers
    <3>2. r \in Seq(Lockers) /\ Range(r) = Range(waiters[a]) \cup {t} /\ IsInjective(r)
      BY <2>0, <3>1, QueueFacts
    <3>3. Len(r) <= Cardinality(Lockers)
      BY <1>2, <3>2
    <3> HIDE DEF r
    <3>4. /\ waiters' \in [Words -> Seq(Lockers)]
          /\ \A b \in Words : waiters'[b] = IF b = a THEN r ELSE waiters[b]
      BY <2>2, <3>1, <3>2 DEF Wait!WaitSleeps, Wait!TypeOK, r
    <3> HIDE DEF a
    <3>5. Wait!TypeOK'
      BY <1>0, <2>2, <3>3, <3>4 DEF Wait!WaitSleeps, Wait!TypeOK
    <3>6. Wait!NoMissedWrite'
      BY <2>2 DEF Wait!WaitSleeps, Wait!TypeOK, Wait!NoMissedWrite
    <3>7. /\ \A u \in Lockers : waitPc'[u] # "wrote" => toWake'[u] = {}
          /\ \A u \in woken' : waitPc'[u] = "asleep"
      BY <2>2 DEF Wait!WaitSleeps, Wait!TypeOK
    <3>8. \A b \in Words : IsInjective(waiters'[b]) /\ Range(waiters'[b]) = Sleepers(b)'
      BY <2>0, <3>1, <3>2, <3>4
    <3> QED BY <3>5, <3>6, <3>7, <3>8
  <2>3. ASSUME Wait!WaitReturns(t)
        PROVE  WaitIInv'
    <3> DEFINE a == wait[t].word
    <3>1. /\ a \in Words
          /\ \A b \in Words : Sleepers(b)' = Sleepers(b) \ {t}
      BY <1>0, <2>3 DEF Wait!WaitReturns, Wait!TypeOK, Sleepers
    <3>2. \A b \in Words : t \in Sleepers(b) => t \notin woken /\ b = a
      BY DEF Sleepers
    <3> HIDE DEF a
    <3>3. /\ waiters' \in [Words -> Seq(Lockers)]
          /\ \A b \in Words : IsInjective(waiters'[b]) /\ Range(waiters'[b]) = Sleepers(b) \ {t}
      <4>1. CASE t \in woken
        BY <2>0, <2>3, <3>2, <4>1 DEF Wait!WaitReturns, Wait!LeaveQueue, Wait!TypeOK
      <4>2. CASE t \notin woken
        <5>1. PICK p \in DOMAIN waiters[a] :
                 waiters[a][p] = t /\ waiters' = [waiters EXCEPT ![a] = RemoveAt(waiters[a], p)]
          BY <1>0, <2>3, <4>2 DEF Wait!WaitReturns, Wait!LeaveQueue, a
        <5>2. /\ RemoveAt(waiters[a], p) \in Seq(Lockers) /\ IsInjective(RemoveAt(waiters[a], p))
              /\ Range(RemoveAt(waiters[a], p)) = Sleepers(a) \ {t}
          BY <2>0, <3>1, <5>1, QueueFacts
        <5>3. /\ waiters' \in [Words -> Seq(Lockers)]
              /\ \A b \in Words : waiters'[b] = IF b = a THEN RemoveAt(waiters[a], p) ELSE waiters[b]
          BY <3>1, <5>1, <5>2 DEF Wait!TypeOK
        <5> QED BY <2>0, <3>2, <5>2, <5>3
      <4> QED BY <4>1, <4>2
    <3>4. \A b \in Words : Len(waiters'[b]) <= Cardinality(Lockers)
      <4>1. \A b \in Words : waiters'[b] \in Seq(Lockers)
        BY <3>3
      <4> QED BY <1>2, <3>3, <4>1
    <3>5. Wait!TypeOK'
      BY <1>0, <2>3, <3>3, <3>4 DEF Wait!WaitReturns, Wait!WaitResult, Wait!TypeOK
    <3>6. Wait!NoMissedWrite'
      BY <2>3 DEF Wait!WaitReturns, Wait!TypeOK, Wait!NoMissedWrite
    <3>7. /\ \A u \in Lockers : waitPc'[u] # "wrote" => toWake'[u] = {}
          /\ \A u \in woken' : waitPc'[u] = "asleep"
      BY <2>3 DEF Wait!WaitReturns, Wait!TypeOK
    <3> QED BY <3>1, <3>3, <3>5, <3>6, <3>7
  <2>4. ASSUME NEW words \in SUBSET Words, NEW v \in Values, Wait!Write(t, words, v), result' = "none"
        PROVE  WaitIInv'
    <3>1. \A b \in Words : Sleepers(b)' = Sleepers(b)
      BY <2>4 DEF Wait!Write, Wait!TypeOK, Sleepers
    <3>2. Wait!TypeOK'
      BY <2>4 DEF Wait!Write, Wait!TypeOK
    <3>3. Wait!NoMissedWrite'
      <4> SUFFICES ASSUME NEW u \in Lockers, waitPc'[u] = "asleep", u \notin woken',
                          value'[wait'[u].word] # wait'[u].expected
                   PROVE  \E s \in Lockers : wait'[u].word \in toWake'[s]
        BY DEF Wait!NoMissedWrite
      <4>1. u # t /\ wait'[u] = wait[u] /\ wait[u].word \in Words /\ waitPc[u] = "asleep" /\ u \notin woken
        BY <1>0, <2>4 DEF Wait!Write, Wait!TypeOK
      <4>2. CASE wait[u].word \in words
        BY <2>4, <4>1, <4>2 DEF Wait!Write, Wait!TypeOK
      <4>3. CASE wait[u].word \notin words
        <5>1. PICK s \in Lockers : wait[u].word \in toWake[s]
          BY <2>4, <4>1, <4>3 DEF Wait!Write, Wait!NoMissedWrite
        <5>2. s # t
          BY <2>4, <5>1 DEF Wait!Write
        <5> QED BY <2>4, <4>1, <5>1, <5>2 DEF Wait!Write, Wait!TypeOK
      <4> QED BY <4>2, <4>3
    <3>4. /\ \A u \in Lockers : waitPc'[u] # "wrote" => toWake'[u] = {}
          /\ \A u \in woken' : waitPc'[u] = "asleep"
      BY <2>0, <2>4 DEF Wait!Write, Wait!TypeOK
    <3> QED BY <2>4, <3>1, <3>2, <3>3, <3>4 DEF Wait!Write
  <2>5. ASSUME NEW a \in Words, Wait!WakeAll(t, a), result' = "none"
        PROVE  WaitIInv'
    <3>1. /\ waiters' \in [Words -> Seq(Lockers)] /\ woken' \subseteq Lockers
          /\ \A b \in Words : Len(waiters'[b]) <= Cardinality(Lockers)
          /\ \A b \in Words : IsInjective(waiters'[b])
                              /\ Range(waiters'[b]) = Sleepers(b) \ woken'
          /\ woken \subseteq woken' /\ \A u \in woken' : waitPc[u] = "asleep"
          /\ Range(waiters'[a]) = {}
      <4>1. Wait!WakeUp(a, Cardinality(Lockers)) /\ Cardinality(Lockers) \in Int
        <5>1. Wait!WakeUp(a, Wait!Cardinality(Lockers)) /\ Wait!Cardinality(Lockers) = Cardinality(Lockers)
          BY <1>0, <2>5 DEF Wait!WakeAll
        <5>2. Cardinality(Lockers) \in Int
          BY FS_CardinalityType
        <5> QED BY <5>1, <5>2
      <4> QED BY <1>3, <4>1
    <3>2. \A b \in Words : Sleepers(b)' = Sleepers(b) \ woken'
      BY <2>5, <3>1 DEF Wait!WakeAll, Wait!TypeOK, Sleepers
    <3>3. Wait!TypeOK'
      BY <1>0, <2>5, <3>1 DEF Wait!WakeAll, Wait!TypeOK
    <3>4. Wait!NoMissedWrite'
      <4> SUFFICES ASSUME NEW u \in Lockers, waitPc'[u] = "asleep", u \notin woken',
                          value'[wait'[u].word] # wait'[u].expected
                   PROVE  \E s \in Lockers : wait'[u].word \in toWake'[s]
        BY DEF Wait!NoMissedWrite
      <4>1. wait'[u] = wait[u] /\ value' = value /\ waitPc[u] = "asleep" /\ u \notin woken
        BY <2>5, <3>1 DEF Wait!WakeAll, Wait!TypeOK
      <4>2. wait[u].word # a
        BY <3>1, <3>2, <4>1 DEF Sleepers
      <4>3. PICK s \in Lockers : wait[u].word \in toWake[s]
        BY <4>1 DEF Wait!NoMissedWrite
      <4> QED BY <2>5, <4>1, <4>2, <4>3 DEF Wait!WakeAll, Wait!TypeOK
    <3>5. /\ \A u \in Lockers : waitPc'[u] # "wrote" => toWake'[u] = {}
          /\ \A u \in woken' : waitPc'[u] = "asleep"
      BY <2>5, <3>1 DEF Wait!WakeAll, Wait!TypeOK
    <3> QED BY <3>1, <3>2, <3>3, <3>4, <3>5
  <2>6. ASSUME NEW a \in Words, NEW n \in Counts, Wait!WakeSome(t, a, n), result' = "none"
        PROVE  WaitIInv'
    <3>1. /\ waiters' \in [Words -> Seq(Lockers)] /\ woken' \subseteq Lockers
          /\ \A b \in Words : Len(waiters'[b]) <= Cardinality(Lockers)
          /\ \A b \in Words : IsInjective(waiters'[b])
                              /\ Range(waiters'[b]) = Sleepers(b) \ woken'
          /\ woken \subseteq woken' /\ \A u \in woken' : waitPc[u] = "asleep"
      BY <1>3, <2>6 DEF Wait!WakeSome
    <3>2. \A b \in Words : Sleepers(b)' = Sleepers(b) \ woken'
      BY <2>6, <3>1 DEF Wait!WakeSome, Wait!TypeOK, Sleepers
    <3>3. Wait!TypeOK'
      BY <1>0, <2>6, <3>1 DEF Wait!WakeSome, Wait!TypeOK
    <3>4. Wait!NoMissedWrite'
      BY <2>6, <3>1 DEF Wait!WakeSome, Wait!NoMissedWrite
    <3>5. /\ \A u \in Lockers : waitPc'[u] # "wrote" => toWake'[u] = {}
          /\ \A u \in woken' : waitPc'[u] = "asleep"
      BY <2>6, <3>1 DEF Wait!WakeSome
    <3> QED BY <3>1, <3>2, <3>3, <3>4, <3>5
  <2> QED BY <2>1, <2>2, <2>3, <2>4, <2>5, <2>6 DEF Wait!Does, Wait!WaitDiffers
<1>5. PartsInit => (part = "wait" => WaitIInv)
  BY <1>1 DEF PartsInit
<1>6. (part = "wait" => WaitIInv) /\ [PartsNext]_<<part, vars, mutexVars, waitVars, semVars>>
         => (part = "wait" => WaitIInv)'
  <2> SUFFICES ASSUME part = "wait", WaitIInv,
                      [PartsNext]_<<part, vars, mutexVars, waitVars, semVars>>
               PROVE  WaitIInv'
    BY DEF PartsNext
  <2>1. CASE \E t \in Lockers : Wait!Does(t)
    BY <1>4, <2>1
  <2>2. CASE UNCHANGED waitVars
    BY <2>2 DEF waitVars, WaitIInv, Wait!TypeOK, Wait!NoMissedWrite, Sleepers
  <2> QED BY <2>1, <2>2 DEF PartsNext
<1> QED BY <1>5, <1>6, PTL DEF PartsSpec

\* Whoever sleeps on a word that no longer holds what it expects is waited for by
\* a thread that wrote the word and is on its way to wake it, whatever waits,
\* wakes and deadlines come between.
THEOREM NoWriteIsMissed == PartsSpec => []NoMissedWrite
<1>1. (part = "wait" => WaitIInv) => NoMissedWrite
  BY DEF WaitIInv, NoMissedWrite
<1> QED BY <1>1, WaitInvariance, PTL

-----------------------------------------------------------------------------
(* The usem.                                                               *)

\* The threads that have a token on its way to a sleeper: a post that has not
\* read the flag or not made its wake yet, and a woken thread that tries again.
Carriers == {t \in Lockers : semPc[t] \in {"posted", "wake", "woken"}}

\* One thread at a time is between the flag and the sleep; the flag is set while
\* one is there or somebody sleeps, so that a post sees it; and while somebody
\* sleeps every token of the count has a carrier.
TokensAreCarried ==
    /\ \A t, u \in Lockers : semPc[t] = "marked" /\ semPc[u] = "marked" => t = u
    /\ semQueue # <<>> => semHasWaiters
    /\ \A t \in Lockers : semPc[t] = "marked" => semHasWaiters
    /\ semQueue # <<>> => count <= Cardinality(Carriers)

SemIInv == Sem!TypeOK /\ TokensAreCarried

\* The invariant of the usem holds in every reachable state.
LEMMA SemInvariance == PartsSpec => [](part = "wait" => SemIInv)
<1> USE LockersAssumption, WordsAssumption
<1>0. /\ \A q, i : /\ Sem!Range(q) = Range(q) /\ Sem!IsInjective(q) = IsInjective(q)
                   /\ Sem!RemoveAt(q, i) = RemoveAt(q, i)
      /\ Range(<<>>) = {} /\ IsInjective(<<>>) /\ <<>> \in Seq(Lockers)
  BY DEF Sem!Range, Range, Sem!IsInjective, IsInjective, Sem!RemoveAt, RemoveAt
<1>1. ASSUME Sem!Init PROVE SemIInv
  <2>1. Sem!TypeOK
    BY <1>0, <1>1 DEF Sem!Init, Sem!TypeOK
  <2> QED BY <1>1, <2>1 DEF Sem!Init, SemIInv, TokensAreCarried
<1>2. IsFiniteSet(Carriers) /\ Cardinality(Carriers) \in Nat
  <2>1. Carriers \subseteq Lockers
    BY DEF Carriers
  <2> QED BY <2>1, FS_Subset, FS_CardinalityType
<1>3. \A u : /\ Cardinality(Carriers \cup {u}) = IF u \in Carriers THEN Cardinality(Carriers)
                                                  ELSE Cardinality(Carriers) + 1
             /\ Cardinality(Carriers \ {u}) = IF u \in Carriers THEN Cardinality(Carriers) - 1
                                                ELSE Cardinality(Carriers)
  BY <1>2, FS_AddElement, FS_RemoveElement
<1>4. ASSUME SemIInv, NEW t \in Lockers, Sem!Does(t)
      PROVE  SemIInv'
  <2> USE <1>4 DEF SemIInv
  <2>0. /\ semQueue \in Seq(Lockers) /\ IsInjective(semQueue) /\ count \in Nat
        /\ Range(semQueue) = {u \in Lockers : semPc[u] = "asleep"}
        /\ semQueue = <<>> <=> Len(semQueue) = 0
    BY <1>0, QueueFacts DEF Sem!TypeOK
  <2>Take. ASSUME Sem!Take(t)
    PROVE  SemIInv'
    <3> USE <2>Take DEF Sem!Take, Sem!Step
    <3>1. Sem!TypeOK'
      BY <1>0, <2>0 DEF Sem!TypeOK
    <3>2. Carriers' = IF semPc[t] = "woken" THEN Carriers \ {t} ELSE Carriers
      BY DEF Sem!TypeOK, Carriers
    <3>3. TokensAreCarried'
      BY <1>2, <1>3, <2>0, <3>2 DEF Sem!TypeOK, TokensAreCarried, Carriers
    <3> QED BY <3>1, <3>3
  <2>MustWait. ASSUME Sem!MustWait(t)
    PROVE  SemIInv'
    <3> USE <2>MustWait DEF Sem!MustWait, Sem!Step
    <3>1. Sem!TypeOK'
      BY <1>0, <2>0 DEF Sem!TypeOK
    <3>2. Cardinality(Carriers') \in Nat
      <4>1. Carriers' = Carriers \ {t}
        BY DEF Sem!TypeOK, Carriers
      <4> QED BY <1>2, <4>1, FS_RemoveElement, FS_CardinalityType
    <3>3. TokensAreCarried'
      BY <3>2 DEF Sem!TypeOK, TokensAreCarried
    <3> QED BY <3>1, <3>3
  <2>MarkWaiting. ASSUME Sem!MarkWaiting(t)
    PROVE  SemIInv'
    <3> USE <2>MarkWaiting DEF Sem!MarkWaiting, Sem!Step, Sem!BucketFree
    <3>1. Sem!TypeOK'
      BY <1>0, <2>0 DEF Sem!TypeOK
    <3>2. Carriers' = Carriers
      BY DEF Sem!TypeOK, Carriers
    <3>3. TokensAreCarried'
      BY <1>2, <1>3, <2>0, <3>2 DEF Sem!TypeOK, TokensAreCarried, Carriers
    <3> QED BY <3>1, <3>3
  <2>WaitAtOnce. ASSUME Sem!WaitAtOnce(t)
    PROVE  SemIInv'
    <3> USE <2>WaitAtOnce DEF Sem!WaitAtOnce, Sem!Step
    <3>1. Sem!TypeOK'
      BY <1>0, <2>0 DEF Sem!TypeOK
    <3>2. Carriers' = Carriers \cup {t}
      BY DEF Sem!TypeOK, Carriers
    <3>3. TokensAreCarried'
      BY <1>2, <1>3, <2>0, <3>2 DEF Sem!TypeOK, TokensAreCarried, Carriers
    <3> QED BY <3>1, <3>3
  <2>Sleep. ASSUME NEW d \in BOOLEAN, Sem!Sleep(t, d)
    PROVE  SemIInv'
    <3> USE <2>Sleep DEF Sem!Sleep, Sem!Step
    <3>1. /\ semQueue' \in Seq(Lockers) /\ IsInjective(semQueue')
          /\ Range(semQueue') = Range(semQueue) \cup {t}
      BY <2>0, QueueFacts DEF Sem!TypeOK
    <3>2. Sem!TypeOK'
      BY <1>0, <2>0, <3>1 DEF Sem!TypeOK
    <3>3. Carriers' = Carriers
      BY DEF Sem!TypeOK, Carriers
    <3>4. TokensAreCarried'
      BY <1>2, <3>3 DEF Sem!TypeOK, TokensAreCarried
    <3> QED BY <3>2, <3>4
  <2>TimeOut. ASSUME Sem!TimeOut(t)
    PROVE  SemIInv'
    <3> USE <2>TimeOut DEF Sem!TimeOut, Sem!Step, Sem!BucketFree
    <3>1. PICK p \in DOMAIN semQueue : semQueue[p] = t /\ semQueue' = RemoveAt(semQueue, p)
      BY <1>0 DEF Sem!LeaveQueue
    <3>2. /\ semQueue' \in Seq(Lockers) /\ IsInjective(semQueue')
          /\ Range(semQueue') = Range(semQueue) \ {t} /\ semQueue # <<>>
      <4>1. t \in Range(semQueue)
        BY <3>1 DEF Range
      <4> QED BY <1>0, <2>0, <3>1, <4>1, QueueFacts
    <3>3. Sem!TypeOK'
      BY <1>0, <2>0, <3>2 DEF Sem!TypeOK
    <3>4. Carriers' = Carriers
      BY DEF Sem!TypeOK, Carriers
    <3>5. TokensAreCarried'
      BY <3>2, <3>4 DEF Sem!TypeOK, TokensAreCarried
    <3> QED BY <3>3, <3>5
  <2>Post. ASSUME Sem!Post(t)
    PROVE  SemIInv'
    <3> USE <2>Post DEF Sem!Post, Sem!Step
    <3>1. Sem!TypeOK'
      BY <1>0, <2>0 DEF Sem!TypeOK
    <3>2. Carriers' = Carriers \cup {t}
      BY DEF Sem!TypeOK, Carriers
    <3>3. TokensAreCarried'
      BY <1>2, <1>3, <2>0, <3>2 DEF Sem!TypeOK, TokensAreCarried, Carriers
    <3> QED BY <3>1, <3>3
  <2>PostRead. ASSUME Sem!PostRead(t)
    PROVE  SemIInv'
    <3> USE <2>PostRead DEF Sem!PostRead, Sem!Step
    <3>1. Sem!TypeOK'
      BY <1>0, <2>0 DEF Sem!TypeOK
    <3>2. semQueue # <<>> => Carriers' = Carriers
      BY DEF Sem!TypeOK, Carriers, TokensAreCarried
    <3>3. TokensAreCarried'
      BY <3>2 DEF Sem!TypeOK, TokensAreCarried
    <3> QED BY <3>1, <3>3
  <2>Wake. ASSUME Sem!Wake(t)
    PROVE  SemIInv'
    <3> USE <2>Wake DEF Sem!Wake, Sem!Step, Sem!BucketFree
    <3>1. CASE semQueue = <<>>
      <4>1. Sem!TypeOK'
        BY <1>0, <2>0, <3>1 DEF Sem!TypeOK, Sem!FlagAfterWake
      <4>2. TokensAreCarried'
        BY <3>1 DEF Sem!TypeOK, TokensAreCarried
      <4> QED BY <4>1, <4>2
    <3>2. CASE semQueue # <<>>
      <4> DEFINE h == Head(semQueue)
      <4>1. /\ h \in Range(semQueue) /\ semQueue' \in Seq(Lockers) /\ IsInjective(semQueue')
            /\ Range(semQueue') = Range(semQueue) \ {h}
            /\ Len(semQueue') = Len(semQueue) - 1 /\ (semQueue' = <<>> <=> Len(semQueue') = 0)
        <5>1. /\ h \in Range(semQueue) /\ semQueue' \in Seq(Lockers) /\ IsInjective(semQueue')
              /\ Range(semQueue') = Range(semQueue) \ {h}
              /\ Len(semQueue') = Len(semQueue) - 1
          <6>1. semQueue' = Tail(semQueue)
            BY <3>2
          <6> QED BY <2>0, <3>2, <6>1, QueueFacts
        <5> QED BY <5>1, EmptySeq
      <4>2. h \in Lockers /\ semPc[h] = "asleep" /\ h # t
        BY <2>0, <4>1
      <4>3. semPc' = [semPc EXCEPT ![t] = "idle", ![h] = "woken"]
        BY <3>2
      <4> HIDE DEF h
      <4>4. Sem!TypeOK'
        BY <1>0, <2>0, <4>1, <4>2, <4>3 DEF Sem!TypeOK, Sem!FlagAfterWake
      <4>5. Cardinality(Carriers') = Cardinality(Carriers)
        <5>1. Carriers' = (Carriers \ {t}) \cup {h} /\ t \in Carriers /\ h \notin Carriers
          BY <4>2, <4>3 DEF Sem!TypeOK, Carriers
        <5>2. IsFiniteSet(Carriers \ {t}) /\ h \notin Carriers \ {t}
          BY <1>2, <5>1, FS_RemoveElement
        <5>3. Cardinality(Carriers') = Cardinality(Carriers \ {t}) + 1
          BY <5>1, <5>2, FS_AddElement
        <5> QED BY <1>2, <1>3, <5>1, <5>3
      <4>6. TokensAreCarried'
        <5>1. \A u \in Lockers : semPc'[u] # "marked"
          BY <4>2, <4>3 DEF Sem!TypeOK
        <5>2. semQueue' # <<>> => semHasWaiters'
          BY <3>2, <4>1 DEF TokensAreCarried, Sem!FlagAfterWake
        <5> QED BY <3>2, <4>5, <5>1, <5>2 DEF TokensAreCarried
      <4> QED BY <4>4, <4>6
    <3> QED BY <3>1, <3>2
  <2> QED
    BY <2>Take, <2>MustWait, <2>MarkWaiting, <2>WaitAtOnce, <2>Sleep, <2>TimeOut, <2>Post, <2>PostRead, <2>Wake DEF Sem!Does
<1>5. PartsInit => (part = "wait" => SemIInv)
  BY <1>1 DEF PartsInit
<1>6. (part = "wait" => SemIInv) /\ [PartsNext]_<<part, vars, mutexVars, waitVars, semVars>>
         => (part = "wait" => SemIInv)'
  <2> SUFFICES ASSUME part = "wait", SemIInv,
                      [PartsNext]_<<part, vars, mutexVars, waitVars, semVars>>
               PROVE  SemIInv'
    BY DEF PartsNext
  <2>1. CASE \E t \in Lockers : Sem!Does(t)
    BY <1>4, <2>1
  <2>2. CASE UNCHANGED semVars
    BY <2>2 DEF semVars, SemIInv, Sem!TypeOK, TokensAreCarried, Carriers
  <2> QED BY <2>1, <2>2 DEF PartsNext
<1> QED BY <1>5, <1>6, PTL DEF PartsSpec

\* No post of a usem is lost: while nobody is inside a call and no deadline runs,
\* tokens and sleepers are not left together.
THEOREM NoPostIsLost == PartsSpec => []NoStrandedSleeper
<1>1. (part = "wait" => SemIInv) => NoStrandedSleeper
  <2> SUFFICES ASSUME SemIInv, count > 0, semQueue # <<>>,
                      \A t \in Lockers : semPc[t] = "idle" \/ semPc[t] = "asleep"
               PROVE  FALSE
    BY DEF NoStrandedSleeper, Sem!NoStrandedSleeper
  <2>1. Carriers = {}
    BY DEF Carriers
  <2> QED BY <2>1, WordsAssumption, FS_EmptySet DEF SemIInv, TokensAreCarried, Sem!TypeOK
<1> QED BY <1>1, SemInvariance, PTL
=============================================================================
