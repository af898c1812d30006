---------------------------- MODULE Pthread_proofs ----------------------------
(***************************************************************************)
(* Proofs about the parts of the guest threads that MCPthread puts side by *)
(* side, for any threads, callers, records, storages, stacks, mutexes and  *)
(* bounds: the condition variable with cancellation (PthreadCond), the life*)
(* of a thread (GuestThread) and the parking lot (ParkingLot).             *)
(***************************************************************************)
EXTENDS MCPthread, TLAPS, FiniteSetTheorems, SequenceTheorems, WellFoundedInduction

-----------------------------------------------------------------------------
(* The mutex, the condition variable and cancellation.                     *)

\* The places of a wait.
Waits == {"check", "asleep", "relock", "locked", "finish"}

\* Who owns the mutex holds it natively, with at least one level if it is recursive;
\* a waiter holds it on its two ways, and has put its levels aside.
MutexIsWhole ==
    /\ owner # NoThread => native = owner
    /\ IF Recursive THEN count > 0 <=> owner # NoThread ELSE count = 0
    /\ \A t \in Threads :
          /\ pc[t] \in {"check", "locked"} => native = t /\ owner = NoThread
          /\ pc[t] = "finish" => owner = t
          /\ pc[t] \in Waits => IF Recursive THEN previousCount[t] > 0 ELSE previousCount[t] = 0

\* A wait is registered until its sleep is over.  A waiter is a consumer that found
\* no token, and is out of time only after its sleep.
WaitIsRegistered ==
    \A t \in Threads :
       /\ cancelWait[t] = IF pc[t] \in {"check", "asleep"} THEN Registers(t) ELSE "none"
       /\ pc[t] \in Waits => t \in consuming
       /\ timedOut[t] => pc[t] \in {"relock", "locked", "finish"}
       /\ pc[t] = "check" => tokens = 0

CondIInv == TypeOK /\ MutexIsWhole /\ WaitIsRegistered /\ CanceledIsWoken /\ NoStrandedToken

\* The places of every thread, the whole mutex, the registered waits, the woken and the
\* counted tokens, in every reachable state.
LEMMA CondInvariance == PartsSpec => []CondIInv
<1> USE ThreadsAssumption, BoundsAssumption
<1>0. /\ \A X \in SUBSET Threads : IsFiniteSet(X) /\ Cardinality(X) \in Nat
      /\ \A X \in SUBSET Threads, t \in Threads : t \notin X => Cardinality(X \cup {t}) = Cardinality(X) + 1
      /\ \A X \in SUBSET Threads, t \in Threads : t \in X => Cardinality(X \ {t}) = Cardinality(X) - 1
  <2>1. \A X \in SUBSET Threads : IsFiniteSet(X)
    BY FS_Subset
  <2> QED BY <2>1, FS_CardinalityType, FS_AddElement, FS_RemoveElement
<1>1. Init => CondIInv
  <2> SUFFICES ASSUME Init
               PROVE  CondIInv
    OBVIOUS
  <2>1. TypeOK
    BY DEF Init, TypeOK
  <2>2. MutexIsWhole /\ WaitIsRegistered /\ CanceledIsWoken /\ NoStrandedToken
    BY DEF Init, MutexIsWhole, WaitIsRegistered, Waits, CanceledIsWoken, NoStrandedToken
  <2> QED BY <2>1, <2>2 DEF CondIInv
<1>2. ASSUME CondIInv, Next
      PROVE  CondIInv'
  <2>0. TypeOK /\ MutexIsWhole /\ WaitIsRegistered /\ CanceledIsWoken /\ NoStrandedToken
    BY <1>2 DEF CondIInv
  <2>A. Awake \subseteq Threads /\ owesSignal \subseteq Threads /\ tokens \in Nat
    BY <2>0 DEF TypeOK, Awake
  <2>Lock. ASSUME NEW t \in Threads, Lock(t)
    PROVE  CondIInv'
    <3> USE <2>Lock DEF Lock, cancel, guest
    <3>1. TypeOK'
      BY <2>0 DEF TypeOK, MutexIsWhole, WaitIsRegistered, Waits
    <3>2. MutexIsWhole'
      BY <2>0 DEF TypeOK, MutexIsWhole, Waits
    <3>3. WaitIsRegistered'
      BY <2>0 DEF TypeOK, MutexIsWhole, WaitIsRegistered, Waits, Registers
    <3>4. CanceledIsWoken'
      BY <2>0 DEF TypeOK, WaitIsRegistered, CanceledIsWoken, Requested, CancelDone, Registers
    <3>5. NoStrandedToken'
      <4>1. Awake' = Awake /\ UNCHANGED <<tokens, owesSignal>> /\ (sleeping = {} => sleeping' = {})
        BY <2>0 DEF TypeOK, WaitIsRegistered, Waits, Awake
      <4> QED BY <4>1, <2>0 DEF NoStrandedToken
    <3> QED BY <3>1, <3>2, <3>3, <3>4, <3>5 DEF CondIInv
  <2>Unlock. ASSUME NEW t \in Threads, Unlock(t)
    PROVE  CondIInv'
    <3> USE <2>Unlock DEF Unlock, Released, Holds, cancel, guest
    <3>1. TypeOK'
      BY <2>0 DEF TypeOK, MutexIsWhole, WaitIsRegistered, Waits
    <3>2. MutexIsWhole'
      BY <2>0 DEF TypeOK, MutexIsWhole, Waits
    <3>3. WaitIsRegistered'
      BY <2>0 DEF TypeOK, MutexIsWhole, WaitIsRegistered, Waits, Registers
    <3>4. CanceledIsWoken'
      BY <2>0 DEF TypeOK, WaitIsRegistered, CanceledIsWoken, Requested, CancelDone, Registers
    <3>5. NoStrandedToken'
      <4>1. Awake' = Awake /\ UNCHANGED <<tokens, owesSignal>> /\ (sleeping = {} => sleeping' = {})
        BY <2>0 DEF TypeOK, WaitIsRegistered, Waits, Awake
      <4> QED BY <4>1, <2>0 DEF NoStrandedToken
    <3> QED BY <3>1, <3>2, <3>3, <3>4, <3>5 DEF CondIInv
  <2>BeginWait. ASSUME NEW t \in Threads, BeginWait(t)
    PROVE  CondIInv'
    <3> USE <2>BeginWait DEF BeginWait, Registers, Step, Holds, guest
    <3>1. TypeOK'
      BY <2>0 DEF TypeOK, MutexIsWhole, WaitIsRegistered, Waits
    <3>2. MutexIsWhole'
      BY <2>0 DEF TypeOK, MutexIsWhole, Waits
    <3>3. WaitIsRegistered'
      BY <2>0 DEF TypeOK, MutexIsWhole, WaitIsRegistered, Waits, Registers
    <3>4. CanceledIsWoken'
      BY <2>0 DEF TypeOK, WaitIsRegistered, CanceledIsWoken, Requested, CancelDone, Registers
    <3>5. NoStrandedToken'
      <4>1. Awake' = Awake /\ UNCHANGED <<tokens, owesSignal>> /\ (sleeping = {} => sleeping' = {})
        BY <2>0 DEF TypeOK, WaitIsRegistered, Waits, Awake
      <4> QED BY <4>1, <2>0 DEF NoStrandedToken
    <3> QED BY <3>1, <3>2, <3>3, <3>4, <3>5 DEF CondIInv
  <2>WaitNot. ASSUME NEW t \in Threads, WaitNot(t)
    PROVE  CondIInv'
    <3> USE <2>WaitNot DEF WaitNot, Step, Requested, mutex, guest
    <3>1. TypeOK'
      BY <2>0 DEF TypeOK, MutexIsWhole, WaitIsRegistered, Waits
    <3>2. MutexIsWhole'
      BY <2>0 DEF TypeOK, MutexIsWhole, Waits
    <3>3. WaitIsRegistered'
      BY <2>0 DEF TypeOK, MutexIsWhole, WaitIsRegistered, Waits, Registers
    <3>4. CanceledIsWoken'
      BY <2>0 DEF TypeOK, WaitIsRegistered, CanceledIsWoken, Requested, CancelDone, Registers
    <3>5. NoStrandedToken'
      <4>1. Awake' = Awake /\ UNCHANGED <<tokens, owesSignal>> /\ (sleeping = {} => sleeping' = {})
        BY <2>0 DEF TypeOK, WaitIsRegistered, Waits, Awake
      <4> QED BY <4>1, <2>0 DEF NoStrandedToken
    <3> QED BY <3>1, <3>2, <3>3, <3>4, <3>5 DEF CondIInv
  <2>Sleep. ASSUME NEW t \in Threads, Sleep(t)
    PROVE  CondIInv'
    <3> USE <2>Sleep DEF Sleep, Step, Requested, cancel, guest
    <3>1. TypeOK'
      BY <2>0 DEF TypeOK, MutexIsWhole, WaitIsRegistered, Waits
    <3>2. MutexIsWhole'
      BY <2>0 DEF TypeOK, MutexIsWhole, Waits
    <3>3. WaitIsRegistered'
      BY <2>0 DEF TypeOK, MutexIsWhole, WaitIsRegistered, Waits, Registers
    <3>4. CanceledIsWoken'
      BY <2>0 DEF TypeOK, WaitIsRegistered, CanceledIsWoken, Requested, CancelDone, Registers
    <3>5. NoStrandedToken'
      <4>1. tokens' = 0 /\ Cardinality(Awake') \in Nat /\ Cardinality(owesSignal') \in Nat
        BY <2>0, <1>0, <3>1 DEF TypeOK, WaitIsRegistered, Awake
      <4> QED BY <4>1 DEF NoStrandedToken
    <3> QED BY <3>1, <3>2, <3>3, <3>4, <3>5 DEF CondIInv
  <2>Wake. ASSUME NEW t \in Threads, Wake(t)
    PROVE  CondIInv'
    <3> USE <2>Wake DEF Wake, Step, mutex, guest
    <3>1. TypeOK'
      BY <2>0 DEF TypeOK, MutexIsWhole, WaitIsRegistered, Waits
    <3>2. MutexIsWhole'
      BY <2>0 DEF TypeOK, MutexIsWhole, Waits
    <3>3. WaitIsRegistered'
      BY <2>0 DEF TypeOK, MutexIsWhole, WaitIsRegistered, Waits, Registers
    <3>4. CanceledIsWoken'
      BY <2>0 DEF TypeOK, WaitIsRegistered, CanceledIsWoken, Requested, CancelDone, Registers
    <3>5. NoStrandedToken'
      <4>1. Awake' = Awake /\ UNCHANGED <<tokens, owesSignal>> /\ (sleeping = {} => sleeping' = {})
        BY <2>0 DEF TypeOK, WaitIsRegistered, Waits, Awake
      <4> QED BY <4>1, <2>0 DEF NoStrandedToken
    <3> QED BY <3>1, <3>2, <3>3, <3>4, <3>5 DEF CondIInv
  <2>WakeAtDeadline. ASSUME NEW t \in Threads, WakeAtDeadline(t)
    PROVE  CondIInv'
    <3> USE <2>WakeAtDeadline DEF WakeAtDeadline, LeftQueue, Step, mutex, guest
    <3>1. TypeOK'
      BY <2>0 DEF TypeOK, MutexIsWhole, WaitIsRegistered, Waits
    <3>2. MutexIsWhole'
      BY <2>0 DEF TypeOK, MutexIsWhole, Waits
    <3>3. WaitIsRegistered'
      BY <2>0 DEF TypeOK, MutexIsWhole, WaitIsRegistered, Waits, Registers
    <3>4. CanceledIsWoken'
      BY <2>0 DEF TypeOK, WaitIsRegistered, CanceledIsWoken, Requested, CancelDone, Registers
    <3>5. NoStrandedToken'
      <4>1. Awake' = Awake /\ UNCHANGED <<tokens, owesSignal>> /\ (sleeping = {} => sleeping' = {})
        BY <2>0 DEF TypeOK, WaitIsRegistered, Waits, Awake
      <4> QED BY <4>1, <2>0 DEF NoStrandedToken
    <3> QED BY <3>1, <3>2, <3>3, <3>4, <3>5 DEF CondIInv
  <2>Relock. ASSUME NEW t \in Threads, Relock(t)
    PROVE  CondIInv'
    <3> USE <2>Relock DEF Relock, Step, cancel, guest
    <3>1. TypeOK'
      BY <2>0 DEF TypeOK, MutexIsWhole, WaitIsRegistered, Waits
    <3>2. MutexIsWhole'
      BY <2>0 DEF TypeOK, MutexIsWhole, Waits
    <3>3. WaitIsRegistered'
      BY <2>0 DEF TypeOK, MutexIsWhole, WaitIsRegistered, Waits, Registers
    <3>4. CanceledIsWoken'
      BY <2>0 DEF TypeOK, WaitIsRegistered, CanceledIsWoken, Requested, CancelDone, Registers
    <3>5. NoStrandedToken'
      <4>1. Awake' = Awake /\ UNCHANGED <<tokens, owesSignal>> /\ (sleeping = {} => sleeping' = {})
        BY <2>0 DEF TypeOK, WaitIsRegistered, Waits, Awake
      <4> QED BY <4>1, <2>0 DEF NoStrandedToken
    <3> QED BY <3>1, <3>2, <3>3, <3>4, <3>5 DEF CondIInv
  <2>Restore. ASSUME NEW t \in Threads, Restore(t)
    PROVE  CondIInv'
    <3> USE <2>Restore DEF Restore, Restored, Step, cancel, guest
    <3>1. TypeOK'
      BY <2>0 DEF TypeOK, MutexIsWhole, WaitIsRegistered, Waits
    <3>2. MutexIsWhole'
      BY <2>0 DEF TypeOK, MutexIsWhole, Waits
    <3>3. WaitIsRegistered'
      BY <2>0 DEF TypeOK, MutexIsWhole, WaitIsRegistered, Waits, Registers
    <3>4. CanceledIsWoken'
      BY <2>0 DEF TypeOK, WaitIsRegistered, CanceledIsWoken, Requested, CancelDone, Registers
    <3>5. NoStrandedToken'
      <4>1. Awake' = Awake /\ UNCHANGED <<tokens, owesSignal>> /\ (sleeping = {} => sleeping' = {})
        BY <2>0 DEF TypeOK, WaitIsRegistered, Waits, Awake
      <4> QED BY <4>1, <2>0 DEF NoStrandedToken
    <3> QED BY <3>1, <3>2, <3>3, <3>4, <3>5 DEF CondIInv
  <2>FinishCanceled. ASSUME NEW t \in Threads, FinishCanceled(t)
    PROVE  CondIInv'
    <3> USE <2>FinishCanceled DEF FinishCanceled, Forward, Returns, Requested, mutex, NotifyOne, Step
    <3>1. TypeOK'
      BY <2>0 DEF TypeOK, MutexIsWhole, WaitIsRegistered, Waits
    <3>2. MutexIsWhole'
      BY <2>0 DEF TypeOK, MutexIsWhole, Waits
    <3>3. WaitIsRegistered'
      BY <2>0 DEF TypeOK, MutexIsWhole, WaitIsRegistered, Waits, Registers
    <3>4. CanceledIsWoken'
      BY <2>0 DEF TypeOK, WaitIsRegistered, CanceledIsWoken, Requested, CancelDone, Registers
    <3>5. NoStrandedToken'
      <4>1. UNCHANGED <<tokens, owesSignal>>
        OBVIOUS
      <4>2. CASE sleeping = {}
        BY <4>2 DEF NoStrandedToken
      <4>3. ASSUME NEW u \in sleeping, sleeping' = sleeping \ {u}
            PROVE  NoStrandedToken'
        <5>1. u \notin Awake /\ u \in Threads /\ u # t /\ Awake' = (Awake \cup {u}) \ {t}
          BY <4>3, <2>0 DEF TypeOK, WaitIsRegistered, Waits, Awake
        <5>2. Cardinality(Awake \cup {u}) = Cardinality(Awake) + 1 /\ Awake \cup {u} \subseteq Threads
          BY <5>1, <2>A, <1>0
        <5>3. Cardinality(Awake') >= Cardinality(Awake)
          <6>1. CASE t \in Awake \cup {u}
            BY <6>1, <5>1, <5>2, <2>A, <1>0
          <6>2. CASE t \notin Awake \cup {u}
            <7>1. Awake' = Awake \cup {u}
              BY <5>1, <6>2
            <7> QED BY <7>1, <5>2, <2>A, <1>0
          <6> QED BY <6>1, <6>2
        <5>4. Cardinality(Awake) \in Nat /\ Cardinality(Awake') \in Nat /\ Cardinality(owesSignal) \in Nat
          BY <2>A, <5>1, <1>0
        <5> QED BY <4>1, <4>3, <5>3, <5>4, <2>0, <2>A DEF NoStrandedToken
      <4> QED BY <4>2, <4>3
    <3> QED BY <3>1, <3>2, <3>3, <3>4, <3>5 DEF CondIInv
  <2>Finish. ASSUME NEW t \in Threads, Finish(t)
    PROVE  CondIInv'
    <3> USE <2>Finish DEF Finish, Returns, Requested, mutex, cancel, Step
    <3>1. TypeOK'
      BY <2>0 DEF TypeOK, MutexIsWhole, WaitIsRegistered, Waits
    <3>2. MutexIsWhole'
      BY <2>0 DEF TypeOK, MutexIsWhole, Waits
    <3>3. WaitIsRegistered'
      BY <2>0 DEF TypeOK, MutexIsWhole, WaitIsRegistered, Waits, Registers
    <3>4. CanceledIsWoken'
      BY <2>0 DEF TypeOK, WaitIsRegistered, CanceledIsWoken, Requested, CancelDone, Registers
    <3>5. NoStrandedToken'
      <4>1. Awake' = Awake /\ UNCHANGED <<tokens, owesSignal>> /\ (sleeping = {} => sleeping' = {})
        BY <2>0 DEF TypeOK, WaitIsRegistered, Waits, Awake
      <4> QED BY <4>1, <2>0 DEF NoStrandedToken
    <3> QED BY <3>1, <3>2, <3>3, <3>4, <3>5 DEF CondIInv
  <2>Cancel. ASSUME NEW t \in Threads, NEW u \in Threads, Cancel(t, u)
    PROVE  CondIInv'
    <3> USE <2>Cancel DEF Cancel, Step, mutex, cancel, guest
    <3>1. TypeOK'
      BY <2>0 DEF TypeOK, MutexIsWhole, WaitIsRegistered, Waits
    <3>2. MutexIsWhole'
      BY <2>0 DEF TypeOK, MutexIsWhole, Waits
    <3>3. WaitIsRegistered'
      BY <2>0 DEF TypeOK, MutexIsWhole, WaitIsRegistered, Waits, Registers
    <3>4. CanceledIsWoken'
      BY <2>0 DEF TypeOK, WaitIsRegistered, CanceledIsWoken, Requested, CancelDone, Registers
    <3>5. NoStrandedToken'
      <4>1. Awake' = Awake /\ UNCHANGED <<tokens, owesSignal>> /\ (sleeping = {} => sleeping' = {})
        BY <2>0 DEF TypeOK, WaitIsRegistered, Waits, Awake
      <4> QED BY <4>1, <2>0 DEF NoStrandedToken
    <3> QED BY <3>1, <3>2, <3>3, <3>4, <3>5 DEF CondIInv
  <2>CancelNotify. ASSUME NEW t \in Threads, CancelNotify(t)
    PROVE  CondIInv'
    <3> USE <2>CancelNotify DEF CancelNotify, NotifyAll, CancelDone, mutex, cancel, guest
    <3>1. TypeOK'
      BY <2>0 DEF TypeOK, MutexIsWhole, WaitIsRegistered, Waits
    <3>2. MutexIsWhole'
      BY <2>0 DEF TypeOK, MutexIsWhole, Waits
    <3>3. WaitIsRegistered'
      BY <2>0 DEF TypeOK, MutexIsWhole, WaitIsRegistered, Waits, Registers
    <3>4. CanceledIsWoken'
      BY <2>0 DEF TypeOK, WaitIsRegistered, CanceledIsWoken, Requested, CancelDone, Registers
    <3>5. NoStrandedToken'
      BY DEF NoStrandedToken
    <3> QED BY <3>1, <3>2, <3>3, <3>4, <3>5 DEF CondIInv
  <2>CancelReturn. ASSUME NEW t \in Threads, CancelReturn(t)
    PROVE  CondIInv'
    <3> USE <2>CancelReturn DEF CancelReturn, CancelDone, Step, mutex, cancel, guest
    <3>1. TypeOK'
      BY <2>0 DEF TypeOK, MutexIsWhole, WaitIsRegistered, Waits
    <3>2. MutexIsWhole'
      BY <2>0 DEF TypeOK, MutexIsWhole, Waits
    <3>3. WaitIsRegistered'
      BY <2>0 DEF TypeOK, MutexIsWhole, WaitIsRegistered, Waits, Registers
    <3>4. CanceledIsWoken'
      BY <2>0 DEF TypeOK, WaitIsRegistered, CanceledIsWoken, Requested, CancelDone, Registers
    <3>5. NoStrandedToken'
      <4>1. Awake' = Awake /\ UNCHANGED <<tokens, owesSignal>> /\ (sleeping = {} => sleeping' = {})
        BY <2>0 DEF TypeOK, WaitIsRegistered, Waits, Awake
      <4> QED BY <4>1, <2>0 DEF NoStrandedToken
    <3> QED BY <3>1, <3>2, <3>3, <3>4, <3>5 DEF CondIInv
  <2>Setcancelstate. ASSUME NEW t \in Threads, Setcancelstate(t)
    PROVE  CondIInv'
    <3> USE <2>Setcancelstate DEF Setcancelstate, mutex, guest
    <3>1. TypeOK'
      BY <2>0 DEF TypeOK, MutexIsWhole, WaitIsRegistered, Waits
    <3>2. MutexIsWhole'
      BY <2>0 DEF TypeOK, MutexIsWhole, Waits
    <3>3. WaitIsRegistered'
      BY <2>0 DEF TypeOK, MutexIsWhole, WaitIsRegistered, Waits, Registers
    <3>4. CanceledIsWoken'
      BY <2>0 DEF TypeOK, WaitIsRegistered, CanceledIsWoken, Requested, CancelDone, Registers
    <3>5. NoStrandedToken'
      <4>1. Awake' = Awake /\ UNCHANGED <<tokens, owesSignal>> /\ (sleeping = {} => sleeping' = {})
        BY <2>0 DEF TypeOK, WaitIsRegistered, Waits, Awake
      <4> QED BY <4>1, <2>0 DEF NoStrandedToken
    <3> QED BY <3>1, <3>2, <3>3, <3>4, <3>5 DEF CondIInv
  <2>Exit. ASSUME NEW t \in Threads, Exit(t)
    PROVE  CondIInv'
    <3> USE <2>Exit DEF Exit, mutex, guest
    <3>1. TypeOK'
      BY <2>0 DEF TypeOK, MutexIsWhole, WaitIsRegistered, Waits
    <3>2. MutexIsWhole'
      BY <2>0 DEF TypeOK, MutexIsWhole, Waits
    <3>3. WaitIsRegistered'
      BY <2>0 DEF TypeOK, MutexIsWhole, WaitIsRegistered, Waits, Registers
    <3>4. CanceledIsWoken'
      BY <2>0 DEF TypeOK, WaitIsRegistered, CanceledIsWoken, Requested, CancelDone, Registers
    <3>5. NoStrandedToken'
      <4>1. Awake' = Awake /\ UNCHANGED <<tokens, owesSignal>> /\ (sleeping = {} => sleeping' = {})
        BY <2>0 DEF TypeOK, WaitIsRegistered, Waits, Awake
      <4> QED BY <4>1, <2>0 DEF NoStrandedToken
    <3> QED BY <3>1, <3>2, <3>3, <3>4, <3>5 DEF CondIInv
  <2>End. ASSUME NEW t \in Threads, End(t)
    PROVE  CondIInv'
    <3> USE <2>End DEF End, Step, mutex, cancel, guest
    <3>1. TypeOK'
      BY <2>0 DEF TypeOK, MutexIsWhole, WaitIsRegistered, Waits
    <3>2. MutexIsWhole'
      BY <2>0 DEF TypeOK, MutexIsWhole, Waits
    <3>3. WaitIsRegistered'
      BY <2>0 DEF TypeOK, MutexIsWhole, WaitIsRegistered, Waits, Registers
    <3>4. CanceledIsWoken'
      BY <2>0 DEF TypeOK, WaitIsRegistered, CanceledIsWoken, Requested, CancelDone, Registers
    <3>5. NoStrandedToken'
      <4>1. Awake' = Awake /\ UNCHANGED <<tokens, owesSignal>> /\ (sleeping = {} => sleeping' = {})
        BY <2>0 DEF TypeOK, WaitIsRegistered, Waits, Awake
      <4> QED BY <4>1, <2>0 DEF NoStrandedToken
    <3> QED BY <3>1, <3>2, <3>3, <3>4, <3>5 DEF CondIInv
  <2>Consume. ASSUME NEW t \in Threads, Consume(t)
    PROVE  CondIInv'
    <3> USE <2>Consume DEF Consume, Holds, mutex, cancel
    <3>1. TypeOK'
      BY <2>0 DEF TypeOK, MutexIsWhole, WaitIsRegistered, Waits
    <3>2. MutexIsWhole'
      BY <2>0 DEF TypeOK, MutexIsWhole, Waits
    <3>3. WaitIsRegistered'
      BY <2>0 DEF TypeOK, MutexIsWhole, WaitIsRegistered, Waits, Registers
    <3>4. CanceledIsWoken'
      BY <2>0 DEF TypeOK, WaitIsRegistered, CanceledIsWoken, Requested, CancelDone, Registers
    <3>5. NoStrandedToken'
      <4>1. Awake' = Awake \cup {t} /\ UNCHANGED <<tokens, owesSignal, sleeping>>
        BY <2>0 DEF TypeOK, WaitIsRegistered, Waits, Awake
      <4>2. t \notin Awake
        BY DEF Awake
      <4> QED BY <4>1, <4>2, <2>0, <2>A, <1>0 DEF NoStrandedToken
    <3> QED BY <3>1, <3>2, <3>3, <3>4, <3>5 DEF CondIInv
  <2>Take. ASSUME NEW t \in Threads, Take(t)
    PROVE  CondIInv'
    <3> USE <2>Take DEF Take, Holds, mutex, cancel
    <3>1. TypeOK'
      BY <2>0 DEF TypeOK, MutexIsWhole, WaitIsRegistered, Waits
    <3>2. MutexIsWhole'
      BY <2>0 DEF TypeOK, MutexIsWhole, Waits
    <3>3. WaitIsRegistered'
      BY <2>0 DEF TypeOK, MutexIsWhole, WaitIsRegistered, Waits, Registers
    <3>4. CanceledIsWoken'
      BY <2>0 DEF TypeOK, WaitIsRegistered, CanceledIsWoken, Requested, CancelDone, Registers
    <3>5. NoStrandedToken'
      <4>1. t \in Awake /\ Awake' = Awake \ {t} /\ tokens' = tokens - 1 /\ UNCHANGED <<owesSignal, sleeping>>
        BY <2>0 DEF TypeOK, WaitIsRegistered, Waits, Awake
      <4> QED BY <4>1, <2>0, <2>A, <1>0 DEF NoStrandedToken
    <3> QED BY <3>1, <3>2, <3>3, <3>4, <3>5 DEF CondIInv
  <2>Post. ASSUME NEW t \in Threads, Post(t)
    PROVE  CondIInv'
    <3> USE <2>Post DEF Post, Holds, mutex, cancel
    <3>1. TypeOK'
      BY <2>0 DEF TypeOK, MutexIsWhole, WaitIsRegistered, Waits
    <3>2. MutexIsWhole'
      BY <2>0 DEF TypeOK, MutexIsWhole, Waits
    <3>3. WaitIsRegistered'
      BY <2>0 DEF TypeOK, MutexIsWhole, WaitIsRegistered, Waits, Registers
    <3>4. CanceledIsWoken'
      BY <2>0 DEF TypeOK, WaitIsRegistered, CanceledIsWoken, Requested, CancelDone, Registers
    <3>5. NoStrandedToken'
      <4>1. /\ t \notin owesSignal /\ owesSignal' = owesSignal \cup {t} /\ tokens' = tokens + 1
            /\ Awake' = Awake /\ UNCHANGED sleeping
        BY DEF Awake
      <4> QED BY <4>1, <2>0, <2>A, <1>0 DEF NoStrandedToken
    <3> QED BY <3>1, <3>2, <3>3, <3>4, <3>5 DEF CondIInv
  <2>Signal. ASSUME NEW t \in Threads, Signal(t)
    PROVE  CondIInv'
    <3> USE <2>Signal DEF Signal, NotifyOne, mutex, cancel
    <3>1. TypeOK'
      BY <2>0 DEF TypeOK, MutexIsWhole, WaitIsRegistered, Waits
    <3>2. MutexIsWhole'
      BY <2>0 DEF TypeOK, MutexIsWhole, Waits
    <3>3. WaitIsRegistered'
      BY <2>0 DEF TypeOK, MutexIsWhole, WaitIsRegistered, Waits, Registers
    <3>4. CanceledIsWoken'
      BY <2>0 DEF TypeOK, WaitIsRegistered, CanceledIsWoken, Requested, CancelDone, Registers
    <3>5. NoStrandedToken'
      <4>1. t \in owesSignal /\ owesSignal' = owesSignal \ {t} /\ UNCHANGED tokens
        OBVIOUS
      <4>2. CASE sleeping = {}
        BY <4>2 DEF NoStrandedToken
      <4>3. ASSUME NEW u \in sleeping, sleeping' = sleeping \ {u}
            PROVE  NoStrandedToken'
        <5>1. u \notin Awake /\ u \in Threads /\ Awake' = Awake \cup {u}
          BY <4>3, <2>0 DEF TypeOK, WaitIsRegistered, Waits, Awake
        <5>2. Cardinality(Awake') = Cardinality(Awake) + 1 /\ Cardinality(owesSignal') = Cardinality(owesSignal) - 1
          BY <5>1, <4>1, <2>A, <1>0
        <5>3. Cardinality(Awake) \in Nat /\ Cardinality(owesSignal) \in Nat
          BY <2>A, <1>0
        <5> QED BY <4>1, <4>3, <5>2, <5>3, <2>0, <2>A DEF NoStrandedToken
      <4> QED BY <4>2, <4>3
    <3> QED BY <3>1, <3>2, <3>3, <3>4, <3>5 DEF CondIInv
  <2>Broadcast. ASSUME NEW t \in Threads, Broadcast(t)
    PROVE  CondIInv'
    <3> USE <2>Broadcast DEF Broadcast, NotifyAll, mutex, cancel
    <3>1. TypeOK'
      BY <2>0 DEF TypeOK, MutexIsWhole, WaitIsRegistered, Waits
    <3>2. MutexIsWhole'
      BY <2>0 DEF TypeOK, MutexIsWhole, Waits
    <3>3. WaitIsRegistered'
      BY <2>0 DEF TypeOK, MutexIsWhole, WaitIsRegistered, Waits, Registers
    <3>4. CanceledIsWoken'
      BY <2>0 DEF TypeOK, WaitIsRegistered, CanceledIsWoken, Requested, CancelDone, Registers
    <3>5. NoStrandedToken'
      BY DEF NoStrandedToken
    <3> QED BY <3>1, <3>2, <3>3, <3>4, <3>5 DEF CondIInv
  <2> QED BY <1>2, <2>Lock, <2>Unlock, <2>BeginWait, <2>WaitNot, <2>Sleep, <2>Wake, <2>WakeAtDeadline, <2>Relock,
             <2>Restore, <2>FinishCanceled, <2>Finish, <2>Cancel, <2>CancelNotify, <2>CancelReturn,
             <2>Setcancelstate, <2>Exit, <2>End, <2>Consume, <2>Take, <2>Post, <2>Signal, <2>Broadcast DEF Next
<1>3. CondIInv /\ UNCHANGED vars => CondIInv'
  BY DEF vars, mutex, cancel, guest, CondIInv, TypeOK, MutexIsWhole, WaitIsRegistered, Waits, Registers,
     CanceledIsWoken,
         CancelDone, Requested, NoStrandedToken, Awake
<1>4. CondIInv /\ [PartsNext]_<<part, vars, lifeVars, parkVars>> => CondIInv'
  BY <1>2, <1>3 DEF PartsNext
<1> QED BY <1>1, <1>4, PTL DEF PartsSpec, PartsInit

\* As long as a consumer sleeps, there is for each token a consumer on its way or a
\* signal to come, whichever waiters are canceled or run out of time.
THEOREM TokensAreNotStranded == PartsSpec => []NoStrandedToken
BY CondInvariance, PTL DEF CondIInv

\* A request that comes between a waiter's check and its sleep has its canceler at work
\* until the waiter was notified.
THEOREM CanceledAreWoken == PartsSpec => []CanceledIsWoken
BY CondInvariance, PTL DEF CondIInv

\* Who keeps a canceler in its loop is on its way into its sleep or asleep, and not exiting.
THEOREM CancelersAreFreed == PartsSpec => []CancelerIsFreed
<1>1. CondIInv => CancelerIsFreed
  BY DEF CondIInv, TypeOK, WaitIsRegistered, Registers, CancelerIsFreed, CancelDone
<1> QED BY <1>1, CondInvariance, PTL

-----------------------------------------------------------------------------
(* The life of a guest thread.                                             *)

RunnerPlaces == {"none", "run", "notify", "release", "leave", "gone"}
CallPlaces == {"idle", "create", "recycle", "recycleDetached", "disown", "looked", "claim", "asleep",
               "join", "retain", "detach", "unref", "drop", "exited"}

LifeTypes ==
    /\ runner \in [Records -> RunnerPlaces]
    /\ references \in [Records -> Int]
    /\ registered \cup joined \cup detached \cup owning \cup retired \subseteq Life!Made
    /\ finished = {r \in Life!Made : runner[r] # "run"}
    /\ handleStorage \in [Records -> Storages \cup {None}]
    /\ \A r \in Life!Made : handleStorage[r] \in Storages
    /\ joinedThreads \in [Storages -> joined \cup {None}]
    /\ runsOn \in [Records -> Stacks \cup {None}]
    /\ callerPc \in [Callers -> CallPlaces]
    /\ arg \in [Callers -> Life!Made \cup {None}]
    /\ \A c \in Callers : arg[c] = None => callerPc[c] \in {"idle", "create", "exited"}
    /\ asleep \subseteq {c \in Callers : callerPc[c] = "asleep"}

\* A caller that has the creator's reference in its hands: a joiner until it has
\* passed it on, a detacher until it has given it back.
Joining(c, r) == arg[c] = r /\ callerPc[c] \in {"join", "retain"}
Detaching(c, r) == arg[c] = r /\ callerPc[c] \in {"detach", "unref", "recycleDetached", "disown"}
Passing(c, r) == Joining(c, r) \/ Detaching(c, r)

\* The creator's reference is in one place: nobody both joins and detaches a
\* thread, nobody does either twice, and a storage keeps only a record that was
\* stored there and has been joined.
OneShare ==
    /\ joined \cap detached = {}
    /\ \A c \in Callers, r \in Records : /\ Joining(c, r) => r \in joined
                                         /\ Detaching(c, r) => r \in detached
    /\ \A c, d \in Callers, r \in Records : Passing(c, r) /\ Passing(d, r) => c = d
    /\ \A s \in Storages : joinedThreads[s] # None =>
          /\ handleStorage[joinedThreads[s]] = s
          /\ \A c \in Callers : ~Passing(c, joinedThreads[s])

\* A thread has one sleeping joiner at most, and neither a past one nor a detacher.
OneSleeper ==
    /\ \A c \in Callers : callerPc[c] = "asleep" => arg[c] \in joining \ (joined \cup detached)
    /\ \A c, d \in Callers : callerPc[c] = "asleep" /\ callerPc[d] = "asleep" /\ arg[c] = arg[d] => c = d

\* Who is mapped is on a stack of its own that is not spare.
StacksApart ==
    /\ owning \cap retired = {}
    /\ \A r \in Life!Made : runner[r] # "gone" => r \in owning \cup retired
    /\ \A q \in owning \cup retired :
          /\ runsOn[q] \notin spareStacks
          /\ \A r \in owning \cup retired : runsOn[q] = runsOn[r] => q = r

LifeIInv == LifeTypes /\ OneShare /\ OneSleeper /\ StacksApart /\ Life!JoinerIsWoken
\* The places of the calls and of the threads, the one owner of a creator's
\* reference, the one sleeping joiner and the separate stacks, in every reachable state.
LEMMA LifeInvariance == PartsSpec => []LifeIInv
<1> USE PartsAssumption
<1>1. Life!Init => LifeIInv
  BY DEF Life!Init, LifeIInv, LifeTypes, OneShare, OneSleeper, StacksApart, Life!JoinerIsWoken, Life!Made,
     RunnerPlaces, CallPlaces,
         Passing, Joining, Detaching
<1>2. ASSUME LifeIInv, Life!Next
      PROVE  LifeIInv'
  <2> USE <1>2 DEF LifeIInv
  <2>Reap. ASSUME NEW c \in Callers, Life!Reap(c)
    PROVE  LifeIInv'
    <3>0. /\ retired' = {r \in retired : runner[r] # "gone"}
          /\ \A k \in spareStacks' : k \in spareStacks \/ \E r \in retired : runner[r] = "gone" /\ k = runsOn[r]
          /\ callerPc[c] = "idle" /\ callerPc' = [callerPc EXCEPT ![c] = "create"]
          /\ UNCHANGED <<runner, registered, references, handleStorage, joinedThreads, finished, detached, joined,
                         joining, runsOn, owning, arg, asleep>>
      BY <2>Reap DEF Life!Reap, Life!Collect, Life!HostThreadGone, Life!Step, Life!record, Life!flags
    <3>1. LifeTypes'
      BY <3>0 DEF LifeTypes, Life!Made, RunnerPlaces, CallPlaces
    <3>2. OneShare'
      BY <3>0 DEF LifeTypes, Life!Made, OneShare, Passing, Joining, Detaching
    <3>3. OneSleeper'
      BY <3>0 DEF LifeTypes, Life!Made, OneSleeper
    <3>4. StacksApart'
      <4>1. \A q \in owning \cup retired' : runsOn[q] \notin spareStacks'
        BY <3>0 DEF LifeTypes, Life!Made, StacksApart
      <4> QED BY <3>0, <4>1 DEF LifeTypes, Life!Made, StacksApart
    <3>5. Life!JoinerIsWoken'
      BY <3>0 DEF Life!JoinerIsWoken
    <3> QED BY <3>1, <3>2, <3>3, <3>4, <3>5
  <2>Recycle. ASSUME NEW c \in Callers, Life!Recycle(c)
    PROVE  LifeIInv'
    <3> USE <2>Recycle DEF Life!Recycle, Life!Release, Life!Return, Life!Call, Life!Step, Life!flags, Life!caller,
                Life!stack
    <3>1. LifeTypes'
      BY DEF LifeTypes, Life!Made, RunnerPlaces, CallPlaces, OneSleeper
    <3>2. OneShare'
      BY DEF LifeTypes, Life!Made, RunnerPlaces, CallPlaces, OneShare, OneSleeper, Passing, Joining, Detaching
    <3>3. OneSleeper'
      BY DEF LifeTypes, Life!Made, RunnerPlaces, CallPlaces, OneShare, OneSleeper, Joining, Detaching
    <3>4. StacksApart'
      BY DEF LifeTypes, Life!Made, RunnerPlaces, StacksApart
    <3>5. Life!JoinerIsWoken'
      BY DEF LifeTypes, Life!Made, RunnerPlaces, OneSleeper, Life!JoinerIsWoken
    <3> QED BY <3>1, <3>2, <3>3, <3>4, <3>5
  <2>Disown. ASSUME NEW c \in Callers, Life!Disown(c)
    PROVE  LifeIInv'
    <3> USE <2>Disown DEF Life!Disown, Life!Release, Life!Return, Life!Call, Life!flags, Life!caller, Life!stack
    <3>1. LifeTypes'
      BY DEF LifeTypes, Life!Made, RunnerPlaces, CallPlaces, OneSleeper
    <3>2. OneShare'
      BY DEF LifeTypes, Life!Made, RunnerPlaces, CallPlaces, OneShare, OneSleeper, Passing, Joining, Detaching
    <3>3. OneSleeper'
      BY DEF LifeTypes, Life!Made, RunnerPlaces, CallPlaces, OneShare, OneSleeper, Joining, Detaching
    <3>4. StacksApart'
      BY DEF LifeTypes, Life!Made, RunnerPlaces, StacksApart
    <3>5. Life!JoinerIsWoken'
      BY DEF LifeTypes, Life!Made, RunnerPlaces, OneSleeper, Life!JoinerIsWoken
    <3> QED BY <3>1, <3>2, <3>3, <3>4, <3>5
  <2>Create. ASSUME NEW c \in Callers, NEW r \in Records, NEW s \in Storages, NEW k \in Stacks,
      NEW detach \in BOOLEAN, Life!Create(c, r, s, k, detach)
    PROVE  LifeIInv'
    <3> USE <2>Create DEF Life!Create, Life!Call, Life!InUse, Life!flags, Life!caller, Life!stack
    <3>1. LifeTypes'
      BY DEF LifeTypes, Life!Made, RunnerPlaces, CallPlaces, OneSleeper
    <3>2. OneShare'
      BY DEF LifeTypes, Life!Made, RunnerPlaces, CallPlaces, OneShare, OneSleeper, Passing, Joining, Detaching
    <3>3. OneSleeper'
      BY DEF LifeTypes, Life!Made, RunnerPlaces, CallPlaces, OneShare, OneSleeper, Joining, Detaching
    <3>4. StacksApart'
      BY DEF LifeTypes, Life!Made, RunnerPlaces, StacksApart
    <3>5. Life!JoinerIsWoken'
      BY DEF LifeTypes, Life!Made, RunnerPlaces, OneSleeper, Life!JoinerIsWoken
    <3> QED BY <3>1, <3>2, <3>3, <3>4, <3>5
  <2>JoinLook. ASSUME NEW c \in Callers, NEW r \in Records, Life!JoinLook(c, r)
    PROVE  LifeIInv'
    <3> USE <2>JoinLook DEF Life!JoinLook, Life!CanRetain, Life!Retain, Life!Call, Life!flags, Life!caller, Life!stack
    <3>1. LifeTypes'
      BY DEF LifeTypes, Life!Made, RunnerPlaces, CallPlaces, OneSleeper
    <3>2. OneShare'
      BY DEF LifeTypes, Life!Made, RunnerPlaces, CallPlaces, OneShare, OneSleeper, Passing, Joining, Detaching
    <3>3. OneSleeper'
      BY DEF LifeTypes, Life!Made, RunnerPlaces, CallPlaces, OneShare, OneSleeper, Joining, Detaching
    <3>4. StacksApart'
      BY DEF LifeTypes, Life!Made, RunnerPlaces, StacksApart
    <3>5. Life!JoinerIsWoken'
      BY DEF LifeTypes, Life!Made, RunnerPlaces, OneSleeper, Life!JoinerIsWoken
    <3> QED BY <3>1, <3>2, <3>3, <3>4, <3>5
  <2>Detach. ASSUME NEW c \in Callers, NEW r \in Records, Life!Detach(c, r)
    PROVE  LifeIInv'
    <3> USE <2>Detach DEF Life!Detach, Life!CanRetain, Life!Retain, Life!Call, Life!flags, Life!caller, Life!stack
    <3>1. LifeTypes'
      BY DEF LifeTypes, Life!Made, RunnerPlaces, CallPlaces, OneSleeper
    <3>2. OneShare'
      BY DEF LifeTypes, Life!Made, RunnerPlaces, CallPlaces, OneShare, OneSleeper, Passing, Joining, Detaching
    <3>3. OneSleeper'
      BY DEF LifeTypes, Life!Made, RunnerPlaces, CallPlaces, OneShare, OneSleeper, Joining, Detaching
    <3>4. StacksApart'
      BY DEF LifeTypes, Life!Made, RunnerPlaces, StacksApart
    <3>5. Life!JoinerIsWoken'
      BY DEF LifeTypes, Life!Made, RunnerPlaces, OneSleeper, Life!JoinerIsWoken
    <3> QED BY <3>1, <3>2, <3>3, <3>4, <3>5
  <2>JoinCheck. ASSUME NEW c \in Callers, Life!JoinCheck(c)
    PROVE  LifeIInv'
    <3> USE <2>JoinCheck DEF Life!JoinCheck, Life!Release, Life!Call, Life!Step, Life!flags, Life!caller, Life!stack
    <3>1. LifeTypes'
      BY DEF LifeTypes, Life!Made, RunnerPlaces, CallPlaces, OneSleeper
    <3>2. OneShare'
      BY DEF LifeTypes, Life!Made, RunnerPlaces, CallPlaces, OneShare, OneSleeper, Passing, Joining, Detaching
    <3>3. OneSleeper'
      BY DEF LifeTypes, Life!Made, RunnerPlaces, CallPlaces, OneShare, OneSleeper, Joining, Detaching
    <3>4. StacksApart'
      BY DEF LifeTypes, Life!Made, RunnerPlaces, StacksApart
    <3>5. Life!JoinerIsWoken'
      BY DEF LifeTypes, Life!Made, RunnerPlaces, OneSleeper, Life!JoinerIsWoken
    <3> QED BY <3>1, <3>2, <3>3, <3>4, <3>5
  <2>JoinClaim. ASSUME NEW c \in Callers, Life!JoinClaim(c)
    PROVE  LifeIInv'
    <3> USE <2>JoinClaim DEF Life!JoinClaim, Life!CanRetain, Life!Retain, Life!Return, Life!Call, Life!Step,
                Life!JoinLoop, Life!flags, Life!caller, Life!stack
    <3>1. LifeTypes'
      BY DEF LifeTypes, Life!Made, RunnerPlaces, CallPlaces, OneSleeper
    <3>2. OneShare'
      BY DEF LifeTypes, Life!Made, RunnerPlaces, CallPlaces, OneShare, OneSleeper, Passing, Joining, Detaching
    <3>3. OneSleeper'
      BY DEF LifeTypes, Life!Made, RunnerPlaces, CallPlaces, OneShare, OneSleeper, Joining, Detaching
    <3>4. StacksApart'
      BY DEF LifeTypes, Life!Made, RunnerPlaces, StacksApart
    <3>5. Life!JoinerIsWoken'
      BY DEF LifeTypes, Life!Made, RunnerPlaces, OneSleeper, Life!JoinerIsWoken
    <3> QED BY <3>1, <3>2, <3>3, <3>4, <3>5
  <2>JoinAwake. ASSUME NEW c \in Callers, Life!JoinAwake(c)
    PROVE  LifeIInv'
    <3> USE <2>JoinAwake DEF Life!JoinAwake, Life!JoinLoop, Life!Call, Life!record, Life!flags, Life!caller,
                Life!stack
    <3>1. LifeTypes'
      BY DEF LifeTypes, Life!Made, RunnerPlaces, CallPlaces, OneSleeper
    <3>2. OneShare'
      BY DEF LifeTypes, Life!Made, RunnerPlaces, CallPlaces, OneShare, OneSleeper, Passing, Joining, Detaching
    <3>3. OneSleeper'
      BY DEF LifeTypes, Life!Made, RunnerPlaces, CallPlaces, OneShare, OneSleeper, Joining, Detaching
    <3>4. StacksApart'
      BY DEF LifeTypes, Life!Made, RunnerPlaces, StacksApart
    <3>5. Life!JoinerIsWoken'
      BY DEF LifeTypes, Life!Made, RunnerPlaces, OneSleeper, Life!JoinerIsWoken
    <3> QED BY <3>1, <3>2, <3>3, <3>4, <3>5
  <2>HostJoin. ASSUME NEW c \in Callers, Life!HostJoin(c)
    PROVE  LifeIInv'
    <3> USE <2>HostJoin DEF Life!HostJoin, Life!Collect, Life!Step, Life!record, Life!flags, Life!caller, Life!stack
    <3>1. LifeTypes'
      BY DEF LifeTypes, Life!Made, RunnerPlaces, CallPlaces, OneSleeper
    <3>2. OneShare'
      BY DEF LifeTypes, Life!Made, RunnerPlaces, CallPlaces, OneShare, OneSleeper, Passing, Joining, Detaching
    <3>3. OneSleeper'
      BY DEF LifeTypes, Life!Made, RunnerPlaces, CallPlaces, OneShare, OneSleeper, Joining, Detaching
    <3>4. StacksApart'
      BY DEF LifeTypes, Life!Made, RunnerPlaces, StacksApart
    <3>5. Life!JoinerIsWoken'
      BY DEF LifeTypes, Life!Made, RunnerPlaces, OneSleeper, Life!JoinerIsWoken
    <3> QED BY <3>1, <3>2, <3>3, <3>4, <3>5
  <2>RetainJoined. ASSUME NEW c \in Callers, Life!RetainJoined(c)
    PROVE  LifeIInv'
    <3> USE <2>RetainJoined DEF Life!RetainJoined, Life!Release, Life!Step, Life!flags, Life!caller, Life!stack
    <3>1. LifeTypes'
      BY DEF LifeTypes, Life!Made, RunnerPlaces, CallPlaces, OneSleeper, OneShare, Joining, Detaching
    <3>2. OneShare'
      BY DEF LifeTypes, Life!Made, RunnerPlaces, CallPlaces, OneShare, OneSleeper, Passing, Joining, Detaching
    <3>3. OneSleeper'
      BY DEF LifeTypes, Life!Made, RunnerPlaces, CallPlaces, OneShare, OneSleeper, Joining, Detaching
    <3>4. StacksApart'
      BY DEF LifeTypes, Life!Made, RunnerPlaces, StacksApart
    <3>5. Life!JoinerIsWoken'
      BY DEF LifeTypes, Life!Made, RunnerPlaces, OneSleeper, Life!JoinerIsWoken
    <3> QED BY <3>1, <3>2, <3>3, <3>4, <3>5
  <2>Retire. ASSUME NEW c \in Callers, Life!Retire(c)
    PROVE  LifeIInv'
    <3> USE <2>Retire DEF Life!Retire, Life!Step, Life!record, Life!flags, Life!caller, Life!stack
    <3>1. LifeTypes'
      BY DEF LifeTypes, Life!Made, RunnerPlaces, CallPlaces, OneSleeper
    <3>2. OneShare'
      BY DEF LifeTypes, Life!Made, RunnerPlaces, CallPlaces, OneShare, OneSleeper, Passing, Joining, Detaching
    <3>3. OneSleeper'
      BY DEF LifeTypes, Life!Made, RunnerPlaces, CallPlaces, OneShare, OneSleeper, Joining, Detaching
    <3>4. StacksApart'
      BY DEF LifeTypes, Life!Made, RunnerPlaces, StacksApart
    <3>5. Life!JoinerIsWoken'
      BY DEF LifeTypes, Life!Made, RunnerPlaces, OneSleeper, Life!JoinerIsWoken
    <3> QED BY <3>1, <3>2, <3>3, <3>4, <3>5
  <2>DetachRelease. ASSUME NEW c \in Callers, Life!DetachRelease(c)
    PROVE  LifeIInv'
    <3> USE <2>DetachRelease DEF Life!DetachRelease, Life!Release, Life!Step, Life!flags, Life!caller, Life!stack
    <3>1. LifeTypes'
      BY DEF LifeTypes, Life!Made, RunnerPlaces, CallPlaces, OneSleeper
    <3>2. OneShare'
      BY DEF LifeTypes, Life!Made, RunnerPlaces, CallPlaces, OneShare, OneSleeper, Passing, Joining, Detaching
    <3>3. OneSleeper'
      BY DEF LifeTypes, Life!Made, RunnerPlaces, CallPlaces, OneShare, OneSleeper, Joining, Detaching
    <3>4. StacksApart'
      BY DEF LifeTypes, Life!Made, RunnerPlaces, StacksApart
    <3>5. Life!JoinerIsWoken'
      BY DEF LifeTypes, Life!Made, RunnerPlaces, OneSleeper, Life!JoinerIsWoken
    <3> QED BY <3>1, <3>2, <3>3, <3>4, <3>5
  <2>Drop. ASSUME NEW c \in Callers, Life!Drop(c)
    PROVE  LifeIInv'
    <3> USE <2>Drop DEF Life!Drop, Life!Release, Life!Return, Life!Call, Life!flags, Life!caller, Life!stack
    <3>1. LifeTypes'
      BY DEF LifeTypes, Life!Made, RunnerPlaces, CallPlaces, OneSleeper
    <3>2. OneShare'
      BY DEF LifeTypes, Life!Made, RunnerPlaces, CallPlaces, OneShare, OneSleeper, Passing, Joining, Detaching
    <3>3. OneSleeper'
      BY DEF LifeTypes, Life!Made, RunnerPlaces, CallPlaces, OneShare, OneSleeper, Joining, Detaching
    <3>4. StacksApart'
      BY DEF LifeTypes, Life!Made, RunnerPlaces, StacksApart
    <3>5. Life!JoinerIsWoken'
      BY DEF LifeTypes, Life!Made, RunnerPlaces, OneSleeper, Life!JoinerIsWoken
    <3> QED BY <3>1, <3>2, <3>3, <3>4, <3>5
  <2>Finish. ASSUME NEW r \in Records, Life!Finish(r)
    PROVE  LifeIInv'
    <3> USE <2>Finish DEF Life!Finish, Life!RunnerStep, Life!JoinersOf, Life!flags, Life!caller, Life!stack
    <3>1. LifeTypes'
      BY DEF LifeTypes, Life!Made, RunnerPlaces, CallPlaces, OneSleeper
    <3>2. OneShare'
      BY DEF LifeTypes, Life!Made, RunnerPlaces, CallPlaces, OneShare, OneSleeper, Passing, Joining, Detaching
    <3>3. OneSleeper'
      BY DEF LifeTypes, Life!Made, RunnerPlaces, CallPlaces, OneShare, OneSleeper, Joining, Detaching
    <3>4. StacksApart'
      BY DEF LifeTypes, Life!Made, RunnerPlaces, StacksApart
    <3>5. Life!JoinerIsWoken'
      BY DEF LifeTypes, Life!Made, RunnerPlaces, OneSleeper, Life!JoinerIsWoken
    <3> QED BY <3>1, <3>2, <3>3, <3>4, <3>5
  <2>ReleaseSelf. ASSUME NEW r \in Records, Life!ReleaseSelf(r)
    PROVE  LifeIInv'
    <3> USE <2>ReleaseSelf DEF Life!ReleaseSelf, Life!RunnerStep, Life!Release, Life!caller, Life!flags, Life!stack
    <3>1. LifeTypes'
      BY DEF LifeTypes, Life!Made, RunnerPlaces, CallPlaces, OneSleeper
    <3>2. OneShare'
      BY DEF LifeTypes, Life!Made, RunnerPlaces, CallPlaces, OneShare, OneSleeper, Passing, Joining, Detaching
    <3>3. OneSleeper'
      BY DEF LifeTypes, Life!Made, RunnerPlaces, CallPlaces, OneShare, OneSleeper, Joining, Detaching
    <3>4. StacksApart'
      BY DEF LifeTypes, Life!Made, RunnerPlaces, StacksApart
    <3>5. Life!JoinerIsWoken'
      BY DEF LifeTypes, Life!Made, RunnerPlaces, OneSleeper, Life!JoinerIsWoken
    <3> QED BY <3>1, <3>2, <3>3, <3>4, <3>5
  <2>Leave. ASSUME NEW r \in Records, Life!Leave(r)
    PROVE  LifeIInv'
    <3> USE <2>Leave DEF Life!Leave, Life!RunnerStep, Life!caller, Life!flags, Life!stack
    <3>1. LifeTypes'
      BY DEF LifeTypes, Life!Made, RunnerPlaces, CallPlaces, OneSleeper
    <3>2. OneShare'
      BY DEF LifeTypes, Life!Made, RunnerPlaces, CallPlaces, OneShare, OneSleeper, Passing, Joining, Detaching
    <3>3. OneSleeper'
      BY DEF LifeTypes, Life!Made, RunnerPlaces, CallPlaces, OneShare, OneSleeper, Joining, Detaching
    <3>4. StacksApart'
      BY DEF LifeTypes, Life!Made, RunnerPlaces, StacksApart
    <3>5. Life!JoinerIsWoken'
      BY DEF LifeTypes, Life!Made, RunnerPlaces, OneSleeper, Life!JoinerIsWoken
    <3> QED BY <3>1, <3>2, <3>3, <3>4, <3>5
  <2>Delete. ASSUME NEW r \in Records, Life!Delete(r)
    PROVE  LifeIInv'
    <3> USE <2>Delete DEF Life!Delete, Life!caller, Life!flags, Life!stack
    <3>1. LifeTypes'
      BY DEF LifeTypes, Life!Made, RunnerPlaces, CallPlaces, OneSleeper
    <3>2. OneShare'
      BY DEF LifeTypes, Life!Made, RunnerPlaces, CallPlaces, OneShare, OneSleeper, Passing, Joining, Detaching
    <3>3. OneSleeper'
      BY DEF LifeTypes, Life!Made, RunnerPlaces, CallPlaces, OneShare, OneSleeper, Joining, Detaching
    <3>4. StacksApart'
      BY DEF LifeTypes, Life!Made, RunnerPlaces, StacksApart
    <3>5. Life!JoinerIsWoken'
      BY DEF LifeTypes, Life!Made, RunnerPlaces, OneSleeper, Life!JoinerIsWoken
    <3> QED BY <3>1, <3>2, <3>3, <3>4, <3>5
  <2> QED BY <2>Reap, <2>Recycle, <2>Disown, <2>Create, <2>JoinLook, <2>Detach, <2>JoinCheck, <2>JoinClaim,
             <2>JoinAwake, <2>HostJoin, <2>RetainJoined, <2>Retire, <2>DetachRelease, <2>Drop, <2>Finish,
             <2>ReleaseSelf, <2>Leave, <2>Delete DEF Life!Next
<1>3. LifeIInv /\ UNCHANGED lifeVars => LifeIInv'
  BY DEF lifeVars, LifeIInv, LifeTypes, OneShare, OneSleeper, StacksApart, Life!JoinerIsWoken, Life!Made, Passing,
     Joining, Detaching
<1>4. LifeIInv /\ [PartsNext]_<<part, vars, lifeVars, parkVars>> => LifeIInv'
  BY <1>2, <1>3 DEF PartsNext
<1> QED BY <1>1, <1>4, PTL DEF PartsSpec, PartsInit

\* The count of a record is the number of those who may still use it, in whatever
\* order its thread ends, is joined and detached and its storage is used again.  Each
\* step that takes or gives back a reference moves one caller into or out of the
\* holders, ends the thread's own share, or ends the creator's.
THEOREM ReferencesAreExact == PartsSpec => []RecordsAreCounted
<1> USE PartsAssumption
<1>1. Life!Init => Life!RecordsAreCounted
  BY DEF Life!Init, Life!RecordsAreCounted, Life!Made
<1>2. ASSUME LifeIInv, Life!RecordsAreCounted, Life!Next
      PROVE  Life!RecordsAreCounted'
  <2> USE <1>2 DEF LifeIInv
  <2> DEFINE H(r) == Life!Holders(r)
             S(r) == IF Life!CreatorsShare(r) THEN 1 ELSE 0
             O(r) == IF runner[r] \in {"run", "notify", "release"} THEN 1 ELSE 0
             Count(r) == references[r] = Cardinality(H(r)) + O(r) + S(r)
  <2>H. \A r \in Records, c \in Callers :
           /\ c \notin H(r) => Cardinality(H(r) \cup {c}) = Cardinality(H(r)) + 1
           /\ c \in H(r) => Cardinality(H(r) \ {c}) = Cardinality(H(r)) - 1
    <3> TAKE r \in Records, c \in Callers
    <3>1. IsFiniteSet(H(r))
      BY FS_Subset DEF Life!Holders
    <3> HIDE DEF H
    <3> QED BY <3>1, FS_CardinalityType, FS_AddElement, FS_RemoveElement
  <2>N. \A r \in Life!Made : r \in Records /\ references[r] \in Int /\ Cardinality(H(r)) \in Nat
    <3> TAKE r \in Life!Made
    <3>1. IsFiniteSet(H(r))
      BY FS_Subset DEF Life!Holders
    <3> HIDE DEF H
    <3> QED BY <3>1, FS_CardinalityType DEF LifeTypes, Life!Made
  <2>E. Cardinality({}) = 0
    BY FS_EmptySet
  <2>D. \A X : Life!Cardinality(X) = Cardinality(X)
    BY Zenon DEF Life!Cardinality, Cardinality
  <2>C. \A r \in Life!Made : O(r) \in Int /\ S(r) \in Int /\ Count(r)
    <3> TAKE r \in Life!Made
    <3>1. O(r) \in Int /\ S(r) \in Int
      OBVIOUS
    <3>2. Count(r)
      BY <2>D DEF Life!RecordsAreCounted
    <3> QED BY <3>1, <3>2
  <2>G. (\A r \in Life!Made' : Count(r)') => Life!RecordsAreCounted'
    BY <2>D DEF Life!RecordsAreCounted
  <2>Reap. ASSUME NEW c \in Callers, Life!Reap(c)
    PROVE  \A q \in Life!Made' : Count(q)'
    <3>1. \A q \in Life!Made : H(q)' = H(q)
      BY <2>Reap DEF Life!Reap, Life!Collect, Life!HostThreadGone, Life!Step, Life!flags, Life!caller, Life!record,
         Life!stack, LifeTypes, Life!Made, Life!Holders
    <3>2. \A q \in Life!Made : S(q)' = S(q)
      BY <2>Reap DEF Life!Reap, Life!Collect, Life!HostThreadGone, Life!Step, Life!flags, Life!caller, Life!record,
         Life!stack, LifeTypes, Life!Made, OneShare, OneSleeper, Passing, Joining, Detaching, Life!CreatorsShare
    <3>3. references' = references
      BY <2>Reap DEF Life!Reap, Life!Collect, Life!HostThreadGone, Life!Step, Life!flags, Life!caller, Life!record,
         Life!stack, LifeTypes, Life!Made, OneShare, Passing, Joining, Detaching
    <3>4. Life!Made' = Life!Made /\ \A q \in Life!Made : O(q)' = O(q)
      BY <2>Reap DEF Life!Reap, Life!Collect, Life!HostThreadGone, Life!Step, Life!flags, Life!caller, Life!record,
         Life!stack, LifeTypes, Life!Made
    <3> HIDE DEF H, S, O
    <3> QED BY <2>H, <2>N, <2>E, <2>C, <3>1, <3>2, <3>3, <3>4
  <2>Recycle. ASSUME NEW c \in Callers, Life!Recycle(c)
    PROVE  \A q \in Life!Made' : Count(q)'
    <3>1. \A q \in Life!Made : H(q)' = H(q)
      BY <2>Recycle DEF Life!Recycle, Life!Release, Life!Return, Life!Call, Life!Step, Life!flags, Life!caller,
         Life!record, Life!stack, LifeTypes, Life!Made, Life!Holders
    <3>2. \A q \in Life!Made : S(q)' = IF q = joinedThreads[handleStorage[arg[c]]] THEN S(q) - 1 ELSE S(q)
      BY <2>Recycle, <2>C DEF Life!Recycle, Life!Release, Life!Return, Life!Call, Life!Step, Life!flags, Life!caller,
         Life!record, Life!stack, LifeTypes, Life!Made, OneShare, OneSleeper, Passing, Joining, Detaching,
         Life!CreatorsShare
    <3>3. \A q \in Life!Made : references'[q] = IF q = joinedThreads[handleStorage[arg[c]]] THEN references[q] - 1 ELSE references[q]
      BY <2>Recycle DEF Life!Recycle, Life!Release, Life!Return, Life!Call, Life!Step, Life!flags, Life!caller,
         Life!record, Life!stack, LifeTypes, Life!Made, OneShare, Passing, Joining, Detaching
    <3>4. Life!Made' = Life!Made /\ \A q \in Life!Made : O(q)' = O(q)
      BY <2>Recycle DEF Life!Recycle, Life!Release, Life!Return, Life!Call, Life!Step, Life!flags, Life!caller,
         Life!record, Life!stack, LifeTypes, Life!Made
    <3> HIDE DEF H, S, O
    <3> QED BY <2>H, <2>N, <2>E, <2>C, <3>1, <3>2, <3>3, <3>4
  <2>Disown. ASSUME NEW c \in Callers, Life!Disown(c)
    PROVE  \A q \in Life!Made' : Count(q)'
    <3>1. \A q \in Life!Made : H(q)' = H(q)
      BY <2>Disown DEF Life!Disown, Life!Release, Life!Return, Life!Call, Life!flags, Life!caller, Life!record,
         Life!stack, LifeTypes, Life!Made, Life!Holders
    <3>2. \A q \in Life!Made : S(q)' = IF q = arg[c] THEN S(q) - 1 ELSE S(q)
      BY <2>Disown DEF Life!Disown, Life!Release, Life!Return, Life!Call, Life!flags, Life!caller, Life!record,
         Life!stack, LifeTypes, Life!Made, OneShare, OneSleeper, Passing, Joining, Detaching, Life!CreatorsShare
    <3>3. \A q \in Life!Made : references'[q] = IF q = arg[c] THEN references[q] - 1 ELSE references[q]
      BY <2>Disown DEF Life!Disown, Life!Release, Life!Return, Life!Call, Life!flags, Life!caller, Life!record,
         Life!stack, LifeTypes, Life!Made, OneShare, Passing, Joining, Detaching
    <3>4. Life!Made' = Life!Made /\ \A q \in Life!Made : O(q)' = O(q)
      BY <2>Disown DEF Life!Disown, Life!Release, Life!Return, Life!Call, Life!flags, Life!caller, Life!record,
         Life!stack, LifeTypes, Life!Made
    <3> HIDE DEF H, S, O
    <3> QED BY <2>H, <2>N, <2>E, <2>C, <3>1, <3>2, <3>3, <3>4
  <2>Create. ASSUME NEW c \in Callers, NEW r \in Records, NEW s \in Storages, NEW k \in Stacks,
      NEW detach \in BOOLEAN, Life!Create(c, r, s, k, detach)
    PROVE  \A q \in Life!Made' : Count(q)'
    <3>1. H(r)' = {} /\ \A q \in Life!Made : H(q)' = H(q)
      BY <2>Create DEF Life!Create, Life!Call, Life!InUse, Life!flags, Life!caller, Life!record, Life!stack,
         LifeTypes, Life!Made, Life!Holders
    <3>2. S(r)' = 1
      <4>1. CASE detach
        BY <2>Create, <4>1 DEF Life!Create, Life!Call, Life!InUse, Life!flags, Life!caller, Life!record, Life!stack,
           LifeTypes, Life!CreatorsShare
      <4>2. CASE ~detach
        BY <2>Create, <4>2 DEF Life!Create, Life!Call, Life!InUse, Life!flags, Life!caller, Life!record, Life!stack,
           LifeTypes, Life!Made, Life!CreatorsShare
      <4> QED BY <4>1, <4>2
    <3>3. \A q \in Life!Made : S(q)' = S(q)
      <4> SUFFICES ASSUME NEW q \in Life!Made PROVE Life!CreatorsShare(q)' <=> Life!CreatorsShare(q)
        OBVIOUS
      <4>1. q # r
        BY <2>Create DEF Life!Create, Life!Made
      <4> QED BY <2>Create, <4>1 DEF Life!Create, Life!Call, Life!InUse, Life!flags, Life!caller, Life!record,
                 Life!stack, LifeTypes, Life!Made, Life!CreatorsShare
    <3>4. references'[r] = 2 /\ \A q \in Life!Made : references'[q] = references[q]
      BY <2>Create DEF Life!Create, Life!Call, Life!InUse, Life!flags, Life!caller, Life!record, Life!stack,
         LifeTypes, Life!Made
    <3>5. Life!Made' = Life!Made \cup {r} /\ O(r)' = 1 /\ \A q \in Life!Made : O(q)' = O(q)
      BY <2>Create DEF Life!Create, Life!Call, Life!InUse, Life!flags, Life!caller, Life!record, Life!stack,
         LifeTypes, Life!Made
    <3> HIDE DEF H, S, O
    <3>6. Count(r)'
      BY <2>E, <3>1, <3>2, <3>4, <3>5
    <3>7. \A q \in Life!Made : Count(q)'
      BY <2>N, <2>C, <3>1, <3>3, <3>4, <3>5
    <3> QED BY <3>5, <3>6, <3>7
  <2>JoinLook. ASSUME NEW c \in Callers, NEW r \in Records, Life!JoinLook(c, r)
    PROVE  \A q \in Life!Made' : Count(q)'
    <3>1. c \notin H(r) /\ \A q \in Life!Made : H(q)' = IF q = r THEN H(q) \cup {c} ELSE H(q)
      BY <2>JoinLook DEF Life!JoinLook, Life!CanRetain, Life!Retain, Life!Call, Life!flags, Life!caller, Life!record,
         Life!stack, LifeTypes, Life!Made, Life!Holders
    <3>2. \A q \in Life!Made : S(q)' = S(q)
      BY <2>JoinLook DEF Life!JoinLook, Life!CanRetain, Life!Retain, Life!Call, Life!flags, Life!caller, Life!record,
         Life!stack, LifeTypes, Life!Made, OneShare, OneSleeper, Passing, Joining, Detaching, Life!CreatorsShare
    <3>3. \A q \in Life!Made : references'[q] = IF q = r THEN references[q] + 1 ELSE references[q]
      BY <2>JoinLook DEF Life!JoinLook, Life!CanRetain, Life!Retain, Life!Call, Life!flags, Life!caller, Life!record,
         Life!stack, LifeTypes, Life!Made, OneShare, Passing, Joining, Detaching
    <3>4. Life!Made' = Life!Made /\ \A q \in Life!Made : O(q)' = O(q)
      BY <2>JoinLook DEF Life!JoinLook, Life!CanRetain, Life!Retain, Life!Call, Life!flags, Life!caller, Life!record,
         Life!stack, LifeTypes, Life!Made
    <3> HIDE DEF H, S, O
    <3> QED BY <2>H, <2>N, <2>E, <2>C, <3>1, <3>2, <3>3, <3>4
  <2>Detach. ASSUME NEW c \in Callers, NEW r \in Records, Life!Detach(c, r)
    PROVE  \A q \in Life!Made' : Count(q)'
    <3>1. c \notin H(r) /\ \A q \in Life!Made : H(q)' = IF q = r THEN H(q) \cup {c} ELSE H(q)
      BY <2>Detach DEF Life!Detach, Life!CanRetain, Life!Retain, Life!Call, Life!flags, Life!caller, Life!record,
         Life!stack, LifeTypes, Life!Made, Life!Holders
    <3>2. \A q \in Life!Made : S(q)' = S(q)
      BY <2>Detach DEF Life!Detach, Life!CanRetain, Life!Retain, Life!Call, Life!flags, Life!caller, Life!record,
         Life!stack, LifeTypes, Life!Made, OneShare, OneSleeper, Passing, Joining, Detaching, Life!CreatorsShare
    <3>3. \A q \in Life!Made : references'[q] = IF q = r THEN references[q] + 1 ELSE references[q]
      BY <2>Detach DEF Life!Detach, Life!CanRetain, Life!Retain, Life!Call, Life!flags, Life!caller, Life!record,
         Life!stack, LifeTypes, Life!Made, OneShare, Passing, Joining, Detaching
    <3>4. Life!Made' = Life!Made /\ \A q \in Life!Made : O(q)' = O(q)
      BY <2>Detach DEF Life!Detach, Life!CanRetain, Life!Retain, Life!Call, Life!flags, Life!caller, Life!record,
         Life!stack, LifeTypes, Life!Made
    <3> HIDE DEF H, S, O
    <3> QED BY <2>H, <2>N, <2>E, <2>C, <3>1, <3>2, <3>3, <3>4
  <2>JoinCheck. ASSUME NEW c \in Callers, Life!JoinCheck(c)
    PROVE  \A q \in Life!Made' : Count(q)'
    <3>1. c \in H(arg[c]) /\ \A q \in Life!Made : H(q)' = IF q = arg[c] THEN H(q) \ {c} ELSE H(q)
      BY <2>JoinCheck DEF Life!JoinCheck, Life!Release, Life!Call, Life!Step, Life!flags, Life!caller, Life!record,
         Life!stack, LifeTypes, Life!Made, Life!Holders
    <3>2. \A q \in Life!Made : S(q)' = S(q)
      BY <2>JoinCheck DEF Life!JoinCheck, Life!Release, Life!Call, Life!Step, Life!flags, Life!caller, Life!record,
         Life!stack, LifeTypes, Life!Made, OneShare, OneSleeper, Passing, Joining, Detaching, Life!CreatorsShare
    <3>3. \A q \in Life!Made : references'[q] = IF q = arg[c] THEN references[q] - 1 ELSE references[q]
      BY <2>JoinCheck DEF Life!JoinCheck, Life!Release, Life!Call, Life!Step, Life!flags, Life!caller, Life!record,
         Life!stack, LifeTypes, Life!Made, OneShare, Passing, Joining, Detaching
    <3>4. Life!Made' = Life!Made /\ \A q \in Life!Made : O(q)' = O(q)
      BY <2>JoinCheck DEF Life!JoinCheck, Life!Release, Life!Call, Life!Step, Life!flags, Life!caller, Life!record,
         Life!stack, LifeTypes, Life!Made
    <3> HIDE DEF H, S, O
    <3> QED BY <2>H, <2>N, <2>E, <2>C, <3>1, <3>2, <3>3, <3>4
  <2>JoinClaim. ASSUME NEW c \in Callers, Life!JoinClaim(c)
    PROVE  \A q \in Life!Made' : Count(q)'
    <3>1. CASE ~Life!CanRetain(arg[c])
      <4>1. \A q \in Life!Made : H(q)' = H(q)
        BY <3>1, <2>JoinClaim DEF Life!JoinClaim, Life!CanRetain, Life!Retain, Life!Return, Life!Call, Life!Step,
           Life!JoinLoop, Life!flags, Life!caller, Life!record, Life!stack, LifeTypes, Life!Made, Life!Holders
      <4>2. references' = references
        BY <3>1, <2>JoinClaim DEF Life!JoinClaim, Life!CanRetain, Life!Retain, Life!Return, Life!Call, Life!Step,
           Life!JoinLoop, Life!flags, Life!caller, Life!record, Life!stack
      <4>3. \A q \in Life!Made : S(q)' = S(q)
        BY <3>1, <2>JoinClaim DEF Life!JoinClaim, Life!CanRetain, Life!Retain, Life!Return, Life!Call, Life!Step,
           Life!JoinLoop, Life!flags, Life!caller, Life!record, Life!stack, LifeTypes, Life!Made, OneShare,
           OneSleeper, Passing, Joining, Detaching, Life!CreatorsShare
      <4>4. Life!Made' = Life!Made /\ \A q \in Life!Made : O(q)' = O(q)
        BY <2>JoinClaim DEF Life!JoinClaim, Life!Made
      <4> HIDE DEF H, S, O
      <4> QED BY <2>H, <2>N, <2>C, <4>1, <4>2, <4>3, <4>4
    <3>2. CASE Life!CanRetain(arg[c])
      <4>1. c \notin H(arg[c]) /\ \A q \in Life!Made : H(q)' = IF q = arg[c] THEN H(q) \cup {c} ELSE H(q)
        BY <3>2, <2>JoinClaim DEF Life!JoinClaim, Life!CanRetain, Life!Retain, Life!Return, Life!Call, Life!Step,
           Life!JoinLoop, Life!flags, Life!caller, Life!record, Life!stack, LifeTypes, Life!Made, Life!Holders
      <4>2. \A q \in Life!Made : references'[q] = IF q = arg[c] THEN references[q] + 1 ELSE references[q]
        BY <3>2, <2>JoinClaim DEF Life!JoinClaim, Life!CanRetain, Life!Retain, Life!Return, Life!Call, Life!Step,
           Life!JoinLoop, Life!flags, Life!caller, Life!record, Life!stack, LifeTypes, Life!Made
      <4>3. \A q \in Life!Made : S(q)' = S(q)
        BY <3>2, <2>JoinClaim DEF Life!JoinClaim, Life!CanRetain, Life!Retain, Life!Return, Life!Call, Life!Step,
           Life!JoinLoop, Life!flags, Life!caller, Life!record, Life!stack, LifeTypes, Life!Made, OneShare,
           OneSleeper, Passing, Joining, Detaching, Life!CreatorsShare
      <4>4. Life!Made' = Life!Made /\ \A q \in Life!Made : O(q)' = O(q)
        BY <2>JoinClaim DEF Life!JoinClaim, Life!Made
      <4> HIDE DEF H, S, O
      <4> QED BY <2>H, <2>N, <2>C, <4>1, <4>2, <4>3, <4>4
    <3> QED BY <3>1, <3>2
  <2>JoinAwake. ASSUME NEW c \in Callers, Life!JoinAwake(c)
    PROVE  \A q \in Life!Made' : Count(q)'
    <3>1. \A q \in Life!Made : H(q)' = H(q)
      BY <2>JoinAwake DEF Life!JoinAwake, Life!JoinLoop, Life!Call, Life!record, Life!flags, Life!caller, Life!stack,
         LifeTypes, Life!Made, Life!Holders
    <3>2. \A q \in Life!Made : S(q)' = S(q)
      BY <2>JoinAwake DEF Life!JoinAwake, Life!JoinLoop, Life!Call, Life!record, Life!flags, Life!caller, Life!stack,
         LifeTypes, Life!Made, OneShare, OneSleeper, Passing, Joining, Detaching, Life!CreatorsShare
    <3>3. references' = references
      BY <2>JoinAwake DEF Life!JoinAwake, Life!JoinLoop, Life!Call, Life!record, Life!flags, Life!caller, Life!stack,
         LifeTypes, Life!Made, OneShare, Passing, Joining, Detaching
    <3>4. Life!Made' = Life!Made /\ \A q \in Life!Made : O(q)' = O(q)
      BY <2>JoinAwake DEF Life!JoinAwake, Life!JoinLoop, Life!Call, Life!record, Life!flags, Life!caller, Life!stack,
         LifeTypes, Life!Made
    <3> HIDE DEF H, S, O
    <3> QED BY <2>H, <2>N, <2>E, <2>C, <3>1, <3>2, <3>3, <3>4
  <2>HostJoin. ASSUME NEW c \in Callers, Life!HostJoin(c)
    PROVE  \A q \in Life!Made' : Count(q)'
    <3>1. \A q \in Life!Made : H(q)' = H(q)
      BY <2>HostJoin DEF Life!HostJoin, Life!Collect, Life!Step, Life!record, Life!flags, Life!caller, Life!stack,
         LifeTypes, Life!Made, Life!Holders
    <3>2. \A q \in Life!Made : S(q)' = S(q)
      BY <2>HostJoin DEF Life!HostJoin, Life!Collect, Life!Step, Life!record, Life!flags, Life!caller, Life!stack,
         LifeTypes, Life!Made, OneShare, OneSleeper, Passing, Joining, Detaching, Life!CreatorsShare
    <3>3. references' = references
      BY <2>HostJoin DEF Life!HostJoin, Life!Collect, Life!Step, Life!record, Life!flags, Life!caller, Life!stack,
         LifeTypes, Life!Made, OneShare, Passing, Joining, Detaching
    <3>4. Life!Made' = Life!Made /\ \A q \in Life!Made : O(q)' = O(q)
      BY <2>HostJoin DEF Life!HostJoin, Life!Collect, Life!Step, Life!record, Life!flags, Life!caller, Life!stack,
         LifeTypes, Life!Made
    <3> HIDE DEF H, S, O
    <3> QED BY <2>H, <2>N, <2>E, <2>C, <3>1, <3>2, <3>3, <3>4
  <2>RetainJoined. ASSUME NEW c \in Callers, Life!RetainJoined(c)
    PROVE  \A q \in Life!Made' : Count(q)'
    <3>1. \A q \in Life!Made : H(q)' = H(q)
      BY <2>RetainJoined DEF Life!RetainJoined, Life!Release, Life!Step, Life!flags, Life!caller, Life!record,
         Life!stack, LifeTypes, Life!Made, Life!Holders
    <3>2. \A q \in Life!Made : S(q)' = IF q = joinedThreads[handleStorage[arg[c]]] THEN S(q) - 1 ELSE S(q)
      BY <2>RetainJoined DEF Life!RetainJoined, Life!Release, Life!Step, Life!flags, Life!caller, Life!record,
         Life!stack, LifeTypes, Life!Made, OneShare, OneSleeper, Passing, Joining, Detaching, Life!CreatorsShare
    <3>3. \A q \in Life!Made : references'[q] = IF q = joinedThreads[handleStorage[arg[c]]] THEN references[q] - 1 ELSE references[q]
      BY <2>RetainJoined DEF Life!RetainJoined, Life!Release, Life!Step, Life!flags, Life!caller, Life!record,
         Life!stack, LifeTypes, Life!Made, OneShare, Passing, Joining, Detaching
    <3>4. Life!Made' = Life!Made /\ \A q \in Life!Made : O(q)' = O(q)
      BY <2>RetainJoined DEF Life!RetainJoined, Life!Release, Life!Step, Life!flags, Life!caller, Life!record,
         Life!stack, LifeTypes, Life!Made
    <3> HIDE DEF H, S, O
    <3> QED BY <2>H, <2>N, <2>E, <2>C, <3>1, <3>2, <3>3, <3>4
  <2>Retire. ASSUME NEW c \in Callers, Life!Retire(c)
    PROVE  \A q \in Life!Made' : Count(q)'
    <3>1. \A q \in Life!Made : H(q)' = H(q)
      BY <2>Retire DEF Life!Retire, Life!Step, Life!record, Life!flags, Life!caller, Life!stack, LifeTypes,
         Life!Made, Life!Holders
    <3>2. \A q \in Life!Made : S(q)' = S(q)
      BY <2>Retire DEF Life!Retire, Life!Step, Life!record, Life!flags, Life!caller, Life!stack, LifeTypes,
         Life!Made, OneShare, OneSleeper, Passing, Joining, Detaching, Life!CreatorsShare
    <3>3. references' = references
      BY <2>Retire DEF Life!Retire, Life!Step, Life!record, Life!flags, Life!caller, Life!stack, LifeTypes,
         Life!Made, OneShare, Passing, Joining, Detaching
    <3>4. Life!Made' = Life!Made /\ \A q \in Life!Made : O(q)' = O(q)
      BY <2>Retire DEF Life!Retire, Life!Step, Life!record, Life!flags, Life!caller, Life!stack, LifeTypes, Life!Made
    <3> HIDE DEF H, S, O
    <3> QED BY <2>H, <2>N, <2>E, <2>C, <3>1, <3>2, <3>3, <3>4
  <2>DetachRelease. ASSUME NEW c \in Callers, Life!DetachRelease(c)
    PROVE  \A q \in Life!Made' : Count(q)'
    <3>1. \A q \in Life!Made : H(q)' = H(q)
      BY <2>DetachRelease DEF Life!DetachRelease, Life!Release, Life!Step, Life!flags, Life!caller, Life!record,
         Life!stack, LifeTypes, Life!Made, Life!Holders
    <3>2. \A q \in Life!Made : S(q)' = IF q = arg[c] THEN S(q) - 1 ELSE S(q)
      BY <2>DetachRelease DEF Life!DetachRelease, Life!Release, Life!Step, Life!flags, Life!caller, Life!record,
         Life!stack, LifeTypes, Life!Made, OneShare, OneSleeper, Passing, Joining, Detaching, Life!CreatorsShare
    <3>3. \A q \in Life!Made : references'[q] = IF q = arg[c] THEN references[q] - 1 ELSE references[q]
      BY <2>DetachRelease DEF Life!DetachRelease, Life!Release, Life!Step, Life!flags, Life!caller, Life!record,
         Life!stack, LifeTypes, Life!Made, OneShare, Passing, Joining, Detaching
    <3>4. Life!Made' = Life!Made /\ \A q \in Life!Made : O(q)' = O(q)
      BY <2>DetachRelease DEF Life!DetachRelease, Life!Release, Life!Step, Life!flags, Life!caller, Life!record,
         Life!stack, LifeTypes, Life!Made
    <3> HIDE DEF H, S, O
    <3> QED BY <2>H, <2>N, <2>E, <2>C, <3>1, <3>2, <3>3, <3>4
  <2>Drop. ASSUME NEW c \in Callers, Life!Drop(c)
    PROVE  \A q \in Life!Made' : Count(q)'
    <3>1. c \in H(arg[c]) /\ \A q \in Life!Made : H(q)' = IF q = arg[c] THEN H(q) \ {c} ELSE H(q)
      BY <2>Drop DEF Life!Drop, Life!Release, Life!Return, Life!Call, Life!flags, Life!caller, Life!record,
         Life!stack, LifeTypes, Life!Made, Life!Holders
    <3>2. \A q \in Life!Made : S(q)' = S(q)
      BY <2>Drop DEF Life!Drop, Life!Release, Life!Return, Life!Call, Life!flags, Life!caller, Life!record,
         Life!stack, LifeTypes, Life!Made, OneShare, OneSleeper, Passing, Joining, Detaching, Life!CreatorsShare
    <3>3. \A q \in Life!Made : references'[q] = IF q = arg[c] THEN references[q] - 1 ELSE references[q]
      BY <2>Drop DEF Life!Drop, Life!Release, Life!Return, Life!Call, Life!flags, Life!caller, Life!record,
         Life!stack, LifeTypes, Life!Made, OneShare, Passing, Joining, Detaching
    <3>4. Life!Made' = Life!Made /\ \A q \in Life!Made : O(q)' = O(q)
      BY <2>Drop DEF Life!Drop, Life!Release, Life!Return, Life!Call, Life!flags, Life!caller, Life!record,
         Life!stack, LifeTypes, Life!Made
    <3> HIDE DEF H, S, O
    <3> QED BY <2>H, <2>N, <2>E, <2>C, <3>1, <3>2, <3>3, <3>4
  <2>Finish. ASSUME NEW r \in Records, Life!Finish(r)
    PROVE  \A q \in Life!Made' : Count(q)'
    <3>1. \A q \in Life!Made : H(q)' = H(q)
      BY <2>Finish DEF Life!Finish, Life!RunnerStep, Life!JoinersOf, Life!flags, Life!caller, Life!record,
         Life!stack, LifeTypes, Life!Made, Life!Holders
    <3>2. \A q \in Life!Made : S(q)' = S(q)
      BY <2>Finish DEF Life!Finish, Life!RunnerStep, Life!JoinersOf, Life!flags, Life!caller, Life!record,
         Life!stack, LifeTypes, Life!Made, OneShare, OneSleeper, Passing, Joining, Detaching, Life!CreatorsShare
    <3>3. references' = references
      BY <2>Finish DEF Life!Finish, Life!RunnerStep, Life!JoinersOf, Life!flags, Life!caller, Life!record,
         Life!stack, LifeTypes, Life!Made, OneShare, Passing, Joining, Detaching
    <3>4. Life!Made' = Life!Made /\ \A q \in Life!Made : O(q)' = O(q)
      BY <2>Finish DEF Life!Finish, Life!RunnerStep, Life!JoinersOf, Life!flags, Life!caller, Life!record,
         Life!stack, LifeTypes, Life!Made
    <3> HIDE DEF H, S, O
    <3> QED BY <2>H, <2>N, <2>E, <2>C, <3>1, <3>2, <3>3, <3>4
  <2>ReleaseSelf. ASSUME NEW r \in Records, Life!ReleaseSelf(r)
    PROVE  \A q \in Life!Made' : Count(q)'
    <3>1. \A q \in Life!Made : H(q)' = H(q)
      BY <2>ReleaseSelf DEF Life!ReleaseSelf, Life!RunnerStep, Life!Release, Life!caller, Life!flags, Life!record,
         Life!stack, LifeTypes, Life!Made, Life!Holders
    <3>2. \A q \in Life!Made : S(q)' = S(q)
      BY <2>ReleaseSelf DEF Life!ReleaseSelf, Life!RunnerStep, Life!Release, Life!caller, Life!flags, Life!record,
         Life!stack, LifeTypes, Life!Made, OneShare, OneSleeper, Passing, Joining, Detaching, Life!CreatorsShare
    <3>3. \A q \in Life!Made : references'[q] = IF q = r THEN references[q] - 1 ELSE references[q]
      BY <2>ReleaseSelf DEF Life!ReleaseSelf, Life!RunnerStep, Life!Release, Life!caller, Life!flags, Life!record,
         Life!stack, LifeTypes, Life!Made, OneShare, Passing, Joining, Detaching
    <3>4. Life!Made' = Life!Made /\ \A q \in Life!Made : O(q)' = IF q = r THEN O(q) - 1 ELSE O(q)
      BY <2>ReleaseSelf DEF Life!ReleaseSelf, Life!RunnerStep, Life!Release, Life!caller, Life!flags, Life!record,
         Life!stack, LifeTypes, Life!Made
    <3> HIDE DEF H, S, O
    <3> QED BY <2>H, <2>N, <2>E, <2>C, <3>1, <3>2, <3>3, <3>4
  <2>Leave. ASSUME NEW r \in Records, Life!Leave(r)
    PROVE  \A q \in Life!Made' : Count(q)'
    <3>1. \A q \in Life!Made : H(q)' = H(q)
      BY <2>Leave DEF Life!Leave, Life!RunnerStep, Life!caller, Life!flags, Life!record, Life!stack, LifeTypes,
         Life!Made, Life!Holders
    <3>2. \A q \in Life!Made : S(q)' = S(q)
      BY <2>Leave DEF Life!Leave, Life!RunnerStep, Life!caller, Life!flags, Life!record, Life!stack, LifeTypes,
         Life!Made, OneShare, OneSleeper, Passing, Joining, Detaching, Life!CreatorsShare
    <3>3. references' = references
      BY <2>Leave DEF Life!Leave, Life!RunnerStep, Life!caller, Life!flags, Life!record, Life!stack, LifeTypes,
         Life!Made, OneShare, Passing, Joining, Detaching
    <3>4. Life!Made' = Life!Made /\ \A q \in Life!Made : O(q)' = O(q)
      BY <2>Leave DEF Life!Leave, Life!RunnerStep, Life!caller, Life!flags, Life!record, Life!stack, LifeTypes,
         Life!Made
    <3> HIDE DEF H, S, O
    <3> QED BY <2>H, <2>N, <2>E, <2>C, <3>1, <3>2, <3>3, <3>4
  <2>Delete. ASSUME NEW r \in Records, Life!Delete(r)
    PROVE  \A q \in Life!Made' : Count(q)'
    <3>1. \A q \in Life!Made : H(q)' = H(q)
      BY <2>Delete DEF Life!Delete, Life!caller, Life!flags, Life!record, Life!stack, LifeTypes, Life!Made,
         Life!Holders
    <3>2. \A q \in Life!Made : S(q)' = S(q)
      BY <2>Delete DEF Life!Delete, Life!caller, Life!flags, Life!record, Life!stack, LifeTypes, Life!Made, OneShare,
         OneSleeper, Passing, Joining, Detaching, Life!CreatorsShare
    <3>3. references' = references
      BY <2>Delete DEF Life!Delete, Life!caller, Life!flags, Life!record, Life!stack, LifeTypes, Life!Made, OneShare,
         Passing, Joining, Detaching
    <3>4. Life!Made' = Life!Made /\ \A q \in Life!Made : O(q)' = O(q)
      BY <2>Delete DEF Life!Delete, Life!caller, Life!flags, Life!record, Life!stack, LifeTypes, Life!Made
    <3> HIDE DEF H, S, O
    <3> QED BY <2>H, <2>N, <2>E, <2>C, <3>1, <3>2, <3>3, <3>4
  <2> QED BY <2>G, <2>Reap, <2>Recycle, <2>Disown, <2>Create, <2>JoinLook, <2>Detach, <2>JoinCheck, <2>JoinClaim,
             <2>JoinAwake, <2>HostJoin, <2>RetainJoined, <2>Retire, <2>DetachRelease, <2>Drop, <2>Finish,
             <2>ReleaseSelf, <2>Leave, <2>Delete DEF Life!Next
<1>3. Life!RecordsAreCounted /\ UNCHANGED lifeVars => Life!RecordsAreCounted'
  BY DEF lifeVars, Life!RecordsAreCounted, Life!Made, Life!Holders, Life!CreatorsShare
<1>4. LifeIInv /\ Life!RecordsAreCounted /\ [PartsNext]_<<part, vars, lifeVars, parkVars>> => Life!RecordsAreCounted'
  BY <1>2, <1>3 DEF PartsNext
<1> QED BY <1>1, <1>4, LifeInvariance, PTL DEF PartsSpec, PartsInit, RecordsAreCounted

\* A joiner never sleeps on when its thread has finished and notified.
THEOREM JoinersAreWoken == PartsSpec => []JoinerIsWoken
BY LifeInvariance, PTL DEF LifeIInv, JoinerIsWoken

\* A thread that has not left its stack is the only one on it, and the stack is neither
\* spare nor given back to the system.
THEOREM StacksBelongToOne == PartsSpec => []StacksAreNotShared
<1>1. LifeIInv => Life!StacksAreNotShared
  BY DEF LifeIInv, StacksApart, Life!StacksAreNotShared
<1> QED BY <1>1, LifeInvariance, PTL DEF StacksAreNotShared

-----------------------------------------------------------------------------
(* The parking lot.                                                        *)

ParkPlaces == {"none", "counted", "queued", "asleep", "leave", "retry", "last", "cancel", "unpark", "wake"}

ParkTypes ==
    /\ holder \in [Mutexes -> Park!Calls \cup {None}]
    /\ parkPc \in [Park!Calls -> ParkPlaces]
    /\ key \in [Park!Calls -> Mutexes \cup {None}]
    /\ timed \in [Park!Calls -> BOOLEAN]
    /\ \A c \in Park!Calls : key[c] = None <=> parkPc[c] = "none"
    /\ signaled \subseteq Park!Calls

\* A waiter is in the list once; who is in it or was taken from it by a wake is
\* between its entry and its leave, and is not both.
Linked == {"queued", "cancel", "asleep", "leave"}
ListedOnce ==
    /\ bucket \in Seq(Park!Calls)
    /\ \A i, j \in 1..Len(bucket) : bucket[i] = bucket[j] => i = j
    /\ \A c \in Park!Calls : Park!Queued(c) => parkPc[c] \in Linked /\ c \notin signaled
    /\ \A c \in signaled : parkPc[c] \in Linked

\* The counter that an unlock reads without the lock: those that have begun to
\* park and have not left.
Counted == {c \in Park!Calls : parkPc[c] \in Linked \cup {"counted"}}

\* Who found the mutex free at its second look has it when it leaves.
CancelHolds == \A c \in Park!Calls : parkPc[c] = "cancel" => holder[key[c]] = c

ParkIInv == ParkTypes /\ ListedOnce /\ parked = Cardinality(Counted) /\ CancelHolds /\ Park!WakeIsOnItsWay

\* Every set of numbers that is not empty has a least one, so that Min is one of them.
LEMMA LeastIsIn ==
    ASSUME NEW S \in SUBSET Nat, S # {}
    PROVE  Park!Min(S) \in S
<1> DEFINE R == OpToRel(<, Nat)
<1>1. IsWellFoundedOn(R, Nat)
  BY NatLessThanWellFounded
<1>2. \A x, y \in Nat : <<x, y>> \in R <=> x < y
  BY DEF OpToRel
<1> HIDE DEF R
<1>3. PICK x \in S : \A y \in S : ~(<<y, x>> \in R)
  BY <1>1, WFMin
<1>4. \A y \in S : x <= y
  <2> TAKE y \in S
  <2>1. y \in Nat /\ x \in Nat
    OBVIOUS
  <2>2. ~(y < x)
    BY <1>2, <1>3, <2>1, Zenon
  <2> QED BY <2>1, <2>2
<1> QED BY <1>4 DEF Park!Min

\* A list without repetitions from which one place is taken.
LEMMA Unlinking ==
    ASSUME NEW S, NEW q \in Seq(S), NEW i \in 1..Len(q),
           \A j, k \in 1..Len(q) : q[j] = q[k] => j = k
    PROVE  LET r == Park!RemoveAt(q, i)
           IN  /\ r \in Seq(S)
               /\ \A j, k \in 1..Len(r) : r[j] = r[k] => j = k
               /\ \A x : (\E j \in 1..Len(r) : r[j] = x) <=> x # q[i] /\ \E j \in 1..Len(q) : q[j] = x
<1> DEFINE a == SubSeq(q, 1, i - 1)
           b == SubSeq(q, i + 1, Len(q))
           r == a \o b
<1>0. Len(q) \in Nat
  BY LenProperties
<1>1. /\ a \in Seq(S) /\ Len(a) = i - 1
      /\ \A j \in 1..(i - 1) : a[j] = q[j]
  BY <1>0, SubSeqProperties
<1>2. /\ b \in Seq(S) /\ Len(b) = Len(q) - i
      /\ \A j \in 1..(Len(q) - i) : b[j] = q[i + j]
  BY <1>0, SubSeqProperties
<1> HIDE DEF a, b
<1>3. /\ a \o b \in Seq(S) /\ Len(a \o b) = Len(a) + Len(b)
      /\ \A j \in 1..(Len(a) + Len(b)) : (a \o b)[j] = IF j <= Len(a) THEN a[j] ELSE b[j - Len(a)]
  <2>1. a \in Seq(S) /\ b \in Seq(S)
    BY <1>1, <1>2
  <2> QED BY <2>1, ConcatProperties
<1>4. /\ r \in Seq(S) /\ Len(r) = Len(a) + Len(b)
      /\ \A j \in 1..(Len(a) + Len(b)) : r[j] = IF j <= Len(a) THEN a[j] ELSE b[j - Len(a)]
  BY <1>3
<1> HIDE DEF r
<1>5. Len(r) = Len(q) - 1
  BY <1>0, <1>1, <1>2, <1>4
<1>6. \A j \in 1..Len(r) : r[j] = IF j < i THEN q[j] ELSE q[j + 1]
  <2> TAKE j \in 1..Len(r)
  <2>1. CASE j < i
    BY <2>1, <1>0, <1>1, <1>4, <1>5
  <2>2. CASE ~(j < i)
    <3>1. j - Len(a) \in 1..(Len(q) - i) /\ i + (j - Len(a)) = j + 1 /\ ~(j <= Len(a))
      BY <2>2, <1>0, <1>1, <1>5
    <3> QED BY <2>2, <3>1, <1>2, <1>4, <1>5, <1>0, <1>1
  <2> QED BY <2>1, <2>2
<1>7. \A x : (\E j \in 1..Len(r) : r[j] = x) <=> x # q[i] /\ \E j \in 1..Len(q) : q[j] = x
  <2> TAKE x
  <2>1. ASSUME NEW j \in 1..Len(r), r[j] = x
        PROVE  x # q[i] /\ \E k \in 1..Len(q) : q[k] = x
    <3>1. PICK k \in 1..Len(q) : k # i /\ r[j] = q[k]
      BY <1>0, <1>5, <1>6
    <3> QED BY <2>1, <3>1
  <2>2. ASSUME NEW k \in 1..Len(q), q[k] = x, x # q[i]
        PROVE  \E j \in 1..Len(r) : r[j] = x
    <3>1. CASE k < i
      BY <2>2, <3>1, <1>0, <1>5, <1>6
    <3>2. CASE k > i
      <4>1. k - 1 \in 1..Len(r) /\ ~(k - 1 < i) /\ (k - 1) + 1 = k
        BY <3>2, <1>0, <1>5
      <4> QED BY <2>2, <4>1, <1>6
    <3> QED BY <2>2, <3>1, <3>2
  <2> QED BY <2>1, <2>2
<1>8. \A j, k \in 1..Len(r) : r[j] = r[k] => j = k
  BY <1>0, <1>5, <1>6
<1> QED BY <1>4, <1>7, <1>8 DEF Park!RemoveAt, r, a, b

\* What LeavePark leaves of the list.
LEMMA Unlinked ==
    ASSUME ListedOnce, NEW c \in Park!Calls
    PROVE  LET r == Park!Unlinked(c)
           IN  /\ r \in Seq(Park!Calls)
               /\ \A j, k \in 1..Len(r) : r[j] = r[k] => j = k
               /\ \A x : (\E j \in 1..Len(r) : r[j] = x) <=> x # c /\ Park!Queued(x)
<1>1. CASE ~Park!Queued(c)
  BY <1>1 DEF Park!Unlinked, Park!RemoveFirst, Park!Queued, Park!Contains, ListedOnce
<1>2. CASE Park!Queued(c)
  <2> DEFINE I == {i \in 1..Len(bucket) : bucket[i] = c}
             i == Park!Min(I)
  <2>1. I \in SUBSET Nat /\ I # {}
    BY <1>2 DEF Park!Queued, Park!Contains
  <2>2. i \in I
    BY <2>1, LeastIsIn
  <2>3. Park!Unlinked(c) = Park!RemoveAt(bucket, i)
    BY <1>2, <2>1 DEF Park!Unlinked, Park!RemoveFirst, Park!Queued, Park!Contains, Park!SelectInSeq
  <2> HIDE DEF i
  <2>4. i \in 1..Len(bucket) /\ bucket[i] = c
    BY <2>2
  <2>5. bucket \in Seq(Park!Calls) /\ \A j, k \in 1..Len(bucket) : bucket[j] = bucket[k] => j = k
    BY DEF ListedOnce
  <2>6. LET r == Park!RemoveAt(bucket, i)
        IN  /\ r \in Seq(Park!Calls)
            /\ \A j, k \in 1..Len(r) : r[j] = r[k] => j = k
            /\ \A x : (\E j \in 1..Len(r) : r[j] = x) <=> x # bucket[i] /\ \E j \in 1..Len(bucket) : bucket[j] = x
    BY <2>4, <2>5, Unlinking
  <2> QED BY <2>3, <2>4, <2>6 DEF Park!Queued, Park!Contains
<1> QED BY <1>1, <1>2

\* What the list is after an entry.
LEMMA Appended ==
    ASSUME ListedOnce, NEW c \in Park!Calls, ~Park!Queued(c)
    PROVE  LET r == Append(bucket, c)
           IN  /\ r \in Seq(Park!Calls)
               /\ \A j, k \in 1..Len(r) : r[j] = r[k] => j = k
               /\ \A x : (\E j \in 1..Len(r) : r[j] = x) <=> x = c \/ Park!Queued(x)
<1> DEFINE r == Append(bucket, c)
<1>1. bucket \in Seq(Park!Calls) /\ Len(bucket) \in Nat
  BY LenProperties DEF ListedOnce
<1>2. /\ r \in Seq(Park!Calls) /\ Len(r) = Len(bucket) + 1
      /\ r[Len(bucket) + 1] = c /\ \A j \in 1..Len(bucket) : r[j] = bucket[j]
  BY <1>1, AppendProperties
<1> HIDE DEF r
<1>3. \A j \in 1..Len(bucket) : bucket[j] # c
  BY DEF Park!Queued, Park!Contains
<1>4. \A j, k \in 1..Len(r) : r[j] = r[k] => j = k
  BY <1>1, <1>2, <1>3 DEF ListedOnce
<1>5. \A x : (\E j \in 1..Len(r) : r[j] = x) <=> x = c \/ Park!Queued(x)
  <2> TAKE x
  <2>1. ASSUME NEW j \in 1..Len(r), r[j] = x
        PROVE  x = c \/ Park!Queued(x)
    BY <2>1, <1>1, <1>2 DEF Park!Queued, Park!Contains
  <2>2. ASSUME x = c
        PROVE  \E j \in 1..Len(r) : r[j] = x
    <3>1. Len(bucket) + 1 \in 1..Len(r)
      BY <1>1, <1>2
    <3> QED BY <2>2, <3>1, <1>2
  <2>3. ASSUME Park!Queued(x)
        PROVE  \E j \in 1..Len(r) : r[j] = x
    <3>1. PICK j \in 1..Len(bucket) : bucket[j] = x
      BY <2>3 DEF Park!Queued, Park!Contains
    <3>2. j \in 1..Len(r)
      BY <1>1, <1>2
    <3> QED BY <3>1, <3>2, <1>2
  <2> QED BY <2>1, <2>2, <2>3
<1> QED BY <1>2, <1>4, <1>5 DEF r

\* The search of an unlock finds a waiter of its mutex if there is one.
LEMMA Searching ==
    ASSUME ListedOnce, NEW m
    PROVE  LET first == Park!SelectInSeq(bucket, LAMBDA w : key[w] = m)
           IN  \/ first = 0 /\ \A x \in Park!Calls : Park!Queued(x) => key[x] # m
               \/ first \in 1..Len(bucket) /\ key[bucket[first]] = m
<1> DEFINE I == {i \in 1..Len(bucket) : key[bucket[i]] = m}
<1>1. CASE I = {}
  <2>1. Park!SelectInSeq(bucket, LAMBDA w : key[w] = m) = 0
    BY <1>1 DEF Park!SelectInSeq
  <2>2. \A x : Park!Queued(x) => key[x] # m
    BY <1>1 DEF Park!Queued, Park!Contains
  <2> QED BY <2>1, <2>2
<1>2. CASE I # {}
  <2>1. Park!SelectInSeq(bucket, LAMBDA w : key[w] = m) = Park!Min(I)
    BY <1>2 DEF Park!SelectInSeq
  <2>2. I \in SUBSET Nat /\ I # {}
    BY <1>2
  <2>3. Park!Min(I) \in I
    BY <2>2, LeastIsIn
  <2> QED BY <2>1, <2>3
<1> QED BY <1>1, <1>2

\* The kinds of every call, the list and its counter, and the wake on its way, in every
\* reachable state.
LEMMA ParkInvariance == PartsSpec => []ParkIInv
<1> USE PartsAssumption
<1>0. /\ IsFiniteSet(Park!Calls)
      /\ None \notin Mutexes /\ None \notin Park!Calls
      /\ \A X : Park!Cardinality(X) = Cardinality(X)
  <2>1. IsFiniteSet(Park!Calls)
    <3>1. IsFiniteSet(Interrupted)
      BY FS_Subset
    <3>2. IsFiniteSet({"thread"}) /\ IsFiniteSet({"handler"})
      BY FS_Singleton
    <3>3. IsFiniteSet(Parkers \X {"thread"}) /\ IsFiniteSet(Interrupted \X {"handler"})
      BY <3>1, <3>2, FS_Product
    <3> QED BY <3>3, FS_Union DEF Park!Calls
  <2>2. None \notin Mutexes /\ None \notin Park!Calls
    BY DEF Park!Calls
  <2>3. \A X : Park!Cardinality(X) = Cardinality(X)
    BY Zenon DEF Park!Cardinality, Cardinality
  <2> QED BY <2>1, <2>2, <2>3
<1>1. Park!Init => ParkIInv
  <2> SUFFICES ASSUME Park!Init
               PROVE  ParkIInv
    OBVIOUS
  <2>1. ParkTypes
    BY <1>0 DEF Park!Init, ParkTypes, ParkPlaces
  <2>2. bucket = << >> /\ Len(bucket) = 0 /\ bucket \in Seq(Park!Calls)
    BY DEF Park!Init
  <2>3. \A c : ~Park!Queued(c)
    BY <2>2 DEF Park!Queued, Park!Contains
  <2>4. ListedOnce
    BY <2>2, <2>3 DEF Park!Init, ListedOnce
  <2>5. Counted = {}
    BY DEF Park!Init, Counted, Linked
  <2>6. parked = Cardinality(Counted)
    BY <2>5, FS_EmptySet DEF Park!Init
  <2>7. CancelHolds /\ Park!WakeIsOnItsWay
    BY DEF Park!Init, CancelHolds, Park!WakeIsOnItsWay
  <2> QED BY <2>1, <2>4, <2>6, <2>7 DEF ParkIInv
<1>2. ASSUME ParkIInv, Park!Next
      PROVE  ParkIInv'
  <2>0. ParkTypes /\ ListedOnce /\ parked = Cardinality(Counted) /\ CancelHolds /\ Park!WakeIsOnItsWay
    BY <1>2 DEF ParkIInv
  <2>C. /\ IsFiniteSet(Counted) /\ Cardinality(Counted) \in Nat
        /\ Cardinality(Counted) = 0 <=> Counted = {}
        /\ \A c : c \in Counted => Cardinality(Counted \ {c}) = Cardinality(Counted) - 1
        /\ \A c : c \notin Counted => Cardinality(Counted \cup {c}) = Cardinality(Counted) + 1
    <3>1. IsFiniteSet(Counted)
      BY <1>0, FS_Subset DEF Counted
    <3> QED BY <3>1, FS_CardinalityType, FS_EmptySet, FS_AddElement, FS_RemoveElement
  <2>Take. ASSUME NEW c \in Park!Calls, NEW m \in Mutexes, Park!Take(c, m)
    PROVE  ParkIInv'
    <3> USE <2>Take DEF Park!Take, Park!At, Park!lot, Park!call, Park!Free
    <3>1. ParkTypes'
      BY <2>0, <1>0 DEF ParkTypes, ParkPlaces
    <3>2. /\ bucket' \in Seq(Park!Calls)
          /\ \A i, j \in 1..Len(bucket') : bucket'[i] = bucket'[j] => i = j
          /\ \A x : Park!Queued(x)' <=> Park!Queued(x)
      BY <2>0 DEF ListedOnce, Park!Queued
    <3>3. ListedOnce'
      BY <2>0, <3>2 DEF ParkTypes, ListedOnce, Linked
    <3>4. (parked = Cardinality(Counted))'
      <4>1. Counted' = Counted /\ parked' = parked
        BY <2>0 DEF ParkTypes, Counted, Linked
      <4> QED BY <4>1, <2>0
    <3>5. CancelHolds'
      BY <2>0, <1>0 DEF ParkTypes, CancelHolds
    <3>6. Park!WakeIsOnItsWay'
      BY <2>0, <1>0, <3>2 DEF ParkTypes, ListedOnce, Linked, CancelHolds, Park!Free, Park!WakeIsOnItsWay
    <3> QED BY <3>1, <3>3, <3>4, <3>5, <3>6 DEF ParkIInv
  <2>Unlock. ASSUME NEW c \in Park!Calls, NEW m \in Mutexes, Park!Unlock(c, m)
    PROVE  ParkIInv'
    <3> USE <2>Unlock DEF Park!Unlock, Park!At, Park!lot, Park!Holds
    <3>1. ParkTypes'
      BY <2>0, <1>0 DEF ParkTypes, ParkPlaces
    <3>2. /\ bucket' \in Seq(Park!Calls)
          /\ \A i, j \in 1..Len(bucket') : bucket'[i] = bucket'[j] => i = j
          /\ \A x : Park!Queued(x)' <=> Park!Queued(x)
      BY <2>0 DEF ListedOnce, Park!Queued
    <3>3. ListedOnce'
      BY <2>0, <3>2 DEF ParkTypes, ListedOnce, Linked
    <3>4. (parked = Cardinality(Counted))'
      <4>1. Counted' = Counted /\ parked' = parked
        BY <2>0 DEF ParkTypes, Counted, Linked
      <4> QED BY <4>1, <2>0
    <3>5. CancelHolds'
      BY <2>0, <1>0 DEF ParkTypes, CancelHolds
    <3>6. Park!WakeIsOnItsWay'
      BY <2>0, <1>0, <3>2 DEF ParkTypes, ListedOnce, Linked, CancelHolds, Park!Free, Park!WakeIsOnItsWay
    <3> QED BY <3>1, <3>3, <3>4, <3>5, <3>6 DEF ParkIInv
  <2>BeginPark. ASSUME NEW c \in Park!Calls, NEW m \in Mutexes, NEW d \in BOOLEAN, Park!BeginPark(c, m, d)
    PROVE  ParkIInv'
    <3> USE <2>BeginPark DEF Park!BeginPark, Park!At, Park!Free
    <3>1. ParkTypes'
      BY <2>0, <1>0 DEF ParkTypes, ParkPlaces
    <3>2. /\ bucket' \in Seq(Park!Calls)
          /\ \A i, j \in 1..Len(bucket') : bucket'[i] = bucket'[j] => i = j
          /\ \A x : Park!Queued(x)' <=> Park!Queued(x)
      BY <2>0 DEF ListedOnce, Park!Queued
    <3>3. ListedOnce'
      BY <2>0, <3>2 DEF ParkTypes, ListedOnce, Linked
    <3>4. (parked = Cardinality(Counted))'
      <4>1. c \notin Counted /\ Counted' = Counted \cup {c} /\ parked' = parked + 1
        BY <2>0 DEF ParkTypes, Counted, Linked
      <4> QED BY <4>1, <2>0, <2>C
    <3>5. CancelHolds'
      BY <2>0, <1>0 DEF ParkTypes, CancelHolds
    <3>6. Park!WakeIsOnItsWay'
      BY <2>0, <1>0, <3>2 DEF ParkTypes, ListedOnce, Linked, CancelHolds, Park!Free, Park!WakeIsOnItsWay
    <3> QED BY <3>1, <3>3, <3>4, <3>5, <3>6 DEF ParkIInv
  <2>Enqueue. ASSUME NEW c \in Park!Calls, Park!Enqueue(c)
    PROVE  ParkIInv'
    <3> USE <2>Enqueue DEF Park!Enqueue, Park!Step, Park!At
    <3>1. ParkTypes'
      BY <2>0, <1>0 DEF ParkTypes, ParkPlaces
    <3>2. /\ bucket' \in Seq(Park!Calls)
          /\ \A i, j \in 1..Len(bucket') : bucket'[i] = bucket'[j] => i = j
          /\ \A x : Park!Queued(x)' <=> x = c \/ Park!Queued(x)
      <4>1. ~Park!Queued(c) /\ bucket' = Append(bucket, c)
        BY <2>0 DEF ListedOnce, Linked
      <4> QED BY <4>1, <2>0, Appended DEF Park!Queued, Park!Contains
    <3>3. ListedOnce'
      BY <2>0, <3>2 DEF ParkTypes, ListedOnce, Linked
    <3>4. (parked = Cardinality(Counted))'
      <4>1. Counted' = Counted /\ parked' = parked
        BY <2>0 DEF ParkTypes, Counted, Linked
      <4> QED BY <4>1, <2>0
    <3>5. CancelHolds'
      BY <2>0, <1>0 DEF ParkTypes, CancelHolds
    <3>6. Park!WakeIsOnItsWay'
      BY <2>0, <1>0, <3>2 DEF ParkTypes, ListedOnce, Linked, CancelHolds, Park!Free, Park!WakeIsOnItsWay
    <3> QED BY <3>1, <3>3, <3>4, <3>5, <3>6 DEF ParkIInv
  <2>LookAgain. ASSUME NEW c \in Park!Calls, Park!LookAgain(c)
    PROVE  ParkIInv'
    <3> USE <2>LookAgain DEF Park!LookAgain, Park!Step, Park!At, Park!lot, Park!Free
    <3>1. ParkTypes'
      BY <2>0, <1>0 DEF ParkTypes, ParkPlaces
    <3>2. /\ bucket' \in Seq(Park!Calls)
          /\ \A i, j \in 1..Len(bucket') : bucket'[i] = bucket'[j] => i = j
          /\ \A x : Park!Queued(x)' <=> Park!Queued(x)
      BY <2>0 DEF ListedOnce, Park!Queued
    <3>3. ListedOnce'
      BY <2>0, <3>2 DEF ParkTypes, ListedOnce, Linked
    <3>4. (parked = Cardinality(Counted))'
      <4>1. Counted' = Counted /\ parked' = parked
        BY <2>0 DEF ParkTypes, Counted, Linked
      <4> QED BY <4>1, <2>0
    <3>5. CancelHolds'
      BY <2>0, <1>0 DEF ParkTypes, CancelHolds
    <3>6. Park!WakeIsOnItsWay'
      <4>1. CASE holder[key[c]] = None
        BY <4>1, <2>0, <1>0, <3>2 DEF ParkTypes, Park!Free, Park!WakeIsOnItsWay
      <4>2. CASE holder[key[c]] # None
        <5>1. UNCHANGED <<holder, signaled, key>> /\ parkPc' = [parkPc EXCEPT ![c] = "asleep"] /\ parkPc[c] = "queued"
          BY <4>2, <2>0 DEF ParkTypes
        <5> QED BY <4>2, <5>1, <2>0, <3>2 DEF ParkTypes, Park!Free, Park!WakeIsOnItsWay
      <4> QED BY <4>1, <4>2
    <3> QED BY <3>1, <3>3, <3>4, <3>5, <3>6 DEF ParkIInv
  <2>CancelPark. ASSUME NEW c \in Park!Calls, Park!CancelPark(c)
    PROVE  ParkIInv'
    <3> USE <2>CancelPark DEF Park!CancelPark, Park!Ends, Park!Leaves, Park!At
    <3>1. ParkTypes'
      BY <2>0, <1>0 DEF ParkTypes, ParkPlaces
    <3>2. /\ bucket' \in Seq(Park!Calls)
          /\ \A i, j \in 1..Len(bucket') : bucket'[i] = bucket'[j] => i = j
          /\ \A x : Park!Queued(x)' <=> x # c /\ Park!Queued(x)
      <4>1. bucket' = Park!Unlinked(c)
        BY DEF Park!CancelPark, Park!Leaves
      <4>2. LET r == Park!Unlinked(c)
            IN  /\ r \in Seq(Park!Calls)
                /\ \A j, k \in 1..Len(r) : r[j] = r[k] => j = k
                /\ \A x : (\E j \in 1..Len(r) : r[j] = x) <=> x # c /\ Park!Queued(x)
        BY <2>0, Unlinked
      <4>3. \A x : Park!Queued(x)' <=> \E j \in 1..Len(bucket') : bucket'[j] = x
        BY DEF Park!Queued, Park!Contains
      <4> QED BY <4>1, <4>2, <4>3
    <3>3. ListedOnce'
      BY <2>0, <3>2 DEF ParkTypes, ListedOnce, Linked
    <3>4. (parked = Cardinality(Counted))'
      <4>1. c \in Counted /\ Counted' = Counted \ {c} /\ parked' = parked - 1
        BY <2>0 DEF ParkTypes, Counted, Linked
      <4> QED BY <4>1, <2>0, <2>C
    <3>5. CancelHolds'
      BY <2>0, <1>0 DEF ParkTypes, CancelHolds
    <3>6. Park!WakeIsOnItsWay'
      BY <2>0, <1>0, <3>2 DEF ParkTypes, ListedOnce, Linked, CancelHolds, Park!Free, Park!WakeIsOnItsWay
    <3> QED BY <3>1, <3>3, <3>4, <3>5, <3>6 DEF ParkIInv
  <2>Woken. ASSUME NEW c \in Park!Calls, Park!Woken(c)
    PROVE  ParkIInv'
    <3> USE <2>Woken DEF Park!Woken, Park!Step, Park!Leaves, Park!At
    <3>1. ParkTypes'
      BY <2>0, <1>0 DEF ParkTypes, ParkPlaces, Linked, ListedOnce
    <3>2. /\ bucket' \in Seq(Park!Calls)
          /\ \A i, j \in 1..Len(bucket') : bucket'[i] = bucket'[j] => i = j
          /\ \A x : Park!Queued(x)' <=> x # c /\ Park!Queued(x)
      <4>1. bucket' = Park!Unlinked(c)
        BY DEF Park!Woken, Park!Leaves
      <4>2. LET r == Park!Unlinked(c)
            IN  /\ r \in Seq(Park!Calls)
                /\ \A j, k \in 1..Len(r) : r[j] = r[k] => j = k
                /\ \A x : (\E j \in 1..Len(r) : r[j] = x) <=> x # c /\ Park!Queued(x)
        BY <2>0, Unlinked
      <4>3. \A x : Park!Queued(x)' <=> \E j \in 1..Len(bucket') : bucket'[j] = x
        BY DEF Park!Queued, Park!Contains
      <4> QED BY <4>1, <4>2, <4>3
    <3>3. ListedOnce'
      BY <2>0, <3>2 DEF ParkTypes, ListedOnce, Linked
    <3>4. (parked = Cardinality(Counted))'
      <4>1. c \in Counted /\ Counted' = Counted \ {c} /\ parked' = parked - 1
        BY <2>0 DEF ParkTypes, Counted, Linked
      <4> QED BY <4>1, <2>0, <2>C
    <3>5. CancelHolds'
      BY <2>0, <1>0 DEF ParkTypes, CancelHolds
    <3>6. Park!WakeIsOnItsWay'
      BY <2>0, <1>0, <3>2 DEF ParkTypes, ListedOnce, Linked, CancelHolds, Park!Free, Park!WakeIsOnItsWay
    <3> QED BY <3>1, <3>3, <3>4, <3>5, <3>6 DEF ParkIInv
  <2>Deadline. ASSUME NEW c \in Park!Calls, Park!Deadline(c)
    PROVE  ParkIInv'
    <3> USE <2>Deadline DEF Park!Deadline, Park!Step, Park!At, Park!lot
    <3>1. ParkTypes'
      BY <2>0, <1>0 DEF ParkTypes, ParkPlaces
    <3>2. /\ bucket' \in Seq(Park!Calls)
          /\ \A i, j \in 1..Len(bucket') : bucket'[i] = bucket'[j] => i = j
          /\ \A x : Park!Queued(x)' <=> Park!Queued(x)
      BY <2>0 DEF ListedOnce, Park!Queued
    <3>3. ListedOnce'
      BY <2>0, <3>2 DEF ParkTypes, ListedOnce, Linked
    <3>4. (parked = Cardinality(Counted))'
      <4>1. Counted' = Counted /\ parked' = parked
        BY <2>0 DEF ParkTypes, Counted, Linked
      <4> QED BY <4>1, <2>0
    <3>5. CancelHolds'
      BY <2>0, <1>0 DEF ParkTypes, CancelHolds
    <3>6. Park!WakeIsOnItsWay'
      BY <2>0, <1>0, <3>2 DEF ParkTypes, ListedOnce, Linked, CancelHolds, Park!Free, Park!WakeIsOnItsWay
    <3> QED BY <3>1, <3>3, <3>4, <3>5, <3>6 DEF ParkIInv
  <2>Leave. ASSUME NEW c \in Park!Calls, Park!Leave(c)
    PROVE  ParkIInv'
    <3> USE <2>Leave DEF Park!Leave, Park!Step, Park!Leaves, Park!At
    <3>1. ParkTypes'
      BY <2>0, <1>0 DEF ParkTypes, ParkPlaces
    <3>2. /\ bucket' \in Seq(Park!Calls)
          /\ \A i, j \in 1..Len(bucket') : bucket'[i] = bucket'[j] => i = j
          /\ \A x : Park!Queued(x)' <=> x # c /\ Park!Queued(x)
      <4>1. bucket' = Park!Unlinked(c)
        BY DEF Park!Leave, Park!Leaves
      <4>2. LET r == Park!Unlinked(c)
            IN  /\ r \in Seq(Park!Calls)
                /\ \A j, k \in 1..Len(r) : r[j] = r[k] => j = k
                /\ \A x : (\E j \in 1..Len(r) : r[j] = x) <=> x # c /\ Park!Queued(x)
        BY <2>0, Unlinked
      <4>3. \A x : Park!Queued(x)' <=> \E j \in 1..Len(bucket') : bucket'[j] = x
        BY DEF Park!Queued, Park!Contains
      <4> QED BY <4>1, <4>2, <4>3
    <3>3. ListedOnce'
      BY <2>0, <3>2 DEF ParkTypes, ListedOnce, Linked
    <3>4. (parked = Cardinality(Counted))'
      <4>1. c \in Counted /\ Counted' = Counted \ {c} /\ parked' = parked - 1
        BY <2>0 DEF ParkTypes, Counted, Linked
      <4> QED BY <4>1, <2>0, <2>C
    <3>5. CancelHolds'
      BY <2>0, <1>0 DEF ParkTypes, CancelHolds
    <3>6. Park!WakeIsOnItsWay'
      BY <2>0, <1>0, <3>2 DEF ParkTypes, ListedOnce, Linked, CancelHolds, Park!Free, Park!WakeIsOnItsWay
    <3> QED BY <3>1, <3>3, <3>4, <3>5, <3>6 DEF ParkIInv
  <2>Retry. ASSUME NEW c \in Park!Calls, Park!Retry(c)
    PROVE  ParkIInv'
    <3> USE <2>Retry DEF Park!Retry, Park!Step, Park!Ends, Park!At, Park!Free
    <3>1. ParkTypes'
      <4>1. CASE holder[key[c]] = None
        <5>1. /\ holder' = [holder EXCEPT ![key[c]] = c] /\ signaled' = signaled
              /\ parkPc' = [parkPc EXCEPT ![c] = "none"] /\ key' = [key EXCEPT ![c] = None]
              /\ timed' = [timed EXCEPT ![c] = FALSE]
          BY <4>1
        <5> QED BY <5>1, <2>0, <1>0 DEF ParkTypes, ParkPlaces
      <4>2. CASE holder[key[c]] # None
        BY <4>2, <2>0, <1>0 DEF ParkTypes, ParkPlaces
      <4> QED BY <4>1, <4>2
    <3>2. /\ bucket' \in Seq(Park!Calls)
          /\ \A i, j \in 1..Len(bucket') : bucket'[i] = bucket'[j] => i = j
          /\ \A x : Park!Queued(x)' <=> Park!Queued(x)
      BY <2>0 DEF ListedOnce, Park!Queued
    <3>3. ListedOnce'
      BY <2>0, <3>2 DEF ParkTypes, ListedOnce, Linked
    <3>4. (parked = Cardinality(Counted))'
      <4>1. CASE holder[key[c]] = None
        <5>1. Counted' = Counted /\ parked' = parked
          BY <4>1, <2>0 DEF ParkTypes, Counted, Linked
        <5> QED BY <5>1, <2>0
      <4>2. CASE holder[key[c]] # None
        <5>1. c \notin Counted /\ Counted' = Counted \cup {c} /\ parked' = parked + 1
          BY <4>2, <2>0 DEF ParkTypes, Counted, Linked
        <5> QED BY <5>1, <2>0, <2>C
      <4> QED BY <4>1, <4>2
    <3>5. CancelHolds'
      BY <2>0, <1>0 DEF ParkTypes, CancelHolds
    <3>6. Park!WakeIsOnItsWay'
      BY <2>0, <1>0, <3>2 DEF ParkTypes, ListedOnce, Linked, CancelHolds, Park!Free, Park!WakeIsOnItsWay
    <3> QED BY <3>1, <3>3, <3>4, <3>5, <3>6 DEF ParkIInv
  <2>LastTry. ASSUME NEW c \in Park!Calls, Park!LastTry(c)
    PROVE  ParkIInv'
    <3> USE <2>LastTry DEF Park!LastTry, Park!Ends, Park!At, Park!lot, Park!Free
    <3>1. ParkTypes'
      BY <2>0, <1>0 DEF ParkTypes, ParkPlaces
    <3>2. /\ bucket' \in Seq(Park!Calls)
          /\ \A i, j \in 1..Len(bucket') : bucket'[i] = bucket'[j] => i = j
          /\ \A x : Park!Queued(x)' <=> Park!Queued(x)
      BY <2>0 DEF ListedOnce, Park!Queued
    <3>3. ListedOnce'
      BY <2>0, <3>2 DEF ParkTypes, ListedOnce, Linked
    <3>4. (parked = Cardinality(Counted))'
      <4>1. Counted' = Counted /\ parked' = parked
        BY <2>0 DEF ParkTypes, Counted, Linked
      <4> QED BY <4>1, <2>0
    <3>5. CancelHolds'
      BY <2>0, <1>0 DEF ParkTypes, CancelHolds
    <3>6. Park!WakeIsOnItsWay'
      BY <2>0, <1>0, <3>2 DEF ParkTypes, ListedOnce, Linked, CancelHolds, Park!Free, Park!WakeIsOnItsWay
    <3> QED BY <3>1, <3>3, <3>4, <3>5, <3>6 DEF ParkIInv
  <2>Look. ASSUME NEW c \in Park!Calls, Park!Look(c)
    PROVE  ParkIInv'
    <3> USE <2>Look DEF Park!Look, Park!Step, Park!Ends, Park!At, Park!lot
    <3>1. ParkTypes'
      BY <2>0, <1>0 DEF ParkTypes, ParkPlaces
    <3>2. /\ bucket' \in Seq(Park!Calls)
          /\ \A i, j \in 1..Len(bucket') : bucket'[i] = bucket'[j] => i = j
          /\ \A x : Park!Queued(x)' <=> Park!Queued(x)
      BY <2>0 DEF ListedOnce, Park!Queued
    <3>3. ListedOnce'
      BY <2>0, <3>2 DEF ParkTypes, ListedOnce, Linked
    <3>4. (parked = Cardinality(Counted))'
      <4>1. Counted' = Counted /\ parked' = parked
        BY <2>0 DEF ParkTypes, Counted, Linked
      <4> QED BY <4>1, <2>0
    <3>5. CancelHolds'
      BY <2>0, <1>0 DEF ParkTypes, CancelHolds
    <3>6. Park!WakeIsOnItsWay'
      <4>1. CASE parked = 0
        <5>1. \A x \in Park!Calls : ~Park!Queued(x)
          BY <4>1, <2>0, <2>C DEF ListedOnce, Counted
        <5> QED BY <5>1, <3>2 DEF Park!WakeIsOnItsWay
      <4>2. CASE parked # 0
        BY <4>2, <2>0, <1>0, <3>2 DEF ParkTypes, Park!Free, Park!WakeIsOnItsWay
      <4> QED BY <4>1, <4>2
    <3> QED BY <3>1, <3>3, <3>4, <3>5, <3>6 DEF ParkIInv
  <2>Unpark. ASSUME NEW c \in Park!Calls, Park!Unpark(c)
    PROVE  ParkIInv'
    <3> USE <2>Unpark DEF Park!Unpark, Park!Ends, Park!At
    <3>f. \/ /\ UNCHANGED <<bucket, signaled>>
             /\ \A x \in Park!Calls : Park!Queued(x) => key[x] # key[c]
          \/ \E first \in 1..Len(bucket) :
                /\ key[bucket[first]] = key[c] /\ bucket[first] \in Park!Calls
                /\ Park!Queued(bucket[first])
                /\ bucket' = Park!RemoveAt(bucket, first)
                /\ signaled' = signaled \cup {bucket[first]}
      <4> DEFINE first == Park!SelectInSeq(bucket, LAMBDA w : key[w] = key[c])
      <4>1. \/ first = 0 /\ \A x \in Park!Calls : Park!Queued(x) => key[x] # key[c]
            \/ first \in 1..Len(bucket) /\ key[bucket[first]] = key[c]
        BY <2>0, Searching
      <4>2. IF first = 0 THEN UNCHANGED <<bucket, signaled>>
            ELSE bucket' = Park!RemoveAt(bucket, first) /\ signaled' = signaled \cup {bucket[first]}
        BY DEF Park!Unpark
      <4> HIDE DEF first
      <4>3. CASE first = 0 /\ \A x \in Park!Calls : Park!Queued(x) => key[x] # key[c]
        BY <4>2, <4>3
      <4>4. CASE first \in 1..Len(bucket) /\ key[bucket[first]] = key[c]
        <5>1. first # 0
          BY <4>4
        <5>2. bucket[first] \in Park!Calls /\ Park!Queued(bucket[first])
          BY <4>4, <2>0 DEF ListedOnce, Park!Queued, Park!Contains
        <5> QED BY <4>2, <4>4, <5>1, <5>2
      <4> QED BY <4>1, <4>3, <4>4
    <3>1. ParkTypes'
      BY <2>0, <1>0, <3>f DEF ParkTypes, ParkPlaces
    <3>2. /\ bucket' \in Seq(Park!Calls)
          /\ \A i, j \in 1..Len(bucket') : bucket'[i] = bucket'[j] => i = j
          /\ \/ /\ signaled' = signaled /\ \A x : Park!Queued(x)' <=> Park!Queued(x)
                /\ \A x \in Park!Calls : Park!Queued(x) => key[x] # key[c]
             \/ \E w \in Park!Calls : /\ Park!Queued(w) /\ key[w] = key[c] /\ signaled' = signaled \cup {w}
                                     /\ \A x : Park!Queued(x)' <=> x # w /\ Park!Queued(x)
      <4>1. CASE UNCHANGED <<bucket, signaled>> /\ \A x \in Park!Calls : Park!Queued(x) => key[x] # key[c]
        BY <4>1, <2>0 DEF ListedOnce, Park!Queued
      <4>2. ASSUME NEW first \in 1..Len(bucket),
                   /\ key[bucket[first]] = key[c] /\ bucket[first] \in Park!Calls
                   /\ Park!Queued(bucket[first])
                   /\ bucket' = Park!RemoveAt(bucket, first)
                   /\ signaled' = signaled \cup {bucket[first]}
            PROVE  /\ bucket' \in Seq(Park!Calls)
                   /\ \A i, j \in 1..Len(bucket') : bucket'[i] = bucket'[j] => i = j
                   /\ \E w \in Park!Calls : /\ Park!Queued(w) /\ key[w] = key[c] /\ signaled' = signaled \cup {w}
                                           /\ \A x : Park!Queued(x)' <=> x # w /\ Park!Queued(x)
        <5>1. bucket \in Seq(Park!Calls) /\ \A j, k \in 1..Len(bucket) : bucket[j] = bucket[k] => j = k
          BY <2>0 DEF ListedOnce
        <5>2. LET r == Park!RemoveAt(bucket, first)
              IN  /\ r \in Seq(Park!Calls)
                  /\ \A j, k \in 1..Len(r) : r[j] = r[k] => j = k
                  /\ \A x : (\E j \in 1..Len(r) : r[j] = x)
                               <=> x # bucket[first] /\ \E j \in 1..Len(bucket) : bucket[j] = x
          BY <5>1, Unlinking
        <5>3. \A x : Park!Queued(x)' <=> \E j \in 1..Len(bucket') : bucket'[j] = x
          BY DEF Park!Queued, Park!Contains
        <5>4. \A x : Park!Queued(x) <=> \E j \in 1..Len(bucket) : bucket[j] = x
          BY DEF Park!Queued, Park!Contains
        <5>5. /\ bucket' \in Seq(Park!Calls)
              /\ \A i, j \in 1..Len(bucket') : bucket'[i] = bucket'[j] => i = j
          BY <4>2, <5>2
        <5>6. \A x : Park!Queued(x)' <=> x # bucket[first] /\ Park!Queued(x)
          BY <4>2, <5>2, <5>3, <5>4
        <5> QED BY <4>2, <5>5, <5>6
      <4> QED BY <3>f, <4>1, <4>2
    <3>3. ListedOnce'
      BY <2>0, <3>2 DEF ParkTypes, ListedOnce, Linked
    <3>4. (parked = Cardinality(Counted))'
      <4>1. Counted' = Counted /\ parked' = parked
        BY <2>0 DEF ParkTypes, Counted, Linked
      <4> QED BY <4>1, <2>0
    <3>5. CancelHolds'
      BY <2>0, <1>0 DEF ParkTypes, CancelHolds
    <3>6. Park!WakeIsOnItsWay'
      BY <2>0, <1>0, <3>2 DEF ParkTypes, ListedOnce, Linked, CancelHolds, Park!Free, Park!WakeIsOnItsWay
    <3> QED BY <3>1, <3>3, <3>4, <3>5, <3>6 DEF ParkIInv
  <2> QED BY <1>2, <2>Take, <2>Unlock, <2>BeginPark, <2>Enqueue, <2>LookAgain, <2>CancelPark, <2>Woken, <2>Deadline,
             <2>Leave, <2>Retry, <2>LastTry, <2>Look, <2>Unpark DEF Park!Next
<1>3. ParkIInv /\ UNCHANGED parkVars => ParkIInv'
  BY DEF parkVars, ParkIInv, ParkTypes, ListedOnce, Counted, CancelHolds, Park!WakeIsOnItsWay, Park!Queued, Park!Free
<1>4. ParkIInv /\ [PartsNext]_<<part, vars, lifeVars, parkVars>> => ParkIInv'
  BY <1>2, <1>3 DEF PartsNext
<1> QED BY <1>1, <1>4, PTL DEF PartsSpec, PartsInit

\* While a mutex is free and somebody sleeps for it, a wake is on its way.
THEOREM WakesAreOnTheirWay == PartsSpec => []WakeIsOnItsWay
BY ParkInvariance, PTL DEF ParkIInv, WakeIsOnItsWay
=============================================================================
