---------------------------- MODULE Queues_proofs ----------------------------
(***************************************************************************)
(* Proofs about three of the parts that MCQueues puts side by side, for any*)
(* threads, events, knotes, slots and lock objects: the kqueue that watches*)
(* another one (KqueueWatch), the scePthread read-write lock               *)
(* (PthreadRwlock) and the event queue (EventQueue).                       *)
(***************************************************************************)
EXTENDS MCQueues, TLAPS, FiniteSetTheorems, SequenceTheorems, WellFoundedInduction

-----------------------------------------------------------------------------
(* The kqueue that watches another.                                        *)

Places == {"away", "scan", "asleep", "gather", "recheck", "poll", "drain", "release", "return"}

WatchTypes ==
    /\ Watch!TypeOK
    /\ clears \in BOOLEAN /\ watching \in BOOLEAN /\ own \in BOOLEAN
    /\ innerClosed \in BOOLEAN /\ outerClosed \in BOOLEAN
    /\ watch \in [triggered : BOOLEAN, seen : 0..MaxActivations, active : BOOLEAN]
    /\ watchPc \in [Watchers -> Places]

\* A wait that registers its waker keeps the outer mutex all the while, and nothing
\* of the outer queue's own was triggered when it began to.
Registering ==
    /\ \A t \in Watchers : watchPc[t] \in {"gather", "recheck"} => holder = t /\ ~outerClosed
    /\ \A t \in Watchers : watchPc[t] = "gather" => ~own

\* The waker of a thread in the poll is on the lists that will write to it.
OnTheLists ==
    /\ \A t \in Watchers : watchPc[t] = "recheck" => t \in outerPollers /\ t \in innerPollers
    /\ \A t \in Watchers : watchPc[t] = "poll" /\ t \notin latched =>
          t \in outerPollers /\ (innerClosed \/ t \in innerPollers)

WatchIInv == WatchTypes /\ Registering /\ OnTheLists /\ Watch!NoMissedActivation

\* Whatever the two queues' operations interleave with a wait that looks at each of
\* them under its own mutex: no thread stays in the poll over something to report.
THEOREM NoActivationIsMissed == QueuesSpec => []NoMissedActivation
<1> USE WatchersAssumption
<1>1. Watch!Init => WatchIInv
  <2> SUFFICES ASSUME Watch!Init PROVE WatchIInv
    OBVIOUS
  <2>1. WatchTypes
    <3>1. watchPc \in [Watchers -> Places] /\ activations \in 0..MaxActivations
      BY DEF Watch!Init, Places
    <3>2. watch \in [triggered : BOOLEAN, seen : 0..MaxActivations, active : BOOLEAN]
      BY DEF Watch!Init
    <3> QED BY <3>1, <3>2 DEF Watch!Init, WatchTypes, Watch!TypeOK
  <2>2. \A t \in Watchers : watchPc[t] = "away"
    BY DEF Watch!Init
  <2> QED BY <2>1, <2>2 DEF WatchIInv, Registering, OnTheLists, Watch!NoMissedActivation
<1>2. ASSUME WatchIInv, Watch!Next
      PROVE  WatchIInv'
  <2> USE <1>2 DEF WatchIInv
  <2>0. /\ Watch!Ready \subseteq Notes
        /\ Watch!Polled \in [triggered : BOOLEAN, seen : 0..MaxActivations, active : BOOLEAN]
        /\ \A w \in [triggered : BOOLEAN, seen : 0..MaxActivations, active : BOOLEAN] :
              Watch!Collected(w) \in [triggered : BOOLEAN, seen : 0..MaxActivations, active : BOOLEAN]
    BY DEF WatchTypes, Watch!TypeOK, Watch!Ready, Watch!Polled, Watch!Collected
  \* A look at a watch that has nothing to report leaves it so.
  <2>1. ASSUME ~Watch!Reportable
        PROVE  /\ ~own
               /\ watching => ~Watch!Polled.triggered
               /\ \/ ~watching
                  \/ Watch!Ready = {}
                  \/ clears /\ ~Watch!Polled.active /\ activations = Watch!Polled.seen
    BY <2>1 DEF Watch!Reportable, Watch!Polled, WatchTypes
  <2>EditNote. ASSUME NEW n \in Notes, Watch!EditNote(n)
    PROVE  WatchIInv'
    <3> USE <2>EditNote DEF Watch!EditNote, Watch!EditInner, Watch!inner, Watch!outer
    <3>1. WatchTypes'
      BY <2>0 DEF WatchTypes, Watch!TypeOK, Places
    <3>2. Registering'
      BY DEF WatchTypes, Registering
    <3>3. OnTheLists'
      BY DEF WatchTypes, OnTheLists
    <3>4. Watch!NoMissedActivation'
      BY <2>0, <2>1
        DEF WatchTypes, Registering, OnTheLists, Watch!NoMissedActivation, Watch!Reportable, Watch!Ready
    <3> QED BY <3>1, <3>2, <3>3, <3>4
  <2>Consume. ASSUME Watch!Consume
    PROVE  WatchIInv'
    <3> USE <2>Consume DEF Watch!Consume, Watch!inner, Watch!outer
    <3>1. WatchTypes'
      BY <2>0 DEF WatchTypes, Watch!TypeOK, Places
    <3>2. Registering'
      BY DEF WatchTypes, Registering
    <3>3. OnTheLists'
      BY DEF WatchTypes, OnTheLists
    <3>4. Watch!NoMissedActivation'
      BY <2>0, <2>1
        DEF WatchTypes, Registering, OnTheLists, Watch!NoMissedActivation, Watch!Reportable, Watch!Ready
    <3> QED BY <3>1, <3>2, <3>3, <3>4
  <2>CloseInner. ASSUME Watch!CloseInner
    PROVE  WatchIInv'
    <3> USE <2>CloseInner DEF Watch!CloseInner, Watch!inner, Watch!outer
    <3>1. WatchTypes'
      BY <2>0 DEF WatchTypes, Watch!TypeOK, Places
    <3>2. Registering'
      BY DEF WatchTypes, Registering
    <3>3. OnTheLists'
      BY DEF WatchTypes, OnTheLists
    <3>4. Watch!NoMissedActivation'
      BY <2>0, <2>1
        DEF WatchTypes, Registering, OnTheLists, Watch!NoMissedActivation, Watch!Reportable, Watch!Ready
    <3> QED BY <3>1, <3>2, <3>3, <3>4
  <2>RemoveWatch. ASSUME Watch!RemoveWatch
    PROVE  WatchIInv'
    <3> USE <2>RemoveWatch DEF Watch!RemoveWatch, Watch!WakePollers, Watch!inner, Watch!outer
    <3>1. WatchTypes'
      BY <2>0 DEF WatchTypes, Watch!TypeOK, Places
    <3>2. Registering'
      BY DEF WatchTypes, Registering
    <3>3. OnTheLists'
      BY DEF WatchTypes, OnTheLists
    <3>4. Watch!NoMissedActivation'
      BY <2>0, <2>1
        DEF WatchTypes, Registering, OnTheLists, Watch!NoMissedActivation, Watch!Reportable, Watch!Ready
    <3> QED BY <3>1, <3>2, <3>3, <3>4
  <2>TriggerOwn. ASSUME Watch!TriggerOwn
    PROVE  WatchIInv'
    <3> USE <2>TriggerOwn DEF Watch!TriggerOwn, Watch!WakePollers, Watch!NotifyOne, Watch!inner, Watch!outer
    <3>1. WatchTypes'
      BY <2>0 DEF WatchTypes, Watch!TypeOK, Places
    <3>2. Registering'
      BY DEF WatchTypes, Registering
    <3>3. OnTheLists'
      BY DEF WatchTypes, OnTheLists
    <3>4. Watch!NoMissedActivation'
      BY <2>0, <2>1
        DEF WatchTypes, Registering, OnTheLists, Watch!NoMissedActivation, Watch!Reportable, Watch!Ready
    <3> QED BY <3>1, <3>2, <3>3, <3>4
  <2>Rearm. ASSUME Watch!Rearm
    PROVE  WatchIInv'
    <3> USE <2>Rearm DEF Watch!Rearm, Watch!WakePollers, Watch!NotifyOne, Watch!inner, Watch!outer
    <3>1. WatchTypes'
      BY <2>0 DEF WatchTypes, Watch!TypeOK, Places
    <3>2. Registering'
      BY DEF WatchTypes, Registering
    <3>3. OnTheLists'
      BY DEF WatchTypes, OnTheLists
    <3>4. Watch!NoMissedActivation'
      BY <2>0, <2>1
        DEF WatchTypes, Registering, OnTheLists, Watch!NoMissedActivation, Watch!Reportable, Watch!Ready
    <3> QED BY <3>1, <3>2, <3>3, <3>4
  <2>CloseOuter. ASSUME Watch!CloseOuter
    PROVE  WatchIInv'
    <3> USE <2>CloseOuter DEF Watch!CloseOuter, Watch!WakePollers, Watch!inner, Watch!outer
    <3>1. WatchTypes'
      BY <2>0 DEF WatchTypes, Watch!TypeOK, Places
    <3>2. Registering'
      BY DEF WatchTypes, Registering
    <3>3. OnTheLists'
      BY DEF WatchTypes, OnTheLists
    <3>4. Watch!NoMissedActivation'
      BY <2>0, <2>1
        DEF WatchTypes, Registering, OnTheLists, Watch!NoMissedActivation, Watch!Reportable, Watch!Ready
    <3> QED BY <3>1, <3>2, <3>3, <3>4
  <2>Call. ASSUME NEW t \in Watchers, NEW limit \in BOOLEAN, Watch!Call(t, limit)
    PROVE  WatchIInv'
    <3> USE <2>Call DEF Watch!Call, Watch!inner, Watch!outer
    <3>1. WatchTypes'
      BY <2>0 DEF WatchTypes, Watch!TypeOK, Places
    <3>2. Registering'
      BY DEF WatchTypes, Registering
    <3>3. OnTheLists'
      BY DEF WatchTypes, OnTheLists
    <3>4. Watch!NoMissedActivation'
      BY <2>0, <2>1
        DEF WatchTypes, Registering, OnTheLists, Watch!NoMissedActivation, Watch!Reportable, Watch!Ready
    <3> QED BY <3>1, <3>2, <3>3, <3>4
  <2>Scan. ASSUME NEW t \in Watchers, Watch!Scan(t)
    PROVE  WatchIInv'
    <3> USE <2>Scan DEF Watch!Scan, Watch!inner, Watch!outer
    <3>1. WatchTypes'
      <4>1. watch' \in [triggered : BOOLEAN, seen : 0..MaxActivations, active : BOOLEAN]
        BY <2>0 DEF WatchTypes
      <4>2. /\ watchPc' \in [Watchers -> Places]
            /\ own' \in BOOLEAN /\ holder' \in Watchers \cup {Nobody}
        BY DEF WatchTypes, Watch!TypeOK, Places
      <4> QED BY <4>1, <4>2 DEF WatchTypes, Watch!TypeOK
    <3>2. Registering'
      BY DEF WatchTypes, Registering
    <3>3. OnTheLists'
      BY DEF WatchTypes, OnTheLists
    <3>4. Watch!NoMissedActivation'
      BY <2>0, <2>1
        DEF WatchTypes, Registering, OnTheLists, Watch!NoMissedActivation, Watch!Reportable, Watch!Ready
    <3> QED BY <3>1, <3>2, <3>3, <3>4
  <2>Timeout. ASSUME NEW t \in Watchers, Watch!Timeout(t)
    PROVE  WatchIInv'
    <3> USE <2>Timeout DEF Watch!Timeout, Watch!inner, Watch!outer
    <3>1. WatchTypes'
      BY <2>0 DEF WatchTypes, Watch!TypeOK, Places
    <3>2. Registering'
      BY DEF WatchTypes, Registering
    <3>3. OnTheLists'
      BY DEF WatchTypes, OnTheLists
    <3>4. Watch!NoMissedActivation'
      BY <2>0, <2>1
        DEF WatchTypes, Registering, OnTheLists, Watch!NoMissedActivation, Watch!Reportable, Watch!Ready
    <3> QED BY <3>1, <3>2, <3>3, <3>4
  <2>Gather. ASSUME NEW t \in Watchers, Watch!Gather(t)
    PROVE  WatchIInv'
    <3> USE <2>Gather DEF Watch!Gather, Watch!inner, Watch!outer
    <3>1. WatchTypes'
      BY <2>0 DEF WatchTypes, Watch!TypeOK, Places
    <3>2. Registering'
      BY DEF WatchTypes, Registering
    <3>3. OnTheLists'
      BY DEF WatchTypes, OnTheLists
    <3>4. Watch!NoMissedActivation'
      <4>1. ~own /\ ~outerClosed /\ Watch!Reportable' = Watch!Reportable
        BY DEF Registering, Watch!Reportable, Watch!Ready
      <4>2. innerClosed => ~Watch!Reportable
        BY <4>1 DEF Watch!Reportable, Watch!Ready
      <4> QED BY <4>1, <4>2 DEF WatchTypes, Registering, Watch!NoMissedActivation
    <3> QED BY <3>1, <3>2, <3>3, <3>4
  <2>Recheck. ASSUME NEW t \in Watchers, Watch!Recheck(t)
    PROVE  WatchIInv'
    <3> USE <2>Recheck DEF Watch!Recheck, Watch!inner, Watch!outer
    <3>1. WatchTypes'
      BY <2>0 DEF WatchTypes, Watch!TypeOK, Places
    <3>2. Registering'
      BY DEF WatchTypes, Registering
    <3>3. OnTheLists'
      BY DEF WatchTypes, OnTheLists
    <3>4. Watch!NoMissedActivation'
      <4>1. Watch!Ready' = Watch!Ready
        BY DEF Watch!Ready
      <4>2. ~own /\ ~Watch!Polled.triggered => ~Watch!Reportable'
        BY <4>1 DEF WatchTypes, Watch!Polled, Watch!Reportable
      <4>3. ~Watch!Reportable => ~Watch!Reportable'
        BY <2>1, <4>1 DEF WatchTypes, Watch!Reportable
      <4> HIDE DEF Watch!Reportable
      <4>4. ASSUME NEW u \in Watchers, watchPc'[u] = "poll", u \notin latched'
            PROVE  ~Watch!Reportable' /\ ~outerClosed'
        <5>1. CASE u = t
          BY <4>2, <4>4, <5>1 DEF WatchTypes, Registering
        <5>2. CASE u # t
          BY <4>3, <4>4, <5>2 DEF WatchTypes, Watch!NoMissedActivation
        <5> QED BY <5>1, <5>2
      <4>5. ASSUME NEW u \in Watchers, watchPc'[u] = "asleep"
            PROVE  /\ ~outerClosed' /\ ~watching'
                   /\ own' => \E v \in Watchers : watchPc'[v] \notin {"away", "asleep"}
        BY <4>5 DEF WatchTypes, Watch!NoMissedActivation
      <4> QED BY <4>4, <4>5 DEF Watch!NoMissedActivation
    <3> QED BY <3>1, <3>2, <3>3, <3>4
  <2>Poll. ASSUME NEW t \in Watchers, Watch!Poll(t)
    PROVE  WatchIInv'
    <3> USE <2>Poll DEF Watch!Poll, Watch!inner, Watch!outer
    <3>1. WatchTypes'
      BY <2>0 DEF WatchTypes, Watch!TypeOK, Places
    <3>2. Registering'
      BY DEF WatchTypes, Registering
    <3>3. OnTheLists'
      BY DEF WatchTypes, OnTheLists
    <3>4. Watch!NoMissedActivation'
      BY <2>0, <2>1
        DEF WatchTypes, Registering, OnTheLists, Watch!NoMissedActivation, Watch!Reportable, Watch!Ready
    <3> QED BY <3>1, <3>2, <3>3, <3>4
  <2>Drain. ASSUME NEW t \in Watchers, Watch!Drain(t)
    PROVE  WatchIInv'
    <3> USE <2>Drain DEF Watch!Drain, Watch!inner, Watch!outer
    <3>1. WatchTypes'
      BY <2>0 DEF WatchTypes, Watch!TypeOK, Places
    <3>2. Registering'
      BY DEF WatchTypes, Registering
    <3>3. OnTheLists'
      BY DEF WatchTypes, OnTheLists
    <3>4. Watch!NoMissedActivation'
      BY <2>0, <2>1
        DEF WatchTypes, Registering, OnTheLists, Watch!NoMissedActivation, Watch!Reportable, Watch!Ready
    <3> QED BY <3>1, <3>2, <3>3, <3>4
  <2>Release. ASSUME NEW t \in Watchers, Watch!Release(t)
    PROVE  WatchIInv'
    <3> USE <2>Release DEF Watch!Release, Watch!inner, Watch!outer
    <3>1. WatchTypes'
      BY <2>0 DEF WatchTypes, Watch!TypeOK, Places
    <3>2. Registering'
      BY DEF WatchTypes, Registering
    <3>3. OnTheLists'
      BY DEF WatchTypes, OnTheLists
    <3>4. Watch!NoMissedActivation'
      BY <2>0, <2>1
        DEF WatchTypes, Registering, OnTheLists, Watch!NoMissedActivation, Watch!Reportable, Watch!Ready
    <3> QED BY <3>1, <3>2, <3>3, <3>4
  <2>Return. ASSUME NEW t \in Watchers, Watch!Return(t)
    PROVE  WatchIInv'
    <3> USE <2>Return DEF Watch!Return, Watch!inner, Watch!outer
    <3>1. WatchTypes'
      BY <2>0 DEF WatchTypes, Watch!TypeOK, Places
    <3>2. Registering'
      BY DEF WatchTypes, Registering
    <3>3. OnTheLists'
      BY DEF WatchTypes, OnTheLists
    <3>4. Watch!NoMissedActivation'
      BY <2>0, <2>1
        DEF WatchTypes, Registering, OnTheLists, Watch!NoMissedActivation, Watch!Reportable, Watch!Ready
    <3> QED BY <3>1, <3>2, <3>3, <3>4
  <2> QED
    BY <2>EditNote, <2>Consume, <2>CloseInner, <2>RemoveWatch, <2>TriggerOwn, <2>Rearm, <2>CloseOuter, <2>Call,
       <2>Scan, <2>Timeout, <2>Gather, <2>Recheck, <2>Poll, <2>Drain, <2>Release, <2>Return
       DEF Watch!Next, Watch!Wait
<1>3. QueuesInit => (part = "watch" => WatchIInv)
  BY <1>1 DEF QueuesInit, PartsInit
<1>4. (part = "watch" => WatchIInv) /\ [QueuesNext]_<<part, vars, watchVars, rwlockVars>>
         => (part = "watch" => WatchIInv)'
  <2> SUFFICES ASSUME part = "watch", WatchIInv,
                      [QueuesNext]_<<part, vars, watchVars, rwlockVars>>
               PROVE  WatchIInv'
    BY DEF QueuesNext, PartsNext
  <2>1. CASE Watch!Next
    BY <1>2, <2>1
  <2>2. CASE UNCHANGED watchVars
    BY <2>2 DEF watchVars, WatchIInv, WatchTypes, Watch!TypeOK, Registering, OnTheLists,
                Watch!NoMissedActivation, Watch!Reportable, Watch!Ready
  <2> QED BY <2>1, <2>2 DEF QueuesNext, PartsNext
<1>5. (part = "watch" => WatchIInv) => NoMissedActivation
  BY DEF WatchIInv, NoMissedActivation
<1> QED BY <1>3, <1>4, <1>5, PTL DEF QueuesSpec
-----------------------------------------------------------------------------
(* The scePthread read-write lock.                                         *)

Objects == [writer : Threads \cup {NoThread}, readers : Nat, waitingWriters : Nat]

\* No two slots share a lock object.
Allocated ==
    \A s \in Slots : slot[s] \in Locks =>
        slot[s] \in allocated /\ \A r \in Slots : slot[r] = slot[s] => r = s

\* The read locks of a slot, each once: the n-th that a thread holds, for every n.
Reads(s) == {x \in Threads \X (1..MaxReads) : x[2] <= holds[x[1]][s]}

\* The object of a slot says what the threads hold of it.
LockSaysWhoHolds ==
    /\ \A s \in Slots : slot[s] \in Locks =>
          /\ \A t \in Threads : lock[slot[s]].writer = t <=> holds[t][s] = -1
          /\ lock[slot[s]].readers = Cardinality(Reads(s))
          /\ lock[slot[s]].writer # NoThread => lock[slot[s]].readers = 0
    /\ \A s \in Slots : slot[s] \notin Locks => \A t \in Threads : holds[t][s] = 0

\* A call keeps its slot from being destroyed, and its thread has room to hold it.
Inside ==
    /\ \A t \in Threads : pc[t] # "idle" =>
          /\ slot[call[t].slot] # Destroyed
          /\ IF call[t].write THEN holds[t][call[t].slot] = 0
                              ELSE holds[t][call[t].slot] \in 0..(MaxReads - 1)
    /\ \A t \in Threads : pc[t] \in {"enter", "wait"} => call[t].lock \in Locks
    /\ \A t \in asleep : pc[t] = "wait"

\* The writers that wait are counted.
WaitingWriters(l) == {t \in Threads : pc[t] = "wait" /\ call[t].write /\ call[t].lock = l}
WritersCounted == \A l \in Locks : lock[l].waitingWriters = Cardinality(WaitingWriters(l))

RwlockIInv ==
    Rwlock!TypeOK /\ Allocated /\ LockSaysWhoHolds /\ Inside /\ WritersCounted /\ Rwlock!NoMissedNotify

\* The invariant of the read-write lock holds in every reachable state.
LEMMA RwlockInvariance == QueuesSpec => [](part = "rwlock" => RwlockIInv)
<1> USE ThreadsAssumption, LocksAssumption, ReadsAssumption
<1> USE DEF Rwlock!Write, Rwlock!Step, Rwlock!shared, Rwlock!IsLock
<1>1. ASSUME Rwlock!Init PROVE RwlockIInv
  <2>1. Rwlock!TypeOK
    <3>1. (CHOOSE s \in Slots : TRUE) \in Slots
      OBVIOUS
    <3>2. call \in [Threads -> Rwlock!Calls]
      BY <1>1, <3>1 DEF Rwlock!Init, Rwlock!Calls
    <3>3. lock \in [Locks -> Objects]
      BY <1>1 DEF Rwlock!Init, Rwlock!NewLock, Objects
    <3>4. holds \in [Threads -> [Slots -> (-1)..MaxReads]]
      BY <1>1 DEF Rwlock!Init
    <3>5. /\ slot \in [Slots -> Locks \cup {Null, Destroyed}] /\ allocated \subseteq Locks
          /\ readLocksHeld \in [Threads -> Nat] /\ asleep \subseteq Threads
          /\ pc \in [Threads -> {"idle", "create", "enter", "wait"}]
          /\ \A t \in Threads : pc[t] = "idle"
      BY <1>1 DEF Rwlock!Init
    <3> QED BY <3>2, <3>3, <3>4, <3>5 DEF Rwlock!TypeOK, Objects
  <2>2. Allocated /\ LockSaysWhoHolds /\ Inside /\ Rwlock!NoMissedNotify
    BY <1>1 DEF Rwlock!Init, Allocated, LockSaysWhoHolds, Inside, Rwlock!NoMissedNotify
  <2>3. WritersCounted
    <3>1. \A l \in Locks : WaitingWriters(l) = {} /\ lock[l].waitingWriters = 0
      BY <1>1 DEF Rwlock!Init, WaitingWriters, Rwlock!NewLock
    <3> QED BY <3>1, FS_EmptySet DEF WritersCounted
  <2> QED BY <2>1, <2>2, <2>3 DEF RwlockIInv
<1>2. ASSUME RwlockIInv, Rwlock!Next
      PROVE  RwlockIInv'
  <2> USE <1>2 DEF RwlockIInv
  <2>0. /\ slot \in [Slots -> Locks \cup {Null, Destroyed}] /\ allocated \subseteq Locks
        /\ lock \in [Locks -> Objects] /\ readLocksHeld \in [Threads -> Nat]
        /\ pc \in [Threads -> {"idle", "create", "enter", "wait"}]
        /\ call \in [Threads -> Rwlock!Calls] /\ asleep \subseteq Threads
        /\ holds \in [Threads -> [Slots -> (-1)..MaxReads]]
        /\ \A u \in Threads : /\ call[u].slot \in Slots /\ call[u].write \in BOOLEAN
                              /\ call[u].lock \in Locks \cup {Null}
                              /\ pc[u] \in {"enter", "wait"} => slot[call[u].slot] = call[u].lock
    BY DEF Rwlock!TypeOK, Objects, Rwlock!Calls
  <2>1. /\ \A s \in Slots : IsFiniteSet(Reads(s)) /\ Cardinality(Reads(s)) \in Nat
        /\ \A l \in Locks : IsFiniteSet(WaitingWriters(l)) /\ Cardinality(WaitingWriters(l)) \in Nat
    <3>1. IsFiniteSet(Threads \X (1..MaxReads))
      <4>1. IsFiniteSet(1..MaxReads)
        BY FS_Interval
      <4> QED BY <4>1, FS_Product
    <3>2. \A s \in Slots : Reads(s) \subseteq Threads \X (1..MaxReads)
      BY DEF Reads
    <3>3. \A l \in Locks : WaitingWriters(l) \subseteq Threads
      BY DEF WaitingWriters
    <3> QED BY <3>1, <3>2, <3>3, FS_Subset, FS_CardinalityType
  \* Who waits for an object waits for one that is allocated.
  <2>2. \A u \in Threads : pc[u] \in {"enter", "wait"} => call[u].lock \in Locks /\ call[u].lock \in allocated
    BY <2>0 DEF Inside, Allocated
  \* A step after which an object is no freer than before admits nobody to it.
  <2>3. ASSUME NEW u \in Threads, call'[u] = call[u], readLocksHeld'[u] = readLocksHeld[u],
               ~Rwlock!MayEnter(u),
               LET a == lock[call[u].lock]
                   b == lock'[call[u].lock]
               IN  /\ b.writer = NoThread => a.writer = NoThread
                   /\ b.readers = 0 => a.readers = 0
                   /\ b.waitingWriters = 0 => a.waitingWriters = 0
        PROVE  ~Rwlock!MayEnter(u)'
    BY <2>3 DEF Rwlock!MayEnter, Rwlock!WriterMayEnter, Rwlock!ReaderMayEnter
  \* What a thread that enters leaves.
  <2>4. ASSUME NEW t \in Threads, pc[t] \in {"enter", "wait"}, Rwlock!MayEnter(t), Rwlock!Enter(t),
               asleep' \subseteq asleep \ {t}
        PROVE  RwlockIInv'
    <3>0. PICK s0 \in Slots, l \in Locks : s0 = call[t].slot /\ l = call[t].lock
      BY <2>0, <2>2, <2>4
    <3> DEFINE w == call[t].write
               h == holds[t][s0]
               n == IF pc[t] = "wait" /\ w THEN 1 ELSE 0
               new == [writer |-> IF w THEN t ELSE lock[l].writer,
                       readers |-> IF w THEN lock[l].readers ELSE lock[l].readers + 1,
                       waitingWriters |-> lock[l].waitingWriters - n]
               k == IF w THEN -1 ELSE h + 1
    <3>1. /\ s0 \in Slots /\ l \in Locks /\ w \in BOOLEAN /\ slot[s0] = l
          /\ IF w THEN h = 0 ELSE h \in 0..(MaxReads - 1)
      BY <2>0, <2>2, <2>4, <3>0 DEF Inside
    <3>2. /\ lock[l].writer = NoThread /\ lock[l].readers \in Nat /\ lock[l].waitingWriters \in Nat
          /\ w => lock[l].readers = 0
      BY <2>0, <2>4, <3>0, <3>1 DEF Rwlock!MayEnter, Rwlock!WriterMayEnter, Rwlock!ReaderMayEnter, Objects
    <3>3. /\ lock' = [lock EXCEPT ![l] = new]
          /\ holds' = [holds EXCEPT ![t][s0] = k]
          /\ pc' = [pc EXCEPT ![t] = "idle"]
          /\ readLocksHeld' = [readLocksHeld EXCEPT ![t] = IF w THEN readLocksHeld[t] ELSE readLocksHeld[t] + 1]
          /\ slot' = slot /\ allocated' = allocated /\ call' = call
      <4>1. lock' = [lock EXCEPT ![l] = new]
        BY <2>4, <3>0 DEF Rwlock!Enter
      <4>2. holds' = [holds EXCEPT ![t][s0] = k]
        BY <2>4, <3>0 DEF Rwlock!Enter, Rwlock!Write
      <4> QED BY <2>4, <4>1, <4>2 DEF Rwlock!Enter
    <3>4. /\ \A m \in Locks : lock'[m] = IF m = l THEN new ELSE lock[m]
          /\ \A u \in Threads, s \in Slots : holds'[u][s] = IF u = t /\ s = s0 THEN k ELSE holds[u][s]
          /\ \A u \in Threads : pc'[u] = IF u = t THEN "idle" ELSE pc[u]
          /\ \A u \in Threads : u # t => readLocksHeld'[u] = readLocksHeld[u]
      BY <2>0, <3>1, <3>3
    <3>5. n = 1 => lock[l].waitingWriters # 0
      <4>1. ASSUME n = 1 PROVE t \in WaitingWriters(l)
        BY <4>1, <2>4, <3>0 DEF WaitingWriters
      <4>2. WaitingWriters(l) # {} => Cardinality(WaitingWriters(l)) # 0
        BY <2>1, <3>1, FS_EmptySet
      <4> QED BY <3>1, <4>1, <4>2 DEF WritersCounted
    <3>6. new \in Objects
      BY <3>1, <3>2, <3>5 DEF Objects
    <3>7. Rwlock!TypeOK'
      <4>1. lock' \in [Locks -> Objects]
        BY <2>0, <3>3, <3>6
      <4>2. holds' \in [Threads -> [Slots -> (-1)..MaxReads]]
        <5>1. k \in (-1)..MaxReads
          BY <3>1
        <5> QED BY <2>0, <3>3, <5>1
      <4>3. readLocksHeld' \in [Threads -> Nat]
        BY <2>0, <3>3
      <4>4. pc' \in [Threads -> {"idle", "create", "enter", "wait"}]
        BY <2>0, <3>3
      <4> QED BY <2>0, <2>4, <3>3, <3>4, <4>1, <4>2, <4>3, <4>4 DEF Rwlock!TypeOK, Objects
    <3>8. Allocated'
      BY <3>3 DEF Allocated
    <3>9. LockSaysWhoHolds'
      <4>1. ASSUME NEW s \in Slots, s # s0
            PROVE  Reads(s)' = Reads(s) /\ (slot[s] \in Locks => lock'[slot[s]] = lock[slot[s]])
        BY <3>1, <3>4, <4>1 DEF Reads, Allocated
      <4>2. /\ \A u \in Threads : new.writer = u <=> holds'[u][s0] = -1
            /\ new.writer # NoThread => new.readers = 0
        BY <3>1, <3>2, <3>4 DEF LockSaysWhoHolds
      <4>3. new.readers = Cardinality(Reads(s0)')
        <5>1. CASE w
          <6>1. \A u \in Threads, i \in 1..MaxReads :
                   i <= holds'[u][s0] <=> i <= holds[u][s0]
            <7>1. h = 0 /\ k = -1 /\ \A i \in 1..MaxReads : ~(i <= 0) /\ ~(i <= -1)
              BY <3>1, <5>1
            <7> HIDE DEF k
            <7> QED BY <3>4, <7>1
          <6> HIDE DEF h, k
          <6>2. Reads(s0)' = Reads(s0)
            BY <6>1 DEF Reads
          <6> QED BY <3>1, <5>1, <6>2 DEF LockSaysWhoHolds
        <5>2. CASE ~w
          <6>1. \A u \in Threads, i \in 1..MaxReads :
                   i <= holds'[u][s0] <=> i <= holds[u][s0] \/ (u = t /\ i = h + 1)
            <7>1. k = h + 1 /\ h \in Nat
              BY <3>1, <5>2
            <7>2. \A i \in 1..MaxReads : i <= h + 1 <=> i <= h \/ i = h + 1
              BY <7>1
            <7> HIDE DEF k
            <7> QED BY <3>4, <7>1, <7>2
          <6>2. h + 1 \in 1..MaxReads /\ ~(h + 1 <= h)
            BY <3>1, <5>2
          <6> HIDE DEF h, k
          <6>3. Reads(s0)' = Reads(s0) \cup {<<t, h + 1>>}
            BY <6>1, <6>2 DEF Reads
          <6>4. <<t, h + 1>> \notin Reads(s0)
            BY <6>2 DEF Reads, h
          <6>5. Cardinality(Reads(s0)') = Cardinality(Reads(s0)) + 1
            BY <2>1, <3>1, <6>3, <6>4, FS_AddElement
          <6>6. Cardinality(Reads(s0)) = lock[l].readers
            BY <3>1 DEF LockSaysWhoHolds
          <6> QED BY <5>2, <6>5, <6>6
        <5> QED BY <3>1, <5>1, <5>2
      <4> HIDE DEF new
      <4>5. ASSUME NEW s \in Slots, slot'[s] \in Locks
            PROVE  /\ \A u \in Threads : lock'[slot'[s]].writer = u <=> holds'[u][s] = -1
                   /\ lock'[slot'[s]].readers = Cardinality(Reads(s)')
                   /\ lock'[slot'[s]].writer # NoThread => lock'[slot'[s]].readers = 0
        <5>1. CASE s = s0
          BY <3>1, <3>3, <3>4, <4>2, <4>3, <5>1
        <5>2. CASE s # s0
          BY <3>3, <3>4, <4>1, <4>5, <5>2 DEF LockSaysWhoHolds
        <5> QED BY <5>1, <5>2
      <4>6. \A s \in Slots : slot'[s] \notin Locks => \A u \in Threads : holds'[u][s] = 0
        BY <3>1, <3>3, <3>4 DEF LockSaysWhoHolds
      <4> QED BY <4>5, <4>6 DEF LockSaysWhoHolds
    <3>10. Inside'
      <4>1. \A u \in Threads : pc'[u] # "idle" => u # t /\ pc[u] # "idle"
        BY <3>4
      <4>2. \A u \in Threads : pc'[u] \in {"enter", "wait"} => u # t /\ pc[u] \in {"enter", "wait"}
        BY <3>4
      <4>3. \A u \in Threads, s \in Slots : u # t => holds'[u][s] = holds[u][s]
        BY <3>4
      <4>4. \A u \in asleep' : u # t /\ u \in asleep
        BY <2>4
      <4> HIDE DEF w, h, n, new, k
      <4> QED BY <2>0, <3>3, <3>4, <4>1, <4>2, <4>3, <4>4 DEF Inside
    <3>11. WritersCounted'
      <4>1. \A m \in Locks : WaitingWriters(m)' = IF m = l /\ n = 1 THEN WaitingWriters(m) \ {t} ELSE WaitingWriters(m)
        BY <2>4, <3>0, <3>1, <3>3, <3>4 DEF WaitingWriters
      <4>2. n = 1 => t \in WaitingWriters(l)
        BY <2>4, <3>0 DEF WaitingWriters
      <4>3. ASSUME NEW m \in Locks PROVE lock'[m].waitingWriters = Cardinality(WaitingWriters(m)')
        <5>1. CASE m = l /\ n = 1
          <6>1. Cardinality(WaitingWriters(l) \ {t}) = Cardinality(WaitingWriters(l)) - 1
            BY <2>1, <3>1, <4>2, <5>1, FS_RemoveElement
          <6>2. lock'[l].waitingWriters = lock[l].waitingWriters - 1
            BY <3>1, <3>4, <5>1
          <6>3. lock[l].waitingWriters = Cardinality(WaitingWriters(l))
            BY <3>1 DEF WritersCounted
          <6> HIDE DEF w, h, n, new, k
          <6> QED BY <4>1, <5>1, <6>1, <6>2, <6>3
        <5>2. CASE ~(m = l /\ n = 1)
          BY <3>2, <3>4, <4>1, <5>2 DEF WritersCounted
        <5> QED BY <5>1, <5>2
      <4> QED BY <4>3 DEF WritersCounted
    <3>12. Rwlock!NoMissedNotify'
      <4> SUFFICES ASSUME NEW u \in asleep' PROVE ~Rwlock!MayEnter(u)'
        BY DEF Rwlock!NoMissedNotify
      <4>1. /\ u \in Threads /\ u # t /\ u \in asleep /\ pc[u] = "wait" /\ call[u].lock \in Locks
            /\ call[u].write \in BOOLEAN /\ ~Rwlock!MayEnter(u)
        BY <2>0, <2>2, <2>4 DEF Inside, Rwlock!NoMissedNotify
      <4>2. CASE call[u].lock = l /\ w
        BY <3>1, <3>3, <3>4, <4>1, <4>2 DEF Rwlock!MayEnter, Rwlock!WriterMayEnter, Rwlock!ReaderMayEnter
      <4>3. CASE ~(call[u].lock = l /\ w)
        BY <2>3, <3>1, <3>2, <3>3, <3>4, <4>1, <4>3
      <4> QED BY <4>2, <4>3
    <3> QED BY <3>7, <3>8, <3>9, <3>10, <3>11, <3>12
  <2>Begin. ASSUME NEW t \in Threads, NEW c \in Rwlock!Calls, Rwlock!Begin(t, c)
    PROVE  RwlockIInv'
    <3> USE <2>Begin DEF Rwlock!Begin
    <3>1. Rwlock!TypeOK'
      BY <2>0 DEF Rwlock!TypeOK
    <3>2. Allocated'
      BY DEF Allocated
    <3>3. LockSaysWhoHolds'
      BY DEF LockSaysWhoHolds, Reads
    <3>4. Inside'
      BY <2>0 DEF Inside
    <3>5. WritersCounted'
      <4>1. \A l \in Locks : WaitingWriters(l)' = WaitingWriters(l)
        BY <2>0 DEF WaitingWriters
      <4> QED BY <4>1 DEF WritersCounted
    <3>6. Rwlock!NoMissedNotify'
      BY <2>0, <2>3 DEF Inside, Rwlock!NoMissedNotify
    <3> QED BY <3>1, <3>2, <3>3, <3>4, <3>5, <3>6
  <2>Refuse. ASSUME NEW t \in Threads, Rwlock!Refuse(t)
    PROVE  RwlockIInv'
    <3> USE <2>Refuse DEF Rwlock!Refuse
    <3>1. Rwlock!TypeOK'
      BY <2>0 DEF Rwlock!TypeOK
    <3>2. Allocated'
      BY DEF Allocated
    <3>3. LockSaysWhoHolds'
      BY DEF LockSaysWhoHolds, Reads
    <3>4. Inside'
      BY <2>0 DEF Inside
    <3>5. WritersCounted'
      <4>1. \A l \in Locks : WaitingWriters(l)' = WaitingWriters(l)
        BY <2>0 DEF WaitingWriters
      <4> QED BY <4>1 DEF WritersCounted
    <3>6. Rwlock!NoMissedNotify'
      BY <2>0, <2>3 DEF Inside, Rwlock!NoMissedNotify
    <3> QED BY <3>1, <3>2, <3>3, <3>4, <3>5, <3>6
  <2>SleepAgain. ASSUME NEW t \in Threads, Rwlock!SleepAgain(t)
    PROVE  RwlockIInv'
    <3> USE <2>SleepAgain DEF Rwlock!SleepAgain
    <3>1. Rwlock!TypeOK'
      BY <2>0 DEF Rwlock!TypeOK
    <3>2. Allocated' /\ LockSaysWhoHolds' /\ Inside' /\ WritersCounted'
      BY DEF Allocated, LockSaysWhoHolds, Reads, Inside, WritersCounted, WaitingWriters
    <3>3. Rwlock!NoMissedNotify'
      BY <2>0, <2>3 DEF Rwlock!NoMissedNotify
    <3> QED BY <3>1, <3>2, <3>3
  <2>EnterAtOnce. ASSUME NEW t \in Threads, Rwlock!EnterAtOnce(t)
    PROVE  RwlockIInv'
    BY <2>4, <2>EnterAtOnce DEF Rwlock!EnterAtOnce, Inside
  <2>EnterAfterWait. ASSUME NEW t \in Threads, Rwlock!EnterAfterWait(t)
    PROVE  RwlockIInv'
    BY <2>4, <2>EnterAfterWait DEF Rwlock!EnterAfterWait
  <2>Wait. ASSUME NEW t \in Threads, Rwlock!Wait(t)
    PROVE  RwlockIInv'
    <3> USE <2>Wait DEF Rwlock!Wait
    <3> DEFINE l == call[t].lock
               w == call[t].write
    <3>1. /\ l \in Locks /\ w \in BOOLEAN /\ pc' = [pc EXCEPT ![t] = "wait"]
          /\ lock[l].waitingWriters \in Nat
      BY <2>0, <2>2 DEF Objects
    <3>2. /\ lock' \in [Locks -> Objects]
          /\ \A m \in Locks : /\ lock'[m].writer = lock[m].writer /\ lock'[m].readers = lock[m].readers
                              /\ lock'[m].waitingWriters = IF m = l /\ w THEN lock[m].waitingWriters + 1
                                                             ELSE lock[m].waitingWriters
      <4>1. CASE w
        <5>1. lock' = [lock EXCEPT ![l].waitingWriters = lock[l].waitingWriters + 1]
          BY <4>1
        <5>2. lock[l] \in Objects /\ lock[l].waitingWriters + 1 \in Nat
          BY <2>0, <3>1
        <5> HIDE <2>Wait DEF Rwlock!Wait, l, w
        <5>3. [lock[l] EXCEPT !.waitingWriters = lock[l].waitingWriters + 1] \in Objects
          BY <5>2 DEF Objects
        <5>4. \A m \in Locks : lock'[m] = IF m = l THEN [lock[l] EXCEPT !.waitingWriters = lock[l].waitingWriters + 1]
                                                     ELSE lock[m]
          BY <2>0, <3>1, <5>1
        <5>5. lock' \in [Locks -> Objects]
          BY <2>0, <5>1, <5>3, <5>4
        <5> QED BY <4>1, <5>2, <5>4, <5>5 DEF Objects
      <4>2. CASE ~w
        BY <2>0, <4>2
      <4> QED BY <4>1, <4>2
    <3>3. Rwlock!TypeOK'
      BY <2>0, <3>1, <3>2 DEF Rwlock!TypeOK, Objects
    <3>4. Allocated'
      BY DEF Allocated
    <3>5. LockSaysWhoHolds'
      <4>1. slot' = slot /\ holds' = holds
        OBVIOUS
      <4> HIDE <2>Wait DEF Rwlock!Wait
      <4> QED BY <3>2, <4>1 DEF LockSaysWhoHolds, Reads
    <3>6. Inside'
      BY <2>0 DEF Inside
    <3>7. WritersCounted'
      <4>1. \A m \in Locks : WaitingWriters(m)' = IF m = l /\ w THEN WaitingWriters(m) \cup {t} ELSE WaitingWriters(m)
        BY <2>0, <3>1 DEF WaitingWriters
      <4>2. t \notin WaitingWriters(l)
        BY DEF WaitingWriters
      <4>3. Cardinality(WaitingWriters(l) \cup {t}) = Cardinality(WaitingWriters(l)) + 1
        BY <2>1, <3>1, <4>2, FS_AddElement
      <4> HIDE <2>Wait DEF Rwlock!Wait
      <4> QED BY <3>1, <3>2, <4>1, <4>3 DEF WritersCounted
    <3>8. Rwlock!NoMissedNotify'
      <4> SUFFICES ASSUME NEW u \in asleep' PROVE ~Rwlock!MayEnter(u)'
        BY DEF Rwlock!NoMissedNotify
      <4>1. /\ u \in Threads /\ ~Rwlock!MayEnter(u) /\ call[u].lock \in Locks
            /\ lock[call[u].lock].waitingWriters \in Nat
        BY <2>0, <2>2 DEF Inside, Rwlock!NoMissedNotify, Objects
      <4>2. call' = call /\ readLocksHeld' = readLocksHeld
        OBVIOUS
      <4> HIDE <2>Wait DEF Rwlock!Wait
      <4> QED BY <2>3, <3>2, <4>1, <4>2
    <3> QED BY <3>3, <3>4, <3>5, <3>6, <3>7, <3>8
  <2>TimeOut. ASSUME NEW t \in Threads, Rwlock!TimeOut(t)
    PROVE  RwlockIInv'
    <3> USE <2>TimeOut DEF Rwlock!TimeOut
    <3> DEFINE l == call[t].lock
               w == call[t].write
    <3>1. /\ l \in Locks /\ w \in BOOLEAN /\ pc' = [pc EXCEPT ![t] = "idle"] /\ pc[t] = "wait"
          /\ w => t \in WaitingWriters(l)
      BY <2>0, <2>2 DEF WaitingWriters
    <3>2. w => /\ Cardinality(WaitingWriters(l) \ {t}) = Cardinality(WaitingWriters(l)) - 1
               /\ lock[l].waitingWriters = Cardinality(WaitingWriters(l))
               /\ Cardinality(WaitingWriters(l)) - 1 \in Nat
      <4> SUFFICES ASSUME w
                   PROVE  /\ Cardinality(WaitingWriters(l) \ {t}) = Cardinality(WaitingWriters(l)) - 1
                          /\ lock[l].waitingWriters = Cardinality(WaitingWriters(l))
                          /\ Cardinality(WaitingWriters(l)) - 1 \in Nat
        OBVIOUS
      <4>1. IsFiniteSet(WaitingWriters(l)) /\ t \in WaitingWriters(l)
        BY <2>1, <3>1
      <4> HIDE <2>TimeOut DEF Rwlock!TimeOut
      <4>2. Cardinality(WaitingWriters(l) \ {t}) = Cardinality(WaitingWriters(l)) - 1
        BY <4>1, FS_RemoveElement
      <4>3. Cardinality(WaitingWriters(l) \ {t}) \in Nat
        BY <4>1, FS_RemoveElement, FS_CardinalityType
      <4> QED BY <3>1, <4>2, <4>3 DEF WritersCounted
    <3>3. /\ lock' \in [Locks -> Objects]
          /\ \A m \in Locks : /\ lock'[m].writer = lock[m].writer /\ lock'[m].readers = lock[m].readers
                              /\ lock'[m].waitingWriters = IF m = l /\ w THEN lock[m].waitingWriters - 1
                                                             ELSE lock[m].waitingWriters
      <4>1. CASE w
        <5>1. lock' = [lock EXCEPT ![l].waitingWriters = lock[l].waitingWriters - 1]
          BY <4>1
        <5>2. lock[l].waitingWriters - 1 \in Nat
          BY <3>2, <4>1
        <5>3. lock[l] \in Objects
          BY <2>0, <3>1
        <5> HIDE <2>TimeOut DEF Rwlock!TimeOut, l, w
        <5>4. [lock[l] EXCEPT !.waitingWriters = lock[l].waitingWriters - 1] \in Objects
          BY <5>2, <5>3 DEF Objects
        <5>5. \A m \in Locks : lock'[m] = IF m = l THEN [lock[l] EXCEPT !.waitingWriters = lock[l].waitingWriters - 1]
                                                     ELSE lock[m]
          BY <2>0, <3>1, <5>1
        <5>6. lock' \in [Locks -> Objects]
          BY <2>0, <5>1, <5>4, <5>5
        <5> QED BY <4>1, <5>3, <5>5, <5>6 DEF Objects
      <4>2. CASE ~w
        BY <2>0, <4>2
      <4> QED BY <4>1, <4>2
    <3>4. /\ asleep' \subseteq asleep \ {t}
          /\ w => \A u \in asleep' : call[u].lock # l
      BY <2>0, <3>1 DEF Rwlock!GiveUpNotify, Rwlock!NotifyAll, Rwlock!Waiters, Inside
    <3>5. Rwlock!TypeOK'
      BY <2>0, <3>1, <3>3, <3>4 DEF Rwlock!TypeOK, Objects
    <3>6. Allocated'
      BY DEF Allocated
    <3>7. LockSaysWhoHolds'
      <4>1. slot' = slot /\ holds' = holds
        OBVIOUS
      <4> HIDE <2>TimeOut DEF Rwlock!TimeOut
      <4> QED BY <3>3, <4>1 DEF LockSaysWhoHolds, Reads
    <3>8. Inside'
      BY <2>0, <3>4 DEF Inside
    <3>9. WritersCounted'
      <4>1. \A m \in Locks : WaitingWriters(m)' = IF m = l /\ w THEN WaitingWriters(m) \ {t} ELSE WaitingWriters(m)
        BY <2>0, <3>1 DEF WaitingWriters
      <4> HIDE <2>TimeOut DEF Rwlock!TimeOut
      <4> QED BY <3>1, <3>2, <3>3, <4>1 DEF WritersCounted
    <3>10. Rwlock!NoMissedNotify'
      <4> SUFFICES ASSUME NEW u \in asleep' PROVE ~Rwlock!MayEnter(u)'
        BY DEF Rwlock!NoMissedNotify
      <4>1. u \in Threads /\ ~Rwlock!MayEnter(u) /\ call[u].lock \in Locks
        BY <2>0, <2>2, <3>4 DEF Inside, Rwlock!NoMissedNotify
      <4>2. call' = call /\ readLocksHeld' = readLocksHeld
        OBVIOUS
      <4> HIDE <2>TimeOut DEF Rwlock!TimeOut
      <4> QED BY <2>3, <3>3, <3>4, <4>1, <4>2
    <3> QED BY <3>5, <3>6, <3>7, <3>8, <3>9, <3>10
  \* What a slot that gets a new object leaves.
  <2> DEFINE Stores(s, l) ==
               /\ slot[s] \notin Locks /\ slot' = [slot EXCEPT ![s] = l]
               /\ l \notin allocated /\ allocated' = allocated \cup {l}
               /\ lock' = [lock EXCEPT ![l] = Rwlock!NewLock]
               /\ holds' = holds /\ readLocksHeld' = readLocksHeld /\ asleep' = asleep
             Moves(s, l) ==
               /\ call' \in [Threads -> Rwlock!Calls]
               /\ pc' \in [Threads -> {"idle", "create", "enter", "wait"}]
               /\ \A u \in Threads : pc'[u] \in {"enter", "wait"} /\ pc'[u] # pc[u] =>
                     pc'[u] = "enter" /\ pc[u] = "create" /\ call'[u].slot = s /\ call'[u].lock = l
               /\ \A u \in Threads : pc'[u] # "idle" => pc[u] # "idle"
               /\ \A u \in Threads : pc[u] = "wait" => pc'[u] = "wait"
               /\ \A u \in Threads : call'[u].slot = call[u].slot /\ call'[u].write = call[u].write
               /\ \A u \in Threads : pc[u] # "create" => call'[u] = call[u]
  <2>5. ASSUME NEW s0 \in Slots, NEW l \in Locks, Stores(s0, l), Moves(s0, l)
        PROVE  RwlockIInv'
    <3>1. /\ Rwlock!NewLock \in Objects /\ Rwlock!NewLock.writer = NoThread
          /\ Rwlock!NewLock.readers = 0 /\ Rwlock!NewLock.waitingWriters = 0
      BY DEF Rwlock!NewLock, Objects
    <3>2. /\ \A s \in Slots : slot'[s] = IF s = s0 THEN l ELSE slot[s]
          /\ \A m \in Locks : lock'[m] = IF m = l THEN Rwlock!NewLock ELSE lock[m]
          /\ slot' \in [Slots -> Locks \cup {Null, Destroyed}] /\ lock' \in [Locks -> Objects]
      BY <2>0, <2>5, <3>1
    <3>3. \A u \in Threads : pc[u] \in {"enter", "wait"} => call[u].slot # s0 /\ call[u].lock # l
      BY <2>0, <2>2, <2>5
    <3>4. Rwlock!TypeOK'
      <4>1. \A u \in Threads : pc'[u] \in {"enter", "wait"} => slot'[call'[u].slot] = call'[u].lock
        BY <2>0, <2>5, <3>2, <3>3
      <4> QED BY <2>0, <2>5, <3>2, <4>1 DEF Rwlock!TypeOK, Objects
    <3>5. Allocated'
      BY <2>5, <3>2 DEF Allocated
    <3>6. LockSaysWhoHolds'
      <4>1. /\ \A u \in Threads : holds[u][s0] = 0
            /\ Reads(s0) = {}
        <5>1. \A u \in Threads : holds[u][s0] = 0
          BY <2>5 DEF LockSaysWhoHolds
        <5>2. \A i \in 1..MaxReads : ~(i <= 0)
          OBVIOUS
        <5> QED BY <5>1, <5>2 DEF Reads
      <4>2. \A s \in Slots : Reads(s)' = Reads(s)
        BY <2>5 DEF Reads
      <4>3. \A s \in Slots : s # s0 /\ slot'[s] \in Locks => slot[s] # l /\ slot'[s] = slot[s]
        BY <2>5, <3>2 DEF Allocated
      <4>4. Cardinality(Reads(s0)') = 0
        BY <2>5, <4>1, <4>2, FS_EmptySet
      <4>5. ASSUME NEW s \in Slots, slot'[s] \in Locks
            PROVE  /\ \A u \in Threads : lock'[slot'[s]].writer = u <=> holds'[u][s] = -1
                   /\ lock'[slot'[s]].readers = Cardinality(Reads(s)')
                   /\ lock'[slot'[s]].writer # NoThread => lock'[slot'[s]].readers = 0
        <5>1. CASE s = s0
          BY <2>5, <3>1, <3>2, <4>1, <4>4, <5>1
        <5>2. CASE s # s0
          BY <2>5, <3>2, <4>2, <4>3, <4>5, <5>2 DEF LockSaysWhoHolds
        <5> QED BY <5>1, <5>2
      <4>6. \A s \in Slots : slot'[s] \notin Locks => \A u \in Threads : holds'[u][s] = 0
        BY <2>5, <3>2 DEF LockSaysWhoHolds
      <4> QED BY <4>5, <4>6 DEF LockSaysWhoHolds
    <3>7. Inside'
      <4>1. \A u \in Threads : pc'[u] \in {"enter", "wait"} => call'[u].lock \in Locks
        BY <2>0, <2>2, <2>5
      <4>2. \A u \in Threads : pc'[u] # "idle" => slot'[call'[u].slot] # Destroyed
        BY <2>0, <2>5, <3>2 DEF Inside
      <4>3. \A u \in Threads : pc'[u] # "idle" =>
               IF call'[u].write THEN holds'[u][call'[u].slot] = 0
                                 ELSE holds'[u][call'[u].slot] \in 0..(MaxReads - 1)
        BY <2>0, <2>5 DEF Inside
      <4>4. \A u \in asleep' : pc'[u] = "wait"
        BY <2>0, <2>5 DEF Inside
      <4> QED BY <4>1, <4>2, <4>3, <4>4 DEF Inside
    <3>8. WritersCounted'
      <4>1. \A m \in Locks : WaitingWriters(m)' = WaitingWriters(m)
        <5>1. \A u \in Threads : pc'[u] = "wait" <=> pc[u] = "wait"
          BY <2>5
        <5>2. \A u \in Threads : pc[u] = "wait" => call'[u] = call[u]
          BY <2>5
        <5> QED BY <5>1, <5>2 DEF WaitingWriters
      <4>2. WaitingWriters(l) = {}
        BY <3>3 DEF WaitingWriters
      <4> QED BY <3>1, <3>2, <4>1, <4>2, FS_EmptySet DEF WritersCounted
    <3>9. Rwlock!NoMissedNotify'
      <4> SUFFICES ASSUME NEW u \in asleep' PROVE ~Rwlock!MayEnter(u)'
        BY DEF Rwlock!NoMissedNotify
      <4>1. /\ u \in Threads /\ ~Rwlock!MayEnter(u) /\ call'[u] = call[u]
            /\ call[u].lock \in Locks /\ call[u].lock # l
        BY <2>0, <2>2, <2>5, <3>3 DEF Inside, Rwlock!NoMissedNotify
      <4> QED BY <2>3, <2>5, <3>2, <4>1
    <3> QED BY <3>4, <3>5, <3>6, <3>7, <3>8, <3>9
  <2>Create. ASSUME NEW t \in Threads, Rwlock!Create(t)
    PROVE  RwlockIInv'
    <3>s. PICK s0 \in Slots : s0 = call[t].slot
      BY <2>0 DEF Inside
    <3>0. /\ s0 = call[t].slot /\ pc[t] = "create" /\ slot[s0] # Destroyed
          /\ holds' = holds /\ readLocksHeld' = readLocksHeld /\ asleep' = asleep
      BY <2>0, <2>Create, <3>s DEF Rwlock!Create, Inside
    <3>1. CASE slot[s0] = Null
      <4>1. PICK l \in Locks \ allocated :
               /\ slot' = [slot EXCEPT ![s0] = l] /\ allocated' = allocated \cup {l}
               /\ lock' = [lock EXCEPT ![l] = Rwlock!NewLock]
               /\ call' = [call EXCEPT ![t].lock = l]
               /\ pc' = [pc EXCEPT ![t] = "enter"]
        BY <2>Create, <3>0, <3>1 DEF Rwlock!Create, Rwlock!Creates
      <4>2. call' \in [Threads -> Rwlock!Calls] /\ pc' \in [Threads -> {"idle", "create", "enter", "wait"}]
        <5>1. call[t] \in Rwlock!Calls
          BY <2>0
        <5>2. [call[t] EXCEPT !.lock = l] \in Rwlock!Calls
          BY <5>1 DEF Rwlock!Calls
        <5> QED BY <2>0, <4>1, <5>2
      <4>3. /\ \A u \in Threads : u # t => call'[u] = call[u] /\ pc'[u] = pc[u]
            /\ call'[t].slot = s0 /\ call'[t].write = call[t].write /\ call'[t].lock = l
            /\ pc'[t] = "enter"
        BY <2>0, <3>0, <4>1 DEF Rwlock!Calls
      <4>4. slot[s0] \notin Locks
        BY <3>1
      <4>5. /\ \A u \in Threads : pc'[u] \in {"enter", "wait"} /\ pc'[u] # pc[u] =>
                  pc'[u] = "enter" /\ pc[u] = "create" /\ call'[u].slot = s0 /\ call'[u].lock = l
            /\ \A u \in Threads : pc'[u] # "idle" => pc[u] # "idle"
            /\ \A u \in Threads : pc[u] = "wait" => pc'[u] = "wait"
            /\ \A u \in Threads : call'[u].slot = call[u].slot /\ call'[u].write = call[u].write
            /\ \A u \in Threads : pc[u] # "create" => call'[u] = call[u]
        BY <3>0, <4>3
      <4>6. Stores(s0, l)
        BY <3>0, <4>1, <4>4
      <4>7. Moves(s0, l)
        BY <4>1, <4>2, <4>5
      <4> HIDE DEF Stores, Moves
      <4> QED BY <2>5, <4>6, <4>7
    <3>2. CASE slot[s0] # Null
      <4>1. /\ slot[s0] \in Locks /\ UNCHANGED <<slot, allocated, lock>>
            /\ call' = [call EXCEPT ![t].lock = slot[s0]]
            /\ pc' = [pc EXCEPT ![t] = "enter"]
        BY <2>0, <2>Create, <3>0, <3>2 DEF Rwlock!Create, Rwlock!Creates
      <4>2. /\ call' \in [Threads -> Rwlock!Calls]
            /\ pc' \in [Threads -> {"idle", "create", "enter", "wait"}]
            /\ \A u \in Threads : u # t => call'[u] = call[u] /\ pc'[u] = pc[u]
            /\ call'[t].slot = s0 /\ call'[t].write = call[t].write /\ call'[t].lock = slot[s0]
            /\ pc'[t] = "enter"
        <5>1. /\ call[t] \in Rwlock!Calls /\ [call[t] EXCEPT !.lock = slot[s0]] \in Rwlock!Calls
              /\ [call[t] EXCEPT !.lock = slot[s0]].slot = s0
              /\ [call[t] EXCEPT !.lock = slot[s0]].write = call[t].write
              /\ [call[t] EXCEPT !.lock = slot[s0]].lock = slot[s0]
          BY <2>0, <3>0, <4>1 DEF Rwlock!Calls
        <5>2. /\ call'[t] = [call[t] EXCEPT !.lock = slot[s0]] /\ pc'[t] = "enter"
              /\ \A u \in Threads : u # t => call'[u] = call[u] /\ pc'[u] = pc[u]
          BY <2>0, <4>1
        <5>3. call' \in [Threads -> Rwlock!Calls]
          BY <2>0, <4>1, <5>1
        <5>4. pc' \in [Threads -> {"idle", "create", "enter", "wait"}]
          BY <2>0, <4>1
        <5> QED BY <5>1, <5>2, <5>3, <5>4
      <4>3. Rwlock!TypeOK'
        BY <2>0, <3>0, <4>1, <4>2 DEF Rwlock!TypeOK
      <4>4. Allocated' /\ LockSaysWhoHolds'
        BY <3>0, <4>1 DEF Allocated, LockSaysWhoHolds, Reads
      <4>5. Inside'
        BY <2>0, <3>0, <4>1, <4>2 DEF Inside
      <4>6. \A l \in Locks : WaitingWriters(l)' = WaitingWriters(l)
        BY <3>0, <4>2 DEF WaitingWriters
      <4>7. WritersCounted'
        BY <4>1, <4>6 DEF WritersCounted
      <4>8. Rwlock!NoMissedNotify'
        BY <2>0, <2>3, <3>0, <4>1, <4>2 DEF Inside, Rwlock!NoMissedNotify
      <4> QED BY <4>3, <4>4, <4>5, <4>7, <4>8
    <3> QED BY <3>1, <3>2
  <2>InitLock. ASSUME NEW t \in Threads, NEW s0 \in Slots, Rwlock!InitLock(t, s0)
    PROVE  RwlockIInv'
    <3>1. PICK l \in Locks \ allocated :
             /\ slot' = [slot EXCEPT ![s0] = l] /\ allocated' = allocated \cup {l}
             /\ lock' = [lock EXCEPT ![l] = Rwlock!NewLock]
      BY <2>InitLock DEF Rwlock!InitLock
    <3>2. /\ slot[s0] \notin Locks
          /\ holds' = holds /\ readLocksHeld' = readLocksHeld /\ asleep' = asleep
          /\ pc' = pc /\ call' = call
      BY <2>InitLock DEF Rwlock!InitLock
    <3>3. Stores(s0, l)
      BY <3>1, <3>2
    <3>4. Moves(s0, l)
      BY <2>0, <3>2
    <3> HIDE DEF Stores, Moves
    <3> QED BY <2>5, <3>3, <3>4
  <2>Destroy. ASSUME NEW t \in Threads, NEW s0 \in Slots, Rwlock!Destroy(t, s0)
    PROVE  RwlockIInv'
    <3>1. /\ slot[s0] \in Locks
          /\ \A u \in Threads : pc[u] # "idle" => call[u].slot # s0
          /\ slot' = [slot EXCEPT ![s0] = Destroyed]
          /\ allocated' \subseteq allocated /\ allocated \subseteq allocated' \cup {slot[s0]}
          /\ holds' = [u \in Threads |-> [holds[u] EXCEPT ![s0] = 0]]
          /\ UNCHANGED <<lock, readLocksHeld, pc, call, asleep>>
      BY <2>Destroy DEF Rwlock!Destroy
    <3>2. /\ \A s \in Slots : slot'[s] = IF s = s0 THEN Destroyed ELSE slot[s]
          /\ \A u \in Threads, s \in Slots : holds'[u][s] = IF s = s0 THEN 0 ELSE holds[u][s]
          /\ slot' \in [Slots -> Locks \cup {Null, Destroyed}]
          /\ holds' \in [Threads -> [Slots -> (-1)..MaxReads]]
      BY <2>0, <3>1
    <3>3. Rwlock!TypeOK'
      BY <2>0, <3>1, <3>2 DEF Rwlock!TypeOK
    <3>4. Allocated'
      BY <3>1, <3>2 DEF Allocated
    <3>5. LockSaysWhoHolds'
      <4>1. \A s \in Slots : s # s0 => Reads(s)' = Reads(s)
        BY <3>2 DEF Reads
      <4> QED BY <3>1, <3>2, <4>1 DEF LockSaysWhoHolds
    <3>6. Inside'
      BY <2>0, <3>1, <3>2 DEF Inside
    <3>7. WritersCounted'
      BY <3>1 DEF WritersCounted, WaitingWriters
    <3>8. Rwlock!NoMissedNotify'
      BY <2>0, <2>3, <3>1 DEF Rwlock!NoMissedNotify
    <3> QED BY <3>3, <3>4, <3>5, <3>6, <3>7, <3>8
  <2>Unlock. ASSUME NEW t \in Threads, NEW s0 \in Slots, Rwlock!Unlock(t, s0)
    PROVE  RwlockIInv'
    <3> DEFINE h == holds[t][s0]
               k == IF h = -1 THEN 0 ELSE h - 1
    <3>0. PICK l \in Locks : l = slot[s0]
      BY <2>Unlock DEF Rwlock!Unlock
    <3>1. /\ pc[t] = "idle" /\ h # 0 /\ h \in (-1)..MaxReads /\ k \in 0..MaxReads
          /\ holds' = [holds EXCEPT ![t][s0] = k]
          /\ UNCHANGED <<slot, allocated, pc, call>>
      <4>1. /\ pc[t] = "idle" /\ h # 0 /\ UNCHANGED <<slot, allocated, pc, call>>
            /\ holds' = [holds EXCEPT ![t][s0] = IF h = -1 THEN 0 ELSE h - 1]
        BY <2>Unlock DEF Rwlock!Unlock, Rwlock!Write
      <4>2. h \in (-1)..MaxReads
        BY <2>0
      <4> QED BY <4>1, <4>2
    <3>2. /\ holds' \in [Threads -> [Slots -> (-1)..MaxReads]]
          /\ \A u \in Threads, s \in Slots : holds'[u][s] = IF u = t /\ s = s0 THEN k ELSE holds[u][s]
      BY <2>0, <3>1
    <3>3. lock[l].writer = t <=> h = -1
      BY <3>0 DEF LockSaysWhoHolds
    <3>4. /\ lock' \in [Locks -> Objects]
          /\ \A m \in Locks : m # l => lock'[m] = lock[m]
          /\ lock'[l].waitingWriters = lock[l].waitingWriters
          /\ lock'[l].writer = NoThread
          /\ lock'[l].readers = IF h = -1 THEN lock[l].readers ELSE lock[l].readers - 1
          /\ readLocksHeld' \in [Threads -> Nat]
          /\ \A u \in Threads : u # t => readLocksHeld'[u] = readLocksHeld[u]
          /\ h # -1 => lock[l].writer = NoThread /\ lock[l].readers # 0
      <4>1. CASE h = -1
        <5>1. lock' = [lock EXCEPT ![l].writer = NoThread] /\ readLocksHeld' = readLocksHeld
          BY <2>Unlock, <3>0, <3>3, <4>1 DEF Rwlock!Unlock
        <5> HIDE DEF h
        <5>2. lock[l] \in Objects /\ [lock[l] EXCEPT !.writer = NoThread] \in Objects
          BY <2>0 DEF Objects
        <5>3. lock' \in [Locks -> Objects]
          BY <2>0, <5>1, <5>2
        <5>4. /\ \A m \in Locks : m # l => lock'[m] = lock[m]
              /\ lock'[l] = [lock[l] EXCEPT !.writer = NoThread]
          BY <2>0, <5>1
        <5> QED BY <2>0, <4>1, <5>1, <5>2, <5>3, <5>4 DEF Objects
      <4>2. CASE h # -1
        <5>1. /\ lock' = [lock EXCEPT ![l].readers = lock[l].readers - 1]
              /\ readLocksHeld' = [readLocksHeld EXCEPT ![t] = Rwlock!CountedDown(t)]
              /\ lock[l].writer = NoThread /\ lock[l].readers # 0
          BY <2>Unlock, <3>0, <3>3, <4>2 DEF Rwlock!Unlock
        <5>2. Rwlock!CountedDown(t) \in Nat
          BY <2>0 DEF Rwlock!CountedDown
        <5>0. lock[l] \in Objects
          BY <2>0
        <5>3. lock[l] \in Objects /\ lock[l].readers - 1 \in Nat
          BY <5>0, <5>1 DEF Objects
        <5>4. [lock[l] EXCEPT !.readers = lock[l].readers - 1] \in Objects
          BY <5>3 DEF Objects
        <5> HIDE DEF h
        <5>5. lock' \in [Locks -> Objects]
          BY <2>0, <5>1, <5>4
        <5>6. /\ \A m \in Locks : m # l => lock'[m] = lock[m]
              /\ lock'[l] = [lock[l] EXCEPT !.readers = lock[l].readers - 1]
          BY <2>0, <5>1
        <5>7. /\ readLocksHeld' \in [Threads -> Nat]
              /\ \A u \in Threads : u # t => readLocksHeld'[u] = readLocksHeld[u]
          BY <2>0, <5>1, <5>2
        <5> QED BY <4>2, <5>1, <5>3, <5>5, <5>6, <5>7 DEF Objects
      <4> QED BY <4>1, <4>2
    <3>5. /\ asleep' \subseteq asleep
          /\ (h = -1 \/ lock[l].readers = 1) => \A u \in asleep' : call[u].lock # l
      <4>1. ASSUME h = -1 \/ lock[l].readers = 1
            PROVE  asleep' = asleep \ Rwlock!Waiters(l)
        BY <2>Unlock, <3>0, <3>3, <4>1 DEF Rwlock!Unlock, Rwlock!NotifyAll
      <4>2. asleep' \subseteq asleep
        BY <2>Unlock DEF Rwlock!Unlock, Rwlock!NotifyAll
      <4> QED BY <2>0, <4>1, <4>2 DEF Rwlock!Waiters, Inside
    <3> HIDE DEF k
    <3>6. Rwlock!TypeOK'
      BY <2>0, <3>1, <3>2, <3>4, <3>5 DEF Rwlock!TypeOK, Objects
    <3>7. Allocated'
      BY <3>1 DEF Allocated
    <3>8. LockSaysWhoHolds'
      <4>1. ASSUME NEW s \in Slots, s # s0
            PROVE  Reads(s)' = Reads(s) /\ (slot[s] \in Locks => lock'[slot[s]] = lock[slot[s]])
        BY <3>0, <3>2, <3>4, <4>1 DEF Reads, Allocated
      <4>2. \A u \in Threads : holds'[u][s0] # -1
        BY <3>0, <3>1, <3>2, <3>3, <3>4 DEF LockSaysWhoHolds
      <4>3. lock'[l].readers = Cardinality(Reads(s0)')
        <5>1. CASE h = -1
          <6>1. \A u \in Threads, i \in 1..MaxReads :
                   i <= holds'[u][s0] <=> i <= holds[u][s0]
            <7>1. k = 0 /\ \A i \in 1..MaxReads : ~(i <= 0) /\ ~(i <= -1)
              BY <5>1 DEF k
            <7> QED BY <3>2, <5>1, <7>1
          <6> HIDE DEF h
          <6>2. Reads(s0)' = Reads(s0)
            BY <6>1 DEF Reads
          <6> QED BY <3>0, <3>4, <5>1, <6>2 DEF LockSaysWhoHolds
        <5>2. CASE h # -1
          <6>1. \A u \in Threads, i \in 1..MaxReads :
                   i <= holds'[u][s0] <=> i <= holds[u][s0] /\ ~(u = t /\ i = h)
            <7>1. k = h - 1 /\ h \in Nat
              BY <3>1, <5>2 DEF k
            <7>2. \A i \in 1..MaxReads : i <= h - 1 <=> i <= h /\ i # h
              BY <7>1
            <7> QED BY <3>2, <7>1, <7>2
          <6>2. h \in 1..MaxReads /\ h <= h
            BY <3>1, <5>2
          <6> HIDE DEF h
          <6>3. Reads(s0)' = Reads(s0) \ {<<t, h>>}
            BY <6>1, <6>2 DEF Reads
          <6>4. <<t, h>> \in Reads(s0)
            BY <6>2 DEF Reads, h
          <6>5. Cardinality(Reads(s0)') = Cardinality(Reads(s0)) - 1
            BY <2>1, <6>3, <6>4, FS_RemoveElement
          <6>6. Cardinality(Reads(s0)) = lock[l].readers
            BY <3>0 DEF LockSaysWhoHolds
          <6> QED BY <3>4, <5>2, <6>5, <6>6
        <5> QED BY <5>1, <5>2
      <4>5. ASSUME NEW s \in Slots, slot'[s] \in Locks
            PROVE  /\ \A u \in Threads : lock'[slot'[s]].writer = u <=> holds'[u][s] = -1
                   /\ lock'[slot'[s]].readers = Cardinality(Reads(s)')
                   /\ lock'[slot'[s]].writer # NoThread => lock'[slot'[s]].readers = 0
        <5>1. CASE s = s0
          BY <3>0, <3>1, <3>4, <4>2, <4>3, <5>1
        <5>2. CASE s # s0
          BY <3>1, <3>2, <4>1, <4>5, <5>2 DEF LockSaysWhoHolds
        <5> QED BY <5>1, <5>2
      <4>6. \A s \in Slots : slot'[s] \notin Locks => \A u \in Threads : holds'[u][s] = 0
        BY <3>0, <3>1, <3>2 DEF LockSaysWhoHolds
      <4> QED BY <4>5, <4>6 DEF LockSaysWhoHolds
    <3>9. Inside'
      BY <2>0, <3>1, <3>2, <3>5 DEF Inside
    <3>10. WritersCounted'
      <4>1. \A m \in Locks : WaitingWriters(m)' = WaitingWriters(m)
        BY <3>1 DEF WaitingWriters
      <4>2. \A m \in Locks : lock'[m].waitingWriters = lock[m].waitingWriters
        BY <3>4
      <4> QED BY <4>1, <4>2 DEF WritersCounted
    <3>11. Rwlock!NoMissedNotify'
      <4> SUFFICES ASSUME NEW u \in asleep' PROVE ~Rwlock!MayEnter(u)'
        BY DEF Rwlock!NoMissedNotify
      <4>1. /\ u \in Threads /\ u # t /\ ~Rwlock!MayEnter(u) /\ call[u].lock \in Locks
            /\ u \in asleep /\ call'[u] = call[u]
        BY <2>0, <2>2, <3>1, <3>5 DEF Inside, Rwlock!NoMissedNotify
      <4>2. CASE call[u].lock # l
        BY <2>3, <3>4, <4>1, <4>2
      <4>3. CASE call[u].lock = l
        <5>1. h # -1 /\ lock[l].readers # 1
          BY <3>5, <4>3
        <5>2. lock'[l].readers # 0 /\ lock[l].writer = NoThread
          BY <2>0, <3>4, <5>1 DEF Objects
        <5> HIDE DEF h
        <5> QED BY <2>3, <3>4, <4>1, <4>3, <5>2
      <4> QED BY <4>2, <4>3
    <3> QED BY <3>6, <3>7, <3>8, <3>9, <3>10, <3>11
  <2> QED
    BY <2>Begin, <2>Create, <2>EnterAtOnce, <2>Refuse, <2>Wait, <2>EnterAfterWait, <2>SleepAgain,
       <2>TimeOut, <2>Unlock, <2>Destroy, <2>InitLock DEF Rwlock!Next
<1>3. QueuesInit => (part = "rwlock" => RwlockIInv)
  BY <1>1 DEF QueuesInit, PartsInit
<1>4. (part = "rwlock" => RwlockIInv) /\ [QueuesNext]_<<part, vars, watchVars, rwlockVars>>
         => (part = "rwlock" => RwlockIInv)'
  <2> SUFFICES ASSUME part = "rwlock", RwlockIInv,
                      [QueuesNext]_<<part, vars, watchVars, rwlockVars>>
               PROVE  RwlockIInv'
    BY DEF QueuesNext, PartsNext
  <2>1. CASE Rwlock!Next
    BY <1>2, <2>1
  <2>2. CASE UNCHANGED rwlockVars
    <3>1. /\ slot' = slot /\ allocated' = allocated /\ lock' = lock /\ readLocksHeld' = readLocksHeld
          /\ pc' = pc /\ call' = call /\ asleep' = asleep /\ holds' = holds
      BY <2>2 DEF rwlockVars
    <3>2. Rwlock!TypeOK' /\ Allocated' /\ Inside'
      BY <3>1 DEF RwlockIInv, Rwlock!TypeOK, Allocated, Inside
    <3>3. LockSaysWhoHolds'
      BY <3>1 DEF RwlockIInv, LockSaysWhoHolds, Reads
    <3>4. WritersCounted'
      BY <3>1 DEF RwlockIInv, WritersCounted, WaitingWriters
    <3>5. Rwlock!NoMissedNotify'
      BY <3>1 DEF RwlockIInv, Rwlock!NoMissedNotify, Rwlock!MayEnter,
                  Rwlock!WriterMayEnter, Rwlock!ReaderMayEnter
    <3> QED BY <3>2, <3>3, <3>4, <3>5 DEF RwlockIInv
  <2> QED BY <2>1, <2>2 DEF QueuesNext, PartsNext
<1> QED BY <1>3, <1>4, PTL DEF QueuesSpec

\* Whoever holds a scePthread lock for writing holds it alone, from the first use of
\* its slot on and whether or not the guest destroys locks that are held.
THEOREM WritersAreAlone == QueuesSpec => []RwlockExcludes
<1>1. (part = "rwlock" => RwlockIInv) => RwlockExcludes
  <2> SUFFICES ASSUME RwlockIInv, NEW s \in Slots, NEW t \in Threads, NEW u \in Threads,
                      holds[t][s] = -1, holds[u][s] # 0, t # u
               PROVE  FALSE
    BY DEF RwlockExcludes, Rwlock!Exclusion, Rwlock!Write
  <2>1. /\ slot[s] \in Locks /\ lock[slot[s]].writer = t
        /\ lock[slot[s]].readers = 0 /\ Cardinality(Reads(s)) = 0
    BY ThreadsAssumption DEF RwlockIInv, LockSaysWhoHolds
  <2>2. holds[u][s] \in 1..MaxReads
    <3>1. holds[u][s] \in (-1)..MaxReads /\ holds[u][s] # -1
      BY <2>1 DEF RwlockIInv, LockSaysWhoHolds, Rwlock!TypeOK, Rwlock!Write
    <3> QED BY <3>1, ReadsAssumption
  <2>3. <<u, 1>> \in Reads(s)
    BY <2>2, ReadsAssumption DEF Reads
  <2>4. IsFiniteSet(Reads(s))
    <3>1. IsFiniteSet(1..MaxReads) /\ Reads(s) \subseteq Threads \X (1..MaxReads)
      BY ReadsAssumption, FS_Interval DEF Reads
    <3> QED BY <3>1, ThreadsAssumption, FS_Product, FS_Subset
  <2> QED BY <2>1, <2>3, <2>4, FS_EmptySet
<1> QED BY <1>1, RwlockInvariance, PTL

\* Nobody sleeps over a lock that he may enter: unlocks, writers that give up and
\* the nested reads of others leave no sleeper behind that they admit.
THEOREM NoNotifyIsMissed == QueuesSpec => []NoMissedNotify
<1>1. (part = "rwlock" => RwlockIInv) => NoMissedNotify
  BY DEF RwlockIInv, NoMissedNotify
<1> QED BY <1>1, RwlockInvariance, PTL

-----------------------------------------------------------------------------
(* The event queue: its list, what a walk over it collects, and lists.     *)

Event == [id : Ids, triggered : BOOLEAN, data : Nat, pending : Seq(Nat), clock : {"none", "armed", "due"}]
Entry == [id : Ids, data : Nat]
OneOfEach(list) == \A j, k \in 1..Len(list) : list[j].id = list[k].id => j = k

\* A set of numbers that is not empty has a least one.
LEMMA LeastNumber ==
    ASSUME NEW S \in SUBSET Nat, S # {}
    PROVE  \E x \in S : \A y \in S : x <= y
<1> DEFINE R == OpToRel(<, Nat)
<1>1. IsWellFoundedOn(R, Nat)
  BY NatLessThanWellFounded
<1>2. \A x, y \in Nat : <<x, y>> \in R <=> x < y
  BY DEF OpToRel
<1> HIDE DEF R
<1>3. PICK x \in S : \A y \in S : ~(<<y, x>> \in R)
  BY <1>1, WFMin
<1>4. \A y \in S : x <= y
  <2> TAKE y \in S
  <2>1. y \in Nat /\ x \in Nat
    OBVIOUS
  <2>2. ~(y < x)
    BY <1>2, <1>3, <2>1, Zenon
  <2> QED BY <2>1, <2>2
<1> QED BY <1>4

\* A set that has zero and with a number the next has all numbers up to n.
LEMMA UpTo ==
    ASSUME NEW n \in Nat, NEW S, 0 \in S, \A k \in 0..(n - 1) : k \in S => k + 1 \in S
    PROVE  \A k \in 0..n : k \in S
<1> DEFINE T == {k \in 0..n : k \notin S}
<1> SUFFICES T = {}
  OBVIOUS
<1> SUFFICES ASSUME T # {}
             PROVE  FALSE
  OBVIOUS
<1>1. T \in SUBSET Nat
  OBVIOUS
<1>2. PICK x \in T : \A y \in T : x <= y
  <2> HIDE DEF T
  <2> QED BY <1>1, LeastNumber
<1>3. x # 0 /\ x - 1 \in 0..(n - 1) /\ x - 1 \in 0..n /\ (x - 1) + 1 = x
  OBVIOUS
<1>4. x - 1 \notin T
  BY <1>1, <1>2, <1>3
<1> QED BY <1>3, <1>4

\* What was told is a recursive function of the entries.
LEMMA ToldUnfolds ==
    ASSUME NEW i, NEW out, Len(out) \in Nat
    PROVE  \E told : /\ told[0] = << >>
                     /\ \A k \in 1..Len(out) :
                           told[k] = IF out[k].id = i THEN Append(told[k - 1], out[k].data) ELSE told[k - 1]
                     /\ Reported(i, out) = told[Len(out)]
<1> DEFINE more(told, k) == IF out[k].id = i THEN Append(told, out[k].data) ELSE told
           good(g, n) == g = [k \in 0..n |-> IF k = 0 THEN << >> ELSE more(g[k - 1], k)]
           S == {n \in 0..Len(out) : \E g : good(g, n)}
<1>1. 0 \in S
  <2>1. good([k \in 0..0 |-> << >>], 0)
    OBVIOUS
  <2> HIDE DEF good
  <2> QED BY <2>1
<1>2. ASSUME NEW n \in 0..(Len(out) - 1), n \in S
      PROVE  n + 1 \in S
  <2> HIDE DEF more
  <2>1. PICK g : good(g, n)
    BY <1>2
  <2> DEFINE h == [k \in 0..(n + 1) |-> IF k = 0 THEN << >> ELSE more(g[k - 1], k)]
  <2>0. n \in Nat
    OBVIOUS
  <2>2. ASSUME NEW k \in 0..n
        PROVE  h[k] = g[k]
    BY <2>0, <2>1
  <2>3. good(h, n + 1)
    <3>1. ASSUME NEW k \in 0..(n + 1), k # 0
          PROVE  h[k - 1] = g[k - 1]
      <4>1. k - 1 \in 0..n
        BY <2>0, <3>1
      <4> HIDE DEF h
      <4> QED BY <4>1, <2>2
    <3> DEFINE r == [k \in 0..(n + 1) |-> IF k = 0 THEN << >> ELSE more(h[k - 1], k)]
    <3>2. \A k \in 0..(n + 1) : h[k] = r[k]
      <4> TAKE k \in 0..(n + 1)
      <4>1. h[k] = IF k = 0 THEN << >> ELSE more(g[k - 1], k)
        OBVIOUS
      <4>2. r[k] = IF k = 0 THEN << >> ELSE more(h[k - 1], k)
        OBVIOUS
      <4> HIDE DEF h, r
      <4> QED BY <4>1, <4>2, <3>1
    <3>3. h = [k \in 0..(n + 1) |-> h[k]] /\ r = [k \in 0..(n + 1) |-> r[k]]
      OBVIOUS
    <3>4. h = r
      <4> HIDE DEF h, r
      <4> QED BY <3>2, <3>3
    <3> QED BY <3>4
  <2> HIDE DEF good, h
  <2> QED BY <2>3
<1>3. \E g : good(g, Len(out))
  <2> HIDE DEF good
  <2>1. Len(out) \in S
    <3> HIDE DEF S
    <3>1. \A n \in 0..(Len(out) - 1) : n \in S => n + 1 \in S
      BY <1>2
    <3>2. \A n \in 0..Len(out) : n \in S
      BY <1>1, <3>1, UpTo
    <3> QED BY <3>2
  <2> QED BY <2>1
<1> DEFINE told == CHOOSE g : good(g, Len(out))
<1>4. good(told, Len(out))
  <2> HIDE DEF good
  <2> QED BY <1>3
<1>5. Reported(i, out) = told[Len(out)]
  BY DEF Reported
<1>6. told[0] = << >> /\ \A k \in 1..Len(out) : told[k] = more(told[k - 1], k)
  <2> HIDE DEF told, more
  <2> QED BY <1>4
<1> HIDE DEF told
<1> QED BY <1>5, <1>6

\* The walk is a recursive function of the list.
LEMMA WalkUnfolds ==
    ASSUME NEW list, NEW size, Len(list) \in Nat
    PROVE  \E seen : /\ seen[0] = Nothing
                     /\ \A k \in 1..Len(list) : seen[k] = Visit(seen[k - 1], list[k], size)
                     /\ Walk(list, size) = [out |-> seen[Len(list)].out,
                                            list |-> seen[Len(list)].kept \o seen[Len(list)].back]
<1> DEFINE more(acc, k) == Visit(acc, list[k], size)
           good(g, n) == g = [k \in 0..n |-> IF k = 0 THEN Nothing ELSE more(g[k - 1], k)]
           S == {n \in 0..Len(list) : \E g : good(g, n)}
<1>1. 0 \in S
  <2>1. good([k \in 0..0 |-> Nothing], 0)
    OBVIOUS
  <2> HIDE DEF good
  <2> QED BY <2>1
<1>2. ASSUME NEW n \in 0..(Len(list) - 1), n \in S
      PROVE  n + 1 \in S
  <2> HIDE DEF more
  <2>1. PICK g : good(g, n)
    BY <1>2
  <2> DEFINE h == [k \in 0..(n + 1) |-> IF k = 0 THEN Nothing ELSE more(g[k - 1], k)]
  <2>0. n \in Nat
    OBVIOUS
  <2>2. ASSUME NEW k \in 0..n
        PROVE  h[k] = g[k]
    BY <2>0, <2>1
  <2>3. good(h, n + 1)
    <3>1. ASSUME NEW k \in 0..(n + 1), k # 0
          PROVE  h[k - 1] = g[k - 1]
      <4>1. k - 1 \in 0..n
        BY <2>0, <3>1
      <4> HIDE DEF h
      <4> QED BY <4>1, <2>2
    <3> DEFINE r == [k \in 0..(n + 1) |-> IF k = 0 THEN Nothing ELSE more(h[k - 1], k)]
    <3>2. \A k \in 0..(n + 1) : h[k] = r[k]
      <4> TAKE k \in 0..(n + 1)
      <4>1. h[k] = IF k = 0 THEN Nothing ELSE more(g[k - 1], k)
        OBVIOUS
      <4>2. r[k] = IF k = 0 THEN Nothing ELSE more(h[k - 1], k)
        OBVIOUS
      <4> HIDE DEF h, r
      <4> QED BY <4>1, <4>2, <3>1
    <3>3. h = [k \in 0..(n + 1) |-> h[k]] /\ r = [k \in 0..(n + 1) |-> r[k]]
      OBVIOUS
    <3>4. h = r
      <4> HIDE DEF h, r
      <4> QED BY <3>2, <3>3
    <3> QED BY <3>4
  <2> HIDE DEF good, h
  <2> QED BY <2>3
<1>3. \E g : good(g, Len(list))
  <2> HIDE DEF good
  <2>1. Len(list) \in S
    <3> HIDE DEF S
    <3>1. \A n \in 0..(Len(list) - 1) : n \in S => n + 1 \in S
      BY <1>2
    <3>2. \A n \in 0..Len(list) : n \in S
      BY <1>1, <3>1, UpTo
    <3> QED BY <3>2
  <2> QED BY <2>1
<1> DEFINE seen == CHOOSE g : good(g, Len(list))
<1>4. good(seen, Len(list))
  <2> HIDE DEF good
  <2> QED BY <1>3
<1>5. Walk(list, size) = [out |-> seen[Len(list)].out, list |-> seen[Len(list)].kept \o seen[Len(list)].back]
  BY DEF Walk
<1>6. seen[0] = Nothing /\ \A k \in 1..Len(list) : seen[k] = more(seen[k - 1], k)
  <2> HIDE DEF seen, more
  <2> QED BY <1>4
<1> HIDE DEF seen
<1> QED BY <1>5, <1>6

\* Two lists in a row.
LEMMA InARow ==
    ASSUME NEW S, NEW s \in Seq(S), NEW r \in Seq(S)
    PROVE  /\ s \o r \in Seq(S) /\ Len(s \o r) = Len(s) + Len(r) /\ Len(s) \in Nat /\ Len(r) \in Nat
           /\ \A k \in 1..Len(s) : (s \o r)[k] = s[k]
           /\ \A k \in 1..Len(r) : (s \o r)[Len(s) + k] = r[k]
           /\ s \o << >> = s
<1>1. Len(s) \in Nat /\ Len(r) \in Nat
  OBVIOUS
<1>2. s \o r \in Seq(S) /\ Len(s \o r) = Len(s) + Len(r)
  BY ConcatProperties
<1>3. \A k \in 1..(Len(s) + Len(r)) : (s \o r)[k] = IF k <= Len(s) THEN s[k] ELSE r[k - Len(s)]
  BY ConcatProperties
<1>4. \A k \in 1..Len(s) : (s \o r)[k] = s[k]
  BY <1>1, <1>3
<1>5. \A k \in 1..Len(r) : (s \o r)[Len(s) + k] = r[k]
  <2> TAKE k \in 1..Len(r)
  <2>1. Len(s) + k \in 1..(Len(s) + Len(r)) /\ ~(Len(s) + k <= Len(s)) /\ (Len(s) + k) - Len(s) = k
    BY <1>1
  <2> QED BY <1>3, <2>1
<1> QED BY <1>1, <1>2, <1>4, <1>5, ConcatEmptySeq

\* The first elements of a list, and one more.
LEMMA FirstOnes ==
    ASSUME NEW S, NEW s \in Seq(S), NEW k \in 0..Len(s)
    PROVE  /\ SubSeq(s, 1, k) \in Seq(S) /\ Len(SubSeq(s, 1, k)) = k
           /\ \A j \in 1..k : SubSeq(s, 1, k)[j] = s[j]
<1>1. Len(s) \in Nat /\ \A j \in 1..Len(s) : s[j] \in S
  OBVIOUS
<1> QED BY <1>1

\* A list followed by the first elements of another, and one more.
LEMMA OneFurther ==
    ASSUME NEW S, NEW a \in Seq(S), NEW s \in Seq(S), NEW k \in 0..(Len(s) - 1)
    PROVE  Append(a \o SubSeq(s, 1, k), s[k + 1]) = a \o SubSeq(s, 1, k + 1)
<1>0. Len(s) \in Nat /\ k \in 0..Len(s) /\ k + 1 \in 1..Len(s) /\ s[k + 1] \in S /\ (k + 1) - 1 = k
  OBVIOUS
<1> DEFINE x == SubSeq(s, 1, k)
<1>1. x \in Seq(S)
  BY <1>0, FirstOnes
<1>2. SubSeq(s, 1, k + 1) = x \o << s[k + 1] >>
  BY <1>0, SubSeqRecursiveSecond
<1> HIDE DEF x
<1>3. << s[k + 1] >> \in Seq(S)
  BY <1>0
<1>4. a \o x \in Seq(S)
  BY <1>1, ConcatProperties
<1>5. Append(a \o x, s[k + 1]) = (a \o x) \o << s[k + 1] >>
  BY <1>0, <1>4, AppendIsConcat
<1>6. (a \o x) \o << s[k + 1] >> = a \o (x \o << s[k + 1] >>)
  BY <1>1, <1>3, ConcatAssociative
<1> QED BY <1>2, <1>5, <1>6 DEF x

\* What is reported of one event at a time: it is told all of it, the others nothing.
LEMMA ToldOfOne ==
    ASSUME NEW i \in Ids, NEW s \in Seq(Entry), NEW e \in Event, NEW taken \in Seq(Nat)
    PROVE  /\ Report(e, taken) \in Seq(Entry) /\ Len(Report(e, taken)) = Len(taken)
           /\ Reported(i, s \o Report(e, taken)) =
                IF e.id = i THEN Reported(i, s) \o taken ELSE Reported(i, s)
           /\ Reported(i, s) \in Seq(Nat)
<1> DEFINE r == Report(e, taken)
           t == s \o r
           m == Len(s)
           n == Len(taken)
<1>1. r \in Seq(Entry) /\ Len(r) = n /\ n \in Nat /\ m \in Nat
      /\ \A k \in 1..n : r[k].id = e.id /\ r[k].data = taken[k]
  BY DEF Report, Entry, Event
<1>2. Len(t) = m + n /\ (\A k \in 1..m : t[k] = s[k]) /\ \A k \in 1..n : t[m + k] = r[k]
  <2> HIDE DEF r
  <2>1. /\ Len(t) = Len(s) + Len(r)
        /\ \A k \in 1..Len(s) : t[k] = s[k]
        /\ \A k \in 1..Len(r) : t[Len(s) + k] = r[k]
    <3>1. r \in Seq(Entry)
      BY <1>1
    <3>2. /\ Len(s \o r) = Len(s) + Len(r)
          /\ \A k \in 1..Len(s) : (s \o r)[k] = s[k]
          /\ \A k \in 1..Len(r) : (s \o r)[Len(s) + k] = r[k]
      BY <3>1, InARow
    <3> QED BY <3>2, Zenon
  <2> HIDE DEF t
  <2> QED BY <1>1, <2>1
<1>3. PICK a : /\ a[0] = << >>
               /\ \A k \in 1..m : a[k] = IF s[k].id = i THEN Append(a[k - 1], s[k].data) ELSE a[k - 1]
               /\ Reported(i, s) = a[m]
  BY <1>1, ToldUnfolds
<1>4. PICK b : /\ b[0] = << >>
               /\ \A k \in 1..Len(t) : b[k] = IF t[k].id = i THEN Append(b[k - 1], t[k].data) ELSE b[k - 1]
               /\ Reported(i, t) = b[Len(t)]
  <2> HIDE DEF t
  <2>1. Len(t) \in Nat
    BY <1>1, <1>2
  <2> QED BY <2>1, ToldUnfolds
<1>5. \A k \in 0..m : a[k] \in Seq(Nat) /\ b[k] = a[k]
  <2> DEFINE S == {k \in 0..m : a[k] \in Seq(Nat) /\ b[k] = a[k]}
  <2>1. 0 \in S
    <3>1. << >> \in Seq(Nat) /\ 0 \in 0..m
      BY <1>1
    <3> HIDE DEF t
    <3> QED BY <3>1, <1>3, <1>4
  <2>2. ASSUME NEW k \in 0..(m - 1), k \in S
        PROVE  k + 1 \in S
    <3>1. k + 1 \in 1..m /\ k + 1 \in 1..Len(t) /\ (k + 1) - 1 = k
      BY <1>1, <1>2
    <3>2. t[k + 1] = s[k + 1] /\ s[k + 1].data \in Nat
      <4>1. s[k + 1] \in Entry
        BY <3>1
      <4> QED BY <1>2, <3>1, <4>1 DEF Entry
    <3> HIDE DEF t
    <3>3. /\ a[k + 1] = IF s[k + 1].id = i THEN Append(a[k], s[k + 1].data) ELSE a[k]
          /\ b[k + 1] = IF s[k + 1].id = i THEN Append(b[k], s[k + 1].data) ELSE b[k]
      BY <1>3, <1>4, <3>1, <3>2
    <3>4. a[k] \in Seq(Nat) /\ b[k] = a[k] /\ k + 1 \in 0..m
      BY <1>1, <2>2, <3>1
    <3>5. Append(a[k], s[k + 1].data) \in Seq(Nat)
      BY <3>2, <3>4
    <3>6. a[k + 1] \in Seq(Nat) /\ b[k + 1] = a[k + 1]
      <4> HIDE DEF S
      <4>1. CASE s[k + 1].id = i
        BY <4>1, <3>3, <3>4, <3>5
      <4>2. CASE s[k + 1].id # i
        BY <4>2, <3>3, <3>4
      <4> QED BY <4>1, <4>2
    <3> QED BY <3>4, <3>6
  <2> HIDE DEF S
  <2>3. \A k \in 0..m : k \in S
    BY <1>1, <2>1, <2>2, UpTo
  <2> QED BY <2>3 DEF S
<1>6. \A k \in 0..n : b[m + k] = IF e.id = i THEN a[m] \o SubSeq(taken, 1, k) ELSE a[m]
  <2> DEFINE S == {k \in 0..n : b[m + k] = IF e.id = i THEN a[m] \o SubSeq(taken, 1, k) ELSE a[m]}
  <2>0. a[m] \in Seq(Nat) /\ b[m] = a[m]
    BY <1>1, <1>5
  <2>1. 0 \in S
    <3>1. SubSeq(taken, 1, 0) = << >>
      BY SubSeqEmpty
    <3>2. a[m] \o SubSeq(taken, 1, 0) = a[m]
      BY <2>0, <3>1, ConcatEmptySeq
    <3>3. m + 0 = m /\ 0 \in 0..n
      BY <1>1
    <3> QED BY <2>0, <3>2, <3>3
  <2>2. ASSUME NEW k \in 0..(n - 1), k \in S
        PROVE  k + 1 \in S
    <3>1. k + 1 \in 1..n /\ m + (k + 1) \in 1..Len(t) /\ (m + (k + 1)) - 1 = m + k
      BY <1>1, <1>2
    <3>2. t[m + (k + 1)].id = e.id /\ t[m + (k + 1)].data = taken[k + 1]
      <4> HIDE DEF t, r
      <4> QED BY <1>1, <1>2, <3>1
    <3>3. b[m + (k + 1)] = IF e.id = i THEN Append(b[m + k], taken[k + 1]) ELSE b[m + k]
      <4> HIDE DEF t
      <4> QED BY <1>4, <3>1, <3>2
    <3>4. Append(a[m] \o SubSeq(taken, 1, k), taken[k + 1]) = a[m] \o SubSeq(taken, 1, k + 1)
      BY <2>0, OneFurther
    <3>5. b[m + k] = (IF e.id = i THEN a[m] \o SubSeq(taken, 1, k) ELSE a[m]) /\ k + 1 \in 0..n
      BY <2>2, <3>1
    <3>6. b[m + (k + 1)] = IF e.id = i THEN a[m] \o SubSeq(taken, 1, k + 1) ELSE a[m]
      <4> HIDE DEF t, S
      <4>1. CASE e.id = i
        BY <4>1, <3>3, <3>4, <3>5
      <4>2. CASE e.id # i
        BY <4>2, <3>3, <3>5
      <4> QED BY <4>1, <4>2
    <3> DEFINE j == k + 1
    <3>7. j \in 0..n /\ b[m + j] = IF e.id = i THEN a[m] \o SubSeq(taken, 1, j) ELSE a[m]
      BY <3>5, <3>6
    <3> HIDE DEF j
    <3>8. j \in S
      BY <3>7, Zenon
    <3> HIDE DEF S
    <3> QED BY <3>8 DEF j
  <2> HIDE DEF S
  <2>3. \A k \in 0..n : k \in S
    BY <1>1, <2>1, <2>2, UpTo
  <2> QED BY <2>3 DEF S
<1>7. SubSeq(taken, 1, n) = taken
  OBVIOUS
<1>8. Reported(i, t) = IF e.id = i THEN Reported(i, s) \o taken ELSE Reported(i, s)
  <2>1. n \in 0..n /\ m \in 0..m
    BY <1>1
  <2> HIDE DEF t
  <2> QED BY <1>2, <1>3, <1>4, <1>6, <1>7, <2>1
<1>9. Reported(i, s) \in Seq(Nat)
  BY <1>1, <1>3, <1>5
<1> QED BY <1>1, <1>8, <1>9

\* An event that is not triggered holds nothing, no more than the bound wait behind
\* the one it shows, and only a timer has a clock.
Whole(e) ==
    /\ ~e.triggered => e.pending = << >>
    /\ Len(e.pending) <= MaxPending
    /\ ~IsTimer(e.id) => e.clock = "none"

\* What is taken of a triggered event and what is left of it are what it held.
LEMMA OneReported ==
    ASSUME NEW e \in Event, e.triggered, Whole(e), NEW room \in Nat \ {0}
    PROVE  /\ Taken(e, room) \in Seq(Nat) /\ Len(Taken(e, room)) \in 1..room
           /\ Left(e, Len(Taken(e, room))) \in Event
           /\ Left(e, Len(Taken(e, room))).id = e.id
           /\ Whole(Left(e, Len(Taken(e, room))))
           /\ Kind[e.id] # "level" => Held(e) = Taken(e, room) \o Held(Left(e, Len(Taken(e, room))))
<1> DEFINE p == e.pending
           h == Held(e)
           n == IF room < Len(p) + 1 THEN room ELSE Len(p) + 1
           f == Left(e, n)
<1>1. e.data \in Nat /\ p \in Seq(Nat) /\ Len(p) \in Nat /\ e.id \in Ids /\ e.triggered \in BOOLEAN
      /\ e.clock \in {"none", "armed", "due"}
  BY DEF Event
<1>2. h \in Seq(Nat) /\ Len(h) = Len(p) + 1 /\ h[1] = e.data /\ \A k \in 1..Len(p) : h[k + 1] = p[k]
  <2>1. h = << e.data >> \o p
    BY DEF Held
  <2>2. << e.data >> \in Seq(Nat) /\ Len(<< e.data >>) = 1 /\ << e.data >>[1] = e.data
    BY <1>1
  <2> DEFINE d == << e.data >>
  <2> HIDE DEF d
  <2>3. /\ d \o p \in Seq(Nat) /\ Len(d \o p) = Len(d) + Len(p)
        /\ \A k \in 1..Len(d) : (d \o p)[k] = d[k]
        /\ \A k \in 1..Len(p) : (d \o p)[Len(d) + k] = p[k]
    BY <1>1, <2>2, InARow DEF d
  <2> HIDE DEF h, p
  <2> QED BY <1>1, <2>1, <2>2, <2>3 DEF d
<1>3. n \in 1..room /\ n \in 1..Len(h) /\ n \in Nat
  BY <1>1, <1>2
<1>4. Taken(e, room) = SubSeq(h, 1, n)
  BY DEF Taken
<1>5. SubSeq(h, 1, n) \in Seq(Nat) /\ Len(SubSeq(h, 1, n)) = n
  BY <1>2, <1>3, FirstOnes
<1>6. h = SubSeq(h, 1, n) \o SubSeq(h, n + 1, Len(h))
  <2> HIDE DEF h, n
  <2>1. Len(h) \in 1..Len(h) /\ n \in (1 - 1)..Len(h) /\ Len(h) \in n..Len(h) /\ 1 \in 1..(Len(h) + 1)
    BY <1>2, <1>3
  <2>2. SubSeq(h, 1, n) \o SubSeq(h, n + 1, Len(h)) = SubSeq(h, 1, Len(h))
    BY <1>2, <2>1, ConcatAdjacentSubSeq
  <2> QED BY <1>2, <2>2, SubSeqFull
<1>7. CASE n <= Len(p)
  <2> DEFINE q == SubSeq(p, n + 1, Len(p))
  <2>1. f = [e EXCEPT !.data = p[n], !.pending = q]
    BY <1>7 DEF Left
  <2>2. p[n] \in Nat /\ q \in Seq(Nat) /\ Len(q) <= Len(p)
    <3> HIDE DEF p, n
    <3>1. n \in 1..Len(p) /\ n + 1 \in Int /\ Len(p) \in Int
      BY <1>1, <1>3, <1>7
    <3>2. \A k \in (n + 1)..Len(p) : k \in 1..Len(p)
      BY <1>1, <1>3
    <3>3. \A k \in 1..Len(p) : p[k] \in Nat
      BY <1>1
    <3>4. q \in Seq(Nat) /\ Len(q) = IF n + 1 <= Len(p) THEN Len(p) - (n + 1) + 1 ELSE 0
      BY <3>1, <3>2, <3>3, SubSeqProperties
    <3>5. Len(q) <= Len(p)
      BY <1>1, <1>3, <3>4
    <3> QED BY <3>1, <3>3, <3>4, <3>5
  <2>3. f \in Event /\ f.id = e.id /\ f.triggered /\ f.clock = e.clock /\ f.data = p[n] /\ f.pending = q
    <3> HIDE DEF f, q, p, n
    <3> QED BY <1>1, <2>1, <2>2 DEF Event
  <2>4. Held(f) = << p[n] >> \o q
    BY <2>3 DEF Held
  <2>5. SubSeq(h, n + 1, Len(h)) = << p[n] >> \o q
    <3> HIDE DEF p, h, n
    <3>1. n + 1 \in 1..Len(h) /\ Len(h) \in (n + 1)..Len(h) /\ h[n + 1] = p[n] /\ n \in 1..Len(p)
      BY <1>1, <1>2, <1>3, <1>7
    <3>2. SubSeq(h, n + 1, Len(h)) = << h[n + 1] >> \o SubSeq(h, (n + 1) + 1, Len(h))
      BY <1>2, <3>1, SubSeqRecursiveFirst
    <3>3. SubSeq(h, (n + 1) + 1, Len(h)) = q
      <4> DEFINE u == SubSeq(h, (n + 1) + 1, Len(h))
      <4>0. Len(p) \in Nat /\ n \in Nat /\ n <= Len(p) /\ Len(h) = Len(p) + 1
        BY <1>1, <1>2, <1>3, <1>7
      <4>1. \A k \in ((n + 1) + 1)..Len(h) : h[k] \in Nat
        BY <1>2, <4>0
      <4>2. /\ u \in Seq(Nat) /\ Len(u) = IF (n + 1) + 1 <= Len(h) THEN Len(h) - ((n + 1) + 1) + 1 ELSE 0
            /\ \A k \in 1..(Len(h) - ((n + 1) + 1) + 1) : u[k] = h[((n + 1) + 1) + k - 1]
        BY <4>0, <4>1, SubSeqProperties
      <4>3. \A k \in (n + 1)..Len(p) : p[k] \in Nat
        BY <1>1, <4>0
      <4>4. /\ q \in Seq(Nat) /\ Len(q) = IF n + 1 <= Len(p) THEN Len(p) - (n + 1) + 1 ELSE 0
            /\ \A k \in 1..(Len(p) - (n + 1) + 1) : q[k] = p[(n + 1) + k - 1]
        BY <4>0, <4>3, SubSeqProperties
      <4> HIDE DEF u, q
      <4>5. Len(u) = Len(q) /\ Len(q) = Len(p) - n
        BY <4>0, <4>2, <4>4
      <4>6. ASSUME NEW k \in 1..Len(u)
            PROVE  u[k] = q[k]
        <5>1. k \in 1..(Len(h) - ((n + 1) + 1) + 1) /\ k \in 1..(Len(p) - (n + 1) + 1)
              /\ ((n + 1) + 1) + k - 1 = (n + k) + 1 /\ (n + 1) + k - 1 = n + k /\ n + k \in 1..Len(p)
          BY <4>0, <4>5
        <5>2. u[k] = h[(n + k) + 1] /\ q[k] = p[n + k]
          BY <4>2, <4>4, <5>1
        <5> QED BY <1>2, <5>1, <5>2
      <4>7. u = q
        BY <4>2, <4>4, <4>5, <4>6, SeqEqual
      <4> QED BY <4>7 DEF u
    <3> HIDE DEF q
    <3> QED BY <3>1, <3>2, <3>3
  <2>6. Whole(f)
    <3>1. Len(q) <= MaxPending
      <4>1. Len(p) <= MaxPending /\ Len(q) \in Nat /\ Len(q) <= Len(p)
        <5>1. Len(p) <= MaxPending
          BY DEF Whole
        <5> HIDE DEF p, q, n
        <5>2. Len(q) \in Nat
          BY <2>2
        <5> QED BY <5>1, <5>2, <2>2
      <4> HIDE DEF p, q, n
      <4> QED BY <4>1, <1>1, RoomAssumption
    <3> HIDE DEF f, q
    <3> QED BY <2>3, <3>1 DEF Whole
  <2> HIDE DEF f, h, n, p, q
  <2>7. h = SubSeq(h, 1, n) \o Held(f)
    BY <1>6, <2>4, <2>5
  <2> QED BY <1>3, <1>4, <1>5, <2>3, <2>6, <2>7 DEF f, h
<1>8. CASE ~(n <= Len(p))
  <2>0. n = Len(p) + 1 /\ n = Len(h)
    BY <1>8, <1>1, <1>2
  <2>1. f = [e EXCEPT !.triggered = Kind[e.id] = "level",
                      !.data = IF Kind[e.id] = "level" THEN e.data ELSE 0, !.pending = << >>]
    BY <1>8 DEF Left
  <2>2. /\ f \in Event /\ f.id = e.id /\ f.clock = e.clock /\ f.pending = << >>
        /\ f.triggered = (Kind[e.id] = "level")
    <3>1. << >> \in Seq(Nat)
      OBVIOUS
    <3> HIDE DEF f, h, n, p
    <3> QED BY <1>1, <2>1, <3>1 DEF Event
  <2>3. Whole(f)
    <3> HIDE DEF f
    <3>1. Len(<< >>) = 0
      OBVIOUS
    <3> QED BY <2>2, <3>1, RoomAssumption DEF Whole
  <2>4. Kind[e.id] # "level" => Held(f) = << >>
    <3> HIDE DEF f
    <3> QED BY <2>2 DEF Held
  <2> HIDE DEF f, h, n, p
  <2>5. SubSeq(h, 1, n) = h
    BY <1>2, <2>0, SubSeqFull
  <2>6. Kind[e.id] # "level" => h = SubSeq(h, 1, n) \o Held(f)
    BY <1>2, <2>4, <2>5, ConcatEmptySeq
  <2> QED BY <1>3, <1>4, <1>5, <2>2, <2>3, <2>6 DEF f, h
<1> QED BY <1>7, <1>8

\* A list with one element more.
LEMMA OneMore ==
    ASSUME NEW S, NEW q \in Seq(S), NEW e \in S
    PROVE  /\ Len(q) \in Nat
           /\ Append(q, e) \in Seq(S) /\ Len(Append(q, e)) = Len(q) + 1
           /\ Append(q, e)[Len(q) + 1] = e
           /\ \A i \in 1..Len(q) : Append(q, e)[i] = q[i]
BY AppendProperties, LenProperties

\* What became of an event in a walk that reported `out'.
From(e, x, out) ==
    /\ x.id = e.id /\ Whole(x)
    /\ Kind[e.id] # "level" => Held(e) = Reported(e.id, out) \o Held(x)

\* The walk after it has visited the first k events of a list.
Listed(k, list, q, out) ==
    /\ \A m \in 1..Len(q) : \E j \in 1..k : From(list[j], q[m], out)
    /\ OneOfEach(q)
Visited(k, list, size, a) ==
    /\ a \in [out : Seq(Entry), kept : Seq(Event), back : Seq(Event)]
    /\ Len(a.out) <= size
    /\ Listed(k, list, a.kept, a.out) /\ Listed(k, list, a.back, a.out)
    /\ \A m \in 1..Len(a.kept), n \in 1..Len(a.back) : a.kept[m].id # a.back[n].id
    /\ \A j \in (k + 1)..Len(list) : Reported(list[j].id, a.out) = << >>
    /\ a.out = << >> => a.back = << >> /\ \A m \in 1..Len(a.kept) : ~a.kept[m].triggered
    /\ a.out # << >> => \E j \in 1..k : list[j].triggered /\ Reported(list[j].id, a.out) # << >>

\* A list to which what became of the next event is added.
LEMMA ListedMore ==
    ASSUME NEW list \in Seq(Event), OneOfEach(list), NEW k \in 0..(Len(list) - 1),
           NEW q \in Seq(Event), NEW out, Listed(k, list, q, out),
           NEW x \in Event, From(list[k + 1], x, out)
    PROVE  Listed(k + 1, list, Append(q, x), out)
<1> DEFINE p == Append(q, x)
<1>1. /\ Len(q) \in Nat /\ p \in Seq(Event) /\ Len(p) = Len(q) + 1
      /\ p[Len(q) + 1] = x /\ \A i \in 1..Len(q) : p[i] = q[i]
  BY OneMore
<1>2. Len(list) \in Nat /\ k \in Nat /\ k + 1 \in 1..(k + 1) /\ k + 1 \in 1..Len(list)
  OBVIOUS
<1> HIDE DEF p
<1>3. \A m \in 1..Len(p) : m \in 1..Len(q) \/ m = Len(q) + 1
  BY <1>1
<1>4. \A j \in 1..k : j \in 1..(k + 1) /\ j \in 1..Len(list) /\ j # k + 1
  BY <1>2
<1>5. ASSUME NEW m \in 1..Len(p)
      PROVE  \E j \in 1..(k + 1) : From(list[j], p[m], out)
  <2>1. CASE m \in 1..Len(q)
    BY <2>1, <1>1, <1>4 DEF Listed
  <2>2. CASE m = Len(q) + 1
    BY <2>2, <1>1, <1>2
  <2> QED BY <2>1, <2>2, <1>3
<1>6. ASSUME NEW m \in 1..Len(q)
      PROVE  q[m].id # x.id
  <2>1. PICK j \in 1..k : q[m].id = list[j].id
    BY DEF Listed, From
  <2>2. x.id = list[k + 1].id
    BY DEF From
  <2> QED BY <2>1, <2>2, <1>2, <1>4 DEF OneOfEach
<1>7. OneOfEach(p)
  <2> SUFFICES ASSUME NEW m \in 1..Len(p), NEW n \in 1..Len(p), p[m].id = p[n].id
               PROVE  m = n
    BY DEF OneOfEach
  <2>1. CASE m \in 1..Len(q) /\ n \in 1..Len(q)
    BY <2>1, <1>1 DEF Listed, OneOfEach
  <2>2. CASE m \in 1..Len(q) /\ n = Len(q) + 1
    BY <2>2, <1>1, <1>6
  <2>3. CASE m = Len(q) + 1 /\ n \in 1..Len(q)
    BY <2>3, <1>1, <1>6
  <2> QED BY <2>1, <2>2, <2>3, <1>3
<1> QED BY <1>5, <1>7 DEF Listed, p

\* The events before it stay as they became, whatever is reported of the next one.
LEMMA ListedStays ==
    ASSUME NEW list \in Seq(Event), OneOfEach(list), NEW k \in 0..(Len(list) - 1),
           NEW q \in Seq(Event), NEW out, Listed(k, list, q, out),
           NEW out2, \A i \in Ids : i # list[k + 1].id => Reported(i, out2) = Reported(i, out)
    PROVE  Listed(k + 1, list, q, out2)
<1>1. k \in Nat /\ Len(list) \in Nat /\ k + 1 \in 1..Len(list)
  OBVIOUS
<1>2. \A j \in 1..k : j \in 1..(k + 1) /\ j \in 1..Len(list) /\ j # k + 1
  BY <1>1
<1>3. \A j \in 1..k : list[j].id \in Ids /\ list[j].id # list[k + 1].id
  <2> TAKE j \in 1..k
  <2>1. list[j] \in Event
    BY <1>2, ElementOfSeq
  <2> QED BY <2>1, <1>1, <1>2 DEF Event, OneOfEach
<1>4. ASSUME NEW m \in 1..Len(q)
      PROVE  \E j \in 1..(k + 1) : From(list[j], q[m], out2)
  <2>1. PICK j \in 1..k : From(list[j], q[m], out)
    BY DEF Listed
  <2>2. From(list[j], q[m], out2)
    BY <2>1, <1>3 DEF From
  <2> QED BY <2>2, <1>2
<1> QED BY <1>4 DEF Listed

\* The walk visits the next event.
LEMMA VisitStep ==
    ASSUME NEW list \in Seq(Event), OneOfEach(list), \A j \in 1..Len(list) : Whole(list[j]),
           NEW size \in Nat \ {0}, NEW k \in 0..(Len(list) - 1), NEW a, Visited(k, list, size, a)
    PROVE  Visited(k + 1, list, size, Visit(a, list[k + 1], size))
<1> DEFINE e == list[k + 1]
           room == size - Len(a.out)
           taken == Taken(e, room)
           b == Visit(a, e, size)
           x == Left(e, Len(taken))
           out2 == a.out \o Report(e, taken)
<1>0. Len(list) \in Nat /\ k \in Nat /\ k + 1 \in 1..Len(list) /\ k + 1 \in 1..(k + 1)
      /\ (\A j \in ((k + 1) + 1)..Len(list) : j \in (k + 1)..Len(list) /\ j \in 1..Len(list) /\ j # k + 1)
      /\ (\A j \in 1..k : j \in 1..(k + 1) /\ j \in 1..Len(list) /\ j # k + 1)
      /\ k + 1 \in (k + 1)..Len(list)
  OBVIOUS
<1>1. e \in Event /\ e.id \in Ids /\ e.triggered \in BOOLEAN /\ Whole(e)
  <2>1. e \in Event
    BY <1>0, ElementOfSeq
  <2> QED BY <2>1, <1>0 DEF Event
<1>2. /\ a.out \in Seq(Entry) /\ Len(a.out) \in Nat /\ a.kept \in Seq(Event) /\ a.back \in Seq(Event)
      /\ room \in Nat /\ a \in [out : Seq(Entry), kept : Seq(Event), back : Seq(Event)]
      /\ Listed(k, list, a.kept, a.out) /\ Listed(k, list, a.back, a.out)
      /\ Reported(e.id, a.out) = << >>
  <2>1. a.out \in Seq(Entry) /\ a.kept \in Seq(Event) /\ a.back \in Seq(Event) /\ Len(a.out) <= size
    BY DEF Visited
  <2>2. Len(a.out) \in Nat
    BY <2>1
  <2> QED BY <2>1, <2>2, <1>0 DEF Visited
<1>3. ASSUME NEW q \in Seq(Event), Listed(k, list, q, a.out), NEW m \in 1..Len(q)
      PROVE  q[m].id # e.id
  <2>1. PICK j \in 1..k : q[m].id = list[j].id
    BY <1>3 DEF Listed, From
  <2> QED BY <2>1, <1>0 DEF OneOfEach
<1>4. \A j \in ((k + 1) + 1)..Len(list) : list[j].id \in Ids /\ list[j].id # e.id
  <2> TAKE j \in ((k + 1) + 1)..Len(list)
  <2>1. list[j] \in Event
    BY <1>0, ElementOfSeq
  <2> QED BY <2>1, <1>0 DEF Event, OneOfEach
<1>5. CASE ~e.triggered \/ room = 0
  <2> DEFINE kept2 == Append(a.kept, e)
  <2>1. b = [a EXCEPT !.kept = kept2]
    BY <1>5 DEF Visit
  <2>2. kept2 \in Seq(Event) /\ Len(a.kept) \in Nat /\ Len(kept2) = Len(a.kept) + 1 /\ kept2[Len(a.kept) + 1] = e
        /\ \A i \in 1..Len(a.kept) : kept2[i] = a.kept[i]
    BY <1>1, <1>2, OneMore
  <2>3. From(e, e, a.out)
    <3>1. Held(e) \in Seq(Nat)
      <4>1. e.data \in Nat /\ e.pending \in Seq(Nat)
        BY <1>1 DEF Event
      <4>2. << e.data >> \in Seq(Nat) /\ << >> \in Seq(Nat)
        BY <4>1
      <4>3. << e.data >> \o e.pending \in Seq(Nat)
        BY <4>1, <4>2, ConcatProperties
      <4> QED BY <4>2, <4>3 DEF Held
    <3>2. << >> \o Held(e) = Held(e)
      BY <3>1, ConcatEmptySeq
    <3> QED BY <3>2, <1>1, <1>2 DEF From
  <2>4. Listed(k + 1, list, kept2, a.out)
    BY <1>1, <1>2, <2>3, ListedMore
  <2>5. Listed(k + 1, list, a.back, a.out)
    BY <1>2, ListedStays
  <2> HIDE DEF kept2, b, e
  <2>6. b.out = a.out /\ b.kept = kept2 /\ b.back = a.back
        /\ b \in [out : Seq(Entry), kept : Seq(Event), back : Seq(Event)]
    BY <2>1, <2>2, <1>2
  <2>7. \A m \in 1..Len(kept2) : m \in 1..Len(a.kept) \/ m = Len(a.kept) + 1
    BY <2>2
  <2>8. \A m \in 1..Len(kept2), n \in 1..Len(a.back) : kept2[m].id # a.back[n].id
    <3> TAKE m \in 1..Len(kept2), n \in 1..Len(a.back)
    <3>1. CASE m \in 1..Len(a.kept)
      BY <3>1, <2>2 DEF Visited
    <3>2. CASE m = Len(a.kept) + 1
      BY <3>2, <2>2, <1>2, <1>3
    <3> QED BY <3>1, <3>2, <2>7
  <2>9. a.out = << >> => a.back = << >> /\ \A m \in 1..Len(kept2) : ~kept2[m].triggered
    <3> SUFFICES ASSUME a.out = << >>
                 PROVE  a.back = << >> /\ \A m \in 1..Len(kept2) : ~kept2[m].triggered
      OBVIOUS
    <3>1. ~e.triggered
      <4>1. room = size
        OBVIOUS
      <4> QED BY <4>1, <1>5
    <3>2. a.back = << >> /\ \A m \in 1..Len(a.kept) : ~a.kept[m].triggered
      BY DEF Visited
    <3> QED BY <3>1, <3>2, <2>2, <2>7
  <2>10. a.out # << >> => \E j \in 1..(k + 1) : list[j].triggered /\ Reported(list[j].id, a.out) # << >>
    BY <1>0 DEF Visited
  <2>11. Len(a.out) <= size /\ \A j \in ((k + 1) + 1)..Len(list) : Reported(list[j].id, a.out) = << >>
    BY <1>0 DEF Visited
  <2> HIDE DEF room, taken, x, out2
  <2> QED BY <2>4, <2>5, <2>6, <2>8, <2>9, <2>10, <2>11 DEF Visited, b, e
<1>6. CASE e.triggered /\ room # 0
  <2>1. /\ taken \in Seq(Nat) /\ Len(taken) \in 1..room /\ x \in Event /\ x.id = e.id /\ Whole(x)
        /\ Kind[e.id] # "level" => Held(e) = taken \o Held(x)
    BY <1>1, <1>2, <1>6, OneReported
  <2>2. /\ Report(e, taken) \in Seq(Entry) /\ Len(Report(e, taken)) = Len(taken)
        /\ \A i \in Ids : /\ i # e.id => Reported(i, out2) = Reported(i, a.out)
                          /\ i = e.id => Reported(i, out2) = Reported(i, a.out) \o taken
    <3> DEFINE o == a.out
    <3>1. o \in Seq(Entry) /\ taken \in Seq(Nat) /\ e \in Event
      BY <1>1, <1>2, <2>1
    <3> HIDE DEF o, taken, e
    <3>2. ASSUME NEW i \in Ids
          PROVE  /\ Report(e, taken) \in Seq(Entry) /\ Len(Report(e, taken)) = Len(taken)
                 /\ Reported(i, o \o Report(e, taken)) =
                      IF e.id = i THEN Reported(i, o) \o taken ELSE Reported(i, o)
      BY <3>1, ToldOfOne
    <3>3. e.id \in Ids
      BY <1>1
    <3> QED BY <3>2, <3>3 DEF o
  <2>3. out2 \in Seq(Entry) /\ Len(out2) = Len(a.out) + Len(taken) /\ Len(out2) <= size /\ out2 # << >>
    <3> DEFINE r == Report(e, taken)
    <3>1. r \in Seq(Entry) /\ Len(r) = Len(taken)
      BY <2>2
    <3> HIDE DEF r
    <3> DEFINE o == a.out
    <3>o. o \in Seq(Entry)
      BY <1>2
    <3> HIDE DEF o
    <3>2. o \o r \in Seq(Entry) /\ Len(o \o r) = Len(o) + Len(r)
      BY <3>1, <3>o, InARow
    <3>3. out2 = o \o r
      BY DEF r, o
    <3> HIDE DEF out2, taken
    <3>4. Len(out2) = Len(a.out) + Len(taken) /\ out2 \in Seq(Entry)
      BY <3>1, <3>2, <3>3 DEF o
    <3>5. Len(out2) # 0
      BY <3>4, <2>1, <1>2
    <3> QED BY <3>4, <3>5, <2>1, <1>2
  <2>4. Reported(e.id, out2) = taken
    BY <1>1, <1>2, <2>1, <2>2, ConcatEmptySeq
  <2>5. taken # << >>
    BY <2>1
  <2>6. From(e, x, out2)
    <3> HIDE DEF e, x, out2, taken
    <3> QED BY <2>1, <2>4 DEF From
  <2>7. /\ Listed(k + 1, list, a.kept, out2) /\ Listed(k + 1, list, a.back, out2)
        /\ Listed(k, list, a.back, out2)
    <3>1. \A i \in Ids : i # list[k + 1].id => Reported(i, out2) = Reported(i, a.out)
      BY <2>2
    <3>2. Listed(k, list, a.back, out2)
      <4>1. \A j \in 1..k : list[j].id \in Ids /\ list[j].id # e.id
        <5> TAKE j \in 1..k
        <5>1. list[j] \in Event
          BY <1>0, ElementOfSeq
        <5> QED BY <5>1, <1>0 DEF Event, OneOfEach
      <4> HIDE DEF e, out2
      <4>2. ASSUME NEW m \in 1..Len(a.back)
            PROVE  \E j \in 1..k : From(list[j], a.back[m], out2)
        <5>1. PICK j \in 1..k : From(list[j], a.back[m], a.out)
          BY <1>2 DEF Listed
        <5> QED BY <5>1, <4>1, <2>2 DEF From
      <4> QED BY <4>2, <1>2 DEF Listed
    <3> HIDE DEF out2, e
    <3> QED BY <1>2, <3>1, <3>2, ListedStays
  <2>8. /\ \E j \in 1..(k + 1) : list[j].triggered /\ Reported(list[j].id, out2) # << >>
        /\ \A j \in ((k + 1) + 1)..Len(list) : Reported(list[j].id, out2) = << >>
    <3>1. list[k + 1].triggered /\ Reported(list[k + 1].id, out2) # << >>
      BY <1>6, <2>4, <2>5
    <3>2. \A j \in ((k + 1) + 1)..Len(list) : Reported(list[j].id, out2) = << >>
      <4> TAKE j \in ((k + 1) + 1)..Len(list)
      <4>1. Reported(list[j].id, out2) = Reported(list[j].id, a.out)
        BY <1>4, <2>2
      <4>2. Reported(list[j].id, a.out) = << >>
        BY <1>0 DEF Visited
      <4> QED BY <4>1, <4>2
    <3> QED BY <3>1, <3>2, <1>0
  <2>9. CASE Kind[e.id] = "hrtimer"
    <3>1. b = [a EXCEPT !.out = out2]
      BY <1>6, <2>9 DEF Visit
    <3> HIDE DEF b, e, room, taken, x, out2
    <3>2. b.out = out2 /\ b.kept = a.kept /\ b.back = a.back
          /\ b \in [out : Seq(Entry), kept : Seq(Event), back : Seq(Event)]
      BY <3>1, <2>3, <1>2
    <3>3. \A m \in 1..Len(a.kept), n \in 1..Len(a.back) : a.kept[m].id # a.back[n].id
      BY DEF Visited
    <3> QED BY <3>2, <3>3, <2>3, <2>7, <2>8 DEF Visited, b, e
  <2>10. CASE Kind[e.id] # "hrtimer"
    <3> DEFINE back2 == Append(a.back, x)
    <3>1. b = [a EXCEPT !.out = out2, !.back = back2]
      BY <1>6, <2>10 DEF Visit
    <3>2. /\ back2 \in Seq(Event) /\ Len(a.back) \in Nat /\ Len(back2) = Len(a.back) + 1
          /\ back2[Len(a.back) + 1] = x /\ \A i \in 1..Len(a.back) : back2[i] = a.back[i]
      BY <1>2, <2>1, OneMore
    <3>3. Listed(k + 1, list, back2, out2)
      BY <1>2, <2>1, <2>6, <2>7, ListedMore
    <3> HIDE DEF b, e, room, taken, x, out2, back2
    <3>4. b.out = out2 /\ b.kept = a.kept /\ b.back = back2
          /\ b \in [out : Seq(Entry), kept : Seq(Event), back : Seq(Event)]
      BY <3>1, <3>2, <2>3, <1>2
    <3>5. \A m \in 1..Len(a.kept), n \in 1..Len(back2) : a.kept[m].id # back2[n].id
      <4> TAKE m \in 1..Len(a.kept), n \in 1..Len(back2)
      <4>1. n \in 1..Len(a.back) \/ n = Len(a.back) + 1
        BY <3>2
      <4>2. CASE n \in 1..Len(a.back)
        BY <4>2, <3>2 DEF Visited
      <4>3. CASE n = Len(a.back) + 1
        BY <4>3, <3>2, <1>2, <1>3, <2>1
      <4> QED BY <4>1, <4>2, <4>3
    <3> QED BY <3>3, <3>4, <3>5, <2>3, <2>7, <2>8 DEF Visited, b, e
  <2> QED BY <2>9, <2>10
<1> QED BY <1>1, <1>2, <1>5, <1>6

\* A list from which one place is taken.
LEMMA PlaceTaken ==
    ASSUME NEW S, NEW q \in Seq(S), NEW k \in 1..Len(q)
    PROVE  /\ RemoveAt(q, k) \in Seq(S) /\ Len(RemoveAt(q, k)) = Len(q) - 1
           /\ \A j \in 1..(Len(q) - 1) : RemoveAt(q, k)[j] = IF j < k THEN q[j] ELSE q[j + 1]
<1> DEFINE a == SubSeq(q, 1, k - 1)
           b == SubSeq(q, k + 1, Len(q))
<1>0. Len(q) \in Nat
  BY LenProperties
<1>1. /\ a \in Seq(S) /\ Len(a) = k - 1
      /\ \A j \in 1..(k - 1) : a[j] = q[j]
  BY <1>0, SubSeqProperties
<1>2. /\ b \in Seq(S) /\ Len(b) = Len(q) - k
      /\ \A j \in 1..(Len(q) - k) : b[j] = q[k + j]
  BY <1>0, SubSeqProperties
<1> HIDE DEF a, b
<1>3. /\ a \o b \in Seq(S) /\ Len(a \o b) = Len(a) + Len(b)
      /\ \A j \in 1..(Len(a) + Len(b)) : (a \o b)[j] = IF j <= Len(a) THEN a[j] ELSE b[j - Len(a)]
  <2>1. a \in Seq(S) /\ b \in Seq(S)
    BY <1>1, <1>2
  <2> QED BY <2>1, ConcatProperties
<1>4. \A j \in 1..(Len(q) - 1) : (a \o b)[j] = IF j < k THEN q[j] ELSE q[j + 1]
  <2> TAKE j \in 1..(Len(q) - 1)
  <2>1. CASE j < k
    BY <2>1, <1>0, <1>1, <1>2, <1>3
  <2>2. CASE ~(j < k)
    <3>1. j - Len(a) \in 1..(Len(q) - k) /\ k + (j - Len(a)) = j + 1 /\ ~(j <= Len(a))
      BY <2>2, <1>0, <1>1
    <3>2. (a \o b)[j] = b[j - Len(a)]
      BY <3>1, <1>0, <1>1, <1>2, <1>3
    <3>3. b[j - Len(a)] = q[j + 1]
      BY <3>1, <1>2
    <3> QED BY <2>2, <3>2, <3>3
  <2> QED BY <2>1, <2>2
<1>5. Len(a \o b) = Len(q) - 1
  BY <1>0, <1>1, <1>2, <1>3
<1>6. RemoveAt(q, k) = a \o b
  BY DEF RemoveAt, a, b
<1> QED BY <1>3, <1>4, <1>5, <1>6

\* What is told of an event is a list of numbers.
LEMMA ToldNumbers ==
    ASSUME NEW i \in Ids, NEW s \in Seq(Entry)
    PROVE  Reported(i, s) \in Seq(Nat)
<1> DEFINE m == Len(s)
<1>1. m \in Nat
  OBVIOUS
<1>2. PICK a : /\ a[0] = << >>
               /\ \A k \in 1..m : a[k] = IF s[k].id = i THEN Append(a[k - 1], s[k].data) ELSE a[k - 1]
               /\ Reported(i, s) = a[m]
  BY <1>1, ToldUnfolds
<1> DEFINE S == {k \in 0..m : a[k] \in Seq(Nat)}
<1>3. 0 \in S
  <2>1. << >> \in Seq(Nat) /\ 0 \in 0..m
    BY <1>1
  <2> QED BY <2>1, <1>2
<1>4. ASSUME NEW k \in 0..(m - 1), k \in S
      PROVE  k + 1 \in S
  <2>1. k + 1 \in 1..m /\ (k + 1) - 1 = k /\ k + 1 \in 0..m
    BY <1>1
  <2>2. s[k + 1].data \in Nat
    <3>1. s[k + 1] \in Entry
      BY <2>1, ElementOfSeq
    <3> QED BY <3>1 DEF Entry
  <2>3. a[k + 1] = IF s[k + 1].id = i THEN Append(a[k], s[k + 1].data) ELSE a[k]
    BY <1>2, <2>1
  <2>4. a[k] \in Seq(Nat)
    BY <1>4
  <2>5. a[k + 1] \in Seq(Nat)
    <3>1. Append(a[k], s[k + 1].data) \in Seq(Nat)
      BY <2>2, <2>4, AppendProperties
    <3> HIDE DEF S
    <3> QED BY <2>3, <2>4, <3>1
  <2> QED BY <2>1, <2>5
<1> HIDE DEF S
<1>5. \A k \in 0..m : k \in S
  BY <1>1, <1>3, <1>4, UpTo
<1> QED BY <1>1, <1>2, <1>5 DEF S

\* A list of events as the queue keeps it.
Good(list) == list \in Seq(Event) /\ OneOfEach(list) /\ \A k \in 1..Len(list) : Whole(list[k])

\* The whole walk: its list is one of the events there were, each with what is left of
\* it, and it reports something unless nothing was triggered.
LEMMA WalkFacts ==
    ASSUME NEW list, Good(list), NEW size \in Nat \ {0}
    PROVE  /\ Walk(list, size).out \in Seq(Entry) /\ Good(Walk(list, size).list)
           /\ \A m \in 1..Len(Walk(list, size).list) : \E j \in 1..Len(list) :
                 From(list[j], Walk(list, size).list[m], Walk(list, size).out)
           /\ Walk(list, size).out = << >> =>
                 \A m \in 1..Len(Walk(list, size).list) : ~Walk(list, size).list[m].triggered
           /\ Walk(list, size).out # << >> =>
                 \E j \in 1..Len(list) : list[j].triggered /\ Reported(list[j].id, Walk(list, size).out) # << >>
<1> DEFINE w == Walk(list, size)
           n == Len(list)
<1>1. list \in Seq(Event) /\ OneOfEach(list) /\ (\A j \in 1..n : Whole(list[j])) /\ n \in Nat
  BY DEF Good
<1>2. PICK seen : /\ seen[0] = Nothing
                  /\ \A k \in 1..n : seen[k] = Visit(seen[k - 1], list[k], size)
                  /\ w = [out |-> seen[n].out, list |-> seen[n].kept \o seen[n].back]
  BY <1>1, WalkUnfolds
<1> HIDE DEF w
<1> DEFINE S == {k \in 0..n : Visited(k, list, size, seen[k])}
<1>3. 0 \in S
  <2>1. Nothing \in [out : Seq(Entry), kept : Seq(Event), back : Seq(Event)]
        /\ Nothing.out = << >> /\ Nothing.kept = << >> /\ Nothing.back = << >>
    BY DEF Nothing
  <2>2. \A i \in Ids : Reported(i, << >>) = << >>
    <3> TAKE i \in Ids
    <3> DEFINE s == << >>
    <3>0. Len(s) = 0
      OBVIOUS
    <3>1. PICK told : told[0] = << >> /\ Reported(i, s) = told[Len(s)]
      <4>1. Len(s) \in Nat
        BY <3>0
      <4> HIDE DEF s
      <4> QED BY <4>1, ToldUnfolds
    <3> QED BY <3>0, <3>1
  <2>3. \A j \in (0 + 1)..Len(list) : Reported(list[j].id, << >>) = << >>
    <3> TAKE j \in (0 + 1)..Len(list)
    <3>1. list[j] \in Event
      BY <1>1
    <3> QED BY <2>2, <3>1 DEF Event
  <2>4. Listed(0, list, << >>, << >>) /\ Len(<< >>) = 0
    BY DEF Listed, OneOfEach
  <2>5. Visited(0, list, size, Nothing)
    BY <2>1, <2>3, <2>4 DEF Visited
  <2> QED BY <1>1, <1>2, <2>5
<1>4. ASSUME NEW k \in 0..(n - 1), k \in S
      PROVE  k + 1 \in S
  <2>1. k + 1 \in 1..n /\ (k + 1) - 1 = k /\ k + 1 \in 0..n
    BY <1>1
  <2>2. Visited(k, list, size, seen[k])
    BY <1>4
  <2>3. seen[k + 1] = Visit(seen[k], list[k + 1], size)
    BY <1>2, <2>1
  <2>4. Visited(k + 1, list, size, seen[k + 1])
    BY <1>1, <2>2, <2>3, VisitStep
  <2> QED BY <2>1, <2>4
<1> DEFINE a == seen[n]
<1>5. Visited(n, list, size, a)
  <2> HIDE DEF S
  <2>1. \A k \in 0..n : k \in S
    BY <1>1, <1>3, <1>4, UpTo
  <2> QED BY <1>1, <2>1 DEF S
<1>6. w.out = a.out /\ w.list = a.kept \o a.back
  BY <1>2
<1> HIDE DEF a
<1> DEFINE p == a.kept
           q == a.back
           l == w.list
<1>7. /\ a.out \in Seq(Entry) /\ p \in Seq(Event) /\ q \in Seq(Event) /\ Listed(n, list, p, a.out)
      /\ Listed(n, list, q, a.out) /\ \A x \in 1..Len(p), y \in 1..Len(q) : p[x].id # q[y].id
  BY <1>5 DEF Visited
<1> HIDE DEF p, q, l
<1>8. /\ l \in Seq(Event) /\ Len(l) = Len(p) + Len(q) /\ Len(p) \in Nat /\ Len(q) \in Nat
      /\ \A k \in 1..Len(p) : l[k] = p[k]
      /\ \A k \in 1..Len(q) : l[Len(p) + k] = q[k]
      /\ q = << >> => l = p
  <2>1. l = p \o q
    BY <1>6 DEF p, q, l
  <2> QED BY <1>7, <2>1, InARow
<1>9. \A m \in 1..Len(l) : \/ m \in 1..Len(p) /\ l[m] = p[m]
                           \/ m - Len(p) \in 1..Len(q) /\ l[m] = q[m - Len(p)] /\ m = Len(p) + (m - Len(p))
  <2> TAKE m \in 1..Len(l)
  <2>1. m \in 1..Len(p) \/ (m - Len(p) \in 1..Len(q) /\ Len(p) + (m - Len(p)) = m)
    BY <1>8
  <2> QED BY <1>8, <2>1
<1>10. \A m \in 1..Len(l) : \E j \in 1..n : From(list[j], l[m], a.out)
  BY <1>7, <1>9 DEF Listed
<1>11. OneOfEach(l)
  <2> SUFFICES ASSUME NEW x \in 1..Len(l), NEW y \in 1..Len(l), l[x].id = l[y].id
               PROVE  x = y
    BY DEF OneOfEach
  <2>1. CASE x \in 1..Len(p) /\ l[x] = p[x] /\ y \in 1..Len(p) /\ l[y] = p[y]
    BY <2>1, <1>7 DEF Listed, OneOfEach
  <2>2. CASE /\ x - Len(p) \in 1..Len(q) /\ l[x] = q[x - Len(p)] /\ x = Len(p) + (x - Len(p))
             /\ y - Len(p) \in 1..Len(q) /\ l[y] = q[y - Len(p)] /\ y = Len(p) + (y - Len(p))
    <3>1. x - Len(p) = y - Len(p)
      BY <2>2, <1>7 DEF Listed, OneOfEach
    <3> QED BY <3>1, <2>2
  <2>3. CASE x \in 1..Len(p) /\ l[x] = p[x] /\ y - Len(p) \in 1..Len(q) /\ l[y] = q[y - Len(p)]
    BY <2>3, <1>7
  <2>4. CASE y \in 1..Len(p) /\ l[y] = p[y] /\ x - Len(p) \in 1..Len(q) /\ l[x] = q[x - Len(p)]
    BY <2>4, <1>7
  <2> QED BY <2>1, <2>2, <2>3, <2>4, <1>9
<1>12. Good(l)
  <2>1. \A m \in 1..Len(l) : Whole(l[m])
    BY <1>10 DEF From
  <2> QED BY <1>8, <1>11, <2>1 DEF Good
<1>13. a.out = << >> => \A m \in 1..Len(l) : ~l[m].triggered
  <2> SUFFICES ASSUME a.out = << >>
               PROVE  \A m \in 1..Len(l) : ~l[m].triggered
    OBVIOUS
  <2>1. q = << >> /\ \A m \in 1..Len(p) : ~p[m].triggered
    BY <1>5 DEF Visited, p, q
  <2> QED BY <2>1, <1>8
<1>14. a.out # << >> => \E j \in 1..n : list[j].triggered /\ Reported(list[j].id, a.out) # << >>
  BY <1>5 DEF Visited
<1> QED BY <1>6, <1>7, <1>10, <1>12, <1>13, <1>14 DEF w, l

\* A queue's list stays one when an event in it changes, ...
LEMMA GoodChanged ==
    ASSUME NEW list, Good(list), NEW k \in 1..Len(list), NEW e \in Event, e.id = list[k].id, Whole(e)
    PROVE  /\ Good([list EXCEPT ![k] = e]) /\ Len([list EXCEPT ![k] = e]) = Len(list)
           /\ \A j \in 1..Len(list) : [list EXCEPT ![k] = e][j] = IF j = k THEN e ELSE list[j]
<1> DEFINE p == [list EXCEPT ![k] = e]
<1>1. list \in Seq(Event) /\ OneOfEach(list) /\ \A j \in 1..Len(list) : Whole(list[j])
  BY DEF Good
<1>2. /\ p \in Seq(Event) /\ Len(p) = Len(list)
      /\ \A j \in 1..Len(list) : p[j] = IF j = k THEN e ELSE list[j]
  BY <1>1, ExceptSeq
<1> HIDE DEF p
<1>3. \A j \in 1..Len(p) : p[j].id = list[j].id /\ Whole(p[j])
  BY <1>1, <1>2
<1>4. OneOfEach(p)
  BY <1>1, <1>2, <1>3 DEF OneOfEach
<1> QED BY <1>2, <1>3, <1>4 DEF Good, p

\* ... when another is added, ...
LEMMA GoodAdded ==
    ASSUME NEW list, Good(list), NEW e \in Event, Whole(e), \A j \in 1..Len(list) : list[j].id # e.id
    PROVE  /\ Good(Append(list, e)) /\ Len(Append(list, e)) = Len(list) + 1
           /\ Append(list, e)[Len(list) + 1] = e /\ Len(list) \in Nat
           /\ \A j \in 1..Len(list) : Append(list, e)[j] = list[j]
<1> DEFINE p == Append(list, e)
<1>1. list \in Seq(Event) /\ OneOfEach(list) /\ \A j \in 1..Len(list) : Whole(list[j])
  BY DEF Good
<1>2. /\ Len(list) \in Nat /\ p \in Seq(Event) /\ Len(p) = Len(list) + 1
      /\ p[Len(list) + 1] = e /\ \A j \in 1..Len(list) : p[j] = list[j]
  BY <1>1, OneMore
<1> HIDE DEF p
<1>3. \A j \in 1..Len(p) : j \in 1..Len(list) \/ j = Len(list) + 1
  BY <1>2
<1>4. \A j \in 1..Len(p) : Whole(p[j])
  BY <1>1, <1>2, <1>3
<1>5. OneOfEach(p)
  BY <1>1, <1>2, <1>3 DEF OneOfEach
<1> QED BY <1>2, <1>4, <1>5 DEF Good, p

\* ... and when one is taken out.
LEMMA GoodTaken ==
    ASSUME NEW list, Good(list), NEW k \in 1..Len(list)
    PROVE  /\ Good(RemoveAt(list, k))
           /\ \A m \in 1..Len(RemoveAt(list, k)) :
                 \E j \in 1..Len(list) : j # k /\ RemoveAt(list, k)[m] = list[j]
<1> DEFINE p == RemoveAt(list, k)
<1>1. list \in Seq(Event) /\ OneOfEach(list) /\ (\A j \in 1..Len(list) : Whole(list[j])) /\ Len(list) \in Nat
  BY DEF Good
<1>2. /\ p \in Seq(Event) /\ Len(p) = Len(list) - 1
      /\ \A j \in 1..(Len(list) - 1) : p[j] = IF j < k THEN list[j] ELSE list[j + 1]
  BY <1>1, PlaceTaken
<1> HIDE DEF p
<1> DEFINE at(m) == IF m < k THEN m ELSE m + 1
<1>3. \A m \in 1..Len(p) : at(m) \in 1..Len(list) /\ at(m) # k /\ p[m] = list[at(m)]
  BY <1>1, <1>2
<1>4. \A m, n \in 1..Len(p) : at(m) = at(n) => m = n
  BY <1>1, <1>2
<1> HIDE DEF at
<1>5. OneOfEach(p)
  BY <1>1, <1>3, <1>4 DEF OneOfEach
<1>6. \A m \in 1..Len(p) : Whole(p[m])
  BY <1>1, <1>3
<1> QED BY <1>2, <1>3, <1>5, <1>6 DEF Good, p

\* When timers that are due are triggered, nothing else changes.
LEMMA GoodExpired ==
    ASSUME NEW list, Good(list)
    PROVE  /\ Good(TriggerExpiredTimers(list)) /\ Len(TriggerExpiredTimers(list)) = Len(list)
           /\ \A j \in 1..Len(list) :
                 /\ TriggerExpiredTimers(list)[j].id = list[j].id
                 /\ ~IsTimer(list[j].id) => TriggerExpiredTimers(list)[j] = list[j]
<1> DEFINE p == TriggerExpiredTimers(list)
           n == Len(list)
<1>1. list \in Seq(Event) /\ OneOfEach(list) /\ (\A j \in 1..n : Whole(list[j])) /\ n \in Nat
  BY DEF Good
<1>2. p = [j \in 1..n |->
             IF list[j].clock # "due" THEN list[j]
             ELSE [list[j] EXCEPT !.triggered = TRUE,
                                  !.clock = IF Kind[list[j].id] = "timer" THEN "armed" ELSE list[j].clock]]
  BY DEF TriggerExpiredTimers
<1> HIDE DEF p
<1>3. ASSUME NEW j \in 1..n
      PROVE  /\ p[j] \in Event /\ p[j].id = list[j].id /\ Whole(p[j])
             /\ ~IsTimer(list[j].id) => p[j] = list[j]
  <2>1. list[j] \in Event /\ Whole(list[j])
    BY <1>1
  <2> DEFINE e == list[j]
             f == [e EXCEPT !.triggered = TRUE, !.clock = IF Kind[e.id] = "timer" THEN "armed" ELSE e.clock]
  <2>2. p[j] = IF e.clock # "due" THEN e ELSE f
    BY <1>2
  <2> HIDE DEF e
  <2>3. e \in Event /\ Whole(e)
    BY <2>1 DEF e
  <2>4. f \in Event /\ f.id = e.id /\ f.triggered /\ f.pending = e.pending
    BY <2>3 DEF Event
  <2>5. e.clock = "due" => IsTimer(e.id)
    BY <2>3 DEF Whole
  <2>6. e.clock = "due" => Whole(f)
    <3> HIDE DEF f
    <3> QED BY <2>3, <2>4, <2>5 DEF Whole
  <2> HIDE DEF f
  <2>7. /\ p[j] \in Event /\ p[j].id = e.id /\ Whole(p[j])
        /\ ~IsTimer(e.id) => p[j] = e
    BY <2>2, <2>3, <2>4, <2>5, <2>6
  <2> QED BY <2>7 DEF e
<1>4. p \in Seq(Event) /\ Len(p) = n
  <2>1. p \in [1..n -> Event]
    BY <1>2, <1>3
  <2> QED BY <1>1, <2>1
<1>5. OneOfEach(p)
  BY <1>1, <1>3, <1>4 DEF OneOfEach
<1> QED BY <1>3, <1>4, <1>5 DEF Good, p

\* An event that is there is found, and no other has its place.
LEMMA FoundAt ==
    ASSUME Good(events), NEW i \in Ids, Registered(i)
    PROVE  /\ IndexOf(i) \in 1..Len(events) /\ events[IndexOf(i)].id = i
           /\ \A k \in 1..Len(events) : events[k].id = i => k = IndexOf(i)
<1>1. \E k \in 1..Len(events) : events[k].id = i
  BY DEF Registered
<1>2. IndexOf(i) \in 1..Len(events) /\ events[IndexOf(i)].id = i
  BY <1>1 DEF IndexOf
<1> HIDE DEF IndexOf
<1> QED BY <1>2 DEF Good, OneOfEach

-----------------------------------------------------------------------------
(* What was sent to a completion event, and what became of it.             *)

Log == [sent : Seq(Nat), reported : Seq(Nat), dropped : Nat]

\* What of an event was reported and what it holds is what was sent to it up to number
\* n, in its order and but for what was dropped.
Accounted(e, l, n) ==
    LET all == l.reported \o Held(e)
    IN /\ Len(all) + l.dropped = Len(l.sent)
       /\ \A j, k \in 1..Len(all) : j < k => all[j] < all[k]
       /\ \A k \in 1..Len(all) : all[k] <= n
       /\ l.dropped = 0 => all = l.sent

\* What an event holds is a list of numbers.
LEMMA HeldNumbers ==
    ASSUME NEW e \in Event, Whole(e)
    PROVE  /\ Held(e) \in Seq(Nat) /\ Len(Held(e)) \in 0..(MaxPending + 1)
           /\ e.triggered => /\ Len(Held(e)) = Len(e.pending) + 1 /\ Len(e.pending) \in Nat
                             /\ Held(e)[1] = e.data
                             /\ \A k \in 1..Len(e.pending) : Held(e)[k + 1] = e.pending[k]
           /\ ~e.triggered => Held(e) = << >>
<1>1. e.data \in Nat /\ e.pending \in Seq(Nat) /\ Len(e.pending) \in Nat /\ e.triggered \in BOOLEAN
  BY DEF Event
<1>2. Len(e.pending) <= MaxPending /\ MaxPending \in Nat
  BY RoomAssumption DEF Whole
<1>3. CASE e.triggered
  <2> DEFINE d == << e.data >>
             p == e.pending
             h == Held(e)
  <2>1. d \in Seq(Nat) /\ Len(d) = 1 /\ d[1] = e.data
    BY <1>1
  <2>2. h = d \o p
    BY <1>3 DEF Held
  <2> HIDE DEF d, p, h
  <2>3. p \in Seq(Nat) /\ Len(p) \in Nat
    BY <1>1 DEF p
  <2>4. /\ d \o p \in Seq(Nat) /\ Len(d \o p) = Len(d) + Len(p)
        /\ \A k \in 1..Len(d) : (d \o p)[k] = d[k]
        /\ \A k \in 1..Len(p) : (d \o p)[Len(d) + k] = p[k]
    <3>1. d \in Seq(Nat) /\ p \in Seq(Nat)
      BY <2>1, <2>3
    <3> QED BY <3>1, InARow
  <2>5. /\ h \in Seq(Nat) /\ Len(h) = Len(p) + 1 /\ h[1] = e.data
        /\ \A k \in 1..Len(p) : h[k + 1] = p[k]
    BY <2>1, <2>2, <2>3, <2>4
  <2> QED BY <1>2, <1>3, <2>3, <2>5 DEF p, h
<1>4. CASE ~e.triggered
  <2>1. Held(e) = << >> /\ << >> \in Seq(Nat) /\ Len(<< >>) = 0
    BY <1>4 DEF Held
  <2> QED BY <1>2, <1>4, <2>1
<1> QED BY <1>1, <1>3, <1>4

\* A walk's report moves completions from what the event holds to what was reported.
LEMMA AccountedReported ==
    ASSUME NEW e \in Event, Whole(e), NEW x \in Event, Whole(x), NEW l \in Log, NEW n \in Nat,
           NEW told \in Seq(Nat), Held(e) = told \o Held(x), Accounted(e, l, n)
    PROVE  Accounted(x, [l EXCEPT !.reported = l.reported \o told], n)
<1> DEFINE m == [l EXCEPT !.reported = l.reported \o told]
<1>1. l.reported \in Seq(Nat)
  BY DEF Log
<1>2. m.reported = l.reported \o told /\ m.sent = l.sent /\ m.dropped = l.dropped
  BY DEF Log
<1>3. Held(x) \in Seq(Nat)
  BY HeldNumbers
<1>4. m.reported \o Held(x) = l.reported \o Held(e)
  <2> DEFINE r == l.reported
             h == Held(x)
  <2> HIDE DEF r, h
  <2>1. r \in Seq(Nat) /\ h \in Seq(Nat)
    BY <1>1, <1>3 DEF r, h
  <2>2. (r \o told) \o h = r \o (told \o h)
    BY <2>1, ConcatAssociative
  <2> QED BY <1>2, <2>2 DEF r, h
<1> HIDE DEF m
<1>5. Accounted(x, m, n)
  BY <1>2, <1>4 DEF Accounted
<1> QED BY <1>5 DEF m

\* An event that is triggered shows number n, or has it behind the one it shows.
LEMMA TriggeredFacts ==
    ASSUME NEW e \in Event, Whole(e), ~IsTimer(e.id), NEW n \in Nat
    PROVE  /\ Triggered(e, n) \in Event /\ Triggered(e, n).id = e.id /\ Whole(Triggered(e, n))
           /\ ~e.triggered => Held(Triggered(e, n)) = << n >>
           /\ Kind[e.id] = "ampr" /\ e.triggered /\ Len(e.pending) # MaxPending =>
                 Held(Triggered(e, n)) = Append(Held(e), n)
           /\ Kind[e.id] = "ampr" /\ e.triggered /\ Len(e.pending) = MaxPending =>
                 /\ Len(Held(Triggered(e, n))) = Len(Held(e)) /\ Held(Triggered(e, n))[1] = Held(e)[1]
                 /\ \A k \in 2..Len(Held(e)) : Held(Triggered(e, n))[k] = Append(Held(e), n)[k + 1]
           /\ Kind[e.id] # "ampr" /\ e.triggered => Len(Held(Triggered(e, n))) = Len(Held(e))
<1> DEFINE p == e.pending
           f == Triggered(e, n)
           h == Held(e)
<1>1. /\ e.data \in Nat /\ p \in Seq(Nat) /\ Len(p) \in Nat /\ e.triggered \in BOOLEAN
      /\ Len(p) <= MaxPending /\ MaxPending \in Nat /\ (~e.triggered => p = << >>)
      /\ (~IsTimer(e.id) => e.clock = "none")
  BY RoomAssumption DEF Event, Whole
<1>2. CASE Kind[e.id] = "ampr" /\ e.triggered
  <2> DEFINE q == Queued(p, n)
             a == Append(p, n)
             A == Append(h, n)
  <2>1. f = [e EXCEPT !.pending = q]
    BY <1>2 DEF Triggered
  <2>2. /\ a \in Seq(Nat) /\ Len(a) = Len(p) + 1 /\ a # << >>
        /\ a[Len(p) + 1] = n /\ \A k \in 1..Len(p) : a[k] = p[k]
    BY <1>1, AppendProperties
  <2>3. q = IF Len(a) > MaxPending THEN Tail(a) ELSE a
    BY DEF Queued
  <2> HIDE DEF a
  <2>4. /\ Tail(a) \in Seq(Nat) /\ Len(Tail(a)) = Len(p)
        /\ \A k \in 1..Len(p) : Tail(a)[k] = a[k + 1]
    <3>1. /\ Tail(a) \in Seq(Nat) /\ Len(Tail(a)) = Len(a) - 1
          /\ \A k \in 1..Len(Tail(a)) : Tail(a)[k] = a[k + 1]
      BY <2>2, HeadTailProperties
    <3>2. Len(a) - 1 = Len(p)
      BY <1>1, <2>2
    <3> QED BY <3>1, <3>2
  <2> HIDE DEF q, p
  <2>5. q \in Seq(Nat) /\ Len(q) <= MaxPending
    BY <1>1, <2>2, <2>3, <2>4
  <2>6. f \in Event /\ f.id = e.id /\ f.triggered /\ f.pending = q /\ f.data = e.data /\ f.clock = e.clock
    <3> HIDE DEF f
    <3> QED BY <1>2, <2>1, <2>5 DEF Event
  <2>7. Whole(f)
    <3> HIDE DEF f
    <3> QED BY <1>1, <2>5, <2>6 DEF Whole
  <2> DEFINE g == Held(f)
  <2>8. /\ h \in Seq(Nat) /\ Len(h) = Len(p) + 1 /\ h[1] = e.data
        /\ \A k \in 1..Len(p) : h[k + 1] = p[k]
    BY <1>2, HeldNumbers DEF p
  <2>9. /\ g \in Seq(Nat) /\ Len(g) = Len(q) + 1 /\ g[1] = e.data
        /\ \A k \in 1..Len(q) : g[k + 1] = q[k]
    <3> HIDE DEF f
    <3> QED BY <2>6, <2>7, HeldNumbers
  <2> HIDE DEF f, g, h
  <2>10. /\ A \in Seq(Nat) /\ Len(A) = Len(h) + 1
         /\ A[Len(h) + 1] = n /\ \A k \in 1..Len(h) : A[k] = h[k]
    BY <2>8, AppendProperties
  <2> HIDE DEF A
  <2>11. \A k \in 1..(Len(p) + 1) : A[k + 1] = a[k]
    <3> TAKE k \in 1..(Len(p) + 1)
    <3>1. CASE k \in 1..Len(p)
      <4>1. k + 1 \in 1..Len(h)
        BY <3>1, <1>1, <2>8
      <4> QED BY <3>1, <4>1, <2>2, <2>8, <2>10
    <3>2. CASE k = Len(p) + 1
      BY <3>2, <1>1, <2>2, <2>8, <2>10
    <3> QED BY <3>1, <3>2, <1>1
  <2>12. CASE Len(p) # MaxPending
    <3>1. q = a
      BY <2>12, <1>1, <2>2, <2>3
    <3>2. Len(g) = Len(A)
      BY <3>1, <2>2, <2>8, <2>9, <2>10
    <3>3. ASSUME NEW k \in 1..Len(g)
          PROVE  g[k] = A[k]
      <4>1. k = 1 \/ (k - 1 \in 1..Len(q) /\ (k - 1) + 1 = k)
        BY <2>9
      <4>2. CASE k = 1
        <5>1. 1 \in 1..Len(h)
          BY <1>1, <2>8
        <5> QED BY <4>2, <5>1, <2>8, <2>9, <2>10
      <4>3. CASE k - 1 \in 1..Len(q) /\ (k - 1) + 1 = k
        <5>1. g[k] = q[k - 1]
          BY <4>3, <2>9
        <5>2. k - 1 \in 1..(Len(p) + 1)
          BY <4>3, <3>1, <2>2
        <5>3. A[k] = a[k - 1]
          BY <4>3, <5>2, <2>11
        <5> QED BY <3>1, <5>1, <5>3
      <4> QED BY <4>1, <4>2, <4>3
    <3>4. g = A
      BY <3>2, <3>3, <2>9, <2>10, SeqEqual
    <3> QED BY <1>2, <2>12, <2>6, <2>7, <3>4 DEF f, g, h, A, p
  <2>13. CASE Len(p) = MaxPending
    <3>1. q = Tail(a)
      BY <2>13, <1>1, <2>2, <2>3
    <3>2. Len(g) = Len(h) /\ g[1] = h[1]
      BY <3>1, <2>4, <2>8, <2>9
    <3>3. ASSUME NEW k \in 2..Len(h)
          PROVE  g[k] = A[k + 1]
      <4>1. k - 1 \in 1..Len(p) /\ (k - 1) + 1 = k /\ k \in 1..(Len(p) + 1) /\ Len(q) = Len(p)
        BY <3>1, <1>1, <2>4, <2>8
      <4>2. g[k] = q[k - 1] /\ q[k - 1] = a[k]
        BY <4>1, <3>1, <2>4, <2>9
      <4> QED BY <4>1, <4>2, <2>11
    <3> QED BY <1>2, <2>13, <2>6, <2>7, <3>2, <3>3 DEF f, g, h, A, p
  <2> QED BY <2>12, <2>13
<1>3. CASE ~(Kind[e.id] = "ampr" /\ e.triggered)
  <2>1. f = [e EXCEPT !.triggered = TRUE, !.data = n]
    BY <1>3 DEF Triggered
  <2> HIDE DEF f, p
  <2>2. f \in Event /\ f.id = e.id /\ f.triggered /\ f.pending = p /\ f.data = n /\ f.clock = e.clock
    BY <2>1, <1>1 DEF Event, p
  <2>3. Whole(f)
    BY <2>2, <1>1 DEF Whole
  <2>4. /\ Held(f) = << n >> \o p
        /\ e.triggered => Len(Held(f)) = Len(h)
    <3>1. Held(f) = << n >> \o p
      BY <2>2 DEF Held
    <3>2. Len(Held(f)) = Len(p) + 1
      BY <2>2, <2>3, HeldNumbers
    <3>3. e.triggered => Len(h) = Len(p) + 1
      BY HeldNumbers DEF p
    <3> QED BY <3>1, <3>2, <3>3
  <2>5. ~e.triggered => Held(f) = << n >>
    <3> SUFFICES ASSUME ~e.triggered
                 PROVE  Held(f) = << n >>
      OBVIOUS
    <3> DEFINE d == << n >>
    <3>1. d \in Seq(Nat)
      OBVIOUS
    <3>2. Held(f) = d \o << >>
      BY <2>4, <1>1
    <3> HIDE DEF d
    <3>3. Held(f) = d
      BY <3>1, <3>2, ConcatEmptySeq
    <3> QED BY <3>3 DEF d
  <2> QED BY <1>1, <1>3, <2>2, <2>3, <2>4, <2>5 DEF f, p
<1> QED BY <1>2, <1>3

\* A completion that is sent takes its place behind the others, and of those that wait
\* one is dropped if they are too many.
LEMMA AccountedTriggered ==
    ASSUME NEW e \in Event, Whole(e), Kind[e.id] = "ampr", NEW l \in Log, NEW n \in Nat,
           Accounted(e, l, n), NEW drops \in BOOLEAN,
           drops = (e.triggered /\ Len(e.pending) = MaxPending)
    PROVE  Accounted(Triggered(e, n + 1),
                     [l EXCEPT !.sent = Append(l.sent, n + 1),
                               !.dropped = IF drops THEN l.dropped + 1 ELSE l.dropped], n + 1)
<1> DEFINE f == Triggered(e, n + 1)
           m == [l EXCEPT !.sent = Append(l.sent, n + 1),
                          !.dropped = IF drops THEN l.dropped + 1 ELSE l.dropped]
           r == l.reported
           h == Held(e)
           g == Held(f)
           all == r \o h
           now == r \o g
           B == Append(all, n + 1)
           A == Append(h, n + 1)
<1>1. ~IsTimer(e.id) /\ n + 1 \in Nat
  BY DEF IsTimer
<1>2. r \in Seq(Nat) /\ l.sent \in Seq(Nat) /\ l.dropped \in Nat
  BY DEF Log
<1>3. m.reported = r /\ m.sent = Append(l.sent, n + 1) /\ m.dropped = IF drops THEN l.dropped + 1 ELSE l.dropped
  BY DEF Log
<1>4. f \in Event /\ Whole(f)
  BY <1>1, TriggeredFacts
<1>5. h \in Seq(Nat) /\ g \in Seq(Nat) /\ Len(h) \in Nat
  <2>1. h \in Seq(Nat) /\ g \in Seq(Nat)
    <3> HIDE DEF f
    <3> QED BY <1>4, HeldNumbers
  <2> HIDE DEF h, g
  <2> QED BY <2>1
<1>6. /\ ~drops => g = A
      /\ drops => /\ Len(g) = Len(h) /\ g[1] = h[1] /\ Len(h) >= 1
                  /\ \A k \in 2..Len(h) : g[k] = A[k + 1]
  <2>1. e.triggered \in BOOLEAN
    BY DEF Event
  <2>2. ~drops => g = A
    <3>1. CASE e.triggered
      BY <3>1, <1>1, TriggeredFacts
    <3>2. CASE ~e.triggered
      <4>1. h = << >> /\ g = << n + 1 >>
        BY <3>2, <1>1, TriggeredFacts, HeldNumbers
      <4>2. Append(<< >>, n + 1) = << n + 1 >>
        OBVIOUS
      <4> QED BY <4>1, <4>2
    <3> QED BY <3>1, <3>2, <2>1
  <2>3. drops => /\ Len(g) = Len(h) /\ g[1] = h[1] /\ Len(h) >= 1
                 /\ \A k \in 2..Len(h) : g[k] = A[k + 1]
    <3> SUFFICES ASSUME drops
                 PROVE  /\ Len(g) = Len(h) /\ g[1] = h[1] /\ Len(h) >= 1
                        /\ \A k \in 2..Len(h) : g[k] = A[k + 1]
      OBVIOUS
    <3>1. /\ Len(g) = Len(h) /\ g[1] = h[1]
          /\ \A k \in 2..Len(h) : g[k] = A[k + 1]
      BY <1>1, TriggeredFacts
    <3>2. Len(h) = Len(e.pending) + 1 /\ Len(e.pending) \in Nat
      BY HeldNumbers
    <3> DEFINE c == Len(e.pending)
    <3> HIDE DEF c, h
    <3>3. Len(h) >= 1
      BY <3>2 DEF c
    <3> QED BY <3>1, <3>3 DEF h
  <2> QED BY <2>2, <2>3
<1>7. /\ Len(all) + l.dropped = Len(l.sent)
      /\ \A j, k \in 1..Len(all) : j < k => all[j] < all[k]
      /\ \A k \in 1..Len(all) : all[k] <= n
      /\ l.dropped = 0 => all = l.sent
  BY DEF Accounted
<1> HIDE DEF f, m, r, h, g
<1>8. /\ all \in Seq(Nat) /\ Len(all) = Len(r) + Len(h) /\ Len(r) \in Nat
      /\ \A k \in 1..Len(r) : all[k] = r[k]
      /\ \A k \in 1..Len(h) : all[Len(r) + k] = h[k]
  BY <1>2, <1>5, InARow DEF r
<1>9. /\ now \in Seq(Nat) /\ Len(now) = Len(r) + Len(g)
      /\ \A k \in 1..Len(r) : now[k] = r[k]
      /\ \A k \in 1..Len(g) : now[Len(r) + k] = g[k]
  BY <1>2, <1>5, InARow DEF r
<1>10. /\ A \in Seq(Nat) /\ Len(A) = Len(h) + 1
       /\ A[Len(h) + 1] = n + 1 /\ \A k \in 1..Len(h) : A[k] = h[k]
  BY <1>1, <1>5, AppendProperties
<1>a. all \in Seq(Nat)
  BY <1>8
<1> HIDE DEF all
<1>11. /\ B \in Seq(Nat) /\ Len(B) = Len(all) + 1
       /\ B[Len(all) + 1] = n + 1 /\ \A k \in 1..Len(all) : B[k] = all[k]
  BY <1>1, <1>a, AppendProperties
<1>12. ~drops => now = B
  <2> SUFFICES ASSUME ~drops
               PROVE  now = B
    OBVIOUS
  <2> DEFINE x == << n + 1 >>
  <2>1. x \in Seq(Nat)
    BY <1>1
  <2>2. A = h \o x /\ B = all \o x
    BY <1>1, <1>5, <1>a, AppendIsConcat
  <2> HIDE DEF x, A, B
  <2>3. (r \o h) \o x = r \o (h \o x)
    <3> HIDE DEF now
    <3>1. r \in Seq(Nat) /\ h \in Seq(Nat) /\ x \in Seq(Nat)
      BY <2>1, <1>2, <1>5 DEF r
    <3> QED BY <3>1, ConcatAssociative
  <2> QED BY <1>6, <2>2, <2>3 DEF all
<1>s. Len(m.sent) = Len(l.sent) + 1 /\ Len(l.sent) \in Nat
  <2>1. Len(Append(l.sent, n + 1)) = Len(l.sent) + 1 /\ Len(l.sent) \in Nat
    BY <1>1, <1>2, AppendProperties, LenProperties
  <2> QED BY <1>3, <2>1
<1>b. Len(all) \in Nat /\ \A k \in 1..Len(all) : all[k] \in Nat
  BY <1>a
<1> HIDE DEF A, B, now
<1>13. \A j, k \in 1..Len(B) : j < k => B[j] < B[k]
  <2> TAKE j \in 1..Len(B), k \in 1..Len(B)
  <2> SUFFICES ASSUME j < k
               PROVE  B[j] < B[k]
    OBVIOUS
  <2> DEFINE z == Len(all)
  <2>0. z \in Nat /\ Len(B) = z + 1
    BY <1>11, <1>b
  <2> HIDE DEF z
  <2>1. j \in 1..z /\ (k \in 1..z \/ k = z + 1)
    BY <2>0
  <2> USE DEF z
  <2>2. CASE k \in 1..Len(all)
    BY <2>1, <2>2, <1>7, <1>11
  <2>3. CASE k = Len(all) + 1
    <3>1. B[j] = all[j] /\ all[j] <= n /\ all[j] \in Nat /\ B[k] = n + 1
      BY <2>1, <2>3, <1>7, <1>11, <1>b
    <3> QED BY <3>1
  <2> QED BY <2>1, <2>2, <2>3
<1>14. \A k \in 1..Len(B) : B[k] <= n + 1
  <2> TAKE k \in 1..Len(B)
  <2>1. k \in 1..Len(all) \/ k = Len(all) + 1
    BY <1>11, <1>b
  <2>2. CASE k \in 1..Len(all)
    <3>1. B[k] = all[k] /\ all[k] <= n /\ all[k] \in Nat
      BY <2>2, <1>7, <1>11, <1>b
    <3> QED BY <3>1
  <2>3. CASE k = Len(all) + 1
    BY <2>3, <1>11
  <2> QED BY <2>1, <2>2, <2>3
<1>15. CASE ~drops
  <2>1. Len(now) + m.dropped = Len(m.sent)
    <3> DEFINE z == Len(all)
               d == l.dropped
               s == Len(l.sent)
    <3>1. Len(now) = z + 1 /\ m.dropped = d /\ Len(m.sent) = s + 1
      BY <1>15, <1>12, <1>11, <1>3, <1>s
    <3>2. z \in Nat /\ d \in Nat /\ s \in Nat /\ z + d = s
      BY <1>2, <1>7, <1>b, <1>s
    <3> HIDE DEF z, d, s
    <3>3. (z + 1) + d = s + 1
      BY <3>2
    <3> QED BY <3>1, <3>3
  <2>2. m.dropped = 0 => now = m.sent
    BY <1>15, <1>12, <1>7, <1>3 DEF B
  <2>3. (\A j, k \in 1..Len(now) : j < k => now[j] < now[k]) /\ \A k \in 1..Len(now) : now[k] <= n + 1
    BY <1>15, <1>12, <1>13, <1>14
  <2>4. now = m.reported \o Held(f)
    BY <1>3 DEF now, g
  <2>5. Accounted(f, m, n + 1)
    BY <2>1, <2>2, <2>3, <2>4 DEF Accounted
  <2> QED BY <2>5 DEF f, m
<1>16. CASE drops
  <2> DEFINE to(k) == IF k <= Len(r) + 1 THEN k ELSE k + 1
  <2>0. Len(now) = Len(all) /\ Len(all) = Len(r) + Len(h) /\ Len(h) \in Nat /\ Len(h) >= 1
        /\ Len(r) \in Nat /\ Len(g) = Len(h)
    BY <1>16, <1>5, <1>6, <1>8, <1>9
  <2>1. ASSUME NEW k \in 1..Len(now)
        PROVE  to(k) \in 1..Len(B) /\ now[k] = B[to(k)]
    <3>0. to(k) \in 1..Len(B)
      BY <2>0, <1>11
    <3>1. CASE k \in 1..Len(r)
      <4>1. k \in 1..Len(all) /\ to(k) = k
        BY <3>1, <2>0
      <4> QED BY <3>0, <3>1, <4>1, <1>8, <1>9, <1>11
    <3>2. CASE k = Len(r) + 1
      <4>1. k \in 1..Len(all) /\ to(k) = k /\ 1 \in 1..Len(h) /\ 1 \in 1..Len(g)
        BY <3>2, <2>0
      <4>2. now[k] = g[1] /\ all[k] = h[1]
        BY <3>2, <4>1, <1>8, <1>9
      <4> QED BY <3>0, <4>1, <4>2, <1>6, <1>11, <1>16
    <3>3. CASE k - Len(r) \in 2..Len(h)
      <4> DEFINE i == k - Len(r)
      <4>1. i \in 2..Len(h) /\ i \in 1..Len(g) /\ Len(r) + i = k /\ to(k) = k + 1
        BY <3>3, <2>0
      <4>2. now[k] = g[i] /\ g[i] = A[i + 1]
        BY <4>1, <1>6, <1>9, <1>16
      <4>3. A[i + 1] = B[k + 1]
        <5>1. CASE i = Len(h)
          BY <5>1, <4>1, <2>0, <1>10, <1>11
        <5>2. CASE i # Len(h)
          <6>1. i + 1 \in 1..Len(h) /\ Len(r) + (i + 1) = k + 1 /\ k + 1 \in 1..Len(all)
            BY <5>2, <4>1, <2>0
          <6>2. all[k + 1] = h[i + 1]
            BY <6>1, <1>8
          <6> QED BY <6>1, <6>2, <1>10, <1>11
        <5> QED BY <5>1, <5>2
      <4> QED BY <3>0, <4>1, <4>2, <4>3
    <3> QED BY <3>1, <3>2, <3>3, <2>0
  <2>2. \A j, k \in 1..Len(now) : j < k => to(j) < to(k)
    BY <2>0
  <2> HIDE DEF to
  <2>3. (\A j, k \in 1..Len(now) : j < k => now[j] < now[k]) /\ \A k \in 1..Len(now) : now[k] <= n + 1
    BY <2>1, <2>2, <1>13, <1>14
  <2>4. Len(now) + m.dropped = Len(m.sent) /\ m.dropped # 0
    <3> DEFINE z == Len(all)
               d == l.dropped
               s == Len(l.sent)
    <3>1. Len(now) = z /\ m.dropped = d + 1 /\ Len(m.sent) = s + 1
      BY <1>16, <2>0, <1>3, <1>s
    <3>2. z \in Nat /\ d \in Nat /\ s \in Nat /\ z + d = s
      BY <1>2, <1>7, <1>b, <1>s
    <3> HIDE DEF z, d, s
    <3>3. z + (d + 1) = s + 1 /\ d + 1 # 0
      BY <3>2
    <3> QED BY <3>1, <3>3
  <2>5. now = m.reported \o Held(f)
    BY <1>3 DEF now, g
  <2>6. Accounted(f, m, n + 1)
    BY <2>3, <2>4, <2>5 DEF Accounted
  <2> QED BY <2>6 DEF f, m
<1> QED BY <1>15, <1>16

-----------------------------------------------------------------------------
(* What every operation keeps.                                             *)

Wait == [at : {"away", "scan", "asleep"}, size : Nat \ {0}, limit : {"none", "finite", "poll"},
         watches : BOOLEAN]

QueueTypes ==
    /\ closed \in BOOLEAN /\ triggers \in Nat
    /\ Good(events)
    /\ waits \in [Threads -> Wait]
    /\ log \in [Ids -> Log]

Accounts ==
    \A k \in 1..Len(events) :
        Kind[events[k].id] = "ampr" => Accounted(events[k], log[events[k].id], triggers)

QueueIInv == QueueTypes /\ Accounts

\* An event that holds the same has the same account, and one may be asked of a later
\* number.
LEMMA AccountedSame ==
    ASSUME NEW e \in Event, Whole(e), NEW x, Held(x) = Held(e), NEW l \in Log, NEW n \in Nat,
           NEW m \in Nat, n <= m, Accounted(e, l, n)
    PROVE  Accounted(x, l, m)
<1> DEFINE all == l.reported \o Held(e)
<1>1. all \in Seq(Nat)
  <2>1. l.reported \in Seq(Nat) /\ Held(e) \in Seq(Nat)
    BY HeldNumbers DEF Log
  <2> QED BY <2>1, ConcatProperties
<1>2. l.reported \o Held(x) = all
  OBVIOUS
<1>3. /\ Len(all) + l.dropped = Len(l.sent)
      /\ \A j, k \in 1..Len(all) : j < k => all[j] < all[k]
      /\ \A k \in 1..Len(all) : all[k] <= n
      /\ l.dropped = 0 => all = l.sent
  BY DEF Accounted
<1> HIDE DEF all
<1>4. \A k \in 1..Len(all) : all[k] <= m
  <2> TAKE k \in 1..Len(all)
  <2>1. all[k] \in Nat /\ all[k] <= n
    BY <1>1, <1>3, ElementOfSeq
  <2> QED BY <2>1
<1>5. Accounted(x, l, m)
  BY <1>2, <1>3, <1>4 DEF Accounted
<1> QED BY <1>5

\* A new event has nothing to account for.
LEMMA NothingSent ==
    ASSUME NEW e, Held(e) = << >>, NEW n \in Nat
    PROVE  Accounted(e, EmptyLog, n) /\ EmptyLog \in Log
<1>1. /\ EmptyLog.sent = << >> /\ EmptyLog.reported = << >> /\ EmptyLog.dropped = 0
      /\ << >> \in Seq(Nat) /\ EmptyLog = [sent |-> << >>, reported |-> << >>, dropped |-> 0]
  BY DEF EmptyLog
<1>2. EmptyLog \in Log
  BY <1>1 DEF Log
<1> DEFINE all == EmptyLog.reported \o Held(e)
<1>3. all = << >>
  <2>1. << >> \o << >> = << >>
    OBVIOUS
  <2> QED BY <1>1, <2>1
<1>4. Len(<< >>) = 0
  OBVIOUS
<1> HIDE DEF all
<1>5. /\ Len(all) + EmptyLog.dropped = Len(EmptyLog.sent)
      /\ \A j, k \in 1..Len(all) : j < k => all[j] < all[k]
      /\ \A k \in 1..Len(all) : all[k] <= n
      /\ EmptyLog.dropped = 0 => all = EmptyLog.sent
  BY <1>1, <1>3, <1>4
<1>6. Accounted(e, EmptyLog, n)
  BY <1>5 DEF Accounted, all
<1> QED BY <1>2, <1>6

\* Whoever is woken, waits are waits.
LEMMA Notified ==
    ASSUME waits \in [Threads -> Wait], NotifyOne \/ NotifyAll
    PROVE  waits' \in [Threads -> Wait]
<1>1. ASSUME NEW t \in Threads
      PROVE  waits[t] \in Wait /\ [waits[t] EXCEPT !.at = "scan"] \in Wait
  <2>1. waits[t] \in Wait
    OBVIOUS
  <2> QED BY <2>1 DEF Wait
<1>2. CASE NotifyOne
  <2>1. CASE waits' = waits
    BY <2>1
  <2>2. ASSUME NEW t \in Sleepers, waits' = [waits EXCEPT ![t].at = "scan"]
        PROVE  waits' \in [Threads -> Wait]
    <3>1. t \in Threads /\ waits' = [waits EXCEPT ![t] = [waits[t] EXCEPT !.at = "scan"]]
      BY <2>2 DEF Sleepers
    <3> QED BY <3>1, <1>1
  <2> QED BY <1>2, <2>1, <2>2 DEF NotifyOne
<1>3. CASE NotifyAll
  BY <1>3, <1>1 DEF NotifyAll
<1> QED BY <1>2, <1>3

\* In the beginning there is nothing.
LEMMA QueueBegins == Init => QueueIInv
<1> SUFFICES ASSUME Init
             PROVE  QueueIInv
  OBVIOUS
<1>1. events = << >> /\ closed = FALSE /\ triggers = 0 /\ waits = [t \in Threads |-> Away]
      /\ log = [i \in Ids |-> EmptyLog]
  BY DEF Init
<1>2. Good(<< >>) /\ Len(<< >>) = 0
  BY DEF Good, OneOfEach
<1>3. Away \in Wait
  BY DEF Away, Wait
<1>4. EmptyLog \in Log
  BY DEF EmptyLog, Log
<1>5. QueueTypes
  BY <1>1, <1>2, <1>3, <1>4 DEF QueueTypes
<1>6. Accounts
  BY <1>1, <1>2 DEF Accounts
<1> QED BY <1>5, <1>6 DEF QueueIInv

\* AddEvent.
LEMMA AddKeeps ==
    ASSUME QueueIInv, NEW i \in Ids, Add(i)
    PROVE  /\ Good(events') /\ log' \in [Ids -> Log] /\ Accounts'
<1>1. /\ Good(events) /\ log \in [Ids -> Log] /\ triggers \in Nat /\ triggers' = triggers /\ Accounts
  BY DEF QueueIInv, QueueTypes, Add
<1>2. CASE Registered(i)
  <2> DEFINE list == IF Kind[i] = "timer" THEN TriggerExpiredTimers(events) ELSE events
             k == IndexOf(i)
             e == [list[k] EXCEPT !.clock = Clock(i)]
  <2>1. events' = [list EXCEPT ![k] = e] /\ log' = log
    BY <1>2 DEF Add
  <2>2. k \in 1..Len(events) /\ events[k].id = i
    BY <1>1, <1>2, FoundAt
  <2>3. /\ Good(list) /\ Len(list) = Len(events)
        /\ \A j \in 1..Len(events) : /\ list[j].id = events[j].id
                                     /\ ~IsTimer(events[j].id) => list[j] = events[j]
    BY <1>1, GoodExpired
  <2> HIDE DEF list, k
  <2>4. list[k] \in Event /\ Whole(list[k]) /\ list[k].id = i
    BY <2>2, <2>3 DEF Good
  <2>5. /\ e \in Event /\ e.id = i /\ e.triggered = list[k].triggered /\ e.data = list[k].data
        /\ e.pending = list[k].pending /\ e.clock = Clock(i)
    BY <2>4 DEF Event, Clock
  <2> HIDE DEF e
  <2>6. Whole(e) /\ Held(e) = Held(list[k])
    BY <2>4, <2>5 DEF Whole, Held, Clock
  <2>7. /\ Good(events') /\ Len(events') = Len(events)
        /\ \A j \in 1..Len(list) : events'[j] = IF j = k THEN e ELSE list[j]
    <3>1. k \in 1..Len(list) /\ e \in Event /\ e.id = list[k].id /\ Whole(e) /\ Good(list)
      BY <2>2, <2>3, <2>4, <2>5, <2>6
    <3>2. /\ Good([list EXCEPT ![k] = e]) /\ Len([list EXCEPT ![k] = e]) = Len(list)
          /\ \A j \in 1..Len(list) : [list EXCEPT ![k] = e][j] = IF j = k THEN e ELSE list[j]
      BY <3>1, GoodChanged
    <3> QED BY <2>1, <2>3, <3>2
  <2>8. ASSUME NEW j \in 1..Len(events'), Kind[events'[j].id] = "ampr"
        PROVE  Accounted(events'[j], log'[events'[j].id], triggers')
    <3>1. j \in 1..Len(events) /\ events'[j].id = events[j].id /\ events[j] \in Event /\ Whole(events[j])
      BY <1>1, <2>2, <2>3, <2>5, <2>7 DEF Good
    <3>2. ~IsTimer(events[j].id)
      BY <2>8, <3>1 DEF IsTimer
    <3>3. Held(events'[j]) = Held(events[j])
      BY <2>3, <2>6, <2>7, <3>1, <3>2
    <3>4. Accounted(events[j], log[events[j].id], triggers) /\ log[events[j].id] \in Log
      BY <1>1, <2>8, <3>1 DEF Accounts, Event
    <3>5. triggers <= triggers
      BY <1>1
    <3>6. Accounted(events'[j], log[events[j].id], triggers)
      BY <1>1, <3>1, <3>3, <3>4, <3>5, AccountedSame
    <3> QED BY <1>1, <2>1, <3>1, <3>6
  <2>9. Accounts'
    BY <2>8 DEF Accounts
  <2> QED BY <1>1, <2>1, <2>7, <2>9
<1>3. CASE ~Registered(i)
  <2> DEFINE e == [id |-> i, triggered |-> FALSE, data |-> 0, pending |-> << >>, clock |-> Clock(i)]
  <2>1. events' = Append(events, e) /\ log' = [log EXCEPT ![i] = EmptyLog]
    BY <1>3 DEF Add
  <2>2. e \in Event /\ e.id = i /\ Held(e) = << >> /\ Whole(e)
    <3>1. << >> \in Seq(Nat) /\ 0 \in Nat /\ Len(<< >>) = 0
      OBVIOUS
    <3>2. Clock(i) \in {"none", "armed"} /\ (~IsTimer(i) => Clock(i) = "none")
      BY DEF Clock
    <3> QED BY <3>1, <3>2, RoomAssumption DEF Event, Held, Whole
  <2> HIDE DEF e
  <2>3. \A j \in 1..Len(events) : events[j].id # e.id
    BY <1>3, <2>2 DEF Registered
  <2>4. /\ Good(events') /\ Len(events') = Len(events) + 1
        /\ events'[Len(events) + 1] = e /\ Len(events) \in Nat
        /\ \A j \in 1..Len(events) : events'[j] = events[j]
    BY <1>1, <2>1, <2>2, <2>3, GoodAdded
  <2>5. log' \in [Ids -> Log] /\ log'[i] = EmptyLog /\ \A j \in Ids : j # i => log'[j] = log[j]
    <3>1. EmptyLog \in Log
      BY <1>1, <2>2, NothingSent
    <3> QED BY <1>1, <2>1, <3>1
  <2>6. ASSUME NEW j \in 1..Len(events'), Kind[events'[j].id] = "ampr"
        PROVE  Accounted(events'[j], log'[events'[j].id], triggers')
    <3>1. j \in 1..Len(events) \/ j = Len(events) + 1
      BY <2>4
    <3>2. CASE j \in 1..Len(events)
      <4>1. events[j] \in Event
        BY <1>1, <3>2 DEF Good
      <4>2. events'[j] = events[j] /\ events[j].id \in Ids /\ events[j].id # i
        BY <2>2, <2>3, <2>4, <3>2, <4>1 DEF Event
      <4> QED BY <1>1, <2>5, <2>6, <3>2, <4>2 DEF Accounts
    <3>3. CASE j = Len(events) + 1
      BY <1>1, <2>2, <2>4, <2>5, <3>3, NothingSent
    <3> QED BY <3>1, <3>2, <3>3
  <2>7. Accounts'
    BY <2>6 DEF Accounts
  <2> QED BY <2>4, <2>5, <2>7
<1> QED BY <1>2, <1>3

\* TriggerEvent.
LEMMA TriggerKeeps ==
    ASSUME QueueIInv, NEW i \in Ids, Trigger(i)
    PROVE  /\ Good(events') /\ log' \in [Ids -> Log] /\ Accounts'
           /\ IndexOf(i) \in 1..Len(events) /\ events[IndexOf(i)].id = i /\ Len(events') = Len(events)
           /\ \A j \in 1..Len(events) :
                 events'[j] = IF j = IndexOf(i) THEN Triggered(events[j], triggers + 1) ELSE events[j]
<1> DEFINE k == IndexOf(i)
           e == events[k]
           drops == e.triggered /\ Len(e.pending) = MaxPending
           n == triggers
           f == Triggered(e, n + 1)
<1>1. /\ Good(events) /\ log \in [Ids -> Log] /\ n \in Nat /\ triggers' = n + 1 /\ Accounts
      /\ Registered(i) /\ ~IsTimer(i)
  BY DEF QueueIInv, QueueTypes, Trigger
<1>2. /\ events' = [events EXCEPT ![k] = f]
      /\ log' = IF Kind[i] # "ampr" THEN log ELSE
                  [log EXCEPT ![i].sent = Append(@, n + 1),
                              ![i].dropped = IF drops THEN @ + 1 ELSE @]
  BY DEF Trigger
<1>3. k \in 1..Len(events) /\ e.id = i /\ \A j \in 1..Len(events) : events[j].id = i => j = k
  BY <1>1, FoundAt
<1> HIDE DEF k
<1>4. e \in Event /\ Whole(e) /\ ~IsTimer(e.id) /\ n + 1 \in Nat
  BY <1>1, <1>3 DEF Good
<1>5. f \in Event /\ f.id = e.id /\ Whole(f)
  BY <1>4, TriggeredFacts
<1>6. /\ Good(events') /\ Len(events') = Len(events)
      /\ \A j \in 1..Len(events) : events'[j] = IF j = k THEN f ELSE events[j]
  <2> HIDE DEF f
  <2>1. /\ Good([events EXCEPT ![k] = f]) /\ Len([events EXCEPT ![k] = f]) = Len(events)
        /\ \A j \in 1..Len(events) : [events EXCEPT ![k] = f][j] = IF j = k THEN f ELSE events[j]
    BY <1>1, <1>3, <1>5, GoodChanged
  <2> QED BY <1>2, <2>1
<1> DEFINE l == log[i]
           m == [l EXCEPT !.sent = Append(l.sent, n + 1),
                          !.dropped = IF drops THEN l.dropped + 1 ELSE l.dropped]
<1>7. l \in Log
  BY <1>1
<1>8. Kind[i] = "ampr" => log' = [log EXCEPT ![i] = m]
  BY <1>1, <1>2
<1>9. m \in Log
  <2> HIDE DEF drops, l
  <2>1. l.sent \in Seq(Nat) /\ l.dropped \in Nat
    BY <1>7 DEF Log
  <2>2. Append(l.sent, n + 1) \in Seq(Nat) /\ l.dropped + 1 \in Nat
    BY <1>4, <2>1, AppendProperties
  <2> QED BY <1>7, <2>1, <2>2 DEF Log
<1> HIDE DEF f, m, e, n, l
<1>10. log' \in [Ids -> Log] /\ (Kind[i] = "ampr" => log'[i] = m) /\ \A j \in Ids : j # i => log'[j] = log[j]
  BY <1>1, <1>2, <1>8, <1>9
<1>11. ASSUME NEW j \in 1..Len(events'), Kind[events'[j].id] = "ampr"
       PROVE  Accounted(events'[j], log'[events'[j].id], triggers')
  <2>1. j \in 1..Len(events)
    BY <1>6
  <2>2. CASE j = k
    <3>1. events'[j] = f /\ f.id = i /\ Kind[i] = "ampr" /\ events[j] = e
      BY <1>3, <1>5, <1>6, <1>11, <2>1, <2>2 DEF e
    <3>2. Accounted(e, l, n)
      BY <1>1, <1>3, <2>1, <3>1 DEF Accounts, l, n
    <3>3. Accounted(f, m, n + 1)
      <4>1. drops \in BOOLEAN
        BY <1>4 DEF Event
      <4>2. Kind[e.id] = "ampr"
        BY <1>3, <3>1
      <4> HIDE DEF drops
      <4>3. drops = (e.triggered /\ Len(e.pending) = MaxPending)
        BY DEF drops
      <4>4. Accounted(Triggered(e, n + 1),
                      [l EXCEPT !.sent = Append(l.sent, n + 1),
                                !.dropped = IF drops THEN l.dropped + 1 ELSE l.dropped], n + 1)
        BY <1>1, <1>4, <1>7, <3>2, <4>1, <4>2, <4>3, AccountedTriggered
      <4> QED BY <4>4 DEF f, m
    <3> QED BY <1>1, <1>10, <3>1, <3>3
  <2>3. CASE j # k
    <3>1. events'[j] = events[j] /\ events[j] \in Event /\ Whole(events[j])
      BY <1>1, <1>6, <2>1, <2>3 DEF Good
    <3>2. events[j].id \in Ids /\ events[j].id # i
      BY <1>3, <2>1, <2>3, <3>1 DEF Event
    <3>3. Accounted(events[j], log[events[j].id], n) /\ log[events[j].id] \in Log
      BY <1>1, <1>11, <2>1, <3>1, <3>2 DEF Accounts, n
    <3>4. n <= n + 1
      BY <1>1
    <3>5. Accounted(events[j], log[events[j].id], n + 1)
      BY <1>1, <1>4, <3>1, <3>3, <3>4, AccountedSame
    <3> QED BY <1>1, <1>10, <3>1, <3>2, <3>5
  <2> QED BY <2>2, <2>3
<1>12. Accounts'
  BY <1>11 DEF Accounts
<1> QED BY <1>3, <1>6, <1>10, <1>12 DEF e, f, n, k

\* DeleteEvent.
LEMMA DeleteKeeps ==
    ASSUME QueueIInv, NEW i \in Ids, Delete(i)
    PROVE  /\ Good(events') /\ log' \in [Ids -> Log] /\ Accounts'
           /\ \A m \in 1..Len(events') : \E j \in 1..Len(events) : events'[m] = events[j]
<1> DEFINE k == IndexOf(i)
<1>1. /\ Good(events) /\ log \in [Ids -> Log] /\ triggers \in Nat /\ triggers' = triggers /\ Accounts
      /\ Registered(i) /\ events' = RemoveAt(events, k) /\ log' = [log EXCEPT ![i] = EmptyLog]
  BY DEF QueueIInv, QueueTypes, Delete
<1>2. k \in 1..Len(events) /\ events[k].id = i /\ \A j \in 1..Len(events) : events[j].id = i => j = k
  BY <1>1, FoundAt
<1> HIDE DEF k
<1>3. /\ Good(events')
      /\ \A m \in 1..Len(events') : \E j \in 1..Len(events) : j # k /\ events'[m] = events[j]
  BY <1>1, <1>2, GoodTaken
<1>4. EmptyLog \in Log
  BY DEF EmptyLog, Log
<1>5. log' \in [Ids -> Log] /\ \A j \in Ids : j # i => log'[j] = log[j]
  BY <1>1, <1>4
<1>6. ASSUME NEW m \in 1..Len(events'), Kind[events'[m].id] = "ampr"
      PROVE  Accounted(events'[m], log'[events'[m].id], triggers')
  <2>1. PICK j \in 1..Len(events) : j # k /\ events'[m] = events[j]
    BY <1>3
  <2>2. events[j] \in Event
    BY <1>1 DEF Good
  <2>3. events[j].id \in Ids /\ events[j].id # i
    BY <1>2, <2>1, <2>2 DEF Event
  <2> QED BY <1>1, <1>5, <1>6, <2>1, <2>3 DEF Accounts
<1>7. Accounts'
  BY <1>6 DEF Accounts
<1> QED BY <1>3, <1>5, <1>7

\* A timer's time comes: only its clock changes.
LEMMA ElapseKeeps ==
    ASSUME QueueIInv, NEW k \in 1..Len(events), Elapse(k)
    PROVE  /\ Good(events') /\ log' \in [Ids -> Log] /\ Accounts'
           /\ IsTimer(events[k].id)
<1> DEFINE e == [events[k] EXCEPT !.clock = "due"]
<1>1. /\ Good(events) /\ log \in [Ids -> Log] /\ triggers \in Nat /\ triggers' = triggers /\ log' = log
      /\ Accounts /\ events' = [events EXCEPT ![k] = e] /\ events[k].clock = "armed"
  BY DEF QueueIInv, QueueTypes, Elapse
<1>2. events[k] \in Event /\ Whole(events[k])
  BY <1>1 DEF Good
<1>3. /\ e \in Event /\ e.id = events[k].id /\ e.triggered = events[k].triggered
      /\ e.pending = events[k].pending
  BY <1>2 DEF Event
<1>4. IsTimer(events[k].id)
  BY <1>1, <1>2 DEF Whole
<1> HIDE DEF e
<1>5. Whole(e)
  BY <1>2, <1>3, <1>4 DEF Whole
<1>6. /\ Good([events EXCEPT ![k] = e]) /\ Len([events EXCEPT ![k] = e]) = Len(events)
      /\ \A j \in 1..Len(events) : [events EXCEPT ![k] = e][j] = IF j = k THEN e ELSE events[j]
  <2>1. Good(events) /\ k \in 1..Len(events) /\ e \in Event /\ e.id = events[k].id /\ Whole(e)
    BY <1>1, <1>3, <1>5
  <2> QED BY <2>1, GoodChanged
<1>7. ASSUME NEW j \in 1..Len(events'), Kind[events'[j].id] = "ampr"
      PROVE  Accounted(events'[j], log'[events'[j].id], triggers')
  <2>1. j \in 1..Len(events) /\ events'[j] = IF j = k THEN e ELSE events[j]
    BY <1>1, <1>6
  <2>2. j # k
    BY <1>3, <1>4, <1>7, <2>1 DEF IsTimer
  <2> QED BY <1>1, <1>7, <2>1, <2>2 DEF Accounts
<1>8. Accounts'
  BY <1>7 DEF Accounts
<1> QED BY <1>1, <1>4, <1>6, <1>8

\* A turn of sceKernelWaitEqueue.
LEMMA ScanKeeps ==
    ASSUME QueueIInv, NEW t \in Threads, Scan(t)
    PROVE  /\ Good(events') /\ log' \in [Ids -> Log] /\ Accounts' /\ waits' \in [Threads -> Wait]
<1>1. /\ Good(events) /\ log \in [Ids -> Log] /\ triggers \in Nat /\ triggers' = triggers /\ Accounts
      /\ waits \in [Threads -> Wait] /\ closed \in BOOLEAN
  BY DEF QueueIInv, QueueTypes, Scan
<1>2. /\ Away \in Wait /\ waits[t] \in Wait /\ waits[t].size \in Nat \ {0}
      /\ \A b \in BOOLEAN : [waits[t] EXCEPT !.at = "asleep", !.watches = b] \in Wait
  <2>1. waits[t] \in Wait /\ Away \in Wait
    BY <1>1 DEF Away, Wait
  <2> QED BY <2>1 DEF Wait
<1>3. CASE closed
  <2>1. waits' = [waits EXCEPT ![t] = Away] /\ events' = events /\ log' = log
    BY <1>3 DEF Scan
  <2>2. Accounts'
    BY <1>1, <2>1 DEF Accounts
  <2>3. waits' \in [Threads -> Wait]
    BY <1>1, <1>2, <2>1
  <2> QED BY <1>1, <2>1, <2>2, <2>3
<1>4. CASE ~closed
  <2> DEFINE list == TriggerExpiredTimers(events)
             walk == Walk(list, waits[t].size)
  <2>1. /\ events' = walk.list
        /\ log' = [i \in Ids |-> IF Kind[i] # "ampr" THEN log[i] ELSE
                     [log[i] EXCEPT !.reported = log[i].reported \o Reported(i, walk.out)]]
        /\ \/ waits' = [waits EXCEPT ![t] = Away]
           \/ waits' = [waits EXCEPT ![t] = [waits[t] EXCEPT !.at = "asleep", !.watches = HasTimer(list)]]
    BY <1>4 DEF Scan
  <2>2. /\ Good(list) /\ Len(list) = Len(events)
        /\ \A j \in 1..Len(events) : /\ list[j].id = events[j].id
                                     /\ ~IsTimer(events[j].id) => list[j] = events[j]
    BY <1>1, GoodExpired
  <2>3. HasTimer(list) \in BOOLEAN
    BY DEF HasTimer
  <2> HIDE DEF list
  <2>4. /\ walk.out \in Seq(Entry) /\ Good(walk.list)
        /\ \A m \in 1..Len(walk.list) : \E j \in 1..Len(list) : From(list[j], walk.list[m], walk.out)
    BY <1>2, <2>2, WalkFacts
  <2> HIDE DEF walk
  <2>5. waits' \in [Threads -> Wait]
    <3>1. CASE waits' = [waits EXCEPT ![t] = Away]
      BY <3>1, <1>1, <1>2
    <3>2. CASE waits' = [waits EXCEPT ![t] = [waits[t] EXCEPT !.at = "asleep", !.watches = HasTimer(list)]]
      BY <3>2, <1>1, <1>2, <2>3
    <3> QED BY <2>1, <3>1, <3>2
  <2>6. ASSUME NEW i \in Ids
        PROVE  log'[i] \in Log /\ (Kind[i] = "ampr" =>
                  log'[i] = [log[i] EXCEPT !.reported = log[i].reported \o Reported(i, walk.out)])
    <3> DEFINE l == log[i]
               told == Reported(i, walk.out)
    <3>1. l \in Log /\ told \in Seq(Nat)
      BY <1>1, <2>4, ToldNumbers
    <3>2. log'[i] = IF Kind[i] # "ampr" THEN l ELSE [l EXCEPT !.reported = l.reported \o told]
      BY <2>1
    <3> HIDE DEF l, told
    <3>3. l.reported \in Seq(Nat)
      BY <3>1 DEF Log
    <3>4. l.reported \o told \in Seq(Nat)
      <4> DEFINE r == l.reported
      <4>1. r \in Seq(Nat) /\ told \in Seq(Nat)
        BY <3>1, <3>3
      <4> HIDE DEF r
      <4>2. r \o told \in Seq(Nat)
        BY <4>1, ConcatProperties
      <4> QED BY <4>2 DEF r
    <3>5. [l EXCEPT !.reported = l.reported \o told] \in Log
      BY <3>1, <3>4 DEF Log
    <3>6. log'[i] \in Log /\ (Kind[i] = "ampr" => log'[i] = [l EXCEPT !.reported = l.reported \o told])
      BY <3>1, <3>2, <3>5
    <3> QED BY <3>6 DEF l, told
  <2>7. log' \in [Ids -> Log]
    <3>1. log' = [i \in Ids |-> log'[i]]
      BY <2>1
    <3> QED BY <2>6, <3>1
  <2>8. ASSUME NEW m \in 1..Len(events'), Kind[events'[m].id] = "ampr"
        PROVE  Accounted(events'[m], log'[events'[m].id], triggers')
    <3> DEFINE x == events'[m]
               i == x.id
               told == Reported(i, walk.out)
    <3>1. PICK j \in 1..Len(list) : From(list[j], x, walk.out)
      BY <2>1, <2>4
    <3>2. x \in Event /\ Whole(x)
      BY <2>1, <2>4 DEF Good
    <3> DEFINE e == events[j]
    <3> HIDE DEF x
    <3>3. e \in Event /\ Whole(e) /\ list[j].id = e.id /\ j \in 1..Len(events)
      BY <1>1, <2>2 DEF Good
    <3>4. i = e.id /\ list[j] = e /\ i \in Ids
      <4>1. i = e.id
        BY <3>1, <3>3 DEF From
      <4>2. ~IsTimer(e.id)
        BY <2>8, <4>1 DEF IsTimer, x
      <4> QED BY <2>2, <3>3, <4>1, <4>2 DEF Event
    <3> HIDE DEF e
    <3>5. Held(e) = told \o Held(x)
      BY <2>8, <3>1, <3>4 DEF From, x
    <3>6. Accounted(e, log[i], triggers)
      BY <1>1, <2>8, <3>3, <3>4 DEF Accounts, e, x
    <3>7. told \in Seq(Nat) /\ log[i] \in Log
      BY <1>1, <2>4, <3>4, ToldNumbers
    <3> HIDE DEF told
    <3>8. Accounted(x, [log[i] EXCEPT !.reported = log[i].reported \o told], triggers)
      <4> DEFINE l == log[i]
      <4>1. l \in Log /\ Accounted(e, l, triggers)
        BY <3>6, <3>7
      <4> HIDE DEF l
      <4>2. Accounted(x, [l EXCEPT !.reported = l.reported \o told], triggers)
        BY <1>1, <3>2, <3>3, <3>5, <3>7, <4>1, AccountedReported
      <4> QED BY <4>2 DEF l
    <3>9. log'[i] = [log[i] EXCEPT !.reported = log[i].reported \o told]
      BY <2>6, <2>8, <3>4 DEF told, x
    <3> QED BY <1>1, <3>8, <3>9 DEF x
  <2>9. Accounts'
    BY <2>8 DEF Accounts
  <2> QED BY <2>1, <2>4, <2>5, <2>7, <2>9
<1> QED BY <1>1, <1>3, <1>4

\* Every step of a queue keeps its types and its accounts.
LEMMA QueueStep ==
    ASSUME QueueIInv, [Next]_vars
    PROVE  QueueIInv'
<1>1. /\ closed \in BOOLEAN /\ triggers \in Nat /\ Good(events) /\ waits \in [Threads -> Wait]
      /\ log \in [Ids -> Log] /\ Accounts
  BY DEF QueueIInv, QueueTypes
<1>2. ASSUME UNCHANGED <<events, closed, triggers, log>>, waits' \in [Threads -> Wait]
      PROVE  QueueIInv'
  <2>1. Accounts'
    BY <1>1, <1>2 DEF Accounts
  <2> QED BY <1>1, <1>2, <2>1 DEF QueueIInv, QueueTypes
<1>3. ASSUME Good(events'), log' \in [Ids -> Log], Accounts', waits' \in [Threads -> Wait],
             closed' \in BOOLEAN, triggers' \in Nat
      PROVE  QueueIInv'
  BY <1>3 DEF QueueIInv, QueueTypes
<1>Stutter. CASE UNCHANGED vars
  BY <1>1, <1>2, <1>Stutter DEF vars
<1>Add. ASSUME NEW i \in Ids, Add(i)
        PROVE  QueueIInv'
  <2>1. NotifyOne /\ closed' = closed /\ triggers' = triggers
    BY <1>Add DEF Add
  <2> QED BY <1>1, <1>3, <1>Add, <2>1, AddKeeps, Notified
<1>Trigger. ASSUME NEW i \in Ids, Trigger(i)
            PROVE  QueueIInv'
  <2>1. NotifyOne /\ closed' = closed /\ triggers' = triggers + 1
    BY <1>Trigger DEF Trigger
  <2>2. triggers' \in Nat
    BY <1>1, <2>1
  <2> QED BY <1>1, <1>3, <1>Trigger, <2>1, <2>2, TriggerKeeps, Notified
<1>Delete. ASSUME NEW i \in Ids, Delete(i)
           PROVE  QueueIInv'
  <2>1. waits' = waits /\ closed' = closed /\ triggers' = triggers
    BY <1>Delete DEF Delete
  <2> QED BY <1>1, <1>3, <1>Delete, <2>1, DeleteKeeps
<1>Forget. CASE Forget
  BY <1>1, <1>2, <1>Forget DEF Forget
<1>Close. CASE Close
  <2>1. /\ events' = << >> /\ log' = [i \in Ids |-> EmptyLog] /\ NotifyAll /\ closed' = TRUE
        /\ triggers' = triggers
    BY <1>Close DEF Close
  <2>2. Good(<< >>) /\ Len(<< >>) = 0
    BY DEF Good, OneOfEach
  <2>3. EmptyLog \in Log
    BY DEF EmptyLog, Log
  <2>4. log' \in [Ids -> Log] /\ Good(events')
    BY <2>1, <2>2, <2>3
  <2>5. Accounts'
    BY <2>1, <2>2 DEF Accounts
  <2> QED BY <1>1, <1>3, <2>1, <2>4, <2>5, Notified
<1>Elapse. ASSUME NEW k \in 1..Len(events), Elapse(k)
           PROVE  QueueIInv'
  <2>1. waits' = waits /\ closed' = closed /\ triggers' = triggers
    BY <1>Elapse DEF Elapse
  <2> QED BY <1>1, <1>3, <1>Elapse, <2>1, ElapseKeeps
<1>Call. ASSUME NEW t \in Threads, Call(t)
         PROVE  QueueIInv'
  <2>1. /\ UNCHANGED <<events, closed, triggers, log>>
        /\ \E n \in Sizes, l \in {"none", "finite", "poll"} :
              waits' = [waits EXCEPT ![t] = [at |-> "scan", size |-> n, limit |-> l, watches |-> FALSE]]
    BY <1>Call DEF Call
  <2>2. PICK n \in Sizes, l \in {"none", "finite", "poll"} :
           waits' = [waits EXCEPT ![t] = [at |-> "scan", size |-> n, limit |-> l, watches |-> FALSE]]
    BY <2>1
  <2>3. [at |-> "scan", size |-> n, limit |-> l, watches |-> FALSE] \in Wait
    BY RoomAssumption DEF Wait
  <2>4. waits' \in [Threads -> Wait]
    BY <1>1, <2>2, <2>3
  <2> QED BY <1>2, <2>1, <2>4
<1>Scan. ASSUME NEW t \in Threads, Scan(t)
         PROVE  QueueIInv'
  <2>1. closed' = closed /\ triggers' = triggers
    BY <1>Scan DEF Scan
  <2> QED BY <1>1, <1>3, <1>Scan, <2>1, ScanKeeps
<1>WakeByTime. ASSUME NEW t \in Threads, WakeByTime(t)
               PROVE  QueueIInv'
  <2>1. /\ UNCHANGED <<events, closed, triggers, log>>
        /\ waits' = [waits EXCEPT ![t] = [waits[t] EXCEPT !.at = "scan"]]
    BY <1>WakeByTime DEF WakeByTime
  <2>2. [waits[t] EXCEPT !.at = "scan"] \in Wait
    <3>1. waits[t] \in Wait
      BY <1>1
    <3> QED BY <3>1 DEF Wait
  <2>3. waits' \in [Threads -> Wait]
    BY <1>1, <2>1, <2>2
  <2> QED BY <1>2, <2>1, <2>3
<1> QED
  BY <1>Stutter, <1>Add, <1>Trigger, <1>Delete, <1>Forget, <1>Close, <1>Elapse, <1>Call, <1>Scan,
     <1>WakeByTime DEF Next

-----------------------------------------------------------------------------
(* As many threads are awake as there is something to collect.             *)

\* What the queue holds, one by one, and who is about to look.
UnitsIn(list) ==
    {u \in {list[k].id : k \in 1..Len(list)} \X (1..(MaxPending + 1)) :
        \E k \in 1..Len(list) : list[k].id = u[1] /\ u[2] <= Len(Held(list[k]))}
Units == UnitsIn(events)
Awake == {t \in Threads : waits[t].at = "scan"}

EnoughAwake ==
    /\ closed => Sleepers = {}
    /\ Sleepers # {} => Cardinality(Units) <= Cardinality(Awake)

\* The events of a queue and what they hold are finitely many.
LEMMA UnitsAreFinite ==
    ASSUME NEW list, Good(list)
    PROVE  IsFiniteSet(UnitsIn(list))
<1> DEFINE I == 1..Len(list)
           ids == {list[k].id : k \in I}
<1>1. IsFiniteSet(I)
  <2>1. Len(list) \in Nat
    BY LenProperties DEF Good
  <2> QED BY <2>1, FS_Interval
<1>2. IsFiniteSet(ids)
  <2> DEFINE f == [k \in I |-> list[k].id]
  <2>1. f \in Surjection(I, ids)
    BY DEF Surjection
  <2> QED BY <1>1, <2>1, FS_Surjection
<1>3. IsFiniteSet(1..(MaxPending + 1))
  BY FS_Interval, RoomAssumption
<1>4. IsFiniteSet(ids \X (1..(MaxPending + 1)))
  <2> HIDE DEF ids
  <2> QED BY <1>2, <1>3, FS_Product
<1>5. UnitsIn(list) \subseteq ids \X (1..(MaxPending + 1))
  BY DEF UnitsIn
<1> HIDE DEF ids
<1> QED BY <1>4, <1>5, FS_Subset

\* A unit is a number up to how many an event holds.
LEMMA UnitsOf ==
    ASSUME NEW list, Good(list)
    PROVE  /\ \A k \in 1..Len(list) : \A n \in 1..Len(Held(list[k])) : <<list[k].id, n>> \in UnitsIn(list)
           /\ \A u \in UnitsIn(list) :
                 \E k \in 1..Len(list) : \E n \in 1..Len(Held(list[k])) : u = <<list[k].id, n>>
<1>1. \A k \in 1..Len(list) : list[k] \in Event /\ Whole(list[k])
  BY DEF Good
<1>2. \A k \in 1..Len(list) : Len(Held(list[k])) \in 0..(MaxPending + 1)
  BY <1>1, HeldNumbers
<1>3. MaxPending \in Nat
  BY RoomAssumption
<1>4. ASSUME NEW k \in 1..Len(list), NEW n \in 1..Len(Held(list[k]))
      PROVE  <<list[k].id, n>> \in UnitsIn(list)
  <2>1. n \in 1..(MaxPending + 1) /\ n <= Len(Held(list[k]))
    BY <1>2, <1>3
  <2> QED BY <2>1 DEF UnitsIn
<1>5. ASSUME NEW u \in UnitsIn(list)
      PROVE  \E k \in 1..Len(list) : \E n \in 1..Len(Held(list[k])) : u = <<list[k].id, n>>
  <2>1. PICK k \in 1..Len(list) : list[k].id = u[1] /\ u[2] <= Len(Held(list[k]))
    BY DEF UnitsIn
  <2>2. u = <<u[1], u[2]>> /\ u[2] \in 1..(MaxPending + 1)
    BY DEF UnitsIn
  <2>3. u[2] \in 1..Len(Held(list[k]))
    BY <1>2, <1>3, <2>1, <2>2
  <2> QED BY <2>1, <2>2, <2>3
<1> QED BY <1>4, <1>5

\* NotifyOne wakes a thread if any sleeps.
LEMMA OneIsAwake ==
    ASSUME waits \in [Threads -> Wait], IsFiniteSet(Threads), NotifyOne
    PROVE  \/ Sleepers = {} /\ waits' = waits
           \/ /\ Sleepers # {} /\ Sleepers' \subseteq Sleepers
              /\ Cardinality(Awake') = Cardinality(Awake) + 1 /\ Cardinality(Awake) \in Nat
<1>1. CASE Sleepers = {}
  BY <1>1 DEF NotifyOne
<1>2. CASE Sleepers # {}
  <2>1. PICK t \in Sleepers : waits' = [waits EXCEPT ![t].at = "scan"]
    BY <1>2 DEF NotifyOne
  <2>2. /\ t \in Threads /\ waits[t].at = "asleep" /\ waits'[t].at = "scan"
        /\ \A u \in Threads : u # t => waits'[u] = waits[u]
    <3>1. t \in Threads /\ waits[t].at = "asleep"
      BY DEF Sleepers
    <3>2. waits[t] \in Wait
      BY <3>1
    <3> QED BY <2>1, <3>1, <3>2 DEF Wait
  <2>3. Awake' = Awake \cup {t} /\ t \notin Awake /\ Sleepers' \subseteq Sleepers
    BY <2>2 DEF Awake, Sleepers
  <2>4. IsFiniteSet(Awake)
    BY FS_Subset DEF Awake
  <2> QED BY <1>2, <2>3, <2>4, FS_AddElement, FS_CardinalityType
<1> QED BY <1>1, <1>2

\* Fewer units and no more sleepers, and nobody has gone.
LEMMA StillEnough ==
    ASSUME Good(events), Good(events'), IsFiniteSet(Threads), EnoughAwake, closed' = closed,
           Units' \subseteq Units, Sleepers' \subseteq Sleepers, Awake \subseteq Awake'
    PROVE  EnoughAwake'
<1>1. Cardinality(Units') <= Cardinality(Units) /\ Cardinality(Units) \in Nat /\ Cardinality(Units') \in Nat
  <2>1. IsFiniteSet(Units)
    BY UnitsAreFinite DEF Units
  <2>2. IsFiniteSet(Units')
    BY <2>1, FS_Subset
  <2> QED BY <2>1, <2>2, FS_Subset, FS_CardinalityType
<1>2. Cardinality(Awake) <= Cardinality(Awake') /\ Cardinality(Awake) \in Nat /\ Cardinality(Awake') \in Nat
  <2>1. IsFiniteSet(Awake) /\ IsFiniteSet(Awake')
    BY FS_Subset DEF Awake
  <2> QED BY <2>1, FS_Subset, FS_CardinalityType
<1>3. (closed' => Sleepers' = {}) /\ (Sleepers' # {} => Cardinality(Units) <= Cardinality(Awake))
  BY DEF EnoughAwake
<1>4. Sleepers' # {} => Cardinality(Units') <= Cardinality(Awake')
  BY <1>1, <1>2, <1>3
<1> QED BY <1>3, <1>4 DEF EnoughAwake

\* The hypothesis on the events: a level event stays triggered with whatever thread is
\* told of it, and of timers many may come due at once.
Consumed == \A i \in Ids : Kind[i] \in {"edge", "ampr"}

\* Adding and triggering wake one for what they bring.
LEMMA AddAndTriggerWake ==
    ASSUME QueueIInv, IsFiniteSet(Threads), Consumed, EnoughAwake, NEW i \in Ids, Add(i) \/ Trigger(i)
    PROVE  EnoughAwake'
<1>1. /\ Good(events) /\ waits \in [Threads -> Wait] /\ closed' = closed /\ ~closed /\ NotifyOne
  BY DEF QueueIInv, QueueTypes, Add, Trigger
<1>2. Kind[i] # "timer" /\ ~IsTimer(i)
  BY DEF Consumed, IsTimer
<1>3. Good(events')
  BY AddKeeps, TriggerKeeps
<1>4. \/ Sleepers = {} /\ waits' = waits
      \/ /\ Sleepers # {} /\ Sleepers' \subseteq Sleepers
         /\ Cardinality(Awake') = Cardinality(Awake) + 1 /\ Cardinality(Awake) \in Nat
  BY <1>1, OneIsAwake
<1>5. CASE Sleepers = {}
  BY <1>1, <1>4, <1>5 DEF EnoughAwake, Sleepers
<1>6. CASE Sleepers # {}
  <2>1. IsFiniteSet(Units) /\ Cardinality(Units) \in Nat
    BY <1>1, UnitsAreFinite, FS_CardinalityType DEF Units
  <2>2. \E u : Units' \subseteq Units \cup {u}
    <3>1. CASE Add(i)
      <4>1. Units' \subseteq Units
        <5> SUFFICES ASSUME NEW u \in Units'
                     PROVE  u \in Units
          OBVIOUS
        <5>1. \E k \in 1..Len(events') : \E n \in 1..Len(Held(events'[k])) : u = <<events'[k].id, n>>
          <6>1. Units' = UnitsIn(events')
            BY DEF Units
          <6> QED BY <1>3, <6>1, UnitsOf
        <5>2. PICK k \in 1..Len(events') : \E n \in 1..Len(Held(events'[k])) : u = <<events'[k].id, n>>
          BY <5>1
        <5>n. PICK n \in 1..Len(Held(events'[k])) : u = <<events'[k].id, n>>
          BY <5>2
        <5>3. CASE Registered(i)
          <6>1. IndexOf(i) \in 1..Len(events)
            BY <1>1, <5>3, FoundAt
          <6> DEFINE j == IndexOf(i)
                     e == [events[j] EXCEPT !.clock = Clock(i)]
          <6>2. events' = [events EXCEPT ![j] = e]
            BY <1>2, <3>1, <5>3 DEF Add
          <6> HIDE DEF j
          <6>3. events[j] \in Event /\ j \in 1..Len(events) /\ events \in Seq(Event)
            BY <1>1, <6>1 DEF Good, j
          <6>4. e.id = events[j].id /\ Held(e) = Held(events[j])
            BY <6>3 DEF Event, Held
          <6> HIDE DEF e
          <6>5. Len(events') = Len(events) /\ \A m \in 1..Len(events) : events'[m] = IF m = j THEN e ELSE events[m]
            BY <6>2, <6>3
          <6>6. k \in 1..Len(events) /\ events'[k].id = events[k].id /\ Held(events'[k]) = Held(events[k])
            BY <6>4, <6>5
          <6> QED BY <1>1, <5>n, <6>6, UnitsOf DEF Units
        <5>4. CASE ~Registered(i)
          <6> DEFINE e == [id |-> i, triggered |-> FALSE, data |-> 0, pending |-> << >>, clock |-> Clock(i)]
          <6>1. events' = Append(events, e)
            BY <3>1, <5>4 DEF Add
          <6>2. Held(e) = << >> /\ Len(Held(e)) = 0
            BY DEF Held
          <6> HIDE DEF e
          <6>3. /\ Len(events) \in Nat /\ Len(events') = Len(events) + 1
                /\ events'[Len(events) + 1] = e /\ \A m \in 1..Len(events) : events'[m] = events[m]
            <7>1. events \in Seq(Event)
              BY <1>1 DEF Good
            <7> QED BY <6>1, <7>1
          <6>4. k \in 1..Len(events) \/ k = Len(events) + 1
            BY <6>3
          <6>5. k \in 1..Len(events) /\ events'[k] = events[k]
            BY <6>2, <6>3, <6>4
          <6> QED BY <1>1, <5>n, <6>5, UnitsOf DEF Units
        <5> QED BY <5>3, <5>4
      <4> QED BY <4>1
    <3>2. CASE Trigger(i)
      <4> DEFINE j == IndexOf(i)
                 e == events[j]
                 f == Triggered(e, triggers + 1)
                 z == <<i, Len(Held(e)) + 1>>
      <4>1. /\ j \in 1..Len(events) /\ e.id = i /\ Len(events') = Len(events)
            /\ \A m \in 1..Len(events) :
                  events'[m] = IF m = j THEN Triggered(events[m], triggers + 1) ELSE events[m]
        BY <3>2, TriggerKeeps
      <4>2. e \in Event /\ Whole(e) /\ triggers + 1 \in Nat /\ ~IsTimer(e.id)
        <5>1. triggers + 1 \in Nat
          BY DEF QueueIInv, QueueTypes
        <5> QED BY <1>1, <1>2, <4>1, <5>1 DEF Good
      <4>3. f.id = i /\ Len(Held(e)) \in Nat /\ Len(Held(f)) <= Len(Held(e)) + 1
        <5> HIDE DEF j, e
        <5>0. Held(e) \in Seq(Nat) /\ Len(Held(e)) \in Nat /\ e.triggered \in BOOLEAN /\ f.id = i
          <6>1. Held(e) \in Seq(Nat)
            BY <4>2, HeldNumbers
          <6>2. f.id = e.id
            BY <4>2, TriggeredFacts
          <6> QED BY <4>1, <4>2, <6>1, <6>2 DEF Event
        <5> DEFINE h == Held(e)
                   g == Held(f)
        <5>1. CASE ~e.triggered
          <6>1. h = << >> /\ g = << triggers + 1 >>
            BY <4>2, <5>1, TriggeredFacts, HeldNumbers
          <6>2. Len(<< >>) = 0 /\ Len(<< triggers + 1 >>) = 1
            OBVIOUS
          <6> QED BY <5>0, <6>1, <6>2
        <5>2. CASE Kind[e.id] = "ampr" /\ e.triggered /\ Len(e.pending) # MaxPending
          <6>1. g = Append(h, triggers + 1)
            BY <4>2, <5>2, TriggeredFacts
          <6>2. Len(Append(h, triggers + 1)) = Len(h) + 1
            BY <4>2, <5>0, AppendProperties
          <6> HIDE DEF f, h, g
          <6>3. Len(g) = Len(h) + 1
            BY <6>1, <6>2
          <6> QED BY <5>0, <6>3 DEF h, g
        <5>3. CASE e.triggered /\ (Kind[e.id] = "ampr" => Len(e.pending) = MaxPending)
          <6>1. Len(g) = Len(h)
            BY <4>2, <5>3, TriggeredFacts
          <6> QED BY <5>0, <6>1
        <5> QED BY <5>0, <5>1, <5>2, <5>3
      <4>4. Units' \subseteq Units \cup {z}
        <5> SUFFICES ASSUME NEW u \in Units'
                     PROVE  u \in Units \cup {z}
          OBVIOUS
        <5>1. \E k \in 1..Len(events') : \E n \in 1..Len(Held(events'[k])) : u = <<events'[k].id, n>>
          <6>1. Units' = UnitsIn(events')
            BY DEF Units
          <6> QED BY <1>3, <6>1, UnitsOf
        <5>2. PICK k \in 1..Len(events') : \E n \in 1..Len(Held(events'[k])) : u = <<events'[k].id, n>>
          BY <5>1
        <5>n. PICK n \in 1..Len(Held(events'[k])) : u = <<events'[k].id, n>>
          BY <5>2
        <5>3. CASE k # j
          BY <1>1, <4>1, <5>n, <5>3, UnitsOf DEF Units
        <5>4. CASE k = j
          <6>1. events'[k] = f
            BY <4>1, <5>4
          <6> DEFINE y == Len(Held(e))
                     x == Len(Held(f))
          <6>2. n \in 1..x /\ u = <<i, n>>
            BY <4>3, <5>n, <6>1
          <6>3. y \in Nat /\ x <= y + 1 /\ x \in Nat
            <7>1. f \in Event /\ Whole(f)
              BY <4>2, TriggeredFacts
            <7> HIDE DEF f
            <7>2. Held(f) \in Seq(Nat)
              BY <7>1, HeldNumbers
            <7> QED BY <4>3, <7>2, LenProperties
          <6> HIDE DEF x, y, f
          <6>4. n \in 1..y \/ n = y + 1
            BY <6>2, <6>3
          <6>5. CASE n \in 1..y
            BY <1>1, <4>1, <6>2, <6>5, UnitsOf DEF Units, y
          <6>6. CASE n = y + 1
            BY <6>2, <6>6 DEF y
          <6> QED BY <6>4, <6>5, <6>6
        <5> QED BY <5>3, <5>4
      <4> QED BY <4>4
    <3> QED BY <3>1, <3>2
  <2>3. Cardinality(Units') <= Cardinality(Units) + 1 /\ Cardinality(Units') \in Nat
    <3>1. PICK u : Units' \subseteq Units \cup {u}
      BY <2>2
    <3>2. IsFiniteSet(Units \cup {u}) /\ Cardinality(Units \cup {u}) <= Cardinality(Units) + 1
          /\ Cardinality(Units \cup {u}) \in Nat
      <4> DEFINE w == Units \cup {u}
      <4>1. IsFiniteSet(w) /\ Cardinality(w) = IF u \in Units THEN Cardinality(Units) ELSE Cardinality(Units) + 1
        BY <2>1, FS_AddElement
      <4> HIDE DEF w
      <4>2. Cardinality(w) <= Cardinality(Units) + 1 /\ Cardinality(w) \in Nat
        BY <2>1, <4>1, FS_CardinalityType
      <4> QED BY <4>1, <4>2 DEF w
    <3>3. IsFiniteSet(Units') /\ Cardinality(Units') <= Cardinality(Units \cup {u}) /\ Cardinality(Units') \in Nat
      BY <3>1, <3>2, FS_Subset, FS_CardinalityType
    <3> QED BY <2>1, <3>2, <3>3
  <2>4. Cardinality(Units) <= Cardinality(Awake)
    BY <1>6 DEF EnoughAwake
  <2>5. Cardinality(Units') <= Cardinality(Awake')
    BY <1>4, <1>6, <2>1, <2>3, <2>4
  <2> QED BY <1>1, <2>5 DEF EnoughAwake
<1> QED BY <1>5, <1>6

\* A turn of a wait collects something, or leaves nothing to collect.
LEMMA ScanCollects ==
    ASSUME QueueIInv, IsFiniteSet(Threads), Consumed, EnoughAwake, NEW t \in Threads, Scan(t)
    PROVE  EnoughAwake'
<1>1. /\ Good(events) /\ waits \in [Threads -> Wait] /\ closed' = closed /\ closed \in BOOLEAN
      /\ waits[t].at = "scan" /\ Good(events')
  BY ScanKeeps DEF QueueIInv, QueueTypes, Scan
<1>2. /\ IsFiniteSet(Units) /\ Cardinality(Units) \in Nat
      /\ IsFiniteSet(Awake) /\ Cardinality(Awake) \in Nat
  <2>1. IsFiniteSet(Awake)
    BY FS_Subset DEF Awake
  <2> QED BY <1>1, <2>1, UnitsAreFinite, FS_CardinalityType DEF Units
<1>3. CASE closed
  <2>1. waits' = [waits EXCEPT ![t] = Away] /\ Sleepers = {}
    BY <1>3 DEF Scan, EnoughAwake
  <2>2. Sleepers' = {}
    <3>1. \A u \in Threads : waits'[u] = IF u = t THEN Away ELSE waits[u]
      BY <1>1, <2>1
    <3> QED BY <2>1, <3>1 DEF Sleepers, Away
  <2> QED BY <2>2 DEF EnoughAwake
<1>4. CASE ~closed
  <2> DEFINE list == TriggerExpiredTimers(events)
             walk == Walk(list, waits[t].size)
  <2>1. /\ events' = walk.list
        /\ \/ walk.out # << >> /\ waits' = [waits EXCEPT ![t] = Away]
           \/ walk.out = << >> /\ waits' = [waits EXCEPT ![t] = Away]
           \/ /\ walk.out = << >>
              /\ waits' = [waits EXCEPT ![t] = [waits[t] EXCEPT !.at = "asleep", !.watches = HasTimer(list)]]
    BY <1>4 DEF Scan
  <2>2. /\ Good(list) /\ Len(list) = Len(events) /\ \A j \in 1..Len(events) : list[j] = events[j]
    <3>1. \A j \in 1..Len(events) : ~IsTimer(events[j].id)
      <4> TAKE j \in 1..Len(events)
      <4>1. events[j] \in Event
        BY <1>1 DEF Good
      <4> QED BY <4>1 DEF Event, Consumed, IsTimer
    <3> QED BY <1>1, <3>1, GoodExpired
  <2>3. waits[t] \in Wait /\ waits[t].size \in Nat \ {0}
    BY <1>1 DEF Wait
  <2> HIDE DEF list
  <2>4. /\ walk.out \in Seq(Entry) /\ Good(walk.list)
        /\ \A m \in 1..Len(walk.list) : \E j \in 1..Len(list) : From(list[j], walk.list[m], walk.out)
        /\ walk.out = << >> => \A m \in 1..Len(walk.list) : ~walk.list[m].triggered
        /\ walk.out # << >> => \E j \in 1..Len(list) : list[j].triggered /\ Reported(list[j].id, walk.out) # << >>
    BY <2>2, <2>3, WalkFacts
  <2> HIDE DEF walk
  <2>5. /\ \A u \in Threads : u # t => waits'[u] = waits[u]
        /\ waits'[t].at \in {"away", "asleep"} /\ (walk.out # << >> => waits'[t].at = "away")
    <3>1. CASE waits' = [waits EXCEPT ![t] = Away]
      BY <3>1, <1>1 DEF Away
    <3>2. CASE /\ walk.out = << >>
               /\ waits' = [waits EXCEPT ![t] = [waits[t] EXCEPT !.at = "asleep", !.watches = HasTimer(list)]]
      <4>1. [waits[t] EXCEPT !.at = "asleep", !.watches = HasTimer(list)].at = "asleep"
        BY <2>3 DEF Wait
      <4> QED BY <3>2, <4>1, <1>1
    <3> QED BY <2>1, <3>1, <3>2
  <2>6. Awake' = Awake \ {t} /\ t \in Awake
    BY <1>1, <2>5 DEF Awake
  <2>7. Cardinality(Awake') = Cardinality(Awake) - 1 /\ Cardinality(Awake') \in Nat
    <3>1. IsFiniteSet(Awake') /\ Cardinality(Awake') = Cardinality(Awake) - 1
      BY <1>2, <2>6, FS_RemoveElement
    <3> QED BY <3>1, FS_CardinalityType
  <2>8. CASE walk.out = << >>
    <3>1. \A m \in 1..Len(events') : Held(events'[m]) = << >>
      BY <2>1, <2>4, <2>8 DEF Held
    <3>2. Units' = {}
      <4> SUFFICES ASSUME NEW u \in Units'
                   PROVE  FALSE
        OBVIOUS
      <4>1. Units' = UnitsIn(events')
        BY DEF Units
      <4>2. PICK k \in 1..Len(events') : \E n \in 1..Len(Held(events'[k])) : u = <<events'[k].id, n>>
        BY <1>1, <4>1, UnitsOf
      <4>3. Len(<< >>) = 0
        OBVIOUS
      <4> QED BY <3>1, <4>2, <4>3
    <3>3. Cardinality(Units') <= Cardinality(Awake')
      BY <2>7, <3>2, FS_EmptySet
    <3> QED BY <1>1, <1>4, <3>3 DEF EnoughAwake
  <2>9. CASE walk.out # << >>
    <3>1. PICK j \in 1..Len(list) : list[j].triggered /\ Reported(list[j].id, walk.out) # << >>
      BY <2>4, <2>9
    <3> DEFINE e == events[j]
               z == <<e.id, Len(Held(e))>>
    <3>2. list[j] = e /\ j \in 1..Len(events) /\ e \in Event /\ Whole(e) /\ e.triggered
      BY <1>1, <2>2, <3>1 DEF Good
    <3>3. z \in Units
      <4>1. Held(e) \in Seq(Nat) /\ Len(Held(e)) = Len(e.pending) + 1 /\ Len(e.pending) \in Nat
        BY <3>2, HeldNumbers
      <4>2. Len(Held(e)) \in 1..Len(Held(e))
        BY <4>1
      <4> QED BY <1>1, <3>2, <4>2, UnitsOf DEF Units
    <3>4. ASSUME NEW u \in Units'
          PROVE  u \in Units /\ u # z
      <4>1. Units' = UnitsIn(events')
        BY DEF Units
      <4>2. PICK m \in 1..Len(events') : \E n \in 1..Len(Held(events'[m])) : u = <<events'[m].id, n>>
        BY <1>1, <4>1, UnitsOf
      <4> DEFINE x == events'[m]
      <4>3. PICK n \in 1..Len(Held(x)) : u = <<x.id, n>>
        BY <4>2
      <4>4. PICK k \in 1..Len(list) : From(list[k], x, walk.out)
        BY <2>1, <2>4
      <4>5. x \in Event /\ Whole(x)
        BY <1>1 DEF Good
      <4> DEFINE f == events[k]
                 told == Reported(f.id, walk.out)
      <4>6. list[k] = f /\ k \in 1..Len(events) /\ f \in Event /\ Whole(f) /\ f.id \in Ids
        <5>1. list[k] = f /\ k \in 1..Len(events)
          BY <2>2
        <5>2. f \in Event /\ Whole(f)
          BY <1>1, <5>1 DEF Good
        <5> HIDE DEF f
        <5> QED BY <5>1, <5>2 DEF Event
      <4> HIDE DEF x, f
      <4>7. x.id = f.id /\ Held(f) = told \o Held(x) /\ told \in Seq(Nat)
        <5>1. x.id = f.id /\ (Kind[f.id] # "level" => Held(f) = told \o Held(x))
          BY <4>4, <4>6 DEF From
        <5>2. Kind[f.id] # "level"
          BY <4>6 DEF Consumed
        <5> QED BY <2>4, <4>6, <5>1, <5>2, ToldNumbers
      <4> HIDE DEF told
      <4>8. Len(Held(f)) = Len(told) + Len(Held(x)) /\ Len(told) \in Nat /\ Len(Held(x)) \in Nat
        <5> DEFINE h == Held(x)
        <5>1. h \in Seq(Nat) /\ told \in Seq(Nat)
          BY <4>5, <4>7, HeldNumbers
        <5> HIDE DEF h
        <5>2. Len(told \o h) = Len(told) + Len(h) /\ Len(told) \in Nat /\ Len(h) \in Nat
          BY <5>1, InARow
        <5> QED BY <4>7, <5>2 DEF h
      <4>9. n \in 1..Len(Held(f)) /\ n \in Nat
        BY <4>3, <4>8
      <4>10. u \in Units
        BY <1>1, <4>3, <4>6, <4>7, <4>9, UnitsOf DEF Units, f
      <4>11. u # z
        <5> SUFFICES ASSUME u = z
                     PROVE  FALSE
          OBVIOUS
        <5>1. f.id = e.id /\ n = Len(Held(e))
          BY <4>3, <4>7
        <5>2. k = j
          BY <1>1, <3>2, <4>6, <5>1 DEF Good, OneOfEach, f
        <5>3. told # << >> /\ n = Len(Held(f))
          BY <3>1, <3>2, <5>1, <5>2 DEF told, f
        <5>4. Len(told) # 0
          BY <4>7, <5>3
        <5> QED BY <4>3, <4>8, <5>3, <5>4
      <4> QED BY <4>10, <4>11
    <3> HIDE DEF z
    <3>5. Units' \subseteq Units \ {z}
      BY <3>4
    <3>6. Cardinality(Units') <= Cardinality(Units) - 1 /\ Cardinality(Units') \in Nat
      <4>1. IsFiniteSet(Units \ {z}) /\ Cardinality(Units \ {z}) = Cardinality(Units) - 1
        BY <1>2, <3>3, FS_RemoveElement
      <4>2. IsFiniteSet(Units') /\ Cardinality(Units') <= Cardinality(Units \ {z})
        BY <3>5, <4>1, FS_Subset
      <4> QED BY <4>1, <4>2, FS_CardinalityType
    <3>7. Sleepers' = Sleepers
      BY <1>1, <2>5, <2>9 DEF Sleepers
    <3>8. Sleepers # {} => Cardinality(Units) <= Cardinality(Awake)
      BY DEF EnoughAwake
    <3>9. Sleepers # {} => Cardinality(Units') <= Cardinality(Awake')
      BY <1>2, <2>7, <3>6, <3>8
    <3> QED BY <1>1, <1>4, <3>7, <3>9 DEF EnoughAwake
  <2> QED BY <2>8, <2>9
<1> QED BY <1>1, <1>3, <1>4

\* Every step leaves as many threads awake as there is something to collect.
LEMMA EnoughStep ==
    ASSUME QueueIInv, QueueIInv', IsFiniteSet(Threads), Consumed, EnoughAwake, [Next]_vars
    PROVE  EnoughAwake'
<1>1. /\ Good(events) /\ Good(events') /\ waits \in [Threads -> Wait] /\ closed \in BOOLEAN
  BY DEF QueueIInv, QueueTypes
<1>Stutter. CASE UNCHANGED vars
  BY <1>Stutter DEF vars, EnoughAwake, Sleepers, Awake, Units
<1>AddTrigger. ASSUME NEW i \in Ids, Add(i) \/ Trigger(i)
               PROVE  EnoughAwake'
  BY <1>AddTrigger, AddAndTriggerWake
<1>Delete. ASSUME NEW i \in Ids, Delete(i)
           PROVE  EnoughAwake'
  <2>1. waits' = waits /\ closed' = closed
    BY <1>Delete DEF Delete
  <2>2. \A m \in 1..Len(events') : \E j \in 1..Len(events) : events'[m] = events[j]
    BY <1>Delete, DeleteKeeps
  <2>3. Units' \subseteq Units
    <3> SUFFICES ASSUME NEW u \in Units'
                 PROVE  u \in Units
      OBVIOUS
    <3>1. Units' = UnitsIn(events')
      BY DEF Units
    <3>2. PICK m \in 1..Len(events') : \E n \in 1..Len(Held(events'[m])) : u = <<events'[m].id, n>>
      BY <1>1, <3>1, UnitsOf
    <3>3. PICK j \in 1..Len(events) : events'[m] = events[j]
      BY <2>2
    <3> QED BY <1>1, <3>2, <3>3, UnitsOf DEF Units
  <2>4. Sleepers' = Sleepers /\ Awake' = Awake
    BY <2>1 DEF Sleepers, Awake
  <2> QED BY <1>1, <2>1, <2>3, <2>4, StillEnough
<1>Forget. CASE Forget
  BY <1>Forget DEF Forget, EnoughAwake, Sleepers, Awake, Units
<1>Close. CASE Close
  <2>1. NotifyAll
    BY <1>Close DEF Close
  <2>2. Sleepers' = {}
    <3> SUFFICES ASSUME NEW t \in Threads, waits'[t].at = "asleep"
                 PROVE  FALSE
      BY DEF Sleepers
    <3>1. waits[t] \in Wait
      BY <1>1
    <3>2. waits'[t] = IF t \in Sleepers THEN [waits[t] EXCEPT !.at = "scan"] ELSE waits[t]
      BY <2>1 DEF NotifyAll
    <3> QED BY <3>1, <3>2 DEF Sleepers, Wait
  <2> QED BY <2>2 DEF EnoughAwake
<1>Elapse. ASSUME NEW k \in 1..Len(events), Elapse(k)
           PROVE  EnoughAwake'
  <2>1. IsTimer(events[k].id)
    BY <1>Elapse, ElapseKeeps
  <2>2. events[k] \in Event
    BY <1>1 DEF Good
  <2> QED BY <2>1, <2>2 DEF Event, Consumed, IsTimer
<1>Call. ASSUME NEW t \in Threads, Call(t)
         PROVE  EnoughAwake'
  <2>1. /\ UNCHANGED <<events, closed>> /\ waits[t] = Away
        /\ \E n \in Sizes, l \in {"none", "finite", "poll"} :
              waits' = [waits EXCEPT ![t] = [at |-> "scan", size |-> n, limit |-> l, watches |-> FALSE]]
    BY <1>Call DEF Call
  <2>2. waits'[t].at = "scan" /\ \A u \in Threads : u # t => waits'[u] = waits[u]
    BY <1>1, <2>1
  <2>3. Sleepers' \subseteq Sleepers /\ Awake \subseteq Awake' /\ Units' = Units
    BY <2>1, <2>2 DEF Sleepers, Awake, Units
  <2> QED BY <1>1, <2>1, <2>3, StillEnough
<1>Scan. ASSUME NEW t \in Threads, Scan(t)
         PROVE  EnoughAwake'
  BY <1>Scan, ScanCollects
<1>WakeByTime. ASSUME NEW t \in Threads, WakeByTime(t)
               PROVE  EnoughAwake'
  <2>1. UNCHANGED <<events, closed>> /\ waits' = [waits EXCEPT ![t].at = "scan"]
    BY <1>WakeByTime DEF WakeByTime
  <2>2. waits'[t].at = "scan" /\ \A u \in Threads : u # t => waits'[u] = waits[u]
    <3>1. waits[t] \in Wait
      BY <1>1
    <3> QED BY <1>1, <2>1, <3>1 DEF Wait
  <2>3. Sleepers' \subseteq Sleepers /\ Awake \subseteq Awake' /\ Units' = Units
    BY <2>1, <2>2 DEF Sleepers, Awake, Units
  <2> QED BY <1>1, <2>1, <2>3, StillEnough
<1> QED
  BY <1>Stutter, <1>AddTrigger, <1>Delete, <1>Forget, <1>Close, <1>Elapse, <1>Call, <1>Scan,
     <1>WakeByTime DEF Next

\* With enough threads awake, nobody sleeps over an event that is triggered.
LEMMA EnoughIsSafe ==
    ASSUME QueueIInv, IsFiniteSet(Threads), EnoughAwake
    PROVE  NoStrandedWaiter
<1> SUFFICES ASSUME NEW t \in Sleepers
             PROVE  /\ ~closed
                    /\ (\E k \in 1..Len(events) : events[k].triggered) => \E u \in Threads : waits[u].at = "scan"
  BY DEF NoStrandedWaiter
<1>1. ~closed /\ Cardinality(Units) <= Cardinality(Awake)
  BY DEF EnoughAwake
<1>2. ASSUME NEW k \in 1..Len(events), events[k].triggered
      PROVE  \E u \in Threads : waits[u].at = "scan"
  <2>1. Good(events) /\ events[k] \in Event /\ Whole(events[k])
    BY DEF QueueIInv, QueueTypes, Good
  <2>2. Len(Held(events[k])) = Len(events[k].pending) + 1 /\ Len(events[k].pending) \in Nat
    BY <1>2, <2>1, HeldNumbers
  <2>3. 1 \in 1..Len(Held(events[k]))
    BY <2>2
  <2>4. <<events[k].id, 1>> \in Units
    BY <2>1, <2>3, UnitsOf DEF Units
  <2>5. IsFiniteSet(Units) /\ IsFiniteSet(Awake)
    BY <2>1, UnitsAreFinite, FS_Subset DEF Units, Awake
  <2>6. Cardinality(Units) \in Nat /\ Cardinality(Units) # 0
    BY <2>4, <2>5, FS_EmptySet, FS_CardinalityType
  <2>7. Awake # {}
    <3> SUFFICES ASSUME Awake = {}
                 PROVE  FALSE
      OBVIOUS
    <3>1. Cardinality(Awake) = 0
      BY FS_EmptySet
    <3> QED BY <1>1, <2>6, <3>1
  <2> QED BY <2>7 DEF Awake
<1> QED BY <1>1, <1>2

\* The queue of the parts that is not the one with timers is a queue like any other.
LEMMA QueueInvariance == QueuesSpec => [](part # "clocks" => QueueIInv)
<1>1. QueuesInit => (part # "clocks" => QueueIInv)
  BY QueueBegins DEF QueuesInit, PartsInit
<1>2. (part # "clocks" => QueueIInv) /\ [QueuesNext]_<<part, vars, watchVars, rwlockVars>>
         => (part # "clocks" => QueueIInv)'
  <2> SUFFICES ASSUME part # "clocks" => QueueIInv,
                      [QueuesNext]_<<part, vars, watchVars, rwlockVars>>, part' # "clocks"
               PROVE  QueueIInv'
    OBVIOUS
  <2>1. part' = part /\ (Next \/ UNCHANGED vars)
    BY DEF QueuesNext, PartsNext
  <2> QED BY <2>1, QueueStep
<1> QED BY <1>1, <1>2, PTL DEF QueuesSpec

\* Every completion that is sent to an event is reported once and in its order, or
\* still held: whoever collects, into however small an array, between however many
\* triggers.  Only those that kMaxPendingEvents drops are not.
THEOREM CompletionsAreReported == QueuesSpec => []NoCompletionIsLost
<1>1. (part # "clocks" => QueueIInv) => NoCompletionIsLost
  BY DEF QueueIInv, Accounts, Accounted, NoCompletionIsLost, CompletionsAreAccounted
<1> QED BY <1>1, QueueInvariance, PTL

\* Where a report clears what it reports, nobody sleeps on a queue that is closed or over
\* an event that is triggered, unless somebody is awake who will collect: a thread is
\* woken for each completion, and what one leaves another was woken for.
THEOREM NobodySleepsOverEvents ==
    ASSUME Consumed
    PROVE  QueuesSpec => [](part # "clocks" => NoStrandedWaiter)
<1> USE ThreadsAssumption
<1>1. QueuesInit => (part # "clocks" => EnoughAwake)
  <2> SUFFICES ASSUME Init
               PROVE  EnoughAwake
    BY DEF QueuesInit, PartsInit
  <2>1. Sleepers = {}
    BY DEF Init, Sleepers, Away
  <2> QED BY <2>1 DEF EnoughAwake
<1>2. (part # "clocks" => QueueIInv) /\ (part # "clocks" => QueueIInv)'
        /\ (part # "clocks" => EnoughAwake) /\ [QueuesNext]_<<part, vars, watchVars, rwlockVars>>
         => (part # "clocks" => EnoughAwake)'
  <2> SUFFICES ASSUME part # "clocks" => QueueIInv, (part # "clocks" => QueueIInv)',
                      part # "clocks" => EnoughAwake,
                      [QueuesNext]_<<part, vars, watchVars, rwlockVars>>, part' # "clocks"
               PROVE  EnoughAwake'
    OBVIOUS
  <2>1. part' = part /\ (Next \/ UNCHANGED vars)
    BY DEF QueuesNext, PartsNext
  <2> QED BY <2>1, EnoughStep
<1>3. (part # "clocks" => QueueIInv) /\ (part # "clocks" => EnoughAwake)
         => (part # "clocks" => NoStrandedWaiter)
  BY EnoughIsSafe
<1> QED BY <1>1, <1>2, <1>3, QueueInvariance, PTL DEF QueuesSpec
=============================================================================
