-------------------------- MODULE UmtxRwlock_proofs --------------------------
(***************************************************************************)
(* Proofs about UmtxRwlock, for any threads, any number of readers and any *)
(* flags: the state word excludes, and whoever sleeps has its waiter bit.  *)
(***************************************************************************)
EXTENDS UmtxRwlock, TLAPS, SequenceTheorems, FiniteSetTheorems

Distinct(q) == \A i, j \in 1..Len(q) : q[i] = q[j] => i = j

\* What RemoveAt leaves, and of a list without repetitions: all but one element.
LEMMA RemoveAtFacts ==
    ASSUME NEW S, NEW q \in Seq(S), NEW i \in 1..Len(q)
    PROVE  /\ RemoveAt(q, i) \in Seq(S)
           /\ Len(RemoveAt(q, i)) = Len(q) - 1
           /\ \A j \in 1..(Len(q) - 1) :
                RemoveAt(q, i)[j] = IF j < i THEN q[j] ELSE q[j + 1]
           /\ Distinct(q) =>
                /\ Distinct(RemoveAt(q, i))
                /\ \A j \in 1..Len(RemoveAt(q, i)) :
                     \E k \in 1..Len(q) : k # i /\ RemoveAt(q, i)[j] = q[k] /\ q[k] # q[i]
<1>1. /\ RemoveAt(q, i) \in Seq(S)
      /\ Len(RemoveAt(q, i)) = Len(q) - 1
      /\ \A j \in 1..(Len(q) - 1) :
           RemoveAt(q, i)[j] = IF j < i THEN q[j] ELSE q[j + 1]
  <2> DEFINE a == SubSeq(q, 1, i - 1)
             b == SubSeq(q, i + 1, Len(q))
  <2>1. Len(q) \in Nat
    BY LenProperties
  <2>2. /\ a \in Seq(S) /\ Len(a) = i - 1
        /\ \A j \in 1..(i - 1) : a[j] = q[j]
    BY <2>1, SubSeqProperties
  <2>3. /\ b \in Seq(S) /\ Len(b) = Len(q) - i
        /\ \A j \in 1..(Len(q) - i) : b[j] = q[i + j]
    BY <2>1, SubSeqProperties
  <2> HIDE DEF a, b
  <2>4. /\ a \o b \in Seq(S) /\ Len(a \o b) = Len(a) + Len(b)
        /\ \A j \in 1..(Len(a) + Len(b)) :
             (a \o b)[j] = IF j <= Len(a) THEN a[j] ELSE b[j - Len(a)]
    BY <2>2, <2>3, ConcatProperties
  <2>5. Len(a) + Len(b) = Len(q) - 1
    BY <2>1, <2>2, <2>3
  <2>6. ASSUME NEW j \in 1..(Len(q) - 1)
        PROVE  (a \o b)[j] = IF j < i THEN q[j] ELSE q[j + 1]
    <3>1. CASE j < i
      BY <3>1, <2>1, <2>2, <2>4, <2>5
    <3>2. CASE ~(j < i)
      <4>1. /\ j - Len(a) \in 1..(Len(q) - i)
            /\ i + (j - Len(a)) = j + 1
            /\ ~(j <= Len(a))
        BY <3>2, <2>1, <2>2
      <4> QED BY <3>2, <4>1, <2>3, <2>4, <2>5
    <3> QED BY <3>1, <3>2
  <2> QED BY <2>4, <2>5, <2>6 DEF RemoveAt, a, b
<1>2. ASSUME Distinct(q)
      PROVE  /\ Distinct(RemoveAt(q, i))
             /\ \A j \in 1..Len(RemoveAt(q, i)) :
                  \E k \in 1..Len(q) : k # i /\ RemoveAt(q, i)[j] = q[k] /\ q[k] # q[i]
  <2> DEFINE r == RemoveAt(q, i)
             Old(j) == IF j < i THEN j ELSE j + 1
  <2>1. Len(q) \in Nat
    BY LenProperties
  <2>2. Len(r) = Len(q) - 1 /\ \A j \in 1..Len(r) : r[j] = IF j < i THEN q[j] ELSE q[j + 1]
    BY <1>1
  <2> HIDE DEF r
  <2>3. \A j \in 1..Len(r) : Old(j) \in 1..Len(q) /\ Old(j) # i /\ r[j] = q[Old(j)]
    BY <2>1, <2>2
  <2>4. \A j, k \in 1..Len(r) : Old(j) = Old(k) => j = k
    BY <2>1, <2>2
  <2> HIDE DEF Old
  <2>5. Distinct(r)
    BY <1>2, <2>3, <2>4 DEF Distinct
  <2>6. \A j \in 1..Len(r) : \E k \in 1..Len(q) : k # i /\ r[j] = q[k] /\ q[k] # q[i]
    BY <1>2, <2>3 DEF Distinct
  <2> QED BY <2>5, <2>6 DEF r
<1> QED BY <1>1, <1>2

\* A queue of sleepers, each in it once: what joining it, leaving it from
\* anywhere and being taken from its head leave.
LEMMA QueueFacts ==
    ASSUME NEW S, NEW q \in Seq(S), IsInjective(q)
    PROVE  /\ Len(q) \in Nat /\ DOMAIN q = 1..Len(q) /\ Range(q) \subseteq S
           /\ q = <<>> <=> Len(q) = 0
           /\ q = <<>> <=> Range(q) = {}
           /\ \A t \in S : /\ Append(q, t) \in Seq(S) /\ Append(q, t) # <<>>
                           /\ Len(Append(q, t)) = Len(q) + 1
                           /\ Range(Append(q, t)) = Range(q) \cup {t}
                           /\ t \notin Range(q) => IsInjective(Append(q, t))
           /\ \A p \in DOMAIN q : /\ RemoveAt(q, p) \in Seq(S)
                                  /\ Len(RemoveAt(q, p)) = Len(q) - 1
                                  /\ Range(RemoveAt(q, p)) = Range(q) \ {q[p]}
                                  /\ IsInjective(RemoveAt(q, p))
           /\ q # <<>> => /\ Head(q) \in Range(q) /\ Tail(q) \in Seq(S)
                          /\ Len(Tail(q)) = Len(q) - 1
                          /\ Range(Tail(q)) = Range(q) \ {Head(q)}
                          /\ IsInjective(Tail(q))
<1>1. /\ Len(q) \in Nat /\ DOMAIN q = 1..Len(q) /\ Range(q) \subseteq S
      /\ q = <<>> <=> Len(q) = 0
      /\ \A i, j \in 1..Len(q) : q[i] = q[j] => i = j
      /\ \A u : u \in Range(q) <=> \E i \in 1..Len(q) : q[i] = u
  BY LenProperties, EmptySeq, ElementOfSeq DEF Range, IsInjective
<1>2. q = <<>> <=> Range(q) = {}
  <2>1. /\ Len(q) # 0 => 1 \in 1..Len(q)
        /\ Len(q) = 0 => 1..Len(q) = {}
    BY <1>1
  <2>2. Len(q) = 0 => \A u : u \notin Range(q)
    BY <1>1, <2>1
  <2>3. Len(q) # 0 => q[1] \in Range(q)
    BY <1>1, <2>1
  <2> QED BY <1>1, <2>2, <2>3
<1>3. ASSUME NEW t \in S
      PROVE  /\ Append(q, t) \in Seq(S) /\ Append(q, t) # <<>>
             /\ Len(Append(q, t)) = Len(q) + 1
             /\ Range(Append(q, t)) = Range(q) \cup {t}
             /\ t \notin Range(q) => IsInjective(Append(q, t))
  <2> DEFINE r == Append(q, t)
  <2>1. /\ r \in Seq(S) /\ Len(r) = Len(q) + 1 /\ r # <<>>
        /\ \A i \in 1..Len(q) : r[i] = q[i]
        /\ r[Len(q) + 1] = t
    BY AppendProperties
  <2>2. DOMAIN r = 1..Len(r) /\ Len(q) + 1 \in 1..Len(r) /\ \A i \in 1..Len(q) : i \in 1..Len(r)
    BY <1>1, <2>1, LenProperties
  <2> HIDE DEF r
  <2>3. \A i \in 1..Len(r) : i \in 1..Len(q) \/ i = Len(q) + 1
    BY <1>1, <2>1
  <2>4. Range(r) = Range(q) \cup {t}
    BY <1>1, <2>1, <2>2, <2>3 DEF Range
  <2>5. ASSUME t \notin Range(q)
        PROVE  IsInjective(r)
    BY <1>1, <2>1, <2>2, <2>3, <2>5 DEF IsInjective
  <2> QED BY <2>1, <2>4, <2>5 DEF r
<1>4. ASSUME NEW p \in DOMAIN q
      PROVE  /\ RemoveAt(q, p) \in Seq(S)
             /\ Len(RemoveAt(q, p)) = Len(q) - 1
             /\ Range(RemoveAt(q, p)) = Range(q) \ {q[p]}
             /\ IsInjective(RemoveAt(q, p))
  <2> DEFINE r == RemoveAt(q, p)
             New(j) == IF j < p THEN j ELSE j - 1
  <2>1. /\ r \in Seq(S) /\ Len(r) = Len(q) - 1 /\ Distinct(r)
        /\ \A j \in 1..(Len(q) - 1) : r[j] = IF j < p THEN q[j] ELSE q[j + 1]
        /\ \A j \in 1..Len(r) : \E k \in 1..Len(q) : k # p /\ r[j] = q[k] /\ q[k] # q[p]
    <3>1. p \in 1..Len(q) /\ Distinct(q)
      BY <1>1 DEF Distinct
    <3> QED BY <3>1, RemoveAtFacts
  <2>2. DOMAIN r = 1..Len(r)
    BY <2>1, LenProperties
  <2> HIDE DEF r
  <2>3. \A k \in 1..Len(q) : k # p => New(k) \in 1..Len(r) /\ r[New(k)] = q[k]
    BY <1>1, <2>1
  <2> HIDE DEF New
  <2>4. Range(r) = Range(q) \ {q[p]}
    <3>1. ASSUME NEW u \in Range(r) PROVE u \in Range(q) \ {q[p]}
      BY <1>1, <2>1, <2>2 DEF Range
    <3>2. ASSUME NEW u \in Range(q) \ {q[p]} PROVE u \in Range(r)
      <4>1. PICK k \in 1..Len(q) : q[k] = u /\ k # p
        BY <1>1
      <4> QED BY <2>2, <2>3, <4>1 DEF Range
    <3> QED BY <3>1, <3>2
  <2>5. IsInjective(r)
    BY <2>1, <2>2 DEF Distinct, IsInjective
  <2> QED BY <2>1, <2>4, <2>5 DEF r
<1>5. ASSUME q # <<>>
      PROVE  /\ Head(q) \in Range(q) /\ Tail(q) \in Seq(S)
             /\ Len(Tail(q)) = Len(q) - 1
             /\ Range(Tail(q)) = Range(q) \ {Head(q)}
             /\ IsInjective(Tail(q))
  <2> DEFINE r == Tail(q)
  <2>1. /\ r \in Seq(S) /\ Len(r) = Len(q) - 1 /\ Head(q) = q[1] /\ 1 \in 1..Len(q)
        /\ \A i \in 1..(Len(q) - 1) : r[i] = q[i + 1]
    BY <1>1, <1>5, HeadTailProperties
  <2>2. DOMAIN r = 1..Len(r)
    BY <2>1, LenProperties
  <2> HIDE DEF r
  <2>3. \A i \in 1..Len(r) : i + 1 \in 1..Len(q) /\ i + 1 # 1 /\ r[i] = q[i + 1]
    BY <1>1, <2>1
  <2>4. \A k \in 1..Len(q) : k # 1 => k - 1 \in 1..Len(r) /\ r[k - 1] = q[k]
    BY <1>1, <2>1
  <2>5. Range(r) = Range(q) \ {q[1]}
    <3>1. ASSUME NEW u \in Range(r) PROVE u \in Range(q) \ {q[1]}
      BY <1>1, <2>1, <2>2, <2>3 DEF Range
    <3>2. ASSUME NEW u \in Range(q) \ {q[1]} PROVE u \in Range(r)
      <4>1. PICK k \in 1..Len(q) : q[k] = u /\ k # 1
        BY <1>1
      <4> QED BY <2>2, <2>4, <4>1 DEF Range
    <3> QED BY <3>1, <3>2
  <2>6. IsInjective(r)
    <3>1. \A i, j \in 1..Len(r) : i + 1 = j + 1 => i = j
      BY <1>1, <2>1
    <3> QED BY <1>1, <2>2, <2>3, <3>1 DEF IsInjective
  <2> QED BY <1>1, <2>1, <2>5, <2>6 DEF r
<1> QED BY <1>1, <1>2, <1>3, <1>4, <1>5

-----------------------------------------------------------------------------
\* Inside a call a thread holds nothing.
CallersHoldNothing == \A t \in Threads : pc[t] # "idle" => holds[t] = "none"

\* blockedReaders and blockedWriters count who has queued and has not come back.
Waiting(k) == {t \in Threads : pc[t] \in {"asleep", "woken", "timedOut"} /\ call[t].kind = k}
BlockedCounted == \A k \in Kinds : blocked[k] = Cardinality(Waiting(k))

\* A queue holds sleeping threads of its kind, each once.
QueuedAreAsleep ==
    \A k \in Kinds :
        /\ Distinct(queue[k])
        /\ \A i \in 1..Len(queue[k]) : pc[queue[k][i]] = "asleep" /\ call[queue[k][i]].kind = k

IInv == TypeOK /\ CallersHoldNothing /\ BlockedCounted /\ QueuedAreAsleep /\ Exclusion /\ SleeperHasBit

States == [owner : BOOLEAN, readers : 0..MaxReaders, waiters : [Kinds -> BOOLEAN]]

LEMMA Subsets ==
    ASSUME NEW k
    PROVE  /\ IsFiniteSet(Waiting(k)) /\ Cardinality(Waiting(k)) \in Nat
           /\ IsFiniteSet(Holders(k)) /\ Cardinality(Holders(k)) \in Nat
BY ThreadsAssumption, FS_Subset, FS_CardinalityType DEF Waiting, Holders

LEMMA WaiterBit ==
    ASSUME state \in States, NEW k \in Kinds, NEW b \in BOOLEAN
    PROVE  /\ WithWaiterBit(k, b) \in States
           /\ WithWaiterBit(k, b).owner = state.owner
           /\ WithWaiterBit(k, b).readers = state.readers
           /\ \A m \in Kinds : WithWaiterBit(k, b).waiters[m] = IF m = k THEN b ELSE state.waiters[m]
BY DEF WithWaiterBit, States

-----------------------------------------------------------------------------

\* The invariant holds in every reachable state.
LEMMA Invariance == Spec => []IInv
\* What a step that changes neither the holders nor the owner and the readers leaves.
<1>SameHolders. ASSUME Exclusion, holds' = holds,
                       state'.owner = state.owner, state'.readers = state.readers
                PROVE  Exclusion'
  BY <1>SameHolders DEF Exclusion, Holders
\* What a step that moves no thread in or out of a queue's reach leaves.
<1>SameWaiting. ASSUME BlockedCounted, blocked' = blocked, \A k \in Kinds : Waiting(k)' = Waiting(k)
                PROVE  BlockedCounted'
  BY <1>SameWaiting DEF BlockedCounted
\* A thread that is not asleep is in no queue.
<1>SameQueues. ASSUME QueuedAreAsleep, TypeOK, NEW t \in Threads, pc[t] # "asleep", queue' = queue,
                      \A u \in Threads \ {t} : pc'[u] = pc[u] /\ call'[u] = call[u]
               PROVE  QueuedAreAsleep'
  <2> USE <1>SameQueues
  <2> SUFFICES ASSUME NEW k \in Kinds, NEW i \in 1..Len(queue[k])
               PROVE  pc'[queue[k][i]] = "asleep" /\ call'[queue[k][i]].kind = k
    BY DEF QueuedAreAsleep
  <2>1. queue[k][i] \in Threads
    BY ElementOfSeq DEF TypeOK
  <2>2. pc[queue[k][i]] = "asleep" /\ call[queue[k][i]].kind = k
    BY DEF QueuedAreAsleep
  <2> QED BY <2>1, <2>2
<1>1. Init => IInv
  <2> SUFFICES ASSUME Init PROVE IInv
    OBVIOUS
  <2>0. /\ state = [owner |-> FALSE, readers |-> 0, waiters |-> [k \in Kinds |-> FALSE]]
        /\ queue = [k \in Kinds |-> <<>>] /\ blocked = [k \in Kinds |-> 0]
    BY DEF Init
  <2>1. TypeOK
    <3>1. state \in [owner : BOOLEAN, readers : 0..MaxReaders, waiters : [Kinds -> BOOLEAN]]
      BY <2>0, ReadersAssumption
    <3>2. /\ queue \in [Kinds -> Seq(Threads)]
          /\ blocked \in [Kinds -> Nat]
      BY <2>0
    <3>3. /\ call \in [Threads -> Calls]
          /\ holds \in [Threads -> Kinds \cup {"none"}]
      BY DEF Init, Calls, Kinds
    <3>4. /\ preferReader \in PreferReaders /\ gaveUp \in BOOLEAN
          /\ pc \in [Threads -> {"idle", "try", "asleep", "woken", "timedOut", "wakeRead", "wakeWrite"}]
      BY DEF Init
    <3> QED BY <3>1, <3>2, <3>3, <3>4 DEF TypeOK
  <2>2. CallersHoldNothing
    BY DEF Init, CallersHoldNothing
  <2>3. \A k \in Kinds : Waiting(k) = {}
    BY DEF Init, Waiting
  <2>4. BlockedCounted
    BY <2>3, FS_EmptySet DEF Init, BlockedCounted
  <2>5. QueuedAreAsleep
    BY DEF Init, QueuedAreAsleep, Distinct
  <2>6. Holders("read") = {} /\ Holders("write") = {}
    BY DEF Init, Holders
  <2>7. Exclusion
    <3>1. ~state.owner /\ state.readers = 0
      BY <2>0
    <3>2. Cardinality(Holders("read")) = 0 /\ Cardinality(Holders("write")) = 0
      BY <2>6, FS_EmptySet
    <3> QED BY <2>6, <3>1, <3>2 DEF Exclusion
  <2>8. SleeperHasBit
    BY DEF Init, SleeperHasBit
  <2> QED BY <2>1, <2>2, <2>4, <2>5, <2>7, <2>8 DEF IInv
\* Every action preserves the invariant.
<1>2. IInv /\ [Next]_vars => IInv'
  <2> SUFFICES ASSUME IInv, [Next]_vars PROVE IInv'
    OBVIOUS
  <2>Begin. ASSUME NEW t \in Threads, NEW c \in Calls, Begin(t, c)
    PROVE  IInv'
    <3> USE <2>Begin DEF IInv
    <3>1. TypeOK'
      BY DEF TypeOK, Begin, Step
    <3>2. CallersHoldNothing'
      BY DEF TypeOK, CallersHoldNothing, Begin, Step
    <3>3. \A k \in Kinds : Waiting(k)' = Waiting(k)
      BY DEF TypeOK, Waiting, Begin, Step
    <3>4. BlockedCounted'
      BY <3>3, <1>SameWaiting DEF Begin
    <3>5. QueuedAreAsleep'
      BY <1>SameQueues DEF TypeOK, Begin, Step
    <3>6. Exclusion'
      BY <1>SameHolders DEF Begin
    <3>7. SleeperHasBit'
      BY DEF Begin, SleeperHasBit
    <3> QED BY <3>1, <3>2, <3>4, <3>5, <3>6, <3>7
  <2>Enter. ASSUME NEW t \in Threads, Enter(t)
    PROVE  IInv'
    <3> USE <2>Enter DEF IInv
    <3>0. /\ pc[t] = "try" /\ holds[t] = "none" /\ call[t] \in Calls
          /\ state \in States
          /\ pc' = [pc EXCEPT ![t] = "idle"]
          /\ holds' = [holds EXCEPT ![t] = call[t].kind]
          /\ queue' = queue /\ blocked' = blocked /\ call' = call
      BY DEF Enter, Step, CallersHoldNothing, TypeOK, States
    <3>1. state' \in States /\ state'.waiters = state.waiters
      <4>1. CASE state' = [state EXCEPT !.owner = TRUE]
        BY <3>0, <4>1 DEF States
      <4>2. CASE ~Full /\ state' = [state EXCEPT !.readers = @ + 1]
        <5>1. state.readers + 1 \in 0..MaxReaders
          BY <3>0, <4>2, ReadersAssumption DEF Full, States
        <5> QED BY <3>0, <4>2, <5>1 DEF States
      <4> QED BY <4>1, <4>2 DEF Enter
    <3>2. TypeOK'
      BY <3>0, <3>1 DEF TypeOK, Enter, States, Calls
    <3>3. CallersHoldNothing'
      BY <3>0 DEF CallersHoldNothing, TypeOK
    <3>4. \A k \in Kinds : Waiting(k)' = Waiting(k)
      BY <3>0 DEF TypeOK, Waiting
    <3>5. BlockedCounted'
      BY <3>0, <3>4, <1>SameWaiting
    <3>6. QueuedAreAsleep'
      BY <3>0, <1>SameQueues DEF TypeOK
    <3>7. ASSUME call[t].kind = "write" PROVE Exclusion'
      <4>1. ~state.owner /\ state.readers = 0 /\ state'.owner /\ state'.readers = 0
        BY <3>0, <3>7 DEF Enter, Free, States
      <4>2. Holders("write") = {} /\ Holders("write")' = {t} /\ Holders("read")' = Holders("read")
        BY <3>0, <3>7, <4>1 DEF Exclusion, Holders, TypeOK
      <4>3. Cardinality(Holders("write")') = 1 /\ Cardinality(Holders("read")') = 0
        BY <4>1, <4>2, FS_Singleton DEF Exclusion
      <4>4. Holders("write")' # {}
        BY <4>2
      <4>5. Cardinality(Holders("write")') <= 1 /\ state'.readers = Cardinality(Holders("read")')
        BY <4>1, <4>3
      <4> QED BY <4>1, <4>4, <4>5 DEF Exclusion
    <3>8. ASSUME call[t].kind = "read" PROVE Exclusion'
      <4>1. ~state.owner /\ ~state'.owner /\ state'.readers = state.readers + 1
        BY <3>0, <3>8 DEF Enter, Free, States
      <4>2. /\ t \notin Holders("read") /\ Holders("read")' = Holders("read") \cup {t}
            /\ Holders("write")' = Holders("write")
        BY <3>0, <3>8 DEF Holders, TypeOK
      <4>3. Cardinality(Holders("read")') = state.readers + 1
        BY <4>2, Subsets, FS_AddElement DEF Exclusion
      <4>4. Holders("write")' = {}
        BY <4>1, <4>2 DEF Exclusion
      <4>5. Cardinality(Holders("write")') = 0
        BY <4>4, FS_EmptySet
      <4>6. Cardinality(Holders("write")') <= 1 /\ state'.readers = Cardinality(Holders("read")')
        BY <4>1, <4>3, <4>5
      <4> QED BY <4>1, <4>4, <4>6 DEF Exclusion
    <3>9. Exclusion'
      BY <3>0, <3>7, <3>8 DEF Calls, Kinds
    <3>10. SleeperHasBit'
      BY <3>0, <3>1 DEF SleeperHasBit
    <3> QED BY <3>2, <3>3, <3>5, <3>6, <3>9, <3>10
  <2>TooManyReaders. ASSUME NEW t \in Threads, TooManyReaders(t)
    PROVE  IInv'
    <3> USE <2>TooManyReaders DEF IInv
    <3>1. TypeOK'
      BY DEF TypeOK, TooManyReaders, Step
    <3>2. CallersHoldNothing'
      BY DEF TypeOK, CallersHoldNothing, TooManyReaders, Step
    <3>3. \A k \in Kinds : Waiting(k)' = Waiting(k)
      BY DEF TypeOK, Waiting, TooManyReaders, Step
    <3>4. BlockedCounted'
      BY <3>3, <1>SameWaiting DEF TooManyReaders
    <3>5. QueuedAreAsleep'
      BY <1>SameQueues DEF TypeOK, TooManyReaders, Step
    <3>6. Exclusion'
      BY <1>SameHolders DEF TooManyReaders
    <3>7. SleeperHasBit'
      BY DEF TooManyReaders, SleeperHasBit
    <3> QED BY <3>1, <3>2, <3>4, <3>5, <3>6, <3>7
  <2>Block. ASSUME NEW t \in Threads, Block(t)
    PROVE  IInv'
    <3> DEFINE k == call[t].kind
    <3> USE <2>Block DEF IInv
    <3>0. /\ pc[t] = "try" /\ k \in Kinds /\ state \in States
          /\ state' = WithWaiterBit(k, TRUE)
          /\ blocked' = [blocked EXCEPT ![k] = @ + 1]
          /\ queue' = [queue EXCEPT ![k] = Append(@, t)]
          /\ pc' = [pc EXCEPT ![t] = "asleep"]
          /\ holds' = holds /\ call' = call
      BY DEF Block, Step, TypeOK, Calls, States
    <3>1. /\ state' \in States /\ state'.owner = state.owner /\ state'.readers = state.readers
          /\ \A m \in Kinds : state'.waiters[m] = IF m = k THEN TRUE ELSE state.waiters[m]
      BY <3>0, WaiterBit
    <3>2. \A m \in Kinds : queue[m] \in Seq(Threads) /\ queue'[m] = IF m = k THEN Append(queue[m], t) ELSE queue[m]
      BY <3>0 DEF TypeOK
    <3>3. queue' \in [Kinds -> Seq(Threads)]
      <4>1. Append(queue[k], t) \in Seq(Threads)
        BY <3>0, <3>2, AppendProperties
      <4> QED BY <3>0, <4>1 DEF TypeOK
    <3>4. TypeOK'
      <4>1. blocked' \in [Kinds -> Nat]
        BY <3>0 DEF TypeOK
      <4>2. pc' \in [Threads -> {"idle", "try", "asleep", "woken", "timedOut", "wakeRead", "wakeWrite"}]
        BY <3>0 DEF TypeOK
      <4>3. preferReader' = preferReader /\ gaveUp' = gaveUp
        BY DEF Block
      <4> QED BY <3>0, <3>1, <3>3, <4>1, <4>2, <4>3 DEF TypeOK, States
    <3>5. CallersHoldNothing'
      BY <3>0 DEF CallersHoldNothing, TypeOK
    <3>6. BlockedCounted'
      <4>1. \A m \in Kinds : Waiting(m)' = IF m = k THEN Waiting(m) \cup {t} ELSE Waiting(m)
        BY <3>0 DEF Waiting, TypeOK
      <4>2. t \notin Waiting(k)
        BY <3>0 DEF Waiting
      <4>3. Cardinality(Waiting(k)') = Cardinality(Waiting(k)) + 1
        BY <3>0, <4>1, <4>2, Subsets, FS_AddElement
      <4>4. \A m \in Kinds : blocked'[m] = IF m = k THEN blocked[m] + 1 ELSE blocked[m]
        BY <3>0 DEF TypeOK
      <4> QED BY <3>0, <4>1, <4>3, <4>4 DEF BlockedCounted
    <3>7. QueuedAreAsleep'
      <4>1. \A m \in Kinds : \A i \in 1..Len(queue[m]) : queue[m][i] \in Threads /\ queue[m][i] # t
        BY <3>0, <3>2, ElementOfSeq DEF QueuedAreAsleep
      <4>2. ASSUME NEW m \in Kinds, m # k
            PROVE  Distinct(queue'[m])
        BY <3>2, <4>2 DEF QueuedAreAsleep
      <4>3. /\ Len(queue[k]) \in Nat /\ Len(queue'[k]) = Len(queue[k]) + 1
            /\ \A i \in 1..Len(queue[k]) : queue'[k][i] = queue[k][i]
            /\ queue'[k][Len(queue[k]) + 1] = t
        <5>1. queue[k] \in Seq(Threads) /\ queue'[k] = Append(queue[k], t)
          BY <3>0, <3>2
        <5> QED BY <5>1, AppendProperties, LenProperties
      <4>4. Distinct(queue'[k])
        BY <3>0, <4>1, <4>3 DEF QueuedAreAsleep, Distinct
      <4>5. ASSUME NEW m \in Kinds, NEW i \in 1..Len(queue'[m])
            PROVE  pc'[queue'[m][i]] = "asleep" /\ call'[queue'[m][i]].kind = m
        <5>1. CASE m = k /\ i = Len(queue[k]) + 1
          BY <3>0, <4>3, <5>1 DEF TypeOK
        <5>2. CASE ~(m = k /\ i = Len(queue[k]) + 1)
          <6>1. i \in 1..Len(queue[m]) /\ queue'[m][i] = queue[m][i]
            BY <3>2, <4>3, <5>2
          <6> QED BY <3>0, <4>1, <6>1 DEF QueuedAreAsleep, TypeOK
        <5> QED BY <5>1, <5>2
      <4> QED BY <4>2, <4>4, <4>5 DEF QueuedAreAsleep
    <3>8. Exclusion'
      BY <3>0, <3>1, <1>SameHolders
    <3>9. SleeperHasBit'
      BY <3>0, <3>1, <3>2 DEF SleeperHasBit
    <3> QED BY <3>4, <3>5, <3>6, <3>7, <3>8, <3>9
  <2>TimeOut. ASSUME NEW t \in Threads, TimeOut(t)
    PROVE  IInv'
    <3> DEFINE k == call[t].kind
    <3> USE <2>TimeOut DEF IInv
    <3>0. /\ pc[t] = "asleep" /\ k \in Kinds
          /\ pc' = [pc EXCEPT ![t] = "timedOut"]
          /\ state' = state /\ blocked' = blocked /\ holds' = holds /\ call' = call
          /\ preferReader' = preferReader /\ gaveUp' \in BOOLEAN
      BY DEF TimeOut, Step, TypeOK, Calls
    <3>1. PICK p \in 1..Len(queue[k]) :
              queue[k][p] = t /\ queue' = [queue EXCEPT ![k] = RemoveAt(@, p)]
      <4>1. DOMAIN queue[k] = 1..Len(queue[k])
        BY <3>0, LenProperties DEF TypeOK
      <4> QED BY <4>1 DEF TimeOut
    <3> DEFINE r == RemoveAt(queue[k], p)
    <3>2. /\ queue[k] \in Seq(Threads) /\ Distinct(queue[k])
          /\ \A m \in Kinds : queue'[m] = IF m = k THEN r ELSE queue[m]
      BY <3>0, <3>1 DEF TypeOK, QueuedAreAsleep
    <3>3. /\ r \in Seq(Threads)
          /\ Len(r) = Len(queue[k]) - 1
          /\ Distinct(r)
          /\ \A j \in 1..Len(r) : \E i \in 1..Len(queue[k]) : r[j] = queue[k][i] /\ r[j] # t
      <4>1. r \in Seq(Threads) /\ Len(r) = Len(queue[k]) - 1
        BY <3>1, <3>2, RemoveAtFacts
      <4>2. /\ Distinct(r)
            /\ \A j \in 1..Len(r) : \E i \in 1..Len(queue[k]) :
                  i # p /\ r[j] = queue[k][i] /\ queue[k][i] # queue[k][p]
        <5>1. PICK q \in Seq(Threads) : q = queue[k] /\ Distinct(q) /\ p \in 1..Len(q)
          BY <3>1, <3>2
        <5> HIDE DEF Distinct
        <5>2. /\ Distinct(RemoveAt(q, p))
              /\ \A j \in 1..Len(RemoveAt(q, p)) : \E i \in 1..Len(q) :
                    i # p /\ RemoveAt(q, p)[j] = q[i] /\ q[i] # q[p]
          BY <5>1, RemoveAtFacts
        <5> QED BY <5>1, <5>2
      <4> HIDE DEF r
      <4> QED BY <3>1, <4>1, <4>2
    <3> HIDE DEF r
    <3>4. TypeOK'
      <4>1. queue' \in [Kinds -> Seq(Threads)]
        BY <3>0, <3>1, <3>3 DEF TypeOK, r
      <4>2. pc' \in [Threads -> {"idle", "try", "asleep", "woken", "timedOut", "wakeRead", "wakeWrite"}]
        BY <3>0 DEF TypeOK
      <4> QED BY <3>0, <4>1, <4>2 DEF TypeOK
    <3>5. CallersHoldNothing'
      BY <3>0 DEF CallersHoldNothing, TypeOK
    <3>6. BlockedCounted'
      <4>1. \A m \in Kinds : Waiting(m)' = Waiting(m)
        BY <3>0 DEF Waiting, TypeOK
      <4> QED BY <3>0, <4>1, <1>SameWaiting
    <3>7. QueuedAreAsleep'
      <4>1. \A m \in Kinds : Distinct(queue'[m])
        BY <3>2, <3>3 DEF QueuedAreAsleep
      <4>2. ASSUME NEW m \in Kinds, NEW i \in 1..Len(queue'[m])
            PROVE  pc'[queue'[m][i]] = "asleep" /\ call'[queue'[m][i]].kind = m
        <5>1. CASE m = k
          <6>1. queue'[m] = r /\ i \in 1..Len(r)
            BY <3>2, <5>1
          <6>2. PICK j \in 1..Len(queue[k]) : queue'[m][i] = queue[k][j] /\ queue[k][j] # t
            BY <3>3, <6>1
          <6>3. queue[k][j] \in Threads /\ pc[queue[k][j]] = "asleep" /\ call[queue[k][j]].kind = k
            BY <3>0, <3>2, ElementOfSeq DEF QueuedAreAsleep
          <6> QED BY <3>0, <5>1, <6>2, <6>3 DEF TypeOK
        <5>2. CASE m # k
          <6>1. queue'[m] = queue[m] /\ queue[m] \in Seq(Threads)
            BY <3>2, <5>2 DEF TypeOK
          <6>2. queue[m][i] \in Threads /\ pc[queue[m][i]] = "asleep" /\ call[queue[m][i]].kind = m
            BY <6>1, ElementOfSeq DEF QueuedAreAsleep
          <6>3. queue[m][i] # t
            BY <5>2, <6>2
          <6> QED BY <3>0, <6>1, <6>2, <6>3 DEF TypeOK
        <5> QED BY <5>1, <5>2
      <4> QED BY <4>1, <4>2 DEF QueuedAreAsleep
    <3>8. Exclusion'
      BY <3>0, <1>SameHolders
    <3>9. SleeperHasBit'
      <4>1. \A m \in Kinds : queue'[m] # <<>> => queue[m] # <<>>
        <5>1. r # <<>> => queue[k] # <<>>
          BY <3>1, <3>2, EmptySeq
        <5> QED BY <3>2, <5>1
      <4> QED BY <3>0, <4>1 DEF SleeperHasBit
    <3> QED BY <3>4, <3>5, <3>6, <3>7, <3>8, <3>9
  <2>Leave. ASSUME NEW t \in Threads, Leave(t)
    PROVE  IInv'
    <3> DEFINE k == call[t].kind
               to == IF pc[t] = "woken" THEN "try" ELSE "idle"
               clears == ClearsBit(t, blocked[k] - 1)
    <3> USE <2>Leave DEF IInv
    <3>0. /\ pc[t] \in {"woken", "timedOut"} /\ k \in Kinds /\ state \in States
          /\ pc' = [pc EXCEPT ![t] = to] /\ to \in {"try", "idle"}
          /\ blocked' = [blocked EXCEPT ![k] = @ - 1]
          /\ state' = IF clears THEN WithWaiterBit(k, FALSE) ELSE state
          /\ queue' = queue /\ holds' = holds /\ call' = call
          /\ preferReader' = preferReader /\ gaveUp' = gaveUp
      BY DEF Leave, Step, TypeOK, Calls, States
    <3> HIDE DEF to, clears
    <3>1. /\ state' \in States /\ state'.owner = state.owner /\ state'.readers = state.readers
          /\ \A m \in Kinds : state'.waiters[m] = IF m = k /\ clears THEN FALSE ELSE state.waiters[m]
      BY <3>0, WaiterBit
    <3>2. /\ \A m \in Kinds : Waiting(m)' = IF m = k THEN Waiting(m) \ {t} ELSE Waiting(m)
          /\ t \in Waiting(k)
      BY <3>0 DEF Waiting, TypeOK
    <3>3. Cardinality(Waiting(k)') = Cardinality(Waiting(k)) - 1 /\ Cardinality(Waiting(k)') \in Nat
      <4>1. Cardinality(Waiting(k) \ {t}) = Cardinality(Waiting(k)) - 1
        BY <3>2, Subsets, FS_RemoveElement
      <4>2. IsFiniteSet(Waiting(k) \ {t}) /\ Cardinality(Waiting(k) \ {t}) \in Nat
        BY Subsets, FS_RemoveElement, FS_Subset, FS_CardinalityType
      <4> QED BY <3>0, <3>2, <4>1, <4>2
    <3>4. \A m \in Kinds : blocked'[m] = IF m = k THEN blocked[m] - 1 ELSE blocked[m]
      BY <3>0 DEF TypeOK
    <3>5. BlockedCounted'
      BY <3>0, <3>2, <3>3, <3>4 DEF BlockedCounted
    <3>6. TypeOK'
      <4>1. blocked[k] - 1 \in Nat
        BY <3>0, <3>3 DEF BlockedCounted
      <4>2. blocked' \in [Kinds -> Nat]
        BY <3>0, <4>1 DEF TypeOK
      <4>3. pc' \in [Threads -> {"idle", "try", "asleep", "woken", "timedOut", "wakeRead", "wakeWrite"}]
        BY <3>0 DEF TypeOK
      <4> QED BY <3>0, <3>1, <4>2, <4>3 DEF TypeOK, States
    <3>7. CallersHoldNothing'
      BY <3>0 DEF CallersHoldNothing, TypeOK
    <3>8. QueuedAreAsleep'
      BY <3>0, <1>SameQueues DEF TypeOK
    <3>9. Exclusion'
      BY <3>0, <3>1, <1>SameHolders
    <3>10. SleeperHasBit'
      <4>1. ASSUME clears PROVE queue[k] = <<>>
        <5>1. blocked[k] - 1 = 0
          BY <4>1 DEF clears, ClearsBit
        <5>2. Cardinality(Waiting(k)') = 0
          BY <3>0, <3>3, <5>1 DEF BlockedCounted
        <5>3. Waiting(k)' = {}
          BY <3>0, <3>2, <5>2, Subsets, FS_RemoveElement, FS_EmptySet
        <5>4. \A i \in 1..Len(queue[k]) : queue[k][i] \in Waiting(k) /\ queue[k][i] # t
          BY <3>0, ElementOfSeq DEF QueuedAreAsleep, Waiting, TypeOK
        <5>5. \A i \in 1..Len(queue[k]) : FALSE
          BY <3>0, <3>2, <5>3, <5>4
        <5>6. queue[k] \in Seq(Threads) /\ Len(queue[k]) \in Nat
          BY <3>0, LenProperties DEF TypeOK
        <5>7. Len(queue[k]) = 0
          BY <5>5, <5>6
        <5> QED BY <5>6, <5>7, EmptySeq
      <4> QED BY <3>0, <3>1, <4>1 DEF SleeperHasBit
    <3> QED BY <3>5, <3>6, <3>7, <3>8, <3>9, <3>10
  <2>Unlock. ASSUME NEW t \in Threads, Unlock(t)
    PROVE  IInv'
    <3> DEFINE next == IF state.owner THEN [state EXCEPT !.owner = FALSE]
                                      ELSE [state EXCEPT !.readers = @ - 1]
    <3> USE <2>Unlock DEF IInv
    <3>0. /\ pc[t] = "idle" /\ holds[t] \in Kinds /\ state \in States
          /\ state' = next /\ pc' = [pc EXCEPT ![t] = Wakes(next)]
          /\ holds' = [holds EXCEPT ![t] = "none"]
          /\ queue' = queue /\ blocked' = blocked /\ call' = call
          /\ preferReader' = preferReader /\ gaveUp' = gaveUp
      BY DEF Unlock, Step, TypeOK, States
    <3>1. /\ IsFiniteSet(Holders("read")) /\ Cardinality(Holders("read")) \in Nat
          /\ IsFiniteSet(Holders("write")) /\ Cardinality(Holders("write")) \in Nat
      BY Subsets
    <3>2. ASSUME state.owner
          PROVE  /\ Holders("read") = {} /\ Holders("read")' = {} /\ Holders("write")' = {}
                 /\ state' \in States /\ ~state'.owner /\ state'.readers = 0
                 /\ state'.waiters = state.waiters
      <4>1. state.readers = 0 /\ Cardinality(Holders("read")) = 0
        BY <3>2 DEF Exclusion
      <4>2. Holders("read") = {}
        BY <3>1, <4>1, FS_EmptySet
      <4>3. t \in Holders("write")
        BY <3>0, <4>2 DEF Holders, Kinds
      <4>4. Cardinality(Holders("write") \ {t}) = Cardinality(Holders("write")) - 1
        BY <3>1, <4>3, FS_RemoveElement
      <4>5. IsFiniteSet(Holders("write") \ {t}) /\ Cardinality(Holders("write") \ {t}) \in Nat
        BY <3>1, FS_RemoveElement, FS_Subset, FS_CardinalityType
      <4>6. Cardinality(Holders("write") \ {t}) = 0
        BY <3>1, <4>4, <4>5 DEF Exclusion
      <4>7. Holders("write") \ {t} = {}
        BY <4>5, <4>6, FS_EmptySet
      <4>8. Holders("read")' = {} /\ Holders("write")' = {}
        BY <3>0, <4>2, <4>7 DEF Holders, TypeOK
      <4>9. state' \in States /\ ~state'.owner /\ state'.readers = 0 /\ state'.waiters = state.waiters
        BY <3>0, <3>2, <4>1 DEF States
      <4> QED BY <4>2, <4>8, <4>9
    <3>3. ASSUME ~state.owner
          PROVE  /\ Holders("write")' = {} /\ state'.readers = Cardinality(Holders("read")')
                 /\ state' \in States /\ ~state'.owner /\ state'.waiters = state.waiters
      <4>1. Holders("write") = {}
        BY <3>3 DEF Exclusion
      <4>2. t \in Holders("read")
        BY <3>0, <4>1 DEF Holders, Kinds
      <4>3. Holders("read")' = Holders("read") \ {t} /\ Holders("write")' = {}
        BY <3>0, <4>1 DEF Holders, TypeOK
      <4>4. Cardinality(Holders("read") \ {t}) = Cardinality(Holders("read")) - 1
        BY <3>1, <4>2, FS_RemoveElement
      <4>5. IsFiniteSet(Holders("read") \ {t}) /\ Cardinality(Holders("read") \ {t}) \in Nat
        BY <3>1, FS_RemoveElement, FS_Subset, FS_CardinalityType
      <4>6. state.readers - 1 \in Nat /\ state.readers - 1 = Cardinality(Holders("read")')
        BY <4>3, <4>4, <4>5 DEF Exclusion
      <4>7. state' \in States /\ ~state'.owner /\ state'.readers = state.readers - 1
            /\ state'.waiters = state.waiters
        BY <3>0, <3>3, <4>6, ReadersAssumption DEF States
      <4> QED BY <4>3, <4>6, <4>7
    <3>4. state' \in States /\ ~state'.owner /\ state'.waiters = state.waiters
      BY <3>2, <3>3
    <3>5. TypeOK'
      <4>1. Wakes(next) \in {"idle", "wakeRead", "wakeWrite"}
        BY DEF Wakes
      <4> HIDE DEF next
      <4>2. pc' \in [Threads -> {"idle", "try", "asleep", "woken", "timedOut", "wakeRead", "wakeWrite"}]
        BY <3>0, <4>1 DEF TypeOK
      <4>3. holds' \in [Threads -> Kinds \cup {"none"}]
        BY <3>0 DEF TypeOK
      <4> QED BY <3>0, <3>4, <4>2, <4>3 DEF TypeOK, States
    <3> HIDE DEF next
    <3>6. CallersHoldNothing'
      BY <3>0 DEF CallersHoldNothing, TypeOK
    <3>7. BlockedCounted'
      <4>1. Wakes(next) \in {"idle", "wakeRead", "wakeWrite"}
        BY DEF Wakes
      <4>2. \A m \in Kinds : Waiting(m)' = Waiting(m)
        BY <3>0, <4>1 DEF Waiting, TypeOK
      <4> QED BY <3>0, <4>2, <1>SameWaiting
    <3>8. QueuedAreAsleep'
      BY <3>0, <1>SameQueues DEF TypeOK
    <3>9. Exclusion'
      <4>1. Holders("write")' = {} /\ state'.readers = Cardinality(Holders("read")')
        BY <3>2, <3>3, FS_EmptySet
      <4>2. Cardinality(Holders("write")') <= 1
        BY <4>1, FS_EmptySet
      <4> QED BY <3>4, <4>1, <4>2 DEF Exclusion
    <3>10. SleeperHasBit'
      BY <3>0, <3>4 DEF SleeperHasBit
    <3> QED BY <3>5, <3>6, <3>7, <3>8, <3>9, <3>10
  <2>WakeWriter. ASSUME NEW t \in Threads, WakeWriter(t)
    PROVE  IInv'
    <3> USE <2>WakeWriter DEF IInv
    <3>0. /\ pc[t] = "wakeWrite"
          /\ state' = state /\ blocked' = blocked /\ holds' = holds /\ call' = call
          /\ preferReader' = preferReader /\ gaveUp' = gaveUp
          /\ queue["write"] \in Seq(Threads)
      BY DEF WakeWriter, TypeOK, Kinds
    <3>1. Exclusion'
      BY <3>0, <1>SameHolders
    <3>2. CASE queue["write"] = <<>>
      <4>0. queue' = queue /\ pc' = [pc EXCEPT ![t] = "idle"]
        BY <3>2 DEF WakeWriter, Step
      <4>1. TypeOK'
        BY <3>0, <4>0 DEF TypeOK
      <4>2. CallersHoldNothing'
        BY <3>0, <4>0 DEF TypeOK, CallersHoldNothing
      <4>3. \A k \in Kinds : Waiting(k)' = Waiting(k)
        BY <3>0, <4>0 DEF TypeOK, Waiting
      <4>4. BlockedCounted'
        BY <3>0, <4>3, <1>SameWaiting
      <4>5. QueuedAreAsleep'
        BY <3>0, <4>0, <1>SameQueues DEF TypeOK
      <4>6. SleeperHasBit'
        BY <3>0, <4>0 DEF SleeperHasBit
      <4> QED BY <3>1, <4>1, <4>2, <4>4, <4>5, <4>6
    <3>3. CASE queue["write"] # <<>>
      <4> DEFINE q == queue["write"]
                 u == Head(q)
      <4>0. /\ pc' = [pc EXCEPT ![t] = "idle", ![u] = "woken"]
            /\ queue' = [queue EXCEPT !["write"] = Tail(@)]
        BY <3>3 DEF WakeWriter
      <4>1. /\ Len(q) \in Nat /\ 1 \in 1..Len(q) /\ u = q[1] /\ u \in Threads
            /\ Tail(q) \in Seq(Threads) /\ Len(Tail(q)) = Len(q) - 1
            /\ \A i \in 1..Len(Tail(q)) : i + 1 \in 1..Len(q) /\ Tail(q)[i] = q[i + 1]
        BY <3>0, <3>3, HeadTailProperties, EmptySeq, LenProperties, ElementOfSeq
      <4>2. pc[u] = "asleep" /\ call[u].kind = "write" /\ Distinct(q)
        BY <4>1 DEF QueuedAreAsleep, Kinds
      <4>3. /\ u # t
            /\ \A v \in Threads : pc'[v] = IF v = u THEN "woken" ELSE IF v = t THEN "idle" ELSE pc[v]
            /\ \A m \in Kinds : queue'[m] = IF m = "write" THEN Tail(q) ELSE queue[m]
        BY <3>0, <4>0, <4>1, <4>2 DEF TypeOK
      <4> HIDE DEF u, q
      <4>4. TypeOK'
        <5>1. pc' \in [Threads -> {"idle", "try", "asleep", "woken", "timedOut", "wakeRead", "wakeWrite"}]
          BY <4>0 DEF TypeOK
        <5>2. queue' \in [Kinds -> Seq(Threads)]
          BY <4>0, <4>1 DEF TypeOK, q
        <5> QED BY <3>0, <5>1, <5>2 DEF TypeOK
      <4>5. CallersHoldNothing'
        BY <3>0, <4>1, <4>2, <4>3 DEF CallersHoldNothing
      <4>6. \A k \in Kinds : Waiting(k)' = Waiting(k)
        BY <3>0, <4>1, <4>2, <4>3 DEF Waiting
      <4>7. BlockedCounted'
        BY <3>0, <4>6, <1>SameWaiting
      <4>8. QueuedAreAsleep'
        <5>1. Distinct(Tail(q))
          BY <4>1, <4>2 DEF Distinct
        <5>2. \A i \in 1..Len(Tail(q)) :
                 /\ Tail(q)[i] \in Threads /\ Tail(q)[i] # u
                 /\ pc[Tail(q)[i]] = "asleep" /\ call[Tail(q)[i]].kind = "write"
          <6> SUFFICES ASSUME NEW i \in 1..Len(Tail(q))
                       PROVE  /\ Tail(q)[i] \in Threads /\ Tail(q)[i] # u
                              /\ pc[Tail(q)[i]] = "asleep" /\ call[Tail(q)[i]].kind = "write"
            OBVIOUS
          <6>1. i + 1 \in 1..Len(q) /\ Tail(q)[i] = q[i + 1] /\ i + 1 # 1
            BY <4>1
          <6>2. q[i + 1] \in Threads /\ q[i + 1] # u
            BY <3>0, <4>1, <4>2, <6>1, ElementOfSeq DEF Distinct, q
          <6>3. pc[q[i + 1]] = "asleep" /\ call[q[i + 1]].kind = "write"
            BY <6>1 DEF QueuedAreAsleep, Kinds, q
          <6> QED BY <6>1, <6>2, <6>3
        <5>3. ASSUME NEW m \in Kinds PROVE Distinct(queue'[m])
          BY <4>3, <5>1 DEF QueuedAreAsleep
        <5>4. ASSUME NEW m \in Kinds, NEW i \in 1..Len(queue'[m])
              PROVE  pc'[queue'[m][i]] = "asleep" /\ call'[queue'[m][i]].kind = m
          <6>1. CASE m = "write"
            <7>1. queue'[m] = Tail(q) /\ i \in 1..Len(Tail(q))
              BY <4>3, <6>1
            <7>2. /\ Tail(q)[i] \in Threads /\ Tail(q)[i] # u
                  /\ pc[Tail(q)[i]] = "asleep" /\ call[Tail(q)[i]].kind = "write"
              BY <5>2, <7>1
            <7> QED BY <3>0, <4>3, <6>1, <7>1, <7>2
          <6>2. CASE m # "write"
            <7>1. queue'[m] = queue[m] /\ queue[m] \in Seq(Threads)
              BY <4>3, <6>2 DEF TypeOK
            <7>2. queue[m][i] \in Threads /\ pc[queue[m][i]] = "asleep" /\ call[queue[m][i]].kind = m
              BY <7>1, ElementOfSeq DEF QueuedAreAsleep
            <7>3. queue[m][i] # u
              BY <4>2, <6>2, <7>2
            <7> QED BY <3>0, <4>3, <7>1, <7>2, <7>3
          <6> QED BY <6>1, <6>2
        <5> QED BY <5>3, <5>4 DEF QueuedAreAsleep
      <4>9. SleeperHasBit'
        <5>1. \A m \in Kinds : queue'[m] # <<>> => queue[m] # <<>>
          BY <3>3, <4>3
        <5> QED BY <3>0, <5>1 DEF SleeperHasBit
      <4> QED BY <3>1, <4>4, <4>5, <4>7, <4>8, <4>9
    <3> QED BY <3>2, <3>3
  <2>WakeReaders. ASSUME NEW t \in Threads, WakeReaders(t)
    PROVE  IInv'
    <3> DEFINE q == queue["read"]
               R == {q[i] : i \in 1..Len(q)}
    <3> USE <2>WakeReaders DEF IInv
    <3>0. /\ pc[t] = "wakeRead"
          /\ state' = state /\ blocked' = blocked /\ holds' = holds /\ call' = call
          /\ preferReader' = preferReader /\ gaveUp' = gaveUp
          /\ q \in Seq(Threads)
          /\ queue' = [queue EXCEPT !["read"] = <<>>]
      BY DEF WakeReaders, TypeOK, Kinds
    <3>1. Range(q) = R
      <4>1. DOMAIN q = 1..Len(q)
        BY <3>0, LenProperties
      <4> QED BY <4>1 DEF Range
    <3>2. \A u \in R : u \in Threads /\ pc[u] = "asleep" /\ call[u].kind = "read"
      BY <3>0, ElementOfSeq DEF QueuedAreAsleep, Kinds
    <3>3. /\ \A u \in Threads : pc'[u] = IF u = t THEN "idle" ELSE IF u \in R THEN "woken" ELSE pc[u]
          /\ \A m \in Kinds : queue'[m] = IF m = "read" THEN <<>> ELSE queue[m]
          /\ t \notin R
      BY <3>0, <3>1, <3>2 DEF WakeReaders, TypeOK
    <3> HIDE DEF R
    <3>4. TypeOK'
      <4>1. pc' \in [Threads -> {"idle", "try", "asleep", "woken", "timedOut", "wakeRead", "wakeWrite"}]
        BY <3>1 DEF TypeOK, WakeReaders
      <4>2. queue' \in [Kinds -> Seq(Threads)]
        <5>1. <<>> \in Seq(Threads)
          BY EmptySeq
        <5> QED BY <3>0, <5>1 DEF TypeOK
      <4> QED BY <3>0, <4>1, <4>2 DEF TypeOK
    <3>5. CallersHoldNothing'
      BY <3>0, <3>2, <3>3 DEF CallersHoldNothing
    <3>6. \A k \in Kinds : Waiting(k)' = Waiting(k)
      BY <3>0, <3>2, <3>3 DEF Waiting
    <3>7. BlockedCounted'
      BY <3>0, <3>6, <1>SameWaiting
    <3>8. QueuedAreAsleep'
      <4>1. ASSUME NEW m \in Kinds PROVE Distinct(queue'[m])
        BY <3>3 DEF QueuedAreAsleep, Distinct
      <4>2. ASSUME NEW m \in Kinds, NEW i \in 1..Len(queue'[m])
            PROVE  pc'[queue'[m][i]] = "asleep" /\ call'[queue'[m][i]].kind = m
        <5>1. CASE m = "read"
          BY <3>3, <5>1
        <5>2. CASE m # "read"
          <6>1. queue'[m] = queue[m] /\ queue[m] \in Seq(Threads)
            BY <3>3, <5>2 DEF TypeOK
          <6>2. queue[m][i] \in Threads /\ pc[queue[m][i]] = "asleep" /\ call[queue[m][i]].kind = m
            BY <6>1, ElementOfSeq DEF QueuedAreAsleep
          <6>3. queue[m][i] \notin R /\ queue[m][i] # t
            BY <3>0, <3>2, <5>2, <6>2
          <6> QED BY <3>0, <3>3, <6>1, <6>2, <6>3
        <5> QED BY <5>1, <5>2
      <4> QED BY <4>1, <4>2 DEF QueuedAreAsleep
    <3>9. Exclusion'
      BY <3>0, <1>SameHolders
    <3>10. SleeperHasBit'
      BY <3>0, <3>3 DEF SleeperHasBit
    <3> QED BY <3>4, <3>5, <3>7, <3>8, <3>9, <3>10
  <2>Stutter. CASE UNCHANGED vars
    BY <2>Stutter DEF IInv, TypeOK, CallersHoldNothing, BlockedCounted, Waiting,
       QueuedAreAsleep, Exclusion, Holders, SleeperHasBit, vars
  <2> QED
    BY <2>Stutter, <2>Begin, <2>Enter, <2>TooManyReaders, <2>Block, <2>TimeOut, <2>Leave, <2>Unlock, <2>WakeWriter, <2>WakeReaders DEF Next
<1> QED BY <1>1, <1>2, PTL DEF Spec

\* Whatever the number of threads, the state word of a urwlock tells who is in:
\* the compare-and-swaps of the lock calls, the waiter bits that come and go and
\* the wakes of the unlocks never let a writer in with anybody else.
THEOREM LockExcludes == Spec => []Exclusion
<1>1. IInv => Exclusion
  BY DEF IInv
<1> QED BY <1>1, Invariance, PTL

\* A thread that sleeps for a urwlock has its waiter bit set, so that an unlock
\* looks at its queue, although every thread that leaves may clear that bit.
THEOREM SleepersAreSeen == Spec => []SleeperHasBit
<1>1. IInv => SleeperHasBit
  BY DEF IInv
<1> QED BY <1>1, Invariance, PTL

-----------------------------------------------------------------------------
(* No wakeup is lost.                                                      *)

\* The queue an unlock looks at first, and the other.
First == IF preferReader THEN "read" ELSE "write"
Second == IF preferReader THEN "write" ELSE "read"

\* A thread on its way to a free lock that no waiter bit keeps out, and one on its
\* way to the wake of a queue.
GoesOn(t) == pc[t] \in {"woken", "try"} /\ (call[t].kind = "write" \/ preferReader)
Waking(k) == \E t \in Threads : pc[t] = IF k = "read" THEN "wakeRead" ELSE "wakeWrite"

SleepersAreQueued == \A t \in Threads : pc[t] = "asleep" => t \in Range(queue[call[t].kind])

\* A waiter bit that can make an unlock pass over the other queue stands for a
\* thread that is queued or was woken: none of those that set it timed out.
NobodyGaveUp ==
    \A k \in Kinds : k = "write" \/ preferReader =>
        /\ \A t \in Threads : call[t].kind = k => pc[t] # "timedOut"
        /\ state.waiters[k] => Waiting(k) # {}

\* While the lock is free, somebody who will take it is on his way, or each queue
\* has its wake to come; the second may instead rely on the first, whose thread
\* will have the lock before it.
WakeIsDue ==
    ~state.owner /\ state.readers = 0 =>
        \/ \E t \in Threads : GoesOn(t)
        \/ /\ queue[First] # <<>> => Waking(First)
           /\ queue[Second] # <<>> => queue[First] # <<>> \/ Waking(Second)

WakeIInv == SleepersAreQueued /\ (~gaveUp => NobodyGaveUp) /\ (~gaveUp => WakeIsDue)

\* The wake each sleeper of a free lock needs is due in every reachable state.
LEMMA WakeInvariance == Spec => []WakeIInv
<1>1. Init => WakeIInv
  BY DEF Init, WakeIInv, SleepersAreQueued, NobodyGaveUp, WakeIsDue, First, Second, Kinds
<1>2. ASSUME IInv, WakeIInv, Next
      PROVE  WakeIInv'
  <2> USE <1>2 DEF WakeIInv
  <2>0. /\ \A k \in Kinds : /\ queue[k] \in Seq(Threads) /\ IsInjective(queue[k])
                            /\ queue[k] = <<>> <=> Range(queue[k]) = {}
        /\ \A k \in Kinds : \A u \in Range(queue[k]) : u \in Threads /\ pc[u] = "asleep" /\ call[u].kind = k
        /\ \A u \in Threads : call[u].kind \in Kinds
        /\ state \in States /\ preferReader \in BOOLEAN /\ gaveUp \in BOOLEAN
    <3>1. ASSUME NEW k \in Kinds
          PROVE  /\ queue[k] \in Seq(Threads) /\ IsInjective(queue[k])
                 /\ \A u \in Range(queue[k]) : u \in Threads /\ pc[u] = "asleep" /\ call[u].kind = k
      <4>1. queue[k] \in Seq(Threads) /\ DOMAIN queue[k] = 1..Len(queue[k])
        BY LenProperties DEF IInv, TypeOK
      <4>2. IsInjective(queue[k])
        BY <4>1 DEF IInv, QueuedAreAsleep, Distinct, IsInjective
      <4> QED BY <4>1, <4>2, ElementOfSeq DEF IInv, QueuedAreAsleep, Range
    <3>2. \A k \in Kinds : queue[k] = <<>> <=> Range(queue[k]) = {}
      BY <3>1, QueueFacts
    <3> QED BY <3>1, <3>2, FlagsAssumption DEF IInv, TypeOK, Calls, States
  <2>1. First \in Kinds /\ Second \in Kinds /\ \A k \in Kinds : k = First \/ k = Second
    BY DEF First, Second, Kinds
  <2>Begin. ASSUME NEW t \in Threads, NEW c \in Calls, Begin(t, c)
    PROVE  WakeIInv'
    <3> USE <2>Begin DEF Begin, Step
    <3>1. SleepersAreQueued'
      BY <2>0 DEF SleepersAreQueued, IInv, TypeOK
    <3>2. ~gaveUp' => NobodyGaveUp'
      <4>1. \A k \in Kinds : Waiting(k)' = Waiting(k)
        BY DEF Waiting, IInv, TypeOK
      <4>2. \A u \in Threads : pc'[u] = "timedOut" => pc[u] = "timedOut" /\ call'[u] = call[u]
        BY DEF IInv, TypeOK
      <4> QED BY <4>1, <4>2 DEF NobodyGaveUp
    <3>3. ~gaveUp' => WakeIsDue'
      BY <2>0 DEF WakeIsDue, GoesOn, Waking, First, Second, IInv, TypeOK
    <3> QED BY <3>1, <3>2, <3>3
  <2>Enter. ASSUME NEW t \in Threads, Enter(t)
    PROVE  WakeIInv'
    <3> USE <2>Enter DEF Enter, Step
    <3>0. state'.waiters = state.waiters /\ (state'.owner \/ state'.readers # 0)
      <4>1. CASE state' = [state EXCEPT !.owner = TRUE]
        BY <2>0, <4>1 DEF States
      <4>2. CASE state' = [state EXCEPT !.readers = @ + 1]
        BY <2>0, <4>2 DEF States
      <4> QED BY <4>1, <4>2
    <3>1. SleepersAreQueued'
      BY <2>0 DEF SleepersAreQueued, IInv, TypeOK
    <3>2. ~gaveUp' => NobodyGaveUp'
      <4>1. \A k \in Kinds : Waiting(k)' = Waiting(k)
        BY DEF Waiting, IInv, TypeOK
      <4>2. \A u \in Threads : pc'[u] = "timedOut" => pc[u] = "timedOut" /\ call'[u] = call[u]
        BY DEF IInv, TypeOK
      <4> QED BY <3>0, <4>1, <4>2 DEF NobodyGaveUp
    <3>3. ~gaveUp' => WakeIsDue'
      BY <3>0 DEF WakeIsDue
    <3> QED BY <3>1, <3>2, <3>3
  <2>TooManyReaders. ASSUME NEW t \in Threads, TooManyReaders(t)
    PROVE  WakeIInv'
    <3> USE <2>TooManyReaders DEF TooManyReaders, Step
    <3>1. SleepersAreQueued'
      BY <2>0 DEF SleepersAreQueued, IInv, TypeOK
    <3>2. ~gaveUp' => NobodyGaveUp'
      <4>1. \A k \in Kinds : Waiting(k)' = Waiting(k)
        BY DEF Waiting, IInv, TypeOK
      <4>2. \A u \in Threads : pc'[u] = "timedOut" => pc[u] = "timedOut" /\ call'[u] = call[u]
        BY DEF IInv, TypeOK
      <4> QED BY <4>1, <4>2 DEF NobodyGaveUp
    <3>3. ~gaveUp' => WakeIsDue'
      BY <2>0, ReadersAssumption DEF WakeIsDue, Full
    <3> QED BY <3>1, <3>2, <3>3
  <2>Block. ASSUME NEW t \in Threads, Block(t)
    PROVE  WakeIInv'
    <3> USE <2>Block DEF Block, Step
    <3> DEFINE k == call[t].kind
    <3>0. /\ k \in Kinds
          /\ state'.owner = state.owner /\ state'.readers = state.readers
          /\ \A m \in Kinds : state'.waiters[m] = IF m = k THEN TRUE ELSE state.waiters[m]
      <4>1. k \in Kinds /\ state \in States /\ state' = WithWaiterBit(k, TRUE)
        BY <2>0
      <4> HIDE <2>Block DEF Block, Step, k
      <4> QED BY <4>1, WaiterBit
    <3>1. /\ \A m \in Kinds : Range(queue'[m]) = IF m = k THEN Range(queue[m]) \cup {t} ELSE Range(queue[m])
          /\ \A m \in Kinds : m # k => queue'[m] = queue[m]
      <4>1. Range(Append(queue[k], t)) = Range(queue[k]) \cup {t}
        BY <2>0, <3>0, QueueFacts
      <4> QED BY <3>0, <4>1 DEF IInv, TypeOK
    <3>2. SleepersAreQueued'
      <4> SUFFICES ASSUME NEW u \in Threads, pc'[u] = "asleep"
                   PROVE  u \in Range(queue'[call[u].kind])
        BY DEF SleepersAreQueued
      <4>1. call[u].kind \in Kinds
        BY <2>0
      <4>2. CASE u = t
        <5>1. t \in Range(queue'[k])
          <6> HIDE <2>Block DEF Block, Step, k
          <6> QED BY <3>0, <3>1
        <5> QED BY <4>2, <5>1
      <4>3. CASE u # t
        BY <3>1, <4>1, <4>3 DEF SleepersAreQueued, IInv, TypeOK
      <4> QED BY <4>2, <4>3
    <3>3. \A m \in Kinds : Waiting(m)' = IF m = k THEN Waiting(m) \cup {t} ELSE Waiting(m)
      BY <3>0 DEF Waiting, IInv, TypeOK
    <3>4. ~gaveUp' => NobodyGaveUp'
      <4>1. \A u \in Threads : pc'[u] = "timedOut" => pc[u] = "timedOut"
        BY DEF IInv, TypeOK
      <4>2. t \in Waiting(k)'
        BY <3>0, <3>3
      <4> QED BY <3>0, <3>3, <4>1, <4>2 DEF NobodyGaveUp
    <3>5. ASSUME ~gaveUp, ~state.owner, state.readers = 0
          PROVE  (\E u \in Threads : GoesOn(u)') \/ (queue[First] # <<>> /\ First # k)
      \* The thread is a reader that the bit of a writer keeps out.
      <4>1. k = "read" /\ ~preferReader /\ state.waiters["write"]
        BY <2>0, <3>0, <3>5 DEF Free, Kinds
      <4>2. PICK u \in Threads : u \in Waiting("write") /\ pc[u] # "timedOut"
        BY <3>5, <4>1 DEF NobodyGaveUp, Waiting, Kinds
      <4>3. CASE pc[u] = "woken"
        BY <4>2, <4>3 DEF GoesOn, Waiting, IInv, TypeOK
      <4>4. CASE pc[u] = "asleep"
        <5>1. u \in Range(queue["write"])
          BY <4>2, <4>4 DEF SleepersAreQueued, Waiting
        <5>2. queue["write"] # <<>>
          BY <2>0, <5>1 DEF Kinds
        <5> QED BY <4>1, <5>2 DEF First
      <4> QED BY <4>2, <4>3, <4>4 DEF Waiting
    <3>6. \A u \in Threads : u # t => GoesOn(u)' = GoesOn(u)
      BY DEF GoesOn, IInv, TypeOK
    <3>7. \A m \in Kinds : Waking(m)' = Waking(m)
      BY DEF Waking, IInv, TypeOK
    <3>8. ~gaveUp' => WakeIsDue'
      <4> SUFFICES ASSUME ~gaveUp, ~state.owner, state.readers = 0, \A u \in Threads : ~GoesOn(u)'
                   PROVE  /\ queue'[First] # <<>> => Waking(First)'
                          /\ queue'[Second] # <<>> => queue'[First] # <<>> \/ Waking(Second)'
        BY <3>0 DEF WakeIsDue, First, Second
      <4>1. queue[First] # <<>> /\ First # k /\ queue'[First] = queue[First]
        BY <2>1, <3>1, <3>5
      <4>2. ~GoesOn(t)
        BY <2>0, <3>0 DEF Free, Kinds, GoesOn
      <4>3. \A u \in Threads : ~GoesOn(u)
        BY <3>6, <4>2
      <4>4. queue[First] # <<>> => Waking(First)
        BY <4>3 DEF WakeIsDue
      <4>5. First' = First /\ Second' = Second
        BY DEF First, Second
      <4>6. Waking(First)'
        BY <2>1, <3>7, <4>1, <4>4, <4>5
      <4> QED BY <4>1, <4>6
    <3> QED BY <3>2, <3>4, <3>8
  <2>TimeOut. ASSUME NEW t \in Threads, TimeOut(t)
    PROVE  WakeIInv'
    <3> USE <2>TimeOut DEF TimeOut, Step
    <3> DEFINE k == call[t].kind
    <3>1. PICK i \in DOMAIN queue[k] :
             queue[k][i] = t /\ queue' = [queue EXCEPT ![k] = RemoveAt(queue[k], i)]
      OBVIOUS
    <3>2. /\ k \in Kinds /\ t \in Range(queue[k])
          /\ \A m \in Kinds : Range(queue'[m]) = IF m = k THEN Range(queue[m]) \ {t} ELSE Range(queue[m])
          /\ \A m \in Kinds : m # k => queue'[m] = queue[m]
      <4>1. k \in Kinds /\ t \in Range(queue[k])
        BY <2>0, <3>1 DEF Range
      <4>2. Range(RemoveAt(queue[k], i)) = Range(queue[k]) \ {t}
        BY <2>0, <3>1, <4>1, QueueFacts
      <4>3. \A m \in Kinds : queue'[m] = IF m = k THEN RemoveAt(queue[k], i) ELSE queue[m]
        BY <3>1, <4>1 DEF IInv, TypeOK
      <4> QED BY <4>1, <4>2, <4>3
    <3>3. SleepersAreQueued'
      <4> SUFFICES ASSUME NEW u \in Threads, pc'[u] = "asleep"
                   PROVE  u \in Range(queue'[call[u].kind])
        BY DEF SleepersAreQueued
      <4>1. u # t /\ pc[u] = "asleep" /\ call[u].kind \in Kinds
        BY <2>0 DEF IInv, TypeOK
      <4> QED BY <3>2, <4>1 DEF SleepersAreQueued
    <3>4. ASSUME ~gaveUp' PROVE k = "read" /\ ~preferReader /\ ~gaveUp
      BY <3>2, <3>4 DEF Kinds
    <3>5. ~gaveUp' => NobodyGaveUp'
      BY <3>2, <3>4 DEF NobodyGaveUp, Waiting, IInv, TypeOK, Kinds
    <3>6. ~gaveUp' => WakeIsDue'
      <4> SUFFICES ASSUME ~gaveUp' PROVE WakeIsDue'
        OBVIOUS
      <4>1. queue'[First] = queue[First] /\ queue[Second] # <<>>
        BY <2>0, <2>1, <3>2, <3>4 DEF First, Second, Kinds
      <4> QED BY <3>4, <4>1 DEF WakeIsDue, GoesOn, Waking, First, Second, IInv, TypeOK
    <3> QED BY <3>3, <3>5, <3>6
  <2>Leave. ASSUME NEW t \in Threads, Leave(t)
    PROVE  WakeIInv'
    <3> USE <2>Leave DEF Leave, Step
    <3> DEFINE k == call[t].kind
    <3>0. /\ k \in Kinds /\ t \in Waiting(k)
          /\ state'.owner = state.owner /\ state'.readers = state.readers
          /\ \A m \in Kinds : m # k => state'.waiters[m] = state.waiters[m]
          /\ state'.waiters[k] = IF ClearsBit(t, blocked[k] - 1) THEN FALSE ELSE state.waiters[k]
      <4>1. k \in Kinds /\ t \in Waiting(k)
        BY <2>0 DEF Waiting
      <4>2. state' = IF ClearsBit(t, blocked[k] - 1) THEN WithWaiterBit(k, FALSE) ELSE state
        OBVIOUS
      <4>3. state \in States
        BY <2>0
      <4> HIDE <2>Leave DEF k
      <4> QED BY <4>1, <4>2, <4>3, WaiterBit
    <3>1. SleepersAreQueued'
      BY <2>0 DEF SleepersAreQueued, IInv, TypeOK
    <3>2. \A m \in Kinds : Waiting(m)' = IF m = k THEN Waiting(m) \ {t} ELSE Waiting(m)
      BY <3>0 DEF Waiting, IInv, TypeOK
    <3>3. ASSUME ~gaveUp, k = "write" \/ preferReader, Waiting(k)' = {}
          PROVE  ~state'.waiters[k]
      <4>1. Cardinality(Waiting(k)) = 1
        BY <3>0, <3>2, <3>3, FS_Singleton
      <4>2. pc[t] = "woken" /\ blocked[k] - 1 = 0
        BY <3>0, <3>3, <4>1 DEF NobodyGaveUp, IInv, BlockedCounted
      <4> QED BY <3>0, <4>2 DEF ClearsBit
    <3>4. ~gaveUp' => NobodyGaveUp'
      BY <3>0, <3>2, <3>3 DEF NobodyGaveUp, IInv, TypeOK
    <3>5. ~gaveUp' => WakeIsDue'
      <4>1. \A u \in Threads : GoesOn(u) => GoesOn(u)'
        BY DEF GoesOn, IInv, TypeOK
      <4>2. \A m \in Kinds : Waking(m) => Waking(m)'
        BY DEF Waking, IInv, TypeOK
      <4>3. First' = First /\ Second' = Second
        BY DEF First, Second
      <4> QED BY <2>1, <3>0, <4>1, <4>2, <4>3 DEF WakeIsDue
    <3> QED BY <3>1, <3>4, <3>5
  <2>Unlock. ASSUME NEW t \in Threads, Unlock(t)
    PROVE  WakeIInv'
    <3> USE <2>Unlock DEF Unlock, Step
    <3>0. /\ state'.waiters = state.waiters /\ state'.waiters \in [Kinds -> BOOLEAN]
          /\ pc' = [pc EXCEPT ![t] = Wakes(state')]
      <4>1. pc' = [pc EXCEPT ![t] = Wakes(state')]
        OBVIOUS
      <4>2. \/ state' = [state EXCEPT !.owner = FALSE]
            \/ state' = [state EXCEPT !.readers = @ - 1]
        OBVIOUS
      <4> HIDE <2>Unlock DEF Unlock, Step
      <4>3. CASE state' = [state EXCEPT !.owner = FALSE]
        BY <2>0, <4>1, <4>3 DEF States
      <4>4. CASE state' = [state EXCEPT !.readers = @ - 1]
        BY <2>0, <4>1, <4>4 DEF States
      <4> QED BY <4>2, <4>3, <4>4
    <3>1. Wakes(state') \in {"idle", "wakeRead", "wakeWrite"}
      BY DEF Wakes
    <3>2. SleepersAreQueued'
      BY <2>0, <3>0, <3>1 DEF SleepersAreQueued, IInv, TypeOK
    <3>3. \A k \in Kinds : Waiting(k)' = Waiting(k)
      BY <3>0, <3>1 DEF Waiting, IInv, TypeOK
    <3>4. ~gaveUp' => NobodyGaveUp'
      BY <3>0, <3>1, <3>3 DEF NobodyGaveUp, IInv, TypeOK
    <3>5. ~gaveUp' => WakeIsDue'
      <4> SUFFICES ASSUME ~gaveUp, state'.readers = 0, \A u \in Threads : ~GoesOn(u)'
                   PROVE  /\ queue[First] # <<>> => Waking(First)'
                          /\ queue[Second] # <<>> => queue[First] # <<>> \/ Waking(Second)'
        BY DEF WakeIsDue, First, Second
      <4>1. ASSUME state.waiters[First] PROVE queue[First] # <<>>
        <5>1. PICK u \in Threads : u \in Waiting(First) /\ pc[u] # "timedOut"
          BY <4>1, <2>1 DEF NobodyGaveUp, Waiting, First
        <5>2. pc[u] # "woken"
          BY <3>0, <5>1 DEF GoesOn, Waiting, First, IInv, TypeOK
        <5>3. u \in Range(queue[First])
          BY <5>1, <5>2 DEF Waiting, SleepersAreQueued
        <5> QED BY <2>0, <2>1, <5>3
      <4>2. pc'[t] = IF state.waiters[First]
                       THEN IF First = "read" THEN "wakeRead" ELSE "wakeWrite"
                     ELSE IF state.waiters[Second]
                       THEN IF Second = "read" THEN "wakeRead" ELSE "wakeWrite"
                     ELSE "idle"
        BY <2>0, <3>0 DEF Wakes, First, Second, IInv, TypeOK
      <4>3. \A k \in Kinds : queue[k] # <<>> => state.waiters[k]
        BY DEF IInv, SleeperHasBit
      <4>4. ASSUME NEW k \in Kinds, pc'[t] = IF k = "read" THEN "wakeRead" ELSE "wakeWrite"
            PROVE  Waking(k)'
        BY <4>4 DEF Waking
      <4>e. First' = First /\ Second' = Second
        BY DEF First, Second
      <4> HIDE <2>Unlock DEF Unlock, Step
      <4>5. ASSUME queue[First] # <<>> PROVE Waking(First)'
        BY <2>1, <4>2, <4>3, <4>4, <4>5, <4>e
      <4>6. ASSUME queue[Second] # <<>>, queue[First] = <<>> PROVE Waking(Second)'
        BY <2>1, <4>1, <4>2, <4>3, <4>4, <4>6, <4>e
      <4> QED BY <4>5, <4>6
    <3> QED BY <3>2, <3>4, <3>5
  <2>WakeWriter. ASSUME NEW t \in Threads, WakeWriter(t)
    PROVE  WakeIInv'
    <3> USE <2>WakeWriter DEF WakeWriter, Step
    <3>1. CASE queue["write"] = <<>>
      <4>1. SleepersAreQueued'
        BY <2>0, <3>1 DEF SleepersAreQueued, IInv, TypeOK
      <4>2. ~gaveUp' => NobodyGaveUp'
        <5>1. \A k \in Kinds : Waiting(k)' = Waiting(k)
          BY <3>1 DEF Waiting, IInv, TypeOK
        <5>2. \A u \in Threads : pc'[u] = "timedOut" => pc[u] = "timedOut"
          BY <3>1 DEF IInv, TypeOK
        <5> QED BY <5>1, <5>2 DEF NobodyGaveUp
      <4>3. ~gaveUp' => WakeIsDue'
        BY <2>0, <3>1 DEF WakeIsDue, GoesOn, Waking, First, Second, IInv, TypeOK
      <4> QED BY <4>1, <4>2, <4>3
    <3>2. CASE queue["write"] # <<>>
      <4>1. PICK h \in Range(queue["write"]) :
               /\ h = Head(queue["write"])
               /\ Range(Tail(queue["write"])) = Range(queue["write"]) \ {h}
        BY <2>0, <3>2, QueueFacts DEF Kinds
      <4>2. h \in Threads /\ pc[h] = "asleep" /\ call[h].kind = "write"
        BY <2>0, <4>1 DEF Kinds
      <4>3. pc' = [pc EXCEPT ![t] = "idle", ![h] = "woken"]
        BY <3>2, <4>1
      <4>4. \A k \in Kinds : Range(queue'[k]) = IF k = "write" THEN Range(queue[k]) \ {h} ELSE Range(queue[k])
        BY <3>2, <4>1 DEF IInv, TypeOK
      <4>5. SleepersAreQueued'
        <5> SUFFICES ASSUME NEW u \in Threads, pc'[u] = "asleep"
                     PROVE  u \in Range(queue'[call[u].kind])
          BY DEF SleepersAreQueued
        <5>1. u # h /\ pc[u] = "asleep" /\ call[u].kind \in Kinds
          BY <2>0, <4>2, <4>3 DEF IInv, TypeOK
        <5> QED BY <4>4, <5>1 DEF SleepersAreQueued
      <4>6. \A k \in Kinds : Waiting(k)' = Waiting(k)
        BY <4>2, <4>3 DEF Waiting, IInv, TypeOK
      <4>7. ~gaveUp' => NobodyGaveUp'
        BY <4>2, <4>3, <4>6 DEF NobodyGaveUp, IInv, TypeOK
      <4>8. GoesOn(h)'
        <5>1. pc'[h] = "woken" /\ call'[h] = call[h]
          BY <4>2, <4>3 DEF IInv, TypeOK
        <5> HIDE <2>WakeWriter DEF WakeWriter, Step
        <5> QED BY <4>2, <5>1 DEF GoesOn
      <4>9. WakeIsDue'
        <5>1. \E u \in Threads : GoesOn(u)'
          <6> HIDE <2>WakeWriter DEF WakeWriter, Step
          <6> QED BY <4>2, <4>8
        <5> QED BY <5>1 DEF WakeIsDue
      <4> QED BY <4>5, <4>7, <4>9
    <3> QED BY <3>1, <3>2
  <2>WakeReaders. ASSUME NEW t \in Threads, WakeReaders(t)
    PROVE  WakeIInv'
    <3> USE <2>WakeReaders DEF WakeReaders, Step
    <3>1. /\ \A u \in Threads : pc'[u] = IF u = t THEN "idle"
                                         ELSE IF u \in Range(queue["read"]) THEN "woken" ELSE pc[u]
          /\ queue'["read"] = <<>> /\ queue'["write"] = queue["write"] /\ "read" \in Kinds
      BY DEF IInv, TypeOK, Kinds
    <3>2. SleepersAreQueued'
      BY <2>0, <3>1 DEF SleepersAreQueued, Kinds
    <3>3. \A k \in Kinds : Waiting(k)' = Waiting(k)
      BY <2>0, <3>1 DEF Waiting
    <3>4. ~gaveUp' => NobodyGaveUp'
      BY <3>1, <3>3 DEF NobodyGaveUp
    <3>5. ~gaveUp' => WakeIsDue'
      <4>1. CASE queue["read"] # <<>> /\ preferReader
        <5>1. PICK u \in Threads : u \in Range(queue["read"]) /\ u # t
          BY <2>0, <3>1, <4>1
        <5>2. GoesOn(u)'
          BY <2>0, <3>1, <4>1, <5>1 DEF GoesOn
        <5> QED BY <5>1, <5>2 DEF WakeIsDue
      <4>2. CASE queue["read"] = <<>> \/ ~preferReader
        <5>1. \A u \in Threads : GoesOn(u) => GoesOn(u)'
          BY <2>0, <3>1 DEF GoesOn
        <5>2. Waking("write") => Waking("write")'
          BY <2>0, <3>1 DEF Waking
        <5>3. First' = First /\ Second' = Second
          BY DEF First, Second
        <5> QED BY <3>1, <4>2, <5>1, <5>2, <5>3 DEF WakeIsDue, First, Second
      <4> QED BY <4>1, <4>2
    <3> QED BY <3>2, <3>4, <3>5
  <2> QED
    BY <2>Begin, <2>Enter, <2>TooManyReaders, <2>Block, <2>TimeOut, <2>Leave, <2>Unlock,
       <2>WakeWriter, <2>WakeReaders DEF Next
<1>3. WakeIInv /\ UNCHANGED vars => WakeIInv'
  BY DEF vars, WakeIInv, SleepersAreQueued, NobodyGaveUp, Waiting, WakeIsDue, GoesOn, Waking,
         First, Second
<1>4. IInv /\ WakeIInv /\ [Next]_vars => WakeIInv'
  BY <1>2, <1>3
<1> QED BY <1>1, <1>4, Invariance, PTL DEF Spec

\* No wakeup of a urwlock is lost, for any number of threads and readers: while it
\* is free and nobody is inside a call, nobody sleeps for it for good, unless a
\* thread that an unlock may have chosen to wake had given up.
THEOREM NoWaiterIsStranded == Spec => []NoStrandedWaiter
<1>1. IInv /\ WakeIInv => NoStrandedWaiter
  <2> SUFFICES ASSUME IInv, WakeIInv, ~gaveUp, ~state.owner, state.readers = 0,
                      \A u \in Threads : pc[u] = "idle" \/ pc[u] = "asleep",
                      NEW t \in Threads, pc[t] = "asleep"
               PROVE  FALSE
    BY DEF NoStrandedWaiter, WaitersGoOn
  <2>1. queue[call[t].kind] # <<>> /\ call[t].kind \in Kinds
    BY DEF WakeIInv, SleepersAreQueued, Range, IInv, TypeOK, Calls
  <2>2. ~Waking(First) /\ ~Waking(Second) /\ \A u \in Threads : ~GoesOn(u)
    BY DEF Waking, GoesOn
  <2>3. queue[First] = <<>> /\ queue[Second] = <<>>
    BY <2>2 DEF WakeIInv, WakeIsDue
  <2> QED BY <2>1, <2>3 DEF First, Second, Kinds
<1> QED BY <1>1, Invariance, WakeInvariance, PTL
=============================================================================
