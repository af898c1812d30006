--------------------------- MODULE EventFlag_proofs ---------------------------
(***************************************************************************)
(* Proofs about EventFlag, for any threads, bits, wait modes, handles and  *)
(* number of cancellations.                                                *)
(***************************************************************************)
EXTENDS EventFlag, TLAPS, SequenceTheorems

\* Membership in a list, and a list without repetitions.
In(u, q) == \E i \in 1..Len(q) : q[i] = u
Distinct(q) == \A i, j \in 1..Len(q) : q[i] = q[j] => i = j

\* What removeWaiter leaves: a list of all but one waiter, in which every entry
\* stood in the old one, at or behind its place.
LEMMA EraseFacts ==
    ASSUME NEW S, NEW q \in Seq(S), NEW i \in 1..Len(q), Distinct(q)
    PROVE  /\ Erase(q, i) \in Seq(S)
           /\ Len(Erase(q, i)) = Len(q) - 1
           /\ Distinct(Erase(q, i))
           /\ \A u : In(u, Erase(q, i)) <=> In(u, q) /\ u # q[i]
<1> DEFINE r == Erase(q, i)
           New(j) == IF j < i THEN j ELSE j - 1
           Old(j) == IF j < i THEN j ELSE j + 1
<1>1. Len(q) \in Nat /\ q \in [1..Len(q) -> S]
  BY LenProperties
<1>2. /\ Len(q) - 1 \in Nat
      /\ \A j \in 1..(Len(q) - 1) : (IF j < i THEN q[j] ELSE q[j + 1]) \in S
  BY <1>1
<1>3. r \in Seq(S)
  BY <1>2, IsASeq DEF Erase
<1>4. /\ Len(r) = Len(q) - 1
      /\ \A j \in 1..(Len(q) - 1) : r[j] = IF j < i THEN q[j] ELSE q[j + 1]
  BY <1>2, <1>3 DEF Erase
<1> HIDE DEF r
<1>5. \A j \in 1..Len(r) : Old(j) \in 1..Len(q) /\ Old(j) # i /\ r[j] = q[Old(j)]
  BY <1>1, <1>4
<1>6. \A j \in 1..Len(q) : j # i => New(j) \in 1..Len(r) /\ Old(New(j)) = j
  BY <1>1, <1>4
<1>7. \A j, k \in 1..Len(r) : Old(j) = Old(k) => j = k
  BY <1>1, <1>4
<1> HIDE DEF Old, New
<1>8. Distinct(r)
  BY <1>5, <1>7 DEF Distinct
<1>9. ASSUME NEW u, In(u, r)
      PROVE  In(u, q) /\ u # q[i]
  BY <1>5, <1>9 DEF In, Distinct
<1>10. ASSUME NEW u, In(u, q), u # q[i]
       PROVE  In(u, r)
  BY <1>5, <1>6, <1>10 DEF In
<1> QED BY <1>3, <1>4, <1>8, <1>9, <1>10 DEF r

\* The pattern a wait leaves is part of the one it found, and a condition that a
\* pattern does not meet is not met by a part of it.
LEMMA LessMeetsLess ==
    ASSUME NEW have, NEW bits, NEW mode
    PROVE  /\ Consume(have, bits, mode) \subseteq have
           /\ \A less, b, m : less \subseteq have /\ ~IsSatisfied(have, b, m)
                                 => ~IsSatisfied(less, b, m)
BY DEF Consume, IsSatisfied

-----------------------------------------------------------------------------
\* The setter, and nobody else, holds the mutex between steps, with its place
\* inside the list or just behind it.
Holder ==
    /\ \A t \in Threads : pc[t] = "set" <=> mutex = t
    /\ mutex # NoThread => it \in 1..(Len(list) + 1)

\* No wait was begun in a generation that is yet to come.
Generations == \A t \in Threads : node[t].generation <= cancelGeneration

\* The loop invariant of sceKernelSetEventFlag: a waiter of this generation that
\* the walk has passed is satisfied, or what is left of the pattern does not
\* meet its condition.
Scanned ==
    \A i \in 1..Len(list) :
        /\ mutex = NoThread \/ i < it
        /\ ~node[list[i]].satisfied
        /\ node[list[i]].generation = cancelGeneration
        => ~IsSatisfied(pattern, node[list[i]].bits, node[list[i]].mode)

\* Whoever is inside sceKernelDeleteEventFlag has marked the flag.
DeletersMark == \A t \in Threads : pc[t] \in {"delete", "retire"} => deleted

IInv == /\ TypeOK /\ Holder /\ Generations /\ ListIsWaiters /\ Scanned
        /\ DeliveryMeetsCondition /\ DeletersMark /\ DeletedIsQuiet

\* The invariant holds in every reachable state.
LEMMA Invariance == Spec => []IInv
<1>1. Init => IInv
  <2> SUFFICES ASSUME Init PROVE IInv
    OBVIOUS
  <2> USE ThreadsAssumption, ModesAssumption, CancelsAssumption, HandlesAssumption DEF Init
  <2>1. TypeOK
    <3>1. NoNode \in Nodes
      BY DEF NoNode, Nodes
    <3>2. list \in Seq(Threads)
      OBVIOUS
    <3>3. /\ pattern \in SUBSET Bits
          /\ multipleWaiters \in BOOLEAN /\ shared \in BOOLEAN /\ deleted \in BOOLEAN
      OBVIOUS
    <3>6. /\ waiters \in Nat /\ cancelGeneration \in 0..MaxCancels
          /\ mutex \in Threads \cup {NoThread} /\ it \in Nat
      OBVIOUS
    <3>5. /\ eventFlagRegistry \subseteq Handles /\ opened \subseteq Opens
          /\ asleep \subseteq Threads
          /\ result \in {"none", "OK", "EACCES", "ECANCELED", "ETIMEDOUT"}
      BY DEF Handles
    <3>4. /\ pc \in [Threads -> {"idle", "resolved", "set", "wait", "delete", "retire"}]
          /\ entry \in [Threads -> Handles \cup {NoHandle}]
          /\ node \in [Threads -> Nodes]
      BY <3>1
    <3> QED BY <3>2, <3>3, <3>4, <3>5, <3>6 DEF TypeOK
  <2>2. Holder /\ Scanned /\ DeletersMark /\ DeletedIsQuiet
    BY DEF Holder, Scanned, DeletersMark, DeletedIsQuiet
  <2>3. Generations /\ DeliveryMeetsCondition
    BY DEF Generations, DeliveryMeetsCondition, NoNode
  <2>4. ListIsWaiters
    BY DEF ListIsWaiters
  <2> QED BY <2>1, <2>2, <2>3, <2>4 DEF IInv
\* Every action preserves the invariant.  Outside the list, the walk and the
\* nodes an action can only move threads between the other places of a call.
<1>2. IInv /\ [Next]_vars => IInv'
  <2> SUFFICES ASSUME IInv, [Next]_vars PROVE IInv'
    OBVIOUS
  <2> USE ThreadsAssumption, ModesAssumption, CancelsAssumption, HandlesAssumption DEF IInv
  <2>1. ASSUME UNCHANGED <<flag, mutex, it, node>>, TypeOK',
               \A u \in Threads : /\ pc'[u] = "set" <=> pc[u] = "set"
                                  /\ pc'[u] = "wait" <=> pc[u] = "wait"
        PROVE  /\ Holder' /\ Generations' /\ ListIsWaiters' /\ Scanned'
               /\ DeliveryMeetsCondition'
    <3> USE <2>1 DEF flag
    <3>1. Holder'
      BY DEF Holder
    <3>2. Generations' /\ DeliveryMeetsCondition'
      BY DEF Generations, DeliveryMeetsCondition
    <3>3. ListIsWaiters'
      BY DEF ListIsWaiters
    <3>4. Scanned'
      BY DEF Scanned
    <3> QED BY <3>1, <3>2, <3>3, <3>4
  <2>Stutter. CASE UNCHANGED vars
    BY <2>Stutter DEF vars, flag, registry, TypeOK, Holder, Generations, ListIsWaiters,
       Scanned, DeliveryMeetsCondition, DeletersMark, DeletedIsQuiet
  <2>Open. ASSUME NEW t \in Threads, NEW h \in Handles, Open(t, h), result' = "none"
    PROVE  IInv'
    <3> USE <2>Open DEF Open
    <3>1. TypeOK'
      BY DEF TypeOK, flag, Handles
    <3>2. DeletersMark' /\ DeletedIsQuiet'
      BY DEF TypeOK, flag, DeletersMark, DeletedIsQuiet
    <3> QED BY <2>1, <3>1, <3>2
  <2>Resolve. ASSUME NEW t \in Threads, NEW h \in Handles, Resolve(t, h), result' = "none"
    PROVE  IInv'
    <3> USE <2>Resolve DEF Resolve, Step
    <3>1. TypeOK'
      BY DEF TypeOK, flag, registry
    <3>2. DeletersMark' /\ DeletedIsQuiet'
      BY DEF TypeOK, flag, registry, DeletersMark, DeletedIsQuiet
    <3>3. \A u \in Threads : (pc'[u] = "set" <=> pc[u] = "set") /\ (pc'[u] = "wait" <=> pc[u] = "wait")
      BY DEF TypeOK
    <3> QED BY <2>1, <3>1, <3>2, <3>3
  <2>Refuse. ASSUME NEW t \in Threads, Refuse(t), result' = "none"
    PROVE  IInv'
    <3> USE <2>Refuse DEF Refuse, Step
    <3>1. TypeOK'
      BY DEF TypeOK, flag, registry
    <3>2. DeletersMark' /\ DeletedIsQuiet'
      BY DEF TypeOK, flag, registry, DeletersMark, DeletedIsQuiet
    <3>3. \A u \in Threads : (pc'[u] = "set" <=> pc[u] = "set") /\ (pc'[u] = "wait" <=> pc[u] = "wait")
      BY DEF TypeOK
    <3> QED BY <2>1, <3>1, <3>2, <3>3
  <2>Close. ASSUME NEW t \in Threads, Close(t), result' = "none"
    PROVE  IInv'
    <3> USE <2>Close DEF Close, Step
    <3>1. TypeOK'
      BY DEF TypeOK, flag
    <3>2. DeletersMark' /\ DeletedIsQuiet'
      BY DEF TypeOK, flag, DeletersMark, DeletedIsQuiet, Handles
    <3>3. \A u \in Threads : (pc'[u] = "set" <=> pc[u] = "set") /\ (pc'[u] = "wait" <=> pc[u] = "wait")
      BY DEF TypeOK
    <3> QED BY <2>1, <3>1, <3>2, <3>3
  <2>Delete. ASSUME NEW t \in Threads, Delete(t), result' = "none"
    PROVE  IInv'
    <3> USE <2>Delete DEF Delete, Step, Locked
    <3>1. TypeOK'
      BY DEF TypeOK, registry
    <3>2. DeletersMark' /\ DeletedIsQuiet'
      BY DEF TypeOK, registry, DeletersMark, DeletedIsQuiet
    <3>3. Holder'
      BY DEF TypeOK, Holder
    <3>4. Generations' /\ DeliveryMeetsCondition' /\ Scanned'
      BY DEF Generations, DeliveryMeetsCondition, Scanned
    <3>5. ListIsWaiters'
      BY DEF TypeOK, ListIsWaiters
    <3> QED BY <3>1, <3>2, <3>3, <3>4, <3>5
  <2>SleepAgain. ASSUME NEW t \in Threads, SleepAgain(t), result' = "none"
    PROVE  IInv'
    <3> USE <2>SleepAgain DEF SleepAgain
    <3>1. TypeOK'
      BY DEF TypeOK, flag, registry
    <3>2. DeletersMark' /\ DeletedIsQuiet'
      BY DEF flag, registry, DeletersMark, DeletedIsQuiet
    <3> QED BY <2>1, <3>1, <3>2
  <2>DeleteWaited. ASSUME NEW t \in Threads, DeleteWaited(t), result' = "none"
    PROVE  IInv'
    <3> USE <2>DeleteWaited DEF DeleteWaited, Step
    <3>1. TypeOK'
      BY DEF TypeOK, flag, registry
    <3>2. \A u \in Threads : (pc'[u] = "set" <=> pc[u] = "set") /\ (pc'[u] = "wait" <=> pc[u] = "wait")
      BY DEF TypeOK
    <3>3. deleted /\ DeletersMark'
      BY DEF TypeOK, flag, DeletersMark
    <3>4. Len(list) = 0 /\ \A u \in Threads : pc[u] # "wait"
      BY LenProperties DEF TypeOK, MayReturn, ListIsWaiters
    <3>5. DeletedIsQuiet'
      BY <3>2, <3>3, <3>4 DEF TypeOK, flag, DeletedIsQuiet
    <3> QED BY <2>1, <3>1, <3>2, <3>3, <3>5
  <2>Retire. ASSUME NEW t \in Threads, Retire(t), result' = "none"
    PROVE  IInv'
    <3> USE <2>Retire DEF Retire, Step
    <3>1. TypeOK'
      BY DEF TypeOK, flag
    <3>2. \A u \in Threads : (pc'[u] = "set" <=> pc[u] = "set") /\ (pc'[u] = "wait" <=> pc[u] = "wait")
      BY DEF TypeOK
    <3>3. DeletersMark' /\ DeletedIsQuiet'
      BY <3>2 DEF TypeOK, flag, DeletersMark, DeletedIsQuiet
    <3> QED BY <2>1, <3>1, <3>2, <3>3
  <2>Clear. ASSUME NEW t \in Threads, NEW bits \in SUBSET Bits, Clear(t, bits), result' = "none"
    PROVE  IInv'
    <3> USE <2>Clear DEF Clear, Step, Locked
    <3>1. TypeOK'
      BY DEF TypeOK, registry
    <3>2. Holder'
      BY DEF TypeOK, Holder
    <3>3. Generations' /\ DeliveryMeetsCondition'
      BY DEF Generations, DeliveryMeetsCondition
    <3>4. ListIsWaiters'
      BY DEF TypeOK, ListIsWaiters
    <3>5. Scanned'
      BY LessMeetsLess DEF Scanned
    <3>6. DeletersMark' /\ DeletedIsQuiet'
      BY DEF TypeOK, registry, DeletersMark, DeletedIsQuiet
    <3> QED BY <3>1, <3>2, <3>3, <3>4, <3>5, <3>6
  <2>Take. ASSUME NEW t \in Threads, NEW bits \in SUBSET Bits, NEW mode \in WaitModes,
                  Take(t, bits, mode), result' = "none"
    PROVE  IInv'
    <3> USE <2>Take DEF Take, Step, Locked
    <3>1. TypeOK'
      BY LessMeetsLess DEF TypeOK, registry
    <3>2. Holder'
      BY DEF TypeOK, Holder
    <3>3. Generations' /\ DeliveryMeetsCondition'
      BY DEF Generations, DeliveryMeetsCondition
    <3>4. ListIsWaiters'
      BY DEF TypeOK, ListIsWaiters
    <3>5. Scanned'
      BY LessMeetsLess DEF Scanned
    <3>6. DeletersMark' /\ DeletedIsQuiet'
      BY DEF TypeOK, registry, DeletersMark, DeletedIsQuiet
    <3> QED BY <3>1, <3>2, <3>3, <3>4, <3>5, <3>6
  <2>Set. ASSUME NEW t \in Threads, NEW bits \in SUBSET Bits, Set(t, bits), result' = "none"
    PROVE  IInv'
    <3> USE <2>Set DEF Set, Step, Locked
    <3>1. TypeOK'
      BY DEF TypeOK, registry
    <3>2. Holder'
      BY LenProperties DEF TypeOK, Holder
    <3>3. Generations' /\ DeliveryMeetsCondition'
      BY DEF Generations, DeliveryMeetsCondition
    <3>4. ListIsWaiters'
      BY DEF TypeOK, ListIsWaiters
    <3>5. Scanned'
      BY DEF Scanned
    <3>6. DeletersMark' /\ DeletedIsQuiet'
      BY DEF TypeOK, registry, DeletersMark, DeletedIsQuiet
    <3> QED BY <3>1, <3>2, <3>3, <3>4, <3>5, <3>6
  <2>Cancel. ASSUME NEW t \in Threads, NEW bits \in SUBSET Bits, Cancel(t, bits), result' = "none"
    PROVE  IInv'
    <3> USE <2>Cancel DEF Cancel, Step, Locked
    <3>1. TypeOK'
      BY DEF TypeOK, registry
    <3>2. Holder'
      BY DEF TypeOK, Holder
    <3>3. Generations' /\ DeliveryMeetsCondition'
      BY DEF TypeOK, Nodes, Generations, DeliveryMeetsCondition
    <3>4. ListIsWaiters'
      BY DEF TypeOK, ListIsWaiters
    <3>5. Scanned'
      <4>1. \A i \in 1..Len(list) : node[list[i]].generation # cancelGeneration'
        BY ElementOfSeq DEF TypeOK, Nodes, Generations
      <4> QED BY <4>1 DEF Scanned
    <3>6. DeletersMark' /\ DeletedIsQuiet'
      BY DEF TypeOK, registry, DeletersMark, DeletedIsQuiet
    <3> QED BY <3>1, <3>2, <3>3, <3>4, <3>5, <3>6
  <2>SetDone. ASSUME NEW t \in Threads, SetDone(t), result' = "none"
    PROVE  IInv'
    <3> USE <2>SetDone DEF SetDone, Step, flag
    <3>1. TypeOK'
      BY DEF TypeOK, registry
    <3>2. Holder'
      BY DEF TypeOK, Holder
    <3>3. Generations' /\ DeliveryMeetsCondition'
      BY DEF Generations, DeliveryMeetsCondition
    <3>4. ListIsWaiters'
      BY DEF TypeOK, ListIsWaiters
    <3>5. Scanned'
      <4>1. \A i \in 1..Len(list) : i < it
        BY LenProperties DEF TypeOK
      <4> QED BY <4>1 DEF Scanned
    <3>6. DeletersMark' /\ DeletedIsQuiet'
      BY DEF TypeOK, registry, DeletersMark, DeletedIsQuiet
    <3> QED BY <3>1, <3>2, <3>3, <3>4, <3>5, <3>6
  <2>PassOver. ASSUME NEW t \in Threads, PassOver(t), result' = "none"
    PROVE  IInv'
    <3> USE <2>PassOver DEF PassOver, flag
    <3>1. TypeOK'
      BY DEF TypeOK, registry
    <3>2. Holder'
      BY LenProperties DEF TypeOK, Holder
    <3>3. Generations' /\ DeliveryMeetsCondition' /\ ListIsWaiters'
      BY DEF Generations, DeliveryMeetsCondition, ListIsWaiters
    <3>4. Scanned'
      <4>1. mutex = t /\ it \in 1..Len(list)
        BY LenProperties DEF TypeOK, Holder
      <4>2. \A i \in 1..Len(list) : i < it' => i < it \/ i = it
        BY <4>1, LenProperties DEF TypeOK
      <4> QED BY <4>1, <4>2 DEF Scanned
    <3>5. DeletersMark' /\ DeletedIsQuiet'
      BY DEF registry, DeletersMark, DeletedIsQuiet
    <3> QED BY <3>1, <3>2, <3>3, <3>4, <3>5
  <2>Deliver. ASSUME NEW t \in Threads, Deliver(t), result' = "none"
    PROVE  IInv'
    <3> DEFINE w == list[it]
    <3> USE <2>Deliver
    <3>0. /\ pc[t] = "set" /\ mutex = t /\ it \in 1..Len(list)
          /\ ~node[w].satisfied /\ IsSatisfied(pattern, node[w].bits, node[w].mode)
          /\ pattern' = Consume(pattern, node[w].bits, node[w].mode)
          /\ node' = [node EXCEPT ![w] = Delivered(@)]
          /\ it' = it + 1
          /\ UNCHANGED <<multipleWaiters, shared, deleted, waiters, cancelGeneration,
                         list, registry, mutex, asleep, pc, entry>>
      BY LenProperties DEF Deliver, TypeOK, Holder
    <3>1. w \in Threads /\ node[w] \in Nodes
      BY <3>0, ElementOfSeq DEF TypeOK
    <3>2. /\ Delivered(node[w]) \in Nodes
          /\ Delivered(node[w]).satisfied /\ Delivered(node[w]).resultPattern = pattern
          /\ Delivered(node[w]).bits = node[w].bits /\ Delivered(node[w]).mode = node[w].mode
          /\ Delivered(node[w]).generation = node[w].generation
      BY <3>1 DEF Delivered, Nodes, TypeOK
    <3>3. \A u \in Threads : node'[u] = IF u = w THEN Delivered(node[w]) ELSE node[u]
      BY <3>0, <3>1 DEF TypeOK
    <3> HIDE DEF w
    <3>4. TypeOK'
      <4>1. pattern' \in SUBSET Bits
        BY <3>0, LessMeetsLess DEF TypeOK
      <4>2. node' \in [Threads -> Nodes] /\ it' \in Nat
        BY <3>0, <3>2 DEF TypeOK, w
      <4> QED BY <2>Deliver, <3>0, <4>1, <4>2 DEF TypeOK, registry
    <3>5. Holder'
      BY <3>0, LenProperties DEF TypeOK, Holder
    <3>6. Generations' /\ DeliveryMeetsCondition'
      BY <3>0, <3>2, <3>3 DEF Generations, DeliveryMeetsCondition
    <3>7. ListIsWaiters'
      BY <3>0 DEF ListIsWaiters
    <3>8. Scanned'
      <4> SUFFICES ASSUME NEW i \in 1..Len(list), i < it',
                          ~node'[list[i]].satisfied,
                          node'[list[i]].generation = cancelGeneration
                   PROVE  ~IsSatisfied(pattern', node'[list[i]].bits, node'[list[i]].mode)
        BY <3>0, ThreadsAssumption DEF Scanned, Holder
      <4>1. list[i] \in Threads /\ list[i] # w
        BY <3>2, <3>3, ElementOfSeq DEF TypeOK
      <4>2. i < it /\ node'[list[i]] = node[list[i]]
        BY <3>0, <3>3, <4>1, LenProperties DEF TypeOK, w
      <4>3. ~IsSatisfied(pattern, node[list[i]].bits, node[list[i]].mode)
        BY <4>2 DEF Scanned
      <4>4. pattern' \subseteq pattern
        BY <3>0, LessMeetsLess
      <4> QED BY <4>2, <4>3, <4>4, LessMeetsLess
    <3>9. DeletersMark' /\ DeletedIsQuiet'
      BY <3>0 DEF registry, DeletersMark, DeletedIsQuiet
    <3> QED BY <3>4, <3>5, <3>6, <3>7, <3>8, <3>9
  <2>Block. ASSUME NEW t \in Threads, NEW bits \in SUBSET Bits, NEW mode \in WaitModes,
                   NEW timed \in BOOLEAN, Block(t, bits, mode, timed), result' = "none"
    PROVE  IInv'
    <3> DEFINE n == [bits |-> bits, mode |-> mode, satisfied |-> FALSE, resultPattern |-> {},
                     generation |-> cancelGeneration, timed |-> timed]
    <3> USE <2>Block
    <3>0. /\ pc[t] = "resolved" /\ mutex = NoThread /\ ~deleted /\ MayWait
          /\ ~IsSatisfied(pattern, bits, mode)
          /\ list' = Append(list, t) /\ waiters' = waiters + 1
          /\ node' = [node EXCEPT ![t] = n] /\ asleep' = asleep \cup {t}
          /\ pc' = [pc EXCEPT ![t] = "wait"]
          /\ UNCHANGED <<pattern, multipleWaiters, shared, deleted, cancelGeneration,
                         registry, mutex, it, entry>>
      BY DEF Block, Step, Locked, Enlist
    <3>1. /\ n \in Nodes /\ ~n.satisfied /\ n.bits = bits /\ n.mode = mode
          /\ n.generation = cancelGeneration
      BY DEF TypeOK, Nodes
    <3> HIDE DEF n
    <3>2. /\ Len(list) \in Nat /\ list' \in Seq(Threads) /\ Len(list') = Len(list) + 1
          /\ \A i \in 1..Len(list) : list'[i] = list[i]
          /\ list'[Len(list) + 1] = t
      BY <3>0, AppendProperties, LenProperties DEF TypeOK
    <3>3. TypeOK'
      BY <3>0, <3>1, <3>2 DEF TypeOK, registry
    <3>4. /\ \A u \in Threads : node'[u] = IF u = t THEN n ELSE node[u]
          /\ \A u \in Threads : pc'[u] = IF u = t THEN "wait" ELSE pc[u]
      BY <3>0 DEF TypeOK
    <3>5. \A i \in 1..Len(list) : list[i] \in Threads /\ list[i] # t
      BY <3>0, ElementOfSeq DEF TypeOK, ListIsWaiters
    <3>6. Holder'
      BY <3>0, <3>4 DEF Holder
    <3>7. Generations' /\ DeliveryMeetsCondition'
      BY <3>0, <3>1, <3>4 DEF TypeOK, Nodes, Generations, DeliveryMeetsCondition
    <3>8. ListIsWaiters'
      <4>1. \A i, j \in 1..Len(list') : list'[i] = list'[j] => i = j
        BY <3>2, <3>5 DEF ListIsWaiters
      <4>2. \A u \in Threads : (\E i \in 1..Len(list') : list'[i] = u) <=> pc'[u] = "wait"
        BY <3>2, <3>4 DEF ListIsWaiters
      <4>3. waiters' = Len(list') /\ (~multipleWaiters' => waiters' <= 1)
        BY <3>0, <3>2 DEF ListIsWaiters, MayWait
      <4> QED BY <4>1, <4>2, <4>3 DEF ListIsWaiters
    <3>9. Scanned'
      <4> SUFFICES ASSUME NEW i \in 1..Len(list'), ~node'[list'[i]].satisfied,
                          node'[list'[i]].generation = cancelGeneration
                   PROVE  ~IsSatisfied(pattern, node'[list'[i]].bits, node'[list'[i]].mode)
        BY <3>0 DEF Scanned
      <4>1. CASE i = Len(list) + 1
        BY <3>0, <3>1, <3>2, <3>4, <4>1
      <4>2. CASE i \in 1..Len(list)
        BY <3>0, <3>2, <3>4, <3>5, <4>2 DEF Scanned
      <4> QED BY <3>2, <4>1, <4>2
    <3>10. DeletersMark' /\ DeletedIsQuiet'
      BY <3>0, <3>4 DEF registry, DeletersMark, DeletedIsQuiet
    <3> QED BY <3>3, <3>6, <3>7, <3>8, <3>9, <3>10
  <2>WaitReturn. ASSUME NEW t \in Threads, WaitReturn(t)
    PROVE  IInv'
    <3> USE <2>WaitReturn
    <3>0. /\ pc[t] = "wait" /\ mutex = NoThread
          /\ result' = WaitResult(t) /\ RemoveWaiter(t) /\ waiters' = waiters - 1
          /\ asleep' = {} /\ node' = [node EXCEPT ![t] = NoNode]
          /\ pc' = [pc EXCEPT ![t] = "idle"] /\ entry' = [entry EXCEPT ![t] = NoHandle]
          /\ UNCHANGED <<pattern, multipleWaiters, shared, deleted, cancelGeneration,
                         registry, mutex, it>>
      BY DEF WaitReturn, Step
    <3>1. PICK p \in 1..Len(list) : list[p] = t /\ list' = Erase(list, p)
      BY <3>0 DEF RemoveWaiter
    <3>2. Len(list) \in Nat /\ list \in Seq(Threads) /\ Distinct(list)
      BY LenProperties DEF TypeOK, ListIsWaiters, Distinct
    <3>3. /\ list' \in Seq(Threads) /\ Len(list') = Len(list) - 1 /\ Distinct(list')
          /\ \A u : In(u, list') <=> In(u, list) /\ u # t
      BY <3>1, <3>2, EraseFacts
    <3>4. NoNode \in Nodes /\ ~NoNode.satisfied /\ NoNode.generation = 0
      BY DEF NoNode, Nodes
    <3>5. /\ \A u \in Threads : node'[u] = IF u = t THEN NoNode ELSE node[u]
          /\ \A u \in Threads : pc'[u] = IF u = t THEN "idle" ELSE pc[u]
      BY <3>0 DEF TypeOK
    <3>6. TypeOK'
      <4>1. waiters' \in Nat
        BY <3>0, <3>1, <3>2 DEF ListIsWaiters
      <4>2. result' \in {"none", "OK", "EACCES", "ECANCELED", "ETIMEDOUT"}
        BY <3>0 DEF WaitResult
      <4> QED BY <3>0, <3>3, <3>4, <4>1, <4>2 DEF TypeOK, registry
    <3>7. Holder'
      BY <3>0, <3>5 DEF Holder
    <3>8. Generations' /\ DeliveryMeetsCondition'
      BY <3>0, <3>4, <3>5 DEF TypeOK, Generations, DeliveryMeetsCondition
    <3>9. ListIsWaiters'
      <4>1. \A u \in Threads : In(u, list') <=> pc'[u] = "wait"
        BY <3>3, <3>5 DEF ListIsWaiters, In
      <4>2. waiters' = Len(list') /\ (~multipleWaiters' => waiters' <= 1)
        BY <3>0, <3>2, <3>3 DEF ListIsWaiters
      <4> QED BY <3>3, <4>1, <4>2 DEF ListIsWaiters, In, Distinct
    <3>10. Scanned'
      <4> SUFFICES ASSUME NEW i \in 1..Len(list'), ~node'[list'[i]].satisfied,
                          node'[list'[i]].generation = cancelGeneration
                   PROVE  ~IsSatisfied(pattern, node'[list'[i]].bits, node'[list'[i]].mode)
        BY <3>0 DEF Scanned
      <4>1. In(list'[i], list) /\ list'[i] # t
        BY <3>3 DEF In
      <4>2. PICK k \in 1..Len(list) : list[k] = list'[i]
        BY <4>1 DEF In
      <4>3. node'[list'[i]] = node[list[k]]
        BY <3>2, <3>5, <4>1, <4>2, ElementOfSeq
      <4> QED BY <3>0, <4>2, <4>3 DEF Scanned
    <3>11. DeletersMark' /\ DeletedIsQuiet'
      BY <3>0, <3>5 DEF registry, DeletersMark, DeletedIsQuiet
    <3> QED BY <3>6, <3>7, <3>8, <3>9, <3>10, <3>11
  <2> QED
    BY <2>Stutter, <2>Open, <2>Resolve, <2>Refuse, <2>Close, <2>Delete, <2>SleepAgain,
       <2>DeleteWaited, <2>Retire, <2>Clear, <2>Take, <2>Set, <2>Cancel, <2>SetDone,
       <2>PassOver, <2>Deliver, <2>Block, <2>WaitReturn
       DEF Next, Call, Walk, Resume
<1> QED BY <1>1, <1>2, PTL DEF Spec

-----------------------------------------------------------------------------
\* Whatever a set, its walk over the waiters, a cancellation or a wait that begins
\* do and in whatever order: when the mutex of the flag is free, nobody of the
\* current generation sleeps on a condition that the pattern meets.
THEOREM NobodyMissesASet == Spec => []NoMissedSet
<1>1. IInv => NoMissedSet
  <2> SUFFICES ASSUME IInv, mutex = NoThread, NEW t \in Threads, pc[t] = "wait",
                      ~node[t].satisfied, node[t].generation = cancelGeneration
               PROVE  ~IsSatisfied(pattern, node[t].bits, node[t].mode)
    BY DEF NoMissedSet
  <2>1. PICK i \in 1..Len(list) : list[i] = t
    BY DEF IInv, ListIsWaiters
  <2> QED BY <2>1 DEF IInv, Scanned
<1> QED BY <1>1, Invariance, PTL

\* The list links the nodes, which live on their waiters' stacks, of exactly the
\* threads inside a wait, and _waiters counts them.
THEOREM ListLinksTheWaiters == Spec => []ListIsWaiters
<1>1. IInv => ListIsWaiters
  BY DEF IInv
<1> QED BY <1>1, Invariance, PTL

\* The pattern a satisfied waiter will report meets the condition it waited for.
THEOREM DeliveriesAreReal == Spec => []DeliveryMeetsCondition
<1>1. IInv => DeliveryMeetsCondition
  BY DEF IInv
<1> QED BY <1>1, Invariance, PTL

\* One thread deletes, and nobody waits once the creator's handle is retired.
THEOREM DeletionIsFinal == Spec => []DeletedIsQuiet
<1>1. IInv => DeletedIsQuiet
  BY DEF IInv
<1> QED BY <1>1, Invariance, PTL

\* A wait that a set has satisfied never ends with a timeout.
THEOREM DeliveryBeatsTimeout == Spec => TimeoutKeepsDelivery
<1>1. IInv /\ [Next]_vars =>
        [\A t \in Threads : (pc[t] = "wait" /\ pc'[t] = "idle" /\ node[t].satisfied)
                               => result' # "ETIMEDOUT"]_vars
  <2> SUFFICES ASSUME IInv, Next, NEW t \in Threads, pc[t] = "wait", pc'[t] = "idle",
                      node[t].satisfied
               PROVE  result' # "ETIMEDOUT"
    OBVIOUS
  <2>1. CASE \E u \in Threads : WaitReturn(u)
    <3>1. PICK u \in Threads : WaitReturn(u)
      BY <2>1
    <3>2. u = t
      BY <3>1 DEF WaitReturn, Step, IInv, TypeOK
    <3> QED BY <3>1, <3>2 DEF WaitReturn, WaitResult
  <2>2. CASE result' = "none"
    BY <2>2
  <2> QED BY <2>1, <2>2 DEF Next
<1> QED BY <1>1, Invariance, PTL DEF Spec, TimeoutKeepsDelivery
=============================================================================
