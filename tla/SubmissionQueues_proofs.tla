----------------------- MODULE SubmissionQueues_proofs -----------------------
(***************************************************************************)
(* Proofs about the submission queues of the AGC driver, for any queues,   *)
(* title threads, labels, programs, submissions and depth of the pipeline. *)
(* A serial is in one place at a time and serials ascend from the pipeline *)
(* through a worker's hands to its list; until the driver halts, the words *)
(* the order is decided by say what the workers are at.                    *)
(***************************************************************************)
EXTENDS SubmissionQueues, TLAPS, FiniteSetTheorems, SequenceTheorems, WellFoundedInduction

-----------------------------------------------------------------------------
(* Lists and numbers.                                                      *)

\* A set of numbers that is not empty has a least one.
LEMMA LeastNumber ==
    ASSUME NEW S \in SUBSET Nat, S # {}
    PROVE  \E x \in S : \A y \in S : x <= y
<1> DEFINE R == OpToRel(<, Nat)
<1>1. IsWellFoundedOn(R, Nat)
  BY NatLessThanWellFounded
<1>2. \A x, y \in Nat : <<x, y>> \in R <=> x < y
  BY DEF OpToRel
<1> HIDE DEF R
<1>3. PICK x \in S : \A y \in S : ~(<<y, x>> \in R)
  BY <1>1, WFMin
<1>4. \A y \in S : x <= y
  <2> TAKE y \in S
  <2>1. y \in Nat /\ x \in Nat
    OBVIOUS
  <2>2. ~(y < x)
    BY <1>2, <1>3, <2>1, Zenon
  <2> QED BY <2>1, <2>2
<1> QED BY <1>4

\* A list that is not empty, its first element and the rest.
LEMMA FirstAndRest ==
    ASSUME NEW S, NEW q \in Seq(S), q # << >>
    PROVE  /\ Len(q) \in Nat /\ Len(q) >= 1
           /\ Head(q) = q[1] /\ Head(q) \in S
           /\ Tail(q) \in Seq(S) /\ Len(Tail(q)) = Len(q) - 1
           /\ \A i \in 1..Len(Tail(q)) : Tail(q)[i] = q[i + 1]
<1>1. Len(q) \in Nat /\ Len(q) # 0
  BY EmptySeq, LenProperties
<1>2. /\ Tail(q) \in Seq(S) /\ Len(Tail(q)) = Len(q) - 1
      /\ \A i \in 1..Len(Tail(q)) : Tail(q)[i] = q[i + 1]
  BY <1>1, HeadTailProperties
<1>3. Head(q) = q[1] /\ Head(q) \in S
  BY HeadTailProperties
<1> QED BY <1>1, <1>2, <1>3

\* A list with one element more.
LEMMA OneMore ==
    ASSUME NEW S, NEW q \in Seq(S), NEW e \in S
    PROVE  /\ Len(q) \in Nat
           /\ Append(q, e) \in Seq(S) /\ Len(Append(q, e)) = Len(q) + 1
           /\ Append(q, e)[Len(q) + 1] = e
           /\ \A i \in 1..Len(q) : Append(q, e)[i] = q[i]
BY AppendProperties, LenProperties

\* A list with its first element replaced.
LEMMA FirstReplaced ==
    ASSUME NEW S, NEW q \in Seq(S), q # << >>, NEW e \in S
    PROVE  LET r == <<e>> \o Tail(q)
           IN  /\ r \in Seq(S) /\ Len(r) = Len(q) /\ r[1] = e
               /\ \A i \in 2..Len(q) : r[i] = q[i]
<1> DEFINE b == Tail(q)
<1>1. /\ Len(q) \in Nat /\ Len(q) >= 1 /\ b \in Seq(S) /\ Len(b) = Len(q) - 1
      /\ \A i \in 1..Len(b) : b[i] = q[i + 1]
  BY FirstAndRest
<1> HIDE DEF b
<1>2. <<e>> \in Seq(S) /\ Len(<<e>>) = 1 /\ <<e>>[1] = e
  OBVIOUS
<1>3. /\ <<e>> \o b \in Seq(S) /\ Len(<<e>> \o b) = 1 + Len(b)
      /\ \A i \in 1..(1 + Len(b)) : (<<e>> \o b)[i] = IF i <= 1 THEN <<e>>[i] ELSE b[i - 1]
  BY <1>1, <1>2, ConcatProperties
<1>4. (<<e>> \o b)[1] = e
  BY <1>1, <1>2, <1>3
<1>5. \A i \in 2..Len(q) : (<<e>> \o b)[i] = q[i]
  <2> TAKE i \in 2..Len(q)
  <2>1. (<<e>> \o b)[i] = b[i - 1] /\ i - 1 \in 1..Len(b)
    BY <1>1, <1>3
  <2> QED BY <2>1, <1>1
<1> QED BY <1>1, <1>3, <1>4, <1>5 DEF b

\* A list from which one place is taken.
LEMMA PlaceTaken ==
    ASSUME NEW S, NEW q \in Seq(S), NEW k \in 1..Len(q)
    PROVE  /\ RemoveAt(q, k) \in Seq(S) /\ Len(RemoveAt(q, k)) = Len(q) - 1
           /\ \A j \in 1..(Len(q) - 1) : RemoveAt(q, k)[j] = IF j < k THEN q[j] ELSE q[j + 1]
<1> DEFINE a == SubSeq(q, 1, k - 1)
           b == SubSeq(q, k + 1, Len(q))
<1>0. Len(q) \in Nat
  BY LenProperties
<1>1. /\ a \in Seq(S) /\ Len(a) = k - 1
      /\ \A j \in 1..(k - 1) : a[j] = q[j]
  BY <1>0, SubSeqProperties
<1>2. /\ b \in Seq(S) /\ Len(b) = Len(q) - k
      /\ \A j \in 1..(Len(q) - k) : b[j] = q[k + j]
  BY <1>0, SubSeqProperties
<1> HIDE DEF a, b
<1>3. /\ a \o b \in Seq(S) /\ Len(a \o b) = Len(a) + Len(b)
      /\ \A j \in 1..(Len(a) + Len(b)) : (a \o b)[j] = IF j <= Len(a) THEN a[j] ELSE b[j - Len(a)]
  <2>1. a \in Seq(S) /\ b \in Seq(S)
    BY <1>1, <1>2
  <2> QED BY <2>1, ConcatProperties
<1>4. \A j \in 1..(Len(q) - 1) : (a \o b)[j] = IF j < k THEN q[j] ELSE q[j + 1]
  <2> TAKE j \in 1..(Len(q) - 1)
  <2>1. CASE j < k
    BY <2>1, <1>0, <1>1, <1>2, <1>3
  <2>2. CASE ~(j < k)
    <3>1. j - Len(a) \in 1..(Len(q) - k) /\ k + (j - Len(a)) = j + 1 /\ ~(j <= Len(a))
      BY <2>2, <1>0, <1>1
    <3>2. (a \o b)[j] = b[j - Len(a)]
      BY <3>1, <1>0, <1>1, <1>2, <1>3
    <3>3. b[j - Len(a)] = q[j + 1]
      BY <3>1, <1>2
    <3> QED BY <2>2, <3>2, <3>3
  <2> QED BY <2>1, <2>2
<1>5. Len(a \o b) = Len(q) - 1
  BY <1>0, <1>1, <1>2, <1>3
<1>6. RemoveAt(q, k) = a \o b
  BY DEF RemoveAt, a, b
<1> QED BY <1>3, <1>4, <1>5, <1>6

\* A list of numbers that ascends, and what is in a list.
AscendingList(q) == \A i, j \in 1..Len(q) : i < j => q[i] < q[j]
Elements(q) == {q[i] : i \in 1..Len(q)}

\* An element is taken from an ascending list, which stays so and has the others.
LEMMA LeastTaken ==
    ASSUME NEW q \in Seq(Nat), AscendingList(q), NEW n \in Elements(q)
    PROVE  /\ RemoveFirst(q, n) \in Seq(Nat)
           /\ AscendingList(RemoveFirst(q, n))
           /\ Elements(RemoveFirst(q, n)) = Elements(q) \ {n}
<1>0. Len(q) \in Nat /\ \A i \in 1..Len(q) : q[i] \in Nat
  BY LenProperties, ElementOfSeq
<1> DEFINE I == {i \in 1..Len(q) : q[i] = n}
<1>1. PICK k \in 1..Len(q) : q[k] = n
  BY DEF Elements
<1>2. I = {k}
  BY <1>0, <1>1 DEF AscendingList
<1>3. Min(I) = k
  BY <1>0, <1>2 DEF Min
<1>4. RemoveFirst(q, n) = RemoveAt(q, k)
  BY <1>1, <1>2, <1>3 DEF RemoveFirst, SelectInSeq
<1> DEFINE r == RemoveAt(q, k)
<1>5. /\ r \in Seq(Nat) /\ Len(r) = Len(q) - 1
      /\ \A j \in 1..(Len(q) - 1) : r[j] = IF j < k THEN q[j] ELSE q[j + 1]
  BY PlaceTaken
<1> HIDE DEF r
<1>6. ASSUME NEW j \in 1..Len(r)
      PROVE  \E x \in 1..Len(q) : r[j] = q[x] /\ ((x = j /\ j < k) \/ (x = j + 1 /\ j >= k))
  <2>1. j \in Nat /\ k \in Nat /\ j \in 1..(Len(q) - 1)
    BY <1>0, <1>5
  <2>2. CASE j < k
    <3>1. j \in 1..Len(q) /\ r[j] = q[j]
      BY <2>1, <2>2, <1>0, <1>5
    <3> QED BY <2>2, <3>1
  <2>3. CASE ~(j < k)
    <3>1. r[j] = q[j + 1]
      BY <2>1, <2>3, <1>5
    <3>2. j + 1 \in 1..Len(q) /\ j >= k
      BY <2>1, <2>3, <1>0
    <3> QED BY <3>1, <3>2
  <2> QED BY <2>2, <2>3
<1>7. AscendingList(r)
  <2> SUFFICES ASSUME NEW i \in 1..Len(r), NEW j \in 1..Len(r), i < j
               PROVE  r[i] < r[j]
    BY DEF AscendingList
  <2>1. Len(r) \in Nat
    BY <1>0, <1>5
  <2>2. PICK x \in 1..Len(q) : r[i] = q[x] /\ ((x = i /\ i < k) \/ (x = i + 1 /\ i >= k))
    BY <1>6
  <2>3. PICK y \in 1..Len(q) : r[j] = q[y] /\ ((y = j /\ j < k) \/ (y = j + 1 /\ j >= k))
    BY <1>6
  <2>4. x < y
    BY <2>1, <2>2, <2>3
  <2> QED BY <2>2, <2>3, <2>4 DEF AscendingList
<1>8. Elements(r) \subseteq Elements(q) \ {n}
  <2> SUFFICES ASSUME NEW j \in 1..Len(r)
               PROVE  r[j] \in Elements(q) /\ r[j] # n
    BY DEF Elements
  <2>1. PICK y \in 1..Len(q) : r[j] = q[y] /\ ((y = j /\ j < k) \/ (y = j + 1 /\ j >= k))
    BY <1>6
  <2>a. j \in Int /\ k \in Int
    OBVIOUS
  <2>2. y # k
    BY <2>1, <2>a
  <2>3. q[y] # q[k]
    <3>1. y < k \/ k < y
      BY <2>2, <1>0
    <3> QED BY <3>1, <1>0 DEF AscendingList
  <2> QED BY <2>1, <2>3, <1>1 DEF Elements
<1>9. Elements(q) \ {n} \subseteq Elements(r)
  <2> SUFFICES ASSUME NEW i \in 1..Len(q), q[i] # n
               PROVE  \E j \in 1..Len(r) : r[j] = q[i]
    BY DEF Elements
  <2>1. CASE i < k
    <3>1. i \in 1..Len(r) /\ i \in 1..(Len(q) - 1)
      BY <2>1, <1>0, <1>5
    <3> QED BY <2>1, <3>1, <1>5
  <2>2. CASE i > k
    <3>1. i - 1 \in 1..Len(r) /\ ~(i - 1 < k) /\ (i - 1) + 1 = i
      BY <2>2, <1>0, <1>5
    <3> QED BY <3>1, <1>5
  <2> QED BY <2>1, <2>2, <1>1
<1> QED BY <1>4, <1>5, <1>7, <1>8, <1>9 DEF r

\* And to which one greater than all is added.
LEMMA GreatestAdded ==
    ASSUME NEW q \in Seq(Nat), AscendingList(q), NEW n \in Nat, \A m \in Elements(q) : m < n
    PROVE  /\ Append(q, n) \in Seq(Nat)
           /\ AscendingList(Append(q, n))
           /\ Elements(Append(q, n)) = Elements(q) \cup {n}
<1> DEFINE a == Append(q, n)
<1>1. /\ a \in Seq(Nat) /\ Len(q) \in Nat /\ Len(a) = Len(q) + 1 /\ a[Len(q) + 1] = n
      /\ \A i \in 1..Len(q) : a[i] = q[i]
  BY OneMore
<1> HIDE DEF a
<1>2. \A i \in 1..Len(a) : i \in 1..Len(q) \/ i = Len(q) + 1
  BY <1>1
<1>3. 1..Len(q) \subseteq 1..Len(a) /\ Len(q) + 1 \in 1..Len(a)
  BY <1>1
<1>4. Elements(a) \subseteq Elements(q) \cup {n}
  BY <1>1, <1>2 DEF Elements
<1>5. Elements(q) \cup {n} \subseteq Elements(a)
  BY <1>1, <1>3 DEF Elements
<1>6. AscendingList(a)
  <2> SUFFICES ASSUME NEW i \in 1..Len(a), NEW j \in 1..Len(a), i < j
               PROVE  a[i] < a[j]
    BY DEF AscendingList
  <2>1. i \in 1..Len(q)
    BY <1>1, <1>2
  <2>2. CASE j \in 1..Len(q)
    BY <2>1, <2>2, <1>1 DEF AscendingList
  <2>3. CASE j = Len(q) + 1
    <3>1. a[i] \in Elements(q)
      BY <2>1, <1>1 DEF Elements
    <3> QED BY <2>3, <3>1, <1>1
  <2> QED BY <2>2, <2>3, <1>2
<1> QED BY <1>1, <1>4, <1>5, <1>6 DEF a

-----------------------------------------------------------------------------
(* The invariants.                                                         *)

TitleStages == {"ready", "holdFlip", "holdWork", "enqueue", "waitIdle"}
Submissions == [serial : Nat, queue : Queues, waits : Labels \cup {NoLabel}, writes : Labels \cup {NoLabel},
                flip : BOOLEAN, suspend : BOOLEAN]
Items == [kind : {"label", "complete"}, serial : Nat, writes : Labels \cup {NoLabel}, flip : BOOLEAN]

\* A submission is of its queue; only the graphics queue flips and is suspended, and a
\* suspend point is nothing else.
Sound(s, q) ==
    /\ s.queue = q
    /\ s.flip \/ s.suspend => q = Graphics
    /\ s.suspend => ~s.flip /\ s.waits = NoLabel

\* Where a worker has a submission in its hands that it has not completed.
Taken == Stages \ {"ready", "leaving", "gone"}

WorkerTypes == /\ pc \in [Queues -> Stages] /\ current \in [Queues -> Submissions]
               /\ pending \in [Queues -> Seq(Submissions)]
TitleTypes  == /\ titlePc \in [Titles -> TitleStages] /\ request \in [Titles -> Submissions]
               /\ \A t \in Titles : Sound(request[t], request[t].queue)
PipeTypes   == /\ pipeline \in Seq(Items)
               /\ \A i \in 1..Len(pipeline) : pipeline[i].kind = "label" => ~pipeline[i].flip
WordTypes   == /\ failure \in BOOLEAN /\ stopping \in BOOLEAN /\ queue0AwaitsTitle \in BOOLEAN
               /\ executingWaitFree \in [Queues -> Nat] /\ executingWaits \in [Queues -> BOOLEAN]
               /\ committer # "running" => failure
               /\ runningWorkers \in Int /\ flipsAhead \in Int /\ flipWorkOpen \in Int
SubTypes    == WorkerTypes /\ TitleTypes /\ PipeTypes /\ WordTypes

\* What each worker holds, from its stage.
Hands ==
    \A q \in Queues :
       /\ current[q].serial = 0 => current[q] = NoSubmission
       /\ current[q].serial # 0 => Sound(current[q], q)
       /\ \A i \in 1..Len(pending[q]) : Sound(pending[q][i], q)
       /\ pc[q] \in {"ready", "gone"} => current[q] = NoSubmission
       /\ pc[q] \in (Taken \ {"thrown"}) \cup {"leaving"} => current[q].serial # 0
       /\ pc[q] = "thrown" /\ current[q].serial = 0 => failure
       /\ pc[q] = "gone" => Halted
       /\ pc[q] \in {"blocked", "noting"} => current[q].waits # NoLabel
       /\ pc[q] = "deferred" \/ pc[q] = "noting" => q = Graphics

\* The serials in a list, of those of its elements that are in the set; whether they ascend.
Serials(l, F)   == {l[i].serial : i \in {j \in 1..Len(l) : l[j] \in F}}
Ascending(l, F) == \A i, j \in 1..Len(l) : l[i] \in F /\ l[j] \in F /\ i < j => l[i].serial < l[j].serial
Completions     == {x \in Items : x.kind = "complete"}
Flips           == {x \in Submissions : x.flip}
FlipItems       == {x \in Items : x.flip}

\* The serials each queue has not finished, and those the pipeline has not completed.
Here     == [q \in Queues |-> IF pc[q] \in {"deferred", "leaving"} \/ current[q].serial = 0 THEN {}
                              ELSE {current[q].serial}]
Listed   == [q \in Queues |-> Serials(pending[q], Submissions)]
OpenAt   == [q \in Queues |-> Here[q] \cup Listed[q]]
InPipe   == Serials(pipeline, Completions)

\* Serials ascend from the worker's hands to its list, and in the pipeline ...
QueueAscends(q) ==
    /\ current[q].serial \in 0..accepted
    /\ Ascending(pending[q], Submissions)
    /\ \A n \in Listed[q] : n \in 1..accepted /\ current[q].serial < n
Ascends == (\A q \in Queues : QueueAscends(q)) /\ Ascending(pipeline, Completions)

\* ... and each is in one place: open in one queue, in the pipeline, or done; what the
\* pipeline has is before what the graphics queue has.
Places(O, U, D, a, whole) ==
    /\ U \subseteq 1..a /\ D \subseteq 1..a /\ \A q \in Queues : O[q] \subseteq 1..a
    /\ \A u \in U, n \in O[Graphics] : u < n
    /\ \A q, r \in Queues : q # r => O[q] \cap O[r] = {}
    /\ \A q \in Queues : O[q] \cap (U \cup D) = {}
    /\ U \cap D = {}
    /\ whole => \A n \in 1..a : n \in D \/ n \in U \/ \E q \in Queues : n \in O[q]

SerialsInv ==
    /\ accepted \in Nat /\ completed \in 0..accepted /\ completedOutOfOrder \subseteq completed + 1 .. accepted
    /\ Ascends
    /\ Places(OpenAt, InPipe, Done, accepted, ~Halted)

\* The words the order is decided by say what the workers are at.
Busy    == {"run", "past", "flipped", "stored", "executed", "deferred", "leaving"}
Running == {q \in Queues : pc[q] \in Busy}
OrderWords ==
    /\ queue0Executing = IF pc[Graphics] \in Taken /\ ~current[Graphics].suspend
                         THEN current[Graphics].serial ELSE 0
    /\ \A q \in Queues \ {Graphics} :
          /\ executingWaitFree[q] = IF pc[q] \in Taken /\ WaitFree(current[q]) THEN current[q].serial ELSE 0
          /\ executingWaits[q] = (pc[q] \in Taken /\ ~WaitFree(current[q]))
    /\ queue0Awaited = IF pc[Graphics] \in {"blocked", "noting"} THEN current[Graphics].waits ELSE NoLabel
RunningWord == runningWorkers = Cardinality(Running)

\* The pipeline's serials, as the order sees them.
UncommittedWord ==
    /\ queue0Uncommitted \in Seq(Nat)
    /\ AscendingList(queue0Uncommitted)
    /\ Elements(queue0Uncommitted) = InPipe

\* The flips ahead of a title and their work.
FlipHere(stages) == IF pc[Graphics] \in stages /\ current[Graphics].flip THEN {current[Graphics].serial} ELSE {}
FlipsAhead == Serials(pending[Graphics], Flips) \cup FlipHere({"hold", "run", "blocked", "noting", "past"})
FlipWork   == Serials(pending[Graphics], Flips) \cup Serials(pipeline, FlipItems)
              \cup FlipHere({"hold", "run", "blocked", "noting", "past", "flipped", "stored"})
FlipsCounted == flipsAhead = Cardinality(FlipsAhead) /\ flipWorkOpen = Cardinality(FlipWork)

WordsInv == ~Halted => OrderWords /\ RunningWord /\ UncommittedWord /\ FlipsCounted

\* Who sleeps is where it went to sleep, with a reason.
Sleepers ==
    /\ asleep \subseteq Queues \cup Titles
    /\ \A q \in asleep \cap Queues : pc[q] = "ready"
    /\ \A t \in asleep \cap Titles : t \in FlipHolders \cup IdleWaiters

SubIInv == SubTypes /\ Hands /\ SerialsInv /\ WordsInv /\ Sleepers /\ NoLostWakeup

-----------------------------------------------------------------------------
(* Serials of lists, and where each serial is.                             *)

\* The serials of a list with one element more, without its first, and with its first replaced.
LEMMA SerialsMore ==
    ASSUME NEW S, NEW F, NEW l \in Seq(S), NEW e \in S
    PROVE  /\ Serials(Append(l, e), F) = Serials(l, F) \cup (IF e \in F THEN {e.serial} ELSE {})
           /\ Ascending(l, F) /\ (e \in F => \A u \in Serials(l, F) : u < e.serial) => Ascending(Append(l, e), F)
<1> DEFINE a == Append(l, e)
<1>1. /\ Len(l) \in Nat /\ Len(a) = Len(l) + 1 /\ a[Len(l) + 1] = e
      /\ \A i \in 1..Len(l) : a[i] = l[i]
  BY OneMore
<1> HIDE DEF a
<1>2. \A i \in 1..Len(a) : i \in 1..Len(l) \/ i = Len(l) + 1
  BY <1>1
<1>3. 1..Len(l) \subseteq 1..Len(a) /\ Len(l) + 1 \in 1..Len(a)
  BY <1>1
<1>4. Serials(a, F) \subseteq Serials(l, F) \cup (IF e \in F THEN {e.serial} ELSE {})
  BY <1>1, <1>2 DEF Serials
<1>5. Serials(l, F) \cup (IF e \in F THEN {e.serial} ELSE {}) \subseteq Serials(a, F)
  BY <1>1, <1>3 DEF Serials
<1>6. ASSUME Ascending(l, F), e \in F => \A u \in Serials(l, F) : u < e.serial
      PROVE  Ascending(a, F)
  <2> SUFFICES ASSUME NEW i \in 1..Len(a), NEW j \in 1..Len(a), a[i] \in F, a[j] \in F, i < j
               PROVE  a[i].serial < a[j].serial
    BY DEF Ascending
  <2>1. i \in 1..Len(l)
    BY <1>1, <1>2
  <2>2. CASE j \in 1..Len(l)
    BY <2>1, <2>2, <1>1, <1>6 DEF Ascending
  <2>3. CASE j = Len(l) + 1
    <3>1. a[i].serial \in Serials(l, F)
      BY <2>1, <1>1 DEF Serials
    <3> QED BY <2>3, <3>1, <1>1, <1>6
  <2> QED BY <2>2, <2>3, <1>2
<1> QED BY <1>4, <1>5, <1>6 DEF a

\* The serials of a list are its first element's and the rest's.
LEMMA SerialsFirst ==
    ASSUME NEW S, NEW F, NEW l \in Seq(S), l # << >>
    PROVE  /\ Serials(l, F) = (IF Head(l) \in F THEN {Head(l).serial} ELSE {}) \cup Serials(Tail(l), F)
           /\ Ascending(l, F) => /\ Ascending(Tail(l), F)
                                 /\ Head(l) \in F => \A u \in Serials(Tail(l), F) : Head(l).serial < u
<1> DEFINE t == Tail(l)
           h == Head(l)
<1>1. /\ Len(l) \in Nat /\ Len(l) >= 1 /\ h = l[1] /\ Len(t) = Len(l) - 1
      /\ \A i \in 1..Len(t) : t[i] = l[i + 1]
  BY FirstAndRest
<1> HIDE DEF t, h
<1>2. \A i \in 1..Len(t) : i + 1 \in 1..Len(l) /\ 1 < i + 1
  BY <1>1
<1>3. 1 \in 1..Len(l) /\ \A i \in 1..Len(l) : i = 1 \/ (i - 1 \in 1..Len(t) /\ t[i - 1] = l[i])
  <2>1. \A i \in 1..Len(l) : i = 1 \/ (i - 1 \in 1..Len(t) /\ (i - 1) + 1 = i)
    BY <1>1
  <2> QED BY <2>1, <1>1
<1>4. Serials(l, F) \subseteq (IF h \in F THEN {h.serial} ELSE {}) \cup Serials(t, F)
  <2> SUFFICES ASSUME NEW i \in 1..Len(l), l[i] \in F
               PROVE  l[i].serial \in (IF h \in F THEN {h.serial} ELSE {}) \cup Serials(t, F)
    BY DEF Serials
  <2> QED BY <1>1, <1>3 DEF Serials
<1>5. (IF h \in F THEN {h.serial} ELSE {}) \subseteq Serials(l, F)
  BY <1>1, <1>3 DEF Serials
<1>6. Serials(t, F) \subseteq Serials(l, F)
  <2> SUFFICES ASSUME NEW i \in 1..Len(t), t[i] \in F
               PROVE  t[i].serial \in Serials(l, F)
    BY DEF Serials
  <2> QED BY <1>1, <1>2 DEF Serials
<1>7. ASSUME Ascending(l, F)
      PROVE  Ascending(t, F)
  <2> SUFFICES ASSUME NEW i \in 1..Len(t), NEW j \in 1..Len(t), t[i] \in F, t[j] \in F, i < j
               PROVE  t[i].serial < t[j].serial
    BY DEF Ascending
  <2>1. i + 1 \in 1..Len(l) /\ j + 1 \in 1..Len(l) /\ i + 1 < j + 1 /\ t[i] = l[i + 1] /\ t[j] = l[j + 1]
    BY <1>1, <1>2
  <2> QED BY <2>1, <1>7 DEF Ascending
<1>8. ASSUME Ascending(l, F), h \in F
      PROVE  \A u \in Serials(t, F) : h.serial < u
  <2> SUFFICES ASSUME NEW i \in 1..Len(t), t[i] \in F
               PROVE  h.serial < t[i].serial
    BY DEF Serials
  <2>1. i + 1 \in 1..Len(l) /\ 1 < i + 1 /\ t[i] = l[i + 1]
    BY <1>1, <1>2
  <2> QED BY <2>1, <1>1, <1>3, <1>8 DEF Ascending
<1> QED BY <1>4, <1>5, <1>6, <1>7, <1>8 DEF t, h

\* A list whose first element is replaced has that one's serial instead.
LEMMA SerialsReplaced ==
    ASSUME NEW S, NEW F, NEW l \in Seq(S), l # << >>, NEW e \in S
    PROVE  LET r == <<e>> \o Tail(l)
           IN  /\ Serials(r, F) = (IF e \in F THEN {e.serial} ELSE {}) \cup Serials(Tail(l), F)
               /\ Ascending(l, F) /\ (e \in F <=> Head(l) \in F) /\ e.serial = Head(l).serial => Ascending(r, F)
<1> DEFINE r == <<e>> \o Tail(l)
           t == Tail(l)
<1>1. /\ Len(l) \in Nat /\ Len(l) >= 1 /\ Head(l) = l[1] /\ Len(t) = Len(l) - 1
      /\ \A i \in 1..Len(t) : t[i] = l[i + 1]
  BY FirstAndRest
<1>2. Len(r) = Len(l) /\ r[1] = e /\ \A i \in 2..Len(l) : r[i] = l[i]
  BY FirstReplaced
<1> HIDE DEF r, t
<1>3. \A i \in 1..Len(t) : i + 1 \in 2..Len(l) /\ i + 1 \in 1..Len(r) /\ t[i] = r[i + 1]
  BY <1>1, <1>2
<1>4. 1 \in 1..Len(r) /\ \A i \in 1..Len(r) : i = 1 \/ (i - 1 \in 1..Len(t) /\ t[i - 1] = r[i])
  <2>1. \A i \in 1..Len(r) : i = 1 \/ (i - 1 \in 1..Len(t) /\ (i - 1) + 1 = i /\ i \in 2..Len(l))
    BY <1>1, <1>2
  <2>2. \A i \in 1..Len(r) : i = 1 \/ (i - 1 \in 1..Len(t) /\ t[i - 1] = l[i] /\ r[i] = l[i])
    BY <2>1, <1>1, <1>2
  <2> QED BY <2>2, <1>1, <1>2
<1>5. Serials(r, F) \subseteq (IF e \in F THEN {e.serial} ELSE {}) \cup Serials(t, F)
  <2> SUFFICES ASSUME NEW i \in 1..Len(r), r[i] \in F
               PROVE  r[i].serial \in (IF e \in F THEN {e.serial} ELSE {}) \cup Serials(t, F)
    BY DEF Serials
  <2> QED BY <1>2, <1>4 DEF Serials
<1>6. (IF e \in F THEN {e.serial} ELSE {}) \subseteq Serials(r, F)
  BY <1>2, <1>4 DEF Serials
<1>7. Serials(t, F) \subseteq Serials(r, F)
  <2> SUFFICES ASSUME NEW i \in 1..Len(t), t[i] \in F
               PROVE  t[i].serial \in Serials(r, F)
    BY DEF Serials
  <2> QED BY <1>3 DEF Serials
<1>8. ASSUME Ascending(l, F), e \in F <=> Head(l) \in F, e.serial = Head(l).serial
      PROVE  Ascending(r, F)
  <2>1. \A i \in 1..Len(r) : i \in 1..Len(l) /\ (r[i] \in F <=> l[i] \in F) /\ r[i].serial = l[i].serial
    <3>1. \A i \in 1..Len(r) : i \in 1..Len(l) /\ (i = 1 \/ i \in 2..Len(l))
      BY <1>1, <1>2
    <3> QED BY <3>1, <1>1, <1>2, <1>8
  <2> QED BY <2>1, <1>8 DEF Ascending
<1> QED BY <1>5, <1>6, <1>7, <1>8 DEF r, t

\* Nothing moves; what is dropped is no longer anywhere.
LEMMA Kept ==
    ASSUME NEW O, NEW U, NEW D, NEW a \in Nat, NEW w \in BOOLEAN, Places(O, U, D, a, w),
           NEW P, NEW V, NEW x \in BOOLEAN, x => w,
           V \subseteq U, \A q \in Queues : P[q] \subseteq O[q],
           x => V = U /\ \A q \in Queues : P[q] = O[q]
    PROVE  Places(P, V, D, a, x)
<1>0. Graphics \in Queues
  BY QueuesAssumption
<1>1. /\ V \subseteq 1..a /\ D \subseteq 1..a /\ \A q \in Queues : P[q] \subseteq 1..a
      /\ \A u \in V, n \in P[Graphics] : u < n
      /\ \A q, r \in Queues : q # r => P[q] \cap P[r] = {}
      /\ \A q \in Queues : P[q] \cap (V \cup D) = {}
      /\ V \cap D = {}
  BY <1>0 DEF Places
<1>2. x => \A n \in 1..a : n \in D \/ n \in V \/ \E q \in Queues : n \in P[q]
  BY DEF Places
<1> QED BY <1>1, <1>2 DEF Places

\* The graphics queue's first serial moves to the pipeline.
LEMMA Deferred ==
    ASSUME NEW O, NEW U, NEW D, NEW a \in Nat, NEW w \in BOOLEAN, Places(O, U, D, a, w),
           NEW P, NEW n \in O[Graphics], P[Graphics] = O[Graphics] \ {n},
           \A q \in Queues : q # Graphics => P[q] = O[q], \A m \in P[Graphics] : n < m
    PROVE  Places(P, U \cup {n}, D, a, w)
<1>0. Graphics \in Queues
  BY QueuesAssumption
<1>1. \A q \in Queues : P[q] \subseteq O[q] /\ n \notin P[q]
  BY <1>0 DEF Places
<1>2. n \in 1..a /\ n \notin D /\ n \notin U
  BY <1>0 DEF Places
<1>3. U \cup {n} \subseteq 1..a /\ D \subseteq 1..a /\ \A q \in Queues : P[q] \subseteq 1..a
  BY <1>1, <1>2 DEF Places
<1>4. \A u \in U \cup {n}, m \in P[Graphics] : u < m
  BY <1>0, <1>1 DEF Places
<1>5. /\ \A q, r \in Queues : q # r => P[q] \cap P[r] = {}
      /\ \A q \in Queues : P[q] \cap ((U \cup {n}) \cup D) = {}
      /\ (U \cup {n}) \cap D = {}
  BY <1>1, <1>2 DEF Places
<1>6. w => \A k \in 1..a : k \in D \/ k \in U \cup {n} \/ \E q \in Queues : k \in P[q]
  BY <1>0 DEF Places
<1> QED BY <1>3, <1>4, <1>5, <1>6 DEF Places

\* A queue's serial is done.
LEMMA Finished ==
    ASSUME NEW O, NEW U, NEW D, NEW a \in Nat, NEW w \in BOOLEAN, Places(O, U, D, a, w),
           NEW P, NEW r \in Queues, NEW n \in O[r], P[r] = O[r] \ {n}, \A q \in Queues : q # r => P[q] = O[q]
    PROVE  Places(P, U, D \cup {n}, a, w)
<1>0. Graphics \in Queues
  BY QueuesAssumption
<1>1. \A q \in Queues : P[q] \subseteq O[q] /\ n \notin P[q]
  BY DEF Places
<1>2. n \in 1..a /\ n \notin D /\ n \notin U
  BY DEF Places
<1>3. U \subseteq 1..a /\ D \cup {n} \subseteq 1..a /\ \A q \in Queues : P[q] \subseteq 1..a
  BY <1>1, <1>2 DEF Places
<1>4. \A u \in U, m \in P[Graphics] : u < m
  BY <1>0, <1>1 DEF Places
<1>5. /\ \A q, s \in Queues : q # s => P[q] \cap P[s] = {}
      /\ \A q \in Queues : P[q] \cap (U \cup (D \cup {n})) = {}
      /\ U \cap (D \cup {n}) = {}
  BY <1>1, <1>2 DEF Places
<1>6. w => \A k \in 1..a : k \in D \cup {n} \/ k \in U \/ \E q \in Queues : k \in P[q]
  BY DEF Places
<1> QED BY <1>3, <1>4, <1>5, <1>6 DEF Places

\* The pipeline's serial is done.
LEMMA Committed ==
    ASSUME NEW O, NEW U, NEW D, NEW a \in Nat, NEW w \in BOOLEAN, Places(O, U, D, a, w), NEW n \in U
    PROVE  Places(O, U \ {n}, D \cup {n}, a, w)
<1>0. Graphics \in Queues
  BY QueuesAssumption
<1> QED BY <1>0 DEF Places

\* A new serial is open in the queue it was submitted to.
LEMMA Placed ==
    ASSUME NEW O, NEW U, NEW D, NEW a \in Nat, NEW w \in BOOLEAN, Places(O, U, D, a, w),
           NEW b, b = a + 1, NEW P, NEW r \in Queues, P[r] = O[r] \cup {b},
           \A q \in Queues : q # r => P[q] = O[q]
    PROVE  Places(P, U, D, b, w)
<1>0. Graphics \in Queues
  BY QueuesAssumption
<1>1. /\ U \subseteq 1..b /\ D \subseteq 1..b /\ \A q \in Queues : P[q] \subseteq 1..b
      /\ b \notin U /\ b \notin D /\ \A q \in Queues : b \notin O[q]
  BY DEF Places
<1>2. \A q \in Queues : P[q] \subseteq O[q] \cup {b}
  OBVIOUS
<1>3. \A u \in U, m \in P[Graphics] : u < m
  <2> TAKE u \in U, m \in P[Graphics]
  <2>1. m \in O[Graphics] \/ m = b
    BY <1>0, <1>2
  <2> QED BY <2>1 DEF Places
<1>4. /\ \A q, s \in Queues : q # s => P[q] \cap P[s] = {}
      /\ \A q \in Queues : P[q] \cap (U \cup D) = {}
  BY <1>1 DEF Places
<1>5. w => \A k \in 1..b : k \in D \/ k \in U \/ \E q \in Queues : k \in P[q]
  <2> SUFFICES ASSUME w, NEW k \in 1..b
               PROVE  k \in D \/ k \in U \/ \E q \in Queues : k \in P[q]
    OBVIOUS
  <2>1. CASE k = b
    BY <2>1
  <2>2. CASE k # b
    <3>1. k \in 1..a
      BY <2>2
    <3>2. k \in D \/ k \in U \/ \E q \in Queues : k \in O[q]
      BY <3>1 DEF Places
    <3> QED BY <3>2
  <2> QED BY <2>1, <2>2
<1> QED BY <1>1, <1>3, <1>4, <1>5 DEF Places

\* What is done after one more serial was entered as completed, in whatever order.
LEMMA Marking ==
    ASSUME accepted \in Nat, completed \in 0..accepted, completedOutOfOrder \subseteq completed + 1 .. accepted,
           NEW s \in 1..accepted, s \notin Done, MarkCompleted(s)
    PROVE  /\ completed' \in 0..accepted
           /\ completedOutOfOrder' \subseteq completed' + 1 .. accepted
           /\ Done' = Done \cup {s}
<1> DEFINE done == completedOutOfOrder \cup {s}
           upTo == InOrder(done, completed)
           N == {n \in completed..accepted : n + 1 \notin done}
<1>1. s > completed
  BY DEF Done
<1>2. done \subseteq completed + 1 .. accepted
  BY <1>1
<1>3. completed' = upTo /\ completedOutOfOrder' = {n \in done : n > upTo}
  BY DEF MarkCompleted
<1>4. Done = 1..completed \cup completedOutOfOrder
  BY DEF Done
<1>5. Done' = 1..completed' \cup completedOutOfOrder'
  BY DEF Done
<1>6. s \in done /\ completedOutOfOrder \subseteq done /\ \A n \in done : n = s \/ n \in completedOutOfOrder
  OBVIOUS
<1> HIDE DEF done
<1>7. N \in SUBSET Nat /\ accepted \in N
  BY <1>2
<1>8. PICK u \in N : \A y \in N : u <= y
  BY <1>7, LeastNumber
<1>9. u \in completed..accepted /\ u + 1 \notin done
  OBVIOUS
<1>10. \A m \in completed + 1 .. u : m \in done
  <2> TAKE m \in completed + 1 .. u
  <2>1. m - 1 \in completed..accepted /\ (m - 1) + 1 = m /\ ~(u <= m - 1)
    BY <1>9
  <2> QED BY <1>8, <2>1
<1>11. completed + 1 .. u \subseteq done
  BY <1>10
<1>12. upTo \in completed..accepted /\ completed + 1 .. upTo \subseteq done /\ upTo + 1 \notin done
  BY <1>9, <1>11 DEF InOrder
<1> HIDE DEF upTo, N
<1>13. completed' \in 0..accepted /\ completedOutOfOrder' \subseteq completed' + 1 .. accepted
  <2>1. upTo \in 0..accepted
    BY <1>12
  <2>2. ASSUME NEW n \in done, n > upTo
        PROVE  n \in upTo + 1 .. accepted
    BY <2>1, <2>2, <1>2
  <2>3. \A n \in completedOutOfOrder' : n \in done /\ n > upTo
    BY <1>3
  <2> QED BY <1>3, <2>1, <2>2, <2>3
<1>14. \A n \in done : n \in completed + 1 .. accepted
  BY <1>2
<1>15. ASSUME NEW n
       PROVE  n \in Done' <=> n \in Done \cup {s}
  <2>1. CASE n \in 1..upTo
    <3>1. n \in 1..completed \/ n \in completed + 1 .. upTo
      BY <2>1, <1>12
    <3>2. n \in 1..completed \/ n \in done
      BY <3>1, <1>12
    <3> QED BY <2>1, <3>2, <1>3, <1>4, <1>5, <1>6
  <2>2. CASE n \notin 1..upTo
    <3>1. n \notin 1..completed
      BY <2>2, <1>12
    <3>2. n \in done => n > upTo
      BY <2>2, <1>14, <1>12
    <3> QED BY <2>2, <3>1, <3>2, <1>3, <1>4, <1>5, <1>6
  <2> QED BY <2>1, <2>2
<1> QED BY <1>13, <1>15

-----------------------------------------------------------------------------
(* Types, and what each worker has in its hands.                           *)

\* A submission that is given its serial.
LEMMA Numbered ==
    ASSUME NEW r \in Submissions, NEW n \in Nat
    PROVE  LET s == [r EXCEPT !.serial = n]
           IN  /\ s \in Submissions /\ s.serial = n
               /\ s.queue = r.queue /\ s.waits = r.waits /\ s.writes = r.writes /\ s.flip = r.flip
                    /\ s.suspend = r.suspend
BY DEF Submissions

\* What a submission is, and what none is.
LEMMA SubmissionFacts ==
    /\ NoSubmission \in Submissions /\ NoSubmission.serial = 0
    /\ NoSubmission.queue = Graphics /\ NoSubmission.waits = NoLabel /\ NoSubmission.writes = NoLabel
    /\ NoSubmission.flip = FALSE /\ NoSubmission.suspend = FALSE
    /\ \A s \in Submissions : /\ s.serial \in Nat /\ s.queue \in Queues
                              /\ s.waits \in Labels \cup {NoLabel} /\ s.writes \in Labels \cup {NoLabel}
                              /\ s.flip \in BOOLEAN /\ s.suspend \in BOOLEAN
BY QueuesAssumption, ProgramsAssumption DEF Submissions, NoSubmission

\* What a title may submit.
LEMMA ProgramFacts ==
    \A p \in Programs : /\ p.queue \in Queues
                        /\ p.waits \in Labels \cup {NoLabel} /\ p.writes \in Labels \cup {NoLabel}
                        /\ p.flip \in BOOLEAN /\ p.suspend \in BOOLEAN
                        /\ p.flip \/ p.suspend => p.queue = Graphics
                        /\ p.suspend => ~p.flip /\ p.waits = NoLabel /\ p.writes = NoLabel
BY ProgramsAssumption

\* Every step keeps the types and what each worker has in its hands.
LEMMA TypesStep ==
    ASSUME SubTypes, Hands, accepted \in Nat, Ascends, Next
    PROVE  SubTypes' /\ Hands'
<1> USE QueuesAssumption
<1>0. Graphics \in Queues
  OBVIOUS
<1>Sleep. ASSUME NEW q \in Queues, Sleep(q)
  PROVE  SubTypes' /\ Hands'
  <2> USE <1>Sleep DEF Sleep, worker, order, blocks, serial, commit, flips, title, halt
  <2>4a. WorkerTypes'
    BY <1>0, SubmissionFacts DEF SubTypes, WorkerTypes, Stages
  <2>4b. TitleTypes'
    BY <1>0, SubmissionFacts DEF SubTypes, TitleTypes, TitleStages, Sound
  <2>4c. PipeTypes'
    BY <1>0, SubmissionFacts DEF SubTypes, PipeTypes, Hands
  <2>4d. WordTypes'
    BY <1>0, SubmissionFacts DEF SubTypes, WordTypes, WorkerTypes
  <2>4. SubTypes'
    BY <2>4a, <2>4b, <2>4c, <2>4d DEF SubTypes
  <2>5. Hands'
    BY <1>0, SubmissionFacts DEF SubTypes, WorkerTypes, PipeTypes, TitleTypes, Hands, Stages, Taken, Sound, Halted
  <2> QED BY <2>4, <2>5
<1>Dequeue. ASSUME NEW q \in Queues, Dequeue(q)
  PROVE  SubTypes' /\ Hands'
  <2> USE <1>Dequeue DEF Dequeue, serial, commit, flips, title, halt, Step
  <2>0. /\ pending[q] \in Seq(Submissions) /\ pending[q] # << >> /\ Len(pending[q]) >= 1 /\ Len(pending[q]) \in Nat
        /\ Head(pending[q]) = pending[q][1] /\ Head(pending[q]) \in Submissions
        /\ Tail(pending[q]) \in Seq(Submissions) /\ Len(Tail(pending[q])) = Len(pending[q]) - 1
        /\ \A i \in 1..Len(Tail(pending[q])) : i + 1 \in 1..Len(pending[q])
             /\ Tail(pending[q])[i] = pending[q][i + 1]
    <3>1. pending[q] \in Seq(Submissions) /\ pending[q] # << >>
      BY DEF SubTypes, WorkerTypes
    <3> QED BY <3>1, FirstAndRest
  <2>3. Head(pending[q]).serial # 0 /\ Sound(Head(pending[q]), q)
    <3>1. Head(pending[q]).serial \in Listed[q]
      <4> HIDE <1>Dequeue
      <4>1. Head(pending[q]).serial \in Serials(pending[q], Submissions)
        BY <2>0, SerialsFirst
      <4> QED BY <4>1 DEF Listed
    <3> QED BY <3>1, <2>0 DEF Ascends, QueueAscends, Hands
  <2>e. /\ executingWaitFree' \in [Queues -> Nat] /\ executingWaits' \in [Queues -> BOOLEAN]
        /\ runningWorkers' = runningWorkers + 0 \/ runningWorkers' = runningWorkers + 1
    BY <2>0, SubmissionFacts DEF SubTypes, WordTypes
  <2>4a. WorkerTypes'
    BY <1>0, SubmissionFacts, <2>0, <2>3, <2>e DEF SubTypes, WorkerTypes, Stages
  <2>4b. TitleTypes'
    BY <1>0, SubmissionFacts, <2>0, <2>3, <2>e DEF SubTypes, TitleTypes, TitleStages, Sound
  <2>4c. PipeTypes'
    BY <1>0, SubmissionFacts, <2>0, <2>3, <2>e DEF SubTypes, PipeTypes, Hands
  <2>4d. WordTypes'
    <3>1. UNCHANGED <<failure, stopping, queue0AwaitsTitle, flipsAhead, flipWorkOpen, committer>>
      OBVIOUS
    <3> HIDE <1>Dequeue
    <3> QED BY <3>1, <2>e DEF SubTypes, WordTypes
  <2>4. SubTypes'
    BY <2>4a, <2>4b, <2>4c, <2>4d DEF SubTypes
  <2>5. Hands'
    BY <1>0, SubmissionFacts, <2>0, <2>3, <2>e
      DEF SubTypes, WorkerTypes, PipeTypes, TitleTypes, Hands, Stages, Taken, Sound, Halted
  <2> QED BY <2>4, <2>5
<1>Start. ASSUME NEW q \in Queues, Start(q)
  PROVE  SubTypes' /\ Hands'
  <2> USE <1>Start DEF Start, order, serial, commit, flips, title, halt, Step
  <2>4a. WorkerTypes'
    BY <1>0, SubmissionFacts DEF SubTypes, WorkerTypes, Stages
  <2>4b. TitleTypes'
    BY <1>0, SubmissionFacts DEF SubTypes, TitleTypes, TitleStages, Sound
  <2>4c. PipeTypes'
    BY <1>0, SubmissionFacts DEF SubTypes, PipeTypes, Hands
  <2>4d. WordTypes'
    BY <1>0, SubmissionFacts DEF SubTypes, WordTypes, WorkerTypes
  <2>4. SubTypes'
    BY <2>4a, <2>4b, <2>4c, <2>4d DEF SubTypes
  <2>5. Hands'
    BY <1>0, SubmissionFacts DEF SubTypes, WorkerTypes, PipeTypes, TitleTypes, Hands, Stages, Taken, Sound, Halted
  <2> QED BY <2>4, <2>5
<1>Retire. ASSUME NEW q \in Queues, Retire(q)
  PROVE  SubTypes' /\ Hands'
  <2> USE <1>Retire DEF Retire, order, blocks, serial, commit, flips, title, halt, Step
  <2>4a. WorkerTypes'
    BY <1>0, SubmissionFacts DEF SubTypes, WorkerTypes, Stages
  <2>4b. TitleTypes'
    BY <1>0, SubmissionFacts DEF SubTypes, TitleTypes, TitleStages, Sound
  <2>4c. PipeTypes'
    BY <1>0, SubmissionFacts DEF SubTypes, PipeTypes, Hands
  <2>4d. WordTypes'
    BY <1>0, SubmissionFacts DEF SubTypes, WordTypes, WorkerTypes
  <2>4. SubTypes'
    BY <2>4a, <2>4b, <2>4c, <2>4d DEF SubTypes
  <2>5. Hands'
    BY <1>0, SubmissionFacts DEF SubTypes, WorkerTypes, PipeTypes, TitleTypes, Hands, Stages, Taken, Sound, Halted
  <2> QED BY <2>4, <2>5
<1>PassWait. ASSUME NEW q \in Queues, PassWait(q)
  PROVE  SubTypes' /\ Hands'
  <2> USE <1>PassWait DEF PassWait, order, blocks, serial, commit, flips, title, halt, Step
  <2>4a. WorkerTypes'
    BY <1>0, SubmissionFacts DEF SubTypes, WorkerTypes, Stages
  <2>4b. TitleTypes'
    BY <1>0, SubmissionFacts DEF SubTypes, TitleTypes, TitleStages, Sound
  <2>4c. PipeTypes'
    BY <1>0, SubmissionFacts DEF SubTypes, PipeTypes, Hands
  <2>4d. WordTypes'
    BY <1>0, SubmissionFacts DEF SubTypes, WordTypes, WorkerTypes
  <2>4. SubTypes'
    BY <2>4a, <2>4b, <2>4c, <2>4d DEF SubTypes
  <2>5. Hands'
    BY <1>0, SubmissionFacts DEF SubTypes, WorkerTypes, PipeTypes, TitleTypes, Hands, Stages, Taken, Sound, Halted
  <2> QED BY <2>4, <2>5
<1>Block. ASSUME NEW q \in Queues, Block(q)
  PROVE  SubTypes' /\ Hands'
  <2> USE <1>Block DEF Block, order, serial, commit, flips, title, halt, Step, NotifyAll, OrderHolders
  <2>4a. WorkerTypes'
    BY <1>0, SubmissionFacts DEF SubTypes, WorkerTypes, Stages
  <2>4b. TitleTypes'
    BY <1>0, SubmissionFacts DEF SubTypes, TitleTypes, TitleStages, Sound
  <2>4c. PipeTypes'
    BY <1>0, SubmissionFacts DEF SubTypes, PipeTypes, Hands
  <2>4d. WordTypes'
    BY <1>0, SubmissionFacts DEF SubTypes, WordTypes, WorkerTypes
  <2>4. SubTypes'
    BY <2>4a, <2>4b, <2>4c, <2>4d DEF SubTypes
  <2>5. Hands'
    BY <1>0, SubmissionFacts DEF SubTypes, WorkerTypes, PipeTypes, TitleTypes, Hands, Stages, Taken, Sound, Halted
  <2> QED BY <2>4, <2>5
<1>Unblock. ASSUME NEW q \in Queues, Unblock(q)
  PROVE  SubTypes' /\ Hands'
  <2> USE <1>Unblock DEF Unblock, order, serial, commit, title, halt, Step, EndBlock
  <2>4a. WorkerTypes'
    BY <1>0, SubmissionFacts DEF SubTypes, WorkerTypes, Stages
  <2>4b. TitleTypes'
    BY <1>0, SubmissionFacts DEF SubTypes, TitleTypes, TitleStages, Sound
  <2>4c. PipeTypes'
    BY <1>0, SubmissionFacts DEF SubTypes, PipeTypes, Hands
  <2>4d. WordTypes'
    BY <1>0, SubmissionFacts DEF SubTypes, WordTypes, WorkerTypes
  <2>4. SubTypes'
    BY <2>4a, <2>4b, <2>4c, <2>4d DEF SubTypes
  <2>5. Hands'
    BY <1>0, SubmissionFacts DEF SubTypes, WorkerTypes, PipeTypes, TitleTypes, Hands, Stages, Taken, Sound, Halted
  <2> QED BY <2>4, <2>5
<1>ReleaseFlip. ASSUME NEW q \in Queues, ReleaseFlip(q)
  PROVE  SubTypes' /\ Hands'
  <2> USE <1>ReleaseFlip DEF ReleaseFlip, order, blocks, serial, commit, title, halt, Step, NotifyAll, FlipHolders
  <2>4a. WorkerTypes'
    BY <1>0, SubmissionFacts DEF SubTypes, WorkerTypes, Stages
  <2>4b. TitleTypes'
    BY <1>0, SubmissionFacts DEF SubTypes, TitleTypes, TitleStages, Sound
  <2>4c. PipeTypes'
    BY <1>0, SubmissionFacts DEF SubTypes, PipeTypes, Hands
  <2>4d. WordTypes'
    BY <1>0, SubmissionFacts DEF SubTypes, WordTypes, WorkerTypes
  <2>4. SubTypes'
    BY <2>4a, <2>4b, <2>4c, <2>4d DEF SubTypes
  <2>5. Hands'
    BY <1>0, SubmissionFacts DEF SubTypes, WorkerTypes, PipeTypes, TitleTypes, Hands, Stages, Taken, Sound, Halted
  <2> QED BY <2>4, <2>5
<1>Store. ASSUME NEW q \in Queues, Store(q)
  PROVE  SubTypes' /\ Hands'
  <2> USE <1>Store DEF Store, order, blocks, serial, flips, title, halt, Step, Room
  <2> DEFINE x == [kind |-> "label", serial |-> 0, writes |-> current[q].writes, flip |-> FALSE]
  <2>r. x \in Items /\ x.kind = "label" /\ x.flip = FALSE
    BY SubmissionFacts DEF SubTypes, WorkerTypes, Items
  <2>0. UNCHANGED pipeline \/ pipeline' = Append(pipeline, x)
    OBVIOUS
  <2> HIDE DEF x
  <2>1. /\ Append(pipeline, x) \in Seq(Items) /\ Len(pipeline) \in Nat
        /\ Len(Append(pipeline, x)) = Len(pipeline) + 1 /\ Append(pipeline, x)[Len(pipeline) + 1] = x
        /\ \A i \in 1..Len(pipeline) : Append(pipeline, x)[i] = pipeline[i]
    BY <2>r, OneMore DEF SubTypes, PipeTypes
  <2>2. ASSUME NEW i \in 1..Len(Append(pipeline, x)), Append(pipeline, x)[i].kind = "label"
        PROVE  ~Append(pipeline, x)[i].flip
    <3>1. CASE i \in 1..Len(pipeline)
      BY <3>1, <2>1, <2>2 DEF SubTypes, PipeTypes
    <3>2. CASE i = Len(pipeline) + 1
      BY <3>2, <2>1, <2>2, <2>r
    <3> QED BY <3>1, <3>2, <2>1
  <2>3. /\ pipeline' \in Seq(Items)
        /\ \A i \in 1..Len(pipeline') : pipeline'[i].kind = "label" => ~pipeline'[i].flip
    BY <2>0, <2>1, <2>2 DEF SubTypes, PipeTypes
  <2>4a. WorkerTypes'
    BY <1>0, SubmissionFacts, <2>3 DEF SubTypes, WorkerTypes, Stages
  <2>4b. TitleTypes'
    BY <1>0, SubmissionFacts, <2>3 DEF SubTypes, TitleTypes, TitleStages, Sound
  <2>4c. PipeTypes'
    BY <1>0, SubmissionFacts, <2>3 DEF SubTypes, PipeTypes, Hands
  <2>4d. WordTypes'
    BY <1>0, SubmissionFacts, <2>3 DEF SubTypes, WordTypes, WorkerTypes
  <2>4. SubTypes'
    BY <2>4a, <2>4b, <2>4c, <2>4d DEF SubTypes
  <2>5. Hands'
    BY <1>0, SubmissionFacts, <2>3
      DEF SubTypes, WorkerTypes, PipeTypes, TitleTypes, Hands, Stages, Taken, Sound, Halted
  <2> QED BY <2>4, <2>5
<1>EndExecute. ASSUME NEW q \in Queues, EndExecute(q)
  PROVE  SubTypes' /\ Hands'
  <2> USE <1>EndExecute DEF EndExecute, order, blocks, serial, commit, title, halt, Step, NotifyAll, FlipHolders
  <2>4a. WorkerTypes'
    BY <1>0, SubmissionFacts DEF SubTypes, WorkerTypes, Stages
  <2>4b. TitleTypes'
    BY <1>0, SubmissionFacts DEF SubTypes, TitleTypes, TitleStages, Sound
  <2>4c. PipeTypes'
    BY <1>0, SubmissionFacts DEF SubTypes, PipeTypes, Hands
  <2>4d. WordTypes'
    BY <1>0, SubmissionFacts DEF SubTypes, WordTypes, WorkerTypes
  <2>4. SubTypes'
    BY <2>4a, <2>4b, <2>4c, <2>4d DEF SubTypes
  <2>5. Hands'
    BY <1>0, SubmissionFacts DEF SubTypes, WorkerTypes, PipeTypes, TitleTypes, Hands, Stages, Taken, Sound, Halted
  <2> QED BY <2>4, <2>5
<1>Complete. ASSUME NEW q \in Queues, Complete(q)
  PROVE  SubTypes' /\ Hands'
  <2> USE <1>Complete DEF Complete, blocks, serial, commit, flips, title, halt, Step, NotifyAll, OrderHolders,
      IdleWaiters
  <2>4a. WorkerTypes'
    BY <1>0, SubmissionFacts DEF SubTypes, WorkerTypes, Stages
  <2>4b. TitleTypes'
    BY <1>0, SubmissionFacts DEF SubTypes, TitleTypes, TitleStages, Sound
  <2>4c. PipeTypes'
    BY <1>0, SubmissionFacts DEF SubTypes, PipeTypes, Hands
  <2>4d. WordTypes'
    BY <1>0, SubmissionFacts DEF SubTypes, WordTypes, WorkerTypes
  <2>4. SubTypes'
    BY <2>4a, <2>4b, <2>4c, <2>4d DEF SubTypes
  <2>5. Hands'
    BY <1>0, SubmissionFacts DEF SubTypes, WorkerTypes, PipeTypes, TitleTypes, Hands, Stages, Taken, Sound, Halted
  <2> QED BY <2>4, <2>5
<1>Leave. ASSUME NEW q \in Queues, Leave(q)
  PROVE  SubTypes' /\ Hands'
  <2> USE <1>Leave DEF Leave, order, serial, commit, flips, title, halt, Step, NotifyAll
  <2>4a. WorkerTypes'
    BY <1>0, SubmissionFacts DEF SubTypes, WorkerTypes, Stages
  <2>4b. TitleTypes'
    BY <1>0, SubmissionFacts DEF SubTypes, TitleTypes, TitleStages, Sound
  <2>4c. PipeTypes'
    BY <1>0, SubmissionFacts DEF SubTypes, PipeTypes, Hands
  <2>4d. WordTypes'
    BY <1>0, SubmissionFacts DEF SubTypes, WordTypes, WorkerTypes
  <2>4. SubTypes'
    BY <2>4a, <2>4b, <2>4c, <2>4d DEF SubTypes
  <2>5. Hands'
    BY <1>0, SubmissionFacts DEF SubTypes, WorkerTypes, PipeTypes, TitleTypes, Hands, Stages, Taken, Sound, Halted
  <2> QED BY <2>4, <2>5
<1>Unwind. ASSUME NEW q \in Queues, Unwind(q)
  PROVE  SubTypes' /\ Hands'
  <2> USE <1>Unwind DEF Unwind, order, serial, commit, title, halt, Step, NotifyAll
  <2>4a. WorkerTypes'
    BY <1>0, SubmissionFacts DEF SubTypes, WorkerTypes, Stages
  <2>4b. TitleTypes'
    BY <1>0, SubmissionFacts DEF SubTypes, TitleTypes, TitleStages, Sound
  <2>4c. PipeTypes'
    BY <1>0, SubmissionFacts DEF SubTypes, PipeTypes, Hands
  <2>4d. WordTypes'
    BY <1>0, SubmissionFacts DEF SubTypes, WordTypes, WorkerTypes
  <2>4. SubTypes'
    BY <2>4a, <2>4b, <2>4c, <2>4d DEF SubTypes
  <2>5. Hands'
    BY <1>0, SubmissionFacts DEF SubTypes, WorkerTypes, PipeTypes, TitleTypes, Hands, Stages, Taken, Sound, Halted
  <2> QED BY <2>4, <2>5
<1>Catch. ASSUME NEW q \in Queues, Catch(q)
  PROVE  SubTypes' /\ Hands'
  <2> USE <1>Catch DEF Catch, order, blocks, serial, commit, flips, title, halt, Step, ReportFailure, worker,
      NotifyAll, DropPending
  <2>0. << >> \in Seq(Submissions)
    OBVIOUS
  <2>3. pc' = [pc EXCEPT ![q] = "gone"] /\ current' = [current EXCEPT ![q] = NoSubmission]
    OBVIOUS
  <2>2. pending' = pending \/ pending' = [r \in Queues |-> << >>]
    OBVIOUS
  <2>4a. WorkerTypes'
    <3> HIDE <1>Catch
    <3> QED BY <2>0, <2>2, <2>3, SubmissionFacts DEF SubTypes, WorkerTypes, Stages
  <2>4b. TitleTypes'
    BY <1>0, SubmissionFacts, <2>0, <2>2, <2>3 DEF SubTypes, TitleTypes, TitleStages, Sound
  <2>4c. PipeTypes'
    BY <1>0, SubmissionFacts, <2>0, <2>2, <2>3 DEF SubTypes, PipeTypes, Hands
  <2>4d. WordTypes'
    BY <1>0, SubmissionFacts, <2>0, <2>2, <2>3 DEF SubTypes, WordTypes, WorkerTypes
  <2>4. SubTypes'
    BY <2>4a, <2>4b, <2>4c, <2>4d DEF SubTypes
  <2>5. Hands'
    BY <1>0, SubmissionFacts, <2>0, <2>2, <2>3
      DEF SubTypes, WorkerTypes, PipeTypes, TitleTypes, Hands, Stages, Taken, Sound, Halted
  <2> QED BY <2>4, <2>5
<1>DeferCompletion. ASSUME DeferCompletion
  PROVE  SubTypes' /\ Hands'
  <2> USE <1>DeferCompletion DEF DeferCompletion, blocks, serial, flips, title, halt, Step, Room
  <2> DEFINE s == current[Graphics]
             x == [kind |-> "complete", serial |-> s.serial, writes |-> s.writes, flip |-> s.flip]
  <2>r. x \in Items /\ x.kind = "complete"
    BY <1>0, SubmissionFacts DEF SubTypes, WorkerTypes, Items
  <2>0. pipeline' = Append(pipeline, x)
    OBVIOUS
  <2> HIDE DEF x
  <2>1. /\ Append(pipeline, x) \in Seq(Items) /\ Len(pipeline) \in Nat
        /\ Len(Append(pipeline, x)) = Len(pipeline) + 1 /\ Append(pipeline, x)[Len(pipeline) + 1] = x
        /\ \A i \in 1..Len(pipeline) : Append(pipeline, x)[i] = pipeline[i]
    BY <2>r, OneMore DEF SubTypes, PipeTypes
  <2>2. ASSUME NEW i \in 1..Len(Append(pipeline, x)), Append(pipeline, x)[i].kind = "label"
        PROVE  ~Append(pipeline, x)[i].flip
    <3>1. CASE i \in 1..Len(pipeline)
      BY <3>1, <2>1, <2>2 DEF SubTypes, PipeTypes
    <3>2. CASE i = Len(pipeline) + 1
      BY <3>2, <2>1, <2>2, <2>r
    <3> QED BY <3>1, <3>2, <2>1
  <2>3. /\ pipeline' \in Seq(Items)
        /\ \A i \in 1..Len(pipeline') : pipeline'[i].kind = "label" => ~pipeline'[i].flip
    BY <2>0, <2>1, <2>2 DEF SubTypes, PipeTypes
  <2>4a. WorkerTypes'
    BY <1>0, SubmissionFacts, <2>3 DEF SubTypes, WorkerTypes, Stages
  <2>4b. TitleTypes'
    BY <1>0, SubmissionFacts, <2>3 DEF SubTypes, TitleTypes, TitleStages, Sound
  <2>4c. PipeTypes'
    BY <1>0, SubmissionFacts, <2>3 DEF SubTypes, PipeTypes, Hands
  <2>4d. WordTypes'
    BY <1>0, SubmissionFacts, <2>3 DEF SubTypes, WordTypes, WorkerTypes
  <2>4. SubTypes'
    BY <2>4a, <2>4b, <2>4c, <2>4d DEF SubTypes
  <2>5. Hands'
    BY <1>0, SubmissionFacts, <2>3
      DEF SubTypes, WorkerTypes, PipeTypes, TitleTypes, Hands, Stages, Taken, Sound, Halted
  <2> QED BY <2>4, <2>5
<1>AwaitsTitle. ASSUME AwaitsTitle
  PROVE  SubTypes' /\ Hands'
  <2> USE <1>AwaitsTitle DEF AwaitsTitle, order, blocks, serial, commit, flips, title, halt, Step,
      OrderHolders, FlipHolders
  <2>4a. WorkerTypes'
    BY <1>0, SubmissionFacts DEF SubTypes, WorkerTypes, Stages
  <2>4b. TitleTypes'
    BY <1>0, SubmissionFacts DEF SubTypes, TitleTypes, TitleStages, Sound
  <2>4c. PipeTypes'
    BY <1>0, SubmissionFacts DEF SubTypes, PipeTypes, Hands
  <2>4d. WordTypes'
    BY <1>0, SubmissionFacts DEF SubTypes, WordTypes, WorkerTypes
  <2>4. SubTypes'
    BY <2>4a, <2>4b, <2>4c, <2>4d DEF SubTypes
  <2>5. Hands'
    BY <1>0, SubmissionFacts DEF SubTypes, WorkerTypes, PipeTypes, TitleTypes, Hands, Stages, Taken, Sound, Halted
  <2> QED BY <2>4, <2>5
<1>NoteAwaitingTitle. ASSUME NoteAwaitingTitle
  PROVE  SubTypes' /\ Hands'
  <2> USE <1>NoteAwaitingTitle DEF NoteAwaitingTitle, order, blocks, serial, commit, title, halt, Step, NotifyAll
  <2>4a. WorkerTypes'
    BY <1>0, SubmissionFacts DEF SubTypes, WorkerTypes, Stages
  <2>4b. TitleTypes'
    BY <1>0, SubmissionFacts DEF SubTypes, TitleTypes, TitleStages, Sound
  <2>4c. PipeTypes'
    BY <1>0, SubmissionFacts DEF SubTypes, PipeTypes, Hands
  <2>4d. WordTypes'
    BY <1>0, SubmissionFacts DEF SubTypes, WordTypes, WorkerTypes
  <2>4. SubTypes'
    BY <2>4a, <2>4b, <2>4c, <2>4d DEF SubTypes
  <2>5. Hands'
    BY <1>0, SubmissionFacts DEF SubTypes, WorkerTypes, PipeTypes, TitleTypes, Hands, Stages, Taken, Sound, Halted
  <2> QED BY <2>4, <2>5
<1>CommitLabel. ASSUME CommitLabel
  PROVE  SubTypes' /\ Hands'
  <2> USE <1>CommitLabel DEF CommitLabel, worker, order, blocks, serial, flips, title, halt, Committing
  <2>0. /\ pipeline \in Seq(Items) /\ pipeline # << >>
        /\ Tail(pipeline) \in Seq(Items) /\ Len(pipeline) \in Nat /\ Len(Tail(pipeline)) = Len(pipeline) - 1
        /\ \A i \in 1..Len(Tail(pipeline)) : Tail(pipeline)[i] = pipeline[i + 1] /\ i + 1 \in 1..Len(pipeline)
    <3>1. pipeline \in Seq(Items) /\ pipeline # << >>
      BY DEF SubTypes, PipeTypes
    <3> QED BY <3>1, FirstAndRest
  <2>3. /\ pipeline' \in Seq(Items)
        /\ \A i \in 1..Len(pipeline') : pipeline'[i].kind = "label" => ~pipeline'[i].flip
    BY <2>0 DEF SubTypes, PipeTypes
  <2>4a. WorkerTypes'
    BY <1>0, SubmissionFacts, <2>3 DEF SubTypes, WorkerTypes, Stages
  <2>4b. TitleTypes'
    BY <1>0, SubmissionFacts, <2>3 DEF SubTypes, TitleTypes, TitleStages, Sound
  <2>4c. PipeTypes'
    BY <1>0, SubmissionFacts, <2>3 DEF SubTypes, PipeTypes, Hands
  <2>4d. WordTypes'
    BY <1>0, SubmissionFacts, <2>3 DEF SubTypes, WordTypes, WorkerTypes
  <2>4. SubTypes'
    BY <2>4a, <2>4b, <2>4c, <2>4d DEF SubTypes
  <2>5. Hands'
    BY <1>0, SubmissionFacts, <2>3
      DEF SubTypes, WorkerTypes, PipeTypes, TitleTypes, Hands, Stages, Taken, Sound, Halted
  <2> QED BY <2>4, <2>5
<1>FinishFlipWork. ASSUME FinishFlipWork
  PROVE  SubTypes' /\ Hands'
  <2> USE <1>FinishFlipWork DEF FinishFlipWork, worker, order, blocks, serial, title, halt, NotifyAll,
      FlipHolders, Committing
  <2>0. /\ pipeline \in Seq(Items) /\ pipeline # << >> /\ Head(pipeline) = pipeline[1] /\ pipeline[1] \in Items
        /\ Len(pipeline) \in Nat /\ 1 \in 1..Len(pipeline)
    <3>1. pipeline \in Seq(Items) /\ pipeline # << >>
      BY DEF SubTypes, PipeTypes
    <3> QED BY <3>1, FirstAndRest
  <2>1. [pipeline[1] EXCEPT !.flip = FALSE] \in Items /\ [pipeline[1] EXCEPT !.flip = FALSE].flip = FALSE
    BY <2>0 DEF Items
  <2>2. /\ pipeline' \in Seq(Items) /\ Len(pipeline') = Len(pipeline)
             /\ pipeline'[1] = [pipeline[1] EXCEPT !.flip = FALSE]
        /\ \A i \in 2..Len(pipeline) : pipeline'[i] = pipeline[i]
    BY <2>0, <2>1, FirstReplaced
  <2>3. \A i \in 1..Len(pipeline') : pipeline'[i].kind = "label" => ~pipeline'[i].flip
    <3> SUFFICES ASSUME NEW i \in 1..Len(pipeline'), pipeline'[i].kind = "label"
                 PROVE  ~pipeline'[i].flip
      OBVIOUS
    <3>1. CASE i = 1
      BY <3>1, <2>1, <2>2
    <3>2. CASE i # 1
      BY <3>2, <2>0, <2>2 DEF SubTypes, PipeTypes
    <3> QED BY <3>1, <3>2
  <2>4a. WorkerTypes'
    BY <1>0, SubmissionFacts, <2>2, <2>3 DEF SubTypes, WorkerTypes, Stages
  <2>4b. TitleTypes'
    BY <1>0, SubmissionFacts, <2>2, <2>3 DEF SubTypes, TitleTypes, TitleStages, Sound
  <2>4c. PipeTypes'
    BY <1>0, SubmissionFacts, <2>2, <2>3 DEF SubTypes, PipeTypes, Hands
  <2>4d. WordTypes'
    BY <1>0, SubmissionFacts, <2>2, <2>3 DEF SubTypes, WordTypes, WorkerTypes
  <2>4. SubTypes'
    BY <2>4a, <2>4b, <2>4c, <2>4d DEF SubTypes
  <2>5. Hands'
    BY <1>0, SubmissionFacts, <2>2, <2>3
      DEF SubTypes, WorkerTypes, PipeTypes, TitleTypes, Hands, Stages, Taken, Sound, Halted
  <2> QED BY <2>4, <2>5
<1>CompleteSubmission. ASSUME CompleteSubmission
  PROVE  SubTypes' /\ Hands'
  <2> USE <1>CompleteSubmission DEF CompleteSubmission, worker, blocks, flips, title, halt, NotifyAll,
      OrderHolders, IdleWaiters, Committing
  <2>0. /\ pipeline \in Seq(Items) /\ pipeline # << >>
        /\ Tail(pipeline) \in Seq(Items) /\ Len(pipeline) \in Nat /\ Len(Tail(pipeline)) = Len(pipeline) - 1
        /\ \A i \in 1..Len(Tail(pipeline)) : Tail(pipeline)[i] = pipeline[i + 1] /\ i + 1 \in 1..Len(pipeline)
    <3>1. pipeline \in Seq(Items) /\ pipeline # << >>
      BY DEF SubTypes, PipeTypes
    <3> QED BY <3>1, FirstAndRest
  <2>3. /\ pipeline' \in Seq(Items)
        /\ \A i \in 1..Len(pipeline') : pipeline'[i].kind = "label" => ~pipeline'[i].flip
    BY <2>0 DEF SubTypes, PipeTypes
  <2>4a. WorkerTypes'
    BY <1>0, SubmissionFacts, <2>3 DEF SubTypes, WorkerTypes, Stages
  <2>4b. TitleTypes'
    BY <1>0, SubmissionFacts, <2>3 DEF SubTypes, TitleTypes, TitleStages, Sound
  <2>4c. PipeTypes'
    BY <1>0, SubmissionFacts, <2>3 DEF SubTypes, PipeTypes, Hands
  <2>4d. WordTypes'
    BY <1>0, SubmissionFacts, <2>3 DEF SubTypes, WordTypes, WorkerTypes
  <2>4. SubTypes'
    BY <2>4a, <2>4b, <2>4c, <2>4d DEF SubTypes
  <2>5. Hands'
    BY <1>0, SubmissionFacts, <2>3
      DEF SubTypes, WorkerTypes, PipeTypes, TitleTypes, Hands, Stages, Taken, Sound, Halted
  <2> QED BY <2>4, <2>5
<1>CommitFails. ASSUME CommitFails
  PROVE  SubTypes' /\ Hands'
  <2> USE <1>CommitFails DEF CommitFails, blocks, serial, flips, title, ReportFailure, Committing, worker,
      NotifyAll, DropPending
  <2>4a. WorkerTypes'
    BY <1>0, SubmissionFacts DEF SubTypes, WorkerTypes, Stages
  <2>4b. TitleTypes'
    BY <1>0, SubmissionFacts DEF SubTypes, TitleTypes, TitleStages, Sound
  <2>4c. PipeTypes'
    BY <1>0, SubmissionFacts DEF SubTypes, PipeTypes, Hands
  <2>4d. WordTypes'
    BY <1>0, SubmissionFacts DEF SubTypes, WordTypes, WorkerTypes
  <2>4. SubTypes'
    BY <2>4a, <2>4b, <2>4c, <2>4d DEF SubTypes
  <2>5. Hands'
    BY <1>0, SubmissionFacts DEF SubTypes, WorkerTypes, PipeTypes, TitleTypes, Hands, Stages, Taken, Sound, Halted
  <2> QED BY <2>4, <2>5
<1>DropItem. ASSUME DropItem
  PROVE  SubTypes' /\ Hands'
  <2> USE <1>DropItem DEF DropItem, worker, order, blocks, serial, flips, title, halt
  <2>0. /\ pipeline \in Seq(Items) /\ pipeline # << >>
        /\ Tail(pipeline) \in Seq(Items) /\ Len(pipeline) \in Nat /\ Len(Tail(pipeline)) = Len(pipeline) - 1
        /\ \A i \in 1..Len(Tail(pipeline)) : Tail(pipeline)[i] = pipeline[i + 1] /\ i + 1 \in 1..Len(pipeline)
    <3>1. pipeline \in Seq(Items) /\ pipeline # << >>
      BY DEF SubTypes, PipeTypes
    <3> QED BY <3>1, FirstAndRest
  <2>3. /\ pipeline' \in Seq(Items)
        /\ \A i \in 1..Len(pipeline') : pipeline'[i].kind = "label" => ~pipeline'[i].flip
    BY <2>0 DEF SubTypes, PipeTypes
  <2>4a. WorkerTypes'
    BY <1>0, SubmissionFacts, <2>3 DEF SubTypes, WorkerTypes, Stages
  <2>4b. TitleTypes'
    BY <1>0, SubmissionFacts, <2>3 DEF SubTypes, TitleTypes, TitleStages, Sound
  <2>4c. PipeTypes'
    BY <1>0, SubmissionFacts, <2>3 DEF SubTypes, PipeTypes, Hands
  <2>4d. WordTypes'
    BY <1>0, SubmissionFacts, <2>3 DEF SubTypes, WordTypes, WorkerTypes
  <2>4. SubTypes'
    BY <2>4a, <2>4b, <2>4c, <2>4d DEF SubTypes
  <2>5. Hands'
    BY <1>0, SubmissionFacts, <2>3
      DEF SubTypes, WorkerTypes, PipeTypes, TitleTypes, Hands, Stages, Taken, Sound, Halted
  <2> QED BY <2>4, <2>5
<1>Stop. ASSUME Stop
  PROVE  SubTypes' /\ Hands'
  <2> USE <1>Stop DEF Stop, blocks, serial, commit, flips, title, NotifyAll, DropPending
  <2>4a. WorkerTypes'
    BY <1>0, SubmissionFacts DEF SubTypes, WorkerTypes, Stages
  <2>4b. TitleTypes'
    BY <1>0, SubmissionFacts DEF SubTypes, TitleTypes, TitleStages, Sound
  <2>4c. PipeTypes'
    BY <1>0, SubmissionFacts DEF SubTypes, PipeTypes, Hands
  <2>4d. WordTypes'
    BY <1>0, SubmissionFacts DEF SubTypes, WordTypes, WorkerTypes
  <2>4. SubTypes'
    BY <2>4a, <2>4b, <2>4c, <2>4d DEF SubTypes
  <2>5. Hands'
    BY <1>0, SubmissionFacts DEF SubTypes, WorkerTypes, PipeTypes, TitleTypes, Hands, Stages, Taken, Sound, Halted
  <2> QED BY <2>4, <2>5
<1>Submit. ASSUME NEW t \in Titles, NEW p \in Programs, Submit(t, p)
  PROVE  SubTypes' /\ Hands'
  <2> USE <1>Submit DEF Submit, worker, order, blocks, serial, commit, flips, halt, TitleStep
  <2> DEFINE x == [serial |-> 0, queue |-> p.queue, waits |-> p.waits, writes |-> p.writes,
                    flip |-> p.flip, suspend |-> p.suspend]
  <2>2. x \in Submissions /\ Sound(x, x.queue)
    <3>0. p \in Programs
      OBVIOUS
    <3> HIDE <1>Submit
    <3>1. /\ p.queue \in Queues /\ p.waits \in Labels \cup {NoLabel} /\ p.writes \in Labels \cup {NoLabel}
          /\ p.flip \in BOOLEAN /\ p.suspend \in BOOLEAN
      BY <3>0, ProgramFacts
    <3>2. x \in Submissions
      BY <3>1 DEF Submissions
    <3>3. Sound(x, x.queue)
      <4>1. (p.flip \/ p.suspend => p.queue = Graphics) /\ (p.suspend => ~p.flip /\ p.waits = NoLabel)
        BY <3>0, ProgramFacts
      <4> QED BY <4>1 DEF Sound
    <3> QED BY <3>2, <3>3
  <2>3. request' = [request EXCEPT ![t] = x]
    OBVIOUS
  <2>0. request' \in [Titles -> Submissions] /\ \A u \in Titles : request'[u] = request[u] \/ request'[u] = x
    BY <2>2, <2>3 DEF SubTypes, TitleTypes
  <2> HIDE DEF x
  <2>4a. WorkerTypes'
    BY <1>0, SubmissionFacts, <2>0, <2>2 DEF SubTypes, WorkerTypes, Stages
  <2>4b. TitleTypes'
    BY <1>0, SubmissionFacts, <2>0, <2>2 DEF SubTypes, TitleTypes, TitleStages, Sound
  <2>4c. PipeTypes'
    BY <1>0, SubmissionFacts, <2>0, <2>2 DEF SubTypes, PipeTypes, Hands
  <2>4d. WordTypes'
    BY <1>0, SubmissionFacts, <2>0, <2>2 DEF SubTypes, WordTypes, WorkerTypes
  <2>4. SubTypes'
    BY <2>4a, <2>4b, <2>4c, <2>4d DEF SubTypes
  <2>5. Hands'
    BY <1>0, SubmissionFacts, <2>0, <2>2
      DEF SubTypes, WorkerTypes, PipeTypes, TitleTypes, Hands, Stages, Taken, Sound, Halted
  <2> QED BY <2>4, <2>5
<1>TitleSleeps. ASSUME NEW t \in Titles, TitleSleeps(t)
  PROVE  SubTypes' /\ Hands'
  <2> USE <1>TitleSleeps DEF TitleSleeps, worker, order, blocks, serial, commit, flips, title, halt,
      FlipHolders, IdleWaiters
  <2>4a. WorkerTypes'
    BY <1>0, SubmissionFacts DEF SubTypes, WorkerTypes, Stages
  <2>4b. TitleTypes'
    BY <1>0, SubmissionFacts DEF SubTypes, TitleTypes, TitleStages, Sound
  <2>4c. PipeTypes'
    BY <1>0, SubmissionFacts DEF SubTypes, PipeTypes, Hands
  <2>4d. WordTypes'
    BY <1>0, SubmissionFacts DEF SubTypes, WordTypes, WorkerTypes
  <2>4. SubTypes'
    BY <2>4a, <2>4b, <2>4c, <2>4d DEF SubTypes
  <2>5. Hands'
    BY <1>0, SubmissionFacts DEF SubTypes, WorkerTypes, PipeTypes, TitleTypes, Hands, Stages, Taken, Sound, Halted
  <2> QED BY <2>4, <2>5
<1>PassFlipHold. ASSUME NEW t \in Titles, PassFlipHold(t)
  PROVE  SubTypes' /\ Hands'
  <2> USE <1>PassFlipHold DEF PassFlipHold, worker, order, blocks, serial, commit, flips, halt, TitleStep,
      FlipHolders
  <2>4a. WorkerTypes'
    BY <1>0, SubmissionFacts DEF SubTypes, WorkerTypes, Stages
  <2>4b. TitleTypes'
    BY <1>0, SubmissionFacts DEF SubTypes, TitleTypes, TitleStages, Sound
  <2>4c. PipeTypes'
    BY <1>0, SubmissionFacts DEF SubTypes, PipeTypes, Hands
  <2>4d. WordTypes'
    BY <1>0, SubmissionFacts DEF SubTypes, WordTypes, WorkerTypes
  <2>4. SubTypes'
    BY <2>4a, <2>4b, <2>4c, <2>4d DEF SubTypes
  <2>5. Hands'
    BY <1>0, SubmissionFacts DEF SubTypes, WorkerTypes, PipeTypes, TitleTypes, Hands, Stages, Taken, Sound, Halted
  <2> QED BY <2>4, <2>5
<1>Enqueue. ASSUME NEW t \in Titles, Enqueue(t)
  PROVE  SubTypes' /\ Hands'
  <2> USE <1>Enqueue DEF Enqueue, blocks, commit, halt, TitleStep, NotifyAll
  <2> DEFINE s == [request[t] EXCEPT !.serial = accepted + 1]
             o == pending[s.queue]
             a == Append(o, s)
  <2>r. request[t] \in Submissions /\ accepted + 1 \in Nat /\ Sound(request[t], request[t].queue)
    BY DEF SubTypes, TitleTypes
  <2>0. /\ s \in Submissions /\ s.serial = accepted + 1 /\ s.serial # 0 /\ s.queue \in Queues
        /\ s.queue = request[t].queue /\ s.waits = request[t].waits /\ s.flip = request[t].flip
        /\ s.suspend = request[t].suspend
    BY <2>r, Numbered, SubmissionFacts
  <2>s. Sound(s, s.queue)
    BY <2>0, <2>r DEF Sound
  <2>3. \/ UNCHANGED pending
        \/ pending' = [pending EXCEPT ![s.queue] = a]
    OBVIOUS
  <2>i. \/ flipsAhead' = flipsAhead /\ flipWorkOpen' = flipWorkOpen
        \/ flipsAhead' = flipsAhead + 1 /\ flipWorkOpen' = flipWorkOpen + 1
        \/ flipsAhead' = flipsAhead + 0 /\ flipWorkOpen' = flipWorkOpen + 0
    OBVIOUS
  <2>5. /\ pc' = pc /\ current' = current /\ pipeline' = pipeline /\ committer' = committer
        /\ UNCHANGED <<failure, stopping, queue0AwaitsTitle, executingWaitFree, executingWaits, runningWorkers>>
        /\ request' = [request EXCEPT ![t] = NoSubmission] /\ titlePc' = [titlePc EXCEPT ![t] = "ready"]
    OBVIOUS
  <2> HIDE <1>Enqueue DEF s
  <2>1. pending[s.queue] \in Seq(Submissions)
    BY <2>0 DEF SubTypes, WorkerTypes
  <2>2. /\ a \in Seq(Submissions) /\ Len(o) \in Nat
        /\ Len(a) = Len(o) + 1
        /\ a[Len(o) + 1] = s
        /\ \A i \in 1..Len(o) : a[i] = o[i]
    BY <2>0, <2>1, OneMore
  <2> HIDE DEF a
  <2>4. \A i \in 1..Len(a) : Sound(a[i], s.queue)
    <3> TAKE i \in 1..Len(a)
    <3>1. CASE i \in 1..Len(o)
      BY <3>1, <2>0, <2>2 DEF Hands
    <3>2. CASE i = Len(o) + 1
      BY <3>2, <2>s, <2>2
    <3> QED BY <3>1, <3>2, <2>2
  <2>6a. WorkerTypes'
    BY <2>0, <2>2, <2>3, <2>5 DEF SubTypes, WorkerTypes
  <2>6b. TitleTypes'
    BY <2>0, <2>5, SubmissionFacts DEF SubTypes, TitleTypes, TitleStages, Sound
  <2>6c. PipeTypes'
    BY <2>5 DEF SubTypes, PipeTypes
  <2>6d. WordTypes'
    BY <2>5, <2>i DEF SubTypes, WordTypes
  <2>7. Hands'
    <3>1. \A r \in Queues : pending'[r] = pending[r] \/ (r = s.queue /\ pending'[r] = a)
      BY <2>0, <2>3 DEF SubTypes, WorkerTypes
    <3>2. \A r \in Queues : \A i \in 1..Len(pending'[r]) : Sound(pending'[r][i], r)
      BY <3>1, <2>4 DEF Hands
    <3> QED BY <3>2, <2>5 DEF Hands, Halted
  <2> QED BY <2>6a, <2>6b, <2>6c, <2>6d, <2>7 DEF SubTypes
<1>WaitIdle. ASSUME NEW t \in Titles, WaitIdle(t)
  PROVE  SubTypes' /\ Hands'
  <2> USE <1>WaitIdle DEF WaitIdle, worker, order, blocks, serial, commit, flips, halt, TitleStep
  <2>4a. WorkerTypes'
    BY <1>0, SubmissionFacts DEF SubTypes, WorkerTypes, Stages
  <2>4b. TitleTypes'
    BY <1>0, SubmissionFacts DEF SubTypes, TitleTypes, TitleStages, Sound
  <2>4c. PipeTypes'
    BY <1>0, SubmissionFacts DEF SubTypes, PipeTypes, Hands
  <2>4d. WordTypes'
    BY <1>0, SubmissionFacts DEF SubTypes, WordTypes, WorkerTypes
  <2>4. SubTypes'
    BY <2>4a, <2>4b, <2>4c, <2>4d DEF SubTypes
  <2>5. Hands'
    BY <1>0, SubmissionFacts DEF SubTypes, WorkerTypes, PipeTypes, TitleTypes, Hands, Stages, Taken, Sound, Halted
  <2> QED BY <2>4, <2>5
<1>Idled. ASSUME NEW t \in Titles, Idled(t)
  PROVE  SubTypes' /\ Hands'
  <2> USE <1>Idled DEF Idled, worker, order, blocks, serial, commit, flips, halt, TitleStep, IdleWaiters
  <2>4a. WorkerTypes'
    BY <1>0, SubmissionFacts DEF SubTypes, WorkerTypes, Stages
  <2>4b. TitleTypes'
    BY <1>0, SubmissionFacts DEF SubTypes, TitleTypes, TitleStages, Sound
  <2>4c. PipeTypes'
    BY <1>0, SubmissionFacts DEF SubTypes, PipeTypes, Hands
  <2>4d. WordTypes'
    BY <1>0, SubmissionFacts DEF SubTypes, WordTypes, WorkerTypes
  <2>4. SubTypes'
    BY <2>4a, <2>4b, <2>4c, <2>4d DEF SubTypes
  <2>5. Hands'
    BY <1>0, SubmissionFacts DEF SubTypes, WorkerTypes, PipeTypes, TitleTypes, Hands, Stages, Taken, Sound, Halted
  <2> QED BY <2>4, <2>5
<1>TitleStores. ASSUME NEW t \in Titles, NEW l \in Labels, TitleStores(t, l)
  PROVE  SubTypes' /\ Hands'
  <2> USE <1>TitleStores DEF TitleStores, worker, order, blocks, serial, commit, flips, title, halt
  <2>4a. WorkerTypes'
    BY <1>0, SubmissionFacts DEF SubTypes, WorkerTypes, Stages
  <2>4b. TitleTypes'
    BY <1>0, SubmissionFacts DEF SubTypes, TitleTypes, TitleStages, Sound
  <2>4c. PipeTypes'
    BY <1>0, SubmissionFacts DEF SubTypes, PipeTypes, Hands
  <2>4d. WordTypes'
    BY <1>0, SubmissionFacts DEF SubTypes, WordTypes, WorkerTypes
  <2>4. SubTypes'
    BY <2>4a, <2>4b, <2>4c, <2>4d DEF SubTypes
  <2>5. Hands'
    BY <1>0, SubmissionFacts DEF SubTypes, WorkerTypes, PipeTypes, TitleTypes, Hands, Stages, Taken, Sound, Halted
  <2> QED BY <2>4, <2>5
<1> QED BY <1>Sleep, <1>Dequeue, <1>Start, <1>Retire, <1>PassWait, <1>Block, <1>Unblock, <1>ReleaseFlip,
           <1>Store, <1>EndExecute, <1>Complete, <1>Leave, <1>Unwind, <1>Catch, <1>DeferCompletion,
           <1>AwaitsTitle, <1>NoteAwaitingTitle, <1>CommitLabel, <1>FinishFlipWork, <1>CompleteSubmission,
           <1>CommitFails, <1>DropItem, <1>Stop, <1>Submit, <1>TitleSleeps, <1>PassFlipHold, <1>Enqueue,
           <1>WaitIdle, <1>Idled, <1>TitleStores
          DEF Next, WorkerStep, CommitterStep, TitleAction

-----------------------------------------------------------------------------
(* The serials.                                                            *)

\* Nothing is marked, accepted or dequeued; a halted driver may drop what it has.
LEMMA SerialsKept ==
    ASSUME SubTypes, SubTypes', SerialsInv, UNCHANGED serial, Halted => Halted',
           \A r \in Queues : current'[r].serial = current[r].serial \/ current'[r].serial = 0,
           \A r \in Queues : \/ pending'[r] = pending[r] /\ Here'[r] = Here[r]
                             \/ Halted' /\ pending'[r] \in {pending[r], << >>} /\ Here'[r] \subseteq Here[r],
           Ascending(pipeline', Completions), InPipe' \subseteq InPipe, ~Halted' => InPipe' = InPipe
    PROVE  SerialsInv'
<1>1. \A r \in Queues : \/ pending'[r] = pending[r] /\ Listed'[r] = Listed[r]
                        \/ Halted' /\ pending'[r] = << >> /\ Listed'[r] = {}
  BY DEF Listed, Serials
<1>2. Ascending(<< >>, Submissions)
  BY DEF Ascending
<1>3. ASSUME NEW r \in Queues
      PROVE  QueueAscends(r)'
  <2>1. QueueAscends(r) /\ accepted' = accepted /\ accepted \in Nat
    BY DEF SerialsInv, Ascends, serial
  <2>2. Ascending(pending'[r], Submissions) /\ Listed'[r] \subseteq Listed[r]
    BY <2>1, <1>1, <1>2 DEF QueueAscends
  <2>3. current'[r].serial \in 0..accepted /\ current'[r].serial <= current[r].serial
    BY <2>1 DEF QueueAscends
  <2> QED BY <2>1, <2>2, <2>3 DEF QueueAscends
<1>4. (\A r \in Queues : OpenAt'[r] \subseteq OpenAt[r]) /\ (~Halted' => \A r \in Queues : OpenAt'[r] = OpenAt[r])
  <2>1. \A r \in Queues : OpenAt'[r] = Here'[r] \cup Listed'[r] /\ OpenAt[r] = Here[r] \cup Listed[r]
    BY DEF OpenAt
  <2> QED BY <2>1, <1>1
<1>5. Done' = Done /\ Halted \in BOOLEAN /\ Halted' \in BOOLEAN
  BY DEF Done, serial, Halted, SubTypes, WordTypes
<1>6. Places(OpenAt', InPipe', Done', accepted', ~Halted')
  <2>1. Places(OpenAt, InPipe, Done, accepted, ~Halted) /\ accepted \in Nat /\ accepted' = accepted
    BY DEF SerialsInv, serial
  <2>2. Places(OpenAt', InPipe', Done', accepted, ~Halted')
    <3> DEFINE O == OpenAt
               P == OpenAt'
               U == InPipe
               V == InPipe'
               C == Done
               w == ~Halted
               x == ~Halted'
    <3>1. /\ Places(O, U, C, accepted, w) /\ w \in BOOLEAN /\ x \in BOOLEAN /\ (x => w)
          /\ V \subseteq U /\ (\A q \in Queues : P[q] \subseteq O[q]) /\ accepted \in Nat
          /\ x => V = U /\ \A q \in Queues : P[q] = O[q]
      BY <2>1, <1>4, <1>5
    <3> HIDE DEF O, P, U, V, C, w, x
    <3>2. Places(P, V, C, accepted, x)
      BY <3>1, Kept
    <3> QED BY <3>2, <1>5 DEF P, V, C, x
  <2> QED BY <2>1, <2>2
<1> QED BY <1>3, <1>5, <1>6 DEF SerialsInv, Ascends, serial, Done

\* Every step keeps each serial in one place, and the serials of each list ascending.
LEMMA SerialsStep ==
    ASSUME SubTypes, Hands, SubTypes', SerialsInv, Next
    PROVE  SerialsInv'
<1> USE QueuesAssumption
<1>0. Graphics \in Queues /\ pc \in [Queues -> Stages] /\ current \in [Queues -> Submissions]
      /\ pending \in [Queues -> Seq(Submissions)] /\ pipeline \in Seq(Items)
      /\ Ascending(pipeline, Completions)
  BY DEF SubTypes, WorkerTypes, PipeTypes, SerialsInv, Ascends
<1>Sleep. ASSUME NEW q \in Queues, Sleep(q)
  PROVE  SerialsInv'
  <2> USE <1>Sleep DEF Sleep, worker, order, blocks, serial, commit, flips, title, halt
  <2>1. UNCHANGED serial /\ pipeline' = pipeline /\ (Halted => Halted')
    BY DEF Halted
  <2>2. \A r \in Queues : current'[r].serial = current[r].serial \/ current'[r].serial = 0
    BY <1>0, SubmissionFacts
  <2>3. \A r \in Queues : \/ pending'[r] = pending[r] /\ Here'[r] = Here[r]
                          \/ Halted' /\ pending'[r] \in {pending[r], << >>} /\ Here'[r] \subseteq Here[r]
    BY <1>0, SubmissionFacts DEF Here, Hands, Halted, Stages, Taken
  <2> HIDE <1>Sleep
  <2> QED BY <2>1, <2>2, <2>3, <1>0, SerialsKept DEF InPipe
<1>Dequeue. ASSUME NEW q \in Queues, Dequeue(q)
  PROVE  SerialsInv'
  <2> USE <1>Dequeue DEF Dequeue, serial, commit, flips, title, halt, Step
  <2>1. /\ accepted \in Nat /\ completed \in 0..accepted /\ completedOutOfOrder \subseteq completed + 1 .. accepted
        /\ Places(OpenAt, InPipe, Done, accepted, ~Halted) /\ Halted \in BOOLEAN
        /\ \A r \in Queues : QueueAscends(r)
    BY DEF SerialsInv, Ascends, Halted, SubTypes, WordTypes
  <2> DEFINE s == Head(pending[q])
             t == Tail(pending[q])
             n == s.serial
  <2>0. pending[q] \in Seq(Submissions) /\ pending[q] # << >>
    BY <1>0
  <2>2. /\ pending' = [pending EXCEPT ![q] = t] /\ current' = [current EXCEPT ![q] = s]
        /\ accepted' = accepted /\ Halted' = Halted /\ pipeline' = pipeline /\ Done' = Done
        /\ completed' = completed /\ completedOutOfOrder' = completedOutOfOrder
        /\ pc' = [pc EXCEPT ![q] = pc'[q]] /\ pc'[q] \in {"hold", "run"} /\ pc[q] = "ready"
    BY <1>0 DEF Halted, Done
  <2> HIDE <1>Dequeue
  <2>3. /\ s \in Submissions /\ Serials(pending[q], Submissions) = {n} \cup Serials(t, Submissions)
        /\ (Ascending(pending[q], Submissions)
              => Ascending(t, Submissions) /\ \A u \in Serials(t, Submissions) : n < u)
    <3>1. s \in Submissions
      BY <2>0, FirstAndRest
    <3> QED BY <3>1, <2>0, SerialsFirst
  <2>i. n \in Nat
    BY <2>3, SubmissionFacts
  <2> HIDE DEF s, t, n
  <2>4. /\ Listed[q] = {n} \cup Serials(t, Submissions) /\ Listed'[q] = Serials(t, Submissions)
        /\ \A r \in Queues : r # q => Listed'[r] = Listed[r]
    BY <2>2, <2>3, <1>0 DEF Listed
  <2>5. n \in 1..accepted /\ QueueAscends(q) /\ Ascending(pending[q], Submissions)
    BY <2>1, <2>4 DEF QueueAscends
  <2>6. current'[q].serial = n /\ current'[q] = s
    BY <2>2, <1>0 DEF n
  <2>7. ASSUME NEW r \in Queues
        PROVE  QueueAscends(r)'
    <3>1. CASE r = q
      <4>1. Ascending(pending'[q], Submissions)
        BY <2>2, <2>3, <2>5, <1>0
      <4>2. \A u \in Listed'[q] : u \in 1..accepted /\ n < u
        BY <2>3, <2>4, <2>5 DEF QueueAscends
      <4> QED BY <3>1, <4>1, <4>2, <2>2, <2>5, <2>6 DEF QueueAscends
    <3>2. CASE r # q
      <4>1. pending'[r] = pending[r] /\ current'[r] = current[r] /\ Listed'[r] = Listed[r]
        BY <3>2, <2>2, <2>4, <1>0
      <4> QED BY <4>1, <2>1, <2>2 DEF QueueAscends
    <3> QED BY <3>1, <3>2
  <2>8. OpenAt' = OpenAt
    <3>1. Here[q] = {} /\ Here'[q] = {n} /\ \A r \in Queues : r # q => Here'[r] = Here[r]
      BY <1>0, <2>2, <2>5, <2>6, SubmissionFacts DEF Here, Hands
    <3>2. \A r \in Queues : Here'[r] \cup Listed'[r] = Here[r] \cup Listed[r]
      BY <3>1, <2>4
    <3> QED BY <3>2 DEF OpenAt
  <2> QED BY <2>1, <2>2, <2>7, <2>8, <1>0 DEF SerialsInv, Ascends, InPipe
<1>Start. ASSUME NEW q \in Queues, Start(q)
  PROVE  SerialsInv'
  <2> USE <1>Start DEF Start, order, serial, commit, flips, title, halt, Step
  <2>1. UNCHANGED serial /\ pipeline' = pipeline /\ (Halted => Halted')
    BY DEF Halted
  <2>2. \A r \in Queues : current'[r].serial = current[r].serial \/ current'[r].serial = 0
    BY <1>0, SubmissionFacts
  <2>3. \A r \in Queues : \/ pending'[r] = pending[r] /\ Here'[r] = Here[r]
                          \/ Halted' /\ pending'[r] \in {pending[r], << >>} /\ Here'[r] \subseteq Here[r]
    BY <1>0, SubmissionFacts DEF Here, Hands, Halted, Stages, Taken
  <2> HIDE <1>Start
  <2> QED BY <2>1, <2>2, <2>3, <1>0, SerialsKept DEF InPipe
<1>Retire. ASSUME NEW q \in Queues, Retire(q)
  PROVE  SerialsInv'
  <2> USE <1>Retire DEF Retire, order, blocks, serial, commit, flips, title, halt, Step
  <2>1. UNCHANGED serial /\ pipeline' = pipeline /\ (Halted => Halted')
    BY DEF Halted
  <2>2. \A r \in Queues : current'[r].serial = current[r].serial \/ current'[r].serial = 0
    BY <1>0, SubmissionFacts
  <2>3. \A r \in Queues : \/ pending'[r] = pending[r] /\ Here'[r] = Here[r]
                          \/ Halted' /\ pending'[r] \in {pending[r], << >>} /\ Here'[r] \subseteq Here[r]
    BY <1>0, SubmissionFacts DEF Here, Hands, Halted, Stages, Taken
  <2> HIDE <1>Retire
  <2> QED BY <2>1, <2>2, <2>3, <1>0, SerialsKept DEF InPipe
<1>PassWait. ASSUME NEW q \in Queues, PassWait(q)
  PROVE  SerialsInv'
  <2> USE <1>PassWait DEF PassWait, order, blocks, serial, commit, flips, title, halt, Step
  <2>1. UNCHANGED serial /\ pipeline' = pipeline /\ (Halted => Halted')
    BY DEF Halted
  <2>2. \A r \in Queues : current'[r].serial = current[r].serial \/ current'[r].serial = 0
    BY <1>0, SubmissionFacts
  <2>3. \A r \in Queues : \/ pending'[r] = pending[r] /\ Here'[r] = Here[r]
                          \/ Halted' /\ pending'[r] \in {pending[r], << >>} /\ Here'[r] \subseteq Here[r]
    BY <1>0, SubmissionFacts DEF Here, Hands, Halted, Stages, Taken
  <2> HIDE <1>PassWait
  <2> QED BY <2>1, <2>2, <2>3, <1>0, SerialsKept DEF InPipe
<1>Block. ASSUME NEW q \in Queues, Block(q)
  PROVE  SerialsInv'
  <2> USE <1>Block DEF Block, order, serial, commit, flips, title, halt, Step, NotifyAll
  <2>1. UNCHANGED serial /\ pipeline' = pipeline /\ (Halted => Halted')
    BY DEF Halted
  <2>2. \A r \in Queues : current'[r].serial = current[r].serial \/ current'[r].serial = 0
    BY <1>0, SubmissionFacts
  <2>3. \A r \in Queues : \/ pending'[r] = pending[r] /\ Here'[r] = Here[r]
                          \/ Halted' /\ pending'[r] \in {pending[r], << >>} /\ Here'[r] \subseteq Here[r]
    BY <1>0, SubmissionFacts DEF Here, Hands, Halted, Stages, Taken
  <2> HIDE <1>Block
  <2> QED BY <2>1, <2>2, <2>3, <1>0, SerialsKept DEF InPipe
<1>Unblock. ASSUME NEW q \in Queues, Unblock(q)
  PROVE  SerialsInv'
  <2> USE <1>Unblock DEF Unblock, order, serial, commit, title, halt, Step, EndBlock
  <2>1. UNCHANGED serial /\ pipeline' = pipeline /\ (Halted => Halted')
    BY DEF Halted
  <2>2. \A r \in Queues : current'[r].serial = current[r].serial \/ current'[r].serial = 0
    BY <1>0, SubmissionFacts
  <2>3. \A r \in Queues : \/ pending'[r] = pending[r] /\ Here'[r] = Here[r]
                          \/ Halted' /\ pending'[r] \in {pending[r], << >>} /\ Here'[r] \subseteq Here[r]
    BY <1>0, SubmissionFacts DEF Here, Hands, Halted, Stages, Taken
  <2> HIDE <1>Unblock
  <2> QED BY <2>1, <2>2, <2>3, <1>0, SerialsKept DEF InPipe
<1>ReleaseFlip. ASSUME NEW q \in Queues, ReleaseFlip(q)
  PROVE  SerialsInv'
  <2> USE <1>ReleaseFlip DEF ReleaseFlip, order, blocks, serial, commit, title, halt, Step, NotifyAll
  <2>1. UNCHANGED serial /\ pipeline' = pipeline /\ (Halted => Halted')
    BY DEF Halted
  <2>2. \A r \in Queues : current'[r].serial = current[r].serial \/ current'[r].serial = 0
    BY <1>0, SubmissionFacts
  <2>3. \A r \in Queues : \/ pending'[r] = pending[r] /\ Here'[r] = Here[r]
                          \/ Halted' /\ pending'[r] \in {pending[r], << >>} /\ Here'[r] \subseteq Here[r]
    BY <1>0, SubmissionFacts DEF Here, Hands, Halted, Stages, Taken
  <2> HIDE <1>ReleaseFlip
  <2> QED BY <2>1, <2>2, <2>3, <1>0, SerialsKept DEF InPipe
<1>Store. ASSUME NEW q \in Queues, Store(q)
  PROVE  SerialsInv'
  <2> USE <1>Store DEF Store, order, blocks, serial, flips, title, halt, Step, Room
  <2>1. UNCHANGED serial /\ (Halted => Halted') /\ pc \in [Queues -> Stages]
    BY <1>0 DEF Halted
  <2>2. \A r \in Queues : current'[r].serial = current[r].serial \/ current'[r].serial = 0
    BY <1>0
  <2>3. \A r \in Queues : pending'[r] = pending[r] /\ Here'[r] = Here[r]
    BY <1>0 DEF Here
  <2> DEFINE x == [kind |-> "label", serial |-> 0, writes |-> current[q].writes, flip |-> FALSE]
  <2>4. x \in Items /\ x \notin Completions
    BY <1>0, SubmissionFacts DEF Items, Completions
  <2>5. UNCHANGED pipeline \/ pipeline' = Append(pipeline, x)
    OBVIOUS
  <2>6. /\ Serials(Append(pipeline, x), Completions) = Serials(pipeline, Completions)
        /\ Ascending(Append(pipeline, x), Completions)
    <3> HIDE <1>Store DEF x
    <3>0. pipeline \in Seq(Items) /\ x \in Items /\ Ascending(pipeline, Completions)
      BY <2>4, <1>0
    <3>1. /\ Serials(Append(pipeline, x), Completions)
               = Serials(pipeline, Completions) \cup (IF x \in Completions THEN {x.serial} ELSE {})
          /\ (x \in Completions => \A u \in Serials(pipeline, Completions) : u < x.serial)
                => Ascending(Append(pipeline, x), Completions)
      BY <3>0, SerialsMore
    <3> QED BY <3>1, <2>4
  <2>8. Ascending(pipeline', Completions) /\ InPipe' = InPipe
    <3> HIDE <1>Store DEF x
    <3> QED BY <2>5, <2>6, <1>0 DEF InPipe
  <2> HIDE <1>Store
  <2> QED BY <2>1, <2>2, <2>3, <2>8, SerialsKept
<1>EndExecute. ASSUME NEW q \in Queues, EndExecute(q)
  PROVE  SerialsInv'
  <2> USE <1>EndExecute DEF EndExecute, order, blocks, serial, commit, title, halt, Step, NotifyAll
  <2>1. UNCHANGED serial /\ pipeline' = pipeline /\ (Halted => Halted')
    BY DEF Halted
  <2>2. \A r \in Queues : current'[r].serial = current[r].serial \/ current'[r].serial = 0
    BY <1>0, SubmissionFacts
  <2>3. \A r \in Queues : \/ pending'[r] = pending[r] /\ Here'[r] = Here[r]
                          \/ Halted' /\ pending'[r] \in {pending[r], << >>} /\ Here'[r] \subseteq Here[r]
    BY <1>0, SubmissionFacts DEF Here, Hands, Halted, Stages, Taken
  <2> HIDE <1>EndExecute
  <2> QED BY <2>1, <2>2, <2>3, <1>0, SerialsKept DEF InPipe
<1>Complete. ASSUME NEW q \in Queues, Complete(q)
  PROVE  SerialsInv'
  <2> USE <1>Complete DEF Complete, blocks, serial, commit, flips, title, halt, Step, NotifyAll
  <2>d. CASE pc[q] = "deferred"
    <3>1. UNCHANGED serial /\ pipeline' = pipeline /\ (Halted => Halted')
      BY <2>d DEF Halted
    <3>2. \A r \in Queues : current'[r].serial = current[r].serial \/ current'[r].serial = 0
      OBVIOUS
    <3>3. \A r \in Queues : pending'[r] = pending[r] /\ Here'[r] = Here[r]
      BY <2>d, <1>0 DEF Here
    <3> HIDE <1>Complete
    <3> QED BY <3>1, <3>2, <3>3, <1>0, SerialsKept DEF InPipe
  <2>e. CASE pc[q] = "executed"
    <3>1. /\ accepted \in Nat /\ completed \in 0..accepted
               /\ completedOutOfOrder \subseteq completed + 1 .. accepted
          /\ Places(OpenAt, InPipe, Done, accepted, ~Halted) /\ Halted \in BOOLEAN
          /\ \A r \in Queues : QueueAscends(r)
      BY DEF SerialsInv, Ascends, Halted, SubTypes, WordTypes
    <3> DEFINE n == current[q].serial
    <3>2. /\ pending' = pending /\ current' = current /\ accepted' = accepted /\ Halted' = Halted
               /\ pipeline' = pipeline
          /\ MarkCompleted(n)
      BY <2>e DEF Halted
    <3>3. n # 0 /\ Here[q] = {n} /\ Here'[q] = {} /\ \A r \in Queues : r # q => Here'[r] = Here[r]
      BY <1>0, <2>e DEF Here, Hands, Stages, Taken
    <3>4. /\ n \in OpenAt[q] /\ OpenAt'[q] = OpenAt[q] \ {n} /\ \A r \in Queues : r # q => OpenAt'[r] = OpenAt[r]
          /\ \A m \in OpenAt'[q] : n < m
      <4>1. \A r \in Queues : OpenAt'[r] = Here'[r] \cup Listed'[r] /\ OpenAt[r] = Here[r] \cup Listed[r]
        BY DEF OpenAt
      <4>2. \A r \in Queues : Listed'[r] = Listed[r]
        BY <3>2 DEF Listed
      <4>3. \A m \in Listed[q] : n < m
        BY <3>1, <1>0 DEF QueueAscends
      <4>4. n \notin Listed[q]
        BY <4>3, <3>1, <1>0 DEF QueueAscends
      <4> HIDE <1>Complete DEF n
      <4> QED BY <1>0, <3>3, <4>1, <4>2, <4>3, <4>4
    <3>q. \A r \in Queues : QueueAscends(r)'
      BY <3>1, <3>2 DEF QueueAscends, Listed
    <3> HIDE <1>Complete DEF n
    <3> DEFINE O == OpenAt
               P == OpenAt'
               U == InPipe
               C == Done
               w == ~Halted
    <3>7. /\ Places(O, U, C, accepted, w) /\ w \in BOOLEAN /\ accepted \in Nat
          /\ n \in O[q] /\ P[q] = O[q] \ {n} /\ (\A r \in Queues : r # q => P[r] = O[r])
      BY <3>1, <3>4
    <3>6. n \in 1..accepted /\ n \notin Done
      BY <3>7 DEF Places
    <3>m. /\ completed' \in 0..accepted /\ completedOutOfOrder' \subseteq completed' + 1 .. accepted
          /\ Done' = Done \cup {n}
      BY <3>1, <3>2, <3>6, Marking
    <3> HIDE DEF O, P, U, C, w
    <3>8. Places(P, U, C \cup {n}, accepted, w)
      BY <3>7, Finished
    <3>9. Places(OpenAt', InPipe', Done', accepted', ~Halted')
      BY <3>8, <3>2, <3>m DEF P, U, C, w, InPipe
    <3> QED BY <1>0, <3>1, <3>2, <3>q, <3>m, <3>9 DEF SerialsInv, Ascends
  <2> QED BY <2>d, <2>e
<1>Leave. ASSUME NEW q \in Queues, Leave(q)
  PROVE  SerialsInv'
  <2> USE <1>Leave DEF Leave, order, serial, commit, flips, title, halt, Step, NotifyAll
  <2>1. UNCHANGED serial /\ pipeline' = pipeline /\ (Halted => Halted')
    BY DEF Halted
  <2>2. \A r \in Queues : current'[r].serial = current[r].serial \/ current'[r].serial = 0
    BY <1>0, SubmissionFacts
  <2>3. \A r \in Queues : \/ pending'[r] = pending[r] /\ Here'[r] = Here[r]
                          \/ Halted' /\ pending'[r] \in {pending[r], << >>} /\ Here'[r] \subseteq Here[r]
    BY <1>0, SubmissionFacts DEF Here, Hands, Halted, Stages, Taken
  <2> HIDE <1>Leave
  <2> QED BY <2>1, <2>2, <2>3, <1>0, SerialsKept DEF InPipe
<1>Unwind. ASSUME NEW q \in Queues, Unwind(q)
  PROVE  SerialsInv'
  <2> USE <1>Unwind DEF Unwind, order, serial, commit, title, halt, Step, NotifyAll
  <2>1. UNCHANGED serial /\ pipeline' = pipeline /\ (Halted => Halted')
    BY DEF Halted
  <2>2. \A r \in Queues : current'[r].serial = current[r].serial \/ current'[r].serial = 0
    BY <1>0, SubmissionFacts
  <2>3. \A r \in Queues : \/ pending'[r] = pending[r] /\ Here'[r] = Here[r]
                          \/ Halted' /\ pending'[r] \in {pending[r], << >>} /\ Here'[r] \subseteq Here[r]
    BY <1>0, SubmissionFacts DEF Here, Hands, Halted, Stages, Taken
  <2> HIDE <1>Unwind
  <2> QED BY <2>1, <2>2, <2>3, <1>0, SerialsKept DEF InPipe
<1>Catch. ASSUME NEW q \in Queues, Catch(q)
  PROVE  SerialsInv'
  <2> USE <1>Catch DEF Catch, order, blocks, serial, commit, flips, title, halt, Step, ReportFailure, worker,
      NotifyAll, DropPending
  <2>1. UNCHANGED serial /\ pipeline' = pipeline /\ (Halted => Halted')
    BY DEF Halted
  <2>2. \A r \in Queues : current'[r].serial = current[r].serial \/ current'[r].serial = 0
    BY <1>0, SubmissionFacts
  <2>3. \A r \in Queues : \/ pending'[r] = pending[r] /\ Here'[r] = Here[r]
                          \/ Halted' /\ pending'[r] \in {pending[r], << >>} /\ Here'[r] \subseteq Here[r]
    BY <1>0, SubmissionFacts DEF Here, Hands, Halted, Stages, Taken
  <2> HIDE <1>Catch
  <2> QED BY <2>1, <2>2, <2>3, <1>0, SerialsKept DEF InPipe
<1>DeferCompletion. ASSUME DeferCompletion
  PROVE  SerialsInv'
  <2> USE <1>DeferCompletion DEF DeferCompletion, blocks, serial, flips, title, halt, Step, Room
  <2>1. /\ accepted \in Nat /\ completed \in 0..accepted /\ completedOutOfOrder \subseteq completed + 1 .. accepted
        /\ Places(OpenAt, InPipe, Done, accepted, ~Halted) /\ Halted \in BOOLEAN
        /\ \A r \in Queues : QueueAscends(r)
    BY DEF SerialsInv, Ascends, Halted, SubTypes, WordTypes
  <2> DEFINE n == current[Graphics].serial
             x == [kind |-> "complete", serial |-> current[Graphics].serial, writes |-> current[Graphics].writes,
                   flip |-> current[Graphics].flip]
  <2>2. /\ pending' = pending /\ current' = current /\ accepted' = accepted /\ UNCHANGED serial /\ Halted' = Halted
        /\ Done' = Done
    BY DEF Halted, Done
  <2>3. n # 0 /\ Here[Graphics] = {n} /\ Here'[Graphics] = {}
          /\ \A r \in Queues : r # Graphics => Here'[r] = Here[r]
    BY <1>0 DEF Here, Hands, Stages, Taken
  <2>4. /\ n \in OpenAt[Graphics] /\ OpenAt'[Graphics] = OpenAt[Graphics] \ {n}
             /\ \A r \in Queues : r # Graphics => OpenAt'[r] = OpenAt[r]
        /\ \A m \in OpenAt'[Graphics] : n < m
    <3>1. \A r \in Queues : OpenAt'[r] = Here'[r] \cup Listed'[r] /\ OpenAt[r] = Here[r] \cup Listed[r]
      BY DEF OpenAt
    <3>2. \A r \in Queues : Listed'[r] = Listed[r]
      BY <2>2 DEF Listed
    <3>3. \A m \in Listed[Graphics] : n < m
      BY <2>1, <1>0 DEF QueueAscends
    <3>4. n \notin Listed[Graphics]
      BY <3>3, <2>1, <1>0 DEF QueueAscends
    <3> HIDE <1>DeferCompletion DEF n
    <3> QED BY <1>0, <2>3, <3>1, <3>2, <3>3, <3>4
  <2>q. \A r \in Queues : QueueAscends(r)'
    BY <2>1, <2>2 DEF QueueAscends, Listed
  <2>5. x \in Items /\ x \in Completions /\ x.serial = n /\ pipeline' = Append(pipeline, x)
    BY <1>0, SubmissionFacts DEF Items, Completions
  <2>6. InPipe' = InPipe \cup {n} /\ Ascending(pipeline', Completions)
    <3>1. \A u \in Serials(pipeline, Completions) : u < n
      <4> HIDE <1>DeferCompletion DEF n
      <4> QED BY <2>1, <2>4 DEF Places, InPipe
    <3> HIDE <1>DeferCompletion DEF x, n
    <3>2. /\ Serials(Append(pipeline, x), Completions) = Serials(pipeline, Completions) \cup {x.serial}
          /\ Ascending(Append(pipeline, x), Completions)
      BY <3>1, <2>5, <1>0, SerialsMore
    <3> QED BY <3>2, <2>5 DEF InPipe
  <2> HIDE <1>DeferCompletion DEF n
  <2> DEFINE O == OpenAt
             P == OpenAt'
             U == InPipe
             C == Done
             w == ~Halted
  <2>7. /\ Places(O, U, C, accepted, w) /\ w \in BOOLEAN /\ accepted \in Nat
        /\ n \in O[Graphics] /\ P[Graphics] = O[Graphics] \ {n} /\ (\A r \in Queues : r # Graphics => P[r] = O[r])
        /\ \A m \in P[Graphics] : n < m
    BY <2>1, <2>4
  <2> HIDE DEF O, P, U, C, w
  <2>8. Places(P, U \cup {n}, C, accepted, w)
    BY <2>7, Deferred
  <2>9. Places(OpenAt', InPipe', Done', accepted', ~Halted')
    BY <2>8, <2>2, <2>6 DEF P, U, C, w
  <2> QED BY <2>1, <2>2, <2>q, <2>6, <2>9 DEF SerialsInv, Ascends, serial
<1>AwaitsTitle. ASSUME AwaitsTitle
  PROVE  SerialsInv'
  <2> USE <1>AwaitsTitle DEF AwaitsTitle, order, blocks, serial, commit, flips, title, halt, Step
  <2>1. UNCHANGED serial /\ pipeline' = pipeline /\ (Halted => Halted')
    BY DEF Halted
  <2>2. \A r \in Queues : current'[r].serial = current[r].serial \/ current'[r].serial = 0
    BY <1>0, SubmissionFacts
  <2>3. \A r \in Queues : \/ pending'[r] = pending[r] /\ Here'[r] = Here[r]
                          \/ Halted' /\ pending'[r] \in {pending[r], << >>} /\ Here'[r] \subseteq Here[r]
    BY <1>0, SubmissionFacts DEF Here, Hands, Halted, Stages, Taken
  <2> HIDE <1>AwaitsTitle
  <2> QED BY <2>1, <2>2, <2>3, <1>0, SerialsKept DEF InPipe
<1>NoteAwaitingTitle. ASSUME NoteAwaitingTitle
  PROVE  SerialsInv'
  <2> USE <1>NoteAwaitingTitle DEF NoteAwaitingTitle, order, blocks, serial, commit, title, halt, Step, NotifyAll
  <2>1. UNCHANGED serial /\ pipeline' = pipeline /\ (Halted => Halted')
    BY DEF Halted
  <2>2. \A r \in Queues : current'[r].serial = current[r].serial \/ current'[r].serial = 0
    BY <1>0, SubmissionFacts
  <2>3. \A r \in Queues : \/ pending'[r] = pending[r] /\ Here'[r] = Here[r]
                          \/ Halted' /\ pending'[r] \in {pending[r], << >>} /\ Here'[r] \subseteq Here[r]
    BY <1>0, SubmissionFacts DEF Here, Hands, Halted, Stages, Taken
  <2> HIDE <1>NoteAwaitingTitle
  <2> QED BY <2>1, <2>2, <2>3, <1>0, SerialsKept DEF InPipe
<1>CommitLabel. ASSUME CommitLabel
  PROVE  SerialsInv'
  <2> USE <1>CommitLabel DEF CommitLabel, worker, order, blocks, serial, flips, title, halt, Committing
  <2>1. UNCHANGED serial /\ (Halted => Halted') /\ pc \in [Queues -> Stages]
    BY <1>0 DEF Halted
  <2>2. \A r \in Queues : current'[r].serial = current[r].serial \/ current'[r].serial = 0
    BY <1>0
  <2>3. \A r \in Queues : pending'[r] = pending[r] /\ Here'[r] = Here[r]
    BY <1>0 DEF Here
  <2> DEFINE h == Head(pipeline)
             t == Tail(pipeline)
  <2>4. /\ pipeline # << >> /\ h \in Items
        /\ Serials(pipeline, Completions) = (IF h \in Completions THEN {h.serial} ELSE {})
             \cup Serials(t, Completions)
        /\ Ascending(t, Completions) /\ (h \in Completions => \A u \in Serials(t, Completions) : h.serial < u)
    <3>1. pipeline # << >>
      OBVIOUS
    <3> HIDE <1>CommitLabel
    <3> QED BY <3>1, <1>0, SerialsFirst, FirstAndRest
  <2>5. pipeline' = t /\ h \notin Completions
    BY DEF Completions
  <2>8. Ascending(pipeline', Completions) /\ InPipe' = InPipe
    <3> HIDE <1>CommitLabel DEF h, t
    <3> QED BY <2>4, <2>5 DEF InPipe
  <2> HIDE <1>CommitLabel
  <2> QED BY <2>1, <2>2, <2>3, <2>8, SerialsKept
<1>FinishFlipWork. ASSUME FinishFlipWork
  PROVE  SerialsInv'
  <2> USE <1>FinishFlipWork DEF FinishFlipWork, worker, order, blocks, serial, title, halt, NotifyAll, Committing
  <2>1. UNCHANGED serial /\ (Halted => Halted') /\ pc \in [Queues -> Stages]
    BY <1>0 DEF Halted
  <2>2. \A r \in Queues : current'[r].serial = current[r].serial \/ current'[r].serial = 0
    BY <1>0
  <2>3. \A r \in Queues : pending'[r] = pending[r] /\ Here'[r] = Here[r]
    BY <1>0 DEF Here
  <2> DEFINE h == Head(pipeline)
             t == Tail(pipeline)
  <2>4. /\ pipeline # << >> /\ h \in Items
        /\ Serials(pipeline, Completions) = (IF h \in Completions THEN {h.serial} ELSE {})
             \cup Serials(t, Completions)
        /\ Ascending(t, Completions) /\ (h \in Completions => \A u \in Serials(t, Completions) : h.serial < u)
    <3>1. pipeline # << >>
      OBVIOUS
    <3> HIDE <1>FinishFlipWork
    <3> QED BY <3>1, <1>0, SerialsFirst, FirstAndRest
  <2> DEFINE e == [h EXCEPT !.flip = FALSE]
  <2>5. /\ pipeline' = <<e>> \o t /\ e \in Items /\ e \in Completions /\ h \in Completions /\ e.serial = h.serial
    BY <2>4 DEF Items, Completions
  <2>6. /\ Serials(<<e>> \o t, Completions) = {e.serial} \cup Serials(t, Completions)
        /\ Ascending(<<e>> \o t, Completions)
    <3> HIDE <1>FinishFlipWork DEF e
    <3> QED BY <2>4, <2>5, <1>0, SerialsReplaced
  <2>8. Ascending(pipeline', Completions) /\ InPipe' = InPipe
    <3> HIDE <1>FinishFlipWork DEF h, t, e
    <3> QED BY <2>4, <2>5, <2>6 DEF InPipe
  <2> HIDE <1>FinishFlipWork
  <2> QED BY <2>1, <2>2, <2>3, <2>8, SerialsKept
<1>CompleteSubmission. ASSUME CompleteSubmission
  PROVE  SerialsInv'
  <2> USE <1>CompleteSubmission DEF CompleteSubmission, worker, blocks, flips, title, halt, NotifyAll, Committing
  <2>1. /\ accepted \in Nat /\ completed \in 0..accepted /\ completedOutOfOrder \subseteq completed + 1 .. accepted
        /\ Places(OpenAt, InPipe, Done, accepted, ~Halted) /\ Halted \in BOOLEAN
        /\ \A r \in Queues : QueueAscends(r)
    BY DEF SerialsInv, Ascends, Halted, SubTypes, WordTypes
  <2> DEFINE h == Head(pipeline)
             t == Tail(pipeline)
  <2>4. /\ pipeline # << >> /\ h \in Items
        /\ Serials(pipeline, Completions) = (IF h \in Completions THEN {h.serial} ELSE {})
             \cup Serials(t, Completions)
        /\ Ascending(t, Completions) /\ (h \in Completions => \A u \in Serials(t, Completions) : h.serial < u)
    <3>1. pipeline # << >>
      OBVIOUS
    <3> HIDE <1>CompleteSubmission
    <3> QED BY <3>1, <1>0, SerialsFirst, FirstAndRest
  <2> DEFINE n == h.serial
  <2>2. /\ pending' = pending /\ current' = current /\ pc' = pc /\ accepted' = accepted /\ Halted' = Halted
        /\ pipeline' = t /\ MarkCompleted(n) /\ h \in Completions
    BY <2>4 DEF Halted, Completions
  <2> HIDE <1>CompleteSubmission DEF h, t
  <2>3. n \in InPipe /\ InPipe' = InPipe \ {n} /\ Ascending(pipeline', Completions)
    <3>1. InPipe = {n} \cup Serials(t, Completions) /\ InPipe' = Serials(t, Completions)
      BY <2>2, <2>4 DEF InPipe
    <3>2. n \in Nat
      BY <2>4 DEF Items
    <3>3. n \notin Serials(t, Completions)
      BY <2>2, <2>4, <3>2
    <3> QED BY <3>1, <3>3, <2>2, <2>4
  <2> HIDE DEF n
  <2>5. n \in 1..accepted /\ n \notin Done
    BY <2>1, <2>3 DEF Places
  <2>m. /\ completed' \in 0..accepted /\ completedOutOfOrder' \subseteq completed' + 1 .. accepted
        /\ Done' = Done \cup {n}
    BY <2>1, <2>2, <2>5, Marking
  <2>q. /\ OpenAt' = OpenAt /\ \A r \in Queues : QueueAscends(r)'
    BY <2>1, <2>2 DEF OpenAt, Here, Listed, QueueAscends
  <2> DEFINE O == OpenAt
             U == InPipe
             C == Done
             w == ~Halted
  <2>7. Places(O, U, C, accepted, w) /\ w \in BOOLEAN /\ accepted \in Nat /\ n \in U
    BY <2>1, <2>3
  <2> HIDE DEF O, U, C, w
  <2>8. Places(O, U \ {n}, C \cup {n}, accepted, w)
    BY <2>7, Committed
  <2>9. Places(OpenAt', InPipe', Done', accepted', ~Halted')
    BY <2>8, <2>2, <2>3, <2>m, <2>q DEF O, U, C, w
  <2> QED BY <2>1, <2>2, <2>q, <2>3, <2>m, <2>9 DEF SerialsInv, Ascends
<1>CommitFails. ASSUME CommitFails
  PROVE  SerialsInv'
  <2> USE <1>CommitFails DEF CommitFails, blocks, serial, flips, title, ReportFailure, Committing, worker,
      NotifyAll, DropPending
  <2>1. UNCHANGED serial /\ pipeline' = pipeline /\ (Halted => Halted')
    BY DEF Halted
  <2>2. \A r \in Queues : current'[r].serial = current[r].serial \/ current'[r].serial = 0
    BY <1>0, SubmissionFacts
  <2>3. \A r \in Queues : \/ pending'[r] = pending[r] /\ Here'[r] = Here[r]
                          \/ Halted' /\ pending'[r] \in {pending[r], << >>} /\ Here'[r] \subseteq Here[r]
    BY <1>0, SubmissionFacts DEF Here, Hands, Halted, Stages, Taken
  <2> HIDE <1>CommitFails
  <2> QED BY <2>1, <2>2, <2>3, <1>0, SerialsKept DEF InPipe
<1>DropItem. ASSUME DropItem
  PROVE  SerialsInv'
  <2> USE <1>DropItem DEF DropItem, worker, order, blocks, serial, flips, title, halt
  <2>1. UNCHANGED serial /\ (Halted => Halted') /\ pc \in [Queues -> Stages]
    BY <1>0 DEF Halted
  <2>2. \A r \in Queues : current'[r].serial = current[r].serial \/ current'[r].serial = 0
    BY <1>0
  <2>3. \A r \in Queues : pending'[r] = pending[r] /\ Here'[r] = Here[r]
    BY <1>0 DEF Here
  <2> DEFINE h == Head(pipeline)
             t == Tail(pipeline)
  <2>4. /\ pipeline # << >> /\ h \in Items
        /\ Serials(pipeline, Completions) = (IF h \in Completions THEN {h.serial} ELSE {})
             \cup Serials(t, Completions)
        /\ Ascending(t, Completions) /\ (h \in Completions => \A u \in Serials(t, Completions) : h.serial < u)
    <3>1. pipeline # << >>
      OBVIOUS
    <3> HIDE <1>DropItem
    <3> QED BY <3>1, <1>0, SerialsFirst, FirstAndRest
  <2>5. pipeline' = t /\ Halted'
    BY DEF Halted, SubTypes, WordTypes
  <2>8. Ascending(pipeline', Completions) /\ InPipe' \subseteq InPipe /\ Halted'
    <3> HIDE <1>DropItem DEF h, t
    <3> QED BY <2>4, <2>5 DEF InPipe
  <2> HIDE <1>DropItem
  <2> QED BY <2>1, <2>2, <2>3, <2>8, SerialsKept
<1>Stop. ASSUME Stop
  PROVE  SerialsInv'
  <2> USE <1>Stop DEF Stop, blocks, serial, commit, flips, title, NotifyAll, DropPending
  <2>1. UNCHANGED serial /\ pipeline' = pipeline /\ (Halted => Halted')
    BY DEF Halted
  <2>2. \A r \in Queues : current'[r].serial = current[r].serial \/ current'[r].serial = 0
    BY <1>0, SubmissionFacts
  <2>3. \A r \in Queues : \/ pending'[r] = pending[r] /\ Here'[r] = Here[r]
                          \/ Halted' /\ pending'[r] \in {pending[r], << >>} /\ Here'[r] \subseteq Here[r]
    BY <1>0, SubmissionFacts DEF Here, Hands, Halted, Stages, Taken
  <2> HIDE <1>Stop
  <2> QED BY <2>1, <2>2, <2>3, <1>0, SerialsKept DEF InPipe
<1>Submit. ASSUME NEW t \in Titles, NEW p \in Programs, Submit(t, p)
  PROVE  SerialsInv'
  <2> USE <1>Submit DEF Submit, worker, order, blocks, serial, commit, flips, halt, TitleStep
  <2>1. UNCHANGED serial /\ pipeline' = pipeline /\ (Halted => Halted')
    BY DEF Halted
  <2>2. \A r \in Queues : current'[r].serial = current[r].serial \/ current'[r].serial = 0
    BY <1>0, SubmissionFacts
  <2>3. \A r \in Queues : \/ pending'[r] = pending[r] /\ Here'[r] = Here[r]
                          \/ Halted' /\ pending'[r] \in {pending[r], << >>} /\ Here'[r] \subseteq Here[r]
    BY <1>0, SubmissionFacts DEF Here, Hands, Halted, Stages, Taken
  <2> HIDE <1>Submit
  <2> QED BY <2>1, <2>2, <2>3, <1>0, SerialsKept DEF InPipe
<1>TitleSleeps. ASSUME NEW t \in Titles, TitleSleeps(t)
  PROVE  SerialsInv'
  <2> USE <1>TitleSleeps DEF TitleSleeps, worker, order, blocks, serial, commit, flips, title, halt
  <2>1. UNCHANGED serial /\ pipeline' = pipeline /\ (Halted => Halted')
    BY DEF Halted
  <2>2. \A r \in Queues : current'[r].serial = current[r].serial \/ current'[r].serial = 0
    BY <1>0, SubmissionFacts
  <2>3. \A r \in Queues : \/ pending'[r] = pending[r] /\ Here'[r] = Here[r]
                          \/ Halted' /\ pending'[r] \in {pending[r], << >>} /\ Here'[r] \subseteq Here[r]
    BY <1>0, SubmissionFacts DEF Here, Hands, Halted, Stages, Taken
  <2> HIDE <1>TitleSleeps
  <2> QED BY <2>1, <2>2, <2>3, <1>0, SerialsKept DEF InPipe
<1>PassFlipHold. ASSUME NEW t \in Titles, PassFlipHold(t)
  PROVE  SerialsInv'
  <2> USE <1>PassFlipHold DEF PassFlipHold, worker, order, blocks, serial, commit, flips, halt, TitleStep
  <2>1. UNCHANGED serial /\ pipeline' = pipeline /\ (Halted => Halted')
    BY DEF Halted
  <2>2. \A r \in Queues : current'[r].serial = current[r].serial \/ current'[r].serial = 0
    BY <1>0, SubmissionFacts
  <2>3. \A r \in Queues : \/ pending'[r] = pending[r] /\ Here'[r] = Here[r]
                          \/ Halted' /\ pending'[r] \in {pending[r], << >>} /\ Here'[r] \subseteq Here[r]
    BY <1>0, SubmissionFacts DEF Here, Hands, Halted, Stages, Taken
  <2> HIDE <1>PassFlipHold
  <2> QED BY <2>1, <2>2, <2>3, <1>0, SerialsKept DEF InPipe
<1>Enqueue. ASSUME NEW t \in Titles, Enqueue(t)
  PROVE  SerialsInv'
  <2> USE <1>Enqueue DEF Enqueue, blocks, commit, halt, TitleStep, NotifyAll
  <2>1. /\ accepted \in Nat /\ completed \in 0..accepted /\ completedOutOfOrder \subseteq completed + 1 .. accepted
        /\ Places(OpenAt, InPipe, Done, accepted, ~Halted) /\ Halted \in BOOLEAN
        /\ \A r \in Queues : QueueAscends(r)
    BY DEF SerialsInv, Ascends, Halted, SubTypes, WordTypes
  <2> DEFINE s == [request[t] EXCEPT !.serial = accepted + 1]
             k == s.queue
             n == accepted + 1
             l == Append(pending[k], s)
  <2>0. s \in Submissions /\ s.serial = n /\ k \in Queues
    <3>1. request[t] \in Submissions /\ n \in Nat
      BY <2>1 DEF SubTypes, TitleTypes
    <3> HIDE <1>Enqueue
    <3> QED BY <3>1, Numbered, SubmissionFacts
  <2>2. /\ current' = current /\ pc' = pc /\ Halted' = Halted /\ pipeline' = pipeline
        /\ completed' = completed /\ completedOutOfOrder' = completedOutOfOrder /\ Done' = Done
        /\ \/ pending' = pending /\ accepted' = accepted
           \/ pending' = [pending EXCEPT ![k] = l] /\ accepted' = n
    BY <2>0 DEF Halted, Done
  <2> HIDE <1>Enqueue DEF s, n, l, k
  <2>3. CASE pending' = pending /\ accepted' = accepted
    BY <2>1, <2>2, <2>3, <1>0 DEF SerialsInv, Ascends, QueueAscends, Listed, OpenAt, Here, InPipe
  <2>4. CASE pending' = [pending EXCEPT ![k] = l] /\ accepted' = n
    <3>1. /\ Serials(l, Submissions) = Serials(pending[k], Submissions) \cup {n}
          /\ (\A u \in Serials(pending[k], Submissions) : u < n) => Ascending(l, Submissions)
      <4>1. pending[k] \in Seq(Submissions) /\ Ascending(pending[k], Submissions)
        BY <1>0, <2>0, <2>1 DEF QueueAscends
      <4> QED BY <4>1, <2>0, SerialsMore DEF l
    <3>2. /\ \A u \in Serials(pending[k], Submissions) : u < n /\ u \in 1..n
          /\ n \in 1..n /\ n = accepted + 1
      <4>1. \A u \in Serials(pending[k], Submissions) : u \in 1..accepted
        BY <2>0, <2>1 DEF QueueAscends, Listed
      <4> QED BY <4>1, <2>1 DEF n
    <3>3. /\ Listed'[k] = Listed[k] \cup {n} /\ \A r \in Queues : r # k => Listed'[r] = Listed[r]
          /\ pending'[k] = l
      BY <1>0, <2>0, <2>4, <3>1 DEF Listed
    <3>4. ASSUME NEW r \in Queues
          PROVE  QueueAscends(r)'
      <4>1. QueueAscends(r) /\ QueueAscends(k)
        BY <2>0, <2>1
      <4>2. current[r].serial \in 0..n /\ current[r].serial < n
        BY <4>1, <3>2, <2>1 DEF QueueAscends
      <4>3. CASE r = k
        <5>1. Ascending(pending'[k], Submissions)
          BY <3>1, <3>2, <3>3
        <5>2. \A m \in Listed'[k] : m \in 1..n /\ current[k].serial < m
          <6>1. \A m \in Listed[k] : m \in 1..n /\ current[k].serial < m
            BY <4>1, <3>2, <2>1 DEF QueueAscends
          <6> QED BY <6>1, <3>2, <3>3, <4>2, <4>3
        <5> QED BY <4>2, <4>3, <5>1, <5>2, <2>2, <2>4 DEF QueueAscends
      <4>4. CASE r # k
        <5>1. pending'[r] = pending[r] /\ Listed'[r] = Listed[r]
          BY <4>4, <3>3, <2>4, <1>0
        <5>2. \A m \in Listed[r] : m \in 1..n
          BY <4>1, <3>2, <2>1 DEF QueueAscends
        <5> QED BY <4>1, <4>2, <5>1, <5>2, <2>2, <2>4 DEF QueueAscends
      <4> QED BY <4>3, <4>4
    <3>5. OpenAt'[k] = OpenAt[k] \cup {n} /\ \A r \in Queues : r # k => OpenAt'[r] = OpenAt[r]
      <4>1. \A r \in Queues : OpenAt'[r] = Here'[r] \cup Listed'[r] /\ OpenAt[r] = Here[r] \cup Listed[r]
        BY DEF OpenAt
      <4>2. Here' = Here
        BY <2>2 DEF Here
      <4> QED BY <4>1, <4>2, <3>3, <2>0
    <3> DEFINE O == OpenAt
               P == OpenAt'
               U == InPipe
               C == Done
               w == ~Halted
    <3>6. /\ Places(O, U, C, accepted, w) /\ w \in BOOLEAN /\ accepted \in Nat
          /\ n = accepted + 1 /\ P[k] = O[k] \cup {n} /\ (\A r \in Queues : r # k => P[r] = O[r])
      BY <2>1, <3>5, <3>2
    <3> HIDE DEF O, P, U, C, w
    <3>k. k \in Queues
      BY <2>0
    <3>7. Places(P, U, C, n, w)
      BY <3>6, <3>k, Placed, SMTT(60)
    <3>8. Places(OpenAt', InPipe', Done', accepted', ~Halted')
      BY <3>7, <3>2, <2>2, <2>4 DEF P, U, C, w, InPipe
    <3>9. /\ accepted' \in Nat /\ completed' \in 0..accepted'
          /\ completedOutOfOrder' \subseteq completed' + 1 .. accepted'
      BY <2>1, <2>2, <2>4, <3>2
    <3> QED BY <3>4, <3>8, <3>9, <2>2, <1>0 DEF SerialsInv, Ascends
  <2> QED BY <2>2, <2>3, <2>4
<1>WaitIdle. ASSUME NEW t \in Titles, WaitIdle(t)
  PROVE  SerialsInv'
  <2> USE <1>WaitIdle DEF WaitIdle, worker, order, blocks, serial, commit, flips, halt, TitleStep
  <2>1. UNCHANGED serial /\ pipeline' = pipeline /\ (Halted => Halted')
    BY DEF Halted
  <2>2. \A r \in Queues : current'[r].serial = current[r].serial \/ current'[r].serial = 0
    BY <1>0, SubmissionFacts
  <2>3. \A r \in Queues : \/ pending'[r] = pending[r] /\ Here'[r] = Here[r]
                          \/ Halted' /\ pending'[r] \in {pending[r], << >>} /\ Here'[r] \subseteq Here[r]
    BY <1>0, SubmissionFacts DEF Here, Hands, Halted, Stages, Taken
  <2> HIDE <1>WaitIdle
  <2> QED BY <2>1, <2>2, <2>3, <1>0, SerialsKept DEF InPipe
<1>Idled. ASSUME NEW t \in Titles, Idled(t)
  PROVE  SerialsInv'
  <2> USE <1>Idled DEF Idled, worker, order, blocks, serial, commit, flips, halt, TitleStep
  <2>1. UNCHANGED serial /\ pipeline' = pipeline /\ (Halted => Halted')
    BY DEF Halted
  <2>2. \A r \in Queues : current'[r].serial = current[r].serial \/ current'[r].serial = 0
    BY <1>0, SubmissionFacts
  <2>3. \A r \in Queues : \/ pending'[r] = pending[r] /\ Here'[r] = Here[r]
                          \/ Halted' /\ pending'[r] \in {pending[r], << >>} /\ Here'[r] \subseteq Here[r]
    BY <1>0, SubmissionFacts DEF Here, Hands, Halted, Stages, Taken
  <2> HIDE <1>Idled
  <2> QED BY <2>1, <2>2, <2>3, <1>0, SerialsKept DEF InPipe
<1>TitleStores. ASSUME NEW t \in Titles, NEW l \in Labels, TitleStores(t, l)
  PROVE  SerialsInv'
  <2> USE <1>TitleStores DEF TitleStores, worker, order, blocks, serial, commit, flips, title, halt
  <2>1. UNCHANGED serial /\ pipeline' = pipeline /\ (Halted => Halted')
    BY DEF Halted
  <2>2. \A r \in Queues : current'[r].serial = current[r].serial \/ current'[r].serial = 0
    BY <1>0, SubmissionFacts
  <2>3. \A r \in Queues : \/ pending'[r] = pending[r] /\ Here'[r] = Here[r]
                          \/ Halted' /\ pending'[r] \in {pending[r], << >>} /\ Here'[r] \subseteq Here[r]
    BY <1>0, SubmissionFacts DEF Here, Hands, Halted, Stages, Taken
  <2> HIDE <1>TitleStores
  <2> QED BY <2>1, <2>2, <2>3, <1>0, SerialsKept DEF InPipe
<1> QED BY <1>Sleep, <1>Dequeue, <1>Start, <1>Retire, <1>PassWait, <1>Block, <1>Unblock, <1>ReleaseFlip,
           <1>Store, <1>EndExecute, <1>Complete, <1>Leave, <1>Unwind, <1>Catch, <1>DeferCompletion,
           <1>AwaitsTitle, <1>NoteAwaitingTitle, <1>CommitLabel, <1>FinishFlipWork, <1>CompleteSubmission,
           <1>CommitFails, <1>DropItem, <1>Stop, <1>Submit, <1>TitleSleeps, <1>PassFlipHold, <1>Enqueue,
           <1>WaitIdle, <1>Idled, <1>TitleStores
          DEF Next, WorkerStep, CommitterStep, TitleAction

-----------------------------------------------------------------------------
(* The words of the order, and the flips.                                  *)

\* A finite set with one element more or less.
LEMMA CountStep ==
    ASSUME NEW S, IsFiniteSet(S), NEW T
    PROVE  /\ T = S => Cardinality(T) = Cardinality(S)
           /\ \A x : T = S \cup {x} /\ x \notin S => Cardinality(T) = Cardinality(S) + 1
           /\ \A x : T = S \ {x} /\ x \in S => Cardinality(T) = Cardinality(S) - 1
BY FS_AddElement, FS_RemoveElement, FS_CardinalityType

\* Who runs, counted.
LEMMA RunningStep ==
    ASSUME RunningWord, pc \in [Queues -> Stages],
           NEW q \in Queues, NEW to \in Stages, pc' = [pc EXCEPT ![q] = to],
           \/ pc[q] \in Busy /\ to \in Busy /\ runningWorkers' = runningWorkers
           \/ pc[q] \notin Busy /\ to \notin Busy /\ runningWorkers' = runningWorkers
           \/ pc[q] \in Busy /\ to \notin Busy /\ runningWorkers' = runningWorkers - 1
           \/ pc[q] \notin Busy /\ to \in Busy /\ runningWorkers' = runningWorkers + 1
    PROVE  RunningWord'
<1>1. IsFiniteSet(Running)
  BY QueuesAssumption, FS_Subset DEF Running
<1>2. Running = {r \in Queues : pc[r] \in Busy} /\ Running' = {r \in Queues : pc'[r] \in Busy}
  BY DEF Running
<1>3. (q \in Running <=> pc[q] \in Busy) /\ (q \in Running' <=> to \in Busy)
        /\ \A r : r # q => (r \in Running <=> r \in Running')
  BY <1>2
<1> DEFINE A == Running
           B == Running'
<1>4. /\ IsFiniteSet(A) /\ runningWorkers = Cardinality(A)
      /\ \/ B = A /\ runningWorkers' = runningWorkers
         \/ B = A \ {q} /\ q \in A /\ runningWorkers' = runningWorkers - 1
         \/ B = A \cup {q} /\ q \notin A /\ runningWorkers' = runningWorkers + 1
  <2>1. CASE pc[q] \in Busy /\ to \in Busy /\ runningWorkers' = runningWorkers
    BY <2>1, <1>1, <1>3 DEF RunningWord
  <2>2. CASE pc[q] \notin Busy /\ to \notin Busy /\ runningWorkers' = runningWorkers
    BY <2>2, <1>1, <1>3 DEF RunningWord
  <2>3. CASE pc[q] \in Busy /\ to \notin Busy /\ runningWorkers' = runningWorkers - 1
    BY <2>3, <1>1, <1>3 DEF RunningWord
  <2>4. CASE pc[q] \notin Busy /\ to \in Busy /\ runningWorkers' = runningWorkers + 1
    BY <2>4, <1>1, <1>3 DEF RunningWord
  <2> QED BY <2>1, <2>2, <2>3, <2>4
<1> HIDE DEF A, B
<1>5. runningWorkers' = Cardinality(B)
  BY <1>4, CountStep
<1> QED BY <1>5 DEF B, RunningWord

\* The flips ahead and their work, counted.
LEMMA FlipsStep ==
    ASSUME FlipsCounted, IsFiniteSet(FlipsAhead), IsFiniteSet(FlipWork),
           \/ FlipsAhead' = FlipsAhead /\ flipsAhead' = flipsAhead
           \/ \E n \in FlipsAhead : FlipsAhead' = FlipsAhead \ {n} /\ flipsAhead' = flipsAhead - 1
           \/ \E n : n \notin FlipsAhead /\ FlipsAhead' = FlipsAhead \cup {n} /\ flipsAhead' = flipsAhead + 1,
           \/ FlipWork' = FlipWork /\ flipWorkOpen' = flipWorkOpen
           \/ \E n \in FlipWork : FlipWork' = FlipWork \ {n} /\ flipWorkOpen' = flipWorkOpen - 1
           \/ \E n : n \notin FlipWork /\ FlipWork' = FlipWork \cup {n} /\ flipWorkOpen' = flipWorkOpen + 1
    PROVE  FlipsCounted'
<1> DEFINE A == FlipsAhead
           B == FlipsAhead'
           C == FlipWork
           E == FlipWork'
<1>1. flipsAhead = Cardinality(A) /\ flipWorkOpen = Cardinality(C)
  BY DEF FlipsCounted
<1> HIDE DEF A, B, C, E
<1>2. flipsAhead' = Cardinality(B)
  BY <1>1, CountStep DEF A, B
<1>3. flipWorkOpen' = Cardinality(E)
  BY <1>1, CountStep DEF C, E
<1> QED BY <1>2, <1>3 DEF B, E, FlipsCounted

\* Where a flip is counted, it is counted once.
LEMMA FlipPlaces ==
    ASSUME SubTypes, Hands, SerialsInv
    PROVE  /\ IsFiniteSet(FlipsAhead) /\ IsFiniteSet(FlipWork)
           /\ Serials(pending[Graphics], Flips) \subseteq Listed[Graphics]
           /\ Serials(pipeline, FlipItems) \subseteq InPipe
           /\ Listed[Graphics] \cap InPipe = {}
           /\ current[Graphics].serial \notin Listed[Graphics]
           /\ pc[Graphics] \notin {"deferred", "leaving"}
                /\ current[Graphics].serial # 0 => current[Graphics].serial \notin InPipe
           /\ \A n \in Listed[Graphics] \cup InPipe : n \in 1..accepted
<1>0. Graphics \in Queues /\ accepted \in Nat
  BY QueuesAssumption DEF SerialsInv
<1>1. Serials(pending[Graphics], Flips) \subseteq Listed[Graphics]
  BY <1>0 DEF Serials, Flips, Listed
<1>2. Serials(pipeline, FlipItems) \subseteq InPipe
  <2> SUFFICES ASSUME NEW i \in 1..Len(pipeline), pipeline[i] \in FlipItems
               PROVE  pipeline[i] \in Completions
    BY DEF Serials, InPipe
  <2>1. pipeline[i] \in Items /\ pipeline[i].flip /\ pipeline[i].kind # "label"
    BY DEF FlipItems, SubTypes, PipeTypes
  <2> QED BY <2>1 DEF Items, Completions
<1>3. /\ InPipe \subseteq 1..accepted /\ OpenAt[Graphics] \subseteq 1..accepted
      /\ OpenAt[Graphics] \cap InPipe = {}
  BY <1>0 DEF SerialsInv, Places
<1>4. OpenAt[Graphics] = Here[Graphics] \cup Listed[Graphics]
  BY <1>0 DEF OpenAt
<1>5. current[Graphics].serial \notin Listed[Graphics]
  BY <1>0 DEF SerialsInv, Ascends, QueueAscends
<1>6. pc[Graphics] \notin {"deferred", "leaving"}
        /\ current[Graphics].serial # 0 => current[Graphics].serial \in Here[Graphics]
  BY <1>0 DEF Here
<1>7. /\ FlipsAhead \subseteq Listed[Graphics] \cup {current[Graphics].serial}
      /\ FlipWork \subseteq Listed[Graphics] \cup InPipe \cup {current[Graphics].serial}
  BY <1>1, <1>2 DEF FlipsAhead, FlipWork, FlipHere
<1>8. current[Graphics].serial \in 0..accepted
  BY <1>0 DEF SerialsInv, Ascends, QueueAscends
<1>9. FlipsAhead \subseteq 0..accepted /\ FlipWork \subseteq 0..accepted
  <2>1. (Listed[Graphics] \cup InPipe) \cup {current[Graphics].serial} \subseteq 0..accepted
    <3> SUFFICES ASSUME NEW n \in (Listed[Graphics] \cup InPipe) \cup {current[Graphics].serial}
                 PROVE  n \in 0..accepted
      OBVIOUS
    <3>1. n \in 1..accepted \/ n \in 0..accepted
      BY <1>3, <1>4, <1>8
    <3> QED BY <3>1, <1>0
  <2> QED BY <2>1, <1>7
<1>10. IsFiniteSet(0..accepted)
  BY <1>0, FS_Interval
<1>11. IsFiniteSet(FlipsAhead) /\ IsFiniteSet(FlipWork)
  BY <1>9, <1>10, FS_Subset
<1> QED BY <1>1, <1>2, <1>3, <1>4, <1>5, <1>6, <1>11

\* Every step keeps the words of the order, the list of the uncommitted and the flips' counters
\* true, until the driver halts.
LEMMA WordsStep ==
    ASSUME SubTypes, Hands, SerialsInv, WordsInv, SubTypes', Hands', Next
    PROVE  WordsInv'
<1> SUFFICES ASSUME ~Halted'
             PROVE  OrderWords' /\ RunningWord' /\ UncommittedWord' /\ FlipsCounted'
  BY DEF WordsInv
<1> USE QueuesAssumption
<1>0. Graphics \in Queues /\ pc \in [Queues -> Stages] /\ current \in [Queues -> Submissions]
      /\ pending \in [Queues -> Seq(Submissions)] /\ pipeline \in Seq(Items)
      /\ executingWaitFree \in [Queues -> Nat] /\ executingWaits \in [Queues -> BOOLEAN]
  BY DEF SubTypes, WorkerTypes, PipeTypes, WordTypes
<1>w. ~Halted => OrderWords /\ RunningWord /\ UncommittedWord /\ FlipsCounted
  BY DEF WordsInv
<1>f. ~Halted => FlipsCounted /\ IsFiniteSet(FlipsAhead) /\ IsFiniteSet(FlipWork)
  BY <1>w, FlipPlaces
<1>i. \A r \in Queues : current[r].flip \in BOOLEAN
  BY <1>0, SubmissionFacts
<1>Sleep. ASSUME NEW q \in Queues, Sleep(q)
  PROVE  OrderWords' /\ RunningWord' /\ UncommittedWord' /\ FlipsCounted'
  <2> USE <1>Sleep DEF Sleep, worker, order, blocks, serial, commit, flips, title, halt
  <2>h. ~Halted
    BY DEF Halted
  <2>1. OrderWords'
    BY <1>0, <2>h, <1>w, SubmissionFacts DEF OrderWords, Hands, Stages, Taken
  <2>2. RunningWord'
    BY <2>h, <1>w DEF RunningWord, Running
  <2>3. UncommittedWord'
    BY <2>h, <1>w DEF UncommittedWord, InPipe
  <2>4. FlipsCounted'
    <3>1. FlipsAhead' = FlipsAhead /\ FlipWork' = FlipWork /\ flipsAhead' = flipsAhead
            /\ flipWorkOpen' = flipWorkOpen
      BY <1>0 DEF FlipsAhead, FlipWork, FlipHere, Hands, Taken
    <3> QED BY <3>1, <2>h, <1>f, FlipsStep
  <2> QED BY <2>1, <2>2, <2>3, <2>4
<1>Dequeue. ASSUME NEW q \in Queues, Dequeue(q)
  PROVE  OrderWords' /\ RunningWord' /\ UncommittedWord' /\ FlipsCounted'
  <2> USE <1>Dequeue DEF Dequeue, serial, commit, flips, title, halt, Step
  <2>h. ~Halted
    BY DEF Halted
  <2> DEFINE s == Head(pending[q])
             t == Tail(pending[q])
  <2>p. /\ pending[q] \in Seq(Submissions) /\ pending[q] # << >> /\ s \in Submissions /\ Sound(s, q)
        /\ t \in Seq(Submissions)
    <3>1. pending[q] \in Seq(Submissions) /\ pending[q] # << >>
            /\ \A i \in 1..Len(pending[q]) : Sound(pending[q][i], q)
      BY <1>0 DEF Hands
    <3> HIDE <1>Dequeue
    <3>2. s \in Submissions /\ t \in Seq(Submissions) /\ s = pending[q][1] /\ 1 \in 1..Len(pending[q])
      BY <3>1, FirstAndRest
    <3> QED BY <3>1, <3>2
  <2>s. /\ pc' = [pc EXCEPT ![q] = pc'[q]] /\ pc'[q] \in {"hold", "run"} /\ pc[q] = "ready"
        /\ current' = [current EXCEPT ![q] = s] /\ pending' = [pending EXCEPT ![q] = t]
        /\ UNCHANGED <<queue0Uncommitted, queue0Awaited, pipeline, flipsAhead, flipWorkOpen>>
    BY <1>0
  <2>1. OrderWords'
    <3>1. CASE q = Graphics
      <4>1. /\ queue0Executing' = IF s.suspend THEN 0 ELSE s.serial
            /\ executingWaitFree' = executingWaitFree /\ executingWaits' = executingWaits
        BY <3>1
      <4> HIDE <1>Dequeue DEF s, t
      <4> QED BY <4>1, <3>1, <1>0, <2>h, <1>w, <2>p, <2>s DEF OrderWords, Taken, Stages, WaitFree
    <3>2. CASE q # Graphics
      <4>1. /\ queue0Executing' = queue0Executing
            /\ executingWaitFree' = [executingWaitFree EXCEPT ![q] = IF WaitFree(s) THEN s.serial ELSE 0]
            /\ executingWaits' = [executingWaits EXCEPT ![q] = ~WaitFree(s) /\ ~s.suspend]
        BY <3>2
      <4>2. s.suspend = FALSE
        BY <3>2, <2>p, SubmissionFacts DEF Sound
      <4> HIDE <1>Dequeue DEF s, t
      <4>3. executingWaitFree'[q] = (IF WaitFree(s) THEN s.serial ELSE 0) /\ executingWaits'[q] = ~WaitFree(s)
        BY <4>1, <4>2, <1>0
      <4>4. \A r \in Queues : r # q => executingWaitFree'[r] = executingWaitFree[r]
              /\ executingWaits'[r] = executingWaits[r]
        BY <4>1, <1>0
      <4>5. current'[q] = s /\ pc'[q] \in Taken /\ \A r \in Queues : r # q => current'[r] = current[r]
              /\ pc'[r] = pc[r]
        BY <2>s, <1>0 DEF Taken, Stages
      <4> QED BY <4>1, <4>3, <4>4, <4>5, <3>2, <1>0, <2>h, <1>w, <2>s DEF OrderWords, WaitFree
    <3> QED BY <3>1, <3>2
  <2>2. RunningWord'
    <3>1. /\ q \in Queues /\ pc'[q] \in Stages /\ pc' = [pc EXCEPT ![q] = pc'[q]] /\ RunningWord
          /\ \/ pc[q] \in Busy /\ pc'[q] \in Busy /\ runningWorkers' = runningWorkers
             \/ pc[q] \notin Busy /\ pc'[q] \notin Busy /\ runningWorkers' = runningWorkers
             \/ pc[q] \in Busy /\ pc'[q] \notin Busy /\ runningWorkers' = runningWorkers - 1
             \/ pc[q] \notin Busy /\ pc'[q] \in Busy /\ runningWorkers' = runningWorkers + 1
      BY <1>0, <2>h, <1>w, <2>p, SubmissionFacts DEF Busy, Stages, Hands, Taken, SubTypes, WordTypes, Halted
    <3> HIDE <1>Dequeue
    <3> QED BY <3>1, <1>0, RunningStep
  <2>3. UncommittedWord'
    BY <2>h, <1>w DEF UncommittedWord, InPipe
  <2>4. FlipsCounted'
    <3>1. FlipsAhead' = FlipsAhead /\ FlipWork' = FlipWork
      <4>1. CASE q = Graphics
        <5>1. Serials(pending[q], Flips) = (IF s.flip THEN {s.serial} ELSE {}) \cup Serials(t, Flips)
          <6>1. s \in Flips <=> s.flip
            BY <2>p DEF Flips
          <6>2. Serials(pending[q], Flips) = (IF s \in Flips THEN {s.serial} ELSE {}) \cup Serials(t, Flips)
            <7> HIDE <1>Dequeue
            <7> QED BY <2>p, SerialsFirst
          <6> HIDE <1>Dequeue DEF s, t
          <6> QED BY <6>1, <6>2
        <5> HIDE <1>Dequeue DEF s, t
        <5>2. pending'[Graphics] = t /\ current'[Graphics] = s
          BY <4>1, <2>s, <1>0
        <5> QED BY <4>1, <5>1, <5>2, <2>s, <1>0 DEF FlipsAhead, FlipWork, FlipHere
      <4>2. CASE q # Graphics
        <5> HIDE <1>Dequeue DEF s, t
        <5>1. pending'[Graphics] = pending[Graphics] /\ current'[Graphics] = current[Graphics]
                /\ pc'[Graphics] = pc[Graphics]
          BY <4>2, <2>s, <1>0
        <5> QED BY <5>1, <2>s DEF FlipsAhead, FlipWork, FlipHere
      <4> QED BY <4>1, <4>2
    <3> HIDE <1>Dequeue
    <3> QED BY <3>1, <2>s, <2>h, <1>f, FlipsStep
  <2> QED BY <2>1, <2>2, <2>3, <2>4
<1>Start. ASSUME NEW q \in Queues, Start(q)
  PROVE  OrderWords' /\ RunningWord' /\ UncommittedWord' /\ FlipsCounted'
  <2> USE <1>Start DEF Start, order, serial, commit, flips, title, halt, Step
  <2>h. ~Halted
    BY DEF Halted
  <2>1. OrderWords'
    BY <1>0, <2>h, <1>w, SubmissionFacts DEF OrderWords, Hands, Stages, Taken
  <2>2. RunningWord'
    <3>1. /\ q \in Queues /\ "run" \in Stages /\ pc' = [pc EXCEPT ![q] = "run"] /\ RunningWord
          /\ \/ pc[q] \in Busy /\ "run" \in Busy /\ runningWorkers' = runningWorkers
             \/ pc[q] \notin Busy /\ "run" \notin Busy /\ runningWorkers' = runningWorkers
             \/ pc[q] \in Busy /\ "run" \notin Busy /\ runningWorkers' = runningWorkers - 1
             \/ pc[q] \notin Busy /\ "run" \in Busy /\ runningWorkers' = runningWorkers + 1
      BY <1>0, <2>h, <1>w, SubmissionFacts DEF Busy, Stages, Hands, Taken, SubTypes, WordTypes, Halted
    <3> HIDE <1>Start
    <3> QED BY <3>1, <1>0, RunningStep
  <2>3. UncommittedWord'
    BY <2>h, <1>w DEF UncommittedWord, InPipe
  <2>4. FlipsCounted'
    <3>1. FlipsAhead' = FlipsAhead /\ FlipWork' = FlipWork /\ flipsAhead' = flipsAhead
            /\ flipWorkOpen' = flipWorkOpen
      BY <1>0 DEF FlipsAhead, FlipWork, FlipHere, Hands, Taken
    <3> QED BY <3>1, <2>h, <1>f, FlipsStep
  <2> QED BY <2>1, <2>2, <2>3, <2>4
<1>Retire. ASSUME NEW q \in Queues, Retire(q)
  PROVE  OrderWords' /\ RunningWord' /\ UncommittedWord' /\ FlipsCounted'
  <2> USE <1>Retire DEF Retire, order, blocks, serial, commit, flips, title, halt, Step
  <2> QED BY DEF Halted, SubTypes, WordTypes
<1>PassWait. ASSUME NEW q \in Queues, PassWait(q)
  PROVE  OrderWords' /\ RunningWord' /\ UncommittedWord' /\ FlipsCounted'
  <2> USE <1>PassWait DEF PassWait, order, blocks, serial, commit, flips, title, halt, Step
  <2>h. ~Halted
    BY DEF Halted
  <2>1. OrderWords'
    BY <1>0, <2>h, <1>w, SubmissionFacts DEF OrderWords, Hands, Stages, Taken
  <2>2. RunningWord'
    <3>1. /\ q \in Queues /\ "past" \in Stages /\ pc' = [pc EXCEPT ![q] = "past"] /\ RunningWord
          /\ \/ pc[q] \in Busy /\ "past" \in Busy /\ runningWorkers' = runningWorkers
             \/ pc[q] \notin Busy /\ "past" \notin Busy /\ runningWorkers' = runningWorkers
             \/ pc[q] \in Busy /\ "past" \notin Busy /\ runningWorkers' = runningWorkers - 1
             \/ pc[q] \notin Busy /\ "past" \in Busy /\ runningWorkers' = runningWorkers + 1
      BY <1>0, <2>h, <1>w, SubmissionFacts DEF Busy, Stages, Hands, Taken, SubTypes, WordTypes, Halted
    <3> HIDE <1>PassWait
    <3> QED BY <3>1, <1>0, RunningStep
  <2>3. UncommittedWord'
    BY <2>h, <1>w DEF UncommittedWord, InPipe
  <2>4. FlipsCounted'
    <3>1. FlipsAhead' = FlipsAhead /\ FlipWork' = FlipWork /\ flipsAhead' = flipsAhead
            /\ flipWorkOpen' = flipWorkOpen
      BY <1>0 DEF FlipsAhead, FlipWork, FlipHere, Hands, Taken
    <3> QED BY <3>1, <2>h, <1>f, FlipsStep
  <2> QED BY <2>1, <2>2, <2>3, <2>4
<1>Block. ASSUME NEW q \in Queues, Block(q)
  PROVE  OrderWords' /\ RunningWord' /\ UncommittedWord' /\ FlipsCounted'
  <2> USE <1>Block DEF Block, order, serial, commit, flips, title, halt, Step, NotifyAll
  <2>h. ~Halted
    BY DEF Halted
  <2>1. OrderWords'
    BY <1>0, <2>h, <1>w, SubmissionFacts DEF OrderWords, Hands, Stages, Taken
  <2>2. RunningWord'
    <3>1. /\ q \in Queues /\ "blocked" \in Stages /\ pc' = [pc EXCEPT ![q] = "blocked"] /\ RunningWord
          /\ \/ pc[q] \in Busy /\ "blocked" \in Busy /\ runningWorkers' = runningWorkers
             \/ pc[q] \notin Busy /\ "blocked" \notin Busy /\ runningWorkers' = runningWorkers
             \/ pc[q] \in Busy /\ "blocked" \notin Busy /\ runningWorkers' = runningWorkers - 1
             \/ pc[q] \notin Busy /\ "blocked" \in Busy /\ runningWorkers' = runningWorkers + 1
      BY <1>0, <2>h, <1>w, SubmissionFacts DEF Busy, Stages, Hands, Taken, SubTypes, WordTypes, Halted
    <3> HIDE <1>Block
    <3> QED BY <3>1, <1>0, RunningStep
  <2>3. UncommittedWord'
    BY <2>h, <1>w DEF UncommittedWord, InPipe
  <2>4. FlipsCounted'
    <3>1. FlipsAhead' = FlipsAhead /\ FlipWork' = FlipWork /\ flipsAhead' = flipsAhead
            /\ flipWorkOpen' = flipWorkOpen
      BY <1>0 DEF FlipsAhead, FlipWork, FlipHere, Hands, Taken
    <3> QED BY <3>1, <2>h, <1>f, FlipsStep
  <2> QED BY <2>1, <2>2, <2>3, <2>4
<1>Unblock. ASSUME NEW q \in Queues, Unblock(q)
  PROVE  OrderWords' /\ RunningWord' /\ UncommittedWord' /\ FlipsCounted'
  <2> USE <1>Unblock DEF Unblock, order, serial, commit, title, halt, Step, EndBlock
  <2>h. ~Halted
    BY DEF Halted
  <2>1. OrderWords'
    BY <1>0, <2>h, <1>w, SubmissionFacts DEF OrderWords, Hands, Stages, Taken
  <2>2. RunningWord'
    <3>1. /\ q \in Queues /\ "past" \in Stages /\ pc' = [pc EXCEPT ![q] = "past"] /\ RunningWord
          /\ \/ pc[q] \in Busy /\ "past" \in Busy /\ runningWorkers' = runningWorkers
             \/ pc[q] \notin Busy /\ "past" \notin Busy /\ runningWorkers' = runningWorkers
             \/ pc[q] \in Busy /\ "past" \notin Busy /\ runningWorkers' = runningWorkers - 1
             \/ pc[q] \notin Busy /\ "past" \in Busy /\ runningWorkers' = runningWorkers + 1
      BY <1>0, <2>h, <1>w, SubmissionFacts DEF Busy, Stages, Hands, Taken, SubTypes, WordTypes, Halted
    <3> HIDE <1>Unblock
    <3> QED BY <3>1, <1>0, RunningStep
  <2>3. UncommittedWord'
    BY <2>h, <1>w DEF UncommittedWord, InPipe
  <2>4. FlipsCounted'
    <3>1. FlipsAhead' = FlipsAhead /\ FlipWork' = FlipWork /\ flipsAhead' = flipsAhead
            /\ flipWorkOpen' = flipWorkOpen
      BY <1>0 DEF FlipsAhead, FlipWork, FlipHere, Hands, Taken
    <3> QED BY <3>1, <2>h, <1>f, FlipsStep
  <2> QED BY <2>1, <2>2, <2>3, <2>4
<1>ReleaseFlip. ASSUME NEW q \in Queues, ReleaseFlip(q)
  PROVE  OrderWords' /\ RunningWord' /\ UncommittedWord' /\ FlipsCounted'
  <2> USE <1>ReleaseFlip DEF ReleaseFlip, order, blocks, serial, commit, title, halt, Step, NotifyAll
  <2>h. ~Halted
    BY DEF Halted
  <2>1. OrderWords'
    BY <1>0, <2>h, <1>w, SubmissionFacts DEF OrderWords, Hands, Stages, Taken
  <2>2. RunningWord'
    <3>1. /\ q \in Queues /\ "flipped" \in Stages /\ pc' = [pc EXCEPT ![q] = "flipped"] /\ RunningWord
          /\ \/ pc[q] \in Busy /\ "flipped" \in Busy /\ runningWorkers' = runningWorkers
             \/ pc[q] \notin Busy /\ "flipped" \notin Busy /\ runningWorkers' = runningWorkers
             \/ pc[q] \in Busy /\ "flipped" \notin Busy /\ runningWorkers' = runningWorkers - 1
             \/ pc[q] \notin Busy /\ "flipped" \in Busy /\ runningWorkers' = runningWorkers + 1
      BY <1>0, <2>h, <1>w, SubmissionFacts DEF Busy, Stages, Hands, Taken, SubTypes, WordTypes, Halted
    <3> HIDE <1>ReleaseFlip
    <3> QED BY <3>1, <1>0, RunningStep
  <2>3. UncommittedWord'
    BY <2>h, <1>w DEF UncommittedWord, InPipe
  <2>4. FlipsCounted'
    <3>1. q = Graphics /\ current[q].serial # 0
      BY <1>0, SubmissionFacts DEF Hands, Sound, Stages, Taken
    <3>2. /\ FlipWork' = FlipWork /\ flipWorkOpen' = flipWorkOpen
          /\ current[q].serial \in FlipsAhead /\ FlipsAhead' = FlipsAhead \ {current[q].serial}
          /\ flipsAhead' = flipsAhead - 1
      <4>1. Serials(pending[Graphics], Flips) \subseteq Listed[Graphics]
              /\ current[q].serial \notin Listed[Graphics]
        BY <3>1, FlipPlaces
      <4> QED BY <3>1, <4>1, <1>0 DEF FlipsAhead, FlipWork, FlipHere
    <3> HIDE <1>ReleaseFlip
    <3> QED BY <3>2, <2>h, <1>f, FlipsStep
  <2> QED BY <2>1, <2>2, <2>3, <2>4
<1>Store. ASSUME NEW q \in Queues, Store(q)
  PROVE  OrderWords' /\ RunningWord' /\ UncommittedWord' /\ FlipsCounted'
  <2> USE <1>Store DEF Store, order, blocks, serial, flips, title, halt, Step, Room
  <2>h. ~Halted
    BY DEF Halted
  <2>1. OrderWords'
    BY <1>0, <2>h, <1>w, SubmissionFacts DEF OrderWords, Hands, Stages, Taken
  <2>2. RunningWord'
    <3>1. /\ q \in Queues /\ "stored" \in Stages /\ pc' = [pc EXCEPT ![q] = "stored"] /\ RunningWord
          /\ \/ pc[q] \in Busy /\ "stored" \in Busy /\ runningWorkers' = runningWorkers
             \/ pc[q] \notin Busy /\ "stored" \notin Busy /\ runningWorkers' = runningWorkers
             \/ pc[q] \in Busy /\ "stored" \notin Busy /\ runningWorkers' = runningWorkers - 1
             \/ pc[q] \notin Busy /\ "stored" \in Busy /\ runningWorkers' = runningWorkers + 1
      BY <1>0, <2>h, <1>w, SubmissionFacts DEF Busy, Stages, Hands, Taken, SubTypes, WordTypes, Halted
    <3> HIDE <1>Store
    <3> QED BY <3>1, <1>0, RunningStep
  <2> DEFINE x == [kind |-> "label", serial |-> 0, writes |-> current[q].writes, flip |-> FALSE]
  <2>x. x \in Items /\ x \notin Completions /\ x \notin FlipItems
    BY <1>0, SubmissionFacts DEF Items, Completions, FlipItems
  <2>y. UNCHANGED pipeline \/ pipeline' = Append(pipeline, x)
    OBVIOUS
  <2>z. Serials(Append(pipeline, x), Completions) = InPipe
          /\ Serials(Append(pipeline, x), FlipItems) = Serials(pipeline, FlipItems)
    <3> HIDE <1>Store DEF x
    <3>1. pipeline \in Seq(Items) /\ x \in Items
      BY <1>0, <2>x
    <3>2. /\ Serials(Append(pipeline, x), Completions)
               = Serials(pipeline, Completions) \cup (IF x \in Completions THEN {x.serial} ELSE {})
          /\ Serials(Append(pipeline, x), FlipItems)
               = Serials(pipeline, FlipItems) \cup (IF x \in FlipItems THEN {x.serial} ELSE {})
      BY <3>1, SerialsMore
    <3> QED BY <3>2, <2>x DEF InPipe
  <2>5. InPipe' = InPipe /\ Serials(pipeline', FlipItems) = Serials(pipeline, FlipItems)
    <3> HIDE <1>Store DEF x
    <3> QED BY <2>y, <2>z DEF InPipe
  <2>3. UncommittedWord'
    BY <2>h, <1>w, <2>5 DEF UncommittedWord
  <2>4. FlipsCounted'
    <3>1. FlipsAhead' = FlipsAhead
      BY <1>0 DEF FlipsAhead, FlipHere
    <3>2. FlipWork' = FlipWork
      BY <1>0, <2>5 DEF FlipWork, FlipHere
    <3>3. flipsAhead' = flipsAhead /\ flipWorkOpen' = flipWorkOpen
      OBVIOUS
    <3> HIDE <1>Store
    <3> QED BY <3>1, <3>2, <3>3, <2>h, <1>f, FlipsStep
  <2> QED BY <2>1, <2>2, <2>3, <2>4
<1>EndExecute. ASSUME NEW q \in Queues, EndExecute(q)
  PROVE  OrderWords' /\ RunningWord' /\ UncommittedWord' /\ FlipsCounted'
  <2> USE <1>EndExecute DEF EndExecute, order, blocks, serial, commit, title, halt, Step, NotifyAll
  <2>h. ~Halted
    BY DEF Halted
  <2>1. OrderWords'
    BY <1>0, <2>h, <1>w, SubmissionFacts DEF OrderWords, Hands, Stages, Taken
  <2>2. RunningWord'
    <3>1. /\ q \in Queues /\ "executed" \in Stages /\ pc' = [pc EXCEPT ![q] = "executed"] /\ RunningWord
          /\ \/ pc[q] \in Busy /\ "executed" \in Busy /\ runningWorkers' = runningWorkers
             \/ pc[q] \notin Busy /\ "executed" \notin Busy /\ runningWorkers' = runningWorkers
             \/ pc[q] \in Busy /\ "executed" \notin Busy /\ runningWorkers' = runningWorkers - 1
             \/ pc[q] \notin Busy /\ "executed" \in Busy /\ runningWorkers' = runningWorkers + 1
      BY <1>0, <2>h, <1>w, SubmissionFacts DEF Busy, Stages, Hands, Taken, SubTypes, WordTypes, Halted
    <3> HIDE <1>EndExecute
    <3> QED BY <3>1, <1>0, RunningStep
  <2>3. UncommittedWord'
    BY <2>h, <1>w DEF UncommittedWord, InPipe
  <2>4. FlipsCounted'
    <3>1. CASE current[q].flip
      <4>1. q = Graphics /\ current[q].serial # 0
        BY <3>1, <1>0, SubmissionFacts DEF Hands, Sound, Stages, Taken
      <4>2. /\ FlipsAhead' = FlipsAhead /\ flipsAhead' = flipsAhead
            /\ current[q].serial \in FlipWork /\ FlipWork' = FlipWork \ {current[q].serial}
            /\ flipWorkOpen' = flipWorkOpen - 1
        <5>0. pc[q] = "stored"
          BY <3>1, <4>1, <1>0, SubmissionFacts DEF Hands, Sound
        <5>1. /\ Serials(pending[Graphics], Flips) \subseteq Listed[Graphics]
                   /\ current[q].serial \notin Listed[Graphics]
              /\ Serials(pipeline, FlipItems) \subseteq InPipe /\ current[q].serial \notin InPipe
          BY <4>1, <5>0, FlipPlaces
        <5> QED BY <3>1, <4>1, <5>0, <5>1, <1>0 DEF FlipsAhead, FlipWork, FlipHere
      <4> HIDE <1>EndExecute
      <4> QED BY <4>1, <4>2, <2>h, <1>f, FlipsStep
    <3>2. CASE ~current[q].flip
      <4>1. FlipsAhead' = FlipsAhead /\ FlipWork' = FlipWork /\ flipsAhead' = flipsAhead
              /\ flipWorkOpen' = flipWorkOpen
        BY <3>2, <1>0, <1>i, <2>h DEF FlipsAhead, FlipWork, FlipHere, Halted, SubTypes, WordTypes
      <4> HIDE <1>EndExecute
      <4> QED BY <4>1, <2>h, <1>f, FlipsStep
    <3> QED BY <3>1, <3>2
  <2> QED BY <2>1, <2>2, <2>3, <2>4
<1>Complete. ASSUME NEW q \in Queues, Complete(q)
  PROVE  OrderWords' /\ RunningWord' /\ UncommittedWord' /\ FlipsCounted'
  <2> USE <1>Complete DEF Complete, blocks, serial, commit, flips, title, halt, Step, NotifyAll
  <2>h. ~Halted
    BY DEF Halted
  <2>1. OrderWords'
    <3>1. CASE q = Graphics
      BY <3>1, <1>0, <2>h, <1>w DEF OrderWords, Taken, WaitFree
    <3>2. CASE q # Graphics
      <4>1. /\ queue0Executing' = queue0Executing
            /\ executingWaitFree' = [executingWaitFree EXCEPT ![q] = 0]
            /\ executingWaits' = [executingWaits EXCEPT ![q] = FALSE]
            /\ queue0Awaited' = queue0Awaited /\ current' = current /\ pc' = [pc EXCEPT ![q] = "leaving"]
        BY <3>2
      <4> HIDE <1>Complete
      <4> QED BY <4>1, <3>2, <1>0, <2>h, <1>w DEF OrderWords, Taken, WaitFree
    <3> QED BY <3>1, <3>2
  <2>2. RunningWord'
    <3>1. /\ q \in Queues /\ "leaving" \in Stages /\ pc' = [pc EXCEPT ![q] = "leaving"] /\ RunningWord
          /\ \/ pc[q] \in Busy /\ "leaving" \in Busy /\ runningWorkers' = runningWorkers
             \/ pc[q] \notin Busy /\ "leaving" \notin Busy /\ runningWorkers' = runningWorkers
             \/ pc[q] \in Busy /\ "leaving" \notin Busy /\ runningWorkers' = runningWorkers - 1
             \/ pc[q] \notin Busy /\ "leaving" \in Busy /\ runningWorkers' = runningWorkers + 1
      BY <1>0, <2>h, <1>w, SubmissionFacts DEF Busy, Stages, Hands, Taken, SubTypes, WordTypes, Halted
    <3> HIDE <1>Complete
    <3> QED BY <3>1, <1>0, RunningStep
  <2>3. UncommittedWord'
    BY <2>h, <1>w DEF UncommittedWord, InPipe
  <2>4. FlipsCounted'
    <3>1. FlipsAhead' = FlipsAhead /\ FlipWork' = FlipWork /\ flipsAhead' = flipsAhead
            /\ flipWorkOpen' = flipWorkOpen
      BY <1>0 DEF FlipsAhead, FlipWork, FlipHere, Hands, Taken
    <3> QED BY <3>1, <2>h, <1>f, FlipsStep
  <2> QED BY <2>1, <2>2, <2>3, <2>4
<1>Leave. ASSUME NEW q \in Queues, Leave(q)
  PROVE  OrderWords' /\ RunningWord' /\ UncommittedWord' /\ FlipsCounted'
  <2> USE <1>Leave DEF Leave, order, serial, commit, flips, title, halt, Step, NotifyAll
  <2>h. ~Halted
    BY DEF Halted
  <2>1. OrderWords'
    BY <1>0, <2>h, <1>w, SubmissionFacts DEF OrderWords, Hands, Stages, Taken
  <2>2. RunningWord'
    <3>1. /\ q \in Queues /\ "ready" \in Stages /\ pc' = [pc EXCEPT ![q] = "ready"] /\ RunningWord
          /\ \/ pc[q] \in Busy /\ "ready" \in Busy /\ runningWorkers' = runningWorkers
             \/ pc[q] \notin Busy /\ "ready" \notin Busy /\ runningWorkers' = runningWorkers
             \/ pc[q] \in Busy /\ "ready" \notin Busy /\ runningWorkers' = runningWorkers - 1
             \/ pc[q] \notin Busy /\ "ready" \in Busy /\ runningWorkers' = runningWorkers + 1
      BY <1>0, <2>h, <1>w, SubmissionFacts DEF Busy, Stages, Hands, Taken, SubTypes, WordTypes, Halted
    <3> HIDE <1>Leave
    <3> QED BY <3>1, <1>0, RunningStep
  <2>3. UncommittedWord'
    BY <2>h, <1>w DEF UncommittedWord, InPipe
  <2>4. FlipsCounted'
    <3>1. FlipsAhead' = FlipsAhead /\ FlipWork' = FlipWork /\ flipsAhead' = flipsAhead
            /\ flipWorkOpen' = flipWorkOpen
      BY <1>0 DEF FlipsAhead, FlipWork, FlipHere, Hands, Taken
    <3> QED BY <3>1, <2>h, <1>f, FlipsStep
  <2> QED BY <2>1, <2>2, <2>3, <2>4
<1>Unwind. ASSUME NEW q \in Queues, Unwind(q)
  PROVE  OrderWords' /\ RunningWord' /\ UncommittedWord' /\ FlipsCounted'
  <2> USE <1>Unwind DEF Unwind, order, serial, commit, title, halt, Step, NotifyAll
  <2>h. ~Halted
    BY DEF Halted
  <2>1. OrderWords'
    <3>1. /\ pc' = [pc EXCEPT ![q] = "thrown"] /\ current' = current /\ pc[q] \in Taken /\ pc[q] # "noting"
          /\ UNCHANGED <<queue0Executing, executingWaitFree, executingWaits>>
          /\ queue0Awaited' = IF pc[q] = "blocked" /\ q = Graphics THEN NoLabel ELSE queue0Awaited
      BY <1>0, <2>h DEF Halted, Taken, Stages
    <3> HIDE <1>Unwind
    <3> QED BY <3>1, <1>0, <2>h, <1>w DEF OrderWords, Taken, Stages, WaitFree
  <2>2. RunningWord'
    <3>1. /\ q \in Queues /\ "thrown" \in Stages /\ pc' = [pc EXCEPT ![q] = "thrown"] /\ RunningWord
          /\ \/ pc[q] \in Busy /\ "thrown" \in Busy /\ runningWorkers' = runningWorkers
             \/ pc[q] \notin Busy /\ "thrown" \notin Busy /\ runningWorkers' = runningWorkers
             \/ pc[q] \in Busy /\ "thrown" \notin Busy /\ runningWorkers' = runningWorkers - 1
             \/ pc[q] \notin Busy /\ "thrown" \in Busy /\ runningWorkers' = runningWorkers + 1
      BY <1>0, <2>h, <1>w, SubmissionFacts DEF Busy, Stages, Hands, Taken, SubTypes, WordTypes, Halted
    <3> HIDE <1>Unwind
    <3> QED BY <3>1, <1>0, RunningStep
  <2>3. UncommittedWord'
    BY <2>h, <1>w DEF UncommittedWord, InPipe
  <2>4. FlipsCounted'
    <3>1. CASE current[q].flip
      <4>1. q = Graphics /\ current[q].serial # 0
        BY <3>1, <1>0, SubmissionFacts DEF Hands, Sound, Stages, Taken
      <4>0. /\ Serials(pending[Graphics], Flips) \subseteq Listed[Graphics]
                 /\ current[q].serial \notin Listed[Graphics]
            /\ Serials(pipeline, FlipItems) \subseteq InPipe /\ current[q].serial \notin InPipe
            /\ pc[q] \in {"run", "blocked", "past", "flipped", "stored"} /\ current' = current
        <5>1. pc[q] \in {"run", "blocked", "past", "flipped", "stored"} /\ current' = current
          BY <2>h DEF Halted
        <5> QED BY <4>1, <5>1, FlipPlaces
      <4>2. /\ \/ FlipsAhead' = FlipsAhead /\ flipsAhead' = flipsAhead
               \/ /\ current[q].serial \in FlipsAhead /\ FlipsAhead' = FlipsAhead \ {current[q].serial}
                  /\ flipsAhead' = flipsAhead - 1
            /\ current[q].serial \in FlipWork /\ FlipWork' = FlipWork \ {current[q].serial}
            /\ flipWorkOpen' = flipWorkOpen - 1
        <5>1. /\ pc' = [pc EXCEPT ![q] = "thrown"] /\ UNCHANGED <<pipeline, pending>>
              /\ flipsAhead' = flipsAhead - (IF pc[q] \in {"run", "blocked", "past"} THEN 1 ELSE 0)
              /\ flipWorkOpen' = flipWorkOpen - 1
          BY <3>1, <4>0
        <5> HIDE <1>Unwind
        <5>2. flipsAhead \in Int
          BY DEF SubTypes, WordTypes
        <5> QED BY <3>1, <4>0, <4>1, <5>1, <5>2, <1>0 DEF FlipsAhead, FlipWork, FlipHere
      <4> HIDE <1>Unwind
      <4> QED BY <4>1, <4>2, <2>h, <1>f, FlipsStep
    <3>2. CASE ~current[q].flip
      <4>1. FlipsAhead' = FlipsAhead /\ FlipWork' = FlipWork /\ flipsAhead' = flipsAhead
              /\ flipWorkOpen' = flipWorkOpen
        BY <3>2, <1>0, <1>i, <2>h DEF FlipsAhead, FlipWork, FlipHere, Halted, SubTypes, WordTypes
      <4> HIDE <1>Unwind
      <4> QED BY <4>1, <2>h, <1>f, FlipsStep
    <3> QED BY <3>1, <3>2
  <2> QED BY <2>1, <2>2, <2>3, <2>4
<1>Catch. ASSUME NEW q \in Queues, Catch(q)
  PROVE  OrderWords' /\ RunningWord' /\ UncommittedWord' /\ FlipsCounted'
  <2> USE <1>Catch DEF Catch, order, blocks, serial, commit, flips, title, halt, Step, ReportFailure, worker,
      NotifyAll
  <2> QED BY DEF Halted, SubTypes, WordTypes
<1>DeferCompletion. ASSUME DeferCompletion
  PROVE  OrderWords' /\ RunningWord' /\ UncommittedWord' /\ FlipsCounted'
  <2> USE <1>DeferCompletion DEF DeferCompletion, blocks, serial, flips, title, halt, Step, Room
  <2>h. ~Halted
    BY DEF Halted
  <2>1. OrderWords'
    BY <1>0, <2>h, <1>w, SubmissionFacts DEF OrderWords, Hands, Stages, Taken
  <2>2. RunningWord'
    <3>1. /\ Graphics \in Queues /\ "deferred" \in Stages /\ pc' = [pc EXCEPT ![Graphics] = "deferred"]
               /\ RunningWord
          /\ \/ pc[Graphics] \in Busy /\ "deferred" \in Busy /\ runningWorkers' = runningWorkers
             \/ pc[Graphics] \notin Busy /\ "deferred" \notin Busy /\ runningWorkers' = runningWorkers
             \/ pc[Graphics] \in Busy /\ "deferred" \notin Busy /\ runningWorkers' = runningWorkers - 1
             \/ pc[Graphics] \notin Busy /\ "deferred" \in Busy /\ runningWorkers' = runningWorkers + 1
      BY <1>0, <2>h, <1>w, SubmissionFacts DEF Busy, Stages, Hands, Taken, SubTypes, WordTypes, Halted
    <3> HIDE <1>DeferCompletion
    <3> QED BY <3>1, <1>0, RunningStep
  <2> DEFINE c == current[Graphics]
             n == c.serial
             x == [kind |-> "complete", serial |-> c.serial, writes |-> c.writes, flip |-> c.flip]
  <2>x. x \in Items /\ x \in Completions /\ (x \in FlipItems <=> c.flip) /\ x.serial = n /\ n \in Nat /\ n # 0
    BY <1>0, SubmissionFacts DEF Items, Completions, FlipItems, Hands, Stages, Taken
  <2>y. /\ pipeline' = Append(pipeline, x) /\ queue0Uncommitted' = Append(queue0Uncommitted, n)
        /\ pc[Graphics] = "stored" /\ pc' = [pc EXCEPT ![Graphics] = "deferred"] /\ UNCHANGED <<pending, current>>
        /\ UNCHANGED <<flipsAhead, flipWorkOpen>>
    OBVIOUS
  <2>5. /\ InPipe' = InPipe \cup {n}
        /\ Serials(pipeline', FlipItems) = Serials(pipeline, FlipItems) \cup (IF c.flip THEN {n} ELSE {})
    <3> HIDE <1>DeferCompletion DEF x, n, c
    <3>1. pipeline \in Seq(Items) /\ x \in Items
      BY <1>0, <2>x
    <3>2. /\ Serials(Append(pipeline, x), Completions)
               = Serials(pipeline, Completions) \cup (IF x \in Completions THEN {x.serial} ELSE {})
          /\ Serials(Append(pipeline, x), FlipItems)
               = Serials(pipeline, FlipItems) \cup (IF x \in FlipItems THEN {x.serial} ELSE {})
      BY <3>1, SerialsMore
    <3> QED BY <3>2, <2>x, <2>y DEF InPipe
  <2>3. UncommittedWord'
    <3> DEFINE l == queue0Uncommitted
    <3>1. l \in Seq(Nat) /\ AscendingList(l) /\ Elements(l) = InPipe
      BY <2>h, <1>w DEF UncommittedWord
    <3>2. \A u \in InPipe : u < n
      <4>1. n \in Here[Graphics]
        BY <1>0, <2>x, <2>y DEF Here
      <4>2. n \in OpenAt[Graphics]
        BY <4>1, <1>0 DEF OpenAt
      <4> HIDE <1>DeferCompletion DEF x, n, c
      <4> QED BY <4>2 DEF SerialsInv, Places
    <3> HIDE <1>DeferCompletion DEF x, n, c, l
    <3>3. /\ Append(l, n) \in Seq(Nat) /\ AscendingList(Append(l, n))
          /\ Elements(Append(l, n)) = Elements(l) \cup {n}
      BY <3>1, <3>2, <2>x, GreatestAdded
    <3> QED BY <3>1, <3>3, <2>5, <2>y DEF UncommittedWord, l
  <2>4. FlipsCounted'
    <3> HIDE <1>DeferCompletion DEF x, n
    <3>1. FlipsAhead' = FlipsAhead
      BY <1>0, <2>y DEF FlipsAhead, FlipHere
    <3>2. FlipWork' = FlipWork
      BY <1>0, <2>y, <2>5 DEF FlipWork, FlipHere, n
    <3> QED BY <3>1, <3>2, <2>y, <2>h, <1>f, FlipsStep
  <2> QED BY <2>1, <2>2, <2>3, <2>4
<1>AwaitsTitle. ASSUME AwaitsTitle
  PROVE  OrderWords' /\ RunningWord' /\ UncommittedWord' /\ FlipsCounted'
  <2> USE <1>AwaitsTitle DEF AwaitsTitle, order, blocks, serial, commit, flips, title, halt, Step
  <2>h. ~Halted
    BY DEF Halted
  <2>1. OrderWords'
    BY <1>0, <2>h, <1>w, SubmissionFacts DEF OrderWords, Hands, Stages, Taken
  <2>2. RunningWord'
    <3>1. /\ Graphics \in Queues /\ "noting" \in Stages /\ pc' = [pc EXCEPT ![Graphics] = "noting"] /\ RunningWord
          /\ \/ pc[Graphics] \in Busy /\ "noting" \in Busy /\ runningWorkers' = runningWorkers
             \/ pc[Graphics] \notin Busy /\ "noting" \notin Busy /\ runningWorkers' = runningWorkers
             \/ pc[Graphics] \in Busy /\ "noting" \notin Busy /\ runningWorkers' = runningWorkers - 1
             \/ pc[Graphics] \notin Busy /\ "noting" \in Busy /\ runningWorkers' = runningWorkers + 1
      BY <1>0, <2>h, <1>w, SubmissionFacts DEF Busy, Stages, Hands, Taken, SubTypes, WordTypes, Halted
    <3> HIDE <1>AwaitsTitle
    <3> QED BY <3>1, <1>0, RunningStep
  <2>3. UncommittedWord'
    BY <2>h, <1>w DEF UncommittedWord, InPipe
  <2>4. FlipsCounted'
    <3>1. FlipsAhead' = FlipsAhead /\ FlipWork' = FlipWork /\ flipsAhead' = flipsAhead
            /\ flipWorkOpen' = flipWorkOpen
      BY <1>0 DEF FlipsAhead, FlipWork, FlipHere, Hands, Taken
    <3> QED BY <3>1, <2>h, <1>f, FlipsStep
  <2> QED BY <2>1, <2>2, <2>3, <2>4
<1>NoteAwaitingTitle. ASSUME NoteAwaitingTitle
  PROVE  OrderWords' /\ RunningWord' /\ UncommittedWord' /\ FlipsCounted'
  <2> USE <1>NoteAwaitingTitle DEF NoteAwaitingTitle, order, blocks, serial, commit, title, halt, Step, NotifyAll
  <2>h. ~Halted
    BY DEF Halted
  <2>1. OrderWords'
    BY <1>0, <2>h, <1>w, SubmissionFacts DEF OrderWords, Hands, Stages, Taken
  <2>2. RunningWord'
    <3>1. /\ Graphics \in Queues /\ "blocked" \in Stages /\ pc' = [pc EXCEPT ![Graphics] = "blocked"]
               /\ RunningWord
          /\ \/ pc[Graphics] \in Busy /\ "blocked" \in Busy /\ runningWorkers' = runningWorkers
             \/ pc[Graphics] \notin Busy /\ "blocked" \notin Busy /\ runningWorkers' = runningWorkers
             \/ pc[Graphics] \in Busy /\ "blocked" \notin Busy /\ runningWorkers' = runningWorkers - 1
             \/ pc[Graphics] \notin Busy /\ "blocked" \in Busy /\ runningWorkers' = runningWorkers + 1
      BY <1>0, <2>h, <1>w, SubmissionFacts DEF Busy, Stages, Hands, Taken, SubTypes, WordTypes, Halted
    <3> HIDE <1>NoteAwaitingTitle
    <3> QED BY <3>1, <1>0, RunningStep
  <2>3. UncommittedWord'
    BY <2>h, <1>w DEF UncommittedWord, InPipe
  <2>4. FlipsCounted'
    <3>1. FlipsAhead' = FlipsAhead /\ FlipWork' = FlipWork /\ flipsAhead' = flipsAhead
            /\ flipWorkOpen' = flipWorkOpen
      BY <1>0 DEF FlipsAhead, FlipWork, FlipHere, Hands, Taken
    <3> QED BY <3>1, <2>h, <1>f, FlipsStep
  <2> QED BY <2>1, <2>2, <2>3, <2>4
<1>CommitLabel. ASSUME CommitLabel
  PROVE  OrderWords' /\ RunningWord' /\ UncommittedWord' /\ FlipsCounted'
  <2> USE <1>CommitLabel DEF CommitLabel, worker, order, blocks, serial, flips, title, halt, Committing
  <2>h. ~Halted
    BY DEF Halted
  <2>1. OrderWords'
    BY <1>0, <2>h, <1>w, SubmissionFacts DEF OrderWords, Hands, Stages, Taken
  <2>2. RunningWord'
    BY <2>h, <1>w DEF RunningWord, Running
  <2> DEFINE h == Head(pipeline)
             t == Tail(pipeline)
  <2>x. /\ pipeline # << >> /\ h \in Items
        /\ Serials(pipeline, Completions) = (IF h \in Completions THEN {h.serial} ELSE {})
             \cup Serials(t, Completions)
        /\ Serials(pipeline, FlipItems) = (IF h \in FlipItems THEN {h.serial} ELSE {}) \cup Serials(t, FlipItems)
        /\ (h \in Completions => \A u \in Serials(t, Completions) : h.serial < u)
    <3>1. pipeline # << >> /\ Ascending(pipeline, Completions)
      BY DEF SerialsInv, Ascends
    <3> HIDE <1>CommitLabel
    <3> QED BY <3>1, <1>0, SerialsFirst, FirstAndRest
  <2>y. pipeline' = t /\ h \notin Completions /\ h \notin FlipItems
    <3>1. h = pipeline[1] /\ 1 \in 1..Len(pipeline)
      <4>1. pipeline # << >>
        BY <2>x
      <4> HIDE <1>CommitLabel
      <4> QED BY <4>1, <1>0, FirstAndRest
    <3> QED BY <3>1 DEF Completions, FlipItems, SubTypes, PipeTypes
  <2>5. InPipe' = InPipe /\ Serials(pipeline', FlipItems) = Serials(pipeline, FlipItems)
    <3> HIDE <1>CommitLabel DEF h, t
    <3> QED BY <2>x, <2>y DEF InPipe
  <2>3. UncommittedWord'
    BY <2>h, <1>w, <2>5 DEF UncommittedWord
  <2>4. FlipsCounted'
    <3>1. FlipsAhead' = FlipsAhead /\ FlipWork' = FlipWork /\ flipsAhead' = flipsAhead
            /\ flipWorkOpen' = flipWorkOpen
      BY <2>5 DEF FlipsAhead, FlipWork, FlipHere
    <3> HIDE <1>CommitLabel
    <3> QED BY <3>1, <2>h, <1>f, FlipsStep
  <2> QED BY <2>1, <2>2, <2>3, <2>4
<1>FinishFlipWork. ASSUME FinishFlipWork
  PROVE  OrderWords' /\ RunningWord' /\ UncommittedWord' /\ FlipsCounted'
  <2> USE <1>FinishFlipWork DEF FinishFlipWork, worker, order, blocks, serial, title, halt, NotifyAll, Committing
  <2>h. ~Halted
    BY DEF Halted
  <2>1. OrderWords'
    BY <1>0, <2>h, <1>w, SubmissionFacts DEF OrderWords, Hands, Stages, Taken
  <2>2. RunningWord'
    BY <2>h, <1>w DEF RunningWord, Running
  <2> DEFINE h == Head(pipeline)
             t == Tail(pipeline)
  <2>x. /\ pipeline # << >> /\ h \in Items
        /\ Serials(pipeline, Completions) = (IF h \in Completions THEN {h.serial} ELSE {})
             \cup Serials(t, Completions)
        /\ Serials(pipeline, FlipItems) = (IF h \in FlipItems THEN {h.serial} ELSE {}) \cup Serials(t, FlipItems)
        /\ (h \in Completions => \A u \in Serials(t, Completions) : h.serial < u)
    <3>1. pipeline # << >> /\ Ascending(pipeline, Completions)
      BY DEF SerialsInv, Ascends
    <3> HIDE <1>FinishFlipWork
    <3> QED BY <3>1, <1>0, SerialsFirst, FirstAndRest
  <2> DEFINE e == [h EXCEPT !.flip = FALSE]
             n == h.serial
  <2>y. /\ pipeline' = <<e>> \o t /\ e \in Items /\ e \in Completions /\ h \in Completions /\ e.serial = n
        /\ e \notin FlipItems /\ h \in FlipItems /\ n \in Nat
    BY <2>x DEF Items, Completions, FlipItems
  <2>5. /\ InPipe' = InPipe /\ n \in Serials(pipeline, FlipItems)
        /\ Serials(pipeline', FlipItems) = Serials(pipeline, FlipItems) \ {n}
    <3> HIDE <1>FinishFlipWork DEF e
    <3>0. pipeline \in Seq(Items) /\ pipeline # << >> /\ e \in Items
      BY <1>0, <2>x, <2>y
    <3>1. /\ Serials(<<e>> \o t, Completions) = (IF e \in Completions THEN {e.serial} ELSE {}) \cup Serials(t,
                 Completions)
          /\ Serials(<<e>> \o t, FlipItems) = (IF e \in FlipItems THEN {e.serial} ELSE {}) \cup Serials(t,
                 FlipItems)
      <4>1. \A F : Serials(<<e>> \o t, F) = (IF e \in F THEN {e.serial} ELSE {}) \cup Serials(t, F)
        BY <3>0, SerialsReplaced
      <4> QED BY <4>1, Zenon
    <3>2. t \in Seq(Items) /\ \A i \in 1..Len(t) : t[i].kind = "label" => ~t[i].flip
      <4>1. /\ t \in Seq(Items) /\ Len(t) = Len(pipeline) - 1 /\ Len(pipeline) \in Nat
            /\ \A i \in 1..Len(t) : t[i] = pipeline[i + 1]
        BY <3>0, FirstAndRest
      <4> HIDE DEF t
      <4>2. \A i \in 1..Len(t) : i + 1 \in 1..Len(pipeline)
        BY <4>1
      <4> QED BY <4>1, <4>2 DEF SubTypes, PipeTypes
    <3>3. Serials(t, FlipItems) \subseteq Serials(t, Completions)
      <4> HIDE DEF t
      <4> SUFFICES ASSUME NEW i \in 1..Len(t), t[i] \in FlipItems
                   PROVE  t[i] \in Completions
        BY DEF Serials
      <4> QED BY <3>2 DEF FlipItems, Completions, Items
    <3> HIDE DEF h, t, n
    <3>4. n \notin Serials(t, FlipItems)
      BY <2>x, <2>y, <3>3 DEF n
    <3> QED BY <2>x, <2>y, <3>1, <3>4 DEF InPipe, n
  <2>3. UncommittedWord'
    BY <2>h, <1>w, <2>5 DEF UncommittedWord
  <2>4. FlipsCounted'
    <3>0. /\ UNCHANGED <<pc, current, pending>> /\ flipsAhead' = flipsAhead /\ flipWorkOpen' = flipWorkOpen - 1
      OBVIOUS
    <3> HIDE <1>FinishFlipWork DEF h, n
    <3>1. FlipsAhead' = FlipsAhead
      BY <3>0 DEF FlipsAhead, FlipHere
    <3>2. n \in FlipWork /\ FlipWork' = FlipWork \ {n}
      <4>1. n \in InPipe
        BY <2>5, FlipPlaces
      <4>2. n \notin Serials(pending[Graphics], Flips)
        BY <4>1, FlipPlaces
      <4>3. n \notin FlipHere({"hold", "run", "blocked", "noting", "past", "flipped", "stored"})
        BY <4>1, <1>0, FlipPlaces DEF FlipHere, Hands, Taken, Stages
      <4>4. FlipHere({"hold", "run", "blocked", "noting", "past", "flipped", "stored"})'
              = FlipHere({"hold", "run", "blocked", "noting", "past", "flipped", "stored"})
        BY <3>0 DEF FlipHere
      <4> QED BY <2>5, <3>0, <4>2, <4>3, <4>4 DEF FlipWork
    <3> QED BY <3>0, <3>1, <3>2, <2>h, <1>f, FlipsStep
  <2> QED BY <2>1, <2>2, <2>3, <2>4
<1>CompleteSubmission. ASSUME CompleteSubmission
  PROVE  OrderWords' /\ RunningWord' /\ UncommittedWord' /\ FlipsCounted'
  <2> USE <1>CompleteSubmission DEF CompleteSubmission, worker, blocks, flips, title, halt, NotifyAll, Committing
  <2>h. ~Halted
    BY DEF Halted
  <2>1. OrderWords'
    BY <1>0, <2>h, <1>w, SubmissionFacts DEF OrderWords, Hands, Stages, Taken
  <2>2. RunningWord'
    BY <2>h, <1>w DEF RunningWord, Running
  <2> DEFINE h == Head(pipeline)
             t == Tail(pipeline)
  <2>x. /\ pipeline # << >> /\ h \in Items
        /\ Serials(pipeline, Completions) = (IF h \in Completions THEN {h.serial} ELSE {})
             \cup Serials(t, Completions)
        /\ Serials(pipeline, FlipItems) = (IF h \in FlipItems THEN {h.serial} ELSE {}) \cup Serials(t, FlipItems)
        /\ (h \in Completions => \A u \in Serials(t, Completions) : h.serial < u)
    <3>1. pipeline # << >> /\ Ascending(pipeline, Completions)
      BY DEF SerialsInv, Ascends
    <3> HIDE <1>CompleteSubmission
    <3> QED BY <3>1, <1>0, SerialsFirst, FirstAndRest
  <2> DEFINE n == h.serial
  <2>y. /\ pipeline' = t /\ h \in Completions /\ h \notin FlipItems /\ n \in Nat
        /\ queue0Uncommitted' = RemoveFirst(queue0Uncommitted, n)
    BY <2>x DEF Items, Completions, FlipItems
  <2> HIDE <1>CompleteSubmission DEF h, t
  <2>5. n \in InPipe /\ InPipe' = InPipe \ {n} /\ Serials(pipeline', FlipItems) = Serials(pipeline, FlipItems)
    <3>1. n \notin Serials(t, Completions)
      BY <2>x, <2>y
    <3> QED BY <3>1, <2>x, <2>y DEF InPipe
  <2>3. UncommittedWord'
    <3> DEFINE l == queue0Uncommitted
    <3>1. l \in Seq(Nat) /\ AscendingList(l) /\ Elements(l) = InPipe /\ n \in Elements(l)
      BY <2>h, <1>w, <2>5 DEF UncommittedWord
    <3> HIDE DEF l, n
    <3>2. RemoveFirst(l, n) \in Seq(Nat) /\ AscendingList(RemoveFirst(l, n))
            /\ Elements(RemoveFirst(l, n)) = Elements(l) \ {n}
      BY <3>1, LeastTaken
    <3> QED BY <3>1, <3>2, <2>5, <2>y DEF UncommittedWord, l
  <2>4. FlipsCounted'
    <3>1. UNCHANGED <<pc, current, pending, flipsAhead, flipWorkOpen>>
      BY <1>CompleteSubmission
    <3>2. FlipsAhead' = FlipsAhead /\ FlipWork' = FlipWork
      BY <3>1, <2>5 DEF FlipsAhead, FlipWork, FlipHere
    <3> QED BY <3>1, <3>2, <2>h, <1>f, FlipsStep
  <2> QED BY <2>1, <2>2, <2>3, <2>4
<1>CommitFails. ASSUME CommitFails
  PROVE  OrderWords' /\ RunningWord' /\ UncommittedWord' /\ FlipsCounted'
  <2> USE <1>CommitFails DEF CommitFails, blocks, serial, flips, title, ReportFailure, Committing, worker,
      NotifyAll
  <2> QED BY DEF Halted, SubTypes, WordTypes
<1>DropItem. ASSUME DropItem
  PROVE  OrderWords' /\ RunningWord' /\ UncommittedWord' /\ FlipsCounted'
  <2> USE <1>DropItem DEF DropItem, worker, order, blocks, serial, flips, title, halt
  <2> QED BY DEF Halted, SubTypes, WordTypes
<1>Stop. ASSUME Stop
  PROVE  OrderWords' /\ RunningWord' /\ UncommittedWord' /\ FlipsCounted'
  <2> USE <1>Stop DEF Stop, blocks, serial, commit, flips, title, NotifyAll
  <2> QED BY DEF Halted, SubTypes, WordTypes
<1>Submit. ASSUME NEW t \in Titles, NEW p \in Programs, Submit(t, p)
  PROVE  OrderWords' /\ RunningWord' /\ UncommittedWord' /\ FlipsCounted'
  <2> USE <1>Submit DEF Submit, worker, order, blocks, serial, commit, flips, halt, TitleStep
  <2>h. ~Halted
    BY DEF Halted
  <2>1. OrderWords'
    BY <1>0, <2>h, <1>w, SubmissionFacts DEF OrderWords, Hands, Stages, Taken
  <2>2. RunningWord'
    BY <2>h, <1>w DEF RunningWord, Running
  <2>3. UncommittedWord'
    BY <2>h, <1>w DEF UncommittedWord, InPipe
  <2>4. FlipsCounted'
    <3>1. FlipsAhead' = FlipsAhead /\ FlipWork' = FlipWork /\ flipsAhead' = flipsAhead
            /\ flipWorkOpen' = flipWorkOpen
      BY <1>0 DEF FlipsAhead, FlipWork, FlipHere, Hands, Taken
    <3> QED BY <3>1, <2>h, <1>f, FlipsStep
  <2> QED BY <2>1, <2>2, <2>3, <2>4
<1>TitleSleeps. ASSUME NEW t \in Titles, TitleSleeps(t)
  PROVE  OrderWords' /\ RunningWord' /\ UncommittedWord' /\ FlipsCounted'
  <2> USE <1>TitleSleeps DEF TitleSleeps, worker, order, blocks, serial, commit, flips, title, halt
  <2>h. ~Halted
    BY DEF Halted
  <2>1. OrderWords'
    BY <1>0, <2>h, <1>w, SubmissionFacts DEF OrderWords, Hands, Stages, Taken
  <2>2. RunningWord'
    BY <2>h, <1>w DEF RunningWord, Running
  <2>3. UncommittedWord'
    BY <2>h, <1>w DEF UncommittedWord, InPipe
  <2>4. FlipsCounted'
    <3>1. FlipsAhead' = FlipsAhead /\ FlipWork' = FlipWork /\ flipsAhead' = flipsAhead
            /\ flipWorkOpen' = flipWorkOpen
      BY <1>0 DEF FlipsAhead, FlipWork, FlipHere, Hands, Taken
    <3> QED BY <3>1, <2>h, <1>f, FlipsStep
  <2> QED BY <2>1, <2>2, <2>3, <2>4
<1>PassFlipHold. ASSUME NEW t \in Titles, PassFlipHold(t)
  PROVE  OrderWords' /\ RunningWord' /\ UncommittedWord' /\ FlipsCounted'
  <2> USE <1>PassFlipHold DEF PassFlipHold, worker, order, blocks, serial, commit, flips, halt, TitleStep
  <2>h. ~Halted
    BY DEF Halted
  <2>1. OrderWords'
    BY <1>0, <2>h, <1>w, SubmissionFacts DEF OrderWords, Hands, Stages, Taken
  <2>2. RunningWord'
    BY <2>h, <1>w DEF RunningWord, Running
  <2>3. UncommittedWord'
    BY <2>h, <1>w DEF UncommittedWord, InPipe
  <2>4. FlipsCounted'
    <3>1. FlipsAhead' = FlipsAhead /\ FlipWork' = FlipWork /\ flipsAhead' = flipsAhead
            /\ flipWorkOpen' = flipWorkOpen
      BY <1>0 DEF FlipsAhead, FlipWork, FlipHere, Hands, Taken
    <3> QED BY <3>1, <2>h, <1>f, FlipsStep
  <2> QED BY <2>1, <2>2, <2>3, <2>4
<1>Enqueue. ASSUME NEW t \in Titles, Enqueue(t)
  PROVE  OrderWords' /\ RunningWord' /\ UncommittedWord' /\ FlipsCounted'
  <2> USE <1>Enqueue DEF Enqueue, blocks, commit, halt, TitleStep, NotifyAll
  <2>h. ~Halted
    BY DEF Halted
  <2>1. OrderWords'
    BY <1>0, <2>h, <1>w, SubmissionFacts DEF OrderWords, Hands, Stages, Taken
  <2>2. RunningWord'
    BY <2>h, <1>w DEF RunningWord, Running
  <2>3. UncommittedWord'
    BY <2>h, <1>w DEF UncommittedWord, InPipe
  <2> DEFINE s == [request[t] EXCEPT !.serial = accepted + 1]
             k == s.queue
             n == accepted + 1
             l == Append(pending[k], s)
  <2>5. s \in Submissions /\ s.serial = n /\ k \in Queues /\ (s.flip => k = Graphics)
    <3>1. request[t] \in Submissions /\ n \in Nat /\ Sound(request[t], request[t].queue)
      BY DEF SubTypes, TitleTypes, SerialsInv
    <3> HIDE <1>Enqueue
    <3> QED BY <3>1, Numbered, SubmissionFacts DEF Sound
  <2>6. /\ UNCHANGED <<pc, current, pipeline>> /\ pending' = [pending EXCEPT ![k] = l]
        /\ flipsAhead' = flipsAhead + (IF s.flip THEN 1 ELSE 0)
        /\ flipWorkOpen' = flipWorkOpen + (IF s.flip THEN 1 ELSE 0)
        /\ flipsAhead \in Int /\ flipWorkOpen \in Int /\ accepted \in Nat
    BY <2>h DEF SubTypes, WordTypes, SerialsInv
  <2>4. FlipsCounted'
    <3> HIDE <1>Enqueue DEF s, k, n, l
    <3>1. Serials(pending'[Graphics], Flips) = Serials(pending[Graphics], Flips) \cup (IF s.flip THEN {n} ELSE {})
      <4>1. CASE k = Graphics
        <5>1. pending'[Graphics] = l /\ pending[k] \in Seq(Submissions) /\ (s \in Flips <=> s.flip)
          BY <4>1, <1>0, <2>5, <2>6 DEF Flips
        <5>2. Serials(l, Flips) = Serials(pending[k], Flips) \cup (IF s \in Flips THEN {s.serial} ELSE {})
          BY <5>1, <2>5, SerialsMore DEF l
        <5> QED BY <4>1, <5>1, <5>2, <2>5
      <4>2. CASE k # Graphics
        BY <4>2, <1>0, <2>5, <2>6
      <4> QED BY <4>1, <4>2
    <3>2. n \notin Serials(pending[Graphics], Flips) /\ n \notin InPipe /\ n \notin Serials(pipeline, FlipItems)
      <4>1. n \notin Listed[Graphics] /\ n \notin InPipe
        BY <2>6, FlipPlaces DEF n
      <4> QED BY <4>1, FlipPlaces
    <3>3. current[Graphics].serial # n
      BY <1>0, <2>6 DEF SerialsInv, Ascends, QueueAscends, n
    <3>4. FlipsAhead' = FlipsAhead \cup (IF s.flip THEN {n} ELSE {})
            /\ FlipWork' = FlipWork \cup (IF s.flip THEN {n} ELSE {})
      BY <2>6, <3>1 DEF FlipsAhead, FlipWork, FlipHere
    <3>5. n \notin FlipsAhead /\ n \notin FlipWork
      BY <3>2, <3>3 DEF FlipsAhead, FlipWork, FlipHere
    <3>6. CASE s.flip
      <4>1. /\ FlipsAhead' = FlipsAhead \cup {n} /\ flipsAhead' = flipsAhead + 1
            /\ FlipWork' = FlipWork \cup {n} /\ flipWorkOpen' = flipWorkOpen + 1
        BY <3>6, <3>4, <2>6
      <4> QED BY <4>1, <3>5, <2>h, <1>f, FlipsStep
    <3>7. CASE ~s.flip
      <4>1. /\ FlipsAhead' = FlipsAhead /\ flipsAhead' = flipsAhead
            /\ FlipWork' = FlipWork /\ flipWorkOpen' = flipWorkOpen
        BY <3>7, <3>4, <2>6
      <4> QED BY <4>1, <2>h, <1>f, FlipsStep
    <3> QED BY <3>6, <3>7
  <2> QED BY <2>1, <2>2, <2>3, <2>4
<1>WaitIdle. ASSUME NEW t \in Titles, WaitIdle(t)
  PROVE  OrderWords' /\ RunningWord' /\ UncommittedWord' /\ FlipsCounted'
  <2> USE <1>WaitIdle DEF WaitIdle, worker, order, blocks, serial, commit, flips, halt, TitleStep
  <2>h. ~Halted
    BY DEF Halted
  <2>1. OrderWords'
    BY <1>0, <2>h, <1>w, SubmissionFacts DEF OrderWords, Hands, Stages, Taken
  <2>2. RunningWord'
    BY <2>h, <1>w DEF RunningWord, Running
  <2>3. UncommittedWord'
    BY <2>h, <1>w DEF UncommittedWord, InPipe
  <2>4. FlipsCounted'
    <3>1. FlipsAhead' = FlipsAhead /\ FlipWork' = FlipWork /\ flipsAhead' = flipsAhead
            /\ flipWorkOpen' = flipWorkOpen
      BY <1>0 DEF FlipsAhead, FlipWork, FlipHere, Hands, Taken
    <3> QED BY <3>1, <2>h, <1>f, FlipsStep
  <2> QED BY <2>1, <2>2, <2>3, <2>4
<1>Idled. ASSUME NEW t \in Titles, Idled(t)
  PROVE  OrderWords' /\ RunningWord' /\ UncommittedWord' /\ FlipsCounted'
  <2> USE <1>Idled DEF Idled, worker, order, blocks, serial, commit, flips, halt, TitleStep
  <2>h. ~Halted
    BY DEF Halted
  <2>1. OrderWords'
    BY <1>0, <2>h, <1>w, SubmissionFacts DEF OrderWords, Hands, Stages, Taken
  <2>2. RunningWord'
    BY <2>h, <1>w DEF RunningWord, Running
  <2>3. UncommittedWord'
    BY <2>h, <1>w DEF UncommittedWord, InPipe
  <2>4. FlipsCounted'
    <3>1. FlipsAhead' = FlipsAhead /\ FlipWork' = FlipWork /\ flipsAhead' = flipsAhead
            /\ flipWorkOpen' = flipWorkOpen
      BY <1>0 DEF FlipsAhead, FlipWork, FlipHere, Hands, Taken
    <3> QED BY <3>1, <2>h, <1>f, FlipsStep
  <2> QED BY <2>1, <2>2, <2>3, <2>4
<1>TitleStores. ASSUME NEW t \in Titles, NEW l \in Labels, TitleStores(t, l)
  PROVE  OrderWords' /\ RunningWord' /\ UncommittedWord' /\ FlipsCounted'
  <2> USE <1>TitleStores DEF TitleStores, worker, order, blocks, serial, commit, flips, title, halt
  <2>h. ~Halted
    BY DEF Halted
  <2>1. OrderWords'
    BY <1>0, <2>h, <1>w, SubmissionFacts DEF OrderWords, Hands, Stages, Taken
  <2>2. RunningWord'
    BY <2>h, <1>w DEF RunningWord, Running
  <2>3. UncommittedWord'
    BY <2>h, <1>w DEF UncommittedWord, InPipe
  <2>4. FlipsCounted'
    <3>1. FlipsAhead' = FlipsAhead /\ FlipWork' = FlipWork /\ flipsAhead' = flipsAhead
            /\ flipWorkOpen' = flipWorkOpen
      BY <1>0 DEF FlipsAhead, FlipWork, FlipHere, Hands, Taken
    <3> QED BY <3>1, <2>h, <1>f, FlipsStep
  <2> QED BY <2>1, <2>2, <2>3, <2>4
<1> QED BY <1>Sleep, <1>Dequeue, <1>Start, <1>Retire, <1>PassWait, <1>Block, <1>Unblock, <1>ReleaseFlip,
           <1>Store, <1>EndExecute, <1>Complete, <1>Leave, <1>Unwind, <1>Catch, <1>DeferCompletion,
           <1>AwaitsTitle, <1>NoteAwaitingTitle, <1>CommitLabel, <1>FinishFlipWork, <1>CompleteSubmission,
           <1>CommitFails, <1>DropItem, <1>Stop, <1>Submit, <1>TitleSleeps, <1>PassFlipHold, <1>Enqueue,
           <1>WaitIdle, <1>Idled, <1>TitleStores
          DEF Next, WorkerStep, CommitterStep, TitleAction

-----------------------------------------------------------------------------
(* The sleepers.                                                           *)

\* Every step wakes whom it gives a reason to wake, by all three notifying conditions.
LEMMA SleepersStep ==
    ASSUME SubTypes, SubTypes', Sleepers, NoLostWakeup, Next
    PROVE  Sleepers' /\ NoLostWakeup'
<1> USE QueuesAssumption
<1>0. Graphics \in Queues /\ pc \in [Queues -> Stages] /\ pending \in [Queues -> Seq(Submissions)]
      /\ titlePc \in [Titles -> TitleStages]
  BY DEF SubTypes, WorkerTypes, TitleTypes
<1>1. ASSUME asleep' = {}
      PROVE  Sleepers' /\ NoLostWakeup'
  BY <1>1 DEF Sleepers, NoLostWakeup
<1>Sleep. ASSUME NEW q \in Queues, Sleep(q)
  PROVE  Sleepers' /\ NoLostWakeup'
  <2> USE <1>Sleep DEF Sleep, worker, order, blocks, serial, commit, flips, title, halt
  <2> SUFFICES ASSUME asleep' # {}
               PROVE  Sleepers' /\ NoLostWakeup'
    BY <1>1
  <2>1. Sleepers'
    BY <1>0 DEF Sleepers, FlipHolders, IdleWaiters, Halted
  <2>2. NoLostWakeup'
    BY <1>0 DEF Sleepers, NoLostWakeup, WaitOver, FlipHolders, IdleWaiters, Halted
  <2> QED BY <2>1, <2>2
<1>Dequeue. ASSUME NEW q \in Queues, Dequeue(q)
  PROVE  Sleepers' /\ NoLostWakeup'
  <2> USE <1>Dequeue DEF Dequeue, serial, commit, flips, title, halt, Step
  <2> SUFFICES ASSUME asleep' # {}
               PROVE  Sleepers' /\ NoLostWakeup'
    BY <1>1
  <2>1. Sleepers'
    BY <1>0 DEF Sleepers, FlipHolders, IdleWaiters, Halted
  <2>2. NoLostWakeup'
    BY <1>0 DEF Sleepers, NoLostWakeup, WaitOver, FlipHolders, IdleWaiters, Halted
  <2> QED BY <2>1, <2>2
<1>Start. ASSUME NEW q \in Queues, Start(q)
  PROVE  Sleepers' /\ NoLostWakeup'
  <2> USE <1>Start DEF Start, order, serial, commit, flips, title, halt, Step
  <2> SUFFICES ASSUME asleep' # {}
               PROVE  Sleepers' /\ NoLostWakeup'
    BY <1>1
  <2>1. Sleepers'
    BY <1>0 DEF Sleepers, FlipHolders, IdleWaiters, Halted
  <2>2. NoLostWakeup'
    BY <1>0 DEF Sleepers, NoLostWakeup, WaitOver, FlipHolders, IdleWaiters, Halted
  <2> QED BY <2>1, <2>2
<1>Retire. ASSUME NEW q \in Queues, Retire(q)
  PROVE  Sleepers' /\ NoLostWakeup'
  <2> USE <1>Retire DEF Retire, order, blocks, serial, commit, flips, title, halt, Step
  <2> SUFFICES ASSUME asleep' # {}
               PROVE  Sleepers' /\ NoLostWakeup'
    BY <1>1
  <2>1. Sleepers'
    BY <1>0 DEF Sleepers, FlipHolders, IdleWaiters, Halted
  <2>2. NoLostWakeup'
    BY <1>0 DEF Sleepers, NoLostWakeup, WaitOver, FlipHolders, IdleWaiters, Halted
  <2> QED BY <2>1, <2>2
<1>PassWait. ASSUME NEW q \in Queues, PassWait(q)
  PROVE  Sleepers' /\ NoLostWakeup'
  <2> USE <1>PassWait DEF PassWait, order, blocks, serial, commit, flips, title, halt, Step
  <2> SUFFICES ASSUME asleep' # {}
               PROVE  Sleepers' /\ NoLostWakeup'
    BY <1>1
  <2>1. Sleepers'
    BY <1>0 DEF Sleepers, FlipHolders, IdleWaiters, Halted
  <2>2. NoLostWakeup'
    BY <1>0 DEF Sleepers, NoLostWakeup, WaitOver, FlipHolders, IdleWaiters, Halted
  <2> QED BY <2>1, <2>2
<1>Block. ASSUME NEW q \in Queues, Block(q)
  PROVE  Sleepers' /\ NoLostWakeup'
  <2> USE <1>Block DEF Block, order, serial, commit, flips, title, halt, Step, NotifyAll, OrderHolders
  <2> SUFFICES ASSUME asleep' # {}
               PROVE  Sleepers' /\ NoLostWakeup'
    BY <1>1
  <2>1. Sleepers'
    BY <1>0 DEF Sleepers, FlipHolders, IdleWaiters, Halted
  <2>2. NoLostWakeup'
    BY <1>0 DEF Sleepers, NoLostWakeup, WaitOver, FlipHolders, IdleWaiters, Halted
  <2> QED BY <2>1, <2>2
<1>Unblock. ASSUME NEW q \in Queues, Unblock(q)
  PROVE  Sleepers' /\ NoLostWakeup'
  <2> USE <1>Unblock DEF Unblock, order, serial, commit, title, halt, Step, EndBlock
  <2> SUFFICES ASSUME asleep' # {}
               PROVE  Sleepers' /\ NoLostWakeup'
    BY <1>1
  <2>1. Sleepers'
    BY <1>0 DEF Sleepers, FlipHolders, IdleWaiters, Halted
  <2>2. NoLostWakeup'
    BY <1>0 DEF Sleepers, NoLostWakeup, WaitOver, FlipHolders, IdleWaiters, Halted
  <2> QED BY <2>1, <2>2
<1>ReleaseFlip. ASSUME NEW q \in Queues, ReleaseFlip(q)
  PROVE  Sleepers' /\ NoLostWakeup'
  <2> USE <1>ReleaseFlip DEF ReleaseFlip, order, blocks, serial, commit, title, halt, Step, NotifyAll, FlipHolders
  <2> SUFFICES ASSUME asleep' # {}
               PROVE  Sleepers' /\ NoLostWakeup'
    BY <1>1
  <2>1. Sleepers'
    BY <1>0 DEF Sleepers, FlipHolders, IdleWaiters, Halted
  <2>2. NoLostWakeup'
    BY <1>0 DEF Sleepers, NoLostWakeup, WaitOver, FlipHolders, IdleWaiters, Halted
  <2> QED BY <2>1, <2>2
<1>Store. ASSUME NEW q \in Queues, Store(q)
  PROVE  Sleepers' /\ NoLostWakeup'
  <2> USE <1>Store DEF Store, order, blocks, serial, flips, title, halt, Step, Room
  <2> SUFFICES ASSUME asleep' # {}
               PROVE  Sleepers' /\ NoLostWakeup'
    BY <1>1
  <2>1. Sleepers'
    BY <1>0 DEF Sleepers, FlipHolders, IdleWaiters, Halted
  <2>2. NoLostWakeup'
    BY <1>0 DEF Sleepers, NoLostWakeup, WaitOver, FlipHolders, IdleWaiters, Halted
  <2> QED BY <2>1, <2>2
<1>EndExecute. ASSUME NEW q \in Queues, EndExecute(q)
  PROVE  Sleepers' /\ NoLostWakeup'
  <2> USE <1>EndExecute DEF EndExecute, order, blocks, serial, commit, title, halt, Step, NotifyAll, FlipHolders
  <2> SUFFICES ASSUME asleep' # {}
               PROVE  Sleepers' /\ NoLostWakeup'
    BY <1>1
  <2>1. Sleepers'
    BY <1>0 DEF Sleepers, FlipHolders, IdleWaiters, Halted
  <2>2. NoLostWakeup'
    BY <1>0 DEF Sleepers, NoLostWakeup, WaitOver, FlipHolders, IdleWaiters, Halted
  <2> QED BY <2>1, <2>2
<1>Complete. ASSUME NEW q \in Queues, Complete(q)
  PROVE  Sleepers' /\ NoLostWakeup'
  <2> USE <1>Complete DEF Complete, blocks, serial, commit, flips, title, halt, Step, NotifyAll, OrderHolders,
      IdleWaiters
  <2> SUFFICES ASSUME asleep' # {}
               PROVE  Sleepers' /\ NoLostWakeup'
    BY <1>1
  <2>1. Sleepers'
    BY <1>0 DEF Sleepers, FlipHolders, IdleWaiters, Halted
  <2>2. NoLostWakeup'
    BY <1>0 DEF Sleepers, NoLostWakeup, WaitOver, FlipHolders, IdleWaiters, Halted
  <2> QED BY <2>1, <2>2
<1>Leave. ASSUME NEW q \in Queues, Leave(q)
  PROVE  Sleepers' /\ NoLostWakeup'
  <2> USE <1>Leave DEF Leave, order, serial, commit, flips, title, halt, Step, NotifyAll
  <2> SUFFICES ASSUME asleep' # {}
               PROVE  Sleepers' /\ NoLostWakeup'
    BY <1>1
  <2>1. Sleepers'
    BY <1>0 DEF Sleepers, FlipHolders, IdleWaiters, Halted
  <2>2. NoLostWakeup'
    BY <1>0 DEF Sleepers, NoLostWakeup, WaitOver, FlipHolders, IdleWaiters, Halted
  <2> QED BY <2>1, <2>2
<1>Unwind. ASSUME NEW q \in Queues, Unwind(q)
  PROVE  Sleepers' /\ NoLostWakeup'
  <2> USE <1>Unwind DEF Unwind, order, serial, commit, title, halt, Step, NotifyAll
  <2> QED BY <1>1 DEF ReportFailure
<1>Catch. ASSUME NEW q \in Queues, Catch(q)
  PROVE  Sleepers' /\ NoLostWakeup'
  <2> USE <1>Catch DEF Catch, order, blocks, serial, commit, flips, title, halt, Step, ReportFailure, worker,
      NotifyAll
  <2> SUFFICES ASSUME asleep' # {}
               PROVE  Sleepers' /\ NoLostWakeup'
    BY <1>1
  <2>1. Sleepers'
    BY <1>0 DEF Sleepers, FlipHolders, IdleWaiters, Halted
  <2>2. NoLostWakeup'
    BY <1>0 DEF Sleepers, NoLostWakeup, WaitOver, FlipHolders, IdleWaiters, Halted
  <2> QED BY <2>1, <2>2
<1>DeferCompletion. ASSUME DeferCompletion
  PROVE  Sleepers' /\ NoLostWakeup'
  <2> USE <1>DeferCompletion DEF DeferCompletion, blocks, serial, flips, title, halt, Step, Room
  <2> SUFFICES ASSUME asleep' # {}
               PROVE  Sleepers' /\ NoLostWakeup'
    BY <1>1
  <2>1. Sleepers'
    BY <1>0 DEF Sleepers, FlipHolders, IdleWaiters, Halted
  <2>2. NoLostWakeup'
    BY <1>0 DEF Sleepers, NoLostWakeup, WaitOver, FlipHolders, IdleWaiters, Halted
  <2> QED BY <2>1, <2>2
<1>AwaitsTitle. ASSUME AwaitsTitle
  PROVE  Sleepers' /\ NoLostWakeup'
  <2> USE <1>AwaitsTitle DEF AwaitsTitle, order, blocks, serial, commit, flips, title, halt, Step,
      OrderHolders, FlipHolders
  <2> SUFFICES ASSUME asleep' # {}
               PROVE  Sleepers' /\ NoLostWakeup'
    BY <1>1
  <2>1. Sleepers'
    BY <1>0 DEF Sleepers, FlipHolders, IdleWaiters, Halted
  <2>2. NoLostWakeup'
    BY <1>0 DEF Sleepers, NoLostWakeup, WaitOver, FlipHolders, IdleWaiters, Halted
  <2> QED BY <2>1, <2>2
<1>NoteAwaitingTitle. ASSUME NoteAwaitingTitle
  PROVE  Sleepers' /\ NoLostWakeup'
  <2> USE <1>NoteAwaitingTitle DEF NoteAwaitingTitle, order, blocks, serial, commit, title, halt, Step, NotifyAll
  <2> QED BY <1>1 DEF ReportFailure
<1>CommitLabel. ASSUME CommitLabel
  PROVE  Sleepers' /\ NoLostWakeup'
  <2> USE <1>CommitLabel DEF CommitLabel, worker, order, blocks, serial, flips, title, halt, Committing
  <2> SUFFICES ASSUME asleep' # {}
               PROVE  Sleepers' /\ NoLostWakeup'
    BY <1>1
  <2>1. Sleepers'
    BY <1>0 DEF Sleepers, FlipHolders, IdleWaiters, Halted
  <2>2. NoLostWakeup'
    BY <1>0 DEF Sleepers, NoLostWakeup, WaitOver, FlipHolders, IdleWaiters, Halted
  <2> QED BY <2>1, <2>2
<1>FinishFlipWork. ASSUME FinishFlipWork
  PROVE  Sleepers' /\ NoLostWakeup'
  <2> USE <1>FinishFlipWork DEF FinishFlipWork, worker, order, blocks, serial, title, halt, NotifyAll,
      FlipHolders, Committing
  <2> SUFFICES ASSUME asleep' # {}
               PROVE  Sleepers' /\ NoLostWakeup'
    BY <1>1
  <2>1. Sleepers'
    BY <1>0 DEF Sleepers, FlipHolders, IdleWaiters, Halted
  <2>2. NoLostWakeup'
    BY <1>0 DEF Sleepers, NoLostWakeup, WaitOver, FlipHolders, IdleWaiters, Halted
  <2> QED BY <2>1, <2>2
<1>CompleteSubmission. ASSUME CompleteSubmission
  PROVE  Sleepers' /\ NoLostWakeup'
  <2> USE <1>CompleteSubmission DEF CompleteSubmission, worker, blocks, flips, title, halt, NotifyAll,
      OrderHolders, IdleWaiters, Committing
  <2> SUFFICES ASSUME asleep' # {}
               PROVE  Sleepers' /\ NoLostWakeup'
    BY <1>1
  <2>1. Sleepers'
    BY <1>0 DEF Sleepers, FlipHolders, IdleWaiters, Halted
  <2>2. NoLostWakeup'
    BY <1>0 DEF Sleepers, NoLostWakeup, WaitOver, FlipHolders, IdleWaiters, Halted
  <2> QED BY <2>1, <2>2
<1>CommitFails. ASSUME CommitFails
  PROVE  Sleepers' /\ NoLostWakeup'
  <2> USE <1>CommitFails DEF CommitFails, blocks, serial, flips, title, ReportFailure, Committing, worker,
      NotifyAll
  <2> QED BY <1>1 DEF ReportFailure
<1>DropItem. ASSUME DropItem
  PROVE  Sleepers' /\ NoLostWakeup'
  <2> USE <1>DropItem DEF DropItem, worker, order, blocks, serial, flips, title, halt
  <2> SUFFICES ASSUME asleep' # {}
               PROVE  Sleepers' /\ NoLostWakeup'
    BY <1>1
  <2>1. Sleepers'
    BY <1>0 DEF Sleepers, FlipHolders, IdleWaiters, Halted
  <2>2. NoLostWakeup'
    BY <1>0 DEF Sleepers, NoLostWakeup, WaitOver, FlipHolders, IdleWaiters, Halted
  <2> QED BY <2>1, <2>2
<1>Stop. ASSUME Stop
  PROVE  Sleepers' /\ NoLostWakeup'
  <2> USE <1>Stop DEF Stop, blocks, serial, commit, flips, title, NotifyAll
  <2> QED BY <1>1 DEF ReportFailure
<1>Submit. ASSUME NEW t \in Titles, NEW p \in Programs, Submit(t, p)
  PROVE  Sleepers' /\ NoLostWakeup'
  <2> USE <1>Submit DEF Submit, worker, order, blocks, serial, commit, flips, halt, TitleStep
  <2> SUFFICES ASSUME asleep' # {}
               PROVE  Sleepers' /\ NoLostWakeup'
    BY <1>1
  <2>1. Sleepers'
    BY <1>0 DEF Sleepers, FlipHolders, IdleWaiters, Halted
  <2>2. NoLostWakeup'
    BY <1>0 DEF Sleepers, NoLostWakeup, WaitOver, FlipHolders, IdleWaiters, Halted
  <2> QED BY <2>1, <2>2
<1>TitleSleeps. ASSUME NEW t \in Titles, TitleSleeps(t)
  PROVE  Sleepers' /\ NoLostWakeup'
  <2> USE <1>TitleSleeps DEF TitleSleeps, worker, order, blocks, serial, commit, flips, title, halt,
      FlipHolders, IdleWaiters
  <2> SUFFICES ASSUME asleep' # {}
               PROVE  Sleepers' /\ NoLostWakeup'
    BY <1>1
  <2>1. Sleepers'
    BY <1>0 DEF Sleepers, FlipHolders, IdleWaiters, Halted
  <2>2. NoLostWakeup'
    BY <1>0 DEF Sleepers, NoLostWakeup, WaitOver, FlipHolders, IdleWaiters, Halted
  <2> QED BY <2>1, <2>2
<1>PassFlipHold. ASSUME NEW t \in Titles, PassFlipHold(t)
  PROVE  Sleepers' /\ NoLostWakeup'
  <2> USE <1>PassFlipHold DEF PassFlipHold, worker, order, blocks, serial, commit, flips, halt, TitleStep,
      FlipHolders
  <2> SUFFICES ASSUME asleep' # {}
               PROVE  Sleepers' /\ NoLostWakeup'
    BY <1>1
  <2>1. Sleepers'
    BY <1>0 DEF Sleepers, FlipHolders, IdleWaiters, Halted
  <2>2. NoLostWakeup'
    BY <1>0 DEF Sleepers, NoLostWakeup, WaitOver, FlipHolders, IdleWaiters, Halted
  <2> QED BY <2>1, <2>2
<1>Enqueue. ASSUME NEW t \in Titles, Enqueue(t)
  PROVE  Sleepers' /\ NoLostWakeup'
  <2> USE <1>Enqueue DEF Enqueue, blocks, commit, halt, TitleStep, NotifyAll
  <2> SUFFICES ASSUME asleep' # {}
               PROVE  Sleepers' /\ NoLostWakeup'
    BY <1>1
  <2>1. Sleepers'
    BY <1>0 DEF Sleepers, FlipHolders, IdleWaiters, Halted
  <2>2. NoLostWakeup'
    BY <1>0 DEF Sleepers, NoLostWakeup, WaitOver, FlipHolders, IdleWaiters, Halted
  <2> QED BY <2>1, <2>2
<1>WaitIdle. ASSUME NEW t \in Titles, WaitIdle(t)
  PROVE  Sleepers' /\ NoLostWakeup'
  <2> USE <1>WaitIdle DEF WaitIdle, worker, order, blocks, serial, commit, flips, halt, TitleStep
  <2> SUFFICES ASSUME asleep' # {}
               PROVE  Sleepers' /\ NoLostWakeup'
    BY <1>1
  <2>1. Sleepers'
    BY <1>0 DEF Sleepers, FlipHolders, IdleWaiters, Halted
  <2>2. NoLostWakeup'
    BY <1>0 DEF Sleepers, NoLostWakeup, WaitOver, FlipHolders, IdleWaiters, Halted
  <2> QED BY <2>1, <2>2
<1>Idled. ASSUME NEW t \in Titles, Idled(t)
  PROVE  Sleepers' /\ NoLostWakeup'
  <2> USE <1>Idled DEF Idled, worker, order, blocks, serial, commit, flips, halt, TitleStep, IdleWaiters
  <2> SUFFICES ASSUME asleep' # {}
               PROVE  Sleepers' /\ NoLostWakeup'
    BY <1>1
  <2>1. Sleepers'
    BY <1>0 DEF Sleepers, FlipHolders, IdleWaiters, Halted
  <2>2. NoLostWakeup'
    BY <1>0 DEF Sleepers, NoLostWakeup, WaitOver, FlipHolders, IdleWaiters, Halted
  <2> QED BY <2>1, <2>2
<1>TitleStores. ASSUME NEW t \in Titles, NEW l \in Labels, TitleStores(t, l)
  PROVE  Sleepers' /\ NoLostWakeup'
  <2> USE <1>TitleStores DEF TitleStores, worker, order, blocks, serial, commit, flips, title, halt
  <2> SUFFICES ASSUME asleep' # {}
               PROVE  Sleepers' /\ NoLostWakeup'
    BY <1>1
  <2>1. Sleepers'
    BY <1>0 DEF Sleepers, FlipHolders, IdleWaiters, Halted
  <2>2. NoLostWakeup'
    BY <1>0 DEF Sleepers, NoLostWakeup, WaitOver, FlipHolders, IdleWaiters, Halted
  <2> QED BY <2>1, <2>2
<1> QED BY <1>Sleep, <1>Dequeue, <1>Start, <1>Retire, <1>PassWait, <1>Block, <1>Unblock, <1>ReleaseFlip,
           <1>Store, <1>EndExecute, <1>Complete, <1>Leave, <1>Unwind, <1>Catch, <1>DeferCompletion,
           <1>AwaitsTitle, <1>NoteAwaitingTitle, <1>CommitLabel, <1>FinishFlipWork, <1>CompleteSubmission,
           <1>CommitFails, <1>DropItem, <1>Stop, <1>Submit, <1>TitleSleeps, <1>PassFlipHold, <1>Enqueue,
           <1>WaitIdle, <1>Idled, <1>TitleStores
          DEF Next, WorkerStep, CommitterStep, TitleAction

-----------------------------------------------------------------------------
(* The invariant.                                                          *)

\* The invariant holds before anything is submitted.
LEMMA SubInitial == Init => SubIInv
<1> SUFFICES ASSUME Init
             PROVE  SubIInv
  OBVIOUS
<1> USE QueuesAssumption, SubmissionFacts DEF Init
<1>0. Graphics \in Queues /\ \A q \in Queues : pending[q] = << >> /\ current[q] = NoSubmission /\ pc[q] = "ready"
  OBVIOUS
<1>1. SubTypes
  <2>1. WorkerTypes
    BY DEF WorkerTypes, Stages
  <2>2. TitleTypes
    BY DEF TitleTypes, TitleStages, Sound
  <2>3. PipeTypes
    BY DEF PipeTypes
  <2>4. WordTypes
    <3>1. failure = FALSE /\ stopping = FALSE /\ queue0AwaitsTitle = FALSE /\ committer = "running"
      OBVIOUS
    <3>2. executingWaitFree \in [Queues -> Nat] /\ executingWaits \in [Queues -> BOOLEAN]
      OBVIOUS
    <3>3. runningWorkers \in Int /\ flipsAhead \in Int /\ flipWorkOpen \in Int
      OBVIOUS
    <3> HIDE DEF Init
    <3> QED BY <3>1, <3>2, <3>3 DEF WordTypes
  <2> QED BY <2>1, <2>2, <2>3, <2>4 DEF SubTypes
<1>2. Hands
  BY <1>0 DEF Hands, Taken
<1>3. \A F : Serials(<< >>, F) = {} /\ Ascending(<< >>, F)
  BY DEF Serials, Ascending
<1>4. /\ (\A q \in Queues : Listed[q] = {} /\ Here[q] = {} /\ OpenAt[q] = {}) /\ InPipe = {} /\ Done = {}
  <2>1. \A q \in Queues : Listed[q] = {} /\ Here[q] = {}
    BY <1>0, <1>3 DEF Listed, Here
  <2> QED BY <2>1, <1>3 DEF OpenAt, InPipe, Done
<1>5. SerialsInv
  <2>1. \A q \in Queues : QueueAscends(q)
    BY <1>0, <1>3, <1>4 DEF QueueAscends
  <2>2. Places(OpenAt, InPipe, Done, accepted, ~Halted)
    BY <1>0, <1>4 DEF Places
  <2> QED BY <2>1, <2>2, <1>3 DEF SerialsInv, Ascends
<1>6. WordsInv
  <2>1. OrderWords
    BY <1>0 DEF OrderWords, Taken
  <2>2. Running = {} /\ FlipsAhead = {} /\ FlipWork = {}
    BY <1>0, <1>3 DEF Running, Busy, FlipsAhead, FlipWork, FlipHere
  <2>3. RunningWord /\ FlipsCounted
    BY <2>2, FS_EmptySet DEF RunningWord, FlipsCounted
  <2>4. UncommittedWord
    BY <1>4 DEF UncommittedWord, AscendingList, Elements
  <2> QED BY <2>1, <2>3, <2>4 DEF WordsInv
<1>7. Sleepers /\ NoLostWakeup
  BY DEF Sleepers, NoLostWakeup
<1> QED BY <1>1, <1>2, <1>5, <1>6, <1>7 DEF SubIInv

\* The invariant holds for any queues, titles, labels, programs and bounds.
LEMMA SubInvariant == Spec => []SubIInv
<1>1. Init => SubIInv
  BY SubInitial
<1>2. SubIInv /\ [Next]_vars => SubIInv'
  <2> SUFFICES ASSUME SubIInv, [Next]_vars
               PROVE  SubIInv'
    OBVIOUS
  <2>1. CASE Next
    <3>1. SubTypes' /\ Hands'
      BY <2>1, TypesStep DEF SubIInv, SerialsInv
    <3>2. SerialsInv'
      BY <2>1, <3>1, SerialsStep DEF SubIInv
    <3>3. WordsInv'
      BY <2>1, <3>1, WordsStep DEF SubIInv
    <3>4. Sleepers' /\ NoLostWakeup'
      BY <2>1, <3>1, SleepersStep DEF SubIInv
    <3> QED BY <3>1, <3>2, <3>3, <3>4 DEF SubIInv
  <2>2. CASE UNCHANGED vars
    <3> USE <2>2 DEF vars, worker, order, blocks, serial, commit, flips, title, halt
    <3>1. SubTypes'
      BY DEF SubIInv, SubTypes, WorkerTypes, TitleTypes, PipeTypes, WordTypes
    <3>2. Hands'
      BY DEF SubIInv, Hands, Halted
    <3>3. OpenAt' = OpenAt /\ InPipe' = InPipe /\ Done' = Done /\ Halted' = Halted /\ Listed' = Listed
      BY DEF OpenAt, Here, Listed, InPipe, Done, Halted
    <3>4. SerialsInv'
      BY <3>3 DEF SubIInv, SerialsInv, Ascends, QueueAscends
    <3>5. WordsInv'
      BY <3>3 DEF SubIInv, WordsInv, OrderWords, RunningWord, Running, UncommittedWord, FlipsCounted, FlipsAhead,
                  FlipWork, FlipHere
    <3>6. Sleepers' /\ NoLostWakeup'
      BY <3>3 DEF SubIInv, Sleepers, NoLostWakeup, WaitOver, FlipHolders, IdleWaiters
    <3> QED BY <3>1, <3>2, <3>4, <3>5, <3>6 DEF SubIInv
  <2> QED BY <2>1, <2>2
<1> QED BY <1>1, <1>2, PTL DEF Spec

-----------------------------------------------------------------------------
(* The properties.                                                         *)

\* What a queue has not finished: what its worker has in its hands, then its list.
InHand(q) == pc[q] \notin {"deferred", "leaving"} /\ current[q].serial # 0

\* That is the list the properties speak of.
LEMMA OpenList ==
    ASSUME SubTypes, Hands, NEW q \in Queues
    PROVE  /\ Open(q) \in Seq(Submissions)
           /\ InHand(q) => /\ Len(Open(q)) = Len(pending[q]) + 1 /\ Open(q)[1] = current[q] /\ Open(q) # << >>
                           /\ \A i \in 1..Len(pending[q]) : Open(q)[i + 1] = pending[q][i]
           /\ ~InHand(q) => Open(q) = pending[q]
<1>1. pending[q] \in Seq(Submissions) /\ current[q] \in Submissions
  BY DEF SubTypes, WorkerTypes
<1>2. current[q] = NoSubmission <=> current[q].serial = 0
  BY SubmissionFacts DEF Hands
<1>3. CASE InHand(q)
  <2> DEFINE l == pending[q]
             c == current[q]
  <2>1. Open(q) = <<c>> \o l
    BY <1>2, <1>3 DEF Open, InHand
  <2> HIDE DEF l, c
  <2>2. <<c>> \in Seq(Submissions) /\ Len(<<c>>) = 1 /\ <<c>>[1] = c /\ l \in Seq(Submissions) /\ Len(l) \in Nat
    BY <1>1, LenProperties DEF c, l
  <2>3. /\ <<c>> \o l \in Seq(Submissions) /\ Len(<<c>> \o l) = 1 + Len(l)
        /\ \A i \in 1..(1 + Len(l)) : (<<c>> \o l)[i] = IF i <= 1 THEN <<c>>[i] ELSE l[i - 1]
    BY <2>2, ConcatProperties
  <2>4. (<<c>> \o l)[1] = c
    BY <2>2, <2>3
  <2>5. \A i \in 1..Len(l) : (<<c>> \o l)[i + 1] = l[i]
    <3> TAKE i \in 1..Len(l)
    <3>1. i + 1 \in 1..(1 + Len(l)) /\ ~(i + 1 <= 1) /\ (i + 1) - 1 = i
      BY <2>2
    <3> QED BY <2>3, <3>1
  <2>6. <<c>> \o l # << >>
    BY <2>2, <2>3, EmptySeq
  <2> QED BY <1>3, <2>1, <2>2, <2>3, <2>4, <2>5, <2>6 DEF l, c
<1>4. CASE ~InHand(q)
  <2>1. Open(q) = << >> \o pending[q]
    BY <1>2, <1>4 DEF Open, InHand
  <2> QED BY <1>1, <1>4, <2>1, ConcatEmptySeq
<1> QED BY <1>3, <1>4

\* What it has in it ...
LEMMA InOpen ==
    ASSUME SubTypes, Hands, NEW q \in Queues, NEW x
    PROVE  x \in ToSet(Open(q)) <=> \/ InHand(q) /\ x = current[q]
                                    \/ \E i \in 1..Len(pending[q]) : x = pending[q][i]
<1> DEFINE o == Open(q)
           l == pending[q]
<1>1. /\ o \in Seq(Submissions) /\ l \in Seq(Submissions)
      /\ InHand(q) => /\ Len(o) = Len(l) + 1 /\ o[1] = current[q] /\ \A i \in 1..Len(l) : o[i + 1] = l[i]
      /\ ~InHand(q) => o = l
  BY OpenList DEF SubTypes, WorkerTypes
<1>2. ToSet(Open(q)) = {o[i] : i \in 1..Len(o)}
  BY <1>1 DEF ToSet
<1> HIDE DEF o, l
<1>3. Len(l) \in Nat
  BY <1>1, LenProperties
<1>4. CASE InHand(q)
  <2>1. \A i \in 1..Len(o) : i = 1 \/ (i - 1 \in 1..Len(l) /\ (i - 1) + 1 = i)
    BY <1>1, <1>3, <1>4
  <2>2. \A i \in 1..Len(o) : i = 1 \/ (i - 1 \in 1..Len(l) /\ o[i] = l[i - 1])
    BY <2>1, <1>1, <1>4
  <2>3. 1 \in 1..Len(o) /\ \A i \in 1..Len(l) : i + 1 \in 1..Len(o) /\ o[i + 1] = l[i]
    BY <1>1, <1>3, <1>4
  <2>4. {o[i] : i \in 1..Len(o)} = {current[q]} \cup {l[i] : i \in 1..Len(l)}
    <3>1. \A i \in 1..Len(o) : o[i] = current[q] \/ \E j \in 1..Len(l) : o[i] = l[j]
      BY <1>1, <1>4, <2>2
    <3>2. \E i \in 1..Len(o) : o[i] = current[q]
      BY <1>1, <1>4, <2>3
    <3>3. \A j \in 1..Len(l) : \E i \in 1..Len(o) : o[i] = l[j]
      BY <2>3
    <3> QED BY <3>1, <3>2, <3>3
  <2> QED BY <1>2, <1>4, <2>4 DEF l
<1>5. CASE ~InHand(q)
  BY <1>1, <1>2, <1>5 DEF l
<1> QED BY <1>4, <1>5

\* ... and with which serials.
LEMMA OpenSerialsAt ==
    ASSUME SubTypes, Hands, NEW q \in Queues
    PROVE  {s.serial : s \in ToSet(Open(q))} = OpenAt[q]
<1> DEFINE A == {s.serial : s \in ToSet(Open(q))}
<1>1. \A i \in 1..Len(pending[q]) : pending[q][i] \in Submissions
  BY ElementOfSeq DEF SubTypes, WorkerTypes
<1>2. OpenAt[q] = (IF InHand(q) THEN {current[q].serial} ELSE {})
        \cup {pending[q][i].serial : i \in 1..Len(pending[q])}
  BY <1>1 DEF OpenAt, Here, Listed, Serials, InHand
<1>3. ASSUME NEW n
      PROVE  n \in A <=> n \in OpenAt[q]
  BY <1>2, InOpen
<1> QED BY <1>3

\* What is uncommitted is what the pipeline will complete.
LEMMA UncommittedInPipe == SubTypes => Uncommitted = InPipe
<1> SUFFICES ASSUME SubTypes
             PROVE  Uncommitted = InPipe
  OBVIOUS
<1>1. pipeline \in Seq(Items)
  BY DEF SubTypes, PipeTypes
<1>2. DOMAIN pipeline = 1..Len(pipeline) /\ \A i \in 1..Len(pipeline) : pipeline[i] \in Items
  BY <1>1, ElementOfSeq
<1> QED BY <1>2 DEF Uncommitted, InPipe, Serials, Completions

\* What counts as completed has finished, and everything that was accepted is done or open
\* unless it was dropped, for every number of queues, titles and submissions.
THEOREM CompletedHasFinished == Spec => []CompletedIsDone
<1>1. SubIInv => CompletedIsDone
  <2> SUFFICES ASSUME SubIInv
               PROVE  CompletedIsDone
    OBVIOUS
  <2>1. /\ Done \subseteq 1..accepted /\ InPipe \subseteq 1..accepted /\ InPipe \cap Done = {}
        /\ \A q \in Queues : OpenAt[q] \subseteq 1..accepted /\ OpenAt[q] \cap (InPipe \cup Done) = {}
        /\ ~Halted => \A n \in 1..accepted : n \in Done \/ n \in InPipe \/ \E q \in Queues : n \in OpenAt[q]
    BY DEF SubIInv, SerialsInv, Places
  <2>2. \A n : n \in OpenSerials <=> n \in InPipe \/ \E q \in Queues : n \in OpenAt[q]
    <3>1. \A q \in Queues : {s.serial : s \in ToSet(Open(q))} = OpenAt[q]
      BY OpenSerialsAt DEF SubIInv
    <3>2. Uncommitted = InPipe
      BY UncommittedInPipe DEF SubIInv
    <3> QED BY <3>1, <3>2 DEF OpenSerials
  <2>3. Done \cap OpenSerials = {}
    BY <2>1, <2>2
  <2>4. ~Halted => Done \cup OpenSerials = 1..accepted
    BY <2>1, <2>2
  <2> QED BY <2>3, <2>4 DEF CompletedIsDone
<1> QED BY <1>1, SubInvariant, PTL

\* Nobody sleeps on `changed` through what it waits for: everything that makes a sleeper's
\* condition true also notifies, though it notifies only when it believes somebody waits.
THEOREM WakeupsAreNotLost == Spec => []NoLostWakeup
<1>1. SubIInv => NoLostWakeup
  BY DEF SubIInv
<1> QED BY <1>1, SubInvariant, PTL

\* Only a release starts what is held.
LEMMA OnlyStart ==
    ASSUME pc \in [Queues -> Stages], Next, NEW r \in Queues, pc[r] = "hold", pc'[r] = "run"
    PROVE  Released(r)
<1> USE QueuesAssumption
<1>Sleep. ASSUME NEW q \in Queues, Sleep(q)
  PROVE  Released(r)
  BY <1>Sleep DEF Sleep, worker
<1>Dequeue. ASSUME NEW q \in Queues, Dequeue(q)
  PROVE  Released(r)
  BY <1>Dequeue DEF Dequeue, Step
<1>Start. ASSUME NEW q \in Queues, Start(q)
  PROVE  Released(r)
  BY <1>Start DEF Start, Step
<1>Retire. ASSUME NEW q \in Queues, Retire(q)
  PROVE  Released(r)
  BY <1>Retire DEF Retire, Step
<1>PassWait. ASSUME NEW q \in Queues, PassWait(q)
  PROVE  Released(r)
  BY <1>PassWait DEF PassWait, Step
<1>Block. ASSUME NEW q \in Queues, Block(q)
  PROVE  Released(r)
  BY <1>Block DEF Block, Step
<1>Unblock. ASSUME NEW q \in Queues, Unblock(q)
  PROVE  Released(r)
  BY <1>Unblock DEF Unblock, Step
<1>ReleaseFlip. ASSUME NEW q \in Queues, ReleaseFlip(q)
  PROVE  Released(r)
  BY <1>ReleaseFlip DEF ReleaseFlip, Step
<1>Store. ASSUME NEW q \in Queues, Store(q)
  PROVE  Released(r)
  BY <1>Store DEF Store, Step
<1>EndExecute. ASSUME NEW q \in Queues, EndExecute(q)
  PROVE  Released(r)
  BY <1>EndExecute DEF EndExecute, Step
<1>Complete. ASSUME NEW q \in Queues, Complete(q)
  PROVE  Released(r)
  BY <1>Complete DEF Complete, Step
<1>Leave. ASSUME NEW q \in Queues, Leave(q)
  PROVE  Released(r)
  BY <1>Leave DEF Leave, Step
<1>Unwind. ASSUME NEW q \in Queues, Unwind(q)
  PROVE  Released(r)
  BY <1>Unwind DEF Unwind, Step
<1>Catch. ASSUME NEW q \in Queues, Catch(q)
  PROVE  Released(r)
  BY <1>Catch DEF Catch, Step
<1>DeferCompletion. ASSUME DeferCompletion
  PROVE  Released(r)
  BY <1>DeferCompletion DEF DeferCompletion, Step
<1>AwaitsTitle. ASSUME AwaitsTitle
  PROVE  Released(r)
  BY <1>AwaitsTitle DEF AwaitsTitle, Step
<1>NoteAwaitingTitle. ASSUME NoteAwaitingTitle
  PROVE  Released(r)
  BY <1>NoteAwaitingTitle DEF NoteAwaitingTitle, Step
<1>CommitLabel. ASSUME CommitLabel
  PROVE  Released(r)
  BY <1>CommitLabel DEF CommitLabel, worker
<1>FinishFlipWork. ASSUME FinishFlipWork
  PROVE  Released(r)
  BY <1>FinishFlipWork DEF FinishFlipWork, worker
<1>CompleteSubmission. ASSUME CompleteSubmission
  PROVE  Released(r)
  BY <1>CompleteSubmission DEF CompleteSubmission, worker
<1>CommitFails. ASSUME CommitFails
  PROVE  Released(r)
  BY <1>CommitFails DEF CommitFails
<1>DropItem. ASSUME DropItem
  PROVE  Released(r)
  BY <1>DropItem DEF DropItem, worker
<1>Stop. ASSUME Stop
  PROVE  Released(r)
  BY <1>Stop DEF Stop
<1>Submit. ASSUME NEW t \in Titles, NEW p \in Programs, Submit(t, p)
  PROVE  Released(r)
  BY <1>Submit DEF Submit, worker, TitleStep
<1>TitleSleeps. ASSUME NEW t \in Titles, TitleSleeps(t)
  PROVE  Released(r)
  BY <1>TitleSleeps DEF TitleSleeps, worker
<1>PassFlipHold. ASSUME NEW t \in Titles, PassFlipHold(t)
  PROVE  Released(r)
  BY <1>PassFlipHold DEF PassFlipHold, worker, TitleStep
<1>Enqueue. ASSUME NEW t \in Titles, Enqueue(t)
  PROVE  Released(r)
  BY <1>Enqueue DEF Enqueue, TitleStep
<1>WaitIdle. ASSUME NEW t \in Titles, WaitIdle(t)
  PROVE  Released(r)
  BY <1>WaitIdle DEF WaitIdle, worker, TitleStep
<1>Idled. ASSUME NEW t \in Titles, Idled(t)
  PROVE  Released(r)
  BY <1>Idled DEF Idled, worker, TitleStep
<1>TitleStores. ASSUME NEW t \in Titles, NEW l \in Labels, TitleStores(t, l)
  PROVE  Released(r)
  BY <1>TitleStores DEF TitleStores, worker
<1> QED BY <1>Sleep, <1>Dequeue, <1>Start, <1>Retire, <1>PassWait, <1>Block, <1>Unblock, <1>ReleaseFlip,
           <1>Store, <1>EndExecute, <1>Complete, <1>Leave, <1>Unwind, <1>Catch, <1>DeferCompletion,
           <1>AwaitsTitle, <1>NoteAwaitingTitle, <1>CommitLabel, <1>FinishFlipWork, <1>CompleteSubmission,
           <1>CommitFails, <1>DropItem, <1>Stop, <1>Submit, <1>TitleSleeps, <1>PassFlipHold, <1>Enqueue,
           <1>WaitIdle, <1>Idled, <1>TitleStores
          DEF Next, WorkerStep, CommitterStep, TitleAction

\* The first of what a queue has not finished is in its worker's hands, or first in its list.
LEMMA HeadOfOpen ==
    ASSUME SubTypes, Hands, NEW q \in Queues, Open(q) # << >>
    PROVE  /\ Head(Open(q)).serial \in OpenAt[q]
           /\ \/ InHand(q) /\ pc[q] \in Taken /\ Head(Open(q)) = current[q]
              \/ ~InHand(q) /\ pending[q] # << >> /\ Head(Open(q)) = Head(pending[q])
<1>1. /\ Open(q) \in Seq(Submissions)
      /\ InHand(q) => Open(q)[1] = current[q]
      /\ ~InHand(q) => Open(q) = pending[q]
  BY OpenList
<1>2. Head(Open(q)) = Open(q)[1] /\ Head(Open(q)) \in ToSet(Open(q))
  <2>1. Head(Open(q)) = Open(q)[1] /\ Len(Open(q)) \in Nat /\ Len(Open(q)) >= 1
    BY <1>1, FirstAndRest
  <2>2. 1 \in DOMAIN Open(q)
    BY <1>1, <2>1
  <2> QED BY <2>1, <2>2 DEF ToSet
<1>3. Head(Open(q)).serial \in {s.serial : s \in ToSet(Open(q))}
  BY <1>2
<1>4. Head(Open(q)).serial \in OpenAt[q]
  BY <1>3, OpenSerialsAt
<1>5. InHand(q) => pc[q] \in Taken
  BY SubmissionFacts DEF InHand, Hands, Taken, SubTypes, WorkerTypes, Stages
<1> QED BY <1>1, <1>2, <1>4, <1>5

\* What is open in two queues, or open and in the pipeline, has different serials.
LEMMA Distinct ==
    ASSUME SubTypes, Hands, SerialsInv, NEW q \in Queues, InHand(q)
    PROVE  /\ current[q].serial \in OpenAt[q] /\ current[q].serial \in Nat
           /\ \A r \in Queues : r # q => current[q].serial \notin OpenAt[r]
           /\ current[q].serial \notin InPipe
           /\ \A r \in Queues : \A n \in OpenAt[r] : n \in Nat
           /\ \A n \in InPipe : n \in Nat
<1>1. current[q].serial \in OpenAt[q]
  BY DEF InHand, OpenAt, Here
<1>2. /\ \A r \in Queues : OpenAt[r] \subseteq 1..accepted
      /\ InPipe \subseteq 1..accepted
      /\ \A r \in Queues : r # q => OpenAt[q] \cap OpenAt[r] = {}
      /\ OpenAt[q] \cap InPipe = {}
  BY DEF SerialsInv, Places
<1>3. \A n \in 1..accepted : n \in Nat
  OBVIOUS
<1> QED BY <1>1, <1>2, <1>3

\* The graphics queue is released only when no submission without a wait is before it.
LEMMA GraphicsStartsInOrder ==
    ASSUME SubIInv, ~Halted, pc[Graphics] = "hold", ~WaitFreeBefore(current[Graphics].serial),
           NEW r \in Queues, r # Graphics, Open(r) # << >>
    PROVE  ~WaitFree(Head(Open(r))) \/ Head(Open(r)).serial > current[Graphics].serial
<1> DEFINE n == current[Graphics].serial
           x == Head(Open(r))
<1>0. Graphics \in Queues /\ SubTypes /\ Hands /\ SerialsInv /\ OrderWords
  BY QueuesAssumption DEF SubIInv, WordsInv
<1>1. InHand(Graphics)
  BY <1>0 DEF InHand, Hands, Taken, Stages
<1>2. n \in Nat /\ n \notin OpenAt[r] /\ \A m \in OpenAt[r] : m \in Nat
  BY <1>0, <1>1, Distinct
<1>3. x.serial \in Nat /\ x.serial # n
  BY <1>0, <1>2, HeadOfOpen
<1> SUFFICES ASSUME WaitFree(x)
             PROVE  ~(x.serial < n)
  BY <1>2, <1>3
<1>4. CASE InHand(r) /\ pc[r] \in Taken /\ x = current[r]
  <2>1. executingWaitFree[r] = x.serial /\ executingWaits[r] = FALSE
    BY <1>0, <1>4 DEF OrderWords
  <2>2. x.serial # 0
    BY <1>4 DEF InHand
  <2> HIDE DEF x, n
  <2>3. WaitFreeBefore(n) \/ ~(x.serial < n)
    BY <2>1, <2>2 DEF WaitFreeBefore
  <2> QED BY <2>3 DEF n
<1>5. CASE ~InHand(r) /\ pending[r] # << >> /\ x = Head(pending[r])
  <2>1. executingWaits[r] = FALSE
    <3>1. pc[r] \notin Taken \/ pc[r] = "deferred" \/ (pc[r] = "thrown" /\ current[r].serial = 0)
      BY <1>0, <1>5 DEF InHand, Hands, Taken, Stages
    <3>2. pc[r] \notin Taken
      BY <1>0, <3>1 DEF Hands, Halted
    <3> QED BY <1>0, <3>2 DEF OrderWords
  <2>2. WaitFree(Head(pending[r])) /\ Head(pending[r]).serial = x.serial
    BY <1>5
  <2> HIDE DEF x, n
  <2>3. WaitFreeBefore(n) \/ ~(x.serial < n)
    BY <2>1, <2>2, <1>5 DEF WaitFreeBefore
  <2> QED BY <2>3 DEF n
<1> QED BY <1>0, <1>4, <1>5, HeadOfOpen

\* Another queue is released only when the graphics queue waits, or has finished what is before.
LEMMA OthersStartInOrder ==
    ASSUME SubIInv, ~Halted, NEW q \in Queues, q # Graphics, pc[q] = "hold", OrderReleased(q, current[q].serial)
    PROVE  \/ pc[Graphics] \in {"blocked", "noting"}
           \/ \A n \in Uncommitted \cup {s.serial : s \in {x \in ToSet(Open(Graphics)) : ~x.suspend}} :
                 n > current[q].serial
<1> DEFINE c == current[q].serial
<1>0. Graphics \in Queues /\ SubTypes /\ Hands /\ SerialsInv /\ OrderWords /\ UncommittedWord
  BY QueuesAssumption DEF SubIInv, WordsInv
<1>1. InHand(q)
  BY <1>0 DEF InHand, Hands, Taken, Stages
<1>2. c \in Nat /\ c \notin OpenAt[Graphics] /\ c \notin InPipe
      /\ (\A m \in OpenAt[Graphics] : m \in Nat) /\ \A m \in InPipe : m \in Nat
  BY <1>0, <1>1, Distinct
<1>3. CASE queue0Awaited # NoLabel
  BY <1>0, <1>3 DEF OrderWords
<1>4. CASE queue0Awaited = NoLabel
  <2>1. ~Queue0Before(c)
    BY <1>4 DEF OrderReleased
  <2>2. ASSUME NEW n \in Uncommitted
        PROVE  n > c
    <3> DEFINE l == queue0Uncommitted
    <3>1. n \in InPipe /\ l \in Seq(Nat) /\ AscendingList(l) /\ Elements(l) = InPipe
      BY <2>2, <1>0, UncommittedInPipe DEF UncommittedWord
    <3>2. l = << >> \/ ~(Head(l) < c)
      BY <2>1 DEF Queue0Before
    <3> HIDE DEF l, c
    <3>3. PICK i \in 1..Len(l) : l[i] = n
      BY <3>1 DEF Elements
    <3>4. l # << >>
      BY <3>1, <3>3
    <3>5. Len(l) \in Nat /\ Head(l) = l[1] /\ Head(l) \in Nat
      BY <3>1, <3>4, FirstAndRest
    <3>6. Head(l) <= n
      <4>1. CASE i = 1
        BY <4>1, <3>1, <3>3, <3>5, <1>2
      <4>2. CASE i # 1
        <5>1. 1 \in 1..Len(l) /\ 1 < i
          BY <4>2, <3>5
        <5> QED BY <5>1, <3>1, <3>3, <3>5, <1>2 DEF AscendingList
      <4> QED BY <4>1, <4>2
    <3> QED BY <3>1, <3>2, <3>4, <3>5, <3>6, <1>2
  <2>3. ASSUME NEW x \in ToSet(Open(Graphics)), ~x.suspend
        PROVE  x.serial > c
    <3>0. x.serial \in OpenAt[Graphics]
      <4>1. x.serial \in {s.serial : s \in ToSet(Open(Graphics))}
        BY <2>3
      <4> QED BY <4>1, <1>0, OpenSerialsAt
    <3>1. x.serial \in Nat /\ x.serial # c
      BY <3>0, <1>2
    <3>2. CASE InHand(Graphics) /\ x = current[Graphics]
      <4>1. pc[Graphics] \in Taken
        BY <1>0, <3>2, SubmissionFacts DEF InHand, Hands, Taken, SubTypes, WorkerTypes, Stages
      <4>2. queue0Executing = x.serial /\ x.serial # 0
        BY <1>0, <3>2, <4>1, <2>3 DEF OrderWords, InHand
      <4>3. ~(queue0Executing < c)
        BY <2>1, <4>2 DEF Queue0Before
      <4> HIDE DEF c
      <4> QED BY <3>1, <4>2, <4>3, <1>2
    <3>3. CASE \E i \in 1..Len(pending[Graphics]) : x = pending[Graphics][i]
      <4> DEFINE l == pending[Graphics]
                 I == {i \in 1..Len(l) : ~l[i].suspend}
      <4>1. l \in Seq(Submissions) /\ Ascending(l, Submissions) /\ \A i \in 1..Len(l) : l[i] \in Submissions
        BY <1>0, ElementOfSeq DEF SubTypes, WorkerTypes, SerialsInv, Ascends, QueueAscends
      <4>2. PICK i \in 1..Len(l) : x = l[i]
        BY <3>3
      <4>3. ~PendingBefore(c)
        BY <2>1 DEF Queue0Before
      <4>4. Len(l) \in Nat /\ DOMAIN l = 1..Len(l)
        BY <4>1
      <4>a. i \in I
        BY <4>2, <2>3
      <4>b. I \in SUBSET Nat
        OBVIOUS
      <4>5. PICK j \in I : \A k \in I : j <= k
        <5> HIDE DEF I
        <5> QED BY <4>a, <4>b, LeastNumber
      <4>6. j \in 1..Len(l) /\ ~l[j].suspend /\ \A k \in 1..(j - 1) : l[k].suspend
        <5>1. \A k \in 1..(j - 1) : k \in 1..Len(l) /\ ~(j <= k)
          BY <4>4
        <5> QED BY <5>1, <4>5
      <4>7. ~(l[j].serial < c)
        <5> HIDE DEF c
        <5> QED BY <4>3, <4>4, <4>6 DEF PendingBefore
      <4>8. l[j].serial \in Nat /\ l[i].serial \in Nat /\ l[j].serial <= l[i].serial
        <5>1. j = i \/ j < i
          BY <4>5, <4>a
        <5>2. l[j] \in Submissions /\ l[i] \in Submissions
          BY <4>1, <4>2, <4>6
        <5>3. l[j].serial \in Nat /\ l[i].serial \in Nat
          BY <5>2, SubmissionFacts
        <5> QED BY <5>1, <5>2, <5>3, <4>1, <4>2, <4>6 DEF Ascending
      <4> HIDE DEF c, l
      <4> QED BY <3>1, <4>2, <4>7, <4>8, <1>2
    <3> QED BY <1>0, <3>2, <3>3, InOpen
  <2> QED BY <2>2, <2>3
<1> QED BY <1>3, <1>4

\* A submission without a wait starts only when the graphics queue has finished what was
\* submitted before it, or waits itself; the graphics queue starts one only when no other queue
\* is at a submission without a wait that was submitted before it.
THEOREM SubmissionsRunInOrder == Spec => RunsInOrder
<1> DEFINE StartsInOrder(q) ==
      pc[q] = "hold" /\ pc'[q] = "run" /\ ~Halted =>
         IF q = Graphics
         THEN \A r \in Queues \ {q} :
                 Open(r) # <<>> => ~WaitFree(Head(Open(r))) \/ Head(Open(r)).serial > current[q].serial
         ELSE \/ pc[Graphics] \in {"blocked", "noting"}
              \/ \A n \in Uncommitted \cup {s.serial : s \in {x \in ToSet(Open(Graphics)) : ~x.suspend}} :
                    n > current[q].serial
<1>1. SubIInv /\ [Next]_vars => [\A q \in Queues : StartsInOrder(q)]_vars
  <2> SUFFICES ASSUME SubIInv, Next, NEW q \in Queues, pc[q] = "hold", pc'[q] = "run", ~Halted
               PROVE  StartsInOrder(q)
    OBVIOUS
  <2>1. Released(q)
    <3>1. pc \in [Queues -> Stages]
      BY DEF SubIInv, SubTypes, WorkerTypes
    <3> QED BY <3>1, OnlyStart
  <2>2. CASE q = Graphics
    <3>1. ~WaitFreeBefore(current[Graphics].serial)
      BY <2>1, <2>2 DEF Released
    <3> QED BY <2>2, <3>1, GraphicsStartsInOrder
  <2>3. CASE q # Graphics
    <3>1. OrderReleased(q, current[q].serial)
      BY <2>1, <2>3 DEF Released
    <3> QED BY <2>3, <3>1, OthersStartInOrder
  <2> QED BY <2>2, <2>3
<1>2. SubIInv /\ [Next]_vars => [\A q \in Queues :
         pc[q] = "hold" /\ pc'[q] = "run" /\ ~Halted =>
            IF q = Graphics
            THEN \A r \in Queues \ {q} :
                    Open(r) # <<>> => ~WaitFree(Head(Open(r))) \/ Head(Open(r)).serial > current[q].serial
            ELSE \/ pc[Graphics] \in {"blocked", "noting"}
                 \/ \A n \in Uncommitted \cup {s.serial : s \in {x \in ToSet(Open(Graphics)) : ~x.suspend}} :
                       n > current[q].serial]_vars
  BY <1>1
<1> QED BY <1>2, SubInvariant, PTL DEF Spec, RunsInOrder

\* Only the end of a hold lets a title go on with its flip.
LEMMA OnlyPass ==
    ASSUME titlePc \in [Titles -> TitleStages], Next, NEW u \in Titles,
           titlePc[u] \in {"holdFlip", "holdWork"}, titlePc'[u] = "enqueue"
    PROVE  WaitOver(u) /\ ~(titlePc[u] = "holdFlip" /\ ~Halted /\ flipsAhead = 0)
<1>Sleep. ASSUME NEW q \in Queues, Sleep(q)
  PROVE  WaitOver(u) /\ ~(titlePc[u] = "holdFlip" /\ ~Halted /\ flipsAhead = 0)
  BY <1>Sleep DEF Sleep, title
<1>Dequeue. ASSUME NEW q \in Queues, Dequeue(q)
  PROVE  WaitOver(u) /\ ~(titlePc[u] = "holdFlip" /\ ~Halted /\ flipsAhead = 0)
  BY <1>Dequeue DEF Dequeue, title, Step
<1>Start. ASSUME NEW q \in Queues, Start(q)
  PROVE  WaitOver(u) /\ ~(titlePc[u] = "holdFlip" /\ ~Halted /\ flipsAhead = 0)
  BY <1>Start DEF Start, title, Step
<1>Retire. ASSUME NEW q \in Queues, Retire(q)
  PROVE  WaitOver(u) /\ ~(titlePc[u] = "holdFlip" /\ ~Halted /\ flipsAhead = 0)
  BY <1>Retire DEF Retire, title, Step
<1>PassWait. ASSUME NEW q \in Queues, PassWait(q)
  PROVE  WaitOver(u) /\ ~(titlePc[u] = "holdFlip" /\ ~Halted /\ flipsAhead = 0)
  BY <1>PassWait DEF PassWait, title, Step
<1>Block. ASSUME NEW q \in Queues, Block(q)
  PROVE  WaitOver(u) /\ ~(titlePc[u] = "holdFlip" /\ ~Halted /\ flipsAhead = 0)
  BY <1>Block DEF Block, title, Step
<1>Unblock. ASSUME NEW q \in Queues, Unblock(q)
  PROVE  WaitOver(u) /\ ~(titlePc[u] = "holdFlip" /\ ~Halted /\ flipsAhead = 0)
  BY <1>Unblock DEF Unblock, title, Step
<1>ReleaseFlip. ASSUME NEW q \in Queues, ReleaseFlip(q)
  PROVE  WaitOver(u) /\ ~(titlePc[u] = "holdFlip" /\ ~Halted /\ flipsAhead = 0)
  BY <1>ReleaseFlip DEF ReleaseFlip, title, Step
<1>Store. ASSUME NEW q \in Queues, Store(q)
  PROVE  WaitOver(u) /\ ~(titlePc[u] = "holdFlip" /\ ~Halted /\ flipsAhead = 0)
  BY <1>Store DEF Store, title, Step
<1>EndExecute. ASSUME NEW q \in Queues, EndExecute(q)
  PROVE  WaitOver(u) /\ ~(titlePc[u] = "holdFlip" /\ ~Halted /\ flipsAhead = 0)
  BY <1>EndExecute DEF EndExecute, title, Step
<1>Complete. ASSUME NEW q \in Queues, Complete(q)
  PROVE  WaitOver(u) /\ ~(titlePc[u] = "holdFlip" /\ ~Halted /\ flipsAhead = 0)
  BY <1>Complete DEF Complete, title, Step
<1>Leave. ASSUME NEW q \in Queues, Leave(q)
  PROVE  WaitOver(u) /\ ~(titlePc[u] = "holdFlip" /\ ~Halted /\ flipsAhead = 0)
  BY <1>Leave DEF Leave, title, Step
<1>Unwind. ASSUME NEW q \in Queues, Unwind(q)
  PROVE  WaitOver(u) /\ ~(titlePc[u] = "holdFlip" /\ ~Halted /\ flipsAhead = 0)
  BY <1>Unwind DEF Unwind, title, Step
<1>Catch. ASSUME NEW q \in Queues, Catch(q)
  PROVE  WaitOver(u) /\ ~(titlePc[u] = "holdFlip" /\ ~Halted /\ flipsAhead = 0)
  BY <1>Catch DEF Catch, title, Step
<1>DeferCompletion. ASSUME DeferCompletion
  PROVE  WaitOver(u) /\ ~(titlePc[u] = "holdFlip" /\ ~Halted /\ flipsAhead = 0)
  BY <1>DeferCompletion DEF DeferCompletion, title, Step
<1>AwaitsTitle. ASSUME AwaitsTitle
  PROVE  WaitOver(u) /\ ~(titlePc[u] = "holdFlip" /\ ~Halted /\ flipsAhead = 0)
  BY <1>AwaitsTitle DEF AwaitsTitle, title, Step
<1>NoteAwaitingTitle. ASSUME NoteAwaitingTitle
  PROVE  WaitOver(u) /\ ~(titlePc[u] = "holdFlip" /\ ~Halted /\ flipsAhead = 0)
  BY <1>NoteAwaitingTitle DEF NoteAwaitingTitle, title, Step
<1>CommitLabel. ASSUME CommitLabel
  PROVE  WaitOver(u) /\ ~(titlePc[u] = "holdFlip" /\ ~Halted /\ flipsAhead = 0)
  BY <1>CommitLabel DEF CommitLabel, title
<1>FinishFlipWork. ASSUME FinishFlipWork
  PROVE  WaitOver(u) /\ ~(titlePc[u] = "holdFlip" /\ ~Halted /\ flipsAhead = 0)
  BY <1>FinishFlipWork DEF FinishFlipWork, title
<1>CompleteSubmission. ASSUME CompleteSubmission
  PROVE  WaitOver(u) /\ ~(titlePc[u] = "holdFlip" /\ ~Halted /\ flipsAhead = 0)
  BY <1>CompleteSubmission DEF CompleteSubmission, title
<1>CommitFails. ASSUME CommitFails
  PROVE  WaitOver(u) /\ ~(titlePc[u] = "holdFlip" /\ ~Halted /\ flipsAhead = 0)
  BY <1>CommitFails DEF CommitFails, title
<1>DropItem. ASSUME DropItem
  PROVE  WaitOver(u) /\ ~(titlePc[u] = "holdFlip" /\ ~Halted /\ flipsAhead = 0)
  BY <1>DropItem DEF DropItem, title
<1>Stop. ASSUME Stop
  PROVE  WaitOver(u) /\ ~(titlePc[u] = "holdFlip" /\ ~Halted /\ flipsAhead = 0)
  BY <1>Stop DEF Stop, title
<1>Submit. ASSUME NEW t \in Titles, NEW p \in Programs, Submit(t, p)
  PROVE  WaitOver(u) /\ ~(titlePc[u] = "holdFlip" /\ ~Halted /\ flipsAhead = 0)
  BY <1>Submit DEF Submit, TitleStep
<1>TitleSleeps. ASSUME NEW t \in Titles, TitleSleeps(t)
  PROVE  WaitOver(u) /\ ~(titlePc[u] = "holdFlip" /\ ~Halted /\ flipsAhead = 0)
  BY <1>TitleSleeps DEF TitleSleeps, title
<1>PassFlipHold. ASSUME NEW t \in Titles, PassFlipHold(t)
  PROVE  WaitOver(u) /\ ~(titlePc[u] = "holdFlip" /\ ~Halted /\ flipsAhead = 0)
  BY <1>PassFlipHold DEF PassFlipHold, TitleStep
<1>Enqueue. ASSUME NEW t \in Titles, Enqueue(t)
  PROVE  WaitOver(u) /\ ~(titlePc[u] = "holdFlip" /\ ~Halted /\ flipsAhead = 0)
  BY <1>Enqueue DEF Enqueue, TitleStep
<1>WaitIdle. ASSUME NEW t \in Titles, WaitIdle(t)
  PROVE  WaitOver(u) /\ ~(titlePc[u] = "holdFlip" /\ ~Halted /\ flipsAhead = 0)
  BY <1>WaitIdle DEF WaitIdle, TitleStep
<1>Idled. ASSUME NEW t \in Titles, Idled(t)
  PROVE  WaitOver(u) /\ ~(titlePc[u] = "holdFlip" /\ ~Halted /\ flipsAhead = 0)
  BY <1>Idled DEF Idled, TitleStep
<1>TitleStores. ASSUME NEW t \in Titles, NEW l \in Labels, TitleStores(t, l)
  PROVE  WaitOver(u) /\ ~(titlePc[u] = "holdFlip" /\ ~Halted /\ flipsAhead = 0)
  BY <1>TitleStores DEF TitleStores, title
<1> QED BY <1>Sleep, <1>Dequeue, <1>Start, <1>Retire, <1>PassWait, <1>Block, <1>Unblock, <1>ReleaseFlip,
           <1>Store, <1>EndExecute, <1>Complete, <1>Leave, <1>Unwind, <1>Catch, <1>DeferCompletion,
           <1>AwaitsTitle, <1>NoteAwaitingTitle, <1>CommitLabel, <1>FinishFlipWork, <1>CompleteSubmission,
           <1>CommitFails, <1>DropItem, <1>Stop, <1>Submit, <1>TitleSleeps, <1>PassFlipHold, <1>Enqueue,
           <1>WaitIdle, <1>Idled, <1>TitleStores
          DEF Next, WorkerStep, CommitterStep, TitleAction

\* While the counter of the flips' work is zero, no flip is left in the queue or the pipeline.
LEMMA NoFlipWork ==
    ASSUME SubIInv, ~Halted, flipWorkOpen = 0
    PROVE  /\ \A i \in DOMAIN pipeline : ~pipeline[i].flip
           /\ \A i \in DOMAIN Open(Graphics) :
                 Open(Graphics)[i].flip => i = 1 /\ pc[Graphics] \in {"executed", "thrown"}
<1>0. Graphics \in Queues /\ SubTypes /\ Hands /\ SerialsInv /\ FlipsCounted
  BY QueuesAssumption DEF SubIInv, WordsInv
<1>1. FlipWork = {}
  <2>1. IsFiniteSet(FlipWork) /\ Cardinality(FlipWork) = 0
    BY <1>0, FlipPlaces DEF FlipsCounted
  <2> QED BY <2>1, FS_EmptySet
<1>2. /\ \A i \in 1..Len(pipeline) : pipeline[i] \notin FlipItems
      /\ \A i \in 1..Len(pending[Graphics]) : pending[Graphics][i] \notin Flips
      /\ FlipHere({"hold", "run", "blocked", "noting", "past", "flipped", "stored"}) = {}
  <2>1. Serials(pipeline, FlipItems) = {} /\ Serials(pending[Graphics], Flips) = {}
        /\ FlipHere({"hold", "run", "blocked", "noting", "past", "flipped", "stored"}) = {}
    BY <1>1 DEF FlipWork
  <2> QED BY <2>1 DEF Serials
<1>3. \A i \in DOMAIN pipeline : ~pipeline[i].flip
  <2>1. DOMAIN pipeline = 1..Len(pipeline) /\ \A i \in 1..Len(pipeline) : pipeline[i] \in Items
    BY <1>0, ElementOfSeq DEF SubTypes, PipeTypes
  <2> QED BY <2>1, <1>2 DEF FlipItems
<1>4. \A i \in 1..Len(pending[Graphics]) : ~pending[Graphics][i].flip
  <2>1. \A i \in 1..Len(pending[Graphics]) : pending[Graphics][i] \in Submissions
    BY <1>0, ElementOfSeq DEF SubTypes, WorkerTypes
  <2> QED BY <2>1, <1>2 DEF Flips
<1> DEFINE o == Open(Graphics)
           l == pending[Graphics]
<1>5. /\ o \in Seq(Submissions) /\ DOMAIN o = 1..Len(o) /\ Len(l) \in Nat
      /\ InHand(Graphics) => /\ Len(o) = Len(l) + 1 /\ o[1] = current[Graphics]
                             /\ \A i \in 1..Len(l) : o[i + 1] = l[i]
      /\ ~InHand(Graphics) => o = l
  <2>1. o \in Seq(Submissions) /\ l \in Seq(Submissions)
    BY <1>0, OpenList DEF SubTypes, WorkerTypes
  <2> HIDE DEF o, l
  <2>2. DOMAIN o = 1..Len(o) /\ Len(l) \in Nat
    BY <2>1
  <2> QED BY <2>1, <2>2, <1>0, OpenList DEF o, l
<1>6. \A i \in DOMAIN o : o[i].flip => i = 1 /\ pc[Graphics] \in {"executed", "thrown"}
  <2> SUFFICES ASSUME NEW i \in DOMAIN o, o[i].flip
               PROVE  i = 1 /\ pc[Graphics] \in {"executed", "thrown"}
    OBVIOUS
  <2>1. CASE ~InHand(Graphics)
    BY <2>1, <1>4, <1>5
  <2>2. CASE InHand(Graphics)
    <3> HIDE DEF o, l
    <3>1. i = 1 \/ (i - 1 \in 1..Len(l) /\ (i - 1) + 1 = i)
      BY <2>2, <1>5
    <3>2. i = 1 \/ (i - 1 \in 1..Len(l) /\ o[i] = l[i - 1])
      BY <3>1, <2>2, <1>5
    <3>3. i = 1 /\ current[Graphics].flip
      BY <3>2, <2>2, <1>4, <1>5 DEF l
    <3>4. pc[Graphics] \in Taken /\ pc[Graphics] # "deferred"
      BY <1>0, <2>2, SubmissionFacts DEF InHand, Hands, Taken, SubTypes, WorkerTypes, Stages
    <3>5. pc[Graphics] \notin {"hold", "run", "blocked", "noting", "past", "flipped", "stored"}
      BY <1>2, <3>3 DEF FlipHere
    <3> QED BY <3>3, <3>4, <3>5 DEF Taken, Stages
  <2> QED BY <2>1, <2>2
<1> QED BY <1>3, <1>6

\* A title goes on with a flip only when the work of every flip before it is done, unless the
\* graphics queue waits for the title or the driver is ending.
THEOREM FlipsComeInOrder == Spec => FlipsInOrder
<1>1. SubIInv /\ [Next]_vars => [\A t \in Titles :
         titlePc[t] \in {"holdFlip", "holdWork"} /\ titlePc'[t] = "enqueue" /\ ~Halted /\ ~queue0AwaitsTitle =>
            /\ \A i \in DOMAIN pipeline : ~pipeline[i].flip
            /\ \A i \in DOMAIN Open(Graphics) :
                  Open(Graphics)[i].flip => i = 1 /\ pc[Graphics] \in {"executed", "thrown"}]_vars
  <2> SUFFICES ASSUME SubIInv, Next, NEW t \in Titles, titlePc[t] \in {"holdFlip", "holdWork"},
                      titlePc'[t] = "enqueue", ~Halted, ~queue0AwaitsTitle
               PROVE  /\ \A i \in DOMAIN pipeline : ~pipeline[i].flip
                      /\ \A i \in DOMAIN Open(Graphics) :
                            Open(Graphics)[i].flip => i = 1 /\ pc[Graphics] \in {"executed", "thrown"}
    OBVIOUS
  <2>1. titlePc \in [Titles -> TitleStages]
    BY DEF SubIInv, SubTypes, TitleTypes
  <2>2. WaitOver(t) /\ ~(titlePc[t] = "holdFlip" /\ ~Halted /\ flipsAhead = 0)
    BY <2>1, OnlyPass
  <2>3. flipWorkOpen = 0
    BY <2>2 DEF WaitOver
  <2> QED BY <2>3, NoFlipWork
<1> QED BY <1>1, SubInvariant, PTL DEF Spec, FlipsInOrder

\* The order holds and the flip hold never wait for each other: when no worker and not the
\* committer can go on, nothing is held by the order, and who is left waits for a label.
THEOREM OrderNeverDeadlocks == Spec => []NoOrderDeadlock
<1>1. SubIInv => NoOrderDeadlock
  <2> SUFFICES ASSUME SubIInv, \A q \in Queues : Stuck(q), pipeline = << >>, ~Halted
               PROVE  /\ OrderHolders = {}
                      /\ \A t \in FlipHolders : WaitOver(t)
                      /\ \A q \in Queues : Open(q) # << >> => pc[q] = "blocked"
    BY DEF NoOrderDeadlock
  <2>0. Graphics \in Queues /\ SubTypes /\ Hands /\ SerialsInv /\ OrderWords /\ RunningWord /\ UncommittedWord
          /\ FlipsCounted
    BY QueuesAssumption DEF SubIInv, WordsInv
  <2>1. \A q \in Queues : \/ pc[q] = "ready" /\ pending[q] = << >>
                          \/ pc[q] = "hold" /\ ~Released(q)
                          \/ pc[q] = "blocked"
    BY DEF Stuck
  <2>2. runningWorkers = 0
    <3>1. Running = {}
      BY <2>1 DEF Running, Busy
    <3> QED BY <3>1, <2>0, FS_EmptySet DEF RunningWord
  <2>3. queue0Uncommitted = << >>
    <3>1. InPipe = {}
      BY DEF InPipe, Serials
    <3>2. queue0Uncommitted \in Seq(Nat) /\ Elements(queue0Uncommitted) = {}
      BY <2>0, <3>1 DEF UncommittedWord
    <3>3. \A i \in 1..Len(queue0Uncommitted) : FALSE
      BY <3>2 DEF Elements
    <3>4. Len(queue0Uncommitted) = 0
      BY <3>2, <3>3, LenProperties
    <3> QED BY <3>2, <3>4, EmptySeq
  <2>4. ASSUME pc[Graphics] = "blocked", NEW q \in Queues
        PROVE  pc[q] # "hold"
    <3> SUFFICES ASSUME pc[q] = "hold"
                 PROVE  FALSE
      OBVIOUS
    <3>1. q # Graphics /\ queue0Awaited # NoLabel
      BY <2>0, <2>4 DEF OrderWords, Hands
    <3>2. Released(q)
      BY <2>2, <3>1 DEF Released, OrderReleased
    <3> QED BY <2>1, <3>2
  <2>5. ASSUME pc[Graphics] = "ready", pending[Graphics] = << >>, NEW q \in Queues
        PROVE  pc[q] # "hold"
    <3> SUFFICES ASSUME pc[q] = "hold"
                 PROVE  FALSE
      OBVIOUS
    <3>1. q # Graphics /\ queue0Executing = 0
      BY <2>0, <2>5 DEF OrderWords, Taken
    <3>2. ~PendingBefore(current[q].serial)
      BY <2>5 DEF PendingBefore
    <3>3. Released(q)
      BY <2>3, <3>1, <3>2 DEF Released, OrderReleased, Queue0Before
    <3> QED BY <2>1, <3>3
  <2>6. pc[Graphics] # "hold"
    <3> SUFFICES ASSUME pc[Graphics] = "hold"
                 PROVE  FALSE
      OBVIOUS
    <3> DEFINE n == current[Graphics].serial
    <3>1. WaitFreeBefore(n)
      BY <2>0, <2>1 DEF Released
    <3>2. PICK r \in Queues \ {Graphics} :
             /\ ~executingWaits[r]
             /\ \/ executingWaitFree[r] # 0 /\ executingWaitFree[r] < n
                \/ pending[r] # << >> /\ Head(pending[r]).serial < n
      BY <3>1 DEF WaitFreeBefore
    <3>3. pc[r] \in Taken /\ WaitFree(current[r])
      <4>1. pc[r] \in Taken
        <5>1. executingWaitFree[r] # 0 \/ pending[r] # << >>
          BY <3>2
        <5> QED BY <5>1, <2>0, <2>1 DEF OrderWords, Taken, Stages
      <4> QED BY <4>1, <3>2, <2>0 DEF OrderWords
    <3>4. pc[r] = "hold" /\ ~Released(r)
      <4>1. pc[r] # "blocked"
        BY <2>0, <3>3 DEF Hands, WaitFree
      <4> QED BY <4>1, <3>3, <2>1 DEF Taken
    <3> DEFINE c == current[r].serial
    <3>5. c \in Nat /\ n \in Nat /\ c < n
      <4>1. c \in 0..accepted /\ n \in 0..accepted /\ accepted \in Nat
        BY <2>0 DEF SerialsInv, Ascends, QueueAscends
      <4>2. CASE executingWaitFree[r] # 0 /\ executingWaitFree[r] < n
        BY <4>1, <4>2, <2>0, <3>3 DEF OrderWords
      <4>3. CASE pending[r] # << >> /\ Head(pending[r]).serial < n
        <5>1. pending[r] \in Seq(Submissions)
          BY <2>0 DEF SubTypes, WorkerTypes
        <5>2. Head(pending[r]) \in Submissions
          BY <5>1, <4>3, FirstAndRest
        <5>3. Head(pending[r]).serial \in Serials(pending[r], Submissions)
          <6>1. pending[r] # << >>
            BY <4>3
          <6> HIDE DEF c, n
          <6>2. Serials(pending[r], Submissions)
                  = (IF Head(pending[r]) \in Submissions THEN {Head(pending[r]).serial} ELSE {})
                      \cup Serials(Tail(pending[r]), Submissions)
            BY <5>1, <6>1, SerialsFirst
          <6> QED BY <5>2, <6>2
        <5>4. Head(pending[r]).serial \in Listed[r]
          BY <5>3 DEF Listed
        <5>5. Head(pending[r]).serial \in 1..accepted /\ c < Head(pending[r]).serial
          BY <5>4, <2>0 DEF SerialsInv, Ascends, QueueAscends
        <5> HIDE DEF c, n
        <5> QED BY <5>5, <4>1, <4>3
      <4> QED BY <3>2, <4>2, <4>3
    <3>6. Queue0Before(c)
      BY <3>2, <3>4 DEF Released, OrderReleased
    <3>7. ~(queue0Executing # 0 /\ queue0Executing < c)
      <4>1. queue0Executing = 0 \/ queue0Executing = n
        BY <2>0 DEF OrderWords
      <4> HIDE DEF c, n
      <4> QED BY <4>1, <3>5
    <3>8. ~PendingBefore(c)
      <4> SUFFICES ASSUME NEW i \in DOMAIN pending[Graphics], pending[Graphics][i].serial < c
                   PROVE  FALSE
        BY DEF PendingBefore
      <4>1. i \in 1..Len(pending[Graphics]) /\ pending[Graphics][i] \in Submissions
        BY <2>0, ElementOfSeq DEF SubTypes, WorkerTypes
      <4>2. pending[Graphics][i].serial \in Listed[Graphics]
        BY <4>1, <2>0 DEF Listed, Serials
      <4>3. pending[Graphics][i].serial \in 1..accepted /\ n < pending[Graphics][i].serial
        BY <4>2, <2>0 DEF SerialsInv, Ascends, QueueAscends
      <4> HIDE DEF c, n
      <4> QED BY <4>3, <3>5
    <3> QED BY <3>6, <3>7, <3>8, <2>3 DEF Queue0Before
  <2>7. OrderHolders = {}
    BY <2>0, <2>1, <2>4, <2>5, <2>6 DEF OrderHolders
  <2>8. ASSUME NEW t \in FlipHolders
        PROVE  WaitOver(t)
    <3>1. CASE pc[Graphics] = "blocked"
      <4>1. queue0AwaitsTitle
        BY <3>1, <2>0, <2>2, <2>7, <2>8 DEF Stuck
      <4> QED BY <4>1, <2>8 DEF WaitOver, FlipHolders
    <3>2. CASE pc[Graphics] = "ready" /\ pending[Graphics] = << >>
      <4>1. FlipsAhead = {} /\ FlipWork = {}
        BY <3>2 DEF FlipsAhead, FlipWork, FlipHere, Serials
      <4>2. flipsAhead = 0 /\ flipWorkOpen = 0
        BY <4>1, <2>0, FS_EmptySet DEF FlipsCounted
      <4> QED BY <4>2, <2>8 DEF WaitOver, FlipHolders
    <3> QED BY <3>1, <3>2, <2>0, <2>1, <2>6
  <2>9. ASSUME NEW q \in Queues, Open(q) # << >>
        PROVE  pc[q] = "blocked"
    <3> SUFFICES ASSUME pc[q] = "ready", pending[q] = << >>
                 PROVE  FALSE
      BY <2>1, <2>7 DEF OrderHolders
    <3>1. ~InHand(q)
      BY <2>0, SubmissionFacts DEF InHand, Hands
    <3> QED BY <3>1, <2>0, <2>9, OpenList
  <2> QED BY <2>7, <2>8, <2>9
<1> QED BY <1>1, SubInvariant, PTL

==============================================================================
