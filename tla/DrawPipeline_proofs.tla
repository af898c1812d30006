------------------------- MODULE DrawPipeline_proofs -------------------------
(***************************************************************************)
(* Proofs about DrawPipeline, for any places, depths, numbers of writes    *)
(* and of errors.                                                          *)
(***************************************************************************)
EXTENDS DrawPipeline, TLAPS, SequenceTheorems

\* The stages of the worker.
Stages ==
    {"job", "job_room", "jobs_drain", "settle", "enqueue", "push", "room", "drain", "drain_items",
     "drain_lock", "drained", "beside", "ask", "ask_items", "overlap", "overlap_items", "read",
     "close", "give_up", "stop", "join"}

\* Plans are short tuples, taken from the front.
LEMMA Tuples ==
    /\ \A a \in Stages : <<a>> \in Seq(Stages)
    /\ \A a, b \in Stages : <<a, b>> \in Seq(Stages)
    /\ \A a, b, c \in Stages : <<a, b, c>> \in Seq(Stages)
    /\ \A a, b, c, d \in Stages : <<a, b, c, d>> \in Seq(Stages)
    /\ \A r \in Seq(Stages) :
          /\ <<>> \o r = r
          /\ \A a \in Stages : /\ <<a>> \o r \in Seq(Stages) /\ <<a>> \o r # <<>>
                               /\ Head(<<a>> \o r) = a /\ Tail(<<a>> \o r) = r
          /\ \A a, b \in Stages : /\ <<a, b>> \o r \in Seq(Stages) /\ <<a, b>> \o r # <<>>
                                  /\ Head(<<a, b>> \o r) = a
                                  /\ Tail(<<a, b>> \o r) = <<b>> \o r
          /\ r # <<>> => /\ Tail(r) \in Seq(Stages) /\ Head(r) \in Stages
                         /\ r[Len(r)] = IF Tail(r) = <<>> THEN Head(r)
                                        ELSE Tail(r)[Len(Tail(r))]
<1>1. ASSUME NEW a \in Stages, NEW b \in Stages, NEW c \in Stages, NEW d \in Stages
      PROVE  /\ <<a>> \in Seq(Stages) /\ <<a, b>> \in Seq(Stages) /\ <<a, b, c>> \in Seq(Stages)
             /\ <<a, b, c, d>> \in Seq(Stages)
  OBVIOUS
<1>2. ASSUME NEW r \in Seq(Stages), NEW a \in Stages
      PROVE  /\ <<a>> \o r \in Seq(Stages) /\ <<a>> \o r # <<>>
             /\ Head(<<a>> \o r) = a /\ Tail(<<a>> \o r) = r
  BY <1>1
<1>3. ASSUME NEW r \in Seq(Stages), NEW a \in Stages, NEW b \in Stages
      PROVE  /\ <<a, b>> \o r \in Seq(Stages) /\ <<a, b>> \o r # <<>>
             /\ Head(<<a, b>> \o r) = a /\ Tail(<<a, b>> \o r) = <<b>> \o r
  <2> DEFINE s == <<a, b>> \o r
             u == <<b>> \o r
  <2>1. /\ s \in Seq(Stages) /\ u \in Seq(Stages) /\ Len(s) = Len(r) + 2 /\ Len(u) = Len(r) + 1
        /\ s[1] = a /\ Len(r) \in Nat
    BY <1>1, LenProperties, ConcatProperties
  <2>2. \A i \in 1..Len(u) : u[i] = s[i + 1]
    <3>1. ASSUME NEW i \in 1..Len(u)
          PROVE  u[i] = s[i + 1]
      <4>1. CASE i = 1
        BY <1>1, <2>1, <4>1, ConcatProperties
      <4>2. CASE i # 1
        <5>1. u[i] = r[i - 1] /\ s[i + 1] = r[i - 1]
          BY <1>1, <2>1, <4>2, ConcatProperties
        <5> QED BY <5>1
      <4> QED BY <4>1, <4>2
    <3> QED BY <3>1
  <2> HIDE DEF s, u
  <2>3. s # <<>> /\ Head(s) = a /\ Tail(s) \in Seq(Stages) /\ Len(Tail(s)) = Len(u)
        /\ \A i \in 1..Len(u) : Tail(s)[i] = s[i + 1]
    BY <2>1, EmptySeq, HeadTailProperties
  <2>4. Tail(s) = u
    BY <2>1, <2>2, <2>3, SeqEqual
  <2> QED BY <2>1, <2>3, <2>4 DEF s, u
<1>4. ASSUME NEW r \in Seq(Stages), r # <<>>
      PROVE  /\ Tail(r) \in Seq(Stages) /\ Head(r) \in Stages
             /\ r[Len(r)] = IF Tail(r) = <<>> THEN Head(r) ELSE Tail(r)[Len(Tail(r))]
  <2>1. /\ Tail(r) \in Seq(Stages) /\ Head(r) \in Stages /\ Head(r) = r[1] /\ Len(Tail(r)) = Len(r) - 1
        /\ \A i \in 1..Len(Tail(r)) : Tail(r)[i] = r[i + 1]
        /\ Len(r) \in Nat /\ Len(r) # 0
    BY <1>4, EmptySeq, LenProperties, HeadTailProperties
  <2>2. Tail(r) = <<>> <=> Len(r) = 1
    <3>1. \A s \in Seq(Stages) : s = <<>> <=> Len(s) = 0
      BY EmptySeq
    <3>2. Tail(r) = <<>> <=> Len(Tail(r)) = 0
      BY <2>1, <3>1
    <3> QED BY <2>1, <3>2
  <2>3. CASE Len(r) = 1
    BY <2>1, <2>2, <2>3
  <2>4. CASE Len(r) # 1
    <3>1. Len(Tail(r)) \in 1..Len(Tail(r)) /\ Len(Tail(r)) + 1 = Len(r)
      BY <2>1, <2>4
    <3> QED BY <2>1, <2>2, <2>4, <3>1
  <2> QED BY <2>3, <2>4
<1>5. ASSUME NEW r \in Seq(Stages) PROVE <<>> \o r = r
  OBVIOUS
<1> QED BY <1>1, <1>2, <1>3, <1>4, <1>5

Kinds == {"none", "draw", "label", "wait", "load", "other", "completion", "end"}

Items == [n : Nat, to : Places \cup {Nowhere}, label : BOOLEAN]

TypeOK ==
    /\ jobs \in Seq(Items) /\ items \in Seq(Items)
    /\ jobFailure \in BOOLEAN /\ sleeping \in BOOLEAN /\ failure \in BOOLEAN
    /\ committerWaiting \in BOOLEAN /\ stopped \in BOOLEAN /\ closing \in BOOLEAN
    /\ driverFailed \in BOOLEAN /\ open \in BOOLEAN
    /\ idleWaiters \in Int /\ resumeAt \in Int
    /\ packet \in [kind : Kinds, to : Places \cup {Nowhere}, want : Nat, n : Nat]
    /\ pc \in [{"finisher", "committer"} ->
                 {"fetch", "work", "push", "room", "commit", "retire", "retire_failed", "gone"}]
    /\ asleep \subseteq {"worker", "finisher", "committer"}
    /\ memory \in [Places -> Nat] /\ latest \in [Places -> Nat]
    /\ written \in Nat /\ committed \in Seq(Nat) /\ errors \in Nat
    /\ answer.to \in Places => answer.value \in Nat
    /\ plan \in Seq(Stages)

-----------------------------------------------------------------------------
(* What the worker has left to do, and that it leaves nothing to the       *)
(* finisher when its submission ends.                                      *)

\* What may follow a stage of the worker.
Ends == {<<>>, <<"close">>}
Goes == {<<>>, <<"close">>, <<"give_up">>, <<"read">>}

Follows(h, r) ==
    \/ h \in {"job", "job_room", "read", "close", "give_up", "join"} /\ r = <<>>
    \/ h \in {"enqueue", "push", "room"} /\ r \in Ends
    \/ h \in {"drain", "drain_items", "drain_lock", "drained"} /\ r \in Goes
    \/ h = "settle" /\ r = <<"drain", "give_up">>
    \/ h = "stop" /\ r = <<"join">>
    \/ /\ h = "jobs_drain"
       /\ \/ r \in {<<"enqueue", "close">>, <<"drain", "close">>, <<"stop", "join">>,
                    <<"ask", "overlap", "read">>, <<"overlap", "read">>, <<"overlap">>}
          \/ \E s \in Ends : r = <<"push">> \o s
          \/ \E s \in Goes : r = <<"drain_items">> \o s
    \/ h = "beside" /\ r \in {<<"ask", "overlap", "read">>, <<"overlap", "read">>, <<"overlap">>}
    \/ h \in {"ask", "ask_items"} /\ r = <<"overlap", "read">>
    \/ h \in {"overlap", "overlap_items"} /\ r \in {<<>>, <<"read">>}

PlanIsKnown == plan # <<>> => Follows(Head(plan), Tail(plan))

\* The worker is stopping the driver.
Stopping ==
    plan # <<>> /\ (Head(plan) \in {"stop", "join"} \/ Tail(plan) = <<"stop", "join">>)

\* The finisher has nothing left when the worker comes to the queue of commits, or
\* to the end of its submission.
JobsAreOver ==
    plan # <<>> /\ jobs # <<>> =>
        /\ Head(plan) \notin {"push", "room", "drain_items", "drain_lock", "drained",
                              "close", "give_up"}
        /\ Head(plan) \in {"enqueue", "drain"} => Tail(plan) \notin {<<"close">>, <<"give_up">>}

\* What the worker has found on its way to a read.
ReadIsClear ==
    plan # <<>> =>
        /\ Head(plan) \in {"ask_items", "overlap_items", "read"} => ~Holds(jobs, packet.to)
        /\ Head(plan) = "read" => ~Holds(items, packet.to)

WorkerInv ==
    /\ PlanIsKnown /\ JobsAreOver /\ ReadIsClear /\ JobsEndWithSubmission
    /\ plan # <<>> => (open <=> ~Stopping)

\* A thread that works on the head of a queue has one.
WorkIsThere ==
    /\ pc.finisher \in {"fetch", "work", "push", "room", "retire", "retire_failed"}
    /\ pc.finisher # "fetch" => jobs # <<>>
    /\ pc.committer \in {"fetch", "commit", "retire", "retire_failed", "gone"}
    /\ pc.committer \notin {"fetch", "gone"} => items # <<>>

\* Nothing is held against a run in which nothing threw.
NoErrorNoFailure ==
    errors = 0 => /\ ~jobFailure /\ ~failure /\ ~stopped
                  /\ pc.finisher # "retire_failed" /\ pc.committer # "retire_failed"

PlanInv == TypeOK /\ WorkerInv /\ WorkIsThere /\ NoErrorNoFailure

-----------------------------------------------------------------------------
(* What the steps do to the queues: a packet asks for a commit, the commit *)
(* becomes a job or an item, the job an item and the item memory; every    *)
(* other step leaves the commits where they are.                           *)

\* The packet's commit is in no queue yet.
Unqueued ==
    /\ plan # <<>>
    /\ \/ Head(plan) \in {"job", "job_room", "enqueue", "push", "room"}
       \/ Tail(plan) # <<>> /\ Head(Tail(plan)) \in {"push", "enqueue"}

\* A label that is queued, or memory that nothing queued writes, answers the packet.
Tells ==
    /\ answer'.to = packet.to
    /\ \/ HoldsLabel(jobs, packet.to, answer'.value)
       \/ ~Holds(jobs, packet.to) /\ HoldsLabel(items, packet.to, answer'.value)
       \/ /\ ~Holds(jobs, packet.to) /\ ~Holds(items, packet.to)
          /\ packet.to \in Places => answer'.value = memory[packet.to]

Retiring(s) == s \in {"retire", "retire_failed"}

Still ==
    /\ UNCHANGED <<jobs, items, memory, latest, written, committed>>
    /\ Retiring(pc.finisher) => Retiring(pc'.finisher)
    /\ Retiring(pc.committer) => Retiring(pc'.committer)
    /\ Unqueued' => Unqueued /\ packet' = packet
    /\ errors' = 0 => /\ errors = 0 /\ (Unqueued' <=> Unqueued)
                      /\ pc'.finisher = "retire" <=> pc.finisher = "retire"
                      /\ pc'.committer = "retire" <=> pc.committer = "retire"
    /\ answer' \in {answer, NoAnswer} \/ (Tells /\ ~Unqueued)

Asks ==
    /\ ~Unqueued /\ Unqueued'
    /\ packet'.n = written + 1 /\ written' = written + 1
    /\ latest' = IF packet'.to \in Places THEN [latest EXCEPT ![packet'.to] = written + 1] ELSE latest
    /\ answer' = NoAnswer
    /\ UNCHANGED <<jobs, items, memory, committed, errors, pc>>

JobJoins ==
    /\ Unqueued /\ ~Unqueued' /\ jobs' = Append(jobs, Item(packet))
    /\ UNCHANGED <<items, memory, latest, written, committed, errors, pc, answer>>

ItemJoins ==
    /\ Unqueued /\ ~Unqueued' /\ jobs = <<>> /\ items' = Append(items, Item(packet))
    /\ UNCHANGED <<jobs, memory, latest, written, committed, errors, pc, answer>>

OthersStep == UNCHANGED <<plan, packet, latest, written, errors, answer>>

JobIsPushed ==
    /\ pc.finisher \in {"push", "room"} /\ pc' = [pc EXCEPT !.finisher = "retire"]
    /\ items' = Append(items, Head(jobs))
    /\ OthersStep /\ UNCHANGED <<jobs, memory, committed>>

JobLeaves ==
    /\ Retiring(pc.finisher) /\ pc' = [pc EXCEPT !.finisher = "fetch"]
    /\ jobs' = Tail(jobs)
    /\ OthersStep /\ UNCHANGED <<items, memory, committed>>

ItemIsDone ==
    /\ pc.committer = "commit" /\ pc' = [pc EXCEPT !.committer = "retire"]
    /\ memory' = [p \in Places |-> IF p = Head(items).to THEN Head(items).n ELSE memory[p]]
    /\ committed' = Append(committed, Head(items).n)
    /\ OthersStep /\ UNCHANGED <<jobs, items>>

ItemLeaves ==
    /\ Retiring(pc.committer) /\ pc' = [pc EXCEPT !.committer = "fetch"]
    /\ items' = Tail(items)
    /\ OthersStep /\ UNCHANGED <<jobs, memory, committed>>

QueueStep ==
    Still \/ Asks \/ JobJoins \/ ItemJoins \/ JobIsPushed \/ JobLeaves \/ ItemIsDone \/ ItemLeaves


\* Every step keeps the worker's plan, and does one of these things to the queues.
LEMMA PlanStep ==
    ASSUME PlanInv, [Next]_vars
    PROVE  PlanInv' /\ QueueStep
<1> USE DEF PlanInv
<1> DEFINE Has(h, r) == plan # <<>> /\ Head(plan) = h /\ Tail(plan) = r
           Left(h, r) == plan' \in Seq(Stages) /\ plan' # <<>> /\ Head(plan') = h /\ Tail(plan') = r
<1>P. plan \in Seq(Stages) /\ (plan # <<>> => Tail(plan) \in Seq(Stages) /\ Head(plan) \in Stages)
  BY Tuples DEF TypeOK
<1>at. \A s : At("worker", s) /\ s # "none" =>
            plan # <<>> /\ Head(plan) = s /\ Follows(s, Tail(plan)) /\ "worker" \notin asleep
  BY DEF At, Stage, WorkerInv, PlanIsKnown
\* What a tuple in front of the rest of the plan makes of it.
<1>C. ASSUME NEW r \in Seq(Stages)
      PROVE  /\ plan' = <<>> \o r => plan' = r
             /\ \A a \in Stages : plan' = <<a>> \o r => Left(a, r)
             /\ \A a, b \in Stages : plan' = <<a, b>> \o r => Left(a, <<b>> \o r)
  <2>1. plan' = <<>> \o r => plan' = r
    BY Tuples
  <2>2. ASSUME NEW a \in Stages, plan' = <<a>> \o r
        PROVE  Left(a, r)
    BY <2>2, Tuples
  <2>3. ASSUME NEW a \in Stages, NEW b \in Stages, plan' = <<a, b>> \o r
        PROVE  Left(a, <<b>> \o r)
    BY <2>3, Tuples
  <2> QED BY <2>1, <2>2, <2>3
<1>T. ASSUME plan # <<>>
      PROVE  /\ Then(<<>>) => plan' = Tail(plan)
             /\ \A a \in Stages : Then(<<a>>) => Left(a, Tail(plan))
             /\ \A a, b \in Stages : Then(<<a, b>>) => Left(a, <<b>> \o Tail(plan))
  BY <1>P, <1>C, <1>T DEF Then
<1>N. \A q : ~Holds(<<>>, q)
  BY DEF Holds
\* The two plans that a packet's plan may follow.
<1>D. ASSUME NEW t \in Goes \cup Ends, NEW a \in {"push", "drain_items"}
      PROVE  /\ <<a>> \o t # <<>> /\ Head(<<a>> \o t) = a /\ Tail(<<a>> \o t) = t
             /\ <<a>> \o t # <<"stop", "join">> /\ t # <<"stop", "join">> /\ t # <<"join">>
             /\ t \in Seq(Stages) /\ <<a>> \o t \in Seq(Stages)
             /\ t # <<>> => Head(t) \in {"close", "give_up", "read"} /\ Tail(t) = <<>>
  <2>1. {<<>>, <<"close">>, <<"give_up">>, <<"read">>} \subseteq Seq(Stages)
    BY DEF Stages
  <2>2. t \in Seq(Stages) /\ a \in Stages
    BY <2>1 DEF Goes, Ends, Stages
  <2>3. PICK u \in Seq(Stages) : u = <<a>> \o t /\ u # <<>> /\ Head(u) = a /\ Tail(u) = t
    BY <2>2, Tuples
  <2>4. t # <<"join">> /\ t # <<"stop", "join">>
    <3>1. \A s \in {<<>>, <<"close">>, <<"give_up">>, <<"read">>} : s # <<"join">> /\ s # <<"stop", "join">>
      OBVIOUS
    <3> QED BY <3>1 DEF Goes, Ends
  <2>5. u # <<"stop", "join">>
    <3>1. Head(<<"stop", "join">>) = "stop"
      OBVIOUS
    <3> QED BY <2>3, <3>1
  <2>6. t # <<>> => Head(t) \in {"close", "give_up", "read"} /\ Tail(t) = <<>>
    <3>1. CASE t = <<"close">>
      BY <3>1
    <3>2. CASE t = <<"give_up">>
      BY <3>2
    <3>3. CASE t = <<"read">>
      BY <3>3
    <3> QED BY <3>1, <3>2, <3>3 DEF Goes, Ends
  <2> QED BY <2>2, <2>3, <2>4, <2>5, <2>6
\* The end of a plan tells the stages of an unwinding, and of a stop, from the others.
<1>L. ASSUME plan # <<>>
      PROVE  /\ plan[Len(plan)] = "join" <=> Stopping
             /\ plan[Len(plan)] = "give_up" =>
                   \/ Head(plan) = "give_up"
                   \/ Tail(plan) \in {<<"give_up">>, <<"drain", "give_up">>, <<"drain_items">> \o <<"give_up">>}
  <2> DEFINE last(r) == r[Len(r)]
  <2>1. ASSUME NEW r \in Seq(Stages), r # <<>>
        PROVE  last(r) = IF Tail(r) = <<>> THEN Head(r) ELSE last(Tail(r))
    BY <2>1, Tuples
  <2>2. /\ <<"close">> # <<>> /\ last(<<"close">>) = "close"
        /\ <<"give_up">> # <<>> /\ last(<<"give_up">>) = "give_up"
        /\ <<"read">> # <<>> /\ last(<<"read">>) = "read"
        /\ <<"overlap">> # <<>> /\ last(<<"overlap">>) = "overlap"
        /\ <<"join">> # <<>> /\ last(<<"join">>) = "join"
        /\ <<"drain", "give_up">> # <<>> /\ last(<<"drain", "give_up">>) = "give_up"
        /\ <<"overlap", "read">> # <<>> /\ last(<<"overlap", "read">>) = "read"
        /\ <<"stop", "join">> # <<>> /\ last(<<"stop", "join">>) = "join"
        /\ <<"drain", "close">> # <<>> /\ last(<<"drain", "close">>) = "close"
        /\ <<"enqueue", "close">> # <<>> /\ last(<<"enqueue", "close">>) = "close"
        /\ <<"ask", "overlap", "read">> # <<>> /\ last(<<"ask", "overlap", "read">>) = "read"
    OBVIOUS
  <2>3. ASSUME NEW a \in Stages, NEW s \in Seq(Stages)
        PROVE  /\ <<a>> \o s # <<>> 
               /\ last(<<a>> \o s) = IF s = <<>> THEN a ELSE last(s)
    <3>1. PICK u \in Seq(Stages) : u = <<a>> \o s /\ u # <<>> /\ Head(u) = a /\ Tail(u) = s
      BY Tuples
    <3> QED BY <3>1, <2>1
  <2>4. /\ last(plan) = IF Tail(plan) = <<>> THEN Head(plan) ELSE last(Tail(plan))
        /\ Follows(Head(plan), Tail(plan))
    BY <1>P, <1>L, <2>1 DEF WorkerInv, PlanIsKnown
  <2> HIDE DEF last
  <2>5. ASSUME NEW t \in Goes \cup Ends, NEW a \in {"push", "drain_items"}
        PROVE  /\ <<a>> \o t # <<>> /\ <<a>> \o t # <<"stop", "join">> /\ last(<<a>> \o t) # "join"
               /\ last(<<a>> \o t) = "give_up" => t = <<"give_up">>
    <3>0. {<<>>, <<"close">>, <<"give_up">>, <<"read">>} \subseteq Seq(Stages)
      BY DEF Stages
    <3>1. t \in Seq(Stages) /\ a \in Stages
      BY <3>0 DEF Goes, Ends, Stages
    <3>2. <<a>> \o t # <<>> /\ last(<<a>> \o t) = IF t = <<>> THEN a ELSE last(t)
      BY <3>1, <2>3
    <3>3. t # <<>> => last(t) \in {"close", "give_up", "read"} /\ (last(t) = "give_up" => t = <<"give_up">>)
      BY <2>2 DEF Goes, Ends, Stages
    <3> QED BY <2>2, <3>2, <3>3
  <2>6. CASE Head(plan) = "jobs_drain"
    <3>1. CASE \E s \in Ends : Tail(plan) = <<"push">> \o s
      <4>1. PICK s \in Ends : Tail(plan) = <<"push">> \o s
        BY <3>1
      <4>3. /\ Tail(plan) # <<>> /\ Tail(plan) # <<"stop", "join">> /\ last(Tail(plan)) # "join"
            /\ last(Tail(plan)) = "give_up" => s = <<"give_up">>
        BY <4>1, <2>5
      <4> QED BY <2>4, <2>6, <4>1, <4>3 DEF Stopping, last, Ends
    <3>2. CASE \E s \in Goes : Tail(plan) = <<"drain_items">> \o s
      <4>1. PICK s \in Goes : Tail(plan) = <<"drain_items">> \o s
        BY <3>2
      <4>3. /\ Tail(plan) # <<>> /\ Tail(plan) # <<"stop", "join">> /\ last(Tail(plan)) # "join"
            /\ last(Tail(plan)) = "give_up" => s = <<"give_up">>
        BY <4>1, <2>5
      <4> QED BY <2>4, <2>6, <4>1, <4>3 DEF Stopping, last, Ends
    <3>3. CASE Tail(plan) \in {<<"enqueue", "close">>, <<"drain", "close">>, <<"stop", "join">>,
                               <<"ask", "overlap", "read">>, <<"overlap", "read">>, <<"overlap">>}
      <4>1. last(plan) = last(Tail(plan)) /\ last(Tail(plan)) # "give_up"
        BY <2>2, <2>4, <3>3
      <4>2. last(Tail(plan)) = "join" <=> Tail(plan) = <<"stop", "join">>
        BY <2>2, <3>3
      <4> QED BY <2>6, <4>1, <4>2, <1>L DEF Stopping, last
    <3> QED BY <2>4, <2>6, <3>1, <3>2, <3>3 DEF Follows
  <2>7. CASE Head(plan) # "jobs_drain"
    <3>1. last(plan) = "join" <=> Head(plan) \in {"join", "stop"}
      BY <2>2, <2>4, <2>7 DEF Follows, Stages, Goes, Ends
    <3>2. Tail(plan) # <<"stop", "join">>
      BY <2>4, <2>7 DEF Follows, Goes, Ends
    <3>3. last(plan) = "give_up" => \/ Head(plan) = "give_up"
                                    \/ Tail(plan) \in {<<"give_up">>, <<"drain", "give_up">>}
      BY <2>2, <2>4, <2>7 DEF Follows, Stages, Goes, Ends
    <3> QED BY <3>1, <3>2, <3>3, <1>L DEF Stopping, last
  <2> QED BY <2>6, <2>7 DEF last
<1>K. ASSUME UNCHANGED <<jobs, items, memory, latest, written, committed, packet, errors, pc, answer>>,
             Unqueued' => Unqueued, errors = 0 => (Unqueued' <=> Unqueued),
             jobFailure' => jobFailure, failure' => failure, stopped' => stopped
      PROVE  WorkIsThere' /\ NoErrorNoFailure' /\ QueueStep
  <2>1. WorkIsThere' /\ NoErrorNoFailure'
    BY <1>K DEF WorkIsThere, NoErrorNoFailure
  <2>2. Still
    BY <1>K DEF Still
  <2> QED BY <2>1, <2>2 DEF QueueStep
<1>F. ASSUME Throw, plan = <<>> => open, plan # <<>> /\ Head(plan) # "job" => jobs = <<>>,
             UNCHANGED <<jobs, open>>
      PROVE  plan' \in Seq(Stages) /\ WorkerInv' /\ ~Unqueued'
  <2>1. \/ plan' = <<"give_up">> /\ open /\ jobs = <<>>
        \/ plan' = <<"stop", "join">> /\ ~open
        \/ plan' = <<"settle", "drain", "give_up">> /\ open
    <3>1. CASE plan = <<>>
      BY <1>F, <3>1 DEF Throw
    <3>2. CASE plan # <<>> /\ plan[Len(plan)] = "give_up"
      <4>1. Head(plan) # "job" /\ ~Stopping
        <5>1. Follows(Head(plan), Tail(plan))
          BY <3>2 DEF WorkerInv, PlanIsKnown
        <5>2. \/ Head(plan) = "give_up" /\ Tail(plan) = <<>>
              \/ Tail(plan) \in {<<"give_up">>, <<"drain", "give_up">>, <<"drain_items">> \o <<"give_up">>}
          BY <1>L, <3>2, <5>1 DEF Follows
        <5>3. \A t \in {<<"give_up">>, <<"drain", "give_up">>, <<"drain_items">> \o <<"give_up">>} :
                  t # <<>> /\ t # <<"join">> /\ t # <<"stop", "join">>
          <6>1. \A t \in {<<"give_up">>, <<"drain", "give_up">>} :
                    t # <<>> /\ t # <<"join">> /\ t # <<"stop", "join">>
            OBVIOUS
          <6>2. PICK t : t = <<"drain_items">> \o <<"give_up">> /\ t # <<>> /\ Head(t) = "drain_items"
            BY <1>D DEF Goes
          <6>3. Head(<<"join">>) = "join" /\ Head(<<"stop", "join">>) = "stop"
            OBVIOUS
          <6> QED BY <6>1, <6>2, <6>3
        <5>4. <<>> # <<"stop", "join">>
          OBVIOUS
        <5>5. CASE Head(plan) = "give_up" /\ Tail(plan) = <<>>
          BY <5>4, <5>5 DEF Stopping
        <5>6. CASE Tail(plan) # <<>> /\ Tail(plan) # <<"join">> /\ Tail(plan) # <<"stop", "join">>
          BY <5>1, <5>6 DEF Follows, Stopping
        <5> QED BY <5>2, <5>3, <5>5, <5>6
      <4> QED BY <1>F, <3>2, <4>1 DEF Throw, WorkerInv
    <3>3. CASE plan # <<>> /\ plan[Len(plan)] # "give_up" /\ plan[Len(plan)] = "join"
      BY <1>F, <1>L, <3>3 DEF Throw, WorkerInv
    <3>4. CASE plan # <<>> /\ plan[Len(plan)] # "give_up" /\ plan[Len(plan)] # "join"
      BY <1>F, <1>L, <3>4 DEF Throw, WorkerInv
    <3> QED BY <3>1, <3>2, <3>3, <3>4
  <2>2. \/ Left("give_up", <<>>) /\ open /\ jobs = <<>>
        \/ Left("stop", <<"join">>) /\ ~open
        \/ Left("settle", <<"drain", "give_up">>) /\ open
    <3>1. plan' = <<"give_up">> => Left("give_up", <<>>)
      BY DEF Stages
    <3>2. plan' = <<"stop", "join">> => Left("stop", <<"join">>)
      BY DEF Stages
    <3>3. plan' = <<"settle", "drain", "give_up">> => Left("settle", <<"drain", "give_up">>)
      BY DEF Stages
    <3> QED BY <2>1, <3>1, <3>2, <3>3
  <2>3. ~open => jobs = <<>>
    BY DEF WorkerInv, JobsEndWithSubmission
  <2>4. PlanIsKnown'
    BY <2>2 DEF PlanIsKnown, Follows
  <2>5. JobsAreOver' /\ ReadIsClear' /\ JobsEndWithSubmission'
    BY <1>F, <2>2, <2>3 DEF JobsAreOver, ReadIsClear, JobsEndWithSubmission
  <2>6. plan' # <<>> /\ (open' <=> ~Stopping')
    <3>1. <<>> # <<"stop", "join">> /\ <<"drain", "give_up">> # <<"stop", "join">>
      OBVIOUS
    <3> QED BY <1>F, <2>2, <3>1 DEF Stopping
  <2>7. ~Unqueued'
    <3>1. Head(<<"join">>) = "join" /\ Head(<<"drain", "give_up">>) = "drain"
      OBVIOUS
    <3> QED BY <2>2, <3>1 DEF Unqueued
  <2> QED BY <2>2, <2>4, <2>5, <2>6, <2>7 DEF WorkerInv
<1>H. /\ <<"close">> # <<>> /\ Head(<<"close">>) = "close" /\ Tail(<<"close">>) = <<>> /\ <<"close">> # <<"stop", "join">>
      /\ <<"give_up">> # <<>> /\ Head(<<"give_up">>) = "give_up" /\ Tail(<<"give_up">>) = <<>> /\ <<"give_up">> # <<"stop", "join">>
      /\ <<"read">> # <<>> /\ Head(<<"read">>) = "read" /\ Tail(<<"read">>) = <<>> /\ <<"read">> # <<"stop", "join">>
      /\ <<"overlap">> # <<>> /\ Head(<<"overlap">>) = "overlap" /\ Tail(<<"overlap">>) = <<>> /\ <<"overlap">> # <<"stop", "join">>
      /\ <<"join">> # <<>> /\ Head(<<"join">>) = "join" /\ Tail(<<"join">>) = <<>> /\ <<"join">> # <<"stop", "join">>
      /\ <<"drain", "give_up">> # <<>> /\ Head(<<"drain", "give_up">>) = "drain" /\ Tail(<<"drain", "give_up">>) = <<"give_up">> /\ <<"drain", "give_up">> # <<"stop", "join">>
      /\ <<"overlap", "read">> # <<>> /\ Head(<<"overlap", "read">>) = "overlap" /\ Tail(<<"overlap", "read">>) = <<"read">> /\ <<"overlap", "read">> # <<"stop", "join">>
      /\ <<"stop", "join">> # <<>> /\ Head(<<"stop", "join">>) = "stop" /\ Tail(<<"stop", "join">>) = <<"join">>
      /\ <<"drain", "close">> # <<>> /\ Head(<<"drain", "close">>) = "drain" /\ Tail(<<"drain", "close">>) = <<"close">> /\ <<"drain", "close">> # <<"stop", "join">>
      /\ <<"enqueue", "close">> # <<>> /\ Head(<<"enqueue", "close">>) = "enqueue" /\ Tail(<<"enqueue", "close">>) = <<"close">> /\ <<"enqueue", "close">> # <<"stop", "join">>
      /\ <<"ask", "overlap", "read">> # <<>> /\ Head(<<"ask", "overlap", "read">>) = "ask" /\ Tail(<<"ask", "overlap", "read">>) = <<"overlap", "read">> /\ <<"ask", "overlap", "read">> # <<"stop", "join">>
      /\ <<>> # <<"stop", "join">>
  OBVIOUS
<1>V. ASSUME plan' = Tail(plan), plan # <<>>
      PROVE  /\ plan' \in Seq(Stages)
             /\ Tail(plan) = <<"close">> => Left("close", <<>>)
             /\ Tail(plan) = <<"give_up">> => Left("give_up", <<>>)
             /\ Tail(plan) = <<"read">> => Left("read", <<>>)
             /\ Tail(plan) = <<"overlap">> => Left("overlap", <<>>)
             /\ Tail(plan) = <<"join">> => Left("join", <<>>)
             /\ Tail(plan) = <<"drain", "give_up">> => Left("drain", <<"give_up">>)
             /\ Tail(plan) = <<"overlap", "read">> => Left("overlap", <<"read">>)
             /\ Tail(plan) = <<"stop", "join">> => Left("stop", <<"join">>)
             /\ Tail(plan) = <<"drain", "close">> => Left("drain", <<"close">>)
             /\ Tail(plan) = <<"enqueue", "close">> => Left("enqueue", <<"close">>)
             /\ Tail(plan) = <<"ask", "overlap", "read">> => Left("ask", <<"overlap", "read">>)
             /\ Tail(plan) \in Goes \cup Ends /\ Tail(plan) # <<>> =>
                   \E s \in {"close", "give_up", "read"} : Left(s, <<>>) /\ Tail(plan) = <<s>>
  BY <1>P, <1>V, <1>H DEF Goes, Ends
<1>A. ASSUME NEW q \in Seq(Items), NEW e \in Items
      PROVE  /\ Append(q, e) \in Seq(Items) /\ Append(q, e) # <<>>
             /\ \A p : ~Holds(q, p) /\ e.to # p => ~Holds(Append(q, e), p)
  <2>1. /\ Append(q, e) \in Seq(Items) /\ Append(q, e) # <<>>
        /\ Len(Append(q, e)) = Len(q) + 1 /\ Len(q) \in Nat /\ Append(q, e)[Len(q) + 1] = e
        /\ \A i \in 1..Len(q) : Append(q, e)[i] = q[i]
    BY AppendProperties, EmptySeq, LenProperties
  <2>2. ASSUME NEW p, ~Holds(q, p), e.to # p
        PROVE  ~Holds(Append(q, e), p)
    <3>1. ASSUME NEW i \in 1..Len(Append(q, e))
          PROVE  Append(q, e)[i].to # p
      <4>1. i \in 1..Len(q) \/ i = Len(q) + 1
        BY <2>1
      <4> QED BY <2>1, <2>2, <4>1 DEF Holds
    <3> QED BY <3>1 DEF Holds
  <2> QED BY <2>1, <2>2
<1>Q. ASSUME NEW q \in Seq(Items), q # <<>>
      PROVE  /\ Tail(q) \in Seq(Items) /\ Head(q) \in Items
             /\ \A p : ~Holds(q, p) => ~Holds(Tail(q), p) /\ Head(q).to # p
  <2>1. /\ Tail(q) \in Seq(Items) /\ Head(q) \in Items /\ Head(q) = q[1]
        /\ Len(q) \in Nat /\ Len(q) # 0 /\ Len(Tail(q)) = Len(q) - 1
        /\ \A i \in 1..Len(Tail(q)) : Tail(q)[i] = q[i + 1]
    BY <1>Q, HeadTailProperties, LenProperties, EmptySeq
  <2>2. ASSUME NEW p, ~Holds(q, p)
        PROVE  ~Holds(Tail(q), p) /\ Head(q).to # p
    BY <2>1, <2>2 DEF Holds
  <2> QED BY <2>1, <2>2
<1>W. ASSUME Worker PROVE PlanInv' /\ QueueStep
  <2>Settle. CASE Settle
    <3>1. /\ plan # <<>> /\ Head(plan) = "settle" /\ Tail(plan) \in {<<"drain", "give_up">>} /\ Tail(plan) \in Seq(Stages)
      <4>1. At("worker", "settle")
        BY <2>Settle DEF Settle
      <4> QED BY <4>1, <1>at, <1>P DEF Follows
    <3>j. jobs = <<>>
      BY <2>Settle, <1>at DEF Settle, JobsAreOver, WorkerInv
    <3>2. Left("drain", <<"give_up">>)
      <4>1. CASE TRUE
        <5>1. Then(<<>>)
          BY <2>Settle, <4>1 DEF Settle, FinisherBusy, Busy
        <5> QED BY <2>Settle, <5>1, <3>1, <3>j, <4>1, <1>T, <1>V, <1>D, <1>H DEF Stages, Busy, FinisherBusy
      <4> QED BY <4>1
    <3>3. plan' \in Seq(Stages)
      BY <3>1, <3>2 DEF Stages
    <3>4. TypeOK'
      BY <2>Settle, <3>3 DEF Settle, TypeOK, finisher, pipeline, data
    <3>5. PlanIsKnown'
      BY <3>1, <3>2, <1>D, <1>H DEF PlanIsKnown, Follows, Goes, Ends
    <3>6. JobsAreOver' /\ ReadIsClear' /\ JobsEndWithSubmission'
      BY <2>Settle, <3>1, <3>2, <3>j, <1>H, <1>N DEF Settle, JobsAreOver, ReadIsClear, JobsEndWithSubmission, WorkerInv, finisher, pipeline, data
    <3>7. plan' # <<>> => (open' <=> ~Stopping')
      BY <2>Settle, <3>1, <3>2, <1>D, <1>H DEF Settle, WorkerInv, Stopping
    <3>8. Unqueued' <=> Unqueued
      BY <3>1, <3>2, <1>D, <1>H DEF Unqueued
    <3>9. WorkIsThere' /\ NoErrorNoFailure' /\ QueueStep
      BY <2>Settle, <3>8, <1>K DEF Settle, finisher, pipeline, data
    <3> QED BY <3>3, <3>4, <3>5, <3>6, <3>7, <3>9 DEF WorkerInv
  <2>Drain. CASE Drain
    <3>1. /\ plan # <<>> /\ Head(plan) = "drain" /\ Tail(plan) \in Goes /\ Tail(plan) \in Seq(Stages)
      <4>1. At("worker", "drain")
        BY <2>Drain DEF Drain
      <4> QED BY <4>1, <1>at, <1>P DEF Follows
    <3>2. \/ Left("jobs_drain", <<"drain_items">> \o Tail(plan))
          \/ jobs = <<>> /\ Left("drain_items", Tail(plan))
      <4>1. CASE jobs # <<>>
        <5>1. Then(<<"jobs_drain", "drain_items">>)
          BY <2>Drain, <4>1 DEF Drain, FinisherBusy, Busy
        <5> QED BY <2>Drain, <5>1, <3>1, <4>1, <1>T, <1>V, <1>D, <1>H DEF Stages, Busy, FinisherBusy
      <4>2. CASE jobs = <<>>
        <5>1. Then(<<"drain_items">>)
          BY <2>Drain, <4>2 DEF Drain, FinisherBusy, Busy
        <5> QED BY <2>Drain, <5>1, <3>1, <4>2, <1>T, <1>V, <1>D, <1>H DEF Stages, Busy, FinisherBusy
      <4> QED BY <4>1, <4>2
    <3>3. plan' \in Seq(Stages)
      BY <3>1, <3>2 DEF Stages
    <3>4. TypeOK'
      BY <2>Drain, <3>3 DEF Drain, TypeOK, finisher, pipeline, data
    <3>5. PlanIsKnown'
      BY <3>1, <3>2, <1>D, <1>H DEF PlanIsKnown, Follows, Goes, Ends
    <3>6. JobsAreOver' /\ ReadIsClear' /\ JobsEndWithSubmission'
      BY <2>Drain, <3>1, <3>2, <1>H, <1>N DEF Drain, JobsAreOver, ReadIsClear, JobsEndWithSubmission, WorkerInv, finisher, pipeline, data
    <3>7. plan' # <<>> => (open' <=> ~Stopping')
      BY <2>Drain, <3>1, <3>2, <1>D, <1>H DEF Drain, WorkerInv, Stopping
    <3>8. Unqueued' <=> Unqueued
      BY <3>1, <3>2, <1>D, <1>H DEF Unqueued
    <3>9. WorkIsThere' /\ NoErrorNoFailure' /\ QueueStep
      BY <2>Drain, <3>8, <1>K DEF Drain, finisher, pipeline, data
    <3> QED BY <3>3, <3>4, <3>5, <3>6, <3>7, <3>9 DEF WorkerInv
  <2>DrainItems. CASE DrainItems
    <3>1. /\ plan # <<>> /\ Head(plan) = "drain_items" /\ Tail(plan) \in Goes /\ Tail(plan) \in Seq(Stages)
      <4>1. At("worker", "drain_items")
        BY <2>DrainItems DEF DrainItems
      <4> QED BY <4>1, <1>at, <1>P DEF Follows
    <3>2. \/ Left("drain_lock", Tail(plan))
          \/ /\ plan' = Tail(plan) /\ jobs = <<>> /\ items = <<>>
             /\ plan' # <<>> => \E s \in {"close", "give_up", "read"} : Left(s, <<>>)
      <4>1. CASE Busy
        <5>1. Then(<<"drain_lock">>)
          BY <2>DrainItems, <4>1 DEF DrainItems, FinisherBusy, Busy
        <5> QED BY <2>DrainItems, <5>1, <3>1, <4>1, <1>T, <1>V, <1>D, <1>H DEF Stages, Busy, FinisherBusy
      <4>2. CASE ~Busy
        <5>1. Then(<<>>)
          BY <2>DrainItems, <4>2 DEF DrainItems, FinisherBusy, Busy
        <5> QED BY <2>DrainItems, <5>1, <3>1, <4>2, <1>T, <1>V, <1>D, <1>H DEF Stages, Busy, FinisherBusy
      <4> QED BY <4>1, <4>2
    <3>3. plan' \in Seq(Stages)
      BY <3>1, <3>2 DEF Stages
    <3>4. TypeOK'
      BY <2>DrainItems, <3>3 DEF DrainItems, TypeOK, finisher, pipeline, data
    <3>5. PlanIsKnown'
      BY <3>1, <3>2, <1>D, <1>H DEF PlanIsKnown, Follows, Goes, Ends
    <3>6. JobsAreOver' /\ ReadIsClear' /\ JobsEndWithSubmission'
      BY <2>DrainItems, <3>1, <3>2, <1>H, <1>N DEF DrainItems, JobsAreOver, ReadIsClear, JobsEndWithSubmission, WorkerInv, finisher, pipeline, data
    <3>7. plan' # <<>> => (open' <=> ~Stopping')
      BY <2>DrainItems, <3>1, <3>2, <1>D, <1>H DEF DrainItems, WorkerInv, Stopping
    <3>8. Unqueued' <=> Unqueued
      BY <3>1, <3>2, <1>D, <1>H DEF Unqueued
    <3>9. WorkIsThere' /\ NoErrorNoFailure' /\ QueueStep
      BY <2>DrainItems, <3>8, <1>K DEF DrainItems, finisher, pipeline, data
    <3> QED BY <3>3, <3>4, <3>5, <3>6, <3>7, <3>9 DEF WorkerInv
  <2>GoBeside. CASE GoBeside
    <3>1. /\ plan # <<>> /\ Head(plan) = "beside" /\ Tail(plan) \in {<<"ask", "overlap", "read">>, <<"overlap", "read">>, <<"overlap">>} /\ Tail(plan) \in Seq(Stages)
      <4>1. At("worker", "beside")
        BY <2>GoBeside DEF GoBeside
      <4> QED BY <4>1, <1>at, <1>P DEF Follows
    <3>2. \/ Left("jobs_drain", Tail(plan))
          \/ \/ Tail(plan) = <<"ask", "overlap", "read">> /\ Left("ask", <<"overlap", "read">>)
             \/ Tail(plan) = <<"overlap", "read">> /\ Left("overlap", <<"read">>)
             \/ Tail(plan) = <<"overlap">> /\ Left("overlap", <<>>)
      <4>1. CASE FinisherBusy /\ ~Beside
        <5>1. Then(<<"jobs_drain">>)
          BY <2>GoBeside, <4>1 DEF GoBeside, FinisherBusy, Busy
        <5> QED BY <2>GoBeside, <5>1, <3>1, <4>1, <1>T, <1>V, <1>D, <1>H DEF Stages, Busy, FinisherBusy
      <4>2. CASE ~(FinisherBusy /\ ~Beside)
        <5>1. Then(<<>>)
          BY <2>GoBeside, <4>2 DEF GoBeside, FinisherBusy, Busy
        <5> QED BY <2>GoBeside, <5>1, <3>1, <4>2, <1>T, <1>V, <1>D, <1>H DEF Stages, Busy, FinisherBusy
      <4> QED BY <4>1, <4>2
    <3>3. plan' \in Seq(Stages)
      BY <3>1, <3>2 DEF Stages
    <3>4. TypeOK'
      BY <2>GoBeside, <3>3 DEF GoBeside, TypeOK, finisher, pipeline, data
    <3>5. PlanIsKnown'
      BY <3>1, <3>2, <1>D, <1>H DEF PlanIsKnown, Follows, Goes, Ends
    <3>6. JobsAreOver' /\ ReadIsClear' /\ JobsEndWithSubmission'
      BY <2>GoBeside, <3>1, <3>2, <1>H, <1>N DEF GoBeside, JobsAreOver, ReadIsClear, JobsEndWithSubmission, WorkerInv, finisher, pipeline, data
    <3>7. plan' # <<>> => (open' <=> ~Stopping')
      BY <2>GoBeside, <3>1, <3>2, <1>D, <1>H DEF GoBeside, WorkerInv, Stopping
    <3>8. Unqueued' <=> Unqueued
      BY <3>1, <3>2, <1>D, <1>H DEF Unqueued
    <3>9. WorkIsThere' /\ NoErrorNoFailure' /\ QueueStep
      BY <2>GoBeside, <3>8, <1>K DEF GoBeside, finisher, pipeline, data
    <3> QED BY <3>3, <3>4, <3>5, <3>6, <3>7, <3>9 DEF WorkerInv
  <2>OverlapJobs. CASE OverlapJobs
    <3>1. /\ plan # <<>> /\ Head(plan) = "overlap" /\ Tail(plan) \in {<<>>, <<"read">>} /\ Tail(plan) \in Seq(Stages)
      <4>1. At("worker", "overlap")
        BY <2>OverlapJobs DEF OverlapJobs
      <4> QED BY <4>1, <1>at, <1>P DEF Follows
    <3>2. \/ /\ jobs = <<>> /\ items = <<>> /\ plan' = Tail(plan)
             /\ plan' # <<>> => Left("read", <<>>)
          \/ Left("drain", Tail(plan))
          \/ ~Holds(jobs, packet.to) /\ Left("overlap_items", Tail(plan))
      <4>1. CASE ~Busy
        <5>1. Then(<<>>)
          BY <2>OverlapJobs, <4>1 DEF OverlapJobs, FinisherBusy, Busy
        <5> QED BY <2>OverlapJobs, <5>1, <3>1, <4>1, <1>T, <1>V, <1>D, <1>H DEF Stages, Busy, FinisherBusy
      <4>2. CASE Busy /\ (packet.kind = "other" \/ Holds(jobs, packet.to))
        <5>1. Then(<<"drain">>)
          BY <2>OverlapJobs, <4>2 DEF OverlapJobs, FinisherBusy, Busy
        <5> QED BY <2>OverlapJobs, <5>1, <3>1, <4>2, <1>T, <1>V, <1>D, <1>H DEF Stages, Busy, FinisherBusy
      <4>3. CASE Busy /\ ~(packet.kind = "other" \/ Holds(jobs, packet.to))
        <5>1. Then(<<"overlap_items">>)
          BY <2>OverlapJobs, <4>3 DEF OverlapJobs, FinisherBusy, Busy
        <5> QED BY <2>OverlapJobs, <5>1, <3>1, <4>3, <1>T, <1>V, <1>D, <1>H DEF Stages, Busy, FinisherBusy
      <4> QED BY <4>1, <4>2, <4>3
    <3>3. plan' \in Seq(Stages)
      BY <3>1, <3>2 DEF Stages
    <3>4. TypeOK'
      BY <2>OverlapJobs, <3>3 DEF OverlapJobs, TypeOK, finisher, pipeline, data
    <3>5. PlanIsKnown'
      BY <3>1, <3>2, <1>D, <1>H DEF PlanIsKnown, Follows, Goes, Ends
    <3>6. JobsAreOver' /\ ReadIsClear' /\ JobsEndWithSubmission'
      BY <2>OverlapJobs, <3>1, <3>2, <1>H, <1>N DEF OverlapJobs, JobsAreOver, ReadIsClear, JobsEndWithSubmission, WorkerInv, finisher, pipeline, data
    <3>7. plan' # <<>> => (open' <=> ~Stopping')
      BY <2>OverlapJobs, <3>1, <3>2, <1>D, <1>H DEF OverlapJobs, WorkerInv, Stopping
    <3>8. Unqueued' <=> Unqueued
      BY <3>1, <3>2, <1>D, <1>H DEF Unqueued
    <3>9. WorkIsThere' /\ NoErrorNoFailure' /\ QueueStep
      BY <2>OverlapJobs, <3>8, <1>K DEF OverlapJobs, finisher, pipeline, data
    <3> QED BY <3>3, <3>4, <3>5, <3>6, <3>7, <3>9 DEF WorkerInv
  <2>OverlapItems. CASE OverlapItems
    <3>1. /\ plan # <<>> /\ Head(plan) = "overlap_items" /\ Tail(plan) \in {<<>>, <<"read">>} /\ Tail(plan) \in Seq(Stages)
      <4>1. At("worker", "overlap_items")
        BY <2>OverlapItems DEF OverlapItems
      <4> QED BY <4>1, <1>at, <1>P DEF Follows
    <3>2. \/ Left("drain", Tail(plan))
          \/ /\ ~Holds(items, packet.to) /\ plan' = Tail(plan)
             /\ plan' # <<>> => Left("read", <<>>)
      <4>1. CASE (Holds(items, packet.to) \/ (packet.kind = "wait" /\ memory[packet.to] # packet.want))
        <5>1. Then(<<"drain">>)
          BY <2>OverlapItems, <4>1 DEF OverlapItems, FinisherBusy, Busy
        <5> QED BY <2>OverlapItems, <5>1, <3>1, <4>1, <1>T, <1>V, <1>D, <1>H DEF Stages, Busy, FinisherBusy
      <4>2. CASE ~(Holds(items, packet.to) \/ (packet.kind = "wait" /\ memory[packet.to] # packet.want))
        <5>1. Then(<<>>)
          BY <2>OverlapItems, <4>2 DEF OverlapItems, FinisherBusy, Busy
        <5> QED BY <2>OverlapItems, <5>1, <3>1, <4>2, <1>T, <1>V, <1>D, <1>H DEF Stages, Busy, FinisherBusy
      <4> QED BY <4>1, <4>2
    <3>3. plan' \in Seq(Stages)
      BY <3>1, <3>2 DEF Stages
    <3>4. TypeOK'
      BY <2>OverlapItems, <3>3 DEF OverlapItems, TypeOK, finisher, pipeline, data
    <3>5. PlanIsKnown'
      BY <3>1, <3>2, <1>D, <1>H DEF PlanIsKnown, Follows, Goes, Ends
    <3>6. JobsAreOver' /\ ReadIsClear' /\ JobsEndWithSubmission'
      BY <2>OverlapItems, <3>1, <3>2, <1>H, <1>N DEF OverlapItems, JobsAreOver, ReadIsClear, JobsEndWithSubmission, WorkerInv, finisher, pipeline, data
    <3>7. plan' # <<>> => (open' <=> ~Stopping')
      BY <2>OverlapItems, <3>1, <3>2, <1>D, <1>H DEF OverlapItems, WorkerInv, Stopping
    <3>8. Unqueued' <=> Unqueued
      BY <3>1, <3>2, <1>D, <1>H DEF Unqueued
    <3>9. WorkIsThere' /\ NoErrorNoFailure' /\ QueueStep
      BY <2>OverlapItems, <3>8, <1>K DEF OverlapItems, finisher, pipeline, data
    <3> QED BY <3>3, <3>4, <3>5, <3>6, <3>7, <3>9 DEF WorkerInv
  <2>Enqueue. CASE Enqueue
    <3>1. /\ plan # <<>> /\ Head(plan) = "enqueue" /\ Tail(plan) \in Ends /\ Tail(plan) \in Seq(Stages)
      <4>1. At("worker", "enqueue")
        BY <2>Enqueue DEF Enqueue
      <4> QED BY <4>1, <1>at, <1>P DEF Follows
    <3>2. \/ Left("jobs_drain", <<"push">> \o Tail(plan))
          \/ jobs = <<>> /\ Left("push", Tail(plan))
      <4>1. CASE jobs # <<>>
        <5>1. Then(<<"jobs_drain", "push">>)
          BY <2>Enqueue, <4>1 DEF Enqueue, FinisherBusy, Busy
        <5> QED BY <2>Enqueue, <5>1, <3>1, <4>1, <1>T, <1>V, <1>D, <1>H DEF Stages, Busy, FinisherBusy
      <4>2. CASE jobs = <<>>
        <5>1. Then(<<"push">>)
          BY <2>Enqueue, <4>2 DEF Enqueue, FinisherBusy, Busy
        <5> QED BY <2>Enqueue, <5>1, <3>1, <4>2, <1>T, <1>V, <1>D, <1>H DEF Stages, Busy, FinisherBusy
      <4> QED BY <4>1, <4>2
    <3>3. plan' \in Seq(Stages)
      BY <3>1, <3>2 DEF Stages
    <3>4. TypeOK'
      BY <2>Enqueue, <3>3 DEF Enqueue, TypeOK, finisher, pipeline, data
    <3>5. PlanIsKnown'
      BY <3>1, <3>2, <1>D, <1>H DEF PlanIsKnown, Follows, Goes, Ends
    <3>6. JobsAreOver' /\ ReadIsClear' /\ JobsEndWithSubmission'
      BY <2>Enqueue, <3>1, <3>2, <1>H, <1>N DEF Enqueue, JobsAreOver, ReadIsClear, JobsEndWithSubmission, WorkerInv, finisher, pipeline, data
    <3>7. plan' # <<>> => (open' <=> ~Stopping')
      BY <2>Enqueue, <3>1, <3>2, <1>D, <1>H DEF Enqueue, WorkerInv, Stopping
    <3>8. Unqueued' <=> Unqueued
      <4>1. <<"push">> \o Tail(plan) # <<>> /\ Head(<<"push">> \o Tail(plan)) = "push"
        BY <3>1, <1>D
      <4> QED BY <3>1, <3>2, <4>1 DEF Unqueued
    <3>9. WorkIsThere' /\ NoErrorNoFailure' /\ QueueStep
      BY <2>Enqueue, <3>8, <1>K DEF Enqueue, finisher, pipeline, data
    <3> QED BY <3>3, <3>4, <3>5, <3>6, <3>7, <3>9 DEF WorkerInv
  <2>DrainLock1. CASE DrainLock /\ items # <<>>
    <3>1. /\ plan # <<>> /\ Head(plan) = "drain_lock" /\ Tail(plan) \in Goes /\ Tail(plan) \in Seq(Stages)
      <4>1. At("worker", "drain_lock")
        BY <2>DrainLock1 DEF DrainLock
      <4> QED BY <4>1, <1>at, <1>P DEF Follows
    <3>2. Left("drained", Tail(plan))
      <4>1. CASE TRUE
        <5>1. Then(<<"drained">>)
          BY <2>DrainLock1, <4>1 DEF DrainLock, FinisherBusy, Busy
        <5> QED BY <2>DrainLock1, <5>1, <3>1, <4>1, <1>T, <1>V, <1>D, <1>H DEF Stages, Busy, FinisherBusy
      <4> QED BY <4>1
    <3>3. plan' \in Seq(Stages)
      BY <3>1, <3>2 DEF Stages
    <3>4. TypeOK'
      <4>1. idleWaiters' = idleWaiters + 1 /\ resumeAt' = resumeAt /\ asleep' = asleep \cup {"worker"}
        BY <2>DrainLock1 DEF DrainLock, pipeline
      <4>2. /\ idleWaiters' \in Int /\ resumeAt' \in Int
            /\ asleep' \subseteq {"worker", "finisher", "committer"}
        BY <4>1, DepthsAssumption DEF TypeOK
      <4> QED BY <2>DrainLock1, <3>3, <4>2 DEF DrainLock, TypeOK, finisher, data
    <3>5. PlanIsKnown'
      BY <3>1, <3>2, <1>D, <1>H DEF PlanIsKnown, Follows, Goes, Ends
    <3>6. JobsAreOver' /\ ReadIsClear' /\ JobsEndWithSubmission'
      BY <2>DrainLock1, <3>1, <3>2, <1>H, <1>N DEF DrainLock, JobsAreOver, ReadIsClear, JobsEndWithSubmission, WorkerInv, finisher, pipeline, data
    <3>7. plan' # <<>> => (open' <=> ~Stopping')
      BY <2>DrainLock1, <3>1, <3>2, <1>D, <1>H DEF DrainLock, WorkerInv, Stopping
    <3>8. Unqueued' <=> Unqueued
      BY <3>1, <3>2, <1>D, <1>H DEF Unqueued
    <3>9. WorkIsThere' /\ NoErrorNoFailure' /\ QueueStep
      BY <2>DrainLock1, <3>8, <1>K DEF DrainLock, finisher, pipeline, data
    <3> QED BY <3>3, <3>4, <3>5, <3>6, <3>7, <3>9 DEF WorkerInv
  <2>DrainLock2. CASE DrainLock /\ items = <<>> /\ ~failure
    <3>1. /\ plan # <<>> /\ Head(plan) = "drain_lock" /\ Tail(plan) \in Goes /\ Tail(plan) \in Seq(Stages)
      <4>1. At("worker", "drain_lock")
        BY <2>DrainLock2 DEF DrainLock
      <4> QED BY <4>1, <1>at, <1>P DEF Follows
    <3>j. jobs = <<>>
      BY <2>DrainLock2, <1>at DEF DrainLock, JobsAreOver, WorkerInv
    <3>2. /\ plan' = Tail(plan) /\ jobs = <<>> /\ items = <<>>
          /\ plan' # <<>> => \E s \in {"close", "give_up", "read"} : Left(s, <<>>)
      <4>1. CASE TRUE
        <5>1. Then(<<>>)
          BY <2>DrainLock2, <4>1 DEF DrainLock, FinisherBusy, Busy
        <5> QED BY <2>DrainLock2, <5>1, <3>1, <3>j, <4>1, <1>T, <1>V, <1>D, <1>H DEF Stages, Busy, FinisherBusy
      <4> QED BY <4>1
    <3>3. plan' \in Seq(Stages)
      BY <3>1, <3>2 DEF Stages
    <3>4. TypeOK'
      BY <2>DrainLock2, <3>3 DEF DrainLock, TypeOK, finisher, pipeline, data
    <3>5. PlanIsKnown'
      BY <3>1, <3>2, <1>D, <1>H DEF PlanIsKnown, Follows, Goes, Ends
    <3>6. JobsAreOver' /\ ReadIsClear' /\ JobsEndWithSubmission'
      BY <2>DrainLock2, <3>1, <3>2, <3>j, <1>H, <1>N DEF DrainLock, JobsAreOver, ReadIsClear, JobsEndWithSubmission, WorkerInv, finisher, pipeline, data
    <3>7. plan' # <<>> => (open' <=> ~Stopping')
      BY <2>DrainLock2, <3>1, <3>2, <1>D, <1>H DEF DrainLock, WorkerInv, Stopping
    <3>8. Unqueued' <=> Unqueued
      BY <3>1, <3>2, <1>D, <1>H DEF Unqueued
    <3>9. WorkIsThere' /\ NoErrorNoFailure' /\ QueueStep
      BY <2>DrainLock2, <3>8, <1>K DEF DrainLock, finisher, pipeline, data
    <3> QED BY <3>3, <3>4, <3>5, <3>6, <3>7, <3>9 DEF WorkerInv
  <2>Drained1. CASE Drained /\ items = <<>> /\ ~failure
    <3>1. /\ plan # <<>> /\ Head(plan) = "drained" /\ Tail(plan) \in Goes /\ Tail(plan) \in Seq(Stages)
      <4>1. At("worker", "drained")
        BY <2>Drained1 DEF Drained
      <4> QED BY <4>1, <1>at, <1>P DEF Follows
    <3>j. jobs = <<>>
      BY <2>Drained1, <1>at DEF Drained, JobsAreOver, WorkerInv
    <3>2. /\ plan' = Tail(plan) /\ jobs = <<>> /\ items = <<>>
          /\ plan' # <<>> => \E s \in {"close", "give_up", "read"} : Left(s, <<>>)
      <4>1. CASE TRUE
        <5>1. Then(<<>>)
          BY <2>Drained1, <4>1 DEF Drained, FinisherBusy, Busy
        <5> QED BY <2>Drained1, <5>1, <3>1, <3>j, <4>1, <1>T, <1>V, <1>D, <1>H DEF Stages, Busy, FinisherBusy
      <4> QED BY <4>1
    <3>3. plan' \in Seq(Stages)
      BY <3>1, <3>2 DEF Stages
    <3>4. TypeOK'
      <4>1. idleWaiters' = idleWaiters - 1 /\ resumeAt' = resumeAt /\ asleep' = asleep
        BY <2>Drained1 DEF Drained, pipeline
      <4>2. /\ idleWaiters' \in Int /\ resumeAt' \in Int
            /\ asleep' \subseteq {"worker", "finisher", "committer"}
        BY <4>1, DepthsAssumption DEF TypeOK
      <4> QED BY <2>Drained1, <3>3, <4>2 DEF Drained, TypeOK, finisher, data
    <3>5. PlanIsKnown'
      BY <3>1, <3>2, <1>D, <1>H DEF PlanIsKnown, Follows, Goes, Ends
    <3>6. JobsAreOver' /\ ReadIsClear' /\ JobsEndWithSubmission'
      BY <2>Drained1, <3>1, <3>2, <3>j, <1>H, <1>N DEF Drained, JobsAreOver, ReadIsClear, JobsEndWithSubmission, WorkerInv, finisher, pipeline, data
    <3>7. plan' # <<>> => (open' <=> ~Stopping')
      BY <2>Drained1, <3>1, <3>2, <1>D, <1>H DEF Drained, WorkerInv, Stopping
    <3>8. Unqueued' <=> Unqueued
      BY <3>1, <3>2, <1>D, <1>H DEF Unqueued
    <3>9. WorkIsThere' /\ NoErrorNoFailure' /\ QueueStep
      BY <2>Drained1, <3>8, <1>K DEF Drained, finisher, pipeline, data
    <3> QED BY <3>3, <3>4, <3>5, <3>6, <3>7, <3>9 DEF WorkerInv
  <2>Close. CASE Close
    <3>1. /\ plan # <<>> /\ Head(plan) = "close" /\ Tail(plan) \in {<<>>} /\ Tail(plan) \in Seq(Stages)
      <4>1. At("worker", "close")
        BY <2>Close DEF Close
      <4> QED BY <4>1, <1>at, <1>P DEF Follows
    <3>2. plan' = <<>>
      <4>1. CASE TRUE
        <5>1. Then(<<>>)
          BY <2>Close, <4>1 DEF Close, FinisherBusy, Busy
        <5> QED BY <2>Close, <5>1, <3>1, <4>1, <1>T, <1>V, <1>D, <1>H DEF Stages, Busy, FinisherBusy
      <4> QED BY <4>1
    <3>3. plan' \in Seq(Stages)
      BY <3>1, <3>2 DEF Stages
    <3>4. TypeOK'
      BY <2>Close, <3>3 DEF Close, TypeOK, finisher, pipeline, data
    <3>5. PlanIsKnown'
      BY <3>1, <3>2, <1>D, <1>H DEF PlanIsKnown, Follows, Goes, Ends
    <3>6. JobsAreOver' /\ ReadIsClear' /\ JobsEndWithSubmission'
      BY <2>Close, <3>1, <3>2, <1>H, <1>N DEF Close, JobsAreOver, ReadIsClear, JobsEndWithSubmission, WorkerInv, finisher, pipeline, data
    <3>7. plan' # <<>> => (open' <=> ~Stopping')
      BY <2>Close, <3>1, <3>2, <1>D, <1>H DEF Close, WorkerInv, Stopping
    <3>8. Unqueued' <=> Unqueued
      BY <3>1, <3>2, <1>D, <1>H DEF Unqueued
    <3>9. WorkIsThere' /\ NoErrorNoFailure' /\ QueueStep
      BY <2>Close, <3>8, <1>K DEF Close, finisher, pipeline, data
    <3> QED BY <3>3, <3>4, <3>5, <3>6, <3>7, <3>9 DEF WorkerInv
  <2>GiveUp. CASE GiveUp
    <3>1. /\ plan # <<>> /\ Head(plan) = "give_up" /\ Tail(plan) \in {<<>>} /\ Tail(plan) \in Seq(Stages)
      <4>1. At("worker", "give_up")
        BY <2>GiveUp DEF GiveUp
      <4> QED BY <4>1, <1>at, <1>P DEF Follows
    <3>2. plan' = <<>>
      <4>1. CASE TRUE
        <5>1. Then(<<>>)
          BY <2>GiveUp, <4>1 DEF GiveUp, FinisherBusy, Busy
        <5> QED BY <2>GiveUp, <5>1, <3>1, <4>1, <1>T, <1>V, <1>D, <1>H DEF Stages, Busy, FinisherBusy
      <4> QED BY <4>1
    <3>3. plan' \in Seq(Stages)
      BY <3>1, <3>2 DEF Stages
    <3>4. TypeOK'
      BY <2>GiveUp, <3>3 DEF GiveUp, TypeOK, finisher, pipeline, data
    <3>5. PlanIsKnown'
      BY <3>1, <3>2, <1>D, <1>H DEF PlanIsKnown, Follows, Goes, Ends
    <3>6. JobsAreOver' /\ ReadIsClear' /\ JobsEndWithSubmission'
      BY <2>GiveUp, <3>1, <3>2, <1>H, <1>N DEF GiveUp, JobsAreOver, ReadIsClear, JobsEndWithSubmission, WorkerInv, finisher, pipeline, data
    <3>7. plan' # <<>> => (open' <=> ~Stopping')
      BY <2>GiveUp, <3>1, <3>2, <1>D, <1>H DEF GiveUp, WorkerInv, Stopping
    <3>8. Unqueued' <=> Unqueued
      BY <3>1, <3>2, <1>D, <1>H DEF Unqueued
    <3>9. WorkIsThere' /\ NoErrorNoFailure' /\ QueueStep
      BY <2>GiveUp, <3>8, <1>K DEF GiveUp, finisher, pipeline, data
    <3> QED BY <3>3, <3>4, <3>5, <3>6, <3>7, <3>9 DEF WorkerInv
  <2>Stop. CASE Stop
    <3>1. /\ plan # <<>> /\ Head(plan) = "stop" /\ Tail(plan) \in {<<"join">>} /\ Tail(plan) \in Seq(Stages)
      <4>1. At("worker", "stop")
        BY <2>Stop DEF Stop
      <4> QED BY <4>1, <1>at, <1>P DEF Follows
    <3>2. Left("join", <<>>)
      <4>1. CASE TRUE
        <5>1. Then(<<>>)
          BY <2>Stop, <4>1 DEF Stop, FinisherBusy, Busy
        <5> QED BY <2>Stop, <5>1, <3>1, <4>1, <1>T, <1>V, <1>D, <1>H DEF Stages, Busy, FinisherBusy
      <4> QED BY <4>1
    <3>3. plan' \in Seq(Stages)
      BY <3>1, <3>2 DEF Stages
    <3>4. TypeOK'
      BY <2>Stop, <3>3 DEF Stop, TypeOK, finisher, pipeline, data
    <3>5. PlanIsKnown'
      BY <3>1, <3>2, <1>D, <1>H DEF PlanIsKnown, Follows, Goes, Ends
    <3>6. JobsAreOver' /\ ReadIsClear' /\ JobsEndWithSubmission'
      BY <2>Stop, <3>1, <3>2, <1>H, <1>N DEF Stop, JobsAreOver, ReadIsClear, JobsEndWithSubmission, WorkerInv, finisher, pipeline, data
    <3>7. plan' # <<>> => (open' <=> ~Stopping')
      BY <2>Stop, <3>1, <3>2, <1>D, <1>H DEF Stop, WorkerInv, Stopping
    <3>8. Unqueued' <=> Unqueued
      BY <3>1, <3>2, <1>D, <1>H DEF Unqueued
    <3>9. WorkIsThere' /\ NoErrorNoFailure' /\ QueueStep
      BY <2>Stop, <3>8, <1>K DEF Stop, finisher, pipeline, data
    <3> QED BY <3>3, <3>4, <3>5, <3>6, <3>7, <3>9 DEF WorkerInv
  <2>Join. CASE Join
    <3>1. /\ plan # <<>> /\ Head(plan) = "join" /\ Tail(plan) \in {<<>>} /\ Tail(plan) \in Seq(Stages)
      <4>1. At("worker", "join")
        BY <2>Join DEF Join
      <4> QED BY <4>1, <1>at, <1>P DEF Follows
    <3>2. plan' = <<>>
      <4>1. CASE TRUE
        <5>1. Then(<<>>)
          BY <2>Join, <4>1 DEF Join, FinisherBusy, Busy
        <5> QED BY <2>Join, <5>1, <3>1, <4>1, <1>T, <1>V, <1>D, <1>H DEF Stages, Busy, FinisherBusy
      <4> QED BY <4>1
    <3>3. plan' \in Seq(Stages)
      BY <3>1, <3>2 DEF Stages
    <3>4. TypeOK'
      BY <2>Join, <3>3 DEF Join, TypeOK, finisher, pipeline, data
    <3>5. PlanIsKnown'
      BY <3>1, <3>2, <1>D, <1>H DEF PlanIsKnown, Follows, Goes, Ends
    <3>6. JobsAreOver' /\ ReadIsClear' /\ JobsEndWithSubmission'
      BY <2>Join, <3>1, <3>2, <1>H, <1>N DEF Join, JobsAreOver, ReadIsClear, JobsEndWithSubmission, WorkerInv, finisher, pipeline, data
    <3>7. plan' # <<>> => (open' <=> ~Stopping')
      BY <2>Join, <3>1, <3>2, <1>D, <1>H DEF Join, WorkerInv, Stopping
    <3>8. Unqueued' <=> Unqueued
      BY <3>1, <3>2, <1>D, <1>H DEF Unqueued
    <3>9. WorkIsThere' /\ NoErrorNoFailure' /\ QueueStep
      BY <2>Join, <3>8, <1>K DEF Join, finisher, pipeline, data
    <3> QED BY <3>3, <3>4, <3>5, <3>6, <3>7, <3>9 DEF WorkerInv
  <2>AskJobs1. CASE AskJobs /\ ~HoldsLabel(jobs, packet.to, packet.want)
    <3>1. /\ plan # <<>> /\ Head(plan) = "ask" /\ Tail(plan) \in {<<"overlap", "read">>} /\ Tail(plan) \in Seq(Stages)
      <4>1. At("worker", "ask")
        BY <2>AskJobs1 DEF AskJobs
      <4> QED BY <4>1, <1>at, <1>P DEF Follows
    <3>2. \/ ~Holds(jobs, packet.to) /\ Left("ask_items", Tail(plan))
          \/ Left("overlap", <<"read">>)
      <4>1. CASE Busy /\ ~Holds(jobs, packet.to)
        <5>1. Then(<<"ask_items">>)
          BY <2>AskJobs1, <4>1 DEF AskJobs, FinisherBusy, Busy
        <5> QED BY <2>AskJobs1, <5>1, <3>1, <4>1, <1>T, <1>V, <1>D, <1>H DEF Stages, Busy, FinisherBusy
      <4>2. CASE ~(Busy /\ ~Holds(jobs, packet.to))
        <5>1. Then(<<>>)
          BY <2>AskJobs1, <4>2 DEF AskJobs, FinisherBusy, Busy
        <5> QED BY <2>AskJobs1, <5>1, <3>1, <4>2, <1>T, <1>V, <1>D, <1>H DEF Stages, Busy, FinisherBusy
      <4> QED BY <4>1, <4>2
    <3>3. plan' \in Seq(Stages)
      BY <3>1, <3>2 DEF Stages
    <3>4. TypeOK'
      BY <2>AskJobs1, <3>3 DEF AskJobs, TypeOK, finisher, pipeline, data
    <3>5. PlanIsKnown'
      BY <3>1, <3>2, <1>D, <1>H DEF PlanIsKnown, Follows, Goes, Ends
    <3>6. JobsAreOver' /\ ReadIsClear' /\ JobsEndWithSubmission'
      BY <2>AskJobs1, <3>1, <3>2, <1>H, <1>N DEF AskJobs, JobsAreOver, ReadIsClear, JobsEndWithSubmission, WorkerInv, finisher, pipeline, data
    <3>7. plan' # <<>> => (open' <=> ~Stopping')
      BY <2>AskJobs1, <3>1, <3>2, <1>D, <1>H DEF AskJobs, WorkerInv, Stopping
    <3>8. Unqueued' <=> Unqueued
      BY <3>1, <3>2, <1>D, <1>H DEF Unqueued
    <3>9. WorkIsThere' /\ NoErrorNoFailure' /\ QueueStep
      BY <2>AskJobs1, <3>8, <1>K DEF AskJobs, finisher, pipeline, data
    <3> QED BY <3>3, <3>4, <3>5, <3>6, <3>7, <3>9 DEF WorkerInv
  <2>AskItems1. CASE AskItems /\ ~HoldsLabel(items, packet.to, packet.want)
    <3>1. /\ plan # <<>> /\ Head(plan) = "ask_items" /\ Tail(plan) \in {<<"overlap", "read">>} /\ Tail(plan) \in Seq(Stages)
      <4>1. At("worker", "ask_items")
        BY <2>AskItems1 DEF AskItems
      <4> QED BY <4>1, <1>at, <1>P DEF Follows
    <3>2. Left("overlap", <<"read">>)
      <4>1. CASE TRUE
        <5>1. Then(<<>>)
          BY <2>AskItems1, <4>1 DEF AskItems, FinisherBusy, Busy
        <5> QED BY <2>AskItems1, <5>1, <3>1, <4>1, <1>T, <1>V, <1>D, <1>H DEF Stages, Busy, FinisherBusy
      <4> QED BY <4>1
    <3>3. plan' \in Seq(Stages)
      BY <3>1, <3>2 DEF Stages
    <3>4. TypeOK'
      BY <2>AskItems1, <3>3 DEF AskItems, TypeOK, finisher, pipeline, data
    <3>5. PlanIsKnown'
      BY <3>1, <3>2, <1>D, <1>H DEF PlanIsKnown, Follows, Goes, Ends
    <3>6. JobsAreOver' /\ ReadIsClear' /\ JobsEndWithSubmission'
      BY <2>AskItems1, <3>1, <3>2, <1>H, <1>N DEF AskItems, JobsAreOver, ReadIsClear, JobsEndWithSubmission, WorkerInv, finisher, pipeline, data
    <3>7. plan' # <<>> => (open' <=> ~Stopping')
      BY <2>AskItems1, <3>1, <3>2, <1>D, <1>H DEF AskItems, WorkerInv, Stopping
    <3>8. Unqueued' <=> Unqueued
      BY <3>1, <3>2, <1>D, <1>H DEF Unqueued
    <3>9. WorkIsThere' /\ NoErrorNoFailure' /\ QueueStep
      BY <2>AskItems1, <3>8, <1>K DEF AskItems, finisher, pipeline, data
    <3> QED BY <3>3, <3>4, <3>5, <3>6, <3>7, <3>9 DEF WorkerInv
  <2>EnqueueJob1. CASE EnqueueJob /\ ~jobFailure /\ ~(Len(jobs) < JobDepth)
    <3>1. /\ plan # <<>> /\ Head(plan) = "job" /\ Tail(plan) \in {<<>>} /\ Tail(plan) \in Seq(Stages)
      <4>1. At("worker", "job")
        BY <2>EnqueueJob1 DEF EnqueueJob
      <4> QED BY <4>1, <1>at, <1>P DEF Follows
    <3>2. Left("job_room", Tail(plan))
      <4>1. CASE TRUE
        <5>1. Then(<<"job_room">>)
          BY <2>EnqueueJob1, <4>1 DEF EnqueueJob, FinisherBusy, Busy
        <5> QED BY <2>EnqueueJob1, <5>1, <3>1, <4>1, <1>T, <1>V, <1>D, <1>H DEF Stages, Busy, FinisherBusy
      <4> QED BY <4>1
    <3>3. plan' \in Seq(Stages)
      BY <3>1, <3>2 DEF Stages
    <3>4. TypeOK'
      BY <2>EnqueueJob1, <3>3 DEF EnqueueJob, TypeOK, finisher, pipeline, data
    <3>5. PlanIsKnown'
      BY <3>1, <3>2, <1>D, <1>H DEF PlanIsKnown, Follows, Goes, Ends
    <3>6. JobsAreOver' /\ ReadIsClear' /\ JobsEndWithSubmission'
      BY <2>EnqueueJob1, <3>1, <3>2, <1>H, <1>N DEF EnqueueJob, JobsAreOver, ReadIsClear, JobsEndWithSubmission, WorkerInv, finisher, pipeline, data
    <3>7. plan' # <<>> => (open' <=> ~Stopping')
      BY <2>EnqueueJob1, <3>1, <3>2, <1>D, <1>H DEF EnqueueJob, WorkerInv, Stopping
    <3>8. Unqueued' <=> Unqueued
      BY <3>1, <3>2, <1>D, <1>H DEF Unqueued
    <3>9. WorkIsThere' /\ NoErrorNoFailure' /\ QueueStep
      BY <2>EnqueueJob1, <3>8, <1>K DEF EnqueueJob, finisher, pipeline, data
    <3> QED BY <3>3, <3>4, <3>5, <3>6, <3>7, <3>9 DEF WorkerInv
  <2>Push1. CASE Push("worker") /\ ~failure /\ ~(Len(items) < Depth)
    <3>1. /\ plan # <<>> /\ Head(plan) = "push" /\ Tail(plan) \in Ends /\ Tail(plan) \in Seq(Stages)
      BY <2>Push1, <1>at, <1>P DEF Push, Waits, Follows
    <3>2. Left("room", Tail(plan))
      <4>1. CASE TRUE
        <5>1. Then(<<"room">>)
          BY <2>Push1, <4>1 DEF Push, Waits, FinisherBusy, Busy
        <5> QED BY <2>Push1, <5>1, <3>1, <4>1, <1>T, <1>V, <1>D, <1>H DEF Stages, Busy, FinisherBusy
      <4> QED BY <4>1
    <3>3. plan' \in Seq(Stages)
      BY <3>1, <3>2 DEF Stages
    <3>4. TypeOK'
      <4>1. idleWaiters' = idleWaiters + 1 /\ resumeAt' = Depth - 1 /\ asleep' = asleep \cup {"worker"}
        BY <2>Push1 DEF Push, Waits, pipeline
      <4>2. /\ idleWaiters' \in Int /\ resumeAt' \in Int
            /\ asleep' \subseteq {"worker", "finisher", "committer"}
        BY <4>1, DepthsAssumption DEF TypeOK
      <4> QED BY <2>Push1, <3>3, <4>2 DEF Push, Waits, TypeOK, finisher, data
    <3>5. PlanIsKnown'
      BY <3>1, <3>2, <1>D, <1>H DEF PlanIsKnown, Follows, Goes, Ends
    <3>6. JobsAreOver' /\ ReadIsClear' /\ JobsEndWithSubmission'
      BY <2>Push1, <3>1, <3>2, <1>H, <1>N DEF Push, Waits, JobsAreOver, ReadIsClear, JobsEndWithSubmission, WorkerInv, finisher, pipeline, data
    <3>7. plan' # <<>> => (open' <=> ~Stopping')
      BY <2>Push1, <3>1, <3>2, <1>D, <1>H DEF Push, Waits, WorkerInv, Stopping
    <3>8. Unqueued' <=> Unqueued
      BY <3>1, <3>2, <1>D, <1>H DEF Unqueued
    <3>9. WorkIsThere' /\ NoErrorNoFailure' /\ QueueStep
      BY <2>Push1, <3>8, <1>K DEF Push, Waits, finisher, pipeline, data
    <3> QED BY <3>3, <3>4, <3>5, <3>6, <3>7, <3>9 DEF WorkerInv
  <2>DrainJobs1. CASE DrainJobs /\ ~jobFailure
    <3>1. /\ plan # <<>> /\ Head(plan) = "jobs_drain" /\ Tail(plan) \in Seq(Stages)
      BY <2>DrainJobs1, <1>at, <1>P DEF DrainJobs, Follows
    <3>j. jobs = <<>>
      BY <2>DrainJobs1, <1>at DEF DrainJobs, JobsAreOver, WorkerInv
    <3>2. \/ Tail(plan) = <<"enqueue", "close">> /\ Left("enqueue", <<"close">>)
          \/ Tail(plan) = <<"drain", "close">> /\ Left("drain", <<"close">>)
          \/ Tail(plan) = <<"stop", "join">> /\ Left("stop", <<"join">>)
          \/ Tail(plan) = <<"ask", "overlap", "read">> /\ Left("ask", <<"overlap", "read">>)
          \/ Tail(plan) = <<"overlap", "read">> /\ Left("overlap", <<"read">>)
          \/ Tail(plan) = <<"overlap">> /\ Left("overlap", <<>>)
          \/ \E s \in Ends : Tail(plan) = <<"push">> \o s /\ Left("push", s)
          \/ \E s \in Goes : Tail(plan) = <<"drain_items">> \o s /\ Left("drain_items", s)
      <4>1. plan' = Tail(plan)
        BY <2>DrainJobs1, <3>1, <1>T DEF DrainJobs
      <4>2. Follows("jobs_drain", Tail(plan))
        BY <3>1 DEF WorkerInv, PlanIsKnown
      <4>3. CASE \E s \in Ends : Tail(plan) = <<"push">> \o s
        <5>1. PICK s \in Ends : Tail(plan) = <<"push">> \o s
          BY <4>3
        <5>2. Left("push", s)
          BY <3>1, <4>1, <5>1, <1>D
        <5> QED BY <5>1, <5>2
      <4>4. CASE \E s \in Goes : Tail(plan) = <<"drain_items">> \o s
        <5>1. PICK s \in Goes : Tail(plan) = <<"drain_items">> \o s
          BY <4>4
        <5>2. Left("drain_items", s)
          BY <3>1, <4>1, <5>1, <1>D
        <5> QED BY <5>1, <5>2
      <4> QED BY <3>1, <4>1, <4>2, <4>3, <4>4, <1>V DEF Follows
    <3>3. plan' \in Seq(Stages)
      BY <3>1, <3>2 DEF Stages
    <3>4. TypeOK'
      BY <2>DrainJobs1, <3>3 DEF DrainJobs, TypeOK, finisher, pipeline, data
    <3>5. PlanIsKnown'
      BY <3>1, <3>2, <1>D, <1>H DEF PlanIsKnown, Follows, Goes, Ends
    <3>6. JobsAreOver' /\ ReadIsClear' /\ JobsEndWithSubmission'
      BY <2>DrainJobs1, <3>1, <3>2, <3>j, <1>H, <1>N DEF DrainJobs, JobsAreOver, ReadIsClear, JobsEndWithSubmission, WorkerInv, finisher, pipeline, data
    <3>7. plan' # <<>> => (open' <=> ~Stopping')
      <4>0. open' = open /\ (open <=> ~Stopping)
        BY <2>DrainJobs1, <3>1 DEF DrainJobs, WorkerInv
      <4>1. CASE \E s \in Ends : Tail(plan) = <<"push">> \o s /\ Left("push", s)
        BY <4>0, <3>1, <4>1, <1>D DEF Stopping
      <4>2. CASE \E s \in Goes : Tail(plan) = <<"drain_items">> \o s /\ Left("drain_items", s)
        BY <4>0, <3>1, <4>2, <1>D DEF Stopping
      <4>3. CASE \/ Tail(plan) = <<"enqueue", "close">> /\ Left("enqueue", <<"close">>)
                 \/ Tail(plan) = <<"drain", "close">> /\ Left("drain", <<"close">>)
                 \/ Tail(plan) = <<"stop", "join">> /\ Left("stop", <<"join">>)
                 \/ Tail(plan) = <<"ask", "overlap", "read">> /\ Left("ask", <<"overlap", "read">>)
                 \/ Tail(plan) = <<"overlap", "read">> /\ Left("overlap", <<"read">>)
                 \/ Tail(plan) = <<"overlap">> /\ Left("overlap", <<>>)
        BY <4>0, <3>1, <4>3, <1>H DEF Stopping
      <4> QED BY <3>2, <4>1, <4>2, <4>3
    <3>8. Unqueued' <=> Unqueued
      <4>1. CASE \E s \in Ends : Tail(plan) = <<"push">> \o s /\ Left("push", s)
        BY <3>1, <4>1, <1>D DEF Unqueued
      <4>2. CASE \E s \in Goes : Tail(plan) = <<"drain_items">> \o s /\ Left("drain_items", s)
        BY <3>1, <4>2, <1>D DEF Unqueued
      <4>3. CASE \/ Tail(plan) = <<"enqueue", "close">> /\ Left("enqueue", <<"close">>)
                 \/ Tail(plan) = <<"drain", "close">> /\ Left("drain", <<"close">>)
                 \/ Tail(plan) = <<"stop", "join">> /\ Left("stop", <<"join">>)
                 \/ Tail(plan) = <<"ask", "overlap", "read">> /\ Left("ask", <<"overlap", "read">>)
                 \/ Tail(plan) = <<"overlap", "read">> /\ Left("overlap", <<"read">>)
                 \/ Tail(plan) = <<"overlap">> /\ Left("overlap", <<>>)
        BY <3>1, <4>3, <1>H DEF Unqueued
      <4> QED BY <3>2, <4>1, <4>2, <4>3
    <3>9. WorkIsThere' /\ NoErrorNoFailure' /\ QueueStep
      BY <2>DrainJobs1, <3>8, <1>K DEF DrainJobs, finisher, pipeline, data
    <3> QED BY <3>3, <3>4, <3>5, <3>6, <3>7, <3>9 DEF WorkerInv
  <2>EnqueueJob2. CASE EnqueueJob /\ jobFailure
    <3>1. Throw /\ plan # <<>> /\ Head(plan) = "job"
      BY <2>EnqueueJob2, <1>at DEF EnqueueJob
    <3>2. errors # 0
      BY <2>EnqueueJob2 DEF NoErrorNoFailure
    <3>4. UNCHANGED <<jobs, items, memory, latest, written, committed, packet, errors, pc, answer, open>>
      BY <2>EnqueueJob2 DEF EnqueueJob, finisher, pipeline, data
    <3>5. plan' \in Seq(Stages) /\ WorkerInv' /\ ~Unqueued'
      BY <3>1, <3>4, <1>F
    <3>6. TypeOK'
      BY <2>EnqueueJob2, <3>5 DEF EnqueueJob, TypeOK, finisher, pipeline, data
    <3>7. WorkIsThere' /\ NoErrorNoFailure' /\ QueueStep
      BY <2>EnqueueJob2, <3>2, <3>4, <3>5, <1>K DEF EnqueueJob, finisher, pipeline
    <3> QED BY <3>5, <3>6, <3>7
  <2>DrainJobs2. CASE DrainJobs /\ jobFailure
    <3>1. Throw /\ plan # <<>> /\ Head(plan) = "jobs_drain"
      BY <2>DrainJobs2, <1>at DEF DrainJobs
    <3>2. errors # 0
      BY <2>DrainJobs2 DEF NoErrorNoFailure
    <3>3. jobs = <<>>
      BY <2>DrainJobs2, <3>1 DEF DrainJobs, JobsAreOver, WorkerInv
    <3>4. UNCHANGED <<jobs, items, memory, latest, written, committed, packet, errors, pc, answer, open>>
      BY <2>DrainJobs2 DEF DrainJobs, finisher, pipeline, data
    <3>5. plan' \in Seq(Stages) /\ WorkerInv' /\ ~Unqueued'
      BY <3>1, <3>3, <3>4, <1>F
    <3>6. TypeOK'
      BY <2>DrainJobs2, <3>5 DEF DrainJobs, TypeOK, finisher, pipeline, data
    <3>7. WorkIsThere' /\ NoErrorNoFailure' /\ QueueStep
      BY <2>DrainJobs2, <3>2, <3>4, <3>5, <1>K DEF DrainJobs, finisher, pipeline
    <3> QED BY <3>5, <3>6, <3>7
  <2>DrainLock3. CASE DrainLock /\ items = <<>> /\ failure
    <3>1. Throw /\ plan # <<>> /\ Head(plan) = "drain_lock"
      BY <2>DrainLock3, <1>at DEF DrainLock
    <3>2. errors # 0
      BY <2>DrainLock3 DEF NoErrorNoFailure
    <3>3. jobs = <<>>
      BY <2>DrainLock3, <3>1 DEF DrainLock, JobsAreOver, WorkerInv
    <3>4. UNCHANGED <<jobs, items, memory, latest, written, committed, packet, errors, pc, answer, open>>
      BY <2>DrainLock3 DEF DrainLock, finisher, pipeline, data
    <3>5. plan' \in Seq(Stages) /\ WorkerInv' /\ ~Unqueued'
      BY <3>1, <3>3, <3>4, <1>F
    <3>6. TypeOK'
      BY <2>DrainLock3, <3>5 DEF DrainLock, TypeOK, finisher, pipeline, data
    <3>7. WorkIsThere' /\ NoErrorNoFailure' /\ QueueStep
      BY <2>DrainLock3, <3>2, <3>4, <3>5, <1>K DEF DrainLock, finisher, pipeline
    <3> QED BY <3>5, <3>6, <3>7
  <2>Drained2. CASE Drained /\ failure
    <3>1. Throw /\ plan # <<>> /\ Head(plan) = "drained"
      BY <2>Drained2, <1>at DEF Drained
    <3>2. errors # 0
      BY <2>Drained2 DEF NoErrorNoFailure
    <3>3. jobs = <<>>
      BY <2>Drained2, <3>1 DEF Drained, JobsAreOver, WorkerInv
    <3>4. UNCHANGED <<jobs, items, memory, latest, written, committed, packet, errors, pc, answer, open>>
      BY <2>Drained2 DEF Drained, finisher, pipeline, data
    <3>5. plan' \in Seq(Stages) /\ WorkerInv' /\ ~Unqueued'
      BY <3>1, <3>3, <3>4, <1>F
    <3>6. TypeOK'
      <4>1. idleWaiters' = idleWaiters - 1 /\ resumeAt' = resumeAt /\ asleep' = asleep
        BY <2>Drained2 DEF Drained, pipeline
      <4>2. idleWaiters' \in Int /\ resumeAt' \in Int
        BY <4>1 DEF TypeOK
      <4> QED BY <2>Drained2, <3>5, <4>1, <4>2 DEF Drained, TypeOK, finisher, data
    <3>7. WorkIsThere' /\ NoErrorNoFailure' /\ QueueStep
      BY <2>Drained2, <3>2, <3>4, <3>5, <1>K DEF Drained, finisher, pipeline
    <3> QED BY <3>5, <3>6, <3>7
  <2>Push2. CASE Push("worker") /\ failure
    <3>1. Throw /\ plan # <<>> /\ Head(plan) = "push"
      BY <2>Push2, <1>at DEF Push, Thrown
    <3>2. errors # 0
      BY <2>Push2 DEF NoErrorNoFailure
    <3>3. jobs = <<>>
      BY <2>Push2, <3>1 DEF Push, Thrown, JobsAreOver, WorkerInv
    <3>4. UNCHANGED <<jobs, items, memory, latest, written, committed, packet, errors, pc, answer, open>>
      BY <2>Push2 DEF Push, Thrown, finisher, pipeline, data
    <3>5. plan' \in Seq(Stages) /\ WorkerInv' /\ ~Unqueued'
      BY <3>1, <3>3, <3>4, <1>F
    <3>6. TypeOK'
      BY <2>Push2, <3>5 DEF Push, Thrown, TypeOK, finisher, pipeline, data
    <3>7. WorkIsThere' /\ NoErrorNoFailure' /\ QueueStep
      BY <2>Push2, <3>2, <3>4, <3>5, <1>K DEF Push, Thrown, finisher, pipeline
    <3> QED BY <3>5, <3>6, <3>7
  <2>Room2. CASE Room("worker") /\ failure
    <3>1. Throw /\ plan # <<>> /\ Head(plan) = "room"
      BY <2>Room2, <1>at DEF Room, Thrown
    <3>2. errors # 0
      BY <2>Room2 DEF NoErrorNoFailure
    <3>3. jobs = <<>>
      BY <2>Room2, <3>1 DEF Room, Thrown, JobsAreOver, WorkerInv
    <3>4. UNCHANGED <<jobs, items, memory, latest, written, committed, packet, errors, pc, answer, open>>
      BY <2>Room2 DEF Room, Thrown, finisher, pipeline, data
    <3>5. plan' \in Seq(Stages) /\ WorkerInv' /\ ~Unqueued'
      BY <3>1, <3>3, <3>4, <1>F
    <3>6. TypeOK'
      <4>1. idleWaiters' = idleWaiters - 1 /\ resumeAt' = 0 /\ asleep' = asleep
        BY <2>Room2 DEF Room, Thrown, pipeline
      <4>2. idleWaiters' \in Int /\ resumeAt' \in Int
        BY <4>1 DEF TypeOK
      <4> QED BY <2>Room2, <3>5, <4>1, <4>2 DEF Room, Thrown, TypeOK, finisher, data
    <3>7. WorkIsThere' /\ NoErrorNoFailure' /\ QueueStep
      BY <2>Room2, <3>2, <3>4, <3>5, <1>K DEF Room, Thrown, finisher, pipeline
    <3> QED BY <3>5, <3>6, <3>7
  <2>EnqueueJob3. CASE EnqueueJob /\ ~jobFailure /\ Len(jobs) < JobDepth
    <3>1. plan # <<>> /\ Head(plan) = "job" /\ Tail(plan) = <<>>
      BY <2>EnqueueJob3, <1>at DEF EnqueueJob, Follows
    <3>2. /\ jobs' = Append(jobs, Item(packet)) /\ plan' = Tail(plan)
          /\ UNCHANGED <<items, memory, latest, written, committed, errors, pc, answer, open, packet,
                         jobFailure, failure, stopped>>
      BY <2>EnqueueJob3, <3>1, <1>T DEF EnqueueJob, JobQueued, pipeline, data
    <3>3. Item(packet) \in Items
      BY DEF TypeOK, Item, Items
    <3>4. jobs' \in Seq(Items) /\ jobs' # <<>>
      BY <3>2, <3>3, <1>A DEF TypeOK
    <3>5. TypeOK'
      <4>1. plan' \in Seq(Stages) /\ asleep' \subseteq {"worker", "finisher", "committer"}
        BY <2>EnqueueJob3, <3>1, <3>2, <1>P DEF EnqueueJob, JobQueued, TypeOK
      <4> QED BY <2>EnqueueJob3, <3>4, <4>1 DEF EnqueueJob, JobQueued, TypeOK, pipeline, data
    <3>6. open
      BY <3>1, <1>H DEF WorkerInv, Stopping
    <3>7. WorkerInv'
      BY <3>1, <3>2, <3>6 DEF WorkerInv, PlanIsKnown, JobsAreOver, ReadIsClear, JobsEndWithSubmission
    <3>8. WorkIsThere' /\ NoErrorNoFailure'
      BY <3>2, <3>4 DEF WorkIsThere, NoErrorNoFailure
    <3>9. JobJoins
      BY <3>1, <3>2 DEF JobJoins, Unqueued
    <3> QED BY <3>5, <3>7, <3>8, <3>9 DEF QueueStep
  <2>JobRoom. CASE JobRoom
    <3>1. plan # <<>> /\ Head(plan) = "job_room" /\ Tail(plan) = <<>>
      BY <2>JobRoom, <1>at DEF JobRoom, Follows
    <3>2. /\ jobs' = Append(jobs, Item(packet)) /\ plan' = Tail(plan)
          /\ UNCHANGED <<items, memory, latest, written, committed, errors, pc, answer, open, packet,
                         jobFailure, failure, stopped>>
      BY <2>JobRoom, <3>1, <1>T DEF JobRoom, JobQueued, pipeline, data
    <3>3. Item(packet) \in Items
      BY DEF TypeOK, Item, Items
    <3>4. jobs' \in Seq(Items) /\ jobs' # <<>>
      BY <3>2, <3>3, <1>A DEF TypeOK
    <3>5. TypeOK'
      <4>1. plan' \in Seq(Stages) /\ asleep' \subseteq {"worker", "finisher", "committer"}
        BY <2>JobRoom, <3>1, <3>2, <1>P DEF JobRoom, JobQueued, TypeOK
      <4> QED BY <2>JobRoom, <3>4, <4>1 DEF JobRoom, JobQueued, TypeOK, pipeline, data
    <3>6. open
      BY <3>1, <1>H DEF WorkerInv, Stopping
    <3>7. WorkerInv'
      BY <3>1, <3>2, <3>6 DEF WorkerInv, PlanIsKnown, JobsAreOver, ReadIsClear, JobsEndWithSubmission
    <3>8. WorkIsThere' /\ NoErrorNoFailure'
      BY <3>2, <3>4 DEF WorkIsThere, NoErrorNoFailure
    <3>9. JobJoins
      BY <3>1, <3>2 DEF JobJoins, Unqueued
    <3> QED BY <3>5, <3>7, <3>8, <3>9 DEF QueueStep
  <2>Push3. CASE Push("worker") /\ ~failure /\ Len(items) < Depth
    <3>1. plan # <<>> /\ Head(plan) = "push" /\ Tail(plan) \in Ends /\ jobs = <<>>
      BY <2>Push3, <1>at DEF Push, Follows, WorkerInv, JobsAreOver
    <3>2. /\ items' = Append(items, Item(packet)) /\ plan' = Tail(plan)
          /\ UNCHANGED <<jobs, memory, latest, written, committed, errors, pc, answer, open, packet,
                         jobFailure, failure, stopped>>
      BY <2>Push3, <3>1, <1>T DEF Push, ItemQueued, Returned, finisher, data
    <3>3. Item(packet) \in Items
      BY DEF TypeOK, Item, Items
    <3>4. items' \in Seq(Items) /\ items' # <<>>
      BY <3>2, <3>3, <1>A DEF TypeOK
    <3>5. TypeOK'
      <4>1. asleep' \subseteq {"worker", "finisher", "committer"}
        BY <2>Push3 DEF Push, ItemQueued, TypeOK
      <4>2. idleWaiters' \in Int /\ resumeAt' \in Int
        BY <2>Push3 DEF Push, TypeOK
      <4>3. plan' \in Seq(Stages)
        BY <3>1, <3>2, <1>P
      <4> QED BY <2>Push3, <3>2, <3>4, <4>1, <4>2, <4>3 DEF Push, TypeOK, finisher
    <3>6. plan' # <<>> => Left("close", <<>>)
      BY <3>1, <3>2, <1>V DEF Ends
    <3>7. open
      BY <3>1, <1>D, <1>H DEF WorkerInv, Stopping
    <3>8. WorkerInv'
      BY <3>1, <3>2, <3>6, <3>7, <1>H DEF WorkerInv, PlanIsKnown, Follows, JobsAreOver, ReadIsClear, JobsEndWithSubmission, Stopping
    <3>9. WorkIsThere' /\ NoErrorNoFailure'
      BY <3>2, <3>4 DEF WorkIsThere, NoErrorNoFailure
    <3>10. ItemJoins
      BY <3>1, <3>2, <3>6 DEF ItemJoins, Unqueued
    <3> QED BY <3>5, <3>8, <3>9, <3>10 DEF QueueStep
  <2>Room3. CASE Room("worker") /\ ~failure
    <3>1. plan # <<>> /\ Head(plan) = "room" /\ Tail(plan) \in Ends /\ jobs = <<>>
      BY <2>Room3, <1>at DEF Room, Follows, WorkerInv, JobsAreOver
    <3>2. /\ items' = Append(items, Item(packet)) /\ plan' = Tail(plan)
          /\ UNCHANGED <<jobs, memory, latest, written, committed, errors, pc, answer, open, packet,
                         jobFailure, failure, stopped>>
      BY <2>Room3, <3>1, <1>T DEF Room, ItemQueued, Returned, finisher, data
    <3>3. Item(packet) \in Items
      BY DEF TypeOK, Item, Items
    <3>4. items' \in Seq(Items) /\ items' # <<>>
      BY <3>2, <3>3, <1>A DEF TypeOK
    <3>5. TypeOK'
      <4>1. asleep' \subseteq {"worker", "finisher", "committer"}
        BY <2>Room3 DEF Room, ItemQueued, TypeOK
      <4>2. idleWaiters' \in Int /\ resumeAt' \in Int
        BY <2>Room3 DEF Room, TypeOK
      <4>3. plan' \in Seq(Stages)
        BY <3>1, <3>2, <1>P
      <4> QED BY <2>Room3, <3>2, <3>4, <4>1, <4>2, <4>3 DEF Room, TypeOK, finisher
    <3>6. plan' # <<>> => Left("close", <<>>)
      BY <3>1, <3>2, <1>V DEF Ends
    <3>7. open
      BY <3>1, <1>D, <1>H DEF WorkerInv, Stopping
    <3>8. WorkerInv'
      BY <3>1, <3>2, <3>6, <3>7, <1>H DEF WorkerInv, PlanIsKnown, Follows, JobsAreOver, ReadIsClear, JobsEndWithSubmission, Stopping
    <3>9. WorkIsThere' /\ NoErrorNoFailure'
      BY <3>2, <3>4 DEF WorkIsThere, NoErrorNoFailure
    <3>10. ItemJoins
      BY <3>1, <3>2, <3>6 DEF ItemJoins, Unqueued
    <3> QED BY <3>5, <3>8, <3>9, <3>10 DEF QueueStep
  <2>SleepAgain. CASE SleepAgain
    <3>1. UNCHANGED <<jobs, items, memory, latest, written, committed, packet, errors, pc, answer, open, plan>>
      BY <2>SleepAgain DEF SleepAgain, finisher, pipeline, data
    <3>2. WorkIsThere' /\ NoErrorNoFailure' /\ QueueStep
      BY <2>SleepAgain, <3>1, <1>K DEF SleepAgain, finisher, pipeline, Unqueued
    <3>3. TypeOK'
      BY <2>SleepAgain, <3>1 DEF SleepAgain, TypeOK, finisher, pipeline, data
    <3>4. WorkerInv'
      BY <3>1 DEF WorkerInv, PlanIsKnown, JobsAreOver, ReadIsClear, JobsEndWithSubmission, Stopping
    <3> QED BY <3>2, <3>3, <3>4
  <2>Interrupted. CASE Interrupted
    <3>1. UNCHANGED <<jobs, items, memory, latest, written, committed, packet, errors, pc, answer, open>>
      BY <2>Interrupted DEF Interrupted, finisher, pipeline, data
    <3>2. plan' \in Seq(Stages) /\ WorkerInv' /\ ~Unqueued' /\ ~Unqueued
      BY <2>Interrupted, <3>1, <1>F DEF Interrupted, Unqueued
    <3>3. WorkIsThere' /\ NoErrorNoFailure' /\ QueueStep
      BY <2>Interrupted, <3>1, <3>2, <1>K DEF Interrupted, finisher, pipeline
    <3>4. TypeOK'
      BY <2>Interrupted, <3>1, <3>2 DEF Interrupted, TypeOK, finisher, pipeline, data
    <3> QED BY <3>2, <3>3, <3>4
  <2>Open. ASSUME NEW steps \in {<<>>, <<"drain">>}, Open(steps) PROVE PlanInv' /\ QueueStep
    <3>1. /\ plan = <<>> /\ open' = TRUE /\ (plan' # <<>> => Left("drain", <<>>)) /\ plan' \in Seq(Stages)
      <4>1. <<>> \in Seq(Stages) /\ <<"drain">> \in Seq(Stages) /\ Head(<<"drain">>) = "drain" /\ Tail(<<"drain">>) = <<>>
        BY DEF Stages
      <4> QED BY <2>Open, <4>1 DEF Open
    <3>2. WorkerInv'
      BY <3>1, <1>H DEF WorkerInv, PlanIsKnown, Follows, Goes, JobsAreOver, ReadIsClear, JobsEndWithSubmission, Stopping
    <3>3. ~Unqueued /\ ~Unqueued'
      BY <3>1 DEF Unqueued
    <3>4. WorkIsThere' /\ NoErrorNoFailure' /\ QueueStep
      BY <2>Open, <3>3, <1>K DEF Open, finisher, pipeline, data
    <3>5. TypeOK'
      BY <2>Open, <3>1 DEF Open, TypeOK, finisher, pipeline, data
    <3> QED BY <3>2, <3>4, <3>5
  <2>StopDriver. CASE StopDriver
    <3>1. plan = <<>> /\ ~open /\ open' = open /\ Left("jobs_drain", <<"stop", "join">>)
      <4>1. plan = <<>> /\ ~open /\ open' = open /\ plan' = <<"jobs_drain", "stop", "join">>
        BY <2>StopDriver DEF StopDriver
      <4>2. Left("jobs_drain", <<"stop", "join">>)
        BY <4>1 DEF Stages
      <4> QED BY <4>1, <4>2
    <3>2. WorkerInv'
      BY <2>StopDriver, <3>1, <1>H DEF StopDriver, finisher, WorkerInv, PlanIsKnown, Follows, JobsAreOver, ReadIsClear, JobsEndWithSubmission, Stopping
    <3>3. ~Unqueued /\ ~Unqueued'
      BY <3>1, <1>H DEF Unqueued
    <3>4. WorkIsThere' /\ NoErrorNoFailure' /\ QueueStep
      BY <2>StopDriver, <3>3, <1>K DEF StopDriver, finisher, pipeline, data
    <3>5. TypeOK'
      BY <2>StopDriver, <3>1 DEF StopDriver, TypeOK, finisher, pipeline, data
    <3> QED BY <3>2, <3>4, <3>5
  <2>AskJobs2. CASE AskJobs /\ HoldsLabel(jobs, packet.to, packet.want)
    <3>1. plan # <<>> /\ Head(plan) = "ask" /\ Tail(plan) = <<"overlap", "read">>
      BY <2>AskJobs2, <1>at DEF AskJobs, Follows
    <3>2. /\ plan' = <<>> /\ answer' = [to |-> packet.to, value |-> packet.want]
          /\ UNCHANGED <<jobs, items, memory, latest, written, committed, errors, pc, open, packet,
                         jobFailure, failure, stopped>>
      BY <2>AskJobs2 DEF AskJobs, Passes, finisher, pipeline, data
    <3>3. open /\ ~Unqueued /\ ~Unqueued'
      BY <3>1, <3>2, <1>H DEF WorkerInv, Stopping, Unqueued, ReadIsClear
    <3>4. WorkerInv'
      BY <3>2, <3>3 DEF WorkerInv, PlanIsKnown, JobsAreOver, ReadIsClear, JobsEndWithSubmission
    <3>5. WorkIsThere' /\ NoErrorNoFailure'
      BY <3>2 DEF WorkIsThere, NoErrorNoFailure
    <3>6. Still
      BY <2>AskJobs2, <3>2, <3>3 DEF Still, Tells
    <3>7. TypeOK'
      <4>1. plan' \in Seq(Stages) /\ (answer'.to \in Places => answer'.value \in Nat)
        BY <3>2 DEF TypeOK
      <4> QED BY <2>AskJobs2, <4>1 DEF AskJobs, TypeOK, finisher, pipeline, data
    <3> QED BY <3>4, <3>5, <3>6, <3>7 DEF QueueStep
  <2>AskItems2. CASE AskItems /\ HoldsLabel(items, packet.to, packet.want)
    <3>1. plan # <<>> /\ Head(plan) = "ask_items" /\ Tail(plan) = <<"overlap", "read">>
      BY <2>AskItems2, <1>at DEF AskItems, Follows
    <3>2. /\ plan' = <<>> /\ answer' = [to |-> packet.to, value |-> packet.want]
          /\ UNCHANGED <<jobs, items, memory, latest, written, committed, errors, pc, open, packet,
                         jobFailure, failure, stopped>>
      BY <2>AskItems2 DEF AskItems, Passes, finisher, pipeline, data
    <3>3. open /\ ~Unqueued /\ ~Unqueued' /\ ~Holds(jobs, packet.to)
      BY <3>1, <3>2, <1>H DEF WorkerInv, Stopping, Unqueued, ReadIsClear
    <3>4. WorkerInv'
      BY <3>2, <3>3 DEF WorkerInv, PlanIsKnown, JobsAreOver, ReadIsClear, JobsEndWithSubmission
    <3>5. WorkIsThere' /\ NoErrorNoFailure'
      BY <3>2 DEF WorkIsThere, NoErrorNoFailure
    <3>6. Still
      BY <2>AskItems2, <3>2, <3>3 DEF Still, Tells
    <3>7. TypeOK'
      <4>1. plan' \in Seq(Stages) /\ (answer'.to \in Places => answer'.value \in Nat)
        BY <3>2 DEF TypeOK
      <4> QED BY <2>AskItems2, <4>1 DEF AskItems, TypeOK, finisher, pipeline, data
    <3> QED BY <3>4, <3>5, <3>6, <3>7 DEF QueueStep
  <2>Read. CASE Read
    <3>1. plan # <<>> /\ Head(plan) = "read" /\ Tail(plan) = <<>>
      BY <2>Read, <1>at DEF Read, Follows
    <3>2. /\ plan' = <<>> /\ answer' \in {NoAnswer, [to |-> packet.to, value |-> memory[packet.to]]}
          /\ UNCHANGED <<jobs, items, memory, latest, written, committed, errors, pc, open, packet,
                         jobFailure, failure, stopped>>
      BY <2>Read, <3>1, <1>T DEF Read, finisher, pipeline, data
    <3>3. open /\ ~Unqueued /\ ~Unqueued' /\ ~Holds(jobs, packet.to) /\ ~Holds(items, packet.to)
      BY <3>1, <3>2, <1>H DEF WorkerInv, Stopping, Unqueued, ReadIsClear
    <3>4. WorkerInv'
      BY <3>2, <3>3 DEF WorkerInv, PlanIsKnown, JobsAreOver, ReadIsClear, JobsEndWithSubmission
    <3>5. WorkIsThere' /\ NoErrorNoFailure'
      BY <3>2 DEF WorkIsThere, NoErrorNoFailure
    <3>6. Still
      <4>1. answer' = NoAnswer \/ Tells
        BY <3>2, <3>3 DEF Tells
      <4> QED BY <3>2, <3>3, <4>1 DEF Still
    <3>7. TypeOK'
      <4>1. plan' \in Seq(Stages) /\ (answer'.to \in Places => answer'.value \in Nat)
        BY <3>2, PlacesAssumption DEF TypeOK, NoAnswer
      <4> QED BY <2>Read, <4>1 DEF Read, TypeOK, finisher, pipeline, data
    <3> QED BY <3>4, <3>5, <3>6, <3>7 DEF QueueStep
  <2>Packet. CASE Packet
    <3>1. ASSUME NEW p \in Places, Writes("draw", p, <<"job">>)
          PROVE  PlanInv' /\ QueueStep
      <4>1. /\ plan = <<>> /\ open /\ open' = open /\ plan' = <<"job">>
            /\ packet' = [kind |-> "draw", to |-> p, want |-> 0, n |-> written + 1]
            /\ written' = written + 1 /\ answer' = NoAnswer
            /\ UNCHANGED <<jobs, items, memory, committed, errors, pc, jobFailure, failure, stopped>>
        BY <3>1 DEF Writes, finisher, pipeline
      <4>2. Left("job", <<>>)
        BY <4>1 DEF Stages
      <4>3. ~Unqueued /\ Unqueued'
        BY <4>1, <4>2, <1>H DEF Unqueued
      <4>4. latest' = IF p \in Places THEN [latest EXCEPT ![p] = written + 1] ELSE latest
        BY <3>1 DEF Writes
      <4>5. packet'.n = written + 1 /\ packet'.to = p
        BY <4>1
      <4>6. Asks
        BY <4>1, <4>3, <4>4, <4>5 DEF Asks
      <4>7. WorkerInv'
        BY <4>1, <4>2, <1>H DEF WorkerInv, PlanIsKnown, Follows, Ends, JobsAreOver, ReadIsClear, JobsEndWithSubmission, Stopping
      <4>8. WorkIsThere' /\ NoErrorNoFailure'
        BY <4>1 DEF WorkIsThere, NoErrorNoFailure
      <4>9. TypeOK'
        <5>1. /\ packet' \in [kind : Kinds, to : Places \cup {Nowhere}, want : Nat, n : Nat]
              /\ latest' \in [Places -> Nat] /\ written' \in Nat
              /\ (answer'.to \in Places => answer'.value \in Nat)
          <6>1. packet' \in [kind : Kinds, to : Places \cup {Nowhere}, want : Nat, n : Nat]
            BY <4>1 DEF TypeOK, Kinds
          <6>2. latest' \in [Places -> Nat] /\ written' \in Nat
            BY <4>1, <4>4 DEF TypeOK
          <6>3. answer'.to \in Places => answer'.value \in Nat
            BY <4>1, PlacesAssumption DEF NoAnswer
          <6> QED BY <6>1, <6>2, <6>3
        <5> QED BY <3>1, <4>1, <4>2, <5>1 DEF Writes, TypeOK, finisher, pipeline
      <4> QED BY <4>6, <4>7, <4>8, <4>9 DEF QueueStep
    <3>2. ASSUME NEW p \in Places, Writes("draw", p, <<"enqueue">>)
          PROVE  PlanInv' /\ QueueStep
      <4>1. /\ plan = <<>> /\ open /\ open' = open /\ plan' = <<"enqueue">>
            /\ packet' = [kind |-> "draw", to |-> p, want |-> 0, n |-> written + 1]
            /\ written' = written + 1 /\ answer' = NoAnswer
            /\ UNCHANGED <<jobs, items, memory, committed, errors, pc, jobFailure, failure, stopped>>
        BY <3>2 DEF Writes, finisher, pipeline
      <4>2. Left("enqueue", <<>>)
        BY <4>1 DEF Stages
      <4>3. ~Unqueued /\ Unqueued'
        BY <4>1, <4>2, <1>H DEF Unqueued
      <4>4. latest' = IF p \in Places THEN [latest EXCEPT ![p] = written + 1] ELSE latest
        BY <3>2 DEF Writes
      <4>5. packet'.n = written + 1 /\ packet'.to = p
        BY <4>1
      <4>6. Asks
        BY <4>1, <4>3, <4>4, <4>5 DEF Asks
      <4>7. WorkerInv'
        BY <4>1, <4>2, <1>H DEF WorkerInv, PlanIsKnown, Follows, Ends, JobsAreOver, ReadIsClear, JobsEndWithSubmission, Stopping
      <4>8. WorkIsThere' /\ NoErrorNoFailure'
        BY <4>1 DEF WorkIsThere, NoErrorNoFailure
      <4>9. TypeOK'
        <5>1. /\ packet' \in [kind : Kinds, to : Places \cup {Nowhere}, want : Nat, n : Nat]
              /\ latest' \in [Places -> Nat] /\ written' \in Nat
              /\ (answer'.to \in Places => answer'.value \in Nat)
          <6>1. packet' \in [kind : Kinds, to : Places \cup {Nowhere}, want : Nat, n : Nat]
            BY <4>1 DEF TypeOK, Kinds
          <6>2. latest' \in [Places -> Nat] /\ written' \in Nat
            BY <4>1, <4>4 DEF TypeOK
          <6>3. answer'.to \in Places => answer'.value \in Nat
            BY <4>1, PlacesAssumption DEF NoAnswer
          <6> QED BY <6>1, <6>2, <6>3
        <5> QED BY <3>2, <4>1, <4>2, <5>1 DEF Writes, TypeOK, finisher, pipeline
      <4> QED BY <4>6, <4>7, <4>8, <4>9 DEF QueueStep
    <3>3. ASSUME NEW p \in Places, Writes("label", p, <<"job">>)
          PROVE  PlanInv' /\ QueueStep
      <4>1. /\ plan = <<>> /\ open /\ open' = open /\ plan' = <<"job">>
            /\ packet' = [kind |-> "label", to |-> p, want |-> 0, n |-> written + 1]
            /\ written' = written + 1 /\ answer' = NoAnswer
            /\ UNCHANGED <<jobs, items, memory, committed, errors, pc, jobFailure, failure, stopped>>
        BY <3>3 DEF Writes, finisher, pipeline
      <4>2. Left("job", <<>>)
        BY <4>1 DEF Stages
      <4>3. ~Unqueued /\ Unqueued'
        BY <4>1, <4>2, <1>H DEF Unqueued
      <4>4. latest' = IF p \in Places THEN [latest EXCEPT ![p] = written + 1] ELSE latest
        BY <3>3 DEF Writes
      <4>5. packet'.n = written + 1 /\ packet'.to = p
        BY <4>1
      <4>6. Asks
        BY <4>1, <4>3, <4>4, <4>5 DEF Asks
      <4>7. WorkerInv'
        BY <4>1, <4>2, <1>H DEF WorkerInv, PlanIsKnown, Follows, Ends, JobsAreOver, ReadIsClear, JobsEndWithSubmission, Stopping
      <4>8. WorkIsThere' /\ NoErrorNoFailure'
        BY <4>1 DEF WorkIsThere, NoErrorNoFailure
      <4>9. TypeOK'
        <5>1. /\ packet' \in [kind : Kinds, to : Places \cup {Nowhere}, want : Nat, n : Nat]
              /\ latest' \in [Places -> Nat] /\ written' \in Nat
              /\ (answer'.to \in Places => answer'.value \in Nat)
          <6>1. packet' \in [kind : Kinds, to : Places \cup {Nowhere}, want : Nat, n : Nat]
            BY <4>1 DEF TypeOK, Kinds
          <6>2. latest' \in [Places -> Nat] /\ written' \in Nat
            BY <4>1, <4>4 DEF TypeOK
          <6>3. answer'.to \in Places => answer'.value \in Nat
            BY <4>1, PlacesAssumption DEF NoAnswer
          <6> QED BY <6>1, <6>2, <6>3
        <5> QED BY <3>3, <4>1, <4>2, <5>1 DEF Writes, TypeOK, finisher, pipeline
      <4> QED BY <4>6, <4>7, <4>8, <4>9 DEF QueueStep
    <3>4. ASSUME NEW p \in Places, Writes("label", p, <<"enqueue">>)
          PROVE  PlanInv' /\ QueueStep
      <4>1. /\ plan = <<>> /\ open /\ open' = open /\ plan' = <<"enqueue">>
            /\ packet' = [kind |-> "label", to |-> p, want |-> 0, n |-> written + 1]
            /\ written' = written + 1 /\ answer' = NoAnswer
            /\ UNCHANGED <<jobs, items, memory, committed, errors, pc, jobFailure, failure, stopped>>
        BY <3>4 DEF Writes, finisher, pipeline
      <4>2. Left("enqueue", <<>>)
        BY <4>1 DEF Stages
      <4>3. ~Unqueued /\ Unqueued'
        BY <4>1, <4>2, <1>H DEF Unqueued
      <4>4. latest' = IF p \in Places THEN [latest EXCEPT ![p] = written + 1] ELSE latest
        BY <3>4 DEF Writes
      <4>5. packet'.n = written + 1 /\ packet'.to = p
        BY <4>1
      <4>6. Asks
        BY <4>1, <4>3, <4>4, <4>5 DEF Asks
      <4>7. WorkerInv'
        BY <4>1, <4>2, <1>H DEF WorkerInv, PlanIsKnown, Follows, Ends, JobsAreOver, ReadIsClear, JobsEndWithSubmission, Stopping
      <4>8. WorkIsThere' /\ NoErrorNoFailure'
        BY <4>1 DEF WorkIsThere, NoErrorNoFailure
      <4>9. TypeOK'
        <5>1. /\ packet' \in [kind : Kinds, to : Places \cup {Nowhere}, want : Nat, n : Nat]
              /\ latest' \in [Places -> Nat] /\ written' \in Nat
              /\ (answer'.to \in Places => answer'.value \in Nat)
          <6>1. packet' \in [kind : Kinds, to : Places \cup {Nowhere}, want : Nat, n : Nat]
            BY <4>1 DEF TypeOK, Kinds
          <6>2. latest' \in [Places -> Nat] /\ written' \in Nat
            BY <4>1, <4>4 DEF TypeOK
          <6>3. answer'.to \in Places => answer'.value \in Nat
            BY <4>1, PlacesAssumption DEF NoAnswer
          <6> QED BY <6>1, <6>2, <6>3
        <5> QED BY <3>4, <4>1, <4>2, <5>1 DEF Writes, TypeOK, finisher, pipeline
      <4> QED BY <4>6, <4>7, <4>8, <4>9 DEF QueueStep
    <3>5. ASSUME NEW p \in Places, NEW want \in Nat, Reads("wait", p, want, <<"beside", "ask", "overlap", "read">>)
          PROVE  PlanInv' /\ QueueStep
      <4>1. /\ plan = <<>> /\ open /\ open' = open /\ plan' = <<"beside", "ask", "overlap", "read">>
            /\ packet' = [kind |-> "wait", to |-> p, want |-> want, n |-> 0]
            /\ answer' = NoAnswer
            /\ UNCHANGED <<jobs, items, memory, latest, written, committed, errors, pc, jobFailure, failure, stopped>>
        BY <3>5 DEF Reads, finisher, pipeline, data
      <4>2. Left("beside", <<"ask", "overlap", "read">>)
        BY <4>1 DEF Stages
      <4>3. ~Unqueued /\ ~Unqueued'
        BY <4>1, <4>2, <1>H DEF Unqueued
      <4>6. Still
        BY <4>1, <4>3 DEF Still
      <4>7. WorkerInv'
        BY <4>1, <4>2, <1>H DEF WorkerInv, PlanIsKnown, Follows, JobsAreOver, ReadIsClear, JobsEndWithSubmission, Stopping
      <4>8. WorkIsThere' /\ NoErrorNoFailure'
        BY <4>1 DEF WorkIsThere, NoErrorNoFailure
      <4>9. TypeOK'
        <5>1. /\ packet' \in [kind : Kinds, to : Places \cup {Nowhere}, want : Nat, n : Nat]
              /\ (answer'.to \in Places => answer'.value \in Nat)
          <6>1. packet' \in [kind : Kinds, to : Places \cup {Nowhere}, want : Nat, n : Nat]
            BY <4>1 DEF Kinds
          <6>2. answer'.to \in Places => answer'.value \in Nat
            BY <4>1, PlacesAssumption DEF NoAnswer
          <6> QED BY <6>1, <6>2
        <5> QED BY <3>5, <4>1, <4>2, <5>1 DEF Reads, TypeOK, finisher, pipeline, data
      <4> QED BY <4>6, <4>7, <4>8, <4>9 DEF QueueStep
    <3>6. ASSUME NEW p \in Places, NEW want \in Nat, Reads("load", p, want, <<"beside", "overlap", "read">>)
          PROVE  PlanInv' /\ QueueStep
      <4>1. /\ plan = <<>> /\ open /\ open' = open /\ plan' = <<"beside", "overlap", "read">>
            /\ packet' = [kind |-> "load", to |-> p, want |-> want, n |-> 0]
            /\ answer' = NoAnswer
            /\ UNCHANGED <<jobs, items, memory, latest, written, committed, errors, pc, jobFailure, failure, stopped>>
        BY <3>6 DEF Reads, finisher, pipeline, data
      <4>2. Left("beside", <<"overlap", "read">>)
        BY <4>1 DEF Stages
      <4>3. ~Unqueued /\ ~Unqueued'
        BY <4>1, <4>2, <1>H DEF Unqueued
      <4>6. Still
        BY <4>1, <4>3 DEF Still
      <4>7. WorkerInv'
        BY <4>1, <4>2, <1>H DEF WorkerInv, PlanIsKnown, Follows, JobsAreOver, ReadIsClear, JobsEndWithSubmission, Stopping
      <4>8. WorkIsThere' /\ NoErrorNoFailure'
        BY <4>1 DEF WorkIsThere, NoErrorNoFailure
      <4>9. TypeOK'
        <5>1. /\ packet' \in [kind : Kinds, to : Places \cup {Nowhere}, want : Nat, n : Nat]
              /\ (answer'.to \in Places => answer'.value \in Nat)
          <6>1. packet' \in [kind : Kinds, to : Places \cup {Nowhere}, want : Nat, n : Nat]
            BY <4>1 DEF Kinds
          <6>2. answer'.to \in Places => answer'.value \in Nat
            BY <4>1, PlacesAssumption DEF NoAnswer
          <6> QED BY <6>1, <6>2
        <5> QED BY <3>6, <4>1, <4>2, <5>1 DEF Reads, TypeOK, finisher, pipeline, data
      <4> QED BY <4>6, <4>7, <4>8, <4>9 DEF QueueStep
    <3>7. ASSUME NEW want \in Nat, Reads("other", Nowhere, want, <<"beside", "overlap">>)
          PROVE  PlanInv' /\ QueueStep
      <4>1. /\ plan = <<>> /\ open /\ open' = open /\ plan' = <<"beside", "overlap">>
            /\ packet' = [kind |-> "other", to |-> Nowhere, want |-> want, n |-> 0]
            /\ answer' = NoAnswer
            /\ UNCHANGED <<jobs, items, memory, latest, written, committed, errors, pc, jobFailure, failure, stopped>>
        BY <3>7 DEF Reads, finisher, pipeline, data
      <4>2. Left("beside", <<"overlap">>)
        BY <4>1 DEF Stages
      <4>3. ~Unqueued /\ ~Unqueued'
        BY <4>1, <4>2, <1>H DEF Unqueued
      <4>6. Still
        BY <4>1, <4>3 DEF Still
      <4>7. WorkerInv'
        BY <4>1, <4>2, <1>H DEF WorkerInv, PlanIsKnown, Follows, JobsAreOver, ReadIsClear, JobsEndWithSubmission, Stopping
      <4>8. WorkIsThere' /\ NoErrorNoFailure'
        BY <4>1 DEF WorkIsThere, NoErrorNoFailure
      <4>9. TypeOK'
        <5>1. /\ packet' \in [kind : Kinds, to : Places \cup {Nowhere}, want : Nat, n : Nat]
              /\ (answer'.to \in Places => answer'.value \in Nat)
          <6>1. packet' \in [kind : Kinds, to : Places \cup {Nowhere}, want : Nat, n : Nat]
            BY <4>1 DEF Kinds
          <6>2. answer'.to \in Places => answer'.value \in Nat
            BY <4>1, PlacesAssumption DEF NoAnswer
          <6> QED BY <6>1, <6>2
        <5> QED BY <3>7, <4>1, <4>2, <5>1 DEF Reads, TypeOK, finisher, pipeline, data
      <4> QED BY <4>6, <4>7, <4>8, <4>9 DEF QueueStep
    <3>8. ASSUME Writes("completion", Nowhere, <<"jobs_drain", "enqueue", "close">>)
          PROVE  PlanInv' /\ QueueStep
      <4>1. /\ plan = <<>> /\ open /\ open' = open /\ plan' = <<"jobs_drain", "enqueue", "close">>
            /\ packet' = [kind |-> "completion", to |-> Nowhere, want |-> 0, n |-> written + 1]
            /\ written' = written + 1 /\ answer' = NoAnswer
            /\ UNCHANGED <<jobs, items, memory, committed, errors, pc, jobFailure, failure, stopped>>
        BY <3>8 DEF Writes, finisher, pipeline
      <4>2. Left("jobs_drain", <<"enqueue", "close">>)
        BY <4>1 DEF Stages
      <4>3. ~Unqueued /\ Unqueued'
        BY <4>1, <4>2, <1>H DEF Unqueued
      <4>4. latest' = IF Nowhere \in Places THEN [latest EXCEPT ![Nowhere] = written + 1] ELSE latest
        BY <3>8 DEF Writes
      <4>5. packet'.n = written + 1 /\ packet'.to = Nowhere
        BY <4>1
      <4>6. Asks
        BY <4>1, <4>3, <4>4, <4>5 DEF Asks
      <4>7. WorkerInv'
        BY <4>1, <4>2, <1>H DEF WorkerInv, PlanIsKnown, Follows, Ends, JobsAreOver, ReadIsClear, JobsEndWithSubmission, Stopping
      <4>8. WorkIsThere' /\ NoErrorNoFailure'
        BY <4>1 DEF WorkIsThere, NoErrorNoFailure
      <4>9. TypeOK'
        <5>1. /\ packet' \in [kind : Kinds, to : Places \cup {Nowhere}, want : Nat, n : Nat]
              /\ latest' \in [Places -> Nat] /\ written' \in Nat
              /\ (answer'.to \in Places => answer'.value \in Nat)
          <6>1. packet' \in [kind : Kinds, to : Places \cup {Nowhere}, want : Nat, n : Nat]
            BY <4>1 DEF TypeOK, Kinds
          <6>2. latest' \in [Places -> Nat] /\ written' \in Nat
            BY <4>1, <4>4 DEF TypeOK
          <6>3. answer'.to \in Places => answer'.value \in Nat
            BY <4>1, PlacesAssumption DEF NoAnswer
          <6> QED BY <6>1, <6>2, <6>3
        <5> QED BY <3>8, <4>1, <4>2, <5>1 DEF Writes, TypeOK, finisher, pipeline
      <4> QED BY <4>6, <4>7, <4>8, <4>9 DEF QueueStep
    <3>9. ASSUME NEW want \in Nat, Reads("end", Nowhere, want, <<"jobs_drain", "drain", "close">>)
          PROVE  PlanInv' /\ QueueStep
      <4>1. /\ plan = <<>> /\ open /\ open' = open /\ plan' = <<"jobs_drain", "drain", "close">>
            /\ packet' = [kind |-> "end", to |-> Nowhere, want |-> want, n |-> 0]
            /\ answer' = NoAnswer
            /\ UNCHANGED <<jobs, items, memory, latest, written, committed, errors, pc, jobFailure, failure, stopped>>
        BY <3>9 DEF Reads, finisher, pipeline, data
      <4>2. Left("jobs_drain", <<"drain", "close">>)
        BY <4>1 DEF Stages
      <4>3. ~Unqueued /\ ~Unqueued'
        BY <4>1, <4>2, <1>H DEF Unqueued
      <4>6. Still
        BY <4>1, <4>3 DEF Still
      <4>7. WorkerInv'
        BY <4>1, <4>2, <1>H DEF WorkerInv, PlanIsKnown, Follows, JobsAreOver, ReadIsClear, JobsEndWithSubmission, Stopping
      <4>8. WorkIsThere' /\ NoErrorNoFailure'
        BY <4>1 DEF WorkIsThere, NoErrorNoFailure
      <4>9. TypeOK'
        <5>1. /\ packet' \in [kind : Kinds, to : Places \cup {Nowhere}, want : Nat, n : Nat]
              /\ (answer'.to \in Places => answer'.value \in Nat)
          <6>1. packet' \in [kind : Kinds, to : Places \cup {Nowhere}, want : Nat, n : Nat]
            BY <4>1 DEF Kinds
          <6>2. answer'.to \in Places => answer'.value \in Nat
            BY <4>1, PlacesAssumption DEF NoAnswer
          <6> QED BY <6>1, <6>2
        <5> QED BY <3>9, <4>1, <4>2, <5>1 DEF Reads, TypeOK, finisher, pipeline, data
      <4> QED BY <4>6, <4>7, <4>8, <4>9 DEF QueueStep
    <3>10. CASE \E p \in Places : \E want \in {latest[p], memory[p]} :
                   Reads("wait", p, want, <<"beside", "ask", "overlap", "read">>)
      <4>1. \A p \in Places : latest[p] \in Nat /\ memory[p] \in Nat
        BY DEF TypeOK
      <4> QED BY <3>5, <3>10, <4>1
    <3>11. CASE \E p \in Places : Reads("load", p, 0, <<"beside", "overlap", "read">>)
      BY <3>6, <3>11
    <3>12. CASE \E p \in Places : Writes("label", p, IF FinisherBusy THEN <<"job">> ELSE <<"enqueue">>)
      <4>1. PICK p \in Places : Writes("label", p, IF FinisherBusy THEN <<"job">> ELSE <<"enqueue">>)
        BY <3>12
      <4> QED BY <3>3, <3>4, <4>1
    <3>13. CASE \E p \in Places : Writes("draw", p, <<"job">>) \/ Writes("draw", p, <<"enqueue">>)
      BY <3>1, <3>2, <3>13
    <3> QED BY <2>Packet, <3>7, <3>8, <3>9, <3>10, <3>11, <3>12, <3>13 DEF Packet
  <2>1. CASE EnqueueJob
    BY <2>1, <2>EnqueueJob1, <2>EnqueueJob2, <2>EnqueueJob3
  <2>2. CASE DrainJobs
    BY <2>2, <2>DrainJobs1, <2>DrainJobs2
  <2>3. CASE DrainLock
    BY <2>3, <2>DrainLock1, <2>DrainLock2, <2>DrainLock3
  <2>4. CASE Drained
    <3>1. items = <<>>
      BY <2>4 DEF Drained
    <3> QED BY <2>4, <3>1, <2>Drained1, <2>Drained2
  <2>5. CASE Push("worker")
    BY <2>5, <2>Push1, <2>Push2, <2>Push3
  <2>6. CASE Room("worker")
    BY <2>6, <2>Room2, <2>Room3
  <2>7. CASE AskJobs
    BY <2>7, <2>AskJobs1, <2>AskJobs2
  <2>8. CASE AskItems
    BY <2>8, <2>AskItems1, <2>AskItems2
  <2> QED
    BY <1>W, <2>Open, <2>Interrupted, <2>Packet, <2>1, <2>JobRoom, <2>2, <2>Settle, <2>SleepAgain,
       <2>Enqueue, <2>5, <2>6, <2>Drain, <2>DrainItems, <2>3, <2>4, <2>GoBeside, <2>7, <2>8,
       <2>OverlapJobs, <2>OverlapItems, <2>Read, <2>Close, <2>GiveUp, <2>StopDriver, <2>Stop, <2>Join
    DEF Worker
\* The worker's plan stays what it is while the others work.
<1>O. ASSUME UNCHANGED <<plan, packet, open>>, jobs' # <<>> => jobs # <<>>, jobs = <<>> => jobs' = <<>>,
             ~Holds(jobs, packet.to) => ~Holds(jobs', packet.to),
             ~Holds(jobs, packet.to) /\ ~Holds(items, packet.to) => ~Holds(items', packet.to)
      PROVE  WorkerInv' /\ (Unqueued' <=> Unqueued)
  <2>1. PlanIsKnown' /\ JobsAreOver' /\ JobsEndWithSubmission'
    BY <1>O DEF WorkerInv, PlanIsKnown, JobsAreOver, JobsEndWithSubmission
  <2>2. ReadIsClear'
    BY <1>O DEF WorkerInv, ReadIsClear, Holds
  <2>3. (plan' # <<>> => (open' <=> ~Stopping')) /\ (Unqueued' <=> Unqueued)
    BY <1>O DEF WorkerInv, Stopping, Unqueued
  <2> QED BY <2>1, <2>2, <2>3 DEF WorkerInv
<1>fat. \A s : At("finisher", s) => pc.finisher = s /\ "finisher" \notin asleep
  BY DEF At, Stage
<1>cat. \A s : At("committer", s) => pc.committer = s /\ "committer" \notin asleep
  BY DEF At, Stage
<1>Fi. ASSUME Finisher PROVE PlanInv' /\ QueueStep
  <2>FetchJob. CASE FetchJob
    <3>1. /\ pc.finisher = "fetch" /\ jobs # <<>>
          /\ \/ pc' = [pc EXCEPT !.finisher = "retire"] /\ jobFailure
             \/ pc' = [pc EXCEPT !.finisher = "work"]
      BY <2>FetchJob, <1>fat, <1>cat DEF FetchJob
    <3>2. UNCHANGED <<jobs, items, memory, latest, written, committed, packet, errors, answer, plan, open, jobFailure, failure, stopped>>
      BY <2>FetchJob DEF FetchJob, OthersStep, finisher, pipeline, data
    <3>3. WorkerInv' /\ (Unqueued' <=> Unqueued)
      BY <3>1, <3>2, <1>O
    <3>4. TypeOK'
      <4>1. pc' \in [{"finisher", "committer"} -> {"fetch", "work", "push", "room", "commit", "retire", "retire_failed", "gone"}]
        BY <3>1, <3>2 DEF TypeOK
      <4>2. asleep' \subseteq {"worker", "finisher", "committer"}
        BY <2>FetchJob DEF FetchJob, TypeOK
      <4> QED BY <2>FetchJob, <3>1, <3>2, <4>1, <4>2 DEF FetchJob, TypeOK, finisher, pipeline, data
    <3>5. WorkIsThere' /\ NoErrorNoFailure'
      <4>1. pc'.finisher \in {"retire", "work"} /\ pc'.committer = pc.committer
        BY <3>1 DEF TypeOK
      <4> QED BY <3>1, <3>2, <4>1 DEF WorkIsThere, NoErrorNoFailure
    <3>6. Still
      BY <3>1, <3>2, <3>3 DEF Still, Retiring, NoErrorNoFailure, TypeOK
    <3> QED BY <3>3, <3>4, <3>5, <3>6 DEF QueueStep
  <2>AwaitJob. CASE AwaitJob
    <3>1. pc.finisher = "fetch" /\ jobs = <<>>
      BY <2>AwaitJob, <1>fat, <1>cat DEF AwaitJob
    <3>2. UNCHANGED <<jobs, items, memory, latest, written, committed, packet, errors, answer, plan, open, jobFailure, failure, stopped, pc>>
      BY <2>AwaitJob DEF AwaitJob, OthersStep, finisher, pipeline, data
    <3>3. WorkerInv' /\ (Unqueued' <=> Unqueued)
      BY <3>1, <3>2, <1>O
    <3>4. TypeOK'
      <4>1. pc' \in [{"finisher", "committer"} -> {"fetch", "work", "push", "room", "commit", "retire", "retire_failed", "gone"}]
        BY <3>1, <3>2 DEF TypeOK
      <4>2. asleep' \subseteq {"worker", "finisher", "committer"}
        BY <2>AwaitJob DEF AwaitJob, TypeOK
      <4> QED BY <2>AwaitJob, <3>1, <3>2, <4>1, <4>2 DEF AwaitJob, TypeOK, finisher, pipeline, data
    <3>5. WorkIsThere' /\ NoErrorNoFailure'
      BY <2>AwaitJob, <3>1, <3>2 DEF AwaitJob, WorkIsThere, NoErrorNoFailure, TypeOK, finisher, pipeline, data
    <3>6. Still
      BY <3>1, <3>2, <3>3 DEF Still
    <3> QED BY <3>3, <3>4, <3>5, <3>6 DEF QueueStep
  <2>Work. ASSUME NEW b \in BOOLEAN, Work(b) PROVE PlanInv' /\ QueueStep
    <3>1. /\ pc.finisher = "work"
          /\ \/ errors' = errors + 1 /\ pc' = [pc EXCEPT !.finisher = "retire_failed"]
             \/ errors' = errors /\ pc' = [pc EXCEPT !.finisher = "push"]
      BY <2>Work, <1>fat, <1>cat DEF Work
    <3>2. UNCHANGED <<jobs, items, memory, latest, written, committed, packet, answer, plan, open, jobFailure, failure, stopped>>
      BY <2>Work DEF Work, OthersStep, finisher, pipeline, data
    <3>3. WorkerInv' /\ (Unqueued' <=> Unqueued)
      BY <3>1, <3>2, <1>O
    <3>4. TypeOK'
      <4>1. pc' \in [{"finisher", "committer"} -> {"fetch", "work", "push", "room", "commit", "retire", "retire_failed", "gone"}]
        BY <3>1, <3>2 DEF TypeOK
      <4>2. asleep' \subseteq {"worker", "finisher", "committer"}
        BY <2>Work DEF Work, TypeOK
      <4> QED BY <2>Work, <3>1, <3>2, <4>1, <4>2 DEF Work, TypeOK, finisher, pipeline, data
    <3>5. WorkIsThere' /\ NoErrorNoFailure'
      <4>1. errors \in Nat
        BY DEF TypeOK
      <4>2. CASE pc' = [pc EXCEPT !.finisher = "retire_failed"] /\ errors' = errors + 1
        <5>1. pc'.committer = pc.committer /\ pc'.finisher = "retire_failed"
          BY <4>2 DEF TypeOK
        <5> QED BY <3>1, <3>2, <4>1, <4>2, <5>1 DEF WorkIsThere, NoErrorNoFailure
      <4>3. CASE pc' = [pc EXCEPT !.finisher = "push"] /\ errors' = errors
        <5>1. pc'.committer = pc.committer /\ pc'.finisher = "push"
          BY <4>3 DEF TypeOK
        <5> QED BY <3>1, <3>2, <4>3, <5>1 DEF WorkIsThere, NoErrorNoFailure
      <4> QED BY <3>1, <4>2, <4>3
    <3>6. Still
      BY <3>1, <3>2, <3>3 DEF Still, Retiring, TypeOK
    <3> QED BY <3>3, <3>4, <3>5, <3>6 DEF QueueStep
  <2>RetireJob. ASSUME NEW b \in BOOLEAN, RetireJob(b) PROVE PlanInv' /\ QueueStep
    <3>1. /\ pc.finisher = (IF b THEN "retire_failed" ELSE "retire") /\ pc' = [pc EXCEPT !.finisher = "fetch"]
          /\ jobs' = Tail(jobs) /\ jobFailure' = (jobFailure \/ b)
      BY <2>RetireJob, <1>fat, <1>cat DEF RetireJob
    <3>2. UNCHANGED <<items, memory, latest, written, committed, packet, errors, answer, plan, open, failure, stopped>>
      BY <2>RetireJob DEF RetireJob, OthersStep, finisher, pipeline, data
    <3>x. jobs # <<>> /\ jobs' \in Seq(Items) /\ (~Holds(jobs, packet.to) => ~Holds(jobs', packet.to))
      <4>1. jobs # <<>>
        BY <3>1 DEF WorkIsThere
      <4> QED BY <3>1, <4>1, <1>Q DEF TypeOK
    <3>3. WorkerInv' /\ (Unqueued' <=> Unqueued)
      BY <3>1, <3>2, <3>x, <1>O
    <3>4. TypeOK'
      <4>1. pc' \in [{"finisher", "committer"} -> {"fetch", "work", "push", "room", "commit", "retire", "retire_failed", "gone"}]
        BY <3>1 DEF TypeOK
      <4>2. asleep' \subseteq {"worker", "finisher", "committer"} /\ jobFailure' \in BOOLEAN
        BY <2>RetireJob DEF RetireJob, TypeOK
      <4> QED BY <2>RetireJob, <3>1, <3>2, <3>x, <4>1, <4>2 DEF RetireJob, TypeOK, pipeline, data
    <3>5. WorkIsThere' /\ NoErrorNoFailure'
      <4>1. pc'.committer = pc.committer /\ pc'.finisher = "fetch"
        BY <3>1 DEF TypeOK
      <4> QED BY <3>1, <3>2, <4>1 DEF WorkIsThere, NoErrorNoFailure
    <3>6. JobLeaves
      BY <3>1, <3>2, <3>3, <3>x DEF JobLeaves, Retiring, OthersStep
    <3> QED BY <3>3, <3>4, <3>5, <3>6 DEF QueueStep
  <2>FPush1. ASSUME Push("finisher"), failure PROVE PlanInv' /\ QueueStep
    <3>1. /\ pc.finisher = "push" /\ pc' = [pc EXCEPT !.finisher = "retire_failed"] /\ failure' = FALSE
          /\ idleWaiters' = idleWaiters /\ resumeAt' = resumeAt
      BY <2>FPush1, <1>fat, <1>cat DEF Push, Thrown
    <3>2. UNCHANGED <<jobs, items, memory, latest, written, committed, packet, errors, answer, plan, open, jobFailure, stopped>>
      BY <2>FPush1 DEF Push, Thrown, OthersStep, finisher, pipeline, data
    <3>x. errors # 0
      BY <2>FPush1 DEF NoErrorNoFailure
    <3>3. WorkerInv' /\ (Unqueued' <=> Unqueued)
      BY <3>1, <3>2, <3>x, <1>O
    <3>4. TypeOK'
      <4>1. pc' \in [{"finisher", "committer"} -> {"fetch", "work", "push", "room", "commit", "retire", "retire_failed", "gone"}]
        BY <3>1 DEF TypeOK
      <4>2. idleWaiters' \in Int /\ resumeAt' \in Int
        BY <3>1 DEF TypeOK
      <4>3. failure' \in BOOLEAN
        BY <3>1
      <4> QED BY <2>FPush1, <3>2, <4>1, <4>2 DEF Push, Thrown, TypeOK, finisher, data
    <3>5. WorkIsThere' /\ NoErrorNoFailure'
      <4>1. pc'.committer = pc.committer /\ pc'.finisher = "retire_failed"
        BY <3>1 DEF TypeOK
      <4> QED BY <3>1, <3>2, <3>x, <4>1 DEF WorkIsThere, NoErrorNoFailure
    <3>6. Still
      BY <3>1, <3>2, <3>3, <3>x DEF Still, Retiring, TypeOK
    <3> QED BY <3>3, <3>4, <3>5, <3>6 DEF QueueStep
  <2>FRoom1. ASSUME Room("finisher"), failure PROVE PlanInv' /\ QueueStep
    <3>1. /\ pc.finisher = "room" /\ pc' = [pc EXCEPT !.finisher = "retire_failed"] /\ failure' = FALSE
          /\ idleWaiters' = idleWaiters - 1 /\ resumeAt' = 0
      BY <2>FRoom1, <1>fat, <1>cat DEF Room, Thrown
    <3>2. UNCHANGED <<jobs, items, memory, latest, written, committed, packet, errors, answer, plan, open, jobFailure, stopped>>
      BY <2>FRoom1 DEF Room, Thrown, OthersStep, finisher, pipeline, data
    <3>x. errors # 0
      BY <2>FRoom1 DEF NoErrorNoFailure
    <3>3. WorkerInv' /\ (Unqueued' <=> Unqueued)
      BY <3>1, <3>2, <3>x, <1>O
    <3>4. TypeOK'
      <4>1. pc' \in [{"finisher", "committer"} -> {"fetch", "work", "push", "room", "commit", "retire", "retire_failed", "gone"}]
        BY <3>1 DEF TypeOK
      <4>2. idleWaiters' \in Int /\ resumeAt' \in Int
        BY <3>1 DEF TypeOK
      <4>3. failure' \in BOOLEAN
        BY <3>1
      <4> QED BY <2>FRoom1, <3>2, <4>1, <4>2 DEF Room, Thrown, TypeOK, finisher, data
    <3>5. WorkIsThere' /\ NoErrorNoFailure'
      <4>1. pc'.committer = pc.committer /\ pc'.finisher = "retire_failed"
        BY <3>1 DEF TypeOK
      <4> QED BY <3>1, <3>2, <3>x, <4>1 DEF WorkIsThere, NoErrorNoFailure
    <3>6. Still
      BY <3>1, <3>2, <3>3, <3>x DEF Still, Retiring, TypeOK
    <3> QED BY <3>3, <3>4, <3>5, <3>6 DEF QueueStep
  <2>FPush2. ASSUME Push("finisher"), ~failure, ~(Len(items) < Depth) PROVE PlanInv' /\ QueueStep
    <3>1. /\ pc.finisher = "push" /\ pc' = [pc EXCEPT !.finisher = "room"]
          /\ idleWaiters' = idleWaiters + 1 /\ resumeAt' = Depth - 1 /\ asleep' = asleep \cup {"finisher"}
      BY <2>FPush2, <1>fat, <1>cat DEF Push, Waits
    <3>2. UNCHANGED <<jobs, items, memory, latest, written, committed, packet, errors, answer, plan, open, jobFailure, failure, stopped>>
      BY <2>FPush2 DEF Push, Waits, OthersStep, finisher, pipeline, data
    <3>3. WorkerInv' /\ (Unqueued' <=> Unqueued)
      BY <3>1, <3>2, <1>O
    <3>4. TypeOK'
      <4>1. pc' \in [{"finisher", "committer"} -> {"fetch", "work", "push", "room", "commit", "retire", "retire_failed", "gone"}]
        BY <3>1 DEF TypeOK
      <4>2. idleWaiters' \in Int /\ resumeAt' \in Int /\ asleep' \subseteq {"worker", "finisher", "committer"}
        BY <3>1, DepthsAssumption DEF TypeOK
      <4> QED BY <2>FPush2, <3>2, <4>1, <4>2 DEF Push, TypeOK, finisher, data
    <3>5. WorkIsThere' /\ NoErrorNoFailure'
      <4>1. pc'.committer = pc.committer /\ pc'.finisher = "room"
        BY <3>1 DEF TypeOK
      <4> QED BY <3>1, <3>2, <4>1 DEF WorkIsThere, NoErrorNoFailure
    <3>6. Still
      BY <3>1, <3>2, <3>3 DEF Still, Retiring, TypeOK
    <3> QED BY <3>3, <3>4, <3>5, <3>6 DEF QueueStep
  <2>FPush3. ASSUME Push("finisher"), ~failure, Len(items) < Depth PROVE PlanInv' /\ QueueStep
    <3>1. /\ pc.finisher = "push" /\ pc' = [pc EXCEPT !.finisher = "retire"] /\ items' = Append(items, Head(jobs))
          /\ idleWaiters' = idleWaiters /\ resumeAt' = resumeAt
      BY <2>FPush3, <1>fat, <1>cat DEF Push, ItemQueued, Returned
    <3>2. UNCHANGED <<jobs, memory, latest, written, committed, packet, errors, answer, plan, open, jobFailure, failure, stopped>>
      BY <2>FPush3 DEF Push, ItemQueued, Returned, OthersStep, finisher, pipeline, data
    <3>x. /\ items' \in Seq(Items) /\ items' # <<>>
          /\ ~Holds(jobs, packet.to) /\ ~Holds(items, packet.to) => ~Holds(items', packet.to)
      <4>1. jobs # <<>>
        BY <3>1 DEF WorkIsThere
      <4> QED BY <3>1, <4>1, <1>Q, <1>A DEF TypeOK
    <3>3. WorkerInv' /\ (Unqueued' <=> Unqueued)
      BY <3>1, <3>2, <3>x, <1>O
    <3>4. TypeOK'
      <4>1. pc' \in [{"finisher", "committer"} -> {"fetch", "work", "push", "room", "commit", "retire", "retire_failed", "gone"}]
        BY <3>1 DEF TypeOK
      <4>2. idleWaiters' \in Int /\ resumeAt' \in Int
        BY <3>1 DEF TypeOK
      <4>3. asleep' \subseteq {"worker", "finisher", "committer"}
        BY <2>FPush3 DEF Push, ItemQueued, TypeOK
      <4> QED BY <2>FPush3, <3>2, <3>x, <4>1, <4>2, <4>3 DEF Push, TypeOK, finisher, data
    <3>5. WorkIsThere' /\ NoErrorNoFailure'
      <4>1. pc'.committer = pc.committer /\ pc'.finisher = "retire"
        BY <3>1 DEF TypeOK
      <4> QED BY <3>1, <3>2, <3>x, <4>1 DEF WorkIsThere, NoErrorNoFailure
    <3>6. JobIsPushed
      BY <3>1, <3>2, <3>3, <3>x DEF JobIsPushed, OthersStep
    <3> QED BY <3>3, <3>4, <3>5, <3>6 DEF QueueStep
  <2>FRoom2. ASSUME Room("finisher"), ~failure PROVE PlanInv' /\ QueueStep
    <3>1. /\ pc.finisher = "room" /\ pc' = [pc EXCEPT !.finisher = "retire"] /\ items' = Append(items, Head(jobs))
          /\ idleWaiters' = idleWaiters - 1 /\ resumeAt' = 0
      BY <2>FRoom2, <1>fat, <1>cat DEF Room, ItemQueued, Returned
    <3>2. UNCHANGED <<jobs, memory, latest, written, committed, packet, errors, answer, plan, open, jobFailure, failure, stopped>>
      BY <2>FRoom2 DEF Room, ItemQueued, Returned, OthersStep, finisher, pipeline, data
    <3>x. /\ items' \in Seq(Items) /\ items' # <<>>
          /\ ~Holds(jobs, packet.to) /\ ~Holds(items, packet.to) => ~Holds(items', packet.to)
      <4>1. jobs # <<>>
        BY <3>1 DEF WorkIsThere
      <4> QED BY <3>1, <4>1, <1>Q, <1>A DEF TypeOK
    <3>3. WorkerInv' /\ (Unqueued' <=> Unqueued)
      BY <3>1, <3>2, <3>x, <1>O
    <3>4. TypeOK'
      <4>1. pc' \in [{"finisher", "committer"} -> {"fetch", "work", "push", "room", "commit", "retire", "retire_failed", "gone"}]
        BY <3>1 DEF TypeOK
      <4>2. idleWaiters' \in Int /\ resumeAt' \in Int
        BY <3>1 DEF TypeOK
      <4>3. asleep' \subseteq {"worker", "finisher", "committer"}
        BY <2>FRoom2 DEF Room, ItemQueued, TypeOK
      <4> QED BY <2>FRoom2, <3>2, <3>x, <4>1, <4>2, <4>3 DEF Room, TypeOK, finisher, data
    <3>5. WorkIsThere' /\ NoErrorNoFailure'
      <4>1. pc'.committer = pc.committer /\ pc'.finisher = "retire"
        BY <3>1 DEF TypeOK
      <4> QED BY <3>1, <3>2, <3>x, <4>1 DEF WorkIsThere, NoErrorNoFailure
    <3>6. JobIsPushed
      BY <3>1, <3>2, <3>3, <3>x DEF JobIsPushed, OthersStep
    <3> QED BY <3>3, <3>4, <3>5, <3>6 DEF QueueStep
  <2> QED
    BY <1>Fi, <2>FetchJob, <2>AwaitJob, <2>Work, <2>RetireJob, <2>FPush1, <2>FPush2, <2>FPush3,
       <2>FRoom1, <2>FRoom2 DEF Finisher
<1>Co. ASSUME Committer PROVE PlanInv' /\ QueueStep
  <2>FetchItem. CASE FetchItem
    <3>1. /\ pc.committer = "fetch" /\ items # <<>>
          /\ \/ pc' = [pc EXCEPT !.committer = "retire"] /\ stopped
             \/ pc' = [pc EXCEPT !.committer = "commit"]
      BY <2>FetchItem, <1>fat, <1>cat DEF FetchItem
    <3>2. UNCHANGED <<jobs, items, memory, latest, written, committed, packet, errors, answer, plan, open, jobFailure, failure, stopped>>
      BY <2>FetchItem DEF FetchItem, OthersStep, finisher, pipeline, data
    <3>3. WorkerInv' /\ (Unqueued' <=> Unqueued)
      BY <3>1, <3>2, <1>O
    <3>4. TypeOK'
      <4>1. pc' \in [{"finisher", "committer"} -> {"fetch", "work", "push", "room", "commit", "retire", "retire_failed", "gone"}]
        BY <3>1, <3>2 DEF TypeOK
      <4>2. asleep' \subseteq {"worker", "finisher", "committer"}
        BY <2>FetchItem DEF FetchItem, TypeOK
      <4> QED BY <2>FetchItem, <3>1, <3>2, <4>1, <4>2 DEF FetchItem, TypeOK, finisher, pipeline, data
    <3>5. WorkIsThere' /\ NoErrorNoFailure'
      <4>1. pc'.committer \in {"retire", "commit"} /\ pc'.finisher = pc.finisher
        BY <3>1 DEF TypeOK
      <4> QED BY <3>1, <3>2, <4>1 DEF WorkIsThere, NoErrorNoFailure
    <3>6. Still
      BY <3>1, <3>2, <3>3 DEF Still, Retiring, NoErrorNoFailure, TypeOK
    <3> QED BY <3>3, <3>4, <3>5, <3>6 DEF QueueStep
  <2>AwaitItem. CASE AwaitItem
    <3>1. /\ pc.committer = "fetch" /\ items = <<>>
          /\ pc' = [pc EXCEPT !.committer = "gone"] \/ pc' = pc
      BY <2>AwaitItem, <1>fat, <1>cat DEF AwaitItem
    <3>2. UNCHANGED <<jobs, items, memory, latest, written, committed, packet, errors, answer, plan, open, jobFailure, failure, stopped>>
      BY <2>AwaitItem DEF AwaitItem, OthersStep, finisher, pipeline, data
    <3>3. WorkerInv' /\ (Unqueued' <=> Unqueued)
      BY <3>1, <3>2, <1>O
    <3>4. TypeOK'
      <4>1. pc' \in [{"finisher", "committer"} -> {"fetch", "work", "push", "room", "commit", "retire", "retire_failed", "gone"}]
        BY <3>1, <3>2 DEF TypeOK
      <4>2. asleep' \subseteq {"worker", "finisher", "committer"}
        BY <2>AwaitItem DEF AwaitItem, TypeOK
      <4> QED BY <2>AwaitItem, <3>1, <3>2, <4>1, <4>2 DEF AwaitItem, TypeOK, finisher, pipeline, data
    <3>5. WorkIsThere' /\ NoErrorNoFailure'
      <4>1. pc'.committer \in {"fetch", "gone"} /\ pc'.finisher = pc.finisher
        BY <3>1 DEF TypeOK
      <4> QED BY <3>1, <3>2, <4>1 DEF WorkIsThere, NoErrorNoFailure
    <3>6. Still
      BY <3>1, <3>2, <3>3 DEF Still, Retiring, TypeOK
    <3> QED BY <3>3, <3>4, <3>5, <3>6 DEF QueueStep
  <2>Commit. CASE Commit
    <3>1. /\ pc.committer = "commit" /\ pc' = [pc EXCEPT !.committer = "retire"]
          /\ memory' = [p \in Places |-> IF p = Head(items).to THEN Head(items).n ELSE memory[p]]
          /\ committed' = Append(committed, Head(items).n)
      BY <2>Commit, <1>fat, <1>cat DEF Commit
    <3>2. UNCHANGED <<jobs, items, latest, written, packet, errors, answer, plan, open, jobFailure, failure, stopped>>
      BY <2>Commit DEF Commit, OthersStep, finisher, pipeline, data
    <3>3. WorkerInv' /\ (Unqueued' <=> Unqueued)
      BY <3>1, <3>2, <1>O
    <3>4. TypeOK'
      <4>1. pc' \in [{"finisher", "committer"} -> {"fetch", "work", "push", "room", "commit", "retire", "retire_failed", "gone"}]
        BY <3>1 DEF TypeOK
      <4>2. items # <<>>
        BY <3>1 DEF WorkIsThere
      <4>3. Head(items).n \in Nat
        BY <4>2, <1>Q DEF TypeOK, Items
      <4>4. memory' \in [Places -> Nat] /\ committed' \in Seq(Nat)
        BY <3>1, <4>3 DEF TypeOK
      <4> QED BY <2>Commit, <3>2, <4>1, <4>4 DEF Commit, TypeOK, finisher, pipeline
    <3>5. WorkIsThere' /\ NoErrorNoFailure'
      <4>1. pc'.finisher = pc.finisher /\ pc'.committer = "retire"
        BY <3>1 DEF TypeOK
      <4> QED BY <3>1, <3>2, <4>1 DEF WorkIsThere, NoErrorNoFailure
    <3>6. ItemIsDone
      BY <3>1, <3>2, <3>3 DEF ItemIsDone, OthersStep
    <3> QED BY <3>3, <3>4, <3>5, <3>6 DEF QueueStep
  <2>CommitThrows. CASE CommitThrows
    <3>1. /\ pc.committer = "commit" /\ pc' = [pc EXCEPT !.committer = "retire_failed"]
          /\ errors' = errors + 1 /\ stopped' = TRUE
      BY <2>CommitThrows, <1>fat, <1>cat DEF CommitThrows
    <3>2. UNCHANGED <<jobs, items, memory, latest, written, committed, packet, answer, plan, open, jobFailure, failure>>
      BY <2>CommitThrows DEF CommitThrows, OthersStep, finisher, pipeline, data
    <3>3. WorkerInv' /\ (Unqueued' <=> Unqueued)
      BY <3>1, <3>2, <1>O
    <3>4. TypeOK'
      <4>1. pc' \in [{"finisher", "committer"} -> {"fetch", "work", "push", "room", "commit", "retire", "retire_failed", "gone"}]
        BY <3>1, <3>2 DEF TypeOK
      <4>2. asleep' \subseteq {"worker", "finisher", "committer"}
        BY <2>CommitThrows DEF CommitThrows, TypeOK
      <4> QED BY <2>CommitThrows, <3>1, <3>2, <4>1, <4>2 DEF CommitThrows, TypeOK, finisher, pipeline, data
    <3>5. WorkIsThere' /\ NoErrorNoFailure'
      <4>1. pc'.finisher = pc.finisher /\ pc'.committer = "retire_failed" /\ errors \in Nat
        BY <3>1 DEF TypeOK
      <4> QED BY <3>1, <3>2, <4>1 DEF WorkIsThere, NoErrorNoFailure
    <3>6. Still
      BY <3>1, <3>2, <3>3 DEF Still, Retiring, TypeOK
    <3> QED BY <3>3, <3>4, <3>5, <3>6 DEF QueueStep
  <2>RetireItem. ASSUME NEW b \in BOOLEAN, RetireItem(b) PROVE PlanInv' /\ QueueStep
    <3>1. /\ pc.committer = (IF b THEN "retire_failed" ELSE "retire") /\ pc' = [pc EXCEPT !.committer = "fetch"]
          /\ items' = Tail(items) /\ failure' = (failure \/ b)
      BY <2>RetireItem, <1>fat, <1>cat DEF RetireItem
    <3>2. UNCHANGED <<jobs, memory, latest, written, committed, packet, errors, answer, plan, open, jobFailure, stopped>>
      BY <2>RetireItem DEF RetireItem, OthersStep, finisher, pipeline, data
    <3>x. items # <<>> /\ items' \in Seq(Items) /\ (~Holds(items, packet.to) => ~Holds(items', packet.to))
      <4>1. items # <<>>
        BY <3>1 DEF WorkIsThere
      <4> QED BY <3>1, <4>1, <1>Q DEF TypeOK
    <3>3. WorkerInv' /\ (Unqueued' <=> Unqueued)
      BY <3>1, <3>2, <3>x, <1>O
    <3>4. TypeOK'
      <4>1. pc' \in [{"finisher", "committer"} -> {"fetch", "work", "push", "room", "commit", "retire", "retire_failed", "gone"}]
        BY <3>1 DEF TypeOK
      <4>2. asleep' \subseteq {"worker", "finisher", "committer"} /\ failure' \in BOOLEAN
        BY <2>RetireItem DEF RetireItem, TypeOK
      <4> QED BY <2>RetireItem, <3>1, <3>2, <3>x, <4>1, <4>2 DEF RetireItem, TypeOK, finisher, data
    <3>5. WorkIsThere' /\ NoErrorNoFailure'
      <4>1. pc'.finisher = pc.finisher /\ pc'.committer = "fetch"
        BY <3>1 DEF TypeOK
      <4> QED BY <3>1, <3>2, <4>1 DEF WorkIsThere, NoErrorNoFailure
    <3>6. ItemLeaves
      BY <3>1, <3>2, <3>3, <3>x DEF ItemLeaves, Retiring, OthersStep
    <3> QED BY <3>3, <3>4, <3>5, <3>6 DEF QueueStep
  <2> QED BY <1>Co, <2>FetchItem, <2>AwaitItem, <2>Commit, <2>CommitThrows, <2>RetireItem DEF Committer
<1>St. ASSUME UNCHANGED vars PROVE PlanInv' /\ QueueStep
  <2>1. UNCHANGED <<jobs, items, memory, latest, written, committed, packet, errors, pc, answer, plan, open,
                    jobFailure, failure, stopped>>
    BY <1>St DEF vars, finisher, pipeline, data
  <2>2. WorkerInv' /\ (Unqueued' <=> Unqueued)
    BY <2>1, <1>O
  <2>3. WorkIsThere' /\ NoErrorNoFailure' /\ QueueStep
    BY <2>1, <2>2, <1>K
  <2>4. TypeOK'
    BY <1>St DEF vars, TypeOK, finisher, pipeline, data
  <2> QED BY <2>2, <2>3, <2>4
<1> QED BY <1>W, <1>Fi, <1>Co, <1>St DEF Next

\* The invariant from the beginning.
LEMMA PlanAlways == Spec => []PlanInv
<1>1. Init => PlanInv
  <2>1. Init => TypeOK
    <3> SUFFICES ASSUME Init PROVE TypeOK
      OBVIOUS
    <3>1. packet \in [kind : Kinds, to : Places \cup {Nowhere}, want : Nat, n : Nat]
      BY DEF Init, NoPacket, Kinds
    <3>2. pc \in [{"finisher", "committer"} ->
                     {"fetch", "work", "push", "room", "commit", "retire", "retire_failed", "gone"}]
      BY DEF Init
    <3>3. answer.to \in Places => answer.value \in Nat
      BY DEF Init, NoAnswer
    <3>4. memory \in [Places -> Nat] /\ latest \in [Places -> Nat]
      BY DEF Init
    <3>5. <<>> \in Seq(Items) /\ <<>> \in Seq(Stages) /\ <<>> \in Seq(Nat)
      OBVIOUS
    <3>6. jobs \in Seq(Items) /\ items \in Seq(Items) /\ plan \in Seq(Stages) /\ committed \in Seq(Nat)
      BY <3>5 DEF Init
    <3>7. /\ jobFailure \in BOOLEAN /\ sleeping \in BOOLEAN /\ failure \in BOOLEAN
          /\ committerWaiting \in BOOLEAN /\ stopped \in BOOLEAN /\ closing \in BOOLEAN
          /\ driverFailed \in BOOLEAN /\ open \in BOOLEAN
      BY DEF Init
    <3>8. /\ idleWaiters \in Int /\ resumeAt \in Int /\ written \in Nat /\ errors \in Nat
          /\ asleep \subseteq {"worker", "finisher", "committer"}
      BY DEF Init
    <3> QED BY <3>1, <3>2, <3>3, <3>4, <3>6, <3>7, <3>8 DEF TypeOK
  <2>2. Init => WorkerInv /\ WorkIsThere /\ NoErrorNoFailure
    BY DEF Init, WorkerInv, WorkIsThere, NoErrorNoFailure, PlanIsKnown, JobsAreOver, ReadIsClear, JobsEndWithSubmission
  <2> QED BY <2>1, <2>2 DEF PlanInv
<1>2. PlanInv /\ [Next]_vars => PlanInv'
  BY PlanStep
<1> QED BY <1>1, <1>2, PTL DEF Spec

\* When no submission is being executed the finisher has no job, also after an
\* exception: DrawFinisher::Settle and the drains come before the stack unwinds.
THEOREM NoJobOutlivesItsSubmission == Spec => []JobsEndWithSubmission
<1>1. PlanInv => JobsEndWithSubmission
  BY DEF PlanInv, WorkerInv
<1> QED BY <1>1, PlanAlways, PTL

-----------------------------------------------------------------------------
(* Who sleeps has been seen to.                                            *)

FinisherSleeps ==
    "finisher" \in asleep =>
        \/ pc.finisher = "fetch" /\ jobs = <<>> /\ sleeping
        \/ pc.finisher = "room" /\ Len(items) >= Depth

CommitterSleeps ==
    "committer" \in asleep =>
        pc.committer = "fetch" /\ items = <<>> /\ committerWaiting /\ ~closing

WorkerSleeps ==
    "worker" \in asleep =>
        \/ Stage("worker") = "job_room" /\ Len(jobs) >= JobDepth
        \/ Stage("worker") \in {"jobs_drain", "settle"} /\ jobs # <<>>
        \/ Stage("worker") = "room" /\ Len(items) >= Depth
        \/ Stage("worker") = "drained" /\ items # <<>>

\* The committer wakes those it is told of, at the length one of them waits for.
InRoom == Stage("worker") \in {"room", "drained"} \/ pc.finisher = "room"

WaitersAreCounted ==
    /\ idleWaiters = IF InRoom THEN 1 ELSE 0
    /\ Stage("worker") = "room" \/ pc.finisher = "room" => resumeAt = Depth - 1

SleepInv == FinisherSleeps /\ CommitterSleeps /\ WorkerSleeps /\ WaitersAreCounted

\* Whoever sleeps is woken by the step that brings what he waits for.
LEMMA SleepStep ==
    ASSUME PlanInv, PlanInv', SleepInv, [Next]_vars
    PROVE  SleepInv'
<1> DEFINE Rooms == {"room", "drained", "job_room"}
<1>P. plan \in Seq(Stages) /\ (plan # <<>> => Follows(Head(plan), Tail(plan)) /\ Tail(plan) \in Seq(Stages))
  BY Tuples DEF PlanInv, TypeOK, WorkerInv, PlanIsKnown
<1>Y. /\ pc \in [{"finisher", "committer"} -> {"fetch", "work", "push", "room", "commit", "retire", "retire_failed", "gone"}]
      /\ jobs \in Seq(Items) /\ items \in Seq(Items) /\ idleWaiters \in Int /\ resumeAt \in Int
      /\ JobDepth \in Nat /\ JobDepth > 0 /\ Depth \in Nat /\ Depth > 0
  BY DepthsAssumption DEF PlanInv, TypeOK
<1>at. \A s : At("worker", s) /\ s # "none" =>
            plan # <<>> /\ Head(plan) = s /\ "worker" \notin asleep /\ Stage("worker") = s
  BY DEF At, Stage
<1>af. \A s : At("finisher", s) => pc.finisher = s /\ "finisher" \notin asleep
  BY DEF At, Stage
<1>ac. \A s : At("committer", s) => pc.committer = s /\ "committer" \notin asleep
  BY DEF At, Stage
<1>S. /\ Stage("worker") = IF plan = <<>> THEN "none" ELSE Head(plan)
      /\ Stage("worker")' = IF plan' = <<>> THEN "none" ELSE Head(plan')
  BY DEF Stage
\* Nobody comes to a room but by the step that finds no room.
<1>A. ASSUME plan # <<>>
      PROVE  /\ Then(<<>>) => Stage("worker")' \notin Rooms
             /\ \A a \in Stages : Then(<<a>>) => Stage("worker")' = a
             /\ \A a, b \in Stages : Then(<<a, b>>) => Stage("worker")' = a
  <2>1. ASSUME Then(<<>>) PROVE Stage("worker")' \notin Rooms
    <3>1. plan' = Tail(plan)
      BY <1>P, <1>A, <2>1, Tuples DEF Then
    <3>2. \A t \in {<<"close">>, <<"give_up">>, <<"read">>, <<"drain", "give_up">>, <<"join">>,
                    <<"enqueue", "close">>, <<"drain", "close">>, <<"stop", "join">>,
                    <<"ask", "overlap", "read">>, <<"overlap", "read">>, <<"overlap">>} : Head(t) \notin Rooms
      OBVIOUS
    <3>3. ASSUME NEW s \in Goes \cup Ends, NEW a \in {"push", "drain_items"}
          PROVE  Head(<<a>> \o s) = a
      <4>1. {<<>>, <<"close">>, <<"give_up">>, <<"read">>} \subseteq Seq(Stages)
        BY DEF Stages
      <4>2. s \in Seq(Stages) /\ a \in Stages
        BY <4>1 DEF Goes, Ends, Stages
      <4> QED BY <4>2, Tuples
    <3>4. Tail(plan) = <<>> \/ Head(Tail(plan)) \notin Rooms
      <4>1. CASE \E s \in Ends : Tail(plan) = <<"push">> \o s
        BY <3>3, <4>1
      <4>2. CASE \E s \in Goes : Tail(plan) = <<"drain_items">> \o s
        BY <3>3, <4>2
      <4> QED BY <1>P, <1>A, <3>2, <4>1, <4>2 DEF Follows, Goes, Ends
    <3> QED BY <1>S, <3>1, <3>4
  <2>2. ASSUME NEW a \in Stages, Then(<<a>>) PROVE Stage("worker")' = a
    BY <1>P, <1>A, <1>S, <2>2, Tuples DEF Then
  <2>3. ASSUME NEW a \in Stages, NEW b \in Stages, Then(<<a, b>>) PROVE Stage("worker")' = a
    BY <1>P, <1>A, <1>S, <2>3, Tuples DEF Then
  <2> QED BY <2>1, <2>2, <2>3
<1>B. Throw => Stage("worker")' \notin Rooms
  <2>1. \A t \in {<<"give_up">>, <<"stop", "join">>, <<"settle", "drain", "give_up">>} :
            t # <<>> /\ Head(t) \notin Rooms
    OBVIOUS
  <2> QED BY <1>S, <2>1 DEF Throw
<1>Q. ASSUME UNCHANGED <<jobs, items, pc, sleeping, committerWaiting, closing, idleWaiters, resumeAt, asleep>>,
             "worker" \notin asleep, Stage("worker") \notin {"room", "drained"},
             Stage("worker")' \notin {"room", "drained"}
      PROVE  SleepInv'
  BY <1>Q DEF SleepInv, FinisherSleeps, CommitterSleeps, WorkerSleeps, WaitersAreCounted, InRoom
<1>N. plan = <<>> => "worker" \notin asleep /\ Stage("worker") = "none"
  BY <1>S DEF SleepInv, WorkerSleeps
<1>E. Item(packet) \in Items /\ (jobs # <<>> => Head(jobs) \in Items)
  <2>1. Item(packet) \in Items
    BY DEF PlanInv, TypeOK, Item, Items
  <2>2. jobs # <<>> => Head(jobs) \in Items
    BY <1>Y, HeadTailProperties
  <2> QED BY <2>1, <2>2
<1>I. ASSUME NEW e \in Items, items' = Append(items, e)
      PROVE  Len(items') > Len(items) /\ Len(items) \in Nat /\ Len(items') \in Nat
  BY <1>Y, <1>I, AppendProperties, LenProperties
<1>W. ASSUME Worker PROVE SleepInv'
  <2>DrainJobs. CASE DrainJobs
    <3>1. Stage("worker")' \notin {"room", "drained"}
      BY <2>DrainJobs, <1>at, <1>A, <1>B DEF DrainJobs, Stages
    <3> QED BY <2>DrainJobs, <3>1, <1>Q, <1>N, <1>at DEF DrainJobs, finisher, pipeline
  <2>Settle. CASE Settle
    <3>1. Stage("worker")' \notin {"room", "drained"}
      BY <2>Settle, <1>at, <1>A, <1>B DEF Settle, Stages
    <3> QED BY <2>Settle, <3>1, <1>Q, <1>N, <1>at DEF Settle, finisher, pipeline
  <2>Enqueue. CASE Enqueue
    <3>1. Stage("worker")' \notin {"room", "drained"}
      BY <2>Enqueue, <1>at, <1>A, <1>B DEF Enqueue, Stages
    <3> QED BY <2>Enqueue, <3>1, <1>Q, <1>N, <1>at DEF Enqueue, finisher, pipeline
  <2>Drain. CASE Drain
    <3>1. Stage("worker")' \notin {"room", "drained"}
      BY <2>Drain, <1>at, <1>A, <1>B DEF Drain, Stages
    <3> QED BY <2>Drain, <3>1, <1>Q, <1>N, <1>at DEF Drain, finisher, pipeline
  <2>DrainItems. CASE DrainItems
    <3>1. Stage("worker")' \notin {"room", "drained"}
      BY <2>DrainItems, <1>at, <1>A, <1>B DEF DrainItems, Stages
    <3> QED BY <2>DrainItems, <3>1, <1>Q, <1>N, <1>at DEF DrainItems, finisher, pipeline
  <2>GoBeside. CASE GoBeside
    <3>1. Stage("worker")' \notin {"room", "drained"}
      BY <2>GoBeside, <1>at, <1>A, <1>B DEF GoBeside, Stages
    <3> QED BY <2>GoBeside, <3>1, <1>Q, <1>N, <1>at DEF GoBeside, finisher, pipeline
  <2>OverlapJobs. CASE OverlapJobs
    <3>1. Stage("worker")' \notin {"room", "drained"}
      BY <2>OverlapJobs, <1>at, <1>A, <1>B DEF OverlapJobs, Stages
    <3> QED BY <2>OverlapJobs, <3>1, <1>Q, <1>N, <1>at DEF OverlapJobs, finisher, pipeline
  <2>OverlapItems. CASE OverlapItems
    <3>1. Stage("worker")' \notin {"room", "drained"}
      BY <2>OverlapItems, <1>at, <1>A, <1>B DEF OverlapItems, Stages
    <3> QED BY <2>OverlapItems, <3>1, <1>Q, <1>N, <1>at DEF OverlapItems, finisher, pipeline
  <2>Read. CASE Read
    <3>1. Stage("worker")' \notin {"room", "drained"}
      BY <2>Read, <1>at, <1>A, <1>B DEF Read, Stages
    <3> QED BY <2>Read, <3>1, <1>Q, <1>N, <1>at DEF Read, finisher, pipeline
  <2>Close. CASE Close
    <3>1. Stage("worker")' \notin {"room", "drained"}
      BY <2>Close, <1>at, <1>A, <1>B DEF Close, Stages
    <3> QED BY <2>Close, <3>1, <1>Q, <1>N, <1>at DEF Close, finisher, pipeline
  <2>GiveUp. CASE GiveUp
    <3>1. Stage("worker")' \notin {"room", "drained"}
      BY <2>GiveUp, <1>at, <1>A, <1>B DEF GiveUp, Stages
    <3> QED BY <2>GiveUp, <3>1, <1>Q, <1>N, <1>at DEF GiveUp, finisher, pipeline
  <2>Join. CASE Join
    <3>1. Stage("worker")' \notin {"room", "drained"}
      BY <2>Join, <1>at, <1>A, <1>B DEF Join, Stages
    <3> QED BY <2>Join, <3>1, <1>Q, <1>N, <1>at DEF Join, finisher, pipeline
  <2>EnqueueJob1. CASE EnqueueJob /\ jobFailure
    <3>1. Stage("worker")' \notin {"room", "drained"}
      BY <2>EnqueueJob1, <1>at, <1>A, <1>B DEF EnqueueJob, Stages
    <3> QED BY <2>EnqueueJob1, <3>1, <1>Q, <1>N, <1>at DEF EnqueueJob, finisher, pipeline
  <2>DrainLock1. CASE DrainLock /\ items = <<>>
    <3>1. Stage("worker")' \notin {"room", "drained"}
      BY <2>DrainLock1, <1>at, <1>A, <1>B DEF DrainLock, Stages
    <3> QED BY <2>DrainLock1, <3>1, <1>Q, <1>N, <1>at DEF DrainLock, finisher, pipeline
  <2>AskJobs. CASE AskJobs
    <3>1. Stage("worker")' \notin {"room", "drained"}
      <4>1. plan' = <<>> => Stage("worker")' = "none"
        BY <1>S
      <4> QED BY <2>AskJobs, <4>1, <1>at, <1>A DEF AskJobs, Passes, Stages
    <3> QED BY <2>AskJobs, <3>1, <1>Q, <1>N, <1>at DEF AskJobs, finisher, pipeline
  <2>AskItems. CASE AskItems
    <3>1. Stage("worker")' \notin {"room", "drained"}
      <4>1. plan' = <<>> => Stage("worker")' = "none"
        BY <1>S
      <4> QED BY <2>AskItems, <4>1, <1>at, <1>A DEF AskItems, Passes, Stages
    <3> QED BY <2>AskItems, <3>1, <1>Q, <1>N, <1>at DEF AskItems, finisher, pipeline
  <2>Push1. CASE Push("worker") /\ failure
    <3>1. Stage("worker")' \notin {"room", "drained"}
      BY <2>Push1, <1>at, <1>A, <1>B DEF Push, Thrown, Stages
    <3> QED BY <2>Push1, <3>1, <1>Q, <1>N, <1>at DEF Push, Thrown, finisher, pipeline
  <2>Open. ASSUME NEW steps \in {<<>>, <<"drain">>}, Open(steps) PROVE SleepInv'
    <3>1. Stage("worker")' \notin {"room", "drained"}
      <4>1. Head(<<"drain">>) = "drain"
        OBVIOUS
      <4> QED BY <2>Open, <4>1, <1>S DEF Open
    <3> QED BY <2>Open, <3>1, <1>Q, <1>N, <1>at DEF Open, finisher, pipeline
  <2>Interrupted. CASE Interrupted
    <3>1. Stage("worker")' \notin {"room", "drained"}
      BY <2>Interrupted, <1>at, <1>A, <1>B DEF Interrupted, Stages
    <3> QED BY <2>Interrupted, <3>1, <1>Q, <1>N, <1>at DEF Interrupted, finisher, pipeline
  <2>StopDriver. CASE StopDriver
    <3>1. Stage("worker")' \notin {"room", "drained"}
      <4>1. Head(<<"jobs_drain", "stop", "join">>) = "jobs_drain" /\ <<"jobs_drain", "stop", "join">> # <<>>
        OBVIOUS
      <4> QED BY <2>StopDriver, <4>1, <1>S DEF StopDriver
    <3> QED BY <2>StopDriver, <3>1, <1>Q, <1>N, <1>at DEF StopDriver, finisher, pipeline
  <2>Packet. CASE Packet
    <3> DEFINE Plans == {<<"job">>, <<"enqueue">>, <<"beside", "ask", "overlap", "read">>,
                         <<"beside", "overlap", "read">>, <<"beside", "overlap">>,
                         <<"jobs_drain", "enqueue", "close">>, <<"jobs_drain", "drain", "close">>}
    <3>1. \A t \in Plans : Head(t) \notin {"room", "drained"}
      OBVIOUS
    <3>2. /\ plan = <<>> /\ plan' \in Plans
          /\ UNCHANGED <<jobs, items, pc, sleeping, committerWaiting, closing, idleWaiters, resumeAt, asleep>>
      BY <2>Packet DEF Packet, Reads, Writes, finisher, pipeline, data
    <3> HIDE DEF Plans
    <3> QED BY <3>1, <3>2, <1>S, <1>Q, <1>N
  <2>SleepAgain. CASE SleepAgain
    <3>1. /\ Stage("worker") \in {"jobs_drain", "settle"} /\ jobs # <<>> /\ plan' = plan
          /\ asleep' = asleep \cup {"worker"}
          /\ UNCHANGED <<jobs, items, pc, sleeping, committerWaiting, closing, idleWaiters, resumeAt>>
      BY <2>SleepAgain, <1>at DEF SleepAgain, finisher, pipeline
    <3> QED BY <3>1, <1>S DEF SleepInv, FinisherSleeps, CommitterSleeps, WorkerSleeps, WaitersAreCounted, InRoom
  <2>EnqueueJob2. CASE EnqueueJob /\ ~jobFailure /\ ~(Len(jobs) < JobDepth)
    <3>1. /\ Stage("worker") = "job" /\ Stage("worker")' = "job_room"
          /\ asleep' = asleep \cup {"worker"}
          /\ UNCHANGED <<jobs, items, pc, sleeping, committerWaiting, closing, idleWaiters, resumeAt>>
      BY <2>EnqueueJob2, <1>at, <1>A DEF EnqueueJob, finisher, pipeline, Stages
    <3>2. Len(jobs) >= JobDepth
      BY <2>EnqueueJob2, <1>Y, LenProperties
    <3> QED BY <3>1, <3>2, <1>S DEF SleepInv, FinisherSleeps, CommitterSleeps, WorkerSleeps, WaitersAreCounted, InRoom
  <2>EnqueueJob3. CASE EnqueueJob /\ ~jobFailure /\ Len(jobs) < JobDepth
    <3>1. /\ Stage("worker") = "job" /\ "worker" \notin asleep /\ Stage("worker")' \notin Rooms
          /\ asleep' = IF sleeping THEN asleep \ {"finisher"} ELSE asleep
          /\ UNCHANGED <<items, pc, sleeping, committerWaiting, closing, idleWaiters, resumeAt>>
      BY <2>EnqueueJob3, <1>at, <1>A DEF EnqueueJob, JobQueued, pipeline
    <3> QED BY <3>1, <1>S DEF SleepInv, FinisherSleeps, CommitterSleeps, WorkerSleeps, WaitersAreCounted, InRoom
  <2>JobRoom. CASE JobRoom
    <3>1. /\ Stage("worker") = "job_room" /\ "worker" \notin asleep /\ Stage("worker")' \notin Rooms
          /\ asleep' = IF sleeping THEN asleep \ {"finisher"} ELSE asleep
          /\ UNCHANGED <<items, pc, sleeping, committerWaiting, closing, idleWaiters, resumeAt>>
      BY <2>JobRoom, <1>at, <1>A DEF JobRoom, JobQueued, pipeline
    <3> QED BY <3>1, <1>S DEF SleepInv, FinisherSleeps, CommitterSleeps, WorkerSleeps, WaitersAreCounted, InRoom
  <2>DrainLock2. CASE DrainLock /\ items # <<>>
    <3>1. /\ Stage("worker") = "drain_lock" /\ Stage("worker")' = "drained" /\ asleep' = asleep \cup {"worker"}
          /\ idleWaiters' = idleWaiters + 1 /\ items # <<>>
          /\ UNCHANGED <<jobs, items, pc, sleeping, committerWaiting, closing, resumeAt>>
      BY <2>DrainLock2, <1>at, <1>A DEF DrainLock, finisher, Stages
    <3>2. pc.finisher # "room"
      BY <2>DrainLock2, <1>at DEF DrainLock, PlanInv, WorkerInv, JobsAreOver, WorkIsThere
    <3> QED BY <3>1, <3>2, <1>S, <1>Y DEF SleepInv, FinisherSleeps, CommitterSleeps, WorkerSleeps, WaitersAreCounted, InRoom
  <2>Drained. CASE Drained
    <3>1. /\ Stage("worker") = "drained" /\ Stage("worker")' \notin Rooms /\ "worker" \notin asleep
          /\ idleWaiters' = idleWaiters - 1
          /\ UNCHANGED <<jobs, items, pc, sleeping, committerWaiting, closing, resumeAt, asleep>>
      BY <2>Drained, <1>at, <1>A, <1>B DEF Drained, finisher
    <3>2. pc.finisher # "room"
      BY <2>Drained, <1>at DEF Drained, PlanInv, WorkerInv, JobsAreOver, WorkIsThere
    <3> QED BY <3>1, <3>2, <1>S, <1>Y DEF SleepInv, FinisherSleeps, CommitterSleeps, WorkerSleeps, WaitersAreCounted, InRoom
  <2>Stop. CASE Stop
    <3>1. /\ Stage("worker") = "stop" /\ Stage("worker")' \notin Rooms /\ "worker" \notin asleep
          /\ asleep' = asleep \ {"committer"}
          /\ UNCHANGED <<jobs, items, pc, sleeping, committerWaiting, idleWaiters, resumeAt>>
      BY <2>Stop, <1>at, <1>A DEF Stop, finisher
    <3> QED BY <3>1, <1>S DEF SleepInv, FinisherSleeps, CommitterSleeps, WorkerSleeps, WaitersAreCounted, InRoom
  <2>Push2. CASE Push("worker") /\ ~failure /\ ~(Len(items) < Depth)
    <3>1. /\ Stage("worker") = "push" /\ Stage("worker")' = "room" /\ asleep' = asleep \cup {"worker"}
          /\ idleWaiters' = idleWaiters + 1 /\ resumeAt' = Depth - 1
          /\ UNCHANGED <<jobs, items, pc, sleeping, committerWaiting, closing>>
      BY <2>Push2, <1>at, <1>A DEF Push, Waits, finisher, Stages
    <3>2. pc.finisher # "room"
      BY <2>Push2, <1>at DEF Push, PlanInv, WorkerInv, JobsAreOver, WorkIsThere
    <3>3. Len(items) >= Depth
      BY <2>Push2, <1>Y, LenProperties
    <3> QED BY <3>1, <3>2, <3>3, <1>S, <1>Y DEF SleepInv, FinisherSleeps, CommitterSleeps, WorkerSleeps, WaitersAreCounted, InRoom
  <2>Push3. CASE Push("worker") /\ ~failure /\ Len(items) < Depth
    <3>1. /\ Stage("worker") = "push" /\ Stage("worker")' \notin Rooms /\ "worker" \notin asleep
          /\ asleep' = IF committerWaiting THEN asleep \ {"committer"} ELSE asleep
          /\ Len(items') >= Len(items)
          /\ UNCHANGED <<jobs, pc, sleeping, committerWaiting, closing, idleWaiters, resumeAt>>
      BY <2>Push3, <1>at, <1>A, <1>I, <1>E DEF Push, ItemQueued, Returned, finisher
    <3> QED BY <3>1, <1>S, <1>Y DEF SleepInv, FinisherSleeps, CommitterSleeps, WorkerSleeps, WaitersAreCounted, InRoom
  <2>Room1. CASE Room("worker") /\ failure
    <3>1. /\ Stage("worker") = "room" /\ Stage("worker")' \notin Rooms /\ "worker" \notin asleep
          /\ idleWaiters' = idleWaiters - 1 /\ resumeAt' = 0
          /\ UNCHANGED <<jobs, items, asleep, pc, sleeping, committerWaiting, closing>>
      BY <2>Room1, <1>at, <1>B DEF Room, Thrown, finisher
    <3>2. pc.finisher # "room"
      BY <2>Room1, <1>at DEF Room, PlanInv, WorkerInv, JobsAreOver, WorkIsThere
    <3> QED BY <3>1, <3>2, <1>S, <1>Y DEF SleepInv, FinisherSleeps, CommitterSleeps, WorkerSleeps, WaitersAreCounted, InRoom
  <2>Room2. CASE Room("worker") /\ ~failure
    <3>1. /\ Stage("worker") = "room" /\ Stage("worker")' \notin Rooms /\ "worker" \notin asleep
          /\ asleep' = IF committerWaiting THEN asleep \ {"committer"} ELSE asleep
          /\ idleWaiters' = idleWaiters - 1 /\ resumeAt' = 0
          /\ UNCHANGED <<jobs, pc, sleeping, committerWaiting, closing>>
      BY <2>Room2, <1>at, <1>A DEF Room, ItemQueued, Returned, finisher
    <3>2. pc.finisher # "room"
      BY <2>Room2, <1>at DEF Room, PlanInv, WorkerInv, JobsAreOver, WorkIsThere
    <3> QED BY <3>1, <3>2, <1>S, <1>Y DEF SleepInv, FinisherSleeps, CommitterSleeps, WorkerSleeps, WaitersAreCounted, InRoom
  <2>1. CASE EnqueueJob
    BY <2>1, <2>EnqueueJob1, <2>EnqueueJob2, <2>EnqueueJob3
  <2>2. CASE DrainLock
    BY <2>2, <2>DrainLock1, <2>DrainLock2
  <2>3. CASE Push("worker")
    BY <2>3, <2>Push1, <2>Push2, <2>Push3
  <2>4. CASE Room("worker")
    BY <2>4, <2>Room1, <2>Room2
  <2> QED
    BY <1>W, <2>Open, <2>Interrupted, <2>Packet, <2>1, <2>JobRoom, <2>DrainJobs, <2>Settle, <2>SleepAgain,
       <2>Enqueue, <2>3, <2>4, <2>Drain, <2>DrainItems, <2>2, <2>Drained, <2>GoBeside, <2>AskJobs, <2>AskItems,
       <2>OverlapJobs, <2>OverlapItems, <2>Read, <2>Close, <2>GiveUp, <2>StopDriver, <2>Stop, <2>Join
    DEF Worker
<1>F. ASSUME Finisher PROVE SleepInv'
  <2>FetchJob. CASE FetchJob
    <3>1. pc.finisher = "fetch" /\ "finisher" \notin asleep /\ pc' = [pc EXCEPT !.finisher = IF jobFailure THEN "retire" ELSE "work"]
      BY <2>FetchJob, <1>af, <1>ac DEF FetchJob
    <3>2. UNCHANGED <<plan, jobs, items, committerWaiting, closing, idleWaiters, resumeAt, asleep>>
      BY <2>FetchJob DEF FetchJob, finisher, pipeline
    <3> QED BY <3>1, <3>2, <1>S, <1>Y DEF SleepInv, FinisherSleeps, CommitterSleeps, WorkerSleeps, WaitersAreCounted, InRoom
  <2>AwaitJob. CASE AwaitJob
    <3>1. /\ pc.finisher = "fetch" /\ jobs = <<>> /\ pc' = pc
          /\ sleeping' = TRUE /\ asleep' = asleep \cup {"finisher"}
      BY <2>AwaitJob, <1>af, <1>ac DEF AwaitJob
    <3>2. UNCHANGED <<plan, jobs, items, committerWaiting, closing, idleWaiters, resumeAt>>
      BY <2>AwaitJob DEF AwaitJob, finisher, pipeline
    <3> QED BY <3>1, <3>2, <1>S, <1>Y DEF SleepInv, FinisherSleeps, CommitterSleeps, WorkerSleeps, WaitersAreCounted, InRoom
  <2>Work. ASSUME NEW b \in BOOLEAN, Work(b) PROVE SleepInv'
    <3>1. pc.finisher = "work" /\ "finisher" \notin asleep /\ pc' = [pc EXCEPT !.finisher = IF b THEN "retire_failed" ELSE "push"]
      BY <2>Work, <1>af, <1>ac DEF Work
    <3>2. UNCHANGED <<plan, jobs, items, sleeping, committerWaiting, closing, idleWaiters, resumeAt, asleep>>
      BY <2>Work DEF Work, finisher, pipeline
    <3> QED BY <3>1, <3>2, <1>S, <1>Y DEF SleepInv, FinisherSleeps, CommitterSleeps, WorkerSleeps, WaitersAreCounted, InRoom
  <2>RetireJob. ASSUME NEW b \in BOOLEAN, RetireJob(b) PROVE SleepInv'
    <3>1. /\ pc.finisher \in {"retire", "retire_failed"} /\ "finisher" \notin asleep /\ pc' = [pc EXCEPT !.finisher = "fetch"]
          /\ asleep' = asleep \ OnJobsIdle
      BY <2>RetireJob, <1>af, <1>ac DEF RetireJob
    <3>2. UNCHANGED <<plan, items, sleeping, committerWaiting, closing, idleWaiters, resumeAt>>
      BY <2>RetireJob DEF RetireJob, finisher, pipeline
    <3>3. asleep' \subseteq asleep /\ ("worker" \in asleep' => Stage("worker") \notin {"job_room", "jobs_drain", "settle"})
      BY <3>1 DEF OnJobsIdle
    <3> QED BY <3>1, <3>2, <3>3, <1>S, <1>Y DEF SleepInv, FinisherSleeps, CommitterSleeps, WorkerSleeps, WaitersAreCounted, InRoom
  <2>Push1. ASSUME Push("finisher"), failure PROVE SleepInv'
    <3>1. pc.finisher = "push" /\ "finisher" \notin asleep /\ pc' = [pc EXCEPT !.finisher = "retire_failed"]
      BY <2>Push1, <1>af, <1>ac DEF Push, Thrown
    <3>2. UNCHANGED <<plan, jobs, items, sleeping, committerWaiting, closing, idleWaiters, resumeAt, asleep>>
      BY <2>Push1 DEF Push, Thrown, finisher, pipeline
    <3> QED BY <3>1, <3>2, <1>S, <1>Y DEF SleepInv, FinisherSleeps, CommitterSleeps, WorkerSleeps, WaitersAreCounted, InRoom
  <2>Push2. ASSUME Push("finisher"), ~failure, ~(Len(items) < Depth) PROVE SleepInv'
    <3>1. /\ pc.finisher = "push" /\ pc' = [pc EXCEPT !.finisher = "room"]
          /\ idleWaiters' = idleWaiters + 1 /\ resumeAt' = Depth - 1 /\ asleep' = asleep \cup {"finisher"}
      BY <2>Push2, <1>af, <1>ac DEF Push, Waits
    <3>2. UNCHANGED <<plan, jobs, items, sleeping, committerWaiting, closing>>
      BY <2>Push2 DEF Push, Waits, finisher, pipeline
    <3>3. Stage("worker") \notin {"room", "drained"}
      BY <3>1, <1>S DEF PlanInv, WorkerInv, JobsAreOver, WorkIsThere
    <3>4. Len(items) >= Depth
      BY <2>Push2, <1>Y, LenProperties
    <3> QED BY <3>1, <3>2, <3>3, <3>4, <1>S, <1>Y DEF SleepInv, FinisherSleeps, CommitterSleeps, WorkerSleeps, WaitersAreCounted, InRoom
  <2>Push3. ASSUME Push("finisher"), ~failure, Len(items) < Depth PROVE SleepInv'
    <3>1. /\ pc.finisher = "push" /\ "finisher" \notin asleep /\ pc' = [pc EXCEPT !.finisher = "retire"]
          /\ asleep' = IF committerWaiting THEN asleep \ {"committer"} ELSE asleep
      BY <2>Push3, <1>af, <1>ac DEF Push, ItemQueued, Returned
    <3>2. UNCHANGED <<plan, jobs, sleeping, committerWaiting, closing, idleWaiters, resumeAt>>
      BY <2>Push3 DEF Push, ItemQueued, Returned, finisher, pipeline
    <3>3. Stage("worker") \notin {"room", "drained"} /\ jobs # <<>>
      BY <3>1, <1>S DEF PlanInv, WorkerInv, JobsAreOver, WorkIsThere
    <3> QED BY <3>1, <3>2, <3>3, <1>S, <1>Y DEF SleepInv, FinisherSleeps, CommitterSleeps, WorkerSleeps, WaitersAreCounted, InRoom
  <2>Room2. ASSUME Room("finisher"), ~failure PROVE SleepInv'
    <3>1. /\ pc.finisher = "room" /\ "finisher" \notin asleep /\ pc' = [pc EXCEPT !.finisher = "retire"]
          /\ asleep' = IF committerWaiting THEN asleep \ {"committer"} ELSE asleep
          /\ idleWaiters' = idleWaiters - 1 /\ resumeAt' = 0
      BY <2>Room2, <1>af, <1>ac DEF Room, ItemQueued, Returned
    <3>2. UNCHANGED <<plan, jobs, sleeping, committerWaiting, closing>>
      BY <2>Room2 DEF Room, ItemQueued, Returned, finisher, pipeline
    <3>3. Stage("worker") \notin {"room", "drained"} /\ jobs # <<>>
      BY <3>1, <1>S DEF PlanInv, WorkerInv, JobsAreOver, WorkIsThere
    <3> QED BY <3>1, <3>2, <3>3, <1>S, <1>Y DEF SleepInv, FinisherSleeps, CommitterSleeps, WorkerSleeps, WaitersAreCounted, InRoom
  <2>Room1. ASSUME Room("finisher"), failure PROVE SleepInv'
    <3>1. /\ pc.finisher = "room" /\ "finisher" \notin asleep /\ pc' = [pc EXCEPT !.finisher = "retire_failed"]
          /\ idleWaiters' = idleWaiters - 1 /\ resumeAt' = 0
      BY <2>Room1, <1>af, <1>ac DEF Room, Thrown
    <3>2. UNCHANGED <<plan, jobs, items, sleeping, committerWaiting, closing, asleep>>
      BY <2>Room1 DEF Room, Thrown, finisher, pipeline
    <3>3. Stage("worker") \notin {"room", "drained"}
      BY <3>1, <1>S DEF PlanInv, WorkerInv, JobsAreOver, WorkIsThere
    <3> QED BY <3>1, <3>2, <3>3, <1>S, <1>Y DEF SleepInv, FinisherSleeps, CommitterSleeps, WorkerSleeps, WaitersAreCounted, InRoom
  <2> QED
    BY <1>F, <2>FetchJob, <2>AwaitJob, <2>Work, <2>RetireJob, <2>Push1, <2>Push2, <2>Push3, <2>Room1, <2>Room2
    DEF Finisher
<1>C. ASSUME Committer PROVE SleepInv'
  <2>FetchItem. CASE FetchItem
    <3>1. pc.committer = "fetch" /\ "committer" \notin asleep /\ pc' = [pc EXCEPT !.committer = IF stopped THEN "retire" ELSE "commit"]
      BY <2>FetchItem, <1>af, <1>ac DEF FetchItem
    <3>2. UNCHANGED <<plan, jobs, items, sleeping, closing, idleWaiters, resumeAt, asleep>>
      BY <2>FetchItem DEF FetchItem, finisher, pipeline
    <3> QED BY <3>1, <3>2, <1>S, <1>Y DEF SleepInv, FinisherSleeps, CommitterSleeps, WorkerSleeps, WaitersAreCounted, InRoom
  <2>AwaitItem1. CASE AwaitItem /\ closing
    <3>1. pc.committer = "fetch" /\ "committer" \notin asleep /\ pc' = [pc EXCEPT !.committer = "gone"]
      BY <2>AwaitItem1, <1>af, <1>ac DEF AwaitItem
    <3>2. UNCHANGED <<plan, jobs, items, sleeping, closing, idleWaiters, resumeAt, asleep>>
      BY <2>AwaitItem1 DEF AwaitItem, finisher, pipeline
    <3> QED BY <3>1, <3>2, <1>S, <1>Y DEF SleepInv, FinisherSleeps, CommitterSleeps, WorkerSleeps, WaitersAreCounted, InRoom
  <2>AwaitItem2. CASE AwaitItem /\ ~closing
    <3>1. /\ pc.committer = "fetch" /\ items = <<>> /\ pc' = pc
          /\ committerWaiting' = TRUE /\ asleep' = asleep \cup {"committer"} /\ ~closing
      BY <2>AwaitItem2, <1>af, <1>ac DEF AwaitItem
    <3>2. UNCHANGED <<plan, jobs, items, sleeping, closing, idleWaiters, resumeAt>>
      BY <2>AwaitItem2 DEF AwaitItem, finisher, pipeline
    <3> QED BY <3>1, <3>2, <1>S, <1>Y DEF SleepInv, FinisherSleeps, CommitterSleeps, WorkerSleeps, WaitersAreCounted, InRoom
  <2>Commit. CASE Commit
    <3>1. pc.committer = "commit" /\ "committer" \notin asleep /\ pc' = [pc EXCEPT !.committer = "retire"]
      BY <2>Commit, <1>af, <1>ac DEF Commit
    <3>2. UNCHANGED <<plan, jobs, items, sleeping, committerWaiting, closing, idleWaiters, resumeAt, asleep>>
      BY <2>Commit DEF Commit, finisher, pipeline
    <3> QED BY <3>1, <3>2, <1>S, <1>Y DEF SleepInv, FinisherSleeps, CommitterSleeps, WorkerSleeps, WaitersAreCounted, InRoom
  <2>CommitThrows. CASE CommitThrows
    <3>1. pc.committer = "commit" /\ "committer" \notin asleep /\ pc' = [pc EXCEPT !.committer = "retire_failed"]
      BY <2>CommitThrows, <1>af, <1>ac DEF CommitThrows
    <3>2. UNCHANGED <<plan, jobs, items, sleeping, committerWaiting, closing, idleWaiters, resumeAt, asleep>>
      BY <2>CommitThrows DEF CommitThrows, finisher, pipeline
    <3> QED BY <3>1, <3>2, <1>S, <1>Y DEF SleepInv, FinisherSleeps, CommitterSleeps, WorkerSleeps, WaitersAreCounted, InRoom
  <2>RetireItem. ASSUME NEW b \in BOOLEAN, RetireItem(b) PROVE SleepInv'
    <3>1. /\ pc.committer \in {"retire", "retire_failed"} /\ "committer" \notin asleep /\ pc' = [pc EXCEPT !.committer = "fetch"]
          /\ items' = Tail(items)
          /\ asleep' = IF idleWaiters # 0 /\ (Len(items) = 1 \/ Len(items) - 1 <= resumeAt)
                        THEN asleep \ OnItemsIdle ELSE asleep
      BY <2>RetireItem, <1>af, <1>ac DEF RetireItem
    <3>2. UNCHANGED <<plan, jobs, sleeping, committerWaiting, closing, idleWaiters, resumeAt>>
      BY <2>RetireItem DEF RetireItem, finisher, pipeline
    <3>3. /\ items # <<>> /\ Len(items) \in Nat /\ Len(items') = Len(items) - 1
          /\ items' = <<>> => Len(items) = 1
      <4>1. items # <<>> /\ items' = Tail(items) /\ items \in Seq(Items)
        BY <3>1, <1>Y DEF PlanInv, WorkIsThere
      <4>2. Len(items) \in Nat /\ Len(items') = Len(items) - 1 /\ items' \in Seq(Items)
        BY <4>1, HeadTailProperties, LenProperties
      <4>3. items' = <<>> => Len(items') = 0
        OBVIOUS
      <4> QED BY <4>1, <4>2, <4>3
    <3>4. pc'.finisher = pc.finisher /\ pc'.committer = "fetch"
      BY <3>1, <1>Y
    <3>5. CASE idleWaiters # 0 /\ (Len(items) = 1 \/ Len(items) - 1 <= resumeAt)
      <4>1. /\ asleep' \subseteq asleep
            /\ "worker" \in asleep' => Stage("worker") \notin {"room", "drained"}
            /\ "finisher" \in asleep' => pc.finisher # "room"
        BY <3>1, <3>5 DEF OnItemsIdle, Stage
      <4>2. FinisherSleeps' /\ CommitterSleeps'
        BY <3>1, <3>2, <3>4, <4>1 DEF SleepInv, FinisherSleeps, CommitterSleeps
      <4>3. WorkerSleeps' /\ WaitersAreCounted'
        BY <3>2, <3>4, <4>1, <1>S DEF SleepInv, WorkerSleeps, WaitersAreCounted, InRoom
      <4> QED BY <4>2, <4>3 DEF SleepInv
    <3>6. CASE ~(idleWaiters # 0 /\ (Len(items) = 1 \/ Len(items) - 1 <= resumeAt))
      <4>1. asleep' = asleep
        BY <3>1, <3>6
      <4>2. /\ InRoom => items' # <<>>
            /\ Stage("worker") = "room" \/ pc.finisher = "room" => Len(items') >= Depth
        BY <3>3, <3>6, <1>Y DEF SleepInv, WaitersAreCounted, InRoom
      <4>3. FinisherSleeps' /\ CommitterSleeps'
        BY <3>1, <3>2, <3>4, <4>1, <4>2 DEF SleepInv, FinisherSleeps, CommitterSleeps
      <4>4. WorkerSleeps' /\ WaitersAreCounted'
        BY <3>2, <3>4, <4>1, <4>2, <1>S DEF SleepInv, WorkerSleeps, WaitersAreCounted, InRoom
      <4> QED BY <4>3, <4>4 DEF SleepInv
    <3> QED BY <3>5, <3>6
  <2>AwaitItem. CASE AwaitItem
    BY <2>AwaitItem, <2>AwaitItem1, <2>AwaitItem2
  <2> QED BY <1>C, <2>FetchItem, <2>AwaitItem, <2>Commit, <2>CommitThrows, <2>RetireItem DEF Committer
<1>V. ASSUME UNCHANGED vars PROVE SleepInv'
  BY <1>V DEF vars, finisher, pipeline, SleepInv, FinisherSleeps, CommitterSleeps, WorkerSleeps, WaitersAreCounted, InRoom, Stage
<1> QED BY <1>W, <1>F, <1>C, <1>V DEF Next

\* Nobody sleeps although what he waits for has come.  The counter and the length
\* that DrawPipeline::enqueue and Drain leave behind tell the committer whom to
\* wake; the finisher's `sleeping' and the committer's flag tell the others.
THEOREM SleepersHaveReason == Spec => []NobodySleepsInVain
<1>1. Init => SleepInv
  BY DEF Init, SleepInv, FinisherSleeps, CommitterSleeps, WorkerSleeps, WaitersAreCounted, InRoom, Stage
<1>2. PlanInv /\ PlanInv' /\ SleepInv /\ [Next]_vars => SleepInv'
  BY SleepStep
<1>3. PlanInv /\ SleepInv => NobodySleepsInVain
  BY DEF PlanInv, TypeOK, WorkIsThere, SleepInv, FinisherSleeps, CommitterSleeps, WorkerSleeps, NobodySleepsInVain, Stage
<1> QED BY <1>1, <1>2, <1>3, PlanAlways, PTL DEF Spec

-----------------------------------------------------------------------------
(* The commits are on their way in packet order.                           *)

\* The jobs whose commits are not queued yet, and the commits that are not done.
FirstJob == IF Retiring(pc.finisher) THEN 2 ELSE 1
FirstItem == IF Retiring(pc.committer) THEN 2 ELSE 1
OpenJobs == FirstJob..Len(jobs)
OpenItems == FirstItem..Len(items)

Ascending(q) == \A i, j \in 1..Len(q) : i < j => q[i].n < q[j].n

CommittedComeFirst ==
    \A c \in 1..Len(committed) :
        /\ committed[c] <= written
        /\ \A d \in 1..Len(committed) : c < d => committed[c] < committed[d]
        /\ \A i \in OpenItems : committed[c] < items[i].n
        /\ \A j \in OpenJobs : committed[c] < jobs[j].n

ItemsComeNext ==
    /\ Ascending(items)
    /\ \A i \in 1..Len(items) : items[i].n <= written /\ \A j \in OpenJobs : items[i].n < jobs[j].n

JobsComeLast ==
    /\ Ascending(jobs)
    /\ \A j \in 1..Len(jobs) : jobs[j].n <= written

PacketIsNewest ==
    Unqueued => /\ packet.n = written
                /\ \A c \in 1..Len(committed) : committed[c] < written
                /\ \A i \in 1..Len(items) : items[i].n < written
                /\ \A j \in 1..Len(jobs) : jobs[j].n < written

\* As long as nothing threw, no number is left out.
DoneItems == FirstItem - 1
DoneJobs == FirstJob - 1
Asking == IF Unqueued THEN 1 ELSE 0

Counted ==
    errors = 0 =>
        /\ \A c \in 1..Len(committed) : committed[c] = c
        /\ \A i \in OpenItems : items[i].n = Len(committed) + i - DoneItems
        /\ \A j \in OpenJobs : jobs[j].n = Len(committed) + Len(items) - DoneItems + j - DoneJobs
        /\ written = Len(committed) + Len(items) - DoneItems + Len(jobs) - DoneJobs
                       + Asking

OrderInv == CommittedComeFirst /\ ItemsComeNext /\ JobsComeLast /\ PacketIsNewest /\ Counted

\* What the steps do to the queues keeps the commits in packet order.
LEMMA OrderStep ==
    ASSUME PlanInv, PlanInv', OrderInv, QueueStep
    PROVE  OrderInv'
<1> USE DEF OpenJobs, OpenItems, DoneItems, DoneJobs
<1>1. /\ jobs \in Seq(Items) /\ items \in Seq(Items) /\ committed \in Seq(Nat) /\ written \in Nat
      /\ Len(jobs) \in Nat /\ Len(items) \in Nat /\ Len(committed) \in Nat /\ packet.n \in Nat
      /\ pc \in [{"finisher", "committer"} -> {"fetch", "work", "push", "room", "commit", "retire", "retire_failed", "gone"}]
  BY LenProperties DEF PlanInv, TypeOK
<1>2. /\ \A i \in 1..Len(jobs) : jobs[i] \in Items /\ jobs[i].n \in Nat
      /\ \A i \in 1..Len(items) : items[i] \in Items /\ items[i].n \in Nat
      /\ \A c \in 1..Len(committed) : committed[c] \in Nat
  <2>1. \A s \in Items : s.n \in Nat
    BY DEF Items
  <2>2. ASSUME NEW q \in Seq(Items), NEW i \in 1..Len(q)
        PROVE  q[i] \in Items /\ q[i].n \in Nat
    BY <2>1, <2>2, ElementOfSeq
  <2>3. \A c \in 1..Len(committed) : committed[c] \in Nat
    BY <1>1, ElementOfSeq
  <2> QED BY <1>1, <2>2, <2>3
<1>3. /\ FirstJob \in {1, 2} /\ FirstItem \in {1, 2}
      /\ pc.finisher # "fetch" => jobs # <<>> /\ Len(jobs) > 0 /\ Head(jobs) = jobs[1]
      /\ pc.committer \notin {"fetch", "gone"} => items # <<>> /\ Len(items) > 0 /\ Head(items) = items[1]
  <2>1. FirstJob \in {1, 2} /\ FirstItem \in {1, 2}
    BY DEF FirstJob, FirstItem
  <2>2. \A q \in Seq(Items) : q # <<>> => Len(q) > 0 /\ Head(q) = q[1]
    BY EmptySeq, LenProperties, HeadTailProperties
  <2> QED BY <1>1, <2>1, <2>2 DEF PlanInv, WorkIsThere
<1>4. Item(packet) \in Items /\ Item(packet).n = packet.n
  BY DEF PlanInv, TypeOK, Item, Items
\* A queue that grew at its end, or lost its head.
<1>5. ASSUME NEW S, NEW q \in Seq(S), NEW e \in S, NEW r, r = Append(q, e)
      PROVE  /\ Len(r) = Len(q) + 1 /\ r[Len(q) + 1] = e
             /\ \A i \in 1..Len(q) : r[i] = q[i]
  BY <1>5, AppendProperties
<1>6. ASSUME NEW q \in Seq(Items), q # <<>>, NEW r, r = Tail(q)
      PROVE  Len(r) = Len(q) - 1 /\ \A i \in 1..(Len(q) - 1) : r[i] = q[i + 1]
  BY <1>6, HeadTailProperties
<1>7. CASE Still
  <2>1. /\ UNCHANGED <<jobs, items, written, committed>>
        /\ FirstJob' \in {1, 2} /\ FirstItem' \in {1, 2} /\ FirstJob' >= FirstJob /\ FirstItem' >= FirstItem
    BY <1>7 DEF Still, FirstJob, FirstItem
  <2>2. CommittedComeFirst' /\ ItemsComeNext' /\ JobsComeLast'
    BY <2>1, <1>1, <1>3 DEF OrderInv, CommittedComeFirst, ItemsComeNext, JobsComeLast, Ascending
  <2>3. PacketIsNewest'
    BY <1>7, <2>1 DEF OrderInv, PacketIsNewest, Still
  <2>4. errors' = 0 => errors = 0 /\ FirstJob' = FirstJob /\ FirstItem' = FirstItem /\ (Unqueued' <=> Unqueued)
    BY <1>7 DEF Still, FirstJob, FirstItem, Retiring, PlanInv, NoErrorNoFailure
  <2>5. errors' = 0 => errors = 0 /\ FirstJob' = FirstJob /\ FirstItem' = FirstItem /\ Asking' = Asking
    BY <2>4 DEF Asking
  <2>6. Counted'
    BY <2>1, <2>5 DEF OrderInv, Counted
  <2> QED BY <2>2, <2>3, <2>6 DEF OrderInv
<1>o. CommittedComeFirst /\ ItemsComeNext /\ JobsComeLast /\ PacketIsNewest /\ Counted
  BY DEF OrderInv
<1>8. CASE Asks
  <2>1. /\ UNCHANGED <<jobs, items, committed, errors, FirstJob, FirstItem>>
        /\ ~Unqueued /\ Unqueued' /\ written' = written + 1 /\ packet'.n = written'
    BY <1>8 DEF Asks, FirstJob, FirstItem
  <2>2. CommittedComeFirst' /\ ItemsComeNext' /\ JobsComeLast'
    BY <2>1, <1>1, <1>2 DEF OrderInv, CommittedComeFirst, ItemsComeNext, JobsComeLast, Ascending
  <2>3. PacketIsNewest'
    BY <2>1, <1>1, <1>2 DEF OrderInv, CommittedComeFirst, ItemsComeNext, JobsComeLast, PacketIsNewest
  <2>4. Asking = 0 /\ Asking' = 1
    BY <2>1 DEF Asking
  <2>5. errors' = 0 => written' = Len(committed) + Len(items) - DoneItems + Len(jobs) - DoneJobs + 1
    <3> DEFINE sum == Len(committed) + Len(items) - DoneItems + Len(jobs) - DoneJobs
    <3>1. errors' = 0 => written = sum + 0
      BY <2>1, <2>4, <1>o DEF Counted
    <3>2. sum \in Int
      BY <1>1, <1>3
    <3> HIDE DEF sum
    <3>3. errors' = 0 => written' = sum + 1
      BY <3>1, <3>2, <2>1
    <3> QED BY <3>3 DEF sum
  <2>6. Counted'
    BY <2>1, <2>4, <2>5, <1>o DEF Counted
  <2> QED BY <2>2, <2>3, <2>6 DEF OrderInv
<1>9. CASE JobJoins
  <2>1. /\ UNCHANGED <<items, committed, written, errors, FirstJob, FirstItem>>
        /\ Unqueued /\ ~Unqueued' /\ packet.n = written
        /\ Len(jobs') = Len(jobs) + 1 /\ jobs'[Len(jobs) + 1].n = written
        /\ \A i \in 1..Len(jobs) : jobs'[i] = jobs[i]
    <3>1. jobs' = Append(jobs, Item(packet)) /\ Unqueued /\ ~Unqueued'
      BY <1>9 DEF JobJoins
    <3>2. packet.n = written
      BY <3>1 DEF OrderInv, PacketIsNewest
    <3> QED BY <1>9, <3>1, <3>2, <1>1, <1>4, <1>5 DEF JobJoins, FirstJob, FirstItem
  <2>2. ASSUME NEW j \in 1..Len(jobs')
        PROVE  \/ j \in 1..Len(jobs) /\ jobs'[j] = jobs[j] /\ jobs'[j].n < written /\ jobs'[j].n \in Nat
               \/ j = Len(jobs) + 1 /\ jobs'[j].n = written
    <3>1. j \in 1..Len(jobs) \/ j = Len(jobs) + 1
      BY <2>1, <1>1
    <3> QED BY <3>1, <2>1, <1>2, <1>o DEF PacketIsNewest
  <2>3. CommittedComeFirst'
    <3>1. ASSUME NEW c \in 1..Len(committed), NEW j \in OpenJobs'
          PROVE  committed[c] < jobs'[j].n
      <4>1. j \in 1..Len(jobs') /\ (j \in 1..Len(jobs) => j \in OpenJobs)
        BY <2>1, <1>1, <1>3
      <4> QED BY <4>1, <2>1, <2>2, <1>o DEF CommittedComeFirst, PacketIsNewest
    <3> QED BY <3>1, <2>1, <1>o DEF CommittedComeFirst
  <2>4. ItemsComeNext'
    <3>1. ASSUME NEW i \in 1..Len(items), NEW j \in OpenJobs'
          PROVE  items[i].n < jobs'[j].n
      <4>1. j \in 1..Len(jobs') /\ (j \in 1..Len(jobs) => j \in OpenJobs)
        BY <2>1, <1>1, <1>3
      <4> QED BY <4>1, <2>1, <2>2, <1>o DEF ItemsComeNext, PacketIsNewest
    <3> QED BY <3>1, <2>1, <1>o DEF ItemsComeNext, Ascending
  <2>5. JobsComeLast'
    <3>1. ASSUME NEW i \in 1..Len(jobs'), NEW j \in 1..Len(jobs'), i < j
          PROVE  jobs'[i].n < jobs'[j].n
      <4>1. CASE j \in 1..Len(jobs)
        <5>1. i \in 1..Len(jobs)
          BY <3>1, <4>1, <1>1
        <5> QED BY <5>1, <4>1, <3>1, <2>1, <1>o DEF JobsComeLast, Ascending
      <4>2. CASE j = Len(jobs) + 1
        <5>1. i \in 1..Len(jobs)
          BY <3>1, <4>2, <1>1
        <5> QED BY <5>1, <4>2, <2>1, <1>o DEF PacketIsNewest
      <4> QED BY <4>1, <4>2, <2>2
    <3>2. ASSUME NEW j \in 1..Len(jobs') PROVE jobs'[j].n <= written
      BY <2>2, <1>1
    <3> QED BY <3>1, <3>2, <2>1 DEF JobsComeLast, Ascending
  <2>6. PacketIsNewest'
    BY <2>1 DEF PacketIsNewest
  <2>7. Asking = 1 /\ Asking' = 0
    BY <2>1 DEF Asking
  <2>8. Counted'
    <3>1. ASSUME errors = 0, NEW j \in OpenJobs'
          PROVE  jobs'[j].n = Len(committed) + Len(items) - DoneItems + j - DoneJobs
      <4>1. CASE j = Len(jobs) + 1
        BY <4>1, <3>1, <2>1, <2>7, <1>o, <1>1, <1>3 DEF Counted
      <4>2. CASE j # Len(jobs) + 1
        <5>1. j \in OpenJobs /\ jobs'[j] = jobs[j]
          BY <4>2, <2>1, <1>1, <1>3
        <5> QED BY <5>1, <3>1, <1>o DEF Counted
      <4> QED BY <4>1, <4>2
    <3>2. errors = 0 => written = Len(committed) + Len(items) - DoneItems + Len(jobs') - DoneJobs + Asking'
      BY <2>1, <2>7, <1>o, <1>1, <1>3 DEF Counted
    <3> QED BY <3>1, <3>2, <2>1, <1>o DEF Counted
  <2> QED BY <2>3, <2>4, <2>5, <2>6, <2>8 DEF OrderInv
<1>10. CASE ItemJoins
  <2>1. /\ UNCHANGED <<jobs, committed, written, errors, FirstJob, FirstItem>>
        /\ Unqueued /\ ~Unqueued' /\ packet.n = written /\ jobs = <<>> /\ Len(jobs) = 0 /\ FirstJob = 1
        /\ Len(items') = Len(items) + 1 /\ items'[Len(items) + 1].n = written
        /\ \A i \in 1..Len(items) : items'[i] = items[i]
    <3>1. items' = Append(items, Item(packet)) /\ Unqueued /\ ~Unqueued' /\ jobs = <<>>
      BY <1>10 DEF ItemJoins
    <3>2. packet.n = written
      BY <3>1 DEF OrderInv, PacketIsNewest
    <3>3. FirstJob = 1 /\ Len(jobs) = 0
      BY <3>1, <1>3 DEF FirstJob, Retiring
    <3> QED BY <1>10, <3>1, <3>2, <3>3, <1>1, <1>4, <1>5 DEF ItemJoins, FirstJob, FirstItem
  <2>2. \A j \in 1..Len(items') : j \in 1..Len(items) \/ j = Len(items) + 1
    BY <2>1, <1>1
  <2>3. CommittedComeFirst'
    <3>1. ASSUME NEW c \in 1..Len(committed), NEW i \in OpenItems'
          PROVE  committed[c] < items'[i].n
      <4>1. CASE i = Len(items) + 1
        BY <4>1, <2>1, <1>o DEF PacketIsNewest
      <4>2. CASE i # Len(items) + 1
        <5>1. i \in OpenItems /\ i \in 1..Len(items)
          BY <4>2, <2>1, <1>1, <1>3
        <5> QED BY <5>1, <2>1, <1>o DEF CommittedComeFirst
      <4> QED BY <4>1, <4>2
    <3> QED BY <3>1, <2>1, <1>o DEF CommittedComeFirst
  <2>4. ItemsComeNext'
    <3>1. ASSUME NEW i \in 1..Len(items'), NEW j \in 1..Len(items'), i < j
          PROVE  items'[i].n < items'[j].n
      <4>1. i \in 1..Len(items)
        BY <3>1, <2>1, <1>1
      <4>2. CASE j = Len(items) + 1
        BY <4>1, <4>2, <2>1, <1>o DEF PacketIsNewest
      <4>3. CASE j \in 1..Len(items)
        BY <4>1, <4>3, <3>1, <2>1, <1>o DEF ItemsComeNext, Ascending
      <4> QED BY <4>2, <4>3, <2>2
    <3>2. ASSUME NEW i \in 1..Len(items')
          PROVE  items'[i].n <= written
      <4>1. CASE i = Len(items) + 1
        BY <4>1, <2>1, <1>1
      <4>2. CASE i \in 1..Len(items)
        BY <4>2, <2>1, <1>o DEF ItemsComeNext
      <4> QED BY <4>1, <4>2, <2>2
    <3>3. OpenJobs' = {}
      BY <2>1
    <3> QED BY <3>1, <3>2, <3>3, <2>1 DEF ItemsComeNext, Ascending
  <2>5. JobsComeLast'
    BY <2>1, <1>1 DEF JobsComeLast, Ascending
  <2>6. PacketIsNewest'
    BY <2>1 DEF PacketIsNewest
  <2>7. Asking = 1 /\ Asking' = 0
    BY <2>1 DEF Asking
  <2>8. Counted'
    <3>1. ASSUME errors = 0, NEW i \in OpenItems'
          PROVE  items'[i].n = Len(committed) + i - DoneItems
      <4>1. CASE i = Len(items) + 1
        BY <4>1, <3>1, <2>1, <2>7, <1>o, <1>1, <1>3 DEF Counted
      <4>2. CASE i # Len(items) + 1
        <5>1. i \in OpenItems /\ items'[i] = items[i]
          BY <4>2, <2>1, <1>1, <1>3
        <5> QED BY <5>1, <3>1, <1>o DEF Counted
      <4> QED BY <4>1, <4>2
    <3>2. errors = 0 => written = Len(committed) + Len(items') - DoneItems + Len(jobs) - DoneJobs + Asking'
      BY <2>1, <2>7, <1>o, <1>1, <1>3 DEF Counted
    <3>3. OpenJobs' = {}
      BY <2>1
    <3> QED BY <3>1, <3>2, <3>3, <2>1, <1>o DEF Counted
  <2> QED BY <2>3, <2>4, <2>5, <2>6, <2>8 DEF OrderInv
<1>11. CASE JobIsPushed
  <2>1. /\ UNCHANGED <<jobs, committed, written, errors, FirstItem>> /\ (Unqueued' <=> Unqueued)
        /\ packet' = packet /\ FirstJob = 1 /\ FirstJob' = 2 /\ Len(jobs) > 0
        /\ Len(items') = Len(items) + 1 /\ items'[Len(items) + 1] = jobs[1]
        /\ \A i \in 1..Len(items) : items'[i] = items[i]
    <3>1. /\ items' = Append(items, Head(jobs)) /\ pc.finisher \in {"push", "room"}
          /\ pc' = [pc EXCEPT !.finisher = "retire"]
      BY <1>11 DEF JobIsPushed
    <3>2. Head(jobs) = jobs[1] /\ jobs[1] \in Items /\ Len(jobs) > 0
      BY <3>1, <1>1, <1>2, <1>3
    <3>3. FirstJob = 1 /\ FirstJob' = 2 /\ FirstItem' = FirstItem
      BY <3>1, <1>1 DEF FirstJob, FirstItem, Retiring
    <3> QED BY <1>11, <3>1, <3>2, <3>3, <1>1, <1>5 DEF JobIsPushed, OthersStep, Unqueued
  <2>2. /\ \A j \in 1..Len(items') : j \in 1..Len(items) \/ j = Len(items) + 1
        /\ \A j \in OpenItems' : j \in OpenItems \/ j = Len(items) + 1
        /\ \A j \in OpenJobs' : j \in OpenJobs /\ 1 < j /\ j \in 1..Len(jobs)
        /\ 1 \in OpenJobs /\ 1 \in 1..Len(jobs)
    BY <2>1, <1>1, <1>3
  <2>3. CommittedComeFirst'
    <3>1. ASSUME NEW c \in 1..Len(committed), NEW i \in OpenItems'
          PROVE  committed[c] < items'[i].n
      <4>1. CASE i = Len(items) + 1
        BY <4>1, <2>1, <2>2, <1>o DEF CommittedComeFirst
      <4>2. CASE i \in OpenItems
        <5>1. i \in 1..Len(items)
          BY <4>2, <1>1, <1>3
        <5> QED BY <5>1, <4>2, <2>1, <1>o DEF CommittedComeFirst
      <4> QED BY <4>1, <4>2, <2>2
    <3> QED BY <3>1, <2>1, <2>2, <1>o DEF CommittedComeFirst
  <2>4. ItemsComeNext'
    <3>1. ASSUME NEW i \in 1..Len(items'), NEW j \in 1..Len(items'), i < j
          PROVE  items'[i].n < items'[j].n
      <4>0. i \in 1..Len(items)
        BY <3>1, <2>1, <1>1
      <4>1. CASE j = Len(items) + 1
        BY <4>0, <4>1, <2>1, <2>2, <1>o DEF ItemsComeNext
      <4>2. CASE j \in 1..Len(items)
        BY <4>0, <4>2, <3>1, <2>1, <1>o DEF ItemsComeNext, Ascending
      <4> QED BY <4>1, <4>2, <2>2
    <3>2. ASSUME NEW i \in 1..Len(items')
          PROVE  items'[i].n <= written /\ \A j \in OpenJobs' : items'[i].n < jobs[j].n
      <4>1. CASE i = Len(items) + 1
        BY <4>1, <2>1, <2>2, <1>o DEF JobsComeLast, Ascending
      <4>2. CASE i \in 1..Len(items)
        BY <4>2, <2>1, <2>2, <1>o DEF ItemsComeNext
      <4> QED BY <4>1, <4>2, <2>2
    <3> QED BY <3>1, <3>2, <2>1 DEF ItemsComeNext, Ascending
  <2>5. JobsComeLast'
    BY <2>1, <1>1 DEF OrderInv, JobsComeLast, Ascending
  <2>6. PacketIsNewest'
    BY <2>1, <2>2, <1>1 DEF OrderInv, PacketIsNewest
  <2>7. Asking' = Asking
    BY <2>1 DEF Asking
  <2>8. Counted'
    <3>1. ASSUME errors = 0, NEW i \in OpenItems'
          PROVE  items'[i].n = Len(committed) + i - DoneItems
      <4>1. CASE i = Len(items) + 1
        <5>1. jobs[1].n = Len(committed) + Len(items) - DoneItems + 1 - DoneJobs /\ DoneJobs = 0
          BY <3>1, <2>1, <2>2, <1>o DEF Counted
        <5> QED BY <5>1, <4>1, <2>1, <1>1, <1>3
      <4>2. CASE i \in OpenItems
        <5>1. i \in 1..Len(items)
          BY <4>2, <1>1, <1>3
        <5> QED BY <5>1, <4>2, <3>1, <2>1, <1>o DEF Counted
      <4> QED BY <4>1, <4>2, <2>2
    <3>2. ASSUME errors = 0, NEW j \in OpenJobs'
          PROVE  jobs[j].n = Len(committed) + Len(items') - DoneItems + j - DoneJobs'
      <4>1. jobs[j].n = Len(committed) + Len(items) - DoneItems + j - DoneJobs /\ j \in Int
        BY <3>2, <2>1, <2>2, <1>o DEF Counted
      <4> QED BY <4>1, <2>1, <1>1, <1>3
    <3>3. errors = 0 => written = Len(committed) + Len(items') - DoneItems + Len(jobs) - DoneJobs' + Asking'
      <4>1. Asking \in {0, 1}
        BY DEF Asking
      <4>2. errors = 0 => written = Len(committed) + Len(items) - DoneItems + Len(jobs) - DoneJobs + Asking
        BY <1>o DEF Counted
      <4>3. DoneJobs = 0 /\ DoneJobs' = 1 /\ Len(items') = Len(items) + 1 /\ DoneItems \in {0, 1}
        BY <2>1, <1>3
      <4> HIDE DEF DoneItems, DoneJobs
      <4> QED BY <4>1, <4>2, <4>3, <2>7, <1>1
    <3> QED BY <3>1, <3>2, <3>3, <2>1, <1>o DEF Counted
  <2> QED BY <2>3, <2>4, <2>5, <2>6, <2>8 DEF OrderInv
<1>12. CASE JobLeaves
  <2>1. /\ UNCHANGED <<items, committed, written, errors, FirstItem>> /\ (Unqueued' <=> Unqueued)
        /\ packet' = packet /\ FirstJob = 2 /\ FirstJob' = 1 /\ Len(jobs) > 0
        /\ Len(jobs') = Len(jobs) - 1 /\ \A i \in 1..(Len(jobs) - 1) : jobs'[i] = jobs[i + 1]
    <3>1. jobs' = Tail(jobs) /\ Retiring(pc.finisher) /\ pc' = [pc EXCEPT !.finisher = "fetch"]
      BY <1>12 DEF JobLeaves
    <3>2. jobs # <<>> /\ Len(jobs) > 0
      BY <3>1, <1>3 DEF Retiring
    <3>3. FirstJob = 2 /\ FirstJob' = 1 /\ FirstItem' = FirstItem
      BY <3>1, <1>1 DEF FirstJob, FirstItem, Retiring
    <3> QED BY <1>12, <3>1, <3>2, <3>3, <1>1, <1>6 DEF JobLeaves, OthersStep, Unqueued
  <2>2. ASSUME NEW j \in 1..Len(jobs')
        PROVE  j \in Int /\ j + 1 \in OpenJobs /\ j + 1 \in 1..Len(jobs) /\ jobs'[j] = jobs[j + 1]
    BY <2>1, <1>1
  <2>3. OpenJobs' = 1..Len(jobs')
    BY <2>1
  <2>4. CommittedComeFirst'
    <3>1. ASSUME NEW c \in 1..Len(committed), NEW j \in OpenJobs'
          PROVE  committed[c] < jobs'[j].n
      BY <2>2, <2>3, <1>o DEF CommittedComeFirst
    <3> QED BY <3>1, <2>1, <1>o DEF CommittedComeFirst
  <2>5. ItemsComeNext'
    <3>1. ASSUME NEW i \in 1..Len(items), NEW j \in OpenJobs'
          PROVE  items[i].n < jobs'[j].n
      BY <2>2, <2>3, <1>o DEF ItemsComeNext
    <3> QED BY <3>1, <2>1, <1>o DEF ItemsComeNext, Ascending
  <2>6. JobsComeLast'
    <3>1. ASSUME NEW i \in 1..Len(jobs'), NEW j \in 1..Len(jobs'), i < j
          PROVE  jobs'[i].n < jobs'[j].n
      <4>1. i + 1 < j + 1
        BY <3>1, <2>2
      <4> QED BY <4>1, <2>2, <1>o DEF JobsComeLast, Ascending
    <3>2. ASSUME NEW j \in 1..Len(jobs') PROVE jobs'[j].n <= written
      BY <2>2, <1>o DEF JobsComeLast
    <3> QED BY <3>1, <3>2, <2>1 DEF JobsComeLast, Ascending
  <2>7. PacketIsNewest'
    <3>1. ASSUME Unqueued, NEW j \in 1..Len(jobs') PROVE jobs'[j].n < written
      BY <3>1, <2>2, <1>o DEF PacketIsNewest
    <3> QED BY <3>1, <2>1, <1>o DEF PacketIsNewest
  <2>8. Asking' = Asking
    BY <2>1 DEF Asking
  <2>9. Counted'
    <3>1. ASSUME errors = 0, NEW j \in OpenJobs'
          PROVE  jobs'[j].n = Len(committed) + Len(items) - DoneItems + j - DoneJobs'
      <4>1. jobs[j + 1].n = Len(committed) + Len(items) - DoneItems + (j + 1) - DoneJobs
        BY <3>1, <2>2, <2>3, <1>o DEF Counted
      <4> QED BY <4>1, <2>1, <2>2, <2>3, <1>1, <1>3
    <3>2. errors = 0 => written = Len(committed) + Len(items) - DoneItems + Len(jobs') - DoneJobs' + Asking'
      <4>1. Asking \in {0, 1}
        BY DEF Asking
      <4> QED BY <4>1, <2>1, <2>8, <1>o, <1>1, <1>3 DEF Counted
    <3> QED BY <3>1, <3>2, <2>1, <1>o DEF Counted
  <2> QED BY <2>4, <2>5, <2>6, <2>7, <2>9 DEF OrderInv
<1>13. CASE ItemIsDone
  <2>1. /\ UNCHANGED <<jobs, items, written, errors, FirstJob>> /\ (Unqueued' <=> Unqueued)
        /\ packet' = packet /\ FirstItem = 1 /\ FirstItem' = 2 /\ Len(items) > 0
        /\ Len(committed') = Len(committed) + 1 /\ committed'[Len(committed) + 1] = items[1].n
        /\ \A c \in 1..Len(committed) : committed'[c] = committed[c]
    <3>1. /\ committed' = Append(committed, Head(items).n) /\ pc.committer = "commit"
          /\ pc' = [pc EXCEPT !.committer = "retire"]
      BY <1>13 DEF ItemIsDone
    <3>2. Head(items) = items[1] /\ items[1].n \in Nat /\ Len(items) > 0
      BY <3>1, <1>1, <1>2, <1>3
    <3>3. FirstItem = 1 /\ FirstItem' = 2 /\ FirstJob' = FirstJob
      BY <3>1, <1>1 DEF FirstJob, FirstItem, Retiring
    <3> QED BY <1>13, <3>1, <3>2, <3>3, <1>1, <1>5 DEF ItemIsDone, OthersStep, Unqueued
  <2>2. /\ \A c \in 1..Len(committed') : c \in 1..Len(committed) \/ c = Len(committed) + 1
        /\ \A i \in OpenItems' : i \in OpenItems /\ i \in 1..Len(items) /\ 1 < i /\ i \in Int
        /\ 1 \in OpenItems /\ 1 \in 1..Len(items)
    BY <2>1, <1>1, <1>3
  <2>3. CommittedComeFirst'
    <3>1. ASSUME NEW c \in 1..Len(committed'), NEW d \in 1..Len(committed'), c < d
          PROVE  committed'[c] < committed'[d]
      <4>0. c \in 1..Len(committed)
        BY <3>1, <2>1, <1>1
      <4>1. CASE d = Len(committed) + 1
        BY <4>0, <4>1, <2>1, <2>2, <1>o DEF CommittedComeFirst
      <4>2. CASE d \in 1..Len(committed)
        BY <4>0, <4>2, <3>1, <2>1, <1>o DEF CommittedComeFirst
      <4> QED BY <4>1, <4>2, <2>2
    <3>2. ASSUME NEW c \in 1..Len(committed')
          PROVE  /\ committed'[c] <= written
                 /\ \A i \in OpenItems' : committed'[c] < items[i].n
                 /\ \A j \in OpenJobs' : committed'[c] < jobs[j].n
      <4>1. CASE c = Len(committed) + 1
        BY <4>1, <2>1, <2>2, <1>o DEF ItemsComeNext, Ascending
      <4>2. CASE c \in 1..Len(committed)
        BY <4>2, <2>1, <2>2, <1>o DEF CommittedComeFirst
      <4> QED BY <4>1, <4>2, <2>2
    <3> QED BY <3>1, <3>2, <2>1 DEF CommittedComeFirst
  <2>4. ItemsComeNext'
    BY <2>1, <1>1, <1>3 DEF OrderInv, ItemsComeNext, Ascending
  <2>5. JobsComeLast'
    BY <2>1, <1>1 DEF OrderInv, JobsComeLast, Ascending
  <2>6. PacketIsNewest'
    BY <2>1, <2>2, <1>1 DEF OrderInv, PacketIsNewest
  <2>7. Asking' = Asking
    BY <2>1 DEF Asking
  <2>8. Counted'
    <3>1. ASSUME errors = 0, NEW c \in 1..Len(committed')
          PROVE  committed'[c] = c
      <4>1. CASE c = Len(committed) + 1
        <5>1. items[1].n = Len(committed) + 1 - DoneItems /\ DoneItems = 0
          BY <3>1, <2>1, <2>2, <1>o DEF Counted
        <5> QED BY <5>1, <4>1, <2>1, <1>1
      <4>2. CASE c \in 1..Len(committed)
        BY <4>2, <3>1, <2>1, <1>o DEF Counted
      <4> QED BY <4>1, <4>2, <2>2
    <3>2. ASSUME errors = 0, NEW i \in OpenItems'
          PROVE  items[i].n = Len(committed') + i - DoneItems'
      <4>1. items[i].n = Len(committed) + i - DoneItems
        BY <3>2, <2>2, <1>o DEF Counted
      <4> QED BY <4>1, <2>1, <2>2, <1>1
    <3>3. ASSUME errors = 0, NEW j \in OpenJobs
          PROVE  jobs[j].n = Len(committed') + Len(items) - DoneItems' + j - DoneJobs
      <4>1. jobs[j].n = Len(committed) + Len(items) - DoneItems + j - DoneJobs /\ j \in Int
        BY <3>3, <1>o, <1>1, <1>3 DEF Counted
      <4> QED BY <4>1, <2>1, <1>1, <1>3
    <3>4. errors = 0 => written = Len(committed') + Len(items) - DoneItems' + Len(jobs) - DoneJobs + Asking'
      <4>1. Asking \in {0, 1}
        BY DEF Asking
      <4>2. errors = 0 => written = Len(committed) + Len(items) - DoneItems + Len(jobs) - DoneJobs + Asking
        BY <1>o DEF Counted
      <4>3. /\ DoneItems = 0 /\ DoneItems' = 1 /\ Len(committed') = Len(committed) + 1
            /\ DoneJobs \in {0, 1}
        BY <2>1, <1>3
      <4> HIDE DEF DoneItems, DoneJobs
      <4> QED BY <4>1, <4>2, <4>3, <2>7, <1>1
    <3> QED BY <3>1, <3>2, <3>3, <3>4, <2>1 DEF Counted
  <2> QED BY <2>3, <2>4, <2>5, <2>6, <2>8 DEF OrderInv
<1>14. CASE ItemLeaves
  <2>1. /\ UNCHANGED <<jobs, committed, written, errors, FirstJob>> /\ (Unqueued' <=> Unqueued)
        /\ packet' = packet /\ FirstItem = 2 /\ FirstItem' = 1 /\ Len(items) > 0
        /\ Len(items') = Len(items) - 1 /\ \A i \in 1..(Len(items) - 1) : items'[i] = items[i + 1]
    <3>1. items' = Tail(items) /\ Retiring(pc.committer) /\ pc' = [pc EXCEPT !.committer = "fetch"]
      BY <1>14 DEF ItemLeaves
    <3>2. items # <<>> /\ Len(items) > 0
      BY <3>1, <1>3 DEF Retiring
    <3>3. FirstItem = 2 /\ FirstItem' = 1 /\ FirstJob' = FirstJob
      BY <3>1, <1>1 DEF FirstJob, FirstItem, Retiring
    <3> QED BY <1>14, <3>1, <3>2, <3>3, <1>1, <1>6 DEF ItemLeaves, OthersStep, Unqueued
  <2>2. ASSUME NEW i \in 1..Len(items')
        PROVE  i \in Int /\ i + 1 \in OpenItems /\ i + 1 \in 1..Len(items) /\ items'[i] = items[i + 1]
    BY <2>1, <1>1
  <2>3. OpenItems' = 1..Len(items')
    BY <2>1
  <2>4. CommittedComeFirst'
    <3>1. ASSUME NEW c \in 1..Len(committed), NEW i \in OpenItems'
          PROVE  committed[c] < items'[i].n
      BY <2>2, <2>3, <1>o DEF CommittedComeFirst
    <3> QED BY <3>1, <2>1, <1>o DEF CommittedComeFirst
  <2>5. ItemsComeNext'
    <3>1. ASSUME NEW i \in 1..Len(items'), NEW j \in 1..Len(items'), i < j
          PROVE  items'[i].n < items'[j].n
      <4>1. i + 1 < j + 1
        BY <3>1, <2>2
      <4> QED BY <4>1, <2>2, <1>o DEF ItemsComeNext, Ascending
    <3>2. ASSUME NEW i \in 1..Len(items')
          PROVE  items'[i].n <= written /\ \A j \in OpenJobs : items'[i].n < jobs[j].n
      BY <2>2, <1>o DEF ItemsComeNext
    <3> QED BY <3>1, <3>2, <2>1 DEF ItemsComeNext, Ascending
  <2>6. JobsComeLast'
    BY <2>1, <1>1 DEF OrderInv, JobsComeLast, Ascending
  <2>7. PacketIsNewest'
    <3>1. ASSUME Unqueued, NEW i \in 1..Len(items') PROVE items'[i].n < written
      BY <3>1, <2>2, <1>o DEF PacketIsNewest
    <3> QED BY <3>1, <2>1, <1>o DEF PacketIsNewest
  <2>8. Asking' = Asking
    BY <2>1 DEF Asking
  <2>9. Counted'
    <3>1. ASSUME errors = 0, NEW i \in OpenItems'
          PROVE  items'[i].n = Len(committed) + i - DoneItems'
      <4>1. items[i + 1].n = Len(committed) + (i + 1) - DoneItems
        BY <3>1, <2>2, <2>3, <1>o DEF Counted
      <4> QED BY <4>1, <2>1, <2>2, <2>3, <1>1
    <3>2. ASSUME errors = 0, NEW j \in OpenJobs
          PROVE  jobs[j].n = Len(committed) + Len(items') - DoneItems' + j - DoneJobs
      <4>1. jobs[j].n = Len(committed) + Len(items) - DoneItems + j - DoneJobs /\ j \in Int
        BY <3>2, <1>o, <1>1, <1>3 DEF Counted
      <4> QED BY <4>1, <2>1, <1>1, <1>3
    <3>3. errors = 0 => written = Len(committed) + Len(items') - DoneItems' + Len(jobs) - DoneJobs + Asking'
      <4>1. Asking \in {0, 1}
        BY DEF Asking
      <4> QED BY <4>1, <2>1, <2>8, <1>o, <1>1, <1>3 DEF Counted
    <3> QED BY <3>1, <3>2, <3>3, <2>1, <1>o DEF Counted
  <2> QED BY <2>4, <2>5, <2>6, <2>7, <2>9 DEF OrderInv
<1> QED BY <1>7, <1>8, <1>9, <1>10, <1>11, <1>12, <1>13, <1>14 DEF QueueStep

LEMMA OrderAlways == Spec => []OrderInv
<1>1. Init => OrderInv
  <2>1. Init => /\ Len(jobs) = 0 /\ Len(items) = 0 /\ Len(committed) = 0 /\ written = 0
                /\ FirstItem = 1 /\ FirstJob = 1 /\ ~Unqueued
    BY DEF Init, FirstItem, FirstJob, Retiring, Unqueued
  <2>2. Init => CommittedComeFirst /\ ItemsComeNext /\ JobsComeLast /\ PacketIsNewest
    BY <2>1 DEF CommittedComeFirst, ItemsComeNext, JobsComeLast, PacketIsNewest, Ascending
  <2>3. Init => Asking = 0
    BY <2>1 DEF Asking
  <2>4. Init => Counted
    BY <2>1, <2>3 DEF Counted, OpenItems, OpenJobs, DoneItems, DoneJobs
  <2> QED BY <2>2, <2>4 DEF OrderInv
<1>2. PlanInv /\ PlanInv' /\ OrderInv /\ [Next]_vars => OrderInv'
  BY PlanStep, OrderStep
<1> QED BY <1>1, <1>2, PlanAlways, PTL DEF Spec

\* Commits are done in packet order, none twice and, as long as nothing threw, none
\* left out: the finisher's jobs and the worker's own commits meet in one queue, and
\* DrawPipeline::enqueue lets the worker pass only when the finisher has no job.
THEOREM CommitsKeepPacketOrder == Spec => []CommitsInOrder
<1>1. PlanInv /\ OrderInv => CommitsInOrder
  <2>1. ASSUME PlanInv, OrderInv, NEW i \in 1..Len(committed)
        PROVE  /\ i > 1 => committed[i - 1] < committed[i]
               /\ errors = 0 => committed[i] = i
    <3>1. i > 1 => i - 1 \in 1..Len(committed) /\ i - 1 < i
      <4>1. Len(committed) \in Nat
        BY <2>1, LenProperties DEF PlanInv, TypeOK
      <4> QED BY <4>1
    <3> QED BY <2>1, <3>1 DEF OrderInv, CommittedComeFirst, Counted
  <2> QED BY <2>1 DEF CommitsInOrder
<1> QED BY <1>1, PlanAlways, OrderAlways, PTL


-----------------------------------------------------------------------------
(* Where the last write to a place is.                                     *)

\* The last write to p is done, or in one of the queues.
IsQueuedOrDone(p) ==
    \/ memory[p] = latest[p]
    \/ \E i \in OpenItems : items[i].to = p /\ items[i].n = latest[p]
    \/ \E j \in OpenJobs : jobs[j].to = p /\ jobs[j].n = latest[p]

\* What is queued to a place is between what the place holds and its last write.
Between(q, p) == \A i \in 1..Len(q) : q[i].to = p => memory[p] <= q[i].n /\ q[i].n <= latest[p]

LastWriteIsKnown ==
    \A p \in Places :
        /\ memory[p] <= latest[p] /\ latest[p] <= written
        /\ Between(items, p) /\ Between(jobs, p)
        /\ IF Unqueued /\ packet.to = p THEN packet.n = latest[p] ELSE IsQueuedOrDone(p)

ItemsBeforeJobs == \A i \in 1..Len(items), j \in 1..Len(jobs) : items[i].n <= jobs[j].n

ReadInv ==
    /\ errors = 0 => LastWriteIsKnown /\ ItemsBeforeJobs
    /\ ReadsSeeLatest

\* What the steps do to the queues keeps track of the last writes.
LEMMA ReadStep ==
    ASSUME PlanInv, PlanInv', OrderInv, ReadInv, QueueStep
    PROVE  ReadInv'
<1> USE DEF OpenJobs, OpenItems
<1> SUFFICES ASSUME errors' = 0
             PROVE  LastWriteIsKnown' /\ ItemsBeforeJobs' /\ ReadsSeeLatest'
  BY DEF ReadInv, ReadsSeeLatest
<1>1. /\ jobs \in Seq(Items) /\ items \in Seq(Items) /\ written \in Nat
      /\ Len(jobs) \in Nat /\ Len(items) \in Nat /\ packet.n \in Nat /\ packet'.n \in Nat
      /\ memory \in [Places -> Nat] /\ latest \in [Places -> Nat]
      /\ pc \in [{"finisher", "committer"} -> {"fetch", "work", "push", "room", "commit", "retire", "retire_failed", "gone"}]
  BY LenProperties DEF PlanInv, TypeOK
<1>2. ASSUME NEW q \in Seq(Items), NEW i \in 1..Len(q)
      PROVE  q[i] \in Items /\ q[i].n \in Nat
  <2>1. \A s \in Items : s.n \in Nat
    BY DEF Items
  <2> QED BY <2>1, <1>2, ElementOfSeq
<1>3. FirstJob \in {1, 2} /\ FirstItem \in {1, 2}
  BY DEF FirstJob, FirstItem
<1>4. /\ pc.finisher # "fetch" => jobs # <<>> /\ Len(jobs) > 0 /\ Head(jobs) = jobs[1] /\ jobs[1] \in Items
      /\ pc.committer \notin {"fetch", "gone"} =>
            items # <<>> /\ Len(items) > 0 /\ Head(items) = items[1] /\ items[1] \in Items
  <2>1. \A q \in Seq(Items) : q # <<>> => Len(q) > 0 /\ Head(q) = q[1] /\ q[1] \in Items
    BY EmptySeq, LenProperties, HeadTailProperties
  <2> QED BY <1>1, <2>1 DEF PlanInv, WorkIsThere
<1>5. Item(packet) \in Items /\ Item(packet).n = packet.n /\ Item(packet).to = packet.to
  BY DEF PlanInv, TypeOK, Item, Items
<1>6. ASSUME NEW S, NEW q \in Seq(S), NEW e \in S, NEW r, r = Append(q, e)
      PROVE  /\ Len(r) = Len(q) + 1 /\ r[Len(q) + 1] = e
             /\ \A i \in 1..Len(q) : r[i] = q[i]
  BY <1>6, AppendProperties
<1>7. ASSUME NEW q \in Seq(Items), q # <<>>, NEW r, r = Tail(q)
      PROVE  Len(r) = Len(q) - 1 /\ \A i \in 1..(Len(q) - 1) : r[i] = q[i + 1]
  BY <1>7, HeadTailProperties
<1>8. errors = 0 /\ LastWriteIsKnown /\ ItemsBeforeJobs /\ ReadsSeeLatest
  BY DEF QueueStep, Still, Asks, JobJoins, ItemJoins, JobIsPushed, JobLeaves, ItemIsDone, ItemLeaves,
         OthersStep, ReadInv
<1>9. ItemsComeNext /\ JobsComeLast /\ PacketIsNewest /\ Ascending(jobs) /\ Ascending(items)
  BY DEF OrderInv, ItemsComeNext, JobsComeLast
\* A queue that holds the last write to a place holds it last.
<1>10. ASSUME NEW q \in {jobs, items}, NEW p \in Places, NEW k \in 1..Len(q), Between(q, p),
              q[k].to = p, q[k].n = latest[p]
       PROVE  q[LastTo(q, p)].n = latest[p]
  <2>0. q \in Seq(Items) /\ Ascending(q) /\ latest[p] \in Nat /\ Len(q) \in Nat
    BY <1>1, <1>9
  <2>1. ASSUME NEW j \in 1..Len(q), q[j].to = p
        PROVE  j <= k
    <3>1. CASE k < j
      BY <2>0, <2>1, <3>1, <1>2, <1>10 DEF Ascending, Between
    <3> QED BY <3>1
  <2>2. \A j \in (k + 1)..Len(q) : q[j].to # p
    BY <2>1
  <2>3. PICK m : m = LastTo(q, p)
    OBVIOUS
  <2>4. m \in 1..Len(q) /\ q[m].to = p /\ \A j \in (m + 1)..Len(q) : q[j].to # p
    BY <2>2, <2>3, <1>10 DEF LastTo
  <2>5. m = k
    BY <2>1, <2>4, <1>10, <2>0
  <2> QED BY <2>3, <2>5, <1>10
\* What a queued label, or memory that nothing queued writes, tells is the last write.
<1>11. ASSUME ~Unqueued, Tells, packet.to \in Places
       PROVE  answer'.value = latest[packet.to]
  <2> DEFINE p == packet.to
  <2>1. /\ IsQueuedOrDone(p) /\ Between(items, p) /\ Between(jobs, p)
        /\ memory[p] \in Nat /\ latest[p] \in Nat
    BY <1>1, <1>8, <1>11 DEF LastWriteIsKnown
  <2>2. CASE Holds(jobs, p)
    <3>1. PICK k \in 1..Len(jobs) : jobs[k].to = p /\ memory[p] <= jobs[k].n /\ jobs[k].n <= latest[p]
      BY <2>1, <2>2 DEF Holds, Between
    <3>2. jobs[k].n \in Nat
      BY <1>1, <1>2
    <3>3. \E j \in 1..Len(jobs) : jobs[j].to = p /\ jobs[j].n = latest[p]
      <4>1. CASE memory[p] = latest[p]
        BY <4>1, <3>1, <3>2, <2>1
      <4>2. CASE \E i \in OpenItems : items[i].to = p /\ items[i].n = latest[p]
        <5>1. PICK i \in OpenItems : items[i].n = latest[p]
          BY <4>2
        <5>2. i \in 1..Len(items)
          BY <1>1, <1>3
        <5> QED BY <5>1, <5>2, <3>1, <3>2, <2>1, <1>8 DEF ItemsBeforeJobs
      <4>3. CASE \E j \in OpenJobs : jobs[j].to = p /\ jobs[j].n = latest[p]
        <5>1. PICK j \in OpenJobs : jobs[j].to = p /\ jobs[j].n = latest[p]
          BY <4>3
        <5>2. j \in 1..Len(jobs)
          BY <1>1, <1>3
        <5> QED BY <5>1, <5>2
      <4> QED BY <4>1, <4>2, <4>3, <2>1 DEF IsQueuedOrDone
    <3>4. jobs[LastTo(jobs, p)].n = latest[p]
      BY <3>3, <2>1, <1>10, <1>11
    <3> QED BY <3>4, <2>2, <1>11 DEF Tells, HoldsLabel
  <2>3. CASE ~Holds(jobs, p) /\ Holds(items, p)
    <3>1. PICK k \in 1..Len(items) : items[k].to = p /\ memory[p] <= items[k].n /\ items[k].n <= latest[p]
      BY <2>1, <2>3 DEF Holds, Between
    <3>2. items[k].n \in Nat
      BY <1>1, <1>2
    <3>3. \E j \in 1..Len(items) : items[j].to = p /\ items[j].n = latest[p]
      <4>1. CASE memory[p] = latest[p]
        BY <4>1, <3>1, <3>2, <2>1
      <4>2. CASE \E i \in OpenItems : items[i].to = p /\ items[i].n = latest[p]
        <5>1. PICK i \in OpenItems : items[i].to = p /\ items[i].n = latest[p]
          BY <4>2
        <5>2. i \in 1..Len(items)
          BY <1>1, <1>3
        <5> QED BY <5>1, <5>2
      <4>3. CASE \E j \in OpenJobs : jobs[j].to = p /\ jobs[j].n = latest[p]
        <5>1. PICK j \in OpenJobs : jobs[j].to = p
          BY <4>3
        <5>2. j \in 1..Len(jobs)
          BY <1>1, <1>3
        <5> QED BY <5>1, <5>2, <2>3 DEF Holds
      <4> QED BY <4>1, <4>2, <4>3, <2>1 DEF IsQueuedOrDone
    <3>4. items[LastTo(items, p)].n = latest[p]
      BY <3>3, <2>1, <1>10, <1>11
    <3> QED BY <3>4, <2>3, <1>11 DEF Tells, HoldsLabel
  <2>4. CASE ~Holds(jobs, p) /\ ~Holds(items, p)
    <3>1. OpenJobs \subseteq 1..Len(jobs) /\ OpenItems \subseteq 1..Len(items)
      BY <1>1, <1>3
    <3>2. memory[p] = latest[p]
      BY <2>1, <2>4, <3>1 DEF IsQueuedOrDone, Holds
    <3> QED BY <3>2, <2>4, <1>11 DEF Tells, HoldsLabel
  <2> QED BY <2>2, <2>3, <2>4
<1> HIDE DEF OpenJobs, OpenItems
<1>12. CASE Still
  <2>1. /\ UNCHANGED <<jobs, items, memory, latest, written>>
        /\ FirstJob' = FirstJob /\ FirstItem' = FirstItem /\ (Unqueued' <=> Unqueued)
        /\ Unqueued' => packet' = packet
    BY <1>12 DEF Still, FirstJob, FirstItem, Retiring, PlanInv, NoErrorNoFailure
  <2>2. LastWriteIsKnown'
    BY <2>1, <1>8 DEF LastWriteIsKnown, IsQueuedOrDone, Between, OpenJobs, OpenItems
  <2>3. ReadsSeeLatest'
    <3>1. answer' \in {answer, NoAnswer} \/ (Tells /\ ~Unqueued)
      BY <1>12 DEF Still
    <3>2. CASE answer' \in {answer, NoAnswer}
      BY <3>2, <2>1, <1>8, PlacesAssumption DEF ReadsSeeLatest, NoAnswer
    <3>3. CASE Tells /\ ~Unqueued
      BY <3>3, <2>1, <1>11 DEF ReadsSeeLatest, Tells
    <3> QED BY <3>1, <3>2, <3>3
  <2> QED BY <2>1, <2>2, <2>3, <1>8 DEF ItemsBeforeJobs
<1>13. CASE Asks
  <2>1. /\ UNCHANGED <<jobs, items, memory, FirstJob, FirstItem>>
        /\ ~Unqueued /\ Unqueued' /\ written' = written + 1 /\ packet'.n = written + 1
        /\ answer' = NoAnswer
        /\ latest' = IF packet'.to \in Places THEN [latest EXCEPT ![packet'.to] = written + 1] ELSE latest
    BY <1>13 DEF Asks, FirstJob, FirstItem
  <2>2. ASSUME NEW p \in Places
        PROVE  /\ memory'[p] <= latest'[p] /\ latest'[p] <= written'
               /\ Between(items, p)' /\ Between(jobs, p)'
               /\ IF Unqueued' /\ packet'.to = p THEN packet'.n = latest'[p] ELSE IsQueuedOrDone(p)'
    <3>1. /\ memory[p] <= latest[p] /\ latest[p] <= written
          /\ Between(items, p) /\ Between(jobs, p) /\ IsQueuedOrDone(p)
          /\ memory[p] \in Nat /\ latest[p] \in Nat
      BY <2>1, <1>1, <1>8 DEF LastWriteIsKnown
    <3>2. CASE packet'.to = p
      <4>1. latest'[p] = written + 1 /\ latest[p] <= latest'[p] /\ memory'[p] = memory[p]
        BY <3>1, <3>2, <2>1, <1>1
      <4>2. Between(items, p)'
        <5>1. ASSUME NEW i \in 1..Len(items), items[i].to = p
              PROVE  memory[p] <= items[i].n /\ items[i].n <= latest'[p]
          BY <5>1, <3>1, <4>1, <1>1, <1>2 DEF Between
        <5> QED BY <5>1, <2>1 DEF Between
      <4>3. Between(jobs, p)'
        <5>1. ASSUME NEW i \in 1..Len(jobs), jobs[i].to = p
              PROVE  memory[p] <= jobs[i].n /\ jobs[i].n <= latest'[p]
          BY <5>1, <3>1, <4>1, <1>1, <1>2 DEF Between
        <5> QED BY <5>1, <2>1 DEF Between
      <4>4. memory[p] <= latest'[p] /\ latest'[p] <= written'
        BY <3>1, <4>1, <2>1, <1>1
      <4> QED BY <4>1, <4>2, <4>3, <4>4, <3>2, <2>1
    <3>3. CASE packet'.to # p
      <4>1. latest'[p] = latest[p] /\ memory'[p] = memory[p]
        BY <3>3, <2>1, <1>1
      <4>2. latest'[p] <= written'
        BY <3>1, <4>1, <2>1, <1>1
      <4>3. Between(items, p)' /\ Between(jobs, p)'
        BY <3>1, <4>1, <2>1 DEF Between
      <4>4. IsQueuedOrDone(p)'
        BY <3>1, <4>1, <2>1 DEF IsQueuedOrDone, OpenItems, OpenJobs
      <4> QED BY <3>1, <3>3, <4>1, <4>2, <4>3, <4>4
    <3> QED BY <3>2, <3>3
  <2>3. ReadsSeeLatest'
    BY <2>1, PlacesAssumption DEF ReadsSeeLatest, NoAnswer
  <2> QED BY <2>1, <2>2, <2>3, <1>8 DEF LastWriteIsKnown, ItemsBeforeJobs
\* In the other steps nothing is asked or answered.
<1>14. ASSUME UNCHANGED <<latest, written, answer>>
       PROVE  ReadsSeeLatest'
  BY <1>14, <1>8 DEF ReadsSeeLatest
<1>15. CASE JobJoins
  <2>1. /\ UNCHANGED <<items, memory, latest, written, answer, FirstJob, FirstItem>>
        /\ Unqueued /\ ~Unqueued' /\ packet.n = written
        /\ Len(jobs') = Len(jobs) + 1
        /\ jobs'[Len(jobs) + 1].n = packet.n /\ jobs'[Len(jobs) + 1].to = packet.to
        /\ \A i \in 1..Len(jobs) : jobs'[i] = jobs[i]
    <3>1. jobs' = Append(jobs, Item(packet)) /\ Unqueued /\ ~Unqueued'
      BY <1>15 DEF JobJoins
    <3>2. packet.n = written
      BY <3>1, <1>9 DEF PacketIsNewest
    <3> QED BY <1>15, <3>1, <3>2, <1>1, <1>5, <1>6 DEF JobJoins, FirstJob, FirstItem
  <2>2. /\ \A j \in 1..Len(jobs') : j \in 1..Len(jobs) \/ j = Len(jobs) + 1
        /\ Len(jobs) + 1 \in OpenJobs'
        /\ \A j \in OpenJobs : j \in OpenJobs' /\ j \in 1..Len(jobs)
    <3>1. FirstJob <= Len(jobs) + 1
      BY <1>1, <1>4 DEF FirstJob, Retiring
    <3> QED BY <3>1, <2>1, <1>1, <1>3 DEF OpenJobs
  <2>3. ASSUME NEW p \in Places
        PROVE  /\ memory'[p] <= latest'[p] /\ latest'[p] <= written'
               /\ Between(items, p)' /\ Between(jobs, p)' /\ IsQueuedOrDone(p)'
    <3>1. /\ memory[p] <= latest[p] /\ latest[p] <= written
          /\ Between(items, p) /\ Between(jobs, p)
          /\ IF packet.to = p THEN packet.n = latest[p] ELSE IsQueuedOrDone(p)
          /\ memory[p] \in Nat /\ latest[p] \in Nat
      BY <2>1, <1>1, <1>8 DEF LastWriteIsKnown
    <3>2. Between(jobs, p)'
      <4>1. ASSUME NEW j \in 1..Len(jobs'), jobs'[j].to = p
            PROVE  memory[p] <= jobs'[j].n /\ jobs'[j].n <= latest[p]
        <5>1. CASE j \in 1..Len(jobs)
          BY <5>1, <4>1, <3>1, <2>1 DEF Between
        <5>2. CASE j = Len(jobs) + 1
          BY <5>2, <4>1, <3>1, <2>1
        <5> QED BY <5>1, <5>2, <2>2
      <4> QED BY <4>1, <2>1 DEF Between
    <3>3. IsQueuedOrDone(p)'
      <4>1. CASE packet.to = p
        <5>1. \E j \in OpenJobs' : jobs'[j].to = p /\ jobs'[j].n = latest[p]
          BY <4>1, <3>1, <2>1, <2>2
        <5> QED BY <5>1, <2>1 DEF IsQueuedOrDone
      <4>2. CASE packet.to # p
        <5>1. (\E j \in OpenJobs : jobs[j].to = p /\ jobs[j].n = latest[p])
                => \E j \in OpenJobs' : jobs'[j].to = p /\ jobs'[j].n = latest[p]
          BY <2>1, <2>2
        <5>2. OpenItems' = OpenItems
          BY <2>1 DEF OpenItems
        <5> QED BY <4>2, <5>1, <5>2, <3>1, <2>1 DEF IsQueuedOrDone
      <4> QED BY <4>1, <4>2
    <3>4. Between(items, p)'
      BY <3>1, <2>1 DEF Between
    <3> QED BY <3>1, <3>2, <3>3, <3>4, <2>1
  <2>4. ItemsBeforeJobs'
    <3>1. ASSUME NEW i \in 1..Len(items), NEW j \in 1..Len(jobs')
          PROVE  items[i].n <= jobs'[j].n
      <4>1. CASE j \in 1..Len(jobs)
        BY <4>1, <2>1, <1>8 DEF ItemsBeforeJobs
      <4>2. CASE j = Len(jobs) + 1
        BY <4>2, <2>1, <1>9 DEF ItemsComeNext
      <4> QED BY <4>1, <4>2, <2>2
    <3> QED BY <3>1, <2>1 DEF ItemsBeforeJobs
  <2> QED BY <2>1, <2>3, <2>4, <1>14 DEF LastWriteIsKnown
<1>16. CASE ItemJoins
  <2>1. /\ UNCHANGED <<jobs, memory, latest, written, answer, FirstJob, FirstItem>>
        /\ Unqueued /\ ~Unqueued' /\ packet.n = written /\ jobs = <<>> /\ Len(jobs) = 0
        /\ Len(items') = Len(items) + 1
        /\ items'[Len(items) + 1].n = packet.n /\ items'[Len(items) + 1].to = packet.to
        /\ \A i \in 1..Len(items) : items'[i] = items[i]
    <3>1. items' = Append(items, Item(packet)) /\ Unqueued /\ ~Unqueued' /\ jobs = <<>>
      BY <1>16 DEF ItemJoins
    <3>2. packet.n = written /\ Len(jobs) = 0
      BY <3>1, <1>9 DEF PacketIsNewest
    <3> QED BY <1>16, <3>1, <3>2, <1>1, <1>5, <1>6 DEF ItemJoins, FirstJob, FirstItem
  <2>2. /\ \A j \in 1..Len(items') : j \in 1..Len(items) \/ j = Len(items) + 1
        /\ Len(items) + 1 \in OpenItems'
        /\ \A j \in OpenItems : j \in OpenItems' /\ j \in 1..Len(items)
    <3>1. FirstItem <= Len(items) + 1
      BY <1>1, <1>4 DEF FirstItem, Retiring
    <3> QED BY <3>1, <2>1, <1>1, <1>3 DEF OpenItems
  <2>3. ASSUME NEW p \in Places
        PROVE  /\ memory'[p] <= latest'[p] /\ latest'[p] <= written'
               /\ Between(items, p)' /\ Between(jobs, p)' /\ IsQueuedOrDone(p)'
    <3>1. /\ memory[p] <= latest[p] /\ latest[p] <= written
          /\ Between(items, p) /\ Between(jobs, p)
          /\ IF packet.to = p THEN packet.n = latest[p] ELSE IsQueuedOrDone(p)
          /\ memory[p] \in Nat /\ latest[p] \in Nat
      BY <2>1, <1>1, <1>8 DEF LastWriteIsKnown
    <3>2. Between(items, p)'
      <4>1. ASSUME NEW j \in 1..Len(items'), items'[j].to = p
            PROVE  memory[p] <= items'[j].n /\ items'[j].n <= latest[p]
        <5>1. CASE j \in 1..Len(items)
          BY <5>1, <4>1, <3>1, <2>1 DEF Between
        <5>2. CASE j = Len(items) + 1
          BY <5>2, <4>1, <3>1, <2>1
        <5> QED BY <5>1, <5>2, <2>2
      <4> QED BY <4>1, <2>1 DEF Between
    <3>3. IsQueuedOrDone(p)'
      <4>1. CASE packet.to = p
        <5>1. \E j \in OpenItems' : items'[j].to = p /\ items'[j].n = latest[p]
          BY <4>1, <3>1, <2>1, <2>2
        <5> QED BY <5>1, <2>1 DEF IsQueuedOrDone
      <4>2. CASE packet.to # p
        <5>1. (\E j \in OpenItems : items[j].to = p /\ items[j].n = latest[p])
                => \E j \in OpenItems' : items'[j].to = p /\ items'[j].n = latest[p]
          BY <2>1, <2>2
        <5>2. OpenJobs' = OpenJobs
          BY <2>1 DEF OpenJobs
        <5> QED BY <4>2, <5>1, <5>2, <3>1, <2>1 DEF IsQueuedOrDone
      <4> QED BY <4>1, <4>2
    <3>4. Between(jobs, p)'
      BY <3>1, <2>1 DEF Between
    <3> QED BY <3>1, <3>2, <3>3, <3>4, <2>1
  <2>4. ItemsBeforeJobs'
    BY <2>1 DEF ItemsBeforeJobs
  <2> QED BY <2>1, <2>3, <2>4, <1>14 DEF LastWriteIsKnown
\* In the steps of the finisher and the committer the packet stays where it is.
<1>17. ASSUME UNCHANGED <<plan, packet>>
       PROVE  (Unqueued' <=> Unqueued) /\ packet' = packet
  BY <1>17 DEF Unqueued
<1>18. CASE JobIsPushed
  <2>1. /\ UNCHANGED <<jobs, memory, latest, written, answer, FirstItem>>
        /\ (Unqueued' <=> Unqueued) /\ packet' = packet
        /\ FirstJob = 1 /\ FirstJob' = 2 /\ Len(jobs) > 0
        /\ Len(items') = Len(items) + 1 /\ items'[Len(items) + 1] = jobs[1]
        /\ \A i \in 1..Len(items) : items'[i] = items[i]
    <3>1. /\ items' = Append(items, Head(jobs)) /\ pc.finisher \in {"push", "room"}
          /\ pc' = [pc EXCEPT !.finisher = "retire"]
      BY <1>18 DEF JobIsPushed
    <3>2. Head(jobs) = jobs[1] /\ jobs[1] \in Items /\ Len(jobs) > 0
      BY <3>1, <1>4
    <3>3. FirstJob = 1 /\ FirstJob' = 2 /\ FirstItem' = FirstItem
      BY <3>1, <1>1 DEF FirstJob, FirstItem, Retiring
    <3> QED BY <1>18, <3>1, <3>2, <3>3, <1>1, <1>6, <1>17 DEF JobIsPushed, OthersStep
  <2>2. /\ \A j \in 1..Len(items') : j \in 1..Len(items) \/ j = Len(items) + 1
        /\ Len(items) + 1 \in OpenItems' /\ 1 \in 1..Len(jobs)
        /\ \A i \in OpenItems : i \in OpenItems' /\ i \in 1..Len(items)
        /\ \A j \in OpenJobs : j \in OpenJobs' \/ j = 1
    <3>1. FirstItem <= Len(items) + 1
      BY <1>1, <1>4 DEF FirstItem, Retiring
    <3> QED BY <3>1, <2>1, <1>1, <1>3 DEF OpenItems, OpenJobs
  <2>3. ASSUME NEW p \in Places
        PROVE  Between(items, p)' /\ Between(jobs, p)' /\ (IsQueuedOrDone(p) => IsQueuedOrDone(p)')
    <3>1. Between(items, p) /\ Between(jobs, p)
      BY <1>8 DEF LastWriteIsKnown
    <3>2. Between(items, p)'
      <4>1. ASSUME NEW j \in 1..Len(items'), items'[j].to = p
            PROVE  memory[p] <= items'[j].n /\ items'[j].n <= latest[p]
        <5>1. CASE j \in 1..Len(items)
          BY <5>1, <4>1, <3>1, <2>1 DEF Between
        <5>2. CASE j = Len(items) + 1
          BY <5>2, <4>1, <3>1, <2>1, <2>2 DEF Between
        <5> QED BY <5>1, <5>2, <2>2
      <4> QED BY <4>1, <2>1 DEF Between
    <3>3. ASSUME NEW j \in OpenJobs, jobs[j].to = p, jobs[j].n = latest[p]
          PROVE  \/ \E i \in OpenItems' : items'[i].to = p /\ items'[i].n = latest[p]
                 \/ \E i \in OpenJobs' : jobs[i].to = p /\ jobs[i].n = latest[p]
      BY <3>3, <2>1, <2>2
    <3>4. ASSUME NEW i \in OpenItems, items[i].to = p, items[i].n = latest[p]
          PROVE  \E k \in OpenItems' : items'[k].to = p /\ items'[k].n = latest[p]
      BY <3>4, <2>1, <2>2
    <3>5. IsQueuedOrDone(p) => IsQueuedOrDone(p)'
      BY <3>3, <3>4, <2>1 DEF IsQueuedOrDone
    <3>6. Between(jobs, p)'
      BY <3>1, <2>1 DEF Between
    <3> QED BY <3>2, <3>5, <3>6
  <2>4. ItemsBeforeJobs'
    <3>1. ASSUME NEW i \in 1..Len(items'), NEW j \in 1..Len(jobs)
          PROVE  items'[i].n <= jobs[j].n
      <4>1. CASE i \in 1..Len(items)
        BY <4>1, <2>1, <1>8 DEF ItemsBeforeJobs
      <4>2. CASE i = Len(items) + 1
        <5>1. j = 1 \/ 1 < j
          BY <1>1
        <5>2. jobs[1].n \in Nat
          BY <2>2, <1>1, <1>2
        <5>3. jobs[1].n <= jobs[j].n
          BY <5>1, <5>2, <2>2, <1>1, <1>2, <1>9 DEF Ascending
        <5> QED BY <5>3, <4>2, <2>1
      <4> QED BY <4>1, <4>2, <2>2
    <3> QED BY <3>1, <2>1 DEF ItemsBeforeJobs
  <2> QED BY <2>1, <2>3, <2>4, <1>8, <1>14 DEF LastWriteIsKnown
<1>19. CASE JobLeaves
  <2>1. /\ UNCHANGED <<items, memory, latest, written, answer, FirstItem>>
        /\ (Unqueued' <=> Unqueued) /\ packet' = packet
        /\ FirstJob = 2 /\ FirstJob' = 1 /\ Len(jobs) > 0
        /\ Len(jobs') = Len(jobs) - 1 /\ \A i \in 1..(Len(jobs) - 1) : jobs'[i] = jobs[i + 1]
    <3>1. jobs' = Tail(jobs) /\ Retiring(pc.finisher) /\ pc' = [pc EXCEPT !.finisher = "fetch"]
      BY <1>19 DEF JobLeaves
    <3>2. jobs # <<>> /\ Len(jobs) > 0
      BY <3>1, <1>4 DEF Retiring
    <3>3. FirstJob = 2 /\ FirstJob' = 1 /\ FirstItem' = FirstItem
      BY <3>1, <1>1 DEF FirstJob, FirstItem, Retiring
    <3> QED BY <1>19, <3>1, <3>2, <3>3, <1>1, <1>7, <1>17 DEF JobLeaves, OthersStep
  <2>2. ASSUME NEW j \in 1..Len(jobs')
        PROVE  j + 1 \in 1..Len(jobs) /\ jobs'[j] = jobs[j + 1]
    BY <2>1, <1>1
  <2>3. ASSUME NEW j \in OpenJobs
        PROVE  j - 1 \in OpenJobs' /\ jobs'[j - 1] = jobs[j]
    <3>1. j - 1 \in 1..Len(jobs') /\ (j - 1) + 1 = j
      BY <2>1, <1>1 DEF OpenJobs
    <3> QED BY <3>1, <2>1, <2>2 DEF OpenJobs
  <2>4. ASSUME NEW p \in Places
        PROVE  Between(items, p)' /\ Between(jobs, p)' /\ (IsQueuedOrDone(p) => IsQueuedOrDone(p)')
    <3>1. Between(items, p) /\ Between(jobs, p)
      BY <1>8 DEF LastWriteIsKnown
    <3>2. Between(jobs, p)'
      <4>1. ASSUME NEW j \in 1..Len(jobs'), jobs'[j].to = p
            PROVE  memory[p] <= jobs'[j].n /\ jobs'[j].n <= latest[p]
        BY <4>1, <3>1, <2>2 DEF Between
      <4> QED BY <4>1, <2>1 DEF Between
    <3>3. ASSUME NEW j \in OpenJobs, jobs[j].to = p, jobs[j].n = latest[p]
          PROVE  \E i \in OpenJobs' : jobs'[i].to = p /\ jobs'[i].n = latest[p]
      BY <3>3, <2>3
    <3>4. OpenItems' = OpenItems
      BY <2>1 DEF OpenItems
    <3>5. IsQueuedOrDone(p) => IsQueuedOrDone(p)'
      BY <3>3, <3>4, <2>1 DEF IsQueuedOrDone
    <3>6. Between(items, p)'
      BY <3>1, <2>1 DEF Between
    <3> QED BY <3>2, <3>5, <3>6
  <2>5. ItemsBeforeJobs'
    <3>1. ASSUME NEW i \in 1..Len(items), NEW j \in 1..Len(jobs')
          PROVE  items[i].n <= jobs'[j].n
      BY <2>2, <1>8 DEF ItemsBeforeJobs
    <3> QED BY <3>1, <2>1 DEF ItemsBeforeJobs
  <2> QED BY <2>1, <2>4, <2>5, <1>8, <1>14 DEF LastWriteIsKnown
<1>20. CASE ItemIsDone
  <2>1. /\ UNCHANGED <<jobs, items, latest, written, answer, FirstJob>>
        /\ (Unqueued' <=> Unqueued) /\ packet' = packet
        /\ FirstItem = 1 /\ FirstItem' = 2 /\ Len(items) > 0
        /\ memory' = [p \in Places |-> IF p = items[1].to THEN items[1].n ELSE memory[p]]
    <3>1. /\ memory' = [p \in Places |-> IF p = Head(items).to THEN Head(items).n ELSE memory[p]]
          /\ pc.committer = "commit" /\ pc' = [pc EXCEPT !.committer = "retire"]
      BY <1>20 DEF ItemIsDone
    <3>2. Head(items) = items[1] /\ Len(items) > 0
      BY <3>1, <1>4
    <3>3. FirstItem = 1 /\ FirstItem' = 2 /\ FirstJob' = FirstJob
      BY <3>1, <1>1 DEF FirstJob, FirstItem, Retiring
    <3> QED BY <1>20, <3>1, <3>2, <3>3, <1>17 DEF ItemIsDone, OthersStep
  <2>2. /\ 1 \in 1..Len(items) /\ \A i \in 1..Len(items) : i = 1 \/ 1 < i
        /\ \A i \in OpenItems : i \in OpenItems' \/ i = 1
    BY <2>1, <1>1 DEF OpenItems
  <2>3. items[1].n \in Nat
    BY <2>2, <1>1, <1>2
  <2>4. ASSUME NEW p \in Places
        PROVE  /\ memory'[p] <= latest[p]
               /\ Between(items, p)' /\ Between(jobs, p)' /\ (IsQueuedOrDone(p) => IsQueuedOrDone(p)')
    <3>1. Between(items, p) /\ Between(jobs, p) /\ memory[p] <= latest[p]
      BY <1>8 DEF LastWriteIsKnown
    <3>2. CASE items[1].to = p
      <4>1. memory'[p] = items[1].n
        BY <3>2, <2>1
      <4>2. memory'[p] <= latest[p]
        BY <4>1, <3>1, <3>2, <2>2 DEF Between
      <4>3. Between(items, p)'
        <5>1. ASSUME NEW i \in 1..Len(items)
              PROVE  items[1].n <= items[i].n
          <6>1. CASE i = 1
            BY <6>1, <2>3
          <6>2. CASE 1 < i
            BY <6>2, <2>2, <2>3, <1>1, <1>2, <1>9 DEF Ascending
          <6> QED BY <6>1, <6>2, <2>2
        <5> QED BY <5>1, <4>1, <3>1, <2>1 DEF Between
      <4>4. Between(jobs, p)'
        BY <4>1, <3>1, <2>1, <2>2, <1>8 DEF Between, ItemsBeforeJobs
      <4>5. IsQueuedOrDone(p) => IsQueuedOrDone(p)'
        <5>1. CASE memory[p] = latest[p]
          <6>1. memory[p] <= items[1].n /\ items[1].n <= latest[p] /\ latest[p] \in Nat
            BY <3>1, <3>2, <2>2, <1>1 DEF Between
          <6>2. memory'[p] = latest'[p]
            BY <5>1, <6>1, <4>1, <2>1, <2>3
          <6> QED BY <6>2 DEF IsQueuedOrDone
        <5>2. ASSUME NEW i \in OpenItems, items[i].to = p, items[i].n = latest[p]
              PROVE  IsQueuedOrDone(p)'
          BY <5>2, <4>1, <2>1, <2>2 DEF IsQueuedOrDone
        <5>3. OpenJobs' = OpenJobs
          BY <2>1 DEF OpenJobs
        <5> QED BY <5>1, <5>2, <5>3, <2>1 DEF IsQueuedOrDone
      <4> QED BY <4>2, <4>3, <4>4, <4>5
    <3>3. CASE items[1].to # p
      <4>1. memory'[p] = memory[p]
        BY <3>3, <2>1
      <4>2. Between(items, p)' /\ Between(jobs, p)'
        BY <4>1, <3>1, <2>1 DEF Between
      <4>3. ASSUME NEW i \in OpenItems, items[i].to = p
            PROVE  i \in OpenItems'
        BY <4>3, <3>3, <2>2
      <4>4. OpenJobs' = OpenJobs
        BY <2>1 DEF OpenJobs
      <4>5. IsQueuedOrDone(p) => IsQueuedOrDone(p)'
        BY <4>1, <4>3, <4>4, <2>1 DEF IsQueuedOrDone
      <4> QED BY <4>1, <4>2, <4>5, <3>1
    <3> QED BY <3>2, <3>3
  <2> QED BY <2>1, <2>4, <1>8, <1>14 DEF LastWriteIsKnown, ItemsBeforeJobs
<1>21. CASE ItemLeaves
  <2>1. /\ UNCHANGED <<jobs, memory, latest, written, answer, FirstJob>>
        /\ (Unqueued' <=> Unqueued) /\ packet' = packet
        /\ FirstItem = 2 /\ FirstItem' = 1 /\ Len(items) > 0
        /\ Len(items') = Len(items) - 1 /\ \A i \in 1..(Len(items) - 1) : items'[i] = items[i + 1]
    <3>1. items' = Tail(items) /\ Retiring(pc.committer) /\ pc' = [pc EXCEPT !.committer = "fetch"]
      BY <1>21 DEF ItemLeaves
    <3>2. items # <<>> /\ Len(items) > 0
      BY <3>1, <1>4 DEF Retiring
    <3>3. FirstItem = 2 /\ FirstItem' = 1 /\ FirstJob' = FirstJob
      BY <3>1, <1>1 DEF FirstJob, FirstItem, Retiring
    <3> QED BY <1>21, <3>1, <3>2, <3>3, <1>1, <1>7, <1>17 DEF ItemLeaves, OthersStep
  <2>2. ASSUME NEW i \in 1..Len(items')
        PROVE  i + 1 \in 1..Len(items) /\ items'[i] = items[i + 1]
    BY <2>1, <1>1
  <2>3. ASSUME NEW i \in OpenItems
        PROVE  i - 1 \in OpenItems' /\ items'[i - 1] = items[i]
    <3>1. i - 1 \in 1..Len(items') /\ (i - 1) + 1 = i
      BY <2>1, <1>1 DEF OpenItems
    <3> QED BY <3>1, <2>1, <2>2 DEF OpenItems
  <2>4. ASSUME NEW p \in Places
        PROVE  Between(items, p)' /\ Between(jobs, p)' /\ (IsQueuedOrDone(p) => IsQueuedOrDone(p)')
    <3>1. Between(items, p) /\ Between(jobs, p)
      BY <1>8 DEF LastWriteIsKnown
    <3>2. Between(items, p)'
      <4>1. ASSUME NEW i \in 1..Len(items'), items'[i].to = p
            PROVE  memory[p] <= items'[i].n /\ items'[i].n <= latest[p]
        BY <4>1, <3>1, <2>2 DEF Between
      <4> QED BY <4>1, <2>1 DEF Between
    <3>3. ASSUME NEW i \in OpenItems, items[i].to = p, items[i].n = latest[p]
          PROVE  \E k \in OpenItems' : items'[k].to = p /\ items'[k].n = latest[p]
      BY <3>3, <2>3
    <3>4. OpenJobs' = OpenJobs
      BY <2>1 DEF OpenJobs
    <3>5. IsQueuedOrDone(p) => IsQueuedOrDone(p)'
      BY <3>3, <3>4, <2>1 DEF IsQueuedOrDone
    <3>6. Between(jobs, p)'
      BY <3>1, <2>1 DEF Between
    <3> QED BY <3>2, <3>5, <3>6
  <2>5. ItemsBeforeJobs'
    <3>1. ASSUME NEW i \in 1..Len(items'), NEW j \in 1..Len(jobs)
          PROVE  items'[i].n <= jobs[j].n
      BY <2>2, <1>8 DEF ItemsBeforeJobs
    <3> QED BY <3>1, <2>1 DEF ItemsBeforeJobs
  <2> QED BY <2>1, <2>4, <2>5, <1>8, <1>14 DEF LastWriteIsKnown
<1> QED BY <1>12, <1>13, <1>15, <1>16, <1>18, <1>19, <1>20, <1>21 DEF QueueStep

\* A packet that reads sees the last write before it in packet order, as long as
\* nothing threw: PendingLabel and Overlaps ask the finisher before the queue of
\* commits, and what is queued goes the other way.
THEOREM ReadsSeeTheLastWrite == Spec => []ReadsSeeLatest
<1>1. Init => ReadInv
  <2>1. Init => LastWriteIsKnown
    <3>1. Init => ~Unqueued /\ Len(items) = 0 /\ Len(jobs) = 0 /\ written = 0
      BY DEF Init, Unqueued
    <3>2. ASSUME Init, NEW p \in Places PROVE memory[p] = 0 /\ latest[p] = 0
      BY <3>2 DEF Init
    <3>3. ASSUME Init, NEW p \in Places
          PROVE  Between(items, p) /\ Between(jobs, p) /\ IsQueuedOrDone(p)
      BY <3>1, <3>2, <3>3 DEF Between, IsQueuedOrDone
    <3>4. ASSUME Init, NEW p \in Places
          PROVE  memory[p] <= latest[p] /\ latest[p] <= written
      BY <3>1, <3>2, <3>4
    <3> QED BY <3>1, <3>3, <3>4 DEF LastWriteIsKnown
  <2>2. Init => ItemsBeforeJobs
    BY DEF Init, ItemsBeforeJobs
  <2>3. Init => ReadsSeeLatest
    BY PlacesAssumption DEF Init, ReadsSeeLatest, NoAnswer
  <2> QED BY <2>1, <2>2, <2>3 DEF ReadInv
<1>2. PlanInv /\ PlanInv' /\ OrderInv /\ ReadInv /\ [Next]_vars => OrderInv' /\ ReadInv'
  BY PlanStep, OrderStep, ReadStep
<1>3. ReadInv => ReadsSeeLatest
  BY DEF ReadInv
<1> QED BY <1>1, <1>2, <1>3, PlanAlways, OrderAlways, PTL DEF Spec

=============================================================================
