---------------------------- MODULE DrawPipeline ----------------------------
(***************************************************************************)
(* The pipeline behind queue 0 of the AGC driver, from                     *)
(* libSceAgcDriver/Execution/src/Driver/Draw/DrawPipeline.cpp and its      *)
(* callers.  The queue's worker reads packets; the draw finisher completes *)
(* the draws it is handed and queues their commits; the committer runs the *)
(* commits.  A packet that reads memory must see what the packets before   *)
(* it write, although those writes may still be with the finisher, in the  *)
(* queue of commits or half done; and an error of the finisher or of the   *)
(* committer must come back to the worker.                                 *)
(***************************************************************************)
EXTENDS Integers, Sequences

CONSTANTS Places,        \* guest ranges that packets write and read
          Nowhere,       \* the range of a commit that writes none
          MaxWrites,     \* bound on the commits asked for
          MaxErrors,     \* bound on the draws and commits that throw
          JobDepth,      \* DrawFinisher::Enqueue's `depth'
          Depth          \* DrawPipeline::Depth()

ASSUME PlacesAssumption == Nowhere \notin Places
ASSUME BoundsAssumption == MaxWrites \in Nat /\ MaxErrors \in Nat

\* A depth of 0 turns the pipeline off.
ASSUME DepthsAssumption == JobDepth \in Nat \ {0} /\ Depth \in Nat \ {0}

VARIABLES
    jobs,            \* DrawFinisher::jobs, each with what `pending' says of it
    jobFailure,      \* DrawFinisher::failure
    sleeping,
    items,           \* DrawPipeline::items
    failure,         \* DrawPipeline::failure
    committerWaiting, idleWaiters, resumeAt, stopped, closing,
    driverFailed,    \* Driver::failed
    plan,            \* the steps the worker has left in its packet
    packet,          \* that packet
    open,            \* a submission is being executed
    pc,              \* the stages of the finisher and of the committer
    asleep,          \* who is blocked in a condition variable
    memory,          \* the number of the write each place holds
    latest,          \* the last write to each place, in packet order
    written,         \* the commits the packets so far ask for
    committed,       \* the commits done, in their order
    errors,          \* the draws and commits that threw
    answer           \* what a packet read, or a queued label told it

finisher == <<jobs, jobFailure, sleeping>>
pipeline == <<items, failure, committerWaiting, idleWaiters, resumeAt, stopped, closing>>
data == <<memory, latest, written, committed, errors>>
vars == <<finisher, pipeline, driverFailed, plan, packet, open, pc, asleep, data, answer>>

NoAnswer == [to |-> Nowhere, value |-> 0]
NoPacket == [kind |-> "none", to |-> Nowhere, want |-> 0, n |-> 0]

\* A commit: its number in packet order, the range it writes, and whether the
\* bytes it leaves there are known beforehand (a label) or not (a draw).
Item(p) == [n |-> p.n, to |-> p.to, label |-> p.kind = "label"]

-----------------------------------------------------------------------------
FinisherBusy == jobs # <<>>
Busy == items # <<>> \/ FinisherBusy

\* What PendingLabel and Overlaps find in one of the queues, from its back.
Holds(q, p) == \E i \in 1..Len(q) : q[i].to = p
\* Mutation: they search from the front.
FirstTo(q, p) == CHOOSE i \in 1..Len(q) : q[i].to = p /\ \A j \in 1..(i - 1) : q[j].to # p

LastTo(q, p) == CHOOSE i \in 1..Len(q) : q[i].to = p /\ \A j \in (i + 1)..Len(q) : q[j].to # p
HoldsLabel(q, p, n) == Holds(q, p) /\ q[LastTo(q, p)].label /\ q[LastTo(q, p)].n = n

\* Whether a packet may run beside the finisher, as found at one moment: a wait
\* for a queued label, or a read of what nothing queued writes.
Beside ==
    \/ /\ packet.kind = "wait"
       /\ HoldsLabel(IF Holds(jobs, packet.to) THEN jobs ELSE items, packet.to, packet.want)
    \/ /\ packet.kind \in {"wait", "load"}
       /\ ~Holds(jobs, packet.to) /\ ~Holds(items, packet.to)
       /\ packet.kind = "wait" => memory[packet.to] = packet.want

Stage(a) == IF a # "worker" THEN pc[a] ELSE IF plan = <<>> THEN "none" ELSE Head(plan)

\* Actor a is at this stage and awake.
At(a, stage) == Stage(a) = stage /\ a \notin asleep

\* Who sleeps on DrawFinisher::idle and on DrawPipeline::idle.
OnJobsIdle == {a \in {"worker"} : Stage(a) \in {"job_room", "jobs_drain", "settle"}}
OnItemsIdle == {a \in {"worker", "finisher"} : Stage(a) \in {"room", "drained"}}

\* The worker goes on with its packet, other steps in place of the one just done.
Then(steps) == plan' = steps \o Tail(plan)

\* Mutation: the stack unwinds without waiting for the finisher.
ThrowAtOnce ==
    plan' = IF plan # <<>> /\ plan[Len(plan)] = "join" THEN <<"stop", "join">> ELSE <<"give_up">>

\* An exception in the worker: the finisher settles and the pipeline drains while
\* the stack unwinds.  What that drain, or the one of Driver::stop, throws is lost.
Throw ==
    plan' = IF plan # <<>> /\ plan[Len(plan)] = "give_up" THEN <<"give_up">>
            ELSE IF plan # <<>> /\ plan[Len(plan)] = "join" THEN <<"stop", "join">>
            ELSE <<"settle", "drain", "give_up">>

\* The end of DrawPipeline::enqueue for the worker and for the finisher.
Returned(a) ==
    IF a = "worker" THEN Then(<<>>) /\ UNCHANGED pc
                    ELSE pc' = [pc EXCEPT ![a] = "retire"] /\ UNCHANGED plan
Thrown(a) ==
    IF a = "worker" THEN Throw /\ UNCHANGED pc
                    ELSE pc' = [pc EXCEPT ![a] = "retire_failed"] /\ UNCHANGED plan
Waits(a) ==
    IF a = "worker" THEN Then(<<"room">>) /\ UNCHANGED pc
                    ELSE pc' = [pc EXCEPT ![a] = "room"] /\ UNCHANGED plan

Init ==
    /\ jobs = <<>> /\ jobFailure = FALSE /\ sleeping = FALSE
    /\ items = <<>> /\ failure = FALSE /\ committerWaiting = FALSE
    /\ idleWaiters = 0 /\ resumeAt = 0 /\ stopped = FALSE /\ closing = FALSE
    /\ driverFailed = FALSE
    /\ plan = <<>> /\ packet = NoPacket /\ open = FALSE
    /\ pc = [finisher |-> "fetch", committer |-> "fetch"]
    /\ asleep = {}
    /\ memory = [p \in Places |-> 0] /\ latest = [p \in Places |-> 0]
    /\ written = 0 /\ committed = <<>> /\ errors = 0
    /\ answer = NoAnswer

-----------------------------------------------------------------------------
(* The worker between packets.                                             *)

\* executeSubmission up to its packets; a suspend point drains first.
Open(steps) ==
    /\ plan = <<>> /\ ~open /\ ~driverFailed /\ ~closing
    /\ open' = TRUE
    /\ plan' = steps
    /\ UNCHANGED <<finisher, pipeline, driverFailed, packet, pc, asleep, data, answer>>

\* CheckFailure before a packet: the driver failed, or it is being stopped.
Interrupted ==
    /\ plan = <<>> /\ open
    /\ Throw
    /\ UNCHANGED <<finisher, pipeline, driverFailed, packet, open, pc, asleep, data, answer>>

\* The next packet: `kind' writes or reads place p.
Writes(kind, p, steps) ==
    /\ plan = <<>> /\ open /\ ~driverFailed
    /\ written < MaxWrites
    /\ written' = written + 1
    /\ packet' = [kind |-> kind, to |-> p, want |-> 0, n |-> written + 1]
    /\ latest' = IF p \in Places THEN [latest EXCEPT ![p] = written + 1] ELSE latest
    /\ plan' = steps
    /\ answer' = NoAnswer
    /\ UNCHANGED <<finisher, pipeline, driverFailed, open, pc, asleep, memory,
                   committed, errors>>

Reads(kind, p, want, steps) ==
    /\ plan = <<>> /\ open /\ ~driverFailed
    /\ packet' = [kind |-> kind, to |-> p, want |-> want, n |-> 0]
    /\ plan' = steps
    /\ answer' = NoAnswer
    /\ UNCHANGED <<finisher, pipeline, driverFailed, open, pc, asleep, data>>

\* Draws are handed to the finisher or kept, labels follow the finisher's jobs,
\* waits and loads look before they drain, other packets drain, and the end of a
\* submission queues its completion or drains.
Packet ==
    \/ \E p \in Places :
          \/ Writes("draw", p, <<"job">>)
          \/ Writes("draw", p, <<"enqueue">>)
          \/ Writes("label", p, IF FinisherBusy THEN <<"job">> ELSE <<"enqueue">>)
          \/ \E want \in {latest[p], memory[p]} :
                Reads("wait", p, want, <<"beside", "ask", "overlap", "read">>)
          \/ Reads("load", p, 0, <<"beside", "overlap", "read">>)
    \/ Reads("other", Nowhere, 0, <<"beside", "overlap">>)
    \/ Writes("completion", Nowhere, <<"jobs_drain", "enqueue", "close">>)
    \/ Reads("end", Nowhere, 0, <<"jobs_drain", "drain", "close">>)

-----------------------------------------------------------------------------
(* The steps of a packet.                                                  *)

\* DrawFinisher::Enqueue; it throws what a job has thrown.
JobQueued ==
    /\ jobs' = Append(jobs, Item(packet))
    /\ asleep' = IF sleeping THEN asleep \ {"finisher"} ELSE asleep
    /\ Then(<<>>)
    /\ UNCHANGED <<jobFailure, sleeping>>

EnqueueJob ==
    /\ At("worker", "job")
    /\ IF jobFailure
         THEN jobFailure' = FALSE /\ Throw /\ UNCHANGED <<jobs, sleeping, asleep>>
         ELSE IF Len(jobs) < JobDepth
         THEN JobQueued
         ELSE asleep' = asleep \cup {"worker"} /\ Then(<<"job_room">>) /\ UNCHANGED finisher
    /\ UNCHANGED <<pipeline, driverFailed, packet, open, pc, data, answer>>

JobRoom ==
    /\ At("worker", "job_room")
    /\ Len(jobs) < JobDepth
    /\ JobQueued
    /\ UNCHANGED <<pipeline, driverFailed, packet, open, pc, data, answer>>

\* DrawFinisher::Drain and DrawFinisher::Settle, once no job is left.
DrainJobs ==
    /\ At("worker", "jobs_drain")
    /\ jobs = <<>>
    /\ jobFailure' = FALSE
    /\ IF jobFailure THEN Throw ELSE Then(<<>>)
    /\ UNCHANGED <<jobs, sleeping, pipeline, driverFailed, packet, open, pc, asleep,
                   data, answer>>

Settle ==
    /\ At("worker", "settle")
    /\ jobs = <<>>
    /\ Then(<<>>)
    /\ UNCHANGED <<finisher, pipeline, driverFailed, packet, open, pc, asleep, data, answer>>

\* Mutation: the worker queues its commit past the jobs of the finisher.
EnqueueAtOnce ==
    /\ At("worker", "enqueue")
    /\ Then(<<"push">>)
    /\ UNCHANGED <<finisher, pipeline, driverFailed, packet, open, pc, asleep, data, answer>>

\* DrawPipeline::enqueue.  The worker drains a busy finisher first.
Enqueue ==
    /\ At("worker", "enqueue")
    /\ Then(IF FinisherBusy THEN <<"jobs_drain", "push">> ELSE <<"push">>)
    /\ UNCHANGED <<finisher, pipeline, driverFailed, packet, open, pc, asleep, data, answer>>

ItemQueued(a) ==
    /\ items' = Append(items, IF a = "worker" THEN Item(packet) ELSE Head(jobs))
    /\ asleep' = IF committerWaiting THEN asleep \ {"committer"} ELSE asleep
    /\ Returned(a)
    /\ UNCHANGED failure

Push(a) ==
    /\ At(a, "push")
    /\ IF failure
         THEN failure' = FALSE /\ Thrown(a) /\ UNCHANGED <<items, idleWaiters, resumeAt, asleep>>
         ELSE IF Len(items) < Depth
         THEN ItemQueued(a) /\ UNCHANGED <<idleWaiters, resumeAt>>
         ELSE /\ idleWaiters' = idleWaiters + 1 /\ resumeAt' = Depth - 1
              /\ asleep' = asleep \cup {a}
              /\ Waits(a)
              /\ UNCHANGED <<items, failure>>
    /\ UNCHANGED <<finisher, committerWaiting, stopped, closing, driverFailed, packet,
                   open, data, answer>>

Room(a) ==
    /\ At(a, "room")
    /\ Len(items) <= resumeAt
    /\ idleWaiters' = idleWaiters - 1 /\ resumeAt' = 0
    /\ IF failure
         THEN failure' = FALSE /\ Thrown(a) /\ UNCHANGED <<items, asleep>>
         ELSE ItemQueued(a)
    /\ UNCHANGED <<finisher, committerWaiting, stopped, closing, driverFailed, packet,
                   open, data, answer>>

\* DrawPipeline::Drain: the finisher, then a look at Busy without the mutex, then
\* the wait for an empty queue.
Drain ==
    /\ At("worker", "drain")
    /\ Then(IF FinisherBusy THEN <<"jobs_drain", "drain_items">> ELSE <<"drain_items">>)
    /\ UNCHANGED <<finisher, pipeline, driverFailed, packet, open, pc, asleep, data, answer>>

DrainItems ==
    /\ At("worker", "drain_items")
    /\ Then(IF Busy THEN <<"drain_lock">> ELSE <<>>)
    /\ UNCHANGED <<finisher, pipeline, driverFailed, packet, open, pc, asleep, data, answer>>

DrainLock ==
    /\ At("worker", "drain_lock")
    /\ IF items # <<>>
         THEN /\ idleWaiters' = idleWaiters + 1
              /\ asleep' = asleep \cup {"worker"}
              /\ Then(<<"drained">>)
              /\ UNCHANGED failure
         ELSE /\ failure' = FALSE
              /\ IF failure THEN Throw ELSE Then(<<>>)
              /\ UNCHANGED <<idleWaiters, asleep>>
    /\ UNCHANGED <<finisher, items, committerWaiting, resumeAt, stopped, closing,
                   driverFailed, packet, open, pc, data, answer>>

Drained ==
    /\ At("worker", "drained")
    /\ items = <<>>
    /\ idleWaiters' = idleWaiters - 1
    /\ failure' = FALSE
    /\ IF failure THEN Throw ELSE Then(<<>>)
    /\ UNCHANGED <<finisher, items, committerWaiting, resumeAt, stopped, closing,
                   driverFailed, packet, open, pc, asleep, data, answer>>

\* A packet that may not run beside the finisher drains it.
GoBeside ==
    /\ At("worker", "beside")
    /\ Then(IF FinisherBusy /\ ~Beside THEN <<"jobs_drain">> ELSE <<>>)
    /\ UNCHANGED <<finisher, pipeline, driverFailed, packet, open, pc, asleep, data, answer>>

\* PendingLabel asks the finisher, then the queue of commits; a wait for the label
\* it tells is over.
Passes == plan' = <<>> /\ answer' = [to |-> packet.to, value |-> packet.want]

AskJobs ==
    /\ At("worker", "ask")
    /\ IF HoldsLabel(jobs, packet.to, packet.want)
         THEN Passes
         ELSE /\ Then(IF Busy /\ ~Holds(jobs, packet.to) THEN <<"ask_items">> ELSE <<>>)
              /\ UNCHANGED answer
    /\ UNCHANGED <<finisher, pipeline, driverFailed, packet, open, pc, asleep, data>>

AskItems ==
    /\ At("worker", "ask_items")
    /\ IF HoldsLabel(items, packet.to, packet.want)
         THEN Passes
         ELSE Then(<<>>) /\ UNCHANGED answer
    /\ UNCHANGED <<finisher, pipeline, driverFailed, packet, open, pc, asleep, data>>

\* Overlaps asks them in the same order; what it does not clear drains.
OverlapJobs ==
    /\ At("worker", "overlap")
    /\ Then(IF ~Busy THEN <<>>
            ELSE IF packet.kind = "other" \/ Holds(jobs, packet.to) THEN <<"drain">>
            ELSE <<"overlap_items">>)
    /\ UNCHANGED <<finisher, pipeline, driverFailed, packet, open, pc, asleep, data, answer>>

OverlapItems ==
    /\ At("worker", "overlap_items")
    /\ Then(IF Holds(items, packet.to) \/ (packet.kind = "wait" /\ memory[packet.to] # packet.want)
              THEN <<"drain">> ELSE <<>>)
    /\ UNCHANGED <<finisher, pipeline, driverFailed, packet, open, pc, asleep, data, answer>>

\* The packet reads memory.  A wait that is not satisfied stays for another queue.
Read ==
    /\ At("worker", "read")
    /\ Then(<<>>)
    /\ answer' = IF packet.kind = "wait" /\ memory[packet.to] # packet.want THEN NoAnswer
                 ELSE [to |-> packet.to, value |-> memory[packet.to]]
    /\ UNCHANGED <<finisher, pipeline, driverFailed, packet, open, pc, asleep, data>>

\* The submission is over, or the worker gives up and fails the driver.
Close ==
    /\ At("worker", "close")
    /\ Then(<<>>) /\ open' = FALSE
    /\ UNCHANGED <<finisher, pipeline, driverFailed, packet, pc, asleep, data, answer>>

GiveUp ==
    /\ At("worker", "give_up")
    /\ Then(<<>>) /\ open' = FALSE
    /\ driverFailed' = TRUE
    /\ UNCHANGED <<finisher, pipeline, packet, pc, asleep, data, answer>>

-----------------------------------------------------------------------------
(* Driver::stop, once the worker has ended.                                *)

StopDriver ==
    /\ plan = <<>> /\ ~open /\ ~closing
    /\ plan' = <<"jobs_drain", "stop", "join">>
    /\ UNCHANGED <<finisher, pipeline, driverFailed, packet, open, pc, asleep, data, answer>>

Stop ==
    /\ At("worker", "stop")
    /\ closing' = TRUE
    /\ asleep' = asleep \ {"committer"}
    /\ Then(<<>>)
    /\ UNCHANGED <<finisher, items, failure, committerWaiting, idleWaiters, resumeAt,
                   stopped, driverFailed, packet, open, pc, data, answer>>

Join ==
    /\ At("worker", "join")
    /\ pc.committer = "gone"
    /\ Then(<<>>)
    /\ UNCHANGED <<finisher, pipeline, driverFailed, packet, open, pc, asleep, data, answer>>

-----------------------------------------------------------------------------
(* The finisher and the committer.                                         *)

\* DrawFinisher::run: a job is skipped while an earlier one's error is unreported.
FetchJob ==
    /\ At("finisher", "fetch")
    /\ jobs # <<>>
    /\ sleeping' = FALSE
    /\ pc' = [pc EXCEPT !.finisher = IF jobFailure THEN "retire" ELSE "work"]
    /\ UNCHANGED <<jobs, jobFailure, pipeline, driverFailed, plan, packet, open, asleep,
                   data, answer>>

AwaitJob ==
    /\ At("finisher", "fetch")
    /\ jobs = <<>>
    /\ sleeping' = TRUE
    /\ asleep' = asleep \cup {"finisher"}
    /\ UNCHANGED <<jobs, jobFailure, pipeline, driverFailed, plan, packet, open, pc,
                   data, answer>>

Work(throws) ==
    /\ At("finisher", "work")
    /\ throws => ~Head(jobs).label /\ errors < MaxErrors
    /\ errors' = IF throws THEN errors + 1 ELSE errors
    /\ pc' = [pc EXCEPT !.finisher = IF throws THEN "retire_failed" ELSE "push"]
    /\ UNCHANGED <<finisher, pipeline, driverFailed, plan, packet, open, asleep, memory,
                   latest, written, committed, answer>>

\* Mutation: a job that threw ends the finisher's thread.
RetireJobOrEnd(failed) ==
    /\ At("finisher", IF failed THEN "retire_failed" ELSE "retire")
    /\ jobFailure' = (jobFailure \/ failed)
    /\ jobs' = Tail(jobs)
    /\ asleep' = asleep \ OnJobsIdle
    /\ pc' = [pc EXCEPT !.finisher = IF failed THEN "gone" ELSE "fetch"]
    /\ UNCHANGED <<sleeping, pipeline, driverFailed, plan, packet, open, data, answer>>

RetireJob(failed) ==
    /\ At("finisher", IF failed THEN "retire_failed" ELSE "retire")
    /\ jobFailure' = (jobFailure \/ failed)
    /\ jobs' = Tail(jobs)
    /\ asleep' = asleep \ OnJobsIdle
    /\ pc' = [pc EXCEPT !.finisher = "fetch"]
    /\ UNCHANGED <<sleeping, pipeline, driverFailed, plan, packet, open, data, answer>>

\* DrawPipeline::run; after a commit has thrown the rest is dropped.
FetchItem ==
    /\ At("committer", "fetch")
    /\ items # <<>>
    /\ committerWaiting' = FALSE
    /\ pc' = [pc EXCEPT !.committer = IF stopped THEN "retire" ELSE "commit"]
    /\ UNCHANGED <<finisher, items, failure, idleWaiters, resumeAt, stopped, closing,
                   driverFailed, plan, packet, open, asleep, data, answer>>

AwaitItem ==
    /\ At("committer", "fetch")
    /\ items = <<>>
    /\ IF closing
         THEN /\ pc' = [pc EXCEPT !.committer = "gone"]
              /\ committerWaiting' = FALSE
              /\ UNCHANGED asleep
         ELSE /\ committerWaiting' = TRUE
              /\ asleep' = asleep \cup {"committer"}
              /\ UNCHANGED pc
    /\ UNCHANGED <<finisher, items, failure, idleWaiters, resumeAt, stopped, closing,
                   driverFailed, plan, packet, open, data, answer>>

Commit ==
    /\ At("committer", "commit")
    /\ memory' = [p \in Places |-> IF p = Head(items).to THEN Head(items).n ELSE memory[p]]
    /\ committed' = Append(committed, Head(items).n)
    /\ pc' = [pc EXCEPT !.committer = "retire"]
    /\ UNCHANGED <<finisher, pipeline, driverFailed, plan, packet, open, asleep, latest,
                   written, errors, answer>>

CommitThrows ==
    /\ At("committer", "commit")
    /\ errors < MaxErrors
    /\ errors' = errors + 1
    /\ stopped' = TRUE
    /\ driverFailed' = TRUE
    /\ pc' = [pc EXCEPT !.committer = "retire_failed"]
    /\ UNCHANGED <<finisher, items, failure, committerWaiting, idleWaiters, resumeAt,
                   closing, plan, packet, open, asleep, memory, latest, written,
                   committed, answer>>

\* Mutation: only an empty queue is worth a notification.
RetireItemWhenEmpty(failed) ==
    /\ At("committer", IF failed THEN "retire_failed" ELSE "retire")
    /\ items' = Tail(items)
    /\ failure' = (failure \/ failed)
    /\ asleep' = IF idleWaiters # 0 /\ Len(items) = 1 THEN asleep \ OnItemsIdle ELSE asleep
    /\ pc' = [pc EXCEPT !.committer = "fetch"]
    /\ UNCHANGED <<finisher, committerWaiting, idleWaiters, resumeAt, stopped, closing,
                   driverFailed, plan, packet, open, data, answer>>

RetireItem(failed) ==
    /\ At("committer", IF failed THEN "retire_failed" ELSE "retire")
    /\ items' = Tail(items)
    /\ failure' = (failure \/ failed)
    /\ asleep' = IF idleWaiters # 0 /\ (Len(items) = 1 \/ Len(items) - 1 <= resumeAt)
                   THEN asleep \ OnItemsIdle ELSE asleep
    /\ pc' = [pc EXCEPT !.committer = "fetch"]
    /\ UNCHANGED <<finisher, committerWaiting, idleWaiters, resumeAt, stopped, closing,
                   driverFailed, plan, packet, open, data, answer>>

\* A worker that was woken too early, or comes to a queue that is not empty, sleeps.
SleepAgain ==
    /\ \/ At("worker", "jobs_drain") \/ At("worker", "settle")
    /\ jobs # <<>>
    /\ asleep' = asleep \cup {"worker"}
    /\ UNCHANGED <<finisher, pipeline, driverFailed, plan, packet, open, pc, data, answer>>

-----------------------------------------------------------------------------
Worker ==
    \/ \E steps \in {<<>>, <<"drain">>} : Open(steps)
    \/ Interrupted \/ Packet
    \/ EnqueueJob \/ JobRoom \/ DrainJobs \/ Settle \/ SleepAgain
    \/ Enqueue \/ Push("worker") \/ Room("worker")
    \/ Drain \/ DrainItems \/ DrainLock \/ Drained
    \/ GoBeside \/ AskJobs \/ AskItems \/ OverlapJobs \/ OverlapItems \/ Read
    \/ Close \/ GiveUp \/ StopDriver \/ Stop \/ Join

Finisher ==
    \/ FetchJob \/ AwaitJob \/ \E b \in BOOLEAN : Work(b) \/ RetireJob(b)
    \/ Push("finisher") \/ Room("finisher")

Committer ==
    FetchItem \/ AwaitItem \/ Commit \/ CommitThrows \/ \E b \in BOOLEAN : RetireItem(b)

Next == Worker \/ Finisher \/ Committer

Spec == Init /\ [][Next]_vars
FairSpec == Spec /\ WF_vars(plan # <<>> /\ Worker) /\ WF_vars(Finisher) /\ WF_vars(Committer)

-----------------------------------------------------------------------------
\* Commits are done in packet order, none twice and, as long as nothing threw,
\* none left out, although some went through the finisher and some did not.
CommitsInOrder ==
    \A i \in 1..Len(committed) :
        /\ i > 1 => committed[i - 1] < committed[i]
        /\ errors = 0 => committed[i] = i

\* A packet that reads, from memory or from a queued label, sees the last write
\* before it in packet order, wherever that write is: with the finisher, on its
\* way into the queue of commits, in it, or done.
ReadsSeeLatest ==
    answer.to \in Places /\ errors = 0 => answer.value = latest[answer.to]

\* Nobody sleeps although what he waits for has come: the finisher and the
\* committer on work, the worker and the finisher on room or an empty queue.
NobodySleepsInVain ==
    /\ "finisher" \in asleep /\ pc.finisher = "fetch" => jobs = <<>>
    /\ "committer" \in asleep => items = <<>> /\ ~closing
    /\ \A a \in asleep :
          /\ Stage(a) = "job_room" => Len(jobs) >= JobDepth
          /\ Stage(a) \in {"jobs_drain", "settle"} => jobs # <<>>
          /\ Stage(a) = "room" => Len(items) >= Depth
          /\ Stage(a) = "drained" => items # <<>>

\* A job reads its submission, which lives on the worker's stack: when no
\* submission is being executed the finisher has none, also after an exception.
JobsEndWithSubmission == ~open => jobs = <<>>

\* Whatever the finisher and the committer do, or fail to do, the worker gets
\* through its packet, its unwinding and the stop of the driver.
WorkerGoesOn == plan # <<>> ~> plan = <<>>

\* ARCHITECTURE.md: an exception thrown by a commit is rethrown on the worker at
\* its next enqueue or drain.  No drain comes to its end over such an exception.
DrainRethrows ==
    [][ (failure /\ ~(plan # <<>> /\ plan[Len(plan)] = "give_up")
           /\ Stage("worker") \in {"drain_items", "drain_lock", "drained"})
         => plan' # Tail(plan) ]_vars
=============================================================================
