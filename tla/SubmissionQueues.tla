-------------------------- MODULE SubmissionQueues --------------------------
(***************************************************************************)
(* The submission queues of the AGC driver, from                           *)
(* libSceAgcDriver/Execution/src/Driver: Queues/QueueWorker.cpp,           *)
(* Queues/Submission.cpp, Lifecycle.cpp, the ends of waitMemory and        *)
(* execute, and the commit queue of Draw/DrawPipeline.cpp.                 *)
(*                                                                         *)
(* Each queue has a worker thread that runs its submissions in order.  The *)
(* graphics queue and the others are ordered against each other by what    *)
(* they may wait for: a submission without a wait is held until the        *)
(* graphics queue has finished what was submitted before it, and the       *)
(* graphics queue is held behind earlier submissions without a wait.  The  *)
(* graphics queue hands its labels and its completions to a pipeline that  *)
(* one committer thread drains.  A submission that flips is held in the    *)
(* title's own call until the flips before it are done.                    *)
(*                                                                         *)
(* A submission is at most one wait for a label, one flip and one store to *)
(* a label, in this order; a label is stored once.  The GPU and the        *)
(* recorder are outside: a store is in memory when its writer performs it, *)
(* and no completion label is ever pending.                                *)
(***************************************************************************)
EXTENDS Integers, Sequences, FiniteSets, SequencesExt

CONSTANTS Queues, Graphics,     \* the queues, and queue 0
          Titles,               \* the title's threads
          Labels, NoLabel,
          Programs,             \* what the title submits
          MaxSubmissions,       \* bound on the submissions
          Depth,                \* DrawPipeline::Depth; 0: nothing is pipelined
          MayFail, MayStop      \* may a packet fail, may the process shut down?

ASSUME QueuesAssumption == /\ Graphics \in Queues /\ IsFiniteSet(Queues) /\ IsFiniteSet(Titles)
                           /\ Queues \cap Titles = {}
ASSUME ProgramsAssumption ==
    /\ NoLabel \notin Labels
    /\ Programs \subseteq [queue: Queues, waits: Labels \cup {NoLabel}, writes: Labels \cup {NoLabel},
                           flip: BOOLEAN, suspend: BOOLEAN]
    /\ \A p \in Programs : /\ (p.flip \/ p.suspend) => p.queue = Graphics
                           /\ p.suspend => ~p.flip /\ p.waits = NoLabel /\ p.writes = NoLabel
ASSUME BoundsAssumption == MaxSubmissions \in Nat /\ Depth \in Nat /\ MayFail \in BOOLEAN /\ MayStop \in BOOLEAN

VARIABLES
    pending, current,   \* per queue: the submissions waiting, and the one its worker has taken
    pc,                 \* per worker: ready, hold, run, blocked, noting, past, flipped, stored, executed, deferred,
                        \* leaving, thrown, gone
    queue0Executing, queue0Uncommitted, queue0Awaited,
    executingWaitFree, executingWaits, unfinishedWrites,
    runningWorkers,
    accepted, completed, completedOutOfOrder,
    pipeline, committer,    \* the committer: running, stopped by an exception, failed for who enqueues
    flipsAhead, flipWorkOpen, queue0AwaitsTitle,
    titlePc, request, target,   \* per title thread: what it does, submits, and waits for
    asleep,             \* the threads blocked on `changed` without a deadline
    written,            \* the labels stored in guest memory
    failure, stopping

worker == <<pending, current, pc>>
order  == <<queue0Executing, queue0Uncommitted, executingWaitFree, executingWaits, unfinishedWrites>>
blocks == <<queue0Awaited, runningWorkers>>
serial == <<accepted, completed, completedOutOfOrder>>
commit == <<pipeline, committer>>
flips  == <<flipsAhead, flipWorkOpen, queue0AwaitsTitle>>
title  == <<titlePc, request, target>>
halt   == <<failure, stopping>>
vars   == <<worker, order, blocks, serial, commit, flips, title, asleep, written, halt>>

NoSubmission == [serial |-> 0, queue |-> Graphics, waits |-> NoLabel, writes |-> NoLabel,
                 flip |-> FALSE, suspend |-> FALSE]

Step(q, to)      == pc' = [pc EXCEPT ![q] = to]
TitleStep(t, to) == titlePc' = [titlePc EXCEPT ![t] = to]
Room             == Depth # 0 /\ Len(pipeline) < Depth /\ committer # "failed"
\* Mutation: notify_one.
NotifyOne == IF asleep = {} THEN UNCHANGED asleep ELSE \E x \in asleep : asleep' = asleep \ {x}
NotifyAll        == asleep' = {}
Halted           == failure \/ stopping

Init ==
    /\ pending = [q \in Queues |-> <<>>] /\ current = [q \in Queues |-> NoSubmission]
    /\ pc = [q \in Queues |-> "ready"]
    /\ queue0Executing = 0 /\ queue0Uncommitted = <<>> /\ queue0Awaited = NoLabel
    /\ executingWaitFree = [q \in Queues |-> 0]
    /\ executingWaits = [q \in Queues |-> FALSE]
    /\ unfinishedWrites = [q \in Queues |-> [l \in Labels |-> 0]]
    /\ runningWorkers = 0
    /\ accepted = 0 /\ completed = 0 /\ completedOutOfOrder = {}
    /\ pipeline = <<>> /\ committer = "running"
    /\ flipsAhead = 0 /\ flipWorkOpen = 0 /\ queue0AwaitsTitle = FALSE
    /\ titlePc = [t \in Titles |-> "ready"]
    /\ request = [t \in Titles |-> NoSubmission] /\ target = [t \in Titles |-> 0]
    /\ asleep = {} /\ written = {}
    /\ failure = FALSE /\ stopping = FALSE

-----------------------------------------------------------------------------
(* Who goes first.  Submissions are received in the order of their serials;*)
(* a suspend point has no place in that order.                             *)

WaitFree(s) == s.queue # Graphics /\ ~s.suspend /\ ~s.flip /\ s.waits = NoLabel

\* The first of the graphics queue's submissions that is no suspend point.
PendingBefore(received) ==
    \E i \in DOMAIN pending[Graphics] :
        /\ ~pending[Graphics][i].suspend /\ \A j \in 1..(i - 1) : pending[Graphics][j].suspend
        /\ pending[Graphics][i].serial < received

\* Mutation: what the pipeline has not completed is overlooked.
Queue0BeforeUncommitted(received) ==
    (queue0Executing # 0 /\ queue0Executing < received) \/ PendingBefore(received)
Queue0Before(received) ==
    \/ queue0Executing # 0 /\ queue0Executing < received
    \/ queue0Uncommitted # <<>> /\ Head(queue0Uncommitted) < received
    \/ PendingBefore(received)

\* Mutation: a queue at a submission that waits is not passed over.
WaitFreeBeforeBlocked(received) ==
    \E q \in Queues \ {Graphics} :
        \/ executingWaitFree[q] # 0 /\ executingWaitFree[q] < received
        \/ /\ pending[q] # <<>>
           /\ WaitFree(Head(pending[q])) /\ Head(pending[q]).serial < received
WaitFreeBefore(received) ==
    \E q \in Queues \ {Graphics} :
        /\ ~executingWaits[q]
        /\ \/ executingWaitFree[q] # 0 /\ executingWaitFree[q] < received
           \/ /\ pending[q] # <<>>
              /\ WaitFree(Head(pending[q])) /\ Head(pending[q]).serial < received

OrderReleased(q, received) ==
    \/ ~Queue0Before(received)
    \/ /\ queue0Awaited # NoLabel
       /\ unfinishedWrites[q][queue0Awaited] > 0 \/ runningWorkers = 0

Released(q) ==
    \/ Halted
    \/ IF q = Graphics THEN ~WaitFreeBefore(current[q].serial) ELSE OrderReleased(q, current[q].serial)

OrderHolders == {q \in Queues : pc[q] = "hold"}
FlipHolders  == {t \in Titles : titlePc[t] \in {"holdFlip", "holdWork"}}
IdleWaiters  == {t \in Titles : titlePc[t] = "waitIdle"}

-----------------------------------------------------------------------------
(* Completions.                                                            *)

\* Mutation: the latest completion counts for all before it.
InAnyOrder(done, from) == CHOOSE n \in done : \A m \in done : m <= n
\* The serials up to the first one still open, and the rest.
InOrder(done, from) == CHOOSE n \in from..accepted : /\ from + 1 .. n \subseteq done
                                                     /\ n + 1 \notin done

MarkCompleted(s) ==
    LET done == completedOutOfOrder \cup {s}
        upTo == InOrder(done, completed)
    IN  /\ completed' = upTo
        /\ completedOutOfOrder' = {n \in done : n > upTo}

\* forgetUnfinishedWrites of one queue's worker.
Forget(q, label) ==
    unfinishedWrites' = IF label # NoLabel /\ unfinishedWrites[q][label] > 0
                        THEN [unfinishedWrites EXCEPT ![q][label] = @ - 1] ELSE unfinishedWrites

\* What the failure path and a shutdown drop.
DropPending ==
    /\ pending' = [q \in Queues |-> <<>>]
    /\ unfinishedWrites' = [q \in Queues |-> [l \in Labels |-> 0]]

ReportFailure ==
    /\ failure' = TRUE
    /\ DropPending
    /\ NotifyAll
    /\ UNCHANGED stopping

-----------------------------------------------------------------------------
(* A queue's worker.                                                       *)

\* It sleeps while there is nothing to do.
Sleep(q) ==
    /\ pc[q] = "ready" /\ pending[q] = <<>> /\ ~Halted
    /\ asleep' = asleep \cup {q}
    /\ UNCHANGED <<worker, order, blocks, serial, commit, flips, title, written, halt>>

\* It takes its next submission, and holds it or starts it.
Dequeue(q) ==
    LET s == Head(pending[q])
        held == WaitFree(s) \/ (q = Graphics /\ ~s.suspend)
    IN  /\ pc[q] = "ready" /\ q \notin asleep /\ ~Halted /\ pending[q] # <<>>
        /\ pending' = [pending EXCEPT ![q] = Tail(@)]
        /\ current' = [current EXCEPT ![q] = s]
        /\ IF q = Graphics
             THEN /\ queue0Executing' = IF s.suspend THEN 0 ELSE s.serial
                  /\ UNCHANGED <<executingWaitFree, executingWaits>>
             ELSE /\ executingWaitFree' = [executingWaitFree EXCEPT ![q] = IF WaitFree(s) THEN s.serial ELSE 0]
                  /\ executingWaits' = [executingWaits EXCEPT ![q] = ~WaitFree(s) /\ ~s.suspend]
                  /\ UNCHANGED queue0Executing
        /\ Step(q, IF held THEN "hold" ELSE "run")
        /\ runningWorkers' = runningWorkers + (IF held THEN 0 ELSE 1)
        /\ UNCHANGED <<queue0Uncommitted, queue0Awaited, unfinishedWrites, serial, commit, flips, title, asleep, written, halt>>

\* A held submission is released: OrderHold's loop and Running::Start.
Start(q) ==
    /\ pc[q] = "hold" /\ Released(q) /\ ~failure
    /\ Step(q, "run")
    /\ runningWorkers' = runningWorkers + 1
    /\ UNCHANGED <<pending, current, order, queue0Awaited, serial, commit, flips, title, asleep, written, halt>>

\* The worker of a failed or stopping driver ends: rethrowFailure, and the loop's break.
Retire(q) ==
    /\ \/ pc[q] = "ready" /\ q \notin asleep /\ Halted
       \/ pc[q] = "hold" /\ failure
    /\ Step(q, "gone")
    /\ current' = [current EXCEPT ![q] = NoSubmission]
    /\ UNCHANGED <<pending, order, blocks, serial, commit, flips, title, asleep, written, halt>>

\* A wait that memory, or a label the pipeline still holds, satisfies; or no wait at all.
PassWait(q) ==
    LET l == current[q].waits
    IN  /\ pc[q] = "run" /\ ~current[q].suspend
        /\ \/ l = NoLabel \/ l \in written
           \/ q = Graphics /\ \E i \in DOMAIN pipeline : pipeline[i].kind = "label" /\ pipeline[i].writes = l
        /\ Step(q, "past")
        /\ UNCHANGED <<pending, current, order, blocks, serial, commit, flips, title, asleep, written, halt>>

\* noteWaitBlocked(queue, awaited, true), after the graphics queue has drained its pipeline.
Block(q) ==
    LET l == current[q].waits
    IN  /\ pc[q] = "run" /\ l # NoLabel /\ l \notin written
        /\ q = Graphics => pipeline = <<>>
        /\ Step(q, "blocked")
        /\ runningWorkers' = runningWorkers - 1
        /\ queue0Awaited' = IF q = Graphics THEN l ELSE queue0Awaited
        /\ IF runningWorkers = 1 \/ OrderHolders # {} THEN NotifyAll ELSE UNCHANGED asleep
        /\ UNCHANGED <<pending, current, order, serial, commit, flips, title, written, halt>>

\* noteWaitBlocked(queue, 0, false).
EndBlock(q) ==
    /\ runningWorkers' = runningWorkers + 1
    /\ queue0Awaited' = IF q = Graphics THEN NoLabel ELSE queue0Awaited
    /\ queue0AwaitsTitle' = (q # Graphics /\ queue0AwaitsTitle)
    /\ UNCHANGED <<flipsAhead, flipWorkOpen>>

Unblock(q) ==
    /\ pc[q] = "blocked" /\ current[q].waits \in written
    /\ Step(q, "past")
    /\ EndBlock(q)
    /\ UNCHANGED <<pending, current, order, serial, commit, title, asleep, written, halt>>

\* noteAwaitingTitle: only the title can still satisfy the graphics queue's wait.  The question
\* is asked without the mutex, the answer is stored under it.
AwaitsTitle ==
    /\ pc[Graphics] = "blocked" /\ FlipHolders # {} /\ ~queue0AwaitsTitle
    /\ runningWorkers = 0 /\ OrderHolders = {}
    /\ Step(Graphics, "noting")
    /\ UNCHANGED <<pending, current, order, blocks, serial, commit, flips, title, asleep, written, halt>>

NoteAwaitingTitle ==
    /\ pc[Graphics] = "noting"
    /\ Step(Graphics, "blocked")
    /\ queue0AwaitsTitle' = TRUE
    /\ NotifyAll
    /\ UNCHANGED <<pending, current, order, blocks, serial, commit, flipsAhead, flipWorkOpen, title, written, halt>>

\* releaseFlipHold, at the flip packet.
ReleaseFlip(q) ==
    /\ pc[q] = "past" /\ current[q].flip /\ pipeline = <<>>
    /\ Step(q, "flipped")
    /\ flipsAhead' = flipsAhead - 1
    /\ IF FlipHolders # {} THEN NotifyAll ELSE UNCHANGED asleep
    /\ UNCHANGED <<pending, current, order, blocks, serial, commit, flipWorkOpen, queue0AwaitsTitle, title, written, halt>>

\* The end of the packets: the label is queued behind the pipeline's work, or stored.
Store(q) ==
    LET l == current[q].writes
    IN  /\ pc[q] = IF current[q].flip THEN "flipped" ELSE "past"
        /\ Step(q, "stored")
        /\ \/ l = NoLabel /\ UNCHANGED <<pipeline, written>>
           \/ /\ l # NoLabel /\ q = Graphics /\ Room
              /\ pipeline' = Append(pipeline, [kind |-> "label", serial |-> 0, writes |-> l, flip |-> FALSE])
              /\ UNCHANGED written
           \/ /\ l # NoLabel /\ (q = Graphics => pipeline = <<>>)
              /\ written' = written \cup {l}
              /\ UNCHANGED pipeline
        /\ UNCHANGED <<pending, current, order, blocks, serial, committer, flips, title, asleep, halt>>

\* deferCompletion: the pipeline will complete the submission.
DeferCompletion ==
    LET s == current[Graphics]
    IN  /\ pc[Graphics] = "stored" /\ Room
        /\ queue0Uncommitted' = Append(queue0Uncommitted, s.serial)
        /\ pipeline' = Append(pipeline, [kind |-> "complete", serial |-> s.serial, writes |-> s.writes, flip |-> s.flip])
        /\ Step(Graphics, "deferred")
        /\ UNCHANGED <<pending, current, queue0Executing, executingWaitFree, executingWaits, unfinishedWrites,
                       blocks, serial, committer, flips, title, asleep, written, halt>>

\* execute ends without the pipeline: a suspend point, a queue without one, or labels kept back.
EndExecute(q) ==
    /\ pc[q] = "stored" \/ (pc[q] = "run" /\ current[q].suspend)
    /\ q = Graphics => pipeline = <<>>
    /\ Step(q, "executed")
    /\ flipWorkOpen' = flipWorkOpen - (IF current[q].flip THEN 1 ELSE 0)
    /\ IF current[q].flip /\ FlipHolders # {} THEN NotifyAll ELSE UNCHANGED asleep
    /\ UNCHANGED <<pending, current, order, blocks, serial, commit, flipsAhead, queue0AwaitsTitle, title, written, halt>>

\* The submission is entered as completed, and whoever asked for it is notified.
Complete(q) ==
    LET s == current[q]
    IN  /\ pc[q] \in {"executed", "deferred"} /\ ~failure
        /\ IF pc[q] = "executed" THEN /\ MarkCompleted(s.serial)
                                      /\ Forget(q, s.writes)
                                      /\ UNCHANGED accepted
                                 ELSE UNCHANGED <<serial, unfinishedWrites>>
        /\ IF q = Graphics
             THEN queue0Executing' = 0 /\ UNCHANGED <<executingWaitFree, executingWaits>>
             ELSE /\ executingWaitFree' = [executingWaitFree EXCEPT ![q] = 0]
                  /\ executingWaits' = [executingWaits EXCEPT ![q] = FALSE]
                  /\ UNCHANGED queue0Executing
        /\ IF IdleWaiters # {} \/ OrderHolders # {} THEN NotifyAll ELSE UNCHANGED asleep
        /\ Step(q, "leaving")
        /\ UNCHANGED <<pending, current, queue0Uncommitted, blocks, commit, flips, title, written, halt>>

\* The end of the loop's body: ~Running, outside the mutex.
Leave(q) ==
    /\ pc[q] = "leaving"
    /\ Step(q, "ready")
    /\ current' = [current EXCEPT ![q] = NoSubmission]
    /\ runningWorkers' = runningWorkers - 1
    /\ IF runningWorkers = 1 THEN NotifyAll ELSE UNCHANGED asleep
    /\ UNCHANGED <<pending, order, queue0Awaited, serial, commit, flips, title, written, halt>>

\* An exception leaves execute, or the completion after a failure: PipelineDrain, FlipHold, ~Running.
Unwind(q) ==
    LET s == current[q]
        inExecute == pc[q] \in {"run", "blocked", "past", "flipped", "stored"}
        ahead == inExecute /\ s.flip /\ pc[q] \in {"run", "blocked", "past"}
        open == inExecute /\ s.flip
    IN  /\ \/ inExecute /\ (MayFail \/ Halted) /\ (q = Graphics => pipeline = <<>>)
           \/ pc[q] \in {"executed", "deferred"} /\ failure
        /\ Step(q, "thrown")
        /\ current' = IF pc[q] = "deferred" THEN [current EXCEPT ![q] = NoSubmission] ELSE current
        /\ flipsAhead' = flipsAhead - (IF ahead THEN 1 ELSE 0)
        /\ flipWorkOpen' = flipWorkOpen - (IF open THEN 1 ELSE 0)
        /\ IF pc[q] = "blocked"
             THEN /\ queue0Awaited' = IF q = Graphics THEN NoLabel ELSE queue0Awaited
                  /\ queue0AwaitsTitle' = (q # Graphics /\ queue0AwaitsTitle)
                  /\ UNCHANGED runningWorkers
             ELSE /\ runningWorkers' = runningWorkers - 1
                  /\ UNCHANGED <<queue0Awaited, queue0AwaitsTitle>>
        /\ NotifyAll
        /\ UNCHANGED <<pending, order, serial, commit, title, written, halt>>

\* run's catch blocks: ReportFailure, or nothing for a shutdown.
Catch(q) ==
    /\ pc[q] = "thrown"
    /\ Step(q, "gone")
    /\ current' = [current EXCEPT ![q] = NoSubmission]
    /\ \/ /\ MayFail \/ failure
          /\ ReportFailure
          /\ UNCHANGED <<queue0Executing, queue0Uncommitted, executingWaitFree, executingWaits>>
       \/ /\ stopping
          /\ UNCHANGED <<pending, order, asleep, halt>>
    /\ UNCHANGED <<blocks, serial, commit, flips, title, written>>

-----------------------------------------------------------------------------
(* The committer, DrawPipeline::run.                                       *)

Committing(kind) == pipeline # <<>> /\ Head(pipeline).kind = kind /\ committer = "running"

CommitLabel ==
    /\ Committing("label")
    /\ written' = written \cup {Head(pipeline).writes}
    /\ pipeline' = Tail(pipeline)
    /\ UNCHANGED <<worker, order, blocks, serial, committer, flips, title, asleep, halt>>

\* completeSubmission, first half: finishFlipWork.
FinishFlipWork ==
    /\ Committing("complete") /\ Head(pipeline).flip
    /\ pipeline' = <<[Head(pipeline) EXCEPT !.flip = FALSE]>> \o Tail(pipeline)
    /\ flipWorkOpen' = flipWorkOpen - 1
    /\ IF FlipHolders # {} THEN NotifyAll ELSE UNCHANGED asleep
    /\ UNCHANGED <<worker, order, blocks, serial, committer, flipsAhead, queue0AwaitsTitle, title, written, halt>>

\* completeSubmission, second half: ~Complete.
CompleteSubmission ==
    LET item == Head(pipeline)
    IN  /\ Committing("complete") /\ ~item.flip
        /\ MarkCompleted(item.serial)
        /\ Forget(Graphics, item.writes)
        /\ queue0Uncommitted' = RemoveFirst(queue0Uncommitted, item.serial)
        /\ IF IdleWaiters # {} \/ OrderHolders # {} THEN NotifyAll ELSE UNCHANGED asleep
        /\ pipeline' = Tail(pipeline)
        /\ UNCHANGED <<worker, queue0Executing, executingWaitFree, executingWaits, accepted, blocks,
                       committer, flips, title, written, halt>>

\* A commit throws: the driver fails, and the rest of the pipeline is dropped unrun.
CommitFails ==
    /\ MayFail /\ Committing("label")
    /\ committer' = "stopped"
    /\ ReportFailure
    /\ UNCHANGED <<current, pc, queue0Executing, queue0Uncommitted, executingWaitFree, executingWaits,
                   blocks, serial, pipeline, flips, title, written>>

\* Whoever enqueues after this has the failure thrown at it.
DropItem ==
    /\ committer # "running" /\ pipeline # <<>>
    /\ pipeline' = Tail(pipeline) /\ committer' = "failed"
    /\ UNCHANGED <<worker, order, blocks, serial, flips, title, asleep, written, halt>>

-----------------------------------------------------------------------------
(* The title.                                                              *)

Submit(t, p) ==
    /\ titlePc[t] = "ready" /\ ~Halted
    /\ accepted + Cardinality({u \in Titles : titlePc[u] \in {"holdFlip", "holdWork", "enqueue"}}) < MaxSubmissions
    /\ request' = [request EXCEPT ![t] = [serial |-> 0, queue |-> p.queue, waits |-> p.waits, writes |-> p.writes,
                                          flip |-> p.flip, suspend |-> p.suspend]]
    /\ TitleStep(t, IF p.flip THEN "holdFlip" ELSE "enqueue")
    /\ UNCHANGED <<worker, order, blocks, serial, commit, flips, target, asleep, written, halt>>

\* The conditions of the title's waits on `changed`.
WaitOver(t) ==
    \/ Halted
    \/ titlePc[t] = "holdFlip" /\ (flipsAhead = 0 \/ queue0AwaitsTitle)
    \/ titlePc[t] = "holdWork" /\ (flipWorkOpen = 0 \/ queue0AwaitsTitle)
    \/ titlePc[t] = "waitIdle" /\ completed >= target[t]

TitleSleeps(t) ==
    /\ t \in FlipHolders \cup IdleWaiters /\ ~WaitOver(t)
    /\ asleep' = asleep \cup {t}
    /\ UNCHANGED <<worker, order, blocks, serial, commit, flips, title, written, halt>>

\* Mutation: the title waits for the flips before it, not for their work.
PassFirstFlipHold(t) ==
    /\ t \in FlipHolders /\ t \notin asleep /\ WaitOver(t)
    /\ TitleStep(t, "enqueue")
    /\ UNCHANGED <<worker, order, blocks, serial, commit, flips, request, target, asleep, written, halt>>
\* holdFlipBehindWorker goes on.
PassFlipHold(t) ==
    /\ t \in FlipHolders /\ t \notin asleep /\ WaitOver(t)
    /\ TitleStep(t, IF titlePc[t] = "holdFlip" /\ ~Halted /\ flipsAhead = 0 THEN "holdWork" ELSE "enqueue")
    /\ UNCHANGED <<worker, order, blocks, serial, commit, flips, request, target, asleep, written, halt>>

\* The submission is accepted; a failed or stopping driver refuses it.
Enqueue(t) ==
    LET s == [request[t] EXCEPT !.serial = accepted + 1]
    IN  /\ titlePc[t] = "enqueue"
        /\ TitleStep(t, "ready")
        /\ request' = [request EXCEPT ![t] = NoSubmission]
        /\ IF Halted
             THEN UNCHANGED <<pending, unfinishedWrites, accepted, flipsAhead, flipWorkOpen, asleep>>
             ELSE /\ pending' = [pending EXCEPT ![s.queue] = Append(@, s)]
                  /\ unfinishedWrites' = IF s.writes = NoLabel THEN unfinishedWrites
                                         ELSE [unfinishedWrites EXCEPT ![s.queue][s.writes] = @ + 1]
                  /\ accepted' = s.serial
                  /\ flipsAhead' = flipsAhead + (IF s.flip THEN 1 ELSE 0)
                  /\ flipWorkOpen' = flipWorkOpen + (IF s.flip THEN 1 ELSE 0)
                  /\ NotifyAll
        /\ UNCHANGED <<current, pc, queue0Executing, queue0Uncommitted, executingWaitFree, executingWaits, blocks,
                       completed, completedOutOfOrder, commit, queue0AwaitsTitle, target, written, halt>>

\* A failed or stopping driver has it throw without waiting.
WaitIdle(t) ==
    /\ titlePc[t] = "ready" /\ ~Halted
    /\ TitleStep(t, "waitIdle")
    /\ target' = [target EXCEPT ![t] = accepted]
    /\ UNCHANGED <<worker, order, blocks, serial, commit, flips, request, asleep, written, halt>>

\* WaitIdle returns, or throws when the driver failed or stops.
Idled(t) ==
    /\ t \in IdleWaiters /\ t \notin asleep /\ WaitOver(t)
    /\ TitleStep(t, "ready")
    /\ target' = [target EXCEPT ![t] = 0]
    /\ UNCHANGED <<worker, order, blocks, serial, commit, flips, request, asleep, written, halt>>

\* The title stores a label itself.
TitleStores(t, l) ==
    /\ titlePc[t] = "ready" /\ l \notin written
    /\ written' = written \cup {l}
    /\ UNCHANGED <<worker, order, blocks, serial, commit, flips, title, asleep, halt>>

\* stop.
Stop ==
    /\ MayStop /\ ~stopping
    /\ stopping' = TRUE
    /\ DropPending
    /\ NotifyAll
    /\ UNCHANGED <<current, pc, queue0Executing, queue0Uncommitted, executingWaitFree, executingWaits,
                   blocks, serial, commit, flips, title, written, failure>>

-----------------------------------------------------------------------------
WorkerStep(q) ==
    \/ Sleep(q) \/ Dequeue(q) \/ Start(q) \/ Retire(q)
    \/ PassWait(q) \/ Block(q) \/ Unblock(q) \/ ReleaseFlip(q) \/ Store(q) \/ EndExecute(q)
    \/ Complete(q) \/ Leave(q) \/ Unwind(q) \/ Catch(q)

CommitterStep == CommitLabel \/ FinishFlipWork \/ CompleteSubmission \/ CommitFails \/ DropItem

TitleAction(t) ==
    \/ \E p \in Programs : Submit(t, p)
    \/ TitleSleeps(t) \/ PassFlipHold(t) \/ Enqueue(t) \/ WaitIdle(t) \/ Idled(t)
    \/ \E l \in Labels : TitleStores(t, l)

Next ==
    \/ \E q \in Queues : WorkerStep(q)
    \/ DeferCompletion \/ AwaitsTitle \/ NoteAwaitingTitle
    \/ CommitterStep
    \/ \E t \in Titles : TitleAction(t)
    \/ Stop

Spec == Init /\ [][Next]_vars

-----------------------------------------------------------------------------
(* Properties.                                                             *)

Stages == {"ready", "hold", "run", "blocked", "noting", "past", "flipped", "stored", "executed", "deferred",
           "leaving", "thrown", "gone"}

\* Types, and the two counters at least as large as what they count cannot go below zero.
TypeOK ==
    /\ pc \in [Queues -> Stages]
    /\ runningWorkers \in 0..Cardinality(Queues)
    /\ completed \in 0..accepted /\ completedOutOfOrder \subseteq completed + 2 .. accepted
    /\ flipsAhead \in 0..flipWorkOpen /\ flipWorkOpen \in 0..accepted
    /\ queue0Awaited \in Labels \cup {NoLabel}
    /\ unfinishedWrites \in [Queues -> [Labels -> 0..accepted]]
    /\ Len(pipeline) <= Depth
    /\ asleep \subseteq Queues \cup Titles

\* What a queue has not finished, in order; and what the pipeline has not completed.
Open(q) == (IF pc[q] \in {"deferred", "leaving"} \/ current[q] = NoSubmission THEN <<>> ELSE <<current[q]>>)
           \o pending[q]
Uncommitted == {pipeline[i].serial : i \in {j \in DOMAIN pipeline : pipeline[j].kind = "complete"}}
OpenSerials == Uncommitted \cup UNION {{s.serial : s \in ToSet(Open(q))} : q \in Queues}
Done        == 1..completed \cup completedOutOfOrder

\* What WaitIdle and an application reading the counters are told is completed is what has
\* finished: in whatever order the workers and the committer finish their submissions,
\* nothing counts that is still open, and, unless work was dropped, everything else does.
CompletedIsDone ==
    /\ Done \cap OpenSerials = {}
    /\ ~Halted => Done \cup OpenSerials = 1..accepted

\* A submission without a wait starts only when the graphics queue has finished what was
\* submitted before it, or is itself waiting for a label; the graphics queue starts one only
\* when no other queue is at a submission without a wait that was submitted before.
RunsInOrder ==
    [][\A q \in Queues :
         pc[q] = "hold" /\ pc'[q] = "run" /\ ~Halted =>
            IF q = Graphics
            THEN \A r \in Queues \ {q} :
                    Open(r) # <<>> => ~WaitFree(Head(Open(r))) \/ Head(Open(r)).serial > current[q].serial
            ELSE \/ pc[Graphics] \in {"blocked", "noting"}
                 \/ \A n \in Uncommitted \cup {s.serial : s \in {x \in ToSet(Open(Graphics)) : ~x.suspend}} :
                       n > current[q].serial]_vars

\* Nobody sleeps on `changed` through what it waits for: who makes a condition true
\* notifies, however it decides whether somebody can be waiting.
NoLostWakeup ==
    /\ \A q \in asleep \cap Queues : ~Halted /\ pending[q] = <<>>
    /\ \A t \in asleep \cap Titles : ~WaitOver(t)

\* The two order holds and the flip hold never wait for each other: when no worker and not
\* the committer can go on, no submission is held by the order, a title held at a flip is
\* let go, and everything is completed but for waits that a title must satisfy.
Stuck(q) == \/ pc[q] = "ready" /\ pending[q] = <<>>
            \/ pc[q] = "hold" /\ ~Released(q)
            \/ pc[q] = "blocked" /\ current[q].waits \notin written
               /\ ~(q = Graphics /\ FlipHolders # {} /\ ~queue0AwaitsTitle /\ runningWorkers = 0 /\ OrderHolders = {})
NoOrderDeadlock ==
    (\A q \in Queues : Stuck(q)) /\ pipeline = <<>> /\ ~Halted =>
        /\ OrderHolders = {}
        /\ \A t \in FlipHolders : WaitOver(t)
        /\ \A q \in Queues : Open(q) # <<>> => pc[q] = "blocked"

\* A title goes on with a flip only when the work of every flip before it is done, unless
\* the graphics queue waits for the title or the driver is ending.
FlipsInOrder ==
    [][\A t \in Titles :
         titlePc[t] \in {"holdFlip", "holdWork"} /\ titlePc'[t] = "enqueue" /\ ~Halted /\ ~queue0AwaitsTitle =>
            /\ \A i \in DOMAIN pipeline : ~pipeline[i].flip
            /\ \A i \in DOMAIN Open(Graphics) : Open(Graphics)[i].flip => i = 1 /\ pc[Graphics] \in {"executed", "thrown"}]_vars

=============================================================================
