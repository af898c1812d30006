------------------------------ MODULE IdleStore ------------------------------
(***************************************************************************)
(* The idle write-back of the AGC driver: the graphics queue's worker,     *)
(* Queues/QueueWorker.cpp, sleeps with a deadline while storage-image      *)
(* results are pending and every queue is idle, and stores them when the   *)
(* deadline passes undisturbed; otherwise it sleeps until it is notified.  *)
(* What it compares is idleEpoch, which the last running worker increments *)
(* when it ends its submission or blocks at a wait, and which nobody       *)
(* protects with the mutex.                                                *)
(*                                                                         *)
(* The mutex is held by the graphics worker between the steps its pc names *)
(* in Locked; the other workers and the title need it for one step each.   *)
(* No completion label is ever pending and nothing fails.                  *)
(***************************************************************************)
EXTENDS Naturals, FiniteSets

CONSTANTS Graphics, Others,     \* queue 0, and the compute queues
          MaxSubmissions        \* bound on the submissions

Queues == {Graphics} \cup Others

VARIABLES
    pending,            \* per queue: how many submissions wait
    runningWorkers, idleEpoch,
    results,            \* StorageTexture::AnyPending
    accepted,
    pc,                 \* per worker
    epochAtCheck, epochAtWait, storeIdleResults,    \* the graphics worker's locals
    after               \* what another worker goes on to when it has notified: idle or blocked

locals == <<epochAtCheck, epochAtWait, storeIdleResults>>
vars   == <<pending, runningWorkers, idleEpoch, results, accepted, pc, locals, after>>

Step(q, to) == pc' = [pc EXCEPT ![q] = to]
Locked      == {"ask", "quieting", "load", "predicate", "block"}
Unlocked    == pc[Graphics] \notin Locked

Init ==
    /\ pending = [q \in Queues |-> 0]
    /\ runningWorkers = 0 /\ idleEpoch = 0 /\ results = FALSE /\ accepted = 0
    /\ pc = [q \in Queues |-> IF q = Graphics THEN "check" ELSE "idle"]
    /\ epochAtCheck = 0 /\ epochAtWait = 0 /\ storeIdleResults = FALSE
    /\ after = [w \in Others |-> "idle"]

AllQueuesIdle      == runningWorkers = 0 /\ \A q \in Queues : pending[q] = 0
IdleResultsPending == results /\ AllQueuesIdle
Ready              == pending[Graphics] > 0

-----------------------------------------------------------------------------
(* The graphics queue's worker, run.                                       *)

\* It takes a submission and starts it.
Dequeue ==
    /\ pc[Graphics] = "check" /\ Ready
    /\ pending' = [pending EXCEPT ![Graphics] = @ - 1]
    /\ runningWorkers' = runningWorkers + 1
    /\ Step(Graphics, "run")
    /\ UNCHANGED <<idleEpoch, results, accepted, locals, after>>

\* The submission runs, and may leave results pending; ~Running.
Run ==
    /\ pc[Graphics] = "run"
    /\ results' \in {results, TRUE}
    /\ runningWorkers' = runningWorkers - 1
    /\ idleEpoch' = idleEpoch + (IF runningWorkers = 1 THEN 1 ELSE 0)
    /\ Step(Graphics, "check")
    /\ UNCHANGED <<pending, accepted, locals, after>>

\* Nothing to do: the epoch of this round is read.
Check ==
    /\ pc[Graphics] = "check" /\ ~Ready
    /\ epochAtCheck' = idleEpoch
    /\ Step(Graphics, "ask")
    /\ UNCHANGED <<pending, runningWorkers, idleEpoch, results, accepted, epochAtWait, storeIdleResults, after>>

\* May the results be stored once the queues have been idle long enough?
Ask ==
    /\ pc[Graphics] = "ask"
    /\ storeIdleResults' = IdleResultsPending
    /\ Step(Graphics, IF IdleResultsPending THEN "quieting" ELSE "recheck")
    /\ UNCHANGED <<pending, runningWorkers, idleEpoch, results, accepted, epochAtCheck, epochAtWait, after>>

Quieting ==
    /\ pc[Graphics] = "quieting"
    /\ epochAtWait' = idleEpoch
    /\ Step(Graphics, "quiet")
    /\ UNCHANGED <<pending, runningWorkers, idleEpoch, results, accepted, epochAtCheck, storeIdleResults, after>>

\* wait_until returns, at the latest at the deadline.
EndQuiet ==
    /\ pc[Graphics] = "quiet"
    /\ Step(Graphics, IF Ready \/ idleEpoch # epochAtWait \/ ~IdleResultsPending THEN "check" ELSE "store")
    /\ UNCHANGED <<pending, runningWorkers, idleEpoch, results, accepted, locals, after>>

\* StoreIdleResults, which stops for queued or running work.
Store ==
    /\ pc[Graphics] = "store"
    /\ results' \in IF Ready \/ runningWorkers # 0 THEN BOOLEAN ELSE {FALSE}
    /\ results' => results
    /\ Step(Graphics, "recheck")
    /\ UNCHANGED <<pending, runningWorkers, idleEpoch, accepted, locals, after>>

\* With the mutex again: another round if there is work, or if the queues went idle since.
Recheck ==
    /\ pc[Graphics] = "recheck"
    /\ Step(Graphics, IF \/ Ready
                         \/ AllQueuesIdle /\ ((~storeIdleResults /\ results) \/ idleEpoch # epochAtCheck)
                      THEN "check" ELSE "load")
    /\ UNCHANGED <<pending, runningWorkers, idleEpoch, results, accepted, locals, after>>

Load ==
    /\ pc[Graphics] = "load"
    /\ epochAtWait' = idleEpoch
    /\ Step(Graphics, "predicate")
    /\ UNCHANGED <<pending, runningWorkers, idleEpoch, results, accepted, epochAtCheck, storeIdleResults, after>>

\* changed.wait with its condition: evaluated, then blocked.
Predicate ==
    /\ pc[Graphics] = "predicate"
    /\ Step(Graphics, IF Ready \/ idleEpoch # epochAtWait THEN "check" ELSE "block")
    /\ UNCHANGED <<pending, runningWorkers, idleEpoch, results, accepted, locals, after>>

Block ==
    /\ pc[Graphics] = "block"
    /\ Step(Graphics, "asleep")
    /\ UNCHANGED <<pending, runningWorkers, idleEpoch, results, accepted, locals, after>>

\* notify_all reaches the graphics worker if it is blocked; its timed wait looks by itself.
Notify(q, to) == pc' = [pc EXCEPT ![q] = to, ![Graphics] = IF @ = "asleep" THEN "predicate" ELSE @]

-----------------------------------------------------------------------------
(* Another queue's worker.                                                 *)

Start(w) ==
    /\ pc[w] = "idle" /\ pending[w] > 0 /\ Unlocked
    /\ pending' = [pending EXCEPT ![w] = @ - 1]
    /\ runningWorkers' = runningWorkers + 1
    /\ Step(w, "run")
    /\ UNCHANGED <<idleEpoch, results, accepted, locals, after>>

\* The packets are done, and the submission is entered as completed under the mutex.
Complete(w) ==
    /\ pc[w] \in {"run", "resumed"} /\ Unlocked
    /\ results' \in {results, TRUE}
    /\ Step(w, "leaving")
    /\ UNCHANGED <<pending, runningWorkers, idleEpoch, accepted, locals, after>>

\* It leaves the submission, or blocks at a wait; neither takes the mutex.
StopRunning(w, next) ==
    /\ pc[w] = IF next = "idle" THEN "leaving" ELSE "run"
    /\ runningWorkers' = runningWorkers - 1
    /\ after' = [after EXCEPT ![w] = next]
    /\ Step(w, IF runningWorkers = 1 THEN "bump" ELSE next)
    /\ UNCHANGED <<pending, idleEpoch, results, accepted, locals>>

Bump(w) ==
    /\ pc[w] = "bump"
    /\ idleEpoch' = idleEpoch + 1
    /\ Step(w, "notify")
    /\ UNCHANGED <<pending, runningWorkers, results, accepted, locals, after>>

NotifyIdle(w) ==
    /\ pc[w] = "notify"
    /\ Notify(w, after[w])
    /\ UNCHANGED <<pending, runningWorkers, idleEpoch, results, accepted, locals, after>>

Unblock(w) ==
    /\ pc[w] = "blocked"
    /\ runningWorkers' = runningWorkers + 1
    /\ Step(w, "resumed")
    /\ UNCHANGED <<pending, idleEpoch, results, accepted, locals, after>>

-----------------------------------------------------------------------------
Submit(q) ==
    /\ accepted < MaxSubmissions /\ Unlocked
    /\ accepted' = accepted + 1
    /\ pending' = [pending EXCEPT ![q] = @ + 1]
    /\ Notify(Graphics, IF pc[Graphics] = "asleep" THEN "predicate" ELSE pc[Graphics])
    /\ UNCHANGED <<runningWorkers, idleEpoch, results, locals, after>>

Next ==
    \/ Dequeue \/ Run \/ Check \/ Ask \/ Quieting \/ EndQuiet \/ Store \/ Recheck \/ Load \/ Predicate \/ Block
    \/ \E w \in Others : \/ Start(w) \/ Complete(w) \/ Bump(w) \/ NotifyIdle(w) \/ Unblock(w)
                         \/ \E next \in {"idle", "blocked"} : StopRunning(w, next)
    \/ \E q \in Queues : Submit(q)

Spec == Init /\ [][Next]_vars

\* "storage-image results [...] reach guest memory only after every queue has been idle for
\* 50 ms": with results pending, every queue idle and nobody left to notify it, the graphics
\* worker is not in the wait that has no deadline.
ResultsAreStored ==
    ~ /\ pc[Graphics] = "asleep" /\ IdleResultsPending
      /\ \A w \in Others : pc[w] \in {"idle", "blocked"}

=============================================================================
