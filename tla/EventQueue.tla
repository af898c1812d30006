----------------------------- MODULE EventQueue -----------------------------
(***************************************************************************)
(* One event queue of libkernel, from Equeue/Equeue.cpp: its events, the   *)
(* threads in sceKernelWaitEqueue, and what the title and the system's     *)
(* components do to it.  Every operation is one critical section of the    *)
(* queue's m_mutex; a wait is as many as it is woken times.                *)
(***************************************************************************)
EXTENDS Integers, Sequences, SequencesExt

CONSTANTS Threads,        \* the threads of the title that wait
          Kind,           \* what each event is: see below
          Sizes,          \* how many events a wait has room for
          MaxPending,     \* kMaxPendingEvents
          MaxTriggers     \* bound on the calls of TriggerEvent

\* A user event that stays triggered, one that a report clears, a completion
\* event, a timer that repeats and one that fires once.
Ids == DOMAIN Kind
ASSUME KindsAreKnown ==
    \A i \in Ids : Kind[i] \in {"level", "edge", "ampr", "timer", "hrtimer"}
ASSUME RoomAssumption == Sizes \subseteq Nat \ {0} /\ MaxPending \in Nat /\ MaxTriggers \in Nat

VARIABLES events,         \* m_events, the list in its order
          closed,         \* m_closed
          known,          \* the handle is in g_equeues
          waits,          \* where each thread's wait is
          triggers,       \* calls of TriggerEvent so far; each carries its number
          log             \* per completion event: what was sent to it since it was added

vars == <<events, closed, known, waits, triggers, log>>

Away == [at |-> "away", size |-> 1, limit |-> "none", watches |-> FALSE]
EmptyLog == [sent |-> <<>>, reported |-> <<>>, dropped |-> 0]

IsTimer(i) == Kind[i] \in {"timer", "hrtimer"}
Registered(i) == \E k \in 1..Len(events) : events[k].id = i
IndexOf(i) == CHOOSE k \in 1..Len(events) : events[k].id = i

\* The completions an event still holds: the one it shows, and those behind it.
Held(e) == IF e.triggered THEN <<e.data>> \o e.pending ELSE <<>>

TypeOK ==
    /\ closed \in BOOLEAN /\ known \in BOOLEAN /\ triggers \in 0..MaxTriggers
    /\ \A k \in 1..Len(events) :
          /\ events[k].id \in Ids /\ events[k].clock \in {"none", "armed", "due"}
          /\ Len(events[k].pending) <= MaxPending
    /\ \A t \in Threads :
          /\ waits[t].at \in {"away", "scan", "asleep"} /\ waits[t].size \in Sizes \cup {1}
          /\ waits[t].limit \in {"none", "finite", "poll"}

Init ==
    /\ events = <<>> /\ closed = FALSE /\ known = TRUE
    /\ waits = [t \in Threads |-> Away]
    /\ triggers = 0
    /\ log = [i \in Ids |-> EmptyLog]

-----------------------------------------------------------------------------
(* Waking.                                                                 *)

Sleepers == {t \in Threads : waits[t].at = "asleep"}

\* m_cond.NotifyOne() and m_cond.NotifyAll().
NotifyOne ==
    IF Sleepers = {} THEN UNCHANGED waits
    ELSE \E t \in Sleepers : waits' = [waits EXCEPT ![t].at = "scan"]

NotifyAll ==
    waits' = [t \in Threads |->
                IF t \in Sleepers THEN [waits[t] EXCEPT !.at = "scan"] ELSE waits[t]]

-----------------------------------------------------------------------------
(* Operations on the queue.  A closed queue refuses them.                  *)

\* AddEvent.  An event that is there keeps what it has collected and gets a new
\* deadline; for a timer, the expirations until now are counted first.
TriggerExpiredTimers(list) ==
    [k \in 1..Len(list) |->
        IF list[k].clock # "due" THEN list[k]
        ELSE [list[k] EXCEPT !.triggered = TRUE,
                             !.clock = IF Kind[list[k].id] = "timer" THEN "armed" ELSE @]]

Clock(i) == IF IsTimer(i) THEN "armed" ELSE "none"

Add(i) ==
    /\ ~closed
    /\ IF Registered(i)
         THEN /\ LET list == IF Kind[i] = "timer" THEN TriggerExpiredTimers(events) ELSE events
                 IN events' = [list EXCEPT ![IndexOf(i)].clock = Clock(i)]
              /\ UNCHANGED log
         ELSE /\ events' = Append(events, [id |-> i, triggered |-> FALSE, data |-> 0,
                                           pending |-> <<>>, clock |-> Clock(i)])
              /\ log' = [log EXCEPT ![i] = EmptyLog]
    /\ NotifyOne
    /\ UNCHANGED <<closed, known, triggers>>

\* TriggerEvent with the triggerFunc of user events and of completion events: a
\* completion waits behind the one not yet reported, and the oldest of those that
\* wait gives way to one too many.
Queued(pending, n) ==
    LET all == Append(pending, n) IN IF Len(all) > MaxPending THEN Tail(all) ELSE all

Triggered(e, n) ==
    IF Kind[e.id] = "ampr" /\ e.triggered
      THEN [e EXCEPT !.pending = Queued(e.pending, n)]
      ELSE [e EXCEPT !.triggered = TRUE, !.data = n]

\* Mutation: an event that is triggered already has woken its waiter.
TriggerFirst(i) ==
    /\ ~closed /\ Registered(i) /\ ~IsTimer(i) /\ triggers < MaxTriggers
    /\ triggers' = triggers + 1
    /\ LET k == IndexOf(i)
           drops == events[k].triggered /\ Len(events[k].pending) = MaxPending
       IN /\ events' = [events EXCEPT ![k] = Triggered(@, triggers + 1)]
          /\ log' = IF Kind[i] # "ampr" THEN log ELSE
                      [log EXCEPT ![i].sent = Append(@, triggers + 1),
                                  ![i].dropped = IF drops THEN @ + 1 ELSE @]
          /\ IF events[k].triggered THEN UNCHANGED waits ELSE NotifyOne
    /\ UNCHANGED <<closed, known>>

Trigger(i) ==
    /\ ~closed /\ Registered(i) /\ ~IsTimer(i) /\ triggers < MaxTriggers
    /\ triggers' = triggers + 1
    /\ LET k == IndexOf(i)
           drops == events[k].triggered /\ Len(events[k].pending) = MaxPending
       IN /\ events' = [events EXCEPT ![k] = Triggered(@, triggers + 1)]
          /\ log' = IF Kind[i] # "ampr" THEN log ELSE
                      [log EXCEPT ![i].sent = Append(@, triggers + 1),
                                  ![i].dropped = IF drops THEN @ + 1 ELSE @]
    /\ NotifyOne
    /\ UNCHANGED <<closed, known>>

\* DeleteEvent.
Delete(i) ==
    /\ ~closed /\ Registered(i)
    /\ events' = RemoveAt(events, IndexOf(i))
    /\ log' = [log EXCEPT ![i] = EmptyLog]
    /\ UNCHANGED <<closed, known, waits, triggers>>

\* sceKernelDeleteEqueue takes the handle out of the table, then closes.
Forget ==
    /\ known
    /\ known' = FALSE
    /\ UNCHANGED <<events, closed, waits, triggers, log>>

Close ==
    /\ ~known /\ ~closed
    /\ closed' = TRUE
    /\ events' = <<>>
    /\ log' = [i \in Ids |-> EmptyLog]
    /\ NotifyAll
    /\ UNCHANGED <<known, triggers>>

\* A timer's time comes.
Elapse(k) ==
    /\ k \in 1..Len(events) /\ events[k].clock = "armed"
    /\ events' = [events EXCEPT ![k].clock = "due"]
    /\ UNCHANGED <<closed, known, waits, triggers, log>>

-----------------------------------------------------------------------------
(* The wait.                                                               *)

\* CollectTriggered for one event with room for `room' entries: an event that
\* fires once goes away, a level event stays triggered, any other is cleared and
\* shows its next completion.
Taken(e, room) ==
    LET n == IF room < Len(e.pending) + 1 THEN room ELSE Len(e.pending) + 1
    IN SubSeq(Held(e), 1, n)

\* Mutation: the completions behind the one reported are cleared with it.
LeftAndCleared(e, n) ==
    [e EXCEPT !.triggered = Kind[e.id] = "level", !.data = 0, !.pending = <<>>]

Left(e, n) ==
    IF n <= Len(e.pending)
      THEN [e EXCEPT !.data = e.pending[n],
                     !.pending = SubSeq(e.pending, n + 1, Len(e.pending))]
      ELSE [e EXCEPT !.triggered = Kind[e.id] = "level",
                     !.data = IF Kind[e.id] = "level" THEN @ ELSE 0,
                     !.pending = <<>>]

\* The walk's turn at an event.
Report(e, taken) == [k \in 1..Len(taken) |-> [id |-> e.id, data |-> taken[k]]]

Visit(acc, e, size) ==
    LET room == size - Len(acc.out)
        taken == Taken(e, room)
    IN IF ~e.triggered \/ room = 0
         THEN [acc EXCEPT !.kept = Append(@, e)]
       ELSE IF Kind[e.id] = "hrtimer"
         THEN [acc EXCEPT !.out = @ \o Report(e, taken)]
       ELSE [acc EXCEPT !.out = @ \o Report(e, taken), !.back = Append(@, Left(e, Len(taken)))]

\* The whole walk: what is reported, and the list, with the events that were
\* reported behind those that were not.
Nothing == [out |-> <<>>, kept |-> <<>>, back |-> <<>>]

Walk(list, size) ==
    LET seen[k \in 0..Len(list)] == IF k = 0 THEN Nothing ELSE Visit(seen[k - 1], list[k], size)
        end == seen[Len(list)]
    IN [out |-> end.out, list |-> end.kept \o end.back]

\* sceKernelWaitEqueue, once it has found the queue: `none' waits for ever,
\* `finite' for a time, and `poll' does not.
Call(t) ==
    /\ known /\ waits[t] = Away
    /\ \E n \in Sizes, l \in {"none", "finite", "poll"} :
          waits' = [waits EXCEPT ![t] = [at |-> "scan", size |-> n, limit |-> l, watches |-> FALSE]]
    /\ UNCHANGED <<events, closed, known, triggers, log>>

\* What a wait was told of one event, in the order it was told.
Reported(i, out) ==
    LET told[k \in 0..Len(out)] ==
          IF k = 0 THEN <<>>
          ELSE IF out[k].id = i THEN Append(told[k - 1], out[k].data) ELSE told[k - 1]
    IN told[Len(out)]

\* NextTimerWaitMicros finds a timer to wait for.
HasTimer(list) == \E k \in 1..Len(list) : ~list[k].triggered /\ list[k].clock # "none"

\* One turn of WaitForEventsUntil or GetTriggeredEvents with the mutex: report what
\* is triggered, or leave if that is all there was time for, or sleep, at most
\* until the next timer.
Scan(t) ==
    /\ waits[t].at = "scan"
    /\ IF closed
         THEN waits' = [waits EXCEPT ![t] = Away] /\ UNCHANGED <<events, log>>
         ELSE LET list == TriggerExpiredTimers(events)
                  walk == Walk(list, waits[t].size)
              IN /\ events' = walk.list
                 /\ log' = [i \in Ids |-> IF Kind[i] # "ampr" THEN log[i] ELSE
                              [log[i] EXCEPT !.reported = @ \o Reported(i, walk.out)]]
                 /\ \/ /\ walk.out # <<>> \/ waits[t].limit # "none"
                       /\ waits' = [waits EXCEPT ![t] = Away]
                    \/ /\ walk.out = <<>> /\ waits[t].limit # "poll"
                       /\ waits' = [waits EXCEPT ![t].at = "asleep", ![t].watches = HasTimer(list)]
    /\ UNCHANGED <<closed, known, triggers>>

\* The wait's deadline, or the timer it knows of, wakes it.
WakeByTime(t) ==
    /\ waits[t].at = "asleep"
    /\ waits[t].limit = "finite" \/ waits[t].watches
    /\ waits' = [waits EXCEPT ![t].at = "scan"]
    /\ UNCHANGED <<events, closed, known, triggers, log>>

-----------------------------------------------------------------------------
Next ==
    \/ \E i \in Ids : Add(i) \/ Trigger(i) \/ Delete(i)
    \/ Forget \/ Close
    \/ \E k \in 1..Len(events) : Elapse(k)
    \/ \E t \in Threads : Call(t) \/ Scan(t) \/ WakeByTime(t)

Spec == Init /\ [][Next]_vars

-----------------------------------------------------------------------------
\* Nobody sleeps on a closed queue, nor over an event that is triggered unless
\* somebody is awake who will collect: with several events, completions behind one
\* another, small arrays, deadlines and polls that take what another was woken for.
NoStrandedWaiter ==
    \A t \in Sleepers :
        /\ ~closed
        /\ (\E k \in 1..Len(events) : events[k].triggered) => \E u \in Threads : waits[u].at = "scan"

\* Every completion sent to an event is reported once, in its order, or still held,
\* whoever collects: only the bound on those that wait makes one disappear.
CompletionsAreAccounted ==
    \A k \in 1..Len(events) :
        Kind[events[k].id] = "ampr" =>
          LET i == events[k].id
              all == log[i].reported \o Held(events[k])
          IN /\ Len(all) + log[i].dropped = Len(log[i].sent)
             /\ \A m, n \in 1..Len(all) : m < n => all[m] < all[n]
             /\ log[i].dropped = 0 => all = log[i].sent

\* GuestEqueueEvents.cpp: a wait without a deadline reports a timer that was added
\* and whose time has come.  While one is due and somebody sleeps, somebody is awake
\* or will be woken by it.
TimersAreWatched ==
    (\E k \in 1..Len(events) : events[k].clock = "due") /\ Sleepers # {} =>
        \E t \in Threads : waits[t].at = "scan" \/ (t \in Sleepers /\ waits[t].watches)
=============================================================================
