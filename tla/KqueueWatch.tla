---------------------------- MODULE KqueueWatch ----------------------------
(***************************************************************************)
(* A kqueue that watches another one, from libkernel/Equeue: threads wait  *)
(* in kevent on the outer queue, which has a knote for the inner queue and *)
(* a user knote of its own.  Each queue has its mutex; a wait that watches *)
(* registers the thread's waker in both and then sleeps in a host poll,    *)
(* holding neither.                                                        *)
(***************************************************************************)
EXTENDS Integers, FiniteSets

CONSTANTS Threads,          \* the threads that wait on the outer queue
          Notes,            \* the user knotes of the inner queue
          ClearedNotes,     \* those with EV_CLEAR
          MaxActivations,   \* bound on the inner queue's activations
          Nobody

VARIABLES
    raised, enabled,        \* inner m_events: triggered, enabled
    activations,            \* inner m_activations
    innerClosed,            \* inner m_closed
    innerPollers,           \* inner m_pollers
    clears,                 \* the watch has EV_CLEAR (PollClearedKqueue)
    watching,               \* the outer queue still has the watch
    watch,                  \* its `triggered', and ClearedKqueueNote
    own,                    \* the outer queue's user knote is triggered
    outerClosed, outerPollers,
    holder,                 \* who has the outer m_mutex between two steps
    pc,                     \* where each thread's wait is
    timed,                  \* whose wait has a deadline
    latched                 \* whose waker was written to and not drained

inner == <<raised, enabled, activations, innerClosed, innerPollers>>
outer == <<clears, watching, watch, own, outerClosed, outerPollers>>
vars == <<inner, outer, holder, pc, timed, latched>>

\* The knotes of the inner queue that CountTriggeredEvents and SnapshotTriggered count.
Ready == IF innerClosed THEN {} ELSE raised \cap enabled

TypeOK ==
    /\ raised \subseteq Notes /\ enabled \subseteq Notes /\ activations \in 0..MaxActivations
    /\ innerPollers \subseteq Threads /\ outerPollers \subseteq Threads
    /\ holder \in Threads \cup {Nobody}

Init ==
    /\ raised = {} /\ enabled = Notes /\ activations = 0 /\ innerClosed = FALSE
    /\ innerPollers = {}
    /\ clears \in BOOLEAN /\ watching = TRUE
    /\ watch = [triggered |-> FALSE, seen |-> 0, active |-> FALSE]
    /\ own = FALSE /\ outerClosed = FALSE /\ outerPollers = {}
    /\ holder = Nobody
    /\ pc = [t \in Threads |-> "away"] /\ timed = {} /\ latched = {}

-----------------------------------------------------------------------------
(* The inner queue.  None of its operations takes the outer mutex.          *)

\* EditEvent: an activation is counted when a knote becomes ready, and those who
\* wait are woken.
EditInner(newRaised, newEnabled) ==
    /\ ~innerClosed
    /\ raised' = newRaised /\ enabled' = newEnabled
    /\ IF (newRaised \cap newEnabled) \subseteq (raised \cap enabled)
         THEN UNCHANGED activations
         ELSE activations < MaxActivations /\ activations' = activations + 1
    /\ latched' = latched \cup innerPollers
    /\ UNCHANGED <<innerClosed, innerPollers, outer, holder, pc, timed>>

\* TouchUserKnote with NOTE_TRIGGER and with EV_CLEAR, EV_DISABLE, EV_ENABLE.
EditNote(n) ==
    \/ EditInner(raised \cup {n}, enabled)
    \/ EditInner(raised \ {n}, enabled)
    \/ EditInner(raised, enabled \ {n})
    \/ EditInner(raised, enabled \cup {n})

\* kevent on the inner queue takes what is ready.
Consume ==
    /\ Ready # {}
    /\ raised' = raised \ (Ready \cap ClearedNotes)
    /\ UNCHANGED <<enabled, activations, innerClosed, innerPollers, outer, holder, pc,
                   timed, latched>>

\* KqueueDescriptorClosed: the queue closes, then the watch is taken off the outer
\* queue (RemoveDescriptorEvents).
CloseInner ==
    /\ ~innerClosed
    /\ innerClosed' = TRUE
    /\ latched' = latched \cup innerPollers
    /\ UNCHANGED <<raised, enabled, activations, innerPollers, outer, holder, pc, timed>>

-----------------------------------------------------------------------------
(* The outer queue.                                                        *)

NotifyOne ==
    LET asleep == {t \in Threads : pc[t] = "asleep"} IN
    IF asleep = {} THEN UNCHANGED pc
    ELSE \E t \in asleep : pc' = [pc EXCEPT ![t] = "scan"]

WakePollers == latched' = latched \cup outerPollers

\* DeleteEvent by the title, or RemoveDescriptorEvents for the closed inner queue.
RemoveWatch ==
    /\ holder = Nobody /\ watching
    /\ watching' = FALSE
    /\ WakePollers
    /\ UNCHANGED <<inner, clears, watch, own, outerClosed, outerPollers, holder, pc, timed>>

\* TouchUserKnote for the outer queue's own knote, which has EV_CLEAR.
TriggerOwn ==
    /\ holder = Nobody /\ ~outerClosed
    /\ own' = TRUE
    /\ NotifyOne
    /\ WakePollers
    /\ UNCHANGED <<inner, clears, watching, watch, outerClosed, outerPollers, holder, timed>>

\* ModifyKnote with EV_ENABLE makes a cleared watch look again.
Rearm ==
    /\ holder = Nobody /\ ~outerClosed /\ watching /\ clears
    /\ watch' = [watch EXCEPT !.active = TRUE]
    /\ NotifyOne
    /\ WakePollers
    /\ UNCHANGED <<inner, clears, watching, own, outerClosed, outerPollers, holder, timed>>

CloseOuter ==
    /\ holder = Nobody /\ ~outerClosed
    /\ outerClosed' = TRUE
    /\ pc' = [t \in Threads |-> IF pc[t] = "asleep" THEN "scan" ELSE pc[t]]
    /\ WakePollers
    /\ UNCHANGED <<inner, clears, watching, watch, own, outerPollers, holder, timed>>

-----------------------------------------------------------------------------
(* The wait on the outer queue.                                            *)

\* PollEvents: PollKqueue looks whether anything is ready, PollClearedKqueue whether
\* anything became ready since it last looked and still is.
Polled ==
    IF ~watching THEN watch
    ELSE IF ~clears THEN [watch EXCEPT !.triggered = Ready # {}]
    ELSE LET new == Ready # {} /\ (watch.active \/ activations # watch.seen)
         IN [triggered |-> new, seen |-> activations, active |-> new]

\* ResetClearedKqueue; a watch without EV_CLEAR stays as it was polled.
Collected(w) ==
    IF clears /\ w.triggered THEN [w EXCEPT !.triggered = FALSE, !.active = FALSE] ELSE w

Call(t, limit) ==
    /\ pc[t] = "away" /\ ~outerClosed
    /\ pc' = [pc EXCEPT ![t] = "scan"]
    /\ timed' = IF limit THEN timed \cup {t} ELSE timed \ {t}
    /\ UNCHANGED <<inner, outer, holder, latched>>

\* A turn of WaitForEventsUntil: report, give up, sleep on the condition variable if
\* nothing needs polling, or go on to WaitForDescriptors with the mutex.
Scan(t) ==
    /\ pc[t] = "scan" /\ holder \in {Nobody, t}
    /\ LET found == Polled
           reports == own \/ (watching /\ found.triggered)
       IN IF outerClosed
            THEN /\ pc' = [pc EXCEPT ![t] = "away"] /\ holder' = Nobody
                 /\ UNCHANGED <<watch, own>>
          ELSE IF reports
            THEN /\ pc' = [pc EXCEPT ![t] = "away"] /\ holder' = Nobody
                 /\ watch' = IF watching THEN Collected(found) ELSE watch
                 /\ own' = FALSE
          ELSE /\ watch' = found /\ UNCHANGED own
               /\ \/ /\ t \in timed
                     /\ pc' = [pc EXCEPT ![t] = "away"] /\ holder' = Nobody
                  \/ /\ ~watching
                     /\ pc' = [pc EXCEPT ![t] = "asleep"] /\ holder' = Nobody
                  \/ /\ watching
                     /\ pc' = [pc EXCEPT ![t] = "gather"] /\ holder' = t
    /\ UNCHANGED <<inner, clears, watching, outerClosed, outerPollers, timed, latched>>

Timeout(t) ==
    /\ pc[t] = "asleep" /\ t \in timed
    /\ pc' = [pc EXCEPT ![t] = "scan"]
    /\ UNCHANGED <<inner, outer, holder, timed, latched>>

\* GatherInterests: the waker goes on the inner queue's list, unless that queue is
\* closed, and on the outer queue's.
Gather(t) ==
    /\ pc[t] = "gather"
    /\ outerPollers' = outerPollers \cup {t}
    /\ IF innerClosed
         THEN /\ pc' = [pc EXCEPT ![t] = "poll"] /\ holder' = Nobody
              /\ UNCHANGED innerPollers
         ELSE /\ pc' = [pc EXCEPT ![t] = "recheck"]
              /\ innerPollers' = innerPollers \cup {t}
              /\ UNCHANGED holder
    /\ UNCHANGED <<raised, enabled, activations, innerClosed, clears, watching, watch, own,
                   outerClosed, timed, latched>>

\* Mutation: the wait does not look again once it is registered.
SleepUnchecked(t) ==
    /\ pc[t] = "recheck"
    /\ pc' = [pc EXCEPT ![t] = "poll"] /\ holder' = Nobody
    /\ UNCHANGED <<inner, outer, timed, latched>>

\* The second PollEvents: what became ready in between ends the wait before it sleeps.
Recheck(t) ==
    /\ pc[t] = "recheck"
    /\ watch' = Polled
    /\ IF own \/ Polled.triggered
         THEN /\ outerPollers' = outerPollers \ {t}
              /\ pc' = [pc EXCEPT ![t] = "release"]
              /\ UNCHANGED holder
         ELSE /\ pc' = [pc EXCEPT ![t] = "poll"] /\ holder' = Nobody
              /\ UNCHANGED outerPollers
    /\ UNCHANGED <<inner, clears, watching, own, outerClosed, timed, latched>>

\* WaitAny: the host poll ends by the waker or the deadline, then the waker is
\* drained; a deadline that has passed before the poll leaves it as it is.
Poll(t) ==
    /\ pc[t] = "poll"
    /\ \/ t \in latched \cup timed /\ pc' = [pc EXCEPT ![t] = "drain"]
       \/ t \in timed /\ pc' = [pc EXCEPT ![t] = "release"]
    /\ UNCHANGED <<inner, outer, holder, timed, latched>>

Drain(t) ==
    /\ pc[t] = "drain"
    /\ latched' = latched \ {t}
    /\ pc' = [pc EXCEPT ![t] = "release"]
    /\ UNCHANGED <<inner, outer, holder, timed>>

\* ReleaseWatched, with or without the outer mutex; then the mutex again.
Release(t) ==
    /\ pc[t] = "release"
    /\ innerPollers' = innerPollers \ {t}
    /\ pc' = [pc EXCEPT ![t] = IF holder = t THEN "scan" ELSE "return"]
    /\ UNCHANGED <<raised, enabled, activations, innerClosed, outer, holder, timed, latched>>

Return(t) ==
    /\ pc[t] = "return" /\ holder = Nobody
    /\ outerPollers' = outerPollers \ {t}
    /\ holder' = t
    /\ pc' = [pc EXCEPT ![t] = "scan"]
    /\ UNCHANGED <<inner, clears, watching, watch, own, outerClosed, timed, latched>>

-----------------------------------------------------------------------------
Wait(t) ==
    \/ \E limit \in BOOLEAN : Call(t, limit)
    \/ Scan(t) \/ Timeout(t) \/ Gather(t) \/ Recheck(t) \/ Poll(t) \/ Drain(t)
    \/ Release(t) \/ Return(t)

Next ==
    \/ \E n \in Notes : EditNote(n)
    \/ Consume \/ CloseInner \/ RemoveWatch \/ TriggerOwn \/ Rearm \/ CloseOuter
    \/ \E t \in Threads : Wait(t)

Spec == Init /\ [][Next]_vars

-----------------------------------------------------------------------------
\* Whether a wait on the outer queue would report something now.
Reportable ==
    \/ own
    \/ /\ watching /\ Ready # {}
       /\ clears => watch.active \/ activations # watch.seen

\* A thread in the host poll whose waker is not written to has nothing to wait for,
\* in its own queue or in the watched one, although each of the two was looked at
\* and registered with under its own mutex and at its own time; and one that sleeps
\* on the condition variable leaves nothing triggered behind.
NoMissedActivation ==
    /\ \A t \in Threads : pc[t] = "poll" /\ t \notin latched => ~Reportable /\ ~outerClosed
    /\ \A t \in Threads : pc[t] = "asleep" =>
          /\ ~outerClosed /\ ~watching
          /\ own => \E u \in Threads : pc[u] \notin {"away", "asleep"}
=============================================================================
