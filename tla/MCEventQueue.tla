--------------------------- MODULE MCEventQueue ---------------------------
(***************************************************************************)
(* Two queues for TLC: one of events that are triggered, collected into    *)
(* arrays that may be too small, and one that also has timers.             *)
(***************************************************************************)
EXTENDS EventQueue, TLC
CONSTANTS t1, t2, t3
VARIABLE part

Signals == [e1 |-> "edge", c1 |-> "ampr"]
Clocks == [e1 |-> "edge", r1 |-> "timer", h1 |-> "hrtimer"]
Repeating == [r1 |-> "timer"]
Clocked == INSTANCE EventQueue WITH Kind <- Clocks, Sizes <- {3}, MaxTriggers <- 2
Symmetry == Permutations(Threads)

PartsInit == \/ part = "signals" /\ Init
             \/ part = "clocks" /\ Clocked!Init
PartsNext == /\ \/ part = "signals" /\ Next
                \/ part = "clocks" /\ Clocked!Next
             /\ UNCHANGED part
PartsSpec == PartsInit /\ [][PartsNext]_<<part, vars>>

\* Of the two queues, the first has completion events.
NoCompletionIsLost == part = "signals" => CompletionsAreAccounted

\* One timer and nothing else.
RepeatingSpec == part = "timer" /\ Init /\ [][Next /\ UNCHANGED part]_<<part, vars>>
=============================================================================
