------------------------------ MODULE TokenPool ------------------------------
(***************************************************************************)
(* What a counting semaphore promises, with no word of mutexes, lists of   *)
(* stack frames or condition variables: a pool of tokens and a line of     *)
(* requests.  Whenever a request in the line fits the pool, the first that *)
(* fits is served before anything else happens, so that no late comer      *)
(* takes the tokens somebody in the line was waiting for.  KernelSema is   *)
(* shown to implement it.                                                  *)
(***************************************************************************)
EXTENDS Integers, Sequences

CONSTANTS Clients, Limit, Urgencies

VARIABLES
    pool,       \* the tokens at hand
    line,       \* the clients that wait for tokens, the next to serve first
    request,    \* what each client asks for; a low urgency value goes first
    inside,     \* the clients whose request has not been answered
    holds,      \* those of them that were given their tokens
    answer,     \* the last answer given
    closed, gone

poolVars == <<pool, line, request, inside, holds, answer, closed, gone>>

Requests == [need : 1..Limit, urgency : Urgencies]
NoRequest == [need |-> 1, urgency |-> 0]

Fits(c) == request[c].need <= pool

\* No request in the line could be served.
Settled == \A i \in 1..Len(line) : ~Fits(line[i])

\* The line with c behind its first n clients, and without its n-th client.
Joined(n, c) == [i \in 1..(Len(line) + 1) |-> IF i <= n THEN line[i]
                                              ELSE IF i = n + 1 THEN c ELSE line[i - 1]]
Departed(n) == [i \in 1..(Len(line) - 1) |-> IF i < n THEN line[i] ELSE line[i + 1]]

Init ==
    /\ pool \in 0..Limit
    /\ line = <<>>
    /\ request = [c \in Clients |-> NoRequest]
    /\ inside = {} /\ holds = {}
    /\ answer = "none"
    /\ closed = FALSE /\ gone = FALSE

\* A client that need not wait takes its tokens at once ...
Take(n) ==
    /\ n <= pool
    /\ pool' = pool - n
    /\ UNCHANGED <<line, request, inside, holds, answer, closed, gone>>

\* ... tokens come back, never above the limit ...
Put(n) ==
    /\ n <= Limit - pool
    /\ pool' = pool + n
    /\ UNCHANGED <<line, request, inside, holds, answer, closed, gone>>

\* ... and the first in the line that fits is served.
Serve ==
    \E i \in 1..Len(line) :
        /\ Fits(line[i])
        /\ \A j \in 1..(i - 1) : ~Fits(line[j])
        /\ pool' = pool - request[line[i]].need
        /\ holds' = holds \cup {line[i]}
        /\ line' = Departed(i)
        /\ UNCHANGED <<request, inside, answer, closed, gone>>

\* A request that does not fit joins the line, behind all that are as urgent.
Join(c, r) ==
    /\ c \notin inside /\ ~closed
    /\ r.need > pool
    /\ \E n \in 0..Len(line) :
          /\ \A i \in 1..n : request[line[i]].urgency <= r.urgency
          /\ n < Len(line) => request[line[n + 1]].urgency > r.urgency
          /\ line' = Joined(n, c)
    /\ request' = [request EXCEPT ![c] = r]
    /\ inside' = inside \cup {c}
    /\ UNCHANGED <<pool, holds, answer, closed, gone>>

\* A request is answered: granted if it was served, refused otherwise.
Answer(c) ==
    /\ c \in inside
    /\ answer' = IF c \in holds THEN "granted" ELSE "refused"
    /\ inside' = inside \ {c}
    /\ holds' = holds \ {c}
    /\ request' = [request EXCEPT ![c] = NoRequest]
    /\ IF \E i \in 1..Len(line) : line[i] = c
         THEN \E i \in 1..Len(line) : line[i] = c /\ line' = Departed(i)
         ELSE line' = line
    /\ UNCHANGED <<pool, closed, gone>>

\* The pool is set anew and the line sent away.
Reset(n) ==
    /\ pool' = n
    /\ line' = <<>>
    /\ UNCHANGED <<request, inside, holds, answer, closed, gone>>

\* The pool takes no more requests, and goes once the last was answered.
Close ==
    /\ ~closed
    /\ closed' = TRUE
    /\ UNCHANGED <<pool, line, request, inside, holds, answer, gone>>

Leave ==
    /\ closed /\ inside = {}
    /\ gone' = TRUE
    /\ UNCHANGED <<pool, line, request, inside, holds, answer, closed>>

Calm ==
    \/ \E n \in 1..Limit : Take(n) \/ Put(n)
    \/ \E c \in Clients : Answer(c) \/ \E r \in Requests : Join(c, r)
    \/ \E n \in 0..Limit : Reset(n)
    \/ Close
    \/ Leave

Next == Serve \/ (Settled /\ ~gone /\ Calm)

Spec == Init /\ [][Next]_poolVars
=============================================================================
