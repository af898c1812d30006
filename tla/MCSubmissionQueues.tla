-------------------------- MODULE MCSubmissionQueues -------------------------
(* Two queues and two labels: the graphics queue flips, waits for b and      *)
(* stores a; the other queue waits for a and stores b, or only stores b.     *)
EXTENDS SubmissionQueues, TLC

CONSTANTS q0, q1, a, b, t1, t2

MCQueues == {q0, q1}
MCTitles == {t1, t2}
MCLabels == {a, b}

MCSymmetry == Permutations(MCTitles)

Program(q, w, s, f, p) == [queue |-> q, waits |-> w, writes |-> s, flip |-> f, suspend |-> p]
MCPrograms == {Program(q0, NoLabel, a, FALSE, FALSE), Program(q0, b, a, TRUE, FALSE),
               Program(q0, NoLabel, NoLabel, FALSE, TRUE),
               Program(q1, NoLabel, b, FALSE, FALSE), Program(q1, a, b, FALSE, FALSE)}
=============================================================================
