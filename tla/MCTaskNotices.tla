--------------------------- MODULE MCTaskNotices ---------------------------
(* Values of the constants of TaskNotices for TLC.                          *)
EXTENDS TaskNotices

CONSTANTS t1, t3, g1, g2, o1, q1, q2, p1

\* Every task to one generation of one pane.
SameWorker == [t \in Tasks |-> g1]

\* One task to a worker, one to the generation that replaced it.
Replaced == [t \in Tasks |-> IF t = t3 THEN g2 ELSE g1]

OnePane == [g \in Generations |-> p1]

OneOrchestrator == [t \in Tasks |-> o1]
=============================================================================
