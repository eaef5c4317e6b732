----------------------------- MODULE MCLocalTasks -----------------------------
(***************************************************************************)
(* Instances of LocalTasks for TLC.                                        *)
(***************************************************************************)
EXTENDS LocalTasks, TLC

CONSTANTS t1, t2, t3, c1, c2, x1

\* Every task belongs to the one item.
OneItem == [t \in Task |-> x1]

================================================================================
