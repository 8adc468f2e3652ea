------------------------------ MODULE MCTasks ------------------------------
(* Instances of TaskLifecycle for TLC.                                      *)
EXTENDS TaskLifecycle
CONSTANTS t1, t2, u1, u2, w1
=============================================================================
