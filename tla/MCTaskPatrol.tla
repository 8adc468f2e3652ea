---------------------------- MODULE MCTaskPatrol ----------------------------
(* Instances of TaskPatrol for TLC.                                         *)
EXTENDS TaskPatrol
CONSTANTS t1, t2, u1, u2, w1, boot0
=============================================================================
