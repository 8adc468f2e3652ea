----------------------------- MODULE MCReceipts -----------------------------
(* Instances of Receipts for TLC.                                           *)
EXTENDS Receipts, TLC

CONSTANTS d1, d2, q1, main, sub

\* Dispatches d1, d2 go to the sub, the question q1 to the main agent; each
\* receipt has a message of its own.
MCTo == [r \in Rows |-> IF r = q1 THEN main ELSE sub]
MCMessage == [r \in Rows |-> r]

Symmetry == Permutations(Rows \ Questions) \cup Permutations(Ticks)
=============================================================================
