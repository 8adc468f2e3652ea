--------------------------- MODULE MCFanOutDrain ---------------------------
(* Instances of FanOutDrain for TLC.                                        *)
EXTENDS FanOutDrain

CONSTANTS main, sub, d1, d2, q1

\* d1, d2: the main agent dispatches to a sub; q1: the sub asks the main agent.
MCFrom == [r \in Rows |-> IF r = q1 THEN sub ELSE main]
=============================================================================
