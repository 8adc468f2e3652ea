------------------------------ MODULE MCTurns ------------------------------
(* Instances of Turns for TLC.                                             *)
EXTENDS Turns, TLC
CONSTANTS m1, m2, w1
Symmetry == Permutations(Messages)
=============================================================================
