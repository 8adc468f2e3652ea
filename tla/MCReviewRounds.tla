--------------------------- MODULE MCReviewRounds ---------------------------
(* Instances of ReviewRounds for TLC.                                       *)
EXTENDS ReviewRounds

CONSTANTS arch, dev, a1, a2, b1

\* Two reviewers; the first one posts twice.
MCBy == [m \in Messages |-> IF m = b1 THEN dev ELSE arch]
=============================================================================
