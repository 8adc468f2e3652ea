---------------------------- MODULE MCPromptRun ----------------------------
(* Instances of PromptRun for TLC.                                          *)
EXTENDS PromptRun
CONSTANTS r1, r2, s0
=============================================================================
