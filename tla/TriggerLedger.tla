--------------------------- MODULE TriggerLedger ---------------------------
(***************************************************************************)
(* What the generic trigger service of the server promises about one       *)
(* trigger row, without its tables, ticks and clocks: a row is armed once, *)
(* runs its handler only while it is armed, never twice at the same time,  *)
(* and never again once it is over.  A run that ends may arm the row again *)
(* (interval, reschedule, guard not satisfied); a restart of the process   *)
(* ends every run without arming anything.                                 *)
(***************************************************************************)
CONSTANT Rows          \* the ids of the trigger rows

VARIABLE ledger        \* where each row is in its life

States == {"free", "armed", "running", "over"}

TypeOK == ledger \in [Rows -> States]

Init == ledger = [r \in Rows |-> "free"]

Arm(r) ==
  /\ ledger[r] = "free"
  /\ ledger' = [ledger EXCEPT ![r] = "armed"]

Run(r) ==
  /\ ledger[r] = "armed"
  /\ ledger' = [ledger EXCEPT ![r] = "running"]

\* The handler of row r has returned: the row waits again, or is over.
Return(r) ==
  /\ ledger[r] = "running"
  /\ \E s \in {"armed", "over"} : ledger' = [ledger EXCEPT ![r] = s]

\* A row is withdrawn before it runs.
Withdraw(r) ==
  /\ ledger[r] = "armed"
  /\ ledger' = [ledger EXCEPT ![r] = "over"]

\* The process stops: the runs it held in memory are over.
Restart ==
  ledger' = [r \in Rows |-> IF ledger[r] = "running" THEN "over" ELSE ledger[r]]

Next ==
  \/ \E r \in Rows : Arm(r) \/ Run(r) \/ Return(r) \/ Withdraw(r)
  \/ Restart

Spec == Init /\ [][Next]_ledger
=============================================================================
