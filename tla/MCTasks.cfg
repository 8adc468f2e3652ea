\* Two users and a watchdog over two tasks in a team that runs one at a time;
\* four transitions of a task: start, submit, reject, submit again.
CONSTANTS
  t1 = t1 t2 = t2 u1 = u1 u2 = u2 w1 = w1
  Tasks = {t1, t2}
  LongRunning = {}
  Users = {u1, u2}
  Watchdogs = {w1}
  MaxConcurrent = 1
  MaxVersion = 4
SPECIFICATION Spec
INVARIANTS TypeOK AdmittedWithinLimit
PROPERTIES AcceptJudgesThisSubmission FollowsTheTable
