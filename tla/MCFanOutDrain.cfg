\* Two dispatches and a question, a busy main agent, an answer that settles
\* nothing, an error and a restart.
CONSTANTS
  main = main  sub = sub  d1 = d1  d2 = d2  q1 = q1  e1 = e1  e2 = e2
  Rows = {d1, d2, q1}
  Members = {main, sub}
  Main = main
  From <- MCFrom
  Execs = {e1, e2}
  None = None
  MaxVetoes = 2
  MaxReports = 1
  MaxFaults = 1
  MaxCrashes = 1
SPECIFICATION FairSpec
INVARIANTS TypeOK OneExecutor WakesArePaidFor
PROPERTY ConvergenceServed
