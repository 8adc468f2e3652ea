\* One message and the wake for it, under any two of: a restart, the death of
\* the worker, a lost report, a failed query, write, broadcast or handler.
CONSTANTS
  m1 = m1 m2 = m2 w1 = w1
  Messages = {m1}
  Wakes = {w1}
  MaxWakes = 1
  MaxUpsets = 2
SPECIFICATION FairSpec
INVARIANTS TypeOK OpenIsLookedAfter
PROPERTY AnsweredOrFailed
CHECK_DEADLOCK FALSE
