\* One reviewer and the plan's life cycle: a dispatcher, a user, restarts.
CONSTANTS
  arch = arch  dev = dev  a1 = a1  a2 = a2  b1 = b1  c1 = c1  c2 = c2  u1 = u1
  Members = {arch}
  Messages = {a1}
  By <- MCBy
  Approving = {a1}
  Calls = {c1}
  Users = {u1}
  Versions = {8}
  None = None
  Timeout = 1
  MaxRound = 2
SPECIFICATION FairSpec
INVARIANTS TypeOK FrozenWhenFinal CompleteIsConverged NoVerdictLost
PROPERTIES RoundAdvances RoundEnds
CHECK_DEADLOCK FALSE
