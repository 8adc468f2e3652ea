\* One round, dispatched twice; one reviewer has not answered.
CONSTANTS
  arch = arch  dev = dev  a1 = a1  a2 = a2  b1 = b1  c1 = c1  c2 = c2  u1 = u1
  Members = {arch, dev}
  Messages = {a1}
  By <- MCBy
  Approving = {a1}
  Calls = {c1}
  Users = {}
  Versions = {8}
  None = None
  Timeout = 1
  MaxRound = 1
SPECIFICATION UndisturbedSpec
PROPERTY TimeoutTurnsStale
CHECK_DEADLOCK FALSE
