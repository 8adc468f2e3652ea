\* Every due row is served and every one-shot row settles.
CONSTANTS
  r1 = r1  r2 = r2  t1 = t1  t2 = t2  c1 = c1
  patrolKey = patrolKey  hookKey = hookKey  nudgeKey = nudgeKey
  Rows = {r1, r2}
  Keys = {hookKey}
  Opt <- MCOpt
  Ticks = {t1, t2}
  Callers = {c1}
  None = None
  BatchLimit = 2
  Jitter = 0
  MaxTime = 1
  RetryBound = 1
  MaxCrashes = 1
  MaxFailures = 1
SPECIFICATION FairSpec
PROPERTIES DueIsServed OneShotSettles
