\* Overlapping ticks over patrol and nudge rows that are re-armed,
\* cancelled and limited, with a restart of the server anywhere.
CONSTANTS
  r1 = r1  r2 = r2  t1 = t1  t2 = t2  c1 = c1
  patrolKey = patrolKey  hookKey = hookKey  nudgeKey = nudgeKey
  Rows = {r1, r2}
  Keys = {patrolKey, nudgeKey}
  Opt <- MCOpt
  Ticks = {t1, t2}
  Callers = {c1}
  None = None
  BatchLimit = 2
  Jitter = 0
  MaxTime = 1
  RetryBound = 1
  MaxCrashes = 1
  MaxFailures = 1
SPECIFICATION Spec
SYMMETRY Symmetry
INVARIANTS TypeOK OneRunPerRow ClaimHeld FiringIsHeld BoundedOvershoot
PROPERTY ImplementsLedger
