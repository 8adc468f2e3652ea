\* Two dispatches to the same sub that fall due together or apart.
CONSTANTS
  d1 = d1  d2 = d2  q1 = q1  main = main  sub = sub  a1 = a1  t1 = t1  t2 = t2
  Rows = {d1, d2}
  Questions = {}
  To <- MCTo
  Message <- MCMessage
  Ackers = {a1}
  Ticks = {t1, t2}
  None = None
  Timeout = 1
  Grace = 2
  NudgePeriod = 1
  SweepPeriod = 2
  FollowUp = 5
  Cooldown = 1
  MaxAutoNudges = 1
  Downtime = 4
  MaxFaults = 0
  MaxCrashes = 0
SPECIFICATION Spec
SYMMETRY Symmetry
PROPERTY NudgeGoesFirst
