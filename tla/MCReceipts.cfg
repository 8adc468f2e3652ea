\* One question under errors and a restart; the default periods, in units of
\* the nudge ticker's (the follow-up comes after the sweep has had its chances).
CONSTANTS
  d1 = d1  d2 = d2  q1 = q1  main = main  sub = sub  t1 = t1  t2 = t2
  Rows = {q1}
  Questions = {q1}
  To <- MCTo
  Message <- MCMessage
  Ackers = {}
  Ticks = {t1, t2}
  None = None
  Timeout = 1
  Grace = 2
  NudgePeriod = 1
  SweepPeriod = 2
  FollowUp = 5
  Cooldown = 1
  MaxAutoNudges = 1
  Downtime = 4
  MaxFaults = 1
  MaxCrashes = 1
SPECIFICATION FairSpec
INVARIANTS TypeOK NudgedOnce AnsweredInTimeIsNotExpired
PROPERTY PendingEnds
