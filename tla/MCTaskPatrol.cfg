\* One task and its patrol, under one error or busy round and one restart;
\* rows give up after three rounds, the watchdog after two quiet ones.
CONSTANTS
  t1 = t1 t2 = t2 u1 = u1 u2 = u2 w1 = w1 boot0 = boot0
  Tasks = {t1}
  LongRunning = {}
  Users = {u1}
  Watchdogs = {w1}
  MaxConcurrent = 1
  MaxVersion = 3
  Boot = boot0
  StallLimit = 2
  MaxRounds = 3
  MaxUpsets = 1
  MaxCrashes = 1
SPECIFICATION FairSpec
INVARIANTS TypeOK RunningIsWatched
PROPERTIES ImplementsLifecycle GivenUpAfterQuietWakes StallIsCaught
CHECK_DEADLOCK FALSE
