SPECIFICATION FairSchedulerSpec
CONSTANTS
  e1 = e1
  e2 = e2
  s1 = s1
  s2 = s2
  s3 = s3
  w1 = w1
  w2 = w2
  Events = {e1}
  Workers = {w1, w2}
  Savers = {s1, s2}
  MaxTime = 2
  MaxCrashes = 1
  NoEvent = NoEvent
INVARIANTS SchedulerInv
PROPERTIES EventuallyDue
CHECK_DEADLOCK FALSE
