SPECIFICATION FairSessionsSpec
CONSTANTS
  t1 = t1
  t2 = t2
  r1 = r1
  r2 = r2
  r3 = r3
  k1 = k1
  k2 = k2
  Tokens = {t1, t2}
  Requests = {r1, r2, r3}
  Second = 2
  TTL = 3
  PurgeEvery = 2
  Behind = 1
  MaxTime = 8
  Keys = {k1, k2}
  Window = 2
  Limit = 2
  LastCall = 8
  MaxCalls = 4
INVARIANTS SessionsInv SignInsAreLimited
PROPERTIES SignedOutStaysOut EventuallyPurged
CHECK_DEADLOCK FALSE
