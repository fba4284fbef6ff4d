SPECIFICATION FairChatSpec
CONSTANTS
  m1 = m1
  m2 = m2
  m3 = m3
  w1 = w1
  w2 = w2
  Messages = {m1, m2}
  Workers = {w1, w2}
  Year = 2
  Day = 1
  Batch = 1
  MaxLag = 1
  MaxCrashes = 1
  NoWorker = NoWorker
INVARIANTS ChatInv
PROPERTIES BodyNeverReturns EventuallyForgotten
CHECK_DEADLOCK FALSE
