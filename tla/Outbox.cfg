SPECIFICATION FairSpec
CONSTANTS
  w1 = w1
  w2 = w2
  m1 = m1
  m2 = m2
  o1 = o1
  o2 = o2
  Messages = {m1, m2}
  Workers = {w1, w2}
  Owners = {o1, o2}
  OwnerOf <- SharedOwner
  Kind <- LinkAndPush
  WorkerCipher = "matching"
  MaxAttempts = 2
  LeaseDuration = 1
  Delays = {0, 2}
  MaxLapses = 1
  NoMessage = NoMessage
  NoOwner = NoOwner
CHECK_DEADLOCK FALSE
INVARIANTS OutboxInv OneLeaseHolder DuplicatesHaveCause
PROPERTIES KeepsPromise EventuallySettled
