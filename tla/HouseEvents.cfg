SPECIFICATION FairSpec
CONSTANTS
  u1 = u1
  w1 = w1
  w2 = w2
  w3 = w3
  c1 = c1
  c2 = c2
  Users = {u1}
  Writers = {w1, w2, w3}
  Kind <- OneOfEach
  Clients = {c1, c2}
  Streams = {c1}
  Who <- OneUser
  PageLimit = 1
  MaxChanges = 2
  Nobody = Nobody
INVARIANTS HouseEventsInv
PROPERTIES LogIsServed RemovedStreamsClose
CHECK_DEADLOCK FALSE
