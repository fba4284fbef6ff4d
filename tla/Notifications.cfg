SPECIFICATION NotificationsSpec
CONSTANTS
  u1 = u1
  d1 = d1
  e1 = e1
  o1 = o1
  o2 = o2
  Users = {u1}
  Devices = {d1}
  Owner <- OneOwner
  Occasions = {o1, o2}
  Category <- TwoCategories
  Registrations = {r1, r2}
  Earlier = {e1}
  Dispatchers = {w1, w2}
  MaxTries = 2
  MaxUpsets = 1
  NoId = NoId
  NoWorker = NoWorker
  NoOccasion = NoOccasion
  NoUser = NoUser
SYMMETRY Interchangeable
INVARIANTS NotificationsInv ToldOnce
PROPERTIES DispatchesAreAuthorized
CHECK_DEADLOCK FALSE
