SPECIFICATION Spec
CONSTANTS
  u1 = u1
  u2 = u2
  e1 = e1
  e2 = e2
  r1 = r1
  r2 = r2
  p1 = p1
  p2 = p2
  p3 = p3
  p4 = p4
  p5 = p5
  Users = {u1, u2}
  Founder = u1
  Ids = {e1}
  Amounts = {1, 2}
  Requests = {r1, r2}
  Offered = {"create", "update", "delete", "share", "balances"}
  MaxChanges = 1
  NoUser = NoUser
  NoId = NoId
  People = {p1, p2, p3, p4, p5}
  MaxNet = 4
SYMMETRY Symmetry
CHECK_DEADLOCK FALSE
INVARIANTS
  ExpensesInv
  BalancesSettle
PROPERTIES
  ChargedUsersAreActive
  OnlyStaleUpdatesDisagree
