SPECIFICATION Spec
CONSTANTS
  i1 = i1
  u1 = u1
  u2 = u2
  Users = {u1, u2}
  Items = {i1}
  Occurrences = {o1}
  n1 = n1
  n2 = n2
  Names = {n1, n2}
  NamesOf <- NamesByKind
  NoName = NoName
  Nobody = Nobody
  NoItem = NoItem
  MaxVersion = 3
  MaxRoles = 1
SYMMETRY Interchangeable
INVARIANTS HouseholdInv CompletedOnce
PROPERTIES ChangesAreInformed
CHECK_DEADLOCK FALSE
