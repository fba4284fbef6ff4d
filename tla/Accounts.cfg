SPECIFICATION Spec
CONSTANTS
  u1 = u1
  u2 = u2
  u3 = u3
  i1 = i1
  i2 = i2
  e1 = e1
  e2 = e2
  e3 = e3
  a1 = a1
  a2 = a2
  Users = {u1, u2, u3}
  Identities = {i1, i2}
  Addresses = {e1, e2, e3}
  Attempts = {a1, a2}
  Nobody = Nobody
  NoAddress = NoAddress
  Unset = Unset
SYMMETRY Sym
INVARIANTS AccountsInv
PROPERTIES SameAccountAgain OnlyOutdatedSignInsCross
