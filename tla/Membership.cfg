SPECIFICATION Spec
CONSTANTS
  u1 = u1
  u2 = u2
  i1 = i1
  i2 = i2
  r1 = r1
  r2 = r2
  Users = {u1, u2}
  Founder = u1
  Invites = {i1, i2}
  Requests = {r1, r2}
  Roles = {"admin", "member"}
  NoUser = NoUser
  NoInvite = NoInvite
SYMMETRY Symmetry
INVARIANTS
  MembershipInv
PROPERTIES
  VerdictsAreFinal
  JoinsByInvitation
  RolesChangeOnRequest
