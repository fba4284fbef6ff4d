SPECIFICATION Spec
CONSTANTS
  c1 = c1
  c2 = c2
  c3 = c3
  k1 = k1
  k2 = k2
  o1 = o1
  o2 = o2
  Calls = {c1, c2, c3}
  Keys = {k1, k2}
  Ops = {o1, o2}
  NoKey = NoKey
  NoOp = NoOp
  NoCall = NoCall
SYMMETRY Symmetry
CHECK_DEADLOCK FALSE
INVARIANTS
  IdempotencyInv
  AnswersAgree
PROPERTIES
  AnsweredMeansOver
