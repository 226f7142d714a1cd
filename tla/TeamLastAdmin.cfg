SPECIFICATION Spec
CONSTANTS
  u1 = u1  u2 = u2  i1 = i1  p1 = p1  p2 = p2  q1 = q1  q2 = q2
  User = {u1, u2}
  Inv = {i1}
  Password = {p1, p2}
  Slot = {q1, q2}
  MaxSessions = 2
SYMMETRY Symmetry
CHECK_DEADLOCK FALSE
INVARIANT
  OrgHasAdmin
