SPECIFICATION Spec
CONSTANTS
  Row = {r1, r2, r3, r4}
  Family = {f1}
  Proc = {p1, p2}
  NoRow = NoRow
  NoFamily = NoFamily
  Founder = u0
  User = {u0}
SYMMETRY Symmetry
INVARIANT ExactlyOneLiveSession
CHECK_DEADLOCK FALSE
