SPECIFICATION Spec
CONSTANTS
  Session = {s1, s2}
  Token = {t1, t2}
  Proc = {p1, p2}
  User = {alice, bob}
  NoToken = NoToken
  NoUser = NoUser
  MaxFailures = 0
SYMMETRY Symmetry
CHECK_DEADLOCK FALSE
PROPERTY EndedIsTerminal
