SPECIFICATION Spec
CONSTANTS
  Session = {s1, s2}
  Token = {t1, t2}
  Proc = {p1, p2}
  User = {u1, u2}
  NoToken = NoToken
  NoUser = NoUser
  MaxFailures = 1
SYMMETRY Symmetry
INVARIANTS
  TypeOK
  TokenOnlyWhilePending
  SpentTokenNeverStored
  ConsentBeforeControl
  AuditAccountsForStatus
PROPERTY OnlyStaleWritesAreIllegal
CHECK_DEADLOCK FALSE
