SPECIFICATION Spec
CONSTANTS
  Session = {s1, s2, s3}
  Token = {t1, t2, t3}
  Proc = {p1}
  User = {alice, bob}
  NoToken = NoToken
  NoUser = NoUser
  MaxFailures = 0
CHECK_DEADLOCK FALSE
PROPERTY ImplementsLifecycle
