SPECIFICATION AllSpec
CONSTANTS
  Row = {r1, r2, r3, r4}
  Family = {f1, f2}
  Proc = {p1, p2}
  NoRow = NoRow
  NoFamily = NoFamily
  Founder = u0
  User = {u0, x1}
  Address = {u0}
  Identity = {f1, f2}
  Ticket = {f1, f2}
  Seat = {r1, r2, r3, r4}
  Caps = {1, 2}
SYMMETRY Symmetry
INVARIANTS
  AllTypeOK
  AtMostOneLiveSession
  NothingEscapesSignOut
  NobodyIsLockedOut
  OverAdmitIsSmall
  AudienceIsKept
CHECK_DEADLOCK FALSE
