SPECIFICATION Spec
CONSTANTS
  Proc = {p1, p2}
  Founder = u0
  User = {u0, x1, x2}
  OrgInvite = {v1}
  MaxSeats = 2
  Person = {u0, x1, x2}
  Link = {l1}
  Space = {c1}
  MaxUses = 2
  Newcomer = {n1}
  Request = {q1}
  Item = {x1, x2, x3}
  MaxPosition = 3
  Schema = {s1, s2}
  MaxVersion = 4
  FloodLimit = 2
SYMMETRY Symmetry
INVARIANTS
  TypeOK
  OwnerIsKept
  SeatsWithinLimit
  UsesAreCounted
  AccessFollowsMembership
  DecisionIsWhatWasDone
  PlainSpaceHasEveryMember
  OrderIsKept
  SchemaIsRecorded
  FreezeIsEarned
CHECK_DEADLOCK FALSE
