SPECIFICATION Spec
CONSTANTS
  Inviter = ann
  Invitee = ben
  Conv = {v1, v2}
  Invite = {i1, i2}
  Proc = {p1, p2}
  MaxRows = 3
  NoConv = NoConv
  NoInvite = NoInvite
SYMMETRY Symmetry
INVARIANTS
  TypeOK
  ToldIsConnected
PROPERTIES
  RespondedIsFinal
  ImplementsAcquaintance
CHECK_DEADLOCK FALSE
