SPECIFICATION Spec
CONSTANTS
  Inviter = ann
  Invitee = ben
  Conv = {v1, v2}
  Invite = {i1}
  Proc = {p1}
  MaxRows = 2
  NoConv = NoConv
  NoInvite = NoInvite
INVARIANT OneThreadPerPair
CHECK_DEADLOCK FALSE
