SPECIFICATION Spec
CONSTANTS
  Agent = {a1, a2}
  NoAgent = NoAgent
  MaxToggles = 2
  MaxFaults = 1
SYMMETRY Symmetry
INVARIANTS
  TypeOK
  RelayIsAttended
  PauseAgreesWhenQuiet
CHECK_DEADLOCK FALSE
