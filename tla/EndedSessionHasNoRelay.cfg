SPECIFICATION Spec
CONSTANTS
  Agent = {a1}
  NoAgent = NoAgent
  MaxToggles = 0
  MaxFaults = 0
INVARIANT EndedSessionHasNoRelay
CHECK_DEADLOCK FALSE
