SPECIFICATION Spec
CONSTANTS
  Agent = {a1, a2}
  NoAgent = NoAgent
  MaxToggles = 0
  MaxFaults = 1
PROPERTIES
  NoStandingAccess
  StopCutsConnectedAgents
CHECK_DEADLOCK FALSE
