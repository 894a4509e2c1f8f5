SPECIFICATION Spec
CONSTANTS
  MaxCalls = 0
  MaxTurns = 1
  MaxMsgs = 1
  MaxUpdates = 0
  MaxFaults = 1
PROPERTY
  AgentEndIsFinal
