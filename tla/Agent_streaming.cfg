SPECIFICATION Spec
CONSTANTS
  Callers = {c1}
  Waiters = {}
  MaxRuns = 1
  MaxMsgs = 1
  MaxTurns = 1
  MaxFaults = 0
  MaxEdits = 1
  MaxDrops = 0
INVARIANT
  StreamingUntilSettled
CHECK_DEADLOCK FALSE
