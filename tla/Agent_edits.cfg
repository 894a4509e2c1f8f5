SPECIFICATION Spec
CONSTANTS
  Callers = {c1, c2}
  Waiters = {}
  MaxRuns = 2
  MaxMsgs = 1
  MaxTurns = 1
  MaxFaults = 1
  MaxEdits = 2
  MaxDrops = 1
SYMMETRY CallerSymmetry
INVARIANTS
  StreamingMeansActive
  ContinuesFromUserTail
CHECK_DEADLOCK FALSE
