SPECIFICATION Spec
CONSTANTS
  Callers = {c1, c2}
  Waiters = {}
  MaxRuns = 2
  MaxMsgs = 3
  MaxTurns = 1
  MaxFaults = 1
  MaxEdits = 0
  MaxDrops = 0
SYMMETRY CallerSymmetry
INVARIANTS
  OneRunAtATime
  EachMessageOnce
  OneSteeringBatchPerRequest
