SPECIFICATION FairSpec
CONSTANTS
  Callers = {c1, c2}
  Waiters = {w1, w2}
  MaxRuns = 2
  MaxMsgs = 1
  MaxTurns = 0
  MaxFaults = 0
  MaxEdits = 0
  MaxDrops = 0
PROPERTY
  WaitersReturn
