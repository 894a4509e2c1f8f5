SPECIFICATION MCSpec
CONSTANTS
  DefaultInterval = 5
  Increment = 5
  MaxPolls = 3
  MaxDelay = 1
  Expiries = {3, 12, 30}
  Pending = 1
  Tasks = {t1, t2}
  MaxIssued = 3
  Threads = {t1, t2}
  Callbacks = {c1, c2, c3}
  Leaving = {c1}
INVARIANTS
  ServerGoneWithLogin
  StoredTokenGood
  CleanupReachesAll
PROPERTIES
  PollsAsAsked
  CancelledLoginEnds
  CleanupEnds
CHECK_DEADLOCK FALSE
