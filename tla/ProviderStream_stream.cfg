SPECIFICATION FairSpec
CONSTANTS
  MaxRetries = 1
  N = 2
  MaxFragments = 2
  MaxServed = 5
  MaxQueued = 1
INVARIANTS
  AnswerIsTrue
PROPERTIES
  KeepsContract
  NothingAfterCancel
  StreamEnds
