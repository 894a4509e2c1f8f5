SPECIFICATION FairSpec
CONSTANTS
  MaxCalls = 2
  MaxTurns = 2
  MaxMsgs = 3
  MaxUpdates = 1
  MaxFaults = 2
INVARIANTS
  CopiesAgree
  RequestsAreDue
PROPERTIES
  SubscribersSeeRunEvents
  RunSettles
