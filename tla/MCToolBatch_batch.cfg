SPECIFICATION MCSpec
CONSTANTS
  N = 3
  DetachedUpdaters = FALSE
  MaxFaults = 1
  MaxListeners = 3
  MaxEmissions = 1
  MaxStarts = 2
INVARIANTS
  EveryCallAnswered
  ListenersHearEvents
PROPERTIES
  PreflightAlone
  NoUpdateAfterEnd
  BatchEnds
