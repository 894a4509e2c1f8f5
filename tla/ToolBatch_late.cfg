SPECIFICATION Spec
CONSTANTS
  N = 1
  DetachedUpdaters = TRUE
  MaxFaults = 0
PROPERTY
  NoUpdateAfterEnd
