SPECIFICATION MCSpec
CONSTANTS
  MaxText = 5
  MaxLine = 2
  MaxEvent = 3
INVARIANTS
  EventsMatchText
  ArgumentsToldTruly
  CoercionIsHarmless
  AnswersBelong
  TokensCountedOnce
  KeptAsWritten
  AnswersAsScripted
CHECK_DEADLOCK FALSE
