SPECIFICATION SearchSpec
CONSTANTS
  c1 = c1  c2 = c2
  Callers <- TwoCallers
  MaxTokens = 2
  Interval = 1
  Minute = 3
  Delays <- ShortDelays
  MaxRetries = 2
INVARIANTS
  QueueHoldsTheWaiting
  NoIdleToken
  BurstAndRefillsOnly
  GivesUpOnlyAtTheEnd
PROPERTIES
  NoOvertaking
  UsesLimiterAsSpecified
  CallsEnd
CHECK_DEADLOCK FALSE
