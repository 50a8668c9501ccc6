SPECIFICATION PagingSpec
CONSTANTS
  m1 = m1  m2 = m2  m3 = m3
  c1 = c1
  Messages <- Sends
  Contexts <- OneContext
  Kinds <- PlainOnly
  ConfigIds <- NoConfigs
  EmptyId = EmptyId
  None = None
  MaxUpdates = 1
  MaxInFlight = 1
  PageSize = 1
SYMMETRY SendSymmetry
INVARIANTS
  NoTaskReturnedTwice
  NoTaskMissed
CHECK_DEADLOCK FALSE
