SPECIFICATION FairSpec
CONSTANTS
  m1 = m1  m2 = m2  c1 = c1  w1 = w1
  Messages <- TwoMessages
  Contexts <- OneContext
  Kinds <- AllKinds
  ConfigIds <- OneConfig
  EmptyId = EmptyId
  None = None
  MaxUpdates = 1
  MaxInFlight = 1
INVARIANTS
  TypeOK
  SequencesIdentifyTasks
  AnsweredSendRecordedOnce
  RepliesFollowTheirMessage
  ConfigsBelongToTasks
PROPERTIES
  EveryChangeIsPosted
  StoreIsALog
  StopResolves
CHECK_DEADLOCK FALSE
