SPECIFICATION PushFairSpec
CONSTANTS
  d = d  c = c  a1 = a1  a2 = a2  a3 = a3  bad = bad
  Pushers <- PushersMC
  Posts <- PostsMC
  Given <- Lists
  Pushable <- PushableMC
  PostBytes <- BytesMC
  BatchSize = 2
  BatchBytes = 4
  RegistryBytes = 5
INVARIANTS
  BatchesAreAcceptable
  ReportedIsDelivered
  AcceptedOnce
PROPERTIES
  PushesAsPromised
  PushEnds
CHECK_DEADLOCK FALSE
