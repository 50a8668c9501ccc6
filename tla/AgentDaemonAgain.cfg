SPECIFICATION EngineSpec
CONSTANTS
  s1 = s1  s2 = s2  t1 = t1  u = u  a = a  b = b  c = c  x = x  y = y  z = z
  Short = TRUE
  Starts <- StartsMC
  Ticks <- TicksMC
  Commands <- CommandsMC
  Pushers <- PushersMC
  Posts <- PostsMC
  Pushable <- PushableMC
  Title <- TitleMC
  Summary <- SummaryMC
  Recent = 2
  Results <- ResultsMC
  Told <- ToldMC
  RecentToPublisher = 2
  Tags <- TagsMC
  Interests <- InterestsMC
INVARIANTS
  SimilarIsPostedOnce
CHECK_DEADLOCK FALSE
