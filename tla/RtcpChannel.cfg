SPECIFICATION FairSpec
CONSTANTS
  s1 = s1
  s2 = s2
  Subscribers <- TwoSubscribers
  ChSize = 2
  MaxCh = 2
  MaxCtx = 3
INVARIANTS
  TypeOK
  ConsumerAlive
PROPERTIES
  SubscribersEnd
CHECK_DEADLOCK FALSE
