SPECIFICATION Spec
CONSTANTS
  a = a
  b = b
  Pipeline = Pipeline
  Users <- TwoUsers
  Initiators <- OffersToB
  Joins <- BackOnce
  StopUsers = 1
  MaxConns = 4
  MaxPcs = 2
INVARIANTS
  TypeOK
  OpenIffListed
  ClosedUserDisconnected
  StopCloses
PROPERTIES
  LiveUserSurvives
  BoundLinkStays
CHECK_DEADLOCK FALSE
