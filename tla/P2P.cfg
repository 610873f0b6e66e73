SPECIFICATION Spec
CONSTANTS
  alice = alice
  bob = bob
  carol = carol
  s1 = s1
  s2 = s2
  audio = audio
  video = video
  token1 = token1
  token2 = token2
  Source = alice
  Targets <- OneTarget
  Initiators <- AliceInitiates
  Ids <- SomeIds
  Kinds <- SomeKinds
  Tokens <- SomeTokens
  Lists <- SomeLists
  None = None
  Handler = Handler
  Worker = Worker
  MaxConns <- SomeConns
  MaxMessages = 2
CONSTRAINT VideoFirst
INVARIANTS
  TypeOK
  WaitingPended
  OpenIsServed
  AnnouncersGoOn
CHECK_DEADLOCK FALSE
