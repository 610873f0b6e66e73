SPECIFICATION Spec
CONSTANTS
  a = a
  Nobody = Nobody
  b = b
  audio = audio
  video = video
  Targets <- TwoTargets
  Initiators <- OneInitiator
  Kinds <- OneKind
  ChSize = 3
  MaxSenders = 2
  MaxTracks = 2
  MaxConnects = 2
CONSTRAINT TwoConnectsOrTracks
INVARIANTS
  TypeOK
  RegisteredForwarded
PROPERTIES
  ImplementsDistribution
CHECK_DEADLOCK FALSE
