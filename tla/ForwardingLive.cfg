SPECIFICATION FairSpec
CONSTANTS
  a = a
  b = b
  Nobody = Nobody
  audio = audio
  video = video
  Targets <- OneTarget
  Initiators <- OneTarget
  Kinds <- OneKind
  ChSize = 1
  MaxSenders = 1
  MaxTracks = 2
  MaxConnects = 3
INVARIANTS
  OnlyDeadlocksStop
PROPERTIES
  TrackDelivered
  NobodyWaitsForEver
CHECK_DEADLOCK FALSE
