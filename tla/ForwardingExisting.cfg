SPECIFICATION Spec
CONSTANTS
  a = a
  b = b
  Nobody = Nobody
  audio = audio
  video = video
  Targets <- OneTarget
  Initiators <- OneTarget
  Kinds <- OneKind
  ChSize = 3
  MaxSenders = 2
  MaxTracks = 2
  MaxConnects = 1
INVARIANTS
  ExistingTracksAdded
CHECK_DEADLOCK FALSE
