SPECIFICATION FairSpec
CONSTANTS
  pli = pli
  remb = remb
  SNs = 6
  TSs = 64
  MaxAge = 3
  Window = 3
  NackCap = 1
  RtcpCap = 1
  Loops <- OneLoop
  Streams <- SomeStreams
  MaxPackets = 7
  MaxGap = 3
  MaxLate = 2
  MaxTracks = 2
INVARIANTS
  TypeOK
  NackExact
  BufferTime
  LoopsServe
PROPERTIES
  NacksFlow
CHECK_DEADLOCK FALSE
