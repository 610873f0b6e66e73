SPECIFICATION FairSpec
CONSTANTS
  Roles <- AllRoles
  MaxPc = 2
  MaxRpc = 2
  MaxTracks = 2
  MaxFaults = 1
CONSTRAINT OneTrouble
INVARIANTS
  TracksFollow
  NoLostUpdate
PROPERTIES
  ImplementsPeerConnections
  ImplementsDistribution
  TrackReachesRemote
CHECK_DEADLOCK FALSE
