SPECIFICATION Spec
CONSTANTS
  Roles <- AllRoles
  MaxPc = 2
  MaxRpc = 2
  MaxChanges = 1
  MaxFaults = 1
CONSTRAINT FewEvents
INVARIANTS
  TypeOK
  NoLostWakeup
  OfferGuarded
  NoLostUpdate
  CandidatesApplied
PROPERTIES
  ImplementsPeerConnections
CHECK_DEADLOCK FALSE
