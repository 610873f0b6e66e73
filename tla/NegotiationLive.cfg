SPECIFICATION FairSpec
CONSTANTS
  Roles <- AllRoles
  MaxPc = 1
  MaxRpc = 1
  MaxChanges = 1
  MaxFaults = 1
PROPERTIES
  UpdateDelivered
  ClosedIsDropped
CHECK_DEADLOCK FALSE
