SPECIFICATION Spec
CONSTANTS
  Roles <- Answerers
  MaxPc = 2
  MaxRpc = 2
  MaxChanges = 0
  MaxFaults = 0
PROPERTIES
  CapturedIsCurrent
CHECK_DEADLOCK FALSE
