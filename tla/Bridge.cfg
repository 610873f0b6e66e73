SPECIFICATION FairSpec
CONSTANTS
  x1 = x1
  x2 = x2
  Transactions <- TwoTransactions
  MaxSignals = 3
INVARIANTS
  NoOrphanChannel
PROPERTIES
  ShutdownCompletes
  PluginsEnd
CHECK_DEADLOCK FALSE
