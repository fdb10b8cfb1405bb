CONSTANTS
  MaxPid = 4
  MaxChurn = 1
  AllowFifo = FALSE
  Tables <- RunningTables
  IsRoot = FALSE
  Options <- AllOptions
  PssOf <- Sizes
  MaxThreads = 1
SPECIFICATION Spec
INVARIANT AssertsNeverFail
CHECK_DEADLOCK FALSE
