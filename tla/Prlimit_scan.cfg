CONSTANTS
  MaxPid = 5
  MaxChurn = 3
  AllowFifo = FALSE
  IsRoot = TRUE
  Tables <- BootTables
  ArgLists <- SomeLines
SPECIFICATION Spec
INVARIANTS TypeOK SteadyLimited CleanScanIsComplete
CHECK_DEADLOCK FALSE
