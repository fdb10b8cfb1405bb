CONSTANTS
  MaxPid = 6
  MaxChurn = 3
  AllowFifo = FALSE
  IsRoot = TRUE
  Tables <- BootTables
  ArgLists <- OnlyForAll
SPECIFICATION Spec
INVARIANT AppliedToAll
CHECK_DEADLOCK FALSE
