CONSTANTS
  MaxPid = 4
  MaxChurn = 2
  AllowFifo = FALSE
  IsRoot = TRUE
  Tables <- AllTables
SPECIFICATION Spec
INVARIANT TwoMainsMeansTwo
CHECK_DEADLOCK FALSE
