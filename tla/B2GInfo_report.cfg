CONSTANTS
  MaxPid = 4
  MaxChurn = 2
  AllowFifo = FALSE
  Tables <- RunningTables
  IsRoot = TRUE
  Options <- AllOptions
  PssOf <- Sizes
  MaxThreads = 1
SPECIFICATION FairSpec
INVARIANTS TypeOK RowsTellOneStory ReportIsRegular TotalMatchesRows
CHECK_DEADLOCK FALSE
PROPERTY Ends
