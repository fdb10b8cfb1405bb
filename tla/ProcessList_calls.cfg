CONSTANTS
  MaxPid = 4
  MaxChurn = 3
  AllowFifo = TRUE
  IsRoot = TRUE
  Tables <- FirstTables
SPECIFICATION FairSpec
INVARIANTS TypeOK ListedRegular ReturnsAgree MainIsJustified ShownWereRead
PROPERTIES RegularSpec CallsEnd
CHECK_DEADLOCK FALSE
