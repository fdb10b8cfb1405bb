CONSTANTS
  MaxPid = 5
  MaxChurn = 3
  AllowFifo = FALSE
  Tables <- RunningTable
  Signals <- SomeSignals
  PidLists <- SomePidLists
SPECIFICATION Spec
INVARIANTS TypeOK AllOrNothing EachGetsItsSignals SentAsSpelled OnlyB2GProcesses
CHECK_DEADLOCK FALSE
