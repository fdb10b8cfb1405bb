CONSTANTS
  Workers = {w1, w2}
  Requests <- KindNames
  Content <- Kinds
  Tids <- Threads
  Start <- MediaServer
  MaxChurn = 3
SPECIFICATION Spec
SYMMETRY Alike
INVARIANTS TypeOK FifoIsGranted OneRequestDecides
CHECK_DEADLOCK FALSE
