CONSTANTS
  Cells <- TwoCells
  Headers <- SomeHeaders
  MaxRows = 3
  MaxCells = 3
SPECIFICATION ClientSpec
INVARIANTS Aligned HeaderSpansItsColumns
CHECK_DEADLOCK FALSE
