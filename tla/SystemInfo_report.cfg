CONSTANTS
  DigitOf <- TwoDigits
  LongMax = 99
  PageSize = 8
  Kilo = 2
  B2GSums <- TwoSums
  Starts <- SmallStarts
  Rewrites <- NewLists
  MaxWrites = 1
  Room = 5
SPECIFICATION FairSystemSpec
INVARIANTS ReadsOneText ReadsNumerals FiguresAsReported RowsPairTheLists
PROPERTY ReadingEnds
CHECK_DEADLOCK FALSE
