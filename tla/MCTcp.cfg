CONSTANTS
  None = None
  Levels <- MCLevels
  Lengths <- MCLengths
  Marks <- MCMarks
  Named <- MCNamed
  MaxOld = 1
  Capacity = 3
  Room = 2
  Buffer = 2
  MaxWord = 6
  MaxLines = 2
  FileLen = 3
SPECIFICATION MCSpec
INVARIANTS WebInv OnlyEmptyIsTaken StreamsInv
PROPERTIES RangesAreFetched StreamsSettle
CHECK_DEADLOCK FALSE
