SPECIFICATION Spec
CONSTANTS
  N = 2
  MaxLines = 2
  MaxDumps = 2
  OptionSets <- MCOptionSets
INVARIANT NoLogAfterTest
CHECK_DEADLOCK FALSE
