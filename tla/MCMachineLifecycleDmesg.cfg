SPECIFICATION Spec
CONSTANTS
  N = 2
  MaxLines = 2
  MaxDumps = 2
  OptionSets <- MCOptionSets
INVARIANT RequestedIsDumped
CHECK_DEADLOCK FALSE
