SPECIFICATION FairSpec
CONSTANTS
  N = 2
  MaxLines = 2
  MaxDumps = 2
  OptionSets <- MCOptionSets
INVARIANTS
  TypeOK VMsStopped FailureIsDumped LoggersJoined
PROPERTY CleanupsEnd
\* The test is over.
CHECK_DEADLOCK FALSE
