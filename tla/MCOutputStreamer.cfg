SPECIFICATION FairSpec
CONSTANTS
  Streams <- MCStreams
  MaxBytes <- MCMaxBytes
  PipeCap = 3
  LineCap = 1
  ScanCap = 1
INVARIANTS TypeOK OutputFaithful LinesWhole DrainedBeforeReturn
PROPERTIES WriterMovesOn RunReturns
\* The command has exited.
CHECK_DEADLOCK FALSE
