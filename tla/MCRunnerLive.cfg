SPECIFICATION FairSpec
CONSTANTS
  MaxInv = 2
  Configs <- MCConfigs
PROPERTIES
  SignalStopsRunner BuildEnds
\* After the last command nobody starts another one.
CHECK_DEADLOCK FALSE
