SPECIFICATION Spec
CONSTANTS
  MaxInv = 1
  Configs <- MCConfigs
INVARIANT AllSpawnedProcessesCleaned
CHECK_DEADLOCK FALSE
