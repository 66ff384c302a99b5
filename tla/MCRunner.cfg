SPECIFICATION Spec
CONSTANTS
  MaxInv = 3
  Configs <- MCConfigs
INVARIANTS
  TypeOK NoSwtpmLeak NoQemuLeak OwnPidFile WriteOrder BootsBuiltDisk
  GoodBuildIntact
PROPERTIES
  ExitZeroMeansBuilt ImplementsImageStore
\* After the last command nobody starts another one.
CHECK_DEADLOCK FALSE
