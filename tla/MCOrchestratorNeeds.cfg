SPECIFICATION Spec
CONSTANTS
  Orc <- MCOrc
  Cfg <- MCCfg
  Longer <- MCLonger
INVARIANTS NeedsRunning
CHECK_DEADLOCK FALSE
