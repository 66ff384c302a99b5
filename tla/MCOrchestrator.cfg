SPECIFICATION FairSpec
CONSTANTS
  Orc <- MCOrc
  Cfg <- MCCfg
  Longer <- MCLonger
INVARIANTS TypeOK InTurnUnique InTurnClean EnsuredOrTold
PROPERTIES KillScope PhasesEnd
\* Every orchestrator has exited.
CHECK_DEADLOCK FALSE
