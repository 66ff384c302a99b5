SPECIFICATION Spec
CONSTANTS
  QemuConfigs <- MCQemuConfigs
  Machines <- MCMachines
  Envs <- MCEnvs
  Given <- MCGiven
  Taps <- MCTaps
  TapNumber <- MCTapNumber
INVARIANTS QemuAccepts NetworkDecided 
\* The VMs are up.
CHECK_DEADLOCK FALSE
