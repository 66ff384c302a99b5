------------------------- MODULE MCMachineLifecycle -------------------------
(***************************************************************************)
(* MachineLifecycle for TLC: no options, DumpDmesg alone, without and with *)
(* patterns, several.                                                      *)
(***************************************************************************)
EXTENDS MachineLifecycle

MCOptionSets == {{}, {"dmesg"}, {"dmesgPatterns"}, {"journal", "dmesgPatterns"}}
=============================================================================
