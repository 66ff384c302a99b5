------------------------------ MODULE MCRunner ------------------------------
(***************************************************************************)
(* Runner for TLC: every configuration the code tells apart.               *)
(***************************************************************************)
EXTENDS RunnerRefinement

MCConfigs ==
  [mode : {"build"}, output : {"direct"}, noCleanup : {"yes", "no"},
   pristine : {"yes", "no"}]
  \cup
  [mode : {"run"}, output : {"direct", "tagged", "other"},
   noCleanup : {"yes", "no"}, pristine : {"no"}]
=============================================================================
