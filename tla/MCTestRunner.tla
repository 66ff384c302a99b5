---------------------------- MODULE MCTestRunner ----------------------------
(***************************************************************************)
(* TestRunner for TLC.                                                     *)
(***************************************************************************)
EXTENDS TestRunner
=============================================================================
