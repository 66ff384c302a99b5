--------------------------- MODULE MCOrchestrator ---------------------------
(***************************************************************************)
(* Orchestrator for TLC: a build with needs_running, a cluster that shares *)
(* its BGP server and has a node whose name begins like one of the build's *)
(* dependencies, and a command without jobs of its own.                    *)
(***************************************************************************)
EXTENDS Orchestrator

MCOrc == {"build", "cluster", "plain"}

MCCfg == [o \in MCOrc |->
  CASE o = "build"   -> [deps |-> <<"bgp", "node1">>, primary |-> "vm",
                         run |-> "vm"]
    [] o = "cluster" -> [deps |-> <<"bgp">>, primary |-> "node10",
                         run |-> NoRun]
    [] o = "plain"   -> [deps |-> <<>>, primary |-> "vm",
                         run |-> "vm"]]

MCLonger == {<<"node1", "node10">>}
=============================================================================
