----------------------------- MODULE MCVMConfig -----------------------------
(***************************************************************************)
(* How a VM is configured, for TLC: a QEMU of the runner, or two machines  *)
(* of a test, whichever is started first.                                  *)
(***************************************************************************)
EXTENDS QemuArgs, MachineOptions

MCQemuConfigs ==
  [host : Host, machineType : MachineTypes, qemuSystem : Emulators \cup {""},
   iso : BOOLEAN, secondTap : BOOLEAN]

MCMachines == {"m1", "m2"}

(* Of the pool of setup-bridge.sh, a pool of 257, and a name of its own.   *)
MCTapNumber ==
  [t \in {"mltt-tap0", "mltt-tap1", "mltt-tap256", "uplink"} |->
     CASE t = "mltt-tap0" -> 0 [] t = "mltt-tap1" -> 1
       [] t = "mltt-tap256" -> 256 [] OTHER -> NoNumber]

MCTaps == DOMAIN MCTapNumber

MCGiven ==
  {<<>>, <<"WithPortForward">>, <<"WithBridge">>,
   <<"WithBridge", "WithUserNet">>, <<"WithBridge", "WithBridge">>}

(* Everything is set, or the variables that go in pairs are half set.      *)
MCEnvs ==
  {e \in [plain : {<<"WithMemory">>}, kernel : BOOLEAN,
          ovmfCode : {TRUE}, ovmfVars : BOOLEAN, tpm : {TRUE}, swtpm : BOOLEAN,
          cpus : {"", "bad"}, network : {"none", "bridge", "user"},
          forwards : {<<>>, <<"ok">>, <<"ok", "bad">>}] :
     e.ovmfVars = e.swtpm /\ e.kernel = e.swtpm}

AllIdle == \A m \in Machines : stage[m] = "idle"

Init == QemuIdle /\ OptIdle

Next ==
  \/ AllIdle /\ QemuNext /\ UNCHANGED optVars
  \/ qemu = "none" /\ OptNext /\ UNCHANGED qemuVars

Spec == Init /\ [][Next]_<<qemuVars, optVars>>
=============================================================================
