----------------------- MODULE RunnerRefinementProofs -----------------------
(***************************************************************************)
(* The proof that Runner implements ImageStore under the mapping of        *)
(* RunnerRefinement, for every number of commands and every set of         *)
(* configurations.                                                         *)
(***************************************************************************)
EXTENDS RunnerProofs, RunnerRefinement

(* What IndInv does not know and the mapping needs: a command has not yet  *)
(* written the files that its program counter has not come to, so the      *)
(* generations tell how far a build has got.                               *)
FreshInv ==
  /\ Running /\ pc \in {"bridge", "preflight", "tap", "vars"} => varsFd < inv
  /\ Running /\ pc \in {"bridge", "preflight", "tap", "vars", "disk"}
       => diskImg < inv
  /\ Running /\ pc \in {"bridge", "preflight", "tap", "vars", "disk", "tpm"}
       => tpmState < inv

MapInv == IndInv /\ FreshInv

(***************************************************************************)
(* No command has run: nothing is written.                                 *)
(***************************************************************************)
LEMMA MapInit == Init => MapInv
  BY IndInit DEF Init, MapInv, FreshInv, Running

(***************************************************************************)
(* Every step of main, Run and the children keeps the count of what the    *)
(* running command has written.                                            *)
(***************************************************************************)
LEMMA MapStep == MapInv /\ [Next]_vars => MapInv'
  <1> SUFFICES ASSUME MapInv, [Next]_vars PROVE FreshInv'
      BY IndStep DEF MapInv
  <1> USE MaxInvAssumption
      DEF MapInv, IndInv, TypeOK, FileInv, Gen, mainVars, fileVars, procVars,
          histVars, Running, Build, At, Goto, Return, ReturnEarly, FreshInv
  <1>1. CASE MainStep
    BY <1>1 DEF MainStep, RefuseConfig, Invoke, NewRunner, Signal, MainExit,
                Crash
  <1>2. CASE checkBridgeSetup \/ Preflight \/ useTapDevice
    BY <1>2 DEF checkBridgeSetup, Preflight, useTapDevice
  <1>3. CASE CopyVars
    BY <1>3 DEF CopyVars
  <1>4. CASE CreateDisk
    BY <1>4 DEF CreateDisk
  <1>5. CASE setupTPMState
    BY <1>5 DEF setupTPMState
  <1>6. CASE CheckVars \/ setupRunArtifacts
    BY <1>6 DEF CheckVars, setupRunArtifacts
  <1>7. CASE startTPMWithDir \/ StartQEMU \/ StartQEMUFails
    BY <1>7 DEF startTPMWithDir, StartQEMU, StartQEMUFails
  <1>8. CASE ProvisionDone \/ ProvisionTimeout \/ ProvisionCancelled \/ RunDone
    BY <1>8 DEF ProvisionDone, ProvisionTimeout, ProvisionCancelled, RunDone
  <1>9. CASE StopSwtpm \/ CleanupAll
    BY <1>9 DEF StopSwtpm, CleanupAll
  <1>10. CASE ChildStep
    BY <1>10 DEF ChildStep, QemuExits, KillOnCancel, QemuEnds, SwtpmExits
  <1>11. CASE UNCHANGED vars
    BY <1>11 DEF vars
  <1> QED
    BY <1>1, <1>2, <1>3, <1>4, <1>5, <1>6, <1>7, <1>8, <1>9, <1>10, <1>11
       DEF Next, RunStep

-----------------------------------------------------------------------------
(***************************************************************************)
(* An empty work directory is an empty store that nobody uses.             *)
(***************************************************************************)
LEMMA StoreInit == Init => Store!Init
  BY DEF Init, Store!Init, Image, User, Running

(***************************************************************************)
(* A step that writes no artifact and reports no build leaves the image.   *)
(***************************************************************************)
LEMMA SameImage ==
  UNCHANGED <<varsFd, diskImg, tpmState, lastGood>> => Image' = Image
  BY DEF Image

(***************************************************************************)
(* Every step of main.go, runner.go and the children is a step of the      *)
(* store or leaves it alone: the three writes of a build are Overwrite,    *)
(* Overwrite and Lay, a good exit is Publish, the end of the checks of a   *)
(* run is Enter, and every failure, signal and crash is Leave.             *)
(***************************************************************************)
LEMMA StoreStep == MapInv /\ [Next]_vars => [Store!Next]_(Store!vars)
  <1> SUFFICES ASSUME MapInv, [Next]_vars
               PROVE  Store!Next \/ UNCHANGED <<Image, User>>
      BY DEF Store!vars
  <1> USE MaxInvAssumption
      DEF MapInv, IndInv, TypeOK, Gen, mainVars, fileVars, procVars, histVars,
          Running, Build, At, Goto, Return, ReturnEarly
  <1>1. CASE RefuseConfig
    BY <1>1 DEF RefuseConfig, Image, User
  <1>2. ASSUME NEW c \in Configs, Invoke(c)
        PROVE  Store!Next \/ UNCHANGED <<Image, User>>
    <2>1. Image' = Image /\ User = "nobody"
      BY <1>2, SameImage DEF Invoke, User
    <2>2. User' \in {"build", "nobody"}
      BY <1>2 DEF Invoke, NewRunner, User, FileInv
    <2> QED
      BY <2>1, <2>2 DEF Store!Next, Store!Enter
  <1>3. CASE Signal
    BY <1>3 DEF Signal, Image, User
  <1>4. CASE MainExit
    <2>1. CASE Build /\ mainpc = "select" /\ result = "ok"
      <3>1. User = "provisioning" /\ User' = "nobody"
        BY <1>4, <2>1 DEF MainExit, User, ReportInv
      <3>2. Image' = "good"
        BY <1>4, <2>1 DEF MainExit, Image, ReportInv
      <3> QED
        BY <3>1, <3>2 DEF Store!Next, Store!Publish
    <2>2. CASE ~(Build /\ mainpc = "select" /\ result = "ok")
      <3>1. Image' = Image
        BY <1>4, <2>2, SameImage DEF MainExit
      <3>2. User' = "nobody"
        BY <1>4 DEF MainExit, User
      <3> QED
        BY <3>1, <3>2 DEF Store!Next, Store!Leave
    <2> QED
      BY <2>1, <2>2
  <1>5. CASE Crash
    <2>1. Image' = Image /\ User' = "nobody"
      BY <1>5, SameImage DEF Crash, User
    <2> QED
      BY <2>1 DEF Store!Next, Store!Leave
  <1>6. CASE checkBridgeSetup \/ Preflight \/ useTapDevice \/ CheckVars
    BY <1>6 DEF checkBridgeSetup, Preflight, useTapDevice, CheckVars, Image,
                User
  <1>7. CASE CopyVars
    <2>1. CASE varsFd' = inv /\ lastGood' = 0
      <3>1. User = "build" /\ User' = "overwriting"
        BY <1>7, <2>1 DEF CopyVars, User, FreshInv
      <3>2. Image' = IF Image \in {"none", "partial"} THEN "partial"
                                                      ELSE "mixed"
        BY <1>7, <2>1 DEF CopyVars, Image, FreshInv, WriteOrder
      <3> QED
        BY <3>1, <3>2 DEF Store!Next, Store!Overwrite
    <2>2. CASE UNCHANGED <<varsFd, lastGood>>
      BY <1>7, <2>2 DEF CopyVars, Image, User
    <2> QED
      BY <1>7, <2>1, <2>2 DEF CopyVars
  <1>8. CASE CreateDisk
    <2>0. Build /\ varsFd = inv /\ lastGood = 0 /\ tpmState < inv
      BY <1>8 DEF CreateDisk, ControlInv, FileInv, FreshInv
    <2>1. CASE diskImg' = inv
      <3>1. User = "overwriting" /\ User' = "overwriting"
        BY <1>8, <2>0 DEF CreateDisk, User
      <3>2. Image' = IF Image \in {"none", "partial"} THEN "partial"
                                                      ELSE "mixed"
        BY <1>8, <2>0, <2>1 DEF CreateDisk, Image, WriteOrder
      <3> QED
        BY <3>1, <3>2 DEF Store!Next, Store!Overwrite
    <2>2. CASE UNCHANGED diskImg
      BY <1>8, <2>0, <2>2 DEF CreateDisk, Image, User
    <2> QED
      BY <1>8, <2>1, <2>2 DEF CreateDisk
  <1>9. CASE setupTPMState
    <2>0. /\ Build /\ varsFd = inv /\ diskImg = inv /\ lastGood = 0
          /\ tpmState < inv
      BY <1>9 DEF setupTPMState, ControlInv, FileInv, FreshInv
    <2>1. CASE tpmState' = inv
      <3>1. User = "overwriting" /\ User' = "provisioning"
        BY <1>9, <2>0, <2>1 DEF setupTPMState, User
      <3>2. Image' = "laid"
        BY <1>9, <2>0, <2>1 DEF setupTPMState, Image
      <3> QED
        BY <3>1, <3>2 DEF Store!Next, Store!Lay
    <2>2. CASE UNCHANGED tpmState
      BY <1>9, <2>0, <2>2 DEF setupTPMState, Image, User
    <2> QED
      BY <1>9, <2>1, <2>2 DEF setupTPMState
  <1>10. CASE setupRunArtifacts
    <2>0. ~Build /\ User = "nobody" /\ varsFd # 0
      BY <1>10 DEF setupRunArtifacts, ControlInv, FileInv, User
    <2>1. Image' = Image
      BY <1>10, <2>0
         DEF setupRunArtifacts, Image, WriteOrder, GoodBuildIntact
    <2>2. CASE pc' = "swtpm"
      <3>1. User' = "run"
        BY <1>10, <2>0, <2>2 DEF setupRunArtifacts, User
      <3>2. Image \notin {"none", "partial"}
        BY <1>10, <2>0, <2>2 DEF setupRunArtifacts, Image, WriteOrder
      <3> QED
        BY <2>0, <2>1, <3>1, <3>2 DEF Store!Next, Store!Enter
    <2>3. CASE pc' \in {"cleanup", "returned"}
      <3>1. User' = "nobody"
        BY <1>10, <2>0, <2>3 DEF setupRunArtifacts, User
      <3> QED
        BY <2>0, <2>1, <3>1
    <2> QED
      BY <1>10, <2>2, <2>3 DEF setupRunArtifacts
  <1>11. CASE startTPMWithDir \/ StartQEMU \/ StartQEMUFails \/ ProvisionDone
              \/ ProvisionTimeout \/ ProvisionCancelled \/ StopSwtpm \/ RunDone
              \/ CleanupAll
    <2>1. /\ UNCHANGED <<mainpc, inv, cfg, varsFd, diskImg, tpmState, lastGood>>
          /\ Running
      BY <1>11
         DEF startTPMWithDir, StartQEMU, StartQEMUFails, ProvisionDone,
             ProvisionTimeout, ProvisionCancelled, StopSwtpm, RunDone,
             CleanupAll
    <2>2. Image' = Image
      BY <2>1, SameImage
    <2>3. User' = User \/ (User = "run" /\ User' = "nobody")
      BY <1>11, <2>1
         DEF startTPMWithDir, StartQEMU, StartQEMUFails, ProvisionDone,
             ProvisionTimeout, ProvisionCancelled, StopSwtpm, RunDone,
             CleanupAll, ControlInv, User
    <2> QED
      BY <2>2, <2>3 DEF Store!Next, Store!Leave
  <1>12. CASE ChildStep
    BY <1>12 DEF ChildStep, QemuExits, KillOnCancel, QemuEnds, SwtpmExits,
                 Image, User
  <1>13. CASE UNCHANGED vars
    BY <1>13 DEF vars, Image, User
  <1> QED
    BY <1>1, <1>2, <1>3, <1>4, <1>5, <1>6, <1>7, <1>8, <1>9, <1>10, <1>11,
       <1>12, <1>13 DEF Next, MainStep, RunStep

(***************************************************************************)
(* The commands over a work directory implement the image store, however   *)
(* many there are, whatever fails and wherever they are killed.            *)
(***************************************************************************)
THEOREM Implements == Spec => ImplementsImageStore
  <1>1. Spec => []MapInv
    BY MapInit, MapStep, PTL DEF Spec
  <1> QED
    BY <1>1, StoreInit, StoreStep, PTL DEF Spec, ImplementsImageStore, Store!Spec
=============================================================================
