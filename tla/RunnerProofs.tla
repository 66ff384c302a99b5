---------------------------- MODULE RunnerProofs ----------------------------
(***************************************************************************)
(* Proofs about Runner, for every number of commands and every set of      *)
(* configurations.                                                         *)
(***************************************************************************)
EXTENDS Runner, TLAPS

(***************************************************************************)
(* The inductive invariant.  NoSwtpmLeak, NoQemuLeak and the file          *)
(* invariants say nothing about where Run is; what makes them inductive is *)
(* what each program point knows.                                          *)
(***************************************************************************)
Before == {"bridge", "preflight", "tap", "vars", "disk", "tpm", "artifacts",
           "swtpm", "qemu"}
Over == {"cleanup", "returned"}

(* Control: which mode owns a program point, when Run has a result, and    *)
(* that the --no-cleanup of the current command is on record.              *)
ControlInv ==
  /\ Running /\ pc \in {"disk", "tpm", "unpid"} => Build
  /\ Running /\ pc = "artifacts" => ~Build
  /\ Running /\ pc \notin Over => result = "none"
  /\ Running /\ cfg.noCleanup = "yes" => inv \in kept
  /\ Running /\ mainpc = "direct" => ~Build

(* Children: nothing is alive under a number not given out yet; the        *)
(* command's swtpm can be found through a registered pid file until it is  *)
(* stopped; its QEMU is being waited for, or was given up.                 *)
ChildInv ==
  /\ \A i \in swtpm : i <= inv
  /\ \A i \in qemu : i <= inv
  /\ Running /\ pc \in {"bridge", "preflight"} => inv \notin swtpm
  /\ Running /\ inv \in swtpm =>
       /\ pidFile = inv
       /\ "swtpm" \in registered
       /\ pc = "returned" => inv \in kept
  /\ Running /\ inv \in qemu =>
       \/ pc = "wait" /\ qexit = "none"
       \/ pc \in Over /\ result = "err" /\ inv \in gaveUp

(* Files: generations are bounded by the current command, and each program *)
(* point of a build knows what the build has written so far.               *)
FileInv ==
  /\ varsFd <= inv /\ diskImg <= inv /\ tpmState <= inv
  /\ tpmState # 0 => diskBy = "build"
  /\ Running /\ Build /\ pc \in {"disk", "tpm", "swtpm", "qemu", "wait", "unpid"}
       => varsFd = inv /\ lastGood = 0
  /\ Running /\ Build /\ pc \in {"tpm", "swtpm", "qemu", "wait", "unpid"}
       => diskImg = inv /\ diskBy = "build"
  /\ Running /\ Build /\ pc \in {"swtpm", "qemu", "wait", "unpid"}
       => tpmState = inv
  /\ Running /\ ~Build /\ pc \in {"artifacts", "swtpm", "qemu", "wait"}
       => varsFd # 0
  /\ Running /\ ~Build /\ pc \in {"swtpm", "qemu", "wait"} => tpmState # 0

(* A build that is about to report success.                                *)
ReportInv ==
  /\ Running /\ pc \in Before => qexit = "none"
  /\ Running /\ pc = "unpid" => qexit = "zero"
  /\ Running /\ Build /\ result = "ok" =>
       /\ qexit = "zero"
       /\ varsFd = inv /\ diskImg = inv /\ tpmState = inv
       /\ inv \notin swtpm

IndInv ==
  /\ TypeOK
  /\ ControlInv
  /\ ChildInv
  /\ FileInv
  /\ ReportInv
  /\ NoSwtpmLeak
  /\ NoQemuLeak
  /\ OwnPidFile
  /\ WriteOrder
  /\ GoodBuildIntact

-----------------------------------------------------------------------------
(***************************************************************************)
(* A work directory in which nothing was ever run is well-typed.           *)
(***************************************************************************)
LEMMA TypeInit == Init => TypeOK
  BY MaxInvAssumption DEF Init, TypeOK, Gen, Inv, PC, Config, DefaultConfig

(***************************************************************************)
(* Every step keeps every variable in its domain (all of main.go's,        *)
(* runner.go's and process_manager.go's state).                            *)
(***************************************************************************)
LEMMA TypeStep == TypeOK /\ [Next]_vars => TypeOK'
  <1> SUFFICES ASSUME TypeOK, [Next]_vars PROVE TypeOK'
      OBVIOUS
  <1> USE MaxInvAssumption, ConfigsAssumption
      DEF TypeOK, Gen, Inv, PC, mainVars, fileVars, procVars, histVars,
          Running, At, Goto, Return
  <1>1. CASE RefuseConfig
    BY <1>1 DEF RefuseConfig
  <1>2. ASSUME NEW c \in Configs, Invoke(c) PROVE TypeOK'
    BY <1>2 DEF Invoke, NewRunner
  <1>3. CASE Signal
    BY <1>3 DEF Signal
  <1>4. CASE MainExit
    BY <1>4 DEF MainExit
  <1>5. CASE Crash
    BY <1>5 DEF Crash
  <1>6. CASE checkBridgeSetup \/ Preflight
    BY <1>6 DEF checkBridgeSetup, Preflight, ReturnEarly
  <1>7. CASE useTapDevice
    BY <1>7 DEF useTapDevice
  <1>8. CASE CopyVars
    BY <1>8 DEF CopyVars
  <1>9. CASE CreateDisk
    BY <1>9 DEF CreateDisk
  <1>10. CASE setupTPMState
    BY <1>10 DEF setupTPMState
  <1>11. CASE CheckVars
    BY <1>11 DEF CheckVars
  <1>12. CASE setupRunArtifacts
    BY <1>12 DEF setupRunArtifacts
  <1>13. CASE startTPMWithDir
    <2>0. pidFile' \in Gen
      BY <1>13 DEF startTPMWithDir
    <2>1. swtpm' \subseteq Inv
      <3>1. inv \in Inv
        BY <1>13 DEF startTPMWithDir
      <3>2. swtpm' = swtpm \/ swtpm' = swtpm \cup {inv}
        BY <1>13 DEF startTPMWithDir
      <3> QED
        BY <3>1, <3>2
    <2>2. registered' \subseteq {"swtpm", "qemu"} /\ qemu' \subseteq Inv
      BY <1>13 DEF startTPMWithDir
    <2>3. pc' \in PC /\ result' \in {"none", "ok", "err"}
      BY <1>13 DEF startTPMWithDir
    <2> QED
      BY <1>13, <2>0, <2>1, <2>2, <2>3 DEF startTPMWithDir
  <1>14. CASE StartQEMU
    BY <1>14 DEF StartQEMU
  <1>15. CASE StartQEMUFails
    <2>0. pidFile' \in Gen
      BY <1>15 DEF StartQEMUFails, cleanupPIDFile
    <2>1. swtpm' \subseteq Inv
      BY <1>15 DEF StartQEMUFails, cleanupPIDFile
    <2>2. registered' \subseteq {"swtpm", "qemu"} /\ qemu' \subseteq Inv
      BY <1>15 DEF StartQEMUFails
    <2>3. pc' \in PC /\ result' \in {"none", "ok", "err"}
      BY <1>15 DEF StartQEMUFails
    <2> QED
      BY <1>15, <2>0, <2>1, <2>2, <2>3 DEF StartQEMUFails
  <1>16. CASE ProvisionDone
    BY <1>16 DEF ProvisionDone
  <1>17. CASE ProvisionTimeout
    BY <1>17 DEF ProvisionTimeout
  <1>18. CASE ProvisionCancelled
    BY <1>18 DEF ProvisionCancelled
  <1>19. CASE StopSwtpm
    BY <1>19 DEF StopSwtpm, cleanupPIDFile
  <1>20. CASE RunDone
    BY <1>20 DEF RunDone
  <1>21. CASE CleanupAll
    <2>0. pidFile' \in Gen
      BY <1>21 DEF CleanupAll, cleanupPIDFile
    <2>1. swtpm' \subseteq Inv
      BY <1>21 DEF CleanupAll, cleanupPIDFile
    <2>2. registered' \subseteq {"swtpm", "qemu"} /\ qemu' \subseteq Inv
      BY <1>21 DEF CleanupAll
    <2>3. pc' \in PC /\ result' \in {"none", "ok", "err"}
      BY <1>21 DEF CleanupAll
    <2> QED
      BY <1>21, <2>0, <2>1, <2>2, <2>3 DEF CleanupAll
  <1>22. ASSUME NEW i \in Inv, NEW code \in {"zero", "nonzero"},
                QemuExits(i, code)
         PROVE  TypeOK'
    BY <1>22 DEF QemuExits, QemuEnds
  <1>23. CASE KillOnCancel
    BY <1>23 DEF KillOnCancel, QemuEnds
  <1>24. ASSUME NEW i \in Inv, SwtpmExits(i) PROVE TypeOK'
    BY <1>24 DEF SwtpmExits
  <1>25. CASE UNCHANGED vars
    BY <1>25 DEF vars
  <1> QED
    BY <1>1, <1>2, <1>3, <1>4, <1>5, <1>6, <1>7, <1>8, <1>9, <1>10, <1>11,
       <1>12, <1>13, <1>14, <1>15, <1>16, <1>17, <1>18, <1>19, <1>20, <1>21,
       <1>22, <1>23, <1>24, <1>25
       DEF Next, MainStep, RunStep, ChildStep

(***************************************************************************)
(* Type correctness of main.go's, runner.go's and process_manager.go's     *)
(* state, for any number of commands.                                      *)
(***************************************************************************)
THEOREM TypeCorrect == Spec => []TypeOK
  BY TypeInit, TypeStep, PTL DEF Spec

-----------------------------------------------------------------------------
(***************************************************************************)
(* The inductive invariant holds before the first command.                 *)
(***************************************************************************)
LEMMA IndInit == Init => IndInv
  BY TypeInit
     DEF Init, IndInv, ControlInv, ChildInv, FileInv, ReportInv, NoSwtpmLeak,
         NoQemuLeak, OwnPidFile, WriteOrder, GoodBuildIntact, Running

(***************************************************************************)
(* The inductive invariant is kept by main, by each step of Run and by the *)
(* child processes.  Steps that only move the program counter take one     *)
(* leaf; the others show, part by part, what they disturb.                 *)
(***************************************************************************)
LEMMA IndStep == IndInv /\ [Next]_vars => IndInv'
  <1> SUFFICES ASSUME IndInv, [Next]_vars PROVE IndInv'
      OBVIOUS
  <1>0. TypeOK'
    BY TypeStep DEF IndInv
  <1> USE MaxInvAssumption, ConfigsAssumption
      DEF IndInv, TypeOK, Gen, Inv, mainVars, fileVars, procVars, histVars,
          Running, Build, Tagged, At, Goto, Return, ReturnEarly, Before, Over
  <1>1. CASE RefuseConfig
    BY <1>0, <1>1
       DEF RefuseConfig, ControlInv, ChildInv, FileInv, ReportInv,
           NoSwtpmLeak, NoQemuLeak, OwnPidFile, WriteOrder, GoodBuildIntact
  <1>2. ASSUME NEW c \in Configs, Invoke(c) PROVE IndInv'
    <2>1. ControlInv' /\ FileInv' /\ WriteOrder' /\ GoodBuildIntact'
      BY <1>2 DEF Invoke, NewRunner, Config, ControlInv, FileInv, WriteOrder,
               GoodBuildIntact
    <2>2. ChildInv'
      BY <1>2 DEF Invoke, NewRunner, Config, ControlInv, ChildInv, ReportInv
    <2>3. NoSwtpmLeak' /\ NoQemuLeak' /\ OwnPidFile'
      BY <1>2 DEF Invoke, NewRunner, Config, ChildInv, NoSwtpmLeak,
               NoQemuLeak, OwnPidFile
    <2>4. ReportInv'
      BY <1>2 DEF Invoke, NewRunner, Config, ControlInv, ChildInv, FileInv,
               ReportInv
    <2> QED
      BY <1>0, <2>1, <2>2, <2>3, <2>4 DEF IndInv
  <1>3. CASE Signal
    BY <1>0, <1>3
       DEF Signal, ControlInv, ChildInv, FileInv, ReportInv,
           NoSwtpmLeak, NoQemuLeak, OwnPidFile, WriteOrder, GoodBuildIntact
  <1>4. CASE MainExit
    <2>1. ControlInv' /\ ChildInv'
      BY <1>4 DEF MainExit, ControlInv, ChildInv
    <2>2. NoSwtpmLeak' /\ NoQemuLeak' /\ OwnPidFile'
      BY <1>4 DEF MainExit, ChildInv, NoSwtpmLeak,
               NoQemuLeak, OwnPidFile
    <2>3. FileInv' /\ WriteOrder'
      BY <1>4 DEF MainExit, ControlInv, FileInv, WriteOrder
    <2>4. ReportInv' /\ GoodBuildIntact'
      BY <1>4 DEF MainExit, ControlInv, ChildInv, FileInv,
               ReportInv, WriteOrder, GoodBuildIntact
    <2> QED
      BY <1>0, <2>1, <2>2, <2>3, <2>4 DEF IndInv
  <1>5. CASE Crash
    <2>1. ControlInv' /\ FileInv' /\ WriteOrder' /\ GoodBuildIntact'
      BY <1>5 DEF Crash, ControlInv, FileInv, WriteOrder,
               GoodBuildIntact
    <2>2. ChildInv'
      BY <1>5 DEF Crash, ControlInv, ChildInv, ReportInv
    <2>3. NoSwtpmLeak' /\ NoQemuLeak' /\ OwnPidFile'
      BY <1>5 DEF Crash, ChildInv, NoSwtpmLeak,
               NoQemuLeak, OwnPidFile
    <2>4. ReportInv'
      BY <1>5 DEF Crash, ControlInv, ChildInv, FileInv,
               ReportInv
    <2> QED
      BY <1>0, <2>1, <2>2, <2>3, <2>4 DEF IndInv
  <1>6. CASE checkBridgeSetup
    BY <1>0, <1>6
       DEF checkBridgeSetup, ControlInv, ChildInv, FileInv, ReportInv,
           NoSwtpmLeak, NoQemuLeak, OwnPidFile, WriteOrder, GoodBuildIntact
  <1>7. CASE Preflight
    BY <1>0, <1>7
       DEF Preflight, ControlInv, ChildInv, FileInv, ReportInv,
           NoSwtpmLeak, NoQemuLeak, OwnPidFile, WriteOrder, GoodBuildIntact
  <1>8. CASE useTapDevice
    BY <1>0, <1>8
       DEF useTapDevice, ControlInv, ChildInv, FileInv, ReportInv,
           NoSwtpmLeak, NoQemuLeak, OwnPidFile, WriteOrder, GoodBuildIntact
  <1>9. CASE CopyVars
    <2>1. ControlInv' /\ ChildInv'
      BY <1>9 DEF CopyVars, ControlInv, ChildInv
    <2>2. NoSwtpmLeak' /\ NoQemuLeak' /\ OwnPidFile'
      BY <1>9 DEF CopyVars, ChildInv, NoSwtpmLeak,
               NoQemuLeak, OwnPidFile
    <2>3. FileInv' /\ WriteOrder'
      BY <1>9 DEF CopyVars, ControlInv, FileInv, WriteOrder
    <2>4. ReportInv' /\ GoodBuildIntact'
      BY <1>9 DEF CopyVars, ControlInv, ChildInv, FileInv,
               ReportInv, WriteOrder, GoodBuildIntact
    <2> QED
      BY <1>0, <2>1, <2>2, <2>3, <2>4 DEF IndInv
  <1>10. CASE CreateDisk
    <2>1. ControlInv' /\ ChildInv'
      BY <1>10 DEF CreateDisk, ControlInv, ChildInv
    <2>2. NoSwtpmLeak' /\ NoQemuLeak' /\ OwnPidFile'
      BY <1>10 DEF CreateDisk, ChildInv, NoSwtpmLeak,
               NoQemuLeak, OwnPidFile
    <2>3. FileInv' /\ WriteOrder'
      BY <1>10 DEF CreateDisk, ControlInv, FileInv, WriteOrder
    <2>4. ReportInv' /\ GoodBuildIntact'
      BY <1>10 DEF CreateDisk, ControlInv, ChildInv, FileInv,
               ReportInv, WriteOrder, GoodBuildIntact
    <2> QED
      BY <1>0, <2>1, <2>2, <2>3, <2>4 DEF IndInv
  <1>11. CASE setupTPMState
    <2>1. ControlInv' /\ ChildInv'
      BY <1>11 DEF setupTPMState, ControlInv, ChildInv
    <2>2. NoSwtpmLeak' /\ NoQemuLeak' /\ OwnPidFile'
      BY <1>11 DEF setupTPMState, ChildInv, NoSwtpmLeak,
               NoQemuLeak, OwnPidFile
    <2>3. FileInv' /\ WriteOrder'
      BY <1>11 DEF setupTPMState, ControlInv, FileInv, WriteOrder
    <2>4. ReportInv' /\ GoodBuildIntact'
      BY <1>11 DEF setupTPMState, ControlInv, ChildInv, FileInv,
               ReportInv, WriteOrder, GoodBuildIntact
    <2> QED
      BY <1>0, <2>1, <2>2, <2>3, <2>4 DEF IndInv
  <1>12. CASE CheckVars
    BY <1>0, <1>12
       DEF CheckVars, ControlInv, ChildInv, FileInv, ReportInv,
           NoSwtpmLeak, NoQemuLeak, OwnPidFile, WriteOrder, GoodBuildIntact
  <1>13. CASE setupRunArtifacts
    <2>1. ControlInv' /\ ChildInv'
      BY <1>13 DEF setupRunArtifacts, ControlInv, ChildInv
    <2>2. NoSwtpmLeak' /\ NoQemuLeak' /\ OwnPidFile'
      BY <1>13 DEF setupRunArtifacts, ChildInv, NoSwtpmLeak,
               NoQemuLeak, OwnPidFile
    <2>3. FileInv' /\ WriteOrder'
      BY <1>13 DEF setupRunArtifacts, ControlInv, FileInv, WriteOrder
    <2>4. ReportInv' /\ GoodBuildIntact'
      BY <1>13 DEF setupRunArtifacts, ControlInv, ChildInv, FileInv,
               ReportInv, WriteOrder, GoodBuildIntact
    <2> QED
      BY <1>0, <2>1, <2>2, <2>3, <2>4 DEF IndInv
  <1>14. CASE startTPMWithDir
    <2>1. ControlInv' /\ FileInv' /\ WriteOrder' /\ GoodBuildIntact'
      BY <1>14 DEF startTPMWithDir, ControlInv, FileInv, WriteOrder,
               GoodBuildIntact
    <2>2. ChildInv'
      <3>1. CASE UNCHANGED swtpm
        BY <1>14, <3>1 DEF startTPMWithDir, ControlInv, ChildInv
      <3>2. CASE swtpm = {} /\ swtpm' = swtpm \cup {inv}
        BY <1>14, <3>2 DEF startTPMWithDir, ControlInv, ChildInv
      <3> QED
        BY <1>14, <3>1, <3>2 DEF startTPMWithDir
    <2>3. NoSwtpmLeak' /\ NoQemuLeak' /\ OwnPidFile'
      BY <1>14 DEF startTPMWithDir, ChildInv, NoSwtpmLeak,
               NoQemuLeak, OwnPidFile
    <2>4. ReportInv'
      BY <1>14 DEF startTPMWithDir, ControlInv, ChildInv, FileInv,
               ReportInv
    <2> QED
      BY <1>0, <2>1, <2>2, <2>3, <2>4 DEF IndInv
  <1>15. CASE StartQEMU
    <2>1. ControlInv' /\ FileInv' /\ WriteOrder' /\ GoodBuildIntact'
      BY <1>15 DEF StartQEMU, ControlInv, FileInv, WriteOrder,
               GoodBuildIntact
    <2>2. ChildInv'
      BY <1>15 DEF StartQEMU, ControlInv, ChildInv, ReportInv
    <2>3. NoSwtpmLeak' /\ NoQemuLeak' /\ OwnPidFile'
      BY <1>15 DEF StartQEMU, ChildInv, NoSwtpmLeak,
               NoQemuLeak, OwnPidFile
    <2>4. ReportInv'
      BY <1>15 DEF StartQEMU, ControlInv, ChildInv, FileInv,
               ReportInv
    <2> QED
      BY <1>0, <2>1, <2>2, <2>3, <2>4 DEF IndInv
  <1>16. CASE StartQEMUFails
    <2>1. ControlInv' /\ FileInv' /\ WriteOrder' /\ GoodBuildIntact'
      BY <1>16 DEF StartQEMUFails, cleanupPIDFile, ControlInv, FileInv, WriteOrder,
               GoodBuildIntact
    <2>2. ChildInv'
      BY <1>16 DEF StartQEMUFails, cleanupPIDFile, ControlInv, ChildInv, ReportInv
    <2>3. NoSwtpmLeak' /\ NoQemuLeak' /\ OwnPidFile'
      BY <1>16 DEF StartQEMUFails, cleanupPIDFile, ChildInv, NoSwtpmLeak,
               NoQemuLeak, OwnPidFile
    <2>4. ReportInv'
      BY <1>16 DEF StartQEMUFails, cleanupPIDFile, ControlInv, ChildInv, FileInv,
               ReportInv
    <2> QED
      BY <1>0, <2>1, <2>2, <2>3, <2>4 DEF IndInv
  <1>17. CASE ProvisionDone
    BY <1>0, <1>17
       DEF ProvisionDone, ControlInv, ChildInv, FileInv, ReportInv,
           NoSwtpmLeak, NoQemuLeak, OwnPidFile, WriteOrder, GoodBuildIntact
  <1>18. CASE ProvisionTimeout
    BY <1>0, <1>18
       DEF ProvisionTimeout, ControlInv, ChildInv, FileInv, ReportInv,
           NoSwtpmLeak, NoQemuLeak, OwnPidFile, WriteOrder, GoodBuildIntact
  <1>19. CASE ProvisionCancelled
    BY <1>0, <1>19
       DEF ProvisionCancelled, ControlInv, ChildInv, FileInv, ReportInv,
           NoSwtpmLeak, NoQemuLeak, OwnPidFile, WriteOrder, GoodBuildIntact
  <1>20. CASE StopSwtpm
    <2>1. ControlInv' /\ FileInv' /\ WriteOrder' /\ GoodBuildIntact'
      BY <1>20 DEF StopSwtpm, cleanupPIDFile, ControlInv, FileInv, WriteOrder,
               GoodBuildIntact
    <2>2. ChildInv'
      BY <1>20 DEF StopSwtpm, cleanupPIDFile, ControlInv, ChildInv, ReportInv
    <2>3. NoSwtpmLeak' /\ NoQemuLeak' /\ OwnPidFile'
      BY <1>20 DEF StopSwtpm, cleanupPIDFile, ChildInv, NoSwtpmLeak,
               NoQemuLeak, OwnPidFile
    <2>4. ReportInv'
      BY <1>20 DEF StopSwtpm, cleanupPIDFile, ControlInv, ChildInv, FileInv,
               ReportInv
    <2> QED
      BY <1>0, <2>1, <2>2, <2>3, <2>4 DEF IndInv
  <1>21. CASE RunDone
    BY <1>0, <1>21
       DEF RunDone, ControlInv, ChildInv, FileInv, ReportInv,
           NoSwtpmLeak, NoQemuLeak, OwnPidFile, WriteOrder, GoodBuildIntact
  <1>22. CASE CleanupAll
    <2>1. ControlInv' /\ FileInv' /\ WriteOrder' /\ GoodBuildIntact'
      BY <1>22 DEF CleanupAll, cleanupPIDFile, ControlInv, FileInv, WriteOrder,
               GoodBuildIntact
    <2>2. ChildInv'
      BY <1>22 DEF CleanupAll, cleanupPIDFile, ControlInv, ChildInv, ReportInv
    <2>3. NoSwtpmLeak' /\ NoQemuLeak' /\ OwnPidFile'
      BY <1>22 DEF CleanupAll, cleanupPIDFile, ChildInv, NoSwtpmLeak,
               NoQemuLeak, OwnPidFile
    <2>4. ReportInv'
      BY <1>22 DEF CleanupAll, cleanupPIDFile, ControlInv, ChildInv, FileInv,
               ReportInv
    <2> QED
      BY <1>0, <2>1, <2>2, <2>3, <2>4 DEF IndInv
  <1>23. ASSUME NEW i \in Inv, NEW code \in {"zero", "nonzero"},
                QemuExits(i, code)
         PROVE  IndInv'
    <2>1. ControlInv' /\ FileInv' /\ WriteOrder' /\ GoodBuildIntact'
      BY <1>23 DEF QemuExits, QemuEnds, ControlInv, FileInv, WriteOrder,
               GoodBuildIntact
    <2>2. ChildInv'
      BY <1>23 DEF QemuExits, QemuEnds, ControlInv, ChildInv, ReportInv
    <2>3. NoSwtpmLeak' /\ NoQemuLeak' /\ OwnPidFile'
      BY <1>23 DEF QemuExits, QemuEnds, ChildInv, NoSwtpmLeak,
               NoQemuLeak, OwnPidFile
    <2>4. ReportInv'
      BY <1>23 DEF QemuExits, QemuEnds, ControlInv, ChildInv, FileInv,
               ReportInv
    <2> QED
      BY <1>0, <2>1, <2>2, <2>3, <2>4 DEF IndInv
  <1>24. CASE KillOnCancel
    <2>1. ControlInv' /\ FileInv' /\ WriteOrder' /\ GoodBuildIntact'
      BY <1>24 DEF KillOnCancel, QemuEnds, ControlInv, FileInv, WriteOrder,
               GoodBuildIntact
    <2>2. ChildInv'
      BY <1>24 DEF KillOnCancel, QemuEnds, ControlInv, ChildInv, ReportInv
    <2>3. NoSwtpmLeak' /\ NoQemuLeak' /\ OwnPidFile'
      BY <1>24 DEF KillOnCancel, QemuEnds, ChildInv, NoSwtpmLeak,
               NoQemuLeak, OwnPidFile
    <2>4. ReportInv'
      BY <1>24 DEF KillOnCancel, QemuEnds, ControlInv, ChildInv, FileInv,
               ReportInv
    <2> QED
      BY <1>0, <2>1, <2>2, <2>3, <2>4 DEF IndInv
  <1>25. ASSUME NEW i \in Inv, SwtpmExits(i) PROVE IndInv'
    <2>1. ControlInv' /\ FileInv' /\ WriteOrder' /\ GoodBuildIntact'
      BY <1>25 DEF SwtpmExits, ControlInv, FileInv, WriteOrder,
               GoodBuildIntact
    <2>2. ChildInv'
      BY <1>25 DEF SwtpmExits, ControlInv, ChildInv, ReportInv
    <2>3. NoSwtpmLeak' /\ NoQemuLeak' /\ OwnPidFile'
      BY <1>25 DEF SwtpmExits, ChildInv, NoSwtpmLeak,
               NoQemuLeak, OwnPidFile
    <2>4. ReportInv'
      BY <1>25 DEF SwtpmExits, ControlInv, ChildInv, FileInv,
               ReportInv
    <2> QED
      BY <1>0, <2>1, <2>2, <2>3, <2>4 DEF IndInv
  <1>26. CASE UNCHANGED vars
    BY <1>0, <1>26
       DEF vars, ControlInv, ChildInv, FileInv, ReportInv, NoSwtpmLeak,
           NoQemuLeak, OwnPidFile, WriteOrder, GoodBuildIntact
  <1> QED
    BY <1>1, <1>2, <1>3, <1>4, <1>5, <1>6, <1>7, <1>8, <1>9, <1>10, <1>11,
       <1>12, <1>13, <1>14, <1>15, <1>16, <1>17, <1>18, <1>19, <1>20, <1>21,
       <1>22, <1>23, <1>24, <1>25, <1>26
       DEF Next, MainStep, RunStep, ChildStep

(***************************************************************************)
(* The inductive invariant holds throughout.                               *)
(***************************************************************************)
THEOREM Inductive == Spec => []IndInv
  BY IndInit, IndStep, PTL DEF Spec

(***************************************************************************)
(* No error path of Run and no signal leaves a swtpm behind: only a        *)
(* command that died or was given --no-cleanup does.                       *)
(***************************************************************************)
THEOREM SwtpmStopped == Spec => []NoSwtpmLeak
  BY Inductive, PTL DEF IndInv

(***************************************************************************)
(* Only a command that died, or a build that stopped waiting, leaves a     *)
(* QEMU behind.                                                            *)
(***************************************************************************)
THEOREM QemuStopped == Spec => []NoQemuLeak
  BY Inductive, PTL DEF IndInv

(***************************************************************************)
(* cleanupPIDFile never signals the swtpm of another command.              *)
(***************************************************************************)
THEOREM SignalsOwnSwtpm == Spec => []OwnPidFile
  BY Inductive, PTL DEF IndInv

(***************************************************************************)
(* The generations of the artifacts are ordered as runBuildMode writes     *)
(* them, however many builds were cut short.                               *)
(***************************************************************************)
THEOREM ArtifactsOrdered == Spec => []WriteOrder
  BY Inductive, PTL DEF IndInv

(***************************************************************************)
(* Run mode never boots the blank disk setupRunArtifacts may have created. *)
(***************************************************************************)
THEOREM NeverBootsBlankDisk == Spec => []BootsBuiltDisk
  <1>1. IndInv => BootsBuiltDisk
    BY DEF IndInv, FileInv, BootsBuiltDisk
  <1> QED
    BY <1>1, Inductive, PTL

(***************************************************************************)
(* A build reported good stays whole until another build overwrites it.    *)
(***************************************************************************)
THEOREM GoodBuildStays == Spec => []GoodBuildIntact
  BY Inductive, PTL DEF IndInv

(***************************************************************************)
(* An uninterrupted build that exits 0 has provisioned its own artifacts   *)
(* and has left no child.                                                  *)
(***************************************************************************)
THEOREM ExitZeroIsHonest == Spec => ExitZeroMeansBuilt
  <1> DEFINE A == (mainpc = "select" /\ mainpc' = "idle" /\ Build
                     /\ status' = "zero")
                  => /\ qexit = "zero"
                     /\ <<varsFd, diskImg, tpmState>> = <<inv, inv, inv>>
                     /\ inv \notin swtpm \cup qemu
  <1>1. IndInv /\ [Next]_vars => A
    <2> SUFFICES ASSUME IndInv, [Next]_vars,
                        mainpc = "select", mainpc' = "idle", Build,
                        status' = "zero"
                 PROVE  /\ qexit = "zero"
                        /\ varsFd = inv /\ diskImg = inv /\ tpmState = inv
                        /\ inv \notin swtpm /\ inv \notin qemu
      BY Zenon
    <2>1. MainExit
      BY DEF Next, MainStep, RunStep, ChildStep, vars, mainVars, RefuseConfig,
             Invoke, Signal, Crash, checkBridgeSetup, Preflight, useTapDevice, CopyVars,
             CreateDisk, setupTPMState, CheckVars, setupRunArtifacts,
             startTPMWithDir, StartQEMU, StartQEMUFails, ProvisionDone,
             ProvisionTimeout, ProvisionCancelled, StopSwtpm, RunDone,
             CleanupAll, QemuExits, KillOnCancel, QemuEnds, SwtpmExits
    <2>2. result = "ok" /\ pc = "returned"
      BY <2>1 DEF MainExit
    <2> QED
      BY <2>2 DEF IndInv, ControlInv, ReportInv, ChildInv, Running
  <1> QED
    BY <1>1, Inductive, PTL DEF Spec, ExitZeroMeansBuilt
=============================================================================
