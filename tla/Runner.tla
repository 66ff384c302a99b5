------------------------------- MODULE Runner -------------------------------
(***************************************************************************)
(* One work directory and the vmtest commands that are run over it, one    *)
(* after another.  A command (vmtest/cmd/main.go) builds a Runner          *)
(* (runner/runner.go), which in build mode lays down the firmware          *)
(* variables, a blank disk and the TPM state, starts swtpm and QEMU and    *)
(* waits for the provisioning to end; in run mode it boots what an earlier *)
(* build left.  Child processes are stopped by the ProcessManager          *)
(* (runner/process_manager.go), by the context of exec.CommandContext, or  *)
(* not at all.                                                             *)
(*                                                                         *)
(* Commands are numbered; a file's generation is the number of the command *)
(* that wrote it (0: the file does not exist) and a process is named by    *)
(* the number of the command that started it.  A command may die at any    *)
(* step (SIGKILL, a power loss, or a signal where main installs no         *)
(* handler); the files and the children it leaves are what the next        *)
(* command finds.                                                          *)
(***************************************************************************)
EXTENDS Integers

(* Configurations: what main reads from the environment and the flags.     *)
(* Build mode does not look at the output mode, nor run mode at the        *)
(* pristine TPM path.                                                      *)
Config == [mode : {"build", "run"}, output : {"direct", "tagged", "other"},
           noCleanup : {"yes", "no"}, pristine : {"yes", "no"}]

CONSTANTS
  MaxInv,      \* bound: number of commands run over the directory
  Configs      \* the configurations they are given

ASSUME MaxInvAssumption == MaxInv \in Nat
ASSUME ConfigsAssumption == Configs \subseteq Config

VARIABLES
  inv,         \* number of the latest command
  cfg,         \* its configuration
  mainpc,      \* where main is
  pc,          \* where the goroutine that executes Run is
  ctx,         \* r.ctx
  result,      \* what Run returned
  status,      \* exit status of the latest command to end
  varsFd, diskImg, tpmState,   \* generations of vars.fd, the disk, permall
  diskBy,      \* which mode created the disk
  pristine,    \* the shared pristine TPM state
  pidFile,     \* generation of swtpm's pid file: whose pid it holds
  registered,  \* what the ProcessManager holds: pm.pidFiles, pm.processes
  swtpm, qemu, \* the emulators that are alive
  qexit,       \* how the QEMU of the latest command ended
  crashed,     \* history: commands that died without unwinding
  gaveUp,      \* history: builds that stopped waiting for their QEMU
  kept,        \* history: commands given --no-cleanup
  lastGood     \* history: the last build reported good, while it stands

mainVars == <<inv, cfg, mainpc, status>>
fileVars == <<varsFd, diskImg, tpmState, diskBy, pristine>>
procVars == <<pidFile, registered, swtpm, qemu, qexit>>
histVars == <<crashed, gaveUp, kept, lastGood>>
vars == <<mainVars, pc, ctx, result, fileVars, procVars, histVars>>

Inv == 1 .. MaxInv
Gen == 0 .. MaxInv

PC == {"bridge", "preflight", "tap", "vars", "disk", "tpm", "artifacts", "swtpm",
       "qemu", "wait", "unpid", "cleanup", "returned"}

(***************************************************************************)
(* The type of the state.                                                  *)
(***************************************************************************)
TypeOK ==
  /\ inv \in Gen
  /\ cfg \in Config
  /\ mainpc \in {"idle", "direct", "select", "draining"}
  /\ mainpc # "idle" => inv # 0
  /\ pc \in PC
  /\ ctx \in {"live", "cancelled"}
  /\ result \in {"none", "ok", "err"}
  /\ status \in {"none", "zero", "nonzero", "crash"}
  /\ varsFd \in Gen /\ diskImg \in Gen /\ tpmState \in Gen
  /\ diskBy \in {"none", "build", "run"}
  /\ pristine \in {"absent", "partial", "whole"}
  /\ pidFile \in Gen
  /\ registered \subseteq {"swtpm", "qemu"}
  /\ swtpm \subseteq Inv /\ qemu \subseteq Inv
  /\ qexit \in {"none", "zero", "nonzero"}
  /\ crashed \subseteq Inv /\ gaveUp \subseteq Inv /\ kept \subseteq Inv
  /\ lastGood \in Gen

(* The flag defaults; no command has been given yet.                       *)
DefaultConfig ==
  [mode |-> "run", output |-> "direct", noCleanup |-> "no", pristine |-> "no"]

Init ==
  /\ inv = 0
  /\ cfg = DefaultConfig
  /\ mainpc = "idle"
  /\ pc = "returned"
  /\ ctx = "live"
  /\ result = "none"
  /\ status = "none"
  /\ varsFd = 0 /\ diskImg = 0 /\ tpmState = 0
  /\ diskBy = "none"
  /\ pristine = "absent"
  /\ pidFile = 0
  /\ registered = {}
  /\ swtpm = {} /\ qemu = {}
  /\ qexit = "none"
  /\ crashed = {} /\ gaveUp = {} /\ kept = {}
  /\ lastGood = 0

Running == mainpc # "idle"
Build == cfg.mode = "build"
Tagged == cfg.output = "tagged"

-----------------------------------------------------------------------------
(* main: validation, the two ways of calling Run, signals, exit            *)

(* A missing or unresolvable setting ends the command before a Runner      *)
(* exists.                                                                 *)
RefuseConfig ==
  /\ ~Running
  /\ inv < MaxInv
  /\ inv' = inv + 1
  /\ status' = "nonzero"
  /\ UNCHANGED <<cfg, mainpc, pc, ctx, result, fileVars, procVars, histVars>>

(* A fresh context and ProcessManager; Run has not begun.                  *)
NewRunner ==
  /\ ctx' = "live"
  /\ registered' = {}
  /\ pc' = "bridge"
  /\ result' = "none"
  /\ qexit' = "none"

(* main makes a Runner and calls Run itself in direct run mode; otherwise  *)
(* it starts a goroutine for Run and selects on its result and on SIGINT   *)
(* and SIGTERM.                                                            *)
Invoke(c) ==
  /\ ~Running
  /\ inv < MaxInv
  /\ inv' = inv + 1
  /\ cfg' = c
  /\ mainpc' = IF c.mode = "run" /\ c.output = "direct" THEN "direct"
                                                        ELSE "select"
  /\ NewRunner
  /\ kept' = IF c.noCleanup = "yes" THEN kept \cup {inv + 1} ELSE kept
  /\ UNCHANGED <<status, fileVars, pidFile, swtpm, qemu, crashed, gaveUp,
                 lastGood>>

(* Mutant: main forgets to call Cancel.                                    *)
SignalNoCancel ==
  /\ mainpc = "select"
  /\ mainpc' = "draining"
  /\ UNCHANGED <<inv, cfg, status, pc, ctx, result, fileVars, procVars,
                 histVars>>

(* The first signal cancels the runner; main then waits for Run and leaves *)
(* any further signal in the channel.                                      *)
Signal ==
  /\ mainpc = "select"
  /\ mainpc' = "draining"
  /\ ctx' = "cancelled"
  /\ UNCHANGED <<inv, cfg, status, pc, result, fileVars, procVars, histVars>>

(* Mutant: main hands on what Run returned without turning it into a       *)
(* status.                                                                 *)
MainExitRaw ==
  /\ Running
  /\ pc = "returned"
  /\ mainpc' = "idle"
  /\ status' = result
  /\ UNCHANGED <<inv, cfg, pc, ctx, result, fileVars, procVars, histVars>>

(* Run has returned: an interrupted command exits 0 whatever Run said.     *)
MainExit ==
  /\ Running
  /\ pc = "returned"
  /\ mainpc' = "idle"
  /\ status' = IF mainpc = "draining" \/ result = "ok" THEN "zero"
                                                       ELSE "nonzero"
  /\ lastGood' = IF Build /\ mainpc = "select" /\ result = "ok" THEN inv
                                                                ELSE lastGood
  /\ UNCHANGED <<inv, cfg, pc, ctx, result, fileVars, procVars, crashed,
                 gaveUp, kept>>

(* The command dies without unwinding: no deferred CleanupAll.  In direct  *)
(* mode SIGINT and SIGTERM do this too, since main installs no handler; in *)
(* every mode SIGHUP does, which tmux sends when it kills the window of a  *)
(* command that the orchestrator started.                                  *)
Crash ==
  /\ Running
  /\ mainpc' = "idle"
  /\ status' = "crash"
  /\ pc' = "returned"
  /\ crashed' = crashed \cup {inv}
  /\ UNCHANGED <<inv, cfg, ctx, result, fileVars, procVars, gaveUp, kept,
                 lastGood>>

-----------------------------------------------------------------------------
(* The goroutine that executes Run                                         *)

At(p) == Running /\ pc = p

(* Leaving runBuildMode or runRunMode: the deferred CleanupAll runs unless *)
(* --no-cleanup was given.                                                 *)
Return(r) ==
  /\ result' = r
  /\ pc' = IF cfg.noCleanup = "yes" THEN "returned" ELSE "cleanup"

Goto(p) == pc' = p /\ UNCHANGED result

(* The bridge, then the OVMF files and the work directory.  Nothing is     *)
(* deferred yet, so a failure returns at once.                             *)
ReturnEarly == result' = "err" /\ pc' = "returned"

checkBridgeSetup ==
  /\ At("bridge")
  /\ Goto("preflight") \/ ReturnEarly
  /\ UNCHANGED <<mainVars, ctx, fileVars, procVars, histVars>>

Preflight ==
  /\ At("preflight")
  /\ Goto("tap") \/ ReturnEarly
  /\ UNCHANGED <<mainVars, ctx, fileVars, procVars, histVars>>

useTapDevice ==
  /\ At("tap")
  /\ Goto("vars") \/ Return("err")
  /\ UNCHANGED <<mainVars, ctx, fileVars, procVars, histVars>>

(* Build mode copies the firmware variables over the old ones, then checks *)
(* that the ISO exists: the copy stands when the check fails.              *)
CopyVars ==
  /\ At("vars") /\ Build
  /\ \/ varsFd' = inv /\ lastGood' = 0 /\ (Goto("disk") \/ Return("err"))
     \/ UNCHANGED <<varsFd, lastGood>> /\ Return("err")
  /\ UNCHANGED <<mainVars, ctx, diskImg, tpmState, diskBy, pristine,
                 procVars, crashed, gaveUp, kept>>

(* Mutant: the error of qemu-img create is dropped.                        *)
CreateDiskErrorDropped ==
  /\ At("disk")
  /\ Goto("tpm")
  /\ \/ diskImg' = inv /\ diskBy' = "build"
     \/ UNCHANGED <<diskImg, diskBy>>
  /\ UNCHANGED <<mainVars, ctx, varsFd, tpmState, pristine, procVars,
                 histVars>>

(* qemu-img create truncates an existing disk; a failed call may have      *)
(* done so already.                                                        *)
CreateDisk ==
  /\ At("disk")
  /\ \/ diskImg' = inv /\ diskBy' = "build" /\ (Goto("tpm") \/ Return("err"))
     \/ UNCHANGED <<diskImg, diskBy>> /\ Return("err")
  /\ UNCHANGED <<mainVars, ctx, varsFd, tpmState, pristine, procVars,
                 histVars>>

(* The pristine TPM state is created when its permall is missing and is    *)
(* copied; a failed initialisation may leave a permall that the next build *)
(* takes for a whole one.                                                  *)
setupTPMState ==
  /\ At("tpm")
  /\ \/ /\ tpmState' = inv
        /\ Goto("swtpm") \/ Return("err")
        /\ pristine' = IF cfg.pristine = "yes" /\ pristine = "absent"
                       THEN "whole" ELSE pristine
     \/ /\ UNCHANGED tpmState
        /\ Return("err")
        /\ \/ UNCHANGED pristine
           \/ /\ cfg.pristine = "yes" /\ pristine = "absent"
              /\ pristine' \in {"partial", "whole"}
  /\ UNCHANGED <<mainVars, ctx, varsFd, diskImg, diskBy, procVars, histVars>>

(* Mutant: run mode copies the variables when there are none.              *)
CheckVarsCopies ==
  /\ At("vars") /\ ~Build
  /\ varsFd' = IF varsFd = 0 THEN inv ELSE varsFd
  /\ Goto("artifacts")
  /\ UNCHANGED <<mainVars, ctx, diskImg, tpmState, diskBy, pristine, procVars,
                 histVars>>

(* Run mode needs the variables of an earlier build.                       *)
CheckVars ==
  /\ At("vars") /\ ~Build
  /\ IF varsFd = 0 THEN Return("err") ELSE Goto("artifacts")
  /\ UNCHANGED <<mainVars, ctx, fileVars, procVars, histVars>>

(* Mutants: the TPM state is not looked for; the disk is created afresh    *)
(* even where one exists.                                                  *)
setupRunArtifactsNoTPMCheck ==
  /\ At("artifacts")
  /\ \/ diskImg = 0 /\ diskImg' = inv /\ diskBy' = "run"
     \/ diskImg # 0 /\ UNCHANGED <<diskImg, diskBy>>
  /\ Goto("swtpm")
  /\ UNCHANGED <<mainVars, ctx, varsFd, tpmState, pristine, procVars,
                 histVars>>

setupRunArtifactsRecreate ==
  /\ At("artifacts")
  /\ diskImg' = inv /\ diskBy' = "run"
  /\ IF tpmState = 0 THEN Return("err") ELSE Goto("swtpm")
  /\ UNCHANGED <<mainVars, ctx, varsFd, tpmState, pristine, procVars,
                 histVars>>

(* A missing disk is created blank before the TPM state is looked for.     *)
setupRunArtifacts ==
  /\ At("artifacts")
  /\ \/ /\ diskImg = 0
        /\ \/ UNCHANGED <<diskImg, diskBy>> /\ Return("err")
           \/ /\ diskImg' = inv /\ diskBy' = "run"
              /\ Return("err") \/ (tpmState # 0 /\ Goto("swtpm"))
     \/ /\ diskImg # 0
        /\ UNCHANGED <<diskImg, diskBy>>
        /\ IF tpmState = 0 THEN Return("err") ELSE Goto("swtpm")
  /\ UNCHANGED <<mainVars, ctx, varsFd, tpmState, pristine, procVars,
                 histVars>>

(* Mutants: the pid file is never registered; it is registered before the  *)
(* start is known to have worked.                                          *)
startTPMUnregistered ==
  /\ At("swtpm")
  /\ \/ swtpm = {} /\ swtpm' = {inv} /\ pidFile' = inv /\ Goto("qemu")
     \/ UNCHANGED <<swtpm, pidFile>> /\ Return("err")
  /\ UNCHANGED <<mainVars, ctx, fileVars, registered, qemu, qexit, histVars>>

startTPMRegisteredEarly ==
  /\ At("swtpm")
  /\ registered' = registered \cup {"swtpm"}
  /\ \/ swtpm = {} /\ swtpm' = {inv} /\ pidFile' = inv /\ Goto("qemu")
     \/ UNCHANGED <<swtpm, pidFile>> /\ Return("err")
  /\ UNCHANGED <<mainVars, ctx, fileVars, qemu, qexit, histVars>>

(* swtpm locks its state directory, so it does not start beside an orphan  *)
(* of an earlier command; once up it has written its pid file.  Every      *)
(* output mode registers the pid file before QEMU is started.              *)
startTPMWithDir ==
  /\ At("swtpm")
  /\ \/ /\ swtpm = {}
        /\ swtpm' = swtpm \cup {inv}
        /\ pidFile' = inv
        /\ registered' = registered \cup {"swtpm"}
        /\ Goto("qemu")
     \/ UNCHANGED <<swtpm, pidFile, registered>> /\ Return("err")
  /\ UNCHANGED <<mainVars, ctx, fileVars, qemu, qexit, histVars>>

(* cleanupPIDFile: SIGTERM, 500 ms, SIGKILL to the pid in the file, if     *)
(* there is one, and the file is removed.                                  *)
cleanupPIDFile ==
  /\ swtpm' = swtpm \ {pidFile}
  /\ pidFile' = 0

(* exec refuses to start a command whose context is done.  Only run mode   *)
(* hands QEMU to the ProcessManager.                                       *)
StartQEMU ==
  /\ At("qemu")
  /\ ctx = "live"
  /\ qemu' = qemu \cup {inv}
  /\ registered' = IF Build THEN registered ELSE registered \cup {"qemu"}
  /\ Goto("wait")
  /\ UNCHANGED <<mainVars, ctx, fileVars, swtpm, pidFile, qexit, histVars>>

StartQEMUFails ==
  /\ At("qemu")
  /\ Return("err")
  /\ IF Build \/ Tagged THEN UNCHANGED <<swtpm, pidFile>> ELSE cleanupPIDFile
  /\ UNCHANGED <<mainVars, ctx, fileVars, registered, qemu, qexit, histVars>>

(* Mutant: the exit status of QEMU is not looked at.                       *)
ProvisionDoneAnyStatus ==
  /\ At("wait") /\ Build
  /\ qexit # "none"
  /\ Goto("unpid")
  /\ UNCHANGED <<mainVars, ctx, fileVars, procVars, histVars>>

(* Mutant: the timer counts only once the context is done.                 *)
ProvisionTimeoutOnCancel ==
  /\ At("wait") /\ Build
  /\ ctx = "cancelled"
  /\ Return("err")
  /\ gaveUp' = gaveUp \cup {inv}
  /\ UNCHANGED <<mainVars, ctx, fileVars, procVars, crashed, kept, lastGood>>

(* Build mode: cmd.Wait returned in time.                                  *)
ProvisionDone ==
  /\ At("wait") /\ Build
  /\ qexit # "none"
  /\ IF qexit = "zero" THEN Goto("unpid") ELSE Return("err")
  /\ UNCHANGED <<mainVars, ctx, fileVars, procVars, histVars>>

(* Build mode: the 20 minutes are over, or the context is done.  QEMU gets *)
(* a SIGTERM and nobody waits for it.                                      *)
ProvisionTimeout ==
  /\ At("wait") /\ Build
  /\ Return("err")
  /\ gaveUp' = gaveUp \cup {inv}
  /\ UNCHANGED <<mainVars, ctx, fileVars, procVars, crashed, kept, lastGood>>

ProvisionCancelled ==
  /\ At("wait") /\ Build
  /\ ctx = "cancelled"
  /\ Return("err")
  /\ gaveUp' = gaveUp \cup {inv}
  /\ UNCHANGED <<mainVars, ctx, fileVars, procVars, crashed, kept, lastGood>>

(* Build mode stops swtpm itself before it reports the artifacts.          *)
StopSwtpm ==
  /\ At("unpid")
  /\ cleanupPIDFile
  /\ Return("ok")
  /\ UNCHANGED <<mainVars, ctx, fileVars, registered, qemu, qexit, histVars>>

(* Mutant: tagged mode goes on without waiting for QEMU.                   *)
RunDoneNoWait ==
  /\ At("wait") /\ ~Build
  /\ Tagged \/ qexit # "none"
  /\ Return(IF Tagged \/ qexit = "zero" THEN "ok" ELSE "err")
  /\ UNCHANGED <<mainVars, ctx, fileVars, procVars, histVars>>

(* Run mode waits for QEMU; tagged mode drains its output first and        *)
(* ignores its exit status.                                                *)
RunDone ==
  /\ At("wait") /\ ~Build
  /\ qexit # "none"
  /\ Return(IF Tagged \/ qexit = "zero" THEN "ok" ELSE "err")
  /\ UNCHANGED <<mainVars, ctx, fileVars, procVars, histVars>>

(* The deferred clean-up: every registered pid file, then every registered *)
(* process.                                                                *)
CleanupAll ==
  /\ At("cleanup")
  /\ pc' = "returned"
  /\ IF "swtpm" \in registered THEN cleanupPIDFile
                               ELSE UNCHANGED <<swtpm, pidFile>>
  /\ qemu' = IF "qemu" \in registered THEN qemu \ {inv} ELSE qemu
  /\ UNCHANGED <<mainVars, ctx, result, fileVars, registered, qexit, histVars>>

-----------------------------------------------------------------------------
(* The child processes, and exec's goroutine that watches the context      *)

QemuEnds(i, code) ==
  /\ qemu' = qemu \ {i}
  /\ qexit' = IF i = inv /\ Running THEN code ELSE qexit
  /\ UNCHANGED <<mainVars, pc, ctx, result, fileVars, pidFile, registered,
                 swtpm, histVars>>

(* The guest powers off, QEMU fails, or it obeys a SIGTERM.                *)
QemuExits(i, code) == i \in qemu /\ QemuEnds(i, code)

(* exec.CommandContext kills the process once its context is done, as long *)
(* as the command itself is alive to do it.                                *)
KillOnCancel ==
  /\ Running /\ ctx = "cancelled"
  /\ inv \in qemu
  /\ QemuEnds(inv, "nonzero")

(* swtpm ends by itself; it may or may not get to remove its pid file.     *)
SwtpmExits(i) ==
  /\ i \in swtpm
  /\ swtpm' = swtpm \ {i}
  /\ pidFile' \in {pidFile, IF pidFile = i THEN 0 ELSE pidFile}
  /\ UNCHANGED <<mainVars, pc, ctx, result, fileVars, registered, qemu, qexit,
                 histVars>>

-----------------------------------------------------------------------------
RunStep ==
  \/ checkBridgeSetup \/ Preflight \/ useTapDevice
  \/ CopyVars \/ CreateDisk \/ setupTPMState
  \/ CheckVars \/ setupRunArtifacts
  \/ startTPMWithDir \/ StartQEMU \/ StartQEMUFails
  \/ ProvisionDone \/ ProvisionTimeout \/ ProvisionCancelled \/ StopSwtpm
  \/ RunDone
  \/ CleanupAll

MainStep ==
  \/ RefuseConfig
  \/ \E c \in Configs : Invoke(c)
  \/ Signal
  \/ MainExit
  \/ Crash

ChildStep ==
  \/ \E i \in Inv, code \in {"zero", "nonzero"} : QemuExits(i, code)
  \/ KillOnCancel
  \/ \E i \in Inv : SwtpmExits(i)

Next == MainStep \/ RunStep \/ ChildStep

Spec == Init /\ [][Next]_vars

(* The Go scheduler runs every goroutine that can move; the helpers that   *)
(* Run calls return; the 20 minute timer fires.  Nothing obliges QEMU, a   *)
(* user or the machine to do anything.                                     *)
FairSpec == Spec /\ WF_vars(RunStep) /\ WF_vars(MainExit) /\ WF_vars(KillOnCancel)

-----------------------------------------------------------------------------
(* Properties                                                              *)

(***************************************************************************)
(* A swtpm outlives the command that started it only if that command died  *)
(* without unwinding or was told --no-cleanup: on every error path and on  *)
(* every interleaving with a signal, cleanupPIDFile reaches it.            *)
(***************************************************************************)
NoSwtpmLeak ==
  \A i \in swtpm : (Running /\ i = inv) \/ i \in crashed \cup kept

(***************************************************************************)
(* A QEMU outlives its command only if the command died without unwinding  *)
(* or was a build that stopped waiting for it (runner.go:265-270).  Even   *)
(* --no-cleanup leaves no QEMU behind: both modes wait for it.             *)
(***************************************************************************)
NoQemuLeak ==
  \A i \in qemu : (Running /\ i = inv) \/ i \in crashed \cup gaveUp

(***************************************************************************)
(* The pid that a clean-up signals is that of the command's own swtpm,     *)
(* never that of an orphan or a stale file of an earlier command: the file *)
(* is registered only after StartSwtpm has rewritten it.                   *)
(***************************************************************************)
OwnPidFile ==
  Running /\ "swtpm" \in registered => pidFile \in {0, inv}

(***************************************************************************)
(* Once TPM state exists, the TPM state is no newer than the disk and the  *)
(* disk no newer than the firmware variables, wherever builds were cut     *)
(* short: runBuildMode writes them in that order.                          *)
(***************************************************************************)
WriteOrder ==
  tpmState # 0 => tpmState <= diskImg /\ diskImg <= varsFd

(***************************************************************************)
(* Run mode creates a blank disk when none is there, before it knows that  *)
(* a build ever ran.  It still never starts the emulators over such a      *)
(* disk, because TPM state is only ever written after a build's disk.      *)
(***************************************************************************)
BootsBuiltDisk ==
  Running /\ ~Build /\ pc \in {"swtpm", "qemu", "wait"}
    => diskBy = "build" /\ varsFd # 0 /\ tpmState # 0

(***************************************************************************)
(* From the moment a build was reported good until another build starts to *)
(* overwrite it, the work directory holds exactly that build's firmware    *)
(* variables, disk and TPM state, whatever else is run, refused or killed. *)
(***************************************************************************)
GoodBuildIntact ==
  lastGood # 0 => /\ varsFd = lastGood
                  /\ diskImg = lastGood
                  /\ tpmState = lastGood
                  /\ diskBy = "build"

(***************************************************************************)
(* A build that was not interrupted exits 0 only when its own QEMU ended   *)
(* with status 0 over artifacts that are all of this build, and its swtpm  *)
(* is gone.                                                                *)
(***************************************************************************)
ExitZeroMeansBuilt ==
  [][ (mainpc = "select" /\ mainpc' = "idle" /\ Build /\ status' = "zero")
        => /\ qexit = "zero"
           /\ <<varsFd, diskImg, tpmState>> = <<inv, inv, inv>>
           /\ inv \notin swtpm \cup qemu ]_vars

(***************************************************************************)
(* The first SIGINT or SIGTERM that main receives ends the command, at     *)
(* whatever step Run is: the wait for Run's result never blocks for good.  *)
(***************************************************************************)
SignalStopsRunner == mainpc = "draining" ~> mainpc = "idle"

(***************************************************************************)
(* A build ends although QEMU may hang and nobody interrupts it.           *)
(***************************************************************************)
BuildEnds == (Running /\ Build) ~> ~Running

(***************************************************************************)
(* What process_manager.go:21 says: the ProcessManager cleans up every     *)
(* process that was spawned, so a command that unwound with clean-up on    *)
(* leaves none.                                                            *)
(***************************************************************************)
AllSpawnedProcessesCleaned ==
  \A i \in swtpm \cup qemu : (Running /\ i = inv) \/ i \in crashed \cup kept
=============================================================================
