# rules_vmtest: TLA+ models, checks and proofs

rules_vmtest boots virtual machines for tests and for development: a Go library
that tests use to drive a guest, a runner that provisions and boots VMs from a
work directory, a marker-scanning test runner, an orchestrator that puts several
VMs in one tmux session, and the Bazel rules that tie them together. What makes
it hard is not data but control: emulators that outlive the process that started
them, files left half-way by an interrupted command, retry loops against a guest
that changes while it is being asked, cleanups that depend on their order.

## 1. Inventory

| Component | Source | State | Operations |
|---|---|---|---|
| runner | `runner/runner.go`, `network.go`, `tpm.go`, `utils.go` | a work directory (`vars.fd`, disk, TPM state, swtpm pid file), a shared pristine TPM directory, a context | `Run` in build mode and in run mode, `Cancel` |
| process manager | `runner/process_manager.go` | registered pid files and processes | `AddPIDFile`, `AddProcess`, `cleanupPIDFile`, `CleanupAll` |
| output streamer | `runner/process_manager.go` | reader goroutines and a WaitGroup | `AttachTagged`, `AttachFilter`, `MatchSync`, `Wait` |
| QEMU command line | `runner/qemu.go`, `config.go` | none | `buildQEMUArgs` |
| vmtest command | `vmtest/cmd/main.go` | flags, signal channel, result channel | validate, call `Run` (direct or supervised), signal, exit |
| machine: lifecycle | `machine/machine.go` | VM, agent connection, serial logger, the test's cleanup stack | `New`, `DumpOnFailure`, the cleanups |
| machine: calls | `machine/machine.go` | none between calls | 8 retry loops (`WaitUntilSucceeds`, `WaitForUnit`, ...), the single questions (`Succeed`, `ReadFile`, ...) |
| machine: options | `machine/machine.go` | none | options from `VMTEST_*` variables, `macFromTap` |
| test runner | `vmtest/cmd/testrunner/main.go` | context, signal channel, VM | boot, scan for a marker, exit |
| orchestrator | `orchestrator/main.go` | a tmux session shared by all orchestrators of a user | ensure windows, run in the foreground, kill windows, attach |
| bridge scripts | `scripts/*.sh` | a bridge and its TAP devices | set up, tear down |
| Bazel rules | `vmtest/*.bzl` | none | attributes to command lines and environments |

How they interact. The vmtest command owns a runner; the runner starts swtpm (a
daemon that is known only through its pid file) and QEMU (a child, started with
`exec.CommandContext`), gives *some* of them to the process manager, and one
command communicates with the next only through the work directory and through
the children it failed to stop. The orchestrator starts vmtest commands as tmux
windows. A Go test uses `machine`, which uses the `vm` library (another
repository: VM, serial console, agent connection) and Go's `testing`.

What is hard, and which properties it calls for:

* *runner, process manager, command* - any step may fail, a signal may arrive at
  any step, the command may die at any step, the emulators may end at any time,
  and the next command meets what is left. Correct means: no emulator is left
  except where the code means to leave it; no foreign process is signalled; the
  artifacts on disk never mix builds in a way run mode would boot; exit status 0
  is honest; a signal or the 20 minute limit ends the command.
* *machine: calls* - the guest changes between being asked and answering, a
  question may fail or be answered late. Correct means: what a call returns on
  was true; a condition that became true and stayed is seen; the time a call
  takes is bounded where the code bounds it.
* *machine: lifecycle* - cleanups of several machines and dumps interleave with
  logging goroutines, and `New` can fail between two of its steps. Correct
  means: no VM outlives the test, dumps reach an open agent, loggers are joined,
  the cleanups end.
* *test runner* - time limit, signal, end of the console and the marker race.
* *orchestrator* - several orchestrators share one session by name, and decide
  on a list of windows read earlier.
  Correct means: in turn they neither double nor forget a window; a missing
  dependency is never silent; a clean-up by name hits what it should; no phase
  gets stuck.
* *output streamer* - reads cut the stream anywhere, and `cmd.Wait` closes pipes
  that are still being read. Correct means: what is printed is what was written;
  tagged mode loses nothing; neither QEMU nor `Run` blocks the other.
* *QEMU command line* - ids, PCI slots and boot indexes are spread over several
  branches and meet only inside QEMU. *Machine options* - each option overrides
  the one before, from three sources.

`PROJECT.json` lists every hazard at the line where it bites, with the
properties that cover it, or why none does.

## 2. Modules

```
ImageStore <-- RunnerRefinement --> Runner <-- RunnerProofs
                 ^ MCRunner                      ^ RunnerRefinementProofs
AgentCalls       <-- MCAgentCalls, AgentCallsProofs
MachineLifecycle <-- MCMachineLifecycle, MachineLifecycleProofs
TestRunner       <-- MCTestRunner, TestRunnerProofs
Orchestrator     <-- MCOrchestrator, OrchestratorProofs
OutputStreamer   <-- MCOutputStreamer, OutputStreamerProofs
QemuArgs, MachineOptions <-- MCVMConfig <-- VMConfigProofs
```

### Runner

One work directory and the vmtest commands run over it, one after another. It
composes `main.go`, `runner.go` and `process_manager.go`, whose interaction is
the point. `main` is `mainpc` (`RefuseConfig`, `Invoke`, `Signal`, `MainExit`,
`Crash`); the goroutine that executes `Run` is `pc`, one value for each stretch
of `runBuildMode` and `runRunMode` between two effects another actor can see,
and one action per stretch. A step that can fail has a failing disjunct, which
goes through `Return`: the result is recorded, and the deferred `CleanupAll`
runs unless `--no-cleanup` was given. The children (`swtpm`, `qemu`) end by
themselves at any time; `KillOnCancel` is exec's watcher.

Data is reduced to *generations*: commands are numbered, and a file's generation
is the number of the command that wrote it (0: no file). A failing step may have
replaced its file already. What the file holds, the command line of QEMU, and
output are left out. `registered` is what the process manager holds.

Taken from outside `src/`, from how it is used: swtpm locks its state directory,
so it does not start beside an orphan, and removes only its own pid file; exec
does not start a command whose context is done and kills on cancellation.

Assumed: one command at a time over a work directory (nothing in the code
enforces it), and pids are not reused. `cleanupPIDFile` sends SIGKILL 500 ms
after SIGTERM without looking (`process_manager.go:57`); with pid reuse it could
hit a stranger, which this model cannot show. That an orphaned QEMU keeps
writing to a disk that a later command uses is left to QEMU's image locks.

### ImageStore and RunnerRefinement

`ImageStore` is what the runner promises about a work directory, without files,
processes or program counters: an image that is absent, partial, mixed, laid
down or good, and one user. Only a build changes it; a build that has begun to
overwrite it spoils it until a whole one has been laid down; only that build can
publish it; a run enters only when no part is missing and leaves it as it is. It
does not promise that a run boots a *good* image: after an interrupted build run
mode boots a mixture of two builds if all parts are there.

`RunnerRefinement` maps the generations of `vars.fd`, disk and TPM state to the
image, and the mode, the program counter and what the build has written to the
user. The three writes of a build are `Overwrite`, `Overwrite`, `Lay`; a good
exit is `Publish`; every failure, signal and crash is `Leave`.

### AgentCalls

One call on a Machine. A method is a record: what it asks, which answers it
accepts, which end the test at once, and whether it loops; an error is an answer
like any other, so that a method that confused one with a closed port would
return on it. The retry loops share one control structure (`Attempt`, `Deliver`,
`Wake`, `GiveUp`), which is the one every loop in `machine.go` spells out. The
guest changes its answer at any time; the agent samples it at some moment;
`ServeFails` is a broken call; `ContextExpires` is Execute's 120 seconds, which
may also cut off an answer that is on its way. Only calls that go through
`Execute` have a limit in the code; the others may wait for ever.

Time is discrete; the test goroutine's own steps take none. `Interval` is at
least 1: a loop with a pause of zero would spin without time passing.

### MachineLifecycle

One test, up to `N` machines and `MaxDumps` calls of `DumpOnFailure`: the stack
of cleanups (last in, first out), the VMs, agents, serial channels and logging
goroutines. `Kill` returns after the serial reader has closed its channel, as
the comment at `machine.go:160` says; what is in the channel is still to be
logged. `Die` is a test binary that is killed: no cleanups run.

### TestRunner

The marker-scanning runner: boot, serial console, scan, deferred kill; a signal
channel of capacity one, a handler goroutine that takes one signal, and the
time limit, both of which end through the same context. `vm.Start` and
`ScanForMarker` are external.

### Orchestrator

Orchestrators over one tmux session. Every call of tmux is a step, and so is
each pause of 100 ms, so that others move between `has-session`, `new-session`,
`list-windows`, `new-window`, the check after the pause and `kill-window`. Any
tmux call that creates may fail; `list-windows` and `kill-window` are taken to fail
only when what they name is gone (the code treats every failure of theirs like
that, `main.go:275-278, 292`); a window ends when its program does, at any
time; an orchestrator may be interrupted at any step and leaves its windows.
`reported` are the jobs it printed an error about; `lost` (history) the names of
its list whose windows ended since it started; `overlap` (history) says whether
two were ever setting up at the same time.

tmux is external: the session exists while it has a window; a target is the one
window of that name or, if there is none, the one whose name begins with it
(`Longer`); two candidates are an error. The session itself is taken to be found
by its full name, although `has-session -t` takes a prefix of another session's
name too.

### OutputStreamer

QEMU, two pipes, their readers and `Run`. Build mode starts Detached readers and
calls `cmd.Wait`, which closes the pipes once QEMU has exited, whatever is still
in them; tagged mode joins its Monitored readers first. A read takes any part of
what the pipe holds. What is buffered and printed is kept as positions in the
stream, so that loss, order and duplication can be told. `AttachTagged` is what
`Run` uses; `AttachFilter` and `MatchSync` have no caller in the repository and
are given to one stream in tagged mode. An escape sequence is `esc` and one more
byte (`vm.ProcessEscapeSequences` is external).

### QemuArgs and MachineOptions

`QemuArgs` is `buildQEMUArgs`, `defaultMachineType` and `DefaultToolPaths`, with
an argument reduced to the id it defines, the ids it needs, its PCI slot and its
boot index; QEMU (external) takes the back ends and then the devices in order
and gives a device without a slot the lowest free one. A PC may or may not have
a graphics card in slot 1, so both are tried.

A configuration (`conf` once QEMU is started with it) has a host, a machine type
that is passed on whole, board included (the boards q35 and virt; accelerators:
none, one, or one and a fallback), an emulator or none, and whether there is an
ISO and a second TAP device. Board, emulator, accelerator and CPU model are
chosen independently of one another in the code, and QEMU compares them: it
refuses (`Refuses`) a board its emulator does not have, `tpm-tis` on a board
without an ISA bus, accelerators of which none works on this host, and the CPU
model `host` under TCG. `Fits` is the same in terms of the configuration alone.

`MachineOptions` is what `New` collects: the test's options in order (a bridge
takes a TAP device nobody else has), then the environment, whose options go
first, and `vm.Start` (external) applying them one by one. TAP devices are names;
`TapNumber` is what `Atoi` finds after the last "tap" of a name, if anything, and
`card` the last device a machine took with the address made from it. A number
with a sign ("tap-1") is left out: the scripts make none. `MCVMConfig` composes
the two modules as independent parts.

## 3. Runs

| Run | Shows |
|---|---|
| `runner` (3 commands, all configurations, 1.9 million states) | which children may be left behind and by whom (`NoSwtpmLeak`, `NoQemuLeak`), that only the command's own swtpm is signalled (`OwnPidFile`), the order of the artifacts' generations after any history of failures (`WriteOrder`), that the blank disk run mode may create is never booted (`BootsBuiltDisk`), that a good build stays whole (`GoodBuildIntact`), that exit 0 of an uninterrupted build is honest (`ExitZeroMeansBuilt`), that the whole implements the image store (`ImplementsImageStore`) |
| `runner_live` (2 commands) | a signal ends a supervised command (`SignalStopsRunner`); a build ends though QEMU hangs (`BuildEnds`) |
| `runner_spawned` (1 command; violation) | a build that gives up leaves QEMU alive, against `process_manager.go:21` |
| `agent_calls` (timeout 7, pause 2, Execute 3) | `ReturnWitnessed`, `BoundedOvershoot`, `StableIsSeen`; `ExecCallEnds`, `OnlyHangsInAgent` |
| `lifecycle` (2 machines, 2 dumps, 2 lines) | `VMsStopped`, `FailureIsDumped`, `LoggersJoined`; the cleanups end unless a dump hangs in a question that has no limit (`CleanupsEnd`) |
| `lifecycle_log` (violation) | `New` that cannot connect lets the test finish with lines still to be logged, against `machine.go:137-139` |
| `lifecycle_dmesg` (violation) | `DumpDmesg()` without patterns dumps nothing, against `machine.go:552` |
| `testrunner` (2 signals) | `PassIsEarned`; the time limit and the first signal end the run (`EndsWhenTold`) |
| `orchestrator` (three: a build with two dependencies, a cluster that shares one of them and has a node whose name begins like the other, a command without jobs) | orchestrators that set up in turn never double a window or lose the race for the session (`InTurnUnique`) and, when they end with their command, leave none of their own (`InTurnClean`); also when they overlap, a dependency that is missing was reported or ended later (`EnsuredOrTold`), a clean-up hits a window of another name only by prefix and only when its own is gone (`KillScope`), and set-up and clean-up end (`PhasesEnd`) |
| `orchestrator_needs` (violation) | the build starts without a dependency it needs running, against `rules.bzl:72` |
| `output_streamer` (5 and 1 bytes) | `OutputFaithful`, `LinesWhole` in both modes, `DrainedBeforeReturn` in tagged mode; `WriterMovesOn`, `RunReturns` |
| `vm_config` (all hosts, machine types, emulators and storage layouts; two machines, 36 environments, 4 TAP devices) | QEMU starts with exactly the configurations that fit (`QemuAccepts`), who decides on the network (`NetworkDecided`), when two machines share an address and when an address is well formed (`MacsDistinct`) |

Why the bounds are enough. `MaxInv = 3`: the longest story is a good build, a
build or run that is cut short over it, and a command that meets what both left;
liveness concerns one command and what it inherits, so two. For the safety
properties the proofs remove the bound. Timeout 7 with pause 2 and limit 3: the
deadline falls inside an attempt as well as inside a pause, several attempts fit
before it, and one attempt is longer than a pause. `MaxCall = 5` only bounds how
long an unlimited question is followed; every later moment is like it. Two
machines and two dumps give every order of closing and dumping; two lines, one
in hand and one behind it. Two signals: one taken and one left in the channel.
Three orchestrators: two that share a job and a name that is a prefix, and one
whose job list is empty after `--run`. Five bytes on one stream with a pipe of
three and limits of one: two lines, an escape sequence cut by a read, a line
over the limit and a pipe that is full all fit; the second stream needs one byte
to be late. The four TAP devices are numbered 0, 1, 256 and not at all: a
neighbour, the first number two digits cannot hold, and two names with the same
index; the configurations of QEMU are all there are.

Deadlock checking is off in all runs because each of these programs ends: the
last command has exited, the call has returned, the test is over.

Fairness. `Runner`: `Run`'s goroutine, `main`'s wait and exec's watcher are
scheduled, the helpers `Run` calls return, and the 20 minute timer fires; no
fairness for QEMU, swtpm, signals or crashes. `AgentCalls`: the test goroutine
and the clock; none for the guest or its agent. `MachineLifecycle`: the loggers
and the cleanups, but a dump only when all it asks goes through `Execute` and so
has a limit (`DumpLimited`); the questions of `machine.go:601, 613, 622, 640` have
none, and a test that hangs in them is what `CleanupsEnd` excuses (`DumpHangs`).
None for the VM, nor for the body of the test. `TestRunner`:
`main` and the signal handler; none for the guest or the time limit.
`Orchestrator`: each orchestrator's own steps (a call of tmux returns); none for
the foreground command, the user, the windows, or starting another one.
`OutputStreamer`: the readers and `Run`; none for QEMU, neither to write nor to
exit.

Every property has a mutant: a changed form of one definition, as a plausible
bug in that code would have it, under which TLC finds the property violated.

## 4. Findings

1. `runner.go:265-270` - at the 20 minute limit, or interrupted, build mode
   sends QEMU one SIGTERM and returns. QEMU was never given to the process
   manager, which is said to handle "all spawned processes".
2. `orchestrator/main.go:134-139, 145-149` - a dependency that could not be
   started is reported on stderr and the build is run without it; the rules ask
   for "Dependencies that need to be running during build".
3. `machine.go:152-155` - when the agent cannot be connected, nobody waits for
   the serial logger; `t.Logf` after the end of a test panics.
4. `machine.go:555, 608` - `DumpDmesg()` stores a nil list of filters, which
   `DumpOnFailure` takes for "not asked for", while the default dump is off.

What the runs show that nothing in the repository contradicts:

* a build interrupted by a signal exits 0 (`main.go:196-199` discards the
  result), hence the condition in `ExitZeroMeansBuilt`; direct run mode installs
  no handler, so a SIGTERM there leaves QEMU and swtpm (a `Crash`). So does, in
  every mode, the SIGHUP that a killed tmux window gives a vmtest command:
  `main.go:183` handles SIGINT and SIGTERM only;
* a retry loop looks at its timeout only between attempts; `BoundedOvershoot` is
  what holds: one command and one pause more, and only through `Execute`;
* orchestrators that set up at the same time may create a window twice, and two
  of one name can no longer be killed by it: hence `InTurn`;
* the clean-up after node1 ended by itself kills node10, if that is the only
  name that begins so: hence the second case of `KillScope`;
* in build mode the end of QEMU's output may be lost, since `cmd.Wait` closes
  the pipes: hence the condition in `DrainedBeforeReturn`;
* a reader that gave up on a long line lets QEMU block on its pipe: hence the
  condition in `WriterMovesOn`;
* a test runner that fails exits with `os.Exit` past its deferred kill and
  leaves the VM: `PassIsEarned` speaks of passing runs only;
* a dump over a guest that no longer answers keeps the test from ending, its VMs
  up: hence `DumpHangs`.

These are hazards without a property in `PROJECT.json` where the property's
condition leaves them out.

Two claims hold under conditions, which the properties state exactly:

* "Each VM gets a unique locally-administered MAC" (`machine.go:37`) holds on
  bridges whose devices have different numbers below 256. Names without a number
  share index 0, and from 256 on `%02x` gives three digits and no address;
  `setup-bridge.sh` makes as many devices as it is told. See `MacsDistinct`.
* "Uses host-aware defaults" (`qemu.go:13`): the defaults start on amd64 hosts
  with hardware acceleration. On arm64 hosts the board is virt, which has no ISA
  bus for the `tpm-tis` of `qemu.go:88`; no machine type starts there but q35 with
  TCG and an explicit `qemu-system-x86_64`. A machine type without `accel=`
  starts nowhere, since QEMU then uses TCG and `qemu.go:49` asks for the CPU model
  `host`. See `Fits` and `QemuAccepts`.

Met while reading: `VMTEST_TPM=true` without both swtpm paths, or one OVMF file
without the other, is ignored silently (`machine.go:864, 890`); `qemu.go:13-14`
says that the Bazel rules set `MachineType`, which `vmtest/cmd/main.go` never
does; `New` takes a TAP device before it reads the environment, and nothing in
`machine.go` gives it back when that fails.

## 5. Proofs

`RunnerProofs` proves type correctness and all seven safety properties of
`Runner` for every number of commands and every set of configurations, from
`MaxInvAssumption` (a natural number) and `ConfigsAssumption` (they are
configurations). None of the properties is inductive: `NoSwtpmLeak` says nothing
of how the running command's swtpm would be found, and the file properties say
nothing of how far the running build got. `IndInv` adds what each program point
knows:

* `ControlInv` - which mode owns a program point, when a result exists, that
  `--no-cleanup` is on record;
* `ChildInv` - a live swtpm of the running command is named by a registered pid
  file, and after `Run` returned only with `--no-cleanup`; a live QEMU is being
  waited for or has been given up;
* `FileInv` - what a build has written when it is at a given point, and that TPM
  state exists only over a built disk (this is what `BootsBuiltDisk` rests on);
* `ReportInv` - what is known when a build is about to report success.

`IndInit` and `IndStep` show it inductive, one step per action; the theorems
follow from `Inductive`. `ExitZeroIsHonest` is an action property derived from
the same invariant.

`RunnerRefinementProofs` proves `ImplementsImageStore` for every number of
commands. `IndInv` does not say that a build has *not yet* written a file, which
is what the mapping tells its user by; `FreshInv` adds it, and `StoreStep` goes
through the actions: those that write or report are steps of the store, the
others leave image and user alone or make the user leave.

`AgentCallsProofs` proves type correctness, `ReturnWitnessed`,
`BoundedOvershoot` and `StableIsSeen` for all durations
(`TimeAssumption`), a timeout of zero included. `ClockInv` places the clock
between a question and its limit and between the ends of a pause; `AnswerInv`
ties an answer to the states of the guest since the question; `StableInv` is the
argument of `StableIsSeen`: while the condition holds, the question in flight is
older than the condition or will be accepted, so the loop is back at its check
within one attempt and one pause.

`MachineLifecycleProofs` proves type correctness, `VMsStopped`,
`FailureIsDumped` and `LoggersJoined` for every number of machines, dumps and
serial lines (`BoundsAssumption`) and all sets of options (`OptionsAssumption`).
The properties speak of a test that is over; the invariant says what the cleanup
stack looks like until then (`Discipline`, empty of meaning for a test binary
that was killed):

* `StackInv` - one close function for a machine, below all dumps of it; every
  machine on the stack has an open agent, but for the one being closed. This is
  why a dump never asks a closed agent;
* `OwnerInv` - a VM that is up, and an agent that is open, has a close function
  on the stack, or is the one `New` is still connecting to;
* `NewInv`, `LoggerInv` - machines not made yet have nothing; a close function
  ends only after the logger;
* `DumpInv` - the dumps that asked and the ones on the stack (a cardinality) add
  up to those registered.

`TestRunnerProofs` proves type correctness and `PassIsEarned` for every number
of signals; the invariant adds that the deferred kill is reached only with the
marker printed, and that a status exists exactly after the exit.

`OrchestratorProofs` proves type correctness, `InTurnUnique`, `InTurnClean`,
`EnsuredOrTold` and the action property `KillScope` for every set of
orchestrators, every job list and every relation of prefixes between names
(`CfgAssumption`). `LoopInv` says which program points have the whole
list before them; `CoverInv` that the jobs an orchestrator is through with have
a window, were reported or were lost, and that what it listed is there or has
ended since: this holds however orchestrators interleave. `TurnInv`, for those
that set up in turn only, says where every window comes from: it was on the list
when it was read, or the one that is setting up created it for a job it is
through with.

`OutputStreamerProofs` proves type correctness, `OutputFaithful`, `LinesWhole`
and `DrainedBeforeReturn` for every set of streams, any number of bytes and all
sizes of pipes and buffers (`CapAssumption`). The invariant relates three things
the properties do not: the bytes handled, the line so far and the lines printed
(`Reading`). `Bytes` says that they add up, `LinesOut` that the printed lines are
lines, `LineSoFar` that the one being built may follow them. They are operators
over values, so that the step for one byte (`HandleKeeps`) and the end
(`LastLine`) are lemmas about sequences. `RunInv` is what `DrainedBeforeReturn`
rests on: in tagged mode the pipes are open as long as a reader reads.

`VMConfigProofs` proves three properties of configurations.

* `MacsDistinct`, for any machines and any names of TAP devices, with any number
  or none (`TapsAssumption` says no more than that): a device is taken by one
  machine and the card's address is that of its device (`TapInv`), and the digits
  of different numbers differ, two of them exactly below 256 (`HexInjective`).
* `NetworkDecided`, for any environments and options, in any number
  (`EnvsAssumption`: variables that are not about the network yield no option
  about it; `GivenAssumption`: options are strings). While `vm.Start` goes through
  the options, what is left is a suffix, and the network is what the last
  network option before it says (`Applied`). `SecondSpeaks` and `FirstSpeaks` take
  the concatenation apart: the test's options, then the port forwards, then the
  mode.
* `QemuAccepts`, for any set of configurations of the modelled form
  (`ConfigsAssumption`). `FitsDecides`: what QEMU refuses at once is what does not
  fit, over all combinations of board, emulator, accelerators and host. The
  arguments of a part do not clash (`Consistent`), parts with disjoint ids, slots
  and boot indexes may follow one another (`Parts`), hence `CommandLine`; the
  invariant `StartingInv` says that QEMU holds just what it has dealt with, and
  that the slots it chooses are chosen first and lie below 4 (`SlotsInv`). Two
  devices leave the choice to QEMU and at most one slot is taken before them: a
  third would make this proof, and QEMU, fail. So what gets past the start comes
  up (`QemuInv`).

Each inductive invariant was checked by TLC on the instance of its run before it
was proved.

Only model-checked: all liveness (`SignalStopsRunner`, `BuildEnds`,
`ExecCallEnds`, `OnlyHangsInAgent`, `CleanupsEnd`, `EndsWhenTold`, `PhasesEnd`,
`WriterMovesOn`, `RunReturns`), which needs fairness and `ENABLED` and is outside
what these proofs can do. Every invariant and every action property a passing
run checks is stated by a theorem.

## 6. Plan: proofs

What is left is not a property of a run but support for reading: the parts of
`CommandLine` could share one lemma over the length of a part, and the liveness
properties rest on variants (the program points left, the jobs left, the bytes
left) whose decrease could be proved step by step as action properties.

## 7. Not modelled

* *Two commands at once* over one work directory, or over one pristine TPM
  directory: nothing in the code prevents or promises anything about it.
* *Pid reuse* between SIGTERM and SIGKILL.
* *Bridge scripts* - sequences of `ip` commands over kernel state, run by hand.
* *Bazel rules* - declarative, evaluated by Bazel; what they hand over is an
  input of the models.
* The `vm` library, tmux, QEMU and swtpm are external and modelled by how they
  are used; documentation, examples and the release workflow have no behaviour.
* Small helpers without state: `Time`, `shellQuote`, accessors.
