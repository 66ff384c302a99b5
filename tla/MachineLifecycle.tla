-------------------------- MODULE MachineLifecycle --------------------------
(***************************************************************************)
(* A Go test that makes machines with machine.New (machine/machine.go) and *)
(* what becomes of their VMs, agent connections and serial loggers when    *)
(* the test ends.  testing runs the functions given to t.Cleanup last in,  *)
(* first out, on a normal end as well as after t.Fatalf or a panic; a test *)
(* binary that is killed or times out runs none of them.                   *)
(*                                                                         *)
(* Each VM has a reader goroutine (vm.SerialConsole, external) that puts   *)
(* lines into a channel, and New starts one goroutine that takes them out  *)
(* and passes them to t.Logf.                                              *)
(***************************************************************************)
EXTENDS Integers, Sequences

CONSTANTS
  N,           \* bound: machines one test makes
  MaxLines,    \* bound: lines waiting in a serial channel
  MaxDumps,    \* bound: calls of DumpOnFailure
  OptionSets   \* the sets of options they are given

(* DumpJournalUnits, DumpDmesg without and with patterns, DumpProcessList, *)
(* DumpFiles.                                                              *)
DumpOption == {"journal", "dmesg", "dmesgPatterns", "processes", "files"}

ASSUME BoundsAssumption ==
  N \in Nat /\ MaxLines \in Nat /\ MaxDumps \in Nat
ASSUME OptionsAssumption == OptionSets \subseteq SUBSET DumpOption

Machine == 1 .. N

VARIABLES
  tpc,        \* the test goroutine: in New, in the body, in a cleanup, over
  failed,     \* t.Failed()
  made,       \* machines started so far, the one being connected included
  stack,      \* functions registered with t.Cleanup, the next one last
  dumps,      \* calls of DumpOnFailure so far
  asked,      \* how many of them put their questions to an open agent
  missed,     \* what they were asked to dump and did not look at
  vm,         \* the VM of each machine
  agent,      \* its agent connection, as the test sees it
  lines,      \* lines in its serial channel
  logChan,    \* that channel: "open" or "closed"
  onLine      \* its logging goroutine

vmVars == <<vm, agent, lines, logChan, onLine>>
dumpVars == <<dumps, asked, missed>>
vars == <<tpc, failed, made, stack, dumpVars, vmVars>>

Cleanup == [what : {"close", "dump"}, m : Machine, opts : SUBSET DumpOption]

(***************************************************************************)
(* The type of the state.                                                  *)
(***************************************************************************)
TypeOK ==
  /\ tpc \in {"body", "connect", "cleanup", "kill", "drain", "done", "dead"}
  /\ failed \in {"yes", "no"}
  /\ made \in 0 .. N
  /\ stack \in Seq(Cleanup)
  /\ dumps \in 0 .. MaxDumps
  /\ asked \in 0 .. MaxDumps
  /\ missed \subseteq DumpOption
  /\ vm \in [Machine -> {"none", "up", "down"}]
  /\ agent \in [Machine -> {"none", "open", "closed"}]
  /\ lines \in [Machine -> 0 .. MaxLines]
  /\ logChan \in [Machine -> {"open", "closed"}]
  /\ onLine \in [Machine -> {"none", "running", "exited"}]

Init ==
  /\ tpc = "body"
  /\ failed = "no"
  /\ made = 0
  /\ stack = <<>>
  /\ dumps = 0
  /\ asked = 0
  /\ missed = {}
  /\ vm = [m \in Machine |-> "none"]
  /\ agent = [m \in Machine |-> "none"]
  /\ lines = [m \in Machine |-> 0]
  /\ logChan = [m \in Machine |-> "open"]
  /\ onLine = [m \in Machine |-> "none"]

Top == stack[Len(stack)]
Pop == SubSeq(stack, 1, Len(stack) - 1)

(* t.Fatalf, or a panic: the test goroutine goes straight to its cleanups. *)
Fatalf == failed' = "yes" /\ tpc' = "cleanup"

(* Kill stops the VM and returns once the reader goroutine has ended and   *)
(* closed the channel; what it had put there is still to be taken out.     *)
Kill(m) ==
  /\ vm' = [vm EXCEPT ![m] = "down"]
  /\ logChan' = [logChan EXCEPT ![m] = "closed"]

-----------------------------------------------------------------------------
(* machine.New                                                             *)

(* vm.Start failed, or an option or an environment variable was bad.       *)
StartFails ==
  /\ tpc = "body" /\ made < N
  /\ Fatalf
  /\ UNCHANGED <<made, stack, dumpVars, vmVars>>

(* The VM runs; a serial console, if there is one, is logged from now on.  *)
Start ==
  /\ tpc = "body" /\ made < N
  /\ tpc' = "connect"
  /\ made' = made + 1
  /\ vm' = [vm EXCEPT ![made + 1] = "up"]
  /\ \E s \in {"none", "running"} : onLine' = [onLine EXCEPT ![made + 1] = s]
  /\ UNCHANGED <<failed, stack, dumpVars, agent, lines, logChan>>

ConnectAgent ==
  /\ tpc = "connect"
  /\ tpc' = "body"
  /\ agent' = [agent EXCEPT ![made] = "open"]
  /\ stack' = Append(stack, [what |-> "close", m |-> made, opts |-> {}])
  /\ UNCHANGED <<failed, made, dumpVars, vm, lines, logChan, onLine>>

(* Mutant: the VM is left running.                                         *)
ConnectFailsNoKill ==
  /\ tpc = "connect"
  /\ Fatalf
  /\ UNCHANGED <<made, stack, dumpVars, vmVars>>

(* No agent within 120 seconds: the VM is killed and the test fails.  No   *)
(* cleanup has been registered for this machine.                           *)
ConnectFails ==
  /\ tpc = "connect"
  /\ Kill(made)
  /\ Fatalf
  /\ UNCHANGED <<made, stack, dumpVars, agent, lines, onLine>>

-----------------------------------------------------------------------------
(* The body of the test                                                    *)

(* Mutant: the dump is queued behind what is already registered.           *)
DumpOnFailureQueued(m, opts) ==
  /\ tpc = "body" /\ agent[m] = "open" /\ dumps < MaxDumps
  /\ stack' = <<[what |-> "dump", m |-> m, opts |-> opts]>> \o stack
  /\ dumps' = dumps + 1
  /\ UNCHANGED <<tpc, failed, made, asked, missed, vmVars>>

DumpOnFailure(m, opts) ==
  /\ tpc = "body" /\ agent[m] = "open" /\ dumps < MaxDumps
  /\ stack' = Append(stack, [what |-> "dump", m |-> m, opts |-> opts])
  /\ dumps' = dumps + 1
  /\ UNCHANGED <<tpc, failed, made, asked, missed, vmVars>>

(* A call on a machine fails the test.                                     *)
CallFails ==
  /\ tpc = "body" /\ made > 0
  /\ Fatalf
  /\ UNCHANGED <<made, stack, dumpVars, vmVars>>

BodyEnds ==
  /\ tpc = "body"
  /\ tpc' = "cleanup"
  /\ UNCHANGED <<failed, made, stack, dumpVars, vmVars>>

-----------------------------------------------------------------------------
(* The cleanups                                                            *)

(* The patterns as DumpDmesg receives them: a variadic list, nil when it   *)
(* is called without any.                                                  *)
dmesgFilters(opts) == IF "dmesgPatterns" \in opts THEN "patterns" ELSE "nil"

(* What a dump looks at: the failed units and dmesg by default, else what  *)
(* the configuration made from the options has a field set for.            *)
Collected(opts) ==
  IF opts = {} THEN {"units", "dmesg"}
  ELSE (opts \cap {"journal", "processes", "files"})
         \cup (IF dmesgFilters(opts) # "nil" THEN {"dmesg"} ELSE {})

(* What the options say it looks at.                                       *)
Requested(opts) ==
  IF opts = {} THEN {"units", "dmesg"}
  ELSE (opts \ {"dmesgPatterns"})
         \cup (IF "dmesgPatterns" \in opts THEN {"dmesg"} ELSE {})

(* DumpOnFailure's function: nothing unless the test failed, else          *)
(* questions to the agent, whose errors it ignores.                        *)
Dump ==
  /\ tpc = "cleanup" /\ stack # <<>> /\ Top.what = "dump"
  /\ stack' = Pop
  /\ asked' = IF failed = "yes" /\ agent[Top.m] = "open" THEN asked + 1
                                                          ELSE asked
  /\ missed' = IF failed = "yes"
                THEN missed \cup (Requested(Top.opts) \ Collected(Top.opts))
                ELSE missed
  /\ UNCHANGED <<tpc, failed, made, dumps, vmVars>>

(* Mutant: the logger is waited for before the VM is killed.               *)
CloseAgentThenDrain ==
  /\ tpc = "cleanup" /\ stack # <<>> /\ Top.what = "close"
  /\ tpc' = "drain"
  /\ agent' = [agent EXCEPT ![Top.m] = "closed"]
  /\ UNCHANGED <<failed, made, stack, dumpVars, vm, lines, logChan, onLine>>

(* New's function: close the agent, kill the VM, wait for the logger.      *)
CloseAgent ==
  /\ tpc = "cleanup" /\ stack # <<>> /\ Top.what = "close"
  /\ tpc' = "kill"
  /\ agent' = [agent EXCEPT ![Top.m] = "closed"]
  /\ UNCHANGED <<failed, made, stack, dumpVars, vm, lines, logChan, onLine>>

KillVM ==
  /\ tpc = "kill"
  /\ tpc' = "drain"
  /\ Kill(Top.m)
  /\ UNCHANGED <<failed, made, stack, dumpVars, agent, lines, onLine>>

(* Mutant: the cleanup does not wait on logDone.                           *)
DrainNoWait ==
  /\ tpc = "drain"
  /\ tpc' = "cleanup"
  /\ stack' = Pop
  /\ UNCHANGED <<failed, made, dumpVars, vmVars>>

(* logDone is closed, or there never was a serial console.                 *)
Drain ==
  /\ tpc = "drain"
  /\ onLine[Top.m] # "running"
  /\ tpc' = "cleanup"
  /\ stack' = Pop
  /\ UNCHANGED <<failed, made, dumpVars, vmVars>>

TestOver ==
  /\ tpc = "cleanup" /\ stack = <<>>
  /\ tpc' = "done"
  /\ UNCHANGED <<failed, made, stack, dumpVars, vmVars>>

(* The test binary is killed, or panics at its own time limit.             *)
Die ==
  /\ tpc \notin {"done", "dead"}
  /\ tpc' = "dead"
  /\ onLine' = [m \in Machine |-> IF onLine[m] = "running" THEN "exited"
                                                            ELSE onLine[m]]
  /\ UNCHANGED <<failed, made, stack, dumpVars, vm, agent, lines, logChan>>

-----------------------------------------------------------------------------
(* The guest, the serial reader and the logging goroutine                  *)

(* The guest powers off (m.Shutdown asks it to) or QEMU dies; the reader   *)
(* sees the end of the console.                                            *)
VMExits(m) ==
  /\ vm[m] = "up"
  /\ Kill(m)
  /\ UNCHANGED <<tpc, failed, made, stack, dumpVars, agent, lines, onLine>>

ReadLine(m) ==
  /\ vm[m] = "up" /\ onLine[m] = "running" /\ lines[m] < MaxLines
  /\ lines' = [lines EXCEPT ![m] = @ + 1]
  /\ UNCHANGED <<tpc, failed, made, stack, dumpVars, vm, agent, logChan,
                 onLine>>

(* Mutant: a line is taken whether or not there is one.                    *)
LogLineUnchecked(m) ==
  /\ onLine[m] = "running"
  /\ lines' = [lines EXCEPT ![m] = @ - 1]
  /\ UNCHANGED <<tpc, failed, made, stack, dumpVars, vm, agent, logChan,
                 onLine>>

(* t.Logf("[serial] %s", line)                                             *)
LogLine(m) ==
  /\ onLine[m] = "running" /\ lines[m] > 0
  /\ lines' = [lines EXCEPT ![m] = @ - 1]
  /\ UNCHANGED <<tpc, failed, made, stack, dumpVars, vm, agent, logChan,
                 onLine>>

(* The channel is closed and empty: the goroutine closes logDone and ends. *)
LoggerExits(m) ==
  /\ onLine[m] = "running" /\ lines[m] = 0 /\ logChan[m] = "closed"
  /\ onLine' = [onLine EXCEPT ![m] = "exited"]
  /\ UNCHANGED <<tpc, failed, made, stack, dumpVars, vm, agent, lines,
                 logChan>>

-----------------------------------------------------------------------------
NewStep == StartFails \/ Start \/ ConnectAgent \/ ConnectFails

BodyStep ==
  (\E m \in Machine, opts \in OptionSets : DumpOnFailure(m, opts)) \/ CallFails \/ BodyEnds

CleanupStep == Dump \/ CloseAgent \/ KillVM \/ Drain \/ TestOver

Logger(m) == LogLine(m) \/ LoggerExits(m)

Next ==
  \/ NewStep
  \/ BodyStep
  \/ CleanupStep
  \/ Die
  \/ \E m \in Machine : VMExits(m) \/ ReadLine(m) \/ Logger(m)

Spec == Init /\ [][Next]_vars

(* A dump whose questions all go through Execute, which limits them:       *)
(* JournalLines (for failed units too), FindProcesses and ReadFile have no *)
(* limit and need not return.                                              *)
DumpLimited == failed = "no" \/ Collected(Top.opts) \subseteq {"dmesg"}

(* Goroutines that can move do, and so do the cleanups, except in a        *)
(* question without a limit.                                               *)
FairSpec ==
  /\ Spec
  /\ WF_vars((Dump /\ DumpLimited) \/ CloseAgent \/ KillVM \/ Drain \/ TestOver)
  /\ \A m \in Machine : WF_vars(Logger(m))

-----------------------------------------------------------------------------
(* Properties                                                              *)

(***************************************************************************)
(* No VM outlives its test, whichever of several New or calls failed: New  *)
(* kills what it cannot hand over, and the cleanups kill the rest.         *)
(***************************************************************************)
VMsStopped == tpc = "done" => \A m \in Machine : vm[m] # "up"

(***************************************************************************)
(* When a failed test is over, every DumpOnFailure has put its questions,  *)
(* and to an agent that was not closed yet, in every order of New and      *)
(* DumpOnFailure calls over several machines.                              *)
(***************************************************************************)
FailureIsDumped == tpc = "done" /\ failed = "yes" => asked = dumps

(***************************************************************************)
(* The logger of every machine that New returned has ended, with nothing   *)
(* left to log, when the test is over.                                     *)
(***************************************************************************)
LoggersJoined ==
  tpc = "done" => \A m \in Machine :
                    agent[m] # "none" => onLine[m] # "running" /\ lines[m] = 0

(***************************************************************************)
(* The cleanups end, also those of a failed test: waiting for a logger     *)
(* does not block, however many lines are left and whether or not the VM   *)
(* is still up when they start.  The one thing that may hold them up for   *)
(* ever is a dump's question that has no limit (machine.go:601, 613, 622,  *)
(* 640); the dumps that only ask through Execute never do.                 *)
(***************************************************************************)
DumpHangs ==
  tpc = "cleanup" /\ stack # <<>> /\ Top.what = "dump" /\ ~ DumpLimited

CleanupsEnd ==
  tpc \in {"cleanup", "kill", "drain"} ~>
    tpc \in {"done", "dead"} \/ []DumpHangs

(***************************************************************************)
(* What machine.go:137-139 says: no t.Logf after the test finishes, so no  *)
(* logger has a line in hand then.                                         *)
(***************************************************************************)
NoLogAfterTest ==
  tpc = "done" => \A m \in Machine : ~(onLine[m] = "running" /\ lines[m] > 0)

(***************************************************************************)
(* What machine.go:552 says: DumpDmesg dumps kernel messages, optionally   *)
(* filtered; so whatever a dump was asked for, it looks at.                *)
(***************************************************************************)
RequestedIsDumped == missed = {}
=============================================================================
