------------------------------ MODULE QemuArgs ------------------------------
(***************************************************************************)
(* The command line the runner builds for QEMU (runner/qemu.go) and QEMU   *)
(* taking it.  An argument is reduced to what the arguments have in common *)
(* with one another: the id it defines, the ids it refers to, the PCI slot *)
(* it asks for and its place in the boot order.                            *)
(*                                                                         *)
(* QEMU is external: it sets up back ends first and then the devices in    *)
(* the order of the command line; a device that names no slot gets the     *)
(* lowest free one; it refuses an id defined twice, an unknown id, a slot  *)
(* or a boot index that is taken, a board it does not emulate, a device    *)
(* the board has no bus for, accelerators of which none works, and the CPU *)
(* model "host" without hardware acceleration.                             *)
(***************************************************************************)
EXTENDS Integers, Sequences

CONSTANT QemuConfigs   \* the configurations Run is called with

(* The machine the runner is on; hw: /dev/kvm, or the Hypervisor framework *)
(* of macOS, can be used.                                                  *)
Host == [os : {"linux", "darwin"}, arch : {"amd64", "arm64"}, hw : BOOLEAN]

Accelerators == {"kvm", "hvf", "tcg"}

(* RunnerConfig.MachineType: "<board>,accel=<accel>:<fallback>", the       *)
(* accelerators one, both or neither; the empty string is NoMachineType.   *)
NoMachineType == [board |-> "", accel |-> "", fallback |-> ""]

MachineTypes ==
  {NoMachineType} \cup
  {t \in [board : {"q35", "virt"}, accel : Accelerators \cup {""},
          fallback : Accelerators \cup {""}] :
     t.accel = "" => t.fallback = ""}

Emulators == {"qemu-system-x86_64", "qemu-system-aarch64"}

ASSUME ConfigsAssumption ==
  QemuConfigs \subseteq
    [host : Host, machineType : MachineTypes, qemuSystem : Emulators \cup {""},
     iso : BOOLEAN, secondTap : BOOLEAN]

NoConfig == [iso |-> FALSE]

VARIABLES
  qemu,     \* "none", "starting", "running", "refused"
  conf,     \* the configuration it was started with
  args,     \* its command line
  pass,     \* 1: back ends are set up, 2: devices
  next,     \* the argument that is looked at
  ids,      \* the ids defined
  slots,    \* the PCI slots taken
  boots     \* the boot indexes taken

qemuVars == <<qemu, conf, args, pass, next, ids, slots, boots>>

NotPci == -1     \* not a PCI device
AnySlot == 0     \* slot 0 is the host bridge: QEMU chooses
NoBoot == -1

(* defaultMachineType: the board and the accelerator.                      *)
defaultMachineType(host) ==
  [board |-> IF host.arch = "arm64" THEN "virt" ELSE "q35",
   accel |-> IF host.os = "darwin" THEN "hvf" ELSE "kvm",
   fallback |-> ""]

(* MachineType is passed on as it is, board included.                      *)
Machine(c) ==
  IF c.machineType.board = "" THEN defaultMachineType(c.host) ELSE c.machineType

(* The string is searched for "accel=tcg": the first one named.            *)
CpuModel(c) == IF Machine(c).accel = "tcg" THEN "max" ELSE "host"

BackEnd(id, needs) ==
  [id |-> id, needs |-> needs, slot |-> NotPci, boot |-> NoBoot,
   device |-> FALSE]

Device(id, needs, slot, boot) ==
  [id |-> id, needs |-> needs, slot |-> slot, boot |-> boot, device |-> TRUE]

(* Mutant: the second network card takes any slot.                         *)
SecondNetAnySlot(c) ==
  IF c.secondTap
  THEN <<BackEnd("net1", {}), Device("", {"net1"}, AnySlot, NoBoot)>>
  ELSE <<>>

SecondNet(c) ==
  IF c.secondTap
  THEN <<BackEnd("net1", {}), Device("", {"net1"}, 6, NoBoot)>>
  ELSE <<>>

(* tpm-tis sits on the ISA bus.                                            *)
Tpm ==
  <<BackEnd("char0", {}), BackEnd("tpm0", {"char0"}),
    Device("", {"tpm0"}, NotPci, NoBoot)>>

Firmware == <<BackEnd("pflash0", {}), BackEnd("pflash1", {})>>

Storage(c) ==
  IF c.iso
  THEN <<Device("scsi0", {}, 4, NoBoot), BackEnd("cd0", {}),
         Device("", {"scsi0", "cd0"}, NotPci, 0),
         BackEnd("disk", {}), Device("", {"disk"}, 5, 1)>>
  ELSE <<BackEnd("disk", {}), Device("", {"disk"}, 5, 0)>>

(* buildQEMUArgs: random numbers, network, TPM, firmware, storage.         *)
buildQEMUArgs(c) ==
  <<Device("", {}, AnySlot, NoBoot),
    BackEnd("net0", {}), Device("", {"net0"}, AnySlot, NoBoot)>>
  \o SecondNet(c) \o Tpm \o Firmware \o Storage(c)

(* DefaultToolPaths: the emulator where the configuration names none       *)
(* (NewRunner).                                                            *)
DefaultToolPaths(host) ==
  IF host.arch = "arm64" THEN "qemu-system-aarch64" ELSE "qemu-system-x86_64"

QemuSystem(c) ==
  IF c.qemuSystem = "" THEN DefaultToolPaths(c.host) ELSE c.qemuSystem

-----------------------------------------------------------------------------
(* QEMU                                                                    *)

(* Each emulator has boards of its own; only q35 has an ISA bus.           *)
Emulates(e) == IF e = "qemu-system-aarch64" THEN {"virt"} ELSE {"q35"}
IsaBoards == {"q35"}

(* The accelerators that work: a hardware one only for guests of the       *)
(* host's own architecture.                                                *)
Native(host) == IF host.os = "darwin" THEN "hvf" ELSE "kvm"
GuestArch(e) == IF e = "qemu-system-aarch64" THEN "arm64" ELSE "amd64"

Works(c, a) ==
  \/ a = "tcg"
  \/ a = Native(c.host) /\ c.host.hw /\ GuestArch(QemuSystem(c)) = c.host.arch

(* The first of those named that works; TCG where none is named.           *)
Accelerator(c) ==
  LET m == Machine(c) IN
  CASE m.accel = ""                                         -> "tcg"
    [] m.accel # "" /\ Works(c, m.accel)                    -> m.accel
    [] m.accel # "" /\ ~ Works(c, m.accel) /\ Works(c, m.fallback) -> m.fallback
    [] OTHER                                                -> "none"

(* It does not come as far as its devices.                                 *)
Refuses(c) ==
  \/ Machine(c).board \notin Emulates(QemuSystem(c)) \cap IsaBoards
  \/ Accelerator(c) = "none"
  \/ CpuModel(c) = "host" /\ Accelerator(c) = "tcg"

(* Slots taken before any -device: a PC may come with a graphics card.     *)
Onboard == {{0}, {0, 1}}

QemuIdle ==
  /\ qemu = "none"
  /\ conf = NoConfig
  /\ args = <<>>
  /\ pass = 1 /\ next = 1
  /\ ids = {} /\ slots = {} /\ boots = {}

(* The command is started (runner.go, exec).                               *)
StartQemu ==
  /\ qemu = "none"
  /\ \E c \in QemuConfigs :
       /\ qemu' = IF Refuses(c) THEN "refused" ELSE "starting"
       /\ conf' = c
       /\ args' = buildQEMUArgs(c)
       /\ slots' \in Onboard
  /\ UNCHANGED <<pass, next, ids, boots>>

Free(s) == s \in (1 .. 30) \ slots

(* The slot of a device: the one it names, or the lowest free one.         *)
Slot(a) ==
  IF a.slot # AnySlot THEN a.slot
  ELSE CHOOSE s \in 1 .. 30 : Free(s) /\ \A r \in 1 .. s - 1 : ~ Free(r)

Clashes(a) ==
  \/ ~ (a.needs \subseteq ids)
  \/ a.id \in ids
  \/ a.slot \notin {NotPci, AnySlot} /\ ~ Free(a.slot)
  \/ a.boot \in boots

(* QEMU takes the next argument of this pass, refuses it, or leaves it to  *)
(* the other pass.                                                         *)
TakeArg ==
  /\ qemu = "starting" /\ next <= Len(args)
  /\ LET a == args[next] IN
     \/ /\ a.device # (pass = 2)
        /\ next' = next + 1
        /\ UNCHANGED <<qemu, ids, slots, boots>>
     \/ /\ a.device = (pass = 2)
        /\ qemu' = IF Clashes(a) THEN "refused" ELSE qemu
        /\ next' = next + 1
        /\ ids' = (ids \cup {a.id}) \ {""}
        /\ slots' = (slots \cup {Slot(a)}) \ {NotPci}
        /\ boots' = (boots \cup {a.boot}) \ {NoBoot}
  /\ UNCHANGED <<conf, args, pass>>

EndPass ==
  /\ qemu = "starting" /\ next > Len(args)
  /\ \/ pass = 1 /\ pass' = 2 /\ next' = 1 /\ UNCHANGED qemu
     \/ pass = 2 /\ qemu' = "running" /\ UNCHANGED <<pass, next>>
  /\ UNCHANGED <<conf, args, ids, slots, boots>>

QemuNext == StartQemu \/ TakeArg \/ EndPass

(* What a configuration has to be for QEMU to start: the PC and its        *)
(* emulator, by name or by default on amd64, and either TCG, named first,  *)
(* or a hardware accelerator that works here, by name or by default.       *)
Fits(c) ==
  /\ IF c.machineType.board = "" THEN c.host.arch = "amd64"
     ELSE c.machineType.board = "q35"
  /\ IF c.qemuSystem = "" THEN c.host.arch = "amd64"
     ELSE c.qemuSystem = "qemu-system-x86_64"
  /\ \/ c.machineType.accel = "tcg"
     \/ /\ c.host.hw /\ c.host.arch = "amd64"
        /\ \/ c.machineType.board = ""
           \/ /\ c.machineType.accel # ""
              /\ Native(c.host) \in {c.machineType.accel, c.machineType.fallback}

(***************************************************************************)
(* Which command lines QEMU takes (qemu.go:15-119, config.go): exactly     *)
(* those of a configuration that fits.  The arguments themselves are never *)
(* in each other's way: ids are defined once and before they are used, and *)
(* the slots QEMU chooses for the devices without one never take one that  *)
(* a later device names.  What the runner chooses when it is told nothing  *)
(* starts on an amd64 host with hardware acceleration and on no arm64 host *)
(* (tpm-tis, qemu.go:88); a machine type without "accel=" never starts     *)
(* (CPU "host" under TCG, qemu.go:49).                                     *)
(***************************************************************************)
QemuAccepts ==
  /\ qemu = "refused" => ~ Fits(conf)
  /\ qemu = "running" => Fits(conf)
=============================================================================
