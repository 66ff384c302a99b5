--------------------------- MODULE MachineOptions ---------------------------
(***************************************************************************)
(* The options a Machine is started with (machine/machine.go): those the   *)
(* test passes to New, which may take a TAP device from a bridge, those of *)
(* the VMTEST_* environment, and the order in which vm.Start (external)    *)
(* applies them: the last word on the network counts.                      *)
(*                                                                         *)
(* Machines of one test share the environment and the bridge.              *)
(***************************************************************************)
EXTENDS Integers, Sequences

CONSTANTS
  Machines,   \* calls of New, one after another or in parallel tests
  Envs,       \* environments the rules may set
  Given,      \* sequences of options tests pass
  Taps,       \* the names of the TAP devices on the bridge
  TapNumber   \* what follows the last "tap" of a name, if it is a number

(* A name without "tap", or with something else after it.                  *)
NoNumber == -1

ASSUME TapsAssumption == TapNumber \in [Taps -> Nat \cup {NoNumber}]

(* The options that concern the network.                                   *)
NetOpts == {"WithNoNetwork", "WithUserNet", "WithPortForward", "WithTapDevice"}

(* Variables other than VMTEST_NETWORK and VMTEST_PORT_FORWARDS never do.  *)
ASSUME EnvsAssumption ==
  \A e \in Envs : e.plain \in Seq(STRING \ NetOpts) /\ e.forwards \in Seq(STRING)

ASSUME GivenAssumption == Given \subseteq Seq(STRING)

VARIABLES
  env,       \* the environment
  stage,     \* "idle", "options", "start", "up", "failed"
  todo,      \* the options still to be looked at in this stage
  vmOpts,    \* the options collected for vm.Start
  taps,      \* the TAP devices taken
  card,      \* the last of them, and the address derived from it
  net        \* the network vm.Start has settled on

optVars == <<env, stage, todo, vmOpts, taps, card, net>>

(* "%02x": two digits, more when two do not suffice (what comes before the *)
(* last two is kept as one number).                                        *)
Hex02(n) ==
  IF n < 256 THEN <<n \div 16, n % 16>>
  ELSE <<n \div 256, (n \div 16) % 16, n % 16>>

(* macFromTap, idx: 0 unless Atoi finds a number.                          *)
TapIndex(t) == IF TapNumber[t] = NoNumber THEN 0 ELSE TapNumber[t]

(* Mutant: one digit of the number is used.                                *)
macFromTapDigit(t) == Hex02(TapIndex(t) % 10)

(* macFromTap: the last byte; the others are 02:00:00:00:00.               *)
macFromTap(t) == Hex02(TapIndex(t))

Opt(present, o) == IF present THEN <<o>> ELSE <<>>

(* Port forwards, one option for each number.                              *)
Forwards(e) == [i \in DOMAIN e.forwards |-> "WithPortForward"]

NetworkMode(e) ==
  CASE e.network = "none"   -> <<"WithNoNetwork">>
    [] e.network = "bridge" -> <<>>
    [] OTHER                -> <<"WithUserNet">>

(* Mutant: the mode is looked at last.                                     *)
NetworkModeLast(e) == Forwards(e) \o NetworkMode(e)

Network(e) == NetworkMode(e) \o Forwards(e)

BadValue(e) ==
  e.cpus = "bad" \/ \E i \in DOMAIN e.forwards : e.forwards[i] = "bad"

(* buildVMOptsFromEnv.  Variables that map to one option each (binaries,   *)
(* machine type, disks, memory) are e.plain.                               *)
buildVMOptsFromEnv(e) ==
  e.plain \o Opt(e.kernel, "WithKernelBoot")
  \o Opt(e.ovmfCode /\ e.ovmfVars, "WithUEFI")
  \o Opt(e.cpus # "", "WithCPUs")
  \o Opt(e.tpm /\ e.swtpm, "WithTPM")
  \o Network(e)

OptIdle ==
  /\ env \in Envs
  /\ stage = [m \in Machines |-> "idle"]
  /\ todo = [m \in Machines |-> <<>>]
  /\ vmOpts = [m \in Machines |-> <<>>]
  /\ taps = [m \in Machines |-> {}]
  /\ card = [m \in Machines |-> [tap |-> "", mac |-> <<>>]]
  /\ net = [m \in Machines |-> "default"]

To(m, s) == stage' = [stage EXCEPT ![m] = s]

Collect(m, opts) == vmOpts' = [vmOpts EXCEPT ![m] = @ \o opts]

New(m) ==
  /\ stage[m] = "idle"
  /\ To(m, "options")
  /\ \E g \in Given : todo' = [todo EXCEPT ![m] = g]
  /\ UNCHANGED <<env, vmOpts, taps, card, net>>

(* WithBridge: a TAP device nobody has (vm.Bridge, external), or a panic.  *)
WithBridge(m) ==
  /\ stage[m] = "options" /\ todo[m] # <<>> /\ Head(todo[m]) = "WithBridge"
  /\ LET free == Taps \ UNION {taps[n] : n \in Machines} IN
     \/ /\ \E t \in free :
             /\ taps' = [taps EXCEPT ![m] = @ \cup {t}]
             /\ card' = [card EXCEPT ![m] = [tap |-> t, mac |-> macFromTap(t)]]
        /\ Collect(m, <<"WithTapDevice", "WithMacAddress">>)
        /\ todo' = [todo EXCEPT ![m] = Tail(@)]
        /\ UNCHANGED stage
     \/ /\ free = {}
        /\ To(m, "failed")
        /\ UNCHANGED <<todo, vmOpts, taps, card>>
  /\ UNCHANGED <<env, net>>

(* WithUserNetwork, WithPortForward, WithVMOption: passed on.              *)
PassOn(m) ==
  /\ stage[m] = "options" /\ todo[m] # <<>> /\ Head(todo[m]) # "WithBridge"
  /\ Collect(m, <<Head(todo[m])>>)
  /\ todo' = [todo EXCEPT ![m] = Tail(@)]
  /\ UNCHANGED <<env, stage, taps, card, net>>

(* The environment is read after that, and its options go first; a value   *)
(* that is no number ends the test, the TAP device taken.                  *)
Environment(m) ==
  /\ stage[m] = "options" /\ todo[m] = <<>>
  /\ \/ /\ ~ BadValue(env)
        /\ To(m, "start")
        /\ todo' = [todo EXCEPT ![m] =
             buildVMOptsFromEnv(env)
             \o <<"WithAgent", "WithSerialCapture", "WithQMP">> \o vmOpts[m]]
     \/ BadValue(env) /\ To(m, "failed") /\ UNCHANGED todo
  /\ UNCHANGED <<env, vmOpts, taps, card, net>>

(* vm.Start: what an option makes of the network.                          *)
Effect(o, before) ==
  CASE o = "WithNoNetwork"                      -> "none"
    [] o \in {"WithUserNet", "WithPortForward"} -> "user"
    [] o = "WithTapDevice"                      -> "tap"
    [] OTHER                                    -> before

Apply(m) ==
  /\ stage[m] = "start" /\ todo[m] # <<>>
  /\ net' = [net EXCEPT ![m] = Effect(Head(todo[m]), @)]
  /\ todo' = [todo EXCEPT ![m] = Tail(@)]
  /\ UNCHANGED <<env, stage, vmOpts, taps, card>>

Started(m) ==
  /\ stage[m] = "start" /\ todo[m] = <<>>
  /\ To(m, "up")
  /\ UNCHANGED <<env, todo, vmOpts, taps, card, net>>

OptNext ==
  \E m \in Machines : \/ New(m) \/ WithBridge(m) \/ PassOn(m)
                       \/ Environment(m) \/ Apply(m) \/ Started(m)

-----------------------------------------------------------------------------
(* Properties                                                              *)

(***************************************************************************)
(* Who decides on the network (machine.go:124-128, 909-910): the test's    *)
(* own options before the environment, and in the environment a port       *)
(* forward before VMTEST_NETWORK, whatever else is set.                    *)
(***************************************************************************)
NetworkDecided ==
  \A m \in Machines : stage[m] = "up" =>
    LET own == {i \in DOMAIN vmOpts[m] : vmOpts[m][i] \in NetOpts}
    IN  IF own # {}
        THEN \E i \in own : /\ \A j \in own : j <= i
                            /\ net[m] = Effect(vmOpts[m][i], "default")
        ELSE IF env.forwards # <<>> THEN net[m] = "user"
        ELSE net[m] = CASE env.network = "none"   -> "none"
                        [] env.network = "bridge" -> "default"
                        [] OTHER                  -> "user"

(***************************************************************************)
(* When machines on one bridge can be told apart (machine.go:35-37 says    *)
(* always).  Each has a device of its own, and two have the same address   *)
(* exactly when the names of their devices give the same index, which is 0 *)
(* also for every name without a number; and an address is one, its last   *)
(* byte two digits, exactly when the index is below 256 (setup-bridge.sh   *)
(* makes as many devices as it is told).  So the devices of a bridge that  *)
(* are numbered below 256 do get unique addresses, and no others.          *)
(***************************************************************************)
MacsDistinct ==
  \A m, n \in Machines : taps[m] # {} /\ taps[n] # {} =>
    LET t == card[m].tap  u == card[n].tap IN
    /\ m # n => t # u
    /\ card[m].mac = card[n].mac <=> TapIndex(t) = TapIndex(u)
    /\ Len(card[m].mac) = 2 <=> TapIndex(t) < 256
=============================================================================
