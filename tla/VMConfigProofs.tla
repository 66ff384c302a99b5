--------------------------- MODULE VMConfigProofs ---------------------------
(***************************************************************************)
(* What holds of every configuration, for any machines, environments,      *)
(* options, TAP devices and QEMU configurations: addresses on a bridge     *)
(* differ, the right option decides on the network, and QEMU accepts the   *)
(* command lines of the runner.                                            *)
(***************************************************************************)
EXTENDS MCVMConfig, SequenceTheorems, TLAPS

(* All variables.                                                          *)
vars == <<qemuVars, optVars>>

-----------------------------------------------------------------------------
(* Addresses                                                               *)

(***************************************************************************)
(* The digits of "%02x" give the number back, and are two below 256 only   *)
(* (machine.go:61).                                                        *)
(***************************************************************************)
LEMMA HexInjective ==
  ASSUME NEW a \in Nat, NEW b \in Nat
  PROVE  /\ Hex02(a) \in Seq(Nat)
         /\ Len(Hex02(a)) = 2 <=> a < 256
         /\ Hex02(a) = Hex02(b) => a = b
  <1>1. \A n \in Nat : /\ n \div 16 \in Nat /\ n % 16 \in Nat /\ n \div 256 \in Nat
                       /\ (n \div 16) % 16 \in Nat
                       /\ n = 16 * (n \div 16) + (n % 16)
                       /\ n = 256 * (n \div 256) + 16 * ((n \div 16) % 16) + (n % 16)
    OBVIOUS
  <1>2. \A n \in Nat :
          /\ n < 256 => Hex02(n) = <<n \div 16, n % 16>>
          /\ ~ (n < 256) => Hex02(n) = <<n \div 256, (n \div 16) % 16, n % 16>>
    BY DEF Hex02
  <1>3. /\ \A x, y : Len(<<x, y>>) = 2
        /\ \A x, y, z : Len(<<x, y, z>>) = 3
        /\ \A x, y \in Nat : <<x, y>> \in Seq(Nat)
        /\ \A x, y, z \in Nat : <<x, y, z>> \in Seq(Nat)
    OBVIOUS
  <1>4. \A n \in Nat : Hex02(n) \in Seq(Nat)
    <2> SUFFICES ASSUME NEW n \in Nat PROVE Hex02(n) \in Seq(Nat)
      OBVIOUS
    <2>0. /\ n \div 16 \in Nat /\ n % 16 \in Nat /\ n \div 256 \in Nat
          /\ (n \div 16) % 16 \in Nat
      BY <1>1
    <2>1. CASE n < 256
      <3>1. <<n \div 16, n % 16>> \in Seq(Nat)
        BY <1>3, <2>0, Zenon
      <3> QED
        BY <1>2, <2>1, <3>1, Zenon
    <2>2. CASE ~ (n < 256)
      <3>1. <<n \div 256, (n \div 16) % 16, n % 16>> \in Seq(Nat)
        BY <1>3, <2>0, Zenon
      <3> QED
        BY <1>2, <2>2, <3>1, Zenon
    <2> QED
      BY <2>1, <2>2
  <1>5. \A n \in Nat : IF n < 256 THEN Len(Hex02(n)) = 2 ELSE Len(Hex02(n)) = 3
    <2> SUFFICES ASSUME NEW n \in Nat
                 PROVE  /\ n < 256 => Len(Hex02(n)) = 2
                        /\ ~ (n < 256) => Len(Hex02(n)) = 3
      OBVIOUS
    <2>1. n < 256 => Len(Hex02(n)) = 2
      BY <1>2, <1>3, Zenon
    <2>2. ~ (n < 256) => Len(Hex02(n)) = 3
      BY <1>2, <1>3, Zenon
    <2> QED
      BY <2>1, <2>2
  <1>6. Len(Hex02(a)) = 2 <=> a < 256
    BY <1>5
  <1>7. ASSUME Hex02(a) = Hex02(b) PROVE a = b
    <2>1. a < 256 <=> b < 256
      BY <1>5, <1>7
    <2>2. CASE a < 256
      <3>1. <<a \div 16, a % 16>> = <<b \div 16, b % 16>>
        BY <1>2, <1>7, <2>1, <2>2
      <3>2. a \div 16 = b \div 16 /\ a % 16 = b % 16
        BY <3>1
      <3> QED
        BY <1>1, <3>2
    <2>3. CASE ~ (a < 256)
      <3>1. <<a \div 256, (a \div 16) % 16, a % 16>>
              = <<b \div 256, (b \div 16) % 16, b % 16>>
        BY <1>2, <1>7, <2>1, <2>3
      <3>2. /\ a \div 256 = b \div 256 /\ (a \div 16) % 16 = (b \div 16) % 16
            /\ a % 16 = b % 16
        BY <3>1
      <3> QED
        BY <1>1, <3>2
    <2> QED
      BY <2>2, <2>3
  <1> QED
    BY <1>4, <1>6, <1>7

(***************************************************************************)
(* The index of a device is a number (machine.go:54-60).                   *)
(***************************************************************************)
LEMMA IndexNat == \A t \in Taps : TapIndex(t) \in Nat
  BY TapsAssumption DEF TapIndex, NoNumber

(***************************************************************************)
(* A TAP device is taken by one machine, and the card of a machine is that *)
(* of a device it has taken: MacsDistinct says nothing of the devices of a *)
(* machine that has none yet, nor of those taken before its last.          *)
(***************************************************************************)
TapInv ==
  /\ taps \in [Machines -> SUBSET Taps]
  /\ card \in [Machines -> [tap : Taps \cup {""}, mac : Seq(Nat)]]
  /\ \A m, n \in Machines : m # n => taps[m] \cap taps[n] = {}
  /\ \A m \in Machines : taps[m] # {} =>
       card[m].tap \in taps[m] /\ card[m].mac = macFromTap(card[m].tap)

(***************************************************************************)
(* Only WithBridge takes a device and sets an address.                     *)
(***************************************************************************)
LEMMA TapStep ==
  ASSUME TapInv, [Next]_vars
  PROVE  TapInv'
  <1>1. ASSUME NEW m \in Machines, WithBridge(m) PROVE TapInv'
    <2>1. CASE UNCHANGED <<taps, card>>
      BY <2>1 DEF TapInv
    <2>2. CASE ~ UNCHANGED <<taps, card>>
      <3>1. PICK t \in Taps \ UNION {taps[n] : n \in Machines} :
               /\ taps' = [taps EXCEPT ![m] = @ \cup {t}]
               /\ card' = [card EXCEPT ![m] = [tap |-> t, mac |-> macFromTap(t)]]
        BY <1>1, <2>2 DEF WithBridge
      <3>2. /\ taps'[m] = taps[m] \cup {t}
            /\ card'[m].tap = t /\ card'[m].mac = macFromTap(t)
            /\ \A n \in Machines \ {m} : taps'[n] = taps[n] /\ card'[n] = card[n]
        BY <3>1 DEF TapInv
      <3>3. macFromTap(t) \in Seq(Nat)
        BY IndexNat, HexInjective DEF macFromTap
      <3>4. [tap |-> t, mac |-> macFromTap(t)] \in [tap : Taps \cup {""}, mac : Seq(Nat)]
        BY <3>3
      <3>5. /\ taps' \in [Machines -> SUBSET Taps]
            /\ card' \in [Machines -> [tap : Taps \cup {""}, mac : Seq(Nat)]]
        BY <3>1, <3>4 DEF TapInv
      <3>6. \A n \in Machines : t \notin taps[n]
        OBVIOUS
      <3>7. \A n, o \in Machines : n # o => taps'[n] \cap taps'[o] = {}
        <4> SUFFICES ASSUME NEW n \in Machines, NEW o \in Machines, n # o
                     PROVE  taps'[n] \cap taps'[o] = {}
          OBVIOUS
        <4>1. taps[n] \cap taps[o] = {}
          BY DEF TapInv
        <4>2. /\ taps'[n] = IF n = m THEN taps[n] \cup {t} ELSE taps[n]
              /\ taps'[o] = IF o = m THEN taps[o] \cup {t} ELSE taps[o]
          BY <3>2
        <4> QED
          BY <3>6, <4>1, <4>2
      <3>8. ASSUME NEW n \in Machines, taps'[n] # {}
            PROVE  card'[n].tap \in taps'[n] /\ card'[n].mac = macFromTap(card'[n].tap)
        <4>1. CASE n = m
          BY <3>2, <4>1
        <4>2. CASE n # m
          <5>1. taps'[n] = taps[n] /\ card'[n] = card[n]
            BY <3>2, <4>2
          <5> QED
            BY <3>8, <5>1 DEF TapInv
        <4> QED
          BY <4>1, <4>2
      <3> QED
        BY <3>5, <3>7, <3>8 DEF TapInv
    <2> QED
      BY <2>1, <2>2
  <1>2. ASSUME NEW m \in Machines,
               New(m) \/ PassOn(m) \/ Environment(m) \/ Apply(m) \/ Started(m)
        PROVE  TapInv'
    <2>1. UNCHANGED <<taps, card>>
      BY <1>2 DEF New, PassOn, Environment, Apply, Started
    <2> QED
      BY <2>1 DEF TapInv
  <1>3. CASE UNCHANGED optVars
    BY <1>3 DEF TapInv, optVars
  <1> QED
    BY <1>1, <1>2, <1>3 DEF Next, OptNext, vars

(***************************************************************************)
(* Which machines on a bridge have the same address, and which addresses   *)
(* are none (machine.go:35-62), with any number of machines and any names  *)
(* of TAP devices.                                                         *)
(***************************************************************************)
THEOREM AddressesDiffer == Spec => []MacsDistinct
  <1>1. Init => TapInv
    <2>1. [tap |-> "", mac |-> <<>>] \in [tap : Taps \cup {""}, mac : Seq(Nat)]
      OBVIOUS
    <2> QED
      BY <2>1 DEF Init, OptIdle, TapInv
  <1>2. TapInv /\ [Next]_<<qemuVars, optVars>> => TapInv'
    BY TapStep DEF vars
  <1>3. TapInv => MacsDistinct
    <2> SUFFICES ASSUME TapInv, NEW m \in Machines, NEW n \in Machines,
                        taps[m] # {}, taps[n] # {}
                 PROVE  /\ m # n => card[m].tap # card[n].tap
                        /\ card[m].mac = card[n].mac
                             <=> TapIndex(card[m].tap) = TapIndex(card[n].tap)
                        /\ Len(card[m].mac) = 2 <=> TapIndex(card[m].tap) < 256
      BY DEF MacsDistinct
    <2>1. /\ card[m].tap \in taps[m] /\ card[m].mac = Hex02(TapIndex(card[m].tap))
          /\ card[n].tap \in taps[n] /\ card[n].mac = Hex02(TapIndex(card[n].tap))
      BY DEF TapInv, macFromTap
    <2>2. TapIndex(card[m].tap) \in Nat /\ TapIndex(card[n].tap) \in Nat
      BY <2>1, IndexNat DEF TapInv
    <2>3. m # n => card[m].tap # card[n].tap
      BY <2>1 DEF TapInv
    <2>4. Len(card[m].mac) = 2 <=> TapIndex(card[m].tap) < 256
      BY <2>1, <2>2, HexInjective, Zenon
    <2>5. card[m].mac = card[n].mac
            <=> TapIndex(card[m].tap) = TapIndex(card[n].tap)
      <3>1. ASSUME NEW a \in Nat, NEW b \in Nat, Hex02(a) = Hex02(b)
            PROVE  a = b
        BY <3>1, HexInjective
      <3>2. CASE TapIndex(card[m].tap) = TapIndex(card[n].tap)
        BY <3>2, <2>1
      <3>3. CASE TapIndex(card[m].tap) # TapIndex(card[n].tap)
        <4>1. Hex02(TapIndex(card[m].tap)) # Hex02(TapIndex(card[n].tap))
          BY <3>1, <3>3, <2>2
        <4> QED
          BY <4>1, <3>3, <2>1
      <3> QED
        BY <3>2, <3>3
    <2> QED
      BY <2>3, <2>4, <2>5
  <1> QED
    BY <1>1, <1>2, <1>3, PTL DEF Spec

-----------------------------------------------------------------------------
(* The network                                                             *)

(***************************************************************************)
(* The first k options of s have made x of the network: the last of them   *)
(* that concerns the network has decided, or there is none.                *)
(***************************************************************************)
Settled(s, k, x) ==
  \/ /\ x = "default"
     /\ \A i \in 1 .. k : s[i] \notin NetOpts
  \/ \E i \in 1 .. k : /\ s[i] \in NetOpts
                       /\ x = Effect(s[i], "default")
                       /\ \A j \in i + 1 .. k : s[j] \notin NetOpts

(* Nothing in s concerns the network.                                      *)
Silent(s) == \A i \in 1 .. Len(s) : s[i] \notin NetOpts

(* All a machine is started with (machine.go:125-128).                     *)
StartOpts(m) ==
  buildVMOptsFromEnv(env)
  \o <<"WithAgent", "WithSerialCapture", "WithQMP">> \o vmOpts[m]

(* vm.Start has dealt with the first k of them.                            *)
Applied(m, k) ==
  /\ Len(StartOpts(m)) = k + Len(todo[m])
  /\ \A i \in 1 .. Len(todo[m]) : todo[m][i] = StartOpts(m)[k + i]
  /\ Settled(StartOpts(m), k, net[m])

(* Options are strings; the provers are not aware that these are.          *)
Option ==
  STRING \cup NetOpts \cup
  {"WithKernelBoot", "WithUEFI", "WithCPUs", "WithTPM", "WithAgent",
   "WithSerialCapture", "WithQMP", "WithMacAddress", "WithBridge"}

(***************************************************************************)
(* What is still to be applied is a suffix of the options the machine is   *)
(* started with, and the network is what the part before it makes of it:   *)
(* NetworkDecided speaks of the last state alone.                          *)
(***************************************************************************)
NetType ==
  /\ env \in Envs
  /\ stage \in [Machines -> {"idle", "options", "start", "up", "failed"}]
  /\ todo \in [Machines -> Seq(Option)]
  /\ vmOpts \in [Machines -> Seq(Option)]
  /\ net \in [Machines -> {"default", "none", "user", "tap"}]

MachineNet(m) ==
  /\ stage[m] \in {"idle", "options"} => net[m] = "default"
  /\ stage[m] = "start" => \E k \in Nat : Applied(m, k)
  /\ stage[m] = "up" => Settled(StartOpts(m), Len(StartOpts(m)), net[m])

NetInv == NetType /\ \A m \in Machines : MachineNet(m)

(***************************************************************************)
(* Sequences written out.                                                  *)
(***************************************************************************)
LEMMA Short ==
  ASSUME NEW S
  PROVE  /\ <<>> \in Seq(S) /\ Len(<<>>) = 0
         /\ \A o \in S : <<o>> \in Seq(S) /\ Len(<<o>>) = 1 /\ <<o>>[1] = o
         /\ \A o \in S, n \in Nat : /\ [i \in 1 .. n |-> o] \in Seq(S)
                                   /\ Len([i \in 1 .. n |-> o]) = n
  BY EmptySeq

(***************************************************************************)
(* A sequence of some things is a sequence of more.                        *)
(***************************************************************************)
LEMMA Wider ==
  ASSUME NEW S, NEW T, S \subseteq T, NEW s \in Seq(S)
  PROVE  s \in Seq(T)
  OBVIOUS

(***************************************************************************)
(* Two sequences of options one after the other.                           *)
(***************************************************************************)
LEMMA Joined ==
  ASSUME NEW s \in Seq(Option), NEW t \in Seq(Option)
  PROVE  /\ s \o t \in Seq(Option)
         /\ Len(s) \in Nat /\ Len(t) \in Nat
         /\ Len(s \o t) = Len(s) + Len(t)
         /\ \A i \in 1 .. Len(s) : (s \o t)[i] = s[i]
         /\ \A i \in 1 .. Len(t) : (s \o t)[Len(s) + i] = t[i]
  <1>1. /\ Len(s \o t) = Len(s) + Len(t)
        /\ \A i \in 1 .. Len(s) + Len(t) :
             (s \o t)[i] = IF i <= Len(s) THEN s[i] ELSE t[i - Len(s)]
    BY ConcatProperties
  <1>2. s \o t \in Seq(Option) /\ Len(s) \in Nat /\ Len(t) \in Nat
    BY ConcatProperties, LenProperties
  <1> QED
    BY <1>1, <1>2

(***************************************************************************)
(* The second sequence concerns the network: what all options make of it   *)
(* is what the second alone makes of it.                                   *)
(***************************************************************************)
LEMMA SecondSpeaks ==
  ASSUME NEW s \in Seq(Option), NEW t \in Seq(Option), NEW x, ~ Silent(t),
         Settled(s \o t, Len(s \o t), x)
  PROVE  Settled(t, Len(t), x)
  <1>1. PICK h \in 1 .. Len(t) : t[h] \in NetOpts
    BY DEF Silent
  <1>2. /\ Len(s) + h \in 1 .. Len(s \o t) /\ (s \o t)[Len(s) + h] \in NetOpts
    BY <1>1, Joined
  <1>3. PICK i \in 1 .. Len(s \o t) :
           /\ (s \o t)[i] \in NetOpts
           /\ x = Effect((s \o t)[i], "default")
           /\ \A j \in i + 1 .. Len(s \o t) : (s \o t)[j] \notin NetOpts
    BY <1>2 DEF Settled
  <1>4. i > Len(s)
    <2>1. Len(s) \in Nat /\ i \in Nat /\ h \in Nat \ {0}
      BY <1>1, <1>3, LenProperties
    <2>2. i <= Len(s) => Len(s) + h \in i + 1 .. Len(s \o t)
      BY <1>2, <2>1
    <2>3. Len(s) + h \notin i + 1 .. Len(s \o t)
      BY <1>2, <1>3, Zenon
    <2> QED
      BY <2>1, <2>2, <2>3
  <1>5. PICK g \in 1 .. Len(t) : i = Len(s) + g
    <2>1. i - Len(s) \in 1 .. Len(t) /\ i = Len(s) + (i - Len(s))
      BY <1>4, Joined
    <2> QED
      BY <2>1
  <1>6. t[g] \in NetOpts /\ x = Effect(t[g], "default")
    BY <1>3, <1>5, Joined
  <1>7. ASSUME NEW j \in g + 1 .. Len(t) PROVE t[j] \notin NetOpts
    <2>1. Len(s) + j \in i + 1 .. Len(s \o t) /\ j \in 1 .. Len(t)
      BY <1>5, Joined
    <2> QED
      BY <1>3, <2>1, Joined
  <1> QED
    BY <1>6, <1>7 DEF Settled

(***************************************************************************)
(* It does not: the first decides.                                         *)
(***************************************************************************)
LEMMA FirstSpeaks ==
  ASSUME NEW s \in Seq(Option), NEW t \in Seq(Option), NEW x, Silent(t),
         Settled(s \o t, Len(s \o t), x)
  PROVE  Settled(s, Len(s), x)
  <1>1. CASE /\ x = "default"
             /\ \A i \in 1 .. Len(s \o t) : (s \o t)[i] \notin NetOpts
    <2>1. \A i \in 1 .. Len(s) : i \in 1 .. Len(s \o t) /\ (s \o t)[i] = s[i]
      BY Joined
    <2> QED
      BY <1>1, <2>1 DEF Settled
  <1>2. ASSUME NEW i \in 1 .. Len(s \o t), (s \o t)[i] \in NetOpts,
               x = Effect((s \o t)[i], "default"),
               \A j \in i + 1 .. Len(s \o t) : (s \o t)[j] \notin NetOpts
        PROVE  Settled(s, Len(s), x)
    <2>1. i <= Len(s)
      <3> SUFFICES ASSUME i > Len(s) PROVE FALSE
        BY Joined
      <3>1. i - Len(s) \in 1 .. Len(t) /\ i = Len(s) + (i - Len(s))
        BY Joined
      <3>2. (s \o t)[i] = t[i - Len(s)]
        BY <3>1, Joined
      <3> QED
        BY <1>2, <3>1, <3>2 DEF Silent
    <2>2. i \in 1 .. Len(s) /\ s[i] = (s \o t)[i]
      BY <2>1, Joined
    <2>3. ASSUME NEW j \in i + 1 .. Len(s) PROVE s[j] \notin NetOpts
      <3>1. /\ j \in i + 1 .. Len(s \o t) /\ j \in 1 .. Len(s)
        BY Joined
      <3> QED
        BY <1>2, <3>1, Joined
    <2> QED
      BY <1>2, <2>2, <2>3 DEF Settled
  <1> QED
    BY <1>1, <1>2 DEF Settled

(***************************************************************************)
(* Neither does.                                                           *)
(***************************************************************************)
LEMMA SilentJoined ==
  ASSUME NEW s \in Seq(Option), NEW t \in Seq(Option), Silent(s), Silent(t)
  PROVE  s \o t \in Seq(Option) /\ Silent(s \o t)
  <1> SUFFICES ASSUME NEW i \in 1 .. Len(s \o t) PROVE (s \o t)[i] \notin NetOpts
    BY Joined DEF Silent
  <1>1. CASE i \in 1 .. Len(s)
    BY <1>1, Joined DEF Silent
  <1>2. CASE i > Len(s)
    <2>1. i - Len(s) \in 1 .. Len(t) /\ i = Len(s) + (i - Len(s))
      BY <1>2, Joined
    <2>2. (s \o t)[i] = t[i - Len(s)]
      BY <2>1, Joined
    <2> QED
      BY <2>1, <2>2 DEF Silent
  <1> QED
    BY <1>1, <1>2, Joined

(***************************************************************************)
(* What the environment makes of the network (machine.go:894-922): a port  *)
(* forward decides, and VMTEST_NETWORK if there is none.                   *)
(***************************************************************************)
EnvNet(e) ==
  IF e.forwards # <<>> THEN "user"
  ELSE CASE e.network = "none"   -> "none"
         [] e.network = "bridge" -> "default"
         [] OTHER                -> "user"

(***************************************************************************)
(* The options buildVMOptsFromEnv returns make just that of the network.   *)
(***************************************************************************)
LEMMA EnvOpts ==
  ASSUME NEW e \in Envs
  PROVE  /\ buildVMOptsFromEnv(e) \in Seq(Option)
         /\ \A x : Settled(buildVMOptsFromEnv(e), Len(buildVMOptsFromEnv(e)), x)
                     => x = EnvNet(e)
  <1> DEFINE k  == Opt(e.kernel, "WithKernelBoot")
             u  == Opt(e.ovmfCode /\ e.ovmfVars, "WithUEFI")
             c  == Opt(e.cpus # "", "WithCPUs")
             p  == Opt(e.tpm /\ e.swtpm, "WithTPM")
             other == e.plain \o k \o u \o c \o p
  <1>1. e.plain \in Seq(Option) /\ Silent(e.plain) /\ e.forwards \in Seq(STRING)
    <2>1. e.plain \in Seq(STRING \ NetOpts) /\ e.forwards \in Seq(STRING)
      BY EnvsAssumption
    <2>2. /\ Len(e.plain) \in Nat
          /\ e.plain \in [1 .. Len(e.plain) -> STRING \ NetOpts]
      BY <2>1, LenProperties
    <2>3. e.plain \in Seq(Option)
      <3>1. STRING \ NetOpts \subseteq Option
        BY DEF Option
      <3> QED
        BY <2>1, <3>1, Wider
    <2> QED
      BY <2>1, <2>2, <2>3 DEF Silent
  <1>s. /\ <<>> \in Seq(Option) /\ Len(<<>>) = 0
        /\ \A o \in Option : <<o>> \in Seq(Option) /\ Len(<<o>>) = 1 /\ <<o>>[1] = o
    BY Short
  <1>o. /\ NetOpts \subseteq Option /\ STRING \subseteq Option
        /\ {"WithKernelBoot", "WithUEFI", "WithCPUs", "WithTPM"} \subseteq Option \ NetOpts
    BY DEF Option, NetOpts
  <1>2. ASSUME NEW b, NEW o \in Option \ NetOpts
        PROVE  Opt(b, o) \in Seq(Option) /\ Silent(Opt(b, o))
    <2>1. <<o>> \in Seq(Option) /\ Silent(<<o>>)
      BY <1>s, <1>2 DEF Silent
    <2>2. <<>> \in Seq(Option) /\ Silent(<<>>)
      BY <1>s DEF Silent
    <2>3. Opt(b, o) = <<o>> \/ Opt(b, o) = <<>>
      BY DEF Opt
    <2> QED
      BY <2>1, <2>2, <2>3
  <1>3. /\ k \in Seq(Option) /\ Silent(k) /\ u \in Seq(Option) /\ Silent(u)
        /\ c \in Seq(Option) /\ Silent(c) /\ p \in Seq(Option) /\ Silent(p)
    <2>2. k \in Seq(Option) /\ Silent(k)
      BY <1>2, <1>o
    <2>3. u \in Seq(Option) /\ Silent(u)
      BY <1>2, <1>o
    <2>4. c \in Seq(Option) /\ Silent(c)
      BY <1>2, <1>o
    <2>5. p \in Seq(Option) /\ Silent(p)
      BY <1>2, <1>o
    <2> QED
      BY <2>2, <2>3, <2>4, <2>5
  <1>4. other \in Seq(Option) /\ Silent(other)
    <2> HIDE DEF k, u, c, p
    <2>1. e.plain \o k \in Seq(Option) /\ Silent(e.plain \o k)
      BY <1>1, <1>3, SilentJoined
    <2>2. e.plain \o k \o u \in Seq(Option) /\ Silent(e.plain \o k \o u)
      BY <1>3, <2>1, SilentJoined
    <2>3. e.plain \o k \o u \o c \in Seq(Option) /\ Silent(e.plain \o k \o u \o c)
      BY <1>3, <2>2, SilentJoined
    <2> QED
      BY <1>3, <2>3, SilentJoined
  <1>5. buildVMOptsFromEnv(e) = other \o Network(e)
    BY DEF buildVMOptsFromEnv
  <1> HIDE DEF other
  <1>6. /\ NetworkMode(e) \in Seq(Option)
        /\ \A x : Settled(NetworkMode(e), Len(NetworkMode(e)), x) =>
             x = CASE e.network = "none"   -> "none"
                   [] e.network = "bridge" -> "default"
                   [] OTHER                -> "user"
    <2>1. CASE e.network = "none"
      <3>1. NetworkMode(e) = <<"WithNoNetwork">>
        BY <2>1 DEF NetworkMode
      <3>2. \A x : Settled(<<"WithNoNetwork">>, 1, x) => x = "none"
        BY DEF Settled, Effect, NetOpts
      <3> QED
        BY <1>s, <1>o, <2>1, <3>1, <3>2 DEF NetOpts
    <2>2. CASE e.network = "bridge"
      <3>1. NetworkMode(e) = <<>>
        BY <2>2 DEF NetworkMode
      <3>2. \A x : Settled(<<>>, 0, x) => x = "default"
        BY DEF Settled
      <3> QED
        BY <1>s, <2>2, <3>1, <3>2
    <2>3. CASE e.network \notin {"none", "bridge"}
      <3>1. NetworkMode(e) = <<"WithUserNet">>
        BY <2>3 DEF NetworkMode
      <3>2. \A x : Settled(<<"WithUserNet">>, 1, x) => x = "user"
        BY DEF Settled, Effect, NetOpts
      <3> QED
        BY <1>s, <1>o, <2>3, <3>1, <3>2 DEF NetOpts
    <2> QED
      BY <2>1, <2>2, <2>3
  <1>7. /\ Forwards(e) \in Seq(Option) /\ Len(Forwards(e)) = Len(e.forwards)
        /\ \A i \in 1 .. Len(Forwards(e)) : Forwards(e)[i] = "WithPortForward"
    <2>1. DOMAIN e.forwards = 1 .. Len(e.forwards) /\ Len(e.forwards) \in Nat
      BY <1>1, LenProperties
    <2>2. Forwards(e) = [i \in 1 .. Len(e.forwards) |-> "WithPortForward"]
      BY <2>1 DEF Forwards
    <2>3. "WithPortForward" \in Option
      BY DEF Option, NetOpts
    <2> QED
      BY <2>1, <2>2, <2>3, Short
  <1>8. /\ Silent(Forwards(e)) <=> e.forwards = <<>>
        /\ \A x : e.forwards # <<>> /\ Settled(Forwards(e), Len(Forwards(e)), x)
                    => x = "user"
    BY <1>1, <1>7, EmptySeq DEF Silent, Settled, Effect, NetOpts
  <1>9. Network(e) \in Seq(Option)
    BY <1>6, <1>7, Joined DEF Network
  <1>10. ASSUME NEW x, Settled(Network(e), Len(Network(e)), x)
         PROVE  x = EnvNet(e)
    <2>1. CASE e.forwards # <<>>
      <3>1. Settled(Forwards(e), Len(Forwards(e)), x)
        BY <1>6, <1>7, <1>8, <1>10, <2>1, SecondSpeaks DEF Network
      <3> QED
        BY <1>8, <2>1, <3>1 DEF EnvNet
    <2>2. CASE e.forwards = <<>>
      <3>1. Settled(NetworkMode(e), Len(NetworkMode(e)), x)
        BY <1>6, <1>7, <1>8, <1>10, <2>2, FirstSpeaks DEF Network
      <3> QED
        BY <1>6, <2>2, <3>1 DEF EnvNet
    <2> QED
      BY <2>1, <2>2
  <1>11. ASSUME NEW x, Settled(other \o Network(e), Len(other \o Network(e)), x)
         PROVE  x = EnvNet(e)
    <2>1. CASE ~ Silent(Network(e))
      BY <1>4, <1>9, <1>10, <1>11, <2>1, SecondSpeaks
    <2>2. CASE Silent(Network(e))
      <3>1. Settled(other, Len(other), x)
        BY <1>4, <1>9, <1>11, <2>2, FirstSpeaks
      <3>2. x = "default"
        BY <1>4, <3>1 DEF Settled, Silent
      <3>3. Settled(Network(e), Len(Network(e)), x)
        BY <2>2, <3>2 DEF Settled, Silent
      <3> QED
        BY <1>10, <3>3
    <2> QED
      BY <2>1, <2>2
  <1> QED
    BY <1>4, <1>5, <1>9, <1>11, Joined

(***************************************************************************)
(* The options a machine is started with: those New adds itself do not     *)
(* concern the network.                                                    *)
(***************************************************************************)
LEMMA StartOptsType ==
  ASSUME NetType, NEW m \in Machines
  PROVE  /\ buildVMOptsFromEnv(env) \in Seq(Option)
         /\ <<"WithAgent", "WithSerialCapture", "WithQMP">> \in Seq(Option)
         /\ Silent(<<"WithAgent", "WithSerialCapture", "WithQMP">>)
         /\ vmOpts[m] \in Seq(Option)
         /\ buildVMOptsFromEnv(env) \o <<"WithAgent", "WithSerialCapture", "WithQMP">>
              \in Seq(Option)
         /\ StartOpts(m) \in Seq(Option)
  <1> DEFINE fixed == <<"WithAgent", "WithSerialCapture", "WithQMP">>
  <1>1. buildVMOptsFromEnv(env) \in Seq(Option)
    BY EnvOpts DEF NetType
  <1>2. fixed \in Seq(Option)
    <2>1. {"WithAgent", "WithSerialCapture", "WithQMP"} \subseteq Option
      BY DEF Option
    <2> QED
      BY <2>1
  <1>3. Silent(fixed)
    BY DEF Silent, NetOpts
  <1>4. vmOpts[m] \in Seq(Option)
    BY DEF NetType
  <1> HIDE DEF fixed
  <1>5. buildVMOptsFromEnv(env) \o fixed \in Seq(Option)
    BY <1>1, <1>2, Joined
  <1>6. StartOpts(m) \in Seq(Option)
    BY <1>4, <1>5, Joined DEF StartOpts, fixed
  <1> QED
    BY <1>1, <1>2, <1>3, <1>4, <1>5, <1>6 DEF fixed

(***************************************************************************)
(* vm.Start goes on to its next option.                                    *)
(***************************************************************************)
LEMMA OneMore ==
  ASSUME NEW s, NEW k \in Nat, NEW x, Settled(s, k, x)
  PROVE  Settled(s, k + 1, Effect(s[k + 1], x))
  <1>1. CASE s[k + 1] \in NetOpts
    <2>1. Effect(s[k + 1], x) = Effect(s[k + 1], "default")
      BY <1>1 DEF Effect, NetOpts
    <2>2. k + 1 \in 1 .. k + 1 /\ \A j \in k + 2 .. k + 1 : FALSE
      OBVIOUS
    <2> QED
      BY <1>1, <2>1, <2>2 DEF Settled
  <1>2. CASE s[k + 1] \notin NetOpts
    <2>1. Effect(s[k + 1], x) = x
      BY <1>2 DEF Effect, NetOpts
    <2>2. \A j \in 1 .. k + 1 : j \in 1 .. k \/ j = k + 1
      OBVIOUS
    <2>3. CASE x = "default" /\ \A i \in 1 .. k : s[i] \notin NetOpts
      BY <1>2, <2>1, <2>2, <2>3 DEF Settled
    <2>4. ASSUME NEW i \in 1 .. k, s[i] \in NetOpts, x = Effect(s[i], "default"),
                 \A j \in i + 1 .. k : s[j] \notin NetOpts
          PROVE  Settled(s, k + 1, x)
      <3>1. \A j \in i + 1 .. k + 1 : s[j] \notin NetOpts
        BY <1>2, <2>4
      <3> QED
        BY <2>4, <3>1 DEF Settled
    <2> QED
      BY <2>1, <2>3, <2>4 DEF Settled
  <1> QED
    BY <1>1, <1>2

(***************************************************************************)
(* Each step of a machine keeps the types.                                 *)
(***************************************************************************)
LEMMA NetTypeStep ==
  ASSUME NetType, [Next]_vars
  PROVE  NetType'
  <1>1. ASSUME NEW m \in Machines, New(m) PROVE NetType'
    <2>1. Given \subseteq Seq(Option)
      <3>1. STRING \subseteq Option
        BY DEF Option
      <3> QED
        BY <3>1, GivenAssumption, Wider
    <2> QED
      BY <1>1, <2>1 DEF New, To, NetType
  <1>2. ASSUME NEW m \in Machines, WithBridge(m) PROVE NetType'
    <2>1. <<"WithTapDevice", "WithMacAddress">> \in Seq(Option)
      <3>1. {"WithTapDevice", "WithMacAddress"} \subseteq Option
        BY DEF Option, NetOpts
      <3> QED
        BY <3>1
    <2>2. vmOpts[m] \o <<"WithTapDevice", "WithMacAddress">> \in Seq(Option)
      BY <2>1, Joined DEF NetType
    <2>3. todo[m] # <<>> => Tail(todo[m]) \in Seq(Option)
      BY HeadTailProperties DEF NetType
    <2>4. /\ env' = env /\ net' = net /\ todo[m] # <<>>
          /\ stage' = stage \/ stage' = [stage EXCEPT ![m] = "failed"]
          /\ todo' = todo \/ todo' = [todo EXCEPT ![m] = Tail(todo[m])]
          /\ \/ vmOpts' = vmOpts
             \/ vmOpts' = [vmOpts EXCEPT ![m] =
                             vmOpts[m] \o <<"WithTapDevice", "WithMacAddress">>]
      BY <1>2 DEF WithBridge, Collect, To
    <2>5. stage' \in [Machines -> {"idle", "options", "start", "up", "failed"}]
      BY <2>4 DEF NetType
    <2>6. todo' \in [Machines -> Seq(Option)]
      BY <2>3, <2>4 DEF NetType
    <2>7. vmOpts' \in [Machines -> Seq(Option)]
      BY <2>2, <2>4 DEF NetType
    <2> QED
      BY <2>4, <2>5, <2>6, <2>7 DEF NetType
  <1>3. ASSUME NEW m \in Machines, PassOn(m) PROVE NetType'
    <2>1. Tail(todo[m]) \in Seq(Option) /\ Head(todo[m]) \in Option
      BY <1>3, HeadTailProperties DEF PassOn, NetType
    <2>2. vmOpts[m] \o <<Head(todo[m])>> \in Seq(Option)
      <3>1. <<Head(todo[m])>> \in Seq(Option)
        BY <2>1, Short
      <3> QED
        BY <3>1, Joined DEF NetType
    <2> QED
      BY <1>3, <2>1, <2>2 DEF PassOn, Collect, NetType
  <1>4. ASSUME NEW m \in Machines, Environment(m) PROVE NetType'
    <2>1. StartOpts(m) \in Seq(Option)
      BY StartOptsType
    <2> QED
      BY <1>4, <2>1 DEF Environment, To, NetType, StartOpts
  <1>5. ASSUME NEW m \in Machines, Apply(m) PROVE NetType'
    <2>1. Tail(todo[m]) \in Seq(Option)
      BY <1>5, HeadTailProperties DEF Apply, NetType
    <2>2. net[m] \in {"default", "none", "user", "tap"}
      BY DEF NetType
    <2>3. Effect(Head(todo[m]), net[m]) \in {"default", "none", "user", "tap"}
      BY <2>2 DEF Effect
    <2>4. /\ net' = [net EXCEPT ![m] = Effect(Head(todo[m]), net[m])]
          /\ todo' = [todo EXCEPT ![m] = Tail(todo[m])]
          /\ UNCHANGED <<env, stage, vmOpts>>
      BY <1>5 DEF Apply
    <2> HIDE DEF Effect
    <2> QED
      BY <2>1, <2>3, <2>4 DEF NetType
  <1>6. ASSUME NEW m \in Machines, Started(m) PROVE NetType'
    BY <1>6 DEF Started, To, NetType
  <1>7. CASE UNCHANGED optVars
    BY <1>7 DEF NetType, optVars
  <1> QED
    BY <1>1, <1>2, <1>3, <1>4, <1>5, <1>6, <1>7 DEF Next, OptNext, vars

(***************************************************************************)
(* A machine that takes no step stays as it is: the environment and the    *)
(* options of another are not its business.                                *)
(***************************************************************************)
LEMMA NetFrame ==
  ASSUME NEW m \in Machines, MachineNet(m), env' = env, stage'[m] = stage[m],
         todo'[m] = todo[m], vmOpts'[m] = vmOpts[m], net'[m] = net[m]
  PROVE  MachineNet(m)'
  BY DEF MachineNet, Applied, StartOpts

(***************************************************************************)
(* Nothing is applied before vm.Start, and then one option at a time.      *)
(***************************************************************************)
LEMMA MachineNetStep ==
  ASSUME NetInv, [Next]_vars, NEW n \in Machines
  PROVE  MachineNet(n)'
  <1>0. NetType /\ MachineNet(n)
    BY DEF NetInv
  <1>1. ASSUME NEW m \in Machines, m # n,
               \/ New(m) \/ WithBridge(m) \/ PassOn(m)
               \/ Environment(m) \/ Apply(m) \/ Started(m)
        PROVE  MachineNet(n)'
    <2>1. /\ env' = env /\ stage'[n] = stage[n] /\ todo'[n] = todo[n]
          /\ vmOpts'[n] = vmOpts[n] /\ net'[n] = net[n]
      BY <1>0, <1>1 DEF New, WithBridge, PassOn, Environment, Apply, Started,
                        To, Collect, NetType
    <2> QED
      BY <1>0, <2>1, NetFrame
  <1>2. CASE New(n) \/ WithBridge(n) \/ PassOn(n)
    <2>1. /\ stage[n] \in {"idle", "options"} /\ net' = net
          /\ stage'[n] \in {"options", "failed"}
      BY <1>0, <1>2 DEF New, WithBridge, PassOn, To, NetType
    <2> QED
      BY <1>0, <2>1 DEF MachineNet
  <1>3. CASE Environment(n)
    <2>1. stage[n] = "options" /\ UNCHANGED <<env, vmOpts, net>>
      BY <1>3 DEF Environment
    <2>2. CASE stage'[n] = "start" /\ todo'[n] = StartOpts(n)
      <3>1. Len(StartOpts(n)) \in Nat
        BY <1>0, StartOptsType, LenProperties
      <3>2. StartOpts(n)' = StartOpts(n)
        BY <2>1 DEF StartOpts
      <3>3. net'[n] = "default"
        BY <1>0, <2>1 DEF MachineNet
      <3>4. Settled(StartOpts(n), 0, net'[n])
        BY <3>3 DEF Settled
      <3>5. Applied(n, 0)'
        BY <2>2, <3>1, <3>2, <3>4 DEF Applied
      <3> QED
        BY <2>2, <3>5 DEF MachineNet
    <2>3. CASE stage'[n] = "failed"
      BY <2>3 DEF MachineNet
    <2> QED
      BY <1>0, <1>3, <2>2, <2>3 DEF Environment, To, NetType, StartOpts
  <1>4. CASE Apply(n)
    <2>1. /\ stage[n] = "start" /\ stage'[n] = "start" /\ todo[n] # <<>>
          /\ net'[n] = Effect(Head(todo[n]), net[n]) /\ todo'[n] = Tail(todo[n])
          /\ UNCHANGED <<env, vmOpts>>
      BY <1>0, <1>4 DEF Apply, NetType
    <2>2. StartOpts(n)' = StartOpts(n)
      BY <2>1 DEF StartOpts
    <2>3. PICK k \in Nat : Applied(n, k)
      BY <1>0, <2>1 DEF MachineNet
    <2>4. /\ Len(todo[n]) \in Nat \ {0} /\ Head(todo[n]) = todo[n][1]
          /\ Len(todo'[n]) = Len(todo[n]) - 1
          /\ \A i \in 1 .. Len(todo'[n]) : todo'[n][i] = todo[n][i + 1]
      BY <1>0, <2>1, HeadTailProperties, EmptySeq DEF NetType
    <2>5. Head(todo[n]) = StartOpts(n)[k + 1]
      BY <2>3, <2>4 DEF Applied
    <2>6. Settled(StartOpts(n), k + 1, net'[n])
      BY <2>1, <2>3, <2>5, OneMore DEF Applied
    <2>7. Len(StartOpts(n)) = (k + 1) + Len(todo'[n])
      <3>1. Len(StartOpts(n)) = k + Len(todo[n])
        BY <2>3 DEF Applied
      <3>2. Len(todo[n]) \in Nat /\ Len(todo'[n]) = Len(todo[n]) - 1
        BY <2>4
      <3>3. \A l \in Nat : k + l = (k + 1) + (l - 1)
        OBVIOUS
      <3> QED
        BY <3>1, <3>2, <3>3
    <2>8. ASSUME NEW i \in 1 .. Len(todo'[n])
          PROVE  todo'[n][i] = StartOpts(n)[(k + 1) + i]
      <3>1. i + 1 \in 1 .. Len(todo[n]) /\ k + (i + 1) = (k + 1) + i
        BY <2>4
      <3> QED
        BY <2>3, <2>4, <3>1 DEF Applied
    <2>9. Applied(n, k + 1)'
      BY <2>2, <2>6, <2>7, <2>8 DEF Applied
    <2> QED
      BY <2>1, <2>9 DEF MachineNet
  <1>5. CASE Started(n)
    <2>1. /\ stage[n] = "start" /\ stage'[n] = "up" /\ todo[n] = <<>>
          /\ UNCHANGED <<env, vmOpts, net>>
      BY <1>0, <1>5 DEF Started, To, NetType
    <2>2. PICK k \in Nat : Applied(n, k)
      BY <1>0, <2>1 DEF MachineNet
    <2>3. Len(StartOpts(n)) = k
      BY <2>1, <2>2, EmptySeq DEF Applied
    <2> QED
      BY <2>1, <2>2, <2>3 DEF MachineNet, Applied, StartOpts
  <1>6. CASE UNCHANGED optVars
    BY <1>0, <1>6, NetFrame DEF optVars
  <1> QED
    BY <1>1, <1>2, <1>3, <1>4, <1>5, <1>6 DEF Next, OptNext, vars

(***************************************************************************)
(* The right option decides (machine.go:121-128, 894-922): the last of the *)
(* test's own that concerns the network, without one a port forward of the *)
(* environment, and without that VMTEST_NETWORK; for any environments and  *)
(* any options, in any number.                                             *)
(***************************************************************************)
THEOREM RightOneDecides == Spec => []NetworkDecided
  <1>1. Init => NetInv
    <2> SUFFICES ASSUME Init PROVE NetInv
      OBVIOUS
    <2>1. NetType
      BY Short DEF Init, OptIdle, NetType
    <2>2. \A m \in Machines : MachineNet(m)
      BY DEF Init, OptIdle, MachineNet
    <2> QED
      BY <2>1, <2>2 DEF NetInv
  <1>2. NetInv /\ [Next]_<<qemuVars, optVars>> => NetInv'
    BY NetTypeStep, MachineNetStep DEF NetInv, vars
  <1>3. NetInv => NetworkDecided
    <2> SUFFICES ASSUME NetInv, NEW m \in Machines, stage[m] = "up"
                 PROVE  LET own == {i \in DOMAIN vmOpts[m] : vmOpts[m][i] \in NetOpts}
                        IN  IF own # {}
                            THEN \E i \in own : /\ \A j \in own : j <= i
                                                /\ net[m] = Effect(vmOpts[m][i], "default")
                            ELSE net[m] = EnvNet(env)
      BY DEF NetworkDecided, EnvNet
    <2> DEFINE first == buildVMOptsFromEnv(env)
                        \o <<"WithAgent", "WithSerialCapture", "WithQMP">>
               own == {i \in DOMAIN vmOpts[m] : vmOpts[m][i] \in NetOpts}
    <2>0. NetType
      BY DEF NetInv
    <2>1. Settled(first \o vmOpts[m], Len(first \o vmOpts[m]), net[m])
      BY DEF NetInv, MachineNet, StartOpts
    <2>2. first \in Seq(Option) /\ vmOpts[m] \in Seq(Option)
      BY <2>0, StartOptsType
    <2>3. DOMAIN vmOpts[m] = 1 .. Len(vmOpts[m]) /\ Len(vmOpts[m]) \in Nat
      BY <2>2, LenProperties
    <2>4. CASE own # {}
      <3>1. ~ Silent(vmOpts[m])
        BY <2>3, <2>4 DEF Silent
      <3>2. Settled(vmOpts[m], Len(vmOpts[m]), net[m])
        <4> HIDE DEF first
        <4> QED
          BY <2>1, <2>2, <3>1, SecondSpeaks
      <3>3. PICK i \in 1 .. Len(vmOpts[m]) :
               /\ vmOpts[m][i] \in NetOpts
               /\ net[m] = Effect(vmOpts[m][i], "default")
               /\ \A j \in i + 1 .. Len(vmOpts[m]) : vmOpts[m][j] \notin NetOpts
        BY <3>1, <3>2 DEF Settled, Silent
      <3>4. i \in own /\ \A j \in own : j <= i
        BY <2>3, <3>3
      <3> QED
        BY <2>4, <3>3, <3>4
    <2>5. CASE own = {}
      <3>1. Silent(vmOpts[m])
        BY <2>3, <2>5 DEF Silent
      <3>2. Settled(first, Len(first), net[m])
        <4> HIDE DEF first
        <4> QED
          BY <2>1, <2>2, <3>1, FirstSpeaks
      <3>3. Settled(buildVMOptsFromEnv(env), Len(buildVMOptsFromEnv(env)), net[m])
        BY <2>0, <3>2, StartOptsType, FirstSpeaks
      <3>4. net[m] = EnvNet(env)
        BY <2>0, <3>3, EnvOpts DEF NetType
      <3> QED
        BY <2>5, <3>4
    <2> QED
      BY <2>4, <2>5
  <1> QED
    BY <1>1, <1>2, <1>3, PTL DEF Spec

-----------------------------------------------------------------------------
(* The command line of QEMU                                                *)

(* The ids in the command line.                                            *)
Ids == {"net0", "net1", "char0", "tpm0", "pflash0", "pflash1", "scsi0", "cd0", "disk"}

(* Its arguments: a device that names a slot names one from 4.             *)
Arg ==
  [id : Ids \cup {""}, needs : SUBSET Ids, slot : {NotPci, AnySlot} \cup 4 .. 30,
   boot : Int, device : BOOLEAN]

(* QEMU looks at s[j] before it looks at s[i].                             *)
Before(s, j, i) ==
  \/ ~ s[j].device /\ s[i].device
  \/ (s[j].device <=> s[i].device) /\ j < i

(* Two arguments that can both be there.                                   *)
Apart(a, b) ==
  /\ a.id # "" => a.id # b.id
  /\ a.slot \notin {NotPci, AnySlot} => a.slot # b.slot
  /\ a.boot # NoBoot => a.boot # b.boot

(***************************************************************************)
(* Arguments that do not clash with one another: ids, slots and boot       *)
(* indexes are given once, and an id is defined before it is used.         *)
(***************************************************************************)
Consistent(s) ==
  /\ s \in Seq(Arg)
  /\ \A i, j \in 1 .. Len(s) : i # j => Apart(s[i], s[j])
  /\ \A i \in 1 .. Len(s) : \A x \in s[i].needs :
       \E j \in 1 .. Len(s) : s[j].id = x /\ Before(s, j, i)
  /\ \A i \in 1 .. Len(s) : ~ s[i].device => s[i].slot = NotPci

(* The devices that leave the slot to QEMU come first.                     *)
Begins(s) ==
  /\ Len(s) >= 3
  /\ s[1].device /\ s[1].slot = AnySlot
  /\ ~ s[2].device
  /\ s[3].device /\ s[3].slot = AnySlot
  /\ \A i \in 4 .. Len(s) : s[i].slot # AnySlot

(* The arguments QEMU has dealt with.                                      *)
Done ==
  {j \in 1 .. Len(args) : IF args[j].device THEN pass = 2 /\ j < next
                          ELSE pass = 2 \/ j < next}

(***************************************************************************)
(* QEMU has taken just what the arguments it has dealt with ask for, and   *)
(* of the slots it chooses those up to 3: it chooses them before any       *)
(* device names one.                                                       *)
(***************************************************************************)
SlotsInv ==
  /\ pass = 1 \/ next = 1 => slots \in {{0}, {0, 1}}
  /\ pass = 2 /\ next \in {2, 3} => slots \in {{0, 1}, {0, 1, 2}}
  /\ pass = 2 /\ next > 3 =>
       \A r \in slots : r \in 0 .. 3 \/ \E j \in Done : args[j].slot = r

StartingInv ==
  /\ Consistent(args) /\ Begins(args)
  /\ pass \in {1, 2} /\ next \in 1 .. Len(args) + 1
  /\ ids = {args[j].id : j \in Done} \ {""}
  /\ boots = {args[j].boot : j \in Done} \ {NoBoot}
  /\ SlotsInv

QemuInv ==
  /\ qemu \in {"none", "starting", "running", "refused"}
  /\ qemu = "none" => QemuIdle
  /\ qemu = "starting" => StartingInv
  /\ qemu \in {"starting", "running"} => Fits(conf)
  /\ qemu = "refused" => ~ Fits(conf)

(* What a part of the command line defines and asks for.                   *)
Within(s, I, S, B) ==
  \A i \in 1 .. Len(s) : /\ s[i].id \in I \cup {""}
                         /\ s[i].slot \in S \cup {NotPci}
                         /\ s[i].boot \in B \cup {NoBoot}

(***************************************************************************)
(* Parts that have nothing in common can follow one another.               *)
(***************************************************************************)
LEMMA Parts ==
  ASSUME NEW s, NEW t, Consistent(s), Consistent(t),
         NEW I, NEW S, NEW B, Within(s, I, S, B),
         NEW J, NEW T, NEW C, Within(t, J, T, C),
         I \cap J = {}, S \cap T = {}, B \cap C = {}
  PROVE  Consistent(s \o t) /\ Within(s \o t, I \cup J, S \cup T, B \cup C)
  <1> DEFINE st == s \o t
  <1>1. /\ s \in Seq(Arg) /\ t \in Seq(Arg) /\ st \in Seq(Arg)
        /\ Len(s) \in Nat /\ Len(t) \in Nat /\ Len(st) = Len(s) + Len(t)
        /\ \A i \in 1 .. Len(s) + Len(t) :
             st[i] = IF i <= Len(s) THEN s[i] ELSE t[i - Len(s)]
    <2>1. s \in Seq(Arg) /\ t \in Seq(Arg)
      BY DEF Consistent
    <2> QED
      BY <2>1, ConcatProperties, LenProperties
  <1> HIDE DEF st
  <1>2. \A i \in 1 .. Len(st) :
          \/ i \in 1 .. Len(s) /\ st[i] = s[i]
          \/ i > Len(s) /\ i - Len(s) \in 1 .. Len(t) /\ st[i] = t[i - Len(s)]
    BY <1>1
  <1>3. /\ \A i \in 1 .. Len(s) : i \in 1 .. Len(st) /\ st[i] = s[i]
        /\ \A i \in 1 .. Len(t) : /\ Len(s) + i \in 1 .. Len(st)
                                  /\ st[Len(s) + i] = t[i]
    BY <1>1
  <1>6. \A i \in 1 .. Len(st) : i > Len(s) =>
          \E h \in 1 .. Len(t) : i = Len(s) + h /\ st[i] = t[h]
    <2> SUFFICES ASSUME NEW i \in 1 .. Len(st), i > Len(s)
                 PROVE  \E h \in 1 .. Len(t) : i = Len(s) + h /\ st[i] = t[h]
      OBVIOUS
    <2>1. /\ i - Len(s) \in 1 .. Len(t) /\ i = Len(s) + (i - Len(s))
          /\ st[i] = t[i - Len(s)]
      BY <1>1, <1>2
    <2> QED
      BY <2>1
  <1>4. Within(st, I \cup J, S \cup T, B \cup C)
    BY <1>2 DEF Within
  <1>5. ASSUME NEW i \in 1 .. Len(st), NEW j \in 1 .. Len(st), i # j
        PROVE  Apart(st[i], st[j])
    <2>1. CASE i \in 1 .. Len(s) /\ j \in 1 .. Len(s)
      BY <1>3, <1>5, <2>1 DEF Consistent
    <2>2. CASE i > Len(s) /\ j > Len(s)
      <3>1. PICK h \in 1 .. Len(t) : i = Len(s) + h /\ st[i] = t[h]
        BY <1>6, <2>2
      <3>2. PICK g \in 1 .. Len(t) : j = Len(s) + g /\ st[j] = t[g]
        BY <1>6, <2>2
      <3>3. h # g
        BY <1>5, <3>1, <3>2
      <3> QED
        BY <3>1, <3>2, <3>3 DEF Consistent
    <2>3. CASE i \in 1 .. Len(s) /\ j > Len(s)
      <3>1. PICK g \in 1 .. Len(t) : st[j] = t[g]
        BY <1>6, <2>3
      <3>2. /\ st[i].id \in I \cup {""} /\ st[j].id \in J \cup {""}
            /\ st[i].slot \in S \cup {NotPci}
            /\ st[j].slot \in T \cup {NotPci}
            /\ st[i].boot \in B \cup {NoBoot} /\ st[j].boot \in C \cup {NoBoot}
        BY <1>3, <2>3, <3>1 DEF Within
      <3> QED
        BY <3>2 DEF Apart
    <2>4. CASE i > Len(s) /\ j \in 1 .. Len(s)
      <3>1. PICK h \in 1 .. Len(t) : st[i] = t[h]
        BY <1>6, <2>4
      <3>2. /\ st[j].id \in I \cup {""} /\ st[i].id \in J \cup {""}
            /\ st[j].slot \in S \cup {NotPci}
            /\ st[i].slot \in T \cup {NotPci}
            /\ st[j].boot \in B \cup {NoBoot} /\ st[i].boot \in C \cup {NoBoot}
        BY <1>3, <2>4, <3>1 DEF Within
      <3> QED
        BY <3>2 DEF Apart
    <2> QED
      BY <1>1, <1>5, <2>1, <2>2, <2>3, <2>4
  <1>7. ASSUME NEW i \in 1 .. Len(st), NEW x \in st[i].needs
        PROVE  \E j \in 1 .. Len(st) : st[j].id = x /\ Before(st, j, i)
    <2>1. CASE i \in 1 .. Len(s)
      <3>1. PICK j \in 1 .. Len(s) : s[j].id = x /\ Before(s, j, i)
        BY <1>3, <2>1 DEF Consistent
      <3>2. st[j].id = x /\ Before(st, j, i)
        BY <1>3, <2>1, <3>1 DEF Before
      <3> QED
        BY <1>3, <3>2
    <2>2. CASE i > Len(s)
      <3> DEFINE h == i - Len(s)
      <3>1. h \in 1 .. Len(t) /\ st[i] = t[h] /\ i = Len(s) + h
        BY <1>1, <1>2, <2>2
      <3> HIDE DEF h
      <3>2. PICK j \in 1 .. Len(t) : t[j].id = x /\ Before(t, j, h)
        BY <3>1 DEF Consistent
      <3>3. j < h => Len(s) + j < i
        BY <1>1, <3>1
      <3>4. st[Len(s) + j].id = x /\ Before(st, Len(s) + j, i)
        BY <1>3, <3>1, <3>2, <3>3 DEF Before
      <3> QED
        BY <1>3, <3>4
    <2> QED
      BY <1>1, <2>1, <2>2
  <1>8. ASSUME NEW i \in 1 .. Len(st), ~ st[i].device PROVE st[i].slot = NotPci
    <2>1. CASE i \in 1 .. Len(s)
      BY <1>3, <1>8, <2>1 DEF Consistent
    <2>2. CASE i > Len(s)
      <3>1. PICK h \in 1 .. Len(t) : st[i] = t[h]
        BY <1>6, <2>2
      <3> QED
        BY <1>8, <3>1 DEF Consistent
    <2> QED
      BY <1>1, <2>1, <2>2
  <1>9. Consistent(st)
    BY <1>1, <1>5, <1>7, <1>8 DEF Consistent
  <1> QED
    BY <1>4, <1>9 DEF st

(***************************************************************************)
(* Places in the boot order, and none, are numbers.                        *)
(***************************************************************************)
LEMMA BootInt == NoBoot \in Int /\ 0 \in Int /\ 1 \in Int
  BY DEF NoBoot

(***************************************************************************)
(* No slot that is named, and no place, is mistaken for none.              *)
(***************************************************************************)
LEMMA SlotNumbers ==
  /\ NotPci \notin {4, 5, 6} /\ AnySlot \notin {4, 5, 6} /\ NoBoot \notin {0, 1}
  /\ 4 # 5 /\ 0 # 1
  BY DEF NotPci, AnySlot, NoBoot

(***************************************************************************)
(* What a back end is made of.                                             *)
(***************************************************************************)
LEMMA BackEndFields ==
  ASSUME NEW id \in Ids \cup {""}, NEW needs \in SUBSET Ids
  PROVE  LET a == BackEnd(id, needs)
         IN  /\ a \in Arg /\ a.id = id /\ a.needs = needs /\ a.slot = NotPci
             /\ a.boot = NoBoot /\ ~ a.device
  <1>1. BackEnd(id, needs) \in Arg
    BY BootInt DEF BackEnd, Arg
  <1> QED
    BY <1>1 DEF BackEnd

(***************************************************************************)
(* A device, and the slot and the place it asks for.                       *)
(***************************************************************************)
LEMMA DeviceFields ==
  ASSUME NEW id \in Ids \cup {""}, NEW needs \in SUBSET Ids,
         NEW slot \in {NotPci, AnySlot} \cup 4 .. 30, NEW boot \in Int
  PROVE  LET a == Device(id, needs, slot, boot)
         IN  /\ a \in Arg /\ a.id = id /\ a.needs = needs /\ a.slot = slot
             /\ a.boot = boot /\ a.device
  <1>1. Device(id, needs, slot, boot) \in Arg
    BY DEF Device, Arg
  <1> QED
    BY <1>1 DEF Device

(***************************************************************************)
(* A sequence of two.                                                      *)
(***************************************************************************)
LEMMA Two ==
  ASSUME NEW S, NEW a \in S, NEW b \in S
  PROVE  /\ <<a, b>> \in Seq(S) /\ Len(<<a, b>>) = 2
         /\ <<a, b>>[1] = a /\ <<a, b>>[2] = b
         /\ 1 .. 2 = {1, 2}
  OBVIOUS

(***************************************************************************)
(* A sequence of three.                                                    *)
(***************************************************************************)
LEMMA Three ==
  ASSUME NEW S, NEW a \in S, NEW b \in S, NEW c \in S
  PROVE  /\ <<a, b, c>> \in Seq(S) /\ Len(<<a, b, c>>) = 3
         /\ <<a, b, c>>[1] = a /\ <<a, b, c>>[2] = b /\ <<a, b, c>>[3] = c
         /\ 1 .. 3 = {1, 2, 3}
  OBVIOUS

(***************************************************************************)
(* A sequence of five.                                                     *)
(***************************************************************************)
LEMMA Five ==
  ASSUME NEW S, NEW a \in S, NEW b \in S, NEW c \in S, NEW d \in S, NEW e \in S
  PROVE  /\ <<a, b, c, d, e>> \in Seq(S) /\ Len(<<a, b, c, d, e>>) = 5
         /\ <<a, b, c, d, e>>[1] = a /\ <<a, b, c, d, e>>[2] = b
         /\ <<a, b, c, d, e>>[3] = c /\ <<a, b, c, d, e>>[4] = d
         /\ <<a, b, c, d, e>>[5] = e
         /\ 1 .. 5 = {1, 2, 3, 4, 5}
  OBVIOUS

(* What every command line begins with.                                    *)
Base ==
  <<Device("", {}, AnySlot, NoBoot),
    BackEnd("net0", {}), Device("", {"net0"}, AnySlot, NoBoot)>>

(***************************************************************************)
(* The random numbers and the first network card (qemu.go:60-72).          *)
(***************************************************************************)
LEMMA BasePart ==
  Consistent(Base) /\ Within(Base, {"net0"}, {AnySlot}, {})
  <1> DEFINE a == Device("", {}, AnySlot, NoBoot)
             b == BackEnd("net0", {})
             c == Device("", {"net0"}, AnySlot, NoBoot)
             s == <<a, b, c>>
  <1>0. /\ {} \in SUBSET Ids
        /\ {"net0"} \in SUBSET Ids
        /\ {"net0", ""} \subseteq Ids \cup {""}
        /\ {AnySlot} \subseteq {NotPci, AnySlot} \cup 4 .. 30
    BY DEF Ids
  <1>a. /\ a \in Arg /\ a.id = "" /\ a.needs = {} /\ a.slot = AnySlot
        /\ a.boot = NoBoot /\ a.device
    BY <1>0, DeviceFields, BootInt
  <1>b. /\ b \in Arg /\ b.id = "net0" /\ b.needs = {} /\ b.slot = NotPci
        /\ b.boot = NoBoot /\ ~ b.device
    BY <1>0, BackEndFields
  <1>c. /\ c \in Arg /\ c.id = "" /\ c.needs = {"net0"} /\ c.slot = AnySlot
        /\ c.boot = NoBoot /\ c.device
    BY <1>0, DeviceFields, BootInt
  <1> HIDE DEF a, b, c
  <1>1. /\ s \in Seq(Arg) /\ Len(s) = 3
        /\ s[1] = a /\ s[2] = b /\ s[3] = c
        /\ 1 .. 3 = {1, 2, 3}
    <2>1. a \in Arg /\ b \in Arg /\ c \in Arg
      BY <1>a, <1>b, <1>c
    <2> QED
      BY <2>1, Three
  <1>2. s = Base
    BY DEF a, b, c, Base
  <1> HIDE DEF s
  <1>3. Within(s, {"net0"}, {AnySlot}, {})
    <2> DEFINE in(v) == /\ v.id \in {"net0"} \cup {""}
                        /\ v.slot \in {AnySlot} \cup {NotPci}
                        /\ v.boot \in {} \cup {NoBoot}
    <2>1. in(a)
      BY <1>a
    <2>2. in(b)
      BY <1>b
    <2>3. in(c)
      BY <1>c
    <2> HIDE DEF in
    <2>4. \A i \in 1 .. Len(s) : in(s[i])
      BY <1>1, <2>1, <2>2, <2>3
    <2> QED
      BY <2>4 DEF Within, in
  <1>4. \A i, j \in 1 .. Len(s) : i # j => Apart(s[i], s[j])
    <2>1. Apart(a, b) /\ Apart(b, a)
      BY <1>a, <1>b, SlotNumbers DEF Apart
    <2>2. Apart(a, c) /\ Apart(c, a)
      BY <1>a, <1>c, SlotNumbers DEF Apart
    <2>3. Apart(b, c) /\ Apart(c, b)
      BY <1>b, <1>c, SlotNumbers DEF Apart
    <2> QED
      BY <1>1, <2>1, <2>2, <2>3
  <1>5. \A i \in 1 .. Len(s) : \A x \in s[i].needs :
          \E j \in 1 .. Len(s) : s[j].id = x /\ Before(s, j, i)
    <2> DEFINE met(i) == \A x \in s[i].needs :
                           \E j \in 1 .. Len(s) : s[j].id = x /\ Before(s, j, i)
    <2>1. met(1)
      BY <1>1, <1>a
    <2>2. met(2)
      BY <1>1, <1>b
    <2>3. met(3)
      <3>1. 2 \in 1 .. Len(s) /\ s[2].id = "net0" /\ Before(s, 2, 3)
        BY <1>1, <1>b, <1>c DEF Before
      <3>2. s[3].needs = {"net0"}
        BY <1>1, <1>c
      <3> QED
        BY <3>1, <3>2
    <2> HIDE DEF met
    <2>4. \A i \in 1 .. Len(s) : met(i)
      BY <1>1, <2>1, <2>2, <2>3
    <2> QED
      BY <2>4 DEF met
  <1>6. \A i \in 1 .. Len(s) : ~ s[i].device => s[i].slot = NotPci
    <2> DEFINE off(v) == ~ v.device => v.slot = NotPci
    <2>1. off(a)
      BY <1>a
    <2>2. off(b)
      BY <1>b
    <2>3. off(c)
      BY <1>c
    <2> HIDE DEF off
    <2>4. \A i \in 1 .. Len(s) : off(s[i])
      BY <1>1, <2>1, <2>2, <2>3
    <2> QED
      BY <2>4 DEF off
  <1> QED
    BY <1>1, <1>2, <1>3, <1>4, <1>5, <1>6 DEF Consistent

(***************************************************************************)
(* The second network card, if there is one (qemu.go:74-82).               *)
(***************************************************************************)
LEMMA SecondNetPart ==
  ASSUME NEW k, k.secondTap
  PROVE  Consistent(SecondNet(k)) /\ Within(SecondNet(k), {"net1"}, {6}, {})
  <1> DEFINE a == BackEnd("net1", {})
             b == Device("", {"net1"}, 6, NoBoot)
             s == <<a, b>>
  <1>0. /\ {} \in SUBSET Ids
        /\ {"net1"} \in SUBSET Ids
        /\ {"net1", ""} \subseteq Ids \cup {""}
        /\ {6} \subseteq {NotPci, AnySlot} \cup 4 .. 30
    BY DEF Ids
  <1>a. /\ a \in Arg /\ a.id = "net1" /\ a.needs = {} /\ a.slot = NotPci
        /\ a.boot = NoBoot /\ ~ a.device
    BY <1>0, BackEndFields
  <1>b. /\ b \in Arg /\ b.id = "" /\ b.needs = {"net1"} /\ b.slot = 6
        /\ b.boot = NoBoot /\ b.device
    BY <1>0, DeviceFields, BootInt
  <1> HIDE DEF a, b
  <1>1. /\ s \in Seq(Arg) /\ Len(s) = 2
        /\ s[1] = a /\ s[2] = b
        /\ 1 .. 2 = {1, 2}
    <2>1. a \in Arg /\ b \in Arg
      BY <1>a, <1>b
    <2> QED
      BY <2>1, Two
  <1>2. s = SecondNet(k)
    BY DEF a, b, SecondNet
  <1> HIDE DEF s
  <1>3. Within(s, {"net1"}, {6}, {})
    <2> DEFINE in(v) == /\ v.id \in {"net1"} \cup {""}
                        /\ v.slot \in {6} \cup {NotPci}
                        /\ v.boot \in {} \cup {NoBoot}
    <2>1. in(a)
      BY <1>a
    <2>2. in(b)
      BY <1>b
    <2> HIDE DEF in
    <2>3. \A i \in 1 .. Len(s) : in(s[i])
      BY <1>1, <2>1, <2>2
    <2> QED
      BY <2>3 DEF Within, in
  <1>4. \A i, j \in 1 .. Len(s) : i # j => Apart(s[i], s[j])
    <2>1. Apart(a, b) /\ Apart(b, a)
      BY <1>a, <1>b, SlotNumbers DEF Apart
    <2> QED
      BY <1>1, <2>1
  <1>5. \A i \in 1 .. Len(s) : \A x \in s[i].needs :
          \E j \in 1 .. Len(s) : s[j].id = x /\ Before(s, j, i)
    <2> DEFINE met(i) == \A x \in s[i].needs :
                           \E j \in 1 .. Len(s) : s[j].id = x /\ Before(s, j, i)
    <2>1. met(1)
      BY <1>1, <1>a
    <2>2. met(2)
      <3>1. 1 \in 1 .. Len(s) /\ s[1].id = "net1" /\ Before(s, 1, 2)
        BY <1>1, <1>a, <1>b DEF Before
      <3>2. s[2].needs = {"net1"}
        BY <1>1, <1>b
      <3> QED
        BY <3>1, <3>2
    <2> HIDE DEF met
    <2>3. \A i \in 1 .. Len(s) : met(i)
      BY <1>1, <2>1, <2>2
    <2> QED
      BY <2>3 DEF met
  <1>6. \A i \in 1 .. Len(s) : ~ s[i].device => s[i].slot = NotPci
    <2> DEFINE off(v) == ~ v.device => v.slot = NotPci
    <2>1. off(a)
      BY <1>a
    <2>2. off(b)
      BY <1>b
    <2> HIDE DEF off
    <2>3. \A i \in 1 .. Len(s) : off(s[i])
      BY <1>1, <2>1, <2>2
    <2> QED
      BY <2>3 DEF off
  <1> QED
    BY <1>1, <1>2, <1>3, <1>4, <1>5, <1>6 DEF Consistent

(***************************************************************************)
(* The TPM (qemu.go:84-89).                                                *)
(***************************************************************************)
LEMMA TpmPart ==
  Consistent(Tpm) /\ Within(Tpm, {"char0", "tpm0"}, {}, {})
  <1> DEFINE a == BackEnd("char0", {})
             b == BackEnd("tpm0", {"char0"})
             c == Device("", {"tpm0"}, NotPci, NoBoot)
             s == <<a, b, c>>
  <1>0. /\ {} \in SUBSET Ids
        /\ {"char0"} \in SUBSET Ids
        /\ {"tpm0"} \in SUBSET Ids
        /\ {"char0", "tpm0", ""} \subseteq Ids \cup {""}
        /\ {NotPci} \subseteq {NotPci, AnySlot} \cup 4 .. 30
    BY DEF Ids
  <1>a. /\ a \in Arg /\ a.id = "char0" /\ a.needs = {} /\ a.slot = NotPci
        /\ a.boot = NoBoot /\ ~ a.device
    BY <1>0, BackEndFields
  <1>b. /\ b \in Arg /\ b.id = "tpm0" /\ b.needs = {"char0"} /\ b.slot = NotPci
        /\ b.boot = NoBoot /\ ~ b.device
    BY <1>0, BackEndFields
  <1>c. /\ c \in Arg /\ c.id = "" /\ c.needs = {"tpm0"} /\ c.slot = NotPci
        /\ c.boot = NoBoot /\ c.device
    BY <1>0, DeviceFields, BootInt
  <1> HIDE DEF a, b, c
  <1>1. /\ s \in Seq(Arg) /\ Len(s) = 3
        /\ s[1] = a /\ s[2] = b /\ s[3] = c
        /\ 1 .. 3 = {1, 2, 3}
    <2>1. a \in Arg /\ b \in Arg /\ c \in Arg
      BY <1>a, <1>b, <1>c
    <2> QED
      BY <2>1, Three
  <1>2. s = Tpm
    BY DEF a, b, c, Tpm
  <1> HIDE DEF s
  <1>3. Within(s, {"char0", "tpm0"}, {}, {})
    <2> DEFINE in(v) == /\ v.id \in {"char0", "tpm0"} \cup {""}
                        /\ v.slot \in {} \cup {NotPci}
                        /\ v.boot \in {} \cup {NoBoot}
    <2>1. in(a)
      BY <1>a
    <2>2. in(b)
      BY <1>b
    <2>3. in(c)
      BY <1>c
    <2> HIDE DEF in
    <2>4. \A i \in 1 .. Len(s) : in(s[i])
      BY <1>1, <2>1, <2>2, <2>3
    <2> QED
      BY <2>4 DEF Within, in
  <1>4. \A i, j \in 1 .. Len(s) : i # j => Apart(s[i], s[j])
    <2>1. Apart(a, b) /\ Apart(b, a)
      BY <1>a, <1>b, SlotNumbers DEF Apart
    <2>2. Apart(a, c) /\ Apart(c, a)
      BY <1>a, <1>c, SlotNumbers DEF Apart
    <2>3. Apart(b, c) /\ Apart(c, b)
      BY <1>b, <1>c, SlotNumbers DEF Apart
    <2> QED
      BY <1>1, <2>1, <2>2, <2>3
  <1>5. \A i \in 1 .. Len(s) : \A x \in s[i].needs :
          \E j \in 1 .. Len(s) : s[j].id = x /\ Before(s, j, i)
    <2> DEFINE met(i) == \A x \in s[i].needs :
                           \E j \in 1 .. Len(s) : s[j].id = x /\ Before(s, j, i)
    <2>1. met(1)
      BY <1>1, <1>a
    <2>2. met(2)
      <3>1. 1 \in 1 .. Len(s) /\ s[1].id = "char0" /\ Before(s, 1, 2)
        BY <1>1, <1>a, <1>b DEF Before
      <3>2. s[2].needs = {"char0"}
        BY <1>1, <1>b
      <3> QED
        BY <3>1, <3>2
    <2>3. met(3)
      <3>1. 2 \in 1 .. Len(s) /\ s[2].id = "tpm0" /\ Before(s, 2, 3)
        BY <1>1, <1>b, <1>c DEF Before
      <3>2. s[3].needs = {"tpm0"}
        BY <1>1, <1>c
      <3> QED
        BY <3>1, <3>2
    <2> HIDE DEF met
    <2>4. \A i \in 1 .. Len(s) : met(i)
      BY <1>1, <2>1, <2>2, <2>3
    <2> QED
      BY <2>4 DEF met
  <1>6. \A i \in 1 .. Len(s) : ~ s[i].device => s[i].slot = NotPci
    <2> DEFINE off(v) == ~ v.device => v.slot = NotPci
    <2>1. off(a)
      BY <1>a
    <2>2. off(b)
      BY <1>b
    <2>3. off(c)
      BY <1>c
    <2> HIDE DEF off
    <2>4. \A i \in 1 .. Len(s) : off(s[i])
      BY <1>1, <2>1, <2>2, <2>3
    <2> QED
      BY <2>4 DEF off
  <1> QED
    BY <1>1, <1>2, <1>3, <1>4, <1>5, <1>6 DEF Consistent

(***************************************************************************)
(* The firmware (qemu.go:91-96).                                           *)
(***************************************************************************)
LEMMA FirmwarePart ==
  Consistent(Firmware) /\ Within(Firmware, {"pflash0", "pflash1"}, {}, {})
  <1> DEFINE a == BackEnd("pflash0", {})
             b == BackEnd("pflash1", {})
             s == <<a, b>>
  <1>0. /\ {} \in SUBSET Ids
        /\ {"pflash0", "pflash1", ""} \subseteq Ids \cup {""}
    BY DEF Ids
  <1>a. /\ a \in Arg /\ a.id = "pflash0" /\ a.needs = {} /\ a.slot = NotPci
        /\ a.boot = NoBoot /\ ~ a.device
    BY <1>0, BackEndFields
  <1>b. /\ b \in Arg /\ b.id = "pflash1" /\ b.needs = {} /\ b.slot = NotPci
        /\ b.boot = NoBoot /\ ~ b.device
    BY <1>0, BackEndFields
  <1> HIDE DEF a, b
  <1>1. /\ s \in Seq(Arg) /\ Len(s) = 2
        /\ s[1] = a /\ s[2] = b
        /\ 1 .. 2 = {1, 2}
    <2>1. a \in Arg /\ b \in Arg
      BY <1>a, <1>b
    <2> QED
      BY <2>1, Two
  <1>2. s = Firmware
    BY DEF a, b, Firmware
  <1> HIDE DEF s
  <1>3. Within(s, {"pflash0", "pflash1"}, {}, {})
    <2> DEFINE in(v) == /\ v.id \in {"pflash0", "pflash1"} \cup {""}
                        /\ v.slot \in {} \cup {NotPci}
                        /\ v.boot \in {} \cup {NoBoot}
    <2>1. in(a)
      BY <1>a
    <2>2. in(b)
      BY <1>b
    <2> HIDE DEF in
    <2>3. \A i \in 1 .. Len(s) : in(s[i])
      BY <1>1, <2>1, <2>2
    <2> QED
      BY <2>3 DEF Within, in
  <1>4. \A i, j \in 1 .. Len(s) : i # j => Apart(s[i], s[j])
    <2>1. Apart(a, b) /\ Apart(b, a)
      BY <1>a, <1>b, SlotNumbers DEF Apart
    <2> QED
      BY <1>1, <2>1
  <1>5. \A i \in 1 .. Len(s) : \A x \in s[i].needs :
          \E j \in 1 .. Len(s) : s[j].id = x /\ Before(s, j, i)
    <2> DEFINE met(i) == \A x \in s[i].needs :
                           \E j \in 1 .. Len(s) : s[j].id = x /\ Before(s, j, i)
    <2>1. met(1)
      BY <1>1, <1>a
    <2>2. met(2)
      BY <1>1, <1>b
    <2> HIDE DEF met
    <2>3. \A i \in 1 .. Len(s) : met(i)
      BY <1>1, <2>1, <2>2
    <2> QED
      BY <2>3 DEF met
  <1>6. \A i \in 1 .. Len(s) : ~ s[i].device => s[i].slot = NotPci
    <2> DEFINE off(v) == ~ v.device => v.slot = NotPci
    <2>1. off(a)
      BY <1>a
    <2>2. off(b)
      BY <1>b
    <2> HIDE DEF off
    <2>3. \A i \in 1 .. Len(s) : off(s[i])
      BY <1>1, <2>1, <2>2
    <2> QED
      BY <2>3 DEF off
  <1> QED
    BY <1>1, <1>2, <1>3, <1>4, <1>5, <1>6 DEF Consistent

(***************************************************************************)
(* The storage with an ISO image: a CD on a SCSI bus, a disk (qemu.go:99). *)
(***************************************************************************)
LEMMA IsoPart ==
  ASSUME NEW k, k.iso
  PROVE  Consistent(Storage(k)) /\ Within(Storage(k), {"scsi0", "cd0", "disk"}, {4, 5}, {0, 1})
  <1> DEFINE a == Device("scsi0", {}, 4, NoBoot)
             b == BackEnd("cd0", {})
             c == Device("", {"scsi0", "cd0"}, NotPci, 0)
             d == BackEnd("disk", {})
             e == Device("", {"disk"}, 5, 1)
             s == <<a, b, c, d, e>>
  <1>0. /\ {} \in SUBSET Ids
        /\ {"disk"} \in SUBSET Ids
        /\ {"scsi0", "cd0"} \in SUBSET Ids
        /\ {"cd0", "disk", "scsi0", ""} \subseteq Ids \cup {""}
        /\ {4, 5, NotPci} \subseteq {NotPci, AnySlot} \cup 4 .. 30
    BY DEF Ids
  <1>a. /\ a \in Arg /\ a.id = "scsi0" /\ a.needs = {} /\ a.slot = 4
        /\ a.boot = NoBoot /\ a.device
    BY <1>0, DeviceFields, BootInt
  <1>b. /\ b \in Arg /\ b.id = "cd0" /\ b.needs = {} /\ b.slot = NotPci
        /\ b.boot = NoBoot /\ ~ b.device
    BY <1>0, BackEndFields
  <1>c. /\ c \in Arg /\ c.id = "" /\ c.needs = {"scsi0", "cd0"} /\ c.slot = NotPci
        /\ c.boot = 0 /\ c.device
    BY <1>0, DeviceFields, BootInt
  <1>d. /\ d \in Arg /\ d.id = "disk" /\ d.needs = {} /\ d.slot = NotPci
        /\ d.boot = NoBoot /\ ~ d.device
    BY <1>0, BackEndFields
  <1>e. /\ e \in Arg /\ e.id = "" /\ e.needs = {"disk"} /\ e.slot = 5
        /\ e.boot = 1 /\ e.device
    BY <1>0, DeviceFields, BootInt
  <1> HIDE DEF a, b, c, d, e
  <1>1. /\ s \in Seq(Arg) /\ Len(s) = 5
        /\ s[1] = a /\ s[2] = b /\ s[3] = c /\ s[4] = d /\ s[5] = e
        /\ 1 .. 5 = {1, 2, 3, 4, 5}
    <2>1. a \in Arg /\ b \in Arg /\ c \in Arg /\ d \in Arg /\ e \in Arg
      BY <1>a, <1>b, <1>c, <1>d, <1>e
    <2> QED
      BY <2>1, Five
  <1>2. s = Storage(k)
    BY DEF a, b, c, d, e, Storage
  <1> HIDE DEF s
  <1>3. Within(s, {"scsi0", "cd0", "disk"}, {4, 5}, {0, 1})
    <2> DEFINE in(v) == /\ v.id \in {"scsi0", "cd0", "disk"} \cup {""}
                        /\ v.slot \in {4, 5} \cup {NotPci}
                        /\ v.boot \in {0, 1} \cup {NoBoot}
    <2>1. in(a)
      BY <1>a
    <2>2. in(b)
      BY <1>b
    <2>3. in(c)
      BY <1>c
    <2>4. in(d)
      BY <1>d
    <2>5. in(e)
      BY <1>e
    <2> HIDE DEF in
    <2>6. \A i \in 1 .. Len(s) : in(s[i])
      BY <1>1, <2>1, <2>2, <2>3, <2>4, <2>5
    <2> QED
      BY <2>6 DEF Within, in
  <1>4. \A i, j \in 1 .. Len(s) : i # j => Apart(s[i], s[j])
    <2>1. Apart(a, b) /\ Apart(b, a)
      BY <1>a, <1>b, SlotNumbers DEF Apart
    <2>2. Apart(a, c) /\ Apart(c, a)
      BY <1>a, <1>c, SlotNumbers DEF Apart
    <2>3. Apart(a, d) /\ Apart(d, a)
      BY <1>a, <1>d, SlotNumbers DEF Apart
    <2>4. Apart(a, e) /\ Apart(e, a)
      BY <1>a, <1>e, SlotNumbers DEF Apart
    <2>5. Apart(b, c) /\ Apart(c, b)
      BY <1>b, <1>c, SlotNumbers DEF Apart
    <2>6. Apart(b, d) /\ Apart(d, b)
      BY <1>b, <1>d, SlotNumbers DEF Apart
    <2>7. Apart(b, e) /\ Apart(e, b)
      BY <1>b, <1>e, SlotNumbers DEF Apart
    <2>8. Apart(c, d) /\ Apart(d, c)
      BY <1>c, <1>d, SlotNumbers DEF Apart
    <2>9. Apart(c, e) /\ Apart(e, c)
      BY <1>c, <1>e, SlotNumbers DEF Apart
    <2>10. Apart(d, e) /\ Apart(e, d)
      BY <1>d, <1>e, SlotNumbers DEF Apart
    <2> QED
      BY <1>1, <2>1, <2>2, <2>3, <2>4, <2>5, <2>6, <2>7, <2>8, <2>9, <2>10
  <1>5. \A i \in 1 .. Len(s) : \A x \in s[i].needs :
          \E j \in 1 .. Len(s) : s[j].id = x /\ Before(s, j, i)
    <2> DEFINE met(i) == \A x \in s[i].needs :
                           \E j \in 1 .. Len(s) : s[j].id = x /\ Before(s, j, i)
    <2>1. met(1)
      BY <1>1, <1>a
    <2>2. met(2)
      BY <1>1, <1>b
    <2>3. met(3)
      <3>1. 1 \in 1 .. Len(s) /\ s[1].id = "scsi0" /\ Before(s, 1, 3)
        <4>1. 1 \in 1 .. Len(s) /\ s[1].id = "scsi0" /\ s[1].device /\ s[3].device
          BY <1>1, <1>a, <1>c
        <4> QED
          BY <4>1 DEF Before
      <3>2. 2 \in 1 .. Len(s) /\ s[2].id = "cd0" /\ Before(s, 2, 3)
        BY <1>1, <1>b, <1>c DEF Before
      <3>3. s[3].needs = {"scsi0", "cd0"}
        BY <1>1, <1>c
      <3> QED
        BY <3>1, <3>2, <3>3
    <2>4. met(4)
      BY <1>1, <1>d
    <2>5. met(5)
      <3>1. 4 \in 1 .. Len(s) /\ s[4].id = "disk" /\ Before(s, 4, 5)
        BY <1>1, <1>d, <1>e DEF Before
      <3>2. s[5].needs = {"disk"}
        BY <1>1, <1>e
      <3> QED
        BY <3>1, <3>2
    <2> HIDE DEF met
    <2>6. \A i \in 1 .. Len(s) : met(i)
      BY <1>1, <2>1, <2>2, <2>3, <2>4, <2>5
    <2> QED
      BY <2>6 DEF met
  <1>6. \A i \in 1 .. Len(s) : ~ s[i].device => s[i].slot = NotPci
    <2> DEFINE off(v) == ~ v.device => v.slot = NotPci
    <2>1. off(a)
      BY <1>a
    <2>2. off(b)
      BY <1>b
    <2>3. off(c)
      BY <1>c
    <2>4. off(d)
      BY <1>d
    <2>5. off(e)
      BY <1>e
    <2> HIDE DEF off
    <2>6. \A i \in 1 .. Len(s) : off(s[i])
      BY <1>1, <2>1, <2>2, <2>3, <2>4, <2>5
    <2> QED
      BY <2>6 DEF off
  <1> QED
    BY <1>1, <1>2, <1>3, <1>4, <1>5, <1>6 DEF Consistent

(***************************************************************************)
(* The storage without one (qemu.go:107-112).                              *)
(***************************************************************************)
LEMMA DiskPart ==
  ASSUME NEW k, ~ k.iso
  PROVE  Consistent(Storage(k)) /\ Within(Storage(k), {"scsi0", "cd0", "disk"}, {4, 5}, {0, 1})
  <1> DEFINE a == BackEnd("disk", {})
             b == Device("", {"disk"}, 5, 0)
             s == <<a, b>>
  <1>0. /\ {} \in SUBSET Ids
        /\ {"disk"} \in SUBSET Ids
        /\ {"disk", ""} \subseteq Ids \cup {""}
        /\ {5} \subseteq {NotPci, AnySlot} \cup 4 .. 30
    BY DEF Ids
  <1>a. /\ a \in Arg /\ a.id = "disk" /\ a.needs = {} /\ a.slot = NotPci
        /\ a.boot = NoBoot /\ ~ a.device
    BY <1>0, BackEndFields
  <1>b. /\ b \in Arg /\ b.id = "" /\ b.needs = {"disk"} /\ b.slot = 5
        /\ b.boot = 0 /\ b.device
    BY <1>0, DeviceFields, BootInt
  <1> HIDE DEF a, b
  <1>1. /\ s \in Seq(Arg) /\ Len(s) = 2
        /\ s[1] = a /\ s[2] = b
        /\ 1 .. 2 = {1, 2}
    <2>1. a \in Arg /\ b \in Arg
      BY <1>a, <1>b
    <2> QED
      BY <2>1, Two
  <1>2. s = Storage(k)
    BY DEF a, b, Storage
  <1> HIDE DEF s
  <1>3. Within(s, {"scsi0", "cd0", "disk"}, {4, 5}, {0, 1})
    <2> DEFINE in(v) == /\ v.id \in {"scsi0", "cd0", "disk"} \cup {""}
                        /\ v.slot \in {4, 5} \cup {NotPci}
                        /\ v.boot \in {0, 1} \cup {NoBoot}
    <2>1. in(a)
      BY <1>a
    <2>2. in(b)
      BY <1>b
    <2> HIDE DEF in
    <2>3. \A i \in 1 .. Len(s) : in(s[i])
      BY <1>1, <2>1, <2>2
    <2> QED
      BY <2>3 DEF Within, in
  <1>4. \A i, j \in 1 .. Len(s) : i # j => Apart(s[i], s[j])
    <2>1. Apart(a, b) /\ Apart(b, a)
      BY <1>a, <1>b, SlotNumbers DEF Apart
    <2> QED
      BY <1>1, <2>1
  <1>5. \A i \in 1 .. Len(s) : \A x \in s[i].needs :
          \E j \in 1 .. Len(s) : s[j].id = x /\ Before(s, j, i)
    <2> DEFINE met(i) == \A x \in s[i].needs :
                           \E j \in 1 .. Len(s) : s[j].id = x /\ Before(s, j, i)
    <2>1. met(1)
      BY <1>1, <1>a
    <2>2. met(2)
      <3>1. 1 \in 1 .. Len(s) /\ s[1].id = "disk" /\ Before(s, 1, 2)
        BY <1>1, <1>a, <1>b DEF Before
      <3>2. s[2].needs = {"disk"}
        BY <1>1, <1>b
      <3> QED
        BY <3>1, <3>2
    <2> HIDE DEF met
    <2>3. \A i \in 1 .. Len(s) : met(i)
      BY <1>1, <2>1, <2>2
    <2> QED
      BY <2>3 DEF met
  <1>6. \A i \in 1 .. Len(s) : ~ s[i].device => s[i].slot = NotPci
    <2> DEFINE off(v) == ~ v.device => v.slot = NotPci
    <2>1. off(a)
      BY <1>a
    <2>2. off(b)
      BY <1>b
    <2> HIDE DEF off
    <2>3. \A i \in 1 .. Len(s) : off(s[i])
      BY <1>1, <2>1, <2>2
    <2> QED
      BY <2>3 DEF off
  <1> QED
    BY <1>1, <1>2, <1>3, <1>4, <1>5, <1>6 DEF Consistent

(***************************************************************************)
(* No part at all.                                                         *)
(***************************************************************************)
LEMMA EmptyPart ==
  ASSUME NEW I, NEW S, NEW B
  PROVE  Consistent(<<>>) /\ Within(<<>>, I, S, B)
  <1>1. <<>> \in Seq(Arg) /\ Len(<<>>) = 0
    BY Short
  <1>2. \A i \in 1 .. 0 : FALSE
    OBVIOUS
  <1> QED
    BY <1>1, <1>2 DEF Consistent, Within

(***************************************************************************)
(* What follows the beginning names its slots.                             *)
(***************************************************************************)
LEMMA BeginsJoined ==
  ASSUME NEW s \in Seq(Arg), NEW t \in Seq(Arg), Begins(s),
         NEW J, NEW T, NEW C, Within(t, J, T, C), AnySlot \notin T
  PROVE  Begins(s \o t)
  <1> DEFINE st == s \o t
  <1>1. /\ Len(s) \in Nat /\ Len(t) \in Nat /\ Len(st) = Len(s) + Len(t)
        /\ \A i \in 1 .. Len(s) + Len(t) :
             st[i] = IF i <= Len(s) THEN s[i] ELSE t[i - Len(s)]
    BY ConcatProperties, LenProperties
  <1> HIDE DEF st
  <1>2. Len(s) >= 3
    BY DEF Begins
  <1>3. Len(st) >= 3 /\ st[1] = s[1] /\ st[2] = s[2] /\ st[3] = s[3]
    BY <1>1, <1>2
  <1>4. ASSUME NEW i \in 4 .. Len(st) PROVE st[i].slot # AnySlot
    <2>1. CASE i <= Len(s)
      <3>1. i \in 4 .. Len(s) /\ st[i] = s[i]
        BY <1>1, <2>1
      <3> QED
        BY <3>1 DEF Begins
    <2>2. CASE i > Len(s)
      <3>1. i - Len(s) \in 1 .. Len(t) /\ st[i] = t[i - Len(s)]
        BY <1>1, <2>2
      <3>2. st[i].slot \in T \cup {NotPci}
        BY <3>1 DEF Within
      <3>3. NotPci # AnySlot
        BY DEF NotPci, AnySlot
      <3> QED
        BY <3>2, <3>3
    <2> QED
      BY <1>1, <2>1, <2>2
  <1>5. Begins(st)
    BY <1>3, <1>4 DEF Begins
  <1> QED
    BY <1>5 DEF st

(***************************************************************************)
(* The arguments buildQEMUArgs puts together do not clash, whatever the    *)
(* configuration (qemu.go:15-119).                                         *)
(***************************************************************************)
LEMMA CommandLine ==
  ASSUME NEW c
  PROVE  Consistent(buildQEMUArgs(c)) /\ Begins(buildQEMUArgs(c))
  <1> DEFINE s1 == Base \o SecondNet(c)
             s2 == s1 \o Tpm
             s3 == s2 \o Firmware
             s4 == s3 \o Storage(c)
             I1 == {"net0"} \cup {"net1"}
             I2 == I1 \cup {"char0", "tpm0"}
             I3 == I2 \cup {"pflash0", "pflash1"}
             S1 == {AnySlot} \cup {6}
  <1>0. s4 = buildQEMUArgs(c)
    BY DEF buildQEMUArgs, Base
  <1>1. Begins(Base)
    <2>1. /\ {} \in SUBSET Ids /\ {"net0"} \in SUBSET Ids
          /\ {"net0", ""} \subseteq Ids \cup {""}
          /\ {AnySlot} \subseteq {NotPci, AnySlot} \cup 4 .. 30
      BY DEF Ids
    <2> DEFINE d == Device("", {}, AnySlot, NoBoot)
               b == BackEnd("net0", {})
               e == Device("", {"net0"}, AnySlot, NoBoot)
    <2>2. /\ d \in Arg /\ d.id = "" /\ d.needs = {} /\ d.slot = AnySlot
          /\ d.boot = NoBoot /\ d.device
      BY <2>1, DeviceFields, BootInt
    <2>3. /\ e \in Arg /\ e.id = "" /\ e.needs = {"net0"} /\ e.slot = AnySlot
          /\ e.boot = NoBoot /\ e.device
      BY <2>1, DeviceFields, BootInt
    <2>4. ~ b.device
      BY <2>1, BackEndFields
    <2>5. Base[1] = d /\ Base[2] = b /\ Base[3] = e /\ Len(Base) = 3
      BY DEF Base
    <2>6. \A i \in 4 .. 3 : FALSE
      OBVIOUS
    <2> HIDE DEF d, b, e
    <2>7. Base[1].device /\ ~ Base[2].device /\ Base[3].device
      BY <2>2, <2>3, <2>4, <2>5
    <2>8. Base[1].slot = AnySlot /\ Base[3].slot = AnySlot
      BY <2>2, <2>3, <2>5
    <2>9. Len(Base) = 3 /\ \A i \in 4 .. Len(Base) : Base[i].slot # AnySlot
      BY <2>5, <2>6
    <2> QED
      BY <2>7, <2>8, <2>9 DEF Begins
  <1>2. Consistent(SecondNet(c)) /\ Within(SecondNet(c), {"net1"}, {6}, {})
    <2>1. CASE c.secondTap
      BY <2>1, SecondNetPart
    <2>2. CASE ~ c.secondTap
      <3>1. SecondNet(c) = <<>>
        BY <2>2 DEF SecondNet
      <3> QED
        BY <3>1, EmptyPart
    <2> QED
      BY <2>1, <2>2
  <1>3. /\ Consistent(Storage(c))
        /\ Within(Storage(c), {"scsi0", "cd0", "disk"}, {4, 5}, {0, 1})
    <2>1. CASE c.iso
      BY <2>1, IsoPart
    <2>2. CASE ~ c.iso
      BY <2>2, DiskPart
    <2> QED
      BY <2>1, <2>2
  <1>4. AnySlot \notin {} /\ AnySlot \notin {6} /\ AnySlot \notin {4, 5}
    BY SlotNumbers
  <1>5. Consistent(s1) /\ Within(s1, I1, S1, {} \cup {}) /\ Begins(s1)
    <2>1. {"net0"} \cap {"net1"} = {} /\ {AnySlot} \cap {6} = {} /\ {} \cap {} = {}
      BY <1>4
    <2>2. Consistent(s1) /\ Within(s1, I1, S1, {} \cup {})
      BY <1>2, <2>1, BasePart, Parts
    <2>3. Base \in Seq(Arg) /\ SecondNet(c) \in Seq(Arg)
      BY <1>2, BasePart DEF Consistent
    <2> QED
      BY <1>1, <1>2, <1>4, <2>2, <2>3, BeginsJoined
  <1> HIDE DEF s1
  <1>6. Consistent(s2) /\ Within(s2, I2, S1 \cup {}, {} \cup {} \cup {}) /\ Begins(s2)
    <2>1. I1 \cap {"char0", "tpm0"} = {} /\ S1 \cap {} = {} /\ ({} \cup {}) \cap {} = {}
      OBVIOUS
    <2>2. Consistent(s2) /\ Within(s2, I2, S1 \cup {}, {} \cup {} \cup {})
      BY <1>5, <2>1, TpmPart, Parts
    <2>3. s1 \in Seq(Arg) /\ Tpm \in Seq(Arg)
      BY <1>5, TpmPart DEF Consistent
    <2> QED
      BY <1>4, <1>5, <2>2, <2>3, TpmPart, BeginsJoined
  <1> HIDE DEF s2
  <1>7. Consistent(s3) /\ Within(s3, I3, S1, {}) /\ Begins(s3)
    <2>1. /\ I2 \cap {"pflash0", "pflash1"} = {} /\ (S1 \cup {}) \cap {} = {}
          /\ ({} \cup {} \cup {}) \cap {} = {}
      OBVIOUS
    <2>2. /\ Consistent(s3)
          /\ Within(s3, I3, S1 \cup {} \cup {}, {} \cup {} \cup {} \cup {})
      BY <1>6, <2>1, FirmwarePart, Parts
    <2>3. s2 \in Seq(Arg) /\ Firmware \in Seq(Arg)
      BY <1>6, FirmwarePart DEF Consistent
    <2>4. Begins(s3)
      BY <1>4, <1>6, <2>3, FirmwarePart, BeginsJoined
    <2>5. S1 \cup {} \cup {} = S1 /\ {} \cup {} \cup {} \cup {} = {}
      OBVIOUS
    <2> QED
      BY <2>2, <2>4, <2>5
  <1> HIDE DEF s3
  <1>8. Consistent(s4) /\ Begins(s4)
    <2>1. /\ I3 \cap {"scsi0", "cd0", "disk"} = {} /\ {} \cap {0, 1} = {}
      OBVIOUS
    <2>2. S1 \cap {4, 5} = {}
      BY <1>4
    <2>3. Consistent(s4)
      <3> DEFINE J == {"scsi0", "cd0", "disk"}
                 T == {4, 5}
                 C == {0, 1}
      <3>1. /\ Consistent(s3) /\ Within(s3, I3, S1, {}) /\ Consistent(Storage(c))
            /\ Within(Storage(c), J, T, C)
            /\ I3 \cap J = {} /\ S1 \cap T = {} /\ {} \cap C = {}
        BY <1>3, <1>7, <2>1, <2>2, Zenon
      <3> HIDE DEF I3, S1, J, T, C
      <3> QED
        BY <3>1, Parts, Zenon
    <2>4. s3 \in Seq(Arg) /\ Storage(c) \in Seq(Arg)
      BY <1>3, <1>7 DEF Consistent
    <2> QED
      BY <1>3, <1>4, <1>7, <2>3, <2>4, BeginsJoined
  <1> QED
    BY <1>0, <1>8

(***************************************************************************)
(* The slot QEMU chooses: the lowest one that is free.                     *)
(***************************************************************************)
LEMMA LowestFree ==
  ASSUME NEW a, a.slot = AnySlot, NEW n \in 0 .. 2, slots = 0 .. n
  PROVE  Slot(a) = n + 1
  <1> DEFINE P(s) == Free(s) /\ \A r \in 1 .. s - 1 : ~ Free(r)
  <1>1. n + 1 \in 1 .. 30 /\ P(n + 1)
    BY DEF Free
  <1>2. \A s \in 1 .. 30 : P(s) => s = n + 1
    BY DEF Free
  <1>3. Slot(a) = CHOOSE s \in 1 .. 30 : P(s)
    BY DEF Slot
  <1> HIDE DEF P
  <1>4. (CHOOSE s \in 1 .. 30 : P(s)) \in 1 .. 30 /\ P(CHOOSE s \in 1 .. 30 : P(s))
    BY <1>1
  <1> QED
    BY <1>2, <1>3, <1>4

(***************************************************************************)
(* The arguments dealt with, when QEMU takes one, passes over one, and     *)
(* begins with the devices.                                                *)
(***************************************************************************)
LEMMA DoneStep ==
  ASSUME StartingInv, args' = args
  PROVE  /\ /\ next <= Len(args) /\ pass' = pass /\ next' = next + 1
            /\ args[next].device <=> pass = 2
            => Done' = Done \cup {next} /\ next \notin Done
         /\ /\ next <= Len(args) /\ pass' = pass /\ next' = next + 1
            /\ ~ (args[next].device <=> pass = 2)
            => Done' = Done
         /\ pass = 1 /\ next > Len(args) /\ pass' = 2 /\ next' = 1
            => Done' = Done
  <1>1. pass \in {1, 2} /\ next \in 1 .. Len(args) + 1 /\ args \in Seq(Arg)
    BY DEF StartingInv, Consistent
  <1>2. Len(args) \in Nat
    BY <1>1, LenProperties
  <1>3. ASSUME next <= Len(args), pass' = pass, next' = next + 1,
               args[next].device <=> pass = 2
        PROVE  Done' = Done \cup {next} /\ next \notin Done
    BY <1>1, <1>2, <1>3 DEF Done
  <1>4. ASSUME next <= Len(args), pass' = pass, next' = next + 1,
               ~ (args[next].device <=> pass = 2)
        PROVE  Done' = Done
    BY <1>1, <1>2, <1>4 DEF Done
  <1>5. ASSUME pass = 1, next > Len(args), pass' = 2, next' = 1
        PROVE  Done' = Done
    BY <1>1, <1>2, <1>5 DEF Done
  <1> QED
    BY <1>3, <1>4, <1>5

(***************************************************************************)
(* An argument QEMU takes clashes with nothing it has taken.               *)
(***************************************************************************)
LEMMA NoClash ==
  ASSUME StartingInv, next <= Len(args), args[next].device <=> pass = 2
  PROVE  ~ Clashes(args[next])
  <1> DEFINE a == args[next]
  <1>1. /\ pass \in {1, 2} /\ next \in 1 .. Len(args) /\ args \in Seq(Arg)
        /\ Len(args) \in Nat
    <2>1. args \in Seq(Arg)
      BY DEF StartingInv, Consistent
    <2>2. Len(args) \in Nat
      BY <2>1, LenProperties
    <2>3. pass \in {1, 2} /\ next \in 1 .. Len(args) + 1
      BY DEF StartingInv
    <2> QED
      BY <2>1, <2>2, <2>3
  <1>2. a \in Arg
    BY <1>1, ElementOfSeq
  <1>3. \A j \in Done : j \in 1 .. Len(args) /\ j # next
    BY <1>1 DEF Done
  <1>4. \A j \in Done : Apart(a, args[j])
    BY <1>1, <1>3 DEF StartingInv, Consistent
  <1>5. a.needs \subseteq ids
    <2> SUFFICES ASSUME NEW x \in a.needs PROVE x \in ids
      OBVIOUS
    <2>1. PICK j \in 1 .. Len(args) : args[j].id = x /\ Before(args, j, next)
      BY <1>1 DEF StartingInv, Consistent
    <2>2. j \in Done
      BY <1>1, <2>1 DEF Before, Done
    <2>3. x # ""
      BY <1>2 DEF Arg, Ids
    <2> QED
      BY <2>1, <2>2, <2>3 DEF StartingInv
  <1>6. a.id \notin ids
    BY <1>4 DEF StartingInv, Apart
  <1>7. a.boot \notin boots
    BY <1>4 DEF StartingInv, Apart
  <1>8. ASSUME a.slot \notin {NotPci, AnySlot} PROVE Free(a.slot)
    <2>1. a.slot \in 4 .. 30
      BY <1>2, <1>8 DEF Arg
    <2>2. a.device /\ pass = 2
      BY <1>1, <1>8 DEF StartingInv, Consistent
    <2>3. next > 3
      <3>1. next # 1 /\ next # 3
        BY <1>8 DEF StartingInv, Begins
      <3>2. next # 2
        BY <2>2 DEF StartingInv, Begins
      <3> QED
        BY <1>1, <3>1, <3>2
    <2>4. a.slot \notin slots
      <3> SUFFICES ASSUME a.slot \in slots PROVE FALSE
        OBVIOUS
      <3>1. a.slot \in 0 .. 3 \/ \E j \in Done : args[j].slot = a.slot
        BY <2>2, <2>3 DEF StartingInv, SlotsInv
      <3>2. \A j \in Done : args[j].slot # a.slot
        BY <1>4, <1>8 DEF Apart
      <3>3. \A r \in 4 .. 30 : r \notin 0 .. 3
        OBVIOUS
      <3> HIDE DEF a
      <3> QED
        BY <2>1, <3>1, <3>2, <3>3
    <2> QED
      BY <2>1, <2>4 DEF Free
  <1> QED
    BY <1>5, <1>6, <1>7, <1>8 DEF Clashes

(***************************************************************************)
(* Where QEMU is on its command line.                                      *)
(***************************************************************************)
LEMMA OnTheWay ==
  ASSUME StartingInv
  PROVE  /\ args \in Seq(Arg) /\ Len(args) \in Nat
         /\ pass \in {1, 2} /\ next \in 1 .. Len(args) + 1 /\ next \in Nat \ {0}
  <1>1. args \in Seq(Arg)
    BY DEF StartingInv, Consistent
  <1>2. Len(args) \in Nat
    BY <1>1, LenProperties
  <1>3. pass \in {1, 2} /\ next \in 1 .. Len(args) + 1
    BY DEF StartingInv
  <1>4. next \in Nat \ {0}
    BY <1>2, <1>3
  <1> QED
    BY <1>1, <1>2, <1>3, <1>4

(***************************************************************************)
(* QEMU takes an argument: it chooses its slots, at most two, before any   *)
(* device names one, and finds them below 4.                               *)
(***************************************************************************)
LEMMA SlotsTaken ==
  ASSUME StartingInv, next <= Len(args), args[next].device <=> pass = 2,
         next' = next + 1, UNCHANGED <<args, pass>>,
         slots' = (slots \cup {Slot(args[next])}) \ {NotPci}
  PROVE  SlotsInv'
  <1> DEFINE a == args[next]
  <1>1. /\ Len(args) \in Nat /\ pass \in {1, 2}
        /\ next \in 1 .. Len(args) + 1 /\ next \in Nat \ {0}
    BY OnTheWay
  <1>s. SlotsInv /\ Begins(args) /\ Consistent(args)
    BY DEF StartingInv
  <1>2. Done' = Done \cup {next}
    BY DoneStep
  <1>3. CASE pass = 1
    <2>1. slots \in {{0}, {0, 1}}
      BY <1>3, <1>s DEF SlotsInv
    <2>2. next \in 1 .. Len(args) /\ ~ a.device
      BY <1>1, <1>3
    <2>3. a.slot = NotPci
      BY <2>2 DEF StartingInv, Consistent
    <2>4. Slot(a) = NotPci
      BY <2>3 DEF Slot, NotPci, AnySlot
    <2>5. slots' = slots
      BY <2>1, <2>4 DEF NotPci
    <2>6. pass' = 1
      BY <1>3
    <2>7. slots' \in {{0}, {0, 1}}
      BY <2>1, <2>5
    <2>8. (pass = 1 \/ next = 1 => slots \in {{0}, {0, 1}})'
      BY <2>7
    <2>9. (pass # 2)'
      BY <2>6
    <2> QED
      BY <2>8, <2>9, Zenon DEF SlotsInv
  <1>4. CASE pass = 2
    <2>0. a.device
      BY <1>4
    <2>1. CASE next = 1
      <3>1. a.slot = AnySlot
        BY <2>1 DEF StartingInv, Begins
      <3>2. slots = 0 .. 0 \/ slots = 0 .. 1
        <4>1. slots \in {{0}, {0, 1}}
          BY <1>s, <2>1 DEF SlotsInv
        <4>2. {0} = 0 .. 0 /\ {0, 1} = 0 .. 1
          OBVIOUS
        <4> QED
          BY <4>1, <4>2
      <3>3. slots' \in {{0, 1}, {0, 1, 2}}
        <4>1. CASE slots = 0 .. 0
          <5>1. Slot(a) = 1
            BY <3>1, <4>1, LowestFree
          <5> QED
            BY <4>1, <5>1 DEF NotPci
        <4>2. CASE slots = 0 .. 1
          <5>1. Slot(a) = 2
            BY <3>1, <4>2, LowestFree
          <5> QED
            BY <4>2, <5>1 DEF NotPci
        <4> QED
          BY <3>2, <4>1, <4>2
      <3> QED
        BY <1>4, <2>1, <3>3 DEF SlotsInv
    <2>2. CASE next = 2
      BY <2>0, <2>2 DEF StartingInv, Begins
    <2>3. CASE next = 3
      <3>1. a.slot = AnySlot
        BY <2>3 DEF StartingInv, Begins
      <3>2. slots = 0 .. 1 \/ slots = 0 .. 2
        <4>1. slots \in {{0, 1}, {0, 1, 2}}
          BY <1>4, <1>s, <2>3 DEF SlotsInv
        <4>2. {0, 1} = 0 .. 1 /\ {0, 1, 2} = 0 .. 2
          OBVIOUS
        <4> QED
          BY <4>1, <4>2
      <3>3. slots' \subseteq 0 .. 3
        <4>1. CASE slots = 0 .. 1
          <5>1. Slot(a) = 2
            BY <3>1, <4>1, LowestFree
          <5> QED
            BY <4>1, <5>1
        <4>2. CASE slots = 0 .. 2
          <5>1. Slot(a) = 3
            BY <3>1, <4>2, LowestFree
          <5> QED
            BY <4>2, <5>1
        <4> QED
          BY <3>2, <4>1, <4>2
      <3> QED
        BY <1>4, <2>3, <3>3 DEF SlotsInv
    <2>4. CASE next > 3
      <3>1. next \in 4 .. Len(args) /\ a.slot # AnySlot
        <4>1. next \in 4 .. Len(args)
          BY <1>1, <2>4
        <4> QED
          BY <1>s, <4>1 DEF Begins
      <3>2. Slot(a) = a.slot
        BY <3>1 DEF Slot
      <3>3. \A r \in slots : r \in 0 .. 3 \/ \E j \in Done : args[j].slot = r
        BY <1>4, <1>s, <2>4 DEF SlotsInv
      <3>4. \A r \in slots' : r \in 0 .. 3 \/ \E j \in Done' : args'[j].slot = r
        BY <1>2, <3>2, <3>3
      <3>5. pass' = 2 /\ next' > 4
        BY <1>1, <1>4, <2>4
      <3> QED
        BY <3>4, <3>5 DEF SlotsInv
    <2> QED
      BY <1>1, <2>1, <2>2, <2>3, <2>4
  <1> QED
    BY <1>1, <1>3, <1>4

(***************************************************************************)
(* A configuration fits exactly when QEMU comes as far as its devices:     *)
(* what defaultMachineType, DefaultToolPaths and the choice of the CPU     *)
(* make of it agree (qemu.go:15-52, config.go:26-30).                      *)
(***************************************************************************)
LEMMA FitsDecides ==
  ASSUME NEW c \in QemuConfigs
  PROVE  Fits(c) <=> ~ Refuses(c)
  <1> DEFINE t == c.machineType
             h == c.host
             amd == h.arch = "amd64"
             x86 == IF c.qemuSystem = "" THEN amd
                    ELSE c.qemuSystem = "qemu-system-x86_64"
             pc == IF t.board = "" THEN amd ELSE t.board = "q35"
             hw == h.hw /\ amd
  <1>1. /\ h \in Host /\ t \in MachineTypes /\ c.qemuSystem \in Emulators \cup {""}
    BY ConfigsAssumption
  <1>2. /\ h.os \in {"linux", "darwin"} /\ h.arch \in {"amd64", "arm64"}
        /\ h.hw \in BOOLEAN
    BY <1>1 DEF Host
  <1>3. /\ t.board \in {"", "q35", "virt"}
        /\ t.accel \in {"", "kvm", "hvf", "tcg"}
        /\ t.fallback \in {"", "kvm", "hvf", "tcg"}
        /\ t.accel = "" => t.fallback = ""
        /\ t.board = "" => t.accel = "" /\ t.fallback = ""
    <2>1. CASE t = NoMachineType
      <3>1. t.board = "" /\ t.accel = "" /\ t.fallback = ""
        <4> HIDE DEF t
        <4> QED
          BY <2>1 DEF NoMachineType
      <3> QED
        BY <3>1
    <2>2. CASE t # NoMachineType
      <3>1. /\ t \in [board : {"q35", "virt"}, accel : Accelerators \cup {""},
                      fallback : Accelerators \cup {""}]
            /\ t.accel = "" => t.fallback = ""
        BY <1>1, <2>2 DEF MachineTypes
      <3> HIDE DEF t
      <3> QED
        BY <3>1 DEF Accelerators
    <2> QED
      BY <2>1, <2>2
  <1>4. QemuSystem(c) = IF x86 THEN "qemu-system-x86_64" ELSE "qemu-system-aarch64"
    BY <1>1, <1>2 DEF QemuSystem, DefaultToolPaths, Emulators
  <1>5. Machine(c).board = IF pc THEN "q35" ELSE "virt"
    BY <1>2, <1>3 DEF Machine, defaultMachineType
  <1>6. Machine(c).board \in Emulates(QemuSystem(c)) \cap IsaBoards <=> x86 /\ pc
    <2> HIDE DEF x86, pc
    <2> QED
      BY <1>4, <1>5 DEF Emulates, IsaBoards
  <1>7. ASSUME x86, pc
        PROVE  /\ Machine(c).accel = IF t.board = "" THEN Native(h) ELSE t.accel
               /\ Machine(c).fallback = t.fallback
               /\ Works(c, "tcg") /\ ~ Works(c, "")
               /\ Works(c, Native(h)) <=> hw
               /\ \A a : Works(c, a) => a \in {"tcg", Native(h)}
    <2>1. /\ Machine(c).accel = IF t.board = "" THEN Native(h) ELSE t.accel
          /\ Machine(c).fallback = t.fallback
      BY <1>3 DEF Machine, defaultMachineType, Native
    <2>2. GuestArch(QemuSystem(c)) = "amd64"
      BY <1>4, <1>7 DEF GuestArch
    <2>3. Native(h) \in {"hvf", "kvm"}
      BY DEF Native
    <2>4. Works(c, Native(h)) <=> hw
      BY <1>2, <2>2, <2>3 DEF Works
    <2>5. Works(c, "tcg") /\ ~ Works(c, "")
      BY <2>3 DEF Works
    <2>6. \A a : Works(c, a) => a \in {"tcg", Native(h)}
      BY DEF Works
    <2> QED
      BY <2>1, <2>4, <2>5, <2>6
  <1>8. ASSUME x86, pc
        PROVE  ~ (Accelerator(c) = "none"
                    \/ (CpuModel(c) = "host" /\ Accelerator(c) = "tcg"))
               <=> \/ t.accel = "tcg"
                   \/ /\ hw
                      /\ \/ t.board = ""
                         \/ t.accel # "" /\ Native(h) \in {t.accel, t.fallback}
    <2> DEFINE m == Machine(c)
               w(a) == Works(c, a)
    <2>0. Native(h) \in {"hvf", "kvm"}
      BY DEF Native
    <2>1. /\ m.accel = IF t.board = "" THEN Native(h) ELSE t.accel
          /\ m.fallback = t.fallback
          /\ w("tcg") /\ ~ w("") /\ (w(Native(h)) <=> hw)
          /\ \A a : w(a) => a \in {"tcg", Native(h)}
      BY <1>7, <1>8
    <2>2. CpuModel(c) = IF m.accel = "tcg" THEN "max" ELSE "host"
      BY DEF CpuModel
    <2>3. /\ m.accel = "" => Accelerator(c) = "tcg"
          /\ m.accel # "" /\ w(m.accel) => Accelerator(c) = m.accel
          /\ m.accel # "" /\ ~ w(m.accel) /\ w(m.fallback)
               => Accelerator(c) = m.fallback
          /\ m.accel # "" /\ ~ w(m.accel) /\ ~ w(m.fallback)
               => Accelerator(c) = "none"
      BY DEF Accelerator
    <2> HIDE DEF m, w, hw, t, h
    <2>4. CASE t.board = ""
      <3>1. m.accel = Native(h) /\ m.fallback = "" /\ t.accel = ""
        BY <1>3, <2>1, <2>4
      <3>2. CpuModel(c) = "host"
        BY <2>0, <2>2, <3>1
      <3>3. hw => Accelerator(c) = Native(h)
        BY <2>0, <2>1, <2>3, <3>1
      <3>4. ~ hw => Accelerator(c) = "none"
        BY <2>0, <2>1, <2>3, <3>1
      <3> QED
        BY <2>0, <2>4, <3>1, <3>2, <3>3, <3>4
    <2>5. CASE t.board # "" /\ t.accel = ""
      <3>1. Accelerator(c) = "tcg" /\ CpuModel(c) = "host"
        BY <2>1, <2>2, <2>3, <2>5
      <3> QED
        BY <2>5, <3>1
    <2>6. CASE t.board # "" /\ t.accel = "tcg"
      <3>1. Accelerator(c) = "tcg" /\ CpuModel(c) = "max"
        BY <2>1, <2>2, <2>3, <2>6
      <3> QED
        BY <2>6, <3>1
    <2>7. CASE t.board # "" /\ t.accel \notin {"", "tcg"}
      <3>1. m.accel = t.accel /\ CpuModel(c) = "host"
        BY <2>1, <2>2, <2>7
      <3>2. CASE w(t.accel)
        <4>1. Accelerator(c) = t.accel /\ t.accel = Native(h) /\ hw
          BY <2>1, <2>3, <2>7, <3>1, <3>2
        <4> QED
          BY <2>0, <2>7, <4>1
      <3>3. CASE ~ w(t.accel) /\ w(t.fallback)
        <4>1. Accelerator(c) = t.fallback
          BY <2>1, <2>3, <2>7, <3>1, <3>3
        <4>2. CASE t.fallback = "tcg"
          <5>1. ~ (hw /\ Native(h) \in {t.accel, t.fallback})
            BY <2>0, <2>1, <3>3, <4>2
          <5> QED
            BY <2>7, <3>1, <4>1, <4>2, <5>1
        <4>3. CASE t.fallback # "tcg"
          <5>1. t.fallback = Native(h) /\ hw
            BY <2>1, <3>3, <4>3
          <5> QED
            BY <2>0, <2>7, <4>1, <5>1
        <4> QED
          BY <4>2, <4>3
      <3>4. CASE ~ w(t.accel) /\ ~ w(t.fallback)
        <4>1. Accelerator(c) = "none"
          BY <2>1, <2>3, <2>7, <3>1, <3>4
        <4>2. ~ (hw /\ Native(h) \in {t.accel, t.fallback})
          BY <2>1, <3>4
        <4> QED
          BY <2>7, <4>1, <4>2
      <3> QED
        BY <3>2, <3>3, <3>4
    <2> QED
      BY <2>4, <2>5, <2>6, <2>7
  <1>9. Fits(c) <=> /\ pc /\ x86
                    /\ \/ t.accel = "tcg"
                       \/ /\ hw
                          /\ \/ t.board = ""
                             \/ t.accel # "" /\ Native(h) \in {t.accel, t.fallback}
    BY DEF Fits
  <1>10. Refuses(c) <=> \/ ~ (x86 /\ pc)
                        \/ Accelerator(c) = "none"
                        \/ CpuModel(c) = "host" /\ Accelerator(c) = "tcg"
    BY <1>6 DEF Refuses
  <1> HIDE DEF t, h, amd, x86, pc, hw
  <1> QED
    BY <1>8, <1>9, <1>10

(***************************************************************************)
(* QEMU is started, with a configuration that fits or one that does not.   *)
(***************************************************************************)
LEMMA StartKeeps ==
  ASSUME QemuInv, StartQemu
  PROVE  QemuInv'
  <1>1. QemuIdle /\ UNCHANGED <<pass, next, ids, boots>>
    BY DEF QemuInv, StartQemu
  <1>2. PICK c \in QemuConfigs :
           /\ qemu' = IF Refuses(c) THEN "refused" ELSE "starting"
           /\ conf' = c
           /\ args' = buildQEMUArgs(c)
           /\ slots' \in Onboard
    BY DEF StartQemu
  <1>3. Fits(conf)' <=> ~ Refuses(c)
    <2>1. Fits(conf)' <=> Fits(c)
      BY <1>2 DEF Fits
    <2> QED
      BY <2>1, FitsDecides
  <1>7. Consistent(args') /\ Begins(args')
    BY <1>2, CommandLine
  <1>8. slots' \in {{0}, {0, 1}}
    BY <1>2 DEF Onboard
  <1>9. pass' = 1 /\ next' = 1 /\ ids' = {} /\ boots' = {}
    BY <1>1 DEF QemuIdle
  <1>10. next' \in 1 .. Len(args') + 1 /\ Done' = {}
    <2>1. Len(args') \in Nat
      BY <1>7, LenProperties DEF Consistent
    <2> QED
      BY <1>9, <2>1 DEF Done
  <1>11. SlotsInv'
    BY <1>8, <1>9 DEF SlotsInv
  <1>12. StartingInv'
    BY <1>7, <1>9, <1>10, <1>11 DEF StartingInv
  <1>13. CASE Refuses(c)
    BY <1>2, <1>3, <1>13 DEF QemuInv
  <1>14. CASE ~ Refuses(c)
    BY <1>2, <1>3, <1>12, <1>14 DEF QemuInv
  <1> QED
    BY <1>13, <1>14

(***************************************************************************)
(* QEMU takes an argument, or passes over it.                              *)
(***************************************************************************)
LEMMA TakeKeeps ==
  ASSUME QemuInv, TakeArg
  PROVE  QemuInv'
  <1> DEFINE a == args[next]
  <1>1. /\ StartingInv /\ qemu = "starting" /\ next <= Len(args)
        /\ next' = next + 1 /\ UNCHANGED <<args, pass>>
    BY DEF QemuInv, TakeArg
  <1>2. /\ pass \in {1, 2} /\ next \in 1 .. Len(args) + 1 /\ Len(args) \in Nat
        /\ args \in Seq(Arg)
    BY <1>1, OnTheWay
  <1>c. Fits(conf) /\ Fits(conf)'
    <2>1. Fits(conf) /\ UNCHANGED conf
      BY <1>1 DEF QemuInv, TakeArg
    <2> QED
      BY <2>1 DEF Fits
  <1>3. next' \in 1 .. Len(args') + 1 /\ pass' \in {1, 2}
    BY <1>1, <1>2
  <1>4. Consistent(args') /\ Begins(args')
    BY <1>1 DEF StartingInv
  <1>b. a.device \in BOOLEAN
    <2>1. args \in Seq(Arg) /\ next \in 1 .. Len(args)
      BY <1>1, <1>2
    <2>2. a \in Arg
      BY <2>1, ElementOfSeq
    <2> QED
      BY <2>2 DEF Arg
  <1>5. CASE a.device # (pass = 2) /\ UNCHANGED <<qemu, ids, slots, boots>>
    <2>1. ~ (a.device <=> pass = 2)
      BY <1>b, <1>5
    <2>2. Done' = Done
      BY <1>1, <2>1, DoneStep
    <2>3. SlotsInv'
      <3>1. pass = 2 => next # 1 /\ next # 3
        BY <1>1, <2>1 DEF StartingInv, Begins
      <3>2. next \in Nat
        BY <1>2
      <3>3. pass = 1 => slots \in {{0}, {0, 1}}
        BY <1>1 DEF StartingInv, SlotsInv
      <3>4. pass = 2 /\ next = 2 => slots \in {{0, 1}, {0, 1, 2}}
        BY <1>1 DEF StartingInv, SlotsInv
      <3>5. pass = 2 /\ next > 3 =>
              \A r \in slots : r \in 0 .. 3 \/ \E j \in Done : args[j].slot = r
        BY <1>1 DEF StartingInv, SlotsInv
      <3>6. CASE pass = 1
        BY <1>1, <1>5, <3>3, <3>6 DEF SlotsInv
      <3>7. CASE pass = 2 /\ next = 2
        BY <1>1, <1>5, <3>4, <3>7 DEF SlotsInv
      <3>8. CASE pass = 2 /\ next > 3
        BY <1>1, <1>5, <2>2, <3>2, <3>5, <3>8 DEF SlotsInv
      <3> QED
        BY <1>2, <3>1, <3>6, <3>7, <3>8
    <2>4. /\ ids' = {args'[j].id : j \in Done'} \ {""}
          /\ boots' = {args'[j].boot : j \in Done'} \ {NoBoot}
      <3>1. /\ ids = {args[j].id : j \in Done} \ {""}
            /\ boots = {args[j].boot : j \in Done} \ {NoBoot}
        BY <1>1 DEF StartingInv
      <3> QED
        BY <1>1, <1>5, <2>2, <3>1
    <2>5. StartingInv'
      BY <1>3, <1>4, <2>3, <2>4 DEF StartingInv
    <2> QED
      BY <1>1, <1>c, <1>5, <2>5 DEF QemuInv
  <1>6. CASE /\ a.device = (pass = 2)
             /\ qemu' = IF Clashes(a) THEN "refused" ELSE qemu
             /\ ids' = (ids \cup {a.id}) \ {""}
             /\ slots' = (slots \cup {Slot(a)}) \ {NotPci}
             /\ boots' = (boots \cup {a.boot}) \ {NoBoot}
    <2>1. a.device <=> pass = 2
      BY <1>b, <1>6
    <2>2. ~ Clashes(a)
      BY <1>1, <2>1, NoClash
    <2>3. qemu' = "starting"
      BY <1>1, <1>6, <2>2
    <2>4. Done' = Done \cup {next}
      BY <1>1, <2>1, DoneStep
    <2>5. ids' = {args'[j].id : j \in Done'} \ {""}
      <3>1. {args[j].id : j \in Done \cup {next}} = {args[j].id : j \in Done} \cup {a.id}
        OBVIOUS
      <3>2. ids = {args[j].id : j \in Done} \ {""}
        BY <1>1 DEF StartingInv
      <3> QED
        BY <1>1, <1>6, <2>4, <3>1, <3>2
    <2>6. boots' = {args'[j].boot : j \in Done'} \ {NoBoot}
      <3>1. {args[j].boot : j \in Done \cup {next}}
              = {args[j].boot : j \in Done} \cup {a.boot}
        OBVIOUS
      <3>2. boots = {args[j].boot : j \in Done} \ {NoBoot}
        BY <1>1 DEF StartingInv
      <3> QED
        BY <1>1, <1>6, <2>4, <3>1, <3>2
    <2>7. SlotsInv'
      BY <1>1, <1>6, <2>1, SlotsTaken
    <2>8. StartingInv'
      BY <1>3, <1>4, <2>5, <2>6, <2>7 DEF StartingInv
    <2> QED
      BY <1>c, <2>3, <2>8 DEF QemuInv
  <1> QED
    BY <1>5, <1>6 DEF TakeArg

(***************************************************************************)
(* QEMU has been through its arguments, once for the back ends and once    *)
(* for the devices.                                                        *)
(***************************************************************************)
LEMMA EndKeeps ==
  ASSUME QemuInv, EndPass
  PROVE  QemuInv'
  <1>1. /\ StartingInv /\ qemu = "starting" /\ next > Len(args)
        /\ UNCHANGED <<args, ids, slots, boots>>
    BY DEF QemuInv, EndPass
  <1>c. Fits(conf) /\ Fits(conf)'
    <2>1. Fits(conf) /\ UNCHANGED conf
      BY <1>1 DEF QemuInv, EndPass
    <2> QED
      BY <2>1 DEF Fits
  <1>2. CASE pass = 1 /\ pass' = 2 /\ next' = 1 /\ UNCHANGED qemu
    <2>1. Done' = Done
      BY <1>1, <1>2, DoneStep
    <2>2. next' \in 1 .. Len(args') + 1
      <3>1. args \in Seq(Arg)
        BY <1>1 DEF StartingInv, Consistent
      <3>2. Len(args) \in Nat
        BY <3>1, LenProperties
      <3> QED
        BY <1>1, <1>2, <3>2
    <2>3. SlotsInv'
      <3>1. slots' \in {{0}, {0, 1}}
        BY <1>1, <1>2 DEF StartingInv, SlotsInv
      <3> QED
        BY <1>2, <3>1 DEF SlotsInv
    <2>4. StartingInv'
      BY <1>1, <1>2, <2>1, <2>2, <2>3 DEF StartingInv
    <2> QED
      BY <1>1, <1>c, <1>2, <2>4 DEF QemuInv
  <1>3. CASE qemu' = "running"
    BY <1>c, <1>3 DEF QemuInv
  <1> QED
    BY <1>2, <1>3 DEF EndPass

(***************************************************************************)
(* QEMU takes the command line of a configuration that fits and of no      *)
(* other (qemu.go:15-119, config.go), for any set of configurations and    *)
(* whether or not the board comes with a graphics card.                    *)
(***************************************************************************)
THEOREM CommandAccepted == Spec => []QemuAccepts
  <1>1. Init => QemuInv
    BY DEF Init, QemuInv, QemuIdle
  <1>2. QemuInv /\ [Next]_<<qemuVars, optVars>> => QemuInv'
    <2> SUFFICES ASSUME QemuInv, [Next]_<<qemuVars, optVars>> PROVE QemuInv'
      OBVIOUS
    <2>1. CASE UNCHANGED qemuVars
      <3>1. UNCHANGED <<qemu, conf, args, pass, next, ids, slots, boots>>
        BY <2>1 DEF qemuVars
      <3>2. Done' = Done
        BY <3>1 DEF Done
      <3>3. SlotsInv => SlotsInv'
        BY <3>1, <3>2 DEF SlotsInv
      <3>4. StartingInv => StartingInv'
        BY <3>1, <3>2, <3>3 DEF StartingInv
      <3>5. QemuIdle => QemuIdle'
        BY <3>1 DEF QemuIdle
      <3>6. Fits(conf)' <=> Fits(conf)
        BY <3>1 DEF Fits
      <3> QED
        BY <3>1, <3>4, <3>5, <3>6 DEF QemuInv
    <2> QED
      BY <2>1, StartKeeps, TakeKeeps, EndKeeps DEF Next, QemuNext
  <1>3. QemuInv => QemuAccepts
    BY DEF QemuInv, QemuAccepts
  <1> QED
    BY <1>1, <1>2, <1>3, PTL DEF Spec
=============================================================================
