------------------------- MODULE OrchestratorProofs -------------------------
(***************************************************************************)
(* Proofs about Orchestrator, for every set of orchestrators, every list   *)
(* of jobs they are given and every way their names begin alike.           *)
(***************************************************************************)
EXTENDS Orchestrator, TLAPS

(***************************************************************************)
(* The inductive invariant.                                                *)
(***************************************************************************)
Pc == SetupPc \cup {"idle", "run", "foreground", "kill", "attached", "exited"}

(* The type of the state, the domains of its functions included.           *)
FunInv ==
  /\ windows \subseteq {w \in Window : w.job \in EnsureJobs(w.by)}
  /\ pc \in [Orc -> Pc]
  /\ todo \in [Orc -> SUBSET Nat]
  /\ reported \in [Orc -> SUBSET Nat]
  /\ snapshot \in [Orc -> SUBSET Name]
  /\ lost \in [Orc -> SUBSET Name]
  /\ code \in [Orc -> {"none", "failed", "duplicate", "status", "ok"}]
  /\ overlap \in BOOLEAN
  /\ \A o \in Orc : todo[o] \cup reported[o] \subseteq EnsureJobs(o)

(* The loops: which program points have the whole list before them, and    *)
(* have not listed the windows yet.                                        *)
LoopInv(o) ==
  /\ pc[o] \in {"idle", "has", "create", "createCheck", "list", "foreground"}
       => todo[o] = EnsureJobs(o)
  /\ pc[o] \in {"idle", "has", "create", "createCheck", "list"}
       => snapshot[o] = {}
  /\ code[o] # "none" => pc[o] = "exited"

(* The jobs an orchestrator is through with have their windows, or it is   *)
(* known why not; what it listed is there, or has ended since.             *)
Covered(o, i) ==
  Live(Names(o)[i]) \/ i \in reported[o] \/ Names(o)[i] \in lost[o]

CoverInv(o) ==
  /\ pc[o] \in {"window", "windowCheck"} =>
       /\ \A i \in EnsureJobs(o) \ todo[o] : Covered(o, i)
       /\ \A n \in snapshot[o] \cap Range(Names(o)) : Live(n) \/ n \in lost[o]
  /\ pc[o] \in {"run", "foreground", "kill", "attached"} =>
       \A i \in EnsureJobs(o) : Covered(o, i)

(* Orchestrators that set up in turn: nobody else creates windows, so the  *)
(* windows there are were listed, or created by the one that is setting    *)
(* up, for jobs it is through with or is at.                               *)
SetupInv(o) ==
  /\ pc[o] = "create" => windows = {}
  /\ pc[o] = "window" => \A w \in windows :
       NameOf(w) \in snapshot[o] \/ (w.by = o /\ w.job \notin todo[o])
  /\ pc[o] \in {"createCheck", "windowCheck"} => \A w \in windows :
       \/ NameOf(w) \in snapshot[o]
       \/ w.by = o /\ (w.job \in todo[o] => Current(o, w.job))

(* ... and the windows left when one cleans up are still to be killed.     *)
CleanInv(o) ==
  /\ pc[o] = "kill" => \A w \in windows : w.by = o => w.job \in todo[o]
  /\ code[o] = "status" => \A w \in windows : w.by # o

Unique == \A v, w \in windows : NameOf(v) = NameOf(w) => v = w

TurnInv ==
  /\ \A o, p \in Orc : Setup(o) /\ Setup(p) => o = p
  /\ Unique
  /\ \A o \in Orc : SetupInv(o) /\ CleanInv(o) /\ code[o] # "duplicate"

IndInv ==
  /\ FunInv
  /\ \A o \in Orc : LoopInv(o) /\ CoverInv(o)
  /\ InTurn => TurnInv

-----------------------------------------------------------------------------
(***************************************************************************)
(* A job list is a list of names, the primary VM's included.               *)
(***************************************************************************)
LEMMA NamesType ==
  ASSUME NEW o \in Orc
  PROVE  /\ DOMAIN Names(o) \subseteq Nat
         /\ \A i \in DOMAIN Names(o) : Names(o)[i] \in Name
         /\ \A i \in EnsureJobs(o) : i \in Nat /\ Names(o)[i] \in Name
         /\ \A i \in EnsureJobs(o) : Names(o)[i] \in Range(Names(o))
         /\ Range(Names(o)) \subseteq Name
  <1>1. Cfg[o].primary \in Name
    BY DEF Name
  <1>2. Cfg[o].deps \in Seq(Name)
    BY CfgAssumption
  <1>3. /\ Names(o) \in Seq(Name)
        /\ DOMAIN Names(o) = 1 .. Len(Names(o))
        /\ Len(Names(o)) \in Nat
    BY <1>1, <1>2 DEF Names
  <1>4. \A i \in DOMAIN Names(o) : Names(o)[i] \in Name
    BY <1>3
  <1> QED
    BY <1>3, <1>4 DEF EnsureJobs, Range

(***************************************************************************)
(* The names of windows are names of jobs.                                 *)
(***************************************************************************)
LEMMA WindowName ==
  ASSUME NEW w \in Window
  PROVE  w.by \in Orc /\ w.job \in Nat /\ NameOf(w) \in Name
  BY NamesType DEF Window, NameOf

(***************************************************************************)
(* A session without windows satisfies the invariant.                      *)
(***************************************************************************)
LEMMA InvInit == Init => IndInv
  <1> SUFFICES ASSUME Init PROVE IndInv
      OBVIOUS
  <1>1. FunInv
    BY NamesType DEF Init, FunInv, Pc
  <1>2. \A o \in Orc : LoopInv(o) /\ CoverInv(o)
    BY DEF Init, LoopInv, CoverInv
  <1>3. TurnInv
    BY DEF Init, TurnInv, Unique, SetupInv, CleanInv, Setup, SetupPc
  <1> QED
    BY <1>1, <1>2, <1>3 DEF IndInv

(***************************************************************************)
(* Every step keeps every variable in its domain, and windows are for jobs *)
(* that are to be ensured.                                                 *)
(***************************************************************************)
LEMMA FunStep == FunInv /\ [Next]_vars => FunInv'
  <1> SUFFICES ASSUME FunInv, [Next]_vars PROVE FunInv'
      OBVIOUS
  <1> USE DEF FunInv, Pc, SetupPc, Goto, Done, Exit, local
  <1>a. \A o \in Orc : EnsureJobs(o) \subseteq Nat
    BY NamesType
  <1>b. ASSUME NEW o \in Orc, NEW i \in EnsureJobs(o)
        PROVE  [by |-> o, job |-> i] \in {w \in Window : w.job \in EnsureJobs(w.by)}
    BY <1>b, NamesType DEF Window, EnsureJobs
  <1>c. ASSUME NEW W, Gone(W), UNCHANGED <<pc, snapshot, reported, code, overlap>>,
               todo' \in [Orc -> SUBSET Nat],
               \A o \in Orc : todo'[o] \subseteq todo[o]
        PROVE  FunInv'
    <2>1. lost' \in [Orc -> SUBSET Name]
      BY <1>c, NamesType DEF Gone
    <2> QED
      BY <1>c, <2>1 DEF Gone
  <1>1. ASSUME NEW o \in Orc, Start(o) PROVE FunInv'
    BY <1>1 DEF Start
  <1>2. ASSUME NEW o \in Orc, HasSession(o) PROVE FunInv'
    BY <1>2 DEF HasSession
  <1>3. ASSUME NEW o \in Orc, Create(o) PROVE FunInv'
    BY <1>3, <1>b DEF Create
  <1>4. ASSUME NEW o \in Orc, CreateCheck(o) PROVE FunInv'
    BY <1>4 DEF CreateCheck
  <1>5. ASSUME NEW o \in Orc, List(o) PROVE FunInv'
    <2>1. {NameOf(w) : w \in windows} \subseteq Name
      BY WindowName
    <2> QED
      BY <1>5, <2>1 DEF List
  <1>6. ASSUME NEW o \in Orc, Skip(o) PROVE FunInv'
    BY <1>6 DEF Skip
  <1>7. ASSUME NEW o \in Orc, CreateWindow(o) PROVE FunInv'
    BY <1>7, <1>a, <1>b DEF CreateWindow
  <1>8. ASSUME NEW o \in Orc, WindowCheck(o) PROVE FunInv'
    BY <1>8, <1>a DEF WindowCheck
  <1>9. ASSUME NEW o \in Orc, SetupDone(o) PROVE FunInv'
    BY <1>9 DEF SetupDone
  <1>10. ASSUME NEW o \in Orc, RunForeground(o) PROVE FunInv'
    BY <1>10, <1>a DEF RunForeground
  <1>11. ASSUME NEW o \in Orc, ForegroundEnds(o) PROVE FunInv'
    BY <1>11 DEF ForegroundEnds
  <1>12. ASSUME NEW o \in Orc, KillWindow(o) PROVE FunInv'
    <2>1. PICK i \in EnsureJobs(o) : Gone(Target(Names(o)[i])) /\ Done(o, i)
      BY <1>12 DEF KillWindow
    <2>2. todo' \in [Orc -> SUBSET Nat] /\ \A p \in Orc : todo'[p] \subseteq todo[p]
      BY <2>1
    <2> QED
      BY <1>12, <2>1, <2>2, <1>c DEF KillWindow
  <1>13. ASSUME NEW o \in Orc, KillDone(o) PROVE FunInv'
    BY <1>13 DEF KillDone
  <1>14. ASSUME NEW o \in Orc, Attach(o) PROVE FunInv'
    BY <1>14 DEF Attach
  <1>15. ASSUME NEW o \in Orc, Detach(o) PROVE FunInv'
    BY <1>15 DEF Detach
  <1>16. ASSUME NEW o \in Orc, Interrupt(o) PROVE FunInv'
    BY <1>16 DEF Interrupt
  <1>17. CASE WindowExits
    BY <1>17, <1>c DEF WindowExits
  <1>18. CASE UNCHANGED vars
    BY <1>18 DEF vars
  <1> QED
    BY <1>1, <1>2, <1>3, <1>4, <1>5, <1>6, <1>7, <1>8, <1>9, <1>10, <1>11,
       <1>12, <1>13, <1>14, <1>15, <1>16, <1>17, <1>18 DEF Next, Step

(***************************************************************************)
(* A step of one orchestrator changes what another knows only through      *)
(* tmux: nothing but the names that were lost with a window.               *)
(***************************************************************************)
LEMMA OthersKeep ==
  ASSUME FunInv, NEW o \in Orc, NEW p \in Orc, p # o,
         \/ Start(o) \/ Step(o)
         \/ ForegroundEnds(o) \/ Detach(o) \/ Interrupt(o)
  PROVE  /\ pc'[p] = pc[p] /\ todo'[p] = todo[p] /\ snapshot'[p] = snapshot[p]
         /\ reported'[p] = reported[p] /\ code'[p] = code[p]
         /\ KillWindow(o) \/ lost'[p] = lost[p]
  BY DEF FunInv, Goto, Done, Exit, local, Step, Start, HasSession, Create,
     CreateCheck, List, Skip, CreateWindow, WindowCheck, SetupDone,
     RunForeground, ForegroundEnds, KillWindow, KillDone, Attach, Detach,
     Interrupt

(***************************************************************************)
(* Every step keeps the lists of the loops: the jobs to ensure are all     *)
(* still to be handled until the first was, and again when the foreground  *)
(* command runs; and only a process that has ended has an exit code.       *)
(***************************************************************************)
LEMMA LoopStep ==
  ASSUME FunInv, FunInv', \A o \in Orc : LoopInv(o), [Next]_vars
  PROVE  \A o \in Orc : LoopInv(o)'
  <1>1. ASSUME NEW o \in Orc,
               \/ Start(o) \/ Step(o)
               \/ ForegroundEnds(o) \/ Detach(o) \/ Interrupt(o)
        PROVE  \A p \in Orc : LoopInv(p)'
    <2>1. ASSUME NEW p \in Orc, p # o PROVE LoopInv(p)'
      BY <1>1, <2>1, OthersKeep DEF LoopInv
    <2>2. LoopInv(o)'
      <3> USE DEF FunInv, LoopInv, Goto, Done, Exit, local
      <3>1. CASE Start(o)
        BY <3>1 DEF Start
      <3>2. CASE HasSession(o)
        BY <3>2 DEF HasSession
      <3>3. CASE Create(o)
        BY <3>3 DEF Create
      <3>4. CASE CreateCheck(o)
        BY <3>4 DEF CreateCheck
      <3>5. CASE List(o)
        BY <3>5 DEF List
      <3>6. CASE Skip(o)
        BY <3>6 DEF Skip
      <3>7. CASE CreateWindow(o)
        BY <3>7 DEF CreateWindow
      <3>8. CASE WindowCheck(o)
        BY <3>8 DEF WindowCheck
      <3>9. CASE SetupDone(o)
        BY <3>9 DEF SetupDone
      <3>10. CASE RunForeground(o)
        BY <3>10 DEF RunForeground
      <3>11. CASE ForegroundEnds(o)
        BY <3>11 DEF ForegroundEnds
      <3>12. CASE KillWindow(o)
        BY <3>12 DEF KillWindow
      <3>13. CASE KillDone(o)
        BY <3>13 DEF KillDone
      <3>14. CASE Attach(o)
        BY <3>14 DEF Attach
      <3>15. CASE Detach(o)
        BY <3>15 DEF Detach
      <3>16. CASE Interrupt(o)
        BY <3>16 DEF Interrupt
      <3> QED
        BY <1>1, <3>1, <3>2, <3>3, <3>4, <3>5, <3>6, <3>7, <3>8, <3>9, <3>10,
           <3>11, <3>12, <3>13, <3>14, <3>15, <3>16 DEF Step
    <2> QED
      BY <2>1, <2>2
  <1>2. CASE WindowExits \/ UNCHANGED vars
    BY <1>2 DEF WindowExits, vars, LoopInv
  <1> QED
    BY <1>1, <1>2 DEF Next

-----------------------------------------------------------------------------
(***************************************************************************)
(* What an orchestrator knows survives the windows that others create.     *)
(***************************************************************************)
LEMMA CoverGrows ==
  ASSUME NEW p \in Orc, CoverInv(p), windows \subseteq windows',
         pc'[p] = pc[p], todo'[p] = todo[p], snapshot'[p] = snapshot[p],
         reported'[p] = reported[p], lost'[p] = lost[p]
  PROVE  CoverInv(p)'
  BY DEF CoverInv, Covered, Live

(***************************************************************************)
(* What an orchestrator knows survives the end of windows, whoever or      *)
(* whatever ended them: a name of its list that goes is lost to it.        *)
(***************************************************************************)
LEMMA CoverLoses ==
  ASSUME FunInv, NEW W, Gone(W), NEW p \in Orc, CoverInv(p),
         pc'[p] = pc[p], snapshot'[p] = snapshot[p], reported'[p] = reported[p],
         todo'[p] = todo[p] \/ pc[p] = "kill"
  PROVE  CoverInv(p)'
  <1>1. ASSUME NEW n \in Range(Names(p)), pc[p] \notin {"idle", "exited"},
               Live(n) \/ n \in lost[p]
        PROVE  Live(n)' \/ n \in lost'[p]
    <2>1. lost'[p] = lost[p] \cup ({NameOf(w) : w \in W} \cap Range(Names(p)))
      BY <1>1 DEF Gone
    <2>2. CASE Live(n)
      <3>1. PICK w \in windows : NameOf(w) = n
        BY <2>2 DEF Live
      <3> QED
        BY <1>1, <2>1, <3>1 DEF Gone, Live
    <2> QED
      BY <1>1, <2>1, <2>2
  <1>2. ASSUME NEW i \in EnsureJobs(p), pc[p] \notin {"idle", "exited"},
               Covered(p, i)
        PROVE  Covered(p, i)'
    BY <1>1, <1>2, NamesType DEF Covered
  <1>3. CASE pc[p] \in {"window", "windowCheck"}
    BY <1>1, <1>2, <1>3 DEF CoverInv
  <1>4. CASE pc[p] \in {"run", "foreground", "kill", "attached"}
    BY <1>2, <1>4 DEF CoverInv
  <1> QED
    BY <1>3, <1>4 DEF CoverInv

(***************************************************************************)
(* Every step keeps what orchestrators know about the jobs they are        *)
(* through with (main.go:123-152).                                         *)
(***************************************************************************)
LEMMA CoverStep ==
  ASSUME FunInv, FunInv', \A o \in Orc : LoopInv(o) /\ CoverInv(o), [Next]_vars
  PROVE  \A o \in Orc : CoverInv(o)'
  <1>1. ASSUME NEW o \in Orc,
               \/ Start(o) \/ Step(o)
               \/ ForegroundEnds(o) \/ Detach(o) \/ Interrupt(o),
               ~ KillWindow(o)
        PROVE  \A p \in Orc : CoverInv(p)'
    <2>0. windows \subseteq windows'
      BY <1>1 DEF Step, Start, HasSession, Create, CreateCheck, List, Skip,
         CreateWindow, WindowCheck, SetupDone, RunForeground, ForegroundEnds,
         KillDone, Attach, Detach, Interrupt
    <2>1. ASSUME NEW p \in Orc, p # o PROVE CoverInv(p)'
      BY <1>1, <2>0, <2>1, OthersKeep, CoverGrows
    <2>2. CoverInv(o)'
      <3> USE DEF FunInv, CoverInv, Goto
      <3>0. ASSUME NEW c, Exit(o, c) PROVE CoverInv(o)'
        BY <3>0 DEF Exit
      <3>a. \A i \in EnsureJobs(o) : Names(o)[i] \in Range(Names(o))
        BY NamesType
      <3>1. CASE Start(o)
        BY <3>0, <3>1 DEF Start
      <3>2. CASE HasSession(o)
        BY <3>2 DEF HasSession
      <3>3. CASE Create(o)
        BY <3>0, <3>3 DEF Create
      <3>4. CASE CreateCheck(o)
        <4>1. PICK i \in EnsureJobs(o) :
                \/ /\ Live(Names(o)[i])
                   /\ Done(o, i)
                   /\ Goto(o, "window")
                   /\ UNCHANGED <<code, snapshot, reported, lost>>
                \/ Exit(o, "failed")
          BY <3>4 DEF CreateCheck
        <4>2. CASE Exit(o, "failed")
          BY <3>0, <4>2
        <4>3. CASE ~ Exit(o, "failed")
          <5>1. todo[o] = EnsureJobs(o) /\ windows' = windows
            BY <3>4 DEF CreateCheck, LoopInv
          <5>2. EnsureJobs(o) \ todo'[o] \subseteq {i}
            BY <4>1, <4>3, <5>1 DEF Done
          <5>3. Live(Names(o)[i])'
            BY <4>1, <4>3, <5>1 DEF Live
          <5>4. snapshot[o] = {}
            BY <3>4 DEF CreateCheck, LoopInv
          <5> QED
            BY <4>1, <4>3, <5>1, <5>2, <5>3, <5>4 DEF Covered
        <4> QED
          BY <4>2, <4>3
      <3>5. CASE List(o)
        BY <3>5 DEF List, LoopInv, Live
      <3>6. CASE Skip(o)
        <4>1. PICK i \in EnsureJobs(o) : Names(o)[i] \in snapshot[o] /\ Done(o, i)
          BY <3>6 DEF Skip
        <4>2. Covered(o, i)
          BY <3>6, <3>a, <4>1 DEF Skip, Covered
        <4> QED
          BY <3>6, <4>1, <4>2 DEF Skip, Done, Covered, Live
      <3>7. CASE CreateWindow(o)
        BY <3>7 DEF CreateWindow, Done, Covered, Live
      <3>8. CASE WindowCheck(o)
        BY <3>8 DEF WindowCheck, Done, Covered, Live
      <3>9. CASE SetupDone(o)
        BY <3>9 DEF SetupDone, Covered, Live
      <3>10. CASE RunForeground(o)
        BY <3>0, <3>10 DEF RunForeground, Covered, Live
      <3>11. CASE ForegroundEnds(o)
        BY <3>11 DEF ForegroundEnds, Covered, Live
      <3>12. CASE KillDone(o)
        BY <3>0, <3>12 DEF KillDone
      <3>13. CASE Attach(o)
        BY <3>0, <3>13 DEF Attach, local, Covered, Live
      <3>14. CASE Detach(o) \/ Interrupt(o)
        BY <3>0, <3>14 DEF Detach, Interrupt
      <3> QED
        BY <1>1, <3>1, <3>2, <3>3, <3>4, <3>5, <3>6, <3>7, <3>8, <3>9, <3>10,
           <3>11, <3>12, <3>13, <3>14 DEF Step
    <2> QED
      BY <2>1, <2>2
  <1>2. ASSUME NEW o \in Orc, KillWindow(o) PROVE \A p \in Orc : CoverInv(p)'
    <2>1. PICK i \in EnsureJobs(o) : Gone(Target(Names(o)[i])) /\ Done(o, i)
      BY <1>2 DEF KillWindow
    <2>2. \A p \in Orc : todo'[p] = todo[p] \/ pc[p] = "kill"
      BY <1>2, <2>1 DEF FunInv, KillWindow, Done
    <2> QED
      BY <1>2, <2>1, <2>2, CoverLoses DEF KillWindow
  <1>3. CASE WindowExits
    BY <1>3, CoverLoses DEF WindowExits
  <1>4. CASE UNCHANGED vars
    BY <1>4, CoverGrows DEF vars
  <1> QED
    BY <1>1, <1>2, <1>3, <1>4 DEF Next

-----------------------------------------------------------------------------
(***************************************************************************)
(* Orchestrators once out of turn stay so, and whether a list names a job  *)
(* twice does not change.                                                  *)
(***************************************************************************)
LEMMA InTurnBefore ==
  ASSUME FunInv, [Next]_vars, InTurn'
  PROVE  InTurn
  <1>1. overlap' = FALSE /\ \A o \in Orc : ~ SameName(o)
    BY DEF InTurn, SameName, Names
  <1>2. overlap = FALSE
    BY <1>1 DEF FunInv, Next, vars, Step, Start, HasSession, Create, CreateCheck,
       List, Skip, CreateWindow, WindowCheck, SetupDone, RunForeground,
       ForegroundEnds, KillWindow, KillDone, Attach, Detach, Interrupt, WindowExits
  <1> QED
    BY <1>1, <1>2 DEF InTurn

(***************************************************************************)
(* A step that creates no window keeps the invariant of orchestrators in   *)
(* turn if it keeps that of the orchestrator that takes it.                *)
(***************************************************************************)
LEMMA TurnShrinks ==
  ASSUME TurnInv, windows' \subseteq windows, NEW o \in Orc,
         \A p \in Orc : p # o =>
           /\ pc'[p] = pc[p] /\ todo'[p] = todo[p]
           /\ snapshot'[p] = snapshot[p] /\ code'[p] = code[p],
         pc'[o] \in SetupPc =>
           pc[o] \in SetupPc \/ \A p \in Orc : p # o => pc[p] \notin SetupPc,
         SetupInv(o)', CleanInv(o)', code'[o] # "duplicate"
  PROVE  TurnInv'
  <1>1. \A q, p \in Orc : Setup(q)' /\ Setup(p)' => q = p
    BY DEF TurnInv, Setup
  <1>2. Unique'
    BY DEF TurnInv, Unique, NameOf
  <1>3. ASSUME NEW p \in Orc PROVE SetupInv(p)' /\ CleanInv(p)'
    <2>1. CASE p # o
      <3>1. SetupInv(p)'
        BY <2>1 DEF TurnInv, SetupInv, Current, NameOf
      <3>2. CleanInv(p)'
        BY <2>1 DEF TurnInv, CleanInv
      <3> QED
        BY <3>1, <3>2
    <2> QED
      BY <2>1
  <1> QED
    BY <1>1, <1>2, <1>3 DEF TurnInv

(***************************************************************************)
(* A window created for a job that is not on the list of windows, by the   *)
(* only orchestrator that is setting up, has a name of its own.            *)
(***************************************************************************)
LEMMA TurnGrows ==
  ASSUME FunInv, TurnInv, InTurn, NEW o \in Orc, LoopInv(o), NEW i \in EnsureJobs(o),
         Current(o, i), Names(o)[i] \notin snapshot[o],
         pc[o] \in {"create", "window"},
         pc' = [pc EXCEPT ![o] = IF pc[o] = "create" THEN "createCheck"
                                                     ELSE "windowCheck"],
         windows' = windows \cup {[by |-> o, job |-> i]},
         UNCHANGED <<todo, snapshot, code>>
  PROVE  TurnInv'
  <1> DEFINE v == [by |-> o, job |-> i]
  <1>1. NameOf(v) = Names(o)[i]
    BY DEF NameOf
  <1>2. ASSUME NEW w \in windows PROVE NameOf(w) # NameOf(v)
    <2>1. \/ NameOf(w) \in snapshot[o]
          \/ w.by = o /\ w.job \notin todo[o]
      BY DEF TurnInv, SetupInv
    <2>2. CASE NameOf(w) \in snapshot[o]
      BY <1>1, <2>2
    <2>3. CASE w.by = o /\ w.job \notin todo[o]
      <3>1. w.job # i /\ w.job \in DOMAIN Names(o) /\ i \in DOMAIN Names(o)
        BY <2>3 DEF Current, FunInv, Window, EnsureJobs
      <3>2. Names(o)[w.job] # Names(o)[i]
        BY <3>1 DEF InTurn, SameName
      <3> QED
        BY <1>1, <2>3, <3>2 DEF NameOf
    <2> QED
      BY <2>1, <2>2, <2>3
  <1>3. Unique'
    BY <1>2 DEF TurnInv, Unique, NameOf
  <1>4. \A q, p \in Orc : Setup(q)' /\ Setup(p)' => q = p
    BY DEF FunInv, TurnInv, Setup, SetupPc
  <1>5. ASSUME NEW p \in Orc PROVE SetupInv(p)' /\ CleanInv(p)'
    <2>1. CASE p = o
      <3>1. \A w \in windows' : \/ NameOf(w) \in snapshot[o]
                                \/ w.by = o /\ w.job \notin todo[o]
                                \/ w.by = o /\ Current(o, w.job)
        BY DEF TurnInv, SetupInv
      <3>2. SetupInv(p)'
        BY <2>1, <3>1 DEF FunInv, SetupInv, Current, NameOf
      <3>3. CleanInv(p)'
        BY <2>1 DEF FunInv, CleanInv, LoopInv
      <3> QED
        BY <3>2, <3>3
    <2>2. CASE p # o
      <3>1. pc'[p] = pc[p] /\ pc[p] \notin SetupPc
        BY <2>2 DEF FunInv, TurnInv, Setup, SetupPc
      <3>2. SetupInv(p)'
        BY <3>1 DEF SetupInv, SetupPc
      <3>3. CleanInv(p)'
        BY <2>2, <3>1 DEF TurnInv, CleanInv
      <3> QED
        BY <3>2, <3>3
    <2> QED
      BY <2>1, <2>2
  <1> QED
    BY <1>3, <1>4, <1>5 DEF TurnInv

(***************************************************************************)
(* Every step of orchestrators that set up in turn keeps their invariant.  *)
(***************************************************************************)
LEMMA TurnStep ==
  ASSUME FunInv, FunInv', \A o \in Orc : LoopInv(o), InTurn => TurnInv,
         [Next]_vars, InTurn'
  PROVE  TurnInv'
  <1>0. InTurn /\ TurnInv /\ Unique
    BY InTurnBefore DEF TurnInv
  <1>1. ASSUME NEW o \in Orc,
               \/ Start(o) \/ Step(o)
               \/ ForegroundEnds(o) \/ Detach(o) \/ Interrupt(o)
        PROVE  TurnInv'
    <2>0. /\ LoopInv(o) /\ SetupInv(o) /\ CleanInv(o) /\ code[o] # "duplicate"
          /\ \A p \in Orc : p # o =>
               /\ pc'[p] = pc[p] /\ todo'[p] = todo[p]
               /\ snapshot'[p] = snapshot[p] /\ code'[p] = code[p]
      BY <1>0, <1>1, OthersKeep DEF TurnInv
    <2> USE DEF FunInv, SetupPc, Goto, Done
    <2>a. ASSUME NEW c, Exit(o, c), windows' = windows, c # "duplicate",
                 c = "status" => \A w \in windows : w.by # o
          PROVE  TurnInv'
      <3>1. pc'[o] = "exited" /\ code'[o] = c
        BY <2>a DEF Exit
      <3>2. SetupInv(o)' /\ CleanInv(o)'
        BY <2>a, <3>1 DEF SetupInv, CleanInv
      <3> QED
        BY <1>0, <2>0, <2>a, <3>1, <3>2, TurnShrinks
    <2>1. CASE Start(o)
      <3>1. CASE Exit(o, "failed")
        BY <2>1, <2>a, <3>1 DEF Start
      <3>2. CASE ~ Exit(o, "failed")
        <4>1. /\ pc[o] = "idle" /\ pc'[o] = "has" /\ windows' = windows /\ code' = code
              /\ \A p \in Orc : pc[p] \notin SetupPc
          BY <2>1, <3>2 DEF Start, InTurn, Setup
        <4>2. SetupInv(o)' /\ CleanInv(o)'
          BY <2>0, <4>1 DEF SetupInv, CleanInv
        <4> QED
          BY <1>0, <2>0, <4>1, <4>2, TurnShrinks
      <3> QED
        BY <3>1, <3>2
    <2>2. CASE HasSession(o)
      <3>1. SetupInv(o)' /\ CleanInv(o)' /\ code'[o] # "duplicate"
        BY <2>0, <2>2 DEF HasSession, SetupInv, CleanInv
      <3> QED
        BY <1>0, <2>0, <2>2, <3>1, TurnShrinks DEF HasSession
    <2>3. CASE Create(o)
      <3>1. windows = {} /\ snapshot[o] = {}
        BY <2>0, <2>3 DEF Create, SetupInv, LoopInv
      <3>2. CASE Exit(o, "failed")
        <4>1. windows' = windows
          BY <2>3, <3>2 DEF Create, Exit
        <4> QED
          BY <2>a, <3>2, <4>1
      <3>3. CASE ~ Exit(o, "failed")
        <4>1. PICK i \in EnsureJobs(o) :
                Current(o, i) /\ windows' = {[by |-> o, job |-> i]}
          BY <2>3, <3>1, <3>3 DEF Create
        <4>2. pc[o] = "create" /\ pc' = [pc EXCEPT ![o] = "createCheck"]
              /\ UNCHANGED <<todo, snapshot, code>>
          BY <2>3, <3>1, <3>3 DEF Create, local
        <4>3. windows' = windows \cup {[by |-> o, job |-> i]}
          BY <3>1, <4>1
        <4> QED
          BY <1>0, <2>0, <3>1, <4>1, <4>2, <4>3, TurnGrows
      <3> QED
        BY <3>2, <3>3
    <2>4. CASE CreateCheck(o)
      <3>1. CASE Exit(o, "failed")
        BY <2>4, <2>a, <3>1 DEF CreateCheck
      <3>2. CASE ~ Exit(o, "failed")
        <4>1. PICK i \in EnsureJobs(o) : Current(o, i) /\ Done(o, i)
          BY <2>4, <3>2 DEF CreateCheck
        <4>2. /\ pc[o] = "createCheck" /\ pc'[o] = "window"
              /\ UNCHANGED <<windows, snapshot, code>>
          BY <2>4, <3>2 DEF CreateCheck
        <4>3. SetupInv(o)'
          <5>1. \A j \in todo[o] : Current(o, j) => j = i
            BY <4>1, NamesType DEF Current
          <5>2. todo'[o] = todo[o] \ {i}
            BY <4>1
          <5> QED
            BY <2>0, <4>2, <5>1, <5>2 DEF SetupInv, NameOf
        <4>4. CleanInv(o)'
          BY <2>0, <4>2 DEF CleanInv
        <4> QED
          BY <1>0, <2>0, <4>2, <4>3, <4>4, TurnShrinks
      <3> QED
        BY <3>1, <3>2
    <2>5. CASE List(o)
      <3>1. SetupInv(o)' /\ CleanInv(o)' /\ code'[o] # "duplicate"
        BY <2>0, <2>5 DEF List, SetupInv, CleanInv, NameOf
      <3> QED
        BY <1>0, <2>0, <2>5, <3>1, TurnShrinks DEF List
    <2>6. CASE Skip(o)
      <3>1. SetupInv(o)' /\ CleanInv(o)' /\ code'[o] # "duplicate"
        BY <2>0, <2>6 DEF Skip, SetupInv, CleanInv, NameOf
      <3> QED
        BY <1>0, <2>0, <2>6, <3>1, TurnShrinks DEF Skip
    <2>7. CASE CreateWindow(o)
      <3>1. PICK i \in EnsureJobs(o) :
              /\ Current(o, i) /\ Names(o)[i] \notin snapshot[o]
              /\ \/ /\ windows' = windows \cup {[by |-> o, job |-> i]}
                    /\ Goto(o, "windowCheck")
                    /\ UNCHANGED todo
                 \/ /\ Done(o, i)
                    /\ UNCHANGED <<windows, pc>>
        BY <2>7 DEF CreateWindow
      <3>2. pc[o] = "window" /\ UNCHANGED <<snapshot, code>>
        BY <2>7 DEF CreateWindow
      <3>3. CASE Goto(o, "windowCheck")
        BY <1>0, <2>0, <3>1, <3>2, <3>3, TurnGrows
      <3>4. CASE ~ Goto(o, "windowCheck")
        <4>1. SetupInv(o)' /\ CleanInv(o)' /\ code'[o] # "duplicate"
          BY <2>0, <3>1, <3>2, <3>4 DEF SetupInv, CleanInv, NameOf
        <4> QED
          BY <1>0, <2>0, <3>1, <3>2, <3>4, <4>1, TurnShrinks
      <3> QED
        BY <3>3, <3>4
    <2>8. CASE WindowCheck(o)
      <3>1. PICK i \in EnsureJobs(o) : Current(o, i) /\ Done(o, i)
        BY <2>8 DEF WindowCheck
      <3>2. /\ pc[o] = "windowCheck" /\ pc'[o] = "window"
            /\ UNCHANGED <<windows, snapshot, code>>
        BY <2>8 DEF WindowCheck
      <3>3. SetupInv(o)'
        <4>1. \A j \in todo[o] : Current(o, j) => j = i
          BY <3>1, NamesType DEF Current
        <4>2. todo'[o] = todo[o] \ {i}
          BY <3>1
        <4> QED
          BY <2>0, <3>2, <4>1, <4>2 DEF SetupInv, NameOf
      <3>4. CleanInv(o)'
        BY <2>0, <3>2 DEF CleanInv
      <3> QED
        BY <1>0, <2>0, <3>2, <3>3, <3>4, TurnShrinks
    <2>9. CASE SetupDone(o)
      <3>1. SetupInv(o)' /\ CleanInv(o)' /\ code'[o] # "duplicate"
        BY <2>0, <2>9 DEF SetupDone, SetupInv, CleanInv
      <3> QED
        BY <1>0, <2>0, <2>9, <3>1, TurnShrinks DEF SetupDone
    <2>10. CASE RunForeground(o)
      <3>1. CASE Exit(o, "failed")
        BY <2>10, <2>a, <3>1 DEF RunForeground
      <3>2. CASE ~ Exit(o, "failed")
        <4>1. /\ pc[o] = "run" /\ pc'[o] = "foreground"
              /\ UNCHANGED <<windows, snapshot, code>>
          BY <2>10, <3>2 DEF RunForeground
        <4>2. SetupInv(o)' /\ CleanInv(o)'
          BY <2>0, <4>1 DEF SetupInv, CleanInv
        <4> QED
          BY <1>0, <2>0, <4>1, <4>2, TurnShrinks
      <3> QED
        BY <3>1, <3>2
    <2>11. CASE ForegroundEnds(o)
      <3>1. \A w \in windows : w.by = o => w.job \in todo[o]
        BY <2>0, <2>11 DEF ForegroundEnds, LoopInv
      <3>2. SetupInv(o)' /\ CleanInv(o)' /\ code'[o] # "duplicate"
        BY <2>0, <2>11, <3>1 DEF ForegroundEnds, SetupInv, CleanInv
      <3> QED
        BY <1>0, <2>0, <2>11, <3>2, TurnShrinks DEF ForegroundEnds
    <2>12. CASE KillWindow(o)
      <3>1. PICK i \in EnsureJobs(o) :
              windows' = windows \ Target(Names(o)[i]) /\ Done(o, i)
        BY <2>12 DEF KillWindow, Gone
      <3>2. pc[o] = "kill" /\ UNCHANGED <<pc, snapshot, code>>
        BY <2>12 DEF KillWindow
      <3>3. ASSUME NEW w \in windows', w.by = o PROVE w.job \in todo'[o]
        <4>1. w \in windows /\ w.job \in todo[o]
          BY <2>0, <3>1, <3>2, <3>3 DEF CleanInv
        <4>2. ASSUME w.job = i PROVE FALSE
          <5>1. NameOf(w) = Names(o)[i]
            BY <3>3, <4>2 DEF NameOf
          <5>2. {x \in windows : NameOf(x) = Names(o)[i]} = {w}
            BY <1>0, <4>1, <5>1 DEF Unique
          <5>3. Target(Names(o)[i]) = {w}
            BY <5>2 DEF Target
          <5> QED
            BY <3>1, <5>3
        <4> QED
          BY <3>1, <4>1, <4>2
      <3>4. SetupInv(o)' /\ CleanInv(o)'
        BY <2>0, <3>1, <3>2, <3>3 DEF SetupInv, CleanInv
      <3>5. windows' \subseteq windows
        BY <3>1
      <3> QED
        BY <1>0, <2>0, <3>2, <3>4, <3>5, TurnShrinks
    <2>13. CASE KillDone(o)
      <3>1. \A w \in windows : w.by # o
        BY <2>0, <2>13 DEF KillDone, CleanInv
      <3> QED
        BY <2>13, <2>a, <3>1 DEF KillDone
    <2>14. CASE Attach(o)
      <3>1. CASE Exit(o, "failed") \/ Exit(o, "ok")
        BY <2>14, <2>a, <3>1 DEF Attach
      <3>2. CASE ~ (Exit(o, "failed") \/ Exit(o, "ok"))
        <4>1. /\ pc'[o] = "attached"
              /\ UNCHANGED <<windows, snapshot, code>>
          BY <2>14, <3>2 DEF Attach, local
        <4>2. SetupInv(o)' /\ CleanInv(o)'
          BY <2>0, <4>1 DEF SetupInv, CleanInv
        <4> QED
          BY <1>0, <2>0, <4>1, <4>2, TurnShrinks
      <3> QED
        BY <3>1, <3>2
    <2>15. CASE Detach(o) \/ Interrupt(o)
      BY <2>15, <2>a DEF Detach, Interrupt
    <2> QED
      BY <1>1, <2>1, <2>2, <2>3, <2>4, <2>5, <2>6, <2>7, <2>8, <2>9, <2>10,
         <2>11, <2>12, <2>13, <2>14, <2>15 DEF Step
  <1>2. CASE WindowExits \/ UNCHANGED vars
    <2>1. windows' \subseteq windows /\ UNCHANGED <<pc, todo, snapshot, code>>
      BY <1>2 DEF WindowExits, Gone, vars
    <2>2. \A o \in Orc : SetupInv(o)' /\ CleanInv(o)'
      BY <1>0, <2>1 DEF TurnInv, SetupInv, CleanInv, Current, NameOf
    <2> QED
      BY <1>0, <2>1, <2>2 DEF TurnInv, Unique, Setup, NameOf
  <1> QED
    BY <1>1, <1>2 DEF Next

(***************************************************************************)
(* Every step keeps the invariant.                                         *)
(***************************************************************************)
LEMMA InvStep == IndInv /\ [Next]_vars => IndInv'
  <1> SUFFICES ASSUME IndInv, [Next]_vars PROVE IndInv'
      OBVIOUS
  <1>1. FunInv /\ FunInv'
    BY FunStep DEF IndInv
  <1>2. \A o \in Orc : LoopInv(o)' /\ CoverInv(o)'
    BY <1>1, LoopStep, CoverStep DEF IndInv
  <1>3. InTurn' => TurnInv'
    BY <1>1, TurnStep DEF IndInv
  <1> QED
    BY <1>1, <1>2, <1>3 DEF IndInv

-----------------------------------------------------------------------------
(***************************************************************************)
(* Every reachable state of the orchestrators and their session is         *)
(* well-typed.                                                             *)
(***************************************************************************)
THEOREM TypeCorrect == Spec => []TypeOK
  <1>1. IndInv => TypeOK
    BY DEF IndInv, FunInv, TypeOK, Pc
  <1> QED
    BY InvInit, InvStep, <1>1, PTL DEF Spec

(***************************************************************************)
(* Orchestrators that set up one after another never create two windows of *)
(* one name and never meet a session that appeared under their hands, for  *)
(* any number of them and any job lists without a name twice               *)
(* (main.go:116-152).                                                      *)
(***************************************************************************)
THEOREM UniqueInTurn == Spec => []InTurnUnique
  <1>1. IndInv => InTurnUnique
    BY DEF IndInv, TurnInv, Unique, InTurnUnique
  <1> QED
    BY InvInit, InvStep, <1>1, PTL DEF Spec

(***************************************************************************)
(* Such orchestrators leave no window they created when they end with      *)
(* their foreground command (main.go:176-179).                             *)
(***************************************************************************)
THEOREM CleanInTurn == Spec => []InTurnClean
  <1>1. IndInv => InTurnClean
    BY DEF IndInv, TurnInv, CleanInv, InTurnClean
  <1> QED
    BY InvInit, InvStep, <1>1, PTL DEF Spec

(***************************************************************************)
(* A foreground command starts with every job in its window, or the user   *)
(* told, or the window ended since, however orchestrators interleave       *)
(* (main.go:123-152).                                                      *)
(***************************************************************************)
THEOREM NoneMissingSilently == Spec => []EnsuredOrTold
  <1>1. IndInv => EnsuredOrTold
    BY DEF IndInv, CoverInv, Covered, EnsuredOrTold
  <1> QED
    BY InvInit, InvStep, <1>1, PTL DEF Spec

(***************************************************************************)
(* A clean-up hits a window of another name than its job's only when the   *)
(* job has no window and the user was told or it ended since, and never    *)
(* the window of a job that is not on the list (main.go:290-297).          *)
(***************************************************************************)
THEOREM KillsInScope == Spec => KillScope
  <1> DEFINE InScope ==
        \A o \in Orc : pc[o] = "kill" /\ todo'[o] # todo[o] =>
          \A w \in windows \ windows' : \E i \in EnsureJobs(o) :
            \/ NameOf(w) = Names(o)[i]
            \/ /\ <<Names(o)[i], NameOf(w)>> \in Longer
               /\ i \in reported[o] \/ Names(o)[i] \in lost[o]
  <1>1. IndInv /\ [Next]_vars => [InScope]_vars
    <2> SUFFICES ASSUME IndInv, Next, NEW o \in Orc, pc[o] = "kill",
                        todo'[o] # todo[o], NEW w \in windows \ windows'
                 PROVE  \E i \in EnsureJobs(o) :
                          \/ NameOf(w) = Names(o)[i]
                          \/ /\ <<Names(o)[i], NameOf(w)>> \in Longer
                             /\ i \in reported[o] \/ Names(o)[i] \in lost[o]
        OBVIOUS
    <2>0. FunInv /\ CoverInv(o)
      BY DEF IndInv
    <2>1. KillWindow(o)
      <3>1. ~ WindowExits
        BY DEF WindowExits
      <3>2. \/ Start(o) \/ Step(o)
            \/ ForegroundEnds(o) \/ Detach(o) \/ Interrupt(o)
        BY <2>0, <3>1, OthersKeep DEF Next
      <3> QED
        BY <3>2 DEF Step, Start, HasSession, Create, CreateCheck, List, Skip,
           CreateWindow, WindowCheck, SetupDone, RunForeground, ForegroundEnds,
           KillDone, Attach, Detach, Interrupt
    <2>2. PICK i \in EnsureJobs(o) : windows' = windows \ Target(Names(o)[i])
      BY <2>1 DEF KillWindow, Gone
    <2>3. w \in Target(Names(o)[i])
      BY <2>2
    <2>4. CASE NameOf(w) # Names(o)[i]
      <3>1. ~ Live(Names(o)[i]) /\ <<Names(o)[i], NameOf(w)>> \in Longer
        BY <2>3, <2>4 DEF Target, Live
      <3> QED
        BY <2>0, <3>1 DEF CoverInv, Covered
    <2> QED
      BY <2>4
  <1> QED
    BY InvInit, InvStep, <1>1, PTL DEF Spec, KillScope
=============================================================================
