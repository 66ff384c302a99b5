---------------------------- MODULE Orchestrator ----------------------------
(***************************************************************************)
(* The orchestrator (orchestrator/main.go): commands that see to it that   *)
(* every job of their list runs in a window of one shared tmux session,    *)
(* and then either run a command in the foreground and kill the windows of *)
(* their list, or attach to the session.                                   *)
(*                                                                         *)
(* Each call of tmux is one step; between two calls the other              *)
(* orchestrators move, windows end with the program they run, and the      *)
(* orchestrator may be interrupted: it installs no signal handler and      *)
(* leaves its windows.  tmux is external: the session exists while it has  *)
(* a window, and a target is the one window of that name or, if there is   *)
(* none, the one window whose name begins with it.                         *)
(***************************************************************************)
EXTENDS Naturals, Sequences

CONSTANTS
  Orc,       \* the orchestrators started over one session
  Cfg,       \* for each: the names of its dependencies, its primary VM, the
             \* job it runs in the foreground
  Longer     \* <<n, m>>: the name m begins with n and is longer

NoRun == "no --run"

Range(s) == {s[i] : i \in DOMAIN s}

Name ==
  UNION {Range(Cfg[o].deps) \cup {Cfg[o].primary, Cfg[o].run} : o \in Orc}

ASSUME CfgAssumption ==
  /\ \A o \in Orc : Cfg[o].deps \in Seq(Name)
  /\ Longer \subseteq Name \X Name

VARIABLES
  windows,   \* tmux: the windows of the session, by creator and job
  pc,        \* where each orchestrator is
  todo,      \* the jobs its current loop has still to handle
  snapshot,  \* the window names it listed
  reported,  \* the jobs it printed an error about
  code,      \* how it ended
  lost,      \* history: names of its list whose windows ended since it started
  overlap    \* history: two orchestrators were setting up at a time

vars == <<windows, pc, todo, snapshot, reported, code, lost, overlap>>

(* The names of the job list: the dependencies in order, then the primary. *)
Names(o) == Append(Cfg[o].deps, Cfg[o].primary)

(* ensureJobs: the list without the job that --run names.                  *)
EnsureJobs(o) == {i \in DOMAIN Names(o) : Names(o)[i] # Cfg[o].run}

NameOf(w) == Names(w.by)[w.job]

Window == {w \in [by : Orc, job : Nat] : w.job \in DOMAIN Names(w.by)}

SetupPc ==
  {"has", "create", "createCheck", "list", "window", "windowCheck"}

(***************************************************************************)
(* The type of the state.                                                  *)
(***************************************************************************)
TypeOK ==
  /\ windows \subseteq Window
  /\ pc \in [Orc -> SetupPc \cup {"idle", "run", "foreground", "kill",
                                  "attached", "exited"}]
  /\ \A o \in Orc : /\ todo[o] \subseteq EnsureJobs(o)
                    /\ reported[o] \subseteq EnsureJobs(o)
                    /\ snapshot[o] \subseteq Name
                    /\ lost[o] \subseteq Name
  /\ code \in [Orc -> {"none", "failed", "duplicate", "status", "ok"}]
  /\ overlap \in BOOLEAN

Init ==
  /\ windows = {}
  /\ pc = [o \in Orc |-> "idle"]
  /\ todo = [o \in Orc |-> EnsureJobs(o)]
  /\ snapshot = [o \in Orc |-> {}]
  /\ reported = [o \in Orc |-> {}]
  /\ code = [o \in Orc |-> "none"]
  /\ lost = [o \in Orc |-> {}]
  /\ overlap = FALSE

Setup(o) == pc[o] \in SetupPc

(* hasWindow                                                               *)
Live(n) == \E w \in windows : NameOf(w) = n

(* The job the loop of o is at.                                            *)
Current(o, i) == i \in todo[o] /\ \A j \in todo[o] : i <= j

Goto(o, l) == pc' = [pc EXCEPT ![o] = l]

Done(o, i) == todo' = [todo EXCEPT ![o] = @ \ {i}]

(* What the process held in memory is gone with it.                        *)
Exit(o, c) ==
  /\ Goto(o, "exited")
  /\ code' = [code EXCEPT ![o] = c]
  /\ todo' = [todo EXCEPT ![o] = {}]
  /\ snapshot' = [snapshot EXCEPT ![o] = {}]
  /\ reported' = [reported EXCEPT ![o] = {}]
  /\ lost' = [lost EXCEPT ![o] = {}]

local == <<todo, snapshot, reported, lost>>

(* tmux: the windows in W are no more.                                     *)
Gone(W) ==
  /\ windows' = windows \ W
  /\ lost' = [o \in Orc |->
                IF pc[o] \in {"idle", "exited"} THEN {}
                ELSE lost[o] \cup ({NameOf(w) : w \in W} \cap Range(Names(o)))]

(* tmux: the window that a target names, if it names one.                  *)
Target(n) ==
  LET exact == {w \in windows : NameOf(w) = n}
      found == IF exact # {} THEN exact
               ELSE {w \in windows : <<n, NameOf(w)>> \in Longer}
  IN  IF \E w \in found : found = {w} THEN found ELSE {}

-----------------------------------------------------------------------------
(* Setting up                                                              *)

(* The jobs are looked up in the runfiles before tmux is called.           *)
Start(o) ==
  /\ pc[o] = "idle"
  /\ \/ /\ Goto(o, "has")
        /\ overlap' = (overlap \/ \E p \in Orc : Setup(p))
        /\ UNCHANGED <<code, local>>
     \/ Exit(o, "failed") /\ UNCHANGED overlap
  /\ UNCHANGED windows

(* exists: what it says is acted on later.                                 *)
HasSession(o) ==
  /\ pc[o] = "has"
  /\ Goto(o, IF windows # {} THEN "list"
             ELSE IF EnsureJobs(o) # {} THEN "create" ELSE "run")
  /\ UNCHANGED <<windows, todo, snapshot, reported, code, lost, overlap>>

(* create, up to its pause: tmux refuses a session that exists by now, and *)
(* may fail for reasons of its own.                                        *)
Create(o) ==
  /\ pc[o] = "create"
  /\ \/ /\ windows = {}
        /\ \E i \in EnsureJobs(o) :
             Current(o, i) /\ windows' = {[by |-> o, job |-> i]}
        /\ Goto(o, "createCheck")
        /\ UNCHANGED <<code, local>>
     \/ /\ Exit(o, IF windows = {} THEN "failed" ELSE "duplicate")
        /\ UNCHANGED windows
  /\ UNCHANGED overlap

(* create, after its pause.                                                *)
CreateCheck(o) ==
  /\ pc[o] = "createCheck"
  /\ \E i \in EnsureJobs(o) :
       /\ Current(o, i)
       /\ \/ /\ Live(Names(o)[i])
             /\ Done(o, i)
             /\ Goto(o, "window")
             /\ UNCHANGED <<code, snapshot, reported, lost>>
          \/ ~ Live(Names(o)[i]) /\ Exit(o, "failed")
  /\ UNCHANGED <<windows, overlap>>

(* listWindows: nothing if the session has gone.                           *)
List(o) ==
  /\ pc[o] = "list"
  /\ snapshot' = [snapshot EXCEPT ![o] = {NameOf(w) : w \in windows}]
  /\ Goto(o, "window")
  /\ UNCHANGED <<windows, todo, reported, code, lost, overlap>>

(* Mutant: a listed name that begins like the job passes for it.           *)
SkipPrefix(o) ==
  /\ pc[o] = "window"
  /\ \E i \in EnsureJobs(o) :
       /\ Current(o, i)
       /\ \E n \in snapshot[o] : n = Names(o)[i] \/ <<Names(o)[i], n>> \in Longer
       /\ Done(o, i)
  /\ UNCHANGED <<windows, pc, snapshot, reported, code, lost, overlap>>

(* A job that was listed has its window.                                   *)
Skip(o) ==
  /\ pc[o] = "window"
  /\ \E i \in EnsureJobs(o) :
       Current(o, i) /\ Names(o)[i] \in snapshot[o] /\ Done(o, i)
  /\ UNCHANGED <<windows, pc, snapshot, reported, code, lost, overlap>>

(* Mutant: the list is not looked at.                                      *)
CreateWindowAlways(o) ==
  /\ pc[o] = "window"
  /\ \E i \in EnsureJobs(o) :
       /\ Current(o, i)
       /\ \/ /\ windows # {}
             /\ windows' = windows \cup {[by |-> o, job |-> i]}
             /\ Goto(o, "windowCheck")
             /\ UNCHANGED <<todo, reported>>
          \/ /\ reported' = [reported EXCEPT ![o] = @ \cup {i}]
             /\ Done(o, i)
             /\ UNCHANGED <<windows, pc>>
  /\ UNCHANGED <<snapshot, code, lost, overlap>>

(* createWindow, up to its pause.  It fails when the session has gone, or  *)
(* for reasons of tmux; the error is printed and the loop goes on.         *)
CreateWindow(o) ==
  /\ pc[o] = "window"
  /\ \E i \in EnsureJobs(o) :
       /\ Current(o, i) /\ Names(o)[i] \notin snapshot[o]
       /\ \/ /\ windows # {}
             /\ windows' = windows \cup {[by |-> o, job |-> i]}
             /\ Goto(o, "windowCheck")
             /\ UNCHANGED <<todo, reported>>
          \/ /\ reported' = [reported EXCEPT ![o] = @ \cup {i}]
             /\ Done(o, i)
             /\ UNCHANGED <<windows, pc>>
  /\ UNCHANGED <<snapshot, code, lost, overlap>>

(* Mutant: the loop waits for the window it created.                       *)
WindowCheckRetry(o) ==
  /\ pc[o] = "windowCheck"
  /\ \E i \in EnsureJobs(o) :
       /\ Current(o, i)
       /\ Live(Names(o)[i])
       /\ Done(o, i)
  /\ Goto(o, "window")
  /\ UNCHANGED <<windows, snapshot, reported, code, lost, overlap>>

(* createWindow, after its pause: any window of that name will do.         *)
WindowCheck(o) ==
  /\ pc[o] = "windowCheck"
  /\ \E i \in EnsureJobs(o) :
       /\ Current(o, i)
       /\ reported' = [reported EXCEPT
            ![o] = IF Live(Names(o)[i]) THEN @ ELSE @ \cup {i}]
       /\ Done(o, i)
  /\ Goto(o, "window")
  /\ UNCHANGED <<windows, snapshot, code, lost, overlap>>

SetupDone(o) ==
  /\ pc[o] = "window" /\ todo[o] = {}
  /\ Goto(o, "run")
  /\ snapshot' = [snapshot EXCEPT ![o] = {}]
  /\ UNCHANGED <<windows, todo, reported, code, lost, overlap>>

-----------------------------------------------------------------------------
(* Running, attaching, killing                                             *)

(* Mutant: the foreground command is among the windows to kill.            *)
RunForegroundAllJobs(o) ==
  /\ pc[o] = "run" /\ Cfg[o].run # NoRun
  /\ Goto(o, "foreground")
  /\ todo' = [todo EXCEPT ![o] = DOMAIN Names(o)]
  /\ UNCHANGED <<windows, code, snapshot, reported, lost, overlap>>

(* Mutant: the first job is left out of the windows to kill.               *)
RunForegroundSkipFirst(o) ==
  /\ pc[o] = "run" /\ Cfg[o].run # NoRun
  /\ Goto(o, "foreground")
  /\ todo' = [todo EXCEPT ![o] = EnsureJobs(o) \ {1}]
  /\ UNCHANGED <<windows, code, snapshot, reported, lost, overlap>>

(* --run: the command is looked up only now, and a failure leaves the      *)
(* windows.                                                                *)
RunForeground(o) ==
  /\ pc[o] = "run" /\ Cfg[o].run # NoRun
  /\ \/ /\ Goto(o, "foreground")
        /\ todo' = [todo EXCEPT ![o] = EnsureJobs(o)]
        /\ UNCHANGED <<code, snapshot, reported, lost>>
     \/ Exit(o, "failed")
  /\ UNCHANGED <<windows, overlap>>

(* The command ends, with any status, or could not be started.             *)
ForegroundEnds(o) ==
  /\ pc[o] = "foreground"
  /\ Goto(o, "kill")
  /\ UNCHANGED <<windows, todo, snapshot, reported, code, lost, overlap>>

(* Mutant: the session is killed.                                          *)
KillSession(o) ==
  /\ pc[o] = "kill"
  /\ \E i \in EnsureJobs(o) :
       Current(o, i) /\ Gone(windows) /\ Done(o, i)
  /\ UNCHANGED <<pc, snapshot, reported, code, overlap>>

(* killWindow: by name, whoever created the window; failure is a warning.  *)
KillWindow(o) ==
  /\ pc[o] = "kill"
  /\ \E i \in EnsureJobs(o) :
       /\ Current(o, i)
       /\ Gone(Target(Names(o)[i]))
       /\ Done(o, i)
  /\ UNCHANGED <<pc, snapshot, reported, code, overlap>>

KillDone(o) ==
  /\ pc[o] = "kill" /\ todo[o] = {}
  /\ Exit(o, "status")
  /\ UNCHANGED <<windows, overlap>>

(* No --run: attach, which takes a session, or end with --attach=false.    *)
Attach(o) ==
  /\ pc[o] = "run" /\ Cfg[o].run = NoRun
  /\ \/ windows # {} /\ Goto(o, "attached") /\ UNCHANGED <<code, local>>
     \/ windows = {} /\ Exit(o, "failed")
     \/ Exit(o, "ok")
  /\ UNCHANGED <<windows, overlap>>

(* The user detaches, or the session ends.                                 *)
Detach(o) ==
  /\ pc[o] = "attached"
  /\ Exit(o, "ok")
  /\ UNCHANGED <<windows, overlap>>

-----------------------------------------------------------------------------
(* The world                                                               *)

(* A signal ends the orchestrator where it is.                             *)
Interrupt(o) ==
  /\ pc[o] \notin {"idle", "exited"}
  /\ Exit(o, "failed")
  /\ UNCHANGED <<windows, overlap>>

(* The program in a window ends.                                           *)
WindowExits ==
  /\ \E w \in windows : Gone({w})
  /\ UNCHANGED <<pc, todo, snapshot, reported, code, overlap>>

(* What the orchestrator does by itself.                                   *)
Step(o) ==
  \/ HasSession(o) \/ Create(o) \/ CreateCheck(o)
  \/ List(o) \/ Skip(o) \/ CreateWindow(o) \/ WindowCheck(o) \/ SetupDone(o)
  \/ RunForeground(o) \/ KillWindow(o) \/ KillDone(o) \/ Attach(o)

Next ==
  \/ \E o \in Orc : \/ Start(o) \/ Step(o)
                    \/ ForegroundEnds(o) \/ Detach(o) \/ Interrupt(o)
  \/ WindowExits

Spec == Init /\ [][Next]_vars

(* A process that can go on does; when a foreground command or a user's    *)
(* attachment ends is up to them.                                          *)
FairSpec == Spec /\ \A o \in Orc : WF_vars(Step(o))

-----------------------------------------------------------------------------
(* Properties                                                              *)

(* Two jobs of one list that share their last path component.              *)
SameName(o) == \E i, j \in DOMAIN Names(o) : i # j /\ Names(o)[i] = Names(o)[j]

InTurn == ~ overlap /\ \A o \in Orc : ~ SameName(o)

(***************************************************************************)
(* Orchestrators that set up one after another, whatever was killed,       *)
(* interrupted or ended in between, never create a second window of one    *)
(* name, and none of them fails because the session appeared under its     *)
(* hands: the list of windows, read once, is enough (main.go:116-152).     *)
(***************************************************************************)
InTurnUnique ==
  InTurn => /\ \A v, w \in windows : NameOf(v) = NameOf(w) => v = w
            /\ \A o \in Orc : code[o] # "duplicate"

(***************************************************************************)
(* Orchestrators that set up in turn and end with their foreground command *)
(* leave no window they created (main.go:176-179).  Windows are killed by  *)
(* name, which fails when two share it.                                    *)
(***************************************************************************)
InTurnClean ==
  InTurn => \A o \in Orc : code[o] = "status" => \A w \in windows : w.by # o

(***************************************************************************)
(* The foreground command starts with every job in its window, unless the  *)
(* user was told, or a window of that name ended since: no race between    *)
(* orchestrators makes a dependency go missing silently (main.go:123-152). *)
(***************************************************************************)
EnsuredOrTold ==
  \A o \in Orc : pc[o] \in {"run", "foreground", "attached"} =>
    \A i \in EnsureJobs(o) :
      Live(Names(o)[i]) \/ i \in reported[o] \/ Names(o)[i] \in lost[o]

(***************************************************************************)
(* What a clean-up may hit (main.go:290-297): a window of another name     *)
(* than the job's is killed only when the job's own window ended or never  *)
(* came up, and the window's name begins with the job's; the job that ran  *)
(* in the foreground is not among those killed.                            *)
(***************************************************************************)
KillScope ==
  [][\A o \in Orc : pc[o] = "kill" /\ todo'[o] # todo[o] =>
       \A w \in windows \ windows' : \E i \in EnsureJobs(o) :
         \/ NameOf(w) = Names(o)[i]
         \/ /\ <<Names(o)[i], NameOf(w)>> \in Longer
            /\ i \in reported[o] \/ Names(o)[i] \in lost[o]]_vars

(***************************************************************************)
(* Setting up and cleaning up end, whatever tmux, the windows and the      *)
(* other orchestrators do: no error is retried.                            *)
(***************************************************************************)
PhasesEnd ==
  \A o \in Orc : Setup(o) \/ pc[o] = "kill"
                   ~> pc[o] \in {"foreground", "attached", "exited"}

(***************************************************************************)
(* What vmtest/rules.bzl:72 asks for: dependencies are running during a    *)
(* build.  The orchestrator starts the build although it has found out     *)
(* that one is not (main.go:134-139, 145-149).                             *)
(***************************************************************************)
NeedsRunning == \A o \in Orc : pc[o] = "foreground" => reported[o] = {}
=============================================================================
