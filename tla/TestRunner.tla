----------------------------- MODULE TestRunner -----------------------------
(***************************************************************************)
(* The test runner of vm_test (vmtest/cmd/testrunner/main.go): boot a VM   *)
(* and watch its serial console for a pass or fail marker, under a time    *)
(* limit and a signal handler that both end through one context.           *)
(*                                                                         *)
(* vm.Start and ScanForMarker are external: both give up with an error     *)
(* when the context is done, and ScanForMarker also on a fail marker or at *)
(* the end of the console.                                                 *)
(***************************************************************************)
EXTENDS Integers

CONSTANT MaxSignals      \* bound: SIGINT or SIGTERM sent to the runner

ASSUME MaxSignalsAssumption == MaxSignals \in Nat

VARIABLES
  pc,        \* main: "start", "serial", "scan", "kill" (the deferred Kill),
             \* "exited"
  status,    \* exit status
  ctx,       \* the context: "live" or "done"
  sent,      \* signals sent so far
  sigCh,     \* signals in the channel (capacity 1)
  handler,   \* the goroutine that waits for a signal
  timer,     \* the context's own time limit
  vm,        \* the VM
  console    \* what the guest has printed so far, as far as markers go

vars == <<pc, status, ctx, sent, sigCh, handler, timer, vm, console>>

(***************************************************************************)
(* The type of the state.                                                  *)
(***************************************************************************)
TypeOK ==
  /\ pc \in {"start", "serial", "scan", "kill", "exited"}
  /\ status \in {"none", "zero", "one"}
  /\ ctx \in {"live", "done"}
  /\ sent \in 0 .. MaxSignals
  /\ sigCh \in {0, 1}
  /\ handler \in {"waiting", "cancelling", "over"}
  /\ timer \in {"set", "fired"}
  /\ vm \in {"none", "up", "down"}
  /\ console \in {"quiet", "pass", "fail", "eof"}

Init ==
  /\ pc = "start"
  /\ status = "none"
  /\ ctx = "live"
  /\ sent = 0
  /\ sigCh = 0
  /\ handler = "waiting"
  /\ timer = "set"
  /\ vm = "none"
  /\ console = "quiet"

Alive == pc # "exited"

(* os.Exit: deferred functions do not run.                                 *)
Exit(code) == pc' = "exited" /\ status' = code

-----------------------------------------------------------------------------
(* main                                                                    *)

Start ==
  /\ pc = "start" /\ ctx = "live"
  /\ vm' = "up"
  /\ pc' = "serial"
  /\ UNCHANGED <<status, ctx, sent, sigCh, handler, timer, console>>

StartFails ==
  /\ pc = "start"
  /\ Exit("one")
  /\ UNCHANGED <<ctx, sent, sigCh, handler, timer, vm, console>>

(* A VM without a serial console ends the run, the VM still up.            *)
Serial ==
  /\ pc = "serial"
  /\ \/ pc' = "scan" /\ UNCHANGED status
     \/ Exit("one")
  /\ UNCHANGED <<ctx, sent, sigCh, handler, timer, vm, console>>

(* Mutant: the end of the console passes for success.                      *)
MarkerFoundAtEnd ==
  /\ pc = "scan" /\ console \in {"pass", "eof"}
  /\ pc' = "kill"
  /\ UNCHANGED <<status, ctx, sent, sigCh, handler, timer, vm, console>>

MarkerFound ==
  /\ pc = "scan" /\ console = "pass"
  /\ pc' = "kill"
  /\ UNCHANGED <<status, ctx, sent, sigCh, handler, timer, vm, console>>

ScanFails ==
  /\ pc = "scan"
  /\ console \in {"fail", "eof"} \/ ctx = "done"
  /\ Exit("one")
  /\ UNCHANGED <<ctx, sent, sigCh, handler, timer, vm, console>>

(* main returns: the deferred Kill, then exit 0.                           *)
DeferredKill ==
  /\ pc = "kill"
  /\ vm' = "down"
  /\ Exit("zero")
  /\ UNCHANGED <<ctx, sent, sigCh, handler, timer, console>>

-----------------------------------------------------------------------------
(* Signals, the time limit and the guest                                   *)

(* Mutant: the channel is unbounded.                                       *)
SignalArrivesUnbounded ==
  /\ Alive /\ sent < MaxSignals
  /\ sent' = sent + 1
  /\ sigCh' = sigCh + 1
  /\ UNCHANGED <<pc, status, ctx, handler, timer, vm, console>>

(* signal.Notify does not block: a signal that finds the channel full is   *)
(* dropped.                                                                *)
SignalArrives ==
  /\ Alive /\ sent < MaxSignals
  /\ sent' = sent + 1
  /\ sigCh' = 1
  /\ UNCHANGED <<pc, status, ctx, handler, timer, vm, console>>

(* Mutant: the signal is taken and the context left alone.                 *)
HandleSignalNoCancel ==
  /\ Alive
  /\ handler = "waiting" /\ sigCh = 1
  /\ sigCh' = 0 /\ handler' = "over"
  /\ UNCHANGED <<pc, status, ctx, sent, timer, vm, console>>

(* The handler goroutine takes one signal, cancels the context and ends.   *)
HandleSignal ==
  /\ Alive
  /\ \/ /\ handler = "waiting" /\ sigCh = 1
        /\ sigCh' = 0 /\ handler' = "cancelling"
        /\ UNCHANGED ctx
     \/ /\ handler = "cancelling"
        /\ ctx' = "done" /\ handler' = "over"
        /\ UNCHANGED sigCh
  /\ UNCHANGED <<pc, status, sent, timer, vm, console>>

TimeLimit ==
  /\ Alive /\ timer = "set"
  /\ timer' = "fired"
  /\ ctx' = "done"
  /\ UNCHANGED <<pc, status, sent, sigCh, handler, vm, console>>

(* The guest prints its first marker.                                      *)
GuestPrints ==
  /\ vm = "up" /\ console = "quiet"
  /\ console' \in {"pass", "fail"}
  /\ UNCHANGED <<pc, status, ctx, sent, sigCh, handler, timer, vm>>

(* The VM ends; the console ends with it, after what was printed.          *)
VMExits ==
  /\ vm = "up"
  /\ vm' = "down"
  /\ console' = IF console = "quiet" THEN "eof" ELSE console
  /\ UNCHANGED <<pc, status, ctx, sent, sigCh, handler, timer>>

MainStep ==
  Start \/ StartFails \/ Serial \/ MarkerFound \/ ScanFails \/ DeferredKill

Next ==
  \/ MainStep
  \/ SignalArrives \/ HandleSignal \/ TimeLimit
  \/ GuestPrints \/ VMExits

Spec == Init /\ [][Next]_vars

(* Goroutines that can move do.                                            *)
FairSpec == Spec /\ WF_vars(MainStep) /\ WF_vars(HandleSignal)

-----------------------------------------------------------------------------
(* Properties                                                              *)

(***************************************************************************)
(* The runner passes only if the guest printed the pass marker first, and  *)
(* then leaves no VM: neither a time limit, a signal nor a VM that ends    *)
(* early passes for success, and only a failing run can leave its VM.      *)
(***************************************************************************)
PassIsEarned == status = "zero" => console = "pass" /\ vm # "up"

(***************************************************************************)
(* The time limit ends the run wherever main is, also over a guest that    *)
(* hangs without a marker; and the first signal does, without waiting for  *)
(* the time limit, although the handler takes only one.                    *)
(***************************************************************************)
EndsWhenTold ==
  timer = "fired" \/ (sigCh = 1 /\ handler = "waiting") ~> pc = "exited"
=============================================================================
