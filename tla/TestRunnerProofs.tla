-------------------------- MODULE TestRunnerProofs --------------------------
(***************************************************************************)
(* Proofs about TestRunner, for every number of signals.                   *)
(***************************************************************************)
EXTENDS TestRunner, TLAPS

(***************************************************************************)
(* PassIsEarned says nothing about main before it exits.  What makes it    *)
(* inductive: main has a status exactly when it has exited; the deferred   *)
(* Kill is reached with the pass marker printed, which is the first and    *)
(* so the last thing the console tells; a VM that was killed stays down.   *)
(***************************************************************************)
IndInv ==
  /\ TypeOK
  /\ pc = "exited" <=> status # "none"
  /\ pc = "start" => vm = "none"
  /\ pc = "kill" => console = "pass"
  /\ PassIsEarned

(***************************************************************************)
(* A runner that has just been started satisfies the invariant.            *)
(***************************************************************************)
LEMMA InvInit == Init => IndInv
  BY MaxSignalsAssumption DEF Init, IndInv, TypeOK, PassIsEarned

(***************************************************************************)
(* Every step of main, of the signal handler, of the time limit and of the *)
(* guest keeps the invariant.                                              *)
(***************************************************************************)
LEMMA InvStep == IndInv /\ [Next]_vars => IndInv'
  <1> SUFFICES ASSUME IndInv, [Next]_vars PROVE IndInv'
      OBVIOUS
  <1> USE MaxSignalsAssumption DEF IndInv, TypeOK, PassIsEarned, Alive, Exit
  <1>1. CASE Start
    BY <1>1 DEF Start
  <1>2. CASE StartFails
    BY <1>2 DEF StartFails
  <1>3. CASE Serial
    BY <1>3 DEF Serial
  <1>4. CASE MarkerFound
    BY <1>4 DEF MarkerFound
  <1>5. CASE ScanFails
    BY <1>5 DEF ScanFails
  <1>6. CASE DeferredKill
    BY <1>6 DEF DeferredKill
  <1>7. CASE SignalArrives
    BY <1>7 DEF SignalArrives
  <1>8. CASE HandleSignal
    BY <1>8 DEF HandleSignal
  <1>9. CASE TimeLimit
    BY <1>9 DEF TimeLimit
  <1>10. CASE GuestPrints
    BY <1>10 DEF GuestPrints
  <1>11. CASE VMExits
    BY <1>11 DEF VMExits
  <1>12. CASE UNCHANGED vars
    BY <1>12 DEF vars
  <1> QED
    BY <1>1, <1>2, <1>3, <1>4, <1>5, <1>6, <1>7, <1>8, <1>9, <1>10, <1>11,
       <1>12 DEF Next, MainStep

(***************************************************************************)
(* Every reachable state of the test runner is well-typed.                 *)
(***************************************************************************)
THEOREM TypeCorrect == Spec => []TypeOK
  <1>1. IndInv => TypeOK
    BY DEF IndInv
  <1> QED
    BY InvInit, InvStep, <1>1, PTL DEF Spec

(***************************************************************************)
(* An exit status of zero means that the guest printed the pass marker     *)
(* before anything else and that no VM is left, in whatever order signals, *)
(* the time limit and the end of the VM come (testrunner/main.go).         *)
(***************************************************************************)
THEOREM PassEarned == Spec => []PassIsEarned
  <1>1. IndInv => PassIsEarned
    BY DEF IndInv
  <1> QED
    BY InvInit, InvStep, <1>1, PTL DEF Spec
=============================================================================
