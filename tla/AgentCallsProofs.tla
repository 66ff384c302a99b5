-------------------------- MODULE AgentCallsProofs --------------------------
(***************************************************************************)
(* Proofs about AgentCalls, for every timeout, interval and limit.         *)
(***************************************************************************)
EXTENDS AgentCalls, TLAPS

(***************************************************************************)
(* What the proofs need to know of the methods: each asks a known kind of  *)
(* question, and none accepts an error or the absence of an answer.        *)
(***************************************************************************)
LEMMA MethodFacts ==
  ASSUME NEW m \in Methods
  PROVE  /\ Answers[m.ask] \subseteq Answer
         /\ "error" \notin m.accept
         /\ "none" \notin m.accept
  <1>1. m.ask \in DOMAIN Answers
    BY DEF Methods, WaitUntilSucceeds, WaitUntilOutput, WaitForUnit,
           WaitForOpenPort, WaitForClosedPort, WaitForFile, WaitForHTTP,
           WaitForLog, Succeed, Fail, FileSize, ReadFile, JournalLines,
           HTTPGet, FindProcesses, Background, CopyFromHost, Listen, Retry, Once, Answers
  <1>2. \A k \in DOMAIN Answers : Answers[k] \subseteq Answer
    BY Zenon DEF Answer
  <1>3. "error" \notin m.accept /\ "none" \notin m.accept
    BY DEF Methods, WaitUntilSucceeds, WaitUntilOutput, WaitForUnit,
           WaitForOpenPort, WaitForClosedPort, WaitForFile, WaitForHTTP,
           WaitForLog, Succeed, Fail, FileSize, ReadFile, JournalLines,
           HTTPGet, FindProcesses, Background, CopyFromHost, Listen, Retry, Once
  <1> QED
    BY <1>1, <1>2, <1>3

-----------------------------------------------------------------------------
(* The inductive invariant.                                                *)

(* Where the clock is between the start of a question and its limit, and   *)
(* between the start and the end of a pause.                               *)
ClockInv ==
  /\ pc = "calling" => /\ callStart <= now
                       /\ Limited => now <= callStart + ExecTimeout
                       /\ Loops => callStart < Timeout
  /\ pc = "sleep" => /\ now <= wake
                     /\ wake <= now + Interval
                     /\ Limited /\ Loops =>
                          wake <= Timeout + ExecTimeout + Interval

(* A question's answer was the state of the guest since it was asked.      *)
AnswerInv ==
  /\ pc = "calling" => guest \in held
  /\ pc \in {"calling", "returned"} => reply \in held \cup {"none", "error"}
  /\ pc = "returned" => reply \in method.accept

(* While the condition holds and no question fails, the question in flight *)
(* is either older than the condition or will be accepted, and a pause or  *)
(* a check comes within one attempt and one pause of its start.            *)
StableInv ==
  /\ okSince # -1 => okSince <= now /\ guest \in method.accept
  /\ guest \in method.accept => okSince # -1
  /\ Limited /\ okSince # -1 =>
       /\ pc = "calling" => \/ callStart <= okSince
                            \/ reply = "none"
                            \/ reply \in method.accept
       /\ pc = "sleep" => wake <= okSince + ExecTimeout + Interval
       /\ pc \in {"check", "timedOut"} =>
            now <= okSince + ExecTimeout + Interval
  /\ pc = "timedOut" => now >= Timeout

IndInv ==
  /\ TypeOK
  /\ ClockInv
  /\ AnswerInv
  /\ StableInv
  /\ BoundedOvershoot

-----------------------------------------------------------------------------
(***************************************************************************)
(* A call that has just been made on a Machine is well-typed.              *)
(***************************************************************************)
LEMMA TypeInit == Init => TypeOK
  <1> SUFFICES ASSUME Init PROVE TypeOK
      OBVIOUS
  <1>1. guest \in Answer
    BY MethodFacts DEF Init
  <1> QED
    BY <1>1 DEF Init, TypeOK, OkFrom

(***************************************************************************)
(* Every step of a call, of the guest and of the clock keeps every         *)
(* variable in its domain.                                                 *)
(***************************************************************************)
LEMMA TypeStep == TypeOK /\ [Next]_vars => TypeOK'
  <1> SUFFICES ASSUME TypeOK, [Next]_vars PROVE TypeOK'
      OBVIOUS
  <1> USE TimeAssumption DEF TypeOK
  <1>1. CASE Attempt
    BY <1>1 DEF Attempt
  <1>2. CASE GiveUp
    BY <1>2 DEF GiveUp
  <1>3. CASE ContextExpires
    BY <1>3 DEF ContextExpires, CallFails, OkFrom
  <1>4. CASE Deliver
    BY <1>4 DEF Deliver
  <1>5. CASE Wake
    BY <1>5 DEF Wake
  <1>6. ASSUME NEW g \in Answers[method.ask], GuestChanges(g) PROVE TypeOK'
    <2>1. g \in Answer
      BY MethodFacts
    <2> QED
      BY <1>6, <2>1 DEF GuestChanges, OkFrom
  <1>7. CASE Serve
    BY <1>7 DEF Serve
  <1>8. CASE ServeFails
    BY <1>8 DEF ServeFails, CallFails, OkFrom
  <1>9. CASE Tick
    BY <1>9 DEF Tick
  <1>10. CASE UNCHANGED vars
    BY <1>10 DEF vars
  <1> QED
    BY <1>1, <1>2, <1>3, <1>4, <1>5, <1>6, <1>7, <1>8, <1>9, <1>10
       DEF Next, TestStep

(***************************************************************************)
(* Every variable keeps its type, in every call of every method.           *)
(***************************************************************************)
THEOREM TypeCorrect == Spec => []TypeOK
  BY TypeInit, TypeStep, PTL DEF Spec

-----------------------------------------------------------------------------
(***************************************************************************)
(* The inductive invariant holds when a call starts.                       *)
(***************************************************************************)
LEMMA IndInit == Init => IndInv
  BY TypeInit, TimeAssumption
     DEF Init, IndInv, TypeOK, ClockInv, AnswerInv, StableInv,
         BoundedOvershoot, OkFrom, Limited, Loops

(***************************************************************************)
(* Every step of the test, the guest, the agent and the clock keeps the    *)
(* inductive invariant.                                                    *)
(***************************************************************************)
LEMMA IndStep == IndInv /\ [Next]_vars => IndInv'
  <1> SUFFICES ASSUME IndInv, [Next]_vars PROVE IndInv'
      OBVIOUS
  <1>0. TypeOK'
    BY TypeStep DEF IndInv
  <1> USE TimeAssumption
      DEF IndInv, TypeOK, Limited, Loops, Ended, deadline
  <1>1. CASE Attempt
    BY <1>0, <1>1
       DEF Attempt, ClockInv, AnswerInv, StableInv, BoundedOvershoot
  <1>2. CASE GiveUp
    BY <1>0, <1>2
       DEF GiveUp, ClockInv, AnswerInv, StableInv, BoundedOvershoot
  <1>3. CASE ContextExpires
    BY <1>0, <1>3
       DEF ContextExpires, CallFails, OkFrom, ClockInv, AnswerInv, StableInv,
           BoundedOvershoot
  <1>4. CASE Deliver
    BY <1>0, <1>4
       DEF Deliver, ClockInv, AnswerInv, StableInv, BoundedOvershoot
  <1>5. CASE Wake
    BY <1>0, <1>5
       DEF Wake, ClockInv, AnswerInv, StableInv, BoundedOvershoot
  <1>6. ASSUME NEW g \in Answers[method.ask], GuestChanges(g) PROVE IndInv'
    BY <1>0, <1>6
       DEF GuestChanges, OkFrom, ClockInv, AnswerInv, StableInv,
           BoundedOvershoot
  <1>7. CASE Serve
    BY <1>0, <1>7
       DEF Serve, ClockInv, AnswerInv, StableInv, BoundedOvershoot
  <1>8. CASE ServeFails
    BY <1>0, <1>8
       DEF ServeFails, CallFails, OkFrom, ClockInv, AnswerInv, StableInv,
           BoundedOvershoot
  <1>9. CASE Tick
    BY <1>0, <1>9
       DEF Tick, ClockInv, AnswerInv, StableInv, BoundedOvershoot
  <1>10. CASE UNCHANGED vars
    BY <1>0, <1>10
       DEF vars, ClockInv, AnswerInv, StableInv, BoundedOvershoot
  <1> QED
    BY <1>1, <1>2, <1>3, <1>4, <1>5, <1>6, <1>7, <1>8, <1>9, <1>10
       DEF Next, TestStep

(***************************************************************************)
(* The inductive invariant holds throughout.                               *)
(***************************************************************************)
THEOREM Inductive == Spec => []IndInv
  BY IndInit, IndStep, PTL DEF Spec

(***************************************************************************)
(* A call returns only on what was true of the guest during the call.      *)
(***************************************************************************)
THEOREM ReturnsTruth == Spec => []ReturnWitnessed
  <1>1. IndInv => ReturnWitnessed
    BY MethodFacts DEF IndInv, TypeOK, AnswerInv, ReturnWitnessed
  <1> QED
    BY <1>1, Inductive, PTL

(***************************************************************************)
(* A retry loop over Execute overshoots its timeout by one command and one *)
(* pause at most.                                                          *)
(***************************************************************************)
THEOREM OvershootBounded == Spec => []BoundedOvershoot
  BY Inductive, PTL DEF IndInv

(***************************************************************************)
(* A condition that is stable for one attempt and one pause before the     *)
(* deadline is never reported as a timeout.                                *)
(***************************************************************************)
THEOREM StableSeen == Spec => []StableIsSeen
  <1>1. IndInv => StableIsSeen
    BY TimeAssumption
       DEF IndInv, TypeOK, StableInv, StableIsSeen, Limited, deadline
  <1> QED
    BY <1>1, Inductive, PTL
=============================================================================
