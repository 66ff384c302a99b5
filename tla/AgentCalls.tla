----------------------------- MODULE AgentCalls -----------------------------
(***************************************************************************)
(* One call of a test on a Machine (machine/machine.go): either a single   *)
(* question to the guest's agent (Succeed, Fail, FileSize, ReadFile, ...)  *)
(* or a retry loop (WaitUntilSucceeds, WaitForUnit, ...).  The guest       *)
(* changes while the call runs, the agent's answer is the state of the     *)
(* guest at some moment between question and answer, and a question may    *)
(* fail, be answered too late, or, where the code sets no limit, never be  *)
(* answered.                                                               *)
(*                                                                         *)
(* Time is discrete and starts at 0 with the call.  The test goroutine     *)
(* itself takes no time: Tick is refused while it has something to do.     *)
(***************************************************************************)
EXTENDS Integers

CONSTANTS
  Timeout,      \* retryConfig.timeout
  Interval,     \* retryConfig.interval
  ExecTimeout,  \* the limit Execute puts on one command (120 s)
  MaxCall       \* bound: how long an unlimited question is followed

ASSUME TimeAssumption ==
  /\ Timeout \in Nat
  /\ Interval \in Nat \ {0}
  /\ ExecTimeout \in Nat \ {0}
  /\ MaxCall \in Nat

-----------------------------------------------------------------------------
(* The methods.  What the guest can answer, by kind of question; a command *)
(* that exits 0 may or may not print what a matcher looks for, and an HTTP *)
(* request that gets no response is an error of the call.                  *)
Answers ==
  [exec |-> {"nonzero", "zero", "zeroMatch"},
   unit |-> {"inactive", "active", "failed"},
   port |-> {"open", "closed"},
   stat |-> {"missing", "present"},
   http |-> {"badStatus", "badBody", "good"},
   log  |-> {"noLine", "line"},
   data |-> {"data"},
   act  |-> {"done"}]

Answer == UNION {Answers[k] : k \in DOMAIN Answers}

(* A retry loop returns on "accept", fails the test at once on "fatal" and *)
(* tries again on anything else, an error included.  Only Execute limits   *)
(* the time of a question.                                                 *)
Retry(k, ok, bad) == [ask |-> k, accept |-> ok, fatal |-> bad, loop |-> "yes"]

(* A single question fails the test on an error too.                       *)
Once(k, ok) == [ask |-> k, accept |-> ok, loop |-> "no",
                fatal |-> (Answers[k] \cup {"error"}) \ ok]

WaitUntilSucceeds == Retry("exec", {"zero", "zeroMatch"}, {})
WaitUntilOutput   == Retry("exec", {"zeroMatch"}, {})
WaitForUnit       == Retry("unit", {"active"}, {"failed"})
WaitForOpenPort   == Retry("port", {"open"}, {})

(* Mutant: the error is not looked at, and CheckPort's "open" is false     *)
(* beside an error.                                                        *)
WaitForClosedPortIgnoresError == Retry("port", {"closed", "error"}, {})

WaitForClosedPort == Retry("port", {"closed"}, {})
WaitForFile       == Retry("stat", {"present"}, {})
WaitForHTTP       == Retry("http", {"good"}, {})
WaitForLog        == Retry("log", {"line"}, {})

Succeed       == Once("exec", {"zero", "zeroMatch"})
Fail          == Once("exec", {"nonzero"})
FileSize      == Once("stat", {"present"})
ReadFile      == Once("data", {"data"})
JournalLines  == Once("log", {"noLine", "line"})
HTTPGet       == Once("http", {"badStatus", "badBody", "good"})
FindProcesses == Once("data", {"data"})
Background    == Once("act", {"done"})
CopyFromHost  == Once("act", {"done"})
Listen        == Once("act", {"done"})

Methods ==
  {WaitUntilSucceeds, WaitUntilOutput, WaitForUnit, WaitForOpenPort,
   WaitForClosedPort, WaitForFile, WaitForHTTP, WaitForLog, Succeed, Fail,
   FileSize, ReadFile, JournalLines, HTTPGet, FindProcesses,
   Background, CopyFromHost, Listen}

-----------------------------------------------------------------------------
VARIABLES
  method,      \* the method called
  pc,          \* "check" the deadline, "calling", "sleep", or how it ended
  now,         \* the time
  callStart,   \* when the current question was asked
  wake,        \* when the current sleep ends
  reply,       \* the answer to the current question, once there is one
  guest,       \* what the guest would answer now
  held,        \* history: what it would have answered since callStart
  okSince      \* history: since when it would have been accepted and no
               \* question has failed (-1: it would not be)

vars == <<method, pc, now, callStart, wake, reply, guest, held, okSince>>

Limited == method.ask = "exec"
Loops == method.loop = "yes"
deadline == Timeout
Ended == pc \in {"returned", "fatal", "timedOut"}
OkFrom(g, t) == IF g \in method.accept THEN t ELSE -1

(***************************************************************************)
(* The type of the state.                                                  *)
(***************************************************************************)
TypeOK ==
  /\ method \in Methods
  /\ pc \in {"check", "calling", "sleep", "returned", "fatal", "timedOut"}
  /\ now \in Nat /\ callStart \in Nat /\ wake \in Nat
  /\ reply \in Answer \cup {"none", "error"}
  /\ guest \in Answer
  /\ held \subseteq Answer
  /\ okSince \in Nat \cup {-1}

Init ==
  /\ method \in Methods
  /\ pc = "check"
  /\ now = 0 /\ callStart = 0 /\ wake = 0
  /\ reply = "none"
  /\ guest \in Answers[method.ask]
  /\ held = {}
  /\ okSince = OkFrom(guest, 0)

(* Mutant: the deadline is set inside the loop, anew for every attempt     *)
(* (time counts from there).                                               *)
AttemptNewDeadline ==
  /\ pc = "check"
  /\ pc' = "calling"
  /\ now' = 0 /\ callStart' = 0 /\ wake' = 0
  /\ reply' = "none"
  /\ held' = {guest}
  /\ okSince' = OkFrom(guest, 0)
  /\ UNCHANGED <<method, guest>>

(* Head of the loop: one more attempt while the deadline is ahead.         *)
Attempt ==
  /\ pc = "check"
  /\ Loops => now < deadline
  /\ pc' = "calling"
  /\ callStart' = now
  /\ reply' = "none"
  /\ held' = {guest}
  /\ UNCHANGED <<method, now, wake, guest, okSince>>

(* The loop is over without success: t.Fatalf("... timed out ...").        *)
GiveUp ==
  /\ pc = "check"
  /\ Loops /\ now >= deadline
  /\ pc' = "timedOut"
  /\ UNCHANGED <<method, now, callStart, wake, reply, guest, held, okSince>>

(* The guest goes its own way.                                             *)
GuestChanges(g) ==
  /\ ~Ended
  /\ g # guest
  /\ guest' = g
  /\ held' = held \cup {g}
  /\ okSince' = IF g \in method.accept /\ guest \in method.accept THEN okSince
                ELSE OkFrom(g, now)
  /\ UNCHANGED <<method, pc, now, callStart, wake, reply>>

(* The agent looks; its answer is on its way.                              *)
Serve ==
  /\ pc = "calling" /\ reply = "none"
  /\ reply' = guest
  /\ UNCHANGED <<method, pc, now, callStart, wake, guest, held, okSince>>

CallFails ==
  /\ pc = "calling"
  /\ reply' = "error"
  /\ okSince' = OkFrom(guest, now)
  /\ UNCHANGED <<method, pc, now, callStart, wake, guest, held>>

(* The agent cannot be asked or reports an error of its own.               *)
ServeFails == reply = "none" /\ CallFails

(* Mutant: the context is made but not passed on: only an answer ends the  *)
(* wait.                                                                   *)
ContextNeverExpires ==
  /\ Limited /\ now = callStart + ExecTimeout
  /\ reply \notin {"error", "none"}
  /\ CallFails

(* Execute's context expires, also when the answer is already on its way.  *)
ContextExpires ==
  /\ Limited /\ now = callStart + ExecTimeout
  /\ reply # "error"
  /\ CallFails

(* Mutant: the loop sleeps although the condition was met.                 *)
DeliverMissed ==
  /\ pc = "calling" /\ reply # "none"
  /\ pc' = IF reply \in method.fatal THEN "fatal" ELSE "sleep"
  /\ wake' = now + Interval
  /\ UNCHANGED <<method, now, callStart, reply, guest, held, okSince>>

(* Mutant: the pause grows with the time already spent.                    *)
DeliverBackoff ==
  /\ pc = "calling" /\ reply # "none"
  /\ pc' = IF reply \in method.accept THEN "returned"
           ELSE IF reply \in method.fatal THEN "fatal" ELSE "sleep"
  /\ wake' = now + Interval + now
  /\ UNCHANGED <<method, now, callStart, reply, guest, held, okSince>>

(* Mutant: the pause is subtracted.                                        *)
DeliverNegative ==
  /\ pc = "calling" /\ reply # "none"
  /\ pc' = IF reply \in method.accept THEN "returned"
           ELSE IF reply \in method.fatal THEN "fatal" ELSE "sleep"
  /\ wake' = now - Interval
  /\ UNCHANGED <<method, now, callStart, reply, guest, held, okSince>>

(* The answer, or the error, reaches the test.                             *)
Deliver ==
  /\ pc = "calling" /\ reply # "none"
  /\ pc' = IF reply \in method.accept THEN "returned"
           ELSE IF reply \in method.fatal THEN "fatal" ELSE "sleep"
  /\ wake' = now + Interval
  /\ UNCHANGED <<method, now, callStart, reply, guest, held, okSince>>

(* time.Sleep(rc.interval) is over.                                        *)
Wake ==
  /\ pc = "sleep" /\ now >= wake
  /\ pc' = "check"
  /\ UNCHANGED <<method, now, callStart, wake, reply, guest, held, okSince>>

(* Time passes while the test sleeps or waits for an answer.               *)
Tick ==
  /\ \/ pc = "sleep" /\ now < wake
     \/ /\ pc = "calling"
        /\ now < callStart + (IF Limited THEN ExecTimeout ELSE MaxCall)
  /\ now' = now + 1
  /\ UNCHANGED <<method, pc, callStart, wake, reply, guest, held, okSince>>

TestStep == Attempt \/ GiveUp \/ ContextExpires \/ Deliver \/ Wake

Next ==
  \/ TestStep
  \/ \E g \in Answers[method.ask] : GuestChanges(g)
  \/ Serve
  \/ ServeFails
  \/ Tick

Spec == Init /\ [][Next]_vars

(* The test goroutine runs, its timers fire and time goes on; nothing is   *)
(* asked of the guest or its agent.                                        *)
FairSpec == Spec /\ WF_vars(TestStep) /\ WF_vars(Tick)

-----------------------------------------------------------------------------
(* Properties                                                              *)

(***************************************************************************)
(* What a call returns on was true: the accepted answer is one the guest   *)
(* would have given at some moment since the question was asked.  An error *)
(* of the call never passes for a closed port or a failing command.        *)
(***************************************************************************)
ReturnWitnessed == pc = "returned" => reply \in held

(***************************************************************************)
(* How far a retry loop over Execute overshoots its timeout: the last      *)
(* attempt starts before the deadline and takes ExecTimeout at most, and   *)
(* one pause may follow it.                                                *)
(***************************************************************************)
BoundedOvershoot ==
  Limited /\ Loops => now <= Timeout + ExecTimeout + Interval

(***************************************************************************)
(* A retry loop over Execute never reports a timeout over a condition that *)
(* had been stable: if the command would have succeeded, without an error  *)
(* of the call, for as long as one attempt and one pause take, it was      *)
(* seen.  (The pause is not so long, nor the check so placed, that the     *)
(* last stretch before the deadline is lost altogether.)                   *)
(***************************************************************************)
StableIsSeen ==
  Limited /\ pc = "timedOut" /\ okSince # -1
    => okSince + ExecTimeout + Interval >= deadline

(***************************************************************************)
(* A call that goes through Execute ends although the agent never answers. *)
(***************************************************************************)
ExecCallEnds == Limited ~> Ended

(***************************************************************************)
(* Any other call ends too, unless one of its questions is never answered  *)
(* (the code gives CheckPort, Stat, UnitStatus, ... no limit).             *)
(***************************************************************************)
OnlyHangsInAgent == <>Ended \/ <>[](pc = "calling" /\ reply = "none")
=============================================================================
