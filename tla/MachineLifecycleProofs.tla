----------------------- MODULE MachineLifecycleProofs -----------------------
(***************************************************************************)
(* Proofs about MachineLifecycle, for every number of machines, of dumps   *)
(* and of serial lines, and all sets of options.                           *)
(***************************************************************************)
EXTENDS MachineLifecycle, FiniteSetTheorems, SequenceTheorems, TLAPS

(***************************************************************************)
(* The inductive invariant.  What the properties say of a test that is     *)
(* over follows from the discipline of the cleanup stack while it runs;    *)
(* a test binary that was killed keeps nothing of it.                      *)
(***************************************************************************)
CloseOf(s, m, i) == s[i].what = "close" /\ s[i].m = m

InClose == tpc \in {"kill", "drain"}

(* The order of a stack: one close function for a machine, and below every *)
(* dump of that machine.                                                   *)
OneClose(s) ==
  \A m \in Machine, i, j \in 1 .. Len(s) :
    CloseOf(s, m, i) /\ CloseOf(s, m, j) => i = j

DumpsAbove(s) ==
  \A i \in 1 .. Len(s) : s[i].what = "dump" =>
    \E j \in 1 .. i - 1 : CloseOf(s, s[i].m, j)

Ordered(s) == OneClose(s) /\ DumpsAbove(s)

(* The stack: it is ordered, and machines on it have an open agent, but    *)
(* for the one whose close function runs.                                  *)
StackInv ==
  /\ Ordered(stack)
  /\ \A i \in 1 .. Len(stack) :
       agent[stack[i].m] = "open" \/ (InClose /\ i = Len(stack))
  /\ InClose => stack # <<>> /\ Top.what = "close" /\ agent[Top.m] = "closed"
  /\ tpc = "done" => stack = <<>>

(* Owners: somebody will close an open agent and kill a VM that is up.     *)
OwnerInv ==
  /\ \A m \in Machine : agent[m] = "open" =>
       \E i \in 1 .. Len(stack) : CloseOf(stack, m, i)
  /\ \A m \in Machine : vm[m] = "up" =>
       \/ tpc = "connect" /\ m = made
       \/ \E i \in 1 .. Len(stack) : CloseOf(stack, m, i)
  /\ tpc = "drain" => vm[Top.m] = "down"

(* Machines not made yet, or not handed over yet.                          *)
NewInv ==
  /\ \A m \in Machine : m > made =>
       vm[m] = "none" /\ agent[m] = "none" /\ onLine[m] = "none"
  /\ tpc = "connect" => made > 0 /\ agent[made] = "none"

(* Loggers: one that does not run has nothing to log, and the close        *)
(* function of a machine ends after its logger.                            *)
LoggerInv ==
  /\ \A m \in Machine : onLine[m] # "running" => lines[m] = 0
  /\ \A m \in Machine : agent[m] = "closed" =>
       onLine[m] # "running" \/ (InClose /\ Top.m = m)

(* Dumps: those that were asked and those still on the stack are all of    *)
(* them, once the test has failed.                                         *)
DumpsIn(s) == {i \in 1 .. Len(s) : s[i].what = "dump"}

DumpInv ==
  /\ asked + Cardinality(DumpsIn(stack)) <= dumps
  /\ tpc \in {"body", "connect"} \/ failed = "yes" =>
       asked + Cardinality(DumpsIn(stack)) = dumps

Discipline == StackInv /\ OwnerInv /\ NewInv /\ LoggerInv /\ DumpInv

IndInv == TypeOK /\ (tpc # "dead" => Discipline)

-----------------------------------------------------------------------------
(***************************************************************************)
(* t.Cleanup puts a function on top of those registered before it.         *)
(***************************************************************************)
LEMMA PushFacts ==
  ASSUME NEW S, NEW s \in Seq(S), NEW e \in S
  PROVE  /\ Append(s, e) \in Seq(S)
         /\ Len(Append(s, e)) = Len(s) + 1
         /\ Len(s) \in Nat
         /\ \A i \in 1 .. Len(s) : Append(s, e)[i] = s[i]
         /\ Append(s, e)[Len(s) + 1] = e
  BY AppendProperties

(***************************************************************************)
(* testing takes the last function off the stack and leaves the others.    *)
(***************************************************************************)
LEMMA PopFacts ==
  ASSUME NEW S, NEW s \in Seq(S), s # <<>>
  PROVE  /\ SubSeq(s, 1, Len(s) - 1) \in Seq(S)
         /\ Len(s) \in Nat \ {0}
         /\ Len(SubSeq(s, 1, Len(s) - 1)) = Len(s) - 1
         /\ \A i \in 1 .. Len(s) - 1 : SubSeq(s, 1, Len(s) - 1)[i] = s[i]
         /\ s[Len(s)] \in S
  <1> DEFINE n == Len(s) - 1
  <1>1. Len(s) \in Nat \ {0}
    BY EmptySeq, LenProperties
  <1>2. n \in Int /\ 1 \in Int
    BY <1>1
  <1>3. \A i \in 1 .. n : s[i] \in S
    BY <1>1, ElementOfSeq
  <1>4. s[Len(s)] \in S
    BY <1>1, ElementOfSeq
  <1>5. Len(s) = n + 1
    BY <1>1
  <1> HIDE DEF n
  <1>6. /\ SubSeq(s, 1, n) \in Seq(S)
        /\ Len(SubSeq(s, 1, n)) = IF 1 <= n THEN n - 1 + 1 ELSE 0
        /\ \A i \in 1 .. n - 1 + 1 : SubSeq(s, 1, n)[i] = s[1 + i - 1]
    BY <1>2, <1>3, SubSeqProperties
  <1>7. Len(SubSeq(s, 1, n)) = n /\ \A i \in 1 .. n : SubSeq(s, 1, n)[i] = s[i]
    BY <1>1, <1>2, <1>5, <1>6
  <1> QED
    BY <1>1, <1>4, <1>6, <1>7 DEF n

(***************************************************************************)
(* The dumps on a stack are finitely many, and an empty stack has none.    *)
(***************************************************************************)
LEMMA DumpsFinite ==
  ASSUME NEW s \in Seq(Cleanup)
  PROVE  /\ IsFiniteSet(DumpsIn(s))
         /\ Cardinality(DumpsIn(s)) \in Nat
         /\ s = <<>> => Cardinality(DumpsIn(s)) = 0
  <1>1. IsFiniteSet(1 .. Len(s))
    BY LenProperties, FS_Interval
  <1>2. IsFiniteSet(DumpsIn(s))
    BY <1>1, FS_Subset DEF DumpsIn
  <1>3. s = <<>> => DumpsIn(s) = {}
    BY DEF DumpsIn
  <1> QED
    BY <1>2, <1>3, FS_CardinalityType, FS_EmptySet

(***************************************************************************)
(* Registering a function adds a dump exactly when it is one.              *)
(***************************************************************************)
LEMMA DumpsPush ==
  ASSUME NEW s \in Seq(Cleanup), NEW e \in Cleanup
  PROVE  Cardinality(DumpsIn(Append(s, e))) =
           Cardinality(DumpsIn(s)) + IF e.what = "dump" THEN 1 ELSE 0
  <1> DEFINE n == Len(s)
             t == Append(s, e)
  <1>1. n \in Nat /\ Len(t) = n + 1 /\ t[n + 1] = e
        /\ \A i \in 1 .. n : t[i] = s[i]
    BY PushFacts
  <1>2. CASE e.what = "dump"
    <2>1. DumpsIn(t) = DumpsIn(s) \cup {n + 1}
      BY <1>1, <1>2 DEF DumpsIn
    <2>2. n + 1 \notin DumpsIn(s)
      BY <1>1 DEF DumpsIn
    <2> QED
      BY <1>2, <2>1, <2>2, DumpsFinite, FS_AddElement
  <1>3. CASE e.what # "dump"
    <2>1. DumpsIn(t) = DumpsIn(s)
      BY <1>1, <1>3 DEF DumpsIn
    <2> QED
      BY <1>3, <2>1, DumpsFinite
  <1> QED
    BY <1>2, <1>3

(***************************************************************************)
(* Running a function takes a dump off exactly when it is one.             *)
(***************************************************************************)
LEMMA DumpsPop ==
  ASSUME NEW s \in Seq(Cleanup), s # <<>>
  PROVE  Cardinality(DumpsIn(SubSeq(s, 1, Len(s) - 1))) =
           Cardinality(DumpsIn(s))
             - IF s[Len(s)].what = "dump" THEN 1 ELSE 0
  <1> DEFINE n == Len(s)
             t == SubSeq(s, 1, Len(s) - 1)
  <1>1. n \in Nat \ {0} /\ Len(t) = n - 1 /\ \A i \in 1 .. n - 1 : t[i] = s[i]
    BY PopFacts
  <1>2. CASE s[n].what = "dump"
    <2>1. DumpsIn(t) = DumpsIn(s) \ {n}
      BY <1>1 DEF DumpsIn
    <2>2. n \in DumpsIn(s)
      BY <1>1, <1>2 DEF DumpsIn
    <2> QED
      BY <1>2, <2>1, <2>2, DumpsFinite, FS_RemoveElement
  <1>3. CASE s[n].what # "dump"
    <2>1. DumpsIn(t) = DumpsIn(s)
      BY <1>1, <1>3 DEF DumpsIn
    <2> QED
      BY <1>3, <2>1, DumpsFinite
  <1> QED
    BY <1>2, <1>3

(***************************************************************************)
(* Registering keeps the order: a close function of a machine that has     *)
(* nothing on the stack, or a dump of one whose close function is there.   *)
(***************************************************************************)
LEMMA PushOrdered ==
  ASSUME NEW s \in Seq(Cleanup), NEW e \in Cleanup, Ordered(s),
         e.what = "close" => \A i \in 1 .. Len(s) : s[i].m # e.m,
         e.what = "dump" => \E j \in 1 .. Len(s) : CloseOf(s, e.m, j)
  PROVE  Ordered(Append(s, e))
  <1> DEFINE n == Len(s)
             t == Append(s, e)
  <1>1. n \in Nat /\ Len(t) = n + 1 /\ t[n + 1] = e
        /\ \A i \in 1 .. n : t[i] = s[i]
    BY PushFacts
  <1> HIDE DEF n, t
  <1>2. \A i \in 1 .. n : \A m \in Machine : CloseOf(t, m, i) <=> CloseOf(s, m, i)
    BY <1>1 DEF CloseOf
  <1>3. ASSUME NEW m \in Machine, NEW i \in 1 .. Len(t), NEW j \in 1 .. Len(t),
               CloseOf(t, m, i), CloseOf(t, m, j)
        PROVE  i = j
    <2>1. CASE i \in 1 .. n /\ j \in 1 .. n
      BY <1>2, <1>3, <2>1 DEF Ordered, OneClose, n
    <2>2. CASE i = n + 1 /\ j # n + 1
      BY <1>1, <1>3, <2>2 DEF CloseOf, n
    <2>3. CASE j = n + 1 /\ i # n + 1
      BY <1>1, <1>3, <2>3 DEF CloseOf, n
    <2> QED
      BY <1>1, <2>1, <2>2, <2>3
  <1>4. ASSUME NEW i \in 1 .. Len(t), t[i].what = "dump"
        PROVE  \E j \in 1 .. i - 1 : CloseOf(t, t[i].m, j)
    <2>1. CASE i \in 1 .. n
      <3>1. PICK j \in 1 .. i - 1 : CloseOf(s, s[i].m, j)
        BY <1>1, <1>4, <2>1 DEF Ordered, DumpsAbove, n
      <3> QED
        BY <1>1, <2>1, <3>1 DEF CloseOf
    <2>2. CASE i = n + 1
      <3>1. PICK j \in 1 .. n : CloseOf(s, e.m, j)
        BY <1>1, <1>4, <2>2 DEF n
      <3> QED
        BY <1>1, <2>2, <3>1 DEF CloseOf
    <2> QED
      BY <1>1, <2>1, <2>2
  <1> QED
    BY <1>3, <1>4 DEF Ordered, OneClose, DumpsAbove, t

(***************************************************************************)
(* Taking the last function off keeps the order.                           *)
(***************************************************************************)
LEMMA PopOrdered ==
  ASSUME NEW s \in Seq(Cleanup), s # <<>>, Ordered(s)
  PROVE  Ordered(SubSeq(s, 1, Len(s) - 1))
  <1> DEFINE n == Len(s)
             t == SubSeq(s, 1, Len(s) - 1)
  <1>1. n \in Nat \ {0} /\ Len(t) = n - 1 /\ \A i \in 1 .. n - 1 : t[i] = s[i]
    BY PopFacts
  <1> HIDE DEF t
  <1>2. OneClose(t)
    BY <1>1 DEF Ordered, OneClose, CloseOf
  <1>3. ASSUME NEW i \in 1 .. Len(t), t[i].what = "dump"
        PROVE  \E j \in 1 .. i - 1 : CloseOf(t, t[i].m, j)
    <2>1. PICK j \in 1 .. i - 1 : CloseOf(s, s[i].m, j)
      BY <1>1, <1>3 DEF Ordered, DumpsAbove
    <2> QED
      BY <1>1, <2>1 DEF CloseOf
  <1> QED
    BY <1>2, <1>3 DEF Ordered, DumpsAbove, t

-----------------------------------------------------------------------------
(***************************************************************************)
(* A test that has just begun satisfies the invariant.                     *)
(***************************************************************************)
LEMMA InvInit == Init => IndInv
  <1> SUFFICES ASSUME Init PROVE IndInv
      OBVIOUS
  <1>1. TypeOK
    BY BoundsAssumption, EmptySeq DEF Init, TypeOK, Machine
  <1>2. Len(stack) = 0 /\ Cardinality(DumpsIn(stack)) = 0
    BY EmptySeq, DumpsFinite DEF Init
  <1>3. StackInv /\ OwnerInv
    BY <1>2 DEF Init, StackInv, OwnerInv, InClose, Ordered, OneClose, DumpsAbove
  <1>4. NewInv /\ LoggerInv
    BY DEF Init, NewInv, LoggerInv
  <1>5. DumpInv
    BY <1>2 DEF Init, DumpInv
  <1> QED
    BY <1>1, <1>3, <1>4, <1>5 DEF IndInv, Discipline

(***************************************************************************)
(* What the discipline says of the function on top of the stack: the agent *)
(* a dump asks is open, and no other function is for the machine that is   *)
(* being closed.                                                           *)
(***************************************************************************)
LEMMA TopFacts ==
  ASSUME TypeOK, StackInv, stack # <<>>
  PROVE  /\ Len(stack) \in Nat \ {0}
         /\ Top \in Cleanup
         /\ Top.m \in Machine
         /\ Top.what = "dump" => agent[Top.m] = "open"
         /\ Top.what = "close" =>
              \A i \in 1 .. Len(stack) - 1 : stack[i].m # Top.m
  <1>1. Len(stack) \in Nat \ {0} /\ Top \in Cleanup
    BY PopFacts DEF TypeOK, Top
  <1>2. Top.m \in Machine
    BY <1>1 DEF Cleanup
  <1>3. Top.what = "dump" => agent[Top.m] = "open"
    BY <1>1 DEF StackInv, Top
  <1>4. ASSUME Top.what = "close", NEW i \in 1 .. Len(stack) - 1,
               stack[i].m = Top.m
        PROVE  FALSE
    <2>1. stack[i] \in Cleanup
      BY <1>1, ElementOfSeq DEF TypeOK
    <2>2. CASE stack[i].what = "close"
      BY <1>1, <1>2, <1>4, <2>2 DEF StackInv, Ordered, OneClose, CloseOf, Top
    <2>3. CASE stack[i].what = "dump"
      <3>1. PICK j \in 1 .. i - 1 : CloseOf(stack, Top.m, j)
        BY <1>1, <1>4, <2>3 DEF StackInv, Ordered, DumpsAbove
      <3> QED
        BY <1>1, <1>2, <1>4, <3>1 DEF StackInv, Ordered, OneClose, CloseOf, Top
    <2> QED
      BY <2>1, <2>2, <2>3 DEF Cleanup
  <1> QED
    BY <1>1, <1>2, <1>3, <1>4

(***************************************************************************)
(* The functions on the stack are for machines.                            *)
(***************************************************************************)
LEMMA EntryType ==
  ASSUME TypeOK
  PROVE  \A i \in 1 .. Len(stack) : stack[i] \in Cleanup /\ stack[i].m \in Machine
  <1>1. \A i \in 1 .. Len(stack) : stack[i] \in Cleanup
    BY ElementOfSeq DEF TypeOK
  <1> QED
    BY <1>1 DEF Cleanup

(***************************************************************************)
(* Every step of the test, of its cleanups, of a VM and of a logger keeps  *)
(* every variable in its domain.                                           *)
(***************************************************************************)
LEMMA TypeStep == IndInv /\ [Next]_vars => TypeOK'
  <1> SUFFICES ASSUME IndInv, [Next]_vars PROVE TypeOK'
      OBVIOUS
  <1>0. TypeOK
    BY DEF IndInv
  <1> USE <1>0, BoundsAssumption
  <1> USE DEF TypeOK, Machine, dumpVars, vmVars, Fatalf, Kill
  <1>1. CASE StartFails \/ CallFails \/ BodyEnds \/ TestOver \/ CloseAgent \/ Die
    BY <1>1 DEF StartFails, CallFails, BodyEnds, TestOver, CloseAgent, Die
  <1>2. CASE Start
    BY <1>2 DEF Start
  <1>3. CASE ConnectAgent
    <2>1. made \in Machine
      BY <1>3 DEF ConnectAgent, IndInv, Discipline, NewInv
    <2>2. [what |-> "close", m |-> made, opts |-> {}] \in Cleanup
      BY <2>1 DEF Cleanup
    <2>3. stack' \in Seq(Cleanup)
      BY <1>3, <2>2, PushFacts DEF ConnectAgent
    <2> QED
      BY <1>3, <2>3 DEF ConnectAgent
  <1>4. CASE ConnectFails
    BY <1>4 DEF ConnectFails
  <1>5. ASSUME NEW m \in Machine, NEW opts \in OptionSets, DumpOnFailure(m, opts)
        PROVE  TypeOK'
    <2>1. [what |-> "dump", m |-> m, opts |-> opts] \in Cleanup
      BY OptionsAssumption DEF Cleanup
    <2>2. stack' \in Seq(Cleanup)
      BY <1>5, <2>1, PushFacts DEF DumpOnFailure
    <2> QED
      BY <1>5, <2>2 DEF DumpOnFailure
  <1>6. CASE Dump
    <2>1. /\ stack' \in Seq(Cleanup)
          /\ Top \in Cleanup
      BY <1>6, PopFacts DEF Dump, Pop, Top
    <2>2. missed' \subseteq DumpOption
      <3>1. Requested(Top.opts) \ Collected(Top.opts) \subseteq DumpOption
        BY <2>1 DEF Requested, Collected, Cleanup, DumpOption
      <3> QED
        BY <1>6, <3>1 DEF Dump
    <2>3. asked' \in 0 .. MaxDumps
      <3>1. /\ asked + Cardinality(DumpsIn(stack)) <= dumps
            /\ Cardinality(DumpsIn(stack)) \in Nat
            /\ Cardinality(DumpsIn(stack')) \in Nat
        BY <1>6, <2>1, DumpsFinite DEF Dump, IndInv, Discipline, DumpInv
      <3>2. Cardinality(DumpsIn(stack')) = Cardinality(DumpsIn(stack)) - 1
        BY <1>6, DumpsPop DEF Dump, Pop, Top
      <3> QED
        BY <1>6, <3>1, <3>2 DEF Dump
    <2> QED
      BY <1>6, <2>1, <2>2, <2>3 DEF Dump
  <1>7. CASE KillVM
    BY <1>7 DEF KillVM
  <1>8. CASE Drain
    <2>1. stack' \in Seq(Cleanup)
      BY <1>8, PopFacts DEF Drain, Pop, IndInv, Discipline, StackInv, InClose
    <2> QED
      BY <1>8, <2>1 DEF Drain
  <1>9. ASSUME NEW m \in Machine, VMExits(m) \/ ReadLine(m) \/ Logger(m)
        PROVE  TypeOK'
    <2>1. CASE VMExits(m)
      BY <2>1 DEF VMExits
    <2>2. CASE ReadLine(m)
      <3>1. lines' \in [Machine -> 0 .. MaxLines]
        BY <2>2 DEF ReadLine
      <3> QED
        BY <2>2, <3>1 DEF ReadLine
    <2>3. CASE LogLine(m)
      <3>1. lines' \in [Machine -> 0 .. MaxLines]
        BY <2>3 DEF LogLine
      <3> QED
        BY <2>3, <3>1 DEF LogLine
    <2>4. CASE LoggerExits(m)
      BY <2>4 DEF LoggerExits
    <2> QED
      BY <1>9, <2>1, <2>2, <2>3, <2>4 DEF Logger
  <1>10. CASE UNCHANGED vars
    BY <1>10 DEF vars
  <1> QED
    BY <1>1, <1>2, <1>3, <1>4, <1>5, <1>6, <1>7, <1>8, <1>9, <1>10
    DEF Next, NewStep, BodyStep, CleanupStep

(***************************************************************************)
(* A step that leaves the stack, the agents and the dumps alone keeps the  *)
(* discipline if it stays within, or outside, a close function and starts  *)
(* no VM.                                                                  *)
(***************************************************************************)
LEMMA QuietStep ==
  ASSUME TypeOK, Discipline,
         UNCHANGED <<stack, agent, dumps, asked>>,
         InClose' = InClose,
         tpc' = "done" => tpc = "done" \/ stack = <<>>,
         tpc \in {"body", "connect"} \/ (failed' = failed /\ tpc' \notin {"body", "connect"})
  PROVE  StackInv' /\ DumpInv'
  BY DEF Discipline, StackInv, DumpInv, InClose, CloseOf, Top

(***************************************************************************)
(* New keeps the discipline: a VM that is started is handed over with its  *)
(* close function registered, or killed (machine.go:132-165).              *)
(***************************************************************************)
LEMMA NewKeeps ==
  ASSUME TypeOK, Discipline, TypeOK', NewStep
  PROVE  Discipline'
  <1> USE BoundsAssumption
      DEF TypeOK, Machine, dumpVars, vmVars, Fatalf, Kill
  <1>1. CASE StartFails
    <2>1. StackInv' /\ DumpInv'
      BY <1>1, QuietStep DEF StartFails, InClose
    <2>2. OwnerInv' /\ NewInv' /\ LoggerInv'
      BY <1>1 DEF StartFails, Discipline, OwnerInv, NewInv, LoggerInv, InClose,
                  CloseOf, Top
    <2> QED
      BY <2>1, <2>2 DEF Discipline
  <1>2. CASE Start
    <2>1. StackInv'
      BY <1>2 DEF Start, Discipline, StackInv, InClose, CloseOf, Top
    <2>2. DumpInv'
      BY <1>2 DEF Start, Discipline, DumpInv
    <2>3. /\ tpc = "body" /\ tpc' = "connect"
          /\ made' = made + 1 /\ made + 1 \in Machine
          /\ stack' = stack /\ agent' = agent /\ lines' = lines
          /\ vm' = [vm EXCEPT ![made + 1] = "up"]
          /\ \A m \in Machine : m # made + 1 => onLine'[m] = onLine[m]
      BY <1>2 DEF Start
    <2>4. OwnerInv'
      <3>1. \A m \in Machine : agent'[m] = "open" =>
              \E i \in 1 .. Len(stack') : CloseOf(stack', m, i)
        BY <2>3 DEF Discipline, OwnerInv, CloseOf
      <3>2. \A m \in Machine : vm'[m] = "up" =>
              m = made' \/ \E i \in 1 .. Len(stack') : CloseOf(stack', m, i)
        BY <2>3 DEF Discipline, OwnerInv, CloseOf
      <3> QED
        BY <2>3, <3>1, <3>2 DEF OwnerInv
    <2>5. NewInv'
      BY <1>2 DEF Start, Discipline, NewInv
    <2>6. LoggerInv'
      <3>1. agent[made + 1] = "none" /\ onLine[made + 1] = "none"
        BY <2>3 DEF Discipline, NewInv
      <3>2. \A m \in Machine : onLine'[m] # "running" => lines'[m] = 0
        BY <2>3, <3>1 DEF Discipline, LoggerInv
      <3>3. \A m \in Machine : agent'[m] = "closed" => onLine'[m] # "running"
        BY <2>3, <3>1 DEF Discipline, LoggerInv, InClose
      <3> QED
        BY <3>2, <3>3 DEF LoggerInv
    <2> QED
      BY <2>1, <2>2, <2>4, <2>5, <2>6 DEF Discipline
  <1>3. CASE ConnectAgent
    <2> DEFINE e == [what |-> "close", m |-> made, opts |-> {}]
    <2>1. made \in Machine /\ agent[made] = "none"
      BY <1>3 DEF ConnectAgent, Discipline, NewInv
    <2>2. e \in Cleanup
      BY <2>1 DEF Cleanup
    <2>3. /\ Len(stack) \in Nat
          /\ Len(stack') = Len(stack) + 1
          /\ stack'[Len(stack) + 1] = e
          /\ \A i \in 1 .. Len(stack) : stack'[i] = stack[i]
      BY <1>3, <2>2, PushFacts DEF ConnectAgent
    <2>4. tpc = "connect" /\ tpc' = "body" /\ agent' = [agent EXCEPT ![made] = "open"]
      BY <1>3 DEF ConnectAgent
    <2>5. \A i \in 1 .. Len(stack) : agent[stack[i].m] = "open" /\ stack[i].m # made
      BY <2>1, <2>4 DEF Discipline, StackInv, InClose
    <2>6. \A i \in 1 .. Len(stack) : stack[i].m \in Machine
      BY EntryType
    <2>7. StackInv'
      <3>1. \A i \in 1 .. Len(stack') : agent'[stack'[i].m] = "open"
        <4> SUFFICES ASSUME NEW i \in 1 .. Len(stack')
                     PROVE  agent'[stack'[i].m] = "open"
            OBVIOUS
        <4>1. CASE i = Len(stack) + 1
          BY <2>1, <2>3, <2>4, <4>1
        <4>2. CASE i \in 1 .. Len(stack)
          <5>1. stack'[i] = stack[i]
            BY <2>3, <4>2
          <5>2. /\ stack[i].m \in Machine /\ stack[i].m # made
                /\ agent[stack[i].m] = "open"
            BY <2>5, <2>6, <4>2
          <5> QED
            BY <2>4, <5>1, <5>2
        <4> QED
          BY <2>3, <4>1, <4>2
      <3>2. Ordered(stack')
        <4>1. stack' = Append(stack, e) /\ e.what = "close" /\ e.m = made
          BY <1>3 DEF ConnectAgent
        <4> HIDE DEF e
        <4> QED
          BY <2>2, <2>5, <4>1, PushOrdered DEF Discipline, StackInv
      <3> QED
        BY <2>4, <3>1, <3>2 DEF StackInv, InClose
    <2>8. OwnerInv'
      BY <1>3, <2>1, <2>3, <2>4 DEF ConnectAgent, Discipline, OwnerInv, CloseOf
    <2>9. NewInv' /\ LoggerInv'
      BY <1>3, <2>1, <2>4 DEF ConnectAgent, Discipline, NewInv, LoggerInv, InClose
    <2>10. DumpInv'
      <3>1. stack' = Append(stack, e) /\ e.what # "dump"
        BY <1>3 DEF ConnectAgent
      <3>2. Cardinality(DumpsIn(stack')) = Cardinality(DumpsIn(stack))
        <4> HIDE DEF e
        <4> QED
          BY <2>2, <3>1, DumpsPush, DumpsFinite
      <3> QED
        BY <1>3, <3>2 DEF ConnectAgent, Discipline, DumpInv
    <2> QED
      BY <2>7, <2>8, <2>9, <2>10 DEF Discipline
  <1>4. CASE ConnectFails
    <2>1. StackInv' /\ DumpInv'
      BY <1>4, QuietStep DEF ConnectFails, InClose
    <2>2. OwnerInv'
      BY <1>4 DEF ConnectFails, Discipline, OwnerInv, CloseOf, Top
    <2>3. NewInv' /\ LoggerInv'
      BY <1>4 DEF ConnectFails, Discipline, NewInv, LoggerInv, InClose, Top
    <2> QED
      BY <2>1, <2>2, <2>3 DEF Discipline
  <1> QED
    BY <1>1, <1>2, <1>3, <1>4 DEF NewStep

(***************************************************************************)
(* The body of a test keeps the discipline: a dump is registered above the *)
(* close function of its machine, whose agent is open (machine.go:578-587).*)
(***************************************************************************)
LEMMA BodyKeeps ==
  ASSUME TypeOK, Discipline, TypeOK', BodyStep
  PROVE  Discipline'
  <1> USE BoundsAssumption DEF TypeOK, Machine, dumpVars, vmVars, Fatalf
  <1>1. ASSUME NEW m \in Machine, NEW opts \in OptionSets, DumpOnFailure(m, opts)
        PROVE  Discipline'
    <2> DEFINE e == [what |-> "dump", m |-> m, opts |-> opts]
    <2>1. e \in Cleanup /\ e.what = "dump" /\ e.m = m
      BY OptionsAssumption DEF Cleanup
    <2>2. /\ tpc = "body" /\ tpc' = "body" /\ agent[m] = "open"
          /\ stack' = Append(stack, e)
          /\ dumps' = dumps + 1
          /\ UNCHANGED <<failed, made, asked, vm, agent, lines, onLine>>
      BY <1>1 DEF DumpOnFailure
    <2> HIDE DEF e
    <2>3. /\ Len(stack) \in Nat
          /\ Len(stack') = Len(stack) + 1
          /\ stack'[Len(stack) + 1] = e
          /\ \A i \in 1 .. Len(stack) : stack'[i] = stack[i]
      BY <2>1, <2>2, PushFacts
    <2>4. Ordered(stack')
      <3>1. \E j \in 1 .. Len(stack) : CloseOf(stack, e.m, j)
        BY <2>1, <2>2 DEF Discipline, OwnerInv
      <3> QED
        BY <2>1, <2>2, <3>1, PushOrdered DEF Discipline, StackInv
    <2>5. StackInv'
      <3>1. \A i \in 1 .. Len(stack') : agent'[stack'[i].m] = "open"
        BY <2>1, <2>2, <2>3 DEF Discipline, StackInv, InClose
      <3> QED
        BY <2>2, <2>4, <3>1 DEF StackInv, InClose
    <2>6. OwnerInv'
      BY <2>2, <2>3 DEF Discipline, OwnerInv, CloseOf
    <2>7. NewInv' /\ LoggerInv'
      BY <2>2 DEF Discipline, NewInv, LoggerInv, InClose
    <2>8. DumpInv'
      <3>1. /\ Cardinality(DumpsIn(stack')) = Cardinality(DumpsIn(stack)) + 1
            /\ Cardinality(DumpsIn(stack)) \in Nat
        BY <2>1, <2>2, DumpsPush, DumpsFinite
      <3> QED
        BY <2>2, <3>1 DEF Discipline, DumpInv
    <2> QED
      BY <2>4, <2>5, <2>6, <2>7, <2>8 DEF Discipline
  <1>2. CASE CallFails \/ BodyEnds
    <2>1. StackInv' /\ DumpInv'
      BY <1>2, QuietStep DEF CallFails, BodyEnds, InClose
    <2>2. /\ tpc = "body" /\ tpc' = "cleanup"
          /\ UNCHANGED <<made, stack, vm, agent, lines, onLine>>
      BY <1>2 DEF CallFails, BodyEnds
    <2>3. OwnerInv' /\ NewInv' /\ LoggerInv'
      BY <2>2 DEF Discipline, OwnerInv, NewInv, LoggerInv, InClose, CloseOf, Top
    <2> QED
      BY <2>1, <2>3 DEF Discipline
  <1> QED
    BY <1>1, <1>2 DEF BodyStep

(***************************************************************************)
(* The cleanups keep the discipline: a dump finds its agent open, and the  *)
(* close function leaves no VM and no logger (machine.go:158-164).         *)
(***************************************************************************)
LEMMA CleanupKeeps ==
  ASSUME TypeOK, Discipline, TypeOK', CleanupStep
  PROVE  Discipline'
  <1> USE BoundsAssumption DEF TypeOK, Machine, dumpVars, vmVars, Kill
  <1>1. CASE Dump
    <2>1. /\ tpc = "cleanup" /\ tpc' = "cleanup" /\ stack # <<>>
          /\ Top.what = "dump" /\ stack' = SubSeq(stack, 1, Len(stack) - 1)
          /\ UNCHANGED <<failed, made, dumps, vm, agent, lines, onLine>>
      BY <1>1 DEF Dump, Pop
    <2>2. /\ Len(stack) \in Nat \ {0}
          /\ Len(stack') = Len(stack) - 1
          /\ \A i \in 1 .. Len(stack) - 1 : stack'[i] = stack[i]
      BY <2>1, PopFacts
    <2>3. agent[Top.m] = "open"
      BY <2>1, TopFacts DEF Discipline
    <2>4. StackInv'
      <3>1. Ordered(stack')
        BY <2>1, PopOrdered DEF Discipline, StackInv
      <3>2. \A i \in 1 .. Len(stack') : agent'[stack'[i].m] = "open"
        BY <2>1, <2>2 DEF Discipline, StackInv, InClose
      <3> QED
        BY <2>1, <3>1, <3>2 DEF StackInv, InClose
    <2>5. OwnerInv'
      <3>1. \A m \in Machine, i \in 1 .. Len(stack) : CloseOf(stack, m, i) =>
              i \in 1 .. Len(stack') /\ CloseOf(stack', m, i)
        BY <2>1, <2>2 DEF CloseOf, Top
      <3> QED
        BY <2>1, <3>1 DEF Discipline, OwnerInv
    <2>6. NewInv' /\ LoggerInv'
      BY <2>1 DEF Discipline, NewInv, LoggerInv, InClose
    <2>7. DumpInv'
      <3>1. /\ Cardinality(DumpsIn(stack')) = Cardinality(DumpsIn(stack)) - 1
            /\ Cardinality(DumpsIn(stack)) \in Nat
        BY <2>1, DumpsPop, DumpsFinite DEF Top
      <3>2. asked' = IF failed = "yes" THEN asked + 1 ELSE asked
        BY <1>1, <2>3 DEF Dump
      <3> QED
        BY <2>1, <3>1, <3>2 DEF Discipline, DumpInv
    <2> QED
      BY <2>4, <2>5, <2>6, <2>7 DEF Discipline
  <1>2. CASE CloseAgent
    <2>1. /\ tpc = "cleanup" /\ tpc' = "kill" /\ stack # <<>>
          /\ Top.what = "close"
          /\ agent' = [agent EXCEPT ![Top.m] = "closed"]
          /\ UNCHANGED <<failed, made, stack, dumps, asked, vm, lines, onLine>>
      BY <1>2 DEF CloseAgent
    <2>2. /\ Len(stack) \in Nat \ {0}
          /\ Top.m \in Machine
          /\ \A i \in 1 .. Len(stack) - 1 : stack[i].m # Top.m
      BY <2>1, TopFacts DEF Discipline
    <2>3. \A i \in 1 .. Len(stack) : stack[i].m \in Machine
      BY EntryType
    <2>4. Top' = Top
      BY <2>1 DEF Top
    <2>5. StackInv'
      <3>1. \A i \in 1 .. Len(stack) - 1 : agent'[stack[i].m] = "open"
        BY <2>1, <2>2, <2>3 DEF Discipline, StackInv, InClose
      <3>2. agent'[Top.m] = "closed"
        BY <2>1, <2>2
      <3> QED
        BY <2>1, <2>2, <2>4, <3>1, <3>2 DEF Discipline, StackInv, InClose
    <2>6. OwnerInv'
      BY <2>1, <2>2 DEF Discipline, OwnerInv
    <2>7. NewInv'
      <3>1. agent[Top.m] = "open"
        BY <2>1, <2>2 DEF Discipline, StackInv, InClose, Top
      <3> QED
        BY <2>1, <2>2, <3>1 DEF Discipline, NewInv
    <2>8. LoggerInv' /\ DumpInv'
      BY <2>1, <2>2, <2>4 DEF Discipline, LoggerInv, DumpInv, InClose
    <2> QED
      BY <2>5, <2>6, <2>7, <2>8 DEF Discipline
  <1>3. CASE KillVM
    <2>1. /\ tpc = "kill" /\ tpc' = "drain"
          /\ vm' = [vm EXCEPT ![Top.m] = "down"]
          /\ UNCHANGED <<failed, made, stack, dumps, asked, agent, lines, onLine>>
      BY <1>3 DEF KillVM
    <2>2. stack # <<>> /\ Top.m \in Machine /\ Top' = Top
      BY <2>1, TopFacts DEF Discipline, StackInv, InClose, Top
    <2>3. StackInv' /\ DumpInv'
      BY <2>1, QuietStep DEF InClose
    <2>4. OwnerInv'
      BY <2>1, <2>2 DEF Discipline, OwnerInv
    <2>5. NewInv' /\ LoggerInv'
      <3>1. agent[Top.m] = "closed"
        BY <2>1 DEF Discipline, StackInv, InClose
      <3> QED
        BY <2>1, <2>2, <3>1 DEF Discipline, NewInv, LoggerInv, InClose
    <2> QED
      BY <2>3, <2>4, <2>5 DEF Discipline
  <1>4. CASE Drain
    <2>1. /\ tpc = "drain" /\ tpc' = "cleanup"
          /\ onLine[Top.m] # "running"
          /\ stack' = SubSeq(stack, 1, Len(stack) - 1)
          /\ UNCHANGED <<failed, made, dumps, asked, vm, agent, lines, onLine>>
      BY <1>4 DEF Drain, Pop
    <2>2. stack # <<>> /\ Top.what = "close" /\ agent[Top.m] = "closed"
      BY <2>1 DEF Discipline, StackInv, InClose
    <2>3. /\ Len(stack) \in Nat \ {0}
          /\ Len(stack') = Len(stack) - 1
          /\ \A i \in 1 .. Len(stack) - 1 : stack'[i] = stack[i]
      BY <2>1, <2>2, PopFacts
    <2>4. StackInv'
      <3>1. Ordered(stack')
        BY <2>1, <2>2, PopOrdered DEF Discipline, StackInv
      <3>2. \A i \in 1 .. Len(stack') : agent'[stack'[i].m] = "open"
        BY <2>1, <2>3 DEF Discipline, StackInv
      <3> QED
        BY <2>1, <3>1, <3>2 DEF StackInv, InClose
    <2>5. OwnerInv'
      <3>1. \A m \in Machine, i \in 1 .. Len(stack) :
              CloseOf(stack, m, i) /\ m # Top.m =>
                i \in 1 .. Len(stack') /\ CloseOf(stack', m, i)
        <4> SUFFICES ASSUME NEW m \in Machine, NEW i \in 1 .. Len(stack),
                            CloseOf(stack, m, i), m # Top.m
                     PROVE  i \in 1 .. Len(stack') /\ CloseOf(stack', m, i)
          OBVIOUS
        <4>1. i # Len(stack)
          BY DEF CloseOf, Top
        <4>2. i \in 1 .. Len(stack) - 1
          <5>1. \A l \in Nat : \A k \in 1 .. l : k # l => k \in 1 .. l - 1
            OBVIOUS
          <5>2. Len(stack) \in Nat
            BY <2>3
          <5> QED
            BY <4>1, <5>1, <5>2
        <4> QED
          BY <2>3, <4>2 DEF CloseOf
      <3>2. vm[Top.m] = "down"
        BY <2>1 DEF Discipline, OwnerInv
      <3> QED
        BY <2>1, <2>2, <3>1, <3>2 DEF Discipline, OwnerInv
    <2>6. NewInv' /\ LoggerInv'
      BY <2>1 DEF Discipline, NewInv, LoggerInv, InClose
    <2>7. DumpInv'
      <3>1. Cardinality(DumpsIn(stack')) = Cardinality(DumpsIn(stack))
        <4>1. stack[Len(stack)].what # "dump"
          BY <2>2 DEF Top
        <4> QED
          BY <2>1, <2>2, <4>1, DumpsPop, DumpsFinite
      <3> QED
        BY <2>1, <3>1 DEF Discipline, DumpInv
    <2> QED
      BY <2>4, <2>5, <2>6, <2>7 DEF Discipline
  <1>5. CASE TestOver
    <2>1. StackInv' /\ DumpInv'
      BY <1>5, QuietStep DEF TestOver, InClose
    <2>2. OwnerInv' /\ NewInv' /\ LoggerInv'
      BY <1>5 DEF TestOver, Discipline, OwnerInv, NewInv, LoggerInv, InClose,
                  CloseOf, Top
    <2> QED
      BY <2>1, <2>2 DEF Discipline
  <1> QED
    BY <1>1, <1>2, <1>3, <1>4, <1>5 DEF CleanupStep

(***************************************************************************)
(* A VM that ends by itself and the goroutines of its serial console keep  *)
(* the discipline wherever the test is.                                    *)
(***************************************************************************)
LEMMA WorldKeeps ==
  ASSUME TypeOK, Discipline, NEW m \in Machine,
         VMExits(m) \/ ReadLine(m) \/ Logger(m)
  PROVE  Discipline'
  <1> USE BoundsAssumption DEF TypeOK, Machine, dumpVars, vmVars, Kill
  <1>1. /\ UNCHANGED <<tpc, failed, made, stack, dumps, asked, agent>>
        /\ Top' = Top /\ InClose' = InClose
    BY DEF VMExits, ReadLine, Logger, LogLine, LoggerExits, Top, InClose
  <1>2. StackInv' /\ DumpInv'
    BY <1>1, QuietStep DEF InClose, Discipline, StackInv, DumpInv
  <1>3. CASE VMExits(m)
    <2>1. OwnerInv' /\ NewInv'
      BY <1>1, <1>3 DEF VMExits, Discipline, OwnerInv, NewInv
    <2>2. LoggerInv'
      BY <1>1, <1>3 DEF VMExits, Discipline, LoggerInv
    <2> QED
      BY <1>2, <2>1, <2>2 DEF Discipline
  <1>4. CASE ReadLine(m) \/ LogLine(m)
    <2>1. /\ onLine[m] = "running"
          /\ vm' = vm /\ onLine' = onLine
          /\ \A n \in Machine : n # m => lines'[n] = lines[n]
      BY <1>4 DEF ReadLine, LogLine
    <2>2. OwnerInv' /\ NewInv' /\ LoggerInv'
      BY <1>1, <2>1 DEF Discipline, OwnerInv, NewInv, LoggerInv
    <2> QED
      BY <1>2, <2>2 DEF Discipline
  <1>5. CASE LoggerExits(m)
    <2>1. OwnerInv' /\ NewInv'
      BY <1>1, <1>5 DEF LoggerExits, Discipline, OwnerInv, NewInv
    <2>2. LoggerInv'
      BY <1>1, <1>5 DEF LoggerExits, Discipline, LoggerInv
    <2> QED
      BY <1>2, <2>1, <2>2 DEF Discipline
  <1> QED
    BY <1>3, <1>4, <1>5 DEF Logger

(***************************************************************************)
(* Every step keeps the invariant; one that kills the test binary leaves   *)
(* only the types.                                                         *)
(***************************************************************************)
LEMMA InvStep == IndInv /\ [Next]_vars => IndInv'
  <1> SUFFICES ASSUME IndInv, [Next]_vars PROVE IndInv'
      OBVIOUS
  <1>0. TypeOK /\ TypeOK'
    BY TypeStep DEF IndInv
  <1>1. CASE tpc = "dead"
    <2>1. tpc' = "dead"
      BY <1>1 DEF Next, vars, NewStep, StartFails, Start, ConnectAgent,
         ConnectFails, BodyStep, DumpOnFailure, CallFails, BodyEnds, CleanupStep,
         Dump, CloseAgent, KillVM, Drain, TestOver, Die, VMExits, ReadLine,
         Logger, LogLine, LoggerExits
    <2> QED
      BY <1>0, <2>1 DEF IndInv
  <1>2. CASE Die
    BY <1>0, <1>2 DEF Die, IndInv
  <1>3. ASSUME tpc # "dead", NewStep \/ BodyStep \/ CleanupStep
        PROVE  IndInv'
    BY <1>0, <1>3, NewKeeps, BodyKeeps, CleanupKeeps DEF IndInv
  <1>4. ASSUME tpc # "dead",
               \E m \in Machine : VMExits(m) \/ ReadLine(m) \/ Logger(m)
        PROVE  IndInv'
    BY <1>0, <1>4, WorldKeeps DEF IndInv
  <1>5. ASSUME tpc # "dead", UNCHANGED vars
        PROVE  IndInv'
    <2>1. Discipline
      BY <1>5 DEF IndInv
    <2>2. Discipline'
      BY <1>5, <2>1 DEF vars, dumpVars, vmVars, Discipline, StackInv, OwnerInv,
         NewInv, LoggerInv, DumpInv, InClose, Top
    <2> QED
      BY <1>0, <2>2 DEF IndInv
  <1> QED
    BY <1>1, <1>2, <1>3, <1>4, <1>5 DEF Next

-----------------------------------------------------------------------------
(***************************************************************************)
(* Every reachable state of a test with machines is well-typed.            *)
(***************************************************************************)
THEOREM TypeCorrect == Spec => []TypeOK
  <1>1. IndInv => TypeOK
    BY DEF IndInv
  <1> QED
    BY InvInit, InvStep, <1>1, PTL DEF Spec

(***************************************************************************)
(* No VM outlives its test, whichever New or call failed and however many  *)
(* machines the test had made by then (machine.go:132-165).                *)
(***************************************************************************)
THEOREM NoVMLeft == Spec => []VMsStopped
  <1>1. IndInv => VMsStopped
    <2> SUFFICES ASSUME IndInv, tpc = "done", NEW m \in Machine, vm[m] = "up"
                 PROVE  FALSE
        BY DEF VMsStopped
    <2>1. Len(stack) = 0
      BY EmptySeq DEF IndInv, Discipline, StackInv
    <2> QED
      BY <2>1 DEF IndInv, Discipline, OwnerInv
  <1> QED
    BY InvInit, InvStep, <1>1, PTL DEF Spec

(***************************************************************************)
(* When a failed test is over, each of its DumpOnFailure functions has put *)
(* its questions, to an agent that was open (machine.go:578-628).          *)
(***************************************************************************)
THEOREM EveryFailureDumped == Spec => []FailureIsDumped
  <1>1. IndInv => FailureIsDumped
    <2> SUFFICES ASSUME IndInv, tpc = "done", failed = "yes"
                 PROVE  asked = dumps
        BY DEF FailureIsDumped
    <2>1. stack \in Seq(Cleanup) /\ stack = <<>>
      BY DEF IndInv, TypeOK, Discipline, StackInv
    <2>2. Cardinality(DumpsIn(stack)) = 0
      BY <2>1, DumpsFinite
    <2> QED
      BY <2>2, BoundsAssumption DEF IndInv, TypeOK, Discipline, DumpInv
  <1> QED
    BY InvInit, InvStep, <1>1, PTL DEF Spec

(***************************************************************************)
(* When a test is over, the logger of every machine that New returned has  *)
(* ended with nothing left to log (machine.go:137-164).                    *)
(***************************************************************************)
THEOREM NoLoggerLeft == Spec => []LoggersJoined
  <1>1. IndInv => LoggersJoined
    <2> SUFFICES ASSUME IndInv, tpc = "done", NEW m \in Machine,
                        agent[m] # "none"
                 PROVE  onLine[m] # "running" /\ lines[m] = 0
        BY DEF LoggersJoined
    <2>1. Len(stack) = 0
      BY EmptySeq DEF IndInv, Discipline, StackInv
    <2>2. agent[m] = "closed"
      BY <2>1 DEF IndInv, TypeOK, Discipline, OwnerInv
    <2> QED
      BY <2>2 DEF IndInv, Discipline, LoggerInv, InClose
  <1> QED
    BY InvInit, InvStep, <1>1, PTL DEF Spec
=============================================================================
