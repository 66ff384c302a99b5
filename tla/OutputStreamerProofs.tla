------------------------ MODULE OutputStreamerProofs ------------------------
(***************************************************************************)
(* Proofs about OutputStreamer, for every set of streams, every length of  *)
(* what QEMU writes and every size of the pipes and buffers.               *)
(***************************************************************************)
EXTENDS OutputStreamer, SequenceTheorems, TLAPS

(***************************************************************************)
(* The inductive invariant.  The properties speak of what was printed;     *)
(* what makes them inductive is how it fits together with the line so far  *)
(* and the byte the reader is at.  It is stated over values (w is what was *)
(* written, a how much of it was handled, b the line so far, o the lines   *)
(* printed), so that a step is a lemma about sequences.                    *)
(***************************************************************************)
Line == Seq(Nat \ {0})

Elems(l) == {l[i] : i \in DOMAIN l}

PrintedOf(o) == UNION {Elems(l) : l \in {o[n] : n \in DOMAIN o}}

Seen(w, p) == w[p] = "text" /\ ~ (p > 1 /\ w[p - 1] = "esc")

Nl(w, p, q) == \E r \in p + 1 .. q - 1 : w[r] = "nl"

(* An escape sequence is closed by the byte after its start.               *)
WellFormed(w) == \A p \in 1 .. Len(w) - 1 : w[p] = "esc" => w[p + 1] = "text"

(* Bytes: an open escape sequence is the last byte handled; what is        *)
(* visible of the bytes handled is printed or in the line so far, which    *)
(* comes after all that is printed.                                        *)
Bytes(w, a, pnd, b, o) ==
  /\ pnd = IF a > 0 /\ w[a] = "esc" THEN a ELSE 0
  /\ \A p \in Elems(b) \cup PrintedOf(o) : p \in 1 .. a /\ Seen(w, p)
  /\ \A q \in 1 .. a : Seen(w, q) => q \in Elems(b) \cup PrintedOf(o)
  /\ \A p \in PrintedOf(o), q \in Elems(b) : p < q

(* Lines: the bytes of a line are in order with no newline between them,   *)
(* and a line follows another after a newline, or after a long line.       *)
Whole(w, l) ==
  \A i \in 1 .. Len(l) - 1 : l[i] < l[i + 1] /\ ~ Nl(w, l[i], l[i + 1])

Last(l) == l[Len(l)]

Follows(w, l, m) ==
  Last(l) < m[1] /\ (Nl(w, Last(l), m[1]) \/ Len(l) > LineCap)

LinesOut(w, o) ==
  /\ \A n \in 1 .. Len(o) : o[n] # <<>> /\ Whole(w, o[n])
  /\ \A n \in 1 .. Len(o) - 1 : Follows(w, o[n], o[n + 1])

(* The line so far holds all since the last newline, or follows a line     *)
(* that was printed without one.                                           *)
LineSoFar(w, a, b, o) ==
  /\ Whole(w, b)
  /\ b # <<>> => ~ Nl(w, Last(b), a + 1)
  /\ o # <<>> => LET l == o[Len(o)] IN
       IF b # <<>> THEN Follows(w, l, b)
       ELSE Nl(w, Last(l), a + 1) \/ Len(l) > LineCap

Reading(w, a, pnd, b, o) ==
  Bytes(w, a, pnd, b, o) /\ LinesOut(w, o) /\ LineSoFar(w, a, b, o)

(* A reader that is done has printed the start of an escape sequence at    *)
(* most besides what is visible.                                           *)
Finished(w, a, o) ==
  /\ \A p \in PrintedOf(o) : /\ p \in 1 .. a
                             /\ Seen(w, p) \/ (w[p] = "esc" /\ p = a)
  /\ \A q \in 1 .. a : Seen(w, q) => q \in PrintedOf(o)
  /\ LinesOut(w, o)

StreamInv(s) ==
  kind[s] = "AttachTagged" =>
    /\ \/ /\ reader[s] = "reading"
          /\ Reading(written[s], at[s], pending[s], lineBuf[s], out[s])
       \/ /\ reader[s] = "done"
          /\ at[s] = got[s]
          /\ Finished(written[s], at[s], out[s])
    /\ mode = "tagged" /\ reader[s] = "done" =>
         qemu = "exited" /\ got[s] = Len(written[s])

(* Run in tagged mode closes the pipes after its readers.                  *)
RunInv ==
  mode = "tagged" =>
    /\ main # "drain" => \A s \in Streams : reader[s] # "reading"
    /\ main = "drain" => readEnds = "open"

IndInv ==
  /\ TypeOK
  /\ \A s \in Streams : WellFormed(written[s]) /\ StreamInv(s)
  /\ RunInv

-----------------------------------------------------------------------------
(***************************************************************************)
(* Facts about the lines that AttachTagged builds and prints.              *)
(***************************************************************************)
LEMMA Appended ==
  ASSUME NEW S, NEW s \in Seq(S), NEW e \in S
  PROVE  /\ Append(s, e) \in Seq(S)
         /\ Append(s, e) # <<>>
         /\ Len(s) \in Nat
         /\ DOMAIN s = 1 .. Len(s)
         /\ DOMAIN Append(s, e) = 1 .. Len(s) + 1
         /\ Len(Append(s, e)) = Len(s) + 1
         /\ \A i \in 1 .. Len(s) : Append(s, e)[i] = s[i]
         /\ Append(s, e)[Len(s) + 1] = e
  BY AppendProperties, LenProperties

(***************************************************************************)
(* The same for a position put at the end of a line.                       *)
(***************************************************************************)
LEMMA LineAppended ==
  ASSUME NEW b \in Line, NEW e \in Nat \ {0}
  PROVE  /\ Append(b, e) \in Line
         /\ Append(b, e) # <<>>
         /\ Len(b) \in Nat
         /\ Len(Append(b, e)) = Len(b) + 1
         /\ \A i \in 1 .. Len(b) : Append(b, e)[i] = b[i]
         /\ Append(b, e)[Len(b) + 1] = e
  BY Appended DEF Line

(***************************************************************************)
(* A byte put into the line is what the line gains.                        *)
(***************************************************************************)
LEMMA ElemsAppend ==
  ASSUME NEW b \in Line, NEW e \in Nat \ {0}
  PROVE  Elems(Append(b, e)) = Elems(b) \cup {e}
  <1>1. b \in Seq(Nat \ {0})
    BY DEF Line
  <1> DEFINE t == Append(b, e)
             n == Len(b)
  <1>2. /\ n \in Nat /\ DOMAIN b = 1 .. n /\ DOMAIN t = 1 .. n + 1
        /\ \A i \in 1 .. n : t[i] = b[i]
        /\ t[n + 1] = e
    BY <1>1, Appended
  <1> HIDE DEF t, n
  <1>3. Elems(t) \subseteq Elems(b) \cup {e}
    BY <1>2 DEF Elems
  <1>4. e \in Elems(t)
    BY <1>2 DEF Elems
  <1>5. ASSUME NEW x \in Elems(b) PROVE x \in Elems(t)
    <2>1. PICK i \in 1 .. n : x = b[i]
      BY <1>2, <1>5 DEF Elems
    <2>2. i \in 1 .. n + 1
      BY <1>2
    <2> QED
      BY <1>2, <2>1, <2>2 DEF Elems
  <1> QED
    BY <1>3, <1>4, <1>5 DEF t

(***************************************************************************)
(* A line that is printed is what the output gains.                        *)
(***************************************************************************)
LEMMA PrintedAppend ==
  ASSUME NEW o \in Seq(Line), NEW l \in Line
  PROVE  PrintedOf(Append(o, l)) = PrintedOf(o) \cup Elems(l)
  <1> DEFINE t == Append(o, l)
             n == Len(o)
  <1>2. /\ n \in Nat /\ DOMAIN o = 1 .. n /\ DOMAIN t = 1 .. n + 1
        /\ \A i \in 1 .. n : t[i] = o[i]
        /\ t[n + 1] = l
    BY Appended
  <1> HIDE DEF t, n
  <1>3. ASSUME NEW x \in PrintedOf(t) PROVE x \in PrintedOf(o) \cup Elems(l)
    <2>1. PICK i \in 1 .. n + 1 : x \in Elems(t[i])
      BY <1>2, <1>3 DEF PrintedOf
    <2> QED
      BY <1>2, <2>1 DEF PrintedOf
  <1>4. ASSUME NEW x \in Elems(l) PROVE x \in PrintedOf(t)
    <2>1. n + 1 \in 1 .. n + 1
      BY <1>2
    <2> QED
      BY <1>2, <1>4, <2>1 DEF PrintedOf
  <1>5. ASSUME NEW x \in PrintedOf(o) PROVE x \in PrintedOf(t)
    <2>1. PICK i \in 1 .. n : x \in Elems(o[i])
      BY <1>2, <1>5 DEF PrintedOf
    <2>2. i \in 1 .. n + 1
      BY <1>2
    <2> QED
      BY <1>2, <2>1, <2>2 DEF PrintedOf
  <1> QED
    BY <1>3, <1>4, <1>5 DEF t

(***************************************************************************)
(* A function keeps its type when one of its values is replaced.           *)
(***************************************************************************)
LEMMA Updated ==
  ASSUME NEW S, NEW T, NEW f \in [S -> T], NEW x \in S, NEW v \in T
  PROVE  [f EXCEPT ![x] = v] \in [S -> T]
  OBVIOUS

(***************************************************************************)
(* An empty line holds no byte.                                            *)
(***************************************************************************)
LEMMA ElemsEmpty == Elems(<<>>) = {} /\ <<>> \in Line /\ Len(<<>>) = 0
  <1>1. DOMAIN <<>> = {}
    OBVIOUS
  <1>2. <<>> \in Line /\ Len(<<>>) = 0
    BY EmptySeq DEF Line
  <1> QED
    BY <1>1, <1>2 DEF Elems

(***************************************************************************)
(* A line that is not empty has a first and a last byte.                   *)
(***************************************************************************)
LEMMA LineEnds ==
  ASSUME NEW b \in Line, b # <<>>
  PROVE  /\ Len(b) \in Nat \ {0}
         /\ Last(b) \in Elems(b) /\ Last(b) \in Nat \ {0}
         /\ b[1] \in Elems(b) /\ b[1] \in Nat \ {0}
         /\ \A i \in 1 .. Len(b) : b[i] \in Elems(b) /\ b[i] \in Nat \ {0}
  <1>1. b \in Seq(Nat \ {0})
    BY DEF Line
  <1>2. Len(b) \in Nat \ {0} /\ DOMAIN b = 1 .. Len(b)
    BY <1>1, EmptySeq, LenProperties
  <1>3. \A i \in 1 .. Len(b) : b[i] \in Nat \ {0}
    BY <1>1, ElementOfSeq
  <1>4. 1 \in 1 .. Len(b) /\ Len(b) \in 1 .. Len(b)
    BY <1>2
  <1> QED
    BY <1>2, <1>3, <1>4 DEF Elems, Last

(***************************************************************************)
(* The last byte of the last line printed was printed.                     *)
(***************************************************************************)
LEMMA LastPrinted ==
  ASSUME NEW w, NEW o \in Seq(Line), o # <<>>, LinesOut(w, o)
  PROVE  LET l == o[Len(o)] IN
         /\ Len(o) \in Nat \ {0}
         /\ l \in Line /\ l # <<>>
         /\ Last(l) \in PrintedOf(o) /\ Last(l) \in Nat \ {0}
  <1>1. Len(o) \in Nat \ {0} /\ DOMAIN o = 1 .. Len(o)
    BY EmptySeq, LenProperties
  <1>2. Len(o) \in 1 .. Len(o)
    BY <1>1
  <1>3. o[Len(o)] \in Line /\ o[Len(o)] # <<>>
    BY <1>2, ElementOfSeq DEF LinesOut
  <1>4. Last(o[Len(o)]) \in Elems(o[Len(o)]) /\ Last(o[Len(o)]) \in Nat \ {0}
    BY <1>3, LineEnds
  <1>5. Last(o[Len(o)]) \in PrintedOf(o)
    BY <1>1, <1>2, <1>4 DEF PrintedOf
  <1> QED
    BY <1>1, <1>3, <1>4, <1>5

-----------------------------------------------------------------------------
(***************************************************************************)
(* A byte of text goes into the line (process_manager.go, AttachTagged).   *)
(***************************************************************************)
LEMMA TextByte ==
  ASSUME NEW w \in Seq(Byte), NEW a \in Nat, a < Len(w), w[a + 1] = "text",
         NEW b \in Line, NEW o \in Seq(Line), Reading(w, a, 0, b, o)
  PROVE  Reading(w, a + 1, 0, Append(b, a + 1), o)
  <1> DEFINE t == Append(b, a + 1)
  <1>1. Elems(t) = Elems(b) \cup {a + 1}
    BY ElemsAppend
  <1>2. Seen(w, a + 1)
    BY DEF Reading, Bytes, Seen
  <1>3. Bytes(w, a + 1, 0, t, o)
    <2> HIDE DEF t
    <2>1. \A p \in Elems(t) \cup PrintedOf(o) : p \in 1 .. a + 1 /\ Seen(w, p)
      BY <1>1, <1>2 DEF Reading, Bytes
    <2>2. \A q \in 1 .. a + 1 : Seen(w, q) => q \in Elems(t) \cup PrintedOf(o)
      BY <1>1 DEF Reading, Bytes
    <2>3. \A p \in PrintedOf(o), q \in Elems(t) : p < q
      BY <1>1 DEF Reading, Bytes
    <2> QED
      BY <2>1, <2>2, <2>3 DEF Bytes
  <1>4. /\ Len(b) \in Nat /\ Len(t) = Len(b) + 1 /\ t # <<>>
        /\ \A i \in 1 .. Len(b) : t[i] = b[i]
        /\ t[Len(b) + 1] = a + 1
    <2>1. a + 1 \in Nat \ {0}
      OBVIOUS
    <2> QED
      BY <2>1, LineAppended, Zenon
  <1> HIDE DEF t
  <1>5. Whole(w, t)
    <2> SUFFICES ASSUME NEW i \in 1 .. Len(t) - 1
                 PROVE  t[i] < t[i + 1] /\ ~ Nl(w, t[i], t[i + 1])
        BY DEF Whole
    <2>1. CASE i \in 1 .. Len(b) - 1
      BY <1>4, <2>1 DEF Reading, LineSoFar, Whole
    <2>2. CASE i = Len(b)
      <3>1. b # <<>> /\ t[i] = Last(b) /\ t[i + 1] = a + 1
        BY <1>4, <2>2, ElemsEmpty DEF Last
      <3>2. Last(b) \in 1 .. a
        BY <3>1, LineEnds DEF Reading, Bytes
      <3> QED
        BY <3>1, <3>2 DEF Reading, LineSoFar
    <2> QED
      BY <1>4, <2>1, <2>2
  <1>6. ~ Nl(w, Last(t), a + 1 + 1)
    BY <1>4 DEF Nl, Last
  <1>7. ASSUME o # <<>> PROVE Follows(w, o[Len(o)], t)
    <2> DEFINE l == o[Len(o)]
    <2>1. Last(l) \in PrintedOf(o)
      BY <1>7, LastPrinted DEF Reading
    <2>2. CASE b # <<>>
      <3>1. t[1] = b[1] /\ Follows(w, l, b)
        BY <1>4, <1>7, <2>2, LineEnds DEF Reading, LineSoFar
      <3> QED
        BY <3>1 DEF Follows
    <2>3. CASE b = <<>>
      <3>1. t[1] = a + 1
        BY <1>4, <2>3, ElemsEmpty
      <3>2. Nl(w, Last(l), a + 1) \/ Len(l) > LineCap
        BY <1>7, <2>3 DEF Reading, LineSoFar
      <3>3. Last(l) < a + 1
        BY <2>1 DEF Reading, Bytes
      <3> QED
        BY <3>1, <3>2, <3>3 DEF Follows
    <2> QED
      BY <2>2, <2>3
  <1>8. LineSoFar(w, a + 1, t, o)
    BY <1>4, <1>5, <1>6, <1>7 DEF LineSoFar
  <1> QED
    BY <1>3, <1>8 DEF Reading, t

(***************************************************************************)
(* A byte of an escape sequence changes neither the line nor the output;   *)
(* whether it leaves one open is remembered.                               *)
(***************************************************************************)
LEMMA EscapeByte ==
  ASSUME NEW w \in Seq(Byte), NEW a \in Nat, a < Len(w), w[a + 1] # "nl",
         ~ Seen(w, a + 1), NEW pnd,
         NEW b \in Line, NEW o \in Seq(Line), Reading(w, a, pnd, b, o)
  PROVE  Reading(w, a + 1, IF w[a + 1] = "esc" THEN a + 1 ELSE 0, b, o)
  <1>1. Bytes(w, a + 1, IF w[a + 1] = "esc" THEN a + 1 ELSE 0, b, o)
    <2>1. \A p \in Elems(b) \cup PrintedOf(o) : p \in 1 .. a + 1 /\ Seen(w, p)
      BY DEF Reading, Bytes
    <2>2. \A q \in 1 .. a + 1 : Seen(w, q) => q \in Elems(b) \cup PrintedOf(o)
      BY DEF Reading, Bytes
    <2> QED
      BY <2>1, <2>2 DEF Reading, Bytes
  <1>2. ASSUME b # <<>> PROVE ~ Nl(w, Last(b), a + 1 + 1)
    BY <1>2, LineEnds DEF Reading, LineSoFar, Nl
  <1>3. ASSUME o # <<>>, b = <<>>
        PROVE  LET l == o[Len(o)] IN Nl(w, Last(l), a + 1 + 1) \/ Len(l) > LineCap
    <2>1. Last(o[Len(o)]) \in Nat
      BY <1>3, LastPrinted DEF Reading
    <2> QED
      BY <1>3, <2>1 DEF Reading, LineSoFar, Nl
  <1>4. LineSoFar(w, a + 1, b, o)
    BY <1>2, <1>3 DEF Reading, LineSoFar
  <1> QED
    BY <1>1, <1>4 DEF Reading

(***************************************************************************)
(* A line that is printed joins the output.                                *)
(***************************************************************************)
LEMMA LineJoins ==
  ASSUME NEW w, NEW o \in Seq(Line), LinesOut(w, o), NEW b \in Line, b # <<>>,
         Whole(w, b), o # <<>> => Follows(w, o[Len(o)], b)
  PROVE  /\ LinesOut(w, Append(o, b))
         /\ Append(o, b) # <<>>
         /\ Append(o, b)[Len(Append(o, b))] = b
  <1> DEFINE t == Append(o, b)
             n == Len(o)
  <1>1. /\ n \in Nat /\ Len(t) = n + 1 /\ t # <<>>
        /\ \A i \in 1 .. n : t[i] = o[i]
        /\ t[n + 1] = b
    BY Appended
  <1>2. n # 0 => o # <<>>
    BY ElemsEmpty
  <1> HIDE DEF t
  <1>3. \A i \in 1 .. Len(t) : t[i] # <<>> /\ Whole(w, t[i])
    BY <1>1 DEF LinesOut
  <1>4. ASSUME NEW i \in 1 .. Len(t) - 1 PROVE Follows(w, t[i], t[i + 1])
    <2>1. CASE i \in 1 .. n - 1
      BY <1>1, <2>1 DEF LinesOut
    <2>2. CASE i = n
      BY <1>1, <1>2, <2>2
    <2> QED
      BY <1>1, <2>1, <2>2
  <1> QED
    BY <1>1, <1>3, <1>4 DEF LinesOut, t

(***************************************************************************)
(* Printing the line so far loses and repeats no byte.                     *)
(***************************************************************************)
LEMMA BytesMove ==
  ASSUME NEW w, NEW a \in Nat, NEW pnd, NEW b \in Line, NEW o \in Seq(Line),
         Bytes(w, a, pnd, b, o)
  PROVE  Bytes(w, a, pnd, <<>>, Append(o, b))
  <1>1. PrintedOf(Append(o, b)) = PrintedOf(o) \cup Elems(b)
    BY PrintedAppend
  <1> QED
    BY <1>1, ElemsEmpty DEF Bytes

(***************************************************************************)
(* A long rest of a chunk is printed without a newline.                    *)
(***************************************************************************)
LEMMA LongLine ==
  ASSUME NEW w, NEW a \in Nat, NEW pnd, NEW b \in Line, NEW o \in Seq(Line),
         Len(b) > LineCap, b # <<>>, Reading(w, a, pnd, b, o)
  PROVE  Reading(w, a, pnd, <<>>, Append(o, b))
  <1>1. /\ LinesOut(w, Append(o, b))
        /\ Append(o, b)[Len(Append(o, b))] = b
    BY LineJoins DEF Reading, LineSoFar
  <1>2. Whole(w, <<>>)
    BY ElemsEmpty DEF Whole
  <1>3. LineSoFar(w, a, <<>>, Append(o, b))
    BY <1>1, <1>2 DEF LineSoFar
  <1> QED
    BY <1>1, <1>3, BytesMove DEF Reading

(***************************************************************************)
(* A newline ends the line; an empty one is not printed.                   *)
(***************************************************************************)
LEMMA NewlineByte ==
  ASSUME NEW w \in Seq(Byte), NEW a \in Nat, a < Len(w), w[a + 1] = "nl",
         NEW b \in Line, NEW o \in Seq(Line), Reading(w, a, 0, b, o)
  PROVE  Reading(w, a + 1, 0, <<>>, IF b # <<>> THEN Append(o, b) ELSE o)
  <1> DEFINE t == IF b # <<>> THEN Append(o, b) ELSE o
  <1>1. t \in Seq(Line)
    BY AppendProperties
  <1>2. Bytes(w, a, 0, <<>>, t) /\ LinesOut(w, t)
    <2>1. CASE b # <<>>
      BY <2>1, BytesMove, LineJoins DEF Reading, LineSoFar
    <2>2. CASE b = <<>>
      BY <2>2 DEF Reading
    <2> QED
      BY <2>1, <2>2
  <1> HIDE DEF t
  <1>3. Bytes(w, a + 1, 0, <<>>, t)
    <2>1. ~ Seen(w, a + 1)
      BY DEF Seen
    <2>2. \A q \in 1 .. a + 1 : Seen(w, q) => q \in Elems(<<>>) \cup PrintedOf(t)
      BY <1>2, <2>1 DEF Bytes
    <2>3. \A p \in Elems(<<>>) \cup PrintedOf(t) : p \in 1 .. a + 1 /\ Seen(w, p)
      BY <1>2 DEF Bytes
    <2> QED
      BY <1>2, <2>2, <2>3 DEF Bytes
  <1>4. Whole(w, <<>>)
    BY ElemsEmpty DEF Whole
  <1>5. ASSUME t # <<>> PROVE Nl(w, Last(t[Len(t)]), a + 1 + 1)
    <2>1. Last(t[Len(t)]) \in 1 .. a
      BY <1>1, <1>2, <1>5, LastPrinted DEF Bytes
    <2> QED
      BY <2>1 DEF Nl
  <1>6. LineSoFar(w, a + 1, <<>>, t)
    BY <1>4, <1>5 DEF LineSoFar
  <1> QED
    BY <1>2, <1>3, <1>6 DEF Reading, t

(***************************************************************************)
(* At its end AttachTagged prints what is left, the start of an escape     *)
(* sequence as it is.                                                      *)
(***************************************************************************)
LEMMA LastLine ==
  ASSUME NEW w, NEW a \in Nat, NEW pnd \in Nat, NEW b \in Line, NEW o \in Seq(Line),
         Reading(w, a, pnd, b, o), NEW line, NEW shown,
         pnd # 0 => line = Append(b, pnd), pnd = 0 => line = b,
         line # <<>> => shown = Append(o, line), line = <<>> => shown = o
  PROVE  Finished(w, a, shown)
  <1> USE DEF Reading
  <1>1. CASE pnd = 0
    <2>1. CASE b = <<>>
      BY <1>1, <2>1, ElemsEmpty DEF Bytes, Finished
    <2>2. CASE b # <<>>
      <3>1. PrintedOf(Append(o, b)) = PrintedOf(o) \cup Elems(b)
        BY PrintedAppend
      <3>2. LinesOut(w, Append(o, b))
        BY <2>2, LineJoins DEF LineSoFar
      <3> QED
        BY <1>1, <2>2, <3>1, <3>2 DEF Bytes, Finished
    <2> QED
      BY <2>1, <2>2
  <1>2. CASE pnd # 0
    <2>1. pnd = a /\ a > 0 /\ w[a] = "esc" /\ ~ Seen(w, a)
      BY <1>2 DEF Bytes, Seen
    <2>2. /\ line = Append(b, a) /\ line \in Line /\ line # <<>>
          /\ Len(b) \in Nat /\ Len(line) = Len(b) + 1
          /\ \A i \in 1 .. Len(b) : line[i] = b[i]
          /\ line[Len(b) + 1] = a
      <3>1. line = Append(b, a)
        BY <1>2, <2>1
      <3>2. a \in Nat \ {0}
        BY <2>1
      <3> QED
        BY <3>1, <3>2, LineAppended
    <2>3. Elems(line) = Elems(b) \cup {a}
      BY <2>1, <2>2, ElemsAppend
    <2>4. PrintedOf(Append(o, line)) = PrintedOf(o) \cup Elems(b) \cup {a}
      BY <2>2, <2>3, PrintedAppend
    <2>5. \A p \in Elems(b) \cup PrintedOf(o) : p \in 1 .. a - 1
      BY <2>1 DEF Bytes
    <2>6. Whole(w, line)
      <3> SUFFICES ASSUME NEW i \in 1 .. Len(line) - 1
                   PROVE  line[i] < line[i + 1] /\ ~ Nl(w, line[i], line[i + 1])
          BY DEF Whole
      <3>1. CASE i \in 1 .. Len(b) - 1
        BY <2>2, <3>1 DEF LineSoFar, Whole
      <3>2. CASE i = Len(b)
        <4>1. b # <<>> /\ line[i] = Last(b) /\ line[i + 1] = a
          BY <2>2, <3>2, ElemsEmpty DEF Last
        <4>2. Last(b) \in 1 .. a - 1
          BY <2>5, <4>1, LineEnds
        <4> QED
          BY <4>1, <4>2 DEF LineSoFar, Nl
      <3> QED
        BY <2>2, <3>1, <3>2
    <2>7. ASSUME o # <<>> PROVE Follows(w, o[Len(o)], line)
      <3> DEFINE l == o[Len(o)]
      <3>1. Last(l) \in 1 .. a - 1
        BY <2>5, <2>7, LastPrinted
      <3>2. CASE b # <<>>
        <4>1. line[1] = b[1] /\ Follows(w, l, b)
          BY <2>2, <2>7, <3>2, LineEnds DEF LineSoFar
        <4> QED
          BY <4>1 DEF Follows
      <3>3. CASE b = <<>>
        <4>1. line[1] = a
          BY <2>2, <3>3, ElemsEmpty
        <4>2. Nl(w, Last(l), a + 1) \/ Len(l) > LineCap
          BY <2>7, <3>3 DEF LineSoFar
        <4>3. Nl(w, Last(l), a + 1) => Nl(w, Last(l), a)
          BY <2>1, <3>1 DEF Nl
        <4> QED
          BY <3>1, <4>1, <4>2, <4>3 DEF Follows
      <3> QED
        BY <3>2, <3>3
    <2>8. LinesOut(w, Append(o, line))
      BY <2>2, <2>6, <2>7, LineJoins
    <2>9. shown = Append(o, line)
      BY <2>2
    <2> QED
      BY <2>1, <2>4, <2>8, <2>9 DEF Bytes, Finished
  <1> QED
    BY <1>1, <1>2

-----------------------------------------------------------------------------
(***************************************************************************)
(* What QEMU writes later changes nothing about the bytes handled so far.  *)
(***************************************************************************)
LEMMA SeenBefore ==
  ASSUME NEW w, NEW v, NEW a \in Nat, \A p \in 1 .. a : v[p] = w[p],
         NEW p \in 1 .. a
  PROVE  Seen(v, p) <=> Seen(w, p)
  <1>1. p > 1 => p - 1 \in 1 .. a
    OBVIOUS
  <1> QED
    BY <1>1 DEF Seen

(***************************************************************************)
(* Nor about the newlines between them.                                    *)
(***************************************************************************)
LEMMA NlBefore ==
  ASSUME NEW w, NEW v, NEW a \in Nat, \A p \in 1 .. a : v[p] = w[p],
         NEW p \in Nat, NEW q \in 1 .. a + 1
  PROVE  Nl(v, p, q) <=> Nl(w, p, q)
  <1>1. \A r \in p + 1 .. q - 1 : r \in 1 .. a
    OBVIOUS
  <1> QED
    BY <1>1 DEF Nl

(***************************************************************************)
(* Nor about the lines printed.                                            *)
(***************************************************************************)
LEMMA LinesBefore ==
  ASSUME NEW w, NEW v, NEW a \in Nat, \A p \in 1 .. a : v[p] = w[p],
         NEW o \in Seq(Line), \A p \in PrintedOf(o) : p \in 1 .. a,
         LinesOut(w, o)
  PROVE  LinesOut(v, o)
  <1>0. \A p \in Nat, q \in 1 .. a + 1 : Nl(v, p, q) <=> Nl(w, p, q)
    BY NlBefore
  <1>1. ASSUME NEW n \in 1 .. Len(o)
        PROVE  /\ o[n] \in Line /\ o[n] # <<>> /\ Len(o[n]) \in Nat \ {0}
               /\ \A i \in 1 .. Len(o[n]) : o[n][i] \in 1 .. a
    <2>1. o[n] \in Line /\ o[n] # <<>>
      BY ElementOfSeq DEF LinesOut
    <2>2. Elems(o[n]) \subseteq PrintedOf(o)
      BY LenProperties DEF PrintedOf
    <2> QED
      BY <2>1, <2>2, LineEnds
  <1>2. ASSUME NEW n \in 1 .. Len(o) PROVE Whole(v, o[n])
    <2>1. ASSUME NEW i \in 1 .. Len(o[n]) - 1
          PROVE  o[n][i] < o[n][i + 1] /\ ~ Nl(v, o[n][i], o[n][i + 1])
      <3>1. o[n][i] \in Nat /\ o[n][i + 1] \in 1 .. a + 1
        BY <1>1
      <3>2. o[n][i] < o[n][i + 1] /\ ~ Nl(w, o[n][i], o[n][i + 1])
        BY DEF LinesOut, Whole
      <3> QED
        BY <1>0, <3>1, <3>2
    <2> QED
      BY <2>1 DEF Whole
  <1>3. ASSUME NEW n \in 1 .. Len(o) - 1 PROVE Follows(v, o[n], o[n + 1])
    <2>0. n \in 1 .. Len(o) /\ n + 1 \in 1 .. Len(o)
      BY LenProperties
    <2>1. Last(o[n]) \in Nat /\ o[n + 1][1] \in 1 .. a + 1
      BY <1>1, <2>0 DEF Last
    <2>2. Follows(w, o[n], o[n + 1])
      BY DEF LinesOut
    <2> QED
      BY <1>0, <2>1, <2>2 DEF Follows
  <1> QED
    BY <1>1, <1>2, <1>3 DEF LinesOut

(***************************************************************************)
(* So a reader keeps its invariant while QEMU writes.                      *)
(***************************************************************************)
LEMMA ReadingBefore ==
  ASSUME NEW w, NEW v, NEW a \in Nat, \A p \in 1 .. a : v[p] = w[p],
         NEW pnd, NEW b \in Line, NEW o \in Seq(Line), Reading(w, a, pnd, b, o)
  PROVE  Reading(v, a, pnd, b, o)
  <1>0. \A p \in Nat, q \in 1 .. a + 1 : Nl(v, p, q) <=> Nl(w, p, q)
    BY NlBefore
  <1>1. \A p \in 1 .. a : Seen(v, p) <=> Seen(w, p)
    BY SeenBefore
  <1>2. Bytes(v, a, pnd, b, o)
    <2>1. a > 0 => v[a] = w[a]
      OBVIOUS
    <2>2. \A p \in Elems(b) \cup PrintedOf(o) : p \in 1 .. a /\ Seen(v, p)
      BY <1>1 DEF Reading, Bytes
    <2> QED
      BY <1>1, <2>1, <2>2 DEF Reading, Bytes
  <1>3. LinesOut(v, o)
    BY LinesBefore DEF Reading, Bytes
  <1>4. Whole(v, b)
    <2> SUFFICES ASSUME NEW i \in 1 .. Len(b) - 1
                 PROVE  b[i] < b[i + 1] /\ ~ Nl(v, b[i], b[i + 1])
        BY DEF Whole
    <2>1. b # <<>>
      BY ElemsEmpty
    <2>2. b[i] \in Nat /\ b[i + 1] \in 1 .. a + 1
      BY <2>1, LineEnds DEF Reading, Bytes
    <2>3. b[i] < b[i + 1] /\ ~ Nl(w, b[i], b[i + 1])
      BY DEF Reading, LineSoFar, Whole
    <2> QED
      BY <1>0, <2>2, <2>3
  <1>5. ASSUME b # <<>> PROVE ~ Nl(v, Last(b), a + 1)
    <2>1. Last(b) \in Nat /\ ~ Nl(w, Last(b), a + 1) /\ a + 1 \in 1 .. a + 1
      BY <1>5, LineEnds DEF Reading, LineSoFar
    <2> QED
      BY <1>0, <2>1
  <1>6. ASSUME o # <<>>
        PROVE  LET l == o[Len(o)] IN
               IF b # <<>> THEN Follows(v, l, b)
               ELSE Nl(v, Last(l), a + 1) \/ Len(l) > LineCap
    <2> DEFINE l == o[Len(o)]
    <2>1. Last(l) \in Nat /\ a + 1 \in 1 .. a + 1
      BY <1>6, LastPrinted DEF Reading
    <2>2. CASE b # <<>>
      <3>1. b[1] \in 1 .. a + 1 /\ Follows(w, l, b)
        BY <1>6, <2>2, LineEnds DEF Reading, Bytes, LineSoFar
      <3> QED
        BY <1>0, <2>1, <2>2, <3>1 DEF Follows
    <2>3. CASE b = <<>>
      <3>1. Nl(w, Last(l), a + 1) \/ Len(l) > LineCap
        BY <1>6, <2>3 DEF Reading, LineSoFar
      <3> QED
        BY <1>0, <2>1, <2>3, <3>1
    <2> QED
      BY <2>2, <2>3
  <1>7. LineSoFar(v, a, b, o)
    BY <1>4, <1>5, <1>6 DEF LineSoFar
  <1> QED
    BY <1>2, <1>3, <1>7 DEF Reading

(***************************************************************************)
(* And so does one that is done.                                           *)
(***************************************************************************)
LEMMA FinishedBefore ==
  ASSUME NEW w, NEW v, NEW a \in Nat, \A p \in 1 .. a : v[p] = w[p],
         NEW o \in Seq(Line), Finished(w, a, o)
  PROVE  Finished(v, a, o)
  <1>1. \A p \in 1 .. a : Seen(v, p) <=> Seen(w, p)
    BY SeenBefore
  <1>2. LinesOut(v, o)
    BY LinesBefore DEF Finished
  <1> QED
    BY <1>1, <1>2 DEF Finished

-----------------------------------------------------------------------------
(***************************************************************************)
(* The invariant holds before QEMU has written anything.                   *)
(***************************************************************************)
LEMMA InvInit == Init => IndInv
  <1> SUFFICES ASSUME Init PROVE IndInv
      OBVIOUS
  <1>1. <<>> \in Seq(Byte) /\ <<>> \in Line /\ <<>> \in Seq(Line) /\ Len(<<>>) = 0
    BY EmptySeq DEF Line
  <1>2. TypeOK
    BY <1>1 DEF Init, TypeOK, Line
  <1>3. Elems(<<>>) = {} /\ PrintedOf(<<>>) = {}
    BY ElemsEmpty DEF PrintedOf
  <1>4. Reading(<<>>, 0, 0, <<>>, <<>>)
    BY <1>1, <1>3 DEF Reading, Bytes, LinesOut, LineSoFar, Whole
  <1>5. \A s \in Streams : WellFormed(written[s]) /\ StreamInv(s)
    <2> SUFFICES ASSUME NEW s \in Streams
                 PROVE  WellFormed(written[s]) /\ StreamInv(s)
        OBVIOUS
    <2>1. /\ written[s] = <<>> /\ at[s] = 0 /\ pending[s] = 0
          /\ lineBuf[s] = <<>> /\ out[s] = <<>> /\ reader[s] = "reading"
      BY DEF Init
    <2>2. WellFormed(<<>>)
      BY <1>1 DEF WellFormed
    <2> QED
      BY <1>4, <2>1, <2>2 DEF StreamInv
  <1>6. RunInv
    BY DEF Init, RunInv
  <1> QED
    BY <1>2, <1>5, <1>6 DEF IndInv

(***************************************************************************)
(* What one byte makes of the line and the output is a line and an output. *)
(***************************************************************************)
LEMMA HandleTypes ==
  ASSUME TypeOK, NEW s \in Streams
  PROVE  /\ LineAfter(s) \in Line
         /\ LinesAfter(s) \in Seq(Line)
         /\ Append(LinesAfter(s), LineAfter(s)) \in Seq(Line)
         /\ PendingAfter(s) \in Nat
  <1>1. lineBuf[s] \in Line /\ out[s] \in Seq(Line) /\ at[s] + 1 \in Nat \ {0}
    BY DEF TypeOK, Line
  <1>2. Append(lineBuf[s], at[s] + 1) \in Line
    BY <1>1, LineAppended, Zenon
  <1>3. LineAfter(s) \in Line
    BY <1>1, <1>2, ElemsEmpty DEF LineAfter
  <1>4. LinesAfter(s) \in Seq(Line)
    BY <1>1, AppendProperties DEF LinesAfter
  <1>5. PendingAfter(s) \in Nat
    BY <1>1 DEF PendingAfter
  <1> QED
    BY <1>3, <1>4, <1>5, AppendProperties

(***************************************************************************)
(* Every step of QEMU, of the readers and of Run keeps every variable in   *)
(* its domain.                                                             *)
(***************************************************************************)
LEMMA TypeStep == TypeOK /\ [Next]_vars => TypeOK'
  <1> SUFFICES ASSUME TypeOK, [Next]_vars PROVE TypeOK'
      OBVIOUS
  <1> USE DEF readerVars, AtRead, InPipe
  <1>1. ASSUME NEW s \in Streams, Write(s) PROVE TypeOK'
    <2>1. PICK b \in Byte : written' = [written EXCEPT ![s] = Append(@, b)]
      BY <1>1 DEF Write
    <2>2. /\ Append(written[s], b) \in Seq(Byte)
          /\ Len(Append(written[s], b)) = Len(written[s]) + 1
          /\ Len(written[s]) \in Nat
      BY AppendProperties, LenProperties DEF TypeOK
    <2>3. written' \in [Streams -> Seq(Byte)]
      BY <2>1, <2>2 DEF TypeOK
    <2>4. \A r \in Streams : at'[r] <= got'[r] /\ got'[r] <= Len(written'[r])
      BY <1>1, <2>1, <2>2 DEF Write, TypeOK
    <2> QED
      BY <1>1, <2>3, <2>4 DEF Write, TypeOK
  <1>2. ASSUME NEW s \in Streams, Read(s) PROVE TypeOK'
    <2>1. PICK n \in 1 .. InPipe(s) : got' = [got EXCEPT ![s] = @ + n]
      BY <1>2 DEF Read
    <2>2. Len(written[s]) \in Nat /\ got[s] \in Nat /\ at[s] \in Nat
      BY LenProperties DEF TypeOK
    <2>3. n \in Nat /\ got[s] + n <= Len(written[s])
      BY <2>1, <2>2
    <2>4. got' \in [Streams -> Nat]
      BY <2>1, <2>2, <2>3 DEF TypeOK
    <2>5. \A r \in Streams : at'[r] <= got'[r] /\ got'[r] <= Len(written'[r])
      BY <1>2, <2>1, <2>2, <2>3 DEF Read, TypeOK
    <2> QED
      BY <1>2, <2>4, <2>5 DEF Read, TypeOK
  <1>3. ASSUME NEW s \in Streams, HandleTagged(s) PROVE TypeOK'
    <2>1. /\ lineBuf' \in [Streams -> Line] /\ out' \in [Streams -> Seq(Line)]
          /\ pending' \in [Streams -> Nat]
      <3>0. /\ lineBuf \in [Streams -> Line] /\ out \in [Streams -> Seq(Line)]
            /\ pending \in [Streams -> Nat]
        BY DEF TypeOK, Line
      <3>1. /\ LineAfter(s) \in Line /\ <<>> \in Line
            /\ LinesAfter(s) \in Seq(Line)
            /\ Append(LinesAfter(s), LineAfter(s)) \in Seq(Line)
            /\ PendingAfter(s) \in Nat
        BY <1>3, HandleTypes, ElemsEmpty, AppendProperties DEF HandleTagged
      <3>2. /\ \E x \in {<<>>, LineAfter(s)} : lineBuf' = [lineBuf EXCEPT ![s] = x]
            /\ \E x \in {LinesAfter(s), Append(LinesAfter(s), LineAfter(s))} :
                 out' = [out EXCEPT ![s] = x]
            /\ pending' = [pending EXCEPT ![s] = PendingAfter(s)]
        BY <1>3 DEF HandleTagged
      <3>3. lineBuf' \in [Streams -> Line]
        <4>1. PICK x \in Line : lineBuf' = [lineBuf EXCEPT ![s] = x]
          BY <3>1, <3>2
        <4> QED
          BY <3>0, <4>1, Updated, Zenon
      <3>4. out' \in [Streams -> Seq(Line)]
        <4>1. PICK x \in Seq(Line) : out' = [out EXCEPT ![s] = x]
          BY <3>1, <3>2
        <4> QED
          BY <3>0, <4>1, Updated, Zenon
      <3>5. pending' \in [Streams -> Nat]
        BY <3>0, <3>1, <3>2, Updated, Zenon
      <3> QED
        BY <3>3, <3>4, <3>5
    <2>2. /\ at' \in [Streams -> Nat]
          /\ \A r \in Streams : at'[r] <= got'[r] /\ got'[r] <= Len(written'[r])
      BY <1>3 DEF HandleTagged, Handling, TypeOK
    <2> QED
      BY <1>3, <2>1, <2>2 DEF HandleTagged, TypeOK, Line
  <1>4. ASSUME NEW s \in Streams, EndTagged(s) PROVE TypeOK'
    <2> DEFINE line == IF pending[s] # 0 THEN Append(lineBuf[s], pending[s])
                       ELSE lineBuf[s]
    <2>0. lineBuf[s] \in Line /\ out[s] \in Seq(Line) /\ pending[s] \in Nat
      BY DEF TypeOK, Line
    <2>1. line \in Line
      BY <2>0, LineAppended
    <2>2. Append(out[s], line) \in Seq(Line)
      BY <2>0, <2>1, AppendProperties
    <2>3. out' = [out EXCEPT ![s] = IF line # <<>> THEN Append(@, line) ELSE @]
      BY <1>4 DEF EndTagged
    <2> HIDE DEF line
    <2>4. out' \in [Streams -> Seq(Line)]
      BY <2>2, <2>3 DEF TypeOK, Line
    <2> QED
      BY <1>4, <2>4, ElemsEmpty DEF EndTagged, TypeOK, Line
  <1>5. ASSUME NEW s \in Streams, HandleScan(s) \/ EndScan(s) PROVE TypeOK'
    <2>0. /\ lineBuf[s] \in Line /\ out[s] \in Seq(Line) /\ at[s] + 1 \in Nat \ {0}
          /\ at[s] \in Nat /\ got[s] \in Nat
      BY DEF TypeOK, Line
    <2>1. Append(lineBuf[s], at[s] + 1) \in Line
      BY <2>0, LineAppended, Zenon
    <2>2. Append(out[s], lineBuf[s]) \in Seq(Line)
      BY <2>0, AppendProperties
    <2>3. lineBuf' \in [Streams -> Line]
      <3>0. lineBuf \in [Streams -> Line] /\ <<>> \in Line
        BY ElemsEmpty DEF TypeOK, Line
      <3>1. \/ lineBuf' = lineBuf
            \/ lineBuf' = [lineBuf EXCEPT ![s] = <<>>]
            \/ lineBuf' = [lineBuf EXCEPT ![s] = Append(lineBuf[s], at[s] + 1)]
        BY <1>5, Zenon DEF HandleScan, EndScan, ScannedLine
      <3> QED
        BY <2>1, <3>0, <3>1, Updated, Zenon
    <2>4. out' \in [Streams -> Seq(Line)]
      <3>0. out \in [Streams -> Seq(Line)]
        BY DEF TypeOK, Line
      <3>1. out' = out \/ out' = [out EXCEPT ![s] = Append(out[s], lineBuf[s])]
        BY <1>5, Zenon DEF HandleScan, EndScan, ScannedLine
      <3> QED
        BY <2>2, <3>0, <3>1, Updated, Zenon
    <2>5. reader' \in [Streams -> {"reading", "stopped", "done"}]
      BY <1>5 DEF HandleScan, EndScan, ScannedLine, TypeOK
    <2>6. /\ at' \in [Streams -> Nat]
          /\ \A r \in Streams : at'[r] <= got'[r] /\ got'[r] <= Len(written'[r])
      <3>1. CASE HandleScan(s)
        <4>1. /\ at' = [at EXCEPT ![s] = at[s] + 1] /\ at[s] < got[s]
              /\ UNCHANGED <<got, written>>
          BY <3>1 DEF HandleScan, Handling
        <4> QED
          BY <2>0, <4>1 DEF TypeOK
      <3>2. CASE EndScan(s)
        BY <3>2 DEF EndScan, TypeOK
      <3> QED
        BY <1>5, <3>1, <3>2
    <2> QED
      BY <1>5, <2>3, <2>4, <2>5, <2>6 DEF HandleScan, EndScan, TypeOK, Line
  <1>6. CASE QemuExits
    BY <1>6 DEF QemuExits, TypeOK
  <1>7. CASE RunStep
    BY <1>7 DEF RunStep, Wait, CmdWait, Return, Exit, TypeOK
  <1>8. CASE UNCHANGED vars
    BY <1>8 DEF vars, TypeOK
  <1> QED
    BY <1>1, <1>2, <1>3, <1>4, <1>5, <1>6, <1>7, <1>8 DEF Next, ReaderStep

(***************************************************************************)
(* QEMU closes the escape sequences it opens.                              *)
(***************************************************************************)
LEMMA WellFormedStep ==
  ASSUME TypeOK, \A s \in Streams : WellFormed(written[s]), [Next]_vars
  PROVE  \A s \in Streams : WellFormed(written'[s])
  <1>1. ASSUME NEW s \in Streams, Write(s) PROVE \A r \in Streams : WellFormed(written'[r])
    <2>1. PICK b \in Byte : /\ AfterEsc(s, Len(written[s]) + 1) => b = "text"
                            /\ written' = [written EXCEPT ![s] = Append(@, b)]
      BY <1>1 DEF Write
    <2> DEFINE w == written[s]
               v == Append(w, b)
    <2>2. /\ Len(w) \in Nat /\ Len(v) = Len(w) + 1 /\ v[Len(w) + 1] = b
          /\ \A p \in 1 .. Len(w) : v[p] = w[p]
      BY Appended DEF TypeOK
    <2>3. Len(w) > 0 /\ w[Len(w)] = "esc" => b = "text"
      BY <2>1, <2>2 DEF AfterEsc
    <2>4. WellFormed(w) /\ written'[s] = v
      BY <2>1 DEF TypeOK
    <2> HIDE DEF w, v
    <2>5. WellFormed(v)
      <3> SUFFICES ASSUME NEW p \in 1 .. Len(v) - 1, v[p] = "esc"
                   PROVE  v[p + 1] = "text"
          BY DEF WellFormed
      <3>1. CASE p = Len(w)
        BY <2>2, <2>3, <3>1
      <3>2. CASE p \in 1 .. Len(w) - 1
        BY <2>2, <2>4, <3>2 DEF WellFormed
      <3> QED
        BY <2>2, <3>1, <3>2
    <2>6. \A r \in Streams : r # s => written'[r] = written[r]
      BY <2>1 DEF TypeOK
    <2> QED
      BY <2>4, <2>5, <2>6
  <1>2. CASE written' = written
    BY <1>2
  <1>3. (\A s \in Streams : ~ Write(s)) => written' = written
    BY DEF Next, vars, ReaderStep, Read, HandleTagged, EndTagged, HandleScan,
       EndScan, QemuExits, RunStep, Wait, CmdWait, Return, Exit
  <1> QED
    BY <1>1, <1>2, <1>3

(***************************************************************************)
(* One byte handled by AttachTagged keeps the invariant of its stream.     *)
(***************************************************************************)
LEMMA HandleKeeps ==
  ASSUME TypeOK, NEW s \in Streams, WellFormed(written[s]), StreamInv(s),
         HandleTagged(s)
  PROVE  Reading(written[s], at[s] + 1, PendingAfter(s), lineBuf'[s], out'[s])
  <1> DEFINE w == written[s]
             a == at[s]
             b == lineBuf[s]
             o == out[s]
             x == w[a + 1]
  <1>1. /\ w \in Seq(Byte) /\ a \in Nat /\ a < Len(w) /\ Len(w) \in Nat
        /\ b \in Line /\ o \in Seq(Line)
        /\ Reading(w, a, pending[s], b, o)
    <2>1. w \in Seq(Byte) /\ a \in Nat /\ got[s] \in Nat /\ got[s] <= Len(w)
      BY DEF TypeOK
    <2>2. Len(w) \in Nat /\ a < got[s] /\ Reading(w, a, pending[s], b, o)
      BY <2>1, LenProperties DEF HandleTagged, Handling, StreamInv
    <2> QED
      BY <2>1, <2>2 DEF TypeOK, Line
  <1>2. x \in Byte
    <2>1. a + 1 \in 1 .. Len(w)
      BY <1>1
    <2> QED
      BY <1>1, <2>1, ElementOfSeq
  <1>3. pending[s] # 0 => x = "text" /\ ~ Seen(w, a + 1)
    <2>1. pending[s] # 0 => a > 0 /\ w[a] = "esc"
      BY <1>1 DEF Reading, Bytes
    <2>2. a > 0 /\ w[a] = "esc" => x = "text"
      BY <1>1 DEF WellFormed
    <2>3. a > 0 /\ w[a] = "esc" => ~ Seen(w, a + 1)
      BY <1>1 DEF Seen
    <2> QED
      BY <2>1, <2>2, <2>3
  <1>4. Reading(w, a + 1, PendingAfter(s), LineAfter(s), LinesAfter(s))
    <2>1. CASE pending[s] = 0 /\ x = "text"
      <3>1. Reading(w, a + 1, 0, Append(b, a + 1), o)
        BY <1>1, <2>1, TextByte
      <3> QED
        BY <2>1, <3>1 DEF PendingAfter, LineAfter, LinesAfter, NextByte
    <2>2. CASE pending[s] = 0 /\ x = "nl"
      <3>1. Reading(w, a + 1, 0, <<>>, IF b # <<>> THEN Append(o, b) ELSE o)
        BY <1>1, <2>2, NewlineByte
      <3> QED
        BY <2>2, <3>1 DEF PendingAfter, LineAfter, LinesAfter, NextByte
    <2>3. CASE pending[s] # 0 \/ x = "esc"
      <3>1. x # "nl" /\ ~ Seen(w, a + 1)
        BY <1>3, <2>3 DEF Seen
      <3>2. Reading(w, a + 1, IF x = "esc" THEN a + 1 ELSE 0, b, o)
        BY <1>1, <3>1, EscapeByte
      <3>3. PendingAfter(s) = IF x = "esc" THEN a + 1 ELSE 0
        BY <1>3, <2>3 DEF PendingAfter, NextByte
      <3>4. LineAfter(s) = b /\ LinesAfter(s) = o
        BY <2>3, <3>1 DEF LineAfter, LinesAfter, NextByte
      <3> QED
        BY <3>2, <3>3, <3>4
    <2> QED
      BY <1>2, <2>1, <2>2, <2>3 DEF Byte
  <1>5. CASE ~ Flushes(s)
    <2>1. lineBuf'[s] = LineAfter(s) /\ out'[s] = LinesAfter(s)
      BY <1>5 DEF HandleTagged, TypeOK
    <2> QED
      BY <1>4, <2>1
  <1>6. CASE Flushes(s)
    <2>1. lineBuf'[s] = <<>> /\ out'[s] = Append(LinesAfter(s), LineAfter(s))
      BY <1>6 DEF HandleTagged, TypeOK
    <2>2. /\ LineAfter(s) \in Line /\ LinesAfter(s) \in Seq(Line)
          /\ a + 1 \in Nat
      BY <1>1, HandleTypes
    <2>3. Len(LineAfter(s)) > LineCap /\ LineAfter(s) # <<>>
      BY <1>6, CapAssumption, ElemsEmpty DEF Flushes
    <2>4. Reading(w, a + 1, PendingAfter(s), <<>>, Append(LinesAfter(s), LineAfter(s)))
      BY <1>4, <2>2, <2>3, LongLine
    <2> QED
      BY <2>1, <2>4
  <1> QED
    BY <1>5, <1>6

(***************************************************************************)
(* A step that leaves a stream and its reader alone keeps its invariant.   *)
(***************************************************************************)
LEMMA StreamFrame ==
  ASSUME NEW s \in Streams, StreamInv(s), UNCHANGED <<mode, kind>>,
         written'[s] = written[s], got'[s] = got[s], at'[s] = at[s],
         pending'[s] = pending[s], lineBuf'[s] = lineBuf[s],
         out'[s] = out[s], reader'[s] = reader[s],
         qemu = "exited" => qemu' = "exited"
  PROVE  StreamInv(s)'
  BY DEF StreamInv

(***************************************************************************)
(* Every step keeps the invariant of every stream AttachTagged reads.      *)
(***************************************************************************)
LEMMA StreamStep ==
  ASSUME IndInv, TypeOK', [Next]_vars, NEW s \in Streams
  PROVE  StreamInv(s)'
  <1>0. TypeOK /\ WellFormed(written[s]) /\ StreamInv(s) /\ RunInv
    BY DEF IndInv
  <1>t. /\ written[s] \in Seq(Byte) /\ at[s] \in Nat /\ got[s] \in Nat
        /\ at[s] <= got[s] /\ got[s] <= Len(written[s]) /\ pending[s] \in Nat
        /\ lineBuf[s] \in Line /\ out[s] \in Seq(Line) /\ Len(written[s]) \in Nat
    BY <1>0, LenProperties DEF TypeOK, Line
  <1> USE DEF readerVars
  <1>1. ASSUME NEW r \in Streams, r # s, Write(r) \/ ReaderStep(r)
        PROVE  StreamInv(s)'
    <2>1. /\ UNCHANGED <<mode, kind, qemu>>
          /\ written'[s] = written[s] /\ got'[s] = got[s] /\ at'[s] = at[s]
          /\ pending'[s] = pending[s] /\ lineBuf'[s] = lineBuf[s]
          /\ out'[s] = out[s] /\ reader'[s] = reader[s]
      <3>1. CASE Write(r)
        BY <1>0, <1>1, <3>1 DEF TypeOK, Write
      <3>2. CASE Read(r)
        BY <1>0, <1>1, <3>2 DEF TypeOK, Read
      <3>3. CASE HandleTagged(r)
        BY <1>0, <1>1, <3>3 DEF TypeOK, HandleTagged
      <3>4. CASE EndTagged(r)
        BY <1>0, <1>1, <3>4 DEF TypeOK, EndTagged
      <3>5. CASE HandleScan(r)
        BY <1>0, <1>1, <3>5 DEF TypeOK, HandleScan, ScannedLine
      <3>6. CASE EndScan(r)
        BY <1>0, <1>1, <3>6 DEF TypeOK, EndScan, ScannedLine
      <3> QED
        BY <1>1, <3>1, <3>2, <3>3, <3>4, <3>5, <3>6 DEF ReaderStep
    <2> QED
      BY <1>0, <2>1, StreamFrame
  <1>2. CASE Write(s)
    <2>1. PICK b \in Byte : written' = [written EXCEPT ![s] = Append(@, b)]
      BY <1>2 DEF Write
    <2>2. \A p \in 1 .. at[s] : written'[s][p] = written[s][p]
      <3>1. written'[s] = Append(written[s], b)
        BY <1>0, <2>1 DEF TypeOK
      <3>2. \A p \in 1 .. Len(written[s]) : Append(written[s], b)[p] = written[s][p]
        BY <1>t, Appended
      <3> QED
        BY <1>t, <3>1, <3>2
    <2>3. /\ qemu = "up"
          /\ UNCHANGED <<mode, kind, got, at, pending, lineBuf, out, reader, qemu>>
      BY <1>2 DEF Write
    <2>4. Reading(written[s], at[s], pending[s], lineBuf[s], out[s]) =>
            Reading(written'[s], at[s], pending[s], lineBuf[s], out[s])
      BY <1>t, <2>2, ReadingBefore
    <2>5. Finished(written[s], at[s], out[s]) => Finished(written'[s], at[s], out[s])
      BY <1>t, <2>2, FinishedBefore
    <2> QED
      BY <1>0, <2>3, <2>4, <2>5 DEF StreamInv
  <1>3. CASE Read(s)
    <2>1. /\ reader[s] = "reading"
          /\ UNCHANGED <<mode, kind, written, at, pending, lineBuf, out, reader, qemu>>
      BY <1>3 DEF Read, AtRead
    <2> QED
      BY <1>0, <2>1 DEF StreamInv
  <1>4. CASE HandleTagged(s)
    <2>1. Reading(written[s], at[s] + 1, PendingAfter(s), lineBuf'[s], out'[s])
      BY <1>0, <1>4, HandleKeeps
    <2>2. /\ reader[s] = "reading" /\ at'[s] = at[s] + 1
          /\ pending'[s] = PendingAfter(s)
          /\ UNCHANGED <<mode, kind, written, got, reader, qemu>>
      BY <1>0, <1>4 DEF HandleTagged, Handling, TypeOK
    <2> QED
      BY <2>1, <2>2 DEF StreamInv
  <1>5. CASE EndTagged(s)
    <2> DEFINE line == IF pending[s] # 0 THEN Append(lineBuf[s], pending[s])
                       ELSE lineBuf[s]
    <2>1. /\ kind[s] = "AttachTagged" /\ reader[s] = "reading" /\ at[s] = got[s]
          /\ main # "exited" /\ reader'[s] = "done"
          /\ out'[s] = IF line # <<>> THEN Append(out[s], line) ELSE out[s]
          /\ UNCHANGED <<mode, kind, written, got, at, qemu>>
      BY <1>0, <1>5 DEF EndTagged, ReadFails, AtRead, TypeOK
    <2>2. Reading(written[s], at[s], pending[s], lineBuf[s], out[s])
      BY <1>0, <2>1 DEF StreamInv
    <2>3. Finished(written[s], at[s], out'[s])
      <3>1. /\ pending[s] # 0 => line = Append(lineBuf[s], pending[s])
            /\ pending[s] = 0 => line = lineBuf[s]
            /\ line # <<>> => out'[s] = Append(out[s], line)
            /\ line = <<>> => out'[s] = out[s]
        BY <2>1
      <3> HIDE DEF line
      <3> QED
        BY <1>t, <2>2, <3>1, LastLine
    <2>4. mode = "tagged" => qemu = "exited" /\ got[s] = Len(written[s])
      <3>1. mode = "tagged" => readEnds = "open"
        BY <1>0, <2>1 DEF RunInv
      <3>2. readEnds = "closed" \/ (qemu = "exited" /\ InPipe(s) = 0)
        BY <1>5 DEF EndTagged, ReadFails
      <3> QED
        BY <1>t, <3>1, <3>2 DEF InPipe
    <2> HIDE DEF line
    <2> QED
      BY <2>1, <2>3, <2>4 DEF StreamInv
  <1>6. CASE HandleScan(s) \/ EndScan(s)
    <2>1. kind[s] # "AttachTagged" /\ kind' = kind
      BY <1>6 DEF HandleScan, EndScan, Handling
    <2> QED
      BY <2>1 DEF StreamInv
  <1>7. CASE QemuExits \/ RunStep \/ UNCHANGED vars
    <2>1. /\ UNCHANGED <<mode, kind, written, got, at, pending, lineBuf, out, reader>>
          /\ qemu = "exited" => qemu' = "exited"
      BY <1>7 DEF QemuExits, RunStep, Wait, CmdWait, Return, Exit, vars
    <2> QED
      BY <1>0, <2>1, StreamFrame
  <1> QED
    BY <1>1, <1>2, <1>3, <1>4, <1>5, <1>6, <1>7 DEF Next, ReaderStep

(***************************************************************************)
(* In tagged mode, no reader is left when Run gets past streamer.Wait, and *)
(* only then are the pipes closed (runner.go:339-340).                     *)
(***************************************************************************)
LEMMA RunKeeps ==
  ASSUME TypeOK, RunInv, [Next]_vars
  PROVE  RunInv'
  <1> USE DEF readerVars
  <1>1. ASSUME NEW s \in Streams, Write(s) \/ Read(s) \/ HandleTagged(s)
        PROVE  RunInv'
    BY <1>1 DEF Write, Read, HandleTagged, RunInv
  <1>2. ASSUME NEW s \in Streams, EndTagged(s) \/ HandleScan(s) \/ EndScan(s)
        PROVE  RunInv'
    <2>1. UNCHANGED <<mode, main, readEnds>> /\ reader[s] = "reading"
      BY <1>2 DEF EndTagged, HandleScan, EndScan, ReadFails, AtRead, Handling
    <2>2. CASE mode = "tagged" /\ main # "drain"
      BY <2>1, <2>2 DEF RunInv
    <2>3. CASE ~ (mode = "tagged" /\ main # "drain")
      BY <2>1, <2>3 DEF RunInv
    <2> QED
      BY <2>2, <2>3
  <1>3. CASE QemuExits
    BY <1>3 DEF QemuExits, RunInv
  <1>4. CASE Wait
    BY <1>4 DEF Wait, RunInv
  <1>5. CASE CmdWait
    BY <1>5 DEF CmdWait, RunInv
  <1>6. CASE Return \/ Exit
    BY <1>6 DEF Return, Exit, RunInv
  <1>7. CASE UNCHANGED vars
    BY <1>7 DEF vars, RunInv
  <1> QED
    BY <1>1, <1>2, <1>3, <1>4, <1>5, <1>6, <1>7 DEF Next, ReaderStep, RunStep

(***************************************************************************)
(* Every step keeps the invariant.                                         *)
(***************************************************************************)
LEMMA InvStep == IndInv /\ [Next]_vars => IndInv'
  <1> SUFFICES ASSUME IndInv, [Next]_vars PROVE IndInv'
      OBVIOUS
  <1>1. TypeOK /\ TypeOK'
    BY TypeStep DEF IndInv
  <1>2. \A s \in Streams : WellFormed(written'[s])
    BY <1>1, WellFormedStep DEF IndInv
  <1>3. \A s \in Streams : StreamInv(s)'
    BY <1>1, StreamStep
  <1>4. RunInv'
    BY <1>1, RunKeeps DEF IndInv
  <1> QED
    BY <1>1, <1>2, <1>3, <1>4 DEF IndInv

-----------------------------------------------------------------------------
(***************************************************************************)
(* Every reachable state of the streamer is well-typed; a reader never     *)
(* handles more than it read, nor reads more than was written.             *)
(***************************************************************************)
THEOREM TypeCorrect == Spec => []TypeOK
  <1>1. IndInv => TypeOK
    BY DEF IndInv
  <1> QED
    BY InvInit, InvStep, <1>1, PTL DEF Spec

(***************************************************************************)
(* However reads cut the stream, AttachTagged prints the visible text from *)
(* the beginning, without gaps and without escape sequences                *)
(* (process_manager.go, AttachTagged).                                     *)
(***************************************************************************)
THEOREM FaithfulOutput == Spec => []OutputFaithful
  <1>1. IndInv => OutputFaithful
    <2> SUFFICES ASSUME IndInv, NEW s \in Streams, kind[s] = "AttachTagged",
                        NEW p \in Printed(s)
                 PROVE  /\ \/ Visible(s, p)
                           \/ written[s][p] = "esc" /\ p = got[s] /\ reader[s] = "done"
                        /\ \A q \in 1 .. p : Visible(s, q) => q \in Printed(s)
        BY DEF OutputFaithful
    <2>1. Printed(s) = PrintedOf(out[s])
      BY DEF Printed, PrintedOf, Elems
    <2>2. \A q : Visible(s, q) <=> Seen(written[s], q)
      BY DEF Visible, Seen, AfterEsc
    <2>3. StreamInv(s) /\ at[s] \in Nat
      BY DEF IndInv, TypeOK
    <2>4. CASE reader[s] = "reading"
      <3>1. Bytes(written[s], at[s], pending[s], lineBuf[s], out[s])
        BY <2>3, <2>4 DEF StreamInv, Reading
      <3>2. p \in 1 .. at[s] /\ Seen(written[s], p)
        BY <2>1, <3>1 DEF Bytes
      <3>3. ASSUME NEW q \in 1 .. p, Seen(written[s], q)
            PROVE  q \in PrintedOf(out[s])
        BY <2>1, <2>3, <3>1, <3>2, <3>3 DEF Bytes
      <3> QED
        BY <2>1, <2>2, <3>2, <3>3
    <2>5. CASE reader[s] = "done"
      <3>1. Finished(written[s], at[s], out[s]) /\ at[s] = got[s]
        BY <2>3, <2>5 DEF StreamInv
      <3>2. p \in 1 .. at[s] /\ (Seen(written[s], p) \/ (written[s][p] = "esc" /\ p = at[s]))
        BY <2>1, <3>1 DEF Finished
      <3>3. ASSUME NEW q \in 1 .. p, Seen(written[s], q)
            PROVE  q \in PrintedOf(out[s])
        BY <2>3, <3>1, <3>2, <3>3 DEF Finished
      <3> QED
        BY <2>1, <2>2, <2>5, <3>1, <3>2, <3>3
    <2> QED
      BY <2>3, <2>4, <2>5 DEF StreamInv
  <1> QED
    BY InvInit, InvStep, <1>1, PTL DEF Spec

(***************************************************************************)
(* The lines AttachTagged prints are QEMU's lines, in order, none spanning *)
(* a newline, and broken without one only when longer than LineCap         *)
(* (process_manager.go, AttachTagged).                                     *)
(***************************************************************************)
THEOREM WholeLines == Spec => []LinesWhole
  <1>1. IndInv => LinesWhole
    <2> SUFFICES ASSUME IndInv, NEW s \in Streams, kind[s] = "AttachTagged",
                        NEW n \in DOMAIN out[s]
                 PROVE  LET l == out[s][n] IN
                        /\ \A i \in 1 .. Len(l) - 1 :
                             l[i] < l[i + 1] /\ ~ Newline(s, l[i], l[i + 1])
                        /\ n < Len(out[s]) =>
                             LET p == l[Len(l)]  q == out[s][n + 1][1] IN
                             p < q /\ (Newline(s, p, q) \/ Len(l) > LineCap)
        BY DEF LinesWhole
    <2>1. LinesOut(written[s], out[s])
      BY DEF IndInv, StreamInv, Reading, Finished
    <2>2. \A p, q : Newline(s, p, q) <=> Nl(written[s], p, q)
      BY DEF Newline, Nl
    <2>3. DOMAIN out[s] = 1 .. Len(out[s]) /\ Len(out[s]) \in Nat
      BY LenProperties DEF IndInv, TypeOK
    <2>4. Whole(written[s], out[s][n])
      BY <2>1, <2>3 DEF LinesOut
    <2>5. n < Len(out[s]) => Follows(written[s], out[s][n], out[s][n + 1])
      BY <2>1, <2>3 DEF LinesOut
    <2> QED
      BY <2>2, <2>4, <2>5 DEF Whole, Follows, Last
  <1> QED
    BY InvInit, InvStep, <1>1, PTL DEF Spec

(***************************************************************************)
(* When Run in tagged mode has returned, all that QEMU wrote has been      *)
(* printed (runner.go:339-340).                                            *)
(***************************************************************************)
THEOREM NothingLost == Spec => []DrainedBeforeReturn
  <1>1. IndInv => DrainedBeforeReturn
    <2> SUFFICES ASSUME IndInv, mode = "tagged", main \in {"returned", "exited"},
                        NEW s \in Streams, kind[s] = "AttachTagged",
                        NEW p \in DOMAIN written[s], Visible(s, p)
                 PROVE  p \in Printed(s)
        BY DEF DrainedBeforeReturn
    <2>1. Printed(s) = PrintedOf(out[s])
      BY DEF Printed, PrintedOf, Elems
    <2>2. Seen(written[s], p)
      BY DEF Visible, Seen, AfterEsc
    <2>3. reader[s] # "reading"
      BY DEF IndInv, RunInv
    <2>4. Finished(written[s], at[s], out[s]) /\ at[s] = Len(written[s])
      BY <2>3 DEF IndInv, StreamInv
    <2>5. p \in 1 .. at[s]
      BY <2>4, LenProperties DEF IndInv, TypeOK
    <2> QED
      BY <2>1, <2>2, <2>4, <2>5 DEF Finished
  <1> QED
    BY InvInit, InvStep, <1>1, PTL DEF Spec
=============================================================================
