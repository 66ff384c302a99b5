--------------------------- MODULE OutputStreamer ---------------------------
(***************************************************************************)
(* The output streamer (runner/process_manager.go) between QEMU's pipes    *)
(* and the terminal, in the two ways Run uses it (runner.go): build mode   *)
(* starts Detached readers and calls cmd.Wait at once, which closes the    *)
(* pipes under them; tagged mode waits for its Monitored readers first.    *)
(*                                                                         *)
(* A byte is text, a newline, or the start of an escape sequence, which    *)
(* one byte of text ends.  What is buffered or printed is kept as the      *)
(* positions of the bytes in the stream, so that order, loss and           *)
(* duplication can be told.  A reader takes any part of what the pipe      *)
(* holds and handles it byte by byte.                                      *)
(***************************************************************************)
EXTENDS Naturals, Sequences

CONSTANTS
  Streams,   \* the pipes: stdout and stderr
  MaxBytes,  \* bound: bytes written to each stream
  PipeCap,   \* bytes a pipe holds before its writer blocks
  LineCap,   \* 4096: a longer rest of a chunk is printed without a newline
  ScanCap    \* 64 KiB: the longest line a bufio.Scanner takes

ASSUME CapAssumption ==
  /\ MaxBytes \in [Streams -> Nat]
  /\ {PipeCap, LineCap, ScanCap} \subseteq Nat \ {0}

Byte == {"text", "nl", "esc"}

VARIABLES
  mode,      \* "tagged" or "build": how Run uses the streamer
  kind,      \* for each stream the method that reads it
  written,   \* what QEMU wrote
  got,       \* how much of it the reader has taken from the pipe
  at,        \* how much of that it has handled
  pending,   \* the start of an escape sequence that is not complete, or 0
  lineBuf,   \* the line so far
  out,       \* the lines printed
  reader,    \* "reading", "stopped" (before the end), "done"
  qemu,      \* "up" or "exited"
  readEnds,  \* our ends of the pipes: "open" or "closed"
  main       \* Run: "drain" (streamer.Wait), "wait" (cmd.Wait), "returned";
             \* then the command has "exited"

vars == <<mode, kind, written, got, at, pending, lineBuf, out, reader, qemu,
          readEnds, main>>
readerVars == <<got, at, pending, lineBuf, out, reader>>

(***************************************************************************)
(* The type of the state.                                                  *)
(***************************************************************************)
TypeOK ==
  /\ mode \in {"tagged", "build"}
  /\ kind \in [Streams -> {"AttachTagged", "AttachFilter", "MatchSync"}]
  /\ written \in [Streams -> Seq(Byte)]
  /\ got \in [Streams -> Nat] /\ at \in [Streams -> Nat]
  /\ \A s \in Streams : at[s] <= got[s] /\ got[s] <= Len(written[s])
  /\ pending \in [Streams -> Nat]
  /\ lineBuf \in [Streams -> Seq(Nat \ {0})]
  /\ out \in [Streams -> Seq(Seq(Nat \ {0}))]
  /\ reader \in [Streams -> {"reading", "stopped", "done"}]
  /\ qemu \in {"up", "exited"}
  /\ readEnds \in {"open", "closed"}
  /\ main \in {"drain", "wait", "returned", "exited"}

(* Run attaches AttachTagged to every stream; another caller may give one  *)
(* of them another reader.                                                 *)
Init ==
  /\ mode \in {"tagged", "build"}
  /\ kind \in [Streams -> {"AttachTagged", "AttachFilter", "MatchSync"}]
  /\ \A s, r \in Streams : mode = "build" \/ s # r =>
       "AttachTagged" \in {kind[s], kind[r]}
  /\ written = [s \in Streams |-> <<>>]
  /\ got = [s \in Streams |-> 0]
  /\ at = [s \in Streams |-> 0]
  /\ pending = [s \in Streams |-> 0]
  /\ lineBuf = [s \in Streams |-> <<>>]
  /\ out = [s \in Streams |-> <<>>]
  /\ reader = [s \in Streams |-> "reading"]
  /\ qemu = "up"
  /\ readEnds = "open"
  /\ main = IF mode = "tagged" THEN "drain" ELSE "wait"

InPipe(s) == Len(written[s]) - got[s]

(* Position p ends an escape sequence.                                     *)
AfterEsc(s, p) == p > 1 /\ written[s][p - 1] = "esc"

-----------------------------------------------------------------------------
(* QEMU                                                                    *)

Write(s) ==
  /\ qemu = "up" /\ InPipe(s) < PipeCap /\ Len(written[s]) < MaxBytes[s]
  /\ \E b \in Byte :
       /\ AfterEsc(s, Len(written[s]) + 1) => b = "text"
       /\ written' = [written EXCEPT ![s] = Append(@, b)]
  /\ UNCHANGED <<mode, kind, readerVars, qemu, readEnds, main>>

(* By itself, killed by a signal, or by exec when the context is done.     *)
QemuExits ==
  /\ qemu = "up"
  /\ qemu' = "exited"
  /\ UNCHANGED <<mode, kind, written, readerVars, readEnds, main>>

-----------------------------------------------------------------------------
(* The readers                                                             *)

(* A reader has handled its chunk and is back at Read.                     *)
AtRead(s) == reader[s] = "reading" /\ at[s] = got[s] /\ main # "exited"

(* Mutant: the whole buffer is taken for what was read.                    *)
ReadBuffer(s) ==
  /\ AtRead(s) /\ readEnds = "open" /\ InPipe(s) > 0
  /\ got' = [got EXCEPT ![s] = @ + PipeCap]
  /\ UNCHANGED <<mode, kind, written, at, pending, lineBuf, out, reader,
                 qemu, readEnds, main>>

(* Mutant: no read while the line buffer is full.                          *)
ReadWhileRoom(s) ==
  /\ AtRead(s) /\ readEnds = "open" /\ Len(lineBuf[s]) < LineCap
  /\ \E n \in 1 .. InPipe(s) : got' = [got EXCEPT ![s] = @ + n]
  /\ UNCHANGED <<mode, kind, written, at, pending, lineBuf, out, reader,
                 qemu, readEnds, main>>

(* Read returns bytes: any part of what the pipe holds.                    *)
Read(s) ==
  /\ AtRead(s) /\ readEnds = "open"
  /\ \E n \in 1 .. InPipe(s) : got' = [got EXCEPT ![s] = @ + n]
  /\ UNCHANGED <<mode, kind, written, at, pending, lineBuf, out, reader,
                 qemu, readEnds, main>>

(* Read returns an error: the writer is gone and the pipe empty, or Wait   *)
(* has closed our end.                                                     *)
ReadFails(s) ==
  /\ AtRead(s)
  /\ \/ qemu = "exited" /\ InPipe(s) = 0
     \/ readEnds = "closed"

Handling(s, k) ==
  kind[s] \in k /\ reader[s] = "reading" /\ at[s] < got[s] /\ main # "exited"

(* AttachTagged, the next byte: what is left of the line after it, the     *)
(* lines printed up to it (empty ones are not), and the escape sequence it *)
(* leaves open.                                                            *)
NextByte(s) == written[s][at[s] + 1]

LineAfter(s) ==
  CASE pending[s] = 0 /\ NextByte(s) = "text" -> Append(lineBuf[s], at[s] + 1)
    [] pending[s] = 0 /\ NextByte(s) = "nl"   -> <<>>
    [] OTHER                                  -> lineBuf[s]

LinesAfter(s) ==
  IF pending[s] = 0 /\ NextByte(s) = "nl" /\ lineBuf[s] # <<>>
  THEN Append(out[s], lineBuf[s]) ELSE out[s]

(* Mutant: an incomplete sequence is forgotten between two reads.          *)
PendingForgotten(s) ==
  IF pending[s] = 0 /\ NextByte(s) = "esc" /\ at[s] + 1 < got[s]
  THEN at[s] + 1 ELSE 0

PendingAfter(s) ==
  IF pending[s] = 0 /\ NextByte(s) = "esc" THEN at[s] + 1 ELSE 0

(* Mutant: every rest of a chunk is printed.                               *)
FlushesAll(s) == at[s] + 1 = got[s] /\ LineAfter(s) # <<>>

(* At the end of a chunk a rest that is longer than LineCap is printed.    *)
Flushes(s) == at[s] + 1 = got[s] /\ Len(LineAfter(s)) > LineCap

HandleTagged(s) ==
  /\ Handling(s, {"AttachTagged"})
  /\ at' = [at EXCEPT ![s] = @ + 1]
  /\ pending' = [pending EXCEPT ![s] = PendingAfter(s)]
  /\ \/ /\ Flushes(s)
        /\ lineBuf' = [lineBuf EXCEPT ![s] = <<>>]
        /\ out' = [out EXCEPT ![s] = Append(LinesAfter(s), LineAfter(s))]
     \/ /\ ~ Flushes(s)
        /\ lineBuf' = [lineBuf EXCEPT ![s] = LineAfter(s)]
        /\ out' = [out EXCEPT ![s] = LinesAfter(s)]
  /\ UNCHANGED <<mode, kind, written, got, reader, qemu, readEnds, main>>

(* AttachTagged ends: what is left is printed, the start of an escape      *)
(* sequence as it is.                                                      *)
EndTagged(s) ==
  /\ kind[s] = "AttachTagged" /\ ReadFails(s)
  /\ LET line == IF pending[s] # 0 THEN Append(lineBuf[s], pending[s])
                 ELSE lineBuf[s]
     IN  out' = [out EXCEPT ![s] = IF line # <<>> THEN Append(@, line) ELSE @]
  /\ pending' = [pending EXCEPT ![s] = 0]
  /\ lineBuf' = [lineBuf EXCEPT ![s] = <<>>]
  /\ reader' = [reader EXCEPT ![s] = "done"]
  /\ UNCHANGED <<mode, kind, written, got, at, qemu, readEnds, main>>

(* A line is there: AttachFilter prints it if it holds a pattern;          *)
(* MatchSync returns on the first that does.                               *)
ScannedLine(s, end) ==
  /\ lineBuf' = [lineBuf EXCEPT ![s] = <<>>]
  /\ \/ /\ out' = [out EXCEPT ![s] = Append(@, lineBuf[s])]
        /\ reader' = [reader EXCEPT ![s] =
             IF kind[s] = "MatchSync" THEN "stopped" ELSE end]
     \/ out' = out /\ reader' = [reader EXCEPT ![s] = end]

(* bufio.Scanner, one byte: a line longer than its buffer ends the scan.   *)
HandleScan(s) ==
  /\ Handling(s, {"AttachFilter", "MatchSync"})
  /\ LET p == at[s] + 1
     IN  /\ at' = [at EXCEPT ![s] = p]
         /\ \/ written[s][p] = "nl" /\ ScannedLine(s, "reading")
            \/ /\ written[s][p] # "nl"
               /\ lineBuf' = [lineBuf EXCEPT ![s] = Append(@, p)]
               /\ reader' = [reader EXCEPT ![s] =
                    IF Len(lineBuf'[s]) > ScanCap THEN "stopped" ELSE @]
               /\ out' = out
  /\ UNCHANGED <<mode, kind, written, got, pending, qemu, readEnds, main>>

(* The scan ends; the rest is its last line.                               *)
EndScan(s) ==
  /\ kind[s] # "AttachTagged" /\ ReadFails(s)
  /\ \/ lineBuf[s] # <<>> /\ ScannedLine(s, "done")
     \/ /\ lineBuf[s] = <<>>
        /\ reader' = [reader EXCEPT ![s] = "done"]
        /\ UNCHANGED <<lineBuf, out>>
  /\ UNCHANGED <<mode, kind, written, got, at, pending, qemu, readEnds, main>>

-----------------------------------------------------------------------------
(* Run                                                                     *)

(* Mutant: Wait returns when one of the readers is done.                   *)
WaitOne ==
  /\ main = "drain"
  /\ \E s \in Streams : reader[s] # "reading"
  /\ main' = "wait"
  /\ UNCHANGED <<mode, kind, written, readerVars, qemu, readEnds>>

(* Mutant: a reader that stops early is not counted off.                   *)
WaitForEnd ==
  /\ main = "drain"
  /\ \A s \in Streams : reader[s] = "done"
  /\ main' = "wait"
  /\ UNCHANGED <<mode, kind, written, readerVars, qemu, readEnds>>

(* streamer.Wait, tagged mode.                                             *)
Wait ==
  /\ main = "drain"
  /\ \A s \in Streams : reader[s] # "reading"
  /\ main' = "wait"
  /\ UNCHANGED <<mode, kind, written, readerVars, qemu, readEnds>>

(* cmd.Wait (os/exec) closes our ends of the pipes once the process has    *)
(* exited; in build mode it runs in a goroutine of its own.                *)
CmdWait ==
  /\ qemu = "exited" /\ readEnds = "open"
  /\ main = "wait" \/ (mode = "build" /\ main = "returned")
  /\ readEnds' = "closed"
  /\ UNCHANGED <<mode, kind, written, readerVars, qemu, main>>

(* Run returns after cmd.Wait, or, in build mode, at the time limit or     *)
(* cancelled.                                                              *)
Return ==
  /\ main = "wait"
  /\ readEnds = "closed" \/ mode = "build"
  /\ main' = "returned"
  /\ UNCHANGED <<mode, kind, written, readerVars, qemu, readEnds>>

(* The command exits, and with it the readers.                             *)
Exit ==
  /\ main = "returned"
  /\ main' = "exited"
  /\ UNCHANGED <<mode, kind, written, readerVars, qemu, readEnds>>

ReaderStep(s) ==
  \/ Read(s)
  \/ HandleTagged(s) \/ EndTagged(s) \/ HandleScan(s) \/ EndScan(s)

RunStep == Wait \/ CmdWait \/ Return \/ Exit

Next ==
  \/ \E s \in Streams : Write(s) \/ ReaderStep(s)
  \/ QemuExits \/ RunStep

Spec == Init /\ [][Next]_vars

(* Goroutines that can move do; QEMU need not.                             *)
FairSpec ==
  Spec /\ WF_vars(RunStep) /\ \A s \in Streams : WF_vars(ReaderStep(s))

-----------------------------------------------------------------------------
(* Properties                                                              *)

(* Position p is to be seen: text that is no part of an escape sequence.   *)
Visible(s, p) == written[s][p] = "text" /\ ~ AfterEsc(s, p)

Printed(s) == UNION {{l[i] : i \in DOMAIN l} : l \in {out[s][n] : n \in DOMAIN out[s]}}

Newline(s, p, q) == \E r \in p + 1 .. q - 1 : written[s][r] = "nl"

(***************************************************************************)
(* However the reads cut the stream, and in both modes, what AttachTagged  *)
(* printed is the visible text from the beginning of the stream up to some *)
(* point, nothing left out and no escape sequence shown, except that the   *)
(* start of one may end the output when the stream ends inside it.         *)
(***************************************************************************)
OutputFaithful ==
  \A s \in Streams : kind[s] = "AttachTagged" =>
    \A p \in Printed(s) :
      /\ \/ Visible(s, p)
         \/ written[s][p] = "esc" /\ p = got[s] /\ reader[s] = "done"
      /\ \A q \in 1 .. p : Visible(s, q) => q \in Printed(s)

(***************************************************************************)
(* The printed lines are QEMU's lines: in order and without overlap, none  *)
(* spans a newline, and one is broken without a newline only when it is    *)
(* longer than LineCap: an arbitrary cut between two reads is not seen.    *)
(***************************************************************************)
LinesWhole ==
  \A s \in Streams : kind[s] = "AttachTagged" =>
    \A n \in DOMAIN out[s] :
      LET l == out[s][n] IN
      /\ \A i \in 1 .. Len(l) - 1 :
           l[i] < l[i + 1] /\ ~ Newline(s, l[i], l[i + 1])
      /\ n < Len(out[s]) =>
           LET p == l[Len(l)]  q == out[s][n + 1][1] IN
           p < q /\ (Newline(s, p, q) \/ Len(l) > LineCap)

(***************************************************************************)
(* Tagged mode loses nothing (runner.go:339-340): when Run returns, all    *)
(* that QEMU wrote to either stream has been printed.  Build mode closes   *)
(* the pipes early and gives no such guarantee.                            *)
(***************************************************************************)
DrainedBeforeReturn ==
  mode = "tagged" /\ main \in {"returned", "exited"} =>
    \A s \in Streams : kind[s] = "AttachTagged" =>
      \A p \in DOMAIN written[s] : Visible(s, p) => p \in Printed(s)

(***************************************************************************)
(* QEMU blocked on a full pipe is let go on while Run lives; only a scan   *)
(* that stopped early leaves it blocked (process_manager.go:167, 182).     *)
(***************************************************************************)
WriterMovesOn ==
  \A s \in Streams :
    InPipe(s) = PipeCap ~>
      InPipe(s) < PipeCap \/ reader[s] = "stopped" \/ qemu = "exited"
                         \/ main = "exited"

(***************************************************************************)
(* QEMU's end lets Run return: nobody waits for a reader that waits.       *)
(***************************************************************************)
RunReturns == qemu = "exited" ~> main = "exited"
=============================================================================
