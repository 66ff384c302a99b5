-------------------------- MODULE MCOutputStreamer --------------------------
(***************************************************************************)
(* OutputStreamer for TLC: a stream long enough for two lines, a cut       *)
(* escape sequence and an over-long line, beside a short one.              *)
(***************************************************************************)
EXTENDS OutputStreamer

MCStreams == {"stdout", "stderr"}

MCMaxBytes == [s \in MCStreams |-> IF s = "stdout" THEN 5 ELSE 1]
=============================================================================
