----------------------------- MODULE ImageStore -----------------------------
(***************************************************************************)
(* What the runner promises about a work directory, seen as a store for    *)
(* one VM image (vars.fd, disk and TPM state taken together), whatever     *)
(* fails, is interrupted or dies:                                          *)
(*                                                                         *)
(*   - only a build changes the image, and it becomes good only through    *)
(*     the build that laid all of it down;                                 *)
(*   - a build that has begun to overwrite an image spoils it for good     *)
(*     until a whole one has been laid down;                               *)
(*   - a run boots only an image none of whose parts is missing, and       *)
(*     leaves it as it is.                                                 *)
(*                                                                         *)
(* A run may boot an image that was never reported good, or that mixes     *)
(* parts of two builds: the runner does not promise otherwise.             *)
(***************************************************************************)

VARIABLES
  image,    \* "none"; "partial": a part is missing; "mixed": parts of
            \* several builds; "laid": all of one build; "good": reported
  user      \* "nobody", "run", or a build: "build" (nothing written yet),
            \* "overwriting", "provisioning"

vars == <<image, user>>

Init == image = "none" /\ user = "nobody"

Enter ==
  /\ user = "nobody"
  /\ \/ user' = "build"
     \/ user' = "run" /\ image \notin {"none", "partial"}
  /\ UNCHANGED image

(* A build replaces a part of the image.                                   *)
Overwrite ==
  /\ user \in {"build", "overwriting"}
  /\ user' = "overwriting"
  /\ image' = IF image \in {"none", "partial"} THEN "partial" ELSE "mixed"

(* The last part is written; the emulators may start.                      *)
Lay ==
  /\ user = "overwriting"
  /\ user' = "provisioning"
  /\ image' = "laid"

(* The build reports success.                                              *)
Publish ==
  /\ user = "provisioning"
  /\ user' = "nobody"
  /\ image' = "good"

(* A command fails, is interrupted, dies, or a run ends.                   *)
Leave ==
  /\ user # "nobody"
  /\ user' = "nobody"
  /\ UNCHANGED image

Next == Enter \/ Overwrite \/ Lay \/ Publish \/ Leave

Spec == Init /\ [][Next]_vars
=============================================================================
