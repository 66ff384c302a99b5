-------------------------- MODULE RunnerRefinement --------------------------
(***************************************************************************)
(* The runner as an implementation of the image store: the image and its   *)
(* user are functions of the runner's files and of where the command is.   *)
(***************************************************************************)
EXTENDS Runner

Image ==
  IF varsFd = 0 THEN "none"
  ELSE IF diskImg = 0 \/ tpmState = 0 THEN "partial"
  ELSE IF lastGood # 0 THEN "good"
  ELSE IF varsFd = diskImg /\ diskImg = tpmState THEN "laid"
  ELSE "mixed"

User ==
  IF ~ Running THEN "nobody"
  ELSE IF Build THEN IF varsFd # inv THEN "build"
                     ELSE IF tpmState # inv THEN "overwriting"
                     ELSE "provisioning"
  ELSE IF pc \in {"swtpm", "qemu", "wait"} THEN "run"
  ELSE "nobody"

Store == INSTANCE ImageStore WITH image <- Image, user <- User

(***************************************************************************)
(* Every behaviour of the commands over a work directory (main.go,         *)
(* runner.go) is one of the image store: no failure, signal or crash makes *)
(* a run touch or boot what it should not, or a build report an image that *)
(* is not wholly its own.                                                  *)
(***************************************************************************)
ImplementsImageStore == Store!Spec
=============================================================================
