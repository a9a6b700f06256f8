--------------------------- MODULE AccPublication ---------------------------
(***************************************************************************)
(* What execute_plan promises its caller, whichever host runs it: the      *)
(* outputs of a plan are replaced one at a time, in plan order, each in a  *)
(* single step, none before every command of the plan has succeeded, and   *)
(* success is reported only when all of them have been replaced.  The Unix *)
(* and the DOS executor are both shown to implement this module.           *)
(*                                                                         *)
(* A file's content is the number of the plan command that wrote it;       *)
(* Absent and Previous stand for no file and for whatever the destination  *)
(* held before the run.                                                    *)
(***************************************************************************)
EXTENDS Integers

CONSTANTS CommandCount,     \* commands in the plan, a natural number
          OutputCount       \* outputs the plan publishes, a natural number

VARIABLES phase,            \* how far the run has got
          dest              \* what each destination path shows

pubvars == <<phase, dest>>

Absent   == -1
Previous == -2

Untouched(content) == content \in {Absent, Previous}

PublicationInit ==
  /\ phase = "building"
  /\ dest \in [1..OutputCount -> {Absent, Previous}]

(* Every command has run and succeeded. *)
Built ==
  /\ phase = "building"
  /\ phase' = "publishing"
  /\ UNCHANGED dest

(* The next output in plan order replaces its destination. *)
Replace(o) ==
  /\ phase = "publishing"
  /\ \A p \in 1..OutputCount : Untouched(dest[p]) <=> p >= o
  /\ \E content \in 1..CommandCount : dest' = [dest EXCEPT ![o] = content]
  /\ UNCHANGED phase

(* The run ends; only a run that replaced every output may succeed. *)
Succeed ==
  /\ phase = "publishing"
  /\ \A o \in 1..OutputCount : ~Untouched(dest[o])
  /\ phase' = "succeeded"
  /\ UNCHANGED dest

Fail ==
  /\ phase \in {"building", "publishing"}
  /\ phase' = "failed"
  /\ UNCHANGED dest

PublicationNext ==
  \/ Built
  \/ \E o \in 1..OutputCount : Replace(o)
  \/ Succeed
  \/ Fail

PublicationSpec == PublicationInit /\ [][PublicationNext]_pubvars
=============================================================================
