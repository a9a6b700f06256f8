---------------------------- MODULE AccProducts ----------------------------
(***************************************************************************)
(* The part of a finished plan (plan_t, command_t) that the two executors  *)
(* of acc read, and the content of the files they handle.                  *)
(*                                                                         *)
(* Contents are abstracted to who wrote them: c in 1..Len(Commands) for a  *)
(* non-empty file written by command c, Truncated for an empty or partly   *)
(* copied file, Absent for no file, Previous for what a destination held   *)
(* before the run.                                                         *)
(***************************************************************************)
EXTENDS Integers, Sequences

CONSTANTS
  Commands,      \* the plan's commands: a sequence of records
                 \*   product:  the workspace file verify_product checks
                 \*   extras:   other workspace files the tool may write
                 \*   response: whether a linker response file is needed
  Outputs,       \* the plan's products in publication order; output o goes
                 \* to a destination of its own (output_path, plan.c)
  ToolStatuses   \* the non-zero statuses a tool may exit with

ASSUME PlanShape ==
  /\ Commands \in Seq([product : STRING, extras : SUBSET STRING, response : BOOLEAN])
  /\ Outputs \in Seq(STRING)
  /\ ToolStatuses \subseteq 1..255
  /\ Len(Commands) > 0        \* validate refuses a request with no input

Absent    == -1
Previous  == -2
Truncated == 0

CommandIds == 1..Len(Commands)
OutputIds  == 1..Len(Outputs)

Writes(c) == {Commands[c].product} \union Commands[c].extras

Products ==
  (UNION {Writes(c) : c \in CommandIds}) \union {Outputs[o] : o \in OutputIds}

(* The verdict of verify_product and dos_verify_product: a non-empty regular *)
(* file is there.                                                            *)
NonEmpty(content) == content \in CommandIds

(* "if (status == 0) status = 1": a later error never masks an earlier one,  *)
(* and the form that would.                                                  *)
AlwaysOne(s) == 1

FirstError(s) == IF s = 0 THEN 1 ELSE s

(* What a tool leaves behind: some of its files written, some truncated. *)
AfterTool(product, c, written, truncated) ==
  [p \in Products |-> IF p \in written THEN c
                      ELSE IF p \in truncated THEN Truncated ELSE product[p]]
=============================================================================
