-------------------------- MODULE MCAccExecUnix --------------------------
(***************************************************************************)
(* Plans for model checking AccExecUnix.                                   *)
(***************************************************************************)
EXTENDS AccExecUnix

(* acc -g -sqz -o a.exe a.c: compile, squeeze the object in place, link      *)
(* through a response file; the linker also writes the symbol table a.dbg.   *)
MCLinkPlan ==
  << [product |-> "u1.o",   extras |-> {},         response |-> FALSE],
     [product |-> "u1.o",   extras |-> {},         response |-> FALSE],
     [product |-> "u2.exe", extras |-> {"u2.dbg"}, response |-> TRUE] >>
MCLinkOutputs == << "u2.exe", "u2.dbg" >>

(* acc -c a.c b.c: one object for each source. *)
MCCompilePlan ==
  << [product |-> "u1.o", extras |-> {}, response |-> FALSE],
     [product |-> "u2.o", extras |-> {}, response |-> FALSE] >>
MCCompileOutputs == << "u1.o", "u2.o" >>
=============================================================================
