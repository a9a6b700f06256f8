--------------------------- MODULE MCAccExecDos ---------------------------
(***************************************************************************)
(* The plan for model checking AccExecDos.                                 *)
(***************************************************************************)
EXTENDS AccExecDos

(* acc -g -sqz -o a.exe a.c: compile, squeeze the object in place, link      *)
(* through a response file; the linker also writes the symbol table a.dbg.   *)
MCPlan ==
  << [product |-> "u1.o",   extras |-> {},         response |-> FALSE],
     [product |-> "u1.o",   extras |-> {},         response |-> FALSE],
     [product |-> "u2.exe", extras |-> {"u2.dbg"}, response |-> TRUE] >>
MCOutputs == << "u2.exe", "u2.dbg" >>
=============================================================================
