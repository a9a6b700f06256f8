------------------------------ MODULE MCObjFix ------------------------------
(***************************************************************************)
(* Shapes of modules for model checking ObjFix.                             *)
(***************************************************************************)
EXTENDS ObjFix

(* Segments and their data without fixups; fixups and threads, with no data  *)
(* that would tell the segments apart.                                       *)
MCShapes ==
  { [records |-> 4, subs |-> 0, segments |-> 2, lengths |-> {1, 4}],
    [records |-> 2, subs |-> 4, segments |-> 0, lengths |-> {0}] }

MCSmall == { [records |-> 3, subs |-> 1, segments |-> 1, lengths |-> {0, 3, 5}] }
=============================================================================
