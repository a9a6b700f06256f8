---------------------------- MODULE MCAccCommand ----------------------------
(***************************************************************************)
(* Requests for model checking AccCommand: every setting with a few raw      *)
(* options, and a few settings with every spelling and operand.  They are    *)
(* requests the parser and the planner let through: -S has no assembler      *)
(* command, and only a DOS 2 .exe has another model than small.              *)
(***************************************************************************)
EXTENDS AccCommand

Setting(tools, stages, cpus, optimizes, quiets, overlayRoots, suffixes) ==
  [tool : tools, stage : stages, cpu : cpus,
   model : {"small", "medium", "compact", "large"}, float : {"soft", "auto", "hard"},
   optimize : optimizes, debug : BOOLEAN, quiet : quiets, targetGiven : BOOLEAN,
   target : {"cpm86", "dos1", "dos2"}, overlayRoot : overlayRoots, suffix : suffixes]

Cpus == {"i8086", "i80186", "i80286"}
CompilerSettings == Setting({"cc"}, {"object", "assembly"}, Cpus,
                            {"default", "size", "speed"}, BOOLEAN, {FALSE}, {"exe"})
AssemblerSettings == Setting({"as"}, {"object", "link"}, Cpus, {"default"}, {FALSE}, {FALSE}, {"exe"})
LinkerSettings == Setting({"ln"}, {"link"}, {"i8086"}, {"default"}, {FALSE}, BOOLEAN, {"cmd", "exe", "com"})

(* Without -target the suffix of -o says which system ln links for.           *)
Consistent(s) ==
  /\ s.tool # "ln" /\ ~s.targetGiven => s.target = "cpm86"
  /\ s.tool = "ln" => (s.suffix = "cmd") = (s.target = "cpm86")
  /\ s.model # "small" /\ (s.targetGiven \/ s.tool = "ln") => s.target = "dos2" /\ s.suffix = "exe"
  /\ s.overlayRoot => s.target # "dos1" /\ s.suffix # "com"

Settings == {s \in CompilerSettings : Consistent(s)} \cup {s \in AssemblerSettings : Consistent(s)}
            \cup {s \in LinkerSettings : Consistent(s)}
With(s, raw, definitions, includes) ==
  [tool |-> s.tool, stage |-> s.stage, cpu |-> s.cpu, model |-> s.model, float |-> s.float,
   optimize |-> s.optimize, debug |-> s.debug, quiet |-> s.quiet,
   targetGiven |-> s.targetGiven, target |-> s.target, overlayRoot |-> s.overlayRoot,
   suffix |-> s.suffix, raw |-> raw, definitions |-> definitions, includes |-> includes]

M == [name |-> "M", value |-> "1", decimal |-> TRUE]
N == [name |-> "N", value |-> "text", decimal |-> FALSE]

Common(s) ==
  CASE s.tool = "cc" /\ s.stage = "assembly" /\ s.model \in {"compact", "large"}
                                -> << <<"+", "s">>, <<"-", "T">> >>
    [] s.tool = "cc"            -> << <<"-", "L", "9">>, <<"+", "A">> >>
    [] s.tool = "as"            -> << <<"-", "C", "A">>, <<"-", "S", "3">> >>
    [] s.target = "cpm86"       -> << <<"-", "V">>, <<"-", "M">> >>
    [] OTHER                    -> << <<"-", "S", "A", "0">>, <<"-", "V">>, <<"-", "X", "1">> >>

EverySetting == {With(s, Common(s), <<M>>, <<"inc">>) : s \in Settings}

Spellings == {<<"-", c>> : c \in {"E", "L", "y", "z", "T", "k", "S", "C", "M", "V", "X",
                                  "A", "B", "b", "n", "s", "o", "D", "I", "g", "r", "1"}}
             \cup {<<"+", c>> : c \in {"U", "R", "A", "M", "s", "l", "e", "0", "c", "d"}}
Operands == {<<>>, <<"0">>, <<"1">>, <<"A">>, <<"S">>, <<"G">>, <<"8", "6">>, <<"0", "0", "0", "0">>,
             <<"f", "F", "0", "1">>, <<"3", "2", "7", "6", "7">>, <<"3", "2", "7", "6", "8">>,
             <<"0", "0", "0", "0", "1">>, <<"9", "9", "9", "9", "9">>, <<"0", "0", "0", "0", "0", "1">>,
             <<"1", "F", "F", "F", "F">>, <<"1", "A">>, <<"A", "1">>}
Raws == {s \o o : s \in Spellings, o \in Operands} \cup {<<>>, <<"-">>, <<"L">>}

Few == {s \in Settings :
          /\ s.cpu = "i80286" \/ s.tool = "ln"
          /\ s.float = "hard" /\ s.optimize = "default" /\ s.debug
          /\ ~s.quiet /\ s.model \in {"small", "large"}}

EveryRaw == {With(s, <<raw>>, <<M>>, <<>>) : s \in Few, raw \in Raws}

(* Enough macros, directories and options to fill a list.                    *)
Long == {With(s, raw, definitions, <<"inc", "sys">>) :
           s \in Few, raw \in {<<>>, << <<"-", "S", "1">>, <<"-", "S", "2">> >>,
                               << <<"-", "M">>, <<"-", "S", "1">>, <<"-", "S", "2">>, <<"-", "X", "3">> >>},
           definitions \in {<<M>>, <<M, N>>, <<N>>, <<M, M, M>>}}

MCFamilies == {EverySetting, EveryRaw, Long}
=============================================================================
