------------------------------ MODULE MCAccArgs ------------------------------
(***************************************************************************)
(* Arguments for model checking AccArgs.                                    *)
(***************************************************************************)
EXTENDS AccArgs

Token(opts, vals) == [opt : opts, val : vals]

(* One token or two of every option and every word.                          *)
MCAllTokens ==
       Token({"input"}, {"a.c", "M=2"}) \cup Token({"@"}, {"@a"}) \cup Token({"empty", "unknown", "-help", "-version"}, {""})
  \cup Token({"-c", "-S", "-Osize", "-Ospeed"} \cup Flags, {""})
  \cup Token({"-Wc,", "-Wl,"}, {"", "x"}) \cup Token({"-Wa,"}, {"x"})
  \cup Token({"-target="}, {"cpm86", "dos2", "vms"}) \cup Token({"-mcmodel="}, {"small", "large"})
  \cup Token({"-march=", "-mfloat="}, {"i8086", "soft"})
  \cup Token({"-toolroot=", "-emu=", "-overlay="}, {"", "r"})
  \cup Token({"-overlay-root="}, {"1,2", "x"})
  \cup Token(Short, {""}) \cup Token({"-o"}, {"p", "q"}) \cup Token({"-I", "-L", "-l"}, {"d"})
  \cup Token({"-D"}, {"M", "M=2", "N", "1"})

(* The options the last checks combine.                                      *)
MCLinkTokens ==
       Token({"input"}, {"a.c"}) \cup Token({"-c", "-S", "-squeeze"}, {""})
  \cup Token({"-target="}, {"cpm86", "dos2"}) \cup Token({"-mcmodel="}, {"small", "large"})
  \cup Token({"-overlay="}, {"r"}) \cup Token({"-overlay-root="}, {"1,2"})
  \cup Token({"-o"}, {"", "p"}) \cup Token({"-D"}, {"M", "N", "M=2"})

MCMenus == { [tokens |-> MCAllTokens, max |-> 3], [tokens |-> MCLinkTokens, max |-> 5] }

MCMacro ==
  [v \in {"a.c", "M=2", "@a", "M", "N", "1"} |->
     CASE v = "M"   -> [name |-> "M", value |-> "1"]
       [] v = "M=2" -> [name |-> "M", value |-> "2"]
       [] v = "N"   -> [name |-> "N", value |-> "1"]
       [] OTHER     -> [name |-> "", value |-> ""]]

MCChoices == [c \in {"-target=", "-mcmodel=", "-march=", "-mfloat="} |->
  CASE c = "-target=" -> {"cpm86", "dos1", "dos2"}
    [] c = "-mcmodel=" -> {"small", "medium", "compact", "large"}
    [] c = "-march=" -> {"i8086", "i80186", "i80286"}
    [] OTHER -> {"soft", "auto", "8087"}]
=============================================================================
