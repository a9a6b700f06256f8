----------------------------- MODULE AccCommand -----------------------------
(***************************************************************************)
(* The words of one tool's command (src/aztec43-acc): compile_input and the  *)
(* option part of link_inputs (plan.c), the flags of a profile (profile.c),  *)
(* and the allow-list of raw options -Wc, -Wa and -Wl (raw.c).  AccPlan says *)
(* which commands there are and which files they name.                       *)
(*                                                                          *)
(* The tools take what they are told from these words alone, in their order: *)
(* a word is a sequence of characters, because raw options are found by      *)
(* comparing prefixes, and a name or a value is one "character" of it.       *)
(***************************************************************************)
EXTENDS Naturals, Sequences, SequencesExt, Folds, FiniteSets

CONSTANTS
  Families,      \* sets of requests, each with the tool whose command is built
  ListLimit,     \* ACC_LIMIT: words in a list
  DecimalMax,    \* greatest decimal operand (32767)
  DecimalDigits, \* its digits (5)
  HexDigits      \* digits of the greatest hexadecimal operand (4)

ASSUME AccCommandAssumption ==
  {ListLimit, DecimalMax, DecimalDigits, HexDigits} \subseteq Nat

VARIABLES
  pc,            \* "driver", "raw", "macros", "definitions", "includes",
                 \* "product", "debug", "built" or "refused"
  request,       \* what the request and the plan say of this command
  args,          \* word_list_t: the words so far
  next           \* index of the loop the command is in

vars == <<pc, request, args, next>>

-----------------------------------------------------------------------------
(***************************************************************************)
(* profile.c: flags by setting, <<>> where a setting needs none.            *)
(***************************************************************************)

CpuFlag == [i8086 |-> <<"+", "0">>, i80186 |-> <<"+", "1">>, i80286 |-> <<"+", "2">>]

(* mutant: the flags of medium and compact are exchanged *)
ModelFlagSwapped ==
  [small |-> <<>>, medium |-> <<"+", "l", "d">>, compact |-> <<"+", "l", "c">>,
   large |-> <<"+", "l">>]

ModelFlag ==
  [small |-> <<>>, medium |-> <<"+", "l", "c">>, compact |-> <<"+", "l", "d">>,
   large |-> <<"+", "l">>]

FloatFlag == [soft |-> <<>>, auto |-> <<>>, hard |-> <<"+", "e">>]
OptimizeFlag == [default |-> <<>>, size |-> <<"+", "c">>, speed |-> <<"+", "f">>]
AsCpuFlag(cpu) == IF cpu = "i8086" THEN <<>> ELSE <<"-", "1", "8", "6">>
AsFloatFlag(cpu, float) ==
  IF cpu = "i80286" /\ float = "hard" THEN <<"-", "2">> ELSE <<>>

Define(name, value) == <<"-", "D", name, "=", value>>
IdentityMacro == Define("__AZTEC__", "1")
TargetMacro == [cpm86 |-> Define("__CPM86__", "1"), dos1 |-> Define("__MSDOS__", "1"),
                dos2  |-> Define("__MSDOS__", "2")]
CpuMacros == [i8086 |-> <<>>, i80186 |-> <<Define("__i186__", "1")>>,
              i80286 |-> <<Define("__i186__", "1"), Define("__i286__", "1")>>]

-----------------------------------------------------------------------------
(***************************************************************************)
(* raw.c                                                                    *)
(***************************************************************************)

Option(tool, spelling, operand, needs) ==
  [tool |-> tool, spelling |-> spelling, operand |-> operand, needs |-> needs]

(* The table; the linker's operands are arguments of their own.              *)
options ==
  << Option("cc", <<"-", "E">>, "decimal", {}), Option("cc", <<"-", "L">>, "decimal", {}),
     Option("cc", <<"-", "y">>, "decimal", {}), Option("cc", <<"-", "z">>, "decimal", {}),
     Option("cc", <<"-", "T">>, "none", {"assembly"}), Option("cc", <<"-", "k">>, "none", {}),
     Option("cc", <<"+", "U">>, "none", {}), Option("cc", <<"+", "R">>, "none", {}),
     Option("cc", <<"+", "A">>, "none", {}), Option("cc", <<"+", "M">>, "none", {}),
     Option("cc", <<"+", "s">>, "none", {"large data"}),
     Option("as", <<"-", "S">>, "decimal", {}), Option("as", <<"-", "C">>, "none", {}),
     Option("as", <<"-", "C", "A">>, "none", {}), Option("as", <<"-", "C", "S">>, "none", {}),
     Option("ln", <<"-", "M">>, "none", {}), Option("ln", <<"-", "V">>, "none", {}),
     Option("ln", <<"-", "S">>, "hex", {"dos"}), Option("ln", <<"-", "X">>, "hex", {"dos2 exe"}) >>

Separate(option) == option.tool = "ln" /\ option.operand # "none"

Digits == <<"0", "1", "2", "3", "4", "5", "6", "7", "8", "9">>
Letters == {"a", "b", "c", "d", "e", "f", "A", "B", "C", "D", "E", "F"}
IsDigit(c) == \E d \in DOMAIN Digits : Digits[d] = c
Value(text) ==
  FoldLeft(LAMBDA v, c : 10 * v + (CHOOSE d \in DOMAIN Digits : Digits[d] = c) - 1, 0, text)

valid_decimal(text) ==
  /\ text # <<>> /\ Len(text) <= DecimalDigits
  /\ \A i \in DOMAIN text : IsDigit(text[i])
  /\ Value(text) \in 1 .. DecimalMax

valid_hex(text) ==
  /\ Len(text) \in 1 .. HexDigits
  /\ \A i \in DOMAIN text : IsDigit(text[i]) \/ text[i] \in Letters
  /\ \E i \in DOMAIN text : text[i] # "0"

Operand(option, arg) == SubSeq(arg, Len(option.spelling) + 1, Len(arg))

(* mutant: an option without an operand is found by its prefix alone *)
FitsByPrefix(option, tool, arg) ==
  /\ option.tool = tool /\ IsPrefix(option.spelling, arg)
  /\ option.operand = "decimal" => valid_decimal(Operand(option, arg))
  /\ option.operand = "hex" => valid_hex(Operand(option, arg))

(* strncmp on the spelling, then the rest as the operand.                    *)
Fits(option, tool, arg) ==
  /\ option.tool = tool /\ IsPrefix(option.spelling, arg)
  /\ CASE option.operand = "none"    -> Operand(option, arg) = <<>>
       [] option.operand = "decimal" -> valid_decimal(Operand(option, arg))
       [] OTHER                      -> valid_hex(Operand(option, arg))

(* raw_context_t, as compile_input and link_inputs fill it in.               *)
Context ==
  (IF request.tool # "ln" /\ request.stage = "assembly" THEN {"assembly"} ELSE {})
  \cup (IF request.model \in {"compact", "large"} THEN {"large data"} ELSE {})
  \cup (IF request.tool = "ln" /\ request.target # "cpm86" THEN {"dos"} ELSE {})
  \cup (IF request.tool = "ln" /\ request.target = "dos2" /\ request.suffix = "exe"
        THEN {"dos2 exe"} ELSE {})

-----------------------------------------------------------------------------

Init ==
  /\ pc = "driver" /\ \E requests \in Families : request \in requests
  /\ args = <<>> /\ next = 1

(* add_word on each word; a setting that needs no flag adds none.            *)
Words(words) == SelectSeq(words, LAMBDA w : w # <<>>)
If(condition, word) == IF condition THEN word ELSE <<>>

Refuse == pc' = "refused" /\ UNCHANGED <<request, args, next>>
Add(words, then, index) ==
  IF Len(args \o Words(words)) > ListLimit THEN Refuse
  ELSE /\ args' = args \o Words(words)
       /\ pc' = then /\ next' = index
       /\ UNCHANGED request

CompilerFlags ==
  << CpuFlag[request.cpu], <<"-", "b">>, If(~request.debug, <<"-", "n">>),
     ModelFlag[request.model], FloatFlag[request.float], OptimizeFlag[request.optimize],
     If(request.quiet, <<"-", "s">>), If(request.stage = "assembly", <<"-", "A">>) >>

AssemblerFlags == <<AsCpuFlag(request.cpu), AsFloatFlag(request.cpu, request.float)>>

LinkerFlags ==
  << <<"-", "o">>, <<"product">>,
     If(request.overlayRoot, <<"+", "c">>), If(request.overlayRoot, <<"code">>),
     If(request.overlayRoot, <<"+", "d">>), If(request.overlayRoot, <<"data">>),
     If(request.overlayRoot, <<"-", "r">>) >>

DriverFlags ==
  /\ pc = "driver"
  /\ Add(CASE request.tool = "cc" -> CompilerFlags
           [] request.tool = "as" -> AssemblerFlags
           [] OTHER               -> LinkerFlags, "raw", 1)

(* raw_append: the first row that fits decides; its needs must be met.       *)
RawAppend(arg) ==
  LET rows == {i \in DOMAIN options : Fits(options[i], request.tool, arg)}
      option == options[CHOOSE i \in rows : \A j \in rows : i <= j]
  IN IF rows = {} THEN Refuse
     ELSE IF ~(option.needs \subseteq Context) THEN Refuse
     ELSE Add(IF Separate(option) THEN <<option.spelling, Operand(option, arg)>> ELSE <<arg>>,
              "raw", next + 1)

RawOption ==
  /\ pc = "raw" /\ next <= Len(request.raw)
  /\ RawAppend(request.raw[next])

EndRaw ==
  /\ pc = "raw" /\ next > Len(request.raw)
  /\ pc' = IF request.tool = "ln" THEN "debug" ELSE "macros"
  /\ next' = 1 /\ UNCHANGED <<request, args>>

(* -g applies to every file listed after it; the files are AccPlan's.        *)
LinkerDebug ==
  /\ pc = "debug"
  /\ Add(<<If(request.debug, <<"-", "g">>)>>, "built", 1)

DriverMacros ==
  /\ pc = "macros"
  /\ Add(<<IdentityMacro, If(request.targetGiven, TargetMacro[request.target])>>
           \o CpuMacros[request.cpu], "definitions", 1)

(* as takes only constants: decimal_value of what follows "=".               *)
Definition ==
  /\ pc = "definitions"
  /\ IF next > Len(request.definitions)
     THEN pc' = "includes" /\ next' = 1 /\ UNCHANGED <<request, args>>
     ELSE LET d == request.definitions[next] IN
          IF request.tool = "as" /\ ~d.decimal THEN Refuse
          ELSE Add(<<Define(d.name, d.value)>>, "definitions", next + 1)

Include ==
  /\ pc = "includes"
  /\ IF next > Len(request.includes)
     THEN pc' = "product" /\ next' = 1 /\ UNCHANGED <<request, args>>
     ELSE Add(<<<<"-", "I", request.includes[next]>>>>, "includes", next + 1)

(* The product's and the source's guest paths.                               *)
ProductAndSource ==
  /\ pc = "product"
  /\ Add(<< <<"-", "o">>, <<"product">>, <<"source">> >>, "built", 1)

(* Texts that are too long, no memory, a path that has no guest name.        *)
Exhausted == pc \notin {"built", "refused"} /\ Refuse

Next ==
  \/ DriverFlags \/ RawOption \/ EndRaw \/ LinkerDebug
  \/ DriverMacros \/ Definition \/ Include \/ ProductAndSource
  \/ Exhausted

Spec == Init /\ [][Next]_vars

-----------------------------------------------------------------------------
(***************************************************************************)
(* How the tools read their words, from their manual's tables and not from   *)
(* the driver's: a word is an option, or the operand of the option before it.*)
(***************************************************************************)

TakesOperand(tool) ==
  {<<"-", "o">>} \cup
  (IF tool = "ln" THEN {<<"+", "c">>, <<"+", "d">>, <<"-", "S">>, <<"-", "X">>} ELSE {})

(* Pairs of an option and its operand, in order; <<>> when it takes none.     *)
Read(tool) ==
  FoldLeft(LAMBDA read, w :
             IF read # <<>> /\ Last(read)[1] \in TakesOperand(tool) /\ Last(read)[2] = <<>>
             THEN [read EXCEPT ![Len(read)] = <<@[1], w>>]
             ELSE Append(read, <<w, <<>>>>),
           <<>>, args)

Says(word) == \E i \in DOMAIN args : args[i] = word
Plus(letters) == <<"+">> \o letters

FarCode == Says(Plus(<<"l">>)) \/ Says(Plus(<<"l", "c">>))
FarData == Says(Plus(<<"l">>)) \/ Says(Plus(<<"l", "d">>))
Defined(name) == {w \in Range(args) : Len(w) = 5 /\ SubSeq(w, 1, 3) = <<"-", "D", name>>}

(***************************************************************************)
(* What the compiler is told is what was asked: one processor, code and data *)
(* far exactly in the models that have them far, the coprocessor only for     *)
(* -mfloat=8087, debugger data only with -g, the system's macro only when a   *)
(* target was given, the user's macros after the driver's and in their order.*)
(***************************************************************************)
CompilerTold ==
  /\ {c \in {"0", "1", "2"} : Says(Plus(<<c>>))}
       = {CASE request.cpu = "i8086" -> "0" [] request.cpu = "i80186" -> "1" [] OTHER -> "2"}
  /\ FarCode <=> request.model \in {"medium", "large"}
  /\ FarData <=> request.model \in {"compact", "large"}
  /\ Says(<<"+", "e">>) <=> request.float = "hard"
  /\ Says(<<"-", "n">>) <=> ~request.debug
  /\ Says(<<"-", "A">>) <=> request.stage = "assembly"

AssemblerTold ==
  /\ Says(<<"-", "1", "8", "6">>) <=> request.cpu # "i8086"
  /\ Says(<<"-", "2">>) => request.cpu = "i80286" /\ request.float = "hard"

UserMacros == [d \in DOMAIN request.definitions |->
                 Define(request.definitions[d].name, request.definitions[d].value)]

MacrosTold ==
  /\ Cardinality(Defined("__AZTEC__")) = 1
  /\ Defined("__CPM86__") # {} <=> request.targetGiven /\ request.target = "cpm86"
  /\ Defined("__MSDOS__") # {} <=> request.targetGiven /\ request.target # "cpm86"
  /\ Defined("__i186__") # {} <=> request.cpu # "i8086"
  /\ Defined("__i286__") # {} <=> request.cpu = "i80286"
  /\ LET macros == SelectSeq(args, LAMBDA w : IsPrefix(<<"-", "D">>, w))
     IN /\ IsSuffix(UserMacros, macros)
        /\ \A i \in 1 .. Len(macros) - Len(UserMacros) :
             \A j \in DOMAIN UserMacros : macros[i] # UserMacros[j]

LinkerTold ==
  LET read == Read("ln")
      operands(option) == {read[i][2] : i \in {i \in DOMAIN read : read[i][1] = option}}
  IN /\ operands(<<"-", "o">>) = {<<"product">>}
     /\ operands(<<"+", "c">>) = (IF request.overlayRoot THEN {<<"code">>} ELSE {})
     /\ operands(<<"+", "d">>) = (IF request.overlayRoot THEN {<<"data">>} ELSE {})
     /\ operands(<<"-", "r">>) = (IF request.overlayRoot THEN {<<>>} ELSE {})
     /\ \A option \in {<<"-", "S">>, <<"-", "X">>} :
          operands(option) = {SubSeq(request.raw[i], 3, Len(request.raw[i])) :
                                i \in {i \in DOMAIN request.raw : IsPrefix(option, request.raw[i])}}
     /\ \A i \in DOMAIN read : read[i][1] = <<"-", "g">> => i = Len(read)
     /\ Says(<<"-", "g">>) <=> request.debug

(* A command that is built tells its tool what the request says, whatever raw *)
(* options stand between the driver's words.                                  *)
SettingsReachTool ==
  pc = "built" =>
    /\ request.tool = "cc" => CompilerTold /\ MacrosTold
    /\ request.tool = "as" => AssemblerTold /\ MacrosTold
    /\ request.tool = "ln" => LinkerTold
    /\ Len(args) <= ListLimit

(***************************************************************************)
(* The raw options a command may carry (plan.md, section 5): spelled out,    *)
(* with the operand's value and what the option needs, and none of them a    *)
(* word that the driver decides.                                             *)
(***************************************************************************)
Numeral(text) == text # <<>> /\ Len(text) <= 5 /\ \A i \in DOMAIN text : IsDigit(text[i])
Sizes == {text \in {SubSeq(request.raw[i], 3, Len(request.raw[i])) : i \in DOMAIN request.raw} :
            Numeral(text) /\ Value(text) > 0 /\ Value(text) < 32768}
Segments == {text \in {SubSeq(request.raw[i], 3, Len(request.raw[i])) : i \in DOMAIN request.raw} :
               /\ text # <<>> /\ Len(text) < 5 /\ Range(text) # {"0"}
               /\ Range(text) \subseteq Range(Digits) \cup Letters}

Legal(raw) ==
  CASE request.tool = "cc" ->
         \/ \E s \in Sizes, c \in {"E", "L", "y", "z"} : raw = <<"-", c>> \o s
         \/ raw = <<"-", "k">>
         \/ \E c \in {"U", "R", "A", "M"} : raw = <<"+", c>>
         \/ raw = <<"-", "T">> /\ request.stage = "assembly"
         \/ raw = <<"+", "s">> /\ request.model \notin {"small", "medium"}
    [] request.tool = "as" ->
         \/ \E s \in Sizes : raw = <<"-", "S">> \o s
         \/ raw \in {<<"-", "C">>, <<"-", "C", "A">>, <<"-", "C", "S">>}
    [] OTHER ->
         \/ raw \in {<<"-", "M">>, <<"-", "V">>}
         \/ request.target # "cpm86" /\ \E s \in Segments : raw = <<"-", "S">> \o s
         \/ /\ request.target = "dos2" /\ request.suffix = "exe"
            /\ \E s \in Segments : raw = <<"-", "X">> \o s

DriverOwns(tool) ==
  CASE tool = "cc" -> {<<"+", c>> : c \in {"0", "1", "2", "l", "e", "c", "f"}}
                        \cup {<<"-", c>> : c \in {"b", "n", "s", "A", "B", "D", "I", "o"}}
    [] tool = "as" -> {<<"-", c>> : c \in {"1", "2", "D", "I", "o"}}
    [] OTHER       -> {<<"-", c>> : c \in {"o", "r", "g"}} \cup {<<"+", c>> : c \in {"c", "d"}}

(* raw.h:4-9: a raw option never contradicts the plan.  In a command that is  *)
(* built every raw option is legal and none is the driver's own; and a command*)
(* is not refused at a raw option that is legal and leaves room.              *)
RawNeverContradicts ==
  /\ pc = "built" =>
       \A i \in DOMAIN request.raw :
         Legal(request.raw[i]) /\ ~(SubSeq(request.raw[i], 1, 2) \in DriverOwns(request.tool))
  /\ pc = "raw" /\ next <= Len(request.raw) /\ Legal(request.raw[next])
       => \E i \in DOMAIN options :
            /\ Fits(options[i], request.tool, request.raw[next])
            /\ options[i].needs \subseteq Context
            /\ \A j \in 1 .. i - 1 : ~Fits(options[j], request.tool, request.raw[next])

=============================================================================
