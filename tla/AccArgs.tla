------------------------------- MODULE AccArgs -------------------------------
(***************************************************************************)
(* The request parser of acc (src/aztec43-acc/args.c) and its main function *)
(* (acc.c): arguments are read from left to right into a request, which is   *)
(* checked, planned, printed and executed.                                   *)
(*                                                                          *)
(* An argument is a token [opt, val]: an option with the text after its "="  *)
(* or its letter, or a word that is no option ("input", "@file", "empty").   *)
(* The next argument is chosen when the parser comes to it; argv keeps them. *)
(* Texts that do not fit and memory are in Exhausted.                        *)
(***************************************************************************)
EXTENDS Naturals, Sequences, FiniteSets

CONSTANTS
  Menus,         \* bounds on command lines: at most max arguments, all of
                 \* them from the menu's tokens
  Macro,         \* for each operand, the macro it defines: its name ("" when
                 \* the text is none) and its value ("1" when it gives none)
  Choices,       \* for -target=, -mcmodel=, -march=, -mfloat=: the names known
  HexSizes,      \* texts that are CODE,DATA in 1-4 hexadecimal digits each
  ListLimit,     \* ACC_LIMIT
  Statuses       \* exit statuses of execute_plan

ASSUME AccArgsAssumption ==
  /\ \A m \in Menus : /\ m.max \in Nat
                     /\ \A t \in m.tokens : DOMAIN t = {"opt", "val"}
  /\ ListLimit \in Nat /\ Statuses \subseteq Nat
  /\ HexSizes \subseteq STRING
  /\ Choices["-target="] \subseteq {"cpm86", "dos1", "dos2"}

VARIABLES
  phase,         \* "start", "parse", "plan", "print", "execute" or "exit"
  request,       \* request_t
  refusal,       \* why the parser failed, or "none"
  executed,      \* execute_plan has been called
  status,        \* exit status of the program
  argv           \* the arguments read so far

vars == <<phase, request, refusal, executed, status, argv>>

Flags == {"-###", "-v", "-save-temps", "-w", "-squeeze", "-nostartfiles", "-nostdlib",
          "-g"}
Chosen == {"-target=", "-mcmodel=", "-march=", "-mfloat="}
Short == {"-o", "-I", "-D", "-L", "-l"}
Raw == {"-Wc,", "-Wa,", "-Wl,"}
Words == {"input", "@"}
Alone == {"-help", "-version"}

Lists == {"inputs", "-I", "-D", "-L"} \cup Raw
Texts == {"-o", "-toolroot=", "-emu=", "-overlay-root=", "-overlay="}

Tokens == UNION {m.tokens : m \in Menus}

(* calloc: every default is zero; "" stands for a null pointer.              *)
Init ==
  /\ phase = "start"
  /\ request = [stage |-> "link", flags |-> {}, optimize |-> "default",
                choice |-> [c \in Chosen |-> ""],
                text |-> [t \in Texts |-> ""],
                list |-> [l \in Lists |-> <<>>]]
  /\ refusal = "none" /\ executed = FALSE /\ status = 0 /\ argv = <<>>

(* main: -help and -version must be the only argument; otherwise the command *)
(* line is judged whole, two structures are allocated, and parsing begins.   *)
Help ==
  /\ phase = "start"
  /\ \E t \in Tokens : t.opt \in Alone /\ argv' = <<t>>
  /\ phase' = "exit" /\ UNCHANGED <<request, refusal, executed, status>>

Start ==
  /\ phase = "start"
  /\ \/ phase' = "parse" /\ UNCHANGED <<refusal, status>>
     \/ phase' = "exit" /\ refusal' = "main" /\ status' = 1
  /\ UNCHANGED <<request, executed, argv>>

(* The tokens that may come next, n arguments from here.                     *)
Used == {argv[i] : i \in DOMAIN argv}
Ahead(n) ==
  UNION {m.tokens : m \in {m \in Menus : Len(argv) + n <= m.max /\ Used \subseteq m.tokens}}

Read(tokens) == argv' = argv \o tokens
Refuse(why) ==
  /\ phase' = "exit" /\ status' = 1 /\ refusal' = why
  /\ UNCHANGED <<request, executed>>
Keep(r) == request' = r /\ UNCHANGED <<phase, refusal, executed, status>>

(* mutant: the text given first is kept *)
SetFirst(text, val) ==
  IF request.text[text] # "" THEN request ELSE [request EXCEPT !.text[text] = val]
Set(text, val) == [request EXCEPT !.text[text] = val]
Add(list, val) == [request EXCEPT !.list[list] = Append(@, val)]
(* mutant: the list takes one entry more *)
FullByOne(list) == Len(request.list[list]) > ListLimit
Full(list)     == Len(request.list[list]) = ListLimit

(* add_word: ACC_LIMIT entries at most.                                      *)
AddWord(list, val) == IF Full(list) THEN Refuse("list full") ELSE Keep(Add(list, val))

(* mutant: only the last definition of the list is compared *)
ConflictsWithLast(val) ==
  LET defs == request.list["-D"] IN
  /\ defs # <<>>
  /\ defs[Len(defs)].name = Macro[val].name /\ defs[Len(defs)].value # Macro[val].value

(* define_macro: a name may be defined again, with the same value.           *)
Conflicts(val) ==
  \E k \in DOMAIN request.list["-D"] :
    /\ request.list["-D"][k].name = Macro[val].name
    /\ request.list["-D"][k].value # Macro[val].value

DefineMacro(val) ==
  IF Macro[val].name = "" THEN Refuse("macro name")
  ELSE IF Conflicts(val) THEN Refuse("macro conflict")
  ELSE AddWord("-D", Macro[val])

(* The operand of -o, -I, -D, -L or -l, attached or separate.                *)
TakeOperand(opt, val) ==
  CASE opt = "-o" -> Keep(Set("-o", val))
    [] opt = "-D" -> DefineMacro(val)
    [] opt = "-l" -> AddWord("inputs", <<"-l", val>>)
    [] OTHER      -> AddWord(opt, val)

ShortOption(t) ==
  /\ phase = "parse" /\ t.opt \in Short
  /\ IF t.val # "" THEN Read(<<t>>) /\ TakeOperand(t.opt, t.val)
     ELSE \/ \E o \in Ahead(2) :
               /\ Read(<<t, o>>)
               /\ IF o.opt \in Words THEN TakeOperand(t.opt, o.val)
                  ELSE Refuse("missing operand")
          \/ Read(<<t>>) /\ Refuse("missing operand")

Word(t) ==
  /\ phase = "parse" /\ t.opt \in Words \cup {"empty"}
  /\ Read(<<t>>)
  /\ IF t.opt = "input" THEN AddWord("inputs", <<"", t.val>>) ELSE Refuse("word")

Stage(t) ==
  /\ phase = "parse" /\ t.opt \in {"-c", "-S"}
  /\ Read(<<t>>)
  /\ LET stage == IF t.opt = "-c" THEN "object" ELSE "assembly" IN
     IF request.stage \notin {"link", stage} THEN Refuse("stages")
     ELSE Keep([request EXCEPT !.stage = stage])

Flag(t) ==
  /\ phase = "parse" /\ t.opt \in Flags
  /\ Read(<<t>>)
  /\ Keep([request EXCEPT !.flags = @ \cup {t.opt}])

Optimize(t) ==
  /\ phase = "parse" /\ t.opt \in {"-Osize", "-Ospeed"}
  /\ Read(<<t>>)
  /\ Keep([request EXCEPT !.optimize = t.opt])

RawOption(t) ==
  /\ phase = "parse" /\ t.opt \in Raw
  /\ Read(<<t>>)
  /\ IF t.val = "" THEN Refuse("empty option") ELSE AddWord(t.opt, t.val)

(* profile_choice: an exact match with one of the names.                     *)
Choice(t) ==
  /\ phase = "parse" /\ t.opt \in Chosen
  /\ Read(<<t>>)
  /\ IF t.val \notin Choices[t.opt] THEN Refuse("choice")
     ELSE Keep([request EXCEPT !.choice[t.opt] = t.val])

(* An overlay option is given once, the other texts as often as one likes.   *)
TextOption(t) ==
  /\ phase = "parse" /\ t.opt \in Texts \ {"-o"}
  /\ Read(<<t>>)
  /\ IF \/ t.val = ""
        \/ t.opt = "-overlay-root=" /\ t.val \notin HexSizes
        \/ t.opt \in {"-overlay-root=", "-overlay="} /\ request.text[t.opt] # ""
     THEN Refuse("text") ELSE Keep(Set(t.opt, t.val))

(* -ansi, -traditional, whatever else begins with a dash, and -help or        *)
(* -version among other arguments.                                           *)
Unsupported(t) ==
  /\ phase = "parse" /\ t.opt \in {"unknown"} \cup Alone
  /\ Read(<<t>>)
  /\ Refuse("unknown")

(* A text of ACC_PATH characters, or no memory for its copy.                 *)
Exhausted ==
  /\ phase = "parse"
  /\ \E t \in Ahead(1) : Read(<<t>>)
  /\ Refuse("exhausted")

Given(text) == request.text[text] # ""
Overlay == Given("-overlay-root=") \/ Given("-overlay=")
Model == IF request.choice["-mcmodel="] = "" THEN "small" ELSE request.choice["-mcmodel="]

(* What can be said when all is read: settings that contradict each other.   *)
Contradiction ==
  \/ request.list["inputs"] = <<>>
  \/ "-squeeze" \in request.flags /\ request.stage = "assembly"
  \/ request.choice["-target="] \in {"cpm86", "dos1"} /\ Model # "small"
  \/ Overlay /\ (request.stage # "link" \/ (Given("-overlay-root=") /\ Given("-overlay=")))
  \/ Overlay /\ (Model # "small" \/ ~Given("-o"))

EndOfArguments ==
  /\ phase = "parse"
  /\ IF Contradiction THEN Refuse("contradiction")
     ELSE phase' = "plan" /\ UNCHANGED <<request, refusal, executed, status>>
  /\ UNCHANGED argv

Argument ==
  \E t \in Ahead(1) :
    \/ Word(t) \/ Stage(t) \/ Flag(t) \/ Optimize(t) \/ RawOption(t)
    \/ Choice(t) \/ TextOption(t) \/ ShortOption(t) \/ Unsupported(t)

(* main: build_plan may refuse; -### and -v print; -### ends here.           *)
BuildPlan ==
  /\ phase = "plan"
  /\ \/ /\ phase' = IF request.flags \cap {"-###", "-v"} # {} THEN "print" ELSE "execute"
        /\ UNCHANGED status
     \/ phase' = "exit" /\ status' = 1
  /\ UNCHANGED <<request, refusal, executed, argv>>

PrintPlan ==
  /\ phase = "print"
  /\ phase' = IF "-###" \in request.flags THEN "exit" ELSE "execute"
  /\ UNCHANGED <<request, refusal, executed, status, argv>>

ExecutePlan ==
  /\ phase = "execute"
  /\ executed' = TRUE
  /\ status' \in Statuses
  /\ phase' = "exit"
  /\ UNCHANGED <<request, refusal, argv>>

Next ==
  \/ Help \/ Start \/ Argument \/ Exhausted \/ EndOfArguments
  \/ BuildPlan \/ PrintPlan \/ ExecutePlan

Spec == Init /\ [][Next]_vars

-----------------------------------------------------------------------------
(***************************************************************************)
(* Properties                                                              *)
(***************************************************************************)

TypeOK ==
  /\ phase \in {"start", "parse", "plan", "print", "execute", "exit"}
  /\ request.stage \in {"link", "object", "assembly"}
  /\ request.flags \subseteq Flags
  /\ \A c \in Chosen : request.choice[c] \in Choices[c] \cup {""}
  /\ \A l \in Lists : Len(request.list[l]) <= ListLimit
  /\ Given("-overlay-root=") => request.text["-overlay-root="] \in HexSizes

(* The arguments by themselves, whatever the parser does with them: which of *)
(* them are operands, and what an option finally says.                       *)
Operand(i) == i > 1 /\ argv[i - 1].opt \in Short /\ argv[i - 1].val = ""
Options == {i \in DOMAIN argv : ~Operand(i)}
At(opt) == {i \in Options : argv[i].opt = opt}
Value(i) == IF argv[i].opt \in Short /\ argv[i].val = "" THEN argv[i + 1].val
            ELSE argv[i].val
LastOf(S) == CHOOSE i \in S : \A j \in S : j <= i
Said(opt) == IF At(opt) = {} THEN "" ELSE Value(LastOf(At(opt)))

(* The places of a list's entries in the request are those of its options.   *)
InOrder(list, S, Entry(_)) ==
  /\ Len(list) = Cardinality(S)
  /\ \A i \in S : list[Cardinality({j \in S : j <= i})] = Entry(i)

InputEntry(i) == <<IF argv[i].opt = "-l" THEN "-l" ELSE "", Value(i)>>
MacroEntry(i) == Macro[Value(i)]

(* args.c:84-85, "repeated scalar options keep the last value, lists keep    *)
(* their order": an accepted request says what the whole command line says,  *)
(* operands never being taken for options nor options for operands.          *)
RequestIsArguments ==
  phase \in {"plan", "print", "execute"} =>
    /\ \A t \in Texts : request.text[t] = Said(t)
    /\ \A c \in Chosen : request.choice[c] = Said(c)
    /\ request.flags = {f \in Flags : At(f) # {}}
    /\ request.stage = (IF At("-c") # {} THEN "object"
                        ELSE IF At("-S") # {} THEN "assembly" ELSE "link")
    /\ InOrder(request.list["inputs"], At("input") \cup At("-l"), InputEntry)
    /\ InOrder(request.list["-D"], At("-D"), MacroEntry)
    /\ \A l \in {"-I", "-L"} \cup Raw : InOrder(request.list[l], At(l), Value)

(* What build_plan takes for granted of a request (AccPlan's requests).      *)
File(text) == [dir |-> ".", stem |-> text, number |-> 0, suffix |-> ""]
NoFile == [dir |-> "", stem |-> "", number |-> 0, suffix |-> ""]
FileOr(text) == IF text = "" THEN NoFile ELSE File(text)
PlanRequest ==
  [stage |-> request.stage, squeeze |-> "-squeeze" \in request.flags,
   targetGiven |-> request.choice["-target="] # "",
   target |-> IF request.choice["-target="] = "" THEN "cpm86" ELSE request.choice["-target="],
   model |-> Model, output |-> FileOr(request.text["-o"]),
   overlayRoot |-> Given("-overlay-root="),
   overlayTable |-> FileOr(request.text["-overlay="]),
   inputs |-> [k \in DOMAIN request.list["inputs"] |-> File(request.list["inputs"][k][2])]]

Plan == INSTANCE AccPlan
  WITH Names <- {}, Requests <- {}, Readable <- {}, Directories <- {}, HardLinks <- {},
       ListContents <- <<>>, EnvAreas <- <<>>, TempLimit <- 0,
       request <- PlanRequest, pc <- phase, item <- 0, areas <- <<>>, inputs <- <<>>,
       objects <- <<>>, object <- 0, temps <- 0, target <- "", commands <- <<>>,
       outputs <- <<>>

(* No order of the arguments hides a contradiction from checks made partly  *)
(* on the way and partly at the end: what is accepted never holds both       *)
(* stages, two overlay options, two values of a macro, or an argument that   *)
(* means nothing, and it satisfies what the planner assumes of a request.    *)
AcceptedIsConsistent ==
  phase \in {"plan", "print", "execute"} =>
    /\ At("-c") = {} \/ At("-S") = {}
    /\ Cardinality(At("-overlay=") \cup At("-overlay-root=")) <= 1
    /\ \A bad \in {"@", "empty", "unknown"} \cup Alone : At(bad) = {}
    /\ \A i, j \in At("-D") :
         Macro[Value(i)].name = Macro[Value(j)].name =>
           Macro[Value(i)].value = Macro[Value(j)].value
    /\ Plan!ParserAccepts(PlanRequest)
=============================================================================
