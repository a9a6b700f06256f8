------------------------------ MODULE AccPlan ------------------------------
(***************************************************************************)
(* The planner of acc (src/aztec43-acc/plan.c): build_plan turns a parsed  *)
(* request into the commands, outputs and workspace temporaries that an    *)
(* executor takes as given.                                                *)
(*                                                                         *)
(* A file is named by its directory, stem and suffix; the files of the     *)
(* workspace, whose directory is "E", also by a number (E:\u0001.o).  Two  *)
(* names are equal here when path_equal finds their guest forms equal.     *)
(* A -lNAME input is a name of the directory "-l".                         *)
(*                                                                         *)
(* A command keeps the files its tool reads, in argument order; options    *)
(* (flags, macros, include areas, raw options) are left out, and the       *)
(* errors they can cause are, with memory and path length, in Refuse.      *)
(***************************************************************************)
EXTENDS Integers, Sequences

CONSTANTS
  Names,          \* the directory names, stems and suffixes that occur
  Requests,       \* the requests given to build_plan
  Readable,       \* the files that exist, the tool root's "bin" and "lib" included
  Directories,    \* the names that are directories
  HardLinks,      \* sets of existing names of one file (Unix)
  ListContents,   \* the entries of each .inp file
  EnvAreas,       \* the library areas of the environment variable CLIB
  ListLimit,      \* ACC_LIMIT, the capacity of a word list
  TempLimit       \* PLAN_TEMP_LIMIT

ASSUME LimitsAreNat == ListLimit \in Nat /\ TempLimit \in Nat

Host(dir, stem, suffix) == [dir |-> dir, stem |-> stem, number |-> 0, suffix |-> suffix]
Temp(n, suffix) == [dir |-> "E", stem |-> "u", number |-> n, suffix |-> suffix]
WithSuffix(file, suffix) == [file EXCEPT !.suffix = suffix]
NoFile == Host("", "", "")

Files == [dir : Names, stem : Names, number : Nat, suffix : Names]

RequestType ==
  [stage : {"link", "object", "assembly"}, targetGiven : BOOLEAN,
   target : {"cpm86", "dos1", "dos2"}, model : {"small", "medium", "compact", "large"},
   output : Files, debug : BOOLEAN, squeeze : BOOLEAN, nostart : BOOLEAN,
   nostdlib : BOOLEAN, overlayRoot : BOOLEAN, overlayTable : Files,
   areas : Seq(Names), raw : SUBSET {"cc", "as", "ln"}, inputs : Seq(Files)]

ASSUME RequestShape ==
  /\ {"", ".", "E", "u", "a", "lib", "o", "asm", "cmd", "exe", "dbg", "rsm", "rsp"} \subseteq Names
  /\ Requests \subseteq RequestType
  /\ Readable \subseteq Files
  /\ \A file \in Readable : file.suffix = "inp" => ListContents[file] \in Seq(Files)
  /\ EnvAreas \in Seq(Names)

(* The rules that parse_request checks once all arguments are read. *)
ParserAccepts(r) ==
  LET overlays == r.overlayRoot \/ r.overlayTable # NoFile IN
  /\ r.inputs # << >>
  /\ ~ (r.squeeze /\ r.stage = "assembly")
  /\ r.targetGiven /\ r.target # "dos2" => r.model = "small"
  /\ ~ (r.overlayRoot /\ r.overlayTable # NoFile)
  /\ overlays => r.stage = "link" /\ r.model = "small" /\ r.output # NoFile

VARIABLES
  request,    \* what parse_request returned
  pc,         \* the part of build_plan being run
  item,       \* the input, or the command, at hand
  areas,      \* ctx->libraries
  inputs,     \* ctx->inputs: the inputs with the .inp file expanded
  objects,    \* ctx->objects: what the linker gets for each source
  object,     \* link_inputs: how many of them it has listed
  temps,      \* plan->temps
  target,     \* plan->target
  commands,   \* plan->first ...
  outputs     \* plan->host_outputs with plan->products

vars == << request, pc, item, areas, inputs, objects, object, temps, target,
           commands, outputs >>

Init ==
  /\ request \in {r \in Requests : ParserAccepts(r)}
  /\ pc = "areas" /\ item = 1
  /\ areas = << >> /\ inputs = << >> /\ objects = << >> /\ object = 0
  /\ temps = 0 /\ target = request.target
  /\ commands = << >> /\ outputs = << >>

(***************************************************************************)
(* Names                                                                   *)
(***************************************************************************)
Kind(file) ==
  CASE file.dir = "-l"              -> "libname"
    [] file.suffix = "c"            -> "c"
    [] file.suffix \in {"asm", "s"} -> "asm"
    [] file.suffix = "o"            -> "object"
    [] file.suffix = "lib"          -> "library"
    [] file.suffix = "inp"          -> "list"
    [] OTHER                        -> "unknown"

IsSource(file) == Kind(file) \in {"c", "asm"}
IsFile(file) == Kind(file) \notin {"unknown", "libname"}

Linking == request.stage = "link"
Overlay == request.overlayTable # NoFile
Room(list, words) == Len(list) + words <= ListLimit

(* On Unix an existing output may be another name of an input. *)
SameFile(p, q) == p = q \/ \E twins \in HardLinks : {p, q} \subseteq twins

(* A slip: only the names are compared, not the files. *)
PublishableByName(file) ==
  /\ file \notin Directories
  /\ \A o \in 1..Len(outputs) : outputs[o].host # file
  /\ \A i \in 1..Len(inputs) : Kind(inputs[i]) # "libname" => file # inputs[i]
  /\ Room(outputs, 1)

(* output_path: may file become an output? *)
Publishable(file) ==
  /\ file \notin Directories
  /\ \A o \in 1..Len(outputs) : outputs[o].host # file
  /\ \A i \in 1..Len(inputs) : Kind(inputs[i]) # "libname" => ~ SameFile(file, inputs[i])
  /\ Room(outputs, 1)

AddOutput(file, product) ==
  /\ Publishable(file)
  /\ outputs' = Append(outputs, [host |-> file, product |-> product])

(***************************************************************************)
(* validate                                                                *)
(***************************************************************************)
Goto(part) == pc' = part /\ item' = 1

(* paths: the user's library areas, then CLIB's, then the tool root's.  One  *)
(* that is not a directory of a guest drive is an error left to Refuse.      *)
SearchAreas ==
  /\ pc = "areas"
  /\ areas' = request.areas \o EnvAreas \o << "lib" >>
  /\ Room(areas', 0)
  /\ Goto("expand")
  /\ UNCHANGED << request, inputs, objects, object, temps, target, commands, outputs >>

(* expand_inputs: a link takes one .inp file and no other, or none. *)
ListAlone ==
  LET chosen(S) == {i \in 1..Len(request.inputs) : Kind(request.inputs[i]) \in S} IN
  \A i \in chosen({"list"}) :
    Linking /\ chosen({"list", "c", "asm", "object", "library", "unknown"}) = {i}

(* read_list: object and library names only, in their order. *)
Entries(file) ==
  IF Kind(file) = "list" THEN ListContents[file] ELSE << file >>

ExpandInput ==
  /\ pc = "expand" /\ item <= Len(request.inputs)
  /\ ListAlone
  /\ LET file == request.inputs[item] IN
     /\ Kind(file) = "list" =>
          /\ file \in Readable
          /\ \A e \in 1..Len(Entries(file)) : Kind(Entries(file)[e]) \in {"object", "library"}
     /\ inputs' = inputs \o Entries(file)
  /\ Room(inputs', 0)
  /\ item' = item + 1
  /\ UNCHANGED << request, pc, areas, objects, object, temps, target, commands, outputs >>

EndExpand ==
  /\ pc = "expand" /\ item > Len(request.inputs)
  /\ Goto("inputs")
  /\ UNCHANGED << request, areas, inputs, objects, object, temps, target, commands, outputs >>

(* The checks of one input; only a library may be named twice. *)
CheckInput ==
  /\ pc = "inputs" /\ item <= Len(inputs)
  /\ LET file == inputs[item] IN
     /\ Kind(file) # "unknown"
     /\ ~ Linking => IsSource(file)
     /\ request.stage = "assembly" => Kind(file) = "c"
     /\ IsFile(file) => file \in Readable
     /\ Kind(file) \notin {"libname", "library"} =>
          \A j \in 1..(item - 1) : inputs[j] # file
  /\ item' = item + 1
  /\ UNCHANGED << request, pc, areas, inputs, objects, object, temps, target, commands, outputs >>

Chosen(kinds) == {i \in 1..Len(inputs) : Kind(inputs[i]) \in kinds}

(* The tools a plan needs, as files of the tool root. *)
Tool(name) == Host("bin", name, "exe")
Stock(name, suffix) == Host("lib", name, suffix)
RequiredTools ==
  UNION { {Tool(name) : name \in
             (IF Chosen({"c"}) = {} THEN {} ELSE {"cc", "cgen"})
             \union (IF Chosen({"asm"}) # {} \/ (Chosen({"c"}) # {} /\ request.stage # "assembly")
                     THEN {"as"} ELSE {})
             \union (IF request.squeeze THEN {"sqz"} ELSE {})
             \union (IF Linking THEN {"ln"} ELSE {})},
          IF request.overlayRoot THEN {Stock("ovld", "o")} ELSE {},
          IF Overlay THEN {Stock("ovbgn", "o")} ELSE {} }

CheckRequest ==
  /\ pc = "inputs" /\ item > Len(inputs)
  /\ Chosen({"c", "asm", "object", "list"}) # {}
  /\ "cc" \in request.raw => Chosen({"c"}) # {}
  /\ "as" \in request.raw => Chosen({"asm"}) # {}
  /\ "ln" \in request.raw => Linking
  /\ request.squeeze => Chosen({"c", "asm"}) # {}
  /\ ~ Linking /\ request.output # NoFile =>
       \A i, j \in Chosen({"c", "asm"}) : i = j
  /\ RequiredTools \subseteq Readable
  /\ Goto(IF Linking THEN "target" ELSE "compile")
  /\ UNCHANGED << request, areas, inputs, objects, object, temps, target, commands, outputs >>

(***************************************************************************)
(* resolve_target: the suffix of -o and -target must agree; without -o,    *)
(* -target decides.  An overlay has no system of its own.                  *)
(***************************************************************************)
DosSuffix(file) == file.suffix \in {"exe", "com"}

(* A slip: -target wins whatever the suffix says. *)
ResolveUnchecked ==
  /\ pc = "target"
  /\ target' = IF request.targetGiven \/ Overlay \/ request.output = NoFile THEN request.target
               ELSE IF DosSuffix(request.output) THEN "dos2" ELSE "cpm86"
  /\ Goto("compile")
  /\ UNCHANGED << request, areas, inputs, objects, object, temps, commands, outputs >>

ResolveTarget ==
  /\ pc = "target"
  /\ LET asked == IF request.targetGiven THEN request.target ELSE "cpm86" IN
     \/ /\ Overlay \/ request.output = NoFile
        /\ target' = asked
     \/ /\ ~ Overlay /\ request.output # NoFile
        /\ DosSuffix(request.output) \/ request.output.suffix = "cmd"
        /\ request.targetGiven => (DosSuffix(request.output) <=> asked # "cpm86")
        /\ target' = IF request.targetGiven THEN asked
                     ELSE IF DosSuffix(request.output) THEN "dos2" ELSE "cpm86"
  /\ Goto("compile")
  /\ UNCHANGED << request, areas, inputs, objects, object, temps, commands, outputs >>

(***************************************************************************)
(* compile_input                                                           *)
(***************************************************************************)
NewCommand(tool, source, product, reads) ==
  [tool |-> tool, source |-> source, product |-> product, reads |-> reads,
   response |-> NoFile]

Suffix == IF request.stage = "assembly" THEN "asm" ELSE "o"

(* Slips: squeezed before compiled; not squeezed when it is to be linked. *)
SqueezeFirst(file, product) ==
  (IF request.squeeze THEN << NewCommand("sqz", file, product, << product >>) >> ELSE << >>)
  \o << NewCommand(IF Kind(file) = "c" THEN "cc" ELSE "as", file, product, << file >>) >>

(* The compiler or assembler, then sqz on the object in place. *)
CompileCommands(file, product) ==
  << NewCommand(IF Kind(file) = "c" THEN "cc" ELSE "as", file, product, << file >>) >>
  \o (IF request.squeeze THEN << NewCommand("sqz", file, product, << product >>) >>
      ELSE << >>)

CompileOutput(file) ==
  IF request.output # NoFile THEN request.output ELSE Host(".", file.stem, Suffix)

(* A slip: the counter of temporaries is not advanced. *)
CompileReusesName ==
  /\ pc = "compile" /\ item <= Len(inputs) /\ IsSource(inputs[item])
  /\ temps < TempLimit
  /\ LET product == Temp(temps + 1, Suffix) IN
     /\ commands' = commands \o CompileCommands(inputs[item], product)
     /\ \/ /\ Linking /\ objects' = Append(objects, product) /\ outputs' = outputs
        \/ /\ ~ Linking /\ AddOutput(CompileOutput(inputs[item]), product) /\ objects' = objects
  /\ item' = item + 1
  /\ UNCHANGED << request, pc, areas, inputs, object, target, temps >>

CompileInput ==
  /\ pc = "compile" /\ item <= Len(inputs) /\ IsSource(inputs[item])
  /\ temps < TempLimit
  /\ LET product == Temp(temps + 1, Suffix) IN
     /\ temps' = temps + 1
     /\ commands' = commands \o CompileCommands(inputs[item], product)
     /\ \/ /\ Linking /\ Room(objects, 1)
           /\ objects' = Append(objects, product)
           /\ outputs' = outputs
        \/ /\ ~ Linking
           /\ AddOutput(CompileOutput(inputs[item]), product)
           /\ objects' = objects
  /\ item' = item + 1
  /\ UNCHANGED << request, pc, areas, inputs, object, target >>

SkipInput ==
  /\ pc = "compile" /\ item <= Len(inputs) /\ ~ IsSource(inputs[item])
  /\ item' = item + 1
  /\ UNCHANGED << request, pc, areas, inputs, objects, object, temps, target, commands, outputs >>

EndCompile ==
  /\ pc = "compile" /\ item > Len(inputs)
  /\ Goto(IF Linking THEN "output" ELSE "serialize")
  /\ UNCHANGED << request, areas, inputs, objects, object, temps, target, commands, outputs >>

(***************************************************************************)
(* link_inputs                                                             *)
(***************************************************************************)
LinkOutput ==
  IF request.output # NoFile THEN request.output
  ELSE Host(".", "a", IF target = "cpm86" THEN "cmd" ELSE "exe")

(* strrchr finds no suffix and path_equal is given its null pointer. *)
Crash ==
  /\ pc = "output" /\ Overlay /\ LinkOutput.suffix = ""
  /\ Goto("crashed")
  /\ UNCHANGED << request, areas, inputs, objects, object, temps, target, commands, outputs >>

(* A slip: an overlay may have any suffix. *)
SuffixUnlessOverlay ==
  /\ request.overlayRoot => LinkOutput.suffix # "com"
  /\ request.model # "small" => target = "dos2" /\ LinkOutput.suffix = "exe"

SuffixAllowed ==
  /\ request.overlayRoot => LinkOutput.suffix # "com"
  /\ Overlay => LinkOutput.suffix = "ovr"
  /\ request.model # "small" => target = "dos2" /\ LinkOutput.suffix = "exe"

NameOutput ==
  /\ pc = "output"
  /\ SuffixAllowed
  /\ temps < TempLimit
  /\ temps' = temps + 1
  /\ AddOutput(LinkOutput, Temp(temps + 1, LinkOutput.suffix))
  /\ Goto("debug")
  /\ UNCHANGED << request, areas, inputs, objects, object, target, commands >>

(* ln -g and ln -r write a file beside the product and of its name. *)
LinkProduct == outputs[1].product
SideFile(wanted, suffix) ==
  IF wanted THEN AddOutput(WithSuffix(LinkOutput, suffix), WithSuffix(LinkProduct, suffix))
  ELSE outputs' = outputs

DebugOutput ==
  /\ pc = "debug"
  /\ SideFile(request.debug, "dbg")
  /\ Goto("table")
  /\ UNCHANGED << request, areas, inputs, objects, object, temps, target, commands >>

TableOutput ==
  /\ pc = "table"
  /\ SideFile(request.overlayRoot, "rsm")
  /\ Goto("startup")
  /\ UNCHANGED << request, areas, inputs, objects, object, temps, target, commands >>

(* profile.c: the stock files of a target and model (-lm: software floats).  *)
Startup ==
  Stock(CASE target = "cpm86" -> "begin86"
          [] target = "dos1"  -> "begin11"
          [] target = "dos2"  -> [small |-> "sbegin", medium |-> "beginlc",
                                  compact |-> "beginld", large |-> "lbegin"][request.model],
        "o")
Runtime ==
  Stock(CASE target = "cpm86" -> "c86"
          [] target = "dos1"  -> "d11"
          [] target = "dos2"  -> [small |-> "c", medium |-> "clc",
                                  compact |-> "cld", large |-> "cl"][request.model],
        "lib")
Math ==
  Stock([small |-> "m", medium |-> "mlc", compact |-> "mld", large |-> "ml"][request.model], "lib")
RuntimeNames == {"c", "c86", "d11", "cl", "clc", "cld"}

StartFiles ==
  IF request.overlayRoot \/ Overlay \/ request.nostart \/ request.nostdlib
  THEN << >> ELSE << Startup >>

Listed(files) == \A f \in 1..Len(files) : files[f] \in Readable

(* The tool, "-o" and the product come before the files. *)
LinkerWords == 3

StartLink ==
  /\ pc = "startup"
  /\ Listed(StartFiles)
  /\ commands' = Append(commands, NewCommand("ln", LinkOutput, LinkProduct, StartFiles))
  /\ Goto("link")
  /\ UNCHANGED << request, areas, inputs, objects, object, temps, target, outputs >>

Reads == commands[Len(commands)].reads
LinkFiles(files) ==
  /\ Room(Reads \o files, LinkerWords)
  /\ commands' = [commands EXCEPT ![Len(commands)].reads = @ \o files]

(* user_library: the first area that has the library. *)
UserLibrary(name, file) ==
  \E a \in 1..Len(areas) :
    /\ file = Host(areas[a], name, "lib") /\ file \in Readable
    /\ \A b \in 1..(a - 1) : Host(areas[b], name, "lib") \notin Readable

Library(name, file) ==
  \/ name = "m" /\ file = Math /\ file \in Readable
  \/ name # "m" /\ name \notin RuntimeNames /\ UserLibrary(name, file)

(* A slip: every source is linked as the first object. *)
LinkFirstObject ==
  /\ pc = "link" /\ item <= Len(inputs) /\ IsSource(inputs[item])
  /\ LinkFiles(<< objects[1] >>)
  /\ object' = object + 1
  /\ item' = item + 1
  /\ UNCHANGED << request, pc, areas, inputs, objects, temps, target, outputs >>

(* One input, at its place in the command line. *)
LinkSource ==
  /\ pc = "link" /\ item <= Len(inputs) /\ IsSource(inputs[item])
  /\ LinkFiles(<< objects[object + 1] >>)
  /\ object' = object + 1
  /\ item' = item + 1
  /\ UNCHANGED << request, pc, areas, inputs, objects, temps, target, outputs >>

LinkLibrary ==
  /\ pc = "link" /\ item <= Len(inputs) /\ Kind(inputs[item]) = "libname"
  /\ \E file \in Readable : Library(inputs[item].stem, file) /\ LinkFiles(<< file >>)
  /\ item' = item + 1
  /\ UNCHANGED << request, pc, areas, inputs, objects, object, temps, target, outputs >>

LinkFile ==
  /\ pc = "link" /\ item <= Len(inputs)
  /\ Kind(inputs[item]) \in {"object", "library"}
  /\ LinkFiles(<< inputs[item] >>)
  /\ item' = item + 1
  /\ UNCHANGED << request, pc, areas, inputs, objects, object, temps, target, outputs >>

(* The overlay loader, or the root's symbols and the overlay start; last the *)
(* C runtime.                                                                *)
EndFiles ==
  (IF request.overlayRoot THEN << Stock("ovld", "o") >> ELSE << >>)
  \o (IF Overlay THEN << request.overlayTable, Stock("ovbgn", "o") >> ELSE << >>)
  \o (IF Overlay \/ request.nostdlib THEN << >> ELSE << Runtime >>)

EndLink ==
  /\ pc = "link" /\ item > Len(inputs)
  /\ Overlay => request.overlayTable.suffix = "rsm"
  /\ Listed(EndFiles)
  /\ LinkFiles(EndFiles)
  /\ Goto("serialize")
  /\ UNCHANGED << request, areas, inputs, objects, object, temps, target, outputs >>

(***************************************************************************)
(* serialize_commands: the linker's command goes into a response file.     *)
(***************************************************************************)
(* A slip: the response file is named without looking at the limit. *)
SerializeUnlimited ==
  /\ pc = "serialize" /\ item <= Len(commands)
  /\ \/ commands[item].tool # "ln" /\ UNCHANGED << temps, commands >>
     \/ /\ commands[item].tool = "ln"
        /\ temps' = temps + 1
        /\ commands' = [commands EXCEPT ![item].response = Temp(temps + 1, "rsp")]
  /\ item' = item + 1
  /\ UNCHANGED << request, pc, areas, inputs, objects, object, target, outputs >>

Serialize ==
  /\ pc = "serialize" /\ item <= Len(commands)
  /\ \/ commands[item].tool # "ln" /\ UNCHANGED << temps, commands >>
     \/ /\ commands[item].tool = "ln"
        /\ temps < TempLimit
        /\ temps' = temps + 1
        /\ commands' = [commands EXCEPT ![item].response = Temp(temps + 1, "rsp")]
  /\ item' = item + 1
  /\ UNCHANGED << request, pc, areas, inputs, objects, object, target, outputs >>

EndSerialize ==
  /\ pc = "serialize" /\ item > Len(commands)
  /\ Goto("planned")
  /\ UNCHANGED << request, areas, inputs, objects, object, temps, target, commands, outputs >>

(* Any step can fail: on a check that its action's guard states, or on one   *)
(* left out (memory, path length, options, macros, the DOS command tail).    *)
(* The plan is dropped: main runs nothing.                                   *)
Ended == pc \in {"planned", "refused", "crashed"}

Refuse ==
  /\ ~ Ended
  /\ Goto("refused")
  /\ UNCHANGED << request, areas, inputs, objects, object, temps, target, commands, outputs >>

Next ==
  \/ SearchAreas \/ ExpandInput \/ EndExpand \/ CheckInput \/ CheckRequest
  \/ ResolveTarget
  \/ CompileInput \/ SkipInput \/ EndCompile
  \/ Crash \/ NameOutput \/ DebugOutput \/ TableOutput \/ StartLink
  \/ LinkSource \/ LinkLibrary \/ LinkFile \/ EndLink
  \/ Serialize \/ EndSerialize
  \/ Refuse

Spec == Init /\ [][Next]_vars

(***************************************************************************)
(* Properties                                                              *)
(***************************************************************************)
Planned == pc = "planned"

(* What every variable holds; the counter of temporaries stays in its limit  *)
(* and no list outgrows its capacity (temp_name, add_word).                  *)
TypeOK ==
  /\ pc \in {"areas", "expand", "inputs", "target", "compile", "output", "debug",
             "table", "startup", "link", "serialize", "planned", "refused", "crashed"}
  /\ item \in Nat \ {0} /\ object \in 0..Len(objects) /\ temps \in 0..TempLimit
  /\ target \in {"cpm86", "dos1", "dos2"}
  /\ areas \in Seq(Names) /\ inputs \in Seq(Files) /\ objects \in Seq(Files)
  /\ commands \in Seq([tool : {"cc", "as", "sqz", "ln"}, source : Files, product : Files,
                       reads : Seq(Files), response : Files])
  /\ outputs \in Seq([host : Files, product : Files])
  /\ Room(areas, 0) /\ Room(inputs, 0) /\ Room(objects, 0) /\ Room(outputs, 0)

(* What a command writes in the workspace, the linker's side files included. *)
Writes(c) ==
  {commands[c].product}
  \union {WithSuffix(commands[c].product, suffix) : suffix \in
            (IF commands[c].tool = "ln" /\ request.debug THEN {"dbg"} ELSE {})
            \union (IF commands[c].tool = "ln" /\ request.overlayRoot THEN {"rsm"} ELSE {})}

(* A name in the workspace, which does not exist yet, is none the user gives:*)
(* a Unix file is on drive C: or D: (path_guest).  A DOS user may have an E: *)
(* drive; the planner then takes its files for the workspace's.              *)
WorkspaceIsApart ==
  /\ \A r \in Requests :
       /\ r.output.dir # "E" /\ r.overlayTable.dir # "E"
       /\ \A i \in 1..Len(r.inputs) : r.inputs[i].dir # "E"
       /\ \A a \in 1..Len(r.areas) : r.areas[a] # "E"
  /\ \A a \in 1..Len(EnvAreas) : EnvAreas[a] # "E"
  /\ \A file \in Readable : Kind(file) = "list" =>
       \A e \in 1..Len(Entries(file)) : Entries(file)[e].dir # "E"

(* "Every temporary of an invocation has its own name" (plan.h): no command  *)
(* writes what another wrote, except sqz its object right after the compiler *)
(* did; no response file is a product; no two outputs are one product.       *)
TemporariesDistinct ==
  /\ \A c, d \in 1..Len(commands) :
       /\ c < d /\ Writes(c) \intersect Writes(d) # {} =>
            d = c + 1 /\ commands[d].tool = "sqz" /\ commands[c].tool # "sqz"
       /\ commands[c].response \notin Writes(d)
  /\ \A o, p \in 1..Len(outputs) : o # p => outputs[o].product # outputs[p].product

(* The executors run commands in order in an empty workspace and then        *)
(* publish: a command reads only workspace files that an earlier one wrote,  *)
(* and what is published has been written by one.                            *)
ReadsWhatWasWritten ==
  Planned =>
    /\ commands # << >> /\ outputs # << >>
    /\ \A c \in 1..Len(commands), k \in 1..ListLimit :
         k <= Len(commands[c].reads) /\ commands[c].reads[k].dir = "E" =>
           \E d \in 1..(c - 1) : commands[c].reads[k] \in Writes(d)
    /\ \A o \in 1..Len(outputs) :
         \E c \in 1..Len(commands) : outputs[o].product \in Writes(c)

(* output_path: publishing writes each destination once and destroys no      *)
(* input, named by the user or by the .inp file, under any of its names.     *)
OutputsSafe ==
  /\ \A o, p \in 1..Len(outputs) : o # p => outputs[o].host # outputs[p].host
  /\ \A o \in 1..Len(outputs), i \in 1..Len(inputs) :
       Kind(inputs[i]) # "libname" => ~ SameFile(outputs[o].host, inputs[i])

(* Nor does it replace a file that some command reads without its being an   *)
(* input that output_path compares: a library found through -l, the stock    *)
(* files, the overlay root's symbol table.                                   *)
NothingReadIsReplaced ==
  \A o \in 1..Len(outputs), c \in 1..Len(commands), k \in 1..ListLimit :
    k <= Len(commands[c].reads) => commands[c].reads[k] # outputs[o].host

(* The linker, which reads its files once, gets every input at the user's    *)
(* place: a source as the object compiled from that source, and a file       *)
(* as itself (link_inputs).                                                  *)
LinkOrder ==
  \A c \in 1..Len(commands) : Planned /\ commands[c].tool = "ln" =>
    \A i \in 1..Len(inputs) :
      LET read == commands[c].reads[Len(StartFiles) + i] IN
      \/ Kind(inputs[i]) = "libname" /\ read.suffix = "lib"
      \/ Kind(inputs[i]) \in {"object", "library"} /\ read = inputs[i]
      \/ \E d \in 1..(c - 1) : commands[d].source = inputs[i] /\ commands[d].product = read

(* The startup and runtime linked are of the system the output's suffix      *)
(* names and of the target the user gave, and models and overlays are used   *)
(* only where that system has them (resolve_target, link_inputs).            *)
ImageMatchesTarget ==
  Planned /\ Linking /\ ~ Overlay =>
    /\ LinkOutput.suffix = "cmd" <=> target = "cpm86"
    /\ request.targetGiven => target = request.target
    /\ request.model # "small" => target = "dos2" /\ LinkOutput.suffix = "exe"
    /\ request.overlayRoot => LinkOutput.suffix \in {"cmd", "exe"}

(* Every source is compiled once and, with -squeeze, squeezed once before    *)
(* anything else happens to its object; without a link, each has its output. *)
SourcesDelivered ==
  Planned =>
    LET runs(tools, i) == {c \in 1..Len(commands) :
                             commands[c].tool \in tools /\ commands[c].source = inputs[i]} IN
    \A i \in Chosen({"c", "asm"}) :
      \E c \in 1..Len(commands) :
        /\ runs({"cc", "as"}, i) = {c}
        /\ runs({"sqz"}, i) = IF request.squeeze THEN {c + 1} ELSE {}
        /\ Linking \/ \E o \in 1..Len(outputs) : outputs[o].product = commands[c].product

(* What the executor is given can be executed and is what was asked for:     *)
(* no command or output waits for a file nobody writes, and no source is     *)
(* forgotten, compiled twice or used before it is squeezed.                  *)
CommandsFit == ReadsWhatWasWritten /\ SourcesDelivered

(* The comment of link_inputs, "The output suffix must match the target: ... *)
(* .ovr for an overlay": an overlay output of any other form is refused, and *)
(* build_plan always returns.  Violated: an output without a suffix crashes. *)
BadSuffixIsRefused == pc # "crashed"
=============================================================================
