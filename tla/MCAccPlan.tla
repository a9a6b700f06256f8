----------------------------- MODULE MCAccPlan -----------------------------
(***************************************************************************)
(* Requests and a file system for model checking AccPlan.                  *)
(***************************************************************************)
EXTENDS AccPlan

User(stem, suffix) == Host(".", stem, suffix)
Lib(name) == Host("-l", name, "")

MainC == User("a", "c")
OtherC == Host("sub", "a", "c")     \* the same base name elsewhere
AsmB  == User("b", "asm")
ObjA  == User("a", "o")
LibX  == User("x", "lib")
List  == User("l", "inp")
Table == User("r", "rsm")
Inputs == {MainC, OtherC, AsmB, ObjA, LibX, List, Lib("m"), Lib("x"), Lib("c"), User("t", "txt")}

MCListContents == [f \in {List} |-> << ObjA, LibX, User("c", "o") >>]
MCDirectories == {User("d", "exe")}

(* a.exe is another name of a.o. *)
MCHardLinks == { {User("a", "exe"), ObjA} }

(* There is an x.lib in the user's area and in the environment's. *)
MCEnvAreas == << "env" >>

MCReadable ==
  {MainC, OtherC, AsmB, ObjA, LibX, List, Table, User("c", "o"), User("a", "exe"),
   Host("env", "x", "lib"), Host("mine", "x", "lib")}
  \union {Tool(name) : name \in {"cc", "cgen", "as", "sqz", "ln"}}
  \union {Stock(name, "o") : name \in {"begin86", "begin11", "sbegin", "lbegin", "ovld", "ovbgn"}}
  \union {Stock(name, "lib") : name \in {"c86", "d11", "c", "cl", "m"}}

Plain ==
  [stage |-> "link", targetGiven |-> FALSE, target |-> "cpm86", model |-> "small",
   output |-> NoFile, debug |-> FALSE, squeeze |-> FALSE, nostart |-> FALSE,
   nostdlib |-> FALSE, overlayRoot |-> FALSE, overlayTable |-> NoFile,
   areas |-> << "mine" >>, raw |-> {}, inputs |-> << MainC >>]

(* Every list of up to three inputs, compiled, assembled or linked. *)
InputLists == UNION {[1..n -> Inputs] : n \in 1..3}
Compilations ==
  {[Plain EXCEPT !.stage = stage, !.squeeze = squeeze, !.inputs = list, !.output = output] :
     stage \in {"link", "object", "assembly"}, squeeze \in BOOLEAN, list \in InputLists,
     output \in {NoFile, ObjA}}

(* Every combination of the options of a link. *)
LinkNames == {NoFile, Table, User("o", ""), User("d", "exe")}
  \union {User("a", suffix) : suffix \in {"cmd", "exe", "com", "ovr", "lib"}}
Links ==
  {[Plain EXCEPT !.inputs = list, !.output = output, !.targetGiven = choice[1],
      !.target = choice[2], !.model = model, !.debug = debug, !.overlayRoot = root,
      !.overlayTable = table, !.nostdlib = nostdlib, !.raw = raw] :
     list \in { << MainC, LibX, AsmB >>, << ObjA, Lib("x") >>, << Lib("m"), List >> },
     output \in LinkNames,
     choice \in { << FALSE, "cpm86" >>, << TRUE, "cpm86" >>, << TRUE, "dos1" >>, << TRUE, "dos2" >> },
     model \in {"small", "large"}, debug \in BOOLEAN, root \in BOOLEAN,
     table \in {NoFile, Table}, nostdlib \in BOOLEAN, raw \in { {}, {"as"} }}

MCNames ==
  UNION {{file.dir, file.stem, file.suffix} :
           file \in MCReadable \union MCDirectories \union Inputs \union LinkNames}
  \union {"", "E", "u", "env", "mine", "lib", "dbg", "rsp"}

MCRequests == Compilations \union Links

(* None of these names is in the workspace. *)
ASSUME NamesAreApart == WorkspaceIsApart
=============================================================================
