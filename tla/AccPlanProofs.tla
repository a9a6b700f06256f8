--------------------------- MODULE AccPlanProofs ---------------------------
(***************************************************************************)
(* Proofs about AccPlan: for every request and every file system, what a   *)
(* plan publishes never collides and destroys no input and nothing read,   *)
(* its temporaries have names of their own, its commands can be executed   *)
(* and deliver every source, and a link is in the user's order and of one  *)
(* system.                                                                 *)
(***************************************************************************)
EXTENDS AccPlan, SequenceTheorems, FiniteSetTheorems, TLAPS

OutputType == [host : Files, product : Files]

(* The types that the arguments below need. *)
Typed ==
  /\ request \in RequestType
  /\ item \in Nat \ {0} /\ temps \in Nat
  /\ inputs \in Seq(Files)
  /\ outputs \in Seq(OutputType)

(* Nothing is an output before the inputs are final. *)
InputsFirst == pc \in {"areas", "expand"} => outputs = << >>

OutputInv == Typed /\ InputsFirst /\ OutputsSafe

(* A name of the host is a file.                                             *)
LEMMA HostIsFile ==
  ASSUME NEW dir \in Names, NEW stem \in Names, NEW suffix \in Names
  PROVE  Host(dir, stem, suffix) \in Files
BY DEF Host, Files

(* A name in the workspace is a file.                                        *)
LEMMA TempIsFile ==
  ASSUME NEW n \in Nat, NEW suffix \in Names
  PROVE  Temp(n, suffix) \in Files
BY RequestShape DEF Temp, Files

(* A file stays one under another suffix.                                    *)
LEMMA WithSuffixIsFile ==
  ASSUME NEW file \in Files, NEW suffix \in Names
  PROVE  WithSuffix(file, suffix) \in Files
BY DEF WithSuffix, Files

(* The value that stands for no file is typed as one.                        *)
LEMMA NoFileIsFile == NoFile \in Files
BY RequestShape, HostIsFile DEF NoFile

(* Adding one output that output_path accepts. *)
LEMMA AddSafe ==
  ASSUME NEW file \in Files, NEW product \in Files,
         Typed, OutputsSafe, AddOutput(file, product), inputs' = inputs
  PROVE  outputs' \in Seq(OutputType) /\ OutputsSafe'
<1>1. outputs' = Append(outputs, [host |-> file, product |-> product]) /\ Publishable(file)
  BY DEF AddOutput
<1>2. [host |-> file, product |-> product] \in OutputType
  BY DEF OutputType
<1>3. outputs' \in Seq(OutputType)
  BY <1>1, <1>2 DEF Typed
<1>4. /\ Len(outputs') = Len(outputs) + 1
      /\ \A o \in 1..Len(outputs) : outputs'[o] = outputs[o]
      /\ outputs'[Len(outputs) + 1].host = file
  BY <1>1 DEF Typed
<1>5. Len(outputs) \in Nat /\ Len(inputs) \in Nat
  BY DEF Typed
<1>6. \A o \in 1..Len(outputs') : o \in 1..Len(outputs) \/ o = Len(outputs) + 1
  BY <1>4, <1>5
<1>7. \A o, p \in 1..Len(outputs') : o # p => outputs'[o].host # outputs'[p].host
  <2> SUFFICES ASSUME NEW o \in 1..Len(outputs'), NEW p \in 1..Len(outputs'), o # p
               PROVE  outputs'[o].host # outputs'[p].host
    OBVIOUS
  <2>1. CASE o \in 1..Len(outputs) /\ p \in 1..Len(outputs)
    BY <1>4, <2>1 DEF OutputsSafe
  <2>2. CASE o = Len(outputs) + 1 /\ p \in 1..Len(outputs)
    BY <1>1, <1>4, <2>2 DEF Publishable
  <2>3. CASE p = Len(outputs) + 1 /\ o \in 1..Len(outputs)
    BY <1>1, <1>4, <2>3 DEF Publishable
  <2> QED
    BY <1>6, <2>1, <2>2, <2>3
<1>8. \A o \in 1..Len(outputs'), i \in 1..Len(inputs) :
        Kind(inputs[i]) # "libname" => ~ SameFile(outputs'[o].host, inputs[i])
  <2> SUFFICES ASSUME NEW o \in 1..Len(outputs'), NEW i \in 1..Len(inputs),
                      Kind(inputs[i]) # "libname"
               PROVE  ~ SameFile(outputs'[o].host, inputs[i])
    OBVIOUS
  <2>1. CASE o \in 1..Len(outputs)
    BY <1>4, <2>1 DEF OutputsSafe
  <2>2. CASE o = Len(outputs) + 1
    BY <1>1, <1>4, <2>2 DEF Publishable
  <2> QED
    BY <1>6, <2>1, <2>2
<1> QED
  BY <1>3, <1>7, <1>8 DEF OutputsSafe, Kind, SameFile

(* The outputs that a request names are files.                               *)
LEMMA OutputNames ==
  ASSUME Typed
  PROVE  /\ Suffix \in Names /\ LinkOutput \in Files
         /\ \A file \in Files : CompileOutput(file) \in Files
<1>1. request.output \in Files
  BY DEF Typed, RequestType
<1>2. LinkOutput \in Files
  BY <1>1, RequestShape, HostIsFile DEF LinkOutput
<1>3. Suffix \in Names
  BY RequestShape DEF Suffix
<1>4. \A file \in Files : file.stem \in Names
  BY DEF Files
<1> QED
  BY <1>1, <1>2, <1>3, <1>4, RequestShape, HostIsFile DEF CompileOutput

(* What the linker makes is a file.                                          *)
LEMMA LinkProductIsFile ==
  ASSUME Typed, outputs # << >>
  PROVE  LinkProduct \in Files
<1>1. outputs \in Seq(OutputType) /\ 1 \in 1..Len(outputs)
  BY DEF Typed
<1>2. outputs[1] \in OutputType
  BY <1>1
<1> QED
  BY <1>2 DEF LinkProduct, OutputType

(* A side file beside the first output. *)
LEMMA SideFileSafe ==
  ASSUME NEW wanted, NEW suffix \in Names, Typed, OutputsSafe, outputs # << >>,
         SideFile(wanted, suffix), inputs' = inputs
  PROVE  outputs' \in Seq(OutputType) /\ OutputsSafe'
<1>1. LinkProduct \in Files
  BY LinkProductIsFile
<1>2. CASE outputs' = outputs
  BY <1>2 DEF OutputsSafe, Kind, SameFile, Typed
<1>3. CASE AddOutput(WithSuffix(LinkOutput, suffix), WithSuffix(LinkProduct, suffix))
  BY <1>1, <1>3, OutputNames, WithSuffixIsFile, AddSafe
<1> QED
  BY <1>2, <1>3 DEF SideFile

(* Where a link is, its executable is the first output. *)
LinkNamed == pc \in {"debug", "table", "startup", "link"} => outputs # << >>

SafeInv == OutputInv /\ LinkNamed

(* No output has been named at the start.                                    *)
LEMMA SafeInit == Init => SafeInv
<1> SUFFICES ASSUME Init PROVE SafeInv
  OBVIOUS
<1>1. Requests \subseteq RequestType
  BY RequestShape
<1> QED
  BY <1>1 DEF Init, SafeInv, OutputInv, Typed, InputsFirst, OutputsSafe, LinkNamed

(* Every step names outputs that are safe, and nothing else.                 *)
LEMMA SafeStep == SafeInv /\ [Next]_vars => SafeInv'
<1> SUFFICES ASSUME SafeInv, [Next]_vars PROVE SafeInv'
  OBVIOUS
<1> USE DEF SafeInv, OutputInv
<1>1. /\ request \in RequestType /\ item \in Nat \ {0} /\ temps \in Nat
      /\ inputs \in Seq(Files) /\ outputs \in Seq(OutputType)
  BY DEF Typed
<1>a. ASSUME inputs' = inputs, outputs' = outputs PROVE OutputsSafe'
  BY <1>a DEF OutputsSafe, Kind, SameFile
<1>b. ASSUME outputs = << >>, outputs' = outputs PROVE OutputsSafe'
  BY <1>b DEF OutputsSafe
<1>2. CASE SearchAreas
  BY <1>1, <1>2, <1>a DEF SearchAreas, Goto, Typed, InputsFirst, LinkNamed
<1>3. CASE ExpandInput
  <2>1. Entries(request.inputs[item]) \in Seq(Files)
    <3>1. request.inputs \in Seq(Files) /\ item \in 1..Len(request.inputs)
      BY <1>3 DEF ExpandInput, Typed, RequestType
    <3>2. request.inputs[item] \in Files
      BY <3>1
    <3>3. CASE Kind(request.inputs[item]) = "list"
      BY <1>3, <3>2, <3>3, RequestShape DEF ExpandInput, Entries, Kind
    <3>4. CASE Kind(request.inputs[item]) # "list"
      BY <3>2, <3>4 DEF Entries
    <3> QED
      BY <3>3, <3>4
  <2>2. inputs' \in Seq(Files)
    BY <1>1, <1>3, <2>1 DEF ExpandInput
  <2>3. outputs = << >>
    BY <1>3 DEF ExpandInput, InputsFirst
  <2> QED
    BY <1>1, <1>3, <2>2, <2>3, <1>b DEF ExpandInput, Typed, InputsFirst, LinkNamed
<1>4. CASE EndExpand
  BY <1>1, <1>4, <1>a DEF EndExpand, Goto, Typed, InputsFirst, LinkNamed
<1>5. CASE CheckInput
  BY <1>1, <1>5, <1>a DEF CheckInput, Typed, InputsFirst, LinkNamed
<1>6. CASE CheckRequest
  BY <1>1, <1>6, <1>a DEF CheckRequest, Goto, Typed, InputsFirst, LinkNamed
<1>7. CASE ResolveTarget
  BY <1>1, <1>7, <1>a DEF ResolveTarget, Goto, Typed, InputsFirst, LinkNamed
<1>8. CASE CompileInput
  <2>1. inputs[item] \in Files /\ inputs' = inputs /\ temps' = temps + 1 /\ item' = item + 1
    BY <1>1, <1>8 DEF CompileInput
  <2>2. /\ Temp(temps + 1, Suffix) \in Files /\ CompileOutput(inputs[item]) \in Files
    BY <1>1, <2>1, OutputNames, TempIsFile
  <2>3. CASE outputs' = outputs
    BY <1>1, <1>8, <1>a, <2>1, <2>3 DEF CompileInput, Typed, InputsFirst, LinkNamed
  <2>4. CASE AddOutput(CompileOutput(inputs[item]), Temp(temps + 1, Suffix))
    <3>1. outputs' \in Seq(OutputType) /\ OutputsSafe'
      BY <2>1, <2>2, <2>4, AddSafe
    <3> QED
      BY <1>1, <1>8, <2>1, <3>1 DEF CompileInput, Typed, InputsFirst, LinkNamed
  <2> QED
    BY <1>8, <2>3, <2>4 DEF CompileInput
<1>9. CASE SkipInput
  BY <1>1, <1>9, <1>a DEF SkipInput, Typed, InputsFirst, LinkNamed
<1>10. CASE EndCompile
  BY <1>1, <1>10, <1>a DEF EndCompile, Goto, Typed, InputsFirst, LinkNamed
<1>11. CASE Crash
  <2>1. pc' = "crashed" /\ item' = 1 /\ UNCHANGED << request, inputs, temps, outputs >>
    BY <1>11 DEF Crash, Goto
  <2> QED
    BY <1>1, <1>a, <2>1 DEF Typed, InputsFirst, LinkNamed
<1>12. CASE NameOutput
  <2>1. LinkOutput \in Files /\ Temp(temps + 1, LinkOutput.suffix) \in Files
    <3>1. LinkOutput \in Files
      BY OutputNames
    <3>2. LinkOutput.suffix \in Names
      BY <3>1 DEF Files
    <3> QED
      BY <1>1, <3>1, <3>2, TempIsFile
  <2>2. outputs' \in Seq(OutputType) /\ OutputsSafe'
    BY <1>12, <2>1, AddSafe DEF NameOutput
  <2>3. outputs' # << >>
    BY <1>1, <1>12 DEF NameOutput, AddOutput
  <2>4. Typed'
    BY <1>1, <1>12, <2>2 DEF NameOutput, Goto, Typed
  <2>5. pc' = "debug"
    BY <1>12 DEF NameOutput, Goto
  <2> QED
    BY <2>2, <2>3, <2>4, <2>5 DEF InputsFirst, LinkNamed
<1>13. CASE DebugOutput \/ TableOutput
  <2>1. outputs # << >> /\ inputs' = inputs
    BY <1>13 DEF DebugOutput, TableOutput, LinkNamed
  <2>2. \E wanted \in BOOLEAN, suffix \in Names : SideFile(wanted, suffix)
    BY <1>1, <1>13, RequestShape DEF DebugOutput, TableOutput, RequestType
  <2>3. outputs' \in Seq(OutputType) /\ OutputsSafe'
    BY <2>1, <2>2, SideFileSafe
  <2>4. outputs' # << >>
    BY <1>1, <2>1, <2>2 DEF SideFile, AddOutput
  <2> QED
    BY <1>1, <1>13, <2>3, <2>4 DEF DebugOutput, TableOutput, Goto, Typed, InputsFirst, LinkNamed
<1>14. CASE StartLink
  BY <1>1, <1>14, <1>a DEF StartLink, Goto, Typed, InputsFirst, LinkNamed
<1>15. CASE LinkSource \/ LinkLibrary \/ LinkFile
  BY <1>1, <1>15, <1>a DEF LinkSource, LinkLibrary, LinkFile, Typed, InputsFirst, LinkNamed
<1>16. CASE EndLink
  BY <1>1, <1>16, <1>a DEF EndLink, Goto, Typed, InputsFirst, LinkNamed
<1>17. CASE Serialize
  BY <1>1, <1>17, <1>a DEF Serialize, Typed, InputsFirst, LinkNamed
<1>18. CASE EndSerialize
  BY <1>1, <1>18, <1>a DEF EndSerialize, Goto, Typed, InputsFirst, LinkNamed
<1>19. CASE Refuse
  BY <1>1, <1>19, <1>a DEF Refuse, Goto, Typed, InputsFirst, LinkNamed
<1>20. CASE UNCHANGED vars
  BY <1>1, <1>20, <1>a DEF vars, Typed, InputsFirst, LinkNamed
<1> QED
  BY <1>2, <1>3, <1>4, <1>5, <1>6, <1>7, <1>8, <1>9, <1>10, <1>11, <1>12, <1>13,
     <1>14, <1>15, <1>16, <1>17, <1>18, <1>19, <1>20 DEF Next

(* For every request and every file system: publishing a plan writes each    *)
(* destination once and destroys no input under any of its names             *)
(* (output_path).                                                            *)
THEOREM OutputsAreSafe == Spec => []OutputsSafe
<1>1. SafeInv => OutputsSafe
  BY DEF SafeInv, OutputInv
<1> QED
  BY SafeInit, SafeStep, <1>1, PTL DEF Spec

(***************************************************************************)
(* Temporaries.  A command list is in order, with t temporaries named, when *)
(* two commands share a number only as a compiler and the sqz after it, and *)
(* no response file has the number of a product.                            *)
(***************************************************************************)
IsCommand(cmd) ==
  /\ cmd = [tool |-> cmd.tool, source |-> cmd.source, product |-> cmd.product,
            reads |-> cmd.reads, response |-> cmd.response]
  /\ cmd.product \in Files

InOrder(s, t) ==
  /\ \E S : s \in Seq(S)
  /\ \A c \in 1..Len(s) :
       /\ IsCommand(s[c])
       /\ s[c].product.number \in 1..t
       /\ s[c].response.number \in 0..t
  /\ \A c, d \in 1..Len(s) :
       /\ c < d /\ s[c].product.number = s[d].product.number =>
            d = c + 1 /\ s[d].tool = "sqz" /\ s[c].tool # "sqz"
       /\ s[c].response.number # s[d].product.number

(* A command or a file is added at the end.                                  *)
LEMMA AppendSeq ==
  ASSUME NEW S, NEW s \in Seq(S), NEW e
  PROVE  /\ \E T : Append(s, e) \in Seq(T)
         /\ Len(s) \in Nat /\ Len(Append(s, e)) = Len(s) + 1
         /\ \A i \in 1..Len(s) : Append(s, e)[i] = s[i]
         /\ Append(s, e)[Len(s) + 1] = e
<1>1. s \in Seq(S \union {e}) /\ e \in S \union {e}
  OBVIOUS
<1>2. Append(s, e) \in Seq(S \union {e})
  BY <1>1
<1> QED
  BY <1>1, <1>2

(* A command whose product has a new number. *)
LEMMA AppendFresh ==
  ASSUME NEW s, NEW t \in Nat, NEW u \in Nat, t <= u, InOrder(s, t),
         NEW cmd, IsCommand(cmd), cmd.product.number \in 1..u, cmd.response.number = 0,
         \A c \in 1..Len(s) : /\ s[c].product.number # cmd.product.number
                              /\ s[c].response.number # cmd.product.number
  PROVE  InOrder(Append(s, cmd), u)
<1>0. 1..t \subseteq 1..u /\ 0..t \subseteq 0..u
  OBVIOUS
<1>1. PICK S : s \in Seq(S)
  BY DEF InOrder
<1> DEFINE r == Append(s, cmd)
           n == Len(s)
<1>2. /\ \E T : r \in Seq(T)
      /\ n \in Nat /\ Len(r) = n + 1
      /\ \A i \in 1..n : r[i] = s[i]
      /\ r[n + 1] = cmd
  BY ONLY <1>1, AppendSeq, Zenon
<1>3. \A c \in 1..Len(r) : c \in 1..n \/ c = n + 1
  BY <1>2
<1>4. \A c \in 1..Len(r) :
        IsCommand(r[c]) /\ r[c].product.number \in 1..u /\ r[c].response.number \in 0..u
  <2> SUFFICES ASSUME NEW c \in 1..Len(r)
               PROVE  IsCommand(r[c]) /\ r[c].product.number \in 1..u /\ r[c].response.number \in 0..u
    OBVIOUS
  <2>1. CASE c \in 1..n
    <3>1. r[c] = s[c]
      BY <1>2, <2>1
    <3>2. IsCommand(s[c]) /\ s[c].product.number \in 1..t /\ s[c].response.number \in 0..t
      BY <2>1 DEF InOrder
    <3>3. s[c].product.number \in 1..u /\ s[c].response.number \in 0..u
      BY ONLY <3>2, <1>0
    <3> HIDE DEF r
    <3> QED
      BY ONLY <3>1, <3>2, <3>3, Zenon
  <2>2. CASE c = n + 1
    <3>1. r[c] = cmd
      BY <1>2, <2>2
    <3> HIDE DEF r
    <3> QED
      BY <3>1
  <2> QED
    BY <1>3, <2>1, <2>2
<1>5. \A c, d \in 1..Len(r) :
       /\ c < d /\ r[c].product.number = r[d].product.number =>
            d = c + 1 /\ r[d].tool = "sqz" /\ r[c].tool # "sqz"
       /\ r[c].response.number # r[d].product.number
  <2> SUFFICES ASSUME NEW c \in 1..Len(r), NEW d \in 1..Len(r)
               PROVE  /\ c < d /\ r[c].product.number = r[d].product.number =>
                           d = c + 1 /\ r[d].tool = "sqz" /\ r[c].tool # "sqz"
                      /\ r[c].response.number # r[d].product.number
    OBVIOUS
  <2> HIDE DEF r
  <2>1. CASE c \in 1..n /\ d \in 1..n
    <3>1. r[c] = s[c] /\ r[d] = s[d]
      BY <1>2, <2>1
    <3> QED
      BY <2>1, <3>1 DEF InOrder
  <2>2. CASE c \in 1..n /\ d = n + 1
    BY <1>2, <2>2
  <2>3. CASE c = n + 1 /\ d \in 1..n
    <3>1. s[d].product.number \in 1..t
      BY <2>3 DEF InOrder
    <3> QED
      BY <1>2, <2>3, <3>1
  <2>4. CASE c = n + 1 /\ d = n + 1
    BY <1>2, <2>4
  <2> QED
    BY <1>3, <2>1, <2>2, <2>3, <2>4
<1>6. InOrder(r, u)
  <2> HIDE DEF r
  <2> QED
    BY <1>2, <1>4, <1>5 DEF InOrder
<1> QED
  BY <1>6

(* sqz on the product that the last command, and no other, has written. *)
LEMMA AppendSqueeze ==
  ASSUME NEW s, NEW t \in Nat, InOrder(s, t), Len(s) > 0,
         NEW cmd, IsCommand(cmd), cmd.tool = "sqz", cmd.response.number = 0,
         cmd.product = s[Len(s)].product, s[Len(s)].tool # "sqz",
         \A c \in 1..(Len(s) - 1) : s[c].product.number # s[Len(s)].product.number
  PROVE  InOrder(Append(s, cmd), t)
<1>1. PICK S : s \in Seq(S)
  BY DEF InOrder
<1> DEFINE r == Append(s, cmd)
           n == Len(s)
<1>2. /\ \E T : r \in Seq(T)
      /\ n \in Nat /\ Len(r) = n + 1
      /\ \A i \in 1..n : r[i] = s[i]
      /\ r[n + 1] = cmd
  BY ONLY <1>1, AppendSeq, Zenon
<1>3. /\ \A c \in 1..Len(r) : c \in 1..n \/ c = n + 1
      /\ n \in 1..n /\ \A c \in 1..n : c \in 1..(n - 1) \/ c = n
  BY <1>2
<1>a. \A c \in 1..n : IsCommand(s[c]) /\ s[c].product.number \in 1..t
                       /\ s[c].response.number \in 0..t
  BY DEF InOrder
<1>4. \A c \in 1..Len(r) :
        IsCommand(r[c]) /\ r[c].product.number \in 1..t /\ r[c].response.number \in 0..t
  <2> SUFFICES ASSUME NEW c \in 1..Len(r)
               PROVE  IsCommand(r[c]) /\ r[c].product.number \in 1..t /\ r[c].response.number \in 0..t
    OBVIOUS
  <2> HIDE DEF r
  <2>1. CASE c \in 1..n
    <3>1. r[c] = s[c]
      BY <1>2, <2>1
    <3> QED
      BY <1>a, <2>1, <3>1
  <2>2. CASE c = n + 1
    <3>1. r[c] = cmd
      BY <1>2, <2>2
    <3> QED
      BY <1>3, <1>a, <3>1
  <2> QED
    BY <1>3, <2>1, <2>2
<1>5. \A c, d \in 1..Len(r) :
       /\ c < d /\ r[c].product.number = r[d].product.number =>
            d = c + 1 /\ r[d].tool = "sqz" /\ r[c].tool # "sqz"
       /\ r[c].response.number # r[d].product.number
  <2> SUFFICES ASSUME NEW c \in 1..Len(r), NEW d \in 1..Len(r)
               PROVE  /\ c < d /\ r[c].product.number = r[d].product.number =>
                           d = c + 1 /\ r[d].tool = "sqz" /\ r[c].tool # "sqz"
                      /\ r[c].response.number # r[d].product.number
    OBVIOUS
  <2> HIDE DEF r
  <2>1. CASE c \in 1..n /\ d \in 1..n
    <3>1. r[c] = s[c] /\ r[d] = s[d]
      BY <1>2, <2>1
    <3> QED
      BY <2>1, <3>1 DEF InOrder
  <2>2. CASE c \in 1..n /\ d = n + 1
    <3>1. r[c] = s[c] /\ r[d] = cmd /\ cmd.product = s[n].product
      BY <1>2, <2>2
    <3>2. s[c].response.number # s[n].product.number
      BY <1>3, <2>2 DEF InOrder
    <3>3. CASE c = n
      BY <2>2, <3>1, <3>2, <3>3
    <3>4. CASE c \in 1..(n - 1)
      BY <2>2, <3>1, <3>2, <3>4
    <3> QED
      BY <1>3, <2>2, <3>3, <3>4
  <2>3. CASE c = n + 1
    <3>1. r[c] = cmd /\ r[d].product.number \in 1..t
      BY <1>2, <1>4, <2>3
    <3> QED
      BY <1>2, <2>3, <3>1
  <2> QED
    BY <1>3, <2>1, <2>2, <2>3
<1>6. InOrder(r, t)
  <2> HIDE DEF r
  <2> QED
    BY <1>2, <1>4, <1>5 DEF InOrder
<1> QED
  BY <1>6

(* A command with other files to read, or another response file.             *)
LEMMA RecordExcept ==
  ASSUME NEW cmd, IsCommand(cmd), NEW x
  PROVE  /\ [cmd EXCEPT !.reads = x] =
              [tool |-> cmd.tool, source |-> cmd.source, product |-> cmd.product,
               reads |-> x, response |-> cmd.response]
         /\ [cmd EXCEPT !.response = x] =
              [tool |-> cmd.tool, source |-> cmd.source, product |-> cmd.product,
               reads |-> cmd.reads, response |-> x]
<1> DEFINE R(a, b, c, d, e) == [tool |-> a, source |-> b, product |-> c, reads |-> d, response |-> e]
<1>1. ASSUME NEW a, NEW b, NEW c, NEW d, NEW e, NEW r, r = R(a, b, c, d, e)
      PROVE  /\ [r EXCEPT !.reads = x] = R(a, b, c, x, e)
             /\ [r EXCEPT !.response = x] = R(a, b, c, d, x)
  <2>1. /\ [R(a, b, c, d, e) EXCEPT !.reads = x] = R(a, b, c, x, e)
        /\ [R(a, b, c, d, e) EXCEPT !.response = x] = R(a, b, c, d, x)
    OBVIOUS
  <2> HIDE DEF R
  <2> QED
    BY <1>1, <2>1
<1>2. cmd = R(cmd.tool, cmd.source, cmd.product, cmd.reads, cmd.response)
  BY DEF IsCommand
<1> HIDE DEF R
<1>3. /\ [cmd EXCEPT !.reads = x] = R(cmd.tool, cmd.source, cmd.product, x, cmd.response)
      /\ [cmd EXCEPT !.response = x] = R(cmd.tool, cmd.source, cmd.product, cmd.reads, x)
  BY <1>1, <1>2
<1> QED
  BY <1>3 DEF R

(* What only adds to the files a command reads. *)
LEMMA ChangeReads ==
  ASSUME NEW s, NEW t \in Nat, InOrder(s, t), NEW i \in 1..Len(s), NEW x
  PROVE  InOrder([s EXCEPT ![i].reads = x], t)
<1>1. PICK S : s \in Seq(S)
  BY DEF InOrder
<1> DEFINE e == [s[i] EXCEPT !.reads = x]
           r == [s EXCEPT ![i] = e]
<1>2. s \in Seq(S \union {e}) /\ e \in S \union {e} /\ Len(s) \in Nat
  BY <1>1
<1>3. r \in Seq(S \union {e}) /\ Len(r) = Len(s)
      /\ \A c \in 1..Len(s) : r[c] = IF c = i THEN e ELSE s[c]
  BY <1>2
<1>4. e = [tool |-> s[i].tool, source |-> s[i].source, product |-> s[i].product,
           reads |-> x, response |-> s[i].response]
  <2>1. IsCommand(s[i])
    BY DEF InOrder
  <2> QED
    BY <2>1, RecordExcept
<1>5. \A c \in 1..Len(s) : /\ IsCommand(r[c]) /\ r[c].product = s[c].product
                           /\ r[c].response = s[c].response /\ r[c].tool = s[c].tool
  <2>1. \A c \in 1..Len(s) : IsCommand(s[c])
    BY DEF InOrder
  <2> HIDE DEF e, r
  <2>2. /\ IsCommand(e) /\ e.product = s[i].product
        /\ e.response = s[i].response /\ e.tool = s[i].tool
    BY <1>4, <2>1 DEF IsCommand
  <2> QED
    BY <1>3, <2>1, <2>2
<1> HIDE DEF e, r
<1>6. InOrder(r, t)
  <2>1. \E T : r \in Seq(T)
    BY <1>3
  <2>2. \A c \in 1..Len(r) : /\ IsCommand(r[c])
                             /\ r[c].product.number \in 1..t
                             /\ r[c].response.number \in 0..t
    BY <1>3, <1>5 DEF InOrder
  <2>3. \A c, d \in 1..Len(r) :
         /\ c < d /\ r[c].product.number = r[d].product.number =>
              d = c + 1 /\ r[d].tool = "sqz" /\ r[c].tool # "sqz"
         /\ r[c].response.number # r[d].product.number
    BY <1>3, <1>5 DEF InOrder
  <2> QED
    BY <2>1, <2>2, <2>3 DEF InOrder
<1> QED
  BY <1>6 DEF r, e

(* The response file takes the next number. *)
LEMMA SetResponse ==
  ASSUME NEW s, NEW t \in Nat, InOrder(s, t), NEW i \in 1..Len(s)
  PROVE  InOrder([s EXCEPT ![i].response = Temp(t + 1, "rsp")], t + 1)
<1>1. PICK S : s \in Seq(S)
  BY DEF InOrder
<1> DEFINE e == [s[i] EXCEPT !.response = Temp(t + 1, "rsp")]
           r == [s EXCEPT ![i] = e]
<1>2. s \in Seq(S \union {e}) /\ e \in S \union {e} /\ Len(s) \in Nat
  BY <1>1
<1>3. r \in Seq(S \union {e}) /\ Len(r) = Len(s)
      /\ \A c \in 1..Len(s) : r[c] = IF c = i THEN e ELSE s[c]
  BY <1>2
<1>4. e = [tool |-> s[i].tool, source |-> s[i].source, product |-> s[i].product,
           reads |-> s[i].reads, response |-> Temp(t + 1, "rsp")]
  <2>1. IsCommand(s[i])
    BY DEF InOrder
  <2> QED
    BY <2>1, RecordExcept
<1>5. Temp(t + 1, "rsp").number = t + 1
  BY DEF Temp
<1>6. \A c \in 1..Len(s) : /\ IsCommand(r[c]) /\ r[c].product = s[c].product
                           /\ r[c].tool = s[c].tool
                           /\ \/ r[c].response = s[c].response
                              \/ r[c].response.number = t + 1
  <2>1. \A c \in 1..Len(s) : IsCommand(s[c])
    BY DEF InOrder
  <2> HIDE DEF e, r
  <2>2. /\ IsCommand(e) /\ e.product = s[i].product
        /\ e.response.number = t + 1 /\ e.tool = s[i].tool
    BY <1>4, <1>5, <2>1 DEF IsCommand
  <2> QED
    BY <1>3, <2>1, <2>2
<1> HIDE DEF e, r
<1>7. InOrder(r, t + 1)
  <2>1. \E T : r \in Seq(T)
    BY <1>3
  <2>2. \A c \in 1..Len(r) : /\ IsCommand(r[c])
                             /\ r[c].product.number \in 1..t
                             /\ r[c].response.number \in 0..(t + 1)
    BY <1>3, <1>6 DEF InOrder
  <2>3. \A c, d \in 1..Len(r) :
         c < d /\ r[c].product.number = r[d].product.number =>
           d = c + 1 /\ r[d].tool = "sqz" /\ r[c].tool # "sqz"
    BY <1>3, <1>6 DEF InOrder
  <2>4. \A c, d \in 1..Len(r) : r[c].response.number # r[d].product.number
    <3> SUFFICES ASSUME NEW c \in 1..Len(r), NEW d \in 1..Len(r)
                 PROVE  r[c].response.number # r[d].product.number
      OBVIOUS
    <3>1. CASE r[c].response = s[c].response
      BY <1>3, <1>6, <3>1 DEF InOrder
    <3>2. CASE r[c].response.number = t + 1
      BY <2>2, <3>2
    <3> QED
      BY <1>3, <1>6, <3>1, <3>2
  <2>5. \A c \in 1..Len(r) : r[c].product.number \in 1..(t + 1)
    BY <2>2
  <2> QED
    BY <2>1, <2>2, <2>3, <2>4, <2>5 DEF InOrder
<1> QED
  BY <1>7 DEF r, e

Early == {"areas", "expand", "inputs", "target", "compile", "output"}
Named == {"debug", "table", "startup"}

(* A link's product is named before its command exists. *)
ProductNamed ==
  pc \in Named =>
    /\ LinkProduct.number \in 1..temps
    /\ \A c \in 1..Len(commands) : /\ commands[c].product.number # LinkProduct.number
                                   /\ commands[c].response.number # LinkProduct.number

LinkParts ==
  /\ pc \in Named \union {"target", "output", "link"} => Linking
  /\ pc = "link" => commands # << >>

(* Outputs of compilations have numbers of their own. *)
CompiledOutputs ==
  ~ Linking =>
    /\ \A o \in 1..Len(outputs) : outputs[o].product.number \in 1..temps
    /\ \A o, p \in 1..Len(outputs) :
         o # p => outputs[o].product.number # outputs[p].product.number

(* Outputs of a link share a stem, and so do their products. *)
LinkedOutputs ==
  Linking =>
    /\ pc \in Early => outputs = << >>
    /\ \A o \in 1..Len(outputs) :
         /\ outputs[o].product = WithSuffix(LinkProduct, outputs[o].host.suffix)
         /\ outputs[o].host = WithSuffix(LinkOutput, outputs[o].host.suffix)

TempInv ==
  InOrder(commands, temps) /\ ProductNamed /\ LinkParts /\ CompiledOutputs /\ LinkedOutputs

(* No temporary has been numbered at the start.                              *)
LEMMA TempInit == Init => TempInv
<1> SUFFICES ASSUME Init PROVE TempInv
  OBVIOUS
<1>1. commands = << >> /\ outputs = << >> /\ pc = "areas" /\ temps = 0
  BY DEF Init
<1>2. InOrder(commands, temps)
  BY <1>1 DEF InOrder
<1> QED
  BY <1>1, <1>2 DEF TempInv, ProductNamed, LinkParts, CompiledOutputs, LinkedOutputs, Named

(* Steps that name nothing, publish nothing and add no command. *)
LEMMA QuietStep ==
  ASSUME TempInv, UNCHANGED << request, temps, target, commands, outputs >>,
         pc' \in Named => pc \in Named,
         pc' \in Named \union {"target", "output", "link"} => Linking,
         pc' = "link" => commands # << >>,
         pc' \in Early => pc \in Early
  PROVE  TempInv'
<1>1. InOrder(commands, temps)'
  BY DEF TempInv, InOrder, IsCommand
<1>2. ProductNamed'
  BY DEF TempInv, ProductNamed, LinkProduct, Named
<1>3. LinkParts'
  BY DEF LinkParts, Linking, Named
<1>4. CompiledOutputs'
  BY DEF TempInv, CompiledOutputs, Linking
<1>5. LinkedOutputs'
  BY DEF TempInv, LinkedOutputs, Linking, LinkProduct, LinkOutput, WithSuffix, Early
<1> QED
  BY <1>1, <1>2, <1>3, <1>4, <1>5 DEF TempInv

(* A command when it is added.                                               *)
LEMMA NewIsCommand ==
  ASSUME NEW tool, NEW source, NEW product \in Files, NEW reads
  PROVE  /\ IsCommand(NewCommand(tool, source, product, reads))
         /\ NewCommand(tool, source, product, reads).tool = tool
         /\ NewCommand(tool, source, product, reads).product = product
         /\ NewCommand(tool, source, product, reads).response.number = 0
BY DEF IsCommand, NewCommand, NoFile, Host

(* The number of a temporary.                                                *)
LEMMA TempNumber ==
  ASSUME NEW n, NEW suffix
  PROVE  Temp(n, suffix).number = n
BY DEF Temp

(* The commands of one source. *)
LEMMA CompileInOrder ==
  ASSUME Typed, TempInv, NEW file, NEW suffix \in Names
  PROVE  InOrder(commands \o CompileCommands(file, Temp(temps + 1, suffix)), temps + 1)
<1> DEFINE product == Temp(temps + 1, suffix)
           cc == NewCommand(IF Kind(file) = "c" THEN "cc" ELSE "as", file, product, << file >>)
           sqz == NewCommand("sqz", file, product, << product >>)
           r == Append(commands, cc)
<1>1. PICK S : commands \in Seq(S)
  BY DEF TempInv, InOrder
<1>2. temps \in Nat /\ product.number = temps + 1 /\ product \in Files
  BY TempNumber, TempIsFile DEF Typed
<1>3. IsCommand(cc) /\ cc.product = product /\ cc.response.number = 0 /\ cc.tool # "sqz"
  BY <1>2, NewIsCommand
<1>4. IsCommand(sqz) /\ sqz.product = product /\ sqz.response.number = 0 /\ sqz.tool = "sqz"
  BY <1>2, NewIsCommand
<1> HIDE DEF product, cc, sqz
<1>5. InOrder(commands, temps)
  BY DEF TempInv
<1>6. \A c \in 1..Len(commands) : /\ commands[c].product.number \in 1..temps
                                  /\ commands[c].response.number \in 0..temps
  BY <1>5 DEF InOrder
<1>7. InOrder(r, temps + 1)
  BY <1>2, <1>3, <1>5, <1>6, AppendFresh
<1>8. /\ Len(commands) \in Nat /\ Len(r) = Len(commands) + 1
      /\ \A i \in 1..Len(commands) : r[i] = commands[i]
      /\ r[Len(commands) + 1] = cc
  BY <1>1, AppendSeq
<1>9. CASE request.squeeze
  <2>1. InOrder(Append(r, sqz), temps + 1)
    <3>1. /\ sqz.product = r[Len(r)].product /\ r[Len(r)].tool # "sqz" /\ Len(r) > 0
      BY <1>3, <1>4, <1>8
    <3>2. \A c \in 1..(Len(r) - 1) : r[c].product.number # r[Len(r)].product.number
      BY <1>2, <1>3, <1>6, <1>8
    <3> HIDE DEF r
    <3> QED
      BY <1>2, <1>4, <1>7, <3>1, <3>2, AppendSqueeze
  <2>2. commands \o (<< cc >> \o << sqz >>) = Append(r, sqz)
    <3>1. commands \in Seq(S \union {cc, sqz})
      BY <1>1
    <3> QED
      BY <3>1
  <2> QED
    BY <1>9, <2>1, <2>2 DEF CompileCommands, cc, sqz, product
<1>10. CASE ~ request.squeeze
  <2>1. commands \o (<< cc >> \o << >>) = r
    <3>1. commands \in Seq(S \union {cc})
      BY <1>1
    <3> QED
      BY <3>1
  <2> QED
    BY <1>7, <1>10, <2>1 DEF CompileCommands, cc, sqz, product
<1> QED
  BY <1>9, <1>10

(* A side file is named after the first output. *)
LEMMA SideFileNamed ==
  ASSUME SafeInv, TempInv, NEW wanted, NEW suffix, SideFile(wanted, suffix),
         pc \in Named, pc' \in Named,
         UNCHANGED << request, temps, target, commands >>
  PROVE  TempInv'
<1>1. InOrder(commands, temps)'
  BY DEF TempInv, InOrder, IsCommand
<1>2. outputs \in Seq(OutputType) /\ 1 \in 1..Len(outputs) /\ Linking /\ Linking'
  BY DEF SafeInv, OutputInv, Typed, LinkNamed, TempInv, LinkParts, Named, Linking
<1> DEFINE new == [host |-> WithSuffix(LinkOutput, suffix),
                   product |-> WithSuffix(LinkProduct, suffix)]
<1>3. outputs' = outputs \/ outputs' = Append(outputs, new)
  BY DEF SideFile, AddOutput
<1>4. /\ Len(outputs) \in Nat /\ Len(outputs') \in Nat /\ Len(outputs) <= Len(outputs')
      /\ \A o \in 1..Len(outputs) : outputs'[o] = outputs[o]
      /\ \A o \in 1..Len(outputs') : o \in 1..Len(outputs) \/ outputs'[o] = new
  <2>1. CASE outputs' = outputs
    BY <1>2, <2>1
  <2>2. CASE outputs' = Append(outputs, new)
    BY <1>2, <2>2, AppendSeq
  <2> QED
    BY <1>3, <2>1, <2>2
<1>5. LinkProduct' = LinkProduct /\ LinkOutput' = LinkOutput
  BY <1>2, <1>4 DEF LinkProduct, LinkOutput
<1>6. ProductNamed'
  BY <1>5 DEF TempInv, ProductNamed
<1>7. LinkParts' /\ CompiledOutputs'
  BY <1>2 DEF LinkParts, CompiledOutputs, Named
<1>8. LinkedOutputs'
  <2>1. pc' \notin Early
    BY DEF Named, Early
  <2>2. new.host = WithSuffix(LinkOutput, suffix) /\ new.product = WithSuffix(LinkProduct, suffix)
    OBVIOUS
  <2>3. LinkOutput \in Files
    BY OutputNames DEF SafeInv, OutputInv
  <2>4. new.host.suffix = suffix
    BY <2>2, <2>3 DEF WithSuffix, Files
  <2> HIDE DEF new
  <2>5. \A o \in 1..Len(outputs') :
         /\ outputs'[o].product = WithSuffix(LinkProduct, outputs'[o].host.suffix)
         /\ outputs'[o].host = WithSuffix(LinkOutput, outputs'[o].host.suffix)
    <3> SUFFICES ASSUME NEW o \in 1..Len(outputs')
                 PROVE  /\ outputs'[o].product = WithSuffix(LinkProduct, outputs'[o].host.suffix)
                        /\ outputs'[o].host = WithSuffix(LinkOutput, outputs'[o].host.suffix)
      OBVIOUS
    <3>1. CASE o \in 1..Len(outputs)
      BY <1>2, <1>4, <3>1 DEF TempInv, LinkedOutputs
    <3>2. CASE outputs'[o] = new
      BY <2>2, <2>4, <3>2
    <3> QED
      BY <1>4, <3>1, <3>2
  <2> QED
    BY <1>5, <2>1, <2>5 DEF LinkedOutputs, WithSuffix
<1> QED
  BY <1>1, <1>6, <1>7, <1>8 DEF TempInv

(* Every step numbers temporaries upwards.                                   *)
LEMMA TempStep == SafeInv /\ TempInv /\ [Next]_vars => TempInv'
<1> SUFFICES ASSUME SafeInv, TempInv, [Next]_vars PROVE TempInv'
  OBVIOUS
<1>1. /\ Typed /\ OutputsSafe /\ request \in RequestType /\ item \in Nat \ {0} /\ temps \in Nat
      /\ inputs \in Seq(Files) /\ outputs \in Seq(OutputType)
  BY DEF SafeInv, OutputInv, Typed
<1>2. InOrder(commands, temps)
  BY DEF TempInv
<1>3. /\ Len(commands) \in Nat /\ \E S : commands \in Seq(S)
      /\ \A c \in 1..Len(commands) : /\ commands[c].product.number \in 1..temps
                                     /\ commands[c].response.number \in 0..temps
  BY <1>2 DEF InOrder
<1>4. CASE SearchAreas \/ ExpandInput \/ EndExpand \/ CheckInput \/ CheckRequest
  BY <1>4, QuietStep DEF SearchAreas, ExpandInput, EndExpand, CheckInput, CheckRequest,
                         Goto, Named, Early
<1>5. CASE ResolveTarget
  <2>1. /\ pc = "target" /\ pc' = "compile"
        /\ UNCHANGED << request, temps, commands, outputs >>
    BY <1>5 DEF ResolveTarget, Goto
  <2>2. Linking /\ Linking' /\ outputs = << >>
    BY <2>1 DEF TempInv, LinkParts, LinkedOutputs, Early, Named, Linking
  <2> QED
    BY <1>2, <2>1, <2>2 DEF TempInv, InOrder, IsCommand, ProductNamed, LinkParts,
                            CompiledOutputs, LinkedOutputs, Named, Early
<1>6. CASE CompileInput
  <2> DEFINE product == Temp(temps + 1, Suffix)
  <2>1. /\ pc = "compile" /\ pc' = "compile" /\ temps' = temps + 1
        /\ commands' = commands \o CompileCommands(inputs[item], product)
        /\ UNCHANGED << request, target, inputs >>
    BY <1>6 DEF CompileInput
  <2>2. InOrder(commands', temps')
    BY <1>1, <2>1, CompileInOrder, OutputNames
  <2>3. ProductNamed' /\ LinkParts' /\ (Linking' <=> Linking)
    BY <2>1 DEF ProductNamed, LinkParts, Named, Linking
  <2>4. CASE Linking
    <3>1. outputs' = outputs /\ outputs = << >>
      BY <1>6, <2>1, <2>4 DEF CompileInput, TempInv, LinkedOutputs, Early
    <3> QED
      BY <2>2, <2>3, <2>4, <3>1 DEF TempInv, CompiledOutputs, LinkedOutputs
  <2>5. CASE ~ Linking
    <3>1. PICK file : AddOutput(file, product)
      BY <1>6, <2>5 DEF CompileInput
    <3> DEFINE new == [host |-> file, product |-> product]
    <3>2. /\ Len(outputs) \in Nat /\ Len(outputs') = Len(outputs) + 1
          /\ \A o \in 1..Len(outputs) : outputs'[o] = outputs[o]
          /\ outputs'[Len(outputs) + 1] = new
      BY <1>1, <3>1, AppendSeq DEF AddOutput
    <3>3. new.product.number = temps + 1
      BY TempNumber
    <3>4. \A o \in 1..Len(outputs) : outputs[o].product.number \in 1..temps
      BY <2>5 DEF TempInv, CompiledOutputs
    <3>5. \A o \in 1..Len(outputs') : \/ o \in 1..Len(outputs) /\ outputs'[o] = outputs[o]
                                      \/ o = Len(outputs) + 1 /\ outputs'[o] = new
      BY <3>2
    <3> HIDE DEF new
    <3>6. CompiledOutputs'
      <4>1. \A o \in 1..Len(outputs') : outputs'[o].product.number \in 1..temps'
        <5> SUFFICES ASSUME NEW o \in 1..Len(outputs')
                     PROVE  outputs'[o].product.number \in 1..temps'
          OBVIOUS
        <5>1. CASE o \in 1..Len(outputs) /\ outputs'[o] = outputs[o]
          <6>1. outputs'[o].product.number \in 1..temps
            BY <3>4, <5>1
          <6> QED
            BY <1>1, <2>1, <6>1
        <5>2. CASE outputs'[o] = new
          BY <1>1, <2>1, <3>3, <5>2
        <5> QED
          BY <3>5, <5>1, <5>2
      <4>2. ASSUME NEW o \in 1..Len(outputs'), NEW p \in 1..Len(outputs'), o # p
            PROVE  outputs'[o].product.number # outputs'[p].product.number
        <5>1. CASE o \in 1..Len(outputs) /\ p \in 1..Len(outputs)
          BY <2>5, <3>2, <4>2, <5>1 DEF TempInv, CompiledOutputs
        <5>2. CASE o = Len(outputs) + 1 \/ p = Len(outputs) + 1
          BY <1>1, <3>3, <3>4, <3>5, <4>2, <5>2
        <5> QED
          BY <3>5, <5>1, <5>2
      <4> QED
        BY <4>1, <4>2 DEF CompiledOutputs
    <3> QED
      BY <2>2, <2>3, <2>5, <3>6 DEF TempInv, LinkedOutputs
  <2> QED
    BY <2>4, <2>5
<1>7. CASE SkipInput \/ EndCompile
  BY <1>7, QuietStep DEF SkipInput, EndCompile, Goto, Named, Early
<1>8. CASE Crash
  <2>1. pc' = "crashed" /\ UNCHANGED << request, temps, target, commands, outputs >>
    BY <1>8 DEF Crash, Goto
  <2> QED
    BY <2>1, QuietStep DEF Named, Early
<1>9. CASE NameOutput
  <2> DEFINE product == Temp(temps + 1, LinkOutput.suffix)
             new == [host |-> LinkOutput, product |-> product]
  <2>1. /\ pc = "output" /\ pc' = "debug" /\ temps' = temps + 1
        /\ outputs' = Append(outputs, new)
        /\ UNCHANGED << request, target, commands >>
    BY <1>9 DEF NameOutput, Goto, AddOutput
  <2>2. Linking /\ Linking' /\ outputs = << >>
    BY <2>1 DEF TempInv, LinkParts, LinkedOutputs, Early, Linking
  <2>3. Len(outputs') = 1 /\ outputs'[1] = new
    BY <2>1, <2>2
  <2>4. LinkProduct' = product /\ product.number = temps + 1 /\ LinkOutput' = LinkOutput
    BY <2>1, <2>3, TempNumber DEF LinkProduct, LinkOutput
  <2>5. InOrder(commands', temps')
    BY <1>1, <1>2, <2>1 DEF InOrder
  <2>6. ProductNamed'
    BY <1>1, <1>3, <2>1, <2>4 DEF ProductNamed
  <2>7. LinkParts' /\ CompiledOutputs'
    BY <2>1, <2>2 DEF LinkParts, CompiledOutputs
  <2>8. LinkedOutputs'
    <3>1. LinkOutput \in Files
      BY <1>1, OutputNames
    <3>2. /\ WithSuffix(product, LinkOutput.suffix) = product
          /\ WithSuffix(LinkOutput, LinkOutput.suffix) = LinkOutput
      BY <3>1 DEF WithSuffix, Temp, Files
    <3>3. new.host = LinkOutput /\ new.product = product
      OBVIOUS
    <3> HIDE DEF product, new
    <3>4. \A o \in 1..Len(outputs') :
           /\ outputs'[o].product = WithSuffix(LinkProduct', outputs'[o].host.suffix)
           /\ outputs'[o].host = WithSuffix(LinkOutput', outputs'[o].host.suffix)
      <4> SUFFICES ASSUME NEW o \in 1..Len(outputs')
                   PROVE  /\ outputs'[o].product = WithSuffix(LinkProduct', outputs'[o].host.suffix)
                          /\ outputs'[o].host = WithSuffix(LinkOutput', outputs'[o].host.suffix)
        OBVIOUS
      <4>1. outputs'[o] = new
        BY <2>3
      <4>2. outputs'[o].host.suffix = LinkOutput.suffix
        BY <3>3, <4>1
      <4> QED
        BY <2>4, <3>2, <3>3, <4>1, <4>2
    <3> QED
      BY <2>1, <3>4 DEF LinkedOutputs, Early, WithSuffix
  <2> QED
    BY <2>5, <2>6, <2>7, <2>8 DEF TempInv
<1>10. CASE DebugOutput \/ TableOutput
  <2>1. /\ pc \in Named /\ pc' \in Named
        /\ UNCHANGED << request, temps, target, commands >>
        /\ \E wanted, suffix : SideFile(wanted, suffix)
    BY <1>10 DEF DebugOutput, TableOutput, Goto, Named
  <2> QED
    BY <2>1, SideFileNamed
<1>11. CASE StartLink
  <2> DEFINE ln == NewCommand("ln", LinkOutput, LinkProduct, StartFiles)
  <2>1. /\ pc = "startup" /\ pc' = "link" /\ commands' = Append(commands, ln)
        /\ UNCHANGED << request, temps, target, outputs >>
    BY <1>11 DEF StartLink, Goto
  <2>2. IsCommand(ln) /\ ln.product = LinkProduct /\ ln.response.number = 0
    BY <1>1, <2>1, LinkProductIsFile, NewIsCommand DEF SafeInv, LinkNamed
  <2>3. /\ LinkProduct.number \in 1..temps
        /\ \A c \in 1..Len(commands) : /\ commands[c].product.number # LinkProduct.number
                                       /\ commands[c].response.number # LinkProduct.number
    BY <2>1 DEF TempInv, ProductNamed, Named
  <2> HIDE DEF ln
  <2>4. InOrder(commands', temps')
    <3>1. /\ ln.product.number \in 1..temps
          /\ \A c \in 1..Len(commands) : commands[c].product.number # ln.product.number
          /\ \A c \in 1..Len(commands) : commands[c].response.number # ln.product.number
      BY <2>2, <2>3
    <3>2. InOrder(Append(commands, ln), temps)
      BY <1>1, <1>2, <2>2, <3>1, AppendFresh
    <3> QED
      BY <2>1, <3>2
  <2>5. commands' # << >>
    BY <1>3, <2>1, AppendSeq
  <2>6. Linking /\ Linking'
    BY <2>1 DEF TempInv, LinkParts, Named, Linking
  <2> QED
    BY <2>1, <2>4, <2>5, <2>6 DEF TempInv, ProductNamed, LinkParts, CompiledOutputs,
         LinkedOutputs, LinkProduct, LinkOutput, WithSuffix, Named, Early
<1>12. CASE LinkSource \/ LinkLibrary \/ LinkFile \/ EndLink
  <2>1. /\ pc = "link" /\ pc' \in {"link", "serialize"}
        /\ UNCHANGED << request, temps, target, outputs >>
        /\ \E files : LinkFiles(files)
    BY <1>12 DEF LinkSource, LinkLibrary, LinkFile, EndLink, Goto
  <2>2. Linking /\ Linking' /\ Len(commands) \in 1..Len(commands)
    BY <1>3, <2>1 DEF TempInv, LinkParts, Linking
  <2>3. PICK x : commands' = [commands EXCEPT ![Len(commands)].reads = x]
    BY <2>1 DEF LinkFiles
  <2>4. InOrder(commands', temps') /\ commands' # << >>
    <3>1. InOrder(commands', temps')
      BY <1>1, <1>2, <2>1, <2>2, <2>3, ChangeReads
    <3>2. Len(commands') = Len(commands)
      BY <1>3, <2>3
    <3> QED
      BY <1>3, <2>2, <3>1, <3>2
  <2> QED
    BY <2>1, <2>2, <2>4 DEF TempInv, ProductNamed, LinkParts, CompiledOutputs,
         LinkedOutputs, LinkProduct, LinkOutput, WithSuffix, Named, Early
<1>13. CASE Serialize
  <2>1. /\ pc = "serialize" /\ pc' = "serialize" /\ item \in 1..Len(commands)
        /\ UNCHANGED << request, target, outputs >>
    BY <1>1, <1>3, <1>13 DEF Serialize
  <2>2. CASE UNCHANGED << temps, commands >>
    BY <2>1, <2>2, QuietStep DEF Named, Early
  <2>3. CASE /\ temps' = temps + 1
             /\ commands' = [commands EXCEPT ![item].response = Temp(temps + 1, "rsp")]
    <3>1. InOrder(commands', temps')
      BY <1>1, <1>2, <2>1, <2>3, SetResponse
    <3>2. ~ Linking => \A o \in 1..Len(outputs) : outputs[o].product.number \in 1..temps'
      BY <1>1, <2>3 DEF TempInv, CompiledOutputs
    <3> QED
      BY <2>1, <3>1, <3>2 DEF TempInv, ProductNamed, LinkParts, CompiledOutputs,
           LinkedOutputs, LinkProduct, LinkOutput, WithSuffix, Named, Early, Linking
  <2> QED
    BY <1>13, <2>2, <2>3 DEF Serialize
<1>14. CASE EndSerialize \/ Refuse
  BY <1>14, QuietStep DEF EndSerialize, Refuse, Goto, Named, Early
<1>15. CASE UNCHANGED vars
  BY <1>15, QuietStep DEF vars, TempInv, LinkParts
<1> QED
  BY <1>4, <1>5, <1>6, <1>7, <1>8, <1>9, <1>10, <1>11, <1>12, <1>13, <1>14, <1>15 DEF Next

(* All that a command writes has the number of its product.                  *)
LEMMA WritesNumber ==
  ASSUME NEW c, IsCommand(commands[c]), NEW file \in Writes(c)
  PROVE  file.number = commands[c].product.number
<1>1. commands[c].product \in Files
  BY DEF IsCommand
<1>2. \A suffix : WithSuffix(commands[c].product, suffix).number = commands[c].product.number
  BY <1>1 DEF WithSuffix, Files
<1>3. file = commands[c].product \/ \E suffix : file = WithSuffix(commands[c].product, suffix)
  BY DEF Writes
<1> QED
  BY <1>2, <1>3

(* Numbers that differ are temporaries that differ.                          *)
LEMMA InvDistinct == SafeInv /\ TempInv => TemporariesDistinct
<1> SUFFICES ASSUME SafeInv, TempInv PROVE TemporariesDistinct
  OBVIOUS
<1>1. InOrder(commands, temps)
  BY DEF TempInv
<1>2. ASSUME NEW c \in 1..Len(commands), NEW d \in 1..Len(commands)
      PROVE  /\ c < d /\ Writes(c) \intersect Writes(d) # {} =>
                  d = c + 1 /\ commands[d].tool = "sqz" /\ commands[c].tool # "sqz"
             /\ commands[c].response \notin Writes(d)
  <2>1. IsCommand(commands[c]) /\ IsCommand(commands[d])
    BY <1>1 DEF InOrder
  <2>2. Writes(c) \intersect Writes(d) # {} =>
          commands[c].product.number = commands[d].product.number
    <3> SUFFICES ASSUME NEW file \in Writes(c), file \in Writes(d)
                 PROVE  commands[c].product.number = commands[d].product.number
      OBVIOUS
    <3>1. file.number = commands[c].product.number
      BY <2>1, WritesNumber
    <3>2. file.number = commands[d].product.number
      BY <2>1, WritesNumber
    <3> QED
      BY <3>1, <3>2
  <2>3. commands[c].response \in Writes(d) =>
          commands[c].response.number = commands[d].product.number
    BY <2>1, WritesNumber
  <2> QED
    BY <1>1, <2>2, <2>3 DEF InOrder
<1>3. ASSUME NEW o \in 1..Len(outputs), NEW p \in 1..Len(outputs), o # p
      PROVE  outputs[o].product # outputs[p].product
  <2>1. CASE ~ Linking
    BY <1>3, <2>1 DEF TempInv, CompiledOutputs
  <2>2. CASE Linking
    <3>1. Typed /\ OutputsSafe /\ outputs # << >>
      BY DEF SafeInv, OutputInv
    <3>2. LinkProduct \in Files
      BY <3>1, LinkProductIsFile
    <3>3. outputs[o].host # outputs[p].host
      BY <1>3, <3>1 DEF OutputsSafe
    <3>4. outputs[o].host.suffix # outputs[p].host.suffix
      BY <2>2, <3>3 DEF TempInv, LinkedOutputs
    <3>5. \A suffix : WithSuffix(LinkProduct, suffix).suffix = suffix
      BY <3>2 DEF WithSuffix, Files
    <3> QED
      BY <2>2, <3>4, <3>5 DEF TempInv, LinkedOutputs
  <2> QED
    BY <2>1, <2>2
<1> QED
  BY <1>2, <1>3 DEF TemporariesDistinct

(* For every request and every file system: every temporary of a plan has    *)
(* its own name, and no command destroys what another one wrote (temp_name,  *)
(* compile_input, link_inputs, serialize_commands).                          *)
THEOREM TemporariesAreDistinct == Spec => []TemporariesDistinct
<1>1. Init => SafeInv /\ TempInv
  BY SafeInit, TempInit
<1>2. SafeInv /\ TempInv /\ [Next]_vars => (SafeInv /\ TempInv)'
  BY SafeStep, TempStep
<1> QED
  BY <1>1, <1>2, InvDistinct, PTL DEF Spec

(***************************************************************************)
(* What a plan is.  The commands of the sources come first, in the order   *)
(* of the inputs, a compiler and perhaps sqz for each; the linker's is the *)
(* last.  The invariant ties every command, object and output to the input *)
(* it is made from by the rank of that input among the sources.            *)
(***************************************************************************)
(* What a plan holds, and that parse_request has accepted the request. *)
CommandType == [tool : {"cc", "as", "sqz", "ln"}, source : Files, product : Files,
                reads : Seq(Files), response : Files]

TypeInv ==
  /\ request \in Requests /\ ParserAccepts(request)
  /\ TypeOK

(* How far the planner is. *)
Live == pc \notin {"refused", "crashed"}
Before == {"areas", "expand", "inputs", "target"}
Linked == {"link", "serialize", "planned"}
Checked == {"target", "compile", "output", "debug", "table", "startup"} \union Linked

(* How many inputs have been checked, compiled and listed. *)
CheckedTo == IF pc = "inputs" THEN item - 1 ELSE IF pc \in Checked THEN Len(inputs) ELSE 0
CompiledTo ==
  IF pc = "compile" THEN item - 1 ELSE IF pc \in Checked \ {"target"} THEN Len(inputs) ELSE 0
LinkedTo == IF pc = "link" THEN item - 1 ELSE Len(inputs)

(* No file of the user is in the workspace. *)
ApartInv ==
  /\ \A i \in 1..Len(inputs) : inputs[i].dir # "E"
  /\ \A a \in 1..Len(areas) : areas[a] # "E"
  /\ \A o \in 1..Len(outputs) : outputs[o].host.dir # "E"

(* What validate has found out about the inputs checked so far. *)
CheckInv ==
  /\ \A i \in 1..CheckedTo :
       /\ Kind(inputs[i]) # "unknown"
       /\ ~ Linking => IsSource(inputs[i])
       /\ Kind(inputs[i]) \notin {"libname", "library"} =>
            \A j \in 1..(i - 1) : inputs[j] # inputs[i]
  /\ pc \in Checked => Chosen({"c", "asm", "object", "list"}) # {}

(* What resolve_target and link_inputs have found out about the output. *)
TargetInv ==
  pc \in Checked \ {"target"} /\ Linking =>
    /\ ~ Overlay =>
         /\ LinkOutput.suffix \in {"cmd", "exe", "com"}
         /\ LinkOutput.suffix = "cmd" <=> target = "cpm86"
         /\ request.targetGiven => target = request.target
    /\ pc \notin {"compile", "output"} => SuffixAllowed

(* The rank of an input is the number of sources up to it; the commands of   *)
(* the k-th source end at Runs(k), those of source i begin at First(i).      *)
Rank(i) == Cardinality({j \in 1..i : IsSource(inputs[j])})
Runs(k) == IF request.squeeze THEN 2 * k ELSE k
First(i) == Runs(Rank(i) - 1) + 1

Compiles(cmd, file) == cmd.tool \in {"cc", "as"} /\ cmd.source = file /\ cmd.reads = << file >>
Squeezes(cmd, file, product) ==
  cmd.tool = "sqz" /\ cmd.source = file /\ cmd.product = product /\ cmd.reads = << product >>

(* A source has been compiled, and squeezed; its object is the linker's or an *)
(* output.                                                                   *)
Built(i) ==
  LET made == commands[First(i)] IN
  /\ Compiles(made, inputs[i]) /\ made.product.dir = "E"
  /\ request.squeeze => Squeezes(commands[First(i) + 1], inputs[i], made.product)
  /\ IF Linking THEN objects[Rank(i)] = made.product
     ELSE outputs[Rank(i)].product = made.product

SourceAt(k) == \E i \in 1..CompiledTo : IsSource(inputs[i]) /\ Rank(i) = k

(* The commands are those of the sources compiled so far, in their order, and *)
(* perhaps the linker's.                                                     *)
CompileInv ==
  Live =>
    LET n == Rank(CompiledTo) IN
    /\ CompiledTo <= Len(inputs)
    /\ Len(objects) = IF Linking THEN n ELSE 0
    /\ ~ Linking => Len(outputs) = n
    /\ Len(commands) = Runs(n) + (IF Linking /\ pc \in Linked THEN 1 ELSE 0)
    /\ \A i \in 1..CompiledTo : IsSource(inputs[i]) => Built(i)
    /\ \A k \in 1..n : SourceAt(k)
    /\ \A c \in 1..Runs(n) : \E i \in 1..CompiledTo :
         IsSource(inputs[i]) /\ (c = First(i) \/ (request.squeeze /\ c = First(i) + 1))

(* A link's outputs: the executable first, then the side files. *)
SideSuffixes == (IF request.debug THEN {"dbg"} ELSE {})
                \union (IF request.overlayRoot THEN {"rsm"} ELSE {})
NamedOutputs ==
  Linking /\ Live =>
    /\ outputs # << >> <=> pc \in Named \union Linked
    /\ outputs # << >> => outputs[1].host = LinkOutput
    /\ \A o \in 1..Len(outputs) : outputs[o].host.suffix \in {LinkOutput.suffix} \union SideSuffixes

(* What the linker reads: the start files, the inputs listed so far, and     *)
(* nothing but files of the disk and objects.                                *)
LastReads == commands[Len(commands)].reads
Placed(i) ==
  LET read == LastReads[Len(StartFiles) + i] IN
  \/ Kind(inputs[i]) = "libname" /\ read.suffix = "lib"
  \/ Kind(inputs[i]) \in {"object", "library"} /\ read = inputs[i]
  \/ IsSource(inputs[i]) /\ read = objects[Rank(i)]
FromDisk(file) ==
  /\ WorkspaceIsApart => file.dir # "E"
  /\ (file.suffix \in {"o", "lib"} \/ (Overlay /\ file.suffix = "rsm"))
LinkInv ==
  /\ Live /\ pc \notin Linked => object = 0
  /\ pc \in Linked /\ Linking =>
    /\ commands[Len(commands)].tool = "ln"
    /\ commands[Len(commands)].product = LinkProduct
    /\ object = Rank(LinkedTo) /\ LinkedTo <= Len(inputs)
    /\ Len(StartFiles) + LinkedTo <= Len(LastReads)
    /\ pc = "link" => Len(LastReads) = Len(StartFiles) + LinkedTo
    /\ \A i \in 1..LinkedTo : Placed(i)
    /\ \A k \in 1..Len(LastReads) :
         FromDisk(LastReads[k]) \/ \E o \in 1..Len(objects) : LastReads[k] = objects[o]

(* The inductive invariant, with that of the temporaries. *)
PlanInv ==
  /\ TypeInv /\ (WorkspaceIsApart => ApartInv) /\ CheckInv /\ TargetInv
  /\ CompileInv /\ NamedOutputs /\ LinkInv

(***************************************************************************)
(* Ranks                                                                   *)
(***************************************************************************)
LEMMA RankFinite ==
  ASSUME NEW i \in Nat
  PROVE  IsFiniteSet({j \in 1..i : IsSource(inputs[j])})
<1>1. IsFiniteSet(1..i)
  BY FS_Interval
<1> QED
  BY <1>1, FS_Subset

(* How many of the first inputs are sources is a number.                     *)
LEMMA RankType == \A i \in Nat : Rank(i) \in Nat
BY RankFinite, FS_CardinalityType DEF Rank

(* It is none before the first input.                                        *)
LEMMA RankZero == Rank(0) = 0
<1>1. {j \in 1..0 : IsSource(inputs[j])} = {}
  OBVIOUS
<1> QED
  BY <1>1, FS_EmptySet DEF Rank

(* One more input: its rank is the next one if it is a source. *)
LEMMA RankNext ==
  ASSUME NEW i \in Nat \ {0}
  PROVE  /\ IsSource(inputs[i]) => Rank(i) = Rank(i - 1) + 1
         /\ ~ IsSource(inputs[i]) => Rank(i) = Rank(i - 1)
<1> DEFINE S(k) == {j \in 1..k : IsSource(inputs[j])}
<1>1. i - 1 \in Nat /\ i \notin 1..(i - 1) /\ 1..i = 1..(i - 1) \union {i}
  OBVIOUS
<1>2. IsFiniteSet(S(i - 1)) /\ i \notin S(i - 1)
  BY <1>1, RankFinite
<1>3. CASE IsSource(inputs[i])
  <2>1. S(i) = S(i - 1) \union {i}
    BY <1>1, <1>3
  <2>2. Cardinality(S(i - 1) \union {i}) = Cardinality(S(i - 1)) + 1
    BY <1>2, FS_AddElement
  <2> QED
    BY <1>3, <2>1, <2>2 DEF Rank
<1>4. CASE ~ IsSource(inputs[i])
  <2>1. S(i) = S(i - 1)
    BY <1>1, <1>4
  <2> QED
    BY <1>4, <2>1 DEF Rank
<1> QED
  BY <1>3, <1>4

(* Ranks grow, and those of sources are distinct. *)
LEMMA RankGrows ==
  ASSUME NEW i \in Nat, NEW j \in Nat, i <= j
  PROVE  /\ Rank(i) <= Rank(j)
         /\ i < j /\ IsSource(inputs[j]) => Rank(i) < Rank(j)
<1> DEFINE S(k) == {m \in 1..k : IsSource(inputs[m])}
<1>1. /\ IsFiniteSet(S(i)) /\ IsFiniteSet(S(j))
      /\ Rank(i) = Cardinality(S(i)) /\ Rank(j) = Cardinality(S(j))
      /\ Rank(i) \in Nat /\ Rank(j) \in Nat
  BY RankFinite, RankType DEF Rank
<1>2. S(i) \subseteq S(j)
  OBVIOUS
<1>3. ASSUME i < j, IsSource(inputs[j]) PROVE j \in S(j) /\ j \notin S(i)
  BY <1>3
<1> HIDE DEF S
<1>4. Rank(i) <= Rank(j)
  BY <1>1, <1>2, FS_Subset
<1>5. ASSUME i < j, IsSource(inputs[j]) PROVE Rank(i) < Rank(j)
  <2>1. S(i) # S(j)
    BY <1>3, <1>5
  <2>2. Cardinality(S(i)) # Cardinality(S(j))
    BY <1>1, <1>2, <2>1, FS_Subset
  <2> QED
    BY <1>1, <1>4, <2>2
<1> QED
  BY <1>4, <1>5

(* The rank of an input depends on the inputs only. *)
LEMMA RankKept ==
  ASSUME inputs' = inputs
  PROVE  \A i : Rank(i)' = Rank(i)
BY Zenon DEF Rank

(* A source has a rank of its own, from 1 to that of the last input. *)
LEMMA SourceRank ==
  ASSUME NEW n \in Nat, NEW i \in 1..n, IsSource(inputs[i])
  PROVE  /\ Rank(i) \in 1..Rank(n) /\ Rank(i) = Rank(i - 1) + 1
         /\ \A j \in 1..n : IsSource(inputs[j]) /\ Rank(j) = Rank(i) => j = i
<1>1. Rank(i) \in Nat /\ Rank(i - 1) \in Nat /\ Rank(n) \in Nat
  BY RankType
<1>2. Rank(i) = Rank(i - 1) + 1 /\ Rank(i) <= Rank(n)
  BY RankNext, RankGrows
<1>3. ASSUME NEW j \in 1..n, IsSource(inputs[j]), Rank(j) = Rank(i), j # i PROVE FALSE
  <2>1. Rank(j) \in Nat
    BY RankType
  <2>2. i < j => Rank(i) < Rank(j)
    BY <1>3, RankGrows
  <2>3. j < i => Rank(j) < Rank(i)
    BY RankGrows
  <2> QED
    BY <1>1, <1>3, <2>1, <2>2, <2>3
<1> QED
  BY <1>1, <1>2, <1>3

(***************************************************************************)
(* Types                                                                   *)
(***************************************************************************)
LEMMA ReadableFiles == Readable \subseteq Files
BY RequestShape

(* A new command has the type of one and holds what it was given. *)
LEMMA NewCommandType ==
  ASSUME NEW tool \in {"cc", "as", "sqz", "ln"}, NEW source \in Files, NEW product \in Files,
         NEW reads \in Seq(Files)
  PROVE  /\ NewCommand(tool, source, product, reads) \in CommandType
         /\ NewCommand(tool, source, product, reads).tool = tool
         /\ NewCommand(tool, source, product, reads).source = source
         /\ NewCommand(tool, source, product, reads).product = product
         /\ NewCommand(tool, source, product, reads).reads = reads
BY NoFileIsFile DEF NewCommand, CommandType

(* What compile_input adds for one source. *)
LEMMA CompileShape ==
  ASSUME NEW file \in Files, NEW product \in Files, NEW new, new = CompileCommands(file, product)
  PROVE  /\ new \in Seq(CommandType)
         /\ Len(new) = IF request.squeeze THEN 2 ELSE 1
         /\ Compiles(new[1], file) /\ new[1].product = product
         /\ request.squeeze => Squeezes(new[2], file, product)
<1> DEFINE tool == IF Kind(file) = "c" THEN "cc" ELSE "as"
           source == << file >>
           reads == << product >>
           last == "sqz"
           cc == NewCommand(tool, file, product, source)
           sqz == NewCommand(last, file, product, reads)
<1>1. /\ source \in Seq(Files) /\ reads \in Seq(Files)
      /\ tool \in {"cc", "as"} /\ last \in {"cc", "as", "sqz", "ln"}
  OBVIOUS
<1> HIDE DEF tool, source, reads, last
<1>2. cc \in CommandType /\ Compiles(cc, file) /\ cc.product = product
  <2>1. tool \in {"cc", "as", "sqz", "ln"}
    BY <1>1
  <2>2. /\ cc \in CommandType /\ cc.tool = tool /\ cc.source = file
        /\ cc.product = product /\ cc.reads = source
    BY <1>1, <2>1, NewCommandType
  <2> HIDE DEF cc
  <2> QED
    BY <1>1, <2>2 DEF Compiles, source
<1>3. sqz \in CommandType /\ Squeezes(sqz, file, product)
  <2>2. /\ sqz \in CommandType /\ sqz.tool = last /\ sqz.source = file
        /\ sqz.product = product /\ sqz.reads = reads
    BY <1>1, NewCommandType
  <2> HIDE DEF sqz
  <2> QED
    BY <2>2 DEF Squeezes, reads, last
<1>4. new = << cc >> \o (IF request.squeeze THEN << sqz >> ELSE << >>)
  BY DEF CompileCommands, tool, source, reads, last
<1> HIDE DEF cc, sqz
<1>5. CASE request.squeeze
  <2>1. /\ new \in Seq(CommandType) /\ Len(new) = 2 /\ new[1] = cc /\ new[2] = sqz
    <3>1. /\ << cc >> \in Seq(CommandType) /\ << sqz >> \in Seq(CommandType)
          /\ Len(<< cc >>) = 1 /\ Len(<< sqz >>) = 1
          /\ << cc >>[1] = cc /\ << sqz >>[1] = sqz
      BY <1>2, <1>3
    <3>2. new = << cc >> \o << sqz >>
      BY <1>4, <1>5
    <3> QED
      BY <3>1, <3>2, ConcatProperties
  <2> QED
    BY <1>2, <1>3, <1>5, <2>1
<1>6. CASE ~ request.squeeze
  <2>1. new = << cc >>
    BY <1>2, <1>4, <1>6
  <2> QED
    BY <1>2, <1>6, <2>1
<1> QED
  BY <1>5, <1>6

(* The file that starts a link is on the disk. *)
LEMMA StartFilesType ==
  ASSUME Listed(StartFiles)
  PROVE  StartFiles \in Seq(Files)
<1>1. StartFiles = << >> \/ StartFiles = << Startup >>
  BY DEF StartFiles
<1>2. CASE StartFiles = << Startup >>
  <2>1. Len(StartFiles) = 1 /\ StartFiles[1] = Startup
    BY <1>2
  <2>2. Startup \in Files
    BY <2>1, ReadableFiles DEF Listed
  <2> QED
    BY <1>2, <2>2
<1>3. << >> \in Seq(Files)
  OBVIOUS
<1> QED
  BY <1>1, <1>2, <1>3

(* The files that end a link are on the disk. *)
LEMMA EndFilesType ==
  ASSUME request \in RequestType, Listed(EndFiles)
  PROVE  EndFiles \in Seq(Files) /\ \A k \in 1..Len(EndFiles) : EndFiles[k] \in Readable
<1> DEFINE loader == IF request.overlayRoot THEN << Stock("ovld", "o") >> ELSE << >>
           start == IF Overlay THEN << request.overlayTable, Stock("ovbgn", "o") >> ELSE << >>
           runtime == IF Overlay \/ request.nostdlib THEN << >> ELSE << Runtime >>
           All == {Stock("ovld", "o"), request.overlayTable, Stock("ovbgn", "o"), Runtime}
<1>1. loader \in Seq(All) /\ start \in Seq(All) /\ runtime \in Seq(All)
  <2>1. << >> \in Seq(All)
    OBVIOUS
  <2>2. ASSUME NEW x \in All, NEW y \in All PROVE << x >> \in Seq(All) /\ << x, y >> \in Seq(All)
    BY <2>2
  <2>3. /\ Stock("ovld", "o") \in All /\ request.overlayTable \in All
        /\ Stock("ovbgn", "o") \in All /\ Runtime \in All
    OBVIOUS
  <2> HIDE DEF All
  <2> QED
    BY <2>1, <2>2, <2>3
<1>2. EndFiles = loader \o start \o runtime
  BY DEF EndFiles
<1>3. EndFiles \in Seq(All)
  BY <1>1, <1>2, ConcatProperties
<1> HIDE DEF All
<1>4. \A k \in 1..Len(EndFiles) : EndFiles[k] \in Readable
  BY DEF Listed
<1>5. \A k \in 1..Len(EndFiles) : EndFiles[k] \in Files
  BY <1>4, ReadableFiles
<1>6. Len(EndFiles) \in Nat /\ EndFiles \in [1..Len(EndFiles) -> All]
  BY <1>3, LenProperties
<1>7. EndFiles \in [1..Len(EndFiles) -> Files]
  BY <1>5, <1>6
<1> QED
  BY <1>4, <1>6, <1>7

(* A request is one of RequestType. *)
LEMMA RequestTyped == ASSUME TypeInv PROVE request \in RequestType
<1>1. Requests \subseteq RequestType
  BY RequestShape
<1> QED
  BY <1>1 DEF TypeInv

(* The types that the lemmas about outputs need. *)
LEMMA TypedFromType == ASSUME TypeInv PROVE Typed
<1>1. request \in RequestType
  BY RequestTyped
<1> QED
  BY <1>1, LimitsAreNat DEF TypeInv, TypeOK, Typed, OutputType

(* An output that is added is typed and has its room. *)
LEMMA AddTyped ==
  ASSUME NEW file \in Files, NEW product \in Files,
         outputs \in Seq([host : Files, product : Files]),
         AddOutput(file, product)
  PROVE  outputs' \in Seq([host : Files, product : Files]) /\ Room(outputs', 0)
<1>1. [host |-> file, product |-> product] \in [host : Files, product : Files]
  OBVIOUS
<1>2. outputs' = Append(outputs, [host |-> file, product |-> product]) /\ Room(outputs, 1)
  BY DEF AddOutput, Publishable
<1> QED
  BY <1>1, <1>2, LimitsAreNat DEF Room

(* A side file that is added is typed and has its room. *)
LEMMA SideFileTyped ==
  ASSUME NEW wanted, NEW suffix \in Names, Typed, outputs # << >>, Room(outputs, 0),
         SideFile(wanted, suffix)
  PROVE  outputs' \in Seq([host : Files, product : Files]) /\ Room(outputs', 0)
<1>1. WithSuffix(LinkOutput, suffix) \in Files /\ WithSuffix(LinkProduct, suffix) \in Files
  BY OutputNames, LinkProductIsFile, WithSuffixIsFile
<1>2. outputs \in Seq([host : Files, product : Files])
  BY DEF Typed, OutputType
<1>3. CASE outputs' = outputs
  BY <1>2, <1>3 DEF Room
<1>4. CASE AddOutput(WithSuffix(LinkOutput, suffix), WithSuffix(LinkProduct, suffix))
  BY <1>1, <1>2, <1>4, AddTyped
<1> QED
  BY <1>3, <1>4 DEF SideFile

(* A linker's command takes more files. *)
LEMMA LinkFilesTyped ==
  ASSUME NEW files \in Seq(Files), commands \in Seq(CommandType), commands # << >>,
         LinkFiles(files)
  PROVE  LET last == Len(commands) IN
         /\ commands' \in Seq(CommandType) /\ Len(commands') = last /\ last \in Nat \ {0}
         /\ \A c \in 1..(last - 1) : commands'[c] = commands[c]
         /\ commands'[last].tool = commands[last].tool
         /\ commands'[last].product = commands[last].product
         /\ commands'[last].source = commands[last].source
         /\ commands'[last].reads = commands[last].reads \o files
<1> DEFINE last == Len(commands)
           cmd == commands[last]
           reads == cmd.reads \o files
           new == [cmd EXCEPT !.reads = reads]
<1>1. last \in Nat \ {0} /\ last \in 1..last
  BY EmptySeq
<1>2. cmd \in CommandType
  BY <1>1
<1>3. cmd.reads \in Seq(Files)
  BY <1>2 DEF CommandType
<1>4. reads \in Seq(Files)
  BY <1>3, ConcatProperties
<1>5. commands' = [commands EXCEPT ![last] = new]
  BY DEF LinkFiles
<1> HIDE DEF reads, cmd
<1>6. /\ new \in CommandType /\ new.tool = cmd.tool /\ new.product = cmd.product
      /\ new.source = cmd.source /\ new.reads = reads
  BY <1>2, <1>4 DEF CommandType
<1> HIDE DEF new, last
<1>7. /\ commands' \in Seq(CommandType) /\ Len(commands') = Len(commands)
      /\ \A c \in 1..Len(commands) : commands'[c] = IF c = last THEN new ELSE commands[c]
  BY <1>1, <1>5, <1>6, ExceptSeq DEF last
<1>8. /\ Len(commands') = last
      /\ \A c \in 1..(last - 1) : commands'[c] = commands[c]
      /\ commands'[last] = new
  BY <1>1, <1>7 DEF last
<1> QED
  BY <1>1, <1>6, <1>7, <1>8 DEF last, cmd, reads

(* A library that is found exists. *)
LEMMA LibraryIsReadable ==
  ASSUME NEW name, NEW file, Library(name, file)
  PROVE  file \in Readable
BY DEF Library, UserLibrary

(* The response file of a command. *)
LEMMA SerializeTyped ==
  ASSUME commands \in Seq(CommandType), item \in 1..Len(commands), NEW file \in Files,
         commands' = [commands EXCEPT ![item].response = file]
  PROVE  /\ commands' \in Seq(CommandType) /\ Len(commands') = Len(commands)
         /\ \A c \in 1..Len(commands) : /\ commands'[c].tool = commands[c].tool
                                        /\ commands'[c].source = commands[c].source
                                        /\ commands'[c].product = commands[c].product
                                        /\ commands'[c].reads = commands[c].reads
<1> DEFINE cmd == commands[item]
           new == [cmd EXCEPT !.response = file]
<1>1. cmd \in CommandType
  OBVIOUS
<1>2. commands' = [commands EXCEPT ![item] = new]
  OBVIOUS
<1> HIDE DEF cmd
<1>3. /\ new \in CommandType /\ new.tool = cmd.tool /\ new.product = cmd.product
      /\ new.source = cmd.source /\ new.reads = cmd.reads
  BY <1>1 DEF CommandType
<1> HIDE DEF new
<1>4. /\ commands' \in Seq(CommandType) /\ Len(commands') = Len(commands)
      /\ \A c \in 1..Len(commands) : commands'[c] = IF c = item THEN new ELSE commands[c]
  BY <1>2, <1>3, ExceptSeq
<1> QED
  BY <1>3, <1>4 DEF cmd

(* There is an object for the source at hand. *)
LEMMA ObjectThere ==
  ASSUME TypeInv, TempInv, CompileInv, LinkInv, pc = "link", item <= Len(inputs),
         IsSource(inputs[item])
  PROVE  object + 1 \in 1..Len(objects) /\ object + 1 = Rank(item) /\ Linking
<1>1. Linking
  BY DEF TempInv, LinkParts
<1>2. item \in 1..Len(inputs) /\ Len(inputs) \in Nat /\ item - 1 \in Nat /\ Len(inputs) >= item
  BY DEF TypeInv, TypeOK
<1>3. object = Rank(item - 1)
  BY <1>1 DEF LinkInv, Linked, LinkedTo
<1>4. Len(objects) = Rank(Len(inputs))
  <2>1. CompiledTo = Len(inputs)
    BY DEF CompiledTo, Checked, Linked
  <2> QED
    BY <1>1, <2>1 DEF CompileInv, Live
<1>5. Rank(item) = Rank(item - 1) + 1 /\ Rank(item) \in 1..Rank(Len(inputs))
  BY <1>2, SourceRank
<1> QED
  BY <1>1, <1>3, <1>4, <1>5

(* Every step keeps the types, the counter in its limit and the lists in theirs. *)
LEMMA TypeStep ==
  ASSUME TypeInv, SafeInv, TempInv, CompileInv, LinkInv, [Next]_vars
  PROVE  TypeInv'
<1>1. /\ request \in RequestType /\ request' = request /\ ParserAccepts(request)
      /\ request \in Requests /\ Typed
  <2>1. request' = request
    BY DEF Next, vars, SearchAreas, ExpandInput, EndExpand, CheckInput, CheckRequest,
       ResolveTarget, CompileInput, SkipInput, EndCompile, Crash, NameOutput, DebugOutput,
       TableOutput, StartLink, LinkSource, LinkLibrary, LinkFile, EndLink, Serialize,
       EndSerialize, Refuse
  <2> QED
    BY <2>1, RequestTyped, TypedFromType DEF TypeInv
<1>2. TypeOK
  BY DEF TypeInv
<1> SUFFICES TypeOK'
  BY <1>1 DEF TypeInv
<1> DEFINE CommandSeq == Seq([tool : {"cc", "as", "sqz", "ln"}, source : Files, product : Files,
                              reads : Seq(Files), response : Files])
<1>3. /\ item \in Nat \ {0} /\ object \in 0..Len(objects) /\ temps \in 0..TempLimit
      /\ areas \in Seq(Names) /\ inputs \in Seq(Files) /\ objects \in Seq(Files)
      /\ commands \in Seq(CommandType) /\ Seq(CommandType) = CommandSeq
      /\ outputs \in Seq([host : Files, product : Files])
      /\ target \in {"cpm86", "dos1", "dos2"} /\ Room(outputs, 0) /\ Room(objects, 0)
      /\ TempLimit \in Nat /\ ListLimit \in Nat
  BY <1>2, LimitsAreNat DEF TypeOK, CommandType
<1>4. CASE SearchAreas
  <2>1. areas' = request.areas \o EnvAreas \o << "lib" >> /\ Room(areas', 0)
    BY <1>4 DEF SearchAreas
  <2>2. request.areas \in Seq(Names) /\ EnvAreas \in Seq(Names) /\ << "lib" >> \in Seq(Names)
    <3>1. EnvAreas \in Seq(Names) /\ "lib" \in Names
      BY RequestShape
    <3> QED
      BY <1>1, <3>1 DEF RequestType
  <2>3. areas' \in Seq(Names)
    BY <2>1, <2>2, ConcatProperties
  <2> QED
    BY <1>2, <1>4, <2>1, <2>3 DEF SearchAreas, Goto, TypeOK, Room
<1>5. CASE ExpandInput
  <2>1. inputs' = inputs \o Entries(request.inputs[item]) /\ Room(inputs', 0)
    BY <1>5 DEF ExpandInput
  <2>2. inputs' \in Seq(Files)
    BY <1>1, <1>3, <1>5, SafeStep DEF Next, SafeInv, OutputInv, Typed
  <2> QED
    BY <1>2, <1>5, <2>1, <2>2 DEF ExpandInput, TypeOK, Room
<1>6. CASE EndExpand \/ CheckInput \/ CheckRequest \/ SkipInput \/ EndCompile \/ Crash
             \/ EndSerialize \/ Refuse
  <2>1. UNCHANGED << areas, inputs, objects, object, temps, target, commands, outputs >>
    BY <1>6 DEF EndExpand, CheckInput, CheckRequest, SkipInput, EndCompile, Crash,
                EndSerialize, Refuse
  <2>2. item' = 1 \/ item' = item + 1
    BY <1>6 DEF EndExpand, CheckInput, CheckRequest, SkipInput, EndCompile, Crash,
                EndSerialize, Refuse, Goto
  <2>3. pc' \in {"areas", "expand", "inputs", "target", "compile", "output", "debug",
             "table", "startup", "link", "serialize", "planned", "refused", "crashed"}
    BY <1>2, <1>6 DEF EndExpand, CheckInput, CheckRequest, SkipInput, EndCompile, Crash,
                EndSerialize, Refuse, Goto, TypeOK
  <2> QED
    BY <1>2, <2>1, <2>2, <2>3 DEF TypeOK, Room
<1>7. CASE ResolveTarget
  <2>1. target' \in {"cpm86", "dos1", "dos2"}
    BY <1>1, <1>7 DEF ResolveTarget, RequestType
  <2> QED
    BY <1>2, <1>7, <2>1 DEF ResolveTarget, Goto, TypeOK, Room
<1>8. CASE CompileInput
  <2> DEFINE product == Temp(temps + 1, Suffix)
             new == CompileCommands(inputs[item], product)
  <2>1. inputs[item] \in Files /\ product \in Files /\ CompileOutput(inputs[item]) \in Files
    <3>1. inputs[item] \in Files /\ temps \in Nat
      BY <1>3, <1>8 DEF CompileInput
    <3>2. Suffix \in Names
      BY <1>1, OutputNames
    <3> QED
      BY <1>1, <3>1, <3>2, OutputNames, TempIsFile
  <2>2. new \in Seq(CommandType)
    BY <2>1, CompileShape
  <2>3. /\ commands' = commands \o new /\ temps' = temps + 1 /\ temps < TempLimit
        /\ item' = item + 1 /\ UNCHANGED << pc, areas, inputs, object, target >>
        /\ \/ Room(objects, 1) /\ objects' = Append(objects, product) /\ outputs' = outputs
           \/ AddOutput(CompileOutput(inputs[item]), product) /\ objects' = objects
    BY <1>8 DEF CompileInput
  <2>4. commands' \in Seq(CommandType)
    BY <1>3, <2>2, <2>3, ConcatProperties
  <2> HIDE DEF product, new
  <2>5. CASE Room(objects, 1) /\ objects' = Append(objects, product) /\ outputs' = outputs
    <3>1. objects' \in Seq(Files) /\ Len(objects') = Len(objects) + 1
      BY <1>3, <2>1, <2>5, AppendProperties
    <3>2. Room(objects', 0) /\ object \in 0..Len(objects')
      BY <1>3, <2>5, <3>1 DEF Room
    <3> QED
      BY <1>2, <1>3, <2>3, <2>4, <2>5, <3>1, <3>2 DEF TypeOK, Room
  <2>6. CASE AddOutput(CompileOutput(inputs[item]), product) /\ objects' = objects
    <3>1. outputs' \in Seq([host : Files, product : Files]) /\ Room(outputs', 0)
      BY <1>3, <2>1, <2>6, AddTyped
    <3> QED
      BY <1>2, <1>3, <2>3, <2>4, <2>6, <3>1 DEF TypeOK, Room
  <2> QED
    BY <2>3, <2>5, <2>6
<1>9. CASE NameOutput
  <2>1. LinkOutput \in Files /\ Temp(temps + 1, LinkOutput.suffix) \in Files
    <3>1. LinkOutput \in Files /\ temps + 1 \in Nat
      BY <1>1, <1>3, OutputNames
    <3>2. LinkOutput.suffix \in Names
      BY <3>1 DEF Files
    <3> QED
      BY <3>1, <3>2, TempIsFile
  <2>2. outputs' \in Seq([host : Files, product : Files]) /\ Room(outputs', 0)
    BY <1>3, <1>9, <2>1, AddTyped DEF NameOutput
  <2>3. /\ temps' = temps + 1 /\ temps < TempLimit /\ pc' = "debug" /\ item' = 1
        /\ UNCHANGED << areas, inputs, objects, object, target, commands >>
    BY <1>9 DEF NameOutput, Goto
  <2> QED
    BY <1>2, <1>3, <2>2, <2>3 DEF TypeOK, Room
<1>10. CASE DebugOutput \/ TableOutput
  <2>1. /\ pc' \in {"table", "startup"} /\ item' = 1 /\ outputs # << >>
        /\ UNCHANGED << areas, inputs, objects, object, temps, target, commands >>
    BY <1>10 DEF DebugOutput, TableOutput, Goto, SafeInv, LinkNamed
  <2>2. "dbg" \in Names /\ "rsm" \in Names
    BY RequestShape
  <2>3. outputs' \in Seq([host : Files, product : Files]) /\ Room(outputs', 0)
    BY <1>1, <1>3, <1>10, <2>1, <2>2, SideFileTyped DEF DebugOutput, TableOutput
  <2> QED
    BY <1>2, <1>3, <2>1, <2>3 DEF TypeOK, Room
<1>11. CASE StartLink
  <2> DEFINE ln == NewCommand("ln", LinkOutput, LinkProduct, StartFiles)
  <2>1. LinkOutput \in Files /\ LinkProduct \in Files
    BY <1>1, <1>11, OutputNames, LinkProductIsFile DEF StartLink, SafeInv, LinkNamed
  <2>2. StartFiles \in Seq(Files)
    BY <1>11, StartFilesType DEF StartLink
  <2>3. ln \in CommandType
    <3> DEFINE tool == "ln"
    <3>1. tool \in {"cc", "as", "sqz", "ln"}
      OBVIOUS
    <3> HIDE DEF tool
    <3>2. NewCommand(tool, LinkOutput, LinkProduct, StartFiles) \in CommandType
      BY <2>1, <2>2, <3>1, NewCommandType
    <3> QED
      BY <3>2 DEF tool
  <2>4. /\ pc' = "link" /\ item' = 1 /\ commands' = Append(commands, ln)
        /\ UNCHANGED << areas, inputs, objects, object, temps, target, outputs >>
    BY <1>11 DEF StartLink, Goto
  <2> HIDE DEF ln
  <2>5. commands' \in Seq(CommandType)
    BY <1>3, <2>3, <2>4, AppendProperties
  <2>6. commands' \in CommandSeq
    BY <1>3, <2>5
  <2> HIDE DEF CommandSeq
  <2> QED
    BY <1>2, <2>4, <2>6 DEF TypeOK, Room, CommandSeq
<1>12. ASSUME NEW files \in Seq(Files), LinkFiles(files),
              pc = "link", pc' \in {"link", "serialize"},
              item' \in {1, item + 1}, object' \in 0..Len(objects),
              UNCHANGED << areas, inputs, objects, temps, target, outputs >>
       PROVE  TypeOK'
  <2>1. commands # << >>
    BY <1>12 DEF TempInv, LinkParts
  <2>2. commands' \in Seq(CommandType)
    BY <1>3, <1>12, <2>1, LinkFilesTyped
  <2> QED
    BY <1>2, <1>3, <1>12, <2>2 DEF TypeOK, Room
<1>13. CASE LinkSource
  <2>1. object + 1 \in 1..Len(objects)
    BY <1>13, ObjectThere DEF LinkSource
  <2>2. objects[object + 1] \in Files
    BY <1>3, <2>1
  <2>3. << objects[object + 1] >> \in Seq(Files) /\ object' \in 0..Len(objects)
    BY <1>3, <1>13, <2>1, <2>2 DEF LinkSource
  <2> QED
    BY <1>12, <1>13, <2>3 DEF LinkSource
<1>14. CASE LinkLibrary
  <2>1. PICK file \in Readable : LinkFiles(<< file >>)
    BY <1>14 DEF LinkLibrary
  <2>2. << file >> \in Seq(Files)
    BY <2>1, ReadableFiles
  <2> QED
    BY <1>3, <1>12, <1>14, <2>1, <2>2 DEF LinkLibrary
<1>15. CASE LinkFile
  <2>1. << inputs[item] >> \in Seq(Files)
    BY <1>3, <1>15 DEF LinkFile
  <2> QED
    BY <1>3, <1>12, <1>15, <2>1 DEF LinkFile
<1>16. CASE EndLink
  <2>1. EndFiles \in Seq(Files)
    BY <1>1, <1>16, EndFilesType DEF EndLink
  <2> QED
    BY <1>3, <1>12, <1>16, <2>1 DEF EndLink, Goto
<1>17. CASE Serialize
  <2>1. /\ item \in 1..Len(commands) /\ pc' = pc /\ item' = item + 1
        /\ UNCHANGED << areas, inputs, objects, object, target, outputs >>
    BY <1>3, <1>17 DEF Serialize
  <2>2. CASE UNCHANGED << temps, commands >>
    BY <1>2, <1>3, <2>1, <2>2 DEF TypeOK, Room
  <2>3. CASE /\ temps < TempLimit /\ temps' = temps + 1
             /\ commands' = [commands EXCEPT ![item].response = Temp(temps + 1, "rsp")]
    <3>1. Temp(temps + 1, "rsp") \in Files
      <4>1. "rsp" \in Names
        BY RequestShape
      <4>2. temps + 1 \in Nat
        BY <1>3
      <4> QED
        BY <4>1, <4>2, TempIsFile
    <3>2. commands' \in Seq(CommandType)
      BY <1>3, <2>1, <2>3, <3>1, SerializeTyped
    <3>3. commands' \in CommandSeq
      BY <1>3, <3>2
    <3>4. temps' \in 0..TempLimit
      <4>1. temps' = temps + 1 /\ temps < TempLimit
        BY <2>3
      <4> QED
        BY <1>3, <4>1
    <3> HIDE DEF CommandSeq
    <3> QED
      BY <1>2, <2>1, <3>3, <3>4 DEF TypeOK, Room, CommandSeq
  <2> QED
    BY <1>17, <2>2, <2>3 DEF Serialize
<1>18. CASE UNCHANGED vars
  BY <1>2, <1>18 DEF vars, TypeOK, Room
<1> QED
  BY <1>4, <1>5, <1>6, <1>7, <1>8, <1>9, <1>10, <1>11, <1>13, <1>14, <1>15, <1>16, <1>17,
     <1>18 DEF Next

(***************************************************************************)
(* No file of the user's is in the workspace                               *)
(***************************************************************************)
LEMMA OutputsApart ==
  ASSUME WorkspaceIsApart, TypeInv
  PROVE  LinkOutput.dir # "E" /\ \A file : CompileOutput(file).dir # "E"
<1>1. request.output.dir # "E"
  BY DEF WorkspaceIsApart, TypeInv
<1>2. \A stem, suffix : Host(".", stem, suffix).dir # "E"
  BY DEF Host
<1> QED
  BY <1>1, <1>2 DEF LinkOutput, CompileOutput

(* Another suffix leaves the directory. *)
LEMMA WithSuffixFields ==
  ASSUME NEW file \in Files, NEW suffix
  PROVE  WithSuffix(file, suffix).dir = file.dir /\ WithSuffix(file, suffix).suffix = suffix
BY DEF WithSuffix, Files

(* What an added output changes. *)
LEMMA AddLast ==
  ASSUME NEW file \in Files, NEW product \in Files,
         outputs \in Seq([host : Files, product : Files]),
         AddOutput(file, product)
  PROVE  /\ Len(outputs) \in Nat /\ Len(outputs') = Len(outputs) + 1 /\ outputs' # << >>
         /\ \A o \in 1..Len(outputs) : outputs'[o] = outputs[o]
         /\ outputs'[Len(outputs) + 1].host = file
         /\ outputs'[Len(outputs) + 1].product = product
         /\ \A o \in 1..Len(outputs') : o \in 1..Len(outputs) \/ o = Len(outputs) + 1
<1> DEFINE new == [host |-> file, product |-> product]
<1>1. new \in [host : Files, product : Files] /\ new.host = file /\ new.product = product
  OBVIOUS
<1>2. outputs' = Append(outputs, new)
  BY DEF AddOutput
<1> HIDE DEF new
<1>3. Len(outputs) \in Nat
  OBVIOUS
<1>4. /\ Len(outputs') = Len(outputs) + 1 /\ outputs' # << >>
      /\ \A o \in 1..Len(outputs) : outputs'[o] = outputs[o]
      /\ outputs'[Len(outputs) + 1] = new
  BY <1>1, <1>2, AppendProperties
<1> QED
  BY <1>1, <1>3, <1>4

(* The entries of a .inp file are outside the workspace. *)
LEMMA EntriesApart ==
  ASSUME WorkspaceIsApart, TypeInv, ExpandInput
  PROVE  LET new == Entries(request.inputs[item]) IN
         new \in Seq(Files) /\ \A e \in 1..Len(new) : new[e].dir # "E"
<1> DEFINE file == request.inputs[item]
<1>1. request.inputs \in Seq(Files) /\ item \in 1..Len(request.inputs) /\ request \in Requests
  BY RequestTyped DEF ExpandInput, TypeInv, TypeOK, RequestType
<1>2. file \in Files /\ file.dir # "E"
  BY <1>1 DEF WorkspaceIsApart
<1>3. Kind(file) = "list" => file \in Readable
  BY DEF ExpandInput
<1> HIDE DEF file
<1>4. CASE Kind(file) = "list"
  <2>1. Entries(file) \in Seq(Files)
    BY <1>3, <1>4, RequestShape DEF Entries, Kind
  <2> QED
    BY <1>3, <1>4, <2>1 DEF WorkspaceIsApart, file
<1>5. CASE Kind(file) # "list"
  <2>1. Entries(file) = << file >>
    BY <1>5 DEF Entries
  <2>2. << file >> \in Seq(Files) /\ \A e \in 1..Len(<< file >>) : << file >>[e].dir # "E"
    BY <1>2
  <2> QED
    BY <2>1, <2>2 DEF file
<1> QED
  BY <1>4, <1>5

(* No step brings a file of the user into the workspace. *)
LEMMA ApartStep ==
  ASSUME WorkspaceIsApart, TypeInv, SafeInv, ApartInv, [Next]_vars
  PROVE  ApartInv'
<1>1. /\ Typed /\ inputs \in Seq(Files) /\ item \in Nat \ {0} /\ request \in Requests
      /\ areas \in Seq(Names)
      /\ outputs \in Seq([host : Files, product : Files]) /\ temps + 1 \in Nat
  BY TypedFromType DEF TypeInv, TypeOK
<1>2. ASSUME UNCHANGED << areas, inputs, outputs >> PROVE ApartInv'
  BY <1>2 DEF ApartInv
<1>3. ASSUME NEW file \in Files, NEW product \in Files, file.dir # "E", AddOutput(file, product),
             UNCHANGED << areas, inputs >>
      PROVE  ApartInv'
  <2>1. \A o \in 1..Len(outputs') : outputs'[o].host.dir # "E"
    BY <1>1, <1>3, AddLast DEF ApartInv
  <2> QED
    BY <1>3, <2>1 DEF ApartInv
<1>4. CASE SearchAreas
  <2>1. /\ request.areas \in Seq(Names) /\ EnvAreas \in Seq(Names) /\ << "lib" >> \in Seq(Names)
    <3>1. EnvAreas \in Seq(Names) /\ "lib" \in Names
      BY RequestShape
    <3> QED
      BY <3>1, RequestTyped DEF RequestType
  <2>2. /\ areas' = request.areas \o EnvAreas \o << "lib" >>
        /\ UNCHANGED << inputs, outputs >>
    BY <1>4 DEF SearchAreas
  <2>3. request.areas \o EnvAreas \in Seq(Names)
    BY <2>1, ConcatProperties
  <2>4. \A a \in 1..Len(request.areas \o EnvAreas) : (request.areas \o EnvAreas)[a] # "E"
    <3>1. /\ \A a \in 1..Len(request.areas) : request.areas[a] # "E"
          /\ \A a \in 1..Len(EnvAreas) : EnvAreas[a] # "E"
      BY <1>1 DEF WorkspaceIsApart
    <3> QED
      BY <2>1, <3>1, ConcatProperties
  <2>5. \A a \in 1..Len(areas') : areas'[a] # "E"
    <3>1. Len(<< "lib" >>) = 1 /\ << "lib" >>[1] # "E"
      OBVIOUS
    <3> HIDE <1>4
    <3> QED
      BY <2>1, <2>2, <2>3, <2>4, <3>1, ConcatProperties
  <2> QED
    BY <2>2, <2>5 DEF ApartInv
<1>5. CASE ExpandInput
  <2> DEFINE new == Entries(request.inputs[item])
  <2>1. inputs' = inputs \o new /\ UNCHANGED << areas, outputs >>
    BY <1>5 DEF ExpandInput
  <2>2. new \in Seq(Files) /\ \A e \in 1..Len(new) : new[e].dir # "E"
    BY <1>5, EntriesApart
  <2> HIDE DEF new
  <2>3. \A i \in 1..Len(inputs') : inputs'[i].dir # "E"
    BY <1>1, <2>1, <2>2, ConcatProperties DEF ApartInv
  <2> QED
    BY <2>1, <2>3 DEF ApartInv
<1>6. CASE CompileInput
  <2>1. /\ inputs[item] \in Files /\ Temp(temps + 1, Suffix) \in Files
        /\ CompileOutput(inputs[item]) \in Files
    <3>1. inputs[item] \in Files
      BY <1>1, <1>6 DEF CompileInput
    <3>2. Suffix \in Names
      BY <1>1, OutputNames
    <3> QED
      BY <1>1, <3>1, <3>2, OutputNames, TempIsFile
  <2> QED
    BY <1>2, <1>3, <1>6, <2>1, OutputsApart DEF CompileInput
<1>7. CASE NameOutput
  <2>1. LinkOutput \in Files /\ LinkOutput.suffix \in Names
    BY <1>1, OutputNames DEF Files
  <2>2. Temp(temps + 1, LinkOutput.suffix) \in Files
    BY <1>1, <2>1, TempIsFile
  <2> QED
    BY <1>3, <1>7, <2>1, <2>2, OutputsApart DEF NameOutput
<1>8. CASE DebugOutput \/ TableOutput
  <2>1. PICK suffix \in Names : \E wanted : SideFile(wanted, suffix)
    <3>1. "dbg" \in Names /\ "rsm" \in Names
      BY RequestShape
    <3> QED
      BY <1>8, <3>1 DEF DebugOutput, TableOutput
  <2>2. UNCHANGED << areas, inputs >> /\ outputs # << >>
    BY <1>8 DEF DebugOutput, TableOutput, SafeInv, LinkNamed
  <2>3. LinkOutput \in Files /\ LinkProduct \in Files
    BY <1>1, <2>2, OutputNames, LinkProductIsFile
  <2>4. /\ WithSuffix(LinkOutput, suffix) \in Files /\ WithSuffix(LinkProduct, suffix) \in Files
        /\ WithSuffix(LinkOutput, suffix).dir # "E"
    BY <2>3, WithSuffixIsFile, WithSuffixFields, OutputsApart
  <2> QED
    BY <1>2, <1>3, <2>1, <2>2, <2>4 DEF SideFile
<1>9. CASE \/ EndExpand \/ CheckInput \/ CheckRequest \/ ResolveTarget \/ SkipInput \/ EndCompile
           \/ Crash \/ StartLink \/ LinkSource \/ LinkLibrary \/ LinkFile \/ EndLink \/ Serialize
           \/ EndSerialize \/ Refuse \/ UNCHANGED vars
  BY <1>2, <1>9 DEF EndExpand, CheckInput, CheckRequest, ResolveTarget, SkipInput, EndCompile,
     Crash, StartLink, LinkSource, LinkLibrary, LinkFile, EndLink, Serialize, EndSerialize,
     Refuse, vars
<1> QED
  BY <1>4, <1>5, <1>6, <1>7, <1>8, <1>9 DEF Next

(***************************************************************************)
(* What has been checked of the inputs and of the target                   *)
(***************************************************************************)
LEMMA CheckStep ==
  ASSUME TypeInv, CheckInv, [Next]_vars
  PROVE  CheckInv'
<1> DEFINE Ok(i) == /\ Kind(inputs[i]) # "unknown"
                    /\ ~ Linking => IsSource(inputs[i])
                    /\ Kind(inputs[i]) \notin {"libname", "library"} =>
                         \A j \in 1..(i - 1) : inputs[j] # inputs[i]
           Work == Chosen({"c", "asm", "object", "list"}) # {}
<1>1. item \in Nat \ {0} /\ Len(inputs) \in Nat /\ 1..0 = {}
  BY DEF TypeInv, TypeOK
<1>2. /\ \A i \in 1..CheckedTo : Ok(i)
      /\ pc \in Checked => Work
  BY DEF CheckInv
<1>3. CheckInv' <=> /\ \A i \in 1..CheckedTo' : Ok(i)'
                    /\ pc' \in Checked => Work'
  BY DEF CheckInv
<1>4. ASSUME UNCHANGED << request, inputs >>
      PROVE  (Work' <=> Work) /\ (\A i : Ok(i)' <=> Ok(i)) /\ (Linking' <=> Linking)
  BY <1>4 DEF Chosen, Linking
<1> HIDE DEF Ok, Work
<1>5. CASE SearchAreas \/ ExpandInput \/ EndExpand \/ Refuse \/ Crash
  <2>1. pc' \in {"expand", "refused", "crashed"} \/ (pc' = "inputs" /\ item' = 1)
    BY <1>5 DEF SearchAreas, ExpandInput, EndExpand, Refuse, Crash, Goto
  <2>2. CheckedTo' = 0 /\ pc' \notin Checked
    BY <2>1 DEF CheckedTo, Checked, Linked
  <2> QED
    BY <1>1, <1>3, <2>2
<1>6. CASE CheckInput
  <2>1. /\ pc = "inputs" /\ pc' = "inputs" /\ item' = item + 1 /\ Ok(item)
        /\ UNCHANGED << request, inputs >>
    BY <1>6 DEF CheckInput, Ok
  <2>2. CheckedTo = item - 1 /\ CheckedTo' = item /\ pc' \notin Checked
    BY <1>1, <2>1 DEF CheckedTo, Checked, Linked
  <2>3. \A i \in 1..item : i \in 1..(item - 1) \/ i = item
    BY <1>1
  <2> QED
    BY <1>2, <1>3, <1>4, <2>1, <2>2, <2>3
<1>7. CASE CheckRequest
  <2>1. /\ pc = "inputs" /\ pc' \in Checked /\ item > Len(inputs) /\ Work
        /\ UNCHANGED << request, inputs >>
    BY <1>7 DEF CheckRequest, Work, Goto, Checked
  <2>2. CheckedTo = item - 1 /\ CheckedTo' = Len(inputs)
    BY <1>1, <2>1 DEF CheckedTo, Checked, Linked
  <2>3. \A i \in 1..Len(inputs) : i \in 1..(item - 1)
    BY <1>1, <2>1
  <2> QED
    BY <1>2, <1>3, <1>4, <2>1, <2>2, <2>3
<1>8. CASE \/ ResolveTarget \/ CompileInput \/ SkipInput \/ EndCompile \/ NameOutput \/ DebugOutput
           \/ TableOutput \/ StartLink \/ LinkSource \/ LinkLibrary \/ LinkFile \/ EndLink
           \/ Serialize \/ EndSerialize
  <2>1. /\ pc \in Checked /\ pc' \in Checked /\ UNCHANGED << request, inputs >>
    BY <1>8 DEF ResolveTarget, CompileInput, SkipInput, EndCompile, NameOutput, DebugOutput,
       TableOutput, StartLink, LinkSource, LinkLibrary, LinkFile, EndLink, Serialize,
       EndSerialize, Goto, Checked, Linked
  <2>2. CheckedTo = Len(inputs) /\ CheckedTo' = Len(inputs)
    BY <2>1 DEF CheckedTo, Checked, Linked
  <2> QED
    BY <1>2, <1>3, <1>4, <2>1, <2>2
<1>9. CASE UNCHANGED vars
  <2>1. UNCHANGED << request, inputs, pc, item >>
    BY <1>9 DEF vars
  <2>2. CheckedTo' = CheckedTo
    BY <2>1 DEF CheckedTo
  <2> QED
    BY <1>2, <1>3, <1>4, <2>1, <2>2
<1> QED
  BY <1>5, <1>6, <1>7, <1>8, <1>9 DEF Next

(* Without -o the linker's output is named for the target. *)
LEMMA DefaultSuffix ==
  ASSUME request.output = NoFile
  PROVE  /\ target = "cpm86" => LinkOutput.suffix = "cmd"
         /\ target # "cpm86" => LinkOutput.suffix = "exe"
BY DEF LinkOutput, Host

(* The output's suffix and the target stay agreed. *)
LEMMA TargetStep ==
  ASSUME TypeInv, TempInv, TargetInv, [Next]_vars
  PROVE  TargetInv'
<1>1. ASSUME UNCHANGED << request, target >>,
             pc' \in Checked \ {"target"} => pc \in Checked \ {"target"},
             pc' \notin {"compile", "output"} => pc \notin {"compile", "output"} \/ SuffixAllowed
      PROVE  TargetInv'
  <2>1. LinkOutput' = LinkOutput
    BY <1>1 DEF LinkOutput
  <2>2. (SuffixAllowed' <=> SuffixAllowed) /\ (Overlay' <=> Overlay) /\ (Linking' <=> Linking)
    BY <1>1, <2>1 DEF SuffixAllowed, Overlay, Linking
  <2> QED
    BY <1>1, <2>1, <2>2 DEF TargetInv
<1>2. CASE SearchAreas \/ ExpandInput \/ EndExpand \/ CheckInput \/ Refuse \/ Crash
  <2>1. pc' \in {"expand", "inputs", "refused", "crashed"}
    BY <1>2 DEF SearchAreas, ExpandInput, EndExpand, CheckInput, Refuse, Crash, Goto
  <2> QED
    BY <2>1 DEF TargetInv, Checked, Linked
<1>3. CASE CheckRequest
  <2>1. ~ (pc' \in Checked \ {"target"} /\ Linking')
    BY <1>3 DEF CheckRequest, Goto, Linking
  <2> QED
    BY <2>1 DEF TargetInv
<1>4. CASE ResolveTarget
  <2> DEFINE asked == IF request.targetGiven THEN request.target ELSE "cpm86"
  <2>1. /\ pc' = "compile" /\ request' = request
        /\ \/ /\ Overlay \/ request.output = NoFile
              /\ target' = asked
           \/ /\ ~ Overlay /\ request.output # NoFile
              /\ DosSuffix(request.output) \/ request.output.suffix = "cmd"
              /\ request.targetGiven => (DosSuffix(request.output) <=> asked # "cpm86")
              /\ target' = IF request.targetGiven THEN asked
                           ELSE IF DosSuffix(request.output) THEN "dos2" ELSE "cpm86"
    BY <1>4 DEF ResolveTarget, Goto
  <2>2. SUFFICES ASSUME ~ Overlay
                 PROVE  /\ LinkOutput'.suffix \in {"cmd", "exe", "com"}
                        /\ LinkOutput'.suffix = "cmd" <=> target' = "cpm86"
                        /\ request.targetGiven => target' = request.target
    BY <2>1 DEF TargetInv, Overlay
  <2>3. CASE request.output = NoFile
    <3>1. target' = asked
      BY <2>1, <2>2, <2>3
    <3>2. /\ target' = "cpm86" => LinkOutput'.suffix = "cmd"
          /\ target' # "cpm86" => LinkOutput'.suffix = "exe"
      BY <2>1, <2>3, DefaultSuffix DEF LinkOutput, Host
    <3> QED
      BY <3>1, <3>2
  <2>4. CASE request.output # NoFile
    <3>1. LinkOutput' = request.output
      BY <2>1, <2>4 DEF LinkOutput
    <3> QED
      BY <2>1, <2>2, <2>4, <3>1 DEF DosSuffix
  <2> QED
    BY <2>3, <2>4
<1>5. CASE NameOutput
  <2>1. /\ pc = "output" /\ SuffixAllowed /\ UNCHANGED << request, target >>
    BY <1>5 DEF NameOutput
  <2> QED
    BY <1>1, <2>1 DEF Checked
<1>6. CASE \/ CompileInput \/ SkipInput \/ DebugOutput
           \/ TableOutput \/ StartLink \/ LinkSource \/ LinkLibrary \/ LinkFile \/ EndLink
           \/ Serialize \/ EndSerialize
  <2>1. /\ pc \in Checked \ {"target"} /\ UNCHANGED << request, target >>
        /\ pc \in {"compile", "output"} => pc' = pc
    BY <1>6 DEF CompileInput, SkipInput, DebugOutput,
       TableOutput, StartLink, LinkSource, LinkLibrary, LinkFile, EndLink, Serialize,
       EndSerialize, Goto, Checked, Linked
  <2> QED
    BY <1>1, <2>1
<1>7. CASE EndCompile
  <2>1. /\ pc = "compile" /\ UNCHANGED << request, target >>
        /\ pc' = IF Linking THEN "output" ELSE "serialize"
    BY <1>7 DEF EndCompile, Goto
  <2>2. CASE Linking
    BY <1>1, <2>1, <2>2 DEF Checked
  <2>3. CASE ~ Linking
    BY <2>1, <2>3 DEF TargetInv, Linking
  <2> QED
    BY <2>2, <2>3
<1>8. CASE UNCHANGED vars
  BY <1>1, <1>8 DEF vars
<1> QED
  BY <1>2, <1>3, <1>4, <1>5, <1>6, <1>7, <1>8 DEF Next

(***************************************************************************)
(* What has been compiled                                                  *)
(***************************************************************************)
LEMMA RunsType == \A k \in Nat : Runs(k) \in Nat /\ Runs(k) <= Runs(k + 1)
BY DEF Runs

(* The commands of a source are among those of the sources so far. *)
LEMMA FirstIn ==
  ASSUME NEW n \in Nat, NEW i \in Nat, Rank(i) \in 1..n
  PROVE  /\ First(i) \in 1..Runs(n)
         /\ request.squeeze => First(i) + 1 \in 1..Runs(n)
<1>1. CASE request.squeeze
  <2>1. First(i) = 2 * (Rank(i) - 1) + 1 /\ Runs(n) = 2 * n
    BY <1>1 DEF First, Runs
  <2> QED
    BY <2>1
<1>2. CASE ~ request.squeeze
  <2>1. First(i) = Rank(i) - 1 + 1 /\ Runs(n) = n
    BY <1>2 DEF First, Runs
  <2> QED
    BY <1>2, <2>1
<1> QED
  BY <1>1, <1>2

SameCommand(c) ==
  /\ commands'[c].tool = commands[c].tool /\ commands'[c].source = commands[c].source
  /\ commands'[c].product = commands[c].product /\ commands'[c].reads = commands[c].reads

(* What has been built stays built. *)
LEMMA BuiltKept ==
  ASSUME UNCHANGED << request, inputs >>, NEW n \in Nat, NEW i \in Nat, Rank(i) \in 1..n,
         Built(i), \A c \in 1..Runs(n) : SameCommand(c),
         Linking => \A o \in 1..n : objects'[o] = objects[o],
         ~ Linking => \A o \in 1..n : outputs'[o].product = outputs[o].product
  PROVE  Built(i)'
<1>1. /\ Rank(i)' = Rank(i) /\ First(i)' = First(i) /\ (Linking' <=> Linking)
      /\ inputs'[i] = inputs[i] /\ request'.squeeze = request.squeeze
  BY RankKept DEF First, Runs, Linking
<1> DEFINE c == First(i)
<1>2. SameCommand(c) /\ (request.squeeze => SameCommand(c + 1))
  BY FirstIn
<1>3. /\ Compiles(commands[c], inputs[i]) /\ commands[c].product.dir = "E"
      /\ request.squeeze => Squeezes(commands[c + 1], inputs[i], commands[c].product)
      /\ IF Linking THEN objects[Rank(i)] = commands[c].product
         ELSE outputs[Rank(i)].product = commands[c].product
  BY DEF Built
<1> HIDE DEF c
<1>4. /\ Compiles(commands'[c], inputs[i]) /\ commands'[c].product.dir = "E"
      /\ request.squeeze => Squeezes(commands'[c + 1], inputs[i], commands'[c].product)
      /\ IF Linking THEN objects'[Rank(i)] = commands'[c].product
         ELSE outputs'[Rank(i)].product = commands'[c].product
  BY <1>2, <1>3 DEF Compiles, Squeezes, SameCommand
<1> QED
  BY <1>1, <1>4 DEF Built, c

(* Steps that compile nothing. *)
LEMMA CompileKept ==
  ASSUME TypeInv, CompileInv, Live, UNCHANGED << request, inputs, objects >>,
         CompiledTo' \in Nat, CompiledTo' <= Len(inputs), CompiledTo <= CompiledTo',
         Rank(CompiledTo') = Rank(CompiledTo),
         \A i \in 1..CompiledTo' : IsSource(inputs[i]) => i <= CompiledTo,
         Len(commands') = Runs(Rank(CompiledTo)) + (IF Linking /\ pc' \in Linked THEN 1 ELSE 0),
         \A c \in 1..Runs(Rank(CompiledTo)) : SameCommand(c),
         ~ Linking => outputs' = outputs
  PROVE  CompileInv'
<1> DEFINE n == Rank(CompiledTo)
           m == CompiledTo
<1>1. m \in Nat /\ n \in Nat
  <2>1. item - 1 \in Nat /\ Len(inputs) \in Nat /\ 0 \in Nat
    BY DEF TypeInv, TypeOK
  <2>2. m \in Nat
    BY <2>1 DEF CompiledTo
  <2> HIDE DEF m
  <2> QED
    BY <2>2, RankType DEF m
<1>2. /\ Len(objects) = IF Linking THEN n ELSE 0
      /\ ~ Linking => Len(outputs) = n
      /\ \A i \in 1..m : IsSource(inputs[i]) => Built(i)
      /\ \A k \in 1..n : SourceAt(k)
      /\ \A c \in 1..Runs(n) : \E i \in 1..m :
           IsSource(inputs[i]) /\ (c = First(i) \/ (request.squeeze /\ c = First(i) + 1))
  BY DEF CompileInv
<1>3. /\ \A i : Rank(i)' = Rank(i) /\ First(i)' = First(i)
      /\ \A k : Runs(k)' = Runs(k)
      /\ (Linking' <=> Linking)
  BY RankKept DEF First, Runs, Linking
<1>4. Rank(CompiledTo)' = n
  <2>1. Rank(CompiledTo)' = Cardinality({j \in 1..CompiledTo' : IsSource(inputs'[j])})
    BY DEF Rank, IsSource, Kind
  <2> QED
    BY <2>1 DEF Rank
<1>5. \A i \in 1..CompiledTo' : IsSource(inputs'[i]) => Built(i)'
  <2> SUFFICES ASSUME NEW i \in 1..CompiledTo', IsSource(inputs[i]) PROVE Built(i)'
    OBVIOUS
  <2>1. i \in 1..m
    BY <1>1
  <2>2. Rank(i) \in 1..n /\ Built(i)
    BY <1>1, <1>2, <2>1, SourceRank
  <2>3. /\ UNCHANGED << request, inputs >> /\ n \in Nat /\ i \in Nat
        /\ \A c \in 1..Runs(n) : SameCommand(c)
        /\ Linking => \A o \in 1..n : objects'[o] = objects[o]
        /\ ~ Linking => \A o \in 1..n : outputs'[o].product = outputs[o].product
    BY <1>1, <2>1
  <2> HIDE DEF n
  <2> QED
    BY <2>2, <2>3, BuiltKept
<1>6. \A i \in 1..m : i \in 1..CompiledTo'
  BY <1>1
<1>7. \A k \in 1..n : SourceAt(k)'
  BY <1>2, <1>3, <1>6 DEF SourceAt
<1>8. \A c \in 1..Runs(n) : \E i \in 1..CompiledTo' :
        IsSource(inputs'[i]) /\ (c = First(i)' \/ (request'.squeeze /\ c = First(i)' + 1))
  BY <1>2, <1>3, <1>6
<1>9. /\ Len(objects') = IF Linking' THEN n ELSE 0
      /\ ~ Linking' => Len(outputs') = n
      /\ Len(commands') = Runs(n) + (IF Linking' /\ pc' \in Linked THEN 1 ELSE 0)
      /\ CompiledTo' <= Len(inputs')
  BY <1>2, <1>3
<1> HIDE DEF n
<1> QED
  BY <1>3, <1>4, <1>5, <1>7, <1>8, <1>9 DEF CompileInv

(* compile_input on the next source. *)
LEMMA CompileOne ==
  ASSUME TypeInv, CompileInv, CompileInput
  PROVE  CompileInv'
<1>0. PICK x : x = item
  OBVIOUS
<1> DEFINE n == Rank(x - 1)
           product == Temp(temps + 1, Suffix)
           new == CompileCommands(inputs[x], product)
<1>1. /\ x \in 1..Len(inputs) /\ x \in Nat \ {0} /\ x - 1 \in Nat /\ Len(inputs) \in Nat
      /\ inputs[x] \in Files /\ temps + 1 \in Nat /\ Typed
      /\ commands \in Seq(CommandType) /\ outputs \in Seq([host : Files, product : Files])
      /\ objects \in Seq(Files)
  BY <1>0, TypedFromType DEF TypeInv, TypeOK, CompileInput, CommandType
<1>2. product \in Files /\ CompileOutput(inputs[x]) \in Files /\ product.dir = "E"
  <2>1. Suffix \in Names
    BY <1>1, OutputNames
  <2>2. product \in Files
    BY <1>1, <2>1, TempIsFile
  <2>3. product.dir = "E"
    BY DEF Temp
  <2> QED
    BY <1>1, <2>2, <2>3, OutputNames
<1>3. /\ pc = "compile" /\ pc' = "compile" /\ item' = x + 1 /\ IsSource(inputs[x])
      /\ UNCHANGED << request, inputs >> /\ commands' = commands \o new
      /\ \/ Linking /\ objects' = Append(objects, product) /\ outputs' = outputs
         \/ ~ Linking /\ AddOutput(CompileOutput(inputs[x]), product) /\ objects' = objects
  BY <1>0 DEF CompileInput
<1>4. /\ new \in Seq(CommandType) /\ Len(new) = IF request.squeeze THEN 2 ELSE 1
      /\ Compiles(new[1], inputs[x]) /\ new[1].product = product
      /\ request.squeeze => Squeezes(new[2], inputs[x], product)
  <2>1. new = CompileCommands(inputs[x], product)
    OBVIOUS
  <2> HIDE DEF product, new
  <2> QED
    <3>1. inputs[x] \in Files /\ product \in Files
      BY <1>1, <1>2
    <3>2. \A w : \A file \in Files, made \in Files : w = CompileCommands(file, made) =>
            /\ w \in Seq(CommandType) /\ Len(w) = IF request.squeeze THEN 2 ELSE 1
            /\ Compiles(w[1], file) /\ w[1].product = made
            /\ request.squeeze => Squeezes(w[2], file, made)
      BY CompileShape
    <3>3. \A w : w = CompileCommands(inputs[x], product) =>
            /\ w \in Seq(CommandType) /\ Len(w) = IF request.squeeze THEN 2 ELSE 1
            /\ Compiles(w[1], inputs[x]) /\ w[1].product = product
            /\ request.squeeze => Squeezes(w[2], inputs[x], product)
      BY <3>1, <3>2
    <3> QED
      BY <2>1, <3>3
<1> HIDE DEF product, new
<1>5. /\ CompiledTo = x - 1 /\ CompiledTo' = x /\ Live /\ pc \notin Linked /\ pc' \notin Linked
      /\ Live'
  BY <1>0, <1>1, <1>3 DEF CompiledTo, Live, Linked
<1>6. n \in Nat /\ Rank(x) = n + 1
  BY <1>1, <1>3, RankType, RankNext
<1>7. /\ Len(objects) = IF Linking THEN n ELSE 0
      /\ ~ Linking => Len(outputs) = n
      /\ Len(commands) = Runs(n)
      /\ \A i \in 1..(x - 1) : IsSource(inputs[i]) => Built(i)
      /\ \A k \in 1..n : SourceAt(k)
      /\ \A c \in 1..Runs(n) : \E i \in 1..(x - 1) :
           IsSource(inputs[i]) /\ (c = First(i) \/ (request.squeeze /\ c = First(i) + 1))
  <2>1. Runs(n) \in Nat
    BY <1>6, RunsType
  <2> QED
    BY <1>5, <2>1 DEF CompileInv
<1>8. /\ \A i : Rank(i)' = Rank(i) /\ First(i)' = First(i)
      /\ \A k : Runs(k)' = Runs(k)
      /\ (Linking' <=> Linking)
  BY <1>3, RankKept DEF First, Runs, Linking
<1>9. Rank(CompiledTo)' = n + 1
  <2>1. Rank(CompiledTo)' = Cardinality({j \in 1..CompiledTo' : IsSource(inputs'[j])})
    BY DEF Rank, IsSource, Kind
  <2> QED
    BY <1>3, <1>5, <1>6, <2>1 DEF Rank
<1> HIDE DEF n
<1>10. Runs(n) \in Nat /\ Runs(n + 1) = Runs(n) + Len(new) /\ First(x) = Runs(n) + 1
  <2>1. Rank(x) - 1 = n
    BY <1>6
  <2> QED
    BY <1>4, <1>6, <2>1 DEF Runs, First
<1>11. /\ Len(commands') = Runs(n + 1) /\ \A c \in 1..Runs(n) : commands'[c] = commands[c]
       /\ commands'[Runs(n) + 1] = new[1]
       /\ request.squeeze => commands'[Runs(n) + 2] = new[2]
  <2>1. /\ Len(commands \o new) = Len(commands) + Len(new)
        /\ \A c \in 1..Len(commands) : (commands \o new)[c] = commands[c]
        /\ \A c \in 1..Len(new) : (commands \o new)[Len(commands) + c] = new[c]
    <3>1. commands \in Seq(CommandType) /\ new \in Seq(CommandType)
      BY <1>1, <1>4
    <3>2. Len(commands) \in Nat /\ Len(new) \in Nat
      BY <3>1
    <3> QED
      BY ONLY <3>1, <3>2, ConcatProperties
  <2>2. 1 \in 1..Len(new) /\ (request.squeeze => 2 \in 1..Len(new))
    BY <1>4
  <2> QED
    BY <1>3, <1>7, <1>10, <2>1, <2>2
<1>12. \A c \in 1..Runs(n) : SameCommand(c)
  BY <1>11 DEF SameCommand
<1>13. /\ Linking => /\ Len(objects') = n + 1 /\ objects'[n + 1] = product
                     /\ \A o \in 1..n : objects'[o] = objects[o]
       /\ ~ Linking => /\ Len(outputs') = n + 1 /\ outputs'[n + 1].product = product
                       /\ \A o \in 1..n : outputs'[o].product = outputs[o].product
                       /\ Len(objects') = 0
  <2>1. CASE Linking
    <3>1. objects \in Seq(Files) /\ product \in Files /\ objects' = Append(objects, product)
      BY <1>1, <1>2, <1>3, <2>1
    <3>2. Len(objects) = n
      BY <1>7, <2>1
    <3>3. /\ Len(objects') = n + 1 /\ objects'[n + 1] = product
          /\ \A o \in 1..n : objects'[o] = objects[o]
      BY <3>1, <3>2, AppendProperties
    <3> QED
      BY <2>1, <3>3
  <2>2. CASE ~ Linking
    BY <1>1, <1>2, <1>3, <1>7, <2>2, AddLast
  <2> QED
    BY <2>1, <2>2
<1>14. Built(x)'
  <2>1. /\ commands'[First(x)] = new[1]
        /\ request.squeeze => commands'[First(x) + 1] = new[2]
    BY <1>10, <1>11
  <2>2. /\ Compiles(commands'[First(x)], inputs[x])
        /\ commands'[First(x)].product = product
        /\ request.squeeze => Squeezes(commands'[First(x) + 1], inputs[x], product)
    BY <1>4, <2>1
  <2>3. IF Linking THEN objects'[Rank(x)] = product
        ELSE outputs'[Rank(x)].product = product
    BY <1>6, <1>13
  <2>4. /\ Compiles(commands'[First(x)'], inputs'[x])
        /\ commands'[First(x)'].product = product /\ product.dir = "E"
        /\ request'.squeeze => Squeezes(commands'[First(x)' + 1], inputs'[x], product)
        /\ IF Linking' THEN objects'[Rank(x)'] = product
           ELSE outputs'[Rank(x)'].product = product
    BY <1>2, <1>3, <1>8, <2>2, <2>3
  <2> QED
    BY <1>3, <1>8, <2>4 DEF Built
<1>15. \A i \in 1..x : IsSource(inputs'[i]) => Built(i)'
  <2> SUFFICES ASSUME NEW i \in 1..(x - 1), IsSource(inputs[i]) PROVE Built(i)'
    BY <1>1, <1>3, <1>14
  <2>1. Rank(i) \in 1..n /\ Built(i)
    BY <1>1, <1>7, SourceRank DEF n
  <2>2. /\ Linking => \A o \in 1..n : objects'[o] = objects[o]
        /\ ~ Linking => \A o \in 1..n : outputs'[o].product = outputs[o].product
        /\ i \in Nat
    BY <1>1, <1>13
  <2> QED
    BY <1>3, <1>6, <1>12, <2>1, <2>2, BuiltKept
<1>16. \A k \in 1..(n + 1) : \E i \in 1..x : IsSource(inputs[i]) /\ Rank(i) = k
  <2>1. \A k \in 1..(n + 1) : k \in 1..n \/ k = n + 1
    BY <1>6
  <2>2. \A i \in 1..(x - 1) : i \in 1..x
    BY <1>1
  <2>3. x \in 1..x /\ IsSource(inputs[x]) /\ Rank(x) = n + 1
    BY <1>1, <1>3, <1>6
  <2>4. \A k \in 1..n : \E i \in 1..(x - 1) : IsSource(inputs[i]) /\ Rank(i) = k
    BY <1>5, <1>7 DEF SourceAt
  <2> QED
    BY <2>1, <2>2, <2>3, <2>4
<1>17. \A k \in 1..(n + 1) : SourceAt(k)'
  BY <1>3, <1>5, <1>8, <1>16 DEF SourceAt
<1>18. \A c \in 1..Runs(n + 1) : \E i \in 1..x :
         IsSource(inputs[i]) /\ (c = First(i) \/ (request.squeeze /\ c = First(i) + 1))
  <2> SUFFICES ASSUME NEW c \in 1..Runs(n + 1)
               PROVE  \E i \in 1..x : /\ IsSource(inputs[i])
                                      /\ c = First(i) \/ (request.squeeze /\ c = First(i) + 1)
    OBVIOUS
  <2>1. CASE c \in 1..Runs(n)
    <3>1. \A i \in 1..(x - 1) : i \in 1..x
      BY <1>1
    <3> QED
      BY <1>7, <2>1, <3>1
  <2>2. CASE c = Runs(n) + 1 \/ (request.squeeze /\ c = Runs(n) + 2)
    <3>1. x \in 1..x /\ (c = First(x) \/ (request.squeeze /\ c = First(x) + 1))
      BY <1>1, <1>10, <2>2
    <3> QED
      BY <1>3, <3>1
  <2>3. c \in 1..Runs(n) \/ c = Runs(n) + 1 \/ (request.squeeze /\ c = Runs(n) + 2)
    BY <1>4, <1>10
  <2> QED
    BY <2>1, <2>2, <2>3
<1>19. \A c \in 1..Runs(n + 1) : \E i \in 1..CompiledTo' :
         IsSource(inputs'[i]) /\ (c = First(i)' \/ (request'.squeeze /\ c = First(i)' + 1))
  BY <1>3, <1>5, <1>8, <1>18
<1>20. /\ CompiledTo' <= Len(inputs')
       /\ Len(objects') = IF Linking' THEN n + 1 ELSE 0
       /\ ~ Linking' => Len(outputs') = n + 1
       /\ Len(commands') = Runs(n + 1) + (IF Linking' /\ pc' \in Linked THEN 1 ELSE 0)
  <2>1. Runs(n + 1) \in Nat
    BY <1>6, RunsType
  <2> QED
    BY <1>1, <1>3, <1>5, <1>8, <1>11, <1>13, <2>1
<1> QED
  BY <1>5, <1>8, <1>9, <1>15, <1>17, <1>19, <1>20 DEF CompileInv

(* What a step of the link adds to the linker's files. *)
LEMMA LinkFilesAre ==
  ASSUME TypeInv, TempInv, CompileInv, LinkInv, LinkSource \/ LinkLibrary \/ LinkFile \/ EndLink
  PROVE  \E files \in Seq(Files) : LinkFiles(files)
<1>1. CASE LinkSource
  <2>1. object + 1 \in 1..Len(objects) /\ objects \in Seq(Files)
    BY <1>1, ObjectThere DEF LinkSource, TypeInv, TypeOK
  <2>2. << objects[object + 1] >> \in Seq(Files)
    BY <2>1
  <2> QED
    BY <1>1, <2>2 DEF LinkSource
<1>2. CASE LinkLibrary
  <2>1. PICK file \in Readable : LinkFiles(<< file >>)
    BY <1>2 DEF LinkLibrary
  <2>2. << file >> \in Seq(Files)
    BY <2>1, ReadableFiles
  <2> QED
    BY <2>1, <2>2
<1>3. CASE LinkFile
  <2>1. << inputs[item] >> \in Seq(Files)
    BY <1>3 DEF LinkFile, TypeInv, TypeOK
  <2> QED
    BY <1>3, <2>1 DEF LinkFile
<1>4. CASE EndLink
  BY <1>4, RequestTyped, EndFilesType DEF EndLink
<1> QED
  BY <1>1, <1>2, <1>3, <1>4

(* Naming a response file changes nothing else of a command. *)
LEMMA SerializeKeeps ==
  ASSUME TypeInv, Serialize
  PROVE  Len(commands') = Len(commands) /\ \A c \in 1..Len(commands) : SameCommand(c)
<1>1. commands \in Seq(CommandType) /\ item \in 1..Len(commands) /\ temps + 1 \in Nat
  BY DEF TypeInv, TypeOK, CommandType, Serialize
<1>2. CASE UNCHANGED commands
  BY <1>2 DEF SameCommand
<1>3. CASE commands' = [commands EXCEPT ![item].response = Temp(temps + 1, "rsp")]
  <2>1. "rsp" \in Names
    BY RequestShape
  <2>2. Temp(temps + 1, "rsp") \in Files
    BY <1>1, <2>1, TempIsFile
  <2> QED
    BY <1>1, <1>3, <2>2, SerializeTyped DEF SameCommand
<1> QED
  BY <1>2, <1>3 DEF Serialize

(* The commands stay those of the sources compiled so far. *)
LEMMA CompileStep ==
  ASSUME TypeInv, SafeInv, TempInv, CompileInv, LinkInv, [Next]_vars
  PROVE  CompileInv'
<1> DEFINE n == Rank(CompiledTo)
<1>1. /\ item \in Nat \ {0} /\ item - 1 \in Nat /\ Len(inputs) \in Nat
      /\ commands \in Seq(CommandType) /\ Len(commands) \in Nat
  BY DEF TypeInv, TypeOK, CommandType
<1>2. CompiledTo \in Nat
  BY <1>1 DEF CompiledTo
<1>3. n \in Nat /\ Runs(n) \in Nat
  BY <1>2, RankType, RunsType
<1>4. Live => /\ CompiledTo <= Len(inputs)
              /\ Len(objects) = IF Linking THEN n ELSE 0
              /\ ~ Linking => Len(outputs) = n
              /\ Len(commands) = Runs(n) + (IF Linking /\ pc \in Linked THEN 1 ELSE 0)
  BY DEF CompileInv
<1> HIDE DEF n
<1>5. CASE Refuse \/ Crash
  BY <1>5 DEF Refuse, Crash, Goto, CompileInv, Live
<1>6. CASE SearchAreas \/ ExpandInput \/ EndExpand \/ CheckInput \/ CheckRequest \/ ResolveTarget
  <2>1. /\ pc \in Before /\ pc' \in Before \union {"compile"}
        /\ pc' = "compile" => item' = 1
        /\ UNCHANGED << request, objects, commands, outputs >>
    BY <1>6 DEF SearchAreas, ExpandInput, EndExpand, CheckInput, CheckRequest, ResolveTarget,
                Goto, Before
  <2>2. CompiledTo = 0 /\ CompiledTo' = 0 /\ Live /\ pc \notin Linked /\ pc' \notin Linked
    BY <2>1 DEF CompiledTo, Live, Linked, Before, Checked
  <2>3. n = 0 /\ Runs(0) = 0 /\ Runs(0)' = 0
    BY <2>2, RankZero DEF n, Runs
  <2>4. Rank(CompiledTo)' = 0
    <3>1. Rank(CompiledTo)' = Cardinality({j \in 1..CompiledTo' : IsSource(inputs'[j])})
      BY DEF Rank, IsSource, Kind
    <3>2. {j \in 1..CompiledTo' : IsSource(inputs'[j])} = {}
      BY <2>2
    <3> QED
      BY <3>1, <3>2, FS_EmptySet
  <2>5. /\ Len(objects) = 0 /\ Len(commands) = 0
        /\ ~ Linking => Len(outputs) = 0
        /\ (Linking' <=> Linking)
    BY <1>4, <2>1, <2>2, <2>3 DEF Linking
  <2>6. Len(inputs') \in Nat
    BY <1>6, TypeStep DEF Next, TypeInv, TypeOK
  <2> QED
    BY <2>1, <2>2, <2>3, <2>4, <2>5, <2>6 DEF CompileInv
<1>7. CASE CompileInput
  BY <1>7, CompileOne
<1>8. ASSUME UNCHANGED << request, inputs, objects >>, Live, CompiledTo' = CompiledTo,
             Len(commands') = Runs(n) + (IF Linking /\ pc' \in Linked THEN 1 ELSE 0),
             \A c \in 1..Runs(n) : SameCommand(c), ~ Linking => outputs' = outputs
      PROVE  CompileInv'
  BY <1>2, <1>4, <1>8, CompileKept DEF n
<1>9. CASE SkipInput
  <2>1. PICK x : x = item
    OBVIOUS
  <2>2. /\ pc = "compile" /\ pc' = "compile" /\ x \in 1..Len(inputs) /\ x \in Nat \ {0}
        /\ ~ IsSource(inputs[x]) /\ item' = x + 1
        /\ UNCHANGED << request, inputs, objects, commands, outputs >>
    BY <1>1, <1>9, <2>1 DEF SkipInput
  <2>3. CompiledTo = x - 1 /\ CompiledTo' = x /\ Live /\ pc \notin Linked /\ pc' \notin Linked
    BY <2>1, <2>2 DEF CompiledTo, Live, Linked
  <2>4. Rank(x) = Rank(x - 1)
    BY <2>2, RankNext
  <2>5. \A i \in 1..x : IsSource(inputs[i]) => i <= x - 1
    BY <2>2
  <2>6. \A c \in 1..Runs(n) : SameCommand(c)
    BY <2>2 DEF SameCommand
  <2> QED
    BY <1>4, <2>2, <2>3, <2>4, <2>5, <2>6, CompileKept DEF n
<1>10. CASE EndCompile
  <2>1. /\ pc = "compile" /\ item > Len(inputs) /\ pc' = (IF Linking THEN "output" ELSE "serialize")
        /\ UNCHANGED << request, inputs, objects, commands, outputs >>
    BY <1>10 DEF EndCompile, Goto
  <2>2. CompiledTo = item - 1 /\ CompiledTo' = Len(inputs) /\ Live /\ pc \notin Linked
        /\ (Linking => pc' \notin Linked)
    BY <2>1 DEF CompiledTo, Live, Linked, Checked
  <2>3. CompiledTo' = CompiledTo
    BY <1>1, <1>4, <2>1, <2>2
  <2>4. \A c \in 1..Runs(n) : SameCommand(c)
    BY <2>1 DEF SameCommand
  <2> QED
    BY <1>4, <1>8, <2>1, <2>2, <2>3, <2>4
<1>11. CASE NameOutput \/ DebugOutput \/ TableOutput
  <2>1. /\ pc \in {"output"} \union Named /\ pc' \in {"output"} \union Named
        /\ UNCHANGED << request, inputs, objects, commands >>
    BY <1>11 DEF NameOutput, DebugOutput, TableOutput, Goto, Named
  <2>2. CompiledTo = Len(inputs) /\ CompiledTo' = Len(inputs) /\ Live
        /\ pc \notin Linked /\ pc' \notin Linked /\ Linking
    BY <2>1 DEF CompiledTo, Live, Linked, Checked, Named, TempInv, LinkParts
  <2>3. \A c \in 1..Runs(n) : SameCommand(c)
    BY <2>1 DEF SameCommand
  <2> QED
    BY <1>4, <1>8, <2>1, <2>2, <2>3
<1>12. CASE StartLink
  <2> DEFINE ln == NewCommand("ln", LinkOutput, LinkProduct, StartFiles)
  <2>1. /\ pc = "startup" /\ pc' = "link" /\ commands' = Append(commands, ln)
        /\ UNCHANGED << request, inputs, objects, outputs >>
    BY <1>12 DEF StartLink, Goto
  <2>2. CompiledTo = Len(inputs) /\ CompiledTo' = Len(inputs) /\ Live
        /\ pc \notin Linked /\ pc' \in Linked /\ Linking
    BY <2>1 DEF CompiledTo, Live, Linked, Checked, Named, TempInv, LinkParts
  <2> HIDE DEF ln
  <2>3. /\ Len(commands') = Len(commands) + 1
        /\ \A c \in 1..Len(commands) : commands'[c] = commands[c]
    BY <1>1, <2>1, AppendSeq
  <2>4. \A c \in 1..Runs(n) : SameCommand(c)
    BY <1>3, <1>4, <2>2, <2>3 DEF SameCommand
  <2> QED
    BY <1>3, <1>4, <1>8, <2>1, <2>2, <2>3, <2>4
<1>13. CASE LinkSource \/ LinkLibrary \/ LinkFile \/ EndLink
  <2>1. /\ pc = "link" /\ pc' \in {"link", "serialize"}
        /\ UNCHANGED << request, inputs, objects, outputs >>
    BY <1>13 DEF LinkSource, LinkLibrary, LinkFile, EndLink, Goto
  <2>2. PICK files \in Seq(Files) : LinkFiles(files)
    BY <1>13, LinkFilesAre
  <2>3. commands # << >>
    BY <2>1 DEF TempInv, LinkParts
  <2>4. CompiledTo = Len(inputs) /\ CompiledTo' = Len(inputs) /\ Live
        /\ pc \in Linked /\ pc' \in Linked /\ Linking
    BY <2>1 DEF CompiledTo, Live, Linked, Checked, Named, TempInv, LinkParts
  <2>5. /\ Len(commands') = Len(commands)
        /\ \A c \in 1..(Len(commands) - 1) : commands'[c] = commands[c]
    BY <1>1, <2>2, <2>3, LinkFilesTyped
  <2>6. Len(commands) - 1 = Runs(n)
    BY <1>3, <1>4, <2>4
  <2>7. \A c \in 1..Runs(n) : SameCommand(c)
    BY <2>5, <2>6 DEF SameCommand
  <2> QED
    BY <1>3, <1>4, <1>8, <2>1, <2>4, <2>5, <2>7
<1>14. CASE Serialize
  <2>1. /\ pc = "serialize" /\ pc' = "serialize" /\ item \in 1..Len(commands)
        /\ UNCHANGED << request, inputs, objects, outputs >>
    BY <1>1, <1>14 DEF Serialize
  <2>2. CompiledTo = Len(inputs) /\ CompiledTo' = Len(inputs) /\ Live
    BY <2>1 DEF CompiledTo, Live, Checked, Linked
  <2>3. Len(commands') = Len(commands) /\ \A c \in 1..Len(commands) : SameCommand(c)
    BY <1>14, SerializeKeeps
  <2>4. \A c \in 1..Runs(n) : SameCommand(c)
    BY <1>3, <1>4, <2>2, <2>3
  <2> QED
    BY <1>3, <1>4, <1>8, <2>1, <2>2, <2>3, <2>4
<1>15. CASE EndSerialize \/ UNCHANGED vars
  <2>1. /\ UNCHANGED << request, inputs, objects, commands, outputs >>
        /\ pc' \in Linked <=> pc \in Linked
        /\ CompiledTo' = CompiledTo
    BY <1>15 DEF EndSerialize, Goto, Linked, CompiledTo, Checked, vars
  <2>2. \A c \in 1..Runs(n) : SameCommand(c)
    BY <2>1 DEF SameCommand
  <2>3. CASE Live
    BY <1>4, <1>8, <2>1, <2>2, <2>3
  <2>4. CASE ~ Live
    <3>1. ~ Live'
      BY <1>15, <2>4 DEF EndSerialize, Live, vars
    <3> QED
      BY <3>1 DEF CompileInv
  <2> QED
    BY <2>3, <2>4
<1> QED
  BY <1>5, <1>6, <1>7, <1>9, <1>10, <1>11, <1>12, <1>13, <1>14, <1>15 DEF Next

(***************************************************************************)
(* What a link publishes                                                   *)
(***************************************************************************)
LEMMA SideFileNamedAs ==
  ASSUME TypeInv, SafeInv, TempInv, NamedOutputs, pc \in Named, pc' \in Named,
         UNCHANGED << request, target >>,
         NEW wanted, NEW suffix \in Names, wanted => suffix \in SideSuffixes,
         SideFile(wanted, suffix)
  PROVE  NamedOutputs'
<1>1. /\ Linking /\ Live /\ Typed /\ outputs # << >>
      /\ outputs \in Seq([host : Files, product : Files])
  BY TypedFromType DEF TempInv, LinkParts, Named, Live, TypeInv, TypeOK, SafeInv, LinkNamed
<1>2. /\ LinkOutput' = LinkOutput /\ SideSuffixes' = SideSuffixes /\ (Linking' <=> Linking)
  BY DEF LinkOutput, SideSuffixes, Linking
<1>3. /\ outputs[1].host = LinkOutput /\ 1 \in 1..Len(outputs)
      /\ \A o \in 1..Len(outputs) :
           outputs[o].host.suffix \in {LinkOutput.suffix} \union SideSuffixes
  BY <1>1 DEF NamedOutputs
<1>4. CASE outputs' = outputs
  BY <1>1, <1>2, <1>3, <1>4 DEF NamedOutputs
<1>5. CASE wanted /\ AddOutput(WithSuffix(LinkOutput, suffix), WithSuffix(LinkProduct, suffix))
  <2>1. LinkOutput \in Files /\ LinkProduct \in Files
    BY <1>1, OutputNames, LinkProductIsFile
  <2>2. /\ WithSuffix(LinkOutput, suffix) \in Files /\ WithSuffix(LinkProduct, suffix) \in Files
        /\ WithSuffix(LinkOutput, suffix).suffix = suffix
    BY <2>1, WithSuffixIsFile, WithSuffixFields
  <2>3. /\ outputs' # << >> /\ outputs'[1] = outputs[1]
        /\ \A o \in 1..Len(outputs') :
             outputs'[o].host.suffix \in {LinkOutput.suffix} \union SideSuffixes
    BY <1>1, <1>3, <1>5, <2>2, AddLast
  <2> QED
    BY <1>2, <1>3, <2>3 DEF NamedOutputs
<1> QED
  BY <1>4, <1>5 DEF SideFile

(* A link's outputs keep to the executable's name and the side files' suffixes. *)
LEMMA NamedStep ==
  ASSUME TypeInv, SafeInv, TempInv, NamedOutputs, [Next]_vars
  PROVE  NamedOutputs'
<1> DEFINE After == Named \union Linked
<1>1. /\ Typed /\ outputs \in Seq([host : Files, product : Files]) /\ temps + 1 \in Nat
  BY TypedFromType DEF TypeInv, TypeOK
<1>2. ASSUME UNCHANGED << request, target, outputs >>, Live' => Live,
             Linking /\ Live => (pc' \in After <=> pc \in After)
      PROVE  NamedOutputs'
  <2>1. /\ LinkOutput' = LinkOutput /\ SideSuffixes' = SideSuffixes /\ (Linking' <=> Linking)
    BY <1>2 DEF LinkOutput, SideSuffixes, Linking
  <2> QED
    BY <1>2, <2>1 DEF NamedOutputs
<1>3. CASE Refuse \/ Crash
  BY <1>3 DEF Refuse, Crash, Goto, NamedOutputs, Live
<1>4. CASE SearchAreas \/ ExpandInput \/ EndExpand \/ CheckInput \/ CheckRequest
  <2>1. /\ pc \in Before /\ pc' \in Before \union {"compile"}
        /\ UNCHANGED << request, target, outputs >>
    BY <1>4 DEF SearchAreas, ExpandInput, EndExpand, CheckInput, CheckRequest, Goto, Before
  <2>2. pc \notin After /\ pc' \notin After /\ Live
    BY <2>1 DEF Before, Named, Linked, Live
  <2> QED
    BY <1>2, <2>1, <2>2
<1>5. CASE ResolveTarget
  <2>1. /\ pc = "target" /\ pc' = "compile" /\ UNCHANGED << request, outputs >>
        /\ (Linking' <=> Linking)
    BY <1>5 DEF ResolveTarget, Goto, Linking
  <2>2. pc \notin After /\ pc' \notin After /\ Live
    BY <2>1 DEF Named, Linked, Live
  <2>3. CASE Linking
    <3>1. outputs' = << >>
      BY <2>1, <2>2, <2>3 DEF NamedOutputs
    <3> QED
      BY <2>2, <3>1 DEF NamedOutputs
  <2> QED
    BY <2>1, <2>3 DEF NamedOutputs
<1>6. CASE CompileInput
  <2>1. /\ pc = "compile" /\ pc' = "compile" /\ UNCHANGED << request, target >>
        /\ Linking => outputs' = outputs
    BY <1>6 DEF CompileInput
  <2>2. Live /\ (Linking' <=> Linking)
    BY <2>1 DEF Live, Linking
  <2> QED
    BY <1>2, <2>1, <2>2 DEF NamedOutputs
<1>7. CASE SkipInput \/ StartLink \/ LinkSource \/ LinkLibrary \/ LinkFile \/ EndLink
           \/ Serialize \/ EndSerialize
  <2>1. /\ UNCHANGED << request, target, outputs >>
        /\ \/ pc = "compile" /\ pc' = "compile"
           \/ pc \in {"startup"} \union Linked /\ pc' \in Linked
    BY <1>7 DEF SkipInput, StartLink, LinkSource, LinkLibrary, LinkFile, EndLink, Serialize,
                EndSerialize, Goto, Linked
  <2>2. Live /\ (pc' \in After <=> pc \in After)
    BY <2>1 DEF Live, Linked, Named
  <2> QED
    BY <1>2, <2>1, <2>2
<1>8. CASE EndCompile
  <2>1. /\ pc = "compile" /\ pc' = (IF Linking THEN "output" ELSE "serialize")
        /\ UNCHANGED << request, target, outputs >>
    BY <1>8 DEF EndCompile, Goto
  <2>2. Live /\ pc \notin After /\ (Linking => pc' \notin After)
    BY <2>1 DEF Live, Linked, Named
  <2> QED
    BY <1>2, <2>1, <2>2
<1>9. CASE NameOutput
  <2>1. /\ pc = "output" /\ pc' = "debug" /\ UNCHANGED << request, target >>
        /\ AddOutput(LinkOutput, Temp(temps + 1, LinkOutput.suffix))
    BY <1>9 DEF NameOutput, Goto
  <2>2. LinkOutput \in Files /\ Temp(temps + 1, LinkOutput.suffix) \in Files
    <3>1. LinkOutput \in Files /\ LinkOutput.suffix \in Names
      BY <1>1, OutputNames DEF Files
    <3> QED
      BY <1>1, <3>1, TempIsFile
  <2>3. /\ Len(outputs) \in Nat /\ Len(outputs') = Len(outputs) + 1 /\ outputs' # << >>
        /\ outputs'[Len(outputs) + 1].host = LinkOutput
    BY <1>1, <2>1, <2>2, AddLast
  <2>4. outputs = << >>
    BY <2>1 DEF TempInv, LinkedOutputs, LinkParts, Early
  <2>5. Len(outputs') = 1 /\ outputs'[1].host = LinkOutput
    BY <2>3, <2>4
  <2>6. pc' \in After /\ LinkOutput' = LinkOutput
    BY <2>1 DEF Named, LinkOutput
  <2>7. \A o \in 1..Len(outputs') : outputs'[o].host.suffix = LinkOutput.suffix
    BY <2>5
  <2> QED
    BY <2>3, <2>5, <2>6, <2>7 DEF NamedOutputs
<1>10. CASE DebugOutput
  <2>1. "dbg" \in Names
    BY RequestShape
  <2>2. /\ pc \in Named /\ pc' \in Named /\ UNCHANGED << request, target >>
        /\ SideFile(request.debug, "dbg") /\ (request.debug => "dbg" \in SideSuffixes)
    BY <1>10 DEF DebugOutput, Goto, Named, SideSuffixes
  <2> QED
    BY <2>1, <2>2, SideFileNamedAs
<1>11. CASE TableOutput
  <2>1. "rsm" \in Names
    BY RequestShape
  <2>2. /\ pc \in Named /\ pc' \in Named /\ UNCHANGED << request, target >>
        /\ SideFile(request.overlayRoot, "rsm") /\ (request.overlayRoot => "rsm" \in SideSuffixes)
    BY <1>11 DEF TableOutput, Goto, Named, SideSuffixes
  <2> QED
    BY <2>1, <2>2, SideFileNamedAs
<1>12. CASE UNCHANGED vars
  BY <1>2, <1>12 DEF vars, Live
<1> QED
  BY <1>3, <1>4, <1>5, <1>6, <1>7, <1>8, <1>9, <1>10, <1>11, <1>12 DEF Next

(***************************************************************************)
(* What the linker reads                                                   *)
(***************************************************************************)
LEMMA KindSuffix ==
  ASSUME NEW file
  PROVE  /\ Kind(file) = "object" => file.suffix = "o"
         /\ Kind(file) = "library" => file.suffix = "lib"
BY DEF Kind

(* The files that a link begins and ends with are of the disk. *)
LEMMA StockFromDisk ==
  ASSUME NEW name, NEW suffix, suffix \in {"o", "lib"}
  PROVE  FromDisk(Stock(name, suffix))
BY DEF FromDisk, Stock, Host

(* The files linked first are on the disk before the plan is run.            *)
LEMMA StartFromDisk == \A k \in 1..Len(StartFiles) : FromDisk(StartFiles[k])
<1>1. CASE StartFiles = << >>
  BY <1>1
<1>2. CASE StartFiles = << Startup >>
  <2>1. FromDisk(Startup)
    <3> DEFINE name == CASE target = "cpm86" -> "begin86"
          [] target = "dos1"  -> "begin11"
          [] target = "dos2"  -> [small |-> "sbegin", medium |-> "beginlc",
                                  compact |-> "beginld", large |-> "lbegin"][request.model]
    <3>1. Startup = Stock(name, "o")
      BY DEF Startup
    <3> HIDE DEF name
    <3> QED
      BY <3>1, StockFromDisk
  <2>2. Len(StartFiles) = 1 /\ StartFiles[1] = Startup
    BY <1>2
  <2> QED
    BY <2>1, <2>2
<1> QED
  BY <1>1, <1>2 DEF StartFiles

(* So are those linked last.                                                 *)
LEMMA EndFromDisk ==
  ASSUME TypeInv, Overlay => request.overlayTable.suffix = "rsm"
  PROVE  \A k \in 1..Len(EndFiles) : FromDisk(EndFiles[k])
<1> DEFINE Ends == {Stock("ovld", "o"), request.overlayTable, Stock("ovbgn", "o"), Runtime}
           All == {file \in Ends : FromDisk(file)}
           loader == IF request.overlayRoot THEN << Stock("ovld", "o") >> ELSE << >>
           start == IF Overlay THEN << request.overlayTable, Stock("ovbgn", "o") >> ELSE << >>
           runtime == IF Overlay \/ request.nostdlib THEN << >> ELSE << Runtime >>
<1>1. FromDisk(Stock("ovld", "o")) /\ FromDisk(Stock("ovbgn", "o"))
  BY StockFromDisk
<1>2. FromDisk(Runtime)
  <2> DEFINE name == CASE target = "cpm86" -> "c86"
          [] target = "dos1"  -> "d11"
          [] target = "dos2"  -> [small |-> "c", medium |-> "clc",
                                  compact |-> "cld", large |-> "cl"][request.model]
  <2>1. Runtime = Stock(name, "lib")
    BY DEF Runtime
  <2> HIDE DEF name
  <2> QED
    BY <2>1, StockFromDisk
<1>3. Overlay => FromDisk(request.overlayTable)
  BY DEF WorkspaceIsApart, TypeInv, FromDisk
<1>4. loader \in Seq(All) /\ start \in Seq(All) /\ runtime \in Seq(All)
  <2>1. << >> \in Seq(All)
    OBVIOUS
  <2>2. ASSUME NEW x \in All, NEW y \in All PROVE << x >> \in Seq(All) /\ << x, y >> \in Seq(All)
    BY <2>2
  <2>3. /\ Stock("ovld", "o") \in All /\ Stock("ovbgn", "o") \in All /\ Runtime \in All
        /\ Overlay => request.overlayTable \in All
    BY <1>1, <1>2, <1>3
  <2> HIDE DEF All
  <2> QED
    BY <2>1, <2>2, <2>3
<1>5. EndFiles = loader \o start \o runtime
  BY DEF EndFiles
<1>6. EndFiles \in Seq(All)
  BY <1>4, <1>5, ConcatProperties
<1>7. \A file \in All : FromDisk(file)
  OBVIOUS
<1> HIDE DEF All
<1> QED
  BY <1>6, <1>7

(* So is a library that is found. *)
LEMMA LibraryFromDisk ==
  ASSUME WorkspaceIsApart => ApartInv, NEW name, NEW file, Library(name, file)
  PROVE  file.suffix = "lib" /\ FromDisk(file)
<1>1. CASE file = Math
  <2> DEFINE stem == [small |-> "m", medium |-> "mlc",
                      compact |-> "mld", large |-> "ml"][request.model]
  <2>1. file = Stock(stem, "lib")
    BY <1>1 DEF Math
  <2> HIDE DEF stem
  <2>2. file.suffix = "lib"
    BY <2>1 DEF Stock, Host
  <2> QED
    BY <2>1, <2>2, StockFromDisk
<1>2. CASE UserLibrary(name, file)
  <2>1. PICK a \in 1..Len(areas) : file = Host(areas[a], name, "lib")
    BY <1>2 DEF UserLibrary
  <2> QED
    BY <2>1 DEF ApartInv, FromDisk, Host
<1> QED
  BY <1>1, <1>2 DEF Library

(* A step of the link lists files: nothing listed before moves. *)
LEMMA ListMore ==
  ASSUME TypeInv, TempInv, CompileInv, LinkInv, pc = "link",
         UNCHANGED << request, target, inputs, objects, outputs >>,
         NEW files \in Seq(Files), LinkFiles(files),
         \A f \in 1..Len(files) :
           FromDisk(files[f]) \/ \E o \in 1..Len(objects) : files[f] = objects[o]
  PROVE  LET s == Len(StartFiles) + item - 1 IN
         /\ commands' # << >> /\ commands'[Len(commands')].tool = "ln" /\ Linking'
         /\ commands'[Len(commands')].product = LinkProduct' /\ s \in Nat
         /\ Len(LastReads') = s + Len(files)
         /\ \A k \in 1..s : LastReads'[k] = LastReads[k]
         /\ \A f \in 1..Len(files) : LastReads'[s + f] = files[f]
         /\ \A i \in 1..(item - 1) : Placed(i)'
         /\ \A k \in 1..Len(LastReads') :
              FromDisk(LastReads[k])' \/ \E o \in 1..Len(objects') : LastReads'[k] = objects'[o]
<1> DEFINE s == Len(StartFiles) + item - 1
           last == Len(commands)
<1>1. /\ commands \in Seq(CommandType) /\ item \in Nat \ {0} /\ Linking /\ commands # << >>
  BY DEF TypeInv, TypeOK, CommandType, TempInv, LinkParts
<1>2. Len(StartFiles) \in Nat
  <2>1. StartFiles = << >> \/ StartFiles = << Startup >>
    BY DEF StartFiles
  <2> QED
    BY <2>1
<1>3. s \in Nat
  BY <1>1, <1>2
<1>4. /\ commands[last].tool = "ln" /\ commands[last].product = LinkProduct
      /\ Len(LastReads) = Len(StartFiles) + LinkedTo /\ LinkedTo = item - 1
      /\ \A i \in 1..LinkedTo : Placed(i)
      /\ \A k \in 1..Len(LastReads) :
           FromDisk(LastReads[k]) \/ \E o \in 1..Len(objects) : LastReads[k] = objects[o]
  <2>1. pc \in Linked /\ LinkedTo = item - 1
    BY DEF Linked, LinkedTo
  <2> QED
    BY <1>1, <2>1 DEF LinkInv
<1>5. Len(LastReads) = s
  BY <1>1, <1>2, <1>4
<1>6. /\ Len(commands') = last /\ last \in Nat \ {0}
      /\ commands'[last].tool = commands[last].tool
      /\ commands'[last].product = commands[last].product
      /\ commands'[last].reads = commands[last].reads \o files
  BY <1>1, LinkFilesTyped
<1>7. LastReads \in Seq(Files) /\ LastReads' = LastReads \o files
  <2>1. commands[last] \in CommandType
    BY <1>1, <1>6
  <2>2. commands[last].reads \in Seq(Files)
    BY <2>1 DEF CommandType
  <2> QED
    BY <1>6, <2>2 DEF LastReads
<1> HIDE DEF s, last
<1>8. /\ Len(LastReads') = s + Len(files)
      /\ \A k \in 1..s : LastReads'[k] = LastReads[k]
      /\ \A f \in 1..Len(files) : LastReads'[s + f] = files[f]
      /\ \A k \in 1..Len(LastReads') : k \in 1..s \/ \E f \in 1..Len(files) : k = s + f
  <2>1. Len(files) \in Nat
    OBVIOUS
  <2>2. /\ Len(LastReads') = s + Len(files)
        /\ \A k \in 1..(s + Len(files)) :
             LastReads'[k] = IF k <= s THEN LastReads[k] ELSE files[k - s]
    BY <1>5, <1>7, ConcatProperties
  <2>3. \A k \in 1..(s + Len(files)) : k \in 1..s \/ (k - s \in 1..Len(files) /\ k = s + (k - s))
    BY <1>3, <2>1
  <2> QED
    BY <1>3, <2>1, <2>2, <2>3
<1>9. (Linking' <=> Linking) /\ StartFiles' = StartFiles /\ LinkProduct' = LinkProduct
  BY DEF Linking, StartFiles, LinkProduct, Startup, Overlay
<1>10. ASSUME NEW i \in 1..(item - 1) PROVE Placed(i)'
  <2>1. Len(StartFiles) + i \in 1..s
    BY <1>1, <1>2 DEF s
  <2>2. Placed(i)
    BY <1>4
  <2>3. LastReads'[Len(StartFiles') + i] = LastReads[Len(StartFiles) + i]
    BY <1>8, <1>9, <2>1
  <2>4. Rank(i)' = Rank(i)
    BY RankKept
  <2> QED
    BY <2>2, <2>3, <2>4 DEF Placed
<1>11. ASSUME NEW k \in 1..Len(LastReads')
       PROVE  FromDisk(LastReads[k])' \/ \E o \in 1..Len(objects') : LastReads'[k] = objects'[o]
  <2>1. PICK file : file = LastReads'[k]
    OBVIOUS
  <2>2. FromDisk(file) \/ \E o \in 1..Len(objects) : file = objects[o]
    BY <1>4, <1>5, <1>8, <2>1
  <2> QED
    BY <2>1, <2>2 DEF FromDisk, Overlay
<1>12. s = Len(StartFiles) + item - 1
  BY DEF s
<1> QED
  BY <1>1, <1>3, <1>4, <1>6, <1>8, <1>9, <1>10, <1>11, <1>12 DEF last

(* One input is listed, at its place. *)
LEMMA ListInput ==
  ASSUME TypeInv, TempInv, CompileInv, LinkInv, pc = "link", pc' = "link", item <= Len(inputs),
         item' = item + 1, UNCHANGED << request, target, inputs, objects, outputs >>,
         NEW file \in Files, LinkFiles(<< file >>),
         FromDisk(file) \/ \E o \in 1..Len(objects) : file = objects[o],
         object' = Rank(item),
         \/ Kind(inputs[item]) = "libname" /\ file.suffix = "lib"
         \/ Kind(inputs[item]) \in {"object", "library"} /\ file = inputs[item]
         \/ IsSource(inputs[item]) /\ file = objects[Rank(item)]
  PROVE  LinkInv'
<1>1. PICK x : x = item
  OBVIOUS
<1> DEFINE s == Len(StartFiles) + x - 1
           files == << file >>
<1>2. /\ x \in Nat \ {0} /\ x \in 1..Len(inputs) /\ Len(inputs) \in Nat /\ Len(StartFiles) \in Nat
  <2>1. StartFiles = << >> \/ StartFiles = << Startup >>
    BY DEF StartFiles
  <2> QED
    BY <1>1, <2>1 DEF TypeInv, TypeOK
<1>3. files \in Seq(Files) /\ Len(files) = 1 /\ files[1] = file /\ LinkFiles(files)
  OBVIOUS
<1> HIDE DEF files
<1>4. \A f \in 1..Len(files) :
        FromDisk(files[f]) \/ \E o \in 1..Len(objects) : files[f] = objects[o]
  BY <1>3
<1>5. /\ commands' # << >> /\ commands'[Len(commands')].tool = "ln" /\ Linking'
      /\ commands'[Len(commands')].product = LinkProduct' /\ s \in Nat
      /\ Len(LastReads') = s + Len(files)
      /\ \A f \in 1..Len(files) : LastReads'[s + f] = files[f]
      /\ \A i \in 1..(x - 1) : Placed(i)'
      /\ \A k \in 1..Len(LastReads') :
           FromDisk(LastReads[k])' \/ \E o \in 1..Len(objects') : LastReads'[k] = objects'[o]
  BY <1>1, <1>3, <1>4, ListMore
<1>6. /\ Len(LastReads') = Len(StartFiles) + x /\ LastReads'[Len(StartFiles) + x] = file
  BY <1>2, <1>3, <1>5
<1>7. StartFiles' = StartFiles /\ (\A i : Rank(i)' = Rank(i))
  BY RankKept DEF StartFiles, Startup, Overlay
<1>8. Placed(x)'
  BY <1>1, <1>6, <1>7 DEF Placed
<1>9. \A i \in 1..x : Placed(i)'
  BY <1>2, <1>5, <1>8
<1>10. LinkedTo' = x /\ Live' /\ pc' \in Linked
  BY <1>1, <1>2 DEF LinkedTo, Live, Linked
<1>11. Rank(LinkedTo)' = Rank(x)
  <2>1. Rank(LinkedTo)' = Cardinality({j \in 1..LinkedTo' : IsSource(inputs'[j])})
    BY DEF Rank, IsSource, Kind
  <2> QED
    BY <1>10, <2>1 DEF Rank
<1>12. /\ object' = Rank(LinkedTo)' /\ LinkedTo' <= Len(inputs')
       /\ Len(StartFiles') + LinkedTo' <= Len(LastReads')
       /\ Len(LastReads') = Len(StartFiles') + LinkedTo'
       /\ \A i \in 1..LinkedTo' : Placed(i)'
  BY <1>1, <1>2, <1>6, <1>7, <1>9, <1>10, <1>11
<1> QED
  BY <1>5, <1>10, <1>12 DEF LinkInv

(* What leaves the linker's files as they are. *)
LEMMA LinkKept ==
  ASSUME TypeInv, LinkInv, Live, pc \in Linked,
         UNCHANGED << request, target, inputs, objects, object, outputs >>,
         Len(commands') = Len(commands), Linking => SameCommand(Len(commands)),
         pc' \in Linked, LinkedTo' = LinkedTo, pc' = "link" => pc = "link"
  PROVE  LinkInv'
<1>1. /\ (Linking' <=> Linking) /\ StartFiles' = StartFiles /\ LinkProduct' = LinkProduct
      /\ \A i : Rank(i)' = Rank(i)
  BY RankKept DEF Linking, StartFiles, LinkProduct, Startup, Overlay
<1>2. CASE ~ Linking
  BY <1>1, <1>2 DEF LinkInv
<1>3. CASE Linking
  <2>1. SameCommand(Len(commands)) /\ LastReads' = LastReads
    BY <1>3 DEF SameCommand, LastReads
  <2>2. /\ commands[Len(commands)].tool = "ln"
        /\ commands[Len(commands)].product = LinkProduct
        /\ object = Rank(LinkedTo) /\ LinkedTo <= Len(inputs)
        /\ Len(StartFiles) + LinkedTo <= Len(LastReads)
        /\ pc = "link" => Len(LastReads) = Len(StartFiles) + LinkedTo
        /\ \A i \in 1..LinkedTo : Placed(i)
        /\ \A k \in 1..Len(LastReads) :
             FromDisk(LastReads[k]) \/ \E o \in 1..Len(objects) : LastReads[k] = objects[o]
    BY <1>3 DEF LinkInv
  <2>3. \A i \in 1..LinkedTo' : Placed(i)'
    BY <1>1, <2>1, <2>2 DEF Placed
  <2>4. \A k \in 1..Len(LastReads') :
           FromDisk(LastReads[k])' \/ \E o \in 1..Len(objects') : LastReads'[k] = objects'[o]
    BY <2>1, <2>2 DEF FromDisk, Overlay
  <2>5. Rank(LinkedTo)' = Rank(LinkedTo)
    <3>1. Rank(LinkedTo)' = Cardinality({j \in 1..LinkedTo' : IsSource(inputs'[j])})
      BY DEF Rank, IsSource, Kind
    <3> QED
      BY <3>1 DEF Rank
  <2>6. /\ commands'[Len(commands')].tool = "ln"
        /\ commands'[Len(commands')].product = LinkProduct'
        /\ object' = Rank(LinkedTo)' /\ LinkedTo' <= Len(inputs')
        /\ Len(StartFiles') + LinkedTo' <= Len(LastReads')
        /\ pc' = "link" => Len(LastReads') = Len(StartFiles') + LinkedTo'
    BY <1>1, <2>1, <2>2, <2>5 DEF SameCommand
  <2> QED
    BY <2>3, <2>4, <2>6 DEF LinkInv
<1> QED
  BY <1>2, <1>3

(* A file that is no source takes no object. *)
LEMMA RankAtLink ==
  ASSUME TypeInv, TempInv, LinkInv, pc = "link", ~ IsSource(inputs[item])
  PROVE  object = Rank(item)
<1>1. pc \in Linked /\ LinkedTo = item - 1 /\ Linking
  BY DEF Linked, LinkedTo, TempInv, LinkParts
<1>2. object = Rank(item - 1)
  BY <1>1 DEF LinkInv
<1>3. item \in Nat \ {0}
  BY DEF TypeInv, TypeOK
<1> QED
  BY <1>2, <1>3, RankNext

(* The last files of the link. *)
LEMMA ListEnd ==
  ASSUME TypeInv, TempInv, CompileInv, LinkInv, EndLink
  PROVE  LinkInv'
<1>1. /\ pc = "link" /\ pc' = "serialize" /\ item > Len(inputs) /\ LinkFiles(EndFiles)
      /\ UNCHANGED << request, target, inputs, objects, object, outputs >>
      /\ Listed(EndFiles) /\ (Overlay => request.overlayTable.suffix = "rsm")
  BY DEF EndLink, Goto
<1>2. EndFiles \in Seq(Files)
  BY <1>1, RequestTyped, EndFilesType
<1>3. \A f \in 1..Len(EndFiles) : FromDisk(EndFiles[f])
  BY <1>1, EndFromDisk
<1> DEFINE s == Len(StartFiles) + item - 1
<1>4. /\ commands' # << >> /\ commands'[Len(commands')].tool = "ln" /\ Linking'
      /\ commands'[Len(commands')].product = LinkProduct' /\ s \in Nat
      /\ Len(LastReads') = s + Len(EndFiles)
      /\ \A i \in 1..(item - 1) : Placed(i)'
      /\ \A k \in 1..Len(LastReads') :
           FromDisk(LastReads[k])' \/ \E o \in 1..Len(objects') : LastReads'[k] = objects'[o]
  BY <1>1, <1>2, <1>3, ListMore
<1>5. item - 1 = Len(inputs) /\ Linking /\ object = Rank(LinkedTo) /\ LinkedTo = item - 1
  <2>1. pc \in Linked /\ LinkedTo = item - 1 /\ Linking
    BY <1>1 DEF Linked, LinkedTo, TempInv, LinkParts
  <2>2. LinkedTo <= Len(inputs) /\ object = Rank(LinkedTo)
    BY <2>1 DEF LinkInv
  <2> QED
    BY <1>1, <2>1, <2>2 DEF TypeInv, TypeOK
<1>6. LinkedTo' = Len(inputs) /\ Live' /\ pc' \in Linked
  BY <1>1 DEF LinkedTo, Live, Linked
<1>7. StartFiles' = StartFiles
  BY <1>1 DEF StartFiles, Startup, Overlay
<1>8. Rank(LinkedTo)' = Rank(LinkedTo)
  <2>1. Rank(LinkedTo)' = Cardinality({j \in 1..LinkedTo' : IsSource(inputs'[j])})
    BY DEF Rank, IsSource, Kind
  <2> QED
    BY <1>1, <1>5, <1>6, <2>1 DEF Rank
<1>9. Len(EndFiles) \in Nat /\ Len(StartFiles) + Len(inputs) = s
  BY <1>2, <1>5
<1> HIDE DEF s
<1>10. /\ object' = Rank(LinkedTo)' /\ LinkedTo' <= Len(inputs')
       /\ Len(StartFiles') + LinkedTo' <= Len(LastReads')
       /\ pc' # "link" /\ \A i \in 1..LinkedTo' : Placed(i)'
  <2>1. Len(inputs) \in Nat
    BY DEF TypeInv, TypeOK
  <2>2. s <= s + Len(EndFiles)
    BY <1>4, <1>9
  <2> QED
    BY <1>1, <1>4, <1>5, <1>6, <1>7, <1>8, <1>9, <2>1, <2>2
<1> QED
  BY <1>4, <1>6, <1>10 DEF LinkInv

(* The linker's command lists each input at its place. *)
LEMMA LinkStep ==
  ASSUME TypeInv, SafeInv, TempInv, WorkspaceIsApart => ApartInv, CompileInv, LinkInv,
         [Next]_vars
  PROVE  LinkInv'
<1>1. /\ item \in Nat \ {0} /\ inputs \in Seq(Files) /\ objects \in Seq(Files)
      /\ commands \in Seq(CommandType) /\ Len(commands) \in Nat /\ object \in Nat
  BY DEF TypeInv, TypeOK, CommandType
<1>2. CASE Refuse \/ Crash
  <2>1. pc' \in {"refused", "crashed"}
    BY <1>2 DEF Refuse, Crash, Goto
  <2> QED
    BY <2>1 DEF LinkInv, Live, Linked
<1>3. CASE \/ SearchAreas \/ ExpandInput \/ EndExpand \/ CheckInput \/ CheckRequest
           \/ ResolveTarget \/ CompileInput \/ SkipInput \/ NameOutput \/ DebugOutput \/ TableOutput
  <2>1. /\ pc \in Before \union {"compile", "output"} \union Named
        /\ pc' \in Before \union {"compile", "output"} \union Named /\ object' = object
    BY <1>3 DEF SearchAreas, ExpandInput, EndExpand, CheckInput, CheckRequest, ResolveTarget,
                CompileInput, SkipInput, NameOutput, DebugOutput, TableOutput, Goto, Before, Named
  <2>2. Live /\ pc \notin Linked /\ pc' \notin Linked
    BY <2>1 DEF Live, Linked, Before, Named
  <2> QED
    BY <2>1, <2>2 DEF LinkInv
<1>4. CASE EndCompile
  <2>1. /\ pc = "compile" /\ pc' = (IF Linking THEN "output" ELSE "serialize") /\ object' = object
        /\ (Linking' <=> Linking)
    BY <1>4 DEF EndCompile, Goto, Linking
  <2>2. /\ Live /\ pc \notin Linked /\ (Linking => pc' \notin Linked)
        /\ (~ Linking => pc' \in Linked)
    BY <2>1 DEF Live, Linked
  <2> QED
    BY <2>1, <2>2 DEF LinkInv
<1>5. CASE StartLink
  <2> DEFINE tool == "ln"
             ln == NewCommand(tool, LinkOutput, LinkProduct, StartFiles)
  <2>1. /\ pc = "startup" /\ pc' = "link" /\ item' = 1 /\ commands' = Append(commands, ln)
        /\ UNCHANGED << request, inputs, object, target, objects, outputs >> /\ Listed(StartFiles)
    BY <1>5 DEF StartLink, Goto
  <2>2. LinkOutput \in Files /\ LinkProduct \in Files /\ StartFiles \in Seq(Files)
    BY <2>1, TypedFromType, OutputNames, LinkProductIsFile, StartFilesType DEF SafeInv, LinkNamed
  <2>3. tool \in {"cc", "as", "sqz", "ln"}
    OBVIOUS
  <2> HIDE DEF tool
  <2>4. ln.tool = tool /\ ln.product = LinkProduct /\ ln.reads = StartFiles
    BY <2>2, <2>3, NewCommandType
  <2> HIDE DEF ln
  <2>5. commands'[Len(commands')] = ln
    BY <1>1, <2>1, AppendSeq
  <2>6. LastReads' = StartFiles /\ StartFiles' = StartFiles /\ LinkProduct' = LinkProduct
    BY <2>1, <2>4, <2>5 DEF LastReads, StartFiles, Startup, Overlay, LinkProduct
  <2>7. LinkedTo' = 0 /\ pc' \in Linked /\ Live /\ pc \notin Linked
    BY <2>1 DEF LinkedTo, Linked, Live
  <2>8. object' = 0
    BY <2>1, <2>7 DEF LinkInv
  <2>9. Rank(LinkedTo)' = 0
    <3>1. Rank(LinkedTo)' = Cardinality({j \in 1..LinkedTo' : IsSource(inputs'[j])})
      BY DEF Rank, IsSource, Kind
    <3> QED
      BY <2>7, <3>1, RankZero DEF Rank
  <2>10. \A k \in 1..Len(LastReads') : FromDisk(LastReads[k])'
    BY <2>1, <2>6, StartFromDisk DEF FromDisk, Overlay
  <2>11. Len(StartFiles) \in Nat /\ Len(inputs) \in Nat
    BY <1>1, <2>2
  <2>12. /\ LinkedTo' <= Len(inputs') /\ Len(LastReads') = Len(StartFiles') + LinkedTo'
         /\ Len(StartFiles') + LinkedTo' <= Len(LastReads')
         /\ \A i \in 1..LinkedTo' : Placed(i)'
    BY <2>1, <2>6, <2>7, <2>11
  <2>13. commands'[Len(commands')].tool = "ln" /\ commands'[Len(commands')].product = LinkProduct'
    BY <2>4, <2>5, <2>6 DEF tool
  <2> QED
    BY <2>7, <2>8, <2>9, <2>10, <2>12, <2>13 DEF LinkInv
<1>6. CASE LinkSource
  <2>1. /\ pc = "link" /\ pc' = "link" /\ item <= Len(inputs) /\ IsSource(inputs[item])
        /\ item' = item + 1 /\ UNCHANGED << request, target, inputs, objects, outputs >>
        /\ LinkFiles(<< objects[object + 1] >>) /\ object' = object + 1
    BY <1>6 DEF LinkSource
  <2>2. object + 1 \in 1..Len(objects) /\ object + 1 = Rank(item)
    BY <2>1, ObjectThere
  <2>3. objects[object + 1] \in Files
    BY <1>1, <2>2
  <2> QED
    BY <2>1, <2>2, <2>3, ListInput
<1>7. CASE LinkLibrary
  <2>1. /\ pc = "link" /\ pc' = "link" /\ item <= Len(inputs) /\ Kind(inputs[item]) = "libname"
        /\ item' = item + 1 /\ UNCHANGED << request, target, inputs, objects, object, outputs >>
    BY <1>7 DEF LinkLibrary
  <2>2. PICK file \in Readable : Library(inputs[item].stem, file) /\ LinkFiles(<< file >>)
    BY <1>7 DEF LinkLibrary
  <2>3. file \in Files /\ file.suffix = "lib" /\ FromDisk(file)
    BY <2>2, ReadableFiles, LibraryFromDisk
  <2>4. ~ IsSource(inputs[item])
    BY <2>1 DEF IsSource
  <2>5. object' = Rank(item)
    BY <2>1, <2>4, RankAtLink
  <2> QED
    BY <2>1, <2>2, <2>3, <2>5, ListInput
<1>8. CASE LinkFile
  <2>1. /\ pc = "link" /\ pc' = "link" /\ item <= Len(inputs)
        /\ Kind(inputs[item]) \in {"object", "library"} /\ LinkFiles(<< inputs[item] >>)
        /\ item' = item + 1 /\ UNCHANGED << request, target, inputs, objects, object, outputs >>
    BY <1>8 DEF LinkFile
  <2>2. inputs[item] \in Files /\ item \in 1..Len(inputs)
    BY <1>1, <2>1
  <2>3. FromDisk(inputs[item])
    BY <2>1, <2>2, KindSuffix DEF ApartInv, FromDisk
  <2>4. ~ IsSource(inputs[item])
    BY <2>1 DEF IsSource
  <2>5. object' = Rank(item)
    BY <2>1, <2>4, RankAtLink
  <2> QED
    BY <2>1, <2>2, <2>3, <2>5, ListInput
<1>9. CASE EndLink
  BY <1>9, ListEnd
<1>10. CASE Serialize
  <2>1. /\ pc = "serialize" /\ pc' = "serialize" /\ item \in 1..Len(commands)
        /\ UNCHANGED << request, target, inputs, objects, object, outputs >>
    BY <1>1, <1>10 DEF Serialize
  <2>2. Len(commands') = Len(commands) /\ \A c \in 1..Len(commands) : SameCommand(c)
    BY <1>10, SerializeKeeps
  <2>3. SameCommand(Len(commands))
    BY <1>1, <2>1, <2>2
  <2>4. Live /\ pc \in Linked /\ pc' \in Linked /\ LinkedTo' = LinkedTo
    BY <2>1 DEF Live, Linked, LinkedTo
  <2> QED
    BY <2>1, <2>2, <2>3, <2>4, LinkKept
<1>11. CASE EndSerialize
  <2>1. /\ pc = "serialize" /\ pc' = "planned"
        /\ UNCHANGED << request, target, inputs, objects, object, outputs, commands >>
    BY <1>11 DEF EndSerialize, Goto
  <2>2. Live /\ pc \in Linked /\ pc' \in Linked /\ LinkedTo' = LinkedTo
    BY <2>1 DEF Live, Linked, LinkedTo
  <2> QED
    BY <2>1, <2>2, LinkKept DEF SameCommand
<1>12. CASE UNCHANGED vars
  <2>1. UNCHANGED << request, target, inputs, objects, object, outputs, commands, pc, item >>
    BY <1>12 DEF vars
  <2>2. LinkedTo' = LinkedTo
    BY <2>1 DEF LinkedTo
  <2>3. CASE pc \in Linked
    <3>1. Live
      BY <2>3 DEF Live, Linked
    <3> QED
      BY <2>1, <2>2, <2>3, <3>1, LinkKept DEF SameCommand
  <2>4. CASE pc \notin Linked
    BY <2>1, <2>4 DEF LinkInv, Live
  <2> QED
    BY <2>3, <2>4
<1> QED
  BY <1>2, <1>3, <1>4, <1>5, <1>6, <1>7, <1>8, <1>9, <1>10, <1>11, <1>12 DEF Next

(***************************************************************************)
(* The inductive invariant                                                 *)
(***************************************************************************)
LEMMA PlanInit == Init => PlanInv
<1> SUFFICES ASSUME Init PROVE PlanInv
  OBVIOUS
<1>1. /\ pc = "areas" /\ item = 1 /\ areas = << >> /\ inputs = << >> /\ objects = << >>
      /\ object = 0 /\ temps = 0 /\ target = request.target /\ commands = << >> /\ outputs = << >>
      /\ request \in Requests /\ ParserAccepts(request)
  BY DEF Init
<1>2. Requests \subseteq RequestType
  BY RequestShape
<1>3. request.target \in {"cpm86", "dos1", "dos2"}
  BY <1>1, <1>2 DEF RequestType
<1>4. TypeInv
  BY <1>1, <1>3, LimitsAreNat DEF TypeInv, TypeOK, Room
<1>5. ApartInv /\ TargetInv /\ NamedOutputs
  BY <1>1 DEF ApartInv, TargetInv, NamedOutputs, Checked, Linked, Named
<1>6. CheckedTo = 0 /\ CompiledTo = 0 /\ pc \notin Checked /\ pc \notin Linked
  BY <1>1 DEF CheckedTo, CompiledTo, Checked, Linked
<1>7. CheckInv /\ LinkInv
  BY <1>1, <1>6 DEF CheckInv, LinkInv
<1>8. CompileInv
  <2>1. Rank(CompiledTo) = 0 /\ Runs(0) = 0
    BY <1>6, RankZero DEF Runs
  <2> QED
    BY <1>1, <1>6, <2>1 DEF CompileInv
<1> QED
  BY <1>4, <1>5, <1>7, <1>8 DEF PlanInv

(* Every step keeps the invariant. *)
LEMMA PlanStep == SafeInv /\ TempInv /\ PlanInv /\ [Next]_vars => PlanInv'
<1> SUFFICES ASSUME SafeInv, TempInv, PlanInv, [Next]_vars PROVE PlanInv'
  OBVIOUS
<1>1. /\ TypeInv /\ (WorkspaceIsApart => ApartInv) /\ CheckInv /\ TargetInv
      /\ CompileInv /\ NamedOutputs /\ LinkInv
  BY DEF PlanInv
<1>2. TypeInv' /\ CompileInv'
  BY <1>1, TypeStep, CompileStep
<1>3. (WorkspaceIsApart => ApartInv') /\ LinkInv'
  BY <1>1, ApartStep, LinkStep
<1>4. CheckInv' /\ TargetInv' /\ NamedOutputs'
  BY <1>1, CheckStep, TargetStep, NamedStep
<1> QED
  BY <1>2, <1>3, <1>4 DEF PlanInv

(***************************************************************************)
(* What a command is                                                       *)
(***************************************************************************)
LEMMA SourceCommands ==
  ASSUME PlanInv, Live, NEW i \in 1..CompiledTo, IsSource(inputs[i])
  PROVE  /\ Built(i) /\ Rank(i) \in 1..Rank(CompiledTo)
         /\ First(i) \in 1..Runs(Rank(CompiledTo))
         /\ request.squeeze => First(i) + 1 \in 1..Runs(Rank(CompiledTo))
         /\ i \in 1..Len(inputs)
<1>1. CompiledTo \in Nat /\ Len(inputs) \in Nat
  BY DEF PlanInv, TypeInv, TypeOK, CompiledTo
<1>2. Rank(CompiledTo) \in Nat /\ Rank(i) \in 1..Rank(CompiledTo)
  BY <1>1, RankType, SourceRank
<1>3. Built(i) /\ CompiledTo <= Len(inputs)
  BY DEF PlanInv, CompileInv
<1> QED
  BY <1>1, <1>2, <1>3, FirstIn

(* How many commands there are. *)
LEMMA CommandCount ==
  ASSUME PlanInv, Live
  PROVE  /\ CompiledTo \in Nat /\ Rank(CompiledTo) \in Nat /\ Runs(Rank(CompiledTo)) \in Nat
         /\ Len(commands) = Runs(Rank(CompiledTo)) + (IF Linking /\ pc \in Linked THEN 1 ELSE 0)
<1>1. CompiledTo \in Nat
  BY DEF PlanInv, TypeInv, TypeOK, CompiledTo
<1>2. Rank(CompiledTo) \in Nat
  BY <1>1, RankType
<1>3. Runs(Rank(CompiledTo)) \in Nat
  BY <1>2, RunsType
<1> QED
  BY <1>1, <1>2, <1>3 DEF PlanInv, CompileInv

(* A command compiles a source, squeezes its object, or links. *)
LEMMA CommandOf ==
  ASSUME PlanInv, Live, NEW c \in 1..Len(commands)
  PROVE  \/ \E i \in 1..CompiledTo : IsSource(inputs[i]) /\ Built(i) /\ c = First(i)
         \/ \E i \in 1..CompiledTo : /\ IsSource(inputs[i]) /\ Built(i) /\ request.squeeze
                                     /\ c = First(i) + 1
         \/ Linking /\ pc \in Linked /\ c = Len(commands)
<1>1. CASE c \in 1..Runs(Rank(CompiledTo))
  BY <1>1 DEF PlanInv, CompileInv
<1>2. CASE c \notin 1..Runs(Rank(CompiledTo))
  BY <1>2, CommandCount
<1> QED
  BY <1>1, <1>2

(* What the linker gets for a source is the product of its compiler. *)
LEMMA ObjectOf ==
  ASSUME PlanInv, Live, Linking, NEW o \in 1..Len(objects)
  PROVE  \E i \in 1..CompiledTo :
           IsSource(inputs[i]) /\ Built(i) /\ objects[o] = commands[First(i)].product
<1>1. Len(objects) = Rank(CompiledTo) /\ SourceAt(o)
  BY DEF PlanInv, CompileInv
<1>2. PICK i \in 1..CompiledTo : IsSource(inputs[i]) /\ Rank(i) = o
  BY <1>1 DEF SourceAt
<1>3. Built(i)
  BY <1>2, SourceCommands
<1> QED
  BY <1>2, <1>3 DEF Built

(***************************************************************************)
(* The properties                                                          *)
(***************************************************************************)
LEMMA ReadsKept ==
  ASSUME WorkspaceIsApart, SafeInv, PlanInv, Live
  PROVE  NothingReadIsReplaced
<1> SUFFICES ASSUME NEW o \in 1..Len(outputs), NEW c \in 1..Len(commands), NEW k \in 1..ListLimit,
                    k <= Len(commands[c].reads)
             PROVE  commands[c].reads[k] # outputs[o].host
  BY DEF NothingReadIsReplaced
<1> DEFINE host == outputs[o].host
<1>1. host.dir # "E"
  BY DEF PlanInv, ApartInv
<1>2. k \in Nat \ {0} /\ k \in 1..ListLimit
  BY LimitsAreNat
<1>3. ASSUME NEW i \in 1..CompiledTo, IsSource(inputs[i]), Built(i), c = First(i)
      PROVE  commands[c].reads[k] # host
  <2>1. commands[c].reads = << inputs[i] >>
    BY <1>3 DEF Built, Compiles
  <2>2. Len(<< inputs[i] >>) = 1 /\ << inputs[i] >>[1] = inputs[i]
    OBVIOUS
  <2>3. k = 1 /\ commands[c].reads[k] = inputs[i]
    BY <1>2, <2>1, <2>2
  <2>4. i \in 1..Len(inputs) /\ Kind(inputs[i]) # "libname"
    BY <1>3, SourceCommands DEF IsSource
  <2>5. ~ SameFile(host, inputs[i])
    BY <2>4 DEF SafeInv, OutputInv, OutputsSafe
  <2> QED
    BY <2>3, <2>5 DEF SameFile
<1>4. ASSUME NEW i \in 1..CompiledTo, IsSource(inputs[i]), Built(i),
             request.squeeze, c = First(i) + 1
      PROVE  commands[c].reads[k] # host
  <2>1. PICK product : commands[c].reads = << product >> /\ product.dir = "E"
    BY <1>4 DEF Built, Squeezes
  <2>2. Len(<< product >>) = 1 /\ << product >>[1] = product
    OBVIOUS
  <2>3. k = 1 /\ commands[c].reads[k] = product
    BY <1>2, <2>1, <2>2
  <2> QED
    BY <1>1, <2>1, <2>3
<1>5. ASSUME Linking, pc \in Linked, c = Len(commands)
      PROVE  commands[c].reads[k] # host
  <2>1. commands[c].reads = LastReads /\ LastReads[k] = commands[c].reads[k] /\ k <= Len(LastReads)
    BY <1>5 DEF LastReads
  <2>2. PICK read : read = LastReads[k]
    OBVIOUS
  <2>3. FromDisk(read) \/ \E q \in 1..Len(objects) : read = objects[q]
    <3>1. Len(LastReads) \in Nat
      <4>1. commands \in Seq(CommandType)
        BY DEF PlanInv, TypeInv, TypeOK, CommandType
      <4>2. commands[c] \in CommandType
        BY <4>1
      <4>3. commands[c].reads \in Seq(Files)
        BY <4>2 DEF CommandType
      <4> QED
        BY <2>1, <4>3
    <3>2. k \in 1..Len(LastReads)
      BY <1>2, <2>1, <3>1
    <3> QED
      BY <1>5, <2>2, <3>2 DEF PlanInv, LinkInv
  <2>4. CASE \E q \in 1..Len(objects) : read = objects[q]
    <3>1. read.dir = "E"
      BY <1>5, <2>4, ObjectOf DEF Built
    <3> QED
      BY <1>1, <2>1, <2>2, <3>1
  <2>5. CASE FromDisk(read)
    <3>1. host.suffix \in {LinkOutput.suffix} \union SideSuffixes
      BY <1>5 DEF PlanInv, NamedOutputs
    <3>2. SuffixAllowed /\ (~ Overlay => LinkOutput.suffix \in {"cmd", "exe", "com"})
      BY <1>5 DEF PlanInv, TargetInv, Linked, Checked
    <3>3. Overlay => ~ request.overlayRoot
      BY DEF PlanInv, TypeInv, ParserAccepts, Overlay
    <3>4. read.suffix \in {"o", "lib"} \/ (Overlay /\ read.suffix = "rsm")
      BY <2>5 DEF FromDisk
    <3>5. CASE Overlay
      <4>1. LinkOutput.suffix = "ovr" /\ SideSuffixes \subseteq {"dbg"}
        BY <3>2, <3>3, <3>5 DEF SuffixAllowed, SideSuffixes
      <4> QED
        BY <2>1, <2>2, <3>1, <3>4, <4>1
    <3>6. CASE ~ Overlay
      <4>1. SideSuffixes \subseteq {"dbg", "rsm"}
        BY DEF SideSuffixes
      <4> QED
        BY <2>1, <2>2, <3>1, <3>2, <3>4, <3>6, <4>1
    <3> QED
      BY <3>5, <3>6
  <2> QED
    BY <2>3, <2>4, <2>5
<1> HIDE DEF host
<1>6. commands[c].reads[k] # host
  BY <1>3, <1>4, <1>5, CommandOf
<1> QED
  BY <1>6 DEF host

(* A plan that is refused stays what it was. *)
LEMMA ReadsKeptAtEnd ==
  ASSUME NothingReadIsReplaced, PlanInv, [Next]_vars, ~ Live'
  PROVE  NothingReadIsReplaced'
<1>1. UNCHANGED << commands, outputs >>
  <2>1. pc' \in {"refused", "crashed"}
    BY DEF Live
  <2> QED
    BY <2>1 DEF Next, vars, SearchAreas, ExpandInput, EndExpand, CheckInput, CheckRequest,
       ResolveTarget, CompileInput, SkipInput, EndCompile, Crash, NameOutput, DebugOutput,
       TableOutput, StartLink, LinkSource, LinkLibrary, LinkFile, EndLink, Serialize,
       EndSerialize, Refuse, Goto
<1> QED
  BY <1>1 DEF NothingReadIsReplaced

(* What the invariant says of a finished plan: the image, *)
LEMMA ImageFits == ASSUME PlanInv PROVE ImageMatchesTarget
<1> SUFFICES ASSUME Planned, Linking, ~ Overlay
             PROVE  /\ LinkOutput.suffix = "cmd" <=> target = "cpm86"
                    /\ request.targetGiven => target = request.target
                    /\ request.model # "small" => target = "dos2" /\ LinkOutput.suffix = "exe"
                    /\ request.overlayRoot => LinkOutput.suffix \in {"cmd", "exe"}
  BY DEF ImageMatchesTarget
<1>1. pc \in Checked \ {"target"} /\ pc \notin {"compile", "output"}
  BY DEF Planned, Checked, Linked
<1>2. /\ LinkOutput.suffix \in {"cmd", "exe", "com"}
      /\ LinkOutput.suffix = "cmd" <=> target = "cpm86"
      /\ request.targetGiven => target = request.target
      /\ SuffixAllowed
  BY <1>1 DEF PlanInv, TargetInv
<1> QED
  BY <1>2 DEF SuffixAllowed

(* the order of the link, *)
LEMMA OrderFits == ASSUME PlanInv PROVE LinkOrder
<1> SUFFICES ASSUME NEW c \in 1..Len(commands), Planned, commands[c].tool = "ln",
                    NEW i \in 1..Len(inputs)
             PROVE  LET read == commands[c].reads[Len(StartFiles) + i] IN
                    \/ Kind(inputs[i]) = "libname" /\ read.suffix = "lib"
                    \/ Kind(inputs[i]) \in {"object", "library"} /\ read = inputs[i]
                    \/ \E d \in 1..(c - 1) :
                         commands[d].source = inputs[i] /\ commands[d].product = read
  BY DEF LinkOrder
<1>1. Live /\ pc \in Linked /\ CompiledTo = Len(inputs) /\ LinkedTo = Len(inputs)
  BY DEF Planned, Live, Linked, CompiledTo, LinkedTo, Checked
<1>2. Linking /\ c = Len(commands)
  BY <1>1, CommandOf DEF Built, Compiles, Squeezes
<1>3. Placed(i) /\ LastReads = commands[c].reads
  BY <1>1, <1>2 DEF PlanInv, LinkInv, LastReads
<1>4. CASE IsSource(inputs[i])
  <2> DEFINE d == First(i)
  <2>1. Built(i) /\ d \in 1..Runs(Rank(CompiledTo))
    BY <1>1, <1>4, SourceCommands
  <2>2. commands[d].source = inputs[i] /\ commands[d].product = objects[Rank(i)]
    BY <1>2, <2>1 DEF Built, Compiles
  <2>3. LastReads[Len(StartFiles) + i] = objects[Rank(i)]
    BY <1>3, <1>4 DEF Placed, IsSource
  <2>4. d \in 1..(c - 1)
    BY <1>1, <1>2, <2>1, CommandCount
  <2> QED
    BY <1>3, <2>2, <2>3, <2>4
<1>5. CASE ~ IsSource(inputs[i])
  BY <1>3, <1>5 DEF Placed
<1> QED
  BY <1>4, <1>5

(* the commands and outputs of each source, *)
LEMMA SourcesFit == ASSUME PlanInv PROVE SourcesDelivered
<1> DEFINE runs(tools, i) == {c \in 1..Len(commands) :
                                commands[c].tool \in tools /\ commands[c].source = inputs[i]}
<1> SUFFICES ASSUME Planned, NEW i \in Chosen({"c", "asm"})
             PROVE  \E c \in 1..Len(commands) :
                      /\ runs({"cc", "as"}, i) = {c}
                      /\ runs({"sqz"}, i) = IF request.squeeze THEN {c + 1} ELSE {}
                      /\ \/ Linking
                         \/ \E o \in 1..Len(outputs) : outputs[o].product = commands[c].product
  BY DEF SourcesDelivered
<1>1. /\ Live /\ pc \in Linked /\ CompiledTo = Len(inputs) /\ CheckedTo = Len(inputs)
  BY DEF Planned, Live, Linked, CompiledTo, CheckedTo, Checked
<1>2. i \in 1..CompiledTo /\ IsSource(inputs[i])
  BY <1>1 DEF Chosen, IsSource
<1> DEFINE first == First(i)
<1>3. /\ Built(i) /\ first \in 1..Len(commands)
      /\ request.squeeze => first + 1 \in 1..Len(commands)
      /\ Rank(i) \in 1..Rank(CompiledTo)
  <2>1. \A x : \A n \in Nat, m \in Nat : n <= m /\ x \in 1..n => x \in 1..m
    OBVIOUS
  <2> QED
    BY <1>1, <1>2, <2>1, SourceCommands, CommandCount
<1>4. ASSUME NEW j \in 1..CompiledTo, IsSource(inputs[j]), inputs[j] = inputs[i]
      PROVE  j = i
  <2>1. /\ \A k \in 1..(i - 1) : inputs[k] # inputs[i]
        /\ \A k \in 1..(j - 1) : inputs[k] # inputs[j]
    BY <1>1, <1>2, <1>4 DEF PlanInv, CheckInv, IsSource
  <2>2. i \in Nat /\ j \in Nat /\ i >= 1 /\ j >= 1
    BY <1>2, CommandCount, <1>1
  <2>3. i \in 1..(j - 1) \/ j \in 1..(i - 1) \/ i = j
    BY <2>2
  <2> QED
    BY <1>4, <2>1, <2>3
<1>5. ASSUME NEW c \in 1..Len(commands), commands[c].source = inputs[i], commands[c].tool # "ln"
      PROVE  \/ commands[c].tool \in {"cc", "as"} /\ c = first
             \/ commands[c].tool = "sqz" /\ c = first + 1 /\ request.squeeze
  <2>1. ~ (Linking /\ pc \in Linked /\ c = Len(commands))
    BY <1>5 DEF PlanInv, LinkInv
  <2>2. ASSUME NEW j \in 1..CompiledTo, IsSource(inputs[j]), Built(j), c = First(j)
        PROVE  commands[c].tool \in {"cc", "as"} /\ c = first
    <3>1. commands[c].tool \in {"cc", "as"} /\ commands[c].source = inputs[j]
      BY <2>2 DEF Built, Compiles
    <3> QED
      BY <1>4, <1>5, <2>2, <3>1
  <2>3. ASSUME NEW j \in 1..CompiledTo, IsSource(inputs[j]), Built(j), request.squeeze,
               c = First(j) + 1
        PROVE  commands[c].tool = "sqz" /\ c = first + 1
    <3>1. commands[c].tool = "sqz" /\ commands[c].source = inputs[j]
      BY <2>3 DEF Built, Squeezes
    <3> QED
      BY <1>4, <1>5, <2>3, <3>1
  <2> HIDE DEF first
  <2> QED
    BY <1>1, <2>1, <2>2, <2>3, CommandOf
<1>6. /\ commands[first].tool \in {"cc", "as"} /\ commands[first].source = inputs[i]
      /\ request.squeeze => /\ commands[first + 1].tool = "sqz"
                            /\ commands[first + 1].source = inputs[i]
      /\ Linking \/ outputs[Rank(i)].product = commands[first].product
  BY <1>3 DEF Built, Compiles, Squeezes
<1> HIDE DEF first
<1>7. runs({"cc", "as"}, i) = {first}
  BY <1>3, <1>5, <1>6
<1>8. runs({"sqz"}, i) = IF request.squeeze THEN {first + 1} ELSE {}
  BY <1>3, <1>5, <1>6
<1>9. Linking \/ \E o \in 1..Len(outputs) : outputs[o].product = commands[first].product
  <2>1. ~ Linking => Len(outputs) = Rank(CompiledTo)
    BY <1>1 DEF PlanInv, CompileInv
  <2> QED
    BY <1>3, <1>6, <2>1
<1> QED
  BY <1>3, <1>7, <1>8, <1>9

(* that something is made, *)
LEMMA SomethingIsMade ==
  ASSUME PlanInv, Planned
  PROVE  commands # << >> /\ outputs # << >>
<1>1. Live /\ pc \in Linked /\ CompiledTo = Len(inputs) /\ CheckedTo = Len(inputs) /\ pc \in Checked
  BY DEF Planned, Live, Linked, CompiledTo, CheckedTo, Checked
<1>2. CASE Linking
  <2>1. Len(commands) >= 1
    BY <1>1, <1>2, CommandCount
  <2>2. commands # << >>
    BY <2>1
  <2> QED
    BY <1>1, <1>2, <2>2 DEF PlanInv, NamedOutputs
<1>3. CASE ~ Linking
  <2>1. PICK i \in 1..Len(inputs) : IsSource(inputs[i])
    <3>1. PICK i : i \in Chosen({"c", "asm", "object", "list"})
      BY <1>1 DEF PlanInv, CheckInv
    <3> QED
      BY <1>1, <1>3, <3>1 DEF PlanInv, CheckInv, Chosen
  <2>2. /\ Rank(i) \in 1..Rank(CompiledTo) /\ First(i) \in 1..Runs(Rank(CompiledTo))
    BY <1>1, <2>1, SourceCommands
  <2>3. Len(outputs) = Rank(CompiledTo)
    BY <1>1, <1>3 DEF PlanInv, CompileInv
  <2>4. Len(commands) >= 1 /\ Len(outputs) >= 1
    BY <1>1, <1>3, <2>2, <2>3, CommandCount
  <2> QED
    BY <2>4
<1> QED
  BY <1>2, <1>3

(* that a workspace file that is read has been written, *)
LEMMA ReadIsWritten ==
  ASSUME WorkspaceIsApart, PlanInv, Planned, NEW c \in 1..Len(commands), NEW k \in 1..ListLimit,
         k <= Len(commands[c].reads), commands[c].reads[k].dir = "E"
  PROVE  \E d \in 1..(c - 1) : commands[c].reads[k] \in Writes(d)
<1>1. /\ Live /\ pc \in Linked /\ CompiledTo = Len(inputs) /\ k \in Nat \ {0}
      /\ \A d : commands[d].product \in Writes(d)
  BY LimitsAreNat DEF Planned, Live, Linked, CompiledTo, Checked, Writes
<1>2. ASSUME NEW i \in 1..CompiledTo, IsSource(inputs[i]), Built(i), c = First(i)
      PROVE  FALSE
  <2>1. commands[c].reads = << inputs[i] >>
    BY <1>2 DEF Built, Compiles
  <2>2. Len(<< inputs[i] >>) = 1 /\ << inputs[i] >>[1] = inputs[i]
    OBVIOUS
  <2>3. k = 1 /\ commands[c].reads[k] = inputs[i]
    BY <1>1, <2>1, <2>2
  <2> QED
    BY <1>1, <2>3 DEF PlanInv, ApartInv
<1>3. ASSUME NEW i \in 1..CompiledTo, IsSource(inputs[i]), Built(i),
             request.squeeze, c = First(i) + 1
      PROVE  \E d \in 1..(c - 1) : commands[c].reads[k] \in Writes(d)
  <2> DEFINE d == First(i)
             product == commands[d].product
  <2>1. commands[c].reads = << product >>
    BY <1>3 DEF Built, Squeezes
  <2>2. Len(<< product >>) = 1 /\ << product >>[1] = product
    OBVIOUS
  <2>3. k = 1 /\ commands[c].reads[k] = product
    BY <1>1, <2>1, <2>2
  <2>4. d \in 1..Runs(Rank(CompiledTo)) /\ c = d + 1
    BY <1>1, <1>3, SourceCommands
  <2> HIDE DEF d
  <2>5. d \in 1..(c - 1)
    BY <1>1, <2>4, CommandCount
  <2> QED
    BY <1>1, <2>3, <2>5
<1>4. ASSUME Linking, c = Len(commands)
      PROVE  \E d \in 1..(c - 1) : commands[c].reads[k] \in Writes(d)
  <2>1. commands[c] \in CommandType
    <3>1. commands \in Seq(CommandType)
      BY DEF PlanInv, TypeInv, TypeOK, CommandType
    <3> QED
      BY <3>1
  <2>2. commands[c].reads \in Seq(Files) /\ LastReads = commands[c].reads
    BY <1>4, <2>1 DEF LastReads, CommandType
  <2>3. k \in 1..Len(LastReads)
    BY <1>1, <2>2
  <2>4. \E o \in 1..Len(objects) : LastReads[k] = objects[o]
    BY <1>1, <1>4, <2>2, <2>3 DEF PlanInv, LinkInv, FromDisk
  <2>5. PICK i \in 1..CompiledTo : /\ IsSource(inputs[i])
                                   /\ LastReads[k] = commands[First(i)].product
    BY <1>1, <1>4, <2>4, ObjectOf
  <2>6. First(i) \in 1..(c - 1)
    BY <1>1, <1>4, <2>5, SourceCommands, CommandCount
  <2> QED
    BY <1>1, <2>2, <2>5, <2>6
<1> QED
  BY <1>1, <1>2, <1>3, <1>4, CommandOf

(* and that what is published has been. *)
LEMMA OutputIsWritten ==
  ASSUME SafeInv, TempInv, PlanInv, Planned, NEW o \in 1..Len(outputs)
  PROVE  \E c \in 1..Len(commands) : outputs[o].product \in Writes(c)
<1>1. /\ Live /\ pc \in Linked /\ CompiledTo = Len(inputs)
      /\ \A d : commands[d].product \in Writes(d)
  BY DEF Planned, Live, Linked, CompiledTo, Checked, Writes
<1>2. CASE Linking
  <2> DEFINE c == Len(commands)
  <2>1. c \in 1..Len(commands)
    BY <1>1, <1>2, CommandCount
  <2>2. commands[c].tool = "ln" /\ commands[c].product = LinkProduct
    BY <1>1, <1>2 DEF PlanInv, LinkInv
  <2>3. /\ outputs[o].product = WithSuffix(LinkProduct, outputs[o].host.suffix)
        /\ \A q \in 1..Len(outputs) :
             outputs[q].product = WithSuffix(LinkProduct, outputs[q].host.suffix)
    BY <1>2 DEF TempInv, LinkedOutputs
  <2>4. 1 \in 1..Len(outputs)
    BY DEF SafeInv, OutputInv, Typed
  <2>5. outputs[1].host = LinkOutput
    BY <1>1, <1>2 DEF PlanInv, NamedOutputs
  <2>6. LinkProduct = WithSuffix(LinkProduct, LinkOutput.suffix)
    BY <2>3, <2>4, <2>5 DEF LinkProduct
  <2>7. outputs[o].host.suffix \in {LinkOutput.suffix} \union SideSuffixes
    BY <1>1, <1>2 DEF PlanInv, NamedOutputs
  <2> HIDE DEF c
  <2>8. CASE outputs[o].host.suffix = LinkOutput.suffix
    BY <1>1, <2>1, <2>2, <2>3, <2>6, <2>8
  <2>9. CASE outputs[o].host.suffix \in SideSuffixes
    <3>1. WithSuffix(commands[c].product, outputs[o].host.suffix) \in Writes(c)
      BY <2>2, <2>9 DEF Writes, SideSuffixes
    <3> QED
      BY <2>1, <2>2, <2>3, <3>1
  <2> QED
    BY <2>7, <2>8, <2>9
<1>3. CASE ~ Linking
  <2>1. Len(outputs) = Rank(CompiledTo) /\ SourceAt(o)
    BY <1>1, <1>3 DEF PlanInv, CompileInv
  <2>2. PICK i \in 1..CompiledTo : IsSource(inputs[i]) /\ Rank(i) = o
    BY <2>1 DEF SourceAt
  <2>3. Built(i) /\ First(i) \in 1..Runs(Rank(CompiledTo))
    BY <1>1, <2>2, SourceCommands
  <2>4. First(i) \in 1..Len(commands)
    BY <1>1, <1>3, <2>3, CommandCount
  <2>5. outputs[o].product = commands[First(i)].product
    BY <1>3, <2>2, <2>3 DEF Built
  <2> QED
    BY <1>1, <2>4, <2>5
<1> QED
  BY <1>2, <1>3

(* Together: the plan can be executed. *)
LEMMA CommandsDoFit ==
  ASSUME WorkspaceIsApart, SafeInv, TempInv, PlanInv
  PROVE  CommandsFit
<1>1. ReadsWhatWasWritten
  BY SomethingIsMade, ReadIsWritten, OutputIsWritten DEF ReadsWhatWasWritten
<1> QED
  BY <1>1, SourcesFit DEF CommandsFit

(* The invariant holds of every behaviour. *)
LEMMA PlanInvariant == Spec => [](SafeInv /\ TempInv /\ PlanInv)
<1>1. Init => SafeInv /\ TempInv /\ PlanInv
  BY SafeInit, TempInit, PlanInit
<1>2. SafeInv /\ TempInv /\ PlanInv /\ [Next]_vars => (SafeInv /\ TempInv /\ PlanInv)'
  BY SafeStep, TempStep, PlanStep
<1> QED
  BY <1>1, <1>2, PTL DEF Spec

(* For every request and every file system: every variable holds what it     *)
(* should, the counter of temporaries stays in its limit and no list outgrows *)
(* its capacity (temp_name, add_word).                                       *)
THEOREM PlanIsTyped == Spec => []TypeOK
<1>1. PlanInv => TypeOK
  BY DEF PlanInv, TypeInv
<1> QED
  BY <1>1, PlanInvariant, PTL

(* For every request: a linked image is of the system its suffix names and of *)
(* the target the user gave (resolve_target, link_inputs).                   *)
THEOREM ImagesMatch == Spec => []ImageMatchesTarget
<1>1. PlanInv => ImageMatchesTarget
  BY ImageFits
<1> QED
  BY <1>1, PlanInvariant, PTL

(* For every request: the linker gets every input at the user's place, a source *)
(* as the object compiled from it and a file as itself (link_inputs).        *)
THEOREM LinksAreInOrder == Spec => []LinkOrder
<1>1. PlanInv => LinkOrder
  BY OrderFits
<1> QED
  BY <1>1, PlanInvariant, PTL

(* For every request: each source is compiled once, squeezed once before its *)
(* object is used, and has its output if there is no link (compile_input).   *)
THEOREM SourcesAreDelivered == Spec => []SourcesDelivered
<1>1. PlanInv => SourcesDelivered
  BY SourcesFit
<1> QED
  BY <1>1, PlanInvariant, PTL

(* For every request and file system whose names are outside the workspace: a *)
(* plan can be executed in an empty workspace, each command reading only what *)
(* an earlier one wrote, and what is published has been written.             *)
THEOREM CommandsAlwaysFit == ASSUME WorkspaceIsApart PROVE Spec => []CommandsFit
<1>1. SafeInv /\ TempInv /\ PlanInv => CommandsFit
  BY CommandsDoFit
<1> QED
  BY <1>1, PlanInvariant, PTL

(* For the same requests: publishing replaces no file that a command reads, the *)
(* libraries found through -l, the stock files and the overlay table included. *)
THEOREM ReadsAreKept == ASSUME WorkspaceIsApart PROVE Spec => []NothingReadIsReplaced
<1>1. SafeInv /\ PlanInv /\ Live => NothingReadIsReplaced
  BY ReadsKept
<1>2. NothingReadIsReplaced /\ PlanInv /\ [Next]_vars /\ ~ Live' => NothingReadIsReplaced'
  BY ReadsKeptAtEnd
<1>3. Init => Live
  BY DEF Init, Live
<1> QED
  BY <1>1, <1>2, <1>3, PlanInvariant, PTL DEF Spec
=============================================================================
