----------------------------- MODULE AccPathDos -----------------------------
(***************************************************************************)
(* src/aztec43-acc/path.c on DOS: path_canonical, which has no realpath,    *)
(* prefixes the drive and its current directory and folds "." and ".." by   *)
(* moving a write pointer over the text it has produced.                    *)
(*                                                                          *)
(* Texts are sequences of characters; the file system is a set of           *)
(* directories, each the sequence of the names that lead to it.             *)
(***************************************************************************)
EXTENDS Naturals, Sequences, SequencesExt

CONSTANTS
  Texts,         \* paths the user may write, without their drive
  Drives,        \* drives that exist
  Directories,   \* directories, the same on every drive
  ACC_PATH,      \* bytes of a path, with its terminator
  NotADrive,     \* a letter without a drive
  NoDrive        \* the path names no drive

(* A name a directory can have on a DOS disk.                                *)
DirectoryName(name) ==
  /\ name \in Seq(STRING \ {"/", "\\"})
  /\ name \notin {<<>>, <<".">>, <<".", ".">>}

DosAssumption ==
  /\ Texts \subseteq Seq(STRING)
  /\ <<>> \in Directories
  /\ \A d \in Directories : d \in Seq(Seq(STRING)) /\ \A i \in DOMAIN d : DirectoryName(d[i])
  /\ ACC_PATH \in Nat \ {0}
  /\ Drives \cup {NotADrive} \subseteq STRING \ {"/", "\\", "."}
  /\ NoDrive # NotADrive /\ {NoDrive, NotADrive} \cap Drives = {}

VARIABLES
  phase,         \* "start", "fold", "parent", "accepted" or "refused"
  given,         \* the path: its drive, if any, and its text
  output,        \* the path is an output: it may be missing, not its parent
  current,       \* the current drive
  cwd,           \* the current directory of each drive
  combined, read, out

vars == <<phase, given, output, current, cwd, combined, read, out>>
request == <<given, output, current, cwd>>

IsSeparator(c) == c \in {"/", "\\"}
Backslashed(text) == [i \in DOMAIN text |-> IF text[i] = "/" THEN "\\" ELSE text[i]]

(* What DOS reports as a current directory: its names with backslashes.      *)
Spell(names) ==
  FlattenSeq([i \in DOMAIN names |->
                IF i = 1 THEN names[i] ELSE <<"\\">> \o names[i]])

Root(drive) == <<drive, ":", "\\">>

Init ==
  /\ phase = "start"
  /\ given \in [drive : Drives \cup {NoDrive, NotADrive}, text : Texts]
  /\ output \in BOOLEAN
  /\ current \in Drives
  /\ \E d \in Directories : cwd = [x \in Drives |-> IF x = current THEN d ELSE <<>>]
  /\ combined = <<>> /\ read = 1 /\ out = <<>>

(* path_join: a separator unless the parent ends with one, every slash a     *)
(* backslash.                                                                *)
Join(parent, name) ==
  Backslashed(IF parent = <<>> \/ IsSeparator(Last(parent))
              THEN parent \o name ELSE parent \o <<"\\">> \o name)
Fits(parent, name) == Len(parent) + Len(name) + 2 <= ACC_PATH

Drive == IF given.drive = NoDrive THEN current ELSE given.drive
IsAbsolute == given.text # <<>> /\ IsSeparator(Head(given.text))

Refuse == phase' = "refused" /\ UNCHANGED <<request, combined, read, out>>

(* mutant: a relative path is taken from the current drive's directory *)
BaseOfCurrent == Join(Root(Drive), Spell(cwd[current]))

Base == Join(Root(Drive), Spell(cwd[Drive]))

Combine ==
  /\ phase = "start"
  /\ IF Len(given.text) >= ACC_PATH THEN Refuse
     ELSE IF IsAbsolute
     THEN IF ~Fits(Root(Drive), Tail(given.text)) THEN Refuse
          ELSE /\ combined' = Join(Root(Drive), Tail(given.text))
               /\ out' = Root(Drive) /\ read' = 4 /\ phase' = "fold"
               /\ UNCHANGED request
     ELSE IF Drive \notin Drives \/ ~Fits(Root(Drive), Spell(cwd[Drive]))
             \/ ~Fits(Base, given.text) THEN Refuse
          ELSE /\ combined' = Join(Base, given.text)
               /\ out' = Root(Drive) /\ read' = 4 /\ phase' = "fold"
               /\ UNCHANGED request

(* Where the component that starts at read ends.                             *)
End == CHOOSE e \in (read - 1) .. Len(combined) :
         /\ \A i \in read .. e : combined[i] # "\\"
         /\ e = Len(combined) \/ combined[e + 1] = "\\"
Component == SubSeq(combined, read, End)

(* The write pointer goes back to the last separator, but not into the root. *)
WithoutLast(text) ==
  LET n == CHOOSE n \in 3 .. Len(text) :
             /\ n = 3 \/ text[n] = "\\"
             /\ \A i \in (n + 1) .. Len(text) : text[i] # "\\"
  IN SubSeq(text, 1, IF n > 3 THEN n - 1 ELSE n)

FoldComponent ==
  /\ phase = "fold" /\ read <= Len(combined)
  /\ out' = CASE Component = <<".", ".">> -> WithoutLast(out)
              [] Component \in {<<>>, <<".">>} -> out
              [] OTHER -> (IF Len(out) > 3 THEN out \o <<"\\">> ELSE out) \o Component
  /\ read' = IF End < Len(combined) THEN End + 2 ELSE End + 1
  /\ UNCHANGED <<phase, request, combined>>

EndFold ==
  /\ phase = "fold" /\ read > Len(combined)
  /\ phase' = IF output /\ Len(out) > 3 THEN "parent" ELSE "accepted"
  /\ UNCHANGED <<request, combined, read, out>>

(* path_is_directory; the root of a drive cannot be found as a file and is   *)
(* asked for its current directory instead.                                  *)
IsDirectory(text) ==
  /\ text[1] \in Drives
  /\ Len(text) = 3 \/ \E d \in Directories : Root(text[1]) \o Spell(d) = text

Parent == WithoutLast(out)

CheckParent ==
  /\ phase = "parent"
  /\ IF IsDirectory(Parent)
     THEN phase' = "accepted" /\ UNCHANGED <<request, combined, read, out>>
     ELSE Refuse

Next == Combine \/ FoldComponent \/ EndFold \/ CheckParent

Spec == Init /\ [][Next]_vars

-----------------------------------------------------------------------------
(***************************************************************************)
(* Properties                                                              *)
(***************************************************************************)

(* What a text means from a directory, read from the left: a name ends at a  *)
(* separator or with the text; an empty one and "." lead nowhere, ".." leads  *)
(* to the parent, and every other one to what has that name.                  *)
Enter(at, name) ==
  IF name = <<".", ".">> THEN (IF at = <<>> THEN at ELSE Front(at))
  ELSE IF name \in {<<>>, <<".">>} THEN at
  ELSE Append(at, name)

Reading(from, text) ==
  LET reading[i \in 0 .. Len(text)] ==
        IF i = 0 THEN [at |-> from, name |-> <<>>]
        ELSE IF IsSeparator(text[i])
        THEN [at |-> Enter(reading[i - 1].at, reading[i - 1].name), name |-> <<>>]
        ELSE [at |-> reading[i - 1].at, name |-> Append(reading[i - 1].name, text[i])]
  IN reading

Walk(from, text) ==
  LET end == Reading(from, text)[Len(text)] IN Enter(end.at, end.name)

Meant == Walk(IF IsAbsolute THEN <<>> ELSE cwd[Drive], given.text)

(* What has been written never leaves the drive's root, has no empty name    *)
(* and never outgrows its buffer.                                            *)
TypeOK ==
  /\ phase \in {"start", "fold", "parent", "accepted", "refused"}
  /\ read \in 1 .. (Len(combined) + 1)
  /\ Len(combined) < ACC_PATH /\ Len(out) < ACC_PATH
  /\ out # <<>> =>
       /\ SubSeq(out, 1, 3) = Root(Drive)
       /\ Len(out) > 3 => Last(out) # "\\"

(* path.c:133-135: the result names what the path means from the current     *)
(* directory of its drive, in its one normal form; ".." stops at the root.   *)
CanonicalIsNormal ==
  phase = "accepted" => out = Root(Drive) \o Spell(Meant)

(* path.c:131, "its parent directory must" exist: an output is refused       *)
(* exactly when the directory it would be created in is not there, be it the *)
(* root of a drive; other paths are refused only when they do not fit.       *)
Short == Len(Spell(cwd[current])) + Len(given.text) + 5 <= ACC_PATH
HasParent == Meant = <<>> \/ Front(Meant) \in Directories

OutputNeedsItsParent ==
  /\ phase = "accepted" /\ output /\ Meant # <<>> => Drive \in Drives /\ HasParent
  /\ phase = "refused" /\ Short /\ Drive \in Drives => output /\ ~HasParent
=============================================================================
