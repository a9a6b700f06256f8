------------------------------- MODULE AccPath -------------------------------
(***************************************************************************)
(* src/aztec43-acc/path.c: path_guest turns a host path into the name under *)
(* which the DOS tools see the file, or refuses.                            *)
(*                                                                          *)
(* The two builds differ in the first half.  On Unix the path is made       *)
(* canonical by realpath and given the drive of an anchor: the emulator maps *)
(* D: to the tool root and C: to the invocation directory (execunix.c        *)
(* 276-282).  On DOS path_canonical folds it (AccPathDos) and the result is  *)
(* already the guest path.  The second half, a scan over the characters, is  *)
(* shared.                                                                   *)
(*                                                                          *)
(* Host and guest paths are sequences of characters, because every decision *)
(* is taken on their characters; the alphabet is a small one with a member  *)
(* for every case.  The names a path is made of are kept beside it as       *)
(* history: the properties are stated on them.                              *)
(***************************************************************************)
EXTENDS Naturals, Sequences, SequencesExt, Folds

CONSTANTS
  Names,          \* names of files and directories, sequences of characters
  Roots, Cwds,    \* canonical locations of the tool root and of the cwd
  Locations,      \* canonical locations paths may resolve to
  Devices,        \* reserved DOS names, in upper case (CON, PRN, COM1, ...)
  Unsafe,         \* characters DOS cannot have in a name
  Upper,          \* upper case form of the letters (toupper, tolower)
  BASE, EXT,      \* longest base name and extension (8, 3)
  LIMIT,          \* DOS_PATH_LIMIT, without terminator (63)
  ACC_PATH,       \* bytes of a host path, with its terminator (1024)
  Calls,          \* paths the planner maps, one after the other
  Families,       \* bound: sets of locations that are mapped together
  Texts, Drives, Directories, NotADrive, NoDrive       \* see AccPathDos

ASSUME AccPathAssumption ==
  /\ Names \subseteq Seq(STRING \ {"/"}) /\ <<>> \notin Names
  /\ Roots \subseteq Seq(Names) /\ Cwds \subseteq Seq(Names)
  /\ Locations \subseteq Seq(Names) /\ UNION Families \subseteq Locations
  /\ {BASE, EXT, LIMIT, ACC_PATH, Calls} \subseteq Nat
  /\ BASE # 0 /\ LIMIT < ACC_PATH
  /\ <<>> \notin Devices
  /\ ({"C", "D", NotADrive} \cup Drives) \cap Unsafe = {}

VARIABLES
  phase,          \* "idle", "canonical", "anchor", "scan" or "refused"
  map,            \* path_map_t: the names of root and cwd
  host,           \* the argument: how the file system resolves it
  resolved,       \* path_canonical's result
  out, p,         \* the guest path and the character the scan is at
  base, ext, dot, \* counters of the scan's component
  mapped,         \* history: the paths mapped, with their guest names
  system,         \* the build: "unix" or "dos"
  folding, given, output, current, dosCwd, combined, read, folded
                  \* path_canonical on DOS, see AccPathDos

scan == <<p, base, ext, dot>>
dos == <<folding, given, output, current, dosCwd, combined, read, folded>>
ctx == <<map, system, dos>>
vars == <<phase, host, resolved, out, scan, mapped, ctx>>

Dos == INSTANCE AccPathDos WITH phase <- folding, cwd <- dosCwd, out <- folded

ASSUME DosPathAssumption == Dos!DosAssumption

(* The canonical spelling of a location.                                     *)
Spell(names) ==
  IF names = <<>> THEN <<"/">>
  ELSE FlattenSeq([i \in DOMAIN names |-> <<"/">> \o names[i]])

Fold(text) == [i \in DOMAIN text |-> IF text[i] \in DOMAIN Upper
                                     THEN Upper[text[i]] ELSE text[i]]

(* On Unix the planner calls again and again; on DOS, where a call depends   *)
(* on nothing an earlier one has left, path_canonical is given one path.     *)
UnixInit ==
  /\ system = "unix" /\ phase = "idle"
  /\ map \in [root : Roots, cwd : Cwds]
  /\ folding = "none" /\ given = [drive |-> NoDrive, text |-> <<>>] /\ output = FALSE
  /\ current = NoDrive /\ dosCwd = <<>>
  /\ combined = <<>> /\ read = 1 /\ folded = <<>>

DosInit ==
  /\ system = "dos" /\ phase = "canonical"
  /\ map = [root |-> <<>>, cwd |-> <<>>]
  /\ Dos!Init

Init ==
  /\ UnixInit \/ DosInit
  /\ host = [is |-> "none", names |-> <<>>]
  /\ resolved = <<>> /\ out = <<>> /\ p = 1
  /\ base = 0 /\ ext = 0 /\ dot = FALSE
  /\ mapped = <<>>

Together ==
  UNION {f \in Families : \A k \in DOMAIN mapped : mapped[k].names \in f}

(* What realpath and lstat say of the argument: it exists and is this        *)
(* location, it is missing but its parent exists, there is a link that leads *)
(* nowhere, or the parent does not exist either.                             *)
Call ==
  /\ phase = "idle" /\ system = "unix" /\ Len(mapped) < Calls
  /\ \E n \in Together :
       host' \in [is : {"exists", "dangling", "orphan"}
                       \cup (IF n = <<>> THEN {} ELSE {"missing"}), names : {n}]
  /\ phase' = "canonical"
  /\ UNCHANGED <<ctx, resolved, out, scan, mapped>>

(* path_join: a separator unless the parent ends with one.                   *)
Join(parent, name) ==
  IF parent # <<>> /\ Last(parent) \in {"/", "\\"}
  THEN parent \o name ELSE parent \o <<"/">> \o name

Canonical ==
  IF host.is = "missing" THEN Join(Spell(Front(host.names)), Last(host.names))
  ELSE Spell(host.names)

Unresolvable == host.is \in {"dangling", "orphan"}

(* Paths and names that do not fit; path_join counts its separator always.   *)
TooLong ==
  IF host.is = "missing"
  THEN Len(Spell(Front(host.names))) + Len(Last(host.names)) + 2 > ACC_PATH
  ELSE Len(Spell(host.names)) >= ACC_PATH

Refuse == phase' = "refused" /\ UNCHANGED <<ctx, host, resolved, out, scan, mapped>>

ResolvePath ==
  /\ phase = "canonical" /\ system = "unix"
  /\ IF Unresolvable \/ TooLong THEN Refuse
     ELSE /\ resolved' = Canonical
          /\ phase' = "anchor"
          /\ UNCHANGED <<ctx, host, out, scan, mapped>>

(* mutant: a name that begins like the root lies below it *)
WithinByPrefix(path, root) == IsPrefix(root, path)

(* within: the path is the root, or goes on with a separator.                *)
Within(path, root) ==
  /\ IsPrefix(root, path)
  /\ root = <<"/">> \/ Len(path) = Len(root) \/ path[Len(root) + 1] = "/"

(* What follows the root and the separator.                                  *)
Below(path, root) ==
  SubSeq(path, Len(root) + (IF root = <<"/">> THEN 1 ELSE 2), Len(path))

(* The deeper of two nested anchors wins.                                    *)
InRoot ==
  /\ Within(resolved, Spell(map.root))
  /\ \/ Len(Spell(map.root)) >= Len(Spell(map.cwd))
     \/ ~Within(resolved, Spell(map.cwd))

InCwd == Within(resolved, Spell(map.cwd)) /\ ~InRoot

Drive    == IF InRoot THEN <<"D", ":", "\\">> ELSE <<"C", ":", "\\">>
Relative == IF InRoot THEN Below(resolved, Spell(map.root))
            ELSE Below(resolved, Spell(map.cwd))

ChooseAnchor ==
  /\ phase = "anchor"
  /\ IF \/ ~InRoot /\ ~InCwd
        \/ Len(Relative) + 4 > ACC_PATH
        \/ Contains(Relative, "\\")
     THEN Refuse
     ELSE /\ out' = Drive \o Relative
          /\ p' = 1 /\ base' = 0 /\ ext' = 0 /\ dot' = FALSE
          /\ phase' = "scan"
          /\ UNCHANGED <<ctx, host, resolved, mapped>>

(* path_canonical on DOS, one step at a time; path_guest calls it for an     *)
(* output, whose canonical path is then scanned as it is.                    *)
FoldPath ==
  /\ phase = "canonical" /\ system = "dos"
  /\ Dos!Next
  /\ UNCHANGED <<phase, map, system, host, resolved, out, scan, mapped>>

ScanCanonical ==
  /\ phase = "canonical" /\ system = "dos" /\ output
  /\ folding = "accepted"
  /\ out' = folded
  /\ p' = 1 /\ base' = 0 /\ ext' = 0 /\ dot' = FALSE
  /\ phase' = "scan"
  /\ UNCHANGED <<ctx, host, resolved, mapped>>

(* The base name of the component that ends before p.                        *)
BaseName ==
  LET start == p - base - ext - (IF dot THEN 1 ELSE 0)
  IN Fold(SubSeq(out, start, start + base - 1))

(* mutant: devices are recognised in upper case only *)
AliasUpper ==
  LET start == p - base - ext - (IF dot THEN 1 ELSE 0)
  IN \/ dot /\ (base = 0 \/ ext = 0)
     \/ SubSeq(out, start, start + base - 1) \in Devices

(* dos_component refuses: a name or an extension left empty beside a dot, a  *)
(* reserved device, whatever its extension.                                  *)
Alias == (dot /\ (base = 0 \/ ext = 0)) \/ BaseName \in Devices

ScanDrive ==
  /\ phase = "scan" /\ p <= Len(out) /\ out[p] = ":" /\ p = 2
  /\ base' = 0 /\ p' = p + 1
  /\ UNCHANGED <<phase, ctx, host, resolved, out, ext, dot, mapped>>

ScanSeparator ==
  /\ phase = "scan" /\ p <= Len(out) /\ out[p] \in {"/", "\\"}
  /\ IF Alias THEN Refuse
     ELSE /\ out' = [out EXCEPT ![p] = "\\"]
          /\ base' = 0 /\ ext' = 0 /\ dot' = FALSE /\ p' = p + 1
          /\ UNCHANGED <<phase, ctx, host, resolved, mapped>>

ScanDot ==
  /\ phase = "scan" /\ p <= Len(out) /\ out[p] = "."
  /\ IF dot THEN Refuse
     ELSE /\ dot' = TRUE /\ p' = p + 1
          /\ UNCHANGED <<phase, ctx, host, resolved, out, base, ext, mapped>>

Ordinary(c) == c \notin {"/", "\\", "."}

ScanCharacter ==
  /\ phase = "scan" /\ p <= Len(out) /\ Ordinary(out[p])
  /\ ~(out[p] = ":" /\ p = 2)
  /\ IF \/ out[p] \in Unsafe
        \/ ~dot /\ base + 1 > BASE
        \/ dot /\ ext + 1 > EXT
     THEN Refuse
     ELSE /\ base' = IF dot THEN base ELSE base + 1
          /\ ext'  = IF dot THEN ext + 1 ELSE ext
          /\ p' = p + 1
          /\ UNCHANGED <<phase, ctx, host, resolved, out, dot, mapped>>

(* The location that is being mapped, whatever the code does to find it.     *)
Meant == IF system = "unix" THEN host.names ELSE Dos!Meant

EndScan ==
  /\ phase = "scan" /\ p > Len(out)
  /\ IF Len(out) > LIMIT \/ Alias THEN Refuse
     ELSE /\ mapped' = Append(mapped, [names |-> Meant, guest |-> out])
          /\ phase' = "idle"
          /\ UNCHANGED <<ctx, host, resolved, out, scan>>

Next ==
  \/ Call \/ ResolvePath \/ ChooseAnchor
  \/ FoldPath \/ ScanCanonical
  \/ ScanDrive \/ ScanSeparator \/ ScanDot \/ ScanCharacter \/ EndScan

Spec == Init /\ [][Next]_vars

-----------------------------------------------------------------------------
(***************************************************************************)
(* Properties                                                              *)
(***************************************************************************)

(* A name DOS has exactly: a base of 1 to 8 characters, or one with a dot    *)
(* and 1 to 3 characters after it, that is not a device.                     *)
Plain(text, longest) ==
  /\ Len(text) \in 1 .. longest
  /\ \A i \in DOMAIN text : text[i] \notin Unsafe \cup {".", "\\"}

DosName(name) ==
  \/ Plain(name, BASE) /\ Fold(name) \notin Devices
  \/ \E d \in 2 .. (Len(name) - 1) :
       /\ name[d] = "."
       /\ Plain(SubSeq(name, 1, d - 1), BASE)
       /\ Plain(SubSeq(name, d + 1, Len(name)), EXT)
       /\ Fold(SubSeq(name, 1, d - 1)) \notin Devices

(* The anchor with most names among those the location lies in.              *)
Anchors == IF system = "unix" THEN {map.root, map.cwd} ELSE {<<>>}
Deepest(names) ==
  CHOOSE a \in {b \in Anchors : IsPrefix(b, names)} :
    \A b \in {b \in Anchors : IsPrefix(b, names)} : Len(b) <= Len(a)

Rest(names) == SubSeq(names, Len(Deepest(names)) + 1, Len(names))

Representable(names) ==
  /\ \E a \in Anchors : IsPrefix(a, names)
  /\ \A i \in DOMAIN Rest(names) : DosName(Rest(names)[i])
  /\ 3 + Len(Dos!Spell(Rest(names))) <= LIMIT

(* path.c:4-7, path.h:6-9: a path is accepted exactly when it resolves, lies *)
(* in an anchor, and every name below that anchor is one DOS has exactly;    *)
(* the scan's counters and flags decide that for every place of a name, and   *)
(* no text outgrows its buffer on the way (path.c counts separators and       *)
(* terminators in four places).                                              *)
Resolves ==
  IF system = "unix" THEN host.is \in {"exists", "missing"} /\ ~TooLong
  ELSE folding = "accepted"

AcceptedExactly ==
  /\ phase = "refused" => ~Resolves \/ ~Representable(Meant)
  /\ phase = "idle" /\ mapped # <<>> => Resolves /\ Representable(Meant)
  /\ Len(resolved) < ACC_PATH
  /\ phase = "scan" => Len(out) < ACC_PATH /\ base <= BASE /\ ext <= EXT

(* The file the emulator opens for a guest name.                             *)
HostOf(guest) ==
  LET anchor == IF Head(guest) = "D" THEN map.root ELSE map.cwd
      rest   == SubSeq(guest, 4, Len(guest))
      slashed == [i \in DOMAIN rest |-> IF rest[i] = "\\" THEN "/" ELSE rest[i]]
  IN IF rest = <<>> THEN Spell(anchor)
     ELSE IF anchor = <<>> THEN <<"/">> \o slashed
     ELSE Spell(anchor) \o <<"/">> \o slashed

(* The file the emulator opens for a guest name, or DOS itself, is the one   *)
(* the user meant, so that two files never share a name; and of two nested   *)
(* anchors the deeper one names it (path.c:271-272), so that a file has one. *)
DenotesSameFile ==
  \A k \in DOMAIN mapped :
    LET guest == mapped[k].guest
        names == mapped[k].names
    IN IF system = "unix"
       THEN /\ HostOf(guest) = Spell(names)
            /\ (Head(guest) = "D") = (Deepest(names) = map.root)
       ELSE guest = Dos!Root(Dos!Drive) \o Dos!Spell(names)

(* path.c:131-135: on DOS the canonical path names what the path means from  *)
(* the current directory of its drive, in its one normal form, and an output *)
(* is refused exactly when the directory it would be created in is missing;   *)
(* what has been written never leaves the drive's root on the way.           *)
CanonicalIsNormal ==
  system = "dos" /\ phase = "canonical" =>
    Dos!CanonicalIsNormal /\ Dos!OutputNeedsItsParent /\ Dos!TypeOK

(* path.c:5-7: "Guest paths must be exact: anything DOS would alias,         *)
(* truncate, quote or treat as a device is rejected".  Violated: two files   *)
(* whose names differ in case are both accepted, and path_equal, the         *)
(* comparison "under DOS case folding", takes them for one file.             *)
NoAliases ==
  \A k, l \in DOMAIN mapped :
    Fold(mapped[k].guest) = Fold(mapped[l].guest) => mapped[k].names = mapped[l].names
=============================================================================
