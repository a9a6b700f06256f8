------------------------------ MODULE MCAccPath ------------------------------
(***************************************************************************)
(* Small alphabets and directory trees for model checking AccPath.          *)
(***************************************************************************)
EXTENDS AccPath

MCUpper == [c \in {"a", "b"} |-> IF c = "a" THEN "A" ELSE "B"]
MCDevices == {<<"A">>}

(* Every name of one to four of these characters, but not "." and "..".      *)
MCNames ==
  (UNION {[1 .. n -> {"a", "A", "b", ".", "*"}] : n \in 1 .. 4}
     \cup {<<"b", "\\", "b">>, <<"b", ".", "b", "b", "b">>, <<"B">>, <<"b", "B">>})
  \ {<<".">>, <<".", ".">>}

(* Any one of these names at the end or in the middle of a path.             *)
MCDirs == {<<>>, <<<<"b">>>>, <<<<"b", "b">>>>, <<<<"b">>, <<"b">>>>,
           <<<<"b">>, <<"b", "*">>>>}
MCLocations ==
  MCDirs \cup {Append(d, n) : d \in {<<<<"b">>>>, <<<<"b">>, <<"b">>>>}, n \in MCNames}
         \cup {Append(<<<<"b">>, n>>, <<"b", ".", "b">>) : n \in MCNames}

(* Trees of names that differ in case or are prefixes of each other.         *)
MCPairNames == {<<"b">>, <<"b", "b">>, <<"B">>, <<"b", "B">>}
MCTree == UNION {[1 .. n -> MCPairNames] : n \in 0 .. 3}

MCFamilies == {{n} : n \in MCLocations} \cup {MCTree}
MCAllLocations == MCLocations \cup MCTree

(* The hypothesis of the theorems about AccPath holds of these locations.    *)
ASSUME DirectoriesEndPlainly ==
  \A n \in MCAllLocations :
    Len(n) > 1 => Last(Last(Front(n))) # "\\"

(* The root, the directory b, and directories within it or beside it.        *)
MCRoots == {<<>>, <<<<"b">>>>, <<<<"b">>, <<"b">>>>, <<<<"b", "b">>>>}
MCCwds == {<<>>, <<<<"b">>>>, <<<<"b">>, <<"b">>>>, <<<<"b">>, <<"b", "*">>>>, <<<<"b", "b">>>>}

(* Paths a user may write on DOS.                                            *)
MCTexts == UNION {[1 .. n -> {"b", ".", "\\", "/"}] : n \in 0 .. 6}
MCDirectories == {<<>>, <<<<"b">>>>, <<<<"b">>, <<"b", "b">>>>}

(* A directory whose name ends in a backslash, which Unix allows, and a file *)
(* in it.                                                                    *)
MCJoinNames == {<<"b">>, <<"b", "\\">>}
MCJoinDirs == {<<<<"b", "\\">>>>}
MCJoinLocations == MCJoinDirs \cup {<<<<"b", "\\">>, <<"b">>>>}
MCJoinFamilies == {{n} : n \in MCJoinLocations}
MCJoinTexts == {<<>>}
=============================================================================
