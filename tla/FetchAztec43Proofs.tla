------------------------- MODULE FetchAztec43Proofs -------------------------
(***************************************************************************)
(* Proofs about FetchAztec43, for any number of runs and any edits in an     *)
(* installation of old.                                                     *)
(*                                                                          *)
(* What a marker stands for is true of a tree from its preparation in the    *)
(* work directory on (Sound); where the run is tells which markers are there *)
(* (MarkerInv), what share already has of the build tree (InstallInv) and    *)
(* that the user's edits are in the build tree by the time the sources in    *)
(* share are removed (EditInv).                                             *)
(***************************************************************************)
EXTENDS FetchAztec43, TLAPS

Forms == {"none", "packed", "torn", "again", "plain", "nested"}
Patches == {"none", "partial", "applied", "original", "mixed", "nothing"}
Compilers == {"none", "original", "partial", "patched"}
Edits == SUBSET (Legacy \cup {"new"})

Sources == [form : Forms, patch : Patches, edits : Edits, objects : BOOLEAN]
Marks == [patch : Patches, edits : Edits]
Trees == [whole : BOOLEAN, src : Sources, include : Marks, cc : Compilers, bak : BOOLEAN,
          dos11 : BOOLEAN, unpacked : BOOLEAN, patched : BOOLEAN, built : BOOLEAN,
          lib : Marks, startups : Marks, acc : BOOLEAN]

TypeInv ==
  /\ build \in Trees /\ work \in Trees /\ installed \in Trees
  /\ cache \in [Archives -> [file : {"none", "whole"}, part : {"none", "partial"}]]
  /\ want \in Archives
  /\ edits \in Edits
  /\ protected \in BOOLEAN /\ refresh \in BOOLEAN

(* A tree whose headers go with its sources and whose markers are true.      *)
Sound(tree) ==
  /\ tree.whole
  /\ tree.include = Mark(tree.src)
  /\ tree.patched => tree.src.patch = "applied"
  /\ tree.patched /\ tree.built => tree.lib = Mark(tree.src) /\ tree.startups = Mark(tree.src)

Outside == {"idle", "refused"}
Preparing == {"import", "unzip", "move"}
Copying == {"install", "install bin", "install include", "install lib"}
Cleaning == {"remove", "removing", "markers", "acc", "tests"}
Building == {"build", "compile", "copy lib", "startups", "built"}
Patching == {"cc", "cc copy", "cc copying", "cc patch", "unpack", "unpacking", "patch",
             "patching", "unbuilt", "mark"}
OnTree == {"check", "dos11", "dos11 unzip"} \cup Patching \cup Building \cup Copying \cup Cleaning

(* An archive is fetched for one step, whole.                                *)
CacheInv ==
  /\ pc \in Outside \cup {"tree", "get", "wget"} \cup Preparing \cup OnTree
  /\ pc \in {"get", "wget"} => \/ want = "aztecc86.zip" /\ after = "unzip"
                               \/ want = "az8634b.zip" /\ after = "dos11 unzip"
  /\ pc = "unzip" => cache["aztecc86.zip"].file = "whole"

TreeInv ==
  /\ Exists(build) => Sound(build)
  /\ ~Exists(build) => build = NoTree /\ (HasSources => Sound(installed))
  /\ pc \in Preparing \/ (pc \in {"get", "wget"} /\ after = "unzip") => ~Exists(build)
  /\ pc \in OnTree \/ (pc \in {"get", "wget"} /\ after = "dos11 unzip") => Exists(build)
  /\ pc = "import" => HasSources
  /\ pc = "move" => Sound(work)

MarkerInv ==
  /\ pc \in {"tree", "get", "wget", "check", "dos11", "dos11 unzip", "build", "compile", "copy lib"}
            \cup Preparing \cup Patching => ~refresh
  /\ pc \in {"unbuilt", "mark"} => build.src.patch = "applied"
  /\ pc = "patching" => ~build.patched
  /\ pc = "mark" => ~build.built
  /\ pc \in Building \cup Copying \cup Cleaning => build.patched
  /\ pc \in {"compile", "copy lib"} => ~build.built
  /\ pc \in {"startups", "built"} => IF refresh THEN build.lib = Mark(build.src) ELSE build.built
  /\ pc = "built" /\ refresh => build.startups = Mark(build.src)
  /\ pc \in Copying \cup Cleaning => build.built

InstallInv ==
  /\ pc \in {"install lib"} \cup Cleaning => installed.include = build.include
  /\ pc \in Cleaning => installed.lib = build.lib /\ installed.startups = build.startups
  /\ pc \in {"markers", "acc", "tests"} => ~HasSources
  /\ pc \in {"acc", "tests"} => ~installed.built /\ ~installed.patched
  /\ pc = "tests" => installed.acc
  /\ ProtectedIsComplete

EditInv ==
  /\ EditsKept
  /\ pc \in OnTree \ {"check"} \/ (pc \in {"get", "wget"} /\ after = "dos11 unzip")
       => edits \subseteq build.src.edits

IInv == TypeInv /\ CacheInv /\ TreeInv /\ MarkerInv /\ InstallInv /\ EditInv

-----------------------------------------------------------------------------
(***************************************************************************)
(* What the variables hold                                                 *)
(***************************************************************************)

(* The trees and marks that the actions begin with are trees and marks.      *)
LEMMA Constants ==
  /\ NoTree \in Trees /\ Downloaded \in Trees
  /\ Mixed \in Marks /\ NoSources \in Sources /\ [NoSources EXCEPT !.form = "torn"] \in Sources
<1>1. NoSources \in Sources BY DEF NoSources, Sources, Forms, Patches, Edits
<1>2. [NoSources EXCEPT !.form = "torn"] \in Sources BY <1>1 DEF Sources, Forms
<1>3. [NoSources EXCEPT !.form = "packed"] \in Sources BY <1>1 DEF Sources, Forms
<1>4. Mixed \in Marks BY DEF Mixed, Marks, Patches, Edits
<1>5. Nothing \in Marks BY DEF Nothing, Marks, Patches, Edits
<1>6. Original \in Marks BY DEF Original, Marks, Patches, Edits
<1>7. NoTree \in Trees BY <1>1, <1>5 DEF NoTree, Trees, Compilers
<1> DEFINE packed == [NoSources EXCEPT !.form = "packed"]
<1>8. Mark(packed) \in Marks BY <1>3 DEF Mark, Marks, Sources
<1>9. [NoTree EXCEPT !.whole = TRUE, !.src = packed, !.include = Mark(packed),
                     !.cc = "original", !.lib = Original] \in Trees
  <2>1. packed \in Sources BY <1>3
  <2> HIDE DEF packed
  <2> QED BY <1>6, <1>7, <1>8, <2>1 DEF Trees, Compilers
<1> QED BY <1>1, <1>2, <1>4, <1>7, <1>9 DEF Downloaded

(* The mark of a tree's sources is a mark.                                   *)
LEMMA MarksOfTrees ==
  ASSUME NEW t \in Trees
  PROVE  Mark(t.src) \in Marks
BY DEF Mark, Trees, Sources, Marks

(* Every step leaves every variable in its set.                              *)
LEMMA TypeStep ==
  ASSUME IInv, Next
  PROVE  TypeInv'
<1> USE DEF Goto, disk, local
<1>1. build \in Trees /\ work \in Trees /\ installed \in Trees BY DEF IInv, TypeInv
<1>2. TypeInv /\ CacheInv BY DEF IInv
<1>3. CASE Start BY <1>3, <1>1, <1>2, Constants DEF Start, TypeInv
<1>4. CASE Stop BY <1>4, <1>1, <1>2 DEF Stop, TypeInv
<1>5. CASE StartDownload BY <1>5, <1>1, <1>2 DEF StartDownload, TypeInv
<1>6. CASE Download BY <1>6, <1>1, <1>2 DEF Download, TypeInv
<1>7. CASE DownloadFails BY <1>7, <1>1, <1>2 DEF DownloadFails, TypeInv
<1>8. CASE PrepareTree BY <1>8, <1>1, <1>2 DEF PrepareTree, TypeInv, Fetch, Archives
<1>9. CASE Import BY <1>9, <1>1, <1>2 DEF Import, TypeInv
<1>10. CASE Unzip
  <2>1. \A b \in BOOLEAN : [Downloaded EXCEPT !.whole = b] \in Trees BY Constants DEF Trees
  <2>2. work' \in Trees BY <1>10, <2>1 DEF Unzip
  <2> QED BY <1>10, <1>1, <1>2, <2>2 DEF Unzip, TypeInv
<1>11. CASE MoveTree BY <1>11, <1>1, <1>2, Constants DEF MoveTree, TypeInv
<1>12. CASE CheckTree BY <1>12, <1>1, <1>2 DEF CheckTree, TypeInv, Refuse
<1>13. CASE NeedDos11 BY <1>13, <1>1, <1>2 DEF NeedDos11, TypeInv, Fetch, Archives
<1>14. CASE AddDos11
  <2>1. [build EXCEPT !.dos11 = TRUE] \in Trees
    BY <1>1 DEF Trees
  <2>2. build' \in Trees BY <1>14, <1>1, <2>1 DEF AddDos11
  <2> QED BY <1>14, <1>1, <1>2, <2>2 DEF AddDos11, TypeInv
<1>15. CASE BackUpCompiler
  <2>1. [build EXCEPT !.bak = TRUE, !.cc = "none"] \in Trees
    BY <1>1 DEF Trees, Compilers
  <2>2. build' \in Trees BY <1>15, <1>1, <2>1 DEF BackUpCompiler
  <2> QED BY <1>15, <1>1, <1>2, <2>2 DEF BackUpCompiler, TypeInv
<1>16. CASE CopyCompiler
  <2>1. [build EXCEPT !.cc = "partial"] \in Trees
    BY <1>1 DEF Trees, Compilers
  <2>2. [build EXCEPT !.cc = "original"] \in Trees
    BY <1>1 DEF Trees, Compilers
  <2>3. build' \in Trees BY <1>16, <1>1, <2>1, <2>2 DEF CopyCompiler
  <2> QED BY <1>16, <1>1, <1>2, <2>3 DEF CopyCompiler, TypeInv
<1>17. CASE PatchCompiler
  <2>1. [build EXCEPT !.cc = "patched"] \in Trees
    BY <1>1 DEF Trees, Compilers
  <2>2. build' \in Trees BY <1>17, <1>1, <2>1 DEF PatchCompiler
  <2> QED BY <1>17, <1>1, <1>2, <2>2 DEF PatchCompiler, TypeInv
<1>18. CASE StartUnpack
  <2>1. [build EXCEPT !.src.form = IF @ = "packed" THEN "torn" ELSE "again"] \in Trees
    BY <1>1 DEF Trees, Sources, Forms
  <2>2. build' \in Trees BY <1>18, <1>1, <2>1 DEF StartUnpack
  <2> QED BY <1>18, <1>1, <1>2, <2>2 DEF StartUnpack, TypeInv
<1>19. CASE Unpack
  <2>1. [build EXCEPT !.src.form = "plain", !.unpacked = TRUE] \in Trees
    BY <1>1 DEF Trees, Sources, Forms
  <2>2. [build EXCEPT !.src.form = "nested", !.unpacked = TRUE] \in Trees
    BY <1>1 DEF Trees, Sources, Forms
  <2>3. build' \in Trees BY <1>19, <1>1, <2>1, <2>2 DEF Unpack
  <2> QED BY <1>19, <1>1, <1>2, <2>3 DEF Unpack, TypeInv
<1>20. CASE StartPatch
  <2>1. [build EXCEPT !.src.patch = "partial", !.include.patch = "partial"] \in Trees
    BY <1>1 DEF Trees, Sources, Marks, Patches
  <2>2. build' \in Trees BY <1>20, <1>1, <2>1 DEF StartPatch
  <2> QED BY <1>20, <1>1, <1>2, <2>2 DEF StartPatch, TypeInv
<1>21. CASE Patch
  <2>1. [build EXCEPT !.src.patch = "applied", !.include.patch = "applied"] \in Trees
    BY <1>1 DEF Trees, Sources, Marks, Patches
  <2>2. build' \in Trees BY <1>21, <1>1, <2>1 DEF Patch
  <2> QED BY <1>21, <1>1, <1>2, <2>2 DEF Patch, TypeInv
<1>22. CASE MarkPatched
  <2>1. [build EXCEPT !.built = FALSE] \in Trees
    BY <1>1 DEF Trees
  <2>2. [build EXCEPT !.patched = TRUE] \in Trees
    BY <1>1 DEF Trees
  <2>3. build' \in Trees BY <1>22, <1>1, <2>1, <2>2 DEF MarkPatched
  <2> QED BY <1>22, <1>1, <1>2, <2>3 DEF MarkPatched, TypeInv
<1>23. CASE StartBuild
  <2>1. [build EXCEPT !.src.objects = TRUE] \in Trees
    BY <1>1 DEF Trees, Sources
  <2>2. build' \in Trees BY <1>23, <1>1, <2>1 DEF StartBuild
  <2> QED BY <1>23, <1>1, <1>2, <2>2 DEF StartBuild, TypeInv
<1>24. CASE CopyLibraries
  <2>1. Mixed \in Marks /\ Mark(build.src) \in Marks BY <1>1, Constants, MarksOfTrees
  <2>2. [build EXCEPT !.lib = Mixed] \in Trees
    BY <1>1, <2>1 DEF Trees
  <2>3. [build EXCEPT !.lib = Mark(build.src)] \in Trees
    BY <1>1, <2>1 DEF Trees
  <2>4. build' \in Trees BY <1>24, <1>1, <2>1, <2>2, <2>3 DEF CopyLibraries
  <2> QED BY <1>24, <1>1, <1>2, <2>4 DEF CopyLibraries, TypeInv
<1>25. CASE ExtractStartups
  <2>1. [build EXCEPT !.startups = IF refresh THEN build.lib ELSE @] \in Trees
    BY <1>1 DEF Trees
  <2>2. build' \in Trees BY <1>25, <1>1, <2>1 DEF ExtractStartups
  <2> QED BY <1>25, <1>1, <1>2, <2>2 DEF ExtractStartups, TypeInv
<1>26. CASE MarkBuilt
  <2>1. refresh \in BOOLEAN BY <1>2 DEF TypeInv
  <2>2. [build EXCEPT !.built = @ \/ refresh] \in Trees
    BY <1>1, <2>1 DEF Trees
  <2>3. build' \in Trees BY <1>26, <1>1, <2>1, <2>2 DEF MarkBuilt
  <2> QED BY <1>26, <1>1, <1>2, <2>3 DEF MarkBuilt, TypeInv
<1>27. CASE InstallFiles
  <2>1. Mixed \in Marks BY Constants
  <2>2. [installed EXCEPT !.cc = "partial"] \in Trees
    BY <1>1, <2>1 DEF Trees, Compilers
  <2>3. [installed EXCEPT !.cc = build.cc, !.include = Mixed] \in Trees
    BY <1>1, <2>1 DEF Trees, Compilers
  <2>4. [installed EXCEPT !.include = build.include, !.lib = Mixed,
        !.startups = Mixed] \in Trees
    BY <1>1, <2>1 DEF Trees, Compilers
  <2>5. [installed EXCEPT !.lib = build.lib, !.startups = build.startups] \in Trees
    BY <1>1, <2>1 DEF Trees, Compilers
  <2>6. installed' \in Trees BY <1>27, <1>1, <2>1, <2>2, <2>3, <2>4, <2>5 DEF InstallFiles
  <2> QED BY <1>27, <1>1, <1>2, <2>6 DEF InstallFiles, TypeInv
<1>28. CASE RemoveSources
  <2>1. NoSources \in Sources /\ [NoSources EXCEPT !.form = "torn"] \in Sources BY Constants
  <2>2. [installed EXCEPT !.src = [NoSources EXCEPT !.form = "torn"]] \in Trees
    BY <1>1, <2>1 DEF Trees
  <2>3. [installed EXCEPT !.src = NoSources] \in Trees
    BY <1>1, <2>1 DEF Trees
  <2>4. [installed EXCEPT !.built = FALSE, !.unpacked = FALSE, !.patched = FALSE] \in Trees
    BY <1>1, <2>1 DEF Trees
  <2>5. installed' \in Trees BY <1>28, <1>1, <2>1, <2>2, <2>3, <2>4 DEF RemoveSources
  <2> QED BY <1>28, <1>1, <1>2, <2>5 DEF RemoveSources, TypeInv
<1>29. CASE InstallAcc
  <2>1. [installed EXCEPT !.acc = TRUE] \in Trees
    BY <1>1 DEF Trees
  <2>2. installed' \in Trees BY <1>29, <1>1, <2>1 DEF InstallAcc
  <2> QED BY <1>29, <1>1, <1>2, <2>2 DEF InstallAcc, TypeInv
<1>30. CASE Protect BY <1>30, <1>1, <1>2 DEF Protect, TypeInv
<1>31. CASE EditSources
  <2>1. [build EXCEPT !.src.edits = @ \cup {"new"}, !.include.edits = @ \cup {"new"},
        !.built = FALSE] \in Trees
    BY <1>1 DEF Trees, Sources, Marks, Edits
  <2>2. build' \in Trees BY <1>31, <1>1, <2>1 DEF EditSources
  <2> QED BY <1>31, <1>1, <1>2, <2>2 DEF EditSources, TypeInv, Edits
<1> QED
  BY <1>3, <1>4, <1>5, <1>6, <1>7, <1>8, <1>9, <1>10, <1>11, <1>12, <1>13, <1>14, <1>15,
       <1>16, <1>17, <1>18, <1>19, <1>20, <1>21, <1>22, <1>23, <1>24, <1>25, <1>26, <1>27,
       <1>28, <1>29, <1>30, <1>31 DEF Next

(* What is unpacked from the archive is sound.                               *)
LEMMA SoundDownload == Sound([Downloaded EXCEPT !.whole = TRUE])
BY DEF Sound, Downloaded, NoTree, NoSources, Mark

(* Every step keeps what is known of where the run is and what it fetches.   *)
LEMMA CacheStep ==
  ASSUME IInv, Next
  PROVE  CacheInv'
<1> USE DEF Goto, disk, local, Outside, Preparing, OnTree, Copying, Cleaning, Building, Patching
<1>1. build \in Trees /\ work \in Trees /\ installed \in Trees BY DEF IInv, TypeInv
<1>2. TypeInv /\ CacheInv /\ TreeInv /\ MarkerInv /\ InstallInv /\ EditInv BY DEF IInv
<1>3. /\ pc \in {"get", "wget"} => after \in {"unzip", "dos11 unzip"}
      /\ pc \in OnTree => Exists(build)
  BY <1>2 DEF CacheInv, TreeInv
<1>4. CASE Start BY <1>4, <1>1, <1>2 DEF Start, CacheInv, TypeInv, Archives
<1>5. CASE Stop BY <1>5, <1>1, <1>2 DEF Stop, CacheInv, TypeInv, Archives
<1>6. CASE StartDownload BY <1>6, <1>1, <1>2 DEF StartDownload, CacheInv, TypeInv, Archives
<1>7. CASE Download BY <1>7, <1>2, <1>3 DEF Download, CacheInv, TypeInv, Archives
<1>8. CASE DownloadFails BY <1>8, <1>2, <1>3 DEF DownloadFails, CacheInv, TypeInv, Archives
<1>9. CASE PrepareTree BY <1>9, <1>1, <1>2 DEF PrepareTree, CacheInv, TypeInv, Archives, Fetch
<1>10. CASE Import BY <1>10, <1>1, <1>2 DEF Import, CacheInv, TypeInv, Archives
<1>11. CASE Unzip BY <1>11, <1>1, <1>2 DEF Unzip, CacheInv, TypeInv, Archives
<1>12. CASE MoveTree BY <1>12, <1>1, <1>2 DEF MoveTree, CacheInv, TypeInv, Archives
<1>13. CASE CheckTree BY <1>13, <1>1, <1>2 DEF CheckTree, CacheInv, TypeInv, Archives, Refuse
<1>14. CASE NeedDos11 BY <1>14, <1>1, <1>2 DEF NeedDos11, CacheInv, TypeInv, Archives, Fetch
<1>15. CASE AddDos11 BY <1>15, <1>1, <1>2 DEF AddDos11, CacheInv, TypeInv, Archives
<1>16. CASE BackUpCompiler BY <1>16, <1>1, <1>2 DEF BackUpCompiler, CacheInv, TypeInv, Archives
<1>17. CASE CopyCompiler BY <1>17, <1>1, <1>2 DEF CopyCompiler, CacheInv, TypeInv, Archives
<1>18. CASE PatchCompiler BY <1>18, <1>1, <1>2 DEF PatchCompiler, CacheInv, TypeInv, Archives
<1>19. CASE StartUnpack BY <1>19, <1>1, <1>2 DEF StartUnpack, CacheInv, TypeInv, Archives
<1>20. CASE Unpack BY <1>20, <1>1, <1>2 DEF Unpack, CacheInv, TypeInv, Archives
<1>21. CASE StartPatch BY <1>21, <1>1, <1>2 DEF StartPatch, CacheInv, TypeInv, Archives
<1>22. CASE Patch BY <1>22, <1>1, <1>2 DEF Patch, CacheInv, TypeInv, Archives
<1>23. CASE MarkPatched BY <1>23, <1>1, <1>2 DEF MarkPatched, CacheInv, TypeInv, Archives
<1>24. CASE StartBuild BY <1>24, <1>1, <1>2 DEF StartBuild, CacheInv, TypeInv, Archives
<1>25. CASE CopyLibraries BY <1>25, <1>1, <1>2 DEF CopyLibraries, CacheInv, TypeInv, Archives
<1>26. CASE ExtractStartups
  BY <1>26, <1>1, <1>2 DEF ExtractStartups, CacheInv, TypeInv, Archives
<1>27. CASE MarkBuilt BY <1>27, <1>1, <1>2 DEF MarkBuilt, CacheInv, TypeInv, Archives
<1>28. CASE InstallFiles BY <1>28, <1>1, <1>2 DEF InstallFiles, CacheInv, TypeInv, Archives
<1>29. CASE RemoveSources BY <1>29, <1>1, <1>2 DEF RemoveSources, CacheInv, TypeInv, Archives
<1>30. CASE InstallAcc BY <1>30, <1>1, <1>2 DEF InstallAcc, CacheInv, TypeInv, Archives
<1>31. CASE Protect BY <1>31, <1>1, <1>2 DEF Protect, CacheInv, TypeInv, Archives
<1>32. CASE EditSources BY <1>32, <1>1, <1>2 DEF EditSources, CacheInv, TypeInv, Archives
<1> QED
  BY <1>4, <1>5, <1>6, <1>7, <1>8, <1>9, <1>10, <1>11, <1>12, <1>13, <1>14, <1>15, <1>16,
       <1>17, <1>18, <1>19, <1>20, <1>21, <1>22, <1>23, <1>24, <1>25, <1>26, <1>27, <1>28,
       <1>29, <1>30, <1>31, <1>32 DEF Next

(* Every step leaves the trees sound.                                        *)
LEMMA TreeStep ==
  ASSUME IInv, Next
  PROVE  TreeInv'
<1> USE DEF Goto, disk, local, Outside, Preparing, OnTree, Copying, Cleaning, Building, Patching
<1>1. build \in Trees /\ work \in Trees /\ installed \in Trees BY DEF IInv, TypeInv
<1>2. TypeInv /\ CacheInv /\ TreeInv /\ MarkerInv /\ InstallInv /\ EditInv BY DEF IInv
<1>3. /\ pc \in {"get", "wget"} => after \in {"unzip", "dos11 unzip"}
      /\ pc \in OnTree => Exists(build)
  BY <1>2 DEF CacheInv, TreeInv
<1>4. CASE Start
  BY <1>4, <1>1, <1>2 DEF Start, TreeInv, Exists, HasSources, Sound, Mark, Trees, Sources, Marks
<1>5. CASE Stop
  BY <1>5, <1>1, <1>2 DEF Stop, TreeInv, Exists, HasSources, Sound, Mark, Trees, Sources, Marks
<1>6. CASE StartDownload
  BY <1>6, <1>1, <1>2 DEF StartDownload, TreeInv, Exists, HasSources, Sound, Mark, Trees,
       Sources, Marks
<1>7. CASE Download BY <1>7, <1>2, <1>3 DEF Download, TreeInv, Exists, HasSources, Sound
<1>8. CASE DownloadFails
  BY <1>8, <1>2, <1>3 DEF DownloadFails, TreeInv, Exists, HasSources, Sound
<1>9. CASE PrepareTree
  BY <1>9, <1>1, <1>2 DEF PrepareTree, TreeInv, Exists, HasSources, Sound, Mark, Trees,
       Sources, Marks, Fetch
<1>10. CASE Import
  BY <1>10, <1>1, <1>2 DEF Import, TreeInv, Exists, HasSources, Sound, Mark, Trees, Sources,
       Marks
<1>11. CASE Unzip
  <2>1. cache["aztecc86.zip"].file = "whole" BY <1>11, <1>2 DEF Unzip, CacheInv
  <2>2. work' = [Downloaded EXCEPT !.whole = TRUE] BY <1>11, <2>1 DEF Unzip
  <2>3. Sound(work') BY <2>2, SoundDownload
  <2> QED BY <1>11, <1>2, <2>3 DEF Unzip, TreeInv, Exists, HasSources
<1>12. CASE MoveTree
  BY <1>12, <1>1, <1>2 DEF MoveTree, TreeInv, Exists, HasSources, Sound, Mark, Trees,
       Sources, Marks
<1>13. CASE CheckTree
  BY <1>13, <1>1, <1>2 DEF CheckTree, TreeInv, Exists, HasSources, Sound, Mark, Trees,
       Sources, Marks, Refuse
<1>14. CASE NeedDos11
  BY <1>14, <1>1, <1>2 DEF NeedDos11, TreeInv, Exists, HasSources, Sound, Mark, Trees,
       Sources, Marks, Fetch
<1>15. CASE AddDos11
  BY <1>15, <1>1, <1>2 DEF AddDos11, TreeInv, Exists, HasSources, Sound, Mark, Trees,
       Sources, Marks
<1>16. CASE BackUpCompiler
  <2>1. CASE build.bak
    BY <1>16, <1>1, <1>2, <1>3, <2>1 DEF BackUpCompiler, TreeInv, Exists, HasSources, Sound,
         Mark
  <2>2. CASE ~build.bak
    <3>1. build' = [build EXCEPT !.bak = TRUE, !.cc = "none"] BY <1>16, <2>2 DEF BackUpCompiler
    <3>2. /\ build'.whole = build.whole /\ build'.src = build.src
          /\ build'.include = build.include /\ build'.patched = build.patched
          /\ build'.built = build.built /\ build'.lib = build.lib
          /\ build'.startups = build.startups
      BY <1>1, <3>1 DEF Trees
    <3> QED
      BY <1>16, <1>1, <1>2, <1>3, <2>2, <3>2 DEF BackUpCompiler, TreeInv, Exists, HasSources,
           Sound, Mark
  <2> QED BY <1>16, <2>1, <2>2 DEF BackUpCompiler
<1>17. CASE CopyCompiler
  <2>1. CASE pc = "cc copy"
    <3>1. build' = [build EXCEPT !.cc = "partial"] BY <1>17, <2>1 DEF CopyCompiler
    <3>2. /\ build'.whole = build.whole /\ build'.src = build.src
          /\ build'.include = build.include /\ build'.patched = build.patched
          /\ build'.built = build.built /\ build'.lib = build.lib
          /\ build'.startups = build.startups
      BY <1>1, <3>1 DEF Trees
    <3> QED
      BY <1>17, <1>1, <1>2, <1>3, <2>1, <3>2 DEF CopyCompiler, TreeInv, Exists, HasSources,
           Sound, Mark
  <2>2. CASE pc = "cc copying"
    <3>1. build' = [build EXCEPT !.cc = "original"] BY <1>17, <2>2 DEF CopyCompiler
    <3>2. /\ build'.whole = build.whole /\ build'.src = build.src
          /\ build'.include = build.include /\ build'.patched = build.patched
          /\ build'.built = build.built /\ build'.lib = build.lib
          /\ build'.startups = build.startups
      BY <1>1, <3>1 DEF Trees
    <3> QED
      BY <1>17, <1>1, <1>2, <1>3, <2>2, <3>2 DEF CopyCompiler, TreeInv, Exists, HasSources,
           Sound, Mark
  <2> QED BY <1>17, <2>1, <2>2 DEF CopyCompiler
<1>18. CASE PatchCompiler
  BY <1>18, <1>1, <1>2 DEF PatchCompiler, TreeInv, Exists, HasSources, Sound, Mark, Trees,
       Sources, Marks
<1>19. CASE StartUnpack
  <2>1. CASE build.unpacked
    BY <1>19, <1>1, <1>2, <1>3, <2>1 DEF StartUnpack, TreeInv, Exists, HasSources, Sound, Mark
  <2>2. CASE ~build.unpacked
    <3>1. build' = [build EXCEPT !.src.form = IF @ = "packed" THEN "torn" ELSE "again"]
      BY <1>19, <2>2 DEF StartUnpack
    <3>2. /\ build'.whole = build.whole /\ build'.include = build.include
          /\ build'.patched = build.patched /\ build'.built = build.built
          /\ build'.lib = build.lib /\ build'.startups = build.startups
      BY <1>1, <3>1 DEF Trees
    <3>3. /\ build'.src.form # "none" /\ build'.src.patch = build.src.patch
          /\ build'.src.edits = build.src.edits
      BY <1>1, <3>1 DEF Trees, Sources
    <3> QED
      BY <1>19, <1>1, <1>2, <1>3, <2>2, <3>2, <3>3 DEF StartUnpack, TreeInv, Exists,
           HasSources, Sound, Mark
  <2> QED BY <1>19, <2>1, <2>2 DEF StartUnpack
<1>20. CASE Unpack
  BY <1>20, <1>1, <1>2 DEF Unpack, TreeInv, Exists, HasSources, Sound, Mark, Trees, Sources,
       Marks
<1>21. CASE StartPatch
  <2>1. CASE build' = build
    BY <1>21, <1>1, <1>2, <1>3, <2>1 DEF StartPatch, TreeInv, Exists, HasSources, Sound, Mark
  <2>2. CASE build' # build
    <3>1. build' = [build EXCEPT !.src.patch = "partial", !.include.patch = "partial"]
      BY <1>21, <2>2 DEF StartPatch
    <3>2. /\ build'.whole = build.whole /\ build'.patched = build.patched
          /\ build'.built = build.built /\ build'.lib = build.lib
          /\ build'.startups = build.startups
      BY <1>1, <3>1 DEF Trees
    <3>3. /\ build'.src.form = build.src.form /\ build'.src.patch = "partial"
          /\ build'.src.edits = build.src.edits
      BY <1>1, <3>1 DEF Trees, Sources
    <3>4. build.include = Mark(build.src) BY <1>21, <1>2, <1>3 DEF StartPatch, TreeInv, Sound
    <3>5. build'.include = Mark(build'.src)
      <4>1. build'.include = [build.include EXCEPT !.patch = "partial"] BY <1>1, <3>1 DEF Trees
      <4> QED BY <3>3, <3>4, <4>1 DEF Mark
    <3>6. ~build.patched BY <1>21, <2>2 DEF StartPatch
    <3> QED
      BY <1>21, <1>1, <1>2, <1>3, <2>2, <3>2, <3>3, <3>5, <3>6 DEF StartPatch, TreeInv,
           Exists, HasSources, Sound, Mark
  <2> QED BY <2>1, <2>2
<1>22. CASE Patch
  BY <1>22, <1>1, <1>2 DEF Patch, TreeInv, Exists, HasSources, Sound, Mark, Trees, Sources,
       Marks
<1>23. CASE MarkPatched
  <2>1. CASE pc = "unbuilt"
    <3>1. build' = [build EXCEPT !.built = FALSE] BY <1>23, <2>1 DEF MarkPatched
    <3>2. /\ build'.whole = build.whole /\ build'.src = build.src
          /\ build'.include = build.include /\ build'.patched = build.patched
          /\ build'.lib = build.lib /\ build'.startups = build.startups
      BY <1>1, <3>1 DEF Trees
    <3>3. ~build'.built BY <1>1, <3>1 DEF Trees
    <3> QED
      BY <1>23, <1>1, <1>2, <1>3, <2>1, <3>2, <3>3 DEF MarkPatched, MarkerInv, TreeInv,
           Exists, HasSources, Sound, Mark
  <2>2. CASE pc = "mark"
    <3>1. build' = [build EXCEPT !.patched = TRUE] BY <1>23, <2>2 DEF MarkPatched
    <3>2. /\ build'.whole = build.whole /\ build'.src = build.src
          /\ build'.include = build.include /\ build'.built = build.built
          /\ build'.lib = build.lib /\ build'.startups = build.startups
      BY <1>1, <3>1 DEF Trees
    <3>3. build'.patched BY <1>1, <3>1 DEF Trees
    <3> QED
      BY <1>23, <1>1, <1>2, <1>3, <2>2, <3>2, <3>3 DEF MarkPatched, MarkerInv, TreeInv,
           Exists, HasSources, Sound, Mark
  <2> QED BY <1>23, <2>1, <2>2 DEF MarkPatched
<1>24. CASE StartBuild
  <2>1. CASE build.built
    BY <1>24, <1>1, <1>2, <1>3, <2>1 DEF StartBuild, TreeInv, Exists, HasSources, Sound, Mark
  <2>2. CASE ~build.built
    <3>1. build' = [build EXCEPT !.src.objects = TRUE] BY <1>24, <2>2 DEF StartBuild
    <3>2. /\ build'.whole = build.whole /\ build'.include = build.include
          /\ build'.patched = build.patched /\ build'.built = build.built
          /\ build'.lib = build.lib /\ build'.startups = build.startups
      BY <1>1, <3>1 DEF Trees
    <3>3. /\ build'.src.form = build.src.form /\ build'.src.patch = build.src.patch
          /\ build'.src.edits = build.src.edits
      BY <1>1, <3>1 DEF Trees, Sources
    <3> QED
      BY <1>24, <1>1, <1>2, <1>3, <2>2, <3>2, <3>3 DEF StartBuild, TreeInv, Exists,
           HasSources, Sound, Mark
  <2> QED BY <1>24, <2>1, <2>2 DEF StartBuild
<1>25. CASE CopyLibraries
  <2>1. CASE pc = "compile"
    <3>1. build' = [build EXCEPT !.lib = Mixed] BY <1>25, <2>1 DEF CopyLibraries
    <3>2. /\ build'.whole = build.whole /\ build'.src = build.src
          /\ build'.include = build.include /\ build'.patched = build.patched
          /\ build'.built = build.built /\ build'.startups = build.startups
      BY <1>1, <3>1 DEF Trees
    <3>3. build'.lib = Mixed BY <1>1, <3>1 DEF Trees
    <3> QED
      BY <1>25, <1>1, <1>2, <1>3, <2>1, <3>2, <3>3 DEF CopyLibraries, MarkerInv, TreeInv,
           Exists, HasSources, Sound, Mark
  <2>2. CASE pc = "copy lib"
    <3>1. build' = [build EXCEPT !.lib = Mark(build.src)] BY <1>25, <2>2 DEF CopyLibraries
    <3>2. /\ build'.whole = build.whole /\ build'.src = build.src
          /\ build'.include = build.include /\ build'.patched = build.patched
          /\ build'.built = build.built /\ build'.startups = build.startups
      BY <1>1, <3>1 DEF Trees
    <3>3. build'.lib = Mark(build.src) BY <1>1, <3>1 DEF Trees
    <3> QED
      BY <1>25, <1>1, <1>2, <1>3, <2>2, <3>2, <3>3 DEF CopyLibraries, MarkerInv, TreeInv,
           Exists, HasSources, Sound, Mark
  <2> QED BY <1>25, <2>1, <2>2 DEF CopyLibraries
<1>26. CASE ExtractStartups
  BY <1>26, <1>1, <1>2 DEF ExtractStartups, TreeInv, Exists, HasSources, Sound, Mark, Trees,
       Sources, Marks
<1>27. CASE MarkBuilt
  <2>1. /\ build'.whole = build.whole /\ build'.src = build.src
        /\ build'.include = build.include /\ build'.patched = build.patched
        /\ build'.lib = build.lib /\ build'.startups = build.startups
    BY <1>27, <1>1 DEF MarkBuilt, Trees
  <2>2. build'.built = (build.built \/ refresh)
    BY <1>27, <1>1, <1>2 DEF MarkBuilt, Trees, TypeInv
  <2> QED
    BY <1>27, <1>2, <2>1, <2>2 DEF MarkBuilt, MarkerInv, TreeInv, Exists, HasSources, Sound,
         Mark
<1>28. CASE InstallFiles
  BY <1>28, <1>1, <1>2 DEF InstallFiles, TreeInv, Exists, HasSources, Sound, Mark, Trees,
       Sources, Marks
<1>29. CASE RemoveSources
  BY <1>29, <1>1, <1>2 DEF RemoveSources, TreeInv, Exists, HasSources, Sound, Mark, Trees,
       Sources, Marks
<1>30. CASE InstallAcc
  BY <1>30, <1>1, <1>2 DEF InstallAcc, TreeInv, Exists, HasSources, Sound, Mark, Trees,
       Sources, Marks
<1>31. CASE Protect
  BY <1>31, <1>1, <1>2 DEF Protect, TreeInv, Exists, HasSources, Sound, Mark, Trees, Sources,
       Marks
<1>32. CASE EditSources
  <2>1. /\ build.patched
        /\ build' = [build EXCEPT !.src.edits = @ \cup {"new"},
              !.include.edits = @ \cup {"new"}, !.built = FALSE]
    BY <1>32 DEF EditSources
  <2>2. /\ build'.whole = build.whole /\ build'.patched = build.patched
        /\ build'.lib = build.lib /\ build'.startups = build.startups /\ ~build'.built
    BY <1>1, <2>1 DEF Trees
  <2>3. /\ build'.src.form = build.src.form /\ build'.src.patch = build.src.patch
        /\ build'.src.edits = build.src.edits \cup {"new"}
    BY <1>1, <2>1 DEF Trees, Sources
  <2>4. Exists(build)
    <3>1. ~NoTree.patched BY DEF NoTree
    <3> QED BY <1>2, <2>1, <3>1 DEF TreeInv
  <2>5. Sound(build) BY <1>2, <2>4 DEF TreeInv
  <2>6. build'.include = Mark(build'.src)
    <3>1. build'.include = [build.include EXCEPT !.edits = @ \cup {"new"}]
      BY <1>1, <2>1 DEF Trees
    <3> QED BY <2>3, <2>5, <3>1 DEF Mark, Sound
  <2>7. Sound(build') BY <2>2, <2>3, <2>5, <2>6 DEF Sound
  <2>8. Exists(build') BY <2>2, <2>3, <2>4 DEF Exists
  <2> QED BY <1>32, <1>2, <2>4, <2>7, <2>8 DEF EditSources, TreeInv, HasSources
<1> QED
  BY <1>4, <1>5, <1>6, <1>7, <1>8, <1>9, <1>10, <1>11, <1>12, <1>13, <1>14, <1>15, <1>16,
       <1>17, <1>18, <1>19, <1>20, <1>21, <1>22, <1>23, <1>24, <1>25, <1>26, <1>27, <1>28,
       <1>29, <1>30, <1>31, <1>32 DEF Next

(* Every step leaves the markers that its place tells of.                    *)
LEMMA MarkerStep ==
  ASSUME IInv, Next
  PROVE  MarkerInv'
<1> USE DEF Goto, disk, local, Outside, Preparing, OnTree, Copying, Cleaning, Building, Patching
<1>1. build \in Trees /\ work \in Trees /\ installed \in Trees BY DEF IInv, TypeInv
<1>2. TypeInv /\ CacheInv /\ TreeInv /\ MarkerInv /\ InstallInv /\ EditInv BY DEF IInv
<1>3. /\ pc \in {"get", "wget"} => after \in {"unzip", "dos11 unzip"}
      /\ pc \in OnTree => Exists(build)
  BY <1>2 DEF CacheInv, TreeInv
<1>4. CASE Start BY <1>4, <1>1, <1>2 DEF Start, MarkerInv, Mark, Trees, Sources, Marks
<1>5. CASE Stop BY <1>5, <1>1, <1>2 DEF Stop, MarkerInv, Mark, Trees, Sources, Marks
<1>6. CASE StartDownload
  BY <1>6, <1>1, <1>2 DEF StartDownload, MarkerInv, Mark, Trees, Sources, Marks
<1>7. CASE Download BY <1>7, <1>2, <1>3 DEF Download, MarkerInv, Mark
<1>8. CASE DownloadFails BY <1>8, <1>2, <1>3 DEF DownloadFails, MarkerInv, Mark
<1>9. CASE PrepareTree
  BY <1>9, <1>1, <1>2 DEF PrepareTree, MarkerInv, Mark, Trees, Sources, Marks, Fetch
<1>10. CASE Import BY <1>10, <1>1, <1>2 DEF Import, MarkerInv, Mark, Trees, Sources, Marks
<1>11. CASE Unzip BY <1>11, <1>1, <1>2 DEF Unzip, MarkerInv, Mark, Trees, Sources, Marks
<1>12. CASE MoveTree BY <1>12, <1>1, <1>2 DEF MoveTree, MarkerInv, Mark, Trees, Sources, Marks
<1>13. CASE CheckTree
  BY <1>13, <1>1, <1>2 DEF CheckTree, MarkerInv, Mark, Trees, Sources, Marks, Refuse
<1>14. CASE NeedDos11
  BY <1>14, <1>1, <1>2 DEF NeedDos11, MarkerInv, Mark, Trees, Sources, Marks, Fetch
<1>15. CASE AddDos11 BY <1>15, <1>1, <1>2 DEF AddDos11, MarkerInv, Mark, Trees, Sources, Marks
<1>16. CASE BackUpCompiler
  BY <1>16, <1>1, <1>2 DEF BackUpCompiler, MarkerInv, Mark, Trees, Sources, Marks
<1>17. CASE CopyCompiler
  BY <1>17, <1>1, <1>2 DEF CopyCompiler, MarkerInv, Mark, Trees, Sources, Marks
<1>18. CASE PatchCompiler
  BY <1>18, <1>1, <1>2 DEF PatchCompiler, MarkerInv, Mark, Trees, Sources, Marks
<1>19. CASE StartUnpack
  BY <1>19, <1>1, <1>2 DEF StartUnpack, MarkerInv, Mark, Trees, Sources, Marks
<1>20. CASE Unpack BY <1>20, <1>1, <1>2 DEF Unpack, MarkerInv, Mark, Trees, Sources, Marks
<1>21. CASE StartPatch
  BY <1>21, <1>1, <1>2 DEF StartPatch, MarkerInv, Mark, Trees, Sources, Marks
<1>22. CASE Patch BY <1>22, <1>1, <1>2 DEF Patch, MarkerInv, Mark, Trees, Sources, Marks
<1>23. CASE MarkPatched
  <2>1. CASE pc = "unbuilt"
    <3>1. build' = [build EXCEPT !.built = FALSE] BY <1>23, <2>1 DEF MarkPatched
    <3>2. /\ build'.whole = build.whole /\ build'.src = build.src
          /\ build'.include = build.include /\ build'.patched = build.patched
          /\ build'.lib = build.lib /\ build'.startups = build.startups
      BY <1>1, <3>1 DEF Trees
    <3>3. ~build'.built BY <1>1, <3>1 DEF Trees
    <3> QED BY <1>23, <1>1, <1>2, <1>3, <2>1, <3>2, <3>3 DEF MarkPatched, MarkerInv, Mark
  <2>2. CASE pc = "mark"
    <3>1. build' = [build EXCEPT !.patched = TRUE] BY <1>23, <2>2 DEF MarkPatched
    <3>2. /\ build'.whole = build.whole /\ build'.src = build.src
          /\ build'.include = build.include /\ build'.built = build.built
          /\ build'.lib = build.lib /\ build'.startups = build.startups
      BY <1>1, <3>1 DEF Trees
    <3>3. build'.patched BY <1>1, <3>1 DEF Trees
    <3> QED BY <1>23, <1>1, <1>2, <1>3, <2>2, <3>2, <3>3 DEF MarkPatched, MarkerInv, Mark
  <2> QED BY <1>23, <2>1, <2>2 DEF MarkPatched
<1>24. CASE StartBuild
  BY <1>24, <1>1, <1>2 DEF StartBuild, MarkerInv, Mark, Trees, Sources, Marks
<1>25. CASE CopyLibraries
  <2>1. CASE pc = "compile"
    <3>1. build' = [build EXCEPT !.lib = Mixed] BY <1>25, <2>1 DEF CopyLibraries
    <3>2. /\ build'.whole = build.whole /\ build'.src = build.src
          /\ build'.include = build.include /\ build'.patched = build.patched
          /\ build'.built = build.built /\ build'.startups = build.startups
      BY <1>1, <3>1 DEF Trees
    <3>3. build'.lib = Mixed BY <1>1, <3>1 DEF Trees
    <3>4. ~refresh BY <1>2, <2>1 DEF MarkerInv
    <3>6. pc' = "copy lib" /\ refresh' = refresh BY <1>25, <2>1 DEF CopyLibraries
    <3>5. ~build'.built /\ build'.patched BY <1>2, <2>1, <3>2 DEF MarkerInv
    <3> QED BY <3>4, <3>5, <3>6 DEF MarkerInv
  <2>2. CASE pc = "copy lib"
    <3>1. build' = [build EXCEPT !.lib = Mark(build.src)] BY <1>25, <2>2 DEF CopyLibraries
    <3>2. /\ build'.whole = build.whole /\ build'.src = build.src
          /\ build'.include = build.include /\ build'.patched = build.patched
          /\ build'.built = build.built /\ build'.startups = build.startups
      BY <1>1, <3>1 DEF Trees
    <3>3. build'.lib = Mark(build.src) BY <1>1, <3>1 DEF Trees
    <3> QED BY <1>25, <1>1, <1>2, <1>3, <2>2, <3>2, <3>3 DEF CopyLibraries, MarkerInv, Mark
  <2> QED BY <1>25, <2>1, <2>2 DEF CopyLibraries
<1>26. CASE ExtractStartups
  BY <1>26, <1>1, <1>2 DEF ExtractStartups, MarkerInv, Mark, Trees, Sources, Marks
<1>27. CASE MarkBuilt BY <1>27, <1>1, <1>2 DEF MarkBuilt, MarkerInv, Mark, Trees, Sources, Marks
<1>28. CASE InstallFiles
  BY <1>28, <1>1, <1>2 DEF InstallFiles, MarkerInv, Mark, Trees, Sources, Marks
<1>29. CASE RemoveSources
  BY <1>29, <1>1, <1>2 DEF RemoveSources, MarkerInv, Mark, Trees, Sources, Marks
<1>30. CASE InstallAcc
  BY <1>30, <1>1, <1>2 DEF InstallAcc, MarkerInv, Mark, Trees, Sources, Marks
<1>31. CASE Protect BY <1>31, <1>1, <1>2 DEF Protect, MarkerInv, Mark, Trees, Sources, Marks
<1>32. CASE EditSources
  BY <1>32, <1>1, <1>2 DEF EditSources, MarkerInv, Mark, Trees, Sources, Marks
<1> QED
  BY <1>4, <1>5, <1>6, <1>7, <1>8, <1>9, <1>10, <1>11, <1>12, <1>13, <1>14, <1>15, <1>16,
       <1>17, <1>18, <1>19, <1>20, <1>21, <1>22, <1>23, <1>24, <1>25, <1>26, <1>27, <1>28,
       <1>29, <1>30, <1>31, <1>32 DEF Next

(* Every step leaves in share what its place tells of.                       *)
LEMMA InstallStep ==
  ASSUME IInv, Next
  PROVE  InstallInv'
<1> USE DEF Goto, disk, local, Outside, Preparing, OnTree, Copying, Cleaning, Building, Patching
<1>1. build \in Trees /\ work \in Trees /\ installed \in Trees BY DEF IInv, TypeInv
<1>2. TypeInv /\ CacheInv /\ TreeInv /\ MarkerInv /\ InstallInv /\ EditInv BY DEF IInv
<1>3. /\ pc \in {"get", "wget"} => after \in {"unzip", "dos11 unzip"}
      /\ pc \in OnTree => Exists(build)
  BY <1>2 DEF CacheInv, TreeInv
<1>4. CASE Start
  BY <1>4, <1>1, <1>2 DEF Start, InstallInv, ProtectedIsComplete, HasSources, Trees, Sources
<1>5. CASE Stop
  BY <1>5, <1>1, <1>2 DEF Stop, InstallInv, ProtectedIsComplete, HasSources, Trees, Sources
<1>6. CASE StartDownload
  BY <1>6, <1>1, <1>2 DEF StartDownload, InstallInv, ProtectedIsComplete, HasSources, Trees,
       Sources
<1>7. CASE Download
  BY <1>7, <1>2, <1>3 DEF Download, InstallInv, ProtectedIsComplete, HasSources
<1>8. CASE DownloadFails
  BY <1>8, <1>2, <1>3 DEF DownloadFails, InstallInv, ProtectedIsComplete, HasSources
<1>9. CASE PrepareTree
  BY <1>9, <1>1, <1>2 DEF PrepareTree, InstallInv, ProtectedIsComplete, HasSources, Trees,
       Sources, Fetch
<1>10. CASE Import
  BY <1>10, <1>1, <1>2 DEF Import, InstallInv, ProtectedIsComplete, HasSources, Trees, Sources
<1>11. CASE Unzip
  BY <1>11, <1>1, <1>2 DEF Unzip, InstallInv, ProtectedIsComplete, HasSources, Trees, Sources
<1>12. CASE MoveTree
  BY <1>12, <1>1, <1>2 DEF MoveTree, InstallInv, ProtectedIsComplete, HasSources, Trees, Sources
<1>13. CASE CheckTree
  BY <1>13, <1>1, <1>2 DEF CheckTree, InstallInv, ProtectedIsComplete, HasSources, Trees,
       Sources, Refuse
<1>14. CASE NeedDos11
  BY <1>14, <1>1, <1>2 DEF NeedDos11, InstallInv, ProtectedIsComplete, HasSources, Trees,
       Sources, Fetch
<1>15. CASE AddDos11
  BY <1>15, <1>1, <1>2 DEF AddDos11, InstallInv, ProtectedIsComplete, HasSources, Trees, Sources
<1>16. CASE BackUpCompiler
  BY <1>16, <1>1, <1>2 DEF BackUpCompiler, InstallInv, ProtectedIsComplete, HasSources,
       Trees, Sources
<1>17. CASE CopyCompiler
  BY <1>17, <1>1, <1>2 DEF CopyCompiler, InstallInv, ProtectedIsComplete, HasSources, Trees,
       Sources
<1>18. CASE PatchCompiler
  BY <1>18, <1>1, <1>2 DEF PatchCompiler, InstallInv, ProtectedIsComplete, HasSources, Trees,
       Sources
<1>19. CASE StartUnpack
  BY <1>19, <1>1, <1>2 DEF StartUnpack, InstallInv, ProtectedIsComplete, HasSources, Trees,
       Sources
<1>20. CASE Unpack
  BY <1>20, <1>1, <1>2 DEF Unpack, InstallInv, ProtectedIsComplete, HasSources, Trees, Sources
<1>21. CASE StartPatch
  BY <1>21, <1>1, <1>2 DEF StartPatch, InstallInv, ProtectedIsComplete, HasSources, Trees,
       Sources
<1>22. CASE Patch
  BY <1>22, <1>1, <1>2 DEF Patch, InstallInv, ProtectedIsComplete, HasSources, Trees, Sources
<1>23. CASE MarkPatched
  <2>1. pc \in {"unbuilt", "mark"} /\ pc' \in {"mark", "build"} /\ UNCHANGED <<installed,
        protected>>
    BY <1>23 DEF MarkPatched
  <2> QED BY <1>2, <2>1 DEF InstallInv, ProtectedIsComplete, HasSources
<1>24. CASE StartBuild
  BY <1>24, <1>1, <1>2 DEF StartBuild, InstallInv, ProtectedIsComplete, HasSources, Trees,
       Sources
<1>25. CASE CopyLibraries
  BY <1>25, <1>1, <1>2 DEF CopyLibraries, InstallInv, ProtectedIsComplete, HasSources, Trees,
       Sources
<1>26. CASE ExtractStartups
  BY <1>26, <1>1, <1>2 DEF ExtractStartups, InstallInv, ProtectedIsComplete, HasSources,
       Trees, Sources
<1>27. CASE MarkBuilt
  BY <1>27, <1>1, <1>2 DEF MarkBuilt, InstallInv, ProtectedIsComplete, HasSources, Trees,
       Sources
<1>28. CASE InstallFiles
  BY <1>28, <1>1, <1>2 DEF InstallFiles, InstallInv, ProtectedIsComplete, HasSources, Trees,
       Sources
<1>29. CASE RemoveSources
  <2>1. ~protected' /\ UNCHANGED build
    BY <1>29, <1>2 DEF RemoveSources, InstallInv, ProtectedIsComplete
  <2>2. installed.include = build.include /\ installed.lib = build.lib
        /\ installed.startups = build.startups
    BY <1>29, <1>2 DEF RemoveSources, InstallInv
  <2>3. CASE pc' = "removing"
    <3>1. installed' = [installed EXCEPT !.src = [NoSources EXCEPT !.form = "torn"]]
      BY <1>29, <2>3 DEF RemoveSources
    <3>2. /\ installed'.include = installed.include /\ installed'.lib = installed.lib
          /\ installed'.startups = installed.startups
      BY <1>1, <3>1 DEF Trees
    <3> QED BY <2>1, <2>2, <2>3, <3>2 DEF InstallInv, ProtectedIsComplete, HasSources
  <2>4. CASE pc' = "markers"
    <3>1. installed' = [installed EXCEPT !.src = NoSources] BY <1>29, <2>4 DEF RemoveSources
    <3>2. /\ installed'.include = installed.include /\ installed'.lib = installed.lib
          /\ installed'.startups = installed.startups /\ installed'.src.form = "none"
      BY <1>1, <3>1 DEF Trees, NoSources
    <3> QED BY <2>1, <2>2, <2>4, <3>2 DEF InstallInv, ProtectedIsComplete, HasSources
  <2>5. CASE pc' = "acc"
    <3>1. /\ pc = "markers"
          /\ installed' = [installed EXCEPT !.built = FALSE, !.unpacked = FALSE, !.patched = FALSE]
      BY <1>29, <2>5 DEF RemoveSources
    <3>2. /\ installed'.include = installed.include /\ installed'.lib = installed.lib
          /\ installed'.startups = installed.startups /\ installed'.src = installed.src
          /\ ~installed'.built /\ ~installed'.patched
      BY <1>1, <3>1 DEF Trees
    <3>3. ~HasSources' BY <1>2, <3>1, <3>2 DEF InstallInv, HasSources
    <3> QED BY <2>1, <2>2, <2>5, <3>2, <3>3 DEF InstallInv, ProtectedIsComplete, HasSources
  <2> QED BY <1>29, <2>3, <2>4, <2>5 DEF RemoveSources
<1>30. CASE InstallAcc
  BY <1>30, <1>1, <1>2 DEF InstallAcc, InstallInv, ProtectedIsComplete, HasSources, Trees,
       Sources
<1>31. CASE Protect
  <2>1. build.patched /\ build.built /\ Sound(build)
    BY <1>31, <1>2, <1>3 DEF Protect, MarkerInv, TreeInv
  <2>2. build.include.patch = "applied" /\ build.lib = build.include
        /\ build.startups = build.include
    BY <2>1 DEF Sound, Mark
  <2>3. /\ installed.include = build.include /\ installed.lib = build.lib
        /\ installed.startups = build.startups
        /\ ~HasSources /\ ~installed.built /\ ~installed.patched /\ installed.acc
    BY <1>31, <1>2 DEF Protect, InstallInv
  <2> QED BY <1>31, <1>1, <2>2, <2>3 DEF Protect, InstallInv, ProtectedIsComplete, HasSources
<1>32. CASE EditSources
  BY <1>32, <1>1, <1>2 DEF EditSources, InstallInv, ProtectedIsComplete, HasSources, Trees,
       Sources
<1> QED
  BY <1>4, <1>5, <1>6, <1>7, <1>8, <1>9, <1>10, <1>11, <1>12, <1>13, <1>14, <1>15, <1>16,
       <1>17, <1>18, <1>19, <1>20, <1>21, <1>22, <1>23, <1>24, <1>25, <1>26, <1>27, <1>28,
       <1>29, <1>30, <1>31, <1>32 DEF Next

(* No step loses an edit.                                                    *)
LEMMA EditStep ==
  ASSUME IInv, Next
  PROVE  EditInv'
<1> USE DEF Goto, disk, local, Outside, Preparing, OnTree, Copying, Cleaning, Building, Patching
<1>1. build \in Trees /\ work \in Trees /\ installed \in Trees BY DEF IInv, TypeInv
<1>2. TypeInv /\ CacheInv /\ TreeInv /\ MarkerInv /\ InstallInv /\ EditInv BY DEF IInv
<1>3. /\ pc \in {"get", "wget"} => after \in {"unzip", "dos11 unzip"}
      /\ pc \in OnTree => Exists(build)
  BY <1>2 DEF CacheInv, TreeInv
<1>4. CASE Start
  BY <1>4, <1>1, <1>2 DEF Start, EditInv, EditsKept, Exists, HasSources, Trees, Sources
<1>5. CASE Stop
  BY <1>5, <1>1, <1>2 DEF Stop, EditInv, EditsKept, Exists, HasSources, Trees, Sources
<1>6. CASE StartDownload
  BY <1>6, <1>1, <1>2 DEF StartDownload, EditInv, EditsKept, Exists, HasSources, Trees, Sources
<1>7. CASE Download BY <1>7, <1>2, <1>3 DEF Download, EditInv, EditsKept, Exists, HasSources
<1>8. CASE DownloadFails
  BY <1>8, <1>2, <1>3 DEF DownloadFails, EditInv, EditsKept, Exists, HasSources
<1>9. CASE PrepareTree
  BY <1>9, <1>1, <1>2 DEF PrepareTree, EditInv, EditsKept, Exists, HasSources, Trees,
       Sources, Fetch
<1>10. CASE Import
  BY <1>10, <1>1, <1>2 DEF Import, EditInv, EditsKept, Exists, HasSources, Trees, Sources
<1>11. CASE Unzip
  BY <1>11, <1>1, <1>2 DEF Unzip, EditInv, EditsKept, Exists, HasSources, Trees, Sources
<1>12. CASE MoveTree
  <2>1. build = NoTree BY <1>12, <1>2 DEF MoveTree, TreeInv
  <2>2. build.src.edits = {} BY <2>1 DEF NoTree, NoSources
  <2> QED BY <1>12, <1>2, <2>2 DEF MoveTree, EditInv, EditsKept
<1>13. CASE CheckTree
  BY <1>13, <1>2 DEF CheckTree, Refuse, Differ, EditInv, EditsKept, HasSources
<1>14. CASE NeedDos11
  BY <1>14, <1>1, <1>2 DEF NeedDos11, EditInv, EditsKept, Exists, HasSources, Trees, Sources,
       Fetch
<1>15. CASE AddDos11
  BY <1>15, <1>1, <1>2 DEF AddDos11, EditInv, EditsKept, Exists, HasSources, Trees, Sources
<1>16. CASE BackUpCompiler
  BY <1>16, <1>1, <1>2 DEF BackUpCompiler, EditInv, EditsKept, Exists, HasSources, Trees,
       Sources
<1>17. CASE CopyCompiler
  BY <1>17, <1>1, <1>2 DEF CopyCompiler, EditInv, EditsKept, Exists, HasSources, Trees, Sources
<1>18. CASE PatchCompiler
  BY <1>18, <1>1, <1>2 DEF PatchCompiler, EditInv, EditsKept, Exists, HasSources, Trees, Sources
<1>19. CASE StartUnpack
  <2>1. CASE build.unpacked
    BY <1>19, <1>1, <1>2, <1>3, <2>1 DEF StartUnpack, EditInv, EditsKept, Exists, HasSources
  <2>2. CASE ~build.unpacked
    <3>1. build' = [build EXCEPT !.src.form = IF @ = "packed" THEN "torn" ELSE "again"]
      BY <1>19, <2>2 DEF StartUnpack
    <3>2. /\ build'.whole = build.whole /\ build'.include = build.include
          /\ build'.patched = build.patched /\ build'.built = build.built
          /\ build'.lib = build.lib /\ build'.startups = build.startups
      BY <1>1, <3>1 DEF Trees
    <3>3. /\ build'.src.form # "none" /\ build'.src.patch = build.src.patch
          /\ build'.src.edits = build.src.edits
      BY <1>1, <3>1 DEF Trees, Sources
    <3> QED
      BY <1>19, <1>1, <1>2, <1>3, <2>2, <3>2, <3>3 DEF StartUnpack, EditInv, EditsKept,
           Exists, HasSources
  <2> QED BY <1>19, <2>1, <2>2 DEF StartUnpack
<1>20. CASE Unpack
  BY <1>20, <1>1, <1>2 DEF Unpack, EditInv, EditsKept, Exists, HasSources, Trees, Sources
<1>21. CASE StartPatch
  <2>1. CASE build' = build
    BY <1>21, <1>1, <1>2, <1>3, <2>1 DEF StartPatch, EditInv, EditsKept, Exists, HasSources
  <2>2. CASE build' # build
    <3>1. build' = [build EXCEPT !.src.patch = "partial", !.include.patch = "partial"]
      BY <1>21, <2>2 DEF StartPatch
    <3>2. /\ build'.whole = build.whole /\ build'.patched = build.patched
          /\ build'.built = build.built /\ build'.lib = build.lib
          /\ build'.startups = build.startups
      BY <1>1, <3>1 DEF Trees
    <3>3. /\ build'.src.form = build.src.form /\ build'.src.patch = "partial"
          /\ build'.src.edits = build.src.edits
      BY <1>1, <3>1 DEF Trees, Sources
    <3>4. build.include = Mark(build.src) BY <1>21, <1>2, <1>3 DEF StartPatch, TreeInv, Sound
    <3>5. build'.include = Mark(build'.src)
      <4>1. build'.include = [build.include EXCEPT !.patch = "partial"] BY <1>1, <3>1 DEF Trees
      <4> QED BY <3>3, <3>4, <4>1 DEF Mark
    <3>6. ~build.patched BY <1>21, <2>2 DEF StartPatch
    <3> QED
      BY <1>21, <1>1, <1>2, <1>3, <2>2, <3>2, <3>3, <3>5, <3>6 DEF StartPatch, EditInv,
           EditsKept, Exists, HasSources
  <2> QED BY <2>1, <2>2
<1>22. CASE Patch
  BY <1>22, <1>1, <1>2 DEF Patch, EditInv, EditsKept, Exists, HasSources, Trees, Sources
<1>23. CASE MarkPatched
  BY <1>23, <1>1, <1>2 DEF MarkPatched, EditInv, EditsKept, Exists, HasSources, Trees, Sources
<1>24. CASE StartBuild
  <2>1. CASE build.built
    BY <1>24, <1>1, <1>2, <1>3, <2>1 DEF StartBuild, EditInv, EditsKept, Exists, HasSources
  <2>2. CASE ~build.built
    <3>1. build' = [build EXCEPT !.src.objects = TRUE] BY <1>24, <2>2 DEF StartBuild
    <3>2. /\ build'.whole = build.whole /\ build'.include = build.include
          /\ build'.patched = build.patched /\ build'.built = build.built
          /\ build'.lib = build.lib /\ build'.startups = build.startups
      BY <1>1, <3>1 DEF Trees
    <3>3. /\ build'.src.form = build.src.form /\ build'.src.patch = build.src.patch
          /\ build'.src.edits = build.src.edits
      BY <1>1, <3>1 DEF Trees, Sources
    <3> QED
      BY <1>24, <1>1, <1>2, <1>3, <2>2, <3>2, <3>3 DEF StartBuild, EditInv, EditsKept,
           Exists, HasSources
  <2> QED BY <1>24, <2>1, <2>2 DEF StartBuild
<1>25. CASE CopyLibraries
  BY <1>25, <1>1, <1>2 DEF CopyLibraries, EditInv, EditsKept, Exists, HasSources, Trees, Sources
<1>26. CASE ExtractStartups
  BY <1>26, <1>1, <1>2 DEF ExtractStartups, EditInv, EditsKept, Exists, HasSources, Trees,
       Sources
<1>27. CASE MarkBuilt
  BY <1>27, <1>1, <1>2 DEF MarkBuilt, EditInv, EditsKept, Exists, HasSources, Trees, Sources
<1>28. CASE InstallFiles
  BY <1>28, <1>1, <1>2 DEF InstallFiles, EditInv, EditsKept, Exists, HasSources, Trees, Sources
<1>29. CASE RemoveSources
  BY <1>29, <1>1, <1>2 DEF RemoveSources, EditInv, EditsKept, Exists, HasSources, Trees, Sources
<1>30. CASE InstallAcc
  BY <1>30, <1>1, <1>2 DEF InstallAcc, EditInv, EditsKept, Exists, HasSources, Trees, Sources
<1>31. CASE Protect
  BY <1>31, <1>1, <1>2 DEF Protect, EditInv, EditsKept, Exists, HasSources, Trees, Sources
<1>32. CASE EditSources
  BY <1>32, <1>1, <1>2 DEF EditSources, EditInv, EditsKept, Exists, HasSources, Trees, Sources
<1> QED
  BY <1>4, <1>5, <1>6, <1>7, <1>8, <1>9, <1>10, <1>11, <1>12, <1>13, <1>14, <1>15, <1>16,
       <1>17, <1>18, <1>19, <1>20, <1>21, <1>22, <1>23, <1>24, <1>25, <1>26, <1>27, <1>28,
       <1>29, <1>30, <1>31, <1>32 DEF Next

-----------------------------------------------------------------------------
(***************************************************************************)
(* The theorems                                                            *)
(***************************************************************************)

(* A tree of an installation of old is a tree, and sound.                    *)
LEMMA LegacyIsSound ==
  ASSUME NEW t \in LegacyTrees
  PROVE  t \in Trees /\ Sound(t) /\ t.src.edits = Legacy /\ t.src.form = "plain"
<1>1. PICK patch \in {"none", "applied"}, marked \in BOOLEAN, built \in BOOLEAN, bak \in BOOLEAN :
        t = LegacyTree(patch, marked, built, bak)
  BY DEF LegacyTrees
<1> DEFINE src == [form |-> "plain", patch |-> patch, edits |-> Legacy, objects |-> built]
<1>2. src \in Sources BY DEF Sources, Forms, Patches, Edits
<1>3. Mark(src) \in Marks BY <1>2 DEF Mark, Marks, Sources
<1>4. Original \in Marks /\ Nothing \in Marks
  BY DEF Original, Nothing, Marks, Patches, Edits
<1>5. t = [Downloaded EXCEPT !.src = src, !.include = Mark(src),
             !.cc = IF bak THEN "patched" ELSE "original", !.bak = bak,
             !.unpacked = TRUE, !.patched = marked, !.built = built,
             !.lib = IF built THEN Mark(src) ELSE Original,
             !.startups = IF built THEN Mark(src) ELSE Nothing]
  BY <1>1 DEF LegacyTree
<1>6. src.patch = patch /\ src.edits = Legacy /\ src.form = "plain" OBVIOUS
<1> HIDE DEF src
<1>7. t \in Trees BY <1>2, <1>3, <1>4, <1>5, Constants DEF Trees, Compilers
<1>8. Downloaded.whole BY DEF Downloaded, NoTree
<1>9. /\ t.whole /\ t.src = src /\ t.include = Mark(src) /\ t.patched = marked
      /\ t.built = built /\ (built => t.lib = Mark(src) /\ t.startups = Mark(src))
  BY <1>5, <1>8, Constants DEF Trees
<1>10. t.patched => t.src.patch = "applied" BY DEF LegacyTrees
<1> QED BY <1>6, <1>7, <1>9, <1>10 DEF Sound

(* A run begins with a tree that is sound, or none.                          *)
LEMMA InitIsSound ==
  ASSUME Init
  PROVE  IInv
<1>1. /\ build \in {NoTree, Downloaded} /\ installed \in {NoTree} \cup LegacyTrees
      /\ pc = "idle" /\ ~protected /\ ~refresh /\ edits = installed.src.edits
      /\ build # NoTree => installed \in LegacyTrees
      /\ installed = NoTree => build = NoTree
  <2>1. NoTree \notin LegacyTrees
    <3>1. ~NoTree.whole BY DEF NoTree
    <3> QED BY <3>1, LegacyIsSound DEF Sound
  <2> QED BY <2>1 DEF Init
<1>2. NoTree.src.edits = {} /\ NoTree.src.form = "none" /\ ~NoTree.whole
  BY DEF NoTree, NoSources
<1>3. installed \in LegacyTrees => installed.src.form = "plain" BY LegacyIsSound
<1>4. TypeInv
  <2>1. installed.src.edits \in Edits BY <1>1, <1>2, LegacyIsSound DEF Edits
  <2> QED BY <1>1, <2>1, Constants, LegacyIsSound DEF TypeInv, Init, Archives
<1>5. Sound(Downloaded) BY DEF Sound, Downloaded, NoTree, NoSources, Mark
<1>6. TreeInv
  <2>1. CASE build = NoTree
    <3>1. ~Exists(build) BY <1>2, <2>1 DEF Exists
    <3>2. HasSources => Sound(installed) BY <1>1, <1>2, LegacyIsSound DEF HasSources
    <3> QED
      BY <1>1, <2>1, <3>1, <3>2
      DEF TreeInv, Preparing, OnTree, Patching, Building, Copying, Cleaning
  <2>2. CASE build = Downloaded
    <3>1. Exists(build) /\ Sound(build) BY <1>5, <2>2 DEF Exists, Sound
    <3> QED
      BY <1>1, <3>1 DEF TreeInv, Preparing, OnTree, Patching, Building, Copying, Cleaning
  <2> QED BY <1>1, <2>1, <2>2
<1>7. CacheInv /\ MarkerInv /\ InstallInv
  BY <1>1
  DEF CacheInv, MarkerInv, InstallInv, ProtectedIsComplete, Outside, Preparing, OnTree,
      Patching, Building, Copying, Cleaning
<1>8. EditInv
  BY <1>1, <1>2, <1>3
  DEF EditInv, EditsKept, OnTree, Patching, Building, Copying, Cleaning
<1> QED BY <1>4, <1>6, <1>7, <1>8 DEF IInv

(* Every step keeps the invariant.                                           *)
LEMMA Inductive ==
  ASSUME IInv, [Next]_vars
  PROVE  IInv'
<1>1. CASE Next BY <1>1, TypeStep, CacheStep, TreeStep, MarkerStep, InstallStep, EditStep DEF IInv
<1>2. CASE UNCHANGED vars
  <2>1. UNCHANGED <<pc, want, after, cache, work, build, installed, refresh, protected, edits>>
    BY <1>2 DEF vars, disk, local
  <2>2. TypeInv' /\ CacheInv' BY <2>1 DEF IInv, TypeInv, CacheInv
  <2>3. TreeInv' BY <2>1 DEF IInv, TreeInv, Exists, HasSources, Sound
  <2>4. MarkerInv' BY <2>1 DEF IInv, MarkerInv
  <2>5. InstallInv' BY <2>1 DEF IInv, InstallInv, ProtectedIsComplete, HasSources
  <2>6. EditInv' BY <2>1 DEF IInv, EditInv, EditsKept
  <2> QED BY <2>2, <2>3, <2>4, <2>5, <2>6 DEF IInv
<1> QED BY <1>1, <1>2

(* Only the steps from the build to the tests write to share.                *)
LEMMA WritesFromBuilt ==
  ASSUME IInv, [Next]_vars, installed' # installed
  PROVE  build.patched /\ build.built /\ Current
<1>1. Next BY DEF vars, disk
<1>2. pc \in Copying \cup Cleaning
  BY <1>1 DEF Next, Start, Stop, StartDownload, Download, DownloadFails, PrepareTree, Import,
     Unzip, MoveTree, CheckTree, Refuse, NeedDos11, AddDos11, BackUpCompiler, CopyCompiler,
     PatchCompiler, StartUnpack, Unpack, StartPatch, Patch, MarkPatched, StartBuild,
     CopyLibraries, ExtractStartups, MarkBuilt, InstallFiles, RemoveSources, InstallAcc,
     Protect, EditSources, disk, local, Copying, Cleaning
<1>3. build.patched /\ build.built BY <1>2 DEF IInv, MarkerInv, Copying, Cleaning
<1>4. Sound(build) BY <1>2 DEF IInv, TreeInv, OnTree, Copying, Cleaning
<1> QED BY <1>3, <1>4 DEF Sound, Current

(* The invariant of the fetcher, for any number of runs and any edits.       *)
THEOREM Invariance == Spec => []IInv
<1>1. Init => IInv BY InitIsSound
<1>2. IInv /\ [Next]_vars => IInv' BY Inductive
<1> QED BY <1>1, <1>2, PTL DEF Spec

(* A build tree that exists is whole, and markers that make a later run skip *)
(* the build stand beside libraries and startups made from the sources.      *)
THEOREM MarkersAreTrue == Spec => []BuildTreeTellsTheTruth
<1>1. IInv => BuildTreeTellsTheTruth
  BY DEF IInv, TreeInv, BuildTreeTellsTheTruth, Sound, Current
<1> QED BY <1>1, Invariance, PTL

(* Nothing is written to share but from a tree that is built.                *)
THEOREM ShareComesFromBuilt == Spec => ActiveOnlyFromBuilt
<1>1. IInv /\ [Next]_vars => [installed' # installed => build.patched /\ build.built /\ Current]_vars
  BY WritesFromBuilt
<1> QED BY <1>1, Invariance, PTL DEF Spec, ActiveOnlyFromBuilt

(* Read-only files are those of one completed run.                           *)
THEOREM ReadOnlyIsComplete == Spec => []ProtectedIsComplete
<1>1. IInv => ProtectedIsComplete BY DEF IInv, InstallInv
<1> QED BY <1>1, Invariance, PTL

(* No change the user has made to the sources is lost.                       *)
THEOREM NoEditIsLost == Spec => []EditsKept
<1>1. IInv => EditsKept BY DEF IInv, EditInv
<1> QED BY <1>1, Invariance, PTL

=============================================================================
