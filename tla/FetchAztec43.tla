---------------------------- MODULE FetchAztec43 ----------------------------
(***************************************************************************)
(* fetch_tools and its largest fetcher, src/fetch/cross_aztec43, with the   *)
(* download cache (src/fetch/_archive) and the scripts of src/aztec43-patch: *)
(* the Aztec 4.3 sources are fetched or taken from an installation of old,   *)
(* unpacked, patched and built in archive/aztec43, and the products copied    *)
(* to share/aztec43.  Every run works on what the runs before it have left:  *)
(* any command may fail or the machine stop between two steps.  A command    *)
(* that writes many files is two steps, one that begins and one that ends.   *)
(*                                                                          *)
(* A tree is a record: its sources, and for what was made from sources the   *)
(* mark of the sources it was made from.  The other fetchers, the native     *)
(* tools and the tests may fail but change nothing of this.                  *)
(***************************************************************************)
EXTENDS Naturals, FiniteSets

CONSTANTS
  Legacy,       \* the user's own edits in an installation of old: {} or {"old"}
  MaxRuns       \* bound on the runs of fetch_tools

ASSUME FetchAssumption == MaxRuns \in Nat

VARIABLES
  pc,           \* the step the run is at; "idle" between runs, or "refused"
  want, after,  \* fetch_get: the archive and the step that needs it
  cache,        \* archive/: what is stored of each file and of its .part
  work,         \* the tree in the private work directory
  build,        \* archive/aztec43
  installed,    \* share/aztec43
  refresh,      \* refresh_startups
  protected,    \* the files of share are read-only
  runs,         \* runs begun
  stoppedAt,    \* history: the step at which the last run stopped
  edits         \* history: the user's own changes to the sources

disk == <<cache, build, installed, protected>>
local == <<work, refresh>>
vars == <<pc, want, after, disk, local, runs, stoppedAt, edits>>

Archives == {"aztecc86.zip", "az8634b.zip"}

(* form: "none", "packed", "torn" or "again" while unpack works on it for    *)
(* the first time or not, "plain", or "nested" when unpack had to work on a  *)
(* torn tree and renamed directories twice; patch: "none", "partial" or      *)
(* "applied"; objects: the build has left its products among the sources.    *)
NoSources == [form |-> "none", patch |-> "none", edits |-> {}, objects |-> FALSE]

(* What headers and libraries come from.                                     *)
Mark(src)  == [patch |-> src.patch, edits |-> src.edits]
Original   == [patch |-> "original", edits |-> {}]
Mixed      == [patch |-> "mixed", edits |-> {}]
Nothing    == [patch |-> "nothing", edits |-> {}]

NoTree == [whole |-> FALSE, src |-> NoSources, include |-> Nothing, cc |-> "none",
           bak |-> FALSE, dos11 |-> FALSE, unpacked |-> FALSE, patched |-> FALSE,
           built |-> FALSE, lib |-> Nothing, startups |-> Nothing, acc |-> FALSE]

Downloaded ==
  LET src == [NoSources EXCEPT !.form = "packed"]
  IN [NoTree EXCEPT !.whole = TRUE, !.src = src, !.include = Mark(src),
                    !.cc = "original", !.lib = Original]

(* An installation of old, made when share held the sources too: patched or  *)
(* not, with the marker of this patch or an older one, built or not.         *)
LegacyTree(patch, marked, built, bak) ==
  LET src == [form |-> "plain", patch |-> patch, edits |-> Legacy, objects |-> built]
  IN [Downloaded EXCEPT !.src = src, !.include = Mark(src),
                        !.cc = IF bak THEN "patched" ELSE "original", !.bak = bak,
                        !.unpacked = TRUE, !.patched = marked, !.built = built,
                        !.lib = IF built THEN Mark(src) ELSE Original,
                        !.startups = IF built THEN Mark(src) ELSE Nothing]
LegacyTrees ==
  {tree \in {LegacyTree(patch, marked, built, bak) : patch \in {"none", "applied"},
               marked \in BOOLEAN, built \in BOOLEAN, bak \in BOOLEAN} :
     tree.patched => tree.src.patch = "applied"}

(* Nothing is there, or an installation of old, or one beside a build tree   *)
(* that does not have its sources.                                           *)
Init ==
  /\ pc = "idle" /\ want = "aztecc86.zip" /\ after = "none"
  /\ cache = [a \in Archives |-> [file |-> "none", part |-> "none"]]
  /\ work = NoTree /\ refresh = FALSE /\ protected = FALSE
  /\ runs = 0 /\ stoppedAt = "none"
  /\ \/ build = NoTree /\ installed = NoTree
     \/ build \in {NoTree, Downloaded} /\ installed \in LegacyTrees
  /\ edits = installed.src.edits

Goto(step) == pc' = step /\ UNCHANGED <<runs, stoppedAt, edits>>
Exists(tree) == tree.whole \/ tree.src.form # "none"
HasSources == installed.src.form # "none"

-----------------------------------------------------------------------------
(***************************************************************************)
(* fetch_tools                                                             *)
(***************************************************************************)

(* unprotect, and the fetchers that come before.                             *)
Start ==
  /\ pc \in {"idle", "refused"} /\ runs < MaxRuns
  /\ pc' = "tree" /\ runs' = runs + 1
  /\ protected' = FALSE
  /\ work' = NoTree /\ refresh' = FALSE
  /\ UNCHANGED <<want, after, cache, build, installed, stoppedAt, edits>>

(* A command fails, so that the script ends (set -e), or everything stops.   *)
(* The work directory is removed or left behind: a run never looks at that   *)
(* of another.                                                               *)
Stop ==
  /\ pc \notin {"idle", "refused"}
  /\ pc' = "idle" /\ stoppedAt' = pc
  /\ UNCHANGED <<want, after, disk, local, runs, edits>>

(* The script itself ends the run.                                           *)
Refuse == Goto("refused") /\ UNCHANGED <<want, after, disk, local>>

-----------------------------------------------------------------------------
(***************************************************************************)
(* fetch_get, run without ARCHIVE_FIRST (env -i in fetch_tools)             *)
(***************************************************************************)

Fetch(name, step) ==
  /\ want' = name /\ after' = step /\ Goto("get")

StartDownload ==
  /\ pc = "get"
  /\ cache' = [cache EXCEPT ![want].part = "partial"]
  /\ Goto("wget")
  /\ UNCHANGED <<want, after, build, installed, protected, local>>

Download ==
  /\ pc = "wget"
  /\ cache' = [cache EXCEPT ![want] = [file |-> "whole", part |-> "none"]]
  /\ Goto(after)
  /\ UNCHANGED <<want, after, build, installed, protected, local>>

(* wget fails: a cached copy is used if there is one.                        *)
DownloadFails ==
  /\ pc = "wget"
  /\ cache' = [cache EXCEPT ![want].part = "none"]
  /\ IF cache[want].file # "none" THEN Goto(after)
     ELSE pc' = "idle" /\ stoppedAt' = pc /\ UNCHANGED <<runs, edits>>
  /\ UNCHANGED <<want, after, build, installed, protected, local>>

-----------------------------------------------------------------------------
(***************************************************************************)
(* The build tree                                                          *)
(***************************************************************************)

PrepareTree ==
  /\ pc = "tree"
  /\ IF Exists(build) THEN Goto("check") /\ UNCHANGED <<want, after>>
     ELSE IF HasSources THEN Goto("import") /\ UNCHANGED <<want, after>>
     ELSE Fetch("aztecc86.zip", "unzip")
  /\ UNCHANGED <<disk, local>>

(* The tree is put together in the work directory: from the installation of  *)
(* old with its markers, or from the archive.                                *)
Import ==
  /\ pc = "import"
  /\ work' = installed /\ Goto("move")
  /\ UNCHANGED <<want, after, disk, refresh>>

Unzip ==
  /\ pc = "unzip"
  /\ work' = [Downloaded EXCEPT !.whole = (cache["aztecc86.zip"].file = "whole")]
  /\ Goto("move")
  /\ UNCHANGED <<want, after, disk, refresh>>

MoveTree ==
  /\ pc = "move"
  /\ build' = work /\ work' = NoTree
  /\ Goto("check")
  /\ UNCHANGED <<want, after, cache, installed, protected, refresh>>

(* mutant: an installation of old is taken to be where the build came from *)
NeverDiffer == FALSE

(* diff -r of the sources, with whatever the build has left among them, and  *)
(* of the headers.                                                           *)
Differ == HasSources /\ (installed.src # build.src \/ installed.include # build.include)

CheckTree ==
  /\ pc = "check"
  /\ IF build.cc = "none" \/ Differ THEN Refuse
     ELSE Goto("dos11") /\ UNCHANGED <<want, after, disk, local>>

(* The sources of the DOS 1.1 library come from another archive.             *)
NeedDos11 ==
  /\ pc = "dos11"
  /\ IF ~build.unpacked /\ ~build.dos11 THEN Fetch("az8634b.zip", "dos11 unzip")
     ELSE Goto("cc") /\ UNCHANGED <<want, after>>
  /\ UNCHANGED <<disk, local>>

AddDos11 ==
  /\ pc = "dos11 unzip"
  /\ build' = [build EXCEPT !.dos11 = TRUE]
  /\ Goto("cc")
  /\ UNCHANGED <<want, after, cache, installed, protected, local>>

-----------------------------------------------------------------------------
(***************************************************************************)
(* The patches                                                             *)
(***************************************************************************)

(* patch_aztec43_batch: the compiler is renamed to its backup and copied     *)
(* back, and one byte of the copy is changed.  Only the backup tells that    *)
(* this has been done.                                                       *)
BackUpCompiler ==
  /\ pc = "cc"
  /\ IF build.bak THEN Goto("unpack") /\ UNCHANGED build
     ELSE Goto("cc copy") /\ build' = [build EXCEPT !.bak = TRUE, !.cc = "none"]
  /\ UNCHANGED <<want, after, cache, installed, protected, local>>

CopyCompiler ==
  /\ \/ pc = "cc copy" /\ build' = [build EXCEPT !.cc = "partial"] /\ Goto("cc copying")
     \/ pc = "cc copying" /\ build' = [build EXCEPT !.cc = "original"] /\ Goto("cc patch")
  /\ UNCHANGED <<want, after, cache, installed, protected, local>>

PatchCompiler ==
  /\ pc = "cc patch"
  /\ build' = [build EXCEPT !.cc = "patched"]
  /\ Goto("unpack")
  /\ UNCHANGED <<want, after, cache, installed, protected, local>>

(* unpack extracts archives over what is there and renames directories; a    *)
(* directory renamed by an earlier, stopped call gets the new one inside it. *)
StartUnpack ==
  /\ pc = "unpack"
  /\ IF build.unpacked THEN Goto("patch") /\ UNCHANGED build
     ELSE /\ build' = [build EXCEPT !.src.form = IF @ = "packed" THEN "torn" ELSE "again"]
          /\ Goto("unpacking")
  /\ UNCHANGED <<want, after, cache, installed, protected, local>>

Unpack ==
  /\ pc = "unpacking"
  /\ \E form \in {"plain", "nested"} :
       /\ form = "nested" => build.src.form = "again"
       /\ build' = [build EXCEPT !.src.form = form, !.unpacked = TRUE]
  /\ Goto("patch")
  /\ UNCHANGED <<want, after, cache, installed, protected, local>>

(* apply_patches: the marker, then git apply --reverse --check, then git     *)
(* apply --check, which refuses a tree in between.                           *)
StartPatch ==
  /\ pc = "patch"
  /\ CASE build.patched -> Goto("build") /\ UNCHANGED build
       [] ~build.patched /\ build.src.patch = "applied" -> Goto("unbuilt") /\ UNCHANGED build
       [] ~build.patched /\ build.src.patch = "partial" ->
            Goto("refused") /\ UNCHANGED build
       [] OTHER ->
            /\ build' = [build EXCEPT !.src.patch = "partial", !.include.patch = "partial"]
            /\ Goto("patching")
  /\ UNCHANGED <<want, after, cache, installed, protected, local>>

Patch ==
  /\ pc = "patching"
  /\ build' = [build EXCEPT !.src.patch = "applied", !.include.patch = "applied"]
  /\ Goto("unbuilt")
  /\ UNCHANGED <<want, after, cache, installed, protected, local>>

(* mutant: the marker is written before the libraries are declared old *)
MarkFirst ==
  \/ /\ pc = "unbuilt"
     /\ build' = [build EXCEPT !.patched = TRUE] /\ Goto("mark")
     /\ UNCHANGED <<want, after, cache, installed, protected, local>>
  \/ /\ pc = "mark"
     /\ build' = [build EXCEPT !.built = FALSE] /\ Goto("build")
     /\ UNCHANGED <<want, after, cache, installed, protected, local>>

(* The libraries are declared old before the sources are declared patched.   *)
MarkPatched ==
  \/ /\ pc = "unbuilt"
     /\ build' = [build EXCEPT !.built = FALSE] /\ Goto("mark")
     /\ UNCHANGED <<want, after, cache, installed, protected, local>>
  \/ /\ pc = "mark"
     /\ build' = [build EXCEPT !.patched = TRUE] /\ Goto("build")
     /\ UNCHANGED <<want, after, cache, installed, protected, local>>

-----------------------------------------------------------------------------
(***************************************************************************)
(* Build and installation                                                  *)
(***************************************************************************)

(* mutant: libraries that are there need not be built *)
BuildUnlessThere ==
  /\ pc = "build"
  /\ IF build.built \/ build.lib # Original THEN Goto("startups") /\ UNCHANGED build
     ELSE Goto("compile") /\ build' = [build EXCEPT !.src.objects = TRUE]
  /\ UNCHANGED <<want, after, cache, installed, protected, local>>

StartBuild ==
  /\ pc = "build"
  /\ IF build.built THEN Goto("startups") /\ UNCHANGED build
     ELSE Goto("compile") /\ build' = [build EXCEPT !.src.objects = TRUE]
  /\ UNCHANGED <<want, after, cache, installed, protected, local>>

(* The libraries are built among the sources and copied to lib.              *)
CopyLibraries ==
  /\ \/ pc = "compile" /\ build' = [build EXCEPT !.lib = Mixed]
        /\ Goto("copy lib") /\ UNCHANGED refresh
     \/ pc = "copy lib" /\ build' = [build EXCEPT !.lib = Mark(build.src)]
        /\ Goto("startups") /\ refresh' = TRUE
  /\ UNCHANGED <<want, after, cache, installed, protected, work>>

(* mutant: startups that are there are kept *)
ExtractMissing ==
  /\ pc = "startups"
  /\ build' = [build EXCEPT !.startups = IF @ = Nothing THEN build.lib ELSE @]
  /\ Goto("built")
  /\ UNCHANGED <<want, after, cache, installed, protected, local>>

ExtractStartups ==
  /\ pc = "startups"
  /\ build' = [build EXCEPT !.startups = IF refresh THEN build.lib ELSE @]
  /\ Goto("built")
  /\ UNCHANGED <<want, after, cache, installed, protected, local>>

MarkBuilt ==
  /\ pc = "built"
  /\ build' = [build EXCEPT !.built = @ \/ refresh]
  /\ Goto("install")
  /\ UNCHANGED <<want, after, cache, installed, protected, local>>

(* cp -R of bin, include and lib, each of which may stop in the middle; the  *)
(* startups lie in lib.                                                      *)
InstallFiles ==
  /\ \/ pc = "install"         /\ installed' = [installed EXCEPT !.cc = "partial"]
                               /\ Goto("install bin")
     \/ pc = "install bin"     /\ installed' = [installed EXCEPT !.cc = build.cc,
                                                                 !.include = Mixed]
                               /\ Goto("install include")
     \/ pc = "install include" /\ installed' = [installed EXCEPT !.include = build.include,
                                                                 !.lib = Mixed, !.startups = Mixed]
                               /\ Goto("install lib")
     \/ pc = "install lib"     /\ installed' = [installed EXCEPT !.lib = build.lib,
                                                                 !.startups = build.startups]
                               /\ Goto("remove")
  /\ UNCHANGED <<want, after, cache, build, protected, local>>

(* The sources of an installation of old are removed, then its markers.      *)
RemoveSources ==
  /\ \/ /\ pc = "remove" /\ HasSources
        /\ installed' = [installed EXCEPT !.src = [NoSources EXCEPT !.form = "torn"]]
        /\ Goto("removing")
     \/ /\ pc \in {"remove", "removing"} /\ (pc = "remove" => ~HasSources)
        /\ installed' = [installed EXCEPT !.src = NoSources]
        /\ Goto("markers")
     \/ /\ pc = "markers"
        /\ installed' = [installed EXCEPT !.built = FALSE, !.unpacked = FALSE,
                                          !.patched = FALSE]
        /\ Goto("acc")
  /\ UNCHANGED <<want, after, cache, build, protected, local>>

InstallAcc ==
  /\ pc = "acc"
  /\ installed' = [installed EXCEPT !.acc = TRUE]
  /\ Goto("tests")
  /\ UNCHANGED <<want, after, cache, build, protected, local>>

(* The fetchers that follow and the tests have passed.                       *)
Protect ==
  /\ pc = "tests"
  /\ protected' = TRUE
  /\ Goto("idle")
  /\ UNCHANGED <<want, after, cache, build, installed, local>>

(* src/aztec43-patch/README.md: the user edits the sources of the build tree *)
(* and removes the marker.                                                   *)
EditSources ==
  /\ pc \in {"idle", "refused"} /\ build.patched
  /\ build' = [build EXCEPT !.src.edits = @ \cup {"new"}, !.include.edits = @ \cup {"new"},
                            !.built = FALSE]
  /\ "new" \notin edits /\ edits' = edits \cup {"new"}
  /\ UNCHANGED <<pc, want, after, cache, installed, protected, local, runs, stoppedAt>>

Next ==
  \/ Start \/ Stop
  \/ StartDownload \/ Download \/ DownloadFails
  \/ PrepareTree \/ Import \/ Unzip \/ MoveTree \/ CheckTree \/ NeedDos11 \/ AddDos11
  \/ BackUpCompiler \/ CopyCompiler \/ PatchCompiler
  \/ StartUnpack \/ Unpack \/ StartPatch \/ Patch \/ MarkPatched
  \/ StartBuild \/ CopyLibraries \/ ExtractStartups \/ MarkBuilt
  \/ InstallFiles \/ RemoveSources \/ InstallAcc \/ Protect
  \/ EditSources

Spec == Init /\ [][Next]_vars

-----------------------------------------------------------------------------
(***************************************************************************)
(* Properties                                                              *)
(***************************************************************************)

Current == /\ build.src.patch = "applied"
           /\ build.lib = Mark(build.src) /\ build.startups = Mark(build.src)

(* cross_aztec43:11-28: a build tree that exists, which is all that later    *)
(* runs look at, is whole, even if it came from an archive that an earlier,  *)
(* stopped run has stored (_archive:21-30).  cross_aztec43:64-87 and         *)
(* apply_patches:29-33: markers that make a later run skip the build stand   *)
(* only beside libraries and startups built from the sources as they are.    *)
BuildTreeTellsTheTruth ==
  Exists(build) =>
    /\ build.whole
    /\ build.patched /\ build.built => Current

(* src/aztec43-patch/README.md: "Products are copied into share after the    *)
(* build succeeds", and DEVEL.md: "A failed build leaves the existing        *)
(* installation in place": no step writes to the installation unless the     *)
(* build tree is marked built and is.                                        *)
ActiveOnlyFromBuilt ==
  [][installed' # installed => build.patched /\ build.built /\ Current]_vars

(* fetch_tools:235-290: files are read-only only when no run is under way    *)
(* and the last one has completed: what is installed then comes from one     *)
(* state of the patched sources, none of which is left in share, and has its *)
(* driver.                                                                   *)
ProtectedIsComplete ==
  protected =>
    /\ pc \in {"idle", "refused"}
    /\ installed.include.patch = "applied"
    /\ installed.lib = installed.include /\ installed.startups = installed.include
    /\ ~HasSources /\ ~installed.built /\ ~installed.patched /\ installed.acc

(* cross_aztec43:33-42, README.md "preserving local source/header edits":    *)
(* what the user has changed in the sources is never lost, although the      *)
(* sources in share are removed.                                             *)
EditsKept ==
  edits \subseteq build.src.edits \cup (IF installed.src.form = "plain"
                                       THEN installed.src.edits ELSE {})

-----------------------------------------------------------------------------
(***************************************************************************)
(* What the documents say and the code does not do                         *)
(***************************************************************************)

(* src/aztec43-patch/README.md:58: "A failed build leaves it absent, so the  *)
(* next run retries."  Violated: with an installation of old, whose sources  *)
(* are still in share, the next run finds that they differ from those the    *)
(* build has worked on, and refuses.                                         *)
NextRunRetries == pc = "refused" => stoppedAt # "compile"

(* README.md:42: "The patched compiler itself remains installed."  Violated: *)
(* the backup alone tells that the compiler was patched, and it is made      *)
(* first.                                                                    *)
CompilerIsPatched == protected => installed.cc = "patched"
=============================================================================
