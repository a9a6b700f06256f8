# Verification of cpm86-crossdev

TLA+ models, TLC checks and TLAPS proofs for the code of this repository that
makes decisions: the `acc` driver of the Aztec C cross compiler first, then the
object and image converters and the scripts that fetch and build the tools.
Paths below are relative to the repository root.

## 1. Inventory

| Component | Source | State it keeps | Operations | Module |
| --- | --- | --- | --- | --- |
| acc Unix executor | `src/aztec43-acc/execunix.c` | signal flag, installed handlers, workspace, child, staged copy, destinations, status | `execute_plan`, `launch`, `verify_product`, `publish`, `remove_workspace`, `on_signal` | `AccExecUnix` |
| acc DOS executor | `src/aztec43-acc/execdos.c` | interrupt flag, handler, workspace, staged copy, backup, destinations, status | `execute_plan`, `dos_launch`, `dos_publish`, `dos_cleanup`, `on_interrupt` | `AccExecDos` |
| acc planner | `src/aztec43-acc/plan.c` | commands, outputs, counter of temporaries | `build_plan` and its helpers | `AccPlan` |
| acc raw options, profiles, command words | `raw.c`, `profile.c`, the option part of `plan.c` | the argument list being filled | `raw_append`, the flag parts of `compile_input` and `link_inputs` | `AccCommand` |
| acc main and request parser | `acc.c`, `args.c`, `words.c` | the request being filled, exit status | `main`, `parse_request`, `define_macro`, `add_word` | `AccArgs` |
| acc path mapping | `path.c` | buffers and counters of one call | `path_canonical`, `path_guest` | `AccPath`, `AccPathDos` |
| hexcom | `src/tools/hexcom.c` | memory image, first and last address, the .com file | one step per HEX record, then padding and writing | `Hexcom` |
| drpli_objfix | `src/plitools/drpli_objfix.c` | OMF records, segment extents, thread tables, the output | `patch_segdefs`, `expand_fixupp_threads`, `fix_obj_file` | `ObjFix` |
| Aztec 4.3 fetcher, download cache, patch scripts, fetch driver | `fetch_tools`, `src/fetch/_archive`, `src/fetch/cross_aztec43`, `src/aztec43-patch/*` | `archive/`, build tree with markers (`unpacked`, `patched-runtime`, `built`, `cc.exe.bak`), `share/` and its permissions | `fetch_get`, unpack, patch, build, install, `protect`, `unprotect` | `FetchAztec43` |
| other fetchers, wrappers, doscat, plan printer, regression library | `src/fetch/*`, `bin/*`, `src/tools/doscat.c`, `print.c`, `src/aztecreg` | none of their own, or one test of one file | copy, start a tool, filter or format text | not modelled |
| vendored tools, examples, tests, documents, container | `src/*packages`, `examples`, ... | | | not modelled: third-party binaries, data and prose |

How they interact. `fetch_tools` runs the fetchers, which unpack, patch, build
and install the tools under `share/`; one of them builds and installs `acc`.
`acc` parses its arguments into a request, builds a plan from it (pure data),
and an executor runs the plan's commands under the emulator, one child at a
time, in a private workspace, and publishes the products. Parser and planner
share the request; planner and executor the plan; executor and tools the
workspace and an exit status; the executor and everybody else the destination
files and signals. The driver and the tools agree on guest paths, which
`path.c` makes and the emulator's drive mapping undoes. The runs of
`fetch_tools` share the cache, the build tree and the installation with the
runs before them.

What is hard: signals that land anywhere in the executor, on the driver alone
or on the child as well; tools that report success without writing; system
calls that fail half-way through a publication; crashes; on DOS, renames that
cannot replace a file and a handler that works once; options in any order that
contradict each other; raw options found by prefix; names that DOS would alias;
buffers and 16-bit addresses at their limit; in the fetch pipeline, runs
stopped between two steps and started again.

What makes each part correct: nothing unfinished is ever published; status 0
means everything is done; the first failure is the one reported; nothing is
left behind; every run ends; a plan's temporaries and outputs do not collide
and no input is overwritten; a tool is told what the user asked; a guest name
denotes the file that was meant; a converter's output describes the same bytes
as its input; markers never claim what has not been done, and a user's edits
survive.

## 2. Modules

| Module | Models | Lines of the source it stands for |
| --- | --- | --- |
| `AccPublication` | The abstract promise of `execute_plan`, on either host: outputs replaced one at a time in plan order, each in one step, none before all commands have succeeded, success only when all are replaced | |
| `AccProducts` | What both executors share: the plan they are given, who wrote a file, `verify_product`, "the first error stays" | both `exec*.c` |
| `AccExecUnix` | The Unix executor, its child and the outside world | `execunix.c` |
| `AccExecDos` | The DOS executor and Ctrl-C | `execdos.c` |
| `AccPlan` | The planner, one action per check, input, command or output | `plan.c` |
| `AccCommand` | The words of one tool's command | `raw.c`, `profile.c`, `plan.c` 589-703, 827-853 |
| `AccArgs` | `main` and the parser, one action per kind of argument | `acc.c`, `args.c`, `words.c` |
| `AccPath`, `AccPathDos` | `path_guest` with `path_canonical` of Unix; `path_canonical` of DOS | `path.c` 32-357 |
| `Hexcom` | `main`, one action per record | `hexcom.c` |
| `ObjFix` | The three passes, one action per record or subrecord | `drpli_objfix.c` |
| `FetchAztec43` | Repeated runs of the fetcher, one action per command or marker | see above |
| `AccExecUnixProofs`, `AccExecDosProofs`, `AccPlanProofs`, `AccArgsProofs`, `AccPathProofs`, `HexcomProofs`, `ObjFixProofs`, `FetchAztec43Proofs` | TLAPS proofs (section 4) | |
| `MC*` | Plans, requests, paths and bounds for model checking | |

`AccExecUnix` and `AccExecDos` extend `AccProducts` and instantiate
`AccPublication`; `AccPath` instantiates `AccPathDos` and runs it as the first
half of a call. The others meet at their interfaces: what `AccArgs` accepts
satisfies what `AccPlan` and `AccCommand` take for granted of a request
(`AcceptedIsConsistent` ends with it), and the plans of `MCAccExecUnix` have the
shape of those `AccPlan` builds.

### Executors

A file's content is who wrote it: a command number for a complete file,
`Truncated` (0) for an empty or partly copied one, `Absent`, or `Previous` for
what a destination held before the run. That is all that `verify_product` (a
non-empty regular file) and the properties tell apart. A plan is a constant: a
sequence of commands with the product each must create and other files its tool
may write, and the sequence of products to publish. Destinations are distinct
because `output_path` in `plan.c` refuses collisions. Names, argument and
environment strings appear only as the success or failure of the step that
builds them. `-v`, diagnostics and the release of memory are left out.

In `AccExecUnix` each action is the code between two points where another actor
can act. The wait loop of `launch` (311-315) is three actions, because the
difference matters: `Forward` reads `interrupted` and calls `kill`; `Block`
enters `waitpid`; a signal while blocked returns EINTR and goes back to
`Forward`; `Reap` is `waitpid` returning. The child is `forked` until `execve`
(it still has `on_signal`, so a signal is swallowed), then `running`, then
`exited` until reaped.

| Actions | Code |
| --- | --- |
| `Resolve`, `InstallHandler`, `MakeWorkspace` | `execute_plan` 476-500, one `sigaction` at a time |
| `LeaveCommands`, `StartCommand`, `VerifyProduct` | the command loop, 503-517 |
| `Fork`, `Forward`, `Block`, `Reap`, `LaunchResult` | `launch` |
| `StartPublish`, `MissingProduct`, `LeavePublish` | the publication loop, 518-523 |
| `Stage`, `Copy`, `Sync`, `CheckInterrupt`, `Rename`, `FinishPublish`, `Unstage` | `publish`, including its `done:` part |
| `Cleanup`, `RestoreHandler`, `Return` | `done:` in `execute_plan`, 524-547 |
| `Exec`, `ExecFails`, `ToolExits`, `ToolKilled` | the child; a tool exits with any status and leaves any of its files whole, truncated or untouched |
| `Signal`, `Crash` | SIGINT, SIGTERM or SIGHUP to the driver (or to the group, which includes the tool); SIGKILL or power loss |

DOS stops the driver while a tool runs, so in `AccExecDos` the only concurrency
is Ctrl-C. `docs/aztec43/clib-ref.md` 168-173 gives the library's rules, which
the model takes as the environment: the hook resets SIGINT to `SIG_DFL` before
calling the handler, `SIG_DFL` is `_exit(255)`, a child starts with `SIG_DFL`.
`CtrlC` may hit between any two steps. `RunTool` keeps the word `wait` returns:
the return code in the low byte and how the program ended in the high byte,
which `ExitStatus` drops. `Backup`, `Rename`, `Restore`, `Discard`, `DropBackup`
are the file operations of `dos_publish` one by one, each of which may fail.

### Planner and command words

The planner is sequential; what makes it worth checking is the product of its
inputs. `Init` of `AccPlan` picks any request that the parser accepts, `pc`
walks through `build_plan`, `item` is the index of its loops. A file is a
directory, a stem and a suffix; a workspace file has also a number. Names are
equal when `path_equal` finds their guest forms equal, and `HardLinks` gives
files a second name. A command keeps the files its tool reads, in order; the
errors that what is left out can cause (lengths, memory, guest names) are in
`Refuse`, which is always possible.

`AccCommand` is the other half of a command: its options, as sequences of
characters, because raw options are found by comparing prefixes. `options` is
the table of `raw.c`; `Fits` is the loop body that compares a row; `RawAppend`
takes the first row that fits. `Add` is `add_word`, with its limit. The files
of a link are `AccPlan`'s; product, source and include areas are one
"character" each.

### Parser and paths

`AccArgs` reads arguments chosen one at a time from a menu, so that every order
is tried. A token keeps its option and its value; `args` is history, on which
the properties are stated. `AccPath` works on characters of a small alphabet
that has a member for every case of the code (letter, digit that makes a
device, dot, both separators, colon, a character DOS does not have). `host` is
what `realpath` and `lstat` say of the argument; the properties are stated on
the names a path is made of, not on its characters.

### Converters

In `Hexcom` the byte at position i of data record n is the token
`[rec |-> n, at |-> i]`, so that a byte that is misplaced, lost or overwritten
is seen; `Mask` is the reduction to 16 bits that `last_addr` does not have.
`ObjFix` keeps segment, offset, lengths (words, modulo `WORD`) and the
subrecords of FIXUPP with their datums as tokens; its history variables `input`
and `origin` let `ConversionKeepsMeaning` compare what a fixup says before and
after, by a definition that looks threads up in the input from the start each
time.

### Fetcher

`FetchAztec43` keeps of each tree what the scripts look at (markers, files
whose presence is tested, what `diff -r` compares) and, for what was built from
sources, the mark of those sources. A command that writes many files is two
steps. `Stop` may come at any of them: a failing command (`set -e`), an
interrupt or a power loss; `Start` is the next run. `EditSources` is the user
following `src/aztec43-patch/README.md`.

## 3. Runs

| Run | Bounds | Question |
| --- | --- | --- |
| `unix_safety` | 3 commands, 2 outputs, 1 non-zero tool status, 2 signals; `HungToolSpec` | does any interleaving, failure or crash publish an unfinished file, report a false success, lose the first error, leave files behind, or never end |
| `dos_safety` | 3 commands, 2 outputs, 2 Ctrl-C | is the previous file ever lost, is the status true |
| `plan_safety` | 13929 requests, lists of at most 3 of 10 inputs, 8 words a list, 4 temporaries | do temporaries or outputs collide, is anything read overwritten, does the linker get every file at its place |
| `command_words` | every combination of settings; 32 spellings with 17 operands; 14 words a list | does the tool read what the user asked, whatever raw options there are |
| `args_options` | 3 of 57 arguments, 5 of the 12 that contradict each other, 3 words a list | does the request say what the arguments say, can an order hide a contradiction |
| `path_guest` | names of up to 3 characters; 8.3 is 2.2, the DOS limit 9, a host path 12; 2 paths | is a path accepted exactly when DOS has it, does it denote the same file |
| `hexcom_safety` | 8 addresses, page zero 2, records of 4 bytes, 3 HEX records | is the file what the records say; do address arithmetic or a short image go wrong |
| `objfix_passes` | words modulo 8, 2 segments, 2 threads; MCObjFix's `Shapes` | does a fixup mean the same, does a segment cover its data |
| `fetch_rerun` | 3 runs, 1 edit in an old installation and 1 later | do markers, cache, tree and installation agree whatever was interrupted |

Runs that end in a violation are in section 5.

Why the bounds are enough. The plan of the executors is
`acc -g -squeeze -o a.exe a.c`: a compile, a squeeze that rewrites the object in
place, and a link through a response file that also writes `a.dbg`. It has a
product written by two commands, one that no check of the command loop looks
at, and two outputs, so that a publication can stop between them. Two signals
are enough for one to be caught and another to arrive later, at a handler,
while blocked, or after the handlers have been restored. One non-zero tool
status suffices because the code compares statuses with 0 only.
`ListLimit` and `TempLimit` stand for 128 and 9999 and are small so that lists
and the counter do fill up. The address space of `Hexcom` is two of its
CP/M records long, and HEX records of up to 3 bytes wrap at its end and run past
a smaller image; the words of `ObjFix` overflow with two LEDATA records. The
path limits are lowered together so that every one is met and passed. Three
fetch runs are a stopped one, one that goes on from it and is stopped later, and
one that completes. What is proved (section 4) holds for every value.

Deadlock is not checked: the programs end.

| Property | What it says |
| --- | --- |
| `PublishedIsBuilt` | at every instant, crashes included, a destination holds its old content or a complete product of a run whose commands all succeeded |
| `InterruptStopsPublication` | which outputs may still appear after a caught signal |
| `SuccessIsComplete`, `FirstFailureReported` | what status 0 means; no later error replaces a tool's status |
| `NothingLeftBehind` | no workspace or staged copy, unless removing it failed and the status says so |
| `ToolNeverOutlivesWorkspace` | the driver never removes the workspace or ends by return or signal while it has a child |
| `Terminates`, `ForwardedInterruptEnds` | every run whose tools exit ends; with a tool that does not, a signal seen at the top of the wait loop ends it |
| `DestinationsSafe` (DOS) | the old file exists at its name or as the only backup until the new one is in place; what is published was built; an early Ctrl-C publishes nothing |
| `StatusTellsTheTruth` (DOS) | success is complete, the first failure is reported, nothing is left behind that the status does not admit |
| `ImplementsPublication` | every behaviour is one of `AccPublication`; on DOS a destination whose file is in its backup counts as not yet replaced |
| `TemporariesDistinct` | no command destroys what another wrote in the workspace, except `sqz` its object; no two outputs are one product |
| `CommandsFit` | a command reads only workspace files that an earlier one wrote, what is published was written, every source is compiled once, squeezed right after if asked, and delivered |
| `OutputsSafe`, `NothingReadIsReplaced` | destinations are distinct, and none is an input under any of its names, nor a library found by `-l`, a stock file or an overlay table |
| `LinkOrder`, `ImageMatchesTarget` | the linker gets every input at the user's place; suffix, target, model and overlay agree |
| `SettingsReachTool` | read as the tool reads them, the words give back the processor, model, coprocessor, macros and link addresses of the request |
| `RawNeverContradicts` | a built command has only raw options that the documents allow with their operands, and none that is the driver's own; a legal one is never refused as unknown |
| `RequestIsArguments` | the request after reading is a function of the arguments: last one, any one, or all in order |
| `AcceptedIsConsistent` | no order of options hides a contradiction; what is accepted satisfies the planner's assumptions |
| `AcceptedExactly`, `DenotesSameFile`, `CanonicalIsNormal` | a path is accepted exactly when DOS has each of its names; the guest name leads back to the file meant; `..` is folded as the directories say |
| `FileIsImage`, `MalformedLeavesEmpty` | the .com holds exactly the bytes of the records, rounded and padded; a bad source never leaves an older image |
| `ConversionKeepsMeaning`, `SegdefsCoverData`, `Idempotent` | every fixup keeps frame, target, displacement and the data it applies to; lengths cover data and never the sum of less; a second run changes nothing |
| `BuildTreeTellsTheTruth` | a tree that exists is whole; markers stand only beside what they claim |
| `ActiveOnlyFromBuilt`, `ProtectedIsComplete` | share is written only from a tree that is built; read-only files are those of one completed run |
| `EditsKept` | no edit of the user is lost |

Each module has at most one type invariant; that of `Hexcom` includes the
bounds of every access to the image, and the bounds of the buffers of `path.c`
are part of `AcceptedExactly`.

Fairness. `HungToolSpec` (of `AccExecUnix`) schedules the driver: the system
calls it makes return. Of the child it assumes only that `fork`'s child reaches
`execve` and that a tool dies of a signal it was sent (the emulator installs no
handler that the code of this repository knows of). Nothing is assumed of
signals, crashes, or that tools exit: `Terminates` has that as its premise.

## 4. Proofs

Each theorem holds for every value of the constants that satisfies the module's
named assumptions. Each invariant proved is a consequence of an inductive one,
`IInv`, whose conjuncts have a lemma each (`...Step`: every action keeps it);
`Inductive` puts them together.

| Module | Proved | Assumptions | What the inductive invariant adds |
| --- | --- | --- | --- |
| `AccExecUnixProofs` | all seven invariants of `unix_safety`, and `ImplementsPublication` | `PlanShape`, `MaxSignalsIsNat` | `ControlInv`: where the driver is bounds its indices, its child and its workspace; `StatusInv`: which steps are reached with status 0; `BuiltInv`: the command counter only passes a command that succeeded; `ContentInv`: who wrote a non-empty file; `OrderInv`: destinations before the current output are replaced and those after it are not, and a caught signal freezes the last one; `CleanupInv`: what cleaning up left is in `undeleted` |
| `AccExecDosProofs` | all invariants of `dos_safety`, and `ImplementsPublication` | `PlanShape`, `MaxInterruptsIsNat` | the same without the child, and `SwapInv`, `BackupInv`: a file that gives way is in its backup, the only one there is, until the new file is in place |
| `AccPlanProofs` | all seven invariants of `plan_safety` | `LimitsAreNat`, `RequestShape`; for `CommandsFit` and `NothingReadIsReplaced` also `WorkspaceIsApart` | `SafeInv`: there is no output before the inputs are final, and a link's executable is the first output; `TempInv`: the numbers of products and response files grow with the commands, `sqz` rewrites the product of the command before it and no other, the outputs of a link share a stem and so do their products; `PlanInv`: what `validate` and `resolve_target` have established of the request; the commands, objects and outputs of the sources compiled so far, each at the place its rank gives it (`CompileInv`); what the linker has been given so far is in the user's order and comes from the disk or is an object (`LinkInv`) |
| `AccArgsProofs` | all three invariants of `args_options` | `AccArgsAssumption` | `TypeInv` with `Limits`: the type and bounds of each field; `UnderstoodInv`: no option still waits for its operand, every option given has a last place, the request says what the arguments read so far say, and these agree with each other |
| `AccPathProofs` | all three invariants of `path_guest` | `AccPathAssumption`, `DosPathAssumption`; for `AcceptedExactly` and `DenotesSameFile` also `ParentsEndPlainly` | `DosInv`: what `path_canonical` has written on DOS is the guest path of what the part it has read means, one component at a time, and the write pointer stays behind the read pointer; `PathInv`: which character of which name the scan is at, that the counters say of the part of this name that was read what DOS would (`Counted`), and that the names before it are names DOS has; every guest path mapped is spelled from the names below the deepest anchor (`Named`) |
| `HexcomProofs` | all three invariants of `hexcom_safety` | `HexcomAssumption` | `LoadInv`: the first address is that of the first record with data, the last one the greatest any record reaches; `ImageInv`: each byte of the image is what the last record to cover it says, or padding behind the last address; `FileInv`: the file is empty until the image is written |
| `ObjFixProofs` | all four invariants of `objfix_passes` | `ObjFixAssumption` | `TypeInv`: records, subrecords and fixups, each with the fields its bits announce, and the width of every length; `PassInv`: in the first pass a size is the greatest end of the data read, in the second the n-th SEGDEF record has been given the size of segment n, and only lengths change; `ThreadInv`: every fixup finds its threads, the tables of the program hold for each thread its last definition (`Stands`), and what has been written is traced to the input in order (`Traced`), each record copied and each fixup rendered explicitly (`Renders`); `CountInv`: the SEGDEF records of the output are numbered as those of the input; `AgainInv`: what is written needs no conversion (`Settled`) and a second run leaves every record as the first left it (`Rerun`) |
| `FetchAztec43Proofs` | all four properties of `fetch_rerun` | `FetchAssumption`; any `Legacy` | `CacheInv`: an archive that is used is whole; `TreeInv` with `Sound`: headers go with sources, markers of a tree are true; `MarkerInv`: which markers stand at each step; `InstallInv`: what share holds while files are being copied; `EditInv`: where the user's edits are at each step |

Why the properties are not inductive as they stand: nothing in
`PublishedIsBuilt` says who wrote the staged copy about to be renamed, nothing
in `SuccessIsComplete` says that the outputs already passed were replaced, and
nothing in `EditsKept` says that the tree a run will copy to share has the edits
it began with. `IInv` of each module says so of every step.

The rank of a source, the number of sources among the inputs up to it, is what
ties the four lists of the planner together: its object has that index, its
commands begin at `First`, and without a link so does its output. The two
properties about reading need `WorkspaceIsApart`: no file the user names is on
the drive of the workspace. On Unix the code guarantees it, because `path_guest`
gives a file drive C: or D:. On DOS the workspace is drive E: by name only
(`path.h` 6-9, `execdos.c` 228, 250 and 304), and a user who has a real drive E:
can name a file on it; the planner then takes it for one of its own. TLC
evaluates the hypothesis on the instance (`NamesAreApart` of `MCAccPlan`).

Refinement. `PublicationStep` shows that each step is one of `AccPublication` or
changes neither the phase nor what a destination shows. On DOS `ShowStep` does
the work: moving a file to its backup and back changes nothing, so that only
`Rename` is a replacement.

That `FileIsImage` needs no assumption on the records rests on a short argument
that `WrittenFits` and `PageZero` carry out: a record that runs past the top of
memory moves `last_addr` beyond it, so that the size check refuses the image
before it is written, although its tail has already been stored in page zero.

That parsing commutes with reading the command line needs no induction over
it: the lemmas of `AccArgsProofs` state what one more option does to the last
place of every option and to every list (`Gives`), for a sequence of any length.
`SegdefsAreRight` holds below 64K only, as the property says; `ObjFix_shrink`
shows what happens at 64K.

`MeaningIsKept` compares two lists record by record after thread subrecords, and
records left with none, have been dropped from one of them. `Traced` carries
this without induction over the list: `origin` increases, and every record of
the input that is not traced has nothing left to say. That the tables say what
the input says from its start (`Stands`) is kept one subrecord at a time.
`ConversionIsIdempotent` adds that the sizes a second run computes are those of
the first, because the data and the numbering of the segments are the same.

The code of `path.c` works on characters, the properties of `AccPath` speak of
names. `Layout` and `GuestLayout` say where each name stands in the spelling of
a path of any length; `SpelledInjective` and `WithinExactly` follow, that two
paths are spelled alike only if they are the same, and that a text compared with
an anchor's finds exactly what lies below it. `EnterWrites` is one component of
`path_canonical`: moving the write pointer does to the text what entering a name
does to a directory. `CountedEnd` is the end of one name in the scan: the
counters and the flag tell whether DOS has it. Induction over paths is by the
lemmas `Least` and `Induction`, on sets of numbers, because the library's
theorems take an operator.

`ParentsEndPlainly` says that no directory a missing output is created in has a
name that ends with a backslash. Where one has, `path_join` leaves out the
separator and the output is taken for another file (`AccPath_join`); the proof
failed there first. TLC evaluates the hypothesis on the instance
(`DirectoriesEndPlainly` of `MCAccPath`).

Only model-checked: `SettingsReachTool` and `RawNeverContradicts` of
`AccCommand`, which compare two tables word by word, and the first of which
reads the words with a fold (an induction like that of `AccPathProofs` would be
needed for it, and assumptions on the requests); and the liveness properties
`Terminates` and `ForwardedInterruptEnds`, since the prover does not reason
about `ENABLED`.

## 5. What the code does not promise

Each of these compares a sentence of the repository with the code; TLC finds a
behaviour that breaks it.

| Configuration | The repository says | The code |
| --- | --- | --- |
| `AccExecUnix_lost` | `execunix.c` 222: `launch` forwards an interrupt to the running child | a signal between the test at 312 and `waitpid`, or before `execve`, is not forwarded: with a tool that does not exit the driver waits for ever |
| `AccPlan_overlay` | `plan.c` 763: the output suffix must match the target, `.ovr` for an overlay | `resolve_target` returns for an overlay before the check; without a suffix `link_inputs` (796) compares a null pointer |
| `FetchAztec43_retry` | `aztec43-patch/README.md` 58: after a failed build the next run retries | with an installation of old, the trees now differ and every later run refuses (`cross_aztec43` 34) |

Further configurations are kept beside these, to be run with the same module:

| Configuration | Sentence | The code |
| --- | --- | --- |
| `AccExecUnix_partial` | `docs/aztec43/design.md` 214: on failure no output is published | a failure after the first rename leaves the outputs before it replaced |
| `AccExecUnix_squeeze` | `execunix.c` 334: the tool created the product | `sqz` that exits 0 without writing is not noticed: the object of the compiler is there |
| `AccExecUnix_closefail` | `execunix.c` 348: a failure preserves the destination | `close` of the source is checked after the rename |
| `AccExecDos_ctrlc` | `design.md` 195: the workspace is removed always, Ctrl-C included | a second Ctrl-C ends `acc` at once |
| `AccExecDos_preserve` | `execdos.c` 388: a failure preserves the previous destination | when only the backup cannot be removed the destination is new |
| `Hexcom_unsorted` | `hexcom.c` 20-21: the image is from the lowest address | it starts at the first record's address |
| `Hexcom_pad` | `hexcom.c` 21-22: padded with 0x00 | padded with 1Ah |
| `ObjFix_shrink` | `drpli_objfix.c` 9: lengths must not shrink | data that ends at 64K makes the length zero |
| `ObjFix_fullDisk` | `drpli_objfix.c` 17-18: what is reported is a padded object | the results of `fwrite` and `fclose` are not looked at |
| `AccPath_case` | `path.c` 5-7: anything DOS would alias is refused | two host files whose names differ in case are both accepted |
| `AccPath_join` | `path.h` 28: `path_join` puts a separator between parent and name | on Unix too it takes a backslash at the end of the parent for one (74): a new file in a directory of such a name is refused although its guest name is exact |
| `FetchAztec43_compiler` | `aztec43-patch/README.md` 42: the patched compiler remains installed | the backup alone tells that it was patched, and is made first |

Two more were read and not modelled: `fetch_tools` 208 runs the fetchers with
`env -i` and does not pass `ARCHIVE_FIRST` on, which `README.md` 454 and
`DEVEL.md` 86 and 228 tell the user to set; and the fetchers of Aztec 3.4 and
PolyPascal make the file they test for before the copy is complete, against
`DEVEL.md` 171.

## 6. Not modelled

- In the executors: argument and environment strings, path joining, the
  directory walk of `remove_workspace`, `-v` and diagnostics. Two invocations at
  once: each stages under a name of its own and replaces by one rename, so they
  share only the destination, and `PublishedIsBuilt` of each is what the other
  sees; their product is beyond TLC.
- In the planner: guest spelling and lengths of paths (`AccPath`), the options of
  the commands (`AccCommand`), memory; they can only refuse a request, which
  `Refuse` does at any point. The plan printer.
- Root discovery, `env_paths`, `path_program` and `path_readable`: a search along
  lists with tests of files, the outcome of which is a choice in `Init` of
  `AccPlan`.
- `-emu=` on DOS, which the parser refuses.
- In `hexcom`: the report, and a build where `unsigned` has 16 bits. An empty HEX
  file makes 128 bytes of padding.
- In `drpli_objfix`: checksums, two-byte indices, absolute segments, concatenated
  modules, frame methods 3 and 7, which no compiler here emits.
- In the fetcher: patches that change between two runs, edits that conflict with
  a patch, time stamps. The other fetchers repeat its first and last steps.
- Wrappers, `doscat`, the regression library, examples, vendored packages,
  container and prose have no state of their own or are not this repository's
  logic.

## 7. What could come next

The properties of `AccCommand` as theorems; a module for the search areas and
for the discovery of the root, feeding `AccPlan`; the composition of planner and
executor, for which both now have the same shape of plan.
