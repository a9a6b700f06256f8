----------------------------- MODULE AccExecDos -----------------------------
(***************************************************************************)
(* The DOS plan executor of acc: execute_plan and the functions it calls   *)
(* in execdos.c.  DOS runs one program at a time, so the driver stands     *)
(* still while a tool runs; what interleaves with it is Ctrl-C, which the  *)
(* C library delivers inside a DOS call, and the machine being switched    *)
(* off.  DOS cannot rename over a file: a destination is first renamed to  *)
(* a backup, and publication is not atomic.                                *)
(*                                                                         *)
(* The library's Ctrl-C hook resets SIGINT to SIG_DFL before it calls the  *)
(* handler, and SIG_DFL ends the program without its exit code             *)
(* (docs/aztec43/clib-ref.md 170-171): the handler works once.             *)
(***************************************************************************)
EXTENDS AccProducts

CONSTANT MaxInterrupts   \* bound: Ctrl-C typed during one run

ASSUME MaxInterruptsIsNat == MaxInterrupts \in Nat

VARIABLES
  pc,            \* where the driver is
  saveTemps,     \* request->save_temps
  recording,     \* SIGINT goes to on_interrupt (else to SIG_DFL)
  previous,      \* what signal returned: "handler", or "error" for SIG_ERR
  interrupted,   \* the flag on_interrupt sets
  status,        \* execute_plan's status
  work,          \* the workspace: "none", "present" or "removed"
  cmd,           \* the command being run
  product,       \* content of each workspace product
  out,           \* the output being published
  staged,        \* content of the staged copy beside the destination
  backup,        \* content of each destination's backup
  dest           \* content of each destination

(* History: read by the properties; no guard but the bound on Ctrl-C reads it. *)
VARIABLES
  typed,         \* Ctrl-C typed so far
  before,        \* what each destination held at the start
  toolFailure,   \* the exit status of the first failing tool
  early,         \* Ctrl-C was recorded before the publication loop
  undeleted      \* what could not be removed

control == <<pc, saveTemps, recording, previous, interrupted, status>>
files   == <<work, product, staged, backup, dest>>
history == <<typed, before, toolFailure, early, undeleted>>
vars    == <<control, cmd, out, files, history>>

Ended == {"exit", "killed", "off"}

(* The steps from the publication loop on, which no longer look at           *)
(* interrupted.                                                              *)
PublishSteps ==
  {"publish", "stage", "copy", "backup", "rename", "restore", "discard", "dropbackup"}

Init ==
  /\ pc = "workspace" /\ saveTemps \in BOOLEAN
  /\ recording = FALSE /\ previous = "error" /\ interrupted = FALSE /\ status = 0
  /\ work = "none" /\ cmd = 1 /\ out = 1
  /\ product = [p \in Products |-> Absent] /\ staged = Absent
  /\ before \in [OutputIds -> {Absent, Previous}]
  /\ dest = before /\ backup = [o \in OutputIds |-> Absent]
  /\ typed = 0 /\ toolFailure = 0 /\ early = FALSE /\ undeleted = {}
-----------------------------------------------------------------------------
(***************************************************************************)
(* Setting up, and the command loop.                                       *)
(***************************************************************************)

(* dos_workspace: 26 names are tried; a failure returns 1 at once. *)
MakeWorkspace ==
  /\ pc = "workspace"
  /\ \/ work' = "present" /\ pc' = "environment" /\ UNCHANGED status
     \/ status' = 1 /\ pc' = "exit" /\ UNCHANGED work
  /\ UNCHANGED <<saveTemps, recording, previous, interrupted, cmd, out,
                 product, staged, backup, dest, history>>

(* dos_environment; a failure removes the empty workspace, unchecked. *)
MakeEnvironment ==
  /\ pc = "environment"
  /\ \/ pc' = "handler" /\ UNCHANGED <<status, work, undeleted>>
     \/ /\ pc' = "exit" /\ status' = 1
        /\ \/ work' = "removed" /\ UNCHANGED undeleted
           \/ undeleted' = undeleted \union {"workspace"} /\ UNCHANGED work
  /\ UNCHANGED <<saveTemps, recording, previous, interrupted, cmd, out,
                 product, staged, backup, dest, typed, before, toolFailure, early>>

(* signal(SIGINT, on_interrupt), which may answer SIG_ERR: the run goes on. *)
InstallHandler ==
  /\ pc = "handler"
  /\ \/ recording' = TRUE /\ previous' = "handler"
     \/ UNCHANGED <<recording, previous>>
  /\ pc' = "command"
  /\ UNCHANGED <<saveTemps, interrupted, status, cmd, out, files, history>>

(* The top of the loop: no command is left; or Ctrl-C stops before the next. *)
LeaveCommands ==
  /\ pc = "command"
  /\ \/ cmd > Len(Commands) /\ UNCHANGED status
     \/ cmd <= Len(Commands) /\ interrupted /\ status' = 1
  /\ pc' = "gate"
  /\ UNCHANGED <<saveTemps, recording, previous, interrupted, cmd, out, files, history>>

(* response_file, then dos_launch up to a successful fexecv. *)
Launch ==
  /\ pc = "command"
  /\ cmd <= Len(Commands) /\ ~interrupted
  /\ \/ pc' = "running" /\ UNCHANGED status
     \/ pc' = "gate" /\ status' = 1
  /\ UNCHANGED <<saveTemps, recording, previous, interrupted, cmd, out, files, history>>

(* The low byte of what wait returns, and the mistake of taking it whole:    *)
(* its high byte says how the program ended.                                 *)
WholeWord(word) == word

ExitStatus(word) == word % 256

(* The tool runs and ends, and wait reports how.  A Ctrl-C typed meanwhile   *)
(* reaches the tool alone, which starts with SIG_DFL: one more way to end    *)
(* with some status.  Only a zero low byte leads to verify.                  *)
RunTool ==
  /\ pc = "running"
  /\ \E written, truncated \in SUBSET Writes(cmd) :
       product' = AfterTool(product, cmd, written, truncated)
  /\ \/ \E code \in {0} \union ToolStatuses, how \in {0, 1} :
          /\ status' = ExitStatus(256 * how + code)
          /\ toolFailure' = status'
     \/ status' = 1 /\ UNCHANGED toolFailure    \* wait fails
  /\ pc' = IF status' = 0 THEN "verify" ELSE "gate"
  /\ UNCHANGED <<saveTemps, recording, previous, interrupted, cmd, out,
                 work, staged, backup, dest, typed, before, early, undeleted>>

(* dos_product and dos_verify_product of the command's product. *)
VerifyProduct ==
  /\ pc = "verify"
  /\ IF NonEmpty(product[Commands[cmd].product])
     THEN cmd' = cmd + 1 /\ pc' = "command" /\ UNCHANGED status
     ELSE status' = 1 /\ pc' = "gate" /\ UNCHANGED cmd
  /\ UNCHANGED <<saveTemps, recording, previous, interrupted, out, files, history>>

(* "if (status == 0 && interrupted)", the last look at interrupted. *)
Gate ==
  /\ pc = "gate"
  /\ status' = IF interrupted THEN FirstError(status) ELSE status
  /\ pc' = "publish"
  /\ UNCHANGED <<saveTemps, recording, previous, interrupted, cmd, out, files, history>>
-----------------------------------------------------------------------------
(***************************************************************************)
(* The publication loop and dos_publish.                                   *)
(***************************************************************************)

LeavePublish ==
  /\ pc = "publish"
  /\ status # 0 \/ out > Len(Outputs)
  /\ pc' = "cleanup"
  /\ UNCHANGED <<saveTemps, recording, previous, interrupted, status, cmd, out,
                 files, history>>

(* One output: verified and staged as AXXXXXX.TMP, or failed and i++. *)
Stage ==
  /\ pc = "publish"
  /\ status = 0 /\ out <= Len(Outputs)
  /\ \/ /\ NonEmpty(product[Outputs[out]])
        /\ staged' = Truncated /\ pc' = "copy"
        /\ UNCHANGED <<status, out>>
     \/ status' = 1 /\ out' = out + 1 /\ UNCHANGED <<pc, staged>>
  /\ UNCHANGED <<saveTemps, recording, previous, interrupted, cmd, work, product,
                 backup, dest, history>>

(* The copy loop and both closes. *)
Copy ==
  /\ pc = "copy"
  /\ \/ staged' = product[Outputs[out]] /\ pc' = "backup"
     \/ UNCHANGED staged /\ pc' = "discard"
  /\ UNCHANGED <<saveTemps, recording, previous, interrupted, status, cmd, out,
                 work, product, backup, dest, history>>

(* Mistake: the old file is unlinked to make room for the new one. *)
UnlinkOld ==
  /\ pc = "backup"
  /\ \/ dest' = [dest EXCEPT ![out] = Absent] /\ pc' = "rename"
     \/ dest[out] # Absent /\ pc' = "discard" /\ UNCHANGED dest
  /\ UNCHANGED <<saveTemps, recording, previous, interrupted, status, cmd, out,
                 work, product, staged, backup, history>>

(* An existing destination is renamed to a fresh AXXXXXX.BAK. *)
Backup ==
  /\ pc = "backup"
  /\ \/ /\ dest[out] = Absent
        /\ pc' = "rename" /\ UNCHANGED <<backup, dest>>
     \/ /\ dest[out] # Absent
        /\ backup' = [backup EXCEPT ![out] = dest[out]]
        /\ dest' = [dest EXCEPT ![out] = Absent]
        /\ pc' = "rename"
     \/ /\ dest[out] # Absent
        /\ pc' = "discard" /\ UNCHANGED <<backup, dest>>
  /\ UNCHANGED <<saveTemps, recording, previous, interrupted, status, cmd, out,
                 work, product, staged, history>>

(* rename(staged, destination). *)
Rename ==
  /\ pc = "rename"
  /\ \/ /\ dest' = [dest EXCEPT ![out] = staged]
        /\ staged' = Absent /\ pc' = "dropbackup"
     \/ pc' = "restore" /\ UNCHANGED <<dest, staged>>
  /\ UNCHANGED <<saveTemps, recording, previous, interrupted, status, cmd, out,
                 work, product, backup, history>>

(* Mistake: the backup of a failed publication is deleted, not restored. *)
RestoreDeletes ==
  /\ pc = "restore"
  /\ backup' = [backup EXCEPT ![out] = Absent]
  /\ pc' = "discard"
  /\ UNCHANGED <<saveTemps, recording, previous, interrupted, status, cmd, out,
                 work, product, staged, dest, history>>

(* After a failed rename: the backup, if there is one, is renamed back. *)
Restore ==
  /\ pc = "restore"
  /\ \/ backup[out] = Absent /\ UNCHANGED <<backup, dest, undeleted>>
     \/ /\ backup[out] # Absent
        /\ dest' = [dest EXCEPT ![out] = backup[out]]
        /\ backup' = [backup EXCEPT ![out] = Absent] /\ UNCHANGED undeleted
     \/ /\ backup[out] # Absent
        /\ undeleted' = undeleted \union {"backup"} /\ UNCHANGED <<backup, dest>>
  /\ pc' = "discard"
  /\ UNCHANGED <<saveTemps, recording, previous, interrupted, status, cmd, out,
                 work, product, staged, typed, before, toolFailure, early>>

(* dos_publish fails: unlink(staged), unchecked. *)
Discard ==
  /\ pc = "discard"
  /\ status' = 1 /\ out' = out + 1 /\ pc' = "publish"
  /\ \/ staged' = Absent /\ UNCHANGED undeleted
     \/ undeleted' = undeleted \union {"staged"} /\ UNCHANGED staged
  /\ UNCHANGED <<saveTemps, recording, previous, interrupted, cmd, work, product,
                 backup, dest, typed, before, toolFailure, early>>

(* Mistake: the unlink of the backup is not checked. *)
DropUnchecked ==
  /\ pc = "dropbackup"
  /\ out' = out + 1 /\ pc' = "publish"
  /\ \/ backup' = [backup EXCEPT ![out] = Absent] /\ UNCHANGED undeleted
     \/ undeleted' = undeleted \union {"backup"} /\ UNCHANGED backup
  /\ UNCHANGED <<saveTemps, recording, previous, interrupted, status, cmd, work, product,
                 staged, dest, typed, before, toolFailure, early>>

(* The new file is in place; the backup goes.  When it cannot be removed     *)
(* dos_publish fails although the destination has been replaced.             *)
DropBackup ==
  /\ pc = "dropbackup"
  /\ out' = out + 1 /\ pc' = "publish"
  /\ \/ backup' = [backup EXCEPT ![out] = Absent] /\ UNCHANGED <<status, undeleted>>
     \/ /\ backup[out] # Absent
        /\ status' = 1
        /\ undeleted' = undeleted \union {"backup"} /\ UNCHANGED backup
  /\ UNCHANGED <<saveTemps, recording, previous, interrupted, cmd, work, product,
                 staged, dest, typed, before, toolFailure, early>>
-----------------------------------------------------------------------------
(***************************************************************************)
(* The end of execute_plan, and the outside world.                         *)
(***************************************************************************)

(* dos_cleanup, unless -save-temps keeps the workspace. *)
Cleanup ==
  /\ pc = "cleanup"
  /\ pc' = "reset"
  /\ \/ saveTemps /\ UNCHANGED <<work, status, undeleted>>
     \/ ~saveTemps /\ work' = "removed" /\ UNCHANGED <<status, undeleted>>
     \/ /\ ~saveTemps
        /\ status' = FirstError(status)
        /\ undeleted' = undeleted \union {"workspace"} /\ UNCHANGED work
  /\ UNCHANGED <<saveTemps, recording, previous, interrupted, cmd, out,
                 product, staged, backup, dest, typed, before, toolFailure, early>>

(* The previous handler comes back, and execute_plan returns. *)
Return ==
  /\ pc = "reset"
  /\ recording' = IF previous = "handler" THEN FALSE ELSE recording
  /\ pc' = "exit"
  /\ UNCHANGED <<saveTemps, previous, interrupted, status, cmd, out, files, history>>

(* Ctrl-C while the driver runs: recorded once; with SIG_DFL back, _exit. *)
CtrlC ==
  /\ pc \notin Ended \union {"running"}
  /\ typed < MaxInterrupts
  /\ typed' = typed + 1
  /\ \/ /\ recording
        /\ interrupted' = TRUE /\ recording' = FALSE
        /\ early' = (early \/ pc \in {"command", "verify", "gate"})
        /\ UNCHANGED pc
     \/ /\ ~recording
        /\ pc' = "killed" /\ UNCHANGED <<interrupted, recording, early>>
  /\ UNCHANGED <<saveTemps, previous, status, cmd, out, files, before, toolFailure, undeleted>>

PowerOff ==
  /\ pc \notin Ended
  /\ pc' = "off"
  /\ UNCHANGED <<saveTemps, recording, previous, interrupted, status, cmd, out,
                 files, history>>

Driver ==
  \/ MakeWorkspace \/ MakeEnvironment \/ InstallHandler
  \/ LeaveCommands \/ Launch \/ RunTool \/ VerifyProduct \/ Gate
  \/ LeavePublish \/ Stage \/ Copy \/ Backup \/ Rename \/ Restore \/ Discard \/ DropBackup
  \/ Cleanup \/ Return

Next == Driver \/ CtrlC \/ PowerOff

Spec == Init /\ [][Next]_vars
-----------------------------------------------------------------------------
(***************************************************************************)
(* Properties.                                                             *)
(***************************************************************************)

DriverSteps ==
  PublishSteps \union
  {"workspace", "environment", "handler", "command", "running", "verify", "gate",
   "cleanup", "reset"}

(* The state of execute_plan and the files it owns is well formed; status is *)
(* always the byte DOS can hand to a parent.                                 *)
TypeOK ==
  /\ pc \in DriverSteps \union Ended
  /\ saveTemps \in BOOLEAN /\ recording \in BOOLEAN /\ interrupted \in BOOLEAN
  /\ previous \in {"handler", "error"} /\ status \in 0..255
  /\ work \in {"none", "present", "removed"}
  /\ cmd \in 1..Len(Commands) + 1 /\ out \in 1..Len(Outputs) + 1
  /\ product \in [Products -> {Absent, Truncated} \union CommandIds]
  /\ staged \in {Absent, Truncated} \union CommandIds
  /\ backup \in [OutputIds -> {Absent, Previous}]
  /\ dest \in [OutputIds -> {Absent, Previous, Truncated} \union CommandIds]
  /\ typed \in 0..MaxInterrupts /\ before \in [OutputIds -> {Absent, Previous}]
  /\ toolFailure \in 0..255 /\ early \in BOOLEAN
  /\ undeleted \subseteq {"workspace", "staged", "backup"}

(* Whenever the machine stops or Ctrl-C ends acc, what a destination held    *)
(* before the run still exists, at the destination or as its backup, until   *)
(* the complete new file is in place; and at most one backup exists          *)
(* (dos_publish, execdos.c 450-468).                                         *)
PreviousNeverLost ==
  /\ \A o \in OutputIds :
       before[o] = Previous =>
         \/ dest[o] \in {Previous} \union CommandIds
         \/ backup[o] = Previous
  /\ \A o, p \in OutputIds : backup[o] # Absent /\ backup[p] # Absent => o = p

(* A replaced destination is a complete file made by a command of the plan   *)
(* that writes that product, and it appears only after every command has     *)
(* run and been verified.                                                    *)
PublishedIsBuilt ==
  \A o \in OutputIds :
    dest[o] \notin {Absent, Previous} =>
      /\ dest[o] \in CommandIds
      /\ Outputs[o] \in Writes(dest[o])
      /\ cmd > Len(Commands)

(* Ctrl-C recorded before the publication loop leaves every destination as   *)
(* it was, however the run ends (execdos.c 568, 586).                        *)
EarlyInterruptPublishesNothing ==
  early => dest = before /\ \A o \in OutputIds : backup[o] = Absent

(* Status 0 means that every output is published, that no staged copy,       *)
(* backup or workspace is left, and that on_interrupt is no longer set.      *)
SuccessIsComplete ==
  pc = "exit" /\ status = 0 =>
    /\ \A o \in OutputIds : dest[o] \in CommandIds /\ backup[o] = Absent
    /\ staged = Absent
    /\ work = "removed" \/ saveTemps
    /\ ~recording

(* The status of the first failing tool is what acc returns.                 *)
FirstFailureReported ==
  pc = "exit" /\ toolFailure # 0 => status = toolFailure

(* When execute_plan returns, whatever of its files is still there is there  *)
(* because removing it failed, and the status says so.                       *)
NothingLeftBehind ==
  pc = "exit" =>
    /\ staged = Absent \/ "staged" \in undeleted
    /\ (\A o \in OutputIds : backup[o] = Absent) \/ "backup" \in undeleted
    /\ work # "present" \/ saveTemps \/ "workspace" \in undeleted
    /\ undeleted # {} => status # 0

(* At every instant, power loss and a deadly Ctrl-C included, a destination  *)
(* is what it was, in its backup, or a complete new file, and Ctrl-C before  *)
(* publication leaves all of them alone.                                     *)
DestinationsSafe ==
  /\ PreviousNeverLost
  /\ PublishedIsBuilt
  /\ EarlyInterruptPublishesNothing

(* What acc returns is what has happened: success is complete, the first     *)
(* tool's failure is not replaced by a later error, and files that could not *)
(* be removed make it fail.                                                  *)
StatusTellsTheTruth ==
  /\ SuccessIsComplete
  /\ FirstFailureReported
  /\ NothingLeftBehind

(* The executor implements the publication contract, when a destination      *)
(* whose file is in its backup counts as not yet replaced.                   *)
Phase ==
  IF pc \in Ended THEN IF pc = "exit" /\ status = 0 THEN "succeeded" ELSE "failed"
  ELSE IF cmd > Len(Commands) THEN "publishing" ELSE "building"

Shown(o) == IF dest[o] = Absent THEN backup[o] ELSE dest[o]

Publication == INSTANCE AccPublication
  WITH CommandCount <- Len(Commands), OutputCount <- Len(Outputs), phase <- Phase,
       dest <- [o \in OutputIds |-> Shown(o)]

ImplementsPublication == Publication!PublicationSpec
-----------------------------------------------------------------------------
(***************************************************************************)
(* What the documents say and the code does not do.                        *)
(***************************************************************************)

(* design.md 195: the workspace is removed "always, including on failure and *)
(* [...] Ctrl-C (DOS)".                                                      *)
WorkspaceRemovedOnCtrlC == pc = "killed" => work # "present" \/ saveTemps

(* execdos.c 388: "On failure the previous DESTINATION is preserved".        *)
FailedPublishPreserves ==
  [][out' # out /\ status' # 0 => dest'[out] = before[out]]_vars
=============================================================================
