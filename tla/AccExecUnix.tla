---------------------------- MODULE AccExecUnix ----------------------------
(***************************************************************************)
(* The Unix plan executor of the Aztec C driver acc: execute_plan and the  *)
(* functions it calls in execunix.c.  One driver process runs the commands *)
(* of a finished plan under the emulator, one child at a time, inside a    *)
(* private workspace, then copies the products beside their destinations   *)
(* and renames them into place.                                            *)
(*                                                                         *)
(* Three actors interleave: the driver, the child it has forked, and the   *)
(* outside world, which sends signals to the driver alone (kill) or to the *)
(* whole foreground group (a terminal), or kills the driver outright.      *)
(* Every system call the code checks may fail.                             *)
(***************************************************************************)
EXTENDS AccProducts

CONSTANT MaxSignals      \* bound: signals sent during one run

ASSUME MaxSignalsIsNat == MaxSignals \in Nat

VARIABLES
  pc,            \* where the driver is
  saveTemps,     \* request->save_temps
  installed,     \* handlers installed so far, then left to restore
  handled,       \* indices of Signals whose handler is on_signal
  interrupted,   \* the sig_atomic_t: last signal caught, 0 when none
  status,        \* execute_plan's status
  work,          \* the workspace: "none", "present" or "removed"
  cmd,           \* the command being run
  child,         \* "none", "forked" (before execve), "running", "exited"
  childSignal,   \* a signal the running emulator has been sent, 0 if none
  childStatus,   \* what waitpid reports of the exited child
  product,       \* content of each workspace product
  out,           \* the output being published
  staged,        \* content of the staged copy beside the destination
  dest           \* content of each destination

(* History: read by the properties; no guard but the bound on signals reads it. *)
VARIABLES
  sent,          \* signals sent so far
  succeeded,     \* commands whose child exited 0 with no signal caught
  toolFailure,   \* the first non-zero result of launch for a run child
  lastAllowed,   \* the last output the first caught signal left publishable
  undeleted      \* what could not be removed: "staged", "workspace"

control == <<pc, saveTemps, installed, handled, interrupted, status>>
process == <<cmd, child, childSignal, childStatus>>
files   == <<work, product, out, staged, dest>>
history == <<sent, succeeded, toolFailure, lastAllowed, undeleted>>
vars    == <<control, process, files, history>>

Signals == <<2, 15, 1>>       \* SIGINT, SIGTERM, SIGHUP, in signals[] order

Untouched(o) == dest[o] \in {Absent, Previous}

Ended == {"exit", "signalled", "crashed"}

Init ==
  /\ pc = "start" /\ saveTemps \in BOOLEAN
  /\ installed = 0 /\ handled = {} /\ interrupted = 0 /\ status = 0
  /\ work = "none" /\ cmd = 1
  /\ child = "none" /\ childSignal = 0 /\ childStatus = 0
  /\ product = [p \in Products |-> Absent]
  /\ out = 1 /\ staged = Absent
  /\ dest \in [OutputIds -> {Absent, Previous}]
  /\ sent = 0 /\ succeeded = {} /\ toolFailure = 0
  /\ lastAllowed = Len(Outputs) /\ undeleted = {}
-----------------------------------------------------------------------------
(***************************************************************************)
(* Setting up: execute_plan before its first loop.                         *)
(***************************************************************************)

(* emulator_path and library_environment; a failure returns 1 at once. *)
Resolve ==
  /\ pc = "start"
  /\ \/ pc' = "install" /\ UNCHANGED status
     \/ pc' = "exit" /\ status' = 1
  /\ UNCHANGED <<saveTemps, installed, handled, interrupted, process, files, history>>

(* One turn of the sigaction loop; a failure goes to done. *)
InstallHandler ==
  /\ pc = "install"
  /\ \/ /\ installed' = installed + 1
        /\ handled' = handled \union {installed + 1}
        /\ pc' = IF installed + 1 = Len(Signals) THEN "workspace" ELSE "install"
        /\ UNCHANGED status
     \/ /\ status' = 1 /\ pc' = "cleanup"
        /\ UNCHANGED <<installed, handled>>
  /\ UNCHANGED <<saveTemps, interrupted, process, files, history>>

(* workspace(): mkdtemp under the first temporary parent that is set. *)
MakeWorkspace ==
  /\ pc = "workspace"
  /\ \/ work' = "present" /\ pc' = "command" /\ UNCHANGED status
     \/ status' = 1 /\ pc' = "cleanup" /\ UNCHANGED work
  /\ UNCHANGED <<saveTemps, installed, handled, interrupted, process,
                 product, out, staged, dest, history>>
-----------------------------------------------------------------------------
(***************************************************************************)
(* The command loop and launch.                                            *)
(***************************************************************************)

(* The loop ends: no command is left, or a signal has been caught. *)
LeaveCommands ==
  /\ pc = "command"
  /\ cmd > Len(Commands) \/ interrupted # 0
  /\ pc' = "publish"
  /\ UNCHANGED <<saveTemps, installed, handled, interrupted, status, process, files, history>>

(* The next command: write its response file when it has one, then launch. *)
StartCommand ==
  /\ pc = "command"
  /\ cmd <= Len(Commands) /\ interrupted = 0
  /\ \/ pc' = "fork" /\ UNCHANGED status
     \/ Commands[cmd].response /\ status' = 1 /\ pc' = "publish"
  /\ UNCHANGED <<saveTemps, installed, handled, interrupted, process, files, history>>

(* launch up to fork: building the arguments, calloc and fork may fail. *)
Fork ==
  /\ pc = "fork"
  /\ \/ /\ child' = "forked" /\ childSignal' = 0
        /\ pc' = "forward" /\ UNCHANGED status
     \/ /\ status' = 1 /\ pc' = "publish"
        /\ UNCHANGED <<child, childSignal>>
  /\ UNCHANGED <<saveTemps, installed, handled, interrupted, cmd, childStatus, files, history>>

(* Mistakes: a caught signal makes launch return at once; or is not sent on. *)
ForwardWithoutWaiting ==
  /\ pc = "forward"
  /\ pc' = IF interrupted # 0 THEN "result" ELSE "wait"
  /\ UNCHANGED <<saveTemps, installed, handled, interrupted, status, process, files, history>>

ForwardNothing ==
  /\ pc = "forward"
  /\ pc' = "wait"
  /\ UNCHANGED <<saveTemps, installed, handled, interrupted, status, process, files, history>>

(* Top of the wait loop: a caught signal is sent on with kill.  A child that *)
(* has not reached execve still has on_signal and swallows it; one that has  *)
(* exited is a zombie, for which kill does nothing.                          *)
Forward ==
  /\ pc = "forward"
  /\ pc' = "wait"
  /\ childSignal' = IF interrupted # 0 /\ child = "running" THEN interrupted ELSE childSignal
  /\ UNCHANGED <<saveTemps, installed, handled, interrupted, status, cmd, child,
                 childStatus, files, history>>

(* The driver enters waitpid while the child is alive. *)
Block ==
  /\ pc = "wait"
  /\ child \in {"forked", "running"}
  /\ pc' = "blocked"
  /\ UNCHANGED <<saveTemps, installed, handled, interrupted, status, process, files, history>>

(* waitpid returns: with the child's status, or with an error that is not    *)
(* EINTR (the child was reaped by the kernel), for which launch returns 1.   *)
Reap ==
  /\ pc \in {"wait", "blocked"}
  /\ child = "exited"
  /\ child' = "none" /\ childSignal' = 0
  /\ \/ pc' = "result" /\ UNCHANGED status
     \/ pc' = "publish" /\ status' = 1
  /\ UNCHANGED <<saveTemps, installed, handled, interrupted, cmd, childStatus, files, history>>

(* The status launch returns, a caught signal taking precedence, and the     *)
(* break out of the command loop when it is not 0.                           *)
LaunchResult ==
  LET result == IF interrupted # 0 THEN 128 + interrupted ELSE childStatus
  IN /\ pc = "result"
     /\ status' = result
     /\ pc' = IF result = 0 THEN "verify" ELSE "publish"
     /\ succeeded' = IF result = 0 THEN succeeded \union {cmd} ELSE succeeded
     /\ toolFailure' = result
     /\ UNCHANGED <<saveTemps, installed, handled, interrupted, process, files,
                    sent, lastAllowed, undeleted>>

(* owned_path and verify_product after a command that reported success. *)
VerifyProduct ==
  /\ pc = "verify"
  /\ \/ /\ NonEmpty(product[Commands[cmd].product])
        /\ cmd' = cmd + 1 /\ pc' = "command" /\ UNCHANGED status
     \/ status' = 1 /\ pc' = "publish" /\ UNCHANGED cmd
  /\ UNCHANGED <<saveTemps, installed, handled, interrupted, child, childSignal,
                 childStatus, files, history>>
-----------------------------------------------------------------------------
(***************************************************************************)
(* The publication loop and publish.                                       *)
(***************************************************************************)

(* The loop condition holds and the product passes owned_path and           *)
(* verify_product: publish it.                                              *)
StartPublish ==
  /\ pc = "publish"
  /\ status = 0 /\ interrupted = 0 /\ out <= Len(Outputs)
  /\ NonEmpty(product[Outputs[out]])
  /\ pc' = "stage"
  /\ UNCHANGED <<saveTemps, installed, handled, interrupted, status, process, files, history>>

(* Mistake: a missing product is skipped. *)
MissingProductIgnored ==
  /\ pc = "publish"
  /\ status = 0 /\ interrupted = 0 /\ out <= Len(Outputs)
  /\ out' = out + 1
  /\ UNCHANGED <<pc, saveTemps, installed, handled, interrupted, status, process,
                 work, product, staged, dest, history>>

(* The condition holds but the product is not there: status = 1, i++.       *)
MissingProduct ==
  /\ pc = "publish"
  /\ status = 0 /\ interrupted = 0 /\ out <= Len(Outputs)
  /\ status' = 1 /\ out' = out + 1
  /\ UNCHANGED <<pc, saveTemps, installed, handled, interrupted, process,
                 work, product, staged, dest, history>>

(* The loop ends. *)
LeavePublish ==
  /\ pc = "publish"
  /\ status # 0 \/ interrupted # 0 \/ out > Len(Outputs)
  /\ pc' = "cleanup"
  /\ UNCHANGED <<saveTemps, installed, handled, interrupted, status, process, files, history>>

(* publish opens the product and creates .acc.XXXXXX beside the destination. *)
Stage ==
  /\ pc = "stage"
  /\ \/ staged' = Truncated /\ pc' = "copy"
     \/ pc' = "unstage" /\ UNCHANGED staged
  /\ UNCHANGED <<saveTemps, installed, handled, interrupted, status, process,
                 work, product, out, dest, history>>

(* Mistake: a failed read or write ends the copy but not the publication. *)
CopyForgetsFailure ==
  /\ pc = "copy"
  /\ \/ staged' = product[Outputs[out]] /\ interrupted = 0
     \/ UNCHANGED staged
  /\ pc' = "sync"
  /\ UNCHANGED <<saveTemps, installed, handled, interrupted, status, process,
                 work, product, out, dest, history>>

(* The copy loop runs to the end of the product unless a signal is seen or   *)
(* a read or write fails.                                                    *)
Copy ==
  /\ pc = "copy"
  /\ \/ interrupted = 0 /\ staged' = product[Outputs[out]] /\ pc' = "sync"
     \/ pc' = "unstage" /\ UNCHANGED staged
  /\ UNCHANGED <<saveTemps, installed, handled, interrupted, status, process,
                 work, product, out, dest, history>>

(* fchmod, fsync and close of the staged copy. *)
Sync ==
  /\ pc = "sync"
  /\ pc' \in {"check", "unstage"}
  /\ UNCHANGED <<saveTemps, installed, handled, interrupted, status, process, files, history>>

(* Mistake: no look at interrupted between the copy and the rename. *)
NoLastCheck ==
  /\ pc = "check"
  /\ pc' = "rename"
  /\ UNCHANGED <<saveTemps, installed, handled, interrupted, status, process, files, history>>

(* The last look at interrupted before the rename. *)
CheckInterrupt ==
  /\ pc = "check"
  /\ pc' = IF interrupted # 0 THEN "unstage" ELSE "rename"
  /\ UNCHANGED <<saveTemps, installed, handled, interrupted, status, process, files, history>>

(* Mistake: the destination is unlinked before the rename. *)
UnlinkThenRename ==
  /\ pc = "rename"
  /\ \/ /\ dest' = [dest EXCEPT ![out] = staged]
        /\ staged' = Absent /\ pc' = "published"
     \/ /\ dest' = [dest EXCEPT ![out] = Absent]
        /\ pc' = "unstage" /\ UNCHANGED staged
  /\ UNCHANGED <<saveTemps, installed, handled, interrupted, status, process,
                 work, product, out, history>>

(* rename is atomic: the destination shows the old file or the whole new one. *)
Rename ==
  /\ pc = "rename"
  /\ \/ /\ dest' = [dest EXCEPT ![out] = staged]
        /\ staged' = Absent /\ pc' = "published"
     \/ pc' = "unstage" /\ UNCHANGED <<dest, staged>>
  /\ UNCHANGED <<saveTemps, installed, handled, interrupted, status, process,
                 work, product, out, history>>

(* done, after the rename: closing the product may still fail. *)
FinishPublish ==
  /\ pc = "published"
  /\ status' \in {status, 1}
  /\ out' = out + 1 /\ pc' = "publish"
  /\ UNCHANGED <<saveTemps, installed, handled, interrupted, process,
                 work, product, staged, dest, history>>

(* Mistake: a failed publication is tried again for ever. *)
RetryPublish ==
  /\ pc = "unstage"
  /\ pc' = "publish" /\ staged' = Absent
  /\ UNCHANGED <<saveTemps, installed, handled, interrupted, status, process,
                 work, product, out, dest, history>>

(* done, without a rename: publish fails, and a staged copy is unlinked. *)
Unstage ==
  /\ pc = "unstage"
  /\ status' = 1 /\ out' = out + 1 /\ pc' = "publish"
  /\ \/ staged' = Absent /\ UNCHANGED undeleted
     \/ staged # Absent /\ undeleted' = undeleted \union {"staged"} /\ UNCHANGED staged
  /\ UNCHANGED <<saveTemps, installed, handled, interrupted, process,
                 work, product, dest, sent, succeeded, toolFailure, lastAllowed>>
-----------------------------------------------------------------------------
(***************************************************************************)
(* done: cleanup, handlers, exit status.                                   *)
(***************************************************************************)

(* Mistake: the workspace is removed only after a success. *)
CleanupOnSuccess ==
  /\ pc = "cleanup"
  /\ pc' = "restore"
  /\ \/ /\ work = "none" \/ saveTemps \/ status # 0
        /\ UNCHANGED <<work, status, undeleted>>
     \/ /\ work = "present" /\ ~saveTemps /\ status = 0
        /\ work' = "removed" /\ UNCHANGED <<status, undeleted>>
  /\ UNCHANGED <<saveTemps, installed, handled, interrupted, process,
                 product, out, staged, dest, sent, succeeded, toolFailure, lastAllowed>>

(* remove_workspace, unless there is none or -save-temps keeps it. *)
Cleanup ==
  /\ pc = "cleanup"
  /\ pc' = "restore"
  /\ \/ /\ work = "none" \/ saveTemps
        /\ UNCHANGED <<work, status, undeleted>>
     \/ /\ work = "present" /\ ~saveTemps
        /\ work' = "removed" /\ UNCHANGED <<status, undeleted>>
     \/ /\ work = "present" /\ ~saveTemps
        /\ status' = FirstError(status)
        /\ undeleted' = undeleted \union {"workspace"} /\ UNCHANGED work
  /\ UNCHANGED <<saveTemps, installed, handled, interrupted, process,
                 product, out, staged, dest, sent, succeeded, toolFailure, lastAllowed>>

(* Mistake: "while (installed >= 0)". *)
RestoreOneTooMany ==
  /\ pc = "restore"
  /\ installed >= 0
  /\ installed' = installed - 1
  /\ handled' = handled \ {installed}
  /\ UNCHANGED <<pc, saveTemps, interrupted, status, process, files, history>>

(* One turn of the restoring loop; after a failed sigaction on_signal stays. *)
RestoreHandler ==
  /\ pc = "restore"
  /\ installed > 0
  /\ installed' = installed - 1
  /\ \/ handled' = handled \ {installed} /\ UNCHANGED status
     \/ status' = FirstError(status) /\ UNCHANGED handled
  /\ UNCHANGED <<pc, saveTemps, interrupted, process, files, history>>

(* The final test of interrupted, and the return. *)
Return ==
  /\ pc = "restore"
  /\ installed = 0
  /\ status' = IF interrupted # 0 THEN 128 + interrupted ELSE status
  /\ pc' = "exit"
  /\ UNCHANGED <<saveTemps, installed, handled, interrupted, process, files, history>>
-----------------------------------------------------------------------------
(***************************************************************************)
(* The child: the forked driver until execve, then the emulator.           *)
(***************************************************************************)

Exec ==
  /\ child = "forked"
  /\ child' = "running"
  /\ UNCHANGED <<control, cmd, childSignal, childStatus, files, history>>

ExecFails ==
  /\ child = "forked"
  /\ child' = "exited" /\ childStatus' = 127
  /\ UNCHANGED <<control, cmd, childSignal, files, history>>

LeaveFiles ==
  \E written, truncated \in SUBSET Writes(cmd) :
    product' = AfterTool(product, cmd, written, truncated)

(* The tool exits, with any status and any files: some Aztec tools report    *)
(* success without writing their output.                                     *)
ToolExits ==
  /\ child = "running"
  /\ child' = "exited"
  /\ childStatus' \in {0} \union ToolStatuses
  /\ LeaveFiles
  /\ UNCHANGED <<control, cmd, childSignal, work, out, staged, dest, history>>

(* The emulator dies of the signal it was sent. *)
ToolKilled ==
  /\ child = "running" /\ childSignal # 0
  /\ child' = "exited"
  /\ childStatus' = 128 + childSignal
  /\ LeaveFiles
  /\ UNCHANGED <<control, cmd, childSignal, work, out, staged, dest, history>>
-----------------------------------------------------------------------------
(***************************************************************************)
(* The outside world.                                                      *)
(***************************************************************************)

(* The last output a signal caught now leaves publishable: the one being     *)
(* renamed when its rename can no longer be stopped, else the one before it. *)
LastPublishable == IF pc \in {"rename", "published"} THEN out ELSE out - 1

(* Signal i is sent to the driver, and to the child as well when it comes    *)
(* from the terminal.  Caught, it sets interrupted and ends a blocked        *)
(* waitpid with EINTR; not caught, it ends the driver.                       *)
Signal(i, group) ==
  /\ pc \notin Ended
  /\ sent < MaxSignals
  /\ sent' = sent + 1
  /\ childSignal' = IF group /\ child = "running" THEN Signals[i] ELSE childSignal
  /\ \/ /\ i \in handled
        /\ interrupted' = Signals[i]
        /\ pc' = IF pc = "blocked" THEN "forward" ELSE pc
        /\ lastAllowed' = IF interrupted = 0 THEN LastPublishable ELSE lastAllowed
     \/ /\ i \notin handled
        /\ pc' = "signalled"
        /\ UNCHANGED <<interrupted, lastAllowed>>
  /\ UNCHANGED <<saveTemps, installed, handled, status, cmd, child, childStatus,
                 files, succeeded, toolFailure, undeleted>>

(* SIGKILL, or the machine stops: the driver runs no further code. *)
Crash ==
  /\ pc \notin Ended
  /\ pc' = "crashed"
  /\ UNCHANGED <<saveTemps, installed, handled, interrupted, status, process, files, history>>

-----------------------------------------------------------------------------
Driver ==
  \/ Resolve \/ InstallHandler \/ MakeWorkspace
  \/ LeaveCommands \/ StartCommand \/ Fork \/ Forward \/ Block \/ Reap
  \/ LaunchResult \/ VerifyProduct
  \/ StartPublish \/ MissingProduct \/ LeavePublish \/ Stage \/ Copy \/ Sync
  \/ CheckInterrupt \/ Rename \/ FinishPublish \/ Unstage
  \/ Cleanup \/ RestoreHandler \/ Return

Child == Exec \/ ExecFails \/ ToolExits \/ ToolKilled

World == Crash \/ \E i \in DOMAIN Signals, group \in BOOLEAN : Signal(i, group)

Next == Driver \/ Child \/ World

Spec == Init /\ [][Next]_vars

(* The driver and its child are scheduled, signals and crashes owe nothing;  *)
(* a tool may never exit by itself: only execve and death by a signal are    *)
(* certain to make progress.                                                 *)
HungToolSpec ==
  Spec /\ WF_vars(Driver) /\ WF_vars(Exec \/ ExecFails) /\ WF_vars(ToolKilled)
-----------------------------------------------------------------------------
(***************************************************************************)
(* Properties.                                                             *)
(***************************************************************************)

DriverSteps ==
  {"start", "install", "workspace", "command", "fork", "forward", "wait", "blocked",
   "result", "verify", "publish", "stage", "copy", "sync", "check", "rename",
   "published", "unstage", "cleanup", "restore"}

(* The state of execute_plan, its child and the files it owns is well formed. *)
TypeOK ==
  /\ pc \in DriverSteps \union Ended
  /\ saveTemps \in BOOLEAN
  /\ installed \in 0..Len(Signals) /\ handled \subseteq DOMAIN Signals
  /\ interrupted \in {0, 1, 2, 15} /\ status \in Nat
  /\ work \in {"none", "present", "removed"}
  /\ cmd \in 1..Len(Commands) + 1
  /\ child \in {"none", "forked", "running", "exited"}
  /\ childSignal \in {0, 1, 2, 15} /\ childStatus \in Nat
  /\ product \in [Products -> {Absent, Truncated} \union CommandIds]
  /\ out \in 1..Len(Outputs) + 1
  /\ staged \in {Absent, Truncated} \union CommandIds
  /\ dest \in [OutputIds -> {Absent, Previous, Truncated} \union CommandIds]
  /\ sent \in 0..MaxSignals /\ succeeded \subseteq CommandIds /\ toolFailure \in Nat
  /\ lastAllowed \in 0..Len(Outputs) /\ undeleted \subseteq {"staged", "workspace"}

(* A destination shows either what it held before the run or a complete      *)
(* file made by a command of the plan that writes that product, and it shows *)
(* such a file only once every command has succeeded: at every instant,      *)
(* crashes included (publish, execunix.c 345-447; execute_plan 503-523).     *)
PublishedIsBuilt ==
  \A o \in OutputIds :
    ~Untouched(o) => /\ dest[o] \in CommandIds
                     /\ Outputs[o] \in Writes(dest[o])
                     /\ succeeded = CommandIds

(* No output is published after a caught signal except the one whose rename  *)
(* had passed its last test of interrupted: a signal caught while a command  *)
(* runs or is verified publishes nothing at all (execunix.c 504, 518, 431).  *)
InterruptStopsPublication ==
  \A o \in OutputIds : o > lastAllowed => Untouched(o)

(* Status 0 means that every output has been published, no staged copy or    *)
(* workspace is left, and the caller's signal handlers are back.             *)
SuccessIsComplete ==
  pc = "exit" /\ status = 0 =>
    /\ \A o \in OutputIds : ~Untouched(o)
    /\ staged = Absent
    /\ work = "removed" \/ saveTemps
    /\ handled = {}

(* The status of the first failing tool is what acc returns: no error met    *)
(* while publishing, cleaning up or restoring handlers replaces it.          *)
FirstFailureReported ==
  pc = "exit" /\ interrupted = 0 /\ toolFailure # 0 => status = toolFailure

(* Whether execute_plan returns or dies of an uncaught INT, TERM or HUP, it  *)
(* leaves no workspace and no staged copy behind, except what it could not   *)
(* remove, and then it fails.  (A crash leaves both.)                        *)
NothingLeftBehind ==
  pc \in {"exit", "signalled"} =>
    /\ staged = Absent \/ "staged" \in undeleted
    /\ work # "present" \/ saveTemps \/ "workspace" \in undeleted
    /\ undeleted # {} => status # 0

(* The workspace exists for as long as a child may use it, and the driver    *)
(* neither returns nor dies of a signal while it has a child.                *)
ToolNeverOutlivesWorkspace ==
  child # "none" => work = "present" /\ pc \notin {"exit", "signalled"}

(* Every run whose tools exit ends: no signal, failure or lost race between  *)
(* the two leaves the driver waiting for ever (launch, execunix.c 311-319).  *)
Terminates == WF_vars(ToolExits) => <>(pc \in Ended)

(* Even when the running tool would never exit, a signal the driver has      *)
(* seen at the top of the wait loop ends the run.                            *)
ForwardedInterruptEnds ==
  (pc = "forward" /\ interrupted # 0 /\ child = "running") ~> (pc \in Ended)

(* The executor implements the publication contract: building until the last *)
(* product is verified, then publishing, then succeeded or failed.           *)
Phase ==
  IF pc \in Ended THEN IF pc = "exit" /\ status = 0 THEN "succeeded" ELSE "failed"
  ELSE IF cmd > Len(Commands) THEN "publishing" ELSE "building"

Publication == INSTANCE AccPublication
  WITH CommandCount <- Len(Commands), OutputCount <- Len(Outputs), phase <- Phase

ImplementsPublication == Publication!PublicationSpec
-----------------------------------------------------------------------------
(***************************************************************************)
(* What the documents say and the code does not do.                        *)
(***************************************************************************)

(* design.md 214: "no output is published; existing outputs are untouched"   *)
(* when acc fails.                                                           *)
FailurePublishesNothing ==
  pc = "exit" /\ status # 0 => \A o \in OutputIds : Untouched(o)

(* execunix.c 222: "launch forwards it to the running child", so that a      *)
(* caught signal ends the run whatever the tool does.                        *)
CaughtSignalEndsRun == (interrupted # 0) ~> (pc \in Ended)

(* execunix.c 334: verify_product fails "unless the tool created PATH", so   *)
(* the product of a command that passed was written by that command.         *)
ToolCreatedProduct ==
  pc = "command" /\ cmd > 1 => product[Commands[cmd - 1].product] = cmd - 1

(* execunix.c 348: "On failure the previous DESTINATION is preserved": a     *)
(* publish that reports failure has not replaced its destination.            *)
FailedPublishPreserves ==
  [][out' # out /\ status' # 0 => Untouched(out)]_vars
=============================================================================
