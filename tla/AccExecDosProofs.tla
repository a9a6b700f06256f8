-------------------------- MODULE AccExecDosProofs --------------------------
(***************************************************************************)
(* The safety properties of AccExecDos, and its implementation of          *)
(* AccPublication, for every plan, every set of tool statuses and any      *)
(* number of Ctrl-C.                                                       *)
(***************************************************************************)
EXTENDS AccExecDos, TLAPS

Before == {"workspace", "environment", "handler", "command", "running", "verify", "gate"}
Swapping == {"copy", "backup", "rename", "restore", "discard", "dropbackup"}
After == {"cleanup", "reset", "exit"}

(* Where the driver is bounds its indices, and tells of the handler.         *)
ControlInv ==
  /\ pc \in Before => out = 1
  /\ pc \in {"running", "verify"} => cmd <= Len(Commands)
  /\ pc \in Swapping => out <= Len(Outputs)
  /\ pc \in {"gate", "publish"} \cup After /\ status = 0 => cmd > Len(Commands)
  /\ pc \in Swapping => cmd > Len(Commands)
  /\ recording =>
       previous = "handler" /\ pc \notin {"workspace", "environment", "handler", "exit"}

(* status is 0 until something fails, and keeps a failing tool's status.     *)
StatusInv ==
  /\ pc \in (Before \ {"gate"}) \cup Swapping => status = 0
  /\ toolFailure # 0 => status = toolFailure
  /\ early => interrupted /\ pc \notin Swapping
  /\ pc \in {"publish"} \cup After /\ status = 0 => ~early

(* A non-empty file was written by a command that writes that product.       *)
ContentInv ==
  /\ \A p \in Products : NonEmpty(product[p]) => p \in Writes(product[p])
  /\ pc = "copy" => NonEmpty(product[Outputs[out]])
  /\ pc \in {"backup", "rename"} => NonEmpty(staged) /\ Outputs[out] \in Writes(staged)

(* Destinations are replaced in plan order, and a file that gives way is in  *)
(* its backup, the only one there is.                                        *)
SwapInv ==
  /\ pc \in Before => dest = before
  /\ \A o \in OutputIds : o > out => dest[o] = before[o]
  /\ \A o \in OutputIds :
       o < out /\ status = 0 /\ pc \in {"publish"} \cup Swapping \cup After =>
         dest[o] \in CommandIds
  /\ pc \in {"copy", "backup"} => dest[out] = before[out]
  /\ pc \in {"rename", "restore"} => dest[out] = Absent /\ backup[out] = before[out]
  /\ pc = "dropbackup" => dest[out] \in CommandIds
  /\ pc = "publish" /\ status = 0 /\ out <= Len(Outputs) => dest[out] = before[out]
  /\ \A o \in OutputIds : backup[o] \in {Absent, before[o]}

(* No backup is left but that of the output being replaced or of one that    *)
(* failed.                                                                   *)
BackupInv ==
  /\ \A o \in OutputIds :
       /\ pc \in Before => backup[o] = Absent
       /\ pc \in Swapping /\ o # out => backup[o] = Absent
       /\ pc \in {"copy", "backup"} => backup[o] = Absent
       /\ pc \in {"publish"} \cup After /\ status = 0 => backup[o] = Absent
       /\ pc \in {"publish", "discard"} \cup After /\ backup[o] # Absent => "backup" \in undeleted

(* What cleaning up left is accounted for.                                   *)
CleanupInv ==
  /\ pc = "workspace" => work = "none"
  /\ pc \in Before \cup {"dropbackup"} => staged = Absent
  /\ pc \in {"publish"} \cup After /\ staged # Absent => "staged" \in undeleted
  /\ pc \in DriverSteps \cup {"exit"} /\ undeleted # {} => status # 0 \/ pc = "discard"
  /\ pc \in {"reset", "exit"} /\ work = "present" /\ ~saveTemps => "workspace" \in undeleted
  /\ pc \in {"cleanup", "reset", "exit"} /\ status = 0 => out > Len(Outputs)
  /\ pc \in {"reset", "exit"} /\ status = 0 => work = "removed" \/ saveTemps

IInv ==
  /\ TypeOK
  /\ ControlInv
  /\ StatusInv
  /\ ContentInv
  /\ SwapInv
  /\ BackupInv
  /\ CleanupInv
  /\ DestinationsSafe

-----------------------------------------------------------------------------
(* Every planned output and command product is a workspace product.          *)
LEMMA ProductFacts ==
  /\ \A o \in OutputIds : Outputs[o] \in Products
  /\ \A c \in CommandIds : Writes(c) \subseteq Products /\ Commands[c].product \in Writes(c)
<1>1. ASSUME NEW o \in OutputIds PROVE Outputs[o] \in Products
  <2>1. Outputs[o] \in {Outputs[q] : q \in OutputIds}
    OBVIOUS
  <2> QED
    BY <2>1 DEF Products
<1>2. ASSUME NEW c \in CommandIds PROVE Writes(c) \subseteq Products
  BY DEF Products
<1>3. ASSUME NEW c \in CommandIds PROVE Commands[c].product \in Writes(c)
  BY DEF Writes
<1> QED
  BY <1>1, <1>2, <1>3

(* The tool's status is the low byte of what wait returns.                   *)
LEMMA LowByte ==
  ASSUME NEW code \in 0..255, NEW how \in {0, 1}
  PROVE  ExitStatus(256 * how + code) = code
BY DEF ExitStatus

(* Every step keeps the state well formed.                                   *)
LEMMA TypeStep ==
  ASSUME IInv, [Next]_vars
  PROVE  TypeOK'
<1> USE DEF Absent, Previous, Truncated, control, files, history
<1>1. /\ pc \in DriverSteps \union Ended /\ status \in 0..255 /\ toolFailure \in 0..255
      /\ cmd \in 1..Len(Commands) + 1 /\ out \in 1..Len(Outputs) + 1
  BY DEF IInv, TypeOK
<1>2. /\ product \in [Products -> {Absent, Truncated} \union CommandIds]
      /\ staged \in {Absent, Truncated} \union CommandIds
      /\ backup \in [OutputIds -> {Absent, Previous}]
      /\ dest \in [OutputIds -> {Absent, Previous, Truncated} \union CommandIds]
  BY DEF IInv, TypeOK
<1>3. /\ saveTemps \in BOOLEAN /\ recording \in BOOLEAN /\ interrupted \in BOOLEAN
      /\ early \in BOOLEAN
      /\ previous \in {"handler", "error"} /\ work \in {"none", "present", "removed"}
      /\ typed \in 0..MaxInterrupts /\ before \in [OutputIds -> {Absent, Previous}]
      /\ undeleted \subseteq {"workspace", "staged", "backup"}
  BY DEF IInv, TypeOK
<1>4. /\ Len(Commands) \in Nat /\ Len(Outputs) \in Nat /\ MaxInterrupts \in Nat
      /\ ToolStatuses \subseteq 1..255
  BY PlanShape, MaxInterruptsIsNat
<1>5. /\ pc \in {"running", "verify"} => cmd \in CommandIds
      /\ pc \in Swapping \/ (pc = "publish" /\ out <= Len(Outputs)) => out \in OutputIds
  BY <1>1, <1>4 DEF IInv, ControlInv, CommandIds, OutputIds, Swapping
<1>6. pc' \in DriverSteps \union Ended
  BY <1>1 DEF Next, Driver, MakeWorkspace, MakeEnvironment, InstallHandler, LeaveCommands, Launch,
     RunTool, VerifyProduct, Gate, LeavePublish, Stage, Copy, Backup, Rename, Restore, Discard,
     DropBackup, Cleanup, Return, CtrlC, PowerOff, vars, DriverSteps, PublishSteps, Ended
<1>7. status' \in 0..255 /\ toolFailure' \in 0..255
  <2>1. CASE RunTool
    <3>1. CASE status' = 1 /\ toolFailure' = toolFailure BY <1>1, <3>1
    <3>2. ASSUME NEW code \in {0} \union ToolStatuses, NEW how \in {0, 1},
                 status' = ExitStatus(256 * how + code), toolFailure' = status'
          PROVE  status' \in 0..255 /\ toolFailure' \in 0..255
      <4>1. code \in 0..255 BY <1>4
      <4>2. status' = code BY <3>2, <4>1, LowByte
      <4> QED BY <3>2, <4>1, <4>2
    <3> QED BY <2>1, <3>1, <3>2 DEF RunTool
  <2>2. CASE ~RunTool
    <3>1. status' \in {status, 1} /\ toolFailure' = toolFailure
      BY <2>2 DEF Next, Driver, MakeWorkspace, MakeEnvironment, InstallHandler, LeaveCommands,
         Launch,
         VerifyProduct, Gate, LeavePublish, Stage, Copy, Backup, Rename, Restore, Discard,
         DropBackup, Cleanup, Return, CtrlC, PowerOff, vars, FirstError
    <3> QED BY <1>1, <3>1
  <2> QED BY <2>1, <2>2
<1>8. cmd' \in 1..Len(Commands) + 1 /\ out' \in 1..Len(Outputs) + 1
  <2>1. cmd' = cmd \/ (pc = "verify" /\ cmd' = cmd + 1)
    BY DEF Next, Driver, MakeWorkspace, MakeEnvironment, InstallHandler, LeaveCommands, Launch,
       RunTool, VerifyProduct, Gate, LeavePublish, Stage, Copy, Backup, Rename, Restore, Discard,
       DropBackup, Cleanup, Return, CtrlC, PowerOff, vars
  <2>2. \/ out' = out
        \/ /\ pc \in {"discard", "dropbackup"} \/ (pc = "publish" /\ out <= Len(Outputs))
           /\ out' = out + 1
    BY DEF Next, Driver, MakeWorkspace, MakeEnvironment, InstallHandler, LeaveCommands, Launch,
       RunTool, VerifyProduct, Gate, LeavePublish, Stage, Copy, Backup, Rename, Restore, Discard,
       DropBackup, Cleanup, Return, CtrlC, PowerOff, vars
  <2> QED BY <1>1, <1>4, <1>5, <2>1, <2>2 DEF CommandIds, OutputIds, Swapping
<1>9. product' \in [Products -> {Absent, Truncated} \union CommandIds]
  <2>1. CASE RunTool BY <1>2, <1>5, <2>1 DEF RunTool, AfterTool
  <2>2. CASE ~RunTool
    <3>1. product' = product
      BY <2>2 DEF Next, Driver, MakeWorkspace, MakeEnvironment, InstallHandler, LeaveCommands,
         Launch,
         VerifyProduct, Gate, LeavePublish, Stage, Copy, Backup, Rename, Restore, Discard,
         DropBackup, Cleanup, Return, CtrlC, PowerOff, vars
    <3> QED BY <1>2, <3>1
  <2> QED BY <2>1, <2>2
<1>10. /\ staged' \in {Absent, Truncated} \union CommandIds
       /\ backup' \in [OutputIds -> {Absent, Previous}]
       /\ dest' \in [OutputIds -> {Absent, Previous, Truncated} \union CommandIds]
  <2>1. pc = "backup" /\ out \in OutputIds => dest[out] \in {Absent, Previous}
    BY <1>3 DEF IInv, SwapInv
  <2>2. CASE Stage BY <1>2, <2>2 DEF Stage
  <2>3. CASE Copy
    <3>1. Outputs[out] \in Products BY <1>5, <2>3, ProductFacts DEF Copy, Swapping
    <3> QED BY <1>2, <2>3, <3>1 DEF Copy
  <2>4. CASE Backup BY <1>2, <1>5, <2>1, <2>4 DEF Backup, Swapping
  <2>5. CASE Rename BY <1>2, <1>5, <2>5 DEF Rename, Swapping
  <2>6. CASE Restore BY <1>2, <1>5, <2>6 DEF Restore, Swapping
  <2>7. CASE Discard BY <1>2, <2>7 DEF Discard
  <2>8. CASE DropBackup BY <1>2, <2>8 DEF DropBackup
  <2>9. CASE ~(Stage \/ Copy \/ Backup \/ Rename \/ Restore \/ Discard \/ DropBackup)
    <3>1. UNCHANGED <<staged, backup, dest>>
      BY <2>9 DEF Next, Driver, MakeWorkspace, MakeEnvironment, InstallHandler, LeaveCommands,
         Launch,
         RunTool, VerifyProduct, Gate, LeavePublish, Cleanup, Return, CtrlC, PowerOff, vars
    <3> QED BY <1>2, <3>1
  <2> QED BY <2>2, <2>3, <2>4, <2>5, <2>6, <2>7, <2>8, <2>9
<1>11. /\ saveTemps' \in BOOLEAN /\ recording' \in BOOLEAN /\ interrupted' \in BOOLEAN
       /\ early' \in BOOLEAN
       /\ previous' \in {"handler", "error"} /\ work' \in {"none", "present", "removed"}
       /\ undeleted' \subseteq {"workspace", "staged", "backup"} /\ before' = before
  <2>1. saveTemps' = saveTemps /\ before' = before
    BY DEF Next, Driver, MakeWorkspace, MakeEnvironment, InstallHandler, LeaveCommands, Launch,
       RunTool, VerifyProduct, Gate, LeavePublish, Stage, Copy, Backup, Rename, Restore, Discard,
       DropBackup, Cleanup, Return, CtrlC, PowerOff, vars
  <2>2. recording' \in {recording, TRUE, FALSE}
    BY DEF Next, Driver, MakeWorkspace, MakeEnvironment, InstallHandler, LeaveCommands, Launch,
       RunTool, VerifyProduct, Gate, LeavePublish, Stage, Copy, Backup, Rename, Restore, Discard,
       DropBackup, Cleanup, Return, CtrlC, PowerOff, vars
  <2>3. /\ interrupted' \in {interrupted, TRUE}
        /\ early' \in {early, (early \/ pc \in {"command", "verify", "gate"})}
    BY DEF Next, Driver, MakeWorkspace, MakeEnvironment, InstallHandler, LeaveCommands, Launch,
       RunTool, VerifyProduct, Gate, LeavePublish, Stage, Copy, Backup, Rename, Restore, Discard,
       DropBackup, Cleanup, Return, CtrlC, PowerOff, vars
  <2>4. previous' \in {previous, "handler"} /\ work' \in {work, "present", "removed"}
    BY DEF Next, Driver, MakeWorkspace, MakeEnvironment, InstallHandler, LeaveCommands, Launch,
       RunTool, VerifyProduct, Gate, LeavePublish, Stage, Copy, Backup, Rename, Restore, Discard,
       DropBackup, Cleanup, Return, CtrlC, PowerOff, vars
  <2>5. \/ undeleted' = undeleted
        \/ \E w \in {"workspace", "staged", "backup"} : undeleted' = undeleted \union {w}
    BY DEF Next, Driver, MakeWorkspace, MakeEnvironment, InstallHandler, LeaveCommands, Launch,
       RunTool, VerifyProduct, Gate, LeavePublish, Stage, Copy, Backup, Rename, Restore, Discard,
       DropBackup, Cleanup, Return, CtrlC, PowerOff, vars
  <2>6. saveTemps' \in BOOLEAN /\ recording' \in BOOLEAN BY <1>3, <2>1, <2>2
  <2>7. interrupted' \in BOOLEAN /\ early' \in BOOLEAN BY <1>3, <2>3
  <2>8. undeleted' \subseteq {"workspace", "staged", "backup"} BY <1>3, <2>5
  <2>9. previous' \in {"handler", "error"} /\ work' \in {"none", "present", "removed"}
    BY <1>3, <2>4
  <2> QED BY <2>1, <2>6, <2>7, <2>8, <2>9
<1>12. typed' \in 0..MaxInterrupts
  <2>1. typed' = typed \/ (typed < MaxInterrupts /\ typed' = typed + 1)
    BY DEF Next, Driver, MakeWorkspace, MakeEnvironment, InstallHandler, LeaveCommands, Launch,
       RunTool, VerifyProduct, Gate, LeavePublish, Stage, Copy, Backup, Rename, Restore, Discard,
       DropBackup, Cleanup, Return, CtrlC, PowerOff, vars
  <2> QED BY <1>3, <1>4, <2>1
<1> QED BY <1>3, <1>6, <1>7, <1>8, <1>9, <1>10, <1>11, <1>12 DEF TypeOK

(* Every step keeps the indices in bounds.                                   *)
LEMMA ControlStep ==
  ASSUME IInv, [Next]_vars
  PROVE  ControlInv'
<1>1. cmd \in Nat /\ out \in Nat /\ Len(Commands) \in Nat /\ Len(Outputs) \in Nat
  BY PlanShape DEF IInv, TypeOK
<1>2. ControlInv /\ StatusInv BY DEF IInv
<1> USE <1>1, <1>2
    DEF ControlInv, StatusInv, Before, Swapping, After, Ended, control, files, history
<1>3. CASE MakeWorkspace
  <2>1. pc = "workspace" /\ UNCHANGED <<out, cmd, recording, previous>> BY <1>3 DEF MakeWorkspace
  <2>2. pc' = "environment" \/ (pc' = "exit" /\ status' = 1) BY <1>3 DEF MakeWorkspace
  <2> QED BY <2>1, <2>2
<1>4. CASE MakeEnvironment BY <1>4 DEF MakeEnvironment
<1>5. CASE InstallHandler BY <1>5 DEF InstallHandler
<1>6. CASE LeaveCommands BY <1>6 DEF LeaveCommands
<1>7. CASE Launch BY <1>7 DEF Launch
<1>8. CASE RunTool BY <1>8, LowByte DEF RunTool, AfterTool
<1>9. CASE VerifyProduct
  <2>1. /\ pc = "verify" /\ status = 0 /\ UNCHANGED <<out, recording, previous>>
    BY <1>9 DEF VerifyProduct
  <2>2. /\ (pc' = "command" /\ status' = 0) \/ (pc' = "gate" /\ status' = 1)
    BY <1>9, <2>1 DEF VerifyProduct
  <2> QED BY <2>1, <2>2
<1>10. CASE Gate BY <1>10 DEF Gate, FirstError
<1>11. CASE LeavePublish BY <1>11 DEF LeavePublish
<1>12. CASE Stage BY <1>12 DEF Stage
<1>13. CASE Copy BY <1>13 DEF Copy
<1>14. CASE Backup BY <1>14 DEF Backup
<1>15. CASE Rename BY <1>15 DEF Rename
<1>16. CASE Restore BY <1>16 DEF Restore
<1>17. CASE Discard BY <1>17 DEF Discard
<1>18. CASE DropBackup BY <1>18 DEF DropBackup
<1>19. CASE Cleanup BY <1>19 DEF Cleanup, FirstError
<1>20. CASE Return BY <1>20 DEF Return
<1>21. CASE CtrlC BY <1>21 DEF CtrlC
<1>22. CASE PowerOff BY <1>22 DEF PowerOff
<1>23. CASE UNCHANGED vars BY <1>23 DEF vars
<1> QED
  BY <1>3, <1>4, <1>5, <1>6, <1>7, <1>8, <1>9, <1>10, <1>11, <1>12, <1>13, <1>14, <1>15, <1>16,
       <1>17, <1>18, <1>19, <1>20, <1>21, <1>22, <1>23 DEF Next, Driver

(* Every step keeps the first failure.                                       *)
LEMMA StatusStep ==
  ASSUME IInv, [Next]_vars
  PROVE  StatusInv'
<1>1. interrupted \in BOOLEAN /\ early \in BOOLEAN BY DEF IInv, TypeOK
<1>2. ControlInv /\ StatusInv BY DEF IInv
<1> USE <1>1, <1>2
    DEF ControlInv, StatusInv, FirstError, Before, Swapping, After, Ended, control, files, history
<1>3. CASE MakeWorkspace BY <1>3 DEF MakeWorkspace
<1>4. CASE MakeEnvironment BY <1>4 DEF MakeEnvironment
<1>5. CASE InstallHandler BY <1>5 DEF InstallHandler
<1>6. CASE LeaveCommands BY <1>6 DEF LeaveCommands
<1>7. CASE Launch BY <1>7 DEF Launch
<1>8. CASE RunTool BY <1>8, LowByte DEF RunTool, AfterTool
<1>9. CASE VerifyProduct BY <1>9 DEF VerifyProduct
<1>10. CASE Gate BY <1>10 DEF Gate
<1>11. CASE LeavePublish BY <1>11 DEF LeavePublish
<1>12. CASE Stage BY <1>12 DEF Stage
<1>13. CASE Copy BY <1>13 DEF Copy
<1>14. CASE Backup BY <1>14 DEF Backup
<1>15. CASE Rename BY <1>15 DEF Rename
<1>16. CASE Restore BY <1>16 DEF Restore
<1>17. CASE Discard BY <1>17 DEF Discard
<1>18. CASE DropBackup BY <1>18 DEF DropBackup
<1>19. CASE Cleanup BY <1>19 DEF Cleanup
<1>20. CASE Return BY <1>20 DEF Return
<1>21. CASE CtrlC BY <1>21 DEF CtrlC
<1>22. CASE PowerOff BY <1>22 DEF PowerOff
<1>23. CASE UNCHANGED vars BY <1>23 DEF vars
<1> QED
  BY <1>3, <1>4, <1>5, <1>6, <1>7, <1>8, <1>9, <1>10, <1>11, <1>12, <1>13, <1>14, <1>15, <1>16,
       <1>17, <1>18, <1>19, <1>20, <1>21, <1>22, <1>23 DEF Next, Driver

(* Every step keeps track of who wrote what.                                 *)
LEMMA ContentStep ==
  ASSUME IInv, [Next]_vars
  PROVE  ContentInv'
<1> USE PlanShape, MaxInterruptsIsNat, ProductFacts
    DEF IInv, ContentInv, ControlInv, TypeOK,
      Before, Swapping, After, Ended, NonEmpty, Absent, Previous, Truncated,
      CommandIds, OutputIds, control, files, history
<1>1. CASE MakeWorkspace BY <1>1 DEF MakeWorkspace
<1>2. CASE MakeEnvironment BY <1>2 DEF MakeEnvironment
<1>3. CASE InstallHandler BY <1>3 DEF InstallHandler
<1>4. CASE LeaveCommands BY <1>4 DEF LeaveCommands
<1>5. CASE Launch BY <1>5 DEF Launch
<1>6. CASE RunTool
  <2>1. PICK written, truncated \in SUBSET Writes(cmd) :
          product' = AfterTool(product, cmd, written, truncated)
    BY <1>6 DEF RunTool
  <2>2. cmd \in CommandIds BY <1>6 DEF RunTool
  <2>3. ASSUME NEW p \in Products, product'[p] \in CommandIds PROVE p \in Writes(product'[p])
    <3>1. CASE p \in written BY <2>1, <3>1 DEF AfterTool
    <3>2. CASE p \notin written /\ p \in truncated BY <2>1, <2>3, <3>2 DEF AfterTool
    <3>3. CASE p \notin written /\ p \notin truncated BY <2>1, <2>3, <3>3 DEF AfterTool
    <3> QED BY <3>1, <3>2, <3>3
  <2> QED BY <1>6, <2>3 DEF RunTool
<1>7. CASE VerifyProduct BY <1>7 DEF VerifyProduct
<1>8. CASE Gate BY <1>8 DEF Gate, FirstError
<1>9. CASE LeavePublish BY <1>9 DEF LeavePublish
<1>10. CASE Stage BY <1>10 DEF Stage
<1>11. CASE Copy BY <1>11 DEF Copy
<1>12. CASE Backup BY <1>12 DEF Backup
<1>13. CASE Rename BY <1>13 DEF Rename
<1>14. CASE Restore BY <1>14 DEF Restore
<1>15. CASE Discard BY <1>15 DEF Discard
<1>16. CASE DropBackup BY <1>16 DEF DropBackup
<1>17. CASE Cleanup BY <1>17 DEF Cleanup, FirstError
<1>18. CASE Return BY <1>18 DEF Return
<1>19. CASE CtrlC BY <1>19 DEF CtrlC
<1>20. CASE PowerOff BY <1>20 DEF PowerOff
<1>21. CASE UNCHANGED vars BY <1>21 DEF vars
<1> QED
  BY <1>1, <1>2, <1>3, <1>4, <1>5, <1>6, <1>7, <1>8, <1>9, <1>10, <1>11, <1>12, <1>13, <1>14,
       <1>15, <1>16, <1>17, <1>18, <1>19, <1>20, <1>21 DEF Next, Driver

(* Every step keeps the destinations in order.                               *)
LEMMA SwapStep ==
  ASSUME IInv, [Next]_vars
  PROVE  SwapInv'
<1>1. /\ out \in Nat /\ OutputIds = 1..Len(Outputs) /\ Len(Outputs) \in Nat
      /\ CommandIds \subseteq Nat \ {0}
      /\ dest \in [OutputIds -> {Absent, Previous, Truncated} \union CommandIds]
      /\ backup \in [OutputIds -> {Absent, Previous}]
      /\ before \in [OutputIds -> {Absent, Previous}]
      /\ out \in 1..Len(Outputs) + 1
  BY PlanShape DEF IInv, TypeOK, OutputIds, CommandIds
<1>2. SwapInv /\ ControlInv /\ StatusInv /\ ContentInv BY DEF IInv
<1> USE <1>1, <1>2
    DEF SwapInv, ControlInv, StatusInv, ContentInv, FirstError, Before, Swapping, After, Ended,
        NonEmpty, Absent, Previous, Truncated, control, files, history
<1>3. CASE MakeWorkspace BY <1>3 DEF MakeWorkspace
<1>4. CASE MakeEnvironment BY <1>4 DEF MakeEnvironment
<1>5. CASE InstallHandler BY <1>5 DEF InstallHandler
<1>6. CASE LeaveCommands BY <1>6 DEF LeaveCommands
<1>7. CASE Launch BY <1>7 DEF Launch
<1>8. CASE RunTool BY <1>8, LowByte DEF RunTool, AfterTool
<1>9. CASE VerifyProduct BY <1>9 DEF VerifyProduct
<1>10. CASE Gate BY <1>10 DEF Gate
<1>11. CASE LeavePublish BY <1>11 DEF LeavePublish
<1>12. CASE Stage BY <1>12 DEF Stage
<1>13. CASE Copy BY <1>13 DEF Copy
<1>14. CASE Backup
  <2>1. /\ pc = "backup" /\ out \in OutputIds /\ status = 0
        /\ UNCHANGED <<out, status, before>>
    BY <1>14 DEF Backup
  <2>2. \A o \in OutputIds \ {out} : dest'[o] = dest[o] /\ backup'[o] = backup[o]
    BY <1>14, <2>1 DEF Backup
  <2>3. CASE pc' = "discard" /\ UNCHANGED <<backup, dest>> BY <2>1, <2>3
  <2>4. CASE pc' = "rename"
    <3>1. dest'[out] = Absent /\ backup'[out] = before[out]
      BY <1>14, <2>1, <2>4 DEF Backup, BackupInv
    <3> QED BY <2>1, <2>2, <2>4, <3>1
  <2> QED BY <1>14, <2>3, <2>4 DEF Backup
<1>15. CASE Rename
  <2>1. pc = "rename" /\ out \in OutputIds /\ staged \in CommandIds /\ status = 0
        /\ UNCHANGED <<out, status, backup, before>>
    BY <1>15 DEF Rename
  <2>2. CASE pc' = "restore"
    BY <1>15, <2>1, <2>2 DEF Rename
  <2>3. CASE pc' = "dropbackup" /\ dest' = [dest EXCEPT ![out] = staged]
    <3>1. dest'[out] \in CommandIds /\ \A o \in OutputIds \ {out} : dest'[o] = dest[o]
      BY <2>1, <2>3
    <3> QED BY <2>1, <2>3, <3>1
  <2> QED BY <1>15, <2>2, <2>3 DEF Rename
<1>16. CASE Restore
  <2>1. /\ pc = "restore" /\ pc' = "discard" /\ out \in OutputIds /\ status = 0
        /\ UNCHANGED <<out, status, before>>
    BY <1>16 DEF Restore
  <2>2. \A o \in OutputIds \ {out} : dest'[o] = dest[o] /\ backup'[o] = backup[o]
    BY <1>16, <2>1 DEF Restore
  <2>3. backup'[out] \in {Absent, before[out]} BY <1>16, <2>1 DEF Restore
  <2> QED BY <2>1, <2>2, <2>3
<1>17. CASE Discard BY <1>17 DEF Discard
<1>18. CASE DropBackup BY <1>18 DEF DropBackup
<1>19. CASE Cleanup BY <1>19 DEF Cleanup
<1>20. CASE Return BY <1>20 DEF Return
<1>21. CASE CtrlC BY <1>21 DEF CtrlC
<1>22. CASE PowerOff BY <1>22 DEF PowerOff
<1>23. CASE UNCHANGED vars BY <1>23 DEF vars
<1> QED
  BY <1>3, <1>4, <1>5, <1>6, <1>7, <1>8, <1>9, <1>10, <1>11, <1>12, <1>13, <1>14, <1>15, <1>16,
       <1>17, <1>18, <1>19, <1>20, <1>21, <1>22, <1>23 DEF Next, Driver

(* Every step accounts for the backups.                                      *)
LEMMA BackupStep ==
  ASSUME IInv, [Next]_vars
  PROVE  BackupInv'
<1>1. /\ out \in Nat /\ OutputIds = 1..Len(Outputs) /\ Len(Outputs) \in Nat
      /\ backup \in [OutputIds -> {Absent, Previous}]
      /\ pc \in DriverSteps \cup Ended
  BY PlanShape DEF IInv, TypeOK, OutputIds
<1>2. BackupInv /\ SwapInv /\ ControlInv /\ StatusInv /\ CleanupInv BY DEF IInv
<1> USE <1>1, <1>2
    DEF BackupInv, SwapInv, ControlInv, StatusInv, CleanupInv, FirstError, DriverSteps,
        PublishSteps, Before, Swapping, After, Ended, Absent, Previous, control, files, history
<1>3. CASE MakeWorkspace BY <1>3 DEF MakeWorkspace
<1>4. CASE MakeEnvironment BY <1>4 DEF MakeEnvironment
<1>5. CASE InstallHandler BY <1>5 DEF InstallHandler
<1>6. CASE LeaveCommands BY <1>6 DEF LeaveCommands
<1>7. CASE Launch BY <1>7 DEF Launch
<1>8. CASE RunTool BY <1>8, LowByte DEF RunTool, AfterTool
<1>9. CASE VerifyProduct BY <1>9 DEF VerifyProduct
<1>10. CASE Gate BY <1>10 DEF Gate
<1>11. CASE LeavePublish BY <1>11 DEF LeavePublish
<1>12. CASE Stage BY <1>12 DEF Stage
<1>13. CASE Copy BY <1>13 DEF Copy
<1>14. CASE Backup BY <1>14 DEF Backup
<1>15. CASE Rename BY <1>15 DEF Rename
<1>16. CASE Restore BY <1>16 DEF Restore
<1>17. CASE Discard BY <1>17 DEF Discard
<1>18. CASE DropBackup BY <1>18 DEF DropBackup
<1>19. CASE Cleanup BY <1>19 DEF Cleanup
<1>20. CASE Return BY <1>20 DEF Return
<1>21. CASE CtrlC BY <1>21 DEF CtrlC
<1>22. CASE PowerOff BY <1>22 DEF PowerOff
<1>23. CASE UNCHANGED vars BY <1>23 DEF vars
<1> QED
  BY <1>3, <1>4, <1>5, <1>6, <1>7, <1>8, <1>9, <1>10, <1>11, <1>12, <1>13, <1>14, <1>15, <1>16,
       <1>17, <1>18, <1>19, <1>20, <1>21, <1>22, <1>23 DEF Next, Driver

(* Every step accounts for what it leaves.                                   *)
LEMMA CleanupStep ==
  ASSUME IInv, [Next]_vars
  PROVE  CleanupInv'
<1>1. out \in Nat /\ Len(Outputs) \in Nat /\ saveTemps \in BOOLEAN BY PlanShape DEF IInv, TypeOK
<1>2. CleanupInv /\ ControlInv /\ StatusInv /\ pc \in DriverSteps \cup Ended BY DEF IInv, TypeOK
<1> USE <1>1, <1>2
    DEF CleanupInv, ControlInv, StatusInv, FirstError, DriverSteps, PublishSteps, Before,
        Swapping, After, Ended, Absent, Truncated, control, files, history
<1>3. CASE MakeWorkspace
  <2>1. pc = "workspace" /\ UNCHANGED <<staged, undeleted>> BY <1>3 DEF MakeWorkspace
  <2>2. /\ pc' = "environment" \/ (pc' = "exit" /\ status' = 1 /\ work' = work)
    BY <1>3 DEF MakeWorkspace
  <2> QED BY <2>1, <2>2
<1>4. CASE MakeEnvironment BY <1>4 DEF MakeEnvironment
<1>5. CASE InstallHandler BY <1>5 DEF InstallHandler
<1>6. CASE LeaveCommands BY <1>6 DEF LeaveCommands
<1>7. CASE Launch BY <1>7 DEF Launch
<1>8. CASE RunTool BY <1>8, LowByte DEF RunTool, AfterTool
<1>9. CASE VerifyProduct BY <1>9 DEF VerifyProduct
<1>10. CASE Gate BY <1>10 DEF Gate
<1>11. CASE LeavePublish BY <1>11 DEF LeavePublish
<1>12. CASE Stage BY <1>12 DEF Stage
<1>13. CASE Copy BY <1>13 DEF Copy
<1>14. CASE Backup BY <1>14 DEF Backup
<1>15. CASE Rename BY <1>15 DEF Rename
<1>16. CASE Restore BY <1>16 DEF Restore
<1>17. CASE Discard BY <1>17 DEF Discard
<1>18. CASE DropBackup BY <1>18 DEF DropBackup
<1>19. CASE Cleanup BY <1>19 DEF Cleanup
<1>20. CASE Return BY <1>20 DEF Return
<1>21. CASE CtrlC BY <1>21 DEF CtrlC
<1>22. CASE PowerOff BY <1>22 DEF PowerOff
<1>23. CASE UNCHANGED vars BY <1>23 DEF vars
<1> QED
  BY <1>3, <1>4, <1>5, <1>6, <1>7, <1>8, <1>9, <1>10, <1>11, <1>12, <1>13, <1>14, <1>15, <1>16,
       <1>17, <1>18, <1>19, <1>20, <1>21, <1>22, <1>23 DEF Next, Driver

(* Every step leaves the destinations safe.                                  *)
LEMMA DestStep ==
  ASSUME IInv, [Next]_vars
  PROVE  DestinationsSafe'
<1>1. /\ out \in Nat /\ OutputIds = 1..Len(Outputs) /\ Len(Outputs) \in Nat
      /\ CommandIds = 1..Len(Commands)
      /\ Len(Commands) \in Nat /\ cmd \in Nat /\ out \in 1..Len(Outputs) + 1
      /\ dest \in [OutputIds -> {Absent, Previous, Truncated} \union CommandIds]
      /\ backup \in [OutputIds -> {Absent, Previous}]
      /\ before \in [OutputIds -> {Absent, Previous}]
  BY PlanShape DEF IInv, TypeOK, OutputIds, CommandIds
<1>2. DestinationsSafe /\ SwapInv /\ BackupInv /\ ControlInv /\ StatusInv /\ ContentInv
  BY DEF IInv
<1> USE <1>1, <1>2
    DEF DestinationsSafe, PreviousNeverLost, PublishedIsBuilt, EarlyInterruptPublishesNothing,
        ControlInv, StatusInv, ContentInv, SwapInv, BackupInv, Before, Swapping, After, Ended,
        NonEmpty, Absent, Previous, Truncated, control, files, history
<1>3. CASE MakeWorkspace BY <1>3 DEF MakeWorkspace
<1>4. CASE MakeEnvironment BY <1>4 DEF MakeEnvironment
<1>5. CASE InstallHandler BY <1>5 DEF InstallHandler
<1>6. CASE LeaveCommands BY <1>6 DEF LeaveCommands
<1>7. CASE Launch BY <1>7 DEF Launch
<1>8. CASE RunTool BY <1>8, LowByte DEF RunTool, AfterTool
<1>9. CASE VerifyProduct BY <1>9 DEF VerifyProduct
<1>10. CASE Gate BY <1>10 DEF Gate, FirstError
<1>11. CASE LeavePublish BY <1>11 DEF LeavePublish
<1>12. CASE Stage BY <1>12 DEF Stage
<1>13. CASE Copy BY <1>13 DEF Copy
<1>14. CASE Backup
  <2>1. out \in OutputIds /\ ~early /\ UNCHANGED <<cmd, early, before>> BY <1>14 DEF Backup
  <2>2. CASE UNCHANGED <<backup, dest>> BY <1>14, <2>1, <2>2
  <2>3. CASE backup' = [backup EXCEPT ![out] = dest[out]] /\ dest' = [dest EXCEPT ![out] = Absent]
    <3>1. /\ dest[out] = before[out] /\ \A o \in OutputIds : backup[o] = Absent
      BY <1>14, <2>1 DEF Backup
    <3>2. backup'[out] = before[out] /\ dest'[out] = Absent BY <2>1, <2>3, <3>1
    <3>3. \A o \in OutputIds \ {out} : dest'[o] = dest[o] /\ backup'[o] = Absent BY <2>3, <3>1
    <3>4. PreviousNeverLost'
      <4>1. ASSUME NEW o \in OutputIds, before[o] = Previous
            PROVE  dest'[o] \in {Previous} \union CommandIds \/ backup'[o] = Previous
        <5>1. CASE o = out BY <3>2, <4>1, <5>1
        <5>2. CASE o # out BY <2>1, <3>1, <3>3, <4>1, <5>2
        <5> QED BY <5>1, <5>2
      <4>2. ASSUME NEW o \in OutputIds, NEW p \in OutputIds,
                   backup'[o] # Absent, backup'[p] # Absent
            PROVE  o = p
        BY <3>2, <3>3, <4>2
      <4> QED BY <2>1, <4>1, <4>2
    <3>5. PublishedIsBuilt' BY <2>1, <3>2, <3>3
    <3> QED BY <2>1, <3>4, <3>5
  <2> QED BY <1>14, <2>2, <2>3 DEF Backup
<1>15. CASE Rename
  <2>1. /\ out \in OutputIds /\ ~early /\ cmd > Len(Commands)
        /\ UNCHANGED <<cmd, early, before, backup>>
        /\ staged \in CommandIds /\ Outputs[out] \in Writes(staged)
    BY <1>15 DEF Rename
  <2>2. \A o \in OutputIds : dest'[o] = dest[o] \/ (o = out /\ dest'[o] = staged)
    BY <1>15, <2>1 DEF Rename
  <2>3. PreviousNeverLost' BY <2>1, <2>2
  <2>4. PublishedIsBuilt' BY <2>1, <2>2
  <2> QED BY <2>1, <2>3, <2>4
<1>16. CASE Restore
  <2>1. out \in OutputIds /\ ~early /\ UNCHANGED <<cmd, early, before>> BY <1>16 DEF Restore
  <2>2. CASE UNCHANGED <<backup, dest>> BY <1>16, <2>1, <2>2
  <2>3. CASE /\ dest' = [dest EXCEPT ![out] = backup[out]]
             /\ backup' = [backup EXCEPT ![out] = Absent]
    <3>1. backup[out] = before[out] BY <1>16, <2>1 DEF Restore
    <3>2. backup'[out] = Absent /\ dest'[out] = before[out] BY <2>1, <2>3, <3>1
    <3>3. \A o \in OutputIds \ {out} : dest'[o] = dest[o] /\ backup'[o] = backup[o] BY <2>3
    <3>4. PreviousNeverLost'
      <4>1. ASSUME NEW o \in OutputIds, before[o] = Previous
            PROVE  dest'[o] \in {Previous} \union CommandIds \/ backup'[o] = Previous
        <5>1. CASE o = out BY <3>2, <4>1, <5>1
        <5>2. CASE o # out BY <2>1, <3>1, <3>3, <4>1, <5>2
        <5> QED BY <5>1, <5>2
      <4>2. ASSUME NEW o \in OutputIds, NEW p \in OutputIds,
                   backup'[o] # Absent, backup'[p] # Absent
            PROVE  o = p
        BY <2>1, <3>2, <3>3, <4>2
      <4> QED BY <2>1, <4>1, <4>2
    <3>5. PublishedIsBuilt' BY <2>1, <3>2, <3>3
    <3> QED BY <2>1, <3>4, <3>5
  <2> QED BY <1>16, <2>2, <2>3 DEF Restore
<1>17. CASE Discard BY <1>17 DEF Discard
<1>18. CASE DropBackup
  <2>1. /\ out \in OutputIds /\ ~early /\ UNCHANGED <<cmd, early, before, dest>>
        /\ dest[out] \in CommandIds
    BY <1>18 DEF DropBackup
  <2>2. \A o \in OutputIds : backup'[o] = backup[o] \/ (o = out /\ backup'[o] = Absent)
    BY <1>18, <2>1 DEF DropBackup
  <2>3. PreviousNeverLost'
    <3>1. ASSUME NEW o \in OutputIds, before[o] = Previous
          PROVE  dest[o] \in {Previous} \union CommandIds \/ backup'[o] = Previous
      BY <2>1, <2>2, <3>1
    <3>2. ASSUME NEW o \in OutputIds, NEW p \in OutputIds,
                 backup'[o] # Absent, backup'[p] # Absent
          PROVE  o = p
      BY <2>2, <3>2
    <3> QED BY <2>1, <3>1, <3>2
  <2>4. PublishedIsBuilt' BY <2>1
  <2> QED BY <2>1, <2>3, <2>4
<1>19. CASE Cleanup BY <1>19 DEF Cleanup, FirstError
<1>20. CASE Return BY <1>20 DEF Return
<1>21. CASE CtrlC
  <2>1. UNCHANGED <<dest, backup, before, cmd>> BY <1>21 DEF CtrlC
  <2>2. PreviousNeverLost' /\ PublishedIsBuilt' BY <2>1
  <2>3. CASE early' = early BY <2>1, <2>2, <2>3
  <2>4. CASE pc \in {"command", "verify", "gate"} BY <2>1, <2>2, <2>4
  <2>5. early \in BOOLEAN BY DEF IInv, TypeOK
  <2>6. ASSUME pc \notin {"command", "verify", "gate"} PROVE early' = early
    BY <1>21, <2>5, <2>6 DEF CtrlC
  <2> QED BY <2>3, <2>4, <2>6
<1>22. CASE PowerOff BY <1>22 DEF PowerOff
<1>23. CASE UNCHANGED vars BY <1>23 DEF vars
<1> QED
  BY <1>3, <1>4, <1>5, <1>6, <1>7, <1>8, <1>9, <1>10, <1>11, <1>12, <1>13, <1>14, <1>15, <1>16,
       <1>17, <1>18, <1>19, <1>20, <1>21, <1>22, <1>23 DEF Next, Driver

-----------------------------------------------------------------------------
(* The first state satisfies the invariant.                                  *)
LEMMA InitStep ==
  ASSUME Init
  PROVE  IInv
<1>1. Len(Commands) \in Nat /\ Len(Outputs) \in Nat /\ MaxInterrupts \in Nat /\ Len(Commands) > 0
  BY PlanShape, MaxInterruptsIsNat
<1> USE DEF Init, Absent, Previous, Truncated, CommandIds, OutputIds
<1>2. TypeOK
  <2>1. before \in [OutputIds -> {Absent, Previous}] OBVIOUS
  <2>2. dest \in [OutputIds -> {Absent, Previous, Truncated} \union CommandIds] BY <2>1
  <2>3. backup \in [OutputIds -> {Absent, Previous}] OBVIOUS
  <2>4. product \in [Products -> {Absent, Truncated} \union CommandIds] OBVIOUS
  <2>5. /\ pc \in DriverSteps \union Ended /\ status \in 0..255 /\ toolFailure \in 0..255
        /\ cmd \in 1..Len(Commands) + 1 /\ out \in 1..Len(Outputs) + 1
        /\ typed \in 0..MaxInterrupts
    BY <1>1 DEF DriverSteps
  <2>6. /\ saveTemps \in BOOLEAN /\ recording \in BOOLEAN /\ interrupted \in BOOLEAN
        /\ early \in BOOLEAN
        /\ previous \in {"handler", "error"} /\ work \in {"none", "present", "removed"}
        /\ staged \in {Absent, Truncated} \union CommandIds
        /\ undeleted \subseteq {"workspace", "staged", "backup"}
    OBVIOUS
  <2> QED BY <2>1, <2>2, <2>3, <2>4, <2>5, <2>6 DEF TypeOK
<1>3. ControlInv /\ StatusInv
  BY DEF ControlInv, StatusInv, Before, Swapping, After
<1>4. ContentInv BY <1>1 DEF ContentInv, NonEmpty
<1>5. SwapInv /\ BackupInv /\ CleanupInv
  BY <1>1 DEF SwapInv, BackupInv, CleanupInv, Before, Swapping, After
<1>6. DestinationsSafe
  BY <1>1 DEF DestinationsSafe, PreviousNeverLost, PublishedIsBuilt,
     EarlyInterruptPublishesNothing
<1> QED BY <1>2, <1>3, <1>4, <1>5, <1>6 DEF IInv

(* Every step keeps the invariant.                                           *)
LEMMA Inductive == IInv /\ [Next]_vars => IInv'
BY TypeStep, ControlStep, StatusStep, ContentStep, SwapStep, BackupStep, CleanupStep, DestStep
DEF IInv

(* What the status tells follows from what is left and what is in place.     *)
LEMMA StatusFollows ==
  ASSUME IInv
  PROVE  StatusTellsTheTruth
<1> USE DEF After, DriverSteps
<1>1. FirstFailureReported BY DEF FirstFailureReported, IInv, StatusInv
<1>2. NothingLeftBehind
  BY DEF NothingLeftBehind, IInv, BackupInv, CleanupInv
<1>3. ASSUME pc = "exit", status = 0
      PROVE  /\ \A o \in OutputIds : dest[o] \in CommandIds /\ backup[o] = Absent
             /\ staged = Absent /\ (work = "removed" \/ saveTemps) /\ ~recording
  <2>1. out \in Nat /\ Len(Outputs) \in Nat BY PlanShape DEF IInv, TypeOK
  <2>2. out > Len(Outputs) BY <1>3 DEF IInv, CleanupInv
  <2>3. \A o \in OutputIds : dest[o] \in CommandIds
    BY <1>3, <2>1, <2>2 DEF IInv, SwapInv, OutputIds
  <2>4. \A o \in OutputIds : backup[o] = Absent BY <1>3 DEF IInv, BackupInv
  <2>5. staged = Absent /\ (work = "removed" \/ saveTemps) /\ ~recording
    BY <1>3 DEF IInv, CleanupInv, ControlInv
  <2> QED BY <2>3, <2>4, <2>5
<1>4. SuccessIsComplete BY <1>3 DEF SuccessIsComplete
<1> QED BY <1>1, <1>2, <1>4 DEF StatusTellsTheTruth

(* The inductive invariant holds in every reachable state.                   *)
LEMMA Invariance == Spec => []IInv
<1>1. Init => IInv BY InitStep
<1> QED BY <1>1, Inductive, PTL DEF Spec

(* The DOS executor's state is well formed, and its status a byte.           *)
THEOREM TypeCorrect == Spec => []TypeOK
<1>1. IInv => TypeOK BY DEF IInv
<1> QED BY <1>1, Invariance, PTL

(* No destination is ever lost, whatever stops the run.                      *)
THEOREM DestinationsAreSafe == Spec => []DestinationsSafe
<1>1. IInv => DestinationsSafe BY DEF IInv
<1> QED BY <1>1, Invariance, PTL

(* What acc returns is what has happened.                                    *)
THEOREM StatusIsTrue == Spec => []StatusTellsTheTruth
<1>1. IInv => StatusTellsTheTruth BY StatusFollows
<1> QED BY <1>1, Invariance, PTL

-----------------------------------------------------------------------------
(* What the destinations show, as AccPublication sees them.                  *)
Show == [o \in OutputIds |-> Shown(o)]

(* Only replacing a destination changes what it shows.                       *)
LEMMA ShowStep ==
  ASSUME IInv, [Next]_vars
  PROVE  Show' = Show \/ (Rename /\ Show' = [Show EXCEPT ![out] = staged])
<1> USE DEF Absent, Previous
<1>1. /\ backup \in [OutputIds -> {Absent, Previous}]
      /\ dest \in [OutputIds -> {Absent, Previous, Truncated} \union CommandIds]
      /\ pc \in Swapping => out \in OutputIds
  <2>1. out \in 1..Len(Outputs) + 1 BY DEF IInv, TypeOK
  <2>2. Len(Outputs) \in Nat BY PlanShape
  <2> QED BY <2>1, <2>2 DEF IInv, TypeOK, ControlInv, OutputIds
<1>2. CASE UNCHANGED <<dest, backup>> BY <1>2 DEF Show, Shown
<1>3. CASE Backup
  <2>1. out \in OutputIds BY <1>1, <1>3 DEF Backup, Swapping
  <2>2. CASE /\ dest' = [dest EXCEPT ![out] = Absent]
             /\ backup' = [backup EXCEPT ![out] = dest[out]]
             /\ dest[out] # Absent
    <3>1. ASSUME NEW o \in OutputIds PROVE Shown(o)' = Shown(o)
      BY <1>1, <2>1, <2>2 DEF Shown
    <3> QED BY <3>1 DEF Show
  <2> QED BY <1>2, <1>3, <2>2 DEF Backup
<1>4. CASE Rename
  <2>1. out \in OutputIds /\ staged \in CommandIds /\ backup' = backup
    BY <1>1, <1>4 DEF Rename, Swapping, IInv, ContentInv, NonEmpty
  <2>2. CASE dest' = [dest EXCEPT ![out] = staged]
    <3>1. ASSUME NEW o \in OutputIds PROVE Shown(o)' = IF o = out THEN staged ELSE Shown(o)
      BY <1>1, <2>1, <2>2 DEF Shown, CommandIds
    <3> QED BY <1>4, <2>1, <3>1 DEF Show
  <2> QED BY <1>2, <1>4, <2>1, <2>2 DEF Rename
<1>5. CASE Restore
  <2>1. out \in OutputIds /\ dest[out] = Absent BY <1>1, <1>5 DEF Restore, Swapping, IInv, SwapInv
  <2>2. CASE /\ dest' = [dest EXCEPT ![out] = backup[out]]
             /\ backup' = [backup EXCEPT ![out] = Absent]
    <3>1. ASSUME NEW o \in OutputIds PROVE Shown(o)' = Shown(o)
      BY <1>1, <2>1, <2>2 DEF Shown
    <3> QED BY <3>1 DEF Show
  <2> QED BY <1>2, <1>5, <2>2 DEF Restore
<1>6. CASE DropBackup
  <2>1. out \in OutputIds /\ dest[out] # Absent /\ dest' = dest
    BY <1>1, <1>6 DEF DropBackup, Swapping, IInv, SwapInv, CommandIds
  <2>2. CASE backup' = [backup EXCEPT ![out] = Absent]
    <3>1. ASSUME NEW o \in OutputIds PROVE Shown(o)' = Shown(o)
      BY <1>1, <2>1, <2>2 DEF Shown
    <3> QED BY <3>1 DEF Show
  <2> QED BY <1>2, <1>6, <2>1, <2>2 DEF DropBackup
<1>7. CASE ~(Backup \/ Rename \/ Restore \/ DropBackup)
  <2>1. UNCHANGED <<dest, backup>>
    BY <1>7 DEF Next, Driver, MakeWorkspace, MakeEnvironment, InstallHandler, LeaveCommands,
       Launch,
       RunTool, VerifyProduct, Gate, LeavePublish, Stage, Copy, Discard, Cleanup, Return, CtrlC,
       PowerOff, vars, files
  <2> QED BY <1>2, <2>1
<1> QED BY <1>3, <1>4, <1>5, <1>6, <1>7

(* Every step of the executor is one of AccPublication, or changes nothing   *)
(* that it sees.                                                             *)
LEMMA PublicationStep ==
  ASSUME IInv, IInv', [Next]_vars
  PROVE  [Publication!PublicationNext]_(Publication!pubvars)
<1> USE DEF Ended
<1>1. cmd \in 1..Len(Commands) + 1 /\ Len(Commands) \in Nat /\ Len(Outputs) \in Nat
      /\ out \in 1..Len(Outputs) + 1
  BY PlanShape DEF IInv, TypeOK
<1>2. CASE Rename /\ Show' # Show
  <2>1. /\ pc = "rename" /\ out \in OutputIds /\ staged \in CommandIds /\ status = 0
        /\ Phase = "publishing" /\ Phase' = Phase
    BY <1>1, <1>2 DEF Rename, IInv, ControlInv, StatusInv, ContentInv, NonEmpty, Swapping,
       OutputIds, Phase
  <2>2. Show' = [Show EXCEPT ![out] = staged] BY <1>2, ShowStep
  <2>3. ASSUME NEW p \in OutputIds
        PROVE  Shown(p) \in {Absent, Previous} <=> p >= out
    <3>1. before[p] \in {Absent, Previous} /\ out \in Nat /\ p \in Nat
      <4>1. before \in [OutputIds -> {Absent, Previous}] BY DEF IInv, TypeOK
      <4> QED BY <1>1, <4>1 DEF OutputIds
    <3>2. CASE p < out
      <4>1. dest[p] \in CommandIds BY <2>1, <3>2 DEF IInv, SwapInv, Swapping
      <4> QED BY <3>1, <3>2, <4>1 DEF Shown, CommandIds, Absent, Previous
    <3>3. CASE p = out
      BY <2>1, <3>1, <3>3 DEF Shown, IInv, SwapInv, Absent, Previous
    <3>4. CASE p > out
      <4>1. dest[p] = before[p] /\ backup[p] = Absent
        BY <2>1, <3>1, <3>4 DEF IInv, SwapInv, BackupInv, Swapping
      <4> QED BY <3>1, <3>4, <4>1 DEF Shown, Absent, Previous
    <3> QED BY <3>1, <3>2, <3>3, <3>4
  <2>4. Publication!Replace(out)
    BY <2>1, <2>2, <2>3 DEF Publication!Replace, Publication!Untouched, OutputIds, CommandIds,
       Show,
       Publication!Absent, Publication!Previous, Absent, Previous
  <2> QED BY <2>1, <2>4 DEF Publication!PublicationNext, OutputIds
<1>3. CASE Return /\ status = 0
  <2>1. Phase = "publishing" /\ Phase' = "succeeded" /\ UNCHANGED <<dest, backup>>
    <3>1. cmd > Len(Commands) BY <1>3 DEF Return, IInv, ControlInv, After
    <3> QED BY <1>3, <3>1 DEF Return, Phase, files
  <2>2. \A o \in OutputIds : Shown(o) \in CommandIds
    <3>1. out > Len(Outputs) BY <1>3 DEF Return, IInv, CleanupInv
    <3>2. \A o \in OutputIds : dest[o] \in CommandIds
      BY <1>1, <1>3, <3>1 DEF Return, IInv, SwapInv, After, OutputIds
    <3> QED BY <3>2 DEF Shown, CommandIds, Absent
  <2>3. Publication!Succeed
    BY <2>1, <2>2 DEF Publication!Succeed, Publication!Untouched, OutputIds, CommandIds, Shown,
       Publication!Absent, Publication!Previous, Absent, Previous
  <2> QED BY <2>3 DEF Publication!PublicationNext
<1>4. CASE VerifyProduct
  <2>1. Phase = "building" /\ Phase' \in {"building", "publishing"}
    BY <1>1, <1>4 DEF VerifyProduct, IInv, ControlInv, Phase
  <2>2. Show' = Show BY <1>4, ShowStep DEF VerifyProduct, Rename
  <2> QED
    BY <2>1, <2>2 DEF Publication!PublicationNext, Publication!Built, Publication!pubvars, Show
<1>5. CASE ~(Rename /\ Show' # Show) /\ ~(Return /\ status = 0) /\ ~VerifyProduct
  <2>1. Show' = Show BY <1>5, ShowStep
  <2>2. Phase' = Phase \/ (Phase \in {"building", "publishing"} /\ Phase' = "failed")
    <3>1. cmd' = cmd
      BY <1>5 DEF Next, Driver, MakeWorkspace, MakeEnvironment, InstallHandler, LeaveCommands,
         Launch,
         RunTool, Gate, LeavePublish, Stage, Copy, Backup, Rename, Restore, Discard,
         DropBackup, Cleanup, Return, CtrlC, PowerOff, vars, control, files
    <3>2. CASE UNCHANGED <<pc, status>> BY <3>1, <3>2 DEF Phase
    <3>3. CASE pc \notin Ended /\ pc' \notin Ended BY <3>1, <3>3 DEF Phase
    <3>4. CASE pc \notin Ended /\ (pc' \in {"killed", "off"} \/ (pc' = "exit" /\ status' # 0))
      BY <3>4 DEF Phase
    <3>5. CASE MakeWorkspace \/ MakeEnvironment
      BY <3>3, <3>4, <3>5 DEF MakeWorkspace, MakeEnvironment
    <3>6. CASE InstallHandler \/ LeaveCommands \/ Launch \/ RunTool \/ Gate
      BY <3>3, <3>6 DEF InstallHandler, LeaveCommands, Launch, RunTool, Gate
    <3>7. CASE LeavePublish \/ Stage \/ Copy \/ Backup \/ Rename
      BY <3>3, <3>7 DEF LeavePublish, Stage, Copy, Backup, Rename
    <3>8. CASE Restore \/ Discard \/ DropBackup \/ Cleanup
      BY <3>3, <3>8 DEF Restore, Discard, DropBackup, Cleanup
    <3>9. CASE Return
      BY <1>5, <3>4, <3>9 DEF Return
    <3>10. CASE CtrlC \/ PowerOff
      BY <3>3, <3>4, <3>10 DEF CtrlC, PowerOff
    <3>11. CASE UNCHANGED vars
      BY <3>2, <3>11 DEF vars, control
    <3> QED
      BY <1>5, <3>5, <3>6, <3>7, <3>8, <3>9, <3>10, <3>11 DEF Next, Driver
  <2> QED
    BY <2>1, <2>2 DEF Publication!PublicationNext, Publication!Fail, Publication!pubvars, Show
<1> QED BY <1>2, <1>3, <1>4, <1>5

(* The DOS executor implements the publication contract, backups counting as *)
(* not yet replaced.                                                         *)
THEOREM ExecutorImplementsPublication == Spec => ImplementsPublication
<1>1. Init => Publication!PublicationInit
  <2> SUFFICES ASSUME Init PROVE Publication!PublicationInit OBVIOUS
  <2>1. Phase = "building" BY PlanShape DEF Init, Phase, Ended
  <2>2. \A o \in OutputIds : Shown(o) \in {Absent, Previous}
    BY DEF Init, Shown, Absent, Previous
  <2> QED
    BY <2>1, <2>2 DEF Publication!PublicationInit, OutputIds, Shown, Publication!Absent,
       Publication!Previous, Absent, Previous
<1>2. IInv /\ IInv' /\ [Next]_vars => [Publication!PublicationNext]_(Publication!pubvars)
  BY PublicationStep
<1> QED
  BY <1>1, <1>2, InitStep, Inductive, PTL
  DEF Spec, ImplementsPublication, Publication!PublicationSpec

=============================================================================
