------------------------- MODULE AccExecUnixProofs -------------------------
(***************************************************************************)
(* The safety properties of AccExecUnix, and its implementation of         *)
(* AccPublication, for every plan, every set of tool statuses and any      *)
(* number of signals.                                                      *)
(***************************************************************************)
EXTENDS AccExecUnix, TLAPS

Staging == {"stage", "copy", "sync", "check", "rename", "published", "unstage"}

Launching == {"fork", "forward", "wait", "blocked", "result", "verify"}

(* Where the driver is bounds its indices, its child and its workspace.     *)
ControlInv ==
  /\ pc = "start" => installed = 0
  /\ pc = "install" => installed < Len(Signals)
  /\ pc \in {"start", "install", "workspace"} => work = "none"
  /\ pc \in {"command", "publish"} \union Launching \union Staging => work = "present"
  /\ pc \in Launching => cmd <= Len(Commands)
  /\ child # "none" => /\ pc \in {"forward", "wait", "blocked", "crashed"}
                       /\ work = "present"
                       /\ cmd <= Len(Commands)
  /\ pc \in Staging => out <= Len(Outputs)

(* status is 0 until something fails, and keeps a failing tool's status.    *)
StatusInv ==
  /\ pc \in {"start", "install", "workspace", "command"} \union Launching \union Staging
       => status = 0
  /\ pc \notin Ended => toolFailure \in {0, status}
  /\ undeleted # {} => status # 0
  /\ pc = "cleanup" /\ status = 0 => work = "present"

(* Only a finished command loop lets the publication loop do anything.      *)
BuiltInv ==
  /\ 1..(cmd - 1) \subseteq succeeded
  /\ pc = "verify" => cmd \in succeeded
  /\ pc \in {"publish", "cleanup", "restore"} /\ status = 0 /\ interrupted = 0
       => cmd > Len(Commands)
  /\ pc \in Staging => cmd > Len(Commands)
  /\ \A o \in OutputIds : ~Untouched(o) => cmd > Len(Commands)

(* A non-empty file was written by a command that writes that product.      *)
ContentInv ==
  /\ \A p \in Products : NonEmpty(product[p]) => p \in Writes(product[p])
  /\ pc \in {"stage", "copy"} => NonEmpty(product[Outputs[out]])
  /\ pc \in {"sync", "check", "rename"} => NonEmpty(staged) /\ Outputs[out] \in Writes(staged)
  /\ \A o \in OutputIds :
       ~Untouched(o) => NonEmpty(dest[o]) /\ Outputs[o] \in Writes(dest[o])

(* Destinations are replaced in plan order, with none left out while status *)
(* is 0, and a caught signal freezes the last one allowed.                  *)
OrderInv ==
  /\ pc \notin Ended =>
       \A o \in OutputIds : ~Untouched(o) => o < out \/ (o = out /\ pc = "published")
  /\ status = 0 => \A o \in OutputIds : o < out => ~Untouched(o)
  /\ pc = "published" => ~Untouched(out)
  /\ pc \in {"cleanup", "restore"} /\ status = 0 /\ interrupted = 0 => out > Len(Outputs)
  /\ interrupted = 0 => lastAllowed = Len(Outputs)
  /\ pc = "rename" => out <= lastAllowed

(* Handlers are in place whenever there is something to clean up, and what  *)
(* cleaning up left is accounted for.                                       *)
CleanupInv ==
  /\ pc \notin {"restore"} \union Ended => handled = 1..installed
  /\ pc \notin {"start", "install", "cleanup", "restore"} \union Ended => installed = Len(Signals)
  /\ pc = "cleanup" /\ installed < Len(Signals) => work = "none"
  /\ pc = "restore" /\ status = 0 => handled = 1..installed
  /\ pc \in {"start", "install", "workspace", "stage"} => staged = Absent
  /\ pc \notin {"copy", "sync", "check", "rename", "unstage"} \union Ended /\ staged # Absent
       => "staged" \in undeleted
  /\ pc = "cleanup" /\ staged # Absent => work = "present"
  /\ pc = "restore" /\ work = "present" /\ ~saveTemps => "workspace" \in undeleted
  /\ pc = "restore" /\ status = 0 => work = "removed" \/ saveTemps

IInv ==
  /\ TypeOK
  /\ ControlInv
  /\ StatusInv
  /\ BuiltInv
  /\ ContentInv
  /\ OrderInv
  /\ CleanupInv
  /\ InterruptStopsPublication
  /\ SuccessIsComplete
  /\ FirstFailureReported
  /\ NothingLeftBehind
-----------------------------------------------------------------------------
(* The three signals of signals[], all with a non-zero number.               *)
LEMMA SignalFacts ==
  /\ Len(Signals) = 3
  /\ DOMAIN Signals = 1..3
  /\ \A i \in 1..3 : Signals[i] \in {1, 2, 15}
  BY DEF Signals

(* Installing and restoring handlers move one end of an interval.            *)
LEMMA IntervalFacts ==
  ASSUME NEW n \in Nat
  PROVE  /\ (1..n) \union {n + 1} = 1..(n + 1)
         /\ (1..n) \ {n} = 1..(n - 1)
  OBVIOUS

(* Every planned output and command product is a workspace product.          *)
LEMMA ProductFacts ==
  /\ \A o \in OutputIds : Outputs[o] \in Products
  /\ \A c \in CommandIds : Writes(c) \subseteq Products /\ Commands[c].product \in Writes(c)
<1>1. ASSUME NEW o \in OutputIds PROVE Outputs[o] \in Products
  <2>1. Outputs[o] \in {Outputs[q] : q \in OutputIds}
    OBVIOUS
  <2>2. QED
    BY <2>1 DEF Products
<1>2. ASSUME NEW c \in CommandIds PROVE Writes(c) \subseteq Products
  BY DEF Products
<1>3. ASSUME NEW c \in CommandIds PROVE Commands[c].product \in Writes(c)
  BY DEF Writes
<1>4. QED
  BY <1>1, <1>2, <1>3

(* Every step keeps the state well formed.                                   *)
LEMMA TypeStep == IInv /\ [Next]_vars => TypeOK'
<1> SUFFICES ASSUME IInv, [Next]_vars PROVE TypeOK'
  OBVIOUS
<1> USE PlanShape, MaxSignalsIsNat, SignalFacts, ProductFacts DEF IInv, TypeOK,
            ControlInv, DriverSteps, Ended, Launching, Staging, NonEmpty, Absent,
            Previous, Truncated, CommandIds, OutputIds, control, process, files, history
<1>1. CASE Resolve  BY <1>1 DEF Resolve
<1>2. CASE InstallHandler  BY <1>2 DEF InstallHandler
<1>3. CASE MakeWorkspace  BY <1>3 DEF MakeWorkspace
<1>4. CASE LeaveCommands  BY <1>4 DEF LeaveCommands
<1>5. CASE StartCommand  BY <1>5 DEF StartCommand
<1>6. CASE Fork  BY <1>6 DEF Fork
<1>7. CASE Forward  BY <1>7 DEF Forward
<1>8. CASE Block  BY <1>8 DEF Block
<1>9. CASE Reap  BY <1>9 DEF Reap
<1>10. CASE LaunchResult  BY <1>10 DEF LaunchResult
<1>11. CASE VerifyProduct
  <2>1. cmd \in CommandIds
    BY <1>11 DEF VerifyProduct
  <2>2. cmd' \in 1..Len(Commands) + 1 /\ status' \in Nat
    BY <1>11, <2>1 DEF VerifyProduct
  <2>3. pc' \in DriverSteps
    BY <1>11 DEF VerifyProduct
  <2>4. QED
    BY <1>11, <2>2, <2>3 DEF VerifyProduct
<1>12. CASE StartPublish  BY <1>12 DEF StartPublish
<1>13. CASE MissingProduct  BY <1>13 DEF MissingProduct
<1>14. CASE LeavePublish  BY <1>14 DEF LeavePublish
<1>15. CASE Stage  BY <1>15 DEF Stage
<1>16. CASE Copy  BY <1>16 DEF Copy
<1>17. CASE Sync  BY <1>17 DEF Sync
<1>18. CASE CheckInterrupt  BY <1>18 DEF CheckInterrupt
<1>19. CASE Rename  BY <1>19 DEF Rename
<1>20. CASE FinishPublish  BY <1>20 DEF FinishPublish
<1>21. CASE Unstage
  <2>1. undeleted' \subseteq {"staged", "workspace"}
    BY <1>21 DEF Unstage
  <2>2. QED
    BY <1>21, <2>1 DEF Unstage
<1>22. CASE Cleanup
  <2>1. undeleted' \subseteq {"staged", "workspace"}
    BY <1>22 DEF Cleanup
  <2>2. status' \in Nat
    BY <1>22 DEF Cleanup, FirstError
  <2>3. QED
    BY <1>22, <2>1, <2>2 DEF Cleanup
<1>23. CASE RestoreHandler  BY <1>23 DEF RestoreHandler, FirstError
<1>24. CASE Return  BY <1>24 DEF Return
<1>25. CASE Exec  BY <1>25 DEF Exec
<1>26. CASE ExecFails  BY <1>26 DEF ExecFails
<1>27. CASE ToolExits  BY <1>27 DEF ToolExits, LeaveFiles, AfterTool
<1>28. CASE ToolKilled  BY <1>28 DEF ToolKilled, LeaveFiles, AfterTool
<1>29. ASSUME NEW i \in DOMAIN Signals, NEW group \in BOOLEAN, Signal(i, group)
        PROVE  TypeOK'
  <2>1. sent' \in 0..MaxSignals
    BY <1>29 DEF Signal
  <2>2. Signals[i] \in {1, 2, 15} /\ LastPublishable \in 0..Len(Outputs)
    BY <1>29 DEF LastPublishable
  <2>3. pc' \in DriverSteps \union Ended
    BY <1>29 DEF Signal
  <2>4. childSignal' \in {0, 1, 2, 15} /\ interrupted' \in {0, 1, 2, 15}
    BY <1>29, <2>2 DEF Signal
  <2>5. lastAllowed' \in 0..Len(Outputs)
    BY <1>29, <2>2 DEF Signal
  <2>6. QED
    BY <1>29, <2>1, <2>3, <2>4, <2>5 DEF Signal
<1>30. CASE Crash  BY <1>30 DEF Crash
<1>31. CASE UNCHANGED vars
  BY <1>31 DEF vars, control, process, files, history
<1>32. QED
  BY <1>1, <1>2, <1>3, <1>4, <1>5, <1>6, <1>7, <1>8, <1>9, <1>10, <1>11, <1>12, <1>13,
     <1>14, <1>15, <1>16, <1>17, <1>18, <1>19, <1>20, <1>21, <1>22, <1>23, <1>24, <1>25,
     <1>26, <1>27, <1>28, <1>29, <1>30, <1>31 DEF Next, Driver, Child, World

(* Every step keeps indices, child and workspace in line with the driver.    *)
LEMMA ControlStep == IInv /\ [Next]_vars => ControlInv'
<1> SUFFICES ASSUME IInv, [Next]_vars PROVE ControlInv'
  OBVIOUS
<1> USE PlanShape, MaxSignalsIsNat, SignalFacts DEF IInv, TypeOK, ControlInv,
            CleanupInv, DriverSteps, Ended, Launching, Staging, control, process, files,
            history
<1>1. CASE Resolve  BY <1>1 DEF Resolve
<1>2. CASE InstallHandler  BY <1>2 DEF InstallHandler
<1>3. CASE MakeWorkspace  BY <1>3 DEF MakeWorkspace
<1>4. CASE LeaveCommands  BY <1>4 DEF LeaveCommands
<1>5. CASE StartCommand  BY <1>5 DEF StartCommand
<1>6. CASE Fork  BY <1>6 DEF Fork
<1>7. CASE Forward  BY <1>7 DEF Forward
<1>8. CASE Block  BY <1>8 DEF Block
<1>9. CASE Reap  BY <1>9 DEF Reap
<1>10. CASE LaunchResult  BY <1>10 DEF LaunchResult
<1>11. CASE VerifyProduct  BY <1>11 DEF VerifyProduct
<1>12. CASE StartPublish  BY <1>12 DEF StartPublish
<1>13. CASE MissingProduct  BY <1>13 DEF MissingProduct
<1>14. CASE LeavePublish  BY <1>14 DEF LeavePublish
<1>15. CASE Stage  BY <1>15 DEF Stage
<1>16. CASE Copy  BY <1>16 DEF Copy
<1>17. CASE Sync  BY <1>17 DEF Sync
<1>18. CASE CheckInterrupt  BY <1>18 DEF CheckInterrupt
<1>19. CASE Rename  BY <1>19 DEF Rename
<1>20. CASE FinishPublish  BY <1>20 DEF FinishPublish
<1>21. CASE Unstage  BY <1>21 DEF Unstage
<1>22. CASE Cleanup  BY <1>22 DEF Cleanup, FirstError
<1>23. CASE RestoreHandler  BY <1>23 DEF RestoreHandler, FirstError
<1>24. CASE Return  BY <1>24 DEF Return
<1>25. CASE Exec  BY <1>25 DEF Exec
<1>26. CASE ExecFails  BY <1>26 DEF ExecFails
<1>27. CASE ToolExits  BY <1>27 DEF ToolExits, LeaveFiles, AfterTool
<1>28. CASE ToolKilled  BY <1>28 DEF ToolKilled, LeaveFiles, AfterTool
<1>29. ASSUME NEW i \in DOMAIN Signals, NEW group \in BOOLEAN, Signal(i, group)
        PROVE  ControlInv'
  BY <1>29 DEF Signal, LastPublishable
<1>30. CASE Crash  BY <1>30 DEF Crash
<1>31. CASE UNCHANGED vars
  BY <1>31 DEF vars, control, process, files, history
<1>32. QED
  BY <1>1, <1>2, <1>3, <1>4, <1>5, <1>6, <1>7, <1>8, <1>9, <1>10, <1>11, <1>12, <1>13,
     <1>14, <1>15, <1>16, <1>17, <1>18, <1>19, <1>20, <1>21, <1>22, <1>23, <1>24, <1>25,
     <1>26, <1>27, <1>28, <1>29, <1>30, <1>31 DEF Next, Driver, Child, World

(* status stays 0 until a failure, and a failure leaves it so.               *)
LEMMA StatusStep == IInv /\ [Next]_vars => StatusInv'
<1> SUFFICES ASSUME IInv, [Next]_vars PROVE StatusInv'
  OBVIOUS
<1> USE PlanShape, MaxSignalsIsNat, SignalFacts DEF IInv, TypeOK, ControlInv, StatusInv,
            CleanupInv, DriverSteps, Ended, Launching, Staging, control, process, files,
            history
<1>1. CASE Resolve  BY <1>1 DEF Resolve
<1>2. CASE InstallHandler  BY <1>2 DEF InstallHandler
<1>3. CASE MakeWorkspace  BY <1>3 DEF MakeWorkspace
<1>4. CASE LeaveCommands  BY <1>4 DEF LeaveCommands
<1>5. CASE StartCommand  BY <1>5 DEF StartCommand
<1>6. CASE Fork  BY <1>6 DEF Fork
<1>7. CASE Forward  BY <1>7 DEF Forward
<1>8. CASE Block  BY <1>8 DEF Block
<1>9. CASE Reap  BY <1>9 DEF Reap
<1>10. CASE LaunchResult  BY <1>10 DEF LaunchResult
<1>11. CASE VerifyProduct  BY <1>11 DEF VerifyProduct
<1>12. CASE StartPublish  BY <1>12 DEF StartPublish
<1>13. CASE MissingProduct  BY <1>13 DEF MissingProduct
<1>14. CASE LeavePublish  BY <1>14 DEF LeavePublish
<1>15. CASE Stage  BY <1>15 DEF Stage
<1>16. CASE Copy  BY <1>16 DEF Copy
<1>17. CASE Sync  BY <1>17 DEF Sync
<1>18. CASE CheckInterrupt  BY <1>18 DEF CheckInterrupt
<1>19. CASE Rename  BY <1>19 DEF Rename
<1>20. CASE FinishPublish  BY <1>20 DEF FinishPublish
<1>21. CASE Unstage  BY <1>21 DEF Unstage
<1>22. CASE Cleanup  BY <1>22 DEF Cleanup, FirstError
<1>23. CASE RestoreHandler  BY <1>23 DEF RestoreHandler, FirstError
<1>24. CASE Return  BY <1>24 DEF Return
<1>25. CASE Exec  BY <1>25 DEF Exec
<1>26. CASE ExecFails  BY <1>26 DEF ExecFails
<1>27. CASE ToolExits  BY <1>27 DEF ToolExits, LeaveFiles, AfterTool
<1>28. CASE ToolKilled  BY <1>28 DEF ToolKilled, LeaveFiles, AfterTool
<1>29. ASSUME NEW i \in DOMAIN Signals, NEW group \in BOOLEAN, Signal(i, group)
        PROVE  StatusInv'
  BY <1>29 DEF Signal, LastPublishable
<1>30. CASE Crash  BY <1>30 DEF Crash
<1>31. CASE UNCHANGED vars
  BY <1>31 DEF vars, control, process, files, history
<1>32. QED
  BY <1>1, <1>2, <1>3, <1>4, <1>5, <1>6, <1>7, <1>8, <1>9, <1>10, <1>11, <1>12, <1>13,
     <1>14, <1>15, <1>16, <1>17, <1>18, <1>19, <1>20, <1>21, <1>22, <1>23, <1>24, <1>25,
     <1>26, <1>27, <1>28, <1>29, <1>30, <1>31 DEF Next, Driver, Child, World

(* Every step keeps the account of handlers and of what is left behind.      *)
LEMMA CleanupStep == IInv /\ [Next]_vars => CleanupInv'
<1> SUFFICES ASSUME IInv, [Next]_vars PROVE CleanupInv'
  OBVIOUS
<1> USE PlanShape, MaxSignalsIsNat, SignalFacts DEF IInv, TypeOK, ControlInv, StatusInv,
            CleanupInv, DriverSteps, Ended, Launching, Staging, Absent, control,
            process, files, history
<1>1. CASE Resolve  BY <1>1 DEF Resolve
<1>2. CASE InstallHandler
  <2>1. installed \in Nat
    OBVIOUS
  <2>2. (1..installed) \union {installed + 1} = 1..(installed + 1)
    BY <2>1, IntervalFacts
  <2>3. QED
    BY <1>2, <2>2 DEF InstallHandler
<1>3. CASE MakeWorkspace  BY <1>3 DEF MakeWorkspace
<1>4. CASE LeaveCommands  BY <1>4 DEF LeaveCommands
<1>5. CASE StartCommand  BY <1>5 DEF StartCommand
<1>6. CASE Fork  BY <1>6 DEF Fork
<1>7. CASE Forward  BY <1>7 DEF Forward
<1>8. CASE Block  BY <1>8 DEF Block
<1>9. CASE Reap  BY <1>9 DEF Reap
<1>10. CASE LaunchResult  BY <1>10 DEF LaunchResult
<1>11. CASE VerifyProduct  BY <1>11 DEF VerifyProduct
<1>12. CASE StartPublish  BY <1>12 DEF StartPublish
<1>13. CASE MissingProduct  BY <1>13 DEF MissingProduct
<1>14. CASE LeavePublish  BY <1>14 DEF LeavePublish
<1>15. CASE Stage  BY <1>15 DEF Stage
<1>16. CASE Copy  BY <1>16 DEF Copy
<1>17. CASE Sync  BY <1>17 DEF Sync
<1>18. CASE CheckInterrupt  BY <1>18 DEF CheckInterrupt
<1>19. CASE Rename  BY <1>19 DEF Rename
<1>20. CASE FinishPublish  BY <1>20 DEF FinishPublish
<1>21. CASE Unstage  BY <1>21 DEF Unstage
<1>22. CASE Cleanup  BY <1>22 DEF Cleanup, FirstError
<1>23. CASE RestoreHandler
  <2>1. installed \in Nat
    OBVIOUS
  <2>2. (1..installed) \ {installed} = 1..(installed - 1)
    BY <2>1, IntervalFacts
  <2>3. status = 0 \/ status' # 0
    BY <1>23 DEF RestoreHandler, FirstError
  <2>4. status' = 0 => handled' = 1..installed'
    <3>1. SUFFICES ASSUME status' = 0 PROVE handled' = 1..installed'
      OBVIOUS
    <3>2. handled' = handled \ {installed} /\ installed' = installed - 1
      BY <1>23, <3>1 DEF RestoreHandler, FirstError
    <3>3. handled = 1..installed
      BY <1>23, <2>3, <3>1 DEF RestoreHandler
    <3>4. QED
      BY <2>2, <3>2, <3>3
  <2>5. QED
    BY <1>23, <2>3, <2>4 DEF RestoreHandler, FirstError
<1>24. CASE Return  BY <1>24 DEF Return
<1>25. CASE Exec  BY <1>25 DEF Exec
<1>26. CASE ExecFails  BY <1>26 DEF ExecFails
<1>27. CASE ToolExits  BY <1>27 DEF ToolExits, LeaveFiles, AfterTool
<1>28. CASE ToolKilled  BY <1>28 DEF ToolKilled, LeaveFiles, AfterTool
<1>29. ASSUME NEW i \in DOMAIN Signals, NEW group \in BOOLEAN, Signal(i, group)
        PROVE  CleanupInv'
  BY <1>29 DEF Signal, LastPublishable
<1>30. CASE Crash  BY <1>30 DEF Crash
<1>31. CASE UNCHANGED vars
  BY <1>31 DEF vars, control, process, files, history
<1>32. QED
  BY <1>1, <1>2, <1>3, <1>4, <1>5, <1>6, <1>7, <1>8, <1>9, <1>10, <1>11, <1>12, <1>13,
     <1>14, <1>15, <1>16, <1>17, <1>18, <1>19, <1>20, <1>21, <1>22, <1>23, <1>24, <1>25,
     <1>26, <1>27, <1>28, <1>29, <1>30, <1>31 DEF Next, Driver, Child, World

(* The command counter moves past a command only once it has succeeded.      *)
LEMMA BuiltStep == IInv /\ [Next]_vars => BuiltInv'
<1> SUFFICES ASSUME IInv, [Next]_vars PROVE BuiltInv'
  OBVIOUS
<1> USE PlanShape, MaxSignalsIsNat, SignalFacts DEF IInv, TypeOK, ControlInv, StatusInv,
            BuiltInv, OrderInv, DriverSteps, Ended, Launching, Staging, CommandIds,
            OutputIds, Untouched, Absent, Previous, control, process, files, history
<1>1. CASE Resolve  BY <1>1 DEF Resolve
<1>2. CASE InstallHandler  BY <1>2 DEF InstallHandler
<1>3. CASE MakeWorkspace  BY <1>3 DEF MakeWorkspace
<1>4. CASE LeaveCommands  BY <1>4 DEF LeaveCommands
<1>5. CASE StartCommand  BY <1>5 DEF StartCommand
<1>6. CASE Fork  BY <1>6 DEF Fork
<1>7. CASE Forward  BY <1>7 DEF Forward
<1>8. CASE Block  BY <1>8 DEF Block
<1>9. CASE Reap  BY <1>9 DEF Reap
<1>10. CASE LaunchResult  BY <1>10 DEF LaunchResult
<1>11. CASE VerifyProduct  BY <1>11 DEF VerifyProduct
<1>12. CASE StartPublish  BY <1>12 DEF StartPublish
<1>13. CASE MissingProduct  BY <1>13 DEF MissingProduct
<1>14. CASE LeavePublish  BY <1>14 DEF LeavePublish
<1>15. CASE Stage  BY <1>15 DEF Stage
<1>16. CASE Copy  BY <1>16 DEF Copy
<1>17. CASE Sync  BY <1>17 DEF Sync
<1>18. CASE CheckInterrupt  BY <1>18 DEF CheckInterrupt
<1>19. CASE Rename  BY <1>19 DEF Rename
<1>20. CASE FinishPublish  BY <1>20 DEF FinishPublish
<1>21. CASE Unstage  BY <1>21 DEF Unstage
<1>22. CASE Cleanup  BY <1>22 DEF Cleanup, FirstError
<1>23. CASE RestoreHandler  BY <1>23 DEF RestoreHandler, FirstError
<1>24. CASE Return  BY <1>24 DEF Return
<1>25. CASE Exec  BY <1>25 DEF Exec
<1>26. CASE ExecFails  BY <1>26 DEF ExecFails
<1>27. CASE ToolExits  BY <1>27 DEF ToolExits, LeaveFiles, AfterTool
<1>28. CASE ToolKilled  BY <1>28 DEF ToolKilled, LeaveFiles, AfterTool
<1>29. ASSUME NEW i \in DOMAIN Signals, NEW group \in BOOLEAN, Signal(i, group)
        PROVE  BuiltInv'
  BY <1>29 DEF Signal, LastPublishable
<1>30. CASE Crash  BY <1>30 DEF Crash
<1>31. CASE UNCHANGED vars
  BY <1>31 DEF vars, control, process, files, history
<1>32. QED
  BY <1>1, <1>2, <1>3, <1>4, <1>5, <1>6, <1>7, <1>8, <1>9, <1>10, <1>11, <1>12, <1>13,
     <1>14, <1>15, <1>16, <1>17, <1>18, <1>19, <1>20, <1>21, <1>22, <1>23, <1>24, <1>25,
     <1>26, <1>27, <1>28, <1>29, <1>30, <1>31 DEF Next, Driver, Child, World

(* Only a tool that writes a product gives it content; copies keep it.       *)
LEMMA ContentStep == IInv /\ [Next]_vars => ContentInv'
<1> SUFFICES ASSUME IInv, [Next]_vars PROVE ContentInv'
  OBVIOUS
<1> USE PlanShape, ProductFacts DEF IInv, TypeOK, ControlInv, StatusInv, ContentInv,
            NonEmpty, Ended, Launching, Staging, CommandIds, OutputIds, Untouched,
            Absent, Previous, Truncated, control, process, files, history
<1>1. CASE Resolve  BY <1>1 DEF Resolve
<1>2. CASE InstallHandler  BY <1>2 DEF InstallHandler
<1>3. CASE MakeWorkspace  BY <1>3 DEF MakeWorkspace
<1>4. CASE LeaveCommands  BY <1>4 DEF LeaveCommands
<1>5. CASE StartCommand  BY <1>5 DEF StartCommand
<1>6. CASE Fork  BY <1>6 DEF Fork
<1>7. CASE Forward  BY <1>7 DEF Forward
<1>8. CASE Block  BY <1>8 DEF Block
<1>9. CASE Reap  BY <1>9 DEF Reap
<1>10. CASE LaunchResult  BY <1>10 DEF LaunchResult
<1>11. CASE VerifyProduct  BY <1>11 DEF VerifyProduct
<1>12. CASE StartPublish  BY <1>12 DEF StartPublish
<1>13. CASE MissingProduct  BY <1>13 DEF MissingProduct
<1>14. CASE LeavePublish  BY <1>14 DEF LeavePublish
<1>15. CASE Stage  BY <1>15 DEF Stage
<1>16. CASE Copy  BY <1>16 DEF Copy
<1>17. CASE Sync  BY <1>17 DEF Sync
<1>18. CASE CheckInterrupt  BY <1>18 DEF CheckInterrupt
<1>19. CASE Rename
  <2>1. /\ out \in OutputIds /\ NonEmpty(staged) /\ Outputs[out] \in Writes(staged)
        /\ pc' \in {"published", "unstage"} /\ UNCHANGED <<product, out>>
    BY <1>19 DEF Rename
  <2>2. dest' = dest \/ dest' = [dest EXCEPT ![out] = staged]
    BY <1>19 DEF Rename
  <2>3. \A o \in OutputIds :
          dest'[o] \notin {Absent, Previous}
            => NonEmpty(dest'[o]) /\ Outputs[o] \in Writes(dest'[o])
    BY <2>1, <2>2
  <2>4. QED
    BY <2>1, <2>3
<1>20. CASE FinishPublish  BY <1>20 DEF FinishPublish
<1>21. CASE Unstage  BY <1>21 DEF Unstage
<1>22. CASE Cleanup  BY <1>22 DEF Cleanup, FirstError
<1>23. CASE RestoreHandler  BY <1>23 DEF RestoreHandler, FirstError
<1>24. CASE Return  BY <1>24 DEF Return
<1>25. CASE Exec  BY <1>25 DEF Exec
<1>26. CASE ExecFails  BY <1>26 DEF ExecFails
<1>27. CASE ToolExits  BY <1>27 DEF ToolExits, LeaveFiles, AfterTool
<1>28. CASE ToolKilled  BY <1>28 DEF ToolKilled, LeaveFiles, AfterTool
<1>29. ASSUME NEW i \in DOMAIN Signals, NEW group \in BOOLEAN, Signal(i, group)
        PROVE  ContentInv'
  BY <1>29 DEF Signal, LastPublishable
<1>30. CASE Crash  BY <1>30 DEF Crash
<1>31. CASE UNCHANGED vars
  BY <1>31 DEF vars, control, process, files, history
<1>32. QED
  BY <1>1, <1>2, <1>3, <1>4, <1>5, <1>6, <1>7, <1>8, <1>9, <1>10, <1>11, <1>12, <1>13,
     <1>14, <1>15, <1>16, <1>17, <1>18, <1>19, <1>20, <1>21, <1>22, <1>23, <1>24, <1>25,
     <1>26, <1>27, <1>28, <1>29, <1>30, <1>31 DEF Next, Driver, Child, World

(* Every step keeps publication in plan order.                               *)
LEMMA OrderStep == IInv /\ [Next]_vars => OrderInv'
<1> SUFFICES ASSUME IInv, [Next]_vars PROVE OrderInv'
  OBVIOUS
<1> USE PlanShape, MaxSignalsIsNat, SignalFacts DEF IInv, TypeOK, ControlInv, StatusInv,
            ContentInv, OrderInv, NonEmpty, DriverSteps, Ended, Launching, Staging,
            CommandIds, OutputIds, Untouched, Absent, Previous, Truncated, control,
            process, files, history
<1>1. CASE Resolve  BY <1>1 DEF Resolve
<1>2. CASE InstallHandler  BY <1>2 DEF InstallHandler
<1>3. CASE MakeWorkspace  BY <1>3 DEF MakeWorkspace
<1>4. CASE LeaveCommands  BY <1>4 DEF LeaveCommands
<1>5. CASE StartCommand  BY <1>5 DEF StartCommand
<1>6. CASE Fork  BY <1>6 DEF Fork
<1>7. CASE Forward  BY <1>7 DEF Forward
<1>8. CASE Block  BY <1>8 DEF Block
<1>9. CASE Reap  BY <1>9 DEF Reap
<1>10. CASE LaunchResult  BY <1>10 DEF LaunchResult
<1>11. CASE VerifyProduct  BY <1>11 DEF VerifyProduct
<1>12. CASE StartPublish  BY <1>12 DEF StartPublish
<1>13. CASE MissingProduct  BY <1>13 DEF MissingProduct
<1>14. CASE LeavePublish  BY <1>14 DEF LeavePublish
<1>15. CASE Stage  BY <1>15 DEF Stage
<1>16. CASE Copy  BY <1>16 DEF Copy
<1>17. CASE Sync  BY <1>17 DEF Sync
<1>18. CASE CheckInterrupt  BY <1>18 DEF CheckInterrupt
<1>19. CASE Rename  BY <1>19 DEF Rename
<1>20. CASE FinishPublish  BY <1>20 DEF FinishPublish
<1>21. CASE Unstage  BY <1>21 DEF Unstage
<1>22. CASE Cleanup  BY <1>22 DEF Cleanup, FirstError
<1>23. CASE RestoreHandler  BY <1>23 DEF RestoreHandler, FirstError
<1>24. CASE Return  BY <1>24 DEF Return
<1>25. CASE Exec  BY <1>25 DEF Exec
<1>26. CASE ExecFails  BY <1>26 DEF ExecFails
<1>27. CASE ToolExits  BY <1>27 DEF ToolExits, LeaveFiles, AfterTool
<1>28. CASE ToolKilled  BY <1>28 DEF ToolKilled, LeaveFiles, AfterTool
<1>29. ASSUME NEW i \in DOMAIN Signals, NEW group \in BOOLEAN, Signal(i, group)
        PROVE  OrderInv'
  BY <1>29 DEF Signal, LastPublishable
<1>30. CASE Crash  BY <1>30 DEF Crash
<1>31. CASE UNCHANGED vars
  BY <1>31 DEF vars, control, process, files, history
<1>32. QED
  BY <1>1, <1>2, <1>3, <1>4, <1>5, <1>6, <1>7, <1>8, <1>9, <1>10, <1>11, <1>12, <1>13,
     <1>14, <1>15, <1>16, <1>17, <1>18, <1>19, <1>20, <1>21, <1>22, <1>23, <1>24, <1>25,
     <1>26, <1>27, <1>28, <1>29, <1>30, <1>31 DEF Next, Driver, Child, World

(* No step publishes an output a caught signal has stopped.                  *)
LEMMA InterruptStep == IInv /\ [Next]_vars => InterruptStopsPublication'
<1> SUFFICES ASSUME IInv, [Next]_vars PROVE InterruptStopsPublication'
  OBVIOUS
<1> USE PlanShape, MaxSignalsIsNat, SignalFacts DEF IInv, TypeOK, ControlInv, OrderInv,
            InterruptStopsPublication, DriverSteps, Ended, Launching, Staging,
            OutputIds, Untouched, control, process, files, history
<1>1. CASE Resolve  BY <1>1 DEF Resolve
<1>2. CASE InstallHandler  BY <1>2 DEF InstallHandler
<1>3. CASE MakeWorkspace  BY <1>3 DEF MakeWorkspace
<1>4. CASE LeaveCommands  BY <1>4 DEF LeaveCommands
<1>5. CASE StartCommand  BY <1>5 DEF StartCommand
<1>6. CASE Fork  BY <1>6 DEF Fork
<1>7. CASE Forward  BY <1>7 DEF Forward
<1>8. CASE Block  BY <1>8 DEF Block
<1>9. CASE Reap  BY <1>9 DEF Reap
<1>10. CASE LaunchResult  BY <1>10 DEF LaunchResult
<1>11. CASE VerifyProduct  BY <1>11 DEF VerifyProduct
<1>12. CASE StartPublish  BY <1>12 DEF StartPublish
<1>13. CASE MissingProduct  BY <1>13 DEF MissingProduct
<1>14. CASE LeavePublish  BY <1>14 DEF LeavePublish
<1>15. CASE Stage  BY <1>15 DEF Stage
<1>16. CASE Copy  BY <1>16 DEF Copy
<1>17. CASE Sync  BY <1>17 DEF Sync
<1>18. CASE CheckInterrupt  BY <1>18 DEF CheckInterrupt
<1>19. CASE Rename  BY <1>19 DEF Rename
<1>20. CASE FinishPublish  BY <1>20 DEF FinishPublish
<1>21. CASE Unstage  BY <1>21 DEF Unstage
<1>22. CASE Cleanup  BY <1>22 DEF Cleanup, FirstError
<1>23. CASE RestoreHandler  BY <1>23 DEF RestoreHandler, FirstError
<1>24. CASE Return  BY <1>24 DEF Return
<1>25. CASE Exec  BY <1>25 DEF Exec
<1>26. CASE ExecFails  BY <1>26 DEF ExecFails
<1>27. CASE ToolExits  BY <1>27 DEF ToolExits, LeaveFiles, AfterTool
<1>28. CASE ToolKilled  BY <1>28 DEF ToolKilled, LeaveFiles, AfterTool
<1>29. ASSUME NEW i \in DOMAIN Signals, NEW group \in BOOLEAN, Signal(i, group)
        PROVE  InterruptStopsPublication'
  BY <1>29 DEF Signal, LastPublishable
<1>30. CASE Crash  BY <1>30 DEF Crash
<1>31. CASE UNCHANGED vars
  BY <1>31 DEF vars, control, process, files, history
<1>32. QED
  BY <1>1, <1>2, <1>3, <1>4, <1>5, <1>6, <1>7, <1>8, <1>9, <1>10, <1>11, <1>12, <1>13,
     <1>14, <1>15, <1>16, <1>17, <1>18, <1>19, <1>20, <1>21, <1>22, <1>23, <1>24, <1>25,
     <1>26, <1>27, <1>28, <1>29, <1>30, <1>31 DEF Next, Driver, Child, World

(* No step returns 0 with something left to do.                              *)
LEMMA SuccessStep == IInv /\ [Next]_vars => SuccessIsComplete'
<1> SUFFICES ASSUME IInv, [Next]_vars PROVE SuccessIsComplete'
  OBVIOUS
<1> USE PlanShape, MaxSignalsIsNat, SignalFacts DEF IInv, TypeOK, ControlInv, StatusInv,
            OrderInv, CleanupInv, SuccessIsComplete, DriverSteps, Ended, Launching,
            Staging, OutputIds, Untouched, control, process, files, history
<1>1. CASE Resolve  BY <1>1 DEF Resolve
<1>2. CASE InstallHandler  BY <1>2 DEF InstallHandler
<1>3. CASE MakeWorkspace  BY <1>3 DEF MakeWorkspace
<1>4. CASE LeaveCommands  BY <1>4 DEF LeaveCommands
<1>5. CASE StartCommand  BY <1>5 DEF StartCommand
<1>6. CASE Fork  BY <1>6 DEF Fork
<1>7. CASE Forward  BY <1>7 DEF Forward
<1>8. CASE Block  BY <1>8 DEF Block
<1>9. CASE Reap  BY <1>9 DEF Reap
<1>10. CASE LaunchResult  BY <1>10 DEF LaunchResult
<1>11. CASE VerifyProduct  BY <1>11 DEF VerifyProduct
<1>12. CASE StartPublish  BY <1>12 DEF StartPublish
<1>13. CASE MissingProduct  BY <1>13 DEF MissingProduct
<1>14. CASE LeavePublish  BY <1>14 DEF LeavePublish
<1>15. CASE Stage  BY <1>15 DEF Stage
<1>16. CASE Copy  BY <1>16 DEF Copy
<1>17. CASE Sync  BY <1>17 DEF Sync
<1>18. CASE CheckInterrupt  BY <1>18 DEF CheckInterrupt
<1>19. CASE Rename  BY <1>19 DEF Rename
<1>20. CASE FinishPublish  BY <1>20 DEF FinishPublish
<1>21. CASE Unstage  BY <1>21 DEF Unstage
<1>22. CASE Cleanup  BY <1>22 DEF Cleanup, FirstError
<1>23. CASE RestoreHandler  BY <1>23 DEF RestoreHandler, FirstError
<1>24. CASE Return  BY <1>24 DEF Return
<1>25. CASE Exec  BY <1>25 DEF Exec
<1>26. CASE ExecFails  BY <1>26 DEF ExecFails
<1>27. CASE ToolExits  BY <1>27 DEF ToolExits, LeaveFiles, AfterTool
<1>28. CASE ToolKilled  BY <1>28 DEF ToolKilled, LeaveFiles, AfterTool
<1>29. ASSUME NEW i \in DOMAIN Signals, NEW group \in BOOLEAN, Signal(i, group)
        PROVE  SuccessIsComplete'
  BY <1>29 DEF Signal, LastPublishable
<1>30. CASE Crash  BY <1>30 DEF Crash
<1>31. CASE UNCHANGED vars
  BY <1>31 DEF vars, control, process, files, history
<1>32. QED
  BY <1>1, <1>2, <1>3, <1>4, <1>5, <1>6, <1>7, <1>8, <1>9, <1>10, <1>11, <1>12, <1>13,
     <1>14, <1>15, <1>16, <1>17, <1>18, <1>19, <1>20, <1>21, <1>22, <1>23, <1>24, <1>25,
     <1>26, <1>27, <1>28, <1>29, <1>30, <1>31 DEF Next, Driver, Child, World

(* No step returns another status than the first failing tool's.             *)
LEMMA FailureStep == IInv /\ [Next]_vars => FirstFailureReported'
<1> SUFFICES ASSUME IInv, [Next]_vars PROVE FirstFailureReported'
  OBVIOUS
<1> USE PlanShape, MaxSignalsIsNat, SignalFacts DEF IInv, TypeOK, StatusInv,
            FirstFailureReported, DriverSteps, Ended, control, process, files, history
<1>1. CASE Resolve  BY <1>1 DEF Resolve
<1>2. CASE InstallHandler  BY <1>2 DEF InstallHandler
<1>3. CASE MakeWorkspace  BY <1>3 DEF MakeWorkspace
<1>4. CASE LeaveCommands  BY <1>4 DEF LeaveCommands
<1>5. CASE StartCommand  BY <1>5 DEF StartCommand
<1>6. CASE Fork  BY <1>6 DEF Fork
<1>7. CASE Forward  BY <1>7 DEF Forward
<1>8. CASE Block  BY <1>8 DEF Block
<1>9. CASE Reap  BY <1>9 DEF Reap
<1>10. CASE LaunchResult  BY <1>10 DEF LaunchResult
<1>11. CASE VerifyProduct  BY <1>11 DEF VerifyProduct
<1>12. CASE StartPublish  BY <1>12 DEF StartPublish
<1>13. CASE MissingProduct  BY <1>13 DEF MissingProduct
<1>14. CASE LeavePublish  BY <1>14 DEF LeavePublish
<1>15. CASE Stage  BY <1>15 DEF Stage
<1>16. CASE Copy  BY <1>16 DEF Copy
<1>17. CASE Sync  BY <1>17 DEF Sync
<1>18. CASE CheckInterrupt  BY <1>18 DEF CheckInterrupt
<1>19. CASE Rename  BY <1>19 DEF Rename
<1>20. CASE FinishPublish  BY <1>20 DEF FinishPublish
<1>21. CASE Unstage  BY <1>21 DEF Unstage
<1>22. CASE Cleanup  BY <1>22 DEF Cleanup, FirstError
<1>23. CASE RestoreHandler  BY <1>23 DEF RestoreHandler, FirstError
<1>24. CASE Return  BY <1>24 DEF Return
<1>25. CASE Exec  BY <1>25 DEF Exec
<1>26. CASE ExecFails  BY <1>26 DEF ExecFails
<1>27. CASE ToolExits  BY <1>27 DEF ToolExits, LeaveFiles, AfterTool
<1>28. CASE ToolKilled  BY <1>28 DEF ToolKilled, LeaveFiles, AfterTool
<1>29. ASSUME NEW i \in DOMAIN Signals, NEW group \in BOOLEAN, Signal(i, group)
        PROVE  FirstFailureReported'
  BY <1>29 DEF Signal, LastPublishable
<1>30. CASE Crash  BY <1>30 DEF Crash
<1>31. CASE UNCHANGED vars
  BY <1>31 DEF vars, control, process, files, history
<1>32. QED
  BY <1>1, <1>2, <1>3, <1>4, <1>5, <1>6, <1>7, <1>8, <1>9, <1>10, <1>11, <1>12, <1>13,
     <1>14, <1>15, <1>16, <1>17, <1>18, <1>19, <1>20, <1>21, <1>22, <1>23, <1>24, <1>25,
     <1>26, <1>27, <1>28, <1>29, <1>30, <1>31 DEF Next, Driver, Child, World

(* No step ends the run with a leftover it has not accounted for.            *)
LEMMA LeftoverStep == IInv /\ [Next]_vars => NothingLeftBehind'
<1> SUFFICES ASSUME IInv, [Next]_vars PROVE NothingLeftBehind'
  OBVIOUS
<1> USE PlanShape, MaxSignalsIsNat, SignalFacts DEF IInv, TypeOK, ControlInv, StatusInv,
            CleanupInv, NothingLeftBehind, DriverSteps, Ended, Launching, Staging,
            control, process, files, history
<1>1. CASE Resolve  BY <1>1 DEF Resolve
<1>2. CASE InstallHandler  BY <1>2 DEF InstallHandler
<1>3. CASE MakeWorkspace  BY <1>3 DEF MakeWorkspace
<1>4. CASE LeaveCommands  BY <1>4 DEF LeaveCommands
<1>5. CASE StartCommand  BY <1>5 DEF StartCommand
<1>6. CASE Fork  BY <1>6 DEF Fork
<1>7. CASE Forward  BY <1>7 DEF Forward
<1>8. CASE Block  BY <1>8 DEF Block
<1>9. CASE Reap  BY <1>9 DEF Reap
<1>10. CASE LaunchResult  BY <1>10 DEF LaunchResult
<1>11. CASE VerifyProduct  BY <1>11 DEF VerifyProduct
<1>12. CASE StartPublish  BY <1>12 DEF StartPublish
<1>13. CASE MissingProduct  BY <1>13 DEF MissingProduct
<1>14. CASE LeavePublish  BY <1>14 DEF LeavePublish
<1>15. CASE Stage  BY <1>15 DEF Stage
<1>16. CASE Copy  BY <1>16 DEF Copy
<1>17. CASE Sync  BY <1>17 DEF Sync
<1>18. CASE CheckInterrupt  BY <1>18 DEF CheckInterrupt
<1>19. CASE Rename  BY <1>19 DEF Rename
<1>20. CASE FinishPublish  BY <1>20 DEF FinishPublish
<1>21. CASE Unstage  BY <1>21 DEF Unstage
<1>22. CASE Cleanup  BY <1>22 DEF Cleanup, FirstError
<1>23. CASE RestoreHandler  BY <1>23 DEF RestoreHandler, FirstError
<1>24. CASE Return  BY <1>24 DEF Return
<1>25. CASE Exec  BY <1>25 DEF Exec
<1>26. CASE ExecFails  BY <1>26 DEF ExecFails
<1>27. CASE ToolExits  BY <1>27 DEF ToolExits, LeaveFiles, AfterTool
<1>28. CASE ToolKilled  BY <1>28 DEF ToolKilled, LeaveFiles, AfterTool
<1>29. ASSUME NEW i \in DOMAIN Signals, NEW group \in BOOLEAN, Signal(i, group)
        PROVE  NothingLeftBehind'
  BY <1>29 DEF Signal, LastPublishable
<1>30. CASE Crash  BY <1>30 DEF Crash
<1>31. CASE UNCHANGED vars
  BY <1>31 DEF vars, control, process, files, history
<1>32. QED
  BY <1>1, <1>2, <1>3, <1>4, <1>5, <1>6, <1>7, <1>8, <1>9, <1>10, <1>11, <1>12, <1>13,
     <1>14, <1>15, <1>16, <1>17, <1>18, <1>19, <1>20, <1>21, <1>22, <1>23, <1>24, <1>25,
     <1>26, <1>27, <1>28, <1>29, <1>30, <1>31 DEF Next, Driver, Child, World

(* Together the parts of IInv hold initially and are kept by every step.     *)
LEMMA Inductive == Spec => []IInv
<1>1. Init => IInv
  <2> SUFFICES ASSUME Init PROVE IInv
    OBVIOUS
  <2> USE PlanShape, MaxSignalsIsNat DEF Init
  <2>1. TypeOK
    BY SignalFacts DEF TypeOK, DriverSteps, Absent, Previous, Truncated
  <2>2. ControlInv /\ StatusInv /\ CleanupInv
    BY DEF ControlInv, StatusInv, CleanupInv, Launching, Staging, Ended
  <2> USE DEF Untouched, NonEmpty, CommandIds, OutputIds, Absent, Previous, Staging
  <2>3. BuiltInv
    BY DEF BuiltInv
  <2>4. ContentInv
    BY DEF ContentInv
  <2>5. OrderInv /\ InterruptStopsPublication
    BY DEF OrderInv, InterruptStopsPublication
  <2>6. SuccessIsComplete /\ FirstFailureReported /\ NothingLeftBehind
    BY DEF SuccessIsComplete, FirstFailureReported, NothingLeftBehind
  <2>7. QED
    BY <2>1, <2>2, <2>3, <2>4, <2>5, <2>6 DEF IInv
<1>2. IInv /\ [Next]_vars => IInv'
  BY TypeStep, ControlStep, StatusStep, CleanupStep, BuiltStep, ContentStep, OrderStep,
     InterruptStep, SuccessStep, FailureStep, LeftoverStep DEF IInv
<1>3. QED
  BY <1>1, <1>2, PTL DEF Spec

(* The state is well formed in every reachable state of every plan.         *)
THEOREM TypeCorrect == Spec => []TypeOK
<1>1. IInv => TypeOK
  BY DEF IInv
<1>2. QED
  BY <1>1, Inductive, PTL

(* At every instant each destination holds its previous content or a         *)
(* complete product of a run whose commands have all succeeded.              *)
THEOREM PublishedFilesAreBuilt == Spec => []PublishedIsBuilt
<1>1. IInv => PublishedIsBuilt
  <2> SUFFICES ASSUME IInv, NEW o \in OutputIds, ~Untouched(o)
               PROVE  /\ dest[o] \in CommandIds /\ Outputs[o] \in Writes(dest[o])
                      /\ succeeded = CommandIds
    BY DEF PublishedIsBuilt
  <2>1. dest[o] \in CommandIds /\ Outputs[o] \in Writes(dest[o])
    BY DEF IInv, ContentInv, NonEmpty
  <2>2. cmd = Len(Commands) + 1
    BY PlanShape DEF IInv, BuiltInv, TypeOK
  <2>3. CommandIds \subseteq succeeded
    BY <2>2, PlanShape DEF IInv, BuiltInv, CommandIds
  <2>4. QED
    BY <2>1, <2>3 DEF IInv, TypeOK
<1>2. QED
  BY <1>1, Inductive, PTL

(* A caught signal stops publication, whenever it is caught.                 *)
THEOREM InterruptStops == Spec => []InterruptStopsPublication
<1>1. IInv => InterruptStopsPublication
  BY DEF IInv
<1>2. QED
  BY <1>1, Inductive, PTL

(* A run that reports success has published everything and cleaned up.       *)
THEOREM SuccessComplete == Spec => []SuccessIsComplete
<1>1. IInv => SuccessIsComplete
  BY DEF IInv
<1>2. QED
  BY <1>1, Inductive, PTL

(* The first failing tool's status is the one reported.                      *)
THEOREM FirstFailureKept == Spec => []FirstFailureReported
<1>1. IInv => FirstFailureReported
  BY DEF IInv
<1>2. QED
  BY <1>1, Inductive, PTL

(* Nothing the run owns survives it unless removing it failed.               *)
THEOREM RunLeavesNothing == Spec => []NothingLeftBehind
<1>1. IInv => NothingLeftBehind
  BY DEF IInv
<1>2. QED
  BY <1>1, Inductive, PTL

(* The workspace outlives every child, and the driver leaves none behind.    *)
THEOREM WorkspaceOutlivesTools == Spec => []ToolNeverOutlivesWorkspace
<1>1. IInv => ToolNeverOutlivesWorkspace
  BY DEF IInv, ControlInv, ToolNeverOutlivesWorkspace
<1>2. QED
  BY <1>1, Inductive, PTL

(* Every step of the executor is a step of AccPublication or changes neither *)
(* its phase nor a destination.                                              *)
LEMMA PublicationStep ==
  IInv /\ IInv' /\ [Next]_vars => [Publication!PublicationNext]_(Publication!pubvars)
<1> SUFFICES ASSUME IInv, IInv', [Next]_vars
             PROVE  [Publication!PublicationNext]_(Publication!pubvars)
  OBVIOUS
<1> USE PlanShape DEF Publication!pubvars, Phase, Ended
<1>1. CASE Rename /\ dest' # dest
  <2>1. /\ Phase = "publishing" /\ Phase' = Phase
        /\ out \in OutputIds /\ staged \in CommandIds
        /\ dest' = [dest EXCEPT ![out] = staged]
    BY <1>1 DEF Rename, IInv, TypeOK, ControlInv, BuiltInv, ContentInv, NonEmpty, Staging,
                OutputIds, process
  <2>2. \A p \in OutputIds : Untouched(p) <=> p >= out
    <3>1. pc = "rename" /\ out \in OutputIds /\ status = 0
      BY <1>1, <2>1 DEF Rename, IInv, StatusInv, Staging
    <3>2. QED
      BY <3>1 DEF IInv, OrderInv, Staging, OutputIds
  <2>3. Publication!Replace(out)
    BY <2>1, <2>2 DEF Publication!Replace, Publication!Untouched, Untouched, OutputIds,
       CommandIds, Publication!Absent, Publication!Previous, Absent, Previous
  <2>4. QED
    BY <2>1, <2>3 DEF Publication!PublicationNext, OutputIds
<1>2. CASE Return /\ status' = 0
  <2>1. /\ Phase = "publishing" /\ Phase' = "succeeded" /\ dest' = dest
    <3>1. interrupted \in {0, 1, 2, 15} /\ pc = "restore" /\ pc' = "exit" /\ dest' = dest
      BY <1>2 DEF Return, IInv, TypeOK, files
    <3>2. interrupted = 0 /\ status = 0
      BY <1>2, <3>1 DEF Return
    <3>3. cmd > Len(Commands)
      BY <3>1, <3>2 DEF IInv, BuiltInv
    <3>4. QED
      BY <1>2, <3>1, <3>3
  <2>2. \A o \in OutputIds : ~Untouched(o)
    BY <1>2, <2>1 DEF Return, IInv, SuccessIsComplete, Untouched, OutputIds
  <2>3. Publication!Succeed
    BY <2>1, <2>2 DEF Publication!Succeed, Publication!Untouched, Untouched, OutputIds,
       Publication!Absent, Publication!Previous, Absent, Previous
  <2>4. QED
    BY <2>3 DEF Publication!PublicationNext
<1>3. CASE VerifyProduct
  <2>1. cmd \in CommandIds /\ pc = "verify"
    BY <1>3 DEF VerifyProduct, IInv, TypeOK, ControlInv, Launching, CommandIds
  <2>2. pc' \in {"command", "publish"} /\ cmd' \in {cmd, cmd + 1} /\ dest' = dest
    BY <1>3 DEF VerifyProduct, files
  <2>3. /\ Phase = "building" /\ Phase' \in {"building", "publishing"} /\ dest' = dest
    BY <2>1, <2>2 DEF CommandIds
  <2>4. QED
    BY <2>3 DEF Publication!PublicationNext, Publication!Built
<1>4. CASE ~(Rename /\ dest' # dest) /\ ~(Return /\ status' = 0) /\ ~VerifyProduct
  <2> DEFINE Quiet == \/ UNCHANGED <<Phase, dest>>
                      \/ /\ Phase \in {"building", "publishing"} /\ Phase' = "failed"
                         /\ dest' = dest
  <2>1. Quiet
    <3> USE DEF process, files
    <3>1. CASE Resolve \/ InstallHandler \/ MakeWorkspace
      BY <3>1 DEF Resolve, InstallHandler, MakeWorkspace
    <3>2. CASE LeaveCommands \/ StartCommand \/ Fork \/ Forward \/ Block \/ Reap \/ LaunchResult
      BY <3>2 DEF LeaveCommands, StartCommand, Fork, Forward, Block, Reap, LaunchResult
    <3>3. CASE StartPublish \/ MissingProduct \/ LeavePublish \/ Stage \/ Copy \/ Sync \/ CheckInterrupt \/ FinishPublish \/ Unstage
      BY <3>3 DEF StartPublish, MissingProduct, LeavePublish, Stage, Copy, Sync, CheckInterrupt, FinishPublish, Unstage
    <3>4. CASE Cleanup \/ RestoreHandler
      BY <3>4 DEF Cleanup, RestoreHandler
    <3>5. CASE Exec \/ ExecFails \/ ToolExits \/ ToolKilled
      BY <3>5 DEF Exec, ExecFails, ToolExits, ToolKilled, control
    <3>6. CASE Crash
      BY <3>6 DEF Crash
    <3>7. CASE Rename
      BY <1>4, <3>7 DEF Rename
    <3>8. CASE Return
      BY <1>4, <3>8 DEF Return
    <3>9. ASSUME NEW i \in DOMAIN Signals, NEW group \in BOOLEAN, Signal(i, group)
         PROVE  Quiet
      BY <3>9 DEF Signal
    <3>10. CASE UNCHANGED vars
      BY <3>10 DEF vars, control
    <3>11. QED
      BY <1>4, <3>1, <3>2, <3>3, <3>4, <3>5, <3>6, <3>7, <3>8, <3>9, <3>10 DEF Next, Driver, Child, World
  <2>2. QED
    BY <2>1 DEF Publication!PublicationNext, Publication!Fail
<1>5. QED
  BY <1>1, <1>2, <1>3, <1>4

(* The executor implements the publication contract.                         *)
THEOREM ExecutorImplementsPublication == Spec => ImplementsPublication
<1>1. Init => Publication!PublicationInit
  BY PlanShape DEF Init, Publication!PublicationInit, Phase, Ended, OutputIds,
     Publication!Absent, Publication!Previous, Absent, Previous
<1>2. QED
  BY <1>1, Inductive, PublicationStep, PTL
  DEF Spec, ImplementsPublication, Publication!PublicationSpec
=============================================================================
