-------------------------- MODULE Lifecycle_proofs --------------------------
(***************************************************************************)
(* For every number of commands, sandboxes, presets and failures: the      *)
(* types, and the exclusion that the named Job Object gives.               *)
(***************************************************************************)
EXTENDS Lifecycle, TLAPS

\* A mutation that is accepted turns a registry into a registry.
LEMMA ChangeTyped ==
  ASSUME reg \in Registries, NEW o \in Ops, Change(o)
  PROVE  reg' \in Registries
<1>1. o.project \in Project
  BY DEF Ops, AddOp, UpdateOp, RemoveOp
<1>2. Outcome(o, reg) \in Records \cup {NoRecord}
  <2>1. CASE o \in AddOp
    BY <2>1 DEF AddOp, Outcome, Records, States
  <2>2. CASE o \in UpdateOp
    <3>1. o.project \in Known(reg)
      BY <2>2 DEF UpdateOp, Change, Accepts
    <3>2. reg[o.project] \in Records
      BY <3>1 DEF Known, Registries
    <3> QED
      BY <2>2, <3>2 DEF UpdateOp, Outcome, Records, States
  <2>3. CASE o \in RemoveOp
    BY <2>3 DEF RemoveOp, Outcome
  <2> QED
    BY <2>1, <2>2, <2>3 DEF Ops
<1>3. Change(o) => reg' = [reg EXCEPT ![o.project] = Outcome(o, reg)]
  BY DEF Change, Apply
<1> QED
  BY <1>1, <1>2, <1>3 DEF Registries

\* What a command passes to the store is one of the store's operations.
LEMMA OpsTyped ==
  ASSUME NEW c \in Cli, dir[c] \in Project, at[c] \in Name
  PROVE  /\ AddOf(c) \in Ops /\ RemoveOf(c) \in Ops
         /\ UpdateOf(c, "running") \in Ops /\ UpdateOf(c, "stopped") \in Ops
  BY DEF AddOf, RemoveOf, UpdateOf, Ops, AddOp, UpdateOp, RemoveOp, States

\* TypeOK is not inductive by itself: register_sandbox enters net[c] in the
\* policy table, so a command must only get there with a real preset; and a
\* command that is about to launch its runner has none yet.
RegistersPreset == \A c \in Cli : pc[c] = "register" => net[c] # "none"
LaunchesOnce == \A c \in Cli : pc[c] = "launch" => runner[c] = "gone"
WorksSomewhere == \A c \in Cli : pc[c] # "idle" <=> dir[c] \in Project

TypeInv == TypeOK /\ RegistersPreset /\ LaunchesOnce /\ WorksSomewhere

\* The types of what the commands and their runners are at.
CliTypes ==
    /\ runner \in [Cli -> RunnerStates]
    /\ pc \in [Cli -> PCs]
    /\ cmd \in [Cli -> Commands]
    /\ at \in [Cli -> Name]
    /\ dir \in [Cli -> Project \cup {NoProject}]
    /\ net \in [Cli -> Preset \cup {"none"}]
    /\ RegistersPreset /\ LaunchesOnce /\ WorksSomewhere

\* The types of everything they share.
SharedTypes ==
    /\ reg \in Registries
    /\ mounted \in [Name -> BOOLEAN]
    /\ policy \in [Name -> Preset \cup {"absent"}]
    /\ lapsed \in [Name -> SUBSET Books]
    /\ job \in [Name -> Cli \cup {NoCli, Orphan}]
    /\ peeked \in [Name -> BOOLEAN]
    /\ faults \in 0..MaxFaults
    /\ kills \in 0..MaxKills

\* TypeInv is the two together.
LEMMA TypeParts == TypeInv <=> CliTypes /\ SharedTypes
  BY DEF TypeInv, TypeOK, CliTypes, SharedTypes

\* No command runs at first.
LEMMA InitTypeInv == Init => TypeInv
<1> SUFFICES ASSUME Init PROVE TypeInv
  OBVIOUS
<1>1. CliTypes
  BY NoProjectIsNoProject
     DEF Init, CliTypes, RegistersPreset, LaunchesOnce, WorksSomewhere, Commands, PCs,
         RunnerStates
<1>2. SharedTypes
  BY MaxFaultsIsNat, MaxKillsIsNat DEF Init, SharedTypes, Registries, Empty
<1> QED
  BY <1>1, <1>2, TypeParts

\* A command goes on to another step, having resolved its sandbox.
LEMMA GotoTyped ==
  ASSUME CliTypes, NEW c \in Cli, pc[c] # "idle", NEW l \in PCs \ {"idle", "launch"},
         Goto(c, l), l = "register" => net[c] # "none",
         NEW r \in RunnerStates, runner' = [runner EXCEPT ![c] = r]
  PROVE  CliTypes'
  BY DEF CliTypes, Goto, RegistersPreset, LaunchesOnce, WorksSomewhere

\* A command returns.
LEMMA ReturnTyped ==
  ASSUME CliTypes, NEW c \in Cli, Return(c), runner' = runner
  PROVE  CliTypes'
  BY NoProjectIsNoProject
     DEF CliTypes, Return, RegistersPreset, LaunchesOnce, WorksSomewhere, Commands, PCs

\* A runner moves on.
LEMMA RunnerTyped ==
  ASSUME CliTypes, NEW c \in Cli, NEW r \in RunnerStates, RunnerBecomes(c, r),
         runner[c] # "gone"
  PROVE  CliTypes'
  BY DEF CliTypes, RunnerBecomes, cliVars, RegistersPreset, LaunchesOnce, WorksSomewhere

\* A history entry has its type.
LEMMA NoteTyped ==
  ASSUME SharedTypes, NEW n \in Name, NEW books,
         (Lapse(n, books) /\ books \in SUBSET Books) \/ InOrder(n, books)
  PROVE  lapsed' \in [Name -> SUBSET Books]
  BY DEF SharedTypes, Lapse, InOrder, Note

\* Counting a fault or a loss.
LEMMA CountTyped ==
  ASSUME SharedTypes, Fault \/ Loss
  PROVE  faults' \in 0..MaxFaults /\ kills' \in 0..MaxKills
  BY MaxFaultsIsNat, MaxKillsIsNat DEF SharedTypes, Fault, Loss

\* The books that lapse are books.
LEMMA UnfinishedTyped == \A l \in PCs : Unfinished(l) \in SUBSET Books
  BY DEF Unfinished

\* Each command begins with a resolved sandbox.
LEMMA BeginTyped ==
  ASSUME TypeInv, NEW c \in Cli, NEW n \in Name, NEW p \in Project, CommandBegins(c, n, p)
  PROVE  TypeInv'
<1> USE DEF TypeInv, TypeOK, RegistersPreset, LaunchesOnce, WorksSomewhere, Begin, MayBegin,
            PCs, CreatePCs, StartPCs, DestroyPCs, StopPCs, Commands, bookVars, runVars, bounds
<1>1. CASE BeginCreate(c, n, p)
  BY <1>1 DEF BeginCreate
<1>2. ASSUME NEW preset \in Preset \cup {"none"}, BeginStart(c, n, p, preset) PROVE TypeInv'
  BY <1>2 DEF BeginStart
<1>3. CASE BeginStop(c, n, p)
  BY <1>3 DEF BeginStop
<1>4. CASE BeginDestroy(c, n, p)
  BY <1>4 DEF BeginDestroy
<1> QED
  BY <1>1, <1>2, <1>3, <1>4 DEF CommandBegins

\* Each step of a command or runner keeps what is said of it in its type.
LEMMA CliTyped ==
  ASSUME TypeInv, NEW c \in Cli,
         CliStep(c) \/ RunnerStep(c) \/ Interference(c) \/ ShellExits(c) \/ ShellBlocks(c)
  PROVE  CliTypes'
<1>0. CliTypes
  BY TypeParts
<1>00. runner = [runner EXCEPT ![c] = runner[c]] /\ runner[c] \in RunnerStates
  BY <1>0 DEF CliTypes
<1> USE DEF PCs, CreatePCs, StartPCs, DestroyPCs, StopPCs, RunnerStates
<1>1. CASE Mount(c)
  BY <1>0, <1>00, <1>1, GotoTyped DEF Mount, runVars
<1>2. CASE Launch(c)
  BY <1>0, <1>2, GotoTyped DEF Launch
<1>3. CASE Register(c)
  BY <1>0, <1>00, <1>3, GotoTyped DEF Register, runVars
<1>4. CASE MarkRunning(c)
  BY <1>0, <1>00, <1>4, GotoTyped DEF MarkRunning, runVars
<1>5. CASE SessionOver(c)
  BY <1>0, <1>00, <1>5, GotoTyped DEF SessionOver, runVars
<1>6. CASE SessionAborts(c)
  BY <1>0, <1>00, <1>6, GotoTyped DEF SessionAborts, runVars
<1>7. CASE EndDeregister(c)
  BY <1>0, <1>00, <1>7, GotoTyped DEF EndDeregister, runVars
<1>8. CASE EndDeregisterFails(c)
  BY <1>0, <1>00, <1>8, GotoTyped DEF EndDeregisterFails, runVars
<1>9. CASE StopDeregister(c)
  BY <1>0, <1>00, <1>9, GotoTyped DEF StopDeregister, runVars
<1>10. CASE StopDeregisterFails(c)
  BY <1>0, <1>00, <1>10, GotoTyped DEF StopDeregisterFails, runVars
<1>11. CASE StopOpen(c)
  BY <1>0, <1>00, <1>11, GotoTyped DEF StopOpen, runVars
<1>12. CASE StopFindsNoJob(c)
  BY <1>0, <1>00, <1>12, GotoTyped DEF StopFindsNoJob, runVars
<1>13. CASE StopClose(c)
  BY <1>0, <1>00, <1>13, GotoTyped DEF StopClose, runVars
<1>14. CASE StopResolves(c)
  BY <1>0, <1>00, <1>14, GotoTyped DEF StopResolves, runVars
<1>15. CASE Unmount(c)
  BY <1>0, <1>00, <1>15, GotoTyped DEF Unmount, runVars
<1>16. CASE MountFails(c)
  BY <1>0, <1>16, ReturnTyped DEF MountFails, runVars
<1>17. CASE Add(c)
  BY <1>0, <1>17, ReturnTyped DEF Add, runVars
<1>18. CASE AddFails(c)
  BY <1>0, <1>18, ReturnTyped DEF AddFails, runVars
<1>19. CASE LaunchFails(c)
  BY <1>0, <1>19, ReturnTyped DEF LaunchFails, runVars
<1>20. CASE ConnectTimesOut(c)
  BY <1>0, <1>20, ReturnTyped DEF ConnectTimesOut, runVars
<1>21. CASE RegisterFails(c)
  BY <1>0, <1>21, ReturnTyped DEF RegisterFails, runVars
<1>22. CASE MarkRunningFails(c)
  BY <1>0, <1>22, ReturnTyped DEF MarkRunningFails, runVars
<1>23. CASE EndSkips(c)
  BY <1>0, <1>23, ReturnTyped DEF EndSkips, runVars
<1>24. CASE EndMark(c)
  BY <1>0, <1>24, ReturnTyped DEF EndMark, runVars
<1>25. CASE EndMarkFails(c)
  BY <1>0, <1>25, ReturnTyped DEF EndMarkFails, runVars
<1>26. CASE MarkStoppedFails(c)
  BY <1>0, <1>26, ReturnTyped DEF MarkStoppedFails, runVars
<1>27. CASE StopMissing(c)
  BY <1>0, <1>27, ReturnTyped DEF StopMissing, runVars
<1>28. CASE UnmountFails(c)
  BY <1>0, <1>28, ReturnTyped DEF UnmountFails, runVars
<1>29. CASE Remove(c)
  BY <1>0, <1>29, ReturnTyped DEF Remove, runVars
<1>30. CASE RemoveFails(c)
  BY <1>0, <1>30, ReturnTyped DEF RemoveFails, runVars
<1>31. CASE Kill(c)
  BY <1>0, <1>31, ReturnTyped DEF Kill, runVars
<1>32. CASE RunnerTooLate(c)
  BY <1>0, <1>32, RunnerTyped DEF RunnerTooLate
<1>33. CASE CreateJob(c)
  BY <1>0, <1>33, RunnerTyped DEF CreateJob
<1>34. CASE JobDenied(c)
  BY <1>0, <1>34, RunnerTyped DEF JobDenied
<1>35. CASE RunnerFails(c)
  BY <1>0, <1>35, RunnerTyped DEF RunnerFails
<1>36. CASE LaunchShell(c)
  BY <1>0, <1>36, RunnerTyped DEF LaunchShell
<1>37. CASE ShellExits(c)
  BY <1>0, <1>37, RunnerTyped DEF ShellExits
<1>38. CASE ShellBlocks(c)
  BY <1>0, <1>38, RunnerTyped DEF ShellBlocks
<1>39. CASE HangUp(c)
  BY <1>0, <1>39, RunnerTyped DEF HangUp
<1>40. CASE RunnerExits(c)
  BY <1>0, <1>40, RunnerTyped DEF RunnerExits
<1>41. CASE Connect(c)
  BY <1>0, <1>41, GotoTyped DEF Connect
<1>42. CASE EndResolves(c)
  BY <1>0, <1>42, NoProjectIsNoProject
     DEF EndResolves, CliTypes, RegistersPreset, LaunchesOnce, WorksSomewhere, runVars
<1>43. CASE StopTerminate(c)
  BY <1>0, <1>43 DEF StopTerminate, Goto, CliTypes, RegistersPreset, LaunchesOnce, WorksSomewhere
<1>44. CASE StopTerminateFails(c)
  BY <1>0, <1>00, <1>44, GotoTyped DEF StopTerminateFails, runVars
<1>45. CASE MarkStopped(c)
  BY <1>0, <1>00, <1>45, GotoTyped, ReturnTyped DEF MarkStopped, runVars
<1> QED
  BY <1>1, <1>2, <1>3, <1>4, <1>5, <1>6, <1>7, <1>8, <1>9, <1>10, <1>11,
     <1>12, <1>13, <1>14, <1>15, <1>16, <1>17, <1>18, <1>19, <1>20,
     <1>21, <1>22, <1>23, <1>24, <1>25, <1>26, <1>27, <1>28, <1>29,
     <1>30, <1>31, <1>32, <1>33, <1>34, <1>35, <1>36, <1>37, <1>38,
     <1>39, <1>40, <1>41, <1>42, <1>43, <1>44, <1>45
     DEF CliStep, CreateStep, StartStep, StopStep, DestroyStep, RunnerStep, Interference

\* ... and what is shared in its.
LEMMA SharedTyped ==
  ASSUME TypeInv, NEW c \in Cli,
         CliStep(c) \/ RunnerStep(c) \/ Interference(c) \/ ShellExits(c) \/ ShellBlocks(c)
  PROVE  SharedTypes'
<1>0. SharedTypes /\ CliTypes
  BY TypeParts
<1>00. at[c] \in Name /\ pc[c] \in PCs
  BY <1>0 DEF CliTypes
<1>01. pc[c] # "idle" => dir[c] \in Project
  BY <1>0 DEF CliTypes, WorksSomewhere
<1> USE DEF Books, bookVars, runVars, bounds
<1>1. CASE Launch(c) \/ SessionOver(c) \/ StopOpen(c) \/ StopFindsNoJob(c) \/ StopResolves(c)
         \/ StopMissing(c) \/ StopTerminate(c) \/ Connect(c) \/ EndResolves(c)
  BY <1>0, <1>1
     DEF SharedTypes, Launch, SessionOver, StopOpen, StopFindsNoJob, StopResolves,
         StopMissing, StopTerminate, Connect, EndResolves
<1>2. CASE LaunchFails(c) \/ ConnectTimesOut(c) \/ SessionAborts(c)
  BY <1>0, <1>2, CountTyped DEF SharedTypes, LaunchFails, ConnectTimesOut, SessionAborts
<1>3. CASE Mount(c) \/ Unmount(c)
  BY <1>0, <1>00, <1>3 DEF SharedTypes, Mount, Unmount
<1>4. CASE MountFails(c)
  <2>1. lapsed' \in [Name -> SUBSET Books]
    BY <1>0, <1>00, <1>4, NoteTyped DEF MountFails
  <2>2. faults' \in 0..MaxFaults /\ kills' \in 0..MaxKills
    BY <1>0, <1>4, CountTyped DEF MountFails
  <2>3. mounted' \in [Name -> BOOLEAN]
    <3>1. mounted[at[c]] \in BOOLEAN
      BY <1>0, <1>00 DEF SharedTypes
    <3>2. PICK left \in BOOLEAN : mounted' = [mounted EXCEPT ![at[c]] = left]
      BY <3>1, <1>4 DEF MountFails
    <3> QED
      BY <1>0, <3>2 DEF SharedTypes
  <2> QED
    BY <1>0, <1>4, <2>1, <2>2, <2>3 DEF SharedTypes, MountFails
<1>5. CASE UnmountFails(c)
  <2>1. lapsed' \in [Name -> SUBSET Books]
    BY <1>0, <1>00, <1>5, NoteTyped DEF UnmountFails
  <2>2. faults' \in 0..MaxFaults /\ kills' \in 0..MaxKills
    BY <1>0, <1>5, CountTyped DEF UnmountFails
  <2>3. mounted' \in [Name -> BOOLEAN]
    <3>1. mounted[at[c]] \in BOOLEAN
      BY <1>0, <1>00 DEF SharedTypes
    <3>2. PICK left \in BOOLEAN : mounted' = [mounted EXCEPT ![at[c]] = left]
      BY <3>1, <1>5 DEF UnmountFails
    <3> QED
      BY <1>0, <3>2 DEF SharedTypes
  <2> QED
    BY <1>0, <1>5, <2>1, <2>2, <2>3 DEF SharedTypes, UnmountFails
<1>6. CASE AddFails(c) \/ MarkRunningFails(c) \/ EndSkips(c) \/ EndMarkFails(c)
         \/ MarkStoppedFails(c) \/ RemoveFails(c)
  BY <1>0, <1>00, <1>6, NoteTyped
     DEF SharedTypes, AddFails, MarkRunningFails, EndSkips, EndMarkFails,
         MarkStoppedFails, RemoveFails
<1>7. CASE Add(c)
  <2>1. AddOf(c) \in Ops
    BY <1>00, <1>01, <1>7, OpsTyped DEF Add
  <2>2. reg' \in Registries
    BY <1>0, <1>7, <2>1, ChangeTyped DEF SharedTypes, Add
  <2>3. lapsed' \in [Name -> SUBSET Books]
    BY <1>0, <1>00, <1>7, NoteTyped DEF Add
  <2> QED
    BY <1>0, <1>7, <2>2, <2>3 DEF SharedTypes, Add
<1>8. CASE MarkRunning(c)
  <2>1. UpdateOf(c, "running") \in Ops
    BY <1>00, <1>01, <1>8, OpsTyped DEF MarkRunning
  <2>2. reg' \in Registries
    BY <1>0, <1>8, <2>1, ChangeTyped DEF SharedTypes, MarkRunning
  <2>3. lapsed' \in [Name -> SUBSET Books]
    BY <1>0, <1>00, <1>8, NoteTyped DEF MarkRunning
  <2> QED
    BY <1>0, <1>8, <2>2, <2>3 DEF SharedTypes, MarkRunning
<1>9. CASE EndMark(c)
  <2>1. UpdateOf(c, "stopped") \in Ops
    BY <1>00, <1>01, <1>9, OpsTyped DEF EndMark
  <2>2. reg' \in Registries
    BY <1>0, <1>9, <2>1, ChangeTyped DEF SharedTypes, EndMark
  <2>3. lapsed' \in [Name -> SUBSET Books]
    BY <1>0, <1>00, <1>9, NoteTyped DEF EndMark
  <2> QED
    BY <1>0, <1>9, <2>2, <2>3 DEF SharedTypes, EndMark
<1>10. CASE MarkStopped(c)
  <2>1. UpdateOf(c, "stopped") \in Ops
    BY <1>00, <1>01, <1>10, OpsTyped DEF MarkStopped
  <2>2. reg' \in Registries
    BY <1>0, <1>10, <2>1, ChangeTyped DEF SharedTypes, MarkStopped
  <2>3. lapsed' \in [Name -> SUBSET Books]
    BY <1>0, <1>00, <1>10, NoteTyped DEF MarkStopped
  <2> QED
    BY <1>0, <1>10, <2>2, <2>3 DEF SharedTypes, MarkStopped
<1>11. CASE Remove(c)
  <2>1. RemoveOf(c) \in Ops
    BY <1>00, <1>01, <1>11, OpsTyped DEF Remove
  <2>2. reg' \in Registries
    BY <1>0, <1>11, <2>1, ChangeTyped DEF SharedTypes, Remove
  <2>3. lapsed' \in [Name -> SUBSET Books]
    BY <1>0, <1>00, <1>11, NoteTyped DEF Remove
  <2> QED
    BY <1>0, <1>11, <2>2, <2>3 DEF SharedTypes, Remove
<1>12. CASE Register(c)
  <2>1. net[c] \in Preset
    BY <1>0, <1>12 DEF CliTypes, RegistersPreset, Register
  <2>2. lapsed' \in [Name -> SUBSET Books]
    BY <1>0, <1>00, <1>12, NoteTyped DEF Register
  <2> QED
    BY <1>0, <1>12, <2>1, <2>2 DEF SharedTypes, Register
<1>13. CASE RegisterFails(c)
  <2>1. net[c] \in Preset
    BY <1>0, <1>13 DEF CliTypes, RegistersPreset, RegisterFails
  <2>2. lapsed' \in [Name -> SUBSET Books]
    BY <1>0, <1>00, <1>13, NoteTyped DEF RegisterFails
  <2>3. faults' \in 0..MaxFaults /\ kills' \in 0..MaxKills
    BY <1>0, <1>13, CountTyped DEF RegisterFails
  <2>4. policy' \in [Name -> Preset \cup {"absent"}]
    BY <1>0, <1>13, <1>00, <2>1 DEF SharedTypes, RegisterFails
  <2> QED
    BY <1>0, <1>13, <2>2, <2>3, <2>4 DEF SharedTypes, RegisterFails
<1>14. CASE EndDeregister(c)
  BY <1>0, <1>00, <1>14, NoteTyped DEF SharedTypes, EndDeregister
<1>15. CASE StopDeregister(c)
  BY <1>0, <1>00, <1>15, NoteTyped DEF SharedTypes, StopDeregister
<1>16. CASE EndDeregisterFails(c)
  BY <1>0, <1>00, <1>16, NoteTyped, CountTyped DEF SharedTypes, EndDeregisterFails
<1>17. CASE StopDeregisterFails(c)
  BY <1>0, <1>00, <1>17, NoteTyped, CountTyped DEF SharedTypes, StopDeregisterFails
<1>18. CASE StopTerminateFails(c)
  BY <1>0, <1>00, <1>18, NoteTyped, CountTyped DEF SharedTypes, StopTerminateFails
<1>19. CASE StopClose(c)
  BY <1>0, <1>00, <1>19 DEF SharedTypes, StopClose, FreeOrphan
<1>20. CASE Kill(c)
  <2>1. lapsed' \in [Name -> SUBSET Books]
    BY <1>0, <1>00, <1>20, NoteTyped, UnfinishedTyped DEF Kill
  <2>2. job' \in [Name -> Cli \cup {NoCli, Orphan}]
    BY <1>0, <1>00, <1>20 DEF SharedTypes, Kill, FreeOrphan
  <2>3. faults' \in 0..MaxFaults /\ kills' \in 0..MaxKills
    BY <1>0, <1>20, CountTyped DEF Kill
  <2> QED
    BY <1>0, <1>20, <2>1, <2>2, <2>3 DEF SharedTypes, Kill
<1>21. CASE RunnerTooLate(c) \/ CreateJob(c) \/ JobDenied(c) \/ LaunchShell(c)
         \/ ShellExits(c) \/ ShellBlocks(c) \/ HangUp(c)
  BY <1>0, <1>00, <1>21 DEF SharedTypes, RunnerBecomes, RunnerTooLate, CreateJob, JobDenied, LaunchShell, ShellExits,
         ShellBlocks, HangUp
<1>22. CASE RunnerExits(c)
  BY <1>0, <1>00, <1>22 DEF SharedTypes, RunnerBecomes, RunnerExits, CloseJob
<1>23. CASE RunnerFails(c)
  <2>1. faults' \in 0..MaxFaults /\ kills' \in 0..MaxKills
    BY <1>0, <1>23, CountTyped DEF RunnerFails
  <2> QED
    BY <1>0, <1>00, <1>23, <2>1 DEF SharedTypes, RunnerBecomes, RunnerFails, CloseJob
<1> QED
  BY <1>1, <1>2, <1>3, <1>4, <1>5, <1>6, <1>7, <1>8, <1>9, <1>10, <1>11,
     <1>12, <1>13, <1>14, <1>15, <1>16, <1>17, <1>18, <1>19, <1>20,
     <1>21, <1>22, <1>23
     DEF CliStep, CreateStep, StartStep, StopStep, DestroyStep, RunnerStep, Interference

\* Each step of each process keeps the types.
LEMMA NextTypeInv == TypeInv /\ [Next]_vars => TypeInv'
<1> SUFFICES ASSUME TypeInv, [Next]_vars PROVE TypeInv'
  OBVIOUS
<1>1. ASSUME NEW c \in Cli, NEW n \in Name, NEW p \in Project, CommandBegins(c, n, p)
      PROVE  TypeInv'
  BY <1>1, BeginTyped
<1>2. ASSUME NEW c \in Cli,
             CliStep(c) \/ RunnerStep(c) \/ Interference(c) \/ ShellExits(c) \/ ShellBlocks(c)
      PROVE  TypeInv'
  BY <1>2, CliTyped, SharedTyped DEF TypeInv, TypeOK, CliTypes, SharedTypes
<1>3. ASSUME NEW n \in Name, Peek(n) \/ Unpeek(n) PROVE TypeInv'
  BY <1>3 DEF TypeInv, TypeOK, RegistersPreset, LaunchesOnce, WorksSomewhere, Peek, Unpeek,
              FreeOrphan, bookVars, cliVars, bounds
<1>4. CASE ProxyCrash
  BY <1>4, MaxKillsIsNat
     DEF TypeInv, TypeOK, RegistersPreset, LaunchesOnce, WorksSomewhere, ProxyCrash, Loss,
         runVars, cliVars, Books
<1>5. CASE UNCHANGED vars
  BY <1>5 DEF TypeInv, TypeOK, RegistersPreset, LaunchesOnce, WorksSomewhere, vars,
              bookVars, runVars, cliVars, bounds
<1> QED
  BY <1>1, <1>2, <1>3, <1>4, <1>5 DEF Next

\* The variables of every command, runner and sandbox keep their types.
THEOREM TypeCorrect == Spec => []TypeOK
<1>1. TypeInv => TypeOK
  BY DEF TypeInv
<1> QED
  BY InitTypeInv, NextTypeInv, <1>1, PTL DEF Spec

-----------------------------------------------------------------------------
(***************************************************************************)
(* Every runner that holds a Job Object holds the one its sandbox's name   *)
(* stands for, and nobody else is entered there.  OneShell follows because *)
(* job is a function; JobNotLeaked needs the converse.                     *)
(***************************************************************************)
Owns == \A c \in Cli : runner[c] \in HoldsJob => job[at[c]] = c
Owned == \A n \in Name : job[n] \in Cli => at[job[n]] = n /\ runner[job[n]] \in HoldsJob
OrphanHeld == \A n \in Name : job[n] = Orphan => Held(n)

JobInv == TypeInv /\ Owns /\ Owned /\ OrphanHeld

\* No Job Object exists at first.
LEMMA InitJobInv == Init => JobInv
  BY InitTypeInv, NoCliIsNoCli DEF Init, JobInv, Owns, Owned, OrphanHeld, HoldsJob

-----------------------------------------------------------------------------
(* Who owns which Job Object *)

\* Steps of the commands other than the first leave the runners alone, and so
\* does everything the environment does to the store, the configs, the proxy;
\* a handle that is closed frees an orphan at most.
LEMMA QuietStep ==
  ASSUME JobInv, UNCHANGED <<runner, at>>,
         job' = job \/ \E n \in Name : job[n] = Orphan /\ job' = [job EXCEPT ![n] = NoCli]
  PROVE  Owns' /\ Owned'
  BY NoCliIsNoCli DEF JobInv, TypeInv, TypeOK, Owns, Owned

\* A command begins only without a runner of its own, so no Job Object is
\* its runner's when it turns to another sandbox.
LEMMA BeginStep ==
  ASSUME JobInv, NEW c \in Cli, NEW n \in Name, runner[c] = "gone",
         at' = [at EXCEPT ![c] = n], UNCHANGED <<runner, job>>
  PROVE  Owns' /\ Owned'
<1>1. \A d \in Cli \ {c} : at'[d] = at[d]
  BY DEF JobInv, TypeInv, TypeOK
<1>2. \A m \in Name : job[m] # c
  BY DEF JobInv, Owned, HoldsJob
<1>3. Owns'
  BY <1>1 DEF JobInv, TypeInv, TypeOK, Owns, HoldsJob
<1>4. Owned'
  BY <1>1, <1>2 DEF JobInv, TypeInv, TypeOK, Owned
<1> QED
  BY <1>3, <1>4

\* A runner moves on without taking or leaving a Job Object.
LEMMA MoveStep ==
  ASSUME JobInv, NEW c \in Cli, NEW r \in RunnerStates,
         runner' = [runner EXCEPT ![c] = r],
         runner[c] \in HoldsJob <=> r \in HoldsJob,
         UNCHANGED <<job, at>>
  PROVE  Owns' /\ Owned'
<1>1. \A d \in Cli : runner[d] \in HoldsJob <=> runner'[d] \in HoldsJob
  BY DEF JobInv, TypeInv, TypeOK
<1> QED
  BY <1>1 DEF JobInv, Owns, Owned

\* A runner that ends gives its Job Object back, if it has one.
LEMMA CloseStep ==
  ASSUME JobInv, NEW c \in Cli, CloseJob(c),
         runner' = [runner EXCEPT ![c] = "gone"], UNCHANGED at
  PROVE  Owns' /\ Owned'
<1> USE DEF JobInv, TypeInv, TypeOK
<1>1. \A n \in Name : job'[n] # c
  BY NoCliIsNoCli DEF Owned, CloseJob
<1>2. \A n \in Name : job[n] # c => job'[n] = job[n]
  BY DEF CloseJob
<1>3. \A n \in Name : job'[n] \in Cli => job'[n] = job[n]
  BY NoCliIsNoCli DEF CloseJob
<1>4. \A d \in Cli \ {c} : runner'[d] = runner[d]
  OBVIOUS
<1>5. runner'[c] \notin HoldsJob
  BY DEF HoldsJob
<1>6. Owns'
  BY <1>2, <1>4, <1>5 DEF Owns
<1>7. Owned'
  BY <1>1, <1>3, <1>4 DEF Owned
<1> QED
  BY <1>6, <1>7

\* The runner that creates a Job Object is the only one entered for its name.
LEMMA CreateJobOwner ==
  ASSUME JobInv, NEW c \in Cli, CreateJob(c)
  PROVE  Owns' /\ Owned'
<1> USE DEF JobInv, TypeInv, TypeOK
<1>1. \A d \in Cli \ {c} : runner'[d] = runner[d] /\ at'[d] = at[d]
  BY DEF CreateJob, RunnerBecomes, cliVars
<1>2. \A d \in Cli \ {c} : runner[d] \in HoldsJob => at[d] # at[c]
  BY NoCliIsNoCli DEF CreateJob, Owns
<1>3. Owns'
  BY <1>1, <1>2 DEF CreateJob, RunnerBecomes, Owns, cliVars
<1>4. \A n \in Name \ {at[c]} : job'[n] = job[n] /\ job[n] # c
  BY DEF CreateJob, Owned, HoldsJob
<1>5. job'[at[c]] = c /\ runner'[c] \in HoldsJob /\ at' = at
  BY DEF CreateJob, RunnerBecomes, HoldsJob, cliVars
<1>6. Owned'
  BY <1>1, <1>4, <1>5 DEF Owned
<1> QED
  BY <1>3, <1>6

\* The exclusion is kept by every step.
LEMMA NextOwners == JobInv /\ [Next]_vars => Owns' /\ Owned'
<1> SUFFICES ASSUME JobInv, [Next]_vars PROVE Owns' /\ Owned'
  OBVIOUS
<1>1. ASSUME NEW c \in Cli, NEW n \in Name, NEW p \in Project, CommandBegins(c, n, p)
      PROVE  Owns' /\ Owned'
  BY <1>1, BeginStep
     DEF CommandBegins, BeginCreate, BeginStart, BeginStop, BeginDestroy, Begin, MayBegin,
         runVars
<1>2. ASSUME NEW c \in Cli, CreateStep(c) PROVE Owns' /\ Owned'
  BY <1>2, QuietStep DEF CreateStep, Mount, Add, AddFails, Goto, Return, runVars
<1>3. ASSUME NEW c \in Cli, StartStep(c) PROVE Owns' /\ Owned'
  <2>1. CASE Launch(c)
    <3>1. runner[c] = "gone"
      BY <2>1 DEF Launch, JobInv, TypeInv, LaunchesOnce
    <3> QED
      BY <2>1, <3>1, MoveStep DEF Launch, HoldsJob, Goto, RunnerStates
  <2>2. CASE ~Launch(c)
    BY <1>3, <2>2, QuietStep
       DEF StartStep, Register, MarkRunning, MarkRunningFails, SessionOver,
           EndResolves, EndSkips, EndDeregister, EndMark, EndMarkFails, Goto, Return, runVars
  <2> QED
    BY <2>1, <2>2
<1>4. ASSUME NEW c \in Cli, StopStep(c) PROVE Owns' /\ Owned'
  <2>1. CASE StopTerminate(c)
    <3>1. \A d \in Cli : runner[d] \in HoldsJob <=> runner'[d] \in HoldsJob
      BY <2>1 DEF StopTerminate, HoldsJob
    <3> QED
      BY <2>1, <3>1 DEF StopTerminate, Goto, JobInv, Owns, Owned
  <2>2. CASE StopClose(c)
    <3>1. at[c] \in Name
      BY DEF JobInv, TypeInv, TypeOK
    <3> QED
      BY <2>2, <3>1, QuietStep DEF StopClose, FreeOrphan, Goto
  <2>3. CASE ~StopTerminate(c) /\ ~StopClose(c)
    BY <1>4, <2>3, QuietStep
       DEF StopStep, StopResolves, StopMissing, StopDeregister, StopOpen, StopFindsNoJob,
           MarkStopped, MarkStoppedFails, Goto, Return, runVars
  <2> QED
    BY <2>1, <2>2, <2>3
<1>5. ASSUME NEW c \in Cli, DestroyStep(c) PROVE Owns' /\ Owned'
  BY <1>5, QuietStep DEF DestroyStep, Unmount, Remove, RemoveFails, Goto, Return, runVars
<1>6. ASSUME NEW c \in Cli,
             \/ RunnerTooLate(c) \/ JobDenied(c) \/ LaunchShell(c) \/ HangUp(c)
             \/ ShellExits(c) \/ ShellBlocks(c)
      PROVE  Owns' /\ Owned'
  BY <1>6, MoveStep
     DEF RunnerTooLate, JobDenied, LaunchShell, HangUp, ShellExits, ShellBlocks,
         RunnerBecomes, HoldsJob, RunnerStates, cliVars
<1>7. ASSUME NEW c \in Cli, RunnerStep(c) PROVE Owns' /\ Owned'
  <2>1. CASE Connect(c)
    BY <2>1, MoveStep DEF Connect, HoldsJob, Goto, RunnerStates
  <2>2. CASE RunnerExits(c)
    BY <2>2, CloseStep DEF RunnerExits, RunnerBecomes, cliVars
  <2> QED
    BY <1>6, <1>7, <2>1, <2>2, CreateJobOwner DEF RunnerStep
<1>8. ASSUME NEW c \in Cli, Interference(c) PROVE Owns' /\ Owned'
  <2>1. CASE RunnerFails(c)
    BY <2>1, CloseStep DEF RunnerFails, RunnerBecomes, cliVars
  <2>2. CASE Kill(c)
    <3>1. at[c] \in Name
      BY DEF JobInv, TypeInv, TypeOK
    <3> QED
      BY <2>2, <3>1, QuietStep DEF Kill, Return, FreeOrphan
  <2>3. CASE ~RunnerFails(c) /\ ~Kill(c)
    BY <1>8, <2>3, QuietStep
       DEF Interference, MountFails, LaunchFails, ConnectTimesOut, RegisterFails,
           EndDeregisterFails, StopDeregisterFails, StopTerminateFails, UnmountFails,
           SessionAborts, Goto, Return, runVars
  <2> QED
    BY <2>1, <2>2, <2>3
<1>9. ASSUME NEW n \in Name, Peek(n) \/ Unpeek(n) PROVE Owns' /\ Owned'
  BY <1>9, QuietStep DEF Peek, Unpeek, FreeOrphan, cliVars
<1>10. CASE ProxyCrash \/ UNCHANGED vars
  BY <1>10, QuietStep DEF ProxyCrash, cliVars, runVars, vars
<1> QED
  BY <1>1, <1>2, <1>3, <1>4, <1>5, <1>6, <1>7, <1>8, <1>9, <1>10 DEF Next, CliStep

-----------------------------------------------------------------------------
(* Who keeps a Job Object without a runner *)

\* As long as no handle is closed and no orphan made, orphans stay held.
LEMMA HoldersStay ==
  ASSUME JobInv, \A n \in Name : job'[n] = Orphan => job[n] = Orphan,
         peeked' = peeked,
         \A d \in Cli : pc[d] \in {"stop_terminate", "stop_close"} =>
            at'[d] = at[d] /\ pc'[d] \in {"stop_terminate", "stop_close"}
  PROVE  OrphanHeld'
  BY DEF JobInv, OrphanHeld, Held

\* A command that is not between opening and closing a Job Object moves on.
LEMMA OtherStep ==
  ASSUME JobInv, job' = job, peeked' = peeked, NEW c \in Cli,
         \E l \in PCs : pc' = [pc EXCEPT ![c] = l],
         \/ pc[c] \notin {"stop_terminate", "stop_close"}
         \/ pc'[c] \in {"stop_terminate", "stop_close"},
         at' = at
  PROVE  OrphanHeld'
  BY HoldersStay DEF JobInv, TypeInv, TypeOK

\* A runner gives its Job Object back: an orphan now is one that others have
\* open already.
LEMMA CloseOrphan ==
  ASSUME JobInv, NEW c \in Cli, CloseJob(c), UNCHANGED <<peeked, cliVars>>
  PROVE  OrphanHeld'
<1> SUFFICES ASSUME NEW n \in Name, job'[n] = Orphan PROVE Held(n)'
  BY DEF OrphanHeld
<1>1. Held(n)' <=> Held(n)
  BY DEF Held, cliVars
<1>2. CASE job[n] = Orphan
  BY <1>1, <1>2 DEF JobInv, OrphanHeld
<1>3. CASE job[n] # Orphan
  <2>1. n = at[c] /\ Held(at[c])
    BY <1>3, NoCliIsNoCli DEF JobInv, TypeInv, TypeOK, CloseJob
  <2> QED
    BY <1>1, <2>1
<1> QED
  BY <1>2, <1>3

\* A handle of another process is closed.
LEMMA FreeStep ==
  ASSUME JobInv, NEW n \in Name, FreeOrphan(n),
         \A m \in Name \ {n} : Held(m) => Held(m)'
  PROVE  OrphanHeld'
<1> SUFFICES ASSUME NEW m \in Name, job'[m] = Orphan PROVE Held(m)'
  BY DEF OrphanHeld
<1>1. CASE m = n
  <2>1. job' = IF job[n] = Orphan /\ ~Held(n)' THEN [job EXCEPT ![n] = NoCli] ELSE job
    BY DEF FreeOrphan
  <2>2. CASE job[n] = Orphan /\ ~Held(n)'
    BY <1>1, <2>1, <2>2, NoCliIsNoCli DEF JobInv, TypeInv, TypeOK
  <2>3. CASE ~(job[n] = Orphan /\ ~Held(n)')
    BY <1>1, <2>1, <2>3
  <2> QED
    BY <2>2, <2>3
<1>2. CASE m # n
  <2>1. job[m] = Orphan
    BY <1>2 DEF FreeOrphan, JobInv, TypeInv, TypeOK
  <2> QED
    BY <1>2, <2>1 DEF JobInv, OrphanHeld
<1> QED
  BY <1>1, <1>2

\* Orphans stay held.
LEMMA NextOrphans == JobInv /\ [Next]_vars => OrphanHeld'
<1> SUFFICES ASSUME JobInv, [Next]_vars PROVE OrphanHeld'
  OBVIOUS
<1> USE DEF PCs, CreatePCs, StartPCs, StopPCs, DestroyPCs
<1>1. ASSUME NEW c \in Cli, NEW n \in Name, NEW p \in Project, CommandBegins(c, n, p)
      PROVE  OrphanHeld'
  <2>1. /\ pc[c] = "idle" /\ at' = [at EXCEPT ![c] = n]
        /\ \E l \in PCs : pc' = [pc EXCEPT ![c] = l]
        /\ job' = job /\ peeked' = peeked
    BY <1>1 DEF CommandBegins, BeginCreate, BeginStart, BeginStop, BeginDestroy, Begin,
                MayBegin, runVars
  <2> QED
    BY <2>1, HoldersStay DEF JobInv, TypeInv, TypeOK
<1>2. ASSUME NEW c \in Cli, CreateStep(c) \/ DestroyStep(c) PROVE OrphanHeld'
  BY <1>2, OtherStep
     DEF CreateStep, Mount, Add, AddFails, DestroyStep, Unmount, Remove, RemoveFails,
         Goto, Return, runVars
<1>3. ASSUME NEW c \in Cli, StartStep(c) PROVE OrphanHeld'
  BY <1>3, OtherStep
     DEF StartStep, Launch, Register, MarkRunning, MarkRunningFails, SessionOver,
         EndResolves, EndSkips, EndDeregister, EndMark, EndMarkFails, Goto, Return, runVars
<1>4. ASSUME NEW c \in Cli, StopStep(c) PROVE OrphanHeld'
  <2>1. CASE StopClose(c)
    <3>1. at[c] \in Name
      BY DEF JobInv, TypeInv, TypeOK
    <3>2. \A m \in Name \ {at[c]} : Held(m) => Held(m)'
      BY <2>1 DEF StopClose, Goto, Held, JobInv, TypeInv, TypeOK
    <3> QED
      BY <2>1, <3>1, <3>2, FreeStep DEF StopClose
  <2>2. CASE StopTerminate(c)
    <3>1. pc' = [pc EXCEPT ![c] = "stop_close"] /\ UNCHANGED <<job, peeked, at>>
      BY <2>2 DEF StopTerminate, Goto
    <3>2. pc'[c] = "stop_close"
      BY <3>1 DEF JobInv, TypeInv, TypeOK
    <3> QED
      BY <3>1, <3>2, OtherStep
  <2>3. CASE ~StopTerminate(c) /\ ~StopClose(c)
    BY <1>4, <2>3, OtherStep
       DEF StopStep, StopResolves, StopMissing, StopDeregister, StopOpen, StopFindsNoJob,
           MarkStopped, MarkStoppedFails, Goto, Return, runVars
  <2> QED
    BY <2>1, <2>2, <2>3
<1>5. ASSUME NEW c \in Cli, RunnerStep(c) \/ ShellExits(c) \/ ShellBlocks(c) PROVE OrphanHeld'
  <2>1. CASE Connect(c)
    BY <2>1, OtherStep DEF Connect, Goto
  <2>2. CASE RunnerExits(c)
    BY <2>2, CloseOrphan DEF RunnerExits, RunnerBecomes
  <2>3. CASE CreateJob(c)
    <3>1. \A n \in Name : job'[n] = Orphan => job[n] = Orphan
      BY <2>3, NoCliIsNoCli DEF CreateJob, JobInv, TypeInv, TypeOK
    <3> QED
      BY <2>3, <3>1, HoldersStay DEF CreateJob, RunnerBecomes, cliVars
  <2> QED
    BY <1>5, <2>1, <2>2, <2>3, HoldersStay
       DEF RunnerStep, RunnerTooLate, JobDenied, LaunchShell, HangUp, ShellExits,
           ShellBlocks, RunnerBecomes, cliVars
<1>6. ASSUME NEW c \in Cli, Interference(c) PROVE OrphanHeld'
  <2>1. CASE RunnerFails(c)
    BY <2>1, CloseOrphan DEF RunnerFails, RunnerBecomes
  <2>2. CASE Kill(c)
    <3>1. at[c] \in Name
      BY DEF JobInv, TypeInv, TypeOK
    <3>2. \A m \in Name \ {at[c]} : Held(m) => Held(m)'
      BY <2>2 DEF Kill, Return, Held, JobInv, TypeInv, TypeOK
    <3> QED
      BY <2>2, <3>1, <3>2, FreeStep DEF Kill
  <2>3. CASE StopTerminateFails(c)
    <3>1. pc[c] = "stop_terminate" => pc'[c] = "stop_close"
      BY <2>3 DEF StopTerminateFails, Goto, JobInv, TypeInv, TypeOK
    <3> QED
      BY <2>3, <3>1, OtherStep DEF StopTerminateFails, Goto, runVars
  <2>4. CASE ~RunnerFails(c) /\ ~Kill(c) /\ ~StopTerminateFails(c)
    BY <1>6, <2>4, OtherStep
       DEF Interference, MountFails, LaunchFails, ConnectTimesOut, RegisterFails,
           EndDeregisterFails, StopDeregisterFails, UnmountFails, SessionAborts, Goto,
           Return, runVars
  <2> QED
    BY <2>1, <2>2, <2>3, <2>4
<1>7. ASSUME NEW n \in Name, Peek(n) PROVE OrphanHeld'
  <2>1. \A m \in Name : Held(m) => Held(m)'
    BY <1>7 DEF Peek, Held, cliVars, JobInv, TypeInv, TypeOK
  <2> QED
    BY <1>7, <2>1 DEF Peek, JobInv, OrphanHeld
<1>8. ASSUME NEW n \in Name, Unpeek(n) PROVE OrphanHeld'
  <2>1. \A m \in Name \ {n} : Held(m) => Held(m)'
    BY <1>8 DEF Unpeek, Held, cliVars, JobInv, TypeInv, TypeOK
  <2> QED
    BY <1>8, <2>1, FreeStep DEF Unpeek
<1>9. CASE ProxyCrash \/ UNCHANGED vars
  BY <1>9, HoldersStay DEF ProxyCrash, cliVars, runVars, vars
<1> QED
  BY <1>1, <1>2, <1>3, <1>4, <1>5, <1>6, <1>7, <1>8, <1>9 DEF Next, CliStep

\* The exclusion holds throughout.
LEMMA JobInvariance == Spec => []JobInv
<1>1. JobInv /\ [Next]_vars => JobInv'
  BY NextTypeInv, NextOwners, NextOrphans DEF JobInv
<1> QED
  BY InitJobInv, <1>1, PTL DEF Spec

\* Whatever overlaps, fails or is killed, two runners never serve shells in
\* one sandbox: the Job Object is created with a DACL that denies it to the
\* second runner (process.py:394-399).
THEOREM OneShellAlways == Spec => []OneShell
<1>1. JobInv => OneShell
  BY DEF JobInv, TypeInv, TypeOK, Owns, OneShell
<1> QED
  BY JobInvariance, <1>1, PTL

\* A Job Object is held by a living runner of its sandbox, or by a stop, a
\* status command or the proxy that has it open, or does not exist: no way of
\* ending a session or a command leaves one behind (process.py:258-283).
THEOREM JobNeverLeaked == Spec => []JobNotLeaked
<1>1. JobInv => JobNotLeaked
  BY DEF JobInv, Owned, OrphanHeld, JobNotLeaked
<1> QED
  BY JobInvariance, <1>1, PTL
=============================================================================
