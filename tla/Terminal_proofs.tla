-------------------------- MODULE Terminal_proofs --------------------------
(***************************************************************************)
(* Proofs about Terminal, for every number of pieces, size of pipe and     *)
(* number of faults: types, no shell left behind, and no output lost.      *)
(***************************************************************************)
EXTENDS Terminal, TLAPS

Session == {"starting", "set_modes", "pump", "write", "restore", "wait",
            "close_in", "close_out"}
Drained == {"restore", "wait", "close_in", "close_out"}
Ending == {"close_console", "join", "close_read", "close_out", "cleaned", "exited"}

\* The process of the runner and that of the shell.
Processes ==
    /\ code = "none" <=> runner # "exited"
    /\ runner = "assigned" => inJob
    /\ shell = "running" => inJob
    /\ runner \in Ending => shell # "running"
    /\ runner \in Ending \ {"exited"} => shell = "exited"
    /\ code = "shell" => shell = "exited"
    /\ conhost \in {"closing", "gone"} => runner \in Ending

\* The relay and the handles the runner closes under it.
Relay ==
    /\ runner \in Opening \cup Preparing => relay = "none"
    /\ runner \in {"cleaned", "exited"} => relay # "write"
    /\ runner \in {"close_read", "close_out", "cleaned"} => gaveUp \/ relay = "done"
    /\ code = "shell" => gaveUp \/ relay = "done"

\* What the host has seen of the runner and left of the session.
Host ==
    /\ host \in Session => outEnd = "connected"
    /\ host \in Drained /\ ~raised => outPipe = 0 /\ OutBroken
    /\ host \in {"close_in", "close_out"} /\ ~raised => runner = "exited"
    /\ host = "returned" => runner = "exited"
    /\ host \in {"wait", "close_in", "close_out", "returned"} => modes = "saved"

InRelay == IF relay = "write" THEN 1 ELSE 0
InHost == IF host = "write" THEN 1 ELSE 0

\* While nobody lets go of the output: neither end failed nor closed its pipe.
Kept == ~raised /\ outEnd # "closed" /\ code \in {"none", "shell"}

\* Every piece written is somewhere, and behind a relay that has ended or a
\* pseudo-console that is gone there is nothing.
Pieces ==
    Kept =>
        /\ written = screen + ptyOut + InRelay + outPipe + InHost + shown
        /\ ~gaveUp /\ relay = "done" => ptyOut = 0 /\ screen = 0 /\ conhost = "gone"
        /\ ~gaveUp /\ conhost = "gone" => screen = 0

IInv == TypeOK /\ Processes /\ Relay /\ Host /\ Pieces /\ OutputWhole
-----------------------------------------------------------------------------
(* Types *)

\* Every step keeps the types.
LEMMA TypeStep ==
  ASSUME TypeOK, [Next]_vars
  PROVE  TypeOK'
<1> USE MaxWrittenIsNat, PipeSizeIsPositive, MaxFaultsIsNat DEF TypeOK,
        HostPCs, HostDone, RunnerPCs, Opening, Preparing, hostVars, runnerVars,
        shellVars, outVars, inVars, userVars
<1>1. CASE Connected
  BY <1>1 DEF Connected, HostGoto
<1>2. CASE ConnectTimesOut
  BY <1>2 DEF ConnectTimesOut, HostGoto, Fault
<1>3. CASE GiveUpIn
  BY <1>3 DEF GiveUpIn, HostGoto
<1>4. CASE GiveUpOut
  BY <1>4 DEF GiveUpOut, HostGoto
<1>5. CASE SessionBegins
  BY <1>5 DEF SessionBegins, StartFeeder, HostGoto
<1>6. CASE StartFails
  BY <1>6 DEF StartFails, HostGoto, Fault
<1>7. CASE SetModes
  BY <1>7 DEF SetModes, StartFeeder
<1>8. CASE SetModesFails
  BY <1>8 DEF SetModesFails, Fault
<1>9. CASE PumpReads
  BY <1>9 DEF PumpReads, HostGoto
<1>10. CASE PumpEnds
  BY <1>10 DEF PumpEnds, HostGoto
<1>11. CASE PumpWrites
  BY <1>11 DEF PumpWrites, HostGoto
<1>12. CASE PumpWriteFails
  BY <1>12 DEF PumpWriteFails, Fault
<1>13. CASE Restore
  BY <1>13 DEF Restore
<1>14. CASE RunnerSeen
  BY <1>14 DEF RunnerSeen, HostGoto
<1>15. CASE CloseIn \/ CloseSession
  <2>1. CASE CloseIn
    BY <2>1 DEF CloseIn, HostGoto
  <2>2. CASE CloseSession
    BY <2>2 DEF CloseSession, HostGoto
  <2> QED BY <1>15, <2>1, <2>2
<1>16. CASE Feed \/ FeedWrites \/ FeedFails \/ ScriptRunsOut
  <2>1. CASE Feed \/ FeedFails
    BY <2>1 DEF Feed, FeedFails
  <2>2. CASE FeedWrites
    BY <2>2 DEF FeedWrites
  <2>3. CASE ScriptRunsOut
    BY <2>3 DEF ScriptRunsOut
  <2> QED BY <1>16, <2>1, <2>2, <2>3
<1>17. CASE HostLost
  BY <1>17 DEF HostLost, HostGoto, Fault
<1>18. CASE OpenIn
  BY <1>18 DEF OpenIn, RunnerGoto
<1>19. CASE OpenOut
  BY <1>19 DEF OpenOut, RunnerGoto
<1>20. CASE OpenFails
  BY <1>20 DEF OpenFails, RunnerEnds
<1>21. CASE CreateJob
  BY <1>21 DEF CreateJob, RunnerGoto
<1>22. CASE CreateConsole
  BY <1>22 DEF CreateConsole, RunnerGoto
<1>23. CASE LaunchShell
  BY <1>23 DEF LaunchShell, RunnerGoto
<1>24. CASE Assign
  BY <1>24 DEF Assign, RunnerGoto
<1>25. CASE Resume
  BY <1>25 DEF Resume, RunnerGoto
<1>26. CASE RunnerFails
  BY <1>26 DEF RunnerFails, RunnerEnds, Fault
<1>27. CASE ShellSeen
  BY <1>27 DEF ShellSeen, RunnerGoto
<1>28. CASE ConsoleClosed
  BY <1>28 DEF ConsoleClosed, RunnerGoto
<1>29. CASE RelayJoined
  BY <1>29 DEF RelayJoined, RunnerGoto
<1>30. CASE RelayGivenUp
  BY <1>30 DEF RelayGivenUp
<1>31. CASE CloseRead
  BY <1>31 DEF CloseRead, RunnerGoto
<1>32. CASE CloseOut
  BY <1>32 DEF CloseOut, RunnerGoto
<1>33. CASE RunnerReturns
  BY <1>33 DEF RunnerReturns, RunnerEnds
<1>34. CASE RunnerLost
  BY <1>34 DEF RunnerLost, RunnerEnds, Fault
<1>35. CASE RelayReads
  BY <1>35 DEF RelayReads, Others
<1>36. CASE RelayEnds
  BY <1>36 DEF RelayEnds, Others
<1>37. CASE RelayWrites
  BY <1>37 DEF RelayWrites, Others
<1>38. CASE RelayWriteFails
  BY <1>38 DEF RelayWriteFails, Others
<1>39. CASE TakeInput \/ TypeExit
  <2>1. CASE TakeInput
    <3>1. inRelay' \in {"read", "done"}
      BY <2>1 DEF TakeInput
    <3>2. inPipe' \in 0..PipeSize
      BY <2>1 DEF TakeInput
    <3>3. UNCHANGED <<Others, relay, shellVars, conhost, outVars>>
      BY <2>1 DEF TakeInput
    <3> QED BY <3>1, <3>2, <3>3 DEF Others
  <2>2. CASE TypeExit
    BY <2>2 DEF TypeExit, Others
  <2> QED BY <1>39, <2>1, <2>2
<1>40. CASE ShellWrites
  BY <1>40 DEF ShellWrites, Others
<1>41. CASE ShellExits
  BY <1>41 DEF ShellExits, Others
<1>42. CASE Render
  BY <1>42 DEF Render, Others
<1>43. CASE ConhostEnds
  BY <1>43 DEF ConhostEnds, Others
<1>44. CASE Pause
  BY <1>44 DEF Pause
<1>45. CASE UNCHANGED vars
  BY <1>45 DEF vars
<1> QED BY <1>1, <1>2, <1>3, <1>4, <1>5, <1>6, <1>7, <1>8, <1>9, <1>10, <1>11,
      <1>12, <1>13, <1>14, <1>15, <1>16, <1>17, <1>18, <1>19, <1>20, <1>21,
      <1>22, <1>23, <1>24, <1>25, <1>26, <1>27, <1>28, <1>29, <1>30, <1>31,
      <1>32, <1>33, <1>34, <1>35, <1>36, <1>37, <1>38, <1>39, <1>40, <1>41,
      <1>42, <1>43, <1>44, <1>45 DEF Next, HostSteps, FeedSteps,
      RunnerSteps, RelaySteps, InRelaySteps

-----------------------------------------------------------------------------
(* The invariant *)

\* Every step keeps the invariant.
LEMMA InvStep ==
  ASSUME IInv, TypeOK', [Next]_vars
  PROVE  (Processes /\ Relay /\ Host /\ Pieces /\ OutputWhole)'
<1> USE MaxWrittenIsNat, PipeSizeIsPositive, MaxFaultsIsNat DEF IInv,
        Processes, Relay, Host, Pieces, OutputWhole, Kept, InRelay, InHost,
        Ending, Session, Drained, OutBroken, ReadOpen, TypeOK, HostPCs,
        HostDone, RunnerPCs, Opening, Preparing, hostVars, runnerVars,
        shellVars, outVars, inVars, userVars
<1>1. CASE Connected
  BY <1>1 DEF Connected, HostGoto
<1>2. CASE ConnectTimesOut
  BY <1>2 DEF ConnectTimesOut, HostGoto, Fault
<1>3. CASE GiveUpIn
  BY <1>3 DEF GiveUpIn, HostGoto
<1>4. CASE GiveUpOut
  BY <1>4 DEF GiveUpOut, HostGoto
<1>5. CASE SessionBegins
  BY <1>5 DEF SessionBegins, StartFeeder, HostGoto
<1>6. CASE StartFails
  BY <1>6 DEF StartFails, HostGoto, Fault
<1>7. CASE SetModes
  BY <1>7 DEF SetModes, StartFeeder
<1>8. CASE SetModesFails
  BY <1>8 DEF SetModesFails, Fault
<1>9. CASE PumpReads
  BY <1>9 DEF PumpReads, HostGoto
<1>10. CASE PumpEnds
  BY <1>10 DEF PumpEnds, HostGoto
<1>11. CASE PumpWrites
  BY <1>11 DEF PumpWrites, HostGoto
<1>12. CASE PumpWriteFails
  BY <1>12 DEF PumpWriteFails, Fault
<1>13. CASE Restore
  BY <1>13 DEF Restore
<1>14. CASE RunnerSeen
  BY <1>14 DEF RunnerSeen, HostGoto
<1>15. CASE CloseIn \/ CloseSession
  <2>1. CASE CloseIn
    BY <2>1 DEF CloseIn, HostGoto
  <2>2. CASE CloseSession
    BY <2>2 DEF CloseSession, HostGoto
  <2> QED BY <1>15, <2>1, <2>2
<1>16. CASE Feed \/ FeedWrites \/ FeedFails \/ ScriptRunsOut
  <2>1. CASE Feed \/ FeedFails
    <3>1. UNCHANGED <<hostVars, inEnd, outEnd, runnerVars, relay, shellVars, conhost,
                      outVars, inPipe, inRelay, userVars, faults>>
      BY <2>1 DEF Feed, FeedFails
    <3> QED BY <3>1
  <2>2. CASE FeedWrites
    BY <2>2 DEF FeedWrites
  <2>3. CASE ScriptRunsOut
    BY <2>3 DEF ScriptRunsOut
  <2> QED BY <1>16, <2>1, <2>2, <2>3
<1>17. CASE HostLost
  BY <1>17 DEF HostLost, HostGoto, Fault
<1>18. CASE OpenIn
  BY <1>18 DEF OpenIn, RunnerGoto
<1>19. CASE OpenOut
  BY <1>19 DEF OpenOut, RunnerGoto
<1>20. CASE OpenFails
  BY <1>20 DEF OpenFails, RunnerEnds
<1>21. CASE CreateJob
  BY <1>21 DEF CreateJob, RunnerGoto
<1>22. CASE CreateConsole
  BY <1>22 DEF CreateConsole, RunnerGoto
<1>23. CASE LaunchShell
  BY <1>23 DEF LaunchShell, RunnerGoto
<1>24. CASE Assign
  BY <1>24 DEF Assign, RunnerGoto
<1>25. CASE Resume
  BY <1>25 DEF Resume, RunnerGoto
<1>26. CASE RunnerFails
  BY <1>26 DEF RunnerFails, RunnerEnds, Fault
<1>27. CASE ShellSeen
  BY <1>27 DEF ShellSeen, RunnerGoto
<1>28. CASE ConsoleClosed
  BY <1>28 DEF ConsoleClosed, RunnerGoto
<1>29. CASE RelayJoined
  BY <1>29 DEF RelayJoined, RunnerGoto
<1>30. CASE RelayGivenUp
  BY <1>30 DEF RelayGivenUp
<1>31. CASE CloseRead
  BY <1>31 DEF CloseRead, RunnerGoto
<1>32. CASE CloseOut
  BY <1>32 DEF CloseOut, RunnerGoto
<1>33. CASE RunnerReturns
  BY <1>33 DEF RunnerReturns, RunnerEnds
<1>34. CASE RunnerLost
  BY <1>34 DEF RunnerLost, RunnerEnds, Fault
<1>35. CASE RelayReads
  BY <1>35 DEF RelayReads, Others
<1>36. CASE RelayEnds
  BY <1>36 DEF RelayEnds, Others
<1>37. CASE RelayWrites
  BY <1>37 DEF RelayWrites, Others
<1>38. CASE RelayWriteFails
  BY <1>38 DEF RelayWriteFails, Others
<1>39. CASE TakeInput \/ TypeExit
  <2>1. CASE TakeInput
    <3>1. UNCHANGED <<Others, relay, shellVars, conhost, outVars>>
      BY <2>1 DEF TakeInput
    <3> QED BY <3>1 DEF Others
  <2>2. CASE TypeExit
    BY <2>2 DEF TypeExit, Others
  <2> QED BY <1>39, <2>1, <2>2
<1>40. CASE ShellWrites
  BY <1>40 DEF ShellWrites, Others
<1>41. CASE ShellExits
  BY <1>41 DEF ShellExits, Others
<1>42. CASE Render
  BY <1>42 DEF Render, Others
<1>43. CASE ConhostEnds
  BY <1>43 DEF ConhostEnds, Others
<1>44. CASE Pause
  BY <1>44 DEF Pause
<1>45. CASE UNCHANGED vars
  BY <1>45 DEF vars
<1> QED BY <1>1, <1>2, <1>3, <1>4, <1>5, <1>6, <1>7, <1>8, <1>9, <1>10, <1>11,
      <1>12, <1>13, <1>14, <1>15, <1>16, <1>17, <1>18, <1>19, <1>20, <1>21,
      <1>22, <1>23, <1>24, <1>25, <1>26, <1>27, <1>28, <1>29, <1>30, <1>31,
      <1>32, <1>33, <1>34, <1>35, <1>36, <1>37, <1>38, <1>39, <1>40, <1>41,
      <1>42, <1>43, <1>44, <1>45 DEF Next, HostSteps, FeedSteps,
      RunnerSteps, RelaySteps, InRelaySteps

-----------------------------------------------------------------------------
(* The theorems *)

LEMMA InvInit == Init => IInv
<1> SUFFICES ASSUME Init PROVE IInv
  OBVIOUS
<1>1. TypeOK
  <2>1. /\ raised \in BOOLEAN /\ gaveUp \in BOOLEAN /\ inJob \in BOOLEAN
        /\ typed \in BOOLEAN /\ paused \in BOOLEAN
    BY Zenon DEF Init
  <2>2. /\ screen \in 0..1 /\ ptyOut \in 0..PipeSize /\ outPipe \in 0..PipeSize
        /\ inPipe \in 0..PipeSize /\ shown \in Nat /\ written \in 0..MaxWritten /\ faults \in 0..MaxFaults
    BY MaxWrittenIsNat, PipeSizeIsPositive, MaxFaultsIsNat DEF Init
  <2> QED BY <2>1, <2>2 DEF Init, TypeOK, HostPCs, RunnerPCs, Opening
<1>2. Processes /\ Relay /\ Host
  BY DEF Init, Processes, Relay, Host, Ending, Session, Drained, OutBroken
<1>3. Pieces
  BY DEF Init, Pieces, InRelay, InHost
<1> QED BY <1>1, <1>2, <1>3 DEF IInv, OutputWhole, Init

\* The types of the session hold for every size of the pipes.
THEOREM Types == Spec => []TypeOK
<1>1. Init => TypeOK
  BY InvInit DEF IInv
<1>2. TypeOK /\ [Next]_vars => TypeOK'
  BY TypeStep
<1> QED BY <1>1, <1>2, PTL DEF Spec

\* The invariant that carries the other theorems.
THEOREM Inductive == Spec => []IInv
<1>1. IInv /\ [Next]_vars => IInv'
  <2> SUFFICES ASSUME IInv, [Next]_vars PROVE IInv'
    OBVIOUS
  <2>1. TypeOK'
    BY TypeStep DEF IInv
  <2> QED BY <2>1, InvStep DEF IInv
<1> QED BY InvInit, <1>1, PTL DEF Spec

\* start returns after everything the shell wrote was shown, and with the
\* console as it was, however the threads, pipes and processes interleave
\* (process.py:482-498, cli.py:95-178).
THEOREM NothingLost == Spec => []OutputWhole
<1>1. IInv => OutputWhole
  BY DEF IInv
<1> QED BY Inductive, <1>1, PTL

\* No sandboxed program outlives its runner (process.py:468-469).
THEOREM NoneLeft == Spec => []NoShellLeft
<1>1. IInv => NoShellLeft
  BY DEF IInv, Processes, Ending, NoShellLeft
<1> QED BY Inductive, <1>1, PTL
=============================================================================
