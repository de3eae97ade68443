------------------------ MODULE ProxyProcess_proofs ------------------------
(***************************************************************************)
(* For every number of sandboxes and proxies, losses, kills and lapses:    *)
(* the types; under the timing of Apart the safety properties of           *)
(* ProxyProcess, and that its processes implement the one table of         *)
(* PolicyTable.                                                            *)
(***************************************************************************)
EXTENDS ProxyProcess, TLAPS

Running == {"bound", "serving", "shutting", "closed"}
ClosingDown == {"shutting", "closed"}

\* The port keeps two proxies apart, and one that is ending keeps the next
\* from its port until the PID file is gone.
OneRuns ==
    \A p, q \in Proxy : state[p] \in Running /\ state[q] \in Running => p = q

\* The PID file leads to the proxy from its first request to its end.
FileNamesRunner == \A p \in Proxy : state[p] \in ClosingDown \cup {"serving"} => file = p

\* Uninstall is alone, and it removes the file when no proxy is left.
StopAlone ==
    /\ un # "idle" =>
          /\ Quiet /\ \A c \in Cli : shell[c] = "none"
          /\ \A p \in Proxy : state[p] \notin {"spawned", "bound"}
    /\ un = "wait" => file \in {target, NoProxy}
    /\ un = "unlink" => \A p \in Proxy : state[p] \notin Alive

\* A session, its end included, is served.
KeptAttached ==
    \A c \in Cli : pc[c] \in {"record", "session", "deregister", "stop"} =>
        /\ ctl[c] \in Proxy
        /\ \/ state[ctl[c]] = "crashed"
           \/ state[ctl[c]] = "serving" /\ c \in table[ctl[c]]

\* A proxy that nobody has reached yet has an empty table.
NewIsEmpty ==
    \A p \in Proxy : state[p] \in {"unborn", "spawned", "bound"} => table[p] = {}

\* The port is read from the file of a proxy that has answered.
PortToRead ==
    \A c \in Cli : pc[c] = "port" =>
        /\ file # NoProxy
        /\ \A p \in Proxy : state[p] \notin ClosingDown

PortRead ==
    \A c \in Cli :
        pc[c] \in Second \cup {"launch", "register", "record", "session"} => port[c]

\* A connection belongs to a shell that runs.
ConnInShell == \A c \in Cli : conn[c] # "none" => shell[c] # "none"

\* session_ended runs when the shell has exited or is left to itself.
EndOfShell == \A c \in Cli : pc[c] = "deregister" => shell[c] # "up"

\* A proxy that closes down by itself has nobody left in its table.
ClosingIsEmpty ==
    \A p \in Proxy : state[p] \in ClosingDown /\ un = "idle" => table[p] = {}

\* What was left behind is in the table of the proxy that serves.
LeftInForce == left \subseteq Served

ServiceInv == OneRuns /\ FileNamesRunner /\ StopAlone /\ KeptAttached
PortInv == PortToRead /\ PortRead
ConnInv == ConnInShell /\ EndOfShell /\ ClosingIsEmpty
SafeInv ==
    /\ TypeOK
    /\ ServiceInv
    /\ PortInv
    /\ AwaitedComes
    /\ NewIsEmpty
    /\ PolicyHasSession
    /\ ConnInv
    /\ TunnelHasPolicy
IInv == SafeInv /\ LeftInForce

-----------------------------------------------------------------------------
USE DEF States, HasPort, Alive, PCs, Talking, First, Second, Probing, Spawning,
        Awaiting, Leaving

\* Nothing runs at first.
LEMMA InitInv == Init => IInv
  BY MaxCrashesIsNat, MaxKillsIsNat, MaxLapsesIsNat, NoProxyIsNoProxy
     DEF Init, IInv, SafeInv, TypeOK, ServiceInv, OneRuns, FileNamesRunner, StopAlone,
         KeptAttached, PortInv, PortToRead, PortRead, AwaitedComes, NewIsEmpty,
         PolicyHasSession, ConnInv, ConnInShell, EndOfShell, ClosingIsEmpty, TunnelHasPolicy,
         LeftInForce, Running, ClosingDown

\* Every step keeps the types.
LEMMA NextType ==
  ASSUME TypeOK, [Next]_vars
  PROVE  TypeOK'
<1> USE DEF TypeOK, Become, Goto, Answers, serverVars, cliVars, shellVars,
            connVars, stopVars, bounds
<1>1. ASSUME NEW p \in Proxy, Bind(p) PROVE TypeOK'
  BY <1>1 DEF Bind
<1>2. ASSUME NEW p \in Proxy, BindFails(p) PROVE TypeOK'
  BY <1>2 DEF BindFails
<1>3. ASSUME NEW p \in Proxy, WritePid(p) PROVE TypeOK'
  BY <1>3 DEF WritePid
<1>4. ASSUME NEW p \in Proxy, Idle(p) PROVE TypeOK'
  BY <1>4 DEF Idle
<1>5. ASSUME NEW p \in Proxy, Close(p) PROVE TypeOK'
  BY <1>5 DEF Close
<1>6. ASSUME NEW p \in Proxy, RemovePid(p) PROVE TypeOK'
  BY <1>6 DEF RemovePid, DropAll
<1>7. ASSUME NEW p \in Proxy, Crash(p) PROVE TypeOK'
  BY <1>7, MaxCrashesIsNat DEF Crash, Lost, DropAll, ForgetPolicies
<1>8. ASSUME NEW c \in Cli, BeginStart(c) PROVE TypeOK'
  BY <1>8 DEF BeginStart
<1>9. ASSUME NEW c \in Cli, Probe(c) PROVE TypeOK'
  BY <1>9 DEF Probe, Return
<1>10. ASSUME NEW c \in Cli, ProbeFails(c) PROVE TypeOK'
  BY <1>10 DEF ProbeFails, Turns
<1>11. ASSUME NEW c \in Cli, NEW p \in Proxy, Spawn(c, p) PROVE TypeOK'
  BY <1>11 DEF Spawn
<1>12. ASSUME NEW c \in Cli, Await(c) PROVE TypeOK'
  BY <1>12 DEF Await, Return
<1>13. ASSUME NEW c \in Cli, AwaitFails(c) PROVE TypeOK'
  BY <1>13 DEF AwaitFails, Turns
<1>14. ASSUME NEW c \in Cli, AwaitTimesOut(c) PROVE TypeOK'
  BY <1>14, MaxCrashesIsNat DEF AwaitTimesOut
<1>15. ASSUME NEW c \in Cli, ReadPort(c) PROVE TypeOK'
  BY <1>15 DEF ReadPort
<1>16. ASSUME NEW c \in Cli, Launch(c) PROVE TypeOK'
  BY <1>16 DEF Launch
<1>17. ASSUME NEW c \in Cli, LaunchFails(c) PROVE TypeOK'
  BY <1>17 DEF LaunchFails, Turns
<1>18. ASSUME NEW c \in Cli, Register(c) PROVE TypeOK'
  BY <1>18 DEF Register
<1>19. ASSUME NEW c \in Cli, RegisterFails(c) PROVE TypeOK'
  BY <1>19 DEF RegisterFails, Turns
<1>20. ASSUME NEW c \in Cli, Record(c) PROVE TypeOK'
  BY <1>20 DEF Record, Turns
<1>21. ASSUME NEW c \in Cli, RecordFails(c) PROVE TypeOK'
  BY <1>21, MaxLapsesIsNat DEF RecordFails, Lapse, LeavePolicy
<1>22. ASSUME NEW c \in Cli, ShellExits(c) PROVE TypeOK'
  BY <1>22 DEF ShellExits, Drop
<1>23. ASSUME NEW c \in Cli, SessionEnds(c) PROVE TypeOK'
  BY <1>23 DEF SessionEnds, Turns
<1>24. ASSUME NEW c \in Cli, SessionAborts(c) PROVE TypeOK'
  BY <1>24, MaxLapsesIsNat DEF SessionAborts, Lapse
<1>25. ASSUME NEW c \in Cli, EndSkips(c) PROVE TypeOK'
  BY <1>25, MaxLapsesIsNat DEF EndSkips, Lapse, LeavePolicy
<1>26. ASSUME NEW c \in Cli, StopBegins(c) PROVE TypeOK'
  BY <1>26 DEF StopBegins, Turns
<1>27. ASSUME NEW c \in Cli, Deregister(c) PROVE TypeOK'
  BY <1>27 DEF Deregister, AfterDeregister
<1>28. ASSUME NEW c \in Cli, DeregisterSkips(c) PROVE TypeOK'
  BY <1>28 DEF DeregisterSkips, AfterDeregister
<1>29. ASSUME NEW c \in Cli, DeregisterFails(c) PROVE TypeOK'
  BY <1>29, MaxLapsesIsNat DEF DeregisterFails, AfterDeregister, Lapse, LeavePolicy
<1>30. ASSUME NEW c \in Cli, KillShell(c) PROVE TypeOK'
  BY <1>30 DEF KillShell, Drop
<1>31. ASSUME NEW c \in Cli, KillFails(c) PROVE TypeOK'
  BY <1>31, MaxLapsesIsNat DEF KillFails, Lapse
<1>32. ASSUME NEW c \in Cli, Kill(c) PROVE TypeOK'
  BY <1>32, MaxKillsIsNat DEF Kill, LeavePolicy
<1>33. ASSUME NEW c \in Cli, Ask(c) PROVE TypeOK'
  BY <1>33, NoProxyIsNoProxy DEF Ask
<1>34. ASSUME NEW c \in Cli, Decide(c) PROVE TypeOK'
  BY <1>34 DEF Decide
<1>35. ASSUME NEW c \in Cli, Tunnel(c) PROVE TypeOK'
  BY <1>35 DEF Tunnel
<1>36. ASSUME NEW c \in Cli, ConnectionEnds(c) PROVE TypeOK'
  BY <1>36 DEF ConnectionEnds, Drop
<1>37. ASSUME StopAsks PROVE TypeOK'
  BY <1>37 DEF StopAsks, ForgetPolicies
<1>38. ASSUME StopSeesEnd PROVE TypeOK'
  BY <1>38 DEF StopSeesEnd
<1>39. ASSUME StopTerminates PROVE TypeOK'
  BY <1>39, MaxCrashesIsNat DEF StopTerminates, Lost, DropAll, ForgetPolicies
<1>40. ASSUME StopUnlinks PROVE TypeOK'
  BY <1>40 DEF StopUnlinks
<1>41. CASE UNCHANGED vars
  BY <1>41 DEF vars
<1> QED
  BY <1>1, <1>2, <1>3, <1>4, <1>5, <1>6, <1>7, <1>8, <1>9, <1>10, <1>11,
     <1>12, <1>13, <1>14, <1>15, <1>16, <1>17, <1>18, <1>19, <1>20, <1>21, <1>22,
     <1>23, <1>24, <1>25, <1>26, <1>27, <1>28, <1>29, <1>30, <1>31, <1>32, <1>33,
     <1>34, <1>35, <1>36, <1>37, <1>38, <1>39, <1>40, <1>41
     DEF Next, ProxyStep, CliStep, CliLapse, ConnStep, StopStep

\* Under the timing of Apart one proxy runs at a time, the file leads to it, and
\* it leaves no session unserved.
LEMMA NextService ==
  ASSUME ~Tight, TypeOK, ServiceInv, [Next]_vars
  PROVE  ServiceInv'
<1> USE DEF TypeOK, ServiceInv, OneRuns, FileNamesRunner, StopAlone, KeptAttached,
            Running, ClosingDown, Quiet, Apart, Answers, Become, Goto, serverVars,
            cliVars, shellVars, connVars, stopVars, bounds
<1>1. ASSUME NEW p \in Proxy, Bind(p) PROVE ServiceInv'
  BY <1>1 DEF Bind
<1>2. ASSUME NEW p \in Proxy, BindFails(p) PROVE ServiceInv'
  BY <1>2 DEF BindFails
<1>3. ASSUME NEW p \in Proxy, WritePid(p) PROVE ServiceInv'
  BY <1>3 DEF WritePid
<1>4. ASSUME NEW p \in Proxy, Idle(p) PROVE ServiceInv'
  BY <1>4 DEF Idle
<1>5. ASSUME NEW p \in Proxy, Close(p) PROVE ServiceInv'
  BY <1>5 DEF Close
<1>6. ASSUME NEW p \in Proxy, RemovePid(p) PROVE ServiceInv'
  BY <1>6 DEF RemovePid, DropAll
<1>7. ASSUME NEW p \in Proxy, Crash(p) PROVE ServiceInv'
  BY <1>7 DEF Crash, Lost, DropAll
<1>8. ASSUME NEW c \in Cli, BeginStart(c) PROVE ServiceInv'
  BY <1>8 DEF BeginStart
<1>9. ASSUME NEW c \in Cli, Probe(c) PROVE ServiceInv'
  BY <1>9 DEF Probe, Return
<1>10. ASSUME NEW c \in Cli, ProbeFails(c) PROVE ServiceInv'
  BY <1>10 DEF ProbeFails, Turns
<1>11. ASSUME NEW c \in Cli, NEW p \in Proxy, Spawn(c, p) PROVE ServiceInv'
  BY <1>11 DEF Spawn
<1>12. ASSUME NEW c \in Cli, Await(c) PROVE ServiceInv'
  BY <1>12 DEF Await, Return
<1>13. ASSUME NEW c \in Cli, AwaitFails(c) PROVE ServiceInv'
  BY <1>13 DEF AwaitFails, Turns
<1>14. ASSUME NEW c \in Cli, AwaitTimesOut(c) PROVE ServiceInv'
  BY <1>14 DEF AwaitTimesOut
<1>15. ASSUME NEW c \in Cli, ReadPort(c) PROVE ServiceInv'
  BY <1>15 DEF ReadPort
<1>16. ASSUME NEW c \in Cli, Launch(c) PROVE ServiceInv'
  BY <1>16 DEF Launch
<1>17. ASSUME NEW c \in Cli, LaunchFails(c) PROVE ServiceInv'
  BY <1>17 DEF LaunchFails, Turns
<1>18. ASSUME NEW c \in Cli, Register(c) PROVE ServiceInv'
  BY <1>18 DEF Register
<1>19. ASSUME NEW c \in Cli, RegisterFails(c) PROVE ServiceInv'
  BY <1>19 DEF RegisterFails, Turns
<1>20. ASSUME NEW c \in Cli, Record(c) PROVE ServiceInv'
  BY <1>20 DEF Record, Turns
<1>21. ASSUME NEW c \in Cli, RecordFails(c) PROVE ServiceInv'
  BY <1>21 DEF RecordFails
<1>22. ASSUME NEW c \in Cli, ShellExits(c) PROVE ServiceInv'
  BY <1>22 DEF ShellExits
<1>23. ASSUME NEW c \in Cli, SessionEnds(c) PROVE ServiceInv'
  BY <1>23 DEF SessionEnds, Turns
<1>24. ASSUME NEW c \in Cli, SessionAborts(c) PROVE ServiceInv'
  BY <1>24 DEF SessionAborts
<1>25. ASSUME NEW c \in Cli, EndSkips(c) PROVE ServiceInv'
  BY <1>25 DEF EndSkips
<1>26. ASSUME NEW c \in Cli, StopBegins(c) PROVE ServiceInv'
  BY <1>26 DEF StopBegins, Turns
<1>27. ASSUME NEW c \in Cli, Deregister(c) PROVE ServiceInv'
  BY <1>27 DEF Deregister, AfterDeregister
<1>28. ASSUME NEW c \in Cli, DeregisterSkips(c) PROVE ServiceInv'
  BY <1>28 DEF DeregisterSkips, AfterDeregister
<1>29. ASSUME NEW c \in Cli, DeregisterFails(c) PROVE ServiceInv'
  BY <1>29 DEF DeregisterFails, AfterDeregister
<1>30. ASSUME NEW c \in Cli, KillShell(c) PROVE ServiceInv'
  BY <1>30 DEF KillShell
<1>31. ASSUME NEW c \in Cli, KillFails(c) PROVE ServiceInv'
  BY <1>31 DEF KillFails
<1>32. ASSUME NEW c \in Cli, Kill(c) PROVE ServiceInv'
  BY <1>32 DEF Kill
<1>33. ASSUME NEW c \in Cli, Ask(c) PROVE ServiceInv'
  BY <1>33 DEF Ask
<1>34. ASSUME NEW c \in Cli, Decide(c) PROVE ServiceInv'
  BY <1>34 DEF Decide
<1>35. ASSUME NEW c \in Cli, Tunnel(c) PROVE ServiceInv'
  BY <1>35 DEF Tunnel
<1>36. ASSUME NEW c \in Cli, ConnectionEnds(c) PROVE ServiceInv'
  BY <1>36 DEF ConnectionEnds
<1>37. ASSUME StopAsks PROVE ServiceInv'
  BY <1>37 DEF StopAsks
<1>38. ASSUME StopSeesEnd PROVE ServiceInv'
  BY <1>38, NoProxyIsNoProxy DEF StopSeesEnd
<1>39. ASSUME StopTerminates PROVE ServiceInv'
  BY <1>39 DEF StopTerminates, Lost, DropAll
<1>40. ASSUME StopUnlinks PROVE ServiceInv'
  BY <1>40 DEF StopUnlinks
<1>41. CASE UNCHANGED vars
  BY <1>41 DEF vars
<1> QED
  BY <1>1, <1>2, <1>3, <1>4, <1>5, <1>6, <1>7, <1>8, <1>9, <1>10, <1>11,
     <1>12, <1>13, <1>14, <1>15, <1>16, <1>17, <1>18, <1>19, <1>20, <1>21, <1>22,
     <1>23, <1>24, <1>25, <1>26, <1>27, <1>28, <1>29, <1>30, <1>31, <1>32, <1>33,
     <1>34, <1>35, <1>36, <1>37, <1>38, <1>39, <1>40, <1>41
     DEF Next, ProxyStep, CliStep, CliLapse, ConnStep, StopStep

\* Policies are only sent to a proxy that answers.
LEMMA NextNewIsEmpty ==
  ASSUME TypeOK, NewIsEmpty, [Next]_vars
  PROVE  NewIsEmpty'
<1> USE DEF TypeOK, NewIsEmpty, Answers, Become, Goto, serverVars, cliVars,
            shellVars, connVars, stopVars, bounds
<1>1. ASSUME NEW p \in Proxy, Bind(p) PROVE NewIsEmpty'
  BY <1>1 DEF Bind
<1>2. ASSUME NEW p \in Proxy, BindFails(p) PROVE NewIsEmpty'
  BY <1>2 DEF BindFails
<1>3. ASSUME NEW p \in Proxy, WritePid(p) PROVE NewIsEmpty'
  BY <1>3 DEF WritePid
<1>4. ASSUME NEW p \in Proxy, Idle(p) PROVE NewIsEmpty'
  BY <1>4 DEF Idle
<1>5. ASSUME NEW p \in Proxy, Close(p) PROVE NewIsEmpty'
  BY <1>5 DEF Close
<1>6. ASSUME NEW p \in Proxy, RemovePid(p) PROVE NewIsEmpty'
  BY <1>6 DEF RemovePid
<1>7. ASSUME NEW p \in Proxy, Crash(p) PROVE NewIsEmpty'
  BY <1>7 DEF Crash, Lost
<1>8. ASSUME NEW c \in Cli, BeginStart(c) PROVE NewIsEmpty'
  BY <1>8 DEF BeginStart
<1>9. ASSUME NEW c \in Cli, Probe(c) PROVE NewIsEmpty'
  BY <1>9 DEF Probe, Return
<1>10. ASSUME NEW c \in Cli, ProbeFails(c) PROVE NewIsEmpty'
  BY <1>10 DEF ProbeFails, Turns
<1>11. ASSUME NEW c \in Cli, NEW p \in Proxy, Spawn(c, p) PROVE NewIsEmpty'
  BY <1>11 DEF Spawn
<1>12. ASSUME NEW c \in Cli, Await(c) PROVE NewIsEmpty'
  BY <1>12 DEF Await, Return
<1>13. ASSUME NEW c \in Cli, AwaitFails(c) PROVE NewIsEmpty'
  BY <1>13 DEF AwaitFails, Turns
<1>14. ASSUME NEW c \in Cli, AwaitTimesOut(c) PROVE NewIsEmpty'
  BY <1>14 DEF AwaitTimesOut
<1>15. ASSUME NEW c \in Cli, ReadPort(c) PROVE NewIsEmpty'
  BY <1>15 DEF ReadPort
<1>16. ASSUME NEW c \in Cli, Launch(c) PROVE NewIsEmpty'
  BY <1>16 DEF Launch
<1>17. ASSUME NEW c \in Cli, LaunchFails(c) PROVE NewIsEmpty'
  BY <1>17 DEF LaunchFails, Turns
<1>18. ASSUME NEW c \in Cli, Register(c) PROVE NewIsEmpty'
  BY <1>18 DEF Register
<1>19. ASSUME NEW c \in Cli, RegisterFails(c) PROVE NewIsEmpty'
  BY <1>19 DEF RegisterFails, Turns
<1>20. ASSUME NEW c \in Cli, Record(c) PROVE NewIsEmpty'
  BY <1>20 DEF Record, Turns
<1>21. ASSUME NEW c \in Cli, RecordFails(c) PROVE NewIsEmpty'
  BY <1>21 DEF RecordFails
<1>22. ASSUME NEW c \in Cli, ShellExits(c) PROVE NewIsEmpty'
  BY <1>22 DEF ShellExits
<1>23. ASSUME NEW c \in Cli, SessionEnds(c) PROVE NewIsEmpty'
  BY <1>23 DEF SessionEnds, Turns
<1>24. ASSUME NEW c \in Cli, SessionAborts(c) PROVE NewIsEmpty'
  BY <1>24 DEF SessionAborts
<1>25. ASSUME NEW c \in Cli, EndSkips(c) PROVE NewIsEmpty'
  BY <1>25 DEF EndSkips
<1>26. ASSUME NEW c \in Cli, StopBegins(c) PROVE NewIsEmpty'
  BY <1>26 DEF StopBegins, Turns
<1>27. ASSUME NEW c \in Cli, Deregister(c) PROVE NewIsEmpty'
  BY <1>27 DEF Deregister, AfterDeregister
<1>28. ASSUME NEW c \in Cli, DeregisterSkips(c) PROVE NewIsEmpty'
  BY <1>28 DEF DeregisterSkips, AfterDeregister
<1>29. ASSUME NEW c \in Cli, DeregisterFails(c) PROVE NewIsEmpty'
  BY <1>29 DEF DeregisterFails, AfterDeregister
<1>30. ASSUME NEW c \in Cli, KillShell(c) PROVE NewIsEmpty'
  BY <1>30 DEF KillShell
<1>31. ASSUME NEW c \in Cli, KillFails(c) PROVE NewIsEmpty'
  BY <1>31 DEF KillFails
<1>32. ASSUME NEW c \in Cli, Kill(c) PROVE NewIsEmpty'
  BY <1>32 DEF Kill
<1>33. ASSUME NEW c \in Cli, Ask(c) PROVE NewIsEmpty'
  BY <1>33 DEF Ask
<1>34. ASSUME NEW c \in Cli, Decide(c) PROVE NewIsEmpty'
  BY <1>34 DEF Decide
<1>35. ASSUME NEW c \in Cli, Tunnel(c) PROVE NewIsEmpty'
  BY <1>35 DEF Tunnel
<1>36. ASSUME NEW c \in Cli, ConnectionEnds(c) PROVE NewIsEmpty'
  BY <1>36 DEF ConnectionEnds
<1>37. ASSUME StopAsks PROVE NewIsEmpty'
  BY <1>37 DEF StopAsks
<1>38. ASSUME StopSeesEnd PROVE NewIsEmpty'
  BY <1>38 DEF StopSeesEnd
<1>39. ASSUME StopTerminates PROVE NewIsEmpty'
  BY <1>39 DEF StopTerminates, Lost
<1>40. ASSUME StopUnlinks PROVE NewIsEmpty'
  BY <1>40 DEF StopUnlinks
<1>41. CASE UNCHANGED vars
  BY <1>41 DEF vars
<1> QED
  BY <1>1, <1>2, <1>3, <1>4, <1>5, <1>6, <1>7, <1>8, <1>9, <1>10, <1>11,
     <1>12, <1>13, <1>14, <1>15, <1>16, <1>17, <1>18, <1>19, <1>20, <1>21, <1>22,
     <1>23, <1>24, <1>25, <1>26, <1>27, <1>28, <1>29, <1>30, <1>31, <1>32, <1>33,
     <1>34, <1>35, <1>36, <1>37, <1>38, <1>39, <1>40, <1>41
     DEF Next, ProxyStep, CliStep, CliLapse, ConnStep, StopStep

\* The proxy whose port is to be read does not end meanwhile.
LEMMA NextPort ==
  ASSUME ~Tight, TypeOK, ServiceInv, PortInv, [Next]_vars
  PROVE  PortInv'
<1> USE DEF TypeOK, ServiceInv, OneRuns, FileNamesRunner, StopAlone, PortInv,
            PortToRead, PortRead, Running, ClosingDown, Quiet, Apart, Answers,
            Become, Goto, serverVars, cliVars, shellVars, connVars, stopVars,
            bounds
<1>1. ASSUME NEW p \in Proxy, Bind(p) PROVE PortInv'
  BY <1>1 DEF Bind
<1>2. ASSUME NEW p \in Proxy, BindFails(p) PROVE PortInv'
  BY <1>2 DEF BindFails
<1>3. ASSUME NEW p \in Proxy, WritePid(p) PROVE PortInv'
  BY <1>3, NoProxyIsNoProxy DEF WritePid
<1>4. ASSUME NEW p \in Proxy, Idle(p) PROVE PortInv'
  BY <1>4 DEF Idle
<1>5. ASSUME NEW p \in Proxy, Close(p) PROVE PortInv'
  BY <1>5 DEF Close
<1>6. ASSUME NEW p \in Proxy, RemovePid(p) PROVE PortInv'
  BY <1>6 DEF RemovePid
<1>7. ASSUME NEW p \in Proxy, Crash(p) PROVE PortInv'
  BY <1>7 DEF Crash, Lost
<1>8. ASSUME NEW c \in Cli, BeginStart(c) PROVE PortInv'
  BY <1>8 DEF BeginStart
<1>9. ASSUME NEW c \in Cli, Probe(c) PROVE PortInv'
  <2>1. PortToRead'
    BY <1>9, NoProxyIsNoProxy DEF Probe, Return
  <2>2. PortRead'
    BY <1>9 DEF Probe, Return
  <2> QED
    BY <2>1, <2>2
<1>10. ASSUME NEW c \in Cli, ProbeFails(c) PROVE PortInv'
  BY <1>10 DEF ProbeFails, Turns
<1>11. ASSUME NEW c \in Cli, NEW p \in Proxy, Spawn(c, p) PROVE PortInv'
  BY <1>11 DEF Spawn
<1>12. ASSUME NEW c \in Cli, Await(c) PROVE PortInv'
  <2>1. PortToRead'
    BY <1>12, NoProxyIsNoProxy DEF Await, Return
  <2>2. PortRead'
    BY <1>12 DEF Await, Return
  <2> QED
    BY <2>1, <2>2
<1>13. ASSUME NEW c \in Cli, AwaitFails(c) PROVE PortInv'
  BY <1>13 DEF AwaitFails, Turns
<1>14. ASSUME NEW c \in Cli, AwaitTimesOut(c) PROVE PortInv'
  BY <1>14 DEF AwaitTimesOut
<1>15. ASSUME NEW c \in Cli, ReadPort(c) PROVE PortInv'
  BY <1>15 DEF ReadPort
<1>16. ASSUME NEW c \in Cli, Launch(c) PROVE PortInv'
  BY <1>16 DEF Launch
<1>17. ASSUME NEW c \in Cli, LaunchFails(c) PROVE PortInv'
  BY <1>17 DEF LaunchFails, Turns
<1>18. ASSUME NEW c \in Cli, Register(c) PROVE PortInv'
  BY <1>18 DEF Register
<1>19. ASSUME NEW c \in Cli, RegisterFails(c) PROVE PortInv'
  BY <1>19 DEF RegisterFails, Turns
<1>20. ASSUME NEW c \in Cli, Record(c) PROVE PortInv'
  BY <1>20 DEF Record, Turns
<1>21. ASSUME NEW c \in Cli, RecordFails(c) PROVE PortInv'
  BY <1>21 DEF RecordFails
<1>22. ASSUME NEW c \in Cli, ShellExits(c) PROVE PortInv'
  BY <1>22 DEF ShellExits
<1>23. ASSUME NEW c \in Cli, SessionEnds(c) PROVE PortInv'
  BY <1>23 DEF SessionEnds, Turns
<1>24. ASSUME NEW c \in Cli, SessionAborts(c) PROVE PortInv'
  BY <1>24 DEF SessionAborts
<1>25. ASSUME NEW c \in Cli, EndSkips(c) PROVE PortInv'
  BY <1>25 DEF EndSkips
<1>26. ASSUME NEW c \in Cli, StopBegins(c) PROVE PortInv'
  BY <1>26 DEF StopBegins, Turns
<1>27. ASSUME NEW c \in Cli, Deregister(c) PROVE PortInv'
  BY <1>27 DEF Deregister, AfterDeregister
<1>28. ASSUME NEW c \in Cli, DeregisterSkips(c) PROVE PortInv'
  BY <1>28 DEF DeregisterSkips, AfterDeregister
<1>29. ASSUME NEW c \in Cli, DeregisterFails(c) PROVE PortInv'
  BY <1>29 DEF DeregisterFails, AfterDeregister
<1>30. ASSUME NEW c \in Cli, KillShell(c) PROVE PortInv'
  BY <1>30 DEF KillShell
<1>31. ASSUME NEW c \in Cli, KillFails(c) PROVE PortInv'
  BY <1>31 DEF KillFails
<1>32. ASSUME NEW c \in Cli, Kill(c) PROVE PortInv'
  BY <1>32 DEF Kill
<1>33. ASSUME NEW c \in Cli, Ask(c) PROVE PortInv'
  BY <1>33 DEF Ask
<1>34. ASSUME NEW c \in Cli, Decide(c) PROVE PortInv'
  BY <1>34 DEF Decide
<1>35. ASSUME NEW c \in Cli, Tunnel(c) PROVE PortInv'
  BY <1>35 DEF Tunnel
<1>36. ASSUME NEW c \in Cli, ConnectionEnds(c) PROVE PortInv'
  BY <1>36 DEF ConnectionEnds
<1>37. ASSUME StopAsks PROVE PortInv'
  BY <1>37 DEF StopAsks
<1>38. ASSUME StopSeesEnd PROVE PortInv'
  BY <1>38 DEF StopSeesEnd
<1>39. ASSUME StopTerminates PROVE PortInv'
  BY <1>39 DEF StopTerminates, Lost
<1>40. ASSUME StopUnlinks PROVE PortInv'
  BY <1>40 DEF StopUnlinks
<1>41. CASE UNCHANGED vars
  BY <1>41 DEF vars
<1> QED
  BY <1>1, <1>2, <1>3, <1>4, <1>5, <1>6, <1>7, <1>8, <1>9, <1>10, <1>11,
     <1>12, <1>13, <1>14, <1>15, <1>16, <1>17, <1>18, <1>19, <1>20, <1>21, <1>22,
     <1>23, <1>24, <1>25, <1>26, <1>27, <1>28, <1>29, <1>30, <1>31, <1>32, <1>33,
     <1>34, <1>35, <1>36, <1>37, <1>38, <1>39, <1>40, <1>41
     DEF Next, ProxyStep, CliStep, CliLapse, ConnStep, StopStep

\* A proxy that loses its port to another loses it to one that answers or will.
LEMMA NextAwaited ==
  ASSUME ~Tight, TypeOK, ServiceInv, AwaitedComes,
         [Next]_vars
  PROVE  AwaitedComes'
<1> USE DEF TypeOK, ServiceInv, OneRuns, FileNamesRunner, StopAlone, AwaitedComes,
            Running, ClosingDown, Quiet, Apart, Answers, Become, Goto, serverVars,
            cliVars, shellVars, connVars, stopVars, bounds
<1>1. ASSUME NEW p \in Proxy, Bind(p) PROVE AwaitedComes'
  BY <1>1 DEF Bind
<1>2. ASSUME NEW p \in Proxy, BindFails(p) PROVE AwaitedComes'
  BY <1>2 DEF BindFails
<1>3. ASSUME NEW p \in Proxy, WritePid(p) PROVE AwaitedComes'
  BY <1>3 DEF WritePid
<1>4. ASSUME NEW p \in Proxy, Idle(p) PROVE AwaitedComes'
  BY <1>4 DEF Idle
<1>5. ASSUME NEW p \in Proxy, Close(p) PROVE AwaitedComes'
  BY <1>5 DEF Close
<1>6. ASSUME NEW p \in Proxy, RemovePid(p) PROVE AwaitedComes'
  BY <1>6 DEF RemovePid
<1>7. ASSUME NEW p \in Proxy, Crash(p) PROVE AwaitedComes'
  BY <1>7 DEF Crash, Lost
<1>8. ASSUME NEW c \in Cli, BeginStart(c) PROVE AwaitedComes'
  BY <1>8 DEF BeginStart
<1>9. ASSUME NEW c \in Cli, Probe(c) PROVE AwaitedComes'
  BY <1>9 DEF Probe, Return
<1>10. ASSUME NEW c \in Cli, ProbeFails(c) PROVE AwaitedComes'
  BY <1>10 DEF ProbeFails, Turns
<1>11. ASSUME NEW c \in Cli, NEW p \in Proxy, Spawn(c, p) PROVE AwaitedComes'
  BY <1>11 DEF Spawn
<1>12. ASSUME NEW c \in Cli, Await(c) PROVE AwaitedComes'
  BY <1>12 DEF Await, Return
<1>13. ASSUME NEW c \in Cli, AwaitFails(c) PROVE AwaitedComes'
  BY <1>13 DEF AwaitFails, Turns
<1>14. ASSUME NEW c \in Cli, AwaitTimesOut(c) PROVE AwaitedComes'
  BY <1>14 DEF AwaitTimesOut
<1>15. ASSUME NEW c \in Cli, ReadPort(c) PROVE AwaitedComes'
  BY <1>15 DEF ReadPort
<1>16. ASSUME NEW c \in Cli, Launch(c) PROVE AwaitedComes'
  BY <1>16 DEF Launch
<1>17. ASSUME NEW c \in Cli, LaunchFails(c) PROVE AwaitedComes'
  BY <1>17 DEF LaunchFails, Turns
<1>18. ASSUME NEW c \in Cli, Register(c) PROVE AwaitedComes'
  BY <1>18 DEF Register
<1>19. ASSUME NEW c \in Cli, RegisterFails(c) PROVE AwaitedComes'
  BY <1>19 DEF RegisterFails, Turns
<1>20. ASSUME NEW c \in Cli, Record(c) PROVE AwaitedComes'
  BY <1>20 DEF Record, Turns
<1>21. ASSUME NEW c \in Cli, RecordFails(c) PROVE AwaitedComes'
  BY <1>21 DEF RecordFails
<1>22. ASSUME NEW c \in Cli, ShellExits(c) PROVE AwaitedComes'
  BY <1>22 DEF ShellExits
<1>23. ASSUME NEW c \in Cli, SessionEnds(c) PROVE AwaitedComes'
  BY <1>23 DEF SessionEnds, Turns
<1>24. ASSUME NEW c \in Cli, SessionAborts(c) PROVE AwaitedComes'
  BY <1>24 DEF SessionAborts
<1>25. ASSUME NEW c \in Cli, EndSkips(c) PROVE AwaitedComes'
  BY <1>25 DEF EndSkips
<1>26. ASSUME NEW c \in Cli, StopBegins(c) PROVE AwaitedComes'
  BY <1>26 DEF StopBegins, Turns
<1>27. ASSUME NEW c \in Cli, Deregister(c) PROVE AwaitedComes'
  BY <1>27 DEF Deregister, AfterDeregister
<1>28. ASSUME NEW c \in Cli, DeregisterSkips(c) PROVE AwaitedComes'
  BY <1>28 DEF DeregisterSkips, AfterDeregister
<1>29. ASSUME NEW c \in Cli, DeregisterFails(c) PROVE AwaitedComes'
  BY <1>29 DEF DeregisterFails, AfterDeregister
<1>30. ASSUME NEW c \in Cli, KillShell(c) PROVE AwaitedComes'
  BY <1>30 DEF KillShell
<1>31. ASSUME NEW c \in Cli, KillFails(c) PROVE AwaitedComes'
  BY <1>31 DEF KillFails
<1>32. ASSUME NEW c \in Cli, Kill(c) PROVE AwaitedComes'
  BY <1>32 DEF Kill
<1>33. ASSUME NEW c \in Cli, Ask(c) PROVE AwaitedComes'
  BY <1>33 DEF Ask
<1>34. ASSUME NEW c \in Cli, Decide(c) PROVE AwaitedComes'
  BY <1>34 DEF Decide
<1>35. ASSUME NEW c \in Cli, Tunnel(c) PROVE AwaitedComes'
  BY <1>35 DEF Tunnel
<1>36. ASSUME NEW c \in Cli, ConnectionEnds(c) PROVE AwaitedComes'
  BY <1>36 DEF ConnectionEnds
<1>37. ASSUME StopAsks PROVE AwaitedComes'
  BY <1>37 DEF StopAsks
<1>38. ASSUME StopSeesEnd PROVE AwaitedComes'
  BY <1>38 DEF StopSeesEnd
<1>39. ASSUME StopTerminates PROVE AwaitedComes'
  BY <1>39 DEF StopTerminates, Lost
<1>40. ASSUME StopUnlinks PROVE AwaitedComes'
  BY <1>40 DEF StopUnlinks
<1>41. CASE UNCHANGED vars
  BY <1>41 DEF vars
<1> QED
  BY <1>1, <1>2, <1>3, <1>4, <1>5, <1>6, <1>7, <1>8, <1>9, <1>10, <1>11,
     <1>12, <1>13, <1>14, <1>15, <1>16, <1>17, <1>18, <1>19, <1>20, <1>21, <1>22,
     <1>23, <1>24, <1>25, <1>26, <1>27, <1>28, <1>29, <1>30, <1>31, <1>32, <1>33,
     <1>34, <1>35, <1>36, <1>37, <1>38, <1>39, <1>40, <1>41
     DEF Next, ProxyStep, CliStep, CliLapse, ConnStep, StopStep

\* The end of a session finds the file, and the file names its proxy; what does
\* not get that far is left behind.
LEMMA NextPolicy ==
  ASSUME ~Tight, TypeOK, ServiceInv, NewIsEmpty,
         PolicyHasSession, [Next]_vars
  PROVE  PolicyHasSession'
<1> USE DEF TypeOK, ServiceInv, OneRuns, FileNamesRunner, StopAlone, KeptAttached,
            NewIsEmpty, PolicyHasSession, Attached, Running, ClosingDown, Quiet,
            Apart, Answers, Become, Goto, serverVars, cliVars, shellVars,
            connVars, stopVars, bounds
<1>1. ASSUME NEW p \in Proxy, Bind(p) PROVE PolicyHasSession'
  BY <1>1 DEF Bind
<1>2. ASSUME NEW p \in Proxy, BindFails(p) PROVE PolicyHasSession'
  BY <1>2 DEF BindFails
<1>3. ASSUME NEW p \in Proxy, WritePid(p) PROVE PolicyHasSession'
  BY <1>3 DEF WritePid
<1>4. ASSUME NEW p \in Proxy, Idle(p) PROVE PolicyHasSession'
  BY <1>4 DEF Idle
<1>5. ASSUME NEW p \in Proxy, Close(p) PROVE PolicyHasSession'
  BY <1>5 DEF Close
<1>6. ASSUME NEW p \in Proxy, RemovePid(p) PROVE PolicyHasSession'
  BY <1>6 DEF RemovePid
<1>7. ASSUME NEW p \in Proxy, Crash(p) PROVE PolicyHasSession'
  BY <1>7 DEF Crash, Lost, ForgetPolicies, Served
<1>8. ASSUME NEW c \in Cli, BeginStart(c) PROVE PolicyHasSession'
  BY <1>8 DEF BeginStart
<1>9. ASSUME NEW c \in Cli, Probe(c) PROVE PolicyHasSession'
  BY <1>9 DEF Probe, Return
<1>10. ASSUME NEW c \in Cli, ProbeFails(c) PROVE PolicyHasSession'
  BY <1>10 DEF ProbeFails, Turns
<1>11. ASSUME NEW c \in Cli, NEW p \in Proxy, Spawn(c, p) PROVE PolicyHasSession'
  BY <1>11 DEF Spawn
<1>12. ASSUME NEW c \in Cli, Await(c) PROVE PolicyHasSession'
  BY <1>12 DEF Await, Return
<1>13. ASSUME NEW c \in Cli, AwaitFails(c) PROVE PolicyHasSession'
  BY <1>13 DEF AwaitFails, Turns
<1>14. ASSUME NEW c \in Cli, AwaitTimesOut(c) PROVE PolicyHasSession'
  BY <1>14 DEF AwaitTimesOut
<1>15. ASSUME NEW c \in Cli, ReadPort(c) PROVE PolicyHasSession'
  BY <1>15 DEF ReadPort
<1>16. ASSUME NEW c \in Cli, Launch(c) PROVE PolicyHasSession'
  BY <1>16 DEF Launch
<1>17. ASSUME NEW c \in Cli, LaunchFails(c) PROVE PolicyHasSession'
  BY <1>17 DEF LaunchFails, Turns
<1>18. ASSUME NEW c \in Cli, Register(c) PROVE PolicyHasSession'
  BY <1>18 DEF Register
<1>19. ASSUME NEW c \in Cli, RegisterFails(c) PROVE PolicyHasSession'
  BY <1>19 DEF RegisterFails, Turns
<1>20. ASSUME NEW c \in Cli, Record(c) PROVE PolicyHasSession'
  BY <1>20 DEF Record, Turns
<1>21. ASSUME NEW c \in Cli, RecordFails(c) PROVE PolicyHasSession'
  BY <1>21 DEF RecordFails, LeavePolicy, Served
<1>22. ASSUME NEW c \in Cli, ShellExits(c) PROVE PolicyHasSession'
  BY <1>22 DEF ShellExits
<1>23. ASSUME NEW c \in Cli, SessionEnds(c) PROVE PolicyHasSession'
  BY <1>23 DEF SessionEnds, Turns
<1>24. ASSUME NEW c \in Cli, SessionAborts(c) PROVE PolicyHasSession'
  BY <1>24 DEF SessionAborts
<1>25. ASSUME NEW c \in Cli, EndSkips(c) PROVE PolicyHasSession'
  BY <1>25 DEF EndSkips, LeavePolicy, Served
<1>26. ASSUME NEW c \in Cli, StopBegins(c) PROVE PolicyHasSession'
  BY <1>26 DEF StopBegins, Turns
<1>27. ASSUME NEW c \in Cli, Deregister(c) PROVE PolicyHasSession'
  BY <1>27 DEF Deregister, AfterDeregister
<1>28. ASSUME NEW c \in Cli, DeregisterSkips(c) PROVE PolicyHasSession'
  BY <1>28 DEF DeregisterSkips, AfterDeregister
<1>29. ASSUME NEW c \in Cli, DeregisterFails(c) PROVE PolicyHasSession'
  BY <1>29 DEF DeregisterFails, AfterDeregister, LeavePolicy, Served
<1>30. ASSUME NEW c \in Cli, KillShell(c) PROVE PolicyHasSession'
  BY <1>30 DEF KillShell
<1>31. ASSUME NEW c \in Cli, KillFails(c) PROVE PolicyHasSession'
  BY <1>31 DEF KillFails
<1>32. ASSUME NEW c \in Cli, Kill(c) PROVE PolicyHasSession'
  BY <1>32 DEF Kill, LeavePolicy, Served
<1>33. ASSUME NEW c \in Cli, Ask(c) PROVE PolicyHasSession'
  BY <1>33 DEF Ask
<1>34. ASSUME NEW c \in Cli, Decide(c) PROVE PolicyHasSession'
  BY <1>34 DEF Decide
<1>35. ASSUME NEW c \in Cli, Tunnel(c) PROVE PolicyHasSession'
  BY <1>35 DEF Tunnel
<1>36. ASSUME NEW c \in Cli, ConnectionEnds(c) PROVE PolicyHasSession'
  BY <1>36 DEF ConnectionEnds
<1>37. ASSUME StopAsks PROVE PolicyHasSession'
  BY <1>37 DEF StopAsks, ForgetPolicies, Served
<1>38. ASSUME StopSeesEnd PROVE PolicyHasSession'
  BY <1>38 DEF StopSeesEnd
<1>39. ASSUME StopTerminates PROVE PolicyHasSession'
  BY <1>39 DEF StopTerminates, Lost, ForgetPolicies, Served
<1>40. ASSUME StopUnlinks PROVE PolicyHasSession'
  BY <1>40 DEF StopUnlinks
<1>41. CASE UNCHANGED vars
  BY <1>41 DEF vars
<1> QED
  BY <1>1, <1>2, <1>3, <1>4, <1>5, <1>6, <1>7, <1>8, <1>9, <1>10, <1>11,
     <1>12, <1>13, <1>14, <1>15, <1>16, <1>17, <1>18, <1>19, <1>20, <1>21, <1>22,
     <1>23, <1>24, <1>25, <1>26, <1>27, <1>28, <1>29, <1>30, <1>31, <1>32, <1>33,
     <1>34, <1>35, <1>36, <1>37, <1>38, <1>39, <1>40, <1>41
     DEF Next, ProxyStep, CliStep, CliLapse, ConnStep, StopStep

\* Connections end with their shell, and the idle minute ends on an empty table.
LEMMA NextConn ==
  ASSUME ~Tight, TypeOK, ServiceInv, ConnInv, [Next]_vars
  PROVE  ConnInv'
<1> USE DEF TypeOK, ServiceInv, OneRuns, FileNamesRunner, StopAlone, ConnInv,
            ConnInShell, EndOfShell, ClosingIsEmpty, Running, ClosingDown, Quiet,
            Apart, Answers, Become, Goto, serverVars, cliVars, shellVars,
            connVars, stopVars, bounds
<1>1. ASSUME NEW p \in Proxy, Bind(p) PROVE ConnInv'
  BY <1>1 DEF Bind
<1>2. ASSUME NEW p \in Proxy, BindFails(p) PROVE ConnInv'
  BY <1>2 DEF BindFails
<1>3. ASSUME NEW p \in Proxy, WritePid(p) PROVE ConnInv'
  BY <1>3 DEF WritePid
<1>4. ASSUME NEW p \in Proxy, Idle(p) PROVE ConnInv'
  BY <1>4 DEF Idle
<1>5. ASSUME NEW p \in Proxy, Close(p) PROVE ConnInv'
  BY <1>5 DEF Close
<1>6. ASSUME NEW p \in Proxy, RemovePid(p) PROVE ConnInv'
  BY <1>6 DEF RemovePid, DropAll
<1>7. ASSUME NEW p \in Proxy, Crash(p) PROVE ConnInv'
  BY <1>7 DEF Crash, Lost, DropAll
<1>8. ASSUME NEW c \in Cli, BeginStart(c) PROVE ConnInv'
  BY <1>8 DEF BeginStart
<1>9. ASSUME NEW c \in Cli, Probe(c) PROVE ConnInv'
  BY <1>9 DEF Probe, Return
<1>10. ASSUME NEW c \in Cli, ProbeFails(c) PROVE ConnInv'
  BY <1>10 DEF ProbeFails, Turns
<1>11. ASSUME NEW c \in Cli, NEW p \in Proxy, Spawn(c, p) PROVE ConnInv'
  BY <1>11 DEF Spawn
<1>12. ASSUME NEW c \in Cli, Await(c) PROVE ConnInv'
  BY <1>12 DEF Await, Return
<1>13. ASSUME NEW c \in Cli, AwaitFails(c) PROVE ConnInv'
  BY <1>13 DEF AwaitFails, Turns
<1>14. ASSUME NEW c \in Cli, AwaitTimesOut(c) PROVE ConnInv'
  BY <1>14 DEF AwaitTimesOut
<1>15. ASSUME NEW c \in Cli, ReadPort(c) PROVE ConnInv'
  BY <1>15 DEF ReadPort
<1>16. ASSUME NEW c \in Cli, Launch(c) PROVE ConnInv'
  BY <1>16 DEF Launch
<1>17. ASSUME NEW c \in Cli, LaunchFails(c) PROVE ConnInv'
  BY <1>17 DEF LaunchFails, Turns
<1>18. ASSUME NEW c \in Cli, Register(c) PROVE ConnInv'
  BY <1>18 DEF Register
<1>19. ASSUME NEW c \in Cli, RegisterFails(c) PROVE ConnInv'
  BY <1>19 DEF RegisterFails, Turns
<1>20. ASSUME NEW c \in Cli, Record(c) PROVE ConnInv'
  BY <1>20 DEF Record, Turns
<1>21. ASSUME NEW c \in Cli, RecordFails(c) PROVE ConnInv'
  BY <1>21 DEF RecordFails
<1>22. ASSUME NEW c \in Cli, ShellExits(c) PROVE ConnInv'
  BY <1>22 DEF ShellExits, Drop
<1>23. ASSUME NEW c \in Cli, SessionEnds(c) PROVE ConnInv'
  BY <1>23 DEF SessionEnds, Turns
<1>24. ASSUME NEW c \in Cli, SessionAborts(c) PROVE ConnInv'
  BY <1>24 DEF SessionAborts
<1>25. ASSUME NEW c \in Cli, EndSkips(c) PROVE ConnInv'
  BY <1>25 DEF EndSkips
<1>26. ASSUME NEW c \in Cli, StopBegins(c) PROVE ConnInv'
  BY <1>26 DEF StopBegins, Turns
<1>27. ASSUME NEW c \in Cli, Deregister(c) PROVE ConnInv'
  BY <1>27 DEF Deregister, AfterDeregister
<1>28. ASSUME NEW c \in Cli, DeregisterSkips(c) PROVE ConnInv'
  BY <1>28 DEF DeregisterSkips, AfterDeregister
<1>29. ASSUME NEW c \in Cli, DeregisterFails(c) PROVE ConnInv'
  BY <1>29 DEF DeregisterFails, AfterDeregister
<1>30. ASSUME NEW c \in Cli, KillShell(c) PROVE ConnInv'
  BY <1>30 DEF KillShell, Drop
<1>31. ASSUME NEW c \in Cli, KillFails(c) PROVE ConnInv'
  BY <1>31 DEF KillFails
<1>32. ASSUME NEW c \in Cli, Kill(c) PROVE ConnInv'
  BY <1>32 DEF Kill
<1>33. ASSUME NEW c \in Cli, Ask(c) PROVE ConnInv'
  BY <1>33 DEF Ask
<1>34. ASSUME NEW c \in Cli, Decide(c) PROVE ConnInv'
  BY <1>34 DEF Decide
<1>35. ASSUME NEW c \in Cli, Tunnel(c) PROVE ConnInv'
  BY <1>35 DEF Tunnel
<1>36. ASSUME NEW c \in Cli, ConnectionEnds(c) PROVE ConnInv'
  BY <1>36 DEF ConnectionEnds, Drop
<1>37. ASSUME StopAsks PROVE ConnInv'
  BY <1>37 DEF StopAsks
<1>38. ASSUME StopSeesEnd PROVE ConnInv'
  BY <1>38 DEF StopSeesEnd
<1>39. ASSUME StopTerminates PROVE ConnInv'
  BY <1>39 DEF StopTerminates, Lost, DropAll
<1>40. ASSUME StopUnlinks PROVE ConnInv'
  BY <1>40 DEF StopUnlinks
<1>41. CASE UNCHANGED vars
  BY <1>41 DEF vars
<1> QED
  BY <1>1, <1>2, <1>3, <1>4, <1>5, <1>6, <1>7, <1>8, <1>9, <1>10, <1>11,
     <1>12, <1>13, <1>14, <1>15, <1>16, <1>17, <1>18, <1>19, <1>20, <1>21, <1>22,
     <1>23, <1>24, <1>25, <1>26, <1>27, <1>28, <1>29, <1>30, <1>31, <1>32, <1>33,
     <1>34, <1>35, <1>36, <1>37, <1>38, <1>39, <1>40, <1>41
     DEF Next, ProxyStep, CliStep, CliLapse, ConnStep, StopStep

\* A policy leaves the table at the end of its session only.
LEMMA NextTunnel ==
  ASSUME ~Tight, TypeOK, ServiceInv, NewIsEmpty, ConnInv,
         TunnelHasPolicy, [Next]_vars
  PROVE  TunnelHasPolicy'
<1> USE DEF TypeOK, ServiceInv, OneRuns, FileNamesRunner, StopAlone, KeptAttached,
            NewIsEmpty, ConnInv, ConnInShell, EndOfShell, ClosingIsEmpty,
            TunnelHasPolicy, Running, ClosingDown, Quiet, Apart, Answers, Become,
            Goto, serverVars, cliVars, shellVars, connVars, stopVars, bounds
<1>1. ASSUME NEW p \in Proxy, Bind(p) PROVE TunnelHasPolicy'
  BY <1>1 DEF Bind
<1>2. ASSUME NEW p \in Proxy, BindFails(p) PROVE TunnelHasPolicy'
  BY <1>2 DEF BindFails
<1>3. ASSUME NEW p \in Proxy, WritePid(p) PROVE TunnelHasPolicy'
  BY <1>3 DEF WritePid
<1>4. ASSUME NEW p \in Proxy, Idle(p) PROVE TunnelHasPolicy'
  BY <1>4 DEF Idle
<1>5. ASSUME NEW p \in Proxy, Close(p) PROVE TunnelHasPolicy'
  BY <1>5 DEF Close
<1>6. ASSUME NEW p \in Proxy, RemovePid(p) PROVE TunnelHasPolicy'
  BY <1>6 DEF RemovePid, DropAll
<1>7. ASSUME NEW p \in Proxy, Crash(p) PROVE TunnelHasPolicy'
  BY <1>7 DEF Crash, Lost, DropAll
<1>8. ASSUME NEW c \in Cli, BeginStart(c) PROVE TunnelHasPolicy'
  BY <1>8 DEF BeginStart
<1>9. ASSUME NEW c \in Cli, Probe(c) PROVE TunnelHasPolicy'
  BY <1>9 DEF Probe, Return
<1>10. ASSUME NEW c \in Cli, ProbeFails(c) PROVE TunnelHasPolicy'
  BY <1>10 DEF ProbeFails, Turns
<1>11. ASSUME NEW c \in Cli, NEW p \in Proxy, Spawn(c, p) PROVE TunnelHasPolicy'
  BY <1>11 DEF Spawn
<1>12. ASSUME NEW c \in Cli, Await(c) PROVE TunnelHasPolicy'
  BY <1>12 DEF Await, Return
<1>13. ASSUME NEW c \in Cli, AwaitFails(c) PROVE TunnelHasPolicy'
  BY <1>13 DEF AwaitFails, Turns
<1>14. ASSUME NEW c \in Cli, AwaitTimesOut(c) PROVE TunnelHasPolicy'
  BY <1>14 DEF AwaitTimesOut
<1>15. ASSUME NEW c \in Cli, ReadPort(c) PROVE TunnelHasPolicy'
  BY <1>15 DEF ReadPort
<1>16. ASSUME NEW c \in Cli, Launch(c) PROVE TunnelHasPolicy'
  BY <1>16 DEF Launch
<1>17. ASSUME NEW c \in Cli, LaunchFails(c) PROVE TunnelHasPolicy'
  BY <1>17 DEF LaunchFails, Turns
<1>18. ASSUME NEW c \in Cli, Register(c) PROVE TunnelHasPolicy'
  BY <1>18 DEF Register
<1>19. ASSUME NEW c \in Cli, RegisterFails(c) PROVE TunnelHasPolicy'
  BY <1>19 DEF RegisterFails, Turns
<1>20. ASSUME NEW c \in Cli, Record(c) PROVE TunnelHasPolicy'
  BY <1>20 DEF Record, Turns
<1>21. ASSUME NEW c \in Cli, RecordFails(c) PROVE TunnelHasPolicy'
  BY <1>21 DEF RecordFails
<1>22. ASSUME NEW c \in Cli, ShellExits(c) PROVE TunnelHasPolicy'
  BY <1>22 DEF ShellExits, Drop
<1>23. ASSUME NEW c \in Cli, SessionEnds(c) PROVE TunnelHasPolicy'
  BY <1>23 DEF SessionEnds, Turns
<1>24. ASSUME NEW c \in Cli, SessionAborts(c) PROVE TunnelHasPolicy'
  BY <1>24 DEF SessionAborts
<1>25. ASSUME NEW c \in Cli, EndSkips(c) PROVE TunnelHasPolicy'
  BY <1>25 DEF EndSkips
<1>26. ASSUME NEW c \in Cli, StopBegins(c) PROVE TunnelHasPolicy'
  BY <1>26 DEF StopBegins, Turns
<1>27. ASSUME NEW c \in Cli, Deregister(c) PROVE TunnelHasPolicy'
  BY <1>27 DEF Deregister, AfterDeregister
<1>28. ASSUME NEW c \in Cli, DeregisterSkips(c) PROVE TunnelHasPolicy'
  BY <1>28 DEF DeregisterSkips, AfterDeregister
<1>29. ASSUME NEW c \in Cli, DeregisterFails(c) PROVE TunnelHasPolicy'
  BY <1>29 DEF DeregisterFails, AfterDeregister
<1>30. ASSUME NEW c \in Cli, KillShell(c) PROVE TunnelHasPolicy'
  BY <1>30 DEF KillShell, Drop
<1>31. ASSUME NEW c \in Cli, KillFails(c) PROVE TunnelHasPolicy'
  BY <1>31 DEF KillFails
<1>32. ASSUME NEW c \in Cli, Kill(c) PROVE TunnelHasPolicy'
  BY <1>32 DEF Kill
<1>33. ASSUME NEW c \in Cli, Ask(c) PROVE TunnelHasPolicy'
  BY <1>33 DEF Ask
<1>34. ASSUME NEW c \in Cli, Decide(c) PROVE TunnelHasPolicy'
  BY <1>34 DEF Decide
<1>35. ASSUME NEW c \in Cli, Tunnel(c) PROVE TunnelHasPolicy'
  BY <1>35 DEF Tunnel
<1>36. ASSUME NEW c \in Cli, ConnectionEnds(c) PROVE TunnelHasPolicy'
  BY <1>36 DEF ConnectionEnds, Drop
<1>37. ASSUME StopAsks PROVE TunnelHasPolicy'
  BY <1>37 DEF StopAsks
<1>38. ASSUME StopSeesEnd PROVE TunnelHasPolicy'
  BY <1>38 DEF StopSeesEnd
<1>39. ASSUME StopTerminates PROVE TunnelHasPolicy'
  BY <1>39 DEF StopTerminates, Lost, DropAll
<1>40. ASSUME StopUnlinks PROVE TunnelHasPolicy'
  BY <1>40 DEF StopUnlinks
<1>41. CASE UNCHANGED vars
  BY <1>41 DEF vars
<1> QED
  BY <1>1, <1>2, <1>3, <1>4, <1>5, <1>6, <1>7, <1>8, <1>9, <1>10, <1>11,
     <1>12, <1>13, <1>14, <1>15, <1>16, <1>17, <1>18, <1>19, <1>20, <1>21, <1>22,
     <1>23, <1>24, <1>25, <1>26, <1>27, <1>28, <1>29, <1>30, <1>31, <1>32, <1>33,
     <1>34, <1>35, <1>36, <1>37, <1>38, <1>39, <1>40, <1>41
     DEF Next, ProxyStep, CliStep, CliLapse, ConnStep, StopStep

-----------------------------------------------------------------------------
(* The proxies implement one table *)

\* What p adds to the table that the commands see.
Policies(p) == IF state[p] = "serving" THEN table[p] ELSE {}

\* The table is that of whichever proxy serves.
LEMMA ServedIs == \A x : x \in Served <=> \E p \in Proxy : x \in Policies(p)
  BY DEF Served, Policies

\* A step that leaves alone what each proxy adds leaves the table alone.
LEMMA ServedSame ==
  ASSUME \A p \in Proxy : Policies(p)' = Policies(p)
  PROVE  Served' = Served
<1>1. \A x : x \in Served' <=> \E p \in Proxy : x \in Policies(p)'
  BY DEF Served, Policies
<1> QED
  BY <1>1, ServedIs

\* One proxy serves at a time, so the table is its own.
LEMMA ServedOf ==
  ASSUME OneRuns, NEW p \in Proxy, state[p] = "serving"
  PROVE  Served = table[p]
<1>1. \A q \in Proxy : state[q] = "serving" => q = p
  BY DEF OneRuns, Running
<1> QED
  BY <1>1, ServedIs DEF Policies

\* A policy in force that no session has was left behind.
LEMMA UnattachedIsLeft ==
  ASSUME PolicyHasSession, NEW c \in Cli, c \in Served, c \notin Attached
  PROVE  c \in left
<1>1. PICK p \in Proxy : state[p] = "serving" /\ c \in table[p]
  BY DEF Served
<1> QED
  BY <1>1 DEF PolicyHasSession

\* A loss takes the table of the proxy that is lost, all of it or nothing.
LEMMA LossLoses ==
  ASSUME TypeOK, OneRuns, NEW p \in Proxy, Lost(p)
  PROVE  Served' \in {Served, {}}
<1> USE DEF TypeOK, Lost, Become
<1>1. CASE state[p] = "serving"
  <2>1. \A q \in Proxy : Policies(q)' = {}
    BY <1>1 DEF Policies, OneRuns, Running
  <2>2. \A x : x \in Served' <=> \E q \in Proxy : x \in Policies(q)'
    BY DEF Served, Policies
  <2> QED
    BY <2>1, <2>2
<1>2. CASE state[p] # "serving"
  <2>1. \A q \in Proxy : Policies(q)' = Policies(q)
    BY <1>2 DEF Policies
  <2> QED
    BY <2>1, ServedSame
<1> QED
  BY <1>1, <1>2

\* A command that goes without its deregister abandons its policy, if it has one.
LEMMA LeavingAbandons ==
  ASSUME PolicyHasSession, NEW c \in Cli, LeavePolicy(c), Served' = Served,
         Attached' = Attached \ {c}, UNCHANGED crashes
  PROVE  [Abstract!Next]_(Abstract!vars)
<1>1. CASE c \in Attached
  <2>1. left' = left \cup ({c} \cap Served)
    BY DEF LeavePolicy
  <2> QED
    BY <1>1, <2>1 DEF Abstract!Next, Abstract!Abandon
<1>2. CASE c \notin Attached
  <2>1. Attached' = Attached
    BY <1>2
  <2>2. {c} \cap Served \subseteq left
    BY <1>2, UnattachedIsLeft
  <2>3. left' = left
    BY <2>2 DEF LeavePolicy
  <2> QED
    BY <2>1, <2>3 DEF Abstract!vars
<1> QED
  BY <1>1, <1>2

\* Every step of the processes is one of PolicyTable or invisible to it: only
\* the answers to register and deregister, losses, what is left behind and
\* stop_proxy show.
LEMMA NextTable ==
  ASSUME ~Tight, IInv, [Next]_vars
  PROVE  [Abstract!Next]_(Abstract!vars)
<1> DEFINE Quiescent == Attached' = Attached /\ Served' = Served /\ UNCHANGED <<left, crashes>>
<1>0. TypeOK /\ ServiceInv /\ NewIsEmpty /\ OneRuns /\ FileNamesRunner /\ PolicyHasSession
      /\ LeftInForce
  BY DEF IInv, SafeInv, ServiceInv
<1>q. Quiescent => [Abstract!Next]_(Abstract!vars)
  BY DEF Abstract!vars
<1>s. ASSUME UNCHANGED <<state, table>> PROVE Served' = Served
  BY <1>s DEF Served
<1>a. ASSUME UNCHANGED pc PROVE Attached' = Attached
  BY <1>a DEF Attached
<1> USE DEF TypeOK, Become, Goto, serverVars, cliVars, shellVars, connVars, stopVars, bounds
<1>1. ASSUME NEW p \in Proxy, ProxyStep(p) PROVE Quiescent
  <2>1. \A q \in Proxy : Policies(q)' = Policies(q)
    <3>1. CASE Bind(p)
      BY <1>0, <3>1 DEF Bind, Policies
    <3>2. CASE BindFails(p)
      BY <1>0, <3>2 DEF BindFails, Policies
    <3>3. CASE WritePid(p)
      BY <1>0, <3>3 DEF WritePid, Policies, NewIsEmpty
    <3>4. CASE Idle(p)
      BY <1>0, <3>4 DEF Idle, Policies
    <3>5. CASE Close(p)
      BY <1>0, <3>5 DEF Close, Policies
    <3>6. CASE RemovePid(p)
      BY <1>0, <3>6 DEF RemovePid, Policies
    <3> QED
      BY <1>1, <3>1, <3>2, <3>3, <3>4, <3>5, <3>6 DEF ProxyStep
  <2>2. UNCHANGED <<pc, left, crashes>>
    BY <1>1 DEF ProxyStep, Bind, BindFails, WritePid, Idle, Close, RemovePid
  <2> QED
    BY <2>1, <2>2, <1>a, ServedSame
<1>2. ASSUME NEW p \in Proxy, Lost(p) PROVE Abstract!Next
  <2>1. Served' \in {Served, {}}
    BY <1>0, <1>2, LossLoses
  <2>2. crashes' = crashes + 1 /\ left' = left \cap Served' /\ UNCHANGED pc
    BY <1>2 DEF Lost, ForgetPolicies
  <2> QED
    BY <2>1, <2>2, <1>a DEF Abstract!Next, Abstract!Lose
<1>3. ASSUME NEW c \in Cli,
             \/ BeginStart(c) \/ Probe(c) \/ ProbeFails(c) \/ Await(c) \/ AwaitFails(c)
             \/ ReadPort(c) \/ Launch(c) \/ LaunchFails(c) \/ RegisterFails(c) \/ Record(c)
             \/ ShellExits(c) \/ SessionEnds(c) \/ SessionAborts(c) \/ StopBegins(c)
             \/ KillShell(c) \/ KillFails(c)
      PROVE  Quiescent
  <2>1. UNCHANGED <<state, table, left, crashes>>
    BY <1>3 DEF BeginStart, Probe, ProbeFails, Await, AwaitFails, ReadPort, Launch,
       LaunchFails, RegisterFails, Record, ShellExits, SessionEnds, SessionAborts,
       StopBegins, KillShell, KillFails, Turns, Lapse
  <2>2. \A d \in Cli : d \in Attached' <=> d \in Attached
    BY <1>0, <1>3 DEF BeginStart, Probe, ProbeFails, Await, AwaitFails, ReadPort, Launch,
       LaunchFails, RegisterFails, Record, ShellExits, SessionEnds, SessionAborts,
       StopBegins, KillShell, KillFails, Turns, Return, Attached, Probing, Awaiting, First
  <2>3. Attached' = Attached
    BY <2>2 DEF Attached
  <2> QED
    BY <2>1, <2>3, <1>s
<1>4. ASSUME NEW c \in Cli, NEW p \in Proxy, Spawn(c, p) PROVE Quiescent
  <2>1. \A q \in Proxy : Policies(q)' = Policies(q)
    BY <1>0, <1>4 DEF Spawn, Policies
  <2>2. \A d \in Cli : d \in Attached' <=> d \in Attached
    BY <1>0, <1>4 DEF Spawn, Attached, Spawning
  <2>3. Attached' = Attached
    BY <2>2 DEF Attached
  <2> QED
    BY <1>4, <2>1, <2>3, ServedSame DEF Spawn
<1>5. ASSUME NEW c \in Cli, AwaitTimesOut(c) PROVE Abstract!Next
  <2>1. \A d \in Cli : d \in Attached' <=> d \in Attached
    BY <1>0, <1>5 DEF AwaitTimesOut, Attached, Awaiting
  <2>2. Attached' = Attached
    BY <2>1 DEF Attached
  <2>3. Served' = Served /\ crashes' = crashes + 1 /\ UNCHANGED left
    BY <1>5, <1>s DEF AwaitTimesOut
  <2>4. left' = left \cap Served'
    BY <1>0, <2>3 DEF LeftInForce
  <2> QED
    BY <2>2, <2>3, <2>4 DEF Abstract!Next, Abstract!Lose
<1>6. ASSUME NEW c \in Cli, Register(c) PROVE Abstract!Next
  <2> DEFINE p == ctl[c]
  <2>1. p \in Proxy /\ state[p] = "serving"
    BY <1>6, ~Tight DEF Register, Answers
  <2>2. UNCHANGED <<state, crashes>> /\ table' = [table EXCEPT ![p] = @ \cup {c}]
        /\ left' = left \ {c}
    BY <1>6 DEF Register
  <2>3. Served = table[p]
    BY <1>0, <2>1, ServedOf
  <2>4. \A q \in Proxy : Policies(q)' = IF q = p THEN table[p] \cup {c} ELSE {}
    BY <1>0, <2>1, <2>2 DEF Policies, OneRuns, Running
  <2>5. \A x : x \in Served' <=> \E q \in Proxy : x \in Policies(q)'
    BY DEF Served, Policies
  <2>6. Served' = Served \cup {c}
    BY <2>1, <2>3, <2>4, <2>5
  <2>7. c \notin Attached /\ \A d \in Cli : d \in Attached' <=> d \in Attached \cup {c}
    BY <1>0, <1>6 DEF Register, Attached
  <2>8. Attached' = Attached \cup {c}
    BY <2>7 DEF Attached
  <2> QED
    BY <2>2, <2>6, <2>7, <2>8 DEF Abstract!Next, Abstract!Register
<1>7. ASSUME NEW c \in Cli, AfterDeregister(c) PROVE Attached' = Attached \ {c}
  <2>1. \A d \in Cli : d \in Attached' <=> d \in Attached \ {c}
    BY <1>0, <1>7 DEF AfterDeregister, Attached
  <2> QED
    BY <2>1 DEF Attached
<1>8. ASSUME NEW c \in Cli, Deregister(c) PROVE Abstract!Next
  <2>1. file \in Proxy /\ state[file] = "serving"
    BY <1>8, ~Tight DEF Deregister, Answers
  <2>2. UNCHANGED <<state, crashes>> /\ table' = [table EXCEPT ![file] = @ \ {c}]
        /\ left' = left \ {c}
    BY <1>8 DEF Deregister, AfterDeregister
  <2>3. Served = table[file]
    BY <1>0, <2>1, ServedOf
  <2>4. \A q \in Proxy : Policies(q)' = IF q = file THEN table[file] \ {c} ELSE {}
    BY <1>0, <2>1, <2>2 DEF Policies, OneRuns, Running
  <2>5. \A x : x \in Served' <=> \E q \in Proxy : x \in Policies(q)'
    BY DEF Served, Policies
  <2>6. Served' = Served \ {c}
    BY <2>1, <2>3, <2>4, <2>5
  <2>7. Attached' = Attached \ {c}
    BY <1>7, <1>8 DEF Deregister
  <2> QED
    BY <2>2, <2>6, <2>7 DEF Abstract!Next, Abstract!Deregister
<1>9. ASSUME NEW c \in Cli, DeregisterSkips(c) PROVE Abstract!Next
  <2>1. \A p \in Proxy : state[p] # "serving"
    BY <1>0, <1>9, ~Tight DEF DeregisterSkips, Answers, FileNamesRunner
  <2>2. Served = {}
    BY <2>1, ServedIs DEF Policies
  <2>3. Served' = Served /\ UNCHANGED <<left, crashes>>
    BY <1>9, <1>s DEF DeregisterSkips, AfterDeregister
  <2>4. left' = left \ {c}
    BY <1>0, <2>2, <2>3 DEF LeftInForce
  <2>5. Attached' = Attached \ {c}
    BY <1>7, <1>9 DEF DeregisterSkips
  <2> QED
    BY <2>2, <2>3, <2>4, <2>5 DEF Abstract!Next, Abstract!Deregister
<1>10. ASSUME NEW c \in Cli, DeregisterFails(c) PROVE [Abstract!Next]_(Abstract!vars)
  <2>1. Served' = Served /\ UNCHANGED crashes /\ LeavePolicy(c)
    BY <1>10, <1>s DEF DeregisterFails, AfterDeregister, Lapse
  <2>2. Attached' = Attached \ {c}
    BY <1>7, <1>10 DEF DeregisterFails
  <2> QED
    BY <1>0, <2>1, <2>2, LeavingAbandons
<1>11. ASSUME NEW c \in Cli, Kill(c) \/ RecordFails(c) \/ EndSkips(c)
       PROVE  [Abstract!Next]_(Abstract!vars)
  <2>1. Served' = Served /\ UNCHANGED crashes /\ LeavePolicy(c)
    BY <1>11, <1>s DEF Kill, RecordFails, EndSkips, Lapse
  <2>2. pc' = [pc EXCEPT ![c] = "idle"]
    BY <1>11 DEF Kill, RecordFails, EndSkips
  <2>3. \A d \in Cli : d \in Attached' <=> d \in Attached \ {c}
    BY <1>0, <2>2 DEF Attached
  <2>4. Attached' = Attached \ {c}
    BY <2>3 DEF Attached
  <2> QED
    BY <1>0, <2>1, <2>4, LeavingAbandons
<1>12. ASSUME NEW c \in Cli, ConnStep(c) PROVE Quiescent
  <2>1. UNCHANGED <<state, table, pc, left, crashes>>
    BY <1>12 DEF ConnStep, Ask, Decide, Tunnel, ConnectionEnds
  <2> QED
    BY <2>1, <1>s, <1>a
<1>13. ASSUME StopAsks PROVE [Abstract!Next]_(Abstract!vars)
  <2>1. Quiet /\ left' = left \cap Served' /\ UNCHANGED <<pc, table, crashes>>
    BY <1>13, ~Tight DEF StopAsks, Apart, ForgetPolicies
  <2>2. Attached = {} /\ Attached' = Attached
    BY <2>1, <1>a DEF Quiet, Attached
  <2>3. CASE Answers(file)
    <3>1. file \in Proxy /\ state' = [state EXCEPT ![file] = "shutting"]
      BY <1>13, <2>3 DEF StopAsks, Answers
    <3>2. \A q \in Proxy : state'[q] # "serving"
      BY <1>0, <3>1 DEF FileNamesRunner
    <3>3. Served' = {}
      BY <3>2 DEF Served
    <3>4. left' = {}
      BY <2>1, <3>3
    <3> QED
      BY <2>1, <2>2, <3>3, <3>4 DEF Abstract!Next, Abstract!Withdraw
  <2>4. CASE ~Answers(file)
    <3>1. UNCHANGED state
      BY <1>0, <1>13, <2>4 DEF StopAsks
    <3>2. Served' = Served
      BY <2>1, <3>1, <1>s
    <3>3. left' = left
      BY <1>0, <2>1, <3>2 DEF LeftInForce
    <3> QED
      BY <2>1, <2>2, <3>2, <3>3, <1>q
  <2> QED
    BY <2>3, <2>4
<1>14. ASSUME StopStep PROVE Quiescent
  <2>1. UNCHANGED <<state, table, pc, left, crashes>>
    BY <1>14 DEF StopStep, StopSeesEnd, StopUnlinks
  <2> QED
    BY <2>1, <1>s, <1>a
<1>15. ASSUME StopTerminates PROVE Abstract!Next
  BY <1>0, <1>2, <1>15 DEF StopTerminates
<1>16. CASE UNCHANGED vars
  <2>1. UNCHANGED <<state, table, pc, left, crashes>>
    BY <1>16 DEF vars
  <2> QED
    BY <2>1, <1>s, <1>a, <1>q
<1> HIDE DEF Quiescent
<1> QED
  BY <1>q, <1>1, <1>2, <1>3, <1>4, <1>5, <1>6, <1>8, <1>9, <1>10, <1>11, <1>12, <1>13,
     <1>14, <1>15, <1>16
     DEF Next, CliStep, CliLapse, Crash

\* So what was left behind stays in force, or is forgotten with its table.
LEMMA NextLeft == ASSUME LeftInForce, [Abstract!Next]_(Abstract!vars) PROVE LeftInForce'
<1> USE DEF LeftInForce
<1>1. ASSUME NEW c \in Cli, Abstract!Register(c) PROVE LeftInForce'
  BY <1>1 DEF Abstract!Register
<1>2. ASSUME NEW c \in Cli, Abstract!Deregister(c) PROVE LeftInForce'
  BY <1>2 DEF Abstract!Deregister
<1>3. ASSUME NEW c \in Cli, Abstract!Abandon(c) PROVE LeftInForce'
  BY <1>3 DEF Abstract!Abandon
<1>4. CASE Abstract!Lose
  BY <1>4 DEF Abstract!Lose
<1>5. CASE Abstract!Withdraw
  BY <1>5 DEF Abstract!Withdraw
<1>6. CASE UNCHANGED Abstract!vars
  BY <1>6 DEF Abstract!vars
<1> QED
  BY <1>1, <1>2, <1>3, <1>4, <1>5, <1>6 DEF Abstract!Next

-----------------------------------------------------------------------------
(* The theorems *)

\* The variables keep their types, whatever the timing.
THEOREM TypeCorrect == Spec => []TypeOK
<1>1. Init => TypeOK
  BY InitInv DEF IInv, SafeInv
<1>2. TypeOK /\ [Next]_vars => TypeOK'
  BY NextType
<1> QED
  BY <1>1, <1>2, PTL DEF Spec

\* The invariant the other theorems rest on.
LEMMA Inductive == ASSUME ~Tight PROVE Spec => []IInv
<1>1. Init => IInv
  BY InitInv
<1>2. IInv /\ [Next]_vars => IInv'
  <2> SUFFICES ASSUME IInv, [Next]_vars PROVE IInv'
    OBVIOUS
  <2>1. SafeInv'
    BY ~Tight, NextType, NextService, NextNewIsEmpty, NextPort, NextAwaited, NextPolicy,
       NextConn, NextTunnel
       DEF IInv, SafeInv
  <2>2. LeftInForce'
    BY ~Tight, NextTable, NextLeft DEF IInv
  <2> QED
    BY <2>1, <2>2 DEF IInv
<1> QED
  BY <1>1, <1>2, PTL DEF Spec

\* The PID file names every proxy that serves.
THEOREM ServerIsNamed == ASSUME ~Tight PROVE Spec => []FileNamesServer
<1>1. IInv => FileNamesServer
  BY DEF IInv, SafeInv, ServiceInv, FileNamesRunner, FileNamesServer
<1> QED
  BY <1>1, Inductive, PTL

\* A start command waits for a proxy that answers or is about to.
THEOREM WaitersAreServed == ASSUME ~Tight PROVE Spec => []AwaitedComes
<1>1. IInv => AwaitedComes
  BY DEF IInv, SafeInv
<1> QED
  BY <1>1, Inductive, PTL

\* A session keeps its proxy and its policy, unless that proxy is lost.
THEOREM SessionsAreServed == ASSUME ~Tight PROVE Spec => []SessionServed
<1>1. IInv => SessionServed
  BY DEF IInv, SafeInv, ServiceInv, KeptAttached, SessionServed
<1> QED
  BY <1>1, Inductive, PTL

\* Every shell is told the proxy's port.
THEOREM ShellsKnowProxy == ASSUME ~Tight PROVE Spec => []ShellKnowsProxy
<1>1. IInv => ShellKnowsProxy
  BY DEF IInv, SafeInv, PortInv, PortRead, ShellKnowsProxy
<1> QED
  BY <1>1, Inductive, PTL

\* No policy outlives its session but those that were left behind, by a command
\* that was killed or failed, a session_ended that gave up or a deregister that
\* failed (engine.py:143-147, 185-196).
THEOREM PoliciesHaveSessions == ASSUME ~Tight PROVE Spec => []PolicyHasSession
<1>1. IInv => PolicyHasSession
  BY DEF IInv, SafeInv
<1> QED
  BY <1>1, Inductive, PTL

\* Whoever is let through has a policy, until stop ends it or its shell is left
\* to itself (cli.py:263-268, engine.py:168-171).
THEOREM TunnelsHavePolicies == ASSUME ~Tight PROVE Spec => []TunnelHasPolicy
<1>1. IInv => TunnelHasPolicy
  BY DEF IInv, SafeInv
<1> QED
  BY <1>1, Inductive, PTL

\* The processes implement the one table of PolicyTable.
THEOREM Refinement == ASSUME ~Tight PROVE Spec => ImplementsPolicyTable
<1>1. Init => Abstract!Init
  BY DEF Init, Abstract!Init, Attached, Served
<1>2. IInv /\ [Next]_vars => [Abstract!Next]_(Abstract!vars)
  BY ~Tight, NextTable
<1> QED
  BY <1>1, <1>2, Inductive, PTL DEF Spec, ImplementsPolicyTable, Abstract!Spec

\* What Lifecycle takes for granted: the policies in force are those of the
\* sessions and those that were left behind, short of losses
\* (engine.py:140-141, 193-196).
THEOREM TableIsThatOfSessions == ASSUME ~Tight PROVE Spec => []Abstract!Exact
<1> DEFINE Counted == crashes \in Nat /\ Abstract!Exact
<1>1. Abstract!Init => Counted
  BY DEF Abstract!Init, Abstract!Exact
<1>2. Counted /\ [Abstract!Next]_(Abstract!vars) => Counted'
  <2> SUFFICES ASSUME Counted, [Abstract!Next]_(Abstract!vars) PROVE Counted'
    OBVIOUS
  <2> USE DEF Abstract!Exact
  <2>1. ASSUME NEW c \in Cli, Abstract!Register(c) PROVE Counted'
    BY <2>1 DEF Abstract!Register
  <2>2. ASSUME NEW c \in Cli, Abstract!Deregister(c) PROVE Counted'
    BY <2>2 DEF Abstract!Deregister
  <2>3. ASSUME NEW c \in Cli, Abstract!Abandon(c) PROVE Counted'
    BY <2>3 DEF Abstract!Abandon
  <2>4. CASE Abstract!Lose
    BY <2>4 DEF Abstract!Lose
  <2>5. CASE Abstract!Withdraw
    BY <2>5 DEF Abstract!Withdraw
  <2>6. CASE UNCHANGED Abstract!vars
    BY <2>6 DEF Abstract!vars
  <2> QED
    BY <2>1, <2>2, <2>3, <2>4, <2>5, <2>6 DEF Abstract!Next
<1> QED
  BY <1>1, <1>2, Refinement, PTL DEF ImplementsPolicyTable, Abstract!Spec
=============================================================================
