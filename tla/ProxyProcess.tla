---------------------------- MODULE ProxyProcess ----------------------------
(***************************************************************************)
(* How sbx commands share one proxy (sbx/network.py, the ProxyServer class *)
(* of sbx/proxy.py, the start and stop paths of sbx/engine.py).            *)
(*                                                                         *)
(* Nobody owns the proxy.  A start command that finds none through the PID *)
(* file launches one and polls the file; a proxy that has had no sandboxes *)
(* in its table for a minute shuts itself down.  All that keeps two of     *)
(* them apart is the fixed port, and all that leads to one is the file.    *)
(*                                                                         *)
(* A process of Proxy is one python process; its control socket's port and *)
(* secret are its own, so a command that knows the process reaches it or   *)
(* nobody.  Each c \in Cli is the successive commands of one sandbox whose *)
(* preset is not "none", with its own Job Object name in the table: a      *)
(* start, a stop that falls into its session or follows it, a start ...    *)
(* (Lifecycle lets the commands of one sandbox overlap.)  Its shell is a   *)
(* process of its own, which a command may leave running.                  *)
(***************************************************************************)
EXTENDS Naturals

CONSTANTS Cli,        \* sandboxes, each with its commands
          Proxy,      \* proxy processes, those not launched yet included
          NoProxy,    \* no process
          Tight,      \* FALSE: the timing described at Apart is assumed
          MaxCrashes, \* how many proxies may be lost, or commands time out
          MaxKills,   \* how many start commands may be killed
          MaxLapses   \* how many steps of the sessions' bookkeeping may be missed

ASSUME NoProxyIsNoProxy == NoProxy \notin Proxy
ASSUME TightIsBoolean == Tight \in BOOLEAN
ASSUME MaxCrashesIsNat == MaxCrashes \in Nat
ASSUME MaxKillsIsNat == MaxKills \in Nat
ASSUME MaxLapsesIsNat == MaxLapses \in Nat

VARIABLES
    state,    \* where each proxy process stands in ProxyServer.run
    table,    \* its policies: the sandboxes registered with it
    file,     \* the proxy that the PID file names, NoProxy without a file
    pc,       \* where each start command stands
    ctl,      \* the proxy its ProxyControl talks to
    port,     \* whether the shell is given HTTPS_PROXY
    unlucky,  \* whether a proxy was lost since the command began (history)
    shell,    \* whether each sandbox's shell runs
    conn,     \* a connection of the sandbox's processes to a proxy
    via,      \* the proxy that handles it
    un,       \* where stop_proxy stands, "idle" outside a call
    target,   \* the process stop_proxy waits for
    left,     \* the sandboxes whose policy was left behind (history)
    crashes,  \* proxies lost and waits timed out so far
    kills,    \* start commands killed so far
    lapses    \* steps of the bookkeeping missed so far

serverVars == <<state, table, file>>
cliVars == <<pc, ctl, port, unlucky>>
connVars == <<conn, via>>
shellVars == <<shell, connVars>>
stopVars == <<un, target>>
bounds == <<crashes, kills, lapses>>
vars == <<serverVars, cliVars, shellVars, stopVars, left, bounds>>

States == {"unborn", "spawned", "bound", "serving", "shutting", "closed",
           "gone", "crashed"}
HasPort == {"bound", "serving", "shutting"}
Alive == {"spawned", "closed"} \cup HasPort

\* ensure_proxy_running is called twice: by Engine.start (engine.py:125)
\* and by register_sandbox (network.py:144).
First == {"probe1", "spawn1", "await1"}
Second == {"probe2", "spawn2", "await2"}
Probing == {"probe1", "probe2"}
Spawning == {"spawn1", "spawn2"}
Awaiting == {"await1", "await2"}
Leaving == {"deregister", "stop", "clear", "kill"}
Talking == First \cup Second \cup {"port", "register", "record"} \cup Leaving
PCs == {"idle", "launch", "session"} \cup Talking

TypeOK ==
    /\ state \in [Proxy -> States]
    /\ table \in [Proxy -> SUBSET Cli]
    /\ file \in Proxy \cup {NoProxy}
    /\ pc \in [Cli -> PCs]
    /\ ctl \in [Cli -> Proxy \cup {NoProxy}]
    /\ port \in [Cli -> BOOLEAN]
    /\ unlucky \in [Cli -> BOOLEAN]
    /\ conn \in [Cli -> {"none", "asked", "allowed", "tunnel"}]
    /\ via \in [Cli -> Proxy \cup {NoProxy}]
    /\ \A c \in Cli : conn[c] = "none" <=> via[c] = NoProxy
    /\ shell \in [Cli -> {"none", "up", "loose"}]
    /\ left \in SUBSET Cli
    /\ un \in {"idle", "wait", "unlink"}
    /\ IF un = "idle" THEN target = NoProxy ELSE target \in Proxy
    /\ crashes \in 0..MaxCrashes
    /\ kills \in 0..MaxKills
    /\ lapses \in 0..MaxLapses

Init ==
    /\ state = [p \in Proxy |-> "unborn"]
    /\ table = [p \in Proxy |-> {}]
    /\ file = NoProxy
    /\ pc = [c \in Cli |-> "idle"]
    /\ ctl = [c \in Cli |-> NoProxy]
    /\ port = [c \in Cli |-> FALSE]
    /\ unlucky = [c \in Cli |-> FALSE]
    /\ conn = [c \in Cli |-> "none"]
    /\ via = [c \in Cli |-> NoProxy]
    /\ un = "idle"
    /\ target = NoProxy
    /\ shell = [c \in Cli |-> "none"]
    /\ left = {}
    /\ crashes = 0
    /\ kills = 0
    /\ lapses = 0

-----------------------------------------------------------------------------
(* What the steps have in common. *)

Become(p, s) == state' = [state EXCEPT ![p] = s]
Goto(c, label) == pc' = [pc EXCEPT ![c] = label]

\* The connection is closed by either side.
Drop(c) ==
    /\ conn' = [conn EXCEPT ![c] = "none"]
    /\ via' = [via EXCEPT ![c] = NoProxy]

\* All connections of p are: asyncio.run cancels their handlers.
DropAll(p) ==
    /\ conn' = [c \in Cli |-> IF via[c] = p THEN "none" ELSE conn[c]]
    /\ via' = [c \in Cli |-> IF via[c] = p THEN NoProxy ELSE via[c]]

\* The policies in force.
Served == UNION {table[p] : p \in {q \in Proxy : state[q] = "serving"}}

\* c's policy, if it is in force, has nobody left who is to remove it ...
LeavePolicy(c) == left' = left \cup ({c} \cap Served)

\* ... and is forgotten with the table it is in.
ForgetPolicies == left' = left \cap Served'

\* One step of c's session or its stop is missed.
Lapse == lapses < MaxLapses /\ lapses' = lapses + 1 /\ UNCHANGED <<crashes, kills>>

(***************************************************************************)
(* Without Tight, what is minutes or a python start-up apart does not      *)
(* coincide with what takes a few calls:                                   *)
(*  - the idle minute does not end while a command exchanges messages with *)
(*    proxies (it may while its runner is being launched, which is long);  *)
(*  - a proxy launched meanwhile does not reach its port before one that   *)
(*    is shutting down has closed its own and removed the PID file;        *)
(*  - a proxy that is shutting down answers no more requests;              *)
(*  - the user runs uninstall by itself, with no shell left running.       *)
(***************************************************************************)
Apart(condition) == Tight \/ condition

Quiet == \A c \in Cli : pc[c] = "idle"

\* A request on p's control port is answered: the event loop still runs and
\* _shutdown_event, if it is set, has not got its turn yet (proxy.py:292-294).
Answers(p) ==
    /\ p \in Proxy
    /\ \/ state[p] = "serving"
       \/ Tight /\ state[p] = "shutting"

-----------------------------------------------------------------------------
(* The proxy process (ProxyServer.run) *)

\* start_server on the fixed port (274-282).  Windows lets one process have
\* it: asyncio does not ask for SO_REUSEADDR there.
Bind(p) ==
    /\ state[p] = "spawned"
    /\ Apart(\A q \in Proxy : state[q] \notin {"shutting", "closed"})
    /\ \A q \in Proxy : state[q] \notin HasPort
    /\ Become(p, "bound")
    /\ UNCHANGED <<table, file, cliVars, shellVars, stopVars, left, bounds>>

\* It raises OSError, which nobody catches: the process ends.
BindFails(p) ==
    /\ state[p] = "spawned"
    /\ Apart(\A q \in Proxy : state[q] \notin {"shutting", "closed"})
    /\ \E q \in Proxy : state[q] \in HasPort
    /\ Become(p, "gone")
    /\ UNCHANGED <<table, file, cliVars, shellVars, stopVars, left, bounds>>

\* Mutant: a PID file that is there already is left as it is.
WritePidOnce(p) ==
    /\ state[p] = "bound"
    /\ file' = IF file = NoProxy THEN p ELSE file
    /\ Become(p, "serving")
    /\ UNCHANGED <<table, cliVars, shellVars, stopVars, left, bounds>>

\* _write_pid_file and _reset_idle (290-291); control requests that came
\* earlier wait in the socket's backlog.
WritePid(p) ==
    /\ state[p] = "bound"
    /\ file' = p
    /\ Become(p, "serving")
    /\ UNCHANGED <<table, cliVars, shellVars, stopVars, left, bounds>>

\* Mutant: the watchdog does not look at the table.
IdleRegardless(p) ==
    /\ state[p] = "serving"
    /\ Apart(\A c \in Cli : pc[c] \notin Talking)
    /\ Become(p, "shutting")
    /\ UNCHANGED <<table, file, cliVars, shellVars, stopVars, left, bounds>>

\* _idle_watchdog after IDLE_TIMEOUT with an empty table (266-272).  Nothing
\* but register and deregister puts the minute back: a ping does not, nor does
\* a connection.
Idle(p) ==
    /\ state[p] = "serving"
    /\ table[p] = {}
    /\ Apart(\A c \in Cli : pc[c] \notin Talking)
    /\ Become(p, "shutting")
    /\ UNCHANGED <<table, file, cliVars, shellVars, stopVars, left, bounds>>

\* Both servers are closed (293-294).
Close(p) ==
    /\ state[p] = "shutting"
    /\ Become(p, "closed")
    /\ UNCHANGED <<table, file, cliVars, shellVars, stopVars, left, bounds>>

\* _remove_pid_file (295) removes the file whoever wrote it; the process ends.
RemovePid(p) ==
    /\ state[p] = "closed"
    /\ file' = NoProxy
    /\ table' = [table EXCEPT ![p] = {}]
    /\ DropAll(p)
    /\ Become(p, "gone")
    /\ UNCHANGED <<cliVars, shell, stopVars, left, bounds>>

\* The process is lost; its table is gone and the PID file stays.
Lost(p) ==
    /\ crashes < MaxCrashes
    /\ crashes' = crashes + 1
    /\ table' = [table EXCEPT ![p] = {}]
    /\ unlucky' = [c \in Cli |-> unlucky[c] \/ pc[c] # "idle"]
    /\ DropAll(p)
    /\ Become(p, "crashed")
    /\ ForgetPolicies
    /\ UNCHANGED <<file, pc, ctl, port, shell, kills, lapses>>

Crash(p) == state[p] \in Alive /\ Lost(p) /\ UNCHANGED stopVars

ProxyStep(p) ==
    Bind(p) \/ BindFails(p) \/ WritePid(p) \/ Idle(p) \/ Close(p) \/ RemovePid(p)

-----------------------------------------------------------------------------
(* A start command and its session *)

\* Engine.start with a preset other than none (engine.py:122-125)
BeginStart(c) ==
    /\ pc[c] = "idle"
    /\ Apart(un = "idle")
    /\ Goto(c, "probe1")
    /\ ctl' = [ctl EXCEPT ![c] = NoProxy]
    /\ port' = [port EXCEPT ![c] = FALSE]
    /\ unlucky' = [unlucky EXCEPT ![c] = FALSE]
    /\ UNCHANGED <<serverVars, shellVars, stopVars, left, bounds>>

\* ensure_proxy_running returns a ProxyControl for p.
Return(c, p) ==
    /\ ctl' = [ctl EXCEPT ![c] = p]
    /\ Goto(c, IF pc[c] \in First THEN "port" ELSE "register")

\* The proxy of the PID file is alive and answers the ping (94-104).
Probe(c) ==
    /\ pc[c] \in Probing
    /\ Answers(file)
    /\ Return(c, file)
    /\ UNCHANGED <<serverVars, port, unlucky, shellVars, stopVars, left, bounds>>

\* Only pc changes.
Turns(c, label) ==
    /\ Goto(c, label)
    /\ UNCHANGED <<serverVars, ctl, port, unlucky, shellVars, stopVars, left, bounds>>

\* Mutant: a proxy is launched only when there is no PID file; a stale one is
\* polled for a proxy that never comes.
ProbeTrustsFile(c) ==
    /\ pc[c] \in Probing
    /\ ~Answers(file)
    /\ Turns(c, CASE pc[c] = "probe1" -> IF file = NoProxy THEN "spawn1" ELSE "await1"
                  [] OTHER -> IF file = NoProxy THEN "spawn2" ELSE "await2")

\* No file, a dead process, a refused connection: "stale PID file" (107).
ProbeFails(c) ==
    /\ pc[c] \in Probing
    /\ ~Answers(file)
    /\ Turns(c, IF pc[c] = "probe1" THEN "spawn1" ELSE "spawn2")

\* Popen of `python -m sbx _proxy` (112-121)
Spawn(c, p) ==
    /\ pc[c] \in Spawning
    /\ state[p] = "unborn"
    /\ Become(p, "spawned")
    /\ Goto(c, IF pc[c] = "spawn1" THEN "await1" ELSE "await2")
    /\ UNCHANGED <<table, file, ctl, port, unlucky, shellVars, stopVars, left, bounds>>

\* One of 50 polls finds a proxy that answers, the one launched or another's
\* (125-135).
Await(c) ==
    /\ pc[c] \in Awaiting
    /\ Answers(file)
    /\ Return(c, file)
    /\ UNCHANGED <<serverVars, port, unlucky, shellVars, stopVars, left, bounds>>

\* All 50 polls fail: nothing answers, and nothing is on its way to.
AwaitFails(c) ==
    /\ pc[c] \in Awaiting
    /\ ~Answers(file)
    /\ \A p \in Proxy : state[p] \notin {"spawned", "bound"}
    /\ Turns(c, "idle")

\* A proxy takes longer than five seconds to come up (137).
AwaitTimesOut(c) ==
    /\ pc[c] \in Awaiting
    /\ crashes < MaxCrashes
    /\ crashes' = crashes + 1
    /\ Goto(c, "idle")
    /\ UNCHANGED <<serverVars, ctl, port, unlucky, shellVars, stopVars, left, kills, lapses>>

\* Mutant: what the file holds is passed on, not the port in it.
ReadPortRaw(c) ==
    /\ pc[c] = "port"
    /\ port' = [port EXCEPT ![c] = file]
    /\ Goto(c, "launch")
    /\ UNCHANGED <<serverVars, ctl, unlucky, shellVars, stopVars, left, bounds>>

\* read_pid_file once more, for the port the shell is told (engine.py:126-129)
ReadPort(c) ==
    /\ pc[c] = "port"
    /\ port' = [port EXCEPT ![c] = (file # NoProxy)]
    /\ Goto(c, "launch")
    /\ UNCHANGED <<serverVars, ctl, unlucky, shellVars, stopVars, left, bounds>>

\* start_sandbox (engine.py:131-138): its runner gets the Job Object only if no
\* shell of the sandbox runs.  register_sandbox is next, which looks for a
\* proxy again: the first may have gone meanwhile.
Launch(c) ==
    /\ pc[c] = "launch"
    /\ shell[c] = "none"
    /\ shell' = [shell EXCEPT ![c] = "up"]
    /\ Goto(c, "probe2")
    /\ UNCHANGED <<serverVars, ctl, port, unlucky, connVars, stopVars, left, bounds>>

LaunchFails(c) == pc[c] = "launch" /\ Turns(c, "idle")

\* ctl.register (network.py:145, proxy.py:233-239)
Register(c) ==
    /\ pc[c] = "register"
    /\ Answers(ctl[c])
    /\ table' = [table EXCEPT ![ctl[c]] = @ \cup {c}]
    /\ left' = left \ {c}
    /\ Goto(c, "record")
    /\ UNCHANGED <<state, file, ctl, port, unlucky, shellVars, stopVars, bounds>>

\* The connection is refused or dropped: start fails.
RegisterFails(c) ==
    /\ pc[c] = "register"
    /\ ~Answers(ctl[c])
    /\ Turns(c, "idle")

\* store.update and the session (engine.py:143-150)
Record(c) == pc[c] = "record" /\ Turns(c, "session")

\* The update raises, or the answer to register was lost: start fails, and
\* nobody takes the policy back.
RecordFails(c) ==
    /\ pc[c] = "record"
    /\ Lapse
    /\ LeavePolicy(c)
    /\ Goto(c, "idle")
    /\ UNCHANGED <<serverVars, ctl, port, unlucky, shellVars, stopVars>>

\* The shell exits by itself or, when its command is gone, because the runner
\* ends it (AbandonedRunnerEnds of Lifecycle); what it ran goes with it.
ShellExits(c) ==
    /\ shell[c] # "none"
    /\ shell' = [shell EXCEPT ![c] = "none"]
    /\ Drop(c)
    /\ UNCHANGED <<serverVars, cliVars, stopVars, left, bounds>>

\* Mutant: the end of a session is not told to the proxy.
SessionJustEnds(c) ==
    /\ pc[c] = "session"
    /\ shell[c] = "none"
    /\ Turns(c, "idle")

\* The shell has exited: session_ended (cli.py:263-268).
SessionEnds(c) ==
    /\ pc[c] = "session"
    /\ shell[c] = "none"
    /\ Turns(c, "deregister")

\* Copying the output raises (cli.py:111, 177): the finally clause runs
\* session_ended although the shell has not exited.
SessionAborts(c) ==
    /\ pc[c] = "session"
    /\ shell[c] = "up"
    /\ Lapse
    /\ shell' = [shell EXCEPT ![c] = "loose"]
    /\ Goto(c, "deregister")
    /\ UNCHANGED <<serverVars, ctl, port, unlucky, connVars, stopVars, left>>

\* session_ended finds no record that says running: the store is unreadable
\* for a moment, or the record was removed (engine.py:185-190).
EndSkips(c) ==
    /\ pc[c] = "deregister"
    /\ Lapse
    /\ LeavePolicy(c)
    /\ Goto(c, "idle")
    /\ UNCHANGED <<serverVars, ctl, port, unlucky, shellVars, stopVars>>

\* Engine.stop, from another command or from destroy, while the session goes on
\* or when none does.
StopBegins(c) ==
    \/ pc[c] = "session" /\ Turns(c, "stop")
    \/ pc[c] = "idle" /\ Apart(un = "idle") /\ Turns(c, "clear")

\* What follows the call of deregister_sandbox: stop_sandbox, or nothing.
AfterDeregister(c) ==
    /\ pc[c] \in {"deregister", "stop", "clear"}
    /\ Goto(c, IF pc[c] = "deregister" THEN "idle" ELSE "kill")
    /\ UNCHANGED <<state, file, ctl, port, unlucky, shellVars, stopVars>>

\* Mutant: the table is searched for another name, and nothing found.
DeregisterMisses(c) ==
    /\ AfterDeregister(c)
    /\ Answers(file)
    /\ UNCHANGED <<table, left, bounds>>

\* deregister_sandbox at the proxy that the PID file names now (149-158)
Deregister(c) ==
    /\ AfterDeregister(c)
    /\ Answers(file)
    /\ table' = [table EXCEPT ![file] = @ \ {c}]
    /\ left' = left \ {c}
    /\ UNCHANGED bounds

\* No PID file: it returns.  No answer: it logs a warning and returns.
DeregisterSkips(c) ==
    /\ AfterDeregister(c)
    /\ ~Answers(file)
    /\ UNCHANGED <<table, left, bounds>>

\* Reading the file or the exchange fails although the proxy is there: both
\* callers swallow what deregister_sandbox raises (engine.py:163-166, 193-196).
DeregisterFails(c) ==
    /\ AfterDeregister(c)
    /\ Answers(file)
    /\ Lapse
    /\ LeavePolicy(c)
    /\ UNCHANGED table

\* stop_sandbox terminates the Job Object, if there is one (engine.py:168-169).
KillShell(c) ==
    /\ pc[c] = "kill"
    /\ shell' = [shell EXCEPT ![c] = "none"]
    /\ Drop(c)
    /\ Goto(c, "idle")
    /\ UNCHANGED <<serverVars, ctl, port, unlucky, stopVars, left, bounds>>

\* It fails, which is only logged (engine.py:170-171): the shell runs on.
KillFails(c) ==
    /\ pc[c] = "kill"
    /\ shell[c] # "none"
    /\ Lapse
    /\ shell' = [shell EXCEPT ![c] = "loose"]
    /\ Goto(c, "idle")
    /\ UNCHANGED <<serverVars, ctl, port, unlucky, connVars, stopVars, left>>

\* The terminal is closed: the start command is lost, and what it would have
\* done.  A stop that goes on meanwhile takes no notice.
Kill(c) ==
    /\ pc[c] \notin {"idle", "stop", "clear", "kill"}
    /\ kills < MaxKills
    /\ kills' = kills + 1
    /\ LeavePolicy(c)
    /\ Goto(c, "idle")
    /\ UNCHANGED <<serverVars, ctl, port, unlucky, shellVars, stopVars, crashes, lapses>>

CliStep(c) ==
    \/ Probe(c) \/ ProbeFails(c) \/ (\E p \in Proxy : Spawn(c, p))
    \/ Await(c) \/ AwaitFails(c) \/ ReadPort(c) \/ Launch(c) \/ LaunchFails(c)
    \/ Register(c) \/ RegisterFails(c) \/ Record(c)
    \/ Deregister(c) \/ DeregisterSkips(c) \/ KillShell(c)

\* What goes wrong around a session.
CliLapse(c) ==
    RecordFails(c) \/ SessionAborts(c) \/ EndSkips(c) \/ DeregisterFails(c) \/ KillFails(c)

-----------------------------------------------------------------------------
(* A connection of a process in the sandbox (_handle_proxy, 161-222) *)

\* Whoever has the port accepts, whether or not the shell was told it.
Ask(c) ==
    /\ shell[c] # "none"
    /\ conn[c] = "none"
    /\ \E p \in Proxy :
          /\ state[p] \in HasPort
          /\ conn' = [conn EXCEPT ![c] = "asked"]
          /\ via' = [via EXCEPT ![c] = p]
    /\ UNCHANGED <<serverVars, cliVars, shell, stopVars, left, bounds>>

\* Mutant: any policy in the table will do.
DecideOnAnyPolicy(c) ==
    /\ conn[c] = "asked"
    /\ state[via[c]] \in HasPort
    /\ table[via[c]] # {}
    /\ conn' = [conn EXCEPT ![c] = "allowed"]
    /\ UNCHANGED <<serverVars, cliVars, shell, via, stopVars, left, bounds>>

\* The process that has the socket is in a Job Object of the table, and its
\* policy admits the host (187-200).  The proxy then waits for the host.
Decide(c) ==
    /\ conn[c] = "asked"
    /\ state[via[c]] \in HasPort
    /\ c \in table[via[c]]
    /\ conn' = [conn EXCEPT ![c] = "allowed"]
    /\ UNCHANGED <<serverVars, cliVars, shell, via, stopVars, left, bounds>>

\* The host has answered (202-214): nobody looks at the table again.
Tunnel(c) ==
    /\ conn[c] = "allowed"
    /\ conn' = [conn EXCEPT ![c] = "tunnel"]
    /\ UNCHANGED <<serverVars, cliVars, shell, via, stopVars, left, bounds>>

\* A bad request, no policy or another host (400, 403), a host that does not
\* answer (502), the end of either stream (216-222).
ConnectionEnds(c) ==
    /\ conn[c] # "none"
    /\ Drop(c)
    /\ UNCHANGED <<serverVars, cliVars, shell, stopVars, left, bounds>>

ConnStep(c) == Ask(c) \/ Decide(c) \/ Tunnel(c) \/ ConnectionEnds(c)

-----------------------------------------------------------------------------
(* stop_proxy, called by uninstall after it has destroyed all sandboxes *)

\* The process of the PID file is asked to stop (167-172); a request that
\* does not get through is dropped by ProxyControl.stop.
StopAsks ==
    /\ un = "idle"
    /\ Apart(Quiet /\ \A c \in Cli : shell[c] = "none")
    /\ Apart(\A p \in Proxy : state[p] \notin {"spawned", "bound"})
    /\ file # NoProxy
    /\ target' = file
    /\ un' = IF state[file] \in Alive THEN "wait" ELSE "unlink"
    /\ state' = [state EXCEPT ![file] = IF Answers(file) THEN "shutting" ELSE @]
    /\ UNCHANGED table
    /\ ForgetPolicies
    /\ UNCHANGED <<file, cliVars, shellVars, bounds>>

\* It has ended within the five seconds (173-175) ...
StopSeesEnd ==
    /\ un = "wait"
    /\ state[target] \notin Alive
    /\ un' = "unlink"
    /\ UNCHANGED <<serverVars, cliVars, shellVars, target, left, bounds>>

\* ... or is terminated (176-181).
StopTerminates ==
    /\ un = "wait"
    /\ state[target] \in Alive
    /\ un' = "unlink"
    /\ Lost(target)
    /\ UNCHANGED target

\* _remove_pid_file (182), whoever wrote it
StopUnlinks ==
    /\ un = "unlink"
    /\ file' = NoProxy
    /\ un' = "idle"
    /\ target' = NoProxy
    /\ UNCHANGED <<state, table, cliVars, shellVars, left, bounds>>

StopStep == StopSeesEnd \/ StopUnlinks

-----------------------------------------------------------------------------
Next ==
    \/ \E p \in Proxy : ProxyStep(p) \/ Crash(p)
    \/ \E c \in Cli :
          BeginStart(c) \/ CliStep(c) \/ AwaitTimesOut(c) \/ ShellExits(c)
          \/ SessionEnds(c) \/ CliLapse(c) \/ StopBegins(c) \/ Kill(c) \/ ConnStep(c)
    \/ StopAsks \/ StopStep \/ StopTerminates

Spec == Init /\ [][Next]_vars

(***************************************************************************)
(* Processes that run keep running, and the idle minute ends.  When users  *)
(* start, stop and uninstall, and when shells exit, is left open.          *)
(***************************************************************************)
FairSpec ==
    /\ Spec
    /\ \A p \in Proxy : WF_vars(ProxyStep(p))
    /\ \A c \in Cli : WF_vars(CliStep(c))
    /\ WF_vars(StopStep)

-----------------------------------------------------------------------------
(* Properties *)

\* A proxy that serves is the one the PID file names.  Otherwise no command
\* could reach it, and its port would keep every other proxy from starting.
FileNamesServer == \A p \in Proxy : state[p] = "serving" => file = p

\* A start command that waits for a proxy gets one, unless a proxy was lost
\* meanwhile: one answers already or is about to (network.py:125-137).
AwaitedComes ==
    \A c \in Cli : pc[c] \in Awaiting /\ ~unlucky[c] =>
        Answers(file) \/ \E p \in Proxy : state[p] \in {"spawned", "bound"}

\* The proxy a session was registered with serves it, with its policy, until
\* the session is over or that proxy is lost: no other session's end, idle
\* minute or failed second proxy takes it away.
SessionServed ==
    \A c \in Cli : pc[c] \in {"record", "session"} =>
        \/ state[ctl[c]] = "crashed"
        \/ state[ctl[c]] = "serving" /\ c \in table[ctl[c]]

\* The shell of a session is told the proxy's port (engine.py:126-129).
ShellKnowsProxy ==
    \A c \in Cli : pc[c] \in {"record", "session"} => port[c]

\* The sandboxes whose command has registered them and is to deregister them.
Attached == {c \in Cli : pc[c] \in {"record", "session", "deregister", "stop"}}

\* Every policy in force belongs to a session that goes on, whose end always
\* finds the table it is in, or is one that was left behind: by a start command
\* that was killed or failed after register, by a session_ended that found no
\* running record, or by a deregister that failed.
PolicyHasSession ==
    \A p \in Proxy, c \in Cli : state[p] = "serving" /\ c \in table[p] =>
        c \in left \/ (c \in Attached /\ ctl[c] = p)

\* A connection that was let through is one of a sandbox whose policy is in the
\* table of the proxy that handles it, and that proxy goes on serving, although
\* it never looks at the table again.  A tunnel outlives its policy only
\* between the two halves of stop, and in a shell that a session which aborted
\* or a stop which failed has left running.
TunnelHasPolicy ==
    \A c \in Cli : conn[c] \in {"allowed", "tunnel"} =>
        \/ state[via[c]] = "serving" /\ c \in table[via[c]]
        \/ pc[c] = "kill"
        \/ shell[c] = "loose"

\* When no command runs any more, the proxy goes away by itself
\* (architecture.md:29), unless a policy was left behind in its table; a later
\* session or stop of that sandbox makes up for it.
IdlesOut ==
    Quiet ~> (~Quiet \/ left # {} \/ \A p \in Proxy : state[p] \notin Alive)

Abstract == INSTANCE PolicyTable WITH attached <- Attached, table <- Served

\* However proxies come and go, the commands see one table: PolicyTable.
ImplementsPolicyTable == Abstract!Spec

-----------------------------------------------------------------------------
(* What the documents say and the code does not do *)

\* architecture.md:130: "Engine crash -> proxy idles out."
EngineCrashIdlesOut ==
    Quiet ~> (~Quiet \/ \A p \in Proxy : state[p] \notin Alive)
=============================================================================
