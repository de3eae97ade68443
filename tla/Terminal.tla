------------------------------ MODULE Terminal ------------------------------
(***************************************************************************)
(* One session from its two ends: the start command (start_sandbox of      *)
(* sbx/process.py, start and _session of sbx/cli.py) and the runner        *)
(* (_execute_runner_inner), joined by the two named pipes, with the        *)
(* pseudo-console, its pipe and the output relay between runner and shell. *)
(*                                                                         *)
(* Output is counted in pieces: what the shell has written is in the       *)
(* pseudo-console, in its pipe, in the relay, in pipe_out, in the pump or  *)
(* shown.  Input is counted too where a writer may wait for room in        *)
(* pipe_in; its bytes are in InputRelay.                                   *)
(*                                                                         *)
(* Windows, as the comments of the code have it: closing a handle waits    *)
(* for a call of another thread that is pending on it (process.py:490-493, *)
(* cli.py:265-267), closing the pseudo-console flushes its output and      *)
(* breaks its pipe (485-486), and what a writer left in a pipe can still   *)
(* be read after he closed it.                                             *)
(***************************************************************************)
EXTENDS Naturals

CONSTANTS MaxWritten,  \* bound: pieces of output the shell writes
          PipeSize,    \* pieces a pipe takes before its writer waits
          MaxFaults    \* how many calls may fail or processes be lost

ASSUME MaxWrittenIsNat == MaxWritten \in Nat
ASSUME PipeSizeIsPositive == PipeSize \in Nat \ {0}
ASSUME MaxFaultsIsNat == MaxFaults \in Nat

VARIABLES
    host,     \* where the start command stands
    modes,    \* the modes of its console
    raised,   \* an exception ends its session
    inEnd,    \* the host's end of pipe_in
    outEnd,   \* the host's end of pipe_out
    runner,   \* where the runner stands
    code,     \* the runner's exit code: the shell's or RUNNER_FAILED
    relay,    \* where the output relay stands
    gaveUp,   \* the runner stopped waiting for the output relay
    shell,    \* the shell's process
    inJob,    \* whether it is in the Job Object
    typed,    \* the input relay has typed `exit`
    conhost,  \* the pseudo-console's process
    screen,   \* output in the pseudo-console, not yet in its pipe
    ptyOut,   \* output in the pseudo-console's pipe
    outPipe,  \* output in pipe_out
    shown,    \* output the user has got
    written,  \* history: all output of the shell
    feeder,   \* where the host's input thread stands
    inPipe,   \* input in pipe_in
    inRelay,  \* whether the input relay reads
    paused,   \* the user holds the host's output (selecting text)
    piped,    \* stdin is a script, not a console
    waits,    \* ClosePseudoConsole waits for the flush (before Windows 11 24H2)
    faults    \* faults so far

hostVars == <<host, modes, raised>>
runnerVars == <<runner, code, gaveUp>>
shellVars == <<shell, inJob, typed>>
outVars == <<screen, ptyOut, outPipe, shown, written>>
inVars == <<feeder, inPipe, inRelay>>
userVars == <<paused, piped, waits>>
vars == <<hostVars, inEnd, outEnd, runnerVars, relay, shellVars, conhost, outVars,
          inVars, userVars, faults>>

HostDone == {"returned", "failed", "lost"}
HostPCs == {"connecting", "give_up_in", "give_up_out", "starting", "set_modes",
            "pump", "write", "restore", "wait", "close_in", "close_out"} \cup HostDone

Opening == {"launched", "in_open"}
Preparing == {"both_open", "job", "console", "suspended", "assigned"}
RunnerPCs == Opening \cup Preparing \cup
    {"serving", "close_console", "join", "close_read", "close_out", "cleaned", "exited"}

TypeOK ==
    /\ host \in HostPCs
    /\ modes \in {"saved", "vt"}
    /\ raised \in BOOLEAN
    /\ inEnd \in {"listening", "connected", "closed"}
    /\ outEnd \in {"listening", "connected", "closed"}
    /\ runner \in RunnerPCs
    /\ code \in {"none", "shell", "failed", "killed"}
    /\ relay \in {"none", "read", "write", "done"}
    /\ gaveUp \in BOOLEAN
    /\ shell \in {"none", "suspended", "running", "exited"}
    /\ inJob \in BOOLEAN
    /\ typed \in BOOLEAN
    /\ conhost \in {"none", "open", "closing", "gone"}
    /\ screen \in 0..1
    /\ ptyOut \in 0..PipeSize
    /\ outPipe \in 0..PipeSize
    /\ shown \in Nat
    /\ written \in 0..MaxWritten
    /\ feeder \in {"none", "read", "write", "done"}
    /\ inPipe \in 0..PipeSize
    /\ inRelay \in {"none", "read", "done"}
    /\ paused \in BOOLEAN
    /\ piped \in BOOLEAN
    /\ waits \in BOOLEAN
    /\ faults \in 0..MaxFaults

\* start_sandbox has created both pipes and launched the runner.
Init ==
    /\ host = "connecting" /\ modes = "saved" /\ raised = FALSE
    /\ inEnd = "listening" /\ outEnd = "listening"
    /\ runner = "launched" /\ code = "none" /\ relay = "none" /\ gaveUp = FALSE
    /\ shell = "none" /\ inJob = FALSE /\ typed = FALSE /\ conhost = "none"
    /\ screen = 0 /\ ptyOut = 0 /\ outPipe = 0 /\ shown = 0 /\ written = 0
    /\ feeder = "none" /\ inPipe = 0 /\ inRelay = "none"
    /\ paused = FALSE /\ piped \in BOOLEAN /\ waits \in BOOLEAN
    /\ faults = 0

Fault == faults < MaxFaults /\ faults' = faults + 1

\* The runner's end of pipe_out is closed: the pump reads what is left.
OutBroken == runner \in {"cleaned", "exited"}

-----------------------------------------------------------------------------
(* The start command *)

HostGoto(label) == host' = label /\ UNCHANGED <<modes, raised>>

\* Both connect threads have ended (process.py:233-255).
Connected ==
    /\ host = "connecting"
    /\ inEnd = "connected" /\ outEnd = "connected"
    /\ HostGoto("starting")
    /\ UNCHANGED <<inEnd, outEnd, runnerVars, relay, shellVars, conhost, outVars,
                   inVars, userVars, faults>>

\* 15 s are over (238-242): the runner is gone, or slower than that.
ConnectTimesOut ==
    /\ host = "connecting"
    /\ "listening" \in {inEnd, outEnd}
    /\ IF runner = "exited" THEN UNCHANGED faults ELSE Fault
    /\ HostGoto("give_up_in")
    /\ UNCHANGED <<inEnd, outEnd, runnerVars, relay, shellVars, conhost, outVars, inVars, userVars>>

\* close_handle(pipe_in) (243) waits for its connect thread, which ends only
\* when the runner opens the pipe.
GiveUpIn ==
    /\ host = "give_up_in"
    /\ inEnd = "connected"
    /\ inEnd' = "closed"
    /\ HostGoto("give_up_out")
    /\ UNCHANGED <<outEnd, runnerVars, relay, shellVars, conhost, outVars, inVars, userVars, faults>>

\* close_handle(pipe_out) (244) likewise; then ProcessError.
GiveUpOut ==
    /\ host = "give_up_out"
    /\ outEnd = "connected"
    /\ outEnd' = "closed"
    /\ HostGoto("failed")
    /\ UNCHANGED <<inEnd, runnerVars, relay, shellVars, conhost, outVars, inVars, userVars, faults>>

StartFeeder == feeder' = "read" /\ UNCHANGED <<inPipe, inRelay>>

\* Engine.start has done its bookkeeping (engine.py:140-150), _session begins:
\* the input thread of a script starts at once (168-169), that of a console
\* when its modes are set.
SessionBegins ==
    /\ host = "starting"
    /\ IF piped THEN HostGoto("pump") /\ StartFeeder
       ELSE HostGoto("set_modes") /\ UNCHANGED inVars
    /\ UNCHANGED <<inEnd, outEnd, runnerVars, relay, shellVars, conhost, outVars,
                   userVars, faults>>

\* ... or it raises: no handle was returned, the end of the process closes it.
StartFails ==
    /\ host = "starting"
    /\ Fault
    /\ HostGoto("failed")
    /\ inEnd' = "closed" /\ outEnd' = "closed"
    /\ UNCHANGED <<runnerVars, relay, shellVars, conhost, outVars, inVars, userVars>>

\* _vt_modes up to its yield (cli.py:80-94); a console that refuses VT input
\* makes no difference.
SetModes ==
    /\ host = "set_modes"
    /\ modes' = "vt"
    /\ host' = "pump"
    /\ StartFeeder
    /\ UNCHANGED <<raised, inEnd, outEnd, runnerVars, relay, shellVars, conhost,
                   outVars, userVars, faults>>

\* The output side refuses its mode (91-93) after the input side has changed.
SetModesFails ==
    /\ host = "set_modes"
    /\ Fault
    /\ modes' = "vt"
    /\ raised' = TRUE
    /\ host' = "restore"
    /\ UNCHANGED <<inEnd, outEnd, runnerVars, relay, shellVars, conhost, outVars, inVars, userVars>>

\* read_file of _pump_output (104-110)
PumpReads ==
    /\ host = "pump"
    /\ outPipe > 0
    /\ outPipe' = outPipe - 1
    /\ HostGoto("write")
    /\ UNCHANGED <<inEnd, outEnd, runnerVars, relay, shellVars, conhost, screen, ptyOut,
                   shown, written, inVars, userVars, faults>>

\* ... fails once the pipe is empty and the runner has closed its end.
PumpEnds ==
    /\ host = "pump"
    /\ outPipe = 0 /\ OutBroken
    /\ HostGoto("restore")
    /\ UNCHANGED <<inEnd, outEnd, runnerVars, relay, shellVars, conhost, outVars,
                   inVars, userVars, faults>>

\* write(data) (111), which waits while the user holds the output.
PumpWrites ==
    /\ host = "write"
    /\ ~paused
    /\ shown' = shown + 1
    /\ HostGoto("pump")
    /\ UNCHANGED <<inEnd, outEnd, runnerVars, relay, shellVars, conhost, screen, ptyOut,
                   outPipe, written, inVars, userVars, faults>>

\* stdout or the console is gone: the exception leaves _session.
PumpWriteFails ==
    /\ host = "write"
    /\ Fault
    /\ raised' = TRUE
    /\ host' = "restore"
    /\ UNCHANGED <<modes, inEnd, outEnd, runnerVars, relay, shellVars, conhost, outVars,
                   inVars, userVars>>

\* The finally of _vt_modes (95-97); a script has no modes to restore.
Restore ==
    /\ host = "restore"
    /\ modes' = "saved"
    /\ host' = IF raised THEN "close_in" ELSE "wait"
    /\ UNCHANGED <<raised, inEnd, outEnd, runnerVars, relay, shellVars, conhost, outVars,
                   inVars, userVars, faults>>

\* handle.exit_code() (178, process.py:147-149)
RunnerSeen ==
    /\ host = "wait"
    /\ runner = "exited"
    /\ HostGoto("close_in")
    /\ UNCHANGED <<inEnd, outEnd, runnerVars, relay, shellVars, conhost, outVars,
                   inVars, userVars, faults>>

\* handle.close() (cli.py:264, process.py:151-154): pipe_in, which waits for a
\* pending write of the input thread ...
CloseIn ==
    /\ host = "close_in"
    /\ feeder # "write"
    /\ inEnd' = "closed"
    /\ HostGoto("close_out")
    /\ UNCHANGED <<outEnd, runnerVars, relay, shellVars, conhost, outVars, inVars,
                   userVars, faults>>

\* ... then pipe_out, session_ended and the exit code (265-271).
CloseSession ==
    /\ host = "close_out"
    /\ outEnd' = "closed"
    /\ HostGoto(IF raised \/ code = "failed" THEN "failed" ELSE "returned")
    /\ feeder' = "done"
    /\ UNCHANGED <<inEnd, runnerVars, relay, shellVars, conhost, outVars, inPipe,
                   inRelay, userVars, faults>>

\* The input thread is given keys, a resize or some of the script, and calls
\* write_file (115-148).
Feed ==
    /\ feeder = "read"
    /\ feeder' = "write"
    /\ UNCHANGED <<hostVars, inEnd, outEnd, runnerVars, relay, shellVars, conhost, outVars,
                   inPipe, inRelay, userVars, faults>>

\* The call waits for room in the pipe, whether or not anybody reads ...
FeedWrites ==
    /\ feeder = "write"
    /\ inEnd = "connected" /\ runner # "exited"
    /\ inPipe < PipeSize
    /\ inPipe' = inPipe + 1
    /\ feeder' = "read"
    /\ UNCHANGED <<hostVars, inEnd, outEnd, runnerVars, relay, shellVars, conhost, outVars,
                   inRelay, userVars, faults>>

\* ... or until an end of the pipe is closed; then the thread ends.
FeedFails ==
    /\ feeder = "write"
    /\ inEnd = "closed" \/ runner = "exited"
    /\ feeder' = "done"
    /\ UNCHANGED <<hostVars, inEnd, outEnd, runnerVars, relay, shellVars, conhost, outVars,
                   inPipe, inRelay, userVars, faults>>

\* The input thread at the end of a script: close_input (144-151).
ScriptRunsOut ==
    /\ piped
    /\ feeder = "read"
    /\ inEnd = "connected"
    /\ inEnd' = "closed"
    /\ feeder' = "done"
    /\ UNCHANGED <<hostVars, outEnd, runnerVars, relay, shellVars, conhost, outVars,
                   inPipe, inRelay, userVars, faults>>

\* The terminal is closed or the command killed; its handles go with it.
HostLost ==
    /\ host \notin HostDone
    /\ Fault
    /\ HostGoto("lost")
    /\ inEnd' = "closed" /\ outEnd' = "closed"
    /\ feeder' = "done"
    /\ UNCHANGED <<runnerVars, relay, shellVars, conhost, outVars, inPipe, inRelay,
                   userVars>>

\* Not the user's choices, and not what may fail.
HostSteps ==
    \/ Connected \/ (ConnectTimesOut /\ runner = "exited") \/ GiveUpIn \/ GiveUpOut
    \/ SessionBegins \/ SetModes \/ PumpReads \/ PumpEnds \/ PumpWrites \/ Restore
    \/ RunnerSeen \/ CloseIn \/ CloseSession
FeedSteps == FeedWrites \/ FeedFails

-----------------------------------------------------------------------------
(* The runner *)

RunnerGoto(label) == runner' = label /\ UNCHANGED <<code, gaveUp>>

\* The end of the runner's process: its handles are closed, the relay's thread
\* and the pseudo-console end, and closing the Job Object kills what is in it.
RunnerEnds(c) ==
    /\ runner' = "exited"
    /\ code' = c
    /\ relay' = IF relay = "none" THEN "none" ELSE "done"
    /\ inRelay' = IF inRelay = "none" THEN "none" ELSE "done"
    /\ conhost' = IF conhost = "none" THEN "none" ELSE "gone"
    /\ shell' = IF inJob THEN "exited" ELSE shell
    /\ UNCHANGED <<hostVars, gaveUp, inJob, typed, outVars, feeder, inPipe, userVars>>

\* open_file(pipe_in_name), then open_file(pipe_out_name) (process.py:388-389)
OpenIn ==
    /\ runner = "launched"
    /\ inEnd = "listening"
    /\ inEnd' = "connected"
    /\ RunnerGoto("in_open")
    /\ UNCHANGED <<hostVars, outEnd, relay, shellVars, conhost, outVars, inVars, userVars, faults>>

OpenOut ==
    /\ runner = "in_open"
    /\ outEnd = "listening"
    /\ outEnd' = "connected"
    /\ RunnerGoto("both_open")
    /\ UNCHANGED <<hostVars, inEnd, relay, shellVars, conhost, outVars, inVars, userVars, faults>>

\* The host has gone: there is no such pipe, execute_runner returns
\* RUNNER_FAILED (316-319).
OpenFails ==
    /\ \/ runner = "launched" /\ inEnd = "closed"
       \/ runner = "in_open" /\ outEnd = "closed"
    /\ RunnerEnds("failed")
    /\ UNCHANGED <<inEnd, outEnd, faults>>

\* The Job Object, with kill-on-close (394-399)
CreateJob ==
    /\ runner = "both_open"
    /\ RunnerGoto("job")
    /\ UNCHANGED <<hostVars, inEnd, outEnd, relay, shellVars, conhost, outVars, inVars, userVars,
                   faults>>

\* The pipes, the token, the pseudo-console and the locks (403-430)
CreateConsole ==
    /\ runner = "job"
    /\ conhost' = "open"
    /\ RunnerGoto("console")
    /\ UNCHANGED <<hostVars, inEnd, outEnd, relay, shellVars, outVars, inVars, userVars, faults>>

\* create_process_as_user, suspended (432-457)
LaunchShell ==
    /\ runner = "console"
    /\ shell' = "suspended"
    /\ RunnerGoto("suspended")
    /\ UNCHANGED <<hostVars, inEnd, outEnd, relay, inJob, typed, conhost, outVars,
                   inVars, userVars, faults>>

\* Mutant: the shell runs before it is in the Job Object.
AssignAfterResume ==
    /\ runner = "suspended"
    /\ shell' = "running"
    /\ RunnerGoto("assigned")
    /\ UNCHANGED <<hostVars, inEnd, outEnd, relay, inJob, typed, conhost, outVars,
                   inVars, userVars, faults>>

\* assign_process_to_job (468)
Assign ==
    /\ runner = "suspended"
    /\ inJob' = TRUE
    /\ RunnerGoto("assigned")
    /\ UNCHANGED <<hostVars, inEnd, outEnd, relay, shell, typed, conhost, outVars,
                   inVars, userVars, faults>>

\* resume_thread, and the two relays start (469-480)
Resume ==
    /\ runner = "assigned"
    /\ shell' = "running"
    /\ relay' = "read" /\ inRelay' = "read"
    /\ RunnerGoto("serving")
    /\ UNCHANGED <<hostVars, inEnd, outEnd, inJob, typed, conhost, outVars, feeder, inPipe,
                   userVars, faults>>

\* Any of these calls raises: RUNNER_FAILED.  A shell that could not be assigned
\* stays, suspended.
RunnerFails ==
    /\ runner \in Preparing
    /\ Fault
    /\ RunnerEnds("failed")
    /\ UNCHANGED <<inEnd, outEnd>>

\* wait_for_process, then ClosePseudoConsole begins (482-487)
ShellSeen ==
    /\ runner = "serving"
    /\ shell = "exited"
    /\ conhost' = "closing"
    /\ RunnerGoto("close_console")
    /\ UNCHANGED <<hostVars, inEnd, outEnd, relay, shellVars, outVars, inVars, userVars, faults>>

\* ClosePseudoConsole returns.
ConsoleClosed ==
    /\ runner = "close_console"
    /\ waits => conhost = "gone"
    /\ RunnerGoto("join")
    /\ UNCHANGED <<hostVars, inEnd, outEnd, relay, shellVars, conhost, outVars, inVars, userVars,
                   faults>>

\* Mutant: the runner does not wait for the relay.
NotJoined ==
    /\ runner = "join"
    /\ RunnerGoto("close_read")
    /\ UNCHANGED <<hostVars, inEnd, outEnd, relay, shellVars, conhost, outVars, inVars, userVars,
                   faults>>

\* relay_out.join (488)
RelayJoined ==
    /\ runner = "join"
    /\ relay = "done"
    /\ RunnerGoto("close_read")
    /\ UNCHANGED <<hostVars, inEnd, outEnd, relay, shellVars, conhost, outVars, inVars, userVars,
                   faults>>

\* ... gives up after 5 s, time enough unless the relay cannot write.
Stuck ==
    /\ relay = "write" /\ outPipe = PipeSize
    /\ host = "write" => paused
    /\ host # "pump"

RelayGivenUp ==
    /\ runner = "join"
    /\ Stuck
    /\ runner' = "close_read"
    /\ gaveUp' = TRUE
    /\ UNCHANGED <<hostVars, inEnd, outEnd, code, relay, shellVars, conhost, outVars,
                   inVars, userVars, faults>>

\* close_handle(job), then pty_out_read, which waits for a pending read
\* (494-496)
CloseRead ==
    /\ runner = "close_read"
    /\ relay # "read"
    /\ RunnerGoto("close_out")
    /\ UNCHANGED <<hostVars, inEnd, outEnd, relay, shellVars, conhost, outVars, inVars, userVars,
                   faults>>

\* close_handle(pipe_out), which waits for a pending write
CloseOut ==
    /\ runner = "close_out"
    /\ relay # "write"
    /\ RunnerGoto("cleaned")
    /\ UNCHANGED <<hostVars, inEnd, outEnd, relay, shellVars, conhost, outVars, inVars, userVars,
                   faults>>

\* Mutant: pipe_in is closed too, while the input relay reads from it.
RunnerReturnsClosingIn ==
    /\ runner = "cleaned"
    /\ inRelay = "done"
    /\ RunnerEnds("shell")
    /\ UNCHANGED <<inEnd, outEnd, faults>>

\* return exit_code (497-498); the input relay is a daemon thread.
RunnerReturns ==
    /\ runner = "cleaned"
    /\ RunnerEnds("shell")
    /\ UNCHANGED <<inEnd, outEnd, faults>>

RunnerLost ==
    /\ runner # "exited"
    /\ Fault
    /\ RunnerEnds("killed")
    /\ UNCHANGED <<inEnd, outEnd>>

RunnerSteps ==
    \/ OpenIn \/ OpenOut \/ OpenFails \/ CreateJob \/ CreateConsole \/ LaunchShell
    \/ Assign \/ Resume \/ ShellSeen \/ ConsoleClosed \/ RelayJoined \/ RelayGivenUp
    \/ CloseRead \/ CloseOut \/ RunnerReturns

-----------------------------------------------------------------------------
(* The relays, the shell and the pseudo-console *)

Others == <<hostVars, inEnd, outEnd, runnerVars, feeder, userVars, faults>>

\* pty_out_read is still open.
ReadOpen == runner \notin {"close_out", "cleaned", "exited"}

\* Mutant: the relay reads from a pipe without output.
RelayReadsAlways ==
    /\ relay = "read"
    /\ ReadOpen
    /\ ptyOut' = ptyOut - 1
    /\ relay' = "write"
    /\ UNCHANGED <<Others, inPipe, inRelay, shellVars, conhost, screen, outPipe, shown, written>>

\* read_file of _relay_output (329-336)
RelayReads ==
    /\ relay = "read"
    /\ ReadOpen /\ ptyOut > 0
    /\ ptyOut' = ptyOut - 1
    /\ relay' = "write"
    /\ UNCHANGED <<Others, inPipe, inRelay, shellVars, conhost, screen, outPipe, shown, written>>

\* ... fails: the pseudo-console has ended, or the handle is closed.
RelayEnds ==
    /\ relay = "read"
    /\ (ptyOut = 0 /\ conhost = "gone") \/ ~ReadOpen
    /\ relay' = "done"
    /\ UNCHANGED <<Others, inPipe, inRelay, shellVars, conhost, outVars>>

\* write_file (337-338)
RelayWrites ==
    /\ relay = "write"
    /\ outEnd = "connected" /\ outPipe < PipeSize
    /\ outPipe' = outPipe + 1
    /\ relay' = "read"
    /\ UNCHANGED <<Others, inPipe, inRelay, shellVars, conhost, screen, ptyOut, shown, written>>

\* ... fails: the host has closed its end (339-341).
RelayWriteFails ==
    /\ relay = "write"
    /\ outEnd = "closed"
    /\ relay' = "done"
    /\ UNCHANGED <<Others, inPipe, inRelay, shellVars, conhost, outVars>>

RelaySteps == RelayReads \/ RelayEnds \/ RelayWrites \/ RelayWriteFails

\* _relay_input gives what it reads to the pseudo-console, which takes it as
\* long as it is there; a write that fails ends the relay (349-368).
TakeInput ==
    /\ inRelay = "read" /\ inPipe > 0
    /\ inPipe' = inPipe - 1
    /\ inRelay' \in IF conhost = "open" THEN {"read"} ELSE {"read", "done"}
    /\ UNCHANGED <<Others, relay, shellVars, conhost, outVars>>

\* Mutant: the end of a console session types nothing.
TypeExitForScripts ==
    /\ piped
    /\ inRelay = "read" /\ inPipe = 0
    /\ inEnd = "closed"
    /\ typed' = TRUE
    /\ inRelay' = "done"
    /\ UNCHANGED <<Others, relay, shell, inJob, conhost, outVars, inPipe>>

\* ... and at the end of pipe_in types `exit` (369-372).
TypeExit ==
    /\ inRelay = "read" /\ inPipe = 0
    /\ inEnd = "closed"
    /\ typed' = TRUE
    /\ inRelay' = "done"
    /\ UNCHANGED <<Others, relay, shell, inJob, conhost, outVars, inPipe>>

InRelaySteps == TakeInput \/ TypeExit

ShellWrites ==
    /\ shell = "running"
    /\ written < MaxWritten
    /\ screen = 0
    /\ screen' = 1
    /\ written' = written + 1
    /\ UNCHANGED <<Others, inPipe, inRelay, relay, shellVars, conhost, ptyOut, outPipe, shown>>

\* By itself, or because `sbx stop` terminates the Job Object.
ShellExits ==
    /\ shell = "running"
    /\ shell' = "exited"
    /\ UNCHANGED <<Others, inPipe, inRelay, relay, inJob, typed, conhost, outVars>>

\* A shell that reads `exit` exits; it reads when it is not stuck in output.
ShellObeys == typed /\ screen = 0 /\ ShellExits

\* The pseudo-console renders into its pipe, and ends when it is closed and
\* empty or nobody can read any more.
Render ==
    /\ conhost \in {"open", "closing"}
    /\ screen = 1 /\ ptyOut < PipeSize
    /\ screen' = 0
    /\ ptyOut' = ptyOut + 1
    /\ UNCHANGED <<Others, inPipe, inRelay, relay, shellVars, conhost, outPipe, shown, written>>

ConhostEnds ==
    /\ conhost = "closing"
    /\ screen = 0 \/ ~ReadOpen
    /\ conhost' = "gone"
    /\ UNCHANGED <<Others, inPipe, inRelay, relay, shellVars, outVars>>

\* The user selects text in the host's console, or stops reading stdout.
Pause ==
    /\ host \in {"pump", "write"}
    /\ paused' = ~paused
    /\ UNCHANGED <<hostVars, inEnd, outEnd, runnerVars, relay, shellVars, conhost, outVars,
                   inVars, piped, waits, faults>>

-----------------------------------------------------------------------------
Next ==
    \/ HostSteps \/ ConnectTimesOut \/ StartFails \/ SetModesFails \/ PumpWriteFails
    \/ Feed \/ FeedSteps \/ ScriptRunsOut \/ HostLost
    \/ RunnerSteps \/ RunnerFails \/ RunnerLost
    \/ RelaySteps \/ InRelaySteps \/ ShellWrites \/ ShellExits \/ Render \/ ConhostEnds
    \/ Pause

Spec == Init /\ [][Next]_vars

\* Threads and processes keep running and a shell that is typed `exit` at its
\* prompt exits; a handle that is often enough without a pending call is closed,
\* however much is typed.  Nothing is assumed of users, shells by themselves or
\* faults.
FairSpec ==
    /\ Spec
    /\ WF_vars(HostSteps)
    /\ SF_vars(CloseIn)
    /\ WF_vars(RunnerSteps)
    /\ WF_vars(RelaySteps)
    /\ WF_vars(InRelaySteps)
    /\ WF_vars(FeedSteps)
    /\ WF_vars(ShellObeys)
    /\ WF_vars(Render)
    /\ WF_vars(ConhostEnds)

-----------------------------------------------------------------------------
(* Properties *)

\* start returns the shell's exit code after everything the shell wrote was
\* shown and with the console as it was (specs/spec.md:130-135), unless the user
\* held the output so long that the runner gave its relay up.
OutputWhole ==
    host = "returned" /\ code = "shell" =>
        /\ shell = "exited" /\ modes = "saved"
        /\ gaveUp \/ shown = written

\* Whatever ends the runner, no sandboxed program runs on: a shell that is not
\* in the Job Object has never run (process.py:468-469).
NoShellLeft == runner = "exited" => shell # "running"

\* The user holds the output in the middle of the session.
Held == paused /\ host \in {"pump", "write"}

\* After the output pump has failed, the host waits in close_handle(pipe_in) for
\* a write nobody reads and the runner in close_handle(pipe_out) for another.
Crossed ==
    /\ host = "close_in" /\ raised /\ feeder = "write" /\ inPipe = PipeSize
    /\ runner = "close_out" /\ relay = "write" /\ outPipe = PipeSize

\* Once the shell has exited, or the runner has failed after it opened the pipes,
\* the start command ends, unless the user holds the output: neither end waits
\* for a handle on which the other keeps a call pending (process.py:490-493),
\* but for one case.
SessionEnds ==
    shell = "exited" \/ (runner = "exited" /\ outEnd # "listening")
        ~> host \in HostDone \/ Held \/ Crossed

\* The end of the input, of a script or because the host is gone, ends the
\* session: the runner exits, unless the shell is stuck in output that nobody
\* reads any more or the user holds (process.py:339-341, 369-372).
Undrained == relay = "done" /\ ptyOut = PipeSize /\ screen = 1
InputEndsSession ==
    inEnd = "closed" ~> \/ runner = "exited"
                        \/ Undrained
                        \/ Held
=============================================================================
