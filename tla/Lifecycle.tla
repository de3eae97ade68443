----------------------------- MODULE Lifecycle -----------------------------
(***************************************************************************)
(* The life of sandboxes as sbx commands drive it (sbx/engine.py, the      *)
(* start command of sbx/cli.py, sbx/process.py).                           *)
(*                                                                         *)
(* Every sbx command is a process c of its own; nothing but the operating  *)
(* system and sandboxes.json coordinates them.  `sbx start` launches a     *)
(* second process, the runner, as another user; the runner creates the     *)
(* sandbox's named Job Object, starts the shell in it and serves it until  *)
(* it exits.  A runner is named by the command that launched it.           *)
(*                                                                         *)
(* Each action is one engine, runner or cli step between two points where  *)
(* other processes can act.  A mutation of sandboxes.json is one step of   *)
(* Registry (implemented by StoreFile), but its lock is felt by others:    *)
(* see StoreBusy.  The proxy is its policy table; mounts are one bit.  A   *)
(* sandbox is known by its name to every part but sandboxes.json, which is *)
(* keyed by project folder.                                                *)
(***************************************************************************)
EXTENDS RegistryOps

CONSTANTS Cli,        \* sbx processes
          NoProject,  \* where an idle command is
          NoCli,      \* owner of a Job Object that does not exist
          Orphan,     \* owner of one whose runner has closed its handle
          Preset,     \* the network presets other than "none"
          Overlap,    \* FALSE: the user lets a command return, see MayBegin
          MaxFaults,  \* how many calls may fail
          MaxKills,   \* how many times a process may be lost instead
          Watched     \* the names whose Job Object others open, see Peek

ASSUME NoProjectIsNoProject == NoProject \notin Project
ASSUME NoCliIsNoCli == NoCli \notin Cli /\ Orphan \notin Cli /\ NoCli # Orphan
ASSUME NoneIsNoPreset == {"none", "absent"} \cap Preset = {}
ASSUME OverlapIsBoolean == Overlap \in BOOLEAN
ASSUME MaxFaultsIsNat == MaxFaults \in Nat
ASSUME MaxKillsIsNat == MaxKills \in Nat
ASSUME WatchedAreNames == Watched \subseteq Name

VARIABLES
    reg,      \* sandboxes.json
    mounted,  \* whether bind links or ACEs of each name are in place
    policy,   \* the proxy's policy table, "absent" without an entry
    lapsed,   \* history: what a broken-off step left wrong, see Books
    job,      \* which runner created each name's Job Object and holds it
    peeked,   \* whether `sbx status` or the proxy has that Job Object open
    runner,   \* where the runner launched by each command stands
    pc,       \* where each command stands
    cmd,      \* which command it is
    at,       \* the name it works on; its runner keeps it after the command
    dir,      \* the project folder given to create, or of the record resolved
    net,      \* the preset a start command has read
    faults,   \* failed calls so far
    kills     \* lost processes so far

bookVars == <<reg, mounted, policy, lapsed>>
runVars == <<job, peeked, runner>>
cliVars == <<pc, cmd, at, dir, net>>
bounds == <<faults, kills>>
vars == <<bookVars, runVars, cliVars, bounds>>

Commands == {"create", "start", "stop", "destroy"}
StartPCs == {"launch", "connecting", "register", "mark_running", "session",
             "ended", "end_deregister", "end_mark"}
StopPCs == {"stop_resolve", "stop_deregister", "stop_open", "stop_terminate",
            "stop_close", "mark_stopped"}
DestroyPCs == StopPCs \cup {"unmount", "remove"}
CreatePCs == {"mount", "add"}
PCs == {"idle"} \cup CreatePCs \cup StartPCs \cup DestroyPCs

RunnerStates == {"gone", "launched", "connected", "owning", "shell", "stuck", "closing"}
HoldsJob == {"owning", "shell", "stuck", "closing"}

\* The books kept of a sandbox, and whether its shell is as they say.
Books == {"record", "policy", "mounts", "shell"}

TypeOK ==
    /\ reg \in Registries
    /\ mounted \in [Name -> BOOLEAN]
    /\ policy \in [Name -> Preset \cup {"absent"}]
    /\ lapsed \in [Name -> SUBSET Books]
    /\ job \in [Name -> Cli \cup {NoCli, Orphan}]
    /\ peeked \in [Name -> BOOLEAN]
    /\ runner \in [Cli -> RunnerStates]
    /\ pc \in [Cli -> PCs]
    /\ cmd \in [Cli -> Commands]
    /\ at \in [Cli -> Name]
    /\ dir \in [Cli -> Project \cup {NoProject}]
    /\ net \in [Cli -> Preset \cup {"none"}]
    /\ faults \in 0..MaxFaults
    /\ kills \in 0..MaxKills

Init ==
    /\ reg = Empty
    /\ mounted = [n \in Name |-> FALSE]
    /\ policy = [n \in Name |-> "absent"]
    /\ lapsed = [n \in Name |-> {}]
    /\ job = [n \in Name |-> NoCli]
    /\ peeked = [n \in Name |-> FALSE]
    /\ runner = [c \in Cli |-> "gone"]
    /\ pc = [c \in Cli |-> "idle"]
    /\ cmd = [c \in Cli |-> "create"]
    /\ \E n \in Name : at = [c \in Cli |-> n]
    /\ dir = [c \in Cli |-> NoProject]
    /\ net = [c \in Cli |-> "none"]
    /\ faults = 0
    /\ kills = 0

-----------------------------------------------------------------------------
(* What the steps have in common. *)

Goto(c, label) ==
    /\ pc' = [pc EXCEPT ![c] = label]
    /\ UNCHANGED <<cmd, at, dir, net>>

\* The command returns or raises; a runner it launched keeps its name.
Return(c) ==
    /\ pc' = [pc EXCEPT ![c] = "idle"]
    /\ cmd' = [cmd EXCEPT ![c] = "create"]
    /\ dir' = [dir EXCEPT ![c] = NoProject]
    /\ net' = [net EXCEPT ![c] = "none"]
    /\ UNCHANGED at

\* A call fails.
Fault ==
    /\ faults < MaxFaults
    /\ faults' = faults + 1
    /\ UNCHANGED kills

\* A process is lost without a word to the others, or a session breaks off.
Loss ==
    /\ kills < MaxKills
    /\ kills' = kills + 1
    /\ UNCHANGED faults

(***************************************************************************)
(* The history of what went wrong.  A book lapses in the very step that    *)
(* passes it over (a call that failed, a lookup or mutation refused while  *)
(* another process has the store, a kill), and is in order again with the  *)
(* next step that does write it.  It is kept for the user who waits.       *)
(***************************************************************************)
Note(n, books) == lapsed' = IF Overlap THEN lapsed ELSE [lapsed EXCEPT ![n] = books]
Lapse(n, books) == Note(n, lapsed[n] \cup books)
InOrder(n, books) == Note(n, lapsed[n] \ books)

\* One accepted mutation of sandboxes.json.
Change(o) ==
    /\ Accepts(o, reg)
    /\ reg' = Apply(o, reg)

Recorded(n) == \E p \in Project : Holds(reg, p, n)
Says(n, st) == Lists(reg, n, st)

\* The steps in which a command is inside Store._mutate at some moment.
Mutating == {"mark_running", "end_mark", "mark_stopped", "remove", "add"}

(***************************************************************************)
(* Another command may hold the lock of sandboxes.json right now.  Then    *)
(* Store._locked raises StoreError (store.py:146).  Store._read_all takes  *)
(* no lock: the byte-range lock, mandatory on Windows, makes read_text     *)
(* raise OSError, which it turns into an empty registry (134).             *)
(***************************************************************************)
StoreBusy(c) == \E d \in Cli \ {c} : pc[d] \in Mutating

\* _resolve and get_by_name do not find the sandbox (engine.py:222-235).
Unseen(c, n) == ~Recorded(n) \/ StoreBusy(c)

\* update and remove raise StoreError (store.py:113, 123, 146).
Refused(c) == dir[c] \notin Known(reg) \/ StoreBusy(c)

\* The host ends of the runner's pipes are open.
Attached(c) == pc[c] \in {"connecting", "register", "mark_running", "session"}

\* Who has n's Job Object open besides its runner: a stop between opening
\* and closing it (process.py:274-282), `sbx status` (262-268), the proxy.
Held(n) ==
    \/ peeked[n]
    \/ \E c \in Cli : at[c] = n /\ pc[c] \in {"stop_terminate", "stop_close"}

(***************************************************************************)
(* Commands are independent programs, so any of them may be issued at any  *)
(* moment.  Overlap = FALSE is the user who waits: create and start only   *)
(* when every command on that sandbox or project has returned, stop and    *)
(* destroy also while its session goes on in another terminal and has      *)
(* shown the shell's prompt.  Commands on other sandboxes do run meanwhile.*)
(***************************************************************************)
Prompted(d) == pc[d] = "session" /\ runner[d] \notin {"connected", "owning"}

MayBegin(c, n, p, name) ==
    /\ pc[c] = "idle"
    /\ runner[c] = "gone"
    /\ \/ Overlap
       \/ \A d \in Cli \ {c} : at[d] = n \/ dir[d] = p =>
            pc[d] = "idle" \/ (name \in {"stop", "destroy"} /\ Prompted(d))

Begin(c, n, p, name, label) ==
    /\ MayBegin(c, n, p, name)
    /\ pc' = [pc EXCEPT ![c] = label]
    /\ cmd' = [cmd EXCEPT ![c] = name]
    /\ at' = [at EXCEPT ![c] = n]
    /\ dir' = [dir EXCEPT ![c] = p]

(***************************************************************************)
(* _resolve finds the record of n, whose project is p.  The code looks for *)
(* the given text as a name, then as a path: while the user waits and in   *)
(* an instance with one sandbox both find the same record again.           *)
(***************************************************************************)
Finds(n, p) == Holds(reg, p, n)

-----------------------------------------------------------------------------
(* sbx create (Engine.create) *)

\* The name is free as far as get_by_name can see (77-79); whether the project
\* has a record under another name is only seen by store.add.
BeginCreate(c, n, p) ==
    /\ Unseen(c, n)
    /\ Begin(c, n, p, "create", "mount")
    /\ UNCHANGED <<bookVars, runVars, net, bounds>>

\* run_elevated("create_mounts") (87-93)
Mount(c) ==
    /\ pc[c] = "mount"
    /\ mounted' = [mounted EXCEPT ![at[c]] = TRUE]
    /\ Goto(c, "add")
    /\ UNCHANGED <<reg, policy, lapsed, runVars, bounds>>

\* UAC refused, or the helper failed, possibly after the first mounts.
MountFails(c) ==
    /\ pc[c] = "mount"
    /\ Fault
    /\ \E left \in {mounted[at[c]], TRUE} : mounted' = [mounted EXCEPT ![at[c]] = left]
    /\ Lapse(at[c], {"mounts"})
    /\ Return(c)
    /\ UNCHANGED <<reg, policy, runVars>>

AddOf(c) == [kind |-> "add", project |-> dir[c], name |-> at[c]]

\* store.add (105)
Add(c) ==
    /\ pc[c] = "add"
    /\ Change(AddOf(c))
    /\ InOrder(at[c], {"mounts"})
    /\ Return(c)
    /\ UNCHANGED <<mounted, policy, runVars, bounds>>

\* store.add raises (98-104, 146): create ends there, and the mounts stay.
AddFails(c) ==
    /\ pc[c] = "add"
    /\ ~Accepts(AddOf(c), reg) \/ StoreBusy(c)
    /\ Lapse(at[c], {"mounts"})
    /\ Return(c)
    /\ UNCHANGED <<reg, mounted, policy, runVars, bounds>>

-----------------------------------------------------------------------------
(* sbx start: Engine.start, then the session in cli.start *)

\* _resolve and load_config (116-120); the state of the record is not read.
BeginStart(c, n, p, preset) ==
    /\ Finds(n, p)
    /\ Begin(c, n, p, "start", "launch")
    /\ net' = [net EXCEPT ![c] = preset]
    /\ UNCHANGED <<bookVars, runVars, bounds>>

\* start_sandbox creates the pipes and the runner process (process.py:183-221).
Launch(c) ==
    /\ pc[c] = "launch"
    /\ runner' = [runner EXCEPT ![c] = "launched"]
    /\ Goto(c, "connecting")
    /\ UNCHANGED <<bookVars, job, peeked, bounds>>

\* The proxy does not come up (engine.py:125) or CreateProcessWithLogon fails.
LaunchFails(c) ==
    /\ pc[c] = "launch"
    /\ Fault
    /\ Return(c)
    /\ UNCHANGED <<bookVars, runVars>>

\* Mutant: a preset of none is registered like the others.
ConnectAlwaysRegisters(c) ==
    /\ pc[c] = "connecting"
    /\ runner[c] = "launched"
    /\ runner' = [runner EXCEPT ![c] = "connected"]
    /\ Goto(c, "register")
    /\ UNCHANGED <<bookVars, job, peeked, bounds>>

\* Mutant: the session starts without its policy.
ConnectNeverRegisters(c) ==
    /\ pc[c] = "connecting"
    /\ runner[c] = "launched"
    /\ runner' = [runner EXCEPT ![c] = "connected"]
    /\ Goto(c, "mark_running")
    /\ UNCHANGED <<bookVars, job, peeked, bounds>>

\* The runner opens both pipes, which ends the command's wait (process.py:
\* 238-256, 388-389).
Connect(c) ==
    /\ pc[c] = "connecting"
    /\ runner[c] = "launched"
    /\ runner' = [runner EXCEPT ![c] = "connected"]
    /\ Goto(c, IF net[c] = "none" THEN "mark_running" ELSE "register")
    /\ UNCHANGED <<bookVars, job, peeked, bounds>>

\* The runner did not connect within 15 s: ProcessError (process.py:241-247).
ConnectTimesOut(c) ==
    /\ pc[c] = "connecting"
    /\ runner[c] = "launched"
    /\ Fault
    /\ Return(c)
    /\ UNCHANGED <<bookVars, runVars>>

\* register_sandbox (engine.py:140-141): the table entry is replaced.
Register(c) ==
    /\ pc[c] = "register"
    /\ policy' = [policy EXCEPT ![at[c]] = net[c]]
    /\ InOrder(at[c], {"policy"})
    /\ Goto(c, "mark_running")
    /\ UNCHANGED <<reg, mounted, runVars, bounds>>

\* NetworkError, the entry made or not: start raises, the runner it launched
\* is not recalled.
RegisterFails(c) ==
    /\ pc[c] = "register"
    /\ Fault
    /\ \E entry \in {policy[at[c]], net[c]} : policy' = [policy EXCEPT ![at[c]] = entry]
    /\ Lapse(at[c], {"policy"})
    /\ Return(c)
    /\ UNCHANGED <<reg, mounted, runVars>>

UpdateOf(c, st) == [kind |-> "update", project |-> dir[c], state |-> st]

\* store.update(state=running) (engine.py:143-147); the session begins.
MarkRunning(c) ==
    /\ pc[c] = "mark_running"
    /\ Change(UpdateOf(c, "running"))
    /\ InOrder(at[c], {"record", "shell"})
    /\ Goto(c, "session")
    /\ UNCHANGED <<mounted, policy, runVars, bounds>>

\* It raises: start ends there, the policy it registered stays.
MarkRunningFails(c) ==
    /\ pc[c] = "mark_running"
    /\ Refused(c)
    /\ Lapse(at[c], {"policy"})
    /\ Return(c)
    /\ UNCHANGED <<reg, mounted, policy, runVars, bounds>>

\* The output pump sees the pipe break and the runner has exited (cli.py:
\* 159-178); the finally of start begins.
SessionOver(c) ==
    /\ pc[c] = "session"
    /\ runner[c] = "gone"
    /\ Goto(c, "ended")
    /\ UNCHANGED <<bookVars, runVars, bounds>>

\* Writing to the host's stdout or console raises: the same finally closes
\* the handle and ends the session under a live shell (cli.py:263-268).
SessionAborts(c) ==
    /\ pc[c] = "session"
    /\ Loss
    /\ Goto(c, "ended")
    /\ UNCHANGED <<bookVars, runVars>>

\* session_ended resolves the sandbox and finds it running (engine.py:185-191)
EndResolves(c) ==
    /\ pc[c] = "ended"
    /\ \E p \in Project :
        /\ Finds(at[c], p)
        /\ reg[p].state = "running"
        /\ dir' = [dir EXCEPT ![c] = p]
    /\ pc' = [pc EXCEPT ![c] = "end_deregister"]
    /\ UNCHANGED <<cmd, at, net, bookVars, runVars, bounds>>

\* Mutant: session_ended waits for a record that another command has stopped.
EndWaits(c) ==
    /\ pc[c] = "ended"
    /\ Unseen(c, at[c])
    /\ Lapse(at[c], IF Says(at[c], "running") THEN {"record", "policy"} ELSE {})
    /\ Return(c)
    /\ UNCHANGED <<reg, mounted, policy, runVars, bounds>>

\* ... or it does not, and returns without a word, what was registered and
\* marked when the session began still there.
EndSkips(c) ==
    /\ pc[c] = "ended"
    /\ ~Says(at[c], "running") \/ StoreBusy(c)
    /\ Lapse(at[c], IF Says(at[c], "running") THEN {"record", "policy"} ELSE {})
    /\ Return(c)
    /\ UNCHANGED <<reg, mounted, policy, runVars, bounds>>

\* Mutant: session_ended forgets to update the store ...
EndDeregistersOnly(c) ==
    /\ pc[c] = "end_deregister"
    /\ policy' = [policy EXCEPT ![at[c]] = "absent"]
    /\ InOrder(at[c], {"policy"})
    /\ Return(c)
    /\ UNCHANGED <<reg, mounted, runVars, bounds>>

\* Mutant: ... or to deregister.
EndMarksOnly(c) ==
    /\ pc[c] = "end_deregister"
    /\ Goto(c, "end_mark")
    /\ UNCHANGED <<bookVars, runVars, bounds>>

\* deregister_sandbox (engine.py:193-194)
EndDeregister(c) ==
    /\ pc[c] = "end_deregister"
    /\ policy' = [policy EXCEPT ![at[c]] = "absent"]
    /\ InOrder(at[c], {"policy"})
    /\ Goto(c, "end_mark")
    /\ UNCHANGED <<reg, mounted, runVars, bounds>>

\* It raises (network.py:151-158): logged, and the policy stays (195-196).
EndDeregisterFails(c) ==
    /\ pc[c] = "end_deregister"
    /\ Fault
    /\ Lapse(at[c], {"policy"})
    /\ Goto(c, "end_mark")
    /\ UNCHANGED <<reg, mounted, policy, runVars>>

\* store.update(state=stopped) (engine.py:197)
EndMark(c) ==
    /\ pc[c] = "end_mark"
    /\ Change(UpdateOf(c, "stopped"))
    /\ InOrder(at[c], {"record"})
    /\ Return(c)
    /\ UNCHANGED <<mounted, policy, runVars, bounds>>

EndMarkFails(c) ==
    /\ pc[c] = "end_mark"
    /\ Refused(c)
    /\ Lapse(at[c], {"record"})
    /\ Return(c)
    /\ UNCHANGED <<reg, mounted, policy, runVars, bounds>>

-----------------------------------------------------------------------------
(* The runner (_execute_runner_inner, process.py:375-498) *)

RunnerBecomes(c, state) ==
    /\ runner' = [runner EXCEPT ![c] = state]
    /\ UNCHANGED <<bookVars, peeked, cliVars>>

\* Its pipes are gone before it opened them: open_file raises (388-389).
RunnerTooLate(c) ==
    /\ runner[c] = "launched"
    /\ pc[c] # "connecting"
    /\ RunnerBecomes(c, "gone")
    /\ UNCHANGED <<job, bounds>>

\* Mutant: an existing Job Object is opened and shared.
CreateJobShared(c) ==
    /\ runner[c] = "connected"
    /\ job' = [job EXCEPT ![at[c]] = c]
    /\ RunnerBecomes(c, "owning")
    /\ UNCHANGED bounds

\* create_job_object (394-399): the name is free.
CreateJob(c) ==
    /\ runner[c] = "connected"
    /\ job[at[c]] = NoCli
    /\ job' = [job EXCEPT ![at[c]] = c]
    /\ RunnerBecomes(c, "owning")
    /\ UNCHANGED bounds

\* The Job Object exists and its DACL names SYSTEM and the host user only,
\* so opening it is denied to the runner: RUNNER_FAILED (316-319).
JobDenied(c) ==
    /\ runner[c] = "connected"
    /\ job[at[c]] # NoCli
    /\ RunnerBecomes(c, "gone")
    /\ UNCHANGED <<job, bounds>>

\* Mutant: the runner forgets to close it.
CloseJobLeaks(c) == job' = job

\* The runner's handle on its Job Object is closed.  The object is gone, and
\* its name free, unless another process has it open.
CloseJob(c) ==
    job' = IF job[at[c]] = c
           THEN [job EXCEPT ![at[c]] = IF Held(at[c]) THEN Orphan ELSE NoCli]
           ELSE job

\* Token, pseudo-console, lock or shell creation fails (401-463).
RunnerFails(c) ==
    /\ runner[c] \in {"connected", "owning"}
    /\ Fault
    /\ CloseJob(c)
    /\ RunnerBecomes(c, "gone")

\* The shell is created suspended, put into the job and resumed (448-471).
LaunchShell(c) ==
    /\ runner[c] = "owning"
    /\ RunnerBecomes(c, "shell")
    /\ UNCHANGED <<job, bounds>>

\* The shell exits of its own accord (482).
ShellExits(c) ==
    /\ runner[c] = "shell"
    /\ RunnerBecomes(c, "closing")
    /\ UNCHANGED <<job, bounds>>

\* With the host's end of pipe_out closed the output relay has ended (339-341)
\* and a shell that goes on writing blocks; it will not read its input.
ShellBlocks(c) ==
    /\ runner[c] = "shell"
    /\ ~Attached(c)
    /\ RunnerBecomes(c, "stuck")
    /\ UNCHANGED <<job, bounds>>

\* Mutant: the input relay just ends.
HangUpUnnoticed(c) ==
    /\ runner[c] = "shell"
    /\ ~Attached(c)
    /\ UNCHANGED vars

\* The host end of pipe_in is closed: the input relay types `exit`, and a
\* shell that reads it exits (344-372).
HangUp(c) ==
    /\ runner[c] = "shell"
    /\ ~Attached(c)
    /\ RunnerBecomes(c, "closing")
    /\ UNCHANGED <<job, bounds>>

\* Pseudo-console, job and pipe_out are closed and the runner exits (485-498).
RunnerExits(c) ==
    /\ runner[c] = "closing"
    /\ CloseJob(c)
    /\ RunnerBecomes(c, "gone")
    /\ UNCHANGED bounds

-----------------------------------------------------------------------------
(* sbx stop (Engine.stop), also called by destroy *)

BeginStop(c, n, p) ==
    /\ Finds(n, p)
    /\ Begin(c, n, p, "stop", "stop_deregister")
    /\ UNCHANGED <<bookVars, runVars, net, bounds>>

\* deregister_sandbox (162-164)
StopDeregister(c) ==
    /\ pc[c] = "stop_deregister"
    /\ policy' = [policy EXCEPT ![at[c]] = "absent"]
    /\ InOrder(at[c], {"policy"})
    /\ Goto(c, "stop_open")
    /\ UNCHANGED <<reg, mounted, runVars, bounds>>

\* It raises, which stop ignores (165-166): the policy stays.
StopDeregisterFails(c) ==
    /\ pc[c] = "stop_deregister"
    /\ Fault
    /\ Lapse(at[c], {"policy"})
    /\ Goto(c, "stop_open")
    /\ UNCHANGED <<reg, mounted, policy, runVars>>

\* stop_sandbox opens the Job Object (process.py:272-274).
StopOpen(c) ==
    /\ pc[c] = "stop_open"
    /\ job[at[c]] # NoCli
    /\ Goto(c, "stop_terminate")
    /\ UNCHANGED <<bookVars, runVars, bounds>>

\* There is none: an error that stop only logs (engine.py:168-171).
StopFindsNoJob(c) ==
    /\ pc[c] = "stop_open"
    /\ job[at[c]] = NoCli
    /\ Goto(c, "mark_stopped")
    /\ UNCHANGED <<bookVars, runVars, bounds>>

\* Mutant: the Job Object is opened but nothing in it is terminated.
StopTerminatesNothing(c) ==
    /\ pc[c] = "stop_terminate"
    /\ Goto(c, "stop_close")
    /\ UNCHANGED <<bookVars, runVars, bounds>>

(***************************************************************************)
(* terminate_job_object (278) ends what is in the Job Object: the shell    *)
(* once it was put there, the runner never.                                *)
(***************************************************************************)
StopTerminate(c) ==
    /\ pc[c] = "stop_terminate"
    /\ runner' = [d \in Cli |->
            IF job[at[c]] = d /\ runner[d] \in {"shell", "stuck"}
            THEN "closing" ELSE runner[d]]
    /\ Goto(c, "stop_close")
    /\ UNCHANGED <<bookVars, job, peeked, bounds>>

\* It, or the opening before it, fails: only logged, like a missing job.
StopTerminateFails(c) ==
    /\ pc[c] \in {"stop_open", "stop_terminate"}
    /\ Fault
    /\ Lapse(at[c], {"shell"})
    /\ Goto(c, IF pc[c] = "stop_open" THEN "mark_stopped" ELSE "stop_close")
    /\ UNCHANGED <<reg, mounted, policy, runVars>>

\* A handle on n's Job Object is closed: the last one frees an orphan.
FreeOrphan(n) ==
    job' = IF job[n] = Orphan /\ ~Held(n)' THEN [job EXCEPT ![n] = NoCli] ELSE job

\* close_handle(job) (282)
StopClose(c) ==
    /\ pc[c] = "stop_close"
    /\ Goto(c, "mark_stopped")
    /\ UNCHANGED <<bookVars, peeked, runner, bounds>>
    /\ FreeOrphan(at[c])

\* store.update(state=stopped) (173-177)
MarkStopped(c) ==
    /\ pc[c] = "mark_stopped"
    /\ Change(UpdateOf(c, "stopped"))
    /\ InOrder(at[c], {"record"})
    /\ IF cmd[c] = "destroy" THEN Goto(c, "unmount") ELSE Return(c)
    /\ UNCHANGED <<mounted, policy, runVars, bounds>>

\* It raises: stop ends there, and so does a destroy that called it.
MarkStoppedFails(c) ==
    /\ pc[c] = "mark_stopped"
    /\ Refused(c)
    /\ Lapse(at[c], {"record"})
    /\ Return(c)
    /\ UNCHANGED <<reg, mounted, policy, runVars, bounds>>

-----------------------------------------------------------------------------
(* sbx destroy (Engine.destroy, 199-208) *)

BeginDestroy(c, n, p) ==
    /\ Finds(n, p)
    /\ Begin(c, n, p, "destroy",
             IF reg[p].state = "running" THEN "stop_resolve" ELSE "unmount")
    /\ UNCHANGED <<bookVars, runVars, net, bounds>>

\* self.stop(record.name) resolves the sandbox a second time.
StopResolves(c) ==
    /\ pc[c] = "stop_resolve"
    /\ Finds(at[c], dir[c])
    /\ Goto(c, "stop_deregister")
    /\ UNCHANGED <<bookVars, runVars, bounds>>

StopMissing(c) ==
    /\ pc[c] = "stop_resolve"
    /\ Unseen(c, at[c])
    /\ Return(c)
    /\ UNCHANGED <<bookVars, runVars, bounds>>

\* run_elevated("destroy_mounts") (206)
Unmount(c) ==
    /\ pc[c] = "unmount"
    /\ mounted' = [mounted EXCEPT ![at[c]] = FALSE]
    /\ Goto(c, "remove")
    /\ UNCHANGED <<reg, policy, lapsed, runVars, bounds>>

\* Mutant: a failed destroy_mounts is logged and destroy goes on.
UnmountFailureIgnored(c) ==
    /\ pc[c] = "unmount"
    /\ Fault
    /\ Goto(c, "remove")
    /\ UNCHANGED <<bookVars, runVars>>

\* The user refuses the elevation, or the helper fails before or after the
\* last mount is gone: destroy ends there.
UnmountFails(c) ==
    /\ pc[c] = "unmount"
    /\ Fault
    /\ \E left \in {mounted[at[c]], FALSE} : mounted' = [mounted EXCEPT ![at[c]] = left]
    /\ Lapse(at[c], {"mounts"})
    /\ Return(c)
    /\ UNCHANGED <<reg, policy, runVars>>

RemoveOf(c) == [kind |-> "remove", project |-> dir[c]]

\* store.remove (207)
Remove(c) ==
    /\ pc[c] = "remove"
    /\ Change(RemoveOf(c))
    /\ InOrder(at[c], {"record", "mounts"})
    /\ Return(c)
    /\ UNCHANGED <<mounted, policy, runVars, bounds>>

RemoveFails(c) ==
    /\ pc[c] = "remove"
    /\ Refused(c)
    /\ Lapse(at[c], {"mounts"})
    /\ Return(c)
    /\ UNCHANGED <<reg, mounted, policy, runVars, bounds>>

-----------------------------------------------------------------------------
(* The environment *)

\* What a command killed at a step leaves wrong.
Unfinished(label) ==
    {b \in Books :
        \/ b = "mounts" /\ label \in {"mount", "add", "unmount", "remove"}
        \/ b = "policy" /\ label \in {"register", "mark_running", "session", "ended",
                                      "end_deregister"}
        \/ b = "record" /\ label \in {"session", "ended", "end_deregister", "end_mark"}
        \/ b = "shell" /\ label \in {"stop_open", "stop_terminate"}}

\* The terminal of a command is closed, or it is killed.  Killed inside
\* _mutate, the mutation has happened or not (StoreFile).
Kill(c) ==
    /\ pc[c] # "idle"
    /\ Loss
    /\ Return(c)
    /\ Lapse(at[c], Unfinished(pc[c]))
    /\ UNCHANGED <<reg, mounted, policy, peeked, runner>>
    /\ FreeOrphan(at[c])

\* The proxy process dies; the next one starts with an empty table.
ProxyCrash ==
    /\ Loss
    /\ policy' = [n \in Name |-> "absent"]
    /\ lapsed' = IF Overlap THEN lapsed
                 ELSE [n \in Name |-> lapsed[n] \cup {"policy"}]
    /\ UNCHANGED <<reg, mounted, runVars, cliVars>>

\* sandbox_pids opens the Job Object for `sbx status` (process.py:262), and
\* the proxy for a connection's process (proxy.py:134-137) ...
Peek(n) ==
    /\ n \in Watched
    /\ job[n] # NoCli
    /\ ~peeked[n]
    /\ peeked' = [peeked EXCEPT ![n] = TRUE]
    /\ UNCHANGED <<bookVars, job, runner, cliVars, bounds>>

\* ... and close it again.
Unpeek(n) ==
    /\ peeked[n]
    /\ peeked' = [peeked EXCEPT ![n] = FALSE]
    /\ UNCHANGED <<bookVars, runner, cliVars, bounds>>
    /\ FreeOrphan(n)

-----------------------------------------------------------------------------
CommandBegins(c, n, p) ==
    \/ BeginCreate(c, n, p) \/ BeginStop(c, n, p) \/ BeginDestroy(c, n, p)
    \/ \E preset \in Preset \cup {"none"} : BeginStart(c, n, p, preset)

CreateStep(c) == Mount(c) \/ Add(c) \/ AddFails(c)

StartStep(c) ==
    \/ Launch(c) \/ Register(c)
    \/ MarkRunning(c) \/ MarkRunningFails(c) \/ SessionOver(c)
    \/ EndResolves(c) \/ EndSkips(c) \/ EndDeregister(c)
    \/ EndMark(c) \/ EndMarkFails(c)

StopStep(c) ==
    \/ StopResolves(c) \/ StopMissing(c) \/ StopDeregister(c)
    \/ StopOpen(c) \/ StopFindsNoJob(c) \/ StopTerminate(c) \/ StopClose(c)
    \/ MarkStopped(c) \/ MarkStoppedFails(c)

DestroyStep(c) == Unmount(c) \/ Remove(c) \/ RemoveFails(c)

CliStep(c) == CreateStep(c) \/ StartStep(c) \/ StopStep(c) \/ DestroyStep(c)

\* Connect is the runner's step: the command only waits for it.
RunnerStep(c) ==
    \/ Connect(c) \/ RunnerTooLate(c) \/ CreateJob(c) \/ JobDenied(c)
    \/ LaunchShell(c) \/ HangUp(c) \/ RunnerExits(c)

Interference(c) ==
    \/ MountFails(c) \/ LaunchFails(c) \/ ConnectTimesOut(c) \/ RegisterFails(c)
    \/ EndDeregisterFails(c) \/ StopDeregisterFails(c) \/ StopTerminateFails(c)
    \/ RunnerFails(c) \/ UnmountFails(c)
    \/ SessionAborts(c) \/ Kill(c)

Next ==
    \/ \E c \in Cli :
          \/ \E n \in Name, p \in Project : CommandBegins(c, n, p)
          \/ CliStep(c) \/ RunnerStep(c) \/ Interference(c)
          \/ ShellExits(c) \/ ShellBlocks(c)
    \/ \E n \in Name : Peek(n) \/ Unpeek(n)
    \/ ProxyCrash

Spec == Init /\ [][Next]_vars

(***************************************************************************)
(* Commands and runners keep running, which for a runner that closes its   *)
(* pipe includes that the user lets the output flow (Terminal has the      *)
(* rest); a shell that reads `exit` exits ("the word every supported shell *)
(* exits on", process.py:346).  When users act, shells end by themselves   *)
(* or block in their output is left open.                                  *)
(***************************************************************************)
FairSpec ==
    /\ Spec
    /\ \A c \in Cli : WF_vars(CliStep(c)) /\ WF_vars(RunnerStep(c))

-----------------------------------------------------------------------------
(* Properties of any use, commands overlapping and faults included *)

\* Two sessions never run in one sandbox: of two runners the second is
\* denied the Job Object, whatever the record says (start never asks it).
OneShell ==
    \A c, d \in Cli :
        c # d /\ at[c] = at[d] =>
            runner[c] \notin HoldsJob \/ runner[d] \notin HoldsJob

\* A Job Object outlives its runner only while a stop, a status command or
\* the proxy is about to close a handle on it: however a session, its runner
\* and the commands around it ended, the sandbox can be started again.
JobNotLeaked ==
    \A n \in Name :
        /\ job[n] \in Cli => at[job[n]] = n /\ runner[job[n]] \in HoldsJob
        /\ job[n] = Orphan => Held(n)

\* A runner whose command is gone (killed, timed out, failed after launching
\* it) does not stay: it finds no pipe, or its shell is typed `exit`.  Only a
\* shell that goes on writing without a reader keeps it, until sbx stop.
AbandonedRunnerEnds ==
    \A c \in Cli :
        (pc[c] = "idle" /\ runner[c] # "gone") ~> runner[c] \in {"gone", "stuck"}

\* `sbx start` returns once its runner is gone: the bookkeeping after the
\* session never waits for other commands.
StartReturns ==
    \A c \in Cli : (pc[c] = "session" /\ runner[c] = "gone") ~> pc[c] = "idle"

\* `sbx stop` ends the session whose shell it finds, a blocked one too, and
\* the command serving that session returns, unless a process is lost or a
\* call fails on the way.
StopEndsSession ==
    \A c, d \in Cli :
        (pc[c] = "stop_open" /\ job[at[c]] = d /\ runner[d] \in {"shell", "stuck"})
            ~> ((runner[d] = "gone" /\ pc[d] = "idle") \/ kills > 0 \/ faults > 0)

-----------------------------------------------------------------------------
(* Properties of the use that waits (Overlap = FALSE) *)

\* No command on the sandbox is under way and no runner of it is left.
Settled(n) == \A c \in Cli : at[c] = n => pc[c] = "idle" /\ runner[c] = "gone"

\* Only c's session is going on in its sandbox.
AloneInSession(c) ==
    /\ pc[c] = "session"
    /\ runner[c] = "shell"
    /\ \A d \in Cli \ {c} : at[d] = at[c] => pc[d] = "idle"

\* When everything on a sandbox is over, its record does not say running:
\* between them session_ended and stop get there, unless one of them was
\* kept from the store or killed and no later command has made up for it.
SettledNotRunning ==
    \A n \in Name : Settled(n) /\ "record" \notin lapsed[n] => ~Says(n, "running")

\* ... and the proxy has forgotten it, so that it can idle out, unless a
\* deregistration was refused, skipped or killed, or start broke off after
\* the registration, and none has succeeded since.
SettledUnregistered ==
    \A n \in Name : Settled(n) /\ "policy" \notin lapsed[n] => policy[n] = "absent"

\* ... and it has mounts exactly if it has a record, unless a create or a
\* destroy broke off between the two and none has got to its end since.
SettledMounted ==
    \A n \in Name : Settled(n) /\ "mounts" \notin lapsed[n] => (mounted[n] <=> Recorded(n))

\* A session nobody is stopping is listed as running, and the proxy applies
\* the preset it was started with (none: no entry), unless a stop broke off
\* before the kill; the policy also unless an earlier one was left behind.
SessionIntact ==
    \A c \in Cli : AloneInSession(c) /\ "shell" \notin lapsed[at[c]] =>
        /\ Says(at[c], "running")
        /\ \/ policy[at[c]] = IF net[c] = "none" THEN "absent" ELSE net[c]
           \/ "policy" \in lapsed[at[c]]

-----------------------------------------------------------------------------
(* What the documents say and the code does not do *)

\* spec.md:215: the proxy rejects a sandbox whose preset is none.
NoneIsDenied ==
    \A c \in Cli : AloneInSession(c) /\ net[c] = "none" => policy[at[c]] = "absent"
=============================================================================
