--------------------------- MODULE Waiting_proofs ---------------------------
(***************************************************************************)
(* The user who waits (Overlap = FALSE), for every number of commands,     *)
(* names, projects, presets, failed calls and lost processes: once         *)
(* everything on a sandbox has returned, record, policy table and mounts   *)
(* say so, and a session nobody is ending has what it was started with,    *)
(* except for the books whose last update is known to have been passed     *)
(* over (lapsed).                                                          *)
(***************************************************************************)
EXTENDS Lifecycle_proofs

\* Where the start command is once its record says running.
EndPCs == {"session", "ended", "end_deregister", "end_mark"}

-----------------------------------------------------------------------------
(* The inductive invariant *)

\* On one name, and on one project, there is one command, or a session and
\* the one ending it.
AtMostPair ==
    \A c, d \in Cli :
        /\ c # d /\ pc[c] # "idle" /\ pc[d] # "idle"
        /\ at[c] = at[d] \/ dir[c] = dir[d]
        => \/ pc[c] \in DestroyPCs /\ pc[d] \in EndPCs
           \/ pc[d] \in DestroyPCs /\ pc[c] \in EndPCs

\* A name is recorded for one project.
OneHome == \A n \in Name, p, q \in Project : Holds(reg, p, n) /\ Holds(reg, q, n) => p = q

\* The project of a command that resolved a name is the one recorded under
\* that name, and under no other, as long as there is a record of either.
AtHome ==
    \A c \in Cli : pc[c] \in StartPCs \cup DestroyPCs =>
        \A n \in Name, p \in Project :
            Holds(reg, p, n) => (n = at[c] <=> p = dir[c])

\* A record says running only while its session is on the way to change it.
RunningHasCommand ==
    \A n \in Name : Says(n, "running") =>
        \/ "record" \in lapsed[n]
        \/ \E c \in Cli : at[c] = n /\ pc[c] \in EndPCs

\* A policy is there only while the session that will deregister it is: the
\* record it looks at says running.
PolicyHasCommand ==
    \A n \in Name : policy[n] # "absent" =>
        \/ "policy" \in lapsed[n]
        \/ \E c \in Cli :
            /\ at[c] = n
            /\ pc[c] \in {"mark_running", "session", "ended", "end_deregister"}
            /\ Says(n, "running") \/ pc[c] = "mark_running"

\* Mounts and record differ only between create's or destroy's two steps.
MountHasCommand ==
    \A n \in Name : (mounted[n] <=> ~Recorded(n)) =>
        \/ "mounts" \in lapsed[n]
        \/ \E c \in Cli : at[c] = n /\ pc[c] \in {"add", "remove"}

\* What a command has made true by the time it gets to a step.
CommandFacts == \A c \in Cli :
    /\ pc[c] \in {"launch", "connecting", "register", "end_mark", "stop_open",
                  "stop_terminate", "stop_close", "mark_stopped", "unmount", "remove"} =>
            policy[at[c]] = "absent" \/ "policy" \in lapsed[at[c]]
    /\ pc[c] = "add" => mounted[at[c]]
    /\ pc[c] = "remove" => ~mounted[at[c]]

\* A session whose shell runs or is about to.
Live(c) == pc[c] = "session" /\ runner[c] \in {"connected", "owning", "shell"}

\* What the policy table should say of the sandbox c has started.
Registered(c) ==
    \/ policy[at[c]] = IF net[c] = "none" THEN "absent" ELSE net[c]
    \/ "policy" \in lapsed[at[c]]

\* A live session is registered and listed as running until the command that
\* ends it gets to the kill, after which it is not live any more.
SessionFacts == \A c \in Cli :
    /\ pc[c] \in {"register", "mark_running", "session"} =>
            runner[c] \notin {"launched", "stuck"}
    /\ pc[c] = "mark_running" => Registered(c)
    /\ Live(c) /\ "shell" \notin lapsed[at[c]] =>
        /\ Says(at[c], "running")
        /\ \/ Registered(c)
           \/ \E d \in Cli : at[d] = at[c] /\ pc[d] \in {"stop_open", "stop_terminate"}
        /\ \A d \in Cli : at[d] = at[c] /\ pc[d] \in DestroyPCs =>
              /\ runner[c] = "shell"
              /\ pc[d] \in {"stop_resolve", "stop_deregister", "stop_open",
                            "stop_terminate"}

WaitInv ==
    /\ AtMostPair /\ OneHome /\ AtHome
    /\ RunningHasCommand /\ PolicyHasCommand /\ MountHasCommand
    /\ CommandFacts /\ SessionFacts


\* What is said of the books and of sessions.
BookFacts ==
    /\ RunningHasCommand /\ PolicyHasCommand /\ MountHasCommand
    /\ CommandFacts /\ SessionFacts

\* Nothing is there at first.
LEMMA InitWaitInv == Init => WaitInv
<1> SUFFICES ASSUME Init PROVE WaitInv
  OBVIOUS
<1>1. \A c \in Cli : pc[c] = "idle"
  BY DEF Init
<1>2. \A n \in Name : policy[n] = "absent" /\ ~mounted[n]
  BY DEF Init
<1>3. \A n \in Name, p \in Project : ~Holds(reg, p, n)
  BY DEF Init, Empty, Holds, Known
<1>4. \A n \in Name : ~Lists(reg, n, "running")
  BY <1>3 DEF Lists
<1>5. AtMostPair /\ OneHome /\ AtHome
  BY <1>1, <1>3 DEF AtMostPair, OneHome, AtHome, StartPCs, DestroyPCs, StopPCs
<1>6. RunningHasCommand /\ PolicyHasCommand /\ MountHasCommand
  BY <1>2, <1>3, <1>4
     DEF RunningHasCommand, PolicyHasCommand, MountHasCommand, Says, Recorded
<1>7. CommandFacts /\ SessionFacts
  BY <1>1 DEF CommandFacts, SessionFacts, Live
<1> QED
  BY <1>5, <1>6, <1>7 DEF WaitInv

-----------------------------------------------------------------------------
(* What the three mutations do to who is recorded where and as running *)

\* A project is recorded under one name.
LEMMA OneName ==
  ASSUME NEW d, NEW p \in Project, NEW m \in Name, NEW n \in Name,
         Holds(d, p, m), Holds(d, p, n)
  PROVE  m = n
  BY DEF Holds

\* A sandbox that is listed in some state is recorded.
LEMMA ListedIsRecorded ==
  ASSUME NEW d, NEW n \in Name, NEW st, Lists(d, n, st)
  PROVE  \E p \in Project : Holds(d, p, n)
  BY DEF Lists

\* store.add finds neither the project nor the name, and records both.
LEMMA AddEffect ==
  ASSUME TypeOK, NEW c \in Cli, dir[c] \in Project, Change(AddOf(c))
  PROVE  /\ \A n \in Name : ~Holds(reg, dir[c], n)
         /\ \A p \in Project : ~Holds(reg, p, at[c])
         /\ \A n \in Name, p \in Project :
                Holds(reg', p, n) <=> Holds(reg, p, n) \/ (p = dir[c] /\ n = at[c])
         /\ \A n \in Name : Lists(reg', n, "running") <=> Lists(reg, n, "running")
<1>1. dir[c] \notin Known(reg) /\ \A q \in Known(reg) : reg[q].name # at[c]
  BY DEF Change, Accepts, AddOf
<1>2. reg' = [reg EXCEPT ![dir[c]] = [name |-> at[c], state |-> "created"]]
  BY DEF Change, Apply, Outcome, AddOf
<1>3. at[c] \in Name
  BY DEF TypeOK
<1>4. [name |-> at[c], state |-> "created"] # NoRecord
  BY <1>3, NoRecordIsNoRecord DEF Records, States
<1>5. \A p \in Project : reg'[p] = IF p = dir[c] THEN [name |-> at[c], state |-> "created"]
                                                ELSE reg[p]
  BY <1>2 DEF TypeOK, Registries
<1>6. \A n \in Name, p \in Project :
          Holds(reg', p, n) <=> Holds(reg, p, n) \/ (p = dir[c] /\ n = at[c])
  BY <1>1, <1>4, <1>5 DEF Holds, Known
<1>7. \A n \in Name : Lists(reg', n, "running") <=> Lists(reg, n, "running")
  BY <1>1, <1>4, <1>5 DEF Lists, Holds, Known
<1> QED
  BY <1>1, <1>6, <1>7 DEF Holds

\* store.update keeps the names, and the state it gives is that of the name
\* the command works on.
LEMMA UpdateEffect ==
  ASSUME TypeOK, OneHome, AtHome, NEW c \in Cli, dir[c] \in Project,
         pc[c] \in StartPCs \cup DestroyPCs,
         NEW st \in {"running", "stopped"}, Change(UpdateOf(c, st))
  PROVE  /\ Holds(reg, dir[c], at[c])
         /\ \A n \in Name, p \in Project : Holds(reg', p, n) <=> Holds(reg, p, n)
         /\ \A n \in Name : Lists(reg', n, "running") <=>
                IF n = at[c] THEN st = "running" ELSE Lists(reg, n, "running")
<1>1. dir[c] \in Known(reg)
  BY DEF Change, Accepts, UpdateOf
<1>2. reg' = [reg EXCEPT ![dir[c]] = [name |-> reg[dir[c]].name, state |-> st]]
  BY DEF Change, Apply, Outcome, UpdateOf
<1>3. reg[dir[c]] \in Records
  BY <1>1 DEF TypeOK, Registries, Known
<1>4. reg[dir[c]].name \in Name
  BY <1>3 DEF Records
<1>5. Holds(reg, dir[c], reg[dir[c]].name)
  BY <1>1 DEF Holds
<1>6. reg[dir[c]].name = at[c]
  BY <1>4, <1>5 DEF AtHome
<1>7. [name |-> at[c], state |-> st] # NoRecord
  BY <1>4, <1>6, NoRecordIsNoRecord DEF Records, States
<1>8. \A p \in Project : reg'[p] = IF p = dir[c] THEN [name |-> at[c], state |-> st]
                                                ELSE reg[p]
  BY <1>2, <1>6 DEF TypeOK, Registries
<1>9. \A n \in Name, p \in Project : Holds(reg', p, n) <=> Holds(reg, p, n)
  BY <1>1, <1>6, <1>7, <1>8 DEF Holds, Known
<1>10. Holds(reg, dir[c], at[c])
  BY <1>5, <1>6
<1>11. \A p \in Project : Holds(reg, p, at[c]) => p = dir[c]
  BY <1>4, <1>6, <1>10 DEF OneHome
<1>12. \A n \in Name : Holds(reg, dir[c], n) => n = at[c]
  BY <1>6 DEF Holds
<1>13. ASSUME NEW n \in Name
       PROVE  Lists(reg', n, "running") <=>
                  IF n = at[c] THEN st = "running" ELSE Lists(reg, n, "running")
  <2>1. Lists(reg', n, "running") <=>
            \E p \in Project : Holds(reg, p, n) /\ reg'[p].state = "running"
    BY <1>9 DEF Lists
  <2>2. CASE n = at[c]
    <3>1. reg'[dir[c]].state = st
      BY <1>8
    <3> QED
      BY <2>1, <2>2, <3>1, <1>10, <1>11
  <2>3. CASE n # at[c]
    <3>1. \A p \in Project : Holds(reg, p, n) => reg'[p] = reg[p]
      BY <2>3, <1>8, <1>12
    <3> QED
      BY <2>1, <2>3, <3>1 DEF Lists
  <2> QED
    BY <2>2, <2>3
<1> QED
  BY <1>9, <1>10, <1>13

\* store.remove forgets the name the command works on, and no other.
LEMMA RemoveEffect ==
  ASSUME TypeOK, AtHome, NEW c \in Cli, dir[c] \in Project,
         pc[c] \in StartPCs \cup DestroyPCs, Change(RemoveOf(c))
  PROVE  /\ \A n \in Name, p \in Project :
                Holds(reg', p, n) <=> Holds(reg, p, n) /\ n # at[c]
         /\ \A n \in Name : Lists(reg', n, "running") <=>
                Lists(reg, n, "running") /\ n # at[c]
<1>1. reg' = [reg EXCEPT ![dir[c]] = NoRecord]
  BY DEF Change, Apply, Outcome, RemoveOf
<1>2. \A p \in Project : reg'[p] = IF p = dir[c] THEN NoRecord ELSE reg[p]
  BY <1>1 DEF TypeOK, Registries
<1>3. \A n \in Name, p \in Project : Holds(reg', p, n) <=> Holds(reg, p, n) /\ p # dir[c]
  BY <1>2 DEF Holds, Known
<1>4. \A n \in Name, p \in Project : Holds(reg, p, n) => (n = at[c] <=> p = dir[c])
  BY DEF AtHome
<1>5. \A n \in Name, p \in Project : Holds(reg', p, n) <=> Holds(reg, p, n) /\ n # at[c]
  BY <1>3, <1>4
<1>6. \A n \in Name, p \in Project : Holds(reg', p, n) => reg'[p] = reg[p]
  BY <1>2, <1>3
<1>7. \A n \in Name : Lists(reg', n, "running") <=> Lists(reg, n, "running") /\ n # at[c]
  BY <1>5, <1>6 DEF Lists
<1> QED
  BY <1>5, <1>7

\* What is found of a sandbox by its name is what the registry lists.
LEMMA FindsListed ==
  ASSUME OneHome, NEW n \in Name, NEW p \in Project, Finds(n, p)
  PROVE  Holds(reg, p, n) /\ (reg[p].state = "running" <=> Lists(reg, n, "running"))
  BY DEF Finds, Lists, OneHome

-----------------------------------------------------------------------------
(* Who else is there *)

\* Create, and start until it has marked the record, are alone.
LEMMA Alone ==
  ASSUME AtMostPair, NEW c \in Cli,
         pc[c] \in CreatePCs \cup {"launch", "connecting", "register", "mark_running"}
  PROVE  \A d \in Cli \ {c} : at[d] = at[c] \/ dir[d] = dir[c] => pc[d] = "idle"
  BY DEF AtMostPair, CreatePCs, DestroyPCs, StopPCs, EndPCs

\* A command moves on within its own part of the pair, or returns.
LEMMA MovesOn ==
  ASSUME TypeOK, AtMostPair, NEW c \in Cli, NEW l \in PCs,
         pc' = [pc EXCEPT ![c] = l], at' = at,
         \A d \in Cli : pc'[d] # "idle" => dir'[d] = dir[d],
         \/ l = "idle"
         \/ pc[c] \in DestroyPCs /\ l \in DestroyPCs
         \/ pc[c] \in EndPCs /\ l \in EndPCs
         \/ pc[c] \in PCs \ (DestroyPCs \cup EndPCs \cup {"idle"})
  PROVE  AtMostPair'
<1> USE DEF EndPCs, DestroyPCs, StopPCs
<1> SUFFICES ASSUME NEW d \in Cli, NEW e \in Cli, d # e,
                    at[d] = at[e] \/ dir'[d] = dir'[e],
                    pc'[d] # "idle", pc'[e] # "idle"
             PROVE  \/ pc'[d] \in DestroyPCs /\ pc'[e] \in EndPCs
                    \/ pc'[e] \in DestroyPCs /\ pc'[d] \in EndPCs
  BY DEF AtMostPair
<1>1. /\ pc'[d] = IF d = c THEN l ELSE pc[d]
      /\ pc'[e] = IF e = c THEN l ELSE pc[e]
  BY DEF TypeOK
<1>2. pc[d] # "idle" /\ pc[e] # "idle" /\ (at[d] = at[e] \/ dir[d] = dir[e])
  BY <1>1
<1>3. \/ pc[d] \in DestroyPCs /\ pc[e] \in EndPCs
      \/ pc[e] \in DestroyPCs /\ pc[d] \in EndPCs
  BY <1>2 DEF AtMostPair
<1> QED
  BY <1>1, <1>3

\* A command c begins at step l on the name n and the project p.
BeginsAt(c, n, p, l) ==
    /\ pc' = [pc EXCEPT ![c] = l]
    /\ at' = [at EXCEPT ![c] = n]
    /\ dir' = [dir EXCEPT ![c] = p]

\* All that others do there is a session that is to be ended.
Joinable(c, n, p, l) ==
    \A d \in Cli \ {c} : at[d] = n \/ dir[d] = p =>
        pc[d] = "idle" \/ (l \in DestroyPCs /\ pc[d] = "session")

\* A command begins where nobody is, or to end the session it finds.
LEMMA Joins ==
  ASSUME TypeOK, AtMostPair, NEW c \in Cli, NEW n \in Name, NEW p \in Project, NEW l \in PCs,
         BeginsAt(c, n, p, l), Joinable(c, n, p, l)
  PROVE  AtMostPair'
<1> USE DEF BeginsAt, Joinable
<1> SUFFICES ASSUME NEW d \in Cli, NEW e \in Cli, d # e,
                    at'[d] = at'[e] \/ dir'[d] = dir'[e],
                    pc'[d] # "idle", pc'[e] # "idle"
             PROVE  \/ pc'[d] \in DestroyPCs /\ pc'[e] \in EndPCs
                    \/ pc'[e] \in DestroyPCs /\ pc'[d] \in EndPCs
  BY DEF AtMostPair
<1>1. /\ pc'[d] = IF d = c THEN l ELSE pc[d]
      /\ pc'[e] = IF e = c THEN l ELSE pc[e]
      /\ at'[d] = IF d = c THEN n ELSE at[d]
      /\ at'[e] = IF e = c THEN n ELSE at[e]
      /\ dir'[d] = IF d = c THEN p ELSE dir[d]
      /\ dir'[e] = IF e = c THEN p ELSE dir[e]
  BY DEF TypeOK
<1>2. CASE d # c /\ e # c
  BY <1>1, <1>2 DEF AtMostPair
<1>3. CASE d = c \/ e = c
  BY <1>1, <1>3 DEF EndPCs
<1> QED
  BY <1>2, <1>3

\* Of the commands that begin, only stop and destroy may find another one on
\* the sandbox: a session at its prompt.
LEMMA BeginsWith ==
  ASSUME ~Overlap, NEW c \in Cli, NEW n \in Name, NEW p \in Project, CommandBegins(c, n, p)
  PROVE  \E l \in PCs :
            /\ pc[c] = "idle" /\ runner[c] = "gone"
            /\ BeginsAt(c, n, p, l)
            /\ \A d \in Cli \ {c} : at[d] = n \/ dir[d] = p =>
                  pc[d] = "idle" \/ (l \in DestroyPCs /\ Prompted(d))
            /\ l \in {"mount", "launch", "stop_deregister", "stop_resolve", "unmount"}
            /\ l # "mount" => Finds(n, p)
            /\ l = "unmount" => reg[p].state # "running"
            /\ UNCHANGED <<bookVars, runVars, bounds>>
            /\ l # "launch" => net' = net
<1> USE DEF PCs, CreatePCs, StartPCs, DestroyPCs, StopPCs, Begin, MayBegin, BeginsAt
<1>1. CASE BeginCreate(c, n, p)
  BY <1>1 DEF BeginCreate
<1>2. CASE \E preset \in Preset \cup {"none"} : BeginStart(c, n, p, preset)
  BY <1>2 DEF BeginStart
<1>3. CASE BeginStop(c, n, p)
  BY <1>3 DEF BeginStop
<1>4. CASE BeginDestroy(c, n, p)
  BY <1>4 DEF BeginDestroy
<1> QED
  BY <1>1, <1>2, <1>3, <1>4 DEF CommandBegins

\* Every step of a command but its first moves it on or lets it return.
LEMMA PairOfCommand ==
  ASSUME TypeInv, WaitInv, NEW c \in Cli,
         \/ CreateStep(c) \/ StartStep(c) \/ StopStep(c) \/ DestroyStep(c) \/ Connect(c)
         \/ (Interference(c) /\ ~RunnerFails(c))
  PROVE  AtMostPair'
<1> USE DEF PCs, CreatePCs, StartPCs, DestroyPCs, StopPCs, EndPCs, Goto, Return
<1>0. TypeOK /\ AtMostPair
  BY DEF TypeInv, WaitInv
<1>1. CASE CreateStep(c)
  BY <1>0, <1>1, MovesOn DEF CreateStep, Mount, Add, AddFails, TypeOK
<1>2. CASE EndResolves(c)
  <2>1. PICK p \in Project : Holds(reg, p, at[c]) /\ dir' = [dir EXCEPT ![c] = p]
    BY <1>2 DEF EndResolves, Finds
  <2>2. p = dir[c]
    BY <1>0, <1>2, <2>1 DEF EndResolves, WaitInv, AtHome, TypeOK
  <2>3. dir' = dir
    BY <1>0, <2>1, <2>2 DEF TypeOK
  <2> QED
    BY <1>0, <1>2, <2>3, MovesOn DEF EndResolves
<1>3. CASE StartStep(c) /\ ~EndResolves(c)
  BY <1>0, <1>3, MovesOn
     DEF StartStep, Launch, Register, MarkRunning, MarkRunningFails, SessionOver,
         EndSkips, EndDeregister, EndMark, EndMarkFails, TypeOK
<1>4. CASE StopStep(c)
  BY <1>0, <1>4, MovesOn
     DEF StopStep, StopResolves, StopMissing, StopDeregister, StopOpen, StopFindsNoJob,
         StopTerminate, StopClose, MarkStopped, MarkStoppedFails, TypeOK
<1>5. CASE DestroyStep(c)
  BY <1>0, <1>5, MovesOn DEF DestroyStep, Unmount, Remove, RemoveFails, TypeOK
<1>6. CASE Connect(c)
  BY <1>0, <1>6, MovesOn DEF Connect
<1>7. CASE Interference(c) /\ ~RunnerFails(c)
  BY <1>0, <1>7, MovesOn
     DEF Interference, MountFails, LaunchFails, ConnectTimesOut, RegisterFails,
         EndDeregisterFails, StopDeregisterFails, StopTerminateFails, UnmountFails,
         SessionAborts, Kill, TypeOK
<1> QED
  BY <1>1, <1>2, <1>3, <1>4, <1>5, <1>6, <1>7

\* No step makes three of two.
LEMMA PairStep ==
  ASSUME TypeInv, WaitInv, ~Overlap, Next
  PROVE  AtMostPair'
<1>0. TypeOK /\ AtMostPair
  BY DEF TypeInv, WaitInv
<1>1. ASSUME NEW c \in Cli, NEW n \in Name, NEW p \in Project, CommandBegins(c, n, p)
      PROVE  AtMostPair'
  <2>1. PICK l \in PCs :
            /\ BeginsAt(c, n, p, l)
            /\ \A d \in Cli \ {c} : at[d] = n \/ dir[d] = p =>
                  pc[d] = "idle" \/ (l \in DestroyPCs /\ Prompted(d))
    BY <1>1, BeginsWith
  <2>2. Joinable(c, n, p, l)
    BY <2>1 DEF Prompted, Joinable
  <2> QED
    BY <1>0, <1>1, <2>1, <2>2, Joins
<1>2. ASSUME NEW c \in Cli, CliStep(c) \/ (Interference(c) /\ ~RunnerFails(c))
      PROVE  AtMostPair'
  BY <1>2, PairOfCommand DEF CliStep
<1>3. ASSUME NEW c \in Cli,
             RunnerStep(c) \/ RunnerFails(c) \/ ShellExits(c) \/ ShellBlocks(c)
      PROVE  AtMostPair'
  <2>1. CASE Connect(c)
    BY <2>1, PairOfCommand
  <2>2. CASE ~Connect(c)
    BY <1>0, <1>3, <2>2
       DEF AtMostPair, RunnerStep, RunnerTooLate, CreateJob, JobDenied, LaunchShell,
           HangUp, RunnerExits, RunnerFails, ShellExits, ShellBlocks, RunnerBecomes, cliVars
  <2> QED
    BY <2>1, <2>2
<1>4. CASE ProxyCrash \/ \E n \in Name : Peek(n) \/ Unpeek(n)
  BY <1>0, <1>4 DEF AtMostPair, ProxyCrash, Peek, Unpeek, cliVars
<1> QED
  BY <1>1, <1>2, <1>3, <1>4 DEF Next, CliStep

-----------------------------------------------------------------------------
(* Who is recorded where *)

\* While the registry keeps its names, a command that moves on or returns
\* stays at home.
LEMMA HomeKept ==
  ASSUME TypeOK, OneHome, AtHome, at' = at,
         \A n \in Name, p \in Project : Holds(reg', p, n) => Holds(reg, p, n),
         \A d \in Cli : pc'[d] \in StartPCs \cup DestroyPCs =>
            pc[d] \in StartPCs \cup DestroyPCs /\ dir'[d] = dir[d]
  PROVE  OneHome' /\ AtHome'
  BY DEF OneHome, AtHome

\* Every step of a command but its first and store.add keeps the names.
LEMMA NamesKept ==
  ASSUME TypeInv, WaitInv, NEW c \in Cli,
         \/ CreateStep(c) /\ ~Add(c)
         \/ StartStep(c) \/ StopStep(c) \/ DestroyStep(c)
  PROVE  \A n \in Name, p \in Project : Holds(reg', p, n) => Holds(reg, p, n)
<1>0. TypeOK /\ OneHome /\ AtHome /\ (pc[c] # "idle" => dir[c] \in Project)
  BY DEF TypeInv, WaitInv, WorksSomewhere
<1>1. CASE MarkRunning(c) \/ EndMark(c) \/ MarkStopped(c)
  <2>1. pc[c] \in StartPCs \cup DestroyPCs
    BY <1>1 DEF MarkRunning, EndMark, MarkStopped, StartPCs, DestroyPCs, StopPCs
  <2>2. Change(UpdateOf(c, "running")) \/ Change(UpdateOf(c, "stopped"))
    BY <1>1 DEF MarkRunning, EndMark, MarkStopped
  <2>3. dir[c] \in Project
    BY <1>0, <2>1 DEF StartPCs, DestroyPCs, StopPCs
  <2> QED
    BY <1>0, <2>1, <2>2, <2>3, UpdateEffect
<1>2. CASE Remove(c)
  <2>1. pc[c] \in StartPCs \cup DestroyPCs /\ dir[c] \in Project
    BY <1>0, <1>2 DEF Remove, StartPCs, DestroyPCs, StopPCs
  <2> QED
    BY <1>0, <1>2, <2>1, RemoveEffect DEF Remove
<1>3. CASE ~MarkRunning(c) /\ ~EndMark(c) /\ ~MarkStopped(c) /\ ~Remove(c)
  <2>1. reg' = reg
    BY <1>3
       DEF CreateStep, Mount, AddFails, StartStep, Launch, Register, MarkRunningFails,
           SessionOver, EndResolves, EndSkips, EndDeregister, EndMarkFails, StopStep,
           StopResolves, StopMissing, StopDeregister, StopOpen, StopFindsNoJob,
           StopTerminate, StopClose, MarkStoppedFails, DestroyStep, Unmount, RemoveFails,
           bookVars
  <2> QED
    BY <2>1
<1> QED
  BY <1>1, <1>2, <1>3

\* A command keeps to the sandbox it has resolved.
LEMMA StaysHome ==
  ASSUME TypeInv, WaitInv, NEW c \in Cli,
         \/ CreateStep(c) \/ StartStep(c) \/ StopStep(c) \/ DestroyStep(c) \/ Connect(c)
         \/ (Interference(c) /\ ~RunnerFails(c)),
         ~Add(c)
  PROVE  /\ at' = at
         /\ \A d \in Cli : pc'[d] \in StartPCs \cup DestroyPCs =>
                pc[d] \in StartPCs \cup DestroyPCs /\ dir'[d] = dir[d]
<1> USE DEF PCs, CreatePCs, StartPCs, DestroyPCs, StopPCs, Goto, Return
<1>0. TypeOK
  BY DEF TypeInv
<1>1. CASE CreateStep(c)
  BY <1>0, <1>1 DEF CreateStep, Mount, AddFails, TypeOK
<1>2. CASE EndResolves(c)
  <2>1. PICK p \in Project : Holds(reg, p, at[c]) /\ dir' = [dir EXCEPT ![c] = p]
    BY <1>2 DEF EndResolves, Finds
  <2>2. p = dir[c]
    BY <1>0, <1>2, <2>1 DEF EndResolves, WaitInv, AtHome, TypeOK
  <2>3. dir' = dir
    BY <1>0, <2>1, <2>2 DEF TypeOK
  <2> QED
    BY <1>0, <1>2, <2>3 DEF EndResolves, TypeOK
<1>3. CASE StartStep(c) /\ ~EndResolves(c)
  BY <1>0, <1>3
     DEF StartStep, Launch, Register, MarkRunning, MarkRunningFails, SessionOver,
         EndSkips, EndDeregister, EndMark, EndMarkFails, TypeOK
<1>4. CASE StopStep(c)
  BY <1>0, <1>4
     DEF StopStep, StopResolves, StopMissing, StopDeregister, StopOpen, StopFindsNoJob,
         StopTerminate, StopClose, MarkStopped, MarkStoppedFails, TypeOK
<1>5. CASE DestroyStep(c)
  BY <1>0, <1>5 DEF DestroyStep, Unmount, Remove, RemoveFails, TypeOK
<1>6. CASE Connect(c)
  BY <1>0, <1>6 DEF Connect, TypeOK
<1>7. CASE Interference(c) /\ ~RunnerFails(c)
  BY <1>0, <1>7
     DEF Interference, MountFails, LaunchFails, ConnectTimesOut, RegisterFails,
         EndDeregisterFails, StopDeregisterFails, StopTerminateFails, UnmountFails,
         SessionAborts, Kill, TypeOK
<1> QED
  BY <1>1, <1>2, <1>3, <1>4, <1>5, <1>6, <1>7

\* A new command resolves its sandbox.
LEMMA BeginsAtHome ==
  ASSUME TypeInv, WaitInv, ~Overlap, NEW c \in Cli, NEW n \in Name, NEW p \in Project,
         CommandBegins(c, n, p)
  PROVE  OneHome' /\ AtHome'
<1>1. PICK l \in PCs :
          /\ BeginsAt(c, n, p, l)
          /\ l \in {"mount", "launch", "stop_deregister", "stop_resolve", "unmount"}
          /\ l # "mount" => Finds(n, p)
          /\ UNCHANGED <<bookVars, runVars, bounds>>
  BY BeginsWith
<1>2. reg' = reg
  BY <1>1 DEF bookVars
<1>3. OneHome'
  BY <1>2 DEF WaitInv, OneHome
<1>4. ASSUME NEW d \in Cli, pc'[d] \in StartPCs \cup DestroyPCs,
             NEW m \in Name, NEW q \in Project, Holds(reg, q, m)
      PROVE  m = at'[d] <=> q = dir'[d]
  <2>1. CASE d = c
    <3>1. l # "mount"
      BY <1>1, <1>4, <2>1 DEF TypeInv, TypeOK, BeginsAt, StartPCs, DestroyPCs, StopPCs
    <3>2. Holds(reg, p, n)
      BY <1>1, <3>1 DEF Finds
    <3>3. at'[d] = n /\ dir'[d] = p
      BY <1>1, <2>1 DEF TypeInv, TypeOK, BeginsAt
    <3>4. q = p => m = n
      BY <1>4, <3>2, OneName
    <3>5. m = n => q = p
      BY <1>4, <3>2 DEF WaitInv, OneHome
    <3> QED
      BY <3>3, <3>4, <3>5
  <2>2. CASE d # c
    <3>1. pc'[d] = pc[d] /\ at'[d] = at[d] /\ dir'[d] = dir[d]
      BY <1>1, <2>2 DEF TypeInv, TypeOK, BeginsAt
    <3> QED
      BY <1>4, <3>1 DEF WaitInv, AtHome
  <2> QED
    BY <2>1, <2>2
<1>5. AtHome'
  BY <1>2, <1>4 DEF AtHome
<1> QED
  BY <1>3, <1>5

\* The new record is no other command's.
LEMMA AddsHome ==
  ASSUME TypeInv, WaitInv, NEW c \in Cli, Add(c)
  PROVE  OneHome' /\ AtHome'
<1>1. TypeOK /\ dir[c] \in Project /\ Change(AddOf(c)) /\ at' = at /\ pc[c] = "add"
  BY DEF TypeInv, WorksSomewhere, Add, Return
<1>2. /\ \A n \in Name : ~Holds(reg, dir[c], n)
      /\ \A p \in Project : ~Holds(reg, p, at[c])
      /\ \A n \in Name, p \in Project :
             Holds(reg', p, n) <=> Holds(reg, p, n) \/ (p = dir[c] /\ n = at[c])
  BY <1>1, AddEffect
<1>3. OneHome'
  BY <1>2 DEF WaitInv, OneHome
<1>4. \A d \in Cli : pc'[d] \in StartPCs \cup DestroyPCs =>
          /\ d # c /\ pc'[d] = pc[d] /\ dir'[d] = dir[d]
          /\ at[d] # at[c] /\ dir[d] # dir[c]
  <2>1. \A d \in Cli \ {c} : at[d] = at[c] \/ dir[d] = dir[c] => pc[d] = "idle"
    BY <1>1, Alone DEF WaitInv, CreatePCs
  <2> QED
    BY <1>1, <2>1 DEF Add, Return, TypeOK, StartPCs, DestroyPCs, StopPCs
<1>5. AtHome'
  BY <1>1, <1>2, <1>4 DEF WaitInv, AtHome
<1> QED
  BY <1>3, <1>5

\* No step takes a command from its sandbox.
LEMMA HomeStep ==
  ASSUME TypeInv, WaitInv, ~Overlap, Next
  PROVE  OneHome' /\ AtHome'
<1>0. TypeOK /\ OneHome /\ AtHome
  BY DEF TypeInv, WaitInv
<1>1. ASSUME NEW c \in Cli, CliStep(c) \/ (Interference(c) /\ ~RunnerFails(c)) \/ Connect(c),
             ~Add(c)
      PROVE  OneHome' /\ AtHome'
  <2>1. /\ at' = at
        /\ \A d \in Cli : pc'[d] \in StartPCs \cup DestroyPCs =>
               pc[d] \in StartPCs \cup DestroyPCs /\ dir'[d] = dir[d]
    BY <1>1, StaysHome DEF CliStep
  <2>2. \A n \in Name, p \in Project : Holds(reg', p, n) => Holds(reg, p, n)
    <3>1. CASE CliStep(c)
      BY <1>1, <3>1, NamesKept DEF CliStep
    <3>2. CASE ~CliStep(c)
      <4>1. reg' = reg
        BY <1>1, <3>2
           DEF Interference, MountFails, LaunchFails, ConnectTimesOut, RegisterFails,
               EndDeregisterFails, StopDeregisterFails, StopTerminateFails, UnmountFails,
               SessionAborts, Kill, Connect, bookVars
      <4> QED
        BY <4>1
    <3> QED
      BY <3>1, <3>2
  <2> QED
    BY <1>0, <2>1, <2>2, HomeKept
<1>2. ASSUME NEW c \in Cli, RunnerStep(c) \/ RunnerFails(c) \/ ShellExits(c) \/ ShellBlocks(c),
             ~Connect(c)
      PROVE  OneHome' /\ AtHome'
  BY <1>0, <1>2
     DEF OneHome, AtHome, RunnerStep, RunnerTooLate, CreateJob, JobDenied, LaunchShell,
         HangUp, RunnerExits, RunnerFails, ShellExits, ShellBlocks, RunnerBecomes, cliVars,
         bookVars
<1>3. CASE ProxyCrash \/ \E n \in Name : Peek(n) \/ Unpeek(n)
  BY <1>0, <1>3 DEF OneHome, AtHome, ProxyCrash, Peek, Unpeek, cliVars, bookVars
<1> QED
  BY <1>1, <1>2, <1>3, BeginsAtHome, AddsHome DEF Next

-----------------------------------------------------------------------------
(* What each step leaves true of records, policies, mounts and sessions *)

\* A book lapses ...
LEMMA LapseEffect ==
  ASSUME TypeInv, ~Overlap, NEW n \in Name, NEW books, Lapse(n, books)
  PROVE  \A m \in Name, b \in Books :
            b \in lapsed'[m] <=> b \in lapsed[m] \/ (m = n /\ b \in books)
  BY DEF TypeInv, TypeOK, Lapse, Note

\* ... and is in order again.
LEMMA InOrderEffect ==
  ASSUME TypeInv, ~Overlap, NEW n \in Name, NEW books, InOrder(n, books)
  PROVE  \A m \in Name, b \in Books :
            b \in lapsed'[m] <=> b \in lapsed[m] /\ ~(m = n /\ b \in books)
  BY DEF TypeInv, TypeOK, InOrder, Note

\* Only a start reads a preset.
LEMMA BeginNet ==
  ASSUME NEW c \in Cli, NEW n \in Name, NEW p \in Project, CommandBegins(c, n, p)
  PROVE  net' = net \/ net' = [net EXCEPT ![c] = net'[c]]
  BY DEF CommandBegins, BeginCreate, BeginStart, BeginStop, BeginDestroy

\* A command begins: what it finds is what the idle sandbox, or the session it
\* is to end, has left.
LEMMA BeginBooks ==
  ASSUME TypeInv, WaitInv, ~Overlap, NEW c \in Cli, NEW n \in Name, NEW p \in Project,
         CommandBegins(c, n, p)
  PROVE  BookFacts'
<1>1. PICK l \in PCs :
          /\ pc[c] = "idle" /\ runner[c] = "gone"
          /\ BeginsAt(c, n, p, l)
          /\ \A d \in Cli \ {c} : at[d] = n \/ dir[d] = p =>
                pc[d] = "idle" \/ (l \in DestroyPCs /\ Prompted(d))
          /\ l \in {"mount", "launch", "stop_deregister", "stop_resolve", "unmount"}
          /\ l # "mount" => Finds(n, p)
          /\ l = "unmount" => reg[p].state # "running"
          /\ UNCHANGED <<bookVars, runVars, bounds>>
          /\ l # "launch" => net' = net
  BY BeginsWith
<1>2. /\ pc \in [Cli -> PCs] /\ at \in [Cli -> Name] /\ net \in [Cli -> Preset \cup {"none"}]
  BY DEF TypeInv, TypeOK
<1>3. \A d \in Cli :
          /\ pc'[d] = IF d = c THEN l ELSE pc[d]
          /\ at'[d] = IF d = c THEN n ELSE at[d]
  BY <1>1, <1>2 DEF BeginsAt
<1>4. reg' = reg /\ mounted' = mounted /\ policy' = policy /\ lapsed' = lapsed
      /\ runner' = runner
  BY <1>1 DEF bookVars, runVars
<1>5. l = "unmount" => ~Lists(reg, n, "running")
  BY <1>1, FindsListed DEF WaitInv
<1>6. \A d \in Cli \ {c} : at[d] = n =>
          pc[d] = "idle" \/ (l \in DestroyPCs /\ pc[d] = "session"
                             /\ runner[d] \notin {"connected", "owning"})
  BY <1>1 DEF Prompted
<1>7. RunningHasCommand'
  BY <1>1, <1>3, <1>4 DEF WaitInv, RunningHasCommand, Says, EndPCs
<1>8. PolicyHasCommand'
  BY <1>1, <1>3, <1>4 DEF WaitInv, PolicyHasCommand, Says
<1>9. MountHasCommand'
  BY <1>1, <1>3, <1>4 DEF WaitInv, MountHasCommand, Recorded
<1>10. CommandFacts'
  BY <1>1, <1>3, <1>4, <1>5, <1>6 DEF WaitInv, CommandFacts, PolicyHasCommand, Says, DestroyPCs, StopPCs
<1>11. ASSUME NEW d \in Cli, pc'[d] \in {"register", "mark_running", "session"}
       PROVE  /\ d # c /\ pc'[d] = pc[d] /\ at'[d] = at[d] /\ net'[d] = net[d]
              /\ (Registered(d) <=> Registered(d)') /\ (Live(d) <=> Live(d)')
  <2>1. d # c /\ pc'[d] = pc[d] /\ at'[d] = at[d]
    BY <1>1, <1>3, <1>11
  <2>2. net' = net \/ net' = [net EXCEPT ![c] = net'[c]]
    BY BeginNet
  <2>3. net'[d] = net[d]
    BY <1>2, <2>1, <2>2
  <2> QED
    BY <1>4, <2>1, <2>3 DEF Registered, Live
<1>12. SessionFacts'
  <2>1. ASSUME NEW d \in Cli, pc'[d] = "session", Live(d), "shell" \notin lapsed[at[d]],
               NEW e \in Cli, at'[e] = at'[d], pc'[e] \in DestroyPCs
        PROVE  /\ runner[d] = "shell"
               /\ pc'[e] \in {"stop_resolve", "stop_deregister", "stop_open", "stop_terminate"}
    <3>1. d # c /\ pc[d] = "session" /\ at'[d] = at[d]
      BY <2>1, <1>11
    <3>2. Lists(reg, at[d], "running")
      BY <2>1, <3>1 DEF WaitInv, SessionFacts, Says
    <3>3. CASE e = c
      <4>1. at[d] = n
        BY <2>1, <3>1, <3>3, <1>3
      <4>2. runner[d] = "shell"
        BY <1>6, <2>1, <3>1, <4>1 DEF Live
      <4>3. l # "unmount"
        BY <1>5, <3>2, <4>1
      <4> QED
        BY <1>1, <1>3, <2>1, <3>1, <3>3, <4>2, <4>3 DEF DestroyPCs, StopPCs
    <3>4. CASE e # c
      BY <1>3, <2>1, <3>1, <3>4 DEF WaitInv, SessionFacts
    <3> QED
      BY <3>3, <3>4
  <2>2. ASSUME NEW d \in Cli, pc'[d] = "session", Live(d), "shell" \notin lapsed[at[d]]
        PROVE  /\ Says(at[d], "running")
               /\ \/ Registered(d)
                  \/ \E e \in Cli : at'[e] = at[d] /\ pc'[e] \in {"stop_open", "stop_terminate"}
    <3>1. d # c /\ pc[d] = "session"
      BY <2>2, <1>11
    <3>2. /\ Says(at[d], "running")
          /\ \/ Registered(d)
             \/ \E e \in Cli : at[e] = at[d] /\ pc[e] \in {"stop_open", "stop_terminate"}
      BY <2>2, <3>1 DEF WaitInv, SessionFacts
    <3> QED
      BY <1>1, <1>3, <3>2
  <2>3. \A d \in Cli : pc'[d] \in {"register", "mark_running", "session"} =>
            /\ runner[d] \notin {"launched", "stuck"}
            /\ pc'[d] = "mark_running" => Registered(d)
    BY <1>11 DEF WaitInv, SessionFacts
  <2>4. \A d \in Cli : Live(d)' => pc'[d] = "session"
    BY DEF Live
  <2>5. \A m \in Name : Says(m, "running")' <=> Says(m, "running")
    BY <1>4 DEF Says
  <2> QED
    BY <1>4, <1>11, <2>1, <2>2, <2>3, <2>4, <2>5 DEF SessionFacts, Says
<1> QED
  BY <1>7, <1>8, <1>9, <1>10, <1>12 DEF BookFacts

\* Create and destroy change mounts and records.
LEMMA CreateDestroyBooks ==
  ASSUME TypeInv, WaitInv, ~Overlap, NEW c \in Cli,
         \/ Mount(c) \/ Add(c) \/ AddFails(c) \/ MountFails(c) \/ Unmount(c)
         \/ Remove(c) \/ RemoveFails(c) \/ UnmountFails(c)
  PROVE  BookFacts'
<1> USE DEF RunningHasCommand, PolicyHasCommand, MountHasCommand, CommandFacts, SessionFacts,
            Live, Registered, Says, Recorded, EndPCs, DestroyPCs, StopPCs
<1>0. /\ BookFacts
      /\ pc \in [Cli -> PCs] /\ at \in [Cli -> Name] /\ net \in [Cli -> Preset \cup {"none"}]
      /\ mounted \in [Name -> BOOLEAN] /\ policy \in [Name -> Preset \cup {"absent"}]
      /\ TypeOK /\ AtMostPair /\ OneHome /\ AtHome
      /\ pc[c] # "idle" => dir[c] \in Project
      /\ pc[c] \in CreatePCs => \A d \in Cli \ {c} : at[d] = at[c] => pc[d] = "idle"
  BY Alone DEF TypeInv, TypeOK, WaitInv, BookFacts, WorksSomewhere
<1>00. pc[c] \in DestroyPCs =>
          \A d \in Cli \ {c} : at[d] = at[c] => pc[d] \in EndPCs \cup {"idle"}
  BY <1>0 DEF AtMostPair
<1>1. CASE Mount(c)
  BY <1>0, <1>1 DEF Mount, Goto, BookFacts, runVars, CreatePCs
<1>2. CASE Add(c)
  <2>1. /\ \A n \in Name, p \in Project :
             Holds(reg', p, n) <=> Holds(reg, p, n) \/ (p = dir[c] /\ n = at[c])
        /\ \A n \in Name : Lists(reg', n, "running") <=> Lists(reg, n, "running")
    BY <1>0, <1>2, AddEffect DEF Add
  <2>2. \A m \in Name, b \in Books :
            b \in lapsed'[m] <=> b \in lapsed[m] /\ ~(m = at[c] /\ b \in {"mounts"})
    BY <1>0, <1>2, InOrderEffect DEF Add
  <2> QED
    BY <1>0, <1>2, <2>1, <2>2 DEF Add, Return, BookFacts, runVars, CreatePCs, Books
<1>3. CASE AddFails(c) \/ MountFails(c) \/ UnmountFails(c) \/ RemoveFails(c)
  <2>1. \A m \in Name, b \in Books :
            b \in lapsed'[m] <=> b \in lapsed[m] \/ (m = at[c] /\ b \in {"mounts"})
    BY <1>0, <1>3, LapseEffect DEF AddFails, MountFails, UnmountFails, RemoveFails
  <2>2. CASE AddFails(c)
    BY <1>0, <1>00, <2>1, <2>2 DEF AddFails, Return, BookFacts, runVars, Books, CreatePCs
  <2>3. CASE MountFails(c)
    BY <1>0, <1>00, <2>1, <2>3 DEF MountFails, Return, BookFacts, runVars, Books, CreatePCs
  <2>4. CASE UnmountFails(c)
    BY <1>0, <1>00, <2>1, <2>4 DEF UnmountFails, Return, BookFacts, runVars, Books, CreatePCs
  <2>5. CASE RemoveFails(c)
    BY <1>0, <1>00, <2>1, <2>5 DEF RemoveFails, Return, BookFacts, runVars, Books, CreatePCs
  <2> QED
    BY <1>3, <2>2, <2>3, <2>4, <2>5
<1>4. CASE Unmount(c)
  BY <1>0, <1>00, <1>4 DEF Unmount, Goto, BookFacts, runVars
<1>5. CASE Remove(c)
  <2>1. /\ \A n \in Name, p \in Project :
             Holds(reg', p, n) <=> Holds(reg, p, n) /\ n # at[c]
        /\ \A n \in Name : Lists(reg', n, "running") <=> Lists(reg, n, "running") /\ n # at[c]
    BY <1>0, <1>5, RemoveEffect DEF Remove
  <2>2. \A m \in Name, b \in Books :
            b \in lapsed'[m] <=> b \in lapsed[m] /\ ~(m = at[c] /\ b \in {"record", "mounts"})
    BY <1>0, <1>5, InOrderEffect DEF Remove
  <2> QED
    BY <1>0, <1>5, <2>1, <2>2 DEF Remove, Return, BookFacts, runVars, Books
<1> QED
  BY <1>1, <1>2, <1>3, <1>4, <1>5

\* Start registers and marks.
LEMMA StartBooks ==
  ASSUME TypeInv, JobInv, WaitInv, ~Overlap, NEW c \in Cli,
         \/ Launch(c) \/ LaunchFails(c) \/ ConnectTimesOut(c) \/ Connect(c)
         \/ Register(c) \/ RegisterFails(c) \/ MarkRunning(c) \/ MarkRunningFails(c)
  PROVE  BookFacts'
<1> USE DEF RunningHasCommand, PolicyHasCommand, MountHasCommand, CommandFacts, SessionFacts,
            Live, Registered, Says, Recorded, EndPCs, DestroyPCs, StopPCs
<1>0. /\ BookFacts
      /\ pc \in [Cli -> PCs] /\ at \in [Cli -> Name] /\ net \in [Cli -> Preset \cup {"none"}]
      /\ runner \in [Cli -> RunnerStates] /\ lapsed \in [Name -> SUBSET Books]
      /\ mounted \in [Name -> BOOLEAN] /\ policy \in [Name -> Preset \cup {"absent"}]
      /\ TypeOK /\ AtMostPair /\ OneHome /\ AtHome
      /\ pc[c] # "idle" => dir[c] \in Project
  BY DEF TypeInv, TypeOK, WaitInv, BookFacts, WorksSomewhere
<1>00. pc[c] \in {"launch", "connecting", "register", "mark_running"} =>
          \A d \in Cli \ {c} : at[d] = at[c] => pc[d] = "idle"
  BY <1>0, Alone
<1>1. CASE Launch(c)
  BY <1>0, <1>00, <1>1
     DEF Launch, BookFacts, bookVars, runVars, Goto, Return
<1>2. CASE LaunchFails(c) \/ ConnectTimesOut(c)
  BY <1>0, <1>00, <1>2
     DEF LaunchFails, ConnectTimesOut, BookFacts, bookVars, runVars, Goto, Return
<1>3. CASE Connect(c)
  BY <1>0, <1>00, <1>3
     DEF Connect, BookFacts, bookVars, runVars, Goto, Return
<1>4. CASE Register(c)
  <2>1. \A m \in Name, b \in Books :
            b \in lapsed'[m] <=> b \in lapsed[m] /\ ~(m = at[c] /\ b \in {"policy"})
    BY <1>0, <1>4, InOrderEffect DEF Register
  <2>2. net[c] # "none"
    BY <1>4 DEF Register, TypeInv, RegistersPreset
  <2> QED
    BY <1>0, <1>00, <1>4, <2>1, <2>2
       DEF Register, BookFacts, bookVars, runVars, Goto, Return, Books
<1>5. CASE RegisterFails(c)
  <2>1. \A m \in Name, b \in Books :
            b \in lapsed'[m] <=> b \in lapsed[m] \/ (m = at[c] /\ b \in {"policy"})
    BY <1>0, <1>5, LapseEffect DEF RegisterFails
  <2> QED
    BY <1>0, <1>00, <1>5, <2>1
       DEF RegisterFails, BookFacts, bookVars, runVars, Goto, Return, Books
<1>6. CASE MarkRunning(c)
  <2>1. /\ \A n \in Name, p \in Project : Holds(reg', p, n) <=> Holds(reg, p, n)
        /\ \A n \in Name : Lists(reg', n, "running") <=> n = at[c] \/ Lists(reg, n, "running")
    BY <1>0, <1>6, UpdateEffect DEF MarkRunning, StartPCs, DestroyPCs, StopPCs
  <2>2. \A m \in Name, b \in Books :
            b \in lapsed'[m] <=> b \in lapsed[m] /\ ~(m = at[c] /\ b \in {"record", "shell"})
    BY <1>0, <1>6, InOrderEffect DEF MarkRunning
  <2> QED
    BY <1>0, <1>00, <1>6, <2>1, <2>2
       DEF MarkRunning, BookFacts, bookVars, runVars, Goto, Return, Books
<1>7. CASE MarkRunningFails(c)
  <2>1. \A m \in Name, b \in Books :
            b \in lapsed'[m] <=> b \in lapsed[m] \/ (m = at[c] /\ b \in {"policy"})
    BY <1>0, <1>7, LapseEffect DEF MarkRunningFails
  <2> QED
    BY <1>0, <1>00, <1>7, <2>1
       DEF MarkRunningFails, BookFacts, bookVars, runVars, Goto, Return, Books
<1> QED
  BY <1>1, <1>2, <1>3, <1>4, <1>5, <1>6, <1>7

\* The end of a session takes back what its beginning did.
LEMMA EndBooks ==
  ASSUME TypeInv, JobInv, WaitInv, ~Overlap, NEW c \in Cli,
         \/ SessionOver(c) \/ SessionAborts(c) \/ EndResolves(c) \/ EndSkips(c)
         \/ EndDeregister(c) \/ EndDeregisterFails(c) \/ EndMark(c) \/ EndMarkFails(c)
  PROVE  BookFacts'
<1> USE DEF RunningHasCommand, PolicyHasCommand, MountHasCommand, CommandFacts, SessionFacts,
            Live, Registered, Says, Recorded, EndPCs, DestroyPCs, StopPCs
<1>0. /\ BookFacts
      /\ pc \in [Cli -> PCs] /\ at \in [Cli -> Name] /\ net \in [Cli -> Preset \cup {"none"}]
      /\ runner \in [Cli -> RunnerStates] /\ lapsed \in [Name -> SUBSET Books]
      /\ mounted \in [Name -> BOOLEAN] /\ policy \in [Name -> Preset \cup {"absent"}]
      /\ TypeOK /\ AtMostPair /\ OneHome /\ AtHome
      /\ pc[c] # "idle" => dir[c] \in Project
  BY DEF TypeInv, TypeOK, WaitInv, BookFacts, WorksSomewhere
<1>00. pc[c] \in EndPCs =>
          \A d \in Cli \ {c} : at[d] = at[c] => pc[d] \in DestroyPCs \cup {"idle"}
  BY <1>0 DEF AtMostPair
<1>1. CASE SessionOver(c) \/ SessionAborts(c)
  BY <1>0, <1>00, <1>1
     DEF SessionOver, SessionAborts, BookFacts, bookVars, runVars, Goto, Return
<1>2. CASE EndResolves(c)
  BY <1>0, <1>00, <1>2
     DEF EndResolves, BookFacts, bookVars, runVars, Goto, Return
<1>3. CASE EndSkips(c)
  <2>1. \A m \in Name, b \in Books :
            b \in lapsed'[m] <=> b \in lapsed[m] \/ (m = at[c] /\ Says(m, "running") /\ b \in {"record", "policy"})
    BY <1>0, <1>3, LapseEffect DEF EndSkips
  <2> QED
    BY <1>0, <1>00, <1>3, <2>1
       DEF EndSkips, BookFacts, bookVars, runVars, Goto, Return, Books
<1>4. CASE EndDeregister(c)
  <2>1. \A m \in Name, b \in Books :
            b \in lapsed'[m] <=> b \in lapsed[m] /\ ~(m = at[c] /\ b \in {"policy"})
    BY <1>0, <1>4, InOrderEffect DEF EndDeregister
  <2> QED
    BY <1>0, <1>00, <1>4, <2>1
       DEF EndDeregister, BookFacts, bookVars, runVars, Goto, Return, Books
<1>5. CASE EndDeregisterFails(c)
  <2>1. \A m \in Name, b \in Books :
            b \in lapsed'[m] <=> b \in lapsed[m] \/ (m = at[c] /\ b \in {"policy"})
    BY <1>0, <1>5, LapseEffect DEF EndDeregisterFails
  <2> QED
    BY <1>0, <1>00, <1>5, <2>1
       DEF EndDeregisterFails, BookFacts, bookVars, runVars, Goto, Return, Books
<1>6. CASE EndMark(c)
  <2>1. /\ \A n \in Name, p \in Project : Holds(reg', p, n) <=> Holds(reg, p, n)
        /\ \A n \in Name : Lists(reg', n, "running") <=> n # at[c] /\ Lists(reg, n, "running")
    BY <1>0, <1>6, UpdateEffect DEF EndMark, StartPCs, DestroyPCs, StopPCs
  <2>2. \A m \in Name, b \in Books :
            b \in lapsed'[m] <=> b \in lapsed[m] /\ ~(m = at[c] /\ b \in {"record"})
    BY <1>0, <1>6, InOrderEffect DEF EndMark
  <2> QED
    BY <1>0, <1>00, <1>6, <2>1, <2>2
       DEF EndMark, BookFacts, bookVars, runVars, Goto, Return, Books
<1>7. CASE EndMarkFails(c)
  <2>1. \A m \in Name, b \in Books :
            b \in lapsed'[m] <=> b \in lapsed[m] \/ (m = at[c] /\ b \in {"record"})
    BY <1>0, <1>7, LapseEffect DEF EndMarkFails
  <2> QED
    BY <1>0, <1>00, <1>7, <2>1
       DEF EndMarkFails, BookFacts, bookVars, runVars, Goto, Return, Books
<1> QED
  BY <1>1, <1>2, <1>3, <1>4, <1>5, <1>6, <1>7

\* Stop deregisters and terminates before it marks.
LEMMA StopBooks ==
  ASSUME TypeInv, JobInv, WaitInv, ~Overlap, NEW c \in Cli,
         \/ StopResolves(c) \/ StopMissing(c) \/ StopDeregister(c) \/ StopDeregisterFails(c)
         \/ StopOpen(c) \/ StopFindsNoJob(c) \/ StopTerminate(c) \/ StopTerminateFails(c)
         \/ StopClose(c) \/ MarkStopped(c) \/ MarkStoppedFails(c)
  PROVE  BookFacts'
<1> USE DEF RunningHasCommand, PolicyHasCommand, MountHasCommand, CommandFacts, SessionFacts,
            Live, Registered, Says, Recorded, EndPCs, DestroyPCs, StopPCs
<1>0. /\ BookFacts
      /\ pc \in [Cli -> PCs] /\ at \in [Cli -> Name] /\ net \in [Cli -> Preset \cup {"none"}]
      /\ runner \in [Cli -> RunnerStates] /\ lapsed \in [Name -> SUBSET Books]
      /\ mounted \in [Name -> BOOLEAN] /\ policy \in [Name -> Preset \cup {"absent"}]
      /\ TypeOK /\ AtMostPair /\ OneHome /\ AtHome
      /\ pc[c] # "idle" => dir[c] \in Project
  BY DEF TypeInv, TypeOK, WaitInv, BookFacts, WorksSomewhere
<1>00. pc[c] \in DestroyPCs =>
          \A d \in Cli \ {c} : at[d] = at[c] => pc[d] \in EndPCs \cup {"idle"}
  BY <1>0 DEF AtMostPair
<1>1. CASE StopResolves(c) \/ StopMissing(c) \/ StopOpen(c) \/ StopClose(c)
  BY <1>0, <1>00, <1>1
     DEF StopResolves, StopMissing, StopOpen, StopClose, BookFacts, bookVars, runVars, Goto, Return
<1>2. CASE StopDeregister(c)
  <2>1. \A m \in Name, b \in Books :
            b \in lapsed'[m] <=> b \in lapsed[m] /\ ~(m = at[c] /\ b \in {"policy"})
    BY <1>0, <1>2, InOrderEffect DEF StopDeregister
  <2> QED
    BY <1>0, <1>00, <1>2, <2>1
       DEF StopDeregister, BookFacts, bookVars, runVars, Goto, Return, Books
<1>3. CASE StopDeregisterFails(c)
  <2>1. \A m \in Name, b \in Books :
            b \in lapsed'[m] <=> b \in lapsed[m] \/ (m = at[c] /\ b \in {"policy"})
    BY <1>0, <1>3, LapseEffect DEF StopDeregisterFails
  <2> QED
    BY <1>0, <1>00, <1>3, <2>1
       DEF StopDeregisterFails, BookFacts, bookVars, runVars, Goto, Return, Books
<1>4. CASE StopFindsNoJob(c)
  <2>1. \A d \in Cli : at[d] = at[c] => runner[d] # "shell"
    BY <1>4, NoCliIsNoCli DEF JobInv, Owns, HoldsJob, StopFindsNoJob
  <2> QED
    BY <1>0, <1>00, <1>4, <2>1
       DEF StopFindsNoJob, BookFacts, bookVars, runVars, Goto, Return
<1>5. CASE StopTerminate(c)
  <2>1. \A d \in Cli : /\ at[d] = at[c] => runner'[d] # "shell"
                       /\ runner'[d] = runner[d] \/ runner'[d] = "closing"
    BY <1>5, <1>0 DEF JobInv, Owns, HoldsJob, StopTerminate, Goto
  <2> QED
    BY <1>0, <1>00, <1>5, <2>1
       DEF StopTerminate, BookFacts, bookVars, runVars, Goto, Return
<1>6. CASE StopTerminateFails(c)
  <2>1. \A m \in Name, b \in Books :
            b \in lapsed'[m] <=> b \in lapsed[m] \/ (m = at[c] /\ b \in {"shell"})
    BY <1>0, <1>6, LapseEffect DEF StopTerminateFails
  <2> QED
    BY <1>0, <1>00, <1>6, <2>1
       DEF StopTerminateFails, BookFacts, bookVars, runVars, Goto, Return, Books
<1>7. CASE MarkStopped(c)
  <2>1. /\ \A n \in Name, p \in Project : Holds(reg', p, n) <=> Holds(reg, p, n)
        /\ \A n \in Name : Lists(reg', n, "running") <=> n # at[c] /\ Lists(reg, n, "running")
    BY <1>0, <1>7, UpdateEffect DEF MarkStopped, StartPCs, DestroyPCs, StopPCs
  <2>2. \A m \in Name, b \in Books :
            b \in lapsed'[m] <=> b \in lapsed[m] /\ ~(m = at[c] /\ b \in {"record"})
    BY <1>0, <1>7, InOrderEffect DEF MarkStopped
  <2> QED
    BY <1>0, <1>00, <1>7, <2>1, <2>2
       DEF MarkStopped, BookFacts, bookVars, runVars, Goto, Return, Books
<1>8. CASE MarkStoppedFails(c)
  <2>1. \A m \in Name, b \in Books :
            b \in lapsed'[m] <=> b \in lapsed[m] \/ (m = at[c] /\ b \in {"record"})
    BY <1>0, <1>8, LapseEffect DEF MarkStoppedFails
  <2> QED
    BY <1>0, <1>00, <1>8, <2>1
       DEF MarkStoppedFails, BookFacts, bookVars, runVars, Goto, Return, Books
<1> QED
  BY <1>1, <1>2, <1>3, <1>4, <1>5, <1>6, <1>7, <1>8

\* Runners end sessions; none comes back to life.
LEMMA RunnerBooks ==
  ASSUME TypeInv, JobInv, WaitInv, ~Overlap, NEW c \in Cli,
         \/ RunnerTooLate(c) \/ CreateJob(c) \/ JobDenied(c) \/ LaunchShell(c)
         \/ HangUp(c) \/ RunnerExits(c) \/ RunnerFails(c) \/ ShellExits(c)
         \/ ShellBlocks(c)
  PROVE  BookFacts'
<1> USE DEF RunningHasCommand, PolicyHasCommand, MountHasCommand, CommandFacts, SessionFacts,
            Live, Registered, Says, Recorded, EndPCs, DestroyPCs, StopPCs
<1>0. /\ BookFacts
      /\ pc \in [Cli -> PCs] /\ at \in [Cli -> Name] /\ net \in [Cli -> Preset \cup {"none"}]
      /\ runner \in [Cli -> RunnerStates] /\ lapsed \in [Name -> SUBSET Books]
      /\ mounted \in [Name -> BOOLEAN] /\ policy \in [Name -> Preset \cup {"absent"}]
      /\ TypeOK /\ AtMostPair /\ OneHome /\ AtHome
      /\ pc[c] # "idle" => dir[c] \in Project
  BY DEF TypeInv, TypeOK, WaitInv, BookFacts, WorksSomewhere
<1>1. CASE RunnerTooLate(c) \/ CreateJob(c) \/ JobDenied(c) \/ LaunchShell(c)
  BY <1>0, <1>1
     DEF RunnerTooLate, CreateJob, JobDenied, LaunchShell, BookFacts, bookVars, runVars, Goto, Return, RunnerBecomes, cliVars
<1>2. CASE HangUp(c) \/ RunnerExits(c) \/ RunnerFails(c)
  BY <1>0, <1>2
     DEF HangUp, RunnerExits, RunnerFails, BookFacts, bookVars, runVars, Goto, Return, RunnerBecomes, cliVars
<1>3. CASE ShellExits(c) \/ ShellBlocks(c)
  BY <1>0, <1>3
     DEF ShellExits, ShellBlocks, BookFacts, bookVars, runVars, Goto, Return, RunnerBecomes, cliVars, Attached
<1> QED
  BY <1>1, <1>2, <1>3

\* A killed command leaves what it was about to do.
LEMMA KillBooks ==
  ASSUME TypeInv, JobInv, WaitInv, ~Overlap, NEW c \in Cli,
         \/ Kill(c)
  PROVE  BookFacts'
<1> USE DEF RunningHasCommand, PolicyHasCommand, MountHasCommand, CommandFacts, SessionFacts,
            Live, Registered, Says, Recorded, EndPCs, DestroyPCs, StopPCs
<1>0. /\ BookFacts
      /\ pc \in [Cli -> PCs] /\ at \in [Cli -> Name] /\ net \in [Cli -> Preset \cup {"none"}]
      /\ runner \in [Cli -> RunnerStates] /\ lapsed \in [Name -> SUBSET Books]
      /\ mounted \in [Name -> BOOLEAN] /\ policy \in [Name -> Preset \cup {"absent"}]
      /\ TypeOK /\ AtMostPair /\ OneHome /\ AtHome
      /\ pc[c] # "idle" => dir[c] \in Project
  BY DEF TypeInv, TypeOK, WaitInv, BookFacts, WorksSomewhere
<1>1. CASE Kill(c)
  <2>1. \A m \in Name, b \in Books :
            b \in lapsed'[m] <=> b \in lapsed[m] \/ (m = at[c] /\ b \in Unfinished(pc[c]))
    BY <1>0, <1>1, LapseEffect DEF Kill
  <2> QED
    BY <1>0, <1>1, <2>1
       DEF Kill, BookFacts, bookVars, runVars, Goto, Return, Books, Unfinished
<1> QED
  BY <1>1

\* A lost proxy leaves no policy; who opens a Job Object changes no book.
LEMMA OtherBooks ==
  ASSUME TypeInv, WaitInv, ~Overlap, ProxyCrash \/ \E n \in Name : Peek(n) \/ Unpeek(n)
  PROVE  BookFacts'
<1> USE DEF RunningHasCommand, PolicyHasCommand, MountHasCommand, CommandFacts, SessionFacts,
            Live, Registered, Says, Recorded
<1>1. CASE ProxyCrash
  <2>1. \A n \in Name : /\ policy'[n] = "absent"
                        /\ lapsed'[n] = lapsed[n] \cup {"policy"}
    BY <1>1 DEF ProxyCrash
  <2>2. at \in [Cli -> Name]
    BY DEF TypeInv, TypeOK
  <2> QED
    BY <1>1, <2>1, <2>2 DEF ProxyCrash, WaitInv, BookFacts, cliVars, runVars
<1>2. CASE \E n \in Name : Peek(n) \/ Unpeek(n)
  BY <1>2 DEF Peek, Unpeek, WaitInv, BookFacts, bookVars, cliVars
<1> QED
  BY <1>1, <1>2

-----------------------------------------------------------------------------
\* Every step keeps the invariant.
LEMMA WaitStep ==
  ASSUME JobInv, WaitInv, ~Overlap, [Next]_vars
  PROVE  WaitInv'
<1>1. CASE UNCHANGED vars
  BY <1>1
     DEF vars, bookVars, runVars, cliVars, WaitInv, AtMostPair, OneHome, AtHome,
         RunningHasCommand, PolicyHasCommand, MountHasCommand, CommandFacts, SessionFacts,
         Live, Registered, Says, Recorded
<1>2. CASE Next
  <2>0. TypeInv
    BY DEF JobInv
  <2>1. AtMostPair' /\ OneHome' /\ AtHome'
    BY <1>2, <2>0, PairStep, HomeStep
  <2>2. ASSUME NEW c \in Cli, NEW n \in Name, NEW p \in Project, CommandBegins(c, n, p)
        PROVE  BookFacts'
    BY <2>0, <2>2, BeginBooks
  <2>3. ASSUME NEW c \in Cli, CliStep(c) \/ Interference(c)
        PROVE  BookFacts'
    BY <2>0, <2>3, CreateDestroyBooks, StartBooks, EndBooks, StopBooks, RunnerBooks, KillBooks
       DEF CliStep, CreateStep, StartStep, StopStep, DestroyStep, Interference
  <2>4. ASSUME NEW c \in Cli, RunnerStep(c) \/ ShellExits(c) \/ ShellBlocks(c)
        PROVE  BookFacts'
    BY <2>0, <2>4, StartBooks, RunnerBooks DEF RunnerStep
  <2>5. BookFacts'
    BY <1>2, <2>0, <2>2, <2>3, <2>4, OtherBooks DEF Next
  <2> QED
    BY <2>1, <2>5 DEF WaitInv, BookFacts
<1> QED
  BY <1>1, <1>2

\* The invariant holds throughout.
LEMMA WaitingInvariance ==
  ASSUME ~Overlap
  PROVE  Spec => []WaitInv
<1>1. JobInv /\ WaitInv /\ [Next]_vars => WaitInv'
  BY WaitStep
<1> QED
  BY <1>1, InitWaitInv, JobInvariance, PTL DEF Spec

(***************************************************************************)
(* session_ended and stop between them always get the record off running,  *)
(* whatever other commands run on other sandboxes, whichever calls fail    *)
(* and whoever is killed, unless one of them was kept from the store or    *)
(* killed (engine.py:185-187, store.py:134, 146) and no later command has  *)
(* made up for it.                                                         *)
(***************************************************************************)
THEOREM SettledIsNotRunning ==
  ASSUME ~Overlap
  PROVE  Spec => []SettledNotRunning
<1>1. WaitInv => SettledNotRunning
  BY DEF WaitInv, SettledNotRunning, Settled, RunningHasCommand, EndPCs
<1> QED
  BY <1>1, WaitingInvariance, PTL

\* ... and the proxy forgets every sandbox, so that it can idle out, unless a
\* deregistration failed or was passed over: whoever registered it or stops it
\* deregisters it before the record says stopped.
THEOREM SettledIsUnregistered ==
  ASSUME ~Overlap
  PROVE  Spec => []SettledUnregistered
<1>1. WaitInv => SettledUnregistered
  BY DEF WaitInv, SettledUnregistered, Settled, PolicyHasCommand
<1> QED
  BY <1>1, WaitingInvariance, PTL

\* Mounts are there exactly for recorded names, whichever names a project was
\* tried under, unless a create or destroy broke off between the two: create
\* records what it mounted, destroy unmounts before it removes the record.
THEOREM SettledIsMounted ==
  ASSUME ~Overlap
  PROVE  Spec => []SettledMounted
<1>1. JobInv /\ WaitInv => SettledMounted
  BY DEF JobInv, TypeInv, TypeOK, WaitInv, SettledMounted, Settled, MountHasCommand
<1> QED
  BY <1>1, JobInvariance, WaitingInvariance, PTL

\* A session that nobody is ending is listed as running and has the policy it
\* was started with: no other command of the waiting user takes them away.
THEOREM SessionStaysIntact ==
  ASSUME ~Overlap
  PROVE  Spec => []SessionIntact
<1>1. JobInv /\ WaitInv => SessionIntact
  BY DEF JobInv, TypeInv, TypeOK, WaitInv, SessionIntact, AloneInSession, SessionFacts, Live,
         Registered, DestroyPCs, StopPCs
<1> QED
  BY <1>1, JobInvariance, WaitingInvariance, PTL
=============================================================================
