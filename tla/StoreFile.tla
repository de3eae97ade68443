----------------------------- MODULE StoreFile -----------------------------
(***************************************************************************)
(* sandboxes.json as sbx processes really change it (Store._mutate and     *)
(* Store._locked, sbx/store.py:137-164): lock one byte of the file, read   *)
(* it, compute, overwrite from offset 0, truncate, unlock.  Each process   *)
(* is one sbx command; it may be killed between any two calls.             *)
(*                                                                         *)
(* The bytes of the file are abstracted to the registry they were written  *)
(* from and to one bit: whether bytes of an older, longer text still       *)
(* follow it (then json.loads raises JSONDecodeError, "Extra data").       *)
(***************************************************************************)
EXTENDS RegistryOps

CONSTANTS Proc,       \* sbx processes that use the store
          NoProc,     \* the lock's value when nobody holds it
          MaxCrashes  \* how many processes may be killed inside a mutation

ASSUME NoProcIsNoProc == NoProc \notin Proc
ASSUME MaxCrashesIsNat == MaxCrashes \in Nat

VARIABLES
    base,    \* the registry last written from offset 0
    tail,    \* TRUE when left-over bytes follow it
    lock,    \* the process whose descriptor holds the byte-range lock
    pc,      \* where each process stands in _mutate
    op,      \* the mutation it was called with, NoOp outside a call
    out,     \* its variable data, after fn(data); Empty before
    result,  \* how its call ends, once that is settled
    crashes  \* processes killed inside a mutation so far

vars == <<base, tail, lock, pc, op, out, result, crashes>>

PCs == {"idle", "open", "load", "write", "truncate", "unlock"}
InLock == {"load", "write", "truncate", "unlock"}
Results == {"none", "ok", "rejected", "corrupt"}
NoOp == [kind |-> "none"]

TypeOK ==
    /\ base \in Registries
    /\ tail \in BOOLEAN
    /\ lock \in Proc \cup {NoProc}
    /\ pc \in [Proc -> PCs]
    /\ op \in [Proc -> Ops \cup {NoOp}]
    /\ out \in [Proc -> Registries]
    /\ result \in [Proc -> Results]
    /\ crashes \in Nat

Init ==
    /\ base = Empty
    /\ tail = FALSE
    /\ lock = NoProc
    /\ pc = [p \in Proc |-> "idle"]
    /\ op = [p \in Proc |-> NoOp]
    /\ out = [p \in Proc |-> Empty]
    /\ result = [p \in Proc |-> "none"]
    /\ crashes = 0

-----------------------------------------------------------------------------
(* One mutation, call by call. *)

\* The call is over: its local variables are gone.
Return(p) ==
    /\ pc' = [pc EXCEPT ![p] = "idle"]
    /\ op' = [op EXCEPT ![p] = NoOp]
    /\ out' = [out EXCEPT ![p] = Empty]
    /\ result' = [result EXCEPT ![p] = "none"]

\* add, update or remove is called: _locked opens (or creates) the file.
Call(p, o) ==
    /\ pc[p] = "idle"
    /\ pc' = [pc EXCEPT ![p] = "open"]
    /\ op' = [op EXCEPT ![p] = o]
    /\ UNCHANGED <<base, tail, lock, out, result, crashes>>

\* Mutant: the lock is taken whether or not another process holds it.
LockAnyway(p) ==
    /\ pc[p] = "open"
    /\ lock' = p
    /\ pc' = [pc EXCEPT ![p] = "load"]
    /\ UNCHANGED <<base, tail, op, out, result, crashes>>

\* msvcrt.locking(LK_NBLCK) succeeds ...
Lock(p) ==
    /\ pc[p] = "open"
    /\ lock = NoProc
    /\ lock' = p
    /\ pc' = [pc EXCEPT ![p] = "load"]
    /\ UNCHANGED <<base, tail, op, out, result, crashes>>

\* ... or raises at once: StoreError("store is locked by another process").
LockFails(p) ==
    /\ pc[p] = "open"
    /\ lock # NoProc
    /\ Return(p)
    /\ UNCHANGED <<base, tail, lock, crashes>>

\* os.read, json.loads and fn(data): data is parsed and mutated in memory.
Load(p) ==
    /\ pc[p] = "load"
    /\ ~tail
    /\ Accepts(op[p], base)
    /\ out' = [out EXCEPT ![p] = Apply(op[p], base)]
    /\ pc' = [pc EXCEPT ![p] = "write"]
    /\ UNCHANGED <<base, tail, lock, op, result, crashes>>

\* Mutant: an exception leaves _locked without passing its finally.
LoadFailsKeepsLock(p) ==
    /\ pc[p] = "load"
    /\ tail \/ ~Accepts(op[p], base)
    /\ Return(p)
    /\ UNCHANGED <<base, tail, lock, crashes>>

\* json.loads raises on a torn file, fn raises StoreError: straight to the
\* finally of _locked, the file untouched.
LoadFails(p) ==
    /\ pc[p] = "load"
    /\ tail \/ ~Accepts(op[p], base)
    /\ result' = [result EXCEPT ![p] = IF tail THEN "corrupt" ELSE "rejected"]
    /\ pc' = [pc EXCEPT ![p] = "unlock"]
    /\ UNCHANGED <<base, tail, lock, op, out, crashes>>

(***************************************************************************)
(* Whether the text for Apply(o, d) can be shorter than the text for d, so *)
(* that writing it from offset 0 leaves bytes of the old one behind.  A    *)
(* record added lengthens the text, a record removed shortens it.  The     *)
(* three state names have seven letters each, so an update changes the     *)
(* length through pids: running has one, the other states none, and two    *)
(* pids may differ in their number of digits.                              *)
(***************************************************************************)
Leftover(o, d) ==
    CASE o.kind = "add"    -> {FALSE}
      [] o.kind = "remove" -> {TRUE}
      [] o.kind = "update" ->
            IF d[o.project].state # "running" THEN {FALSE}
            ELSE IF o.state = "running" THEN BOOLEAN ELSE {TRUE}

\* os.lseek(fd, 0), os.write(fd, out)
Write(p) ==
    /\ pc[p] = "write"
    /\ base' = out[p]
    /\ tail' \in Leftover(op[p], base)
    /\ pc' = [pc EXCEPT ![p] = "truncate"]
    /\ UNCHANGED <<lock, op, out, result, crashes>>

\* Mutant: the file keeps its old length.
TruncateForgotten(p) ==
    /\ pc[p] = "truncate"
    /\ result' = [result EXCEPT ![p] = "ok"]
    /\ pc' = [pc EXCEPT ![p] = "unlock"]
    /\ UNCHANGED <<base, tail, lock, op, out, crashes>>

\* os.ftruncate(fd, len(out))
Truncate(p) ==
    /\ pc[p] = "truncate"
    /\ tail' = FALSE
    /\ result' = [result EXCEPT ![p] = "ok"]
    /\ pc' = [pc EXCEPT ![p] = "unlock"]
    /\ UNCHANGED <<base, lock, op, out, crashes>>

\* The finally of _locked: LK_UNLCK, os.close.
Unlock(p) ==
    /\ pc[p] = "unlock"
    /\ lock' = NoProc
    /\ Return(p)
    /\ UNCHANGED <<base, tail, crashes>>

\* The process is killed inside the call; the system closes its descriptor,
\* which drops the byte-range lock if this process held it.
Crash(p) ==
    /\ pc[p] # "idle"
    /\ crashes < MaxCrashes
    /\ lock' = IF lock = p THEN NoProc ELSE lock
    /\ crashes' = crashes + 1
    /\ Return(p)
    /\ UNCHANGED <<base, tail>>

-----------------------------------------------------------------------------
Step(p) ==
    \/ Lock(p) \/ LockFails(p)
    \/ Load(p) \/ LoadFails(p)
    \/ Write(p) \/ Truncate(p) \/ Unlock(p)

Next == \E p \in Proc :
            \/ \E o \in Ops : Call(p, o)
            \/ Step(p)
            \/ Crash(p)

Spec == Init /\ [][Next]_vars

(***************************************************************************)
(* A process inside a call keeps running (none of its calls blocks); when  *)
(* commands are issued and when processes are killed is left open.         *)
(***************************************************************************)
FairSpec == Spec /\ \A p \in Proc : WF_vars(Step(p))

-----------------------------------------------------------------------------
(* Properties *)

\* Two commands are never both between lock and unlock, and whoever is there
\* holds the lock: LK_NBLCK is what makes read-compute-write atomic.
MutualExclusion ==
    \A p \in Proc : pc[p] \in InLock => lock = p

\* Lost updates: what a command is about to write was computed from the
\* registry that is in the file at that moment, by a mutation that this
\* registry accepts.
SnapshotFresh ==
    \A p \in Proc : pc[p] = "write" =>
        Accepts(op[p], base) /\ out[p] = Apply(op[p], base)

\* A mutation about to return normally is on disk, whole and readable.
DoneIsOnDisk ==
    \A p \in Proc : pc[p] = "unlock" /\ result[p] = "ok" =>
        base = out[p] /\ ~tail

\* Without a kill, the file is unparsable only while its writer is between
\* os.write and os.ftruncate, hence only while the lock is held.
TornOnlyInsideWrite ==
    crashes = 0 /\ tail => \E p \in Proc : pc[p] = "truncate"

\* Each command checks the name against the file it read, so two commands
\* creating sandboxes at once never register one name twice.
UniqueNames == NamesUnique(base)

\* No command can parse the file, and no writer is about to cut it to length:
\* reads return nothing (store.py:134), every mutation raises (159).
Unreadable == tail /\ \A p \in Proc : pc[p] # "truncate"

\* The file implements the atomic registry with its one weakness: mutations
\* happen one at a time and entirely, a killed one entirely or not at all;
\* only a kill makes the file unreadable, and then nothing is accepted again.
Abstract == INSTANCE Registry
    WITH recs <- base, broken <- Unreadable, kills <- crashes
ImplementsRegistry == Abstract!Spec

\* A held lock is released whatever the mutation's outcome: the finally of
\* _locked, or the system when the process dies.
LockReleased == [](lock # NoProc => <>(lock = NoProc))
=============================================================================
