-------------------------- MODULE StoreFile_proofs --------------------------
(***************************************************************************)
(* The safety properties of StoreFile for every set of projects, names and *)
(* processes and every number of kills, and its refinement of Registry.    *)
(***************************************************************************)
EXTENDS StoreFile, TLAPS

(***************************************************************************)
(* The inductive invariant.  MutualExclusion alone is not inductive: it    *)
(* needs that a process in a call carries a real mutation, and the         *)
(* property of the file needs to know what the two last steps of _mutate   *)
(* have already established.                                               *)
(***************************************************************************)
InCallHasOp == \A p \in Proc : pc[p] # "idle" => op[p] \in Ops
WritesReadable == \A p \in Proc : pc[p] = "write" => ~tail
Settled == \A p \in Proc :
    /\ pc[p] \in {"idle", "open", "load", "write"} => result[p] = "none"
    /\ pc[p] = "truncate" => base = out[p] /\ result[p] = "none"
    /\ pc[p] = "unlock" => result[p] \in {"ok", "rejected", "corrupt"}

IInv ==
    /\ TypeOK
    /\ InCallHasOp
    /\ MutualExclusion
    /\ SnapshotFresh
    /\ WritesReadable
    /\ Settled
    /\ DoneIsOnDisk
    /\ TornOnlyInsideWrite
    /\ UniqueNames

\* A mutation that is accepted turns a registry into a registry.
LEMMA ApplyTyped ==
  ASSUME NEW o \in Ops, NEW d \in Registries, Accepts(o, d)
  PROVE  Apply(o, d) \in Registries
<1>1. o.project \in Project
  BY DEF Ops, AddOp, UpdateOp, RemoveOp
<1>2. Outcome(o, d) \in Records \cup {NoRecord}
  <2>1. CASE o \in AddOp
    BY <2>1 DEF AddOp, Outcome, Records, States
  <2>2. CASE o \in UpdateOp
    <3>1. o.project \in Known(d)
      BY <2>2 DEF UpdateOp, Accepts
    <3>2. d[o.project] \in Records
      BY <3>1 DEF Known, Registries
    <3> QED
      BY <2>2, <3>2 DEF UpdateOp, Outcome, Records, States
  <2>3. CASE o \in RemoveOp
    BY <2>3 DEF RemoveOp, Outcome
  <2> QED
    BY <2>1, <2>2, <2>3 DEF Ops
<1> QED
  BY <1>1, <1>2 DEF Apply, Registries

\* The name check of _add (store.py:101-105) keeps names unique; _update and
\* _remove never give a record another name.
LEMMA ApplyKeepsNamesUnique ==
  ASSUME NEW o \in Ops, NEW d \in Registries, Accepts(o, d), NamesUnique(d)
  PROVE  NamesUnique(Apply(o, d))
<1> DEFINE e == Apply(o, d)
<1> SUFFICES NamesUnique(e)
  OBVIOUS
<1>1. o.project \in Project
  BY DEF Ops, AddOp, UpdateOp, RemoveOp
<1>2. e[o.project] = Outcome(o, d)
  BY <1>1 DEF Apply, Registries
<1>3. \A q \in Project : q # o.project => e[q] = d[q]
  BY DEF Apply, Registries
<1>4. CASE o \in AddOp
  <2>1. Outcome(o, d).name = o.name
    BY <1>4 DEF AddOp, Outcome
  <2>2. \A q \in Known(d) : d[q].name # o.name
    BY <1>4 DEF AddOp, Accepts
  <2>3. \A q \in Known(e) : q # o.project => q \in Known(d)
    BY <1>3 DEF Known
  <2>4. SUFFICES ASSUME NEW p \in Known(e), NEW q \in Known(e),
                        e[p].name = e[q].name
                 PROVE  p = q
    BY DEF NamesUnique
  <2> HIDE DEF e
  <2>5. CASE p # o.project /\ q # o.project
    BY <1>3, <2>3, <2>4, <2>5 DEF NamesUnique, Known
  <2>6. CASE p = o.project \/ q = o.project
    BY <1>2, <1>3, <2>1, <2>2, <2>3, <2>4, <2>6 DEF Known
  <2> QED
    BY <2>5, <2>6
<1>5. CASE o \in UpdateOp
  <2>1. Outcome(o, d).name = d[o.project].name /\ o.project \in Known(d)
    BY <1>5 DEF UpdateOp, Outcome, Accepts
  <2>2. Known(e) \subseteq Known(d) /\ \A q \in Known(e) : e[q].name = d[q].name
    BY <1>1, <1>2, <1>3, <2>1 DEF Known
  <2> QED
    BY <2>2 DEF NamesUnique
<1>6. CASE o \in RemoveOp
  <2>1. Outcome(o, d) = NoRecord
    BY <1>6 DEF RemoveOp, Outcome
  <2>2. Known(e) \subseteq Known(d) /\ \A q \in Known(e) : e[q] = d[q]
    BY <1>1, <1>2, <1>3, <2>1 DEF Known
  <2> QED
    BY <2>2 DEF NamesUnique
<1> QED
  BY <1>4, <1>5, <1>6 DEF Ops

\* The file that is there at first is whole and nobody has it open.
LEMMA InitIInv == Init => IInv
<1> SUFFICES ASSUME Init PROVE IInv
  OBVIOUS
<1>1. TypeOK
  BY MaxCrashesIsNat DEF Init, TypeOK, Registries, Empty, PCs, Results
<1> QED
  BY <1>1 DEF Init, IInv, InCallHasOp, MutualExclusion, InLock, SnapshotFresh,
     WritesReadable, Settled, DoneIsOnDisk, TornOnlyInsideWrite, UniqueNames,
     NamesUnique, Known, Empty

\* A call that returns leaves the process outside the lock, without a
\* mutation and without anything the invariant speaks of.
LEMMA ReturnStep ==
  ASSUME IInv, NEW p \in Proc, Return(p), UNCHANGED <<base, tail>>,
         \/ lock' = lock
         \/ lock = p /\ lock' = NoProc,
         crashes' \in Nat, tail => crashes' # 0 \/ pc[p] # "truncate",
         crashes' = 0 => crashes = 0
  PROVE  IInv'
<1> USE DEF IInv
<1>1. TypeOK'
  BY DEF TypeOK, Return, PCs, Results, Registries, Empty
<1>2. InCallHasOp'
  BY DEF TypeOK, Return, InCallHasOp
<1>3. MutualExclusion'
  BY NoProcIsNoProc DEF TypeOK, Return, MutualExclusion, InLock
<1>4. SnapshotFresh' /\ WritesReadable'
  BY DEF TypeOK, Return, SnapshotFresh, WritesReadable
<1>5. Settled'
  BY DEF TypeOK, Return, Settled
<1>6. DoneIsOnDisk'
  BY DEF TypeOK, Return, DoneIsOnDisk
<1>7. TornOnlyInsideWrite'
  BY DEF TypeOK, Return, TornOnlyInsideWrite
<1>8. UniqueNames'
  BY DEF UniqueNames
<1> QED
  BY <1>1, <1>2, <1>3, <1>4, <1>5, <1>6, <1>7, <1>8

\* Every step of every process, and every kill, preserves the invariant.
LEMMA NextIInv == IInv /\ [Next]_vars => IInv'
<1> SUFFICES ASSUME IInv, [Next]_vars PROVE IInv'
  OBVIOUS
<1> USE DEF IInv
<1>1. ASSUME NEW p \in Proc, NEW o \in Ops, Call(p, o) PROVE IInv'
  <2>1. TypeOK'
    BY <1>1 DEF TypeOK, Call, PCs
  <2>2. InCallHasOp' /\ MutualExclusion' /\ SnapshotFresh' /\ WritesReadable'
    BY <1>1 DEF TypeOK, Call, InCallHasOp, MutualExclusion, InLock, SnapshotFresh,
       WritesReadable
  <2>3. Settled' /\ DoneIsOnDisk'
    BY <1>1 DEF TypeOK, Call, Settled, DoneIsOnDisk
  <2>4. TornOnlyInsideWrite' /\ UniqueNames'
    BY <1>1 DEF TypeOK, Call, TornOnlyInsideWrite, UniqueNames
  <2> QED
    BY <2>1, <2>2, <2>3, <2>4
<1>2. ASSUME NEW p \in Proc, Lock(p) PROVE IInv'
  <2>1. TypeOK'
    BY <1>2 DEF TypeOK, Lock, PCs
  <2>2. InCallHasOp' /\ SnapshotFresh' /\ WritesReadable' /\ Settled' /\ DoneIsOnDisk'
    BY <1>2 DEF TypeOK, Lock, InCallHasOp, SnapshotFresh, WritesReadable, Settled,
       DoneIsOnDisk
  <2>3. MutualExclusion'
    BY <1>2, NoProcIsNoProc DEF TypeOK, Lock, MutualExclusion, InLock
  <2>4. TornOnlyInsideWrite' /\ UniqueNames'
    BY <1>2 DEF TypeOK, Lock, TornOnlyInsideWrite, UniqueNames
  <2> QED
    BY <2>1, <2>2, <2>3, <2>4
<1>3. ASSUME NEW p \in Proc, LockFails(p) PROVE IInv'
  BY <1>3, ReturnStep DEF LockFails, TypeOK
<1>4. ASSUME NEW p \in Proc, Load(p) PROVE IInv'
  <2>1. Apply(op[p], base) \in Registries /\ op[p] \in Ops
    BY <1>4, ApplyTyped DEF Load, TypeOK, InCallHasOp
  <2>2. TypeOK'
    BY <1>4, <2>1 DEF TypeOK, Load, PCs
  <2>3. InCallHasOp' /\ MutualExclusion' /\ SnapshotFresh' /\ WritesReadable'
    BY <1>4 DEF TypeOK, Load, InCallHasOp, MutualExclusion, InLock, SnapshotFresh,
       WritesReadable
  <2>4. Settled' /\ DoneIsOnDisk'
    BY <1>4 DEF TypeOK, Load, Settled, DoneIsOnDisk
  <2>5. TornOnlyInsideWrite' /\ UniqueNames'
    BY <1>4 DEF TypeOK, Load, TornOnlyInsideWrite, UniqueNames
  <2> QED
    BY <2>2, <2>3, <2>4, <2>5
<1>5. ASSUME NEW p \in Proc, LoadFails(p) PROVE IInv'
  <2>1. TypeOK'
    BY <1>5 DEF TypeOK, LoadFails, PCs, Results
  <2>2. InCallHasOp' /\ MutualExclusion' /\ SnapshotFresh' /\ WritesReadable'
    BY <1>5 DEF TypeOK, LoadFails, InCallHasOp, MutualExclusion, InLock, SnapshotFresh,
       WritesReadable
  <2>3. Settled' /\ DoneIsOnDisk'
    BY <1>5 DEF TypeOK, LoadFails, Settled, DoneIsOnDisk
  <2>4. TornOnlyInsideWrite' /\ UniqueNames'
    BY <1>5 DEF TypeOK, LoadFails, TornOnlyInsideWrite, UniqueNames
  <2> QED
    BY <2>1, <2>2, <2>3, <2>4
<1>6. ASSUME NEW p \in Proc, Write(p) PROVE IInv'
  <2>1. tail' \in BOOLEAN
    BY <1>6 DEF Write, Leftover, InCallHasOp, Ops, AddOp, UpdateOp, RemoveOp
  <2>2. TypeOK'
    BY <1>6, <2>1 DEF TypeOK, Write, PCs
  <2>3. \A q \in Proc \ {p} : pc[q] \notin InLock
    BY <1>6 DEF Write, MutualExclusion, InLock
  <2>4. InCallHasOp' /\ MutualExclusion' /\ SnapshotFresh' /\ WritesReadable'
    BY <1>6, <2>3 DEF TypeOK, Write, InCallHasOp, MutualExclusion, InLock, SnapshotFresh,
       WritesReadable
  <2>5. Settled' /\ DoneIsOnDisk'
    BY <1>6, <2>3 DEF TypeOK, Write, Settled, DoneIsOnDisk, InLock
  <2>6. TornOnlyInsideWrite'
    BY <1>6 DEF TypeOK, Write, TornOnlyInsideWrite
  <2>7. UniqueNames'
    BY <1>6, ApplyKeepsNamesUnique
       DEF TypeOK, Write, UniqueNames, SnapshotFresh, InCallHasOp
  <2> QED
    BY <2>2, <2>4, <2>5, <2>6, <2>7
<1>7. ASSUME NEW p \in Proc, Truncate(p) PROVE IInv'
  <2>1. TypeOK'
    BY <1>7 DEF TypeOK, Truncate, PCs, Results
  <2>2. InCallHasOp' /\ MutualExclusion' /\ SnapshotFresh' /\ WritesReadable'
    BY <1>7 DEF TypeOK, Truncate, InCallHasOp, MutualExclusion, InLock, SnapshotFresh,
       WritesReadable
  <2>3. Settled' /\ DoneIsOnDisk'
    BY <1>7 DEF TypeOK, Truncate, Settled, DoneIsOnDisk
  <2>4. TornOnlyInsideWrite' /\ UniqueNames'
    BY <1>7 DEF TypeOK, Truncate, TornOnlyInsideWrite, UniqueNames
  <2> QED
    BY <2>1, <2>2, <2>3, <2>4
<1>8. ASSUME NEW p \in Proc, Unlock(p) PROVE IInv'
  <2>1. lock = p
    BY <1>8 DEF Unlock, MutualExclusion, InLock
  <2> QED
    BY <1>8, <2>1, ReturnStep DEF Unlock, TypeOK
<1>9. ASSUME NEW p \in Proc, Crash(p) PROVE IInv'
  BY <1>9, ReturnStep DEF Crash, TypeOK
<1>10. CASE UNCHANGED vars
  <2>1. TypeOK' /\ InCallHasOp' /\ MutualExclusion' /\ SnapshotFresh' /\ WritesReadable'
    BY <1>10 DEF vars, TypeOK, InCallHasOp, MutualExclusion, SnapshotFresh,
       WritesReadable
  <2>2. Settled' /\ DoneIsOnDisk' /\ TornOnlyInsideWrite' /\ UniqueNames'
    BY <1>10 DEF vars, Settled, DoneIsOnDisk, TornOnlyInsideWrite, UniqueNames
  <2> QED
    BY <2>1, <2>2
<1> QED
  BY <1>1, <1>2, <1>3, <1>4, <1>5, <1>6, <1>7, <1>8, <1>9, <1>10 DEF Next, Step

\* The invariant holds throughout, whatever the commands and the kills.
THEOREM Invariance == Spec => []IInv
<1> QED
  BY InitIInv, NextIInv, PTL DEF Spec

\* Every variable keeps its type (the state of _mutate, store.py:155-164).
THEOREM TypeCorrect == Spec => []TypeOK
<1>1. IInv => TypeOK
  BY DEF IInv
<1> QED
  BY Invariance, <1>1, PTL

\* The byte-range lock (store.py:142-146) excludes, and what a process
\* writes under it (163) was computed from the file as it still is.
THEOREM NoLostUpdate == Spec => [](MutualExclusion /\ SnapshotFresh)
<1>1. IInv => MutualExclusion /\ SnapshotFresh
  BY DEF IInv
<1> QED
  BY Invariance, <1>1, PTL

\* What _mutate returns from is on disk, and the file is torn only by a kill
\* or inside the lock (store.py:162-164).
THEOREM FileWhole == Spec => [](DoneIsOnDisk /\ TornOnlyInsideWrite)
<1>1. IInv => DoneIsOnDisk /\ TornOnlyInsideWrite
  BY DEF IInv
<1> QED
  BY Invariance, <1>1, PTL

\* No two projects ever share a name in the file (store.py:101-105).
THEOREM NamesStayUnique == Spec => []UniqueNames
<1>1. IInv => UniqueNames
  BY DEF IInv
<1> QED
  BY Invariance, <1>1, PTL

\* sandboxes.json implements the registry, kills included: os.write
\* (store.py:163) is the step that commits, and a kill may make the file
\* unreadable for good only between it and os.ftruncate (164).
THEOREM Refinement == Spec => ImplementsRegistry
<1>1. Init => Abstract!Init
  BY DEF Init, Abstract!Init, Empty, Abstract!Empty, Unreadable
<1>2. IInv /\ [Next]_vars => [Abstract!Next]_(Abstract!regVars)
  <2> SUFFICES ASSUME IInv, [Next]_vars PROVE [Abstract!Next]_(Abstract!regVars)
    OBVIOUS
  <2>1. ASSUME NEW p \in Proc, Write(p) PROVE Abstract!Next
    <3>1. op[p] \in Ops /\ Accepts(op[p], base) /\ base' = Apply(op[p], base)
      BY <2>1 DEF Write, IInv, InCallHasOp, SnapshotFresh
    <3>2. op[p] \in Abstract!Ops
      BY <3>1 DEF Ops, AddOp, UpdateOp, RemoveOp, States, Abstract!Ops,
         Abstract!AddOp, Abstract!UpdateOp, Abstract!RemoveOp, Abstract!States
    <3>3. Abstract!Accepts(op[p], base)
      BY <3>1 DEF Accepts, Known, Abstract!Accepts, Abstract!Known
    <3>4. base' = Abstract!Apply(op[p], base)
      BY <3>1 DEF Apply, Outcome, Abstract!Apply, Abstract!Outcome
    <3>5. ~Unreadable
      BY <2>1 DEF Write, IInv, WritesReadable, Unreadable
    <3>6. pc'[p] = "truncate" /\ crashes' = crashes
      BY <2>1 DEF Write, IInv, TypeOK
    <3>7. Unreadable' = FALSE
      BY <3>6 DEF Unreadable
    <3> QED
      BY <3>2, <3>3, <3>4, <3>5, <3>6, <3>7 DEF Abstract!Next, Abstract!Mutate, Unreadable
  <2>2. ASSUME NEW p \in Proc, Truncate(p) PROVE UNCHANGED <<base, Unreadable, crashes>>
    <3>1. ~Unreadable /\ ~Unreadable'
      BY <2>2 DEF Truncate, Unreadable
    <3> QED
      BY <2>2, <3>1 DEF Truncate, Unreadable
  <2>3. ASSUME NEW p \in Proc, UNCHANGED <<base, tail, crashes>>,
               pc[p] # "truncate", pc'[p] # "truncate",
               \A q \in Proc \ {p} : pc'[q] = pc[q]
        PROVE  UNCHANGED <<base, Unreadable, crashes>>
    <3>1. \A q \in Proc : pc'[q] = "truncate" <=> pc[q] = "truncate"
      BY <2>3
    <3>2. Unreadable' <=> Unreadable
      BY <2>3, <3>1 DEF Unreadable
    <3> QED
      BY <2>3, <3>2 DEF Unreadable
  <2>4. ASSUME NEW p \in Proc, Step(p), ~Write(p), ~Truncate(p)
        PROVE  UNCHANGED <<base, Unreadable, crashes>>
    BY <2>3, <2>4 DEF Step, Lock, LockFails, Load, LoadFails, Unlock, Return, IInv, TypeOK
  <2>5. ASSUME NEW p \in Proc, NEW o \in Ops, Call(p, o)
        PROVE  UNCHANGED <<base, Unreadable, crashes>>
    BY <2>3, <2>5 DEF Call, IInv, TypeOK
  <2>6. ASSUME NEW p \in Proc, Crash(p) PROVE Abstract!Kill
    <3>1. Unreadable => Unreadable'
      BY <2>6 DEF Crash, Return, Unreadable, IInv, TypeOK
    <3>2. base' = base /\ crashes' = crashes + 1
      BY <2>6 DEF Crash
    <3>3. Unreadable' \in {Unreadable, TRUE}
      BY <3>1 DEF Unreadable
    <3> QED
      BY <3>2, <3>3 DEF Abstract!Kill
  <2>7. CASE UNCHANGED vars
    BY <2>7 DEF vars, Unreadable, Abstract!regVars
  <2> QED
    BY <2>1, <2>2, <2>4, <2>5, <2>6, <2>7
       DEF Next, Step, Abstract!Next, Abstract!regVars
<1> QED
  BY <1>1, <1>2, Invariance, PTL DEF Spec, ImplementsRegistry, Abstract!Spec
=============================================================================
