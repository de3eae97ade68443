---------------------------- MODULE Mounts_proofs ----------------------------
(***************************************************************************)
(* For every set of sandboxes, every set of configs they may have in turn  *)
(* and requests for different sandboxes in any interleaving: the types of  *)
(* Mounts, and whose files may be removed while no call fails.  For the    *)
(* user who asks for one request at a time: that mounted sandboxes work    *)
(* and that a destroy is complete.  An unrecorded create, which a later    *)
(* one is laid over, is excepted by name (Buried, overlaid).               *)
(***************************************************************************)
EXTENDS Mounts, TLAPS

(***************************************************************************)
(* What a helper may rely on when it takes a step: its index is one of a   *)
(* mount, its place in the program is one of its request's, the SID it     *)
(* works with exists, and the metadata of a sandbox with a record lists    *)
(* what its last create mounted.                                           *)
(***************************************************************************)
Ranged == \A s \in Sandbox :
    /\ pc[s] \in {"idle", "load"} => at[s] = 1
    /\ pc[s] \in {"link", "read_dacl", "write_dacl", "unlink", "scan"} =>
            at[s] \in DOMAIN specs[s]

Tasks == \A s \in Sandbox :
    /\ pc[s] \in {"link", "save", "save_write"} => task[s] = "create"
    /\ pc[s] \in {"load", "unlink", "scan", "rmtree", "unlink_meta"} =>
            task[s] = "destroy"

Registered == \A s \in Sandbox :
    /\ meta[s] = 0 => listed[s] = <<>>
    /\ status[s] \in {"mounted", "destroy failed"} => meta[s] # 0 /\ listed[s] = specs[s]
    /\ pc[s] = "idle" /\ status[s] = "unrecorded" => meta[s] # 0 /\ listed[s] = specs[s]
    /\ pc[s] # "idle" /\ task[s] = "create" =>
            sids[s] # 0 /\ status[s] \in {"absent", "create failed", "unrecorded"}
    /\ pc[s] # "idle" /\ task[s] = "destroy" =>
            status[s] \in {"mounted", "destroy failed"}

BaseInv == TypeOK /\ Ranged /\ Tasks /\ Registered

USE DEF PCs, Statuses

\* What a config file lists: mounts, each on a target of its own.
LEMMA ConfigFacts ==
  ASSUME NEW s \in Sandbox, NEW mounts \in Configured(s)
  PROVE  /\ mounts \in Seq(Mount)
         /\ Len(mounts) \in Nat
         /\ DOMAIN mounts = 1..Len(mounts)
         /\ \A k \in DOMAIN mounts : mounts[k] \in Mount
         /\ \A j, k \in DOMAIN mounts : mounts[j].target = mounts[k].target => j = k
         /\ mounts # <<>> => 1 \in DOMAIN mounts
<1>1. mounts \in Seq(Mount)
  <2>1. Configs[s] \in SUBSET Seq(Mount)
    BY ConfigsAreMounts
  <2>2. <<>> \in Seq(Mount)
    OBVIOUS
  <2> QED
    BY <2>1, <2>2 DEF Configured
<1>2. \A j, k \in DOMAIN mounts : mounts[j].target = mounts[k].target => j = k
  <2>1. CASE mounts \in Configs[s]
    BY <2>1, TargetsDiffer
  <2>2. CASE mounts = <<>>
    BY <2>2
  <2> QED
    BY <2>1, <2>2 DEF Configured
<1>3. Len(mounts) \in Nat /\ DOMAIN mounts = 1..Len(mounts)
  BY <1>1
<1>4. \A k \in DOMAIN mounts : mounts[k] \in Mount
  BY <1>1, <1>3
<1>5. mounts # <<>> => 1 \in DOMAIN mounts
  BY <1>1, <1>3
<1> QED
  BY <1>1, <1>2, <1>3, <1>4, <1>5

\* The mounts a sandbox's request works on.
LEMMA SpecsFacts ==
  ASSUME BaseInv, NEW s \in Sandbox
  PROVE  /\ Len(specs[s]) \in Nat
         /\ DOMAIN specs[s] = 1..Len(specs[s])
         /\ \A k \in DOMAIN specs[s] :
                /\ specs[s][k] \in Mount
                /\ specs[s][k].source \in Source
                /\ <<s, specs[s][k].target>> \in Places
         /\ \A j, k \in DOMAIN specs[s] :
                specs[s][j].target = specs[s][k].target => j = k
         /\ specs[s] # <<>> => 1 \in DOMAIN specs[s]
<1>1. specs[s] \in Configured(s)
  BY DEF BaseInv, TypeOK
<1>2. /\ Len(specs[s]) \in Nat
      /\ DOMAIN specs[s] = 1..Len(specs[s])
      /\ \A k \in DOMAIN specs[s] : specs[s][k] \in Mount
      /\ \A j, k \in DOMAIN specs[s] :
             specs[s][j].target = specs[s][k].target => j = k
      /\ specs[s] # <<>> => 1 \in DOMAIN specs[s]
  BY <1>1, ConfigFacts
<1>3. \A k \in DOMAIN specs[s] :
          specs[s][k].source \in Source /\ <<s, specs[s][k].target>> \in Places
  BY <1>2 DEF Mount, Places
<1> QED
  BY <1>2, <1>3

\* Configurations are sequences of mounts, and so is the empty one.
LEMMA NoMounts == \A s \in Sandbox : <<>> \in Configured(s) /\ <<>> \in Seq(Mount)
  BY DEF Configured

\* The loop's first index.
LEMMA OneIsAnIndex == 1 \in Nat \ {0}
  OBVIOUS

\* The invariant holds at first.
LEMMA InitBaseInv == Init => BaseInv
<1>1. Init => TypeOK
  BY MountBounds, NoMounts DEF Init, TypeOK
<1>2. Init => Ranged /\ Tasks /\ Registered
  BY DEF Init, Ranged, Tasks, Registered
<1> QED
  BY <1>1, <1>2 DEF BaseInv

\* The SID and the trustee of a helper inside its loop.
LEMMA TrusteeTyped ==
  ASSUME BaseInv, NEW s \in Sandbox, pc[s] # "idle"
  PROVE  Trustee(s) \in Sids \cup {Group}
<1>0. /\ sids[s] \in 0..MaxSids /\ meta[s] \in 0..MaxSids
      /\ task[s] \in {"create", "destroy"} /\ MaxSids \in Nat
  BY MountBounds DEF BaseInv, TypeOK
<1>1. task[s] = "create" => sids[s] \in 1..MaxSids
  <2>1. task[s] = "create" => sids[s] # 0
    BY DEF BaseInv, Registered
  <2> QED
    BY <1>0, <2>1
<1>2. task[s] # "create" => meta[s] \in 1..MaxSids
  <2>1. task[s] = "destroy" => meta[s] # 0
    BY DEF BaseInv, Registered
  <2> QED
    BY <1>0, <2>1
<1>3. \A n \in 1..MaxSids : <<s, n>> \in Sids
  BY DEF Sids
<1>4. Sid(s) \in Sids
  BY <1>1, <1>2, <1>3 DEF Sid
<1> QED
  BY <1>4 DEF Trustee

\* Ending a request restores what holds between requests.
LEMMA FinishStep ==
  ASSUME BaseInv, NEW s \in Sandbox, NEW o \in Statuses, Finish(s, o),
         link' \in [Places -> Source \cup {NoSource}],
         acl' = acl, intact' = intact, torn' \in [Sandbox -> BOOLEAN],
         NEW m \in 0..MaxSids, meta' = [meta EXCEPT ![s] = m],
         NEW l \in Configured(s), listed' = [listed EXCEPT ![s] = l],
         m = 0 => l = <<>>,
         o \in {"mounted", "unrecorded", "destroy failed"} => m # 0 /\ l = specs[s],
         faults' \in 0..MaxFaults
  PROVE  BaseInv'
<1> USE DEF BaseInv
<1>1. TypeOK'
  <2>1. meta' \in [Sandbox -> 0..MaxSids]
    BY DEF TypeOK
  <2>2. dacl' \in [Sandbox -> SUBSET (Sids \cup {Group})]
    BY DEF TypeOK, Finish
  <2>3. pc' \in [Sandbox -> PCs] /\ status' \in [Sandbox -> Statuses]
    BY DEF TypeOK, Finish, Goto
  <2>4. at' \in [Sandbox -> Nat \ {0}]
    BY OneIsAnIndex DEF TypeOK, Finish
  <2>5. ace' \in [Sandbox -> {"sid", "group"}] /\ keep' \in [Sandbox -> BOOLEAN]
    BY DEF TypeOK, Finish
  <2>6. UNCHANGED <<sids, task, specs, overlaid>>
    BY DEF Finish
  <2>7. /\ listed' \in [Sandbox -> Seq(Mount)]
        /\ \A t \in Sandbox : listed'[t] \in Configured(t)
    BY ConfigFacts DEF TypeOK
  <2> QED
    BY <2>1, <2>2, <2>3, <2>4, <2>5, <2>6, <2>7 DEF TypeOK
<1>2. Ranged' /\ Tasks'
  BY DEF TypeOK, Ranged, Tasks, Finish, Goto
<1>3. Registered'
  BY DEF TypeOK, Registered, Finish, Goto
<1> QED
  BY <1>1, <1>2, <1>3

\* ... and so does failing a request.
LEMMA FailStep ==
  ASSUME BaseInv, NEW s \in Sandbox, pc[s] # "idle", Fail(s),
         link' \in [Places -> Source \cup {NoSource}],
         UNCHANGED <<acl, intact, file>>, faults' \in 0..MaxFaults
  PROVE  BaseInv'
<1>1. /\ meta' = [meta EXCEPT ![s] = meta[s]] /\ meta[s] \in 0..MaxSids
      /\ listed' = [listed EXCEPT ![s] = listed[s]] /\ listed[s] \in Configured(s)
      /\ torn' \in [Sandbox -> BOOLEAN]
  BY DEF BaseInv, TypeOK, file
<1>2. /\ meta[s] = 0 => listed[s] = <<>>
      /\ task[s] = "destroy" => meta[s] # 0 /\ listed[s] = specs[s]
  BY DEF BaseInv, Registered
<1>3. task[s] \in {"create", "destroy"}
  BY DEF BaseInv, TypeOK
<1>4. CASE task[s] = "create"
  <2>1. Finish(s, "create failed")
    BY <1>4 DEF Fail
  <2> QED
    BY <1>1, <1>2, <2>1, FinishStep
<1>5. CASE task[s] = "destroy"
  <2>1. Finish(s, "destroy failed")
    BY <1>5 DEF Fail
  <2> QED
    BY <1>1, <1>2, <1>5, <2>1, FinishStep
<1> QED
  BY <1>3, <1>4, <1>5

\* Going on in the loop, or leaving it, keeps the index in range.
LEMMA NextAceStep ==
  ASSUME BaseInv, NEW s \in Sandbox, pc[s] \in {"read_dacl", "write_dacl"},
         NextAce(s), acl' \in [Source -> SUBSET (Sids \cup {Group})],
         UNCHANGED <<link, intact, file, overlaid, sids, status, task, specs, keep>>,
         faults' \in 0..MaxFaults
  PROVE  BaseInv'
<1> USE DEF BaseInv, file
<1>1. at[s] \in 1..Len(specs[s]) /\ Len(specs[s]) \in Nat
  BY SpecsFacts DEF Ranged
<1>2. CASE ace[s] = "sid" /\ ~(task[s] = "destroy" /\ keep[s])
  <2>1. /\ ace' = [ace EXCEPT ![s] = "group"]
        /\ dacl' = [dacl EXCEPT ![s] = {}]
        /\ at' = at
        /\ pc' = [pc EXCEPT ![s] = "read_dacl"]
    BY <1>2 DEF NextAce, Goto
  <2>2. TypeOK'
    BY <2>1 DEF TypeOK
  <2>3. Ranged' /\ Tasks' /\ Registered'
    BY <1>1, <2>1, SpecsFacts DEF TypeOK, Ranged, Tasks, Registered
  <2> QED
    BY <2>2, <2>3
<1>3. CASE ~(ace[s] = "sid" /\ ~(task[s] = "destroy" /\ keep[s]))
  <2>1. NextSpec(s)
    BY <1>3 DEF NextAce
  <2>2. CASE at[s] < Len(specs[s])
    <3>1. /\ ace' = [ace EXCEPT ![s] = "sid"]
          /\ dacl' = [dacl EXCEPT ![s] = {}]
          /\ at' = [at EXCEPT ![s] = @ + 1]
          /\ pc' = [pc EXCEPT ![s] = IF task[s] = "create" THEN "link" ELSE "unlink"]
      BY <2>1, <2>2 DEF NextSpec, Goto
    <3>2. at[s] + 1 \in DOMAIN specs[s] /\ at[s] + 1 \in Nat \ {0}
      BY <1>1, <2>2, SpecsFacts
    <3>3. TypeOK'
      BY <3>1, <3>2 DEF TypeOK
    <3>4. Ranged' /\ Tasks' /\ Registered'
      BY <3>1, <3>2 DEF TypeOK, Ranged, Tasks, Registered
    <3> QED
      BY <3>3, <3>4
  <2>3. CASE ~(at[s] < Len(specs[s]))
    <3>1. /\ ace' = [ace EXCEPT ![s] = "sid"]
          /\ dacl' = [dacl EXCEPT ![s] = {}]
          /\ at' = at
          /\ pc' = [pc EXCEPT ![s] = IF task[s] = "create" THEN "save" ELSE "rmtree"]
      BY <2>1, <2>3 DEF NextSpec, Goto
    <3>2. TypeOK'
      BY <3>1 DEF TypeOK
    <3>3. Ranged' /\ Tasks' /\ Registered'
      BY <3>1 DEF TypeOK, Ranged, Tasks, Registered
    <3> QED
      BY <3>2, <3>3
  <2> QED
    BY <2>2, <2>3
<1> QED
  BY <1>2, <1>3

\* A helper's own steps, failures among them, keep the invariant ...
LEMMA BaseInvStep ==
  ASSUME BaseInv, NEW s \in Sandbox,
         BeginCreate(s) \/ BeginDestroy(s) \/ Step(s) \/ Failure(s)
  PROVE  BaseInv'
<1> USE DEF BaseInv
<1>0. /\ at[s] \in Nat \ {0}
      /\ pc[s] \in {"link", "read_dacl", "write_dacl", "unlink", "scan"} =>
            /\ Place(s) \in Places /\ Here(s) \in Source
            /\ at[s] \in DOMAIN specs[s]
  BY SpecsFacts DEF TypeOK, Ranged, Place, Here
<1>1. CASE BeginCreate(s)
  <2>0. sids[s] \in 0..MaxSids /\ sids[s] < MaxSids
    BY <1>1 DEF TypeOK, BeginCreate
  <2>1. sids[s] + 1 \in 0..MaxSids /\ sids[s] + 1 # 0
    BY <2>0, MountBounds
  <2>2. PICK config \in Configs[s] :
            /\ specs' = [specs EXCEPT ![s] = config]
            /\ pc' = [pc EXCEPT ![s] = IF config = <<>> THEN "save" ELSE "link"]
    BY <1>1 DEF BeginCreate, Goto
  <2>3. config \in Configured(s) /\ config \in Seq(Mount)
    BY ConfigFacts DEF Configured
  <2>4. overlaid' \in [Sandbox -> SUBSET Mount]
    <3>1. Elements(specs[s]) \subseteq Mount
      <4>1. \A k \in DOMAIN specs[s] : specs[s][k] \in Mount
        BY SpecsFacts
      <4> QED
        BY <4>1 DEF Elements
    <3> QED
      BY <1>1, <3>1 DEF TypeOK, BeginCreate
  <2>5. /\ sids' = [sids EXCEPT ![s] = sids[s] + 1]
        /\ task' = [task EXCEPT ![s] = "create"]
        /\ UNCHANGED <<link, acl, intact, meta, listed, torn, status, at, ace, keep, dacl,
                      faults>>
        /\ pc[s] = "idle" /\ status[s] \in {"absent", "create failed", "unrecorded"}
    BY <1>1 DEF BeginCreate, MayBegin, shared, file
  <2>6. /\ specs' \in [Sandbox -> Seq(Mount)]
        /\ \A t \in Sandbox : specs'[t] \in Configured(t)
    BY <2>2, <2>3 DEF TypeOK
  <2>7. TypeOK'
    BY <2>1, <2>2, <2>4, <2>5, <2>6 DEF TypeOK
  <2>8. Ranged'
    <3>1. at[s] = 1 /\ (config # <<>> => 1 \in DOMAIN config)
      BY <2>3, <2>5, ConfigFacts DEF Ranged
    <3> QED
      BY <2>2, <2>5, <3>1 DEF TypeOK, Ranged
  <2>9. Tasks' /\ Registered'
    BY <2>1, <2>2, <2>5 DEF TypeOK, Tasks, Registered
  <2> QED
    BY <2>7, <2>8, <2>9
<1>2. CASE BeginDestroy(s)
  <2>1. TypeOK'
    BY <1>2 DEF TypeOK, BeginDestroy, MayBegin, Goto, shared, file
  <2>2. Ranged' /\ Tasks'
    BY <1>2 DEF TypeOK, Ranged, Tasks, BeginDestroy, MayBegin, Goto, shared
  <2>3. Registered'
    BY <1>2 DEF TypeOK, Registered, BeginDestroy, MayBegin, Goto, shared, file
  <2> QED
    BY <2>1, <2>2, <2>3
<1>3. CASE CreateLink(s)
  <2>1. link' \in [Places -> Source \cup {NoSource}]
    BY <1>0, <1>3 DEF TypeOK, CreateLink
  <2> QED
    BY <1>0, <1>3, <2>1
       DEF TypeOK, Ranged, Tasks, Registered, CreateLink, Goto, helper, file
<1>4. CASE SaveMeta(s)
  <2>1. 0 \in 0..MaxSids
    BY MountBounds
  <2>2. TypeOK'
    BY <1>4, <2>1, NoMounts DEF TypeOK, SaveMeta, Goto, helper
  <2>3. Ranged' /\ Tasks'
    BY <1>4 DEF TypeOK, Ranged, Tasks, SaveMeta, Goto, helper
  <2>4. Registered'
    BY <1>4 DEF TypeOK, Tasks, Registered, SaveMeta, Goto, helper
  <2> QED
    BY <2>2, <2>3, <2>4
<1>5. CASE WriteMeta(s)
  <2>1. /\ sids[s] \in 0..MaxSids /\ sids[s] # 0
        /\ torn' \in [Sandbox -> BOOLEAN] /\ faults' \in 0..MaxFaults
        /\ link' \in [Places -> Source \cup {NoSource}]
        /\ specs[s] \in Configured(s)
        /\ meta' = [meta EXCEPT ![s] = sids[s]]
        /\ listed' = [listed EXCEPT ![s] = specs[s]]
        /\ acl' = acl /\ intact' = intact
    BY <1>5 DEF TypeOK, Tasks, Registered, WriteMeta
  <2>2. PICK o \in {"mounted", "unrecorded"} : Finish(s, o)
    BY <1>5 DEF WriteMeta
  <2> QED
    BY <2>1, <2>2, FinishStep
<1>6. CASE ReadDacl(s)
  <2>1. dacl' \in [Sandbox -> SUBSET (Sids \cup {Group})]
    BY <1>0, <1>6 DEF TypeOK, ReadDacl
  <2>2. TypeOK'
    BY <1>6, <2>1 DEF TypeOK, ReadDacl, Goto, shared, file
  <2> QED
    <3>1. Ranged'
      BY <1>6 DEF TypeOK, Ranged, ReadDacl, Goto
    <3>2. Tasks' /\ Registered'
      BY <1>6 DEF TypeOK, Tasks, Registered, ReadDacl, Goto, shared, file
    <3> QED
      BY <2>2, <3>1, <3>2
<1>7. CASE WriteDacl(s)
  <2>1. dacl[s] \in SUBSET (Sids \cup {Group}) /\ Trustee(s) \in Sids \cup {Group}
    BY <1>7, TrusteeTyped DEF TypeOK, WriteDacl
  <2>2. acl' \in [Source -> SUBSET (Sids \cup {Group})]
    BY <1>0, <1>7, <2>1 DEF TypeOK, WriteDacl
  <2>3. faults' \in 0..MaxFaults
    BY <1>7 DEF TypeOK, WriteDacl
  <2> QED
    BY <1>7, <2>2, <2>3, NextAceStep DEF WriteDacl
<1>8. CASE Load(s)
  <2>1. listed[s] = specs[s] /\ at[s] = 1
    BY <1>8 DEF Ranged, Tasks, Registered, Load
  <2>2. specs' = specs
    BY <1>8, <2>1 DEF TypeOK, Load
  <2>3. pc' = [pc EXCEPT ![s] = IF specs[s] = <<>> THEN "rmtree" ELSE "unlink"]
    BY <1>8, <2>1 DEF Load, Goto
  <2>4. /\ pc[s] = "load"
        /\ UNCHANGED <<link, acl, intact, meta, listed, torn, overlaid, sids, status, task,
                      at, ace, keep, dacl, faults>>
    BY <1>8 DEF Load, shared, file
  <2>5. TypeOK'
    BY <2>2, <2>3, <2>4 DEF TypeOK
  <2>6. Ranged'
    <3>1. specs[s] # <<>> => 1 \in DOMAIN specs[s]
      BY SpecsFacts
    <3> QED
      BY <2>1, <2>2, <2>3, <2>4, <3>1 DEF TypeOK, Ranged
  <2>7. Tasks' /\ Registered'
    BY <2>2, <2>3, <2>4 DEF TypeOK, Tasks, Registered
  <2> QED
    BY <2>5, <2>6, <2>7
<1>9. CASE Unlink(s)
  <2>1. link' \in [Places -> Source \cup {NoSource}]
    BY <1>0, <1>9 DEF TypeOK, Unlink
  <2> QED
    BY <1>9, <2>1 DEF TypeOK, Ranged, Tasks, Registered, Unlink, Goto, helper, file
<1>10. CASE Scan(s)
  <2>1. keep' \in [Sandbox -> BOOLEAN]
    BY <1>10 DEF TypeOK, Scan
  <2> QED
    BY <1>10, <2>1 DEF TypeOK, Ranged, Tasks, Registered, Scan, Goto, shared, file
<1>11. CASE ScanFails(s)
  <2>1. pc[s] # "idle" /\ faults' \in 0..MaxFaults
    BY <1>11 DEF TypeOK, ScanFails
  <2> QED
    BY <1>11, <2>1, FailStep DEF TypeOK, ScanFails, shared, file
<1>12. CASE Rmtree(s)
  <2>1. intact' \in [Source -> BOOLEAN]
    BY <1>12 DEF TypeOK, Rmtree
  <2> QED
    BY <1>12, <2>1 DEF TypeOK, Ranged, Tasks, Registered, Rmtree, Goto, helper, file
<1>13. CASE UnlinkMeta(s)
  <2>1. 0 \in 0..MaxSids
    BY MountBounds
  <2>2. /\ torn' \in [Sandbox -> BOOLEAN] /\ faults' \in 0..MaxFaults
        /\ link' \in [Places -> Source \cup {NoSource}]
        /\ meta' = [meta EXCEPT ![s] = 0] /\ listed' = [listed EXCEPT ![s] = <<>>]
        /\ acl' = acl /\ intact' = intact /\ Finish(s, "absent")
    BY <1>13 DEF TypeOK, UnlinkMeta
  <2> QED
    BY <2>1, <2>2, NoMounts, FinishStep
<1>14. CASE Failure(s)
  <2>1. CASE ~Fault
    BY <1>14, <2>1 DEF Failure, CreateLinkFails, GroupMissing, GrantFails, RevokeFails,
                       UnlinkFails, HelperLost
  <2>2. CASE Fault
    <3>1. faults' \in 0..MaxFaults
      <4>1. faults \in 0..MaxFaults /\ faults < MaxFaults /\ faults' = faults + 1
        BY <2>2 DEF TypeOK, Fault
      <4> QED
        BY <4>1, MountBounds
    <3>2. CASE CreateLinkFails(s) \/ GrantFails(s)
      <4>1. link' \in [Places -> Source \cup {NoSource}] /\ pc[s] # "idle"
        BY <1>0, <3>2 DEF TypeOK, CreateLinkFails, GrantFails
      <4> QED
        BY <3>1, <3>2, <4>1, FailStep DEF CreateLinkFails, GrantFails, file
    <3>3. CASE GroupMissing(s) \/ HelperLost(s)
      <4>1. link' \in [Places -> Source \cup {NoSource}] /\ pc[s] # "idle"
        BY <3>3 DEF TypeOK, GroupMissing, HelperLost, shared
      <4> QED
        BY <3>1, <3>3, <4>1, FailStep DEF GroupMissing, HelperLost, shared, file
    <3>4. CASE RevokeFails(s)
      <4>1. acl' \in [Source -> SUBSET (Sids \cup {Group})]
        BY <3>4 DEF TypeOK, RevokeFails, shared
      <4> QED
        BY <3>1, <3>4, <4>1, NextAceStep DEF RevokeFails, shared, file
    <3>5. CASE UnlinkFails(s)
      BY <3>1, <3>5
         DEF TypeOK, Ranged, Tasks, Registered, UnlinkFails, Goto, shared, helper, file
    <3> QED
      BY <1>14, <3>2, <3>3, <3>4, <3>5 DEF Failure
  <2> QED
    BY <2>1, <2>2
<1> QED
  BY <1>1, <1>2, <1>3, <1>4, <1>5, <1>6, <1>7, <1>8, <1>9, <1>10, <1>11, <1>12,
     <1>13, <1>14 DEF Step

\* ... and so does every step.
LEMMA BaseInvNext == BaseInv /\ [Next]_vars => BaseInv'
<1>1. ASSUME BaseInv, Next PROVE BaseInv'
  BY <1>1, BaseInvStep DEF Next
<1>2. ASSUME BaseInv, UNCHANGED vars PROVE BaseInv'
  BY <1>2 DEF BaseInv, TypeOK, Ranged, Tasks, Registered, vars, shared, helper, file
<1> QED
  BY <1>1, <1>2

\* The invariant holds throughout, faults and overlaps included.
LEMMA BaseInvariance == Spec => []BaseInv
  BY InitBaseInv, BaseInvNext, PTL DEF Spec

(***************************************************************************)
(* The types of Mounts, for any number of sandboxes, mounts, overlapping   *)
(* requests and faults: above all, a helper never leaves its loop with an  *)
(* index that is no mount's, nor sets an ACE for a SID that does not exist.*)
(***************************************************************************)
THEOREM TypeCorrect == Spec => []TypeOK
  BY BaseInvariance, PTL DEF BaseInv

-----------------------------------------------------------------------------
(***************************************************************************)
(* Without failed calls a destroy has taken back every link it knows of by *)
(* the time it deletes the folders they were in: the links before the      *)
(* index are gone while the loop runs, and all are when it ends.  A link   *)
(* it does not know of is one that a create was laid over.                 *)
(***************************************************************************)
Gone(s, k) == link[<<s, specs[s][k].target>>] = NoSource

Unlinked(s) == \A k \in DOMAIN specs[s] :
    /\ pc[s] = "unlink" /\ k < at[s] => Gone(s, k)
    /\ pc[s] \in {"scan", "read_dacl", "write_dacl"} /\ task[s] = "destroy"
            /\ k <= at[s] => Gone(s, k)
    /\ pc[s] = "rmtree" => Gone(s, k)

\* Where a place may lead: nowhere, where an older create of the sandbox had
\* it lead, or where its request would have it lead.
Forgotten(s, t) ==
    link[<<s, t>>] = NoSource \/ [target |-> t, source |-> link[<<s, t>>]] \in overlaid[s]
Asked(s, t) == \E k \in DOMAIN specs[s] :
    specs[s][k].target = t /\ specs[s][k].source = link[<<s, t>>]

Cleared(s) ==
    pc[s] \in {"rmtree", "unlink_meta"} \/ (pc[s] = "idle" /\ status[s] = "absent")

Accounted(s) ==
    /\ status[s] # "create failed"
    /\ \A t \in Target : Forgotten(s, t) \/ Asked(s, t)
    /\ Cleared(s) => \A t \in Target : Forgotten(s, t)

Traced(s) == Unlinked(s) /\ Accounted(s)

Spared == \A f \in Source : intact[f] \/ \E s \in Sandbox : f \in Buried(s)

SafeInv == BaseInv /\ (faults = 0 => Spared /\ \A s \in Sandbox : Traced(s))

Succeeds(s) == BeginCreate(s) \/ BeginDestroy(s) \/ Step(s)
Act(s) == Succeeds(s) \/ Failure(s)

\* It holds at first.
LEMMA InitSafeInv == Init => SafeInv
<1> SUFFICES ASSUME Init PROVE SafeInv
  OBVIOUS
<1>1. Spared
  BY DEF Init, Spared
<1>2. ASSUME NEW s \in Sandbox PROVE Traced(s)
  <2>1. \A t \in Target : Forgotten(s, t)
    BY DEF Init, Forgotten, Places
  <2>2. Unlinked(s) /\ status[s] = "absent"
    BY DEF Init, Unlinked
  <2> QED
    BY <2>1, <2>2 DEF Traced, Accounted
<1> QED
  BY <1>1, <1>2, InitBaseInv DEF SafeInv

-----------------------------------------------------------------------------
(* What a step of one helper leaves alone *)

\* Which links a step may change.
LEMMA LinkFrame ==
  ASSUME BaseInv, NEW s \in Sandbox, Act(s)
  PROVE  link' = link \/ \E v \in Source \cup {NoSource} :
                            link' = [link EXCEPT ![Place(s)] = v] /\ pc[s] # "idle"
<1>1. CASE CreateLink(s)
  BY <1>1, SpecsFacts DEF CreateLink, Here, BaseInv, Ranged
<1>2. CASE Unlink(s)
  BY <1>2 DEF Unlink
<1>3. CASE CreateLinkFails(s) \/ GrantFails(s)
  <2>1. Place(s) \in Places
    BY <1>3, SpecsFacts DEF CreateLinkFails, GrantFails, Place, BaseInv, Ranged
  <2>2. link[Place(s)] \in Source \cup {NoSource}
    BY <2>1 DEF BaseInv, TypeOK
  <2> QED
    BY <1>3, <2>2 DEF CreateLinkFails, GrantFails
<1> QED
  BY <1>1, <1>2, <1>3
     DEF Act, Succeeds, Step, Failure, BeginCreate, BeginDestroy, SaveMeta, WriteMeta,
         ReadDacl, WriteDacl, Load, Scan, ScanFails, Rmtree, UnlinkMeta, GroupMissing,
         RevokeFails, UnlinkFails, HelperLost, shared

\* The variables of another sandbox's helper, and what is kept for it.
LEMMA OthersKept ==
  ASSUME BaseInv, NEW s \in Sandbox, NEW t \in Sandbox, s # t, Act(s)
  PROVE  /\ pc'[t] = pc[t] /\ task'[t] = task[t] /\ at'[t] = at[t] /\ ace'[t] = ace[t]
         /\ keep'[t] = keep[t] /\ dacl'[t] = dacl[t] /\ status'[t] = status[t]
         /\ sids'[t] = sids[t] /\ meta'[t] = meta[t] /\ torn'[t] = torn[t]
         /\ specs'[t] = specs[t] /\ listed'[t] = listed[t] /\ overlaid'[t] = overlaid[t]
         /\ \A p \in Target : link'[<<t, p>>] = link[<<t, p>>]
<1>1. ASSUME NEW p \in Target
      PROVE  link'[<<t, p>>] = link[<<t, p>>]
  <2>1. CASE link' = link
    BY <2>1
  <2>2. CASE link' # link
    <3>1. PICK v \in Source \cup {NoSource} : link' = [link EXCEPT ![Place(s)] = v]
      BY <2>2, LinkFrame
    <3>2. Place(s) # <<t, p>> /\ <<t, p>> \in Places /\ DOMAIN link = Places
      BY <1>1 DEF Place, Places, BaseInv, TypeOK
    <3> QED
      BY <3>1, <3>2
  <2> QED
    BY <2>1, <2>2
<1> USE DEF BaseInv, TypeOK, Goto
<1>2. CASE BeginCreate(s) \/ BeginDestroy(s)
  <2>1. /\ pc'[t] = pc[t] /\ task'[t] = task[t] /\ specs'[t] = specs[t]
        /\ sids'[t] = sids[t] /\ overlaid'[t] = overlaid[t]
    <3>1. CASE BeginDestroy(s)
      BY <3>1 DEF BeginDestroy
    <3>2. CASE BeginCreate(s)
      <4>1. overlaid'[t] = overlaid[t]
        BY <3>2 DEF BeginCreate
      <4>2. PICK config \in Configs[s] :
                /\ specs' = [specs EXCEPT ![s] = config]
                /\ pc' = [pc EXCEPT ![s] = IF config = <<>> THEN "save" ELSE "link"]
        BY <3>2 DEF BeginCreate
      <4>3. specs'[t] = specs[t] /\ pc'[t] = pc[t]
        BY <4>2
      <4>4. sids'[t] = sids[t] /\ task'[t] = task[t]
        BY <3>2 DEF BeginCreate
      <4> QED
        BY <4>1, <4>3, <4>4
    <3> QED
      BY <1>2, <3>1, <3>2
  <2>2. UNCHANGED <<at, ace, keep, dacl, status, meta, torn, listed>>
    BY <1>2 DEF BeginCreate, BeginDestroy, shared, file
  <2> QED
    BY <1>1, <2>1, <2>2
<1>3. CASE CreateLink(s) \/ SaveMeta(s) \/ ReadDacl(s) \/ Load(s) \/ Unlink(s)
           \/ Scan(s) \/ Rmtree(s) \/ UnlinkFails(s)
  BY <1>1, <1>3
     DEF CreateLink, SaveMeta, ReadDacl, Load, Unlink, Scan, Rmtree, UnlinkFails,
         helper, shared, file
<1>4. CASE WriteMeta(s) \/ UnlinkMeta(s) \/ ScanFails(s) \/ CreateLinkFails(s)
           \/ GroupMissing(s) \/ GrantFails(s) \/ HelperLost(s)
  BY <1>1, <1>4
     DEF WriteMeta, UnlinkMeta, ScanFails, CreateLinkFails, GroupMissing, GrantFails,
         HelperLost, Fail, Finish, shared, file
<1>5. CASE WriteDacl(s) \/ RevokeFails(s)
  BY <1>1, <1>5 DEF WriteDacl, RevokeFails, NextAce, NextSpec, shared, file
<1> QED
  BY <1>2, <1>3, <1>4, <1>5 DEF Act, Succeeds, Step, Failure

\* What another sandbox's links are accounted for by.
LEMMA OthersTraced ==
  ASSUME BaseInv, NEW s \in Sandbox, NEW t \in Sandbox, s # t, Act(s), Traced(t)
  PROVE  Traced(t)'
<1>1. /\ pc'[t] = pc[t] /\ task'[t] = task[t] /\ at'[t] = at[t] /\ status'[t] = status[t]
      /\ specs'[t] = specs[t] /\ overlaid'[t] = overlaid[t]
      /\ \A p \in Target : link'[<<t, p>>] = link[<<t, p>>]
  BY OthersKept
<1>2. \A k \in DOMAIN specs[t] : Gone(t, k)' <=> Gone(t, k)
  <2>1. \A k \in DOMAIN specs[t] : specs[t][k].target \in Target
    BY SpecsFacts DEF Mount
  <2> QED
    BY <1>1, <2>1 DEF Gone
<1>3. Unlinked(t)'
  BY <1>1, <1>2 DEF Traced, Unlinked
<1>4. \A p \in Target :
          (Forgotten(t, p)' <=> Forgotten(t, p)) /\ (Asked(t, p)' <=> Asked(t, p))
  BY <1>1 DEF Forgotten, Asked
<1>5. Accounted(t)'
  BY <1>1, <1>4 DEF Traced, Accounted, Cleared
<1> QED
  BY <1>3, <1>5 DEF Traced

-----------------------------------------------------------------------------
(* What a step does to the sandbox it is taken for *)

\* A link step changes the place it is at and no other.
LEMMA LinkAt ==
  ASSUME BaseInv, NEW s \in Sandbox, at[s] \in DOMAIN specs[s],
         NEW v \in Source \cup {NoSource}, link' = [link EXCEPT ![Place(s)] = v]
  PROVE  /\ \A k \in DOMAIN specs[s] : link'[<<s, specs[s][k].target>>] =
                IF k = at[s] THEN v ELSE link[<<s, specs[s][k].target>>]
         /\ \A t \in Target : link'[<<s, t>>] =
                IF t = specs[s][at[s]].target THEN v ELSE link[<<s, t>>]
<1>1. DOMAIN link = Places
  BY DEF BaseInv, TypeOK
<1>2. \A t \in Target : <<s, t>> = Place(s) <=> t = specs[s][at[s]].target
  BY DEF Place
<1>3. \A t \in Target : link'[<<s, t>>] =
            IF t = specs[s][at[s]].target THEN v ELSE link[<<s, t>>]
  BY <1>1, <1>2 DEF Places
<1>4. ASSUME NEW k \in DOMAIN specs[s]
      PROVE  /\ specs[s][k].target \in Target
             /\ specs[s][k].target = specs[s][at[s]].target <=> k = at[s]
  <2>1. specs[s][k] \in Mount
    BY <1>4, SpecsFacts
  <2>2. specs[s][k].target = specs[s][at[s]].target => k = at[s]
    BY <1>4, SpecsFacts
  <2> QED
    BY <2>1, <2>2 DEF Mount
<1> QED
  BY <1>3, <1>4

\* Destroy's Load finds the mounts of the sandbox's last create.
LEMMA LoadsSpecs ==
  ASSUME BaseInv, NEW s \in Sandbox, Load(s)
  PROVE  specs' = specs /\ (specs[s] # <<>> => pc'[s] = "unlink")
         /\ (specs[s] = <<>> => pc'[s] = "rmtree") /\ at[s] = 1 /\ at' = at
<1>1. listed[s] = specs[s] /\ at[s] = 1
  BY DEF BaseInv, Ranged, Tasks, Registered, Load
<1> QED
  BY <1>1 DEF BaseInv, TypeOK, Load, Goto

\* What Unlinked says of the helper that takes the step: Unlink clears the
\* link at its index, WriteDacl moves the index past it.
LEMMA OwnUnlinked ==
  ASSUME BaseInv, NEW s \in Sandbox, Unlinked(s), Succeeds(s)
  PROVE  Unlinked(s)'
<1> USE DEF BaseInv
<1>a. CASE BeginCreate(s) \/ BeginDestroy(s)
  BY <1>a DEF TypeOK, BeginCreate, BeginDestroy, Goto, Unlinked
<1>b. CASE ~(BeginCreate(s) \/ BeginDestroy(s))
 <2>0. specs' = specs
   BY <1>b, LoadsSpecs
      DEF Succeeds, Step, CreateLink, SaveMeta, WriteMeta, ReadDacl, WriteDacl, Unlink,
          Scan, ScanFails, Rmtree, UnlinkMeta, Fail, Finish, helper
 <2> SUFFICES ASSUME NEW k \in DOMAIN specs[s]
              PROVE  /\ pc'[s] = "unlink" /\ k < at'[s] => Gone(s, k)'
                     /\ pc'[s] \in {"scan", "read_dacl", "write_dacl"} /\ task'[s] = "destroy"
                             /\ k <= at'[s] => Gone(s, k)'
                     /\ pc'[s] = "rmtree" => Gone(s, k)'
   BY <2>0 DEF Unlinked
 <2>1. /\ k \in 1..Len(specs[s]) /\ Len(specs[s]) \in Nat /\ at[s] \in Nat \ {0}
       /\ specs[s] # <<>>
   <3>1. at[s] \in Nat \ {0}
     BY DEF TypeOK
   <3>2. specs[s] # <<>>
     OBVIOUS
   <3> QED
     BY <3>1, <3>2, SpecsFacts
 <2>2. CASE CreateLink(s)
   BY <2>2 DEF TypeOK, Tasks, CreateLink, Goto, helper
 <2>3. CASE SaveMeta(s) \/ Rmtree(s)
   BY <2>3 DEF TypeOK, SaveMeta, Rmtree, Goto
 <2>4. CASE WriteMeta(s) \/ UnlinkMeta(s) \/ ScanFails(s)
   BY <2>4 DEF TypeOK, WriteMeta, UnlinkMeta, ScanFails, Fail, Finish, Goto
 <2>5. CASE ReadDacl(s)
   BY <2>5 DEF TypeOK, Unlinked, ReadDacl, Goto, Gone, shared
 <2>6. CASE WriteDacl(s)
   <3>1. /\ task[s] = "destroy" /\ k <= at[s] => Gone(s, k)
         /\ Gone(s, k)' <=> Gone(s, k)
         /\ task' = task
     BY <2>6 DEF Unlinked, WriteDacl, Gone
   <3>2. CASE NextSpec(s)
     <4>1. CASE at[s] < Len(specs[s])
       <5>1. /\ at'[s] = at[s] + 1
             /\ pc'[s] = IF task[s] = "create" THEN "link" ELSE "unlink"
         BY <3>2, <4>1 DEF TypeOK, NextSpec, Goto
       <5>2. k < at[s] + 1 => k <= at[s]
         BY <2>1
       <5>3. task[s] \in {"create", "destroy"}
         BY DEF TypeOK
       <5> QED
         BY <3>1, <5>1, <5>2, <5>3
     <4>2. CASE ~(at[s] < Len(specs[s]))
       <5>1. pc'[s] = IF task[s] = "create" THEN "save" ELSE "rmtree"
         BY <3>2, <4>2 DEF TypeOK, NextSpec, Goto
       <5>2. k <= at[s]
         BY <2>1, <4>2
       <5>3. task[s] \in {"create", "destroy"}
         BY DEF TypeOK
       <5> QED
         BY <3>1, <5>1, <5>2, <5>3
     <4> QED
       BY <4>1, <4>2
   <3>3. CASE ~NextSpec(s)
     <4>1. at' = at /\ pc'[s] = "read_dacl"
       BY <2>6, <3>3 DEF TypeOK, WriteDacl, NextAce, Goto
     <4> QED
       BY <3>1, <4>1
   <3> QED
     BY <3>2, <3>3
 <2>7. CASE Load(s)
   <3>1. pc'[s] = "unlink" /\ at'[s] = 1
     BY <2>1, <2>7, LoadsSpecs
   <3> QED
     BY <2>1, <3>1
 <2>8. CASE Unlink(s)
   <3>1. pc'[s] = "scan" /\ at' = at /\ pc[s] = "unlink" /\ at[s] \in DOMAIN specs[s]
     BY <2>8 DEF TypeOK, Ranged, Unlink, Goto, helper
   <3>2. link'[<<s, specs[s][k].target>>] =
            IF k = at[s] THEN NoSource ELSE link[<<s, specs[s][k].target>>]
     BY <2>8, <3>1, LinkAt DEF Unlink
   <3>3. k < at[s] => Gone(s, k)
     BY <3>1 DEF Unlinked
   <3>4. k <= at[s] => k < at[s] \/ k = at[s]
     BY <2>1
   <3>5. k <= at[s] => Gone(s, k)'
     BY <2>0, <3>2, <3>3, <3>4 DEF Gone
   <3> QED
     BY <3>1, <3>5
 <2>9. CASE Scan(s)
   <3>1. pc'[s] = "read_dacl" /\ at' = at /\ (k <= at[s] => Gone(s, k))
     BY <2>9 DEF TypeOK, Tasks, Unlinked, Scan, Goto
   <3>2. Gone(s, k)' <=> Gone(s, k)
     BY <2>9 DEF Scan, Gone, shared
   <3> QED
     BY <3>1, <3>2
 <2> QED
   BY <1>b, <2>2, <2>3, <2>4, <2>5, <2>6, <2>7, <2>8, <2>9 DEF Succeeds, Step
<1> QED
  BY <1>a, <1>b

\* A place leads where the request under way would have it lead, or an older one.
LEMMA OwnAccounted ==
  ASSUME BaseInv, NEW s \in Sandbox, Traced(s), Succeeds(s)
  PROVE  Accounted(s)'
<1> USE DEF BaseInv
<1>0. /\ status[s] # "create failed"
      /\ \A t \in Target : Forgotten(s, t) \/ Asked(s, t)
      /\ Cleared(s) => \A t \in Target : Forgotten(s, t)
      /\ s \in DOMAIN pc /\ s \in DOMAIN status
  BY DEF Traced, Accounted, TypeOK
<1>1. CASE BeginCreate(s)
  <2>1. /\ pc[s] = "idle" /\ pc'[s] # "idle" /\ pc'[s] \in {"save", "link"}
        /\ link' = link /\ status' = status
        /\ status[s] \in {"absent", "unrecorded"}
    BY <1>0, <1>1 DEF BeginCreate, MayBegin, Goto, shared
  <2>2. ASSUME NEW t \in Target PROVE Forgotten(s, t)'
    <3>1. overlaid[s] \subseteq overlaid'[s]
      BY <1>1 DEF BeginCreate, TypeOK
    <3>2. CASE Forgotten(s, t)
      BY <2>1, <3>1, <3>2 DEF Forgotten
    <3>3. CASE ~Forgotten(s, t)
      <4>1. status[s] = "unrecorded" /\ Asked(s, t)
        BY <1>0, <2>1, <3>3 DEF Cleared
      <4>2. overlaid'[s] = overlaid[s] \cup Elements(specs[s])
        BY <1>1, <4>1 DEF BeginCreate, TypeOK
      <4>3. PICK k \in DOMAIN specs[s] :
                specs[s][k].target = t /\ specs[s][k].source = link[<<s, t>>]
        BY <4>1 DEF Asked
      <4>4. specs[s][k] = [target |-> t, source |-> link[<<s, t>>]]
        <5>1. specs[s][k] \in Mount
          BY <4>3, SpecsFacts
        <5> QED
          BY <4>3, <5>1 DEF Mount
      <4>5. specs[s][k] \in Elements(specs[s])
        BY <4>3 DEF Elements
      <4> QED
        BY <2>1, <4>2, <4>4, <4>5 DEF Forgotten
    <3> QED
      BY <3>2, <3>3
  <2> QED
    BY <1>0, <2>1, <2>2 DEF Accounted
<1>2. CASE ~BeginCreate(s)
  <2>0. specs' = specs /\ overlaid' = overlaid
    BY <1>2, LoadsSpecs
       DEF Succeeds, Step, BeginDestroy, CreateLink, SaveMeta, WriteMeta, ReadDacl,
           WriteDacl, Load, Unlink, Scan, ScanFails, Rmtree, UnlinkMeta, Fail, Finish, helper
  <2>1. CASE CreateLink(s) \/ Unlink(s)
    <3>0. /\ status' = status /\ pc'[s] \in {"read_dacl", "scan"}
          /\ at[s] \in DOMAIN specs[s]
      BY <1>0, <2>1 DEF CreateLink, Unlink, Goto, Ranged
    <3>1. PICK v \in Source \cup {NoSource} :
              /\ link' = [link EXCEPT ![Place(s)] = v]
              /\ v = NoSource \/ v = Here(s)
      BY <2>1, <3>0, SpecsFacts DEF CreateLink, Unlink, Here
    <3>2. ASSUME NEW t \in Target PROVE Forgotten(s, t)' \/ Asked(s, t)'
      <4>1. link'[<<s, t>>] = IF t = specs[s][at[s]].target THEN v ELSE link[<<s, t>>]
        BY <3>0, <3>1, LinkAt
      <4>2. CASE t # specs[s][at[s]].target
        BY <1>0, <2>0, <4>1, <4>2 DEF Forgotten, Asked
      <4>3. CASE t = specs[s][at[s]].target
        BY <2>0, <3>0, <3>1, <4>1, <4>3 DEF Forgotten, Asked, Here
      <4> QED
        BY <4>2, <4>3
    <3>3. ~Cleared(s)'
      BY <3>0 DEF Cleared
    <3> QED
      BY <1>0, <3>0, <3>2, <3>3 DEF Accounted
  <2>2. CASE ~(CreateLink(s) \/ Unlink(s))
    <3>0. link' = link
      BY <1>2, <2>2
         DEF Succeeds, Step, BeginDestroy, SaveMeta, WriteMeta, ReadDacl, WriteDacl, Load,
             Scan, ScanFails, Rmtree, UnlinkMeta, shared
    <3>1. \A t \in Target : (Forgotten(s, t)' <=> Forgotten(s, t))
                             /\ (Asked(s, t)' <=> Asked(s, t))
      BY <2>0, <3>0 DEF Forgotten, Asked
    <3>2. status'[s] # "create failed"
      <4>1. CASE WriteMeta(s) \/ UnlinkMeta(s)
        BY <1>0, <4>1 DEF WriteMeta, UnlinkMeta, Finish
      <4>2. CASE ScanFails(s)
        BY <1>0, <4>2 DEF ScanFails, Fail, Finish, Tasks
      <4>3. CASE ~(WriteMeta(s) \/ UnlinkMeta(s) \/ ScanFails(s))
        BY <1>0, <1>2, <2>2, <4>3
           DEF Succeeds, Step, BeginDestroy, SaveMeta, ReadDacl, WriteDacl, Load, Scan, Rmtree
      <4> QED
        BY <4>1, <4>2, <4>3
    <3>3. Cleared(s)' => \A t \in Target : Forgotten(s, t)
      <4>1. CASE Rmtree(s) \/ UnlinkMeta(s)
        BY <1>0, <4>1 DEF Rmtree, UnlinkMeta, Cleared
      <4>2. ASSUME pc'[s] = "rmtree", NEW t \in Target PROVE Forgotten(s, t)
        <5>1. \A k \in DOMAIN specs[s] : Gone(s, k)'
          BY <2>0, <4>2, OwnUnlinked DEF Traced, Unlinked
        <5>2. \A k \in DOMAIN specs[s] : link[<<s, specs[s][k].target>>] = NoSource
          BY <2>0, <3>0, <5>1 DEF Gone
        <5> QED
          BY <1>0, <4>2, <5>2 DEF Asked, Forgotten
      <4>3. CASE BeginDestroy(s) \/ SaveMeta(s) \/ ReadDacl(s) \/ Scan(s)
        BY <1>0, <4>3 DEF BeginDestroy, SaveMeta, ReadDacl, Scan, Goto, Cleared
      <4>4. CASE WriteMeta(s)
        BY <1>0, <4>4 DEF WriteMeta, Finish, Goto, Cleared
      <4>5. CASE ScanFails(s)
        BY <1>0, <4>5 DEF ScanFails, Fail, Finish, Goto, Cleared, Tasks
      <4>6. CASE Load(s)
        <5>1. pc'[s] \in {"rmtree", "unlink"}
          BY <1>0, <4>6 DEF Load, Goto
        <5> QED
          BY <4>2, <5>1 DEF Cleared
      <4>7. CASE WriteDacl(s)
        <5>1. pc'[s] \notin {"idle", "unlink_meta"}
          BY <1>0, <4>7 DEF WriteDacl, NextAce, NextSpec, Goto
        <5> QED
          BY <4>2, <5>1 DEF Cleared
      <4> QED
        BY <1>2, <2>2, <4>1, <4>3, <4>4, <4>5, <4>6, <4>7 DEF Succeeds, Step
    <3> QED
      BY <1>0, <3>1, <3>2, <3>3 DEF Accounted
  <2> QED
    BY <2>1, <2>2
<1> QED
  BY <1>1, <1>2

\* What a create was laid over stays known.
LEMMA BuriedStays ==
  ASSUME BaseInv, NEW s \in Sandbox, Act(s), NEW t \in Sandbox
  PROVE  Buried(t) \subseteq Buried(t)'
<1>1. overlaid[t] \subseteq overlaid'[t]
  <2>1. CASE BeginCreate(s)
    BY <2>1 DEF BeginCreate, BaseInv, TypeOK
  <2>2. CASE ~BeginCreate(s)
    BY <2>2
       DEF Act, Succeeds, Failure, Step, BeginDestroy, CreateLink, SaveMeta, WriteMeta,
           ReadDacl, WriteDacl, Load, Unlink, Scan, ScanFails, Rmtree, UnlinkMeta,
           CreateLinkFails, GroupMissing, GrantFails, RevokeFails, UnlinkFails, HelperLost,
           Fail, Finish, helper
  <2> QED
    BY <2>1, <2>2
<1> QED
  BY <1>1 DEF Buried

\* Only Rmtree takes files away, and only through a link.
LEMMA RmtreeSafe ==
  ASSUME BaseInv, Spared, NEW s \in Sandbox, Accounted(s), Succeeds(s)
  PROVE  Spared'
<1>0. \A t \in Sandbox : Buried(t) \subseteq Buried(t)'
  BY BuriedStays DEF Act
<1> SUFFICES ASSUME NEW f \in Source
             PROVE  intact'[f] \/ \E t \in Sandbox : f \in Buried(t)'
  BY DEF Spared
<1>1. intact[f] \/ \E t \in Sandbox : f \in Buried(t)'
  BY <1>0 DEF Spared
<1>2. CASE Rmtree(s)
  <2>1. intact'[f] = (intact[f] /\ \A t \in Target : link[<<s, t>>] # f)
    BY <1>2 DEF Rmtree
  <2>2. ASSUME NEW t \in Target, link[<<s, t>>] = f PROVE f \in Buried(s)
    <3>1. Forgotten(s, t)
      BY <1>2, <2>2 DEF Rmtree, Accounted, Cleared
    <3>2. [target |-> t, source |-> f] \in overlaid[s]
      BY <2>2, <3>1, NoSourceIsNoSource DEF Forgotten
    <3>3. [target |-> t, source |-> f].source = f
      OBVIOUS
    <3> QED
      BY <3>2, <3>3 DEF Buried
  <2> QED
    BY <1>0, <1>1, <2>1, <2>2
<1>3. CASE ~Rmtree(s)
  <2>1. intact' = intact
    BY <1>3
       DEF Succeeds, Step, BeginCreate, BeginDestroy, CreateLink, SaveMeta, WriteMeta,
           ReadDacl, WriteDacl, Load, Unlink, Scan, ScanFails, UnlinkMeta, shared
  <2> QED
    BY <1>1, <2>1
<1> QED
  BY <1>2, <1>3

\* A step after which no call has failed is no failure, and none had failed
\* before it.
LEMMA NoFailure ==
  ASSUME BaseInv, Next, faults' = 0
  PROVE  faults = 0 /\ \E s \in Sandbox : Succeeds(s)
<1>1. ~Fault
  <2>1. faults \in 0..MaxFaults
    BY DEF BaseInv, TypeOK
  <2> QED
    BY <2>1, MountBounds DEF Fault
<1>2. PICK s \in Sandbox : Succeeds(s)
  BY <1>1
     DEF Next, Succeeds, Failure, CreateLinkFails, GroupMissing, GrantFails, RevokeFails,
         UnlinkFails, HelperLost
<1>3. faults' = faults
  BY <1>2
     DEF Succeeds, Step, BeginCreate, BeginDestroy, CreateLink, SaveMeta, WriteMeta,
         ReadDacl, WriteDacl, Load, Unlink, Scan, ScanFails, Rmtree, UnlinkMeta
<1> QED
  BY <1>2, <1>3

\* Every step keeps the invariant.
LEMMA SafeInvNext ==
  ASSUME SafeInv, [Next]_vars
  PROVE  SafeInv'
<1>1. BaseInv /\ BaseInv'
  BY BaseInvNext DEF SafeInv
<1>2. CASE UNCHANGED vars
  <2>1. faults' = faults /\ (Spared' <=> Spared)
    BY <1>2 DEF Spared, Buried, vars, shared
  <2>2. \A s \in Sandbox : Traced(s)' <=> Traced(s)
    BY <1>2 DEF Traced, Unlinked, Accounted, Cleared, Forgotten, Asked, Gone,
                vars, shared, helper
  <2> QED
    BY <1>1, <2>1, <2>2 DEF SafeInv
<1>3. CASE Next /\ faults' # 0
  BY <1>1, <1>3 DEF SafeInv
<1>4. CASE Next /\ faults' = 0
  <2>1. PICK s \in Sandbox : Succeeds(s)
    BY <1>1, <1>4, NoFailure
  <2>2. Spared /\ \A t \in Sandbox : Traced(t)
    BY <1>1, <1>4, NoFailure DEF SafeInv
  <2>3. Spared'
    BY <1>1, <2>1, <2>2, RmtreeSafe DEF Traced
  <2>4. ASSUME NEW t \in Sandbox PROVE Traced(t)'
    <3>1. CASE t = s
      BY <1>1, <2>1, <2>2, <3>1, OwnUnlinked, OwnAccounted DEF Traced
    <3>2. CASE t # s
      BY <1>1, <2>1, <2>2, <3>2, OthersTraced DEF Act
    <3> QED
      BY <3>1, <3>2
  <2> QED
    BY <1>1, <2>3, <2>4 DEF SafeInv
<1> QED
  BY <1>2, <1>3, <1>4

(***************************************************************************)
(* As long as no call fails, a file of the user's is removed only from a   *)
(* folder that an unrecorded create had mounted, however many sandboxes    *)
(* share folders, however their configs are edited and however their       *)
(* creates and destroys interleave: mounts.destroy has removed each link   *)
(* its metadata lists before it deletes the tree the links were in.  One   *)
(* failed unlink (the run MCMounts_files) or one create laid over another  *)
(* (MCMounts_recreate) is enough to lose them.                             *)
(***************************************************************************)
THEOREM FilesSafeAlways == Spec => []FilesSafeWithoutFaults
<1>1. Init => SafeInv
  BY InitSafeInv
<1>2. SafeInv /\ [Next]_vars => SafeInv'
  BY SafeInvNext
<1>3. SafeInv => FilesSafeWithoutFaults
  BY DEF SafeInv, Spared, FilesSafeWithoutFaults
<1> QED
  BY <1>1, <1>2, <1>3, PTL DEF Spec

-----------------------------------------------------------------------------
(***************************************************************************)
(* The user who asks for one create or destroy at a time (Overlap = FALSE),*)
(* for every set of sandboxes and every config of mounts, shared sources   *)
(* and sources mounted twice among them.  First: mounted sandboxes work.   *)
(***************************************************************************)
\* One request is under way.
OneAtATime == \A s, t \in Sandbox : s # t => pc[s] = "idle" \/ pc[t] = "idle"

InAce == {"read_dacl", "write_dacl"}

\* Another sandbox mounts the source a destroy is at.
Shared(s) == \E t \in Sandbox \ {s} : Here(s) \in Sources(listed[t])

\* What the helper's locals mean: above all that its DACL is the folder's, and
\* that destroy takes the group's ACE only from what nobody else mounts.
Locals(s) ==
    /\ pc[s] = "write_dacl" => dacl[s] = acl[Here(s)]
    /\ pc[s] \in {"idle", "link", "load", "unlink", "scan"} => ace[s] = "sid"
    /\ pc[s] = "idle" \/ task[s] = "create" => ~keep[s]
    /\ pc[s] \in InAce /\ task[s] = "destroy" => (keep[s] <=> Shared(s))
    /\ pc[s] \in InAce /\ ace[s] = "group" => ~keep[s]

\* The metadata names the SID the sandbox runs with.
MetaNames(s) == status[s] \in {"mounted", "destroy failed"} => meta[s] = sids[s]

\* What create has done for a mount when it goes on to the next one.
Linked(s, k) == link[<<s, specs[s][k].target>>] = specs[s][k].source
Granted(s, k) == {<<s, sids[s]>>, Group} \subseteq acl[specs[s][k].source]

BuiltAt(s, k) ==
    /\ pc[s] \in {"link"} \cup InAce /\ task[s] = "create" /\ k < at[s] =>
            Linked(s, k) /\ Granted(s, k)
    /\ pc[s] \in InAce /\ task[s] = "create" /\ k = at[s] =>
            Linked(s, k) /\ (ace[s] = "group" => <<s, sids[s]>> \in acl[specs[s][k].source])
    /\ pc[s] \in {"save", "save_write"} => Linked(s, k) /\ Granted(s, k)

Built(s) == \A k \in DOMAIN specs[s] : BuiltAt(s, k)

Works(s) == Idle(s) /\ status[s] = "mounted" => Usable(s)

Holds(s) == Locals(s) /\ MetaNames(s) /\ Built(s) /\ Works(s)

SerialInv == BaseInv /\ OneAtATime /\ \A s \in Sandbox : Holds(s)

\* The invariant holds at first: nothing is under way and nothing is mounted.
LEMMA InitSerialInv == Init => SerialInv
  BY InitBaseInv
     DEF Init, SerialInv, OneAtATime, Holds, Locals, MetaNames, Built, BuiltAt,
         Works, Usable, InAce, Idle

\* Only WriteDacl changes an ACL, and with a fresh DACL it does what it is for.
LEMMA AclStep ==
  ASSUME BaseInv, NEW s \in Sandbox, Locals(s), Act(s)
  PROVE  \/ acl' = acl
         \/ /\ WriteDacl(s)
            /\ pc[s] = "write_dacl"
            /\ acl' = [acl EXCEPT ![Here(s)] =
                    IF task[s] = "create" THEN acl[Here(s)] \cup {Trustee(s)}
                                          ELSE acl[Here(s)] \ {Trustee(s)}]
<1>1. CASE WriteDacl(s)
  BY <1>1 DEF WriteDacl, Locals
<1>2. CASE ~WriteDacl(s)
  BY <1>2
     DEF Act, Succeeds, Step, Failure, BeginCreate, BeginDestroy, CreateLink,
         SaveMeta, WriteMeta,
         ReadDacl, Load, Unlink, Scan, ScanFails, Rmtree, UnlinkMeta, CreateLinkFails,
         GroupMissing, GrantFails, RevokeFails, UnlinkFails, HelperLost, shared
<1> QED
  BY <1>1, <1>2

\* One request at a time stays one.
LEMMA StillOne ==
  ASSUME BaseInv, OneAtATime, ~Overlap, NEW s \in Sandbox, Act(s)
  PROVE  OneAtATime' /\ \A t \in Sandbox \ {s} : pc[t] = "idle"
<1>1. \A t \in Sandbox \ {s} : pc[t] = "idle"
  <2>1. CASE pc[s] = "idle"
    BY <2>1 DEF Act, Succeeds, Step, Failure, BeginCreate, BeginDestroy, MayBegin,
                CreateLink,
         SaveMeta, WriteMeta, ReadDacl, WriteDacl, Load, Unlink, Scan, ScanFails, Rmtree,
         UnlinkMeta, CreateLinkFails, GroupMissing, GrantFails, RevokeFails, UnlinkFails,
         HelperLost
  <2>2. CASE pc[s] # "idle"
    BY <2>2 DEF OneAtATime
  <2> QED
    BY <2>1, <2>2
<1>2. \A t \in Sandbox \ {s} : pc'[t] = "idle"
  BY <1>1, OthersKept
<1> QED
  BY <1>1, <1>2 DEF OneAtATime

(***************************************************************************)
(* A mounted sandbox keeps what it needs while another one's helper runs:  *)
(* the ACE that names its SID is nobody else's, and the group's ACE stays  *)
(* on a source that its metadata names.                                    *)
(***************************************************************************)
LEMMA UsableKept ==
  ASSUME SerialInv, NEW s \in Sandbox, NEW t \in Sandbox, s # t, Act(s),
         pc[t] = "idle", status[t] = "mounted"
  PROVE  Usable(t)'
<1> USE DEF SerialInv
<1>0. BaseInv /\ Locals(s) /\ Usable(t) /\ listed[t] = specs[t] /\ sids'[t] = sids[t]
      /\ specs'[t] = specs[t]
  BY OthersKept DEF Holds, Works, Idle, BaseInv, Registered
<1>1. ASSUME NEW k \in DOMAIN specs[t]
      PROVE  link'[<<t, specs[t][k].target>>] = specs[t][k].source
  <2>1. specs[t][k].target \in Target
    BY <1>0, <1>1, SpecsFacts DEF Mount
  <2> QED
    BY <1>0, <1>1, <2>1, OthersKept DEF Usable
<1>2. ASSUME NEW k \in DOMAIN specs[t]
      PROVE  {<<t, sids[t]>>, Group} \subseteq acl'[specs[t][k].source]
  <2> DEFINE f == specs[t][k].source
  <2>1. f \in Source /\ {<<t, sids[t]>>, Group} \subseteq acl[f] /\ f \in Sources(listed[t])
    BY <1>0, <1>2, SpecsFacts DEF Usable, Sources
  <2>2. DOMAIN acl = Source
    BY <1>0 DEF BaseInv, TypeOK
  <2> HIDE DEF f
  <2>3. CASE acl' = acl
    BY <2>1, <2>3 DEF f
  <2>4. CASE acl' # acl
    <3>1. /\ pc[s] = "write_dacl"
          /\ acl' = [acl EXCEPT ![Here(s)] =
                  IF task[s] = "create" THEN acl[Here(s)] \cup {Trustee(s)}
                                        ELSE acl[Here(s)] \ {Trustee(s)}]
      BY <1>0, <2>4, AclStep
    <3>2. task[s] \in {"create", "destroy"} /\ ace[s] \in {"sid", "group"}
      BY <1>0 DEF BaseInv, TypeOK
    <3>3. CASE f # Here(s) \/ task[s] = "create"
      BY <2>1, <2>2, <3>1, <3>3 DEF f
    <3>4. CASE f = Here(s) /\ task[s] = "destroy"
      <4>1. Shared(s)
        BY <1>0, <2>1, <3>4 DEF Shared
      <4>2. ace[s] = "sid"
        BY <1>0, <3>1, <3>2, <3>4, <4>1 DEF Locals, InAce
      <4>3. Trustee(s) = <<s, meta[s]>> /\ <<s, meta[s]>> \in Sids
        <5>1. meta[s] \in 1..MaxSids
          <6>1. meta[s] \in 0..MaxSids /\ meta[s] # 0
            BY <1>0, <3>1, <3>4 DEF BaseInv, TypeOK, Registered
          <6> QED
            BY <6>1, MountBounds
        <5> QED
          BY <3>4, <4>2, <5>1 DEF Trustee, Sid, Sids
      <4>4. Trustee(s) # Group /\ Trustee(s) # <<t, sids[t]>>
        BY <4>3, GroupIsNoSid
      <4> QED
        BY <2>1, <2>2, <3>1, <3>4, <4>4 DEF f
    <3> QED
      BY <3>2, <3>3, <3>4
  <2> QED
    BY <2>3, <2>4
<1> QED
  BY <1>0, <1>1, <1>2 DEF Usable

\* What holds of a sandbox without a request stays true while another's runs.
LEMMA OthersHold ==
  ASSUME SerialInv, NEW s \in Sandbox, NEW t \in Sandbox, s # t, Act(s),
         pc[t] = "idle"
  PROVE  Holds(t)'
<1>0. BaseInv /\ Holds(t)
  BY DEF SerialInv
<1>1. /\ pc'[t] = pc[t] /\ task'[t] = task[t] /\ ace'[t] = ace[t]
      /\ keep'[t] = keep[t] /\ status'[t] = status[t]
      /\ sids'[t] = sids[t] /\ meta'[t] = meta[t] /\ specs'[t] = specs[t]
  BY <1>0, OthersKept
<1>2. Locals(t)' /\ MetaNames(t)' /\ Built(t)'
  BY <1>0, <1>1 DEF Holds, Locals, MetaNames, Built, BuiltAt, InAce
<1>3. Works(t)'
  BY <1>1, UsableKept DEF Works, Idle
<1> QED
  BY <1>2, <1>3 DEF Holds

-----------------------------------------------------------------------------
(* What a step does to the sandbox it is taken for *)

\* A request that ends without success leaves nothing to keep but the
\* metadata's name.
LEMMA EndHolds ==
  ASSUME SerialInv, NEW s \in Sandbox, pc[s] # "idle", meta'[s] = meta[s], Fail(s)
  PROVE  Holds(s)'
<1>1. /\ pc'[s] = "idle" /\ ace'[s] = "sid" /\ keep'[s] = FALSE /\ sids' = sids
      /\ status'[s] = IF task[s] = "create" THEN "create failed" ELSE "destroy failed"
  BY DEF SerialInv, BaseInv, TypeOK, Fail, Finish, Goto
<1>2. task[s] # "create" => meta[s] = sids[s]
  BY DEF SerialInv, BaseInv, TypeOK, Registered, Holds, MetaNames
<1> QED
  BY <1>1, <1>2 DEF Holds, Locals, MetaNames, Built, BuiltAt, Works, InAce, Idle

\* A write of the DACL, or destroy's failure to write it: where the helper goes.
LEMMA AceMove ==
  ASSUME BaseInv, NEW s \in Sandbox, pc[s] \in InAce, NextAce(s)
  PROVE  \/ /\ ace[s] = "sid" /\ (task[s] = "create" \/ ~keep[s])
            /\ pc'[s] = "read_dacl" /\ at'[s] = at[s] /\ ace'[s] = "group"
         \/ /\ ace[s] = "group" \/ (task[s] = "destroy" /\ keep[s])
            /\ at[s] < Len(specs[s]) /\ at'[s] = at[s] + 1 /\ ace'[s] = "sid"
            /\ pc'[s] = IF task[s] = "create" THEN "link" ELSE "unlink"
         \/ /\ ace[s] = "group" \/ (task[s] = "destroy" /\ keep[s])
            /\ at[s] = Len(specs[s]) /\ at'[s] = at[s] /\ ace'[s] = "sid"
            /\ pc'[s] = IF task[s] = "create" THEN "save" ELSE "rmtree"
<1>0. /\ at[s] \in 1..Len(specs[s]) /\ Len(specs[s]) \in Nat
      /\ ace[s] \in {"sid", "group"} /\ task[s] \in {"create", "destroy"}
      /\ s \in DOMAIN pc /\ s \in DOMAIN at /\ s \in DOMAIN ace
  BY SpecsFacts DEF BaseInv, TypeOK, Ranged, InAce
<1>1. CASE ace[s] = "sid" /\ ~(task[s] = "destroy" /\ keep[s])
  BY <1>0, <1>1 DEF NextAce, Goto
<1>2. CASE ~(ace[s] = "sid" /\ ~(task[s] = "destroy" /\ keep[s]))
  <2>1. NextSpec(s) /\ (ace[s] = "group" \/ (task[s] = "destroy" /\ keep[s]))
    BY <1>0, <1>2 DEF NextAce
  <2>2. CASE at[s] < Len(specs[s])
    BY <1>0, <2>1, <2>2 DEF NextSpec, Goto
  <2>3. CASE ~(at[s] < Len(specs[s]))
    <3>1. at[s] = Len(specs[s])
      BY <1>0, <2>3
    <3> QED
      BY <1>0, <2>1, <2>3, <3>1 DEF NextSpec, Goto
  <2> QED
    BY <2>2, <2>3
<1> QED
  BY <1>1, <1>2

\* Create's write of the DACL.
LEMMA GrantHolds ==
  ASSUME SerialInv, NEW s \in Sandbox, WriteDacl(s), task[s] = "create"
  PROVE  Holds(s)'
<1>0. BaseInv /\ Holds(s) /\ pc[s] \in InAce /\ NextAce(s)
  BY DEF SerialInv, WriteDacl, InAce
<1>1. /\ Here(s) \in Source /\ DOMAIN acl = Source
      /\ at[s] \in 1..Len(specs[s]) /\ Len(specs[s]) \in Nat
      /\ ace[s] \in {"sid", "group"} /\ task'[s] = "create" /\ keep'[s] = FALSE
      /\ link' = link /\ sids' = sids /\ meta' = meta /\ status' = status
      /\ specs' = specs
  <2>1. /\ UNCHANGED <<link, sids, meta, status, specs>>
        /\ task'[s] = "create" /\ keep'[s] = FALSE
    BY <1>0 DEF Holds, Locals, WriteDacl, file
  <2>2. at[s] \in DOMAIN specs[s]
    BY <1>0 DEF BaseInv, Ranged, InAce
  <2>3. Here(s) \in Source /\ at[s] \in 1..Len(specs[s]) /\ Len(specs[s]) \in Nat
    BY <1>0, <2>2, SpecsFacts DEF Here
  <2>4. DOMAIN acl = Source /\ ace[s] \in {"sid", "group"}
    BY <1>0 DEF BaseInv, TypeOK
  <2> QED
    BY <2>1, <2>3, <2>4
<1>2. acl' = [acl EXCEPT ![Here(s)] = acl[Here(s)] \cup {Trustee(s)}]
  BY <1>0 DEF WriteDacl, Holds, Locals
<1>3. \A f \in Source : acl[f] \subseteq acl'[f]
  BY <1>1, <1>2
<1>4. /\ ace[s] = "sid" => <<s, sids[s]>> \in acl'[Here(s)]
      /\ ace[s] = "group" => {<<s, sids[s]>>, Group} \subseteq acl'[Here(s)]
  <2>1. Trustee(s) \in acl'[Here(s)]
    BY <1>1, <1>2
  <2>2. ace[s] = "group" => <<s, sids[s]>> \in acl'[Here(s)]
    BY <1>0, <1>1, <1>3, SpecsFacts DEF Holds, Built, BuiltAt, Here
  <2> QED
    BY <2>1, <2>2 DEF Trustee, Sid
<1>5. ASSUME NEW k \in DOMAIN specs[s]
      PROVE  /\ k < at[s] => Linked(s, k)' /\ Granted(s, k)'
             /\ k = at[s] => Linked(s, k)'
             /\ k = at[s] /\ ace[s] = "group" => Granted(s, k)'
             /\ k = at[s] /\ ace[s] = "sid" => <<s, sids[s]>> \in acl'[specs[s][k].source]
  <2>1. /\ k < at[s] => Linked(s, k) /\ Granted(s, k)
        /\ k = at[s] => Linked(s, k)
        /\ specs[s][k].source \in Source
    BY <1>0, <1>5, SpecsFacts DEF Holds, Built, BuiltAt
  <2> QED
    BY <1>1, <1>3, <1>4, <2>1 DEF Linked, Granted, Here
<1>6. Built(s)'
  <2>0. specs' = specs /\ sids' = sids /\ task'[s] = "create"
    BY <1>1
  <2> SUFFICES ASSUME NEW k \in DOMAIN specs[s] PROVE BuiltAt(s, k)'
    BY <2>0 DEF Built
  <2> SUFFICES /\ pc'[s] = "link" /\ k < at'[s] => Linked(s, k)' /\ Granted(s, k)'
               /\ pc'[s] \in InAce /\ k < at'[s] => Linked(s, k)' /\ Granted(s, k)'
               /\ pc'[s] \in InAce /\ k = at'[s] =>
                     /\ Linked(s, k)'
                     /\ ace'[s] = "group" => <<s, sids[s]>> \in acl'[specs[s][k].source]
               /\ pc'[s] \in {"save", "save_write"} => Linked(s, k)' /\ Granted(s, k)'
    BY <2>0 DEF BuiltAt
  <2>1. k \in 1..Len(specs[s])
    BY <1>0, SpecsFacts
  <2>2. CASE pc'[s] = "read_dacl" /\ at'[s] = at[s] /\ ace[s] = "sid"
    BY <1>5, <2>2
  <2>3. CASE pc'[s] = "link" /\ at'[s] = at[s] + 1 /\ ace[s] = "group"
    <3>1. k < at'[s] => k < at[s] \/ k = at[s]
      BY <1>1, <2>1, <2>3
    <3> QED
      BY <1>5, <2>3, <3>1 DEF InAce
  <2>4. CASE pc'[s] = "save" /\ at[s] = Len(specs[s]) /\ ace[s] = "group"
    <3>1. k < at[s] \/ k = at[s]
      BY <1>1, <2>1, <2>4
    <3> QED
      BY <1>5, <2>4, <3>1 DEF InAce
  <2> QED
    BY <1>0, <2>2, <2>3, <2>4, AceMove
<1>7. Locals(s)' /\ MetaNames(s)' /\ Works(s)'
  <2>1. /\ pc'[s] \in {"read_dacl", "link", "save"}
        /\ pc'[s] = "link" => ace'[s] = "sid"
    BY <1>0, AceMove
  <2>2. MetaNames(s)'
    BY <1>0, <1>1 DEF Holds, MetaNames
  <2> QED
    BY <1>1, <2>1, <2>2 DEF Locals, Works, Idle
<1> QED
  BY <1>6, <1>7 DEF Holds

\* Destroy's write of the DACL, and its failure to.
LEMMA RevokeHolds ==
  ASSUME SerialInv, NEW s \in Sandbox, pc[s] \in InAce, task[s] = "destroy", NextAce(s),
         UNCHANGED <<link, intact, file, sids, status, task, specs, keep>>
  PROVE  Holds(s)'
<1>0. BaseInv /\ Holds(s)
  BY DEF SerialInv
<1>1. /\ pc'[s] \in {"read_dacl", "unlink", "rmtree"}
      /\ pc'[s] = "read_dacl" => ace'[s] = "group" /\ ~keep[s] /\ at'[s] = at[s]
      /\ pc'[s] = "unlink" => ace'[s] = "sid"
  BY <1>0, AceMove
<1>2. at'[s] = at[s] => (Shared(s)' <=> Shared(s))
  BY DEF Shared, Here, file
<1>3. keep[s] <=> Shared(s)
  BY <1>0 DEF Holds, Locals
<1>4. Locals(s)'
  BY <1>1, <1>2, <1>3 DEF Locals, InAce
<1>5. MetaNames(s)' /\ Built(s)' /\ Works(s)'
  BY <1>0, <1>1 DEF Holds, MetaNames, Built, BuiltAt, Works, InAce, Idle, file
<1> QED
  BY <1>4, <1>5 DEF Holds

\* The sandbox a step is taken for.
LEMMA OwnHolds ==
  ASSUME SerialInv, NEW s \in Sandbox, Act(s)
  PROVE  Holds(s)'
<1>0. /\ BaseInv /\ Holds(s)
      /\ task[s] \in {"create", "destroy"} /\ ace[s] \in {"sid", "group"}
      /\ s \in DOMAIN pc /\ s \in DOMAIN task /\ s \in DOMAIN sids /\ s \in DOMAIN keep
      /\ s \in DOMAIN meta /\ s \in DOMAIN status /\ s \in DOMAIN ace /\ s \in DOMAIN at
      /\ s \in DOMAIN dacl
  BY DEF SerialInv, BaseInv, TypeOK
<1>1. CASE BeginCreate(s)
  <2>0. PICK config \in Configs[s] :
            /\ specs' = [specs EXCEPT ![s] = config]
            /\ pc' = [pc EXCEPT ![s] = IF config = <<>> THEN "save" ELSE "link"]
    BY <1>1 DEF BeginCreate, Goto
  <2>1. /\ specs'[s] = config /\ pc'[s] = IF config = <<>> THEN "save" ELSE "link"
        /\ pc[s] = "idle" /\ at[s] = 1
        /\ status[s] \in {"absent", "create failed", "unrecorded"}
        /\ UNCHANGED <<status, at, ace, keep, dacl, meta, acl, link>>
    BY <1>0, <1>1, <2>0 DEF BeginCreate, MayBegin, BaseInv, TypeOK, Ranged, shared, file
  <2>2. Built(s)'
    <3>1. \A k \in DOMAIN config : k \in Nat /\ ~(k < 1) /\ config # <<>>
      BY ConfigFacts DEF Configured
    <3> QED
      BY <2>1, <3>1 DEF Built, BuiltAt, InAce
  <2> QED
    BY <1>0, <2>1, <2>2 DEF Holds, Locals, MetaNames, Works, InAce, Idle
<1>2. CASE BeginDestroy(s)
  BY <1>0, <1>2
     DEF BeginDestroy, MayBegin, Goto, shared, file, Holds, Locals, MetaNames, Built,
         BuiltAt, Works,
         InAce, Idle
<1>3. CASE CreateLink(s)
  <2>1. /\ pc'[s] = "read_dacl" /\ pc[s] = "link" /\ task[s] = "create" /\ ace[s] = "sid"
        /\ UNCHANGED <<sids, status, helper, meta, acl>>
        /\ link' = [link EXCEPT ![Place(s)] = Here(s)]
        /\ Here(s) \in Source
    BY <1>0, <1>3, SpecsFacts
       DEF CreateLink, Goto, BaseInv, Ranged, Tasks, Holds, Locals, Here, file
  <2>2. ASSUME NEW k \in DOMAIN specs[s]
        PROVE  /\ k < at[s] => Linked(s, k)' /\ Granted(s, k)'
               /\ k = at[s] => Linked(s, k)'
    <3>1. link'[<<s, specs[s][k].target>>] =
              IF k = at[s] THEN Here(s) ELSE link[<<s, specs[s][k].target>>]
      BY <1>0, <2>1, <2>2, LinkAt DEF BaseInv, Ranged
    <3>2. k < at[s] => Linked(s, k) /\ Granted(s, k) /\ k # at[s]
      <4>0. at[s] \in Nat
        BY <1>0 DEF BaseInv, TypeOK
      <4>1. k \in 1..Len(specs[s]) /\ Len(specs[s]) \in Nat
        BY <2>2, SpecsFacts
      <4>2. k < at[s] => k # at[s]
        BY <4>0, <4>1
      <4> QED
        BY <1>0, <2>1, <4>2 DEF Holds, Built, BuiltAt
    <3> QED
      BY <2>1, <3>1, <3>2 DEF Linked, Granted, Here, helper
  <2>3. Built(s)'
    BY <2>1, <2>2 DEF Built, BuiltAt, InAce, helper
  <2>4. Locals(s)' /\ MetaNames(s)' /\ Works(s)'
    BY <1>0, <2>1 DEF Holds, Locals, MetaNames, Works, InAce, Idle, helper
  <2> QED
    BY <2>3, <2>4 DEF Holds
<1>4. CASE SaveMeta(s)
  <2>1. task[s] = "create" /\ status[s] \in {"absent", "create failed", "unrecorded"}
    BY <1>0, <1>4 DEF SaveMeta, BaseInv, Tasks, Registered
  <2> QED
    BY <1>0, <1>4, <2>1
       DEF SaveMeta, Goto, helper, Holds, Locals, MetaNames, Built, BuiltAt, Works,
           InAce, Idle,
           Linked, Granted
<1>5. CASE WriteMeta(s)
  <2>1. /\ pc'[s] = "idle" /\ ace'[s] = "sid" /\ keep'[s] = FALSE
        /\ meta'[s] = sids[s] /\ UNCHANGED <<link, acl, sids, specs>>
    BY <1>0, <1>5 DEF WriteMeta, Finish, Goto
  <2>2. Usable(s)'
    BY <1>0, <1>5, <2>1 DEF WriteMeta, Holds, Built, BuiltAt, Usable, Linked, Granted
  <2> QED
    BY <2>1, <2>2 DEF Holds, Locals, MetaNames, Built, BuiltAt, Works, InAce, Idle
<1>6. CASE ReadDacl(s)
  <2>1. /\ pc'[s] = "write_dacl" /\ pc[s] = "read_dacl"
        /\ dacl'[s] = acl[Here(s)]
        /\ UNCHANGED <<shared, sids, status, task, specs, at, ace, keep>>
    BY <1>0, <1>6 DEF ReadDacl, Goto
  <2>2. (Shared(s)' <=> Shared(s)) /\ Here(s)' = Here(s)
    BY <2>1 DEF Shared, Here, shared, file
  <2> QED
    BY <1>0, <2>1, <2>2
       DEF Holds, Locals, MetaNames, Built, BuiltAt, Works, InAce, Idle, Linked,
           Granted, shared, file
<1>7. CASE WriteDacl(s)
  <2>1. CASE task[s] = "create"
    BY <1>7, <2>1, GrantHolds
  <2>2. CASE task[s] = "destroy"
    BY <1>7, <2>2, RevokeHolds DEF WriteDacl, InAce, file
  <2> QED
    BY <1>0, <2>1, <2>2
<1>8. CASE RevokeFails(s)
  BY <1>8, RevokeHolds DEF RevokeFails, InAce, shared, file
<1>9. CASE Load(s) \/ Unlink(s) \/ UnlinkFails(s) \/ Rmtree(s)
  <2>1. /\ pc[s] \in {"load", "unlink", "rmtree"}
        /\ pc'[s] \in {"rmtree", "unlink", "scan", "unlink_meta"}
        /\ pc'[s] \in {"unlink", "scan"} => pc[s] \in {"load", "unlink"}
        /\ task[s] = "destroy"
        /\ UNCHANGED <<meta, sids, status, helper>>
    BY <1>0, <1>9, LoadsSpecs
       DEF Load, Unlink, UnlinkFails, Rmtree, Goto, shared, file, helper, BaseInv, Tasks
  <2> QED
    BY <1>0, <2>1 DEF Holds, Locals, MetaNames, Built, BuiltAt, Works, InAce, Idle, helper
<1>10. CASE Scan(s)
  <2>1. /\ pc'[s] = "read_dacl" /\ task[s] = "destroy" /\ ace[s] = "sid"
        /\ keep'[s] <=> Shared(s)
        /\ UNCHANGED <<shared, sids, status, task, specs, at, ace>>
    BY <1>0, <1>10 DEF Scan, Goto, Shared, BaseInv, Tasks, Holds, Locals
  <2>2. Shared(s)' <=> Shared(s)
    BY <2>1 DEF Shared, Here, shared, file
  <2> QED
    BY <1>0, <2>1, <2>2
       DEF Holds, Locals, MetaNames, Built, BuiltAt, Works, InAce, Idle, shared, file
<1>11. CASE ScanFails(s) \/ CreateLinkFails(s) \/ GroupMissing(s) \/ GrantFails(s)
            \/ HelperLost(s)
  <2>1. pc[s] # "idle" /\ meta' = meta /\ Fail(s)
    BY <1>11
       DEF ScanFails, CreateLinkFails, GroupMissing, GrantFails, HelperLost, shared, file
  <2> QED
    BY <2>1, EndHolds
<1>12. CASE UnlinkMeta(s)
  <2>1. /\ pc'[s] = "idle" /\ ace'[s] = "sid" /\ keep'[s] = FALSE
        /\ status'[s] = "absent"
    BY <1>0, <1>12 DEF UnlinkMeta, Finish, Goto
  <2> QED
    BY <2>1 DEF Holds, Locals, MetaNames, Built, BuiltAt, Works, InAce, Idle
<1> QED
  BY <1>1, <1>2, <1>3, <1>4, <1>5, <1>6, <1>7, <1>8, <1>9, <1>10, <1>11, <1>12
     DEF Act, Succeeds, Step, Failure

\* Every step keeps the invariant.
LEMMA SerialInvNext ==
  ASSUME ~Overlap, SerialInv, [Next]_vars
  PROVE  SerialInv'
<1>1. CASE UNCHANGED vars
  <2>1. BaseInv'
    BY BaseInvNext DEF SerialInv
  <2>2. OneAtATime'
    BY <1>1 DEF SerialInv, OneAtATime, vars
  <2>3. ASSUME NEW s \in Sandbox PROVE Holds(s)'
    <3>1. Shared(s)' <=> Shared(s)
      BY <1>1 DEF Shared, Here, vars, shared, helper, file
    <3>2. Usable(s)' <=> Usable(s)
      BY <1>1 DEF Usable, vars, shared, helper
    <3>3. Holds(s)
      BY DEF SerialInv
    <3>4. Locals(s)'
      BY <1>1, <3>1, <3>3 DEF Holds, Locals, Here, vars, shared, helper, file
    <3> QED
      BY <1>1, <3>2, <3>3, <3>4
         DEF Holds, MetaNames, Built, BuiltAt, Works, Idle, Linked, Granted, vars,
             shared, helper, file
  <2> QED
    BY <2>1, <2>2, <2>3 DEF SerialInv
<1>2. CASE Next
  <2>1. PICK s \in Sandbox : Act(s)
    BY <1>2 DEF Next, Act, Succeeds
  <2>2. BaseInv'
    BY BaseInvNext DEF SerialInv
  <2>3. OneAtATime' /\ \A t \in Sandbox \ {s} : pc[t] = "idle"
    BY <2>1, StillOne DEF SerialInv
  <2>4. ASSUME NEW t \in Sandbox PROVE Holds(t)'
    <3>1. CASE t = s
      BY <2>1, <3>1, OwnHolds
    <3>2. CASE t # s
      BY <2>1, <2>3, <3>2, OthersHold
    <3> QED
      BY <3>1, <3>2
  <2> QED
    BY <2>2, <2>3, <2>4 DEF SerialInv
<1> QED
  BY <1>1, <1>2

\* The invariant holds throughout, failed calls and lost helpers included.
LEMMA SerialInvariance == ASSUME ~Overlap PROVE Spec => []SerialInv
<1>1. SerialInv /\ [Next]_vars => SerialInv'
  BY SerialInvNext
<1> QED
  BY <1>1, InitSerialInv, PTL DEF Spec

(***************************************************************************)
(* A sandbox whose create returned can use every one of its mounts until   *)
(* its own destroy, whatever is created, destroyed, fails or is killed for *)
(* the sandboxes that share its sources: destroy asks the other metadata   *)
(* files before it takes the group's ACE (mounts.py:132, 169-177).         *)
(***************************************************************************)
THEOREM MountedAlwaysWorks == ASSUME ~Overlap PROVE Spec => []MountedWorks
<1>1. SerialInv => MountedWorks
  BY DEF SerialInv, Holds, Works, MountedWorks
<1> QED
  BY <1>1, SerialInvariance, PTL

-----------------------------------------------------------------------------
(***************************************************************************)
(* Without failed calls a destroy leaves nothing behind.  The invariant    *)
(* says which mounts a sandbox still answers for: all of them while it is  *)
(* created or mounted, those the loop has not passed while it is           *)
(* destroyed.  An ACE is on a source only for a sandbox that answers for   *)
(* it, the group's as much as the sandbox's own, or on one that a create   *)
(* was laid over.                                                          *)
(***************************************************************************)
InLoop == {"unlink", "scan"} \cup InAce

Ahead(s, f) ==
    \/ pc[s] = "idle" /\ status[s] \in {"mounted", "unrecorded"} /\ f \in Sources(specs[s])
    \/ pc[s] # "idle" /\ (task[s] = "create" \/ pc[s] = "load") /\ f \in Sources(specs[s])
    \/ pc[s] \in InLoop /\ task[s] = "destroy"
            /\ \E k \in DOMAIN specs[s] : k >= at[s] /\ f = specs[s][k].source

\* No request has ended halfway.
Whole(s) ==
    /\ status[s] \in {"absent", "mounted", "unrecorded"}
    /\ torn[s] => pc[s] = "save_write"
    /\ meta[s] # 0 => status[s] # "absent"

\* Where an ACE names a SID of the sandbox.
OwnSids(s) == \A f \in Source, n \in 1..MaxSids : <<s, n>> \in acl[f] =>
    \/ f \in Buried(s)
    \/ /\ n = sids[s]
       /\ Ahead(s, f)
       /\ pc[s] \in InAce /\ task[s] = "destroy" /\ ace[s] = "group" => f # Here(s)

Clean(s) == Whole(s) /\ OwnSids(s)

GroupHas == \A f \in Source : Group \in acl[f] =>
    \E s \in Sandbox : Ahead(s, f) \/ f \in Buried(s)

CleanInv ==
    /\ SafeInv
    /\ SerialInv
    /\ faults = 0 => GroupHas /\ \A s \in Sandbox : Clean(s)

\* The invariant holds at first: there are no links, no ACEs and no metadata.
LEMMA InitCleanInv == ASSUME Init PROVE CleanInv
<1>1. SafeInv /\ SerialInv
  BY InitSafeInv, InitSerialInv
<1>3. \A f \in Source : acl[f] = {}
  BY DEF Init
<1>4. GroupHas /\ \A s \in Sandbox : OwnSids(s)
  BY <1>3 DEF GroupHas, OwnSids
<1>5. \A s \in Sandbox : Whole(s)
  BY DEF Init, Whole
<1> QED
  BY <1>1, <1>4, <1>5 DEF CleanInv, Clean

\* Whose a SID is.
LEMMA SidsDiffer ==
  ASSUME NEW s \in Sandbox, NEW n \in 1..MaxSids
  PROVE  <<s, n>> \in Sids /\ <<s, n>> # Group
  BY GroupIsNoSid DEF Sids

\* A create laid over mounts that have no record: they are the buried ones.
LEMMA CreateBuries ==
  ASSUME BaseInv, NEW s \in Sandbox, BeginCreate(s), NEW f \in Source, Ahead(s, f)
  PROVE  f \in Buried(s)'
<1>1. status[s] = "unrecorded" /\ f \in Sources(specs[s])
  BY DEF BeginCreate, MayBegin, Ahead, InLoop, InAce
<1>2. overlaid'[s] = overlaid[s] \cup Elements(specs[s])
  BY <1>1 DEF BeginCreate, BaseInv, TypeOK
<1>3. PICK k \in DOMAIN specs[s] : f = specs[s][k].source
  BY <1>1 DEF Sources
<1>4. specs[s][k] \in Elements(specs[s])
  BY <1>3 DEF Elements
<1>5. specs[s][k] \in overlaid'[s]
  BY <1>2, <1>4
<1> QED
  BY <1>3, <1>5 DEF Buried

\* A sandbox answers for a mount until its destroy has taken back both ACEs, or
\* has to leave the group's to another sandbox.
LEMMA AheadStep ==
  ASSUME SerialInv, NEW s \in Sandbox, Succeeds(s), Whole(s), NEW f \in Source,
         ~ScanFails(s), Ahead(s, f)
  PROVE  \/ Ahead(s, f)' \/ f \in Buried(s)'
         \/ /\ WriteDacl(s) /\ task[s] = "destroy" /\ f = Here(s)
            /\ ace[s] = "group" \/ keep[s]
<1>0. /\ BaseInv /\ Holds(s)
      /\ task[s] \in {"create", "destroy"} /\ ace[s] \in {"sid", "group"}
      /\ s \in DOMAIN pc /\ s \in DOMAIN task /\ s \in DOMAIN status /\ s \in DOMAIN at
      /\ at[s] \in Nat
  BY DEF SerialInv, BaseInv, TypeOK
<1> USE DEF Ahead
<1>1. CASE BeginCreate(s)
  BY <1>0, <1>1, CreateBuries
<1>2. CASE BeginDestroy(s)
  <2>1. status[s] = "mounted" /\ pc[s] = "idle" /\ f \in Sources(specs[s])
    BY <1>0, <1>2 DEF BeginDestroy, MayBegin, Whole, InLoop, InAce
  <2>2. pc'[s] = "load" /\ specs' = specs
    BY <1>0, <1>2 DEF BeginDestroy, Goto
  <2> QED
    BY <2>1, <2>2
<1>3. CASE CreateLink(s) \/ SaveMeta(s) \/ ReadDacl(s)
  BY <1>0, <1>3 DEF CreateLink, SaveMeta, ReadDacl, Goto, helper, BaseInv, Tasks,
                    InLoop, InAce
<1>4. CASE WriteMeta(s)
  <2>1. f \in Sources(specs[s])
    BY <1>0, <1>4 DEF WriteMeta, BaseInv, Tasks, InLoop, InAce
  <2>2. pc'[s] = "idle" /\ status'[s] \in {"mounted", "unrecorded"} /\ specs' = specs
    BY <1>0, <1>4 DEF WriteMeta, Finish, Goto
  <2> QED
    BY <2>1, <2>2
<1>5. CASE WriteDacl(s)
  <2>1. /\ pc[s] = "write_dacl" /\ NextAce(s) /\ UNCHANGED <<status, task, specs>>
        /\ pc[s] \in InAce
    BY <1>5 DEF WriteDacl, InAce
  <2>2. CASE task[s] = "create"
    <3>1. pc'[s] \in {"read_dacl", "link", "save"} /\ f \in Sources(specs[s])
      BY <1>0, <2>1, <2>2, AceMove
    <3> QED
      BY <2>1, <2>2, <3>1
  <2>3. CASE task[s] = "destroy"
    <3>1. PICK k \in DOMAIN specs[s] : k >= at[s] /\ f = specs[s][k].source
      BY <2>1, <2>3
    <3>2. k \in 1..Len(specs[s]) /\ Len(specs[s]) \in Nat
      BY <1>0, <3>1, SpecsFacts
    <3>3. CASE pc'[s] = "read_dacl" /\ at'[s] = at[s]
      BY <2>1, <2>3, <3>1, <3>3 DEF InLoop, InAce
    <3>4. CASE k = at[s] /\ (ace[s] = "group" \/ keep[s])
      BY <1>5, <2>3, <3>1, <3>4 DEF Here
    <3>5. CASE k # at[s] /\ at[s] < Len(specs[s]) /\ at'[s] = at[s] + 1
               /\ pc'[s] = "unlink"
      <4>1. k >= at'[s]
        BY <1>0, <3>1, <3>2, <3>5
      <4> QED
        BY <2>1, <2>3, <3>1, <3>5, <4>1 DEF InLoop
    <3>6. k # at[s] => at[s] # Len(specs[s])
      BY <1>0, <3>1, <3>2
    <3> QED
      BY <1>0, <2>1, <2>3, <3>3, <3>4, <3>5, <3>6, AceMove
  <2> QED
    BY <1>0, <2>2, <2>3
<1>6. CASE Load(s)
  <2>1. at[s] = 1 /\ task[s] = "destroy" /\ pc[s] = "load"
    BY <1>0, <1>6 DEF Load, BaseInv, Ranged, Tasks
  <2>2. f \in Sources(specs[s])
    BY <2>1 DEF InLoop, InAce
  <2>3. PICK k \in DOMAIN specs[s] : f = specs[s][k].source
    BY <2>2 DEF Sources
  <2>4. k \in 1..Len(specs[s]) /\ Len(specs[s]) \in Nat /\ specs[s] # <<>>
    <3>1. specs[s] # <<>>
      BY <2>3
    <3> QED
      BY <1>0, <2>3, <3>1, SpecsFacts
  <2>5. pc'[s] = "unlink" /\ at'[s] = 1 /\ task'[s] = "destroy" /\ specs' = specs
    BY <1>0, <1>6, <2>1, <2>4, LoadsSpecs DEF Load
  <2>6. k >= at'[s]
    BY <2>4, <2>5
  <2> QED
    BY <2>3, <2>5, <2>6 DEF InLoop
<1>7. CASE Unlink(s) \/ Scan(s)
  <2>1. /\ pc[s] \in {"unlink", "scan"} /\ pc'[s] \in InLoop /\ task[s] = "destroy"
        /\ UNCHANGED <<task, at, specs>>
    BY <1>0, <1>7 DEF Unlink, Scan, Goto, helper, BaseInv, Tasks, InLoop, InAce
  <2> QED
    BY <2>1 DEF InLoop
<1>8. CASE Rmtree(s) \/ UnlinkMeta(s)
  <2>1. pc[s] \in {"rmtree", "unlink_meta"} /\ task[s] = "destroy"
    BY <1>0, <1>8 DEF Rmtree, UnlinkMeta, BaseInv, Tasks
  <2> QED
    BY <2>1 DEF InLoop, InAce
<1> QED
  BY <1>1, <1>2, <1>3, <1>4, <1>5, <1>6, <1>7, <1>8 DEF Succeeds, Step

\* Another helper finds every file it reads whole.
LEMMA NoTornFile ==
  ASSUME NEW s \in Sandbox, Succeeds(s),
         \A t \in Sandbox : Whole(t),
         \A t \in Sandbox \ {s} : pc[t] = "idle"
  PROVE  ~ScanFails(s)
  BY DEF Whole, ScanFails

\* A mount the sandbox's own step adds or leaves an ACE on.
LEMMA OwnAces ==
  ASSUME SerialInv, NEW s \in Sandbox, Succeeds(s), Clean(s), ~ScanFails(s)
  PROVE  OwnSids(s)'
<1>0. /\ BaseInv /\ Holds(s) /\ Locals(s) /\ Act(s)
      /\ task[s] \in {"create", "destroy"} /\ ace[s] \in {"sid", "group"}
      /\ DOMAIN acl = Source /\ at[s] \in Nat
  BY DEF SerialInv, Holds, BaseInv, TypeOK, Act, Succeeds
<1> SUFFICES ASSUME NEW f \in Source, NEW n \in 1..MaxSids, <<s, n>> \in acl'[f]
             PROVE  \/ f \in Buried(s)'
                    \/ /\ n = sids'[s]
                       /\ Ahead(s, f)'
                       /\ pc'[s] \in InAce /\ task'[s] = "destroy" /\ ace'[s] = "group" =>
                               f # Here(s)'
  BY DEF OwnSids
<1>b. Buried(s) \subseteq Buried(s)'
  BY <1>0, BuriedStays
<1> SUFFICES ASSUME f \notin Buried(s)'
             PROVE  /\ n = sids'[s]
                    /\ Ahead(s, f)'
                    /\ pc'[s] \in InAce /\ task'[s] = "destroy" /\ ace'[s] = "group" =>
                            f # Here(s)'
  OBVIOUS
<1>c. <<s, n>> \in acl[f] =>
        /\ n = sids[s]
        /\ Ahead(s, f)
        /\ pc[s] \in InAce /\ task[s] = "destroy" /\ ace[s] = "group" => f # Here(s)
  BY <1>b DEF Clean, OwnSids
<1>1. CASE WriteDacl(s)
  <2>0. /\ pc[s] = "write_dacl" /\ NextAce(s) /\ UNCHANGED <<status, task, sids, specs>>
        /\ pc[s] \in InAce /\ Here(s) \in Source /\ Here(s) \in Sources(specs[s])
        /\ Here(s)' = specs[s][at'[s]].source
    BY <1>0, <1>1, SpecsFacts DEF WriteDacl, InAce, BaseInv, Ranged, Here, Sources
  <2>1. CASE task[s] = "create"
    <3>1. acl' = [acl EXCEPT ![Here(s)] = acl[Here(s)] \cup {Trustee(s)}]
      BY <1>0, <1>1, <2>1 DEF WriteDacl, Locals
    <3>2. <<s, n>> \in acl[f] \/ (f = Here(s) /\ <<s, n>> = Trustee(s))
      BY <1>0, <2>0, <3>1
    <3>3. n = sids[s] /\ f \in Sources(specs[s])
      <4>1. CASE <<s, n>> \in acl[f]
        BY <1>c, <2>0, <2>1, <4>1 DEF Ahead, InAce
      <4>2. CASE f = Here(s) /\ <<s, n>> = Trustee(s)
        <5>1. <<s, n>> = <<s, sids[s]>>
          BY <2>1, <4>2, SidsDiffer DEF Trustee, Sid
        <5> QED
          BY <2>0, <4>2, <5>1
      <4> QED
        BY <3>2, <4>1, <4>2
    <3>4. pc'[s] \in {"read_dacl", "link", "save"}
      BY <1>0, <2>0, <2>1, AceMove
    <3> QED
      BY <2>0, <2>1, <3>3, <3>4 DEF Ahead
  <2>2. CASE task[s] = "destroy"
    <3>1. acl' = [acl EXCEPT ![Here(s)] = acl[Here(s)] \ {Trustee(s)}]
      BY <1>0, <1>1, <2>2 DEF WriteDacl, Locals
    <3>2. <<s, n>> \in acl[f] /\ (f = Here(s) => <<s, n>> # Trustee(s))
      BY <1>0, <2>0, <3>1
    <3>3. n = sids[s] /\ Ahead(s, f) /\ (ace[s] = "group" => f # Here(s))
      BY <1>c, <2>0, <2>2, <3>2
    <3>4. meta[s] = sids[s]
      <4>1. status[s] \in {"mounted", "destroy failed"}
        BY <1>0, <2>0, <2>2 DEF BaseInv, Registered
      <4> QED
        BY <1>0, <4>1 DEF Holds, MetaNames
    <3>5. f # Here(s)
      BY <1>0, <2>2, <3>2, <3>3, <3>4 DEF Trustee, Sid
    <3>6. Ahead(s, f)'
      BY <1>0, <3>3, <3>5, AheadStep DEF Clean
    <3>7. pc'[s] \in InAce => at'[s] = at[s]
      BY <1>0, <2>0, <2>2, AceMove DEF InAce
    <3> QED
      BY <2>0, <3>3, <3>5, <3>6, <3>7 DEF Here
  <2> QED
    BY <1>0, <2>1, <2>2
<1>2. CASE ~WriteDacl(s)
  <2>1. acl' = acl
    BY <1>0, <1>2, AclStep
  <2>2. n = sids[s] /\ Ahead(s, f)
    BY <1>c, <2>1
  <2>3. Ahead(s, f)'
    BY <1>0, <1>2, <2>2, AheadStep DEF Clean
  <2>4. sids'[s] = sids[s]
    <3>1. ~BeginCreate(s)
      BY <1>0, <2>2, CreateBuries
    <3>2. sids' = sids
      BY <1>2, <3>1
         DEF Succeeds, Step, BeginDestroy, CreateLink, SaveMeta, WriteMeta, ReadDacl,
             Load, Unlink, Scan, ScanFails, Rmtree, UnlinkMeta, Fail, Finish
    <3> QED
      BY <3>2
  <2>5. pc'[s] \in InAce /\ task'[s] = "destroy" /\ ace'[s] = "group" => f # Here(s)'
    <3>1. CASE ReadDacl(s)
      <4>1. /\ pc[s] \in InAce /\ UNCHANGED <<task, ace, at, specs>>
        BY <3>1 DEF ReadDacl, InAce
      <4> QED
        BY <1>c, <2>1, <4>1 DEF Here
    <3>2. CASE Scan(s)
      BY <1>0, <3>2 DEF Scan, Locals
    <3>3. CASE CreateLink(s)
      BY <1>0, <3>3 DEF CreateLink, helper, BaseInv, Tasks
    <3>4. CASE ~(ReadDacl(s) \/ Scan(s) \/ CreateLink(s))
      <4>1. pc'[s] \notin InAce
        BY <1>0, <1>2, <3>4
           DEF Succeeds, Step, BeginCreate, BeginDestroy, SaveMeta, WriteMeta, Load,
               Unlink, Rmtree, UnlinkMeta, Finish, Goto, BaseInv, TypeOK, InAce
      <4> QED
        BY <4>1
    <3> QED
      BY <3>1, <3>2, <3>3, <3>4
  <2> QED
    BY <2>2, <2>3, <2>4, <2>5
<1> QED
  BY <1>1, <1>2

\* No request of the sandbox ends halfway.
LEMMA OwnWhole ==
  ASSUME SerialInv, NEW s \in Sandbox, Succeeds(s), Whole(s), ~ScanFails(s)
  PROVE  Whole(s)'
<1>0. /\ BaseInv
      /\ s \in DOMAIN pc /\ s \in DOMAIN torn /\ s \in DOMAIN status /\ s \in DOMAIN meta
  BY DEF SerialInv, BaseInv, TypeOK
<1>1. CASE BeginCreate(s) \/ BeginDestroy(s)
  BY <1>0, <1>1 DEF BeginCreate, BeginDestroy, MayBegin, shared, file, Whole
<1>2. CASE CreateLink(s) \/ ReadDacl(s) \/ Load(s) \/ Unlink(s) \/ Scan(s) \/ Rmtree(s)
  BY <1>0, <1>2
     DEF CreateLink, ReadDacl, Load, Unlink, Scan, Rmtree, shared, file, Whole
<1>3. CASE SaveMeta(s)
  BY <1>0, <1>3 DEF SaveMeta, Goto, Whole
<1>4. CASE WriteMeta(s)
  BY <1>0, <1>4 DEF WriteMeta, Finish, Whole
<1>5. CASE WriteDacl(s)
  BY <1>0, <1>5 DEF WriteDacl, file, Whole
<1>6. CASE UnlinkMeta(s)
  BY <1>0, <1>6 DEF UnlinkMeta, Finish, Whole
<1> QED
  BY <1>1, <1>2, <1>3, <1>4, <1>5, <1>6 DEF Succeeds, Step

\* What another sandbox answers for, and what is left of it.
LEMMA OthersClean ==
  ASSUME SerialInv, NEW s \in Sandbox, NEW t \in Sandbox, s # t, Succeeds(s),
         Clean(t), pc[t] = "idle"
  PROVE  /\ Clean(t)' /\ Buried(t)' = Buried(t)
         /\ \A f \in Source : Ahead(t, f)' <=> Ahead(t, f)
<1>0. BaseInv /\ Locals(s) /\ Act(s)
  BY DEF SerialInv, Holds, Act, Succeeds
<1>1. /\ pc'[t] = pc[t] /\ task'[t] = task[t] /\ at'[t] = at[t] /\ ace'[t] = ace[t]
      /\ status'[t] = status[t] /\ sids'[t] = sids[t] /\ meta'[t] = meta[t]
      /\ torn'[t] = torn[t] /\ specs'[t] = specs[t] /\ overlaid'[t] = overlaid[t]
  BY <1>0, OthersKept
<1>2. \A f \in Source : Ahead(t, f)' <=> Ahead(t, f)
  BY <1>1 DEF Ahead, Sources, InLoop, InAce
<1>3. Whole(t)' /\ Buried(t)' = Buried(t)
  BY <1>1 DEF Clean, Whole, Buried
<1>4. ASSUME NEW f \in Source, NEW n \in 1..MaxSids, <<t, n>> \in acl'[f]
      PROVE  <<t, n>> \in acl[f]
  <2>1. CASE acl' = acl
    BY <1>4, <2>1
  <2>2. CASE acl' # acl
    <3>1. /\ pc[s] = "write_dacl"
          /\ acl' = [acl EXCEPT ![Here(s)] =
                  IF task[s] = "create" THEN acl[Here(s)] \cup {Trustee(s)}
                                        ELSE acl[Here(s)] \ {Trustee(s)}]
      BY <1>0, <2>2, AclStep
    <3>2. <<t, n>> # Trustee(s)
      BY SidsDiffer DEF Trustee, Sid
    <3>3. Here(s) \in Source /\ DOMAIN acl = Source
      BY <1>0, <3>1, SpecsFacts DEF Here, BaseInv, TypeOK, Ranged
    <3> QED
      BY <1>4, <3>1, <3>2, <3>3
  <2> QED
    BY <2>1, <2>2
<1>5. OwnSids(t)'
  BY <1>1, <1>2, <1>3, <1>4 DEF Clean, OwnSids, Here, InAce
<1> QED
  BY <1>2, <1>3, <1>5 DEF Clean

\* The group's ACE: create adds it where it mounts, and destroy leaves it only
\* to a sandbox that mounts the source too.
LEMMA GroupStep ==
  ASSUME SerialInv, NEW s \in Sandbox, Succeeds(s), ~ScanFails(s), GroupHas,
         \A t \in Sandbox : Clean(t),
         \A t \in Sandbox \ {s} : pc[t] = "idle"
  PROVE  GroupHas'
<1>0. /\ BaseInv /\ Locals(s) /\ Act(s) /\ Whole(s)
      /\ task[s] \in {"create", "destroy"} /\ ace[s] \in {"sid", "group"}
      /\ DOMAIN acl = Source
  BY DEF SerialInv, Holds, BaseInv, TypeOK, Act, Succeeds, Clean
<1> SUFFICES ASSUME NEW f \in Source, Group \in acl'[f]
             PROVE  \E t \in Sandbox : Ahead(t, f)' \/ f \in Buried(t)'
  BY DEF GroupHas
<1>1. CASE Group \in acl[f]
  <2>1. PICK t \in Sandbox : Ahead(t, f) \/ f \in Buried(t)
    BY <1>1 DEF GroupHas
  <2>b. CASE f \in Buried(t)
    BY <1>0, <2>b, BuriedStays
  <2>2. CASE t # s /\ Ahead(t, f)
    BY <2>2, OthersClean
  <2>3. CASE t = s /\ Ahead(s, f) /\ ~(Ahead(s, f)' \/ f \in Buried(s)')
    <3>1. /\ WriteDacl(s) /\ task[s] = "destroy" /\ f = Here(s)
          /\ ace[s] = "group" \/ keep[s]
      BY <1>0, <2>3, AheadStep
    <3>2. ace[s] # "group"
      <4>1. ASSUME ace[s] = "group" PROVE FALSE
        <5>1. acl' = [acl EXCEPT ![f] = acl[f] \ {Group}]
          BY <1>0, <3>1, <4>1 DEF WriteDacl, Locals, Trustee
        <5> QED
          BY <1>0, <5>1
      <4> QED
        BY <4>1
    <3>3. Shared(s)
      BY <1>0, <3>1, <3>2 DEF Locals, WriteDacl, InAce
    <3>4. PICK u \in Sandbox \ {s} : f \in Sources(listed[u])
      BY <3>1, <3>3 DEF Shared
    <3>5. Ahead(u, f)
      <4>1. listed[u] # <<>>
        BY <3>4 DEF Sources
      <4>2. meta[u] # 0
        BY <1>0, <4>1 DEF BaseInv, Registered
      <4>3. status[u] \in {"mounted", "unrecorded"} /\ pc[u] = "idle"
        BY <3>4, <4>2 DEF Clean, Whole
      <4>4. listed[u] = specs[u]
        BY <1>0, <4>3 DEF BaseInv, Registered
      <4> QED
        BY <3>4, <4>3, <4>4 DEF Ahead
    <3> QED
      BY <3>4, <3>5, OthersClean
  <2> QED
    BY <2>1, <2>b, <2>2, <2>3
<1>2. CASE Group \notin acl[f]
  <2>1. acl' # acl
    BY <1>2
  <2>2. /\ WriteDacl(s) /\ pc[s] = "write_dacl"
        /\ acl' = [acl EXCEPT ![Here(s)] =
                IF task[s] = "create" THEN acl[Here(s)] \cup {Trustee(s)}
                                      ELSE acl[Here(s)] \ {Trustee(s)}]
    BY <1>0, <2>1, AclStep
  <2>3. task[s] = "create" /\ f = Here(s)
    BY <1>0, <1>2, <2>2
  <2>4. f \in Sources(specs[s])
    BY <1>0, <2>2, <2>3 DEF Here, Sources, BaseInv, Ranged
  <2>5. pc'[s] \in {"read_dacl", "link", "save"} /\ task' = task /\ specs' = specs
    <3>1. NextAce(s) /\ pc[s] \in InAce
      BY <2>2 DEF WriteDacl, InAce
    <3> QED
      BY <1>0, <2>2, <2>3, <3>1, AceMove DEF WriteDacl
  <2> QED
    BY <2>3, <2>4, <2>5 DEF Ahead
<1> QED
  BY <1>1, <1>2

\* Every step keeps the invariant: one after which no call has failed is no
\* failure, and none had failed before it.
LEMMA CleanInvNext ==
  ASSUME ~Overlap, CleanInv, [Next]_vars
  PROVE  CleanInv'
<1>0. SafeInv /\ SerialInv /\ SafeInv' /\ SerialInv'
  BY SafeInvNext, SerialInvNext DEF CleanInv
<1>1. CASE UNCHANGED vars
  <2>1. \A s \in Sandbox, f \in Source : Ahead(s, f)' <=> Ahead(s, f)
    BY <1>1 DEF Ahead, vars, helper
  <2>2. faults' = faults /\ acl' = acl /\ \A s \in Sandbox : Buried(s)' = Buried(s)
    BY <1>1 DEF vars, shared, Buried
  <2>3. GroupHas' <=> GroupHas
    BY <2>1, <2>2 DEF GroupHas
  <2>4. ASSUME NEW s \in Sandbox, Clean(s) PROVE Clean(s)'
    <3>1. Whole(s)'
      BY <1>1, <2>4 DEF Clean, Whole, vars, shared, file
    <3>2. OwnSids(s)'
      BY <1>1, <2>1, <2>2, <2>4 DEF Clean, OwnSids, Here, vars, helper
    <3> QED
      BY <3>1, <3>2 DEF Clean
  <2> QED
    BY <1>0, <2>2, <2>3, <2>4 DEF CleanInv
<1>2. CASE Next /\ faults' # 0
  BY <1>0, <1>2 DEF CleanInv
<1>3. CASE Next /\ faults' = 0
  <2>1. BaseInv
    BY <1>0 DEF SerialInv
  <2>2. PICK s \in Sandbox : Succeeds(s)
    BY <1>3, <2>1, NoFailure
  <2>3. faults = 0
    BY <1>3, <2>1, NoFailure
  <2>4. GroupHas /\ \A t \in Sandbox : Clean(t)
    BY <2>3 DEF CleanInv
  <2>5. \A t \in Sandbox \ {s} : pc[t] = "idle"
    BY <1>0, <2>2, StillOne DEF SerialInv, Act
  <2>6. ~ScanFails(s)
    BY <2>2, <2>4, <2>5, NoTornFile DEF Clean
  <2>7. GroupHas'
    BY <1>0, <2>2, <2>4, <2>5, <2>6, GroupStep
  <2>8. ASSUME NEW t \in Sandbox PROVE Clean(t)'
    <3>1. CASE t = s
      BY <1>0, <2>2, <2>3, <2>4, <2>6, <3>1, OwnAces, OwnWhole DEF Clean
    <3>2. CASE t # s
      BY <1>0, <2>2, <2>4, <2>5, <3>2, OthersClean
    <3> QED
      BY <3>1, <3>2
  <2> QED
    BY <1>0, <2>7, <2>8 DEF CleanInv
<1> QED
  BY <1>1, <1>2, <1>3

\* The invariant holds throughout.
LEMMA CleanInvariance == ASSUME ~Overlap PROVE Spec => []CleanInv
<1>1. Init => CleanInv
  BY InitCleanInv
<1>2. CleanInv /\ [Next]_vars => CleanInv'
  BY CleanInvNext
<1> QED
  BY <1>1, <1>2, PTL DEF Spec

(***************************************************************************)
(* As long as no call fails, what a destroyed sandbox leaves linked or     *)
(* granted is what an unrecorded create of it had made and a later one was *)
(* laid over: destroy takes back every link of the last create and the SID *)
(* that create was given, although it learns both from the metadata file   *)
(* alone (mounts.py:117-137).                                              *)
(***************************************************************************)
THEOREM DestroyIsComplete == ASSUME ~Overlap PROVE Spec => []DestroyedClean
<1>1. CleanInv => DestroyedClean
  <2> SUFFICES ASSUME CleanInv, faults = 0, NEW s \in Sandbox, Idle(s),
                      status[s] = "absent"
               PROVE  /\ \A f \in Source \ Buried(s) :
                             acl[f] \cap ({s} \X (1..MaxSids)) = {}
                      /\ \A t \in Target : LET f == link[<<s, t>>] IN
                             f = NoSource \/ [target |-> t, source |-> f] \in overlaid[s]
    BY DEF DestroyedClean
  <2>1. Clean(s) /\ \A f \in Source : ~Ahead(s, f)
    BY DEF CleanInv, Idle, Ahead, InLoop, InAce
  <2>2. \A f \in Source \ Buried(s), n \in 1..MaxSids : <<s, n>> \notin acl[f]
    BY <2>1 DEF Clean, OwnSids
  <2>3. \A t \in Target : Forgotten(s, t)
    BY DEF CleanInv, SafeInv, Traced, Accounted, Cleared, Idle
  <2> QED
    BY <2>2, <2>3 DEF Forgotten
<1> QED
  BY <1>1, CleanInvariance, PTL

(***************************************************************************)
(* As long as no call fails, the group sbx-users has access only to what   *)
(* some sandbox mounts, or an unrecorded create of it had mounted:         *)
(* whichever of the sandboxes that share a source is destroyed last takes  *)
(* the group's ACE with it (mounts.py:132).                                *)
(***************************************************************************)
THEOREM GroupAccessEnds == ASSUME ~Overlap PROVE Spec => []GroupOnlyWhereMounted
<1>1. CleanInv => GroupOnlyWhereMounted
  <2> SUFFICES ASSUME CleanInv, faults = 0, \A s \in Sandbox : Idle(s),
                      NEW f \in Source, Group \in acl[f]
               PROVE  \E s \in Sandbox :
                          \/ status[s] # "absent" /\ f \in Sources(specs[s])
                          \/ f \in Buried(s)
    BY DEF GroupOnlyWhereMounted
  <2>1. PICK s \in Sandbox : Ahead(s, f) \/ f \in Buried(s)
    BY DEF CleanInv, GroupHas
  <2>2. CASE Ahead(s, f)
    <3>1. status[s] # "absent" /\ f \in Sources(specs[s])
      BY <2>2 DEF Ahead, Idle, InLoop, InAce
    <3> QED
      BY <3>1
  <2>3. CASE f \in Buried(s)
    BY <2>3
  <2> QED
    BY <2>1, <2>2, <2>3
<1> QED
  BY <1>1, CleanInvariance, PTL
=============================================================================
