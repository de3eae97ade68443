------------------------------- MODULE Mounts -------------------------------
(***************************************************************************)
(* The mounts of sandboxes (sbx/mounts.py): bind links from a place in     *)
(* sbx-user's home to a host folder, the ACEs on that folder, and one      *)
(* metadata file per sandbox.  mounts.create and mounts.destroy run in     *)
(* elevated helper processes (run_elevated), one for each request, which   *)
(* share all of this and no lock.  A place is a sandbox's target folder;   *)
(* load_config refuses two mounts with one target.  The config is read at  *)
(* every create, so its mounts may have been edited since an earlier one.  *)
(*                                                                         *)
(* A DACL is changed by reading it, computing and writing it back          *)
(* (winapi.grant_sid_access, remove_sid_access), so each change is two     *)
(* steps; writing it also visits every file below the folder.              *)
(***************************************************************************)
EXTENDS Naturals, Sequences, FiniteSets

CONSTANTS Sandbox,    \* sandbox names
          Source,     \* host folders
          Target,     \* the folders in a sandbox's home they are mounted on
          Configs,    \* what each sandbox's config file may list, in order
          Group,      \* the SID of the group sbx-users
          NoSource,   \* where a place without a bind link leads
          Overlap,    \* whether requests for different sandboxes may overlap
          MaxFaults,  \* how many calls may fail, or helpers be lost
          MaxSids     \* how many synthetic SIDs a sandbox may get in turn

Mount == [target : Target, source : Source]

ASSUME ConfigsAreMounts == Configs \in [Sandbox -> SUBSET Seq(Mount)]
ASSUME TargetsDiffer ==
    \A s \in Sandbox : \A config \in Configs[s] : \A j, k \in DOMAIN config :
        config[j].target = config[k].target => j = k
ASSUME NoSourceIsNoSource == NoSource \notin Source
ASSUME MountBounds == Overlap \in BOOLEAN /\ MaxFaults \in Nat /\ MaxSids \in Nat

(***************************************************************************)
(* A sandbox gets a fresh synthetic SID at every create (engine.py:81):    *)
(* <<s, n>> is the n-th of sandbox s.                                      *)
(***************************************************************************)
Sids == Sandbox \X (1..MaxSids)

ASSUME GroupIsNoSid == Group \notin Sids

Places == Sandbox \X Target
Sources(mounts) == {mounts[k].source : k \in DOMAIN mounts}
Elements(mounts) == {mounts[k] : k \in DOMAIN mounts}

VARIABLES
    link,    \* where each place leads
    acl,     \* the trustees with full access to each source
    intact,  \* whether the user's files in each source are still there
    meta,    \* which SID each sandbox's metadata file names, 0 without a file
    listed,  \* ... and the mounts it lists
    torn,    \* whether that file is created but not yet written
    specs,   \* the mounts of each sandbox's last request
    overlaid,\* history: mounts that a create was laid over, see BeginCreate
    sids,    \* how many SIDs the sandbox has had
    status,  \* what the engine last learned of the sandbox's mounts
    pc,      \* where the helper working for each sandbox stands
    task,    \* which request it serves
    at,      \* the index of the mount it works on
    ace,     \* which of the two ACEs of that mount
    keep,    \* destroy: another sandbox still mounts the source
    dacl,    \* the DACL it has read
    faults   \* failed calls and lost helpers so far

file == <<meta, listed, torn>>
shared == <<link, acl, intact, file>>
helper == <<task, specs, at, ace, keep, dacl>>
vars == <<shared, overlaid, sids, status, pc, helper, faults>>

PCs == {"idle", "link", "read_dacl", "write_dacl", "save", "save_write",
        "load", "unlink", "scan", "rmtree", "unlink_meta"}
Statuses == {"absent", "mounted", "unrecorded", "create failed", "destroy failed"}
Configured(s) == Configs[s] \cup {<<>>}

TypeOK ==
    /\ link \in [Places -> Source \cup {NoSource}]
    /\ acl \in [Source -> SUBSET (Sids \cup {Group})]
    /\ intact \in [Source -> BOOLEAN]
    /\ meta \in [Sandbox -> 0..MaxSids]
    /\ listed \in [Sandbox -> Seq(Mount)]
    /\ specs \in [Sandbox -> Seq(Mount)]
    /\ \A s \in Sandbox : listed[s] \in Configured(s) /\ specs[s] \in Configured(s)
    /\ overlaid \in [Sandbox -> SUBSET Mount]
    /\ torn \in [Sandbox -> BOOLEAN]
    /\ sids \in [Sandbox -> 0..MaxSids]
    /\ status \in [Sandbox -> Statuses]
    /\ pc \in [Sandbox -> PCs]
    /\ task \in [Sandbox -> {"create", "destroy"}]
    /\ at \in [Sandbox -> Nat \ {0}]
    /\ ace \in [Sandbox -> {"sid", "group"}]
    /\ keep \in [Sandbox -> BOOLEAN]
    /\ dacl \in [Sandbox -> SUBSET (Sids \cup {Group})]
    /\ faults \in 0..MaxFaults

Init ==
    /\ link = [p \in Places |-> NoSource]
    /\ acl = [f \in Source |-> {}]
    /\ intact = [f \in Source |-> TRUE]
    /\ meta = [s \in Sandbox |-> 0]
    /\ listed = [s \in Sandbox |-> <<>>]
    /\ specs = [s \in Sandbox |-> <<>>]
    /\ overlaid = [s \in Sandbox |-> {}]
    /\ torn = [s \in Sandbox |-> FALSE]
    /\ sids = [s \in Sandbox |-> 0]
    /\ status = [s \in Sandbox |-> "absent"]
    /\ pc = [s \in Sandbox |-> "idle"]
    /\ task = [s \in Sandbox |-> "create"]
    /\ at = [s \in Sandbox |-> 1]
    /\ ace = [s \in Sandbox |-> "sid"]
    /\ keep = [s \in Sandbox |-> FALSE]
    /\ dacl = [s \in Sandbox |-> {}]
    /\ faults = 0

-----------------------------------------------------------------------------
(* What the steps have in common. *)

Place(s) == <<s, specs[s][at[s]].target>>
Here(s) == specs[s][at[s]].source

\* Mutant: create grants the SID of the sandbox's previous metadata.
SidOfMeta(s) == <<s, meta[s]>>

\* The SID a request works with: create's argument, destroy's metadata entry.
Sid(s) == <<s, IF task[s] = "create" THEN sids[s] ELSE meta[s]>>
Trustee(s) == IF ace[s] = "sid" THEN Sid(s) ELSE Group

Goto(s, label) == pc' = [pc EXCEPT ![s] = label]

Fault ==
    /\ faults < MaxFaults
    /\ faults' = faults + 1

\* The request ends and run_elevated reports it; the helper's locals are gone.
Finish(s, outcome) ==
    /\ Goto(s, "idle")
    /\ status' = [status EXCEPT ![s] = outcome]
    /\ at' = [at EXCEPT ![s] = 1]
    /\ ace' = [ace EXCEPT ![s] = "sid"]
    /\ keep' = [keep EXCEPT ![s] = FALSE]
    /\ dacl' = [dacl EXCEPT ![s] = {}]
    /\ UNCHANGED <<sids, task, specs, overlaid>>

Fail(s) == Finish(s, IF task[s] = "create" THEN "create failed" ELSE "destroy failed")

\* On to the next mount of the loop, or past it.
NextSpec(s) ==
    /\ ace' = [ace EXCEPT ![s] = "sid"]
    /\ dacl' = [dacl EXCEPT ![s] = {}]
    /\ IF at[s] < Len(specs[s])
       THEN /\ at' = [at EXCEPT ![s] = @ + 1]
            /\ Goto(s, IF task[s] = "create" THEN "link" ELSE "unlink")
       ELSE /\ at' = at
            /\ Goto(s, IF task[s] = "create" THEN "save" ELSE "rmtree")

\* On to the group's ACE of this mount, which destroy may have to keep.
NextAce(s) ==
    IF ace[s] = "sid" /\ ~(task[s] = "destroy" /\ keep[s])
    THEN /\ ace' = [ace EXCEPT ![s] = "group"]
         /\ dacl' = [dacl EXCEPT ![s] = {}]
         /\ at' = at
         /\ Goto(s, "read_dacl")
    ELSE NextSpec(s)

MayBegin(s) ==
    /\ pc[s] = "idle"
    /\ Overlap \/ \A t \in Sandbox : pc[t] = "idle"

-----------------------------------------------------------------------------
(* Requests. *)

(***************************************************************************)
(* The engine asks for a create when it finds no record of the name        *)
(* (engine.py:77-79), with the mounts the config lists now (74).  After a  *)
(* create that mounted but could not be recorded, because store.add found  *)
(* the project under another name or the store locked (105), that is once  *)
(* more over the mounts in place, whose metadata it will overwrite.        *)
(***************************************************************************)
BeginCreate(s) ==
    /\ MayBegin(s)
    /\ status[s] \in {"absent", "create failed", "unrecorded"}
    /\ sids[s] < MaxSids
    /\ sids' = [sids EXCEPT ![s] = @ + 1]
    /\ task' = [task EXCEPT ![s] = "create"]
    /\ overlaid' = IF status[s] = "unrecorded"
                   THEN [overlaid EXCEPT ![s] = @ \cup Elements(specs[s])]
                   ELSE overlaid
    /\ \E config \in Configs[s] :
          /\ specs' = [specs EXCEPT ![s] = config]
          /\ Goto(s, IF config = <<>> THEN "save" ELSE "link")
    /\ UNCHANGED <<shared, status, at, ace, keep, dacl, faults>>

\* ... for a destroy when it finds one, which outlives a failed destroy.
BeginDestroy(s) ==
    /\ MayBegin(s)
    /\ status[s] \in {"mounted", "destroy failed"}
    /\ task' = [task EXCEPT ![s] = "destroy"]
    /\ Goto(s, "load")
    /\ UNCHANGED <<shared, overlaid, sids, status, specs, at, ace, keep, dacl, faults>>

-----------------------------------------------------------------------------
(* mounts.create (73-109) *)

\* mkdir, an old link removed, the link created (82-96).
CreateLink(s) ==
    /\ pc[s] = "link"
    /\ link' = [link EXCEPT ![Place(s)] = Here(s)]
    /\ Goto(s, "read_dacl")
    /\ UNCHANGED <<acl, intact, file, overlaid, sids, status, helper, faults>>

\* OSError or MountError (82-95): the mounts before this one stay, and so may
\* an older link at this place, whose removal may have failed (85-88).
CreateLinkFails(s) ==
    /\ pc[s] = "link"
    /\ Fault
    /\ \E left \in {link[Place(s)], NoSource} : link' = [link EXCEPT ![Place(s)] = left]
    /\ Fail(s)
    /\ UNCHANGED <<acl, intact, file>>

\* The group does not exist: _group_sid raises MountError, which create's
\* `except OSError` does not catch (98-106, 150-155), so the link stays too.
\* In destroy it ends the request after a link was removed (130).
GroupMissing(s) ==
    /\ pc[s] = "read_dacl"
    /\ ace[s] = "sid"
    /\ ~keep[s]
    /\ Fault
    /\ Fail(s)
    /\ UNCHANGED shared

\* _save_meta (109, 42-61): write_text creates the file, then fills it.
SaveMeta(s) ==
    /\ pc[s] = "save"
    /\ torn' = [torn EXCEPT ![s] = TRUE]
    /\ meta' = [meta EXCEPT ![s] = 0]
    /\ listed' = [listed EXCEPT ![s] = <<>>]
    /\ Goto(s, "save_write")
    /\ UNCHANGED <<link, acl, intact, overlaid, sids, status, helper, faults>>

\* The helper returns, and store.add records the sandbox or raises.
WriteMeta(s) ==
    /\ pc[s] = "save_write"
    /\ torn' = [torn EXCEPT ![s] = FALSE]
    /\ meta' = [meta EXCEPT ![s] = sids[s]]
    /\ listed' = [listed EXCEPT ![s] = specs[s]]
    /\ \E outcome \in {"mounted", "unrecorded"} : Finish(s, outcome)
    /\ UNCHANGED <<link, acl, intact, faults>>

-----------------------------------------------------------------------------
(* _set_access (158-166) for both requests *)

\* GetNamedSecurityInfo
ReadDacl(s) ==
    /\ pc[s] = "read_dacl"
    /\ dacl' = [dacl EXCEPT ![s] = acl[Here(s)]]
    /\ Goto(s, "write_dacl")
    /\ UNCHANGED <<shared, overlaid, sids, status, task, specs, at, ace, keep, faults>>

\* SetEntriesInAcl on the DACL that was read, SetNamedSecurityInfo
WriteDacl(s) ==
    /\ pc[s] = "write_dacl"
    /\ acl' = [acl EXCEPT ![Here(s)] =
            IF task[s] = "create" THEN dacl[s] \cup {Trustee(s)}
                                  ELSE dacl[s] \ {Trustee(s)}]
    /\ NextAce(s)
    /\ UNCHANGED <<link, intact, file, overlaid, sids, status, task, specs, keep, faults>>

\* create removes the link of this mount and raises (102-106), unless that
\* removal raises too ...
GrantFails(s) ==
    /\ pc[s] \in {"read_dacl", "write_dacl"}
    /\ task[s] = "create"
    /\ Fault
    /\ \E left \in {link[Place(s)], NoSource} : link' = [link EXCEPT ![Place(s)] = left]
    /\ Fail(s)
    /\ UNCHANGED <<acl, intact, file>>

\* ... destroy logs a warning and goes on (132-137).
RevokeFails(s) ==
    /\ pc[s] \in {"read_dacl", "write_dacl"}
    /\ task[s] = "destroy"
    /\ Fault
    /\ NextAce(s)
    /\ UNCHANGED <<shared, overlaid, sids, status, task, specs, keep>>

-----------------------------------------------------------------------------
(* mounts.destroy (112-147) *)

\* _load_meta (117): without entries there is nothing to take back.  A record
\* exists only after a create that returned, so the file is whole here.
Load(s) ==
    /\ pc[s] = "load"
    /\ specs' = [specs EXCEPT ![s] = listed[s]]
    /\ Goto(s, IF listed[s] = <<>> THEN "rmtree" ELSE "unlink")
    /\ UNCHANGED <<shared, overlaid, sids, status, task, at, ace, keep, dacl, faults>>

\* Mutant: the links are left to _rmtree.
UnlinkForgotten(s) ==
    /\ pc[s] = "unlink"
    /\ Goto(s, "scan")
    /\ UNCHANGED <<shared, overlaid, sids, status, helper, faults>>

Unlink(s) ==
    /\ pc[s] = "unlink"
    /\ link' = [link EXCEPT ![Place(s)] = NoSource]
    /\ Goto(s, "scan")
    /\ UNCHANGED <<acl, intact, file, overlaid, sids, status, helper, faults>>

\* The bind link cannot be removed: a warning (125-126).
UnlinkFails(s) ==
    /\ pc[s] = "unlink"
    /\ Fault
    /\ Goto(s, "scan")
    /\ UNCHANGED <<shared, overlaid, sids, status, helper>>

\* Mutant: destroy never asks who else mounts the source ...
ScanNothing(s) ==
    /\ pc[s] = "scan"
    /\ \A t \in Sandbox \ {s} : ~torn[t]
    /\ Goto(s, "read_dacl")
    /\ UNCHANGED <<shared, overlaid, sids, status, helper, faults>>

\* Mutant: ... or counts the sandbox's own metadata as another's.
ScanItself(s) ==
    /\ pc[s] = "scan"
    /\ \A t \in Sandbox \ {s} : ~torn[t]
    /\ keep' = [keep EXCEPT ![s] =
            \E t \in Sandbox : Here(s) \in Sources(listed[t])]
    /\ Goto(s, "read_dacl")
    /\ UNCHANGED <<shared, overlaid, sids, status, task, specs, at, ace, dacl, faults>>

\* _sources_of_others (169-177) reads every other metadata file ...
Scan(s) ==
    /\ pc[s] = "scan"
    /\ \A t \in Sandbox \ {s} : ~torn[t]
    /\ keep' = [keep EXCEPT ![s] =
            \E t \in Sandbox \ {s} : Here(s) \in Sources(listed[t])]
    /\ Goto(s, "read_dacl")
    /\ UNCHANGED <<shared, overlaid, sids, status, task, specs, at, ace, dacl, faults>>

\* ... and raises JSONDecodeError on one that is not written yet.
ScanFails(s) ==
    /\ pc[s] = "scan"
    /\ \E t \in Sandbox \ {s} : torn[t]
    /\ Fail(s)
    /\ UNCHANGED <<shared, faults>>

\* _rmtree(ws) (139-143) descends into whatever is still linked: the links
\* are transparent, so what it deletes there are the source's own files.
Rmtree(s) ==
    /\ pc[s] = "rmtree"
    /\ intact' = [f \in Source |-> intact[f] /\
            \A t \in Target : link[<<s, t>>] # f]
    /\ Goto(s, "unlink_meta")
    /\ UNCHANGED <<link, acl, file, overlaid, sids, status, helper, faults>>

UnlinkMeta(s) ==
    /\ pc[s] = "unlink_meta"
    /\ meta' = [meta EXCEPT ![s] = 0]
    /\ listed' = [listed EXCEPT ![s] = <<>>]
    /\ torn' = [torn EXCEPT ![s] = FALSE]
    /\ Finish(s, "absent")
    /\ UNCHANGED <<link, acl, intact, faults>>

\* The elevated helper is killed; run_elevated finds no result
\* (elevation.py:45-47).
HelperLost(s) ==
    /\ pc[s] # "idle"
    /\ Fault
    /\ Fail(s)
    /\ UNCHANGED shared

-----------------------------------------------------------------------------
Step(s) ==
    \/ CreateLink(s) \/ SaveMeta(s) \/ WriteMeta(s)
    \/ ReadDacl(s) \/ WriteDacl(s)
    \/ Load(s) \/ Unlink(s) \/ Scan(s) \/ ScanFails(s)
    \/ Rmtree(s) \/ UnlinkMeta(s)

Failure(s) ==
    \/ CreateLinkFails(s) \/ GroupMissing(s) \/ GrantFails(s) \/ RevokeFails(s)
    \/ UnlinkFails(s) \/ HelperLost(s)

Next == \E s \in Sandbox :
            BeginCreate(s) \/ BeginDestroy(s) \/ Step(s) \/ Failure(s)

Spec == Init /\ [][Next]_vars

-----------------------------------------------------------------------------
(* Properties *)

Idle(s) == pc[s] = "idle"

\* Both access checks of a sandboxed process pass on every mount: its
\* restricted SID and its group are granted, through a link that is there.
Usable(s) == \A k \in DOMAIN specs[s] :
    /\ link[<<s, specs[s][k].target>>] = specs[s][k].source
    /\ {<<s, sids[s]>>, Group} \subseteq acl[specs[s][k].source]

\* The folders of the mounts that a create of s was laid over.
Buried(s) == {m.source : m \in overlaid[s]}

\* A sandbox whose create returned can use its mounts until its own destroy,
\* whatever is done, or fails, for sandboxes that share its sources.
MountedWorks ==
    \A s \in Sandbox : Idle(s) /\ status[s] = "mounted" => Usable(s)

\* After a destroy no SID the sandbox ever had keeps access to a source, and
\* no place leads to one, as long as no call has failed; except for what an
\* earlier, unrecorded create had made, of which the metadata says nothing.
DestroyedClean ==
    faults = 0 => \A s \in Sandbox : Idle(s) /\ status[s] = "absent" =>
        /\ \A f \in Source \ Buried(s) : acl[f] \cap ({s} \X (1..MaxSids)) = {}
        /\ \A t \in Target : LET f == link[<<s, t>>] IN
              f = NoSource \/ [target |-> t, source |-> f] \in overlaid[s]

\* The group has access only to sources that some sandbox mounts, or that an
\* unrecorded create had mounted, as long as no call has failed: whichever of
\* the sandboxes sharing a source is destroyed last takes the ACE with it.
GroupOnlyWhereMounted ==
    faults = 0 /\ (\A s \in Sandbox : Idle(s)) =>
        \A f \in Source : Group \in acl[f] => \E s \in Sandbox :
            (status[s] # "absent" /\ f \in Sources(specs[s])) \/ f \in Buried(s)

\* Neither create nor destroy ever removes a file of the user's.
FilesSafe == \A f \in Source : intact[f]

\* ... as long as no call has failed and the folder was not mounted by an
\* unrecorded create: each link that the metadata lists is gone before the
\* tree it was in is deleted.
FilesSafeWithoutFaults ==
    faults = 0 => \A f \in Source : intact[f] \/ \E s \in Sandbox : f \in Buried(s)
=============================================================================
