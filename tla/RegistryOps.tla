---------------------------- MODULE RegistryOps ----------------------------
(***************************************************************************)
(* The data of sandboxes.json (sbx/store.py): which project folders have a *)
(* record, and what the three mutators of Store do to it.  The registry is *)
(* a function from projects to records; NoRecord marks an absent key.      *)
(* Of a record's fields only those that the code's decisions read are      *)
(* kept: the name (unique, store.py:101-105) and the state.  The pids are  *)
(* non-empty exactly when the state is "running" (engine.py:143-147,       *)
(* 173-177, 197), which is all that Leftover in StoreFile needs of them.   *)
(***************************************************************************)
EXTENDS Naturals

CONSTANTS Project,  \* project folders, the keys of the JSON object
          Name,     \* sandbox names
          NoRecord  \* marks a project without a record

States == {"created", "running", "stopped"}
Records == [name : Name, state : States]

ASSUME NoRecordIsNoRecord == NoRecord \notin Records

(***************************************************************************)
(* The registries: what json.loads returns for a readable file, and what   *)
(* both an absent and an empty file stand for.                             *)
(***************************************************************************)
Registries == [Project -> Records \cup {NoRecord}]
Empty == [p \in Project |-> NoRecord]
Known(d) == {p \in Project : d[p] # NoRecord}

\* Project p is recorded under the name n; a record of n is in state st.
Holds(d, p, n) == p \in Known(d) /\ d[p].name = n
Lists(d, n, st) == \E p \in Project : Holds(d, p, n) /\ d[p].state = st

(***************************************************************************)
(* The mutations: the closures _add, _update and _remove that Store passes *)
(* to _mutate, with the arguments they capture.                            *)
(***************************************************************************)
AddOp    == [kind : {"add"}, project : Project, name : Name]
UpdateOp == [kind : {"update"}, project : Project, state : States \ {"created"}]
RemoveOp == [kind : {"remove"}, project : Project]
Ops == AddOp \cup UpdateOp \cup RemoveOp

\* Mutant: _add checks the key but no longer the names of the other records.
AcceptsAnyName(o, d) ==
    IF o.kind = "add" THEN o.project \notin Known(d) ELSE o.project \in Known(d)

(***************************************************************************)
(* The StoreError checks each closure makes before it touches data.        *)
(***************************************************************************)
Accepts(o, d) ==
    IF o.kind = "add"
    THEN /\ o.project \notin Known(d)
         /\ \A q \in Known(d) : d[q].name # o.name
    ELSE o.project \in Known(d)

\* Mutant: _update stores the given fields in place of the record's own.
OutcomeDropsFields(o, d) ==
    CASE o.kind = "add"    -> [name |-> o.name, state |-> "created"]
      [] o.kind = "update" -> [state |-> o.state]
      [] o.kind = "remove" -> NoRecord

(***************************************************************************)
(* What the closure leaves in data when it accepts.                        *)
(***************************************************************************)
Outcome(o, d) ==
    CASE o.kind = "add"    -> [name |-> o.name, state |-> "created"]
      [] o.kind = "update" -> [name |-> d[o.project].name, state |-> o.state]
      [] o.kind = "remove" -> NoRecord

Apply(o, d) == [d EXCEPT ![o.project] = Outcome(o, d)]

(***************************************************************************)
(* Names identify sandboxes: engine.py resolves by name first (224).       *)
(***************************************************************************)
NamesUnique(d) == \A p, q \in Known(d) : d[p].name = d[q].name => p = q
=============================================================================
