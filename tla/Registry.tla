------------------------------ MODULE Registry ------------------------------
(***************************************************************************)
(* What sandboxes.json promises its callers: a registry that changes only  *)
(* by whole, accepted mutations, one at a time, until a command is killed  *)
(* at the wrong moment; from then on no command can parse the file and no  *)
(* mutation is accepted again.  StoreFile implements it with a lock, a     *)
(* read, a write and a truncation.                                         *)
(***************************************************************************)
EXTENDS RegistryOps

VARIABLES recs,    \* the registry
          broken,  \* TRUE once no command can parse it
          kills    \* commands killed inside a mutation so far

regVars == <<recs, broken, kills>>

Init == recs = Empty /\ broken = FALSE /\ kills = 0

Mutate(o) ==
    /\ ~broken
    /\ Accepts(o, recs)
    /\ recs' = Apply(o, recs)
    /\ UNCHANGED <<broken, kills>>

\* A command is killed: the registry stays as it is, or nobody reads it again.
Kill ==
    /\ kills' = kills + 1
    /\ broken' \in {broken, TRUE}
    /\ UNCHANGED recs

Next == Kill \/ \E o \in Ops : Mutate(o)

Spec == Init /\ [][Next]_regVars
=============================================================================
