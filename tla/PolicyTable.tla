---------------------------- MODULE PolicyTable ----------------------------
(***************************************************************************)
(* What the proxies promise the commands that share them: one table, in    *)
(* which a session's policy is from the answer to its register to the      *)
(* answer to its deregister.  No proxy that comes, fails to come or goes   *)
(* away by itself is seen in it; only one that is lost takes it along.     *)
(* Lifecycle has such a table as its variable policy.  ProxyProcess        *)
(* implements it with processes that only a port and a PID file coordinate.*)
(***************************************************************************)
EXTENDS Naturals

CONSTANT Cli \* sandboxes, each with its commands

VARIABLES
    attached, \* the sandboxes registered by a command that is to deregister them
    table,    \* the sandboxes with a policy
    left,     \* those whose policy was left behind
    crashes   \* losses of a proxy so far

vars == <<attached, table, left, crashes>>

Init == attached = {} /\ table = {} /\ left = {} /\ crashes = 0

\* ctl.register is answered.
Register(c) ==
    /\ c \notin attached
    /\ attached' = attached \cup {c}
    /\ table' = table \cup {c}
    /\ left' = left \ {c}
    /\ UNCHANGED crashes

\* deregister_sandbox returns, in a session's end or a stop: the policy is gone,
\* with or without an answer.
Deregister(c) ==
    /\ attached' = attached \ {c}
    /\ table' = table \ {c}
    /\ left' = left \ {c}
    /\ UNCHANGED crashes

\* A command is lost, fails or gives up before its deregister, or that fails:
\* the policy, if it is there, is nobody's.
Abandon(c) ==
    /\ c \in attached
    /\ attached' = attached \ {c}
    /\ left' = left \cup ({c} \cap table)
    /\ UNCHANGED <<table, crashes>>

\* A proxy is lost, or does not come in time: the table may go with it.
Lose ==
    /\ table' \in {table, {}}
    /\ left' = left \cap table'
    /\ crashes' = crashes + 1
    /\ UNCHANGED attached

\* uninstall stops the proxy, with what was left in it.
Withdraw ==
    /\ attached = {}
    /\ table' = {}
    /\ left' = {}
    /\ UNCHANGED <<attached, crashes>>

Next ==
    \/ \E c \in Cli : Register(c) \/ Deregister(c) \/ Abandon(c)
    \/ Lose \/ Withdraw

Spec == Init /\ [][Next]_vars

\* Policies are in force for sessions, and for those of which one was left
\* behind, for no others; and unless a proxy is lost every session has one
\* (engine.py:140-141, 193-196).
Exact ==
    /\ table \subseteq attached \cup left
    /\ left \subseteq table
    /\ crashes = 0 => attached \subseteq table
=============================================================================
