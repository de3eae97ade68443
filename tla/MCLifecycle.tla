---------------------------- MODULE MCLifecycle ----------------------------
(* Instances of Lifecycle for TLC; the bounds are discussed in README.md. *)
EXTENDS Lifecycle, TLC

\* Commands, names and projects are interchangeable (only used where no
\* liveness is checked).
Symmetry == Permutations(Cli) \cup Permutations(Name) \cup Permutations(Project)
=============================================================================
