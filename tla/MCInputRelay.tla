---------------------------- MODULE MCInputRelay ----------------------------
(* Instances of InputRelay for TLC; the bounds are discussed in README.md. *)
EXTENDS InputRelay
=============================================================================
