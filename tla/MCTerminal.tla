----------------------------- MODULE MCTerminal -----------------------------
(* An instance of Terminal for TLC; all bounds are constants. *)
EXTENDS Terminal
=============================================================================
