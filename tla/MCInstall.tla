------------------------------ MODULE MCInstall ------------------------------
(* Instances of Install for TLC; all bounds are constants. *)
EXTENDS Install
=============================================================================
