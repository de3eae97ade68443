---------------------------- MODULE MCStoreFile ----------------------------
(* Instances of StoreFile for TLC: two projects, two names, two processes. *)
EXTENDS StoreFile
=============================================================================
