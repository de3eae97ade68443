--------------------------- MODULE MCProxyProcess ---------------------------
(* Instances of ProxyProcess for TLC; the bounds are discussed in README.md. *)
EXTENDS ProxyProcess
=============================================================================
