----------------------------- MODULE MCProxySync -----------------------------
(* Instances of ProxySync for TLC. *)
EXTENDS ProxySync
=============================================================================
