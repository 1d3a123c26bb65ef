-------------------------- MODULE MCDaemonRegistry --------------------------
(* Model-checking instance of DaemonRegistry.                              *)
EXTENDS DaemonRegistry
=============================================================================
