------------------------- MODULE MCDaemonLifecycle -------------------------
(* TLC instance of DaemonLifecycle, which has no constants. *)
EXTENDS DaemonLifecycle
=============================================================================
