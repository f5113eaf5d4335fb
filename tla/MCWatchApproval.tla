-------------------------- MODULE MCWatchApproval --------------------------
(* TLC instance of WatchApproval. *)
EXTENDS WatchApproval
=============================================================================
