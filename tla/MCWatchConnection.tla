------------------------- MODULE MCWatchConnection -------------------------
(* TLC instance of WatchConnection. *)
EXTENDS WatchConnection
=============================================================================
