----------------------------- MODULE MCPamModule -----------------------------
(***************************************************************************)
(* Instances of PamModule for TLC.                                         *)
(***************************************************************************)
EXTENDS PamModule
=============================================================================
