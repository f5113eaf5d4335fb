---------------------------- MODULE MCGattNotify ----------------------------
(***************************************************************************)
(* Instances of GattNotify for TLC. The constants are numbers given by the *)
(* configurations.                                                         *)
(***************************************************************************)
EXTENDS GattNotify
=============================================================================
