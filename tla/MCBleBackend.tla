---------------------------- MODULE MCBleBackend ----------------------------
(***************************************************************************)
(* Instances of BleBackend for TLC; the constants are in the .cfg files.   *)
(***************************************************************************)
EXTENDS BleBackend
=============================================================================
