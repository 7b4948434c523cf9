---------------------------- MODULE MCWifiPortal ----------------------------
(***************************************************************************)
(* Instances of WifiPortal for TLC; the constants are in the .cfg files.   *)
(***************************************************************************)
EXTENDS WifiPortal
=============================================================================
