---------------------------- MODULE MCOtaManager ----------------------------
(***************************************************************************)
(* Instances of OtaManager for TLC; the constants are in the .cfg files.   *)
(***************************************************************************)
EXTENDS OtaManager
=============================================================================
