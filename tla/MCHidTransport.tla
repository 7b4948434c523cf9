--------------------------- MODULE MCHidTransport ---------------------------
(***************************************************************************)
(* Instances of HidTransport for TLC; the constants are in the .cfg files. *)
(***************************************************************************)
EXTENDS HidTransport
=============================================================================
