------------------------------- MODULE EspOta -------------------------------
(***************************************************************************)
(* External: the two application slots of partitions_8mb_ota.csv, the      *)
(* otadata record that says which of them is selected and in what state    *)
(* its image is, and the second-stage bootloader with rollback enabled.    *)
(* Modelled from the way ota_manager.c and sdkconfig.defaults use them.    *)
(***************************************************************************)
EXTENDS Integers

Slots == {0, 1}

Other(s) == 1 - s

ImgStates == {"undefined", "new", "pending_verify", "valid", "invalid", "aborted"}

Refused == {"invalid", "aborted"}

(***************************************************************************)
(* An image that was still pending when the device went down is aborted.   *)
(***************************************************************************)
AbortPending(st) ==
  [s \in Slots |-> IF st[s] = "pending_verify" THEN "aborted" ELSE st[s]]

(***************************************************************************)
(* The slot the bootloader picks: the selected one unless it is refused.   *)
(***************************************************************************)
ActiveSlot(st, sel) ==
  IF AbortPending(st)[sel] \in Refused THEN Other(sel) ELSE sel

(***************************************************************************)
(* The states after the bootloader: a new image is given its one trial.    *)
(***************************************************************************)
StatesAfterBoot(st, sel) ==
  [s \in Slots |-> IF s = ActiveSlot(st, sel) /\ st[s] = "new"
                   THEN "pending_verify" ELSE AbortPending(st)[s]]

(***************************************************************************)
(* The slot that runs: the other one when the picked image does not load.  *)
(***************************************************************************)
BootSlot(img, st, sel, none) ==
  IF img[ActiveSlot(st, sel)] # none THEN ActiveSlot(st, sel)
                                     ELSE Other(ActiveSlot(st, sel))
=============================================================================
