---------------------------- MODULE FirmwareTrial ----------------------------
(***************************************************************************)
(* What the update pipeline promises to the owner of the keyboard: the     *)
(* device always holds one firmware that has been accepted, and at most    *)
(* one more that is on trial.  A trial ends in one of two ways: the user   *)
(* accepts the new firmware, or the device returns to the accepted one.    *)
(***************************************************************************)
CONSTANTS Versions,   \* the firmware images that may be installed
          NoImage     \* no firmware

VARIABLES good,       \* the firmware last accepted
          trial       \* the firmware being tried out, or NoImage

vars == <<good, trial>>

Init == good \in Versions /\ trial = NoImage

Try(v) == trial = NoImage /\ trial' = v /\ good' = good

Accept == trial # NoImage /\ good' = trial /\ trial' = NoImage

Revert == trial # NoImage /\ trial' = NoImage /\ good' = good

Next == (\E v \in Versions : Try(v)) \/ Accept \/ Revert

Spec == Init /\ [][Next]_vars /\ WF_vars(Accept \/ Revert)
=============================================================================
