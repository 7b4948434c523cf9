---------------------------- MODULE MCKeyReports ----------------------------
(***************************************************************************)
(* Instances of KeyReports for TLC; the constants are in the .cfg files.   *)
(* The clock and the web server's task are looked at one after the other:  *)
(* with the focus on the scan, every step may take its time and the web    *)
(* server is quiet; with the focus on the web server, both tasks take      *)
(* their steps in any order and the clock is read at multiples of the      *)
(* debounce time only.                                                     *)
(***************************************************************************)
EXTENDS KeyReports

VARIABLE focus

Keyboard(u) == [type |-> "keyboard", usage |-> u]
Consumer(u) == [type |-> "consumer", usage |-> u]

\* two layers: the first key is a consumer key on the second one
MixedLayers == [l \in {0, 1} |-> [k \in {0, 1} |->
  IF l = 1 /\ k = 0 THEN Consumer(9) ELSE Keyboard(2 * l + k)]]
-----------------------------------------------------------------------------
MCInit == Init /\ focus \in {"scan", "web"}

Scan == focus = "scan" /\ InputTask /\ UNCHANGED focus

Both == /\ focus = "web" /\ (InputTask \/ WebTask)
        /\ clock' % DebounceTicks = 0
        /\ UNCHANGED focus

MCNext == Scan \/ Both

MCSpec == MCInit /\ [][MCNext]_<<vars, focus>> /\ Fairness
=============================================================================
