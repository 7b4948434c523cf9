----------------------------- MODULE MCServices -----------------------------
(***************************************************************************)
(* Instances of the components that share nothing but the processor: the   *)
(* HTTP server, the start of SNTP, the Home Assistant client, the log      *)
(* store, the buzzer, the encoder's button and wheel, and the touch slider.*)
(* Their product says no more than each of them, so a behaviour here is a  *)
(* behaviour of one, the focus, with the others at rest.                   *)
(***************************************************************************)
EXTENDS WebService, SntpStart, HomeAssistant, LogStore, Buzzer, EncoderInput, TouchSlider,
        TLC

CONSTANT Focuses \* the ones to be checked

VARIABLE focus

\* with control and without it; main.c registers the interface it calls
Control_MC ==
  [enabled : BOOLEAN, registered : BOOLEAN] \ {[enabled |-> FALSE, registered |-> FALSE]}

\* as shipped, keymap_config.h:211
ControlShipped_MC == {[enabled |-> FALSE, registered |-> TRUE]}

Texts_MC == {<<"a", Newline>>, <<"a", "b", "a", Newline>>, <<"b">>}

\* melodies of up to three tones; the last tone of one of them has no gap after it,
\* and those of the short ones are told apart only where one follows the other
Melodies_MC ==
  LET T(pause, gap, event) == [rest |-> pause, gap |-> gap, of |-> event]
  IN [startup |-> <<T(FALSE, FALSE, "startup"), T(TRUE, FALSE, "startup"),
                    T(FALSE, TRUE, "startup")>>,
      key |-> <<T(FALSE, TRUE, "key")>>,
      layer |-> <<T(FALSE, TRUE, "layer"), T(FALSE, TRUE, "layer")>>,
      encoder |-> <<T(FALSE, TRUE, "key")>>,
      on |-> <<T(FALSE, TRUE, "key")>>,
      off |-> <<T(FALSE, FALSE, "off")>>]

TapActions_MC == 4 :> "mode"

\* fingers that are away, lightly on one side, lightly in the middle, on both sides
\* and firmly on one side
Samples_MC ==
  LET On(l, r) == [left |-> l, right |-> r]
  IN {On(0, 0), On(5, 1), On(1, 5), On(5, 5), On(9, 9), On(33, 1), On(1, 33)}

\* as in keymap_config.h: one layer whose gestures are repeated, one without
LayerTouch_MC ==
  <<[usage |-> [left |-> 1, right |-> 2], repeats |-> [s \in Sides |-> TRUE],
     start |-> 2, every |-> 1],
    [usage |-> [left |-> 3, right |-> 0], repeats |-> [s \in Sides |-> FALSE],
     start |-> 0, every |-> 0]>>
-----------------------------------------------------------------------------
serviceVars == <<webVars, sntpVars, haVars, logVars>>
inputVars == <<buzzerVars, encoderVars, touchVars>>
vars == <<focus, serviceVars, inputVars>>

Init ==
  /\ focus \in Focuses
  /\ WebInit /\ SntpInit /\ HaInit /\ LogInit /\ BuzzerInit /\ EncoderInit /\ TouchInit
  /\ focus # "web" => control = CHOOSE c \in ControlSettings : TRUE
  /\ focus # "sntp" => serverName = TRUE
  /\ focus # "ha" => entity = CHOOSE v \in EntityStates : TRUE
  /\ focus # "button" => ~confirming /\ ~portalOpen
  /\ focus # "touch" => touchLayer = 1

Web == /\ focus = "web" /\ WebNext
       /\ UNCHANGED <<focus, sntpVars, haVars, logVars, inputVars>>
Sntp == /\ focus = "sntp" /\ SntpNext
        /\ UNCHANGED <<focus, webVars, haVars, logVars, inputVars>>
Ha == focus = "ha" /\ HaNext /\ UNCHANGED <<focus, webVars, sntpVars, logVars, inputVars>>
Log == /\ focus = "log" /\ LogNext
       /\ UNCHANGED <<focus, webVars, sntpVars, haVars, inputVars>>
Sound == /\ focus = "buzzer" /\ BuzzerNext
         /\ UNCHANGED <<focus, serviceVars, encoderVars, touchVars>>
Button == /\ focus = "button" /\ EncoderNext /\ UNCHANGED turned
          /\ UNCHANGED <<focus, serviceVars, buzzerVars, touchVars>>
Wheel == /\ focus = "wheel" /\ EncoderNext /\ UNCHANGED <<presses, othersVars>>
         /\ UNCHANGED <<focus, serviceVars, buzzerVars, touchVars>>
Slider == /\ focus = "touch" /\ TouchNext
          /\ UNCHANGED <<focus, serviceVars, buzzerVars, encoderVars>>

Fairness ==
  /\ WF_webVars(focus = "web" /\ WebPoll) /\ WF_webVars(focus = "web" /\ Handle)
  /\ WF_sntpVars(focus = "sntp" /\ AddressHandler)
  /\ WF_sntpVars(focus = "sntp" /\ SntpPoll)
  /\ WF_sntpVars(focus = "sntp" /\ Starter)
  /\ WF_haVars(focus = "ha" /\ Initialise) /\ WF_haVars(focus = "ha" /\ Worker)
  /\ WF_haVars(focus = "ha" /\ PollComesDue) /\ SF_haVars(focus = "ha" /\ Refresh)
  /\ WF_buzzerVars(focus = "buzzer" /\ PhaseEnds)
  /\ WF_buzzerVars(focus = "buzzer" /\ BuzzerUpdate)
  /\ WF_buzzerVars(focus = "buzzer" /\ (StopClears \/ StopSilences \/ WebBeepWrites))

Next == Web \/ Sntp \/ Ha \/ Log \/ Sound \/ Button \/ Wheel \/ Slider

Spec == Init /\ [][Next]_vars /\ Fairness

(***************************************************************************)
(* The state of every component has its type.                              *)
(***************************************************************************)
ServicesTypeOK ==
  /\ WebTypeOK /\ SntpTypeOK /\ HaTypeOK /\ LogTypeOK
  /\ BuzzerTypeOK /\ EncoderTypeOK /\ TouchTypeOK
=============================================================================
