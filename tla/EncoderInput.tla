----------------------------- MODULE EncoderInput -----------------------------
(***************************************************************************)
(* main.c's input_task: the encoder's button, whose presses are counted    *)
(* into taps, and the encoder's wheel, whose pulses are counted into steps.*)
(*                                                                         *)
(* A pass of the task is four steps, so that the web server's task and the *)
(* pulse counter come between them.  The button's levels are debounced     *)
(* (module KeyReports models that); here it is pressed in a pass or not.   *)
(* What an action does is in other modules, but for the layer.             *)
(***************************************************************************)
EXTENDS Integers, Sequences

CONSTANTS TapWindow,   \* MACRO_ENCODER_TAP_WINDOW_MS, in ticks
          SingleDelay, \* MACRO_ENCODER_SINGLE_TAP_DELAY_MS, in ticks
          PassTicks,   \* ticks a pass may take
          TapActions,  \* MACRO_..._TAP_COUNT: what these numbers of taps do
          Detent,      \* ENCODER_DETENT_PULSES
          MaxTicks,    \* bound of the model: the clock
          MaxPresses,  \* bound of the model: presses
          MaxPulses    \* bound of the model: pulses of the wheel

ASSUME EncoderAssumption ==
  /\ TapWindow \in Nat /\ SingleDelay \in Nat /\ PassTicks \subseteq Nat \ {0}
  /\ Detent \in Nat \ {0}
  /\ MaxTicks \in Nat /\ MaxPresses \in Nat /\ MaxPulses \in Nat
  /\ \A taps \in DOMAIN TapActions :
       taps \in Nat /\ TapActions[taps] \in {"mode", "pairing", "control", "buzzer"}

VARIABLES
  now,        \* the tick the pass began with
  at,         \* the pass's next step
  tapCount, lastTap,        \* s_encoder_tap_count, s_encoder_last_tap_tick
  singlePending, singleDue, \* s_encoder_single_pending, ..._due_tick
  activeLayer, \* s_active_layer
  confirming, portalOpen, \* ota_manager's and wifi_portal's answers
  action,     \* the last action of the button, and the taps it was for
  presses,    \* history: the ticks of the button's presses
  wheel,      \* the pulse counter
  read,       \* what the pass has read of it
  turned, stepped \* history: pulses, and steps reported, in each direction

buttonVars == <<tapCount, lastTap, singlePending, singleDue, action, presses>>
othersVars == <<activeLayer, confirming, portalOpen>>
wheelVars == <<wheel, read, turned, stepped>>
encoderVars == <<now, at, buttonVars, othersVars, wheelVars>>

Actions == {"none", "ota", "mode", "pairing", "control", "buzzer", "single", "layer",
            "cancel", "emit"}

Directions == {1, -1} \* clockwise, and counter-clockwise

EncoderTypeOK ==
  /\ now \in Nat /\ at \in {"button", "taps", "single", "wheel", "clear"}
  /\ tapCount \in 0..MaxPresses /\ lastTap \in 0..now
  /\ singlePending \in BOOLEAN /\ singleDue \in Nat
  /\ activeLayer \in 0..2 /\ confirming \in BOOLEAN /\ portalOpen \in BOOLEAN
  /\ action \in [what : Actions, taps : 0..MaxPresses]
  /\ presses \in Seq(0..now) /\ Len(presses) <= MaxPresses
  /\ wheel \in -MaxPulses..MaxPulses /\ read \in -MaxPulses..MaxPulses
  /\ turned \in [Directions -> 0..MaxPulses] /\ stepped \in [Directions -> Nat]

EncoderInit ==
  /\ now = 0 /\ at = "button"
  /\ tapCount = 0 /\ lastTap = 0 /\ singlePending = FALSE /\ singleDue = 0
  /\ activeLayer = 0 /\ confirming \in BOOLEAN /\ portalOpen \in BOOLEAN
  /\ action = [what |-> "none", taps |-> 0]
  /\ presses = <<>>
  /\ wheel = 0 /\ read = 0
  /\ turned = [d \in Directions |-> 0] /\ stepped = [d \in Directions |-> 0]

-----------------------------------------------------------------------------
(***************************************************************************)
(* The button.                                                             *)
(***************************************************************************)
InWindow(tick) == tick - lastTap <= TapWindow

\* Fault: a single tap that waits is not dropped.
PressKeepsSingle ==
  /\ at = "button" /\ Len(presses) < MaxPresses
  /\ tapCount' = IF tapCount = 0 \/ ~InWindow(now) THEN 1 ELSE tapCount + 1
  /\ lastTap' = now
  /\ presses' = Append(presses, now)
  /\ at' = "taps"
  /\ UNCHANGED <<now, singlePending, singleDue, action, othersVars, wheelVars>>

\* a press begins a group, or adds to it; a single tap that waits is dropped
Press ==
  /\ at = "button" /\ Len(presses) < MaxPresses
  /\ singlePending' = FALSE
  /\ tapCount' = IF tapCount = 0 \/ ~InWindow(now) THEN 1 ELSE tapCount + 1
  /\ lastTap' = now
  /\ presses' = Append(presses, now)
  /\ at' = "taps"
  /\ UNCHANGED <<now, singleDue, action, othersVars, wheelVars>>

NoPress ==
  /\ at = "button"
  /\ at' = "taps"
  /\ UNCHANGED <<now, buttonVars, othersVars, wheelVars>>

\* the chain of input_task; ota_manager_handle_encoder_taps takes what it awaits
TapAction(taps) ==
  IF confirming THEN "ota"
  ELSE IF taps \in DOMAIN TapActions THEN TapActions[taps]
  ELSE IF taps = 1 THEN "single"
  ELSE IF taps = 3 /\ portalOpen THEN "cancel" ELSE "layer"

TapLayer(taps) == IF taps = 2 THEN 0 ELSE IF taps = 3 THEN 1 ELSE 2

Grouped == tapCount > 0 /\ ~InWindow(now)

Dispatch ==
  /\ at = "taps" /\ Grouped
  /\ tapCount' = 0
  /\ action' = [what |-> TapAction(tapCount), taps |-> tapCount]
  /\ singlePending' = (action'.what = "single")
  /\ singleDue' = IF singlePending' THEN now + SingleDelay ELSE singleDue
  /\ activeLayer' = IF action'.what = "layer" THEN TapLayer(tapCount) ELSE activeLayer
  /\ at' = "single"
  /\ UNCHANGED <<now, lastTap, presses, confirming, portalOpen, wheelVars>>

NotGrouped ==
  /\ at = "taps" /\ ~Grouped
  /\ at' = "single"
  /\ UNCHANGED <<now, buttonVars, othersVars, wheelVars>>

EmitSingle ==
  /\ at = "single" /\ singlePending /\ now >= singleDue
  /\ singlePending' = FALSE
  /\ action' = [what |-> "emit", taps |-> 1]
  /\ at' = "wheel"
  /\ UNCHANGED <<now, tapCount, lastTap, singleDue, presses, othersVars, wheelVars>>

NoSingle ==
  /\ at = "single" /\ ~(singlePending /\ now >= singleDue)
  /\ at' = "wheel"
  /\ UNCHANGED <<now, buttonVars, othersVars, wheelVars>>

-----------------------------------------------------------------------------
(***************************************************************************)
(* The wheel: the counter is read, and cleared if it has a step; what it   *)
(* counts in between, and the rest of the division, is not reported.       *)
(***************************************************************************)
\* C's division, towards zero
Steps(count) == IF count < 0 THEN -((-count) \div Detent) ELSE count \div Detent

Pulse(d) ==
  /\ turned[1] + turned[-1] < MaxPulses
  /\ wheel' = wheel + d
  /\ turned' = [turned EXCEPT ![d] = @ + 1]
  /\ UNCHANGED <<now, at, buttonVars, othersVars, read, stepped>>

NextPass(passTicks) ==
  /\ now < MaxTicks /\ now' = now + passTicks
  /\ at' = "button"

ReadWheel ==
  /\ at = "wheel"
  /\ read' = wheel
  /\ IF Steps(wheel) = 0
       THEN \E n \in PassTicks : NextPass(n)
       ELSE at' = "clear" /\ UNCHANGED now
  /\ UNCHANGED <<buttonVars, othersVars, wheel, turned, stepped>>

\* the report of abs(steps) consumer usages in their direction
Stepped ==
  LET d == IF read > 0 THEN 1 ELSE -1 IN
  stepped' = [stepped EXCEPT ![d] = @ + d * Steps(read)]

ReportSteps ==
  /\ at = "clear"
  /\ wheel' = 0
  /\ Stepped
  /\ \E n \in PassTicks : NextPass(n)
  /\ UNCHANGED <<buttonVars, othersVars, read, turned>>

-----------------------------------------------------------------------------
\* web_control_set_layer, and what the other modules' answers become
LayerFromWeb ==
  /\ \E l \in 0..2 : l # activeLayer /\ activeLayer' = l
  /\ UNCHANGED <<now, at, buttonVars, confirming, portalOpen, wheelVars>>

AnswersChange ==
  /\ at = "button"
  /\ \/ confirming' = ~confirming /\ portalOpen' = portalOpen
     \/ portalOpen' = ~portalOpen /\ confirming' = confirming
  /\ UNCHANGED <<now, at, buttonVars, activeLayer, wheelVars>>

EncoderPass ==
  \/ Press \/ NoPress \/ Dispatch \/ NotGrouped \/ EmitSingle \/ NoSingle
  \/ ReadWheel \/ ReportSteps

EncoderNext ==
  \/ EncoderPass
  \/ \E d \in Directions : Pulse(d)
  \/ LayerFromWeb \/ AnswersChange

EncoderSpec == EncoderInit /\ [][EncoderNext]_encoderVars

-----------------------------------------------------------------------------
\* the last k presses follow one another within the window
InOneBurst(k) ==
  \A i \in (Len(presses) - k + 2)..Len(presses) :
    presses[i] - presses[i - 1] <= TapWindow

\* the presses of the last burst
Burst == CHOOSE k \in 1..Len(presses) :
  InOneBurst(k) /\ (k = Len(presses) \/ ~InOneBurst(k + 1))

(***************************************************************************)
(* Configuration.md:39, "Multi-tap grouping window": the taps counted are  *)
(* the presses of the last burst, however long the passes are.             *)
(***************************************************************************)
TapsAreBurst == tapCount > 0 => tapCount = Burst

(***************************************************************************)
(* Runtime-Behavior.md:21, "delayed single action": it is done for a press *)
(* that stands alone, and never for the first press of several.            *)
(***************************************************************************)
SingleStandsAlone == singlePending => tapCount = 0 /\ Burst = 1

(***************************************************************************)
(* The wheel never steps further than it was turned, in either direction,  *)
(* whenever its pulses come.  (It may step less: pulses that come between  *)
(* the reading and the clearing, and the rest of a division, are dropped.) *)
(***************************************************************************)
StepsWereTurned == \A d \in Directions : stepped[d] * Detent <= turned[d]

(***************************************************************************)
(* The knob's counters count what was done with it: presses in groups, a   *)
(* single one apart, and the wheel's steps.                                *)
(***************************************************************************)
CountsAreTrue == TapsAreBurst /\ SingleStandsAlone /\ StepsWereTurned
=============================================================================
