---------------------------- MODULE HidTransport ----------------------------
(***************************************************************************)
(* main/hid_transport.c with keyboard_mode_store.c: which keyboard the     *)
(* device is, the request to be the other one, and the restart that        *)
(* applies it.                                                             *)
(*                                                                         *)
(* hid_transport_request_mode_switch is called by the input task (tap x5)  *)
(* and by the web server's task, hid_transport_poll by the input task.     *)
(* There is no lock: a request is a sequence of steps, and its stores to   *)
(* s_ctx may be seen one by one.                                           *)
(*                                                                         *)
(* The input task reads the clock once a pass, polls with that reading,    *)
(* and a pass may take several ticks; a request reads the clock itself.    *)
(* Counts are modulo TickMod as the 32-bit TickType_t is modulo 2^32.      *)
(***************************************************************************)
EXTENDS Naturals

CONSTANTS DefaultMode,  \* MACRO_KEYBOARD_DEFAULT_MODE_BLE
          BleEnabled,   \* MACRO_BLUETOOTH_ENABLED
          Persist,      \* MACRO_KEYBOARD_MODE_PERSIST
          Delay,        \* MACRO_KEYBOARD_MODE_SWITCH_REBOOT_DELAY_MS
          PassTicks,    \* a pass of the input task takes no more ticks
          TickMod,      \* the tick counter wraps here
          Faults,       \* the calls that may return an error
          MaxResets     \* bound of the model: resets from outside

Modes == {"usb", "ble"}

ASSUME ModeAssumption ==
  DefaultMode \in Modes /\ BleEnabled \in BOOLEAN /\ Persist \in BOOLEAN
ASSUME ClockAssumption ==
  /\ Delay \in Nat /\ PassTicks \in Nat /\ TickMod \in Nat /\ MaxResets \in Nat
  /\ Delay < TickMod /\ PassTicks < TickMod
ASSUME ErrorAssumption == Faults \subseteq {"load", "save", "ble", "usb"}

VARIABLES
  stored,    \* NVS key kbd_mode/mode
  resets,    \* resets from outside so far
  phase,     \* progress of hid_transport_init
  mode,      \* s_ctx.mode
  bleReady,  \* hid_ble_backend_init has succeeded
  bleFailed, \* s_ctx.ble_init_failed
  usbHid,    \* the USB configuration has the HID interface
  pending,   \* s_ctx.mode_switch_pending
  target,    \* s_ctx.mode_switch_target
  due,       \* s_ctx.mode_switch_reboot_tick
  request,   \* the calls of hid_transport_request_mode_switch under way
  clock,     \* xTaskGetTickCount()
  now,       \* what the input task read of it when its pass began
  age        \* history: ticks since a request set the deadline

nvsVars == <<stored, resets>>
initVars == <<phase, mode, bleReady, bleFailed, usbHid>>
switchVars == <<pending, target, due>>
clockVars == <<clock, now, age>>
vars == <<nvsVars, initVars, switchVars, request, clockVars>>

Callers == {"input", "web"}

Other(m) == IF m = "usb" THEN "ble" ELSE "usb"

Idle == [step |-> "none", mode |-> "usb"]

TypeOK ==
  /\ stored \in Modes \cup {"none"}
  /\ resets \in 0..MaxResets
  /\ phase \in {"load", "ble", "usb", "up", "failed"}
  /\ mode \in Modes
  /\ bleReady \in BOOLEAN /\ bleFailed \in BOOLEAN /\ usbHid \in BOOLEAN
  /\ pending \in BOOLEAN /\ target \in Modes /\ due \in 0..(TickMod - 1)
  /\ request \in [Callers -> [step : {"none", "save", "flag", "target", "due"},
                              mode : Modes]]
  /\ clock \in 0..(TickMod - 1) /\ now \in 0..(TickMod - 1)
  /\ age \in 0..Delay

Init ==
  /\ stored = "none"
  /\ resets = 0
  /\ phase = "load" /\ mode = DefaultMode
  /\ bleReady = FALSE /\ bleFailed = FALSE /\ usbHid = FALSE
  /\ pending = FALSE /\ target = "usb" /\ due = 0
  /\ request = [c \in Callers |-> Idle]
  /\ clock = 0 /\ now = 0 /\ age = 0

\* what a reset of the device leaves: the NVS and nothing else
Restart ==
  /\ stored' = stored
  /\ phase' = "load" /\ mode' = DefaultMode
  /\ bleReady' = FALSE /\ bleFailed' = FALSE /\ usbHid' = FALSE
  /\ pending' = FALSE /\ target' = "usb" /\ due' = 0
  /\ request' = [c \in Callers |-> Idle]
  /\ clock' = 0 /\ now' = 0 /\ age' = 0

Reset ==
  /\ resets < MaxResets
  /\ resets' = resets + 1
  /\ Restart

-----------------------------------------------------------------------------
(***************************************************************************)
(* hid_transport_init: the stored mode, else the default; BLE if it is     *)
(* that; then USB, with a keyboard only if the mode still is or became USB.*)
(***************************************************************************)
Supported(m) == IF m = "ble" /\ ~BleEnabled THEN "usb" ELSE m

Loaded ==
  IF Persist /\ stored # "none"
    THEN {stored} \cup (IF "load" \in Faults THEN {DefaultMode} ELSE {})
    ELSE {DefaultMode}

Load ==
  /\ phase = "load"
  /\ \E m \in Loaded : mode' = Supported(m)
  /\ phase' = IF mode' = "ble" THEN "ble" ELSE "usb"
  /\ UNCHANGED <<nvsVars, bleReady, bleFailed, usbHid, switchVars, request, clockVars>>

BleInit ==
  /\ phase = "ble"
  /\ bleReady' = TRUE
  /\ phase' = "usb"
  /\ UNCHANGED <<nvsVars, mode, bleFailed, usbHid, switchVars, request, clockVars>>

\* Fault: the fallback is stored for the next boot only.
BleInitFailsForNow ==
  /\ phase = "ble" /\ "ble" \in Faults
  /\ bleFailed' = TRUE
  /\ stored' = IF Persist THEN "usb" ELSE stored
  /\ phase' = "usb"
  /\ UNCHANGED <<resets, mode, bleReady, usbHid, switchVars, request, clockVars>>

\* the fallback is stored, unless that fails as well
BleInitFails ==
  /\ phase = "ble" /\ "ble" \in Faults
  /\ bleFailed' = TRUE
  /\ mode' = "usb"
  /\ stored' \in (IF Persist THEN {"usb"} ELSE {stored})
                 \cup (IF "save" \in Faults THEN {stored} ELSE {})
  /\ phase' = "usb"
  /\ UNCHANGED <<resets, bleReady, usbHid, switchVars, request, clockVars>>

UsbInit ==
  /\ phase = "usb"
  /\ \/ usbHid' = (mode = "usb") /\ phase' = "up"
     \/ "usb" \in Faults /\ usbHid' = usbHid /\ phase' = "failed"
  /\ UNCHANGED <<nvsVars, mode, bleReady, bleFailed, switchVars, request, clockVars>>

Boot == Load \/ BleInit \/ BleInitFails \/ UsbInit

-----------------------------------------------------------------------------
(***************************************************************************)
(* hid_transport_request_mode_switch, in the task c.                       *)
(***************************************************************************)
Step(c, step) == request' = [request EXCEPT ![c].step = step]

\* a request for the present mode is answered with ESP_OK and changes nothing
RequestOther(c) ==
  /\ phase = "up" /\ request[c].step = "none"
  /\ Supported(Other(mode)) = Other(mode)
  /\ request' = [request EXCEPT ![c] =
                   [step |-> IF Persist THEN "save" ELSE "flag",
                    mode |-> Other(mode)]]
  /\ UNCHANGED <<nvsVars, initVars, switchVars, clockVars>>

Save(c) ==
  /\ request[c].step = "save"
  /\ stored' = request[c].mode
  /\ Step(c, "flag")
  /\ UNCHANGED <<resets, initVars, switchVars, clockVars>>

\* Fault: the result of the save is not looked at.
SaveFailsUnnoticed(c) ==
  /\ "save" \in Faults
  /\ request[c].step = "save"
  /\ Step(c, "flag")
  /\ UNCHANGED <<nvsVars, initVars, switchVars, clockVars>>

\* set and commit are two calls: the value may be stored nevertheless
SaveFails(c) ==
  /\ "save" \in Faults
  /\ request[c].step = "save"
  /\ stored' \in {stored, request[c].mode}
  /\ Step(c, "none")
  /\ UNCHANGED <<resets, initVars, switchVars, clockVars>>

SetPending(c) ==
  /\ request[c].step = "flag"
  /\ pending' = TRUE
  /\ Step(c, "target")
  /\ UNCHANGED <<nvsVars, initVars, target, due, clockVars>>

SetTarget(c) ==
  /\ request[c].step = "target"
  /\ target' = request[c].mode
  /\ Step(c, "due")
  /\ UNCHANGED <<nvsVars, initVars, pending, due, clockVars>>

SetDeadline(c) ==
  /\ request[c].step = "due"
  /\ due' = (clock + Delay) % TickMod
  /\ age' = 0
  /\ Step(c, "none")
  /\ UNCHANGED <<nvsVars, initVars, pending, target, clock, now>>

RequestModeSwitch(c) ==
  \/ RequestOther(c)
  \/ Save(c) \/ SaveFails(c) \/ SetPending(c) \/ SetTarget(c) \/ SetDeadline(c)

-----------------------------------------------------------------------------
(***************************************************************************)
(* A pass of the input task ends in hid_transport_poll, which compares the *)
(* deadline with the reading of its beginning, as the numbers they are;    *)
(* then the next pass reads the clock.                                     *)
(***************************************************************************)
PassAge == (clock + TickMod - now) % TickMod

Tick ==
  /\ phase = "up" /\ PassAge < PassTicks
  /\ clock' = (clock + 1) % TickMod
  /\ age' = IF pending /\ age < Delay THEN age + 1 ELSE age
  /\ UNCHANGED <<nvsVars, initVars, switchVars, request, now>>

\* Fault: the deadline itself is too early.
Overdue == now > due

Due == now >= due

\* the input task is in its loop, not inside a request of its own
InputFree == phase = "up" /\ request["input"].step = "none"

PollWaits ==
  /\ InputFree
  /\ ~(pending /\ Due)
  /\ now' = clock
  /\ UNCHANGED <<nvsVars, initVars, switchVars, request, clock, age>>

PollRestart ==
  /\ InputFree
  /\ pending /\ Due
  /\ UNCHANGED resets
  /\ Restart

Next ==
  \/ Boot
  \/ \E c \in Callers : RequestModeSwitch(c)
  \/ Tick
  \/ PollWaits
  \/ PollRestart
  \/ Reset

(***************************************************************************)
(* The boot and the two tasks run, and time passes; nobody has to ask, and *)
(* a call that may fail need not.                                          *)
(***************************************************************************)
Fairness ==
  /\ WF_vars(Boot) /\ WF_vars(Tick)
  /\ WF_vars(PollWaits \/ PollRestart)
  /\ \A c \in Callers :
       WF_vars(Save(c) \/ SaveFails(c) \/ SetPending(c) \/ SetTarget(c) \/ SetDeadline(c))

SafetySpec == Init /\ [][Next]_vars
Spec == SafetySpec /\ Fairness

-----------------------------------------------------------------------------
(***************************************************************************)
(* The device is exactly one keyboard: when the init is through, the       *)
(* interface of its mode is there and the other one is not, whatever       *)
(* failed on the way (API-Reference.md:14, mutual exclusion).              *)
(***************************************************************************)
OneKeyboard ==
  phase = "up" => /\ bleReady <=> mode = "ble"
                  /\ usbHid <=> mode = "usb"

(***************************************************************************)
(* A switch that is announced is already stored: a reset at any moment     *)
(* from then on, not only the planned one, finds the new mode.             *)
(***************************************************************************)
CommittedBeforePending == pending /\ Persist => stored = Other(mode)

(***************************************************************************)
(* A switch that was granted is applied once nobody asks again (every new  *)
(* request moves the deadline): the device comes up in the other mode, or  *)
(* has tried and BLE or USB did not start; a reset from outside may come   *)
(* first.  The deadline must not be among the last ticks before the        *)
(* counter wraps, which one pass may skip: the poll compares the numbers,  *)
(* not their distance.                                                     *)
(***************************************************************************)
NobodyAsks == \A c \in Callers : request[c].step = "none"

PassMeetsDeadline == due + PassTicks <= TickMod

Applies ==
  \A m \in Modes, n \in 0..MaxResets :
    pending /\ stored = m /\ resets = n
      ~> \/ phase = "up" /\ (mode = m \/ bleFailed)
         \/ phase = "failed" \/ resets # n

SwitchApplies == <>[](NobodyAsks /\ (pending => PassMeetsDeadline)) => Applies

(***************************************************************************)
(* API-Reference.md:13, a request "schedules controlled reboot apply": the *)
(* same wherever the deadline falls.                                       *)
(***************************************************************************)
SwitchAlwaysApplies == <>[]NobodyAsks => Applies

(***************************************************************************)
(* Configuration.md:47: the restart comes a delay after the request.       *)
(***************************************************************************)
RestartNotEarly == [][PollRestart => age >= Delay]_vars
=============================================================================
