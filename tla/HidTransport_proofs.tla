------------------------ MODULE HidTransport_proofs ------------------------
(***************************************************************************)
(* Proofs about HidTransport, for every delay, every tick width, every     *)
(* configuration and every set of failing calls.                           *)
(***************************************************************************)
EXTENDS HidTransport, TLAPS

\* nobody can ask, and nothing is pending, before the init is through
QuietUntilUp ==
  phase # "up" => ~pending /\ \A c \in Callers : request[c] = Idle

\* how far the init has come, and what of the two keyboards is there by then
BootProgress ==
  /\ phase = "load" => ~bleReady /\ ~usbHid
  /\ phase = "ble" => ~bleReady /\ ~usbHid /\ mode = "ble"
  /\ phase = "usb" => ~usbHid /\ (bleReady <=> mode = "ble")

\* a request under way is for the other mode, and past its save that is stored
RequestsCommitted ==
  \A c \in Callers :
    /\ request[c].step # "none" => request[c].mode = Other(mode)
    /\ Persist /\ request[c].step \in {"flag", "target", "due"}
         => stored = Other(mode)

IInv ==
  /\ TypeOK
  /\ QuietUntilUp
  /\ BootProgress
  /\ RequestsCommitted
  /\ OneKeyboard
  /\ CommittedBeforePending

-----------------------------------------------------------------------------
\* Every tick count the code computes is one the counter can hold.
LEMMA TickRange == \A t \in Nat : t % TickMod \in 0..(TickMod - 1)
  <1>1. TickMod \in Nat \ {0}
    BY ClockAssumption
  <1> QED
    BY <1>1

LEMMA OtherMode == \A m \in Modes : Other(m) \in Modes /\ Other(m) # m
  BY DEF Modes, Other

LEMMA IdleIsRequest ==
  [c \in Callers |-> Idle] \in
    [Callers -> [step : {"none", "save", "flag", "target", "due"}, mode : Modes]]
  BY DEF Idle, Modes

LEMMA StartValues ==
  /\ 0 \in 0..MaxResets /\ 0 \in 0..(TickMod - 1) /\ 0 \in 0..Delay
  /\ DefaultMode \in Modes /\ "usb" \in Modes
  BY ModeAssumption, ClockAssumption DEF Modes

\* What a reset leaves satisfies the invariant, whatever was under way.
LEMMA RestartKeepsInvariant ==
  ASSUME IInv, Restart, resets' \in 0..MaxResets
  PROVE  IInv'
  <1> USE DEF IInv, Restart
  <1>1. request' \in [Callers -> [step : {"none", "save", "flag", "target", "due"},
                                  mode : Modes]]
    BY IdleIsRequest
  <1>2. \A c \in Callers : request'[c] = Idle
    OBVIOUS
  <1>3. TypeOK'
    BY <1>1, StartValues DEF TypeOK
  <1>4. QuietUntilUp'
    BY <1>2 DEF QuietUntilUp
  <1>5. BootProgress' /\ OneKeyboard' /\ CommittedBeforePending'
    BY DEF BootProgress, OneKeyboard, CommittedBeforePending
  <1>6. RequestsCommitted'
    BY <1>2 DEF RequestsCommitted, Idle
  <1> QED
    BY <1>3, <1>4, <1>5, <1>6

LEMMA InitEstablishesInvariant == Init => IInv
  <1> SUFFICES ASSUME Init PROVE IInv
    OBVIOUS
  <1> USE DEF Init
  <1>1. TypeOK
    BY IdleIsRequest, StartValues DEF TypeOK
  <1>2. QuietUntilUp /\ RequestsCommitted
    BY DEF QuietUntilUp, RequestsCommitted, Idle
  <1>3. BootProgress /\ OneKeyboard /\ CommittedBeforePending
    BY DEF BootProgress, OneKeyboard, CommittedBeforePending
  <1> QED
    BY <1>1, <1>2, <1>3 DEF IInv

-----------------------------------------------------------------------------
\* A step of hid_transport_init: nothing is asked for yet, so that only the
\* modes and the two keyboards are at stake.
LEMMA BootKeepsInvariant ==
  ASSUME IInv, Boot
  PROVE  IInv'
  <1> USE DEF IInv
  <1>0. phase \in {"load", "ble", "usb"} /\ ~pending /\ pending' = pending
        /\ request' = request /\ \A c \in Callers : request[c] = Idle
    BY DEF Boot, Load, BleInit, BleInitFails, UsbInit, QuietUntilUp, switchVars
  <1>1. QuietUntilUp' /\ RequestsCommitted' /\ CommittedBeforePending'
    BY <1>0 DEF QuietUntilUp, RequestsCommitted, CommittedBeforePending, Idle
  <1>2. CASE Load
    <2>1. mode' \in Modes
      BY <1>2, ModeAssumption DEF Load, Loaded, Supported, Modes, TypeOK
    <2>2. TypeOK'
      BY <1>2, <2>1 DEF Load, TypeOK, clockVars, nvsVars, switchVars
    <2>3. BootProgress' /\ OneKeyboard'
      BY <1>2, <2>1 DEF Load, BootProgress, OneKeyboard, Modes
    <2> QED
      BY <1>1, <2>2, <2>3
  <1>3. CASE BleInit
    <2>1. TypeOK'
      BY <1>3 DEF BleInit, TypeOK, clockVars, nvsVars, switchVars
    <2>2. BootProgress' /\ OneKeyboard'
      BY <1>3 DEF BleInit, BootProgress, OneKeyboard
    <2> QED
      BY <1>1, <2>1, <2>2
  <1>4. CASE BleInitFails
    <2>1. TypeOK'
      BY <1>4 DEF BleInitFails, TypeOK, clockVars, Modes, switchVars
    <2>2. BootProgress' /\ OneKeyboard'
      BY <1>4 DEF BleInitFails, BootProgress, OneKeyboard
    <2> QED
      BY <1>1, <2>1, <2>2
  <1>5. CASE UsbInit
    <2>1. TypeOK'
      BY <1>5 DEF UsbInit, TypeOK, clockVars, nvsVars, switchVars
    <2>2. BootProgress' /\ OneKeyboard'
      BY <1>5 DEF UsbInit, BootProgress, OneKeyboard, TypeOK, Modes
    <2> QED
      BY <1>1, <2>1, <2>2
  <1> QED
    BY <1>2, <1>3, <1>4, <1>5 DEF Boot

-----------------------------------------------------------------------------
\* A step of a request, in either task: the mode itself does not change.
LEMMA RequestKeepsInvariant ==
  ASSUME IInv, NEW c \in Callers, RequestModeSwitch(c)
  PROVE  IInv'
  <1> USE DEF IInv
  <1>1. phase = "up" /\ UNCHANGED initVars
    BY DEF RequestModeSwitch, RequestOther, Save, SaveFails,
           SetPending, SetTarget, SetDeadline, QuietUntilUp, Idle
  <1>2. QuietUntilUp' /\ BootProgress' /\ OneKeyboard'
    BY <1>1 DEF initVars, QuietUntilUp, BootProgress, OneKeyboard
  <1>3. request[c] \in [step : {"none", "save", "flag", "target", "due"}, mode : Modes]
        /\ mode \in Modes /\ Other(mode) \in Modes
    BY OtherMode DEF TypeOK
  <1>4. CASE RequestOther(c)
    <2>1. TypeOK'
      BY <1>4, <1>3 DEF RequestOther, TypeOK, clockVars, nvsVars, initVars, switchVars
    <2>2. CommittedBeforePending'
      BY <1>4 DEF RequestOther, CommittedBeforePending, nvsVars, initVars, switchVars
    <2>3. RequestsCommitted'
      BY <1>4 DEF RequestOther, RequestsCommitted, TypeOK, nvsVars, initVars
    <2> QED
      BY <1>2, <2>1, <2>2, <2>3
  <1>5. CASE Save(c)
    <2>1. stored' = Other(mode) /\ mode' = mode
      BY <1>5, <1>1 DEF Save, RequestsCommitted, initVars
    <2>2. TypeOK'
      BY <1>5, <1>3, <2>1 DEF Save, Step, TypeOK, clockVars, initVars, switchVars
    <2>3. RequestsCommitted' /\ CommittedBeforePending'
      BY <1>5, <2>1 DEF Save, Step, RequestsCommitted, CommittedBeforePending, TypeOK
    <2> QED
      BY <1>2, <2>2, <2>3
  <1>6. CASE SaveFails(c)
    <2>1. stored' \in {stored, Other(mode)} /\ mode' = mode /\ pending' = pending
      BY <1>6, <1>1 DEF SaveFails, RequestsCommitted, initVars, switchVars
    <2>2. TypeOK'
      BY <1>6, <1>3, <2>1 DEF SaveFails, Step, TypeOK, clockVars, initVars, switchVars
    <2>3. RequestsCommitted' /\ CommittedBeforePending'
      BY <1>6, <2>1 DEF SaveFails, Step, RequestsCommitted, CommittedBeforePending, TypeOK
    <2> QED
      BY <1>2, <2>2, <2>3
  <1>7. CASE SetPending(c)
    <2>1. TypeOK'
      BY <1>7, <1>3 DEF SetPending, Step, TypeOK, clockVars, nvsVars, initVars
    <2>2. RequestsCommitted' /\ CommittedBeforePending'
      BY <1>7 DEF SetPending, Step, RequestsCommitted, CommittedBeforePending, TypeOK,
                  nvsVars, initVars
    <2> QED
      BY <1>2, <2>1, <2>2
  <1>8. CASE SetTarget(c)
    <2>1. TypeOK'
      BY <1>8, <1>3 DEF SetTarget, Step, TypeOK, clockVars, nvsVars, initVars
    <2>2. RequestsCommitted' /\ CommittedBeforePending'
      BY <1>8 DEF SetTarget, Step, RequestsCommitted, CommittedBeforePending, TypeOK,
                  nvsVars, initVars
    <2> QED
      BY <1>2, <2>1, <2>2
  <1>9. CASE SetDeadline(c)
    <2>1. clock + Delay \in Nat
      BY ClockAssumption DEF TypeOK
    <2>2. due' \in 0..(TickMod - 1) /\ age' \in 0..Delay
      BY <1>9, <2>1, TickRange, ClockAssumption DEF SetDeadline
    <2>3. TypeOK'
      BY <1>9, <1>3, <2>2 DEF SetDeadline, Step, TypeOK, nvsVars, initVars
    <2>4. RequestsCommitted' /\ CommittedBeforePending'
      BY <1>9 DEF SetDeadline, Step, RequestsCommitted, CommittedBeforePending, TypeOK,
                   nvsVars, initVars
    <2> QED
      BY <1>2, <2>3, <2>4
  <1> QED
    BY <1>4, <1>5, <1>6, <1>7, <1>8, <1>9 DEF RequestModeSwitch

-----------------------------------------------------------------------------
LEMMA TickKeepsInvariant ==
  ASSUME IInv, Tick
  PROVE  IInv'
  <1> USE DEF IInv
  <1>1. clock' \in 0..(TickMod - 1)
    BY TickRange, ClockAssumption DEF Tick, TypeOK
  <1>2. age' \in 0..Delay
    BY ClockAssumption DEF Tick, TypeOK
  <1>3. TypeOK'
    BY <1>1, <1>2 DEF Tick, TypeOK, nvsVars, initVars, switchVars
  <1>4. QuietUntilUp' /\ BootProgress' /\ OneKeyboard'
    BY DEF Tick, QuietUntilUp, BootProgress, OneKeyboard, initVars, switchVars
  <1>5. RequestsCommitted' /\ CommittedBeforePending'
    BY DEF Tick, RequestsCommitted, CommittedBeforePending, nvsVars, initVars, switchVars
  <1> QED
    BY <1>3, <1>4, <1>5

LEMMA PollKeepsInvariant ==
  ASSUME IInv, PollWaits
  PROVE  IInv'
  <1> USE DEF IInv
  <1>1. TypeOK'
    BY DEF PollWaits, TypeOK, nvsVars, initVars, switchVars
  <1>2. QuietUntilUp' /\ BootProgress' /\ OneKeyboard'
    BY DEF PollWaits, QuietUntilUp, BootProgress, OneKeyboard, initVars, switchVars
  <1>3. RequestsCommitted' /\ CommittedBeforePending'
    BY DEF PollWaits, RequestsCommitted, CommittedBeforePending, nvsVars, initVars,
           switchVars
  <1> QED
    BY <1>1, <1>2, <1>3

LEMMA StepKeepsInvariant == IInv /\ [Next]_vars => IInv'
  <1> SUFFICES ASSUME IInv, [Next]_vars PROVE IInv'
    OBVIOUS
  <1>1. CASE Boot
    BY <1>1, BootKeepsInvariant
  <1>2. CASE \E c \in Callers : RequestModeSwitch(c)
    BY <1>2, RequestKeepsInvariant
  <1>3. CASE Tick \/ PollWaits
    BY <1>3, TickKeepsInvariant, PollKeepsInvariant
  <1>4. CASE PollRestart
    <2>1. Restart /\ resets' \in 0..MaxResets
      BY <1>4 DEF PollRestart, IInv, TypeOK
    <2> QED
      BY <2>1, RestartKeepsInvariant
  <1>5. CASE Reset
    <2>1. Restart /\ resets' \in 0..MaxResets
      BY <1>5, ClockAssumption DEF Reset, IInv, TypeOK
    <2> QED
      BY <2>1, RestartKeepsInvariant
  <1>6. CASE UNCHANGED vars
    BY <1>6 DEF IInv, TypeOK, QuietUntilUp, BootProgress, RequestsCommitted, OneKeyboard,
                CommittedBeforePending, vars, nvsVars, initVars, switchVars, clockVars
  <1> QED
    BY <1>1, <1>2, <1>3, <1>4, <1>5, <1>6 DEF Next

(***************************************************************************)
(* The invariant holds in every behaviour, fair or not.                    *)
(***************************************************************************)
THEOREM InvariantHolds == SafetySpec => []IInv
  BY InitEstablishesInvariant, StepKeepsInvariant, PTL DEF SafetySpec

(***************************************************************************)
(* Every variable has its type: the tick counts stay within the width of   *)
(* TickType_t (hid_transport.c:126 and :211).                              *)
(***************************************************************************)
THEOREM TypeCorrect == SafetySpec => []TypeOK
  BY InvariantHolds, PTL DEF IInv

(***************************************************************************)
(* The device is exactly one keyboard once the init is through, whichever  *)
(* calls failed (hid_transport.c:40-114).                                  *)
(***************************************************************************)
THEOREM ExactlyOneKeyboard == SafetySpec => []OneKeyboard
  BY InvariantHolds, PTL DEF IInv

(***************************************************************************)
(* A switch that is announced is already stored, with requests of two      *)
(* tasks interleaved store by store (hid_transport.c:189-214).             *)
(***************************************************************************)
THEOREM SwitchIsCommitted == SafetySpec => []CommittedBeforePending
  BY InvariantHolds, PTL DEF IInv
=============================================================================
