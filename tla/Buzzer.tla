-------------------------------- MODULE Buzzer --------------------------------
(***************************************************************************)
(* main/buzzer.c: the ring of tones, the tone that sounds, and the melody  *)
(* that is streamed into the ring at startup.                              *)
(*                                                                         *)
(* buzzer_update and the event helpers run in the input task;              *)
(* buzzer_set_enabled and the beeps of a layer change also in the web      *)
(* server's, without a lock: their steps fall between each other's.  What  *)
(* a ring is worth when calls that change it have overlapped, at a finer   *)
(* grain than the steps here, is anybody's guess; crossed keeps track of   *)
(* that, and nothing but the types of the indices is claimed until the     *)
(* ring is cleared again by a call that nothing disturbs.                  *)
(*                                                                         *)
(* A tone is what the phases depend on; frequencies, RTTTL's syntax and    *)
(* durations are left out, and a phase ends when it likes.                 *)
(***************************************************************************)
EXTENDS Naturals, Sequences

CONSTANTS BuzzerSize, \* MACRO_BUZZER_QUEUE_SIZE
          Melodies,   \* the tones of each event's melody
          ToggleOffTune, \* MACRO_BUZZER_RTTTL_TOGGLE_OFF is not empty
          Bytes       \* the values of a uint8_t: 256

Tones == [rest : BOOLEAN, gap : BOOLEAN, of : DOMAIN Melodies]

ASSUME BuzzerAssumption ==
  /\ BuzzerSize \in Nat \ {0}
  /\ ToggleOffTune \in BOOLEAN
  /\ Bytes \in Nat /\ Bytes > BuzzerSize
  /\ {"startup", "key", "layer", "encoder", "on", "off"} = DOMAIN Melodies
  /\ \A e \in DOMAIN Melodies : Melodies[e] \in Seq(Tones)

VARIABLES
  ring, ringHead, ringTail, ringCount, \* s_queue and its indices
  tone,            \* s_current_tone
  toneActive, silenceActive, \* s_tone_active, s_silence_active
  phaseOver,       \* s_phase_deadline is reached
  enabled,         \* s_runtime_enabled
  disableWhenIdle, \* s_disable_when_idle
  stream,          \* notes of s_startup_stream_cursor, if s_startup_stream_active
  output,          \* the buzzer sounds
  update,          \* where buzzer_update is: before a tone is taken, or started
  thenIdle,        \* whether this update looks for the end of the last tone
  booting,         \* app_main has yet to come to buzzer_play_startup
  disabling,       \* where buzzer_set_enabled(false) of the web server is
  beep,            \* what the web server's queue_push has read, if it is in one
  queued,          \* history: the tones in the ring, unless crossed
  crossed          \* history: calls of both tasks that change the ring have overlapped

tonesVars == <<ring, ringHead, ringTail, ringCount, queued>>
phaseVars == <<tone, toneActive, silenceActive, phaseOver, output>>
modeVars == <<enabled, disableWhenIdle, stream>>
stepVars == <<update, thenIdle, booting, disabling, beep>>
buzzerVars == <<tonesVars, phaseVars, modeVars, stepVars, crossed>>

Slots == 0..(BuzzerSize - 1)
NoTone == [rest |-> TRUE, gap |-> FALSE, of |-> "startup"]

\* a uint8_t
Byte(n) == n % Bytes

NoBeep == [reads |-> FALSE, tail |-> 0, count |-> 0]

BuzzerTypeOK ==
  /\ ring \in [Slots -> Tones]
  /\ ringHead \in Slots /\ ringTail \in Slots /\ ringCount \in 0..(Bytes - 1)
  /\ tone \in Tones
  /\ toneActive \in BOOLEAN /\ silenceActive \in BOOLEAN /\ phaseOver \in BOOLEAN
  /\ enabled \in BOOLEAN /\ disableWhenIdle \in BOOLEAN /\ output \in BOOLEAN
  /\ stream \in Seq(Tones)
  /\ update \in {"none", "take", "start"} /\ thenIdle \in BOOLEAN
  /\ booting \in BOOLEAN /\ disabling \in {"none", "clear", "silence"}
  /\ beep \in [reads : BOOLEAN, tail : Slots, count : 0..(Bytes - 1)]
  /\ queued \in Seq(Tones) /\ crossed \in BOOLEAN

\* after buzzer_init
BuzzerInit ==
  /\ ring = [i \in Slots |-> NoTone]
  /\ ringHead = 0 /\ ringTail = 0 /\ ringCount = 0 /\ queued = <<>>
  /\ tone = NoTone /\ toneActive = FALSE /\ silenceActive = FALSE
  /\ phaseOver = FALSE /\ output = FALSE
  /\ enabled = TRUE /\ disableWhenIdle = FALSE /\ stream = <<>>
  /\ update = "none" /\ thenIdle = FALSE
  /\ booting = TRUE /\ disabling = "none" /\ beep = NoBeep /\ crossed = FALSE

\* the input task, or the web server's, is between two calls
InputFree == ~booting /\ update = "none"
WebFree == ~booting /\ disabling = "none" /\ ~beep.reads

\* a step of the input task falls into a call of the web server's, or the other
\* way round
WebIsBusy == disabling # "none" \/ beep.reads
InputCrosses == crossed' = (crossed \/ WebIsBusy)
WebCrosses == crossed' = (crossed \/ update # "none")

-----------------------------------------------------------------------------
(***************************************************************************)
(* The ring.  A melody that does not fit is cut off.                       *)
(***************************************************************************)
RingRoom(count) == IF count < BuzzerSize THEN BuzzerSize - count ELSE 0

Fitting(tones, count) ==
  SubSeq(tones, 1, IF Len(tones) < RingRoom(count) THEN Len(tones) ELSE RingRoom(count))

\* slots that tones, put in from slot tail on, go to
Filled(tones, tail) ==
  [i \in Slots |->
     LET k == ((i + BuzzerSize - tail) % BuzzerSize) + 1 IN
     IF k <= Len(tones) THEN tones[k] ELSE ring[i]]

\* tail and count: the indices as the caller has read them
QueuePushAt(tones, tail, count) ==
  LET fitting == Fitting(tones, count) IN
    /\ ring' = Filled(fitting, tail)
    /\ ringTail' = (tail + Len(fitting)) % BuzzerSize
    /\ ringCount' = count + Len(fitting)
    /\ queued' = IF crossed' THEN <<>> ELSE queued \o fitting
    /\ UNCHANGED ringHead

QueuePush(tones) == InputCrosses /\ QueuePushAt(tones, ringTail, ringCount)

\* Fault: the tail stays where it is.
QueueClearTail ==
  /\ ringHead' = 0 /\ ringCount' = 0
  /\ queued' = <<>>
  /\ UNCHANGED <<ring, ringTail>>

QueueClear ==
  /\ ringHead' = 0 /\ ringTail' = 0 /\ ringCount' = 0
  /\ queued' = <<>>
  /\ UNCHANGED ring

\* queue_pop, after it has found the ring not to be empty
QueuePop ==
  /\ tone' = ring[ringHead]
  /\ ringHead' = (ringHead + 1) % BuzzerSize
  /\ ringCount' = Byte(ringCount + Bytes - 1)
  /\ queued' = IF crossed' \/ queued = <<>> THEN <<>> ELSE Tail(queued)
  /\ UNCHANGED <<ring, ringTail>>

-----------------------------------------------------------------------------
(***************************************************************************)
(* The event helpers: buzzer_play_rtttl for a melody of the configuration. *)
(***************************************************************************)
Plays == enabled /\ ~disableWhenIdle

PlayRtttl(event) ==
  /\ Plays
  /\ QueuePush(Melodies[event])
  /\ UNCHANGED <<phaseVars, modeVars, stepVars>>

PlayKeypress == InputFree /\ PlayRtttl("key")
PlayLayerSwitch == InputFree /\ PlayRtttl("layer")

\* the time since the last one is left out
PlayEncoderStep == InputFree /\ ringCount = 0 /\ PlayRtttl("encoder")

\* the web server's layer change: queue_push reads the indices and writes them
WebBeepReads ==
  /\ WebFree /\ Plays
  /\ beep' = [reads |-> TRUE, tail |-> ringTail, count |-> ringCount]
  /\ WebCrosses
  /\ UNCHANGED <<tonesVars, phaseVars, modeVars, update, thenIdle, booting, disabling>>

WebBeepWrites ==
  /\ beep.reads
  /\ WebCrosses
  /\ QueuePushAt(Melodies["layer"], beep.tail, beep.count)
  /\ beep' = NoBeep
  /\ UNCHANGED <<phaseVars, modeVars, update, thenIdle, booting, disabling>>

\* unless MACRO_BUZZER_STARTUP_ENABLED is false
PlayStartup ==
  /\ booting /\ booting' = FALSE
  /\ \E tones \in {<<>>, Melodies["startup"]} :
       /\ QueuePush(tones)
       /\ stream' = SubSeq(tones, Len(Fitting(tones, ringCount)) + 1, Len(tones))
  /\ UNCHANGED <<phaseVars, enabled, disableWhenIdle, update, thenIdle, disabling, beep>>

-----------------------------------------------------------------------------
(***************************************************************************)
(* buzzer_update.                                                          *)
(***************************************************************************)
PhaseEnds ==
  /\ (toneActive \/ silenceActive) /\ ~phaseOver
  /\ phaseOver' = TRUE
  /\ UNCHANGED <<tonesVars, tone, toneActive, silenceActive, output, modeVars, stepVars,
                 crossed>>

\* buzzer_feed_startup_stream
FeedStream ==
  /\ QueuePush(stream)
  /\ stream' = SubSeq(stream, Len(Fitting(stream, ringCount)) + 1, Len(stream))

\* Fault: that the last tone is over is seen only where a silence ends.
GoOnAfterSilence(checksIdle) ==
  /\ thenIdle' = (checksIdle /\ silenceActive)
  /\ update' = "take"

\* the next step of the update, buzzer_start_next_tone
GoOn(checksIdle) ==
  /\ thenIdle' = checksIdle
  /\ update' = "take"

Update ==
  /\ InputFree /\ (enabled \/ disableWhenIdle)
  /\ FeedStream
  /\ \/ /\ ~toneActive /\ ~silenceActive
        /\ GoOn(TRUE)
        /\ UNCHANGED phaseVars
     \/ /\ toneActive /\ phaseOver
        /\ output' = FALSE /\ toneActive' = FALSE
        /\ IF tone.gap
             THEN silenceActive' = TRUE /\ phaseOver' = FALSE
                  /\ UNCHANGED <<update, thenIdle>>
             ELSE GoOn(FALSE) /\ UNCHANGED <<silenceActive, phaseOver>>
        /\ UNCHANGED tone
     \/ /\ ~toneActive /\ silenceActive /\ phaseOver
        /\ silenceActive' = FALSE
        /\ GoOn(TRUE)
        /\ UNCHANGED <<tone, toneActive, phaseOver, output>>
     \/ /\ toneActive \/ silenceActive
        /\ ~phaseOver
        /\ UNCHANGED <<phaseVars, update, thenIdle>>
  /\ UNCHANGED <<enabled, disableWhenIdle, booting, disabling, beep>>

Idle == thenIdle /\ disableWhenIdle

\* buzzer_start_next_tone finds the ring empty
TakeNothing ==
  /\ update = "take" /\ ringCount = 0
  /\ update' = "none"
  /\ enabled' = (enabled /\ ~Idle) /\ disableWhenIdle' = (disableWhenIdle /\ ~Idle)
  /\ output' = (output /\ ~Idle)
  /\ InputCrosses
  /\ UNCHANGED <<tonesVars, tone, toneActive, silenceActive, phaseOver, stream, thenIdle,
                 booting, disabling, beep>>

Take ==
  /\ update = "take" /\ ringCount > 0
  /\ update' = "start"
  /\ InputCrosses
  /\ UNCHANGED <<tonesVars, phaseVars, modeVars, thenIdle, booting, disabling, beep>>

\* the tone, a rest, or the failure to set its frequency
StartTone ==
  /\ update = "start"
  /\ InputCrosses /\ QueuePop
  /\ \E works \in BOOLEAN :
       /\ toneActive' = (~tone'.rest /\ works)
       /\ silenceActive' = tone'.rest
       /\ output' = (output \/ toneActive')
  /\ phaseOver' = FALSE
  /\ update' = "none"
  /\ LET over == Idle /\ ringCount' = 0 /\ ~toneActive' /\ ~silenceActive' IN
       /\ enabled' = (enabled /\ ~over)
       /\ disableWhenIdle' = (disableWhenIdle /\ ~over)
  /\ UNCHANGED <<stream, thenIdle, booting, disabling, beep>>

-----------------------------------------------------------------------------
(***************************************************************************)
(* Enabling and disabling.                                                 *)
(***************************************************************************)
\* buzzer_toggle_enabled, by the encoder: off, with a tune if there is one
\* and the ring has room for it
ToggleOff ==
  /\ InputFree /\ enabled /\ ~disableWhenIdle
  /\ LET tune == IF ToggleOffTune THEN Melodies["off"] ELSE <<>>
         fitting == Fitting(tune, 0) IN
       /\ ring' = Filled(fitting, 0)
       /\ ringHead' = 0 /\ ringTail' = Len(fitting) % BuzzerSize
       /\ ringCount' = Len(fitting)
       /\ crossed' = WebIsBusy
       /\ queued' = IF crossed' THEN <<>> ELSE fitting
       /\ disableWhenIdle' = (ToggleOffTune /\ fitting = tune)
       /\ enabled' = disableWhenIdle'
  /\ toneActive' = FALSE /\ silenceActive' = FALSE /\ output' = FALSE
  /\ stream' = <<>>
  /\ UNCHANGED <<tone, phaseOver, stepVars>>

ToggleOn ==
  /\ InputFree /\ (~enabled \/ disableWhenIdle)
  /\ enabled' = TRUE /\ disableWhenIdle' = FALSE
  /\ QueuePush(Melodies["on"])
  /\ UNCHANGED <<phaseVars, stream, stepVars>>

\* buzzer_set_enabled, by the web server
SetEnabled ==
  /\ WebFree
  /\ enabled' = TRUE /\ disableWhenIdle' = FALSE
  /\ UNCHANGED <<tonesVars, phaseVars, stream, stepVars, crossed>>

SetDisabled ==
  /\ WebFree
  /\ enabled' = FALSE /\ disableWhenIdle' = FALSE
  /\ disabling' = "clear"
  /\ WebCrosses
  /\ UNCHANGED <<tonesVars, phaseVars, stream, update, thenIdle, booting, beep>>

\* buzzer_stop
StopClears ==
  /\ disabling = "clear"
  /\ QueueClear
  /\ toneActive' = FALSE /\ silenceActive' = FALSE /\ disableWhenIdle' = FALSE
  /\ stream' = <<>> /\ tone' = NoTone
  /\ disabling' = "silence"
  /\ crossed' = (update # "none")
  /\ UNCHANGED <<phaseOver, output, enabled, update, thenIdle, booting, beep>>

\* Fault: a tone that sounds is left to end by itself.
StopSoftly ==
  /\ disabling = "silence"
  /\ disabling' = "none"
  /\ WebCrosses
  /\ UNCHANGED <<tonesVars, phaseVars, modeVars, update, thenIdle, booting, beep>>

StopSilences ==
  /\ disabling = "silence"
  /\ output' = FALSE
  /\ disabling' = "none"
  /\ WebCrosses
  /\ UNCHANGED <<tonesVars, tone, toneActive, silenceActive, phaseOver, modeVars, update,
                 thenIdle, booting, beep>>

SetEnabledFalse == SetDisabled \/ StopClears \/ StopSilences

BuzzerUpdate == Update \/ TakeNothing \/ Take \/ StartTone

BuzzerNext ==
  \/ PlayKeypress \/ PlayLayerSwitch \/ PlayEncoderStep \/ PlayStartup
  \/ WebBeepReads \/ WebBeepWrites
  \/ PhaseEnds \/ BuzzerUpdate
  \/ ToggleOff \/ ToggleOn
  \/ SetEnabled \/ SetEnabledFalse

\* time passes, the input task updates and the web server's goes on
BuzzerFairness ==
  /\ WF_buzzerVars(PhaseEnds) /\ WF_buzzerVars(BuzzerUpdate)
  /\ WF_buzzerVars(StopClears \/ StopSilences \/ WebBeepWrites)

BuzzerSafetySpec == BuzzerInit /\ [][BuzzerNext]_buzzerVars
BuzzerSpec == BuzzerSafetySpec /\ BuzzerFairness

-----------------------------------------------------------------------------
(***************************************************************************)
(* API-Reference.md:132, 129: between two calls, a buzzer that is disabled *)
(* is silent, and it sounds only while a phase runs that will end it: no   *)
(* sequence of calls leaves a tone on that no update will turn off.  After *)
(* calls that overlapped, this holds again once the buzzer was disabled by *)
(* a call that was left alone.                                             *)
(***************************************************************************)
SilentWhenDisabled ==
  update = "none" /\ disabling = "none" /\ ~crossed => (output => enabled /\ toneActive)

(***************************************************************************)
(* The same to the letter of API-Reference.md:132, whatever overlapped:    *)
(* the code's buzzer can be disabled and sound.                            *)
(***************************************************************************)
AlwaysSilent == update = "none" /\ disabling = "none" => (output => enabled)

(***************************************************************************)
(* The ring is the queue of the tones put in and not yet started: none is  *)
(* lost, played twice or out of order, wherever the indices are.  After    *)
(* calls that overlapped, it is one again once it was cleared by a call    *)
(* that was left alone.                                                    *)
(***************************************************************************)
RingIsQueue ==
  ~crossed /\ disabling = "none" =>
    /\ ringCount = Len(queued)
    /\ \A k \in 1..Len(queued) : ring[(ringHead + k - 1) % BuzzerSize] = queued[k]

(***************************************************************************)
(* Every tone ends, but for one that overlapping calls have left on in a   *)
(* buzzer that is disabled; and once it was turned off with a tune, the    *)
(* buzzer is disabled when that tune is over, unless it is turned on again.*)
(***************************************************************************)
TonesEnd ==
  /\ output ~> ~output \/ (crossed /\ ~enabled)
  /\ disableWhenIdle ~> ~disableWhenIdle
=============================================================================
