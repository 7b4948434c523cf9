---------------------------- MODULE TouchSlider ----------------------------
(***************************************************************************)
(* touch_slider.c: two touch pads whose deltas are followed from pass to   *)
(* pass of the input task, until a contact has gone from one side to the   *)
(* other: a gesture, whose usage is sent and, on some layers, repeated     *)
(* while the finger stays.                                                 *)
(*                                                                         *)
(* A sample is the pads' distance from their baselines; the adaptation of  *)
(* the baselines and of the noise floor is left out.  Ticks begin with 1,  *)
(* so that 0 is "not yet", as it is in the code.                           *)
(***************************************************************************)
EXTENDS Integers, Sequences

Sides == {"left", "right"}
Opposite(s) == IF s = "left" THEN "right" ELSE "left"

CONSTANTS
  Samples,  \* deltas the two pads may show
  NoiseFloor, TriggerDelta, ReleaseDelta, ContactTotal, ContactSide, \* in deltas
  VisitDelta, VisitPercent, DominanceDelta, TravelDelta,             \* in deltas
  SequenceMin, ReorderMax, BothHold, StartDominant, MinSwipe,        \* in ticks
  MinInterval, IdleReset,                                            \* in ticks
  RequireBoth, \* MACRO_TOUCH_REQUIRE_BOTH_SIDES
  LayerTouch,  \* g_touch_layer_config
  MaxTouchTicks \* bound of the model: the clock

ASSUME TouchAssumption ==
  /\ Samples \subseteq [Sides -> Nat] /\ RequireBoth \in BOOLEAN
  /\ {NoiseFloor, TriggerDelta, ReleaseDelta, ContactTotal, ContactSide, VisitDelta,
      VisitPercent, DominanceDelta, TravelDelta, SequenceMin, ReorderMax, BothHold,
      StartDominant, MinSwipe, MinInterval, IdleReset, MaxTouchTicks} \subseteq Nat
  /\ SequenceMin # 0 /\ MaxTouchTicks # 0
  /\ \A l \in DOMAIN LayerTouch : LayerTouch[l] \in
       [usage : [Sides -> Nat], repeats : [Sides -> BOOLEAN], start : Nat, every : Nat]

VARIABLES
  tick,        \* the tick the pass began with
  touchLayer,  \* s_active_layer
  padOn,       \* s_touch_left_active, s_touch_right_active
  sensorTick,  \* s_touch_last_sensor_active_tick
  session,     \* the contact: s_touch_session_active and what goes with it
  hold,        \* s_touch_hold_*
  lastGesture, \* s_touch_last_gesture_tick
  sent,        \* what the last pass sent
  contact      \* history of the contact: see NoContact

touchVars ==
  <<tick, touchLayer, padOn, sensorTick, session, hold, lastGesture, sent, contact>>

NoSession ==
  [active |-> FALSE, seen |-> [s \in Sides |-> 0], both |-> 0, opposite |-> 0,
   dominant |-> 0, start |-> 0, side |-> "none", fired |-> FALSE, filtered |-> 0,
   origin |-> 0]

NoHold == [on |-> FALSE, side |-> "none", usage |-> 0, next |-> 0]

\* leant: the first tick the finger was nearer to a side; crossed: the last one it
\* was clearly there; visited: the sides it has been on; sided: it began on one side;
\* ambiguous: it began on both alike; smooth: the balance, filtered throughout;
\* gestures: their number
NoContact ==
  [leant |-> [s \in Sides |-> 0], crossed |-> [s \in Sides |-> 0], visited |-> {},
   sided |-> FALSE, ambiguous |-> FALSE, smooth |-> 0, gestures |-> 0]

\* the order given to visits may put one of them ahead of the clock
Clock == Nat

TouchTypeOK ==
  /\ tick \in 1..MaxTouchTicks /\ touchLayer \in DOMAIN LayerTouch
  /\ padOn \in [Sides -> BOOLEAN] /\ sensorTick \in Clock /\ lastGesture \in Clock
  /\ session \in [active : BOOLEAN, seen : [Sides -> Clock], both : Clock,
                  opposite : Clock, dominant : Clock, start : Clock,
                  side : Sides \cup {"none"}, fired : BOOLEAN, filtered : Int,
                  origin : Int]
  /\ ~session.active => session = NoSession
  /\ hold \in [on : BOOLEAN, side : Sides \cup {"none"}, usage : Nat, next : Nat]
  /\ sent \in Seq([what : {"gesture", "repeat"}, usage : Nat, from : Sides])

TouchInit ==
  /\ tick = 1 /\ touchLayer \in DOMAIN LayerTouch
  /\ padOn = [s \in Sides |-> FALSE] /\ sensorTick = 0
  /\ session = NoSession /\ hold = NoHold /\ lastGesture = 0
  /\ sent = <<>> /\ contact = NoContact
-----------------------------------------------------------------------------
(***************************************************************************)
(* A sample.                                                               *)
(***************************************************************************)
\* touch_is_active: with hysteresis, on the bare delta
PadsOn(raw) ==
  [s \in Sides |-> raw[s] >= IF padOn[s] THEN ReleaseDelta ELSE TriggerDelta]

\* touch_apply_noise_comp
Above(raw) == [s \in Sides |-> IF raw[s] > NoiseFloor THEN raw[s] - NoiseFloor ELSE 0]

Balance(d) == d["right"] - d["left"]

DominantSide(balance) ==
  IF balance <= -DominanceDelta THEN "left"
  ELSE IF balance >= DominanceDelta THEN "right" ELSE "none"

\* the division of C truncates towards zero
Filtered(old, balance) ==
  LET sum == 3 * old + balance IN IF sum >= 0 THEN sum \div 4 ELSE -((-sum) \div 4)

Visits(d, s) ==
  d[s] >= VisitDelta /\ d[s] * 100 >= d[Opposite(s)] * VisitPercent

InContact(d) ==
  d["left"] + d["right"] >= ContactTotal \/ \E s \in Sides : d[s] >= ContactSide

SensorTick(raw) == IF \E s \in Sides : PadsOn(raw)[s] THEN tick ELSE sensorTick

\* pads that have been off for long are noise, whatever their deltas say
IdleTooLong(raw) ==
  LET since == IF SensorTick(raw) # 0 THEN SensorTick(raw) ELSE session.start
  IN since # 0 /\ tick - since >= IdleReset

TouchEngaged(raw) ==
  /\ InContact(Above(raw))
  /\ \/ \E s \in Sides : PadsOn(raw)[s]
     \/ session.active /\ ~IdleTooLong(raw)
-----------------------------------------------------------------------------
(***************************************************************************)
(* The session, step by step.                                              *)
(***************************************************************************)
BothSeen(seen) == \A s \in Sides : seen[s] # 0

\* the sides visited, and when
Visited(s, d) ==
  LET seen == [x \in Sides |-> IF s.seen[x] = 0 /\ Visits(d, x) THEN tick ELSE s.seen[x]]
  IN [s EXCEPT !.seen = seen, !.both = IF BothSeen(seen) /\ @ = 0 THEN tick ELSE @]

\* the start side was visited first, whatever the ticks say
Reordered(seen, side) ==
  IF /\ side # "none" /\ BothSeen(seen)
     /\ seen[side] - seen[Opposite(side)] \in 0..ReorderMax
  THEN [seen EXCEPT ![Opposite(side)] = seen[side] + SequenceMin]
  ELSE seen

OnlySeen(seen, side) == seen[side] # 0 /\ seen[Opposite(side)] = 0

\* one side was visited, and the other one some time later
Sequenced(seen, side) ==
  /\ BothSeen(seen) /\ seen[Opposite(side)] > seen[side]
  /\ seen[Opposite(side)] - seen[side] >= SequenceMin

FirstSide(s, d) ==
  IF \E x \in Sides : OnlySeen(s.seen, x) THEN CHOOSE x \in Sides : OnlySeen(s.seen, x)
  ELSE DominantSide(Balance(d))

Begun(s, d) ==
  LET side == FirstSide(s, d)
  IN [s EXCEPT !.active = TRUE, !.filtered = Balance(d), !.origin = Balance(d),
               !.start = tick, !.opposite = 0, !.side = side, !.fired = FALSE,
               !.dominant = IF side # "none" THEN tick ELSE 0,
               !.seen = Reordered(@, side)]

\* the start side, when the contact began on none
SideChosen(s) ==
  LET Is(x) == OnlySeen(s.seen, x) \/ Sequenced(s.seen, x)
      side == IF s.side # "none" \/ ~\E x \in Sides : Is(x) THEN s.side
              ELSE CHOOSE x \in Sides : Is(x)
  IN IF s.side # "none" THEN s
     ELSE [s EXCEPT !.side = side, !.seen = Reordered(@, side),
                    !.dominant = IF side # "none" /\ @ = 0 THEN tick ELSE @]

\* the filtered balance, and since when it is on the start side, and on the other
Balanced(s, d) ==
  LET filtered == Filtered(s.filtered, Balance(d))
      side == DominantSide(filtered)
  IN [s EXCEPT !.filtered = filtered,
               !.dominant = IF @ = 0 /\ s.side # "none" /\ side = s.side THEN tick ELSE @,
               !.opposite = IF s.side = "none" \/ side # Opposite(s.side) THEN 0
                            ELSE IF @ = 0 THEN tick ELSE @]

StartSettled(s) ==
  s.side = "none" \/ (s.dominant # 0 /\ tick - s.dominant >= StartDominant)

\* a start side that has not lasted gives way to the other one
Flipped(s) ==
  LET side == DominantSide(s.filtered)
  IN IF /\ ~StartSettled(s) /\ side # "none"
        /\ s.opposite # 0 /\ tick - s.opposite >= StartDominant
     THEN [s EXCEPT !.side = side, !.dominant = tick, !.opposite = 0,
                    !.seen = Reordered(@, side)]
     ELSE s

Travelled(s, from) ==
  IF from = "left" THEN s.filtered - s.origin >= TravelDelta
  ELSE s.origin - s.filtered >= TravelDelta

\* a session that is flipped is not stable, so it has not crossed
CrossedFrom(s, from) ==
  /\ \/ Sequenced(s.seen, from)
     \/ /\ s.side = from /\ Travelled(s, from)
        /\ s.opposite # 0 /\ tick - s.opposite >= SequenceMin
  /\ DominantSide(s.filtered) = Opposite(from)
  /\ StartSettled(s)
  /\ s.side \in {from, "none"}

MayFire(s) ==
  /\ RequireBoth => BothSeen(s.seen) /\ s.both # 0 /\ tick - s.both >= BothHold
  /\ tick - s.start >= MinSwipe
  /\ tick - lastGesture > MinInterval

Fired(s, from) == [s EXCEPT !.side = from, !.fired = TRUE]

\* Fault: the first repeat's tick is not counted from now.
FirstRepeatAt(config) == config.start

FirstRepeat(config) == tick + config.start

HoldAfter(from) ==
  LET config == LayerTouch[touchLayer]
      side == Opposite(from)
  IN IF config.repeats[side] /\ config.every > 0
     THEN [on |-> TRUE, side |-> side, usage |-> config.usage[side],
           next |-> FirstRepeat(config)]
     ELSE NoHold
-----------------------------------------------------------------------------
(***************************************************************************)
(* The passes.                                                             *)
(***************************************************************************)
\* The end of every pass: h is the hold so far, side the balance's, gesture what the
\* pass has sent.
Held(h, side, gesture) ==
  LET goesOn == h.on /\ side = h.side
      due == goesOn /\ tick >= h.next
  IN /\ hold' = IF ~goesOn THEN NoHold
                ELSE IF due THEN [h EXCEPT !.next = tick + LayerTouch[touchLayer].every]
                ELSE h
     /\ sent' = IF due THEN Append(gesture, [what |-> "repeat", usage |-> h.usage,
                                             from |-> Opposite(h.side)])
               ELSE gesture

\* the history of the contact after a sample, and that of the pads
Record(raw, gestures) ==
  LET d == Above(raw)
      side == DominantSide(Balance(d))
  IN /\ padOn' = PadsOn(raw)
     /\ sensorTick' = SensorTick(raw)
     /\ contact' = [leant |-> [s \in Sides |->
                      IF contact.leant[s] = 0 /\ d[s] > d[Opposite(s)] THEN tick
                      ELSE contact.leant[s]],
                    crossed |-> [s \in Sides |->
                      IF side = s THEN tick ELSE contact.crossed[s]],
                    visited |-> contact.visited \cup {s \in Sides : Visits(d, s)},
                    sided |-> IF session.active THEN contact.sided
                              ELSE side # "none" \/ \E s \in Sides :
                                     Visits(d, s) /\ ~Visits(d, Opposite(s)),
                    ambiguous |-> IF session.active THEN contact.ambiguous
                                  ELSE side = "none" /\ \A s \in Sides : Visits(d, s),
                    smooth |-> IF session.active THEN Filtered(contact.smooth, Balance(d))
                               ELSE Balance(d),
                    gestures |-> contact.gestures + gestures]

Passes == tick < MaxTouchTicks /\ tick' = tick + 1 /\ UNCHANGED touchLayer

PadReadFails ==
  /\ Passes /\ sent' = <<>>
  /\ UNCHANGED <<padOn, sensorTick, session, hold, lastGesture, contact>>

\* Fault: the next contact goes on with the visits of this one.
LiftKeepsVisits(raw) ==
  /\ Passes /\ ~TouchEngaged(raw)
  /\ session' = [NoSession EXCEPT !.seen = session.seen, !.both = session.both]
  /\ hold' = NoHold /\ sent' = <<>>
  /\ padOn' = PadsOn(raw) /\ sensorTick' = 0
  /\ contact' = NoContact
  /\ UNCHANGED lastGesture

Lift(raw) ==
  /\ Passes /\ ~TouchEngaged(raw)
  /\ session' = NoSession /\ hold' = NoHold /\ sent' = <<>>
  /\ padOn' = PadsOn(raw) /\ sensorTick' = 0
  /\ contact' = NoContact
  /\ UNCHANGED lastGesture

ContactBegins(raw) ==
  /\ Passes /\ TouchEngaged(raw) /\ ~session.active
  /\ session' = Begun(Visited(session, Above(raw)), Above(raw))
  /\ Held(hold, DominantSide(Balance(Above(raw))), <<>>)
  /\ Record(raw, 0)
  /\ UNCHANGED lastGesture

ContactMoves(raw) ==
  /\ Passes /\ TouchEngaged(raw) /\ session.active /\ ~session.fired
  /\ LET s == Balanced(SideChosen(Visited(session, Above(raw))), Above(raw))
         usage(from) == LayerTouch[touchLayer].usage[Opposite(from)]
         Fires(from) == CrossedFrom(s, from) /\ MayFire(s) /\ usage(from) # 0
     IN \/ /\ \A from \in Sides : ~Fires(from)
           /\ session' = Flipped(s)
           /\ Held(hold, DominantSide(s.filtered), <<>>)
           /\ Record(raw, 0)
           /\ UNCHANGED lastGesture
        \/ \E from \in Sides :
             /\ Fires(from)
             /\ session' = Fired(s, from)
             /\ lastGesture' = tick
             /\ Held(HoldAfter(from), DominantSide(s.filtered),
                     <<[what |-> "gesture", usage |-> usage(from), from |-> from]>>)
             /\ Record(raw, 1)

\* after the gesture the balance is not filtered any more
ContactStays(raw) ==
  /\ Passes /\ TouchEngaged(raw) /\ session.active /\ session.fired
  /\ session' = Visited(session, Above(raw))
  /\ Held(hold, DominantSide(session.filtered), <<>>)
  /\ Record(raw, 0)
  /\ UNCHANGED lastGesture

\* the encoder's taps and the web server change the layer
LayerTurns ==
  /\ touchLayer' \in DOMAIN LayerTouch \ {touchLayer}
  /\ UNCHANGED <<tick, padOn, sensorTick, session, hold, lastGesture, sent, contact>>

TouchNext ==
  \/ \E raw \in Samples :
       Lift(raw) \/ ContactBegins(raw) \/ ContactMoves(raw) \/ ContactStays(raw)
  \/ PadReadFails \/ LayerTurns

TouchSpec == TouchInit /\ [][TouchNext]_touchVars
-----------------------------------------------------------------------------
(***************************************************************************)
(* A contact, from the first sample to the finger's lifting, is one        *)
(* gesture at most, however often the finger goes to and fro.              *)
(***************************************************************************)
OneGesturePerContact == contact.gestures <= 1

(***************************************************************************)
(* A gesture was a slide: in this contact both sides were visited, as far  *)
(* as MACRO_TOUCH_REQUIRE_BOTH_SIDES asks for that; the finger was nearer  *)
(* to the side it is said to come from, and clearly on the other one; and  *)
(* it was on the other one later, if it set down on one side.  (The first  *)
(* visit may name the start side of a contact that began in the middle     *)
(* while the filtered balance is still where the finger was before.)       *)
(***************************************************************************)
GestureWasSlide ==
  \A i \in DOMAIN sent : sent[i].what = "gesture" =>
    LET from == sent[i].from
        to == Opposite(from)
    IN /\ RequireBoth => contact.visited = Sides
       /\ contact.leant[from] # 0 /\ contact.crossed[to] # 0
       /\ contact.sided => contact.leant[from] < contact.crossed[to]

(***************************************************************************)
(* A contact that begins on both sides alike is never a gesture            *)
(* (docs/wiki/Touch-Slider-Algorithm.md, 1: "rejecting: ... ambiguous      *)
(* dual-side contact").                                                    *)
(***************************************************************************)
AmbiguousRejected == contact.ambiguous => contact.gestures = 0

(***************************************************************************)
(* Gestures are slides: one at most for a contact, in the direction the    *)
(* finger took, and none for a contact that began ambiguously.             *)
(***************************************************************************)
GesturesAreSlides == OneGesturePerContact /\ GestureWasSlide /\ AmbiguousRejected

(***************************************************************************)
(* A usage is repeated only for as long as the contact lasts that was the  *)
(* gesture of it, and not before the hold's delay of its layer.            *)
(***************************************************************************)
RepeatsFollowGesture ==
  /\ hold.on => session.active /\ session.fired /\ contact.gestures = 1
                /\ hold.side = Opposite(session.side)
  /\ \A i \in DOMAIN sent : sent[i].what = "repeat" =>
       \E l \in DOMAIN LayerTouch :
         /\ sent[i].usage = LayerTouch[l].usage[hold.side]
         /\ LayerTouch[l].repeats[hold.side]
         /\ tick - 1 >= lastGesture + LayerTouch[l].start

(***************************************************************************)
(* A hold that goes on is on the side the finger is on                     *)
(* (docs/wiki/Touch-Slider-Algorithm.md:39: "Continues while contact       *)
(* remains engaged and dominant side is maintained.").                     *)
(***************************************************************************)
HoldFollowsFinger == hold.on => DominantSide(contact.smooth) = hold.side
=============================================================================
