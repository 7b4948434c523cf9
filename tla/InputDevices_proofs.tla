------------------------- MODULE InputDevices_proofs -------------------------
(***************************************************************************)
(* Proofs about the buzzer, the encoder and the touch slider, which the    *)
(* input task serves one after the other and which share no state.         *)
(***************************************************************************)
EXTENDS Buzzer, EncoderInput, TouchSlider, SequenceTheorems, TLAPS

-----------------------------------------------------------------------------
(***************************************************************************)
(* The encoder.                                                            *)
(***************************************************************************)
\* the last k presses are a group: the one before them is out of their window
IsBurst(k) ==
  /\ k \in 1..Len(presses)
  /\ InOneBurst(k)
  /\ k = Len(presses) \/ ~InOneBurst(k + 1)

\* The counter is the size of the last group while that may still grow; the
\* counter is cleared only when it no longer can.
TapsCounted ==
  /\ Len(presses) > 0 => lastTap = presses[Len(presses)]
  /\ tapCount > 0 => IsBurst(tapCount)
  /\ tapCount = 0 /\ Len(presses) > 0 => now - lastTap > TapWindow
  /\ singlePending => tapCount = 0 /\ IsBurst(1)

\* what of a count is in direction d
Along(d, count) == IF d * count > 0 THEN d * count ELSE 0

\* What was reported and what is still counted came from the wheel, and what is
\* about to be cleared was read from it.
PulsesCounted ==
  /\ -turned[-1] <= wheel /\ wheel <= turned[1]
  /\ turned[1] + turned[-1] <= MaxPulses
  /\ \A d \in Directions :
       stepped[d] * Detent + Along(d, IF at = "clear" THEN read ELSE wheel) <= turned[d]

EncoderIInv ==
  /\ EncoderTypeOK
  /\ TapsCounted
  /\ PulsesCounted

-----------------------------------------------------------------------------
\* A shorter run of presses of a group is one, too.
LEMMA ShorterBurst ==
  ASSUME presses \in Seq(Nat), NEW k \in Nat, NEW j \in Nat, j <= k, InOneBurst(k)
  PROVE  InOneBurst(j)
  <1>1. (Len(presses) - j + 2)..Len(presses) \subseteq (Len(presses) - k + 2)..Len(presses)
    OBVIOUS
  <1> QED
    BY <1>1 DEF InOneBurst

\* There is one last group only.
LEMMA BurstIsUnique ==
  ASSUME presses \in Seq(Nat), NEW k, IsBurst(k)
  PROVE  Burst = k
  <1>1. ASSUME NEW j, NEW i, IsBurst(j), IsBurst(i)
        PROVE  ~(j < i)
    <2> SUFFICES ASSUME j < i PROVE FALSE
      OBVIOUS
    <2>1. j \in Nat /\ i \in Nat /\ i <= Len(presses) /\ InOneBurst(i)
      BY <1>1 DEF IsBurst
    <2>2. InOneBurst(j + 1)
      BY <2>1, ShorterBurst
    <2> QED
      BY <1>1, <2>1, <2>2 DEF IsBurst
  <1>2. \A j : IsBurst(j) => j = k
    <2> SUFFICES ASSUME NEW j, IsBurst(j) PROVE j = k
      OBVIOUS
    <2>1. j \in Nat /\ k \in Nat
      BY DEF IsBurst
    <2>2. ~(j < k) /\ ~(k < j)
      BY <1>1
    <2> QED
      BY <2>1, <2>2
  <1>3. /\ k \in 1..Len(presses)
        /\ InOneBurst(k) /\ (k = Len(presses) \/ ~InOneBurst(k + 1))
    BY DEF IsBurst
  <1>4. IsBurst(Burst)
    BY <1>3 DEF Burst, IsBurst
  <1> QED
    BY <1>2, <1>4

LEMMA WiderSeq ==
  ASSUME NEW S, NEW T, S \subseteq T, NEW s \in Seq(S)
  PROVE  s \in Seq(T)
  BY SeqDef

\* Time passes between the passes: what has been recorded stays recorded.
LEMMA LaterTyped ==
  ASSUME EncoderTypeOK, NEW n \in PassTicks, NextPass(n)
  PROVE  /\ now' \in Nat /\ now' > now
         /\ lastTap \in 0..now' /\ presses \in Seq(0..now')
  <1>1. n \in Nat \ {0} /\ now \in Nat /\ lastTap \in 0..now /\ presses \in Seq(0..now)
    BY EncoderAssumption DEF EncoderTypeOK
  <1>2. now' = now + n
    BY DEF NextPass
  <1>3. 0..now \subseteq 0..now'
    BY <1>1, <1>2
  <1> QED
    BY <1>1, <1>2, <1>3, WiderSeq

LEMMA TapActionTyped ==
  ASSUME NEW taps
  PROVE  /\ TapAction(taps) \in Actions
         /\ TapAction(taps) = "single" => taps = 1
  BY EncoderAssumption DEF TapAction, Actions

\* A division towards zero takes no more than was there.
LEMMA DivisionTakes ==
  ASSUME NEW n \in Nat
  PROVE  n \div Detent \in Nat /\ (n \div Detent) * Detent <= n
  <1>1. Detent \in Nat \ {0}
    BY EncoderAssumption
  <1> QED
    BY <1>1, SMTT(30)

LEMMA StepsTake ==
  ASSUME NEW count \in Int
  PROVE  LET d == IF count > 0 THEN 1 ELSE -1
         IN /\ d \in Directions /\ d * Steps(count) \in Nat
            /\ (d * Steps(count)) * Detent <= Along(d, count)
            /\ Along(-d, count) = 0
  <1>1. CASE count > 0
    <2>1. Steps(count) = count \div Detent
      BY <1>1 DEF Steps
    <2> QED
      BY <1>1, <2>1, DivisionTakes DEF Along, Directions
  <1>2. CASE count < 0
    <2>1. Steps(count) = -((-count) \div Detent) /\ -count \in Nat
      BY <1>2 DEF Steps
    <2> QED
      BY <1>2, <2>1, DivisionTakes DEF Along, Directions
  <1>3. CASE count = 0
    <2>1. 0 \div Detent \in Nat /\ (0 \div Detent) * Detent <= 0
      BY DivisionTakes
    <2>2. 0 \div Detent = 0
      BY <2>1, EncoderAssumption
    <2> QED
      BY <1>3, <2>2, EncoderAssumption DEF Steps, Along, Directions
  <1> QED
    BY <1>1, <1>2, <1>3

-----------------------------------------------------------------------------
LEMMA EncoderInitEstablishesInvariant == EncoderInit => EncoderIInv
  <1> SUFFICES ASSUME EncoderInit PROVE EncoderIInv
    OBVIOUS
  <1> USE DEF EncoderInit
  <1>1. EncoderTypeOK
    <2>1. action \in [what : Actions, taps : 0..MaxPresses]
      BY EncoderAssumption DEF Actions
    <2>2. turned \in [Directions -> 0..MaxPulses] /\ stepped \in [Directions -> Nat]
      BY EncoderAssumption
    <2>3. presses \in Seq(0..now) /\ Len(presses) <= MaxPresses
      BY EncoderAssumption
    <2>4. /\ tapCount \in 0..MaxPresses /\ lastTap \in 0..now
          /\ wheel \in -MaxPulses..MaxPulses /\ read \in -MaxPulses..MaxPulses
      BY EncoderAssumption
    <2>5. /\ now \in Nat /\ at \in {"button", "taps", "single", "wheel", "clear"}
          /\ singleDue \in Nat /\ activeLayer \in 0..2
      OBVIOUS
    <2>6. singlePending \in BOOLEAN /\ confirming \in BOOLEAN /\ portalOpen \in BOOLEAN
      OBVIOUS
    <2> QED
      BY <2>1, <2>2, <2>3, <2>4, <2>5, <2>6 DEF EncoderTypeOK
  <1>2. TapsCounted
    BY DEF TapsCounted
  <1>3. PulsesCounted
    BY EncoderAssumption DEF PulsesCounted, Along, Directions
  <1> QED
    BY <1>1, <1>2, <1>3 DEF EncoderIInv

\* A press joins the group of the one before it, or begins a group of its own.
LEMMA PressCounted ==
  ASSUME EncoderTypeOK, TapsCounted, Press
  PROVE  EncoderTypeOK' /\ TapsCounted'
  <1>1. /\ presses \in Seq(0..now) /\ presses \in Seq(Nat) /\ Len(presses) \in Nat
        /\ now \in Nat /\ tapCount \in Nat /\ lastTap \in 0..now
    <2>1. 0..now \subseteq Nat /\ presses \in Seq(0..now)
      BY DEF EncoderTypeOK
    <2> QED
      BY <2>1, WiderSeq DEF EncoderTypeOK
  <1>2. /\ presses' \in Seq(0..now) /\ Len(presses') = Len(presses) + 1
        /\ \A i \in 1..Len(presses) : presses'[i] = presses[i]
        /\ presses'[Len(presses')] = now /\ lastTap' = now /\ now' = now
    BY <1>1, AppendProperties DEF Press
  <1>3. singlePending' = FALSE
    BY DEF Press
  <1>4. TapsCounted'
    <2>1. CASE tapCount = 0 \/ ~InWindow(now)
      <3>1. tapCount' = 1
        BY <2>1 DEF Press
      <3>2. InOneBurst(1)'
        BY <1>1, <1>2 DEF InOneBurst
      <3>3. Len(presses) > 0 => ~InOneBurst(2)'
        <4>1. SUFFICES ASSUME Len(presses) > 0 PROVE ~InOneBurst(2)'
          OBVIOUS
        <4>2. now - presses[Len(presses)] > TapWindow
          BY <1>1, <2>1, <4>1, EncoderAssumption DEF TapsCounted, InWindow
        <4>3. presses'[Len(presses') - 1] = presses[Len(presses)]
              /\ Len(presses') \in (Len(presses') - 2 + 2)..Len(presses')
          BY <1>1, <1>2, <4>1
        <4>4. presses[Len(presses)] \in Nat
          BY <1>1, <4>1
        <4>5. SUFFICES ASSUME InOneBurst(2)' PROVE FALSE
          OBVIOUS
        <4>6. presses'[Len(presses')] - presses'[Len(presses') - 1] <= TapWindow
          BY <4>3, <4>5 DEF InOneBurst
        <4>7. now - presses[Len(presses)] <= TapWindow
          BY <1>2, <4>3, <4>6
        <4>8. now \in Nat /\ TapWindow \in Nat
          BY <1>1, EncoderAssumption
        <4> QED
          BY <4>2, <4>4, <4>7, <4>8
      <3>4. IsBurst(1)'
        BY <1>1, <1>2, <3>2, <3>3 DEF IsBurst
      <3> QED
        BY <1>2, <1>3, <3>1, <3>4 DEF TapsCounted
    <2>2. CASE tapCount > 0 /\ InWindow(now)
      <3>1. PICK k \in Nat : k = tapCount
        BY <1>1
      <3>2. /\ k \in 1..Len(presses) /\ InOneBurst(k)
            /\ k = Len(presses) \/ ~InOneBurst(k + 1)
            /\ lastTap = presses[Len(presses)] /\ tapCount' = k + 1
        BY <1>1, <2>2, <3>1 DEF TapsCounted, IsBurst, Press
      <3>3. InOneBurst(k + 1)'
        <4>1. SUFFICES ASSUME NEW i \in (Len(presses') - (k + 1) + 2)..Len(presses')
                       PROVE  presses'[i] - presses'[i - 1] <= TapWindow
          BY DEF InOneBurst
        <4>2. CASE i = Len(presses')
          <5>1. presses'[i - 1] = presses[Len(presses)] /\ presses'[i] = now
            <6>1. i - 1 = Len(presses) /\ i - 1 \in 1..Len(presses)
              BY <1>1, <1>2, <3>2, <4>2
            <6> QED
              BY <1>2, <4>2, <6>1
          <5> QED
            BY <2>2, <3>2, <5>1 DEF InWindow
        <4>3. CASE i # Len(presses')
          <5>1. /\ i \in (Len(presses) - k + 2)..Len(presses)
                /\ i \in 1..Len(presses) /\ i - 1 \in 1..Len(presses)
            <6>1. /\ Len(presses) \in Nat /\ Len(presses') = Len(presses) + 1
                  /\ k \in 1..Len(presses)
              BY <1>1, <1>2, <3>2
            <6> QED
              BY <4>1, <4>3, <6>1
          <5> QED
            BY <1>2, <3>2, <5>1 DEF InOneBurst
        <4> QED
          BY <4>2, <4>3
      <3>4. k + 1 = Len(presses') \/ ~InOneBurst(k + 1 + 1)'
        <4>1. SUFFICES ASSUME k # Len(presses) PROVE ~InOneBurst(k + 1 + 1)'
          BY <1>1, <1>2
        <4>2. PICK i \in (Len(presses) - (k + 1) + 2)..Len(presses) :
                 ~(presses[i] - presses[i - 1] <= TapWindow)
          BY <3>2, <4>1 DEF InOneBurst
        <4>3. /\ i \in (Len(presses') - (k + 1 + 1) + 2)..Len(presses')
              /\ i \in 1..Len(presses) /\ i - 1 \in 1..Len(presses)
          <5>1. /\ Len(presses) \in Nat /\ Len(presses') = Len(presses) + 1
                /\ k \in 1..Len(presses)
            BY <1>1, <1>2, <3>2
          <5> QED
            BY <4>1, <4>2, <5>1
        <4>4. presses'[i] = presses[i] /\ presses'[i - 1] = presses[i - 1]
          BY <1>2, <4>3
        <4> QED
          BY <4>2, <4>3, <4>4 DEF InOneBurst
      <3>5. k + 1 \in 1..Len(presses')
        BY <1>1, <1>2, <3>2
      <3>6. IsBurst(k + 1)'
        BY <3>3, <3>4, <3>5 DEF IsBurst
      <3> QED
        BY <1>1, <1>2, <1>3, <3>2, <3>6 DEF TapsCounted
    <2> QED
      BY <1>1, <2>1, <2>2
  <1>5. tapCount' \in 0..MaxPresses /\ Len(presses') <= MaxPresses
    <2>1. Len(presses') <= MaxPresses /\ MaxPresses \in Nat
      BY <1>1, <1>2, EncoderAssumption DEF Press
    <2>2. tapCount' \in Nat /\ (tapCount' > 0 => tapCount' <= Len(presses'))
      BY <1>1, <1>4 DEF TapsCounted, IsBurst, Press
    <2> QED
      BY <1>1, <1>2, <2>1, <2>2
  <1>6. EncoderTypeOK'
    <2>1. lastTap' \in 0..now'
      BY <1>1, <1>2
    <2>2. presses' \in Seq(0..now')
      BY <1>2
    <2>3. singlePending' \in BOOLEAN
      BY <1>3
    <2> QED
      BY <1>2, <1>5, <2>1, <2>2, <2>3 DEF Press, EncoderTypeOK, othersVars, wheelVars
  <1> QED
    BY <1>4, <1>6

LEMMA LongerAgo ==
  ASSUME NEW t \in Nat, NEW u \in Nat, NEW since \in Nat, NEW limit \in Nat,
         u >= t, t - since > limit
  PROVE  u - since > limit
  OBVIOUS

\* What was counted stays counted while the button is not pressed; a window that
\* is over stays over.
LEMMA TapsStay ==
  ASSUME EncoderTypeOK, TapsCounted, UNCHANGED buttonVars, now' \in Nat, now' >= now
  PROVE  TapsCounted'
  <1>1. UNCHANGED <<tapCount, lastTap, singlePending, presses>>
    BY DEF buttonVars
  <1>2. \A k : IsBurst(k)' <=> IsBurst(k)
    BY <1>1 DEF IsBurst, InOneBurst
  <1>3. now \in Nat /\ lastTap \in Nat /\ TapWindow \in Nat
    BY EncoderAssumption DEF EncoderTypeOK
  <1>4. ASSUME tapCount = 0, Len(presses) > 0
        PROVE  now' - lastTap' > TapWindow
    <2>1. now - lastTap > TapWindow
      BY <1>4 DEF TapsCounted
    <2>2. now' - lastTap > TapWindow
      BY <1>3, <2>1, LongerAgo
    <2> QED
      BY <1>1, <2>2
  <1> QED
    BY <1>1, <1>2, <1>4 DEF TapsCounted

\* A group is dispatched when it can no longer grow, and what waits as a single
\* tap is a group of one.
LEMMA DispatchCounted ==
  ASSUME EncoderTypeOK, TapsCounted, Dispatch
  PROVE  EncoderTypeOK' /\ TapsCounted'
  <1>1. /\ now \in Nat /\ lastTap \in 0..now /\ tapCount \in 0..MaxPresses
        /\ presses \in Seq(0..now) /\ TapWindow \in Nat /\ SingleDelay \in Nat
    BY EncoderAssumption DEF EncoderTypeOK
  <1>2. /\ tapCount > 0 /\ now - lastTap > TapWindow
        /\ UNCHANGED <<now, lastTap, presses>> /\ tapCount' = 0
        /\ action' = [what |-> TapAction(tapCount), taps |-> tapCount]
        /\ singlePending' = (action'.what = "single")
    BY <1>1 DEF Dispatch, Grouped, InWindow
  <1>3. action'.what = TapAction(tapCount)
    BY <1>2
  <1>4. \A k : IsBurst(k)' <=> IsBurst(k)
    BY <1>2 DEF IsBurst, InOneBurst
  <1>5. singlePending' => IsBurst(1)'
    <2>1. IsBurst(tapCount)
      BY <1>2 DEF TapsCounted
    <2> QED
      BY <1>2, <1>3, <1>4, <2>1, TapActionTyped
  <1>6. TapsCounted'
    BY <1>1, <1>2, <1>5 DEF TapsCounted
  <1>7. EncoderTypeOK'
    <2>1. action' \in [what : Actions, taps : 0..MaxPresses]
      BY <1>1, <1>2, TapActionTyped
    <2>2. singlePending' \in BOOLEAN
      BY <1>2
    <2>3. singleDue' \in Nat /\ activeLayer' \in 0..2
      BY <1>1 DEF Dispatch, EncoderTypeOK, TapLayer
    <2>4. tapCount' \in 0..MaxPresses
      BY <1>2, EncoderAssumption
    <2> QED
      BY <1>2, <2>1, <2>2, <2>3, <2>4 DEF Dispatch, EncoderTypeOK, wheelVars
  <1> QED
    BY <1>6, <1>7

LEMMA ButtonKeepsInvariant ==
  ASSUME EncoderIInv,
         Press \/ NoPress \/ Dispatch \/ NotGrouped \/ EmitSingle \/ NoSingle
  PROVE  EncoderIInv'
  <1> USE DEF EncoderIInv
  <1>1. PulsesCounted'
    <2>1. UNCHANGED wheelVars /\ at # "clear" /\ at' # "clear"
      BY DEF Press, NoPress, Dispatch, NotGrouped, EmitSingle, NoSingle
    <2> QED
      BY <2>1 DEF PulsesCounted, wheelVars
  <1>2. CASE Press
    BY <1>1, <1>2, PressCounted
  <1>3. CASE Dispatch
    BY <1>1, <1>3, DispatchCounted
  <1>4. CASE EmitSingle
    <2>1. TapsCounted'
      BY <1>4 DEF EmitSingle, TapsCounted, IsBurst, InOneBurst
    <2>2. action' \in [what : Actions, taps : 0..MaxPresses]
      <3>1. 1 \in 0..MaxPresses
        <4>1. 1 \in 1..Len(presses) /\ Len(presses) <= MaxPresses /\ Len(presses) \in Nat
          BY <1>4 DEF EmitSingle, TapsCounted, IsBurst, EncoderTypeOK
        <4> QED
          BY <4>1, EncoderAssumption
      <3> QED
        BY <1>4, <3>1 DEF EmitSingle, Actions
    <2>3. singlePending' \in BOOLEAN
      BY <1>4 DEF EmitSingle
    <2>4. EncoderTypeOK'
      BY <1>4, <2>2, <2>3 DEF EmitSingle, EncoderTypeOK, othersVars, wheelVars
    <2> QED
      BY <1>1, <2>1, <2>4
  <1>5. CASE NoPress \/ NotGrouped \/ NoSingle
    <2>1. UNCHANGED <<now, buttonVars, othersVars, wheelVars>>
          /\ at' \in {"button", "taps", "single", "wheel", "clear"}
      BY <1>5 DEF NoPress, NotGrouped, NoSingle
    <2>2. EncoderTypeOK'
      BY <2>1 DEF EncoderTypeOK, buttonVars, othersVars, wheelVars
    <2>3. TapsCounted'
      BY <2>1, TapsStay DEF EncoderTypeOK
    <2> QED
      BY <1>1, <2>2, <2>3
  <1> QED
    BY <1>2, <1>3, <1>4, <1>5

-----------------------------------------------------------------------------
\* A step of the counter, and a pass that reads it.
LEMMA WheelKeepsInvariant ==
  ASSUME EncoderIInv, (\E d \in Directions : Pulse(d)) \/ ReadWheel \/ ReportSteps
  PROVE  EncoderIInv'
  <1> USE DEF EncoderIInv
  <1>1. /\ turned[1] \in Nat /\ turned[-1] \in Nat
        /\ turned \in [Directions -> 0..MaxPulses] /\ stepped \in [Directions -> Nat]
        /\ wheel \in Int /\ read \in Int /\ now \in Nat /\ MaxPulses \in Nat
        /\ Detent \in Nat
    BY EncoderAssumption DEF EncoderTypeOK, Directions
  <1>2. \A d \in Directions : stepped[d] * Detent \in Nat
    BY <1>1
  <1>3. ASSUME NEW d \in Directions, Pulse(d)
        PROVE  EncoderIInv'
    <2>1. /\ wheel' = wheel + d /\ turned[1] + turned[-1] < MaxPulses
          /\ turned' = [turned EXCEPT ![d] = @ + 1]
          /\ UNCHANGED <<now, at, buttonVars, othersVars, read, stepped>>
      BY <1>3 DEF Pulse
    <2>2. turned' \in [Directions -> 0..MaxPulses]
      BY <1>1, <2>1 DEF Directions
    <2>3. /\ -turned'[-1] <= wheel' /\ wheel' <= turned'[1]
          /\ turned'[1] + turned'[-1] <= MaxPulses
      BY <1>1, <2>1 DEF PulsesCounted, Directions
    <2>4. \A e \in Directions : Along(e, wheel') <= Along(e, wheel) + (turned'[e] - turned[e])
                                /\ turned'[e] >= turned[e]
      BY <1>1, <2>1 DEF Along, Directions
    <2>5. PulsesCounted'
      BY <1>1, <1>2, <2>1, <2>2, <2>3, <2>4 DEF PulsesCounted, Along, Directions
    <2>6. wheel' \in -MaxPulses..MaxPulses
      BY <1>1, <2>1, <2>2, <2>3 DEF Directions
    <2>7. EncoderTypeOK'
      BY <2>1, <2>2, <2>6 DEF EncoderTypeOK, buttonVars, othersVars
    <2>8. TapsCounted'
      BY <1>1, <2>1, TapsStay
    <2> QED
      BY <2>5, <2>7, <2>8
  <1>4. CASE ReadWheel
    <2>1. /\ at = "wheel" /\ read' = wheel
          /\ UNCHANGED <<buttonVars, othersVars, wheel, turned, stepped>>
      BY <1>4 DEF ReadWheel
    <2>2. /\ now' \in Nat /\ now' >= now /\ at' \in {"button", "clear"}
          /\ lastTap \in 0..now' /\ presses \in Seq(0..now')
      <3>1. CASE Steps(wheel) = 0
        <4>1. PICK n \in PassTicks : NextPass(n)
          BY <1>4, <3>1 DEF ReadWheel
        <4> QED
          BY <1>1, <4>1, LaterTyped DEF NextPass
      <3>2. CASE Steps(wheel) # 0
        BY <1>1, <1>4, <3>2 DEF ReadWheel, EncoderTypeOK
      <3> QED
        BY <3>1, <3>2
    <2>3. PulsesCounted'
      BY <2>1, <2>2 DEF PulsesCounted
    <2>4. EncoderTypeOK'
      BY <2>1, <2>2 DEF EncoderTypeOK, buttonVars, othersVars
    <2>5. TapsCounted'
      BY <2>1, <2>2, TapsStay
    <2> QED
      BY <2>3, <2>4, <2>5
  <1>5. CASE ReportSteps
    <2>1. /\ at = "clear" /\ at' = "button" /\ wheel' = 0
          /\ UNCHANGED <<buttonVars, othersVars, read, turned>>
      BY <1>5 DEF ReportSteps, NextPass
    <2>2. /\ now' \in Nat /\ now' >= now
          /\ lastTap \in 0..now' /\ presses \in Seq(0..now')
      <3>1. PICK n \in PassTicks : NextPass(n)
        BY <1>5 DEF ReportSteps
      <3> QED
        BY <1>1, <3>1, LaterTyped
    <2>3. PICK d \in Directions : d = IF read > 0 THEN 1 ELSE -1
      BY DEF Directions
    <2>4. stepped' = [stepped EXCEPT ![d] = @ + d * Steps(read)]
      BY <1>5, <2>3 DEF ReportSteps, Stepped
    <2>5. d * Steps(read) \in Nat /\ (d * Steps(read)) * Detent <= Along(d, read)
      BY <1>1, <2>3, StepsTake
    <2>6. stepped' \in [Directions -> Nat]
      BY <1>1, <2>4, <2>5
    <2>7. \A e \in Directions : stepped'[e] * Detent <= turned[e]
      <3>1. SUFFICES ASSUME NEW e \in Directions PROVE stepped'[e] * Detent <= turned[e]
        OBVIOUS
      <3>2. /\ stepped[e] * Detent + Along(e, read) <= turned[e]
            /\ turned[e] \in Nat /\ Along(e, read) \in Nat /\ stepped[e] \in Nat
        BY <1>1, <2>1 DEF PulsesCounted, Along, Directions
      <3>3. CASE e = d
        <4> DEFINE q == d * Steps(read)
        <4>1. stepped'[e] = stepped[e] + q /\ q \in Nat
          BY <1>1, <2>4, <2>5, <3>3
        <4>2. (stepped[e] + q) * Detent = stepped[e] * Detent + q * Detent
          <5> HIDE DEF q
          <5> QED
            BY <1>1, <3>2, <4>1
        <4>3. q * Detent <= Along(e, read) /\ q * Detent \in Nat
          BY <1>1, <2>5, <3>3, <4>1
        <4> HIDE DEF q
        <4> QED
          BY <1>1, <1>2, <3>2, <4>1, <4>2, <4>3
      <3>4. CASE e # d
        BY <1>1, <1>2, <2>4, <3>2, <3>4
      <3> QED
        BY <3>3, <3>4
    <2>8. PulsesCounted'
      <3>1. \A e \in Directions : Along(e, 0) = 0
        BY DEF Along, Directions
      <3>2. \A e \in Directions : stepped'[e] * Detent + Along(e, wheel') <= turned[e]
        BY <1>1, <2>1, <2>6, <2>7, <3>1
      <3> QED
        BY <1>1, <2>1, <3>2 DEF PulsesCounted
    <2>9. EncoderTypeOK'
      <3>1. 0 \in -MaxPulses..MaxPulses
        BY <1>1
      <3> QED
        BY <2>1, <2>2, <2>6, <3>1 DEF EncoderTypeOK, buttonVars, othersVars
    <2>10. TapsCounted'
      BY <2>1, <2>2, TapsStay
    <2> QED
      BY <2>8, <2>9, <2>10
  <1> QED
    BY <1>3, <1>4, <1>5

LEMMA EncoderStepKeepsInvariant == EncoderIInv /\ [EncoderNext]_encoderVars => EncoderIInv'
  <1> SUFFICES ASSUME EncoderIInv, [EncoderNext]_encoderVars PROVE EncoderIInv'
    OBVIOUS
  <1>1. CASE LayerFromWeb \/ AnswersChange \/ UNCHANGED encoderVars
    <2>1. UNCHANGED <<now, at, buttonVars, wheelVars>>
      BY <1>1 DEF LayerFromWeb, AnswersChange, encoderVars
    <2>2. activeLayer' \in 0..2 /\ confirming' \in BOOLEAN /\ portalOpen' \in BOOLEAN
      BY <1>1 DEF LayerFromWeb, AnswersChange, encoderVars, othersVars, EncoderIInv,
         EncoderTypeOK
    <2>3. EncoderTypeOK'
      BY <2>1, <2>2 DEF EncoderIInv, EncoderTypeOK, buttonVars, wheelVars
    <2>4. TapsCounted'
      BY <2>1, TapsStay DEF EncoderIInv, EncoderTypeOK
    <2>5. PulsesCounted'
      BY <2>1 DEF EncoderIInv, PulsesCounted, wheelVars
    <2> QED
      BY <2>3, <2>4, <2>5 DEF EncoderIInv
  <1> QED
    BY <1>1, ButtonKeepsInvariant, WheelKeepsInvariant DEF EncoderNext, EncoderPass

LEMMA EncoderInvariance == EncoderSpec => []EncoderIInv
  BY EncoderInitEstablishesInvariant, EncoderStepKeepsInvariant, PTL DEF EncoderSpec

(***************************************************************************)
(* The tap counter, its clock, the delayed single action and the wheel's   *)
(* pulse counter have their types, a counter is never below zero, and what *)
(* a pass has read of the wheel is within what the wheel can have turned   *)
(* (input_task, main.c:691-787).                                           *)
(***************************************************************************)
THEOREM EncoderTypeCorrect == EncoderSpec => []EncoderTypeOK
  <1>1. EncoderIInv => EncoderTypeOK
    BY DEF EncoderIInv
  <1> QED
    BY <1>1, EncoderInvariance, PTL

(***************************************************************************)
(* The knob's counters are true for every tap window, every detent and     *)
(* passes of any length: a group of taps is exactly the presses that       *)
(* follow one another within the window, a single tap waits only for a     *)
(* press that stands alone, and the wheel never steps further than it was  *)
(* turned, whenever its pulses come.                                       *)
(***************************************************************************)
THEOREM KnobCountsAreTrue == EncoderSpec => []CountsAreTrue
  <1>1. EncoderIInv => CountsAreTrue
    <2> SUFFICES ASSUME EncoderIInv PROVE CountsAreTrue
      OBVIOUS
    <2>1. presses \in Seq(Nat)
      <3>1. 0..now \subseteq Nat /\ presses \in Seq(0..now)
        BY DEF EncoderIInv, EncoderTypeOK
      <3> QED
        BY <3>1, WiderSeq
    <2>2. TapsAreBurst
      BY <2>1, BurstIsUnique DEF TapsAreBurst, EncoderIInv, TapsCounted
    <2>3. SingleStandsAlone
      BY <2>1, BurstIsUnique DEF SingleStandsAlone, EncoderIInv, TapsCounted
    <2>4. StepsWereTurned
      <3>1. SUFFICES ASSUME NEW d \in Directions PROVE stepped[d] * Detent <= turned[d]
        BY DEF StepsWereTurned
      <3>2. /\ stepped[d] \in Nat /\ turned[d] \in Nat /\ Detent \in Nat
            /\ wheel \in Int /\ read \in Int
        BY EncoderAssumption DEF EncoderIInv, EncoderTypeOK
      <3>3. stepped[d] * Detent \in Nat
        BY <3>2
      <3>4. Along(d, IF at = "clear" THEN read ELSE wheel) \in Nat
        BY <3>2 DEF Along, Directions
      <3> QED
        BY <3>2, <3>3, <3>4 DEF EncoderIInv, PulsesCounted
    <2> QED
      BY <2>2, <2>3, <2>4 DEF CountsAreTrue
  <1> QED
    BY <1>1, EncoderInvariance, PTL

-----------------------------------------------------------------------------
(***************************************************************************)
(* The buzzer.  What its invariant says of the ring and the tone holds     *)
(* while no calls of the two tasks have overlapped; crossed says when.     *)
(***************************************************************************)
\* The ring holds the queue from its head on, and its tail is where it ends.
RingHolds ==
  /\ ringCount = Len(queued) /\ ringCount <= BuzzerSize
  /\ ringTail = (ringHead + ringCount) % BuzzerSize
  /\ \A k \in 1..Len(queued) : ring[(ringHead + k - 1) % BuzzerSize] = queued[k]

\* An update and a call of the web server's task exclude one another: the tone an
\* update has found in the ring is still there, and what a beep has read is true.
CallsExclude ==
  /\ disabling # "none" \/ beep.reads => update = "none"
  /\ update = "start" => ringCount > 0
  /\ beep.reads => beep.tail = ringTail /\ beep.count = ringCount

\* A buzzer that is to be disabled when it is idle is enabled until then, and an
\* update has silenced the tone before it takes the next one.
UpdateIsSilent ==
  /\ disableWhenIdle => enabled
  /\ update # "none" => enabled /\ ~output /\ ~toneActive

\* The web server's task is in one call at a time.
OneWebCall == beep.reads => disabling = "none"

BuzzerIInv ==
  /\ BuzzerTypeOK
  /\ OneWebCall
  /\ ~crossed => RingHolds /\ CallsExclude /\ UpdateIsSilent
  /\ SilentWhenDisabled

-----------------------------------------------------------------------------
\* An index goes around the ring at most once.
Around(x) == IF x < BuzzerSize THEN x ELSE x - BuzzerSize

LEMMA RingMod ==
  ASSUME NEW x \in 0..(2 * BuzzerSize - 1)
  PROVE  x % BuzzerSize = Around(x) /\ Around(x) \in Slots
  <1>0. BuzzerSize \in Nat \ {0}
    BY BuzzerAssumption
  <1>1. CASE x < BuzzerSize
    BY <1>0, <1>1 DEF Around, Slots
  <1>2. CASE x >= BuzzerSize
    <2>1. x \in BuzzerSize..(2 * BuzzerSize - 1)
      BY <1>0, <1>2
    <2>2. x % BuzzerSize = x - BuzzerSize
      BY <1>0, <2>1
    <2> QED
      BY <1>0, <2>1, <2>2 DEF Around, Slots
  <1> QED
    BY <1>0, <1>1, <1>2

\* How far behind the tail the slots of a queue are: those of the c tones that are
\* in it furthest, those of the tones put in from the tail on in their order.
LEMMA SlotDistance ==
  ASSUME NEW h \in Slots, NEW c \in 0..BuzzerSize, NEW k \in 1..BuzzerSize
  PROVE  LET s == (h + k - 1) % BuzzerSize
             tail == (h + c) % BuzzerSize
         IN /\ s \in Slots
            /\ (s + BuzzerSize - tail) % BuzzerSize =
                 IF k <= c THEN BuzzerSize - c + k - 1 ELSE k - c - 1
  <1> DEFINE s == (h + k - 1) % BuzzerSize
             tail == (h + c) % BuzzerSize
  <1>0. BuzzerSize \in Nat \ {0} /\ h \in 0..(BuzzerSize - 1)
    BY BuzzerAssumption DEF Slots
  <1>1. s = Around(h + k - 1) /\ s \in 0..(BuzzerSize - 1)
    <2>1. h + k - 1 \in 0..(2 * BuzzerSize - 1)
      BY <1>0
    <2> QED
      BY <2>1, RingMod DEF Slots
  <1>2. tail = Around(h + c) /\ tail \in 0..(BuzzerSize - 1)
    <2>1. h + c \in 0..(2 * BuzzerSize - 1)
      BY <1>0
    <2> QED
      BY <2>1, RingMod DEF Slots
  <1>3. (s + BuzzerSize - tail) % BuzzerSize = Around(s + BuzzerSize - tail)
    <2> HIDE DEF s, tail
    <2>1. s + BuzzerSize - tail \in 0..(2 * BuzzerSize - 1)
      BY <1>0, <1>1, <1>2
    <2> QED
      BY <2>1, RingMod
  <1>4. Around(s + BuzzerSize - tail) = IF k <= c THEN BuzzerSize - c + k - 1 ELSE k - c - 1
    <2> HIDE DEF s, tail
    <2> QED
      BY <1>0, <1>1, <1>2 DEF Around
  <1> QED
    BY <1>1, <1>3, <1>4 DEF Slots

\* What fits, and what does not, are parts of the melody, and the count of the ring
\* stays a byte whatever it is.
LEMMA FittingTyped ==
  ASSUME NEW tones \in Seq(Tones), NEW c \in 0..(Bytes - 1)
  PROVE  /\ Fitting(tones, c) \in Seq(Tones)
         /\ Len(Fitting(tones, c)) \in 0..BuzzerSize
         /\ c + Len(Fitting(tones, c)) \in 0..(Bytes - 1)
         /\ c <= BuzzerSize => c + Len(Fitting(tones, c)) <= BuzzerSize
         /\ SubSeq(tones, Len(Fitting(tones, c)) + 1, Len(tones)) \in Seq(Tones)
  <1> DEFINE n == IF Len(tones) < RingRoom(c) THEN Len(tones) ELSE RingRoom(c)
  <1>1. /\ n \in 0..BuzzerSize /\ n <= Len(tones) /\ c + n \in 0..(Bytes - 1)
        /\ c <= BuzzerSize => c + n <= BuzzerSize
    BY BuzzerAssumption DEF RingRoom
  <1>2. Fitting(tones, c) = SubSeq(tones, 1, n)
    BY DEF Fitting
  <1> HIDE DEF n
  <1>3. SubSeq(tones, 1, n) \in Seq(Tones) /\ Len(SubSeq(tones, 1, n)) = n
    <2>1. \A i \in 1..n : tones[i] \in Tones
      BY <1>1
    <2> QED
      BY <1>1, <2>1, SubSeqProperties
  <1>4. SubSeq(tones, n + 1, Len(tones)) \in Seq(Tones)
    <2>1. \A i \in (n + 1)..Len(tones) : tones[i] \in Tones
      BY <1>1
    <2> QED
      BY <1>1, <2>1, SubSeqProperties
  <1> QED
    BY <1>1, <1>2, <1>3, <1>4

LEMMA FilledTyped ==
  ASSUME NEW f \in Seq(Tones), NEW t \in Slots, ring \in [Slots -> Tones]
  PROVE  Filled(f, t) \in [Slots -> Tones]
  <1>1. SUFFICES ASSUME NEW i \in Slots
                 PROVE  LET k == ((i + BuzzerSize - t) % BuzzerSize) + 1
                        IN (IF k <= Len(f) THEN f[k] ELSE ring[i]) \in Tones
    BY DEF Filled
  <1>2. (i + BuzzerSize - t) % BuzzerSize \in Nat
    <2>1. i + BuzzerSize - t \in 0..(2 * BuzzerSize - 1)
      BY BuzzerAssumption DEF Slots
    <2> QED
      BY <2>1, RingMod, BuzzerAssumption DEF Slots
  <1> QED
    BY <1>2

\* Tones put into the ring behind the queue are the end of the queue, and those
\* that were in it stay where they were.
LEMMA FilledHolds ==
  ASSUME NEW h \in Slots, NEW q \in Seq(Tones), NEW f \in Seq(Tones),
         ring \in [Slots -> Tones],
         Len(q) + Len(f) <= BuzzerSize,
         \A k \in 1..Len(q) : ring[(h + k - 1) % BuzzerSize] = q[k]
  PROVE  \A k \in 1..Len(q \o f) :
           Filled(f, (h + Len(q)) % BuzzerSize)[(h + k - 1) % BuzzerSize] = (q \o f)[k]
  <1>0. BuzzerSize \in Nat \ {0} /\ Len(q) \in 0..BuzzerSize /\ Len(f) \in Nat
    BY BuzzerAssumption
  <1> SUFFICES ASSUME NEW k \in 1..Len(q \o f)
               PROVE  Filled(f, (h + Len(q)) % BuzzerSize)[(h + k - 1) % BuzzerSize]
                        = (q \o f)[k]
    OBVIOUS
  <1>1. k \in 1..BuzzerSize /\ k <= Len(q) + Len(f)
    BY <1>0, ConcatProperties
  <1> DEFINE s == (h + k - 1) % BuzzerSize
             tail == (h + Len(q)) % BuzzerSize
             d == (s + BuzzerSize - tail) % BuzzerSize
  <1>2. s \in Slots /\ d = IF k <= Len(q) THEN BuzzerSize - Len(q) + k - 1 ELSE k - Len(q) - 1
    BY <1>0, <1>1, SlotDistance
  <1>3. Filled(f, tail)[s] = IF d + 1 <= Len(f) THEN f[d + 1] ELSE ring[s]
    BY <1>2 DEF Filled
  <1>4. CASE k <= Len(q)
    <2>1. ~(d + 1 <= Len(f))
      <3> HIDE DEF d
      <3> QED
        BY <1>0, <1>1, <1>2, <1>4
    <2>2. Filled(f, tail)[s] = q[k]
      <3>1. ring[s] = q[k]
        BY <1>1, <1>4
      <3> HIDE DEF d, s, tail
      <3> QED
        BY <1>3, <2>1, <3>1
    <2>3. (q \o f)[k] = q[k]
      BY <1>1, <1>4, ConcatProperties
    <2> QED
      BY <2>2, <2>3
  <1>5. CASE k > Len(q)
    <2>1. d + 1 = k - Len(q) /\ d + 1 <= Len(f)
      <3> HIDE DEF d
      <3> QED
        BY <1>0, <1>1, <1>2, <1>5
    <2>2. Filled(f, tail)[s] = f[k - Len(q)]
      <3> HIDE DEF d, s, tail
      <3> QED
        BY <1>3, <2>1
    <2>3. (q \o f)[k] = f[k - Len(q)]
      BY <1>0, <1>1, <1>5, ConcatProperties
    <2> QED
      BY <2>2, <2>3
  <1> QED
    BY <1>0, <1>1, <1>4, <1>5

-----------------------------------------------------------------------------
\* The variables that make up the ring.
RingTyped ==
  /\ ring \in [Slots -> Tones] /\ queued \in Seq(Tones)
  /\ ringHead \in Slots /\ ringTail \in Slots /\ ringCount \in 0..(Bytes - 1)

\* Tones put in from any tail and for any count leave indices within the ring.
LEMMA PushTyped ==
  ASSUME BuzzerTypeOK, NEW tones \in Seq(Tones), NEW t \in Slots, NEW c \in 0..(Bytes - 1),
         QueuePushAt(tones, t, c)
  PROVE  RingTyped'
  <1>0. /\ BuzzerSize \in Nat \ {0} /\ ring \in [Slots -> Tones] /\ queued \in Seq(Tones)
        /\ ringHead \in Slots
    BY BuzzerAssumption DEF BuzzerTypeOK
  <1>1. PICK f : f = Fitting(tones, c)
    OBVIOUS
  <1>2. f \in Seq(Tones) /\ Len(f) \in 0..BuzzerSize /\ c + Len(f) \in 0..(Bytes - 1)
    BY <1>1, FittingTyped
  <1>3. /\ ring' = Filled(f, t) /\ ringTail' = (t + Len(f)) % BuzzerSize
        /\ ringCount' = c + Len(f) /\ queued' \in {<<>>, queued \o f} /\ ringHead' = ringHead
    BY <1>1 DEF QueuePushAt
  <1>4. ring' \in [Slots -> Tones]
    BY <1>0, <1>2, <1>3, FilledTyped
  <1>5. queued' \in Seq(Tones)
    <2>1. <<>> \in Seq(Tones)
      OBVIOUS
    <2>2. queued \o f \in Seq(Tones)
      BY <1>0, <1>2, ConcatProperties
    <2> QED
      BY <1>3, <2>1, <2>2
  <1>6. ringTail' \in Slots
    <2>1. t + Len(f) \in 0..(2 * BuzzerSize - 1)
      BY <1>0, <1>2 DEF Slots
    <2> QED
      BY <1>3, <2>1, RingMod
  <1> QED
    BY <1>0, <1>2, <1>3, <1>4, <1>5, <1>6 DEF RingTyped

LEMMA PushKeepsQueue ==
  ASSUME BuzzerTypeOK, RingHolds, ~crossed', NEW tones \in Seq(Tones),
         QueuePushAt(tones, ringTail, ringCount)
  PROVE  ringCount' >= ringCount /\ RingHolds'
  <1>0. /\ BuzzerSize \in Nat \ {0} /\ ring \in [Slots -> Tones] /\ queued \in Seq(Tones)
        /\ ringHead \in Slots /\ ringCount \in 0..BuzzerSize /\ ringTail \in Slots
        /\ ringCount = Len(queued) /\ ringCount \in 0..(Bytes - 1)
    BY BuzzerAssumption DEF BuzzerTypeOK, RingHolds
  <1>1. PICK f : f = Fitting(tones, ringCount)
    OBVIOUS
  <1>2. f \in Seq(Tones) /\ Len(f) \in 0..(BuzzerSize - ringCount)
    <2>1. /\ f \in Seq(Tones) /\ Len(f) \in 0..BuzzerSize
          /\ ringCount + Len(f) <= BuzzerSize
      BY <1>0, <1>1, FittingTyped
    <2> QED
      BY <1>0, <2>1
  <1>3. /\ ring' = Filled(f, ringTail) /\ ringTail' = (ringTail + Len(f)) % BuzzerSize
        /\ ringCount' = ringCount + Len(f) /\ queued' = queued \o f /\ ringHead' = ringHead
    BY <1>1 DEF QueuePushAt
  <1>5. /\ queued' \in Seq(Tones) /\ Len(queued') = Len(queued) + Len(f)
    BY <1>0, <1>2, <1>3, ConcatProperties
  <1>6. ringCount' = Len(queued') /\ ringCount' \in 0..BuzzerSize /\ ringCount' >= ringCount
    BY <1>0, <1>2, <1>3, <1>5
  <1>7. ringTail' = (ringHead' + ringCount') % BuzzerSize /\ ringTail' \in Slots
    <2>1. ringTail = (ringHead + ringCount) % BuzzerSize
      BY DEF RingHolds
    <2>2. /\ ringHead + ringCount \in 0..(2 * BuzzerSize - 1)
          /\ ringTail + Len(f) \in 0..(2 * BuzzerSize - 1)
          /\ ringHead + ringCount + Len(f) \in 0..(2 * BuzzerSize - 1)
      BY <1>0, <1>2 DEF Slots
    <2>3. /\ ringTail = Around(ringHead + ringCount)
          /\ ringTail' = Around(ringTail + Len(f)) /\ ringTail' \in Slots
          /\ (ringHead + ringCount + Len(f)) % BuzzerSize =
               Around(ringHead + ringCount + Len(f))
      BY <1>3, <2>1, <2>2, RingMod
    <2>4. Around(ringTail + Len(f)) = Around(ringHead + ringCount + Len(f))
      BY <1>0, <1>2, <2>2, <2>3 DEF Around, Slots
    <2>5. ringHead' + ringCount' = ringHead + ringCount + Len(f)
      BY <1>0, <1>2, <1>3 DEF Slots
    <2> QED
      BY <2>3, <2>4, <2>5
  <1>8. \A k \in 1..Len(queued') : ring'[(ringHead' + k - 1) % BuzzerSize] = queued'[k]
    <2>1. Len(queued) + Len(f) <= BuzzerSize
      BY <1>0, <1>2
    <2>2. \A k \in 1..Len(queued) : ring[(ringHead + k - 1) % BuzzerSize] = queued[k]
      BY DEF RingHolds
    <2>3. ringTail = (ringHead + Len(queued)) % BuzzerSize
      BY DEF RingHolds
    <2> QED
      BY <1>0, <1>2, <1>3, <2>1, <2>2, <2>3, FilledHolds
  <1>9. ringCount' <= BuzzerSize
    BY <1>0, <1>6
  <1> QED
    BY <1>6, <1>7, <1>8, <1>9 DEF RingHolds

\* The count is a byte: one is taken from it by adding 255.
LEMMA ByteDecrement ==
  ASSUME NEW n \in 1..(Bytes - 1)
  PROVE  Byte(n + Bytes - 1) = n - 1
  <1>1. Bytes \in Nat \ {0} /\ n + Bytes - 1 = (n - 1) + Bytes /\ n - 1 \in 0..(Bytes - 1)
    BY BuzzerAssumption
  <1>2. ((n - 1) + Bytes) % Bytes = n - 1
    BY <1>1
  <1> QED
    BY <1>1, <1>2 DEF Byte

LEMMA PopTyped ==
  ASSUME BuzzerTypeOK, QueuePop
  PROVE  RingTyped' /\ tone' \in Tones
  <1>0. /\ BuzzerSize \in Nat \ {0} /\ ring \in [Slots -> Tones] /\ queued \in Seq(Tones)
        /\ ringHead \in Slots /\ ringTail \in Slots
        /\ Bytes \in Nat \ {0} /\ ringCount \in 0..(Bytes - 1)
    BY BuzzerAssumption DEF BuzzerTypeOK
  <1>1. /\ tone' = ring[ringHead] /\ ringHead' = (ringHead + 1) % BuzzerSize
        /\ ringCount' = Byte(ringCount + Bytes - 1)
        /\ ring' = ring /\ ringTail' = ringTail
    BY DEF QueuePop
  <1>2. queued' \in Seq(Tones)
    <2>1. <<>> \in Seq(Tones)
      OBVIOUS
    <2>2. queued # <<>> => Tail(queued) \in Seq(Tones)
      BY <1>0, HeadTailProperties
    <2> QED
      BY <2>1, <2>2 DEF QueuePop
  <1>3. ringHead' \in Slots
    <2>1. ringHead + 1 \in 0..(2 * BuzzerSize - 1)
      BY <1>0 DEF Slots
    <2> QED
      BY <1>1, <2>1, RingMod
  <1>4. ringCount' \in 0..(Bytes - 1)
    <2>1. ringCount + Bytes - 1 \in Nat
      BY <1>0
    <2>2. PICK m \in Nat : m = ringCount + Bytes - 1
      BY <2>1
    <2>3. m % Bytes \in 0..(Bytes - 1)
      BY <1>0
    <2> QED
      BY <1>1, <2>2, <2>3 DEF Byte
  <1> QED
    BY <1>0, <1>1, <1>2, <1>3, <1>4 DEF RingTyped

\* The tone that is taken is the first of the queue, and the others move up.
LEMMA PopKeepsQueue ==
  ASSUME BuzzerTypeOK, RingHolds, ~crossed', ringCount > 0, QueuePop
  PROVE  RingHolds'
  <1>0. /\ BuzzerSize \in Nat \ {0} /\ ring \in [Slots -> Tones] /\ queued \in Seq(Tones)
        /\ ringHead \in Slots /\ ringCount \in 1..BuzzerSize /\ ringTail \in Slots
        /\ ringCount = Len(queued) /\ queued # <<>>
        /\ \A k \in 1..Len(queued) : ring[(ringHead + k - 1) % BuzzerSize] = queued[k]
        /\ ringTail = (ringHead + ringCount) % BuzzerSize
    BY BuzzerAssumption DEF BuzzerTypeOK, RingHolds
  <1>1. /\ tone' = ring[ringHead] /\ ringHead' = (ringHead + 1) % BuzzerSize
        /\ queued' = Tail(queued) /\ ring' = ring /\ ringTail' = ringTail
    BY <1>0 DEF QueuePop
  <1>2. ringCount' = ringCount - 1
    <2>1. ringCount \in 1..(Bytes - 1)
      BY <1>0 DEF BuzzerTypeOK
    <2> QED
      BY <2>1, ByteDecrement DEF QueuePop
  <1>3. /\ queued' \in Seq(Tones) /\ Len(queued') = Len(queued) - 1
        /\ \A k \in 1..Len(queued') : queued'[k] = queued[k + 1]
    BY <1>0, <1>1, HeadTailProperties
  <1>4. ringHead' = Around(ringHead + 1) /\ ringHead' \in Slots
    <2>1. ringHead + 1 \in 0..(2 * BuzzerSize - 1)
      BY <1>0 DEF Slots
    <2> QED
      BY <1>1, <2>1, RingMod
  <1>5. \A k \in 0..(Len(queued) - 1) :
          (ringHead' + k) % BuzzerSize = (ringHead + k + 1) % BuzzerSize
    <2>1. SUFFICES ASSUME NEW k \in 0..(Len(queued) - 1)
                   PROVE  (ringHead' + k) % BuzzerSize = (ringHead + k + 1) % BuzzerSize
      OBVIOUS
    <2>2. /\ ringHead' + k \in 0..(2 * BuzzerSize - 1)
          /\ ringHead + k + 1 \in 0..(2 * BuzzerSize - 1)
      BY <1>0, <1>4 DEF Slots
    <2>3. Around(ringHead' + k) = Around(ringHead + k + 1)
      BY <1>0, <1>4 DEF Around, Slots
    <2> QED
      BY <2>2, <2>3, RingMod
  <1>6. \A k \in 1..Len(queued') : ring'[(ringHead' + k - 1) % BuzzerSize] = queued'[k]
    <2>1. SUFFICES ASSUME NEW k \in 1..Len(queued')
                   PROVE  ring[(ringHead' + k - 1) % BuzzerSize] = queued[k + 1]
      BY <1>1, <1>3
    <2>2. k - 1 \in 0..(Len(queued) - 1) /\ k + 1 \in 1..Len(queued)
      BY <1>0, <1>3
    <2>3. (ringHead' + (k - 1)) % BuzzerSize = (ringHead + (k - 1) + 1) % BuzzerSize
      BY <1>5, <2>2
    <2>4. ringHead' + (k - 1) = ringHead' + k - 1
          /\ ringHead + (k - 1) + 1 = ringHead + (k + 1) - 1
      BY <1>0, <1>4, <2>2 DEF Slots
    <2> QED
      BY <1>0, <2>2, <2>3, <2>4
  <1>7. ringTail' = (ringHead' + ringCount') % BuzzerSize
    <2>1. ringCount' \in 0..(Len(queued) - 1)
      BY <1>0, <1>2
    <2>2. (ringHead' + ringCount') % BuzzerSize = (ringHead + ringCount' + 1) % BuzzerSize
      BY <1>5, <2>1
    <2>3. ringHead + ringCount' + 1 = ringHead + ringCount
      BY <1>0, <1>2 DEF Slots
    <2> QED
      BY <1>0, <1>1, <2>2, <2>3
  <1>8. ringCount' = Len(queued') /\ ringCount' <= BuzzerSize
    BY <1>0, <1>2, <1>3
  <1> QED
    BY <1>6, <1>7, <1>8 DEF RingHolds

-----------------------------------------------------------------------------
(***************************************************************************)
(* The types hold whatever overlaps.                                       *)
(***************************************************************************)
MelodyTyped == tone \in Tones /\ stream \in Seq(Tones)

\* the switches, which no tone depends on
SwitchesTyped ==
  /\ toneActive \in BOOLEAN /\ silenceActive \in BOOLEAN /\ phaseOver \in BOOLEAN
  /\ enabled \in BOOLEAN /\ disableWhenIdle \in BOOLEAN /\ output \in BOOLEAN
  /\ update \in {"none", "take", "start"} /\ thenIdle \in BOOLEAN
  /\ booting \in BOOLEAN /\ disabling \in {"none", "clear", "silence"}

BeepTyped == beep \in [reads : BOOLEAN, tail : Slots, count : 0..(Bytes - 1)]

LEMMA BuzzerTypeParts ==
  BuzzerTypeOK <=> /\ RingTyped /\ MelodyTyped /\ SwitchesTyped /\ BeepTyped
                   /\ crossed \in BOOLEAN
  BY Zenon DEF BuzzerTypeOK, RingTyped, MelodyTyped, SwitchesTyped, BeepTyped

LEMMA NextTypeParts ==
  ASSUME RingTyped', MelodyTyped', SwitchesTyped', BeepTyped', crossed' \in BOOLEAN
  PROVE  BuzzerTypeOK'
  BY Zenon DEF BuzzerTypeOK, RingTyped, MelodyTyped, SwitchesTyped, BeepTyped

LEMMA CrossesTyped ==
  /\ InputCrosses => crossed' \in BOOLEAN
  /\ WebCrosses => crossed' \in BOOLEAN
  BY Zenon DEF InputCrosses, WebCrosses

LEMMA MelodiesTyped ==
  /\ \A e \in {"startup", "key", "layer", "encoder", "on", "off"} : Melodies[e] \in Seq(Tones)
  /\ <<>> \in Seq(Tones) /\ NoTone \in Tones
  <1>1. \A e \in {"startup", "key", "layer", "encoder", "on", "off"} :
          Melodies[e] \in Seq(Tones)
    BY BuzzerAssumption
  <1>2. NoTone \in Tones
    BY BuzzerAssumption DEF NoTone, Tones
  <1> QED
    BY <1>1, <1>2

\* What the steps that leave the ring alone keep.
LEMMA RingStays ==
  ASSUME UNCHANGED tonesVars
  PROVE  /\ RingTyped => RingTyped'
         /\ RingHolds => RingHolds'
         /\ ringCount' = ringCount /\ ringTail' = ringTail
  BY DEF RingTyped, RingHolds, tonesVars

LEMMA QueuePushTyped ==
  ASSUME BuzzerTypeOK, NEW tones \in Seq(Tones), QueuePush(tones)
  PROVE  RingTyped' /\ crossed' \in BOOLEAN
  <1>1. ringTail \in Slots /\ ringCount \in 0..(Bytes - 1)
    BY DEF BuzzerTypeOK
  <1> QED
    BY <1>1, PushTyped, CrossesTyped DEF QueuePush

\* What is left of a melody that is streamed.
LEMMA StreamTyped ==
  ASSUME BuzzerTypeOK, NEW m \in Seq(Tones),
         stream' = SubSeq(m, Len(Fitting(m, ringCount)) + 1, Len(m))
  PROVE  stream' \in Seq(Tones)
  <1>1. ringCount \in 0..(Bytes - 1)
    BY DEF BuzzerTypeOK
  <1> QED
    BY <1>1, FittingTyped

\* What turning it off with a tune leaves: a ring that begins at its first slot.
LEMMA RingStartsAgain ==
  ASSUME BuzzerTypeOK, NEW f \in Seq(Tones), Len(f) <= BuzzerSize,
         ring' = Filled(f, 0), ringHead' = 0, ringTail' = Len(f) % BuzzerSize,
         ringCount' = Len(f), queued' \in {<<>>, f}
  PROVE  RingTyped' /\ (queued' = f => RingHolds')
  <1>0. /\ BuzzerSize \in Nat \ {0} /\ ring \in [Slots -> Tones] /\ 0 \in Slots
        /\ Len(f) \in 0..BuzzerSize /\ Len(f) \in 0..(Bytes - 1)
    BY BuzzerAssumption DEF BuzzerTypeOK, Slots
  <1>1. ring' \in [Slots -> Tones]
    BY <1>0, FilledTyped
  <1>2. ringTail' \in Slots /\ ringTail' = (ringHead' + ringCount') % BuzzerSize
    <2>1. Len(f) \in 0..(2 * BuzzerSize - 1)
      BY <1>0
    <2>2. Len(f) % BuzzerSize \in Slots
      BY <2>1, RingMod
    <2>3. ringHead' + ringCount' = Len(f)
      BY <1>0
    <2> QED
      BY <2>2, <2>3
  <1>3. \A k \in 1..Len(f) : ring'[(ringHead' + k - 1) % BuzzerSize] = f[k]
    <2> DEFINE q == <<>>
    <2>1. q \in Seq(Tones) /\ Len(q) = 0 /\ q \o f = f
      OBVIOUS
    <2>2. (0 + Len(q)) % BuzzerSize = 0
      BY <1>0, <2>1
    <2>3. Len(q) + Len(f) <= BuzzerSize
      BY <1>0, <2>1
    <2>4. \A k \in 1..Len(q) : ring[(0 + k - 1) % BuzzerSize] = q[k]
      BY <2>1
    <2> HIDE DEF q
    <2>5. \A k \in 1..Len(q \o f) :
            Filled(f, (0 + Len(q)) % BuzzerSize)[(0 + k - 1) % BuzzerSize] = (q \o f)[k]
      BY <1>0, <2>1, <2>3, <2>4, FilledHolds
    <2> QED
      BY <2>1, <2>2, <2>5
  <1>4. queued' \in Seq(Tones)
    BY MelodiesTyped
  <1>5. RingTyped'
    BY <1>0, <1>1, <1>2, <1>4 DEF RingTyped
  <1>6. ASSUME queued' = f
        PROVE  RingHolds'
    <2>1. ringCount' = Len(queued') /\ ringCount' <= BuzzerSize
      BY <1>0, <1>6
    <2> QED
      BY <1>2, <1>3, <1>6, <2>1 DEF RingHolds
  <1> QED
    BY <1>5, <1>6

LEMMA ToggleOffRing ==
  ASSUME BuzzerTypeOK, ToggleOff
  PROVE  RingTyped' /\ (~crossed' => RingHolds')
  <1>1. PICK m \in {<<>>, Melodies["off"]} :
          /\ ring' = Filled(Fitting(m, 0), 0)
          /\ ringHead' = 0 /\ ringTail' = Len(Fitting(m, 0)) % BuzzerSize
          /\ ringCount' = Len(Fitting(m, 0))
          /\ queued' = IF crossed' THEN <<>> ELSE Fitting(m, 0)
    BY DEF ToggleOff
  <1>2. m \in Seq(Tones) /\ 0 \in 0..(Bytes - 1) /\ BuzzerSize \in Nat
    <2>1. 0 \in 0..(Bytes - 1) /\ BuzzerSize \in Nat
      BY BuzzerAssumption
    <2> QED
      BY <2>1, MelodiesTyped
  <1>3. PICK f : f = Fitting(m, 0)
    OBVIOUS
  <1>4. f \in Seq(Tones) /\ Len(f) \in 0..BuzzerSize
    BY <1>2, <1>3, FittingTyped
  <1>5. Len(f) <= BuzzerSize /\ queued' \in {<<>>, f} /\ (~crossed' => queued' = f)
    BY <1>1, <1>2, <1>3, <1>4
  <1> QED
    BY <1>1, <1>3, <1>4, <1>5, RingStartsAgain

LEMMA StopClearsRing ==
  ASSUME BuzzerTypeOK, StopClears
  PROVE  RingTyped' /\ RingHolds'
  <1>1. /\ ring' = ring /\ ringHead' = 0 /\ ringTail' = 0 /\ ringCount' = 0
        /\ queued' = <<>>
    BY DEF StopClears, QueueClear
  <1>2. /\ ring \in [Slots -> Tones] /\ 0 \in Slots /\ 0 \in 0..(Bytes - 1)
        /\ BuzzerSize \in Nat \ {0}
    BY BuzzerAssumption DEF BuzzerTypeOK, Slots
  <1>3. RingTyped'
    BY <1>1, <1>2, MelodiesTyped DEF RingTyped
  <1>4. ringCount' = Len(queued') /\ Len(queued') = 0 /\ ringCount' <= BuzzerSize
    BY <1>1, <1>2
  <1>5. ringTail' = (ringHead' + ringCount') % BuzzerSize
    BY <1>1, <1>2
  <1> QED
    BY <1>3, <1>4, <1>5 DEF RingHolds

\* Every step keeps the ring, the tone and the melody typed.
LEMMA RingTypeStep ==
  ASSUME BuzzerTypeOK, [BuzzerNext]_buzzerVars
  PROVE  RingTyped' /\ MelodyTyped' /\ crossed' \in BOOLEAN
  <1>0. RingTyped /\ tone \in Tones /\ stream \in Seq(Tones) /\ crossed \in BOOLEAN
    BY BuzzerTypeParts DEF MelodyTyped
  <1>1. ASSUME UNCHANGED <<tonesVars, tone, stream>>
        PROVE  RingTyped' /\ MelodyTyped'
    BY <1>0, <1>1, RingStays DEF MelodyTyped
  <1>2. ASSUME NEW m \in Seq(Tones), QueuePush(m), UNCHANGED <<tone, stream>>
        PROVE  RingTyped' /\ MelodyTyped' /\ crossed' \in BOOLEAN
    BY <1>0, <1>2, QueuePushTyped DEF MelodyTyped
  <1>3. ASSUME NEW m \in Seq(Tones), QueuePush(m), tone' = tone,
               stream' = SubSeq(m, Len(Fitting(m, ringCount)) + 1, Len(m))
        PROVE  RingTyped' /\ MelodyTyped' /\ crossed' \in BOOLEAN
    BY <1>0, <1>3, QueuePushTyped, StreamTyped DEF MelodyTyped
  <1>4. ASSUME NEW e \in {"key", "layer", "encoder"}, PlayRtttl(e)
        PROVE  RingTyped' /\ MelodyTyped' /\ crossed' \in BOOLEAN
    BY <1>2, <1>4, MelodiesTyped DEF PlayRtttl, phaseVars, modeVars
  <1>5. CASE PlayKeypress
    BY <1>4, <1>5 DEF PlayKeypress
  <1>6. CASE PlayLayerSwitch
    BY <1>4, <1>6 DEF PlayLayerSwitch
  <1>7. CASE PlayEncoderStep
    BY <1>4, <1>7 DEF PlayEncoderStep
  <1>8. CASE WebBeepReads
    BY <1>1, <1>8, CrossesTyped DEF WebBeepReads, phaseVars, modeVars
  <1>9. CASE WebBeepWrites
    <2>1. /\ QueuePushAt(Melodies["layer"], beep.tail, beep.count) /\ WebCrosses
          /\ tone' = tone /\ stream' = stream
      BY <1>9 DEF WebBeepWrites, phaseVars, modeVars
    <2>2. beep.tail \in Slots /\ beep.count \in 0..(Bytes - 1)
      BY DEF BuzzerTypeOK
    <2> QED
      BY <1>0, <2>1, <2>2, PushTyped, CrossesTyped, MelodiesTyped DEF MelodyTyped
  <1>10. CASE PlayStartup
    <2>1. PICK m \in {<<>>, Melodies["startup"]} :
            /\ QueuePush(m)
            /\ stream' = SubSeq(m, Len(Fitting(m, ringCount)) + 1, Len(m))
      BY <1>10 DEF PlayStartup
    <2>2. m \in Seq(Tones) /\ tone' = tone
      BY <1>10, MelodiesTyped DEF PlayStartup, phaseVars
    <2> QED
      BY <1>3, <2>1, <2>2
  <1>11. CASE PhaseEnds
    BY <1>0, <1>1, <1>11 DEF PhaseEnds, modeVars
  <1>12. CASE Update
    <2>1. FeedStream /\ tone' = tone
      BY <1>12 DEF Update, phaseVars
    <2> QED
      BY <1>0, <1>3, <2>1 DEF FeedStream
  <1>13. CASE TakeNothing
    BY <1>1, <1>13, CrossesTyped DEF TakeNothing
  <1>14. CASE Take
    BY <1>1, <1>14, CrossesTyped DEF Take, phaseVars, modeVars
  <1>15. CASE StartTone
    BY <1>0, <1>15, PopTyped, CrossesTyped DEF StartTone, MelodyTyped
  <1>16. CASE ToggleOff
    <2>1. tone' = tone /\ stream' = <<>> /\ crossed' = WebIsBusy
      BY <1>16 DEF ToggleOff
    <2>2. crossed' \in BOOLEAN
      BY <2>1, Zenon DEF WebIsBusy
    <2> QED
      BY <1>0, <1>16, <2>1, <2>2, ToggleOffRing, MelodiesTyped DEF MelodyTyped
  <1>17. CASE ToggleOn
    BY <1>2, <1>17, MelodiesTyped DEF ToggleOn, phaseVars
  <1>18. CASE SetEnabled
    BY <1>0, <1>1, <1>18 DEF SetEnabled, phaseVars
  <1>19. CASE SetDisabled
    BY <1>1, <1>19, CrossesTyped DEF SetDisabled, phaseVars
  <1>20. CASE StopClears
    <2>1. tone' = NoTone /\ stream' = <<>> /\ crossed' = (update # "none")
      BY <1>20 DEF StopClears
    <2>2. crossed' \in BOOLEAN
      BY <2>1
    <2> QED
      BY <1>20, <2>1, <2>2, StopClearsRing, MelodiesTyped DEF MelodyTyped
  <1>21. CASE StopSilences
    BY <1>1, <1>21, CrossesTyped DEF StopSilences, modeVars
  <1>22. CASE UNCHANGED buzzerVars
    BY <1>0, <1>1, <1>22 DEF buzzerVars, phaseVars, modeVars
  <1> QED
    BY <1>5, <1>6, <1>7, <1>8, <1>9, <1>10, <1>11, <1>12, <1>13, <1>14, <1>15, <1>16, <1>17,
       <1>18, <1>19, <1>20, <1>21, <1>22 DEF BuzzerNext, BuzzerUpdate, SetEnabledFalse

\* Every step keeps the switches and what a beep has read typed.
LEMMA SwitchesTypeStep ==
  ASSUME BuzzerTypeOK, [BuzzerNext]_buzzerVars
  PROVE  SwitchesTyped' /\ BeepTyped'
  <1>0. SwitchesTyped /\ BeepTyped
    BY BuzzerTypeParts
  <1>1. tone' \in Tones
    BY RingTypeStep DEF MelodyTyped
  <1>2. NoBeep \in [reads : BOOLEAN, tail : Slots, count : 0..(Bytes - 1)]
    BY BuzzerAssumption DEF NoBeep, Slots
  <1>3. beep' = beep \/ beep' = NoBeep => BeepTyped'
    BY <1>0, <1>2, Zenon DEF BeepTyped
  <1>4. ASSUME UNCHANGED <<phaseVars, enabled, disableWhenIdle, update, thenIdle, disabling>>,
               booting' \in BOOLEAN
        PROVE  SwitchesTyped'
    BY <1>0, <1>4, Zenon DEF SwitchesTyped, phaseVars
  <1>5. booting' = booting => booting' \in BOOLEAN
    BY <1>0, Zenon DEF SwitchesTyped
  <1>6. ASSUME NEW e \in {"key", "layer", "encoder"}, PlayRtttl(e)
        PROVE  SwitchesTyped' /\ BeepTyped'
    BY <1>3, <1>4, <1>5, <1>6, Zenon DEF PlayRtttl, modeVars, stepVars
  <1>7. CASE PlayKeypress
    BY <1>6, <1>7 DEF PlayKeypress
  <1>8. CASE PlayLayerSwitch
    BY <1>6, <1>8 DEF PlayLayerSwitch
  <1>9. CASE PlayEncoderStep
    BY <1>6, <1>9 DEF PlayEncoderStep
  <1>10. CASE WebBeepReads
    <2>1. SwitchesTyped'
      BY <1>4, <1>5, <1>10, Zenon DEF WebBeepReads, modeVars
    <2>2. beep' = [reads |-> TRUE, tail |-> ringTail, count |-> ringCount]
      BY <1>10 DEF WebBeepReads
    <2>3. ringTail \in Slots /\ ringCount \in 0..(Bytes - 1)
      BY DEF BuzzerTypeOK
    <2> QED
      BY <2>1, <2>2, <2>3 DEF BeepTyped
  <1>11. CASE WebBeepWrites
    BY <1>3, <1>4, <1>5, <1>11, Zenon DEF WebBeepWrites, modeVars
  <1>12. CASE PlayStartup
    <2>1. booting' = FALSE /\ beep' = beep
      BY <1>12 DEF PlayStartup
    <2>2. UNCHANGED <<phaseVars, enabled, disableWhenIdle, update, thenIdle, disabling>>
      BY <1>12, Zenon DEF PlayStartup
    <2> QED
      BY <1>3, <1>4, <2>1, <2>2, Zenon
  <1>13. CASE PhaseEnds
    <2>1. /\ phaseOver' = TRUE /\ beep' = beep
          /\ UNCHANGED <<toneActive, silenceActive, output, enabled, disableWhenIdle, update,
                         thenIdle, booting, disabling>>
      BY <1>13 DEF PhaseEnds, modeVars, stepVars
    <2> QED
      BY <1>0, <1>3, <2>1, Zenon DEF SwitchesTyped
  <1>14. CASE Update
    <2>0. /\ update = "none" /\ beep' = beep
          /\ UNCHANGED <<enabled, disableWhenIdle, booting, disabling>>
      BY <1>14 DEF Update, InputFree
    <2>1. CASE GoOn(TRUE) /\ UNCHANGED phaseVars
      BY <1>0, <1>3, <2>0, <2>1, Zenon DEF GoOn, phaseVars, SwitchesTyped
    <2>2. CASE /\ output' = FALSE /\ toneActive' = FALSE
               /\ IF tone.gap
                    THEN silenceActive' = TRUE /\ phaseOver' = FALSE
                         /\ UNCHANGED <<update, thenIdle>>
                    ELSE GoOn(FALSE) /\ UNCHANGED <<silenceActive, phaseOver>>
      <3>1. CASE tone.gap
        BY <1>0, <1>3, <2>0, <2>2, <3>1, Zenon DEF SwitchesTyped
      <3>2. CASE ~tone.gap
        BY <1>0, <1>3, <2>0, <2>2, <3>2, Zenon DEF SwitchesTyped, GoOn
      <3> QED
        BY <3>1, <3>2
    <2>3. CASE silenceActive' = FALSE /\ GoOn(TRUE)
               /\ UNCHANGED <<tone, toneActive, phaseOver, output>>
      BY <1>0, <1>3, <2>0, <2>3, Zenon DEF GoOn, SwitchesTyped
    <2>4. CASE UNCHANGED <<phaseVars, update, thenIdle>>
      BY <1>0, <1>3, <2>0, <2>4, Zenon DEF phaseVars, SwitchesTyped
    <2> QED
      BY <1>14, <2>1, <2>2, <2>3, <2>4, Zenon DEF Update
  <1>15. CASE TakeNothing
    <2>0. /\ update' = "none" /\ enabled' = (enabled /\ ~Idle) /\ beep' = beep
          /\ disableWhenIdle' = (disableWhenIdle /\ ~Idle) /\ output' = (output /\ ~Idle)
          /\ UNCHANGED <<toneActive, silenceActive, phaseOver, thenIdle, booting, disabling>>
      BY <1>15 DEF TakeNothing
    <2> QED
      BY <1>0, <1>3, <2>0, Zenon DEF SwitchesTyped
  <1>16. CASE Take
    <2>0. /\ update' = "start" /\ beep' = beep
          /\ UNCHANGED <<toneActive, silenceActive, phaseOver, output, enabled,
                         disableWhenIdle, thenIdle, booting, disabling>>
      BY <1>16 DEF Take, phaseVars, modeVars
    <2> QED
      BY <1>0, <1>3, <2>0, Zenon DEF SwitchesTyped
  <1>17. CASE StartTone
    <2>0. /\ update' = "none" /\ phaseOver' = FALSE /\ beep' = beep
          /\ disabling' = disabling /\ booting' = booting /\ thenIdle' = thenIdle
      BY <1>17 DEF StartTone
    <2>1. PICK works \in BOOLEAN :
            /\ toneActive' = (~tone'.rest /\ works)
            /\ silenceActive' = tone'.rest
            /\ output' = (output \/ toneActive')
      BY <1>17 DEF StartTone
    <2>2. tone'.rest \in BOOLEAN
      BY <1>1 DEF Tones
    <2>3. toneActive' \in BOOLEAN /\ silenceActive' \in BOOLEAN /\ output' \in BOOLEAN
      BY <2>1, <2>2, Zenon
    <2>4. PICK over \in BOOLEAN :
            /\ enabled' = (enabled /\ ~over)
            /\ disableWhenIdle' = (disableWhenIdle /\ ~over)
      BY <1>17, Zenon DEF StartTone
    <2> QED
      BY <1>0, <1>3, <2>0, <2>3, <2>4, Zenon DEF SwitchesTyped
  <1>18. CASE ToggleOff
    <2>0. /\ enabled' = disableWhenIdle' /\ disableWhenIdle' \in BOOLEAN /\ beep' = beep
          /\ toneActive' = FALSE /\ silenceActive' = FALSE /\ output' = FALSE
          /\ UNCHANGED <<phaseOver, update, disabling, thenIdle, booting>>
      BY <1>18, Zenon DEF ToggleOff, stepVars
    <2> QED
      BY <1>0, <1>3, <2>0, Zenon DEF SwitchesTyped
  <1>19. ASSUME enabled' = TRUE, disableWhenIdle' = FALSE, UNCHANGED <<phaseVars, stepVars>>
         PROVE  SwitchesTyped' /\ BeepTyped'
    BY <1>0, <1>3, <1>19, Zenon DEF SwitchesTyped, phaseVars, stepVars
  <1>20. CASE ToggleOn
    BY <1>19, <1>20, Zenon DEF ToggleOn
  <1>21. CASE SetEnabled
    BY <1>19, <1>21, Zenon DEF SetEnabled
  <1>22. CASE SetDisabled
    <2>0. /\ disabling' = "clear" /\ enabled' = FALSE /\ disableWhenIdle' = FALSE
          /\ beep' = beep
          /\ UNCHANGED <<toneActive, silenceActive, phaseOver, output, update, thenIdle,
                         booting>>
      BY <1>22, Zenon DEF SetDisabled, phaseVars
    <2> QED
      BY <1>0, <1>3, <2>0, Zenon DEF SwitchesTyped
  <1>23. CASE StopClears
    <2>0. /\ disabling' = "silence" /\ beep' = beep
          /\ toneActive' = FALSE /\ silenceActive' = FALSE /\ disableWhenIdle' = FALSE
          /\ UNCHANGED <<phaseOver, output, enabled, update, thenIdle, booting>>
      BY <1>23 DEF StopClears
    <2> QED
      BY <1>0, <1>3, <2>0, Zenon DEF SwitchesTyped
  <1>24. CASE StopSilences
    <2>0. /\ disabling' = "none" /\ output' = FALSE /\ beep' = beep
          /\ UNCHANGED <<toneActive, silenceActive, phaseOver, enabled, disableWhenIdle,
                         update, thenIdle, booting>>
      BY <1>24 DEF StopSilences, modeVars
    <2> QED
      BY <1>0, <1>3, <2>0, Zenon DEF SwitchesTyped
  <1>25. CASE UNCHANGED buzzerVars
    <2>1. /\ UNCHANGED <<phaseVars, enabled, disableWhenIdle, update, thenIdle, disabling>>
          /\ booting' = booting /\ beep' = beep
      BY <1>25, Zenon DEF buzzerVars, modeVars, stepVars
    <2> QED
      BY <1>3, <1>4, <1>5, <2>1, Zenon
  <1> QED
    BY <1>7, <1>8, <1>9, <1>10, <1>11, <1>12, <1>13, <1>14, <1>15, <1>16, <1>17, <1>18,
       <1>20, <1>21, <1>22, <1>23, <1>24, <1>25
       DEF BuzzerNext, BuzzerUpdate, SetEnabledFalse

LEMMA BuzzerTypeStep ==
  ASSUME BuzzerTypeOK, [BuzzerNext]_buzzerVars
  PROVE  BuzzerTypeOK'
  BY RingTypeStep, SwitchesTypeStep, NextTypeParts

\* A call of the web server's task begins when it is in none.
LEMMA OneWebCallStep ==
  ASSUME BuzzerTypeOK, OneWebCall, [BuzzerNext]_buzzerVars
  PROVE  OneWebCall'
  <1>1. ASSUME UNCHANGED stepVars
        PROVE  OneWebCall'
    BY <1>1 DEF OneWebCall, stepVars
  <1>2. ASSUME UNCHANGED <<beep, disabling>>
        PROVE  OneWebCall'
    BY <1>2 DEF OneWebCall
  <1>3. ASSUME NEW e \in {"key", "layer", "encoder"}, PlayRtttl(e)
        PROVE  OneWebCall'
    BY <1>1, <1>3 DEF PlayRtttl
  <1>4. CASE PlayKeypress \/ PlayLayerSwitch \/ PlayEncoderStep
    BY <1>3, <1>4 DEF PlayKeypress, PlayLayerSwitch, PlayEncoderStep
  <1>5. CASE WebBeepReads
    BY <1>5 DEF WebBeepReads, WebFree, OneWebCall
  <1>6. CASE WebBeepWrites
    BY <1>6 DEF WebBeepWrites, NoBeep, OneWebCall
  <1>7. CASE PlayStartup \/ BuzzerUpdate
    BY <1>2, <1>7 DEF PlayStartup, BuzzerUpdate, Update, TakeNothing, Take, StartTone
  <1>8. CASE PhaseEnds \/ ToggleOff \/ ToggleOn \/ SetEnabled
    BY <1>1, <1>8 DEF PhaseEnds, ToggleOff, ToggleOn, SetEnabled
  <1>9. CASE SetEnabledFalse
    <2>1. ~beep.reads /\ beep' = beep
      BY <1>9 DEF SetEnabledFalse, SetDisabled, StopClears, StopSilences, WebFree, OneWebCall
    <2> QED
      BY <2>1 DEF OneWebCall
  <1>10. CASE UNCHANGED buzzerVars
    BY <1>1, <1>10 DEF buzzerVars
  <1> QED
    BY <1>4, <1>5, <1>6, <1>7, <1>8, <1>9, <1>10 DEF BuzzerNext

-----------------------------------------------------------------------------
(***************************************************************************)
(* Between steps that nothing overlaps, the ring stays the queue, and a    *)
(* buzzer that is off silent.                                              *)
(***************************************************************************)
\* No step but a beep or a clearing that is left alone leaves calls uncrossed that
\* were crossed, and none leaves them uncrossed while both tasks are in one.
LEMMA CrossesByName ==
  /\ InputCrosses /\ ~crossed' => ~crossed /\ disabling = "none" /\ ~beep.reads
  /\ WebCrosses /\ ~crossed' => ~crossed /\ update = "none"
  BY Zenon DEF InputCrosses, WebCrosses, WebIsBusy

LEMMA RingInvariance ==
  ASSUME BuzzerIInv, ~crossed, ~crossed', [BuzzerNext]_buzzerVars
  PROVE  RingHolds'
  <1>0. BuzzerTypeOK /\ RingHolds /\ CallsExclude
    BY DEF BuzzerIInv
  <1>1. ASSUME UNCHANGED tonesVars
        PROVE  RingHolds'
    BY <1>0, <1>1, RingStays
  <1>2. ASSUME NEW m \in Seq(Tones), QueuePush(m)
        PROVE  RingHolds'
    BY <1>0, <1>2, PushKeepsQueue DEF QueuePush
  <1>3. ASSUME NEW e \in {"key", "layer", "encoder"}, PlayRtttl(e)
        PROVE  RingHolds'
    BY <1>2, <1>3, MelodiesTyped DEF PlayRtttl
  <1>4. CASE PlayKeypress \/ PlayLayerSwitch \/ PlayEncoderStep
    BY <1>3, <1>4 DEF PlayKeypress, PlayLayerSwitch, PlayEncoderStep
  <1>5. CASE WebBeepWrites
    <2>1. QueuePushAt(Melodies["layer"], ringTail, ringCount)
      BY <1>0, <1>5 DEF WebBeepWrites, CallsExclude
    <2> QED
      BY <1>0, <2>1, PushKeepsQueue, MelodiesTyped
  <1>6. CASE PlayStartup
    <2>1. PICK m \in {<<>>, Melodies["startup"]} : QueuePush(m)
      BY <1>6 DEF PlayStartup
    <2> QED
      BY <1>2, <2>1, MelodiesTyped
  <1>7. CASE Update
    <2>1. stream \in Seq(Tones) /\ QueuePush(stream)
      BY <1>0, <1>7 DEF BuzzerTypeOK, Update, FeedStream
    <2> QED
      BY <1>2, <2>1
  <1>8. CASE StartTone
    <2>1. ringCount > 0 /\ QueuePop
      BY <1>0, <1>8 DEF StartTone, CallsExclude
    <2> QED
      BY <1>0, <2>1, PopKeepsQueue
  <1>9. CASE ToggleOff
    BY <1>0, <1>9, ToggleOffRing
  <1>10. CASE ToggleOn
    BY <1>2, <1>10, MelodiesTyped DEF ToggleOn
  <1>11. CASE StopClears
    BY <1>0, <1>11, StopClearsRing
  <1>12. CASE WebBeepReads \/ PhaseEnds \/ TakeNothing \/ Take
    BY <1>1, <1>12 DEF WebBeepReads, PhaseEnds, TakeNothing, Take
  <1>13. CASE SetEnabled \/ SetDisabled \/ StopSilences
    BY <1>1, <1>13 DEF SetEnabled, SetDisabled, StopSilences
  <1>14. CASE UNCHANGED buzzerVars
    BY <1>1, <1>14 DEF buzzerVars
  <1> QED
    BY <1>4, <1>5, <1>6, <1>7, <1>8, <1>9, <1>10, <1>11, <1>12, <1>13, <1>14
       DEF BuzzerNext, BuzzerUpdate, SetEnabledFalse

\* Whether the buzzer is on and sounds, and what takes part in its calls.
Switches == CallsExclude /\ UpdateIsSilent /\ SilentWhenDisabled

\* The steps that leave the switches alone, but for the ring's count that may grow.
LEMMA SwitchesStay ==
  ASSUME BuzzerTypeOK, Switches, ~crossed, ringCount' \in Nat, ringCount' >= ringCount,
         UNCHANGED <<toneActive, output, enabled, disableWhenIdle, update, disabling>>,
         beep.reads => ringCount' = ringCount /\ ringTail' = ringTail,
         beep' = beep
  PROVE  Switches'
  <1>1. ringCount > 0 => ringCount' > 0
    <2>1. ringCount \in Nat
      BY BuzzerAssumption DEF BuzzerTypeOK
    <2> QED
      BY <2>1
  <1>2. CallsExclude'
    BY <1>1, Zenon DEF CallsExclude, Switches
  <1>3. UpdateIsSilent' /\ SilentWhenDisabled'
    BY Zenon DEF UpdateIsSilent, SilentWhenDisabled, Switches
  <1> QED
    BY <1>2, <1>3 DEF Switches

\* A clearing that nothing overlaps leaves a silent buzzer, whatever was before.
LEMMA ClearingSilences ==
  ASSUME BuzzerTypeOK, OneWebCall, ~crossed', ToggleOff \/ StopClears
  PROVE  Switches'
  <1>1. CASE ToggleOff
    <2>0. /\ update' = "none" /\ disabling' = "none" /\ ~beep'.reads
          /\ enabled' = disableWhenIdle' /\ output' = FALSE
      <3>1. crossed' = WebIsBusy /\ update = "none" /\ enabled' = disableWhenIdle'
            /\ output' = FALSE /\ UNCHANGED <<update, disabling, beep>>
        BY <1>1 DEF ToggleOff, InputFree, stepVars
      <3>2. disabling = "none" /\ ~beep.reads
        BY <3>1, Zenon DEF WebIsBusy
      <3> QED
        BY <3>1, <3>2
    <2>1. CallsExclude'
      BY <2>0 DEF CallsExclude
    <2>2. UpdateIsSilent' /\ SilentWhenDisabled'
      BY <2>0, Zenon DEF UpdateIsSilent, SilentWhenDisabled
    <2> QED
      BY <2>1, <2>2 DEF Switches
  <1>2. CASE StopClears
    <2>0. /\ update' = "none" /\ disabling' = "silence" /\ disableWhenIdle' = FALSE
          /\ ~beep'.reads
      BY <1>2 DEF StopClears, OneWebCall
    <2>1. CallsExclude' /\ UpdateIsSilent' /\ SilentWhenDisabled'
      BY <2>0 DEF CallsExclude, UpdateIsSilent, SilentWhenDisabled
    <2> QED
      BY <2>1 DEF Switches
  <1> QED
    BY <1>1, <1>2

LEMMA SwitchesInvariance ==
  ASSUME BuzzerIInv, ~crossed, ~crossed', [BuzzerNext]_buzzerVars
  PROVE  Switches'
  <1>0. BuzzerTypeOK /\ RingHolds /\ Switches /\ OneWebCall
    BY DEF BuzzerIInv, Switches
  <1>1. CallsExclude /\ UpdateIsSilent /\ SilentWhenDisabled
    BY <1>0 DEF Switches
  <1>2. /\ ringCount \in Nat /\ ringCount' \in Nat
        /\ ringCount' = ringCount => ringCount' >= ringCount
    BY <1>0, BuzzerTypeStep, BuzzerAssumption DEF BuzzerTypeOK
  <1>3. ASSUME NEW m \in Seq(Tones), QueuePush(m)
        PROVE  ringCount' >= ringCount /\ disabling = "none" /\ ~beep.reads
    BY <1>0, <1>3, PushKeepsQueue, CrossesByName DEF QueuePush
  <1>4. ASSUME NEW m \in Seq(Tones), QueuePush(m), beep' = beep,
               UNCHANGED <<toneActive, output, enabled, disableWhenIdle, update, disabling>>
        PROVE  Switches'
    BY <1>0, <1>2, <1>3, <1>4, SwitchesStay
  <1>5. ASSUME NEW e \in {"key", "layer", "encoder"}, PlayRtttl(e)
        PROVE  Switches'
    BY <1>4, <1>5, MelodiesTyped DEF PlayRtttl, phaseVars, modeVars, stepVars
  <1>6. CASE PlayKeypress \/ PlayLayerSwitch \/ PlayEncoderStep
    BY <1>5, <1>6 DEF PlayKeypress, PlayLayerSwitch, PlayEncoderStep
  <1>7. CASE WebBeepReads
    <2>0. /\ update = "none" /\ disabling = "none" /\ update' = "none" /\ disabling' = "none"
          /\ UNCHANGED <<ringCount, ringTail, output, toneActive, enabled, disableWhenIdle>>
          /\ beep' = [reads |-> TRUE, tail |-> ringTail, count |-> ringCount]
      BY <1>7, CrossesByName
         DEF WebBeepReads, WebFree, tonesVars, phaseVars, modeVars
    <2>1. CallsExclude'
      BY <2>0 DEF CallsExclude
    <2>2. UpdateIsSilent' /\ SilentWhenDisabled'
      BY <1>1, <2>0, Zenon DEF UpdateIsSilent, SilentWhenDisabled
    <2> QED
      BY <2>1, <2>2 DEF Switches
  <1>8. CASE WebBeepWrites
    <2>0. /\ update = "none" /\ disabling = "none" /\ update' = "none" /\ disabling' = "none"
          /\ UNCHANGED <<output, toneActive, enabled, disableWhenIdle>>
          /\ beep' = NoBeep
      <3>1. update = "none" /\ beep.reads
        BY <1>8, CrossesByName DEF WebBeepWrites
      <3> QED
        BY <1>0, <1>8, <3>1 DEF WebBeepWrites, OneWebCall, phaseVars, modeVars
    <2>1. CallsExclude'
      BY <2>0 DEF CallsExclude, NoBeep
    <2>2. UpdateIsSilent' /\ SilentWhenDisabled'
      BY <1>1, <2>0, Zenon DEF UpdateIsSilent, SilentWhenDisabled
    <2> QED
      BY <2>1, <2>2 DEF Switches
  <1>9. CASE PlayStartup
    <2>1. PICK m \in {<<>>, Melodies["startup"]} : QueuePush(m)
      BY <1>9 DEF PlayStartup
    <2>2. m \in Seq(Tones)
      BY MelodiesTyped
    <2>3. /\ beep' = beep
          /\ UNCHANGED <<toneActive, output, enabled, disableWhenIdle, update, disabling>>
      BY <1>9 DEF PlayStartup, phaseVars
    <2> QED
      BY <1>4, <2>1, <2>2, <2>3
  <1>10. CASE PhaseEnds
    BY <1>0, <1>2, <1>10, SwitchesStay DEF PhaseEnds, tonesVars, modeVars, stepVars
  <1>11. CASE Update
    <2>0. /\ update = "none" /\ disabling = "none" /\ disabling' = "none"
          /\ ~beep.reads /\ ~beep'.reads
          /\ enabled /\ enabled' = enabled /\ disableWhenIdle' = disableWhenIdle
      <3>1. stream \in Seq(Tones) /\ QueuePush(stream)
        BY <1>0, <1>11 DEF BuzzerTypeOK, Update, FeedStream
      <3>2. disabling = "none" /\ ~beep.reads
        BY <1>3, <3>1
      <3>3. update = "none" /\ (enabled \/ disableWhenIdle)
            /\ UNCHANGED <<enabled, disableWhenIdle, disabling, beep>>
        BY <1>11 DEF Update, InputFree
      <3> QED
        BY <1>1, <3>2, <3>3, Zenon DEF UpdateIsSilent
    <2>1. output => toneActive
      BY <1>1, <2>0, Zenon DEF SilentWhenDisabled
    <2>2. CASE ~toneActive /\ GoOn(TRUE) /\ UNCHANGED phaseVars
      <3>1. CallsExclude'
        BY <2>0, <2>2 DEF CallsExclude, GoOn
      <3>2. UpdateIsSilent' /\ SilentWhenDisabled'
        BY <2>0, <2>1, <2>2, Zenon DEF UpdateIsSilent, SilentWhenDisabled, phaseVars
      <3> QED
        BY <3>1, <3>2 DEF Switches
    <2>3. CASE /\ output' = FALSE /\ toneActive' = FALSE
               /\ IF tone.gap
                    THEN silenceActive' = TRUE /\ phaseOver' = FALSE
                         /\ UNCHANGED <<update, thenIdle>>
                    ELSE GoOn(FALSE) /\ UNCHANGED <<silenceActive, phaseOver>>
      <3>1. update' \in {"none", "take"}
        BY <2>0, <2>3 DEF GoOn
      <3>2. CallsExclude'
        BY <2>0, <3>1 DEF CallsExclude
      <3>3. UpdateIsSilent' /\ SilentWhenDisabled'
        BY <1>1, <2>0, <2>3, Zenon DEF UpdateIsSilent, SilentWhenDisabled
      <3> QED
        BY <3>2, <3>3 DEF Switches
    <2>4. CASE ~toneActive /\ GoOn(TRUE) /\ UNCHANGED <<tone, toneActive, phaseOver, output>>
      <3>1. CallsExclude'
        BY <2>0, <2>4 DEF CallsExclude, GoOn
      <3>2. UpdateIsSilent' /\ SilentWhenDisabled'
        BY <2>0, <2>1, <2>4, Zenon DEF UpdateIsSilent, SilentWhenDisabled
      <3> QED
        BY <3>1, <3>2 DEF Switches
    <2>5. CASE UNCHANGED <<phaseVars, update, thenIdle>>
      <3>1. CallsExclude'
        BY <2>0, <2>5 DEF CallsExclude
      <3>2. UpdateIsSilent' /\ SilentWhenDisabled'
        BY <2>0, <2>1, <2>5, Zenon DEF UpdateIsSilent, SilentWhenDisabled, phaseVars
      <3> QED
        BY <3>1, <3>2 DEF Switches
    <2> QED
      BY <1>11, <2>2, <2>3, <2>4, <2>5, Zenon DEF Update
  <1>12. CASE TakeNothing
    <2>0. /\ update = "take" /\ update' = "none" /\ enabled' = (enabled /\ ~Idle)
          /\ disableWhenIdle' = (disableWhenIdle /\ ~Idle) /\ output' = (output /\ ~Idle)
          /\ toneActive' = toneActive
          /\ ~beep'.reads /\ disabling' = "none"
      BY <1>12, CrossesByName DEF TakeNothing
    <2>1. enabled /\ ~output /\ ~toneActive
      BY <1>1, <2>0 DEF UpdateIsSilent
    <2>2. CallsExclude'
      BY <2>0 DEF CallsExclude
    <2>3. UpdateIsSilent' /\ SilentWhenDisabled'
      BY <1>1, <2>0, <2>1, Zenon DEF UpdateIsSilent, SilentWhenDisabled
    <2> QED
      BY <2>2, <2>3 DEF Switches
  <1>13. CASE Take
    <2>0. /\ update = "take" /\ update' = "start" /\ ringCount' = ringCount /\ ringCount > 0
          /\ UNCHANGED <<toneActive, output, enabled, disableWhenIdle>>
          /\ ~beep'.reads /\ disabling' = "none"
      BY <1>13, CrossesByName DEF Take, tonesVars, phaseVars, modeVars
    <2>1. enabled /\ ~output /\ ~toneActive
      BY <1>1, <2>0 DEF UpdateIsSilent
    <2>2. CallsExclude'
      BY <2>0 DEF CallsExclude
    <2>3. update' # "none"
      BY <2>0
    <2>4. UpdateIsSilent' /\ SilentWhenDisabled'
      BY <2>0, <2>1, <2>3, Zenon DEF UpdateIsSilent, SilentWhenDisabled
    <2> QED
      BY <2>2, <2>4 DEF Switches
  <1>14. CASE StartTone
    <2>0. /\ update = "start" /\ update' = "none"
          /\ ~beep'.reads /\ disabling' = "none"
      BY <1>14, CrossesByName DEF StartTone
    <2>1. enabled /\ ~output
      BY <1>1, <2>0 DEF UpdateIsSilent
    <2>2. tone'.rest \in BOOLEAN
      BY <1>0, RingTypeStep DEF Tones, MelodyTyped
    <2>3. PICK works \in BOOLEAN :
            /\ toneActive' = (~tone'.rest /\ works)
            /\ output' = (output \/ toneActive')
      BY <1>14 DEF StartTone
    <2>4. output' = toneActive'
      BY <2>1, <2>2, <2>3, Zenon
    <2>5. PICK over \in BOOLEAN :
            /\ over = (Idle /\ ringCount' = 0 /\ ~toneActive' /\ ~silenceActive')
            /\ enabled' = (enabled /\ ~over)
            /\ disableWhenIdle' = (disableWhenIdle /\ ~over)
      BY <1>14, Zenon DEF StartTone
    <2>6. CallsExclude'
      BY <2>0 DEF CallsExclude
    <2>7. UpdateIsSilent'
      BY <2>0, <2>1, <2>5, Zenon DEF UpdateIsSilent
    <2>8. SilentWhenDisabled'
      BY <2>1, <2>4, <2>5, Zenon DEF SilentWhenDisabled
    <2> QED
      BY <2>6, <2>7, <2>8 DEF Switches
  <1>15. CASE ToggleOn
    <2>0. QueuePush(Melodies["on"]) /\ enabled' = TRUE /\ disableWhenIdle' = FALSE
          /\ UNCHANGED <<output, toneActive, update, disabling, beep>> /\ update = "none"
      BY <1>15 DEF ToggleOn, phaseVars, stepVars, InputFree
    <2>1. disabling = "none" /\ ~beep.reads
      BY <1>3, <2>0, MelodiesTyped
    <2>2. CallsExclude'
      BY <2>0, <2>1 DEF CallsExclude
    <2>3. UpdateIsSilent' /\ SilentWhenDisabled'
      BY <1>1, <2>0, <2>1, Zenon DEF UpdateIsSilent, SilentWhenDisabled
    <2> QED
      BY <2>2, <2>3 DEF Switches
  <1>16. CASE SetEnabled
    <2>0. /\ enabled' = TRUE /\ disableWhenIdle' = FALSE /\ disabling = "none"
          /\ UNCHANGED <<ringCount, ringTail, output, toneActive, update, disabling, beep>>
      BY <1>16 DEF SetEnabled, WebFree, tonesVars, phaseVars, stepVars
    <2>1. CallsExclude'
      BY <1>1, <2>0 DEF CallsExclude
    <2>2. UpdateIsSilent' /\ SilentWhenDisabled'
      BY <1>1, <2>0, Zenon DEF UpdateIsSilent, SilentWhenDisabled
    <2> QED
      BY <2>1, <2>2 DEF Switches
  <1>17. CASE SetDisabled
    <2>0. /\ update' = "none" /\ disabling' = "clear" /\ disableWhenIdle' = FALSE
          /\ ~beep'.reads
      BY <1>17, CrossesByName DEF SetDisabled, WebFree
    <2>1. CallsExclude' /\ UpdateIsSilent' /\ SilentWhenDisabled'
      BY <2>0 DEF CallsExclude, UpdateIsSilent, SilentWhenDisabled
    <2> QED
      BY <2>1 DEF Switches
  <1>18. CASE StopSilences
    <2>0. /\ update' = "none" /\ disabling' = "none" /\ output' = FALSE /\ ~beep'.reads
          /\ UNCHANGED <<enabled, disableWhenIdle>>
      BY <1>0, <1>18, CrossesByName DEF StopSilences, OneWebCall, modeVars
    <2>1. CallsExclude'
      BY <2>0 DEF CallsExclude
    <2>2. UpdateIsSilent' /\ SilentWhenDisabled'
      BY <1>1, <2>0, Zenon DEF UpdateIsSilent, SilentWhenDisabled
    <2> QED
      BY <2>1, <2>2 DEF Switches
  <1>19. CASE UNCHANGED buzzerVars
    BY <1>0, <1>2, <1>19, SwitchesStay
       DEF buzzerVars, tonesVars, phaseVars, modeVars, stepVars
  <1>20. CASE ToggleOff \/ StopClears
    BY <1>0, <1>20, ClearingSilences
  <1> QED
    BY <1>6, <1>7, <1>8, <1>9, <1>10, <1>11, <1>12, <1>13, <1>14, <1>15, <1>16, <1>17,
       <1>18, <1>19, <1>20 DEF BuzzerNext, BuzzerUpdate, SetEnabledFalse

\* Calls that have overlapped are made good by no other step than a clearing.
LEMMA OnlyClearingHeals ==
  ASSUME BuzzerTypeOK, crossed, ~crossed', [BuzzerNext]_buzzerVars
  PROVE  ToggleOff \/ StopClears
  <1>1. ASSUME NEW m, QueuePush(m)
        PROVE  FALSE
    BY <1>1, CrossesByName DEF QueuePush
  <1>2. ~PlayKeypress /\ ~PlayLayerSwitch /\ ~PlayEncoderStep /\ ~PlayStartup
    BY <1>1 DEF PlayKeypress, PlayLayerSwitch, PlayEncoderStep, PlayRtttl, PlayStartup
  <1>3. ~WebBeepReads /\ ~WebBeepWrites /\ ~SetDisabled /\ ~StopSilences
    BY CrossesByName DEF WebBeepReads, WebBeepWrites, SetDisabled, StopSilences
  <1>4. ~BuzzerUpdate /\ ~ToggleOn
    BY <1>1, CrossesByName
       DEF BuzzerUpdate, Update, FeedStream, TakeNothing, Take, StartTone, ToggleOn
  <1>5. ~PhaseEnds /\ ~SetEnabled /\ ~UNCHANGED buzzerVars
    BY DEF PhaseEnds, SetEnabled, buzzerVars
  <1> QED
    BY <1>2, <1>3, <1>4, <1>5 DEF BuzzerNext, SetEnabledFalse

LEMMA BuzzerInitEstablishes == BuzzerInit => BuzzerIInv
  <1> SUFFICES ASSUME BuzzerInit PROVE BuzzerIInv
    OBVIOUS
  <1>0. /\ BuzzerSize \in Nat \ {0} /\ 0 \in Slots /\ 0 \in 0..(Bytes - 1) /\ 0 % BuzzerSize = 0
        /\ NoTone \in Tones
    BY BuzzerAssumption, MelodiesTyped DEF Slots
  <1>1. ring \in [Slots -> Tones]
    BY <1>0 DEF BuzzerInit
  <1>2. BuzzerTypeOK
    BY <1>0, <1>1 DEF BuzzerInit, BuzzerTypeOK, NoBeep
  <1>3. RingHolds
    BY <1>0 DEF BuzzerInit, RingHolds
  <1>4. CallsExclude /\ UpdateIsSilent /\ SilentWhenDisabled /\ OneWebCall
    BY DEF BuzzerInit, CallsExclude, UpdateIsSilent, SilentWhenDisabled, OneWebCall, NoBeep
  <1> QED
    BY <1>2, <1>3, <1>4 DEF BuzzerIInv

LEMMA BuzzerStep ==
  ASSUME BuzzerIInv, [BuzzerNext]_buzzerVars
  PROVE  BuzzerIInv'
  <1>1. BuzzerTypeOK' /\ OneWebCall'
    BY BuzzerTypeStep, OneWebCallStep DEF BuzzerIInv
  <1>2. ASSUME ~crossed'
        PROVE  RingHolds' /\ Switches'
    <2>1. CASE ~crossed
      BY <1>2, <2>1, RingInvariance, SwitchesInvariance
    <2>2. CASE crossed
      <3>1. BuzzerTypeOK /\ OneWebCall
        BY DEF BuzzerIInv
      <3>2. ToggleOff \/ StopClears
        BY <1>2, <2>2, <3>1, OnlyClearingHeals
      <3>3. RingHolds'
        BY <1>2, <3>1, <3>2, ToggleOffRing, StopClearsRing
      <3> QED
        BY <1>2, <3>1, <3>2, <3>3, ClearingSilences
    <2> QED
      BY <2>1, <2>2
  <1>3. SilentWhenDisabled'
    <2>1. CASE crossed'
      BY <2>1 DEF SilentWhenDisabled
    <2>2. CASE ~crossed'
      BY <1>2, <2>2 DEF Switches
    <2> QED
      BY <2>1, <2>2
  <1> QED
    BY <1>1, <1>2, <1>3 DEF BuzzerIInv, Switches

LEMMA BuzzerInvariance == BuzzerSafetySpec => []BuzzerIInv
  <1>1. BuzzerIInv /\ [BuzzerNext]_buzzerVars => BuzzerIInv'
    BY BuzzerStep
  <1> QED
    BY <1>1, BuzzerInitEstablishes, PTL DEF BuzzerSafetySpec

(***************************************************************************)
(* The ring is the queue of the tones put in and not yet started, for a    *)
(* ring of any size that its uint8_t indices can count and any melodies,   *)
(* and any steps of the two tasks that call it (queue_push, queue_pop,     *)
(* queue_clear).  Calls that overlapped take the claim away, and a         *)
(* clearing that nothing overlaps gives it back.                           *)
(***************************************************************************)
THEOREM RingIsAQueue == BuzzerSafetySpec => []RingIsQueue
  <1>1. BuzzerIInv => RingIsQueue
    BY DEF BuzzerIInv, RingHolds, RingIsQueue
  <1> QED
    BY <1>1, BuzzerInvariance, PTL

(***************************************************************************)
(* Under the same conditions, a buzzer that is disabled is silent between  *)
(* two calls, and it sounds only while a phase runs that will end it.      *)
(***************************************************************************)
THEOREM DisabledIsSilent == BuzzerSafetySpec => []SilentWhenDisabled
  <1>1. BuzzerIInv => SilentWhenDisabled
    BY DEF BuzzerIInv
  <1> QED
    BY <1>1, BuzzerInvariance, PTL

-----------------------------------------------------------------------------
(***************************************************************************)
(* The touch slider.                                                       *)
(***************************************************************************)
Deltas == [Sides -> Nat]

SessionType ==
  [active : BOOLEAN, seen : [Sides -> Nat], both : Nat, opposite : Nat, dominant : Nat,
   start : Nat, side : Sides \cup {"none"}, fired : BOOLEAN, filtered : Int, origin : Int]

HoldType == [on : BOOLEAN, side : Sides \cup {"none"}, usage : Nat, next : Nat]

SentType == [what : {"gesture", "repeat"}, usage : Nat, from : Sides]

ContactType ==
  [leant : [Sides -> Nat], crossed : [Sides -> Nat], visited : SUBSET Sides,
   sided : BOOLEAN, ambiguous : BOOLEAN, smooth : Int, gestures : Nat]

\* A hold has the usage of the layer it began on, and waits for that layer's delay
\* after the gesture at the tick last.
HoldIsOf(h, last) ==
  /\ h.side \in Sides
  /\ \E l \in DOMAIN LayerTouch :
       /\ h.usage = LayerTouch[l].usage[h.side] /\ LayerTouch[l].repeats[h.side]
       /\ h.next >= last + LayerTouch[l].start

\* A hold goes on only in the contact that was the gesture of it.
HoldBelongs ==
  hold.on => /\ session.active /\ session.fired
             /\ hold.side = Opposite(session.side)
             /\ HoldIsOf(hold, lastGesture)

RepeatsAreDue ==
  \A i \in DOMAIN sent : sent[i].what = "repeat" =>
    \E l \in DOMAIN LayerTouch :
      /\ sent[i].usage = LayerTouch[l].usage[hold.side]
      /\ LayerTouch[l].repeats[hold.side]
      /\ tick - 1 >= lastGesture + LayerTouch[l].start

\* Nothing is left of a contact that is over, and one that goes on has been a
\* gesture if it has fired.
ContactCounted ==
  /\ ~session.active => contact = NoContact /\ hold = NoHold
  /\ contact.gestures = IF session.fired THEN 1 ELSE 0

\* A contact has no start side only while both sides were seen in one sample, or
\* none; one that began on both sides stays so.
StartUndecided ==
  session.active /\ ~session.fired =>
    /\ session.side = "none" => session.seen["left"] = session.seen["right"]
    /\ contact.ambiguous => session.side = "none" /\ session.seen["left"] # 0

TouchIInv ==
  /\ TouchTypeOK /\ contact \in ContactType
  /\ ContactCounted
  /\ contact.ambiguous => ~session.fired
  /\ StartUndecided
  /\ HoldBelongs
  /\ RepeatsAreDue

-----------------------------------------------------------------------------
LEMMA OtherSide ==
  ASSUME NEW x \in Sides
  PROVE  /\ Opposite(x) \in Sides /\ Opposite(x) # x /\ Opposite(Opposite(x)) = x
         /\ \A y \in Sides : y = x \/ y = Opposite(x)
  BY DEF Sides, Opposite

LEMMA AboveTyped ==
  ASSUME NEW raw \in Samples
  PROVE  Above(raw) \in Deltas
  <1>1. NoiseFloor \in Nat /\ raw \in [Sides -> Nat]
    BY TouchAssumption
  <1> QED
    BY <1>1 DEF Above, Deltas

LEMMA BalanceTyped ==
  ASSUME NEW d \in Deltas, NEW old \in Int
  PROVE  Balance(d) \in Int /\ Filtered(old, Balance(d)) \in Int
  <1>1. Balance(d) \in Int
    BY DEF Deltas, Balance, Sides
  <1>2. PICK sum \in Int : sum = 3 * old + Balance(d)
    BY <1>1
  <1>3. Filtered(old, Balance(d)) = IF sum >= 0 THEN sum \div 4 ELSE -((-sum) \div 4)
    BY <1>2 DEF Filtered
  <1> QED
    BY <1>1, <1>3

LEMMA DominantTyped ==
  ASSUME NEW b \in Int
  PROVE  DominantSide(b) \in Sides \cup {"none"}
  BY DEF DominantSide, Sides

\* What a sample adds to the sides seen.
LEMMA VisitedSession ==
  ASSUME NEW s \in SessionType, NEW d \in Deltas, tick \in Nat
  PROVE  LET v == Visited(s, d)
         IN /\ v \in SessionType
            /\ v.active = s.active /\ v.side = s.side /\ v.fired = s.fired
            /\ v.filtered = s.filtered
            /\ v.seen = [x \in Sides |-> IF s.seen[x] = 0 /\ Visits(d, x) THEN tick
                                         ELSE s.seen[x]]
  <1> DEFINE seen == [x \in Sides |-> IF s.seen[x] = 0 /\ Visits(d, x) THEN tick
                                      ELSE s.seen[x]]
             both == IF BothSeen(seen) /\ s.both = 0 THEN tick ELSE s.both
  <1>1. seen \in [Sides -> Nat]
    BY DEF SessionType
  <1>2. both \in Nat
    BY DEF SessionType
  <1>3. Visited(s, d) = [s EXCEPT !.seen = seen, !.both = both]
    BY DEF Visited
  <1> HIDE DEF seen, both
  <1>4. [s EXCEPT !.seen = seen, !.both = both] \in SessionType
    BY <1>1, <1>2 DEF SessionType
  <1>5. LET v == [s EXCEPT !.seen = seen, !.both = both]
        IN /\ v.active = s.active /\ v.side = s.side /\ v.fired = s.fired
           /\ v.filtered = s.filtered /\ v.seen = seen
    BY DEF SessionType
  <1> QED
    BY <1>3, <1>4, <1>5 DEF seen

\* The order given to the visits changes when the other side was seen, not whether.
LEMMA ReorderedSeen ==
  ASSUME NEW seen \in [Sides -> Nat], NEW side \in Sides \cup {"none"}
  PROVE  /\ Reordered(seen, side) \in [Sides -> Nat]
         /\ \A x \in Sides : Reordered(seen, side)[x] # 0 => seen[x] # 0
         /\ side = "none" => Reordered(seen, side) = seen
  <1>0. SequenceMin \in Nat
    BY TouchAssumption
  <1>1. CASE Reordered(seen, side) = seen
    BY <1>1
  <1>2. CASE Reordered(seen, side) # seen
    <2>1. /\ side \in Sides /\ side # "none" /\ BothSeen(seen)
          /\ Reordered(seen, side) =
               [seen EXCEPT ![Opposite(side)] = seen[side] + SequenceMin]
      BY <1>2 DEF Reordered, Sides
    <2>2. Opposite(side) \in Sides /\ seen[side] + SequenceMin \in Nat
      BY <1>0, <2>1, OtherSide
    <2>3. Reordered(seen, side) \in [Sides -> Nat]
      BY <2>1, <2>2
    <2> QED
      BY <2>1, <2>3 DEF BothSeen
  <1> QED
    BY <1>1, <1>2

LEMMA FirstSideTyped ==
  ASSUME NEW s \in SessionType, NEW d \in Deltas
  PROVE  FirstSide(s, d) \in Sides \cup {"none"}
  <1>1. CASE \E x \in Sides : OnlySeen(s.seen, x)
    BY <1>1 DEF FirstSide
  <1>2. CASE ~\E x \in Sides : OnlySeen(s.seen, x)
    <2>1. Balance(d) \in Int
      BY DEF Balance, Deltas, Sides
    <2> QED
      BY <1>2, <2>1, DominantTyped DEF FirstSide
  <1> QED
    BY <1>1, <1>2

\* The contact as it begins.
LEMMA BegunSession ==
  ASSUME NEW s \in SessionType, NEW d \in Deltas, tick \in Nat
  PROVE  LET r == Begun(s, d)
         IN /\ r \in SessionType
            /\ r.active = TRUE /\ r.fired = FALSE /\ r.filtered = Balance(d)
            /\ r.side = FirstSide(s, d) /\ r.seen = Reordered(s.seen, FirstSide(s, d))
  <1> DEFINE side == FirstSide(s, d)
             seen == Reordered(s.seen, side)
             dominant == IF side # "none" THEN tick ELSE 0
             r == [s EXCEPT !.active = TRUE, !.filtered = Balance(d), !.origin = Balance(d),
                            !.start = tick, !.opposite = 0, !.side = side, !.fired = FALSE,
                            !.dominant = dominant, !.seen = seen]
  <1>1. Begun(s, d) = r
    BY DEF Begun
  <1>2. Balance(d) \in Int
    BY DEF Balance, Deltas, Sides
  <1>3. side \in Sides \cup {"none"} /\ dominant \in Nat
    BY FirstSideTyped
  <1>4. seen \in [Sides -> Nat]
    <2>1. s.seen \in [Sides -> Nat]
      BY DEF SessionType
    <2> HIDE DEF side
    <2> QED
      BY <1>3, <2>1, ReorderedSeen
  <1> HIDE DEF side, seen, dominant
  <1>5. r \in SessionType
    BY <1>2, <1>3, <1>4 DEF SessionType
  <1>6. /\ r.active = TRUE /\ r.fired = FALSE /\ r.filtered = Balance(d)
        /\ r.side = side /\ r.seen = seen
    BY DEF SessionType
  <1> QED
    BY <1>1, <1>5, <1>6 DEF side, seen

\* A contact without a start side gets one when one side was seen before the other.
LEMMA SideChosenSession ==
  ASSUME NEW s \in SessionType, tick \in Nat
  PROVE  LET r == SideChosen(s)
         IN /\ r \in SessionType
            /\ r.active = s.active /\ r.fired = s.fired /\ r.filtered = s.filtered
            /\ \A x \in Sides : r.seen[x] # 0 => s.seen[x] # 0
            /\ s.side # "none" => r = s
            /\ s.side = "none" =>
                 \/ /\ r.side = "none" /\ r.seen = s.seen
                    /\ \A x \in Sides : ~OnlySeen(s.seen, x)
                 \/ r.side \in Sides /\ (OnlySeen(s.seen, r.side) \/ Sequenced(s.seen, r.side))
  <1>1. CASE s.side # "none"
    BY <1>1 DEF SideChosen
  <1>2. CASE s.side = "none"
    <2> DEFINE Is(x) == OnlySeen(s.seen, x) \/ Sequenced(s.seen, x)
               side == IF ~\E x \in Sides : Is(x) THEN "none" ELSE CHOOSE x \in Sides : Is(x)
               seen == Reordered(s.seen, side)
               dominant == IF side # "none" /\ s.dominant = 0 THEN tick ELSE s.dominant
               r == [s EXCEPT !.side = side, !.seen = seen, !.dominant = dominant]
    <2>1. SideChosen(s) = r
      BY <1>2 DEF SideChosen
    <2>2. \/ side = "none" /\ \A x \in Sides : ~Is(x)
          \/ side \in Sides /\ Is(side)
      <3>1. CASE \E x \in Sides : Is(x)
        BY <3>1
      <3>2. CASE ~\E x \in Sides : Is(x)
        BY <3>2
      <3> QED
        BY <3>1, <3>2
    <2>3. dominant \in Nat /\ s.seen \in [Sides -> Nat]
      BY DEF SessionType
    <2>4. /\ seen \in [Sides -> Nat] /\ \A x \in Sides : seen[x] # 0 => s.seen[x] # 0
          /\ side = "none" => seen = s.seen
      <3>1. side \in Sides \cup {"none"}
        BY <2>2
      <3> HIDE DEF side
      <3> QED
        BY <2>3, <3>1, ReorderedSeen
    <2>5. side # "none" <=> side \in Sides
      BY <2>2 DEF Sides
    <2> HIDE DEF side, seen, dominant
    <2>6. r \in SessionType
      BY <2>2, <2>3, <2>4 DEF SessionType
    <2>7. /\ r.active = s.active /\ r.fired = s.fired /\ r.filtered = s.filtered
          /\ r.side = side /\ r.seen = seen
      BY DEF SessionType
    <2> QED
      BY <1>2, <2>1, <2>2, <2>4, <2>5, <2>6, <2>7
  <1> QED
    BY <1>1, <1>2

LEMMA BalancedSession ==
  ASSUME NEW s \in SessionType, NEW d \in Deltas, tick \in Nat
  PROVE  LET r == Balanced(s, d)
         IN /\ r \in SessionType
            /\ r.active = s.active /\ r.fired = s.fired /\ r.side = s.side /\ r.seen = s.seen
            /\ r.filtered = Filtered(s.filtered, Balance(d))
  <1> DEFINE filtered == Filtered(s.filtered, Balance(d))
             side == DominantSide(filtered)
             dominant == IF s.dominant = 0 /\ s.side # "none" /\ side = s.side THEN tick
                         ELSE s.dominant
             opposite == IF s.side = "none" \/ side # Opposite(s.side) THEN 0
                         ELSE IF s.opposite = 0 THEN tick ELSE s.opposite
             r == [s EXCEPT !.filtered = filtered, !.dominant = dominant,
                            !.opposite = opposite]
  <1>1. Balanced(s, d) = r
    BY DEF Balanced
  <1>2. filtered \in Int
    BY BalanceTyped DEF SessionType
  <1> HIDE DEF filtered
  <1>3. dominant \in Nat /\ opposite \in Nat
    BY DEF SessionType
  <1> HIDE DEF dominant, opposite
  <1>4. r \in SessionType
    BY <1>2, <1>3 DEF SessionType
  <1>5. /\ r.active = s.active /\ r.fired = s.fired /\ r.side = s.side /\ r.seen = s.seen
        /\ r.filtered = filtered
    BY DEF SessionType
  <1> QED
    BY <1>1, <1>4, <1>5 DEF filtered

\* A start side that gives way, gives way to the side the filtered balance is on.
LEMMA FlippedSession ==
  ASSUME NEW s \in SessionType, tick \in Nat
  PROVE  LET r == Flipped(s)
         IN /\ r \in SessionType
            /\ r.active = s.active /\ r.fired = s.fired /\ r.filtered = s.filtered
            /\ \A x \in Sides : r.seen[x] # 0 => s.seen[x] # 0
            /\ \/ r = s
               \/ s.side # "none" /\ r.side \in Sides /\ r.side = DominantSide(s.filtered)
  <1> DEFINE side == DominantSide(s.filtered)
             seen == Reordered(s.seen, side)
             r == [s EXCEPT !.side = side, !.dominant = tick, !.opposite = 0, !.seen = seen]
  <1>1. CASE Flipped(s) = s
    BY <1>1
  <1>2. CASE Flipped(s) # s
    <2>1. Flipped(s) = r /\ ~StartSettled(s) /\ side # "none"
      BY <1>2 DEF Flipped
    <2>2. s.side # "none"
      BY <2>1 DEF StartSettled
    <2>3. side \in Sides \cup {"none"} /\ s.seen \in [Sides -> Nat]
      BY DominantTyped DEF SessionType
    <2> HIDE DEF side
    <2>4. seen \in [Sides -> Nat] /\ \A x \in Sides : seen[x] # 0 => s.seen[x] # 0
      BY <2>3, ReorderedSeen
    <2> HIDE DEF seen
    <2>5. r \in SessionType
      BY <2>3, <2>4 DEF SessionType
    <2>6. /\ r.active = s.active /\ r.fired = s.fired /\ r.filtered = s.filtered
          /\ r.side = side /\ r.seen = seen
      BY DEF SessionType
    <2> QED
      BY <2>1, <2>2, <2>3, <2>4, <2>5, <2>6 DEF side
  <1> QED
    BY <1>1, <1>2

\* What becomes of the hold at the end of a pass, and what the pass has sent.
LEMMA HeldKeeps ==
  ASSUME NEW h \in HoldType, NEW side, NEW gesture \in Seq(SentType), NEW last \in Nat,
         tick \in Nat, touchLayer \in DOMAIN LayerTouch,
         \A i \in DOMAIN gesture : gesture[i].what = "gesture",
         h.on => HoldIsOf(h, last),
         Held(h, side, gesture)
  PROVE  /\ hold' \in HoldType /\ sent' \in Seq(SentType)
         /\ hold'.on => h.on /\ hold'.side = h.side /\ side = h.side /\ HoldIsOf(hold', last)
         /\ ~hold'.on => hold' = NoHold
         /\ \A i \in DOMAIN sent' : sent'[i].what = "gesture" =>
              i \in DOMAIN gesture /\ sent'[i] = gesture[i]
         /\ \A i \in DOMAIN sent' : sent'[i].what = "repeat" =>
              \E l \in DOMAIN LayerTouch :
                /\ sent'[i].usage = LayerTouch[l].usage[hold'.side]
                /\ LayerTouch[l].repeats[hold'.side]
                /\ tick >= last + LayerTouch[l].start
  <1> DEFINE later == [h EXCEPT !.next = tick + LayerTouch[touchLayer].every]
             again == [what |-> "repeat", usage |-> h.usage, from |-> Opposite(h.side)]
  <1>0. /\ \A l \in DOMAIN LayerTouch : LayerTouch[l].start \in Nat /\ LayerTouch[l].every \in Nat
        /\ NoHold \in HoldType /\ NoHold.on = FALSE
    BY TouchAssumption DEF NoHold, HoldType
  <1>1. CASE ~(h.on /\ side = h.side)
    <2>1. hold' = NoHold /\ sent' = gesture
      BY <1>1 DEF Held
    <2> QED
      BY <1>0, <2>1
  <1>2. CASE h.on /\ side = h.side /\ ~(tick >= h.next)
    <2>1. hold' = h /\ sent' = gesture
      BY <1>2 DEF Held
    <2> QED
      BY <1>2, <2>1
  <1>3. CASE h.on /\ side = h.side /\ tick >= h.next
    <2>1. hold' = later /\ sent' = Append(gesture, again)
      BY <1>3 DEF Held
    <2>2. PICK l \in DOMAIN LayerTouch :
            /\ h.usage = LayerTouch[l].usage[h.side] /\ LayerTouch[l].repeats[h.side]
            /\ h.next >= last + LayerTouch[l].start
      BY <1>3 DEF HoldIsOf
    <2>3. h.side \in Sides /\ h.next \in Nat
      BY <1>3 DEF HoldIsOf, HoldType
    <2>4. PICK next \in Nat : next = tick + LayerTouch[touchLayer].every /\ next >= tick
      BY <1>0
    <2>5. /\ later \in HoldType /\ later.on = h.on /\ later.side = h.side
          /\ later.usage = h.usage /\ later.next = next
      BY <2>4 DEF HoldType
    <2>6. again \in SentType /\ again.what = "repeat" /\ again.usage = h.usage
      BY <2>3, OtherSide DEF SentType, HoldType
    <2> HIDE DEF later, again
    <2>7. tick >= last + LayerTouch[l].start /\ later.next >= last + LayerTouch[l].start
      BY <1>0, <1>3, <2>2, <2>3, <2>4, <2>5
    <2>8. HoldIsOf(hold', last)
      BY <2>1, <2>2, <2>3, <2>5, <2>7 DEF HoldIsOf
    <2>9. /\ sent' \in Seq(SentType)
          /\ \A i \in DOMAIN sent' : \/ i \in DOMAIN gesture /\ sent'[i] = gesture[i]
                                     \/ sent'[i] = again
      BY <2>1, <2>6, AppendProperties
    <2> QED
      BY <1>3, <2>1, <2>2, <2>5, <2>6, <2>7, <2>8, <2>9
  <1> QED
    BY <1>1, <1>2, <1>3

\* What a pass notes of the contact.
LEMMA RecordKeeps ==
  ASSUME NEW raw \in Samples, NEW gestures \in Nat, contact \in ContactType, tick \in Nat,
         sensorTick \in Nat, padOn \in [Sides -> BOOLEAN], Record(raw, gestures)
  PROVE  LET d == Above(raw)
             side == DominantSide(Balance(d))
         IN /\ padOn' \in [Sides -> BOOLEAN] /\ sensorTick' \in Nat
            /\ contact' \in ContactType
            /\ \A x \in Sides :
                 /\ contact'.leant[x] = IF contact.leant[x] = 0 /\ d[x] > d[Opposite(x)]
                                        THEN tick ELSE contact.leant[x]
                 /\ contact'.crossed[x] = IF side = x THEN tick ELSE contact.crossed[x]
            /\ contact'.visited = contact.visited \cup {x \in Sides : Visits(d, x)}
            /\ contact'.sided = IF session.active THEN contact.sided
                                ELSE side # "none" \/ \E x \in Sides :
                                       Visits(d, x) /\ ~Visits(d, Opposite(x))
            /\ contact'.ambiguous = IF session.active THEN contact.ambiguous
                                    ELSE side = "none" /\ \A x \in Sides : Visits(d, x)
            /\ contact'.gestures = contact.gestures + gestures
  <1>1. PICK d \in Deltas : d = Above(raw)
    BY AboveTyped
  <1>2. PICK side : side = DominantSide(Balance(d))
    OBVIOUS
  <1> DEFINE leant == [x \in Sides |-> IF contact.leant[x] = 0 /\ d[x] > d[Opposite(x)]
                                       THEN tick ELSE contact.leant[x]]
             reached == [x \in Sides |-> IF side = x THEN tick ELSE contact.crossed[x]]
             visited == contact.visited \cup {x \in Sides : Visits(d, x)}
             sided == IF session.active THEN contact.sided
                      ELSE side # "none" \/ \E x \in Sides :
                             Visits(d, x) /\ ~Visits(d, Opposite(x))
             ambiguous == IF session.active THEN contact.ambiguous
                          ELSE side = "none" /\ \A x \in Sides : Visits(d, x)
             smooth == IF session.active THEN Filtered(contact.smooth, Balance(d))
                       ELSE Balance(d)
  <1>3. contact' = [leant |-> leant, crossed |-> reached, visited |-> visited,
                    sided |-> sided, ambiguous |-> ambiguous, smooth |-> smooth,
                    gestures |-> contact.gestures + gestures]
    BY <1>1, <1>2 DEF Record
  <1>4. /\ contact.leant \in [Sides -> Nat] /\ contact.crossed \in [Sides -> Nat]
        /\ contact.visited \in SUBSET Sides /\ contact.smooth \in Int
        /\ contact.gestures \in Nat
    BY DEF ContactType
  <1>5. leant \in [Sides -> Nat] /\ reached \in [Sides -> Nat] /\ visited \in SUBSET Sides
    BY <1>4
  <1>6. smooth \in Int
    BY <1>4, BalanceTyped
  <1>7. sided \in BOOLEAN
    <2>1. contact.sided \in BOOLEAN
      BY DEF ContactType
    <2>2. CASE session.active
      BY <2>1, <2>2
    <2>3. CASE ~session.active
      BY <2>3, Zenon
    <2> QED
      BY <2>2, <2>3
  <1>8. ambiguous \in BOOLEAN
    <2>1. contact.ambiguous \in BOOLEAN
      BY DEF ContactType
    <2>2. CASE session.active
      BY <2>1, <2>2
    <2>3. CASE ~session.active
      BY <2>3, Zenon
    <2> QED
      BY <2>2, <2>3
  <1>9. padOn' \in [Sides -> BOOLEAN]
    <2>1. padOn' = [x \in Sides |-> raw[x] >= IF padOn[x] THEN ReleaseDelta ELSE TriggerDelta]
      BY DEF Record, PadsOn
    <2>2. \A x \in Sides :
            (raw[x] >= IF padOn[x] THEN ReleaseDelta ELSE TriggerDelta) \in BOOLEAN
      <3>1. ASSUME NEW m, NEW n PROVE (m >= n) \in BOOLEAN
        OBVIOUS
      <3> QED
        BY <3>1, Zenon
    <2> QED
      BY <2>1, <2>2, Zenon
  <1>10. sensorTick' \in Nat
    BY DEF Record, SensorTick
  <1> HIDE DEF leant, reached, visited, sided, ambiguous, smooth
  <1>11. contact' \in ContactType
    BY <1>3, <1>4, <1>5, <1>6, <1>7, <1>8 DEF ContactType
  <1>12. /\ contact'.leant = leant /\ contact'.crossed = reached
         /\ contact'.visited = visited /\ contact'.sided = sided
         /\ contact'.ambiguous = ambiguous
         /\ contact'.gestures = contact.gestures + gestures
    BY <1>3
  <1> QED
    BY <1>1, <1>2, <1>9, <1>10, <1>11, <1>12
       DEF leant, reached, visited, sided, ambiguous

\* The contact after a sample, before a start side gives way or a gesture is sent.
MovedTo(d) == Balanced(SideChosen(Visited(session, d)), d)

LEMMA MovedSession ==
  ASSUME NEW d \in Deltas, session \in SessionType, tick \in Nat \ {0},
         session.active, ~session.fired, StartUndecided
  PROVE  LET r == MovedTo(d)
         IN /\ r \in SessionType /\ r.active = session.active /\ ~r.fired
            /\ r.filtered = Filtered(session.filtered, Balance(d))
            /\ \A x \in Sides : r.seen[x] # 0 => session.seen[x] # 0 \/ Visits(d, x)
            /\ r.side = "none" => r.seen["left"] = r.seen["right"] /\ session.side = "none"
            /\ contact.ambiguous => r.side = "none" /\ r.seen["left"] # 0
            /\ session.side # "none" => r.side = session.side
            /\ session.side = "none" /\ r.side # "none" =>
                 r.side \in Sides /\ Visits(d, r.side) /\ ~Visits(d, Opposite(r.side))
  <1>1. PICK s0 \in SessionType :
          /\ s0 = Visited(session, d)
          /\ s0.active = session.active /\ s0.side = session.side /\ s0.fired = session.fired
          /\ s0.filtered = session.filtered
          /\ s0.seen = [x \in Sides |-> IF session.seen[x] = 0 /\ Visits(d, x) THEN tick
                                        ELSE session.seen[x]]
    BY VisitedSession
  <1>2. PICK s1 \in SessionType :
          /\ s1 = SideChosen(s0)
          /\ s1.active = s0.active /\ s1.fired = s0.fired /\ s1.filtered = s0.filtered
          /\ \A x \in Sides : s1.seen[x] # 0 => s0.seen[x] # 0
          /\ s0.side # "none" => s1 = s0
          /\ s0.side = "none" =>
               \/ /\ s1.side = "none" /\ s1.seen = s0.seen
                  /\ \A x \in Sides : ~OnlySeen(s0.seen, x)
               \/ s1.side \in Sides /\ (OnlySeen(s0.seen, s1.side) \/ Sequenced(s0.seen, s1.side))
    BY SideChosenSession
  <1>3. PICK r \in SessionType :
          /\ r = MovedTo(d)
          /\ r.active = s1.active /\ r.fired = s1.fired /\ r.side = s1.side /\ r.seen = s1.seen
          /\ r.filtered = Filtered(s1.filtered, Balance(d))
    BY <1>1, <1>2, BalancedSession DEF MovedTo
  <1>4. /\ session.seen["left"] \in Nat /\ session.seen["right"] \in Nat
        /\ "left" \in Sides /\ "right" \in Sides /\ "none" \notin Sides
        /\ Opposite("left") = "right" /\ Opposite("right") = "left"
        /\ \A x \in Sides : x = "left" \/ x = "right"
    BY DEF SessionType, Sides, Opposite
  <1>5. \A x \in Sides : r.seen[x] # 0 => session.seen[x] # 0 \/ Visits(d, x)
    BY <1>1, <1>2, <1>3
  <1>6. session.side = "none" => session.seen["left"] = session.seen["right"]
    BY DEF StartUndecided
  <1>7. session.side = "none" =>
          /\ \A x \in Sides : ~Sequenced(s0.seen, x)
          /\ session.seen["left"] # 0 => s0.seen = session.seen
    <2> SUFFICES ASSUME session.side = "none"
                 PROVE  /\ \A x \in Sides : ~Sequenced(s0.seen, x)
                        /\ session.seen["left"] # 0 => s0.seen = session.seen
      OBVIOUS
    <2>1. BothSeen(s0.seen) => s0.seen["left"] = s0.seen["right"]
      BY <1>1, <1>4, <1>6 DEF BothSeen
    <2>2. s0.seen["left"] \in Nat /\ s0.seen["right"] \in Nat
      BY <1>4 DEF SessionType
    <2>3. \A x \in Sides : ~Sequenced(s0.seen, x)
      BY <1>4, <2>1, <2>2 DEF Sequenced
    <2>4. session.seen["left"] # 0 => s0.seen = session.seen
      <3> SUFFICES ASSUME session.seen["left"] # 0 PROVE s0.seen = session.seen
        OBVIOUS
      <3>1. \A x \in Sides : session.seen[x] # 0
        BY <1>4, <1>6
      <3>2. session.seen \in [Sides -> Nat]
        BY DEF SessionType
      <3> QED
        BY <1>1, <3>1, <3>2
    <2> QED
      BY <2>3, <2>4
  <1>8. r.side = "none" => r.seen["left"] = r.seen["right"] /\ session.side = "none"
    <2> SUFFICES ASSUME r.side = "none"
                 PROVE  r.seen["left"] = r.seen["right"] /\ session.side = "none"
      OBVIOUS
    <2>1. session.side = "none"
      BY <1>1, <1>2, <1>3
    <2>2. r.seen = s0.seen /\ \A x \in Sides : ~OnlySeen(s0.seen, x)
      BY <1>1, <1>2, <1>3, <1>4, <2>1
    <2>3. s0.seen["left"] = 0 <=> s0.seen["right"] = 0
      BY <1>4, <2>2 DEF OnlySeen
    <2>4. s0.seen["left"] = s0.seen["right"]
      BY <1>1, <1>4, <1>6, <2>1, <2>3
    <2> QED
      BY <2>1, <2>2, <2>4
  <1>9. contact.ambiguous => r.side = "none" /\ r.seen["left"] # 0
    <2> SUFFICES ASSUME contact.ambiguous PROVE r.side = "none" /\ r.seen["left"] # 0
      OBVIOUS
    <2>1. session.side = "none" /\ session.seen["left"] # 0
      BY DEF StartUndecided
    <2>2. s0.seen = session.seen /\ session.seen["right"] # 0
      BY <1>6, <1>7, <2>1
    <2>3. \A x \in Sides : ~OnlySeen(s0.seen, x) /\ ~Sequenced(s0.seen, x)
      BY <1>4, <1>7, <2>1, <2>2 DEF OnlySeen
    <2> QED
      BY <1>1, <1>2, <1>3, <2>1, <2>2, <2>3
  <1>10. session.side = "none" /\ r.side # "none" =>
           r.side \in Sides /\ Visits(d, r.side) /\ ~Visits(d, Opposite(r.side))
    <2> SUFFICES ASSUME session.side = "none", r.side # "none"
                 PROVE  r.side \in Sides /\ Visits(d, r.side) /\ ~Visits(d, Opposite(r.side))
      OBVIOUS
    <2>1. r.side \in Sides /\ OnlySeen(s0.seen, r.side)
      BY <1>1, <1>2, <1>3, <1>7
    <2>2. s0.seen[r.side] # 0 /\ s0.seen[Opposite(r.side)] = 0 /\ Opposite(r.side) \in Sides
      BY <1>4, <2>1 DEF OnlySeen
    <2>3. session.seen[r.side] = 0 /\ session.seen[Opposite(r.side)] = 0
      BY <1>1, <1>4, <1>6, <2>1, <2>2
    <2> QED
      BY <1>1, <2>1, <2>2, <2>3
  <1>11. session.side # "none" => r.side = session.side
    BY <1>1, <1>2, <1>3
  <1>12. r.active = session.active /\ ~r.fired
         /\ r.filtered = Filtered(session.filtered, Balance(d))
    BY <1>1, <1>2, <1>3
  <1> QED
    BY <1>3, <1>5, <1>8, <1>9, <1>10, <1>11, <1>12

LEMMA TouchTyped ==
  TouchTypeOK <=>
    /\ tick \in 1..MaxTouchTicks /\ touchLayer \in DOMAIN LayerTouch
    /\ padOn \in [Sides -> BOOLEAN] /\ sensorTick \in Nat /\ lastGesture \in Nat
    /\ session \in SessionType /\ (~session.active => session = NoSession)
    /\ hold \in HoldType /\ sent \in Seq(SentType)
  BY DEF TouchTypeOK, SessionType, HoldType, SentType, Clock

LEMMA PassAdvances ==
  ASSUME tick \in 1..MaxTouchTicks, Passes
  PROVE  tick' = tick + 1 /\ tick' \in 1..MaxTouchTicks /\ touchLayer' = touchLayer
  <1>1. tick' = tick + 1 /\ tick < MaxTouchTicks /\ touchLayer' = touchLayer
    BY DEF Passes
  <1>2. PICK t : t = tick
    OBVIOUS
  <1>3. MaxTouchTicks \in Nat
    BY TouchAssumption
  <1>4. t + 1 \in 1..MaxTouchTicks
    BY <1>1, <1>2, <1>3
  <1> QED
    BY <1>1, <1>2, <1>4

\* What every pass with a finger on the pads keeps, if it leaves a contact that is
\* counted, and a hold that belongs to it.
PassOf(raw, gestures, h, side, gesture) ==
  /\ gesture \in Seq(SentType) /\ \A i \in DOMAIN gesture : gesture[i].what = "gesture"
  /\ Passes /\ Held(h, side, gesture) /\ Record(raw, gestures)
  /\ h.on => HoldIsOf(h, lastGesture') /\ session'.fired /\ h.side = Opposite(session'.side)
  /\ contact.gestures + gestures = IF session'.fired THEN 1 ELSE 0

LEMMA PassKeeps ==
  ASSUME TouchIInv, NEW raw \in Samples, NEW gestures \in Nat, NEW h \in HoldType,
         NEW side, NEW gesture, PassOf(raw, gestures, h, side, gesture),
         session' \in SessionType, session'.active, lastGesture' \in Nat,
         contact'.ambiguous => ~session'.fired,
         StartUndecided'
  PROVE  TouchIInv'
  <1>0. /\ tick \in Nat /\ touchLayer \in DOMAIN LayerTouch /\ sensorTick \in Nat
        /\ padOn \in [Sides -> BOOLEAN] /\ contact \in ContactType
        /\ tick \in 1..MaxTouchTicks
    BY TouchTyped DEF TouchIInv
  <1>8. /\ gesture \in Seq(SentType) /\ \A i \in DOMAIN gesture : gesture[i].what = "gesture"
        /\ Passes /\ Held(h, side, gesture) /\ Record(raw, gestures)
        /\ h.on => HoldIsOf(h, lastGesture') /\ session'.fired
                   /\ h.side = Opposite(session'.side)
        /\ contact.gestures + gestures = IF session'.fired THEN 1 ELSE 0
    BY DEF PassOf
  <1>1. tick' = tick + 1 /\ tick' \in 1..MaxTouchTicks /\ touchLayer' = touchLayer
    BY <1>0, <1>8, PassAdvances
  <1>2. /\ hold' \in HoldType /\ sent' \in Seq(SentType)
        /\ hold'.on => h.on /\ hold'.side = h.side /\ side = h.side
                       /\ HoldIsOf(hold', lastGesture')
        /\ \A i \in DOMAIN sent' : sent'[i].what = "repeat" =>
             \E l \in DOMAIN LayerTouch :
               /\ sent'[i].usage = LayerTouch[l].usage[hold'.side]
               /\ LayerTouch[l].repeats[hold'.side]
               /\ tick >= lastGesture' + LayerTouch[l].start
    BY <1>0, <1>8, HeldKeeps
  <1>3. /\ padOn' \in [Sides -> BOOLEAN] /\ sensorTick' \in Nat /\ contact' \in ContactType
        /\ contact'.gestures = contact.gestures + gestures
    BY <1>0, <1>8, RecordKeeps
  <1>4. TouchTypeOK'
    <2>1. /\ tick' \in 1..MaxTouchTicks /\ touchLayer' \in DOMAIN LayerTouch
          /\ padOn' \in [Sides -> BOOLEAN] /\ sensorTick' \in Nat /\ lastGesture' \in Nat
          /\ session' \in SessionType /\ (~session'.active => session' = NoSession)
          /\ hold' \in HoldType /\ sent' \in Seq(SentType)
      BY <1>0, <1>1, <1>2, <1>3
    <2> QED
      BY <2>1 DEF TouchTypeOK, SessionType, HoldType, SentType, Clock
  <1>5. ContactCounted'
    BY <1>8, <1>3 DEF ContactCounted
  <1>6. HoldBelongs'
    <2> SUFFICES ASSUME hold'.on
                 PROVE  /\ session'.active /\ session'.fired
                        /\ hold'.side = Opposite(session'.side)
                        /\ HoldIsOf(hold', lastGesture')
      BY DEF HoldBelongs, HoldIsOf
    <2> QED
      BY <1>8, <1>2
  <1>7. RepeatsAreDue'
    <2>1. tick' - 1 = tick
      BY <1>0, <1>1
    <2> QED
      BY <1>2, <2>1 DEF RepeatsAreDue
  <1> QED
    BY <1>3, <1>4, <1>5, <1>6, <1>7 DEF TouchIInv

LEMMA BeginKeeps ==
  ASSUME TouchIInv, NEW raw \in Samples, ContactBegins(raw)
  PROVE  TouchIInv'
  <1>0. /\ tick \in Nat \ {0} /\ sensorTick \in Nat /\ padOn \in [Sides -> BOOLEAN]
        /\ contact \in ContactType /\ session \in SessionType /\ session = NoSession
        /\ hold \in HoldType /\ hold = NoHold /\ hold.on = FALSE /\ lastGesture \in Nat
        /\ contact.gestures = 0
    BY TouchTyped DEF TouchIInv, ContactCounted, ContactBegins, NoHold, NoContact
  <1>1. PICK d \in Deltas : d = Above(raw)
    BY AboveTyped
  <1>2. PICK s \in SessionType :
          /\ s = Visited(session, d)
          /\ s.seen = [x \in Sides |-> IF session.seen[x] = 0 /\ Visits(d, x) THEN tick
                                       ELSE session.seen[x]]
    BY <1>0, VisitedSession
  <1>3. PICK side : side = FirstSide(s, d)
    OBVIOUS
  <1>4. /\ session' \in SessionType /\ session'.active = TRUE /\ session'.fired = FALSE
        /\ session'.side = side /\ session'.seen = Reordered(s.seen, side)
    BY <1>0, <1>1, <1>2, <1>3, BegunSession DEF ContactBegins
  <1>5. contact'.ambiguous =
          (DominantSide(Balance(d)) = "none" /\ \A x \in Sides : Visits(d, x))
    <2>1. ~session.active
      BY DEF ContactBegins
    <2>2. Record(raw, 0)
      BY DEF ContactBegins
    <2> QED
      BY <1>0, <1>1, <2>1, <2>2, RecordKeeps
  <1>6. /\ \A x \in Sides : s.seen[x] = IF Visits(d, x) THEN tick ELSE 0
        /\ "left" \in Sides /\ "right" \in Sides /\ "none" \notin Sides
        /\ Opposite("left") = "right" /\ Opposite("right") = "left"
        /\ s.seen \in [Sides -> Nat]
    BY <1>0, <1>2 DEF NoSession, Sides, Opposite, SessionType
  <1>7. side = "none" => /\ \A x \in Sides : ~OnlySeen(s.seen, x)
                         /\ session'.seen = s.seen
    <2> SUFFICES ASSUME side = "none"
                 PROVE  (\A x \in Sides : ~OnlySeen(s.seen, x)) /\ session'.seen = s.seen
      OBVIOUS
    <2>1. \A x \in Sides : ~OnlySeen(s.seen, x)
      BY <1>3, <1>6 DEF FirstSide
    <2> QED
      BY <1>4, <1>6, <2>1, ReorderedSeen
  <1>8. side = "none" => session'.seen["left"] = session'.seen["right"]
    BY <1>0, <1>6, <1>7 DEF OnlySeen
  <1>9. contact'.ambiguous => side = "none" /\ session'.seen["left"] # 0
    <2> SUFFICES ASSUME contact'.ambiguous
                 PROVE  side = "none" /\ session'.seen["left"] # 0
      OBVIOUS
    <2>1. DominantSide(Balance(d)) = "none" /\ \A x \in Sides : Visits(d, x)
      BY <1>5, Zenon
    <2>2. \A x \in Sides : s.seen[x] = tick /\ ~OnlySeen(s.seen, x)
      <3>1. \A x \in Sides : s.seen[x] = tick
        BY <1>6, <2>1
      <3> QED
        BY <1>0, <3>1, OtherSide DEF OnlySeen
    <2>3. side = "none"
      BY <1>3, <2>1, <2>2 DEF FirstSide
    <2> QED
      BY <1>0, <1>6, <1>7, <2>2, <2>3
  <1>10. StartUndecided'
    BY <1>4, <1>8, <1>9 DEF StartUndecided
  <1>11. /\ Passes /\ Held(hold, DominantSide(Balance(d)), <<>>) /\ Record(raw, 0)
         /\ lastGesture' = lastGesture
    BY <1>1 DEF ContactBegins
  <1>12. PassOf(raw, 0, hold, DominantSide(Balance(d)), <<>>)
    BY <1>0, <1>4, <1>11 DEF PassOf
  <1>13. session'.active /\ lastGesture' \in Nat /\ (contact'.ambiguous => ~session'.fired)
    BY <1>0, <1>4, <1>11
  <1> QED
    BY <1>0, <1>4, <1>10, <1>12, <1>13, PassKeeps

LEMMA StayKeeps ==
  ASSUME TouchIInv, NEW raw \in Samples, ContactStays(raw)
  PROVE  TouchIInv'
  <1>0. /\ tick \in Nat \ {0} /\ sensorTick \in Nat /\ padOn \in [Sides -> BOOLEAN]
        /\ contact \in ContactType /\ session \in SessionType
        /\ session.active /\ session.fired
        /\ hold \in HoldType /\ lastGesture \in Nat /\ contact.gestures = 1
        /\ ~contact.ambiguous
    BY TouchTyped DEF TouchIInv, ContactCounted, ContactStays
  <1>1. PICK d \in Deltas : d = Above(raw)
    BY AboveTyped
  <1>2. /\ session' \in SessionType /\ session'.active = session.active
        /\ session'.fired = session.fired /\ session'.side = session.side
    BY <1>0, <1>1, VisitedSession DEF ContactStays
  <1>3. PICK side : /\ Held(hold, side, <<>>) /\ Record(raw, 0) /\ Passes
                    /\ lastGesture' = lastGesture
    BY DEF ContactStays
  <1>4. ~contact'.ambiguous
    BY <1>0, <1>3, RecordKeeps
  <1>5. hold.on => HoldIsOf(hold, lastGesture') /\ hold.side = Opposite(session'.side)
    BY <1>2, <1>3 DEF TouchIInv, HoldBelongs
  <1>6. StartUndecided'
    BY <1>0, <1>2 DEF StartUndecided
  <1>7. PassOf(raw, 0, hold, side, <<>>)
    BY <1>0, <1>2, <1>3, <1>5 DEF PassOf
  <1>8. session'.active /\ lastGesture' \in Nat
    BY <1>0, <1>2, <1>3
  <1> QED
    BY <1>0, <1>2, <1>4, <1>6, <1>7, <1>8, PassKeeps

\* The hold that follows a gesture is of the layer it was made on.
LEMMA HoldAfterIsOf ==
  ASSUME NEW from \in Sides, tick \in Nat, touchLayer \in DOMAIN LayerTouch
  PROVE  /\ HoldAfter(from) \in HoldType
         /\ HoldAfter(from).on => HoldAfter(from).side = Opposite(from)
                                  /\ HoldIsOf(HoldAfter(from), tick)
  <1>0. /\ LayerTouch[touchLayer] \in [usage : [Sides -> Nat], repeats : [Sides -> BOOLEAN],
                                       start : Nat, every : Nat]
        /\ Opposite(from) \in Sides
    BY TouchAssumption, OtherSide
  <1>1. CASE HoldAfter(from) = NoHold
    BY <1>1 DEF NoHold, HoldType
  <1>2. CASE HoldAfter(from) # NoHold
    <2> DEFINE h == [on |-> TRUE, side |-> Opposite(from),
                     usage |-> LayerTouch[touchLayer].usage[Opposite(from)],
                     next |-> tick + LayerTouch[touchLayer].start]
    <2>1. HoldAfter(from) = h /\ LayerTouch[touchLayer].repeats[Opposite(from)]
      BY <1>2 DEF HoldAfter, FirstRepeat
    <2>2. h \in HoldType
      BY <1>0 DEF HoldType
    <2>3. h.side = Opposite(from) /\ h.usage = LayerTouch[touchLayer].usage[Opposite(from)]
          /\ h.next = tick + LayerTouch[touchLayer].start
      OBVIOUS
    <2>4. h.next >= tick + LayerTouch[touchLayer].start
      BY <1>0
    <2> HIDE DEF h
    <2>5. HoldIsOf(h, tick)
      BY <1>0, <2>1, <2>3, <2>4 DEF HoldIsOf
    <2> QED
      BY <2>1, <2>2, <2>3, <2>5
  <1> QED
    BY <1>1, <1>2

LEMMA MoveKeeps ==
  ASSUME TouchIInv, NEW raw \in Samples, ContactMoves(raw)
  PROVE  TouchIInv'
  <1>0. /\ tick \in Nat \ {0} /\ sensorTick \in Nat /\ padOn \in [Sides -> BOOLEAN]
        /\ contact \in ContactType /\ session \in SessionType
        /\ session.active /\ ~session.fired /\ StartUndecided
        /\ hold \in HoldType /\ ~hold.on /\ lastGesture \in Nat /\ contact.gestures = 0
        /\ touchLayer \in DOMAIN LayerTouch
    BY TouchTyped DEF TouchIInv, ContactCounted, ContactMoves, HoldBelongs
  <1>1. PICK d \in Deltas : d = Above(raw)
    BY AboveTyped
  <1>2. PICK s \in SessionType :
          /\ s = MovedTo(d) /\ s.active = session.active /\ ~s.fired
          /\ s.side = "none" => s.seen["left"] = s.seen["right"]
          /\ contact.ambiguous => s.side = "none" /\ s.seen["left"] # 0
    BY <1>0, MovedSession
  <1>3. CASE /\ session' = Flipped(s)
             /\ Held(hold, DominantSide(s.filtered), <<>>)
             /\ Record(raw, 0)
             /\ lastGesture' = lastGesture
    <2>1. /\ session' \in SessionType /\ session'.active = s.active /\ session'.fired = s.fired
          /\ session' = s \/ (s.side # "none" /\ session'.side \in Sides)
      BY <1>0, <1>2, <1>3, FlippedSession
    <2>2. contact'.ambiguous = contact.ambiguous
      BY <1>0, <1>3, RecordKeeps
    <2>3. "none" \notin Sides
      BY DEF Sides
    <2>4. StartUndecided'
      BY <1>2, <2>1, <2>2, <2>3 DEF StartUndecided
    <2>5. Passes
      BY DEF ContactMoves
    <2>6. PassOf(raw, 0, hold, DominantSide(s.filtered), <<>>)
      BY <1>0, <1>2, <1>3, <2>1, <2>5 DEF PassOf
    <2>7. session'.active /\ lastGesture' \in Nat /\ ~session'.fired
      BY <1>0, <1>2, <1>3, <2>1
    <2> QED
      BY <1>0, <2>1, <2>4, <2>6, <2>7, PassKeeps
  <1>4. CASE \E from \in Sides :
               /\ CrossedFrom(s, from)
               /\ session' = Fired(s, from)
               /\ lastGesture' = tick
               /\ Held(HoldAfter(from), DominantSide(s.filtered),
                       <<[what |-> "gesture",
                          usage |-> LayerTouch[touchLayer].usage[Opposite(from)],
                          from |-> from]>>)
               /\ Record(raw, 1)
    <2>1. PICK from \in Sides :
               /\ CrossedFrom(s, from)
               /\ session' = Fired(s, from)
               /\ lastGesture' = tick
               /\ Held(HoldAfter(from), DominantSide(s.filtered),
                       <<[what |-> "gesture",
                          usage |-> LayerTouch[touchLayer].usage[Opposite(from)],
                          from |-> from]>>)
               /\ Record(raw, 1)
      BY <1>4
    <2>2. /\ session' \in SessionType /\ session'.active = s.active /\ session'.fired = TRUE
          /\ session'.side = from
      BY <2>1 DEF Fired, SessionType
    <2>3. ~contact.ambiguous
      <3> SUFFICES ASSUME contact.ambiguous PROVE FALSE
        OBVIOUS
      <3>1. s.side = "none" /\ s.seen["left"] = s.seen["right"]
        BY <1>2
      <3>2. Sequenced(s.seen, from)
        BY <2>1, <3>1 DEF CrossedFrom, Sides
      <3>3. s.seen["left"] \in Nat
        BY DEF SessionType, Sides
      <3> QED
        BY <3>1, <3>2, <3>3 DEF Sequenced, Sides, Opposite
    <2>4. ~contact'.ambiguous
      BY <1>0, <2>1, <2>3, RecordKeeps
    <2>5. StartUndecided'
      BY <2>2 DEF StartUndecided
    <2>6. PICK h \in HoldType :
            h = HoldAfter(from) /\ (h.on => h.side = Opposite(from) /\ HoldIsOf(h, tick))
      BY <1>0, HoldAfterIsOf
    <2>7. PICK g : g = [what |-> "gesture",
                        usage |-> LayerTouch[touchLayer].usage[Opposite(from)], from |-> from]
      OBVIOUS
    <2>8. g \in SentType /\ g.what = "gesture"
      <3>1. LayerTouch[touchLayer].usage[Opposite(from)] \in Nat
        BY <1>0, TouchAssumption, OtherSide
      <3> QED
        BY <2>7, <3>1 DEF SentType
    <2>9. <<g>> \in Seq(SentType) /\ \A i \in DOMAIN <<g>> : <<g>>[i].what = "gesture"
      BY <2>8
    <2>10. Passes /\ Held(h, DominantSide(s.filtered), <<g>>) /\ Record(raw, 1)
      BY <2>1, <2>6, <2>7 DEF ContactMoves
    <2>11. session'.active /\ lastGesture' \in Nat
      BY <1>0, <1>2, <2>1, <2>2
    <2>12. PassOf(raw, 1, h, DominantSide(s.filtered), <<g>>)
      BY <1>0, <2>1, <2>2, <2>6, <2>9, <2>10 DEF PassOf
    <2> QED
      BY <1>0, <2>2, <2>4, <2>5, <2>6, <2>11, <2>12, PassKeeps
  <1> QED
    BY <1>1, <1>2, <1>3, <1>4 DEF ContactMoves, MovedTo

LEMMA TouchInitEstablishes == TouchInit => TouchIInv
  <1> SUFFICES ASSUME TouchInit PROVE TouchIInv
    OBVIOUS
  <1>1. TouchTypeOK
    <2>1. tick \in 1..MaxTouchTicks
      BY TouchAssumption DEF TouchInit
    <2>2. session \in SessionType /\ hold \in HoldType
      BY DEF TouchInit, NoSession, NoHold, SessionType, HoldType
    <2>3. sent \in Seq(SentType)
      BY DEF TouchInit
    <2> QED
      BY <2>1, <2>2, <2>3, TouchTyped DEF TouchInit
  <1>2. contact \in ContactType
    BY DEF TouchInit, NoContact, ContactType
  <1> QED
    BY <1>1, <1>2 DEF TouchInit, TouchIInv, ContactCounted, StartUndecided, HoldBelongs,
       RepeatsAreDue, NoSession, NoContact, NoHold

LEMMA TouchStep == TouchIInv /\ [TouchNext]_touchVars => TouchIInv'
  <1> SUFFICES ASSUME TouchIInv, [TouchNext]_touchVars
               PROVE  TouchIInv'
    OBVIOUS
  <1>0. /\ tick \in 1..MaxTouchTicks /\ touchLayer \in DOMAIN LayerTouch
        /\ padOn \in [Sides -> BOOLEAN] /\ sensorTick \in Nat /\ lastGesture \in Nat
        /\ session \in SessionType /\ (~session.active => session = NoSession)
        /\ hold \in HoldType /\ sent \in Seq(SentType)
        /\ contact \in ContactType /\ (contact.ambiguous => ~session.fired)
    BY TouchTyped DEF TouchIInv
  <1>1. Passes => tick' = tick + 1 /\ tick' \in 1..MaxTouchTicks /\ touchLayer' = touchLayer
    BY <1>0, PassAdvances
  <1>2. ASSUME NEW raw \in Samples, Lift(raw)
        PROVE  TouchIInv'
    <2>1. /\ Passes /\ session' = NoSession /\ hold' = NoHold /\ sent' = <<>>
          /\ padOn' = PadsOn(raw) /\ sensorTick' = 0 /\ contact' = NoContact
          /\ lastGesture' = lastGesture
      BY <1>2 DEF Lift
    <2>2. /\ NoSession \in SessionType /\ NoHold \in HoldType /\ NoContact \in ContactType
          /\ <<>> \in Seq(SentType)
      BY DEF NoSession, NoHold, NoContact, SessionType, HoldType, ContactType
    <2>3. padOn' \in [Sides -> BOOLEAN]
      <3>1. \A x \in Sides :
              (raw[x] >= IF padOn[x] THEN ReleaseDelta ELSE TriggerDelta) \in BOOLEAN
        <4>1. ASSUME NEW m, NEW n PROVE (m >= n) \in BOOLEAN
          OBVIOUS
        <4> QED
          BY <4>1, Zenon
      <3> QED
        BY <2>1, <3>1, Zenon DEF PadsOn
    <2>4. TouchTypeOK'
      BY <1>0, <1>1, <2>1, <2>2, <2>3
         DEF TouchTypeOK, SessionType, HoldType, SentType, Clock
    <2>5. ContactCounted' /\ StartUndecided' /\ HoldBelongs' /\ RepeatsAreDue'
      BY <2>1 DEF ContactCounted, StartUndecided, HoldBelongs, RepeatsAreDue, NoSession,
         NoHold, NoContact
    <2>6. ~contact'.ambiguous
      BY <2>1 DEF NoContact
    <2> QED
      BY <2>1, <2>2, <2>4, <2>5, <2>6 DEF TouchIInv
  <1>3. CASE PadReadFails
    <2>1. /\ Passes /\ sent' = <<>>
          /\ UNCHANGED <<padOn, sensorTick, session, hold, lastGesture, contact>>
      BY <1>3 DEF PadReadFails
    <2>2. <<>> \in Seq(SentType)
      OBVIOUS
    <2>3. TouchTypeOK'
      BY <1>0, <1>1, <2>1, <2>2 DEF TouchTypeOK, SessionType, HoldType, SentType, Clock
    <2>4. ContactCounted' /\ StartUndecided' /\ HoldBelongs'
      BY <2>1 DEF TouchIInv, ContactCounted, StartUndecided, HoldBelongs, HoldIsOf
    <2>5. RepeatsAreDue'
      BY <2>1 DEF RepeatsAreDue
    <2> QED
      BY <1>0, <2>1, <2>3, <2>4, <2>5 DEF TouchIInv
  <1>4. ASSUME tick' = tick, touchLayer' \in DOMAIN LayerTouch,
               UNCHANGED <<padOn, sensorTick, session, hold, lastGesture, sent, contact>>
        PROVE  TouchIInv'
    <2>1. TouchTypeOK'
      BY <1>0, <1>4 DEF TouchTypeOK, SessionType, HoldType, SentType, Clock
    <2>2. ContactCounted' /\ StartUndecided' /\ HoldBelongs' /\ RepeatsAreDue'
      BY <1>4 DEF TouchIInv, ContactCounted, StartUndecided, HoldBelongs, HoldIsOf,
         RepeatsAreDue
    <2> QED
      BY <1>0, <1>4, <2>1, <2>2 DEF TouchIInv
  <1>5. CASE LayerTurns
    BY <1>4, <1>5 DEF LayerTurns
  <1>6. CASE UNCHANGED touchVars
    BY <1>0, <1>4, <1>6 DEF touchVars
  <1> QED
    BY <1>2, <1>3, <1>5, <1>6, BeginKeeps, MoveKeeps, StayKeeps DEF TouchNext

LEMMA TouchInvariance == TouchSpec => []TouchIInv
  BY TouchInitEstablishes, TouchStep, PTL DEF TouchSpec

-----------------------------------------------------------------------------
(***************************************************************************)
(* The direction of a gesture, for thresholds that mean what they say: a   *)
(* balance of 0 is on no side, and the side that has to reach a percentage *)
(* of the other one is not asked for more than that.                       *)
(***************************************************************************)
\* What was noted of the contact was noted in its order.
ContactDated ==
  \A x \in Sides :
    /\ contact.leant[x] < tick /\ contact.crossed[x] < tick
    /\ contact.crossed[x] # 0 => contact.leant[x] # 0
    /\ session.seen[x] # 0 => x \in contact.visited

\* The filtered balance is only where the finger has been, and comes to be on the
\* other side only after the start side, which the finger was nearer to.
StartWasLeant ==
  session.active /\ ~session.fired =>
    /\ session.side = "none" => ~contact.sided
    /\ \A x \in Sides : DominantSide(session.filtered) = x => contact.crossed[x] # 0
    /\ \A x \in Sides : session.side = x =>
         /\ contact.leant[x] # 0
         /\ contact.sided /\ DominantSide(session.filtered) = Opposite(x) =>
              contact.leant[x] < contact.crossed[Opposite(x)]

SlideIInv ==
  /\ TouchIInv
  /\ ContactDated
  /\ StartWasLeant
  /\ GestureWasSlide

LEMMA DominantIsNearer ==
  ASSUME NEW d \in Deltas, NEW x \in Sides, DominanceDelta # 0,
         DominantSide(Balance(d)) = x
  PROVE  d[x] > d[Opposite(x)]
  <1>1. DominanceDelta \in Nat \ {0}
    BY TouchAssumption
  <1>2. d["left"] \in Nat /\ d["right"] \in Nat
    BY DEF Deltas, Sides
  <1>3. CASE x = "left"
    <2>1. Balance(d) <= -DominanceDelta
      BY <1>1, <1>2, <1>3 DEF DominantSide
    <2> QED
      BY <1>1, <1>2, <1>3, <2>1 DEF Balance, Opposite
  <1>4. CASE x = "right"
    <2>1. Balance(d) >= DominanceDelta
      BY <1>1, <1>2, <1>4 DEF DominantSide
    <2> QED
      BY <1>1, <1>2, <1>4, <2>1 DEF Balance, Opposite
  <1> QED
    BY <1>3, <1>4 DEF Sides

LEMMA OnlyVisitIsNearer ==
  ASSUME NEW d \in Deltas, NEW x \in Sides, VisitPercent <= 100,
         Visits(d, x), ~Visits(d, Opposite(x))
  PROVE  d[x] > d[Opposite(x)]
  <1>1. PICK a \in Nat : a = d[x]
    BY DEF Deltas
  <1>2. PICK b \in Nat : b = d[Opposite(x)]
    BY OtherSide DEF Deltas
  <1>3. PICK p \in 0..100 : p = VisitPercent
    BY TouchAssumption
  <1>4. PICK v \in Nat : v = VisitDelta
    BY TouchAssumption
  <1>5. a >= v
    BY <1>1, <1>4 DEF Visits
  <1>6. ~(b >= v /\ b * 100 >= a * p)
    BY <1>1, <1>2, <1>3, <1>4, OtherSide DEF Visits
  <1>7. a * p <= a * 100
    OBVIOUS
  <1>8. PICK n \in Nat : n = a * p
    OBVIOUS
  <1>9. b < v \/ b * 100 < n
    BY <1>6, <1>8
  <1>10. n <= a * 100
    BY <1>7, <1>8
  <1>11. a > b
    BY <1>5, <1>9, <1>10
  <1> QED
    BY <1>1, <1>2, <1>11

\* Averaging does not take the balance to a side that neither value was on.
LEMMA FilteredStays ==
  ASSUME NEW old \in Int, NEW b \in Int, NEW x \in Sides, DominanceDelta # 0,
         DominantSide(Filtered(old, b)) = x
  PROVE  DominantSide(old) = x \/ DominantSide(b) = x
  <1>1. PICK D \in Nat \ {0} : D = DominanceDelta
    BY TouchAssumption
  <1>2. PICK sum \in Int : sum = 3 * old + b
    OBVIOUS
  <1>3. PICK f : f = Filtered(old, b)
    OBVIOUS
  <1>4. f = IF sum >= 0 THEN sum \div 4 ELSE -((-sum) \div 4)
    BY <1>2, <1>3 DEF Filtered
  <1>5. f \in Int
    BY <1>4
  <1>6. CASE x = "left"
    <2>1. f <= -D
      BY <1>1, <1>3, <1>6 DEF DominantSide
    <2>2. sum <= -4 * D
      BY <1>4, <2>1
    <2>3. old <= -D \/ b <= -D
      BY <1>2, <2>2
    <2> QED
      BY <1>1, <1>6, <2>3 DEF DominantSide
  <1>7. CASE x = "right"
    <2>1. f >= D
      BY <1>1, <1>3, <1>7 DEF DominantSide
    <2>2. sum >= 4 * D
      BY <1>4, <2>1
    <2>3. old >= D \/ b >= D
      BY <1>2, <2>2
    <2>4. ASSUME NEW c \in Int, c >= D
          PROVE  DominantSide(c) = x
      <3>1. ~(c <= -D)
        BY <2>4
      <3> QED
        BY <1>1, <1>7, <2>4, <3>1 DEF DominantSide
    <2> QED
      BY <2>3, <2>4
  <1> QED
    BY <1>6, <1>7 DEF Sides

\* A pass with a finger on the pads dates what it notes.
LEMMA PassDates ==
  ASSUME DominanceDelta # 0, TouchIInv, ContactDated, NEW raw \in Samples,
         NEW gestures \in Nat, Passes, Record(raw, gestures),
         \A x \in Sides : session'.seen[x] # 0 => session.seen[x] # 0 \/ Visits(Above(raw), x)
  PROVE  /\ ContactDated'
         /\ \A x \in Sides :
              /\ contact.leant[x] # 0 => contact'.leant[x] = contact.leant[x]
              /\ Above(raw)[x] > Above(raw)[Opposite(x)] => contact'.leant[x] # 0
              /\ DominantSide(Balance(Above(raw))) = x => contact'.crossed[x] = tick
              /\ contact'.crossed[x] >= contact.crossed[x]
              /\ contact.leant[x] < tick /\ contact.crossed[x] < tick
  <1>0. /\ tick \in Nat \ {0} /\ sensorTick \in Nat /\ padOn \in [Sides -> BOOLEAN]
        /\ contact \in ContactType /\ tick \in 1..MaxTouchTicks
        /\ \A x \in Sides : contact.leant[x] \in Nat /\ contact.crossed[x] \in Nat
    BY TouchTyped DEF TouchIInv, ContactType
  <1>1. PICK d \in Deltas : d = Above(raw)
    BY AboveTyped
  <1>2. PICK t \in Nat \ {0} : t = tick /\ tick' = t + 1
    BY <1>0, PassAdvances
  <1>3. /\ \A x \in Sides :
             /\ contact'.leant[x] = IF contact.leant[x] = 0 /\ d[x] > d[Opposite(x)]
                                    THEN t ELSE contact.leant[x]
             /\ contact'.crossed[x] = IF DominantSide(Balance(d)) = x THEN t
                                      ELSE contact.crossed[x]
        /\ contact'.visited = contact.visited \cup {x \in Sides : Visits(d, x)}
    BY <1>0, <1>1, <1>2, RecordKeeps
  <1>4. SUFFICES ASSUME NEW x \in Sides
                 PROVE  /\ contact'.leant[x] < t + 1 /\ contact'.crossed[x] < t + 1
                        /\ contact'.crossed[x] # 0 => contact'.leant[x] # 0
                        /\ session'.seen[x] # 0 => x \in contact'.visited
                        /\ contact.leant[x] # 0 => contact'.leant[x] = contact.leant[x]
                        /\ d[x] > d[Opposite(x)] => contact'.leant[x] # 0
                        /\ DominantSide(Balance(d)) = x => contact'.crossed[x] = t
                        /\ contact'.crossed[x] >= contact.crossed[x]
                        /\ contact.leant[x] < t /\ contact.crossed[x] < t
    BY <1>1, <1>2 DEF ContactDated
  <1>5. PICK l \in Nat, c \in Nat :
          /\ l = contact.leant[x] /\ c = contact.crossed[x]
          /\ l < t /\ c < t /\ (c # 0 => l # 0)
    BY <1>0, <1>2 DEF ContactDated
  <1>6. DominantSide(Balance(d)) = x => d[x] > d[Opposite(x)]
    BY DominantIsNearer
  <1>7. /\ contact'.leant[x] = IF l = 0 /\ d[x] > d[Opposite(x)] THEN t ELSE l
        /\ contact'.crossed[x] = IF DominantSide(Balance(d)) = x THEN t ELSE c
    BY <1>3, <1>5
  <1>8. session'.seen[x] # 0 => x \in contact'.visited
    BY <1>1, <1>3 DEF ContactDated
  <1> QED
    BY <1>2, <1>5, <1>6, <1>7, <1>8

\* What a pass has sent in the way of gestures is what it had when the hold was seen to.
LEMMA HeldSends ==
  ASSUME TouchIInv, NEW h, NEW side, NEW gesture, Held(h, side, gesture),
         NEW i \in DOMAIN sent', sent'[i].what = "gesture", gesture \in Seq(SentType)
  PROVE  i \in DOMAIN gesture /\ sent'[i] = gesture[i]
  <1> DEFINE again == [what |-> "repeat", usage |-> h.usage, from |-> Opposite(h.side)]
  <1>1. CASE sent' = gesture
    BY <1>1
  <1>2. CASE sent' = Append(gesture, again)
    <2>1. again.what # "gesture"
      OBVIOUS
    <2> HIDE DEF again
    <2>2. \/ i \in DOMAIN gesture /\ sent'[i] = gesture[i]
          \/ sent'[i] = again
      <3>1. Len(sent') = Len(gesture) + 1 /\ i \in 1..Len(sent')
        BY <1>2
      <3> QED
        BY <1>2, <3>1
    <2> QED
      BY <2>1, <2>2
  <1> QED
    BY <1>1, <1>2 DEF Held

LEMMA SlideBegins ==
  ASSUME DominanceDelta # 0, VisitPercent <= 100, SlideIInv, NEW raw \in Samples,
         ContactBegins(raw)
  PROVE  ContactDated' /\ StartWasLeant' /\ GestureWasSlide'
  <1>0. /\ TouchIInv /\ ContactDated /\ tick \in Nat \ {0} /\ session \in SessionType
        /\ sensorTick \in Nat /\ padOn \in [Sides -> BOOLEAN] /\ contact \in ContactType
        /\ ~session.active /\ session = NoSession /\ contact = NoContact
    BY TouchTyped DEF SlideIInv, TouchIInv, ContactCounted, ContactBegins
  <1>1. PICK d \in Deltas : d = Above(raw)
    BY AboveTyped
  <1>2. PICK s \in SessionType :
          /\ s = Visited(session, d)
          /\ s.seen = [x \in Sides |-> IF session.seen[x] = 0 /\ Visits(d, x) THEN tick
                                       ELSE session.seen[x]]
    BY <1>0, VisitedSession
  <1>3. PICK side \in Sides \cup {"none"} : side = FirstSide(s, d)
    BY FirstSideTyped
  <1>4. /\ session' \in SessionType /\ session'.active = TRUE /\ session'.fired = FALSE
        /\ session'.side = side /\ session'.filtered = Balance(d)
        /\ session'.seen = Reordered(s.seen, side)
    BY <1>0, <1>1, <1>2, <1>3, BegunSession DEF ContactBegins
  <1>5. /\ \A x \in Sides : s.seen[x] # 0 <=> Visits(d, x)
        /\ s.seen \in [Sides -> Nat] /\ "none" \notin Sides
    BY <1>0, <1>2 DEF NoSession, SessionType, Sides
  <1>6. \A x \in Sides : session'.seen[x] # 0 => Visits(d, x)
    BY <1>3, <1>4, <1>5, ReorderedSeen
  <1>7. Passes /\ Record(raw, 0) /\ Held(hold, DominantSide(Balance(d)), <<>>)
    BY <1>1 DEF ContactBegins
  <1>8. /\ ContactDated'
        /\ \A x \in Sides :
             /\ d[x] > d[Opposite(x)] => contact'.leant[x] # 0
             /\ DominantSide(Balance(d)) = x => contact'.crossed[x] = tick
    BY <1>0, <1>1, <1>6, <1>7, PassDates
  <1>9. contact'.sided = (DominantSide(Balance(d)) # "none" \/ \E x \in Sides :
                            Visits(d, x) /\ ~Visits(d, Opposite(x)))
    BY <1>0, <1>1, <1>7, RecordKeeps
  <1>10. \A x \in Sides : OnlySeen(s.seen, x) <=> Visits(d, x) /\ ~Visits(d, Opposite(x))
    BY <1>5, OtherSide DEF OnlySeen
  <1>11. side = "none" => ~contact'.sided
    <2> SUFFICES ASSUME side = "none" PROVE ~contact'.sided
      OBVIOUS
    <2>1. ~\E x \in Sides : OnlySeen(s.seen, x)
      BY <1>3, <1>5 DEF FirstSide
    <2>2. DominantSide(Balance(d)) = "none"
      BY <1>3, <2>1 DEF FirstSide
    <2>3. ~\E x \in Sides : Visits(d, x) /\ ~Visits(d, Opposite(x))
      BY <1>10, <2>1
    <2> QED
      BY <1>9, <2>2, <2>3, Zenon
  <1>12. ASSUME NEW x \in Sides, side = x
         PROVE  d[x] > d[Opposite(x)]
    <2>1. CASE OnlySeen(s.seen, x)
      BY <1>10, <2>1, OnlyVisitIsNearer
    <2>2. CASE ~OnlySeen(s.seen, x)
      <3>1. ~\E y \in Sides : OnlySeen(s.seen, y)
        BY <1>3, <1>12, <2>2 DEF FirstSide
      <3>2. DominantSide(Balance(d)) = x
        BY <1>3, <1>12, <3>1 DEF FirstSide
      <3> QED
        BY <3>2, DominantIsNearer
    <2> QED
      BY <2>1, <2>2
  <1>13. ASSUME NEW x \in Sides, side = x
         PROVE  DominantSide(Balance(d)) # Opposite(x)
    <2> SUFFICES ASSUME DominantSide(Balance(d)) = Opposite(x) PROVE FALSE
      OBVIOUS
    <2>1. d[Opposite(x)] > d[x]
      BY OtherSide, DominantIsNearer
    <2>2. d[x] > d[Opposite(x)]
      BY <1>12, <1>13
    <2>3. d[x] \in Nat /\ d[Opposite(x)] \in Nat
      BY OtherSide DEF Deltas
    <2> QED
      BY <2>1, <2>2, <2>3
  <1>14. StartWasLeant'
    <2>1. \A x \in Sides : DominantSide(Balance(d)) = x => contact'.crossed[x] # 0
      BY <1>0, <1>8
    <2>2. \A x \in Sides : side = x => contact'.leant[x] # 0
      BY <1>8, <1>12
    <2>3. PICK f : f = Balance(d)
      OBVIOUS
    <2>4. session'.filtered = f
      BY <1>4, <2>3
    <2>5. \A x \in Sides : DominantSide(f) = x => contact'.crossed[x] # 0
      BY <2>1, <2>3
    <2>6. \A x \in Sides : side = x => DominantSide(f) # Opposite(x)
      BY <1>13, <2>3
    <2> QED
      BY <1>4, <1>11, <2>2, <2>4, <2>5, <2>6 DEF StartWasLeant, DominantSide
  <1>15. GestureWasSlide'
    <2>1. \A i \in DOMAIN sent' : sent'[i].what # "gesture"
      <3> SUFFICES ASSUME NEW i \in DOMAIN sent', sent'[i].what = "gesture" PROVE FALSE
        OBVIOUS
      <3>1. <<>> \in Seq(SentType) /\ DOMAIN <<>> = {}
        OBVIOUS
      <3>2. i \in DOMAIN <<>>
        BY <1>0, <1>7, <3>1, HeldSends
      <3> QED
        BY <3>1, <3>2
    <2> QED
      BY <2>1 DEF GestureWasSlide
  <1> QED
    BY <1>8, <1>14, <1>15

LEMMA SlideStays ==
  ASSUME DominanceDelta # 0, SlideIInv, NEW raw \in Samples, ContactStays(raw)
  PROVE  ContactDated' /\ StartWasLeant' /\ GestureWasSlide'
  <1>0. /\ TouchIInv /\ ContactDated /\ tick \in Nat \ {0} /\ session \in SessionType
        /\ session.active /\ session.fired
    BY TouchTyped DEF SlideIInv, TouchIInv, ContactStays
  <1>1. PICK d \in Deltas : d = Above(raw)
    BY AboveTyped
  <1>2. /\ session'.fired = session.fired
        /\ session'.seen = [x \in Sides |-> IF session.seen[x] = 0 /\ Visits(d, x) THEN tick
                                            ELSE session.seen[x]]
    BY <1>0, <1>1, VisitedSession DEF ContactStays
  <1>3. PICK side : Passes /\ Record(raw, 0) /\ Held(hold, side, <<>>)
    BY DEF ContactStays
  <1>4. \A x \in Sides : session'.seen[x] # 0 => session.seen[x] # 0 \/ Visits(d, x)
    BY <1>2
  <1>5. ContactDated'
    BY <1>0, <1>1, <1>3, <1>4, PassDates
  <1>6. StartWasLeant'
    BY <1>0, <1>2 DEF StartWasLeant
  <1>7. GestureWasSlide'
    <2>1. \A i \in DOMAIN sent' : sent'[i].what # "gesture"
      <3> SUFFICES ASSUME NEW i \in DOMAIN sent', sent'[i].what = "gesture" PROVE FALSE
        OBVIOUS
      <3>1. <<>> \in Seq(SentType) /\ DOMAIN <<>> = {}
        OBVIOUS
      <3>2. i \in DOMAIN <<>>
        BY <1>0, <1>3, <3>1, HeldSends
      <3> QED
        BY <3>1, <3>2
    <2> QED
      BY <2>1 DEF GestureWasSlide
  <1> QED
    BY <1>5, <1>6, <1>7

\* A contact that has moved, but not fired nor given way, satisfies what StartWasLeant
\* says with what is noted of it in this pass.
LEMMA MovedWasLeant ==
  ASSUME DominanceDelta # 0, VisitPercent <= 100, SlideIInv, NEW raw \in Samples,
         NEW gestures \in Nat, ContactMoves(raw), Record(raw, gestures),
         \A x \in Sides : session'.seen[x] # 0 => MovedTo(Above(raw)).seen[x] # 0
  PROVE  LET s == MovedTo(Above(raw))
         IN /\ ContactDated'
            /\ s \in SessionType /\ ~s.fired
            /\ s.side = "none" => ~contact'.sided /\ s.seen["left"] = s.seen["right"]
            /\ \A x \in Sides : s.seen[x] # 0 => x \in contact'.visited
            /\ \A x \in Sides : DominantSide(s.filtered) = x => contact'.crossed[x] # 0
            /\ \A x \in Sides : contact'.crossed[x] # 0 => contact'.leant[x] # 0
            /\ \A x \in Sides : s.side = x =>
                 /\ contact'.leant[x] # 0
                 /\ contact'.sided /\ DominantSide(s.filtered) = Opposite(x) =>
                      contact'.leant[x] < contact'.crossed[Opposite(x)]
  <1>0. /\ TouchIInv /\ ContactDated /\ StartWasLeant /\ StartUndecided
        /\ tick \in Nat \ {0} /\ session \in SessionType
        /\ sensorTick \in Nat /\ padOn \in [Sides -> BOOLEAN] /\ contact \in ContactType
        /\ session.active /\ ~session.fired /\ Passes
    BY TouchTyped DEF SlideIInv, TouchIInv, ContactMoves
  <1>1. PICK d \in Deltas : d = Above(raw)
    BY AboveTyped
  <1>2. PICK b \in Int : b = Balance(d)
    BY DEF Balance, Deltas, Sides
  <1>3. PICK old \in Int : old = session.filtered
    BY <1>0 DEF SessionType
  <1>4. PICK s \in SessionType :
          /\ s = MovedTo(d) /\ ~s.fired /\ s.filtered = Filtered(old, b)
          /\ \A x \in Sides : s.seen[x] # 0 => session.seen[x] # 0 \/ Visits(d, x)
          /\ s.side = "none" => s.seen["left"] = s.seen["right"] /\ session.side = "none"
          /\ session.side # "none" => s.side = session.side
          /\ session.side = "none" /\ s.side # "none" =>
               s.side \in Sides /\ Visits(d, s.side) /\ ~Visits(d, Opposite(s.side))
    BY <1>0, <1>2, <1>3, MovedSession
  <1>5. /\ ContactDated'
        /\ \A x \in Sides :
             /\ contact.leant[x] # 0 => contact'.leant[x] = contact.leant[x]
             /\ d[x] > d[Opposite(x)] => contact'.leant[x] # 0
             /\ DominantSide(b) = x => contact'.crossed[x] = tick
             /\ contact'.crossed[x] >= contact.crossed[x]
             /\ contact.leant[x] < tick /\ contact.crossed[x] < tick
    <2>1. \A x \in Sides : session'.seen[x] # 0 => session.seen[x] # 0 \/ Visits(d, x)
      BY <1>1, <1>4
    <2> QED
      BY <1>0, <1>1, <1>2, <2>1, PassDates
  <1>6. /\ contact'.sided = contact.sided /\ contact' \in ContactType
        /\ contact'.visited = contact.visited \cup {x \in Sides : Visits(d, x)}
    BY <1>0, <1>1, RecordKeeps
  <1>7. \A x \in Sides :
          /\ contact.leant[x] \in Nat /\ contact.crossed[x] \in Nat
          /\ contact'.leant[x] \in Nat /\ contact'.crossed[x] \in Nat
    BY <1>0, <1>6 DEF ContactType
  <1>8. s.side = "none" => ~contact'.sided
    BY <1>0, <1>4, <1>6 DEF StartWasLeant
  <1>9. \A x \in Sides : s.seen[x] # 0 => x \in contact'.visited
    BY <1>0, <1>4, <1>6 DEF ContactDated
  <1>10. ASSUME NEW x \in Sides, DominantSide(s.filtered) = x
         PROVE  /\ contact'.crossed[x] # 0
                /\ contact'.crossed[x] = tick
                   \/ (DominantSide(old) = x /\ contact'.crossed[x] >= contact.crossed[x])
    <2>1. DominantSide(old) = x \/ DominantSide(b) = x
      BY <1>4, <1>10, FilteredStays
    <2>2. CASE DominantSide(b) = x
      BY <1>0, <1>5, <2>2
    <2>3. CASE DominantSide(old) = x
      <3>1. contact.crossed[x] # 0
        BY <1>0, <1>3, <2>3 DEF StartWasLeant
      <3> QED
        BY <1>5, <1>7, <2>3, <3>1
    <2> QED
      BY <2>1, <2>2, <2>3
  <1>11. \A x \in Sides : contact'.crossed[x] # 0 => contact'.leant[x] # 0
    BY <1>5 DEF ContactDated
  <1>12. ASSUME NEW x \in Sides, s.side = x
         PROVE  /\ contact'.leant[x] # 0
                /\ contact'.sided /\ DominantSide(s.filtered) = Opposite(x) =>
                     contact'.leant[x] < contact'.crossed[Opposite(x)]
    <2>0. x # "none"
      BY DEF Sides
    <2>1. CASE session.side = "none"
      <3>1. Visits(d, x) /\ ~Visits(d, Opposite(x))
        BY <1>4, <1>12, <2>0, <2>1
      <3>2. contact'.leant[x] # 0
        BY <1>5, <3>1, OnlyVisitIsNearer
      <3>3. ~contact'.sided
        BY <1>0, <1>6, <2>1 DEF StartWasLeant
      <3> QED
        BY <3>2, <3>3
    <2>2. CASE session.side # "none"
      <3>1. session.side = x
        BY <1>4, <1>12, <2>2
      <3>2. contact.leant[x] # 0
        BY <1>0, <3>1 DEF StartWasLeant
      <3>3. contact'.leant[x] = contact.leant[x]
        BY <1>5, <3>2
      <3>4. ASSUME contact'.sided, DominantSide(s.filtered) = Opposite(x)
            PROVE  contact'.leant[x] < contact'.crossed[Opposite(x)]
        <4>0. Opposite(x) \in Sides
          BY OtherSide
        <4>1. CASE contact'.crossed[Opposite(x)] = tick
          BY <1>5, <3>3, <4>1
        <4>2. CASE /\ DominantSide(old) = Opposite(x)
                   /\ contact'.crossed[Opposite(x)] >= contact.crossed[Opposite(x)]
          <5>1. contact.leant[x] < contact.crossed[Opposite(x)]
            BY <1>0, <1>3, <1>6, <3>1, <3>4, <4>2 DEF StartWasLeant
          <5> QED
            BY <1>7, <3>3, <4>0, <4>2, <5>1
        <4> QED
          BY <1>10, <3>4, <4>0, <4>1, <4>2
      <3> QED
        BY <3>2, <3>3, <3>4
    <2> QED
      BY <2>1, <2>2
  <1> QED
    BY <1>1, <1>4, <1>5, <1>8, <1>9, <1>10, <1>11, <1>12

LEMMA SlideMoves ==
  ASSUME DominanceDelta # 0, VisitPercent <= 100, SlideIInv, NEW raw \in Samples,
         ContactMoves(raw)
  PROVE  ContactDated' /\ StartWasLeant' /\ GestureWasSlide'
  <1>0. /\ TouchIInv /\ tick \in Nat \ {0} /\ session \in SessionType /\ StartUndecided
        /\ session.active /\ ~session.fired
    BY TouchTyped DEF SlideIInv, TouchIInv, ContactMoves
  <1>1. PICK d \in Deltas : d = Above(raw)
    BY AboveTyped
  <1>2. PICK s \in SessionType : s = MovedTo(d) /\ s.active = session.active
    BY <1>0, MovedSession
  <1>3. CASE /\ session' = Flipped(s)
             /\ Held(hold, DominantSide(s.filtered), <<>>)
             /\ Record(raw, 0)
    <2>1. /\ session' \in SessionType /\ session'.fired = s.fired
          /\ session'.filtered = s.filtered
          /\ \A x \in Sides : session'.seen[x] # 0 => s.seen[x] # 0
          /\ \/ session' = s
             \/ session'.side \in Sides /\ session'.side = DominantSide(s.filtered)
      BY <1>0, <1>2, <1>3, FlippedSession
    <2>2. /\ ContactDated' /\ ~s.fired
          /\ s.side = "none" => ~contact'.sided
          /\ \A x \in Sides : DominantSide(s.filtered) = x => contact'.crossed[x] # 0
          /\ \A x \in Sides : contact'.crossed[x] # 0 => contact'.leant[x] # 0
          /\ \A x \in Sides : s.side = x =>
               /\ contact'.leant[x] # 0
               /\ contact'.sided /\ DominantSide(s.filtered) = Opposite(x) =>
                    contact'.leant[x] < contact'.crossed[Opposite(x)]
      BY <1>1, <1>2, <1>3, <2>1, MovedWasLeant
    <2>3. StartWasLeant'
      <3>1. PICK side, f : /\ side = session'.side /\ f = session'.filtered
                           /\ f = s.filtered
        BY <2>1
      <3>2. side = "none" => ~contact'.sided
        <4>1. "none" \notin Sides
          BY DEF Sides
        <4> QED
          BY <2>1, <2>2, <3>1, <4>1
      <3>3. \A x \in Sides : side = x =>
              /\ contact'.leant[x] # 0
              /\ contact'.sided /\ DominantSide(f) = Opposite(x) =>
                   contact'.leant[x] < contact'.crossed[Opposite(x)]
        <4>1. CASE session' = s
          BY <2>2, <3>1, <4>1
        <4>2. CASE session'.side \in Sides /\ session'.side = DominantSide(s.filtered)
          BY <2>2, <3>1, <4>2, OtherSide
        <4> QED
          BY <2>1, <4>1, <4>2
      <3>4. \A x \in Sides : DominantSide(f) = x => contact'.crossed[x] # 0
        BY <2>2, <3>1
      <3> QED
        BY <3>1, <3>2, <3>3, <3>4 DEF StartWasLeant, DominantSide
    <2>4. \A i \in DOMAIN sent' : sent'[i].what # "gesture"
      <3> SUFFICES ASSUME NEW i \in DOMAIN sent', sent'[i].what = "gesture" PROVE FALSE
        OBVIOUS
      <3>1. <<>> \in Seq(SentType) /\ DOMAIN <<>> = {}
        OBVIOUS
      <3>2. i \in DOMAIN <<>>
        BY <1>0, <1>3, <3>1, HeldSends
      <3> QED
        BY <3>1, <3>2
    <2> QED
      BY <2>2, <2>3, <2>4 DEF GestureWasSlide
  <1>4. CASE \E from \in Sides :
               /\ CrossedFrom(s, from) /\ MayFire(s)
               /\ session' = Fired(s, from)
               /\ Held(HoldAfter(from), DominantSide(s.filtered),
                       <<[what |-> "gesture",
                          usage |-> LayerTouch[touchLayer].usage[Opposite(from)],
                          from |-> from]>>)
               /\ Record(raw, 1)
    <2>1. PICK from \in Sides :
               /\ CrossedFrom(s, from) /\ MayFire(s)
               /\ session' = Fired(s, from)
               /\ Held(HoldAfter(from), DominantSide(s.filtered),
                       <<[what |-> "gesture",
                          usage |-> LayerTouch[touchLayer].usage[Opposite(from)],
                          from |-> from]>>)
               /\ Record(raw, 1)
      BY <1>4
    <2>2. session'.fired = TRUE /\ session'.seen = s.seen
      BY <2>1 DEF Fired, SessionType
    <2>3. /\ ContactDated'
          /\ s.side = "none" => s.seen["left"] = s.seen["right"]
          /\ \A x \in Sides : s.seen[x] # 0 => x \in contact'.visited
          /\ \A x \in Sides : DominantSide(s.filtered) = x => contact'.crossed[x] # 0
          /\ \A x \in Sides : s.side = x =>
               /\ contact'.leant[x] # 0
               /\ contact'.sided /\ DominantSide(s.filtered) = Opposite(x) =>
                    contact'.leant[x] < contact'.crossed[Opposite(x)]
      BY <1>1, <1>2, <2>1, <2>2, MovedWasLeant
    <2>4. s.side = from /\ DominantSide(s.filtered) = Opposite(from)
      <3>1. s.side \in {from, "none"} /\ DominantSide(s.filtered) = Opposite(from)
        BY <2>1 DEF CrossedFrom
      <3>2. s.side # "none"
        <4> SUFFICES ASSUME s.side = "none" PROVE FALSE
          OBVIOUS
        <4>1. Sequenced(s.seen, from)
          BY <2>1 DEF CrossedFrom, Sides
        <4>2. s.seen["left"] \in Nat
          BY DEF SessionType, Sides
        <4> QED
          BY <2>3, <4>1, <4>2 DEF Sequenced, Sides, Opposite
      <3> QED
        BY <3>1, <3>2
    <2>5. /\ contact'.leant[from] # 0 /\ contact'.crossed[Opposite(from)] # 0
          /\ contact'.sided => contact'.leant[from] < contact'.crossed[Opposite(from)]
      BY <2>3, <2>4, OtherSide
    <2>6. RequireBoth => contact'.visited = Sides
      <3>1. contact'.visited \subseteq Sides
        <4>1. /\ tick \in Nat /\ sensorTick \in Nat /\ padOn \in [Sides -> BOOLEAN]
              /\ contact \in ContactType
          BY <1>0, TouchTyped DEF TouchIInv
        <4>2. contact' \in ContactType
          BY <2>1, <4>1, RecordKeeps
        <4> QED
          BY <4>2 DEF ContactType
      <3>2. RequireBoth => \A x \in Sides : s.seen[x] # 0
        BY <2>1 DEF MayFire, BothSeen
      <3> QED
        BY <2>3, <3>1, <3>2
    <2>7. \A i \in DOMAIN sent' : sent'[i].what = "gesture" => sent'[i].from = from
      <3> SUFFICES ASSUME NEW i \in DOMAIN sent', sent'[i].what = "gesture"
                   PROVE  sent'[i].from = from
        OBVIOUS
      <3>1. PICK g : g = [what |-> "gesture",
                          usage |-> LayerTouch[touchLayer].usage[Opposite(from)],
                          from |-> from]
        OBVIOUS
      <3>2. LayerTouch[touchLayer].usage[Opposite(from)] \in Nat
        <4>1. touchLayer \in DOMAIN LayerTouch
          BY <1>0, TouchTyped DEF TouchIInv
        <4> QED
          BY <4>1, TouchAssumption, OtherSide
      <3>3. <<g>> \in Seq(SentType) /\ DOMAIN <<g>> = {1} /\ g.from = from
        BY <3>1, <3>2 DEF SentType
      <3>4. i \in DOMAIN <<g>> /\ sent'[i] = <<g>>[i]
        BY <1>0, <2>1, <3>1, <3>3, HeldSends
      <3> QED
        BY <3>3, <3>4
    <2>8. GestureWasSlide'
      BY <2>5, <2>6, <2>7 DEF GestureWasSlide
    <2>9. StartWasLeant'
      BY <2>2 DEF StartWasLeant
    <2> QED
      BY <2>3, <2>8, <2>9
  <1> QED
    BY <1>1, <1>2, <1>3, <1>4 DEF ContactMoves, MovedTo

LEMMA SlideStep ==
  ASSUME DominanceDelta # 0, VisitPercent <= 100
  PROVE  SlideIInv /\ [TouchNext]_touchVars => SlideIInv'
  <1> SUFFICES ASSUME SlideIInv, [TouchNext]_touchVars
               PROVE  SlideIInv'
    OBVIOUS
  <1>0. TouchIInv'
    BY TouchStep DEF SlideIInv
  <1>1. PICK t \in 1..MaxTouchTicks : t = tick
    BY TouchTyped DEF SlideIInv, TouchIInv
  <1>2. SUFFICES ContactDated' /\ StartWasLeant' /\ GestureWasSlide'
    BY <1>0 DEF SlideIInv
  <1>3. ASSUME NEW raw \in Samples, Lift(raw)
        PROVE  ContactDated' /\ StartWasLeant' /\ GestureWasSlide'
    <2>1. /\ Passes /\ session' = NoSession /\ contact' = NoContact /\ sent' = <<>>
      BY <1>3 DEF Lift
    <2>2. tick' = t + 1
      BY <1>1, <2>1, PassAdvances
    <2>3. 0 < t + 1
      BY <1>1
    <2>4. ContactDated'
      BY <2>1, <2>2, <2>3 DEF ContactDated, NoSession, NoContact
    <2>5. StartWasLeant' /\ GestureWasSlide'
      BY <2>1 DEF StartWasLeant, GestureWasSlide, NoSession
    <2> QED
      BY <2>4, <2>5
  <1>4. CASE PadReadFails
    <2>1. Passes /\ sent' = <<>> /\ session' = session /\ contact' = contact
      BY <1>4 DEF PadReadFails
    <2>2. tick' = t + 1
      BY <1>1, <2>1, PassAdvances
    <2>3. ContactDated'
      <3>1. contact \in ContactType /\ ContactDated
        BY DEF SlideIInv, TouchIInv
      <3>2. \A x \in Sides : contact.leant[x] \in Nat /\ contact.crossed[x] \in Nat
        BY <3>1 DEF ContactType
      <3>3. \A n \in Nat : n < t => n < t + 1
        BY <1>1
      <3> QED
        BY <1>1, <2>1, <2>2, <3>1, <3>2, <3>3 DEF ContactDated
    <2>4. StartWasLeant' /\ GestureWasSlide'
      BY <2>1 DEF SlideIInv, StartWasLeant, GestureWasSlide, DominantSide
    <2> QED
      BY <2>3, <2>4
  <1>5. ASSUME UNCHANGED <<tick, session, contact, sent>>
        PROVE  ContactDated' /\ StartWasLeant' /\ GestureWasSlide'
    BY <1>5 DEF SlideIInv, ContactDated, StartWasLeant, GestureWasSlide, DominantSide
  <1>6. CASE LayerTurns
    BY <1>5, <1>6 DEF LayerTurns
  <1>7. CASE UNCHANGED touchVars
    BY <1>5, <1>7 DEF touchVars
  <1> QED
    BY <1>3, <1>4, <1>6, <1>7, SlideBegins, SlideMoves, SlideStays DEF TouchNext

(***************************************************************************)
(* A contact is one gesture at most, and none if it began on both sides    *)
(* alike; usages are repeated only in the contact that was the gesture of  *)
(* them and after the delay of the hold: for any thresholds, any layers    *)
(* and any samples of the pads (touch_slider_update, touch_end_session).   *)
(***************************************************************************)
THEOREM ContactIsCounted ==
  TouchSpec => [](TouchTypeOK /\ OneGesturePerContact /\ AmbiguousRejected)
  <1>1. TouchIInv => TouchTypeOK /\ OneGesturePerContact /\ AmbiguousRejected
    BY DEF TouchIInv, ContactCounted, OneGesturePerContact, AmbiguousRejected
  <1> QED
    BY <1>1, TouchInvariance, PTL

(***************************************************************************)
(* A usage is repeated only in the contact that was the gesture of it, on  *)
(* the side the finger went to, and not before the delay of its layer.     *)
(***************************************************************************)
THEOREM RepeatsBelong == TouchSpec => []RepeatsFollowGesture
  <1>1. TouchIInv => RepeatsFollowGesture
    BY DEF TouchIInv, ContactCounted, HoldBelongs, RepeatsAreDue, RepeatsFollowGesture
  <1> QED
    BY <1>1, TouchInvariance, PTL

(***************************************************************************)
(* Gestures are slides: in a contact that set down on one side, the finger *)
(* was nearer to the side a gesture comes from before it was clearly on    *)
(* the other one.  It takes a dominance of 1 at least and a relative       *)
(* visit of 100 percent at most (keymap_config.h:234, 240 say 650, 20).    *)
(***************************************************************************)
THEOREM GesturesGoAcross ==
  ASSUME DominanceDelta # 0, VisitPercent <= 100
  PROVE  TouchSpec => []GesturesAreSlides
  <1>1. TouchInit => SlideIInv
    <2> SUFFICES ASSUME TouchInit PROVE SlideIInv
      OBVIOUS
    <2>1. ContactDated /\ StartWasLeant /\ GestureWasSlide
      BY DEF TouchInit, NoSession, NoContact, ContactDated, StartWasLeant, GestureWasSlide
    <2> QED
      BY <2>1, TouchInitEstablishes DEF SlideIInv
  <1>2. SlideIInv /\ [TouchNext]_touchVars => SlideIInv'
    BY SlideStep
  <1>3. SlideIInv => GesturesAreSlides
    BY DEF SlideIInv, TouchIInv, ContactCounted, GesturesAreSlides, OneGesturePerContact,
       AmbiguousRejected
  <1> QED
    BY <1>1, <1>2, <1>3, PTL DEF TouchSpec

=============================================================================
