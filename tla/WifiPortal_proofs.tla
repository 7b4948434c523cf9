-------------------------- MODULE WifiPortal_proofs --------------------------
(***************************************************************************)
(* Proofs about WifiPortal, for every set of networks, every length of the *)
(* driver's queue, every timeout and any number of resets.                 *)
(***************************************************************************)
EXTENDS WifiPortal, TLAPS

(***************************************************************************)
(* The queue of events evs: a loss of the link is in it, and every address *)
(* in it has such a loss behind it.                                        *)
(***************************************************************************)
LossQueued(evs) == \E j \in 1..Len(evs) : evs[j] = "disconnected"

Followed(evs) ==
  \A i \in 1..Len(evs) : evs[i] = "got_ip" =>
    \E j \in 1..Len(evs) : j > i /\ evs[j] = "disconnected"

\* while the link is not up, whoever thinks it is will be told
LossIsTold ==
  link # "up" => Followed(events) /\ (connected => LossQueued(events))

\* start_sta_connect is called by main and by the poll, which wait for it
CallsByInput ==
  call["input"].step # "none" => input \in {"boot_connect", "saved_connect"}

PortalServed ==
  /\ input = "announce" => http
  /\ ServedWhileActive

\* what the input task is about to open is the last resort
FallbackSpent ==
  /\ input = "boot" => ~fallbackPending
  /\ input \in {"services", "announce"} => ~MayTrySaved

IInv ==
  /\ TypeOK
  /\ LossIsTold
  /\ CallsByInput
  /\ PortalServed
  /\ FallbackSpent

-----------------------------------------------------------------------------
(***************************************************************************)
(* The type invariant, by parts.                                           *)
(***************************************************************************)
Calls == [step : {"none", "configure", "arm", "connect"}, cfg : Cfgs,
          startedNow : BOOLEAN]

FlashTyped == stored \in Cfgs /\ provisioned \in Cfgs /\ resets \in 0..MaxResets

FlagsTyped ==
  /\ active \in BOOLEAN /\ connected \in BOOLEAN /\ waiting \in BOOLEAN
  /\ stopRequested \in BOOLEAN /\ cancelRequested \in BOOLEAN
  /\ bootInProgress \in BOOLEAN /\ fallbackPending \in BOOLEAN
  /\ fallbackAttempted \in BOOLEAN /\ http \in BOOLEAN

ValuesTyped ==
  /\ retries \in 0..MaxRetry /\ state \in PortalStates /\ selected \in Cfgs
  /\ attemptTimer \in Nat /\ portalTimer \in Nat /\ bootSaved \in Cfgs
  /\ input \in {"boot", "boot_connect", "mark_boot", "loop", "saved_connect",
                "services", "announce", "show", "closing", "stopping", "clear",
                "settle"}
  /\ handler \in {"none", "connect", "report_failure", "report_ip"}

CallsTyped == call \in [Callers -> Calls]

LEMMA TypeByParts ==
  TypeOK <=> DriverTypeOK /\ FlashTyped /\ FlagsTyped /\ ValuesTyped /\ CallsTyped
  BY Zenon DEF TypeOK, FlashTyped, FlagsTyped, ValuesTyped, CallsTyped, Calls

LEMMA NoCallIsCall ==
  /\ NoCall \in Calls /\ NoCall.step = "none"
  /\ \A cfg \in Cfgs : NewCall(cfg) \in Calls
  BY DEF NoCall, NewCall, Calls, Cfgs

-----------------------------------------------------------------------------
(***************************************************************************)
(* Queues.                                                                 *)
(***************************************************************************)
LEMMA AppendedQueue ==
  ASSUME NEW evs \in Seq(Events), NEW e \in Events
  PROVE  /\ Append(evs, e) \in Seq(Events)
         /\ e = "disconnected" => Followed(Append(evs, e)) /\ LossQueued(Append(evs, e))
         /\ e # "got_ip" /\ Followed(evs) => Followed(Append(evs, e))
         /\ LossQueued(evs) => LossQueued(Append(evs, e))
  <1> DEFINE q == Append(evs, e)
  <1>1. /\ q \in Seq(Events) /\ Len(q) = Len(evs) + 1 /\ Len(evs) \in Nat
        /\ q[Len(q)] = e /\ \A i \in 1..Len(evs) : q[i] = evs[i]
    OBVIOUS
  <1>2. e = "disconnected" => Followed(q) /\ LossQueued(q)
    BY <1>1 DEF Followed, LossQueued
  <1>3. e # "got_ip" /\ Followed(evs) => Followed(q)
    BY <1>1 DEF Followed
  <1>4. LossQueued(evs) => LossQueued(q)
    BY <1>1 DEF LossQueued
  <1> QED
    BY <1>1, <1>2, <1>3, <1>4

LEMMA HandledQueue ==
  ASSUME NEW evs \in Seq(Events), evs # <<>>
  PROVE  /\ Tail(evs) \in Seq(Events)
         /\ Followed(evs) => Followed(Tail(evs))
         /\ Head(evs) # "disconnected" /\ LossQueued(evs) => LossQueued(Tail(evs))
         /\ Head(evs) = "got_ip" /\ Followed(evs) => LossQueued(Tail(evs))
  <1> DEFINE q == Tail(evs)
  <1>1. /\ q \in Seq(Events) /\ Len(q) = Len(evs) - 1 /\ Len(evs) \in Nat \ {0}
        /\ Head(evs) = evs[1] /\ \A i \in 1..Len(q) : q[i] = evs[i + 1]
    OBVIOUS
  <1>2. ASSUME NEW j \in 1..Len(evs), j # 1
        PROVE  j - 1 \in 1..Len(q) /\ q[j - 1] = evs[j]
    BY <1>1, <1>2
  <1>3. ASSUME Followed(evs) PROVE Followed(q)
    <2> SUFFICES ASSUME NEW i \in 1..Len(q), q[i] = "got_ip"
                 PROVE  \E j \in 1..Len(q) : j > i /\ q[j] = "disconnected"
      BY DEF Followed
    <2>1. i + 1 \in 1..Len(evs) /\ evs[i + 1] = "got_ip"
      BY <1>1
    <2>2. PICK j \in 1..Len(evs) : j > i + 1 /\ evs[j] = "disconnected"
      BY <1>3, <2>1 DEF Followed
    <2> QED
      BY <1>1, <1>2, <2>2
  <1>4. ASSUME Head(evs) # "disconnected", LossQueued(evs) PROVE LossQueued(q)
    BY <1>1, <1>2, <1>4 DEF LossQueued
  <1>5. ASSUME Head(evs) = "got_ip", Followed(evs) PROVE LossQueued(q)
    <2>1. PICK j \in 1..Len(evs) : j > 1 /\ evs[j] = "disconnected"
      BY <1>1, <1>5 DEF Followed
    <2> QED
      BY <1>2, <2>1 DEF LossQueued
  <1> QED
    BY <1>1, <1>3, <1>4, <1>5

LEMMA InitEstablishesInvariant == Init => IInv
  <1> SUFFICES ASSUME Init PROVE IInv
    OBVIOUS
  <1>1. TypeOK
    <2>1. CallsTyped
      BY NoCallIsCall DEF Init, CallsTyped
    <2>2. 0 \in 0..MaxResets /\ 0 \in 0..MaxRetry /\ StaTicks \in Nat /\ 0 \in Nat
          /\ <<>> \in Seq(Events) /\ NoCfg \in Cfgs
      BY PortalTimeAssumption DEF Cfgs
    <2>3. stored \in Cfgs
      BY DEF Init, Cfgs
    <2> QED
      BY <2>1, <2>2, <2>3, TypeByParts, Zenon DEF Init, DriverInit, DriverTypeOK, FlashTyped,
         FlagsTyped, ValuesTyped, PortalStates
  <1>2. LossIsTold
    BY DEF Init, DriverInit, LossIsTold, Followed
  <1>3. CallsByInput
    BY DEF Init, CallsByInput, NoCall, Callers
  <1>4. PortalServed /\ FallbackSpent
    BY Zenon DEF Init, PortalServed, ServedWhileActive, FallbackSpent, MayTrySaved
  <1> QED
    BY <1>1, <1>2, <1>3, <1>4 DEF IInv

-----------------------------------------------------------------------------
(***************************************************************************)
(* What the driver does keeps the promise that a loss is told.             *)
(***************************************************************************)
LEMMA DriverUnchanged ==
  ASSUME IInv, UNCHANGED driverVars, connected' => connected
  PROVE  DriverTypeOK' /\ LossIsTold'
  BY DEF IInv, TypeOK, driverVars, DriverTypeOK, LossIsTold

LEMMA DriverStarted ==
  ASSUME IInv, EnsureStarted, connected' => connected
  PROVE  DriverTypeOK' /\ LossIsTold'
  <1>1. /\ link' = link /\ link \in {"down", "joining", "associated", "up"}
        /\ events \in Seq(Events)
        /\ wifiStarted' = TRUE
        /\ events' = events \/ events' = Append(events, "sta_start")
    BY DEF IInv, TypeOK, DriverTypeOK, EnsureStarted
  <1>2. "sta_start" \in Events
    BY DEF Events
  <1>3. DriverTypeOK'
    BY <1>1, <1>2, AppendedQueue DEF DriverTypeOK
  <1>4. LossIsTold'
    BY <1>1, <1>2, AppendedQueue DEF IInv, LossIsTold
  <1> QED
    BY <1>3, <1>4

LEMMA DriverJoins ==
  ASSUME IInv, NEW evs \in Seq(Events), JoinWith(evs),
         link # "up" => Followed(evs) /\ (connected' => LossQueued(evs))
  PROVE  DriverTypeOK' /\ LossIsTold'
  <1>1. "disconnected" \in Events
    BY DEF Events
  <1>2. DriverTypeOK'
    BY <1>1, AppendedQueue DEF IInv, TypeOK, DriverTypeOK, JoinWith
  <1>3. LossIsTold'
    BY <1>1, AppendedQueue DEF JoinWith, LossIsTold
  <1> QED
    BY <1>2, <1>3

LEMMA DriverHandled ==
  ASSUME IInv, NEW e \in Events, Takes(e), Handled,
         \/ ~connected'
         \/ e = "got_ip"
         \/ e = "sta_start" /\ (connected' => connected)
  PROVE  DriverTypeOK' /\ LossIsTold'
  <1>1. events \in Seq(Events) /\ events # <<>> /\ Head(events) = e
    BY DEF IInv, TypeOK, DriverTypeOK, Takes
  <1>2. DriverTypeOK'
    BY <1>1, HandledQueue DEF IInv, TypeOK, DriverTypeOK, Handled
  <1>3. ASSUME link' # "up"
        PROVE  Followed(events') /\ (connected' => LossQueued(events'))
    <2>1. link # "up" /\ events' = Tail(events)
      BY <1>3 DEF Handled
    <2>2. Followed(events) /\ (connected => LossQueued(events))
      BY <2>1 DEF IInv, LossIsTold
    <2>3. e # "disconnected" \/ ~connected'
      OBVIOUS
    <2> QED
      BY <1>1, <2>1, <2>2, <2>3, HandledQueue
  <1>4. LossIsTold'
    BY <1>3 DEF LossIsTold
  <1> QED
    BY <1>2, <1>4

LEMMA DriverOutcome ==
  ASSUME IInv, Joins \/ JoinFails \/ GetsAddress \/ Drops, connected' => connected
  PROVE  DriverTypeOK' /\ LossIsTold'
  <1>1. /\ "disconnected" \in Events /\ "got_ip" \in Events
        /\ events \in Seq(Events)
    BY DEF Events, IInv, TypeOK, DriverTypeOK
  <1>2. DriverTypeOK'
    BY <1>1, AppendedQueue DEF IInv, TypeOK, DriverTypeOK, Joins, JoinFails,
       GetsAddress, Drops, Moves, Posts
  <1>3. LossIsTold'
    BY <1>1, AppendedQueue DEF IInv, LossIsTold, Joins, JoinFails, GetsAddress,
       Drops, Moves, Posts
  <1> QED
    BY <1>2, <1>3

-----------------------------------------------------------------------------
(***************************************************************************)
(* start_sta_connect.                                                      *)
(***************************************************************************)
ByParts ==
  /\ FlashTyped /\ FlagsTyped /\ ValuesTyped /\ CallsTyped
  /\ CallsByInput /\ PortalServed /\ FallbackSpent

LEMMA InvariantByParts ==
  /\ IInv => ByParts
  /\ ByParts' /\ DriverTypeOK' /\ LossIsTold' => IInv'
  <1>1. IInv => ByParts
    BY TypeByParts, Zenon DEF IInv, ByParts
  <1>2. TypeOK' <=> /\ DriverTypeOK' /\ FlashTyped' /\ FlagsTyped' /\ ValuesTyped'
                    /\ CallsTyped'
    BY Zenon DEF TypeOK, FlashTyped, FlagsTyped, ValuesTyped, CallsTyped, Calls
  <1>3. ByParts' /\ DriverTypeOK' /\ LossIsTold' => IInv'
    BY <1>2, Zenon DEF IInv, ByParts
  <1> QED
    BY <1>1, <1>3

LEMMA CallReplaced ==
  ASSUME CallsTyped, NEW c \in Callers, NEW r \in Calls, call' = [call EXCEPT ![c] = r]
  PROVE  /\ CallsTyped' /\ call'[c] = r
         /\ \A d \in Callers : d # c => call'[d] = call[d]
  BY DEF CallsTyped

\* start_sta_connect goes on to its next block
LEMMA CallGoesOn ==
  ASSUME CallsTyped, NEW c \in Callers, NEW step \in {"arm", "connect"},
         NEW started \in BOOLEAN,
         \/ call' = [call EXCEPT ![c].step = step]
         \/ call' = [call EXCEPT ![c].step = step, ![c].startedNow = started]
  PROVE  CallsTyped' /\ \A d \in Callers : d # c => call'[d] = call[d]
  <1> DEFINE r == [step |-> step, cfg |-> call[c].cfg,
                   startedNow |-> IF call' = [call EXCEPT ![c].step = step]
                                    THEN call[c].startedNow ELSE started]
  <1>1. call[c] \in Calls /\ call \in [Callers -> Calls]
    BY DEF CallsTyped
  <1>2. call' = [call EXCEPT ![c] = r]
    BY <1>1 DEF Calls
  <1>3. r \in Calls
    BY <1>1, Zenon DEF Calls
  <1> QED
    BY <1>2, <1>3, CallReplaced

LEMMA StartStaConnectKeepsInvariant ==
  ASSUME IInv, NEW c \in Callers, StartStaConnect(c)
  PROVE  IInv'
  <1>0. /\ ByParts /\ call[c] \in Calls /\ call[c].cfg \in Cfgs
        /\ call[c].startedNow \in BOOLEAN /\ "input" \in Callers
    BY InvariantByParts DEF ByParts, CallsTyped, Calls, Callers
  <1> USE DEF ByParts
  <1>1. ASSUME Configure(c) PROVE IInv'
    <2>1. DriverTypeOK' /\ LossIsTold'
      BY <1>1, DriverStarted DEF Configure
    <2>2. FlashTyped'
      BY <1>0, <1>1 DEF Configure, FlashTyped
    <2>3. CallsTyped' /\ \A d \in Callers : d # c => call'[d] = call[d]
      <3>1. (~wifiStarted) \in BOOLEAN
        OBVIOUS
      <3> QED
        BY <1>0, <1>1, <3>1, CallGoesOn, Zenon DEF Configure
    <2>4. UNCHANGED <<connected, state, requestVars, attemptVars, bootVars, portalVars,
                      input, handler>>
      BY <1>1 DEF Configure
    <2>5. CallsByInput'
      BY <1>0, <1>1, <2>3, <2>4 DEF Configure, CallsByInput
    <2>6. FlagsTyped'
      BY <1>0, <2>4, Zenon DEF FlagsTyped, requestVars, attemptVars, bootVars, portalVars
    <2>8. ValuesTyped'
      BY <1>0, <2>4, Zenon DEF ValuesTyped, attemptVars, bootVars, portalVars
    <2>7. PortalServed' /\ FallbackSpent'
      BY <1>0, <2>4, Zenon DEF PortalServed, ServedWhileActive, FallbackSpent, MayTrySaved,
         bootVars, portalVars
    <2> QED
      BY <2>1, <2>2, <2>3, <2>5, <2>6, <2>7, <2>8, InvariantByParts, Zenon
  <1>2. ASSUME ConfigureFails(c) PROVE IInv'
    <2>1. DriverTypeOK' /\ LossIsTold'
      BY <1>2, DriverUnchanged DEF ConfigureFails
    <2>2. FlashTyped'
      BY <1>0, <1>2 DEF ConfigureFails, FlashTyped
    <2>3. CallsTyped' /\ call'[c] = NoCall /\ \A d \in Callers : d # c => call'[d] = call[d]
      BY <1>0, <1>2, NoCallIsCall, CallReplaced DEF ConfigureFails, Failed, Return
    <2>4. /\ UNCHANGED <<connected, state, requestVars, attemptVars, bootVars, portalVars,
                         handler>>
          /\ input' = IF c = "input" THEN "loop" ELSE input
      BY <1>2, Zenon DEF ConfigureFails, Failed
    <2>5. CallsByInput'
      BY <1>0, <2>3, <2>4, NoCallIsCall DEF CallsByInput
    <2>6. c = "input" => input \in {"boot_connect", "saved_connect"}
      BY <1>0, <1>2 DEF ConfigureFails, CallsByInput
    <2>7. FlagsTyped' /\ PortalServed' /\ FallbackSpent'
      BY <1>0, <2>4, <2>6, Zenon DEF FlagsTyped, PortalServed, ServedWhileActive,
         FallbackSpent, MayTrySaved, requestVars, attemptVars, bootVars, portalVars
    <2>8. ValuesTyped'
      BY <1>0, <2>4, Zenon DEF ValuesTyped, attemptVars, bootVars, portalVars
    <2> QED
      BY <2>1, <2>2, <2>3, <2>5, <2>7, <2>8, InvariantByParts, Zenon
  <1>3. ASSUME Arm(c) PROVE IInv'
    <2>1. DriverTypeOK' /\ LossIsTold'
      BY <1>3, DriverUnchanged DEF Arm
    <2>3. CallsTyped' /\ \A d \in Callers : d # c => call'[d] = call[d]
      BY <1>0, <1>3, CallGoesOn, Zenon DEF Arm
    <2>4. UNCHANGED <<flashVars, state, cancelRequested, bootVars, portalVars, input, handler>>
      BY <1>3 DEF Arm
    <2>5. CallsByInput'
      BY <1>0, <1>3, <2>3, <2>4 DEF Arm, CallsByInput
    <2>6. /\ FlashTyped' /\ PortalServed' /\ FallbackSpent'
      BY <1>0, <2>4, Zenon DEF FlashTyped, PortalServed, ServedWhileActive,
         FallbackSpent, MayTrySaved, flashVars, bootVars, portalVars
    <2>7. FlagsTyped'
      BY <1>0, <1>3, Zenon DEF Arm, FlagsTyped, bootVars, portalVars
    <2>8. ValuesTyped'
      BY <1>0, <1>3, PortalTimeAssumption DEF Arm, ValuesTyped, bootVars, portalVars
    <2> QED
      BY <2>1, <2>3, <2>5, <2>6, <2>7, <2>8, InvariantByParts, Zenon
  <1>4. ASSUME Go(c) PROVE IInv'
    <2>1. DriverTypeOK' /\ LossIsTold'
      <3>1. connected' = connected
        BY <1>4 DEF Go
      <3>2. events \in Seq(Events) /\ (link # "up" =>
              Followed(events) /\ (connected' => LossQueued(events)))
        BY <3>1 DEF IInv, LossIsTold, TypeOK, DriverTypeOK
      <3> QED
        BY <1>4, <3>1, <3>2, DriverJoins, DriverUnchanged DEF Go
    <2>3. CallsTyped' /\ call'[c] = NoCall /\ \A d \in Callers : d # c => call'[d] = call[d]
      BY <1>0, <1>4, NoCallIsCall, CallReplaced DEF Go, Return
    <2>4. /\ UNCHANGED <<flashVars, connected, requestVars, attemptVars, bootVars,
                         portalVars, handler>>
          /\ input' = IF c = "input" THEN AfterConnect ELSE input
          /\ state' \in {"portal_connecting", "sta_connecting"}
      BY <1>4, Zenon DEF Go
    <2>5. CallsByInput'
      BY <1>0, <2>3, <2>4, NoCallIsCall DEF CallsByInput
    <2>6. c = "input" => input \in {"boot_connect", "saved_connect"}
      BY <1>0, <1>4 DEF Go, CallsByInput
    <2>7. FlashTyped' /\ FlagsTyped' /\ PortalServed' /\ FallbackSpent'
      BY <1>0, <2>4, <2>6, Zenon DEF FlashTyped, FlagsTyped, PortalServed,
         ServedWhileActive, FallbackSpent, MayTrySaved, AfterConnect, flashVars,
         requestVars, attemptVars, bootVars, portalVars
    <2>8. ValuesTyped'
      BY <1>0, <2>4, Zenon DEF ValuesTyped, AfterConnect, PortalStates, attemptVars,
         bootVars, portalVars
    <2> QED
      BY <2>1, <2>3, <2>5, <2>7, <2>8, InvariantByParts, Zenon
  <1> QED
    BY <1>1, <1>2, <1>3, <1>4 DEF StartStaConnect

LEMMA SubmitKeepsInvariant ==
  ASSUME IInv, NEW cfg \in Networks, Submit(cfg)
  PROVE  IInv'
  <1>0. ByParts /\ cfg \in Cfgs /\ "http" \in Callers /\ "input" \in Callers
    BY InvariantByParts DEF Cfgs, Callers
  <1> USE DEF ByParts
  <1>1. DriverTypeOK' /\ LossIsTold'
    BY DriverUnchanged DEF Submit
  <1>2. CallsTyped' /\ call'["input"] = call["input"]
    BY <1>0, NoCallIsCall, CallReplaced DEF Submit
  <1>3. UNCHANGED <<flashVars, connected, state, requestVars, attemptVars, bootVars,
                    portalVars, input, handler>>
    BY Zenon DEF Submit
  <1>4. FlashTyped' /\ FlagsTyped'
    BY <1>0, <1>3, Zenon DEF FlashTyped, FlagsTyped, flashVars, requestVars, attemptVars,
       bootVars, portalVars
  <1>6. ValuesTyped'
    BY <1>0, <1>3, Zenon DEF ValuesTyped, attemptVars, bootVars, portalVars
  <1>5. CallsByInput' /\ PortalServed' /\ FallbackSpent'
    BY <1>0, <1>2, <1>3, Zenon DEF CallsByInput, PortalServed, ServedWhileActive,
       FallbackSpent, MayTrySaved, bootVars, portalVars
  <1> QED
    BY <1>1, <1>2, <1>4, <1>5, <1>6, InvariantByParts, Zenon

-----------------------------------------------------------------------------
(***************************************************************************)
(* The boot: wifi_portal_start, and the mark after it.                     *)
(***************************************************************************)
LEMMA BootKeepsInvariant ==
  ASSUME IInv, WifiPortalStart \/ MarkBoot
  PROVE  IInv'
  <1>0. ByParts /\ "input" \in Callers
    BY InvariantByParts DEF Callers
  <1> USE DEF ByParts
  <1>1. ASSUME WifiPortalStart PROVE IInv'
    <2>1. /\ UNCHANGED <<driverVars, flashVars, connected, state, requestVars, attemptVars,
                         bootInProgress, fallbackAttempted, portalVars, handler>>
          /\ input = "boot" /\ input' \in {"boot_connect", "services"}
      BY <1>1, Zenon DEF WifiPortalStart, BootWithMenu, BootWithStored, BootWithNothing
    <2>2. DriverTypeOK' /\ LossIsTold'
      BY <2>1, DriverUnchanged
    <2>3. fallbackPending' \in BOOLEAN /\ bootSaved' \in Cfgs
      <3>1. NoCfg \in Cfgs /\ stored \in Cfgs /\ (stored \notin {NoCfg, MenuCfg}) \in BOOLEAN
            /\ fallbackPending \in BOOLEAN /\ bootSaved \in Cfgs
        BY <1>0 DEF FlashTyped, FlagsTyped, ValuesTyped, Cfgs
      <3> QED
        BY <1>1, <3>1, Zenon DEF WifiPortalStart, BootWithMenu, BootWithStored,
           BootWithNothing
    <2>4. /\ CallsTyped'
          /\ input' = "services" => call' = call /\ fallbackPending' = fallbackPending
      <3>1. MenuCfg \in Cfgs /\ stored \in Cfgs
        BY <1>0 DEF FlashTyped, Cfgs
      <3>2. CASE input' = "services"
        BY <1>0, <1>1, <3>2 DEF WifiPortalStart, BootWithMenu, BootWithStored,
           BootWithNothing, CallsTyped
      <3>3. CASE input' # "services"
        BY <1>0, <1>1, <3>1, <3>3, NoCallIsCall, CallReplaced DEF WifiPortalStart,
           BootWithMenu, BootWithStored, BootWithNothing
      <3> QED
        BY <3>2, <3>3
    <2>5. FlashTyped' /\ FlagsTyped'
      BY <1>0, <2>1, <2>3, Zenon DEF FlashTyped, FlagsTyped, flashVars, requestVars,
         attemptVars, portalVars
    <2>6. ValuesTyped'
      BY <1>0, <2>1, <2>3, Zenon DEF ValuesTyped, attemptVars, portalVars
    <2>7. CallsByInput'
      BY <1>0, <2>1, <2>4, Zenon DEF CallsByInput
    <2>8. PortalServed'
      <3>1. active => http
        BY <1>0, <2>1 DEF PortalServed, ServedWhileActive
      <3>2. active' = active /\ http' = http /\ input' # "announce"
        BY <2>1 DEF portalVars
      <3> QED
        BY <3>1, <3>2, Zenon DEF PortalServed, ServedWhileActive
    <2>9. FallbackSpent'
      <3>1. ~fallbackPending /\ input' # "boot" /\ input' # "announce"
        BY <1>0, <2>1 DEF FallbackSpent
      <3>2. input' = "services" => ~fallbackPending'
        BY <2>4, <3>1
      <3> QED
        BY <3>1, <3>2, Zenon DEF FallbackSpent, MayTrySaved
    <2> QED
      BY <2>2, <2>4, <2>5, <2>6, <2>7, <2>8, <2>9, InvariantByParts, Zenon
  <1>2. ASSUME MarkBoot PROVE IInv'
    <2>1. DriverTypeOK' /\ LossIsTold'
      BY <1>2, DriverUnchanged DEF MarkBoot
    <2>2. FlashTyped' /\ FlagsTyped' /\ ValuesTyped' /\ CallsTyped'
      BY <1>0, <1>2, Zenon DEF MarkBoot, FlashTyped, FlagsTyped, ValuesTyped, CallsTyped,
         flashVars, requestVars, attemptVars, portalVars
    <2>3. CallsByInput' /\ PortalServed' /\ FallbackSpent'
      BY <1>0, <1>2, Zenon DEF MarkBoot, CallsByInput, PortalServed, ServedWhileActive,
         FallbackSpent, MayTrySaved, portalVars
    <2> QED
      BY <2>1, <2>2, <2>3, InvariantByParts, Zenon
  <1> QED
    BY <1>1, <1>2

-----------------------------------------------------------------------------
(***************************************************************************)
(* wifi_event_handler: it leaves the input task and the calls alone, and   *)
(* only ever takes the fallback back.                                      *)
(***************************************************************************)
LEMMA HandlerKeepsInvariant ==
  ASSUME IInv, WifiEventHandler
  PROVE  IInv'
  <1>0. ByParts /\ events \in Seq(Events)
    BY InvariantByParts DEF IInv, TypeOK, DriverTypeOK
  <1> USE DEF ByParts, WifiEventHandler
  <1>1. UNCHANGED <<flashVars, bootSaved, portalVars, input, call>>
    BY Zenon DEF StaStart, StaDisconnected, Retry, ReportFailure, GotIp, ReportIp,
       bootVars
  <1>2. fallbackPending' => fallbackPending /\ (fallbackAttempted' <=> fallbackAttempted)
    BY Zenon DEF StaStart, StaDisconnected, Retry, ReportFailure, GotIp, ReportIp,
       bootVars
  <1>3. DriverTypeOK' /\ LossIsTold'
    <2>0. "sta_start" \in Events /\ "disconnected" \in Events /\ "got_ip" \in Events
      BY DEF Events
    <2>1. CASE StaStart /\ waiting
      <3>1. /\ Takes("sta_start") /\ JoinWith(Tail(events)) /\ connected' = connected
            /\ Head(events) = "sta_start" /\ events # <<>>
        BY <2>1 DEF StaStart, Takes
      <3>2. Tail(events) \in Seq(Events) /\
            (link # "up" => /\ Followed(Tail(events))
                            /\ connected' => LossQueued(Tail(events)))
        BY <1>0, <3>1, HandledQueue DEF IInv, LossIsTold
      <3> QED
        BY <3>1, <3>2, DriverJoins
    <2>2. CASE StaStart /\ ~waiting
      BY <2>0, <2>2, DriverHandled DEF StaStart
    <2>3. CASE StaDisconnected
      BY <2>0, <2>3, DriverHandled DEF StaDisconnected
    <2>4. CASE Retry
      <3>1. JoinWith(events) /\ connected' = connected
        BY <2>4 DEF Retry
      <3>2. link # "up" => Followed(events) /\ (connected' => LossQueued(events))
        BY <3>1 DEF IInv, LossIsTold
      <3> QED
        BY <1>0, <3>1, <3>2, DriverJoins
    <2>5. CASE GotIp
      BY <2>0, <2>5, DriverHandled DEF GotIp
    <2>6. CASE ReportFailure \/ ReportIp
      BY <2>6, DriverUnchanged DEF ReportFailure, ReportIp
    <2> QED
      BY <2>1, <2>2, <2>3, <2>4, <2>5, <2>6
  <1>4. FlashTyped' /\ CallsTyped'
    BY <1>0, <1>1, Zenon DEF FlashTyped, CallsTyped, flashVars
  <1>5. FlagsTyped'
    <2>1. CASE StaStart \/ Retry \/ ReportFailure \/ ReportIp
      BY <1>0, <2>1, Zenon DEF StaStart, Retry, ReportFailure, ReportIp, FlagsTyped,
         requestVars, attemptVars, bootVars, portalVars
    <2>2. CASE StaDisconnected
      <3>1. waiting' \in BOOLEAN
        BY <2>2 DEF StaDisconnected, ShouldRetry
      <3> QED
        BY <1>0, <2>2, <3>1, Zenon DEF StaDisconnected, FlagsTyped, requestVars,
           bootVars, portalVars
    <2>3. CASE GotIp
      <3>1. stopRequested' \in BOOLEAN
        BY <2>3 DEF GotIp
      <3> QED
        BY <1>0, <2>3, <3>1, Zenon DEF GotIp, FlagsTyped, portalVars
    <2> QED
      BY <2>1, <2>2, <2>3
  <1>6. ValuesTyped'
    <2>1. retries' \in 0..MaxRetry
      BY <1>0, PortalTimeAssumption DEF ValuesTyped, StaStart, StaDisconnected, Retry,
         ReportFailure, GotIp, ReportIp, attemptVars, RetriesAfter, ShouldRetry
    <2>2. state' \in PortalStates /\ handler' \in {"none", "connect", "report_failure", "report_ip"}
      BY <1>0, Zenon DEF ValuesTyped, PortalStates, StaStart, StaDisconnected, Retry,
         ReportFailure, GotIp, ReportIp
    <2>3. UNCHANGED <<selected, attemptTimer>>
      BY Zenon DEF StaStart, StaDisconnected, Retry, ReportFailure, GotIp, ReportIp,
         attemptVars
    <2> QED
      BY <1>0, <1>1, <2>1, <2>2, <2>3, Zenon DEF ValuesTyped, portalVars
  <1>7. CallsByInput' /\ PortalServed' /\ FallbackSpent'
    BY <1>0, <1>1, <1>2, Zenon DEF CallsByInput, PortalServed, ServedWhileActive,
       FallbackSpent, MayTrySaved, portalVars
  <1> QED
    BY <1>3, <1>4, <1>5, <1>6, <1>7, InvariantByParts, Zenon

-----------------------------------------------------------------------------
(***************************************************************************)
(* wifi_portal_poll and wifi_portal_cancel.  The poll comes to the portal  *)
(* when the fallback is spent, and then nobody brings it back.             *)
(***************************************************************************)
LEMMA PollKeepsInvariant ==
  ASSUME IInv, WifiPortalPoll \/ WifiPortalCancel
  PROVE  IInv'
  <1>0. ByParts /\ "input" \in Callers
    BY InvariantByParts DEF Callers
  <1> USE DEF ByParts, WifiPortalPoll
  <1>1. /\ UNCHANGED <<driverVars, flashVars, connected, state, attemptVars, bootSaved,
                       portalVars, handler>>
        /\ input = "loop"
        /\ input' \in {"loop", "closing", "saved_connect", "services"}
    BY Zenon DEF PollStop, PollClose, PollFallback, PollPortal, WifiPortalCancel, bootVars
  <1>2. DriverTypeOK' /\ LossIsTold'
    BY <1>1, DriverUnchanged
  <1>3. FlashTyped'
    BY <1>0, <1>1, Zenon DEF FlashTyped, flashVars
  <1>4. FlagsTyped'
    <2>1. /\ stopRequested' \in BOOLEAN /\ cancelRequested' \in BOOLEAN
          /\ bootInProgress' \in BOOLEAN /\ fallbackPending' \in BOOLEAN
          /\ fallbackAttempted' \in BOOLEAN
      BY <1>0, Zenon DEF FlagsTyped, PollStop, PollClose, PollFallback, PollPortal,
         WifiPortalCancel, requestVars, bootVars
    <2> QED
      BY <1>0, <1>1, <2>1, Zenon DEF FlagsTyped, attemptVars, portalVars
  <1>5. ValuesTyped'
    BY <1>0, <1>1, Zenon DEF ValuesTyped, attemptVars, portalVars
  <1>6. CallsTyped' /\ CallsByInput'
    <2>1. CASE PollFallback
      <3>1. NewCall(bootSaved) \in Calls
        BY <1>0, NoCallIsCall DEF ValuesTyped
      <3>2. CallsTyped'
        BY <1>0, <2>1, <3>1, CallReplaced DEF PollFallback
      <3> QED
        BY <2>1, <3>2, Zenon DEF PollFallback, CallsByInput
    <2>2. CASE ~PollFallback
      <3>1. call' = call
        BY <2>2, Zenon DEF PollStop, PollClose, PollPortal, WifiPortalCancel
      <3> QED
        BY <1>0, <1>1, <3>1 DEF CallsTyped, CallsByInput
    <2> QED
      BY <2>1, <2>2
  <1>7. PortalServed'
    <2>1. active => http
      BY <1>0, <1>1 DEF PortalServed, ServedWhileActive
    <2>2. active' = active /\ http' = http /\ input' # "announce"
      BY <1>1 DEF portalVars
    <2> QED
      BY <2>1, <2>2, Zenon DEF PortalServed, ServedWhileActive
  <1>8. FallbackSpent'
    <2>1. input' # "boot" /\ input' # "announce"
      BY <1>1
    <2>2. input' = "services" => ~MayTrySaved /\ UNCHANGED <<fallbackPending, fallbackAttempted>>
      BY Zenon DEF PollStop, PollClose, PollFallback, PollPortal, WifiPortalCancel
    <2>3. input' = "services" => ~MayTrySaved'
      BY <2>2 DEF MayTrySaved
    <2> QED
      BY <2>1, <2>3, Zenon DEF FallbackSpent
  <1> QED
    BY <1>2, <1>3, <1>4, <1>5, <1>6, <1>7, <1>8, InvariantByParts, Zenon

-----------------------------------------------------------------------------
(***************************************************************************)
(* portal_start_internal and portal_stop_internal.                         *)
(***************************************************************************)
PortalSteps ==
  \/ StartServices \/ ServicesFail \/ Announce \/ Show
  \/ StopDns \/ StopServices \/ Clear \/ Settle

LEMMA PortalStepsKeepInvariant ==
  ASSUME IInv, PortalSteps
  PROVE  IInv'
  <1>0. ByParts
    BY InvariantByParts
  <1> USE DEF ByParts, PortalSteps
  <1>1. /\ UNCHANGED <<flashVars, connected, selected, attemptTimer, bootVars, handler, call>>
        /\ input \in {"services", "announce", "show", "closing", "stopping", "clear",
                      "settle"}
        /\ input' \in {"announce", "loop", "show", "stopping", "clear", "settle"}
        /\ input' = "announce" => input = "services"
    BY Zenon DEF StartServices, ServicesFail, Announce, Show, StopDns, StopServices,
       Clear, Settle, attemptVars
  <1>2. DriverTypeOK' /\ LossIsTold'
    BY <1>1, DriverStarted, DriverUnchanged DEF StartServices, ServicesFail, Announce, Show,
       StopDns, StopServices, Clear, Settle
  <1>3. FlashTyped' /\ CallsTyped'
    BY <1>0, <1>1, Zenon DEF FlashTyped, CallsTyped, flashVars
  <1>4. FlagsTyped'
    <2>1. /\ active' \in BOOLEAN /\ waiting' \in BOOLEAN
          /\ stopRequested' \in BOOLEAN /\ cancelRequested' \in BOOLEAN
      BY <1>0, Zenon DEF FlagsTyped, StartServices, ServicesFail, Announce, Show,
         StopDns, StopServices, Clear, Settle, requestVars, attemptVars, portalVars
    <2>2. http' \in BOOLEAN
      BY <1>0, Zenon DEF FlagsTyped, StartServices, ServicesFail, Announce, Show,
         StopDns, StopServices, Clear, Settle, portalVars
    <2> QED
      BY <1>0, <1>1, <2>1, <2>2, Zenon DEF FlagsTyped, bootVars
  <1>5. ValuesTyped'
    <2>1. retries' \in 0..MaxRetry /\ portalTimer' \in Nat
      <3>1. CASE Announce
        BY <3>1, PortalTimeAssumption DEF Announce
      <3>2. CASE ~Announce
        <4>1. UNCHANGED <<retries, portalTimer>>
          BY <3>2, Zenon DEF StartServices, ServicesFail, Show, StopDns, StopServices, Clear,
             Settle, attemptVars, portalVars
        <4> QED
          BY <1>0, <4>1, Zenon DEF ValuesTyped
      <3> QED
        BY <3>1, <3>2
    <2>2. state' \in PortalStates
      BY <1>0, Zenon DEF ValuesTyped, PortalStates, StartServices, ServicesFail, Announce,
         Show, StopDns, StopServices, Clear, Settle
    <2> QED
      BY <1>0, <1>1, <2>1, <2>2, Zenon DEF ValuesTyped, bootVars
  <1>6. CallsByInput'
    BY <1>0, <1>1 DEF CallsByInput
  <1>7. PortalServed'
    <2>1. CASE StartServices \/ ServicesFail
      <3>1. active' = active /\ input = "services"
        BY <2>1, Zenon DEF StartServices, ServicesFail
      <3>2. http => http'
        BY <2>1, Zenon DEF StartServices, ServicesFail
      <3>3. input' = "announce" => http'
        <4>1. CASE StartServices
          BY <4>1, Zenon DEF StartServices
        <4>2. CASE ServicesFail
          BY <4>2 DEF ServicesFail
        <4> QED
          BY <2>1, <4>1, <4>2
      <3>4. active => http
        BY <1>0, <3>1 DEF PortalServed, ServedWhileActive
      <3> QED
        BY <3>1, <3>2, <3>3, <3>4, Zenon DEF PortalServed, ServedWhileActive
    <2>2. CASE Announce \/ Show \/ Settle
      <3>1. http
            \/ (~active /\ input # "announce")
        BY <1>0, <2>2 DEF Announce, Show, Settle, PortalServed, ServedWhileActive
      <3>2. /\ http => http'
            /\ ~active /\ input # "announce" => ~active'
            /\ input' # "announce"
        <4>1. CASE Announce
          BY <4>1 DEF Announce
        <4>2. CASE Show \/ Settle
          <5>1. active' = active /\ http' = http
            BY <4>2, Zenon DEF Show, Settle, portalVars
          <5>2. input' = "loop"
            BY <4>2, Zenon DEF Show, Settle
          <5> QED
            BY <5>1, <5>2
        <4> QED
          BY <2>2, <4>1, <4>2
      <3> QED
        BY <3>1, <3>2, Zenon DEF PortalServed, ServedWhileActive
    <2>3. CASE StopServices \/ Clear
      BY <1>0, <2>3, Zenon DEF StopServices, Clear, PortalServed, ServedWhileActive
    <2>4. CASE StopDns
      BY <1>0, <2>4, Zenon DEF StopDns, PortalServed, ServedWhileActive, portalVars
    <2> QED
      BY <2>1, <2>2, <2>3, <2>4
  <1>8. FallbackSpent'
    <2>1. input' # "boot" /\ input' # "services"
      BY <1>1
    <2>2. UNCHANGED <<fallbackPending, fallbackAttempted>>
      BY <1>1, Zenon DEF bootVars
    <2> QED
      BY <1>0, <1>1, <2>1, <2>2, Zenon DEF FallbackSpent, MayTrySaved
  <1> QED
    BY <1>2, <1>3, <1>4, <1>5, <1>6, <1>7, <1>8, InvariantByParts, Zenon

-----------------------------------------------------------------------------
(***************************************************************************)
(* The driver, the clock and resets.                                       *)
(***************************************************************************)
LEMMA SurroundingsKeepInvariant ==
  ASSUME IInv, Driver \/ Tick \/ Reset
  PROVE  IInv'
  <1>0. ByParts
    BY InvariantByParts
  <1> USE DEF ByParts
  <1>1. ASSUME Driver PROVE IInv'
    <2>1. DriverTypeOK' /\ LossIsTold'
      BY <1>1, DriverOutcome DEF Driver
    <2>2. UNCHANGED <<flashVars, connected, state, requestVars, attemptVars, bootVars,
                      portalVars, input, handler, call>>
      BY <1>1, Zenon DEF Driver
    <2>3. FlashTyped' /\ FlagsTyped'
      BY <1>0, <2>2, Zenon DEF FlashTyped, FlagsTyped, flashVars, requestVars, attemptVars,
         bootVars, portalVars
    <2>4. ValuesTyped' /\ CallsTyped'
      BY <1>0, <2>2, Zenon DEF ValuesTyped, CallsTyped, attemptVars, bootVars, portalVars
    <2>5. CallsByInput' /\ PortalServed' /\ FallbackSpent'
      BY <1>0, <2>2, Zenon DEF CallsByInput, PortalServed, ServedWhileActive,
         FallbackSpent, MayTrySaved, bootVars, portalVars
    <2> QED
      BY <2>1, <2>3, <2>4, <2>5, InvariantByParts, Zenon
  <1>2. ASSUME Tick PROVE IInv'
    <2>1. DriverTypeOK' /\ LossIsTold'
      BY <1>2, DriverUnchanged DEF Tick
    <2>2. attemptTimer' \in Nat /\ portalTimer' \in Nat
      BY <1>0, <1>2 DEF Tick, Countdown, ValuesTyped
    <2>3. FlashTyped' /\ FlagsTyped'
      BY <1>0, <1>2, Zenon DEF Tick, FlashTyped, FlagsTyped, flashVars, requestVars,
         bootVars
    <2>4. ValuesTyped' /\ CallsTyped'
      BY <1>0, <1>2, <2>2, Zenon DEF Tick, ValuesTyped, CallsTyped, bootVars
    <2>5. CallsByInput' /\ PortalServed' /\ FallbackSpent'
      BY <1>0, <1>2, Zenon DEF Tick, CallsByInput, PortalServed, ServedWhileActive,
         FallbackSpent, MayTrySaved, bootVars
    <2> QED
      BY <2>1, <2>3, <2>4, <2>5, InvariantByParts, Zenon
  <1>3. ASSUME Reset PROVE IInv'
    <2>1. DriverTypeOK' /\ LossIsTold'
      <3>1. wifiStarted' = FALSE /\ link' = "down" /\ events' = <<>>
        BY <1>3, Zenon DEF Reset, DriverReset
      <3>2. ~connected'
        BY <1>3, Zenon DEF Reset
      <3>3. DriverTypeOK'
        <4>1. <<>> \in Seq(Events)
          OBVIOUS
        <4> QED
          BY <3>1, <4>1, Zenon DEF DriverTypeOK
      <3>4. LossIsTold'
        BY <3>1, <3>2 DEF LossIsTold, Followed
      <3> QED
        BY <3>3, <3>4
    <2>2. resets' \in 0..MaxResets /\ UNCHANGED <<stored, provisioned>>
      BY <1>0, <1>3, PortalTimeAssumption DEF Reset, FlashTyped
    <2>3. CallsTyped' /\ CallsByInput'
      BY <1>3, NoCallIsCall DEF Reset, CallsTyped, CallsByInput, Callers
    <2>4. FlashTyped' /\ FlagsTyped'
      BY <1>0, <1>3, <2>2, Zenon DEF Reset, FlashTyped, FlagsTyped
    <2>5. 0 \in 0..MaxRetry /\ StaTicks \in Nat /\ 0 \in Nat /\ NoCfg \in Cfgs
      BY PortalTimeAssumption DEF Cfgs
    <2>6. ValuesTyped'
      BY <1>3, <2>5, Zenon DEF Reset, ValuesTyped, PortalStates
    <2>7. PortalServed' /\ FallbackSpent'
      BY <1>3, Zenon DEF Reset, PortalServed, ServedWhileActive, FallbackSpent, MayTrySaved
    <2> QED
      BY <2>1, <2>3, <2>4, <2>6, <2>7, InvariantByParts, Zenon
  <1> QED
    BY <1>1, <1>2, <1>3

LEMMA StepKeepsInvariant == IInv /\ [Next]_vars => IInv'
  <1> SUFFICES ASSUME IInv, [Next]_vars PROVE IInv'
    OBVIOUS
  <1>1. CASE UNCHANGED vars
    <2>0. ByParts
      BY InvariantByParts
    <2>1. DriverTypeOK' /\ LossIsTold'
      BY <1>1, DriverUnchanged DEF vars
    <2>2. UNCHANGED <<flashVars, connected, state, requestVars, attemptVars, bootVars,
                      portalVars, input, handler, call>>
      BY <1>1, Zenon DEF vars
    <2>3. FlashTyped' /\ FlagsTyped'
      BY <2>0, <2>2, Zenon DEF ByParts, FlashTyped, FlagsTyped, flashVars, requestVars,
         attemptVars, bootVars, portalVars
    <2>4. ValuesTyped' /\ CallsTyped'
      BY <2>0, <2>2, Zenon DEF ByParts, ValuesTyped, CallsTyped, attemptVars, bootVars,
         portalVars
    <2>5. CallsByInput' /\ PortalServed' /\ FallbackSpent'
      BY <2>0, <2>2, Zenon DEF ByParts, CallsByInput, PortalServed, ServedWhileActive,
         FallbackSpent, MayTrySaved, bootVars, portalVars
    <2> QED
      BY <2>1, <2>3, <2>4, <2>5, InvariantByParts, Zenon DEF ByParts
  <1> QED
    BY <1>1, StartStaConnectKeepsInvariant, SubmitKeepsInvariant, BootKeepsInvariant,
       HandlerKeepsInvariant, PollKeepsInvariant, PortalStepsKeepInvariant,
       SurroundingsKeepInvariant, Zenon DEF Next, InputTask, PortalSteps

-----------------------------------------------------------------------------
LEMMA Invariance == Spec => []IInv
  BY InitEstablishesInvariant, StepKeepsInvariant, PTL DEF Spec, SafetySpec

(***************************************************************************)
(* The state of the portal and of the driver has its type; no attempt is   *)
(* retried more often than it may be.                                      *)
(***************************************************************************)
THEOREM TypeCorrect == Spec => []TypeOK
  <1>1. IInv => TypeOK
    BY DEF IInv
  <1> QED
    BY <1>1, Invariance, PTL

(***************************************************************************)
(* Whoever asks whether the device is connected is answered truly, or the  *)
(* loss of the connection waits in the event loop's queue.                 *)
(***************************************************************************)
THEOREM ConnectionIsTold == Spec => []ConnectedMeansLink
  <1>1. IInv => ConnectedMeansLink
    <2> SUFFICES ASSUME IInv, connected, link # "up"
                 PROVE  "disconnected" \in ToSet(events)
      BY DEF ConnectedMeansLink
    <2>1. events \in Seq(Events) /\ LossQueued(events)
      BY DEF IInv, TypeOK, DriverTypeOK, LossIsTold
    <2>2. PICK j \in 1..Len(events) : events[j] = "disconnected"
      BY <2>1 DEF LossQueued
    <2> QED
      BY <2>1, <2>2 DEF ToSet
  <1> QED
    BY <1>1, Invariance, PTL

(***************************************************************************)
(* The portal's server is up whenever the portal says it is open, whatever *)
(* call of its start fails.                                                *)
(***************************************************************************)
THEOREM PortalIsServed == Spec => []ServedWhileActive
  <1>1. IInv => ServedWhileActive
    BY DEF IInv, PortalServed
  <1> QED
    BY <1>1, Invariance, PTL

(***************************************************************************)
(* The portal opens after the stored credentials have had their attempt.   *)
(***************************************************************************)
THEOREM PortalComesLast == Spec => PortalIsLastResort
  <1>1. IInv /\ [Next]_vars =>
          [~active /\ active' => ~(fallbackPending /\ ~fallbackAttempted)]_vars
    <2> SUFFICES ASSUME IInv, Next, ~active, active'
                 PROVE  ~(fallbackPending /\ ~fallbackAttempted)
      BY Zenon
    <2>1. Announce
      BY Zenon DEF Next, InputTask, WifiPortalStart, BootWithMenu, BootWithStored,
         BootWithNothing, MarkBoot, WifiPortalPoll, PollStop, PollClose, PollFallback,
         PollPortal, StartServices, ServicesFail, Show, StopDns, StopServices, Clear, Settle,
         WifiPortalCancel, WifiEventHandler, StaStart, StaDisconnected, Retry,
         ReportFailure, GotIp, ReportIp, Submit, StartStaConnect, Configure,
         ConfigureFails, Arm, Go, Driver, Tick, Reset, portalVars
    <2> QED
      BY <2>1 DEF Announce, IInv, FallbackSpent, MayTrySaved
  <1> QED
    BY <1>1, Invariance, PTL DEF Spec, SafetySpec, PortalIsLastResort

-----------------------------------------------------------------------------
(***************************************************************************)
(* What is stored, without a menuconfig network.  The first attempt of a   *)
(* boot is made before there is a server to submit anything to, with what  *)
(* the flash had, so that it stores what it has read, and no other attempt *)
(* is made by the input task.                                              *)
(***************************************************************************)
FirstAttempt == input \in {"boot", "boot_connect", "mark_boot"} \/ bootInProgress

InputCallsStored ==
  call["input"].step # "none" => input = "boot_connect" /\ call["input"].cfg = stored

StoredSelected ==
  call["input"].step = "connect" \/ input = "mark_boot" \/ bootInProgress
    => selected = stored

StoredIsKept ==
  /\ provisioned = stored
  /\ ~fallbackPending
  /\ FirstAttempt => ~http /\ call["http"].step = "none"
  /\ InputCallsStored
  /\ StoredSelected
  /\ input \in {"boot", "services"} => ~bootInProgress

\* The steps that leave the flash, the selection and the calls alone.
LEMMA KeptIfNoCall ==
  ASSUME StoredIsKept, UNCHANGED <<stored, provisioned, selected, call>>,
         fallbackPending' => fallbackPending, bootInProgress' => bootInProgress,
         http' => http \/ ~bootInProgress',
         \/ input' = input /\ http' = http
         \/ /\ input' \notin {"boot", "boot_connect", "mark_boot"}
            /\ input # "boot_connect"
            /\ input' = "services" => ~bootInProgress'
  PROVE  StoredIsKept'
  <1>1. CASE input' = input /\ http' = http
    BY <1>1, Zenon DEF StoredIsKept, FirstAttempt, InputCallsStored, StoredSelected
  <1>2. CASE /\ input' \notin {"boot", "boot_connect", "mark_boot"}
             /\ input # "boot_connect"
             /\ input' = "services" => ~bootInProgress'
    <2>1. call'["input"].step = "none"
      BY <1>2, Zenon DEF StoredIsKept, InputCallsStored
    <2>2. InputCallsStored'
      BY <2>1, Zenon DEF InputCallsStored
    <2>3. input' # "mark_boot"
      BY <1>2
    <2>4. "connect" # "none"
      OBVIOUS
    <2>5. StoredSelected'
      BY <2>1, <2>3, <2>4, Zenon DEF StoredIsKept, StoredSelected
    <2>6. FirstAttempt' => ~http' /\ call'["http"].step = "none"
      BY <1>2, Zenon DEF StoredIsKept, FirstAttempt
    <2> QED
      BY <1>2, <2>2, <2>5, <2>6, Zenon DEF StoredIsKept
  <1> QED
    BY <1>1, <1>2

\* start_sta_connect, in either task.
LEMMA KeptByCalls ==
  ASSUME MenuCfg = NoCfg, StoredIsKept, CallsTyped, NEW c \in Callers, StartStaConnect(c)
  PROVE  StoredIsKept'
  <1>0. call[c].step # "none"
    BY DEF StartStaConnect, Configure, ConfigureFails, Arm, Go
  <1>1. /\ UNCHANGED <<fallbackPending, bootInProgress, http>>
        /\ \A d \in Callers : d # c => call'[d] = call[d]
    <2>1. /\ UNCHANGED <<fallbackPending, bootInProgress, http>>
          /\ \/ \E r : call' = [call EXCEPT ![c] = r]
             \/ call' = [call EXCEPT ![c].step = "arm", ![c].startedNow = ~wifiStarted]
             \/ call' = [call EXCEPT ![c].step = "connect"]
      BY Zenon DEF StartStaConnect, Configure, ConfigureFails, Arm, Go, Failed, Return,
         bootVars, portalVars
    <2> QED
      BY <2>1 DEF CallsTyped
  <1>2. CASE c = "input"
    <2>1. /\ input = "boot_connect" /\ call["input"].cfg = stored
          /\ call'["http"] = call["http"]
          /\ ~http' /\ call'["http"].step = "none"
      BY <1>0, <1>1, <1>2, Zenon DEF StoredIsKept, InputCallsStored, FirstAttempt, Callers
    <2>2. CASE Configure(c)
      <3>1. stored' = stored /\ provisioned' = provisioned /\ input' = input
            /\ selected' = selected
        BY <1>2, <2>1, <2>2 DEF Configure, attemptVars
      <3>2. call'["input"].step = "arm" /\ call'["input"].cfg = call["input"].cfg
        BY <1>2, <2>2 DEF Configure, CallsTyped, Calls
      <3>3. InputCallsStored' /\ StoredSelected'
        BY <1>1, <2>1, <3>1, <3>2 DEF StoredIsKept, InputCallsStored, StoredSelected
      <3> QED
        BY <1>1, <2>1, <3>1, <3>3 DEF StoredIsKept
    <2>3. CASE ConfigureFails(c)
      <3>1. stored' = stored /\ provisioned' = provisioned /\ input' = "loop"
            /\ selected' = selected
        BY <1>2, <2>1, <2>3 DEF ConfigureFails, Failed, attemptVars
      <3>2. call'["input"].step = "none"
        BY <1>2, <2>3 DEF ConfigureFails, Failed, Return, NoCall, CallsTyped
      <3>3. InputCallsStored' /\ StoredSelected'
        BY <1>1, <3>1, <3>2 DEF StoredIsKept, InputCallsStored, StoredSelected
      <3> QED
        BY <1>1, <2>1, <3>1, <3>3 DEF StoredIsKept
    <2>4. CASE Arm(c)
      <3>1. stored' = stored /\ provisioned' = provisioned /\ input' = input
            /\ selected' = stored
        BY <1>2, <2>1, <2>4 DEF Arm, flashVars
      <3>2. call'["input"].step = "connect" /\ call'["input"].cfg = call["input"].cfg
        BY <1>2, <2>4 DEF Arm, CallsTyped, Calls
      <3>3. InputCallsStored' /\ StoredSelected'
        BY <2>1, <3>1, <3>2 DEF InputCallsStored, StoredSelected
      <3> QED
        BY <1>1, <2>1, <3>1, <3>3 DEF StoredIsKept
    <2>5. CASE Go(c)
      <3>1. stored' = stored /\ provisioned' = provisioned /\ input' = "mark_boot"
            /\ selected' = stored
        BY <1>2, <2>1, <2>5 DEF Go, flashVars, attemptVars, AfterConnect, StoredIsKept,
           StoredSelected
      <3>2. call'["input"].step = "none"
        BY <1>2, <2>5 DEF Go, Return, NoCall, CallsTyped
      <3>3. InputCallsStored' /\ StoredSelected'
        BY <3>1, <3>2 DEF InputCallsStored, StoredSelected
      <3> QED
        BY <1>1, <2>1, <3>1, <3>3 DEF StoredIsKept
    <2> QED
      BY <2>2, <2>3, <2>4, <2>5 DEF StartStaConnect
  <1>3. CASE c = "http"
    <2>1. /\ ~FirstAttempt /\ input' = input /\ provisioned' = stored'
          /\ call'["input"] = call["input"]
      <3>1. ~FirstAttempt
        BY <1>0, <1>3, Zenon DEF StoredIsKept
      <3>2. input' = input /\ provisioned' = stored'
        BY <1>3 DEF StoredIsKept, StartStaConnect, Configure, ConfigureFails, Arm, Go,
           Failed, flashVars
      <3>3. call'["input"] = call["input"]
        BY <1>1, <1>3 DEF Callers
      <3> QED
        BY <3>1, <3>2, <3>3
    <2>2. call["input"].step = "none" /\ ~FirstAttempt'
      BY <1>1, <2>1, Zenon DEF StoredIsKept, InputCallsStored, FirstAttempt
    <2>3. InputCallsStored'
      BY <2>1, <2>2 DEF InputCallsStored
    <2>4. StoredSelected'
      BY <2>1, <2>2 DEF StoredSelected, FirstAttempt
    <2> QED
      BY <1>1, <2>1, <2>2, <2>3, <2>4, Zenon DEF StoredIsKept
  <1> QED
    BY <1>2, <1>3 DEF Callers

LEMMA KeptByBoot ==
  ASSUME MenuCfg = NoCfg, StoredIsKept, CallsTyped, WifiPortalStart \/ MarkBoot
  PROVE  StoredIsKept'
  <1>0. /\ UNCHANGED <<stored, provisioned, selected, http, fallbackPending>>
        /\ call'["http"] = call["http"]
        /\ ~http' /\ call'["http"].step = "none"
    <2>1. /\ UNCHANGED <<stored, provisioned, selected, http, fallbackPending>>
          /\ call' = call \/ \E r : call' = [call EXCEPT !["input"] = r]
      BY Zenon DEF WifiPortalStart, BootWithMenu, BootWithStored, BootWithNothing, MarkBoot,
         flashVars, attemptVars, portalVars
    <2>2. call'["http"] = call["http"]
      BY <2>1 DEF CallsTyped, Callers
    <2>3. ~http /\ call["http"].step = "none"
      BY Zenon DEF StoredIsKept, FirstAttempt, WifiPortalStart, MarkBoot
    <2> QED
      BY <2>1, <2>2, <2>3, Zenon
  <1>1. CASE WifiPortalStart /\ BootWithStored
    <2>1. call'["input"] = NewCall(stored) /\ input' = "boot_connect"
      BY <1>1 DEF BootWithStored, CallsTyped, Callers
    <2>2. bootInProgress' = bootInProgress
      BY <1>1 DEF WifiPortalStart
    <2>3. InputCallsStored' /\ StoredSelected'
      BY <1>0, <2>1, <2>2 DEF StoredIsKept, InputCallsStored, StoredSelected, NewCall
    <2>4. input' \notin {"boot", "services"}
      BY <2>1
    <2> QED
      BY <1>0, <2>3, <2>4, Zenon DEF StoredIsKept
  <1>2. CASE WifiPortalStart /\ BootWithNothing
    <2>1. input = "boot" /\ input' = "services" /\ UNCHANGED <<call, bootInProgress>>
      BY <1>2 DEF WifiPortalStart, BootWithNothing
    <2>2. call["input"].step = "none"
      BY <2>1 DEF StoredIsKept, InputCallsStored
    <2>3. ~bootInProgress'
      BY <2>1 DEF StoredIsKept
    <2> QED
      BY <1>0, <2>1, <2>2, <2>3 DEF StoredIsKept, InputCallsStored, StoredSelected
  <1>3. CASE MarkBoot
    <2>1. input = "mark_boot" /\ input' = "loop" /\ call' = call
      BY <1>3 DEF MarkBoot
    <2>2. selected = stored /\ call["input"].step = "none"
      BY <2>1 DEF StoredIsKept, InputCallsStored, StoredSelected
    <2> QED
      BY <1>0, <2>1, <2>2 DEF StoredIsKept, InputCallsStored, StoredSelected
  <1> QED
    BY <1>1, <1>2, <1>3 DEF WifiPortalStart, BootWithMenu

\* Without a menuconfig network there is no fallback, and every other step leaves
\* flash, selection and calls alone; the portal is opened when the boot is over.
LEMMA KeptByInput ==
  ASSUME MenuCfg = NoCfg, StoredIsKept, CallsTyped, InputTask
  PROVE  StoredIsKept'
  <1>1. CASE PollStop \/ PollClose
    BY <1>1, KeptIfNoCall DEF PollStop, PollClose, flashVars, attemptVars, bootVars,
       portalVars
  <1>2. CASE PollPortal
    BY <1>2, KeptIfNoCall DEF PollPortal, flashVars, attemptVars, portalVars
  <1>3. CASE StartServices \/ ServicesFail
    <2>1. ~bootInProgress /\ input = "services"
      BY <1>3, Zenon DEF StoredIsKept, StartServices, ServicesFail
    <2>2. /\ UNCHANGED <<stored, provisioned, selected, call, fallbackPending, bootInProgress>>
          /\ input' \in {"announce", "loop"}
      BY <1>3 DEF StartServices, ServicesFail, flashVars, attemptVars, bootVars
    <2> QED
      BY <2>1, <2>2, KeptIfNoCall
  <1>4. CASE Announce \/ Show \/ StopDns \/ StopServices \/ Clear \/ Settle
    <2>1. /\ UNCHANGED <<stored, provisioned, selected, call, fallbackPending, bootInProgress>>
          /\ input' \in {"show", "loop", "stopping", "clear", "settle"}
          /\ input \in {"announce", "show", "closing", "stopping", "clear", "settle"}
      BY <1>4 DEF Announce, Show, StopDns, StopServices, Clear, Settle, flashVars, attemptVars,
         bootVars
    <2>2. http' => http
      BY <1>4, Zenon DEF Announce, Show, StopDns, StopServices, Clear, Settle, portalVars
    <2> QED
      BY <2>1, <2>2, KeptIfNoCall
  <1>5. ~PollFallback
    BY Zenon DEF StoredIsKept, PollFallback, MayTrySaved
  <1> QED
    BY <1>1, <1>2, <1>3, <1>4, <1>5, KeptByBoot DEF InputTask, WifiPortalPoll

LEMMA KeptBySubmit ==
  ASSUME StoredIsKept, CallsTyped, NEW cfg \in Networks, Submit(cfg)
  PROVE  StoredIsKept'
  <1>1. /\ UNCHANGED <<stored, provisioned, selected, fallbackPending, bootInProgress,
                       http, input>>
        /\ call'["input"] = call["input"]
    BY DEF Submit, CallsTyped, Callers, flashVars, attemptVars, bootVars, portalVars
  <1>2. ~FirstAttempt'
    BY <1>1, Zenon DEF StoredIsKept, Submit, FirstAttempt
  <1> QED
    BY <1>1, <1>2, Zenon DEF StoredIsKept, InputCallsStored, StoredSelected

LEMMA KeptByReset ==
  ASSUME StoredIsKept, Reset
  PROVE  StoredIsKept'
  <1>1. /\ provisioned' = stored' /\ ~fallbackPending' /\ ~http' /\ ~bootInProgress'
    BY Zenon DEF StoredIsKept, Reset
  <1>2. input' = "boot" /\ \A c \in Callers : call'[c].step = "none"
    BY DEF Reset, NoCall
  <1> QED
    BY <1>1, <1>2 DEF StoredIsKept, InputCallsStored, StoredSelected, Callers

LEMMA StoredIsKeptByStep ==
  ASSUME MenuCfg = NoCfg, StoredIsKept, CallsTyped, [Next]_vars
  PROVE  StoredIsKept'
  <1>1. CASE WifiPortalCancel \/ WifiEventHandler \/ Driver \/ Tick \/ UNCHANGED vars
    <2>1. UNCHANGED <<stored, provisioned, selected, call, http, input>>
      BY <1>1 DEF WifiPortalCancel, WifiEventHandler, StaStart, StaDisconnected, Retry,
         ReportFailure, GotIp, ReportIp, Driver, Tick, vars, flashVars, attemptVars,
         portalVars
    <2>2. \/ fallbackPending' = fallbackPending /\ bootInProgress' = bootInProgress
          \/ fallbackPending' = FALSE /\ bootInProgress' = FALSE
      BY <1>1 DEF WifiPortalCancel, WifiEventHandler, StaStart, StaDisconnected, Retry,
         ReportFailure, GotIp, ReportIp, Driver, Tick, vars, bootVars
    <2>3. CASE fallbackPending' = fallbackPending /\ bootInProgress' = bootInProgress
      BY <2>1, <2>3, KeptIfNoCall
    <2>4. CASE fallbackPending' = FALSE /\ bootInProgress' = FALSE
      BY <2>1, <2>4, KeptIfNoCall
    <2> QED
      BY <2>2, <2>3, <2>4
  <1> QED
    BY <1>1, KeptByInput, KeptByCalls, KeptBySubmit, KeptByReset, Zenon DEF Next

(***************************************************************************)
(* Without a menuconfig network, no boot decides for the portal before it  *)
(* has tried what was last submitted in one, and had stored: whatever      *)
(* calls fail, whatever is submitted while the portal closes, and with a   *)
(* reset in the middle of an attempt (wifi_portal_start, wifi_portal_poll, *)
(* start_sta_connect).                                                     *)
(***************************************************************************)
THEOREM SubmittedIsTried ==
  ASSUME MenuCfg = NoCfg
  PROVE  Spec => ProvisionedReused
  <1>1. Init => StoredIsKept
    <2> SUFFICES ASSUME Init PROVE StoredIsKept
      OBVIOUS
    <2>1. provisioned = stored /\ ~fallbackPending /\ ~http /\ ~bootInProgress
      BY Zenon DEF Init
    <2>2. input = "boot" /\ \A c \in Callers : call[c].step = "none"
      BY DEF Init, NoCall
    <2> QED
      BY <2>1, <2>2 DEF StoredIsKept, InputCallsStored, StoredSelected, Callers
  <1>2. IInv /\ StoredIsKept /\ [Next]_vars => StoredIsKept'
    BY StoredIsKeptByStep, TypeByParts, Zenon DEF IInv
  <1>3. StoredIsKept /\ [Next]_vars =>
          [input # "services" /\ input' = "services" /\ provisioned # NoCfg
             => selected = provisioned]_vars
    <2> SUFFICES ASSUME StoredIsKept, Next, input # "services", input' = "services",
                        provisioned # NoCfg
                 PROVE  selected = provisioned
      BY Zenon
    <2>1. BootWithNothing \/ PollPortal
      BY DEF Next, InputTask, WifiPortalStart, BootWithMenu, BootWithStored, MarkBoot,
         WifiPortalPoll, PollStop, PollClose, PollFallback, StartServices, ServicesFail,
         Announce, Show, StopDns, StopServices, Clear, Settle, WifiPortalCancel,
         WifiEventHandler,
         StaStart, StaDisconnected, Retry, ReportFailure, GotIp, ReportIp, Submit,
         StartStaConnect, Configure, ConfigureFails, Arm, Go, Failed, AfterConnect,
         Driver, Tick, Reset
    <2>2. ~BootWithNothing
      BY DEF BootWithNothing, StoredIsKept
    <2>3. bootInProgress
      BY <2>1, <2>2, Zenon DEF PollPortal, BootFailed
    <2> QED
      BY <2>3, Zenon DEF StoredIsKept, StoredSelected
  <1> QED
    BY <1>1, <1>2, <1>3, Invariance, PTL DEF Spec, SafetySpec, ProvisionedReused
=============================================================================
