-------------------------- MODULE BleBackend_proofs --------------------------
(***************************************************************************)
(* Proofs about BleBackend, for every set of hosts, every window, every    *)
(* set of failing calls, and whatever may overlap or overtake.             *)
(***************************************************************************)
EXTENDS BleBackend, SequenceTheorems, FiniteSetTheorems, TLAPS

Steps == {"none", "clear", "remove", "unbond", "open", "decide", "start", "stop", "others"}
Calls == [step : Steps, listed : SUBSET Hosts, opens : BOOLEAN]
HiddEvents == {"start", "connect", "disconnect"}

\* An authentication that is still to be handled names its host, and the link it
\* is about is either there or has its disconnection behind it in the queue.
AuthsAccounted ==
  \A i \in 1..Len(btc) : btc[i].type = "auth" =>
    /\ btc[i].host \in Hosts
    /\ link # None \/ \E j \in (i + 1)..Len(btc) : btc[j].type = "disconnect"

BleIInv ==
  /\ BleTypeOK
  /\ AuthsAccounted
  /\ ConnectedHasLink

-----------------------------------------------------------------------------
LEMMA EventIsGap ==
  ASSUME NEW type \in {"adv", "rsp", "started", "notStarted", "stopped", "auth",
                       "authFail", "connect", "disconnect"}
  PROVE  Event(type) \in GapEvents
  BY DEF Event, GapEvents

LEMMA AuthIsGap ==
  ASSUME NEW h \in Hosts
  PROVE  [type |-> "auth", host |-> h] \in GapEvents
  BY DEF GapEvents

LEMMA GotoIsCall ==
  ASSUME call \in [BleTasks -> Calls], NEW t \in BleTasks, NEW step \in Steps,
         Goto(t, step)
  PROVE  call' \in [BleTasks -> Calls]
  <1>1. Call(step) \in Calls
    BY DEF Call, Calls
  <1> QED
    BY <1>1 DEF Goto

\* An event that is handled leaves those after it, in their order.
LEMMA HandledLeavesTail ==
  ASSUME NEW S, NEW s \in Seq(S), s # <<>>
  PROVE  /\ Head(s) \in S /\ Tail(s) \in Seq(S)
         /\ Head(s) = s[1]
         /\ Len(Tail(s)) = Len(s) - 1
         /\ \A i \in 1..Len(Tail(s)) : Tail(s)[i] = s[i + 1]
  BY HeadTailProperties

LEMMA TwoAppended ==
  ASSUME NEW S, NEW s \in Seq(S), NEW a \in S, NEW b \in S
  PROVE  /\ s \o <<a, b>> \in Seq(S)
         /\ Len(s \o <<a, b>>) = Len(s) + 2
         /\ \A i \in 1..Len(s) : (s \o <<a, b>>)[i] = s[i]
         /\ (s \o <<a, b>>)[Len(s) + 1] = a
         /\ (s \o <<a, b>>)[Len(s) + 2] = b
  <1>1. <<a, b>> \in Seq(S) /\ Len(<<a, b>>) = 2
    OBVIOUS
  <1> QED
    BY <1>1, ConcatProperties

-----------------------------------------------------------------------------
LEMMA InitTyped == BleInit => BleTypeOK
  <1> SUFFICES ASSUME BleInit PROVE BleTypeOK
    OBVIOUS
  <1>1. call \in [BleTasks -> Calls]
    BY DEF BleInit, Call, Calls, Steps
  <1>2. btc \in Seq(GapEvents) /\ hidd \in Seq(HiddEvents)
    BY DEF BleInit
  <1>3. bonds \subseteq Hosts
    BY BleHostAssumption DEF BleInit
  <1>4. links \in 0..MaxLinks /\ asks \in 0..MaxAsks /\ left \in 0..Window
    BY BleBoundAssumption DEF BleInit
  <1>5. cfgRead \subseteq Flags /\ cfgDone \subseteq Flags /\ cfgRequired \subseteq Flags
    BY DEF BleInit, Flags
  <1> QED
    BY <1>1, <1>2, <1>3, <1>4, <1>5 DEF BleInit, BleTypeOK, Calls, Steps, HiddEvents

LEMMA BootTyped ==
  ASSUME BleTypeOK, Boot
  PROVE  BleTypeOK'
  <1>0. /\ btc \in Seq(GapEvents) /\ hidd \in Seq(HiddEvents)
        /\ call \in [BleTasks -> Calls] /\ "main" \in BleTasks
    BY DEF BleTypeOK, HiddEvents, Calls, Steps, BleTasks, Callers
  <1>1. CASE ConfigAdvData
    <2>1. btc' \in Seq(GapEvents)
      BY <1>0, <1>1, EventIsGap, AppendProperties DEF ConfigAdvData
    <2>2. cfgDone' \subseteq Flags
      BY <1>1 DEF ConfigAdvData, BleTypeOK, Flags
    <2> QED
      BY <1>1, <2>1, <2>2
      DEF ConfigAdvData, BleTypeOK, boundVars, linkVars, windowVars
  <1>2. CASE ConfigScanRsp
    <2>1. btc' \in Seq(GapEvents)
      BY <1>0, <1>2, EventIsGap, AppendProperties DEF ConfigScanRsp
    <2>2. cfgRequired' \subseteq Flags /\ cfgRead' \subseteq Flags
      BY <1>2 DEF ConfigScanRsp, BleTypeOK, Flags
    <2> QED
      BY <1>2, <2>1, <2>2
      DEF ConfigScanRsp, BleTypeOK, boundVars, linkVars, windowVars
  <1>3. CASE DropScanRsp
    BY <1>3 DEF DropScanRsp, BleTypeOK, stackVars, boundVars, linkVars, windowVars, Flags
  <1>4. CASE HiddDevInit
    <2>1. hidd' \in Seq(HiddEvents)
      BY <1>0, <1>4, AppendProperties DEF HiddDevInit, HiddEvents
    <2> QED
      BY <1>4, <2>1
      DEF HiddDevInit, BleTypeOK, HiddEvents, boundVars, linkVars, windowVars, configVars
  <1>5. CASE InitFinish
    <2>1. call' \in [BleTasks -> Calls]
      BY <1>0, <1>5, GotoIsCall DEF InitFinish, Finish, Steps
    <2>2. bonded' \in BOOLEAN /\ advReady' \in BOOLEAN
      BY <1>5 DEF InitFinish, Finish, RefreshBonded, Configured
    <2> QED
      BY <1>5, <2>1, <2>2
      DEF InitFinish, Finish, BleTypeOK, Calls, Steps, stackVars, boundVars, linkVars,
          windowVars
  <1>6. CASE FirstWindow
    <2>1. call' \in [BleTasks -> Calls]
      BY <1>0, <1>6, GotoIsCall DEF FirstWindow, Steps
    <2> QED
      BY <1>6, <2>1
      DEF FirstWindow, BleTypeOK, Calls, Steps, stackVars, boundVars, linkVars,
          windowVars, configVars
  <1> QED
    BY <1>1, <1>2, <1>3, <1>4, <1>5, <1>6 DEF Boot

\* A request, and what a task does outside the lock for it.
LEMMA TaskTyped ==
  ASSUME BleTypeOK, NEW t \in BleTasks,
         \/ t \in {"input", "web"} /\ (AskWindow(t) \/ AskClear(t))
         \/ TaskStep(t)
  PROVE  BleTypeOK'
  <1>0. /\ btc \in Seq(GapEvents) /\ call \in [BleTasks -> Calls]
    BY DEF BleTypeOK, Calls, Steps
  <1>1. ASSUME NEW step \in Steps, NEW opens \in BOOLEAN, Ask(t, step, opens)
        PROVE  BleTypeOK'
    <2>1. call' \in [BleTasks -> Calls]
      <3>1. [step |-> step, listed |-> {}, opens |-> opens] \in Calls
        BY <1>1 DEF Calls
      <3> QED
        BY <1>0, <1>1, <3>1 DEF Ask
    <2>2. asks' \in 0..MaxAsks
      BY <1>1, BleBoundAssumption DEF Ask, BleTypeOK
    <2> QED
      BY <1>1, <2>1, <2>2
      DEF Ask, BleTypeOK, Calls, Steps, stackVars, bootVars, linkVars, windowVars,
          configVars
  <1>2. CASE AskWindow(t) \/ AskClear(t)
    BY <1>1, <1>2 DEF AskWindow, AskClear, Steps
  <1>3. CASE ClearList(t)
    <2>1. PICK ok \in BOOLEAN :
             call' = [call EXCEPT ![t].step = "remove",
                                  ![t].listed = IF ok THEN bonds ELSE {}]
      BY <1>3 DEF ClearList, Works
    <2>2. call' \in [BleTasks -> Calls]
      BY <1>0, <2>1 DEF Calls, Steps, BleTypeOK
    <2> QED
      BY <1>3, <2>2
      DEF ClearList, BleTypeOK, Calls, Steps, stackVars, boundVars, bootVars, linkVars,
          windowVars, configVars
  <1>4. CASE ClearRemove(t)
    <2>1. call' \in [BleTasks -> Calls]
      BY <1>0, <1>4 DEF ClearRemove, Calls, Steps
    <2>2. bonds' \subseteq Hosts
      BY <1>4 DEF ClearRemove, BleTypeOK
    <2> QED
      BY <1>4, <2>1, <2>2
      DEF ClearRemove, BleTypeOK, Calls, Steps, boundVars, bootVars, linkVars,
          windowVars, configVars
  <1>5. CASE Unbond(t)
    <2>1. call' \in [BleTasks -> Calls]
      BY <1>0, <1>5, GotoIsCall DEF Unbond, Steps
    <2>2. bonded' \in BOOLEAN
      BY <1>5 DEF Unbond
    <2> QED
      BY <1>5, <2>1, <2>2
      DEF Unbond, BleTypeOK, Calls, Steps, stackVars, boundVars, bootVars, linkVars,
          windowVars, configVars
  <1>6. CASE OpenWindow(t)
    <2>1. call' \in [BleTasks -> Calls]
      BY <1>0, <1>6, GotoIsCall DEF OpenWindow, Steps
    <2>2. windowActive' = TRUE /\ left' \in 0..Window
      BY <1>6, BleBoundAssumption DEF OpenWindow, NewWindow
    <2> QED
      BY <1>6, <2>1, <2>2
      DEF OpenWindow, BleTypeOK, Calls, Steps, stackVars, boundVars, bootVars, linkVars,
          configVars
  <1>7. CASE Decide(t)
    <2>1. call' \in [BleTasks -> Calls]
      BY <1>0, <1>7, GotoIsCall DEF Decide, Steps
    <2>2. crossed' \in BOOLEAN
      BY <1>7 DEF Decide, Stopping
    <2> QED
      BY <1>7, <2>1, <2>2
      DEF Decide, BleTypeOK, Calls, Steps, stackVars, boundVars, bootVars, linkVars,
          windowVars, configVars
  <1>8. CASE StartAdvertising(t)
    <2>1. call' \in [BleTasks -> Calls]
      BY <1>0, <1>8, GotoIsCall DEF StartAdvertising, Steps
    <2>2. radio' \in BOOLEAN
      BY <1>8 DEF StartAdvertising
    <2>3. btc' \in Seq(GapEvents)
      BY <1>0, <1>8, EventIsGap, AppendProperties DEF StartAdvertising
    <2>4. crossed' \in BOOLEAN
      BY <1>8 DEF StartAdvertising, Stopping
    <2> QED
      BY <1>8, <2>1, <2>2, <2>3, <2>4
      DEF StartAdvertising, BleTypeOK, Calls, Steps, boundVars, bootVars, linkVars,
          windowVars, configVars
  <1> QED
    BY <1>2, <1>3, <1>4, <1>5, <1>6, <1>7, <1>8 DEF TaskStep, Clear

LEMMA PollTyped ==
  ASSUME BleTypeOK, PollExpire \/ StopAdvertising
  PROVE  BleTypeOK'
  <1>0. /\ btc \in Seq(GapEvents) /\ call \in [BleTasks -> Calls] /\ "input" \in BleTasks
    BY DEF BleTypeOK, Calls, Steps, BleTasks, Callers
  <1>1. CASE PollExpire
    <2>1. call' \in [BleTasks -> Calls]
      BY <1>0, <1>1, GotoIsCall DEF PollExpire, Steps
    <2>2. windowActive' = FALSE /\ left' = 0 /\ left' \in 0..Window
      BY <1>1, BleBoundAssumption DEF PollExpire, NoWindow
    <2>3. advRequested' \in BOOLEAN
      BY <1>1 DEF PollExpire
    <2> QED
      BY <1>1, <2>1, <2>2, <2>3
      DEF PollExpire, BleTypeOK, Calls, Steps, stackVars, boundVars, bootVars, linkVars,
          configVars
  <1>2. CASE StopAdvertising
    <2>1. call' \in [BleTasks -> Calls]
      BY <1>0, <1>2, GotoIsCall DEF StopAdvertising, Steps
    <2>2. btc' \in Seq(GapEvents)
      BY <1>0, <1>2, EventIsGap, AppendProperties DEF StopAdvertising
    <2>3. radio' \in BOOLEAN
      BY <1>2 DEF StopAdvertising
    <2> QED
      BY <1>2, <2>1, <2>2, <2>3
      DEF StopAdvertising, BleTypeOK, Calls, Steps, boundVars, bootVars, linkVars,
          windowVars, configVars
  <1> QED
    BY <1>1, <1>2

LEMMA GapTyped ==
  ASSUME BleTypeOK, AuthsAccounted, GapEvent
  PROVE  BleTypeOK'
  <1>0. /\ btc \in Seq(GapEvents) /\ hidd \in Seq(HiddEvents)
        /\ call \in [BleTasks -> Calls] /\ "btc" \in BleTasks
    BY DEF BleTypeOK, HiddEvents, Calls, Steps, BleTasks
  <1>1. ASSUME NEW type, Handles(type)
        PROVE  btc' \in Seq(GapEvents)
    BY <1>0, <1>1, HandledLeavesTail DEF Handles
  <1>2. ASSUME NEW flag \in Flags, ConfigSet(flag)
        PROVE  BleTypeOK'
    <2>1. call' \in [BleTasks -> Calls] /\ btc' \in Seq(GapEvents)
      BY <1>0, <1>1, <1>2, GotoIsCall DEF ConfigSet, Steps
    <2>2. cfgDone' \subseteq Flags /\ advReady' \in BOOLEAN
      BY <1>2 DEF ConfigSet, BleTypeOK
    <2> QED
      BY <1>2, <2>1, <2>2
      DEF ConfigSet, BleTypeOK, Calls, Steps, boundVars, bootVars, linkVars, windowVars
  <1>3. ASSUME NEW type, AdvReport(type)
        PROVE  BleTypeOK'
    <2>1. btc' \in Seq(GapEvents)
      BY <1>1, <1>3 DEF AdvReport
    <2>2. advertising' \in BOOLEAN
      BY <1>3 DEF AdvReport
    <2> QED
      BY <1>3, <2>1, <2>2
      DEF AdvReport, BleTypeOK, boundVars, bootVars, linkVars, windowVars, configVars
  <1>4. CASE AuthSuccess
    <2>1. btc' \in Seq(GapEvents)
      BY <1>1, <1>4 DEF AuthSuccess
    <2>2. Head(btc).host \in Hosts
      <3>1. 1 \in 1..Len(btc) /\ btc[1] = Head(btc) /\ Head(btc).type = "auth"
        BY <1>0, <1>4 DEF AuthSuccess, Handles
      <3> QED
        BY <3>1 DEF AuthsAccounted
    <2>3. call' \in [BleTasks -> Calls]
      <3>1. [step |-> "others", listed |-> {Head(btc).host}, opens |-> FALSE] \in Calls
        BY <2>2 DEF Calls, Steps
      <3> QED
        BY <1>0, <1>4, <3>1 DEF AuthSuccess, RemovesOthers
    <2>4. windowActive' = FALSE /\ left' = 0 /\ left' \in 0..Window
      BY <1>4, BleBoundAssumption DEF AuthSuccess, NoWindow
    <2> QED
      BY <1>4, <2>1, <2>3, <2>4
      DEF AuthSuccess, BleTypeOK, Calls, Steps, boundVars, bootVars, configVars
  <1>5. CASE RemoveOthers
    <2>1. call' \in [BleTasks -> Calls]
      BY <1>0, <1>5, GotoIsCall DEF RemoveOthers, Steps
    <2>2. bonds' \subseteq Hosts
      BY <1>5 DEF RemoveOthers, Kept, BleTypeOK
    <2> QED
      BY <1>5, <2>1, <2>2
      DEF RemoveOthers, BleTypeOK, Calls, Steps, boundVars, bootVars, linkVars,
          windowVars, configVars
  <1>6. CASE AuthFailure
    <2>1. btc' \in Seq(GapEvents)
      BY <1>1, <1>6 DEF AuthFailure
    <2>2. windowActive' = TRUE /\ left' \in 0..Window
      BY <1>6, BleBoundAssumption DEF AuthFailure, NewWindow
    <2> QED
      BY <1>6, <2>1, <2>2 DEF AuthFailure, BleTypeOK, boundVars, bootVars, configVars
  <1>7. ASSUME NEW type \in {"connect", "disconnect"}, Forward(type)
        PROVE  BleTypeOK'
    <2>1. btc' \in Seq(GapEvents)
      BY <1>1, <1>7 DEF Forward
    <2>2. hidd' \in Seq(HiddEvents)
      BY <1>0, <1>7, AppendProperties DEF Forward, HiddEvents
    <2> QED
      BY <1>7, <2>1, <2>2
      DEF Forward, BleTypeOK, HiddEvents, boundVars, bootVars, linkVars, windowVars,
          configVars
  <1> QED
    BY <1>2, <1>3, <1>4, <1>5, <1>6, <1>7 DEF GapEvent

LEMMA HiddTyped ==
  ASSUME BleTypeOK, HiddEvent
  PROVE  BleTypeOK'
  <1>0. /\ hidd \in Seq(HiddEvents) /\ call \in [BleTasks -> Calls] /\ "hidd" \in BleTasks
    BY DEF BleTypeOK, HiddEvents, Calls, Steps, BleTasks
  <1>1. hidd' \in Seq(HiddEvents)
    BY <1>0, HandledLeavesTail DEF HiddEvent, HiddStart, HiddConnect, HiddDisconnect,
       HiddHandles
  <1>2. CASE HiddStart
    <2>1. call' \in [BleTasks -> Calls]
      BY <1>0, <1>2, GotoIsCall DEF HiddStart, Steps
    <2> QED
      BY <1>1, <1>2, <2>1
      DEF HiddStart, BleTypeOK, HiddEvents, Calls, Steps, boundVars, bootVars, linkVars,
          windowVars, configVars
  <1>3. CASE HiddConnect
    <2>1. /\ UNCHANGED <<radio, link, secure, bonds, btc, links, asks, crossed, boot, cfgRead,
                         initialized, bonded, windowActive, left>>
          /\ UNCHANGED <<advReady, cfgDone, cfgRequired, advRequested, call>>
          /\ connected' \in BOOLEAN /\ linkConnected' \in BOOLEAN /\ advertising' \in BOOLEAN
      BY <1>3 DEF HiddConnect, boundVars, bootVars, windowVars, configVars
    <2> QED
      BY <1>1, <2>1 DEF BleTypeOK, HiddEvents
  <1>4. CASE HiddDisconnect
    <2>1. call' \in [BleTasks -> Calls]
      BY <1>0, <1>4, GotoIsCall DEF HiddDisconnect, Steps
    <2> QED
      <3>1. /\ UNCHANGED <<radio, link, secure, bonds, btc, links, asks, crossed, boot,
                           cfgRead, initialized, bonded, windowActive, left>>
            /\ UNCHANGED <<advReady, cfgDone, cfgRequired, advRequested>>
            /\ connected' \in BOOLEAN /\ linkConnected' \in BOOLEAN
            /\ advertising' \in BOOLEAN
        BY <1>4 DEF HiddDisconnect, boundVars, bootVars, windowVars, configVars
      <3> QED
        BY <1>1, <2>1, <3>1 DEF BleTypeOK, HiddEvents, Calls, Steps
  <1> QED
    BY <1>2, <1>3, <1>4 DEF HiddEvent

LEMMA HostTyped ==
  ASSUME BleTypeOK,
         (\E h \in Hosts : Connects(h)) \/ Authenticates \/ Leaves \/ IsRefused \/ Tick
  PROVE  BleTypeOK'
  <1>0. btc \in Seq(GapEvents)
    BY DEF BleTypeOK
  <1>1. ASSUME NEW h \in Hosts, Connects(h)
        PROVE  BleTypeOK'
    <2>1. btc' \in Seq(GapEvents)
      BY <1>0, <1>1, EventIsGap, AppendProperties DEF Connects
    <2>2. links' \in 0..MaxLinks
      BY <1>1, BleBoundAssumption DEF Connects, BleTypeOK
    <2> QED
      <3>1. /\ UNCHANGED <<bonds, hidd, asks, crossed, boot, cfgRead, initialized, connected,
                           linkConnected, advertising, bonded>>
            /\ UNCHANGED <<windowActive, left, advReady, cfgDone, cfgRequired, advRequested,
                           call>>
            /\ link' \in Hosts /\ radio' \in BOOLEAN /\ secure' \in BOOLEAN
        BY <1>1 DEF Connects, bootVars, linkVars, windowVars, configVars
      <3> QED
        BY <2>1, <2>2, <3>1 DEF BleTypeOK
  <1>2. CASE Authenticates
    <2>1. link \in Hosts
      BY <1>2 DEF Authenticates, BleTypeOK
    <2>2. btc' \in Seq(GapEvents)
      BY <1>0, <1>2, <2>1, AuthIsGap, AppendProperties DEF Authenticates
    <2>3. bonds' \subseteq Hosts
      BY <1>2, <2>1 DEF Authenticates, BleTypeOK
    <2> QED
      BY <1>2, <2>2, <2>3
      DEF Authenticates, BleTypeOK, boundVars, bootVars, linkVars, windowVars, configVars
  <1>3. CASE Leaves
    <2>1. btc' \in Seq(GapEvents)
      BY <1>0, <1>3, EventIsGap, AppendProperties DEF Leaves
    <2>2. link' = None /\ secure' \in BOOLEAN
      BY <1>3 DEF Leaves
    <2> QED
      BY <1>3, <2>1, <2>2
      DEF Leaves, BleTypeOK, boundVars, bootVars, linkVars, windowVars, configVars
  <1>4. CASE IsRefused
    <2>1. btc' \in Seq(GapEvents)
      BY <1>0, <1>4, EventIsGap, TwoAppended DEF IsRefused
    <2> QED
      BY <1>4, <2>1
      DEF IsRefused, BleTypeOK, boundVars, bootVars, linkVars, windowVars, configVars
  <1>5. CASE Tick
    <2>1. left' \in 0..Window /\ windowActive
      BY <1>5, BleBoundAssumption DEF Tick, BleTypeOK
    <2> QED
      BY <1>5, <2>1 DEF Tick, BleTypeOK, stackVars, boundVars, bootVars, linkVars, configVars
  <1> QED
    BY <1>1, <1>2, <1>3, <1>4, <1>5

LEMMA StepTyped ==
  ASSUME BleTypeOK, AuthsAccounted, [BleNext]_bleVars
  PROVE  BleTypeOK'
  <1>1. CASE UNCHANGED bleVars
    BY <1>1 DEF bleVars, stackVars, boundVars, bootVars, linkVars, windowVars, configVars,
       BleTypeOK
  <1> QED
    BY <1>1, BootTyped, TaskTyped, PollTyped, GapTyped, HiddTyped, HostTyped
    DEF BleNext, BleTasks, Callers

-----------------------------------------------------------------------------
\* What the queue of the Bluetooth task may do to the authentications in it.
LEMMA AuthsStay ==
  ASSUME AuthsAccounted, btc' = btc, link' = link
  PROVE  AuthsAccounted'
  BY DEF AuthsAccounted

LEMMA AuthsHandled ==
  ASSUME btc \in Seq(GapEvents), btc # <<>>, AuthsAccounted,
         btc' = Tail(btc), link' = link
  PROVE  AuthsAccounted'
  <1>1. /\ Len(btc) \in Nat /\ Len(btc') = Len(btc) - 1
        /\ \A i \in 1..Len(btc') : btc'[i] = btc[i + 1]
    BY HandledLeavesTail
  <1> SUFFICES ASSUME NEW i \in 1..Len(btc'), btc'[i].type = "auth"
               PROVE  /\ btc'[i].host \in Hosts
                      /\ \/ link # None
                         \/ \E j \in (i + 1)..Len(btc') : btc'[j].type = "disconnect"
    BY DEF AuthsAccounted
  <1>2. i + 1 \in 1..Len(btc) /\ btc[i + 1].type = "auth" /\ btc'[i] = btc[i + 1]
    BY <1>1
  <1>3. btc'[i].host \in Hosts
    BY <1>2 DEF AuthsAccounted
  <1>4. ASSUME link = None
        PROVE  \E j \in (i + 1)..Len(btc') : btc'[j].type = "disconnect"
    <2>1. PICK k \in (i + 2)..Len(btc) : btc[k].type = "disconnect"
      BY <1>2, <1>4 DEF AuthsAccounted
    <2>2. k - 1 \in (i + 1)..Len(btc') /\ btc'[k - 1] = btc[k]
      BY <1>1, <2>1
    <2> QED
      BY <2>1, <2>2
  <1> QED
    BY <1>3, <1>4

\* Something is added: then what was linked still is, or its disconnection is
\* what is added.
LEMMA AuthsFollowed ==
  ASSUME btc \in Seq(GapEvents), AuthsAccounted, NEW n \in Nat \ {0},
         Len(btc') = Len(btc) + n,
         \A i \in 1..Len(btc) : btc'[i] = btc[i],
         \A i \in (Len(btc) + 1)..(Len(btc) + n) :
           btc'[i].type = "auth" => btc'[i].host \in Hosts /\ link' # None,
         link = None \/ link' # None \/ btc'[Len(btc) + n].type = "disconnect"
  PROVE  AuthsAccounted'
  <1>1. Len(btc) \in Nat
    OBVIOUS
  <1> SUFFICES ASSUME NEW i \in 1..Len(btc'), btc'[i].type = "auth"
               PROVE  /\ btc'[i].host \in Hosts
                      /\ \/ link' # None
                         \/ \E j \in (i + 1)..Len(btc') : btc'[j].type = "disconnect"
    BY DEF AuthsAccounted
  <1>2. CASE i > Len(btc)
    BY <1>1, <1>2
  <1>3. CASE i <= Len(btc)
    <2>1. i \in 1..Len(btc) /\ btc'[i] = btc[i] /\ btc[i].host \in Hosts
      BY <1>1, <1>3 DEF AuthsAccounted
    <2>2. CASE link' # None
      BY <2>1, <2>2
    <2>3. CASE link = None
      <3>1. PICK j \in (i + 1)..Len(btc) : btc[j].type = "disconnect"
        BY <2>1, <2>3 DEF AuthsAccounted
      <3>2. j \in 1..Len(btc) /\ j \in (i + 1)..Len(btc')
        BY <1>1, <2>1, <3>1
      <3> QED
        BY <2>1, <3>1, <3>2
    <2>4. CASE btc'[Len(btc) + n].type = "disconnect"
      <3>1. Len(btc) + n \in (i + 1)..Len(btc')
        BY <1>1, <2>1
      <3> QED
        BY <2>1, <2>4, <3>1
    <2> QED
      BY <2>2, <2>3, <2>4
  <1> QED
    BY <1>1, <1>2, <1>3

LEMMA AuthsAppended ==
  ASSUME btc \in Seq(GapEvents), AuthsAccounted, NEW e \in GapEvents,
         btc' = Append(btc, e),
         e.type = "auth" => e.host \in Hosts /\ link' # None,
         link = None \/ link' # None \/ e.type = "disconnect"
  PROVE  AuthsAccounted'
  <1>1. /\ Len(btc') = Len(btc) + 1
        /\ \A i \in 1..Len(btc) : btc'[i] = btc[i]
        /\ btc'[Len(btc) + 1] = e /\ Len(btc) \in Nat
    BY AppendProperties
  <1>2. \A i \in (Len(btc) + 1)..(Len(btc) + 1) : btc'[i] = e
    BY <1>1
  <1> QED
    BY <1>1, <1>2, AuthsFollowed

-----------------------------------------------------------------------------
\* A disconnection that is on its way stays so until the task that clears
\* connected has handled it.
LEMMA DisconnectStays ==
  ASSUME btc \in Seq(GapEvents), hidd \in Seq(HiddEvents), DisconnectUnderWay,
         Len(btc') \in Nat, Len(btc') >= Len(btc),
         \A i \in 1..Len(btc) : btc'[i] = btc[i],
         Len(hidd') \in Nat, Len(hidd') >= Len(hidd),
         \A i \in 1..Len(hidd) : hidd'[i] = hidd[i]
  PROVE  DisconnectUnderWay'
  <1>1. Len(btc) \in Nat /\ Len(hidd) \in Nat
    OBVIOUS
  <1>2. 1..Len(btc) \subseteq 1..Len(btc') /\ 1..Len(hidd) \subseteq 1..Len(hidd')
    BY <1>1
  <1> QED
    BY <1>2 DEF DisconnectUnderWay

LEMMA DisconnectBehindHead ==
  ASSUME btc \in Seq(GapEvents), btc # <<>>, Head(btc).type # "disconnect",
         btc' = Tail(btc), hidd \in Seq(HiddEvents),
         Len(hidd') \in Nat, Len(hidd') >= Len(hidd),
         \A i \in 1..Len(hidd) : hidd'[i] = hidd[i],
         DisconnectUnderWay
  PROVE  DisconnectUnderWay'
  <1>1. /\ Len(btc) \in Nat /\ Len(btc') = Len(btc) - 1 /\ Head(btc) = btc[1]
        /\ \A i \in 1..Len(btc') : btc'[i] = btc[i + 1]
    BY HandledLeavesTail
  <1>2. Len(hidd) \in Nat /\ 1..Len(hidd) \subseteq 1..Len(hidd')
    OBVIOUS
  <1>3. ASSUME NEW i \in 1..Len(btc), btc[i].type = "disconnect"
        PROVE  DisconnectUnderWay'
    <2>1. i # 1
      BY <1>1, <1>3
    <2>2. i - 1 \in 1..Len(btc') /\ btc'[i - 1] = btc[i]
      BY <1>1, <2>1
    <2> QED
      BY <1>3, <2>2 DEF DisconnectUnderWay
  <1> QED
    BY <1>2, <1>3 DEF DisconnectUnderWay

LEMMA DisconnectBehindStart ==
  ASSUME hidd \in Seq(HiddEvents), hidd # <<>>, Head(hidd) = "start",
         hidd' = Tail(hidd), btc' = btc, DisconnectUnderWay
  PROVE  DisconnectUnderWay'
  <1>1. /\ Len(hidd) \in Nat /\ Len(hidd') = Len(hidd) - 1 /\ Head(hidd) = hidd[1]
        /\ \A i \in 1..Len(hidd') : hidd'[i] = hidd[i + 1]
    BY HandledLeavesTail
  <1>2. ASSUME NEW i \in 1..Len(hidd), hidd[i] = "disconnect"
        PROVE  DisconnectUnderWay'
    <2>1. i # 1
      BY <1>1, <1>2
    <2>2. i - 1 \in 1..Len(hidd') /\ hidd'[i - 1] = hidd[i]
      BY <1>1, <2>1
    <2> QED
      BY <1>2, <2>2 DEF DisconnectUnderWay
  <1> QED
    BY <1>2 DEF DisconnectUnderWay

\* The link ends: its disconnection is the last event of the queue.
LEMMA DisconnectIsLast ==
  ASSUME NEW n \in Nat \ {0}, Len(btc') = n, btc'[n].type = "disconnect"
  PROVE  DisconnectUnderWay'
  <1>1. n \in 1..Len(btc')
    OBVIOUS
  <1> QED
    BY <1>1 DEF DisconnectUnderWay

-----------------------------------------------------------------------------
Linked == AuthsAccounted /\ ConnectedHasLink

\* Most steps touch neither the queues nor the link nor connected.
LEMMA QuietStepLinked ==
  ASSUME Linked, UNCHANGED <<btc, hidd, link, connected>>
  PROVE  Linked'
  BY DEF Linked, AuthsAccounted, ConnectedHasLink, DisconnectUnderWay

\* A report of the stack that is neither an authentication nor about the link.
LEMMA ReportLinked ==
  ASSUME BleTypeOK, Linked, NEW e \in GapEvents, e.type # "auth",
         btc' = Append(btc, e), UNCHANGED <<hidd, link, connected>>
  PROVE  Linked'
  <1>1. btc \in Seq(GapEvents) /\ hidd \in Seq(HiddEvents)
    BY DEF BleTypeOK, HiddEvents
  <1>2. AuthsAccounted'
    <2>1. link = None \/ link' # None \/ e.type = "disconnect"
      OBVIOUS
    <2> QED
      BY <1>1, <2>1, AuthsAppended DEF Linked
  <1>3. ConnectedHasLink'
    <2>1. /\ Len(btc') = Len(btc) + 1 /\ Len(btc) \in Nat /\ Len(hidd) \in Nat
          /\ \A i \in 1..Len(btc) : btc'[i] = btc[i]
      BY <1>1, AppendProperties
    <2>2. Len(btc') \in Nat /\ Len(btc') >= Len(btc) /\ Len(hidd') >= Len(hidd)
      BY <2>1
    <2>3. DisconnectUnderWay => DisconnectUnderWay'
      BY <1>1, <2>1, <2>2, DisconnectStays
    <2> QED
      BY <2>3, Zenon DEF Linked, ConnectedHasLink
  <1> QED
    BY <1>2, <1>3 DEF Linked

LEMMA BootLinked ==
  ASSUME BleTypeOK, Linked, Boot
  PROVE  Linked'
  <1>1. CASE ConfigAdvData
    <2>1. UNCHANGED <<hidd, link, connected>>
          /\ (btc' = btc \/ btc' = Append(btc, Event("adv")))
      BY <1>1 DEF ConfigAdvData, linkVars
    <2>2. Event("adv") \in GapEvents /\ Event("adv").type # "auth"
      BY EventIsGap DEF Event
    <2> QED
      BY <2>1, <2>2, ReportLinked, QuietStepLinked
  <1>2. CASE ConfigScanRsp
    <2>1. UNCHANGED <<hidd, link, connected>>
          /\ (btc' = btc \/ btc' = Append(btc, Event("rsp")))
      BY <1>2 DEF ConfigScanRsp, linkVars
    <2>2. Event("rsp") \in GapEvents /\ Event("rsp").type # "auth"
      BY EventIsGap DEF Event
    <2> QED
      BY <2>1, <2>2, ReportLinked, QuietStepLinked
  <1>3. CASE HiddDevInit
    <2>1. UNCHANGED <<btc, link, connected>>
          /\ (hidd' = hidd \/ hidd' = Append(hidd, "start"))
      BY <1>3 DEF HiddDevInit, linkVars
    <2>2. btc \in Seq(GapEvents) /\ hidd \in Seq(HiddEvents) /\ "start" \in HiddEvents
      BY DEF BleTypeOK, HiddEvents
    <2>3. /\ Len(hidd') \in Nat /\ Len(hidd') >= Len(hidd) /\ Len(btc) \in Nat
          /\ \A i \in 1..Len(hidd) : hidd'[i] = hidd[i]
      BY <2>1, <2>2, AppendProperties
    <2>4. DisconnectUnderWay => DisconnectUnderWay'
      BY <2>1, <2>2, <2>3, DisconnectStays
    <2>5. ConnectedHasLink'
      BY <2>1, <2>4, Zenon DEF Linked, ConnectedHasLink
    <2>6. AuthsAccounted'
      BY <2>1, AuthsStay DEF Linked
    <2> QED
      BY <2>5, <2>6 DEF Linked
  <1>4. CASE DropScanRsp \/ InitFinish \/ FirstWindow
    BY <1>4, QuietStepLinked DEF DropScanRsp, InitFinish, Finish, FirstWindow, stackVars,
       linkVars
  <1> QED
    BY <1>1, <1>2, <1>3, <1>4 DEF Boot

LEMMA TaskLinked ==
  ASSUME BleTypeOK, Linked, NEW t \in BleTasks,
         \/ AskWindow(t) \/ AskClear(t) \/ TaskStep(t)
         \/ PollExpire \/ StopAdvertising \/ Tick
  PROVE  Linked'
  <1>1. CASE StartAdvertising(t)
    <2>1. UNCHANGED <<hidd, link, connected>>
      BY <1>1 DEF StartAdvertising, linkVars
    <2>2. PICK type \in {"started", "notStarted"} : btc' = Append(btc, Event(type))
      BY <1>1 DEF StartAdvertising
    <2>3. Event(type) \in GapEvents /\ Event(type).type # "auth"
      BY EventIsGap DEF Event
    <2> QED
      BY <2>1, <2>2, <2>3, ReportLinked
  <1>2. CASE StopAdvertising
    <2>1. UNCHANGED <<hidd, link, connected>> /\ btc' = Append(btc, Event("stopped"))
      BY <1>2 DEF StopAdvertising, linkVars
    <2>2. Event("stopped") \in GapEvents /\ Event("stopped").type # "auth"
      BY EventIsGap DEF Event
    <2> QED
      BY <2>1, <2>2, ReportLinked
  <1>3. CASE AskWindow(t) \/ AskClear(t)
    BY <1>3, QuietStepLinked DEF AskWindow, AskClear, Ask, stackVars, linkVars
  <1>4. CASE Clear(t) \/ OpenWindow(t) \/ Decide(t)
    BY <1>4, QuietStepLinked
    DEF Clear, ClearList, ClearRemove, Unbond, OpenWindow, Decide, stackVars, linkVars
  <1>5. CASE PollExpire \/ Tick
    BY <1>5, QuietStepLinked DEF PollExpire, Tick, stackVars, linkVars
  <1> QED
    BY <1>1, <1>2, <1>3, <1>4, <1>5 DEF TaskStep

\* The Bluetooth task handles an event.  A disconnection only moves to the next
\* queue, and an authentication is only reported of a link whose end is reported
\* behind it.
LEMMA GapLinked ==
  ASSUME BleTypeOK, Linked, GapEvent
  PROVE  Linked'
  <1>0. /\ btc \in Seq(GapEvents) /\ hidd \in Seq(HiddEvents) /\ Len(hidd) \in Nat
        /\ AuthsAccounted /\ ConnectedHasLink
    BY DEF BleTypeOK, HiddEvents, Linked
  <1>1. ASSUME NEW type, Handles(type), link' = link
        PROVE  /\ AuthsAccounted'
               /\ btc # <<>> /\ Head(btc).type = type /\ btc' = Tail(btc)
    BY <1>0, <1>1, AuthsHandled DEF Handles
  <1>2. ASSUME NEW type, Handles(type), type # "disconnect",
               UNCHANGED <<hidd, link, connected>>
        PROVE  Linked'
    <2>1. DisconnectUnderWay => DisconnectUnderWay'
      BY <1>0, <1>1, <1>2, DisconnectBehindHead
    <2>2. ConnectedHasLink'
      BY <1>0, <1>2, <2>1, Zenon DEF ConnectedHasLink
    <2> QED
      BY <1>1, <1>2, <2>2 DEF Linked
  <1>3. ASSUME NEW flag \in Flags, ConfigSet(flag)
        PROVE  Linked'
    BY <1>2, <1>3 DEF ConfigSet, linkVars, Flags
  <1>4. ASSUME NEW type \in {"started", "notStarted", "stopped"}, AdvReport(type)
        PROVE  Linked'
    BY <1>2, <1>4 DEF AdvReport, linkVars
  <1>5. CASE AuthSuccess
    <2>1. Handles("auth") /\ UNCHANGED <<hidd, link>>
      BY <1>5 DEF AuthSuccess
    <2>2. AuthsAccounted' /\ btc # <<>> /\ Head(btc).type = "auth" /\ btc' = Tail(btc)
      BY <1>1, <2>1
    <2>3. link = None => DisconnectUnderWay
      <3>1. 1 \in 1..Len(btc) /\ btc[1].type = "auth"
        BY <1>0, <2>2
      <3>2. link = None => \E j \in (1 + 1)..Len(btc) : btc[j].type = "disconnect"
        BY <1>0, <3>1 DEF AuthsAccounted
      <3>3. (1 + 1)..Len(btc) \subseteq 1..Len(btc)
        BY <1>0
      <3> QED
        BY <3>2, <3>3 DEF DisconnectUnderWay
    <2>4. DisconnectUnderWay => DisconnectUnderWay'
      BY <1>0, <2>1, <2>2, DisconnectBehindHead
    <2> QED
      BY <2>1, <2>2, <2>3, <2>4 DEF Linked, ConnectedHasLink
  <1>6. CASE RemoveOthers
    BY <1>6, QuietStepLinked DEF RemoveOthers, linkVars
  <1>7. CASE AuthFailure
    <2>1. Handles("authFail") /\ link' = link /\ connected' = FALSE
      BY <1>7 DEF AuthFailure
    <2> QED
      BY <1>1, <2>1 DEF Linked, ConnectedHasLink
  <1>8. ASSUME NEW type \in {"connect", "disconnect"}, Forward(type)
        PROVE  Linked'
    <2>1. Handles(type) /\ UNCHANGED <<link, connected>> /\ hidd' = Append(hidd, type)
      BY <1>8 DEF Forward, linkVars
    <2>2. AuthsAccounted' /\ btc # <<>> /\ Head(btc).type = type /\ btc' = Tail(btc)
      BY <1>1, <2>1
    <2>3. /\ Len(hidd') = Len(hidd) + 1 /\ Len(hidd') \in Nat /\ Len(hidd') >= Len(hidd)
          /\ \A i \in 1..Len(hidd) : hidd'[i] = hidd[i]
          /\ hidd'[Len(hidd) + 1] = type
      BY <1>0, <2>1, AppendProperties DEF HiddEvents
    <2>4. CASE type = "disconnect"
      <3>1. Len(hidd) + 1 \in 1..Len(hidd')
        BY <1>0, <2>3
      <3>2. DisconnectUnderWay'
        BY <2>3, <2>4, <3>1 DEF DisconnectUnderWay
      <3> QED
        BY <2>2, <3>2 DEF Linked, ConnectedHasLink
    <2>5. CASE type = "connect"
      <3>1. DisconnectUnderWay => DisconnectUnderWay'
        BY <1>0, <2>2, <2>3, <2>5, DisconnectBehindHead
      <3>2. ConnectedHasLink'
        BY <1>0, <2>1, <3>1, Zenon DEF ConnectedHasLink
      <3> QED
        BY <2>2, <3>2 DEF Linked
    <2> QED
      BY <2>4, <2>5
  <1> QED
    BY <1>3, <1>4, <1>5, <1>6, <1>7, <1>8 DEF GapEvent

\* The HID device's task clears connected with every event about the link.
LEMMA HiddLinked ==
  ASSUME BleTypeOK, Linked, HiddEvent
  PROVE  Linked'
  <1>0. hidd \in Seq(HiddEvents) /\ AuthsAccounted /\ ConnectedHasLink
    BY DEF BleTypeOK, HiddEvents, Linked
  <1>1. AuthsAccounted'
    BY <1>0, AuthsStay DEF HiddEvent, HiddStart, HiddConnect, HiddDisconnect
  <1>2. CASE HiddStart
    <2>1. hidd # <<>> /\ Head(hidd) = "start" /\ hidd' = Tail(hidd)
          /\ UNCHANGED <<btc, link, connected>>
      BY <1>2 DEF HiddStart, HiddHandles, linkVars
    <2>2. DisconnectUnderWay => DisconnectUnderWay'
      BY <1>0, <2>1, DisconnectBehindStart
    <2>3. ConnectedHasLink'
      BY <1>0, <2>1, <2>2, Zenon DEF ConnectedHasLink
    <2> QED
      BY <1>1, <2>3 DEF Linked
  <1>3. CASE HiddConnect \/ HiddDisconnect
    <2>1. connected' = FALSE
      BY <1>3 DEF HiddConnect, HiddDisconnect
    <2> QED
      BY <1>1, <2>1 DEF Linked, ConnectedHasLink
  <1> QED
    BY <1>2, <1>3 DEF HiddEvent

\* A host comes, is authenticated, or goes: its end is reported.
LEMMA HostLinked ==
  ASSUME BleTypeOK, Linked,
         (\E h \in Hosts : Connects(h)) \/ Authenticates \/ Leaves \/ IsRefused
  PROVE  Linked'
  <1>0. /\ btc \in Seq(GapEvents) /\ Len(btc) \in Nat /\ Len(btc) + 1 \in Nat \ {0}
        /\ AuthsAccounted /\ ConnectedHasLink
    BY DEF BleTypeOK, Linked
  <1>1. ASSUME NEW h \in Hosts, Connects(h)
        PROVE  Linked'
    <2>1. link' # None /\ btc' = Append(btc, Event("connect"))
      BY <1>1, BleHostAssumption DEF Connects
    <2>2. Event("connect") \in GapEvents /\ Event("connect").type # "auth"
      BY EventIsGap DEF Event
    <2>3. AuthsAccounted'
      BY <1>0, <2>1, <2>2, AuthsAppended
    <2> QED
      BY <2>1, <2>3 DEF Linked, ConnectedHasLink
  <1>2. CASE Authenticates
    <2>1. link' = link /\ link \in Hosts /\ link # None
          /\ btc' = Append(btc, [type |-> "auth", host |-> link])
      BY <1>2 DEF Authenticates, BleTypeOK
    <2>2. AuthsAccounted'
      <3>1. [type |-> "auth", host |-> link] \in GapEvents
        BY <2>1, AuthIsGap
      <3> QED
        BY <1>0, <2>1, <3>1, AuthsAppended
    <2> QED
      BY <2>1, <2>2 DEF Linked, ConnectedHasLink
  <1>3. CASE Leaves
    <2>1. btc' = Append(btc, Event("disconnect"))
      BY <1>3 DEF Leaves
    <2>2. Event("disconnect") \in GapEvents /\ Event("disconnect").type = "disconnect"
      BY EventIsGap DEF Event
    <2>3. AuthsAccounted'
      BY <1>0, <2>1, <2>2, AuthsAppended
    <2>4. Len(btc') = Len(btc) + 1 /\ btc'[Len(btc) + 1].type = "disconnect"
      BY <1>0, <2>1, <2>2, AppendProperties
    <2>5. DisconnectUnderWay'
      BY <1>0, <2>4, DisconnectIsLast
    <2> QED
      BY <2>3, <2>5 DEF Linked, ConnectedHasLink
  <1>4. CASE IsRefused
    <2>1. btc' = btc \o <<Event("authFail"), Event("disconnect")>>
      BY <1>4 DEF IsRefused
    <2>2. /\ Event("authFail") \in GapEvents /\ Event("authFail").type # "auth"
          /\ Event("disconnect") \in GapEvents
          /\ Event("disconnect").type = "disconnect"
      BY EventIsGap DEF Event
    <2>3. /\ Len(btc') = Len(btc) + 2
          /\ \A i \in 1..Len(btc) : btc'[i] = btc[i]
          /\ btc'[Len(btc) + 1] = Event("authFail")
          /\ btc'[Len(btc) + 2] = Event("disconnect")
      BY <1>0, <2>1, <2>2, TwoAppended
    <2>4. \A i \in (Len(btc) + 1)..(Len(btc) + 2) : btc'[i].type # "auth"
      <3>1. \A i \in (Len(btc) + 1)..(Len(btc) + 2) :
              i = Len(btc) + 1 \/ i = Len(btc) + 2
        BY <1>0
      <3> QED
        BY <2>2, <2>3, <3>1
    <2>5. AuthsAccounted'
      <3>1. 2 \in Nat \ {0} /\ btc'[Len(btc) + 2].type = "disconnect"
        BY <2>2, <2>3
      <3> QED
        BY <1>0, <2>3, <2>4, <3>1, AuthsFollowed
    <2>6. DisconnectUnderWay'
      <3>1. Len(btc) + 2 \in Nat \ {0}
        BY <1>0
      <3> QED
        BY <2>2, <2>3, <3>1, DisconnectIsLast
    <2> QED
      BY <2>5, <2>6 DEF Linked, ConnectedHasLink
  <1> QED
    BY <1>1, <1>2, <1>3, <1>4

-----------------------------------------------------------------------------
LEMMA InitEstablishesInvariant == BleInit => BleIInv
  BY InitTyped DEF BleInit, BleIInv, AuthsAccounted, ConnectedHasLink

LEMMA StepKeepsInvariant == BleIInv /\ [BleNext]_bleVars => BleIInv'
  <1> SUFFICES ASSUME BleIInv, [BleNext]_bleVars PROVE BleIInv'
    OBVIOUS
  <1>1. BleTypeOK /\ Linked
    BY DEF BleIInv, Linked
  <1>2. BleTypeOK'
    BY StepTyped DEF BleIInv
  <1>3. Linked'
    <2>1. CASE UNCHANGED bleVars
      BY <1>1, <2>1, QuietStepLinked DEF bleVars, stackVars, linkVars
    <2> QED
      BY <1>1, <2>1, BootLinked, TaskLinked, GapLinked, HiddLinked, HostLinked
      DEF BleNext, BleTasks, Callers
  <1> QED
    BY <1>2, <1>3 DEF BleIInv, Linked

LEMMA Invariance == BleSafetySpec => []BleIInv
  <1> QED
    BY InitEstablishesInvariant, StepKeepsInvariant, PTL DEF BleSafetySpec

(***************************************************************************)
(* The fields of s_ble, the queues of the two tasks and what each call     *)
(* holds outside the lock stay what they are meant to be: no deadline is   *)
(* left behind by a window that was closed, and the removal of the other   *)
(* bonds always knows the host it is for.                                  *)
(***************************************************************************)
THEOREM BleTypeCorrect == BleSafetySpec => []BleTypeOK
  <1>1. BleIInv => BleTypeOK
    BY DEF BleIInv
  <1> QED
    BY <1>1, Invariance, PTL

(***************************************************************************)
(* s_ble.connected never stays up for a host that is gone: whatever order  *)
(* the stack reports in, with authentications that overtake the connection *)
(* and with the poll's end of a window anywhere in between, its            *)
(* disconnection is in one of the two queues.                              *)
(***************************************************************************)
THEOREM NobodyIsConnected == BleSafetySpec => []ConnectedHasLink
  <1>1. BleIInv => ConnectedHasLink
    BY DEF BleIInv
  <1> QED
    BY <1>1, Invariance, PTL

-----------------------------------------------------------------------------
\* Of two sets, one in the other, the smaller has no more elements.
LEMMA SmallStaysSmall ==
  ASSUME NEW S, NEW T \in SUBSET S, IsFiniteSet(S), Cardinality(S) <= 1
  PROVE  Cardinality(T) <= 1
  <1>1. Cardinality(T) <= Cardinality(S) /\ Cardinality(T) \in Nat
        /\ Cardinality(S) \in Nat
    BY FS_Subset, FS_CardinalityType
  <1> QED
    BY <1>1

LEMMA OneOrNone ==
  ASSUME NEW S, NEW h
  PROVE  Cardinality(S \cap {h}) <= 1
  <1>1. IsFiniteSet({h}) /\ Cardinality({h}) = 1 /\ S \cap {h} \subseteq {h}
    BY FS_Singleton
  <1> QED
    BY <1>1, SmallStaysSmall

LEMMA InitOneBond == BleInit => OneBond
  <1>1. ASSUME NEW h PROVE Cardinality({h}) <= 1
    BY FS_Singleton
  <1>2. Cardinality({}) <= 1
    BY FS_EmptySet
  <1> QED
    BY <1>1, <1>2 DEF BleInit, OneBond

\* Bonds are only added by an authentication, whose events end with the removal
\* of the others; and no other step ends them.
LEMMA StepKeepsOneBond ==
  ASSUME "others" \notin BleFaults, BleTypeOK, OneBond, [BleNext]_bleVars
  PROVE  OneBond'
  <1>0. /\ btc \in Seq(GapEvents) /\ Len(btc) \in Nat /\ IsFiniteSet(bonds)
        /\ call \in [BleTasks -> Calls] /\ "btc" \in BleTasks
    <2>1. IsFiniteSet(bonds)
      BY BleHostAssumption, FS_Subset DEF BleTypeOK
    <2> QED
      BY <2>1 DEF BleTypeOK, Calls, Steps, BleTasks
  <1>1. ASSUME bonds' \subseteq bonds, AuthUnderWay => AuthUnderWay'
        PROVE  OneBond'
    BY <1>0, <1>1, SmallStaysSmall DEF OneBond
  <1>2. ASSUME NEW n \in Nat, Len(btc') = Len(btc) + n,
               \A i \in 1..Len(btc) : btc'[i] = btc[i],
               call["btc"].step = "others" => call'["btc"].step = "others"
        PROVE  AuthUnderWay => AuthUnderWay'
    <2>1. 1..Len(btc) \subseteq 1..Len(btc')
      BY <1>0, <1>2
    <2> QED
      BY <1>2, <2>1 DEF AuthUnderWay
  <1>3. ASSUME NEW e \in GapEvents, btc' = Append(btc, e), bonds' \subseteq bonds,
               call["btc"].step = "others" => call'["btc"].step = "others"
        PROVE  OneBond'
    <2>1. Len(btc') = Len(btc) + 1 /\ \A i \in 1..Len(btc) : btc'[i] = btc[i]
      BY <1>0, <1>3, AppendProperties
    <2> QED
      BY <1>1, <1>2, <1>3, <2>1
  <1>4. ASSUME btc' = btc, bonds' \subseteq bonds,
               call["btc"].step = "others" => call'["btc"].step = "others"
        PROVE  OneBond'
    BY <1>1, <1>4 DEF AuthUnderWay
  <1>5. ASSUME NEW type, Handles(type), type # "auth", bonds' = bonds
        PROVE  OneBond'
    <2>1. /\ btc # <<>> /\ btc' = Tail(btc) /\ btc[1].type = type
          /\ call["btc"].step # "others"
      BY <1>0, <1>5, HandledLeavesTail DEF Handles, Free
    <2>2. /\ Len(btc') = Len(btc) - 1
          /\ \A i \in 1..Len(btc') : btc'[i] = btc[i + 1]
      BY <1>0, <2>1, HandledLeavesTail
    <2>3. ASSUME NEW i \in 1..Len(btc), btc[i].type = "auth"
          PROVE  AuthUnderWay'
      <3>1. i # 1
        BY <1>5, <2>1, <2>3
      <3>2. i - 1 \in 1..Len(btc') /\ btc'[i - 1] = btc[i]
        BY <1>0, <2>2, <3>1
      <3> QED
        BY <2>3, <3>2 DEF AuthUnderWay
    <2> QED
      BY <1>1, <1>5, <2>1, <2>3 DEF AuthUnderWay
  <1>6. ASSUME NEW t \in BleTasks, call[t].step # "others",
               \A u \in BleTasks \ {t} : call'[u] = call[u]
        PROVE  call["btc"].step = "others" => call'["btc"].step = "others"
    BY <1>0, <1>6
  <1>7. CASE UNCHANGED bleVars
    BY <1>4, <1>7 DEF bleVars, stackVars
  <1>8. CASE Boot
    <2>1. bonds' = bonds /\ (call' = call \/ \A u \in BleTasks \ {"main"} : call'[u] = call[u])
      BY <1>0, <1>8 DEF Boot, ConfigAdvData, ConfigScanRsp, DropScanRsp, HiddDevInit,
         InitFinish, Finish, FirstWindow, stackVars, Goto
    <2>2. call["btc"].step = "others" => call'["btc"].step = "others"
      BY <1>0, <2>1
    <2>3. \/ btc' = btc
          \/ \E type \in {"adv", "rsp"} : btc' = Append(btc, Event(type))
      BY <1>8 DEF Boot, ConfigAdvData, ConfigScanRsp, DropScanRsp, HiddDevInit,
         InitFinish, Finish, FirstWindow, stackVars
    <2> QED
      BY <1>3, <1>4, <2>1, <2>2, <2>3, EventIsGap
  <1>9. ASSUME NEW t \in {"input", "web"}, AskWindow(t) \/ AskClear(t)
        PROVE  OneBond'
    <2>1. btc' = btc /\ bonds' = bonds /\ call'["btc"] = call["btc"]
      BY <1>0, <1>9 DEF AskWindow, AskClear, Ask, stackVars
    <2> QED
      BY <1>4, <2>1
  <1>10. ASSUME NEW t \in BleTasks, TaskStep(t)
         PROVE  OneBond'
    <2>1. call[t].step # "others" /\ \A u \in BleTasks \ {t} : call'[u] = call[u]
      BY <1>0, <1>10 DEF TaskStep, Clear, ClearList, ClearRemove, Unbond, OpenWindow,
         Decide, StartAdvertising, Goto
    <2>2. bonds' \subseteq bonds
      BY <1>10 DEF TaskStep, Clear, ClearList, ClearRemove, Unbond, OpenWindow, Decide,
         StartAdvertising, stackVars
    <2>3. \/ btc' = btc
          \/ \E type \in {"started", "notStarted"} : btc' = Append(btc, Event(type))
      BY <1>10 DEF TaskStep, Clear, ClearList, ClearRemove, Unbond, OpenWindow, Decide,
         StartAdvertising, stackVars
    <2> QED
      BY <1>3, <1>4, <1>6, <2>1, <2>2, <2>3, EventIsGap
  <1>11. CASE PollExpire \/ StopAdvertising \/ Tick
    <2>1. bonds' = bonds /\ call'["btc"] = call["btc"]
          /\ (btc' = btc \/ btc' = Append(btc, Event("stopped")))
      BY <1>0, <1>11 DEF PollExpire, StopAdvertising, Tick, stackVars, Goto
    <2> QED
      BY <1>3, <1>4, <2>1, EventIsGap
  <1>12. CASE GapEvent
    <2>1. CASE AuthSuccess
      <3>1. call'["btc"].step = "others"
        BY <1>0, <2>1 DEF AuthSuccess, RemovesOthers
      <3> QED
        BY <3>1 DEF OneBond, AuthUnderWay
    <2>2. CASE RemoveOthers
      <3>1. PICK h : bonds' = bonds \cap {h}
        BY <2>2 DEF RemoveOthers, Kept, Works
      <3> QED
        BY <3>1, OneOrNone DEF OneBond
    <2>3. ASSUME NEW flag \in Flags, ConfigSet(flag)
          PROVE  OneBond'
      BY <1>5, <2>3 DEF ConfigSet, Flags
    <2>4. ASSUME NEW type \in {"started", "notStarted", "stopped"}, AdvReport(type)
          PROVE  OneBond'
      BY <1>5, <2>4 DEF AdvReport
    <2>5. CASE AuthFailure
      BY <1>5, <2>5 DEF AuthFailure
    <2>6. ASSUME NEW type \in {"connect", "disconnect"}, Forward(type)
          PROVE  OneBond'
      BY <1>5, <2>6 DEF Forward
    <2> QED
      BY <1>12, <2>1, <2>2, <2>3, <2>4, <2>5, <2>6 DEF GapEvent
  <1>13. CASE HiddEvent
    <2>1. btc' = btc /\ bonds' = bonds
      BY <1>13 DEF HiddEvent, HiddStart, HiddConnect, HiddDisconnect
    <2>2. call'["btc"] = call["btc"]
      BY <1>0, <1>13 DEF HiddEvent, HiddStart, HiddConnect, HiddDisconnect, Goto
    <2> QED
      BY <1>4, <2>1, <2>2
  <1>14. ASSUME NEW h \in Hosts, Connects(h)
         PROVE  OneBond'
    BY <1>3, <1>14, EventIsGap DEF Connects
  <1>15. CASE Authenticates
    <2>1. btc' = Append(btc, [type |-> "auth", host |-> link])
      BY <1>15 DEF Authenticates
    <2>2. Len(btc') = Len(btc) + 1 /\ btc'[Len(btc) + 1].type = "auth"
      BY <1>0, <2>1
    <2>3. Len(btc) + 1 \in 1..Len(btc')
      BY <1>0, <2>2
    <2> QED
      BY <2>2, <2>3 DEF OneBond, AuthUnderWay
  <1>16. CASE Leaves
    BY <1>3, <1>16, EventIsGap DEF Leaves
  <1>17. CASE IsRefused
    <2>1. /\ Len(btc') = Len(btc) + 2
          /\ \A i \in 1..Len(btc) : btc'[i] = btc[i]
      BY <1>0, <1>17, EventIsGap, TwoAppended DEF IsRefused
    <2>2. bonds' = bonds /\ call' = call
      BY <1>17 DEF IsRefused
    <2> QED
      BY <1>1, <1>2, <2>1, <2>2
  <1> QED
    BY <1>7, <1>8, <1>9, <1>10, <1>11, <1>12, <1>13, <1>14, <1>15, <1>16, <1>17
    DEF BleNext

(***************************************************************************)
(* The single-bond host policy: with memory for the list of the bonds,     *)
(* there is never a second one for longer than the events of the           *)
(* authentication that added it are under way, however windows, clearings  *)
(* and the removal of the others fall in between.  (Without memory the     *)
(* removal is skipped, and the second bond stays.)                         *)
(***************************************************************************)
THEOREM SecondBondIsRemoved ==
  ASSUME "others" \notin BleFaults
  PROVE  BleSafetySpec => []OneBond
  <1>1. BleTypeOK /\ OneBond /\ [BleNext]_bleVars => OneBond'
    BY StepKeepsOneBond
  <1> QED
    BY <1>1, InitOneBond, BleTypeCorrect, PTL DEF BleSafetySpec
=============================================================================
