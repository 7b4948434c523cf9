----------------------------- MODULE BleBackend -----------------------------
(***************************************************************************)
(* main/hid_ble_backend.c: advertising, the pairing window, the bonds and  *)
(* the host's connection, as the calls of hid_transport.c and the events   *)
(* of the Bluetooth stack drive them.                                      *)
(*                                                                         *)
(* The stack is external.  Its events are handled one after the other by   *)
(* the Bluetooth task, which runs the GAP callback and hands connections   *)
(* on to the event loop of the HID device, a task of its own.  s_ble.lock  *)
(* is held for the blocks of assignments, never across a call of the       *)
(* stack: what a block decided is done in a later step.                    *)
(***************************************************************************)
EXTENDS Naturals, Sequences, FiniteSets

CONSTANTS Hosts,       \* hosts that may connect
          BondedBefore, \* those of which one may be bonded at boot
          None,        \* no host
          Window,      \* MACRO_BLUETOOTH_PAIRING_WINDOW_SEC, in ticks
          ClearFirst,  \* MACRO_BLUETOOTH_CLEAR_BOND_ON_NEW_PAIRING
          BleFaults,   \* the calls that may fail
                  AuthOvertakes, \* a host may authenticate before its connection
                         \* was reported
          MaxLinks,    \* bound of the model: connections
          MaxAsks      \* bound of the model: requests of the two tasks

ASSUME BleHostAssumption ==
  None \notin Hosts /\ IsFiniteSet(Hosts) /\ BondedBefore \subseteq Hosts
ASSUME BleBoundAssumption ==
  /\ Window \in Nat \ {0} /\ MaxLinks \in Nat /\ MaxAsks \in Nat
ASSUME BleSwitchAssumption ==
  /\ ClearFirst \in BOOLEAN /\ AuthOvertakes \in BOOLEAN
  /\ BleFaults \subseteq {"adv", "rsp", "hidd", "refresh", "others", "clear", "start"}

VARIABLES
  radio,       \* the controller advertises
  link,        \* the host that is linked
  secure,      \* the stack has authenticated it
  bonds,       \* the stack's bond database
  btc,         \* events the Bluetooth task has to handle
  hidd,        \* events the HID device's task has to handle
  links, asks, \* connections and requests so far
  crossed,     \* history: advertising was last decided on, or started, while
               \* the end of a window was about to stop it
  boot,        \* progress of hid_ble_backend_init and hid_transport_init
  cfgRead,     \* adv_cfg_done as the init read it for its |=
  initialized, \* and the fields of s_ble
  connected, linkConnected, advertising, bonded, windowActive, left,
  advReady, cfgDone, cfgRequired, advRequested,
  call         \* where each task is, outside the lock

stackVars == <<radio, link, secure, bonds, btc, hidd>>
boundVars == <<links, asks, crossed>>
bootVars == <<boot, cfgRead, initialized>>
linkVars == <<connected, linkConnected>>
windowVars == <<windowActive, left>>
configVars == <<advReady, cfgDone, cfgRequired>>
bleVars == <<stackVars, boundVars, bootVars, linkVars, advertising, bonded, windowVars,
             configVars, advRequested, call>>

Callers == {"main", "input", "web"}
BleTasks == Callers \cup {"btc", "hidd"}
Flags == {"adv", "rsp"}

\* events of the stack: the authenticated host comes with its event
GapEvents == [type : {"adv", "rsp", "started", "notStarted", "stopped", "auth",
                      "authFail", "connect", "disconnect"}, host : Hosts \cup {None}]

Event(type) == [type |-> type, host |-> None]

\* a call's local state: the bonds it has listed, and whether a window follows
Call(step) == [step |-> step, listed |-> {}, opens |-> FALSE]

\* the outcomes of a call
Works(f) == IF f \in BleFaults THEN BOOLEAN ELSE {TRUE}

BleTypeOK ==
  /\ radio \in BOOLEAN /\ link \in Hosts \cup {None} /\ secure \in BOOLEAN
  /\ bonds \subseteq Hosts
  /\ btc \in Seq(GapEvents) /\ hidd \in Seq({"start", "connect", "disconnect"})
  /\ links \in 0..MaxLinks /\ asks \in 0..MaxAsks /\ crossed \in BOOLEAN
  /\ boot \in {"adv", "rsp", "rspStore", "hidd", "finish", "window", "up", "failed"}
  /\ cfgRead \subseteq Flags
  /\ initialized \in BOOLEAN /\ connected \in BOOLEAN /\ linkConnected \in BOOLEAN
  /\ advertising \in BOOLEAN /\ bonded \in BOOLEAN
  /\ windowActive \in BOOLEAN /\ left \in 0..Window
  /\ ~windowActive => left = 0
  /\ advReady \in BOOLEAN /\ cfgDone \subseteq Flags /\ cfgRequired \subseteq Flags
  /\ advRequested \in BOOLEAN
  /\ call \in [BleTasks -> [step : {"none", "clear", "remove", "unbond", "open",
                                    "decide", "start", "stop", "others"},
                            listed : SUBSET Hosts, opens : BOOLEAN]]

BleInit ==
  /\ radio = FALSE /\ link = None /\ secure = FALSE
  /\ bonds \in {{}} \cup {{h} : h \in BondedBefore}
  /\ btc = <<>> /\ hidd = <<>>
  /\ links = 0 /\ asks = 0 /\ crossed = FALSE
  /\ boot = "adv" /\ cfgRead = {} /\ initialized = FALSE
  /\ connected = FALSE /\ linkConnected = FALSE
  /\ advertising = FALSE /\ bonded = FALSE
  /\ windowActive = FALSE /\ left = 0
  /\ advReady = FALSE /\ cfgDone = {} /\ cfgRequired = {"adv"}
  /\ advRequested = FALSE
  /\ call = [t \in BleTasks |-> Call("none")]

-----------------------------------------------------------------------------
Free(t) == call[t].step = "none"
Goto(t, step) == call' = [call EXCEPT ![t] = Call(step)]

\* from the poll's decision to stop advertising to the handling of its event
Stopping ==
  \/ call["input"].step = "stop"
  \/ \E i \in 1..Len(btc) : btc[i].type = "stopped"

Quiet == btc = <<>> /\ hidd = <<>> /\ \A t \in BleTasks : Free(t)

Configured == cfgRequired \subseteq cfgDone
\* Fault: the deadline stays.
NoWindowButDeadline == windowActive' = FALSE /\ left' = left

NoWindow == windowActive' = FALSE /\ left' = 0

NewWindow == windowActive' = TRUE /\ left' = Window

(***************************************************************************)
(* ble_start_adv_if_possible: decided under the lock, called after it.     *)
(***************************************************************************)
MayAdvertise ==
  initialized /\ advReady /\ advRequested /\ ~connected /\ ~advertising

Decide(t) ==
  /\ call[t].step = "decide"
  /\ Goto(t, IF MayAdvertise THEN "start" ELSE "none")
  /\ crossed' = Stopping
  /\ UNCHANGED <<stackVars, links, asks, bootVars, linkVars, advertising, bonded,
                 windowVars, configVars, advRequested>>

StartAdvertising(t) ==
  /\ call[t].step = "start"
  /\ \E ok \in Works("start") :
       /\ radio' = (ok \/ radio)
       /\ btc' = Append(btc, Event(IF ok THEN "started" ELSE "notStarted"))
  /\ Goto(t, "none")
  /\ crossed' = (crossed \/ Stopping)
  /\ UNCHANGED <<link, secure, bonds, hidd, links, asks, bootVars, linkVars, advertising,
                 bonded, windowVars, configVars, advRequested>>

-----------------------------------------------------------------------------
(***************************************************************************)
(* hid_ble_backend_init in app_main's task.  The stack reports the two     *)
(* configurations whenever it likes, also before initialized is set; the   *)
(* init's own |= of adv_cfg_done is not under the lock.                    *)
(***************************************************************************)
ConfigAdvData ==
  /\ boot = "adv"
  /\ \E ok \in Works("adv") :
       /\ cfgDone' = IF ok THEN cfgDone ELSE cfgDone \cup {"adv"}
       /\ btc' = IF ok THEN Append(btc, Event("adv")) ELSE btc
  /\ boot' = "rsp"
  /\ UNCHANGED <<radio, link, secure, bonds, hidd, boundVars, cfgRead, initialized,
                 linkVars, advertising, bonded, windowVars, advReady, cfgRequired,
                 advRequested, call>>

\* the call comes before the flag is required
ConfigScanRsp ==
  /\ boot = "rsp"
  /\ \E ok \in Works("rsp") :
       /\ btc' = IF ok THEN Append(btc, Event("rsp")) ELSE btc
       /\ cfgRequired' = IF ok THEN cfgRequired \cup {"rsp"} ELSE cfgRequired
       /\ cfgRead' = IF ok THEN cfgRead ELSE cfgDone
       /\ boot' = IF ok THEN "hidd" ELSE "rspStore"
  /\ UNCHANGED <<radio, link, secure, bonds, hidd, boundVars, initialized, linkVars,
                 advertising, bonded, windowVars, advReady, cfgDone, advRequested, call>>

DropScanRsp ==
  /\ boot = "rspStore"
  /\ cfgDone' = cfgRead \cup {"rsp"}
  /\ cfgRead' = {}
  /\ boot' = "hidd"
  /\ UNCHANGED <<stackVars, boundVars, initialized, linkVars, advertising,
                 bonded, windowVars, advReady, cfgRequired, advRequested, call>>

HiddDevInit ==
  /\ boot = "hidd"
  /\ \E ok \in Works("hidd") :
       /\ boot' = IF ok THEN "finish" ELSE "failed"
       /\ hidd' = IF ok THEN Append(hidd, "start") ELSE hidd
  /\ UNCHANGED <<radio, link, secure, bonds, btc, boundVars, cfgRead, initialized,
                 linkVars, advertising, bonded, windowVars, configVars, advRequested,
                 call>>

\* ble_refresh_bonded_locked
RefreshBonded == \E ok \in Works("refresh") : bonded' = (ok /\ bonds # {})

Finish(then) ==
  /\ boot = "finish"
  /\ initialized' = TRUE
  /\ advRequested' = TRUE
  /\ advReady' = Configured
  /\ RefreshBonded
  /\ Goto("main", then)
  /\ boot' = "window"
  /\ UNCHANGED <<stackVars, boundVars, cfgRead, linkVars, advertising, windowVars,
                 cfgDone, cfgRequired>>

\* Fault: the events are trusted to come after the init.
InitFinishByEvents == Finish("none")

InitFinish == Finish("decide")

(***************************************************************************)
(* hid_transport_init opens the first window when no host is bonded; the   *)
(* transport answers requests from then on.                                *)
(***************************************************************************)
FirstWindow ==
  /\ boot = "window" /\ Free("main")
  /\ Goto("main", IF bonded THEN "none" ELSE "open")
  /\ boot' = "up"
  /\ UNCHANGED <<stackVars, boundVars, cfgRead, initialized, linkVars, advertising,
                 bonded, windowVars, configVars, advRequested>>

Boot ==
  ConfigAdvData \/ ConfigScanRsp \/ DropScanRsp \/ HiddDevInit \/ InitFinish \/ FirstWindow

-----------------------------------------------------------------------------
(***************************************************************************)
(* Requests: hid_transport_start_pairing_window and ..._clear_bond, from   *)
(* the taps in the input task and from the web server's task.              *)
(***************************************************************************)
Ask(t, step, opens) ==
  /\ boot = "up" /\ Free(t)
  /\ asks < MaxAsks
  /\ asks' = asks + 1
  /\ call' = [call EXCEPT ![t] = [step |-> step, listed |-> {}, opens |-> opens]]
  /\ UNCHANGED <<stackVars, links, crossed, bootVars, linkVars, advertising, bonded, windowVars,
                 configVars, advRequested>>

AskWindow(t) == Ask(t, IF ClearFirst THEN "clear" ELSE "open", TRUE)
AskClear(t) == Ask(t, "clear", FALSE)

\* hid_ble_backend_clear_bond lists the bonds, or fails to, and removes them
ClearList(t) ==
  /\ call[t].step = "clear"
  /\ \E listed \in {IF ok THEN bonds ELSE {} : ok \in Works("clear")} :
       call' = [call EXCEPT ![t].step = "remove", ![t].listed = listed]
  /\ UNCHANGED <<stackVars, boundVars, bootVars, linkVars, advertising, bonded,
                 windowVars, configVars, advRequested>>

ClearRemove(t) ==
  /\ call[t].step = "remove"
  /\ bonds' = bonds \ call[t].listed
  /\ call' = [call EXCEPT ![t].step = "unbond"]
  /\ UNCHANGED <<radio, link, secure, btc, hidd, boundVars, bootVars, linkVars,
                 advertising, bonded, windowVars, configVars, advRequested>>

Unbond(t) ==
  /\ call[t].step = "unbond"
  /\ bonded' = FALSE
  /\ Goto(t, IF call[t].opens THEN "open" ELSE "none")
  /\ UNCHANGED <<stackVars, boundVars, bootVars, linkVars, advertising, windowVars,
                 configVars, advRequested>>

OpenWindow(t) ==
  /\ call[t].step = "open"
  /\ NewWindow
  /\ advRequested' = TRUE
  /\ Goto(t, "decide")
  /\ UNCHANGED <<stackVars, boundVars, bootVars, linkVars, advertising, bonded,
                 configVars>>

Clear(t) == ClearList(t) \/ ClearRemove(t) \/ Unbond(t)

-----------------------------------------------------------------------------
(***************************************************************************)
(* hid_ble_backend_poll in the input task.                                 *)
(***************************************************************************)
PollExpire ==
  /\ boot = "up" /\ Free("input")
  /\ windowActive /\ left = 0
  /\ NoWindow
  /\ advRequested' = (bonded /\ advRequested)
  /\ Goto("input", IF ~bonded /\ advertising THEN "stop" ELSE "none")
  /\ UNCHANGED <<stackVars, boundVars, bootVars, linkVars, advertising, bonded,
                 configVars>>

StopAdvertising ==
  /\ call["input"].step = "stop"
  /\ radio' = FALSE
  /\ btc' = Append(btc, Event("stopped"))
  /\ Goto("input", "none")
  /\ UNCHANGED <<link, secure, bonds, hidd, boundVars, bootVars, linkVars, advertising,
                 bonded, windowVars, configVars, advRequested>>

-----------------------------------------------------------------------------
(***************************************************************************)
(* ble_gap_event_handler in the Bluetooth task; it forwards connections.   *)
(***************************************************************************)
Handles(type) == Free("btc") /\ btc # <<>> /\ Head(btc).type = type /\ btc' = Tail(btc)

ConfigSet(flag) ==
  /\ Handles(flag)
  /\ cfgDone' = cfgDone \cup {flag}
  /\ advReady' = (cfgRequired \subseteq cfgDone')
  /\ Goto("btc", "decide")
  /\ UNCHANGED <<radio, link, secure, bonds, hidd, boundVars, bootVars, linkVars,
                 advertising, bonded, windowVars, cfgRequired, advRequested>>

AdvReport(type) ==
  /\ Handles(type)
  /\ advertising' = (type = "started")
  /\ UNCHANGED <<radio, link, secure, bonds, hidd, boundVars, bootVars, linkVars, bonded,
                 windowVars, configVars, advRequested, call>>

\* the host whose bond is kept
RemovesOthers ==
  call' = [call EXCEPT !["btc"] =
             [step |-> "others", listed |-> {Head(btc).host}, opens |-> FALSE]]

\* Fault: only a window's host counts as connected.
AuthSuccessInWindow ==
  /\ Handles("auth")
  /\ connected' = windowActive
  /\ NoWindow
  /\ bonded' = TRUE
  /\ RemovesOthers
  /\ UNCHANGED <<radio, link, secure, bonds, hidd, boundVars, bootVars, linkConnected,
                 advertising, configVars, advRequested>>

AuthSuccess ==
  /\ Handles("auth")
  /\ connected' = TRUE
  /\ NoWindow
  /\ bonded' = TRUE
  /\ RemovesOthers
  /\ UNCHANGED <<radio, link, secure, bonds, hidd, boundVars, bootVars, linkConnected,
                 advertising, configVars, advRequested>>

\* Fault: the loop ends one bond early; the list has no order.
KeptButLast(h) == {bonds \cap {h}, bonds}

\* ble_remove_all_other_bonds; without memory it removes none
Kept(h) == {IF ok THEN bonds \cap {h} ELSE bonds : ok \in Works("others")}

RemoveOthers ==
  /\ call["btc"].step = "others"
  /\ \E h \in call["btc"].listed : bonds' \in Kept(h)
  /\ Goto("btc", "none")
  /\ UNCHANGED <<radio, link, secure, btc, hidd, boundVars, bootVars, linkVars,
                 advertising, bonded, windowVars, configVars, advRequested>>

\* the window is opened anew; advertising is left to the disconnection
AuthFailure ==
  /\ Handles("authFail")
  /\ connected' = FALSE
  /\ bonded' = FALSE
  /\ NewWindow
  /\ advRequested' = TRUE
  /\ UNCHANGED <<radio, link, secure, bonds, hidd, boundVars, bootVars, linkConnected,
                 advertising, configVars, call>>

Forward(type) ==
  /\ Handles(type)
  /\ hidd' = Append(hidd, type)
  /\ UNCHANGED <<radio, link, secure, bonds, boundVars, bootVars, linkVars, advertising,
                 bonded, windowVars, configVars, advRequested, call>>

GapEvent ==
  \/ \E flag \in Flags : ConfigSet(flag)
  \/ \E type \in {"started", "notStarted", "stopped"} : AdvReport(type)
  \/ AuthSuccess \/ RemoveOthers \/ AuthFailure
  \/ \E type \in {"connect", "disconnect"} : Forward(type)

-----------------------------------------------------------------------------
(***************************************************************************)
(* ble_hidd_event_callback in the HID device's task.                       *)
(***************************************************************************)
HiddHandles(type) == Free("hidd") /\ hidd # <<>> /\ Head(hidd) = type /\ hidd' = Tail(hidd)

HiddStart ==
  /\ HiddHandles("start")
  /\ Goto("hidd", "decide")
  /\ UNCHANGED <<radio, link, secure, bonds, btc, boundVars, bootVars, linkVars,
                 advertising, bonded, windowVars, configVars, advRequested>>

HiddConnect ==
  /\ HiddHandles("connect")
  /\ linkConnected' = TRUE /\ connected' = FALSE
  /\ advertising' = FALSE
  /\ UNCHANGED <<radio, link, secure, bonds, btc, boundVars, bootVars, bonded, windowVars,
                 configVars, advRequested, call>>

\* Fault: the host counts as connected until the next one is.
HiddDisconnectUntilNext ==
  /\ HiddHandles("disconnect")
  /\ linkConnected' = FALSE /\ advertising' = FALSE
  /\ Goto("hidd", "decide")
  /\ UNCHANGED <<radio, link, secure, bonds, btc, boundVars, bootVars, connected, bonded,
                 windowVars, configVars, advRequested>>

HiddDisconnect ==
  /\ HiddHandles("disconnect")
  /\ linkConnected' = FALSE /\ connected' = FALSE
  /\ advertising' = FALSE
  /\ Goto("hidd", "decide")
  /\ UNCHANGED <<radio, link, secure, bonds, btc, boundVars, bootVars, bonded, windowVars,
                 configVars, advRequested>>

HiddEvent == HiddStart \/ HiddConnect \/ HiddDisconnect

-----------------------------------------------------------------------------
(***************************************************************************)
(* The stack and the hosts.  A host connects to an advertising device that *)
(* has no link; the controller stops advertising for it.  Then it is       *)
(* authenticated, or not, and may leave at any time.                       *)
(***************************************************************************)
Connects(h) ==
  /\ radio /\ link = None /\ links < MaxLinks
  /\ links' = links + 1
  /\ link' = h /\ radio' = FALSE /\ secure' = FALSE
  /\ btc' = Append(btc, Event("connect"))
  /\ UNCHANGED <<bonds, hidd, asks, crossed, bootVars, linkVars, advertising, bonded, windowVars,
                 configVars, advRequested, call>>

Reported == btc = <<>> /\ hidd = <<>>

Authenticates ==
  /\ link # None /\ ~secure
  /\ AuthOvertakes \/ Reported
  /\ secure' = TRUE
  /\ bonds' = bonds \cup {link}
  /\ btc' = Append(btc, [type |-> "auth", host |-> link])
  /\ UNCHANGED <<radio, link, hidd, boundVars, bootVars, linkVars, advertising, bonded,
                 windowVars, configVars, advRequested, call>>

Leaves ==
  /\ link # None
  /\ link' = None /\ secure' = FALSE
  /\ btc' = Append(btc, Event("disconnect"))
  /\ UNCHANGED <<radio, bonds, hidd, boundVars, bootVars, linkVars, advertising, bonded,
                 windowVars, configVars, advRequested, call>>

\* the stack ends a link it could not secure
IsRefused ==
  /\ link # None /\ ~secure
  /\ AuthOvertakes \/ Reported
  /\ link' = None
  /\ btc' = btc \o <<Event("authFail"), Event("disconnect")>>
  /\ UNCHANGED <<radio, secure, bonds, hidd, boundVars, bootVars, linkVars, advertising,
                 bonded, windowVars, configVars, advRequested, call>>

\* a tick is long: everything that is under way is over before the next one
Tick ==
  /\ boot = "up" /\ Quiet
  /\ left > 0
  /\ left' = left - 1
  /\ UNCHANGED <<stackVars, boundVars, bootVars, linkVars, advertising, bonded,
                 windowActive, configVars, advRequested, call>>

TaskStep(t) == Clear(t) \/ OpenWindow(t) \/ Decide(t) \/ StartAdvertising(t)

BleNext ==
  \/ Boot
  \/ \E t \in {"input", "web"} : AskWindow(t) \/ AskClear(t)
  \/ \E t \in BleTasks : TaskStep(t)
  \/ PollExpire \/ StopAdvertising
  \/ GapEvent \/ HiddEvent
  \/ \E h \in Hosts : Connects(h)
  \/ Authenticates \/ Leaves \/ IsRefused
  \/ Tick

(***************************************************************************)
(* The tasks run and the clock goes on; no host has to connect, to         *)
(* authenticate or to leave.                                               *)
(***************************************************************************)
BleFairness ==
  /\ WF_bleVars(Boot) /\ WF_bleVars(Tick)
  /\ WF_bleVars(PollExpire) /\ WF_bleVars(StopAdvertising)
  /\ WF_bleVars(GapEvent) /\ WF_bleVars(HiddEvent)
  /\ \A t \in BleTasks : WF_bleVars(TaskStep(t))

BleSafetySpec == BleInit /\ [][BleNext]_bleVars
BleSpec == BleSafetySpec /\ BleFairness

-----------------------------------------------------------------------------
(***************************************************************************)
(* Bluetooth-Keyboard.md:39-40, single-bond host policy: once the events   *)
(* of an authentication are through, its host is the only one bonded,      *)
(* whatever windows and clearings the two tasks asked for meanwhile.       *)
(***************************************************************************)
AuthUnderWay ==
  \/ call["btc"].step = "others"
  \/ \E i \in 1..Len(btc) : btc[i].type = "auth"

OneBond == AuthUnderWay \/ Cardinality(bonds) <= 1

(***************************************************************************)
(* s_ble.connected is set by one task and cleared by another: when it is   *)
(* up without a link, the disconnection that will clear it is on its way,  *)
(* so reports are not sent to nobody for good.                             *)
(***************************************************************************)
DisconnectUnderWay ==
  \/ \E i \in 1..Len(btc) : btc[i].type = "disconnect"
  \/ \E i \in 1..Len(hidd) : hidd[i] = "disconnect"

ConnectedHasLink == connected /\ link = None => DisconnectUnderWay

(***************************************************************************)
(* A host that has paired can be typed to: hid_ble_backend_is_ready comes  *)
(* true, or its link is gone.                                              *)
(***************************************************************************)
ReadyAfterPairing == secure ~> (initialized /\ connected) \/ ~secure

(***************************************************************************)
(* API-Reference.md:49, the window enables advertising: while advertising  *)
(* is asked for and configured the device does not stay off the air, in    *)
(* whatever order the configuration, the window's end and the events of    *)
(* the last link are handled.  Only one decision is excepted, that of a    *)
(* task that counts on the advertising which the end of the window before  *)
(* is about to stop (hid_ble_backend.c:544); the next one makes up for it. *)
(***************************************************************************)
OnAir == radio \/ link # None \/ ~advRequested

AdvertisesAgain ==
  boot = "up" /\ advReady /\ ~crossed ~> OnAir \/ crossed

(***************************************************************************)
(* API-Reference.md:49 to the letter, without the exception.               *)
(***************************************************************************)
AlwaysAdvertises == boot = "up" /\ advReady ~> OnAir
=============================================================================
