----------------------------- MODULE WifiPortal -----------------------------
(***************************************************************************)
(* main/wifi_portal.c: the connection attempt at boot, the fallback to the *)
(* stored credentials, and the provisioning portal.                        *)
(*                                                                         *)
(* Three tasks share its state: the input task (wifi_portal_start runs in  *)
(* main before that task exists, wifi_portal_poll and wifi_portal_cancel   *)
(* in its loop), the event loop task (wifi_event_handler) and the portal's *)
(* HTTP server (portal_connect_handler).  They hold a mutex for single     *)
(* blocks only, so the steps below are the blocks between two unlocks.     *)
(*                                                                         *)
(* Left out: the 1.5 s bound on the wait for the DNS task, the Wi-Fi mode, *)
(* flags nothing reads (s_cancelled, s_timed_out, s_timeout_requested,     *)
(* s_using_saved_credentials) and all texts.                               *)
(***************************************************************************)
EXTENDS EspWifi

CONSTANTS Networks,     \* credentials a user may submit in the portal
          NoCfg,        \* empty credentials
          MenuCfg,      \* CONFIG_MACROPAD_WIFI_SSID, NoCfg when it is empty
          MaxRetry,     \* MACRO_WIFI_PORTAL_STA_MAX_RETRY
          StaTicks,     \* MACRO_WIFI_PORTAL_STA_CONNECT_TIMEOUT_MS, 0: none
          PortalTicks,  \* MACRO_WIFI_PORTAL_TIMEOUT_SEC, 0: none
          Faults,       \* the calls into ESP-IDF that may return an error
          MaxResets     \* bound of the model: resets of the device

ASSUME CfgAssumption == NoCfg \notin Networks
ASSUME PortalTimeAssumption ==
  MaxRetry \in Nat /\ StaTicks \in Nat /\ PortalTicks \in Nat /\ MaxResets \in Nat
ASSUME FaultAssumption == Faults \subseteq {"configure", "connect", "services"}

VARIABLES
  stored,       \* the station configuration in flash
  provisioned,  \* history: what the portal stored last
  resets,       \* resets so far
  active,             \* s_portal_active
  connected,          \* s_connected
  waiting,            \* s_waiting_for_connect
  stopRequested,      \* s_stop_portal_requested
  cancelRequested,    \* s_cancel_requested
  retries,            \* s_retry_count
  state,              \* s_state
  selected,           \* s_selected_ssid
  attemptTimer,       \* ticks left of the attempt at s_sta_attempt_start_tick
  portalTimer,        \* ticks left of the portal opened at s_portal_start_tick
  bootInProgress,     \* s_boot_connect_in_progress
  fallbackPending,    \* s_boot_saved_fallback_pending
  fallbackAttempted,  \* s_boot_saved_fallback_attempted
  bootSaved,          \* s_boot_saved_cfg
  http,               \* s_httpd: the portal's server is up
  input,              \* where main, and then the input task, is
  handler,            \* what the event loop task does after its unlock
  call                \* start_sta_connect in the input and the server task

flashVars == <<stored, provisioned, resets>>
requestVars == <<stopRequested, cancelRequested>>
attemptVars == <<waiting, retries, selected, attemptTimer>>
bootVars == <<bootInProgress, fallbackPending, fallbackAttempted, bootSaved>>
portalVars == <<active, portalTimer, http>>
vars == <<driverVars, flashVars, connected, state, requestVars, attemptVars,
          bootVars, portalVars, input, handler, call>>

Cfgs == Networks \cup {NoCfg, MenuCfg}

PortalStates == {"idle", "sta_connecting", "portal_active", "portal_connecting",
                 "connected", "failed"}

Callers == {"input", "http"}

NoCall == [step |-> "none", cfg |-> NoCfg, startedNow |-> FALSE]
NewCall(cfg) == [step |-> "configure", cfg |-> cfg, startedNow |-> FALSE]

TypeOK ==
  /\ DriverTypeOK
  /\ stored \in Cfgs /\ provisioned \in Cfgs /\ resets \in 0..MaxResets
  /\ active \in BOOLEAN /\ connected \in BOOLEAN /\ waiting \in BOOLEAN
  /\ stopRequested \in BOOLEAN /\ cancelRequested \in BOOLEAN
  /\ retries \in 0..MaxRetry
  /\ state \in PortalStates
  /\ selected \in Cfgs
  /\ attemptTimer \in Nat /\ portalTimer \in Nat
  /\ bootInProgress \in BOOLEAN /\ fallbackPending \in BOOLEAN
  /\ fallbackAttempted \in BOOLEAN /\ bootSaved \in Cfgs
  /\ http \in BOOLEAN
  /\ input \in {"boot", "boot_connect", "mark_boot", "loop", "saved_connect",
                "services", "announce", "show", "closing", "stopping",
                "clear", "settle"}
  /\ handler \in {"none", "connect", "report_failure", "report_ip"}
  /\ call \in [Callers -> [step : {"none", "configure", "arm", "connect"},
                           cfg : Cfgs, startedNow : BOOLEAN]]

Init ==
  /\ DriverInit
  /\ stored \in Networks \cup {NoCfg}
  /\ provisioned = stored
  /\ resets = 0
  /\ active = FALSE /\ connected = FALSE /\ waiting = FALSE
  /\ stopRequested = FALSE /\ cancelRequested = FALSE
  /\ retries = 0 /\ state = "idle" /\ selected = NoCfg
  /\ attemptTimer = StaTicks /\ portalTimer = 0
  /\ bootInProgress = FALSE /\ fallbackPending = FALSE
  /\ fallbackAttempted = FALSE /\ bootSaved = NoCfg
  /\ http = FALSE /\ input = "boot" /\ handler = "none"
  /\ call = [c \in Callers |-> NoCall]

(***************************************************************************)
(* A reset, of any cause, at any moment: only the flash survives.          *)
(***************************************************************************)
Reset ==
  /\ resets < MaxResets
  /\ resets' = resets + 1
  /\ UNCHANGED <<stored, provisioned>>
  /\ DriverReset
  /\ active' = FALSE /\ connected' = FALSE /\ waiting' = FALSE
  /\ stopRequested' = FALSE /\ cancelRequested' = FALSE
  /\ retries' = 0 /\ state' = "idle" /\ selected' = NoCfg
  /\ attemptTimer' = StaTicks /\ portalTimer' = 0
  /\ bootInProgress' = FALSE /\ fallbackPending' = FALSE
  /\ fallbackAttempted' = FALSE /\ bootSaved' = NoCfg
  /\ http' = FALSE /\ input' = "boot" /\ handler' = "none"
  /\ call' = [c \in Callers |-> NoCall]

-----------------------------------------------------------------------------
(***************************************************************************)
(* start_sta_connect, in the task c.  Its first block hands the            *)
(* credentials to the driver, which writes them to flash, and starts the   *)
(* driver; each of those calls may fail and end the function.              *)
(***************************************************************************)
Return(c) == call' = [call EXCEPT ![c] = NoCall]

Failed(c) ==
  /\ Return(c)
  /\ input' = IF c = "input" THEN "loop" ELSE input

\* Fault: WIFI_STORAGE_RAM, the driver keeps the credentials in RAM only.
ConfigureInRam(c) ==
  /\ call[c].step = "configure"
  /\ EnsureStarted
  /\ stored' = stored
  /\ provisioned' = IF c = "http" THEN call[c].cfg ELSE provisioned
  /\ call' = [call EXCEPT ![c].step = "arm", ![c].startedNow = ~wifiStarted]
  /\ UNCHANGED <<resets, connected, state, requestVars, attemptVars, bootVars,
                 portalVars, input, handler>>

Configure(c) ==
  /\ call[c].step = "configure"
  /\ EnsureStarted
  /\ stored' = call[c].cfg
  /\ provisioned' = IF c = "http" THEN stored' ELSE provisioned
  /\ call' = [call EXCEPT ![c].step = "arm", ![c].startedNow = ~wifiStarted]
  /\ UNCHANGED <<resets, connected, state, requestVars, attemptVars, bootVars,
                 portalVars, input, handler>>

ConfigureFails(c) ==
  /\ "configure" \in Faults
  /\ call[c].step = "configure"
  /\ stored' \in {stored, call[c].cfg}
  /\ provisioned' = IF c = "http" THEN stored' ELSE provisioned
  /\ Failed(c)
  /\ UNCHANGED <<driverVars, resets, connected, state, requestVars, attemptVars,
                 bootVars, portalVars, handler>>

Arm(c) ==
  /\ call[c].step = "arm"
  /\ waiting' = TRUE
  /\ retries' = 0
  /\ connected' = FALSE
  /\ stopRequested' = FALSE
  /\ attemptTimer' = StaTicks
  /\ selected' = call[c].cfg
  /\ call' = [call EXCEPT ![c].step = "connect"]
  /\ UNCHANGED <<driverVars, flashVars, state, cancelRequested, bootVars,
                 portalVars, input, handler>>

AfterConnect == IF input = "boot_connect" THEN "mark_boot" ELSE "loop"

(***************************************************************************)
(* The state is shown and the driver told to join, except when the driver  *)
(* was started here: then the handler of STA_START does it.                *)
(***************************************************************************)
Go(c) ==
  /\ call[c].step = "connect"
  /\ state' = IF c = "http" THEN "portal_connecting" ELSE "sta_connecting"
  /\ \/ ~call[c].startedNow /\ JoinWith(events)
     \/ (call[c].startedNow \/ "connect" \in Faults) /\ UNCHANGED driverVars
  /\ Return(c)
  /\ input' = IF c = "input" THEN AfterConnect ELSE input
  /\ UNCHANGED <<flashVars, connected, requestVars, attemptVars, bootVars,
                 portalVars, handler>>

StartStaConnect(c) == Configure(c) \/ ConfigureFails(c) \/ Arm(c) \/ Go(c)

(***************************************************************************)
(* portal_connect_handler: a browser submits the form.                     *)
(***************************************************************************)
Submit(cfg) ==
  /\ http
  /\ input # "stopping"
  /\ call["http"].step = "none"
  /\ call' = [call EXCEPT !["http"] = NewCall(cfg)]
  /\ UNCHANGED <<driverVars, flashVars, connected, state, requestVars,
                 attemptVars, bootVars, portalVars, input, handler>>

-----------------------------------------------------------------------------
(***************************************************************************)
(* wifi_portal_start, in main, before the input task runs.                 *)
(***************************************************************************)
BootWithMenu ==
  /\ MenuCfg # NoCfg
  /\ fallbackPending' = (stored \notin {NoCfg, MenuCfg})
  /\ bootSaved' = IF stored \in {NoCfg, MenuCfg} THEN NoCfg ELSE stored
  /\ call' = [call EXCEPT !["input"] = NewCall(MenuCfg)]
  /\ input' = "boot_connect"

BootWithStored ==
  /\ MenuCfg = NoCfg /\ stored # NoCfg
  /\ call' = [call EXCEPT !["input"] = NewCall(stored)]
  /\ input' = "boot_connect"
  /\ UNCHANGED <<fallbackPending, bootSaved>>

BootWithNothing ==
  /\ MenuCfg = NoCfg /\ stored = NoCfg
  /\ input' = "services"
  /\ UNCHANGED <<fallbackPending, bootSaved, call>>

WifiPortalStart ==
  /\ input = "boot"
  /\ BootWithMenu \/ BootWithStored \/ BootWithNothing
  /\ UNCHANGED <<driverVars, flashVars, connected, state, requestVars,
                 attemptVars, bootInProgress, fallbackAttempted, portalVars,
                 handler>>

MarkBoot ==
  /\ input = "mark_boot"
  /\ bootInProgress' = TRUE
  /\ input' = "loop"
  /\ UNCHANGED <<driverVars, flashVars, connected, state, requestVars,
                 attemptVars, fallbackPending, fallbackAttempted, bootSaved,
                 portalVars, handler, call>>

-----------------------------------------------------------------------------
(***************************************************************************)
(* wifi_event_handler: the event is taken from the queue with the block    *)
(* under the mutex; what follows the unlock is a step of its own.          *)
(***************************************************************************)
Takes(event) == handler = "none" /\ events # <<>> /\ Head(events) = event

Handled == events' = Tail(events) /\ UNCHANGED <<wifiStarted, link>>

StaStart ==
  /\ Takes("sta_start")
  /\ IF waiting THEN JoinWith(Tail(events)) ELSE Handled
  /\ UNCHANGED <<flashVars, connected, state, requestVars, attemptVars,
                 bootVars, portalVars, input, handler, call>>

ShouldRetry == waiting /\ retries < MaxRetry

\* Fault: a disconnect outside an attempt leaves the flag alone.
DisconnectedIfWaiting ==
  /\ Takes("disconnected")
  /\ Handled
  /\ connected' = (connected /\ ~waiting)
  /\ waiting' = FALSE
  /\ handler' = "report_failure"
  /\ UNCHANGED <<flashVars, state, requestVars, retries, selected, attemptTimer,
                 bootVars, portalVars, input, call>>

\* Fault: the retry is not counted.
RetriesUncounted == retries

RetriesAfter == IF ShouldRetry THEN retries + 1 ELSE retries

StaDisconnected ==
  /\ Takes("disconnected")
  /\ Handled
  /\ connected' = FALSE
  /\ retries' = RetriesAfter
  /\ waiting' = ShouldRetry
  /\ handler' = IF ShouldRetry THEN "connect" ELSE "report_failure"
  /\ UNCHANGED <<flashVars, state, requestVars, selected, attemptTimer, bootVars,
                 portalVars, input, call>>

Retry ==
  /\ handler = "connect"
  /\ handler' = "none"
  /\ JoinWith(events)
  /\ UNCHANGED <<flashVars, connected, state, requestVars, attemptVars,
                 bootVars, portalVars, input, call>>

ReportFailure ==
  /\ handler = "report_failure"
  /\ handler' = "none"
  /\ state' = IF active THEN "portal_active" ELSE "failed"
  /\ UNCHANGED <<driverVars, flashVars, connected, requestVars, attemptVars,
                 bootVars, portalVars, input, call>>

GotIp ==
  /\ Takes("got_ip")
  /\ Handled
  /\ connected' = TRUE
  /\ waiting' = FALSE
  /\ retries' = 0
  /\ bootInProgress' = FALSE
  /\ fallbackPending' = FALSE
  /\ fallbackAttempted' = FALSE
  /\ stopRequested' = (stopRequested \/ active)
  /\ handler' = "report_ip"
  /\ UNCHANGED <<flashVars, state, cancelRequested, selected, attemptTimer,
                 bootSaved, portalVars, input, call>>

ReportIp ==
  /\ handler = "report_ip"
  /\ handler' = "none"
  /\ state' = "connected"
  /\ UNCHANGED <<driverVars, flashVars, connected, requestVars, attemptVars,
                 bootVars, portalVars, input, call>>

WifiEventHandler ==
  StaStart \/ StaDisconnected \/ Retry \/ ReportFailure \/ GotIp \/ ReportIp

-----------------------------------------------------------------------------
(***************************************************************************)
(* wifi_portal_poll: what it read under the mutex decides for a branch;    *)
(* nothing is read again before the branch acts.                           *)
(***************************************************************************)
\* Fault: the timeout spares a portal with an attempt under way.
PortalTimedOutUnlessBusy ==
  active /\ PortalTicks > 0 /\ portalTimer = 0 /\ ~waiting

PortalTimedOut == active /\ PortalTicks > 0 /\ portalTimer = 0

PollStop ==
  /\ input = "loop"
  /\ stopRequested
  /\ stopRequested' = FALSE
  /\ input' = "closing"
  /\ UNCHANGED <<driverVars, flashVars, connected, state, cancelRequested,
                 attemptVars, bootVars, portalVars, handler, call>>

PollClose ==
  /\ input = "loop"
  /\ ~stopRequested
  /\ cancelRequested \/ PortalTimedOut
  /\ cancelRequested' = FALSE
  /\ input' = "closing"
  /\ UNCHANGED <<driverVars, flashVars, connected, state, stopRequested,
                 attemptVars, bootVars, portalVars, handler, call>>

Failure == ~waiting /\ state = "failed"

AttemptTimedOut == StaTicks > 0 /\ attemptTimer = 0

\* Fault: only a failure the driver reported counts.
BootFailedIfReported == ~active /\ bootInProgress /\ ~connected /\ Failure

BootFailed ==
  ~active /\ bootInProgress /\ ~connected /\ (AttemptTimedOut \/ Failure)

\* Fault: the stored credentials are tried after a reported failure only.
MayTrySavedIfReported == fallbackPending /\ ~fallbackAttempted /\ Failure

MayTrySaved == fallbackPending /\ ~fallbackAttempted

NoRequest == ~stopRequested /\ ~cancelRequested

PollFallback ==
  /\ input = "loop" /\ NoRequest /\ BootFailed /\ MayTrySaved
  /\ fallbackAttempted' = TRUE
  /\ fallbackPending' = FALSE
  /\ call' = [call EXCEPT !["input"] = NewCall(bootSaved)]
  /\ input' = "saved_connect"
  /\ UNCHANGED <<driverVars, flashVars, connected, state, requestVars,
                 attemptVars, bootInProgress, bootSaved, portalVars, handler>>

PollPortal ==
  /\ input = "loop" /\ NoRequest /\ BootFailed /\ ~MayTrySaved
  /\ bootInProgress' = FALSE
  /\ input' = "services"
  /\ UNCHANGED <<driverVars, flashVars, connected, state, requestVars,
                 attemptVars, fallbackPending, fallbackAttempted, bootSaved,
                 portalVars, handler, call>>

WifiPortalPoll == PollStop \/ PollClose \/ PollFallback \/ PollPortal

(***************************************************************************)
(* wifi_portal_cancel, on three taps while the portal is active.           *)
(***************************************************************************)
WifiPortalCancel ==
  /\ input = "loop"
  /\ active /\ ~cancelRequested
  /\ cancelRequested' = TRUE
  /\ UNCHANGED <<driverVars, flashVars, connected, state, stopRequested,
                 attemptVars, bootVars, portalVars, input, handler, call>>

-----------------------------------------------------------------------------
(***************************************************************************)
(* portal_start_internal: access point, server and DNS; then the block     *)
(* that marks the portal active, whatever happened meanwhile.              *)
(***************************************************************************)
StartServices ==
  /\ input = "services"
  /\ EnsureStarted
  /\ http' = TRUE
  /\ input' = "announce"
  /\ UNCHANGED <<flashVars, connected, state, requestVars, attemptVars, bootVars,
                 active, portalTimer, handler, call>>

\* Fault: the errors of the servers are ignored.
ServicesFailUnnoticed ==
  /\ "services" \in Faults
  /\ input = "services"
  /\ EnsureStarted
  /\ http' = http
  /\ input' = "announce"
  /\ UNCHANGED <<flashVars, connected, state, requestVars, attemptVars, bootVars,
                 active, portalTimer, handler, call>>

\* one of the calls returned an error: the later ones are not made
ServicesFail ==
  /\ "services" \in Faults
  /\ input = "services"
  /\ \/ UNCHANGED driverVars /\ http' = http
     \/ EnsureStarted /\ http' \in {http, TRUE}
  /\ input' = "loop"
  /\ UNCHANGED <<flashVars, connected, state, requestVars, attemptVars, bootVars,
                 active, portalTimer, handler, call>>

Announce ==
  /\ input = "announce"
  /\ active' = TRUE
  /\ portalTimer' = PortalTicks
  /\ waiting' = FALSE
  /\ retries' = 0
  /\ stopRequested' = FALSE
  /\ cancelRequested' = FALSE
  /\ input' = "show"
  /\ UNCHANGED <<driverVars, flashVars, connected, state, selected, attemptTimer,
                 bootVars, http, handler, call>>

Show ==
  /\ input = "show"
  /\ state' = "portal_active"
  /\ input' = "loop"
  /\ UNCHANGED <<driverVars, flashVars, connected, requestVars, attemptVars,
                 bootVars, portalVars, handler, call>>

(***************************************************************************)
(* portal_stop_internal: until the DNS task is gone the server still takes *)
(* requests; httpd_stop then waits for a handler that is running.          *)
(***************************************************************************)
StopDns ==
  /\ input = "closing"
  /\ input' = "stopping"
  /\ UNCHANGED <<driverVars, flashVars, connected, state, requestVars, attemptVars,
                 bootVars, portalVars, handler, call>>

StopServices ==
  /\ input = "stopping"
  /\ call["http"].step = "none"
  /\ http' = FALSE
  /\ input' = "clear"
  /\ UNCHANGED <<driverVars, flashVars, connected, state, requestVars, attemptVars,
                 bootVars, active, portalTimer, handler, call>>

Clear ==
  /\ input = "clear"
  /\ active' = FALSE
  /\ cancelRequested' = FALSE
  /\ input' = "settle"
  /\ UNCHANGED <<driverVars, flashVars, connected, state, stopRequested,
                 attemptVars, bootVars, portalTimer, http, handler, call>>

Settle ==
  /\ input = "settle"
  /\ state' = IF connected THEN "connected" ELSE "idle"
  /\ input' = "loop"
  /\ UNCHANGED <<driverVars, flashVars, connected, requestVars, attemptVars,
                 bootVars, portalVars, handler, call>>

InputTask ==
  \/ WifiPortalStart \/ MarkBoot
  \/ WifiPortalPoll
  \/ StartServices \/ ServicesFail \/ Announce \/ Show
  \/ StopDns \/ StopServices \/ Clear \/ Settle

-----------------------------------------------------------------------------
Driver ==
  /\ Joins \/ JoinFails \/ GetsAddress \/ Drops
  /\ UNCHANGED <<flashVars, connected, state, requestVars, attemptVars, bootVars,
                 portalVars, input, handler, call>>

Countdown(t) == IF t > 0 THEN t - 1 ELSE 0

Tick ==
  /\ attemptTimer > 0 \/ portalTimer > 0
  /\ attemptTimer' = Countdown(attemptTimer)
  /\ portalTimer' = Countdown(portalTimer)
  /\ UNCHANGED <<driverVars, flashVars, connected, state, requestVars, waiting,
                 retries, selected, bootVars, active, http, input, handler, call>>

Next ==
  \/ InputTask
  \/ WifiPortalCancel
  \/ WifiEventHandler
  \/ \E cfg \in Networks : Submit(cfg)
  \/ \E c \in Callers : StartStaConnect(c)
  \/ Driver
  \/ Tick
  \/ Reset

(***************************************************************************)
(* The tasks run, the clock ticks, and the driver associates or reports    *)
(* that it cannot.  Nothing promises an address: users, networks and       *)
(* resets do as they like.                                                 *)
(***************************************************************************)
Fairness ==
  /\ WF_vars(InputTask)
  /\ WF_vars(WifiEventHandler)
  /\ \A c \in Callers : WF_vars(StartStaConnect(c))
  /\ WF_vars(Driver /\ link = "joining")
  /\ WF_vars(Tick)

SafetySpec == Init /\ [][Next]_vars
Spec == SafetySpec /\ Fairness

-----------------------------------------------------------------------------
(***************************************************************************)
(* The flag that starts the web service never outlives the link unnoticed: *)
(* while the module says connected, the association stands or its loss is  *)
(* already queued for the handler.                                         *)
(***************************************************************************)
ConnectedMeansLink ==
  connected => link = "up" \/ "disconnected" \in ToSet(events)

(***************************************************************************)
(* A portal that is advertised can be reached: the server is up as long as *)
(* the portal is active, until the task that closes it has it down.        *)
(***************************************************************************)
ServedWhileActive == active /\ input # "clear" => http

(***************************************************************************)
(* The portal is the last resort: it never opens while the stored          *)
(* credentials of this boot still wait for their attempt (Troubleshooting  *)
(* section 7), even when the attempt before ends in the middle of a poll.  *)
(***************************************************************************)
PortalIsLastResort ==
  [][~active /\ active' => ~(fallbackPending /\ ~fallbackAttempted)]_vars

(***************************************************************************)
(* A portal ends: cancelled, timed out or stopped, whatever is submitted   *)
(* to it again and again (wifi_portal.timeout_sec).                        *)
(***************************************************************************)
PortalEnds == active ~> ~active

(***************************************************************************)
(* An attempt ends: the module waits for a connection for ever only while  *)
(* the station stays associated and gets no address, for which the driver  *)
(* has no event and a submitted attempt no timeout; not when the driver    *)
(* reports its start before the attempt is armed, so that nobody tells it  *)
(* to join, and not across retries and new submissions.                    *)
(***************************************************************************)
AttemptsEnd == <>[]waiting => <>[](link = "associated")

(***************************************************************************)
(* Boot ends connected or in the portal, unless the device is reset first. *)
(***************************************************************************)
BootResolves ==
  \A n \in 0..MaxResets :
    input = "boot" /\ resets = n ~> connected \/ active \/ resets # n

(***************************************************************************)
(* Wi-Fi-Provisioning.md:27: on IP_EVENT_STA_GOT_IP the portal auto-stops. *)
(* Between two polls, a portal that is active while the station is         *)
(* connected has been asked to stop.                                       *)
(***************************************************************************)
StopFollowsConnection ==
  connected /\ active /\ input = "loop" => stopRequested

(***************************************************************************)
(* Wi-Fi-Provisioning.md:70-71: credentials submitted in the portal are    *)
(* reused on the next boot, after the menuconfig network if there is one.  *)
(* So no boot decides for the portal before it has tried them.             *)
(***************************************************************************)
ProvisionedReused ==
  [][input # "services" /\ input' = "services" /\ provisioned # NoCfg
       => selected = provisioned]_vars
=============================================================================
