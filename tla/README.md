# TLA+ models of the ESP32 macro keyboard firmware

Specifications, model-checking configurations and machine-checked proofs for the
firmware in `src/main`. Paths such as `ota_manager.c:496` are relative to
`src/main`; `PROJECT.json` maps every definition to its lines.

## 1. The system

An ESP32-S3 macro pad: twelve keys, an encoder, a touch slider, an OLED, a
buzzer. It is a USB *or* a BLE keyboard, has a Wi-Fi provisioning portal, a web
service, a Home Assistant client and updates its firmware over the network. The
tasks that share state are

| task | runs | shares |
|---|---|---|
| main (`app_main`) | the init functions, then ends | everything, before the others exist |
| input task | `input_task`, a pass every 5 ms: keys, taps, touch, LEDs, then `buzzer_update`, `hid_transport_poll`, `ota_manager_poll`, `wifi_portal_poll`, `web_service_poll` | all components |
| display task | `display_task`, every 200 ms, reads the states of the others | snapshots |
| event loop (`sys_evt`) | `wifi_event_handler`, the SNTP start | Wi-Fi portal, SNTP flags |
| HTTP servers | the portal's and the web service's handlers | portal, layer, buzzer, OTA, mode switch |
| OTA worker | `ota_worker_task`, one per update | `s_ota` |
| Home Assistant worker | `ha_worker_task` | its queue, `s_ha` |
| BT host task | GAP and HIDD callbacks | `s_ble` |

### Components

| component | state | operations | hard behaviour | what makes it correct | status |
|---|---|---|---|---|---|
| OTA manager (`ota_manager.c`) | `s_ota` under a mutex; slots and otadata in flash | `init`, `start_update`, the worker, `poll`, `handle_encoder_taps` | a reset at every step, retries, a timeout, three tasks | an image on trial is supervised, ends accepted or rolled back, the target of the rollback stays intact; downloads end | modelled, proved |
| Wi-Fi portal (`wifi_portal.c`) | flags under a mutex that covers single blocks; the station configuration in flash | `start`, `poll`, `cancel`, event handler, form handler | decisions on snapshots, events out of step with the attempts, failing calls | boot ends connected or in the portal, attempts and portals end, credentials survive | modelled, proved |
| HID transport (`hid_transport.c`, `keyboard_mode_store.c`, `hid_usb_backend.c`) | `s_ctx` without a lock; the mode in NVS | `init`, `request_mode_switch`, `poll` | stores seen one by one, failing NVS and BLE, the tick counter's wrap | exactly one keyboard; a switch is stored before it is announced, and is applied | modelled, proved |
| Key scan and reports (`main.c`, `macropad_hid.c`) | debouncers, `s_key_pressed`, `s_active_layer` | the scan, `debounce_update`, `set_active_layer`, the reports | blocking sends in the scan, two tasks change the layer, lost and full reports | the host holds what is pressed on the active layer; edges are debounced | modelled, proved |
| BLE HID backend (`hid_ble_backend.c`) | `s_ble` under a mutex; the stack's bonds and radio | pairing window, advertising, bonds, GAP and HIDD callbacks | calls made after the unlock, callbacks of two tasks in any order | one bond; connected means a link; a paired host can be typed to; advertising comes back | modelled, proved |
| Encoder (`main.c`) | tap counter and its clock, the delayed single tap; the pulse counter | grouping, dispatch, rotation | windows sampled by the passes, states that change in other tasks, pulses while the counter is cleared | presses are counted in their bursts, steps were turned | modelled, proved |
| Touch slider (`touch_slider.c`) | pads, contact session, hold | `update` | contacts that wander, pause, begin on both sides, follow closely | a gesture was a slide, a contact is one at most, repeats belong to one | modelled, proved |
| SNTP start (`main.c`) | three unlocked flags and a deadline | event handler, `sntp_start_if_pending`, the start task | three tasks over flags read one by one | started once, and at last | modelled, proved |
| Web service (`web_service.c`) | server handle, start and retry deadlines; the request under way | `poll`, handlers | start and stop against portal and link, failing calls, chains of early answers | no server is left over, it follows the network, an answer is true, what is refused is not done | modelled, proved |
| Home Assistant (`home_assistant.c`) | queue of 24, the worker's event, retry count, display line | enqueue from every task, worker | full queue, retries behind newer events, answers lost | the client is a lossy channel; nothing stays queued; the display follows | modelled, proved |
| Log store (`log_store.c`) | accumulator, ring of 240 lines | `vprintf` hook, copies | full accumulator, ring that overwrites | what was logged last can be read, in order | modelled, proved |
| Buzzer (`buzzer.c`) | ring of 16 tones, phase, startup stream | `play`, `update`, `toggle`, `set_enabled` | two tasks without a lock, an end that is found in three places | the ring is a queue, disabled is silent, tones end | modelled, proved |
| LEDs, status lines (`main.c`) | the last frame | output computed from the state of the moment | – | – | not modelled |
| Display (`main.c`, `oled.c`) | time of the last activity, framebuffer | rendering snapshots | – | – | not modelled |
| Keymap and generators (`config/`, `tools/`) | none at run time | build-time text transformation | none | – | constants of the models |

The hazards behind the properties are listed in `PROJECT.json`, each at its line.

### Interactions

* The input task drives every component by calls; it is the only task that
  restarts the device for a mode switch or a rollback.
* The web service's handlers call into the layer, the buzzer, the OTA manager
  and the HID transport from another task.
* `wifi_event_handler` decides for the portal what the poll acts on later.
* A restart by one component is a reset for all the others. That is why `Reset`
  is an action, enabled in every state, in the three models with persistent
  state: a mode switch (`main.c:813`) is one of the causes of a reset in the
  middle of an OTA verification.

## 2. Modules

```
EspOta         otadata and bootloader (external)
FirmwareTrial  what an update promises (abstract)
OtaManager     EXTENDS EspOta;  Trial == INSTANCE FirmwareTrial
  MCOtaManager, OtaManager_proofs
EspWifi        station driver and event queue (external)
WifiPortal     EXTENDS EspWifi
  MCWifiPortal, WifiPortal_proofs
HidTransport
  MCHidTransport, HidTransport_proofs
KeyReports
  MCKeyReports, KeyReports_proofs
BleBackend
  MCBleBackend, BleBackend_proofs
HaChannel      what the Home Assistant client promises (abstract)
HomeAssistant  Channel == INSTANCE HaChannel;  HomeAssistant_proofs
WebService, SntpStart, LogStore
Buzzer, EncoderInput, TouchSlider;  InputDevices_proofs
  MCServices       EXTENDS the last seven
  Services_proofs  the network's services, then MCServices; EXTENDS
                   HomeAssistant_proofs and InputDevices_proofs
```

`MCServices` puts components side by side that share nothing but the processor.
Their product would say no more than each of them, so a behaviour of it is a
behaviour of one component, `focus`, while the others rest.

The definitions marked *Fault* are variants of the definition that follows them,
wrong in the way a plausible slip would be. No action uses them. `PROJECT.json`
pairs each with the property that notices it.

### OtaManager

`image`, `imgState` and `selected` are the flash: the image in each of the two
slots of `partitions_8mb_ota.csv`, the otadata states, and the record that is
newest. They survive `Reset`. `state`, `pendingVerify`, `retries` are the fields
of `s_ota`. `timer` is the distance to the deadline that belongs to the state.
`worker`, `restarting` and `input` are program counters: the worker before and in
the transfer, the worker in its 250 ms delay, the input task past the unlock
that precedes a rollback or a restart.

| action | code |
|---|---|
| `StartUpdate` | `ota_manager_start_update`, in the HTTP server's task |
| `WorkerBegin`, `WorkerFinish`, `WorkerAbort`, `WorkerRestart` | `ota_worker_task` |
| `PollSelfCheck`, `PollTimeout`, `PollBanner`, then `Rollback` | `ota_manager_poll` |
| `EncoderTaps`, then `ConfirmRestart` | `ota_manager_handle_encoder_taps` |
| `Reset`, `ManagerInit` | the bootloader and `ota_manager_init` |

A new image gets one boot as `pending_verify`. If it goes down before a verdict
the bootloader marks it aborted and picks the other slot. A self-check that keeps
failing does *not* roll back: after the retries the manager waits for the user
just the same (`ota_manager.c:422-438`), and only the timeout rolls back. With a
timeout of 0 nothing does. A confirmation takes its own reading of the clock
(`ota_manager.c:544`), later than the pass's, so that the poll of the same pass
may find the banner's time to be over at once (`BannerAfterConfirm`).

`FirmwareTrial` has two variables, the accepted firmware and the one on trial.
`OtaManager` implements it with `good` and `trial` read off the slots. TLC checks
the whole of it including its fairness, the proof covers the safety part.

### WifiPortal

The mutex is held for single blocks, so an action is the code between two
unlocks. `input`, `handler` and `call` say between which blocks the input task,
the event loop task and the two callers of `start_sta_connect` are. `EspWifi` is
the driver: it associates, gets an address or does not, fails and loses the link
by itself and appends an event to a queue which the handler empties later. A
station that is associated and gets no address causes no event. `stored` is the
station configuration in flash (`WIFI_STORAGE_FLASH`). `provisioned` is a history variable: what the portal
stored last.

| action | code |
|---|---|
| `BootWithMenu`, `BootWithStored`, `BootWithNothing`, `MarkBoot` | `wifi_portal_start` |
| `Configure`, `ConfigureFails`, `Arm`, `Go` | `start_sta_connect` |
| `StaStart`, `StaDisconnected`, `Retry`, `ReportFailure`, `GotIp`, `ReportIp` | `wifi_event_handler` |
| `PollStop`, `PollClose`, `PollFallback`, `PollPortal` | `wifi_portal_poll` |
| `StartServices`, `ServicesFail`, `Announce`, `Show` | `portal_start_internal` |
| `StopServices`, `Clear`, `Settle` | `portal_stop_internal` |
| `Submit`, `WifiPortalCancel` | the form handler; three taps |

### HidTransport

`stored` is the NVS key, `phase` the progress of `hid_transport_init`, the other
variables are the fields of `s_ctx`. A request for the other mode is a sequence
of steps, because the function has no lock: the save, then the stores of the
flag, the target and the deadline. A request for the present mode is answered
with `ESP_OK` and changes nothing, a pending switch included, so that it is no
action. A pass of the input task reads the clock once (`now`), ends in `PollWaits`
or `PollRestart`, and there is none while that task is inside a request of its
own. The clock counts ticks modulo `TickMod`, a pass may take up to `PassTicks` of
them, and `Due` is the plain comparison of the code. A deadline among the last
ticks before the wrap may therefore be skipped, and lies in the future again:
`SwitchApplies` asks for a deadline that no pass can skip (`PassMeetsDeadline`),
and `MCHidWrap.cfg` shows what happens to the others. `age` is a history variable:
ticks since the deadline was set.

### KeyReports

`debounce` holds the debouncers (raw level, stable level, time of the last
change), `input` the place of the input task in its pass with the key, the action
looked up and the `keyboard_state_changed` flag, `change` the place of each of
the two tasks in `set_active_layer` and in building and sending a report, `host`
the usages of the report the host took last. `Look` and `Sample` are two actions
since `s_active_layer` may change between the lookup of the action
(`main.c:641`) and the sampling. `SendConsumer` stands for the blocking consumer
report and lets time pass while `now`, the reading the debouncing goes by, stays
as it was. `Init` takes any levels of the pins: `init_keys` (`main.c:480-487`) makes
what they read the pressed keys and sends no report. `lost`, `behind` and
`steady` are history variables: the last report was not taken; a key held at
power-up or a change of the layer by the web server's task may have left the
host with something else than what is pressed, until the input task has built its
next report; for how long a key has read the same. `HostFollowsKeys` holds but for
the two former. `EdgesAreDebounced` says by how much the debounce time may be
missed: by what the scan may have spent on the consumer keys in front of a key
(`ScanDelay`). That it is missed at all is the finding `key_stale_clock`.

### BleBackend

The mutex is held for blocks of assignments and never across a call of the stack,
so that what a block decided (`Decide`, `PollExpire`) is carried out in a later
step (`StartAdvertising`, `StopAdvertising`). `call` says where each of the five
tasks is: `app_main`, the input task, the web server's, the Bluetooth task (GAP
events, queue `btc`) and the HID device's (queue `hidd`). `radio`, `link`,
`secure` and `bonds` are the stack's. `crossed` is a history variable: what was
last decided about advertising, or started, was decided while the end of the
window before was about to stop it (`hid_ble_backend.c:544-551`). The next decision
that nothing crosses makes up for it, and only until then `AdvertisesAgain` claims
nothing.

| action | code |
|---|---|
| `ConfigAdvData`, `ConfigScanRsp`, `DropScanRsp`, `HiddDevInit`, `InitFinish` | `hid_ble_backend_init` |
| `FirstWindow` | `hid_transport_init` |
| `AskWindow`, `AskClear`, `ClearList`, `ClearRemove`, `Unbond`, `OpenWindow` | `hid_ble_backend_start_pairing_window`, `..._clear_bond` |
| `Decide`, `StartAdvertising` | `ble_start_adv_if_possible` |
| `PollExpire`, `StopAdvertising` | `hid_ble_backend_poll` |
| `ConfigSet`, `AdvReport`, `AuthSuccess`, `RemoveOthers`, `AuthFailure`, `Forward` | `ble_gap_event_handler` |
| `HiddStart`, `HiddConnect`, `HiddDisconnect` | `ble_hidd_event_callback` |
| `Connects`, `Authenticates`, `Leaves`, `IsRefused` | hosts and stack |

### WebService

`servers` counts what listens on the port, which `s_ws` may know of (`running`)
or not. `wait` is the distance to `next_start_retry_tick`. `request` is the
one the server's task handles; a route is described by what its handler checks
(`Handler`) and each early return is a step that answers. `web_auth_guard` (every
route) and `ensure_control_ready` (the control routes) return what *sending* the
refusal returned, so that a handler may go on after a 401, a 403 or a 503
(`Refuses`): for the 403 that is the finding `web_refused_request`. `permitted` is
a history variable, of which `AnsweredOnce` says that a request no guard refuses is
answered once, and with success exactly if it was carried out. The consumer route
is `silent`: `web_control_send_consumer` (`main.c:593-597`) drops what the report's
sending returned, so that its 200 only says that the usage was handed over.
`ControlSettings` are the settings the requests meet: control enabled or not, its
callbacks registered or not.

| action | code |
|---|---|
| `PollConnected`, `PollDecide` | the two readings and the decision of `web_service_poll` |
| `HttpdStart`, `RegisterRoutes`, `RegisterFails`, `MarkRunning` | `web_service_start_internal` |
| `HttpdStop` | `web_service_stop_internal` |
| `Arrives`, `AuthGuard`, `Guard`, `ReadBody`, `Apply`, `Finished` | a request, from the handler's first line to its last |

### SntpStart

`s_sntp_started`, `..._start_pending` and `..._start_in_progress` are shared by
three tasks without a lock; each load and each store is a step, those of one
condition or of one run of assignments in any order. `AddressHandler` is
`sntp_ip_event_handler`, `SntpPoll` is `sntp_start_if_pending`, `Starter`
`sntp_start_task`. A pass that straddles the stores of the first start task does
create a second one, which is harmless because it finds SNTP enabled.

### HomeAssistant

An event is a model value, reused once the event is gone. `Notify` is every
`home_assistant_notify_...` function, `Initialise` is `home_assistant_init`
(the worker may run before events are let in), `Receive` to `RefreshFails` are
`ha_worker_task`. A failed post may have reached the server all the same: an event
whose answer was lost is delivered twice. `HaChannel` is the client seen from
outside, with two variables, `tries` (read off queue and worker) and
`delivered`.

### LogStore

`PutChar` takes one character of the formatted text through the accumulator and
`Push` a line into the ring. `CopyRecent` is `log_store_copy_recent` with the
limit `logs_get_handler` asks for. `history`, `heard` and `told` are history
variables. A text longer than the format buffer loses its end, newline included,
and joins the next; a line longer than an entry is clipped. `Clipped` and `Formatted`
say so. Runtime-Behavior.md:138 promises a wall-clock prefix; `build_prefix`
writes one relative to the boot. The prefix is not modelled.

### Buzzer

`ring`, `ringHead`, `ringTail` and `ringCount` are the queue, a `uint8_t` count
included (`Byte`). `Update`, `Take`, `TakeNothing` and `StartTone` are the steps of
`buzzer_update`; `SetDisabled`, `StopClears` and `StopSilences` those of
`buzzer_set_enabled(false)`, `WebBeepReads` and `WebBeepWrites` those of the beep
for a layer change, both in the web server's task. The code takes no lock, so all
of them fall between each other's. `queued` is the queue as it should be and
`crossed` says that calls of both tasks have overlapped; both are history
variables. After an overlap the code's ring may hold anything: tones left behind by
an empty ring's count of 255, one played twice, a tone left on in a disabled
buzzer (`MCBuzzerOverlap.cfg`). `RingIsQueue` and `SilentWhenDisabled` claim nothing
then, until the ring is cleared by a call of either task that nothing overlaps.

### EncoderInput

A pass of the input task is four steps (`Press` or `NoPress`; `Dispatch`;
`EmitSingle`; `ReadWheel`, `ReportSteps`), between which the web server changes
the layer and the wheel its counter. What the code does and the properties allow:
a press in the pass that ends a window starts a new group and drops the one
before (`main.c:692-697`); a press within the delay drops the pending single tap;
pulses between `get_count` and `clear_count`, and the rest of the division, are
lost; a single tap that is pending is still emitted when a firmware confirmation
begins.

### TouchSlider

A sample is the two deltas; `PadsOn`, `Above`, `Visits`, `Balance`, `Filtered`
and `DominantSide` are the code's arithmetic on them. `session` holds the fields
of a contact and goes through `Visited`, `SideChosen`, `Balanced`, `Flipped` or
`Fired` in the order of the source. `Held` is the hold at the end of every pass.
Modelling showed: the interval of a hold is that of the layer active *now*
(`touch_slider.c:592`), a failing pad read leaves a hold as it is (`:253-256`), a
contact that begins on both sides alike never is a gesture, and the block at
`:465-491` cannot fire. A contact that begins lightly in the middle gets its
start side from the first visit, while the filtered balance may still lag on the
other side: a finger that goes from centre-left to barely right and back is sent
as R->L although it was on the left first. `contact.sided` is true of the
contacts that set down on one side, and only of those does `GestureWasSlide` ask
that the finger was nearer to the start side *before* it was clearly on the
other one. (The proof of `GesturesGoAcross` failed without that distinction, and
TLC then found the behaviour.)

## 3. Runs

| run | cfg | shows |
|---|---|---|
| `ota_lifecycle` | `MCOtaManager.cfg` | `PendingIsSupervised`, `RollbackTargetIntact`, `DownloadEnds`, and that the manager implements `FirmwareTrial`, with a reset possible in every state |
| `wifi_boot` | `MCWifiBoot.cfg` | with a menuconfig network and stored credentials: `BootResolves`, a boot ends connected or in the portal; `AttemptsEnd`; `PortalIsLastResort`; `ConnectedMeansLink` |
| `wifi_portal` | `MCWifiPortal.cfg` | without a menuconfig network, every ESP-IDF call able to fail: `ServedWhileActive`, `PortalEnds`, `ProvisionedReused` |
| `hid_switch` | `MCHidTransport.cfg` | `OneKeyboard`, `CommittedBeforePending` and `SwitchApplies`, with failing calls, passes that skip ticks and a tick counter that wraps |
| `keys_scan` | `MCKeyReports.cfg` | `HostFollowsKeys`, `EdgesAreDebounced`, `HeldKeySeen`: keys held at power-up, layer changes of both tasks, reports that are full at one key or lost, slow consumer reports, passes of several ticks, a wrap |
| `ble` | `MCBleBackend.cfg` | `OneBond`, `ConnectedHasLink`, `ReadyAfterPairing`, `AdvertisesAgain`, types |
| `services` | `MCServices.cfg` | web: `NoServerLeft`, `AnsweredOnce`, `StartsWhenStable`, `ServerFollowsNetwork`; SNTP: `InitialisedOnce`, `SntpStarts`; Home Assistant: `ImplementsChannel`, `EventsSettle`, `DisplayFollows`; log: `LogIsFaithful`; buzzer: `RingIsQueue`, `SilentWhenDisabled`, `TonesEnd`; encoder: `CountsAreTrue`; slider: `GesturesAreSlides`, `RepeatsFollowGesture`; types |

The type invariants of the first four models are not in their runs; they are
proved. Those of the others are both checked and proved. Five more runs end in a
counterexample. Each states what a document of the repository says and shows that
the code does otherwise:

| run | statement | what happens |
|---|---|---|
| `ota_second_update` | OTA-Update.md:23, the device reboots into the new image | an update accepted in the 250 ms before the restart erases the slot that is to boot |
| `wifi_credentials_lost` | Wi-Fi-Provisioning.md:70-71, stored credentials are reused | the attempt with the menuconfig network overwrites them, and a reset follows |
| `key_stale_clock` | Runtime-Behavior.md:13, inputs are debounced (`DEBOUNCE_MS`) | a key scanned after a consumer key is timed with the clock of before its report (12 ms, `macropad_hid.c:215`) and changes too early |
| `web_refused_request` | Web-Service.md:87, API-Reference.md:225, routes are blocked when control is disabled | the 403 is sent and the handler goes on, carries the request out and answers again |
| `touch_hold` | Touch-Slider-Algorithm.md:35-36, a hold continues while the dominant side is maintained | the balance is not updated after the gesture; the finger slides back and the repeats go on |

### Counterexamples kept beside the runs

Some configurations show behaviours that depend on a preemption, on a task that is
late by more than the code expects, or on a wrap of the tick counter. They are
kept for whoever works on that code; `tlc -config X.cfg M` prints them. The
properties in the runs make an exception for exactly these behaviours and say so:

| cfg, module | property | behaviour |
|---|---|---|
| `MCWifiStop`, `MCWifiPortal` | `StopFollowsConnection` | the address arrives while the poll is opening the portal; `portal_start_internal` clears the request to stop (`wifi_portal.c:856`) |
| `MCHidEarly`, `MCHidTransport` | `RestartNotEarly` | the pending flag is set before the deadline and the poll comes in between (`hid_transport.c:209`) |
| `MCHidWrap`, `MCHidTransport` | `SwitchAlwaysApplies` | no pass sees one of the last ticks before the wrap, and the deadline is in the future again (`hid_transport.c:126`, `main.c:629`) |
| `MCBleWindow`, `MCBleBackend` | `AlwaysAdvertises` (API-Reference.md:49) | a window opened while the poll stops the advertising of the one that ended; the stop comes last (`hid_ble_backend.c:544-551`) |
| `MCBuzzerOverlap`, `MCServices` | `AlwaysSilent` (API-Reference.md:132) | `buzzer_set_enabled(false)` between the steps of an update: the tone started last stays on, and an empty ring counts 255 tones (`buzzer.c:106`) |

### Bounds, and why they are enough

* **OTA**: three images, so that a second update differs from both the running
  and the accepted one; two retries, so that a retry is neither the first nor the
  last; deadlines of one or two ticks, so that taps fall before, at and after them;
  taps up to four, one more than confirm. Resets are not bounded.
* **Wi-Fi**: one menuconfig network and one other, or two others; one retry, one
  reset (two boots, the second on what the first left in flash). `MaxEvents`
  bounds how far the driver runs ahead of the handler: two with the fallback,
  so that a connection and its loss are both queued, one with the failing calls.
  In `wifi_boot` no call fails: after a first attempt or a portal that could not
  be started the code tries nothing else, and the boot does not resolve.
* **HID**: a delay of two ticks, passes of up to two and a counter that wraps after
  eight, so that deadlines fall before, at and behind the wrap, and are met late,
  in time or not at all; one reset from outside; restarts by
  the poll are not bounded. The mode cannot be unreadable in this run, since
  the device then rightly comes up in the default mode and the switch is not
  applied; the proofs cover it (`Faults` is any subset there).
* **Keys**: two keys, two layers, the first key a consumer key on one of them; any
  levels at power-up; a debounce time of two ticks, one tick for a consumer report,
  one or two for the rest of a pass, and a counter that wraps after six. With
  `Rollover = 1` two keys already overflow the report. Clock and web server are
  looked at one after the other (`focus` in `MCKeyReports`): with every time a step
  may take and a web server that is quiet, and with both tasks in any order and a
  clock that is read at multiples of the debounce time. The proofs know of no
  such division.
* **BLE**: two hosts, at boot one bonded or none; two connections, so that one
  follows another; one request for a window or for clearing the bonds, beside the
  first window; a scan response that may fail.
  `AuthOvertakes = FALSE` says that a host authenticates after its connection was
  reported, which takes it several exchanges over the air; an authentication that
  overtook the report would leave `connected` down for that link. About 720 000
  states.
* **Web**: a delay longer than the retry, so that a deadline of each kind can be
  met; two failing calls; four changes of the network (away and back, twice);
  control enabled, disabled, and enabled without callbacks (which `main.c:1066-1080`
  rules out, but not `web_service.c`). `MCWebRefused.cfg` has the shipped setting,
  control disabled (`keymap_config.h:211`).
  Neither `NoServerLeft` nor its theorem survives a failing `httpd_stop`, which
  the code does not check.
* **SNTP**: two connections and two start tasks, one of which may not be created.
* **Home Assistant**: three events for a queue of two, one retry.
* **Log**: a ring of two, an accumulator of two characters, texts longer than
  the format buffer, lines longer than an entry.
* **Buzzer**: a ring of two tones and melodies of up to three, so that every
  melody may be cut off and the startup melody is streamed; a count that wraps
  after four (`Bytes`, 256 in the code), so that one of an empty ring exceeds it.
* **Encoder**: four presses, passes of one or two ticks, a detent of two pulses.
* **Slider**: seven passes. A gesture takes two, a minimum interval one, so that
  two contacts with a gesture each fit; two layers, one that repeats. The seven
  samples are no finger, a light and a firm one on either side, a light one in the
  middle, and one on both.

`CHECK_DEADLOCK FALSE` is set where the system really may stop: a device whose
Wi-Fi attempts are over and whose portal is closed does nothing until it is
reset; one whose USB init fails (`MCHidTransport.cfg`) has no keyboard task; a BLE
device without a host, a window or a pending event waits (`MCBleBackend.cfg`); a
Home Assistant client that is disabled does nothing, and logs and clocks end at
the bounds of the model (`MCServices.cfg`).

### Fairness

* OTA: the worker and the input task run, ticks come, the HTTP client has
  timeouts, so that a transfer ends. Users, updates and power promise nothing.
  That a *trial* ends needs the confirmation timeout to be configured (its
  default is 120 s).
* Wi-Fi: the input task, the event loop and the servers run, ticks come, and an
  association that is tried comes about or fails. Nothing forces a network to be
  there, to stay, or to hand out an address, so `AttemptsEnd` excepts a station that
  stays associated without one: nothing ends such an attempt if it was submitted to
  the portal.
* HID: the boot, the two tasks once they are inside a request, the poll, and the
  clock.
* Keys: the input task runs, and time passes while it rests. That is strong
  fairness, since the task is not at rest all the time.
* BLE and the services: every task that has begun something goes on with it, time
  passes, and the stack delivers its events. Nobody has to press, ask or connect.

All of these are FreeRTOS tasks that block only with a timeout. Weak fairness is
what the scheduler gives.

## 4. Proofs

For all values of the constants, under the `ASSUME`s in the modules.

**`OtaManager_proofs`** – `TypeCorrect`, `VerificationSafe`
(`PendingIsSupervised` and `RollbackTargetIntact` are always true), its second
half alone as `TargetStaysIntact`, and
`ImplementsTrialSafety` (`[][Trial!Next]` and the initial condition). Neither of
the two safety properties is inductive alone: that the other slot is intact
during a trial follows only if no worker is in its transfer and no restart is
pending, that the worker is not follows from the supervision, and what a reset
boots depends on the otadata state of a slot that is selected but not running.
Their conjunction with the types is inductive. The refinement proof takes the
invariant and shows each action to be a `Try`, an `Accept`, a `Revert` or a
stutter.

**`HidTransport_proofs`** – `TypeCorrect`, `ExactlyOneKeyboard`,
`SwitchIsCommitted`. `CommittedBeforePending` is not inductive: a request that
is past its save sets the flag later, after another one may have saved. The
strengthening `RequestsCommitted` says that every request under way is for the
other mode, so that they all store the same. `QuietUntilUp` says that none is
under way before the init is through, which keeps the mode from changing under
them. `BootProgress` is what `OneKeyboard` needs of the phases before.

**`KeyReports_proofs`** – `TypeCorrect`, and `HostHoldsKeys`: between the
passes, the host holds the pressed keyboard keys of the active layer, all if they
fit in a report and a subset of them otherwise, unless the last report was lost or
the host was left `behind`: by a key held at power-up or by the web server's task,
until the input task has built its next report. The usages of a layer's keyboard
keys have to differ. The invariant `InStep` follows an edge from
the pin to the host: either the input task still owes a report, or one was lost,
or the host has exactly the codes of the active layer. `InputOrder` says
where in its pass a report can be under way, `ReportsFit` that a report has at most
`Rollover` codes. The lemmas about `Codes` are about counting: the codes are
those of the keys with fewer than `Rollover` pressed keys before them
(`RankGrows`, `CodesFit`), all of them if they fit (`AllSentIfTheyFit`), and
`Rollover` if they do not (`AsManyAsFit`: their ranks are a bijection onto the
places of the report). `HostFollowsWithoutWeb`: if nobody asks the web server for
another layer and no key that reports a code is held at power-up, there is no
exception but the lost report. `KeysAreDebounced` (`EdgesAreDebounced`) is about
passes and consumer reports of any length and any width of the counter that
exceeds one pass and the debounce time (`ClockAssumption`). `AgeIsSteady` says that the
distance of the clock readings *modulo the counter's width* is at most the time a
key has been steady and what the scan may have spent before it, which makes the
proof one of modular arithmetic.

**`WifiPortal_proofs`** – `TypeCorrect`, `ConnectionIsTold`
(`ConnectedMeansLink`), `PortalIsServed` (`ServedWhileActive`), `PortalComesLast`
(`PortalIsLastResort`). The invariant for the first, `LossIsTold`, is about the
driver being ahead of the handler: while the link is not up, every queued address
is followed by a queued disconnection, and one is queued if the handler believes
in a connection. `CallsByInput` says which of the two callers of
`start_sta_connect` may be where, `PortalServed` in which steps of start and stop
the server is up, `FallbackSpent` that a boot on its way to the portal has used
its stored credentials. `SubmittedIsTried` (`ProvisionedReused`) holds without
a menuconfig network, as in the run `wifi_portal`; with one it is the finding
`wifi_credentials_lost`. `StoredIsKept` says why: the attempt of a boot is made
before a server is up, so that it stores what it has read from the flash, nothing
is submitted meanwhile, and what it has selected is what was stored last.

**`BleBackend_proofs`** – `BleTypeCorrect`, `NobodyIsConnected`
(`ConnectedHasLink`), `SecondBondIsRemoved` (`OneBond`), for any number of hosts
and without the restriction of the run: `AuthOvertakes` is any Boolean.
`ConnectedHasLink` is not inductive. An authentication that is still
queued sets `connected` when it is handled, so that `AuthsAccounted` is needed: the
link such an event is about is either still there or its disconnection stands
*behind* it in the same queue. Every event that is appended or taken has to be
followed through both queues. `OneBond` needs only the types: bonds are added by
an authentication, whose event keeps `AuthUnderWay` up until `RemoveOthers`, and
all other steps take bonds away. It assumes that there is memory for the list of
the bonds (`"others" \notin BleFaults`): without, `ble_remove_other_bonds` logs and
returns, and the second bond stays. The run makes the same assumption; all other
calls may fail.

**`Services_proofs`**, the network's services:

* `WebService`: `ServerIsKnown` (`NoServerLeft`, if `httpd_stop` does not fail),
  `StartIsDelayed` (`StartsWhenStable`), `AnswerIsTrue` (`AnsweredOnce`, for any
  control settings), `WebTypeCorrect`. `ServerKnown` says what listens at every
  step of the poll. `DelayCovers` says that the polls that found the network
  ready, and those still to wait, make up the delay. `RequestInOrder` follows a
  request through its handler.
* `SntpStart`: `StartedOnce` (`InitialisedOnce`), for any number of connections
  and start tasks, and `SntpTypeCorrect`. The flags have no order, so the
  invariant is about who is *seen*: a start task that has not done its check keeps
  "in progress" up and unread, so no other task is created meanwhile, at most one
  is before its initialisation, and that one finds SNTP not initialised.
* `LogStore`: `NewestAreKept` (`LogIsFaithful`), `LogTypeCorrect`. The ring part
  needs modular index lemmas (`BackInRing`, `ForwardInRing`), and of a copy that
  it is one of the *past* (`CopyIsPast`).
* `MCServices`: `ServicesTypeCorrect` (`ServicesTypeOK`). `StepsOfEach` shows that
  a step of the composition is a step or a stutter of every component, so that a
  behaviour of it satisfies the specification of each (`EachComponent`) and the
  inductive invariants of all seven hold in it together. `ServicesKeepPromises`
  carries everything proved of the seven over to the specification the run
  checks; it assumes that `httpd_stop` works and what the slider's theorem assumes
  of two thresholds, and the run's constants satisfy that. `ServicesTypeCorrect`
  assumes nothing beyond the modules' own assumptions.

**`HomeAssistant_proofs`** – `ClientIsChannel` (`ImplementsChannel`): the queue
and its worker implement the lossy channel. The invariant: no event is twice under way
(`Distinct`), and it was not delivered more often than it was tried
(`DeliveredByTries`). The refinement maps `tries` through a `CHOOSE` over the
queue; `TriesOf...` lemmas say what the append, the removal at the head and the
worker's event do to it. That a retry is given up only when the queue is full
needs the number of events under way: their positions are a bijection.

**`InputDevices_proofs`**, what the input task serves one after the other:

* `EncoderInput`: `KnobCountsAreTrue` (`CountsAreTrue`), `EncoderTypeCorrect`.
  `TapsCounted` says that a counter above zero *is* the size of the last group of
  presses, that a group whose counter was cleared can no longer grow, and that a
  single action that is pending stands for a press that is alone. A group is a
  maximum over the history of presses; `ShorterBurst` and `BurstIsUnique` show that
  it is unique, so that it can be followed from step to step without an induction
  over the history. `PulsesCounted` says of both directions that what was reported
  and what is in the counter (or was read of it, before it is cleared) was turned;
  it rests on two lemmas about truncating division.
* `Buzzer`: `RingIsAQueue` (`RingIsQueue`) and `DisabledIsSilent`
  (`SilentWhenDisabled`), for any steps of the two tasks, whether they overlap or
  not. The ring needs fewer places than a `uint8_t` has values (`BuzzerAssumption`);
  `buzzer.c:24` only asks for one place, but head, tail and count are `uint8_t`.
  Not inductive alone: while nothing has crossed, `RingHolds` ties the indices to
  the queue (`FilledHolds` is about a whole melody pushed into what room there is),
  `CallsExclude` says that only one of the tasks is inside a call, so that the tone
  an update has looked at is still there when it takes it, and `UpdateIsSilent` that
  the update has silenced the last one by then. `OneWebCall` holds in any case. An
  overlap makes all but the types void, and `OnlyClearingHeals` says that nothing
  but an undisturbed clearing brings it back, from which `ClearingSilences` and
  `StopClearsRing` establish it anew.
* `TouchSlider`: `ContactIsCounted` (`OneGesturePerContact`, `AmbiguousRejected`
  and the types), `RepeatsBelong` (`RepeatsFollowGesture`), `GesturesGoAcross`
  (`GesturesAreSlides`), for any thresholds, layers and sequence of samples, and a
  clock without a bound. The last one assumes `DominanceDelta # 0` and
  `VisitPercent <= 100` (`keymap_config.h` has 650 and 20): with a dominance of 0
  a balance of 0 is on a side, and beyond 100 percent the side visited alone would
  not be the nearer one. `ContactCounted`, `StartUndecided` and `HoldBelongs` tie the
  session and the hold to the history of the contact. `StartWasLeant` is what the
  direction rests on: the filtered balance, an average, comes to be on a side only
  after a sample was clearly there (`FilteredStays`), and while it is opposite the
  start side of a contact that set down on one, the finger was nearer to the start
  side before. The lemmas follow the functions of the source (`VisitedSession`,
  `SideChosenSession`, `BalancedSession`, `FlippedSession`, `MovedSession`).

So every invariant and every action property that a passing run checks is stated
by a theorem. Checked by TLC only: all liveness (`DownloadEnds`, `BootResolves`,
`AttemptsEnd`, `PortalEnds`, `SwitchApplies`, `HeldKeySeen`, `ReadyAfterPairing`,
`AdvertisesAgain`, `ServerFollowsNetwork`, `SntpStarts`, `EventsSettle`,
`DisplayFollows`, `TonesEnd`, the fairness of `FirmwareTrial`), which is out of
the prover's reach.

## 5. Abstractions

* OTA: URL and configuration checks are one failing outcome of the start;
  progress numbers and texts are left out. The code compares its deadlines with
  `now >=`, which goes wrong when one is computed across the wrap of the 32-bit
  tick counter; the model counts the distance instead.
* Wraps of the tick counter: `KeyReports` and `HidTransport` model them. The
  single deadlines of the other components (OTA, the pairing window, the encoder's
  delayed single tap, the slider's hold, the SNTP and web server delays) are compared
  with `now >=` as well; their models have a clock that does not wrap or a distance
  that is counted down. The portal and the buzzer compare distances in the code too.
* Wi-Fi: DNS packets, HTML, form decoding, the network scan, the texts and flags
  nobody reads. The 1.5 s limit on waiting for the DNS task is left out. While it
  lasts the portal's server still answers, so a submission may come in then as well.
* HID: calls that are only passed on to the BLE backend.
* BLE: passkeys, names, report maps and the sending of reports; a window without
  a deadline (`timeout_ms` = 0). As in the code, a start of advertising that
  fails is not tried again, a window that expires during an authentication
  leaves advertising not asked for, a failed authentication drops `bonded` while
  the stack keeps its bond, and clearing bonds beside an authentication leaves
  the two different. `adv_cfg_done |=` in the init (`hid_ble_backend.c:480`,
  `:494`) is a load and a store, between which a callback's bit is lost.
* Web: JSON, headers, the texts cached for the state route; of the authentication
  only that a request may have the credentials asked for or not. Changes
  of layer, buzzer, mode and firmware are in those components' modules.
* Home Assistant: what an event says, URLs, JSON.
* Log: the time prefix of a line.
* Buzzer: the RTTTL parser; frequencies and durations (a phase ends when it
  likes); the minimal interval between two tones of the encoder.
* Encoder: debouncing of its button, which is `KeyReports`' `Debounced`.
* Slider: the tracking of the baselines and of the noise floor.
* Keys: USB mode, as in BLE mode the backend sends the report. A consumer report
  is the time it takes.
* Everything external (bootloader, otadata, Wi-Fi driver, event loop) is
  modelled by what the code in `src/main` relies on, in modules of its own.

## 6. Not modelled

* **LEDs and status lines**: output computed from the state of the moment. The last
  frame is kept to save writing it again, and nothing else reads it.
* **Display task** and `oled.c`: a function from snapshots of the other
  components to pixels over I2C. Dimming compares the time of the last activity
  with two thresholds. No other task depends on what it keeps.
* **Keymap configuration and its generator**: a text transformation of the
  build. The models take its results as constants.
* **RTTTL, DNS, JSON, URL and form parsing**: pure functions of strings whose
  faults would be about characters, not about states.
* **Development tools**: not part of the device.

What could come next: a bound on how early the restart of `MCHidEarly.cfg` may
come, the wraps of the other deadlines, and a model of the passkey exchange,
whose hosts are external throughout.
