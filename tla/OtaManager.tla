----------------------------- MODULE OtaManager -----------------------------
(***************************************************************************)
(* main/ota_manager.c: download, first-boot self-check, confirmation and   *)
(* rollback of a firmware image, across resets of the device.              *)
(*                                                                         *)
(* Three tasks act on the context s_ota under its mutex: the worker        *)
(* (ota_worker_task), the input task (ota_manager_poll and                 *)
(* ota_manager_handle_encoder_taps, called from its 5 ms loop) and the     *)
(* HTTP server's task (ota_manager_start_update).  A reset may come at any *)
(* moment: power, or the delayed restart of a keyboard mode switch.        *)
(*                                                                         *)
(* Ticks are counted down: timer is the distance from now to the deadline  *)
(* of the present state, and stops at 0.                                   *)
(***************************************************************************)
EXTENDS EspOta

CONSTANTS Versions,        \* firmware images a server may offer
          NoImage,         \* an empty or half-written slot
          SelfCheckTicks,  \* MACRO_OTA_SELF_CHECK_DURATION_MS
          RetryTicks,      \* OTA_SELF_CHECK_RETRY_INTERVAL_MS
          MaxRetries,      \* OTA_SELF_CHECK_MAX_RETRIES
          ConfirmTicks,    \* MACRO_OTA_CONFIRM_TIMEOUT_SEC, 0: no timeout
          BannerTicks,     \* OTA_CONFIRM_BANNER_MS
          ConfirmTaps,     \* MACRO_OTA_CONFIRM_TAP_COUNT
          MaxTaps          \* longest tap sequence considered

ASSUME ImageAssumption == NoImage \notin Versions
ASSUME TimeAssumption ==
  /\ SelfCheckTicks \in Nat /\ RetryTicks \in Nat /\ MaxRetries \in Nat
  /\ ConfirmTicks \in Nat /\ BannerTicks \in Nat
  /\ ConfirmTaps \in Nat /\ MaxTaps \in Nat

VARIABLES
  \* flash: survives a reset
  image,      \* the image in each slot
  imgState,   \* esp_ota_img_states_t of each slot
  selected,   \* the slot with the newest otadata record
  \* RAM
  running,        \* the slot whose code executes
  state,          \* s_ota.state
  pendingVerify,  \* s_ota.pending_verify
  retries,        \* s_ota.self_check_retry_count
  timer,          \* ticks to the deadline of the state
  worker,         \* progress of the task in s_ota.worker_task
  target,         \* the image s_ota.current_url names
  restarting,     \* a finished worker is in its 250 ms delay
  input           \* the input task: in its loop, or past the unlock that
                  \* precedes a rollback or a restart

flashVars == <<image, imgState, selected>>
verifyVars == <<pendingVerify, retries, timer>>
workVars == <<worker, target, restarting>>
vars == <<flashVars, running, state, verifyVars, workVars, input>>

States == {"READY", "DOWNLOADING", "DOWNLOAD_FAILED", "REBOOTING",
           "SELF_CHECK_RUNNING", "WAITING_CONFIRM", "CONFIRMED",
           "ROLLBACK_REBOOTING"}

Verifying == {"SELF_CHECK_RUNNING", "WAITING_CONFIRM"}

Pending == imgState[running] = "pending_verify"

TypeOK ==
  /\ image \in [Slots -> Versions \cup {NoImage}]
  /\ imgState \in [Slots -> ImgStates]
  /\ selected \in Slots
  /\ running \in Slots
  /\ state \in States
  /\ pendingVerify \in BOOLEAN
  /\ retries \in 0..MaxRetries
  /\ timer \in Nat
  /\ worker \in {"none", "begin", "perform"}
  /\ target \in Versions \cup {NoImage}
  /\ restarting \in BOOLEAN
  /\ input \in {"loop", "rollback", "restart"}

(***************************************************************************)
(* The device left the factory with one image in slot 0, which the         *)
(* bootloader marked valid, and has booted it.                             *)
(***************************************************************************)
Init ==
  /\ \E v \in Versions : image = [s \in Slots |-> IF s = 0 THEN v ELSE NoImage]
  /\ imgState = [s \in Slots |-> IF s = 0 THEN "valid" ELSE "undefined"]
  /\ selected = 0
  /\ running = 0
  /\ state = "READY"
  /\ pendingVerify = FALSE
  /\ retries = 0
  /\ timer = 0
  /\ worker = "none"
  /\ target = NoImage
  /\ restarting = FALSE
  /\ input = "loop"

-----------------------------------------------------------------------------
(***************************************************************************)
(* A reset: the bootloader, then ota_manager_init on zeroed RAM.  The      *)
(* argument is the otadata state the bootloader finds.                     *)
(***************************************************************************)
ManagerInit(pending) ==
  /\ state' = IF pending THEN "SELF_CHECK_RUNNING" ELSE "READY"
  /\ pendingVerify' = pending
  /\ retries' = 0
  /\ timer' = IF pending THEN SelfCheckTicks ELSE 0

Boot(st) ==
  /\ imgState' = StatesAfterBoot(st, selected)
  /\ running' = BootSlot(image, st, selected, NoImage)
  /\ ManagerInit(StatesAfterBoot(st, selected)
                   [BootSlot(image, st, selected, NoImage)] = "pending_verify")
  /\ worker' = "none"
  /\ target' = NoImage
  /\ restarting' = FALSE
  /\ input' = "loop"
  /\ UNCHANGED <<image, selected>>

Reset == Boot(imgState)

-----------------------------------------------------------------------------
(* The HTTP task: ota_manager_start_update. *)

\* Fault: an update may start beside a verification.
StartBesideVerification == worker = "none" /\ state # "DOWNLOADING"

StartAllowed ==
  /\ worker = "none"
  /\ state # "DOWNLOADING"
  /\ state \notin Verifying

StartUpdate(v) ==
  /\ StartAllowed
  /\ retries' = 0
  /\ timer' = 0
  /\ target' = v
  /\ \/ state' = "DOWNLOADING" /\ worker' = "begin"
     \/ state' = "DOWNLOAD_FAILED" /\ worker' = "none"  \* xTaskCreate failed
  /\ UNCHANGED <<flashVars, running, pendingVerify, restarting, input>>

-----------------------------------------------------------------------------
(* The worker. *)

\* Fault: the task deletes itself and leaves its handle in the context.
WorkerFailsLeavesHandle ==
  /\ state' = "DOWNLOAD_FAILED"
  /\ worker' = "gone"
  /\ UNCHANGED <<target, restarting>>

WorkerFails ==
  /\ state' = "DOWNLOAD_FAILED"
  /\ worker' = "none"
  /\ UNCHANGED <<target, restarting>>

(***************************************************************************)
(* esp_https_ota_begin and the first esp_https_ota_perform: the transfer   *)
(* either starts, erasing the slot that does not run, or fails.  The       *)
(* library refuses to start while the running image is pending.            *)
(***************************************************************************)
WorkerBegin ==
  /\ worker = "begin"
  /\ \/ /\ ~Pending
        /\ image' = [image EXCEPT ![Other(running)] = NoImage]
        /\ worker' = "perform"
        /\ UNCHANGED <<state, target, restarting>>
     \/ WorkerFails /\ UNCHANGED image
  /\ UNCHANGED <<imgState, selected, running, verifyVars, input>>

(***************************************************************************)
(* The transfer was complete and esp_https_ota_finish selected the slot:   *)
(* REBOOTING, worker_task cleared, and a 250 ms delay before the restart.  *)
(***************************************************************************)
WorkerFinish ==
  /\ worker = "perform"
  /\ image' = [image EXCEPT ![Other(running)] = target]
  /\ imgState' = [imgState EXCEPT ![Other(running)] = "new"]
  /\ selected' = Other(running)
  /\ state' = "REBOOTING"
  /\ worker' = "none"
  /\ restarting' = TRUE
  /\ UNCHANGED <<running, verifyVars, target, input>>

(***************************************************************************)
(* A transfer error, an incomplete image or a failed finish.               *)
(***************************************************************************)
WorkerAbort ==
  /\ worker = "perform"
  /\ WorkerFails
  /\ UNCHANGED <<flashVars, running, verifyVars, input>>

WorkerRestart == restarting /\ Reset

-----------------------------------------------------------------------------
(* The input task: ota_manager_poll. *)

EnterWaitConfirm ==
  /\ state' = "WAITING_CONFIRM"
  /\ retries' = 0
  /\ timer' = ConfirmTicks

MayRetry == retries < MaxRetries

\* Fault: the retries are not counted.
RetriesNotCounted == retries

RetriesNext == retries + 1

PollSelfCheck ==
  /\ input = "loop"
  /\ state = "SELF_CHECK_RUNNING"
  /\ timer = 0
  /\ \/ EnterWaitConfirm                       \* ota_run_self_check passed
     \/ /\ MayRetry                            \* failed, and tried again
        /\ retries' = RetriesNext
        /\ timer' = RetryTicks
        /\ UNCHANGED state
     \/ ~MayRetry /\ EnterWaitConfirm          \* failed, left to the user
  /\ UNCHANGED <<flashVars, running, pendingVerify, workVars, input>>

PollTimeout ==
  /\ input = "loop"
  /\ state = "WAITING_CONFIRM"
  /\ ConfirmTicks # 0
  /\ timer = 0
  /\ state' = "ROLLBACK_REBOOTING"
  /\ input' = "rollback"
  /\ UNCHANGED <<flashVars, running, verifyVars, workVars>>

PollBanner ==
  /\ input = "loop"
  /\ state = "CONFIRMED"
  /\ timer = 0
  /\ state' = "READY"
  /\ target' = NoImage
  /\ UNCHANGED <<flashVars, running, verifyVars, worker, restarting, input>>

(***************************************************************************)
(* After the unlock: esp_ota_mark_app_invalid_rollback_and_reboot, or a    *)
(* plain esp_restart when it reports that it cannot.                       *)
(***************************************************************************)
Rollback ==
  /\ input = "rollback"
  /\ \/ /\ image[Other(selected)] # NoImage
        /\ Boot([imgState EXCEPT ![selected] = "invalid"])
     \/ Reset

(***************************************************************************)
(* The input task: ota_manager_handle_encoder_taps.  Any other count, or   *)
(* any other state, changes nothing here.                                  *)
(***************************************************************************)
\* Fault: the taps confirm in any state.
TapsConfirmAlways(taps) == taps = ConfirmTaps

TapsConfirm(taps) == state = "WAITING_CONFIRM" /\ taps = ConfirmTaps

\* confirm_success_tick is read after the pass's now: when a tick falls between
\* them, the poll of this pass finds a negative time elapsed, which as a TickType_t
\* is a long one, and takes the banner away at once
BannerAfterConfirm == timer' \in {BannerTicks, 0}

EncoderTaps(taps) ==
  /\ input = "loop"
  /\ TapsConfirm(taps)
  /\ \/ /\ imgState' = [imgState EXCEPT ![selected] = "valid"]
        /\ state' = "CONFIRMED"
        /\ pendingVerify' = FALSE
        /\ BannerAfterConfirm
        /\ UNCHANGED input
     \/ /\ state' = "ROLLBACK_REBOOTING"      \* the flash write failed
        /\ input' = "restart"
        /\ UNCHANGED <<imgState, pendingVerify, timer>>
  /\ UNCHANGED <<image, selected, running, retries, workVars>>

ConfirmRestart == input = "restart" /\ Reset

Tick ==
  /\ timer > 0
  /\ timer' = timer - 1
  /\ UNCHANGED <<flashVars, running, state, pendingVerify, retries, workVars, input>>

-----------------------------------------------------------------------------
Next ==
  \/ Reset
  \/ \E v \in Versions : StartUpdate(v)
  \/ WorkerBegin \/ WorkerFinish \/ WorkerAbort \/ WorkerRestart
  \/ PollSelfCheck \/ PollTimeout \/ PollBanner
  \/ Rollback \/ ConfirmRestart
  \/ \E taps \in 1..MaxTaps : EncoderTaps(taps)
  \/ Tick

(***************************************************************************)
(* The input task and the worker keep being scheduled, ticks keep coming,  *)
(* and the HTTP client times out, so that a transfer ends.  Nothing is     *)
(* assumed of users, clients or power.                                     *)
(***************************************************************************)
Fairness ==
  /\ WF_vars(WorkerBegin)
  /\ WF_vars(WorkerFinish \/ WorkerAbort)
  /\ WF_vars(WorkerRestart)
  /\ WF_vars(PollSelfCheck)
  /\ WF_vars(PollTimeout)
  /\ WF_vars(PollBanner)
  /\ WF_vars(Rollback)
  /\ WF_vars(ConfirmRestart)
  /\ WF_vars(Tick)

SafetySpec == Init /\ [][Next]_vars
Spec == SafetySpec /\ Fairness

-----------------------------------------------------------------------------
(***************************************************************************)
(* A pending image is always on its way to a verdict, and only then.       *)
(* pending_verify, which the REST API reports, tells the truth about the   *)
(* otadata record; while the image is pending the manager is verifying it  *)
(* or the input task is already past the unlock that precedes a reboot     *)
(* (ota_manager_poll, ota_manager_handle_encoder_taps); and no download or *)
(* restart runs beside a verification (ota_manager_start_update).          *)
(***************************************************************************)
PendingIsSupervised ==
  /\ pendingVerify <=> Pending
  /\ Pending => state \in Verifying \/ input # "loop"
  /\ state \in Verifying => Pending /\ worker = "none" /\ ~restarting

(***************************************************************************)
(* What the flash looks like at every moment, so that power may go at any  *)
(* of them: the image that runs is intact and accepted or on trial; while  *)
(* it is on trial the other slot, where it would be rolled back to, holds  *)
(* an intact accepted image that no transfer is overwriting and no restart *)
(* is pending; and a slot that is selected without running can come up     *)
(* only for a trial, or not at all.                                        *)
(***************************************************************************)
RollbackTargetIntact ==
  /\ image[running] # NoImage
  /\ imgState[running] \in {"valid", "pending_verify"}
  /\ Pending => /\ selected = running
                /\ image[Other(running)] # NoImage
                /\ imgState[Other(running)] = "valid"
                /\ worker # "perform" /\ ~restarting
  /\ input # "loop" => Pending
  /\ selected # running =>
       imgState[selected] \in {"new", "pending_verify"} \cup Refused

(***************************************************************************)
(* A download that has been accepted comes to an end by itself, and leaves *)
(* no worker handle behind that would refuse every later one.              *)
(***************************************************************************)
DownloadEnds ==
  state = "DOWNLOADING" \/ worker # "none" ~> state # "DOWNLOADING" /\ worker = "none"

(***************************************************************************)
(* The manager implements the trial of firmware images: the firmware that  *)
(* counts as accepted changes only by a confirmation of the image on       *)
(* trial, every trial ends in a confirmation or in the return of exactly   *)
(* the firmware that was accepted before, and a reset never ends in        *)
(* anything else.  (docs/wiki/OTA-Update.md, 1 and 3.)                     *)
(***************************************************************************)
trialImage == IF Pending THEN image[running] ELSE NoImage
goodImage == IF Pending THEN image[Other(running)] ELSE image[running]

Trial == INSTANCE FirmwareTrial WITH good <- goodImage, trial <- trialImage

ImplementsTrial == Trial!Spec

(***************************************************************************)
(* docs/wiki/OTA-Update.md:23, "On success, device reboots into new        *)
(* image": the restart at the end of ota_worker_task boots the slot that   *)
(* was selected.                                                           *)
(***************************************************************************)
SuccessBootsNewImage == [][WorkerRestart => running' = selected]_vars
=============================================================================
