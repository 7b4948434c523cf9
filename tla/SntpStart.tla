------------------------------ MODULE SntpStart ------------------------------
(***************************************************************************)
(* main.c: the start of SNTP.  The event loop's task asks for it when the  *)
(* station has an address, the input task creates a task for it after a    *)
(* delay, and that task does it.                                           *)
(*                                                                         *)
(* They share three flags without a lock or an order of their accesses, so *)
(* every load and every store of one is a step, and those of one statement *)
(* come in any order.  The clock is the passes of the input task.          *)
(***************************************************************************)
EXTENDS Naturals

CONSTANTS SntpDelay,   \* SNTP_START_DELAY_MS, in passes
          SntpRecheck, \* the 500 ms without a connection, in passes
          SntpRetry,   \* SNTP_START_RETRY_MS, in passes
          ServerNames, \* whether CONFIG_MACROPAD_NTP_SERVER is not empty
          Starters,    \* bound of the model: tasks that are created
          MaxOnline,   \* bound of the model: connections
          MaxCreateFailures \* bound of the model: tasks that are not created

ASSUME SntpAssumption ==
  /\ SntpDelay \in Nat /\ SntpRecheck \in Nat /\ SntpRetry \in Nat
  /\ MaxOnline \in Nat /\ MaxCreateFailures \in Nat
  /\ ServerNames \subseteq BOOLEAN

VARIABLES
  serverName,      \* the configuration this build has
  online, onlines, \* the station's connection, and how often it came
  addresses,       \* IP_EVENT_STA_GOT_IP events to be handled
  flag,            \* s_sntp_started, ..._start_pending, ..._start_in_progress
  dueIn,           \* passes until s_sntp_start_due_tick
  handler,         \* where sntp_ip_event_handler is
  handlerReads,    \* the flags it has yet to read
  pass,            \* where sntp_start_if_pending is
  passReads,       \* the flags it has yet to read
  createFailures,  \* tasks not created so far
  starter,         \* where each sntp_start_task is
  stores,          \* the flags it has yet to store
  inits            \* history: calls of esp_sntp_init

stationVars == <<serverName, online, onlines>>
handlerVars == <<addresses, handler, handlerReads>>
passVars == <<pass, passReads, createFailures>>
starterVars == <<starter, stores, inits>>
sntpVars == <<stationVars, flag, dueIn, handlerVars, passVars, starterVars>>

Flags == {"started", "pending", "inProgress"}

SntpTypeOK ==
  /\ serverName \in ServerNames
  /\ online \in BOOLEAN /\ onlines \in 0..MaxOnline /\ addresses \in 0..MaxOnline
  /\ flag \in [Flags -> BOOLEAN]
  /\ dueIn \in 0..(SntpDelay + SntpRecheck + SntpRetry)
  /\ handler \in {"none", "read", "pending", "due"} /\ handlerReads \subseteq Flags
  /\ pass \in {"none", "read"} /\ passReads \subseteq Flags
  /\ createFailures \in 0..MaxCreateFailures
  /\ starter \in [Starters -> {"none", "check", "init", "store", "gone"}]
  /\ stores \in [Starters -> SUBSET Flags]
  /\ inits \in Nat

SntpInit ==
  /\ serverName \in ServerNames
  /\ online = FALSE /\ onlines = 0 /\ addresses = 0
  /\ flag = [f \in Flags |-> FALSE]
  /\ dueIn = 0
  /\ handler = "none" /\ handlerReads = {}
  /\ pass = "none" /\ passReads = {} /\ createFailures = 0
  /\ starter = [s \in Starters |-> "none"] /\ stores = [s \in Starters |-> {}]
  /\ inits = 0

GetsOnline ==
  /\ ~online /\ onlines < MaxOnline
  /\ online' = TRUE /\ onlines' = onlines + 1 /\ addresses' = addresses + 1
  /\ UNCHANGED <<serverName, flag, dueIn, handler, handlerReads, passVars, starterVars>>

GetsOffline ==
  /\ online
  /\ online' = FALSE
  /\ UNCHANGED <<serverName, onlines, flag, dueIn, handlerVars, passVars, starterVars>>

-----------------------------------------------------------------------------
(***************************************************************************)
(* sntp_ip_event_handler in the event loop's task.                         *)
(***************************************************************************)
GotAddress ==
  /\ addresses > 0 /\ handler = "none"
  /\ addresses' = addresses - 1
  /\ handler' = "read" /\ handlerReads' = Flags
  /\ UNCHANGED <<stationVars, flag, dueIn, passVars, starterVars>>

HandlerReads(f) ==
  /\ handler = "read" /\ f \in handlerReads
  /\ handlerReads' = IF flag[f] THEN {} ELSE handlerReads \ {f}
  /\ handler' = IF flag[f] THEN "none"
                ELSE IF handlerReads = {f} THEN "pending" ELSE "read"
  /\ UNCHANGED <<stationVars, addresses, flag, dueIn, passVars, starterVars>>

SchedulePending ==
  /\ handler = "pending"
  /\ flag' = [flag EXCEPT !["pending"] = TRUE]
  /\ handler' = "due"
  /\ UNCHANGED <<stationVars, addresses, dueIn, handlerReads, passVars, starterVars>>

ScheduleDue ==
  /\ handler = "due"
  /\ dueIn' = SntpDelay /\ handler' = "none"
  /\ UNCHANGED <<stationVars, addresses, flag, handlerReads, passVars, starterVars>>

AddressHandler ==
  \/ GotAddress
  \/ \E f \in Flags : HandlerReads(f)
  \/ SchedulePending \/ ScheduleDue

-----------------------------------------------------------------------------
(***************************************************************************)
(* sntp_start_if_pending in the input task.                                *)
(***************************************************************************)
\* Fault: whether a start is under way is not read.
ToReadBut == Flags \ {"inProgress"}

ToRead == Flags

SntpPass ==
  /\ pass = "none"
  /\ pass' = "read" /\ passReads' = ToRead
  /\ dueIn' = IF dueIn > 0 THEN dueIn - 1 ELSE 0
  /\ UNCHANGED <<stationVars, flag, handlerVars, createFailures, starterVars>>

PassReads(f) ==
  /\ pass = "read" /\ f \in passReads
  /\ IF flag[f] = (f = "pending")
       THEN passReads' = passReads \ {f} /\ UNCHANGED pass
       ELSE passReads' = {} /\ pass' = "none"
  /\ UNCHANGED <<stationVars, flag, dueIn, handlerVars, createFailures, starterVars>>

\* the three flags were as they must be for a start
Read == pass = "read" /\ passReads = {} /\ pass' = "none" /\ UNCHANGED passReads

SntpWaits ==
  /\ Read /\ dueIn > 0
  /\ UNCHANGED <<stationVars, flag, dueIn, handlerVars, createFailures, starterVars>>

SntpOffline ==
  /\ Read /\ dueIn = 0 /\ ~online
  /\ dueIn' = SntpRecheck
  /\ UNCHANGED <<stationVars, flag, handlerVars, createFailures, starterVars>>

SntpDisabled ==
  /\ Read /\ dueIn = 0 /\ online /\ ~serverName
  /\ flag' = [flag EXCEPT !["started"] = TRUE, !["pending"] = FALSE]
  /\ UNCHANGED <<stationVars, dueIn, handlerVars, createFailures, starterVars>>

SntpCreate(s) ==
  /\ Read /\ dueIn = 0 /\ online /\ serverName
  /\ starter[s] = "none"
  /\ flag' = [flag EXCEPT !["inProgress"] = TRUE]
  /\ starter' = [starter EXCEPT ![s] = "check"]
  /\ UNCHANGED <<stationVars, dueIn, handlerVars, createFailures, stores, inits>>

CreateFails ==
  /\ Read /\ dueIn = 0 /\ online /\ serverName
  /\ createFailures < MaxCreateFailures /\ createFailures' = createFailures + 1
  /\ dueIn' = SntpRetry
  /\ UNCHANGED <<stationVars, handlerVars, starterVars>>

\* Fault: the start that failed stays in progress.
SntpCreateFailsHeld == CreateFails /\ flag' = [flag EXCEPT !["inProgress"] = TRUE]

SntpCreateFails == CreateFails /\ flag' = [flag EXCEPT !["inProgress"] = FALSE]

SntpPoll ==
  \/ SntpPass
  \/ \E f \in Flags : PassReads(f)
  \/ SntpWaits \/ SntpOffline \/ SntpDisabled
  \/ \E s \in Starters : SntpCreate(s)
  \/ SntpCreateFails

-----------------------------------------------------------------------------
(***************************************************************************)
(* sntp_start_task: SNTP is initialised unless it is enabled, and then the *)
(* flags are stored.                                                       *)
(***************************************************************************)
StartCheck(s) ==
  /\ starter[s] = "check"
  /\ starter' = [starter EXCEPT ![s] = IF inits > 0 THEN "store" ELSE "init"]
  /\ stores' = [stores EXCEPT ![s] = Flags]
  /\ UNCHANGED <<stationVars, flag, dueIn, handlerVars, passVars, inits>>

StartInit(s) ==
  /\ starter[s] = "init"
  /\ inits' = inits + 1
  /\ starter' = [starter EXCEPT ![s] = "store"]
  /\ UNCHANGED <<stationVars, flag, dueIn, handlerVars, passVars, stores>>

StartStores(s, f) ==
  /\ starter[s] = "store" /\ f \in stores[s]
  /\ flag' = [flag EXCEPT ![f] = (f = "started")]
  /\ stores' = [stores EXCEPT ![s] = @ \ {f}]
  /\ starter' = [starter EXCEPT ![s] = IF stores[s] = {f} THEN "gone" ELSE "store"]
  /\ UNCHANGED <<stationVars, dueIn, handlerVars, passVars, inits>>

Starter ==
  \E s \in Starters : StartCheck(s) \/ StartInit(s) \/ \E f \in Flags : StartStores(s, f)

SntpNext == GetsOnline \/ GetsOffline \/ AddressHandler \/ SntpPoll \/ Starter

SntpFairness ==
  WF_sntpVars(AddressHandler) /\ WF_sntpVars(SntpPoll) /\ WF_sntpVars(Starter)

SntpSafetySpec == SntpInit /\ [][SntpNext]_sntpVars
SntpSpec == SntpSafetySpec /\ SntpFairness

-----------------------------------------------------------------------------
(***************************************************************************)
(* SNTP is initialised once, however the loads and stores, the events and  *)
(* the passes of the input task interleave.  (A pass that reads "started"  *)
(* before and "in progress" after the first task's stores does create a    *)
(* second task; that one finds SNTP enabled.)                              *)
(***************************************************************************)
InitialisedOnce == inits <= 1

(***************************************************************************)
(* Troubleshooting.md:32, the start is deferred but comes: a station that  *)
(* stays connected gets its time, whatever failed before.                  *)
(***************************************************************************)
SntpStarts == <>[]online => <>flag["started"]
=============================================================================
