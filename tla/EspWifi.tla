------------------------------ MODULE EspWifi -------------------------------
(***************************************************************************)
(* External: the station side of the ESP-IDF Wi-Fi driver and the queue of *)
(* the default event loop, as wifi_portal.c uses them.                     *)
(*                                                                         *)
(* The driver joins the network, gets an address there and loses it by     *)
(* itself; of these changes, the ones that wifi_event_handler listens to   *)
(* are appended to a queue that one task, the event loop, empties later.   *)
(* It does not listen to the association itself, so that nothing is queued *)
(* for a station that is associated and waits for an address.              *)
(***************************************************************************)
EXTENDS Naturals, Sequences, SequencesExt

CONSTANT MaxEvents   \* bound of the model: the driver is idle while so many are queued

VARIABLES
  wifiStarted,  \* s_wifi_started: esp_wifi_start() has succeeded
  link,         \* with the access point; "up": associated and with an address
  events        \* posted and not yet handled

driverVars == <<wifiStarted, link, events>>

Events == {"sta_start", "disconnected", "got_ip"}

DriverTypeOK ==
  /\ wifiStarted \in BOOLEAN
  /\ link \in {"down", "joining", "associated", "up"}
  /\ events \in Seq(Events)

DriverInit == wifiStarted = FALSE /\ link = "down" /\ events = <<>>

DriverReset == wifiStarted' = FALSE /\ link' = "down" /\ events' = <<>>

\* esp_wifi_start, only if it was not called before
EnsureStarted ==
  /\ wifiStarted' = TRUE
  /\ events' = IF wifiStarted THEN events ELSE Append(events, "sta_start")
  /\ link' = link

\* esp_wifi_connect from now on, with the events evs still to be handled; a
\* association that stood is dropped for the new one
JoinWith(evs) ==
  /\ link' = "joining"
  /\ events' = IF link \in {"associated", "up"} THEN Append(evs, "disconnected") ELSE evs
  /\ wifiStarted' = wifiStarted

Moves(from, to) ==
  /\ link \in from
  /\ link' = to
  /\ Len(events) < MaxEvents
  /\ wifiStarted' = wifiStarted

Posts(event) == events' = Append(events, event)

Joins == Moves({"joining"}, "associated") /\ events' = events
JoinFails == Moves({"joining"}, "down") /\ Posts("disconnected")

\* the DHCP client is answered, which may never happen
GetsAddress == Moves({"associated"}, "up") /\ Posts("got_ip")

Drops == Moves({"associated", "up"}, "down") /\ Posts("disconnected")
=============================================================================
