----------------------------- MODULE WebService -----------------------------
(***************************************************************************)
(* main/web_service.c: the life of the HTTP server, driven by              *)
(* web_service_poll in the input task, and the requests its task answers.  *)
(*                                                                         *)
(* wifi and portal are what wifi_portal.c reports (module WifiPortal says  *)
(* when they change); here they change whenever they like.  The clock is   *)
(* the number of polls.  Routes are described by what their handlers check *)
(* and by the statuses they answer; JSON and headers are left out, and the *)
(* OPTIONS routes, which answer and do nothing else.                       *)
(***************************************************************************)
EXTENDS Naturals

CONSTANTS StartStable,    \* WEB_SERVICE_START_STABLE_MS, in polls
          StartRetry,     \* WEB_SERVICE_RETRY_MS, in polls
          ControlSettings, \* the settings of control to be considered
          WebFaults,      \* the calls of the HTTP server that may fail
          MaxFailures,    \* bound of the model: how often they do
          MaxFlips        \* bound of the model: changes of the network

ASSUME WebAssumption ==
  /\ StartStable \in Nat \ {0} /\ StartRetry \in Nat \ {0}
  /\ MaxFailures \in Nat /\ MaxFlips \in Nat
  /\ ControlSettings \subseteq [enabled : BOOLEAN, registered : BOOLEAN]
  /\ WebFaults \subseteq {"start", "register", "stop"}

VARIABLES
  wifi, portal, flips, \* wifi_portal_is_connected, wifi_portal_is_active
  servers,      \* HTTP servers that listen on the port
  failures,     \* failing calls so far
  running,      \* s_ws.running, with s_ws.server
  prevRun,      \* s_ws.prev_should_run
  wait,         \* polls until s_ws.next_start_retry_tick
  poll,         \* where web_service_poll is
  wifiSeen,     \* the first of the two answers it reads
  steady,       \* history: polls that have found the network ready in a row
  control,      \* MACRO_WEB_SERVICE_CONTROL_ENABLED, s_ws.control_registered
  request       \* the request the server's task handles

networkVars == <<wifi, portal, flips>>
pollVars == <<running, prevRun, wait, poll, wifiSeen, steady>>
webVars == <<networkVars, servers, failures, pollVars, control, request>>

(***************************************************************************)
(* The routes: what their handlers check on the way, and what an error of  *)
(* the call they make becomes.  A silent one is told nothing of an error:  *)
(* web_control_send_consumer (main.c:593) drops what the report's sending  *)
(* returned.                                                               *)
(***************************************************************************)
Handler(checks, errors, silent) ==
  [checks |-> checks, errors |-> errors, silent |-> silent]

ReadGet == Handler({}, {500}, FALSE)
OtaPost == Handler({"control", "body"}, {400, 403, 409, 500}, FALSE)
LayerPost == Handler({"control", "body", "parameter", "callback"}, {500}, FALSE)
BuzzerPost == LayerPost
ConsumerPost == Handler({"control", "body", "parameter", "callback"}, {500}, TRUE)
ModePost == Handler({"control", "body", "parameter", "callback"}, {409, 500}, FALSE)
PairPost == ModePost
ClearBondPost == Handler({"control", "callback"}, {409, 500}, FALSE)

Routes == {ReadGet, OtaPost, LayerPost, BuzzerPost, ConsumerPost, ModePost, PairPost,
           ClearBondPost}

Statuses == {200, 400, 401, 403, 409, 500, 503}

\* answers: the statuses sent so far for this request; permitted: no guard has
\* refused it
Request(step, handler) ==
  [step |-> step, handler |-> handler, answers |-> {}, sent |-> 0,
   permitted |-> TRUE, applied |-> FALSE]

NoRequests == Request("none", ReadGet)

WebTypeOK ==
  /\ wifi \in BOOLEAN /\ portal \in BOOLEAN /\ flips \in 0..MaxFlips
  /\ servers \in 0..1 /\ failures \in 0..MaxFailures
  /\ running \in BOOLEAN /\ prevRun \in BOOLEAN
  /\ wait \in 0..(StartStable + StartRetry)
  /\ poll \in {"idle", "portal", "start", "register", "mark", "stop"}
  /\ wifiSeen \in BOOLEAN
  /\ steady \in 0..(StartStable + 1)
  /\ control \in ControlSettings
  /\ request \in [step : {"none", "auth", "control", "body", "apply", "done"},
                  handler : Routes, answers : SUBSET Statuses, sent : 0..3,
                  permitted : BOOLEAN, applied : BOOLEAN]

WebInit ==
  /\ wifi = FALSE /\ portal = FALSE /\ flips = 0
  /\ servers = 0 /\ failures = 0
  /\ running = FALSE /\ prevRun = FALSE /\ wait = 0
  /\ poll = "idle" /\ wifiSeen = FALSE /\ steady = 0
  /\ control \in ControlSettings /\ request = NoRequests

Flip ==
  /\ flips < MaxFlips /\ flips' = flips + 1
  /\ \/ wifi' = ~wifi /\ portal' = portal
     \/ portal' = ~portal /\ wifi' = wifi
  /\ UNCHANGED <<servers, failures, pollVars, control, request>>

-----------------------------------------------------------------------------
(***************************************************************************)
(* web_service_poll.  The two answers about the network are read one after *)
(* the other; what is decided on them is carried out step by step.         *)
(***************************************************************************)
PollConnected ==
  /\ poll = "idle"
  /\ wifiSeen' = wifi
  /\ wait' = IF wait > 0 THEN wait - 1 ELSE 0
  /\ poll' = "portal"
  /\ UNCHANGED <<networkVars, servers, failures, running, prevRun, steady, control, request>>

ShouldRun == wifiSeen /\ ~portal

\* Fault: the delay begins anew with every poll that finds the network ready.
WaitAnew == IF ShouldRun THEN StartStable ELSE wait

\* Fault: the delay is only ever run once.
WaitOnce == wait

WaitAfter == IF ShouldRun /\ ~prevRun THEN StartStable ELSE wait

PollDecide ==
  /\ poll = "portal"
  /\ wait' = WaitAfter
  /\ prevRun' = ShouldRun
  /\ steady' = IF ~ShouldRun THEN 0
               ELSE IF steady > StartStable THEN steady ELSE steady + 1
  /\ poll' = IF ShouldRun /\ ~running /\ WaitAfter = 0 THEN "start"
             ELSE IF ~ShouldRun /\ running THEN "stop" ELSE "idle"
  /\ running' = (running /\ poll' # "stop")
  /\ UNCHANGED <<networkVars, servers, failures, wifiSeen, control, request>>

\* a call fails; a start is then tried again
Fails(call) ==
  /\ call \in WebFaults /\ failures < MaxFailures
  /\ failures' = failures + 1

NotStarted == poll' = "idle" /\ wait' = StartRetry

\* the port may still be taken by a server that could not be stopped
HttpdStart ==
  /\ poll = "start"
  /\ \/ /\ servers = 0
        /\ servers' = 1 /\ poll' = "register"
        /\ UNCHANGED <<wait, failures>>
     \/ /\ IF servers = 0 THEN Fails("start") ELSE UNCHANGED failures
        /\ NotStarted
        /\ UNCHANGED servers
  /\ UNCHANGED <<networkVars, running, prevRun, wifiSeen, steady, control, request>>

\* Fault: the server is left alone with the routes it has.
RegisterFailsUnstopped ==
  /\ poll = "register" /\ Fails("register")
  /\ NotStarted
  /\ UNCHANGED <<networkVars, servers, running, prevRun, wifiSeen, steady, control, request>>

RegisterFails ==
  /\ poll = "register" /\ Fails("register")
  /\ request.step = "none"
  /\ servers' = 0
  /\ NotStarted
  /\ UNCHANGED <<networkVars, running, prevRun, wifiSeen, steady, control, request>>

RegisterRoutes ==
  /\ poll = "register"
  /\ poll' = "mark"
  /\ UNCHANGED <<networkVars, servers, failures, running, prevRun, wait, wifiSeen,
                 steady, control, request>>

MarkRunning ==
  /\ poll = "mark"
  /\ running' = TRUE /\ poll' = "idle"
  /\ UNCHANGED <<networkVars, servers, failures, prevRun, wait, wifiSeen, steady,
                 control, request>>

\* httpd_stop waits for the request under way; it may leave the server there
HttpdStop ==
  /\ poll = "stop"
  /\ request.step = "none"
  /\ servers' \in {0} \cup (IF "stop" \in WebFaults THEN {servers} ELSE {})
  /\ poll' = "idle"
  /\ UNCHANGED <<networkVars, failures, running, prevRun, wait, wifiSeen, steady,
                 control, request>>

WebPoll ==
  \/ PollConnected \/ PollDecide
  \/ HttpdStart \/ RegisterRoutes \/ RegisterFails \/ MarkRunning \/ HttpdStop

-----------------------------------------------------------------------------
(***************************************************************************)
(* A request in the server's task, from its handler's first line to its    *)
(* last.  An answer that cannot be sent is the handler's last; one whose   *)
(* sending breaks off counts as one.                                       *)
(***************************************************************************)
outsideVars == <<networkVars, servers, failures, pollVars, control>>

Arrives ==
  /\ servers > 0 /\ poll # "stop" /\ request.step = "none"
  /\ \E h \in Routes : request' = Request("auth", h)
  /\ UNCHANGED outsideVars

GoesOn(step) == request' = [request EXCEPT !.step = step]

Answers(status) ==
  request' = [request EXCEPT !.step = "done", !.sent = @ + 1,
                             !.answers = @ \cup {status}]

\* what the request asks for is done
Succeeds ==
  request' = [request EXCEPT !.step = "done", !.sent = @ + 1,
                             !.answers = @ \cup {200}, !.applied = TRUE]

\* a guard answers, and returns what sending the answer returned: the handler
\* goes on if that is ESP_OK
Refuses(status, next) ==
  \E step \in {next, "done"} :
    request' = [request EXCEPT !.step = step, !.sent = @ + 1, !.permitted = FALSE,
                               !.answers = @ \cup {status}]

\* no credentials are asked for, or the request has them, or it has not
AuthGuard ==
  /\ request.step = "auth"
  /\ GoesOn("control") \/ Refuses(401, "control")
  /\ UNCHANGED outsideVars

Guard ==
  /\ request.step = "control"
  /\ IF "control" \notin request.handler.checks \/ (control.enabled /\ control.registered)
       THEN GoesOn("body")
       ELSE Refuses(IF control.enabled THEN 503 ELSE 403, "body")
  /\ UNCHANGED outsideVars

\* Fault: the handler goes on after the answer.
ReadBodyGoesOn ==
  /\ request.step = "body"
  /\ \/ GoesOn("apply")
     \/ /\ "body" \in request.handler.checks
        /\ request' = [request EXCEPT !.step = "apply", !.sent = @ + 1,
                                      !.answers = @ \cup {400}]
  /\ UNCHANGED outsideVars

ReadBody ==
  /\ request.step = "body"
  /\ \/ GoesOn("apply")
     \/ "body" \in request.handler.checks /\ Answers(400)
  /\ UNCHANGED outsideVars

\* Fault: what the callback returns is not looked at.
ApplyBlindly ==
  /\ request.step = "apply"
  /\ Succeeds \/ Answers(200)
  /\ UNCHANGED outsideVars

\* the parameter is checked, then that there is a callback, then what it returns;
\* what a read asks for is done when it is answered with 200
Apply ==
  /\ request.step = "apply"
  /\ \/ "parameter" \in request.handler.checks /\ Answers(400)
     \/ /\ "callback" \in request.handler.checks /\ ~control.registered
        /\ Answers(503)
     \/ /\ "callback" \in request.handler.checks => control.registered
        /\ \/ \E status \in request.handler.errors : Answers(status)
           \/ Succeeds
           \/ request.handler.silent /\ Answers(200)
  /\ UNCHANGED outsideVars

Finished ==
  /\ request.step = "done"
  /\ request' = NoRequests
  /\ UNCHANGED outsideVars

Handle == AuthGuard \/ Guard \/ ReadBody \/ Apply \/ Finished

WebNext == Flip \/ WebPoll \/ Arrives \/ Handle

\* the input task polls and the server's task answers; nobody has to ask
WebFairness == WF_webVars(WebPoll) /\ WF_webVars(Handle)

WebSafetySpec == WebInit /\ [][WebNext]_webVars
WebSpec == WebSafetySpec /\ WebFairness

-----------------------------------------------------------------------------
(***************************************************************************)
(* A server that listens is the one s_ws knows, or is being started or     *)
(* stopped: no failing step leaves one behind that no poll would stop.     *)
(* (httpd_stop is trusted here: were it to fail, one would be.)            *)
(***************************************************************************)
NoServerLeft == poll \in {"idle", "portal"} => (servers = 1 <=> running)

(***************************************************************************)
(* A start comes after StartStable polls that found the device connected   *)
(* and the portal closed, and a server does not outlive the connection     *)
(* that had become unstable before it: the deadline belongs to this        *)
(* connection and not to an earlier one.                                   *)
(***************************************************************************)
StartsWhenStable == [][HttpdStart => steady > StartStable]_webVars

(***************************************************************************)
(* A request that no guard refuses is answered once, and with 200 (or 202) *)
(* if what it asks for was done; it is answered with 200 without that only *)
(* if its handler is told nothing of an error.                             *)
(***************************************************************************)
AnsweredOnce ==
  request.step = "done" /\ request.permitted =>
    /\ request.sent = 1
    /\ request.applied => 200 \in request.answers
    /\ 200 \in request.answers => request.applied \/ request.handler.silent

(***************************************************************************)
(* Web-Service.md:87, "If control is disabled, routes return `403`" and    *)
(* API-Reference.md:225: what was refused is not done.                     *)
(***************************************************************************)
RefusedHasNoEffect == 403 \in request.answers => ~request.applied

(***************************************************************************)
(* The server follows the network once that is steady: it comes to run,    *)
(* also after failing starts, and is gone when the portal has opened or    *)
(* the connection is lost.                                                 *)
(***************************************************************************)
ServerFollowsNetwork ==
  /\ <>[](wifi /\ ~portal) => <>[](running /\ servers = 1)
  /\ <>[](~wifi \/ portal) => <>[](~running /\ servers = 0)
=============================================================================
