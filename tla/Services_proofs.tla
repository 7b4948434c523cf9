--------------------------- MODULE Services_proofs ---------------------------
(***************************************************************************)
(* Proofs about the network's services that depend on no other component:  *)
(* WebService, for every delay and every number of failing calls and of    *)
(* changes of the network; SntpStart, for every delay and every number of  *)
(* tasks, connections and failures; LogStore, for every size of the ring,  *)
(* of its entries and of the buffers, and for everything that may be       *)
(* logged.  At the end, what is proved of the components, here and in the  *)
(* two modules this one extends, is carried over to MCServices.            *)
(***************************************************************************)
EXTENDS MCServices, HomeAssistant_proofs, InputDevices_proofs, SequenceTheorems, TLAPS

(***************************************************************************)
(* WebService.                                                             *)
(***************************************************************************)
\* what httpd_start's answer is used for; httpd_stop stops what it is given
ServerKnown ==
  /\ poll = "start" => ~running /\ servers = 0
  /\ poll \in {"register", "mark"} => ~running /\ servers = 1
  /\ poll = "stop" => ~running
  /\ poll \in {"idle", "portal"} => (servers = 1 <=> running)

StopTrusted == "stop" \notin WebFaults

\* what is left of the delay makes up for the polls that are missing; between
\* the two halves of a poll the delay is one ahead
DelayCovers ==
  /\ prevRun <=> steady > 0
  /\ prevRun => \/ steady > StartStable
                \/ steady + wait >= StartStable + (IF poll = "portal" THEN 0 ELSE 1)
  /\ poll \in {"start", "register", "mark"} => prevRun /\ steady > StartStable

\* a guard that refuses has sent one answer
RequestInOrder ==
  /\ request.step \in {"none", "auth"} => request.permitted /\ request.sent = 0
  /\ request.step # "done" =>
       /\ request.permitted => request.sent = 0
       /\ request.sent <= IF request.step = "control" THEN 1 ELSE 2
       /\ 200 \notin request.answers /\ ~request.applied
  /\ request.step = "done" =>
       /\ request.permitted => request.sent = 1
       /\ request.applied => 200 \in request.answers
       /\ 200 \in request.answers => request.applied \/ request.handler.silent

WebIInv ==
  /\ WebTypeOK
  /\ StopTrusted => ServerKnown
  /\ DelayCovers
  /\ RequestInOrder

-----------------------------------------------------------------------------
LEMMA WebInitEstablishesInvariant == WebInit => WebIInv
  <1> SUFFICES ASSUME WebInit PROVE WebIInv
    OBVIOUS
  <1>1. WebTypeOK
    <2>1. NoRequests \in [step : {"none", "auth", "control", "body", "apply", "done"},
                          handler : Routes, answers : SUBSET Statuses, sent : 0..3,
                          permitted : BOOLEAN, applied : BOOLEAN]
      BY DEF NoRequests, Request, Routes
    <2>2. 0 \in 0..MaxFlips /\ 0 \in 0..1 /\ 0 \in 0..MaxFailures
          /\ 0 \in 0..(StartStable + StartRetry) /\ 0 \in 0..(StartStable + 1)
      BY WebAssumption
    <2> QED
      BY <2>1, <2>2, Zenon DEF WebInit, WebTypeOK
  <1>2. ServerKnown /\ DelayCovers
    BY DEF WebInit, ServerKnown, DelayCovers
  <1>3. RequestInOrder
    BY DEF WebInit, RequestInOrder, NoRequests, Request
  <1> QED
    BY <1>1, <1>2, <1>3 DEF WebIInv

LEMMA FlipKeepsInvariant ==
  ASSUME WebIInv, Flip
  PROVE  WebIInv'
  <1>0. wifi' \in BOOLEAN /\ portal' \in BOOLEAN
    BY Zenon DEF Flip, WebIInv, WebTypeOK
  <1>1. flips' \in 0..MaxFlips
    BY WebAssumption DEF Flip, WebIInv, WebTypeOK
  <1>2. UNCHANGED <<servers, failures, pollVars, control, request>>
    BY Zenon DEF Flip
  <1>3. WebTypeOK'
    BY <1>0, <1>1, <1>2, Zenon DEF WebIInv, WebTypeOK, pollVars
  <1> QED
    BY <1>2, <1>3 DEF WebIInv, ServerKnown, DelayCovers, RequestInOrder, pollVars

-----------------------------------------------------------------------------
(***************************************************************************)
(* web_service_poll.                                                       *)
(***************************************************************************)
LEMMA PollConnectedKeepsInvariant ==
  ASSUME WebIInv, PollConnected
  PROVE  WebIInv'
  <1>1. wait' \in 0..(StartStable + StartRetry)
    BY WebAssumption DEF PollConnected, WebIInv, WebTypeOK
  <1>2. WebTypeOK'
    BY <1>1, Zenon DEF PollConnected, WebIInv, WebTypeOK, networkVars
  <1>3. DelayCovers'
    BY WebAssumption DEF PollConnected, WebIInv, WebTypeOK, DelayCovers
  <1>4. RequestInOrder'
    BY Zenon DEF PollConnected, WebIInv, RequestInOrder
  <1>5. StopTrusted => ServerKnown'
    BY Zenon DEF PollConnected, WebIInv, ServerKnown
  <1> QED
    BY <1>2, <1>3, <1>4, <1>5, Zenon DEF WebIInv, StopTrusted

LEMMA PollDecideKeepsInvariant ==
  ASSUME WebIInv, PollDecide
  PROVE  WebIInv'
  <1> USE DEF WebIInv, PollDecide
  <1>1. /\ wait' \in 0..(StartStable + StartRetry)
        /\ steady' \in 0..(StartStable + 1)
    BY WebAssumption DEF WebTypeOK, WaitAfter
  <1>2. /\ poll' \in {"idle", "start", "stop"}
        /\ prevRun' \in BOOLEAN /\ running' \in BOOLEAN
    BY DEF WebTypeOK, ShouldRun
  <1>3. UNCHANGED <<networkVars, servers, failures, wifiSeen, control, request>>
    BY Zenon
  <1>4. WebTypeOK'
    BY <1>1, <1>2, <1>3, Zenon DEF WebTypeOK, networkVars
  <1>5. DelayCovers'
    BY WebAssumption DEF WebTypeOK, DelayCovers, WaitAfter
  <1>6. RequestInOrder'
    BY <1>3, Zenon DEF RequestInOrder
  <1>7. ASSUME StopTrusted PROVE ServerKnown'
    <2>1. servers' = servers /\ (servers = 1 <=> running)
      BY <1>3, <1>7, Zenon DEF ServerKnown
    <2>2. poll' = "idle" => (running' <=> running)
      BY Zenon
    <2>3. poll' = "start" => ~running /\ ~running'
      BY Zenon
    <2>4. poll' = "stop" => ~running'
      BY Zenon
    <2> QED
      BY <1>2, <2>1, <2>2, <2>3, <2>4 DEF WebTypeOK, ServerKnown
  <1> QED
    BY <1>4, <1>5, <1>6, <1>7, Zenon DEF StopTrusted

LEMMA HttpdKeepsInvariant ==
  ASSUME WebIInv, HttpdStart \/ RegisterRoutes \/ RegisterFails \/ MarkRunning \/ HttpdStop
  PROVE  WebIInv'
  <1> DEFINE Step == HttpdStart \/ RegisterRoutes \/ RegisterFails \/ MarkRunning
                     \/ HttpdStop
  <1>1. /\ wait' \in 0..(StartStable + StartRetry)
        /\ failures' \in 0..MaxFailures /\ servers' \in 0..1
    BY WebAssumption DEF WebIInv, WebTypeOK, HttpdStart, RegisterRoutes, RegisterFails,
       MarkRunning, HttpdStop, Fails, NotStarted
  <1>2. poll' \in {"idle", "register", "mark"} /\ running' \in BOOLEAN
    BY DEF WebIInv, WebTypeOK, HttpdStart, RegisterRoutes, RegisterFails,
       MarkRunning, HttpdStop, Fails, NotStarted
  <1>3. UNCHANGED <<networkVars, prevRun, wifiSeen, steady, control, request>>
    BY Zenon DEF HttpdStart, RegisterRoutes, RegisterFails, MarkRunning, HttpdStop
  <1>4. WebTypeOK'
    BY <1>1, <1>2, <1>3, Zenon DEF WebIInv, WebTypeOK, networkVars
  <1>5. DelayCovers'
    <2>1. CASE poll = "stop"
      BY <2>1, <1>3 DEF WebIInv, DelayCovers, HttpdStart, RegisterRoutes, RegisterFails,
         MarkRunning, HttpdStop
    <2>2. CASE poll # "stop"
      BY <2>2, <1>2, <1>3 DEF WebIInv, DelayCovers, HttpdStart, RegisterRoutes,
         RegisterFails, MarkRunning, HttpdStop
    <2> QED
      BY <2>1, <2>2
  <1>6. RequestInOrder'
    BY <1>3, Zenon DEF WebIInv, RequestInOrder
  <1>7. ASSUME StopTrusted PROVE ServerKnown'
    BY <1>7 DEF WebIInv, WebTypeOK, ServerKnown, StopTrusted, HttpdStart, RegisterRoutes,
       RegisterFails, MarkRunning, HttpdStop, NotStarted
  <1> QED
    BY <1>4, <1>5, <1>6, <1>7, Zenon DEF WebIInv, StopTrusted

-----------------------------------------------------------------------------
(***************************************************************************)
(* Requests.                                                               *)
(***************************************************************************)
RequestSteps == {"none", "auth", "control", "body", "apply", "done"}

Requests == [step : RequestSteps, handler : Routes, answers : SUBSET Statuses,
             sent : 0..3, permitted : BOOLEAN, applied : BOOLEAN]

LEMMA RequestIsItsFields ==
  ASSUME NEW step \in RequestSteps, NEW by \in Routes, NEW answers \in SUBSET Statuses,
         NEW n \in 0..3, NEW permitted \in BOOLEAN, NEW applied \in BOOLEAN,
         request' = [step |-> step, handler |-> by, answers |-> answers, sent |-> n,
                     permitted |-> permitted, applied |-> applied]
  PROVE  /\ request' \in Requests
         /\ request'.step = step /\ request'.handler = by /\ request'.answers = answers
         /\ request'.sent = n /\ request'.permitted = permitted
         /\ request'.applied = applied
  <1>1. request' \in Requests
    BY Zenon DEF Requests
  <1> QED
    BY <1>1, Zenon

LEMMA RequestArrives ==
  ASSUME NEW step \in {"none", "auth"}, NEW h \in Routes, request' = Request(step, h)
  PROVE  request' \in Requests /\ RequestInOrder'
  <1>1. /\ 0 \in 0..3 /\ step \in RequestSteps /\ {} \in SUBSET Statuses
        /\ FALSE \in BOOLEAN /\ TRUE \in BOOLEAN
    BY DEF RequestSteps
  <1>a. PICK yes \in BOOLEAN : yes = TRUE
    OBVIOUS
  <1>b. PICK no \in BOOLEAN : no = FALSE
    OBVIOUS
  <1>2. request' = [step |-> step, handler |-> h, answers |-> {}, sent |-> 0,
                    permitted |-> yes, applied |-> no]
    BY <1>a, <1>b, Zenon DEF Request
  <1>3. /\ request' \in Requests /\ request'.step = step
        /\ request'.answers = {} /\ request'.sent = 0
        /\ request'.permitted = yes /\ request'.applied = no
    BY <1>1, <1>2, RequestIsItsFields
  <1> QED
    BY <1>a, <1>b, <1>3 DEF RequestInOrder

\* the handler goes on without an answer
LEMMA RequestGoesOn ==
  ASSUME request \in Requests, RequestInOrder, NEW step,
         \/ request.step = "auth" /\ step = "control"
         \/ request.step = "control" /\ step = "body"
         \/ request.step = "body" /\ step = "apply",
         GoesOn(step)
  PROVE  request' \in Requests /\ RequestInOrder'
  <1>1. request' = [step |-> step, handler |-> request.handler,
                    answers |-> request.answers, sent |-> request.sent,
                    permitted |-> request.permitted, applied |-> request.applied]
    BY Zenon DEF Requests, GoesOn
  <1>2. /\ step \in RequestSteps /\ request.handler \in Routes
        /\ request.answers \in SUBSET Statuses /\ request.sent \in 0..3
        /\ request.permitted \in BOOLEAN /\ request.applied \in BOOLEAN
    BY DEF Requests, RequestSteps
  <1>3. /\ request' \in Requests /\ request'.step = step
        /\ request'.answers = request.answers /\ request'.sent = request.sent
        /\ request'.permitted = request.permitted /\ request'.applied = request.applied
    BY <1>1, <1>2, RequestIsItsFields
  <1>4. (request'.permitted => request'.sent = 0)
        /\ 200 \notin request'.answers /\ ~request'.applied
    BY <1>3, Zenon DEF RequestInOrder
  <1>5. request'.sent <= IF request'.step = "control" THEN 1 ELSE 2
    <2>1. CASE request.step = "auth" /\ step = "control"
      BY <1>2, <1>3, <2>1 DEF RequestInOrder
    <2>2. CASE request.step \in {"control", "body"} /\ step \in {"body", "apply"}
      BY <1>2, <1>3, <2>2 DEF RequestInOrder
    <2> QED
      BY <2>1, <2>2
  <1> QED
    BY <1>3, <1>4, <1>5 DEF RequestInOrder

\* a guard refuses and the handler goes on or ends
LEMMA RequestIsRefused ==
  ASSUME request \in Requests, RequestInOrder,
         NEW status \in Statuses \ {200}, NEW next,
         \/ request.step = "auth" /\ next = "control"
         \/ request.step = "control" /\ next = "body",
         Refuses(status, next)
  PROVE  request' \in Requests /\ RequestInOrder'
  <1>1. PICK step \in {next, "done"} :
          request' = [request EXCEPT !.step = step, !.sent = @ + 1, !.permitted = FALSE,
                                     !.answers = @ \cup {status}]
    BY Zenon DEF Refuses
  <1>2. request' = [step |-> step, handler |-> request.handler,
                    answers |-> request.answers \cup {status},
                    sent |-> request.sent + 1, permitted |-> FALSE,
                    applied |-> request.applied]
    BY <1>1, Zenon DEF Requests
  <1>3. /\ request.sent \in 0..3 /\ request.sent <= 1
        /\ request.step = "auth" => request.sent = 0
    BY DEF Requests, RequestInOrder
  <1>4. /\ step \in RequestSteps /\ request.handler \in Routes
        /\ request.answers \cup {status} \in SUBSET Statuses
        /\ request.sent + 1 \in 0..3 /\ FALSE \in BOOLEAN
        /\ request.applied \in BOOLEAN
    BY <1>3 DEF Requests, RequestSteps
  <1>5. /\ request' \in Requests /\ request'.step = step
        /\ request'.answers = request.answers \cup {status}
        /\ request'.sent = request.sent + 1 /\ request'.permitted = FALSE
        /\ request'.applied = request.applied
    BY <1>2, <1>4, RequestIsItsFields
  <1>6. request.step # "done"
    OBVIOUS
  <1>7. 200 \notin request.answers /\ ~request.applied
    BY <1>6, Zenon DEF RequestInOrder
  <1>8. ~request'.permitted /\ ~request'.applied
    BY <1>5, <1>7, Zenon
  <1>9. 200 \notin request'.answers
    BY <1>5, <1>7
  <1>10. request'.step = "control" => request'.sent <= 1
    BY <1>3, <1>5
  <1>11. request'.sent <= 2 /\ request'.step \notin {"none", "auth"}
    BY <1>3, <1>5
  <1> QED
    BY <1>5, <1>8, <1>9, <1>10, <1>11 DEF RequestInOrder

\* the last answer, of something that was not done
LEMMA RequestIsAnswered ==
  ASSUME request \in Requests, RequestInOrder, request.step \in {"body", "apply"},
         NEW status \in Statuses, status = 200 => request.handler.silent,
         Answers(status)
  PROVE  request' \in Requests /\ RequestInOrder'
  <1>0. PICK last \in RequestSteps : last = "done"
    BY DEF RequestSteps
  <1>1. request' = [step |-> last, handler |-> request.handler,
                    answers |-> request.answers \cup {status},
                    sent |-> request.sent + 1, permitted |-> request.permitted,
                    applied |-> request.applied]
    BY <1>0, Zenon DEF Requests, Answers
  <1>2. /\ request.sent \in 0..3 /\ request.sent <= 2
        /\ request.permitted => request.sent = 0
        /\ 200 \notin request.answers /\ ~request.applied
    BY DEF Requests, RequestInOrder
  <1>3. /\ request.handler \in Routes
        /\ request.answers \cup {status} \in SUBSET Statuses
        /\ request.sent + 1 \in 0..3 /\ request.permitted \in BOOLEAN
        /\ request.applied \in BOOLEAN
    BY <1>2 DEF Requests, RequestSteps
  <1>4. /\ request' \in Requests /\ request'.step = last
        /\ request'.handler = request.handler
        /\ request'.answers = request.answers \cup {status}
        /\ request'.sent = request.sent + 1 /\ request'.permitted = request.permitted
        /\ request'.applied = request.applied
    BY <1>1, <1>3, RequestIsItsFields
  <1>5. request'.permitted => request'.sent = 1
    BY <1>2, <1>4
  <1>6. ~request'.applied
    BY <1>2, <1>4, Zenon
  <1>7. 200 \in request'.answers => request'.handler.silent
    BY <1>2, <1>4
  <1> QED
    BY <1>0, <1>4, <1>5, <1>6, <1>7, Zenon DEF RequestInOrder

\* the last answer, of something that was done
LEMMA RequestSucceeds ==
  ASSUME request \in Requests, RequestInOrder, request.step \in {"body", "apply"},
         Succeeds
  PROVE  request' \in Requests /\ RequestInOrder'
  <1>0. PICK last \in RequestSteps : last = "done"
    BY DEF RequestSteps
  <1>a. PICK done \in BOOLEAN : done = TRUE
    OBVIOUS
  <1>b. PICK status \in Statuses : status = 200
    BY DEF Statuses
  <1>1. request' = [step |-> last, handler |-> request.handler,
                    answers |-> request.answers \cup {status},
                    sent |-> request.sent + 1, permitted |-> request.permitted,
                    applied |-> done]
    BY <1>0, <1>a, <1>b, Zenon DEF Requests, Succeeds
  <1>2. /\ request.sent \in 0..3 /\ request.sent <= 2
        /\ request.permitted => request.sent = 0
    BY DEF Requests, RequestInOrder
  <1>3. /\ request.handler \in Routes
        /\ request.answers \cup {status} \in SUBSET Statuses
        /\ request.sent + 1 \in 0..3 /\ request.permitted \in BOOLEAN
    BY <1>2 DEF Requests, RequestSteps
  <1>4. /\ request' \in Requests /\ request'.step = last
        /\ request'.handler = request.handler
        /\ request'.answers = request.answers \cup {status}
        /\ request'.sent = request.sent + 1 /\ request'.permitted = request.permitted
        /\ request'.applied = done
    BY <1>1, <1>3, RequestIsItsFields
  <1>5. request'.permitted => request'.sent = 1
    BY <1>2, <1>4
  <1>6. request'.applied
    BY <1>4, <1>a, Zenon
  <1>7. 200 \in request'.answers
    BY <1>4, <1>b
  <1> QED
    BY <1>0, <1>4, <1>5, <1>6, <1>7, Zenon DEF RequestInOrder

LEMMA RequestKeepsInvariant ==
  ASSUME WebIInv, Arrives \/ Handle
  PROVE  WebIInv'
  <1>1. request \in Requests /\ RequestInOrder
    BY Zenon DEF WebIInv, WebTypeOK, Requests, RequestSteps
  <1>2. UNCHANGED outsideVars
    BY Zenon DEF Arrives, Handle, AuthGuard, Guard, ReadBody, Apply, Finished
  <1>3. request' \in Requests /\ RequestInOrder'
    <2> DEFINE Goal == request' \in Requests /\ RequestInOrder'
    <2>1. /\ 401 \in Statuses \ {200} /\ 403 \in Statuses \ {200}
          /\ 400 \in Statuses \ {200} /\ 503 \in Statuses \ {200}
          /\ 200 \in Statuses
      BY DEF Statuses
    <2>2. CASE Arrives
      BY <2>2, RequestArrives, Zenon DEF Arrives
    <2>3. CASE AuthGuard
      <3>1. request.step = "auth" /\ (GoesOn("control") \/ Refuses(401, "control"))
        BY <2>3, Zenon DEF AuthGuard
      <3> QED
        BY <1>1, <2>1, <3>1, RequestGoesOn, RequestIsRefused
    <2>4. CASE Guard
      <3>1. request.step = "control"
        BY <2>4, Zenon DEF Guard
      <3>2. CASE GoesOn("body")
        BY <1>1, <3>1, <3>2, RequestGoesOn
      <3>3. CASE Refuses(503, "body") \/ Refuses(403, "body")
        BY <1>1, <2>1, <3>1, <3>3, RequestIsRefused
      <3>4. GoesOn("body") \/ Refuses(503, "body") \/ Refuses(403, "body")
        BY <2>4, Zenon DEF Guard
      <3> QED
        BY <3>2, <3>3, <3>4, Zenon
    <2>5. ASSUME NEW status \in Statuses \ {200}, Answers(status),
                 request.step \in {"body", "apply"}
          PROVE  Goal
      BY <1>1, <2>5, RequestIsAnswered
    <2>6. CASE ReadBody
      <3>1. request.step = "body" /\ (GoesOn("apply") \/ Answers(400))
        BY <2>6, Zenon DEF ReadBody
      <3>2. CASE GoesOn("apply")
        BY <1>1, <3>1, <3>2, RequestGoesOn
      <3>3. request.step \in {"body", "apply"}
        BY <3>1
      <3>4. CASE Answers(400)
        BY <2>1, <2>5, <3>3, <3>4
      <3> QED
        BY <3>1, <3>2, <3>4, Zenon
    <2>7. CASE Apply
      <3>1. \A h \in Routes : h.errors \subseteq Statuses \ {200}
        BY DEF Routes, ReadGet, OtaPost, LayerPost, BuzzerPost, ConsumerPost, ModePost,
           PairPost, ClearBondPost, Handler, Statuses
      <3>2. request.step \in {"body", "apply"} /\ request.handler \in Routes
        BY <1>1, <2>7, Zenon DEF Apply, Requests
      <3>3. \/ Answers(400) \/ Answers(503)
            \/ \E status \in request.handler.errors : Answers(status)
            \/ Succeeds
            \/ request.handler.silent /\ Answers(200)
        BY <2>7, Zenon DEF Apply
      <3>4. CASE Answers(400) \/ Answers(503)
        BY <2>1, <2>5, <3>2, <3>4
      <3>5. CASE \E status \in request.handler.errors : Answers(status)
        <4>1. PICK status \in request.handler.errors : Answers(status)
          BY <3>5
        <4>2. status \in Statuses \ {200}
          BY <3>1, <3>2
        <4> QED
          BY <2>5, <3>2, <4>1, <4>2
      <3>6. CASE Succeeds
        BY <1>1, <3>2, <3>6, RequestSucceeds
      <3>7. CASE request.handler.silent /\ Answers(200)
        BY <1>1, <2>1, <3>2, <3>7, RequestIsAnswered
      <3> QED
        BY <3>3, <3>4, <3>5, <3>6, <3>7, Zenon
    <2>8. CASE Finished
      <3>1. ReadGet \in Routes /\ request' = Request("none", ReadGet)
        BY <2>8, Zenon DEF Finished, NoRequests, Routes
      <3> QED
        BY <3>1, RequestArrives, Zenon
    <2> QED
      BY <2>2, <2>3, <2>4, <2>6, <2>7, <2>8, Zenon DEF Handle
  <1>4. WebTypeOK'
    BY <1>2, <1>3, Zenon DEF WebIInv, WebTypeOK, outsideVars, networkVars, pollVars,
       Requests, RequestSteps
  <1>5. DelayCovers' /\ (StopTrusted => ServerKnown')
    <2>1. UNCHANGED <<servers, running, prevRun, wait, poll, steady>>
      BY <1>2, Zenon DEF outsideVars, pollVars
    <2>2. DelayCovers'
      BY <2>1 DEF WebIInv, DelayCovers
    <2>3. ServerKnown' <=> ServerKnown
      BY <2>1 DEF ServerKnown
    <2> QED
      BY <2>2, <2>3, Zenon DEF WebIInv
  <1> QED
    BY <1>3, <1>4, <1>5, Zenon DEF WebIInv, StopTrusted

LEMMA WebStepKeepsInvariant == WebIInv /\ [WebNext]_webVars => WebIInv'
  <1> SUFFICES ASSUME WebIInv, [WebNext]_webVars PROVE WebIInv'
    OBVIOUS
  <1>1. CASE UNCHANGED webVars
    <2>1. UNCHANGED <<wifi, portal, flips, servers, failures, running, prevRun, wait,
                      poll, wifiSeen, steady, control, request>>
      BY <1>1, Zenon DEF webVars, networkVars, pollVars
    <2>2. WebTypeOK'
      BY <2>1, Zenon DEF WebIInv, WebTypeOK
    <2>4. RequestInOrder'
      BY <2>1, Zenon DEF WebIInv, RequestInOrder
    <2>3. DelayCovers' /\ (ServerKnown' <=> ServerKnown)
      BY <2>1 DEF WebIInv, DelayCovers, ServerKnown
    <2> QED
      BY <2>2, <2>3, <2>4, Zenon DEF WebIInv, StopTrusted
  <1> QED
    BY <1>1, FlipKeepsInvariant, PollConnectedKeepsInvariant, PollDecideKeepsInvariant,
       HttpdKeepsInvariant, RequestKeepsInvariant, Zenon DEF WebNext, WebPoll

-----------------------------------------------------------------------------
LEMMA WebInvariance == WebSpec => []WebIInv
  BY WebInitEstablishesInvariant, WebStepKeepsInvariant, PTL DEF WebSpec, WebSafetySpec

(***************************************************************************)
(* The state of the server and of its request has its type: no request is  *)
(* answered more often than the refusal that goes on allows.               *)
(***************************************************************************)
THEOREM WebTypeCorrect == WebSpec => []WebTypeOK
  <1>1. WebIInv => WebTypeOK
    BY DEF WebIInv
  <1> QED
    BY <1>1, WebInvariance, PTL

(***************************************************************************)
(* As long as httpd_stop does what it is called for, no failing start      *)
(* leaves a server behind that s_ws does not know.                         *)
(***************************************************************************)
THEOREM ServerIsKnown ==
  ASSUME StopTrusted
  PROVE  WebSpec => []NoServerLeft
  <1>1. WebIInv => NoServerLeft
    BY DEF WebIInv, NoServerLeft, ServerKnown
  <1> QED
    BY <1>1, WebInvariance, PTL

(***************************************************************************)
(* The server is started when the network has been ready for the whole     *)
(* delay, whatever it was before.                                          *)
(***************************************************************************)
THEOREM StartIsDelayed == WebSpec => StartsWhenStable
  <1>1. WebIInv /\ [WebNext]_webVars => [HttpdStart => steady > StartStable]_webVars
    BY DEF WebIInv, DelayCovers, HttpdStart
  <1> QED
    BY <1>1, WebInvariance, PTL DEF WebSpec, WebSafetySpec, StartsWhenStable

(***************************************************************************)
(* Whatever the settings of control are, a request that no guard refuses   *)
(* is answered once, and with 200 if and, where the handler is told of     *)
(* errors, only if it did what it was asked for.                           *)
(***************************************************************************)
THEOREM AnswerIsTrue == WebSpec => []AnsweredOnce
  <1>1. WebIInv => AnsweredOnce
    BY Zenon DEF WebIInv, AnsweredOnce, RequestInOrder
  <1> QED
    BY <1>1, WebInvariance, PTL

-----------------------------------------------------------------------------
(***************************************************************************)
(* SntpStart.                                                              *)
(***************************************************************************)
\* a task that was created and has not yet taken back "in progress"
Busy(s) ==
  \/ starter[s] \in {"check", "init"}
  \/ starter[s] = "store" /\ "inProgress" \in stores[s]

\* while there is one, the input task finds the flag up, unless it has yet to
\* read it
BusyIsSeen ==
  \A s \in Starters : Busy(s) =>
    flag["inProgress"] /\ (pass = "read" => "inProgress" \in passReads)

OneBusy == \A s, t \in Starters : Busy(s) /\ Busy(t) => s = t

\* who found SNTP disabled is the only one that could enable it
InitIsDue == \A s \in Starters : starter[s] = "init" => inits = 0

\* every address comes of a connection
AddressesBounded == addresses <= onlines

SntpIInv ==
  /\ SntpTypeOK
  /\ AddressesBounded
  /\ BusyIsSeen
  /\ OneBusy
  /\ InitIsDue
  /\ InitialisedOnce

-----------------------------------------------------------------------------
LEMMA SntpInitEstablishesInvariant == SntpInit => SntpIInv
  <1> SUFFICES ASSUME SntpInit PROVE SntpIInv
    OBVIOUS
  <1>0. /\ 0 \in 0..MaxOnline /\ 0 \in 0..(SntpDelay + SntpRecheck + SntpRetry)
        /\ 0 \in 0..MaxCreateFailures /\ 0 \in Nat /\ 0 <= 0
    BY SntpAssumption
  <1>1. SntpTypeOK /\ AddressesBounded
    BY <1>0, Zenon DEF SntpInit, SntpTypeOK, AddressesBounded
  <1>2. BusyIsSeen /\ OneBusy /\ InitIsDue /\ InitialisedOnce
    BY DEF SntpInit, BusyIsSeen, OneBusy, InitIsDue, InitialisedOnce, Busy
  <1> QED
    BY <1>1, <1>2 DEF SntpIInv

LEMMA StationKeepsInvariant ==
  ASSUME SntpIInv, GetsOnline \/ GetsOffline
  PROVE  SntpIInv'
  <1> USE DEF SntpIInv, GetsOnline, GetsOffline
  <1>1. onlines' \in 0..MaxOnline /\ addresses' \in 0..MaxOnline /\ AddressesBounded'
    BY SntpAssumption DEF SntpTypeOK, AddressesBounded, handlerVars
  <1>2. UNCHANGED <<serverName, flag, dueIn, handler, handlerReads, passVars, starterVars>>
        /\ online' \in BOOLEAN
    BY Zenon DEF handlerVars
  <1>3. SntpTypeOK'
    BY <1>1, <1>2, Zenon DEF SntpTypeOK, passVars, starterVars
  <1> QED
    BY <1>1, <1>2, <1>3 DEF BusyIsSeen, OneBusy, InitIsDue, InitialisedOnce, Busy,
       passVars, starterVars

\* The handler only ever stores "pending", which no task waits for.
LEMMA HandlerKeepsInvariant ==
  ASSUME SntpIInv, AddressHandler
  PROVE  SntpIInv'
  <1> USE DEF SntpIInv
  <1>1. UNCHANGED <<stationVars, passVars, starterVars>> /\
        flag'["inProgress"] = flag["inProgress"]
    BY DEF AddressHandler, GotAddress, HandlerReads, SchedulePending, ScheduleDue,
       SntpTypeOK, Flags
  <1>2. ASSUME GotAddress
        PROVE  SntpTypeOK' /\ AddressesBounded'
    <2>1. addresses' \in 0..MaxOnline /\ AddressesBounded'
      BY <1>2, SntpAssumption DEF GotAddress, SntpTypeOK, AddressesBounded, stationVars
    <2>2. SntpTypeOK'
      BY <1>2, <2>1, Zenon DEF GotAddress, SntpTypeOK, stationVars, passVars, starterVars
    <2> QED
      BY <2>1, <2>2
  <1>3. ASSUME NEW f \in Flags, HandlerReads(f)
        PROVE  SntpTypeOK' /\ AddressesBounded'
    BY <1>3 DEF HandlerReads, SntpTypeOK, AddressesBounded, stationVars, passVars,
       starterVars
  <1>4. ASSUME SchedulePending
        PROVE  SntpTypeOK' /\ AddressesBounded'
    BY <1>4 DEF SchedulePending, SntpTypeOK, AddressesBounded, stationVars, passVars,
       starterVars, Flags
  <1>5. ASSUME ScheduleDue
        PROVE  SntpTypeOK' /\ AddressesBounded'
    <2>1. dueIn' \in 0..(SntpDelay + SntpRecheck + SntpRetry)
      BY <1>5, SntpAssumption DEF ScheduleDue
    <2> QED
      BY <1>5, <2>1 DEF ScheduleDue, SntpTypeOK, AddressesBounded, stationVars, passVars,
         starterVars
  <1>6. SntpTypeOK' /\ AddressesBounded'
    BY <1>2, <1>3, <1>4, <1>5 DEF AddressHandler
  <1> QED
    BY <1>1, <1>6 DEF BusyIsSeen, OneBusy, InitIsDue, InitialisedOnce, Busy, passVars,
       starterVars

\* A pass that comes to a start has read all flags: no task is busy then.
LEMMA NobodyBusyAtStart ==
  ASSUME SntpIInv, Read
  PROVE  \A s \in Starters : ~Busy(s)
  BY DEF SntpIInv, Read, BusyIsSeen

LEMMA PollKeepsInvariant ==
  ASSUME SntpIInv, SntpPoll
  PROVE  SntpIInv'
  <1> USE DEF SntpIInv
  <1>1. CASE SntpPass
    <2>1. SntpTypeOK' /\ AddressesBounded'
      BY <1>1, SntpAssumption DEF SntpPass, ToRead, SntpTypeOK, AddressesBounded,
         stationVars, handlerVars, starterVars
    <2> QED
      BY <1>1, <2>1 DEF SntpPass, ToRead, Flags, BusyIsSeen, OneBusy, InitIsDue,
         InitialisedOnce, Busy, starterVars
  <1>2. ASSUME NEW f \in Flags, PassReads(f)
        PROVE  SntpIInv'
    <2>1. SntpTypeOK' /\ AddressesBounded'
      BY <1>2 DEF PassReads, SntpTypeOK, AddressesBounded, stationVars, handlerVars,
         starterVars
    <2>2. OneBusy' /\ InitIsDue' /\ InitialisedOnce'
      BY <1>2 DEF PassReads, OneBusy, InitIsDue, InitialisedOnce, Busy, starterVars
    <2>3. BusyIsSeen'
      <3>1. SUFFICES ASSUME NEW s \in Starters, Busy(s)
                     PROVE  /\ flag["inProgress"]
                            /\ (pass' = "read" => "inProgress" \in passReads')
        BY <1>2, Zenon DEF PassReads, BusyIsSeen, Busy, starterVars
      <3>2. flag["inProgress"] /\ pass = "read" /\ "inProgress" \in passReads
        BY <1>2, <3>1 DEF PassReads, BusyIsSeen
      <3>3. CASE f = "inProgress"
        BY <3>2, <3>3, <1>2 DEF PassReads
      <3>4. CASE f # "inProgress"
        BY <3>2, <3>4, <1>2 DEF PassReads
      <3> QED
        BY <3>3, <3>4
    <2> QED
      BY <2>1, <2>2, <2>3
  <1>3. CASE SntpWaits \/ SntpOffline
    <2>1. SntpTypeOK' /\ AddressesBounded'
      BY <1>3, SntpAssumption DEF SntpWaits, SntpOffline, Read, SntpTypeOK,
         AddressesBounded, stationVars, handlerVars, starterVars
    <2> QED
      BY <1>3, <2>1 DEF SntpWaits, SntpOffline, Read, BusyIsSeen, OneBusy, InitIsDue,
         InitialisedOnce, Busy, starterVars
  <1>4. CASE SntpDisabled \/ SntpCreateFails
    <2>0. /\ dueIn' \in 0..(SntpDelay + SntpRecheck + SntpRetry)
          /\ createFailures' \in 0..MaxCreateFailures
      BY <1>4, SntpAssumption DEF SntpDisabled, SntpCreateFails, CreateFails, SntpTypeOK
    <2>1. SntpTypeOK' /\ AddressesBounded'
      BY <1>4, <2>0 DEF SntpDisabled, SntpCreateFails, CreateFails, Read, SntpTypeOK,
         AddressesBounded, stationVars, handlerVars, starterVars, Flags
    <2>2. \A s \in Starters : ~Busy(s)
      BY <1>4, NobodyBusyAtStart DEF SntpDisabled, SntpCreateFails, CreateFails
    <2>3. UNCHANGED starterVars
      BY <1>4 DEF SntpDisabled, SntpCreateFails, CreateFails
    <2> QED
      BY <2>1, <2>2, <2>3 DEF BusyIsSeen, OneBusy, InitIsDue, InitialisedOnce, Busy,
         starterVars
  <1>5. ASSUME NEW s \in Starters, SntpCreate(s)
        PROVE  SntpIInv'
    <2>1. SntpTypeOK' /\ AddressesBounded'
      BY <1>5 DEF SntpCreate, Read, SntpTypeOK, AddressesBounded, stationVars,
         handlerVars, Flags
    <2>2. \A t \in Starters : ~Busy(t)
      BY <1>5, NobodyBusyAtStart DEF SntpCreate
    <2>3. \A t \in Starters : Busy(t)' => t = s
      BY <1>5, <2>2 DEF SntpCreate, Busy, SntpTypeOK
    <2>4. OneBusy'
      BY <2>3 DEF OneBusy
    <2>5. BusyIsSeen'
      BY <1>5 DEF SntpCreate, Read, BusyIsSeen, SntpTypeOK, Flags
    <2>6. InitIsDue' /\ InitialisedOnce'
      BY <1>5 DEF SntpCreate, InitIsDue, InitialisedOnce, SntpTypeOK
    <2> QED
      BY <2>1, <2>4, <2>5, <2>6
  <1> QED
    BY <1>1, <1>2, <1>3, <1>4, <1>5 DEF SntpPoll, SntpAssumption

\* Among the tasks that were created only one can find SNTP disabled.
LEMMA StarterKeepsInvariant ==
  ASSUME SntpIInv, Starter
  PROVE  SntpIInv'
  <1> USE DEF SntpIInv
  <1>1. ASSUME NEW s \in Starters, StartCheck(s)
        PROVE  SntpIInv'
    <2>1. SntpTypeOK' /\ AddressesBounded'
      BY <1>1 DEF StartCheck, SntpTypeOK, AddressesBounded, stationVars, handlerVars,
         passVars
    <2>2. Busy(s) /\ \A t \in Starters : Busy(t)' => Busy(t)
      BY <1>1 DEF StartCheck, Busy, SntpTypeOK
    <2>3. BusyIsSeen' /\ OneBusy'
      BY <1>1, <2>2 DEF StartCheck, BusyIsSeen, OneBusy, passVars
    <2>4. InitIsDue' /\ InitialisedOnce'
      BY <1>1 DEF StartCheck, InitIsDue, InitialisedOnce, SntpTypeOK
    <2> QED
      BY <2>1, <2>3, <2>4
  <1>2. ASSUME NEW s \in Starters, StartInit(s)
        PROVE  SntpIInv'
    <2>1. SntpTypeOK' /\ AddressesBounded'
      BY <1>2 DEF StartInit, SntpTypeOK, AddressesBounded, stationVars, handlerVars,
         passVars
    <2>2. Busy(s) /\ \A t \in Starters : Busy(t)' => Busy(t)
      BY <1>2 DEF StartInit, Busy, SntpTypeOK
    <2>3. BusyIsSeen' /\ OneBusy'
      BY <1>2, <2>2 DEF StartInit, BusyIsSeen, OneBusy, passVars
    <2>4. InitialisedOnce'
      BY <1>2 DEF StartInit, InitIsDue, InitialisedOnce
    <2>5. InitIsDue'
      <3>1. ASSUME NEW t \in Starters, starter'[t] = "init"
            PROVE  FALSE
        <4>1. t # s /\ starter[t] = "init"
          BY <1>2, <3>1 DEF StartInit, SntpTypeOK
        <4> QED
          BY <4>1, <2>2 DEF OneBusy, Busy
      <3> QED
        BY <3>1 DEF InitIsDue
    <2> QED
      BY <2>1, <2>3, <2>4, <2>5
  <1>3. ASSUME NEW s \in Starters, NEW f \in Flags, StartStores(s, f)
        PROVE  SntpIInv'
    <2>1. SntpTypeOK' /\ AddressesBounded'
      BY <1>3 DEF StartStores, SntpTypeOK, AddressesBounded, stationVars, handlerVars,
         passVars, Flags
    <2>2. \A t \in Starters : Busy(t)' => Busy(t)
      BY <1>3 DEF StartStores, Busy, SntpTypeOK
    <2>3. OneBusy'
      BY <2>2 DEF OneBusy
    <2>4. InitIsDue' /\ InitialisedOnce'
      BY <1>3 DEF StartStores, InitIsDue, InitialisedOnce, SntpTypeOK
    <2>5. BusyIsSeen'
      <3>1. CASE f = "inProgress"
        <4>1. Busy(s) /\ ~Busy(s)'
          BY <1>3, <3>1 DEF StartStores, Busy, SntpTypeOK
        <4>2. \A t \in Starters : ~Busy(t)'
          BY <4>1, <2>2 DEF OneBusy
        <4> QED
          BY <4>2 DEF BusyIsSeen
      <3>2. CASE f # "inProgress"
        BY <1>3, <2>2, <3>2 DEF StartStores, BusyIsSeen, SntpTypeOK, Flags, passVars
      <3> QED
        BY <3>1, <3>2
    <2> QED
      BY <2>1, <2>3, <2>4, <2>5
  <1> QED
    BY <1>1, <1>2, <1>3 DEF Starter

LEMMA SntpStepKeepsInvariant == SntpIInv /\ [SntpNext]_sntpVars => SntpIInv'
  <1> SUFFICES ASSUME SntpIInv, [SntpNext]_sntpVars PROVE SntpIInv'
    OBVIOUS
  <1>1. CASE UNCHANGED sntpVars
    BY <1>1 DEF sntpVars, stationVars, handlerVars, passVars, starterVars, SntpIInv,
         SntpTypeOK,
       AddressesBounded, BusyIsSeen, OneBusy, InitIsDue, InitialisedOnce, Busy
  <1> QED
    BY <1>1, StationKeepsInvariant, HandlerKeepsInvariant, PollKeepsInvariant,
       StarterKeepsInvariant DEF SntpNext

-----------------------------------------------------------------------------
LEMMA SntpInvariance == SntpSpec => []SntpIInv
  BY SntpInitEstablishesInvariant, SntpStepKeepsInvariant, PTL DEF SntpSpec, SntpSafetySpec

(***************************************************************************)
(* The variables of the start have their types, so that its deadline is    *)
(* never further away than one of the three delays.                        *)
(***************************************************************************)
THEOREM SntpTypeCorrect == SntpSpec => []SntpTypeOK
  <1>1. SntpIInv => SntpTypeOK
    BY DEF SntpIInv
  <1> QED
    BY <1>1, SntpInvariance, PTL

(***************************************************************************)
(* SNTP is initialised once, with any number of tasks that start it and    *)
(* any order of their loads and stores.                                    *)
(***************************************************************************)
THEOREM StartedOnce == SntpSpec => []InitialisedOnce
  <1>1. SntpIInv => InitialisedOnce
    BY DEF SntpIInv
  <1> QED
    BY <1>1, SntpInvariance, PTL

-----------------------------------------------------------------------------
(***************************************************************************)
(* LogStore.                                                               *)
(***************************************************************************)
Records == [id : Nat, line : Lines]

\* what a copy says is about lines there were when it was made
CopyIsPast == copiedAt <= nextId

LogIInv ==
  /\ LogTypeOK
  /\ RingHoldsNewest
  /\ CopyIsPast
  /\ CopiedNewest
  /\ NothingLost

-----------------------------------------------------------------------------
\* Going back k entries from the head stays within the ring, and one step
\* further once the head has moved on is the same entry.
LEMMA BackInRing ==
  ASSUME NEW h \in 0..(Entries - 1), NEW k \in 1..Entries
  PROVE  /\ Wrap(h + Entries - k) \in 0..(Entries - 1)
         /\ Wrap(h + 1) \in 0..(Entries - 1)
         /\ k < Entries => /\ Wrap(Wrap(h + 1) + Entries - (k + 1)) = Wrap(h + Entries - k)
                           /\ Wrap(h + Entries - k) # h
  BY LogAssumption DEF Wrap

LEMMA HeadIsNewest ==
  ASSUME NEW h \in 0..(Entries - 1)
  PROVE  Wrap(Wrap(h + 1) + Entries - 1) = h
  BY LogAssumption DEF Wrap

\* The entries of a copy of w lines, counted from its first.
LEMMA ForwardInRing ==
  ASSUME NEW h \in 0..(Entries - 1), NEW w \in 0..Entries, NEW i \in 1..w
  PROVE  Wrap(Wrap(h + Entries - w) + i - 1) = Wrap(h + Entries - (w - i + 1))
  BY LogAssumption DEF Wrap

LEMMA ClippedIsLine ==
  ASSUME NEW l \in Lines
  PROVE  Clipped(l) \in Lines
  <1> DEFINE n == IF Len(l) < LineMax THEN Len(l) ELSE LineMax
  <1>1. n \in Int /\ \A i \in 1..n : l[i] \in Chars
    BY LogAssumption DEF Lines
  <1>2. SubSeq(l, 1, n) \in Seq(Chars)
    BY <1>1, SubSeqProperties
  <1> QED
    BY <1>2 DEF Clipped, Lines

LEMMA FormattedIsLine ==
  ASSUME NEW text \in Texts
  PROVE  Formatted(text) \in Lines
  <1> DEFINE n == IF Len(text) < FormatMax THEN Len(text) ELSE FormatMax - 1
  <1>0. text \in Seq(Chars)
    BY TextAssumption
  <1>1. n \in Int /\ \A i \in 1..n : text[i] \in Chars
    BY <1>0, LogAssumption
  <1>2. SubSeq(text, 1, n) \in Seq(Chars)
    BY <1>1, SubSeqProperties
  <1> QED
    BY <1>2 DEF Formatted, Lines

LEMMA WantedBound ==
  ASSUME LogTypeOK, NEW limit \in Nat
  PROVE  Wanted(limit) \in 0..count
  BY DEF Wanted, LogTypeOK

LEMMA LimitIsNat == \A asked \in Queries : LogsLimit(asked) \in Nat
  BY LogAssumption DEF LogsLimit

LEMMA LogInitEstablishesInvariant == LogInit => LogIInv
  <1> SUFFICES ASSUME LogInit PROVE LogIInv
    OBVIOUS
  <1> USE DEF LogInit
  <1>1. <<>> \in Lines /\ <<>> \in Seq(Lines) /\ <<>> \in Seq(Records)
    BY DEF Lines, Records
  <1>2. Empty \in Records
    BY <1>1 DEF Empty, Records
  <1>3. LogTypeOK
    BY <1>1, <1>2, LogAssumption DEF LogTypeOK, Records
  <1>4. RingHoldsNewest /\ CopyIsPast /\ CopiedNewest
    BY LogAssumption DEF RingHoldsNewest, CopyIsPast, CopiedNewest
  <1>5. NothingLost
    BY DEF NothingLost
  <1> QED
    BY <1>3, <1>4, <1>5 DEF LogIInv

-----------------------------------------------------------------------------
\* A line that is stored becomes the newest of the ring, and what a copy says
\* stays true.
LEMMA PushKeepsRing ==
  ASSUME LogIInv, NEW l \in Lines, Push(l), UNCHANGED copyVars
  PROVE  /\ entries' \in [0..(Entries - 1) -> Records]
         /\ head' \in 0..(Entries - 1) /\ count' \in 0..Entries
         /\ nextId' \in Nat
         /\ history' \in Seq(Lines) /\ Len(history') = nextId'
         /\ RingHoldsNewest' /\ CopyIsPast' /\ CopiedNewest'
  <1> USE DEF LogIInv
  <1>1. CASE UNCHANGED ringVars
    BY <1>1 DEF ringVars, copyVars, LogTypeOK, Records, RingHoldsNewest, CopyIsPast,
       CopiedNewest
  <1>2. CASE ~UNCHANGED ringVars
    <2>1. /\ entries' = [entries EXCEPT ![head] = [id |-> nextId + 1, line |-> Clipped(l)]]
          /\ nextId' = nextId + 1
          /\ head' = Wrap(head + 1)
          /\ count' = IF count < Entries THEN count + 1 ELSE count
          /\ history' = Append(history, l)
      BY <1>2 DEF Push, NextHead
    <2>2. /\ history \in Seq(Lines) /\ Len(history) = nextId /\ nextId \in Nat
          /\ head \in 0..(Entries - 1) /\ count \in 0..Entries
          /\ entries \in [0..(Entries - 1) -> Records]
          /\ copied \in Seq(Records) /\ copiedAt \in Nat
      BY DEF LogTypeOK, Records
    <2>3. [id |-> nextId + 1, line |-> Clipped(l)] \in Records
      BY <2>2, ClippedIsLine DEF Records
    <2>4. /\ history' \in Seq(Lines) /\ Len(history') = nextId'
          /\ history'[nextId + 1] = l
          /\ \A j \in 1..nextId : history'[j] = history[j]
      BY <2>1, <2>2, AppendProperties
    <2>5. /\ entries' \in [0..(Entries - 1) -> Records]
          /\ head' \in 0..(Entries - 1) /\ count' \in 0..Entries /\ nextId' \in Nat
      <3>1. 1 \in 1..Entries
        BY LogAssumption
      <3> QED
        BY <2>1, <2>2, <2>3, <3>1, BackInRing, LogAssumption
    <2>6. RingHoldsNewest'
      <3>1. count' = IF nextId' < Entries THEN nextId' ELSE Entries
        BY <2>1, <2>2, LogAssumption DEF RingHoldsNewest
      <3>2. ASSUME NEW k \in 1..count'
            PROVE  entries'[Wrap(head' + Entries - k)] =
                     [id |-> nextId' - k + 1, line |-> Clipped(history'[nextId' - k + 1])]
        <4>1. CASE k = 1
          BY <4>1, <2>1, <2>2, <2>4, HeadIsNewest
        <4>2. CASE k # 1
          <5> DEFINE j == k - 1
          <5>1. /\ j \in 1..count /\ j \in 1..Entries /\ j < Entries
                /\ nextId - j + 1 \in 1..nextId
            BY <4>2, <3>1, <2>1, <2>2, LogAssumption DEF RingHoldsNewest
          <5>2. entries[Wrap(head + Entries - j)] =
                  [id |-> nextId - j + 1, line |-> Clipped(history[nextId - j + 1])]
            BY <5>1 DEF RingHoldsNewest
          <5>3. /\ Wrap(head' + Entries - (j + 1)) = Wrap(head + Entries - j)
                /\ Wrap(head + Entries - j) # head
                /\ Wrap(head + Entries - j) \in 0..(Entries - 1)
            BY <5>1, <2>1, <2>2, BackInRing
          <5>4. entries'[Wrap(head + Entries - j)] = entries[Wrap(head + Entries - j)]
            BY <5>3, <2>1, <2>2
          <5>5. /\ j + 1 = k
                /\ nextId' - k + 1 = nextId - j + 1
                /\ history'[nextId - j + 1] = history[nextId - j + 1]
            BY <5>1, <2>1, <2>2, <2>4
          <5> QED
            BY <5>2, <5>3, <5>4, <5>5
        <4> QED
          BY <4>1, <4>2
      <3> QED
        BY <3>1, <3>2 DEF RingHoldsNewest
    <2>7. CopyIsPast'
      BY <2>1, <2>2 DEF CopyIsPast, copyVars
    <2>8. CopiedNewest'
      <3>1. copied' = copied /\ copiedAt' = copiedAt /\ Len(copied) <= copiedAt
        BY DEF copyVars, CopiedNewest
      <3>2. ASSUME NEW i \in 1..Len(copied)
            PROVE  copied[i] = [id |-> copiedAt - Len(copied) + i,
                                line |-> Clipped(history'[copiedAt - Len(copied) + i])]
        <4>1. copiedAt - Len(copied) + i \in 1..nextId
          BY <3>1, <2>2 DEF CopyIsPast
        <4> QED
          BY <4>1, <2>4 DEF CopiedNewest
      <3> QED
        BY <3>1, <3>2 DEF CopiedNewest
    <2> QED
      BY <2>4, <2>5, <2>6, <2>7, <2>8
  <1> QED
    BY <1>1, <1>2

\* The accumulator and the lines it was cut into are what was logged.
LEMMA PutCharKeepsText ==
  ASSUME LogIInv, PutChar
  PROVE  /\ accum' \in Lines /\ Len(accum') < AccumMax
         /\ rest' \in Lines /\ heard' \in Lines /\ told' \in Lines
         /\ Ended(Head(rest)) \in Lines
         /\ NothingLost'
  <1> USE DEF LogIInv
  <1> DEFINE c == Head(rest)
  <1>1. /\ accum \in Seq(Chars) /\ rest \in Seq(Chars) /\ rest # <<>>
        /\ heard \in Seq(Chars) /\ told \in Seq(Chars) /\ Len(accum) < AccumMax
    BY DEF LogTypeOK, Lines, PutChar
  <1>2. c \in Chars /\ rest' \in Seq(Chars)
    BY <1>1, HeadTailProperties DEF PutChar
  <1>3. /\ accum' = AccumAfter(c)
        /\ told' = told \o Ended(c)
        /\ heard' = IF c = Newline THEN heard ELSE Append(heard, c)
    BY DEF PutChar
  <1>4. told \o accum = heard
    BY DEF NothingLost
  <1>5. <<>> \in Seq(Chars) /\ Len(<<>>) = 0 /\ told \o <<>> = told
    BY <1>1, ConcatEmptySeq
  <1>6. told \o accum \in Seq(Chars) /\ (told \o accum) \o <<>> = told \o accum
    BY <1>1, ConcatProperties, ConcatEmptySeq
  <1>7. CASE c = Newline
    <2>1. accum' = <<>> /\ told' = told \o accum /\ heard' = heard
      BY <1>3, <1>7 DEF AccumAfter, Ended
    <2> QED
      BY <2>1, <1>1, <1>2, <1>4, <1>5, <1>6, <1>7, LogAssumption
         DEF Lines, NothingLost, Ended
  <1>8. CASE c # Newline /\ Room
    <2>1. accum' = Append(accum, c) /\ told' = told /\ heard' = Append(heard, c)
          /\ Ended(c) = <<>>
      BY <1>3, <1>5, <1>8 DEF AccumAfter, Ended
    <2>2. /\ Append(accum, c) \in Seq(Chars) /\ Len(Append(accum, c)) = Len(accum) + 1
          /\ Append(heard, c) \in Seq(Chars)
      BY <1>1, <1>2, AppendProperties
    <2>3. told \o Append(accum, c) = Append(told \o accum, c)
      <3>1. Append(accum, c) = accum \o <<c>> /\ <<c>> \in Seq(Chars)
        BY <1>1, <1>2, AppendIsConcat
      <3>2. (told \o accum) \o <<c>> = told \o (accum \o <<c>>)
        BY <3>1, <1>1, ConcatAssociative
      <3>3. Append(told \o accum, c) = (told \o accum) \o <<c>>
        BY <1>2, <1>6, AppendIsConcat
      <3> QED
        BY <3>1, <3>2, <3>3
    <2>4. Len(accum) + 1 < AccumMax
      BY <1>1, <1>8, LogAssumption DEF Room
    <2> QED
      BY <2>1, <2>2, <2>3, <2>4, <1>1, <1>2, <1>4, <1>5 DEF Lines, NothingLost
  <1>9. CASE c # Newline /\ ~Room
    <2>1. accum' = <<c>> /\ told' = told \o accum /\ heard' = Append(heard, c)
          /\ Ended(c) = accum
      BY <1>3, <1>9 DEF AccumAfter, Ended
    <2>2. <<c>> \in Seq(Chars) /\ Len(<<c>>) = 1 /\ Append(heard, c) \in Seq(Chars)
          /\ (told \o accum) \o <<c>> = Append(told \o accum, c)
      BY <1>1, <1>2, <1>6, AppendProperties, AppendIsConcat
    <2> QED
      BY <2>1, <2>2, <1>1, <1>2, <1>4, <1>6, LogAssumption DEF Lines, NothingLost
  <1> QED
    BY <1>7, <1>8, <1>9

\* A copy is the newest lines, because the ring's newest entries are.
LEMMA CopyIsNewest ==
  ASSUME LogIInv, NEW limit \in Nat, CopyRecent(limit)
  PROVE  LogIInv'
  <1> USE DEF LogIInv
  <1> DEFINE w == Wanted(limit)
  <1>1. /\ copied' = [i \in 1..w |-> entries[Wrap(First(limit) + i - 1)]]
        /\ copiedAt' = nextId
        /\ UNCHANGED <<logPhase, ringVars, textVars, timeSynced>>
    BY DEF CopyRecent
  <1>2. /\ w \in 0..count /\ count \in 0..Entries /\ head \in 0..(Entries - 1)
        /\ entries \in [0..(Entries - 1) -> Records] /\ nextId \in Nat /\ count <= nextId
    <2>1. w \in 0..count
      BY WantedBound
    <2>2. /\ count \in 0..Entries /\ head \in 0..(Entries - 1)
          /\ entries \in [0..(Entries - 1) -> Records] /\ nextId \in Nat
      BY DEF LogTypeOK, Records
    <2>3. count <= nextId
      BY <2>2, LogAssumption DEF RingHoldsNewest
    <2> QED
      BY <2>1, <2>2, <2>3
  <1>3. ASSUME NEW i \in 1..w
        PROVE  /\ copied'[i] = [id |-> nextId - w + i,
                                line |-> Clipped(history[nextId - w + i])]
               /\ copied'[i] \in Records
    <2>1. First(limit) = Wrap(head + Entries - w)
      BY DEF First
    <2>2. Wrap(First(limit) + i - 1) = Wrap(head + Entries - (w - i + 1))
      <3>1. w \in 0..Entries
        BY <1>2, LogAssumption
      <3> HIDE DEF w
      <3> QED
        BY <2>1, <1>2, <3>1, ForwardInRing
    <2>3. w - i + 1 \in 1..count /\ w - i + 1 \in 1..Entries
          /\ nextId - (w - i + 1) + 1 = nextId - w + i
      BY <1>2, LogAssumption
    <2>4. entries[Wrap(head + Entries - (w - i + 1))] =
            [id |-> nextId - (w - i + 1) + 1,
             line |-> Clipped(history[nextId - (w - i + 1) + 1])]
      <3> HIDE DEF w
      <3> QED
        BY <2>3 DEF RingHoldsNewest
    <2>5. Wrap(head + Entries - (w - i + 1)) \in 0..(Entries - 1)
      BY <1>2, <2>3, BackInRing
    <2> QED
      BY <1>1, <1>2, <2>2, <2>3, <2>4, <2>5
  <1>4. copied' \in Seq(Records) /\ Len(copied') = w
    <2>1. w \in Nat
      BY <1>2
    <2>2. copied' \in [1..w -> Records]
      BY <1>1, <1>3
    <2> HIDE DEF w
    <2> QED
      BY <2>1, <2>2
  <1>5. CopiedNewest'
    <2>1. history' = history /\ copiedAt' = nextId
      BY <1>1 DEF ringVars
    <2>2. Len(copied') = w /\ w \in Nat /\ w <= nextId
      BY <1>2, <1>4
    <2>3. \A i \in 1..w :
            copied'[i] = [id |-> nextId - w + i, line |-> Clipped(history[nextId - w + i])]
      BY <1>3
    <2> HIDE DEF w
    <2> QED
      BY <2>1, <2>2, <2>3 DEF CopiedNewest, Clipped
  <1>6. LogTypeOK'
    BY <1>1, <1>2, <1>4 DEF LogTypeOK, Records, ringVars, textVars
  <1>7. RingHoldsNewest' /\ CopyIsPast' /\ NothingLost'
    <2>1. /\ entries' = entries /\ head' = head /\ count' = count /\ nextId' = nextId
          /\ history' = history /\ copiedAt' = nextId
          /\ told' = told /\ accum' = accum /\ heard' = heard
      BY <1>1 DEF ringVars, textVars
    <2>2. CopyIsPast'
      BY <1>2, <2>1 DEF CopyIsPast
    <2> QED
      BY <2>1, <2>2, Zenon DEF RingHoldsNewest, NothingLost
  <1> QED
    BY <1>5, <1>6, <1>7

LEMMA LogStepKeepsInvariant == LogIInv /\ [LogNext]_logVars => LogIInv'
  <1> SUFFICES ASSUME LogIInv, [LogNext]_logVars PROVE LogIInv'
    OBVIOUS
  <1> USE DEF LogIInv
  <1>1. CASE InstallHook \/ SetInitialized \/ MarkTimeSynced
    <2>1. UNCHANGED <<ringVars, textVars, copyVars>>
      BY <1>1 DEF InstallHook, SetInitialized, MarkTimeSynced
    <2>2. LogTypeOK'
      BY <1>1, <2>1 DEF InstallHook, SetInitialized, MarkTimeSynced, LogTypeOK, ringVars,
         textVars, copyVars
    <2> QED
      BY <2>1, <2>2 DEF RingHoldsNewest, CopyIsPast, CopiedNewest, NothingLost, ringVars,
         textVars, copyVars
  <1>2. ASSUME NEW text \in Texts, Vprintf(text)
        PROVE  LogIInv'
    <2>1. rest' \in Lines
      BY <1>2, FormattedIsLine DEF Vprintf
    <2>2. LogTypeOK'
      BY <1>2, <2>1 DEF Vprintf, LogTypeOK, ringVars, copyVars
    <2> QED
      BY <1>2, <2>2 DEF Vprintf, RingHoldsNewest, CopyIsPast, CopiedNewest, NothingLost,
         ringVars, copyVars
  <1>3. CASE PutChar
    <2>1. Push(Ended(Head(rest))) /\ UNCHANGED <<logPhase, timeSynced, copyVars>>
      BY <1>3 DEF PutChar
    <2>2. Ended(Head(rest)) \in Lines
      BY <1>3, PutCharKeepsText
    <2>3. /\ entries' \in [0..(Entries - 1) -> Records]
          /\ head' \in 0..(Entries - 1) /\ count' \in 0..Entries
          /\ nextId' \in Nat
          /\ history' \in Seq(Lines) /\ Len(history') = nextId'
          /\ RingHoldsNewest' /\ CopyIsPast' /\ CopiedNewest'
      BY <2>1, <2>2, PushKeepsRing
    <2>4. LogTypeOK'
      BY <1>3, <2>1, <2>3, PutCharKeepsText DEF LogTypeOK, Records, copyVars
    <2> QED
      BY <1>3, <2>3, <2>4, PutCharKeepsText
  <1>4. CASE LogsGet
    BY <1>4, LimitIsNat, CopyIsNewest DEF LogsGet
  <1>5. CASE UNCHANGED logVars
    BY <1>5 DEF logVars, ringVars, textVars, copyVars, LogTypeOK, RingHoldsNewest,
       CopyIsPast, CopiedNewest, NothingLost
  <1> QED
    BY <1>1, <1>2, <1>3, <1>4, <1>5 DEF LogNext

-----------------------------------------------------------------------------
LEMMA LogInvariance == LogSpec => []LogIInv
  BY LogInitEstablishesInvariant, LogStepKeepsInvariant, PTL DEF LogSpec

(***************************************************************************)
(* The variables have their types: no index leaves the ring, and the       *)
(* accumulator always has room for its terminating zero.                   *)
(***************************************************************************)
THEOREM LogTypeCorrect == LogSpec => []LogTypeOK
  <1>1. LogIInv => LogTypeOK
    BY DEF LogIInv
  <1> QED
    BY <1>1, LogInvariance, PTL

(***************************************************************************)
(* Cutting what is logged into lines loses no character and doubles none,  *)
(* the ring holds the newest lines that were stored, and what the web      *)
(* server copies are the newest of that moment in their order.             *)
(***************************************************************************)
THEOREM NewestAreKept == LogSpec => []LogIsFaithful
  <1>1. LogIInv => LogIsFaithful
    BY DEF LogIInv, LogIsFaithful
  <1> QED
    BY <1>1, LogInvariance, PTL

-----------------------------------------------------------------------------
(***************************************************************************)
(* MCServices: a behaviour of the instances side by side is, seen through  *)
(* the variables of any one of them, a behaviour of that component.        *)
(***************************************************************************)
LEMMA StepsOfEach ==
  ASSUME [Next]_vars
  PROVE  /\ [WebNext]_webVars /\ [SntpNext]_sntpVars /\ [HaNext]_haVars
         /\ [LogNext]_logVars /\ [BuzzerNext]_buzzerVars
         /\ [EncoderNext]_encoderVars /\ [TouchNext]_touchVars
  <1>1. CASE Web
    BY <1>1 DEF Web, inputVars
  <1>2. CASE Sntp
    BY <1>2 DEF Sntp, inputVars
  <1>3. CASE Ha
    BY <1>3 DEF Ha, inputVars
  <1>4. CASE Log
    BY <1>4 DEF Log, inputVars
  <1>5. CASE Sound
    BY <1>5 DEF Sound, serviceVars
  <1>6. CASE Button \/ Wheel
    BY <1>6 DEF Button, Wheel, serviceVars
  <1>7. CASE Slider
    BY <1>7 DEF Slider, serviceVars
  <1>8. CASE UNCHANGED vars
    BY <1>8 DEF vars, serviceVars, inputVars
  <1> QED
    BY <1>1, <1>2, <1>3, <1>4, <1>5, <1>6, <1>7, <1>8 DEF Next

LEMMA EachComponent ==
  Spec => /\ WebSafetySpec /\ SntpSafetySpec /\ HaSafetySpec /\ LogSpec
          /\ BuzzerSafetySpec /\ EncoderSpec /\ TouchSpec
  <1>1. Init => /\ WebInit /\ SntpInit /\ HaInit /\ LogInit
                /\ BuzzerInit /\ EncoderInit /\ TouchInit
    BY DEF Init
  <1> QED
    BY <1>1, StepsOfEach, PTL
       DEF Spec, WebSafetySpec, SntpSafetySpec, HaSafetySpec, LogSpec,
           BuzzerSafetySpec, EncoderSpec, TouchSpec

(***************************************************************************)
(* Every variable of every component has its type, side by side as the run *)
(* checks them, for all constants and whatever calls overlap.              *)
(***************************************************************************)
THEOREM ServicesTypeCorrect == Spec => []ServicesTypeOK
  <1>1. WebSafetySpec => []WebIInv
    BY WebInitEstablishesInvariant, WebStepKeepsInvariant, PTL DEF WebSafetySpec
  <1>2. SntpSafetySpec => []SntpIInv
    BY SntpInitEstablishesInvariant, SntpStepKeepsInvariant, PTL DEF SntpSafetySpec
  <1>3. HaSafetySpec => []HaIInv
    BY HaInitEstablishesInvariant, HaStepKeepsInvariant, PTL DEF HaSafetySpec
  <1>4. /\ WebIInv /\ SntpIInv /\ HaIInv /\ LogIInv /\ BuzzerIInv /\ EncoderIInv
        /\ TouchIInv
        => ServicesTypeOK
    BY DEF WebIInv, SntpIInv, HaIInv, LogIInv, BuzzerIInv, EncoderIInv, TouchIInv,
       ServicesTypeOK
  <1> QED
    BY <1>1, <1>2, <1>3, <1>4, LogInvariance, BuzzerInvariance, EncoderInvariance,
       TouchInvariance, EachComponent, PTL

(***************************************************************************)
(* What is proved of each component holds of them side by side, that is of *)
(* the behaviours the run checks: the web server, SNTP, the Home Assistant *)
(* client, the log, the buzzer, the encoder and the slider keep all their  *)
(* promises but those about time, for all constants that satisfy what the  *)
(* theorems about the single components ask for.                           *)
(***************************************************************************)
THEOREM ServicesKeepPromises ==
  ASSUME StopTrusted, DominanceDelta # 0, VisitPercent <= 100
  PROVE  Spec => /\ [](/\ NoServerLeft /\ AnsweredOnce /\ InitialisedOnce
                       /\ LogIsFaithful /\ RingIsQueue /\ SilentWhenDisabled
                       /\ CountsAreTrue /\ GesturesAreSlides /\ RepeatsFollowGesture)
                 /\ StartsWhenStable /\ ImplementsChannel
  <1>1. WebSafetySpec => [](NoServerLeft /\ AnsweredOnce) /\ StartsWhenStable
    <2>1. WebSafetySpec => []WebIInv
      BY WebInitEstablishesInvariant, WebStepKeepsInvariant, PTL DEF WebSafetySpec
    <2>2. WebIInv => NoServerLeft
      BY DEF WebIInv, NoServerLeft, ServerKnown
    <2>3. WebIInv => AnsweredOnce
      BY Zenon DEF WebIInv, AnsweredOnce, RequestInOrder
    <2>4. WebIInv /\ [WebNext]_webVars => [HttpdStart => steady > StartStable]_webVars
      BY DEF WebIInv, DelayCovers, HttpdStart
    <2> QED
      BY <2>1, <2>2, <2>3, <2>4, PTL DEF WebSafetySpec, StartsWhenStable
  <1>2. SntpSafetySpec => []InitialisedOnce
    <2>1. SntpIInv => InitialisedOnce
      BY DEF SntpIInv
    <2> QED
      BY <2>1, SntpInitEstablishesInvariant, SntpStepKeepsInvariant, PTL
         DEF SntpSafetySpec
  <1>3. HaSafetySpec => ImplementsChannel
    BY InitImplements, StepImplements, HaInitEstablishesInvariant, HaStepKeepsInvariant,
       PTL DEF HaSafetySpec, ImplementsChannel, Channel!ChannelSpec
  <1> QED
    BY <1>1, <1>2, <1>3, NewestAreKept, RingIsAQueue, DisabledIsSilent, KnobCountsAreTrue,
       GesturesGoAcross, RepeatsBelong, EachComponent, PTL
=============================================================================
