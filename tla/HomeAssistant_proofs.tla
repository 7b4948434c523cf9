------------------------ MODULE HomeAssistant_proofs ------------------------
(***************************************************************************)
(* Proofs about HomeAssistant, for every number of events, of retries and  *)
(* of places in the queue: the client is the lossy channel HaChannel.      *)
(***************************************************************************)
EXTENDS HomeAssistant, FiniteSetTheorems, SequenceTheorems, TLAPS

(***************************************************************************)
(* Tries of an event, of a queue q and an event c that has been received.  *)
(***************************************************************************)
TriesOf(q, c, e) ==
  IF c # Nothing /\ c.id = e THEN c.retries
  ELSE IF \E i \in 1..Len(q) : q[i].id = e
    THEN q[CHOOSE i \in 1..Len(q) : q[i].id = e].retries
    ELSE Nothing

\* no event is there twice
Distinct(q, c) ==
  /\ \A i, j \in 1..Len(q) : q[i].id = q[j].id => i = j
  /\ c # Nothing => \A i \in 1..Len(q) : q[i].id # c.id

\* what the server has got of an event, it has got by tries that failed
DeliveredByTries ==
  /\ \A i \in 1..Len(haQueue) : delivered[haQueue[i].id] <= haQueue[i].retries
  /\ current # Nothing => delivered[current.id] <= current.retries

RetryIsCounted == worker = "requeue" => current.retries # 0

\* home_assistant_init creates the worker
WorkerIsCreated == haPhase = "init" => worker = "none"

HaIInv ==
  /\ HaTypeOK
  /\ WorkerIsCreated
  /\ Distinct(haQueue, current)
  /\ DeliveredByTries
  /\ RetryIsCounted

-----------------------------------------------------------------------------
(***************************************************************************)
(* How the tries of all events change when a queue does.                   *)
(***************************************************************************)
LEMMA NothingIsNoEvent == \A ev \in HaEvents : ev # Nothing /\ ev.retries # Nothing
  BY HaAssumption DEF HaEvents

LEMMA TriesAre ==
  ASSUME NEW q \in Seq(HaEvents), NEW c \in HaEvents \cup {Nothing}, Distinct(q, c)
  PROVE  /\ c # Nothing => TriesOf(q, c, c.id) = c.retries
         /\ \A i \in 1..Len(q) : TriesOf(q, c, q[i].id) = q[i].retries
         /\ \A e : /\ c # Nothing => c.id # e
                   /\ \A i \in 1..Len(q) : q[i].id # e
                   => TriesOf(q, c, e) = Nothing
  <1>1. c # Nothing => TriesOf(q, c, c.id) = c.retries
    BY DEF TriesOf
  <1>2. ASSUME NEW i \in 1..Len(q)
        PROVE  TriesOf(q, c, q[i].id) = q[i].retries
    <2> DEFINE k == CHOOSE j \in 1..Len(q) : q[j].id = q[i].id
    <2>1. k \in 1..Len(q) /\ q[k].id = q[i].id
      OBVIOUS
    <2>2. k = i
      BY <2>1 DEF Distinct
    <2>3. ~(c # Nothing /\ c.id = q[i].id)
      BY DEF Distinct
    <2>4. TriesOf(q, c, q[i].id) = q[k].retries
      BY <2>3 DEF TriesOf
    <2> QED
      BY <2>2, <2>4
  <1>3. ASSUME NEW e, c # Nothing => c.id # e, \A i \in 1..Len(q) : q[i].id # e
        PROVE  TriesOf(q, c, e) = Nothing
    BY <1>3 DEF TriesOf
  <1> QED
    BY <1>1, <1>2, <1>3

\* home_assistant_notify_...: the event is the last of the queue
LEMMA TriesAccepted ==
  ASSUME NEW q \in Seq(HaEvents), NEW c \in HaEvents \cup {Nothing}, Distinct(q, c),
         NEW ev \in HaEvents, c # Nothing => c.id # ev.id,
         \A i \in 1..Len(q) : q[i].id # ev.id
  PROVE  /\ Distinct(Append(q, ev), c)
         /\ \A e : TriesOf(Append(q, ev), c, e)
                     = IF e = ev.id THEN ev.retries ELSE TriesOf(q, c, e)
  <1> DEFINE p == Append(q, ev)
  <1>1. /\ p \in Seq(HaEvents) /\ Len(p) = Len(q) + 1 /\ p[Len(q) + 1] = ev
        /\ \A i \in 1..Len(q) : p[i] = q[i]
        /\ Len(q) \in Nat
    OBVIOUS
  <1>2. Distinct(p, c)
    BY <1>1 DEF Distinct
  <1>3. ASSUME NEW e
        PROVE  TriesOf(p, c, e) = IF e = ev.id THEN ev.retries ELSE TriesOf(q, c, e)
    <2>1. CASE c # Nothing /\ c.id = e
      <3>1. e # ev.id
        BY <2>1
      <3> QED
        BY <2>1, <3>1 DEF TriesOf
    <2>2. CASE e = ev.id
      <3>1. Len(p) \in 1..Len(p) /\ p[Len(p)] = ev
        BY <1>1
      <3>2. TriesOf(p, c, p[Len(p)].id) = p[Len(p)].retries
        BY <1>1, <1>2, <3>1, TriesAre
      <3> QED
        BY <2>2, <3>1, <3>2
    <2>3. ASSUME NEW i \in 1..Len(q), q[i].id = e, e # ev.id
          PROVE  TriesOf(p, c, e) = TriesOf(q, c, e)
      <3>1. i \in 1..Len(p) /\ p[i] = q[i]
        BY <1>1
      <3>2. TriesOf(p, c, p[i].id) = p[i].retries
        BY <1>1, <1>2, <3>1, TriesAre
      <3>3. TriesOf(q, c, q[i].id) = q[i].retries
        BY TriesAre
      <3> QED
        BY <2>3, <3>1, <3>2, <3>3
    <2>4. CASE ~(c # Nothing /\ c.id = e) /\ e # ev.id /\ \A i \in 1..Len(q) : q[i].id # e
      <3>1. TriesOf(q, c, e) = Nothing
        BY <2>4, TriesAre
      <3>2. \A i \in 1..Len(p) : p[i].id # e
        BY <1>1, <2>4
      <3>3. TriesOf(p, c, e) = Nothing
        BY <1>1, <1>2, <2>4, <3>2, TriesAre
      <3> QED
        BY <2>4, <3>1, <3>3
    <2> QED
      BY <2>1, <2>2, <2>3, <2>4
  <1> QED
    BY <1>2, <1>3

\* xQueueReceive: the first of the queue has been received
LEMMA TriesReceived ==
  ASSUME NEW q \in Seq(HaEvents), q # <<>>, Distinct(q, Nothing)
  PROVE  /\ Distinct(Tail(q), Head(q))
         /\ \A e : TriesOf(Tail(q), Head(q), e) = TriesOf(q, Nothing, e)
  <1> DEFINE p == Tail(q)
             c == Head(q)
  <1>1. /\ p \in Seq(HaEvents) /\ Len(p) = Len(q) - 1 /\ Len(q) \in Nat \ {0}
        /\ c = q[1] /\ c \in HaEvents
        /\ \A i \in 1..Len(p) : p[i] = q[i + 1]
    OBVIOUS
  <1>2. c # Nothing
    BY <1>1, NothingIsNoEvent
  <1>3. Distinct(p, c)
    BY <1>1 DEF Distinct
  <1>4. ASSUME NEW e
        PROVE  TriesOf(p, c, e) = TriesOf(q, Nothing, e)
    <2>1. \A i \in 1..Len(q) : TriesOf(q, Nothing, q[i].id) = q[i].retries
      BY TriesAre
    <2>2. CASE c.id = e
      <3>1. TriesOf(p, c, c.id) = c.retries
        BY <1>1, <1>2, <1>3, TriesAre
      <3> QED
        BY <1>1, <2>1, <2>2, <3>1
    <2>3. ASSUME NEW i \in 1..Len(p), p[i].id = e
          PROVE  TriesOf(p, c, e) = TriesOf(q, Nothing, e)
      <3>1. TriesOf(p, c, p[i].id) = p[i].retries
        BY <1>1, <1>3, TriesAre
      <3>2. i + 1 \in 1..Len(q) /\ q[i + 1] = p[i]
        BY <1>1
      <3> QED
        BY <2>1, <2>3, <3>1, <3>2
    <2>4. CASE c.id # e /\ \A i \in 1..Len(p) : p[i].id # e
      <3>1. \A i \in 1..Len(q) : q[i].id # e
        <4>1. ASSUME NEW i \in 1..Len(q), i # 1 PROVE i - 1 \in 1..Len(p) /\ p[i - 1] = q[i]
          BY <1>1, <4>1
        <4> QED
          BY <1>1, <2>4, <4>1
      <3>2. TriesOf(q, Nothing, e) = Nothing
        BY <3>1, TriesAre
      <3>3. TriesOf(p, c, e) = Nothing
        BY <2>4 DEF TriesOf
      <3> QED
        BY <3>2, <3>3
    <2> QED
      BY <2>2, <2>3, <2>4
  <1> QED
    BY <1>3, <1>4

\* the event that has been received is counted, or is no longer under way
LEMMA TriesCounted ==
  ASSUME NEW q \in Seq(HaEvents), NEW c \in HaEvents, Distinct(q, c),
         NEW d \in HaEvents, d.id = c.id
  PROVE  /\ Distinct(q, d) /\ Distinct(q, Nothing)
         /\ \A e : TriesOf(q, d, e) = IF e = c.id THEN d.retries ELSE TriesOf(q, c, e)
         /\ \A e : TriesOf(q, Nothing, e) = IF e = c.id THEN Nothing ELSE TriesOf(q, c, e)
  <1>1. c # Nothing /\ d # Nothing
    BY NothingIsNoEvent
  <1>2. Distinct(q, d) /\ Distinct(q, Nothing)
    BY <1>1 DEF Distinct
  <1>3. \A e : TriesOf(q, d, e) = IF e = c.id THEN d.retries ELSE TriesOf(q, c, e)
    BY <1>1 DEF TriesOf
  <1>4. \A i \in 1..Len(q) : q[i].id # c.id
    BY <1>1 DEF Distinct
  <1>5. \A e : TriesOf(q, Nothing, e) = IF e = c.id THEN Nothing ELSE TriesOf(q, c, e)
    BY <1>1, <1>4 DEF TriesOf
  <1> QED
    BY <1>2, <1>3, <1>5

\* As many events are under way as there are places in use, and one.
LEMMA UnderWayCount ==
  ASSUME NEW q \in Seq(HaEvents), NEW c \in HaEvents, Distinct(q, c)
  PROVE  Cardinality({e \in Ids : TriesOf(q, c, e) # Nothing}) = Len(q) + 1
  <1> DEFINE n == Len(q) + 1
             S == {e \in Ids : TriesOf(q, c, e) # Nothing}
             f == [i \in 1..n |-> IF i = n THEN c.id ELSE q[i].id]
  <1>0. n \in Nat /\ Len(q) \in Nat /\ c # Nothing /\ c.id \in Ids
        /\ \A i \in 1..Len(q) : q[i] \in HaEvents /\ q[i].id \in Ids
    <2>1. Len(q) \in Nat /\ \A i \in 1..Len(q) : q[i] \in HaEvents
      OBVIOUS
    <2>2. \A ev \in HaEvents : ev.id \in Ids
      BY DEF HaEvents
    <2> QED
      BY <2>1, <2>2, NothingIsNoEvent
  <1>1. \A i \in 1..n : f[i] \in S
    <2>1. f[n] \in S
      BY <1>0, TriesAre, NothingIsNoEvent
    <2>2. ASSUME NEW i \in 1..n, i # n PROVE f[i] \in S
      <3>1. i \in 1..Len(q) /\ f[i] = q[i].id
        BY <1>0, <2>2
      <3>2. TriesOf(q, c, q[i].id) = q[i].retries
        BY <3>1, TriesAre
      <3> QED
        BY <1>0, <3>1, <3>2, NothingIsNoEvent
    <2> QED
      BY <2>1, <2>2
  <1>2. \A i, j \in 1..n : f[i] = f[j] => i = j
    BY <1>0 DEF Distinct
  <1>3. \A e \in S : \E i \in 1..n : f[i] = e
    <2> SUFFICES ASSUME NEW e \in S, \A i \in 1..n : f[i] # e PROVE FALSE
      OBVIOUS
    <2>1. c.id # e
      BY <1>0
    <2>2. \A i \in 1..Len(q) : q[i].id # e
      BY <1>0
    <2>3. TriesOf(q, c, e) = Nothing
      BY <2>1, <2>2, TriesAre
    <2> QED
      BY <2>3
  <1>4. f \in Bijection(1..n, S)
    BY <1>1, <1>2, <1>3 DEF Bijection, Injection, Surjection, IsInjective
  <1> QED
    BY <1>0, <1>4, FS_CountingElements DEF ExistsBijection

-----------------------------------------------------------------------------
(***************************************************************************)
(* The invariant.                                                          *)
(***************************************************************************)
LEMMA HaInitEstablishesInvariant == HaInit => HaIInv
  <1> SUFFICES ASSUME HaInit PROVE HaIInv
    OBVIOUS
  <1>1. HaTypeOK
    BY HaAssumption DEF HaInit, HaTypeOK
  <1> QED
    BY <1>1 DEF HaInit, HaIInv, WorkerIsCreated, Distinct, DeliveredByTries, RetryIsCounted

\* The steps that leave the events alone.
LEMMA OtherStepsKeepInvariant ==
  ASSUME HaIInv,
         \/ Initialise \/ ReceiveTimesOut \/ PollDisplay \/ Refresh \/ RefreshFails
         \/ EntityChanges \/ PollComesDue
  PROVE  HaIInv' /\ UNCHANGED <<haQueue, current, delivered>>
  <1> USE DEF HaIInv
  <1>1. UNCHANGED <<haQueue, current, delivered>>
    BY Zenon DEF Initialise, ReceiveTimesOut, PollDisplay, Refresh, RefreshFails,
       EntityChanges, PollComesDue
  <1>2. /\ haPhase' \in {"init", "created", "enabled", "disabled", "failed"}
        /\ worker' \in {"none", "idle", "post", "requeue", "display", "refresh"}
        /\ worker' \in {"post", "requeue"} <=> worker \in {"post", "requeue"}
        /\ worker' = "requeue" => worker = "requeue"
    <2>1. CASE Initialise
      <3>1. worker = "none" \/ haPhase = "created"
        BY <2>1 DEF Initialise, WorkerIsCreated
      <3>2. worker' = worker \/ (worker = "none" /\ worker' \in {"idle", "none"})
        BY <2>1, <3>1 DEF Initialise, WorkerIsCreated
      <3>3. haPhase' \in {"init", "created", "enabled", "disabled", "failed"}
        BY <2>1, HaAssumption DEF Initialise
      <3> QED
        BY <3>2, <3>3 DEF HaTypeOK
    <2>2. CASE ReceiveTimesOut \/ PollDisplay \/ Refresh \/ RefreshFails
      BY <2>2 DEF HaTypeOK, ReceiveTimesOut, PollDisplay, Refresh, RefreshFails
    <2>3. CASE EntityChanges \/ PollComesDue
      BY <2>3, Zenon DEF HaTypeOK, EntityChanges, PollComesDue
    <2> QED
      BY <2>1, <2>2, <2>3
  <1>3. /\ entity' \in EntityStates /\ changes' \in 0..MaxChanges
        /\ line' \in EntityStates \cup {Nothing}
    BY HaAssumption DEF HaTypeOK, Initialise, ReceiveTimesOut, PollDisplay, Refresh,
       RefreshFails, EntityChanges, PollComesDue
  <1>4. pollDue' \in BOOLEAN
    BY Zenon DEF HaTypeOK, Initialise, ReceiveTimesOut, PollDisplay, Refresh,
       RefreshFails, EntityChanges, PollComesDue
  <1>5. current' = Nothing <=> worker' \notin {"post", "requeue"}
    BY <1>1, <1>2 DEF HaTypeOK
  <1>6. HaTypeOK'
    BY <1>1, <1>2, <1>3, <1>4, <1>5, Zenon DEF HaTypeOK
  <1>7. WorkerIsCreated'
    <2>1. CASE Initialise
      BY <2>1, HaAssumption DEF Initialise, WorkerIsCreated
    <2>2. CASE ~Initialise
      BY <2>2, Zenon DEF WorkerIsCreated, ReceiveTimesOut, PollDisplay, Refresh,
         RefreshFails, EntityChanges, PollComesDue
    <2> QED
      BY <2>1, <2>2
  <1> QED
    BY <1>1, <1>2, <1>6, <1>7 DEF Distinct, DeliveredByTries, RetryIsCounted

LEMMA QueueEventKeepsInvariant ==
  ASSUME HaIInv, NEW e \in Ids, ~UnderWay(e), QueueEvent(e)
  PROVE  HaIInv'
  <1> USE DEF HaIInv
  <1> DEFINE ev == [id |-> e, retries |-> 0]
  <1>1. ev \in HaEvents /\ ev.id = e /\ ev.retries = 0
    BY HaAssumption DEF HaEvents
  <1>2. /\ haQueue \in Seq(HaEvents) /\ Len(haQueue) < QueueSize /\ Len(haQueue) \in Nat
        /\ haQueue' = Append(haQueue, ev) /\ haQueue' \in Seq(HaEvents)
        /\ Len(haQueue') = Len(haQueue) + 1 /\ haQueue'[Len(haQueue) + 1] = ev
        /\ \A i \in 1..Len(haQueue) : haQueue'[i] = haQueue[i] /\ haQueue[i].id # e
        /\ current # Nothing => current.id # e
        /\ current \in HaEvents \cup {Nothing}
        /\ UNCHANGED <<haPhase, worker, current, entity, changes, line, pollDue>>
    BY <1>1 DEF QueueEvent, HaTypeOK, UnderWay
  <1>3. delivered' = [delivered EXCEPT ![e] = 0]
        /\ delivered' \in [Ids -> 0..(MaxRetry + 1)]
    BY HaAssumption DEF QueueEvent, HaTypeOK
  <1>4. HaTypeOK'
    BY <1>2, <1>3, HaAssumption DEF HaTypeOK
  <1>5. Distinct(haQueue', current')
    BY <1>1, <1>2, TriesAccepted
  <1>6. DeliveredByTries'
    <2>1. \A d \in Ids : delivered'[d] = IF d = e THEN 0 ELSE delivered[d]
      BY <1>3 DEF HaTypeOK
    <2>2. \A v \in HaEvents : v.id \in Ids
      BY DEF HaEvents
    <2>3. ASSUME NEW i \in 1..Len(haQueue')
          PROVE  delivered'[haQueue'[i].id] <= haQueue'[i].retries
      <3>1. CASE i \in 1..Len(haQueue)
        BY <1>2, <2>1, <2>2, <3>1 DEF DeliveredByTries
      <3>2. CASE i = Len(haQueue) + 1
        BY <1>1, <1>2, <2>1, <3>2
      <3> QED
        BY <1>2, <3>1, <3>2
    <2>4. current # Nothing => delivered'[current.id] <= current.retries
      BY <1>2, <2>1, <2>2 DEF DeliveredByTries
    <2> QED
      BY <1>2, <2>3, <2>4 DEF DeliveredByTries
  <1>7. WorkerIsCreated' /\ RetryIsCounted'
    BY <1>2 DEF WorkerIsCreated, RetryIsCounted
  <1> QED
    BY <1>4, <1>5, <1>6, <1>7

LEMMA ReceiveKeepsInvariant ==
  ASSUME HaIInv, Receive
  PROVE  HaIInv'
  <1> USE DEF HaIInv
  <1>1. /\ haQueue \in Seq(HaEvents) /\ haQueue # <<>> /\ Len(haQueue) <= QueueSize
        /\ current = Nothing /\ worker' = "post"
        /\ current' = Head(haQueue) /\ haQueue' = Tail(haQueue)
        /\ UNCHANGED <<haPhase, delivered, entity, changes, line, pollDue>>
    BY DEF Receive, HaTypeOK
  <1>2. /\ haQueue' \in Seq(HaEvents) /\ Len(haQueue') <= QueueSize
        /\ current' \in HaEvents /\ current' = haQueue[1] /\ 1 \in 1..Len(haQueue)
        /\ \A i \in 1..Len(haQueue') : /\ i + 1 \in 1..Len(haQueue)
                                       /\ haQueue'[i] = haQueue[i + 1]
    BY <1>1, HaAssumption
  <1>3. current' # Nothing
    BY <1>2, NothingIsNoEvent
  <1>4. HaTypeOK'
    BY <1>1, <1>2, <1>3 DEF HaTypeOK
  <1>5. Distinct(haQueue', current')
    BY <1>1, TriesReceived
  <1>6. DeliveredByTries'
    BY <1>1, <1>2 DEF DeliveredByTries
  <1>7. WorkerIsCreated' /\ RetryIsCounted'
    BY <1>1 DEF WorkerIsCreated, RetryIsCounted, Receive
  <1> QED
    BY <1>4, <1>5, <1>6, <1>7

\* what is known of the event that is posted
LEMMA Posting ==
  ASSUME HaIInv, worker \in {"post", "requeue"}
  PROVE  /\ current \in HaEvents /\ current # Nothing
         /\ current.id \in Ids /\ current.retries \in 0..MaxRetry
         /\ delivered[current.id] \in 0..current.retries
         /\ \A i \in 1..Len(haQueue) : haQueue[i] \in HaEvents /\ haQueue[i].id \in Ids
                                       /\ haQueue[i].id # current.id
  <1>1. current \in HaEvents /\ current # Nothing
    BY DEF HaIInv, HaTypeOK
  <1>2. \A ev \in HaEvents : ev.id \in Ids /\ ev.retries \in 0..MaxRetry
    BY DEF HaEvents
  <1>3. delivered[current.id] \in 0..current.retries
    BY <1>1, <1>2 DEF HaIInv, HaTypeOK, DeliveredByTries
  <1>4. \A i \in 1..Len(haQueue) : haQueue[i] \in HaEvents
    BY DEF HaIInv, HaTypeOK
  <1> QED
    BY <1>1, <1>2, <1>3, <1>4 DEF HaIInv, Distinct

LEMMA PostKeepsInvariant ==
  ASSUME HaIInv, PostSucceeds \/ PostFails
  PROVE  /\ HaIInv' /\ UNCHANGED haQueue
         /\ PostFails => current' = IF TryAgain THEN Retried ELSE Nothing
         /\ TryAgain => Retried \in HaEvents /\ Retried.id = current.id
                        /\ Retried.retries = current.retries + 1
  <1> USE DEF HaIInv
  <1>0. worker = "post"
    BY DEF PostSucceeds, PostFails
  <1>1. /\ UNCHANGED <<haPhase, haQueue, entity, changes, line, pollDue>>
        /\ PostFails => current' = IF TryAgain THEN Retried ELSE Nothing
    BY Zenon DEF PostSucceeds, PostFails
  <1>2. ASSUME TryAgain
        PROVE  Retried \in HaEvents /\ Retried.id = current.id
               /\ Retried.retries = current.retries + 1
    <2>1. Retried = [id |-> current.id, retries |-> current.retries + 1]
      BY <1>0, Posting DEF Retried, HaEvents
    <2>2. current.retries + 1 \in 0..MaxRetry
      BY <1>0, <1>2, Posting, HaAssumption DEF TryAgain
    <2> QED
      BY <1>0, <2>1, <2>2, Posting DEF HaEvents
  <1>3. \/ current' = Nothing /\ worker' = "display"
        \/ TryAgain /\ current' = Retried /\ worker' = "requeue"
    BY Zenon DEF PostSucceeds, PostFails
  <1>4. /\ current' \in HaEvents \cup {Nothing}
        /\ worker' \in {"none", "idle", "post", "requeue", "display", "refresh"}
        /\ current' = Nothing <=> worker' \notin {"post", "requeue"}
    BY <1>2, <1>3, NothingIsNoEvent
  <1>5. delivered' \in {delivered, [delivered EXCEPT ![current.id] = @ + 1]}
    BY Zenon DEF PostSucceeds, PostFails
  <1>6. /\ \A d \in Ids : d # current.id => delivered'[d] = delivered[d]
        /\ delivered'[current.id] <= current.retries + 1
        /\ delivered' \in [Ids -> 0..(MaxRetry + 1)]
    BY <1>0, <1>5, Posting, HaAssumption DEF HaTypeOK
  <1>7. HaTypeOK'
    BY <1>1, <1>4, <1>6, Zenon DEF HaTypeOK
  <1>8. Distinct(haQueue', current')
    <2>1. Distinct(haQueue, Nothing) /\ (TryAgain => Distinct(haQueue, Retried))
      BY <1>0, <1>2, Posting DEF Distinct
    <2> QED
      BY <1>1, <1>3, <2>1
  <1>9. DeliveredByTries'
    BY <1>0, <1>1, <1>2, <1>3, <1>6, Posting DEF DeliveredByTries
  <1>10. WorkerIsCreated' /\ RetryIsCounted'
    BY <1>0, <1>1, <1>2, <1>3, Posting DEF WorkerIsCreated, RetryIsCounted
  <1> QED
    BY <1>1, <1>2, <1>7, <1>8, <1>9, <1>10

LEMMA RequeueKeepsInvariant ==
  ASSUME HaIInv, Requeue
  PROVE  HaIInv'
  <1> USE DEF HaIInv
  <1>0. worker = "requeue"
    BY DEF Requeue
  <1>1. /\ current' = Nothing /\ worker' = "display"
        /\ UNCHANGED <<haPhase, delivered, entity, changes, line, pollDue>>
        /\ haQueue \in Seq(HaEvents) /\ Len(haQueue) \in Nat
    BY DEF Requeue, HaTypeOK
  <1>2. CASE Len(haQueue) < QueueSize
    <2>1. /\ haQueue' = Append(haQueue, current) /\ haQueue' \in Seq(HaEvents)
          /\ Len(haQueue') = Len(haQueue) + 1 /\ haQueue'[Len(haQueue) + 1] = current
          /\ \A i \in 1..Len(haQueue) : haQueue'[i] = haQueue[i]
      BY <1>0, <1>1, <1>2, Posting DEF Requeue
    <2>2. HaTypeOK'
      BY <1>1, <1>2, <2>1, HaAssumption DEF HaTypeOK
    <2>3. Distinct(haQueue', current')
      BY <1>0, <1>1, <2>1, Posting DEF Distinct
    <2>4. DeliveredByTries'
      <3>1. ASSUME NEW i \in 1..Len(haQueue')
            PROVE  delivered'[haQueue'[i].id] <= haQueue'[i].retries
        <4>1. CASE i \in 1..Len(haQueue)
          BY <1>1, <2>1, <4>1 DEF DeliveredByTries
        <4>2. CASE i = Len(haQueue) + 1
          BY <1>0, <1>1, <2>1, <4>2, Posting DEF DeliveredByTries
        <4> QED
          BY <1>1, <2>1, <4>1, <4>2
      <3> QED
        BY <1>1, <3>1 DEF DeliveredByTries
    <2> QED
      BY <1>0, <1>1, <2>2, <2>3, <2>4 DEF WorkerIsCreated, RetryIsCounted
  <1>3. CASE ~(Len(haQueue) < QueueSize)
    <2>1. haQueue' = haQueue
      BY <1>3 DEF Requeue
    <2> QED
      BY <1>0, <1>1, <2>1 DEF HaTypeOK, WorkerIsCreated, Distinct, DeliveredByTries,
         RetryIsCounted
  <1> QED
    BY <1>2, <1>3

LEMMA HaStepKeepsInvariant == HaIInv /\ [HaNext]_haVars => HaIInv'
  <1> SUFFICES ASSUME HaIInv, [HaNext]_haVars PROVE HaIInv'
    OBVIOUS
  <1>1. CASE UNCHANGED haVars
    BY <1>1, Zenon DEF haVars, HaIInv, HaTypeOK, WorkerIsCreated, Distinct,
       DeliveredByTries, RetryIsCounted
  <1> QED
    BY <1>1, OtherStepsKeepInvariant, QueueEventKeepsInvariant, ReceiveKeepsInvariant,
       PostKeepsInvariant, RequeueKeepsInvariant, Zenon DEF HaNext, Notify, Worker

LEMMA HaInvariance == HaSpec => []HaIInv
  BY HaInitEstablishesInvariant, HaStepKeepsInvariant, PTL DEF HaSpec, HaSafetySpec

(***************************************************************************)
(* The client's variables have their types: the queue holds no more than   *)
(* it has room for, and the server gets no event more often than MaxRetry  *)
(* times and once.                                                         *)
(***************************************************************************)
THEOREM HaTypeCorrect == HaSpec => []HaTypeOK
  <1>1. HaIInv => HaTypeOK
    BY DEF HaIInv
  <1> QED
    BY <1>1, HaInvariance, PTL

-----------------------------------------------------------------------------
(***************************************************************************)
(* The refinement: every step of the client is one of the channel's, or    *)
(* leaves the events alone.                                                *)
(***************************************************************************)
TriesNow == [e \in Ids |-> Tries(e)]

LEMMA TriesAreOfState ==
  /\ TriesNow = [e \in Ids |-> TriesOf(haQueue, current, e)]
  /\ TriesNow' = [e \in Ids |-> TriesOf(haQueue', current', e)]
  BY DEF TriesNow, Tries, TriesOf

LEMMA InitImplements == HaInit => Channel!ChannelInit
  BY DEF HaInit, Channel!ChannelInit, Tries

LEMMA AcceptImplements ==
  ASSUME HaIInv, NEW e \in Ids, ~UnderWay(e), QueueEvent(e)
  PROVE  Channel!Accept(e)
  <1> DEFINE ev == [id |-> e, retries |-> 0]
  <1>1. ev \in HaEvents /\ ev.id = e /\ ev.retries = 0
    BY HaAssumption DEF HaEvents
  <1>2. /\ haQueue \in Seq(HaEvents) /\ current \in HaEvents \cup {Nothing}
        /\ Distinct(haQueue, current)
        /\ haQueue' = Append(haQueue, ev) /\ current' = current
        /\ \A i \in 1..Len(haQueue) : haQueue[i].id # e
        /\ current # Nothing => current.id # e
        /\ delivered' = [delivered EXCEPT ![e] = 0]
    BY DEF HaIInv, HaTypeOK, QueueEvent, UnderWay
  <1>3. TriesOf(haQueue, current, e) = Nothing
    BY <1>2, TriesAre
  <1>4. \A d : TriesOf(haQueue', current', d)
                 = IF d = e THEN 0 ELSE TriesOf(haQueue, current, d)
    BY <1>1, <1>2, TriesAccepted
  <1>5. TriesNow[e] = Nothing /\ TriesNow' = [TriesNow EXCEPT ![e] = 0]
    BY <1>3, <1>4, TriesAreOfState
  <1> QED
    BY <1>2, <1>5 DEF Channel!Accept, TriesNow

LEMMA ReceiveImplements ==
  ASSUME HaIInv, Receive
  PROVE  UNCHANGED <<TriesNow, delivered>>
  <1>1. /\ haQueue \in Seq(HaEvents) /\ haQueue # <<>> /\ current = Nothing
        /\ Distinct(haQueue, Nothing)
        /\ haQueue' = Tail(haQueue) /\ current' = Head(haQueue)
        /\ delivered' = delivered
    BY DEF HaIInv, HaTypeOK, Receive
  <1>2. \A d : TriesOf(haQueue', current', d) = TriesOf(haQueue, current, d)
    BY <1>1, TriesReceived
  <1> QED
    BY <1>1, <1>2, TriesAreOfState

LEMMA PostImplements ==
  ASSUME HaIInv, PostSucceeds \/ PostFails
  PROVE  \E e \in Ids : Channel!Deliver(e) \/ Channel!FailingTry(e)
  <1> DEFINE e == current.id
  <1>0. worker = "post"
    BY DEF PostSucceeds, PostFails
  <1>1. /\ haQueue \in Seq(HaEvents) /\ Distinct(haQueue, current)
        /\ current \in HaEvents /\ e \in Ids /\ current.retries \in 0..MaxRetry
        /\ haQueue' = haQueue /\ current # Nothing
    BY <1>0, Posting, PostKeepsInvariant DEF HaIInv, HaTypeOK
  <1>2. TriesNow[e] = current.retries /\ current.retries # Nothing
    <2>1. TriesOf(haQueue, current, e) = current.retries
      BY <1>1, TriesAre
    <2> QED
      BY <1>1, <2>1, TriesAreOfState, NothingIsNoEvent
  <1>3. ASSUME current' = Nothing
        PROVE  TriesNow' = [TriesNow EXCEPT ![e] = Nothing]
    <2>1. \A d : TriesOf(haQueue, Nothing, d)
                   = IF d = e THEN Nothing ELSE TriesOf(haQueue, current, d)
      BY <1>1, TriesCounted
    <2> QED
      BY <1>1, <1>3, <2>1, TriesAreOfState
  <1>4. CASE PostSucceeds
    <2>1. current' = Nothing /\ delivered' = [delivered EXCEPT ![e] = @ + 1]
      BY <1>4 DEF PostSucceeds
    <2>2. Channel!Deliver(e)
      BY <1>2, <1>3, <2>1 DEF Channel!Deliver, TriesNow
    <2> QED
      BY <1>1, <2>2
  <1>5. CASE PostFails
    <2>1. delivered' \in {delivered, [delivered EXCEPT ![e] = @ + 1]}
      BY <1>5 DEF PostFails
    <2>2. CASE TryAgain
      <3>1. /\ current' = Retried /\ Retried \in HaEvents /\ Retried.id = e
            /\ Retried.retries = current.retries + 1
        BY <1>5, <2>2, PostKeepsInvariant
      <3>2. \A d : TriesOf(haQueue, Retried, d)
                     = IF d = e THEN Retried.retries ELSE TriesOf(haQueue, current, d)
        BY <1>1, <3>1, TriesCounted
      <3>3. TriesNow' = [TriesNow EXCEPT ![e] = current.retries + 1]
        BY <1>1, <3>1, <3>2, TriesAreOfState
      <3>4. TriesNow' = [TriesNow EXCEPT ![e] = IF @ < MaxRetry THEN @ + 1 ELSE Nothing]
        BY <1>1, <1>2, <2>2, <3>3, TriesAreOfState DEF TryAgain
      <3>5. Channel!FailingTry(e)
        BY <1>2, <2>1, <3>4 DEF Channel!FailingTry, TriesNow
      <3> QED
        BY <1>1, <3>5
    <2>3. CASE ~TryAgain
      <3>1. TriesNow' = [TriesNow EXCEPT ![e] = Nothing]
        BY <1>3, <1>5, <2>3, PostKeepsInvariant
      <3>2. TriesNow' = [TriesNow EXCEPT ![e] = IF @ < MaxRetry THEN @ + 1 ELSE Nothing]
        BY <1>1, <1>2, <2>3, <3>1, TriesAreOfState DEF TryAgain
      <3>3. Channel!FailingTry(e)
        BY <1>2, <2>1, <3>2 DEF Channel!FailingTry, TriesNow
      <3> QED
        BY <1>1, <3>3
    <2> QED
      BY <2>2, <2>3
  <1> QED
    BY <1>4, <1>5

\* the channel counts as this module does
LEMMA SameCardinality == \A S : Channel!Cardinality(S) = Cardinality(S)
  BY Zenon DEF Channel!Cardinality, Cardinality

\* With room in the queue the channel does not see it; without, the retry is
\* given up, and there are QueueSize others.
LEMMA RequeueImplements ==
  ASSUME HaIInv, Requeue
  PROVE  \/ UNCHANGED <<TriesNow, delivered>>
         \/ \E e \in Ids : Channel!GiveUpRetry(e)
  <1> DEFINE e == current.id
  <1>1. /\ haQueue \in Seq(HaEvents) /\ Distinct(haQueue, current)
        /\ current \in HaEvents /\ e \in Ids /\ current # Nothing
        /\ current.retries # 0 /\ current.retries # Nothing
        /\ current' = Nothing /\ delivered' = delivered
        /\ Len(haQueue) <= QueueSize /\ Len(haQueue) \in Nat
    BY Posting, NothingIsNoEvent DEF Requeue, HaIInv, HaTypeOK, RetryIsCounted
  <1>2. \A d : TriesOf(haQueue, Nothing, d)
                 = IF d = e THEN Nothing ELSE TriesOf(haQueue, current, d)
    BY <1>1, TriesCounted
  <1>3. TriesOf(haQueue, current, e) = current.retries
    BY <1>1, TriesAre
  <1>4. CASE Len(haQueue) < QueueSize
    <2>1. haQueue' = Append(haQueue, current) /\ Distinct(haQueue, Nothing)
          /\ \A i \in 1..Len(haQueue) : haQueue[i].id # e
      BY <1>1, <1>4, TriesCounted DEF Requeue, Distinct
    <2>2. \A d : TriesOf(haQueue', Nothing, d)
                   = IF d = e THEN current.retries ELSE TriesOf(haQueue, Nothing, d)
      BY <1>1, <2>1, TriesAccepted
    <2>3. \A d : TriesOf(haQueue', current', d) = TriesOf(haQueue, current, d)
      BY <1>1, <1>2, <1>3, <2>2
    <2> QED
      BY <1>1, <2>3, TriesAreOfState
  <1>5. CASE ~(Len(haQueue) < QueueSize)
    <2>1. haQueue' = haQueue /\ Len(haQueue) = QueueSize
      BY <1>1, <1>5, HaAssumption DEF Requeue
    <2>2. TriesNow' = [TriesNow EXCEPT ![e] = Nothing]
      BY <1>1, <1>2, <2>1, TriesAreOfState
    <2>3. TriesNow[e] # Nothing /\ TriesNow[e] # 0
      BY <1>1, <1>3, TriesAreOfState
    <2>4. {d \in Ids : TriesNow[d] # Nothing}
            = {d \in Ids : TriesOf(haQueue, current, d) # Nothing}
      BY TriesAreOfState
    <2>5. Cardinality({d \in Ids : TriesNow[d] # Nothing}) > QueueSize
      BY <1>1, <2>1, <2>4, UnderWayCount, HaAssumption
    <2>6. Channel!GiveUpRetry(e)
      BY <1>1, <2>2, <2>3, <2>5, SameCardinality, Zenon DEF Channel!GiveUpRetry, TriesNow
    <2> QED
      BY <1>1, <2>6
  <1> QED
    BY <1>4, <1>5

LEMMA StepImplements ==
  HaIInv /\ [HaNext]_haVars => [Channel!ChannelNext]_(Channel!channelVars)
  <1> SUFFICES ASSUME HaIInv, [HaNext]_haVars
               PROVE  Channel!ChannelNext \/ UNCHANGED <<TriesNow, delivered>>
    BY DEF Channel!channelVars, TriesNow
  <1>1. CASE UNCHANGED haVars
    BY <1>1, TriesAreOfState DEF haVars
  <1>2. ASSUME NEW e \in Ids, ~UnderWay(e), QueueEvent(e)
        PROVE  Channel!ChannelNext
    BY <1>2, AcceptImplements DEF Channel!ChannelNext
  <1>3. CASE Receive
    BY <1>3, ReceiveImplements
  <1>4. CASE PostSucceeds \/ PostFails
    BY <1>4, PostImplements DEF Channel!ChannelNext
  <1>5. CASE Requeue
    BY <1>5, RequeueImplements DEF Channel!ChannelNext
  <1>6. CASE \/ Initialise \/ ReceiveTimesOut \/ PollDisplay \/ Refresh \/ RefreshFails
             \/ EntityChanges \/ PollComesDue
    BY <1>6, OtherStepsKeepInvariant, TriesAreOfState
  <1> QED
    BY <1>1, <1>2, <1>3, <1>4, <1>5, <1>6 DEF HaNext, Notify, Worker

(***************************************************************************)
(* The client implements the lossy channel: an event accepted reaches the  *)
(* server, is lost on a failing try, is tried again a bounded number of    *)
(* times, and is given up early only if as many others wait as the queue   *)
(* holds.                                                                  *)
(***************************************************************************)
THEOREM ClientIsChannel == HaSpec => ImplementsChannel
  BY InitImplements, StepImplements, HaInvariance, PTL
     DEF HaSpec, HaSafetySpec, ImplementsChannel, Channel!ChannelSpec
=============================================================================
