---------------------------- MODULE HomeAssistant ----------------------------
(***************************************************************************)
(* main/home_assistant.c: the queue of events, the worker task that posts  *)
(* them and tries again, and the entity it polls for the display.          *)
(*                                                                         *)
(* An event is a model value that is used again once the event is gone;    *)
(* what it says, its URL and its JSON are left out.  Events are offered by *)
(* the input task and, for layer changes, by the web server's task.        *)
(***************************************************************************)
EXTENDS Naturals, Sequences, FiniteSets

CONSTANTS Ids, Nothing, MaxRetry,
          QueueSize,  \* MACRO_HA_QUEUE_SIZE
          EntityStates, \* states of the displayed entity
          MaxChanges, \* bound of the model: how often that changes
          InitOutcomes \* how home_assistant_init may end

ASSUME HaAssumption ==
  /\ MaxRetry \in Nat /\ QueueSize \in Nat \ {0} /\ MaxChanges \in Nat
  /\ Nothing \notin Ids /\ Nothing \notin Nat /\ Nothing \notin EntityStates
  /\ Nothing \notin [id : Ids, retries : 0..MaxRetry]
  /\ InitOutcomes \subseteq {"runs", "disabled", "failed"}

VARIABLES
  haPhase,   \* progress of home_assistant_init; "enabled" is s_runtime_enabled
  haQueue,   \* s_queue
  worker,    \* where ha_worker_task is
  current,   \* the event it has received
  delivered, \* how often the server has got each event, since it was offered
  entity, changes, \* the entity's state on the server
  line,      \* s_display_line, once s_display_ready
  pollDue    \* s_display_next_poll_tick has come

haVars == <<haPhase, haQueue, worker, current, delivered, entity, changes, line, pollDue>>

HaEvents == [id : Ids, retries : 0..MaxRetry]

HaTypeOK ==
  /\ haPhase \in {"init", "created", "enabled", "disabled", "failed"}
  /\ haQueue \in Seq(HaEvents) /\ Len(haQueue) <= QueueSize
  /\ worker \in {"none", "idle", "post", "requeue", "display", "refresh"}
  /\ current \in HaEvents \cup {Nothing}
  /\ current = Nothing <=> worker \notin {"post", "requeue"}
  /\ delivered \in [Ids -> 0..(MaxRetry + 1)]
  /\ entity \in EntityStates /\ changes \in 0..MaxChanges
  /\ line \in EntityStates \cup {Nothing}
  /\ pollDue \in BOOLEAN

HaInit ==
  /\ haPhase = "init" /\ haQueue = <<>>
  /\ worker = "none" /\ current = Nothing
  /\ delivered = [e \in Ids |-> 0]
  /\ entity \in EntityStates /\ changes = 0
  /\ line = Nothing /\ pollDue = TRUE

\* home_assistant_init: the worker may run before events are let in
Initialise ==
  /\ \/ /\ haPhase = "init"
        /\ \E outcome \in InitOutcomes :
             /\ haPhase' = IF outcome = "runs" THEN "created" ELSE outcome
             /\ worker' = IF outcome = "runs" THEN "idle" ELSE "none"
     \/ /\ haPhase = "created"
        /\ haPhase' = "enabled"
        /\ UNCHANGED worker
  /\ UNCHANGED <<haQueue, current, delivered, entity, changes, line, pollDue>>

-----------------------------------------------------------------------------
(***************************************************************************)
(* queue_event: an event that finds the queue full is dropped.  Every      *)
(* notify function and the control action end in it.                       *)
(***************************************************************************)
UnderWay(e) ==
  \/ \E i \in 1..Len(haQueue) : haQueue[i].id = e
  \/ current # Nothing /\ current.id = e

QueueEvent(e) ==
  /\ haPhase = "enabled" /\ Len(haQueue) < QueueSize
  /\ haQueue' = Append(haQueue, [id |-> e, retries |-> 0])
  /\ delivered' = [delivered EXCEPT ![e] = 0]
  /\ UNCHANGED <<haPhase, worker, current, entity, changes, line, pollDue>>

Notify == \E e \in Ids : ~UnderWay(e) /\ QueueEvent(e)

-----------------------------------------------------------------------------
(***************************************************************************)
(* ha_worker_task.                                                         *)
(***************************************************************************)
Receive ==
  /\ worker = "idle" /\ haQueue # <<>>
  /\ current' = Head(haQueue) /\ haQueue' = Tail(haQueue)
  /\ worker' = "post"
  /\ UNCHANGED <<haPhase, delivered, entity, changes, line, pollDue>>

ReceiveTimesOut ==
  /\ worker = "idle" /\ haQueue = <<>>
  /\ worker' = "display"
  /\ UNCHANGED <<haPhase, haQueue, current, delivered, entity, changes, line, pollDue>>

PostSucceeds ==
  /\ worker = "post"
  /\ delivered' = [delivered EXCEPT ![current.id] = @ + 1]
  /\ current' = Nothing /\ worker' = "display"
  /\ UNCHANGED <<haPhase, haQueue, entity, changes, line, pollDue>>

\* Fault: the last retry is followed by one more.
TryAgainOnceMore == current.retries <= MaxRetry

TryAgain == current.retries < MaxRetry

\* Fault: the copy that goes back to the queue was made before the count.
RetriedUncounted == current

Retried == [current EXCEPT !.retries = @ + 1]

\* process_event fails: the server has not got the event, or its answer is lost
PostFails ==
  /\ worker = "post"
  /\ delivered' \in {delivered, [delivered EXCEPT ![current.id] = @ + 1]}
  /\ current' = IF TryAgain THEN Retried ELSE Nothing
  /\ worker' = IF TryAgain THEN "requeue" ELSE "display"
  /\ UNCHANGED <<haPhase, haQueue, entity, changes, line, pollDue>>

\* the worker is the only reader: the tick it waits for room brings none
Requeue ==
  /\ worker = "requeue"
  /\ haQueue' = IF Len(haQueue) < QueueSize THEN Append(haQueue, current) ELSE haQueue
  /\ current' = Nothing /\ worker' = "display"
  /\ UNCHANGED <<haPhase, delivered, entity, changes, line, pollDue>>

\* Fault: the display is polled when nothing waits to be posted.
PollsDisplayIfIdle == pollDue /\ haQueue = <<>>

PollsDisplay == pollDue

PollDisplay ==
  /\ worker = "display"
  /\ worker' = IF PollsDisplay THEN "refresh" ELSE "idle"
  /\ pollDue' = (pollDue /\ ~PollsDisplay)
  /\ UNCHANGED <<haPhase, haQueue, current, delivered, entity, changes, line>>

Refresh ==
  /\ worker = "refresh"
  /\ line' = entity /\ worker' = "idle"
  /\ UNCHANGED <<haPhase, haQueue, current, delivered, entity, changes, pollDue>>

\* the request fails, or the display task holds the lock for too long
RefreshFails ==
  /\ worker = "refresh"
  /\ worker' = "idle"
  /\ UNCHANGED <<haPhase, haQueue, current, delivered, entity, changes, line, pollDue>>

EntityChanges ==
  /\ changes < MaxChanges /\ changes' = changes + 1
  /\ entity' \in EntityStates \ {entity}
  /\ UNCHANGED <<haPhase, haQueue, worker, current, delivered, line, pollDue>>

PollComesDue ==
  /\ ~pollDue /\ pollDue' = TRUE
  /\ UNCHANGED <<haPhase, haQueue, worker, current, delivered, entity, changes, line>>

Worker ==
  \/ Receive \/ ReceiveTimesOut
  \/ PostSucceeds \/ PostFails \/ Requeue
  \/ PollDisplay \/ Refresh \/ RefreshFails

HaNext ==
  \/ Initialise
  \/ Notify
  \/ Worker
  \/ EntityChanges \/ PollComesDue

(***************************************************************************)
(* The worker runs and the clock goes on; a state that is asked for again  *)
(* and again is received at last.  Posts may fail for ever.                *)
(***************************************************************************)
HaFairness ==
  /\ WF_haVars(Initialise) /\ WF_haVars(Worker) /\ WF_haVars(PollComesDue)
  /\ SF_haVars(Refresh)

HaSafetySpec == HaInit /\ [][HaNext]_haVars
HaSpec == HaSafetySpec /\ HaFairness

-----------------------------------------------------------------------------
(***************************************************************************)
(* The client is the lossy channel: an event accepted reaches the server   *)
(* once unless something is lost, is tried at most once and MaxRetry times *)
(* more, and a retry is dropped only when the queue is full.               *)
(***************************************************************************)
Tries(e) ==
  IF current # Nothing /\ current.id = e THEN current.retries
  ELSE IF \E i \in 1..Len(haQueue) : haQueue[i].id = e
    THEN haQueue[CHOOSE i \in 1..Len(haQueue) : haQueue[i].id = e].retries
    ELSE Nothing

Channel == INSTANCE HaChannel WITH
  tries <- [e \in Ids |-> Tries(e)], Capacity <- QueueSize

ImplementsChannel == Channel!ChannelSpec

(***************************************************************************)
(* Home-Assistant-Integration.md:21-26: no event stays in the queue for    *)
(* good, also when every request fails and new events keep coming.         *)
(***************************************************************************)
EventsSettle == \A e \in Ids : UnderWay(e) ~> ~UnderWay(e)

(***************************************************************************)
(* The display comes to show what the entity is, however many events there *)
(* are to publish: the queue cannot starve the poll.                       *)
(***************************************************************************)
DisplayFollows ==
  \A v \in EntityStates :
    <>[](haPhase = "enabled" /\ entity = v) => <>[](line = v)
=============================================================================
