------------------------------ MODULE HaChannel ------------------------------
(***************************************************************************)
(* What the Home Assistant client promises about the events it accepts: an *)
(* event reaches the server once, unless answers or requests are lost; it  *)
(* is then tried a bounded number of times, and is given up early only     *)
(* when too many others wait.                                              *)
(***************************************************************************)
EXTENDS Naturals, FiniteSets

CONSTANTS Ids,      \* events under way at a time
          MaxRetry, \* MACRO_HA_MAX_RETRY
          Capacity, \* events that wait before a retry may be given up
          Nothing   \* the event is not under way

VARIABLES tries,     \* failing tries of every event under way
          delivered  \* how often the server has got it

channelVars == <<tries, delivered>>

ChannelInit ==
  /\ tries = [e \in Ids |-> Nothing]
  /\ delivered = [e \in Ids |-> 0]

Accept(e) ==
  /\ tries[e] = Nothing
  /\ tries' = [tries EXCEPT ![e] = 0]
  /\ delivered' = [delivered EXCEPT ![e] = 0]

Deliver(e) ==
  /\ tries[e] # Nothing
  /\ tries' = [tries EXCEPT ![e] = Nothing]
  /\ delivered' = [delivered EXCEPT ![e] = @ + 1]

\* the request is lost on its way, or the answer to it
FailingTry(e) ==
  /\ tries[e] # Nothing
  /\ tries' = [tries EXCEPT ![e] = IF @ < MaxRetry THEN @ + 1 ELSE Nothing]
  /\ delivered' \in {delivered, [delivered EXCEPT ![e] = @ + 1]}

GiveUpRetry(e) ==
  /\ tries[e] # Nothing /\ tries[e] # 0
  /\ Cardinality({d \in Ids : tries[d] # Nothing}) > Capacity
  /\ tries' = [tries EXCEPT ![e] = Nothing]
  /\ UNCHANGED delivered

ChannelNext == \E e \in Ids : Accept(e) \/ Deliver(e) \/ FailingTry(e) \/ GiveUpRetry(e)

ChannelSpec == ChannelInit /\ [][ChannelNext]_channelVars
=============================================================================
