--------------------------- MODULE EventSubscriber ---------------------------
(***************************************************************************)
(* The PA's event stack: EventSubscriber of                                *)
(* src/faith_shared/protocol/subscriber.py with its stall detector and its *)
(* completion batcher, as PAEventDispatcher of                             *)
(* src/faith_pa/pa/event_dispatcher.py puts them together.                 *)
(*                                                                         *)
(* The listener takes one event at a time from the Redis channel, shows it *)
(* to the detector, offers it to the batcher and dispatches what the       *)
(* batcher does not take; it suspends while handlers run.  The detector's  *)
(* tick loop, the timers of the batches and the PA's own calls interleave. *)
(* What the detector publishes goes through the same Redis channel and     *)
(* comes back to the listener.                                             *)
(***************************************************************************)
EXTENDS CompletionBatcher, StallDetector, FiniteSets

CONSTANTS Publishers,  \* the agents that publish events
          Expectable,  \* the sets of agents the PA waits for
          MaxEvents,   \* bound on the events the agents publish
          MaxQueue,    \* bound on the events published and not yet read
          MaxStarts    \* bound on the calls of start

VARIABLES queue,     \* published and not yet read by the subscriber
          sent,      \* the number of events agents have published
          listener,  \* the listener task: "off", "idle", "busy" with handlers, or
                     \* "dead" because an exception has ended it
          starts,    \* the calls of start, each of which adds _dispatch once more
          stopping,  \* whether a call of stop waits for the detector's task
          incident   \* per channel, the stall reports since the last activity, up to 2

subscriberVars == <<queue, sent, listener, starts, stopping, incident>>
vars == <<batcherVars, detectorVars, subscriberVars>>

\* An event without a channel, or with one the detector was never told of.
NoChannel == "no channel"

\* immediate_events of the dispatcher, among the types modelled.
Immediate == {"agent:error", "channel:stalled"}

SubscriberInit ==
  /\ queue = <<>> /\ sent = 0
  /\ listener = "off" /\ starts = 0 /\ stopping = FALSE
  /\ incident = [c \in Channels |-> 0]

Init == BatcherInit /\ DetectorInit /\ SubscriberInit

\* The types of the events that are published here.
Types == Immediate \cup {"agent:heartbeat", "agent:task_complete", "agent:task_blocked"}

\* Agents' events are numbered, to tell them apart; the detector's are not.
Event(id, type, key, channel) == [id |-> id, type |-> type, key |-> key, channel |-> channel]

\* Redis delivers to whoever is subscribed when the event is published; a failed
\* publication is logged and swallowed.
Publish(e) ==
  queue' \in {queue} \cup
    IF listener \in {"idle", "busy"} /\ Len(queue) < MaxQueue THEN {Append(queue, e)} ELSE {}

-----------------------------------------------------------------------------
(* The listener.                                                           *)

\* The loop goes on to the next message, or ends because stop has begun.
Resume == listener' = IF stopping THEN "off" ELSE "idle"

\* on_event, and the dispatch of an event that is not taken.  The callback of a
\* complete batch and the handlers of a dispatched event suspend the listener.
Offer(e) ==
  \/ /\ e.type \notin Immediate
     /\ \E b \in Batches : Buffer(b, e)
     /\ Resume
  \/ /\ e.type \notin Immediate
     /\ \E b \in Batches : Complete(b, e)
     /\ listener' = "busy"
  \/ /\ e.type \in Immediate \/ \A b \in Batches : ~Takes(b, e)
     /\ listener' = "busy"
     /\ UNCHANGED batcherVars

\* get_message returns a message; this may also happen once after stop has begun.
Receive ==
  /\ listener = "idle" /\ queue # <<>>
  /\ queue' = Tail(queue)
  /\ RecordEvent(Head(queue))
  /\ incident' = [c \in Channels |->
       IF Head(queue).channel = c /\ Head(queue).type # "channel:stalled" THEN 0 ELSE incident[c]]
  /\ Offer(Head(queue))
  /\ UNCHANGED <<sent, starts, stopping>>

\* The handlers have returned.
Handled ==
  /\ listener = "busy"
  /\ Resume
  /\ UNCHANGED <<batcherVars, detectorVars, queue, sent, starts, stopping, incident>>

\* get_message raises, say because Redis is gone.  Nothing catches that: the task
\* ends and unsubscribes, the subscriber counts as running and start does nothing.
ListenerDies ==
  /\ listener = "idle"
  /\ listener' = "dead" /\ queue' = <<>>
  /\ UNCHANGED <<batcherVars, detectorVars, sent, starts, stopping, incident>>

-----------------------------------------------------------------------------
(* The detector and the agents.                                            *)

\* The tick loop runs to its next await and publishes what it has flagged.
Tick ==
  /\ TickStep
  /\ LET flagged == stalledChannels' \ stalledChannels
         errored == erroredAgents' \ erroredAgents
     IN /\ incident' = [c \in Channels |->
                          IF c \in flagged /\ incident[c] < 2 THEN incident[c] + 1 ELSE incident[c]]
        /\ \/ \E c \in flagged : Publish(Event(0, "channel:stalled", "pa", c))
           \/ \E a \in errored : Publish(Event(0, "agent:error", a, NoChannel))
           \/ flagged \cup errored = {} /\ UNCHANGED queue
  /\ UNCHANGED <<batcherVars, sent, listener, starts, stopping>>

\* The events agents publish with the publisher's helpers.  None of them carries a
\* task_id (the task is data "task"), so their key is the agent.
AgentEvent(a) ==
  /\ sent < MaxEvents
  /\ sent' = sent + 1
  /\ \/ Publish(Event(sent', "agent:heartbeat", a, NoChannel))
     \/ \E c \in Channels \cup {NoChannel}, type \in {"agent:task_complete", "agent:task_blocked"} :
          Publish(Event(sent', type, a, c))
  /\ UNCHANGED <<batcherVars, detectorVars, listener, starts, stopping, incident>>

-----------------------------------------------------------------------------
(* The PA's own calls.                                                     *)

\* expect_completion_batch.
ExpectBatch(b, S) ==
  /\ Expect(b, S)
  /\ UNCHANGED <<detectorVars, subscriberVars>>

BatchTimer(b) ==
  /\ TimedOut(b)
  /\ UNCHANGED <<detectorVars, subscriberVars>>

CancelBatch(b) ==
  /\ Cancel(b)
  /\ UNCHANGED <<detectorVars, subscriberVars>>

\* register_channel and unregister_channel.
ChannelCall(c) ==
  /\ RegisterChannel(c) \/ UnregisterChannel(c)
  /\ incident' = [incident EXCEPT ![c] = 0]
  /\ UNCHANGED <<batcherVars, queue, sent, listener, starts, stopping>>

\* register_agent and unregister_agent.
AgentCall(a) ==
  /\ RegisterAgent(a) \/ UnregisterAgent(a)
  /\ UNCHANGED <<batcherVars, subscriberVars>>

Overdue ==
  /\ \/ \E c \in Channels : BecomesQuiet(c)
     \/ \E a \in Agents : BecomesSilent(a)
  /\ UNCHANGED <<batcherVars, subscriberVars>>

Start ==
  /\ starts < MaxStarts
  /\ starts' = starts + 1
  /\ ~stopping
  /\ StartDetector
  /\ listener' = IF listener = "off" THEN "idle" ELSE listener
  /\ UNCHANGED <<batcherVars, queue, sent, stopping, incident>>

\* stop waits for the tick loop, then cancels the listener wherever it is; what
\* Redis had for it is gone.
BeginStop ==
  /\ listener # "off" /\ ~stopping
  /\ stopping' = TRUE
  /\ StopDetector
  /\ UNCHANGED <<batcherVars, queue, sent, listener, starts, incident>>
FinishStop ==
  /\ stopping
  /\ stopping' = FALSE
  /\ listener' = "off" /\ queue' = <<>>
  /\ UNCHANGED <<batcherVars, detectorVars, sent, starts, incident>>

Next ==
  \/ Receive \/ Handled \/ ListenerDies \/ Tick
  \/ \E a \in Publishers : AgentEvent(a)
  \/ \E b \in Batches :
       \/ \E S \in Expectable : ExpectBatch(b, S)
       \/ BatchTimer(b)
       \/ CancelBatch(b)
  \/ \E c \in Channels : ChannelCall(c)
  \/ \E a \in Agents : AgentCall(a)
  \/ Overdue \/ Start \/ BeginStop \/ FinishStop

Spec == Init /\ [][Next]_vars

\* The event loop resumes the tick loop after its sleep and after a publication.
\* Nothing makes the PA call, an agent publish or the listener go on.
FairSpec == Spec /\ WF_vars(Tick)

-----------------------------------------------------------------------------
(* Properties.                                                             *)

\* Urgent events are never put into a batch, whoever published them and whatever
\* waits for their source.
UrgentNeverBatched ==
  \A n \in DOMAIN log : \A e \in Collected(n) : e.type \notin Immediate

\* A channel that stays quiet, and an agent that stays silent, is flagged, even
\* when the report of another one suspends the check: either it is flagged, or it
\* is heard of again, or nobody watches it any more.
OverdueIsFlagged ==
  /\ \A c \in Channels :
       (c \in quiet /\ tick # "off") ~> (c \in stalledChannels \/ c \notin quiet \/ tick = "off")
  /\ \A a \in Agents :
       (a \in silent /\ tick # "off") ~> (a \in erroredAgents \/ a \notin silent \/ tick = "off")

\* "until all expected task results arrive": a batch is reported complete when every
\* expected task is.  It does not hold: a heartbeat counts as the task's event.
CompleteMeansCompleted ==
  \A n \in DOMAIN log : log[n].fate = "complete" =>
    \A i \in DOMAIN log[n].events : log[n].events[i].type = "agent:task_complete"

\* "Publish each stall incident only once until activity resumes."  It does not hold:
\* the report is an event of the channel and counts as activity.
StallReportedOnce == \A c \in Channels : incident[c] <= 1
=============================================================================
